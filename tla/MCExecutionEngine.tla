-------------------------- MODULE MCExecutionEngine --------------------------
(***************************************************************************)
(* Instances of ExecutionEngine for TLC.  Steps a and b run agents or      *)
(* tools, g and h are approval gates.                                      *)
(***************************************************************************)
EXTENDS ExecutionEngine, TLC

(* a -> g beside b: the failure of b can cross the opening of g.           *)
GatedSteps == <<{"a", "g", "b"}>>
GateAfterADeps == <<[x \in {"a", "g", "b"} |-> IF x = "g" THEN {"a"} ELSE {}]>>

FailOnTimeout == [g \in {"g"} |-> "fail"]
SkipOnTimeout == [g \in {"g"} |-> "skip"]

(* The chain a -> b.                                                       *)
ChainSteps == <<{"a", "b"}>>
ChainDeps == <<[x \in {"a", "b"} |-> IF x = "a" THEN {} ELSE {"a"}]>>

NoTimeouts == [g \in {} |-> "fail"]

(* a beside the gates g and h, of which b follows g; the timeout of g lets *)
(* the execution go on, that of h ends it.                                 *)
TwoGatesSteps == <<{"a", "b", "g", "h"}>>
TwoGatesDeps == <<[x \in {"a", "b", "g", "h"} |-> IF x = "b" THEN {"g"} ELSE {}]>>
SkipOrFail == [g \in {"g", "h"} |-> IF g = "g" THEN "skip" ELSE "fail"]

(* a beside the gate g, hot-changed to a version in which c follows a.     *)
GateHotSteps == <<{"a", "g"}, {"a", "g", "c"}>>
GateHotDeps == [v \in 1..2 |-> [x \in GateHotSteps[v] |-> IF x = "c" THEN {"a"} ELSE {}]]

SessionSymmetry == Permutations(Sessions)
=============================================================================
