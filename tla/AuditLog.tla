------------------------------ MODULE AuditLog ------------------------------
(* What the audit package promises its callers: a log that only grows, by   *)
(* the records of one committed transaction at a time, numbered from 1      *)
(* without gaps, in which the only later change is that the reference to an *)
(* audited event may be erased (right to be forgotten).                     *)
EXTENDS Integers

CONSTANTS EventIds,      \* identifiers of audited events
          NULL           \* an erased or absent event reference

VARIABLE log             \* position -> [content, event]

IsLog(l) ==
  \A i \in DOMAIN l : i \in Nat \ {0} /\ (i > 1 => i - 1 \in DOMAIN l)

Init == IsLog(log)

\* A transaction commits: its records follow the ones already there.
AppendBatch ==
  /\ IsLog(log')
  /\ DOMAIN log \subseteq DOMAIN log'
  /\ \A i \in DOMAIN log : log'[i] = log[i]

\* The reference to one event is erased wherever it occurs in the part of the
\* log the caller may see; contents and positions stay.
EraseReference(e) ==
  \E seen \in SUBSET DOMAIN log :
    log' = [i \in DOMAIN log |->
              IF i \in seen /\ log[i].event = e
              THEN [log[i] EXCEPT !.event = NULL] ELSE log[i]]

Next == AppendBatch \/ \E e \in EventIds : EraseReference(e)

Spec == Init /\ [][Next]_log
=============================================================================
