--------------------------- MODULE ProjectorProofs ---------------------------
(***************************************************************************)
(* What project_state computes, for every journal and checkpoint: the      *)
(* recursion of ProjectState is well defined, a projection depends on the  *)
(* rows up to its end only, and projecting from a checkpoint that agrees   *)
(* with the journal gives what replaying the whole journal gives.          *)
(***************************************************************************)
EXTENDS Projector, WellFoundedInduction, TLAPS

(* A set of numbers has a least member: the form in which the proofs below *)
(* use induction.                                                          *)
LEMMA LeastNumber ==
  ASSUME NEW T, T \subseteq Nat, T # {}
  PROVE  \E n \in T : \A m \in T : n <= m
<1> DEFINE R == OpToRel(<, Nat)
<1>1. IsWellFoundedOn(R, Nat)
  BY NatLessThanWellFounded
<1>2. PICK x \in T : \A y \in T : ~ (<<y, x>> \in R)
  BY <1>1, WFMin, Zenon
<1>3. \A y \in T : <<y, x>> \in R <=> y < x
  BY DEF OpToRel
<1> HIDE DEF R
<1>4. \A y \in T : ~ (y < x)
  BY <1>2, <1>3
<1>5. x \in Nat /\ \A y \in T : y \in Nat
  OBVIOUS
<1>6. \A y \in T : x <= y
  BY <1>4, <1>5
<1> QED  BY <1>6

(* A bounded set of numbers has a greatest member.                         *)
LEMMA GreatestNumber ==
  ASSUME NEW T, T \subseteq Nat, T # {}, NEW b \in Nat, \A n \in T : n <= b
  PROVE  \E n \in T : \A m \in T : m <= n
<1> DEFINE U == {k \in Nat : \A n \in T : n <= k}
<1>1. U \subseteq Nat /\ U # {}
  OBVIOUS
<1>2. PICK k \in U : \A m \in U : k <= m
  BY <1>1, LeastNumber
<1>3. k \in Nat /\ \A n \in T : n <= k
  OBVIOUS
<1>4. CASE k \in T
  BY <1>3, <1>4
<1>5. CASE k \notin T
  <2>1. \A n \in T : n \in Nat /\ n < k
    BY <1>3, <1>5
  <2>2. PICK t \in T : t \in Nat /\ t < k
    BY <2>1
  <2>3. k - 1 \in Nat
    BY <1>3, <2>2
  <2>4. \A n \in T : n <= k - 1
    BY <1>3, <2>1
  <2>5. k - 1 \in U
    BY <2>3, <2>4
  <2> QED  BY <1>2, <1>3, <2>5
<1> QED  BY <1>4, <1>5

-----------------------------------------------------------------------------
(* The function ProjectState defines by recursion.                         *)

Step(v, j, c, n) == IF n <= c.last THEN c.view ELSE Apply(v[n - 1], j[n])

IsView(v, j, c, k) == v = [n \in 0..k |-> Step(v, j, c, n)]

(* There is such a function, up to any length.                             *)
LEMMA ViewExists ==
  ASSUME NEW j, NEW c, c.last \in Nat, NEW k \in Nat
  PROVE  \E v : IsView(v, j, c, k)
<1> DEFINE Bad == {n \in Nat : ~ \E v : IsView(v, j, c, n)}
<1> SUFFICES ASSUME Bad # {} PROVE FALSE
  OBVIOUS
<1>1. PICK n \in Bad : \A m \in Bad : n <= m
  BY LeastNumber
<1>2. n # 0
  <2>1. IsView([m \in 0..0 |-> c.view], j, c, 0)
    BY DEF IsView, Step
  <2> QED  BY <1>1, <2>1
<1>3. PICK v : IsView(v, j, c, n - 1)
  BY <1>1, <1>2
<1>4. n \in Nat /\ n > 0
  BY <1>2
<1> HIDE DEF Bad
<1> DEFINE w == [m \in 0..n |-> IF m < n THEN v[m] ELSE Step(v, j, c, n)]
<1>5. \A m \in 0..(n-1) : w[m] = v[m] /\ v[m] = Step(v, j, c, m)
  BY <1>3, <1>4 DEF IsView
<1>6. w[n] = Step(v, j, c, n)
  BY <1>4
<1>7. w = [m \in 0..n |-> w[m]]
  OBVIOUS
<1> HIDE DEF w
<1>8. \A m \in 0..(n-1) : w[m] = Step(w, j, c, m)
  <2> SUFFICES ASSUME NEW m \in 0..(n-1) PROVE w[m] = Step(w, j, c, m)
    OBVIOUS
  <2>1. m # 0 => m - 1 \in 0..(n-1)
    BY <1>4
  <2>2. m = 0 => m <= c.last
    OBVIOUS
  <2> QED  BY <1>4, <1>5, <2>1, <2>2 DEF Step
<1>9. w[n] = Step(w, j, c, n)
  <2>1. n - 1 \in 0..(n-1)
    BY <1>4
  <2> QED  BY <1>5, <1>6, <2>1 DEF Step
<1>10. \A m \in 0..n : w[m] = Step(w, j, c, m)
  <2>1. \A m \in 0..n : m = n \/ m \in 0..(n-1)
    BY <1>4
  <2> QED  BY <1>8, <1>9, <2>1
<1>11. IsView(w, j, c, n)
  BY <1>7, <1>10 DEF IsView
<1> QED  BY <1>11 DEF Bad

ViewOf(j, c) == CHOOSE v : IsView(v, j, c, Len(j))

(* The value of a projection.                                              *)
LEMMA ProjectIs ==
  ASSUME NEW j, NEW c
  PROVE  ProjectState(j, c) = [view |-> ViewOf(j, c)[Len(j)],
                               last |-> IF Len(j) > c.last THEN Len(j) ELSE c.last]
BY DEF ProjectState, ViewOf, IsView, Step

(* The equations of the recursion.                                         *)
LEMMA ViewOfIs ==
  ASSUME NEW j, NEW c, c.last \in Nat, Len(j) \in Nat
  PROVE  \A n \in 0..Len(j) : ViewOf(j, c)[n] = Step(ViewOf(j, c), j, c, n)
<1>1. IsView(ViewOf(j, c), j, c, Len(j))
  BY ViewExists DEF ViewOf
<1> DEFINE v == ViewOf(j, c)
<1> HIDE DEF v
<1>2. v = [n \in 0..Len(j) |-> Step(v, j, c, n)]
  BY <1>1 DEF v, IsView
<1>3. \A n \in 0..Len(j) : v[n] = Step(v, j, c, n)
  BY <1>2
<1> QED  BY <1>3 DEF v

-----------------------------------------------------------------------------
(* The view after the first n rows of a journal.                           *)
ViewAt(j, n) == ViewOf(j, NoCheckpoint)[n]

LEMMA ViewAtIs ==
  ASSUME NEW j, Len(j) \in Nat
  PROVE  /\ ViewAt(j, 0) = EmptyView
         /\ \A n \in 1..Len(j) : ViewAt(j, n) = Apply(ViewAt(j, n - 1), j[n])
<1>1. NoCheckpoint.last = 0 /\ NoCheckpoint.view = EmptyView
  BY DEF NoCheckpoint
<1>2. \A n \in 0..Len(j) :
        ViewOf(j, NoCheckpoint)[n] = Step(ViewOf(j, NoCheckpoint), j, NoCheckpoint, n)
  BY <1>1, ViewOfIs
<1> QED  BY <1>1, <1>2 DEF ViewAt, Step

(* Replaying a journal.                                                    *)
LEMMA ReplayIs ==
  ASSUME NEW j, Len(j) \in Nat
  PROVE  Replay(j) = [view |-> ViewAt(j, Len(j)), last |-> Len(j)]
<1>1. NoCheckpoint.last = 0
  BY DEF NoCheckpoint
<1> QED  BY <1>1, ProjectIs DEF Replay, ViewAt

(* The journal k starts with the rows of j: rows are only appended.        *)
StartsWith(k, j) ==
  /\ Len(j) <= Len(k)
  /\ \A i \in 1..Len(j) : k[i] = j[i]

(* A view depends on the rows up to it only.                               *)
LEMMA ViewAtPrefix ==
  ASSUME NEW j, NEW k, Len(j) \in Nat, Len(k) \in Nat, StartsWith(k, j)
  PROVE  \A n \in 0..Len(j) : ViewAt(k, n) = ViewAt(j, n)
<1> DEFINE Bad == {n \in Nat : n <= Len(j) /\ ViewAt(k, n) # ViewAt(j, n)}
<1> SUFFICES ASSUME Bad # {} PROVE FALSE
  OBVIOUS
<1>1. PICK n \in Bad : \A m \in Bad : n <= m
  BY LeastNumber
<1>2. n \in Nat /\ n <= Len(j) /\ ViewAt(k, n) # ViewAt(j, n)
  BY <1>1
<1>3. n # 0
  BY <1>2, ViewAtIs
<1>4. ViewAt(k, n - 1) = ViewAt(j, n - 1)
  BY <1>1, <1>2, <1>3
<1>5. n \in 1..Len(j) /\ n \in 1..Len(k) /\ k[n] = j[n]
  BY <1>2, <1>3 DEF StartsWith
<1>6. /\ ViewAt(j, n) = Apply(ViewAt(j, n - 1), j[n])
      /\ ViewAt(k, n) = Apply(ViewAt(k, n - 1), k[n])
  BY <1>5, ViewAtIs
<1> QED  BY <1>2, <1>4, <1>5, <1>6

(* A state, or a checkpoint, that agrees with the journal: it is the view  *)
(* after the row whose number it carries.                                  *)
Agrees(c, j) == c.last \in 0..Len(j) /\ c.view = ViewAt(j, c.last)

(* It goes on agreeing while rows are appended.                            *)
LEMMA AgreesOn ==
  ASSUME NEW c, NEW j, NEW k, Len(j) \in Nat, Len(k) \in Nat, StartsWith(k, j), Agrees(c, j)
  PROVE  Agrees(c, k)
<1>1. c.last \in 0..Len(j) /\ c.last \in 0..Len(k)
  BY DEF Agrees, StartsWith
<1> QED  BY <1>1, ViewAtPrefix DEF Agrees

(* project_state from a checkpoint that agrees with the journal computes   *)
(* the state that replaying the whole journal computes.                    *)
THEOREM ProjectionIsReplay ==
  ASSUME NEW j, NEW c, Len(j) \in Nat, Agrees(c, j)
  PROVE  ProjectState(j, c) = Replay(j)
<1>1. c.last \in Nat /\ c.last <= Len(j) /\ c.view = ViewAt(j, c.last)
  BY DEF Agrees
<1> DEFINE v == ViewOf(j, c)
           Bad == {n \in Nat : c.last <= n /\ n <= Len(j) /\ v[n] # ViewAt(j, n)}
<1>2. \A n \in 0..Len(j) : v[n] = Step(v, j, c, n)
  BY <1>1, ViewOfIs
<1> HIDE DEF v
<1>3. Bad = {}
  <2> SUFFICES ASSUME Bad # {} PROVE FALSE
    OBVIOUS
  <2>1. PICK n \in Bad : \A m \in Bad : n <= m
    BY LeastNumber
  <2>2. n \in Nat /\ c.last <= n /\ n <= Len(j) /\ v[n] # ViewAt(j, n)
    BY <2>1
  <2>3. n # c.last
    BY <1>1, <1>2, <2>2 DEF Step
  <2>4. v[n - 1] = ViewAt(j, n - 1)
    <3>1. n - 1 \in Nat /\ c.last <= n - 1 /\ n - 1 <= Len(j) /\ ~ (n <= n - 1)
      BY <1>1, <2>2, <2>3
    <3> QED  BY <2>1, <3>1
  <2>5. v[n] = Apply(v[n - 1], j[n])
    BY <1>1, <1>2, <2>2, <2>3 DEF Step
  <2>6. n \in 1..Len(j)
    BY <1>1, <2>2, <2>3
  <2>7. ViewAt(j, n) = Apply(ViewAt(j, n - 1), j[n])
    BY <2>6, ViewAtIs
  <2> QED  BY <2>2, <2>4, <2>5, <2>7
<1>4. v[Len(j)] = ViewAt(j, Len(j))
  BY <1>1, <1>3
<1>5. (IF Len(j) > c.last THEN Len(j) ELSE c.last) = Len(j)
  BY <1>1
<1> QED  BY <1>4, <1>5, ProjectIs, ReplayIs DEF v

(* The replayed state agrees with the journal.                             *)
LEMMA ReplayAgrees ==
  ASSUME NEW j, Len(j) \in Nat
  PROVE  Agrees(Replay(j), j)
BY ReplayIs DEF Agrees

(* The empty state and the missing checkpoint agree with every journal.    *)
LEMMA EmptyAgrees ==
  ASSUME NEW j, Len(j) \in Nat, NEW c, c.last = 0, c.view = EmptyView
  PROVE  Agrees(c, j)
BY ViewAtIs DEF Agrees
-----------------------------------------------------------------------------
(* What every row preserves of a view, a projection preserves of the       *)
(* checkpoint's.                                                           *)
LEMMA ProjectKeeps ==
  ASSUME NEW j, NEW c, Len(j) \in Nat, c.last \in Nat, NEW P, c.view \in P,
         \A i \in 1..Len(j), v \in P : Apply(v, j[i]) \in P
  PROVE  ProjectState(j, c).view \in P
<1> DEFINE w == ViewOf(j, c)
           Bad == {n \in Nat : n <= Len(j) /\ w[n] \notin P}
<1>1. \A n \in 0..Len(j) : w[n] = Step(w, j, c, n)
  BY ViewOfIs
<1> HIDE DEF w
<1>2. Bad = {}
  <2> SUFFICES ASSUME Bad # {} PROVE FALSE
    OBVIOUS
  <2>1. PICK n \in Bad : \A m \in Bad : n <= m
    BY LeastNumber
  <2>2. n \in Nat /\ n <= Len(j) /\ w[n] \notin P
    BY <2>1
  <2>3. ~ (n <= c.last) /\ w[n] = Apply(w[n - 1], j[n])
    BY <1>1, <2>2 DEF Step
  <2>4. n - 1 \in Nat /\ n - 1 <= Len(j) /\ n \in 1..Len(j) /\ ~ (n <= n - 1)
    BY <2>2, <2>3
  <2>5. w[n - 1] \in P
    BY <2>1, <2>4
  <2> QED  BY <2>2, <2>3, <2>4, <2>5
<1>3. w[Len(j)] \in P
  BY <1>2
<1> QED  BY <1>3, ProjectIs DEF w

(* What holds of the view after row m and is preserved by the later rows   *)
(* holds of the replayed state.                                            *)
LEMMA ReplayKeeps ==
  ASSUME NEW j, Len(j) \in Nat, NEW P, NEW m \in 0..Len(j), ViewAt(j, m) \in P,
         \A i \in 1..Len(j), v \in P : i > m => Apply(v, j[i]) \in P
  PROVE  Replay(j).view \in P
<1> DEFINE Bad == {n \in Nat : m <= n /\ n <= Len(j) /\ ViewAt(j, n) \notin P}
<1>1. Bad = {}
  <2> SUFFICES ASSUME Bad # {} PROVE FALSE
    OBVIOUS
  <2>1. PICK n \in Bad : \A k \in Bad : n <= k
    BY LeastNumber
  <2>2. n \in Nat /\ m <= n /\ n <= Len(j) /\ ViewAt(j, n) \notin P
    BY <2>1
  <2>3. n # m
    BY <2>2
  <2>4. n - 1 \in Nat /\ m <= n - 1 /\ n - 1 <= Len(j) /\ n \in 1..Len(j) /\ ~ (n <= n - 1)
    BY <2>2, <2>3
  <2>5. ViewAt(j, n - 1) \in P
    BY <2>1, <2>4
  <2>6. ViewAt(j, n) = Apply(ViewAt(j, n - 1), j[n])
    BY <2>4, ViewAtIs
  <2> QED  BY <2>2, <2>3, <2>4, <2>5, <2>6
<1>2. ViewAt(j, Len(j)) \in P
  BY <1>1
<1> QED  BY <1>2, ReplayIs

-----------------------------------------------------------------------------
(* Journals over a set A of steps.                                         *)

(* The effect of a row, by its type.                                       *)
LEMMA ApplyIs ==
  ASSUME NEW v, NEW e
  PROVE  /\ e.type = "created" => Apply(v, e) = [completed |-> e.view.completed, active |-> {},
                                           pending |-> e.view.pending \ e.view.completed]
         /\ e.type = "rolled_back" => Apply(v, e) = e.view
         /\ e.type \in MovesToActive => Apply(v, e) = MoveToActive(v, e.step)
         /\ e.type \in MarksCompleted => Apply(v, e) = MarkCompleted(v, e.step)
         /\ e.type \in RemovesActive => Apply(v, e) = RemoveActive(v, e.step)
         /\ e.type \notin {"created", "rolled_back"} \cup MovesToActive \cup MarksCompleted \cup RemovesActive
              => Apply(v, e) = v
<1>1. e.type = "created" => Apply(v, e) = [completed |-> e.view.completed, active |-> {},
                                           pending |-> e.view.pending \ e.view.completed]
  BY DEF Apply, MovesToActive, MarksCompleted, RemovesActive
<1>2. e.type = "rolled_back" => Apply(v, e) = e.view
  BY DEF Apply, MovesToActive, MarksCompleted, RemovesActive
<1>3. e.type \in MovesToActive => Apply(v, e) = MoveToActive(v, e.step)
  BY DEF Apply, MovesToActive, MarksCompleted, RemovesActive
<1>4. e.type \in MarksCompleted => Apply(v, e) = MarkCompleted(v, e.step)
  BY DEF Apply, MovesToActive, MarksCompleted, RemovesActive
<1>5. e.type \in RemovesActive => Apply(v, e) = RemoveActive(v, e.step)
  BY DEF Apply, MovesToActive, MarksCompleted, RemovesActive
<1>6. e.type \notin {"created", "rolled_back"} \cup MovesToActive \cup MarksCompleted \cup RemovesActive
              => Apply(v, e) = v
  BY DEF Apply, MovesToActive, MarksCompleted, RemovesActive
<1> QED BY <1>1, <1>2, <1>3, <1>4, <1>5, <1>6

ViewsOver(A) == [completed : SUBSET A, active : SUBSET A, pending : SUBSET A]
EventTypes == {"created", "rolled_back", "queued", "reprioritized", "resumed", "compensated",
               "hot_changed"} \cup MovesToActive \cup MarksCompleted \cup RemovesActive
EventsOver(A) == [type : EventTypes, step : A \cup {NoStep}, view : ViewsOver(A)]

(* A row leaves a view over the steps one.                                 *)
LEMMA ApplyType ==
  ASSUME NEW A, NEW v \in ViewsOver(A), NEW e \in EventsOver(A)
  PROVE  Apply(v, e) \in ViewsOver(A)
<1>1. /\ e.step \in A \cup {NoStep} /\ e.view \in ViewsOver(A)
      /\ e.view.completed \subseteq A /\ e.view.pending \subseteq A
  BY DEF EventsOver, ViewsOver
<1>2. MoveToActive(v, e.step) \in ViewsOver(A)
  BY <1>1 DEF MoveToActive, ViewsOver
<1>3. MarkCompleted(v, e.step) \in ViewsOver(A)
  BY <1>1 DEF MarkCompleted, ViewsOver
<1>4. RemoveActive(v, e.step) \in ViewsOver(A)
  BY <1>1 DEF RemoveActive, ViewsOver
<1>5. [completed |-> e.view.completed, active |-> {},
       pending |-> e.view.pending \ e.view.completed] \in ViewsOver(A)
  BY <1>1 DEF ViewsOver
<1> QED  BY <1>1, <1>2, <1>3, <1>4, <1>5 DEF Apply

(* So a projection is a view over the steps.                               *)
LEMMA ProjectType ==
  ASSUME NEW A, NEW j \in Seq(EventsOver(A)), NEW c, c.last \in Nat, c.view \in ViewsOver(A)
  PROVE  ProjectState(j, c) \in [view : ViewsOver(A), last : Nat]
<1>1. \A i \in 1..Len(j), v \in ViewsOver(A) : Apply(v, j[i]) \in ViewsOver(A)
  BY ApplyType
<1>2. ProjectState(j, c).view \in ViewsOver(A)
  BY <1>1, ProjectKeeps
<1>3. /\ ProjectState(j, c).last = IF Len(j) > c.last THEN Len(j) ELSE c.last
      /\ ProjectState(j, c) = [view |-> ProjectState(j, c).view,
                               last |-> ProjectState(j, c).last]
  BY ProjectIs
<1> QED  BY <1>2, <1>3

(* What a row brings into the lists: the steps it completes and the steps  *)
(* it makes active.                                                        *)
Completes(e) ==
  IF e.type \in {"created", "rolled_back"} THEN e.view.completed
  ELSE IF e.type \in MarksCompleted THEN {e.step} \ {NoStep} ELSE {}

Activates(e) ==
  IF e.type = "rolled_back" THEN e.view.active
  ELSE IF e.type \in MovesToActive THEN {e.step} \ {NoStep} ELSE {}

(* A row that does not replace the lists adds what it completes.           *)
LEMMA ApplyCompletes ==
  ASSUME NEW A, NEW v \in ViewsOver(A), NEW e, e.type \notin {"created", "rolled_back"}
  PROVE  /\ Apply(v, e).completed = v.completed \cup Completes(e)
         /\ Apply(v, e).active \subseteq v.active \cup Activates(e)
<1>1. CASE e.type \in MovesToActive
  <2>1. Apply(v, e) = MoveToActive(v, e.step)
    BY <1>1, ApplyIs
  <2>2. Completes(e) = {} /\ Activates(e) = {e.step} \ {NoStep}
    BY <1>1 DEF Completes, Activates, MovesToActive, MarksCompleted
  <2> QED  BY <2>1, <2>2 DEF MoveToActive, ViewsOver
<1>2. CASE e.type \in MarksCompleted
  <2>1. Apply(v, e) = MarkCompleted(v, e.step)
    BY <1>2, ApplyIs
  <2>2. Completes(e) = {e.step} \ {NoStep}
    BY <1>2 DEF Completes
  <2> QED  BY <2>1, <2>2 DEF MarkCompleted, ViewsOver
<1>3. CASE e.type \notin MovesToActive \cup MarksCompleted
  <2>1. Apply(v, e) = RemoveActive(v, e.step) \/ Apply(v, e) = v
    BY <1>3, ApplyIs
  <2>2. Completes(e) = {}
    BY <1>3 DEF Completes
  <2> QED  BY <2>1, <2>2 DEF RemoveActive, ViewsOver
<1> QED  BY <1>1, <1>2, <1>3

(* A row brings nothing else into the lists.                               *)
LEMMA ApplyWithin ==
  ASSUME NEW A, NEW v \in ViewsOver(A), NEW e, NEW C, NEW D,
         v.completed \subseteq C, v.active \subseteq D,
         Completes(e) \subseteq C, Activates(e) \subseteq D
  PROVE  Apply(v, e).completed \subseteq C /\ Apply(v, e).active \subseteq D
<1>1. CASE e.type \notin {"created", "rolled_back"}
  BY <1>1, ApplyCompletes
<1>2. CASE e.type = "created"
  BY <1>2, ApplyIs DEF Completes
<1>3. CASE e.type = "rolled_back"
  BY <1>3, ApplyIs DEF Completes, Activates
<1> QED  BY <1>1, <1>2, <1>3

(* A projection lists no step as completed or active that the checkpoint   *)
(* does not list and that no row brings in.                                *)
LEMMA ProjectWithin ==
  ASSUME NEW A, NEW j \in Seq(EventsOver(A)), NEW c, c.last \in Nat, c.view \in ViewsOver(A),
         NEW C, NEW D, c.view.completed \subseteq C, c.view.active \subseteq D,
         \A i \in 1..Len(j) : Completes(j[i]) \subseteq C /\ Activates(j[i]) \subseteq D
  PROVE  /\ ProjectState(j, c).view.completed \subseteq C
         /\ ProjectState(j, c).view.active \subseteq D
<1> DEFINE P == {v \in ViewsOver(A) : v.completed \subseteq C /\ v.active \subseteq D}
<1>1. ASSUME NEW i \in 1..Len(j), NEW v \in P
      PROVE  Apply(v, j[i]) \in P
  <2> DEFINE e == j[i]
  <2>1. /\ e \in EventsOver(A) /\ v \in ViewsOver(A)
        /\ v.completed \subseteq C /\ v.active \subseteq D
        /\ Completes(e) \subseteq C /\ Activates(e) \subseteq D
    OBVIOUS
  <2> HIDE DEF e
  <2>2. Apply(v, e) \in ViewsOver(A)
    BY <2>1, ApplyType
  <2>3. Apply(v, e).completed \subseteq C /\ Apply(v, e).active \subseteq D
    BY <2>1, ApplyWithin
  <2> QED  BY <2>2, <2>3 DEF e
<1>2. c.view \in P
  OBVIOUS
<1> HIDE DEF P
<1>3. ProjectState(j, c).view \in P
  BY <1>1, <1>2, ProjectKeeps
<1> QED  BY <1>3 DEF P

(* A step a row completes stays completed while no later row replaces the  *)
(* lists.                                                                  *)
LEMMA ReplayCompleted ==
  ASSUME NEW A, NEW j \in Seq(EventsOver(A)), NEW m \in 1..Len(j), NEW x \in Completes(j[m]),
         \A i \in 1..Len(j) : i > m => j[i].type \notin {"created", "rolled_back"}
  PROVE  x \in Replay(j).view.completed
<1> DEFINE P == {v \in ViewsOver(A) : x \in v.completed}
<1>1. ViewAt(j, m - 1) \in ViewsOver(A)
  <2> DEFINE k == SubSeq(j, 1, m - 1)
  <2>1. k \in Seq(EventsOver(A)) /\ Len(k) = m - 1 /\ StartsWith(j, k)
    BY DEF StartsWith
  <2> HIDE DEF k
  <2>2. NoCheckpoint.last \in Nat /\ NoCheckpoint.view \in ViewsOver(A)
    BY DEF NoCheckpoint, EmptyView, ViewsOver
  <2>3. Replay(k).view \in ViewsOver(A)
    BY <2>1, <2>2, ProjectType DEF Replay
  <2>4. ViewAt(j, m - 1) = ViewAt(k, m - 1) /\ Replay(k).view = ViewAt(k, m - 1)
    BY <2>1, ViewAtPrefix, ReplayIs
  <2> QED  BY <2>3, <2>4
<1>2. ViewAt(j, m) = Apply(ViewAt(j, m - 1), j[m]) /\ j[m] \in EventsOver(A)
  BY ViewAtIs
<1>3. ViewAt(j, m) \in P
  <2> DEFINE v == ViewAt(j, m - 1)
             e == j[m]
  <2>1. Apply(v, e) \in ViewsOver(A)
    BY <1>1, <1>2, ApplyType
  <2>2. v \in ViewsOver(A) /\ x \in Completes(e)
    BY <1>1
  <2> HIDE DEF v, e
  <2>3. x \in Apply(v, e).completed
    <3>1. CASE e.type \in {"created", "rolled_back"}
      BY <2>2, <3>1, ApplyIs DEF Completes
    <3>2. CASE e.type \notin {"created", "rolled_back"}
      BY <2>2, <3>2, ApplyCompletes
    <3> QED  BY <3>1, <3>2
  <2> QED  BY <1>2, <2>1, <2>3 DEF v, e
<1>4. ASSUME NEW i \in 1..Len(j), NEW v \in P, i > m
      PROVE  Apply(v, j[i]) \in P
  <2> DEFINE e == j[i]
  <2>1. /\ e \in EventsOver(A) /\ v \in ViewsOver(A) /\ x \in v.completed
        /\ e.type \notin {"created", "rolled_back"}
    BY <1>4
  <2> HIDE DEF e
  <2>2. Apply(v, e) \in ViewsOver(A)
    BY <2>1, ApplyType
  <2>3. x \in Apply(v, e).completed
    BY <2>1, ApplyCompletes
  <2> QED  BY <2>2, <2>3 DEF e
<1> HIDE DEF P
<1>5. m \in 0..Len(j) /\ Len(j) \in Nat
  OBVIOUS
<1>6. Replay(j).view \in P
  BY <1>3, <1>4, <1>5, ReplayKeeps
<1> QED  BY <1>6 DEF P
=============================================================================
