--------------------- MODULE WorkspaceOwnershipProofs ---------------------
(* Proofs about WorkspaceOwnership, for every set of users, challenges,     *)
(* sessions and requests.                                                   *)
EXTENDS WorkspaceOwnership, FiniteSetTheorems, TLAPS

Creates(s) == request[s].op \in {"create", "initiate"}

(* A request under way is one of the requests that may be made.            *)
RequestsInv ==
  \A s \in Sessions :
    /\ pc[s] = "idle" => request[s] = NoRequest
    /\ pc[s] # "idle" => request[s] \in Requests

(* A session past the FOR UPDATE of its challenge holds that row's lock, and*)
(* the challenge is as its checks found it.                                 *)
Past(s) == pc[s] \notin {"idle", "challenge"}
Checked(s) ==
  LET c == request[s].challenge IN
  /\ lock[c] = s
  /\ request[s].op = "approve" =>
       challenges[c].status = "pending" /\ challenges[c].initiator # request[s].by
  /\ request[s].op = "consume" =>
       challenges[c].status = "approved" /\ challenges[c].initiator = request[s].by
ChallengeInv ==
  \A s \in Sessions : Past(s) /\ request[s].op \in {"approve", "consume"} => Checked(s)

(* A challenge that is being created is nobody else's.                      *)
FreshInv ==
  \A s \in Sessions : Creates(s) =>
    /\ challenges[request[s].challenge].status = "none"
    /\ \A t \in Sessions \ {s} : Creates(t) =>
         request[t].challenge # request[s].challenge

(* An approved challenge has a second signature.                            *)
SignedInv ==
  \A c \in Challenges : challenges[c].status = "approved" =>
    challenges[c].co_signer \in PlatformAdmins \ {challenges[c].initiator}

(* Where a request can be, by its operation.                                *)
OperationsAt(step) ==
  CASE step = "challenge" -> {"approve", "consume"}
    [] step = "workspace" -> Operations \ {"create", "approve"}
    [] step = "membership" -> Operations \ {"create", "approve", "admin_delete"}
    [] step = "target" -> {"add", "change", "remove", "consume"}
    [] step = "owners" -> {"remove"}
    [] step = "flush" -> Operations \ {"create", "initiate", "approve"}
    [] OTHER -> Operations \cup {NULL}
StepsInv ==
  \A s \in Sessions :
    /\ request[s].op \in OperationsAt(pc[s])
    /\ pc[s] \in {"workspace", "membership", "target", "flush"} /\ request[s].op = "consume" =>
         challenges[request[s].challenge].new_owner # NULL

Inv == TypeOK /\ RequestsInv /\ StepsInv /\ ChallengeInv /\ FreshInv /\ SignedInv

---------------------------------------------------------------------------
(* A request under way is well formed: its challenge and users exist, and   *)
(* only administrators approve.                                             *)
LEMMA RequestShape ==
  ASSUME RequestsInv, NEW s \in Sessions, pc[s] # "idle"
  PROVE  request[s] \in RequestType /\ Well(request[s])
BY ConstantsAssumption DEF RequestsInv

(* The initial state satisfies the invariant. *)
LEMMA InitInv == Init => Inv
<1> SUFFICES ASSUME Init PROVE Inv
  OBVIOUS
<1>1. TypeOK
  BY ConstantsAssumption DEF Init, TypeOK, Workspace, Challenge, Seen, Member, NoMember, NoChallenge, NothingSeen, Rows, Roles
<1>2. RequestsInv /\ ChallengeInv
  BY DEF Init, RequestsInv, ChallengeInv, Past
<1>3. FreshInv
  BY ConstantsAssumption DEF Init, FreshInv, Creates, NoRequest, Operations
<1>4. SignedInv
  BY DEF Init, SignedInv, NoChallenge
<1>5. StepsInv
  BY DEF Init, StepsInv, OperationsAt, NoRequest
<1> QED BY <1>1, <1>2, <1>3, <1>4, <1>5 DEF Inv

---------------------------------------------------------------------------
(* A step that changes neither challenges nor locks nor requests, and only  *)
(* moves a session on, keeps the invariant.                                 *)
LEMMA MoveOn ==
  ASSUME Inv, TypeOK', StepsInv', challenges' = challenges, lock' = lock, request' = request,
         NEW s \in Sessions, NEW x, pc' = [pc EXCEPT ![s] = x],
         Past(s), x \notin {"idle", "challenge"}
  PROVE  Inv'
<1>1. \A t \in Sessions : Past(t)' = Past(t) /\ (pc'[t] = "idle") = (pc[t] = "idle")
  BY DEF Inv, TypeOK, Past
<1>2. RequestsInv'
  BY <1>1 DEF Inv, RequestsInv
<1>3. ChallengeInv'
  BY <1>1 DEF Inv, ChallengeInv, Checked
<1>4. FreshInv' /\ SignedInv'
  BY DEF Inv, FreshInv, SignedInv, Creates
<1> QED BY <1>2, <1>3, <1>4 DEF Inv

(* Every membership a flush writes is a user's. *)
LEMMA WrittenAreUsers ==
  ASSUME Inv, NEW s \in Sessions, pc[s] # "idle"
  PROVE  /\ Written(s) \subseteq Users
         /\ HandsOver(s) => Target(s) \in Users
<1>1. request[s] \in RequestType /\ Well(request[s])
  BY RequestShape DEF Inv
<1>2. HandsOver(s) => Target(s) \in Users /\ request[s].by \in Users
  BY <1>1 DEF Inv, TypeOK, Challenge, HandsOver, Transfers, Target, RequestType, Well
<1>3. request[s].op \in {"add", "remove", "change"} => Target(s) \in Users
  BY <1>1 DEF Target, Well
<1> QED BY <1>2, <1>3 DEF Written

(* What Commit writes has the right types. *)
LEMMA CommitTypes ==
  ASSUME Inv, NEW s \in Sessions, pc[s] = "commit"
  PROVE  /\ NewWorkspace(s) \in Workspace
         /\ \A u \in Users : NewMember(s, u) \in Member
         /\ \A c \in Challenges :
              NewChallenge(s, c) \in Challenge
<1>1. request[s] \in RequestType /\ Well(request[s])
  BY RequestShape DEF Inv
<1>2. NewWorkspace(s) \in Workspace
  BY WrittenAreUsers DEF Inv, TypeOK, Workspace, NewWorkspace, StatusWritten
<1>3. ASSUME NEW u \in Users PROVE NewMember(s, u) \in Member
  <2>1. RoleWritten(s, u) \in Roles \cup {NULL}
    BY <1>1 DEF RoleWritten, RequestType, Roles
  <2>2. members[u] \in Member
    BY DEF Inv, TypeOK
  <2> QED BY <2>1, <2>2 DEF NewMember, Member
<1>4. ASSUME NEW c \in Challenges PROVE NewChallenge(s, c) \in Challenge
  <2> DEFINE old == challenges[c]
  <2>1. old \in Challenge
    BY DEF Inv, TypeOK
  <2>2. request[s].by \in Users /\ request[s].user \in Users \cup {NULL}
    BY <1>1 DEF RequestType
  <2>3. /\ [status |-> "pending", initiator |-> request[s].by, new_owner |-> request[s].user,
            co_signer |-> NULL, expired |-> FALSE] \in Challenge
        /\ [old EXCEPT !.status = "approved", !.co_signer = request[s].by] \in Challenge
        /\ [old EXCEPT !.status = "consumed"] \in Challenge
    <3> HIDE DEF old
    <3> QED BY <2>1, <2>2 DEF Challenge
  <2> QED BY <2>1, <2>3 DEF NewChallenge
<1> QED BY <1>2, <1>3, <1>4

---------------------------------------------------------------------------
(* Each step keeps the invariant. *)

(* Begin: a new request holds no lock, and a challenge it creates is new.   *)
LEMMA BeginInv ==
  ASSUME Inv, NEW s \in Sessions, NEW r \in Requests, Begin(s, r)
  PROVE  Inv'
<1> USE DEF Begin, Goto
<1>1. r \in RequestType /\ Well(r)
  BY ConstantsAssumption
<1>2. TypeOK'
  BY <1>1 DEF Inv, TypeOK, FirstStep
<1>3. RequestsInv'
  BY DEF Inv, TypeOK, RequestsInv, FirstStep
<1>4. ChallengeInv'
  <2> SUFFICES ASSUME NEW t \in Sessions, Past(t)', request'[t].op \in {"approve", "consume"}
               PROVE  Checked(t)'
    BY DEF ChallengeInv
  <2>1. t # s
    BY DEF Inv, TypeOK, Past, FirstStep
  <2>2. Past(t) /\ request'[t] = request[t]
    BY <2>1 DEF Inv, TypeOK, Past
  <2> QED BY <2>2 DEF Inv, ChallengeInv, Checked
<1>5. FreshInv'
  <2> SUFFICES ASSUME NEW t \in Sessions, Creates(t)'
               PROVE  /\ challenges[request'[t].challenge].status = "none"
                      /\ \A v \in Sessions \ {t} : Creates(v)' =>
                           request'[v].challenge # request'[t].challenge
    BY DEF FreshInv
  <2>1. \A v \in Sessions \ {s} : request'[v] = request[v]
    BY DEF Inv, TypeOK
  <2>2. request'[s] = r
    BY DEF Inv, TypeOK
  <2> QED BY <2>1, <2>2 DEF Inv, FreshInv, Creates
<1>6. SignedInv'
  BY DEF Inv, SignedInv
<1>7. StepsInv'
  <2> SUFFICES ASSUME NEW t \in Sessions
               PROVE  /\ request'[t].op \in OperationsAt(pc'[t])
                      /\ pc'[t] \in {"workspace", "membership", "target", "flush"}
                           /\ request'[t].op = "consume" =>
                             challenges[request'[t].challenge].new_owner # NULL
    BY DEF StepsInv
  <2>1. CASE t = s
    <3>1. request'[s] = r /\ pc'[s] = FirstStep(r.op) /\ r.op \in Operations
      BY <1>1 DEF Inv, TypeOK, RequestType
    <3> QED BY <2>1, <3>1 DEF FirstStep, OperationsAt, Operations
  <2>2. CASE t # s
    <3>1. request'[t] = request[t] /\ pc'[t] = pc[t]
      BY <2>2 DEF Inv, TypeOK
    <3> QED BY <3>1 DEF Inv, StepsInv
  <2> QED BY <2>1, <2>2
<1> QED BY <1>2, <1>3, <1>4, <1>5, <1>6, <1>7 DEF Inv

(* The FOR UPDATE of a challenge: the checks hold under the lock.           *)
LEMMA LockChallengeInv ==
  ASSUME Inv, NEW s \in Sessions, _get_for_update_or_raise(s)
  PROVE  Inv'
<1> USE DEF _get_for_update_or_raise, Goto
<1>1. request[s] \in RequestType /\ Well(request[s]) /\ pc[s] = "challenge"
  BY RequestShape DEF Inv
<1>2. TypeOK'
  BY ConstantsAssumption, <1>1 DEF Inv, TypeOK
<1>3. RequestsInv'
  BY DEF Inv, TypeOK, RequestsInv
<1>4. ChallengeInv'
  <2> SUFFICES ASSUME NEW t \in Sessions, Past(t)', request'[t].op \in {"approve", "consume"}
               PROVE  Checked(t)'
    BY DEF ChallengeInv
  <2>0. request[s].challenge \in Rows \/ request[s].op \notin {"approve", "consume"}
    BY <1>1 DEF Well, Rows
  <2>1. CASE t = s
    <3>1. lock'[request[s].challenge] = s
      BY <2>0, <2>1 DEF Inv, TypeOK
    <3> QED BY <2>1, <3>1 DEF Checked, MayApprove, MayConsume
  <2>2. CASE t # s
    <3>1. Past(t)
      BY <2>2 DEF Inv, TypeOK, Past
    <3>2. Checked(t)
      BY <3>1 DEF Inv, ChallengeInv
    <3>3. request[t].challenge # request[s].challenge
      BY <3>2, ConstantsAssumption DEF Checked
    <3>4. lock'[request[t].challenge] = t
      BY <3>2, <3>3 DEF Checked, Inv, TypeOK
    <3> QED BY <3>2, <3>4 DEF Checked
  <2> QED BY <2>1, <2>2
<1>5. FreshInv' /\ SignedInv'
  BY DEF Inv, FreshInv, SignedInv, Creates
<1>6. StepsInv'
  <2>1. \A t \in Sessions \ {s} : pc'[t] = pc[t]
    BY DEF Inv, TypeOK
  <2>2. /\ pc'[s] = IF Transfers(s) THEN "workspace" ELSE "commit"
        /\ request[s].op \in {"approve", "consume"}
    BY <1>1 DEF Inv, TypeOK, StepsInv, OperationsAt
  <2> QED BY <2>1, <2>2 DEF Inv, StepsInv, OperationsAt, Operations, Transfers
<1> QED BY <1>2, <1>3, <1>4, <1>5, <1>6 DEF Inv

(* The reads of a request: they change what it has seen and nothing else.   *)
LEMMA ReadsInv ==
  ASSUME Inv, NEW s \in Sessions,
         \/ get_workspace_by_id(s) \/ _require_membership(s)
         \/ get_membership(s) \/ count_owners(s)
  PROVE  Inv'
<1>1. request[s] \in RequestType
  BY RequestShape DEF Inv, get_workspace_by_id, _require_membership, get_membership, count_owners
<1> DEFINE k == seen[s]
<1>2. k \in Seen /\ seen \in [Sessions -> Seen]
  BY DEF Inv, TypeOK
<1>3. ASSUME NEW x \in {"workspace", "membership", "target", "owners", "flush", "commit"},
             pc' = [pc EXCEPT ![s] = x], pc[s] \notin {"idle", "challenge"},
             request[s].op \in OperationsAt(x),
             x # "commit" /\ request[s].op = "consume" =>
               challenges[request[s].challenge].new_owner # NULL,
             NEW m \in Seen, seen' = [seen EXCEPT ![s] = m],
             UNCHANGED <<workspace, members, challenges, lock, request, serial>>
      PROVE  Inv'
  <2>1. TypeOK'
    BY <1>2, <1>3 DEF Inv, TypeOK
  <2>2. StepsInv'
    BY <1>3 DEF Inv, TypeOK, StepsInv
  <2> QED BY <1>3, <2>1, <2>2, MoveOn DEF Past
<1>4. CASE get_workspace_by_id(s)
  <2>1. [k EXCEPT !.owner = workspace.owner_id, !.status = workspace.status] \in Seen
    <3>1. workspace \in Workspace
      BY DEF Inv, TypeOK
    <3> HIDE DEF k
    <3> QED BY <1>2, <3>1 DEF Seen, Workspace
  <2>2. seen' = [seen EXCEPT ![s] = [k EXCEPT !.owner = workspace.owner_id,
                                              !.status = workspace.status]]
    BY <1>4, <1>2 DEF get_workspace_by_id
  <2>3. /\ pc[s] = "workspace" /\ request[s].op \in OperationsAt("workspace")
        /\ request[s].op = "consume" => challenges[request[s].challenge].new_owner # NULL
    BY <1>4 DEF get_workspace_by_id, Inv, StepsInv
  <2> HIDE DEF k
  <2>4. CASE request[s].op = "admin_delete"
    BY <1>4, <2>1, <2>2, <2>3, <2>4, <1>3 DEF get_workspace_by_id, Goto, OperationsAt, Operations
  <2>5. CASE request[s].op # "admin_delete"
    BY <1>4, <2>1, <2>2, <2>3, <2>5, <1>3 DEF get_workspace_by_id, Goto, OperationsAt, Operations
  <2> QED BY <2>4, <2>5
<1>5. CASE _require_membership(s)
  <2>1. [k EXCEPT !.by = members[request[s].by]] \in Seen
    <3>1. members[request[s].by] \in Member
      BY <1>1 DEF Inv, TypeOK, RequestType
    <3> HIDE DEF k
    <3> QED BY <1>2, <3>1 DEF Seen
  <2>2. seen' = [seen EXCEPT ![s] = [k EXCEPT !.by = members[request[s].by]]]
    BY <1>5, <1>2 DEF _require_membership
  <2>3. /\ pc[s] = "membership" /\ request[s].op \in OperationsAt("membership")
        /\ request[s].op = "consume" => challenges[request[s].challenge].new_owner # NULL
    BY <1>5 DEF _require_membership, Inv, StepsInv
  <2>4. PICK x \in {"commit", "flush", "target"} :
          /\ pc' = [pc EXCEPT ![s] = x]
          /\ request[s].op \in OperationsAt(x)
    BY <1>5, <2>3 DEF _require_membership, Goto, OperationsAt, Operations
  <2> HIDE DEF k
  <2> QED BY <1>5, <2>1, <2>2, <2>3, <2>4, <1>3 DEF _require_membership
<1>6. CASE get_membership(s)
  <2> DEFINE found == Fetched(s, Target(s))
  <2>1. Target(s) \in Users
    <3>1. pc[s] = "target"
      BY <1>6 DEF get_membership
    <3>2. request[s] \in RequestType /\ Well(request[s])
      BY <3>1, RequestShape DEF Inv
    <3>3. request[s].op \in {"add", "change", "remove", "consume"}
      BY <3>1 DEF Inv, StepsInv, OperationsAt
    <3> QED BY <3>1, <3>2, <3>3 DEF Inv, TypeOK, StepsInv, Target, Challenge, Well
  <2>2. found \in Member
    BY <2>1, <1>2 DEF Inv, TypeOK, Fetched, NoMember, Seen, Member
  <2>3. [k EXCEPT !.target = found] \in Seen
    <3> HIDE DEF k, found
    <3> QED BY <1>2, <2>2 DEF Seen
  <2>4. seen' = [seen EXCEPT ![s] = [k EXCEPT !.target = found]]
    BY <1>6, <1>2 DEF get_membership
  <2>5. /\ pc[s] = "target" /\ request[s].op \in OperationsAt("target")
        /\ request[s].op = "consume" => challenges[request[s].challenge].new_owner # NULL
    BY <1>6 DEF get_membership, Inv, StepsInv
  <2>6. PICK x \in {"flush", "owners"} :
          /\ pc' = [pc EXCEPT ![s] = x]
          /\ request[s].op \in OperationsAt(x)
    BY <1>6, <2>5 DEF get_membership, Goto, OperationsAt, Operations
  <2> HIDE DEF k, found
  <2> QED BY <1>6, <2>3, <2>4, <2>5, <2>6, <1>3 DEF get_membership
<1>7. CASE count_owners(s)
  <2>1. seen' = [seen EXCEPT ![s] = k]
    BY <1>7, <1>2 DEF count_owners
  <2>2. pc[s] = "owners" /\ request[s].op = "remove"
    BY <1>7 DEF count_owners, Inv, StepsInv, OperationsAt
  <2> HIDE DEF k
  <2> QED BY <1>7, <2>1, <2>2, <1>2, <1>3 DEF count_owners, Goto, OperationsAt, Operations
<1> QED BY <1>4, <1>5, <1>6, <1>7

(* A flush locks the workspace and memberships, never a challenge.          *)
LEMMA FlushInv ==
  ASSUME Inv, NEW s \in Sessions, Flush(s)
  PROVE  Inv'
<1> USE DEF Flush, Goto
<1>1. /\ pc[s] = "flush" /\ pc' = [pc EXCEPT ![s] = "commit"]
      /\ UNCHANGED <<workspace, members, challenges, request, seen, serial>>
  OBVIOUS
<1>2. RowsWritten(s) \subseteq Rows /\ RowsWritten(s) \cap Challenges = {}
  BY <1>1, WrittenAreUsers, ConstantsAssumption DEF RowsWritten, Rows
<1>3. /\ lock' \in [Rows -> Sessions \cup {NULL}]
      /\ \A x \in Rows : lock'[x] \in {s, lock[x]}
      /\ \A c \in Challenges : lock'[c] = lock[c]
  BY <1>2 DEF Inv, TypeOK, Rows
<1>4. \A t \in Sessions : Past(t)' = Past(t) /\ (pc'[t] = "idle") = (pc[t] = "idle")
  BY <1>1 DEF Inv, TypeOK, Past
<1>5. TypeOK'
  BY <1>1, <1>3 DEF Inv, TypeOK
<1>6. RequestsInv'
  BY <1>1, <1>4 DEF Inv, RequestsInv
<1>7. ChallengeInv'
  <2> SUFFICES ASSUME NEW t \in Sessions, Past(t), request[t].op \in {"approve", "consume"}
               PROVE  Checked(t)'
    BY <1>1, <1>4 DEF ChallengeInv
  <2>1. request[t].challenge \in Challenges
    BY RequestShape DEF Inv, Past, Well
  <2>2. Checked(t)
    BY DEF Inv, ChallengeInv
  <2>3. lock'[request[t].challenge] = t
    BY <1>3, <2>1, <2>2 DEF Checked
  <2> QED BY <1>1, <2>2, <2>3 DEF Checked
<1>8. FreshInv' /\ SignedInv'
  BY <1>1 DEF Inv, FreshInv, SignedInv, Creates
<1>9. StepsInv'
  BY <1>1 DEF Inv, TypeOK, StepsInv, OperationsAt
<1> QED BY <1>5, <1>6, <1>7, <1>8, <1>9 DEF Inv

(* The end of a request frees its locks and no other session's.             *)
LEMMA EndRequestProp ==
  ASSUME Inv, NEW s \in Sessions, EndRequest(s)
  PROVE  /\ lock' \in [Rows -> Sessions \cup {NULL}]
         /\ \A x \in Rows : lock'[x] # NULL => pc'[lock'[x]] # "idle"
         /\ \A x \in Rows : lock[x] # s => lock'[x] = lock[x]
         /\ pc'[s] = "idle" /\ request'[s] = NoRequest /\ seen'[s] = NothingSeen
         /\ \A t \in Sessions \ {s} :
              pc'[t] = pc[t] /\ request'[t] = request[t] /\ seen'[t] = seen[t]
         /\ request' \in [Sessions -> RequestType \cup {NoRequest}]
         /\ seen' \in [Sessions -> Seen]
         /\ pc' \in [Sessions -> {"idle", "challenge", "workspace", "membership", "target",
                                  "owners", "flush", "commit"}]
         /\ serial' \in BOOLEAN
         /\ RequestsInv'
<1> USE DEF EndRequest, Goto
<1>1. lock' \in [Rows -> Sessions \cup {NULL}]
  BY DEF Inv, TypeOK
<1>2. \A t \in Sessions \ {s} :
        pc'[t] = pc[t] /\ request'[t] = request[t] /\ seen'[t] = seen[t]
  BY DEF Inv, TypeOK
<1>3. pc'[s] = "idle" /\ request'[s] = NoRequest /\ seen'[s] = NothingSeen
  BY DEF Inv, TypeOK
<1>4. NothingSeen \in Seen
  BY DEF NothingSeen, Seen, NoMember, Member
<1>5. \A x \in Rows : lock'[x] # NULL => lock'[x] = lock[x] /\ lock[x] \in Sessions \ {s}
  BY DEF Inv, TypeOK
<1>6. \A x \in Rows : lock'[x] # NULL => pc'[lock'[x]] # "idle"
  BY <1>2, <1>5 DEF Inv, TypeOK
<1>7. RequestsInv'
  BY <1>2, <1>3 DEF Inv, RequestsInv
<1>8. \A x \in Rows : lock[x] # s => lock'[x] = lock[x]
  BY DEF Inv, TypeOK
<1> QED BY <1>1, <1>2, <1>3, <1>4, <1>6, <1>7, <1>8 DEF Inv, TypeOK

(* A rollback changes nothing but the session. *)
LEMMA RollbackInv ==
  ASSUME Inv, NEW s \in Sessions, Rollback(s)
  PROVE  Inv'
<1>1. EndRequest(s) /\ UNCHANGED <<workspace, members, challenges>>
  BY DEF Rollback
<1>2. TypeOK'
  BY <1>1, EndRequestProp DEF Inv, TypeOK
<1>3. ChallengeInv'
  <2> SUFFICES ASSUME NEW t \in Sessions, Past(t)', request'[t].op \in {"approve", "consume"}
               PROVE  Checked(t)'
    BY DEF ChallengeInv
  <2>1. t # s
    BY <1>1, EndRequestProp DEF Past
  <2>2. Past(t) /\ request'[t] = request[t]
    BY <1>1, <2>1, EndRequestProp DEF Past
  <2>3. request[t].challenge \in Rows
    BY <2>2, RequestShape DEF Inv, Past, Well, Rows
  <2>4. Checked(t)
    BY <2>2 DEF Inv, ChallengeInv
  <2>5. lock'[request[t].challenge] = t
    BY <1>1, <2>1, <2>3, <2>4, EndRequestProp DEF Checked
  <2> QED BY <1>1, <2>2, <2>4, <2>5 DEF Checked
<1>4. FreshInv'
  <2>1. ~ Creates(s)'
    <3>1. NoRequest.op = NULL /\ NULL \notin {"create", "initiate"}
      BY ConstantsAssumption DEF NoRequest, Operations
    <3>2. request'[s] = NoRequest
      BY <1>1, EndRequestProp
    <3> QED BY <3>1, <3>2 DEF Creates
  <2> QED BY <1>1, <2>1, EndRequestProp DEF Inv, FreshInv, Creates
<1>5. SignedInv'
  BY <1>1 DEF Inv, SignedInv
<1>6. StepsInv'
  BY <1>1, EndRequestProp DEF Inv, StepsInv, OperationsAt, NoRequest
<1> QED BY <1>1, <1>2, <1>3, <1>4, <1>5, <1>6, EndRequestProp DEF Inv

(* The passing of time touches no field the checks read. *)
LEMMA ExpireInv ==
  ASSUME Inv, NEW c \in Challenges, Expire(c)
  PROVE  Inv'
<1> USE DEF Expire
<1>1. /\ UNCHANGED <<workspace, members, lock, pc, request, seen, serial>>
      /\ challenges \in [Challenges -> Challenge]
      /\ challenges' = [challenges EXCEPT ![c].expired = TRUE]
  BY DEF Inv, TypeOK
<1>2. challenges' \in [Challenges -> Challenge]
  BY <1>1 DEF Challenge
<1>3. \A d \in Challenges :
        /\ challenges'[d].status = challenges[d].status
        /\ challenges'[d].initiator = challenges[d].initiator
        /\ challenges'[d].new_owner = challenges[d].new_owner
        /\ challenges'[d].co_signer = challenges[d].co_signer
  BY <1>1 DEF Challenge
<1>4. TypeOK' /\ RequestsInv'
  BY <1>1, <1>2 DEF Inv, TypeOK, RequestsInv
<1>5. \A t \in Sessions : pc[t] # "idle" /\ request[t].op \in {"create", "initiate", "approve", "consume"}
        => request[t].challenge \in Challenges
  BY RequestShape DEF Inv, Well
<1>6. ChallengeInv'
  BY <1>1, <1>3, <1>5 DEF Inv, ChallengeInv, Checked, Past
<1>7. \A t \in Sessions : Creates(t) => pc[t] # "idle"
  BY ConstantsAssumption DEF Inv, RequestsInv, Creates, NoRequest, Operations
<1>8. FreshInv'
  BY <1>1, <1>3, <1>5, <1>7 DEF Inv, FreshInv, Creates
<1>9. SignedInv'
  BY <1>3 DEF Inv, SignedInv
<1>10. StepsInv'
  BY <1>1, <1>3, <1>5 DEF Inv, StepsInv
<1> QED BY <1>4, <1>6, <1>8, <1>9, <1>10 DEF Inv

(* What a commit does to the challenges: only that of its request changes,  *)
(* it is no other session's, and its parties stay once it is created.       *)
LEMMA CommitChallenges ==
  ASSUME Inv, NEW s \in Sessions, Commit(s)
  PROVE  /\ request[s].op \in {"create", "initiate", "approve", "consume"} =>
              request[s].challenge \in Challenges
         /\ \A c \in Challenges :
              challenges'[c] # challenges[c] =>
                /\ c = request[s].challenge
                /\ \/ Creates(s) /\ challenges[c].status = "none"
                   \/ request[s].op \in {"approve", "consume"} /\ Checked(s)
<1>1. pc[s] = "commit" /\ challenges' = [c \in Challenges |-> NewChallenge(s, c)]
  BY DEF Commit
<1>2. Well(request[s])
  BY <1>1, RequestShape DEF Inv
<1>3. Creates(s) => challenges[request[s].challenge].status = "none"
  BY DEF Inv, FreshInv
<1>4. request[s].op \in {"approve", "consume"} => Checked(s)
  BY <1>1 DEF Inv, ChallengeInv, Past
<1> QED BY <1>1, <1>2, <1>3, <1>4 DEF NewChallenge, Creates, Well

(* A commit keeps the invariant. *)
LEMMA CommitInv ==
  ASSUME Inv, NEW s \in Sessions, Commit(s)
  PROVE  Inv'
<1>1. /\ pc[s] = "commit" /\ EndRequest(s)
      /\ workspace' = NewWorkspace(s)
      /\ members' = [u \in Users |-> IF u \in Written(s) THEN NewMember(s, u) ELSE members[u]]
      /\ challenges' = [c \in Challenges |-> NewChallenge(s, c)]
  BY DEF Commit
<1>2. request[s] \in RequestType /\ Well(request[s])
  BY <1>1, RequestShape DEF Inv
<1>3. TypeOK'
  BY <1>1, EndRequestProp, CommitTypes DEF Inv, TypeOK
<1>4. ASSUME NEW t \in Sessions \ {s}, request[t].challenge \in Challenges,
             \/ Creates(t)
             \/ Past(t) /\ request[t].op \in {"approve", "consume"}
      PROVE  challenges'[request[t].challenge] = challenges[request[t].challenge]
  <2> DEFINE c == request[t].challenge
  <2> SUFFICES ASSUME challenges'[c] # challenges[c] PROVE FALSE
    OBVIOUS
  <2>1. /\ c = request[s].challenge
        /\ \/ Creates(s) /\ challenges[c].status = "none"
           \/ request[s].op \in {"approve", "consume"} /\ Checked(s)
    BY <1>4, CommitChallenges
  <2>2. CASE Creates(t)
    BY <2>1, <2>2 DEF Inv, FreshInv, Checked
  <2>3. CASE Past(t) /\ request[t].op \in {"approve", "consume"}
    <3>1. Checked(t)
      BY <2>3 DEF Inv, ChallengeInv
    <3> QED BY <2>1, <2>3, <3>1 DEF Checked
  <2> QED BY <1>4, <2>2, <2>3
<1>5. ChallengeInv'
  <2> SUFFICES ASSUME NEW t \in Sessions, Past(t)', request'[t].op \in {"approve", "consume"}
               PROVE  Checked(t)'
    BY DEF ChallengeInv
  <2>1. t # s
    BY <1>1, EndRequestProp DEF Past
  <2>2. Past(t) /\ request'[t] = request[t]
    BY <1>1, <2>1, EndRequestProp DEF Past
  <2>3. request[t].challenge \in Challenges
    BY <2>2, RequestShape DEF Inv, Past, Well
  <2>4. Checked(t)
    BY <2>2 DEF Inv, ChallengeInv
  <2>5. lock'[request[t].challenge] = t
    BY <1>1, <2>1, <2>3, <2>4, EndRequestProp DEF Checked, Rows
  <2>6. challenges'[request[t].challenge] = challenges[request[t].challenge]
    BY <1>4, <2>1, <2>2, <2>3
  <2> QED BY <2>2, <2>4, <2>5, <2>6 DEF Checked
<1>6. FreshInv'
  <2>1. ~ Creates(s)'
    <3>1. NoRequest.op = NULL /\ NULL \notin {"create", "initiate"}
      BY ConstantsAssumption DEF NoRequest, Operations
    <3>2. request'[s] = NoRequest
      BY <1>1, EndRequestProp
    <3> QED BY <3>1, <3>2 DEF Creates
  <2>2. \A t \in Sessions \ {s} : request'[t] = request[t]
    BY <1>1, EndRequestProp
  <2>3. ASSUME NEW t \in Sessions \ {s}, Creates(t)
        PROVE  challenges'[request[t].challenge] = challenges[request[t].challenge]
    <3>1. pc[t] # "idle"
      BY <2>3, ConstantsAssumption DEF Inv, RequestsInv, Creates, NoRequest, Operations
    <3>2. request[t].challenge \in Challenges
      BY <2>3, <3>1, RequestShape DEF Inv, Well, Creates
    <3> QED BY <2>3, <3>2, <1>4
  <2> QED BY <2>1, <2>2, <2>3 DEF Inv, FreshInv, Creates
<1>7. SignedInv'
  <2> SUFFICES ASSUME NEW c \in Challenges, challenges'[c].status = "approved"
               PROVE  challenges'[c].co_signer \in PlatformAdmins \ {challenges'[c].initiator}
    BY DEF SignedInv
  <2>1. CASE challenges'[c] = challenges[c]
    BY <2>1 DEF Inv, SignedInv
  <2>2. CASE challenges'[c] # challenges[c]
    <3>1. c = request[s].challenge /\ challenges[c] \in Challenge
      BY <2>2, CommitChallenges DEF Inv, TypeOK
    <3>2. request[s].op = "approve" /\ Checked(s)
      BY <2>2, <1>1, <3>1, CommitChallenges DEF NewChallenge, Challenge, Creates
    <3>3. request[s].by \in PlatformAdmins
      BY <1>2, <3>2 DEF Well
    <3>4. /\ challenges'[c].co_signer = request[s].by
          /\ challenges'[c].initiator = challenges[c].initiator
      BY <1>1, <3>1, <3>2 DEF NewChallenge, Challenge
    <3> QED BY <3>1, <3>2, <3>3, <3>4 DEF Checked
  <2> QED BY <2>1, <2>2
<1>8. StepsInv'
  <2> SUFFICES ASSUME NEW t \in Sessions
               PROVE  /\ request'[t].op \in OperationsAt(pc'[t])
                      /\ pc'[t] \in {"workspace", "membership", "target", "flush"}
                           /\ request'[t].op = "consume" =>
                             challenges'[request'[t].challenge].new_owner # NULL
    BY DEF StepsInv
  <2>1. CASE t = s
    BY <1>1, <2>1, EndRequestProp DEF OperationsAt, NoRequest
  <2>2. CASE t # s
    <3>1. request'[t] = request[t] /\ pc'[t] = pc[t]
      BY <1>1, <2>2, EndRequestProp
    <3>2. ASSUME Past(t), request[t].op = "consume"
          PROVE  challenges'[request[t].challenge] = challenges[request[t].challenge]
      <4>1. request[t].challenge \in Challenges
        BY <3>2, RequestShape DEF Inv, Past, Well
      <4> QED BY <1>4, <2>2, <3>2, <4>1
    <3> QED BY <3>1, <3>2 DEF Inv, StepsInv, Past
  <2> QED BY <2>1, <2>2
<1> QED BY <1>1, <1>3, <1>5, <1>6, <1>7, <1>8, EndRequestProp DEF Inv

(* Every step keeps the invariant. *)
LEMMA NextInv == Inv /\ [Next]_vars => Inv'
<1> SUFFICES ASSUME Inv, [Next]_vars PROVE Inv'
  OBVIOUS
<1>1. ASSUME NEW s \in Sessions, NEW r \in Requests, Begin(s, r) PROVE Inv'
  BY <1>1, BeginInv
<1>2. ASSUME NEW s \in Sessions, _get_for_update_or_raise(s) PROVE Inv'
  BY <1>2, LockChallengeInv
<1>3. ASSUME NEW s \in Sessions,
             \/ get_workspace_by_id(s) \/ _require_membership(s)
             \/ get_membership(s) \/ count_owners(s)
      PROVE  Inv'
  BY <1>3, ReadsInv
<1>4. ASSUME NEW s \in Sessions, Flush(s) PROVE Inv'
  BY <1>4, FlushInv
<1>5. ASSUME NEW s \in Sessions, Commit(s) PROVE Inv'
  BY <1>5, CommitInv
<1>6. ASSUME NEW s \in Sessions, Rollback(s) PROVE Inv'
  BY <1>6, RollbackInv
<1>7. ASSUME NEW c \in Challenges, Expire(c) PROVE Inv'
  BY <1>7, ExpireInv
<1>8. CASE UNCHANGED vars
  <2> USE <1>8 DEF vars
  <2>1. TypeOK'
    BY DEF Inv, TypeOK
  <2>2. RequestsInv'
    BY DEF Inv, RequestsInv
  <2>3. StepsInv'
    BY DEF Inv, StepsInv
  <2>4. ChallengeInv'
    BY DEF Inv, ChallengeInv, Past, Checked
  <2>5. FreshInv'
    BY DEF Inv, FreshInv, Creates
  <2>6. SignedInv'
    BY DEF Inv, SignedInv
  <2> QED BY <2>1, <2>2, <2>3, <2>4, <2>5, <2>6 DEF Inv
<1> QED BY <1>1, <1>2, <1>3, <1>4, <1>5, <1>6, <1>7, <1>8 DEF Next

(* Rows, locks and requests keep their types, for every number of sessions, *)
(* users and challenges.                                                    *)
THEOREM OwnershipTypes == Spec => []TypeOK
<1>1. Inv => TypeOK
  BY DEF Inv
<1> QED BY <1>1, InitInv, NextInv, PTL DEF Spec

---------------------------------------------------------------------------
(* Only a commit writes the workspace; only a commit changes the status of a*)
(* challenge.                                                               *)
LEMMA OnlyCommitWrites ==
  ASSUME Inv, [Next]_vars
  PROVE  \/ \E s \in Sessions : Commit(s)
         \/ /\ workspace' = workspace
            /\ \A c \in Challenges : challenges'[c].status = challenges[c].status
<1>1. ASSUME NEW c \in Challenges, Expire(c)
      PROVE  /\ workspace' = workspace
             /\ \A d \in Challenges : challenges'[d].status = challenges[d].status
  BY <1>1 DEF Expire, Inv, TypeOK, Challenge
<1>2. ASSUME NEW s \in Sessions,
             \/ \E r \in Requests : Begin(s, r)
             \/ _get_for_update_or_raise(s) \/ get_workspace_by_id(s)
             \/ _require_membership(s) \/ get_membership(s) \/ count_owners(s)
             \/ Flush(s) \/ Rollback(s)
      PROVE  workspace' = workspace /\ challenges' = challenges
  BY <1>2 DEF Begin, _get_for_update_or_raise, get_workspace_by_id, _require_membership,
              get_membership, count_owners, Flush, Rollback
<1>3. CASE UNCHANGED vars
  BY <1>3 DEF vars
<1> QED BY <1>1, <1>2, <1>3 DEF Next

(* Ownership moves only with an approved challenge, signed by two, that is  *)
(* used up in the same step (consume_challenge and                          *)
(* commit_ownership_transfer_payload in one transaction).                   *)
THEOREM TransfersTakeTwo == Spec => TransferTakesTwo
<1> DEFINE A == workspace'.owner_id # workspace.owner_id =>
       \E c \in Challenges :
         /\ challenges[c].status = "approved" /\ challenges'[c].status = "consumed"
         /\ challenges[c].new_owner = workspace'.owner_id
         /\ challenges[c].co_signer \in PlatformAdmins \ {challenges[c].initiator}
<1>1. Inv /\ [Next]_vars => [A]_vars
  <2> SUFFICES ASSUME Inv, [Next]_vars, workspace'.owner_id # workspace.owner_id
               PROVE  \E c \in Challenges :
                        /\ challenges[c].status = "approved" /\ challenges'[c].status = "consumed"
                        /\ challenges[c].new_owner = workspace'.owner_id
                        /\ challenges[c].co_signer \in PlatformAdmins \ {challenges[c].initiator}
    OBVIOUS
  <2>1. PICK s \in Sessions : Commit(s)
    BY OnlyCommitWrites
  <2> DEFINE c == request[s].challenge
  <2>2. workspace' = NewWorkspace(s) /\ pc[s] = "commit"
    BY <2>1 DEF Commit
  <2>3. HandsOver(s) /\ workspace'.owner_id = challenges[c].new_owner
    BY <2>2 DEF NewWorkspace, HandsOver, Transfers, Target
  <2>4. request[s].op = "consume" /\ Checked(s)
    BY <2>2, <2>3 DEF HandsOver, Transfers, Inv, ChallengeInv, Past
  <2>5. c \in Challenges
    BY <2>1, <2>4, CommitChallenges
  <2>6. challenges'[c].status = "consumed"
    BY <2>1, <2>4, <2>5 DEF Commit, NewChallenge, Inv, TypeOK, Challenge
  <2>7. challenges[c].co_signer \in PlatformAdmins \ {challenges[c].initiator}
    BY <2>4, <2>5 DEF Checked, Inv, SignedInv
  <2> QED BY <2>3, <2>4, <2>5, <2>6, <2>7 DEF Checked
<1>2. TransferTakesTwo <=> [][A]_vars
  BY DEF TransferTakesTwo
<1> HIDE DEF A
<1> QED BY <1>1, <1>2, InitInv, NextInv, PTL DEF Spec

(* A challenge that hands the workspace to someone else is never used up    *)
(* without doing so.                                                        *)
THEOREM ConsumedTransfers == Spec => ConsumedWithItsTransfer
<1> DEFINE A == \A c \in Challenges :
       /\ challenges[c].status # "consumed" /\ challenges'[c].status = "consumed"
       /\ challenges[c].new_owner \notin {NULL, challenges[c].initiator}
       => workspace'.owner_id = challenges[c].new_owner
<1>1. Inv /\ [Next]_vars => [A]_vars
  <2> SUFFICES ASSUME Inv, [Next]_vars, NEW c \in Challenges,
                      challenges[c].status # "consumed", challenges'[c].status = "consumed",
                      challenges[c].new_owner \notin {NULL, challenges[c].initiator}
               PROVE  workspace'.owner_id = challenges[c].new_owner
    OBVIOUS
  <2>1. PICK s \in Sessions : Commit(s)
    BY OnlyCommitWrites
  <2>2. c = request[s].challenge /\ challenges[c] \in Challenge
    BY <2>1, CommitChallenges DEF Inv, TypeOK
  <2>3. request[s].op = "consume" /\ Checked(s)
    BY <2>1, <2>2, CommitChallenges DEF Commit, NewChallenge, Challenge, Creates
  <2>4. HandsOver(s) /\ Target(s) = challenges[c].new_owner
    BY <2>2, <2>3 DEF HandsOver, Transfers, Target, Checked
  <2> QED BY <2>1, <2>4 DEF Commit, NewWorkspace
<1>2. ConsumedWithItsTransfer <=> [][A]_vars
  BY DEF ConsumedWithItsTransfer
<1> HIDE DEF A
<1> QED BY <1>1, <1>2, InitInv, NextInv, PTL DEF Spec

---------------------------------------------------------------------------
(* While requests do not overlap, what a request has read is still so.      *)

SeenInv(s) ==
  LET r == request[s]
      k == seen[s]
      Changes == r.op \in {"add", "change", "remove"}
  IN  /\ pc[s] = "membership" => k.owner = workspace.owner_id
      /\ pc[s] = "target" => workspace.status # "deleted" /\ k.by = members[r.by]
      /\ pc[s] \in {"target", "flush", "commit"} /\ Transfers(s) =>
           r.by = workspace.owner_id /\ k.by = members[r.by]
      /\ pc[s] \in {"owners", "flush", "commit"} /\ (Changes \/ Transfers(s)) =>
           k.target = members[Target(s)]
      /\ pc[s] = "owners" => k.target.role = "owner"
      /\ pc[s] \in {"flush", "commit"} =>
           /\ r.op = "add" => k.target.role = NULL
           /\ r.op \in {"change", "remove"} => k.target.role \notin {"owner", NULL}

SoleOwner ==
  /\ members[workspace.owner_id].role = "owner"
  /\ \A u \in Users : members[u].role = "owner" => u = workspace.owner_id

SerialInv ==
  serial =>
    /\ SoleOwner
    /\ \A s, t \in Sessions : pc[s] # "idle" /\ pc[t] # "idle" => s = t
    /\ \A s \in Sessions : SeenInv(s)

(* A serial commit leaves one member with the owner role, the owner.        *)
LEMMA SerialCommit ==
  ASSUME Inv, SerialInv, serial, NEW s \in Sessions, Commit(s)
  PROVE  SoleOwner'
<1> DEFINE r == request[s]
           k == seen[s]
<1>1. /\ pc[s] = "commit"
      /\ workspace' = NewWorkspace(s)
      /\ members' = [u \in Users |-> IF u \in Written(s) THEN NewMember(s, u) ELSE members[u]]
  BY DEF Commit
<1>2. r \in RequestType /\ Well(r)
  BY <1>1, RequestShape DEF Inv
<1>3. SoleOwner /\ SeenInv(s)
  BY DEF SerialInv
<1>4. NULL \notin Roles /\ "owner" \in Roles /\ workspace.owner_id \in Users
  BY ConstantsAssumption DEF Roles, Inv, TypeOK, Workspace
<1>5. \A u \in Users : members[u] \in Member
  BY DEF Inv, TypeOK
<1>6. workspace'.owner_id = IF HandsOver(s) THEN Target(s) ELSE workspace.owner_id
  BY <1>1 DEF NewWorkspace
<1>7. CASE HandsOver(s)
  <2>1. /\ Transfers(s) /\ r.op = "consume" /\ Target(s) # r.by
        /\ r.by = workspace.owner_id /\ k.by = members[r.by] /\ k.target = members[Target(s)]
    BY <1>1, <1>3, <1>7 DEF HandsOver, Transfers, SeenInv
  <2>2. Target(s) \in Users /\ r.by \in Users
    BY <1>1, <1>2, <1>7, WrittenAreUsers DEF RequestType
  <2>3. Written(s) = {r.by, Target(s)}
    BY <1>3, <1>7, <2>1, <2>2 DEF Written, SoleOwner
  <2>4. members'[r.by].role = "admin"
    <3>1. Loaded(s, r.by) = members[r.by] /\ RoleWritten(s, r.by) = "admin"
      BY <2>1 DEF Loaded, RoleWritten
    <3>2. members[r.by].role # NULL
      BY <1>3, <1>4, <2>1 DEF SoleOwner
    <3>3. members'[r.by] = [members[r.by] EXCEPT !.role = "admin"]
      BY <1>1, <2>2, <2>3, <3>1, <3>2 DEF NewMember
    <3> QED BY <1>5, <2>2, <3>3 DEF Member
  <2>5. members'[Target(s)].role = "owner"
    <3>1. Loaded(s, Target(s)) = members[Target(s)] /\ RoleWritten(s, Target(s)) = "owner"
      BY <2>1 DEF Loaded, RoleWritten
    <3>2. members'[Target(s)] = NewMember(s, Target(s))
      BY <1>1, <2>2, <2>3
    <3>3. members[Target(s)] \in Member
      BY <1>5, <2>2
    <3> QED BY <3>1, <3>2, <3>3 DEF NewMember, Member
  <2>6. \A u \in Users \ {r.by, Target(s)} : members'[u] = members[u]
    BY <1>1, <2>3
  <2> QED BY <1>3, <1>6, <1>7, <2>1, <2>2, <2>4, <2>5, <2>6 DEF SoleOwner
<1>8. CASE ~ HandsOver(s) /\ r.op \in {"add", "change", "remove"}
  <2>1. Target(s) = r.user /\ r.user \in Users /\ Written(s) \subseteq {r.user}
    BY <1>2, <1>8 DEF Target, Well, Written
  <2>2. k.target = members[r.user] /\ Loaded(s, r.user) = members[r.user]
    BY <1>1, <1>3, <1>8, <2>1 DEF SeenInv, Loaded
  <2>3. members[r.user].role # "owner"
    BY <1>1, <1>3, <1>4, <1>8, <2>2 DEF SeenInv
  <2>4. RoleWritten(s, r.user) # "owner"
    BY <1>2, <1>4, <1>8 DEF RoleWritten, RequestType, Transfers
  <2>5. NewMember(s, r.user).role # "owner"
    <3>1. members[r.user] \in Member
      BY <1>5, <2>1
    <3> QED BY <2>2, <2>4, <3>1 DEF NewMember, Member
  <2>6. /\ members'[r.user].role # "owner"
        /\ \A u \in Users \ {r.user} : members'[u] = members[u]
    BY <1>1, <2>1, <2>3, <2>5
  <2> QED BY <1>3, <1>4, <1>6, <1>8, <2>1, <2>3, <2>6 DEF SoleOwner
<1>9. CASE ~ HandsOver(s) /\ r.op \notin {"add", "change", "remove"}
  <2>1. Written(s) = {}
    BY <1>9 DEF Written
  <2>2. \A u \in Users : members'[u] = members[u]
    BY <1>1, <2>1
  <2> QED BY <1>3, <1>4, <1>6, <1>9, <2>2 DEF SoleOwner
<1> QED BY <1>7, <1>8, <1>9

(* A session at rest has read nothing that matters. *)
LEMMA IdleSeen ==
  ASSUME NEW s, pc'[s] = "idle"
  PROVE  SeenInv(s)'
BY DEF SeenInv

(* A step of the one request under way that leaves the workspace and the    *)
(* members alone keeps the serial invariant if it keeps that request's part.*)
LEMMA SerialRead ==
  ASSUME Inv, SerialInv, serial, serial' = serial,
         workspace' = workspace, members' = members,
         NEW s \in Sessions, pc[s] # "idle",
         NEW x, pc' = [pc EXCEPT ![s] = x], SeenInv(s)'
  PROVE  SerialInv'
<1>1. \A t \in Sessions \ {s} : pc'[t] = "idle"
  BY DEF SerialInv, Inv, TypeOK
<1>2. \A t \in Sessions : SeenInv(t)'
  BY <1>1, IdleSeen
<1>3. SoleOwner'
  BY DEF SerialInv, SoleOwner
<1> QED BY <1>1, <1>2, <1>3 DEF SerialInv

(* The one owner of a workspace cannot be removed: count_owners finds one.  *)
LEMMA OneOwnerCounted ==
  ASSUME Inv, SoleOwner
  PROVE  Owners = {workspace.owner_id} /\ ~ (Cardinality(Owners) > 1)
<1>1. workspace.owner_id \in Users
  BY DEF Inv, TypeOK, Workspace
<1>2. Owners = {workspace.owner_id}
  BY <1>1 DEF Owners, SoleOwner
<1>3. Cardinality({workspace.owner_id}) = 1
  BY FS_Singleton
<1>4. ~ (Cardinality(Owners) > 1)
  BY <1>2, <1>3
<1> QED BY <1>2, <1>4

(* The reads of a serial request see the current rows. *)
LEMMA SerialReads ==
  ASSUME Inv, SerialInv, serial, NEW s \in Sessions,
         \/ get_workspace_by_id(s) \/ _require_membership(s)
         \/ get_membership(s) \/ count_owners(s)
  PROVE  SerialInv'
<1> DEFINE r == request[s]
           k == seen[s]
<1>1. SoleOwner /\ SeenInv(s)
  BY DEF SerialInv
<1>2. k \in Seen /\ seen \in [Sessions -> Seen] /\ pc = [t \in Sessions |-> pc[t]]
  BY DEF Inv, TypeOK
<1>3. CASE get_workspace_by_id(s)
  <2>1. /\ pc[s] = "workspace"
        /\ UNCHANGED <<workspace, members, challenges, lock, request, serial>>
        /\ pc' = [pc EXCEPT ![s] = IF r.op = "admin_delete" THEN "flush" ELSE "membership"]
        /\ seen' = [seen EXCEPT ![s].owner = workspace.owner_id, ![s].status = workspace.status]
    BY <1>3 DEF get_workspace_by_id, Goto
  <2>2. seen'[s].owner = workspace.owner_id
    BY <1>2, <2>1 DEF Seen
  <2>3. pc'[s] = IF r.op = "admin_delete" THEN "flush" ELSE "membership"
    BY <1>2, <2>1
  <2>4. SeenInv(s)'
    BY <2>1, <2>2, <2>3 DEF SeenInv, Transfers
  <2> QED BY <2>1, <2>4, SerialRead
<1>4. CASE _require_membership(s)
  <2>1. /\ pc[s] = "membership" /\ workspace.status # "deleted"
        /\ StateAllows(s)
        /\ UNCHANGED <<workspace, members, challenges, lock, request, serial>>
        /\ seen' = [seen EXCEPT ![s].by = members[r.by]]
    BY <1>4 DEF _require_membership
  <2>2. PICK x \in {"commit", "flush", "target"} :
          /\ pc' = [pc EXCEPT ![s] = x]
          /\ x # "target" => r.op \in {"initiate", "archive", "restore", "delete"}
    BY <1>4 DEF _require_membership, Goto
  <2>3. seen'[s].by = members[r.by] /\ pc'[s] = x
    BY <1>2, <2>1, <2>2 DEF Seen
  <2>4. Transfers(s) => r.by = workspace.owner_id
    BY <1>1, <2>1 DEF Transfers, StateAllows, SeenInv
  <2>5. Transfers(s)' = Transfers(s)
    BY <2>1 DEF Transfers
  <2>6. SeenInv(s)'
    BY <2>1, <2>2, <2>3, <2>4, <2>5 DEF SeenInv, Transfers
  <2> QED BY <2>1, <2>2, <2>6, SerialRead
<1>5. CASE get_membership(s)
  <2> DEFINE found == Fetched(s, Target(s))
  <2>1. /\ pc[s] = "target"
        /\ UNCHANGED <<workspace, members, challenges, lock, request, serial>>
        /\ seen' = [seen EXCEPT ![s].target = found]
        /\ pc' = [pc EXCEPT ![s] = IF r.op = "remove" /\ found.role = "owner"
                                   THEN "owners" ELSE "flush"]
        /\ r.op = "add" => found.role = NULL
        /\ r.op \in {"change", "remove"} => found.role # NULL
        /\ r.op = "change" => found.role # "owner"
    BY <1>5 DEF get_membership, Goto
  <2>2. found = members[Target(s)]
    BY <1>1, <2>1 DEF SeenInv, Fetched
  <2>3. seen'[s] = [k EXCEPT !.target = found]
    BY <1>2, <2>1
  <2>4. seen'[s].target = found /\ seen'[s].by = k.by
    <3> HIDE DEF found
    <3> QED BY <1>2, <2>3 DEF Seen
  <2>5. Transfers(s)' = Transfers(s) /\ Target(s)' = Target(s)
    BY <2>1 DEF Transfers, Target
  <2>6. pc'[s] = IF r.op = "remove" /\ found.role = "owner" THEN "owners" ELSE "flush"
    BY <1>2, <2>1
  <2>7. SeenInv(s)'
    <3> HIDE DEF found
    <3> QED BY <1>1, <2>1, <2>2, <2>4, <2>5, <2>6 DEF SeenInv
  <2> QED BY <2>1, <2>7, SerialRead
<1>6. CASE count_owners(s)
  BY <1>6, <1>1, OneOwnerCounted DEF count_owners
<1> QED BY <1>3, <1>4, <1>5, <1>6

(* Every step keeps the serial invariant. *)
LEMMA SerialNext == Inv /\ SerialInv /\ [Next]_vars => SerialInv'
<1> SUFFICES ASSUME Inv, SerialInv, [Next]_vars, serial' PROVE SerialInv'
  BY DEF SerialInv
<1>1. ASSUME NEW s \in Sessions, NEW r \in Requests, Begin(s, r) PROVE SerialInv'
  <2>1. /\ serial /\ \A t \in Sessions : pc[t] = "idle"
        /\ UNCHANGED <<workspace, members>>
        /\ pc' = [pc EXCEPT ![s] = FirstStep(r.op)]
        /\ request' = [request EXCEPT ![s] = r]
    BY <1>1 DEF Begin, Goto
  <2>2. /\ \A t \in Sessions \ {s} : pc'[t] = "idle"
        /\ pc'[s] = FirstStep(r.op) /\ request'[s] = r
    BY <2>1 DEF Inv, TypeOK
  <2>3. SeenInv(s)'
    BY <2>2 DEF SeenInv, FirstStep, Transfers
  <2>4. \A t \in Sessions : SeenInv(t)'
    BY <2>2, <2>3, IdleSeen
  <2>5. SoleOwner'
    BY <2>1 DEF SerialInv, SoleOwner
  <2> QED BY <2>2, <2>4, <2>5 DEF SerialInv
<1>2. ASSUME NEW s \in Sessions, _get_for_update_or_raise(s) PROVE SerialInv'
  <2>1. /\ pc[s] = "challenge" /\ serial /\ serial' = serial
        /\ UNCHANGED <<workspace, members, challenges, request, seen>>
        /\ pc' = [pc EXCEPT ![s] = IF Transfers(s) THEN "workspace" ELSE "commit"]
    BY <1>2 DEF _get_for_update_or_raise, Goto
  <2>2. /\ pc'[s] = IF Transfers(s) THEN "workspace" ELSE "commit"
        /\ Transfers(s)' = Transfers(s)
        /\ request[s].op \in {"approve", "consume"}
    BY <2>1 DEF Inv, TypeOK, Transfers, StepsInv, OperationsAt
  <2>3. SeenInv(s)'
    BY <2>1, <2>2, SMTT(20) DEF SeenInv
  <2> QED BY <2>1, <2>3, SerialRead
<1>3. ASSUME NEW s \in Sessions,
             \/ get_workspace_by_id(s) \/ _require_membership(s)
             \/ get_membership(s) \/ count_owners(s)
      PROVE  SerialInv'
  <2>1. serial
    BY <1>3 DEF get_workspace_by_id, _require_membership, get_membership, count_owners
  <2> QED BY <1>3, <2>1, SerialReads
<1>4. ASSUME NEW s \in Sessions, Flush(s) PROVE SerialInv'
  <2>1. /\ pc[s] = "flush" /\ serial /\ serial' = serial
        /\ UNCHANGED <<workspace, members, challenges, request, seen>>
        /\ pc' = [pc EXCEPT ![s] = "commit"]
    BY <1>4 DEF Flush, Goto
  <2>2. /\ pc'[s] = "commit" /\ SeenInv(s)
        /\ Transfers(s)' = Transfers(s) /\ Target(s)' = Target(s)
    BY <2>1 DEF Inv, TypeOK, SerialInv, Transfers, Target
  <2>3. SeenInv(s)'
    BY <2>1, <2>2 DEF SeenInv
  <2> QED BY <2>1, <2>3, SerialRead
<1>5. ASSUME NEW s \in Sessions, Commit(s) \/ Rollback(s) PROVE SerialInv'
  <2>1. EndRequest(s) /\ serial /\ pc[s] # "idle"
    BY <1>5 DEF Commit, Rollback, EndRequest
  <2>2. SoleOwner'
    <3>1. CASE Commit(s)
      BY <2>1, <3>1, SerialCommit
    <3>2. CASE Rollback(s)
      BY <2>1, <3>2 DEF Rollback, SerialInv, SoleOwner
    <3> QED BY <1>5, <3>1, <3>2
  <2>3. \A t \in Sessions : pc'[t] = "idle"
    BY <2>1, EndRequestProp DEF SerialInv
  <2>4. \A t \in Sessions : SeenInv(t)'
    BY <2>3, IdleSeen
  <2> QED BY <2>2, <2>3, <2>4 DEF SerialInv
<1>6. ASSUME NEW c \in Challenges, Expire(c) PROVE SerialInv'
  <2>1. /\ UNCHANGED <<workspace, members, pc, request, seen, serial>>
        /\ \A d \in Challenges : challenges'[d].new_owner = challenges[d].new_owner
    BY <1>6 DEF Expire, Inv, TypeOK, Challenge
  <2>2. ASSUME NEW s \in Sessions PROVE SeenInv(s)'
    <3>1. CASE pc[s] = "idle"
      BY <2>1, <3>1, IdleSeen
    <3>2. CASE pc[s] # "idle"
      <4>1. request[s].op = "consume" => request[s].challenge \in Challenges
        BY <3>2, RequestShape DEF Inv, Well
      <4>2. Transfers(s)' = Transfers(s) /\ Target(s)' = Target(s)
        BY <2>1, <4>1 DEF Transfers, Target
      <4>3. SeenInv(s)
        BY <2>1 DEF SerialInv
      <4> QED BY <2>1, <4>2, <4>3 DEF SeenInv
    <3> QED BY <3>1, <3>2
  <2> QED BY <2>1, <2>2 DEF SerialInv, SoleOwner
<1>7. CASE UNCHANGED vars
  BY <1>7 DEF vars, SerialInv, SoleOwner, SeenInv, Transfers, Target
<1> QED BY <1>1, <1>2, <1>3, <1>4, <1>5, <1>6, <1>7 DEF Next

(* With requests one at a time, the owner of the workspace is its one member*)
(* with the owner role, for every set of users and requests.                *)
THEOREM SerialRequestsKeepOwner == Spec => []SerialSoleOwner
<1>1. Init => SerialInv
  <2> SUFFICES ASSUME Init PROVE SerialInv
    OBVIOUS
  <2>1. SoleOwner
    BY ConstantsAssumption DEF Init, SoleOwner, NoMember, Roles
  <2>2. \A s \in Sessions : SeenInv(s)
    BY DEF Init, SeenInv
  <2> QED BY <2>1, <2>2 DEF SerialInv, Init
<1>2. Inv /\ SerialInv => SerialSoleOwner
  BY OneOwnerCounted DEF SerialInv, SerialSoleOwner
<1> QED BY <1>1, <1>2, InitInv, NextInv, SerialNext, PTL DEF Spec
=============================================================================
