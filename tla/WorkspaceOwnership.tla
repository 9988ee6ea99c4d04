------------------------ MODULE WorkspaceOwnership ------------------------
(* The members and the owner of one workspace, and the two-person approval  *)
(* through which its ownership is handed over.                              *)
(*                                                                          *)
(* Requests run in concurrent database sessions at READ COMMITTED.  Reads   *)
(* take no lock, except that a challenge is read FOR UPDATE; a flush locks  *)
(* the rows it writes until the request commits or rolls back, and sends    *)
(* only the columns the session changed.  An error raised anywhere in a     *)
(* request is a Rollback: a step's guard is the condition to go on.         *)
(*                                                                          *)
(* The status pending_deletion, which only the data lifecycle service sets, *)
(* and the Redis mirror of the challenges, which nobody reads, are left out.*)
EXTENDS Integers, FiniteSets

CONSTANTS Users, PlatformAdmins,  \* the platform's users, and its administrators
          Creator,                \* who created the workspace
          Challenges,             \* identifiers of challenges
          Sessions,               \* database sessions
          WORKSPACE,              \* the row of the workspace
          NULL,                   \* no value
          Requests,               \* the requests that are made
          MaxJoins                \* bound on how often one user is added

VARIABLES
  workspace,   \* owner_id and status
  members,     \* role of each user, NULL if not a member, and the row's id
  challenges,  \* the challenge rows
  lock,        \* row locks
  pc,          \* where a session's request is
  request,     \* the request a session serves
  seen,        \* what the request has read
  serial       \* history: no two requests have ever overlapped

vars == <<workspace, members, challenges, lock, pc, request, seen, serial>>

Roles == {"viewer", "member", "admin", "owner"}
Rank == [viewer |-> 0, member |-> 1, admin |-> 2, owner |-> 3]
_role_allows(current, minimum) == Rank[current] >= Rank[minimum]

Rows == Challenges \cup Users \cup {WORKSPACE}
Operations == {"create", "initiate", "approve", "consume", "add", "change",
               "remove", "archive", "restore", "delete", "admin_delete"}

\* AddMemberRequest and ChangeMemberRoleRequest refuse the owner role.
RequestType == [op: Operations, by: Users, user: Users \cup {NULL},
                role: (Roles \ {"owner"}) \cup {NULL}, challenge: Challenges \cup {NULL}]
Well(r) ==
  /\ r.op \in {"create", "initiate", "approve", "consume"} => r.challenge \in Challenges
  /\ r.op \in {"initiate", "add", "change", "remove"} => r.user \in Users
  /\ r.op \in {"add", "change"} => r.role \in Roles
  /\ r.op \in {"approve", "admin_delete"} => r.by \in PlatformAdmins

ASSUME ConstantsAssumption ==
  /\ Creator \in Users
  /\ PlatformAdmins \subseteq Users
  /\ NULL \notin Users \cup Challenges \cup Sessions \cup Roles \cup Operations
  /\ WORKSPACE \notin Users \cup Challenges
  /\ Users \cap Challenges = {}
  /\ MaxJoins \in Nat
  /\ Requests \subseteq {r \in RequestType : Well(r)}

Workspace == [owner_id: Users, status: {"active", "archived", "deleted"}]
Challenge == [status: {"none", "pending", "approved", "consumed"},
              initiator: Users \cup {NULL}, new_owner: Users \cup {NULL},
              co_signer: Users \cup {NULL}, expired: BOOLEAN]
Member == [role: Roles \cup {NULL}, id: Nat]
Seen == [owner: Users \cup {NULL}, status: {"active", "archived", "deleted", NULL},
         by: Member, target: Member]
NoMember == [role |-> NULL, id |-> 0]
NoRequest == [op |-> NULL, by |-> NULL, user |-> NULL, role |-> NULL, challenge |-> NULL]
NothingSeen == [owner |-> NULL, status |-> NULL, by |-> NoMember, target |-> NoMember]
NoChallenge == [status |-> "none", initiator |-> NULL, new_owner |-> NULL,
                co_signer |-> NULL, expired |-> FALSE]

\* The workspace as create_workspace leaves it.
Init ==
  /\ workspace = [owner_id |-> Creator, status |-> "active"]
  /\ members = [u \in Users |-> IF u = Creator THEN [role |-> "owner", id |-> 1] ELSE NoMember]
  /\ challenges = [c \in Challenges |-> NoChallenge]
  /\ lock = [x \in Rows |-> NULL]
  /\ pc = [s \in Sessions |-> "idle"]
  /\ request = [s \in Sessions |-> NoRequest]
  /\ seen = [s \in Sessions |-> NothingSeen]
  /\ serial = TRUE

---------------------------------------------------------------------------
(* What a request writes, given what it has read. *)

Transfers(s) ==
  /\ request[s].op = "consume"
  /\ challenges[request[s].challenge].new_owner # NULL

\* The user whose membership the request is about.
Target(s) ==
  IF request[s].op = "consume" THEN challenges[request[s].challenge].new_owner
  ELSE request[s].user

\* transfer_ownership to the requester sets a role back to what it was, and
\* the session sends nothing.
HandsOver(s) == Transfers(s) /\ Target(s) # request[s].by

Removes(s) == request[s].op = "remove"

\* The memberships the flush writes, and the roles it gives them.
Written(s) ==
  CASE request[s].op \in {"add", "remove"} -> {Target(s)}
    [] request[s].op = "change" ->
         IF request[s].role = seen[s].target.role THEN {} ELSE {Target(s)}
    [] HandsOver(s) ->
         {request[s].by} \cup (IF seen[s].target.role = "owner" THEN {} ELSE {Target(s)})
    [] OTHER -> {}

(* A mutant of RoleWritten: the previous owner keeps the role. *)
RoleWrittenToNewOwnerOnly(s, u) ==
  CASE request[s].op \in {"add", "change"} -> request[s].role
    [] Transfers(s) -> "owner"
    [] OTHER -> NULL

RoleWritten(s, u) ==
  CASE request[s].op \in {"add", "change"} -> request[s].role
    [] Transfers(s) -> IF u = Target(s) THEN "owner" ELSE "admin"
    [] OTHER -> NULL

\* The row the request has loaded for u; id 0 when there was none.
Loaded(s, u) ==
  IF u = request[s].by /\ u # Target(s) THEN seen[s].by ELSE seen[s].target

WritesWorkspace(s) ==
  HandsOver(s) \/ request[s].op \in {"archive", "restore", "delete", "admin_delete"}

RowsWritten(s) ==
  Written(s) \cup (IF WritesWorkspace(s) THEN {WORKSPACE} ELSE {})

\* An INSERT needs the key to be free; an UPDATE of a row that is gone is an
\* error, a DELETE of one is not.
FlushSucceeds(s) ==
  \A u \in Written(s) :
    IF Loaded(s, u).role = NULL THEN members[u].role = NULL
    ELSE Removes(s) \/ (members[u].role # NULL /\ members[u].id = Loaded(s, u).id)

NewMember(s, u) ==
  IF Loaded(s, u).role = NULL THEN [role |-> RoleWritten(s, u), id |-> members[u].id + 1]
  ELSE IF members[u].id = Loaded(s, u).id THEN [members[u] EXCEPT !.role = RoleWritten(s, u)]
  ELSE members[u]

StatusWritten(s) ==
  CASE request[s].op = "archive" -> "archived"
    [] request[s].op = "restore" -> "active"
    [] request[s].op \in {"delete", "admin_delete"} -> "deleted"
    [] OTHER -> workspace.status

NewWorkspace(s) ==
  [owner_id |-> IF HandsOver(s) THEN Target(s) ELSE workspace.owner_id,
   status |-> StatusWritten(s)]

NewChallenge(s, c) ==
  CASE request[s].op \in {"create", "initiate"} /\ c = request[s].challenge ->
         [status |-> "pending", initiator |-> request[s].by, new_owner |-> request[s].user,
          co_signer |-> NULL, expired |-> FALSE]
    [] request[s].op = "approve" /\ c = request[s].challenge ->
         [challenges[c] EXCEPT !.status = "approved", !.co_signer = request[s].by]
    [] request[s].op = "consume" /\ c = request[s].challenge ->
         [challenges[c] EXCEPT !.status = "consumed"]
    [] OTHER -> challenges[c]

---------------------------------------------------------------------------
(* The steps of a request. *)

Goto(s, step) == pc' = [pc EXCEPT ![s] = step]

FirstStep(op) ==
  CASE op = "create" -> "commit"
    [] op \in {"approve", "consume"} -> "challenge"
    [] OTHER -> "workspace"

\* A challenge's identifier is a fresh UUID.
Begin(s, r) ==
  /\ pc[s] = "idle"
  /\ r.op \in {"create", "initiate"} =>
       /\ challenges[r.challenge].status = "none"
       /\ \A t \in Sessions : request[t].op \in {"create", "initiate"} =>
            request[t].challenge # r.challenge
  /\ request' = [request EXCEPT ![s] = r]
  /\ serial' = (serial /\ \A t \in Sessions : pc[t] = "idle")
  /\ Goto(s, FirstStep(r.op))
  /\ UNCHANGED <<workspace, members, challenges, lock, seen>>

(* A mutant of MayApprove: the initiator may sign as well. *)
MayApproveAnyone(c, by) == c.status = "pending"

MayApprove(c, by) == c.initiator # by /\ c.status = "pending"
MayConsume(c, by) == c.initiator = by /\ c.status = "approved"

\* approve_challenge, and consume_challenge up to its flush.
_get_for_update_or_raise(s) ==
  LET r == request[s]
      c == challenges[r.challenge]
  IN  /\ pc[s] = "challenge"
      /\ lock[r.challenge] = NULL
      /\ c.status # "none"
      /\ ~ c.expired
      /\ IF r.op = "approve" THEN MayApprove(c, r.by) ELSE MayConsume(c, r.by)
      /\ lock' = [lock EXCEPT ![r.challenge] = s]
      /\ Goto(s, IF Transfers(s) THEN "workspace" ELSE "commit")
      /\ UNCHANGED <<workspace, members, challenges, request, seen, serial>>

\* The first SELECT of _require_membership; a platform administrator's delete
\* asks for no membership.
get_workspace_by_id(s) ==
  LET r == request[s] IN
  /\ pc[s] = "workspace"
  /\ workspace.status # "deleted"
  /\ r.op = "admin_delete" => workspace.status = "archived"
  /\ r.op # "admin_delete" => members[r.by].role # NULL
  /\ seen' = [seen EXCEPT ![s].owner = workspace.owner_id, ![s].status = workspace.status]
  /\ Goto(s, IF r.op = "admin_delete" THEN "flush" ELSE "membership")
  /\ UNCHANGED <<workspace, members, challenges, lock, request, serial>>

MinimumRole(op) == IF op \in {"add", "change", "remove"} THEN "admin" ELSE "owner"

StateAllows(s) ==
  CASE request[s].op = "archive" -> seen[s].status # "archived"
    [] request[s].op \in {"restore", "delete"} -> seen[s].status = "archived"
    [] request[s].op = "initiate" -> request[s].user # seen[s].owner
    [] request[s].op = "consume" -> seen[s].owner = request[s].by
    [] OTHER -> TRUE

\* The second SELECT of _require_membership, the role check and the checks on
\* the workspace that follow it.
_require_membership(s) ==
  LET r == request[s] IN
  /\ pc[s] = "membership"
  /\ workspace.status # "deleted"
  /\ members[r.by].role # NULL
  /\ _role_allows(members[r.by].role, MinimumRole(r.op))
  /\ StateAllows(s)
  /\ seen' = [seen EXCEPT ![s].by = members[r.by]]
  /\ Goto(s, CASE r.op = "initiate" -> "commit"
               [] r.op \in {"archive", "restore", "delete"} -> "flush"
               [] OTHER -> "target")
  /\ UNCHANGED <<workspace, members, challenges, lock, request, serial>>

\* A row the session has loaded already keeps the values it was loaded with.
Fetched(s, u) ==
  IF u = request[s].by /\ members[u].role # NULL /\ members[u].id = seen[s].by.id
  THEN seen[s].by
  ELSE IF workspace.status = "deleted" THEN NoMember ELSE members[u]

get_membership(s) ==
  LET r == request[s]
      found == Fetched(s, Target(s))
  IN  /\ pc[s] = "target"
      /\ r.op = "add" => found.role = NULL /\ members[r.user].id < MaxJoins
      /\ r.op \in {"change", "remove"} => found.role # NULL
      /\ r.op = "change" => found.role # "owner"
      /\ seen' = [seen EXCEPT ![s].target = found]
      /\ Goto(s, IF r.op = "remove" /\ found.role = "owner" THEN "owners" ELSE "flush")
      /\ UNCHANGED <<workspace, members, challenges, lock, request, serial>>

Owners == {u \in Users : members[u].role = "owner"}

count_owners(s) ==
  /\ pc[s] = "owners"
  /\ Cardinality(Owners) > 1
  /\ Goto(s, "flush")
  /\ UNCHANGED <<workspace, members, challenges, lock, request, seen, serial>>

\* The flush waits for the locks of the rows it writes.  Every flush writes
\* the workspace before the memberships, and these in the order of their ids.
Flush(s) ==
  /\ pc[s] = "flush"
  /\ \A x \in RowsWritten(s) : lock[x] = NULL
  /\ FlushSucceeds(s)
  /\ lock' = [x \in Rows |-> IF x \in RowsWritten(s) THEN s ELSE lock[x]]
  /\ Goto(s, "commit")
  /\ UNCHANGED <<workspace, members, challenges, request, seen, serial>>

(* A mutant of EndRequest: the row locks stay. *)
EndRequestKeepingLocks(s) ==
  /\ request' = [request EXCEPT ![s] = NoRequest]
  /\ seen' = [seen EXCEPT ![s] = NothingSeen]
  /\ Goto(s, "idle")
  /\ UNCHANGED <<lock, serial>>

EndRequest(s) ==
  /\ lock' = [x \in Rows |-> IF lock[x] = s THEN NULL ELSE lock[x]]
  /\ request' = [request EXCEPT ![s] = NoRequest]
  /\ seen' = [seen EXCEPT ![s] = NothingSeen]
  /\ Goto(s, "idle")
  /\ UNCHANGED serial

\* get_db commits the request's one transaction.
Commit(s) ==
  /\ pc[s] = "commit"
  /\ workspace' = NewWorkspace(s)
  /\ members' = [u \in Users |-> IF u \in Written(s) THEN NewMember(s, u) ELSE members[u]]
  /\ challenges' = [c \in Challenges |-> NewChallenge(s, c)]
  /\ EndRequest(s)

(* A mutant of Rollback: consume_challenge has committed on its own. *)
RollbackAfterConsume(s) ==
  /\ pc[s] # "idle"
  /\ challenges' = [c \in Challenges |-> IF lock[c] = s THEN NewChallenge(s, c)
                                         ELSE challenges[c]]
  /\ EndRequest(s)
  /\ UNCHANGED <<workspace, members>>

\* A check that fails, an event that cannot be published, a lost connection.
Rollback(s) ==
  /\ pc[s] # "idle"
  /\ EndRequest(s)
  /\ UNCHANGED <<workspace, members, challenges>>

\* expires_at passes.
Expire(c) ==
  /\ challenges[c].status # "none"
  /\ ~ challenges[c].expired
  /\ challenges' = [challenges EXCEPT ![c].expired = TRUE]
  /\ UNCHANGED <<workspace, members, lock, pc, request, seen, serial>>

Next ==
  \/ \E s \in Sessions :
       \/ \E r \in Requests : Begin(s, r)
       \/ _get_for_update_or_raise(s) \/ get_workspace_by_id(s)
       \/ _require_membership(s) \/ get_membership(s) \/ count_owners(s)
       \/ Flush(s) \/ Commit(s) \/ Rollback(s)
  \/ \E c \in Challenges : Expire(c)

Spec == Init /\ [][Next]_vars

---------------------------------------------------------------------------
(* Every variable keeps its shape, and only a request that is under way     *)
(* holds row locks.                                                         *)
TypeOK ==
  /\ workspace \in Workspace
  /\ members \in [Users -> Member]
  /\ challenges \in [Challenges -> Challenge]
  /\ lock \in [Rows -> Sessions \cup {NULL}]
  /\ pc \in [Sessions -> {"idle", "challenge", "workspace", "membership", "target",
                          "owners", "flush", "commit"}]
  /\ request \in [Sessions -> RequestType \cup {NoRequest}]
  /\ seen \in [Sessions -> Seen]
  /\ serial \in BOOLEAN
  /\ \A x \in Rows : lock[x] # NULL => pc[lock[x]] # "idle"

(* Ownership moves only in the step that uses up an approved challenge, one *)
(* that names the new owner and that an administrator other than its        *)
(* initiator has signed: a challenge moves it at most once, and no other    *)
(* request moves it, however requests, expiries and rollbacks interleave.   *)
TransferTakesTwo ==
  [][workspace'.owner_id # workspace.owner_id =>
       \E c \in Challenges :
         /\ challenges[c].status = "approved" /\ challenges'[c].status = "consumed"
         /\ challenges[c].new_owner = workspace'.owner_id
         /\ challenges[c].co_signer \in PlatformAdmins \ {challenges[c].initiator}]_vars

(* A challenge that hands the workspace to someone else is used up only     *)
(* together with that transfer: a request that fails after consume_challenge*)
(* leaves the challenge approved.                                           *)
ConsumedWithItsTransfer ==
  [][\A c \in Challenges :
       /\ challenges[c].status # "consumed" /\ challenges'[c].status = "consumed"
       /\ challenges[c].new_owner \notin {NULL, challenges[c].initiator}
       => workspace'.owner_id = challenges[c].new_owner]_vars

(* As long as requests do not overlap, the workspace's owner is the one     *)
(* member with the owner role: no sequence of joins, role changes, removals *)
(* and transfers leaves two, none, or another one.                          *)
SerialSoleOwner == serial => Owners = {workspace.owner_id}

(* FR-006: "A workspace MUST always have at least one owner".               *)
AlwaysAnOwner == Owners # {}
=============================================================================
