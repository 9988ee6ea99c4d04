----------------------------- MODULE AuditChain -----------------------------
(* The hash-linked audit chain: AuditChainService.append and verify over the*)
(* table audit_chain_entries, called inside the transactions of concurrent  *)
(* database sessions.                                                       *)
(*                                                                          *)
(* A session runs either as the platform staff role, which bypasses row     *)
(* level security, or bound to one tenant, and then sees and inserts only   *)
(* that tenant's rows.  Transactions are READ COMMITTED: each statement sees*)
(* what is committed when it starts, and its own transaction's rows.        *)
EXTENDS Integers

CONSTANTS Sessions,      \* database sessions
          Tenants,       \* tenants, DEFAULT among them
          DEFAULT,       \* the default tenant
          STAFF,         \* the platform staff role
          JsonPayloads,  \* payloads that decode to a JSON object
          RawPayloads,   \* payloads that do not
          EventIds,      \* identifiers of audited events
          NULL,          \* no value
          Legacy,        \* the chains an upgraded installation may start from
          Requests,      \* the arguments append is called with
          MaxEntries     \* bound on the length of the chain

VARIABLES
  entries,   \* committed rows: sequence_number -> row
  draft,     \* the rows a session's transaction has inserted
  lock,      \* holder of the transaction-scoped advisory lock
  pc,        \* where a session's transaction is
  who,       \* the role or tenant the session is bound to
  call,      \* the arguments of the session's append call
  latest,    \* the hash of the row the call read as the latest
  number     \* the sequence number the call computed

vars == <<entries, draft, lock, pc, who, call, latest, number>>

Payloads == JsonPayloads \cup RawPayloads
NoRows == [i \in {} |-> NULL]
BOUNDARY == "tenant_id_added"
GENESIS_HASH == << >>

(* Hashes are symbolic: a hash is the tuple of what it was computed from.   *)
compute_entry_hash(previous_hash, sequence_number, content) ==
  <<previous_hash, sequence_number, content>>

\* canonical_payload_hash: a JSON object is stamped with the tenant before it
\* is hashed, any other payload is hashed as it came.
canonical_payload_hash(payload, tenant) ==
  IF payload \in JsonPayloads THEN <<payload, tenant>> ELSE <<payload>>

\* A payload that names its tenant counts as the argument.
_resolve_tenant_id(tenant_id, w) ==
  IF tenant_id # NULL THEN tenant_id ELSE IF w \in Tenants THEN w ELSE DEFAULT

Row(seq, previous, content, event, tenant, stamped, boundary) ==
  [previous_hash |-> previous,
   entry_hash |-> compute_entry_hash(previous, seq, content),
   canonical_payload_hash |-> content,
   audit_event_id |-> event,
   tenant_id |-> tenant,
   stamped |-> stamped,        \* "tenant_id" in canonical_payload
   boundary |-> boundary]      \* event_type = TENANT_ID_BOUNDARY_EVENT

\* Entries written before the tenant column existed: linked, not stamped,
\* backfilled to the default tenant.
IsLegacy(rows) ==
  /\ \E n \in 0..MaxEntries : DOMAIN rows = 1..n
  /\ rows = [i \in DOMAIN rows |->
               Row(i, IF i = 1 THEN GENESIS_HASH ELSE rows[i - 1].entry_hash,
                   rows[i].canonical_payload_hash, rows[i].audit_event_id,
                   DEFAULT, FALSE, FALSE)]

ASSUME ConstantsAssumption ==
  /\ DEFAULT \in Tenants
  /\ STAFF \notin Tenants
  /\ NULL \notin Tenants \cup EventIds \cup Sessions
  /\ MaxEntries \in Nat
  /\ Requests \subseteq [payload: Payloads, event: EventIds \cup {NULL},
                          tenant: Tenants \cup {NULL}]
  /\ \A rows \in Legacy : IsLegacy(rows)

---------------------------------------------------------------------------
(* What a statement of a session sees. *)

Rows(s) == [i \in DOMAIN entries \cup DOMAIN draft[s] |->
              IF i \in DOMAIN draft[s] THEN draft[s][i] ELSE entries[i]]

\* Policy tenant_isolation: it filters reads and checks inserts.
tenant_isolation(w, row) == w = STAFF \/ row.tenant_id = w

Visible(s) == {i \in DOMAIN Rows(s) : tenant_isolation(who[s], Rows(s)[i])}

MaxOf(S) == IF S = {} THEN 0 ELSE CHOOSE i \in S : \A j \in S : j <= i

get_latest_entry(s) == Rows(s)[MaxOf(Visible(s))]

\* latest.entry_hash if latest is not None else GENESIS_HASH
LatestHash(s) ==
  IF Visible(s) = {} THEN GENESIS_HASH ELSE get_latest_entry(s).entry_hash

(* A mutant of has_event_type: only the latest row is looked at. *)
LatestIsBoundary(s) == Visible(s) # {} /\ get_latest_entry(s).boundary

has_event_type(s) == \E i \in Visible(s) : Rows(s)[i].boundary

(* A mutant of next_sequence_number: MAX + 1, plus the 1 of an empty table. *)
next_sequence_number_plus(s) == MaxOf(Visible(s)) + 1 + (IF Visible(s) = {} THEN 1 ELSE 0)

(* A mutant of next_sequence_number: COALESCE(MAX, 1), without adding 1. *)
max_sequence_number(s) == IF Visible(s) = {} THEN 1 ELSE MaxOf(Visible(s))

next_sequence_number(s) == MaxOf(Visible(s)) + 1

---------------------------------------------------------------------------
NoCall == [payload |-> NULL, event |-> NULL, tenant |-> NULL, kind |-> NULL]

Init ==
  /\ entries \in Legacy
  /\ draft = [s \in Sessions |-> NoRows]
  /\ lock = NULL
  /\ pc = [s \in Sessions |-> "idle"]
  /\ who = [s \in Sessions |-> NULL]
  /\ call = [s \in Sessions |-> NoCall]
  /\ latest = [s \in Sessions |-> GENESIS_HASH]
  /\ number = [s \in Sessions |-> 0]

Goto(s, step) == pc' = [pc EXCEPT ![s] = step]

\* A request takes a session from the tenant or the staff pool.
Begin(s, w) ==
  /\ pc[s] = "idle"
  /\ who' = [who EXCEPT ![s] = w]
  /\ Goto(s, "open")
  /\ UNCHANGED <<entries, draft, lock, call, latest, number>>

\* Some service calls append in its caller's transaction.
Append(s, r) ==
  /\ pc[s] = "open"
  /\ MaxOf(DOMAIN Rows(s)) + 2 <= MaxEntries
  /\ call' = [call EXCEPT ![s] = [payload |-> r.payload, event |-> r.event,
                                  tenant |-> r.tenant, kind |-> "entry"]]
  /\ Goto(s, "lock")
  /\ UNCHANGED <<entries, draft, lock, who, latest, number>>

(* A mutant of acquire_append_lock: pg_try_advisory_xact_lock, its answer   *)
(* ignored.                                                                 *)
try_append_lock(s) ==
  /\ pc[s] = "lock"
  /\ lock' = IF lock = NULL THEN s ELSE lock
  /\ Goto(s, "latest")
  /\ UNCHANGED <<entries, draft, who, call, latest, number>>

\* pg_advisory_xact_lock: reentrant, held until the transaction ends.
acquire_append_lock(s) ==
  /\ pc[s] = "lock"
  /\ lock \in {NULL, s}
  /\ lock' = s
  /\ Goto(s, "latest")
  /\ UNCHANGED <<entries, draft, who, call, latest, number>>

GetLatest(s) ==
  /\ pc[s] = "latest"
  /\ latest' = [latest EXCEPT ![s] = LatestHash(s)]
  /\ Goto(s, IF Visible(s) # {} /\ ~ get_latest_entry(s).stamped
             THEN "boundary" ELSE "number")
  /\ UNCHANGED <<entries, draft, lock, who, call, number>>

_should_append_tenant_boundary(s) ==
  /\ pc[s] = "boundary"
  /\ call' = [call EXCEPT ![s].kind =
                IF has_event_type(s) THEN "entry" ELSE "boundary"]
  /\ Goto(s, "number")
  /\ UNCHANGED <<entries, draft, lock, who, latest, number>>

NextSequenceNumber(s) ==
  /\ pc[s] = "number"
  /\ number' = [number EXCEPT ![s] = next_sequence_number(s)]
  /\ Goto(s, "insert")
  /\ UNCHANGED <<entries, draft, lock, who, call, latest>>

\* The row the call inserts next: the boundary entry, or its own.
NewRow(s) ==
  LET tenant == _resolve_tenant_id(call[s].tenant, who[s])
  IN  IF call[s].kind = "boundary"
      THEN Row(number[s], latest[s], <<BOUNDARY, latest[s]>>, NULL, DEFAULT, TRUE, TRUE)
      ELSE Row(number[s], latest[s], canonical_payload_hash(call[s].payload, tenant),
               call[s].event, tenant, call[s].payload \in JsonPayloads, FALSE)

(* A mutant of EndTransaction: a session-level advisory lock.               *)
EndTransactionKeepingLock(s) ==
  /\ draft' = [draft EXCEPT ![s] = NoRows]
  /\ who' = [who EXCEPT ![s] = NULL]
  /\ call' = [call EXCEPT ![s] = NoCall]
  /\ latest' = [latest EXCEPT ![s] = GENESIS_HASH]
  /\ number' = [number EXCEPT ![s] = 0]
  /\ Goto(s, "idle")
  /\ UNCHANGED lock

EndTransaction(s) ==
  /\ draft' = [draft EXCEPT ![s] = NoRows]
  /\ lock' = IF lock = s THEN NULL ELSE lock
  /\ who' = [who EXCEPT ![s] = NULL]
  /\ call' = [call EXCEPT ![s] = NoCall]
  /\ latest' = [latest EXCEPT ![s] = GENESIS_HASH]
  /\ number' = [number EXCEPT ![s] = 0]
  /\ Goto(s, "idle")

\* The policy refuses the row, or its number is taken: the statement raises
\* and the request's transaction is rolled back.
InsertRefused(s) ==
  /\ pc[s] = "insert"
  /\ \/ ~ tenant_isolation(who[s], NewRow(s))
     \/ number[s] \in DOMAIN Rows(s)
  /\ EndTransaction(s)
  /\ UNCHANGED entries

(* A mutant of insert_entry: the boundary row does not become the latest.   *)
insert_entry_keeping_latest(s) ==
  /\ pc[s] = "insert"
  /\ tenant_isolation(who[s], NewRow(s))
  /\ number[s] \notin DOMAIN Rows(s)
  /\ \A r \in Sessions \ {s} : number[s] \notin DOMAIN draft[r]
  /\ draft' = [draft EXCEPT ![s] =
                 [i \in DOMAIN draft[s] \cup {number[s]} |->
                    IF i = number[s] THEN NewRow(s) ELSE draft[s][i]]]
  /\ number' = [number EXCEPT ![s] = 0]
  /\ IF call[s].kind = "boundary"
     THEN /\ call' = [call EXCEPT ![s].kind = "entry"]
          /\ Goto(s, "number")
          /\ UNCHANGED latest
     ELSE /\ latest' = [latest EXCEPT ![s] = GENESIS_HASH]
          /\ call' = [call EXCEPT ![s] = NoCall]
          /\ Goto(s, "open")
  /\ UNCHANGED <<entries, lock, who>>

\* The row goes in; a unique key inserted by an open transaction of another
\* session would make the statement wait.
insert_entry(s) ==
  /\ pc[s] = "insert"
  /\ tenant_isolation(who[s], NewRow(s))
  /\ number[s] \notin DOMAIN Rows(s)
  /\ \A r \in Sessions \ {s} : number[s] \notin DOMAIN draft[r]
  /\ draft' = [draft EXCEPT ![s] =
                 [i \in DOMAIN draft[s] \cup {number[s]} |->
                    IF i = number[s] THEN NewRow(s) ELSE draft[s][i]]]
  /\ number' = [number EXCEPT ![s] = 0]
  /\ IF call[s].kind = "boundary"
     THEN /\ latest' = [latest EXCEPT ![s] = NewRow(s).entry_hash]
          /\ call' = [call EXCEPT ![s].kind = "entry"]
          /\ Goto(s, "number")
     ELSE /\ latest' = [latest EXCEPT ![s] = GENESIS_HASH]
          /\ call' = [call EXCEPT ![s] = NoCall]
          /\ Goto(s, "open")
  /\ UNCHANGED <<entries, lock, who>>

\* The request ends: get_db commits ...
Commit(s) ==
  /\ pc[s] = "open"
  /\ entries' = Rows(s)
  /\ EndTransaction(s)

\* ... or, on an exception or a lost connection at any point, rolls back.
Rollback(s) ==
  /\ pc[s] # "idle"
  /\ EndTransaction(s)
  /\ UNCHANGED entries

\* One UPDATE in its own transaction; the trigger prevent_audit_chain_mutation
\* admits exactly this change of a row.
null_audit_event_reference(w, e) ==
  /\ entries' = [i \in DOMAIN entries |->
                   IF tenant_isolation(w, entries[i]) /\ entries[i].audit_event_id = e
                   THEN [entries[i] EXCEPT !.audit_event_id = NULL] ELSE entries[i]]
  /\ UNCHANGED <<draft, lock, pc, who, call, latest, number>>

Next ==
  \/ \E s \in Sessions :
       \/ \E w \in Tenants \cup {STAFF} : Begin(s, w)
       \/ \E r \in Requests : Append(s, r)
       \/ acquire_append_lock(s) \/ GetLatest(s) \/ _should_append_tenant_boundary(s)
       \/ NextSequenceNumber(s) \/ insert_entry(s) \/ InsertRefused(s)
       \/ Commit(s) \/ Rollback(s)
  \/ \E w \in Tenants \cup {STAFF}, e \in EventIds : null_audit_event_reference(w, e)

Step(s) ==
  acquire_append_lock(s) \/ GetLatest(s) \/ _should_append_tenant_boundary(s)
    \/ NextSequenceNumber(s) \/ insert_entry(s) \/ InsertRefused(s)

\* Requests end, and the lock manager serves its waiters in turn.
Fairness ==
  \A s \in Sessions : SF_vars(Step(s)) /\ WF_vars(Commit(s))

Spec == Init /\ [][Next]_vars

FairSpec == Spec /\ Fairness

---------------------------------------------------------------------------
(* AuditChainService.verify, as called through a session of role w: the set *)
(* of entries in the range at which the walk finds a wrong hash.  The walk  *)
(* stops at the first; up to there the previous hash is the stored one.     *)
verify(w, start, end) ==
  LET Seen == {i \in DOMAIN entries : tenant_isolation(w, entries[i])}
      Range == {i \in Seen : start <= i /\ i <= end}
      Before(i) == {j \in Range : j < i}
      previous(i) ==
        IF Before(i) # {} THEN entries[MaxOf(Before(i))].entry_hash
        ELSE IF start > 1 /\ start - 1 \in Seen THEN entries[start - 1].entry_hash
        ELSE GENESIS_HASH
  IN  {i \in Range : entries[i].entry_hash #
         compute_entry_hash(previous(i), i, entries[i].canonical_payload_hash)}

(* Every variable keeps its shape, and only the holder of the append lock is*)
(* inside append or has rows that are not committed.                        *)
TypeOK ==
  /\ lock \in Sessions \cup {NULL}
  /\ pc \in [Sessions -> {"idle", "open", "lock", "latest", "boundary", "number", "insert"}]
  /\ who \in [Sessions -> Tenants \cup {STAFF, NULL}]
  /\ call \in [Sessions -> [payload: Payloads \cup {NULL},
                            event: EventIds \cup {NULL},
                            tenant: Tenants \cup {NULL},
                            kind: {"entry", "boundary", NULL}]]
  /\ number \in [Sessions -> Nat]
  /\ \A s \in Sessions :
       \/ lock = s
       \/ pc[s] \in {"idle", "open", "lock"} /\ DOMAIN draft[s] = {}

(* verify, run by the platform staff over any range of an untouched chain,  *)
(* finds no broken entry: whatever the interleaving of appends, rollbacks   *)
(* and erasures, the chain has neither a fork nor a wrong link.             *)
VerifyAcceptsChain ==
  \A start, end \in DOMAIN entries : start <= end => verify(STAFF, start, end) = {}

(* The lock serialises the appends of sessions that see the whole table: the*)
(* number such an append computed is still free when it inserts, so no audit*)
(* record of the platform staff is lost to the unique constraint.           *)
StaffNumberIsFree ==
  \A s \in Sessions :
    pc[s] = "insert" /\ who[s] = STAFF =>
      /\ number[s] \notin DOMAIN entries
      /\ \A r \in Sessions \ {s} : number[s] \notin DOMAIN draft[r]

(* The boundary entry is written once, and before anything that follows an  *)
(* entry without a tenant stamp.                                            *)
BoundarySeparatesFormats ==
  /\ \A i, j \in DOMAIN entries : entries[i].boundary /\ entries[j].boundary => i = j
  /\ \A i \in DOMAIN entries :
       i + 1 \in DOMAIN entries /\ ~ entries[i].stamped =>
         \E j \in DOMAIN entries : j <= i + 1 /\ entries[j].boundary

(* An append that is under way returns or fails: nobody waits for the append*)
(* lock for ever.                                                           *)
AppendEnds ==
  \A s \in Sessions : pc[s] = "lock" ~> pc[s] \in {"open", "idle"}

(* AC6, "1,000 parallel writes produce 1,000 sequential rows": the number   *)
(* an append computed, whatever its session is bound to, is not taken.      *)
EveryNumberIsFree ==
  \A s \in Sessions : pc[s] = "insert" => number[s] \notin DOMAIN entries

\* The refinement mapping: what a committed entry attests to.
LogView == [i \in DOMAIN entries |-> [content |-> entries[i].canonical_payload_hash,
                                      event |-> entries[i].audit_event_id]]

Log == INSTANCE AuditLog WITH log <- LogView

(* The chain implements the log its callers rely on: committed entries stay,*)
(* in order and without gaps, whatever the other sessions do.               *)
ImplementsLog == Log!Spec
=============================================================================
