-------------------------- MODULE AuditChainProofs --------------------------
(* The audit chain's invariants, and that it implements AuditLog, for every *)
(* number of sessions, tenants, payloads and entries.                       *)
EXTENDS AuditChain, WellFoundedInduction, TLAPS

---------------------------------------------------------------------------
(* Maxima of bounded sets of numbers.                                       *)

(* A non-empty set of naturals has a smallest element.                      *)
LEMMA MinExists ==
  ASSUME NEW T, T \subseteq Nat, T # {}
  PROVE  \E x \in T : \A y \in T : x <= y
<1> DEFINE R == OpToRel(<, Nat)
<1>1. IsWellFoundedOn(R, Nat)
  BY NatLessThanWellFounded
<1>2. \A x, y \in Nat : <<y, x>> \in R <=> y < x
  BY DEF OpToRel
<1> HIDE DEF R
<1>3. PICK x \in T : \A y \in T : ~ (<<y, x>> \in R)
  BY <1>1, WFMin
<1>4. ASSUME NEW y \in T PROVE x <= y
  <2>1. x \in Nat /\ y \in Nat
    OBVIOUS
  <2>2. ~ (y < x)
    BY <1>2, <1>3, <2>1
  <2> QED BY <2>1, <2>2
<1> QED BY <1>4

(* A non-empty set of numbers up to m has a largest element: MaxOf.         *)
LEMMA MaxOfProp ==
  ASSUME NEW m \in Nat, NEW S, S \subseteq 1..m, S # {}
  PROVE  MaxOf(S) \in S /\ \A y \in S : y <= MaxOf(S)
<1> DEFINE T == {m - t : t \in S}
<1>1. T \subseteq Nat /\ T # {}
  <2>1. ASSUME NEW t \in S PROVE m - t \in Nat
    OBVIOUS
  <2>2. PICK t \in S : TRUE
    OBVIOUS
  <2>3. m - t \in T
    OBVIOUS
  <2> QED BY <2>1, <2>3
<1>2. PICK z \in T : \A y \in T : z <= y
  <2> HIDE DEF T
  <2> QED BY <1>1, MinExists
<1>3. PICK x \in S : z = m - x
  OBVIOUS
<1>4. \A y \in S : z <= m - y
  BY <1>2
<1>5. \A y \in S : y <= x
  BY <1>3, <1>4
<1> QED BY <1>5 DEF MaxOf

(* What next_sequence_number is, for numbers up to m.                       *)
LEMMA MaxOfBound ==
  ASSUME NEW m \in Nat, NEW S, S \subseteq 1..m
  PROVE  MaxOf(S) \in Nat /\ MaxOf(S) <= m /\ \A y \in S : y <= MaxOf(S)
<1>1. CASE S = {}
  BY <1>1 DEF MaxOf
<1>2. CASE S # {}
  <2>1. MaxOf(S) \in S /\ \A y \in S : y <= MaxOf(S)
    BY <1>2, MaxOfProp
  <2>2. MaxOf(S) \in 1..m
    BY <2>1
  <2> QED BY <2>1, <2>2
<1> QED BY <1>1, <1>2

---------------------------------------------------------------------------
(* The inductive invariant.                                                 *)

IsRow(r) ==
  r = [previous_hash |-> r.previous_hash, entry_hash |-> r.entry_hash,
       canonical_payload_hash |-> r.canonical_payload_hash,
       audit_event_id |-> r.audit_event_id, tenant_id |-> r.tenant_id,
       stamped |-> r.stamped, boundary |-> r.boundary]

Previous(rows, i) == IF i = 1 THEN GENESIS_HASH ELSE rows[i - 1].entry_hash

\* A table whose rows are numbered without gaps and linked by their hashes.
Chain(rows) ==
  /\ rows = [i \in DOMAIN rows |-> rows[i]]
  /\ \E n \in Nat : DOMAIN rows = 1..n
  /\ \A i \in DOMAIN rows :
       /\ IsRow(rows[i])
       /\ rows[i].entry_hash =
            compute_entry_hash(Previous(rows, i), i, rows[i].canonical_payload_hash)

\* What a session's transaction may rely on while it holds the append lock.
SessionInv(s) ==
  /\ Chain(Rows(s))
  /\ pc[s] = "idle" => DOMAIN draft[s] = {}
  /\ DOMAIN draft[s] \cap DOMAIN entries = {}
  /\ \A i \in DOMAIN draft[s] : tenant_isolation(who[s], draft[s][i])
  /\ pc[s] \in {"boundary", "number", "insert"} => latest[s] = LatestHash(s)
  /\ pc[s] = "insert" => number[s] = next_sequence_number(s)

ChainInv ==
  /\ TypeOK
  /\ DOMAIN draft = Sessions /\ draft = [s \in Sessions |-> draft[s]]
  /\ DOMAIN latest = Sessions /\ latest = [s \in Sessions |-> latest[s]]
  /\ Chain(entries)
  /\ \A s \in Sessions : SessionInv(s)

---------------------------------------------------------------------------
(* A legacy chain is a chain.                                               *)
LEMMA LegacyIsChain ==
  ASSUME NEW rows \in Legacy
  PROVE  Chain(rows)
<1>1. IsLegacy(rows)
  BY ConstantsAssumption
<1>2. rows = [i \in DOMAIN rows |-> rows[i]]
  BY <1>1 DEF IsLegacy
<1>3. ASSUME NEW i \in DOMAIN rows
      PROVE  IsRow(rows[i]) /\ rows[i].entry_hash =
               compute_entry_hash(Previous(rows, i), i, rows[i].canonical_payload_hash)
  BY <1>1 DEF IsLegacy, Row, IsRow, Previous
<1>4. \E n \in Nat : DOMAIN rows = 1..n
  BY <1>1, ConstantsAssumption DEF IsLegacy
<1> QED BY <1>2, <1>3, <1>4 DEF Chain
(* The first state satisfies the invariant: nothing is in progress and the  *)
(* table is a legacy chain.                                                 *)
LEMMA InitChainInv == Init => ChainInv
<1> SUFFICES ASSUME Init PROVE ChainInv
  OBVIOUS
<1> USE ConstantsAssumption
<1>1. TypeOK
  BY DEF Init, TypeOK, NoCall, NoRows
<1>2. Chain(entries)
  BY LegacyIsChain DEF Init
<1>3. ASSUME NEW s \in Sessions PROVE SessionInv(s)
  <2>1. draft[s] = NoRows /\ DOMAIN draft[s] = {} /\ pc[s] = "idle"
    BY DEF Init, NoRows
  <2>2. Rows(s) = [i \in DOMAIN entries |-> entries[i]]
    BY <2>1 DEF Rows
  <2>3. Rows(s) = entries
    BY <2>2, <1>2 DEF Chain
  <2> QED BY <2>1, <2>3, <1>2 DEF SessionInv
<1> QED BY <1>1, <1>2, <1>3 DEF ChainInv, Init

(* What a session sees depends on the committed rows, its own rows and its  *)
(* role only.                                                               *)
LEMMA SameView ==
  ASSUME NEW s, entries' = entries, draft'[s] = draft[s], who'[s] = who[s]
  PROVE  /\ Rows(s)' = Rows(s)
         /\ Visible(s)' = Visible(s)
         /\ LatestHash(s)' = LatestHash(s)
         /\ next_sequence_number(s)' = next_sequence_number(s)
<1>1. Rows(s)' = Rows(s)
  BY DEF Rows
<1>2. Visible(s)' = Visible(s)
  BY <1>1 DEF Visible, tenant_isolation
<1> QED BY <1>1, <1>2 DEF LatestHash, get_latest_entry, next_sequence_number

(* A step that leaves a session's view and registers alone, or takes it to  *)
(* a place where they are not used, keeps what is known of the session.     *)
LEMMA SessionKept ==
  ASSUME NEW s, SessionInv(s),
         entries' = entries, draft'[s] = draft[s], who'[s] = who[s],
         \/ pc'[s] \in {"open", "lock", "latest"}
         \/ pc'[s] = pc[s] /\ latest'[s] = latest[s] /\ number'[s] = number[s]
  PROVE  SessionInv(s)'
<1>1. /\ Rows(s)' = Rows(s)
      /\ LatestHash(s)' = LatestHash(s)
      /\ next_sequence_number(s)' = next_sequence_number(s)
  BY SameView
<1>2. Chain(Rows(s))'
  BY <1>1 DEF SessionInv, Chain, IsRow, Previous
<1>3. \A i \in DOMAIN draft'[s] : tenant_isolation(who'[s], draft'[s][i])
  BY DEF SessionInv
<1>4. DOMAIN draft'[s] \cap DOMAIN entries' = {}
  BY DEF SessionInv
<1>5. pc'[s] \in {"boundary", "number", "insert"} => latest'[s] = LatestHash(s)'
  BY <1>1 DEF SessionInv
<1>6. pc'[s] = "insert" => number'[s] = next_sequence_number(s)'
  BY <1>1 DEF SessionInv
<1>7. pc'[s] = "idle" => DOMAIN draft'[s] = {}
  BY DEF SessionInv
<1> QED BY <1>2, <1>3, <1>4, <1>5, <1>6, <1>7 DEF SessionInv, tenant_isolation

(* A session without rows of its own sees the committed table.              *)
LEMMA EmptyDraft ==
  ASSUME NEW s, Chain(entries), DOMAIN draft[s] = {}
  PROVE  Rows(s) = entries
<1>1. Rows(s) = [i \in DOMAIN entries |-> entries[i]]
  BY DEF Rows
<1> QED BY <1>1 DEF Chain
(* After a step, a session that has nothing under way and no rows of its own *)
(* sees the committed table.                                                *)
LEMMA FreshSession ==
  ASSUME NEW s, Chain(entries)', DOMAIN draft'[s] = {},
         pc'[s] \in {"idle", "open", "lock"}
  PROVE  SessionInv(s)'
<1>1. Rows(s)' = [i \in DOMAIN entries' |-> entries'[i]]
  BY DEF Rows
<1>2. Rows(s)' = entries'
  BY <1>1 DEF Chain
<1>3. Chain(Rows(s))'
  BY <1>2 DEF Chain, IsRow, Previous
<1> QED BY <1>3 DEF SessionInv

(* Changing the kind of row a call inserts next keeps the calls' type.      *)
LEMMA KindType ==
  ASSUME NEW P, NEW E, NEW T, NEW K, NEW k \in K, NEW s \in Sessions,
         NEW c \in [Sessions -> [payload: P, event: E, tenant: T, kind: K]]
  PROVE  [c EXCEPT ![s].kind = k] \in [Sessions -> [payload: P, event: E, tenant: T, kind: K]]
<1>1. [c[s] EXCEPT !.kind = k] \in [payload: P, event: E, tenant: T, kind: K]
  OBVIOUS
<1> QED BY <1>1

(* The number append computes lies past every row its session sees, and at  *)
(* most one past the end of the table.                                      *)
LEMMA NextNumberProp ==
  ASSUME NEW s, SessionInv(s)
  PROVE  /\ next_sequence_number(s) \in Nat \ {0}
         /\ \A i \in Visible(s) : i < next_sequence_number(s)
         /\ next_sequence_number(s) # 1 => next_sequence_number(s) - 1 \in DOMAIN Rows(s)
         /\ Visible(s) = {} <=> next_sequence_number(s) = 1
         /\ Visible(s) # {} => next_sequence_number(s) - 1 = MaxOf(Visible(s))
<1>1. PICK n \in Nat : DOMAIN Rows(s) = 1..n
  BY DEF SessionInv, Chain
<1>2. Visible(s) \subseteq 1..n /\ Visible(s) \subseteq DOMAIN Rows(s)
  BY <1>1 DEF Visible
<1> HIDE DEF Visible
<1>3. MaxOf(Visible(s)) \in Nat /\ \A y \in Visible(s) : y <= MaxOf(Visible(s))
  BY <1>2, MaxOfBound
<1>4. CASE Visible(s) = {}
  <2>1. MaxOf(Visible(s)) = 0
    BY <1>4 DEF MaxOf
  <2> QED BY <2>1, <1>4 DEF next_sequence_number
<1>5. CASE Visible(s) # {}
  <2>1. MaxOf(Visible(s)) \in Visible(s)
    BY <1>5, <1>2, MaxOfProp
  <2>2. MaxOf(Visible(s)) \in 1..n /\ MaxOf(Visible(s)) \in DOMAIN Rows(s)
    BY <2>1, <1>2
  <2>3. ASSUME NEW i \in Visible(s) PROVE i < next_sequence_number(s)
    <3>1. i \in 1..n /\ i <= MaxOf(Visible(s))
      BY <1>2, <1>3
    <3> QED BY <3>1, <1>3 DEF next_sequence_number
  <2>4. next_sequence_number(s) - 1 = MaxOf(Visible(s)) /\ next_sequence_number(s) > 1
    BY <2>2 DEF next_sequence_number
  <2>5. next_sequence_number(s) \in Nat \ {0}
    BY <2>2 DEF next_sequence_number
  <2> QED BY <2>2, <2>3, <2>4, <2>5, <1>5
<1> QED BY <1>4, <1>5

---------------------------------------------------------------------------
(* Every action preserves the invariant.                                    *)

(* The end of a transaction: types and the state of the ending session.     *)
LEMMA EndTransactionTypes ==
  ASSUME ChainInv, NEW s \in Sessions, EndTransaction(s)
  PROVE  /\ TypeOK'
         /\ DOMAIN draft' = Sessions /\ draft' = [x \in Sessions |-> draft'[x]]
         /\ DOMAIN latest' = Sessions /\ latest' = [x \in Sessions |-> latest'[x]]
         /\ DOMAIN draft'[s] = {} /\ pc'[s] = "idle"
         /\ \A r \in Sessions \ {s} :
              /\ draft'[r] = draft[r] /\ pc'[r] = pc[r] /\ who'[r] = who[r]
              /\ latest'[r] = latest[r] /\ number'[r] = number[r]
<1> USE DEF EndTransaction, Goto
<1>1. DOMAIN draft' = Sessions /\ draft' = [x \in Sessions |-> draft'[x]]
  BY DEF ChainInv
<1>2. DOMAIN latest' = Sessions /\ latest' = [x \in Sessions |-> latest'[x]]
  BY DEF ChainInv
<1>3. DOMAIN draft'[s] = {} /\ pc'[s] = "idle"
  BY DEF ChainInv, TypeOK, NoRows
<1>4. \A r \in Sessions \ {s} :
        /\ draft'[r] = draft[r] /\ pc'[r] = pc[r] /\ who'[r] = who[r]
        /\ latest'[r] = latest[r] /\ number'[r] = number[r]
  BY DEF ChainInv, TypeOK
<1>5. TypeOK'
  <2>1. lock' \in Sessions \cup {NULL}
    BY DEF ChainInv, TypeOK
  <2>2. /\ pc' \in [Sessions -> {"idle", "open", "lock", "latest", "boundary", "number", "insert"}]
        /\ who' \in [Sessions -> Tenants \cup {STAFF, NULL}]
        /\ number' \in [Sessions -> Nat]
    BY DEF ChainInv, TypeOK
  <2>3. call' \in [Sessions -> [payload: Payloads \cup {NULL},
                                event: EventIds \cup {NULL},
                                tenant: Tenants \cup {NULL},
                                kind: {"entry", "boundary", NULL}]]
    BY DEF ChainInv, TypeOK, NoCall
  <2>4. ASSUME NEW r \in Sessions
        PROVE  \/ lock' = r
               \/ pc'[r] \in {"idle", "open", "lock"} /\ DOMAIN draft'[r] = {}
    <3>1. CASE r = s
      BY <3>1, <1>3
    <3>2. CASE r # s
      BY <3>2, <1>4 DEF ChainInv, TypeOK
    <3> QED BY <3>1, <3>2
  <2> QED BY <2>1, <2>2, <2>3, <2>4 DEF TypeOK
<1> QED BY <1>1, <1>2, <1>3, <1>4, <1>5

(* Giving up a transaction.                                                 *)
LEMMA AbortKeepsInv ==
  ASSUME ChainInv, NEW s \in Sessions, EndTransaction(s), entries' = entries
  PROVE  ChainInv'
<1>1. Chain(entries)'
  BY DEF ChainInv, Chain, IsRow, Previous
<1>2. ASSUME NEW r \in Sessions PROVE SessionInv(r)'
  <2>1. CASE r = s
    BY <2>1, <1>1, EndTransactionTypes, FreshSession
  <2>2. CASE r # s
    BY <2>2, EndTransactionTypes, SessionKept DEF ChainInv
  <2> QED BY <2>1, <2>2
<1> QED BY <1>1, <1>2, EndTransactionTypes DEF ChainInv
(* A commit: the session's view becomes the table; whoever holds no lock    *)
(* sees exactly that.                                                       *)
LEMMA CommitKeepsInv ==
  ASSUME ChainInv, NEW s \in Sessions, Commit(s)
  PROVE  ChainInv'
<1>1. EndTransaction(s) /\ entries' = Rows(s)
  BY DEF Commit
<1>2. Chain(entries)'
  BY <1>1 DEF ChainInv, SessionInv, Chain, IsRow, Previous
<1>3. CASE DOMAIN draft[s] = {}
  <2>1. entries' = entries
    BY <1>1, <1>3, EmptyDraft DEF ChainInv
  <2> QED BY <2>1, <1>1, AbortKeepsInv
<1>4. CASE DOMAIN draft[s] # {}
  <2>1. lock = s
    BY <1>4 DEF ChainInv, TypeOK
  <2>2. ASSUME NEW r \in Sessions
        PROVE  DOMAIN draft'[r] = {} /\ pc'[r] \in {"idle", "open", "lock"}
    <3>1. CASE r = s
      BY <3>1, <1>1, EndTransactionTypes
    <3>2. CASE r # s
      <4>1. lock # r
        BY <3>2, <2>1
      <4>2. pc[r] \in {"idle", "open", "lock"} /\ DOMAIN draft[r] = {}
        BY <4>1 DEF ChainInv, TypeOK
      <4> QED BY <4>2, <3>2, <1>1, EndTransactionTypes
    <3> QED BY <3>1, <3>2
  <2>3. ASSUME NEW r \in Sessions PROVE SessionInv(r)'
    BY <2>2, <1>2, FreshSession
  <2> QED BY <2>3, <1>1, <1>2, EndTransactionTypes DEF ChainInv
<1> QED BY <1>3, <1>4
(* The steps that change neither table.                                     *)
LEMMA ReadKeepsInv ==
  ASSUME ChainInv, NEW s \in Sessions,
         \/ \E w \in Tenants \cup {STAFF} : Begin(s, w)
         \/ \E r \in Requests : Append(s, r)
         \/ acquire_append_lock(s)
         \/ GetLatest(s)
         \/ _should_append_tenant_boundary(s)
         \/ NextSequenceNumber(s)
  PROVE  ChainInv'
<1> USE ConstantsAssumption
<1>1. entries' = entries /\ draft' = draft
  BY DEF Begin, Append, acquire_append_lock, GetLatest, _should_append_tenant_boundary,
         NextSequenceNumber
<1>2. Chain(entries)'
  BY <1>1 DEF ChainInv, Chain, IsRow, Previous
<1>3. \A r \in Sessions \ {s} :
        /\ pc'[r] = pc[r] /\ who'[r] = who[r]
        /\ latest'[r] = latest[r] /\ number'[r] = number[r]
  BY DEF Begin, Append, acquire_append_lock, GetLatest, _should_append_tenant_boundary,
         NextSequenceNumber, Goto, ChainInv, TypeOK
<1>4. \A r \in Sessions \ {s} : SessionInv(r)'
  BY <1>1, <1>3, SessionKept DEF ChainInv
<1>5. DOMAIN latest' = Sessions /\ latest' = [x \in Sessions |-> latest'[x]]
  BY DEF Begin, Append, acquire_append_lock, GetLatest, _should_append_tenant_boundary,
         NextSequenceNumber, ChainInv
<1>6. ASSUME TypeOK', SessionInv(s)' PROVE ChainInv'
  BY <1>1, <1>2, <1>4, <1>5, <1>6 DEF ChainInv
<1>7. ASSUME NEW w \in Tenants \cup {STAFF}, Begin(s, w) PROVE ChainInv'
  <2>1. TypeOK'
    BY <1>7 DEF Begin, Goto, ChainInv, TypeOK
  <2>2. DOMAIN draft'[s] = {} /\ pc'[s] = "open"
    BY <1>1, <1>7 DEF Begin, Goto, ChainInv, TypeOK, SessionInv
  <2> QED BY <2>1, <2>2, <1>2, <1>6, FreshSession
<1>8. ASSUME NEW r \in Requests, Append(s, r) PROVE ChainInv'
  <2>1. TypeOK'
    <3>1. [payload |-> r.payload, event |-> r.event, tenant |-> r.tenant, kind |-> "entry"]
            \in [payload: Payloads \cup {NULL}, event: EventIds \cup {NULL},
                 tenant: Tenants \cup {NULL}, kind: {"entry", "boundary", NULL}]
      OBVIOUS
    <3> QED BY <3>1, <1>8 DEF Append, Goto, ChainInv, TypeOK
  <2>2. who'[s] = who[s] /\ draft'[s] = draft[s] /\ pc'[s] = "lock"
    BY <1>8 DEF Append, Goto, ChainInv, TypeOK
  <2> QED BY <2>1, <2>2, <1>1, <1>6, SessionKept DEF ChainInv
<1>9. CASE acquire_append_lock(s)
  <2>1. TypeOK'
    BY <1>9 DEF acquire_append_lock, Goto, ChainInv, TypeOK
  <2>2. who'[s] = who[s] /\ draft'[s] = draft[s] /\ pc'[s] = "latest"
    BY <1>9 DEF acquire_append_lock, Goto, ChainInv, TypeOK
  <2> QED BY <2>1, <2>2, <1>1, <1>6, SessionKept DEF ChainInv
<1>10. CASE GetLatest(s)
  <2>1. TypeOK'
    BY <1>10 DEF GetLatest, Goto, ChainInv, TypeOK
  <2>2. latest'[s] = LatestHash(s)' /\ pc'[s] \in {"boundary", "number"}
    BY <1>1, <1>10, SameView DEF GetLatest, Goto, ChainInv, TypeOK
  <2>3. Chain(Rows(s))'
    BY <1>1, <1>10, SameView DEF GetLatest, ChainInv, SessionInv, Chain, IsRow, Previous
  <2>4. SessionInv(s)'
    BY <2>2, <2>3, <1>1, <1>10 DEF GetLatest, ChainInv, SessionInv, tenant_isolation
  <2> QED BY <2>1, <2>4, <1>6
<1>11. CASE _should_append_tenant_boundary(s)
  <2>1. TypeOK'
    <3>1. call' \in [Sessions -> [payload: Payloads \cup {NULL},
                                  event: EventIds \cup {NULL},
                                  tenant: Tenants \cup {NULL},
                                  kind: {"entry", "boundary", NULL}]]
      <4> DEFINE k == IF has_event_type(s) THEN "entry" ELSE "boundary"
      <4>1. call' = [call EXCEPT ![s].kind = k] /\ k \in {"entry", "boundary", NULL}
        BY <1>11 DEF _should_append_tenant_boundary
      <4> HIDE DEF k
      <4> QED BY <4>1, KindType DEF ChainInv, TypeOK
    <3> QED BY <3>1, <1>11 DEF _should_append_tenant_boundary, Goto, ChainInv, TypeOK
  <2>2. latest'[s] = LatestHash(s)' /\ pc'[s] = "number"
    BY <1>1, <1>11, SameView
       DEF _should_append_tenant_boundary, Goto, ChainInv, TypeOK, SessionInv
  <2>3. Chain(Rows(s))'
    BY <1>1, <1>11, SameView
       DEF _should_append_tenant_boundary, ChainInv, SessionInv, Chain, IsRow, Previous
  <2>4. SessionInv(s)'
    BY <2>2, <2>3, <1>1, <1>11
       DEF _should_append_tenant_boundary, ChainInv, SessionInv, tenant_isolation
  <2> QED BY <2>1, <2>4, <1>6
<1>12. CASE NextSequenceNumber(s)
  <2>1. next_sequence_number(s) \in Nat
    BY NextNumberProp DEF ChainInv
  <2>2. TypeOK'
    BY <2>1, <1>12 DEF NextSequenceNumber, Goto, ChainInv, TypeOK
  <2>3. /\ latest'[s] = LatestHash(s)'
        /\ number'[s] = next_sequence_number(s)'
        /\ pc'[s] = "insert"
    BY <1>1, <1>12, SameView DEF NextSequenceNumber, Goto, ChainInv, TypeOK, SessionInv
  <2>4. Chain(Rows(s))'
    BY <1>1, <1>12, SameView
       DEF NextSequenceNumber, ChainInv, SessionInv, Chain, IsRow, Previous
  <2>5. SessionInv(s)'
    BY <2>3, <2>4, <1>1, <1>12
       DEF NextSequenceNumber, ChainInv, SessionInv, tenant_isolation
  <2> QED BY <2>2, <2>5, <1>6
<1> QED BY <1>7, <1>8, <1>9, <1>10, <1>11, <1>12
(* The row that insert_entry adds is the next one of the chain its session  *)
(* sees: the lock and the unique constraint leave no other place for it.    *)
LEMMA InsertExtends ==
  ASSUME ChainInv, NEW s \in Sessions, insert_entry(s),
         NEW n \in Nat, DOMAIN Rows(s) = 1..n
  PROVE  /\ number[s] = n + 1
         /\ latest[s] = Previous(Rows(s), n + 1)
         /\ Rows(s)' = [i \in 1..(n + 1) |-> IF i = n + 1 THEN NewRow(s) ELSE Rows(s)[i]]
<1> DEFINE N == number[s]
<1>1. SessionInv(s) /\ pc[s] = "insert" /\ N = next_sequence_number(s)
  BY DEF ChainInv, SessionInv, insert_entry
<1>2. /\ N \in Nat \ {0}
      /\ \A i \in Visible(s) : i < N
      /\ N # 1 => N - 1 \in DOMAIN Rows(s)
      /\ Visible(s) = {} <=> N = 1
      /\ Visible(s) # {} => N - 1 = MaxOf(Visible(s))
  BY <1>1, NextNumberProp
<1>3. N \notin DOMAIN Rows(s)
  BY DEF insert_entry
<1>4. N = n + 1
  <2>1. N = 1 \/ N - 1 \in 1..n
    BY <1>2
  <2>2. N \notin 1..n
    BY <1>3
  <2> QED BY <2>1, <2>2, <1>2
<1>5. latest[s] = Previous(Rows(s), n + 1)
  <2>1. latest[s] = LatestHash(s)
    BY <1>1 DEF SessionInv
  <2>2. CASE N = 1
    BY <2>1, <2>2, <1>2, <1>4 DEF LatestHash, Previous
  <2>3. CASE N # 1
    <3>1. Visible(s) # {} /\ MaxOf(Visible(s)) = n /\ (n + 1) - 1 = n /\ n + 1 # 1
      BY <2>3, <1>2, <1>4
    <3>2. latest[s] = Rows(s)[n].entry_hash
      BY <2>1, <3>1 DEF LatestHash, get_latest_entry
    <3> QED BY <3>1, <3>2 DEF Previous
  <2> QED BY <2>2, <2>3
<1>6. Rows(s)' = [i \in 1..(n + 1) |-> IF i = n + 1 THEN NewRow(s) ELSE Rows(s)[i]]
  <2>1. /\ entries' = entries
        /\ draft'[s] = [i \in DOMAIN draft[s] \cup {n + 1} |->
                          IF i = n + 1 THEN NewRow(s) ELSE draft[s][i]]
    BY <1>4 DEF insert_entry, ChainInv
  <2> DEFINE d == draft[s]
             new == NewRow(s)
  <2>2. Rows(s) = [i \in DOMAIN entries \cup DOMAIN d |->
                     IF i \in DOMAIN d THEN d[i] ELSE entries[i]]
    BY DEF Rows
  <2>3. Rows(s)' = [i \in DOMAIN entries' \cup DOMAIN draft'[s] |->
                      IF i \in DOMAIN draft'[s] THEN draft'[s][i] ELSE entries'[i]]
    BY DEF Rows
  <2>4. DOMAIN entries \cup DOMAIN d = 1..n
    BY <2>2
  <2>5. DOMAIN draft'[s] = DOMAIN d \cup {n + 1}
    BY <2>1
  <2>6. DOMAIN entries' \cup DOMAIN draft'[s] = 1..(n + 1)
    BY <2>1, <2>4, <2>5
  <2>7. ASSUME NEW i \in 1..(n + 1)
        PROVE  (IF i \in DOMAIN draft'[s] THEN draft'[s][i] ELSE entries'[i])
                 = IF i = n + 1 THEN new ELSE Rows(s)[i]
    <3>1. CASE i = n + 1
      BY <3>1, <2>1, <2>5
    <3>2. CASE i # n + 1
      <4>1. i \in 1..n
        BY <3>2
      <4>2. Rows(s)[i] = IF i \in DOMAIN d THEN d[i] ELSE entries[i]
        BY <4>1, <2>2, <2>4
      <4> QED BY <3>2, <4>2, <2>1, <2>5
    <3> QED BY <3>1, <3>2
  <2> QED BY <2>3, <2>6, <2>7
<1> QED BY <1>4, <1>5, <1>6
(* A chain followed by one more linked row is a chain.                      *)
LEMMA ExtendChain ==
  ASSUME NEW rows, Chain(rows), NEW n \in Nat, DOMAIN rows = 1..n,
         NEW new, IsRow(new),
         new.entry_hash = compute_entry_hash(Previous(rows, n + 1), n + 1,
                                             new.canonical_payload_hash)
  PROVE  Chain([i \in 1..(n + 1) |-> IF i = n + 1 THEN new ELSE rows[i]])
<1> DEFINE more == [i \in 1..(n + 1) |-> IF i = n + 1 THEN new ELSE rows[i]]
<1>1. DOMAIN more = 1..(n + 1) /\ n + 1 \in Nat
  OBVIOUS
<1>2. more = [i \in DOMAIN more |-> more[i]]
  OBVIOUS
<1>3. more[n + 1] = new /\ \A i \in 1..n : more[i] = rows[i]
  OBVIOUS
<1> HIDE DEF more
<1>4. ASSUME NEW i \in 1..(n + 1)
      PROVE  /\ IsRow(more[i])
             /\ more[i].entry_hash = compute_entry_hash(Previous(more, i), i,
                                                        more[i].canonical_payload_hash)
  <2>1. Previous(more, i) = Previous(rows, i)
    <3>1. CASE i = 1
      BY <3>1 DEF Previous
    <3>2. CASE i # 1
      <4>1. i - 1 \in 1..n
        BY <3>2
      <4> QED BY <3>2, <4>1, <1>3 DEF Previous
    <3> QED BY <3>1, <3>2
  <2>2. CASE i = n + 1
    BY <2>1, <2>2, <1>3
  <2>3. CASE i # n + 1
    <3>1. i \in 1..n
      BY <2>3
    <3> QED BY <3>1, <2>1, <1>3 DEF Chain
  <2> QED BY <2>2, <2>3
<1> QED BY <1>1, <1>2, <1>4 DEF Chain, more

(* Inserting a row.                                                         *)
LEMMA InsertKeepsInv ==
  ASSUME ChainInv, NEW s \in Sessions, insert_entry(s)
  PROVE  ChainInv'
<1> USE ConstantsAssumption
<1>1. PICK n \in Nat : DOMAIN Rows(s) = 1..n
  BY DEF ChainInv, SessionInv, Chain
<1>2. /\ number[s] = n + 1
      /\ latest[s] = Previous(Rows(s), n + 1)
      /\ Rows(s)' = [i \in 1..(n + 1) |-> IF i = n + 1 THEN NewRow(s) ELSE Rows(s)[i]]
  BY <1>1, InsertExtends
<1>3. /\ entries' = entries /\ lock' = lock /\ who' = who
      /\ draft' = [draft EXCEPT ![s] = draft'[s]]
      /\ draft'[s] = [i \in DOMAIN draft[s] \cup {n + 1} |->
                        IF i = n + 1 THEN NewRow(s) ELSE draft[s][i]]
      /\ tenant_isolation(who[s], NewRow(s))
      /\ n + 1 \notin DOMAIN entries
      /\ pc[s] = "insert" /\ lock = s
  <2> DEFINE d == [i \in DOMAIN draft[s] \cup {n + 1} |->
                     IF i = n + 1 THEN NewRow(s) ELSE draft[s][i]]
  <2>1. draft' = [draft EXCEPT ![s] = d]
    BY <1>2 DEF insert_entry
  <2>2. draft'[s] = d
    <3> HIDE DEF d
    <3> QED BY <2>1 DEF ChainInv
  <2>3. draft' = [draft EXCEPT ![s] = draft'[s]]
    <3> HIDE DEF d
    <3> QED BY <2>1, <2>2
  <2>4. pc[s] = "insert" /\ lock = s
    BY DEF insert_entry, ChainInv, TypeOK
  <2>5. /\ entries' = entries /\ lock' = lock /\ who' = who
        /\ tenant_isolation(who[s], NewRow(s))
        /\ n + 1 \notin DOMAIN entries
    BY <1>2 DEF insert_entry, Rows
  <2> QED BY <2>2, <2>3, <2>4, <2>5
<1>4. IsRow(NewRow(s)) /\ NewRow(s).entry_hash =
        compute_entry_hash(latest[s], number[s], NewRow(s).canonical_payload_hash)
  BY DEF NewRow, IsRow, Row
<1>5. Chain(Rows(s))'
  <2>1. Chain(Rows(s))
    BY DEF ChainInv, SessionInv
  <2>2. NewRow(s).entry_hash = compute_entry_hash(Previous(Rows(s), n + 1), n + 1,
                                                  NewRow(s).canonical_payload_hash)
    BY <1>2, <1>4
  <2>3. Chain([i \in 1..(n + 1) |-> IF i = n + 1 THEN NewRow(s) ELSE Rows(s)[i]])
    <3> HIDE DEF NewRow
    <3> QED BY <2>1, <2>2, <1>1, <1>4, ExtendChain
  <2> DEFINE more == [i \in 1..(n + 1) |-> IF i = n + 1 THEN NewRow(s) ELSE Rows(s)[i]]
  <2>4. Chain(more) /\ Rows(s)' = more
    BY <2>3, <1>2
  <2> HIDE DEF more
  <2> QED BY <2>4 DEF Chain, IsRow, Previous
<1>6. CASE call[s].kind = "boundary"
  <2>1. /\ latest' = [latest EXCEPT ![s] = NewRow(s).entry_hash]
        /\ number' = [number EXCEPT ![s] = 0]
        /\ call' = [call EXCEPT ![s].kind = "entry"]
        /\ pc' = [pc EXCEPT ![s] = "number"]
    BY <1>6 DEF insert_entry, Goto
  <2>2. TypeOK'
    <3>1. call' \in [Sessions -> [payload: Payloads \cup {NULL},
                                  event: EventIds \cup {NULL},
                                  tenant: Tenants \cup {NULL},
                                  kind: {"entry", "boundary", NULL}]]
      BY <2>1, KindType DEF ChainInv, TypeOK
    <3> QED BY <2>1, <3>1, <1>3 DEF ChainInv, TypeOK
  <2>3. LatestHash(s)' = NewRow(s).entry_hash
    <3>1. Visible(s)' \subseteq 1..(n + 1) /\ n + 1 \in Visible(s)'
      BY <1>2, <1>3, SMTT(20) DEF Visible
    <3>2. MaxOf(Visible(s)') \in Visible(s)' /\ \A y \in Visible(s)' : y <= MaxOf(Visible(s)')
      BY <3>1, MaxOfProp
    <3>3. MaxOf(Visible(s)') = n + 1
      <4>1. MaxOf(Visible(s)') \in 1..(n + 1) /\ n + 1 <= MaxOf(Visible(s)')
        BY <3>1, <3>2
      <4> QED BY <4>1
    <3>4. Rows(s)'[n + 1] = NewRow(s)
      BY <1>2
    <3> QED BY <3>1, <3>3, <3>4 DEF LatestHash, get_latest_entry
  <2>4. latest'[s] = LatestHash(s)' /\ pc'[s] = "number"
    BY <2>1, <2>3 DEF ChainInv, TypeOK
  <2>5. SessionInv(s)'
    BY <2>4, <1>3, <1>5 DEF SessionInv, ChainInv, tenant_isolation
  <2>6. \A r \in Sessions \ {s} :
          /\ pc'[r] = pc[r] /\ who'[r] = who[r] /\ draft'[r] = draft[r]
          /\ latest'[r] = latest[r] /\ number'[r] = number[r]
    BY <2>1, <1>3 DEF ChainInv, TypeOK
  <2>7. \A r \in Sessions \ {s} : SessionInv(r)'
    BY <2>6, <1>3, SessionKept DEF ChainInv
  <2>8. Chain(entries)'
    BY <1>3 DEF ChainInv, Chain, IsRow, Previous
  <2> QED BY <2>1, <2>2, <2>5, <2>7, <2>8, <1>3 DEF ChainInv
<1>7. CASE call[s].kind # "boundary"
  <2>1. /\ latest' = [latest EXCEPT ![s] = GENESIS_HASH]
        /\ number' = [number EXCEPT ![s] = 0]
        /\ call' = [call EXCEPT ![s] = NoCall]
        /\ pc' = [pc EXCEPT ![s] = "open"]
    BY <1>7 DEF insert_entry, Goto
  <2>2. TypeOK'
    <3>1. call' \in [Sessions -> [payload: Payloads \cup {NULL},
                                  event: EventIds \cup {NULL},
                                  tenant: Tenants \cup {NULL},
                                  kind: {"entry", "boundary", NULL}]]
      BY <2>1 DEF ChainInv, TypeOK, NoCall
    <3> QED BY <2>1, <3>1, <1>3 DEF ChainInv, TypeOK
  <2>3. pc'[s] = "open"
    BY <2>1 DEF ChainInv, TypeOK
  <2>5. SessionInv(s)'
    BY <2>3, <1>3, <1>5 DEF SessionInv, ChainInv, tenant_isolation
  <2>6. \A r \in Sessions \ {s} :
          /\ pc'[r] = pc[r] /\ who'[r] = who[r] /\ draft'[r] = draft[r]
          /\ latest'[r] = latest[r] /\ number'[r] = number[r]
    BY <2>1, <1>3 DEF ChainInv, TypeOK
  <2>7. \A r \in Sessions \ {s} : SessionInv(r)'
    BY <2>6, <1>3, SessionKept DEF ChainInv
  <2>8. Chain(entries)'
    BY <1>3 DEF ChainInv, Chain, IsRow, Previous
  <2> QED BY <2>1, <2>2, <2>5, <2>7, <2>8, <1>3 DEF ChainInv
<1> QED BY <1>6, <1>7
(* Erasing an event reference leaves numbers, tenants and hashes alone.     *)
LEMMA EraseKeepsInv ==
  ASSUME ChainInv, NEW w \in Tenants \cup {STAFF}, NEW e \in EventIds,
         null_audit_event_reference(w, e)
  PROVE  ChainInv'
<1>1. /\ draft' = draft /\ lock' = lock /\ pc' = pc /\ who' = who /\ call' = call
      /\ latest' = latest /\ number' = number
  BY DEF null_audit_event_reference
<1>2. DOMAIN entries' = DOMAIN entries /\ entries' = [i \in DOMAIN entries' |-> entries'[i]]
  BY DEF null_audit_event_reference
<1>3. ASSUME NEW i \in DOMAIN entries
      PROVE  /\ IsRow(entries'[i])
             /\ entries'[i].entry_hash = entries[i].entry_hash
             /\ entries'[i].canonical_payload_hash = entries[i].canonical_payload_hash
             /\ entries'[i].tenant_id = entries[i].tenant_id
             /\ entries'[i].stamped = entries[i].stamped
             /\ entries'[i].boundary = entries[i].boundary
  <2>1. IsRow(entries[i])
    BY DEF ChainInv, Chain
  <2>2. \/ entries'[i] = entries[i]
        \/ entries'[i] = [entries[i] EXCEPT !.audit_event_id = NULL]
    BY DEF null_audit_event_reference
  <2> QED BY <2>1, <2>2 DEF IsRow
<1>4. PICK m \in Nat : DOMAIN entries = 1..m
  BY DEF ChainInv, Chain
<1>5. Chain(entries)'
  <2>1. ASSUME NEW i \in DOMAIN entries
        PROVE  entries'[i].entry_hash = compute_entry_hash(Previous(entries', i), i,
                                                      entries'[i].canonical_payload_hash)
    <3>1. Previous(entries', i) = Previous(entries, i)
      <4>1. CASE i = 1
        BY <4>1 DEF Previous
      <4>2. CASE i # 1
        <5>1. i - 1 \in DOMAIN entries
          BY <4>2, <1>4
        <5> QED BY <4>2, <5>1, <1>3 DEF Previous
      <4> QED BY <4>1, <4>2
    <3> QED BY <3>1, <1>3 DEF ChainInv, Chain
  <2> QED BY <2>1, <1>2, <1>3, <1>4 DEF Chain
<1>6. ASSUME NEW s \in Sessions PROVE SessionInv(s)'
  <2>1. SessionInv(s)
    BY DEF ChainInv
  <2>2. DOMAIN Rows(s)' = DOMAIN Rows(s) /\ Rows(s)' = [i \in DOMAIN Rows(s)' |-> Rows(s)'[i]]
    BY <1>1, <1>2 DEF Rows
  <2>3. ASSUME NEW i \in DOMAIN Rows(s)
        PROVE  /\ IsRow(Rows(s)'[i])
               /\ Rows(s)'[i].entry_hash = Rows(s)[i].entry_hash
               /\ Rows(s)'[i].canonical_payload_hash = Rows(s)[i].canonical_payload_hash
               /\ Rows(s)'[i].tenant_id = Rows(s)[i].tenant_id
    <3>1. CASE i \in DOMAIN draft[s]
      <4>1. Rows(s)'[i] = Rows(s)[i]
        BY <3>1, <1>1, <1>2 DEF Rows
      <4> QED BY <4>1, <2>1 DEF SessionInv, Chain
    <3>2. CASE i \notin DOMAIN draft[s]
      <4>1. i \in DOMAIN entries /\ Rows(s)'[i] = entries'[i] /\ Rows(s)[i] = entries[i]
        BY <3>2, <1>1, <1>2 DEF Rows
      <4> QED BY <4>1, <1>3
    <3> QED BY <3>1, <3>2
  <2>4. PICK n \in Nat : DOMAIN Rows(s) = 1..n
    BY <2>1 DEF SessionInv, Chain
  <2>5. Chain(Rows(s))'
    <3>1. ASSUME NEW i \in DOMAIN Rows(s)
          PROVE  Rows(s)'[i].entry_hash = compute_entry_hash(Previous(Rows(s)', i), i,
                                             Rows(s)'[i].canonical_payload_hash)
      <4>1. Previous(Rows(s)', i) = Previous(Rows(s), i)
        <5>1. CASE i = 1
          BY <5>1 DEF Previous
        <5>2. CASE i # 1
          <6>1. i - 1 \in DOMAIN Rows(s)
            BY <5>2, <2>4
          <6> QED BY <5>2, <6>1, <2>3 DEF Previous
        <5> QED BY <5>1, <5>2
      <4> QED BY <4>1, <2>1, <2>3 DEF SessionInv, Chain
    <3> QED BY <3>1, <2>2, <2>3, <2>4 DEF Chain
  <2>6. Visible(s)' = Visible(s)
    BY <2>2, <2>3, <1>1 DEF Visible, tenant_isolation
  <2>7. LatestHash(s)' = LatestHash(s)
    <3>1. CASE Visible(s) = {}
      BY <3>1, <2>6 DEF LatestHash
    <3>2. CASE Visible(s) # {}
      <4>1. Visible(s) \subseteq 1..n /\ Visible(s) \subseteq DOMAIN Rows(s)
        BY <2>4 DEF Visible
      <4>2. MaxOf(Visible(s)) \in DOMAIN Rows(s)
        BY <4>1, <3>2, MaxOfProp
      <4> QED BY <3>2, <4>2, <2>3, <2>6 DEF LatestHash, get_latest_entry
    <3> QED BY <3>1, <3>2
  <2>8. next_sequence_number(s)' = next_sequence_number(s)
    BY <2>6 DEF next_sequence_number
  <2> QED BY <2>1, <2>5, <2>7, <2>8, <1>1, <1>2 DEF SessionInv, tenant_isolation
<1> QED BY <1>1, <1>5, <1>6 DEF ChainInv, TypeOK
(* Every step keeps the invariant.                                          *)
LEMMA NextChainInv == ChainInv /\ [Next]_vars => ChainInv'
<1> SUFFICES ASSUME ChainInv, [Next]_vars PROVE ChainInv'
  OBVIOUS
<1>1. CASE UNCHANGED vars
  <2>1. /\ entries' = entries /\ draft' = draft /\ lock' = lock /\ pc' = pc /\ who' = who
        /\ call' = call /\ latest' = latest /\ number' = number
    BY <1>1 DEF vars
  <2>2. Chain(entries)'
    BY <2>1 DEF ChainInv, Chain, IsRow, Previous
  <2>3. \A r \in Sessions : SessionInv(r)'
    BY <2>1, SessionKept DEF ChainInv
  <2> QED BY <2>1, <2>2, <2>3 DEF ChainInv, TypeOK
<1>2. ASSUME NEW s \in Sessions,
             \/ \E w \in Tenants \cup {STAFF} : Begin(s, w)
             \/ \E r \in Requests : Append(s, r)
             \/ acquire_append_lock(s)
             \/ GetLatest(s)
             \/ _should_append_tenant_boundary(s)
             \/ NextSequenceNumber(s)
      PROVE  ChainInv'
  BY <1>2, ReadKeepsInv
<1>3. ASSUME NEW s \in Sessions, insert_entry(s) PROVE ChainInv'
  BY <1>3, InsertKeepsInv
<1>4. ASSUME NEW s \in Sessions, InsertRefused(s) \/ Rollback(s) PROVE ChainInv'
  BY <1>4, AbortKeepsInv DEF InsertRefused, Rollback
<1>5. ASSUME NEW s \in Sessions, Commit(s) PROVE ChainInv'
  BY <1>5, CommitKeepsInv
<1>6. ASSUME NEW w \in Tenants \cup {STAFF}, NEW e \in EventIds,
             null_audit_event_reference(w, e)
      PROVE  ChainInv'
  BY <1>6, EraseKeepsInv
<1> QED BY <1>1, <1>2, <1>3, <1>4, <1>5, <1>6 DEF Next

(* The invariant holds throughout.                                          *)
THEOREM ChainInvariant == Spec => []ChainInv
  BY InitChainInv, NextChainInv, PTL DEF Spec

---------------------------------------------------------------------------
(* The properties.                                                          *)

(* Types, and that only the lock's holder is inside append.                 *)
THEOREM ChainTypes == Spec => []TypeOK
<1>1. ChainInv => TypeOK
  BY DEF ChainInv
<1> QED BY <1>1, ChainInvariant, PTL

(* Along a chain, the previous entry of a range is the one before it.       *)
LEMMA VerifyChain == ChainInv => VerifyAcceptsChain
<1> SUFFICES ASSUME Chain(entries), NEW start \in DOMAIN entries, NEW end \in DOMAIN entries,
                    start <= end
             PROVE  verify(STAFF, start, end) = {}
  BY DEF ChainInv, VerifyAcceptsChain
<1>1. PICK n \in Nat : DOMAIN entries = 1..n
  BY DEF Chain
<1> DEFINE Seen == {i \in DOMAIN entries : tenant_isolation(STAFF, entries[i])}
           Range == {i \in Seen : start <= i /\ i <= end}
           Before(i) == {j \in Range : j < i}
           previous(i) ==
             IF Before(i) # {} THEN entries[MaxOf(Before(i))].entry_hash
             ELSE IF start > 1 /\ start - 1 \in Seen THEN entries[start - 1].entry_hash
             ELSE GENESIS_HASH
<1>2. Seen = 1..n
  BY <1>1 DEF tenant_isolation
<1>3. Range = start..end
  BY <1>1, <1>2
<1>4. ASSUME NEW i \in Range PROVE previous(i) = Previous(entries, i)
  <2>1. i \in 1..n /\ start \in 1..n /\ start <= i /\ i <= end /\ end \in 1..n
    BY <1>1, <1>3
  <2>2. Before(i) = start..(i - 1)
    BY <1>3, <2>1
  <2>3. CASE i = start
    <3>1. Before(i) = {}
      BY <2>1, <2>2, <2>3
    <3>2. start > 1 => start - 1 \in Seen
      BY <1>2, <2>1
    <3> QED BY <3>1, <3>2, <2>1, <2>3 DEF Previous
  <2>4. CASE i # start
    <3>1. i - 1 \in Before(i) /\ i # 1 /\ Before(i) # {} /\ Before(i) \subseteq 1..n
      BY <2>1, <2>2, <2>4
    <3>2. MaxOf(Before(i)) \in Before(i) /\ \A y \in Before(i) : y <= MaxOf(Before(i))
      <4> HIDE DEF Before
      <4> QED BY <3>1, MaxOfProp
    <3>3. MaxOf(Before(i)) \in start..(i - 1) /\ i - 1 <= MaxOf(Before(i))
      <4> HIDE DEF Before
      <4> QED BY <3>1, <3>2, <2>2
    <3>4. MaxOf(Before(i)) = i - 1
      <4> HIDE DEF Before
      <4> QED BY <3>3, <2>1
    <3> QED BY <3>1, <3>4 DEF Previous
  <2> QED BY <2>3, <2>4
<1>5. ASSUME NEW i \in Range
      PROVE  entries[i].entry_hash =
               compute_entry_hash(previous(i), i, entries[i].canonical_payload_hash)
  <2>1. i \in DOMAIN entries
    OBVIOUS
  <2> HIDE DEF Range, previous
  <2> QED BY <1>4, <2>1 DEF Chain
<1>6. verify(STAFF, start, end) =
        {i \in Range : entries[i].entry_hash #
           compute_entry_hash(previous(i), i, entries[i].canonical_payload_hash)}
  BY DEF verify
<1> HIDE DEF Range, previous
<1> QED BY <1>5, <1>6

(* Whatever the interleaving, verify accepts the chain.                     *)
THEOREM VerifyAccepts == Spec => []VerifyAcceptsChain
  BY ChainInvariant, VerifyChain, PTL

(* The staff role sees every row, so the number it computes is past them.   *)
LEMMA StaffNumber == ChainInv => StaffNumberIsFree
<1> SUFFICES ASSUME ChainInv, NEW s \in Sessions, pc[s] = "insert", who[s] = STAFF
             PROVE  /\ number[s] \notin DOMAIN entries
                    /\ \A r \in Sessions \ {s} : number[s] \notin DOMAIN draft[r]
  BY DEF StaffNumberIsFree
<1>1. SessionInv(s) /\ number[s] = next_sequence_number(s) /\ lock = s
  BY DEF ChainInv, TypeOK, SessionInv
<1>2. \A i \in Visible(s) : i < number[s]
  BY <1>1, NextNumberProp
<1>3. DOMAIN entries \subseteq Visible(s)
  BY DEF Visible, Rows, tenant_isolation
<1>4. PICK n \in Nat : DOMAIN entries = 1..n
  BY DEF ChainInv, Chain
<1>5. number[s] \in Nat
  BY DEF ChainInv, TypeOK
<1>6. number[s] \notin DOMAIN entries
  <2>1. ~ (number[s] < number[s])
    BY <1>5
  <2> QED
    BY <1>2, <1>3, <2>1
<1>7. \A r \in Sessions \ {s} : DOMAIN draft[r] = {}
  BY <1>1 DEF ChainInv, TypeOK
<1> QED BY <1>6, <1>7

(* No audit record of the platform staff is lost to the unique constraint.  *)
THEOREM StaffAppendsSucceed == Spec => []StaffNumberIsFree
  BY ChainInvariant, StaffNumber, PTL
---------------------------------------------------------------------------
(* The refinement.                                                          *)

(* A chain, seen as a log, is numbered without gaps.                        *)
LEMMA ChainIsLog == Chain(entries) => Log!IsLog(LogView)
<1> SUFFICES ASSUME Chain(entries) PROVE Log!IsLog(LogView)
  OBVIOUS
<1>1. PICK n \in Nat : DOMAIN entries = 1..n
  BY DEF Chain
<1>2. DOMAIN LogView = 1..n
  BY <1>1 DEF LogView
<1> HIDE DEF LogView
<1> QED BY <1>2 DEF Log!IsLog

(* The same after a step.                                                   *)
LEMMA ChainIsLogPrime == Chain(entries)' => Log!IsLog(LogView)'
<1> SUFFICES ASSUME Chain(entries)' PROVE Log!IsLog(LogView)'
  OBVIOUS
<1>1. PICK n \in Nat : DOMAIN entries' = 1..n
  BY DEF Chain
<1>2. DOMAIN LogView' = 1..n
  BY <1>1 DEF LogView
<1> HIDE DEF LogView
<1> QED BY <1>2 DEF Log!IsLog

(* Every step of the chain is a step of the log, or none.                   *)
LEMMA StepImplementsLog == ChainInv /\ [Next]_vars => [Log!Next]_LogView
<1> SUFFICES ASSUME ChainInv, [Next]_vars PROVE [Log!Next]_LogView
  OBVIOUS
<1>1. ASSUME entries' = entries PROVE [Log!Next]_LogView
  BY <1>1 DEF LogView
<1>2. ASSUME NEW s \in Sessions, Commit(s) PROVE [Log!Next]_LogView
  <2>1. Chain(entries)'
    BY <1>2, CommitKeepsInv DEF ChainInv
  <2>2. DOMAIN entries \subseteq DOMAIN entries' /\ \A i \in DOMAIN entries : entries'[i] = entries[i]
    <3>1. entries' = Rows(s) /\ DOMAIN draft[s] \cap DOMAIN entries = {}
      BY <1>2 DEF Commit, ChainInv, SessionInv
    <3> QED BY <3>1 DEF Rows
  <2>3. DOMAIN LogView \subseteq DOMAIN LogView' /\ \A i \in DOMAIN LogView : LogView'[i] = LogView[i]
    BY <2>2 DEF LogView
  <2>4. Log!AppendBatch
    BY <2>1, <2>3, ChainIsLogPrime DEF Log!AppendBatch
  <2> QED BY <2>4 DEF Log!Next
<1>3. ASSUME NEW w \in Tenants \cup {STAFF}, NEW e \in EventIds,
             null_audit_event_reference(w, e)
      PROVE  [Log!Next]_LogView
  <2> DEFINE seen == {i \in DOMAIN entries : tenant_isolation(w, entries[i])}
             erased == [i \in DOMAIN LogView |->
                          IF i \in seen /\ LogView[i].event = e
                          THEN [LogView[i] EXCEPT !.event = NULL] ELSE LogView[i]]
  <2>1. DOMAIN LogView = DOMAIN entries /\ DOMAIN LogView' = DOMAIN entries
    BY <1>3 DEF LogView, null_audit_event_reference
  <2>2. ASSUME NEW i \in DOMAIN entries PROVE LogView'[i] = erased[i]
    <3>1. IsRow(entries[i])
      BY DEF ChainInv, Chain
    <3>2. LogView[i] = [content |-> entries[i].canonical_payload_hash,
                        event |-> entries[i].audit_event_id]
      BY DEF LogView
    <3>3. LogView'[i] = [content |-> entries'[i].canonical_payload_hash,
                         event |-> entries'[i].audit_event_id]
      BY <2>1, <1>3 DEF LogView, null_audit_event_reference
    <3>4. CASE i \in seen /\ entries[i].audit_event_id = e
      <4>1. entries'[i] = [entries[i] EXCEPT !.audit_event_id = NULL]
        BY <3>4, <1>3 DEF null_audit_event_reference
      <4>2. /\ entries'[i].canonical_payload_hash = entries[i].canonical_payload_hash
            /\ entries'[i].audit_event_id = NULL
        BY <4>1, <3>1 DEF IsRow
      <4>3. LogView'[i] = [content |-> entries[i].canonical_payload_hash, event |-> NULL]
        BY <4>2, <3>3
      <4>4. erased[i] = [LogView[i] EXCEPT !.event = NULL]
        BY <3>2, <3>4, <2>1
      <4>5. erased[i] = [content |-> entries[i].canonical_payload_hash, event |-> NULL]
        BY <4>4, <3>2
      <4> QED BY <4>3, <4>5
    <3>5. CASE ~ (i \in seen /\ entries[i].audit_event_id = e)
      <4>1. entries'[i] = entries[i]
        BY <3>5, <1>3 DEF null_audit_event_reference
      <4> QED BY <4>1, <3>2, <3>3, <3>5, <2>1
    <3> QED BY <3>4, <3>5
  <2>3. LogView' = [i \in DOMAIN LogView' |-> LogView'[i]]
    BY DEF LogView
  <2>4. LogView' = erased
    <3>1. DOMAIN erased = DOMAIN entries /\ erased = [i \in DOMAIN erased |-> erased[i]]
      BY <2>1
    <3> HIDE DEF erased
    <3> QED BY <2>1, <2>2, <2>3, <3>1
  <2>5. seen \in SUBSET DOMAIN LogView
    BY <2>1
  <2>6. Log!EraseReference(e)
    <3> HIDE DEF seen
    <3> QED BY <2>4, <2>5 DEF Log!EraseReference
  <2> QED BY <2>6 DEF Log!Next
<1>4. CASE UNCHANGED vars
  BY <1>1, <1>4 DEF vars
<1>5. ASSUME NEW s \in Sessions,
             \/ \E w \in Tenants \cup {STAFF} : Begin(s, w)
             \/ \E r \in Requests : Append(s, r)
             \/ acquire_append_lock(s) \/ GetLatest(s) \/ _should_append_tenant_boundary(s)
             \/ NextSequenceNumber(s) \/ insert_entry(s) \/ InsertRefused(s) \/ Rollback(s)
      PROVE  entries' = entries
  BY <1>5 DEF Begin, Append, acquire_append_lock, GetLatest, _should_append_tenant_boundary,
              NextSequenceNumber, insert_entry, InsertRefused, Rollback
<1> QED BY <1>1, <1>2, <1>3, <1>4, <1>5 DEF Next

(* The chain implements the log: callers may reason with AuditLog alone.    *)
THEOREM ChainImplementsLog == Spec => ImplementsLog
<1>1. Init => Log!Init
  BY LegacyIsChain, ChainIsLog DEF Init, Log!Init
<1> QED BY <1>1, ChainInvariant, StepImplementsLog, PTL DEF Spec, ImplementsLog, Log!Spec
=============================================================================
