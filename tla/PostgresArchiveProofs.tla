------------------------ MODULE PostgresArchiveProofs ------------------------
(***************************************************************************)
(* What the conversation archive promises for any set of payloads, keys,   *)
(* cutoffs and limits, however many: its tables are well typed, what they  *)
(* hold was audited, references point to stored events, the first payload  *)
(* of an event is final and retention spares what is in conflict.  And for *)
(* any number of connections, calls and failures: the committed tables of  *)
(* the PostgreSQL adapter change as if whole calls were made one after the *)
(* other (LooseArchive), and no answer claims an effect that is not there. *)
(* A paged read that has come to its end has every event that was visible  *)
(* the whole time.                                                         *)
(*                                                                         *)
(* The argument about the tables.  Four of the five actions touch the rows *)
(* of one event or one key; Expire is the only one that touches a batch,   *)
(* and it leaves every table but expired, requests and audit alone.        *)
(* References are stored because Store checks them and no row of events    *)
(* ever goes or changes (RowsAreFinal), which is also what makes           *)
(* FirstPayloadWins true.                                                  *)
(*                                                                         *)
(* The argument about the adapter.  What a transaction has read of the     *)
(* event and the key it is about stays true until it commits: whoever could*)
(* change it needs one of the advisory locks it holds, or the row of a     *)
(* request that it has inserted without a COMMIT.  So the COMMIT finds the *)
(* tables as the statements of its transaction left them (Stage), and has  *)
(* the effect of the whole call at that moment.                            *)
(***************************************************************************)
EXTENDS PostgresArchive, ConversationListing, FiniteSetTheorems, SequenceTheorems, TLAPS

(***************************************************************************)
(* The archive                                                             *)
(***************************************************************************)

\* What an action that writes a payload is called with.
LEMMA WriteInputs ==
  ASSUME NEW p \in Payloads, NEW k \in KeysFor[p.id]
  PROVE  /\ p.id \in Ids /\ k \in Keys
         /\ p.refs \subseteq Ids
         /\ Operation(p) \in {"append", "tombstone"}
<1>1. p.id \in Ids
  BY DEF Ids
<1>2. k \in Keys
  BY <1>1, ArchiveAssumption DEF ArchiveAssumption
<1>3. p.refs \subseteq Ids
  BY ArchiveAssumption DEF ArchiveAssumption
<1>4. Operation(p) \in {"append", "tombstone"}
  BY DEF Operation
<1> QED
  BY <1>1, <1>2, <1>3, <1>4

\* What is eligible for retention is stored.
LEMMA EligibleIsStored ==
  ASSUME NEW cutoff
  PROVE  /\ Eligible(cutoff) \subseteq {i \in Ids : events[i] # None}
         /\ \A i \in Eligible(cutoff) :
              events[i].kind # "conflict" /\ \A p \in conflicts : p.id # i
BY DEF Eligible

\* What the answers of a write say of the tables.
LEMMA StoredIsNew ==
  ASSUME NEW p, NEW k, Outcome(p, k) = "stored"
  PROVE  events[p.id] = None /\ requests[k] = None /\ ReferencesAreLocal(p)
BY DEF Outcome

\* A conflict is reported of an event that is stored.
LEMMA ConflictIsTaken ==
  ASSUME NEW p, NEW k, Outcome(p, k) = "conflict_visible"
  PROVE  events[p.id] # None
BY DEF Outcome

\* No step but Store writes a row of events, and Store writes a new one.
LEMMA RowsAreFinal ==
  ASSUME ArchiveTypeOK, ArchiveNext
  PROVE  \A i \in Ids : events[i] # None => events'[i] = events[i]
<1>1. ASSUME NEW p \in Payloads, NEW k \in KeysFor[p.id], Store(p, k)
      PROVE  \A i \in Ids : events[i] # None => events'[i] = events[i]
  <2>1. events[p.id] = None
    BY <1>1, StoredIsNew DEF Store
  <2>2. events' = [events EXCEPT ![p.id] = p]
    BY <1>1 DEF Store
  <2> QED
    BY <2>1, <2>2 DEF ArchiveTypeOK
<1>2. ASSUME events' = events
      PROVE  \A i \in Ids : events[i] # None => events'[i] = events[i]
  BY <1>2
<1> QED
  BY <1>1, <1>2 DEF ArchiveNext, RecordConflict, Replay, Expire, ReplayRetention

(***************************************************************************)
(* Type correctness                                                        *)
(***************************************************************************)

\* A row written for an operation is a row of requests.
LEMMA RowsTyped ==
  /\ \A p \in Payloads, o \in {"stored", "conflict_visible"} : WriteRow(p, o) \in Rows
  /\ \A c \in Cutoffs, l \in Limits : RetentionRow(c, l) \in Rows
BY DEF Rows

\* Every call writes rows of the types of the tables.
LEMMA TypePreserved ==
  ASSUME ArchiveTypeOK, [ArchiveNext]_tables
  PROVE  ArchiveTypeOK'
<1> USE DEF ArchiveTypeOK
<1>1. ASSUME NEW p \in Payloads, NEW k \in KeysFor[p.id], Store(p, k)
      PROVE  ArchiveTypeOK'
  <2>1. p.id \in Ids /\ k \in Keys /\ Operation(p) \in {"append", "tombstone"}
    BY WriteInputs
  <2>2. WriteRow(p, "stored") \in Rows
    BY RowsTyped
  <2>3. /\ events' = [events EXCEPT ![p.id] = p]
        /\ requests' = [requests EXCEPT ![k] = WriteRow(p, "stored")]
        /\ audit' = audit \cup {<<Operation(p), p.id>>}
        /\ conflicts' = conflicts /\ expired' = expired
    BY <1>1 DEF Store, Audited
  <2>4. p # None
    BY ArchiveAssumption DEF ArchiveAssumption
  <2>5. events' \in [Ids -> Payloads \cup {None}]
        /\ \A i \in Ids : events'[i] # None => events'[i].id = i
    BY <2>1, <2>3
  <2>6. requests' \in [Keys -> Rows \cup {None}]
    BY <2>1, <2>2, <2>3
  <2>7. expired' \subseteq {i \in Ids : events'[i] # None}
    BY <2>1, <2>3, <2>4
  <2>8. audit' \subseteq {"append", "tombstone", "apply_retention"} \X (Ids \cup {None})
    BY <2>1, <2>3
  <2> QED
    BY <2>3, <2>5, <2>6, <2>7, <2>8
<1>2. ASSUME NEW p \in Payloads, NEW k \in KeysFor[p.id], RecordConflict(p, k)
      PROVE  ArchiveTypeOK'
  <2>1. p.id \in Ids /\ k \in Keys /\ Operation(p) \in {"append", "tombstone"}
    BY WriteInputs
  <2>2. WriteRow(p, "conflict_visible") \in Rows
    BY RowsTyped
  <2>3. /\ requests' = IF requests[k] = None
                       THEN [requests EXCEPT ![k] = WriteRow(p, "conflict_visible")]
                       ELSE requests
        /\ conflicts' = conflicts \cup {p}
        /\ audit' = audit \cup {<<Operation(p), p.id>>}
        /\ events' = events /\ expired' = expired
    BY <1>2 DEF RecordConflict, KeepRequest, Audited
  <2>4. requests' \in [Keys -> Rows \cup {None}]
    BY <2>1, <2>2, <2>3
  <2>5. audit' \subseteq {"append", "tombstone", "apply_retention"} \X (Ids \cup {None})
    BY <2>1, <2>3
  <2> QED
    BY <2>3, <2>4, <2>5
<1>3. ASSUME NEW p \in Payloads, NEW k \in KeysFor[p.id], Replay(p, k)
      PROVE  ArchiveTypeOK'
  <2>1. p.id \in Ids /\ Operation(p) \in {"append", "tombstone"}
    BY WriteInputs
  <2>2. audit' = audit \cup {<<Operation(p), p.id>>}
        /\ UNCHANGED <<events, requests, conflicts, expired>>
    BY <1>3 DEF Replay, Audited
  <2> QED
    BY <2>1, <2>2
<1>4. ASSUME NEW k \in Keys, NEW c \in Cutoffs, NEW l \in Limits, Expire(k, c, l)
      PROVE  ArchiveTypeOK'
  <2>1. PICK batch \in SUBSET Eligible(c) : expired' = expired \cup batch
    BY <1>4 DEF Expire, Batches
  <2>2. /\ requests' = [requests EXCEPT ![k] = RetentionRow(c, l)]
        /\ audit' = audit \cup {<<"apply_retention", None>>}
        /\ events' = events /\ conflicts' = conflicts
    BY <1>4 DEF Expire
  <2>3. expired' \subseteq {i \in Ids : events'[i] # None}
    BY <2>1, <2>2, EligibleIsStored
  <2>4. requests' \in [Keys -> Rows \cup {None}]
    BY <2>2, RowsTyped
  <2> QED
    BY <2>2, <2>3, <2>4
<1>5. ASSUME NEW k \in Keys, NEW c \in Cutoffs, NEW l \in Limits,
             ReplayRetention(k, c, l)
      PROVE  ArchiveTypeOK'
  BY <1>5 DEF ReplayRetention
<1>6. CASE UNCHANGED tables
  BY <1>6 DEF tables
<1> QED
  BY <1>1, <1>2, <1>3, <1>4, <1>5, <1>6 DEF ArchiveNext

\* The tables are well typed: rows belong to the id or key they stand under,
\* and only stored events are marked expired.
THEOREM ArchiveTypeCorrect == ArchiveSpec => []ArchiveTypeOK
<1>1. ArchiveInit => ArchiveTypeOK
  BY DEF ArchiveInit, ArchiveTypeOK
<1>2. ArchiveTypeOK /\ [ArchiveNext]_tables => ArchiveTypeOK'
  BY TypePreserved
<1> QED
  BY <1>1, <1>2, PTL DEF ArchiveSpec

(***************************************************************************)
(* What no step may do                                                     *)
(***************************************************************************)

\* The payload first stored for an event id stays: no changed payload, retry or
\* retention replaces or removes it, whatever payloads and keys callers use.
THEOREM FirstPayloadIsFinal == ArchiveSpec => FirstPayloadWins
<1>1. ArchiveTypeOK /\ [ArchiveNext]_tables =>
        [\A i \in Ids : events[i] # None => events'[i] = events[i]]_tables
  BY RowsAreFinal
<1> QED
  BY <1>1, ArchiveTypeCorrect, PTL DEF ArchiveSpec, FirstPayloadWins

(***************************************************************************)
(* References and the audit                                                *)
(***************************************************************************)

\* References are checked when a row is stored; what they point to stays.
LEMMA ReferencesPreserved ==
  ASSUME ArchiveTypeOK, ReferencesStored, [ArchiveNext]_tables
  PROVE  ReferencesStored'
<1>1. CASE UNCHANGED tables
  BY <1>1 DEF tables, ReferencesStored
<1>2. ASSUME ArchiveNext, NEW i \in Ids, events'[i] # None, NEW j \in events'[i].refs
      PROVE  events'[j] # None /\ events'[j].conversation = events'[i].conversation
  <2>1. \A n \in Ids : events[n] # None => events'[n] = events[n]
    BY <1>2, RowsAreFinal
  <2>2. CASE events[i] # None
    <3>1. events'[i] = events[i]
      BY <2>1, <2>2
    <3>2. events[i] \in Payloads
      BY <2>2 DEF ArchiveTypeOK
    <3>3. j \in Ids
      BY <1>2, <3>1, <3>2, ArchiveAssumption DEF ArchiveAssumption
    <3>4. events[j] # None /\ events[j].conversation = events[i].conversation
      BY <1>2, <2>2, <3>1 DEF ReferencesStored
    <3> QED
      BY <2>1, <3>1, <3>3, <3>4
  <2>3. CASE events[i] = None
    <3>0. PICK p \in Payloads : \E k \in KeysFor[p.id] : Store(p, k)
      BY <1>2, <2>3
      DEF ArchiveNext, RecordConflict, Replay, Expire, ReplayRetention
    <3>1. PICK k \in KeysFor[p.id] : Store(p, k)
      BY <3>0
    <3>2. events' = [events EXCEPT ![p.id] = p] /\ ReferencesAreLocal(p)
      BY <3>1, StoredIsNew DEF Store
    <3>3. p.id = i /\ events'[i] = p
      BY <1>2, <2>3, <3>2 DEF ArchiveTypeOK
    <3>4. j \in Ids /\ events[j] # None /\ events[j].conversation = p.conversation
      BY <1>2, <3>1, <3>2, <3>3, WriteInputs DEF ReferencesAreLocal
    <3> QED
      BY <2>1, <3>3, <3>4
  <2> QED
    BY <2>2, <2>3
<1> QED
  BY <1>1, <1>2 DEF ReferencesStored

\* An archived event refers to archived events of its own conversation only,
\* for every order in which events arrive.
THEOREM ReferencesAreStored == ArchiveSpec => []ReferencesStored
<1>1. ArchiveInit => ReferencesStored
  BY DEF ArchiveInit, ReferencesStored
<1>2. ArchiveTypeOK /\ ReferencesStored /\ [ArchiveNext]_tables => ReferencesStored'
  BY ReferencesPreserved
<1> QED
  BY <1>1, <1>2, ArchiveTypeCorrect, PTL DEF ArchiveSpec

\* Every step that adds to a table adds the audit row that speaks of it.
LEMMA AuditPreserved ==
  ASSUME ArchiveTypeOK, EverythingAudited, [ArchiveNext]_tables
  PROVE  EverythingAudited'
<1> USE DEF EverythingAudited
<1>1. ASSUME NEW p \in Payloads, NEW k \in KeysFor[p.id], Store(p, k)
      PROVE  EverythingAudited'
  <2>1. /\ events' = [events EXCEPT ![p.id] = p]
        /\ audit' = audit \cup {<<Operation(p), p.id>>}
        /\ conflicts' = conflicts /\ expired' = expired
    BY <1>1 DEF Store, Audited
  <2>2. \A i \in Ids : events'[i] # None => <<Operation(events'[i]), i>> \in audit'
    BY <2>1 DEF ArchiveTypeOK
  <2> QED
    BY <2>1, <2>2
<1>2. ASSUME NEW p \in Payloads, NEW k \in KeysFor[p.id], RecordConflict(p, k)
      PROVE  EverythingAudited'
  BY <1>2 DEF RecordConflict, Audited
<1>3. ASSUME NEW p \in Payloads, NEW k \in KeysFor[p.id], Replay(p, k)
      PROVE  EverythingAudited'
  BY <1>3 DEF Replay, Audited
<1>4. ASSUME NEW k \in Keys, NEW c \in Cutoffs, NEW l \in Limits, Expire(k, c, l)
      PROVE  EverythingAudited'
  BY <1>4 DEF Expire
<1>5. ASSUME NEW k \in Keys, NEW c \in Cutoffs, NEW l \in Limits,
             ReplayRetention(k, c, l)
      PROVE  EverythingAudited'
  BY <1>5 DEF ReplayRetention
<1>6. CASE UNCHANGED tables
  BY <1>6 DEF tables
<1> QED
  BY <1>1, <1>2, <1>3, <1>4, <1>5, <1>6 DEF ArchiveNext

\* No event, conflict or expiry is in the archive without its audit row.
THEOREM ArchiveIsAudited == ArchiveSpec => []EverythingAudited
<1>1. ArchiveInit => EverythingAudited
  BY DEF ArchiveInit, EverythingAudited
<1>2. ArchiveTypeOK /\ EverythingAudited /\ [ArchiveNext]_tables => EverythingAudited'
  BY AuditPreserved
<1> QED
  BY <1>1, <1>2, ArchiveTypeCorrect, PTL DEF ArchiveSpec

(***************************************************************************)
(* The adapter                                                             *)
(***************************************************************************)

(***************************************************************************)
(* Types                                                                   *)
(***************************************************************************)

PgSteps == InTransaction \cup {"idle", "recover", "answer"}
PgOutcomes == {"none", "stored", "duplicate", "conflict_visible", "request_invalid",
               "audit_unavailable", "transaction_rolled_back", "retention_expired"}
PgLocks == ({"event"} \X Ids) \cup ({"idempotency", "retention"} \X Keys)

PgCalls ==
  [payload : Payloads \cup {None}, key : Keys \cup {None}, cutoff : Cutoffs \cup {None},
   limit : Limits \cup {None}, outcome : PgOutcomes, landed : BOOLEAN]
PgTransactions ==
  [open : BOOLEAN, locks : SUBSET PgLocks, inserts : Payloads \cup {None},
   evidence : Payloads \cup {None}, claim : Keys \cup {None}, snapshot : SUBSET Ids,
   batch : SUBSET Ids, audited : BOOLEAN]
PgAnswers ==
  [payload : Payloads \cup {None}, key : Keys \cup {None}, outcome : PgOutcomes, landed : BOOLEAN]

SessionsTyped ==
  /\ pc \in [Sessions -> PgSteps]
  /\ call \in [Sessions -> PgCalls]
  /\ tx \in [Sessions -> PgTransactions]

PostgresTypeOK ==
  /\ ArchiveTypeOK /\ SessionsTyped /\ answers \subseteq PgAnswers
  /\ calls \in 0..MaxCalls /\ faults \in 0..MaxFaults

(***************************************************************************)
(* What a session knows, step by step                                      *)
(***************************************************************************)


\* A call that has begun is one that a caller may make.
Called(s) ==
  pc[s] # "idle" =>
    IF IsRetention(s)
    THEN call[s].key \in Keys /\ call[s].cutoff \in Cutoffs /\ call[s].limit \in Limits
    ELSE call[s].key \in KeysFor[call[s].payload.id]

\* The advisory locks of a call are all held from its first read to its end.
Locked(s) ==
  /\ pc[s] \notin InTransaction => tx[s] = NoTx
  /\ pc[s] = "lock" =>
       tx[s].locks \in IF IsRetention(s) THEN {{}} ELSE {{}, {<<"event", call[s].payload.id>>}}
  /\ pc[s] \in InTransaction \ {"lock"} =>
       tx[s].locks = IF IsRetention(s) THEN {<<"retention", call[s].key>>}
                     ELSE {<<"event", call[s].payload.id>>, <<"idempotency", call[s].key>>}

Effectless(s) ==
  tx[s].inserts = None /\ tx[s].evidence = None /\ tx[s].claim = None /\ tx[s].batch = {}

\* Rows that retention with this cutoff may take, conflicting or not.
Due(cutoff) ==
  {i \in Ids : events[i] # None /\ events[i].expires <= cutoff /\ events[i].kind # "conflict"}

\* What the open transaction will do when it commits.
Duplicating(s) ==
  /\ call[s].outcome = "duplicate" /\ Effectless(s)
  /\ IF IsRetention(s) THEN requests[call[s].key] = RetentionRow(call[s].cutoff, call[s].limit)
     ELSE Replays(call[s].payload, call[s].key)

Inserting(s) ==
  /\ ~IsRetention(s) /\ call[s].outcome = "stored"
  /\ tx[s].inserts = call[s].payload /\ tx[s].evidence = None /\ tx[s].batch = {}
  /\ events[call[s].payload.id] = None /\ ReferencesAreLocal(call[s].payload)

Conflicting(s) ==
  /\ ~IsRetention(s) /\ call[s].outcome = "conflict_visible"
  /\ tx[s].inserts = None /\ tx[s].evidence = call[s].payload /\ tx[s].batch = {}
  /\ events[call[s].payload.id] # None /\ ~Replays(call[s].payload, call[s].key)

Expiring(s) ==
  /\ IsRetention(s) /\ call[s].outcome = "retention_expired"
  /\ tx[s].inserts = None /\ tx[s].evidence = None
  /\ tx[s].batch \subseteq Due(call[s].cutoff) \ expired
  /\ Cardinality(tx[s].batch) <= call[s].limit

\* The request row of the call is inserted and not committed.
Claims(s) == tx[s].claim = call[s].key /\ requests[call[s].key] = None

Stage(s) ==
  /\ pc[s] \in {"lock", "read", "references", "insertEvent", "conflictRow", "snapshot", "update"} =>
       Effectless(s)
  /\ pc[s] \in {"references", "insertEvent", "conflictRow"} => ~IsRetention(s)
  /\ pc[s] = "insertEvent" =>
       call[s].outcome = "stored" /\ ReferencesAreLocal(call[s].payload)
  /\ pc[s] = "conflictRow" =>
       /\ call[s].outcome = "conflict_visible"
       /\ events[call[s].payload.id] # None /\ ~Replays(call[s].payload, call[s].key)
  /\ pc[s] = "conflictRequest" => Conflicting(s) /\ tx[s].claim = None
  /\ pc[s] \in {"snapshot", "update"} =>
       IsRetention(s) /\ call[s].outcome = "retention_expired"
  /\ pc[s] = "update" => tx[s].snapshot \subseteq Due(call[s].cutoff)
  /\ pc[s] = "insertRequest" => (Inserting(s) \/ Expiring(s)) /\ tx[s].claim = None
  /\ pc[s] \in {"audit", "commit"} =>
       \/ Duplicating(s)
       \/ (Inserting(s) \/ Expiring(s)) /\ Claims(s)
       \/ Conflicting(s) /\ (Claims(s) \/ (tx[s].claim = None /\ requests[call[s].key] # None))
  /\ pc[s] = "commit" => tx[s].audited

\* Both callers of the archive derive the key of a write from the event id.
OneKeyPerEvent == \A i \in Ids : \A k, l \in KeysFor[i] : k = l

\* What an answer to a write claims is there.  A conflict recorded under a key
\* of its own is a duplicate when it comes again.
Backed(p, outcome) ==
  /\ outcome = "stored" => events[p.id] = p
  /\ outcome = "duplicate" => events[p.id] = p \/ (p \in conflicts /\ ~OneKeyPerEvent)
  /\ outcome = "conflict_visible" => p \in conflicts

Told(s) == pc[s] = "answer" /\ ~IsRetention(s) => Backed(call[s].payload, call[s].outcome)

SessionInv(s) == Called(s) /\ Locked(s) /\ Stage(s) /\ Told(s)

\* Two transactions have no lock, no request row and no expiring row in common.
Apart(s, o) ==
  /\ tx[s].locks \cap tx[o].locks = {}
  /\ tx[s].claim # None => tx[s].claim # tx[o].claim
  /\ tx[s].batch \cap tx[o].batch = {}

(***************************************************************************)
(* The tables and the answers                                              *)
(***************************************************************************)

Stored == {i \in Ids : events[i] # None}

\* A request row of a write tells what became of its payload.
RequestsAreBacked ==
  /\ \A k \in Keys : \A p \in Payloads : Replays(p, k) =>
       /\ requests[k].outcome = "stored" => events[p.id] = p
       /\ requests[k].outcome # "stored" => p \in conflicts /\ ~OneKeyPerEvent
  /\ OneKeyPerEvent => \A i \in Stored : \A k \in KeysFor[i] : requests[k] # None

TablesInv == ArchiveTypeOK /\ IsFiniteSet(Stored) /\ RequestsAreBacked

AnswersAreBacked == \A a \in answers : a.payload # None => Backed(a.payload, a.outcome)

PgInv ==
  /\ PostgresTypeOK /\ TablesInv /\ AnswersAreBacked
  /\ \A s \in Sessions : SessionInv(s)
  /\ \A s, o \in Sessions : s # o => Apart(s, o)

(***************************************************************************)
(* Steps that leave the tables alone                                       *)
(***************************************************************************)

\* A session without a call has a call and a transaction of their types.
LEMMA NoTxTyped == NoTx \in PgTransactions /\ NoCall \in PgCalls
BY DEF NoTx, NoCall, PgTransactions, PgCalls, PgOutcomes

\* A session moves to a step, with this call and this transaction.
Moves(s, step, c, t) ==
  pc' = [pc EXCEPT ![s] = step] /\ call' = [call EXCEPT ![s] = c] /\ tx' = [tx EXCEPT ![s] = t]

\* A transaction has nothing in common with those of other sessions.
Alone(s, t) ==
  \A o \in Sessions \ {s} :
    /\ t.locks \cap tx[o].locks = {}
    /\ t.claim # None => t.claim # tx[o].claim
    /\ t.batch \cap tx[o].batch = {}

\* A transaction that holds what it held, or nothing, stays apart from the others.
LEMMA HoldingsKept ==
  ASSUME PgInv, NEW s \in Sessions, NEW t,
         \/ t = NoTx
         \/ t.locks = tx[s].locks /\ t.claim = tx[s].claim /\ t.batch = tx[s].batch
  PROVE  Alone(s, t)
<1>1. CASE t = NoTx
  BY <1>1 DEF Alone, NoTx
<1>2. CASE t.locks = tx[s].locks /\ t.claim = tx[s].claim /\ t.batch = tx[s].batch
  BY <1>2 DEF Alone, PgInv, Apart
<1> QED
  BY <1>1, <1>2

\* What a move changes: the state of one session.
LEMMA MoveEffect ==
  ASSUME PgInv, NEW s \in Sessions, NEW step \in PgSteps, NEW c \in PgCalls,
         NEW t \in PgTransactions, Moves(s, step, c, t)
  PROVE  /\ SessionsTyped'
         /\ pc'[s] = step /\ call'[s] = c /\ tx'[s] = t
         /\ \A o \in Sessions \ {s} : pc'[o] = pc[o] /\ call'[o] = call[o] /\ tx'[o] = tx[o]
BY DEF Moves, PgInv, PostgresTypeOK, SessionsTyped

\* What the other sessions know does not change with a session that moves.
LEMMA QuietMove ==
  ASSUME PgInv, NEW s \in Sessions, NEW step \in PgSteps, NEW c \in PgCalls,
         NEW t \in PgTransactions, Moves(s, step, c, t), Alone(s, t), SessionInv(s)',
         UNCHANGED tables,
         UNCHANGED answers \/ (answers' \subseteq PgAnswers /\ AnswersAreBacked'),
         calls' \in 0..MaxCalls, faults' \in 0..MaxFaults
  PROVE  PgInv'
<1>1. /\ SessionsTyped'
      /\ pc'[s] = step /\ call'[s] = c /\ tx'[s] = t
      /\ \A o \in Sessions \ {s} : pc'[o] = pc[o] /\ call'[o] = call[o] /\ tx'[o] = tx[o]
  BY MoveEffect
<1>2. /\ events' = events /\ requests' = requests /\ conflicts' = conflicts
      /\ expired' = expired /\ audit' = audit
  BY DEF tables
<1>3. ASSUME NEW o \in Sessions \ {s} PROVE SessionInv(o)'
  <2>1. SessionInv(o)
    BY DEF PgInv
  <2>2. Called(o)' /\ Locked(o)' /\ Told(o)'
    BY <1>1, <1>2, <2>1 DEF SessionInv, Called, Locked, Told, IsRetention, Backed
  <2>3. Stage(o)'
    BY <1>1, <1>2, <2>1 DEF SessionInv, Stage, IsRetention, Effectless, Duplicating, Inserting,
       Conflicting, Expiring, Claims, Replays, ReferencesAreLocal, Due
  <2> QED
    BY <2>2, <2>3 DEF SessionInv
<1>4. \A a, b \in Sessions : a # b => Apart(a, b)'
  BY <1>1 DEF PgInv, Apart, Alone
<1>5. PostgresTypeOK'
  BY <1>1, <1>2 DEF PgInv, PostgresTypeOK, ArchiveTypeOK
<1>6. TablesInv'
  BY <1>2 DEF PgInv, TablesInv, ArchiveTypeOK, Stored, RequestsAreBacked, Replays
<1>7. AnswersAreBacked'
  BY <1>2 DEF PgInv, AnswersAreBacked, Backed
<1> QED
  BY <1>3, <1>4, <1>5, <1>6, <1>7 DEF PgInv

\* What is known of a session whose call has begun.
LEMMA SessionFacts ==
  ASSUME PgInv, NEW s \in Sessions
  PROVE  /\ pc[s] \in PgSteps /\ call[s] \in PgCalls /\ tx[s] \in PgTransactions
         /\ pc = [pc EXCEPT ![s] = pc[s]] /\ call = [call EXCEPT ![s] = call[s]]
         /\ tx = [tx EXCEPT ![s] = tx[s]]
         /\ SessionInv(s)
         /\ pc[s] # "idle" /\ ~IsRetention(s) =>
              /\ call[s].payload \in Payloads /\ call[s].payload.id \in Ids
              /\ call[s].key \in KeysFor[call[s].payload.id] /\ call[s].key \in Keys
         /\ pc[s] # "idle" /\ IsRetention(s) =>
              /\ call[s].key \in Keys /\ call[s].cutoff \in Cutoffs /\ call[s].limit \in Limits
<1>1. /\ pc[s] \in PgSteps /\ call[s] \in PgCalls /\ tx[s] \in PgTransactions
      /\ pc = [pc EXCEPT ![s] = pc[s]] /\ call = [call EXCEPT ![s] = call[s]]
      /\ tx = [tx EXCEPT ![s] = tx[s]]
  BY DEF PgInv, PostgresTypeOK, SessionsTyped
<1>2. SessionInv(s)
  BY DEF PgInv
<1>3. pc[s] # "idle" /\ ~IsRetention(s) =>
        call[s].payload \in Payloads /\ call[s].key \in KeysFor[call[s].payload.id]
  BY <1>1, <1>2 DEF SessionInv, Called, IsRetention, PgCalls
<1> QED
  BY <1>1, <1>2, <1>3, WriteInputs DEF SessionInv, Called

(***************************************************************************)
(* Calls begin and take their locks                                        *)
(***************************************************************************)

\* A call begins with a transaction that holds nothing.
LEMMA CallBegins ==
  ASSUME PgInv, NEW s \in Sessions, NEW c \in PgCalls,
         c.payload = None => c.key \in Keys /\ c.cutoff \in Cutoffs /\ c.limit \in Limits,
         c.payload # None => c.key \in KeysFor[c.payload.id],
         Moves(s, "lock", c, [NoTx EXCEPT !.open = TRUE]),
         calls < MaxCalls, calls' = calls + 1, UNCHANGED tables, UNCHANGED <<answers, faults>>
  PROVE  PgInv'
<1> DEFINE t == [NoTx EXCEPT !.open = TRUE]
<1>1. t \in PgTransactions /\ t.locks = {} /\ t.inserts = None /\ t.evidence = None
      /\ t.claim = None /\ t.batch = {}
  BY DEF NoTx, PgTransactions
<1>2. Alone(s, t)
  BY <1>1 DEF Alone
<1>3. "lock" \in PgSteps
  BY DEF PgSteps, InTransaction
<1>4. pc'[s] = "lock" /\ call'[s] = c /\ tx'[s] = t
  BY <1>1, <1>3, MoveEffect
<1>5. SessionInv(s)'
  BY <1>1, <1>4 DEF SessionInv, Called, Locked, Stage, Told, Effectless, IsRetention, InTransaction
<1>6. calls' \in 0..MaxCalls /\ faults' \in 0..MaxFaults
  BY PostgresAssumption DEF PostgresAssumption, PgInv, PostgresTypeOK
<1> QED
  BY <1>1, <1>2, <1>3, <1>5, <1>6, QuietMove

\* An append or a tombstone begins.
LEMMA BeginWriteKept ==
  ASSUME PgInv, NEW s \in Sessions, NEW p \in Payloads, NEW k \in KeysFor[p.id],
         BeginWrite(s, p, k)
  PROVE  PgInv'
<1> DEFINE c == [NoCall EXCEPT !.payload = p, !.key = k]
<1>1. c \in PgCalls /\ c.payload = p /\ c.key = k /\ p # None
  BY WriteInputs, NoTxTyped, ArchiveAssumption DEF ArchiveAssumption, NoCall, PgCalls
<1> QED
  BY <1>1, CallBegins DEF BeginWrite, Moves, Goto, TablesUnchanged

\* A retention begins.
LEMMA BeginRetentionKept ==
  ASSUME PgInv, NEW s \in Sessions, NEW k \in Keys, NEW cutoff \in Cutoffs, NEW limit \in Limits,
         BeginRetention(s, k, cutoff, limit)
  PROVE  PgInv'
<1> DEFINE c == [NoCall EXCEPT !.key = k, !.cutoff = cutoff, !.limit = limit]
<1>1. c \in PgCalls /\ c.payload = None /\ c.key = k /\ c.cutoff = cutoff /\ c.limit = limit
  BY NoTxTyped DEF NoCall, PgCalls
<1> QED
  BY <1>1, CallBegins DEF BeginRetention, Moves, Goto, TablesUnchanged

\* The next lock of the order, and where the call is when it has it.
LEMMA NextLock ==
  ASSUME PgInv, NEW s \in Sessions, At(s, "lock")
  PROVE  LET n == Cardinality(tx[s].locks) + 1 IN
         \/ /\ IsRetention(s) /\ tx[s].locks = {} /\ LockOrder(s)[n] = <<"retention", call[s].key>>
            /\ n = Len(LockOrder(s))
         \/ /\ ~IsRetention(s) /\ tx[s].locks = {}
            /\ LockOrder(s)[n] = <<"event", call[s].payload.id>> /\ n # Len(LockOrder(s))
         \/ /\ ~IsRetention(s) /\ tx[s].locks = {<<"event", call[s].payload.id>>}
            /\ LockOrder(s)[n] = <<"idempotency", call[s].key>> /\ n = Len(LockOrder(s))
<1> DEFINE lock == <<"event", call[s].payload.id>>
<1>1. Locked(s)
  BY DEF PgInv, SessionInv
<1>2. Cardinality({}) = 0 /\ Cardinality({lock}) = 1
  BY FS_EmptySet, FS_Singleton
<1>3. CASE IsRetention(s)
  <2>1. tx[s].locks = {}
    BY <1>1, <1>3 DEF Locked, At
  <2> QED
    BY <1>2, <1>3, <2>1 DEF LockOrder
<1>4. CASE ~IsRetention(s)
  <2>1. tx[s].locks = {} \/ tx[s].locks = {lock}
    BY <1>1, <1>4 DEF Locked, At
  <2>2. CASE tx[s].locks = {}
    BY <1>2, <1>4, <2>2 DEF LockOrder
  <2>3. CASE tx[s].locks = {lock}
    BY <1>2, <1>4, <2>3 DEF LockOrder
  <2> QED
    BY <2>1, <2>2, <2>3
<1> QED
  BY <1>3, <1>4

\* The next advisory lock is taken when no other session has it.
LEMMA TakeLockKept ==
  ASSUME PgInv, NEW s \in Sessions, TakeLock(s)
  PROVE  PgInv'
<1> DEFINE n == Cardinality(tx[s].locks) + 1
           lock == LockOrder(s)[n]
           step == IF n = Len(LockOrder(s)) THEN "read" ELSE "lock"
           t == [tx[s] EXCEPT !.locks = @ \cup {lock}]
<1> HIDE DEF n
<1>1. pc[s] = "lock" /\ ~HeldByOther(s, lock) /\ Moves(s, step, call[s], t)
  BY SessionFacts DEF TakeLock, At, Goto, Moves, n
<1>2. \/ IsRetention(s) /\ tx[s].locks = {} /\ lock = <<"retention", call[s].key>> /\ step = "read"
      \/ /\ ~IsRetention(s) /\ tx[s].locks = {} /\ lock = <<"event", call[s].payload.id>>
         /\ step = "lock"
      \/ /\ ~IsRetention(s) /\ tx[s].locks = {<<"event", call[s].payload.id>>}
         /\ lock = <<"idempotency", call[s].key>> /\ step = "read"
  BY <1>1, NextLock DEF At, n
<1> HIDE DEF lock, step
<1>3. lock \in PgLocks /\ step \in PgSteps
  BY <1>1, <1>2, SessionFacts DEF PgLocks, PgSteps, InTransaction
<1>4. t \in PgTransactions /\ t.locks = tx[s].locks \cup {lock} /\ t.claim = tx[s].claim
      /\ t.batch = tx[s].batch /\ t.inserts = tx[s].inserts /\ t.evidence = tx[s].evidence
  BY <1>3, SessionFacts DEF PgTransactions
<1>5. Alone(s, t)
  BY <1>1, <1>4 DEF Alone, PgInv, Apart, HeldByOther
<1>6. pc'[s] = step /\ call'[s] = call[s] /\ tx'[s] = t
  BY <1>1, <1>3, <1>4, SessionFacts, MoveEffect
<1>7. SessionInv(s)
  BY SessionFacts
<1>8. Locked(s)'
  BY <1>2, <1>4, <1>6 DEF Locked, InTransaction, IsRetention
<1>9. SessionInv(s)'
  BY <1>1, <1>2, <1>4, <1>6, <1>7, <1>8 DEF SessionInv, Called, Stage, Told, Effectless, IsRetention
<1> QED
  BY <1>1, <1>3, <1>4, <1>5, <1>9, SessionFacts, QuietMove
  DEF TakeLock, TablesUnchanged, NoFault, PgInv, PostgresTypeOK

(***************************************************************************)
(* Statements that read or write nothing that is committed                 *)
(***************************************************************************)

\* A transaction that is dropped leaves a call that answers or recovers.
LEMMA DroppedKept ==
  ASSUME PgInv, NEW s \in Sessions, pc[s] # "idle", NEW o \in PgOutcomes,
         NEW step \in {"answer", "recover"},
         step = "answer" => o \notin {"stored", "duplicate", "conflict_visible"},
         Moves(s, step, [call[s] EXCEPT !.outcome = o], NoTx),
         UNCHANGED tables, UNCHANGED answers, calls' \in 0..MaxCalls, faults' \in 0..MaxFaults
  PROVE  PgInv'
<1> DEFINE c == [call[s] EXCEPT !.outcome = o]
<1>1. /\ c \in PgCalls /\ c.payload = call[s].payload /\ c.key = call[s].key
      /\ c.cutoff = call[s].cutoff /\ c.limit = call[s].limit /\ c.outcome = o
  BY SessionFacts DEF PgCalls
<1>2. step \in PgSteps /\ step \notin InTransaction /\ step # "idle"
  BY DEF PgSteps, InTransaction
<1>3. Alone(s, NoTx)
  BY HoldingsKept
<1>4. pc'[s] = step /\ call'[s] = c /\ tx'[s] = NoTx
  BY <1>1, <1>2, NoTxTyped, MoveEffect
<1>5. Called(s)' /\ Told(s)'
  BY <1>1, <1>4, SessionFacts DEF SessionInv, Called, Told, Backed, IsRetention
<1>6. Locked(s)' /\ Stage(s)'
  BY <1>2, <1>4 DEF Locked, Stage, InTransaction
<1> QED
  BY <1>1, <1>2, <1>3, <1>5, <1>6, NoTxTyped, QuietMove DEF SessionInv

\* The audit row is refused and the transaction rolled back.
LEMMA AuditFailsKept ==
  ASSUME PgInv, NEW s \in Sessions, AuditFails(s)
  PROVE  PgInv'
<1>1. pc[s] # "idle" /\ Moves(s, "answer", [call[s] EXCEPT !.outcome = "audit_unavailable"], NoTx)
  BY DEF AuditFails, RollBack, Plan, Goto, Moves, At
<1>2. faults' \in 0..MaxFaults /\ calls' \in 0..MaxCalls
  BY PostgresAssumption DEF PostgresAssumption, PgInv, PostgresTypeOK, AuditFails
<1> QED
  BY <1>1, <1>2, DroppedKept DEF AuditFails, TablesUnchanged, PgOutcomes

\* A session whose statement fails.
LEMMA FailsKept ==
  ASSUME PgInv, NEW s \in Sessions, pc[s] # "idle", Fails(s),
         UNCHANGED tables, UNCHANGED answers, calls' \in 0..MaxCalls, faults' \in 0..MaxFaults
  PROVE  PgInv'
<1> DEFINE o == call[s].outcome
<1>1. o \in PgOutcomes /\ [call[s] EXCEPT !.outcome = o] = call[s]
  BY SessionFacts DEF PgCalls
<1>2. Moves(s, "recover", [call[s] EXCEPT !.outcome = o], NoTx)
  BY <1>1, SessionFacts DEF Fails, Goto, Moves
<1> QED
  BY <1>1, <1>2, DroppedKept

\* The connection breaks within a transaction.
LEMMA ConnectionBreaksKept ==
  ASSUME PgInv, NEW s \in Sessions, ConnectionBreaks(s)
  PROVE  PgInv'
<1>1. pc[s] # "idle" /\ Fails(s)
  BY DEF ConnectionBreaks, InTransaction
<1>2. faults' \in 0..MaxFaults /\ calls' \in 0..MaxCalls
  BY PostgresAssumption DEF PostgresAssumption, PgInv, PostgresTypeOK, ConnectionBreaks
<1> QED
  BY <1>1, <1>2, FailsKept DEF ConnectionBreaks, TablesUnchanged

\* A transaction goes on: its call keeps its arguments, its transaction its
\* locks, and what remains is what the call knows at the next step.
LEMMA GoesOnKept ==
  ASSUME PgInv, NEW s \in Sessions, pc[s] \in InTransaction \ {"lock"},
         NEW step \in InTransaction \ {"lock"}, NEW o \in PgOutcomes, NEW t \in PgTransactions,
         t.locks = tx[s].locks, Alone(s, t),
         Moves(s, step, [call[s] EXCEPT !.outcome = o], t),
         UNCHANGED tables, UNCHANGED answers, calls' \in 0..MaxCalls, faults' \in 0..MaxFaults
  PROVE  /\ pc'[s] = step /\ tx'[s] = t /\ call'[s].outcome = o
         /\ call'[s].payload = call[s].payload /\ call'[s].key = call[s].key
         /\ call'[s].cutoff = call[s].cutoff /\ call'[s].limit = call[s].limit
         /\ Stage(s)' => PgInv'
<1> DEFINE c == [call[s] EXCEPT !.outcome = o]
<1>1. /\ c \in PgCalls /\ c.payload = call[s].payload /\ c.key = call[s].key
      /\ c.cutoff = call[s].cutoff /\ c.limit = call[s].limit /\ c.outcome = o
  BY SessionFacts DEF PgCalls
<1>2. step \in PgSteps /\ step # "answer" /\ step # "idle"
  BY DEF PgSteps, InTransaction
<1>4. pc'[s] = step /\ call'[s] = c /\ tx'[s] = t
  BY <1>1, <1>2, MoveEffect
<1>5. Called(s) /\ Locked(s) /\ pc[s] # "idle"
  BY SessionFacts DEF SessionInv, InTransaction
<1> HIDE DEF c
<1>6. Called(s)' /\ Told(s)'
  BY <1>1, <1>2, <1>4, <1>5 DEF Called, Told, IsRetention
<1>7. Locked(s)'
  BY <1>1, <1>2, <1>4, <1>5 DEF Locked, IsRetention
<1>8. Moves(s, step, c, t)
  BY DEF c
<1> QED
  BY <1>1, <1>2, <1>4, <1>6, <1>7, <1>8, QuietMove DEF SessionInv

\* A statement that does not fail uses up nothing.
LEMMA NothingCounted ==
  ASSUME PgInv, NoFault
  PROVE  UNCHANGED answers /\ calls' \in 0..MaxCalls /\ faults' \in 0..MaxFaults
BY DEF NoFault, PgInv, PostgresTypeOK

\* A call that plans the outcome it has.
LEMMA SamePlan ==
  ASSUME PgInv, NEW s \in Sessions
  PROVE  call[s].outcome \in PgOutcomes /\ [call[s] EXCEPT !.outcome = call[s].outcome] = call[s]
BY SessionFacts DEF PgCalls

\* A write reads the request and the event it is about, under its locks.
LEMMA ReadKept ==
  ASSUME PgInv, NEW s \in Sessions, Read(s)
  PROVE  PgInv'
<1> DEFINE p == call[s].payload
           k == call[s].key
<1>1. /\ pc[s] = "read" /\ ~IsRetention(s) /\ Effectless(s)
      /\ UNCHANGED tables /\ UNCHANGED answers /\ calls' \in 0..MaxCalls /\ faults' \in 0..MaxFaults
  BY SessionFacts, NothingCounted DEF Read, At, TablesUnchanged, SessionInv, Stage
<1>2. pc[s] \in InTransaction \ {"lock"} /\ pc[s] # "idle"
  BY <1>1 DEF InTransaction
<1>3. Alone(s, tx[s]) /\ tx[s] \in PgTransactions /\ tx = [tx EXCEPT ![s] = tx[s]]
  BY HoldingsKept, SessionFacts
<1>4. CASE /\ Replays(p, k)
           /\ Goto(s, "audit") /\ Plan(s, "duplicate") /\ UNCHANGED tx
  <2>1. Moves(s, "audit", [call[s] EXCEPT !.outcome = "duplicate"], tx[s])
    BY <1>3, <1>4 DEF Moves, Goto, Plan
  <2>2. "audit" \in InTransaction \ {"lock"} /\ "duplicate" \in PgOutcomes
    BY DEF InTransaction, PgOutcomes
  <2>3. /\ pc'[s] = "audit" /\ tx'[s] = tx[s] /\ call'[s].outcome = "duplicate"
        /\ call'[s].payload = p /\ call'[s].key = k
        /\ Stage(s)' => PgInv'
    BY <1>1, <1>2, <1>3, <2>1, <2>2, GoesOnKept
  <2>4. Stage(s)'
    BY <1>1, <1>4, <2>3 DEF Stage, Duplicating, Effectless, IsRetention, Replays, tables
  <2> QED
    BY <2>3, <2>4
<1>5. CASE /\ ~Replays(p, k) /\ events[p.id] # None
           /\ Goto(s, "conflictRow") /\ Plan(s, "conflict_visible") /\ UNCHANGED tx
  <2>1. Moves(s, "conflictRow", [call[s] EXCEPT !.outcome = "conflict_visible"], tx[s])
    BY <1>3, <1>5 DEF Moves, Goto, Plan
  <2>2. "conflictRow" \in InTransaction \ {"lock"} /\ "conflict_visible" \in PgOutcomes
    BY DEF InTransaction, PgOutcomes
  <2>3. /\ pc'[s] = "conflictRow" /\ tx'[s] = tx[s] /\ call'[s].outcome = "conflict_visible"
        /\ call'[s].payload = p /\ call'[s].key = k
        /\ Stage(s)' => PgInv'
    BY <1>1, <1>2, <1>3, <2>1, <2>2, GoesOnKept
  <2>4. Stage(s)'
    BY <1>1, <1>5, <2>3 DEF Stage, Effectless, IsRetention, Replays, tables
  <2> QED
    BY <2>3, <2>4
<1>6. CASE RollBack(s, "request_invalid")
  BY <1>1, <1>2, <1>6, DroppedKept DEF RollBack, Goto, Plan, Moves, PgOutcomes
<1>7. CASE Goto(s, "references") /\ UNCHANGED <<call, tx>>
  <2>1. Moves(s, "references", [call[s] EXCEPT !.outcome = call[s].outcome], tx[s])
    BY <1>3, <1>7, SamePlan, SessionFacts DEF Moves, Goto
  <2>2. "references" \in InTransaction \ {"lock"}
    BY DEF InTransaction
  <2>3. /\ pc'[s] = "references" /\ tx'[s] = tx[s] /\ call'[s].payload = p
        /\ Stage(s)' => PgInv'
    BY <1>1, <1>2, <1>3, <2>1, <2>2, SamePlan, GoesOnKept
  <2>4. Stage(s)'
    BY <1>1, <2>3 DEF Stage, Effectless, IsRetention
  <2> QED
    BY <2>3, <2>4
<1> QED
  BY <1>4, <1>5, <1>6, <1>7 DEF Read

\* The references of a new event are looked up.
LEMMA ReferencesKept ==
  ASSUME PgInv, NEW s \in Sessions, References(s)
  PROVE  PgInv'
<1>1. /\ pc[s] = "references" /\ ~IsRetention(s) /\ Effectless(s)
      /\ UNCHANGED tables /\ UNCHANGED answers /\ calls' \in 0..MaxCalls /\ faults' \in 0..MaxFaults
  BY SessionFacts, NothingCounted DEF References, At, TablesUnchanged, SessionInv, Stage
<1>2. pc[s] \in InTransaction \ {"lock"} /\ pc[s] # "idle"
  BY <1>1 DEF InTransaction
<1>3. Alone(s, tx[s]) /\ tx[s] \in PgTransactions /\ tx = [tx EXCEPT ![s] = tx[s]]
  BY HoldingsKept, SessionFacts
<1>4. CASE ReferencesAreLocal(call[s].payload)
  <2>1. Moves(s, "insertEvent", [call[s] EXCEPT !.outcome = "stored"], tx[s])
    BY <1>3, <1>4 DEF References, Moves, Goto, Plan
  <2>2. "insertEvent" \in InTransaction \ {"lock"} /\ "stored" \in PgOutcomes
    BY DEF InTransaction, PgOutcomes
  <2>3. /\ pc'[s] = "insertEvent" /\ tx'[s] = tx[s] /\ call'[s].outcome = "stored"
        /\ call'[s].payload = call[s].payload
        /\ Stage(s)' => PgInv'
    BY <1>1, <1>2, <1>3, <2>1, <2>2, GoesOnKept
  <2>4. Stage(s)'
    BY <1>1, <1>4, <2>3 DEF Stage, Effectless, IsRetention, ReferencesAreLocal, tables
  <2> QED
    BY <2>3, <2>4
<1>5. CASE ~ReferencesAreLocal(call[s].payload)
  BY <1>1, <1>2, <1>5, DroppedKept DEF References, RollBack, Goto, Plan, Moves, PgOutcomes
<1> QED
  BY <1>4, <1>5

\* The row of a new event is inserted, unseen until COMMIT.
LEMMA InsertEventKept ==
  ASSUME PgInv, NEW s \in Sessions, InsertEvent(s)
  PROVE  PgInv'
<1> DEFINE t == [tx[s] EXCEPT !.inserts = call[s].payload]
<1>1. /\ pc[s] = "insertEvent" /\ ~IsRetention(s) /\ Effectless(s)
      /\ call[s].outcome = "stored" /\ ReferencesAreLocal(call[s].payload)
      /\ UNCHANGED tables /\ UNCHANGED answers /\ calls' \in 0..MaxCalls /\ faults' \in 0..MaxFaults
  BY SessionFacts, NothingCounted DEF InsertEvent, At, TablesUnchanged, SessionInv, Stage
<1>2. pc[s] \in InTransaction \ {"lock"} /\ pc[s] # "idle"
  BY <1>1 DEF InTransaction
<1>3. CASE events[call[s].payload.id] = None
  <2>1. Moves(s, "insertRequest", [call[s] EXCEPT !.outcome = call[s].outcome], t)
    BY <1>3, SamePlan, SessionFacts DEF InsertEvent, Moves, Goto
  <2>2. "insertRequest" \in InTransaction \ {"lock"}
    BY DEF InTransaction
  <2>3. /\ t \in PgTransactions /\ t.locks = tx[s].locks /\ t.claim = tx[s].claim
        /\ t.batch = tx[s].batch /\ t.evidence = tx[s].evidence /\ t.inserts = call[s].payload
    BY <1>1, SessionFacts DEF PgTransactions, PgCalls, IsRetention
  <2>4. Alone(s, t)
    BY <2>3, HoldingsKept
  <2> HIDE DEF t
  <2>5. /\ pc'[s] = "insertRequest" /\ tx'[s] = t /\ call'[s].outcome = call[s].outcome
        /\ call'[s].payload = call[s].payload
        /\ Stage(s)' => PgInv'
    BY <1>1, <1>2, <2>1, <2>2, <2>3, <2>4, SamePlan, GoesOnKept
  <2>6. Stage(s)'
    BY <1>1, <1>3, <2>3, <2>5
    DEF Stage, Effectless, Inserting, IsRetention, ReferencesAreLocal, tables
  <2> QED
    BY <2>5, <2>6
<1>4. CASE events[call[s].payload.id] # None
  BY <1>1, <1>2, <1>4, FailsKept DEF InsertEvent
<1> QED
  BY <1>3, <1>4

\* The claim of a request row is of a key that no other transaction claims.
LEMMA ClaimAlone ==
  ASSUME PgInv, NEW s \in Sessions, NEW k \in Keys, ~ClaimedByOther(s, k)
  PROVE  LET t == [tx[s] EXCEPT !.claim = k] IN
         /\ t \in PgTransactions /\ Alone(s, t) /\ t.claim = k
         /\ t.locks = tx[s].locks /\ t.batch = tx[s].batch
         /\ t.inserts = tx[s].inserts /\ t.evidence = tx[s].evidence
<1> DEFINE t == [tx[s] EXCEPT !.claim = k]
<1>1. /\ t \in PgTransactions /\ t.claim = k
      /\ t.locks = tx[s].locks /\ t.batch = tx[s].batch
      /\ t.inserts = tx[s].inserts /\ t.evidence = tx[s].evidence
  BY SessionFacts DEF PgTransactions
<1> HIDE DEF t
<1>2. Alone(s, t)
  BY <1>1 DEF Alone, ClaimedByOther, PgInv, Apart
<1> QED
  BY <1>1, <1>2 DEF t

\* The row of the request is inserted: its key is claimed until COMMIT.
LEMMA InsertRequestKept ==
  ASSUME PgInv, NEW s \in Sessions, InsertRequest(s)
  PROVE  PgInv'
<1> DEFINE k == call[s].key
           t == [tx[s] EXCEPT !.claim = k]
<1>1. /\ pc[s] = "insertRequest" /\ (Inserting(s) \/ Expiring(s)) /\ tx[s].claim = None
      /\ ~ClaimedByOther(s, k)
      /\ UNCHANGED tables /\ UNCHANGED answers /\ calls' \in 0..MaxCalls /\ faults' \in 0..MaxFaults
  BY SessionFacts, NothingCounted DEF InsertRequest, At, TablesUnchanged, SessionInv, Stage
<1>2. pc[s] \in InTransaction \ {"lock"} /\ pc[s] # "idle" /\ k \in Keys
  BY <1>1, SessionFacts DEF InTransaction
<1>3. CASE requests[k] = None
  <2>1. Moves(s, "audit", [call[s] EXCEPT !.outcome = call[s].outcome], t)
    BY <1>3, SamePlan, SessionFacts DEF InsertRequest, Moves, Goto
  <2>2. "audit" \in InTransaction \ {"lock"}
    BY DEF InTransaction
  <2>3. /\ t \in PgTransactions /\ Alone(s, t) /\ t.claim = k /\ t.locks = tx[s].locks
        /\ t.batch = tx[s].batch /\ t.evidence = tx[s].evidence /\ t.inserts = tx[s].inserts
    BY <1>1, <1>2, ClaimAlone
  <2> HIDE DEF t
  <2>4. /\ pc'[s] = "audit" /\ tx'[s] = t /\ call'[s].outcome = call[s].outcome
        /\ call'[s].payload = call[s].payload /\ call'[s].key = k
        /\ call'[s].cutoff = call[s].cutoff /\ call'[s].limit = call[s].limit
        /\ Stage(s)' => PgInv'
    BY <1>1, <1>2, <2>1, <2>2, <2>3, SamePlan, GoesOnKept
  <2>5. (Inserting(s) \/ Expiring(s))' /\ Claims(s)'
    BY <1>1, <1>3, <2>3, <2>4
    DEF Inserting, Expiring, Claims, IsRetention, ReferencesAreLocal, Due, tables
  <2>6. Stage(s)'
    BY <2>4, <2>5 DEF Stage
  <2> QED
    BY <2>4, <2>6
<1>4. CASE requests[k] # None
  BY <1>1, <1>2, <1>4, FailsKept DEF InsertRequest
<1> QED
  BY <1>3, <1>4

\* The evidence of a conflict is inserted.
LEMMA ConflictRowKept ==
  ASSUME PgInv, NEW s \in Sessions, ConflictRow(s)
  PROVE  PgInv'
<1> DEFINE t == [tx[s] EXCEPT !.evidence = call[s].payload]
<1>1. /\ pc[s] = "conflictRow" /\ ~IsRetention(s) /\ Effectless(s)
      /\ call[s].outcome = "conflict_visible"
      /\ events[call[s].payload.id] # None /\ ~Replays(call[s].payload, call[s].key)
      /\ UNCHANGED tables /\ UNCHANGED answers /\ calls' \in 0..MaxCalls /\ faults' \in 0..MaxFaults
  BY SessionFacts, NothingCounted DEF ConflictRow, At, TablesUnchanged, SessionInv, Stage
<1>2. pc[s] \in InTransaction \ {"lock"}
  BY <1>1 DEF InTransaction
<1>3. Moves(s, "conflictRequest", [call[s] EXCEPT !.outcome = call[s].outcome], t)
  BY SamePlan, SessionFacts DEF ConflictRow, Moves, Goto
<1>4. "conflictRequest" \in InTransaction \ {"lock"}
  BY DEF InTransaction
<1>5. /\ t \in PgTransactions /\ t.locks = tx[s].locks /\ t.claim = tx[s].claim
      /\ t.batch = tx[s].batch /\ t.evidence = call[s].payload /\ t.inserts = tx[s].inserts
  BY <1>1, SessionFacts DEF PgTransactions, PgCalls, IsRetention
<1>6. Alone(s, t)
  BY <1>5, HoldingsKept
<1> HIDE DEF t
<1>7. /\ pc'[s] = "conflictRequest" /\ tx'[s] = t /\ call'[s].outcome = call[s].outcome
      /\ call'[s].payload = call[s].payload /\ call'[s].key = call[s].key
      /\ Stage(s)' => PgInv'
  BY <1>1, <1>2, <1>3, <1>4, <1>5, <1>6, SamePlan, GoesOnKept
<1>8. Conflicting(s)' /\ tx'[s].claim = None
  BY <1>1, <1>5, <1>7 DEF Conflicting, Effectless, IsRetention, Replays, tables
<1>9. Stage(s)'
  BY <1>7, <1>8 DEF Stage
<1> QED
  BY <1>7, <1>9

\* The row of a conflicting request is inserted unless there is one.
LEMMA ConflictRequestKept ==
  ASSUME PgInv, NEW s \in Sessions, ConflictRequest(s)
  PROVE  PgInv'
<1> DEFINE k == call[s].key
           t == IF requests[k] = None THEN [tx[s] EXCEPT !.claim = k] ELSE tx[s]
<1>1. /\ pc[s] = "conflictRequest" /\ Conflicting(s) /\ tx[s].claim = None
      /\ ~ClaimedByOther(s, k)
      /\ UNCHANGED tables /\ UNCHANGED answers /\ calls' \in 0..MaxCalls /\ faults' \in 0..MaxFaults
  BY SessionFacts, NothingCounted DEF ConflictRequest, At, TablesUnchanged, SessionInv, Stage
<1>2. pc[s] \in InTransaction \ {"lock"} /\ pc[s] # "idle" /\ k \in Keys
  BY <1>1, SessionFacts DEF InTransaction
<1>3. Moves(s, "audit", [call[s] EXCEPT !.outcome = call[s].outcome], t)
  BY SamePlan, SessionFacts DEF ConflictRequest, Moves, Goto
<1>4. "audit" \in InTransaction \ {"lock"}
  BY DEF InTransaction
<1>5. /\ t \in PgTransactions /\ Alone(s, t) /\ t.locks = tx[s].locks
      /\ t.batch = tx[s].batch /\ t.evidence = tx[s].evidence /\ t.inserts = tx[s].inserts
      /\ t.claim = IF requests[k] = None THEN k ELSE None
  BY <1>1, <1>2, ClaimAlone, HoldingsKept, SessionFacts
<1> HIDE DEF t
<1>6. /\ pc'[s] = "audit" /\ tx'[s] = t /\ call'[s].outcome = call[s].outcome
      /\ call'[s].payload = call[s].payload /\ call'[s].key = k
      /\ Stage(s)' => PgInv'
  BY <1>1, <1>2, <1>3, <1>4, <1>5, SamePlan, GoesOnKept
<1>7. /\ Conflicting(s)'
      /\ Claims(s)' \/ (tx'[s].claim = None /\ requests'[call'[s].key] # None)
  BY <1>1, <1>5, <1>6 DEF Conflicting, Claims, IsRetention, Replays, tables
<1>8. Stage(s)'
  BY <1>6, <1>7 DEF Stage
<1> QED
  BY <1>6, <1>8

\* A retention reads the request of its key.
LEMMA ReadRetentionKept ==
  ASSUME PgInv, NEW s \in Sessions, ReadRetention(s)
  PROVE  PgInv'
<1> DEFINE k == call[s].key
           row == RetentionRow(call[s].cutoff, call[s].limit)
<1>1. /\ pc[s] = "read" /\ IsRetention(s) /\ Effectless(s)
      /\ UNCHANGED tables /\ UNCHANGED answers /\ calls' \in 0..MaxCalls /\ faults' \in 0..MaxFaults
  BY SessionFacts, NothingCounted DEF ReadRetention, At, TablesUnchanged, SessionInv, Stage
<1>2. pc[s] \in InTransaction \ {"lock"} /\ pc[s] # "idle"
  BY <1>1 DEF InTransaction
<1>3. Alone(s, tx[s]) /\ tx[s] \in PgTransactions /\ tx = [tx EXCEPT ![s] = tx[s]]
  BY HoldingsKept, SessionFacts
<1>4. CASE requests[k] = row /\ Goto(s, "audit") /\ Plan(s, "duplicate") /\ UNCHANGED tx
  <2>1. Moves(s, "audit", [call[s] EXCEPT !.outcome = "duplicate"], tx[s])
    BY <1>3, <1>4 DEF Moves, Goto, Plan
  <2>2. "audit" \in InTransaction \ {"lock"} /\ "duplicate" \in PgOutcomes
    BY DEF InTransaction, PgOutcomes
  <2>3. /\ pc'[s] = "audit" /\ tx'[s] = tx[s] /\ call'[s].outcome = "duplicate"
        /\ call'[s].payload = call[s].payload /\ call'[s].key = k
        /\ call'[s].cutoff = call[s].cutoff /\ call'[s].limit = call[s].limit
        /\ Stage(s)' => PgInv'
    BY <1>1, <1>2, <1>3, <2>1, <2>2, GoesOnKept
  <2>4. Duplicating(s)'
    BY <1>1, <1>4, <2>3 DEF Duplicating, Effectless, IsRetention, tables
  <2>5. Stage(s)'
    BY <2>3, <2>4 DEF Stage
  <2> QED
    BY <2>3, <2>5
<1>5. CASE RollBack(s, "request_invalid")
  BY <1>1, <1>2, <1>5, DroppedKept DEF RollBack, Goto, Plan, Moves, PgOutcomes
<1>6. CASE Goto(s, "snapshot") /\ Plan(s, "retention_expired") /\ UNCHANGED tx
  <2>1. Moves(s, "snapshot", [call[s] EXCEPT !.outcome = "retention_expired"], tx[s])
    BY <1>3, <1>6 DEF Moves, Goto, Plan
  <2>2. "snapshot" \in InTransaction \ {"lock"} /\ "retention_expired" \in PgOutcomes
    BY DEF InTransaction, PgOutcomes
  <2>3. /\ pc'[s] = "snapshot" /\ tx'[s] = tx[s] /\ call'[s].outcome = "retention_expired"
        /\ call'[s].payload = call[s].payload
        /\ Stage(s)' => PgInv'
    BY <1>1, <1>2, <1>3, <2>1, <2>2, GoesOnKept
  <2>4. Stage(s)'
    BY <1>1, <2>3 DEF Stage, Effectless, IsRetention
  <2> QED
    BY <2>3, <2>4
<1> QED
  BY <1>4, <1>5, <1>6 DEF ReadRetention

\* The UPDATE of a retention takes its snapshot.
LEMMA SnapshotKept ==
  ASSUME PgInv, NEW s \in Sessions, Snapshot(s)
  PROVE  PgInv'
<1> DEFINE t == [tx[s] EXCEPT !.snapshot = Eligible(call[s].cutoff)]
<1>1. /\ pc[s] = "snapshot" /\ IsRetention(s) /\ Effectless(s)
      /\ call[s].outcome = "retention_expired"
      /\ UNCHANGED tables /\ UNCHANGED answers /\ calls' \in 0..MaxCalls /\ faults' \in 0..MaxFaults
  BY SessionFacts, NothingCounted DEF Snapshot, At, TablesUnchanged, SessionInv, Stage
<1>2. pc[s] \in InTransaction \ {"lock"}
  BY <1>1 DEF InTransaction
<1>3. Moves(s, "update", [call[s] EXCEPT !.outcome = call[s].outcome], t)
  BY SamePlan, SessionFacts DEF Snapshot, Moves, Goto
<1>4. "update" \in InTransaction \ {"lock"}
  BY DEF InTransaction
<1>5. Eligible(call[s].cutoff) \subseteq Due(call[s].cutoff) /\ Due(call[s].cutoff) \subseteq Ids
  BY DEF Eligible, Due
<1>6. /\ t \in PgTransactions /\ t.locks = tx[s].locks /\ t.claim = tx[s].claim
      /\ t.batch = tx[s].batch /\ t.evidence = tx[s].evidence /\ t.inserts = tx[s].inserts
      /\ t.snapshot = Eligible(call[s].cutoff)
  BY <1>5, SessionFacts DEF PgTransactions
<1>7. Alone(s, t)
  BY <1>6, HoldingsKept
<1> HIDE DEF t
<1>8. /\ pc'[s] = "update" /\ tx'[s] = t /\ call'[s].outcome = call[s].outcome
      /\ call'[s].payload = call[s].payload /\ call'[s].cutoff = call[s].cutoff
      /\ Stage(s)' => PgInv'
  BY <1>1, <1>2, <1>3, <1>4, <1>6, <1>7, SamePlan, GoesOnKept
<1>9. Due(call[s].cutoff)' = Due(call[s].cutoff)
  BY <1>1, <1>8 DEF Due, tables
<1>10. Stage(s)'
  BY <1>1, <1>5, <1>6, <1>8, <1>9 DEF Stage, Effectless, IsRetention
<1> QED
  BY <1>8, <1>10

\* A batch of rows that are due is no larger than the limit.
LEMMA BatchFits ==
  ASSUME IsFiniteSet(Stored), NEW cutoff, NEW ids \in SUBSET Due(cutoff), NEW limit \in Nat,
         NEW batch \in Batches(ids, limit)
  PROVE  batch \subseteq ids /\ Cardinality(batch) <= limit
<1>1. ids \subseteq Stored
  BY DEF Due, Stored
<1>2. IsFiniteSet(ids) /\ Cardinality(ids) \in Nat
  BY <1>1, FS_Subset, FS_CardinalityType
<1> QED
  BY <1>2 DEF Batches

\* The UPDATE chooses its batch from the snapshot.
LEMMA UpdateKept ==
  ASSUME PgInv, NEW s \in Sessions, Update(s)
  PROVE  PgInv'
<1>1. /\ pc[s] = "update" /\ IsRetention(s) /\ Effectless(s)
      /\ call[s].outcome = "retention_expired" /\ tx[s].snapshot \subseteq Due(call[s].cutoff)
      /\ UNCHANGED tables /\ UNCHANGED answers /\ calls' \in 0..MaxCalls /\ faults' \in 0..MaxFaults
  BY SessionFacts, NothingCounted DEF Update, At, TablesUnchanged, SessionInv, Stage
<1>2. pc[s] \in InTransaction \ {"lock"} /\ call[s].limit \in Nat
  BY <1>1, SessionFacts, ArchiveAssumption DEF InTransaction, ArchiveAssumption
<1>3. PICK batch \in Batches(tx[s].snapshot \ expired, call[s].limit) :
        batch \cap Picked(s) = {} /\ tx' = [tx EXCEPT ![s].batch = batch]
  BY DEF Update
<1> DEFINE t == [tx[s] EXCEPT !.batch = batch]
<1>4. Moves(s, "insertRequest", [call[s] EXCEPT !.outcome = call[s].outcome], t)
  BY <1>3, SamePlan, SessionFacts DEF Update, Moves, Goto
<1>5. "insertRequest" \in InTransaction \ {"lock"}
  BY DEF InTransaction
<1>6. batch \subseteq Due(call[s].cutoff) \ expired /\ Cardinality(batch) <= call[s].limit
  <2>1. tx[s].snapshot \ expired \in SUBSET Due(call[s].cutoff)
    BY <1>1
  <2> QED
    BY <1>2, <1>3, <2>1, BatchFits DEF PgInv, TablesInv
<1>7. /\ t \in PgTransactions /\ t.locks = tx[s].locks /\ t.claim = tx[s].claim
      /\ t.evidence = tx[s].evidence /\ t.inserts = tx[s].inserts /\ t.batch = batch
  BY <1>6, SessionFacts DEF PgTransactions, Due
<1> HIDE DEF t
<1>8. Alone(s, t)
  <2>1. \A o \in Sessions \ {s} : batch \cap tx[o].batch = {}
    BY <1>3 DEF Picked
  <2> QED
    BY <1>7, <2>1 DEF Alone, PgInv, Apart
<1>9. /\ pc'[s] = "insertRequest" /\ tx'[s] = t /\ call'[s].outcome = call[s].outcome
      /\ call'[s].payload = call[s].payload /\ call'[s].cutoff = call[s].cutoff
      /\ call'[s].limit = call[s].limit
      /\ Stage(s)' => PgInv'
  BY <1>1, <1>2, <1>4, <1>5, <1>7, <1>8, SamePlan, GoesOnKept
<1>10. Expiring(s)' /\ tx'[s].claim = None
  BY <1>1, <1>6, <1>7, <1>9 DEF Expiring, Effectless, IsRetention, Due, tables
<1>11. Stage(s)'
  BY <1>9, <1>10 DEF Stage
<1> QED
  BY <1>9, <1>11

\* The audit row is inserted.
LEMMA AuditRowKept ==
  ASSUME PgInv, NEW s \in Sessions, AuditRow(s)
  PROVE  PgInv'
<1> DEFINE t == [tx[s] EXCEPT !.audited = TRUE]
<1>1. /\ pc[s] = "audit" /\ Stage(s)
      /\ UNCHANGED tables /\ UNCHANGED answers /\ calls' \in 0..MaxCalls /\ faults' \in 0..MaxFaults
  BY SessionFacts, NothingCounted DEF AuditRow, At, TablesUnchanged, SessionInv
<1>2. pc[s] \in InTransaction \ {"lock"}
  BY <1>1 DEF InTransaction
<1>3. Moves(s, "commit", [call[s] EXCEPT !.outcome = call[s].outcome], t)
  BY SamePlan, SessionFacts DEF AuditRow, Moves, Goto
<1>4. "commit" \in InTransaction \ {"lock"}
  BY DEF InTransaction
<1>5. /\ t \in PgTransactions /\ t.locks = tx[s].locks /\ t.claim = tx[s].claim
      /\ t.batch = tx[s].batch /\ t.evidence = tx[s].evidence /\ t.inserts = tx[s].inserts
      /\ t.audited
  BY SessionFacts DEF PgTransactions
<1>6. Alone(s, t)
  BY <1>5, HoldingsKept
<1> HIDE DEF t
<1>7. /\ pc'[s] = "commit" /\ tx'[s] = t /\ call'[s].outcome = call[s].outcome
      /\ call'[s].payload = call[s].payload /\ call'[s].key = call[s].key
      /\ call'[s].cutoff = call[s].cutoff /\ call'[s].limit = call[s].limit
      /\ Stage(s)' => PgInv'
  BY <1>1, <1>2, <1>3, <1>4, <1>5, <1>6, SamePlan, GoesOnKept
<1>8. Stage(s)'
  BY <1>1, <1>5, <1>7 DEF Stage, IsRetention, Effectless, Duplicating, Inserting, Conflicting,
     Expiring, Claims, Replays, ReferencesAreLocal, Due, tables
<1> QED
  BY <1>7, <1>8

(***************************************************************************)
(* The call ends                                                           *)
(***************************************************************************)

\* The call has no transaction any more, and answers what it can back.
LEMMA AnswerPlanned ==
  ASSUME PgInv, NEW s \in Sessions, At(s, "recover"), NEW o \in PgOutcomes,
         ~IsRetention(s) => Backed(call[s].payload, o),
         Goto(s, "answer"), Plan(s, o), UNCHANGED tx,
         UNCHANGED tables, UNCHANGED answers, calls' \in 0..MaxCalls, faults' \in 0..MaxFaults
  PROVE  PgInv'
<1> DEFINE c == [call[s] EXCEPT !.outcome = o]
<1>1. /\ c \in PgCalls /\ c.payload = call[s].payload /\ c.key = call[s].key
      /\ c.cutoff = call[s].cutoff /\ c.limit = call[s].limit /\ c.outcome = o
  BY SessionFacts DEF PgCalls
<1>2. pc[s] = "recover" /\ tx[s] = NoTx
  BY SessionFacts DEF At, SessionInv, Locked, InTransaction
<1>3. Moves(s, "answer", c, tx[s]) /\ "answer" \in PgSteps
  BY SessionFacts DEF Goto, Plan, Moves, PgSteps
<1>4. Alone(s, tx[s])
  BY <1>2, HoldingsKept
<1>5. pc'[s] = "answer" /\ call'[s] = c /\ tx'[s] = NoTx
  BY <1>1, <1>2, <1>3, SessionFacts, MoveEffect
<1> HIDE DEF c
<1>6. Called(s)'
  BY <1>1, <1>2, <1>5, SessionFacts DEF SessionInv, Called, IsRetention
<1>7. Locked(s)' /\ Stage(s)'
  BY <1>5 DEF Locked, Stage, InTransaction
<1>8. Told(s)'
  BY <1>1, <1>5 DEF Told, IsRetention, Backed, tables
<1> QED
  BY <1>1, <1>3, <1>4, <1>6, <1>7, <1>8, SessionFacts, QuietMove DEF SessionInv

\* A row that proves a call was committed backs what the call then answers.
LEMMA RecoveredIsBacked ==
  ASSUME PgInv, NEW s \in Sessions, At(s, "recover")
  PROVE  Recovered(s) \in PgOutcomes /\ (~IsRetention(s) => Backed(call[s].payload, Recovered(s)))
<1> DEFINE p == call[s].payload
           k == call[s].key
<1>1. CASE IsRetention(s)
  BY <1>1 DEF Recovered, PgOutcomes
<1>2. CASE ~IsRetention(s)
  <2>1. p \in Payloads /\ k \in Keys
    BY <1>2, SessionFacts DEF At
  <2>2. Replays(p, k) =>
          /\ requests[k].outcome = "stored" => events[p.id] = p
          /\ requests[k].outcome # "stored" => p \in conflicts
    BY <2>1 DEF PgInv, TablesInv, RequestsAreBacked
  <2>3. CASE ~Replays(p, k)
    BY <1>2, <2>3 DEF Recovered, PgOutcomes, Backed
  <2>4. CASE Replays(p, k) /\ requests[k].outcome = "stored"
    <3>1. Recovered(s) = "duplicate"
      BY <1>2, <2>4 DEF Recovered
    <3> QED
      BY <2>2, <2>4, <3>1 DEF PgOutcomes, Backed
  <2>5. CASE Replays(p, k) /\ requests[k].outcome # "stored"
    <3>1. Recovered(s) = "conflict_visible"
      BY <1>2, <2>5 DEF Recovered
    <3> QED
      BY <2>2, <2>5, <3>1 DEF PgOutcomes, Backed
  <2> QED
    BY <2>3, <2>4, <2>5
<1> QED
  BY <1>1, <1>2

\* The recovery read answers what it has found.
LEMMA RecoverKept ==
  ASSUME PgInv, NEW s \in Sessions, Recover(s)
  PROVE  PgInv'
BY RecoveredIsBacked, NothingCounted, AnswerPlanned DEF Recover, TablesUnchanged

\* The recovery read fails and the failure of the COMMIT is answered.
LEMMA RecoveryFailsKept ==
  ASSUME PgInv, NEW s \in Sessions, RecoveryFails(s)
  PROVE  PgInv'
<1>1. faults' \in 0..MaxFaults /\ calls' \in 0..MaxCalls
  BY PostgresAssumption DEF PostgresAssumption, PgInv, PostgresTypeOK, RecoveryFails
<1> QED
  BY <1>1, AnswerPlanned DEF RecoveryFails, TablesUnchanged, PgOutcomes, Backed

\* The answer is handed to the caller: it is backed by the tables.
LEMMA AnswerKept ==
  ASSUME PgInv, NEW s \in Sessions, Answer(s)
  PROVE  PgInv'
<1> DEFINE a == [payload |-> call[s].payload, key |-> call[s].key,
                 outcome |-> call[s].outcome, landed |-> call[s].landed]
<1>1. pc[s] = "answer" /\ tx[s] = NoTx /\ Told(s)
  BY SessionFacts DEF Answer, At, SessionInv, Locked, InTransaction
<1>2. Moves(s, "idle", NoCall, tx[s]) /\ "idle" \in PgSteps
  BY SessionFacts DEF Answer, Goto, Moves, PgSteps
<1>3. Alone(s, tx[s])
  BY <1>1, HoldingsKept
<1>4. pc'[s] = "idle" /\ tx'[s] = NoTx
  BY <1>1, <1>2, SessionFacts, NoTxTyped, MoveEffect
<1>5. SessionInv(s)'
  BY <1>4 DEF SessionInv, Called, Locked, Stage, Told, InTransaction
<1>6. answers' = answers \cup {a} /\ a \in PgAnswers /\ UNCHANGED tables
      /\ calls' = calls /\ faults' = faults
  BY SessionFacts DEF Answer, TablesUnchanged, PgAnswers, PgCalls
<1>7. a.payload # None => Backed(a.payload, a.outcome)
  BY <1>1 DEF Told, IsRetention
<1>8. answers' \subseteq PgAnswers /\ AnswersAreBacked'
  BY <1>6, <1>7 DEF AnswersAreBacked, Backed, PgInv, PostgresTypeOK, tables
<1>9. calls' \in 0..MaxCalls /\ faults' \in 0..MaxFaults
  BY <1>6 DEF PgInv, PostgresTypeOK
<1> QED
  BY <1>2, <1>3, <1>5, <1>6, <1>8, <1>9, SessionFacts, NoTxTyped, QuietMove

(***************************************************************************)
(* COMMIT                                                                  *)
(***************************************************************************)

\* Commits of one call, in the words of LooseArchive.
CommitsWrite(p, k, outcome) ==
  \/ outcome = "stored" /\ Store(p, k)
  \/ outcome = "conflict_visible" /\ RecordConflict(p, k)
  \/ outcome = "duplicate" /\ Replay(p, k)
CommitsRetention(k, cutoff, limit, outcome) ==
  \/ outcome = "retention_expired" /\ Loose!ExpireDue(k, cutoff, limit)
  \/ outcome = "duplicate" /\ ReplayRetention(k, cutoff, limit)

\* What a call that commits knows.
LEMMA CommitFacts ==
  ASSUME PgInv, NEW s \in Sessions, At(s, "commit")
  PROVE  /\ tx[s].audited
         /\ \/ Duplicating(s)
            \/ Inserting(s) /\ Claims(s)
            \/ Expiring(s) /\ Claims(s)
            \/ Conflicting(s) /\ Claims(s)
            \/ Conflicting(s) /\ tx[s].claim = None /\ requests[call[s].key] # None
         /\ tx[s].locks = IF IsRetention(s) THEN {<<"retention", call[s].key>>}
                          ELSE {<<"event", call[s].payload.id>>, <<"idempotency", call[s].key>>}
BY SessionFacts DEF SessionInv, Stage, Locked, At, InTransaction

\* The write of a transaction takes effect as a whole call at its COMMIT.
LEMMA WriteCommits ==
  ASSUME PgInv, NEW s \in Sessions, At(s, "commit"), Apply(s), ~IsRetention(s)
  PROVE  CommitsWrite(call[s].payload, call[s].key, call[s].outcome)
<1> DEFINE p == call[s].payload
           k == call[s].key
<1>1. /\ p \in Payloads /\ p.id \in Ids /\ k \in Keys /\ p # None /\ k # None
      /\ tx[s].audited
  BY SessionFacts, CommitFacts, PostgresAssumption DEF At, PostgresAssumption, IsRetention
<1>2. audit' = audit \cup {<<Operation(p), p.id>>}
  BY <1>1 DEF Apply, IsRetention
<1>3. CASE Duplicating(s)
  <2>1. Outcome(p, k) = "duplicate" /\ call[s].outcome = "duplicate"
    BY <1>3 DEF Duplicating, Outcome
  <2>2. UNCHANGED <<events, requests, conflicts, expired>>
    BY <1>3 DEF Duplicating, Effectless, Apply
  <2> QED
    BY <1>2, <2>1, <2>2 DEF CommitsWrite, Replay, Audited
<1>4. CASE Inserting(s) /\ Claims(s)
  <2>1. Outcome(p, k) = "stored" /\ call[s].outcome = "stored"
    BY <1>4 DEF Inserting, Claims, Outcome, Replays
  <2>2. /\ events' = [events EXCEPT ![p.id] = p]
        /\ requests' = [requests EXCEPT ![k] = WriteRow(p, "stored")]
        /\ UNCHANGED <<conflicts, expired>>
    BY <1>1, <1>4 DEF Inserting, Claims, Apply, RequestRow
  <2> QED
    BY <1>2, <2>1, <2>2 DEF CommitsWrite, Store, Audited
<1>5. CASE Conflicting(s)
  <2>1. Outcome(p, k) = "conflict_visible" /\ call[s].outcome = "conflict_visible"
    BY <1>5 DEF Conflicting, Outcome
  <2>2. conflicts' = conflicts \cup {p} /\ UNCHANGED <<events, expired>>
    BY <1>1, <1>5 DEF Conflicting, Apply
  <2>3. KeepRequest(k, WriteRow(p, "conflict_visible"))
    <3>1. CASE Claims(s)
      BY <1>1, <1>5, <3>1 DEF Conflicting, Claims, Apply, RequestRow, KeepRequest
    <3>2. CASE tx[s].claim = None /\ requests[k] # None
      BY <3>2 DEF Apply, KeepRequest
    <3> QED
      BY <1>5, <3>1, <3>2, CommitFacts DEF Conflicting, Duplicating, Inserting, Expiring
  <2> QED
    BY <1>2, <2>1, <2>2, <2>3 DEF CommitsWrite, RecordConflict, Audited
<1> QED
  BY <1>3, <1>4, <1>5, CommitFacts DEF Expiring

\* The abstract specification counts as this one does.
LEMMA SameCardinality ==
  ASSUME NEW S PROVE Loose!Cardinality(S) = Cardinality(S)
BY DEF Loose!Cardinality, Cardinality

\* Retention takes effect as a whole call at its COMMIT.
LEMMA RetentionCommits ==
  ASSUME PgInv, NEW s \in Sessions, At(s, "commit"), Apply(s), IsRetention(s)
  PROVE  CommitsRetention(call[s].key, call[s].cutoff, call[s].limit, call[s].outcome)
<1> DEFINE k == call[s].key
           cutoff == call[s].cutoff
           limit == call[s].limit
<1>1. k \in Keys /\ k # None /\ tx[s].audited
  BY SessionFacts, CommitFacts, PostgresAssumption DEF At, PostgresAssumption
<1>2. audit' = audit \cup {<<"apply_retention", None>>}
  BY <1>1 DEF Apply
<1>3. CASE Duplicating(s)
  <2>1. requests[k] = RetentionRow(cutoff, limit) /\ call[s].outcome = "duplicate"
    BY <1>3 DEF Duplicating
  <2>2. UNCHANGED <<events, requests, conflicts, expired>>
    BY <1>3 DEF Duplicating, Effectless, Apply
  <2> QED
    BY <1>2, <2>1, <2>2 DEF CommitsRetention, ReplayRetention
<1>4. CASE Expiring(s) /\ Claims(s)
  <2>1. requests[k] = None /\ requests' = [requests EXCEPT ![k] = RetentionRow(cutoff, limit)]
        /\ call[s].outcome = "retention_expired"
    BY <1>1, <1>4 DEF Expiring, Claims, Apply, RequestRow
  <2>2. UNCHANGED <<events, conflicts>> /\ expired' = expired \cup tx[s].batch
    BY <1>4 DEF Expiring, Apply
  <2>3. /\ tx[s].batch \in SUBSET (Ids \ expired) /\ Cardinality(tx[s].batch) <= limit
        /\ \A i \in tx[s].batch : /\ events[i] # None /\ events[i].kind # "conflict"
                                  /\ events[i].expires <= cutoff
    BY <1>4 DEF Expiring, Due
  <2>4. \E batch \in SUBSET (Ids \ expired) :
          /\ Cardinality(batch) <= limit
          /\ \A i \in batch : /\ events[i] # None /\ events[i].kind # "conflict"
                             /\ events[i].expires <= cutoff
          /\ expired' = expired \cup batch
    BY <2>2, <2>3
  <2>5. Loose!ExpireDue(k, cutoff, limit)
    BY <1>2, <2>1, <2>2, <2>4, SameCardinality
    DEF Loose!ExpireDue, Loose!RetentionRow, RetentionRow, Loose!Ids, Ids
  <2> QED
    BY <2>1, <2>5 DEF CommitsRetention
<1> QED
  BY <1>3, <1>4, CommitFacts DEF Inserting, Conflicting

\* The tables only grow, by what the transaction held.
Grows(s) ==
  /\ \A i \in Ids : events[i] # None => events'[i] = events[i]
  /\ \A k \in Keys : requests[k] # None => requests'[k] = requests[k]
  /\ \A i \in Ids : events'[i] # events[i] =>
       ~IsRetention(s) /\ i = call[s].payload.id /\ Inserting(s)
  /\ \A k \in Keys : requests'[k] # requests[k] =>
       tx[s].claim = k /\ k = call[s].key /\ requests'[k] = RequestRow(s)
  /\ conflicts \subseteq conflicts'
  /\ expired' = expired \cup tx[s].batch
  /\ RequestRow(s) \in Rows

\* A COMMIT adds what its transaction has written and changes no other row.
LEMMA CommitGrows ==
  ASSUME PgInv, NEW s \in Sessions, At(s, "commit"), Apply(s)
  PROVE  Grows(s)
<1>1. conflicts \subseteq conflicts' /\ expired' = expired \cup tx[s].batch
  BY DEF Apply
<1>2. /\ \A i \in Ids : events[i] # None => events'[i] = events[i]
      /\ \A i \in Ids : events'[i] # events[i] =>
           ~IsRetention(s) /\ i = call[s].payload.id /\ Inserting(s)
  <2>1. CASE tx[s].inserts = None
    BY <2>1 DEF Apply
  <2>2. CASE tx[s].inserts # None
    <3>1. Inserting(s)
      BY <2>2, CommitFacts DEF Duplicating, Effectless, Expiring, Conflicting
    <3>2. /\ events' = [events EXCEPT ![call[s].payload.id] = call[s].payload]
          /\ events[call[s].payload.id] = None
      BY <2>2, <3>1 DEF Inserting, Apply
    <3>3. events \in [Ids -> Payloads \cup {None}]
      BY DEF PgInv, PostgresTypeOK, ArchiveTypeOK
    <3>4. \A i \in Ids : i # call[s].payload.id => events'[i] = events[i]
      BY <3>2, <3>3
    <3> QED
      BY <3>1, <3>2, <3>4 DEF Inserting
  <2> QED
    BY <2>1, <2>2
<1>3. /\ \A k \in Keys : requests[k] # None => requests'[k] = requests[k]
      /\ \A k \in Keys : requests'[k] # requests[k] =>
           tx[s].claim = k /\ k = call[s].key /\ requests'[k] = RequestRow(s)
  <2>1. CASE tx[s].claim = None
    BY <2>1 DEF Apply
  <2>2. CASE tx[s].claim # None
    <3>1. Claims(s)
      BY <2>2, CommitFacts DEF Duplicating, Effectless
    <3>2. requests' = [requests EXCEPT ![call[s].key] = RequestRow(s)]
      BY <2>2, <3>1 DEF Claims, Apply
    <3>3. requests \in [Keys -> Rows \cup {None}]
      BY DEF PgInv, PostgresTypeOK, ArchiveTypeOK
    <3> QED
      BY <3>1, <3>2, <3>3 DEF Claims
  <2> QED
    BY <2>1, <2>2
<1>4. RequestRow(s) \in Rows
  BY SessionFacts, RowsTyped DEF RequestRow, At
<1> QED
  BY <1>1, <1>2, <1>3, <1>4 DEF Grows

\* A row of a request of retention replays no write.
LEMMA RetentionReplaysNothing ==
  ASSUME NEW c, NEW l, NEW p
  PROVE  RetentionRow(c, l).op # Operation(p)
BY DEF RetentionRow, Operation

\* What another session knows of the tables stays true: what the COMMIT changes
\* is under a lock, a claim or a batch of its own.
LEMMA OthersKept ==
  ASSUME PgInv, NEW s \in Sessions, At(s, "commit"), Grows(s), NEW o \in Sessions \ {s},
         pc'[o] = pc[o], call'[o] = call[o], tx'[o] = tx[o]
  PROVE  SessionInv(o)'
<1> DEFINE p == call[o].payload
           k == call[o].key
<1>1. SessionInv(o) /\ Apart(o, s)
  BY DEF PgInv
<1>2. /\ pc[o] # "idle" /\ ~IsRetention(o) => p \in Payloads /\ p.id \in Ids /\ k \in Keys
      /\ pc[o] # "idle" /\ IsRetention(o) => k \in Keys
      /\ p \in Payloads => p # None
  BY SessionFacts, ArchiveAssumption DEF ArchiveAssumption
<1>3. Called(o)' /\ Locked(o)'
  BY <1>1 DEF SessionInv, Called, Locked, IsRetention
<1>4. Told(o)'
  BY <1>1, <1>2 DEF SessionInv, Told, IsRetention, Backed, Grows
<1>5. ASSUME pc[o] \in InTransaction \ {"lock"}, ~IsRetention(o)
      PROVE  /\ events'[p.id] = events[p.id]
             /\ Replays(p, k)' = Replays(p, k)
  <2>1. tx[o].locks = {<<"event", p.id>>, <<"idempotency", k>>}
    BY <1>1, <1>5 DEF SessionInv, Locked
  <2>2. p.id \in Ids /\ k \in Keys
    BY <1>2, <1>5 DEF InTransaction
  <2>3. events'[p.id] = events[p.id]
    <3>1. SUFFICES ASSUME events'[p.id] # events[p.id] PROVE FALSE
      OBVIOUS
    <3>2. ~IsRetention(s) /\ p.id = call[s].payload.id
      BY <2>2, <3>1 DEF Grows
    <3>3. <<"event", p.id>> \in tx[s].locks
      BY <3>2, CommitFacts
    <3> QED
      BY <1>1, <2>1, <3>3 DEF Apart
  <2>4. requests'[k] = requests[k] \/ (IsRetention(s) /\ requests[k] = None /\ requests'[k] = RequestRow(s))
    <3>1. SUFFICES ASSUME requests'[k] # requests[k], ~IsRetention(s) PROVE FALSE
      BY <2>2 DEF Grows
    <3>2. k = call[s].key
      BY <2>2, <3>1 DEF Grows
    <3>3. <<"idempotency", k>> \in tx[s].locks
      BY <3>1, <3>2, CommitFacts
    <3> QED
      BY <1>1, <2>1, <3>3 DEF Apart
  <2>5. Replays(p, k)' = Replays(p, k)
    BY <2>4, RetentionReplaysNothing DEF Replays, RequestRow
  <2> QED
    BY <2>3, <2>5
<1>6. ASSUME pc[o] # "idle", Claims(o)
      PROVE  Claims(o)'
  <2>1. k \in Keys /\ k # None /\ tx[o].claim = k
    BY <1>2, <1>6, PostgresAssumption DEF Claims, PostgresAssumption
  <2>2. tx[s].claim # k
    BY <1>1, <2>1 DEF Apart
  <2>3. requests'[k] = requests[k]
    BY <2>1, <2>2 DEF Grows
  <2> QED
    BY <1>6, <2>3 DEF Claims
<1>7. pc[o] # "idle" /\ ~IsRetention(o) /\ ReferencesAreLocal(p) => ReferencesAreLocal(p)'
  BY <1>2, ArchiveAssumption DEF ArchiveAssumption, ReferencesAreLocal, Grows
<1>8. Due(call[o].cutoff) \subseteq Due(call[o].cutoff)'
  BY DEF Due, Grows
<1>9. ASSUME pc[o] \in {"audit", "commit"}, Duplicating(o)
      PROVE  Duplicating(o)'
  <2>1. CASE IsRetention(o)
    <3>1. requests[k] \in Rows /\ requests[k] # None
      BY <1>9, <2>1, SessionFacts, RowsTyped, PostgresAssumption DEF PostgresAssumption, Duplicating
    <3>2. requests'[k] = requests[k]
      BY <1>2, <1>9, <2>1, <3>1 DEF Grows
    <3> QED
      BY <1>9, <2>1, <3>2 DEF Duplicating, Effectless, IsRetention
  <2>2. CASE ~IsRetention(o)
    BY <1>5, <1>9, <2>2 DEF Duplicating, Effectless, IsRetention, InTransaction, Replays
  <2> QED
    BY <2>1, <2>2
<1>10. ASSUME pc[o] \in {"insertRequest", "audit", "commit"}, Inserting(o)
       PROVE  Inserting(o)'
  BY <1>5, <1>7, <1>10 DEF Inserting, IsRetention, InTransaction, ReferencesAreLocal
<1>11. ASSUME pc[o] \in {"conflictRequest", "audit", "commit"}, Conflicting(o)
       PROVE  Conflicting(o)'
  BY <1>5, <1>11 DEF Conflicting, IsRetention, InTransaction, Replays
<1>12. ASSUME Expiring(o)
       PROVE  Expiring(o)'
  <2>1. tx[o].batch \subseteq Due(call[o].cutoff)' \ expired'
    BY <1>1, <1>8, <1>12 DEF Expiring, Apart, Grows
  <2> QED
    BY <1>12, <2>1 DEF Expiring, IsRetention, Due
<1>13. ASSUME pc[o] # "idle", k \in Keys, requests[k] # None
       PROVE  requests'[k] # None
  BY <1>13 DEF Grows
<1>14. Stage(o)
  BY <1>1 DEF SessionInv
<1>15. pc[o] = "insertEvent" => ReferencesAreLocal(p)'
  BY <1>7, <1>14 DEF Stage
<1>16. pc[o] = "conflictRow" => events'[p.id] # None /\ ~Replays(p, k)'
  BY <1>5, <1>14 DEF Stage, InTransaction
<1>17. pc[o] \in {"audit", "commit"} =>
         \/ Duplicating(o)'
         \/ (Inserting(o) \/ Expiring(o))' /\ Claims(o)'
         \/ Conflicting(o)' /\ (Claims(o)' \/ (tx[o].claim = None /\ requests'[k] # None))
  <2> SUFFICES ASSUME pc[o] \in {"audit", "commit"}
               PROVE  \/ Duplicating(o)'
                      \/ (Inserting(o) \/ Expiring(o))' /\ Claims(o)'
                      \/ /\ Conflicting(o)'
                         /\ Claims(o)' \/ (tx[o].claim = None /\ requests'[k] # None)
    OBVIOUS
  <2>1. k \in Keys
    BY <1>2
  <2>2. \/ Duplicating(o)
        \/ (Inserting(o) \/ Expiring(o)) /\ Claims(o)
        \/ Conflicting(o) /\ (Claims(o) \/ (tx[o].claim = None /\ requests[k] # None))
    BY <1>14 DEF Stage
  <2> QED
    BY <1>6, <1>9, <1>10, <1>11, <1>12, <1>13, <2>1, <2>2
<1>18. Stage(o)'
  BY <1>8, <1>10, <1>11, <1>12, <1>14, <1>15, <1>16, <1>17
  DEF Stage, IsRetention, Effectless
<1> QED
  BY <1>3, <1>4, <1>18 DEF SessionInv

\* The tables are well typed after a COMMIT.
LEMMA CommitTyped ==
  ASSUME PgInv, NEW s \in Sessions, At(s, "commit"), Apply(s), Grows(s)
  PROVE  ArchiveTypeOK'
<1>1. ArchiveTypeOK
  BY DEF PgInv, TablesInv
<1>2. CASE ~IsRetention(s)
  <2>1. call[s].payload \in Payloads /\ call[s].key \in KeysFor[call[s].payload.id]
    BY <1>2, SessionFacts DEF At
  <2>2. ArchiveNext
    BY <1>2, <2>1, WriteCommits DEF CommitsWrite, ArchiveNext
  <2> QED
    BY <1>1, <2>2, TypePreserved
<1>3. CASE IsRetention(s)
  <2>1. events' = events /\ conflicts' = conflicts
        /\ audit' \subseteq audit \cup {<<"apply_retention", None>>}
    BY <1>3, CommitFacts
    DEF Apply, Duplicating, Effectless, Inserting, Conflicting, Expiring
  <2>2. tx[s].batch \subseteq {i \in Ids : events[i] # None}
    BY <1>3, CommitFacts DEF Duplicating, Effectless, Inserting, Conflicting, Expiring, Due
  <2>3. requests' \in [Keys -> Rows \cup {None}]
    BY <1>1, SessionFacts DEF Apply, Grows, ArchiveTypeOK
  <2> QED
    BY <1>1, <2>1, <2>2, <2>3 DEF ArchiveTypeOK, Grows
<1> QED
  BY <1>2, <1>3

\* One event more, at most, is stored.
LEMMA CommitFinite ==
  ASSUME PgInv, NEW s \in Sessions, Grows(s)
  PROVE  IsFiniteSet(Stored')
<1>1. IsFiniteSet(Stored \cup {call[s].payload.id})
  BY FS_AddElement DEF PgInv, TablesInv
<1>2. Stored' \subseteq Stored \cup {call[s].payload.id}
  BY DEF Stored, Grows
<1> QED
  BY <1>1, <1>2, FS_Subset

\* The row of the request that is committed tells what became of the payload.
LEMMA CommitBacked ==
  ASSUME PgInv, NEW s \in Sessions, At(s, "commit"), Apply(s), Grows(s)
  PROVE  RequestsAreBacked'
<1> DEFINE p == call[s].payload
           k == call[s].key
<1>0. RequestsAreBacked /\ None \notin Payloads /\ None \notin Rows
  BY ArchiveAssumption, PostgresAssumption
  DEF ArchiveAssumption, PostgresAssumption, PgInv, TablesInv
<1>1. ~IsRetention(s) => p \in Payloads /\ p.id \in Ids /\ k \in KeysFor[p.id] /\ k \in Keys
  BY SessionFacts DEF At
<1>2. ASSUME NEW l \in Keys, NEW q \in Payloads, Replays(q, l)'
      PROVE  /\ requests'[l].outcome = "stored" => events'[q.id] = q
             /\ requests'[l].outcome # "stored" => q \in conflicts' /\ ~OneKeyPerEvent
  <2>1. CASE requests'[l] = requests[l]
    <3>1. Replays(q, l)
      BY <1>2, <2>1 DEF Replays
    <3>2. q.id \in Ids /\ q # None
      BY <1>0 DEF Ids
    <3> QED
      BY <1>0, <2>1, <3>1, <3>2 DEF RequestsAreBacked, Grows
  <2>2. CASE requests'[l] # requests[l]
    <3>1. tx[s].claim = l /\ k = l /\ requests'[l] = RequestRow(s) /\ l # None
      BY <2>2, PostgresAssumption DEF Grows, PostgresAssumption
    <3>2. ~IsRetention(s)
      BY <1>2, <3>1, RetentionReplaysNothing DEF Replays, RequestRow
    <3>3. q = p
      BY <1>2, <3>1, <3>2 DEF Replays, RequestRow, WriteRow
    <3>4. CASE Inserting(s)
      <4>1. events'[p.id] = p /\ RequestRow(s).outcome = "stored"
        BY <1>0, <1>1, <3>2, <3>4 DEF Inserting, Apply, RequestRow, WriteRow, PgInv, TablesInv,
           ArchiveTypeOK
      <4> QED
        BY <3>1, <3>3, <4>1
    <3>5. CASE Conflicting(s) /\ Claims(s)
      <4>1. p \in conflicts' /\ RequestRow(s).outcome = "conflict_visible"
        BY <1>0, <1>1, <3>2, <3>5 DEF Conflicting, Apply, RequestRow, WriteRow
      <4>2. p.id \in Stored /\ requests[k] = None
        BY <1>1, <3>2, <3>5 DEF Stored, Conflicting, Claims
      <4>3. ~OneKeyPerEvent
        BY <1>0, <1>1, <3>2, <4>2 DEF RequestsAreBacked
      <4> QED
        BY <3>1, <3>3, <4>1, <4>3
    <3> QED
      BY <3>1, <3>2, <3>4, <3>5, CommitFacts DEF Duplicating, Effectless, Expiring
  <2> QED
    BY <2>1, <2>2
<1>3. ASSUME OneKeyPerEvent, NEW i \in Stored', NEW l \in KeysFor[i]
      PROVE  requests'[l] # None
  <2>1. i \in Ids /\ l \in Keys
    BY ArchiveAssumption DEF ArchiveAssumption, Stored
  <2>2. CASE i \in Stored
    BY <1>0, <1>3, <2>1, <2>2 DEF RequestsAreBacked, Grows
  <2>3. CASE i \notin Stored
    <3>1. ~IsRetention(s) /\ i = p.id /\ Inserting(s)
      BY <2>1, <2>3, <1>3 DEF Stored, Grows
    <3>2. Claims(s)
      BY <3>1, CommitFacts DEF Duplicating, Effectless, Inserting, Expiring, Conflicting,
         IsRetention
    <3>3. l = k
      BY <1>1, <1>3, <2>1, <3>1 DEF OneKeyPerEvent
    <3>4. requests'[k] = RequestRow(s)
      BY <1>1, <3>1, <3>2, PostgresAssumption
      DEF Claims, Apply, PgInv, TablesInv, ArchiveTypeOK, PostgresAssumption
    <3> QED
      BY <1>0, <3>3, <3>4 DEF Grows
  <2> QED
    BY <2>2, <2>3
<1> QED
  BY <1>2, <1>3 DEF RequestsAreBacked

\* What the call answers when it has committed.
LEMMA CommitTold ==
  ASSUME PgInv, NEW s \in Sessions, At(s, "commit"), Apply(s), Grows(s), ~IsRetention(s),
         NEW p, NEW outcome, p = call[s].payload, outcome = call[s].outcome
  PROVE  Backed(p, outcome)'
<1> DEFINE k == call[s].key
<1>1. p \in Payloads /\ p.id \in Ids /\ k \in Keys /\ p # None
  BY SessionFacts DEF At, IsRetention
<1>2. CASE Duplicating(s)
  <2>1. Replays(p, k) /\ call[s].outcome = "duplicate"
    BY <1>2 DEF Duplicating
  <2>2. events[p.id] = p \/ (p \in conflicts /\ ~OneKeyPerEvent)
    BY <1>1, <2>1 DEF PgInv, TablesInv, RequestsAreBacked
  <2> QED
    BY <1>1, <2>1, <2>2 DEF Backed, Grows
<1>3. CASE Inserting(s)
  BY <1>1, <1>3 DEF Inserting, Apply, Backed, PgInv, TablesInv, ArchiveTypeOK
<1>4. CASE Conflicting(s)
  BY <1>1, <1>4 DEF Conflicting, Apply, Backed
<1> QED
  BY <1>2, <1>3, <1>4, CommitFacts DEF Expiring

\* A COMMIT with this effect keeps the invariant, acknowledged or not.
LEMMA CommitKept ==
  ASSUME PgInv, NEW s \in Sessions, At(s, "commit"), Apply(s), NEW step \in {"answer", "recover"},
         Moves(s, step, [call[s] EXCEPT !.landed = TRUE], NoTx),
         UNCHANGED answers, calls' \in 0..MaxCalls, faults' \in 0..MaxFaults
  PROVE  PgInv'
<1> DEFINE c == [call[s] EXCEPT !.landed = TRUE]
<1>1. /\ c \in PgCalls /\ c.payload = call[s].payload /\ c.key = call[s].key
      /\ c.cutoff = call[s].cutoff /\ c.limit = call[s].limit /\ c.outcome = call[s].outcome
  BY SessionFacts DEF PgCalls
<1>2. step \in PgSteps /\ step \notin InTransaction /\ step # "idle" /\ pc[s] = "commit"
  BY DEF PgSteps, InTransaction, At
<1>3. Moves(s, step, c, NoTx)
  OBVIOUS
<1> HIDE DEF c
<1>4. /\ SessionsTyped'
      /\ pc'[s] = step /\ call'[s] = c /\ tx'[s] = NoTx
      /\ \A o \in Sessions \ {s} : pc'[o] = pc[o] /\ call'[o] = call[o] /\ tx'[o] = tx[o]
  BY <1>1, <1>2, <1>3, NoTxTyped, MoveEffect
<1>5. Grows(s)
  BY CommitGrows
<1>6. ASSUME NEW o \in Sessions \ {s} PROVE SessionInv(o)'
  BY <1>4, <1>5, OthersKept
<1>7. SessionInv(s)'
  <2>1. Called(s)'
    BY <1>1, <1>2, <1>4, SessionFacts DEF SessionInv, Called, IsRetention
  <2>2. Locked(s)' /\ Stage(s)'
    BY <1>2, <1>4 DEF Locked, Stage, InTransaction
  <2>3. Told(s)'
    BY <1>1, <1>4, <1>5, CommitTold DEF Told, IsRetention, Backed
  <2> QED
    BY <2>1, <2>2, <2>3 DEF SessionInv
<1>8. \A a, b \in Sessions : a # b => Apart(a, b)'
  BY <1>4 DEF PgInv, Apart, NoTx
<1>9. TablesInv'
  BY <1>5, CommitTyped, CommitFinite, CommitBacked DEF TablesInv
<1>10. AnswersAreBacked'
  <2> SUFFICES ASSUME NEW a \in answers, a.payload # None
               PROVE  Backed(a.payload, a.outcome)'
    BY DEF AnswersAreBacked
  <2>1. a.payload \in Payloads /\ a.payload.id \in Ids
    BY DEF PgInv, PostgresTypeOK, PgAnswers, Ids
  <2>2. Backed(a.payload, a.outcome)
    BY DEF PgInv, AnswersAreBacked
  <2> QED
    BY <1>5, <2>1, <2>2 DEF Backed, Grows
<1>11. PostgresTypeOK'
  BY <1>4, <1>9 DEF PostgresTypeOK, TablesInv, PgInv
<1> QED
  BY <1>6, <1>7, <1>8, <1>9, <1>10, <1>11 DEF PgInv

(***************************************************************************)
(* The invariant                                                           *)
(***************************************************************************)

\* Both forms of COMMIT keep the invariant.
LEMMA CommitActionsKept ==
  ASSUME PgInv, NEW s \in Sessions, Commit(s) \/ CommitUnacknowledged(s)
  PROVE  PgInv'
<1>1. CASE Commit(s)
  BY <1>1, NothingCounted, CommitKept DEF Commit, Goto, Moves
<1>2. CASE CommitUnacknowledged(s)
  <2>1. UNCHANGED answers /\ faults' \in 0..MaxFaults /\ calls' \in 0..MaxCalls
    BY <1>2, PostgresAssumption
    DEF PostgresAssumption, PgInv, PostgresTypeOK, CommitUnacknowledged
  <2> QED
    BY <1>2, <2>1, CommitKept DEF CommitUnacknowledged, Goto, Moves
<1> QED
  BY <1>1, <1>2

\* Empty tables and idle sessions.
LEMMA InitPgInv == PostgresInit => PgInv
<1> SUFFICES ASSUME PostgresInit PROVE PgInv
  OBVIOUS
<1> USE DEF PostgresInit, ArchiveInit
<1>1. PostgresTypeOK
  BY NoTxTyped, PostgresAssumption
  DEF PostgresAssumption, PostgresTypeOK, ArchiveTypeOK, SessionsTyped, PgSteps
<1>2. Stored = {}
  BY DEF Stored
<1>3. IsFiniteSet(Stored)
  BY <1>2, FS_EmptySet
<1>4. RequestsAreBacked
  BY <1>2 DEF RequestsAreBacked, Replays
<1>5. AnswersAreBacked
  BY DEF AnswersAreBacked
<1>6. ASSUME NEW s \in Sessions PROVE SessionInv(s)
  BY DEF SessionInv, Called, Locked, Stage, Told, InTransaction
<1>7. \A s, o \in Sessions : s # o => Apart(s, o)
  BY DEF Apart, NoTx
<1> QED
  BY <1>1, <1>3, <1>4, <1>5, <1>6, <1>7 DEF PgInv, TablesInv, PostgresTypeOK

\* The invariant speaks of the variables of the module only.
LEMMA PgStutter ==
  ASSUME PgInv, UNCHANGED pvars
  PROVE  PgInv'
<1>1. /\ pc' = pc /\ call' = call /\ tx' = tx /\ answers' = answers
      /\ calls' = calls /\ faults' = faults
      /\ events' = events /\ requests' = requests /\ conflicts' = conflicts
      /\ expired' = expired /\ audit' = audit
  BY DEF pvars, tables
<1>2. PostgresTypeOK' /\ AnswersAreBacked'
  BY <1>1
  DEF PgInv, PostgresTypeOK, ArchiveTypeOK, SessionsTyped, AnswersAreBacked, Backed
<1>3. TablesInv'
  BY <1>1 DEF PgInv, TablesInv, ArchiveTypeOK, Stored, RequestsAreBacked, Replays
<1>4. ASSUME NEW s \in Sessions PROVE SessionInv(s)'
  <2>1. SessionInv(s)
    BY DEF PgInv
  <2>2. Called(s)' /\ Locked(s)' /\ Told(s)'
    BY <1>1, <2>1 DEF SessionInv, Called, Locked, Told, IsRetention, Backed
  <2>3. Stage(s)'
    BY <1>1, <2>1 DEF SessionInv, Stage, IsRetention, Effectless, Duplicating, Inserting,
       Conflicting, Expiring, Claims, Replays, ReferencesAreLocal, Due
  <2> QED
    BY <2>2, <2>3 DEF SessionInv
<1>5. \A s, o \in Sessions : s # o => Apart(s, o)'
  BY <1>1 DEF PgInv, Apart
<1> QED
  BY <1>2, <1>3, <1>4, <1>5 DEF PgInv

\* Every step of every session keeps the invariant.
LEMMA NextPgInv == PgInv /\ [PostgresNext]_pvars => PgInv'
<1> SUFFICES ASSUME PgInv, [PostgresNext]_pvars PROVE PgInv'
  OBVIOUS
<1>1. ASSUME NEW s \in Sessions, CallStep(s) PROVE PgInv'
  BY <1>1, TakeLockKept, ReadKept, ReferencesKept, InsertEventKept, InsertRequestKept,
     ConflictRowKept, ConflictRequestKept, ReadRetentionKept, SnapshotKept, UpdateKept,
     AuditRowKept, CommitActionsKept, RecoverKept, AnswerKept DEF CallStep
<1>2. ASSUME NEW s \in Sessions, Fault(s) PROVE PgInv'
  BY <1>2, AuditFailsKept, CommitActionsKept, ConnectionBreaksKept, RecoveryFailsKept DEF Fault
<1>3. ASSUME NEW s \in Sessions, NEW p \in Payloads, NEW k \in KeysFor[p.id], BeginWrite(s, p, k)
      PROVE  PgInv'
  BY <1>3, BeginWriteKept
<1>4. ASSUME NEW s \in Sessions, NEW k \in Keys, NEW c \in Cutoffs, NEW l \in Limits,
             BeginRetention(s, k, c, l)
      PROVE  PgInv'
  BY <1>4, BeginRetentionKept
<1>5. CASE UNCHANGED pvars
  BY <1>5, PgStutter
<1> QED
  BY <1>1, <1>2, <1>3, <1>4, <1>5 DEF PostgresNext, Finished

\* What a transaction has read stays true until it commits.
LEMMA PgInvariant == PostgresSpec => []PgInv
BY InitPgInv, NextPgInv, PTL DEF PostgresSpec

\* The rows, the sessions and the history are well typed in every interleaving
\* of any number of calls and failures.
THEOREM PostgresTypeCorrect == PostgresSpec => []PostgresTypeOK
<1>1. PgInv => PostgresTypeOK
  BY DEF PgInv
<1> QED
  BY <1>1, PgInvariant, PTL

(***************************************************************************)
(* Answers                                                                 *)
(***************************************************************************)

\* Whatever keys callers use: "stored" means that the payload is stored, a
\* "conflict_visible" that its evidence is kept, and a "duplicate" either.
THEOREM AnswersBacked == PostgresSpec => []AnswersAreBacked
<1>1. PgInv => AnswersAreBacked
  BY DEF PgInv
<1> QED
  BY <1>1, PgInvariant, PTL

\* With the keys that both callers of the archive use, one for an event: an
\* answer that claims an effect is true, also one that was recovered after the
\* acknowledgement of a COMMIT was lost.
THEOREM AnswersTrue ==
  ASSUME OneKeyPerEvent
  PROVE  PostgresSpec => []AnswersAreTrue
<1>1. PgInv => AnswersAreTrue
  BY OneKeyPerEvent DEF PgInv, AnswersAreBacked, Backed, AnswersAreTrue
<1> QED
  BY <1>1, PgInvariant, PTL

(***************************************************************************)
(* What the adapter implements                                             *)
(***************************************************************************)

\* The abstract specification speaks of the tables with the same operators.
LEMMA SameActions ==
  ASSUME NEW p, NEW k
  PROVE  /\ Store(p, k) => Loose!Store(p, k)
         /\ RecordConflict(p, k) => Loose!RecordConflict(p, k)
         /\ Replay(p, k) => Loose!Replay(p, k)
<1>1. Outcome(p, k) = Loose!Outcome(p, k)
  BY DEF Outcome, Loose!Outcome, Replays, Loose!Replays, ReferencesAreLocal,
     Loose!ReferencesAreLocal, Operation, Loose!Operation
<1>2. /\ Audited(p) => Loose!Audited(p)
      /\ \A o : WriteRow(p, o) = Loose!WriteRow(p, o)
  BY DEF Audited, Loose!Audited, Operation, Loose!Operation, WriteRow, Loose!WriteRow
<1>3. \A row : KeepRequest(k, row) => Loose!KeepRequest(k, row)
  BY DEF KeepRequest, Loose!KeepRequest
<1>4. Store(p, k) => Loose!Store(p, k)
  BY <1>1, <1>2 DEF Store, Loose!Store
<1>5. RecordConflict(p, k) => Loose!RecordConflict(p, k)
  BY <1>1, <1>2, <1>3 DEF RecordConflict, Loose!RecordConflict
<1>6. Replay(p, k) => Loose!Replay(p, k)
  BY <1>1, <1>2 DEF Replay, Loose!Replay
<1> QED
  BY <1>4, <1>5, <1>6

\* A retention found by its key is the same call in both archives.
LEMMA SameReplayRetention ==
  ASSUME NEW k, NEW c, NEW l, ReplayRetention(k, c, l)
  PROVE  Loose!ReplayRetention(k, c, l)
BY DEF ReplayRetention, Loose!ReplayRetention, RetentionRow, Loose!RetentionRow

\* A COMMIT is a call of the abstract archive.
LEMMA CommitIsACall ==
  ASSUME PgInv, NEW s \in Sessions, At(s, "commit"), Apply(s)
  PROVE  Loose!LooseArchiveNext
<1>1. CASE ~IsRetention(s)
  <2>1. call[s].payload \in Payloads /\ call[s].key \in KeysFor[call[s].payload.id]
    BY <1>1, SessionFacts DEF At
  <2>2. CommitsWrite(call[s].payload, call[s].key, call[s].outcome)
    BY <1>1, WriteCommits
  <2> QED
    BY <2>1, <2>2, SameActions DEF CommitsWrite, Loose!LooseArchiveNext
<1>2. CASE IsRetention(s)
  <2>1. call[s].key \in Keys /\ call[s].cutoff \in Cutoffs /\ call[s].limit \in Limits
    BY <1>2, SessionFacts DEF At
  <2>2. CommitsRetention(call[s].key, call[s].cutoff, call[s].limit, call[s].outcome)
    BY <1>2, RetentionCommits
  <2> QED
    BY <2>1, <2>2, SameReplayRetention DEF CommitsRetention, Loose!LooseArchiveNext
<1> QED
  BY <1>1, <1>2

\* Only a COMMIT touches the tables.
LEMMA OnlyCommits ==
  ASSUME [PostgresNext]_pvars
  PROVE  UNCHANGED tables \/ \E s \in Sessions : At(s, "commit") /\ Apply(s)
BY DEF PostgresNext, Finished, CallStep, Fault, TablesUnchanged, pvars, TakeLock, Read, References,
   InsertEvent, InsertRequest, ConflictRow, ConflictRequest, ReadRetention, Snapshot, Update,
   AuditRow, Commit, Recover, Answer, AuditFails, CommitUnacknowledged, ConnectionBreaks,
   RecoveryFails, BeginWrite, BeginRetention

\* The adapter implements the abstract archive: its interleaved statements,
\* failures and lost acknowledgements have the effect of whole calls made one
\* after the other, each at its COMMIT.
THEOREM PostgresImplementsLooseArchive == PostgresSpec => ImplementsLooseArchive
<1>1. PostgresInit => Loose!ArchiveInit
  BY DEF PostgresInit, ArchiveInit, Loose!ArchiveInit, Ids, Loose!Ids
<1>2. PgInv /\ [PostgresNext]_pvars => [Loose!LooseArchiveNext]_(Loose!tables)
  BY OnlyCommits, CommitIsACall DEF tables, Loose!tables
<1> QED
  BY <1>1, <1>2, PgInvariant, PTL DEF PostgresSpec, ImplementsLooseArchive, Loose!LooseArchiveSpec

(***************************************************************************)
(* What holds of the tables                                                *)
(***************************************************************************)

\* The payload first stored for an event is final for any number of concurrent
\* writers, retries under other keys and broken connections.
THEOREM PostgresFirstPayloadIsFinal == PostgresSpec => FirstPayloadWins
<1>1. PgInv /\ [PostgresNext]_pvars =>
        [\A i \in Ids : events[i] # None => events'[i] = events[i]]_tables
  BY OnlyCommits, CommitGrows DEF Grows
<1> QED
  BY <1>1, PgInvariant, PTL DEF PostgresSpec, FirstPayloadWins

\* Retention adds the audit row of the expiry it commits.
LEMMA RetentionAudited ==
  ASSUME PgInv, EverythingAudited, NEW s \in Sessions, At(s, "commit"), Apply(s), IsRetention(s)
  PROVE  EverythingAudited'
<1>1. events' = events /\ conflicts' = conflicts
      /\ audit' = audit \cup {<<"apply_retention", None>>}
  BY CommitFacts DEF Apply, Duplicating, Effectless, Inserting, Conflicting, Expiring
<1> QED
  BY <1>1 DEF EverythingAudited

\* No event, conflict or expiry becomes visible without its audit row.
THEOREM PostgresIsAudited == PostgresSpec => []EverythingAudited
<1>1. PostgresInit => EverythingAudited
  BY DEF PostgresInit, ArchiveInit, EverythingAudited
<1>2. PgInv /\ EverythingAudited /\ [PostgresNext]_pvars => EverythingAudited'
  <2> SUFFICES ASSUME PgInv, EverythingAudited, [PostgresNext]_pvars
               PROVE  EverythingAudited'
    OBVIOUS
  <2>1. CASE UNCHANGED tables
    BY <2>1 DEF tables, EverythingAudited
  <2>2. ASSUME NEW s \in Sessions, At(s, "commit"), Apply(s)
        PROVE  EverythingAudited'
    <3>1. CASE IsRetention(s)
      BY <2>2, <3>1, RetentionAudited
    <3>2. CASE ~IsRetention(s)
      <4>1. call[s].payload \in Payloads /\ call[s].key \in KeysFor[call[s].payload.id]
        BY <2>2, <3>2, SessionFacts DEF At
      <4>2. ArchiveNext
        BY <2>2, <3>2, <4>1, WriteCommits DEF CommitsWrite, ArchiveNext
      <4> QED
        BY <4>2, AuditPreserved DEF PgInv, TablesInv
    <3> QED
      BY <3>1, <3>2
  <2> QED
    BY <2>1, <2>2, OnlyCommits
<1> QED
  BY <1>1, <1>2, PgInvariant, PTL DEF PostgresSpec

(***************************************************************************)
(* The paged reads, while the archive of one process changes under them.   *)
(* A page is the first rows of the query behind it, so what it leaves out  *)
(* lies beyond its last row (PageIsPrefix); the rank of a stored event does*)
(* not change, so what was behind the cursor stays behind it.              *)
(***************************************************************************)

\* How many of the rows come before one.
Before(ids, i) == Cardinality({j \in ids : Rank(j) < Rank(i)})

\* The rows of a query: finitely many stored events.
IsRows(ids) == ArchiveTypeOK /\ IsFiniteSet(ids) /\ ids \subseteq Stored

\* Stored events have ranks, of which no two are equal.
LEMMA RanksDiffer ==
  ASSUME ArchiveTypeOK
  PROVE  /\ \A i \in Stored : Rank(i) \in Nat /\ Rank(i) # Start
         /\ \A i, j \in Stored : Rank(i) = Rank(j) => i = j
<1>1. \A i \in Stored : events[i] \in Payloads /\ events[i].id = i
  BY DEF ArchiveTypeOK, Stored
<1> QED
  BY <1>1, ArchiveAssumption, ListingAssumption DEF ArchiveAssumption, ListingAssumption, Rank

\* Fewer rows come before an earlier row.
LEMMA BeforeGrows ==
  ASSUME NEW ids, IsRows(ids), NEW i \in ids
  PROVE  /\ Before(ids, i) \in 0..Cardinality(ids) - 1
         /\ \A j \in ids : Rank(i) < Rank(j) => Before(ids, i) < Before(ids, j)
<1> DEFINE S(k) == {j \in ids : Rank(j) < Rank(k)}
<1>0. IsFiniteSet(ids) /\ \A k \in ids : Rank(k) \in Nat
  BY RanksDiffer DEF IsRows
<1>1. \A k \in ids : IsFiniteSet(S(k)) /\ Cardinality(S(k)) \in Nat
  BY <1>0, FS_Subset, FS_CardinalityType
<1>2. i \notin S(i) /\ S(i) \cup {i} \subseteq ids
  BY <1>0
<1>3. /\ IsFiniteSet(S(i) \cup {i})
      /\ Cardinality(S(i) \cup {i}) = Cardinality(S(i)) + 1
  BY <1>1, <1>2, FS_AddElement
<1>4. Cardinality(S(i)) + 1 <= Cardinality(ids) /\ Cardinality(ids) \in Nat
  BY <1>0, <1>2, <1>3, FS_Subset, FS_CardinalityType
<1>5. ASSUME NEW j \in ids, Rank(i) < Rank(j)
      PROVE  Cardinality(S(i)) < Cardinality(S(j))
  <2>1. S(i) \cup {i} \subseteq S(j)
    BY <1>0, <1>5
  <2>2. /\ IsFiniteSet(S(j)) /\ Cardinality(S(j)) \in Nat
        /\ Cardinality(S(i)) \in Nat
    BY <1>1
  <2> HIDE DEF S
  <2>3. Cardinality(S(i) \cup {i}) <= Cardinality(S(j))
    BY <2>1, <2>2, FS_Subset
  <2> QED
    BY <2>2, <2>3, <1>3
<1> QED
  BY <1>1, <1>4, <1>5 DEF Before

\* Every place has its row.
LEMMA PlacesAreTaken ==
  ASSUME NEW ids, IsRows(ids), NEW n \in 1..Cardinality(ids)
  PROVE  \E i \in ids : Before(ids, i) = n - 1
<1> DEFINE T == 0..Cardinality(ids) - 1
           f == [i \in ids |-> Before(ids, i)]
<1>1. f \in [ids -> T]
  BY BeforeGrows
<1>2. \A i, j \in ids : f[i] = f[j] => i = j
  <2> SUFFICES ASSUME NEW i \in ids, NEW j \in ids, i # j
               PROVE  f[i] # f[j]
    OBVIOUS
  <2>1. Rank(i) \in Nat /\ Rank(j) \in Nat /\ Rank(i) # Rank(j)
    BY RanksDiffer DEF IsRows
  <2>2. f[i] \in Nat /\ f[j] \in Nat
    BY <1>1
  <2>3. CASE Rank(i) < Rank(j)
    BY <2>2, <2>3, BeforeGrows
  <2>4. CASE Rank(j) < Rank(i)
    BY <2>2, <2>4, BeforeGrows
  <2> QED
    BY <2>1, <2>3, <2>4
<1>3. f \in Injection(ids, T)
  BY <1>1, <1>2 DEF Injection, IsInjective
<1>4. Cardinality(ids) \in Nat
  BY FS_CardinalityType DEF IsRows
<1>5. IsFiniteSet(T) /\ Cardinality(T) = Cardinality(ids)
  <2>1. 0 \in Int /\ Cardinality(ids) - 1 \in Int
    BY <1>4
  <2>2. /\ IsFiniteSet(T)
        /\ Cardinality(T) = IF 0 > Cardinality(ids) - 1 THEN 0 ELSE Cardinality(ids) - 1 - 0 + 1
    BY <2>1, FS_Interval
  <2> HIDE DEF T
  <2> QED
    BY <2>2, <1>4
<1>6. f \in Surjection(ids, T)
  BY <1>3, <1>5, FS_Injection
<1>7. n - 1 \in T
  BY <1>4
<1> QED
  BY <1>6, <1>7 DEF Surjection

\* The rows in order are the rows, and a later row has the larger rank.
LEMMA OrderIsComplete ==
  ASSUME NEW ids, IsRows(ids)
  PROVE  /\ InOrder(ids) \in Seq(ids) /\ Len(InOrder(ids)) = Cardinality(ids)
         /\ \A i \in ids : \E n \in 1..Len(InOrder(ids)) : InOrder(ids)[n] = i
         /\ \A m, n \in 1..Len(InOrder(ids)) :
              Rank(InOrder(ids)[m]) <= Rank(InOrder(ids)[n]) => m <= n
<1> DEFINE rows == InOrder(ids)
<1>1. Cardinality(ids) \in Nat
  BY FS_CardinalityType DEF IsRows
<1>2. \A n \in 1..Cardinality(ids) : rows[n] \in ids /\ Before(ids, rows[n]) = n - 1
  BY PlacesAreTaken DEF InOrder, Before
<1>3. rows \in Seq(ids) /\ Len(rows) = Cardinality(ids)
  <2>1. rows \in [1..Cardinality(ids) -> ids]
    BY <1>2 DEF InOrder
  <2> HIDE DEF rows
  <2> QED
    BY <1>1, <2>1
<1>4. \A i \in ids : Rank(i) \in Nat
  BY RanksDiffer DEF IsRows
<1>5. ASSUME NEW i \in ids
      PROVE  \E n \in 1..Cardinality(ids) : rows[n] = i
  <2>1. Before(ids, i) + 1 \in 1..Cardinality(ids)
    BY <1>1, BeforeGrows
  <2>2. PICK n \in 1..Cardinality(ids) : n = Before(ids, i) + 1
    BY <2>1
  <2>3. rows[n] \in ids /\ Before(ids, rows[n]) = Before(ids, i) /\ Before(ids, i) \in Nat
    BY <1>1, <1>2, <2>2, BeforeGrows
  <2>4. Rank(rows[n]) = Rank(i)
    BY <1>4, <2>3, BeforeGrows
  <2>5. rows[n] = i
    BY <2>3, <2>4, RanksDiffer DEF IsRows
  <2> QED
    BY <2>5
<1>6. ASSUME NEW m \in 1..Cardinality(ids), NEW n \in 1..Cardinality(ids),
             Rank(rows[m]) <= Rank(rows[n])
      PROVE  m <= n
  <2>1. rows[m] \in ids /\ rows[n] \in ids /\ Before(ids, rows[m]) = m - 1
        /\ Before(ids, rows[n]) = n - 1
    BY <1>2
  <2>2. CASE Rank(rows[m]) < Rank(rows[n])
    BY <1>1, <2>1, <2>2, BeforeGrows
  <2>3. CASE Rank(rows[m]) = Rank(rows[n])
    <3>1. rows[m] = rows[n]
      BY <2>1, <2>3, RanksDiffer DEF IsRows
    <3> HIDE DEF rows
    <3> QED
      BY <1>1, <2>1, <3>1
  <2> QED
    BY <1>4, <1>6, <2>1, <2>2, <2>3
<1> QED
  BY <1>3, <1>5, <1>6

\* The first rows of a query that has more of them.
IsPage(page, ids, limit) ==
  /\ IsRows(ids) /\ limit \in Nat \ {0} /\ Len(InOrder(ids)) > limit
  /\ page = SubSeq(InOrder(ids), 1, limit)

\* A page has every row that does not come after its last one.
LEMMA PageIsPrefix ==
  ASSUME NEW page, NEW ids, NEW limit, IsPage(page, ids, limit)
  PROVE  /\ page \in Seq(ids) /\ Len(page) = limit /\ page[Len(page)] \in ids
         /\ \A i \in ids : Rank(i) <= Rank(page[Len(page)]) =>
              \E n \in 1..Len(page) : page[n] = i
<1> DEFINE rows == InOrder(ids)
<1> USE DEF IsPage
<1>1. /\ rows \in Seq(ids)
      /\ \A i \in ids : \E n \in 1..Len(rows) : rows[n] = i
      /\ \A m, n \in 1..Len(rows) : Rank(rows[m]) <= Rank(rows[n]) => m <= n
  BY OrderIsComplete
<1>2. Len(rows) > limit /\ page = SubSeq(rows, 1, limit) /\ limit \in Nat \ {0}
  OBVIOUS
<1> HIDE DEF rows
<1>3. page \in Seq(ids) /\ Len(page) = limit
  <2>1. \A n \in 1..limit : rows[n] \in ids
    BY <1>1, <1>2
  <2> QED
    BY <1>2, <2>1, SubSeqProperties
<1>4. \A n \in 1..limit : page[n] = rows[n]
  BY <1>1, <1>2
<1>5. page[limit] \in ids
  BY <1>3
<1>6. ASSUME NEW i \in ids, Rank(i) <= Rank(page[limit])
      PROVE  \E n \in 1..limit : page[n] = i
  <2>1. PICK n \in 1..Len(rows) : rows[n] = i
    BY <1>1
  <2>2. limit \in 1..Len(rows)
    BY <1>1, <1>2
  <2>3. Rank(rows[n]) <= Rank(rows[limit])
    BY <1>4, <1>6, <2>1
  <2>4. n <= limit
    BY <1>1, <2>2, <2>3
  <2> QED
    BY <1>4, <2>1, <2>4
<1> QED
  BY <1>3, <1>5, <1>6

Listings ==
  [conversation : Conversations \cup {IdleListing.conversation}, tombstones : BOOLEAN,
   limit : PageLimits \cup {IdleListing.limit}, cursor : Nat, items : Seq(Ids),
   status : {"idle", "reading", "done"}, steady : SUBSET Ids]

\* What a listing may count on is still to be seen; what of it is behind the
\* cursor has been received, and at the end all of it has.
ListingOK(r) ==
  LET me == reader[r]
      received == {me.items[n] : n \in 1..Len(me.items)}
  IN
  /\ me.status = "reading" =>
       /\ me.conversation \in Conversations /\ me.limit \in PageLimits
       /\ me.steady \subseteq Visible(me.conversation, me.tombstones)
       /\ \A i \in me.steady : Rank(i) <= me.cursor => i \in received
  /\ me.status = "done" => me.steady \subseteq received

ListingInv ==
  /\ ArchiveTypeOK /\ IsFiniteSet(Stored)
  /\ reader \in [Readers -> Listings]
  /\ \A r \in Readers : ListingOK(r)

\* Finitely many rows are stored, because a call stores one.
LEMMA StoredStaysFinite ==
  ASSUME ArchiveTypeOK, IsFiniteSet(Stored), [ArchiveNext]_tables
  PROVE  IsFiniteSet(Stored')
<1>1. ASSUME NEW p \in Payloads, NEW k \in KeysFor[p.id], Store(p, k)
      PROVE  IsFiniteSet(Stored')
  <2>1. events' = [events EXCEPT ![p.id] = p]
    BY <1>1 DEF Store
  <2>2. Stored' \subseteq Stored \cup {p.id}
    BY <2>1 DEF Stored, ArchiveTypeOK
  <2>3. IsFiniteSet(Stored \cup {p.id})
    BY FS_AddElement
  <2> QED
    BY <2>2, <2>3, FS_Subset
<1>2. ASSUME events' = events PROVE IsFiniteSet(Stored')
  BY <1>2 DEF Stored
<1> QED
  BY <1>1, <1>2 DEF ArchiveNext, RecordConflict, Replay, Expire, ReplayRetention, tables

\* What is visible is stored.
LEMMA VisibleIsStored == \A c, t : Visible(c, t) \subseteq Stored
BY DEF Visible, Stored

\* The query behind a page has rows.
LEMMA QueryHasRows ==
  ASSUME ListingInv, NEW r \in Readers
  PROVE  LET ids == {i \in Visible(reader[r].conversation, reader[r].tombstones) :
                       Rank(i) > reader[r].cursor}
         IN  IsRows(ids) /\ RowsAfter(r) = InOrder(ids) /\ ids \subseteq Ids
<1> DEFINE ids == {i \in Visible(reader[r].conversation, reader[r].tombstones) :
                     Rank(i) > reader[r].cursor}
<1>1. ids \subseteq Stored
  BY VisibleIsStored
<1>2. IsFiniteSet(ids)
  BY <1>1, FS_Subset DEF ListingInv
<1> QED
  BY <1>1, <1>2 DEF ListingInv, IsRows, RowsAfter, Stored

\* A page brings the reader past every row it has received.
LEMMA NextPageKept ==
  ASSUME ListingInv, NEW r \in Readers, NextPage(r)
  PROVE  ListingInv'
<1> DEFINE me == reader[r]
           ids == {i \in Visible(me.conversation, me.tombstones) : Rank(i) > me.cursor}
           rows == RowsAfter(r)
           page == IF Len(rows) > me.limit THEN SubSeq(rows, 1, me.limit) ELSE rows
           received == {me.items[n] : n \in 1..Len(me.items)}
           more == {page[n] : n \in 1..Len(page)}
<1>1. IsRows(ids) /\ rows = InOrder(ids) /\ ids \subseteq Ids
  BY QueryHasRows
<1>2. /\ me \in Listings /\ me.status = "reading"
      /\ me.conversation \in Conversations /\ me.limit \in PageLimits
      /\ me.steady \subseteq Visible(me.conversation, me.tombstones)
      /\ \A i \in me.steady : Rank(i) <= me.cursor => i \in received
  BY DEF ListingInv, ListingOK, NextPage
<1>3. me.limit \in Nat \ {0} /\ me.cursor \in Nat /\ me.items \in Seq(Ids)
  BY <1>2, ListingAssumption DEF ListingAssumption, Listings
<1>4. /\ rows \in Seq(ids) /\ \A i \in ids : \E n \in 1..Len(rows) : rows[n] = i
  BY <1>1, OrderIsComplete
<1>5. me.steady \subseteq Stored /\ \A i \in Stored : Rank(i) \in Nat
  BY <1>2, VisibleIsStored, RanksDiffer DEF ListingInv
<1>6. \A i \in me.steady : i \in ids \/ i \in received
  BY <1>2, <1>3, <1>5
<1>0. reader' = [reader EXCEPT ![r] =
        IF Len(rows) > me.limit
        THEN [me EXCEPT !.items = me.items \o page, !.cursor = Rank(page[Len(page)])]
        ELSE [me EXCEPT !.items = me.items \o page, !.status = "done"]]
  BY Zenon DEF NextPage
<1>7. PICK now \in Listings :
        /\ reader' = [reader EXCEPT ![r] = now]
        /\ now.conversation = me.conversation /\ now.tombstones = me.tombstones
        /\ now.limit = me.limit /\ now.steady = me.steady
        /\ now.items = me.items \o page /\ page \in Seq(ids)
        /\ \/ /\ now.status = "reading" /\ page # <<>> /\ now.cursor = Rank(page[Len(page)])
              /\ \A i \in ids : Rank(i) <= now.cursor => i \in more
           \/ now.status = "done" /\ ids \subseteq more
  <2>1. CASE Len(rows) > me.limit
    <3>1. /\ page \in Seq(ids) /\ Len(page) = me.limit /\ page[Len(page)] \in ids
          /\ \A i \in ids : Rank(i) <= Rank(page[Len(page)]) => i \in more
      <4>1. IsPage(page, ids, me.limit)
        BY <1>1, <1>3, <2>1 DEF IsPage
      <4> HIDE DEF page, ids, rows, me
      <4> QED
        BY <4>1, PageIsPrefix
    <3>2. Rank(page[Len(page)]) \in Nat
      BY <1>1, <3>1, RanksDiffer DEF IsRows
    <3> HIDE DEF page, ids, more, rows
    <3>3. page \in Seq(Ids) /\ page # <<>>
      BY <1>1, <1>3, <3>1
    <3>4. me.items \o page \in Seq(Ids) /\ page # <<>>
      BY <1>3, <3>3
    <3> DEFINE now == [me EXCEPT !.items = me.items \o page, !.cursor = Rank(page[Len(page)])]
    <3>5. now \in Listings /\ reader' = [reader EXCEPT ![r] = now]
      BY <1>0, <1>2, <2>1, <3>2, <3>4 DEF Listings
    <3> QED
      BY <1>2, <3>1, <3>4, <3>5 DEF Listings
  <2>2. CASE ~(Len(rows) > me.limit)
    <3>1. page = rows
      BY <2>2
    <3>2. page \in Seq(ids) /\ ids \subseteq more
      BY <1>4, <3>1
    <3> HIDE DEF page, ids, more, rows
    <3>3. page \in Seq(Ids)
      BY <1>1, <3>2
    <3>4. me.items \o page \in Seq(Ids)
      BY <1>3, <3>3
    <3> DEFINE now == [me EXCEPT !.items = me.items \o page, !.status = "done"]
    <3>5. now \in Listings /\ reader' = [reader EXCEPT ![r] = now]
      BY <1>0, <1>2, <2>2, <3>4 DEF Listings
    <3> QED
      BY <1>2, <3>2, <3>5 DEF Listings
  <2> QED
    BY <2>1, <2>2
<1>8. {now.items[n] : n \in 1..Len(now.items)} = received \cup more
  <2> HIDE DEF page, ids, rows
  <2>1. page \in Seq(Ids)
    BY <1>1, <1>7
  <2>2. DOMAIN now.items = 1..Len(now.items) /\ Len(now.items) = Len(me.items) + Len(page)
    BY <1>3, <1>7, <2>1
  <2>3. \A n \in 1..Len(me.items) : now.items[n] = me.items[n]
    BY <1>3, <1>7, <2>1
  <2>4. \A n \in 1..Len(page) : now.items[Len(me.items) + n] = page[n]
    BY <1>3, <1>7, <2>1
  <2>5. \A n \in 1..Len(now.items) : n \in 1..Len(me.items) \/ n - Len(me.items) \in 1..Len(page)
    BY <1>3, <2>1, <2>2
  <2>6. \A n \in 1..Len(page) : Len(me.items) + n \in 1..Len(now.items)
    BY <1>3, <2>1, <2>2
  <2>7. \A n \in 1..Len(me.items) : n \in 1..Len(now.items)
    BY <1>3, <2>1, <2>2
  <2>8. \A n \in 1..Len(now.items) : now.items[n] \in received \cup more
    <3> TAKE n \in 1..Len(now.items)
    <3>1. CASE n \in 1..Len(me.items)
      BY <2>3, <3>1
    <3>2. CASE n - Len(me.items) \in 1..Len(page)
      <4>1. now.items[n] = page[n - Len(me.items)]
        <5>1. Len(me.items) \in Nat /\ n \in Int
          BY <1>3
        <5>2. Len(me.items) + (n - Len(me.items)) = n
          BY <5>1
        <5> HIDE DEF me
        <5> QED
          BY <2>4, <3>2, <5>2
      <4> QED
        BY <3>2, <4>1
    <3> QED
      BY <2>5, <3>1, <3>2
  <2>9. received \cup more \subseteq {now.items[n] : n \in 1..Len(now.items)}
    BY <2>3, <2>4, <2>6, <2>7
  <2> QED
    BY <2>8, <2>9
<1>9. UNCHANGED tables
  BY DEF NextPage
<1>10. \A q \in Readers : reader'[q] = IF q = r THEN now ELSE reader[q]
  BY <1>7 DEF ListingInv
<1>11. ListingOK(r)'
  <2>1. /\ now.status = "reading" =>
             /\ now.conversation \in Conversations /\ now.limit \in PageLimits
             /\ now.steady \subseteq Visible(now.conversation, now.tombstones)
             /\ \A i \in now.steady : Rank(i) <= now.cursor => i \in received \cup more
        /\ now.status = "done" => now.steady \subseteq received \cup more
    <3> HIDE DEF ids, page, more, received
    <3> QED
      BY <1>2, <1>6, <1>7
  <2> QED
    <3>1. reader'[r] = now
      BY <1>10
    <3>2. \A c, t : Visible(c, t)' = Visible(c, t)
      BY <1>9 DEF tables, Visible, Superseded
    <3>3. \A i : Rank(i)' = Rank(i)
      BY <1>9 DEF tables, Rank
    <3> HIDE DEF page, more, received, me
    <3> QED
      BY <1>8, <2>1, <3>1, <3>2, <3>3 DEF ListingOK
<1>12. ASSUME NEW q \in Readers, q # r PROVE ListingOK(q)'
  BY <1>9, <1>10, <1>12 DEF ListingInv, ListingOK, tables, Visible, Superseded, Rank
<1>13. reader' \in [Readers -> Listings] /\ ArchiveTypeOK' /\ IsFiniteSet(Stored')
  BY <1>7, <1>9 DEF ListingInv, tables, ArchiveTypeOK, Stored
<1> QED
  BY <1>11, <1>12, <1>13 DEF ListingInv

\* A listing begins with nothing received and nothing behind its cursor.
LEMMA StartListingKept ==
  ASSUME ListingInv, NEW r \in Readers, NEW c \in Conversations, NEW t \in BOOLEAN,
         NEW l \in PageLimits, StartListing(r, c, t, l)
  PROVE  ListingInv'
<1> DEFINE now == [IdleListing EXCEPT !.conversation = c, !.tombstones = t, !.limit = l,
                                      !.status = "reading", !.steady = Visible(c, t)]
<1>1. reader' = [reader EXCEPT ![r] = now] /\ UNCHANGED tables
  BY DEF StartListing
<1>2. Visible(c, t) \subseteq Stored /\ Visible(c, t) \subseteq Ids
  BY VisibleIsStored DEF Stored
<1>3. IdleListing \in Listings
  BY DEF IdleListing, Listings, Start
<1>4. /\ now \in Listings /\ now.status = "reading" /\ now.conversation = c
      /\ now.tombstones = t /\ now.limit = l /\ now.steady = Visible(c, t)
      /\ now.cursor = Start
  BY <1>2, <1>3 DEF Listings, IdleListing
<1> HIDE DEF now
<1>5. \A q \in Readers : reader'[q] = IF q = r THEN now ELSE reader[q]
  BY <1>1 DEF ListingInv
<1>6. \A a, b : Visible(a, b)' = Visible(a, b)
  BY <1>1 DEF tables, Visible, Superseded
<1>7. \A i : Rank(i)' = Rank(i)
  BY <1>1 DEF tables, Rank
<1>8. \A i \in Visible(c, t) : ~(Rank(i) <= Start)
  BY <1>2, RanksDiffer DEF ListingInv, Start
<1>9. ASSUME NEW q \in Readers PROVE ListingOK(q)'
  <2>1. CASE q = r
    BY <1>4, <1>5, <1>6, <1>7, <1>8, <2>1 DEF ListingOK
  <2>2. CASE q # r
    BY <1>5, <1>6, <1>7, <2>2 DEF ListingInv, ListingOK
  <2> QED
    BY <2>1, <2>2
<1>10. reader' \in [Readers -> Listings] /\ ArchiveTypeOK' /\ IsFiniteSet(Stored')
  BY <1>1, <1>4 DEF ListingInv, tables, ArchiveTypeOK, Stored
<1> QED
  BY <1>9, <1>10 DEF ListingInv

\* The ranks of stored rows stay.
LEMMA RanksStay ==
  ASSUME ArchiveTypeOK, ArchiveNext
  PROVE  \A i \in Stored : Rank(i)' = Rank(i)
BY RowsAreFinal DEF Stored, Rank

\* What is no longer visible is no longer counted on.
LEMMA TablesChangeKept ==
  ASSUME ListingInv, TablesChange
  PROVE  ListingInv'
<1>1. ArchiveNext
  BY DEF TablesChange
<1>2. ArchiveTypeOK' /\ IsFiniteSet(Stored')
  BY <1>1, TypePreserved, StoredStaysFinite DEF ListingInv
<1>3. ASSUME NEW r \in Readers
      PROVE  reader'[r] \in Listings /\ ListingOK(r)'
  <2> DEFINE me == reader[r]
  <2>1. CASE me.status = "reading"
    <3> DEFINE kept == {i \in me.steady : \E c \in Conversations, t \in BOOLEAN :
                          c = me.conversation /\ t = me.tombstones /\ i \in Visible(c, t)'}
    <3>1. reader'[r] = [me EXCEPT !.steady = kept]
      BY <2>1 DEF TablesChange
    <3>2. /\ me \in Listings /\ me.conversation \in Conversations /\ me.limit \in PageLimits
          /\ me.steady \subseteq Visible(me.conversation, me.tombstones)
          /\ \A i \in me.steady : Rank(i) <= me.cursor =>
               i \in {me.items[n] : n \in 1..Len(me.items)}
      BY <2>1 DEF ListingInv, ListingOK
    <3>3. kept \subseteq me.steady /\ kept \subseteq Ids
      BY <3>2 DEF Listings
    <3>4. \A c, t : c = me.conversation /\ t = me.tombstones => kept \subseteq Visible(c, t)'
      OBVIOUS
    <3>5. \A i \in me.steady : Rank(i)' = Rank(i)
      BY <1>1, <3>2, RanksStay, VisibleIsStored DEF ListingInv
    <3> HIDE DEF kept
    <3>6. /\ reader'[r] \in Listings /\ reader'[r].status = "reading"
          /\ reader'[r].conversation = me.conversation /\ reader'[r].limit = me.limit
          /\ reader'[r].tombstones = me.tombstones /\ reader'[r].cursor = me.cursor
          /\ reader'[r].items = me.items /\ reader'[r].steady = kept
      BY <2>1, <3>1, <3>2, <3>3 DEF Listings
    <3>7. \A i \in kept : Rank(i)' <= me.cursor =>
            i \in {me.items[n] : n \in 1..Len(me.items)}
      BY <3>2, <3>3, <3>5
    <3>8. ListingOK(r)'
      <4>1. PICK c \in Conversations, t \in BOOLEAN :
              c = me.conversation /\ t = me.tombstones
        BY <3>2 DEF Listings
      <4>2. kept \subseteq Visible(c, t)'
        BY <3>4, <4>1
      <4>3. (reader[r].steady \subseteq Visible(reader[r].conversation, reader[r].tombstones))'
        BY <3>6, <4>1, <4>2
      <4> QED
        BY <3>2, <3>6, <3>7, <4>3 DEF ListingOK
    <3> QED
      BY <3>6, <3>8
  <2>2. CASE me.status # "reading"
    <3>1. reader'[r] = me
      BY <2>2 DEF TablesChange
    <3>2. me \in Listings
      BY DEF ListingInv
    <3> QED
      BY <2>2, <3>1, <3>2 DEF ListingInv, ListingOK
  <2> QED
    BY <2>1, <2>2
<1>4. reader' \in [Readers -> Listings]
  <2>1. DOMAIN reader' = Readers /\ reader' = [r \in Readers |-> reader'[r]]
    BY DEF TablesChange
  <2> QED
    BY <1>3, <2>1
<1> QED
  BY <1>2, <1>3, <1>4 DEF ListingInv

\* Nothing is stored and nothing is received at first.
LEMMA ListingStarts == ListingInit => ListingInv
<1> SUFFICES ASSUME ListingInit PROVE ListingInv
  OBVIOUS
<1>1. ArchiveTypeOK /\ Stored = {}
  BY DEF ListingInit, ArchiveInit, ArchiveTypeOK, Stored
<1>2. IdleListing \in Listings /\ IdleListing.status = "idle"
  BY DEF IdleListing, Listings, Start
<1> QED
  BY <1>1, <1>2, FS_EmptySet DEF ListingInit, ListingInv, ListingOK

\* A listing that has come to its end has every event that was visible the whole
\* time, for any page limit and any changes of the archive between two pages.
THEOREM ListingsAreComplete == ListingSpec => []PagesComplete
<1>1. ListingInit => ListingInv
  BY ListingStarts
<1>2. ListingInv /\ [ListingNext]_lvars => ListingInv'
  <2> SUFFICES ASSUME ListingInv, [ListingNext]_lvars PROVE ListingInv'
    OBVIOUS
  <2>1. CASE UNCHANGED lvars
    BY <2>1 DEF lvars, tables, ListingInv, ListingOK, ArchiveTypeOK, Stored, Visible,
                Superseded, Rank
  <2> QED
    BY <2>1, TablesChangeKept, NextPageKept, StartListingKept DEF ListingNext
<1>3. ListingInv => PagesComplete
  BY DEF ListingInv, ListingOK, PagesComplete
<1> QED
  BY <1>1, <1>2, <1>3, PTL DEF ListingSpec

(***************************************************************************)
(* The order of what a listing has received.  Rows behind the cursor never *)
(* come back, because a page starts after the cursor and ends at the next. *)
(***************************************************************************)

InRankOrder(items) ==
  \A m, n \in 1..Len(items) : m < n => Rank(items[m]) < Rank(items[n])

\* What a listing received is stored, in order and not beyond its cursor.
ReceivedOK(r) ==
  LET me == reader[r] IN
  /\ \A n \in 1..Len(me.items) : me.items[n] \in Stored
  /\ me.status = "reading" => \A n \in 1..Len(me.items) : Rank(me.items[n]) <= me.cursor
  /\ InRankOrder(me.items)

OrderInv == ListingInv /\ \A r \in Readers : ReceivedOK(r)

\* Rows in order, followed by rows in order of larger ranks.
LEMMA OrderContinues ==
  ASSUME NEW s \in Seq(Ids), NEW t \in Seq(Ids), InRankOrder(s), InRankOrder(t),
         \A m \in 1..Len(s), n \in 1..Len(t) : Rank(s[m]) < Rank(t[n])
  PROVE  InRankOrder(s \o t)
<1> DEFINE all == s \o t
<1>1. Len(s) \in Nat /\ Len(t) \in Nat /\ Len(all) = Len(s) + Len(t)
  OBVIOUS
<1>2. \A n \in 1..Len(all) : \/ n \in 1..Len(s) /\ all[n] = s[n]
                             \/ n - Len(s) \in 1..Len(t) /\ all[n] = t[n - Len(s)]
  OBVIOUS
<1> HIDE DEF all
<1> SUFFICES ASSUME NEW m \in 1..Len(all), NEW n \in 1..Len(all), m < n
             PROVE  Rank(all[m]) < Rank(all[n])
  BY DEF InRankOrder, all
<1>3. CASE n \in 1..Len(s) /\ all[n] = s[n]
  <2>1. m \in 1..Len(s) /\ all[m] = s[m]
    BY <1>1, <1>2, <1>3
  <2> QED
    BY <1>3, <2>1 DEF InRankOrder
<1>4. CASE n - Len(s) \in 1..Len(t) /\ all[n] = t[n - Len(s)]
  <2>1. CASE m \in 1..Len(s) /\ all[m] = s[m]
    BY <1>4, <2>1
  <2>2. CASE m - Len(s) \in 1..Len(t) /\ all[m] = t[m - Len(s)]
    <3>1. m - Len(s) < n - Len(s)
      BY <1>1
    <3> QED
      BY <1>4, <2>2, <3>1 DEF InRankOrder
  <2> QED
    BY <1>2, <2>1, <2>2
<1> QED
  BY <1>2, <1>3, <1>4

\* At most limit of some rows, from the first one on.
FirstOf(rows, limit) == IF Len(rows) > limit THEN SubSeq(rows, 1, limit) ELSE rows

LEMMA FirstRows ==
  ASSUME NEW ids, NEW rows \in Seq(ids), NEW limit \in Nat \ {0}
  PROVE  LET page == FirstOf(rows, limit) IN
         /\ page \in Seq(ids) /\ Len(page) <= Len(rows)
         /\ \A n \in 1..Len(page) : page[n] = rows[n]
         /\ Len(rows) > limit => page # <<>>
<1>1. CASE Len(rows) > limit
  <2>1. FirstOf(rows, limit) = SubSeq(rows, 1, limit)
    BY <1>1 DEF FirstOf
  <2>2. \A n \in 1..limit : rows[n] \in ids
    BY <1>1
  <2>3. SubSeq(rows, 1, limit) \in Seq(ids) /\ Len(SubSeq(rows, 1, limit)) = limit
    BY <1>1, <2>2, SubSeqProperties
  <2>4. \A n \in 1..limit : SubSeq(rows, 1, limit)[n] = rows[n]
    BY <1>1
  <2> QED
    BY <1>1, <2>1, <2>3, <2>4
<1>2. CASE ~(Len(rows) > limit)
  BY <1>2 DEF FirstOf
<1> QED
  BY <1>1, <1>2

\* A page is in order, and its last row is the last in rank.
LEMMA PageInOrder ==
  ASSUME ListingInv, NEW r \in Readers, reader[r].status = "reading",
         NEW page, page = FirstOf(RowsAfter(r), reader[r].limit)
  PROVE  /\ page \in Seq(Ids) /\ InRankOrder(page)
         /\ \A n \in 1..Len(page) : page[n] \in Stored /\ Rank(page[n]) > reader[r].cursor
         /\ \A n \in 1..Len(page) : Rank(page[n]) <= Rank(page[Len(page)])
         /\ Len(RowsAfter(r)) > reader[r].limit => page # <<>>
<1> DEFINE ids == {i \in Visible(reader[r].conversation, reader[r].tombstones) :
                     Rank(i) > reader[r].cursor}
           rows == RowsAfter(r)
           limit == reader[r].limit
<1>1. IsRows(ids) /\ rows = InOrder(ids) /\ ids \subseteq Ids /\ ids \subseteq Stored
  BY QueryHasRows, VisibleIsStored
<1>2. limit \in Nat \ {0}
  BY ListingAssumption DEF ListingAssumption, ListingInv, ListingOK
<1>3. /\ rows \in Seq(ids)
      /\ \A m, n \in 1..Len(rows) : Rank(rows[m]) <= Rank(rows[n]) => m <= n
  BY <1>1, OrderIsComplete
<1>4. \A i \in ids : Rank(i) \in Nat /\ Rank(i) > reader[r].cursor
  BY <1>1, RanksDiffer DEF IsRows
<1> HIDE DEF ids, rows, limit
<1>5. /\ page \in Seq(ids) /\ Len(page) \in Nat /\ Len(page) <= Len(rows)
      /\ \A n \in 1..Len(page) : page[n] = rows[n]
      /\ Len(rows) > limit => page # <<>>
  <2>1. page = FirstOf(rows, limit)
    BY DEF rows, limit
  <2>2. /\ page \in Seq(ids) /\ Len(page) <= Len(rows)
        /\ \A n \in 1..Len(page) : page[n] = rows[n]
        /\ Len(rows) > limit => page # <<>>
    BY <1>2, <1>3, <2>1, FirstRows
  <2> QED
    BY <2>2
<1>6. \A n \in 1..Len(page) : page[n] \in ids /\ Rank(page[n]) \in Nat
  BY <1>4, <1>5
<1>7. ASSUME NEW m \in 1..Len(page), NEW n \in 1..Len(page), m < n
      PROVE  Rank(page[m]) < Rank(page[n])
  <2>1. m \in 1..Len(rows) /\ n \in 1..Len(rows) /\ page[m] = rows[m] /\ page[n] = rows[n]
    BY <1>3, <1>5
  <2>2. ~(Rank(page[n]) <= Rank(page[m]))
    BY <1>3, <1>7, <2>1
  <2> QED
    BY <1>6, <2>2
<1>8. ASSUME NEW n \in 1..Len(page)
      PROVE  Rank(page[n]) <= Rank(page[Len(page)])
  <2>1. Len(page) \in 1..Len(page) /\ (n = Len(page) \/ n < Len(page))
    BY <1>5
  <2> QED
    BY <1>6, <1>7, <2>1
<1>9. page \in Seq(Ids)
  BY <1>1, <1>5
<1>10. Len(RowsAfter(r)) > reader[r].limit => page # <<>>
  BY <1>5 DEF rows, limit
<1> QED
  BY <1>1, <1>4, <1>6, <1>7, <1>8, <1>9, <1>10 DEF InRankOrder

\* A page continues the order.
LEMMA NextPageOrdered ==
  ASSUME OrderInv, NEW r \in Readers, NextPage(r)
  PROVE  OrderInv'
<1> DEFINE me == reader[r]
           rows == RowsAfter(r)
           page == IF Len(rows) > me.limit THEN SubSeq(rows, 1, me.limit) ELSE rows
           now == reader'[r]
<1>1. ListingInv /\ ListingInv' /\ me.status = "reading" /\ UNCHANGED tables
  BY NextPageKept DEF OrderInv, NextPage
<1>2. /\ page \in Seq(Ids) /\ InRankOrder(page)
      /\ \A n \in 1..Len(page) : page[n] \in Stored /\ Rank(page[n]) > me.cursor
      /\ \A n \in 1..Len(page) : Rank(page[n]) <= Rank(page[Len(page)])
      /\ Len(rows) > me.limit => page # <<>>
  <2>1. page = FirstOf(RowsAfter(r), reader[r].limit)
    BY DEF FirstOf
  <2> HIDE DEF page
  <2> QED
    BY <1>1, <2>1, PageInOrder
<1>3. me \in Listings /\ me.items \in Seq(Ids) /\ me.cursor \in Nat
  BY <1>1 DEF ListingInv, Listings
<1>4. reader' = [reader EXCEPT ![r] =
        IF Len(rows) > me.limit
        THEN [me EXCEPT !.items = me.items \o page, !.cursor = Rank(page[Len(page)])]
        ELSE [me EXCEPT !.items = me.items \o page, !.status = "done"]]
  BY Zenon DEF NextPage
<1> HIDE DEF page, rows
<1>5. /\ \A q \in Readers : q # r => reader'[q] = reader[q]
      /\ now.items = me.items \o page
      /\ now.status = "done" \/ now.cursor = Rank(page[Len(page)])
  BY <1>1, <1>3, <1>4 DEF ListingInv, Listings
<1>6. /\ Stored' = Stored /\ \A i : Rank(i)' = Rank(i)
  BY <1>1 DEF tables, Stored, Rank
<1>7. /\ \A n \in 1..Len(me.items) : me.items[n] \in Stored /\ Rank(me.items[n]) <= me.cursor
      /\ InRankOrder(me.items)
  BY <1>1 DEF OrderInv, ReceivedOK
<1>8. \A i \in Stored : Rank(i) \in Nat
  BY <1>1, RanksDiffer DEF ListingInv
<1> HIDE DEF me, now
<1>9. \A m \in 1..Len(me.items), n \in 1..Len(page) : Rank(me.items[m]) < Rank(page[n])
  BY <1>2, <1>3, <1>7, <1>8
<1>10. InRankOrder(now.items)
  BY <1>2, <1>3, <1>5, <1>7, <1>9, OrderContinues
<1>11. \A n \in 1..Len(now.items) : \/ n \in 1..Len(me.items) /\ now.items[n] = me.items[n]
                                    \/ /\ n - Len(me.items) \in 1..Len(page)
                                       /\ now.items[n] = page[n - Len(me.items)]
  BY <1>2, <1>3, <1>5
<1>12. ASSUME NEW n \in 1..Len(now.items)
       PROVE  /\ now.items[n] \in Stored
              /\ now.status = "reading" => Rank(now.items[n]) <= now.cursor
  <2>1. CASE n \in 1..Len(me.items) /\ now.items[n] = me.items[n]
    <3>1. now.items[n] \in Stored /\ Rank(now.items[n]) <= me.cursor /\ Rank(now.items[n]) \in Nat
      BY <1>7, <1>8, <2>1
    <3>2. ASSUME now.status = "reading" PROVE Rank(now.items[n]) <= now.cursor
      <4>1. now.cursor = Rank(page[Len(page)]) /\ Len(rows) > me.limit
        BY <1>1, <1>3, <1>4, <3>2 DEF ListingInv, Listings, me, now
      <4>2. Len(page) \in 1..Len(page)
        BY <1>2, <4>1
      <4>3. Rank(page[Len(page)]) \in Nat /\ Rank(page[Len(page)]) > me.cursor
        BY <1>2, <1>8, <4>2
      <4> QED
        BY <1>3, <3>1, <4>1, <4>3
    <3> QED
      BY <3>1, <3>2
  <2>2. CASE n - Len(me.items) \in 1..Len(page) /\ now.items[n] = page[n - Len(me.items)]
    BY <1>2, <1>5, <2>2
  <2> QED
    BY <1>11, <2>1, <2>2
<1>13. ReceivedOK(r)'
  BY <1>6, <1>10, <1>12 DEF ReceivedOK, InRankOrder, now
<1>14. ASSUME NEW q \in Readers, q # r PROVE ReceivedOK(q)'
  BY <1>5, <1>6, <1>14 DEF OrderInv, ReceivedOK, InRankOrder
<1> QED
  BY <1>1, <1>13, <1>14 DEF OrderInv

\* What was received keeps its ranks whatever the archive goes through.
LEMMA TablesChangeOrdered ==
  ASSUME OrderInv, TablesChange
  PROVE  OrderInv'
<1>1. ListingInv' /\ ArchiveNext /\ ArchiveTypeOK
  BY TablesChangeKept DEF OrderInv, ListingInv, TablesChange
<1>2. \A i \in Stored : i \in Stored' /\ Rank(i)' = Rank(i)
  <2>1. \A i \in Ids : events[i] # None => events'[i] = events[i]
    BY <1>1, RowsAreFinal
  <2> QED
    BY <2>1 DEF Stored, Rank
<1>3. ASSUME NEW r \in Readers PROVE ReceivedOK(r)'
  <2>1. /\ reader'[r].items = reader[r].items /\ reader'[r].cursor = reader[r].cursor
        /\ reader'[r].status = reader[r].status
    BY DEF OrderInv, ListingInv, Listings, TablesChange
  <2>2. ReceivedOK(r)
    BY DEF OrderInv
  <2> QED
    BY <1>2, <2>1, <2>2 DEF ReceivedOK, InRankOrder
<1> QED
  BY <1>1, <1>3 DEF OrderInv

\* A listing starts with nothing.
LEMMA StartListingOrdered ==
  ASSUME OrderInv, NEW r \in Readers, NEW c \in Conversations, NEW t \in BOOLEAN,
         NEW l \in PageLimits, StartListing(r, c, t, l)
  PROVE  OrderInv'
<1>1. ListingInv' /\ UNCHANGED tables
  BY StartListingKept DEF OrderInv, StartListing
<1>2. /\ reader'[r].items = <<>>
      /\ \A q \in Readers : q # r => reader'[q] = reader[q]
  BY DEF OrderInv, ListingInv, StartListing, IdleListing
<1>3. Stored' = Stored /\ \A i : Rank(i)' = Rank(i)
  BY <1>1 DEF tables, Stored, Rank
<1>4. ReceivedOK(r)'
  BY <1>2 DEF ReceivedOK, InRankOrder
<1>5. ASSUME NEW q \in Readers, q # r PROVE ReceivedOK(q)'
  BY <1>2, <1>3, <1>5 DEF OrderInv, ReceivedOK, InRankOrder
<1> QED
  BY <1>1, <1>4, <1>5 DEF OrderInv

\* No listing receives an event twice, for any page limit, any order in which
\* events arrive and any replacement or retention between two pages.
THEOREM PagesStayInOrder == ListingSpec => []PagesNeverRepeat
<1>1. ListingInit => OrderInv
  <2> SUFFICES ASSUME ListingInit PROVE OrderInv
    OBVIOUS
  <2>1. ListingInv
    BY ListingStarts
  <2>2. \A r \in Readers : reader[r].items = <<>>
    BY DEF ListingInit, IdleListing
  <2> QED
    BY <2>1, <2>2 DEF OrderInv, ReceivedOK, InRankOrder
<1>2. OrderInv /\ [ListingNext]_lvars => OrderInv'
  <2> SUFFICES ASSUME OrderInv, [ListingNext]_lvars PROVE OrderInv'
    OBVIOUS
  <2>1. CASE UNCHANGED lvars
    BY <2>1 DEF lvars, tables, OrderInv, ReceivedOK, InRankOrder, ListingInv, ListingOK,
                ArchiveTypeOK, Stored, Visible, Superseded, Rank
  <2> QED
    BY <2>1, TablesChangeOrdered, NextPageOrdered, StartListingOrdered DEF ListingNext
<1>3. OrderInv => PagesNeverRepeat
  BY DEF OrderInv, ReceivedOK, InRankOrder, PagesNeverRepeat
<1> QED
  BY <1>1, <1>2, <1>3, PTL DEF ListingSpec

\* What a tombstone or a replacement hides stays hidden: neither row goes, and
\* retention that expires the replacement leaves it in its place.
THEOREM HiddenStaysHidden == ListingSpec => NeverResurrected
<1> DEFINE Hides == \A c \in Conversations, t \in BOOLEAN :
                      \A i \in Visible(c, t)' : events[i] # None => i \in Visible(c, t)
<1>1. ListingInit => ArchiveTypeOK
  BY DEF ListingInit, ArchiveInit, ArchiveTypeOK
<1>2. ArchiveTypeOK /\ [ListingNext]_lvars => ArchiveTypeOK'
  BY TypePreserved DEF ListingNext, TablesChange, NextPage, StartListing, lvars
<1>3. ArchiveTypeOK /\ [ListingNext]_lvars => [Hides]_lvars
  <2> SUFFICES ASSUME ArchiveTypeOK, ListingNext PROVE Hides
    OBVIOUS
  <2>1. CASE UNCHANGED tables
    BY <2>1 DEF tables, Visible, Superseded
  <2>2. CASE ArchiveNext
    <3>1. \A i \in Ids : events[i] # None => events'[i] = events[i]
      BY <2>2, RowsAreFinal
    <3>2. expired \subseteq expired'
      BY <2>2 DEF ArchiveNext, Store, RecordConflict, Replay, Expire, ReplayRetention
    <3>3. ASSUME NEW i, NEW c, Superseded(i, c)
          PROVE  Superseded(i, c)'
      BY <3>1, <3>3 DEF Superseded
    <3> QED
      BY <3>1, <3>2, <3>3 DEF Visible
  <2> QED
    BY <2>1, <2>2 DEF ListingNext, TablesChange, NextPage, StartListing
<1> QED
  BY <1>1, <1>2, <1>3, PTL DEF ListingSpec, NeverResurrected

=============================================================================
