--------------------------- MODULE PostgresArchive ---------------------------
(***************************************************************************)
(* The PostgreSQL adapter of the conversation archive                      *)
(* (PostgresConversationArchive of src/conversation-archive-v1.mjs): every *)
(* call is a READ COMMITTED transaction on a connection of its own, its    *)
(* statements interleave with those of other calls, and a connection may   *)
(* break at any statement, the COMMIT included.                            *)
(*                                                                         *)
(* tables (of ConversationArchive) is what is committed; tx[s] is what the *)
(* server holds for the open transaction of session s: its advisory locks  *)
(* and its uncommitted rows.                                               *)
(***************************************************************************)
EXTENDS ConversationArchive, Sequences

CONSTANTS
  Sessions,      \* connections of the pool
  MaxCalls,      \* bound: calls in one behaviour
  MaxFaults      \* bound: failures in one behaviour

ASSUME PostgresAssumption ==
  /\ MaxCalls \in Nat /\ MaxFaults \in Nat
  /\ None \notin Keys /\ None \notin Rows

VARIABLES
  pc,            \* where each call is
  call,          \* what each session was called with, and what it will answer
  tx,            \* open transaction of each session on the server
  answers,       \* history: answers given, and whether the call had committed
  calls,         \* calls so far
  faults         \* failures so far

pvars == <<tables, pc, call, tx, answers, calls, faults>>

InTransaction == {"lock", "read", "references", "insertEvent", "insertRequest",
                  "conflictRow", "conflictRequest", "snapshot", "update",
                  "audit", "commit"}
NoCall == [payload |-> None, key |-> None, cutoff |-> None, limit |-> None,
           outcome |-> "none", landed |-> FALSE]
NoTx == [open |-> FALSE, locks |-> {}, inserts |-> None, evidence |-> None,
         claim |-> None, snapshot |-> {}, batch |-> {}, audited |-> FALSE]

PostgresInit ==
  /\ ArchiveInit
  /\ pc = [s \in Sessions |-> "idle"]
  /\ call = [s \in Sessions |-> NoCall]
  /\ tx = [s \in Sessions |-> NoTx]
  /\ answers = {}
  /\ calls = 0
  /\ faults = 0

At(s, step) == pc[s] = step
Goto(s, step) == pc' = [pc EXCEPT ![s] = step]
Plan(s, outcome) == call' = [call EXCEPT ![s].outcome = outcome]
NoFault == UNCHANGED <<answers, calls, faults>>
TablesUnchanged == UNCHANGED tables

IsRetention(s) == call[s].payload = None
HeldByOther(s, lock) == \E o \in Sessions \ {s} : lock \in tx[o].locks
ClaimedByOther(s, k) == \E o \in Sessions \ {s} : tx[o].claim = k
Picked(s) == UNION {tx[o].batch : o \in Sessions \ {s}}

\* The call ends in a transaction that is rolled back, with this answer.
RollBack(s, outcome) ==
  /\ tx' = [tx EXCEPT ![s] = NoTx]
  /\ Goto(s, "answer")
  /\ Plan(s, outcome)

\* A statement fails: the server drops the transaction, the call re-reads what
\* was committed.
Fails(s) == tx' = [tx EXCEPT ![s] = NoTx] /\ Goto(s, "recover") /\ UNCHANGED call

(***************************************************************************)
(* Calls                                                                   *)
(***************************************************************************)

BeginWrite(s, p, k) ==
  /\ At(s, "idle") /\ ~tx[s].open
  /\ calls < MaxCalls /\ calls' = calls + 1
  /\ call' = [call EXCEPT ![s] = [NoCall EXCEPT !.payload = p, !.key = k]]
  /\ tx' = [tx EXCEPT ![s] = [NoTx EXCEPT !.open = TRUE]]
  /\ Goto(s, "lock")
  /\ TablesUnchanged /\ UNCHANGED <<answers, faults>>

BeginRetention(s, k, cutoff, limit) ==
  /\ At(s, "idle") /\ ~tx[s].open
  /\ calls < MaxCalls /\ calls' = calls + 1
  /\ call' = [call EXCEPT ![s] =
                [NoCall EXCEPT !.key = k, !.cutoff = cutoff, !.limit = limit]]
  /\ tx' = [tx EXCEPT ![s] = [NoTx EXCEPT !.open = TRUE]]
  /\ Goto(s, "lock")
  /\ TablesUnchanged /\ UNCHANGED <<answers, faults>>

\* The sorted advisory locks of a call.
LockOrder(s) ==
  IF IsRetention(s) THEN << <<"retention", call[s].key>> >>
  ELSE << <<"event", call[s].payload.id>>, <<"idempotency", call[s].key>> >>

TakeLock(s) ==
  LET n == Cardinality(tx[s].locks) + 1
      lock == LockOrder(s)[n]
  IN /\ At(s, "lock")
     /\ ~HeldByOther(s, lock)
     /\ tx' = [tx EXCEPT ![s].locks = @ \cup {lock}]
     /\ Goto(s, IF n = Len(LockOrder(s)) THEN "read" ELSE "lock")
     /\ UNCHANGED call /\ TablesUnchanged /\ NoFault

\* The request and event rows of a write.
Read(s) ==
  LET p == call[s].payload
      k == call[s].key
  IN /\ At(s, "read") /\ ~IsRetention(s)
     /\ \/ /\ Replays(p, k)
           /\ Goto(s, "audit") /\ Plan(s, "duplicate") /\ UNCHANGED tx
        \/ /\ ~Replays(p, k) /\ events[p.id] # None
           /\ Goto(s, "conflictRow") /\ Plan(s, "conflict_visible") /\ UNCHANGED tx
        \/ /\ ~Replays(p, k) /\ events[p.id] = None /\ requests[k] # None
           /\ RollBack(s, "request_invalid")
        \/ /\ events[p.id] = None /\ requests[k] = None
           /\ Goto(s, "references") /\ UNCHANGED <<call, tx>>
     /\ TablesUnchanged /\ NoFault

References(s) ==
  /\ At(s, "references")
  /\ IF ReferencesAreLocal(call[s].payload)
     THEN Goto(s, "insertEvent") /\ Plan(s, "stored") /\ UNCHANGED tx
     ELSE RollBack(s, "request_invalid")
  /\ TablesUnchanged /\ NoFault

\* The primary key refuses a second row of an event.
InsertEvent(s) ==
  /\ At(s, "insertEvent")
  /\ IF events[call[s].payload.id] = None
     THEN /\ tx' = [tx EXCEPT ![s].inserts = call[s].payload]
          /\ Goto(s, "insertRequest")
          /\ UNCHANGED call
     ELSE Fails(s)
  /\ TablesUnchanged /\ NoFault

\* INSERT of the request row: it waits for an uncommitted row of the same key
\* and fails on a committed one.
InsertRequest(s) ==
  LET k == call[s].key IN
  /\ At(s, "insertRequest")
  /\ ~ClaimedByOther(s, k)
  /\ IF requests[k] = None
     THEN tx' = [tx EXCEPT ![s].claim = k] /\ Goto(s, "audit") /\ UNCHANGED call
     ELSE Fails(s)
  /\ TablesUnchanged /\ NoFault

ConflictRow(s) ==
  /\ At(s, "conflictRow")
  /\ tx' = [tx EXCEPT ![s].evidence = call[s].payload]
  /\ Goto(s, "conflictRequest")
  /\ UNCHANGED call /\ TablesUnchanged /\ NoFault

\* Mutant: the row of the earlier request is replaced.
ConflictRequestReplaces(s) ==
  /\ At(s, "conflictRequest")
  /\ ~ClaimedByOther(s, call[s].key)
  /\ tx' = [tx EXCEPT ![s].claim = call[s].key]
  /\ Goto(s, "audit")
  /\ UNCHANGED call /\ TablesUnchanged /\ NoFault

\* ON CONFLICT DO NOTHING: the row of an earlier request stays.
ConflictRequest(s) ==
  LET k == call[s].key IN
  /\ At(s, "conflictRequest")
  /\ ~ClaimedByOther(s, k)
  /\ tx' = IF requests[k] = None THEN [tx EXCEPT ![s].claim = k] ELSE tx
  /\ Goto(s, "audit")
  /\ UNCHANGED call /\ TablesUnchanged /\ NoFault

ReadRetention(s) ==
  LET k == call[s].key IN
  /\ At(s, "read") /\ IsRetention(s)
  /\ \/ /\ requests[k] = RetentionRow(call[s].cutoff, call[s].limit)
        /\ Goto(s, "audit") /\ Plan(s, "duplicate") /\ UNCHANGED tx
     \/ /\ requests[k] \notin {None, RetentionRow(call[s].cutoff, call[s].limit)}
        /\ RollBack(s, "request_invalid")
     \/ /\ requests[k] = None
        /\ Goto(s, "snapshot") /\ Plan(s, "retention_expired") /\ UNCHANGED tx
  /\ TablesUnchanged /\ NoFault

\* The UPDATE statement sees the tables as of its start ...
Snapshot(s) ==
  /\ At(s, "snapshot")
  /\ tx' = [tx EXCEPT ![s].snapshot = Eligible(call[s].cutoff)]
  /\ Goto(s, "update")
  /\ UNCHANGED call /\ TablesUnchanged /\ NoFault

\* ... waits for the rows another retention is expiring and skips those it has.
Update(s) ==
  /\ At(s, "update")
  /\ \E batch \in Batches(tx[s].snapshot \ expired, call[s].limit) :
       /\ batch \cap Picked(s) = {}
       /\ tx' = [tx EXCEPT ![s].batch = batch]
  /\ Goto(s, "insertRequest")
  /\ UNCHANGED call /\ TablesUnchanged /\ NoFault

AuditRow(s) ==
  /\ At(s, "audit")
  /\ tx' = [tx EXCEPT ![s].audited = TRUE]
  /\ Goto(s, "commit")
  /\ UNCHANGED call /\ TablesUnchanged /\ NoFault

\* Mutant: an audit row that cannot be inserted is left out.
AuditFailsOpen(s) ==
  /\ At(s, "audit")
  /\ faults < MaxFaults /\ faults' = faults + 1
  /\ Goto(s, "commit")
  /\ UNCHANGED <<call, tx>> /\ TablesUnchanged /\ UNCHANGED <<answers, calls>>

AuditFails(s) ==
  /\ At(s, "audit")
  /\ faults < MaxFaults /\ faults' = faults + 1
  /\ RollBack(s, "audit_unavailable")
  /\ TablesUnchanged /\ UNCHANGED <<answers, calls>>

(***************************************************************************)
(* COMMIT                                                                  *)
(***************************************************************************)

RequestRow(s) ==
  IF IsRetention(s) THEN RetentionRow(call[s].cutoff, call[s].limit)
  ELSE WriteRow(call[s].payload, IF tx[s].evidence = None THEN "stored"
                                 ELSE "conflict_visible")

\* The transaction of a session becomes visible at once.
Apply(s) ==
  LET t == tx[s]
      record == IF IsRetention(s) THEN <<"apply_retention", None>>
                ELSE <<Operation(call[s].payload), call[s].payload.id>>
  IN /\ events' = IF t.inserts = None THEN events
                  ELSE [events EXCEPT ![t.inserts.id] = t.inserts]
     /\ conflicts' = conflicts \cup ({t.evidence} \ {None})
     /\ requests' = IF t.claim = None THEN requests
                    ELSE [requests EXCEPT ![t.claim] = RequestRow(s)]
     /\ expired' = expired \cup t.batch
     /\ audit' = IF t.audited THEN audit \cup {record} ELSE audit

Commit(s) ==
  /\ At(s, "commit")
  /\ Apply(s)
  /\ tx' = [tx EXCEPT ![s] = NoTx]
  /\ call' = [call EXCEPT ![s].landed = TRUE]
  /\ Goto(s, "answer")
  /\ NoFault

\* The acknowledgement of a COMMIT that took effect is lost.
CommitUnacknowledged(s) ==
  /\ At(s, "commit")
  /\ faults < MaxFaults /\ faults' = faults + 1
  /\ Apply(s)
  /\ tx' = [tx EXCEPT ![s] = NoTx]
  /\ call' = [call EXCEPT ![s].landed = TRUE]
  /\ Goto(s, "recover")
  /\ UNCHANGED <<answers, calls>>

\* The connection breaks before the COMMIT took effect, or at any statement but
\* the audit, whose failure is answered as such.
ConnectionBreaks(s) ==
  /\ pc[s] \in InTransaction \ {"audit"}
  /\ faults < MaxFaults /\ faults' = faults + 1
  /\ Fails(s)
  /\ TablesUnchanged /\ UNCHANGED <<answers, calls>>

(***************************************************************************)
(* _committedWriteOutcome and _committedRetentionOutcome                   *)
(***************************************************************************)

\* Mutant: any row of the key proves that the call was committed.
RecoveredByKeyOnly(s) ==
  IF requests[call[s].key] = None THEN "transaction_rolled_back" ELSE "duplicate"

\* What the idempotency row tells of a call whose connection broke.
Recovered(s) ==
  LET p == call[s].payload
      k == call[s].key
  IN IF IsRetention(s)
     THEN IF requests[k] = RetentionRow(call[s].cutoff, call[s].limit)
          THEN "duplicate" ELSE "transaction_rolled_back"
     ELSE CASE ~Replays(p, k) -> "transaction_rolled_back"
            [] Replays(p, k) /\ requests[k].outcome = "stored" -> "duplicate"
            [] Replays(p, k) /\ requests[k].outcome # "stored" -> "conflict_visible"

Recover(s) ==
  /\ At(s, "recover")
  /\ Goto(s, "answer")
  /\ Plan(s, Recovered(s))
  /\ UNCHANGED tx /\ TablesUnchanged /\ NoFault

\* The recovery read fails as well.
RecoveryFails(s) ==
  /\ At(s, "recover")
  /\ faults < MaxFaults /\ faults' = faults + 1
  /\ Goto(s, "answer")
  /\ Plan(s, "transaction_rolled_back")
  /\ UNCHANGED tx /\ TablesUnchanged /\ UNCHANGED <<answers, calls>>

Answer(s) ==
  /\ At(s, "answer")
  /\ answers' = answers \cup {[payload |-> call[s].payload, key |-> call[s].key,
                               outcome |-> call[s].outcome, landed |-> call[s].landed]}
  /\ call' = [call EXCEPT ![s] = NoCall]
  /\ Goto(s, "idle")
  /\ UNCHANGED <<tx, calls, faults>> /\ TablesUnchanged

CallStep(s) ==
  \/ TakeLock(s) \/ Read(s) \/ References(s) \/ InsertEvent(s) \/ InsertRequest(s)
  \/ ConflictRow(s) \/ ConflictRequest(s) \/ ReadRetention(s) \/ Snapshot(s)
  \/ Update(s) \/ AuditRow(s) \/ Commit(s) \/ Recover(s) \/ Answer(s)

Fault(s) ==
  AuditFails(s) \/ CommitUnacknowledged(s) \/ ConnectionBreaks(s) \/ RecoveryFails(s)

\* Every call that the bound allows has been answered.
Finished == /\ calls = MaxCalls /\ \A s \in Sessions : pc[s] = "idle"
            /\ UNCHANGED pvars

PostgresNext ==
  \/ \E s \in Sessions :
       \/ CallStep(s)
       \/ Fault(s)
       \/ \E p \in Payloads : \E k \in KeysFor[p.id] : BeginWrite(s, p, k)
       \/ \E k \in Keys, c \in Cutoffs, l \in Limits : BeginRetention(s, k, c, l)
  \/ Finished

PostgresSpec == PostgresInit /\ [][PostgresNext]_pvars

(***************************************************************************)
(* Properties                                                              *)
(***************************************************************************)

\* An answer that claims an effect is true: "stored" and "duplicate" mean that
\* this payload is stored, "conflict_visible" that its evidence is kept, also
\* when the answer was recovered after a lost COMMIT acknowledgement.
AnswersAreTrue ==
  \A a \in answers : a.payload # None =>
    /\ a.outcome \in {"stored", "duplicate"} => events[a.payload.id] = a.payload
    /\ a.outcome = "conflict_visible" => a.payload \in conflicts

\* transaction_rolled_back changes neither state nor committed audit row
\* (docs/conversation-archive-interface-v1.md:42).
RolledBackChangesNothing ==
  \A a \in answers : a.outcome = "transaction_rolled_back" => ~a.landed

(***************************************************************************)
(* What the adapter implements                                             *)
(***************************************************************************)

\* The committed tables are those of LooseArchive.
Loose == INSTANCE LooseArchive

\* The concurrent transactions, their failures and lost acknowledgements have
\* the effect of whole calls made one after the other: the writes as the SQLite
\* adapter makes them, retention as in LooseArchive.
ImplementsLooseArchive == Loose!LooseArchiveSpec

=============================================================================
