--------------------------- MODULE FabricProposals ---------------------------
(***************************************************************************)
(* Proposals, curator receipts and retention of the fabric store           *)
(* (FabricStore and PostgresCatalog of src/fabric-store.mjs, with the      *)
(* receipt checks of CuratorReceiptCoordinator, src/canonical-memory-      *)
(* bridge.mjs).  A call reads the catalog a few times on its own and then  *)
(* writes in one READ COMMITTED transaction; its statements interleave     *)
(* with those of calls of other processes, and any of them may fail, the   *)
(* COMMIT with or without effect.                                          *)
(*                                                                         *)
(* The tables are what is committed; tx[s] is the open transaction of call *)
(* s: the locks it holds and the rows it has written.  A content stands    *)
(* for a payload and its address; the raw_objects_v2 row of a content is   *)
(* inserted with its raw_retention_v2 row and never deleted, so lifecycle  *)
(* stands for both.                                                        *)
(***************************************************************************)
EXTENDS Naturals, FiniteSets, FiniteSetsExt

CONSTANTS
  ProposalKeys,  \* idempotency keys of one owner; a key names the proposal
  Contents,      \* content ids, in their order as text
  ProposeInputs, \* <<key, content>> pairs that callers propose
  Receipts,      \* receipts that curators and applicators send
  Operations,    \* idempotency keys of retention calls
  Requests,      \* retention requests: candidate contents and a reason
  Due,           \* contents whose retention has ended as of the plan
  Sessions,      \* calls that may run at once, each of another process
  MaxCalls,      \* bound: calls in one behaviour
  MaxFaults,     \* bound: failures in one behaviour
  NoEntry

Live == {"queued", "review", "promoted"}
Terminal == {"rejected", "revoked"}

Decisions == {r \in Receipts : r.kind = "decision"}

\* The rows of the tables.
ProposalRow == [content : Contents, status : Live \cup Terminal]
Ledger == [decision : Decisions, apply : (Receipts \ Decisions) \cup {NoEntry}]
OperationRow == [request : Requests,
                 results : SUBSET [content : Contents, gcCandidate : BOOLEAN]]

ASSUME ProposalsAssumption ==
  /\ Contents \subseteq Nat /\ Due \subseteq Contents
  /\ ProposeInputs \subseteq ProposalKeys \X Contents
  /\ \A r \in Receipts : r.key \in ProposalKeys
  /\ \A r \in Decisions : r.status \in {"review_required", "approved_pending_apply", "rejected"}
  /\ \A q \in Requests :
       /\ q.contents \in SUBSET Contents /\ q.contents # {} /\ IsFiniteSet(q.contents)
       /\ q.reason \in {"retention_expired", "revoked", "forgotten"}
  /\ NoEntry \notin Contents /\ NoEntry \notin Receipts /\ NoEntry \notin ProposalRow
  /\ NoEntry \notin Ledger /\ NoEntry \notin OperationRow
  /\ NoEntry \notin Live \cup Terminal \cup {"expired", "forgotten"}
  /\ MaxCalls \in Nat /\ MaxFaults \in Nat

VARIABLES
  proposals,     \* fabric_proposals: content and status of each key
  lifecycle,     \* raw_retention_v2 (and raw_objects_v2): state of each content
  tombstones,    \* retention_tombstones_v2: tombstones of each content
  receipts,      \* curator_receipt_state_v1: decision and apply of each proposal
  operations,    \* retention_operations_v2: request and response of each key
  auditRows,     \* audit_events_v2: <<receipt, outcome>> rows of receipts
  blobs,         \* encrypted payloads of the raw store
  pc,            \* where each call is
  call,          \* what each call was asked, and what it will answer
  tx,            \* open transaction of each call
  calls,         \* calls so far
  faults         \* failures so far

fabricTables == <<proposals, lifecycle, tombstones, receipts, operations, auditRows>>
vars == <<fabricTables, blobs, pc, call, tx, calls, faults>>

NoCall == [kind |-> "none", key |-> NoEntry, content |-> NoEntry, receipt |-> NoEntry,
           operation |-> NoEntry, request |-> NoEntry, outcome |-> "none", results |-> {}]
NoTx == [locks |-> {}, proposal |-> NoEntry, status |-> [k \in ProposalKeys |-> NoEntry],
         lifecycle |-> [c \in Contents |-> NoEntry], ledger |-> NoEntry, audited |-> "none",
         todo |-> {}, results |-> {}, claims |-> FALSE]

Init ==
  /\ proposals = [k \in ProposalKeys |-> NoEntry]
  /\ lifecycle = [c \in Contents |-> "none"]
  /\ tombstones = [c \in Contents |-> 0]
  /\ receipts = [k \in ProposalKeys |-> NoEntry]
  /\ operations = [o \in Operations |-> NoEntry]
  /\ auditRows = {} /\ blobs = {}
  /\ pc = [s \in Sessions |-> "idle"]
  /\ call = [s \in Sessions |-> NoCall]
  /\ tx = [s \in Sessions |-> NoTx]
  /\ calls = 0 /\ faults = 0

At(s, step) == pc[s] = step
Goto(s, step) == pc' = [pc EXCEPT ![s] = step]
TablesUnchanged == UNCHANGED fabricTables
OnlyCall == TablesUnchanged /\ UNCHANGED <<blobs, calls, faults>>
HeldByOther(s, lock) == \E o \in Sessions \ {s} : lock \in tx[o].locks
Acquire(s, locks) == tx' = [tx EXCEPT ![s].locks = @ \cup locks]

\* The call ends with this answer; an open transaction is rolled back.
Answers(s, outcome, results) ==
  /\ Goto(s, "answer")
  /\ call' = [call EXCEPT ![s].outcome = outcome, ![s].results = results]
  /\ tx' = [tx EXCEPT ![s] = NoTx]
Ends(s, outcome) == Answers(s, outcome, {})
Proceeds(s, step) == Goto(s, step) /\ UNCHANGED <<call, tx>>

Begin(s, fields, step) ==
  /\ At(s, "idle") /\ calls < MaxCalls
  /\ calls' = calls + 1
  /\ call' = [call EXCEPT ![s] = fields]
  /\ Goto(s, step)
  /\ TablesUnchanged /\ UNCHANGED <<blobs, tx, faults>>

(***************************************************************************)
(* propose                                                                 *)
(***************************************************************************)

Propose(s, k, c) ==
  Begin(s, [NoCall EXCEPT !.kind = "propose", !.key = k, !.content = c], "find")

\* What a proposal found under the key tells the caller.
Known(s, p) == IF p.content = call[s].content THEN "duplicate" ELSE "conflict"

FindProposal(s) ==
  LET p == proposals[call[s].key] IN
  /\ At(s, "find")
  /\ IF p = NoEntry THEN Proceeds(s, "blob") ELSE Ends(s, Known(s, p))
  /\ OnlyCall

\* The encrypted payload is on disk before the catalog refers to it.
CommitBlob(s) ==
  /\ At(s, "blob")
  /\ blobs' = blobs \cup {call[s].content}
  /\ Proceeds(s, "insertRaw")
  /\ TablesUnchanged /\ UNCHANGED <<calls, faults>>

\* raw_objects_v2 and raw_retention_v2, each ON CONFLICT DO NOTHING: waits for
\* an uncommitted row of the content, keeps a committed one as it is.
InsertRaw(s) ==
  LET c == call[s].content IN
  /\ At(s, "insertRaw")
  /\ ~HeldByOther(s, <<"raw", c>>)
  /\ IF lifecycle[c] = "none" THEN Acquire(s, {<<"raw", c>>, <<"retention", c>>})
     ELSE UNCHANGED tx
  /\ Goto(s, "insertProposal") /\ UNCHANGED call
  /\ OnlyCall

\* Waits for an uncommitted row of the key.  If a row exists, the raw object is
\* deleted again unless a proposal refers to it; its retention row, inserted
\* above, refers to it as well, so that the DELETE fails.
InsertProposal(s) ==
  LET k == call[s].key
      c == call[s].content
      referenced == \E q \in ProposalKeys : proposals[q] # NoEntry /\ proposals[q].content = c
  IN /\ At(s, "insertProposal")
     /\ ~HeldByOther(s, <<"proposal", k>>)
     /\ \/ /\ proposals[k] = NoEntry
           /\ tx' = [tx EXCEPT ![s].locks = @ \cup {<<"proposal", k>>},
                               ![s].proposal = [content |-> c, status |-> "queued"]]
           /\ call' = [call EXCEPT ![s].outcome = "queued"]
           /\ Goto(s, "commit")
        \/ /\ proposals[k] # NoEntry /\ referenced
           /\ call' = [call EXCEPT ![s].outcome = Known(s, proposals[k])]
           /\ Goto(s, "commit") /\ UNCHANGED tx
        \/ /\ proposals[k] # NoEntry /\ ~referenced
           /\ Ends(s, "unavailable")
     /\ OnlyCall

\* Mutant: a proposal of the key is taken for the one that was sent.
ReconcileByKey(s) ==
  LET p == proposals[call[s].key] IN
  /\ At(s, "reconcile") /\ call[s].kind = "propose"
  /\ Ends(s, IF p = NoEntry THEN "unavailable" ELSE "duplicate")
  /\ OnlyCall

\* After a COMMIT whose acknowledgement was lost: what is stored under the key?
\* (The proposal's own row, found again, is answered as "queued" was: only the
\* duplicate flag differs.)
ReconcileProposal(s) ==
  LET p == proposals[call[s].key] IN
  /\ At(s, "reconcile") /\ call[s].kind = "propose"
  /\ Ends(s, IF p = NoEntry THEN "unavailable" ELSE Known(s, p))
  /\ OnlyCall

(***************************************************************************)
(* Curator receipts                                                        *)
(***************************************************************************)

SendReceipt(s, r) ==
  Begin(s, [NoCall EXCEPT !.kind = "receipt", !.key = r.key, !.receipt = r], "preflight")

\* readProposalForReceiptAuthorized
Preflight(s) ==
  LET r == call[s].receipt
      p == proposals[call[s].key]
  IN /\ At(s, "preflight")
     /\ \/ p = NoEntry /\ Ends(s, "not_found")
        \/ p # NoEntry /\ p.status \in Terminal /\ Proceeds(s, "replay")
        \/ p # NoEntry /\ p.status \in Live
           /\ Proceeds(s, IF r.kind = "decision" THEN "lockProposal" ELSE "decision")
     /\ OnlyCall

\* Of a terminal proposal, only its own decision may be sent again.
TerminalReplay(s) ==
  LET l == receipts[call[s].key] IN
  /\ At(s, "replay")
  /\ IF l # NoEntry /\ l.decision = call[s].receipt THEN Proceeds(s, "lockProposal")
     ELSE Ends(s, "invalid")
  /\ OnlyCall

\* An apply receipt names the decision it carries out.
ReadDecision(s) ==
  LET l == receipts[call[s].key] IN
  /\ At(s, "decision")
  /\ IF l # NoEntry /\ l.decision = call[s].receipt.decision THEN Proceeds(s, "eligible")
     ELSE Ends(s, "invalid")
  /\ OnlyCall

\* assertPromotionEligible reads the proposal again; the canonical store then
\* verifies the record that was written, or refuses it.
ReceiptEligible(s) ==
  LET p == proposals[call[s].key] IN
  /\ At(s, "eligible")
  /\ \/ p.status \in Terminal /\ Ends(s, "not_found")
     \/ p.status \in Live /\ Proceeds(s, "lockProposal")
     \/ p.status \in Live /\ Ends(s, "invalid")
  /\ OnlyCall

LockProposal(s) ==
  LET lock == <<"advisory", call[s].key>> IN
  /\ At(s, "lockProposal")
  /\ ~HeldByOther(s, lock)
  /\ Acquire(s, {lock})
  /\ Goto(s, "record") /\ UNCHANGED call
  /\ OnlyCall

\* The rows a receipt writes: the ledger, the status of the proposal and the
\* audit row.
Writes(s, ledger, status, outcome) ==
  /\ tx' = [tx EXCEPT ![s].locks = @ \cup {<<"proposal", call[s].key>>},
                      ![s].ledger = ledger,
                      ![s].status = [@ EXCEPT ![call[s].key] = status],
                      ![s].audited = outcome]
  /\ call' = [call EXCEPT ![s].outcome = outcome]
  /\ Goto(s, "commit")

StatusAfter(r) == IF r.status = "rejected" THEN "rejected" ELSE "review"

\* A decision after review replaces review_required, and nothing else does.
Supersedes(l, r) ==
  /\ l.decision.status = "review_required" /\ l.apply = NoEntry
  /\ r.status \in {"approved_pending_apply", "rejected"}

RecordDecision(s) ==
  LET r == call[s].receipt
      p == proposals[call[s].key]
      l == receipts[call[s].key]
      same == l # NoEntry /\ l.decision = r
  IN IF p.status \in Terminal /\ ~same THEN Ends(s, "invalid")
     ELSE \/ same /\ Writes(s, NoEntry, NoEntry, "duplicate")
          \/ /\ l = NoEntry
             /\ Writes(s, [decision |-> r, apply |-> NoEntry], StatusAfter(r), "recorded")
          \/ /\ l # NoEntry /\ ~same /\ Supersedes(l, r)
             /\ Writes(s, [decision |-> r, apply |-> NoEntry], StatusAfter(r), "superseded")
          \/ l # NoEntry /\ ~same /\ ~Supersedes(l, r) /\ Ends(s, "conflict")

\* The decision is checked again; the status of the proposal is not.
RecordApply(s) ==
  LET r == call[s].receipt
      l == receipts[call[s].key]
      approved == l # NoEntry /\ l.decision.status = "approved_pending_apply"
  IN \/ ~approved /\ Ends(s, "invalid")
     \/ approved /\ l.apply = r /\ Writes(s, NoEntry, NoEntry, "duplicate")
     \/ approved /\ l.apply \notin {NoEntry, r} /\ Ends(s, "conflict")
     \/ approved /\ l.apply = NoEntry
        /\ Writes(s, [l EXCEPT !.apply = r], "promoted", "recorded")

\* Mutant: the proposal is read without locking its row.
RecordUnlocked(s) ==
  /\ At(s, "record")
  /\ IF call[s].receipt.kind = "decision" THEN RecordDecision(s) ELSE RecordApply(s)
  /\ OnlyCall

\* SELECT ... FOR UPDATE waits for a retention that is revoking the proposal.
Record(s) ==
  /\ At(s, "record")
  /\ ~HeldByOther(s, <<"proposal", call[s].key>>)
  /\ IF call[s].receipt.kind = "decision" THEN RecordDecision(s) ELSE RecordApply(s)
  /\ OnlyCall

(***************************************************************************)
(* Retention                                                               *)
(***************************************************************************)

ApplyRetention(s, o, q) ==
  Begin(s, [NoCall EXCEPT !.kind = "retention", !.operation = o, !.request = q], "findOperation")

\* The response of an operation that was carried out before.
ReplayOperation(s) ==
  LET op == operations[call[s].operation] IN
  IF op.request = call[s].request THEN Answers(s, "applied", op.results) ELSE Ends(s, "conflict")

FindOperation(s) ==
  /\ At(s, "findOperation")
  /\ IF operations[call[s].operation] = NoEntry THEN Proceeds(s, "lockOperation")
     ELSE ReplayOperation(s)
  /\ OnlyCall

LockOperation(s) ==
  LET o == call[s].operation IN
  /\ At(s, "lockOperation")
  /\ ~HeldByOther(s, <<"operation", o>>)
  /\ \/ operations[o] # NoEntry /\ ReplayOperation(s)
     \/ /\ operations[o] = NoEntry
        /\ tx' = [tx EXCEPT ![s].locks = {<<"operation", o>>}, ![s].claims = TRUE,
                            ![s].todo = call[s].request.contents]
        /\ Goto(s, "select") /\ UNCHANGED call
  /\ OnlyCall

\* Mutant: the candidates are taken in the order in which the caller gave them.
NextCandidateAsGiven(s) ==
  IF call[s].request.reason = "revoked" THEN Max(tx[s].todo) ELSE Min(tx[s].todo)

\* Candidates are sorted.
NextCandidate(s) == Min(tx[s].todo)
AfterCandidate(s) == Goto(s, IF Cardinality(tx[s].todo) = 1 THEN "commit" ELSE "select")
MayEnd(c, reason) == reason = "retention_expired" => c \in Due
Ending(reason) == IF reason = "retention_expired" THEN "expired" ELSE reason

\* SELECT ... FOR UPDATE of the retention row; an active row is ended and its
\* tombstone inserted while it is locked, any other is skipped.  An uncommitted
\* row of a proposal is not seen.
SelectRetention(s) ==
  LET c == NextCandidate(s)
      reason == call[s].request.reason
  IN /\ At(s, "select")
     /\ lifecycle[c] # "none" => ~HeldByOther(s, <<"retention", c>>)
     /\ IF lifecycle[c] = "active" /\ MayEnd(c, reason)
        THEN /\ tx' = [tx EXCEPT ![s].locks = @ \cup {<<"retention", c>>},
                                 ![s].lifecycle = [@ EXCEPT ![c] = Ending(reason)]]
             /\ Goto(s, "revoke")
        ELSE /\ tx' = [tx EXCEPT ![s].todo = @ \ {c}]
             /\ AfterCandidate(s)
     /\ UNCHANGED call
     /\ OnlyCall

\* Mutant: a rejected proposal counts as live.
LiveOfUnlessRevoked(c) == {k \in ProposalKeys : proposals[k] # NoEntry /\ proposals[k].content = c
                                         /\ proposals[k].status # "revoked"}

\* Live proposals of the content.
LiveOf(c) == {k \in ProposalKeys : proposals[k] # NoEntry /\ proposals[k].content = c
                             /\ proposals[k].status \in Live}

\* UPDATE of the live proposals; waits for their rows.
RevokeProposals(s) ==
  LET revoked == LiveOf(NextCandidate(s)) IN
  /\ At(s, "revoke")
  /\ \A k \in ProposalKeys : proposals[k] # NoEntry /\ proposals[k].content = NextCandidate(s)
                        => ~HeldByOther(s, <<"proposal", k>>)
  /\ tx' = [tx EXCEPT ![s].locks = @ \cup ({"proposal"} \X revoked),
                      ![s].status = [k \in ProposalKeys |-> IF k \in revoked THEN "revoked" ELSE @[k]]]
  /\ Goto(s, "references") /\ UNCHANGED call
  /\ OnlyCall

\* SELECT ... FOR SHARE of a live proposal of the content: one that was
\* committed since the UPDATE is seen here.
References(s) ==
  LET c == NextCandidate(s)
      live == {k \in LiveOf(c) : tx[s].status[k] = NoEntry}
  IN /\ At(s, "references")
     /\ \A k \in live : ~HeldByOther(s, <<"proposal", k>>)
     /\ tx' = [tx EXCEPT ![s].locks = @ \cup ({"proposal"} \X live), ![s].todo = @ \ {c},
                         ![s].results = @ \cup {[content |-> c, gcCandidate |-> live = {}]}]
     /\ AfterCandidate(s) /\ UNCHANGED call
     /\ OnlyCall

ReconcileOperation(s) ==
  /\ At(s, "reconcile") /\ call[s].kind = "retention"
  /\ IF operations[call[s].operation] = NoEntry THEN Ends(s, "unavailable")
     ELSE ReplayOperation(s)
  /\ OnlyCall

(***************************************************************************)
(* COMMIT, failures and answers                                            *)
(***************************************************************************)

\* The rows of a transaction become visible at once.
Apply(s) ==
  LET t == tx[s]
      k == call[s].key
      c == call[s].content
  IN /\ proposals' = [q \in ProposalKeys |->
                        IF t.proposal # NoEntry /\ q = k THEN t.proposal
                        ELSE IF t.status[q] # NoEntry THEN [proposals[q] EXCEPT !.status = t.status[q]]
                        ELSE proposals[q]]
     /\ lifecycle' = [d \in Contents |->
                        IF t.lifecycle[d] # NoEntry THEN t.lifecycle[d]
                        ELSE IF d = c /\ lifecycle[d] = "none" THEN "active"
                        ELSE lifecycle[d]]
     /\ tombstones' = [d \in Contents |-> IF t.lifecycle[d] # NoEntry THEN tombstones[d] + 1
                                          ELSE tombstones[d]]
     /\ receipts' = IF t.ledger = NoEntry THEN receipts ELSE [receipts EXCEPT ![k] = t.ledger]
     /\ operations' = IF ~t.claims THEN operations
                      ELSE [operations EXCEPT ![call[s].operation] =
                              [request |-> call[s].request, results |-> t.results]]
     /\ auditRows' = IF t.audited = "none" THEN auditRows ELSE auditRows \cup {<<call[s].receipt, t.audited>>}

\* What a committed call answers.
Committed(s) ==
  IF call[s].kind = "retention" THEN Answers(s, "applied", tx[s].results)
  ELSE Ends(s, call[s].outcome)

Commit(s) ==
  /\ At(s, "commit")
  /\ Apply(s)
  /\ Committed(s)
  /\ UNCHANGED <<blobs, calls, faults>>

\* A failed COMMIT leaves its outcome open: a proposal and a retention look it
\* up, a receipt is answered as failed.
Ambiguous(s) ==
  IF call[s].kind = "receipt" THEN Ends(s, "unavailable")
  ELSE Goto(s, "reconcile") /\ tx' = [tx EXCEPT ![s] = NoTx] /\ UNCHANGED call

CommitFails(s) ==
  /\ At(s, "commit")
  /\ faults < MaxFaults /\ faults' = faults + 1
  /\ (Apply(s) \/ TablesUnchanged)
  /\ Ambiguous(s)
  /\ UNCHANGED <<blobs, calls>>

InTransaction == {"insertRaw", "insertProposal", "lockProposal", "record", "lockOperation",
                  "select", "revoke", "references", "commit"}
Reads == {"find", "blob", "preflight", "replay", "decision", "eligible", "findOperation"}

\* A statement fails before the COMMIT, or a read outside the transaction.
StatementFails(s) ==
  /\ pc[s] \in (InTransaction \ {"commit"}) \cup Reads \cup {"reconcile"}
  /\ faults < MaxFaults /\ faults' = faults + 1
  /\ Ends(s, "unavailable")
  /\ TablesUnchanged /\ UNCHANGED <<blobs, calls>>

Answer(s) ==
  /\ At(s, "answer")
  /\ call' = [call EXCEPT ![s] = NoCall]
  /\ Goto(s, "idle")
  /\ TablesUnchanged /\ UNCHANGED <<blobs, tx, calls, faults>>

ProposeStep(s) ==
  FindProposal(s) \/ CommitBlob(s) \/ InsertRaw(s) \/ InsertProposal(s) \/ ReconcileProposal(s)
ReceiptStep(s) ==
  \/ Preflight(s) \/ TerminalReplay(s) \/ ReadDecision(s) \/ ReceiptEligible(s) \/ LockProposal(s)
  \/ Record(s)
RetentionStep(s) ==
  \/ FindOperation(s) \/ LockOperation(s) \/ SelectRetention(s) \/ RevokeProposals(s)
  \/ References(s) \/ ReconcileOperation(s)

\* Every call that the bound allows has been answered.
Finished == /\ calls = MaxCalls /\ \A s \in Sessions : pc[s] = "idle"
            /\ UNCHANGED vars

Next ==
  \/ \E s \in Sessions :
       \/ \E i \in ProposeInputs : Propose(s, i[1], i[2])
       \/ \E r \in Receipts : SendReceipt(s, r)
       \/ \E o \in Operations, q \in Requests : ApplyRetention(s, o, q)
       \/ ProposeStep(s) \/ ReceiptStep(s) \/ RetentionStep(s)
       \/ Commit(s) \/ CommitFails(s) \/ StatementFails(s) \/ Answer(s)
  \/ Finished

Spec == Init /\ [][Next]_vars

(***************************************************************************)
(* Properties                                                              *)
(***************************************************************************)

ProposalAnswersAreTrue ==
  \A s \in Sessions :
    pc[s] = "answer" /\ call[s].kind = "propose" /\ call[s].outcome \in {"queued", "duplicate"}
      => /\ proposals[call[s].key] # NoEntry
         /\ proposals[call[s].key].content = call[s].content

RetentionAnswersAgree ==
  \A s \in Sessions :
    pc[s] = "answer" /\ call[s].outcome = "applied" =>
      operations[call[s].operation] = [request |-> call[s].request, results |-> call[s].results]

\* A caller that is told "queued" or "duplicate" has this very payload stored
\* and in the catalog, and every retention answer to one operation key is the
\* stored one, given to the request that was stored: retries and looked-up lost
\* COMMITs included (_propose, FabricStore.applyRetention).
CallAnswersAreTrue == ProposalAnswersAreTrue /\ RetentionAnswersAgree

ProposalsAreBacked ==
  \A k \in ProposalKeys : proposals[k] # NoEntry =>
    proposals[k].content \in blobs /\ lifecycle[proposals[k].content] # "none"

StatusMatchesLedger ==
  \A k \in ProposalKeys : proposals[k] # NoEntry =>
    LET status == proposals[k].status
        l == receipts[k]
    IN /\ l = NoEntry => status \in {"queued", "revoked"}
       /\ l # NoEntry =>
            /\ l.apply # NoEntry => /\ l.decision.status = "approved_pending_apply"
                                 /\ l.apply.decision = l.decision
                                 /\ status \in {"promoted", "revoked"}
            /\ l.decision.status = "rejected" <=> status = "rejected"
            /\ l.apply = NoEntry => status \in {"review", "rejected", "revoked"}

\* The catalog is consistent at every commit: a proposal can be decrypted and has
\* a retention row, wherever the process that queued it stopped; and the status of
\* a proposal and its receipts, two tables written under two kinds of locks by two
\* services, tell the same story.
CatalogIsConsistent == ProposalsAreBacked /\ StatusMatchesLedger

\* A new decision never moves a rejected or revoked proposal back
\* (docs/curation-rollout.md:46); a rejected one stays rejected.
DecisionsRespectTerminal ==
  [][\A k \in ProposalKeys : proposals[k] # NoEntry /\ proposals[k].status \in Terminal =>
       \/ proposals'[k] = proposals[k]
       \/ proposals[k].status = "revoked" /\ proposals'[k].status = "promoted"]_vars

\* A call that waits for a lock of another one.
WaitsFor(s, o) ==
  /\ s # o
  /\ \/ pc[s] = "insertRaw" /\ <<"raw", call[s].content>> \in tx[o].locks
     \/ pc[s] \in {"insertProposal", "record"} /\ <<"proposal", call[s].key>> \in tx[o].locks
     \/ pc[s] = "lockProposal" /\ <<"advisory", call[s].key>> \in tx[o].locks
     \/ pc[s] = "lockOperation" /\ <<"operation", call[s].operation>> \in tx[o].locks
     \/ pc[s] = "select" /\ lifecycle[NextCandidate(s)] # "none"
          /\ <<"retention", NextCandidate(s)>> \in tx[o].locks
     \/ pc[s] \in {"revoke", "references"} /\ \E k \in ProposalKeys :
          /\ proposals[k] # NoEntry /\ proposals[k].content = NextCandidate(s)
          /\ <<"proposal", k>> \in tx[o].locks

\* Advisory locks, row locks and unique keys never leave two calls waiting for
\* each other.
NoLockCycle == \A s, o \in Sessions : ~(WaitsFor(s, o) /\ WaitsFor(o, s))
=============================================================================
