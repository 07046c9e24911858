------------------------ MODULE FabricProposalsProofs ------------------------
(***************************************************************************)
(* Proposals, receipts and retention for any number of calls, keys and     *)
(* contents: what callers are told is true (AnswersAreTrue), decisions     *)
(* respect terminal proposals (TerminalStays), no two calls wait for each  *)
(* other (NobodyWaitsForEachOther), and the catalog is consistent          *)
(* (CatalogStaysConsistent) if applicators send receipts for approvals.    *)
(*                                                                         *)
(* The argument.  A call works on rows that it has locked or inserted      *)
(* without a COMMIT, so they are at its COMMIT what it has read, and no    *)
(* COMMIT changes a row that another call holds.  Retentions take locks in *)
(* the order of the contents; proposals and receipts hold nothing that a   *)
(* call they wait for may want.                                            *)
(***************************************************************************)
EXTENDS FabricProposals, FiniteSetTheorems, TLAPS

(***************************************************************************)
(* The inductive invariant                                                 *)
(***************************************************************************)

Endings == {"expired", "revoked", "forgotten"}

TablesTyped ==
  /\ proposals \in [ProposalKeys -> ProposalRow \cup {NoEntry}]
  /\ lifecycle \in [Contents -> {"none", "active"} \cup Endings]
  /\ receipts \in [ProposalKeys -> Ledger \cup {NoEntry}]
  /\ operations \in [Operations -> OperationRow \cup {NoEntry}]

Outcomes == {"none", "queued", "duplicate", "conflict", "unavailable", "not_found", "invalid",
             "recorded", "superseded", "applied"}
Results == SUBSET [content : Contents, gcCandidate : BOOLEAN]

CallType == [kind : {"none", "propose", "receipt", "retention"},
             key : ProposalKeys \cup {NoEntry}, content : Contents \cup {NoEntry},
             receipt : Receipts \cup {NoEntry}, operation : Operations \cup {NoEntry},
             request : Requests \cup {NoEntry}, outcome : Outcomes, results : Results]

Locks == ({"raw", "retention"} \X Contents) \cup ({"proposal", "advisory"} \X ProposalKeys)
           \cup ({"operation"} \X Operations)

TxType == [locks : SUBSET Locks, proposal : ProposalRow \cup {NoEntry},
           status : [ProposalKeys -> Live \cup Terminal \cup {NoEntry}],
           lifecycle : [Contents -> Endings \cup {NoEntry}],
           ledger : Ledger \cup {NoEntry}, audited : Outcomes,
           todo : SUBSET Contents, results : Results, claims : BOOLEAN]

\* Where a call holds no lock.
Unlocked == {"idle", "find", "blob", "insertRaw", "preflight", "replay", "decision", "eligible",
             "lockProposal", "findOperation", "lockOperation", "reconcile", "answer"}
Places == Unlocked \cup {"insertProposal", "record", "select", "revoke", "references", "commit"}

SessionsTyped ==
  /\ pc \in [Sessions -> Places]
  /\ call \in [Sessions -> CallType]
  /\ tx \in [Sessions -> TxType]

\* What a call was asked.
Asked(s) ==
  /\ pc[s] = "idle" => call[s] = NoCall
  /\ pc[s] \in {"find", "blob", "insertRaw", "insertProposal"} => call[s].kind = "propose"
  /\ pc[s] \in {"preflight", "replay", "decision", "eligible", "lockProposal", "record"} =>
       call[s].kind = "receipt"
  /\ pc[s] \in {"findOperation", "lockOperation", "select", "revoke", "references"} =>
       call[s].kind = "retention"
  /\ pc[s] = "reconcile" => call[s].kind \in {"propose", "retention"}
  /\ pc[s] # "idle" => call[s].kind # "none"
  /\ call[s].kind = "propose" =>
       call[s].key \in ProposalKeys /\ call[s].content \in Contents
  /\ call[s].kind # "propose" => call[s].content = NoEntry
  /\ call[s].kind = "receipt" =>
       call[s].receipt \in Receipts /\ call[s].key = call[s].receipt.key
  /\ call[s].kind = "retention" =>
       call[s].operation \in Operations /\ call[s].request \in Requests

\* What a call that is over has been told.
Told(s) ==
  /\ pc[s] = "answer" /\ call[s].kind = "propose" /\ call[s].outcome \in {"queued", "duplicate"} =>
       /\ proposals[call[s].key] # NoEntry
       /\ proposals[call[s].key].content = call[s].content
  /\ pc[s] = "answer" /\ call[s].outcome = "applied" =>
       /\ call[s].kind = "retention"
       /\ operations[call[s].operation] = [request |-> call[s].request, results |-> call[s].results]

\* The transaction writes no row of the other tables.
NoStatus(s) == \A k \in ProposalKeys : tx[s].status[k] = NoEntry
NoEnding(s) == \A c \in Contents : tx[s].lifecycle[c] = NoEntry
OnlyProposes(s) == NoStatus(s) /\ NoEnding(s) /\ tx[s].ledger = NoEntry /\ ~tx[s].claims

\* The transaction of a proposal.
Proposing(s) ==
  LET k == call[s].key
      c == call[s].content
  IN
  /\ call[s].kind = "propose" /\ pc[s] \in {"insertRaw", "insertProposal", "commit"} => c \in blobs
  /\ call[s].kind = "propose" /\ pc[s] \in {"insertProposal", "commit"} =>
       /\ tx[s].locks \subseteq {<<"raw", c>>, <<"retention", c>>, <<"proposal", k>>}
       /\ lifecycle[c] = "none" <=> <<"raw", c>> \in tx[s].locks
       /\ <<"retention", c>> \in tx[s].locks <=> <<"raw", c>> \in tx[s].locks
       /\ OnlyProposes(s)
  /\ pc[s] = "insertProposal" =>
       tx[s].proposal = NoEntry /\ <<"proposal", k>> \notin tx[s].locks
  /\ call[s].kind = "propose" /\ pc[s] = "commit" =>
       \/ /\ tx[s].proposal = [content |-> c, status |-> "queued"]
          /\ proposals[k] = NoEntry /\ <<"proposal", k>> \in tx[s].locks
          /\ call[s].outcome = "queued"
       \/ /\ tx[s].proposal = NoEntry
          /\ proposals[k] # NoEntry /\ <<"proposal", k>> \notin tx[s].locks
          /\ call[s].outcome = Known(s, proposals[k])

\* The transaction of a receipt.
Receiving(s) ==
  LET k == call[s].key
      r == call[s].receipt
      l == receipts[k]
      t == tx[s]
  IN
  /\ call[s].kind = "receipt" /\ pc[s] \notin {"preflight", "answer"} => proposals[k] # NoEntry
  /\ pc[s] = "record" => t = [NoTx EXCEPT !.locks = {<<"advisory", k>>}]
  /\ call[s].kind = "receipt" /\ pc[s] = "commit" =>
       /\ call[s].outcome # "applied" /\ t.locks = {<<"advisory", k>>, <<"proposal", k>>}
       /\ t.proposal = NoEntry /\ NoEnding(s) /\ ~t.claims
       /\ \A q \in ProposalKeys \ {k} : t.status[q] = NoEntry
       /\ \/ t.ledger = NoEntry /\ t.status[k] = NoEntry
          \/ /\ r \in Decisions
             /\ t.ledger = [decision |-> r, apply |-> NoEntry]
             /\ t.status[k] = StatusAfter(r)
             /\ proposals[k].status \notin Terminal
             /\ l = NoEntry \/ Supersedes(l, r)
          \/ /\ r \notin Decisions /\ l # NoEntry
             /\ l.decision.status = "approved_pending_apply" /\ l.apply = NoEntry
             /\ t.ledger = [l EXCEPT !.apply = r] /\ t.status[k] = "promoted"

\* Locks are taken in the order of the contents.
Reached(s, c) ==
  pc[s] = "commit" \/ \A d \in tx[s].todo : c <= d /\ (pc[s] = "select" => c < d)

\* The transaction of a retention.
Retaining(s) ==
  LET o == call[s].operation
      t == tx[s]
  IN
  /\ call[s].kind = "retention" /\ pc[s] \in {"select", "revoke", "references", "commit"} =>
       /\ t.claims /\ operations[o] = NoEntry /\ <<"operation", o>> \in t.locks
       /\ t.proposal = NoEntry /\ t.ledger = NoEntry
       /\ IsFiniteSet(t.todo)
       /\ \A c \in Contents : t.lifecycle[c] # NoEntry =>
            lifecycle[c] = "active" /\ <<"retention", c>> \in t.locks
       /\ \A k \in ProposalKeys : t.status[k] # NoEntry =>
            /\ t.status[k] = "revoked" /\ <<"proposal", k>> \in t.locks
            /\ proposals[k] # NoEntry /\ proposals[k].status \in Live
       /\ \A c \in Contents : <<"raw", c>> \notin t.locks
       /\ \A k \in ProposalKeys : <<"advisory", k>> \notin t.locks
       /\ \A c \in Contents : <<"retention", c>> \in t.locks =>
            lifecycle[c] # "none" /\ Reached(s, c)
       /\ \A k \in ProposalKeys : <<"proposal", k>> \in t.locks =>
            proposals[k] # NoEntry /\ Reached(s, proposals[k].content)
       /\ \A p \in Operations : <<"operation", p>> \in t.locks => p = o
  /\ pc[s] \in {"select", "revoke", "references"} => t.todo # {}
  /\ pc[s] \in {"revoke", "references"} => <<"retention", NextCandidate(s)>> \in t.locks

SessionInv(s) ==
  /\ Asked(s) /\ Told(s) /\ Proposing(s) /\ Receiving(s) /\ Retaining(s)
  /\ pc[s] \in Unlocked => tx[s] = NoTx

\* No lock is held twice.
Exclusive == \A s, o \in Sessions : s # o => tx[s].locks \cap tx[o].locks = {}

\* Status and receipts of a proposal tell the same story, as far as the status
\* of the decision goes.
StatusAgrees ==
  \A k \in ProposalKeys :
    LET p == proposals[k]
        l == receipts[k]
    IN
    /\ p = NoEntry => l = NoEntry
    /\ p # NoEntry /\ l = NoEntry => p.status \in {"queued", "revoked"}
    /\ p # NoEntry /\ l # NoEntry =>
         /\ l.apply # NoEntry => /\ l.decision.status = "approved_pending_apply"
                                 /\ p.status \in {"promoted", "revoked"}
         /\ l.decision.status = "rejected" <=> p.status = "rejected"
         /\ l.apply = NoEntry => p.status \in {"review", "rejected", "revoked"}

ProposalsInv ==
  /\ TablesTyped /\ SessionsTyped
  /\ \A s \in Sessions : SessionInv(s)
  /\ Exclusive /\ ProposalsAreBacked /\ StatusAgrees

(***************************************************************************)
(* Steps of one call that leave the tables alone                           *)
(***************************************************************************)

\* A nonempty set of contents has a smallest one.
LEMMA MinOfContents ==
  ASSUME NEW S \in SUBSET Nat, S # {}
  PROVE  Min(S) \in S /\ \A y \in S : Min(S) <= y
<1> DEFINE Below(x) == {z \in S : z <= x}
           F == {Below(x) : x \in S}
<1>1. F \subseteq FiniteSubsetsOf(S)
  <2>1. ASSUME NEW x \in S PROVE IsFiniteSet(Below(x))
    <3>1. IsFiniteSet(0..x)
      BY FS_Interval
    <3>2. \A z \in Nat : z <= x => z \in 0..x
      OBVIOUS
    <3>3. Below(x) \subseteq 0..x
      BY <3>2
    <3> QED
      BY <3>1, <3>3, FS_Subset
  <2> QED
    BY <2>1 DEF FiniteSubsetsOf
<1>2. PICK M \in F : \A A \in F : ~(<<A, M>> \in StrictSubsetOrdering(S))
  <2>1. F # {}
    OBVIOUS
  <2> HIDE DEF F
  <2> QED
    BY <1>1, <2>1, WFMin, FS_StrictSubsetOrderingWellFounded
<1>3. PICK x \in S : M = Below(x)
  BY <1>2
<1>4. ASSUME NEW y \in S, y < x PROVE FALSE
  <2>1. \A z \in S : z <= y => z <= x
    BY <1>4
  <2>2. Below(y) \subseteq Below(x)
    BY <2>1
  <2>3. x \in Below(x) /\ x \notin Below(y)
    BY <1>4
  <2>4. Below(y) \in F /\ Below(y) \subseteq S /\ Below(x) \subseteq S
    OBVIOUS
  <2> QED
    BY <1>2, <1>3, <2>2, <2>3, <2>4 DEF StrictSubsetOrdering
<1>5. \A y \in S : x <= y
  BY <1>4
<1> QED
  BY <1>5 DEF Min

\* A call that is not under way asks for nothing and writes nothing.
LEMMA NoneTyped == NoCall \in CallType /\ NoTx \in TxType
BY DEF NoCall, NoTx, CallType, TxType, Outcomes, Results

\* What is said of a call depends on its own state and on the tables.
LEMMA SessionKept ==
  ASSUME NEW o \in Sessions, SessionInv(o), UNCHANGED fabricTables, blobs \subseteq blobs',
         pc'[o] = pc[o], call'[o] = call[o], tx'[o] = tx[o]
  PROVE  SessionInv(o)'
<1> USE DEF fabricTables
<1>1. Asked(o)'
  BY DEF SessionInv, Asked
<1>2. Told(o)'
  BY DEF SessionInv, Told
<1>3. Proposing(o)'
  BY DEF SessionInv, Proposing, OnlyProposes, NoStatus, NoEnding, Known
<1>4. Receiving(o)'
  BY DEF SessionInv, Receiving, NoEnding
<1>5. Retaining(o)'
  <2>1. \A c : Reached(o, c)' = Reached(o, c)
    BY DEF Reached
  <2> QED
    BY <2>1 DEF SessionInv, Retaining, NextCandidate
<1> QED
  BY <1>1, <1>2, <1>3, <1>4, <1>5 DEF SessionInv

OthersStay(s) ==
  \A o \in Sessions \ {s} : pc'[o] = pc[o] /\ call'[o] = call[o] /\ tx'[o] = tx[o]

\* A call that changes only its own state, and takes only free locks.
LEMMA OwnStep ==
  ASSUME ProposalsInv, NEW s \in Sessions, UNCHANGED fabricTables, blobs \subseteq blobs',
         SessionsTyped', OthersStay(s), SessionInv(s)',
         \A l \in tx'[s].locks : l \in tx[s].locks \/ ~HeldByOther(s, l)
  PROVE  ProposalsInv'
<1>1. \A o \in Sessions : SessionInv(o)'
  BY SessionKept DEF ProposalsInv, OthersStay
<1>2. Exclusive'
  BY DEF ProposalsInv, Exclusive, HeldByOther, OthersStay
<1>3. TablesTyped' /\ ProposalsAreBacked' /\ StatusAgrees'
  BY DEF ProposalsInv, TablesTyped, ProposalsAreBacked, StatusAgrees, fabricTables
<1> QED
  BY <1>1, <1>2, <1>3 DEF ProposalsInv

\* A call ends with an answer.
LEMMA AnswersEffect ==
  ASSUME SessionsTyped, NEW s \in Sessions, NEW outcome \in Outcomes, NEW results \in Results,
         Answers(s, outcome, results)
  PROVE  /\ SessionsTyped' /\ OthersStay(s)
         /\ pc'[s] = "answer" /\ tx'[s] = NoTx
         /\ call'[s].kind = call[s].kind /\ call'[s].key = call[s].key
         /\ call'[s].content = call[s].content /\ call'[s].receipt = call[s].receipt
         /\ call'[s].operation = call[s].operation /\ call'[s].request = call[s].request
         /\ call'[s].outcome = outcome /\ call'[s].results = results
<1>1. pc' = [pc EXCEPT ![s] = "answer"] /\ pc' \in [Sessions -> Places]
  BY DEF Answers, Goto, SessionsTyped, Places, Unlocked
<1>2. tx' = [tx EXCEPT ![s] = NoTx] /\ tx' \in [Sessions -> TxType]
  BY NoneTyped DEF Answers, SessionsTyped
<1>3. call' \in [Sessions -> CallType]
  <2>1. call[s] \in CallType
    BY DEF SessionsTyped
  <2>2. [call[s] EXCEPT !.outcome = outcome, !.results = results] \in CallType
    BY <2>1 DEF CallType
  <2> QED
    BY <2>2 DEF Answers, SessionsTyped
<1>4. /\ call'[s].kind = call[s].kind /\ call'[s].key = call[s].key
      /\ call'[s].content = call[s].content /\ call'[s].receipt = call[s].receipt
      /\ call'[s].operation = call[s].operation /\ call'[s].request = call[s].request
      /\ call'[s].outcome = outcome /\ call'[s].results = results
      /\ \A o \in Sessions \ {s} : call'[o] = call[o]
  BY DEF Answers, SessionsTyped, CallType
<1> QED
  BY <1>1, <1>2, <1>3, <1>4 DEF SessionsTyped, OthersStay

\* The answer is true when what it says is in the tables.
LEMMA AnswersKeep ==
  ASSUME ProposalsInv, NEW s \in Sessions, NEW outcome \in Outcomes, NEW results \in Results,
         Answers(s, outcome, results), pc[s] # "idle",
         UNCHANGED <<fabricTables, blobs>>,
         call[s].kind = "propose" /\ outcome \in {"queued", "duplicate"} =>
           /\ proposals[call[s].key] # NoEntry
           /\ proposals[call[s].key].content = call[s].content,
         outcome = "applied" =>
           /\ call[s].kind = "retention"
           /\ operations[call[s].operation] = [request |-> call[s].request, results |-> results]
  PROVE  ProposalsInv'
<1>1. SessionsTyped /\ SessionInv(s)
  BY DEF ProposalsInv
<1>2. /\ SessionsTyped' /\ OthersStay(s)
      /\ pc'[s] = "answer" /\ tx'[s] = NoTx
      /\ call'[s].kind = call[s].kind /\ call'[s].key = call[s].key
      /\ call'[s].content = call[s].content /\ call'[s].receipt = call[s].receipt
      /\ call'[s].operation = call[s].operation /\ call'[s].request = call[s].request
      /\ call'[s].outcome = outcome /\ call'[s].results = results
  BY <1>1, AnswersEffect
<1>3. Asked(s)'
  BY <1>1, <1>2 DEF SessionInv, Asked
<1>4. Told(s)'
  BY <1>2 DEF Told, fabricTables
<1>5. Proposing(s)' /\ Receiving(s)' /\ Retaining(s)'
  BY <1>2 DEF Proposing, Receiving, Retaining
<1>6. SessionInv(s)'
  BY <1>2, <1>3, <1>4, <1>5 DEF SessionInv
<1>7. tx'[s].locks = {}
  BY <1>2 DEF NoTx
<1> QED
  BY <1>2, <1>6, <1>7, OwnStep

\* A call moves on, or is asked something.
LEMMA GotoEffect ==
  ASSUME SessionsTyped, NEW s \in Sessions, NEW p \in Places, Goto(s, p)
  PROVE  pc' \in [Sessions -> Places] /\ pc'[s] = p /\ \A o \in Sessions \ {s} : pc'[o] = pc[o]
BY DEF SessionsTyped, Goto

\* A transaction takes locks.
LEMMA AcquireEffect ==
  ASSUME SessionsTyped, NEW s \in Sessions, NEW locks \in SUBSET Locks, Acquire(s, locks)
  PROVE  /\ tx' \in [Sessions -> TxType]
         /\ \A o \in Sessions \ {s} : tx'[o] = tx[o]
         /\ tx'[s].locks = tx[s].locks \cup locks /\ tx'[s].proposal = tx[s].proposal
         /\ tx'[s].status = tx[s].status /\ tx'[s].lifecycle = tx[s].lifecycle
         /\ tx'[s].ledger = tx[s].ledger /\ tx'[s].claims = tx[s].claims
         /\ tx'[s].todo = tx[s].todo /\ tx'[s].results = tx[s].results
         /\ tx'[s].audited = tx[s].audited
<1>1. tx[s] \in TxType
  BY DEF SessionsTyped
<1>2. [tx[s] EXCEPT !.locks = @ \cup locks] \in TxType
  BY <1>1 DEF TxType
<1>3. tx' \in [Sessions -> TxType] /\ \A o \in Sessions \ {s} : tx'[o] = tx[o]
  BY <1>2 DEF SessionsTyped, Acquire
<1>4. /\ tx'[s].locks = tx[s].locks \cup locks /\ tx'[s].proposal = tx[s].proposal
      /\ tx'[s].status = tx[s].status /\ tx'[s].lifecycle = tx[s].lifecycle
      /\ tx'[s].ledger = tx[s].ledger /\ tx'[s].claims = tx[s].claims
      /\ tx'[s].todo = tx[s].todo /\ tx'[s].results = tx[s].results
      /\ tx'[s].audited = tx[s].audited
  BY <1>1 DEF SessionsTyped, Acquire, TxType
<1> QED
  BY <1>3, <1>4

\* A call without a lock goes on to another place without a lock.
LEMMA ProceedsKeep ==
  ASSUME ProposalsInv, NEW s \in Sessions, pc[s] \in Unlocked \ {"idle", "answer"},
         NEW p \in Unlocked \ {"idle", "answer", "reconcile"},
         Proceeds(s, p), UNCHANGED fabricTables, blobs \subseteq blobs',
         p \in {"find", "blob", "insertRaw"} => call[s].kind = "propose",
         p = "insertRaw" => call[s].content \in blobs',
         p \in {"preflight", "replay", "decision", "eligible", "lockProposal"} =>
           call[s].kind = "receipt",
         p \in {"replay", "decision", "eligible", "lockProposal"} => proposals[call[s].key] # NoEntry,
         p \in {"findOperation", "lockOperation"} => call[s].kind = "retention"
  PROVE  ProposalsInv'
<1>1. SessionsTyped /\ SessionInv(s) /\ Goto(s, p) /\ p \in Places /\ call' = call /\ tx' = tx
  BY DEF ProposalsInv, Proceeds, Places
<1>2. SessionsTyped' /\ OthersStay(s) /\ pc'[s] = p
  BY <1>1, GotoEffect DEF SessionsTyped, OthersStay
<1>3. Asked(s)' /\ Told(s)'
  BY <1>1, <1>2 DEF SessionInv, Asked, Told, Unlocked
<1>4. Proposing(s)' /\ Receiving(s)' /\ Retaining(s)'
  BY <1>1, <1>2 DEF SessionInv, Proposing, Receiving, Retaining, Unlocked, fabricTables
<1>5. SessionInv(s)'
  BY <1>1, <1>2, <1>3, <1>4 DEF SessionInv
<1> QED
  BY <1>1, <1>2, <1>5, OwnStep

(***************************************************************************)
(* Steps without a lock                                                    *)
(***************************************************************************)

\* A call begins: its state is what it was asked.
LEMMA BeginKeeps ==
  ASSUME ProposalsInv, NEW s \in Sessions, NEW c \in CallType,
         NEW p \in {"find", "preflight", "findOperation"}, Begin(s, c, p),
         p = "find" => c.kind = "propose", p = "preflight" => c.kind = "receipt",
         p = "findOperation" => c.kind = "retention",
         c.kind = "propose" => c.key \in ProposalKeys /\ c.content \in Contents,
         c.kind # "propose" => c.content = NoEntry,
         c.kind = "receipt" => c.receipt \in Receipts /\ c.key = c.receipt.key,
         c.kind = "retention" => c.operation \in Operations /\ c.request \in Requests
  PROVE  ProposalsInv'
<1>1. SessionsTyped /\ SessionInv(s) /\ p \in Places /\ Goto(s, p) /\ tx' = tx
  BY DEF ProposalsInv, Begin, Places, Unlocked
<1>2. call' \in [Sessions -> CallType] /\ call'[s] = c /\ \A o \in Sessions \ {s} : call'[o] = call[o]
  BY <1>1 DEF Begin, SessionsTyped
<1>3. SessionsTyped' /\ OthersStay(s) /\ pc'[s] = p
  BY <1>1, <1>2, GotoEffect DEF SessionsTyped, OthersStay
<1>4. Asked(s)' /\ Told(s)'
  BY <1>2, <1>3 DEF Asked, Told
<1>5. Proposing(s)' /\ Receiving(s)' /\ Retaining(s)'
  BY <1>2, <1>3 DEF Proposing, Receiving, Retaining
<1>6. tx[s] = NoTx
  BY <1>1 DEF SessionInv, Begin, At, Unlocked
<1>7. SessionInv(s)'
  BY <1>1, <1>4, <1>5, <1>6 DEF SessionInv
<1> QED
  BY <1>1, <1>3, <1>7, OwnStep, Zenon DEF Begin, TablesUnchanged

\* A proposal is sent.
LEMMA ProposeKeeps ==
  ASSUME ProposalsInv, NEW s \in Sessions, NEW i \in ProposeInputs, Propose(s, i[1], i[2])
  PROVE  ProposalsInv'
<1> DEFINE c == [NoCall EXCEPT !.kind = "propose", !.key = i[1], !.content = i[2]]
<1>1. i[1] \in ProposalKeys /\ i[2] \in Contents
  BY ProposalsAssumption
<1>2. /\ c \in CallType /\ c.kind = "propose" /\ c.key = i[1] /\ c.content = i[2]
  BY <1>1, NoneTyped DEF NoCall, CallType
<1>3. Begin(s, c, "find")
  BY DEF Propose
<1> HIDE DEF c
<1> QED
  BY <1>1, <1>2, <1>3, BeginKeeps

\* A receipt is sent.
LEMMA SendReceiptKeeps ==
  ASSUME ProposalsInv, NEW s \in Sessions, NEW r \in Receipts, SendReceipt(s, r)
  PROVE  ProposalsInv'
<1> DEFINE c == [NoCall EXCEPT !.kind = "receipt", !.key = r.key, !.receipt = r]
<1>1. r.key \in ProposalKeys
  BY ProposalsAssumption
<1>2. c \in CallType /\ c.kind = "receipt" /\ c.key = r.key /\ c.receipt = r /\ c.content = NoEntry
  BY <1>1, NoneTyped DEF NoCall, CallType
<1>3. Begin(s, c, "preflight")
  BY DEF SendReceipt
<1> HIDE DEF c
<1> QED
  BY <1>2, <1>3, BeginKeeps

\* A retention is asked for.
LEMMA ApplyRetentionKeeps ==
  ASSUME ProposalsInv, NEW s \in Sessions, NEW o \in Operations, NEW q \in Requests,
         ApplyRetention(s, o, q)
  PROVE  ProposalsInv'
<1> DEFINE c == [NoCall EXCEPT !.kind = "retention", !.operation = o, !.request = q]
<1>1. /\ c \in CallType /\ c.kind = "retention" /\ c.operation = o /\ c.request = q
      /\ c.content = NoEntry
  BY NoneTyped DEF NoCall, CallType
<1>2. Begin(s, c, "findOperation")
  BY DEF ApplyRetention
<1> HIDE DEF c
<1> QED
  BY <1>1, <1>2, BeginKeeps

\* Reading the proposal under the key.
LEMMA FindProposalKeeps ==
  ASSUME ProposalsInv, NEW s \in Sessions, FindProposal(s)
  PROVE  ProposalsInv'
<1> DEFINE p == proposals[call[s].key]
<1>1. SessionInv(s) /\ pc[s] = "find" /\ call[s].kind = "propose" /\ OnlyCall
  BY DEF ProposalsInv, SessionInv, Asked, FindProposal, At
<1>2. CASE p = NoEntry
  <2>1. Proceeds(s, "blob")
    BY <1>2 DEF FindProposal
  <2> QED
    BY <1>1, <2>1, ProceedsKeep DEF OnlyCall, TablesUnchanged, Unlocked
<1>3. CASE p # NoEntry
  <2>1. Answers(s, Known(s, p), {}) /\ Known(s, p) \in Outcomes /\ {} \in Results
    BY <1>3 DEF FindProposal, Ends, Known, Outcomes, Results
  <2>2. Known(s, p) # "applied"
    BY DEF Known
  <2>3. Known(s, p) \in {"queued", "duplicate"} => p.content = call[s].content
    BY DEF Known
  <2> DEFINE e == Known(s, p)
  <2>4. /\ Answers(s, e, {}) /\ e \in Outcomes /\ {} \in Results /\ e # "applied"
        /\ e \in {"queued", "duplicate"} => proposals[call[s].key].content = call[s].content
    BY <2>1, <2>2, <2>3
  <2> HIDE DEF e, p
  <2> QED
    BY <1>1, <1>3, <2>4, AnswersKeep DEF OnlyCall, TablesUnchanged, p
<1> QED
  BY <1>2, <1>3

\* The payload is stored.
LEMMA CommitBlobKeeps ==
  ASSUME ProposalsInv, NEW s \in Sessions, CommitBlob(s)
  PROVE  ProposalsInv'
<1>1. pc[s] = "blob" /\ call[s].kind = "propose" /\ Proceeds(s, "insertRaw")
  BY DEF ProposalsInv, SessionInv, Asked, CommitBlob, At
<1>2. UNCHANGED fabricTables /\ blobs \subseteq blobs' /\ call[s].content \in blobs'
  BY DEF CommitBlob, TablesUnchanged
<1> QED
  BY <1>1, <1>2, ProceedsKeep DEF Unlocked

\* The proposal of a receipt is read.
LEMMA PreflightKeeps ==
  ASSUME ProposalsInv, NEW s \in Sessions, Preflight(s)
  PROVE  ProposalsInv'
<1>1. pc[s] = "preflight" /\ call[s].kind = "receipt" /\ OnlyCall
  BY DEF ProposalsInv, SessionInv, Asked, Preflight, At
<1>2. CASE Ends(s, "not_found")
  BY <1>1, <1>2, AnswersKeep DEF Ends, OnlyCall, TablesUnchanged, Outcomes, Results
<1>3. ASSUME NEW p \in {"replay", "lockProposal", "decision"}, Proceeds(s, p),
             proposals[call[s].key] # NoEntry
      PROVE  ProposalsInv'
  BY <1>1, <1>3, ProceedsKeep DEF OnlyCall, TablesUnchanged, Unlocked
<1> QED
  BY <1>2, <1>3 DEF Preflight

\* Going on from, or refusing, a receipt that was read before its transaction.
LEMMA ReceiptGoesOn ==
  ASSUME ProposalsInv, NEW s \in Sessions, pc[s] \in {"replay", "decision", "eligible"},
         \/ Proceeds(s, "lockProposal") \/ Proceeds(s, "eligible")
         \/ Ends(s, "invalid") \/ Ends(s, "not_found"),
         OnlyCall
  PROVE  ProposalsInv'
<1>1. call[s].kind = "receipt" /\ proposals[call[s].key] # NoEntry
  BY DEF ProposalsInv, SessionInv, Asked, Receiving
<1>2. ASSUME NEW e \in {"invalid", "not_found"}, Ends(s, e) PROVE ProposalsInv'
  BY <1>1, <1>2, AnswersKeep DEF Ends, OnlyCall, TablesUnchanged, Outcomes, Results
<1>3. ASSUME NEW p \in {"lockProposal", "eligible"}, Proceeds(s, p) PROVE ProposalsInv'
  BY <1>1, <1>3, ProceedsKeep DEF OnlyCall, TablesUnchanged, Unlocked
<1> QED
  BY <1>2, <1>3

\* A retention that was carried out before, or whose COMMIT is looked up, is
\* answered from its row.
LEMMA ReplayKeeps ==
  ASSUME ProposalsInv, NEW s \in Sessions, pc[s] \in {"findOperation", "lockOperation", "reconcile"},
         call[s].kind = "retention", operations[call[s].operation] # NoEntry, ReplayOperation(s),
         OnlyCall
  PROVE  ProposalsInv'
<1> DEFINE op == operations[call[s].operation]
<1>1. call[s].operation \in Operations /\ call[s].request \in Requests
  BY DEF ProposalsInv, SessionInv, Asked
<1>2. op \in OperationRow /\ op.results \in Results
  BY <1>1 DEF ProposalsInv, TablesTyped, OperationRow, Results
<1>3. CASE op.request = call[s].request
  <2>1. Answers(s, "applied", op.results)
    BY <1>3 DEF ReplayOperation
  <2>2. op = [request |-> call[s].request, results |-> op.results]
    BY <1>2, <1>3 DEF OperationRow
  <2> HIDE DEF op
  <2>3. op = operations[call[s].operation]
    BY DEF op
  <2> QED
    BY <1>2, <2>1, <2>2, <2>3, AnswersKeep DEF OnlyCall, TablesUnchanged, Outcomes
<1>4. CASE op.request # call[s].request
  <2>1. Answers(s, "conflict", {})
    BY <1>4 DEF ReplayOperation, Ends
  <2> QED
    BY <2>1, AnswersKeep DEF OnlyCall, TablesUnchanged, Outcomes, Results
<1> QED
  BY <1>3, <1>4

\* The row of the operation is read.
LEMMA FindOperationKeeps ==
  ASSUME ProposalsInv, NEW s \in Sessions, FindOperation(s)
  PROVE  ProposalsInv'
<1>1. pc[s] = "findOperation" /\ call[s].kind = "retention" /\ OnlyCall
  BY DEF ProposalsInv, SessionInv, Asked, FindOperation, At
<1>2. CASE operations[call[s].operation] = NoEntry
  <2>1. Proceeds(s, "lockOperation")
    BY <1>2 DEF FindOperation
  <2> QED
    BY <1>1, <2>1, ProceedsKeep DEF OnlyCall, TablesUnchanged, Unlocked
<1>3. CASE operations[call[s].operation] # NoEntry
  BY <1>1, <1>3, ReplayKeeps DEF FindOperation
<1> QED
  BY <1>2, <1>3

\* What a lost COMMIT did is looked up.
LEMMA ReconcileKeeps ==
  ASSUME ProposalsInv, NEW s \in Sessions, ReconcileProposal(s) \/ ReconcileOperation(s)
  PROVE  ProposalsInv'
<1>1. pc[s] = "reconcile" /\ OnlyCall
  BY DEF ReconcileProposal, ReconcileOperation, At
<1>2. CASE Ends(s, "unavailable")
  BY <1>1, <1>2, AnswersKeep DEF Ends, OnlyCall, TablesUnchanged, Outcomes, Results
<1>3. CASE ReconcileProposal(s) /\ proposals[call[s].key] # NoEntry
  <2> DEFINE p == proposals[call[s].key]
  <2>1. Answers(s, Known(s, p), {}) /\ Known(s, p) \in Outcomes /\ {} \in Results
    BY <1>3 DEF ReconcileProposal, Ends, Known, Outcomes, Results
  <2>2. Known(s, p) # "applied"
    BY DEF Known
  <2>3. Known(s, p) \in {"queued", "duplicate"} => p.content = call[s].content
    BY DEF Known
  <2> DEFINE e == Known(s, p)
  <2>4. /\ Answers(s, e, {}) /\ e \in Outcomes /\ {} \in Results /\ e # "applied"
        /\ e \in {"queued", "duplicate"} => proposals[call[s].key].content = call[s].content
    BY <2>1, <2>2, <2>3
  <2> HIDE DEF e, p
  <2> QED
    BY <1>1, <1>3, <2>4, AnswersKeep DEF OnlyCall, TablesUnchanged, p
<1>4. CASE ReconcileOperation(s) /\ operations[call[s].operation] # NoEntry
  BY <1>1, <1>4, ReplayKeeps DEF ReconcileOperation
<1> QED
  BY <1>2, <1>3, <1>4 DEF ReconcileProposal, ReconcileOperation

\* A statement fails and the transaction is rolled back.
LEMMA StatementFailsKeeps ==
  ASSUME ProposalsInv, NEW s \in Sessions, StatementFails(s)
  PROVE  ProposalsInv'
<1>1. pc[s] # "idle" /\ Answers(s, "unavailable", {}) /\ UNCHANGED <<fabricTables, blobs>>
  BY DEF StatementFails, Ends, TablesUnchanged, InTransaction, Reads
<1> QED
  BY <1>1, AnswersKeep DEF Outcomes, Results

\* The caller has its answer.
LEMMA AnswerKeeps ==
  ASSUME ProposalsInv, NEW s \in Sessions, Answer(s)
  PROVE  ProposalsInv'
<1>1. SessionsTyped /\ SessionInv(s) /\ Goto(s, "idle") /\ pc[s] = "answer" /\ tx' = tx
  BY DEF ProposalsInv, Answer, At
<1>2. /\ call' \in [Sessions -> CallType] /\ call'[s] = NoCall
      /\ \A o \in Sessions \ {s} : call'[o] = call[o]
  BY <1>1, NoneTyped DEF Answer, SessionsTyped
<1>3. SessionsTyped' /\ OthersStay(s) /\ pc'[s] = "idle"
  BY <1>1, <1>2, GotoEffect DEF SessionsTyped, OthersStay, Places, Unlocked
<1>4. call'[s].kind = "none" /\ call'[s].content = NoEntry
  BY <1>2 DEF NoCall
<1>5. Asked(s)' /\ Told(s)' /\ Proposing(s)' /\ Receiving(s)' /\ Retaining(s)'
  BY <1>2, <1>3, <1>4 DEF Asked, Told, Proposing, Receiving, Retaining
<1>6. tx[s] = NoTx
  BY <1>1 DEF SessionInv, Unlocked
<1>7. SessionInv(s)'
  BY <1>1, <1>5, <1>6 DEF SessionInv
<1> QED
  BY <1>1, <1>3, <1>7, OwnStep DEF Answer, TablesUnchanged

(***************************************************************************)
(* Who holds which lock                                                    *)
(***************************************************************************)

\* Only a call in its transaction holds locks.
LEMMA Holder ==
  ASSUME ProposalsInv, NEW o \in Sessions, tx[o].locks # {}
  PROVE  \/ call[o].kind = "propose" /\ pc[o] \in {"insertProposal", "commit"}
         \/ call[o].kind = "receipt" /\ pc[o] \in {"record", "commit"}
         \/ call[o].kind = "retention" /\ pc[o] \in {"select", "revoke", "references", "commit"}
<1>1. pc[o] \in Places /\ call[o].kind \in {"none", "propose", "receipt", "retention"} /\ SessionInv(o)
  BY DEF ProposalsInv, SessionsTyped, CallType
<1>2. pc[o] \notin Unlocked
  BY <1>1 DEF SessionInv, NoTx
<1> QED
  BY <1>1, <1>2 DEF Places, SessionInv, Asked, Unlocked

\* A proposal holds the rows it has inserted.
LEMMA ProposeLocks ==
  ASSUME ProposalsInv, NEW o \in Sessions, NEW l \in tx[o].locks, call[o].kind = "propose"
  PROVE  LET c == call[o].content IN
         /\ \/ l = <<"raw", c>> \/ l = <<"retention", c>>
            \/ l = <<"proposal", call[o].key>> /\ pc[o] = "commit"
         /\ l[1] \in {"raw", "retention"} => lifecycle[c] = "none" /\ <<"raw", c>> \in tx[o].locks
<1>1. pc[o] \in {"insertProposal", "commit"} /\ Proposing(o)
  BY Holder DEF ProposalsInv, SessionInv
<1>2. tx[o].locks \subseteq {<<"raw", call[o].content>>, <<"retention", call[o].content>>,
                           <<"proposal", call[o].key>>}
  BY <1>1 DEF Proposing
<1>3. /\ lifecycle[call[o].content] = "none" <=> <<"raw", call[o].content>> \in tx[o].locks
      /\ <<"retention", call[o].content>> \in tx[o].locks
           <=> <<"raw", call[o].content>> \in tx[o].locks
  BY <1>1 DEF Proposing
<1>4. l = <<"proposal", call[o].key>> => pc[o] = "commit"
  BY <1>1 DEF Proposing
<1> QED
  BY <1>2, <1>3, <1>4

\* A receipt holds the lock of its proposal, and the row when it has read it.
LEMMA ReceiptLocks ==
  ASSUME ProposalsInv, NEW o \in Sessions, NEW l \in tx[o].locks, call[o].kind = "receipt"
  PROVE  \/ l = <<"advisory", call[o].key>>
         \/ l = <<"proposal", call[o].key>> /\ pc[o] = "commit"
<1>1. pc[o] \in {"record", "commit"} /\ Receiving(o)
  BY Holder DEF ProposalsInv, SessionInv
<1>2. pc[o] = "record" => tx[o].locks = {<<"advisory", call[o].key>>}
  BY <1>1 DEF Receiving, NoTx
<1>3. pc[o] = "commit" => tx[o].locks = {<<"advisory", call[o].key>>, <<"proposal", call[o].key>>}
  BY <1>1 DEF Receiving
<1> QED
  BY <1>1, <1>2, <1>3

\* A retention holds its operation, retention rows that exist, and proposals.
LEMMA RetentionLocks ==
  ASSUME ProposalsInv, NEW o \in Sessions, NEW l \in tx[o].locks, call[o].kind = "retention"
  PROVE  \/ l = <<"operation", call[o].operation>>
         \/ \E c \in Contents : l = <<"retention", c>> /\ lifecycle[c] # "none" /\ Reached(o, c)
         \/ \E k \in ProposalKeys : /\ l = <<"proposal", k>> /\ proposals[k] # NoEntry
                               /\ Reached(o, proposals[k].content)
<1>1. l \in Locks /\ pc[o] \in {"select", "revoke", "references", "commit"} /\ SessionInv(o)
  BY Holder DEF ProposalsInv, SessionsTyped, TxType
<1>2. Retaining(o)
  BY <1>1 DEF SessionInv
<1>3. CASE l \in {"raw"} \X Contents
  BY <1>1, <1>2, <1>3 DEF Retaining
<1>4. CASE l \in {"retention"} \X Contents
  <2>1. PICK c \in Contents : l = <<"retention", c>>
    BY <1>4
  <2> QED
    BY <1>1, <1>2, <2>1 DEF Retaining
<1>5. CASE l \in {"proposal"} \X ProposalKeys
  <2>1. PICK k \in ProposalKeys : l = <<"proposal", k>>
    BY <1>5
  <2> QED
    BY <1>1, <1>2, <2>1 DEF Retaining
<1>6. CASE l \in {"advisory"} \X ProposalKeys
  BY <1>1, <1>2, <1>6 DEF Retaining
<1>7. CASE l \in {"operation"} \X Operations
  BY <1>1, <1>2, <1>7 DEF Retaining
<1> QED
  BY <1>1, <1>3, <1>4, <1>5, <1>6, <1>7 DEF Locks

\* The retention row of a content without one is held with its raw object.
LEMMA UncommittedContent ==
  ASSUME ProposalsInv, NEW o \in Sessions, NEW c \in Contents, lifecycle[c] = "none",
         <<"retention", c>> \in tx[o].locks
  PROVE  <<"raw", c>> \in tx[o].locks
<1>1. call[o].kind \in {"propose", "receipt", "retention"}
  BY Holder
<1>2. CASE call[o].kind = "propose"
  BY <1>2, ProposeLocks
<1>3. CASE call[o].kind = "receipt"
  BY <1>3, ReceiptLocks
<1>4. CASE call[o].kind = "retention"
  BY <1>4, RetentionLocks
<1> QED
  BY <1>1, <1>2, <1>3, <1>4

(***************************************************************************)
(* Statements of a transaction                                             *)
(***************************************************************************)

\* The raw object and its retention row.
LEMMA InsertRawKeeps ==
  ASSUME ProposalsInv, NEW s \in Sessions, InsertRaw(s)
  PROVE  ProposalsInv'
<1> DEFINE c == call[s].content
           free == {<<"raw", c>>, <<"retention", c>>}
<1>1. /\ SessionsTyped /\ SessionInv(s) /\ pc[s] = "insertRaw" /\ call[s].kind = "propose"
      /\ Goto(s, "insertProposal") /\ call' = call /\ tx[s] = NoTx /\ c \in Contents
      /\ call[s].key \in ProposalKeys
  BY DEF ProposalsInv, SessionInv, Asked, InsertRaw, At, Unlocked
<1>2. UNCHANGED <<fabricTables, blobs>>
  BY DEF InsertRaw, OnlyCall, TablesUnchanged
<1>3. /\ tx' \in [Sessions -> TxType] /\ \A o \in Sessions \ {s} : tx'[o] = tx[o]
      /\ tx'[s].locks = IF lifecycle[c] = "none" THEN free ELSE {}
      /\ tx'[s].proposal = NoEntry /\ tx'[s].status = NoTx.status
      /\ tx'[s].lifecycle = NoTx.lifecycle /\ tx'[s].ledger = NoEntry /\ ~tx'[s].claims
  <2>1. free \in SUBSET Locks
    BY <1>1 DEF Locks
  <2>2. CASE lifecycle[c] = "none"
    BY <1>1, <2>1, <2>2, AcquireEffect DEF InsertRaw, NoTx
  <2>3. CASE lifecycle[c] # "none"
    BY <1>1, <2>3 DEF InsertRaw, NoTx, SessionsTyped
  <2> QED
    BY <2>2, <2>3
<1>4. SessionsTyped' /\ OthersStay(s) /\ pc'[s] = "insertProposal"
  BY <1>1, <1>3, GotoEffect DEF SessionsTyped, OthersStay, Places
<1>5. Asked(s)' /\ Told(s)' /\ Receiving(s)' /\ Retaining(s)'
  BY <1>1, <1>4 DEF SessionInv, Asked, Told, Receiving, Retaining
<1>6. Proposing(s)'
  <2>1. c \in blobs
    BY <1>1 DEF SessionInv, Proposing
  <2>2. OnlyProposes(s)'
    BY <1>3 DEF OnlyProposes, NoStatus, NoEnding, NoTx
  <2> QED
    BY <1>1, <1>2, <1>3, <1>4, <2>1, <2>2 DEF Proposing, fabricTables
<1>7. SessionInv(s)'
  BY <1>4, <1>5, <1>6 DEF SessionInv, Unlocked
<1>8. \A l \in tx'[s].locks : ~HeldByOther(s, l)
  BY <1>1, <1>3, UncommittedContent DEF HeldByOther, InsertRaw
<1> QED
  BY <1>2, <1>4, <1>7, <1>8, OwnStep

\* A call notes what it will answer.
LEMMA OutcomeEffect ==
  ASSUME SessionsTyped, NEW s \in Sessions, NEW outcome \in Outcomes,
         call' = [call EXCEPT ![s].outcome = outcome]
  PROVE  /\ call' \in [Sessions -> CallType] /\ \A o \in Sessions \ {s} : call'[o] = call[o]
         /\ call'[s].kind = call[s].kind /\ call'[s].key = call[s].key
         /\ call'[s].content = call[s].content /\ call'[s].receipt = call[s].receipt
         /\ call'[s].operation = call[s].operation /\ call'[s].request = call[s].request
         /\ call'[s].outcome = outcome
<1>1. call[s] \in CallType
  BY DEF SessionsTyped
<1>2. [call[s] EXCEPT !.outcome = outcome] \in CallType
  BY <1>1 DEF CallType
<1>3. call' \in [Sessions -> CallType] /\ \A o \in Sessions \ {s} : call'[o] = call[o]
  BY <1>2 DEF SessionsTyped
<1>4. /\ call'[s].kind = call[s].kind /\ call'[s].key = call[s].key
      /\ call'[s].content = call[s].content /\ call'[s].receipt = call[s].receipt
      /\ call'[s].operation = call[s].operation /\ call'[s].request = call[s].request
      /\ call'[s].outcome = outcome
  BY <1>1 DEF SessionsTyped, CallType
<1> QED
  BY <1>3, <1>4

\* The proposal's own row is inserted.
LEMMA NewProposalKeeps ==
  ASSUME ProposalsInv, NEW s \in Sessions, InsertProposal(s), proposals[call[s].key] = NoEntry
  PROVE  ProposalsInv'
<1> DEFINE k == call[s].key
           c == call[s].content
           lock == <<"proposal", k>>
           row == [content |-> c, status |-> "queued"]
<1>1. /\ SessionsTyped /\ SessionInv(s) /\ pc[s] = "insertProposal" /\ call[s].kind = "propose"
      /\ c \in Contents /\ k \in ProposalKeys
  BY DEF ProposalsInv, SessionInv, Asked, InsertProposal, At
<1>2. /\ tx' = [tx EXCEPT ![s].locks = @ \cup {lock}, ![s].proposal = row]
      /\ call' = [call EXCEPT ![s].outcome = "queued"] /\ Goto(s, "commit")
      /\ ~HeldByOther(s, lock) /\ UNCHANGED <<fabricTables, blobs>>
  BY DEF InsertProposal, OnlyCall, TablesUnchanged
<1>3. tx[s] \in TxType /\ row \in ProposalRow /\ lock \in Locks
  BY <1>1 DEF SessionsTyped, ProposalRow, Live, Locks
<1>4. /\ tx' \in [Sessions -> TxType] /\ \A o \in Sessions \ {s} : tx'[o] = tx[o]
      /\ tx'[s].locks = tx[s].locks \cup {lock} /\ tx'[s].proposal = row
      /\ tx'[s].status = tx[s].status /\ tx'[s].lifecycle = tx[s].lifecycle
      /\ tx'[s].ledger = tx[s].ledger /\ tx'[s].claims = tx[s].claims
  <2>1. [tx[s] EXCEPT !.locks = @ \cup {lock}, !.proposal = row] \in TxType
    BY <1>3 DEF TxType
  <2>2. tx' \in [Sessions -> TxType] /\ \A o \in Sessions \ {s} : tx'[o] = tx[o]
    BY <1>1, <1>2, <2>1 DEF SessionsTyped
  <2>3. /\ tx'[s].locks = tx[s].locks \cup {lock} /\ tx'[s].proposal = row
        /\ tx'[s].status = tx[s].status /\ tx'[s].lifecycle = tx[s].lifecycle
        /\ tx'[s].ledger = tx[s].ledger /\ tx'[s].claims = tx[s].claims
    BY <1>1, <1>2, <1>3 DEF SessionsTyped, TxType
  <2> QED
    BY <2>2, <2>3
<1>5. /\ call' \in [Sessions -> CallType] /\ \A o \in Sessions \ {s} : call'[o] = call[o]
      /\ call'[s].kind = call[s].kind /\ call'[s].key = call[s].key
      /\ call'[s].content = call[s].content /\ call'[s].receipt = call[s].receipt
      /\ call'[s].operation = call[s].operation /\ call'[s].request = call[s].request
      /\ call'[s].outcome = "queued"
  BY <1>1, <1>2, OutcomeEffect DEF Outcomes
<1>6. SessionsTyped' /\ OthersStay(s) /\ pc'[s] = "commit"
  BY <1>1, <1>2, <1>4, <1>5, GotoEffect DEF SessionsTyped, OthersStay, Places
<1>7. Asked(s)' /\ Told(s)' /\ Receiving(s)' /\ Retaining(s)'
  BY <1>1, <1>5, <1>6 DEF SessionInv, Asked, Told, Receiving, Retaining
<1>8. Proposing(s)'
  <2>1. Proposing(s)
    BY <1>1 DEF SessionInv
  <2>2. /\ c \in blobs /\ tx[s].locks \subseteq {<<"raw", c>>, <<"retention", c>>, lock}
        /\ lifecycle[c] = "none" <=> <<"raw", c>> \in tx[s].locks
        /\ <<"retention", c>> \in tx[s].locks <=> <<"raw", c>> \in tx[s].locks
        /\ OnlyProposes(s)
    BY <1>1, <2>1 DEF Proposing
  <2>3. OnlyProposes(s)'
    BY <2>2, <1>4 DEF OnlyProposes, NoStatus, NoEnding
  <2>4. /\ tx'[s].locks \subseteq {<<"raw", c>>, <<"retention", c>>, lock} /\ lock \in tx'[s].locks
        /\ <<"raw", c>> \in tx'[s].locks <=> <<"raw", c>> \in tx[s].locks
        /\ <<"retention", c>> \in tx'[s].locks <=> <<"retention", c>> \in tx[s].locks
    BY <1>4, <2>2
  <2> HIDE DEF lock, row
  <2>5. row = [content |-> c, status |-> "queued"] /\ lock = <<"proposal", k>>
    BY DEF row, lock
  <2> QED
    BY <1>1, <1>2, <1>4, <1>5, <1>6, <2>2, <2>3, <2>4, <2>5 DEF Proposing, fabricTables, InsertProposal
<1>9. SessionInv(s)'
  BY <1>6, <1>7, <1>8 DEF SessionInv, Unlocked
<1> QED
  BY <1>2, <1>4, <1>6, <1>9, OwnStep

\* A row of the key exists, and the call answers what it is.
LEMMA KnownProposalKeeps ==
  ASSUME ProposalsInv, NEW s \in Sessions, InsertProposal(s), proposals[call[s].key] # NoEntry
  PROVE  ProposalsInv'
<1> DEFINE k == call[s].key
           e == Known(s, proposals[k])
<1>1. /\ SessionsTyped /\ SessionInv(s) /\ pc[s] = "insertProposal" /\ call[s].kind = "propose"
      /\ UNCHANGED <<fabricTables, blobs>>
  BY DEF ProposalsInv, SessionInv, Asked, InsertProposal, At, OnlyCall, TablesUnchanged
<1>2. CASE Ends(s, "unavailable")
  BY <1>1, <1>2, AnswersKeep DEF Ends, Outcomes, Results
<1>3. CASE call' = [call EXCEPT ![s].outcome = e] /\ Goto(s, "commit") /\ UNCHANGED tx
  <2>1. e \in Outcomes
    BY DEF Known, Outcomes
  <2>2. e' = e
    BY <1>1, <1>3, <2>1, OutcomeEffect DEF Known, fabricTables
  <2> HIDE DEF e
  <2>3. /\ call' \in [Sessions -> CallType] /\ \A o \in Sessions \ {s} : call'[o] = call[o]
        /\ call'[s].kind = call[s].kind /\ call'[s].key = call[s].key
        /\ call'[s].content = call[s].content /\ call'[s].receipt = call[s].receipt
        /\ call'[s].operation = call[s].operation /\ call'[s].request = call[s].request
        /\ call'[s].outcome = e
    BY <1>1, <1>3, <2>1, OutcomeEffect
  <2>4. SessionsTyped' /\ OthersStay(s) /\ pc'[s] = "commit"
    BY <1>1, <1>3, <2>3, GotoEffect DEF SessionsTyped, OthersStay, Places
  <2>5. Asked(s)' /\ Told(s)' /\ Receiving(s)' /\ Retaining(s)'
    BY <1>1, <2>3, <2>4 DEF SessionInv, Asked, Told, Receiving, Retaining
  <2>6. Proposing(s)'
    <3>1. Proposing(s)
      BY <1>1 DEF SessionInv
    <3>2. OnlyProposes(s)' <=> OnlyProposes(s)
      BY <1>3 DEF OnlyProposes, NoStatus, NoEnding
    <3>3. call'[s].outcome = Known(s, proposals[k])'
      BY <2>2, <2>3 DEF e
    <3> QED
      BY <1>1, <1>3, <2>3, <2>4, <3>1, <3>2, <3>3 DEF Proposing, fabricTables
  <2>7. SessionInv(s)'
    BY <2>4, <2>5, <2>6 DEF SessionInv, Unlocked
  <2> QED
    BY <1>1, <1>3, <2>4, <2>7, OwnStep
<1> QED
  BY <1>2, <1>3 DEF InsertProposal

\* The advisory lock of a proposal.
LEMMA LockProposalKeeps ==
  ASSUME ProposalsInv, NEW s \in Sessions, LockProposal(s)
  PROVE  ProposalsInv'
<1> DEFINE lock == <<"advisory", call[s].key>>
<1>1. /\ SessionsTyped /\ SessionInv(s) /\ pc[s] = "lockProposal" /\ call[s].kind = "receipt"
      /\ call[s].key \in ProposalKeys /\ tx[s] = NoTx
  BY ProposalsAssumption DEF ProposalsInv, SessionInv, Asked, LockProposal, At, Unlocked
<1>2. /\ Acquire(s, {lock}) /\ ~HeldByOther(s, lock) /\ Goto(s, "record") /\ call' = call
      /\ UNCHANGED <<fabricTables, blobs>>
  BY DEF LockProposal, OnlyCall, TablesUnchanged
<1>3. /\ tx' \in [Sessions -> TxType] /\ \A o \in Sessions \ {s} : tx'[o] = tx[o]
      /\ tx'[s].locks = {lock}
  <2>1. {lock} \in SUBSET Locks
    BY <1>1 DEF Locks
  <2> QED
    BY <1>1, <1>2, <2>1, AcquireEffect DEF NoTx
<1>4. tx'[s] = [NoTx EXCEPT !.locks = {lock}]
  BY <1>1, <1>2 DEF Acquire, SessionsTyped, NoTx
<1>5. SessionsTyped' /\ OthersStay(s) /\ pc'[s] = "record"
  BY <1>1, <1>2, <1>3, GotoEffect DEF SessionsTyped, OthersStay, Places
<1>6. Asked(s)' /\ Told(s)' /\ Proposing(s)' /\ Retaining(s)'
  BY <1>1, <1>2, <1>5 DEF SessionInv, Asked, Told, Proposing, Retaining
<1>7. Receiving(s)'
  BY <1>1, <1>2, <1>4, <1>5 DEF SessionInv, Receiving, fabricTables
<1>8. SessionInv(s)'
  BY <1>5, <1>6, <1>7 DEF SessionInv, Unlocked
<1> QED
  BY <1>2, <1>3, <1>5, <1>8, OwnStep

\* A receipt writes what the rows it has locked allow.
LEMMA WritesKeep ==
  ASSUME ProposalsInv, NEW s \in Sessions, pc[s] = "record", call[s].kind = "receipt",
         NEW ledger \in Ledger \cup {NoEntry}, NEW status \in Live \cup Terminal \cup {NoEntry},
         NEW outcome \in {"duplicate", "recorded", "superseded"}, Writes(s, ledger, status, outcome),
         ~HeldByOther(s, <<"proposal", call[s].key>>), UNCHANGED <<fabricTables, blobs>>,
         LET k == call[s].key
             r == call[s].receipt
             l == receipts[k]
         IN \/ ledger = NoEntry /\ status = NoEntry
            \/ /\ r \in Decisions /\ ledger = [decision |-> r, apply |-> NoEntry]
               /\ status = StatusAfter(r)
               /\ proposals[k].status \notin Terminal
               /\ l = NoEntry \/ Supersedes(l, r)
            \/ /\ r \notin Decisions /\ l # NoEntry
               /\ l.decision.status = "approved_pending_apply" /\ l.apply = NoEntry
               /\ ledger = [l EXCEPT !.apply = r] /\ status = "promoted"
  PROVE  ProposalsInv'
<1> DEFINE k == call[s].key
           lock == <<"proposal", k>>
<1>1. SessionsTyped /\ SessionInv(s) /\ k \in ProposalKeys
  BY ProposalsAssumption DEF ProposalsInv, SessionInv, Asked
<1>2. tx[s] = [NoTx EXCEPT !.locks = {<<"advisory", k>>}] /\ proposals[k] # NoEntry
  BY <1>1 DEF SessionInv, Receiving
<1>3. /\ tx[s].locks = {<<"advisory", k>>} /\ tx[s].proposal = NoEntry /\ tx[s].status = NoTx.status
      /\ tx[s].lifecycle = NoTx.lifecycle /\ ~tx[s].claims
  BY <1>2 DEF NoTx
<1>4. /\ call' \in [Sessions -> CallType] /\ \A o \in Sessions \ {s} : call'[o] = call[o]
      /\ call'[s].kind = call[s].kind /\ call'[s].key = call[s].key
      /\ call'[s].content = call[s].content /\ call'[s].receipt = call[s].receipt
      /\ call'[s].operation = call[s].operation /\ call'[s].request = call[s].request
      /\ call'[s].outcome = outcome
  BY <1>1, OutcomeEffect DEF Writes, Outcomes
<1>5. /\ tx' \in [Sessions -> TxType] /\ \A o \in Sessions \ {s} : tx'[o] = tx[o]
      /\ tx'[s].locks = {<<"advisory", k>>, lock} /\ tx'[s].proposal = NoEntry
      /\ tx'[s].status = [NoTx.status EXCEPT ![k] = status]
      /\ tx'[s].lifecycle = NoTx.lifecycle /\ tx'[s].ledger = ledger /\ ~tx'[s].claims
  <2>1. tx[s] \in TxType /\ lock \in Locks
    BY <1>1 DEF SessionsTyped, Locks
  <2>2. [tx[s] EXCEPT !.locks = @ \cup {lock}, !.ledger = ledger,
                      !.status = [@ EXCEPT ![k] = status], !.audited = outcome] \in TxType
    BY <2>1 DEF TxType, Outcomes
  <2>3. tx' \in [Sessions -> TxType] /\ \A o \in Sessions \ {s} : tx'[o] = tx[o]
    BY <1>1, <2>2 DEF SessionsTyped, Writes
  <2>4. /\ tx'[s].locks = tx[s].locks \cup {lock} /\ tx'[s].proposal = tx[s].proposal
        /\ tx'[s].status = [tx[s].status EXCEPT ![k] = status]
        /\ tx'[s].lifecycle = tx[s].lifecycle
        /\ tx'[s].ledger = ledger /\ tx'[s].claims = tx[s].claims
    BY <1>1, <2>1 DEF SessionsTyped, TxType, Writes
  <2> QED
    BY <1>3, <2>3, <2>4
<1>6. SessionsTyped' /\ OthersStay(s) /\ pc'[s] = "commit"
  BY <1>1, <1>4, <1>5, GotoEffect DEF SessionsTyped, OthersStay, Places, Writes
<1>7. Asked(s)' /\ Told(s)' /\ Proposing(s)' /\ Retaining(s)'
  BY <1>1, <1>4, <1>6 DEF SessionInv, Asked, Told, Proposing, Retaining
<1>8. Receiving(s)'
  <2>1. NoEnding(s)'
    BY <1>5 DEF NoEnding, NoTx
  <2>2. tx'[s].status[k] = status /\ \A q \in ProposalKeys \ {k} : tx'[s].status[q] = NoEntry
    BY <1>1, <1>5 DEF NoTx
  <2> QED
    BY <1>1, <1>2, <1>4, <1>5, <1>6, <2>1, <2>2 DEF Receiving, fabricTables
<1>9. SessionInv(s)'
  BY <1>6, <1>7, <1>8 DEF SessionInv, Unlocked
<1>10. \A l \in tx'[s].locks : l \in tx[s].locks \/ ~HeldByOther(s, l)
  BY <1>3, <1>5
<1> QED
  BY <1>6, <1>9, <1>10, OwnStep

\* The receipt is refused, or written.
LEMMA RecordKeeps ==
  ASSUME ProposalsInv, NEW s \in Sessions, Record(s)
  PROVE  ProposalsInv'
<1> DEFINE k == call[s].key
           r == call[s].receipt
           l == receipts[k]
<1>1. /\ pc[s] = "record" /\ call[s].kind = "receipt" /\ ~HeldByOther(s, <<"proposal", k>>)
      /\ UNCHANGED <<fabricTables, blobs>> /\ r \in Receipts /\ k \in ProposalKeys
  BY ProposalsAssumption
  DEF ProposalsInv, SessionInv, Asked, Record, At, OnlyCall, TablesUnchanged
<1>2. l \in Ledger \cup {NoEntry}
  BY <1>1 DEF ProposalsInv, TablesTyped
<1>3. ASSUME NEW e \in {"invalid", "conflict"}, Ends(s, e) PROVE ProposalsInv'
  BY <1>1, <1>3, AnswersKeep DEF Ends, Outcomes, Results
<1>4. CASE Writes(s, NoEntry, NoEntry, "duplicate")
  BY <1>1, <1>4, WritesKeep
<1>5. CASE r.kind = "decision" /\ RecordDecision(s)
  <2> DEFINE ledger == [decision |-> r, apply |-> NoEntry]
             status == StatusAfter(r)
  <2>1. ASSUME NEW e \in {"recorded", "superseded"}, Writes(s, ledger, status, e),
               proposals[k].status \notin Terminal, l = NoEntry \/ Supersedes(l, r)
        PROVE  ProposalsInv'
    <3>1. r \in Decisions /\ ledger \in Ledger /\ status \in Live \cup Terminal
      BY <1>1, <1>5 DEF Decisions, Ledger, StatusAfter, Live, Terminal
    <3> HIDE DEF ledger, status
    <3>2. ledger = [decision |-> r, apply |-> NoEntry] /\ status = StatusAfter(r)
      BY DEF ledger, status
    <3> QED
      BY <1>1, <2>1, <3>1, <3>2, WritesKeep
  <2> QED
    BY <1>3, <1>4, <1>5, <2>1 DEF RecordDecision
<1>6. CASE r.kind # "decision" /\ RecordApply(s)
  <2> DEFINE ledger == [l EXCEPT !.apply = r]
  <2>1. ASSUME l # NoEntry, l.decision.status = "approved_pending_apply", l.apply = NoEntry,
               Writes(s, ledger, "promoted", "recorded")
        PROVE  ProposalsInv'
    <3>1. r \notin Decisions /\ ledger \in Ledger
      BY <1>1, <1>2, <1>6, <2>1 DEF Decisions, Ledger
    <3> HIDE DEF ledger
    <3>2. ledger = [l EXCEPT !.apply = r]
      BY DEF ledger
    <3> QED
      BY <1>1, <2>1, <3>1, <3>2, WritesKeep DEF Live
  <2> QED
    BY <1>3, <1>4, <1>6, <2>1 DEF RecordApply
<1> QED
  BY <1>5, <1>6 DEF Record

\* The lock of the operation, and the candidates.
LEMMA LockOperationKeeps ==
  ASSUME ProposalsInv, NEW s \in Sessions, LockOperation(s)
  PROVE  ProposalsInv'
<1> DEFINE x == call[s].operation
           lock == <<"operation", x>>
           todo == call[s].request.contents
<1>1. /\ SessionsTyped /\ SessionInv(s) /\ pc[s] = "lockOperation" /\ call[s].kind = "retention"
      /\ x \in Operations /\ call[s].request \in Requests /\ tx[s] = NoTx /\ OnlyCall
      /\ ~HeldByOther(s, lock)
  BY DEF ProposalsInv, SessionInv, Asked, LockOperation, At, Unlocked
<1>2. UNCHANGED <<fabricTables, blobs>>
  BY <1>1 DEF OnlyCall, TablesUnchanged
<1>3. CASE operations[x] # NoEntry
  BY <1>1, <1>3, ReplayKeeps DEF LockOperation
<1>4. CASE operations[x] = NoEntry
  <2>1. /\ tx' = [tx EXCEPT ![s].locks = {lock}, ![s].claims = TRUE, ![s].todo = todo]
        /\ Goto(s, "select") /\ call' = call
    BY <1>4 DEF LockOperation
  <2>2. todo \in SUBSET Contents /\ todo # {} /\ IsFiniteSet(todo)
    BY <1>1, ProposalsAssumption
  <2>3. /\ tx' \in [Sessions -> TxType] /\ \A o \in Sessions \ {s} : tx'[o] = tx[o]
        /\ tx'[s].locks = {lock} /\ tx'[s].claims /\ tx'[s].todo = todo
        /\ tx'[s].proposal = NoEntry /\ tx'[s].ledger = NoEntry
        /\ tx'[s].status = NoTx.status /\ tx'[s].lifecycle = NoTx.lifecycle
    <3>1. tx[s] \in TxType /\ lock \in Locks
      BY <1>1 DEF SessionsTyped, Locks
    <3> HIDE DEF todo, lock
    <3>2. [tx[s] EXCEPT !.locks = {lock}, !.claims = TRUE, !.todo = todo] \in TxType
      BY <3>1, <2>2 DEF TxType
    <3>3. tx' \in [Sessions -> TxType] /\ \A o \in Sessions \ {s} : tx'[o] = tx[o]
      BY <1>1, <2>1, <3>2 DEF SessionsTyped
    <3>4. /\ tx'[s].locks = {lock} /\ tx'[s].claims /\ tx'[s].todo = todo
          /\ tx'[s].proposal = tx[s].proposal /\ tx'[s].ledger = tx[s].ledger
          /\ tx'[s].status = tx[s].status /\ tx'[s].lifecycle = tx[s].lifecycle
      BY <1>1, <2>1, <3>1 DEF SessionsTyped, TxType
    <3> QED
      BY <1>1, <3>3, <3>4 DEF NoTx
  <2>4. SessionsTyped' /\ OthersStay(s) /\ pc'[s] = "select"
    BY <1>1, <2>1, <2>3, GotoEffect DEF SessionsTyped, OthersStay, Places
  <2>5. Asked(s)' /\ Told(s)' /\ Proposing(s)' /\ Receiving(s)'
    BY <1>1, <2>1, <2>4 DEF SessionInv, Asked, Told, Proposing, Receiving
  <2>6. Retaining(s)'
    BY <1>1, <1>2, <1>4, <2>1, <2>2, <2>3, <2>4 DEF Retaining, fabricTables, NoTx
  <2>7. SessionInv(s)'
    BY <2>4, <2>5, <2>6 DEF SessionInv, Unlocked
  <2> QED
    BY <1>1, <1>2, <2>3, <2>4, <2>7, OwnStep
<1> QED
  BY <1>3, <1>4

\* The retention ends the rows C and revokes the proposals K that it has locked,
\* in the order of the contents, and goes on.
GoesOn(s, p, C, K) ==
  /\ Goto(s, p) /\ UNCHANGED <<call, fabricTables, blobs>>
  /\ tx' \in [Sessions -> TxType] /\ \A o \in Sessions \ {s} : tx'[o] = tx[o]
  /\ tx'[s].claims = tx[s].claims /\ tx'[s].proposal = tx[s].proposal
  /\ tx'[s].ledger = tx[s].ledger /\ tx'[s].todo \subseteq tx[s].todo
  /\ tx'[s].locks = tx[s].locks \cup ({"retention"} \X C) \cup ({"proposal"} \X K)
  /\ \A c \in C : lifecycle[c] = "active" /\ ~HeldByOther(s, <<"retention", c>>)
  /\ \A k \in K : proposals[k] # NoEntry /\ ~HeldByOther(s, <<"proposal", k>>)
  /\ \A c \in Contents : tx'[s].lifecycle[c] # NoEntry => tx[s].lifecycle[c] # NoEntry \/ c \in C
  /\ \A k \in ProposalKeys : tx'[s].status[k] # NoEntry =>
       \/ tx'[s].status[k] = tx[s].status[k]
       \/ k \in K /\ tx'[s].status[k] = "revoked" /\ proposals[k].status \in Live
  /\ \A c \in Contents : Reached(s, c) => Reached(s, c)'
  /\ \A c \in C : Reached(s, c)'
  /\ \A k \in K : Reached(s, proposals[k].content)'
  /\ p # "commit" => tx'[s].todo # {}
  /\ p \in {"revoke", "references"} => <<"retention", NextCandidate(s)'>> \in tx'[s].locks

\* A retention that goes on in this way keeps the invariant.
LEMMA RetentionGoesOn ==
  ASSUME ProposalsInv, NEW s \in Sessions, pc[s] \in {"select", "revoke", "references"},
         NEW p \in {"select", "revoke", "references", "commit"},
         NEW C \in SUBSET Contents, NEW K \in SUBSET ProposalKeys, GoesOn(s, p, C, K)
  PROVE  ProposalsInv'
<1> USE DEF GoesOn
<1>1. /\ SessionsTyped /\ SessionInv(s) /\ call[s].kind = "retention" /\ Retaining(s)
      /\ call[s].operation \in Operations
  BY DEF ProposalsInv, SessionInv, Asked
<1>2. SessionsTyped' /\ OthersStay(s) /\ pc'[s] = p
  BY <1>1, GotoEffect DEF SessionsTyped, OthersStay, Places
<1>3. Asked(s)' /\ Told(s)' /\ Proposing(s)' /\ Receiving(s)'
  BY <1>1, <1>2 DEF SessionInv, Asked, Told, Proposing, Receiving
<1>4. /\ tx'[s].claims /\ operations[call[s].operation] = NoEntry
      /\ <<"operation", call[s].operation>> \in tx'[s].locks
      /\ tx'[s].proposal = NoEntry /\ tx'[s].ledger = NoEntry
  BY <1>1 DEF Retaining
<1>5. IsFiniteSet(tx'[s].todo)
  <2>1. IsFiniteSet(tx[s].todo)
    BY <1>1 DEF Retaining
  <2> QED
    BY <2>1, FS_Subset
<1>6. \A c \in Contents : tx'[s].lifecycle[c] # NoEntry =>
        lifecycle[c] = "active" /\ <<"retention", c>> \in tx'[s].locks
  BY <1>1 DEF Retaining
<1>7. \A k \in ProposalKeys : tx'[s].status[k] # NoEntry =>
        /\ tx'[s].status[k] = "revoked" /\ <<"proposal", k>> \in tx'[s].locks
        /\ proposals[k] # NoEntry /\ proposals[k].status \in Live
  BY <1>1 DEF Retaining
<1>8. /\ \A c \in Contents : <<"raw", c>> \notin tx'[s].locks
      /\ \A k \in ProposalKeys : <<"advisory", k>> \notin tx'[s].locks
      /\ \A o \in Operations : <<"operation", o>> \in tx'[s].locks => o = call[s].operation
  BY <1>1 DEF Retaining
<1>9. \A c \in Contents : <<"retention", c>> \in tx'[s].locks =>
        lifecycle[c] # "none" /\ Reached(s, c)'
  <2>1. \A c \in Contents : <<"retention", c>> \in tx'[s].locks =>
          <<"retention", c>> \in tx[s].locks \/ c \in C
    OBVIOUS
  <2> QED
    BY <1>1, <2>1 DEF Retaining
<1>10. \A k \in ProposalKeys : <<"proposal", k>> \in tx'[s].locks =>
         proposals[k] # NoEntry /\ Reached(s, proposals[k].content)'
  <2>1. \A k \in ProposalKeys : <<"proposal", k>> \in tx'[s].locks =>
          <<"proposal", k>> \in tx[s].locks \/ k \in K
    OBVIOUS
  <2>2. \A k \in ProposalKeys : proposals[k] # NoEntry => proposals[k].content \in Contents
    BY DEF ProposalsInv, TablesTyped, ProposalRow
  <2>3. ASSUME NEW k \in ProposalKeys, <<"proposal", k>> \in tx[s].locks
        PROVE  proposals[k] # NoEntry /\ Reached(s, proposals[k].content)'
    <3>1. proposals[k] # NoEntry /\ Reached(s, proposals[k].content)
      BY <1>1, <2>3 DEF Retaining
    <3>2. PICK d \in Contents : d = proposals[k].content /\ Reached(s, d)
      BY <2>2, <3>1
    <3>3. Reached(s, d)' /\ d = proposals[k].content'
      BY <3>2 DEF fabricTables
    <3> QED
      BY <3>1, <3>3 DEF Reached
  <2> QED
    BY <2>1, <2>3
<1>11. Retaining(s)'
  BY <1>1, <1>2, <1>4, <1>5, <1>6, <1>7, <1>8, <1>9, <1>10 DEF Retaining, fabricTables
<1>12. SessionInv(s)'
  BY <1>2, <1>3, <1>11 DEF SessionInv, Unlocked
<1>13. \A l \in tx'[s].locks : l \in tx[s].locks \/ ~HeldByOther(s, l)
  OBVIOUS
<1> QED
  BY <1>2, <1>12, <1>13, OwnStep

\* The candidate in hand is the smallest that is left.
LEMMA Candidate ==
  ASSUME ProposalsInv, NEW s \in Sessions, pc[s] \in {"select", "revoke", "references"}
  PROVE  /\ NextCandidate(s) \in tx[s].todo /\ NextCandidate(s) \in Contents
         /\ tx[s].todo \subseteq Contents /\ IsFiniteSet(tx[s].todo)
         /\ \A d \in tx[s].todo : NextCandidate(s) <= d
         /\ \A d \in Contents : Reached(s, d) => d <= NextCandidate(s)
<1>1. Retaining(s) /\ call[s].kind = "retention" /\ tx[s] \in TxType
  BY DEF ProposalsInv, SessionInv, Asked, SessionsTyped
<1>2. tx[s].todo # {} /\ IsFiniteSet(tx[s].todo) /\ tx[s].todo \subseteq Contents
  BY <1>1 DEF Retaining, TxType
<1>3. tx[s].todo \in SUBSET Nat
  BY <1>2, ProposalsAssumption
<1>4. NextCandidate(s) \in tx[s].todo /\ \A d \in tx[s].todo : NextCandidate(s) <= d
  BY <1>2, <1>3, MinOfContents DEF NextCandidate
<1> QED
  BY <1>2, <1>4 DEF Reached

\* After the last candidate comes the COMMIT, else the next one.
LEMMA CandidateDone ==
  ASSUME ProposalsInv, NEW s \in Sessions, pc[s] \in {"select", "revoke", "references"},
         AfterCandidate(s), tx'[s].todo = tx[s].todo \ {NextCandidate(s)}
  PROVE  \E p \in {"select", "commit"} :
           /\ Goto(s, p)
           /\ p # "commit" => tx'[s].todo # {}
           /\ \A d \in Contents : d <= NextCandidate(s) => Reached(s, d)'
<1> DEFINE todo == tx[s].todo
           c == NextCandidate(s)
           p == IF Cardinality(todo) = 1 THEN "commit" ELSE "select"
<1>1. Goto(s, p) /\ p \in {"select", "commit"}
  BY DEF AfterCandidate
<1>2. pc'[s] = p
  BY <1>1, GotoEffect DEF ProposalsInv, Places
<1>3. c \in todo /\ todo \subseteq Contents /\ IsFiniteSet(todo) /\ \A d \in todo : c <= d
  BY Candidate
<1>4. p # "commit" => tx'[s].todo # {}
  <2>1. SUFFICES ASSUME tx'[s].todo = {} PROVE Cardinality(todo) = 1
    OBVIOUS
  <2>2. todo = {c}
    BY <1>3, <2>1
  <2> QED
    BY <2>2, FS_Singleton
<1>5. \A d \in Contents : d <= c => Reached(s, d)'
  <2>1. \A d \in tx'[s].todo : d \in todo /\ c < d
    <3>1. \A d \in todo : d \in Nat
      BY <1>3, ProposalsAssumption
    <3> HIDE DEF c, todo
    <3>2. tx'[s].todo = todo \ {c}
      BY DEF c, todo
    <3> QED
      BY <1>3, <3>1, <3>2
  <2>2. c \in Nat /\ Contents \subseteq Nat /\ \A e \in tx'[s].todo : e \in Nat
    BY <1>3, <2>1, ProposalsAssumption
  <2> HIDE DEF c, todo, p
  <2>3. ASSUME NEW d \in Contents, d <= c
        PROVE  \A e \in tx'[s].todo : d <= e /\ d < e
    BY <2>1, <2>2, <2>3
  <2> QED
    BY <2>3 DEF Reached
<1> QED
  BY <1>1, <1>4, <1>5

\* An active row is ended, any other is skipped.
LEMMA SelectRetentionKeeps ==
  ASSUME ProposalsInv, NEW s \in Sessions, SelectRetention(s)
  PROVE  ProposalsInv'
<1> DEFINE c == NextCandidate(s)
           lock == <<"retention", c>>
           ending == Ending(call[s].request.reason)
<1>1. /\ SessionsTyped /\ SessionInv(s) /\ pc[s] = "select" /\ call' = call
      /\ UNCHANGED <<fabricTables, blobs>> /\ tx[s] \in TxType /\ call[s].request \in Requests
  BY DEF ProposalsInv, SessionInv, Asked, SelectRetention, At, OnlyCall, TablesUnchanged,
         SessionsTyped
<1>2. /\ c \in tx[s].todo /\ c \in Contents /\ tx[s].todo \subseteq Contents
      /\ \A d \in tx[s].todo : c <= d
      /\ \A d \in Contents : Reached(s, d) => d <= c
  BY <1>1, Candidate
<1>3. CASE lifecycle[c] = "active" /\ MayEnd(c, call[s].request.reason)
  <2>1. /\ tx' = [tx EXCEPT ![s].locks = @ \cup {lock}, ![s].lifecycle = [@ EXCEPT ![c] = ending]]
        /\ Goto(s, "revoke") /\ ~HeldByOther(s, lock)
    BY <1>3 DEF SelectRetention
  <2>2. ending \in Endings
    BY <1>1, ProposalsAssumption DEF Ending, Endings
  <2>3. /\ tx' \in [Sessions -> TxType] /\ \A o \in Sessions \ {s} : tx'[o] = tx[o]
        /\ tx'[s].locks = tx[s].locks \cup {lock} /\ tx'[s].claims = tx[s].claims
        /\ tx'[s].todo = tx[s].todo /\ tx'[s].proposal = tx[s].proposal
        /\ tx'[s].ledger = tx[s].ledger /\ tx'[s].status = tx[s].status
        /\ tx'[s].lifecycle = [tx[s].lifecycle EXCEPT ![c] = ending]
    <3>1. lock \in Locks
      BY <1>2 DEF Locks
    <3> HIDE DEF c, lock, ending
    <3>2. [tx[s] EXCEPT !.locks = @ \cup {lock}, !.lifecycle = [@ EXCEPT ![c] = ending]] \in TxType
      BY <1>1, <2>2, <3>1 DEF TxType
    <3>3. tx' \in [Sessions -> TxType] /\ \A o \in Sessions \ {s} : tx'[o] = tx[o]
      BY <1>1, <2>1, <3>2 DEF SessionsTyped
    <3>4. /\ tx'[s].locks = tx[s].locks \cup {lock} /\ tx'[s].claims = tx[s].claims
          /\ tx'[s].todo = tx[s].todo /\ tx'[s].proposal = tx[s].proposal
          /\ tx'[s].ledger = tx[s].ledger /\ tx'[s].status = tx[s].status
          /\ tx'[s].lifecycle = [tx[s].lifecycle EXCEPT ![c] = ending]
      BY <1>1, <2>1 DEF SessionsTyped, TxType
    <3> QED
      BY <3>3, <3>4
  <2>4. pc'[s] = "revoke"
    BY <1>1, <2>1, GotoEffect DEF Places
  <2>5. tx'[s].todo # {} /\ NextCandidate(s)' = c
    BY <1>2, <2>3 DEF NextCandidate
  <2>6. \A d \in Contents : d <= c => Reached(s, d)'
    <3>1. Contents \subseteq Nat
      BY ProposalsAssumption
    <3> HIDE DEF c, lock, ending
    <3> QED
      BY <1>2, <2>3, <2>4, <3>1 DEF Reached
  <2>7. \A d \in Contents : tx'[s].lifecycle[d] # NoEntry => tx[s].lifecycle[d] # NoEntry \/ d \in {c}
    <3>1. tx[s].lifecycle \in [Contents -> Endings \cup {NoEntry}]
      BY <1>1 DEF TxType
    <3> HIDE DEF c, ending
    <3> QED
      BY <2>3, <3>1
  <2>8. c <= c
    BY <1>2, ProposalsAssumption
  <2>9. GoesOn(s, "revoke", {c}, {})
    <3> HIDE DEF ending
    <3> QED
      BY <1>1, <1>2, <1>3, <2>1, <2>3, <2>5, <2>6, <2>7, <2>8 DEF GoesOn
  <2> QED
    BY <1>1, <1>2, <2>9, RetentionGoesOn
<1>4. CASE ~(lifecycle[c] = "active" /\ MayEnd(c, call[s].request.reason))
  <2>1. tx' = [tx EXCEPT ![s].todo = @ \ {c}] /\ AfterCandidate(s)
    BY <1>4 DEF SelectRetention
  <2>2. /\ tx' \in [Sessions -> TxType] /\ \A o \in Sessions \ {s} : tx'[o] = tx[o]
        /\ tx'[s].locks = tx[s].locks /\ tx'[s].claims = tx[s].claims
        /\ tx'[s].todo = tx[s].todo \ {c} /\ tx'[s].proposal = tx[s].proposal
        /\ tx'[s].ledger = tx[s].ledger /\ tx'[s].status = tx[s].status
        /\ tx'[s].lifecycle = tx[s].lifecycle
    <3> HIDE DEF c
    <3>1. [tx[s] EXCEPT !.todo = @ \ {c}] \in TxType
      BY <1>1 DEF TxType
    <3>2. tx' \in [Sessions -> TxType] /\ \A o \in Sessions \ {s} : tx'[o] = tx[o]
      BY <1>1, <2>1, <3>1 DEF SessionsTyped
    <3>3. /\ tx'[s].locks = tx[s].locks /\ tx'[s].claims = tx[s].claims
          /\ tx'[s].todo = tx[s].todo \ {c} /\ tx'[s].proposal = tx[s].proposal
          /\ tx'[s].ledger = tx[s].ledger /\ tx'[s].status = tx[s].status
          /\ tx'[s].lifecycle = tx[s].lifecycle
      BY <1>1, <2>1 DEF SessionsTyped, TxType
    <3> QED
      BY <3>2, <3>3
  <2>3. PICK p \in {"select", "commit"} :
          /\ Goto(s, p)
          /\ p # "commit" => tx'[s].todo # {}
          /\ \A d \in Contents : d <= c => Reached(s, d)'
    BY <1>1, <2>1, <2>2, CandidateDone
  <2>4. \A d \in Contents : Reached(s, d) => Reached(s, d)'
    BY <1>2, <2>3
  <2>5. GoesOn(s, p, {}, {})
    BY <1>1, <2>2, <2>3, <2>4 DEF GoesOn
  <2> QED
    BY <1>1, <2>5, RetentionGoesOn
<1> QED
  BY <1>3, <1>4

\* The live proposals of the content are revoked.
LEMMA RevokeProposalsKeeps ==
  ASSUME ProposalsInv, NEW s \in Sessions, RevokeProposals(s)
  PROVE  ProposalsInv'
<1> DEFINE c == NextCandidate(s)
           revoked == LiveOf(c)
           locks == {"proposal"} \X revoked
           status == [k \in ProposalKeys |-> IF k \in revoked THEN "revoked" ELSE tx[s].status[k]]
<1>1. /\ SessionsTyped /\ SessionInv(s) /\ pc[s] = "revoke" /\ call' = call
      /\ UNCHANGED <<fabricTables, blobs>> /\ tx[s] \in TxType /\ Goto(s, "references")
  BY DEF ProposalsInv, RevokeProposals, At, OnlyCall, TablesUnchanged, SessionsTyped
<1>2. /\ c \in tx[s].todo /\ c \in Contents /\ tx[s].todo \subseteq Contents
      /\ \A d \in tx[s].todo : c <= d
      /\ \A d \in Contents : Reached(s, d) => d <= c
  BY <1>1, Candidate
<1>3. /\ tx' = [tx EXCEPT ![s].locks = @ \cup locks, ![s].status = status]
      /\ \A k \in revoked : /\ k \in ProposalKeys /\ proposals[k] # NoEntry
                            /\ proposals[k].content = c /\ proposals[k].status \in Live
                            /\ ~HeldByOther(s, <<"proposal", k>>)
  BY DEF RevokeProposals, LiveOf
<1>4. /\ tx' \in [Sessions -> TxType] /\ \A o \in Sessions \ {s} : tx'[o] = tx[o]
      /\ tx'[s].locks = tx[s].locks \cup locks /\ tx'[s].claims = tx[s].claims
      /\ tx'[s].todo = tx[s].todo /\ tx'[s].proposal = tx[s].proposal
      /\ tx'[s].ledger = tx[s].ledger /\ tx'[s].status = status
      /\ tx'[s].lifecycle = tx[s].lifecycle
  <2>1. locks \in SUBSET Locks
    BY <1>3 DEF Locks
  <2>2. status \in [ProposalKeys -> Live \cup Terminal \cup {NoEntry}]
    BY <1>1 DEF TxType, Terminal
  <2> HIDE DEF locks, status
  <2>3. [tx[s] EXCEPT !.locks = @ \cup locks, !.status = status] \in TxType
    BY <1>1, <2>1, <2>2 DEF TxType
  <2>4. tx' \in [Sessions -> TxType] /\ \A o \in Sessions \ {s} : tx'[o] = tx[o]
    BY <1>1, <1>3, <2>3 DEF SessionsTyped
  <2>5. /\ tx'[s].locks = tx[s].locks \cup locks /\ tx'[s].claims = tx[s].claims
        /\ tx'[s].todo = tx[s].todo /\ tx'[s].proposal = tx[s].proposal
        /\ tx'[s].ledger = tx[s].ledger /\ tx'[s].status = status
        /\ tx'[s].lifecycle = tx[s].lifecycle
    BY <1>1, <1>3 DEF SessionsTyped, TxType
  <2> QED
    BY <2>4, <2>5
<1>5. pc'[s] = "references"
  BY <1>1, GotoEffect DEF Places
<1>6. tx'[s].todo # {} /\ NextCandidate(s)' = c
  BY <1>2, <1>4 DEF NextCandidate
<1>7. \A d \in Contents : d <= c => Reached(s, d)'
  <2>1. Contents \subseteq Nat
    BY ProposalsAssumption
  <2> HIDE DEF c, locks, status
  <2> QED
    BY <1>2, <1>4, <1>5, <2>1 DEF Reached
<1>8. \A k \in revoked : Reached(s, proposals[k].content)'
  <2>1. PICK d \in Contents : d = c
    BY <1>2
  <2>2. d <= d
    BY ProposalsAssumption
  <2>3. Reached(s, d)'
    BY <1>7, <2>1, <2>2
  <2>4. ASSUME NEW k \in revoked PROVE Reached(s, proposals[k].content)'
    <3>1. proposals[k].content' = d
      BY <1>1, <1>3, <2>1 DEF fabricTables
    <3> QED
      BY <2>3, <3>1 DEF Reached
  <2> QED
    BY <2>4
<1>9. \A k \in ProposalKeys : status[k] # NoEntry =>
        \/ status[k] = tx[s].status[k]
        \/ k \in revoked /\ status[k] = "revoked" /\ proposals[k].status \in Live
  BY <1>3
<1>10. <<"retention", c>> \in tx[s].locks
  BY <1>1 DEF SessionInv, Retaining
<1>11. GoesOn(s, "references", {}, revoked)
  <2> HIDE DEF status, revoked
  <2> QED
    BY <1>1, <1>2, <1>3, <1>4, <1>6, <1>7, <1>8, <1>9, <1>10 DEF GoesOn
<1>12. revoked \in SUBSET ProposalKeys
  BY <1>3
<1> QED
  BY <1>1, <1>11, <1>12, RetentionGoesOn

\* The proposals that have come since are locked, and the candidate is done.
LEMMA ReferencesKeeps ==
  ASSUME ProposalsInv, NEW s \in Sessions, References(s)
  PROVE  ProposalsInv'
<1> DEFINE c == NextCandidate(s)
           live == {k \in LiveOf(c) : tx[s].status[k] = NoEntry}
           locks == {"proposal"} \X live
           results == tx[s].results \cup {[content |-> c, gcCandidate |-> live = {}]}
<1>1. /\ SessionsTyped /\ SessionInv(s) /\ pc[s] = "references" /\ call' = call
      /\ UNCHANGED <<fabricTables, blobs>> /\ tx[s] \in TxType /\ AfterCandidate(s)
  BY DEF ProposalsInv, References, At, OnlyCall, TablesUnchanged, SessionsTyped
<1>2. c \in Contents /\ \A d \in Contents : Reached(s, d) => d <= c
  BY <1>1, Candidate
<1>3. /\ tx' = [tx EXCEPT ![s].locks = @ \cup locks, ![s].todo = @ \ {c}, ![s].results = results]
      /\ \A k \in live : /\ k \in ProposalKeys /\ proposals[k] # NoEntry
                         /\ proposals[k].content = c /\ ~HeldByOther(s, <<"proposal", k>>)
  BY DEF References, LiveOf
<1>4. /\ tx' \in [Sessions -> TxType] /\ \A o \in Sessions \ {s} : tx'[o] = tx[o]
      /\ tx'[s].locks = tx[s].locks \cup locks /\ tx'[s].claims = tx[s].claims
      /\ tx'[s].todo = tx[s].todo \ {c} /\ tx'[s].proposal = tx[s].proposal
      /\ tx'[s].ledger = tx[s].ledger /\ tx'[s].status = tx[s].status
      /\ tx'[s].lifecycle = tx[s].lifecycle
  <2>1. locks \in SUBSET Locks
    BY <1>3 DEF Locks
  <2>2. results \in Results
    <3> DEFINE none == live = {}
    <3>1. none \in BOOLEAN
      OBVIOUS
    <3> HIDE DEF none, c
    <3>2. [content |-> c, gcCandidate |-> none] \in [content : Contents, gcCandidate : BOOLEAN]
      BY <1>2, <3>1
    <3>3. tx[s].results \in Results
      BY <1>1 DEF TxType
    <3> QED
      BY <3>2, <3>3 DEF Results, none
  <2> HIDE DEF locks, results, c
  <2>3. [tx[s] EXCEPT !.locks = @ \cup locks, !.todo = @ \ {c}, !.results = results] \in TxType
    BY <1>1, <2>1, <2>2 DEF TxType
  <2>4. tx' \in [Sessions -> TxType] /\ \A o \in Sessions \ {s} : tx'[o] = tx[o]
    BY <1>1, <1>3, <2>3 DEF SessionsTyped
  <2>5. /\ tx'[s].locks = tx[s].locks \cup locks /\ tx'[s].claims = tx[s].claims
        /\ tx'[s].todo = tx[s].todo \ {c} /\ tx'[s].proposal = tx[s].proposal
        /\ tx'[s].ledger = tx[s].ledger /\ tx'[s].status = tx[s].status
        /\ tx'[s].lifecycle = tx[s].lifecycle
    BY <1>1, <1>3 DEF SessionsTyped, TxType
  <2> QED
    BY <2>4, <2>5
<1>5. PICK p \in {"select", "commit"} :
        /\ Goto(s, p)
        /\ p # "commit" => tx'[s].todo # {}
        /\ \A d \in Contents : d <= c => Reached(s, d)'
  BY <1>1, <1>4, CandidateDone
<1>6. \A d \in Contents : Reached(s, d) => Reached(s, d)'
  BY <1>2, <1>5
<1>7. \A k \in live : Reached(s, proposals[k].content)'
  <2>1. PICK d \in Contents : d = c
    BY <1>2
  <2>2. d <= d
    BY ProposalsAssumption
  <2>3. Reached(s, d)'
    BY <1>5, <2>1, <2>2
  <2>4. ASSUME NEW k \in live PROVE Reached(s, proposals[k].content)'
    <3>1. proposals[k].content' = d
      BY <1>1, <1>3, <2>1 DEF fabricTables
    <3> QED
      BY <2>3, <3>1 DEF Reached
  <2> QED
    BY <2>4
<1>8. GoesOn(s, p, {}, live)
  <2> HIDE DEF live, c, results
  <2> QED
    BY <1>1, <1>3, <1>4, <1>5, <1>6, <1>7 DEF GoesOn
<1>9. live \in SUBSET ProposalKeys
  BY <1>3
<1> QED
  BY <1>1, <1>5, <1>8, <1>9, RetentionGoesOn

(***************************************************************************)
(* COMMIT                                                                  *)
(***************************************************************************)

\* What a committed proposal changes.
LEMMA ProposeApplies ==
  ASSUME ProposalsInv, NEW s \in Sessions, pc[s] = "commit", call[s].kind = "propose", Apply(s)
  PROVE  /\ TablesTyped' /\ receipts' = receipts /\ operations' = operations
         /\ call[s].key \in ProposalKeys /\ call[s].content \in Contents
         /\ call[s].content \in blobs /\ lifecycle'[call[s].content] # "none"
         /\ \A d \in Contents : lifecycle'[d] # lifecycle[d] =>
              lifecycle[d] = "none" /\ <<"retention", d>> \in tx[s].locks
         /\ \A k \in ProposalKeys : proposals'[k] # proposals[k] =>
              /\ k = call[s].key /\ proposals[k] = NoEntry /\ <<"proposal", k>> \in tx[s].locks
              /\ proposals'[k].content = call[s].content /\ proposals'[k].status = "queued"
         /\ call[s].outcome \in {"queued", "duplicate"} =>
              /\ proposals'[call[s].key] # NoEntry
              /\ proposals'[call[s].key].content = call[s].content
<1> DEFINE k == call[s].key
           c == call[s].content
           row == [content |-> c, status |-> "queued"]
<1>1. SessionInv(s) /\ Asked(s) /\ Proposing(s) /\ TablesTyped
  BY DEF ProposalsInv, SessionInv
<1>2. k \in ProposalKeys /\ c \in Contents /\ c \in blobs /\ OnlyProposes(s)
  BY <1>1 DEF Asked, Proposing
<1>3. lifecycle' = [d \in Contents |-> IF d = c /\ lifecycle[d] = "none" THEN "active" ELSE lifecycle[d]]
  BY <1>2 DEF Apply, OnlyProposes, NoEnding
<1>4. /\ receipts' = receipts /\ operations' = operations
      /\ proposals' = [q \in ProposalKeys |->
                         IF tx[s].proposal # NoEntry /\ q = k THEN tx[s].proposal ELSE proposals[q]]
  BY <1>2 DEF Apply, OnlyProposes, NoStatus
<1>5. /\ lifecycle' \in [Contents -> {"none", "active"} \cup Endings] /\ lifecycle'[c] # "none"
      /\ \A d \in Contents : lifecycle'[d] # lifecycle[d] => d = c /\ lifecycle[d] = "none"
  BY <1>1, <1>2, <1>3 DEF TablesTyped
<1>6. lifecycle[c] = "none" => <<"retention", c>> \in tx[s].locks
  BY <1>1 DEF Proposing
<1>7. \/ /\ tx[s].proposal = row /\ proposals[k] = NoEntry /\ <<"proposal", k>> \in tx[s].locks
      \/ /\ tx[s].proposal = NoEntry /\ proposals[k] # NoEntry
         /\ call[s].outcome = Known(s, proposals[k])
  BY <1>1 DEF Proposing
<1>8. row \in ProposalRow /\ row # NoEntry /\ row.content = c /\ row.status = "queued"
  BY <1>2, ProposalsAssumption DEF ProposalRow, Live
<1>9. CASE tx[s].proposal = NoEntry
  <2>1. proposals' = proposals
    BY <1>1, <1>4, <1>9 DEF TablesTyped
  <2>2. call[s].outcome \in {"queued", "duplicate"} => proposals[k].content = c
    BY <1>7, <1>8, <1>9 DEF Known
  <2> QED
    BY <1>1, <1>2, <1>4, <1>5, <1>6, <1>7, <1>8, <1>9, <2>1, <2>2 DEF TablesTyped
<1>10. CASE tx[s].proposal # NoEntry
  <2>1. tx[s].proposal = row /\ proposals[k] = NoEntry /\ <<"proposal", k>> \in tx[s].locks
    BY <1>7, <1>10
  <2> HIDE DEF row
  <2>2. proposals' = [q \in ProposalKeys |-> IF q = k THEN row ELSE proposals[q]]
    BY <1>4, <1>10, <2>1
  <2>3. /\ proposals' \in [ProposalKeys -> ProposalRow \cup {NoEntry}] /\ proposals'[k] = row
        /\ \A q \in ProposalKeys : proposals'[q] # proposals[q] => q = k
    BY <1>1, <1>2, <1>8, <2>2 DEF TablesTyped
  <2> QED
    BY <1>1, <1>2, <1>4, <1>5, <1>6, <1>8, <2>1, <2>3 DEF TablesTyped
<1> QED
  BY <1>9, <1>10

\* A proposal that changes status keeps its content.
LEMMA StatusSet ==
  ASSUME NEW p \in ProposalRow, NEW status \in Live \cup Terminal
  PROVE  /\ [p EXCEPT !.status = status] \in ProposalRow
         /\ [p EXCEPT !.status = status].content = p.content
         /\ [p EXCEPT !.status = status].status = status
BY DEF ProposalRow

\* What a committed receipt changes.
LEMMA ReceiptApplies ==
  ASSUME ProposalsInv, NEW s \in Sessions, pc[s] = "commit", call[s].kind = "receipt", Apply(s)
  PROVE  /\ TablesTyped' /\ lifecycle' = lifecycle /\ operations' = operations
         /\ call[s].key \in ProposalKeys /\ <<"proposal", call[s].key>> \in tx[s].locks
         /\ proposals[call[s].key] # NoEntry
         /\ \A k \in ProposalKeys \ {call[s].key} :
              proposals'[k] = proposals[k] /\ receipts'[k] = receipts[k]
         /\ proposals'[call[s].key] # NoEntry
         /\ proposals'[call[s].key].content = proposals[call[s].key].content
         /\ tx[s].status[call[s].key] = NoEntry => proposals' = proposals
         /\ tx[s].status[call[s].key] # NoEntry =>
              proposals'[call[s].key].status = tx[s].status[call[s].key]
         /\ receipts'[call[s].key] =
              IF tx[s].ledger = NoEntry THEN receipts[call[s].key] ELSE tx[s].ledger
<1> DEFINE k == call[s].key
           t == tx[s]
           row == [proposals[k] EXCEPT !.status = t.status[k]]
<1>1. SessionInv(s) /\ Asked(s) /\ Receiving(s) /\ TablesTyped /\ t \in TxType
  BY DEF ProposalsInv, SessionInv, SessionsTyped
<1>2. /\ k \in ProposalKeys /\ proposals[k] # NoEntry
      /\ t.locks = {<<"advisory", k>>, <<"proposal", k>>}
      /\ t.proposal = NoEntry /\ NoEnding(s) /\ ~t.claims
      /\ \A q \in ProposalKeys \ {k} : t.status[q] = NoEntry
      /\ call[s].content \notin Contents
  BY <1>1, ProposalsAssumption DEF Asked, Receiving
<1>3. lifecycle' = lifecycle
  <2>1. lifecycle' = [d \in Contents |-> lifecycle[d]]
    BY <1>2 DEF Apply, NoEnding
  <2> QED
    BY <1>1, <2>1 DEF TablesTyped
<1>4. /\ operations' = operations
      /\ receipts' = IF t.ledger = NoEntry THEN receipts ELSE [receipts EXCEPT ![k] = t.ledger]
  BY <1>2 DEF Apply
<1>5. /\ receipts' \in [ProposalKeys -> Ledger \cup {NoEntry}]
      /\ receipts'[k] = IF t.ledger = NoEntry THEN receipts[k] ELSE t.ledger
      /\ \A q \in ProposalKeys \ {k} : receipts'[q] = receipts[q]
  <2>1. t.ledger \in Ledger \cup {NoEntry} /\ receipts \in [ProposalKeys -> Ledger \cup {NoEntry}]
    BY <1>1 DEF TxType, TablesTyped
  <2> HIDE DEF t, k
  <2> QED
    BY <1>2, <1>4, <2>1
<1>6. proposals' = [q \in ProposalKeys |->
                      IF t.status[q] # NoEntry THEN [proposals[q] EXCEPT !.status = t.status[q]]
                      ELSE proposals[q]]
  BY <1>2 DEF Apply
<1>7. /\ proposals'[k] = IF t.status[k] = NoEntry THEN proposals[k] ELSE row
      /\ \A q \in ProposalKeys \ {k} : proposals'[q] = proposals[q]
      /\ DOMAIN proposals' = ProposalKeys
  BY <1>2, <1>6
<1>8. proposals[k] \in ProposalRow /\ t.status[k] \in Live \cup Terminal \cup {NoEntry}
  BY <1>1, <1>2 DEF TablesTyped, TxType
<1>9. t.status[k] # NoEntry =>
        row \in ProposalRow /\ row.content = proposals[k].content /\ row.status = t.status[k]
  BY <1>8, StatusSet
<1> HIDE DEF row, k, t
<1>10. /\ proposals' = [q \in ProposalKeys |-> proposals'[q]]
       /\ \A q \in ProposalKeys : proposals'[q] \in ProposalRow \cup {NoEntry}
  <2>1. proposals' = [q \in ProposalKeys |-> proposals'[q]]
    BY <1>6
  <2> QED
    BY <1>1, <1>7, <1>8, <1>9, <2>1 DEF TablesTyped
<1>11. proposals' \in [ProposalKeys -> ProposalRow \cup {NoEntry}]
  BY <1>10
<1>12. t.status[k] = NoEntry => proposals' = proposals
  BY <1>1, <1>2, <1>7, <1>11 DEF TablesTyped
<1>13. TablesTyped'
  BY <1>1, <1>3, <1>4, <1>5, <1>11 DEF TablesTyped
<1>14. proposals'[k] # NoEntry /\ proposals'[k].content = proposals[k].content
  BY <1>2, <1>7, <1>8, <1>9, ProposalsAssumption
<1>15. t.status[k] # NoEntry => proposals'[k].status = t.status[k]
  BY <1>7, <1>9
<1> QED
  BY <1>2, <1>3, <1>4, <1>5, <1>7, <1>12, <1>13, <1>14, <1>15 DEF k, t

\* What a committed retention changes.
LEMMA RetentionApplies ==
  ASSUME ProposalsInv, NEW s \in Sessions, pc[s] = "commit", call[s].kind = "retention", Apply(s)
  PROVE  /\ TablesTyped' /\ receipts' = receipts
         /\ call[s].operation \in Operations /\ operations[call[s].operation] = NoEntry
         /\ <<"operation", call[s].operation>> \in tx[s].locks
         /\ \A x \in Operations \ {call[s].operation} : operations'[x] = operations[x]
         /\ operations'[call[s].operation] = [request |-> call[s].request, results |-> tx[s].results]
         /\ \A d \in Contents : lifecycle'[d] # lifecycle[d] =>
              lifecycle[d] = "active" /\ <<"retention", d>> \in tx[s].locks /\ lifecycle'[d] # "none"
         /\ \A k \in ProposalKeys : proposals'[k] # proposals[k] =>
              /\ proposals[k] # NoEntry /\ proposals[k].status \in Live
              /\ <<"proposal", k>> \in tx[s].locks
              /\ proposals'[k] # NoEntry /\ proposals'[k].content = proposals[k].content
              /\ proposals'[k].status = "revoked"
<1> DEFINE o == call[s].operation
           t == tx[s]
           response == [request |-> call[s].request, results |-> t.results]
<1>1. SessionInv(s) /\ Asked(s) /\ Retaining(s) /\ t \in TxType /\ TablesTyped
  BY DEF ProposalsInv, SessionInv, SessionsTyped
<1>2. /\ o \in Operations /\ call[s].request \in Requests /\ operations[o] = NoEntry
      /\ <<"operation", o>> \in t.locks
      /\ t.claims /\ t.proposal = NoEntry /\ t.ledger = NoEntry /\ call[s].content \notin Contents
  BY <1>1, ProposalsAssumption DEF Asked, Retaining
<1>3. /\ receipts' = receipts
      /\ operations' = [operations EXCEPT ![o] = response]
  BY <1>2 DEF Apply
<1>4. lifecycle' = [d \in Contents |-> IF t.lifecycle[d] # NoEntry THEN t.lifecycle[d] ELSE lifecycle[d]]
  BY <1>2 DEF Apply
<1>5. proposals' = [q \in ProposalKeys |->
                      IF t.status[q] # NoEntry THEN [proposals[q] EXCEPT !.status = t.status[q]]
                      ELSE proposals[q]]
  BY <1>2 DEF Apply
<1>6. /\ operations' \in [Operations -> OperationRow \cup {NoEntry}] /\ operations'[o] = response
      /\ \A x \in Operations \ {o} : operations'[x] = operations[x]
  <2>1. response \in OperationRow
    BY <1>1, <1>2 DEF TxType, OperationRow, Results
  <2> HIDE DEF response
  <2> QED
    BY <1>1, <1>2, <1>3, <2>1 DEF TablesTyped
<1>7. /\ lifecycle' \in [Contents -> {"none", "active"} \cup Endings]
      /\ \A d \in Contents : lifecycle'[d] # lifecycle[d] =>
           lifecycle[d] = "active" /\ <<"retention", d>> \in t.locks /\ lifecycle'[d] # "none"
  <2>1. \A d \in Contents : t.lifecycle[d] # NoEntry =>
          lifecycle[d] = "active" /\ <<"retention", d>> \in t.locks /\ t.lifecycle[d] \in Endings
    BY <1>1 DEF Retaining, TxType
  <2> HIDE DEF t
  <2> QED
    BY <1>1, <1>4, <2>1 DEF TablesTyped, Endings
<1>8. ASSUME NEW k \in ProposalKeys
      PROVE  /\ proposals'[k] \in ProposalRow \cup {NoEntry}
             /\ proposals'[k] # proposals[k] =>
                  /\ proposals[k] # NoEntry /\ proposals[k].status \in Live
                  /\ <<"proposal", k>> \in t.locks
                  /\ proposals'[k] # NoEntry /\ proposals'[k].content = proposals[k].content
                  /\ proposals'[k].status = "revoked"
  <2> DEFINE row == [proposals[k] EXCEPT !.status = t.status[k]]
  <2>1. proposals'[k] = IF t.status[k] # NoEntry THEN row ELSE proposals[k]
    BY <1>5
  <2>2. CASE t.status[k] = NoEntry
    BY <1>1, <2>1, <2>2 DEF TablesTyped
  <2>3. CASE t.status[k] # NoEntry
    <3>1. /\ t.status[k] = "revoked" /\ <<"proposal", k>> \in t.locks
          /\ proposals[k] # NoEntry /\ proposals[k].status \in Live
      BY <1>1, <2>3 DEF Retaining
    <3>2. proposals[k] \in ProposalRow /\ t.status[k] \in Live \cup Terminal
      BY <1>1, <3>1 DEF TablesTyped, Terminal
    <3>3. row \in ProposalRow /\ row.content = proposals[k].content /\ row.status = t.status[k]
      BY <3>2, StatusSet
    <3> HIDE DEF row
    <3> QED
      BY <2>1, <2>3, <3>1, <3>3, ProposalsAssumption
  <2> QED
    BY <2>2, <2>3
<1>9. proposals' \in [ProposalKeys -> ProposalRow \cup {NoEntry}]
  <2>1. proposals' = [q \in ProposalKeys |-> proposals'[q]]
    BY <1>5
  <2>2. \A q \in ProposalKeys : proposals'[q] \in ProposalRow \cup {NoEntry}
    BY <1>8
  <2> QED
    BY <2>1, <2>2
<1>10. TablesTyped'
  BY <1>1, <1>3, <1>6, <1>7, <1>9 DEF TablesTyped
<1> QED
  BY <1>2, <1>3, <1>6, <1>7, <1>8, <1>10

\* A call that commits is one of the three.
LEMMA Committing ==
  ASSUME ProposalsInv, NEW s \in Sessions, pc[s] = "commit"
  PROVE  call[s].kind \in {"propose", "receipt", "retention"}
BY DEF ProposalsInv, SessionInv, Asked, SessionsTyped, CallType

\* What no COMMIT takes back: a proposal keeps its content, a content its
\* retention row, an operation its response.
Grows ==
  /\ \A k \in ProposalKeys : proposals[k] # NoEntry =>
       proposals'[k] # NoEntry /\ proposals'[k].content = proposals[k].content
  /\ \A d \in Contents : lifecycle[d] # "none" => lifecycle'[d] # "none"
  /\ \A x \in Operations : operations[x] # NoEntry => operations'[x] = operations[x]

\* The rows that a call has locked stay as they are.
Respects(o) ==
  /\ \A k \in ProposalKeys : <<"proposal", k>> \in tx[o].locks =>
       proposals'[k] = proposals[k] /\ receipts'[k] = receipts[k]
  /\ \A d \in Contents : <<"retention", d>> \in tx[o].locks => lifecycle'[d] = lifecycle[d]
  /\ \A x \in Operations : <<"operation", x>> \in tx[o].locks => operations'[x] = operations[x]

\* A COMMIT leaves rows of the types of the tables, and takes nothing back.
LEMMA ApplyGrows ==
  ASSUME ProposalsInv, NEW s \in Sessions, pc[s] = "commit", Apply(s)
  PROVE  TablesTyped' /\ Grows
<1>1. CASE call[s].kind = "propose"
  BY <1>1, ProposeApplies DEF Grows
<1>2. CASE call[s].kind = "receipt"
  BY <1>2, ReceiptApplies DEF Grows
<1>3. CASE call[s].kind = "retention"
  BY <1>3, RetentionApplies DEF Grows
<1> QED
  BY <1>1, <1>2, <1>3, Committing

\* A COMMIT changes only rows that its transaction has locked.
LEMMA ApplyRespects ==
  ASSUME ProposalsInv, NEW s \in Sessions, pc[s] = "commit", Apply(s), NEW o \in Sessions \ {s}
  PROVE  Respects(o)
<1>1. \A l : l \in tx[s].locks => l \notin tx[o].locks
  BY DEF ProposalsInv, Exclusive
<1>2. CASE call[s].kind = "propose"
  BY <1>1, <1>2, ProposeApplies DEF Respects
<1>3. CASE call[s].kind = "receipt"
  BY <1>1, <1>3, ReceiptApplies DEF Respects
<1>4. CASE call[s].kind = "retention"
  <2>1. /\ receipts' = receipts
        /\ <<"operation", call[s].operation>> \in tx[s].locks
        /\ \A x \in Operations \ {call[s].operation} : operations'[x] = operations[x]
    BY <1>4, RetentionApplies
  <2>2. \A d \in Contents : lifecycle'[d] # lifecycle[d] => <<"retention", d>> \in tx[s].locks
    BY <1>4, RetentionApplies
  <2>3. \A k \in ProposalKeys : proposals'[k] # proposals[k] => <<"proposal", k>> \in tx[s].locks
    BY <1>4, RetentionApplies
  <2> QED
    BY <1>1, <2>1, <2>2, <2>3 DEF Respects
<1> QED
  BY <1>2, <1>3, <1>4, Committing

\* What is said of a call survives the COMMIT of another one.
LEMMA OtherKept ==
  ASSUME ProposalsInv, NEW o \in Sessions, Grows, Respects(o), blobs' = blobs,
         pc'[o] = pc[o], call'[o] = call[o], tx'[o] = tx[o]
  PROVE  SessionInv(o)'
<1>1. SessionInv(o) /\ TablesTyped
  BY DEF ProposalsInv
<1>2. Asked(o) /\ Told(o) /\ Proposing(o) /\ Receiving(o) /\ Retaining(o)
  BY <1>1 DEF SessionInv
<1>3. Asked(o)'
  BY <1>2 DEF Asked
<1>4. Told(o)'
  <2>1. pc[o] = "answer" /\ call[o].outcome = "applied" =>
          call[o].operation \in Operations /\ operations[call[o].operation] # NoEntry
    <3>1. call[o].kind = "retention" => call[o].operation \in Operations /\ call[o].request \in Requests
      BY <1>2 DEF Asked
    <3>2. pc[o] = "answer" /\ call[o].outcome = "applied" =>
            /\ call[o].kind = "retention"
            /\ operations[call[o].operation] = [request |-> call[o].request, results |-> call[o].results]
      BY <1>2 DEF Told
    <3>3. call[o].results \in Results
      BY DEF ProposalsInv, SessionsTyped, CallType
    <3>4. [request |-> call[o].request, results |-> call[o].results] \in OperationRow
            \/ call[o].kind # "retention"
      BY <3>1, <3>3 DEF OperationRow, Results
    <3> QED
      BY <3>1, <3>2, <3>4, ProposalsAssumption
  <2>2. call[o].kind = "propose" => call[o].key \in ProposalKeys
    BY <1>2 DEF Asked
  <2> QED
    BY <1>2, <2>1, <2>2 DEF Told, Grows
<1>5. Proposing(o)'
  <2> DEFINE k == call[o].key
             c == call[o].content
  <2>1. call[o].kind = "propose" => k \in ProposalKeys /\ c \in Contents
    BY <1>2 DEF Asked
  <2>2. OnlyProposes(o)' <=> OnlyProposes(o)
    BY DEF OnlyProposes, NoStatus, NoEnding
  <2>3. call[o].kind = "propose" /\ pc[o] \in {"insertProposal", "commit"} =>
          (lifecycle'[c] = "none" <=> lifecycle[c] = "none")
    BY <1>2, <2>1 DEF Proposing, Grows, Respects
  <2>4. ASSUME call[o].kind = "propose", pc[o] = "commit", proposals[k] # NoEntry
        PROVE  Known(o, proposals[k])' = Known(o, proposals[k])
    BY <2>1, <2>4 DEF Known, Grows
  <2>5. ASSUME call[o].kind = "propose", pc[o] = "commit"
        PROVE  \/ /\ tx[o].proposal = [content |-> c, status |-> "queued"]
                  /\ proposals'[k] = NoEntry /\ <<"proposal", k>> \in tx[o].locks
                  /\ call[o].outcome = "queued"
               \/ /\ tx[o].proposal = NoEntry
                  /\ proposals'[k] # NoEntry /\ <<"proposal", k>> \notin tx[o].locks
                  /\ call[o].outcome = Known(o, proposals[k])'
    BY <1>2, <2>1, <2>4, <2>5 DEF Proposing, Grows, Respects
  <2> QED
    BY <1>2, <2>1, <2>2, <2>3, <2>5 DEF Proposing
<1>6. Receiving(o)'
  <2> DEFINE k == call[o].key
  <2>1. call[o].kind = "receipt" => k \in ProposalKeys
    BY <1>2, ProposalsAssumption DEF Asked
  <2>2. NoEnding(o)' <=> NoEnding(o)
    BY DEF NoEnding
  <2>3. call[o].kind = "receipt" /\ pc[o] \notin {"preflight", "answer"} => proposals'[k] # NoEntry
    BY <1>2, <2>1 DEF Receiving, Grows
  <2>4. call[o].kind = "receipt" /\ pc[o] = "commit" =>
          proposals'[k] = proposals[k] /\ receipts'[k] = receipts[k]
    BY <1>2, <2>1 DEF Receiving, Respects
  <2> QED
    BY <1>2, <2>1, <2>2, <2>3, <2>4 DEF Receiving
<1>7. Retaining(o)'
  <2>1. \A d : Reached(o, d)' <=> Reached(o, d)
    BY DEF Reached
  <2>2. NextCandidate(o)' = NextCandidate(o)
    BY DEF NextCandidate
  <2>3. ASSUME call[o].kind = "retention", pc[o] \in {"select", "revoke", "references", "commit"}
        PROVE  /\ operations'[call[o].operation] = NoEntry
               /\ \A d \in Contents : tx[o].lifecycle[d] # NoEntry => lifecycle'[d] = "active"
               /\ \A k \in ProposalKeys : tx[o].status[k] # NoEntry =>
                    proposals'[k] # NoEntry /\ proposals'[k].status \in Live
               /\ \A d \in Contents : <<"retention", d>> \in tx[o].locks => lifecycle'[d] # "none"
    <3>1. call[o].operation \in Operations
      BY <1>2, <2>3 DEF Asked
    <3>2. operations[call[o].operation] = NoEntry /\ <<"operation", call[o].operation>> \in tx[o].locks
      BY <1>2, <2>3 DEF Retaining
    <3>3. \A d \in Contents : tx[o].lifecycle[d] # NoEntry =>
            lifecycle[d] = "active" /\ <<"retention", d>> \in tx[o].locks
      BY <1>2, <2>3 DEF Retaining
    <3>4. \A k \in ProposalKeys : tx[o].status[k] # NoEntry =>
            /\ <<"proposal", k>> \in tx[o].locks
            /\ proposals[k] # NoEntry /\ proposals[k].status \in Live
      BY <1>2, <2>3 DEF Retaining
    <3>5. \A d \in Contents : <<"retention", d>> \in tx[o].locks => lifecycle[d] # "none"
      BY <1>2, <2>3 DEF Retaining
    <3> QED
      BY <3>1, <3>2, <3>3, <3>4, <3>5 DEF Grows, Respects
  <2>4. ASSUME call[o].kind = "retention", pc[o] \in {"select", "revoke", "references", "commit"},
               NEW k \in ProposalKeys, <<"proposal", k>> \in tx[o].locks
        PROVE  proposals'[k] # NoEntry /\ Reached(o, proposals[k].content)'
    <3>1. proposals[k] # NoEntry /\ Reached(o, proposals[k].content) /\ proposals'[k] = proposals[k]
      BY <1>2, <2>4 DEF Retaining, Respects
    <3> QED
      BY <3>1 DEF Reached
  <2> QED
    BY <1>2, <2>1, <2>2, <2>3, <2>4 DEF Retaining
<1> QED
  BY <1>1, <1>3, <1>4, <1>5, <1>6, <1>7 DEF SessionInv

\* A proposal that is committed has its payload and its retention row.
LEMMA ApplyBacked ==
  ASSUME ProposalsInv, NEW s \in Sessions, pc[s] = "commit", Apply(s), blobs' = blobs
  PROVE  ProposalsAreBacked'
<1>1. ProposalsAreBacked /\ TablesTyped' /\ Grows /\ TablesTyped
  BY ApplyGrows DEF ProposalsInv
<1>2. SUFFICES ASSUME NEW k \in ProposalKeys, proposals'[k] # NoEntry
               PROVE  proposals'[k].content \in blobs /\ lifecycle'[proposals'[k].content] # "none"
  BY DEF ProposalsAreBacked
<1>3. CASE proposals[k] # NoEntry
  <2>1. proposals'[k].content = proposals[k].content /\ proposals[k].content \in Contents
    BY <1>1, <1>3 DEF Grows, TablesTyped, ProposalRow
  <2> QED
    BY <1>1, <1>3, <2>1 DEF ProposalsAreBacked, Grows
<1>4. CASE proposals[k] = NoEntry
  <2>1. proposals'[k] # proposals[k]
    BY <1>2, <1>4
  <2>2. CASE call[s].kind = "propose"
    BY <2>1, <2>2, ProposeApplies
  <2>3. CASE call[s].kind = "receipt"
    BY <1>4, <2>1, <2>3, ReceiptApplies
  <2>4. CASE call[s].kind = "retention"
    BY <1>4, <2>1, <2>4, RetentionApplies
  <2> QED
    BY <2>2, <2>3, <2>4, Committing
<1> QED
  BY <1>3, <1>4

\* Status and receipts of one proposal agree.
AgreeAt(k) ==
  LET p == proposals[k]
      l == receipts[k]
  IN
  /\ p = NoEntry => l = NoEntry
  /\ p # NoEntry /\ l = NoEntry => p.status \in {"queued", "revoked"}
  /\ p # NoEntry /\ l # NoEntry =>
       /\ l.apply # NoEntry => /\ l.decision.status = "approved_pending_apply"
                               /\ p.status \in {"promoted", "revoked"}
       /\ l.decision.status = "rejected" <=> p.status = "rejected"
       /\ l.apply = NoEntry => p.status \in {"review", "rejected", "revoked"}

\* What a receipt writes into the ledger agrees with the status it sets.
LEMMA ReceiptAgrees ==
  ASSUME ProposalsInv, NEW s \in Sessions, pc[s] = "commit", call[s].kind = "receipt", Apply(s),
         NEW k, k = call[s].key
  PROVE  AgreeAt(k)'
<1> DEFINE r == call[s].receipt
           l == receipts[k]
           t == tx[s]
<1>1. /\ k \in ProposalKeys /\ proposals[k] # NoEntry /\ proposals'[k] # NoEntry
      /\ t.status[k] = NoEntry => proposals' = proposals
      /\ t.status[k] # NoEntry => proposals'[k].status = t.status[k]
      /\ receipts'[k] = IF t.ledger = NoEntry THEN l ELSE t.ledger
  BY ReceiptApplies
<1>2. AgreeAt(k)
  BY <1>1 DEF ProposalsInv, StatusAgrees, AgreeAt
<1>3. Receiving(s) /\ r \in Receipts
  BY DEF ProposalsInv, SessionInv, Asked
<1>4. CASE t.ledger = NoEntry /\ t.status[k] = NoEntry
  BY <1>1, <1>2, <1>4 DEF AgreeAt
<1>5. CASE /\ r \in Decisions /\ t.ledger = [decision |-> r, apply |-> NoEntry]
           /\ t.status[k] = StatusAfter(r)
  <2>1. /\ receipts'[k].decision = r /\ receipts'[k].apply = NoEntry /\ receipts'[k] # NoEntry
        /\ proposals'[k].status = StatusAfter(r)
    <3>1. t.ledger \in Ledger
      BY <1>5 DEF Ledger
    <3>2. t.ledger # NoEntry
      BY <3>1, ProposalsAssumption
    <3>3. t.status[k] # NoEntry
      BY <1>5, ProposalsAssumption DEF StatusAfter, Live, Terminal
    <3> QED
      BY <1>1, <1>5, <3>2, <3>3
  <2> QED
    BY <1>1, <2>1 DEF AgreeAt, StatusAfter
<1>6. CASE /\ r \notin Decisions /\ l # NoEntry
           /\ l.decision.status = "approved_pending_apply" /\ l.apply = NoEntry
           /\ t.ledger = [l EXCEPT !.apply = r] /\ t.status[k] = "promoted"
  <2>1. l \in Ledger
    BY <1>1, <1>6 DEF ProposalsInv, TablesTyped
  <2>2. t.ledger \in Ledger /\ t.ledger.decision = l.decision /\ t.ledger.apply = r
    BY <1>3, <1>6, <2>1 DEF Ledger
  <2>3. t.ledger # NoEntry /\ t.status[k] # NoEntry /\ r # NoEntry
    BY <1>3, <1>6, <2>2, ProposalsAssumption DEF Live
  <2>4. /\ receipts'[k] = t.ledger /\ proposals'[k].status = "promoted"
    BY <1>1, <1>6, <2>3
  <2> QED
    BY <1>1, <1>6, <2>2, <2>3, <2>4 DEF AgreeAt
<1> QED
  BY <1>3, <1>4, <1>5, <1>6 DEF Receiving

\* Every COMMIT leaves status and receipts in agreement.
LEMMA ApplyAgrees ==
  ASSUME ProposalsInv, NEW s \in Sessions, pc[s] = "commit", Apply(s)
  PROVE  StatusAgrees'
<1>1. \A k \in ProposalKeys : AgreeAt(k)
  BY DEF ProposalsInv, StatusAgrees, AgreeAt
<1>2. SUFFICES ASSUME NEW k \in ProposalKeys PROVE AgreeAt(k)'
  BY DEF StatusAgrees, AgreeAt
<1>3. CASE call[s].kind = "propose"
  <2>1. CASE proposals'[k] = proposals[k]
    BY <1>1, <1>3, <2>1, ProposeApplies DEF AgreeAt
  <2>2. CASE proposals'[k] # proposals[k]
    BY <1>1, <1>3, <2>2, ProposeApplies DEF AgreeAt
  <2> QED
    BY <2>1, <2>2
<1>4. CASE call[s].kind = "receipt"
  <2>1. CASE k = call[s].key
    BY <1>4, <2>1, ReceiptAgrees
  <2>2. CASE k # call[s].key
    <3>1. proposals'[k] = proposals[k] /\ receipts'[k] = receipts[k]
      BY <1>4, <2>2, ReceiptApplies
    <3> QED
      BY <1>1, <3>1 DEF AgreeAt
  <2> QED
    BY <2>1, <2>2
<1>5. CASE call[s].kind = "retention"
  <2>1. receipts' = receipts
    BY <1>5, RetentionApplies
  <2>2. CASE proposals'[k] = proposals[k]
    BY <1>1, <2>1, <2>2 DEF AgreeAt
  <2>3. CASE proposals'[k] # proposals[k]
    <3>1. /\ proposals[k] # NoEntry /\ proposals[k].status \in Live
          /\ proposals'[k] # NoEntry /\ proposals'[k].status = "revoked"
      BY <1>5, <2>3, RetentionApplies
    <3> QED
      BY <1>1, <2>1, <3>1 DEF AgreeAt, Live
  <2> QED
    BY <2>2, <2>3
<1> QED
  BY <1>3, <1>4, <1>5, Committing

\* The tables after a COMMIT, or after one that had no effect.
LEMMA CommitEffect ==
  ASSUME ProposalsInv, NEW s \in Sessions, pc[s] = "commit", Apply(s) \/ TablesUnchanged,
         blobs' = blobs
  PROVE  /\ TablesTyped' /\ ProposalsAreBacked' /\ StatusAgrees' /\ Grows
         /\ \A o \in Sessions \ {s} : Respects(o)
<1>1. CASE Apply(s)
  BY <1>1, ApplyGrows, ApplyRespects, ApplyBacked, ApplyAgrees
<1>2. CASE TablesUnchanged
  <2>1. UNCHANGED fabricTables
    BY <1>2 DEF TablesUnchanged
  <2>2. TablesTyped' /\ ProposalsAreBacked' /\ StatusAgrees'
    BY <2>1 DEF ProposalsInv, TablesTyped, ProposalsAreBacked, StatusAgrees, fabricTables
  <2> QED
    BY <2>1, <2>2 DEF Grows, Respects, fabricTables
<1> QED
  BY <1>1, <1>2

\* The transaction is over.
LEMMA TransactionOver ==
  ASSUME ProposalsInv, NEW s \in Sessions, pc[s] = "commit", Apply(s) \/ TablesUnchanged,
         blobs' = blobs, SessionsTyped', OthersStay(s), SessionInv(s)', tx'[s] = NoTx
  PROVE  ProposalsInv'
<1>1. /\ TablesTyped' /\ ProposalsAreBacked' /\ StatusAgrees'
      /\ \A o \in Sessions \ {s} : SessionInv(o)'
  BY CommitEffect, OtherKept DEF OthersStay
<1>2. tx'[s].locks = {}
  BY DEF NoTx
<1>3. Exclusive'
  BY <1>2 DEF ProposalsInv, Exclusive, OthersStay
<1> QED
  BY <1>1, <1>3 DEF ProposalsInv

\* A COMMIT that was acknowledged: what is answered is in the tables.
LEMMA CommitKeeps ==
  ASSUME ProposalsInv, NEW s \in Sessions, Commit(s)
  PROVE  ProposalsInv'
<1> DEFINE outcome == IF call[s].kind = "retention" THEN "applied" ELSE call[s].outcome
           results == IF call[s].kind = "retention" THEN tx[s].results ELSE {}
<1>1. SessionsTyped /\ SessionInv(s) /\ pc[s] = "commit" /\ Apply(s) /\ blobs' = blobs
  BY DEF ProposalsInv, Commit, At
<1>2. Answers(s, outcome, results)
  BY DEF Commit, Committed, Ends
<1>3. outcome \in Outcomes /\ results \in Results
  BY <1>1 DEF SessionsTyped, CallType, TxType, Outcomes, Results
<1>4. ASSUME call[s].kind = "propose"
      PROVE  /\ outcome # "applied"
             /\ outcome \in {"queued", "duplicate"} =>
                  /\ proposals'[call[s].key] # NoEntry
                  /\ proposals'[call[s].key].content = call[s].content
  <2>1. outcome # "applied"
    BY <1>1, <1>4 DEF SessionInv, Proposing, Known
  <2> QED
    BY <1>1, <1>4, <2>1, ProposeApplies
<1>5. call[s].kind = "receipt" => outcome # "applied"
  BY <1>1 DEF SessionInv, Receiving
<1>6. call[s].kind = "retention" =>
        operations'[call[s].operation] = [request |-> call[s].request, results |-> results]
  BY <1>1, RetentionApplies
<1> HIDE DEF outcome, results
<1>7. /\ SessionsTyped' /\ OthersStay(s)
      /\ pc'[s] = "answer" /\ tx'[s] = NoTx
      /\ call'[s].kind = call[s].kind /\ call'[s].key = call[s].key
      /\ call'[s].content = call[s].content /\ call'[s].receipt = call[s].receipt
      /\ call'[s].operation = call[s].operation /\ call'[s].request = call[s].request
      /\ call'[s].outcome = outcome /\ call'[s].results = results
  BY <1>1, <1>2, <1>3, AnswersEffect
<1>8. Told(s)'
  BY <1>1, <1>4, <1>5, <1>6, <1>7, Committing DEF Told
<1>9. Asked(s)' /\ Proposing(s)' /\ Receiving(s)' /\ Retaining(s)'
  BY <1>1, <1>7 DEF SessionInv, Asked, Proposing, Receiving, Retaining
<1>10. SessionInv(s)'
  BY <1>7, <1>8, <1>9 DEF SessionInv
<1> QED
  BY <1>1, <1>7, <1>10, TransactionOver

\* A COMMIT that failed, with or without effect.
LEMMA CommitFailsKeeps ==
  ASSUME ProposalsInv, NEW s \in Sessions, CommitFails(s)
  PROVE  ProposalsInv'
<1>1. /\ SessionsTyped /\ SessionInv(s) /\ pc[s] = "commit" /\ blobs' = blobs
      /\ Apply(s) \/ TablesUnchanged
  BY DEF ProposalsInv, CommitFails, At
<1>2. CASE call[s].kind = "receipt"
  <2>1. Answers(s, "unavailable", {})
    BY <1>2 DEF CommitFails, Ambiguous, Ends
  <2>2. /\ SessionsTyped' /\ OthersStay(s)
        /\ pc'[s] = "answer" /\ tx'[s] = NoTx
        /\ call'[s].kind = call[s].kind /\ call'[s].key = call[s].key
        /\ call'[s].content = call[s].content /\ call'[s].receipt = call[s].receipt
        /\ call'[s].operation = call[s].operation /\ call'[s].request = call[s].request
        /\ call'[s].outcome = "unavailable"
    BY <1>1, <2>1, AnswersEffect DEF Outcomes, Results
  <2>3. Asked(s)' /\ Told(s)' /\ Proposing(s)' /\ Receiving(s)' /\ Retaining(s)'
    BY <1>1, <2>2 DEF SessionInv, Asked, Told, Proposing, Receiving, Retaining
  <2>4. SessionInv(s)'
    BY <2>2, <2>3 DEF SessionInv
  <2> QED
    BY <1>1, <2>2, <2>4, TransactionOver
<1>3. CASE call[s].kind # "receipt"
  <2>1. Goto(s, "reconcile") /\ tx' = [tx EXCEPT ![s] = NoTx] /\ call' = call
    BY <1>3 DEF CommitFails, Ambiguous
  <2>2. tx' \in [Sessions -> TxType] /\ tx'[s] = NoTx /\ \A o \in Sessions \ {s} : tx'[o] = tx[o]
    BY <1>1, <2>1, NoneTyped DEF SessionsTyped
  <2>3. SessionsTyped' /\ OthersStay(s) /\ pc'[s] = "reconcile"
    BY <1>1, <2>1, <2>2, GotoEffect DEF SessionsTyped, OthersStay, Places, Unlocked
  <2>4. call[s].kind \in {"propose", "retention"}
    BY <1>1, <1>3, Committing
  <2>5. Asked(s)' /\ Told(s)' /\ Receiving(s)' /\ Retaining(s)' /\ Proposing(s)'
    BY <1>1, <2>1, <2>3, <2>4 DEF SessionInv, Asked, Told, Proposing, Receiving, Retaining
  <2>6. SessionInv(s)'
    BY <2>2, <2>3, <2>5 DEF SessionInv
  <2> QED
    BY <1>1, <2>2, <2>3, <2>6, TransactionOver
<1> QED
  BY <1>2, <1>3

(***************************************************************************)
(* The theorems                                                            *)
(***************************************************************************)

\* At the start no table has a row and no call is under way.
LEMMA InitProposalsInv == Init => ProposalsInv
<1> SUFFICES ASSUME Init PROVE ProposalsInv
  OBVIOUS
<1> USE DEF Init
<1>1. TablesTyped
  BY DEF TablesTyped
<1>2. SessionsTyped
  BY NoneTyped DEF SessionsTyped, Places, Unlocked
<1>3. ASSUME NEW s \in Sessions PROVE SessionInv(s)
  <2>1. pc[s] = "idle" /\ call[s] = NoCall /\ tx[s] = NoTx /\ NoCall.kind = "none"
        /\ NoCall.content = NoEntry
    BY DEF NoCall
  <2> QED
    BY <2>1 DEF SessionInv, Asked, Told, Proposing, Receiving, Retaining
<1>4. Exclusive
  BY DEF Exclusive, NoTx
<1>5. ProposalsAreBacked /\ StatusAgrees
  BY DEF ProposalsAreBacked, StatusAgrees
<1> QED
  BY <1>1, <1>2, <1>3, <1>4, <1>5 DEF ProposalsInv

\* Every step keeps what is said of tables, calls and locks.
LEMMA NextProposalsInv == ProposalsInv /\ [Next]_vars => ProposalsInv'
<1> SUFFICES ASSUME ProposalsInv, [Next]_vars PROVE ProposalsInv'
  OBVIOUS
<1>1. CASE UNCHANGED vars
  <2>1. UNCHANGED <<fabricTables, blobs, pc, call, tx>>
    BY <1>1 DEF vars
  <2>2. SessionsTyped'
    BY <2>1 DEF ProposalsInv, SessionsTyped
  <2>3. \A s \in Sessions : SessionInv(s)'
    BY <2>1, SessionKept DEF ProposalsInv
  <2> QED
    BY <2>1, <2>2, <2>3
    DEF ProposalsInv, TablesTyped, Exclusive, ProposalsAreBacked, StatusAgrees, fabricTables
<1>2. ASSUME NEW s \in Sessions, NEW i \in ProposeInputs, Propose(s, i[1], i[2]) PROVE ProposalsInv'
  BY <1>2, ProposeKeeps
<1>3. ASSUME NEW s \in Sessions, NEW r \in Receipts, SendReceipt(s, r) PROVE ProposalsInv'
  BY <1>3, SendReceiptKeeps
<1>4. ASSUME NEW s \in Sessions, NEW o \in Operations, NEW q \in Requests, ApplyRetention(s, o, q)
      PROVE  ProposalsInv'
  BY <1>4, ApplyRetentionKeeps
<1>5. ASSUME NEW s \in Sessions, ProposeStep(s) PROVE ProposalsInv'
  BY <1>5, FindProposalKeeps, CommitBlobKeeps, InsertRawKeeps, NewProposalKeeps,
     KnownProposalKeeps, ReconcileKeeps DEF ProposeStep
<1>6. ASSUME NEW s \in Sessions, ReceiptStep(s) PROVE ProposalsInv'
  <2>1. CASE TerminalReplay(s) \/ ReadDecision(s) \/ ReceiptEligible(s)
    BY <2>1, ReceiptGoesOn DEF TerminalReplay, ReadDecision, ReceiptEligible, At
  <2> QED
    BY <1>6, <2>1, PreflightKeeps, LockProposalKeeps, RecordKeeps DEF ReceiptStep
<1>7. ASSUME NEW s \in Sessions, RetentionStep(s) PROVE ProposalsInv'
  BY <1>7, FindOperationKeeps, LockOperationKeeps, SelectRetentionKeeps, RevokeProposalsKeeps,
     ReferencesKeeps, ReconcileKeeps DEF RetentionStep
<1>8. ASSUME NEW s \in Sessions, Commit(s) \/ CommitFails(s) \/ StatementFails(s) \/ Answer(s)
      PROVE  ProposalsInv'
  BY <1>8, CommitKeeps, CommitFailsKeeps, StatementFailsKeeps, AnswerKeeps
<1> QED
  BY <1>1, <1>2, <1>3, <1>4, <1>5, <1>6, <1>7, <1>8 DEF Next, Finished

\* For every number of calls, keys and contents: tables, calls and locks are as
\* the invariant says.
THEOREM ProposalsSafe == Spec => []ProposalsInv
BY InitProposalsInv, NextProposalsInv, PTL DEF Spec

\* What a caller of propose or applyRetention is told is true of the catalog at
\* the time of the answer (_propose and FabricStore.applyRetention, retries and
\* lost COMMITs included).
THEOREM AnswersAreTrue == Spec => []CallAnswersAreTrue
<1>1. ProposalsInv => CallAnswersAreTrue
  BY DEF ProposalsInv, SessionInv, Told, CallAnswersAreTrue, ProposalAnswersAreTrue,
         RetentionAnswersAgree
<1> QED
  BY <1>1, ProposalsSafe, PTL

\* Only a COMMIT writes a row.
LEMMA OnlyCommitsWrite ==
  ASSUME [Next]_vars
  PROVE  UNCHANGED fabricTables \/ \E s \in Sessions : pc[s] = "commit" /\ Apply(s)
<1>1. CASE UNCHANGED vars
  BY <1>1 DEF vars
<1>2. ASSUME NEW s \in Sessions,
             \/ \E i \in ProposeInputs : Propose(s, i[1], i[2])
             \/ \E r \in Receipts : SendReceipt(s, r)
             \/ \E o \in Operations, q \in Requests : ApplyRetention(s, o, q)
      PROVE  UNCHANGED fabricTables
  BY <1>2 DEF Propose, SendReceipt, ApplyRetention, Begin, TablesUnchanged
<1>3. ASSUME NEW s \in Sessions, ProposeStep(s) PROVE UNCHANGED fabricTables
  BY <1>3 DEF ProposeStep, FindProposal, CommitBlob, InsertRaw, InsertProposal, ReconcileProposal,
              OnlyCall, TablesUnchanged
<1>4. ASSUME NEW s \in Sessions, ReceiptStep(s) PROVE UNCHANGED fabricTables
  BY <1>4 DEF ReceiptStep, Preflight, TerminalReplay, ReadDecision, ReceiptEligible, LockProposal,
              Record, OnlyCall, TablesUnchanged
<1>5. ASSUME NEW s \in Sessions, RetentionStep(s) PROVE UNCHANGED fabricTables
  BY <1>5 DEF RetentionStep, FindOperation, LockOperation, SelectRetention, RevokeProposals,
              References, ReconcileOperation, OnlyCall, TablesUnchanged
<1>6. ASSUME NEW s \in Sessions, StatementFails(s) \/ Answer(s) PROVE UNCHANGED fabricTables
  BY <1>6 DEF StatementFails, Answer, TablesUnchanged
<1>7. ASSUME NEW s \in Sessions, Commit(s) \/ CommitFails(s)
      PROVE  UNCHANGED fabricTables \/ (pc[s] = "commit" /\ Apply(s))
  BY <1>7 DEF Commit, CommitFails, At, TablesUnchanged
<1> QED
  BY <1>1, <1>2, <1>3, <1>4, <1>5, <1>6, <1>7 DEF Next, Finished

\* No decision moves a terminal proposal; only an approval that retention has
\* overtaken can (recordCuratorReceipt).
THEOREM TerminalStays == Spec => DecisionsRespectTerminal
<1> DEFINE Stays ==
      \A k \in ProposalKeys : proposals[k] # NoEntry /\ proposals[k].status \in Terminal =>
        \/ proposals'[k] = proposals[k]
        \/ proposals[k].status = "revoked" /\ proposals'[k].status = "promoted"
<1>1. ASSUME ProposalsInv, [Next]_vars PROVE Stays
  <2>1. CASE UNCHANGED fabricTables
    BY <2>1 DEF fabricTables
  <2>2. ASSUME NEW s \in Sessions, pc[s] = "commit", Apply(s),
               NEW k \in ProposalKeys, proposals[k] # NoEntry, proposals[k].status \in Terminal,
               proposals'[k] # proposals[k]
        PROVE  proposals[k].status = "revoked" /\ proposals'[k].status = "promoted"
    <3>1. CASE call[s].kind = "propose"
      BY <1>1, <2>2, <3>1, ProposeApplies
    <3>2. CASE call[s].kind = "retention"
      <4>1. proposals[k].status \in Live
        BY <1>1, <2>2, <3>2, RetentionApplies
      <4> QED
        BY <2>2, <4>1 DEF Live, Terminal
    <3>3. CASE call[s].kind = "receipt"
      <4>1. k = call[s].key /\ tx[s].status[k] # NoEntry /\ proposals'[k].status = tx[s].status[k]
        BY <1>1, <2>2, <3>3, ReceiptApplies
      <4>2. Receiving(s)
        BY <1>1 DEF ProposalsInv, SessionInv
      <4>3. /\ receipts[k] # NoEntry /\ receipts[k].decision.status = "approved_pending_apply"
            /\ tx[s].status[k] = "promoted"
        BY <2>2, <3>3, <4>1, <4>2 DEF Receiving
      <4>4. proposals[k].status # "rejected"
        BY <1>1, <2>2, <4>3 DEF ProposalsInv, StatusAgrees
      <4> QED
        BY <2>2, <4>1, <4>3, <4>4 DEF Terminal
    <3> QED
      BY <1>1, <2>2, <3>1, <3>2, <3>3, Committing
  <2>3. CASE \E s \in Sessions : pc[s] = "commit" /\ Apply(s)
    BY <2>2, <2>3
  <2> QED
    BY <1>1, <2>1, <2>3, OnlyCommitsWrite
<1> HIDE DEF Stays
<1>2. ProposalsInv /\ [Next]_vars => [Stays]_vars
  BY <1>1
<1>3. Spec => [][Stays]_vars
  BY <1>2, ProposalsSafe, PTL DEF Spec
<1> QED
  BY <1>3 DEF DecisionsRespectTerminal, Stays

\* A retention waits only for locks of calls that have come further.
LEMMA RetentionWaits ==
  ASSUME ProposalsInv, NEW s \in Sessions, NEW o \in Sessions, WaitsFor(s, o),
         pc[s] \in {"select", "revoke", "references"}, pc[o] \in {"select", "revoke", "references"}
  PROVE  Reached(o, NextCandidate(s))
<1>1. NextCandidate(s) \in Contents /\ call[o].kind = "retention"
  BY Candidate DEF ProposalsInv, SessionInv, Asked
<1>2. Retaining(o)
  BY DEF ProposalsInv, SessionInv
<1>3. CASE pc[s] = "select"
  <2>1. <<"retention", NextCandidate(s)>> \in tx[o].locks
    BY <1>3 DEF WaitsFor
  <2> QED
    BY <1>1, <1>2, <2>1 DEF Retaining
<1>4. CASE pc[s] \in {"revoke", "references"}
  <2>1. PICK k \in ProposalKeys : proposals[k].content = NextCandidate(s) /\ <<"proposal", k>> \in tx[o].locks
    BY <1>4 DEF WaitsFor
  <2> QED
    BY <1>1, <1>2, <2>1 DEF Retaining
<1> QED
  BY <1>3, <1>4

\* No two calls wait for each other's locks (_propose, recordCuratorReceipt,
\* applyRetention): proposals and receipts hold nothing that the calls they wait
\* for could want, and retentions take their contents in one order.
THEOREM NobodyWaitsForEachOther == Spec => []NoLockCycle
<1>1. ASSUME ProposalsInv, NEW s \in Sessions, NEW o \in Sessions, WaitsFor(s, o), WaitsFor(o, s)
      PROVE  FALSE
  <2>1. ASSUME NEW a \in Sessions, NEW b \in Sessions, WaitsFor(a, b), WaitsFor(b, a)
        PROVE  pc[a] \in {"select", "revoke", "references"}
    <3>1. SessionInv(a) /\ tx[a].locks # {}
      BY <1>1, <2>1 DEF ProposalsInv, WaitsFor
    <3>2. pc[a] \notin Unlocked
      BY <3>1 DEF SessionInv, NoTx
    <3>3. pc[a] # "record"
      <4>1. SUFFICES ASSUME pc[a] = "record" PROVE FALSE
        OBVIOUS
      <4>2. tx[a].locks = {<<"advisory", call[a].key>>}
        BY <3>1, <4>1 DEF SessionInv, Receiving, NoTx
      <4>3. pc[b] = "lockProposal"
        BY <2>1, <4>2 DEF WaitsFor
      <4>4. tx[b].locks = {}
        BY <1>1, <4>3 DEF ProposalsInv, SessionInv, Unlocked, NoTx
      <4> QED
        BY <2>1, <4>4 DEF WaitsFor
    <3>4. pc[a] # "insertProposal"
      <4>1. SUFFICES ASSUME pc[a] = "insertProposal" PROVE FALSE
        OBVIOUS
      <4>2. call[a].kind = "propose"
        BY <3>1, <4>1 DEF SessionInv, Asked
      <4>3. Proposing(a)
        BY <3>1 DEF SessionInv
      <4>4. \A l \in tx[a].locks :
              /\ l = <<"raw", call[a].content>> \/ l = <<"retention", call[a].content>>
              /\ lifecycle[call[a].content] = "none"
        BY <4>1, <4>2, <4>3 DEF Proposing
      <4>5. pc[b] = "insertRaw"
        BY <2>1, <4>4 DEF WaitsFor
      <4>6. tx[b].locks = {}
        BY <1>1, <4>5 DEF ProposalsInv, SessionInv, Unlocked, NoTx
      <4> QED
        BY <2>1, <4>6 DEF WaitsFor
    <3> QED
      BY <2>1, <3>2, <3>3, <3>4 DEF WaitsFor, Unlocked
  <2>2. pc[s] \in {"select", "revoke", "references"} /\ pc[o] \in {"select", "revoke", "references"}
    BY <1>1, <2>1
  <2>3. /\ NextCandidate(s) \in tx[s].todo /\ NextCandidate(o) \in tx[o].todo
        /\ NextCandidate(s) \in Nat /\ NextCandidate(o) \in Nat
    BY <1>1, <2>2, Candidate, ProposalsAssumption
  <2>4. Reached(o, NextCandidate(s)) /\ Reached(s, NextCandidate(o))
    BY <1>1, <2>2, RetentionWaits
  <2>5. /\ NextCandidate(s) <= NextCandidate(o) /\ NextCandidate(o) <= NextCandidate(s)
        /\ pc[o] = "select" => NextCandidate(s) < NextCandidate(o)
        /\ pc[s] = "select" => NextCandidate(o) < NextCandidate(s)
    BY <2>2, <2>3, <2>4 DEF Reached
  <2>6. NextCandidate(s) = NextCandidate(o) /\ pc[s] # "select" /\ pc[o] # "select"
    BY <2>3, <2>5
  <2>7. /\ <<"retention", NextCandidate(s)>> \in tx[s].locks
        /\ <<"retention", NextCandidate(o)>> \in tx[o].locks
    BY <1>1, <2>2, <2>6 DEF ProposalsInv, SessionInv, Retaining
  <2>8. s # o
    BY <1>1 DEF WaitsFor
  <2> QED
    BY <1>1, <2>6, <2>7, <2>8 DEF ProposalsInv, Exclusive
<1>2. ProposalsInv => NoLockCycle
  BY <1>1 DEF NoLockCycle
<1> QED
  BY <1>2, ProposalsSafe, PTL

(***************************************************************************)
(* Receipts of one proposal name each other                                *)
(***************************************************************************)

\* Applicators send a receipt for an approval only: what they carry out is a
\* decision whose status is approved_pending_apply.
AppliesNameApprovals ==
  \A r \in Receipts \ Decisions : r.decision.status = "approved_pending_apply"

\* A ledger pairs an apply receipt with the decision that it names.
LedgersPair ==
  \A k \in ProposalKeys : receipts[k] # NoEntry /\ receipts[k].apply # NoEntry =>
    receipts[k].apply.decision = receipts[k].decision

\* An apply receipt goes on only with the decision that it names on record.
Named(s) ==
  call[s].kind = "receipt" /\ call[s].receipt \notin Decisions
    /\ pc[s] \in {"eligible", "lockProposal", "record", "commit"} =>
       /\ receipts[call[s].key] # NoEntry
       /\ receipts[call[s].key].decision = call[s].receipt.decision

ReceiptsInv == ProposalsInv /\ LedgersPair /\ \A s \in Sessions : Named(s)

\* Where an apply receipt has been compared with the decision on record.
Compared == {"eligible", "lockProposal", "record", "commit"}

\* A step that leaves the tables alone and compares what it must.
LEMMA NamedStep ==
  ASSUME ProposalsInv, \A s \in Sessions : Named(s), receipts' = receipts, NEW t \in Sessions,
         NEW p \in Places, Goto(t, p), \A o \in Sessions \ {t} : call'[o] = call[o],
         \/ p \notin Compared
         \/ call'[t].kind # "receipt"
         \/ /\ call'[t].kind = call[t].kind /\ call'[t].key = call[t].key
            /\ call'[t].receipt = call[t].receipt
            /\ \/ call[t].receipt \in Decisions
               \/ pc[t] \in Compared
               \/ /\ receipts[call[t].key] # NoEntry
                  /\ receipts[call[t].key].decision = call[t].receipt.decision
  PROVE  \A s \in Sessions : Named(s)'
<1>1. pc'[t] = p /\ \A o \in Sessions \ {t} : pc'[o] = pc[o]
  BY GotoEffect DEF ProposalsInv
<1> QED
  BY <1>1 DEF Named, Compared

\* A call that is answered compares nothing.
LEMMA NamedAnswers ==
  ASSUME ProposalsInv, \A s \in Sessions : Named(s), receipts' = receipts, NEW t \in Sessions,
         NEW outcome, NEW results, Answers(t, outcome, results)
  PROVE  \A s \in Sessions : Named(s)'
<1>1. Goto(t, "answer") /\ \A o \in Sessions \ {t} : call'[o] = call[o]
  BY DEF Answers, ProposalsInv, SessionsTyped
<1> QED
  BY <1>1, NamedStep DEF Compared, Places, Unlocked

\* A call that moves on as it is.
LEMMA NamedGoto ==
  ASSUME ProposalsInv, \A s \in Sessions : Named(s), receipts' = receipts, call' = call,
         NEW t \in Sessions, NEW p \in Places, Goto(t, p),
         \/ p \notin Compared \/ call[t].kind # "receipt" \/ call[t].receipt \in Decisions
         \/ pc[t] \in Compared
         \/ /\ receipts[call[t].key] # NoEntry
            /\ receipts[call[t].key].decision = call[t].receipt.decision
  PROVE  \A s \in Sessions : Named(s)'
BY NamedStep

\* Proposals.
LEMMA NamedPropose ==
  ASSUME ProposalsInv, \A s \in Sessions : Named(s), NEW t \in Sessions, ProposeStep(t)
  PROVE  \A s \in Sessions : Named(s)'
<1>1. receipts' = receipts /\ SessionsTyped
  BY DEF ProposalsInv, ProposeStep, FindProposal, CommitBlob, InsertRaw, InsertProposal, ReconcileProposal,
         OnlyCall, TablesUnchanged, fabricTables
<1>2. CASE FindProposal(t) \/ ReconcileProposal(t)
  <2>1. CASE \E e : Answers(t, e, {})
    BY <1>1, <2>1, NamedAnswers
  <2>2. CASE Proceeds(t, "blob")
    BY <1>1, <2>2, NamedGoto DEF Proceeds, Compared, Places, Unlocked
  <2> QED
    BY <1>2, <2>1, <2>2 DEF FindProposal, ReconcileProposal, Ends
<1>3. CASE CommitBlob(t)
  BY <1>1, <1>3, NamedGoto DEF CommitBlob, Proceeds, Compared, Places, Unlocked
<1>4. CASE InsertRaw(t)
  BY <1>1, <1>4, NamedGoto DEF InsertRaw, Compared, Places
<1>5. CASE InsertProposal(t)
  <2>1. call[t].kind = "propose"
    BY <1>5 DEF InsertProposal, At, ProposalsInv, SessionInv, Asked
  <2>2. CASE Ends(t, "unavailable")
    BY <1>1, <2>2, NamedAnswers DEF Ends
  <2>3. ASSUME NEW e, call' = [call EXCEPT ![t].outcome = e], Goto(t, "commit")
        PROVE  \A s \in Sessions : Named(s)'
    <3>1. call[t] \in CallType
      BY <1>1 DEF SessionsTyped
    <3>2. call'[t].kind = "propose" /\ \A o \in Sessions \ {t} : call'[o] = call[o]
      BY <1>1, <2>1, <2>3, <3>1 DEF SessionsTyped, CallType
    <3> QED
      BY <1>1, <2>3, <3>2, NamedStep DEF Places
  <2> QED
    BY <1>5, <2>2, <2>3 DEF InsertProposal
<1> QED
  BY <1>2, <1>3, <1>4, <1>5 DEF ProposeStep

\* Receipts: an apply receipt passes ReadDecision only when it names the
\* decision on record.
LEMMA NamedReceipt ==
  ASSUME ProposalsInv, \A s \in Sessions : Named(s), NEW t \in Sessions, ReceiptStep(t)
  PROVE  \A s \in Sessions : Named(s)'
<1> DEFINE r == call[t].receipt
<1>1. receipts' = receipts /\ SessionsTyped /\ call[t].kind = "receipt" /\ r \in Receipts
      /\ call[t].key \in ProposalKeys
  <2>1. pc[t] \in {"preflight", "replay", "decision", "eligible", "lockProposal", "record"} /\ receipts' = receipts
    BY DEF ReceiptStep, Preflight, TerminalReplay, ReadDecision, ReceiptEligible, LockProposal,
           Record, OnlyCall, TablesUnchanged, fabricTables, At
  <2> QED
    BY <2>1, ProposalsAssumption DEF ProposalsInv, SessionInv, Asked
<1>2. CASE \E e : Ends(t, e)
  BY <1>1, <1>2, NamedAnswers DEF Ends
<1>3. CASE Preflight(t) /\ ~\E e : Ends(t, e)
  <2>1. \/ Proceeds(t, "replay") \/ Proceeds(t, "decision")
        \/ Proceeds(t, "lockProposal") /\ r.kind = "decision"
    BY <1>3 DEF Preflight
  <2>2. r.kind = "decision" => r \in Decisions
    BY <1>1 DEF Decisions
  <2> QED
    BY <1>1, <2>1, <2>2, NamedGoto DEF Proceeds, Compared, Places, Unlocked
<1>4. CASE TerminalReplay(t) /\ ~\E e : Ends(t, e)
  <2>1. /\ Proceeds(t, "lockProposal") /\ receipts[call[t].key] # NoEntry
        /\ receipts[call[t].key].decision = r
    BY <1>4 DEF TerminalReplay
  <2>2. r \in Decisions
    BY <1>1, <2>1 DEF ProposalsInv, TablesTyped, Ledger
  <2> QED
    BY <1>1, <2>1, <2>2, NamedGoto DEF Proceeds, Compared, Places, Unlocked
<1>5. CASE ReadDecision(t) /\ ~\E e : Ends(t, e)
  <2>1. /\ Proceeds(t, "eligible") /\ receipts[call[t].key] # NoEntry
        /\ receipts[call[t].key].decision = r.decision
    BY <1>5 DEF ReadDecision
  <2> QED
    BY <1>1, <2>1, NamedGoto DEF Proceeds, Places, Unlocked
<1>6. CASE ReceiptEligible(t) /\ ~\E e : Ends(t, e)
  BY <1>1, <1>6, NamedGoto DEF ReceiptEligible, At, Proceeds, Compared, Places, Unlocked
<1>7. CASE LockProposal(t)
  BY <1>1, <1>7, NamedGoto DEF LockProposal, At, Compared, Places
<1>8. CASE Record(t) /\ ~\E e : Ends(t, e)
  <2>1. PICK ledger, status, outcome : Writes(t, ledger, status, outcome)
    BY <1>8 DEF Record, RecordDecision, RecordApply
  <2>2. call' = [call EXCEPT ![t].outcome = outcome] /\ Goto(t, "commit") /\ pc[t] = "record"
    BY <1>8, <2>1 DEF Writes, Record, At
  <2>3. call[t] \in CallType
    BY <1>1 DEF SessionsTyped
  <2>4. /\ call'[t].kind = call[t].kind /\ call'[t].key = call[t].key
        /\ call'[t].receipt = call[t].receipt /\ \A o \in Sessions \ {t} : call'[o] = call[o]
    BY <1>1, <2>2, <2>3 DEF SessionsTyped, CallType
  <2> QED
    BY <1>1, <2>2, <2>4, NamedStep DEF Places, Compared
<1> QED
  BY <1>2, <1>3, <1>4, <1>5, <1>6, <1>7, <1>8 DEF ReceiptStep

\* Retentions.
LEMMA NamedRetention ==
  ASSUME ProposalsInv, \A s \in Sessions : Named(s), NEW t \in Sessions, RetentionStep(t)
  PROVE  \A s \in Sessions : Named(s)'
<1>1. receipts' = receipts
  BY DEF RetentionStep, FindOperation, LockOperation, SelectRetention, RevokeProposals, References,
         ReconcileOperation, OnlyCall, TablesUnchanged, fabricTables
<1>2. CASE \E e, f : Answers(t, e, f)
  BY <1>1, <1>2, NamedAnswers
<1>3. CASE ~\E e, f : Answers(t, e, f)
  <2>1. call[t].kind = "retention"
    BY DEF ProposalsInv, SessionInv, Asked, RetentionStep, FindOperation, LockOperation,
           SelectRetention, RevokeProposals, References, ReconcileOperation, At
  <2>2. call' = call /\ \E p \in Places : Goto(t, p)
    BY <1>3 DEF RetentionStep, FindOperation, LockOperation, SelectRetention, RevokeProposals,
                References, ReconcileOperation, AfterCandidate, ReplayOperation, Ends, Proceeds,
                Places, Unlocked
  <2> QED
    BY <1>1, <2>1, <2>2, NamedGoto
<1> QED
  BY <1>2, <1>3

\* A COMMIT replaces no decision that an apply receipt has been compared with,
\* and pairs only receipts that name each other.
LEMMA LedgersApply ==
  ASSUME AppliesNameApprovals, ReceiptsInv, NEW t \in Sessions, pc[t] = "commit", Apply(t)
  PROVE  /\ LedgersPair'
         /\ \A s \in Sessions : call[s].kind = "receipt" /\ call[s].receipt \notin Decisions
              /\ pc[s] \in Compared =>
                   /\ receipts'[call[s].key] # NoEntry
                   /\ receipts'[call[s].key].decision = call[s].receipt.decision
<1>1. ProposalsInv /\ LedgersPair /\ \A s \in Sessions : Named(s)
  BY DEF ReceiptsInv
<1>2. CASE receipts' = receipts
  BY <1>1, <1>2 DEF LedgersPair, Named, Compared
<1>3. CASE receipts' # receipts
  <2> DEFINE k == call[t].key
             l == receipts[k]
             r == call[t].receipt
             ledger == tx[t].ledger
  <2>1. call[t].kind = "receipt"
    BY <1>1, <1>3, ProposeApplies, RetentionApplies, Committing
  <2>2. /\ k \in ProposalKeys /\ \A q \in ProposalKeys \ {k} : receipts'[q] = receipts[q]
        /\ receipts'[k] = IF ledger = NoEntry THEN l ELSE ledger
        /\ receipts' \in [ProposalKeys -> Ledger \cup {NoEntry}]
        /\ receipts \in [ProposalKeys -> Ledger \cup {NoEntry}]
    BY <1>1, <2>1, ReceiptApplies DEF ProposalsInv, TablesTyped
  <2>3. ledger # NoEntry /\ receipts'[k] = ledger
    BY <1>3, <2>2
  <2>4. Receiving(t) /\ r \in Receipts
    BY <1>1, <2>1 DEF ProposalsInv, SessionInv, Asked
  <2>5. \/ /\ r \in Decisions /\ ledger.apply = NoEntry /\ ledger.decision = r
           /\ l = NoEntry \/ l.decision.status = "review_required"
        \/ /\ r \notin Decisions /\ l # NoEntry /\ ledger.decision = l.decision /\ ledger.apply = r
    <3>1. CASE /\ r \in Decisions /\ ledger = [decision |-> r, apply |-> NoEntry]
               /\ l = NoEntry \/ Supersedes(l, r)
      BY <3>1 DEF Supersedes
    <3>2. CASE r \notin Decisions /\ l # NoEntry /\ ledger = [l EXCEPT !.apply = r]
      <4>1. l \in Ledger
        BY <2>2, <3>2
      <4> QED
        BY <3>2, <4>1 DEF Ledger
    <3> QED
      BY <2>1, <2>3, <2>4, <3>1, <3>2 DEF Receiving
  <2>6. ASSUME NEW s \in Sessions, call[s].kind = "receipt", call[s].receipt \notin Decisions,
               pc[s] \in Compared
        PROVE  /\ receipts'[call[s].key] # NoEntry
               /\ receipts'[call[s].key].decision = call[s].receipt.decision
    <3>1. /\ receipts[call[s].key] # NoEntry
          /\ receipts[call[s].key].decision = call[s].receipt.decision
      BY <1>1, <2>6 DEF Named, Compared
    <3>2. call[s].receipt \in Receipts \ Decisions /\ call[s].key \in ProposalKeys
      BY <1>1, <2>6, ProposalsAssumption DEF ProposalsInv, SessionInv, Asked
    <3>3. receipts[call[s].key].decision.status = "approved_pending_apply"
      BY <3>1, <3>2 DEF AppliesNameApprovals
    <3>4. CASE call[s].key = k
      BY <2>3, <2>5, <3>1, <3>3, <3>4
    <3>5. CASE call[s].key # k
      BY <2>2, <3>1, <3>2, <3>5
    <3> QED
      BY <3>4, <3>5
  <2>7. ledger.apply # NoEntry => ledger.apply.decision = ledger.decision
    <3>1. r \notin Decisions => l.decision = r.decision
      BY <1>1, <2>1 DEF Named
    <3> QED
      BY <2>5, <3>1
  <2>8. LedgersPair'
    BY <1>1, <2>2, <2>3, <2>7 DEF LedgersPair
  <2> QED
    BY <2>6, <2>8
<1> QED
  BY <1>2, <1>3

\* Every step keeps receipts that name each other.
LEMMA NextReceiptsInv ==
  ASSUME AppliesNameApprovals
  PROVE  ReceiptsInv /\ [Next]_vars => ReceiptsInv'
<1> SUFFICES ASSUME ReceiptsInv, [Next]_vars PROVE LedgersPair' /\ \A s \in Sessions : Named(s)'
  BY NextProposalsInv DEF ReceiptsInv
<1>1. ProposalsInv /\ LedgersPair /\ \A s \in Sessions : Named(s)
  BY DEF ReceiptsInv
<1>2. UNCHANGED fabricTables => LedgersPair'
  BY <1>1 DEF LedgersPair, fabricTables
<1>3. LedgersPair'
  BY <1>2, LedgersApply, OnlyCommitsWrite
<1>4. CASE UNCHANGED vars
  BY <1>1, <1>3, <1>4 DEF Named, vars, fabricTables
<1>5. ASSUME NEW t \in Sessions, NEW c, NEW p \in {"find", "preflight", "findOperation"}, Begin(t, c, p)
      PROVE  \A s \in Sessions : Named(s)'
  <2>1. /\ receipts' = receipts /\ Goto(t, p) /\ p \in Places \ Compared
        /\ \A o \in Sessions \ {t} : call'[o] = call[o]
    BY <1>1, <1>5
    DEF Begin, TablesUnchanged, fabricTables, Places, Unlocked, Compared, ProposalsInv, SessionsTyped
  <2> QED
    BY <1>1, <2>1, NamedStep
<1>6. ASSUME NEW t \in Sessions, NEW i \in ProposeInputs, Propose(t, i[1], i[2])
      PROVE  \A s \in Sessions : Named(s)'
  BY <1>5, <1>6 DEF Propose
<1>7. ASSUME NEW t \in Sessions, NEW r \in Receipts, SendReceipt(t, r)
      PROVE  \A s \in Sessions : Named(s)'
  BY <1>5, <1>7 DEF SendReceipt
<1>8. ASSUME NEW t \in Sessions, NEW o \in Operations, NEW q \in Requests, ApplyRetention(t, o, q)
      PROVE  \A s \in Sessions : Named(s)'
  BY <1>5, <1>8 DEF ApplyRetention
<1>9. ASSUME NEW t \in Sessions, StatementFails(t) PROVE \A s \in Sessions : Named(s)'
  BY <1>1, <1>9, NamedAnswers DEF StatementFails, Ends, TablesUnchanged, fabricTables
<1>10. ASSUME NEW t \in Sessions, Answer(t) PROVE \A s \in Sessions : Named(s)'
  <2>1. /\ receipts' = receipts /\ Goto(t, "idle")
        /\ \A o \in Sessions \ {t} : call'[o] = call[o]
    BY <1>1, <1>10 DEF Answer, TablesUnchanged, fabricTables, ProposalsInv, SessionsTyped
  <2> QED
    BY <1>1, <2>1, NamedStep DEF Places, Unlocked, Compared
<1>11. ASSUME NEW t \in Sessions, Commit(t) \/ CommitFails(t)
       PROVE  \A s \in Sessions : Named(s)'
  <2>1. pc[t] = "commit" /\ (Apply(t) \/ receipts' = receipts)
    BY <1>11 DEF Commit, CommitFails, At, TablesUnchanged, fabricTables
  <2>2. PICK p \in {"answer", "reconcile"} : Goto(t, p)
    BY <1>11 DEF Commit, Committed, CommitFails, Ambiguous, Ends, Answers
  <2>3. pc'[t] \notin Compared /\ \A o \in Sessions \ {t} : pc'[o] = pc[o]
    BY <1>1, <2>2, GotoEffect DEF ProposalsInv, Places, Unlocked, Compared
  <2>4. \A o \in Sessions \ {t} : call'[o] = call[o]
    BY <1>1, <1>11 DEF Commit, Committed, CommitFails, Ambiguous, Ends, Answers, ProposalsInv, SessionsTyped
  <2>5. \A s \in Sessions : call[s].kind = "receipt" /\ call[s].receipt \notin Decisions
              /\ pc[s] \in Compared =>
                   /\ receipts'[call[s].key] # NoEntry
                   /\ receipts'[call[s].key].decision = call[s].receipt.decision
    <3>1. CASE Apply(t)
      BY <2>1, <3>1, LedgersApply
    <3>2. CASE receipts' = receipts
      BY <1>1, <3>2 DEF Named, Compared
    <3> QED
      BY <2>1, <3>1, <3>2
  <2> QED
    BY <2>3, <2>4, <2>5 DEF Named, Compared
<1> QED
  BY <1>1, <1>3, <1>4, <1>6, <1>7, <1>8, <1>9, <1>10, <1>11, NamedPropose, NamedReceipt, NamedRetention
  DEF Next, Finished

\* When applicators send receipts for approvals only: every proposal has its
\* payload and its retention row, and status and receipts of a proposal tell the
\* same story, whatever receipts and retentions run beside each other
\* (recordCuratorReceipt, applyRetention).
THEOREM CatalogStaysConsistent ==
  ASSUME AppliesNameApprovals
  PROVE  Spec => []CatalogIsConsistent
<1>1. Init => ReceiptsInv
  <2>1. Init => LedgersPair /\ \A s \in Sessions : Named(s)
    BY DEF Init, LedgersPair, Named, NoCall
  <2> QED
    BY <2>1, InitProposalsInv DEF ReceiptsInv
<1>2. ReceiptsInv /\ [Next]_vars => ReceiptsInv'
  BY NextReceiptsInv
<1>3. ReceiptsInv => CatalogIsConsistent
  BY DEF ReceiptsInv, LedgersPair, ProposalsInv, StatusAgrees, CatalogIsConsistent, StatusMatchesLedger
<1> QED
  BY <1>1, <1>2, <1>3, PTL DEF Spec

=============================================================================
