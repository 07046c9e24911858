-------------------------- MODULE EncryptedOutbox --------------------------
(***************************************************************************)
(* The encrypted outbox of raw events (src/ingest/outbox.mjs) with the     *)
(* HTTP sink behind it (src/ingest/http-raw-event-sink.mjs): one directory *)
(* of pending envelopes and one of acknowledgements, shared by the         *)
(* processes that capture and replay.  A process has at most one call of   *)
(* the outbox in progress: enqueue followed by deliver, or deliver alone.  *)
(* Every file operation is a step, so calls of different processes         *)
(* interleave.  An envelope is the record it encrypts; whether a file can  *)
(* be decrypted is not modelled.                                           *)
(***************************************************************************)
EXTENDS Naturals, FiniteSets

CONSTANTS
  Procs,        \* processes that use the outbox
  Records,      \* parsed transcript records
  IdOf,         \* the event id of each record
  NoRecord,     \* no such file, no such row
  MaxFaults     \* bound: replies lost and processes killed

ASSUME OutboxAssumption == NoRecord \notin Records /\ MaxFaults \in Nat

Ids == {IdOf[r] : r \in Records}

VARIABLES
  pending,    \* pending/<id>.enc.json
  acks,       \* acks/<id>.ack
  stored,     \* the receiver: the first payload of each event id
  late,       \* requests whose sender gave up, still on their way
  call,       \* the outbox call of each process
  faults      \* replies lost and processes killed so far

outboxVars == <<pending, acks, stored, late, call, faults>>

NoCall == [at |-> "none", item |-> NoRecord]

OutboxInit ==
  /\ pending = [i \in Ids |-> NoRecord]
  /\ acks = [i \in Ids |-> NoRecord]
  /\ stored = [i \in Ids |-> NoRecord]
  /\ late = {}
  /\ call = [p \in Procs |-> NoCall]
  /\ faults = 0

At(p, point) == call[p].at = point
Goto(p, point) == call' = [call EXCEPT ![p].at = point]
Item(p) == call[p].item
IdAt(p) == IdOf[Item(p)]

\* What a caller of the module starts, and how it takes the result.
StartCall(p, r, point) == call' = [call EXCEPT ![p] = [at |-> point, item |-> r]]
EndCall(p) == call' = [call EXCEPT ![p] = NoCall]

FilesUnchanged == UNCHANGED <<pending, acks>>
ReceiverUnchanged == UNCHANGED <<stored, late, faults>>

(***************************************************************************)
(* enqueue                                                                 *)
(***************************************************************************)

\* Where an acknowledgement found on disk leads: the same payload was already
\* delivered and the pending file goes; another payload is a conflict.
AfterAck(r, otherwise) ==
  IF acks[IdOf[r]] = NoRecord THEN otherwise
  ELSE IF acks[IdOf[r]] = r THEN "drop" ELSE "failed"

StartEnqueue(p, r) ==
  /\ StartCall(p, r, AfterAck(r, "link"))
  /\ FilesUnchanged /\ ReceiverUnchanged

\* Mutant: the record is renamed into place.
LinkReplacing(p) ==
  /\ At(p, "link")
  /\ pending' = [pending EXCEPT ![IdAt(p)] = Item(p)]
  /\ Goto(p, "recheck")
  /\ UNCHANGED acks /\ ReceiverUnchanged

\* writeExclusiveDurable: the link fails when the target exists.
Link(p) ==
  /\ At(p, "link")
  /\ IF pending[IdAt(p)] = NoRecord
       THEN /\ pending' = [pending EXCEPT ![IdAt(p)] = Item(p)]
            /\ Goto(p, "recheck")
       ELSE Goto(p, "compare") /\ UNCHANGED pending
  /\ UNCHANGED acks /\ ReceiverUnchanged

\* The existing record may be gone again; that is taken for a conflict.
Compare(p) ==
  /\ At(p, "compare")
  /\ Goto(p, IF pending[IdAt(p)] = Item(p) THEN "recheck" ELSE "failed")
  /\ FilesUnchanged /\ ReceiverUnchanged

Recheck(p) ==
  /\ At(p, "recheck")
  /\ Goto(p, AfterAck(Item(p), "deliver"))
  /\ FilesUnchanged /\ ReceiverUnchanged

(***************************************************************************)
(* deliver                                                                 *)
(***************************************************************************)

\* With an acknowledgement, a pending record of another payload is a conflict.
Deliver(p) ==
  /\ At(p, "deliver")
  /\ LET i == IdAt(p) IN
       Goto(p, IF acks[i] = NoRecord THEN "read"
               ELSE IF pending[i] \in {NoRecord, acks[i]} THEN "drop" ELSE "failed")
  /\ FilesUnchanged /\ ReceiverUnchanged

\* The item that is delivered and acknowledged is the one on disk.
ReadItem(p) ==
  /\ At(p, "read")
  /\ LET r == pending[IdAt(p)] IN
       IF r = NoRecord THEN Goto(p, "failed") ELSE StartCall(p, r, "send")
  /\ FilesUnchanged /\ ReceiverUnchanged

\* The envelope is read a second time and must match the projection.
Send(p) ==
  /\ At(p, "send")
  /\ Goto(p, IF pending[IdAt(p)] = Item(p) THEN "await" ELSE "failed")
  /\ FilesUnchanged /\ ReceiverUnchanged

Accepts(r) == stored[IdOf[r]] \in {NoRecord, r}
Keep(r) == stored' = IF Accepts(r) THEN [stored EXCEPT ![IdOf[r]] = r] ELSE stored

\* The receiver keeps the first payload of an event id and refuses another.
Reply(p) ==
  /\ At(p, "await")
  /\ Keep(Item(p))
  /\ Goto(p, IF Accepts(Item(p)) THEN "ack" ELSE "failed")
  /\ FilesUnchanged /\ UNCHANGED <<late, faults>>

\* Timeout, broken connection or an unusable answer: the sender gives up, the
\* request may still arrive.
LoseReply(p) ==
  /\ At(p, "await") /\ faults < MaxFaults
  /\ faults' = faults + 1
  /\ late' = late \cup {Item(p)}
  /\ Goto(p, "failed")
  /\ FilesUnchanged /\ UNCHANGED stored

LateRequest(r) ==
  /\ r \in late
  /\ late' = late \ {r}
  /\ Keep(r)
  /\ FilesUnchanged /\ UNCHANGED <<call, faults>>

\* acknowledge: written once; a different one is a conflict.
LinkAck(p) ==
  /\ At(p, "ack")
  /\ LET i == IdAt(p) IN
       IF acks[i] = NoRecord
         THEN acks' = [acks EXCEPT ![i] = Item(p)] /\ Goto(p, "drop")
         ELSE /\ Goto(p, IF acks[i] = Item(p) THEN "drop" ELSE "failed")
              /\ UNCHANGED acks
  /\ UNCHANGED pending /\ ReceiverUnchanged

DropPending(p) ==
  /\ At(p, "drop")
  /\ pending' = [pending EXCEPT ![IdAt(p)] = NoRecord]
  /\ Goto(p, "returned")
  /\ UNCHANGED acks /\ ReceiverUnchanged

OutboxStep(p) ==
  \/ Link(p) \/ Compare(p) \/ Recheck(p)
  \/ Deliver(p) \/ ReadItem(p) \/ Send(p) \/ Reply(p)
  \/ LinkAck(p) \/ DropPending(p)

(***************************************************************************)
(* Properties                                                              *)
(***************************************************************************)

\* An acknowledgement names the payload the receiver stored, whatever other
\* processes enqueued, delivered and replayed under the same event id.
AcksAreTrue == \A i \in Ids : acks[i] # NoRecord => stored[i] = acks[i]

\* While an event id has no acknowledgement its pending record stays as it is, and
\* the first acknowledgement is that of the pending record: no payload that
\* enqueue accepted goes without having been delivered, whatever two processes
\* enqueue, deliver and drop under one id.
PendingUntilAcknowledged ==
  [][\A i \in Ids : acks[i] = NoRecord =>
       /\ pending[i] # NoRecord => pending'[i] = pending[i]
       /\ acks'[i] # NoRecord => acks'[i] = pending[i]]_<<pending, acks>>

=============================================================================
