----------------------------- MODULE BackfillBatch -----------------------------
(***************************************************************************)
(* One bounded batch of the M4 migration                                   *)
(* (src/migration/m4-backfill-coordinator.mjs) over one interval of a      *)
(* paused transcript: under a lease, the rows after the committed progress *)
(* are put into the outbox, delivered to the archive, bound to their       *)
(* post-cutoff identity and only then committed as progress.  Batches of   *)
(* several processes share the stores; a batch may fail or its process die *)
(* between any two awaits, and a later batch goes on from the progress.    *)
(*                                                                         *)
(* The outbox is reduced to what ConversationOutbox keeps for one id, the  *)
(* archive to the first payload of an event (ConversationArchive), a lease *)
(* to its holder; that a lease may be moved away from a live holder is what*)
(* BackfillLease shows.                                                    *)
(***************************************************************************)
EXTENDS Naturals, FiniteSets, Sequences

CONSTANTS
  Runners,        \* processes that run batches
  Shards,         \* intervals, numbered from 1
  Transcripts,    \* what the intervals may hold: sequences of records
                  \* [event, meaning, eligible, binding] for each interval
  MaxEvents,      \* maxEvents of each interval
  MaxFaults,      \* bound: failures and crashes in one behaviour
  MaxSteals,      \* bound: leases moved away from a live holder
  Foreign,        \* the payload of an event that an earlier phase archived
  None            \* no file, no row

ASSUME BatchAssumption ==
  /\ IsFiniteSet(Shards) /\ Shards = 1..Cardinality(Shards)
  /\ \A t \in Transcripts : DOMAIN t = Shards
  /\ \A t \in Transcripts : \A s \in Shards :
       DOMAIN t[s] = 1..Len(t[s]) /\ \A q \in DOMAIN t[s] : <<s, q>> # None
  /\ MaxEvents \in [Shards -> Nat \ {0}]
  /\ MaxFaults \in Nat /\ MaxSteals \in Nat

VARIABLES
  archive,        \* payload stored for each event, or None
  queued,         \* outbox: pending payload of each event, or None
  acked,          \* outbox: acknowledged payload of each event, or None
  bound,          \* post-cutoff identity of each event, or None
  progress,       \* progress store of each interval
  lease,          \* holder of each lease, or None
  batch,          \* what each process is doing for an interval
  faults,         \* failures so far
  steals,         \* leases lost so far
  records         \* the transcript; it is paused and does not change

stores == <<archive, queued, acked, bound, progress>>
bvars == <<stores, lease, batch, faults, steals, records>>

Positions(s) == DOMAIN records[s]

\* A payload is the record it was made from: its digest covers the position
\* (ordering.sourceSequence), so an event read in two places has two payloads.
Rows == UNION {{<<s, q>> : q \in Positions(s)} : s \in Shards}
Rec(row) == records[row[1]][row[2]]
Events == {Rec(row).event : row \in {x \in Rows : Rec(x).eligible}}

\* Every interval has a lease; the phase (NativePausedPhase) has one too.
PhaseLease == 0
Leases == Shards \cup {PhaseLease}

NoProgress == [sequence |-> 0, at |-> 0]

Off == [step |-> "off", shard |-> 1, loaded |-> NoProgress, sequence |-> 0, scan |-> 0,
        sent |-> None, processed |-> 0, complete |-> FALSE, ok |-> TRUE]

BatchInit ==
  /\ records \in Transcripts
  /\ archive \in [Events -> {Foreign, None}]
  /\ queued = [e \in Events |-> None]
  /\ acked = [e \in Events |-> None]
  /\ bound = [e \in Events |-> None]
  /\ progress = [s \in Shards |-> NoProgress]
  /\ lease = [l \in Leases |-> None]
  /\ batch = [r \in Runners |-> Off]
  /\ faults = 0
  /\ steals = 0

BatchAt(r, step) == batch[r].step = step
BatchGoto(r, step) == batch' = [batch EXCEPT ![r].step = step]

\* The finally block comes next, and the call fails.
BatchFails(r) == batch' = [batch EXCEPT ![r].step = "close", ![r].ok = FALSE]

Shard(r) == batch[r].shard
Row(r) == <<Shard(r), batch[r].scan>>
Event(r) == Rec(Row(r)).event

(***************************************************************************)
(* The interval source (m4-native-paused-interval-source.mjs)              *)
(***************************************************************************)

Repeats(s, q, p) == /\ p < q
                    /\ records[s][p].eligible
                    /\ records[s][p].event = records[s][q].event

\* Mutant: repeats are looked for among the rows read since the resume only.
EmitsSinceResume(s, from) ==
  {q \in Positions(s) : /\ records[s][q].eligible
                        /\ \A p \in Positions(s) : p > from => ~Repeats(s, q, p)}

\* The rows the source emits: eligible records that repeat no earlier one.
Emits(s, from) ==
  {q \in Positions(s) : /\ records[s][q].eligible
                        /\ \A p \in Positions(s) : ~Repeats(s, q, p)}

\* m4_native_paused_duplicate_conflict: a repeat that means something else.
Clashes(s) ==
  {q \in Positions(s) : /\ records[s][q].eligible
                        /\ \E p \in Positions(s) :
                             /\ Repeats(s, q, p)
                             /\ records[s][p].meaning # records[s][q].meaning}

\* Rows after position p, as the iterator of this call gives them.
Ahead(r, p) == {q \in Emits(Shard(r), batch[r].loaded.at) : q > p}
Nearest(rows) == CHOOSE q \in rows : \A p \in rows : q <= p

\* The scan meets a clash before it gets to position q.
ClashBefore(r, q) == \E c \in Clashes(Shard(r)) : c > batch[r].scan /\ c < q

(***************************************************************************)
(* Leases                                                                  *)
(***************************************************************************)

\* acquire: the lease has no holder, or a dead one.
IsFree(l) == lease[l] = None
Take(l, r) == lease' = [lease EXCEPT ![l] = r]
Heartbeat(l, r) == lease[l] = r

\* release: only the lease this process still holds is given up.
Released(l, r) == IF lease[l] = r THEN [lease EXCEPT ![l] = None] ELSE lease

(***************************************************************************)
(* runM4BackfillBatch                                                      *)
(***************************************************************************)

BatchAcquire(r) ==
  /\ BatchAt(r, "acquire")
  /\ IF IsFree(Shard(r))
     THEN Take(Shard(r), r) /\ BatchGoto(r, "load")
     ELSE BatchFails(r) /\ UNCHANGED lease
  /\ UNCHANGED <<stores, faults, steals, records>>

\* The committed progress is loaded and the source opened after it.
Load(r) ==
  LET p == progress[Shard(r)] IN
  /\ BatchAt(r, "load")
  /\ batch' = [batch EXCEPT ![r] =
       [@ EXCEPT !.step = "next", !.loaded = p, !.sequence = p.sequence,
                 !.scan = IF p.sequence = 0 THEN 0 ELSE p.at]]
  /\ UNCHANGED <<stores, lease, faults, steals, records>>

\* Mutant: a batch that used up its events takes the interval for exhausted.
NextRowWithoutProbe(r) ==
  LET rows == Ahead(r, batch[r].scan) IN
  /\ BatchAt(r, "next")
  /\ IF batch[r].processed = MaxEvents[Shard(r)] \/ rows = {}
     THEN batch' = [batch EXCEPT ![r].step = "close", ![r].complete = TRUE]
     ELSE batch' = [batch EXCEPT ![r].step = "enqueue", ![r].scan = Nearest(rows)]
  /\ UNCHANGED <<stores, lease, faults, steals, records>>

\* iterator.next and the heartbeat before the row is used; after maxEvents rows
\* one more is read, only to learn whether the interval is exhausted.
NextRow(r) ==
  LET rows == Ahead(r, batch[r].scan)
      to == IF rows = {} THEN Len(records[Shard(r)]) + 1 ELSE Nearest(rows)
  IN /\ BatchAt(r, "next")
     /\ \/ ClashBefore(r, to) /\ BatchFails(r)
        \/ /\ ~ClashBefore(r, to)
           /\ batch[r].processed = MaxEvents[Shard(r)] \/ rows = {}
           /\ batch' = [batch EXCEPT ![r].step = "close", ![r].complete = (rows = {})]
        \/ /\ ~ClashBefore(r, to)
           /\ batch[r].processed < MaxEvents[Shard(r)] /\ rows # {}
           /\ IF Heartbeat(Shard(r), r)
              THEN batch' = [batch EXCEPT ![r].step = "enqueue", ![r].scan = to]
              ELSE BatchFails(r)
     /\ UNCHANGED <<stores, lease, faults, steals, records>>

\* outbox.enqueue: a payload that differs from the accepted one is a conflict,
\* which is no queue receipt.
Enqueue(r) ==
  LET e == Event(r)
      accepted == IF acked[e] # None THEN acked[e] ELSE queued[e]
  IN /\ BatchAt(r, "enqueue")
     /\ \/ /\ accepted = None
           /\ queued' = [queued EXCEPT ![e] = Row(r)]
           /\ BatchGoto(r, "deliver")
        \/ accepted = Row(r) /\ BatchGoto(r, "deliver") /\ UNCHANGED queued
        \/ accepted \notin {None, Row(r)} /\ BatchFails(r) /\ UNCHANGED queued
     /\ UNCHANGED <<archive, acked, bound, progress, lease, faults, steals, records>>

\* The acknowledgement must be for the payload of the row.
AcknowledgedAs(r, payload) ==
  IF payload = Row(r) THEN BatchGoto(r, "bind") ELSE BatchFails(r)

\* outbox.deliver up to the answer of M4ConversationArchiveSink, which
\* acknowledges only "stored" and "duplicate".
Deliver(r) ==
  LET e == Event(r)
      pending == queued[e]
  IN /\ BatchAt(r, "deliver")
     /\ \/ acked[e] # None /\ AcknowledgedAs(r, acked[e]) /\ UNCHANGED archive
        \/ /\ acked[e] = None
           /\ pending # None /\ archive[e] \in {None, pending}
           /\ archive' = [archive EXCEPT ![e] = pending]
           /\ batch' = [batch EXCEPT ![r].step = "acknowledge", ![r].sent = pending]
        \/ /\ acked[e] = None
           /\ pending = None \/ archive[e] \notin {None, pending}
           /\ BatchFails(r) /\ UNCHANGED archive
     /\ UNCHANGED <<queued, acked, bound, progress, lease, faults, steals, records>>

\* outbox.acknowledge: the pending record is read again after the await.
Acknowledge(r) ==
  LET e == Event(r) IN
  /\ BatchAt(r, "acknowledge")
  /\ IF queued[e] = batch[r].sent
     THEN /\ acked' = [acked EXCEPT ![e] = batch[r].sent]
          /\ queued' = [queued EXCEPT ![e] = None]
          /\ AcknowledgedAs(r, batch[r].sent)
     ELSE BatchFails(r) /\ UNCHANGED <<acked, queued>>
  /\ UNCHANGED <<archive, bound, progress, lease, faults, steals, records>>

\* postCutoffStore.commit: the identity of an event is written once.
Bind(r) ==
  LET b == Rec(Row(r)).binding
      e == Event(r)
  IN /\ BatchAt(r, "bind")
     /\ IF b # None /\ bound[e] \notin {None, b}
        THEN BatchFails(r) /\ UNCHANGED bound
        ELSE /\ bound' = IF b = None THEN bound ELSE [bound EXCEPT ![e] = b]
             /\ BatchGoto(r, "read")
     /\ UNCHANGED <<archive, queued, acked, progress, lease, faults, steals, records>>

\* The progress of the row in hand.
Reached(r) == [sequence |-> batch[r].sequence + 1, at |-> batch[r].scan]

\* The row is counted and the loop goes on.
Count(r) ==
  batch' = [batch EXCEPT ![r].step = "next", ![r].sequence = @ + 1, ![r].processed = @ + 1]

\* checkpointStore.commit: the state is read and the next sequence required ...
CommitReads(r) ==
  LET current == progress[Shard(r)]
      reached == Reached(r)
  IN /\ BatchAt(r, "read")
     /\ \/ current = reached /\ Count(r)
        \/ /\ reached.sequence = current.sequence + 1 /\ reached.at # current.at
           /\ BatchGoto(r, "write")
        \/ /\ current # reached
           /\ ~(reached.sequence = current.sequence + 1 /\ reached.at # current.at)
           /\ BatchFails(r)
     /\ UNCHANGED <<stores, lease, faults, steals, records>>

\* ... and the new state renamed over it.
CommitWrites(r) ==
  /\ BatchAt(r, "write")
  /\ progress' = [progress EXCEPT ![Shard(r)] = Reached(r)]
  /\ Count(r)
  /\ UNCHANGED <<archive, queued, acked, bound, lease, faults, steals, records>>

\* The finally block: the iterator is closed and the lease released.
Close(r) ==
  /\ BatchAt(r, "close")
  /\ lease' = Released(Shard(r), r)
  /\ BatchGoto(r, IF batch[r].ok THEN "done" ELSE "failed")
  /\ UNCHANGED <<stores, faults, steals, records>>

BatchStep(r) ==
  \/ BatchAcquire(r) \/ Load(r) \/ NextRow(r) \/ Enqueue(r) \/ Deliver(r) \/ Acknowledge(r)
  \/ Bind(r) \/ CommitReads(r) \/ CommitWrites(r) \/ Close(r)

\* An awaited call of the batch fails, before or after it took effect.
BatchFault(r) ==
  /\ batch[r].step \notin {"off", "close", "done", "failed"}
  /\ faults < MaxFaults /\ faults' = faults + 1
  /\ BatchFails(r)
  /\ UNCHANGED <<stores, lease, steals, records>>

\* A contender moves a lease away from its live holder (BackfillLease).
Steal(l) ==
  /\ lease[l] # None
  /\ steals < MaxSteals /\ steals' = steals + 1
  /\ lease' = [lease EXCEPT ![l] = None]
  /\ UNCHANGED <<stores, batch, faults, records>>

(***************************************************************************)
(* Properties                                                              *)
(***************************************************************************)

\* Progress is never ahead of the archive: every row up to the checkpoint is
\* archived, acknowledged and bound, and the sequence counts these rows, also
\* after crashes, failed commits and leases lost to another process.
ProgressIsBacked ==
  \A s \in Shards :
    LET rows == {q \in Emits(s, 0) : q <= progress[s].at} IN
    /\ progress[s].sequence = Cardinality(rows)
    /\ \A q \in rows : LET e == records[s][q].event IN
         /\ archive[e] = <<s, q>>
         /\ acked[e] = <<s, q>>
         /\ records[s][q].binding # None => bound[e] = records[s][q].binding

===============================================================================
