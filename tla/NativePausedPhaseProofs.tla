----------------------- MODULE NativePausedPhaseProofs -----------------------
(***************************************************************************)
(* For any plan of intervals, any transcripts and any number of processes  *)
(* that run batches of the paused-native phase, each of them failing, dying*)
(* or losing its leases at any await: progress, receipts and completions   *)
(* never run ahead of the archive.                                         *)
(*                                                                         *)
(* The argument does not use the leases.  What the stores hold of an event *)
(* is never replaced (Grown), so what a batch has seen there stays true    *)
(* however long it sleeps and whoever else writes.  A batch carries a      *)
(* sequence in memory: it counts the rows of the source up to the scan     *)
(* position, and all of them are backed, or all but the one in hand        *)
(* (BatchKnows).  Hence each progress it writes is true, also one that     *)
(* overwrites a later one.  An exhausted source leaves nothing unbacked,   *)
(* which is what a receipt says, and an invocation knows it of each receipt*)
(* it has loaded or written (PhaseKnows).                                  *)
(***************************************************************************)
EXTENDS NativePausedPhase, FiniteSetTheorems, SequenceTheorems, TLAPS

BatchSteps == {"off", "acquire", "load", "next", "enqueue", "deliver", "acknowledge",
               "bind", "read", "write", "close", "done", "failed"}

\* A row of the source is in hand.
RowSteps == {"enqueue", "deliver", "acknowledge", "bind", "read", "write"}

Bindings == {Rec(row).binding : row \in Rows} \cup {None}
Checkpoint == [sequence : Nat, at : Nat]
Batch == [step : BatchSteps, shard : Nat, loaded : Checkpoint, sequence : Nat, scan : Nat,
          sent : Rows \cup {None}, processed : Nat, complete : BOOLEAN, ok : BOOLEAN]

\* Among it that an invocation calls the batch runner no more often than it may.
BatchTypeOK ==
  /\ records \in Transcripts
  /\ archive \in [Events -> Rows \cup {None, Foreign}]
  /\ queued \in [Events -> Rows \cup {None}]
  /\ acked \in [Events -> Rows \cup {None}]
  /\ bound \in [Events -> Bindings]
  /\ progress \in [Shards -> Checkpoint]
  /\ lease \in [Leases -> Runners \cup {None}]
  /\ batch \in [Runners -> Batch]
  /\ faults \in 0..MaxFaults /\ steals \in 0..MaxSteals

PhaseTypeOK ==
  /\ BatchTypeOK
  /\ receipts \in Seq(Receipt)
  /\ phase \in [Runners -> Invocation]
  /\ completions \subseteq Seq(Receipt)

\* The rows of an interval up to a position, and what is done with one of them.
Emitted(s, p) == {q \in Emits(s, 0) : q <= p}
Backed(s, q) ==
  LET e == records[s][q].event IN
  /\ archive[e] = <<s, q>>
  /\ acked[e] = <<s, q>>
  /\ records[s][q].binding # None => bound[e] = records[s][q].binding
AllBacked(s) == \A q \in Emits(s, 0) : Backed(s, q)

\* An event is acknowledged once, for what the archive holds.
StoresAgree ==
  \A e \in Events :
    /\ queued[e] # None => acked[e] = None
    /\ acked[e] # None => archive[e] = acked[e]

\* What a batch carries in its memory from one await to the next.
BatchKnows(r) ==
  LET b == batch[r] IN
  /\ b.step # "off" => b.shard \in Shards
  /\ b.step = "next" =>
       /\ b.sequence = Cardinality(Emitted(b.shard, b.scan))
       /\ \A q \in Emitted(b.shard, b.scan) : Backed(b.shard, q)
  /\ b.step \in RowSteps =>
       /\ b.scan \in Emits(b.shard, 0)
       /\ b.sequence + 1 = Cardinality(Emitted(b.shard, b.scan))
       /\ \A q \in Emitted(b.shard, b.scan) : q # b.scan => Backed(b.shard, q)
  /\ b.step = "acknowledge" => b.sent # None /\ archive[Event(r)] = b.sent
  /\ b.step \in {"bind", "read", "write"} => acked[Event(r)] = Row(r)
  /\ b.step \in {"read", "write"} =>
       (Rec(Row(r)).binding # None => bound[Event(r)] = Rec(Row(r)).binding)
  /\ b.complete => b.step # "off" /\ AllBacked(b.shard)

\* What an invocation of the phase carries.
PhaseKnows(r) ==
  LET p == phase[r] IN
  /\ Len(p.known) <= Cardinality(Shards)
  /\ \A s \in Shards : s <= Len(p.known) => AllBacked(s)
  /\ p.step \in {"batch", "commit", "write", "reload"} =>
       batch[r].step # "off" /\ batch[r].shard = Ordinal(r) /\ Ordinal(r) \in Shards
  /\ p.step = "batch" => p.shardCalls < MaxCallsPerShard /\ p.totalCalls < MaxCallsTotal
  /\ p.step \in {"commit", "write", "reload"} => batch[r].complete
  /\ p.step = "write" => Ordinal(r) = Len(p.found) + 1
  /\ p.step = "sign" => AllReceipts(p.known)

ReceiptsKnown ==
  /\ Len(receipts) <= Cardinality(Shards)
  /\ \A s \in Shards : (s <= Len(receipts) \/ completions # {}) => AllBacked(s)

PhaseInv ==
  /\ PhaseTypeOK /\ StoresAgree /\ ProgressIsBacked /\ ReceiptsKnown
  /\ \A r \in Runners : BatchKnows(r) /\ PhaseKnows(r)

\* What holds of a step by its effect on the stores: the transcript stays and an
\* entry of the archive, of the outbox or of the identities is never replaced.
Grown ==
  /\ records' = records
  /\ \A e \in Events :
       /\ archive[e] # None => archive'[e] = archive[e]
       /\ acked[e] # None => acked'[e] = acked[e]
       /\ bound[e] # None => bound'[e] = bound[e]

(***************************************************************************)
(* The rows of an interval                                                 *)
(***************************************************************************)

\* A nonempty set of numbers has a least one.
LEMMA LeastExists ==
  ASSUME NEW S \in SUBSET Nat, S # {}
  PROVE  \E x \in S : \A y \in S : x <= y
<1> DEFINE Below(x) == {z \in S : z <= x}
           F == {Below(x) : x \in S}
<1>1. F \subseteq FiniteSubsetsOf(S) /\ F # {}
  <2>1. ASSUME NEW x \in S PROVE IsFiniteSet(Below(x))
    <3>1. IsFiniteSet(0..x) /\ \A z \in Nat : z <= x => z \in 0..x
      BY FS_Interval
    <3> QED
      BY <3>1, FS_Subset
  <2> QED
    BY <2>1 DEF FiniteSubsetsOf
<1>2. PICK M \in F : \A A \in F : ~(<<A, M>> \in StrictSubsetOrdering(S))
  <2> HIDE DEF F
  <2> QED
    BY <1>1, WFMin, FS_StrictSubsetOrderingWellFounded
<1>3. PICK x \in S : M = Below(x)
  BY <1>2
<1>4. ASSUME NEW y \in S, y < x PROVE FALSE
  <2>1. Below(y) \subseteq Below(x) /\ x \in Below(x) /\ x \notin Below(y)
    <3>1. x <= x /\ ~(x <= y) /\ \A z \in S : z <= y => z <= x
      BY <1>4
    <3> QED
      BY <3>1
  <2>2. Below(y) \in F /\ Below(y) \subseteq S /\ Below(x) \subseteq S
    OBVIOUS
  <2> QED
    BY <1>2, <1>3, <2>1, <2>2 DEF StrictSubsetOrdering
<1> QED
  BY <1>4

LEMMA RowsAreKnown ==
  ASSUME records \in Transcripts, NEW s \in Shards
  PROVE  /\ s \in Nat
         /\ \A q \in Positions(s) : /\ q \in Nat \ {0} /\ <<s, q>> \in Rows /\ <<s, q>> # None
                                    /\ Rec(<<s, q>>) = records[s][q]
                                    /\ records[s][q].binding \in Bindings
                                    /\ records[s][q].eligible => records[s][q].event \in Events
<1>1. s \in Nat /\ Positions(s) = 1..Len(records[s])
  <2>1. Cardinality(Shards) \in Nat /\ s \in 1..Cardinality(Shards)
    BY BatchAssumption, FS_CardinalityType DEF BatchAssumption
  <2> QED
    BY <2>1, BatchAssumption DEF BatchAssumption, Positions
<1>2. ASSUME NEW q \in Positions(s)
      PROVE  <<s, q>> \in Rows /\ <<s, q>> # None /\ Rec(<<s, q>>) = records[s][q]
  <2>1. <<s, q>> \in Rows
    BY DEF Rows
  <2>2. <<s, q>> # None
    BY BatchAssumption DEF BatchAssumption, Positions
  <2> QED
    BY <2>1, <2>2 DEF Rec
<1>3. ASSUME NEW q \in Positions(s) PROVE records[s][q].binding \in Bindings
  BY <1>2 DEF Bindings
<1>4. ASSUME NEW q \in Positions(s), records[s][q].eligible PROVE records[s][q].event \in Events
  BY <1>2, <1>4 DEF Events
<1> QED
  BY <1>1, <1>2, <1>3, <1>4

\* Which rows are emitted does not depend on where the source was opened.
LEMMA EmitsFromStart ==
  ASSUME records \in Transcripts, NEW s \in Shards, NEW from
  PROVE  /\ Emits(s, from) = Emits(s, 0)
         /\ \A q \in Emits(s, 0) : /\ q \in Positions(s) /\ q \in Nat \ {0}
                                   /\ records[s][q].event \in Events
BY RowsAreKnown DEF Emits

\* A step that leaves the transcript leaves its rows.
LEMMA DataStay ==
  ASSUME records' = records
  PROVE  /\ Rows' = Rows /\ Events' = Events /\ Bindings' = Bindings /\ Batch' = Batch
         /\ \A s \in Shards : Emits(s, 0)' = Emits(s, 0) /\ Positions(s)' = Positions(s)
         /\ \A s \in Shards : \A p \in Nat : Emitted(s, p)' = Emitted(s, p)
<1>1. Rows' = Rows
  BY DEF Rows, Positions
<1>2. Events' = Events /\ Bindings' = Bindings /\ Batch' = Batch
  BY <1>1 DEF Events, Bindings, Rec, Batch
<1> QED
  BY <1>1, <1>2 DEF Emits, Emitted, Positions, Repeats

\* The next row counts one more.
LEMMA NextRowCounts ==
  ASSUME records \in Transcripts, NEW s \in Shards, NEW p \in Nat, NEW to \in Emits(s, 0),
         p < to, \A q \in Emits(s, 0) : q > p => to <= q
  PROVE  /\ Emitted(s, to) = Emitted(s, p) \cup {to}
         /\ Cardinality(Emitted(s, to)) = Cardinality(Emitted(s, p)) + 1
<1>1. \A q \in Emits(s, 0) : q \in Nat \ {0}
  BY EmitsFromStart
<1>2. Emitted(s, to) = Emitted(s, p) \cup {to} /\ to \notin Emitted(s, p)
  BY <1>1 DEF Emitted
<1>3. IsFiniteSet(Emitted(s, p))
  <2>1. Emitted(s, p) \in SUBSET Nat /\ \A q \in Emitted(s, p) : q <= p
    BY <1>1 DEF Emitted
  <2> QED
    BY <2>1, FS_BoundedSetOfNaturals
<1> QED
  BY <1>2, <1>3, FS_AddElement

\* No row is at position 0 or before it.
LEMMA NothingEmittedYet ==
  ASSUME records \in Transcripts, NEW s \in Shards
  PROVE  Emitted(s, 0) = {} /\ Cardinality(Emitted(s, 0)) = 0
<1>1. \A q \in Emits(s, 0) : q \in Nat \ {0}
  BY EmitsFromStart
<1>2. Emitted(s, 0) = {}
  BY <1>1 DEF Emitted
<1> QED
  BY <1>2, FS_EmptySet

\* Where all rows are backed every eligible record is archived: one that the
\* source leaves out repeats the first record of its event, which is a row.
LEMMA BackedIsArchived ==
  ASSUME records \in Transcripts, NEW s \in Shards, AllBacked(s)
  PROVE  Archived(s)
<1> SUFFICES ASSUME NEW q \in Positions(s), records[s][q].eligible
             PROVE  archive[records[s][q].event] \in {<<s, p>> : p \in Emits(s, 0)}
  BY DEF Archived
<1> DEFINE Same == {p \in Positions(s) : /\ records[s][p].eligible
                                          /\ records[s][p].event = records[s][q].event}
<1>1. Same \in SUBSET Nat /\ q \in Same
  BY RowsAreKnown
<1>2. PICK p \in Same : \A y \in Same : p <= y
  BY <1>1, LeastExists
<1>3. \A y \in Positions(s) : ~Repeats(s, p, y)
  BY <1>1, <1>2 DEF Repeats
<1>4. p \in Emits(s, 0)
  BY <1>2, <1>3 DEF Emits
<1>5. archive[records[s][p].event] = <<s, p>>
  BY <1>4 DEF AllBacked, Backed
<1> QED
  BY <1>2, <1>4, <1>5

(***************************************************************************)
(* What growing stores keep                                                *)
(***************************************************************************)

LEMMA BackedStays ==
  ASSUME BatchTypeOK, Grown, NEW s \in Shards, NEW q \in Emits(s, 0), Backed(s, q)
  PROVE  Backed(s, q)'
<1>1. records \in Transcripts /\ records' = records
  BY DEF BatchTypeOK, Grown
<1>2. q \in Positions(s) /\ records[s][q].event \in Events
  BY <1>1, EmitsFromStart
<1>3. <<s, q>> # None
  BY <1>1, <1>2, RowsAreKnown
<1> QED
  BY <1>1, <1>2, <1>3 DEF Backed, Grown

LEMMA AllBackedStays ==
  ASSUME BatchTypeOK, Grown, NEW s \in Shards, AllBacked(s)
  PROVE  AllBacked(s)'
<1>1. Emits(s, 0)' = Emits(s, 0)
  BY DataStay DEF Grown
<1> QED
  BY <1>1, BackedStays DEF AllBacked

\* The row a batch has in hand.
LEMMA RowInHand ==
  ASSUME BatchTypeOK, NEW r \in Runners, BatchKnows(r), batch[r].step \in RowSteps
  PROVE  /\ Shard(r) \in Shards /\ Shard(r) = batch[r].shard
         /\ batch[r].scan \in Emits(Shard(r), 0) /\ batch[r].scan \in Nat
         /\ Row(r) \in Rows /\ Row(r) # None /\ Row(r) = <<Shard(r), batch[r].scan>>
         /\ Rec(Row(r)) = records[Shard(r)][batch[r].scan] /\ Event(r) = Rec(Row(r)).event
         /\ Event(r) \in Events /\ Rec(Row(r)).binding \in Bindings
<1>1. Shard(r) \in Shards /\ batch[r].scan \in Emits(Shard(r), 0) /\ records \in Transcripts
  BY DEF BatchKnows, Shard, RowSteps, BatchTypeOK
<1>2. batch[r].scan \in Positions(Shard(r)) /\ records[Shard(r)][batch[r].scan].event \in Events
  BY <1>1, EmitsFromStart
<1> QED
  BY <1>1, <1>2, RowsAreKnown DEF Row, Event, Shard

\* A batch that does not move still knows what it knew.
LEMMA BatchStays ==
  ASSUME BatchTypeOK, Grown, NEW r \in Runners, BatchKnows(r), batch'[r] = batch[r]
  PROVE  BatchKnows(r)'
<1> DEFINE b == batch[r]
<1>1. records' = records /\ b \in Batch /\ b.scan \in Nat
  BY DEF BatchTypeOK, Grown, Batch
<1>2. \A s \in Shards : Emits(s, 0)' = Emits(s, 0) /\ \A p \in Nat : Emitted(s, p)' = Emitted(s, p)
  BY <1>1, DataStay
<1>3. (b.step # "off" => b.shard \in Shards)'
  BY DEF BatchKnows
<1>4. \A s \in Shards : \A q \in Emitted(s, b.scan) : Backed(s, q) => Backed(s, q)'
  BY BackedStays DEF Emitted
<1>5. CASE b.step = "off"
  BY <1>3, <1>5 DEF BatchKnows, RowSteps
<1>6. CASE b.step # "off"
  <2>1. b.shard \in Shards
    BY <1>6 DEF BatchKnows
  <2>2. Emits(b.shard, 0)' = Emits(b.shard, 0) /\ Emitted(b.shard, b.scan)' = Emitted(b.shard, b.scan)
    BY <1>1, <1>2, <2>1
  <2>3. (b.step = "next" =>
          /\ b.sequence = Cardinality(Emitted(b.shard, b.scan))
          /\ \A q \in Emitted(b.shard, b.scan) : Backed(b.shard, q))'
    BY <1>4, <2>1, <2>2 DEF BatchKnows
  <2>4. (b.step \in RowSteps =>
          /\ b.scan \in Emits(b.shard, 0)
          /\ b.sequence + 1 = Cardinality(Emitted(b.shard, b.scan))
          /\ \A q \in Emitted(b.shard, b.scan) : q # b.scan => Backed(b.shard, q))'
    BY <1>4, <2>1, <2>2 DEF BatchKnows
  <2>5. (b.complete => b.step # "off" /\ AllBacked(b.shard))'
    BY <2>1, AllBackedStays DEF BatchKnows
  <2>6. ASSUME b.step \in RowSteps
        PROVE  /\ Row(r)' = Row(r) /\ Rec(Row(r))' = Rec(Row(r)) /\ Event(r)' = Event(r)
               /\ Event(r) \in Events /\ Row(r) # None
    <3>1. Event(r) \in Events /\ Row(r) # None
      BY <2>6, RowInHand
    <3> QED
      BY <1>1, <3>1 DEF Row, Rec, Event, Shard
  <2>7. (b.step = "acknowledge" => b.sent # None /\ archive[Event(r)] = b.sent)'
    <3>1. SUFFICES ASSUME b.step = "acknowledge" PROVE archive'[Event(r)'] = b.sent /\ b.sent # None
      OBVIOUS
    <3>2. b.step \in RowSteps /\ archive[Event(r)] = b.sent /\ b.sent # None
      BY <3>1 DEF BatchKnows, RowSteps
    <3> QED
      BY <2>6, <3>2 DEF Grown
  <2>8. (b.step \in {"bind", "read", "write"} => acked[Event(r)] = Row(r))'
    <3>1. SUFFICES ASSUME b.step \in {"bind", "read", "write"} PROVE acked'[Event(r)'] = Row(r)'
      OBVIOUS
    <3>2. b.step \in RowSteps /\ acked[Event(r)] = Row(r)
      BY <3>1 DEF BatchKnows, RowSteps
    <3> QED
      BY <2>6, <3>2 DEF Grown
  <2>9. (b.step \in {"read", "write"} =>
          (Rec(Row(r)).binding # None => bound[Event(r)] = Rec(Row(r)).binding))'
    <3>1. SUFFICES ASSUME b.step \in {"read", "write"}, Rec(Row(r)).binding # None, b.step \in RowSteps
                   PROVE  bound'[Event(r)] = Rec(Row(r)).binding
      BY <2>6 DEF RowSteps
    <3>2. bound[Event(r)] = Rec(Row(r)).binding
      BY <3>1 DEF BatchKnows
    <3> QED
      BY <2>6, <3>1, <3>2 DEF Grown
  <2> QED
    BY <1>3, <2>3, <2>4, <2>5, <2>7, <2>8, <2>9 DEF BatchKnows
<1> QED
  BY <1>5, <1>6

\* An invocation that does not move still knows what it knew.
LEMMA PhaseStays ==
  ASSUME PhaseTypeOK, Grown, NEW r \in Runners, PhaseKnows(r), phase'[r] = phase[r],
         At(r, "batch") \/ batch'[r] = batch[r],
         At(r, "batch") => batch'[r].step # "off" /\ batch'[r].shard = batch[r].shard
  PROVE  PhaseKnows(r)'
<1>1. BatchTypeOK
  BY DEF PhaseTypeOK
<1>2. \A s \in Shards : AllBacked(s) => AllBacked(s)'
  BY <1>1, AllBackedStays
<1>3. Ordinal(r)' = Ordinal(r) /\ AllReceipts(phase[r].known)' = AllReceipts(phase[r].known)
  BY DEF Ordinal, AllReceipts
<1> QED
  BY <1>2, <1>3 DEF PhaseKnows, At

\* Where neither receipts nor progress are written both stay backed.
LEMMA ReceiptsStay ==
  ASSUME PhaseTypeOK, Grown, ReceiptsKnown, receipts' = receipts, completions' = completions
  PROVE  ReceiptsKnown'
<1>1. \A s \in Shards : AllBacked(s) => AllBacked(s)'
  BY AllBackedStays DEF PhaseTypeOK
<1> QED
  BY <1>1 DEF ReceiptsKnown

\* ProgressIsBacked in the words of Backed.
LEMMA ProgressByRow ==
  ProgressIsBacked <=> \A s \in Shards :
    /\ progress[s].sequence = Cardinality(Emitted(s, progress[s].at))
    /\ \A q \in Emitted(s, progress[s].at) : Backed(s, q)
BY DEF ProgressIsBacked, Emitted, Backed

LEMMA ProgressStays ==
  ASSUME BatchTypeOK, Grown, ProgressIsBacked, progress' = progress
  PROVE  ProgressIsBacked'
<1>1. ASSUME NEW s \in Shards
      PROVE  (/\ progress[s].sequence = Cardinality(Emitted(s, progress[s].at))
              /\ \A q \in Emitted(s, progress[s].at) : Backed(s, q))'
  <2>1. progress[s].at \in Nat
    BY DEF BatchTypeOK, Checkpoint
  <2>2. Emitted(s, progress[s].at)' = Emitted(s, progress[s].at)
    BY <2>1, DataStay DEF Grown
  <2>3. \A q \in Emitted(s, progress[s].at) : Backed(s, q)'
    BY BackedStays, ProgressByRow DEF Emitted
  <2> QED
    BY <2>2, <2>3, ProgressByRow
<1>2. ProgressIsBacked' <=> \A s \in Shards :
         (/\ progress[s].sequence = Cardinality(Emitted(s, progress[s].at))
          /\ \A q \in Emitted(s, progress[s].at) : Backed(s, q))'
  BY DEF ProgressIsBacked, Emitted, Backed
<1> QED
  BY <1>1, <1>2

(***************************************************************************)
(* The types                                                               *)
(***************************************************************************)

\* A step that keeps the stores and the process record in their types.
LEMMA BatchTypesKept ==
  ASSUME BatchTypeOK, records' = records,
         archive' \in [Events -> Rows \cup {None, Foreign}],
         queued' \in [Events -> Rows \cup {None}], acked' \in [Events -> Rows \cup {None}],
         bound' \in [Events -> Bindings], progress' \in [Shards -> Checkpoint],
         lease' \in [Leases -> Runners \cup {None}], batch' \in [Runners -> Batch],
         faults' \in 0..MaxFaults, steals' \in 0..MaxSteals
  PROVE  BatchTypeOK'
BY DataStay DEF BatchTypeOK

LEMMA LeaseTypes ==
  ASSUME BatchTypeOK, NEW r \in Runners, NEW l \in Leases
  PROVE  /\ [lease EXCEPT ![l] = r] \in [Leases -> Runners \cup {None}]
         /\ Released(l, r) \in [Leases -> Runners \cup {None}]
BY DEF BatchTypeOK, Released

LEMMA BatchStepTypes ==
  ASSUME BatchTypeOK, NEW r \in Runners, BatchKnows(r), BatchStep(r) \/ BatchFault(r)
  PROVE  BatchTypeOK'
<1> DEFINE b == batch[r]
<1> USE DEF BatchGoto, BatchFails, BatchAt
<1>0. /\ b \in Batch /\ b.step \in BatchSteps /\ b.shard \in Nat /\ batch \in [Runners -> Batch]
      /\ b.scan \in Nat /\ b.sequence \in Nat /\ b.processed \in Nat
  BY DEF BatchTypeOK, Batch
<1>1. ASSUME NEW step \in BatchSteps
      PROVE  [batch EXCEPT ![r].step = step] \in [Runners -> Batch]
  BY <1>0 DEF Batch
<1>2. [batch EXCEPT ![r].step = "close", ![r].ok = FALSE] \in [Runners -> Batch]
  BY <1>0 DEF Batch, BatchSteps
<1>3. b.step # "off" => Shard(r) \in Shards /\ Shard(r) \in Leases
  BY DEF BatchKnows, Shard, Leases
<1>4. CASE BatchAcquire(r)
  BY <1>1, <1>2, <1>3, <1>4, LeaseTypes, BatchTypesKept
     DEF BatchAcquire, Take, stores, BatchTypeOK, BatchSteps
<1>5. CASE Load(r)
  <2>1. progress[Shard(r)] \in Checkpoint
    BY <1>3, <1>5 DEF Load, BatchTypeOK
  <2>2. batch' \in [Runners -> Batch]
    BY <1>0, <1>5, <2>1 DEF Load, Batch, BatchSteps, Checkpoint
  <2> QED
    BY <1>5, <2>2, BatchTypesKept DEF Load, stores, BatchTypeOK
<1>6. CASE NextRow(r)
  <2>1. b.step = "next" /\ UNCHANGED <<stores, lease, faults, steals, records>>
    BY <1>6 DEF NextRow
  <2>2. \A q \in Emits(Shard(r), batch[r].loaded.at) : q \in Nat
    BY <1>3, <2>1, EmitsFromStart DEF BatchTypeOK
  <2>3. Ahead(r, b.scan) # {} => Nearest(Ahead(r, b.scan)) \in Nat
    <3> DEFINE rows == Ahead(r, b.scan)
    <3>1. rows \in SUBSET Nat
      BY <2>2 DEF Ahead
    <3>2. rows # {} => \E q \in rows : \A p \in rows : q <= p
      BY <3>1, LeastExists
    <3> QED
      BY <3>1, <3>2 DEF Nearest
  <2>4. batch' \in [Runners -> Batch]
    <3>1. CASE batch' = [batch EXCEPT ![r].step = "close", ![r].ok = FALSE]
      BY <1>2, <3>1
    <3>2. CASE batch' = [batch EXCEPT ![r].step = "close", ![r].complete = (Ahead(r, b.scan) = {})]
      BY <1>0, <3>2 DEF Batch, BatchSteps
    <3>3. CASE /\ Ahead(r, b.scan) # {}
               /\ batch' = [batch EXCEPT ![r].step = "enqueue", ![r].scan = Nearest(Ahead(r, b.scan))]
      BY <1>0, <2>3, <3>3 DEF Batch, BatchSteps
    <3> QED
      BY <1>6, <3>1, <3>2, <3>3 DEF NextRow
  <2> QED
    BY <2>1, <2>4, BatchTypesKept DEF stores, BatchTypeOK
<1>7. CASE Enqueue(r)
  <2>1. Row(r) \in Rows /\ Event(r) \in Events
    BY <1>7, RowInHand DEF Enqueue, RowSteps
  <2>2. batch' \in [Runners -> Batch]
    BY <1>1, <1>2, <1>7 DEF Enqueue, BatchSteps
  <2>3. queued' \in [Events -> Rows \cup {None}]
    BY <1>7, <2>1 DEF Enqueue, BatchTypeOK
  <2> QED
    BY <1>7, <2>2, <2>3, BatchTypesKept DEF Enqueue, BatchTypeOK
<1>8. CASE Deliver(r)
  <2>1. Event(r) \in Events
    BY <1>8, RowInHand DEF Deliver, RowSteps
  <2>2. queued[Event(r)] \in Rows \cup {None}
    BY <2>1 DEF BatchTypeOK
  <2>3. [batch EXCEPT ![r].step = "acknowledge", ![r].sent = queued[Event(r)]] \in [Runners -> Batch]
    BY <1>0, <2>2 DEF Batch, BatchSteps
  <2> QED
    BY <1>1, <1>2, <1>8, <2>2, <2>3, BatchTypesKept
       DEF Deliver, AcknowledgedAs, BatchTypeOK, BatchSteps
<1>9. CASE Acknowledge(r)
  <2>1. b.sent \in Rows \cup {None}
    BY <1>0 DEF Batch
  <2> QED
    BY <1>1, <1>2, <1>9, <2>1, BatchTypesKept
       DEF Acknowledge, AcknowledgedAs, BatchTypeOK, BatchSteps
<1>10. CASE Bind(r)
  <2>1. Rec(Row(r)).binding \in Bindings
    BY <1>10, RowInHand DEF Bind, RowSteps
  <2> QED
    BY <1>1, <1>2, <1>10, <2>1, BatchTypesKept DEF Bind, BatchTypeOK, BatchSteps
<1>11. [batch EXCEPT ![r].step = "next", ![r].sequence = @ + 1, ![r].processed = @ + 1]
         \in [Runners -> Batch]
  <2> DEFINE c == [b EXCEPT !.step = "next"]
             d == [c EXCEPT !.sequence = b.sequence + 1]
             e == [d EXCEPT !.processed = b.processed + 1]
  <2>1. c \in Batch
    BY <1>0 DEF Batch, BatchSteps
  <2>2. d \in Batch
    <3> HIDE DEF c
    <3> QED
      BY <1>0, <2>1 DEF Batch
  <2>3. e \in Batch
    <3> HIDE DEF d
    <3> QED
      BY <1>0, <2>2 DEF Batch
  <2>4. [batch EXCEPT ![r].step = "next", ![r].sequence = @ + 1, ![r].processed = @ + 1]
          = [batch EXCEPT ![r] = e]
    BY <1>0 DEF Batch
  <2> HIDE DEF e
  <2> QED
    BY <1>0, <2>3, <2>4
<1>12. CASE CommitReads(r)
  BY <1>1, <1>2, <1>11, <1>12, BatchTypesKept DEF CommitReads, Count, stores, BatchTypeOK, BatchSteps
<1>13. CASE CommitWrites(r)
  <2>1. Reached(r) \in Checkpoint
    BY <1>0 DEF Reached, Checkpoint
  <2> QED
    BY <1>11, <1>13, <2>1, BatchTypesKept DEF CommitWrites, Count, BatchTypeOK
<1>14. CASE Close(r)
  BY <1>1, <1>3, <1>14, LeaseTypes, BatchTypesKept DEF Close, stores, BatchTypeOK, BatchSteps
<1>15. CASE BatchFault(r)
  <2>1. faults' \in 0..MaxFaults
    BY <1>15, BatchAssumption DEF BatchFault, BatchTypeOK, BatchAssumption
  <2> QED
    BY <1>2, <1>15, <2>1, BatchTypesKept DEF BatchFault, stores, BatchTypeOK
<1> QED
  BY <1>4, <1>5, <1>6, <1>7, <1>8, <1>9, <1>10, <1>12, <1>13, <1>14, <1>15 DEF BatchStep

LEMMA PhaseStepTypes ==
  ASSUME PhaseTypeOK, NEW r \in Runners, BatchKnows(r), PhaseKnows(r),
         Invoke(r) \/ PhaseStep(r) \/ PhaseFault(r) \/ Crash(r)
  PROVE  PhaseTypeOK'
<1> DEFINE p == phase[r]
<1> USE DEF Goto, Fails, At, StoresUnchanged
<1>0. /\ p \in Invocation /\ phase \in [Runners -> Invocation] /\ p.known \in Seq(Receipt)
      /\ p.found \in Seq(Receipt) /\ BatchTypeOK /\ receipts \in Seq(Receipt)
      /\ completions \subseteq Seq(Receipt) /\ batch \in [Runners -> Batch]
  BY DEF PhaseTypeOK, Invocation, BatchTypeOK
<1>1. ASSUME NEW step \in PhaseSteps
      PROVE  [phase EXCEPT ![r].step = step] \in [Runners -> Invocation]
  BY <1>0 DEF Invocation
<1>2. Off \in Batch
  BY DEF Off, Batch, NoProgress, Checkpoint, BatchSteps
<1>3. Idle \in Invocation
  <2>1. <<>> \in Seq(Receipt)
    OBVIOUS
  <2>2. 0 \in 0..MaxCallsPerShard /\ 0 \in 0..MaxCallsTotal
    BY PhaseAssumption DEF PhaseAssumption
  <2> QED
    BY <2>1, <2>2 DEF Idle, Invocation, PhaseSteps
<1>4. [batch EXCEPT ![r] = Off] \in [Runners -> Batch]
  BY <1>0, <1>2
<1>5. PhaseLease \in Leases
  BY DEF Leases
<1>6. ASSUME phase' \in [Runners -> Invocation], receipts' \in Seq(Receipt),
             completions' \subseteq Seq(Receipt), BatchTypeOK'
      PROVE  PhaseTypeOK'
  BY <1>6 DEF PhaseTypeOK
<1>7. ASSUME UNCHANGED bvars PROVE BatchTypeOK'
  BY <1>0, <1>7, BatchTypesKept DEF bvars, stores, BatchTypeOK
<1>8. CASE Invoke(r)
  BY <1>0, <1>1, <1>6, <1>7, <1>8 DEF Invoke, PhaseSteps
<1>9. CASE AcquirePhase(r)
  <2>1. BatchTypeOK'
    BY <1>0, <1>5, <1>9, LeaseTypes, BatchTypesKept DEF AcquirePhase, Take, stores, BatchTypeOK
  <2>2. phase' \in [Runners -> Invocation]
    BY <1>1, <1>9 DEF AcquirePhase, PhaseSteps
  <2> QED
    BY <1>0, <1>6, <1>9, <2>1, <2>2 DEF AcquirePhase
<1>10. CASE OpenStore(r)
  BY <1>0, <1>1, <1>6, <1>7, <1>10 DEF OpenStore, PhaseSteps
<1>11. CASE LoadReceipts(r)
  <2>1. phase' \in [Runners -> Invocation]
    BY <1>0, <1>11 DEF LoadReceipts, Invocation, PhaseSteps
  <2> QED
    BY <1>0, <1>6, <1>7, <1>11, <2>1 DEF LoadReceipts
<1>12. CASE StartShard(r)
  <2>1. Ordinal(r) \in Nat
    BY <1>0 DEF Ordinal
  <2>2. [Off EXCEPT !.step = "acquire", !.shard = Ordinal(r)] \in Batch
    BY <1>2, <2>1 DEF Batch, BatchSteps
  <2>3. batch' \in [Runners -> Batch]
    BY <1>0, <1>12, <2>2 DEF StartShard
  <2>4. BatchTypeOK'
    BY <1>0, <1>12, <2>3, BatchTypesKept DEF StartShard, stores, BatchTypeOK
  <2>5. phase' \in [Runners -> Invocation]
    BY <1>1, <1>12 DEF StartShard, PhaseSteps
  <2> QED
    BY <1>0, <1>6, <1>12, <2>4, <2>5 DEF StartShard
<1>13. CASE BatchEnds(r)
  <2>1. BatchTypeOK'
    <3>1. batch' \in [Runners -> Batch]
      BY <1>0, <1>4, <1>13 DEF BatchEnds
    <3> QED
      BY <1>0, <1>13, <3>1, BatchTypesKept DEF BatchEnds, stores, BatchTypeOK
  <2>2. p.shardCalls + 1 \in 0..MaxCallsPerShard /\ p.totalCalls + 1 \in 0..MaxCallsTotal
    BY <1>0, <1>13, PhaseAssumption DEF BatchEnds, PhaseKnows, Invocation, PhaseAssumption
  <2>3. ASSUME NEW step \in PhaseSteps
        PROVE  [phase EXCEPT ![r].step = step, ![r].shardCalls = p.shardCalls + 1,
                             ![r].totalCalls = p.totalCalls + 1] \in [Runners -> Invocation]
    BY <1>0, <2>2 DEF Invocation
  <2>4. phase' \in [Runners -> Invocation]
    <3>1. CASE phase' = [phase EXCEPT ![r].step = "release"]
      BY <1>1, <3>1 DEF PhaseSteps
    <3>2. ASSUME NEW step \in {"release", "shard", "commit"},
                 phase' = [phase EXCEPT ![r].step = step, ![r].shardCalls = @ + 1,
                                        ![r].totalCalls = @ + 1]
          PROVE  phase' \in [Runners -> Invocation]
      <4>1. phase' = [phase EXCEPT ![r].step = step, ![r].shardCalls = p.shardCalls + 1,
                                   ![r].totalCalls = p.totalCalls + 1]
        BY <1>0, <3>2 DEF Invocation
      <4> QED
        BY <2>3, <4>1 DEF PhaseSteps
    <3> QED
      BY <1>13, <3>1, <3>2 DEF BatchEnds
  <2> QED
    BY <1>0, <1>6, <1>13, <2>1, <2>4 DEF BatchEnds
<1>14. CASE CommitReceipt(r)
  <2>1. [phase EXCEPT ![r].step = "write", ![r].found = receipts] \in [Runners -> Invocation]
    BY <1>0 DEF Invocation, PhaseSteps
  <2>2. phase' \in [Runners -> Invocation]
    BY <1>1, <1>14, <2>1 DEF CommitReceipt, PhaseSteps
  <2> QED
    BY <1>0, <1>6, <1>7, <1>14, <2>2 DEF CommitReceipt
<1>15. CASE WriteReceipt(r)
  <2>1. MyReceipt(r) \in Receipt
    BY <1>0, <1>15 DEF WriteReceipt, MyReceipt, Receipt, PhaseKnows, Batch
  <2>2. receipts' \in Seq(Receipt)
    BY <1>0, <1>15, <2>1 DEF WriteReceipt
  <2> QED
    BY <1>0, <1>1, <1>6, <1>7, <1>15, <2>2 DEF WriteReceipt, PhaseSteps
<1>16. CASE Reload(r)
  <2>1. BatchTypeOK'
    BY <1>0, <1>4, <1>16, BatchTypesKept DEF Reload, stores, BatchTypeOK
  <2>2. 0 \in 0..MaxCallsPerShard /\ <<>> \in Seq(Receipt)
    BY PhaseAssumption DEF PhaseAssumption
  <2>3. [phase EXCEPT ![r].step = "shard", ![r].known = receipts, ![r].found = <<>>,
                      ![r].shardCalls = 0] \in [Runners -> Invocation]
    BY <1>0, <2>2 DEF Invocation, PhaseSteps
  <2>4. phase' \in [Runners -> Invocation]
    BY <1>1, <1>16, <2>3 DEF Reload, PhaseSteps
  <2> QED
    BY <1>0, <1>6, <1>16, <2>1, <2>4 DEF Reload
<1>17. CASE Finish(r)
  BY <1>0, <1>1, <1>6, <1>7, <1>17 DEF Finish, PhaseSteps
<1>18. CASE Sign(r)
  BY <1>0, <1>1, <1>6, <1>7, <1>18 DEF Sign, PhaseSteps
<1>19. CASE Release(r)
  <2>1. BatchTypeOK'
    BY <1>0, <1>4, <1>5, <1>19, LeaseTypes, BatchTypesKept DEF Release, stores, BatchTypeOK
  <2> QED
    BY <1>0, <1>3, <1>6, <1>19, <2>1 DEF Release
<1>20. CASE PhaseFault(r)
  <2>1. faults' \in 0..MaxFaults
    BY <1>0, <1>20, BatchAssumption DEF PhaseFault, BatchTypeOK, BatchAssumption
  <2>2. BatchTypeOK'
    BY <1>0, <1>20, <2>1, BatchTypesKept DEF PhaseFault, stores, BatchTypeOK
  <2> QED
    BY <1>0, <1>1, <1>6, <1>20, <2>2 DEF PhaseFault, PhaseSteps
<1>21. CASE Crash(r)
  <2>1. faults' \in 0..MaxFaults /\ lease' \in [Leases -> Runners \cup {None}]
    BY <1>0, <1>21, BatchAssumption DEF Crash, BatchTypeOK, BatchAssumption
  <2>2. BatchTypeOK'
    BY <1>0, <1>4, <1>21, <2>1, BatchTypesKept DEF Crash, stores, BatchTypeOK
  <2> QED
    BY <1>0, <1>3, <1>6, <1>21, <2>2 DEF Crash
<1> QED
  BY <1>8, <1>9, <1>10, <1>11, <1>12, <1>13, <1>14, <1>15, <1>16, <1>17, <1>18, <1>19, <1>20, <1>21
     DEF PhaseStep

(***************************************************************************)
(* The steps of a batch                                                    *)
(***************************************************************************)

\* A batch that lets go of its row, or has none yet.
LEMMA NoRowInHand ==
  ASSUME BatchTypeOK, Grown, NEW r \in Runners, BatchKnows(r), batch[r].step # "off",
         batch'[r].step \in {"load", "close", "done", "failed"},
         batch'[r].shard = batch[r].shard, batch'[r].complete => AllBacked(Shard(r))
  PROVE  BatchKnows(r)'
<1>1. PICK s \in Shards : s = batch[r].shard /\ s = Shard(r)
  BY DEF BatchKnows, Shard
<1>2. AllBacked(s) => AllBacked(s)'
  BY AllBackedStays
<1> QED
  BY <1>1, <1>2 DEF BatchKnows, RowSteps

\* A batch that goes on with its row.
LEMMA RowMoves ==
  ASSUME BatchTypeOK, Grown, NEW r \in Runners, BatchKnows(r),
         batch[r].step \in RowSteps, batch'[r].step \in RowSteps,
         batch'[r].shard = batch[r].shard, batch'[r].scan = batch[r].scan,
         batch'[r].sequence = batch[r].sequence, batch'[r].complete = batch[r].complete,
         batch'[r].step = "acknowledge" =>
           batch'[r].sent # None /\ archive'[Event(r)] = batch'[r].sent,
         batch'[r].step \in {"bind", "read", "write"} => acked'[Event(r)] = Row(r),
         batch'[r].step \in {"read", "write"} =>
           (Rec(Row(r)).binding # None => bound'[Event(r)] = Rec(Row(r)).binding)
  PROVE  BatchKnows(r)'
<1> DEFINE b == batch[r]
<1>1. /\ b.shard \in Shards /\ b.scan \in Nat /\ records' = records /\ b.scan \in Emits(b.shard, 0)
      /\ Shard(r) = b.shard
  BY RowInHand DEF Grown
<1>2. /\ Emits(b.shard, 0)' = Emits(b.shard, 0)
      /\ Emitted(b.shard, b.scan)' = Emitted(b.shard, b.scan)
  BY <1>1, DataStay
<1>3. /\ b.sequence + 1 = Cardinality(Emitted(b.shard, b.scan))
      /\ \A q \in Emitted(b.shard, b.scan) : q # b.scan => Backed(b.shard, q)
  BY DEF BatchKnows
<1>4. \A q \in Emitted(b.shard, b.scan) : Backed(b.shard, q) => Backed(b.shard, q)'
  BY <1>1, BackedStays DEF Emitted
<1>5. Row(r)' = Row(r) /\ Rec(Row(r))' = Rec(Row(r)) /\ Event(r)' = Event(r)
  BY <1>1 DEF Row, Rec, Event, Shard
<1>6. b.complete => AllBacked(b.shard)'
  BY <1>1, AllBackedStays DEF BatchKnows
<1>7. (batch[r].step \in RowSteps =>
        /\ batch[r].scan \in Emits(batch[r].shard, 0)
        /\ batch[r].sequence + 1 = Cardinality(Emitted(batch[r].shard, batch[r].scan))
        /\ \A q \in Emitted(batch[r].shard, batch[r].scan) :
              q # batch[r].scan => Backed(batch[r].shard, q))'
  BY <1>1, <1>2, <1>3, <1>4
<1>8. (batch[r].complete => batch[r].step # "off" /\ AllBacked(batch[r].shard))'
  BY <1>6 DEF RowSteps
<1> QED
  BY <1>1, <1>5, <1>7, <1>8 DEF BatchKnows, RowSteps

\* Once its identity is bound the row is backed, and so are those before it.
LEMMA RowIsBacked ==
  ASSUME BatchTypeOK, StoresAgree, NEW r \in Runners, BatchKnows(r),
         batch[r].step \in {"read", "write"}
  PROVE  /\ Shard(r) \in Shards /\ batch[r].scan \in Nat
         /\ batch[r].sequence + 1 = Cardinality(Emitted(Shard(r), batch[r].scan))
         /\ \A q \in Emitted(Shard(r), batch[r].scan) : Backed(Shard(r), q)
<1>1. batch[r].step \in RowSteps
  BY DEF RowSteps
<1>2. acked[Event(r)] = Row(r) /\ archive[Event(r)] = Row(r)
  BY <1>1, RowInHand DEF BatchKnows, StoresAgree
<1>3. Backed(Shard(r), batch[r].scan)
  BY <1>1, <1>2, RowInHand DEF BatchKnows, Backed, Rec
<1> QED
  BY <1>1, <1>3, RowInHand DEF BatchKnows, Shard

LEMMA RowCounted ==
  ASSUME BatchTypeOK, StoresAgree, Grown, NEW r \in Runners, BatchKnows(r),
         batch[r].step \in {"read", "write"}, Count(r)
  PROVE  BatchKnows(r)'
<1>1. PICK s \in Shards, p \in Nat : s = batch[r].shard /\ p = batch[r].scan
  BY RowIsBacked DEF Shard
<1>2. /\ batch'[r].step = "next" /\ batch'[r].sequence = batch[r].sequence + 1
      /\ batch'[r].shard = s /\ batch'[r].scan = p /\ batch'[r].complete = batch[r].complete
  BY <1>1 DEF Count, BatchTypeOK, Batch
<1>3. batch[r].sequence + 1 = Cardinality(Emitted(s, p)) /\ \A q \in Emitted(s, p) : Backed(s, q)
  BY <1>1, RowIsBacked DEF Shard
<1>4. Emitted(s, p)' = Emitted(s, p)
  BY DataStay DEF Grown
<1>5. \A q \in Emitted(s, p) : Backed(s, q)'
  BY <1>3, BackedStays DEF Emitted
<1>6. batch[r].complete => AllBacked(s)'
  BY <1>1, AllBackedStays DEF BatchKnows
<1> QED
  BY <1>2, <1>3, <1>4, <1>5, <1>6 DEF BatchKnows, RowSteps

\* The stores stay as they are.
LEMMA StoresStay ==
  ASSUME StoresAgree, UNCHANGED <<archive, acked, queued, bound, records>>
  PROVE  Grown /\ StoresAgree'
<1>1. Events' = Events
  BY DataStay
<1> QED
  BY <1>1 DEF Grown, StoresAgree

LEMMA FailedKnows ==
  ASSUME BatchTypeOK, Grown, NEW r \in Runners, BatchKnows(r), batch[r].step # "off", BatchFails(r)
  PROVE  BatchKnows(r)'
<1>1. batch'[r].step = "close" /\ batch'[r].shard = batch[r].shard /\ batch'[r].complete = batch[r].complete
  BY DEF BatchFails, BatchTypeOK, Batch
<1> QED
  BY <1>1, NoRowInHand DEF BatchKnows, Shard

\* The process record after a step that only goes on.
LEMMA GoesOn ==
  ASSUME BatchTypeOK, NEW r \in Runners, NEW step, BatchGoto(r, step)
  PROVE  /\ batch'[r].step = step /\ batch'[r].shard = batch[r].shard
         /\ batch'[r].scan = batch[r].scan /\ batch'[r].sequence = batch[r].sequence
         /\ batch'[r].complete = batch[r].complete /\ batch'[r].sent = batch[r].sent
BY DEF BatchGoto, BatchTypeOK, Batch

LEMMA AcquireKnows ==
  ASSUME BatchTypeOK, StoresAgree, NEW r \in Runners, BatchKnows(r), BatchAcquire(r)
  PROVE  Grown /\ StoresAgree' /\ BatchKnows(r)'
<1>1. Grown /\ StoresAgree' /\ batch[r].step = "acquire"
  BY StoresStay DEF BatchAcquire, stores, BatchAt
<1>2. CASE BatchFails(r)
  BY <1>1, <1>2, FailedKnows
<1>3. CASE BatchGoto(r, "load")
  BY <1>1, <1>3, GoesOn, NoRowInHand DEF BatchKnows, Shard
<1> QED
  BY <1>1, <1>2, <1>3 DEF BatchAcquire

LEMMA LoadKnows ==
  ASSUME BatchTypeOK, StoresAgree, ProgressIsBacked, NEW r \in Runners, BatchKnows(r), Load(r)
  PROVE  Grown /\ StoresAgree' /\ BatchKnows(r)'
<1>1. Grown /\ StoresAgree' /\ batch[r].step = "load" /\ records \in Transcripts
  BY StoresStay DEF Load, stores, BatchAt, BatchTypeOK
<1>2. PICK s \in Shards : s = batch[r].shard /\ s = Shard(r)
  BY <1>1 DEF BatchKnows, Shard
<1>3. PICK p \in Checkpoint : p = progress[s]
  BY DEF BatchTypeOK
<1>4. PICK from \in Nat : from = IF p.sequence = 0 THEN 0 ELSE p.at
  BY DEF Checkpoint
<1>5. /\ batch'[r].step = "next" /\ batch'[r].shard = s /\ batch'[r].sequence = p.sequence
      /\ batch'[r].scan = from /\ batch'[r].complete = batch[r].complete
  BY <1>2, <1>3, <1>4 DEF Load, BatchTypeOK, Batch
<1>6. p.sequence = Cardinality(Emitted(s, from)) /\ \A q \in Emitted(s, from) : Backed(s, q)
  <2>1. CASE p.sequence = 0
    BY <1>1, <1>4, <2>1, NothingEmittedYet
  <2>2. CASE p.sequence # 0
    BY <1>3, <1>4, <2>2, ProgressByRow
  <2> QED
    BY <2>1, <2>2
<1>7. Emitted(s, from)' = Emitted(s, from)
  BY <1>1, DataStay DEF Grown
<1>8. \A q \in Emitted(s, from) : Backed(s, q)'
  BY <1>1, <1>6, BackedStays DEF Emitted
<1>9. batch[r].complete => AllBacked(s)'
  BY <1>1, <1>2, AllBackedStays DEF BatchKnows
<1> QED
  BY <1>1, <1>5, <1>6, <1>7, <1>8, <1>9 DEF BatchKnows, RowSteps

LEMMA NextKnows ==
  ASSUME BatchTypeOK, StoresAgree, NEW r \in Runners, BatchKnows(r), NextRow(r)
  PROVE  Grown /\ StoresAgree' /\ BatchKnows(r)'
<1>1. Grown /\ StoresAgree' /\ batch[r].step = "next" /\ records \in Transcripts
  BY StoresStay DEF NextRow, stores, BatchAt, BatchTypeOK
<1>2. PICK s \in Shards, p \in Nat : s = batch[r].shard /\ p = batch[r].scan /\ s = Shard(r)
  BY <1>1 DEF BatchKnows, Shard, BatchTypeOK, Batch
<1> DEFINE rows == Ahead(r, batch[r].scan)
<1>3. rows = {q \in Emits(s, 0) : q > p} /\ rows \in SUBSET Nat
  BY <1>1, <1>2, EmitsFromStart DEF Ahead
<1>4. /\ batch[r].sequence = Cardinality(Emitted(s, p))
      /\ \A q \in Emitted(s, p) : Backed(s, q) /\ Backed(s, q)'
  <2>1. /\ batch[r].sequence = Cardinality(Emitted(s, p))
        /\ \A q \in Emitted(s, p) : Backed(s, q)
    BY <1>1, <1>2 DEF BatchKnows
  <2> QED
    BY <1>1, <2>1, BackedStays DEF Emitted
<1>5. CASE BatchFails(r)
  BY <1>1, <1>5, FailedKnows
<1>6. CASE batch' = [batch EXCEPT ![r].step = "close", ![r].complete = (rows = {})]
  <2>1. batch'[r].step = "close" /\ batch'[r].shard = s /\ batch'[r].complete = (rows = {})
    BY <1>2, <1>6 DEF BatchTypeOK, Batch
  <2>2. rows = {} => AllBacked(s)
    <3> SUFFICES ASSUME rows = {}, NEW q \in Emits(s, 0) PROVE q \in Emitted(s, p)
      BY <1>4 DEF AllBacked
    <3>1. q \in Nat /\ ~(q > p)
      BY <1>1, <1>3, EmitsFromStart
    <3> QED
      BY <3>1 DEF Emitted
  <2> QED
    BY <1>1, <1>2, <2>1, <2>2, NoRowInHand
<1>7. CASE rows # {} /\ batch' = [batch EXCEPT ![r].step = "enqueue", ![r].scan = Nearest(rows)]
  <2>1. Nearest(rows) \in rows /\ \A q \in rows : Nearest(rows) <= q
    <3>1. \E q \in rows : \A y \in rows : q <= y
      BY <1>3, <1>7, LeastExists
    <3> QED
      BY <3>1 DEF Nearest
  <2>2. PICK to \in Nat : to = Nearest(rows) /\ to \in Emits(s, 0) /\ p < to
                          /\ \A q \in Emits(s, 0) : q > p => to <= q
    BY <1>3, <2>1
  <2>3. /\ batch'[r].step = "enqueue" /\ batch'[r].shard = s /\ batch'[r].scan = to
        /\ batch'[r].sequence = batch[r].sequence /\ batch'[r].complete = batch[r].complete
    BY <1>2, <1>7, <2>2 DEF BatchTypeOK, Batch
  <2>4. /\ Emitted(s, to) = Emitted(s, p) \cup {to}
        /\ Cardinality(Emitted(s, to)) = Cardinality(Emitted(s, p)) + 1
    BY <1>1, <2>2, NextRowCounts
  <2>5. Emits(s, 0)' = Emits(s, 0) /\ Emitted(s, to)' = Emitted(s, to)
    BY <1>1, DataStay DEF Grown
  <2>6. batch[r].complete => AllBacked(s)'
    BY <1>1, <1>2, AllBackedStays DEF BatchKnows
  <2> QED
    BY <1>1, <1>4, <2>2, <2>3, <2>4, <2>5, <2>6 DEF BatchKnows, RowSteps
<1> QED
  BY <1>1, <1>5, <1>6, <1>7 DEF NextRow

LEMMA EnqueueKnows ==
  ASSUME BatchTypeOK, StoresAgree, NEW r \in Runners, BatchKnows(r), Enqueue(r)
  PROVE  Grown /\ StoresAgree' /\ BatchKnows(r)'
<1>1. batch[r].step \in RowSteps /\ Event(r) \in Events
  BY RowInHand DEF Enqueue, BatchAt, RowSteps
<1>2. Grown
  BY DEF Enqueue, Grown
<1>3. StoresAgree'
  <2>1. Events' = Events
    BY DataStay DEF Enqueue
  <2>2. acked' = acked /\ archive' = archive
    BY DEF Enqueue
  <2>3. \/ queued' = queued
        \/ /\ acked[Event(r)] = None
           /\ queued' = [queued EXCEPT ![Event(r)] = Row(r)]
    BY DEF Enqueue
  <2> QED
    BY <1>1, <2>1, <2>2, <2>3 DEF StoresAgree, BatchTypeOK
<1>4. CASE BatchFails(r)
  BY <1>1, <1>2, <1>3, <1>4, FailedKnows DEF RowSteps
<1>5. CASE BatchGoto(r, "deliver")
  BY <1>1, <1>2, <1>3, <1>5, GoesOn, RowMoves DEF RowSteps
<1> QED
  BY <1>2, <1>3, <1>4, <1>5 DEF Enqueue

LEMMA DeliverKnows ==
  ASSUME BatchTypeOK, StoresAgree, NEW r \in Runners, BatchKnows(r), Deliver(r)
  PROVE  Grown /\ StoresAgree' /\ BatchKnows(r)'
<1> DEFINE e == Event(r)
<1>1. batch[r].step \in RowSteps /\ e \in Events
  BY RowInHand DEF Deliver, BatchAt, RowSteps
<1>2. \/ archive' = archive
      \/ acked[e] = None /\ archive[e] \in {None, queued[e]} /\ archive' = [archive EXCEPT ![e] = queued[e]]
  BY DEF Deliver
<1>3. UNCHANGED <<queued, acked, bound, records>>
  BY DEF Deliver
<1>4. Grown
  BY <1>1, <1>2, <1>3 DEF Grown, BatchTypeOK
<1>5. StoresAgree'
  <2>1. Events' = Events
    BY <1>3, DataStay
  <2> QED
    BY <1>1, <1>2, <1>3, <2>1 DEF StoresAgree, BatchTypeOK
<1>6. CASE BatchFails(r)
  BY <1>1, <1>4, <1>5, <1>6, FailedKnows DEF RowSteps
<1>7. CASE acked[e] = Row(r) /\ BatchGoto(r, "bind")
  BY <1>1, <1>3, <1>4, <1>5, <1>7, GoesOn, RowMoves DEF RowSteps
<1>8. CASE /\ queued[e] # None /\ archive' = [archive EXCEPT ![e] = queued[e]]
           /\ batch' = [batch EXCEPT ![r].step = "acknowledge", ![r].sent = queued[e]]
  <2>1. /\ batch'[r].step = "acknowledge" /\ batch'[r].shard = batch[r].shard
        /\ batch'[r].scan = batch[r].scan /\ batch'[r].sequence = batch[r].sequence
        /\ batch'[r].complete = batch[r].complete /\ batch'[r].sent = queued[e]
    BY <1>8 DEF BatchTypeOK, Batch
  <2>2. archive'[e] = queued[e]
    BY <1>1, <1>8 DEF BatchTypeOK
  <2> QED
    BY <1>1, <1>4, <1>5, <1>8, <2>1, <2>2, RowMoves DEF RowSteps
<1> QED
  BY <1>4, <1>5, <1>6, <1>7, <1>8 DEF Deliver, AcknowledgedAs

LEMMA AcknowledgeKnows ==
  ASSUME BatchTypeOK, StoresAgree, NEW r \in Runners, BatchKnows(r), Acknowledge(r)
  PROVE  Grown /\ StoresAgree' /\ BatchKnows(r)'
<1> DEFINE e == Event(r)
           sent == batch[r].sent
<1>1. batch[r].step \in RowSteps /\ e \in Events /\ sent # None /\ archive[e] = sent
  BY RowInHand DEF Acknowledge, BatchAt, RowSteps, BatchKnows
<1>2. UNCHANGED <<archive, bound, records>>
  BY DEF Acknowledge
<1>3. \/ UNCHANGED <<acked, queued>>
      \/ /\ queued[e] = sent /\ acked' = [acked EXCEPT ![e] = sent]
         /\ queued' = [queued EXCEPT ![e] = None]
  BY DEF Acknowledge
<1>4. Grown
  BY <1>1, <1>2, <1>3 DEF Grown, StoresAgree, BatchTypeOK
<1>5. StoresAgree'
  <2>1. Events' = Events
    BY <1>2, DataStay
  <2> QED
    BY <1>1, <1>2, <1>3, <2>1 DEF StoresAgree, BatchTypeOK
<1>6. CASE BatchFails(r)
  BY <1>1, <1>4, <1>5, <1>6, FailedKnows DEF RowSteps
<1>7. CASE sent = Row(r) /\ acked' = [acked EXCEPT ![e] = sent] /\ BatchGoto(r, "bind")
  <2>1. acked'[e] = Row(r)
    BY <1>1, <1>7 DEF BatchTypeOK
  <2> QED
    BY <1>1, <1>4, <1>5, <1>7, <2>1, GoesOn, RowMoves DEF RowSteps
<1> QED
  BY <1>4, <1>5, <1>6, <1>7 DEF Acknowledge, AcknowledgedAs

LEMMA BindKnows ==
  ASSUME BatchTypeOK, StoresAgree, NEW r \in Runners, BatchKnows(r), Bind(r)
  PROVE  Grown /\ StoresAgree' /\ BatchKnows(r)'
<1> DEFINE e == Event(r)
           id == Rec(Row(r)).binding
<1>1. batch[r].step \in RowSteps /\ e \in Events /\ acked[e] = Row(r)
  BY RowInHand DEF Bind, BatchAt, RowSteps, BatchKnows
<1>2. UNCHANGED <<archive, queued, acked, records>>
  BY DEF Bind
<1>3. bound' = bound \/ (bound[e] \in {None, id} /\ bound' = [bound EXCEPT ![e] = id])
  BY DEF Bind
<1>4. Grown
  BY <1>1, <1>2, <1>3 DEF Grown, BatchTypeOK
<1>5. StoresAgree'
  <2>1. Events' = Events
    BY <1>2, DataStay
  <2> QED
    BY <1>2, <2>1 DEF StoresAgree
<1>6. CASE BatchFails(r)
  BY <1>1, <1>4, <1>5, <1>6, FailedKnows DEF RowSteps
<1>7. CASE BatchGoto(r, "read") /\ bound' = IF id = None THEN bound ELSE [bound EXCEPT ![e] = id]
  <2>1. id # None => bound'[e] = id
    BY <1>1, <1>7 DEF BatchTypeOK
  <2> QED
    BY <1>1, <1>2, <1>4, <1>5, <1>7, <2>1, GoesOn, RowMoves DEF RowSteps
<1> QED
  BY <1>4, <1>5, <1>6, <1>7 DEF Bind

LEMMA ReadKnows ==
  ASSUME BatchTypeOK, StoresAgree, NEW r \in Runners, BatchKnows(r), CommitReads(r)
  PROVE  Grown /\ StoresAgree' /\ BatchKnows(r)'
<1>1. Grown /\ StoresAgree' /\ batch[r].step = "read" /\ UNCHANGED <<acked, bound>>
  BY StoresStay DEF CommitReads, stores, BatchAt
<1>2. CASE Count(r)
  BY <1>1, <1>2, RowCounted
<1>3. CASE BatchGoto(r, "write")
  BY <1>1, <1>3, GoesOn, RowMoves DEF RowSteps, BatchKnows
<1>4. CASE BatchFails(r)
  BY <1>1, <1>4, FailedKnows
<1> QED
  BY <1>1, <1>2, <1>3, <1>4 DEF CommitReads

LEMMA WriteKnows ==
  ASSUME BatchTypeOK, StoresAgree, ProgressIsBacked, NEW r \in Runners, BatchKnows(r), CommitWrites(r)
  PROVE  Grown /\ StoresAgree' /\ BatchKnows(r)' /\ ProgressIsBacked'
<1>1. Grown /\ StoresAgree' /\ batch[r].step = "write"
  BY StoresStay DEF CommitWrites, BatchAt
<1>2. BatchKnows(r)'
  BY <1>1, RowCounted DEF CommitWrites
<1>3. ASSUME NEW s \in Shards
      PROVE  (/\ progress[s].sequence = Cardinality(Emitted(s, progress[s].at))
              /\ \A q \in Emitted(s, progress[s].at) : Backed(s, q))'
  <2>1. PICK at \in Nat : /\ progress'[s].at = at
                         /\ progress'[s].sequence = Cardinality(Emitted(s, at))
                         /\ \A q \in Emitted(s, at) : Backed(s, q)
    <3>1. CASE s = Shard(r)
      <4>1. progress'[s] = [sequence |-> batch[r].sequence + 1, at |-> batch[r].scan]
        BY <3>1 DEF CommitWrites, Reached, BatchTypeOK
      <4> QED
        BY <1>1, <3>1, <4>1, RowIsBacked
    <3>2. CASE s # Shard(r)
      <4>1. progress'[s] = progress[s] /\ progress[s].at \in Nat
        BY <3>2 DEF CommitWrites, BatchTypeOK, Checkpoint
      <4> QED
        BY <4>1, ProgressByRow
    <3> QED
      BY <3>1, <3>2
  <2>2. Emitted(s, at)' = Emitted(s, at)
    BY <1>1, DataStay DEF Grown
  <2>3. \A q \in Emitted(s, at) : Backed(s, q)'
    BY <1>1, <2>1, BackedStays DEF Emitted
  <2> QED
    BY <2>1, <2>2, <2>3
<1>4. ProgressIsBacked' <=> \A s \in Shards :
         (/\ progress[s].sequence = Cardinality(Emitted(s, progress[s].at))
          /\ \A q \in Emitted(s, progress[s].at) : Backed(s, q))'
  BY DEF ProgressIsBacked, Emitted, Backed
<1> QED
  BY <1>1, <1>2, <1>3, <1>4

LEMMA CloseKnows ==
  ASSUME BatchTypeOK, StoresAgree, NEW r \in Runners, BatchKnows(r), Close(r)
  PROVE  Grown /\ StoresAgree' /\ BatchKnows(r)'
<1>1. Grown /\ StoresAgree' /\ batch[r].step = "close"
  BY StoresStay DEF Close, stores, BatchAt
<1>2. BatchGoto(r, IF batch[r].ok THEN "done" ELSE "failed")
  BY DEF Close
<1>3. batch'[r].step \in {"done", "failed"} /\ batch'[r].shard = batch[r].shard
      /\ batch'[r].complete = batch[r].complete
  BY <1>2, GoesOn
<1> QED
  BY <1>1, <1>3, NoRowInHand DEF BatchKnows, Shard

LEMMA FaultKnows ==
  ASSUME BatchTypeOK, StoresAgree, NEW r \in Runners, BatchKnows(r), BatchFault(r)
  PROVE  Grown /\ StoresAgree' /\ BatchKnows(r)'
<1>1. Grown /\ StoresAgree' /\ batch[r].step # "off" /\ BatchFails(r)
  BY StoresStay DEF BatchFault, stores
<1> QED
  BY <1>1, FailedKnows

\* One step of a batch, or a failing one.
LEMMA BatchStepKnows ==
  ASSUME BatchTypeOK, StoresAgree, ProgressIsBacked, NEW r \in Runners, BatchKnows(r),
         BatchStep(r) \/ BatchFault(r)
  PROVE  Grown /\ StoresAgree' /\ BatchKnows(r)' /\ ProgressIsBacked'
<1>1. CASE CommitWrites(r)
  BY <1>1, WriteKnows
<1>2. CASE ~CommitWrites(r)
  <2>1. progress' = progress
    BY <1>2 DEF BatchStep, BatchFault, BatchAcquire, Load, NextRow, Enqueue, Deliver, Acknowledge,
                Bind, CommitReads, Close, stores
  <2>2. Grown /\ StoresAgree' /\ BatchKnows(r)'
    BY <1>2, AcquireKnows, LoadKnows, NextKnows, EnqueueKnows, DeliverKnows, AcknowledgeKnows,
       BindKnows, ReadKnows, CloseKnows, FaultKnows DEF BatchStep
  <2> QED
    BY <2>1, <2>2, ProgressStays
<1> QED
  BY <1>1, <1>2

\* It moves one process and keeps its interval.
LEMMA BatchStepMoves ==
  ASSUME BatchTypeOK, NEW r \in Runners, BatchStep(r) \/ BatchFault(r)
  PROVE  /\ batch'[r].step # "off" /\ batch'[r].shard = batch[r].shard
         /\ \A x \in Runners \ {r} : batch'[x] = batch[x]
<1> USE DEF BatchTypeOK, Batch, BatchGoto, BatchFails, BatchAt
<1>1. CASE BatchAcquire(r)
  BY <1>1 DEF BatchAcquire
<1>2. CASE Load(r)
  BY <1>2 DEF Load
<1>3. CASE NextRow(r)
  BY <1>3 DEF NextRow
<1>4. CASE Enqueue(r)
  BY <1>4 DEF Enqueue
<1>5. CASE Deliver(r)
  BY <1>5 DEF Deliver, AcknowledgedAs
<1>6. CASE Acknowledge(r)
  BY <1>6 DEF Acknowledge, AcknowledgedAs
<1>7. CASE Bind(r)
  BY <1>7 DEF Bind
<1>8. CASE CommitReads(r)
  BY <1>8 DEF CommitReads, Count
<1>9. CASE CommitWrites(r)
  BY <1>9 DEF CommitWrites, Count
<1>10. CASE Close(r)
  BY <1>10 DEF Close
<1>11. CASE BatchFault(r)
  BY <1>11 DEF BatchFault
<1> QED
  BY <1>1, <1>2, <1>3, <1>4, <1>5, <1>6, <1>7, <1>8, <1>9, <1>10, <1>11 DEF BatchStep

\* The phase is told nothing new by a step of one of its batches.
LEMMA InBatchKeeps ==
  ASSUME PhaseInv, NEW r \in Runners, BatchStep(r) \/ BatchFault(r), InBatch(r)
  PROVE  PhaseInv'
<1>1. BatchTypeOK /\ BatchKnows(r) /\ UNCHANGED <<receipts, phase, completions>> /\ At(r, "batch")
  BY DEF PhaseInv, PhaseTypeOK, InBatch
<1>2. Grown /\ StoresAgree' /\ BatchKnows(r)' /\ ProgressIsBacked'
  BY <1>1, BatchStepKnows DEF PhaseInv
<1>3. PhaseTypeOK'
  BY <1>1, <1>2, BatchStepTypes DEF PhaseInv, PhaseTypeOK, Grown
<1>4. \A x \in Runners \ {r} : batch'[x] = batch[x]
  BY <1>1, BatchStepMoves
<1>5. batch'[r].step # "off" /\ batch'[r].shard = batch[r].shard
  BY <1>1, BatchStepMoves
<1>6. ReceiptsKnown'
  BY <1>1, <1>2, ReceiptsStay DEF PhaseInv
<1>7. ASSUME NEW x \in Runners PROVE BatchKnows(x)'
  BY <1>1, <1>2, <1>4, BatchStays DEF PhaseInv
<1>8. ASSUME NEW x \in Runners PROVE PhaseKnows(x)'
  <2>1. phase'[x] = phase[x] /\ PhaseKnows(x)
    BY <1>1 DEF PhaseInv
  <2>2. CASE x = r
    BY <1>1, <1>2, <1>5, <2>1, <2>2, PhaseStays DEF PhaseInv
  <2>3. CASE x # r
    <3>1. batch'[x] = batch[x]
      BY <1>4, <2>3
    <3>2. At(x, "batch") => batch[x].step # "off"
      BY <2>1 DEF At, PhaseKnows
    <3> QED
      BY <1>2, <2>1, <3>1, <3>2, PhaseStays DEF PhaseInv
  <2> QED
    BY <2>2, <2>3
<1> QED
  BY <1>2, <1>3, <1>6, <1>7, <1>8 DEF PhaseInv

(***************************************************************************)
(* The steps of the phase                                                  *)
(***************************************************************************)

\* What no step of the phase touches.
LEMMA PhaseLeavesStores ==
  ASSUME NEW r \in Runners, Invoke(r) \/ PhaseStep(r) \/ PhaseFault(r) \/ Crash(r)
  PROVE  UNCHANGED stores /\ records' = records
BY DEF Invoke, PhaseStep, PhaseFault, Crash, AcquirePhase, OpenStore, LoadReceipts, StartShard,
       BatchEnds, CommitReceipt, WriteReceipt, Reload, Finish, Sign, Release, bvars, StoresUnchanged

\* A process without a batch knows nothing.
LEMMA OffKnows ==
  ASSUME BatchTypeOK, NEW r \in Runners, batch' = [batch EXCEPT ![r] = Off]
  PROVE  BatchKnows(r)'
<1>1. batch'[r] = Off
  BY DEF BatchTypeOK
<1> QED
  BY <1>1 DEF BatchKnows, Off, RowSteps

\* While receipts are missing the next interval is one of the plan.
LEMMA OrdinalIsNext ==
  ASSUME NEW r \in Runners, phase[r] \in Invocation, PhaseKnows(r), ~AllReceipts(phase[r].known)
  PROVE  Ordinal(r) \in Shards
<1>1. Cardinality(Shards) \in Nat /\ Shards = 1..Cardinality(Shards)
  BY BatchAssumption, FS_CardinalityType DEF BatchAssumption
<1>2. phase[r].known \in Seq(Receipt) /\ Len(phase[r].known) \in Nat
  BY DEF Invocation
<1>3. Len(phase[r].known) <= Cardinality(Shards) /\ Len(phase[r].known) # Cardinality(Shards)
  BY DEF PhaseKnows, AllReceipts
<1>4. Ordinal(r) \in 1..Cardinality(Shards)
  BY <1>1, <1>2, <1>3 DEF Ordinal
<1> QED
  BY <1>1, <1>4

\* What the batch of the process knows after a step of its phase.
LEMMA PhaseStepBatch ==
  ASSUME PhaseInv, Grown, NEW r \in Runners, Invoke(r) \/ PhaseStep(r) \/ PhaseFault(r) \/ Crash(r)
  PROVE  /\ BatchKnows(r)'
         /\ \A x \in Runners \ {r} : batch'[x] = batch[x] /\ phase'[x] = phase[x]
<1>1. BatchTypeOK /\ BatchKnows(r) /\ PhaseKnows(r) /\ phase[r] \in Invocation
  BY DEF PhaseInv, PhaseTypeOK
<1>2. \/ batch' = batch
      \/ batch' = [batch EXCEPT ![r] = Off]
      \/ /\ StartShard(r)
         /\ batch' = [batch EXCEPT ![r] = [Off EXCEPT !.step = "acquire", !.shard = Ordinal(r)]]
  BY DEF Invoke, PhaseStep, PhaseFault, Crash, AcquirePhase, OpenStore, LoadReceipts, StartShard,
         BatchEnds, CommitReceipt, WriteReceipt, Reload, Finish, Sign, Release, bvars
<1>3. ASSUME NEW x \in Runners \ {r} PROVE batch'[x] = batch[x]
  BY <1>1, <1>2 DEF BatchTypeOK
<1>4. ASSUME NEW x \in Runners \ {r} PROVE phase'[x] = phase[x]
  BY DEF PhaseInv, PhaseTypeOK, Goto, Fails, Invoke, PhaseStep, PhaseFault, Crash, AcquirePhase,
         OpenStore, LoadReceipts, StartShard, BatchEnds, CommitReceipt, WriteReceipt, Reload, Finish,
         Sign, Release
<1>5. BatchKnows(r)'
  <2>1. CASE batch' = batch
    BY <1>1, <2>1, BatchStays
  <2>2. CASE batch' = [batch EXCEPT ![r] = Off]
    BY <1>1, <2>2, OffKnows
  <2>3. CASE /\ StartShard(r)
             /\ batch' = [batch EXCEPT ![r] = [Off EXCEPT !.step = "acquire", !.shard = Ordinal(r)]]
    <3>1. batch'[r].step = "acquire" /\ batch'[r].shard = Ordinal(r) /\ batch'[r].complete = FALSE
      BY <1>1, <2>3 DEF BatchTypeOK, Off
    <3>2. Ordinal(r) \in Shards
      BY <1>1, <2>3, OrdinalIsNext DEF StartShard
    <3> QED
      BY <3>1, <3>2 DEF BatchKnows, RowSteps
  <2> QED
    BY <1>2, <2>1, <2>2, <2>3
<1> QED
  BY <1>3, <1>4, <1>5

\* A step of the phase that reads and writes no receipts.
LEMMA KnownStays ==
  ASSUME PhaseTypeOK, Grown, NEW r \in Runners, PhaseKnows(r),
         phase'[r].known = phase[r].known,
         phase'[r].step \in {"acquire", "open", "load", "shard", "release"}
  PROVE  PhaseKnows(r)'
<1>1. \A s \in Shards : AllBacked(s) => AllBacked(s)'
  BY AllBackedStays DEF PhaseTypeOK
<1> QED
  BY <1>1 DEF PhaseKnows

\* What the invocation knows after each of its steps, and what the receipts say.
LEMMA PhaseStepKnows ==
  ASSUME PhaseInv, Grown, NEW r \in Runners, Invoke(r) \/ PhaseStep(r) \/ PhaseFault(r) \/ Crash(r)
  PROVE  PhaseKnows(r)' /\ ReceiptsKnown'
<1> DEFINE p == phase[r]
<1> USE DEF Goto, Fails, At
<1>0. /\ PhaseTypeOK /\ BatchTypeOK /\ BatchKnows(r) /\ PhaseKnows(r) /\ ReceiptsKnown
      /\ p \in Invocation /\ p.known \in Seq(Receipt) /\ p.found \in Seq(Receipt)
      /\ receipts \in Seq(Receipt) /\ phase \in [Runners -> Invocation]
      /\ batch \in [Runners -> Batch]
  BY DEF PhaseInv, PhaseTypeOK, BatchTypeOK, Invocation
<1>1. ASSUME receipts' = receipts, completions' = completions PROVE ReceiptsKnown'
  BY <1>0, <1>1, ReceiptsStay
<1>2. \A s \in Shards : AllBacked(s) => AllBacked(s)'
  BY <1>0, AllBackedStays
<1>3. ASSUME receipts' = receipts, completions' = completions, phase'[r].known = p.known,
             phase'[r].step \in {"acquire", "open", "load", "shard", "release"}
      PROVE  PhaseKnows(r)' /\ ReceiptsKnown'
  BY <1>0, <1>1, <1>3, KnownStays
<1>4. ASSUME NEW step, phase' = [phase EXCEPT ![r].step = step]
      PROVE  /\ phase'[r].step = step /\ phase'[r].known = p.known /\ phase'[r].found = p.found
             /\ phase'[r].shardCalls = p.shardCalls /\ phase'[r].totalCalls = p.totalCalls
  BY <1>0, <1>4 DEF Invocation
<1>5. ASSUME phase' = [phase EXCEPT ![r] = Idle], receipts' = receipts, completions' = completions
      PROVE  PhaseKnows(r)' /\ ReceiptsKnown'
  <2>1. phase'[r] = Idle /\ Len(<<>>) = 0
    BY <1>0, <1>5
  <2>2. \A s \in Shards : ~(s <= 0)
    BY BatchAssumption, FS_CardinalityType DEF BatchAssumption
  <2>3. Cardinality(Shards) \in Nat
    BY BatchAssumption, FS_CardinalityType DEF BatchAssumption
  <2> QED
    BY <1>1, <1>5, <2>1, <2>2, <2>3 DEF PhaseKnows, Idle
<1>6. CASE Invoke(r) \/ AcquirePhase(r) \/ OpenStore(r) \/ PhaseFault(r)
  <2>1. PICK step \in {"acquire", "open", "load", "release"} : phase' = [phase EXCEPT ![r].step = step]
    BY <1>6 DEF Invoke, AcquirePhase, OpenStore, PhaseFault
  <2>2. receipts' = receipts /\ completions' = completions
    BY <1>6 DEF Invoke, AcquirePhase, OpenStore, PhaseFault
  <2> QED
    BY <1>3, <1>4, <2>1, <2>2
<1>7. CASE Release(r) \/ Crash(r)
  BY <1>5, <1>7 DEF Release, Crash
<1>8. CASE LoadReceipts(r)
  <2>1. phase'[r].step = "shard" /\ phase'[r].known = receipts
    BY <1>0, <1>8 DEF LoadReceipts, Invocation
  <2>2. receipts' = receipts /\ completions' = completions
    BY <1>8 DEF LoadReceipts
  <2> QED
    BY <1>0, <1>1, <1>2, <2>1, <2>2 DEF PhaseKnows, ReceiptsKnown
<1>9. CASE StartShard(r)
  <2>1. receipts' = receipts /\ completions' = completions
    BY <1>9 DEF StartShard
  <2>2. CASE phase' = [phase EXCEPT ![r].step = "release"]
    BY <1>3, <1>4, <2>1, <2>2
  <2>3. CASE /\ p.shardCalls < MaxCallsPerShard /\ p.totalCalls < MaxCallsTotal
             /\ phase' = [phase EXCEPT ![r].step = "batch"]
             /\ batch' = [batch EXCEPT ![r] = [Off EXCEPT !.step = "acquire", !.shard = Ordinal(r)]]
    <3>1. batch'[r].step = "acquire" /\ batch'[r].shard = Ordinal(r)
      BY <1>0, <2>3 DEF Off
    <3>2. Ordinal(r) \in Shards
      BY <1>0, <1>9, OrdinalIsNext DEF StartShard
    <3>3. Ordinal(r)' = Ordinal(r)
      BY <1>4, <2>3 DEF Ordinal
    <3>4. PhaseKnows(r)'
      BY <1>0, <1>2, <1>4, <2>3, <3>1, <3>2, <3>3 DEF PhaseKnows
    <3> QED
      BY <1>1, <2>1, <3>4
  <2> QED
    BY <1>9, <2>2, <2>3 DEF StartShard
<1>10. CASE BatchEnds(r)
  <2>1. receipts' = receipts /\ completions' = completions
    BY <1>10 DEF BatchEnds
  <2>2. CASE phase' = [phase EXCEPT ![r].step = "release"]
    BY <1>3, <1>4, <2>1, <2>2
  <2>3. ASSUME NEW step \in PhaseSteps,
               phase' = [phase EXCEPT ![r].step = step, ![r].shardCalls = @ + 1, ![r].totalCalls = @ + 1]
        PROVE  phase'[r].step = step /\ phase'[r].known = p.known
    BY <1>0, <2>3 DEF Invocation
  <2>4. CASE \E step \in {"release", "shard"} :
               phase' = [phase EXCEPT ![r].step = step, ![r].shardCalls = @ + 1, ![r].totalCalls = @ + 1]
    BY <1>3, <2>1, <2>3, <2>4 DEF PhaseSteps
  <2>5. CASE /\ BatchAt(r, "done") /\ batch[r].complete /\ batch' = batch /\ At(r, "batch")
             /\ phase' = [phase EXCEPT ![r].step = "commit",
                                       ![r].shardCalls = @ + 1, ![r].totalCalls = @ + 1]
    <3>1. phase'[r].step = "commit" /\ phase'[r].known = p.known
      BY <2>3, <2>5 DEF PhaseSteps
    <3>2. Ordinal(r)' = Ordinal(r)
      BY <3>1 DEF Ordinal
    <3>3. batch[r].step # "off" /\ batch[r].shard = Ordinal(r) /\ Ordinal(r) \in Shards
      BY <1>0, <2>5 DEF PhaseKnows
    <3>4. PhaseKnows(r)'
      BY <1>0, <1>2, <2>5, <3>1, <3>2, <3>3 DEF PhaseKnows
    <3> QED
      BY <1>1, <2>1, <3>4
  <2> QED
    BY <1>10, <2>2, <2>4, <2>5 DEF BatchEnds
<1>11. CASE CommitReceipt(r)
  <2>1. receipts' = receipts /\ completions' = completions /\ batch' = batch /\ p.step = "commit"
    BY <1>11 DEF CommitReceipt, bvars
  <2>2. CASE phase' = [phase EXCEPT ![r].step = "release"]
    BY <1>3, <1>4, <2>1, <2>2
  <2>3. CASE phase' = [phase EXCEPT ![r].step = "reload"]
    <3>1. Ordinal(r)' = Ordinal(r)
      BY <1>4, <2>3 DEF Ordinal
    <3> QED
      BY <1>0, <1>1, <1>2, <1>4, <2>1, <2>3, <3>1 DEF PhaseKnows
  <2>4. CASE /\ Ordinal(r) = Len(receipts) + 1
             /\ phase' = [phase EXCEPT ![r].step = "write", ![r].found = receipts]
    <3>1. phase'[r].step = "write" /\ phase'[r].known = p.known /\ phase'[r].found = receipts
      BY <1>0, <2>4 DEF Invocation
    <3>2. Ordinal(r)' = Ordinal(r)
      BY <3>1 DEF Ordinal
    <3> QED
      BY <1>0, <1>1, <1>2, <2>1, <2>4, <3>1, <3>2 DEF PhaseKnows
  <2> QED
    BY <1>11, <2>2, <2>3, <2>4 DEF CommitReceipt
<1>12. CASE WriteReceipt(r)
  <2>1. /\ completions' = completions /\ batch' = batch /\ p.step = "write"
        /\ receipts' = Append(p.found, MyReceipt(r)) /\ phase' = [phase EXCEPT ![r].step = "reload"]
    BY <1>12 DEF WriteReceipt, bvars
  <2>2. batch[r].shard = Ordinal(r) /\ Ordinal(r) \in Shards /\ AllBacked(Ordinal(r))
        /\ Ordinal(r) = Len(p.found) + 1
    BY <1>0, <2>1 DEF PhaseKnows, BatchKnows
  <2>3. MyReceipt(r) \in Receipt
    BY <1>0, <2>2 DEF MyReceipt, Receipt, Batch
  <2>4. Len(receipts') = Ordinal(r)
    BY <1>0, <2>1, <2>2, <2>3
  <2>5. Ordinal(r)' = Ordinal(r)
    BY <1>4, <2>1 DEF Ordinal
  <2>6. PhaseKnows(r)'
    BY <1>0, <1>2, <1>4, <2>1, <2>5 DEF PhaseKnows
  <2>7. \A s \in Shards : s <= Ordinal(r) => AllBacked(s)
    <3>1. \A s \in Shards : s \in Nat
      BY BatchAssumption, FS_CardinalityType DEF BatchAssumption
    <3>2. Ordinal(r) = Len(p.known) + 1 /\ Len(p.known) \in Nat
      BY <1>0 DEF Ordinal
    <3>3. \A s \in Shards : s <= Len(p.known) => AllBacked(s)
      BY <1>0 DEF PhaseKnows
    <3>4. \A s \in Shards : s <= Ordinal(r) => s <= Len(p.known) \/ s = Ordinal(r)
      BY <3>1, <3>2
    <3> QED
      BY <2>2, <3>3, <3>4
  <2>8. Ordinal(r) <= Cardinality(Shards)
    BY <2>2, BatchAssumption, FS_CardinalityType DEF BatchAssumption
  <2>9. ReceiptsKnown'
    BY <1>0, <1>2, <2>1, <2>4, <2>7, <2>8 DEF ReceiptsKnown
  <2> QED
    BY <2>6, <2>9
<1>13. CASE Reload(r)
  <2>1. receipts' = receipts /\ completions' = completions
    BY <1>13 DEF Reload
  <2>2. CASE phase' = [phase EXCEPT ![r].step = "release"]
    BY <1>3, <1>4, <2>1, <2>2
  <2>3. CASE phase' = [phase EXCEPT ![r].step = "shard", ![r].known = receipts,
                                    ![r].found = <<>>, ![r].shardCalls = 0]
    <3>1. phase'[r].step = "shard" /\ phase'[r].known = receipts
      BY <1>0, <2>3 DEF Invocation
    <3> QED
      BY <1>0, <1>1, <1>2, <2>1, <3>1 DEF PhaseKnows, ReceiptsKnown
  <2> QED
    BY <1>13, <2>2, <2>3 DEF Reload
<1>14. CASE Finish(r)
  <2>1. receipts' = receipts /\ completions' = completions
    BY <1>14 DEF Finish
  <2>2. CASE phase' = [phase EXCEPT ![r].step = "release"]
    BY <1>3, <1>4, <2>1, <2>2
  <2>3. CASE phase' = [phase EXCEPT ![r].step = "sign"]
    <3>1. AllReceipts(p.known)
      BY <1>14 DEF Finish
    <3>2. AllReceipts(phase'[r].known)
      BY <1>4, <2>3, <3>1
    <3>3. AllReceipts(phase[r].known)'
      BY <3>2 DEF AllReceipts
    <3> QED
      BY <1>0, <1>1, <1>2, <1>4, <2>1, <2>3, <3>3 DEF PhaseKnows
  <2> QED
    BY <1>14, <2>2, <2>3 DEF Finish
<1>15. CASE Sign(r)
  <2>1. /\ receipts' = receipts /\ p.step = "sign" /\ phase' = [phase EXCEPT ![r].step = "release"]
    BY <1>15 DEF Sign
  <2>2. PhaseKnows(r)'
    BY <1>0, <1>4, <2>1, KnownStays
  <2>3. \A s \in Shards : AllBacked(s)
    <3>1. \A s \in Shards : s <= Cardinality(Shards)
      BY BatchAssumption, FS_CardinalityType DEF BatchAssumption
    <3>2. Len(p.known) = Cardinality(Shards)
      BY <1>0, <2>1 DEF PhaseKnows, AllReceipts
    <3> QED
      BY <1>0, <3>1, <3>2 DEF PhaseKnows
  <2>4. ReceiptsKnown'
    BY <1>0, <1>2, <2>1, <2>3 DEF ReceiptsKnown
  <2> QED
    BY <2>2, <2>4
<1> QED
  BY <1>6, <1>7, <1>8, <1>9, <1>10, <1>11, <1>12, <1>13, <1>14, <1>15 DEF PhaseStep

LEMMA PhaseKeeps ==
  ASSUME PhaseInv, NEW r \in Runners, Invoke(r) \/ PhaseStep(r) \/ PhaseFault(r) \/ Crash(r)
  PROVE  PhaseInv'
<1>1. Grown /\ StoresAgree' /\ UNCHANGED progress
  BY PhaseLeavesStores, StoresStay DEF PhaseInv, stores
<1>2. PhaseTypeOK'
  BY PhaseStepTypes DEF PhaseInv
<1>3. ProgressIsBacked'
  BY <1>1, ProgressStays DEF PhaseInv, PhaseTypeOK
<1>4. PhaseKnows(r)' /\ ReceiptsKnown'
  BY <1>1, PhaseStepKnows
<1>5. ASSUME NEW x \in Runners, x # r PROVE BatchKnows(x)' /\ PhaseKnows(x)'
  <2>1. batch'[x] = batch[x] /\ phase'[x] = phase[x]
    BY <1>1, <1>5, PhaseStepBatch
  <2>2. At(x, "batch") => batch[x].step # "off"
    BY DEF At, PhaseInv, PhaseKnows
  <2> QED
    BY <1>1, <2>1, <2>2, BatchStays, PhaseStays DEF PhaseInv, PhaseTypeOK
<1>6. BatchKnows(r)'
  BY <1>1, PhaseStepBatch
<1> QED
  BY <1>1, <1>2, <1>3, <1>4, <1>5, <1>6 DEF PhaseInv

\* A step that only moves a lease, or nothing.
LEMMA LeaseMoveKeeps ==
  ASSUME PhaseInv, UNCHANGED <<stores, batch, records, receipts, phase, completions>>,
         lease' \in [Leases -> Runners \cup {None}], faults' \in 0..MaxFaults, steals' \in 0..MaxSteals
  PROVE  PhaseInv'
<1>1. Grown /\ StoresAgree'
  BY StoresStay DEF PhaseInv, stores
<1>2. PhaseTypeOK'
  <2>1. BatchTypeOK'
    BY BatchTypesKept DEF PhaseInv, PhaseTypeOK, BatchTypeOK, stores
  <2> QED
    BY <2>1 DEF PhaseInv, PhaseTypeOK
<1>3. ProgressIsBacked' /\ ReceiptsKnown'
  BY <1>1, ProgressStays, ReceiptsStay DEF PhaseInv, PhaseTypeOK, stores
<1>4. ASSUME NEW x \in Runners PROVE BatchKnows(x)' /\ PhaseKnows(x)'
  <2>1. At(x, "batch") => batch[x].step # "off"
    BY DEF At, PhaseInv, PhaseKnows
  <2> QED
    BY <1>1, <2>1, BatchStays, PhaseStays DEF PhaseInv, PhaseTypeOK
<1> QED
  BY <1>1, <1>2, <1>3, <1>4 DEF PhaseInv

(***************************************************************************)
(* The theorems                                                            *)
(***************************************************************************)

LEMMA PhaseInit == Init => PhaseInv
<1> SUFFICES ASSUME Init PROVE PhaseInv
  OBVIOUS
<1> USE DEF Init, BatchInit
<1>1. /\ Off \in Batch /\ NoProgress \in Checkpoint /\ records \in Transcripts
  BY DEF Off, Batch, NoProgress, Checkpoint, BatchSteps
<1>2. Idle \in Invocation /\ <<>> \in Seq(Receipt)
  <2>1. <<>> \in Seq(Receipt)
    OBVIOUS
  <2>2. 0 \in 0..MaxCallsPerShard /\ 0 \in 0..MaxCallsTotal
    BY PhaseAssumption DEF PhaseAssumption
  <2> QED
    BY <2>1, <2>2 DEF Idle, Invocation, PhaseSteps
<1>3. BatchTypeOK
  BY <1>1, BatchAssumption DEF BatchTypeOK, BatchAssumption, Bindings
<1>4. PhaseTypeOK
  BY <1>2, <1>3 DEF PhaseTypeOK
<1>5. StoresAgree
  BY DEF StoresAgree
<1>6. ProgressIsBacked
  <2>1. ASSUME NEW s \in Shards
        PROVE  /\ progress[s].sequence = Cardinality(Emitted(s, progress[s].at))
               /\ \A q \in Emitted(s, progress[s].at) : Backed(s, q)
    BY NothingEmittedYet DEF NoProgress
  <2> QED
    BY <2>1, ProgressByRow
<1>7. Cardinality(Shards) \in Nat /\ \A s \in Shards : ~(s <= 0)
  BY BatchAssumption, FS_CardinalityType DEF BatchAssumption
<1>8. Len(<<>>) = 0
  OBVIOUS
<1>9. ReceiptsKnown
  BY <1>7, <1>8 DEF ReceiptsKnown
<1>10. ASSUME NEW r \in Runners PROVE BatchKnows(r) /\ PhaseKnows(r)
  BY <1>7, <1>8 DEF BatchKnows, PhaseKnows, Off, Idle, RowSteps
<1> QED
  BY <1>4, <1>5, <1>6, <1>9, <1>10 DEF PhaseInv

LEMMA PhaseNext == PhaseInv /\ [Next]_vars => PhaseInv'
<1> SUFFICES ASSUME PhaseInv, [Next]_vars PROVE PhaseInv'
  OBVIOUS
<1>1. ASSUME NEW r \in Runners, Invoke(r) \/ PhaseStep(r) \/ PhaseFault(r) \/ Crash(r)
      PROVE  PhaseInv'
  BY <1>1, PhaseKeeps
<1>2. ASSUME NEW r \in Runners, BatchStep(r) \/ BatchFault(r), InBatch(r) PROVE PhaseInv'
  BY <1>2, InBatchKeeps
<1>3. ASSUME NEW l \in Leases, Steal(l), UNCHANGED <<receipts, phase, completions>> PROVE PhaseInv'
  <2>1. lease' \in [Leases -> Runners \cup {None}] /\ steals' \in 0..MaxSteals /\ faults' \in 0..MaxFaults
    BY <1>3, BatchAssumption DEF Steal, PhaseInv, PhaseTypeOK, BatchTypeOK, BatchAssumption
  <2> QED
    BY <1>3, <2>1, LeaseMoveKeeps DEF Steal
<1>4. CASE UNCHANGED vars
  BY <1>4, LeaseMoveKeeps DEF vars, bvars, PhaseInv, PhaseTypeOK, BatchTypeOK
<1> QED
  BY <1>1, <1>2, <1>3, <1>4 DEF Next, RunnerStep

\* Whatever the plan, the transcripts and the number of processes, and whichever
\* calls fail or leases are lost (runM4BackfillBatch, runM4NativePausedPhase): the
\* progress of an interval is never ahead of the archive, and no receipt or
\* completion is issued for an interval with a record that is not archived.
THEOREM PhaseStaysBacked == Spec => []PhaseIsBacked
<1>1. PhaseInv => PhaseIsBacked
  <2> SUFFICES ASSUME PhaseInv, NEW s \in Shards, s <= Len(receipts) \/ completions # {}
               PROVE  Archived(s)
    BY DEF PhaseIsBacked, ReceiptsAreBacked, PhaseInv
  <2>1. AllBacked(s) /\ records \in Transcripts
    BY DEF PhaseInv, ReceiptsKnown, PhaseTypeOK, BatchTypeOK
  <2> QED
    BY <2>1, BackedIsArchived
<1> QED
  BY <1>1, PhaseInit, PhaseNext, PTL DEF Spec

\* Every variable keeps its type (the state of the batch runner and of the phase);
\* part of it is that an invocation never makes more calls of the batch runner
\* for an interval, and in all, than it may.
THEOREM PhaseIsTyped == Spec => []PhaseTypeOK
<1>1. PhaseInv => PhaseTypeOK
  BY DEF PhaseInv
<1> QED
  BY <1>1, PhaseInit, PhaseNext, PTL DEF Spec

\* What the archive, the outbox and the identities hold of an event is never
\* replaced, and the transcript never changes: an entry written by a batch stays
\* what later batches, of other processes too, find (conversation archive,
\* outbox.acknowledge, postCutoffStore.commit).
THEOREM StoresOnlyGrow == Spec => [][Grown]_vars
<1>1. ASSUME PhaseInv, [Next]_vars PROVE [Grown]_vars
  <2>1. ASSUME NEW r \in Runners, Invoke(r) \/ PhaseStep(r) \/ PhaseFault(r) \/ Crash(r) PROVE Grown
    BY <1>1, <2>1, PhaseLeavesStores, StoresStay DEF PhaseInv, stores
  <2>2. ASSUME NEW r \in Runners, BatchStep(r) \/ BatchFault(r) PROVE Grown
    BY <1>1, <2>2, BatchStepKnows DEF PhaseInv, PhaseTypeOK
  <2>3. ASSUME NEW l \in Leases, Steal(l) PROVE Grown
    BY <1>1, <2>3, StoresStay DEF PhaseInv, Steal, stores
  <2> QED
    BY <1>1, <2>1, <2>2, <2>3 DEF Next, RunnerStep
<1> QED
  BY <1>1, PhaseInit, PhaseNext, PTL DEF Spec
=============================================================================
