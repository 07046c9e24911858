---------------------------- MODULE ServiceProofs ----------------------------
(***************************************************************************)
(* What runs beside the stores, for any bounds: the sampler of the audit   *)
(* table keeps every call it has counted (CallsAreKept), the log of the    *)
(* collection accounts for every row that is deleted (DeletionsAreLogged), *)
(* the capability listener holds nothing open between two starts           *)
(* (NothingOpenBetweenStarts), a changed route is recorded and can be taken*)
(* back, with every edit of the other settings (RouteCanBeTakenBack,       *)
(* EditsAreKept), the extractor accounts for what it pays                  *)
(* (PaidWorkStaysAccounted), the file of a backfill lease is the one its   *)
(* only holder bound (HolderKeepsPath), and the files that a tool          *)
(* provisions a principal in stay together (ProvisioningStaysTogether,     *)
(* ReportsLast).                                                           *)
(***************************************************************************)
EXTENDS BackfillLease, AuditSampler, AuditCollection, CapabilityRuntime, RouteCutover,
        MemoryExtractor, Provisioning, FiniteSetTheorems, TLAPS

(***************************************************************************)
(* The sampler.  A row is made of the count of its bucket, and the bucket  *)
(* is emptied when the row is answered.  Between the two no call is counted*)
(* in it: its window is over, or the sampler is closed.                    *)
(***************************************************************************)

SamplerSpec == SamplerInit /\ [][SamplerNext]_samplerVars

\* No more calls are counted in a window that is over, or by a closed sampler.
IsOver(w) == w < window \/ ~accepting

RowIsBucket ==
  /\ \A i \in 1..Len(flushes) : flushes[i] = "all" => ~accepting
  /\ writing.at # "idle" => flushes # <<>>
  /\ writing.at # "idle" => \A w \in writing.todo : IsOver(w)
  /\ writing.at = "write" =>
       IsOver(writing.bucket) /\ writing.count = buckets[writing.bucket]

\* A bucket owes what it holds.
BucketsAreOwed == \A w \in Windows : buckets[w] <= owed[w] /\ owed[w] <= calls[w]

SamplerInv == SamplerTypeOK /\ RowIsBucket /\ BucketsAreOwed /\ SampledCallsAreKept

\* Nothing has been counted.
LEMMA InitSamplerInv == SamplerInit => SamplerInv
<1> SUFFICES ASSUME SamplerInit PROVE SamplerInv
  OBVIOUS
<1> USE SamplerAssumption DEF SamplerAssumption, SamplerInit, Windows
<1>1. SamplerTypeOK
  BY DEF SamplerTypeOK, NotWriting
<1>2. RowIsBucket /\ BucketsAreOwed /\ SampledCallsAreKept
  BY DEF RowIsBucket, NotWriting, BucketsAreOwed, SampledCallsAreKept
<1> QED
  BY <1>1, <1>2 DEF SamplerInv

\* Buckets that are dropped owe nothing any more.
LEMMA DropKeeps ==
  ASSUME SamplerInv, NEW D, DropBuckets(D), UNCHANGED <<sampled, calls>>
  PROVE  /\ buckets' \in [Windows -> 0..MaxCalls] /\ owed' \in [Windows -> 0..MaxCalls]
         /\ BucketsAreOwed' /\ SampledCallsAreKept'
<1>1. ASSUME NEW w \in Windows
      PROVE  /\ buckets[w] \in Nat /\ owed[w] \in Nat /\ sampled[w] \in Nat /\ calls[w] \in Nat
             /\ buckets[w] <= owed[w] /\ owed[w] <= calls[w] /\ calls[w] <= MaxCalls
             /\ owed[w] <= sampled[w] + buckets[w]
  BY SamplerAssumption
  DEF SamplerAssumption, SamplerInv, SamplerTypeOK, BucketsAreOwed, SampledCallsAreKept
<1>2. ASSUME NEW w \in Windows
      PROVE  \/ buckets'[w] = 0 /\ owed'[w] = owed[w] - buckets[w]
             \/ buckets'[w] = buckets[w] /\ owed'[w] = owed[w]
  BY DEF DropBuckets
<1>3. ASSUME NEW w \in Windows
      PROVE  /\ buckets'[w] \in 0..MaxCalls /\ owed'[w] \in 0..MaxCalls
             /\ buckets'[w] <= owed'[w] /\ owed'[w] <= calls[w]
             /\ owed'[w] <= sampled[w] + buckets'[w]
  BY <1>1, <1>2, SamplerAssumption DEF SamplerAssumption
<1>4. buckets' \in [Windows -> 0..MaxCalls] /\ owed' \in [Windows -> 0..MaxCalls]
  BY <1>3 DEF DropBuckets
<1> QED
  BY <1>3, <1>4 DEF BucketsAreOwed, SampledCallsAreKept

\* Every step of the sampler keeps what has been counted.
LEMMA NextSamplerInv == SamplerInv /\ [SamplerNext]_samplerVars => SamplerInv'
<1> SUFFICES ASSUME SamplerInv, [SamplerNext]_samplerVars PROVE SamplerInv'
  OBVIOUS
<1> DEFINE Counts == UNCHANGED <<buckets, owed, calls, sampled>>
           W == [at : {"idle", "next", "write"}, todo : SUBSET Windows, bucket : Windows,
                 count : 0..MaxCalls]
<1>1. /\ window \in Windows /\ accepting \in BOOLEAN /\ samplerFaults \in 0..MaxSamplerFaults
      /\ buckets \in [Windows -> 0..MaxCalls] /\ owed \in [Windows -> 0..MaxCalls]
      /\ calls \in [Windows -> 0..MaxCalls] /\ sampled \in [Windows -> Nat]
      /\ flushes \in Seq({"expired", "all"}) /\ writing \in W
      /\ RowIsBucket /\ BucketsAreOwed /\ SampledCallsAreKept
  BY DEF SamplerInv, SamplerTypeOK
<1>2. /\ writing.at \in {"idle", "next", "write"} /\ writing.todo \subseteq Windows
      /\ writing.bucket \in Windows /\ writing.count \in 0..MaxCalls
  BY <1>1
<1>3. \A w \in Windows : w \in Nat
  BY SamplerAssumption DEF SamplerAssumption, Windows
<1>4. MaxCalls \in Nat /\ MaxSamplerFaults \in Nat
  BY SamplerAssumption DEF SamplerAssumption
<1>0. \A w \in Windows :
        /\ buckets[w] \in Nat /\ owed[w] \in Nat /\ calls[w] \in Nat /\ sampled[w] \in Nat
        /\ buckets[w] <= owed[w] /\ owed[w] <= calls[w] /\ calls[w] <= MaxCalls
        /\ owed[w] <= sampled[w] + buckets[w]
  BY <1>1, <1>4 DEF BucketsAreOwed, SampledCallsAreKept
<1>5. Counts => BucketsAreOwed' /\ SampledCallsAreKept'
  BY <1>1 DEF BucketsAreOwed, SampledCallsAreKept
<1> DEFINE Typed ==
             /\ window' \in Windows /\ accepting' \in BOOLEAN
             /\ samplerFaults' \in 0..MaxSamplerFaults
             /\ flushes' \in Seq({"expired", "all"}) /\ writing' \in W
           CountsTyped ==
             /\ buckets' \in [Windows -> 0..MaxCalls] /\ owed' \in [Windows -> 0..MaxCalls]
             /\ calls' \in [Windows -> 0..MaxCalls] /\ sampled' \in [Windows -> Nat]
<1>6. ASSUME Typed, CountsTyped PROVE SamplerTypeOK'
  BY <1>6 DEF SamplerTypeOK, Windows
<1>7. Counts => CountsTyped
  BY <1>1
<1>8. ASSUME Typed, Counts, RowIsBucket' PROVE SamplerInv'
  BY <1>5, <1>6, <1>7, <1>8 DEF SamplerInv
<1> HIDE DEF Typed, W
<1>9. CASE NextWindow
  <2>1. window' \in Windows /\ window < window'
    BY <1>1, <1>9, SamplerAssumption DEF NextWindow, Windows, SamplerAssumption
  <2>2. \A w \in Windows : IsOver(w) => IsOver(w)'
    BY <1>1, <1>3, <1>9, <2>1 DEF NextWindow, IsOver
  <2>3. RowIsBucket'
    BY <1>1, <1>2, <1>9, <2>2 DEF NextWindow, RowIsBucket
  <2> QED
    BY <1>1, <1>8, <1>9, <2>1, <2>3 DEF NextWindow, Typed
<1>10. CASE Record
  <2>1. /\ buckets[window] \in 0..MaxCalls /\ owed[window] \in 0..MaxCalls
        /\ calls[window] \in 0..MaxCalls /\ calls[window] < MaxCalls /\ sampled[window] \in Nat
        /\ buckets[window] <= owed[window] /\ owed[window] <= calls[window]
        /\ owed[window] <= sampled[window] + buckets[window]
    BY <1>1, <1>10 DEF Record, BucketsAreOwed, SampledCallsAreKept
  <2>2. \A w \in Windows :
          /\ buckets'[w] = (IF w = window THEN buckets[window] + 1 ELSE buckets[w])
          /\ owed'[w] = (IF w = window THEN owed[window] + 1 ELSE owed[w])
          /\ calls'[w] = (IF w = window THEN calls[window] + 1 ELSE calls[w])
          /\ sampled'[w] = sampled[w]
    BY <1>1, <1>10 DEF Record
  <2>3. CountsTyped
    BY <1>1, <1>4, <1>10, <2>1 DEF Record
  <2>4. Typed
    BY <1>1, <1>10 DEF Record, Typed
  <2>5. RowIsBucket'
    BY <1>1, <1>2, <1>3, <1>10, <2>2 DEF Record, RowIsBucket, IsOver
  <2>6. \A w \in Windows :
          /\ buckets'[w] <= owed'[w] /\ owed'[w] <= calls'[w]
          /\ owed'[w] <= sampled'[w] + buckets'[w]
    BY <1>0, <1>10, <2>2
  <2>7. BucketsAreOwed' /\ SampledCallsAreKept'
    BY <2>6 DEF BucketsAreOwed, SampledCallsAreKept, Windows
  <2> QED
    BY <1>6, <2>3, <2>4, <2>5, <2>7 DEF SamplerInv
<1>11. CASE Tick
  <2>1. flushes' \in Seq({"expired", "all"}) /\ flushes' # <<>> /\ \A i \in 1..Len(flushes') :
          flushes'[i] = "all" => \E j \in 1..Len(flushes) : flushes[j] = "all"
    BY <1>1, <1>11 DEF Tick
  <2>2. RowIsBucket'
    BY <1>1, <1>11, <2>1 DEF Tick, RowIsBucket, IsOver
  <2> QED
    BY <1>1, <1>8, <1>11, <2>1, <2>2 DEF Tick, Typed
<1>12. CASE Close
  <2>1. flushes' \in Seq({"expired", "all"}) /\ flushes' # <<>>
    BY <1>1, <1>12 DEF Close
  <2>2. RowIsBucket'
    BY <1>1, <1>12, <2>1 DEF Close, RowIsBucket, IsOver
  <2> QED
    BY <1>1, <1>8, <1>12, <2>1, <2>2 DEF Close, Typed
<1>13. CASE StartFlush
  <2>1. Head(flushes) = flushes[1] /\ 1 \in 1..Len(flushes)
    BY <1>1, <1>13 DEF StartFlush
  <2>2. \A w \in Due(Head(flushes)) : w \in Windows /\ IsOver(w)
    BY <1>1, <2>1 DEF Due, PendingBuckets, RowIsBucket, IsOver
  <2>3. writing'.at = "next" /\ writing'.todo = Due(Head(flushes)) /\ writing' \in W
    BY <1>1, <1>13, <2>2 DEF StartFlush, W
  <2>4. RowIsBucket'
    BY <1>1, <1>13, <2>2, <2>3 DEF StartFlush, RowIsBucket, IsOver
  <2> QED
    BY <1>1, <1>8, <1>13, <2>3, <2>4 DEF StartFlush, Typed
<1>14. CASE StartWrite
  <2>1. PICK w \in writing.todo :
          writing' = [at |-> "write", todo |-> writing.todo \ {w}, bucket |-> w,
                      count |-> buckets[w]]
    BY <1>14 DEF StartWrite
  <2>2. w \in Windows /\ IsOver(w) /\ writing' \in W
    BY <1>1, <1>2, <1>14, <2>1 DEF StartWrite, RowIsBucket, W
  <2>3. RowIsBucket'
    BY <1>1, <1>14, <2>1, <2>2 DEF StartWrite, RowIsBucket, IsOver
  <2> QED
    BY <1>1, <1>8, <1>14, <2>2, <2>3 DEF StartWrite, Typed
<1>15. CASE WriteAnswered
  <2> DEFINE b == writing.bucket
  <2>1. b \in Windows /\ writing.count = buckets[b] /\ buckets[b] \in Nat /\ sampled[b] \in Nat
        /\ owed[b] \in Nat /\ owed[b] <= sampled[b] + buckets[b]
    BY <1>1, <1>2, <1>15 DEF WriteAnswered, RowIsBucket, SampledCallsAreKept
  <2>2. \A w \in Windows :
          /\ buckets'[w] = (IF w = b THEN 0 ELSE buckets[w])
          /\ sampled'[w] = (IF w = b THEN sampled[b] + buckets[b] ELSE sampled[w])
          /\ owed'[w] = owed[w] /\ calls'[w] = calls[w]
    BY <1>1, <1>15, <2>1 DEF WriteAnswered, StoreRow
  <2>3. CountsTyped
    <3>1. /\ buckets' = [buckets EXCEPT ![b] = 0] /\ owed' = owed /\ calls' = calls
          /\ sampled' = [sampled EXCEPT ![b] = sampled[b] + buckets[b]]
      BY <1>1, <1>15, <2>1 DEF WriteAnswered, StoreRow
    <3>2. 0 \in 0..MaxCalls /\ sampled[b] + buckets[b] \in Nat
      BY <1>4, <2>1
    <3> QED
      BY <1>1, <2>1, <3>1, <3>2
  <2>4. writing' \in W /\ writing'.at = "next" /\ writing'.todo = writing.todo
    BY <1>1, <1>15 DEF WriteAnswered, W
  <2>5. RowIsBucket'
    BY <1>1, <1>15, <2>4 DEF WriteAnswered, RowIsBucket, IsOver
  <2>6. Typed
    BY <1>1, <1>15, <2>4 DEF WriteAnswered, Typed
  <2>7. \A w \in Windows :
          /\ buckets'[w] <= owed'[w] /\ owed'[w] <= calls'[w]
          /\ owed'[w] <= sampled'[w] + buckets'[w]
    BY <1>0, <2>2
  <2>8. BucketsAreOwed' /\ SampledCallsAreKept'
    BY <2>7 DEF BucketsAreOwed, SampledCallsAreKept, Windows
  <2> QED
    BY <1>6, <2>3, <2>5, <2>6, <2>8 DEF SamplerInv
<1>16. CASE WriteFails
  <2>1. sampled' \in [Windows -> Nat] /\ \A w \in Windows : sampled[w] <= sampled'[w]
    <3> DEFINE b == writing.bucket
               n == sampled[b] + writing.count
    <3>1. b \in Windows /\ n \in Nat /\ sampled[b] <= n
      BY <1>0, <1>2
    <3>2. sampled' = [sampled EXCEPT ![b] = n] \/ sampled' = sampled
      BY <1>1, <1>16, <3>1 DEF WriteFails, StoreRow
    <3> HIDE DEF b, n
    <3> QED
      <4>1. sampled' \in [Windows -> Nat]
        BY <1>1, <3>1, <3>2
      <4>2. ASSUME NEW w \in Windows PROVE sampled[w] <= sampled'[w]
        <5>1. sampled'[w] = sampled[w] \/ (w = b /\ sampled'[w] = n)
          BY <1>1, <3>1, <3>2
        <5>2. sampled[w] \in Nat
          BY <1>0
        <5> QED
          BY <3>1, <5>1, <5>2
      <4> QED
        BY <4>1, <4>2
  <2>2. writing' \in W /\ writing'.at = "next" /\ writing'.todo = writing.todo
    BY <1>1, <1>16 DEF WriteFails, W
  <2>3. RowIsBucket'
    BY <1>1, <1>16, <2>2 DEF WriteFails, RowIsBucket, IsOver
  <2>4. CountsTyped /\ BucketsAreOwed'
    BY <1>1, <1>16, <2>1 DEF WriteFails, BucketsAreOwed
  <2>5. SampledCallsAreKept'
    <3>1. UNCHANGED <<buckets, owed>>
      BY <1>16 DEF WriteFails
    <3>2. ASSUME NEW w \in Windows PROVE owed'[w] <= sampled'[w] + buckets'[w]
      <4>1. sampled'[w] \in Nat /\ sampled[w] <= sampled'[w]
        BY <2>1
      <4>2. /\ buckets[w] \in Nat /\ owed[w] \in Nat /\ sampled[w] \in Nat
            /\ owed[w] <= sampled[w] + buckets[w]
        BY <1>0
      <4> QED
        BY <3>1, <4>1, <4>2
    <3> QED
      BY <3>2 DEF SampledCallsAreKept, Windows
  <2>6. Typed
    BY <1>1, <1>4, <1>16, <2>2 DEF WriteFails, Typed
  <2> QED
    BY <1>6, <2>3, <2>4, <2>5, <2>6 DEF SamplerInv
<1>17. CASE EndFlush
  <2>1. flushes # <<>>
    BY <1>1, <1>17 DEF EndFlush, RowIsBucket
  <2>2. flushes' \in Seq({"expired", "all"}) /\ \A i \in 1..Len(flushes') :
          flushes'[i] = flushes[i + 1] /\ i + 1 \in 1..Len(flushes)
    BY <1>1, <1>17, <2>1 DEF EndFlush
  <2>3. /\ BucketsAreOwed' /\ SampledCallsAreKept'
        /\ buckets' \in [Windows -> 0..MaxCalls] /\ owed' \in [Windows -> 0..MaxCalls]
    BY <1>17, DropKeeps DEF EndFlush
  <2>4. NotWriting \in W /\ NotWriting.at = "idle"
    BY SamplerAssumption DEF SamplerAssumption, W, NotWriting, Windows
  <2>5. RowIsBucket'
    BY <1>1, <1>17, <2>2, <2>4 DEF EndFlush, RowIsBucket
  <2>6. Typed
    BY <1>1, <1>17, <2>2, <2>4 DEF EndFlush, Typed
  <2> QED
    BY <1>1, <1>6, <1>17, <2>3, <2>5, <2>6 DEF EndFlush, SamplerInv
<1>18. CASE Stop
  <2>1. /\ BucketsAreOwed' /\ SampledCallsAreKept'
        /\ buckets' \in [Windows -> 0..MaxCalls] /\ owed' \in [Windows -> 0..MaxCalls]
    BY <1>18, DropKeeps DEF Stop
  <2>2. NotWriting \in W /\ NotWriting.at = "idle"
    BY SamplerAssumption DEF SamplerAssumption, W, NotWriting, Windows
  <2>3. RowIsBucket'
    BY <1>18, <2>2 DEF Stop, RowIsBucket
  <2>4. Typed
    BY <1>1, <1>4, <1>18, <2>2 DEF Stop, Typed
  <2> QED
    BY <1>1, <1>6, <1>18, <2>1, <2>3, <2>4 DEF Stop, SamplerInv
<1>19. CASE UNCHANGED samplerVars
  BY <1>1, <1>8, <1>19 DEF samplerVars, RowIsBucket, IsOver, Typed
<1> QED
  BY <1>9, <1>10, <1>11, <1>12, <1>13, <1>14, <1>15, <1>16, <1>17, <1>18, <1>19 DEF SamplerNext

\* A status call that was counted is in its bucket or in a row until the bucket is
\* dropped with a report or the process ends (AuditSampler, audit-retention.mjs).
THEOREM CallsAreKept == SamplerSpec => []SampledCallsAreKept
<1>1. SamplerInv => SampledCallsAreKept
  BY DEF SamplerInv
<1> QED
  BY InitSamplerInv, NextSamplerInv, <1>1, PTL DEF SamplerSpec

(***************************************************************************)
(* The collection.  The victims of a batch are removed at its COMMIT, when *)
(* nobody else can have them, and logged before the next batch is chosen.  *)
(***************************************************************************)

CollectionSpec == CollectionInit /\ [][CollectionNext]_collectionVars

\* What the log of a run says, step by step.
RunInv(r) ==
  /\ collector[r].at \in {"delete", "commit", "record"} =>
       Cardinality(collector[r].victims) <= RowsPerBatch
  /\ collector[r].at \in {"new", "select", "delete", "commit", "record"} =>
       collector[r].batches < MaxBatches
  /\ collector[r].at = "commit" => collector[r].victims \subseteq expiredRows
  /\ collector[r].at \in {"select", "delete", "commit"} => purged[r] = gcLog[r].deleted
  /\ collector[r].at = "record" =>
       purged[r] = gcLog[r].deleted + Cardinality(collector[r].victims)
  /\ collector[r].at = "end" /\ ~collector[r].failed => purged[r] = gcLog[r].deleted
  /\ collector[r].at \in {"new", "refused"} => purged[r] = 0
  /\ collector[r].at \notin {"new", "refused"} => gcLog[r].started
  /\ gcLog[r].ended # "no" => collector[r].at = "done"
  /\ gcLog[r].ended = "completed" => purged[r] = gcLog[r].deleted
  /\ gcLog[r].deleted <= purged[r] /\ purged[r] <= gcLog[r].deleted + RowsPerBatch

\* No row is counted twice.
RowsAreCounted ==
  /\ \A r \in Collectors : purged[r] + Cardinality(expiredRows) <= ExpiredRows
  /\ \A r, s \in Collectors : r # s =>
       purged[r] + purged[s] + Cardinality(expiredRows) <= ExpiredRows

\* Two open batches have no row in common: the delete of one waits for the other.
BatchesApart ==
  \A r, s \in Collectors :
    r # s /\ collector[r].at = "commit" /\ collector[s].at = "commit" =>
      collector[r].victims \cap collector[s].victims = {}

CollectionInv ==
  CollectionTypeOK /\ (\A r \in Collectors : RunInv(r)) /\ RowsAreCounted /\ BatchesApart

\* The rows of a table are finitely many, and what is taken from them is counted.
LEMMA RowsAreFinite ==
  ASSUME NEW S \in SUBSET (1..ExpiredRows)
  PROVE  /\ IsFiniteSet(S) /\ Cardinality(S) \in 0..ExpiredRows
         /\ \A T \in SUBSET S : Cardinality(S \ T) = Cardinality(S) - Cardinality(T)
<1>1. ExpiredRows \in Nat
  BY CollectionAssumption DEF CollectionAssumption
<1>2. IsFiniteSet(1..ExpiredRows) /\ Cardinality(1..ExpiredRows) = ExpiredRows
  BY <1>1, FS_Interval
<1>3. IsFiniteSet(S) /\ Cardinality(S) <= ExpiredRows
  BY <1>2, FS_Subset
<1>4. Cardinality(S) \in Nat
  BY <1>3, FS_CardinalityType
<1>5. ASSUME NEW T \in SUBSET S PROVE Cardinality(S \ T) = Cardinality(S) - Cardinality(T)
  <2>1. S \cap T = T
    OBVIOUS
  <2> QED
    BY <1>3, <2>1, FS_Difference
<1> QED
  BY <1>1, <1>3, <1>4, <1>5

\* A nonempty finite set of numbers has a greatest one.
LEMMA GreatestExists ==
  ASSUME NEW S \in SUBSET Nat, IsFiniteSet(S), S # {}
  PROVE  \E x \in S : \A y \in S : y <= x
<1> DEFINE Above(x) == {z \in S : x <= z}
           F == {Above(x) : x \in S}
<1>1. F \subseteq FiniteSubsetsOf(S) /\ F # {}
  <2>1. \A x \in S : Above(x) \subseteq S /\ IsFiniteSet(Above(x))
    BY FS_Subset
  <2> QED
    BY <2>1 DEF FiniteSubsetsOf
<1>2. PICK M \in F : \A A \in F : ~(<<A, M>> \in StrictSubsetOrdering(S))
  <2> HIDE DEF F
  <2> QED
    BY <1>1, WFMin, FS_StrictSubsetOrderingWellFounded
<1>3. PICK x \in S : M = Above(x)
  BY <1>2
<1>4. ASSUME NEW y \in S, x < y PROVE FALSE
  <2>1. \A z \in S : y <= z => x <= z
    BY <1>4
  <2>2. Above(y) \subseteq Above(x) /\ x \in Above(x) /\ x \notin Above(y)
    <3>1. x \in Nat /\ y \in Nat /\ ~(y <= x) /\ x <= x
      BY <1>4
    <3> QED
      BY <2>1, <3>1
  <2>3. Above(y) \in F /\ Above(y) \subseteq S /\ Above(x) \subseteq S
    OBVIOUS
  <2> QED
    BY <1>2, <1>3, <2>2, <2>3 DEF StrictSubsetOrdering
<1> QED
  BY <1>4

\* A batch has at most batchSize rows.
LEMMA BatchIsBounded ==
  ASSUME NEW rows \in SUBSET (1..ExpiredRows)
  PROVE  Eldest(rows) \subseteq rows /\ Cardinality(Eldest(rows)) <= RowsPerBatch
<1> DEFINE E == Eldest(rows)
<1>1. RowsPerBatch \in Nat \ {0}
  BY CollectionAssumption DEF CollectionAssumption
<1>2. E \subseteq rows /\ IsFiniteSet(E) /\ E \in SUBSET Nat /\ E \in SUBSET (1..ExpiredRows)
  <2>1. E \subseteq rows
    BY DEF Eldest
  <2>2. \A y \in 1..ExpiredRows : y \in Nat
    BY CollectionAssumption DEF CollectionAssumption
  <2> HIDE DEF E
  <2>3. E \in SUBSET (1..ExpiredRows) /\ E \in SUBSET Nat
    BY <2>1, <2>2
  <2> QED
    BY <2>1, <2>3, RowsAreFinite
<1>3. CASE E = {}
  BY <1>1, <1>3, FS_EmptySet
<1>4. CASE E # {}
  <2>1. PICK m \in E : \A y \in E : y <= m
    BY <1>2, <1>4, GreatestExists
  <2> DEFINE Younger == {y \in rows : y < m}
  <2>2. Cardinality(Younger) < RowsPerBatch
    BY <2>1 DEF Eldest
  <2>3. E \ {m} \subseteq Younger /\ IsFiniteSet(Younger)
    BY <1>2, <2>1, RowsAreFinite
  <2>4. Cardinality(E \ {m}) <= Cardinality(Younger) /\ Cardinality(Younger) \in Nat
    BY <2>3, FS_Subset, FS_CardinalityType
  <2>5. Cardinality(E \ {m}) = Cardinality(E) - 1 /\ Cardinality(E) \in Nat
    BY <1>2, FS_RemoveElement, FS_CardinalityType
  <2> HIDE DEF E, Younger
  <2>6. Cardinality(E) <= RowsPerBatch
    BY <1>1, <2>2, <2>4, <2>5
  <2> QED
    BY <1>2, <2>6 DEF E
<1> QED
  BY <1>3, <1>4

\* The states of a run.
Runs ==
  [at : {"new", "refused", "select", "delete", "commit", "record", "end", "done", "killed"},
   victims : SUBSET (1..ExpiredRows), batches : 0..MaxBatches, failed : BOOLEAN]

\* No run has begun.
LEMMA InitCollectionInv == CollectionInit => CollectionInv
<1> SUFFICES ASSUME CollectionInit PROVE CollectionInv
  OBVIOUS
<1> USE DEF CollectionInit
<1>1. ExpiredRows \in Nat /\ RowsPerBatch \in Nat /\ MaxBatches \in Nat \ {0} /\ MaxGcFaults \in Nat
  BY CollectionAssumption DEF CollectionAssumption
<1>2. CollectionTypeOK
  BY <1>1 DEF CollectionTypeOK, Waiting, NoEntry
<1>3. Cardinality(expiredRows) = ExpiredRows
  BY <1>1, FS_Interval
<1>4. \A r \in Collectors : RunInv(r)
  BY <1>1 DEF RunInv, Waiting, NoEntry
<1>5. RowsAreCounted
  BY <1>1, <1>3 DEF RowsAreCounted
<1>6. BatchesApart
  BY DEF BatchesApart, Waiting
<1> QED
  BY <1>2, <1>4, <1>5, <1>6 DEF CollectionInv

\* A step of one run that deletes nothing.
LEMMA NothingDeleted ==
  ASSUME CollectionInv, NEW r \in Collectors, CollectionTypeOK', RunInv(r)',
         UNCHANGED <<expiredRows, purged>>,
         \A s \in Collectors \ {r} : collector'[s] = collector[s] /\ gcLog'[s] = gcLog[s],
         collector'[r].at = "commit" =>
           \A s \in Collectors \ {r} : collector[s].at = "commit" =>
             collector[s].victims \cap collector'[r].victims = {}
  PROVE  CollectionInv'
<1>1. \A s \in Collectors : RunInv(s)'
  BY DEF CollectionInv, RunInv
<1>2. RowsAreCounted'
  BY DEF CollectionInv, RowsAreCounted
<1>3. BatchesApart'
  BY DEF CollectionInv, BatchesApart
<1> QED
  BY <1>1, <1>2, <1>3 DEF CollectionInv

\* A batch is committed by a run.
LEMMA PurgeKept ==
  ASSUME CollectionInv, NEW r \in Collectors, GcAt(r, "commit"), Purge(r),
         collector' \in [Collectors -> Runs], collector'[r].at \in {"record", "end"},
         collector'[r].at = "end" => collector'[r].failed,
         collector'[r].victims = collector[r].victims, collector'[r].batches = collector[r].batches,
         \A s \in Collectors \ {r} : collector'[s] = collector[s],
         gcLog' = gcLog, gcFaults' \in 0..MaxGcFaults
  PROVE  CollectionInv'
<1> DEFINE v == collector[r].victims
           n == Cardinality(v)
<1>1. /\ v \in SUBSET expiredRows /\ expiredRows \in SUBSET (1..ExpiredRows)
      /\ expiredRows' = expiredRows \ v /\ purged' = [purged EXCEPT ![r] = @ + n]
      /\ n <= RowsPerBatch /\ purged[r] = gcLog[r].deleted
      /\ purged \in [Collectors -> 0..ExpiredRows]
  BY DEF CollectionInv, RunInv, GcAt, Purge, CollectionTypeOK
<1>2. /\ ExpiredRows \in Nat /\ RowsPerBatch \in Nat
      /\ Cardinality(expiredRows) \in Nat
      /\ Cardinality(expiredRows') = Cardinality(expiredRows) - n
  BY <1>1, RowsAreFinite, CollectionAssumption DEF CollectionAssumption
<1>3. n \in Nat /\ Cardinality(expiredRows') \in Nat
  <2>1. v \in SUBSET (1..ExpiredRows) /\ expiredRows' \in SUBSET (1..ExpiredRows)
    BY <1>1
  <2> QED
    BY <1>2, <2>1, RowsAreFinite
<1> HIDE DEF n
<1>4. /\ purged'[r] = purged[r] + n /\ \A s \in Collectors \ {r} : purged'[s] = purged[s]
      /\ \A s \in Collectors : purged[s] \in Nat
  BY <1>1, <1>2
<1>6. RowsAreCounted'
  <2>1. ASSUME NEW s \in Collectors
        PROVE  purged'[s] + Cardinality(expiredRows') <= ExpiredRows
    <3>1. purged[s] + Cardinality(expiredRows) <= ExpiredRows
      BY DEF CollectionInv, RowsAreCounted
    <3> QED
      BY <1>2, <1>3, <1>4, <3>1
  <2>2. ASSUME NEW s \in Collectors, NEW t \in Collectors, s # t
        PROVE  purged'[s] + purged'[t] + Cardinality(expiredRows') <= ExpiredRows
    <3>1. purged[s] + purged[t] + Cardinality(expiredRows) <= ExpiredRows
      BY <2>2 DEF CollectionInv, RowsAreCounted
    <3> QED
      BY <1>2, <1>3, <1>4, <2>2, <3>1
  <2> QED
    BY <2>1, <2>2 DEF RowsAreCounted
<1>7. CollectionTypeOK'
  <2>1. purged[r] + n \in 0..ExpiredRows
    BY <1>2, <1>3, <1>4, <1>6 DEF RowsAreCounted
  <2>2. purged' \in [Collectors -> 0..ExpiredRows]
    BY <1>1, <2>1 DEF n
  <2> QED
    BY <1>1, <2>2 DEF CollectionInv, CollectionTypeOK, Runs
<1>8. ASSUME NEW s \in Collectors PROVE RunInv(s)'
  <2>1. CASE s = r
    <3>1. /\ gcLog'[r] = gcLog[r] /\ gcLog[r].deleted \in Nat /\ gcLog[r].started
          /\ gcLog[r].ended = "no"
      BY DEF CollectionInv, CollectionTypeOK, RunInv, GcAt
    <3> QED
      <4>1. /\ purged'[r] = gcLog[r].deleted + n /\ collector'[r].victims = v
            /\ Cardinality(collector'[r].victims) = n /\ gcLog'[r].deleted = gcLog[r].deleted
        BY <1>1, <1>4, <3>1 DEF n
      <4>2. collector[r].batches < MaxBatches
        BY DEF CollectionInv, RunInv, GcAt
      <4>3. gcLog[r].deleted <= gcLog[r].deleted + n
            /\ gcLog[r].deleted + n <= gcLog[r].deleted + RowsPerBatch
        BY <1>1, <1>2, <1>3, <3>1
      <4> QED
        BY <1>1, <2>1, <3>1, <4>1, <4>2, <4>3 DEF RunInv
  <2>2. CASE s # r
    <3>1. RunInv(s) /\ (collector[s].at = "commit" => collector[s].victims \cap v = {})
      BY <2>2 DEF CollectionInv, BatchesApart, GcAt
    <3> QED
      BY <1>1, <1>4, <2>2, <3>1 DEF RunInv
  <2> QED
    BY <2>1, <2>2
<1>9. BatchesApart'
  BY DEF CollectionInv, BatchesApart
<1> QED
  BY <1>6, <1>7, <1>8, <1>9 DEF CollectionInv

\* The runs that a failing step or a step forward leads to.
LEMMA RunMoves ==
  ASSUME CollectionTypeOK, NEW r \in Collectors,
         NEW step \in {"new", "refused", "select", "delete", "commit", "record", "end", "done",
                       "killed"}
  PROVE  /\ GcGoto(r, step) =>
              /\ collector' \in [Collectors -> Runs]
              /\ \A s \in Collectors \ {r} : collector'[s] = collector[s]
              /\ collector'[r].at = step /\ collector'[r].failed = collector[r].failed
              /\ collector'[r].victims = collector[r].victims /\ collector'[r].batches = collector[r].batches
         /\ GcFail(r) =>
              /\ collector' \in [Collectors -> Runs]
              /\ \A s \in Collectors \ {r} : collector'[s] = collector[s]
              /\ collector'[r].at = "end" /\ collector'[r].failed
              /\ collector'[r].victims = collector[r].victims /\ collector'[r].batches = collector[r].batches
              /\ gcFaults' \in 0..MaxGcFaults
         /\ GcFault => gcFaults' \in 0..MaxGcFaults
<1> DEFINE c == collector[r]
<1>1. collector \in [Collectors -> Runs] /\ c \in Runs
  BY DEF CollectionTypeOK, Runs
<1>2. GcFault => gcFaults' \in 0..MaxGcFaults
  BY CollectionAssumption DEF CollectionAssumption, CollectionTypeOK, GcFault
<1>3. ASSUME GcGoto(r, step)
      PROVE  /\ collector' \in [Collectors -> Runs]
             /\ \A s \in Collectors \ {r} : collector'[s] = collector[s]
             /\ collector'[r].at = step /\ collector'[r].failed = collector[r].failed
             /\ collector'[r].victims = collector[r].victims /\ collector'[r].batches = collector[r].batches
  <2>1. [c EXCEPT !.at = step] \in Runs
    BY <1>1 DEF Runs
  <2>2. collector' = [collector EXCEPT ![r] = [c EXCEPT !.at = step]]
    BY <1>1, <1>3 DEF GcGoto
  <2>3. collector'[r] = [c EXCEPT !.at = step]
    BY <1>1, <2>2
  <2> QED
    BY <1>1, <2>1, <2>2, <2>3 DEF Runs
<1>4. ASSUME GcFail(r)
      PROVE  /\ collector' \in [Collectors -> Runs]
             /\ \A s \in Collectors \ {r} : collector'[s] = collector[s]
             /\ collector'[r].at = "end" /\ collector'[r].failed
             /\ collector'[r].victims = collector[r].victims /\ collector'[r].batches = collector[r].batches
  <2> DEFINE d == [c EXCEPT !.at = "end", !.failed = TRUE]
  <2>1. d \in Runs /\ d.at = "end" /\ d.failed /\ d.victims = c.victims /\ d.batches = c.batches
    BY <1>1 DEF Runs
  <2>2. collector' = [collector EXCEPT ![r] = d]
    BY <1>1, <1>4 DEF GcFail
  <2> HIDE DEF d
  <2> QED
    BY <1>1, <2>1, <2>2
<1> QED
  BY <1>2, <1>3, <1>4 DEF GcFail

\* Every step of every run keeps the log and the table in agreement.
LEMMA NextCollectionInv == CollectionInv /\ [CollectionNext]_collectionVars => CollectionInv'
<1> SUFFICES ASSUME CollectionInv, [CollectionNext]_collectionVars PROVE CollectionInv'
  OBVIOUS
<1>1. /\ CollectionTypeOK /\ RowsPerBatch \in Nat /\ \A r \in Collectors : RunInv(r)
      /\ \A r \in Collectors : /\ purged[r] \in Nat /\ gcLog[r].deleted \in Nat
                               /\ gcLog[r].started \in BOOLEAN
                               /\ gcLog[r].ended \in {"no", "stopped", "completed"}
  BY CollectionAssumption DEF CollectionAssumption, CollectionInv, CollectionTypeOK
<1>2. ASSUME NEW r \in Collectors, Begin(r) PROVE CollectionInv'
  <2>1. /\ collector' \in [Collectors -> Runs] /\ gcFaults' \in 0..MaxGcFaults
        /\ \A s \in Collectors \ {r} : collector'[s] = collector[s] /\ gcLog'[s] = gcLog[s]
        /\ collector'[r].at \in {"select", "refused"}
        /\ collector'[r].at = "select" => gcLog'[r].started
        /\ gcLog'[r].deleted = gcLog[r].deleted /\ gcLog'[r].ended = gcLog[r].ended
        /\ gcLog' \in [Collectors ->
             [started : BOOLEAN, deleted : Nat, ended : {"no", "stopped", "completed"}]]
    <3>1. CASE GcGoto(r, "select") /\ gcLog' = [gcLog EXCEPT ![r].started = TRUE] /\ gcFaults' = gcFaults
      <4>1. gcLog \in [Collectors ->
              [started : BOOLEAN, deleted : Nat, ended : {"no", "stopped", "completed"}]]
        BY <1>1 DEF CollectionTypeOK
      <4>2. gcFaults' \in 0..MaxGcFaults
        BY <1>1, <3>1 DEF CollectionTypeOK
      <4>3. /\ gcLog' \in [Collectors ->
                 [started : BOOLEAN, deleted : Nat, ended : {"no", "stopped", "completed"}]]
            /\ \A s \in Collectors \ {r} : gcLog'[s] = gcLog[s]
            /\ gcLog'[r].started /\ gcLog'[r].deleted = gcLog[r].deleted
            /\ gcLog'[r].ended = gcLog[r].ended
        <5> DEFINE d == [gcLog[r] EXCEPT !.started = TRUE]
        <5>1. /\ d \in [started : BOOLEAN, deleted : Nat, ended : {"no", "stopped", "completed"}]
              /\ d.started /\ d.deleted = gcLog[r].deleted /\ d.ended = gcLog[r].ended
          BY <4>1
        <5>2. gcLog' = [gcLog EXCEPT ![r] = d]
          BY <3>1, <4>1
        <5> HIDE DEF d
        <5> QED
          BY <4>1, <5>1, <5>2
      <4>4. /\ collector' \in [Collectors -> Runs] /\ collector'[r].at = "select"
            /\ \A s \in Collectors \ {r} : collector'[s] = collector[s]
        BY <1>1, <3>1, RunMoves
      <4> QED
        BY <4>2, <4>3, <4>4
    <3>2. CASE GcGoto(r, "refused") /\ gcLog' = gcLog /\ GcFault
      BY <1>1, <3>2, RunMoves DEF CollectionTypeOK
    <3> QED
      BY <1>2, <3>1, <3>2 DEF Begin
  <2>2. CollectionTypeOK'
    BY <1>1, <1>2, <2>1 DEF Begin, CollectionTypeOK, Runs
  <2>3. RunInv(r)'
    <3>1. /\ collector[r].at = "new" /\ purged[r] = 0 /\ gcLog[r].ended = "no"
          /\ collector[r].batches < MaxBatches /\ purged' = purged
          /\ gcLog[r].deleted <= purged[r]
      BY <1>1, <1>2 DEF Begin, RunInv, GcAt
    <3>2. purged'[r] = 0 /\ gcLog'[r].deleted = 0 /\ gcLog'[r].ended = "no"
      BY <1>1, <2>1, <3>1
    <3>3. collector'[r].batches < MaxBatches
      BY <1>1, <1>2, <3>1, RunMoves DEF Begin
    <3>4. 0 <= 0 + RowsPerBatch
      BY <1>1
    <3> QED
      BY <2>1, <3>2, <3>3, <3>4 DEF RunInv
  <2> QED
    BY <1>2, <2>1, <2>2, <2>3, NothingDeleted DEF Begin
<1>3. ASSUME NEW r \in Collectors, Select(r) PROVE CollectionInv'
  <2>1. CASE GcFail(r)
    <3>1. CollectionTypeOK'
      BY <1>1, <1>3, <2>1, RunMoves DEF Select, CollectionTypeOK, Runs
    <3>2. RunInv(r)'
      BY <1>1, <1>3, <2>1, RunMoves DEF Select, RunInv, GcAt
    <3> QED
      BY <1>1, <1>3, <2>1, <3>1, <3>2, RunMoves, NothingDeleted DEF Select
  <2>2. CASE collector' = [collector EXCEPT ![r].at = "delete", ![r].victims = Eldest(expiredRows)]
               /\ gcFaults' = gcFaults
    <3> DEFINE c == collector[r]
               d == [c EXCEPT !.at = "delete", !.victims = Eldest(expiredRows)]
    <3>1. collector \in [Collectors -> Runs] /\ c \in Runs /\ expiredRows \in SUBSET (1..ExpiredRows)
      BY <1>1 DEF CollectionTypeOK, Runs
    <3>2. Eldest(expiredRows) \subseteq expiredRows /\ Cardinality(Eldest(expiredRows)) <= RowsPerBatch
      BY <3>1, BatchIsBounded
    <3>3. d \in Runs /\ d.at = "delete" /\ d.victims = Eldest(expiredRows)
          /\ d.batches = c.batches
      BY <3>1, <3>2 DEF Runs
    <3>4. collector' = [collector EXCEPT ![r] = d]
      BY <2>2, <3>1
    <3> HIDE DEF d
    <3>5. /\ collector' \in [Collectors -> Runs] /\ collector'[r] = d
          /\ \A s \in Collectors \ {r} : collector'[s] = collector[s]
      BY <3>1, <3>3, <3>4
    <3>6. CollectionTypeOK'
      BY <1>1, <1>3, <2>2, <3>5 DEF Select, CollectionTypeOK, Runs
    <3>7. RunInv(r)'
      BY <1>1, <1>3, <3>2, <3>3, <3>5 DEF Select, RunInv, GcAt
    <3> QED
      BY <1>3, <3>3, <3>5, <3>6, <3>7, NothingDeleted DEF Select
  <2> QED
    BY <1>3, <2>1, <2>2 DEF Select
<1>4. ASSUME NEW r \in Collectors, Delete(r) PROVE CollectionInv'
  <2>1. CASE GcFail(r)
    <3>1. CollectionTypeOK'
      BY <1>1, <1>4, <2>1, RunMoves DEF Delete, CollectionTypeOK, Runs
    <3>2. RunInv(r)'
      BY <1>1, <1>4, <2>1, RunMoves DEF Delete, RunInv, GcAt
    <3> QED
      BY <1>1, <1>4, <2>1, <3>1, <3>2, RunMoves, NothingDeleted DEF Delete
  <2>2. CASE /\ \A s \in Collectors \ {r} :
                  GcAt(s, "commit") => collector[s].victims \cap collector[r].victims = {}
             /\ collector' = [collector EXCEPT ![r].at = "commit", ![r].victims = @ \cap expiredRows]
             /\ gcFaults' = gcFaults
    <3> DEFINE c == collector[r]
               v == c.victims \cap expiredRows
               d == [c EXCEPT !.at = "commit", !.victims = v]
    <3>1. collector \in [Collectors -> Runs] /\ c \in Runs /\ expiredRows \in SUBSET (1..ExpiredRows)
      BY <1>1 DEF CollectionTypeOK, Runs
    <3>2. /\ v \subseteq expiredRows /\ v \subseteq c.victims
          /\ Cardinality(v) <= RowsPerBatch
      <4>1. c.victims \in SUBSET (1..ExpiredRows) /\ Cardinality(c.victims) <= RowsPerBatch
        BY <1>1, <1>4, <3>1 DEF Runs, RunInv, Delete, GcAt
      <4>2. IsFiniteSet(c.victims) /\ Cardinality(c.victims) \in Nat
        BY <4>1, RowsAreFinite
      <4>3. Cardinality(v) <= Cardinality(c.victims) /\ Cardinality(v) \in Nat
        BY <4>2, FS_Subset, FS_CardinalityType
      <4> QED
        BY <1>1, <4>1, <4>2, <4>3
    <3>3. d \in Runs /\ d.at = "commit" /\ d.victims = v /\ d.batches = c.batches
      BY <3>1, <3>2 DEF Runs
    <3>4. collector' = [collector EXCEPT ![r] = d]
      BY <2>2, <3>1
    <3> HIDE DEF d
    <3>5. /\ collector' \in [Collectors -> Runs] /\ collector'[r] = d
          /\ \A s \in Collectors \ {r} : collector'[s] = collector[s]
      BY <3>1, <3>3, <3>4
    <3>6. CollectionTypeOK'
      BY <1>1, <1>4, <2>2, <3>5 DEF Delete, CollectionTypeOK, Runs
    <3>7. RunInv(r)'
      BY <1>1, <1>4, <3>2, <3>3, <3>5 DEF Delete, RunInv, GcAt
    <3>8. \A s \in Collectors \ {r} : collector[s].at = "commit" =>
            collector[s].victims \cap collector'[r].victims = {}
      BY <2>2, <3>2, <3>3, <3>5 DEF GcAt
    <3> QED
      BY <1>4, <3>3, <3>5, <3>6, <3>7, <3>8, NothingDeleted DEF Delete
  <2> QED
    BY <1>4, <2>1, <2>2 DEF Delete
<1>5. ASSUME NEW r \in Collectors, Commit(r) PROVE CollectionInv'
  <2>1. CASE Purge(r) /\ GcGoto(r, "record") /\ gcFaults' = gcFaults
    BY <1>1, <1>5, <2>1, RunMoves, PurgeKept DEF Commit, CollectionTypeOK
  <2>2. CASE GcFail(r) /\ Purge(r)
    BY <1>1, <1>5, <2>2, RunMoves, PurgeKept DEF Commit
  <2>3. CASE GcFail(r) /\ UNCHANGED <<expiredRows, purged>>
    <3>1. CollectionTypeOK'
      BY <1>1, <1>5, <2>3, RunMoves DEF Commit, CollectionTypeOK, Runs
    <3>2. RunInv(r)'
      BY <1>1, <1>5, <2>3, RunMoves DEF Commit, RunInv, GcAt
    <3> QED
      BY <1>1, <1>5, <2>3, <3>1, <3>2, RunMoves, NothingDeleted DEF Commit
  <2> QED
    BY <1>5, <2>1, <2>2, <2>3 DEF Commit

<1>6. ASSUME NEW r \in Collectors, RecordBatch(r) PROVE CollectionInv'
  <2> DEFINE c == collector[r]
             n == Cardinality(c.victims)
  <2>1. c \in Runs /\ c.at = "record" /\ purged[r] = gcLog[r].deleted + n /\ n <= RowsPerBatch
        /\ c.batches < MaxBatches /\ gcLog[r].started /\ gcLog[r].ended = "no"
    BY <1>1, <1>6 DEF RecordBatch, GcAt, CollectionTypeOK, RunInv, Runs
  <2>2. n \in Nat
    BY <2>1, RowsAreFinite DEF Runs
  <2> HIDE DEF n
  <2>3. PICK probed \in BOOLEAN, logged \in BOOLEAN :
          /\ gcLog' = IF ~logged THEN gcLog ELSE [gcLog EXCEPT ![r].deleted = @ + n]
          /\ IF probed /\ logged
               THEN LET m == collector[r].batches + 1 IN
                    /\ collector' = [collector EXCEPT ![r].at = AfterBatch(r, m), ![r].batches = m]
                    /\ UNCHANGED gcFaults
               ELSE GcFail(r)
    BY <1>6 DEF RecordBatch, n
  <2>4. /\ gcLog' \in [Collectors ->
             [started : BOOLEAN, deleted : Nat, ended : {"no", "stopped", "completed"}]]
        /\ \A s \in Collectors \ {r} : gcLog'[s] = gcLog[s]
        /\ gcLog'[r].started /\ gcLog'[r].ended = "no"
        /\ gcLog'[r].deleted = IF logged THEN gcLog[r].deleted + n ELSE gcLog[r].deleted
    <3>1. gcLog[r].deleted + n \in Nat
      BY <1>1, <2>2
    <3> QED
      BY <1>1, <2>1, <2>3, <3>1 DEF CollectionTypeOK
  <2>5. CASE probed /\ logged
    <3> DEFINE m == c.batches + 1
               d == [c EXCEPT !.at = AfterBatch(r, m), !.batches = m]
    <3>1. collector \in [Collectors -> Runs] /\ m \in 0..MaxBatches
      BY <1>1, <2>1, CollectionAssumption DEF CollectionAssumption, CollectionTypeOK, Runs
    <3>2. /\ d \in Runs /\ d.at \in {"end", "select"} /\ d.batches = m
          /\ d.at = "select" => m # MaxBatches
      BY <2>1, <3>1 DEF Runs, AfterBatch
    <3>3. collector' = [collector EXCEPT ![r] = d] /\ gcFaults' = gcFaults
      BY <2>3, <2>5, <3>1
    <3> HIDE DEF d
    <3>4. /\ collector' \in [Collectors -> Runs] /\ collector'[r] = d
          /\ \A s \in Collectors \ {r} : collector'[s] = collector[s]
      BY <3>1, <3>2, <3>3
    <3>5. CollectionTypeOK'
      BY <1>1, <1>6, <2>4, <3>3, <3>4 DEF RecordBatch, CollectionTypeOK, Runs
    <3>6. RunInv(r)'
      <4>1. gcLog'[r].deleted = purged[r] /\ purged'[r] = purged[r] /\ purged[r] \in Nat
        BY <1>1, <1>6, <2>1, <2>2, <2>4, <2>5 DEF RecordBatch
      <4>2. d.at = "select" => d.batches < MaxBatches
        BY <3>1, <3>2, CollectionAssumption DEF CollectionAssumption
      <4>3. purged[r] <= purged[r] /\ purged[r] <= purged[r] + RowsPerBatch
        BY <1>1, <4>1
      <4> QED
        BY <2>4, <3>2, <3>4, <4>1, <4>2, <4>3 DEF RunInv
    <3> QED
      BY <1>6, <2>4, <3>2, <3>4, <3>5, <3>6, NothingDeleted DEF RecordBatch
  <2>6. CASE ~(probed /\ logged)
    <3>1. /\ collector' \in [Collectors -> Runs] /\ gcFaults' \in 0..MaxGcFaults
          /\ \A s \in Collectors \ {r} : collector'[s] = collector[s]
          /\ collector'[r].at = "end" /\ collector'[r].failed
      BY <1>1, <2>3, <2>6, RunMoves
    <3>2. CollectionTypeOK'
      BY <1>1, <1>6, <2>4, <3>1 DEF RecordBatch, CollectionTypeOK, Runs
    <3>3. RunInv(r)'
      BY <1>1, <1>6, <2>1, <2>2, <2>4, <3>1 DEF RecordBatch, RunInv
    <3> QED
      BY <1>6, <2>4, <3>1, <3>2, <3>3, NothingDeleted DEF RecordBatch
  <2> QED
    BY <2>5, <2>6
<1>7. ASSUME NEW r \in Collectors, End(r) PROVE CollectionInv'
  <2>1. CASE /\ gcLog' = [gcLog EXCEPT ![r].ended = IF collector[r].failed THEN "stopped" ELSE "completed"]
             /\ GcGoto(r, "done") /\ gcFaults' = gcFaults
    <3>1. /\ gcLog' \in [Collectors ->
               [started : BOOLEAN, deleted : Nat, ended : {"no", "stopped", "completed"}]]
          /\ \A s \in Collectors \ {r} : gcLog'[s] = gcLog[s]
          /\ gcLog'[r].started = gcLog[r].started /\ gcLog'[r].deleted = gcLog[r].deleted
          /\ gcLog'[r].ended = IF collector[r].failed THEN "stopped" ELSE "completed"
      BY <1>1, <2>1 DEF CollectionTypeOK
    <3>2. CollectionTypeOK'
      BY <1>1, <1>7, <2>1, <3>1, RunMoves DEF End, CollectionTypeOK, Runs
    <3>3. RunInv(r)'
      BY <1>1, <1>7, <2>1, <3>1, RunMoves DEF End, RunInv, GcAt
    <3> QED
      BY <1>1, <1>7, <2>1, <3>1, <3>2, <3>3, RunMoves, NothingDeleted DEF End
  <2>2. CASE /\ GcFault /\ gcLog' = gcLog
             /\ collector' = [collector EXCEPT ![r].at = "done", ![r].failed = TRUE]
    <3> DEFINE d == [collector[r] EXCEPT !.at = "done", !.failed = TRUE]
    <3>1. collector \in [Collectors -> Runs] /\ d \in Runs /\ d.at = "done"
      BY <1>1 DEF CollectionTypeOK, Runs
    <3>2. collector' = [collector EXCEPT ![r] = d]
      BY <2>2, <3>1
    <3> HIDE DEF d
    <3>3. /\ collector' \in [Collectors -> Runs] /\ collector'[r].at = "done"
          /\ \A s \in Collectors \ {r} : collector'[s] = collector[s]
      BY <3>1, <3>2
    <3>4. CollectionTypeOK'
      BY <1>1, <1>7, <2>2, <3>3, RunMoves DEF End, CollectionTypeOK, Runs
    <3>5. RunInv(r)'
      BY <1>1, <1>7, <2>2, <3>3 DEF End, RunInv, GcAt
    <3> QED
      BY <1>7, <2>2, <3>3, <3>4, <3>5, NothingDeleted DEF End
  <2> QED
    BY <1>7, <2>1, <2>2 DEF End
<1>8. ASSUME NEW r \in Collectors, KillCollector(r) PROVE CollectionInv'
  <2>1. CollectionTypeOK'
    BY <1>1, <1>8, RunMoves DEF KillCollector, CollectionTypeOK, Runs
  <2>2. RunInv(r)'
    BY <1>1, <1>8, RunMoves DEF KillCollector, RunInv
  <2> QED
    BY <1>1, <1>8, <2>1, <2>2, RunMoves, NothingDeleted DEF KillCollector
<1>9. CASE UNCHANGED collectionVars
  BY <1>9 DEF collectionVars, CollectionInv, CollectionTypeOK, RunInv, RowsAreCounted, BatchesApart
<1> QED
  BY <1>2, <1>3, <1>4, <1>5, <1>6, <1>7, <1>8, <1>9 DEF CollectionNext

\* However many collections run beside each other, fail and are killed: the log of
\* each lags its deletions by one batch at most, and no row is counted twice
\* (runAuditPhaseAApply, audit-retention-gc-operator.mjs).
THEOREM DeletionsAreLogged == CollectionSpec => []LogAccountsForDeletions
<1>1. CollectionInv => LogAccountsForDeletions
  <2> SUFFICES ASSUME CollectionInv PROVE LogAccountsForDeletions
    OBVIOUS
  <2>1. ASSUME NEW r \in Collectors
        PROVE  /\ gcLog[r].deleted <= purged[r] /\ purged[r] - gcLog[r].deleted <= RowsPerBatch
               /\ purged[r] > 0 => gcLog[r].started
               /\ gcLog[r].ended = "completed" => gcLog[r].deleted = purged[r]
    <3>1. purged[r] \in Nat /\ gcLog[r].deleted \in Nat /\ RowsPerBatch \in Nat /\ RunInv(r)
      BY CollectionAssumption DEF CollectionAssumption, CollectionInv, CollectionTypeOK
    <3> QED
      BY <3>1 DEF RunInv
  <2> QED
    BY <2>1 DEF LogAccountsForDeletions, CollectionInv, RowsAreCounted
<1> QED
  BY InitCollectionInv, NextCollectionInv, <1>1, PTL DEF CollectionSpec

(***************************************************************************)
(* Start and close of the capability listener                              *)
(***************************************************************************)

RuntimeSpec == RuntimeInit /\ [][RuntimeNext]_runtimeVars

\* What is open is in the hands of the bootstrap, of the close, or of both at no time.
InHand ==
  owned \cup (IF server THEN {Http} ELSE {}) \cup draining["boot"] \cup draining["close"]
    \cup (IF boot.at = "drop" THEN {boot.item} ELSE {})

OpenIsInHand ==
  /\ opened \subseteq InHand
  /\ owned \subseteq opened /\ (server => Http \in opened)

\* The pending start and the pending close, and what the state says of them.
PendingStart ==
  /\ boot.at = "none" => boot = NoBoot
  /\ state \in {"idle", "started"} => boot = NoBoot
  /\ state = "starting" => boot.at \notin {"none", "drop"} /\ boot.token = generation
  /\ draining["boot"] # {} => boot.at = "catch"

PendingClose ==
  /\ state = "closing" <=> closer.at # "none"
  /\ closer.at = "none" => closer = NoCloser /\ draining["close"] = {}
  /\ closer.at = "drain" /\ ~closer.pendingStart => boot = NoBoot
  /\ closer.at = "last" => boot = NoBoot

\* What the variables owned and server hold at each await of the bootstrap.
OwnedSoFar ==
  /\ (state \in {"idle", "closing"} \/ boot.at = "catch") => owned = {} /\ ~server
  /\ state = "started" => owned = RuntimeResources /\ server
  /\ state = "starting" /\ boot.at \in {"listen", "listened"} => owned = RuntimeResources /\ server
  /\ state = "starting" /\ boot.at = "create" => owned = 1..(boot.item - 1)
  /\ state = "starting" /\ boot.at = "owned" => owned = 1..boot.item
  /\ state = "starting" /\ boot.at = "ready" => owned = RuntimeResources
  /\ state \in {"idle", "starting"} => ~signals

RuntimeInv == RuntimeTypeOK /\ OpenIsInHand /\ PendingStart /\ PendingClose /\ OwnedSoFar

\* Nothing is open before the first start.
LEMMA InitRuntimeInv == RuntimeInit => RuntimeInv
<1> SUFFICES ASSUME RuntimeInit PROVE RuntimeInv
  OBVIOUS
<1>1. LastResource \in Nat \ {0} /\ MaxGenerations \in Nat \ {0}
  BY RuntimeAssumption DEF RuntimeAssumption
<1>2. 1 \in RuntimeResources /\ 0 \in 0..MaxGenerations
  BY <1>1 DEF RuntimeResources
<1>3. RuntimeTypeOK
  BY <1>2 DEF RuntimeInit, RuntimeTypeOK, NoBoot, NoCloser
<1>4. OpenIsInHand /\ PendingStart /\ PendingClose /\ OwnedSoFar
  BY DEF RuntimeInit, OpenIsInHand, PendingStart, PendingClose, OwnedSoFar, NoBoot, NoCloser, InHand
<1> QED
  BY <1>3, <1>4 DEF RuntimeInv

\* The numbers of the resources and of the server.
LEMMA ResourceNumbers ==
  /\ LastResource \in Nat \ {0} /\ RuntimeResources \subseteq 1..Http /\ Http \in 1..Http
  /\ Http \notin RuntimeResources /\ 1 \in RuntimeResources
  /\ 1..Http = RuntimeResources \cup {Http}
  /\ 1..(1 - 1) = {}
  /\ \A x \in RuntimeResources :
       /\ 1..x = 1..(x - 1) \cup {x} /\ 1..x \subseteq RuntimeResources
       /\ x # LastResource => x + 1 \in RuntimeResources /\ (x + 1) - 1 = x
<1>1. LastResource \in Nat \ {0}
  BY RuntimeAssumption DEF RuntimeAssumption
<1> QED
  BY <1>1 DEF RuntimeResources, Http

\* A step of the bootstrap to another await.
LEMMA BootMoves ==
  ASSUME RuntimeTypeOK, NEW item \in RuntimeResources,
         NEW step \in {"create", "drop", "owned", "ready", "listen", "listened", "cancelled", "catch"},
         BootGoto(step, item)
  PROVE  /\ boot' \in [at : {"none", "create", "drop", "owned", "ready", "listen", "listened",
                             "cancelled", "catch"},
                       token : 0..MaxGenerations, item : RuntimeResources]
         /\ boot'.at = step /\ boot'.item = item /\ boot'.token = boot.token
  BY DEF RuntimeTypeOK, BootGoto

\* What the bootstrap has is handed over when it fails.
LEMMA CatchKeeps ==
  ASSUME RuntimeInv, CatchBoot, boot.at \notin {"none", "drop", "catch"},
         UNCHANGED <<generation, closer>>
  PROVE  RuntimeInv'
<1> DEFINE d == owned \cup IF server THEN {Http} ELSE {}
<1>1. /\ boot'.at = "catch" /\ boot'.token = boot.token
      /\ boot' \in [at : {"none", "create", "drop", "owned", "ready", "listen", "listened",
                          "cancelled", "catch"},
                    token : 0..MaxGenerations, item : RuntimeResources]
  BY ResourceNumbers, BootMoves DEF CatchBoot, RuntimeInv
<1>2. /\ draining' \in [{"boot", "close"} -> SUBSET (1..Http)]
      /\ draining'["boot"] = d /\ draining'["close"] = draining["close"]
      /\ owned' = {} /\ ~server' /\ server' \in BOOLEAN
      /\ UNCHANGED <<state, signals, opened, generation, closer>>
  <2>1. d \in SUBSET (1..Http)
    BY ResourceNumbers DEF RuntimeInv, RuntimeTypeOK
  <2> QED
    BY <2>1 DEF CatchBoot, Drain, RuntimeInv, RuntimeTypeOK
<1>3. draining["boot"] = {}
  BY DEF RuntimeInv, PendingStart
<1>4. RuntimeTypeOK'
  BY <1>1, <1>2 DEF RuntimeInv, RuntimeTypeOK, RuntimeResources, Http
<1>5. OpenIsInHand'
  BY <1>1, <1>2, <1>3 DEF RuntimeInv, OpenIsInHand, InHand, Http
<1>6. PendingStart' /\ PendingClose'
  BY <1>1, <1>2 DEF RuntimeInv, PendingStart, PendingClose, NoBoot, NoCloser
<1>7. OwnedSoFar'
  BY <1>1, <1>2 DEF RuntimeInv, OwnedSoFar, PendingStart, NoBoot
<1> QED
  BY <1>4, <1>5, <1>6, <1>7 DEF RuntimeInv

\* Every step of the bootstrap, of the close and of the program keeps the invariant.
LEMMA NextRuntimeInv == RuntimeInv /\ [RuntimeNext]_runtimeVars => RuntimeInv'
<1> SUFFICES ASSUME RuntimeInv, [RuntimeNext]_runtimeVars PROVE RuntimeInv'
  OBVIOUS
<1>1. RuntimeTypeOK /\ OpenIsInHand /\ PendingStart /\ PendingClose /\ OwnedSoFar
  BY DEF RuntimeInv
<1>2. MaxGenerations \in Nat \ {0} /\ generation \in Nat /\ \A x \in RuntimeResources : x \in Nat
  BY <1>1, RuntimeAssumption DEF RuntimeAssumption, RuntimeTypeOK, RuntimeResources
<1>3. boot.at # "none" => state \in {"starting", "closing"} /\ (Stale <=> state = "closing")
  BY <1>1 DEF PendingStart, RuntimeTypeOK, Stale, NoBoot
<1>4. boot.item \in RuntimeResources
  BY <1>1 DEF RuntimeTypeOK
<1>5. ASSUME StartRuntime PROVE RuntimeInv'
  <2>1. /\ state = "idle" /\ state' = "starting" /\ generation' = generation + 1
        /\ boot'.at = "create" /\ boot'.token = generation + 1 /\ boot'.item = 1
        /\ boot' = [at |-> "create", token |-> generation + 1, item |-> 1]
        /\ closer = NoCloser /\ boot = NoBoot
        /\ UNCHANGED <<closer, owned, server, draining, opened, signals>>
    BY <1>5 DEF StartRuntime
  <2>2. generation' \in 0..MaxGenerations
    BY <1>2, <1>5 DEF StartRuntime
  <2>3. RuntimeTypeOK'
    BY <1>1, <2>1, <2>2, ResourceNumbers DEF RuntimeTypeOK, RuntimeResources, Http
  <2>4. OpenIsInHand'
    BY <1>1, <2>1 DEF OpenIsInHand, InHand, NoBoot, Http
  <2>5. PendingStart' /\ PendingClose'
    BY <1>1, <2>1 DEF PendingStart, PendingClose, NoBoot, NoCloser
  <2>6. OwnedSoFar'
    BY <1>1, <2>1, ResourceNumbers DEF OwnedSoFar
  <2> QED
    BY <2>3, <2>4, <2>5, <2>6 DEF RuntimeInv
<1>6. ASSUME FactoryAnswers PROVE RuntimeInv'
  <2>1. CASE CatchBoot
    BY <1>6, <2>1, CatchKeeps DEF FactoryAnswers
  <2>2. CASE ~CatchBoot
    <3> DEFINE step == IF Stale THEN "drop" ELSE "owned"
    <3>1. /\ boot.at = "create" /\ opened' = opened \cup {boot.item} /\ BootGoto(step, boot.item)
          /\ owned' = IF Stale THEN owned ELSE owned \cup {boot.item}
          /\ UNCHANGED <<generation, closer, state, server, draining, signals>>
      BY <1>6, <2>2 DEF FactoryAnswers
    <3>2. /\ boot' \in [at : {"none", "create", "drop", "owned", "ready", "listen", "listened",
                              "cancelled", "catch"},
                        token : 0..MaxGenerations, item : RuntimeResources]
          /\ boot'.at = step /\ boot'.item = boot.item /\ boot'.token = boot.token
      BY <1>1, <1>4, <3>1, BootMoves
    <3>3. RuntimeTypeOK'
      BY <1>1, <1>4, <3>1, <3>2, ResourceNumbers DEF RuntimeTypeOK, RuntimeResources, Http
    <3>4. draining["boot"] = {}
      BY <1>1, <3>1 DEF PendingStart
    <3>5. OpenIsInHand'
      BY <1>1, <3>1, <3>2, <3>4 DEF OpenIsInHand, InHand, Http
    <3>6. PendingStart' /\ PendingClose'
      BY <1>1, <1>3, <3>1, <3>2, <3>4 DEF PendingStart, PendingClose, NoBoot
    <3>7. OwnedSoFar'
      BY <1>1, <1>3, <1>4, <3>1, <3>2, ResourceNumbers DEF OwnedSoFar, PendingStart, NoBoot
    <3> QED
      BY <3>3, <3>5, <3>6, <3>7 DEF RuntimeInv
  <2> QED
    BY <2>1, <2>2
<1>7. ASSUME DropStale PROVE RuntimeInv'
  <2> DEFINE d == owned \cup IF server THEN {Http} ELSE {}
  <2>1. /\ boot.at = "drop" /\ state = "closing" /\ owned = {} /\ ~server /\ d = {}
        /\ draining["boot"] = {}
    BY <1>1, <1>3, <1>7 DEF DropStale, PendingStart, OwnedSoFar
  <2>2. /\ boot' \in [at : {"none", "create", "drop", "owned", "ready", "listen", "listened",
                            "cancelled", "catch"},
                      token : 0..MaxGenerations, item : RuntimeResources]
        /\ boot'.at = "catch" /\ boot'.token = boot.token
    BY <1>1, <1>7, ResourceNumbers, BootMoves DEF DropStale
  <2>3. /\ draining' \in [{"boot", "close"} -> SUBSET (1..Http)]
        /\ draining'["boot"] = {} /\ draining'["close"] = draining["close"]
        /\ owned' = {} /\ ~server' /\ server' \in BOOLEAN
        /\ opened' = opened \ {boot.item}
        /\ UNCHANGED <<state, signals, generation, closer>>
    BY <1>1, <1>7, <2>1 DEF DropStale, Drain, RuntimeTypeOK
  <2>4. RuntimeTypeOK'
    BY <1>1, <2>2, <2>3 DEF RuntimeTypeOK, RuntimeResources, Http
  <2>5. OpenIsInHand'
    BY <1>1, <2>1, <2>2, <2>3 DEF OpenIsInHand, InHand, Http
  <2>6. PendingStart' /\ PendingClose'
    BY <1>1, <2>1, <2>2, <2>3 DEF PendingStart, PendingClose, NoBoot
  <2>7. OwnedSoFar'
    BY <1>1, <2>1, <2>2, <2>3 DEF OwnedSoFar
  <2> QED
    BY <2>4, <2>5, <2>6, <2>7 DEF RuntimeInv
<1>8. ASSUME NEW step \in {"create", "ready", "listened", "cancelled"}, NEW item \in RuntimeResources,
             BootGoto(step, item), boot.at \notin {"none", "drop", "catch"},
             UNCHANGED <<state, owned, server, draining, opened, signals, generation, closer>>,
             state = "starting" /\ step = "create" => owned = 1..(item - 1),
             state = "starting" /\ step = "ready" => owned = RuntimeResources,
             state = "starting" /\ step = "listened" => owned = RuntimeResources /\ server
      PROVE  RuntimeInv'
  <2>1. /\ boot' \in [at : {"none", "create", "drop", "owned", "ready", "listen", "listened",
                            "cancelled", "catch"},
                      token : 0..MaxGenerations, item : RuntimeResources]
        /\ boot'.at = step /\ boot'.item = item /\ boot'.token = boot.token
    BY <1>1, <1>8, BootMoves
  <2>2. RuntimeTypeOK'
    BY <1>1, <1>8, <2>1 DEF RuntimeTypeOK, RuntimeResources, Http
  <2>3. OpenIsInHand'
    BY <1>1, <1>8, <2>1 DEF OpenIsInHand, InHand, Http
  <2>4. PendingStart' /\ PendingClose'
    BY <1>1, <1>8, <2>1 DEF PendingStart, PendingClose, NoBoot
  <2>5. OwnedSoFar'
    BY <1>1, <1>8, <2>1, <1>3 DEF OwnedSoFar, PendingStart, NoBoot
  <2> QED
    BY <2>2, <2>3, <2>4, <2>5 DEF RuntimeInv
<1>9. ASSUME Owned PROVE RuntimeInv'
  <2>1. CASE CatchBoot
    BY <1>9, <2>1, CatchKeeps DEF Owned
  <2>2. CASE ~CatchBoot
    <3>1. /\ boot.at = "owned" /\ state = "starting" /\ owned = 1..boot.item
          /\ UNCHANGED <<state, owned, server, draining, opened, signals, generation, closer>>
      BY <1>1, <1>3, <1>9, <2>2 DEF Owned, OwnedSoFar
    <3>2. CASE boot.item = LastResource /\ BootGoto("ready", 1)
      BY <1>8, <3>1, <3>2, ResourceNumbers DEF RuntimeResources
    <3>3. CASE boot.item # LastResource /\ BootGoto("create", boot.item + 1)
      BY <1>4, <1>8, <3>1, <3>3, ResourceNumbers
    <3> QED
      BY <1>9, <2>2, <3>2, <3>3 DEF Owned
  <2> QED
    BY <2>1, <2>2
<1>10. ASSUME Ready PROVE RuntimeInv'
  <2>1. CASE CatchBoot
    BY <1>10, <2>1, CatchKeeps DEF Ready
  <2>2. CASE /\ ~Stale /\ boot.item < LastResource /\ BootGoto("ready", boot.item + 1)
             /\ UNCHANGED <<state, owned, server, draining, opened, signals>>
    <3>1. boot.at = "ready" /\ owned = RuntimeResources /\ boot.item + 1 \in RuntimeResources
      BY <1>1, <1>2, <1>3, <1>4, <1>10, <2>2, ResourceNumbers DEF Ready, OwnedSoFar
    <3> QED
      BY <1>8, <1>10, <2>2, <3>1 DEF Ready
  <2>3. CASE /\ ~Stale /\ BootGoto("listen", 1)
             /\ server' = TRUE /\ opened' = opened \cup {Http}
             /\ UNCHANGED <<state, owned, draining, signals>>
    <3>1. /\ boot.at = "ready" /\ state = "starting" /\ owned = RuntimeResources
          /\ draining["boot"] = {} /\ UNCHANGED <<generation, closer>>
      BY <1>1, <1>3, <1>10, <2>3 DEF Ready, OwnedSoFar, PendingStart
    <3>2. /\ boot' \in [at : {"none", "create", "drop", "owned", "ready", "listen", "listened",
                              "cancelled", "catch"},
                        token : 0..MaxGenerations, item : RuntimeResources]
          /\ boot'.at = "listen" /\ boot'.token = boot.token
      BY <1>1, <2>3, ResourceNumbers, BootMoves
    <3>3. RuntimeTypeOK'
      BY <1>1, <2>3, <3>1, <3>2, ResourceNumbers DEF RuntimeTypeOK, RuntimeResources, Http
    <3>4. OpenIsInHand'
      BY <1>1, <2>3, <3>1, <3>2 DEF OpenIsInHand, InHand, Http
    <3>5. PendingStart' /\ PendingClose'
      BY <1>1, <2>3, <3>1, <3>2 DEF PendingStart, PendingClose, NoBoot
    <3>6. OwnedSoFar'
      BY <1>1, <2>3, <3>1, <3>2 DEF OwnedSoFar, RuntimeResources
    <3> QED
      BY <3>3, <3>4, <3>5, <3>6 DEF RuntimeInv
  <2> QED
    BY <1>10, <2>1, <2>2, <2>3 DEF Ready
<1>11. ASSUME ListenAnswered PROVE RuntimeInv'
  <2>1. PICK step \in {"listened", "cancelled"} : BootGoto(step, 1)
    BY <1>11 DEF ListenAnswered
  <2>2. /\ boot.at = "listen"
        /\ UNCHANGED <<state, owned, server, draining, opened, signals, generation, closer>>
        /\ state = "starting" => owned = RuntimeResources /\ server
    BY <1>1, <1>11 DEF ListenAnswered, OwnedSoFar
  <2> QED
    BY <1>8, <2>1, <2>2, ResourceNumbers
<1>12. ASSUME Listened PROVE RuntimeInv'
  <2>1. CASE CatchBoot
    BY <1>12, <2>1, CatchKeeps DEF Listened
  <2>2. CASE ~CatchBoot
    <3>1. /\ boot.at = "listened" /\ state = "starting" /\ owned = RuntimeResources /\ server
          /\ state' = "started" /\ signals' = TRUE /\ boot' = NoBoot
          /\ UNCHANGED <<owned, server, draining, opened, generation, closer>>
      BY <1>1, <1>3, <1>12, <2>2 DEF Listened, OwnedSoFar
    <3>2. boot'.at = "none" /\ boot' \in [at : {"none", "create", "drop", "owned", "ready", "listen",
                                             "listened", "cancelled", "catch"},
                                       token : 0..MaxGenerations, item : RuntimeResources]
      BY <1>2, <3>1, ResourceNumbers DEF NoBoot
    <3>3. RuntimeTypeOK'
      BY <1>1, <3>1, <3>2 DEF RuntimeTypeOK, RuntimeResources, Http
    <3>4. OpenIsInHand'
      BY <1>1, <3>1, <3>2 DEF OpenIsInHand, InHand, Http
    <3>5. PendingStart' /\ PendingClose'
      BY <1>1, <3>1, <3>2 DEF PendingStart, PendingClose, NoBoot
    <3>6. OwnedSoFar'
      BY <1>1, <3>1, <3>2 DEF OwnedSoFar, RuntimeResources
    <3> QED
      BY <3>3, <3>4, <3>5, <3>6 DEF RuntimeInv
  <2> QED
    BY <2>1, <2>2
<1>13. ASSUME NEW who \in {"boot", "close"}, CloseOne(who) PROVE RuntimeInv'
  <2>1. PICK last : /\ opened' = opened \ {last}
                    /\ draining' = [draining EXCEPT ![who] = @ \ {last}]
    BY <1>13 DEF CloseOne
  <2>2. /\ draining[who] # {}
        /\ UNCHANGED <<state, generation, boot, closer, owned, server, signals>>
        /\ draining' \in [{"boot", "close"} -> SUBSET (1..Http)]
        /\ draining'[who] = draining[who] \ {last}
        /\ \A w \in {"boot", "close"} : w # who => draining'[w] = draining[w]
    BY <1>1, <1>13, <2>1 DEF CloseOne, RuntimeTypeOK
  <2>3. owned = {} /\ ~server
    <3>1. CASE who = "boot"
      BY <1>1, <2>2, <3>1 DEF PendingStart, OwnedSoFar
    <3>2. CASE who = "close"
      BY <1>1, <2>2, <3>2 DEF PendingClose, OwnedSoFar
    <3> QED
      BY <3>1, <3>2
  <2>4. RuntimeTypeOK'
    BY <1>1, <2>1, <2>2 DEF RuntimeTypeOK, RuntimeResources, Http
  <2>5. opened' \subseteq InHand'
    <3>1. CASE who = "boot"
      BY <1>1, <2>1, <2>2, <2>3, <3>1 DEF OpenIsInHand, InHand, Http
    <3>2. CASE who = "close"
      BY <1>1, <2>1, <2>2, <2>3, <3>2 DEF OpenIsInHand, InHand, Http
    <3> QED
      BY <3>1, <3>2
  <2>6. OpenIsInHand'
    BY <2>2, <2>3, <2>5 DEF OpenIsInHand
  <2>7. PendingStart' /\ PendingClose'
    BY <1>1, <2>2 DEF PendingStart, PendingClose, NoBoot
  <2>8. OwnedSoFar'
    BY <1>1, <2>2 DEF OwnedSoFar, RuntimeResources
  <2> QED
    BY <2>4, <2>6, <2>7, <2>8 DEF RuntimeInv
<1>14. ASSUME BootFails PROVE RuntimeInv'
  <2>1. /\ boot.at = "catch" /\ draining["boot"] = {} /\ boot' = NoBoot /\ boot'.at = "none"
        /\ state' = IF state = "closing" THEN state ELSE "idle"
        /\ UNCHANGED <<generation, closer, owned, server, draining, opened, signals>>
        /\ state \in {"starting", "closing"}
    BY <1>1, <1>3, <1>14 DEF BootFails, NoBoot, RuntimeTypeOK
  <2>2. RuntimeTypeOK'
    BY <1>1, <1>2, <2>1, ResourceNumbers DEF RuntimeTypeOK, RuntimeResources, Http, NoBoot
  <2>3. OpenIsInHand'
    BY <1>1, <2>1 DEF OpenIsInHand, InHand, Http
  <2>4. PendingStart' /\ PendingClose'
    BY <1>1, <2>1 DEF PendingStart, PendingClose, NoBoot
  <2>5. OwnedSoFar'
    BY <1>1, <2>1 DEF OwnedSoFar, RuntimeResources
  <2> QED
    BY <2>2, <2>3, <2>4, <2>5 DEF RuntimeInv
<1>15. ASSUME CloseRuntime PROVE RuntimeInv'
  <2> DEFINE d == owned \cup IF server THEN {Http} ELSE {}
             step == IF boot.at = "listen" THEN "cancelled" ELSE boot.at
  <2>1. /\ closer = NoCloser /\ generation' \in 0..MaxGenerations /\ state' = "closing"
        /\ UNCHANGED <<opened, signals>>
        /\ closer' = [at |-> "drain", pendingStart |-> boot # NoBoot]
        /\ closer'.at = "drain" /\ (~closer'.pendingStart => boot = NoBoot)
        /\ draining["close"] = {}
    <3>1. generation' \in 0..MaxGenerations
      BY <1>2, <1>15 DEF CloseRuntime
    <3>2. /\ closer = NoCloser /\ state' = "closing" /\ UNCHANGED <<opened, signals>>
          /\ closer' = [at |-> "drain", pendingStart |-> boot # NoBoot]
      BY <1>15 DEF CloseRuntime
    <3>3. closer'.at = "drain" /\ (~closer'.pendingStart => boot = NoBoot)
      BY <3>2
    <3>4. draining["close"] = {}
      BY <1>1, <3>2 DEF PendingClose, NoCloser
    <3> QED
      BY <3>1, <3>2, <3>3, <3>4
  <2>2. /\ boot' \in [at : {"none", "create", "drop", "owned", "ready", "listen", "listened",
                            "cancelled", "catch"},
                      token : 0..MaxGenerations, item : RuntimeResources]
        /\ boot'.at = step /\ (boot.at # "listen" => boot' = boot)
    <3>1. CASE boot.at = "listen"
      BY <1>1, <1>15, <3>1, ResourceNumbers, BootMoves DEF CloseRuntime
    <3>2. CASE boot.at # "listen"
      BY <1>1, <1>15, <3>2 DEF CloseRuntime, RuntimeTypeOK
    <3> QED
      BY <3>1, <3>2
  <2>3. /\ draining' \in [{"boot", "close"} -> SUBSET (1..Http)]
        /\ draining'["close"] = d /\ draining'["boot"] = draining["boot"]
        /\ owned' = {} /\ ~server' /\ server' \in BOOLEAN
    <3>1. d \in SUBSET (1..Http)
      BY <1>1, ResourceNumbers DEF RuntimeTypeOK
    <3> QED
      BY <1>1, <1>15, <3>1 DEF CloseRuntime, Drain, RuntimeTypeOK
  <2>4. RuntimeTypeOK'
    BY <1>1, <2>1, <2>2, <2>3 DEF RuntimeTypeOK, RuntimeResources, Http
  <2>5. OpenIsInHand'
    BY <1>1, <2>1, <2>2, <2>3 DEF OpenIsInHand, InHand, Http
  <2>6. PendingStart' /\ PendingClose'
    BY <1>1, <2>1, <2>2, <2>3 DEF PendingStart, PendingClose, NoBoot
  <2>7. OwnedSoFar'
    BY <2>1, <2>3 DEF OwnedSoFar
  <2> QED
    BY <2>4, <2>5, <2>6, <2>7 DEF RuntimeInv
<1>16. ASSUME CloseAwaits PROVE RuntimeInv'
  <2>1. /\ closer.at = "drain" /\ draining["close"] = {} /\ (closer.pendingStart => boot = NoBoot)
        /\ closer' = [closer EXCEPT !.at = "last"]
        /\ UNCHANGED <<state, generation, boot, opened, signals>>
        /\ state = "closing" /\ owned = {} /\ ~server
    BY <1>1, <1>16 DEF CloseAwaits, PendingClose, OwnedSoFar
  <2>2. /\ closer' \in [at : {"none", "drain", "last"}, pendingStart : BOOLEAN]
        /\ closer'.at = "last" /\ boot = NoBoot
    BY <1>1, <2>1 DEF RuntimeTypeOK, PendingClose
  <2>3. /\ draining' \in [{"boot", "close"} -> SUBSET (1..Http)]
        /\ draining'["close"] = {} /\ draining'["boot"] = draining["boot"]
        /\ owned' = {} /\ ~server' /\ server' \in BOOLEAN
    BY <1>1, <1>16, <2>1 DEF CloseAwaits, Drain, RuntimeTypeOK
  <2>4. RuntimeTypeOK'
    BY <1>1, <2>1, <2>2, <2>3 DEF RuntimeTypeOK, RuntimeResources, Http
  <2>5. OpenIsInHand'
    BY <1>1, <2>1, <2>3 DEF OpenIsInHand, InHand, Http
  <2>6. PendingStart' /\ PendingClose'
    BY <1>1, <2>1, <2>2, <2>3 DEF PendingStart, PendingClose, NoBoot
  <2>7. OwnedSoFar'
    BY <2>1, <2>3 DEF OwnedSoFar
  <2> QED
    BY <2>4, <2>5, <2>6, <2>7 DEF RuntimeInv
<1>17. ASSUME Closed PROVE RuntimeInv'
  <2>1. /\ closer.at = "last" /\ draining["close"] = {} /\ closer' = NoCloser /\ state' = "idle"
        /\ ~signals' /\ signals' \in BOOLEAN /\ boot = NoBoot
        /\ UNCHANGED <<generation, boot, owned, server, draining, opened>>
        /\ owned = {} /\ ~server
    BY <1>1, <1>17 DEF Closed, PendingClose, OwnedSoFar
  <2>2. RuntimeTypeOK'
    BY <1>1, <2>1 DEF RuntimeTypeOK, RuntimeResources, Http, NoCloser
  <2>3. OpenIsInHand'
    BY <1>1, <2>1 DEF OpenIsInHand, InHand, Http
  <2>4. PendingStart' /\ PendingClose'
    BY <1>1, <2>1 DEF PendingStart, PendingClose, NoBoot, NoCloser
  <2>5. OwnedSoFar'
    BY <2>1 DEF OwnedSoFar, NoBoot
  <2> QED
    BY <2>2, <2>3, <2>4, <2>5 DEF RuntimeInv
<1>18. CASE UNCHANGED runtimeVars
  BY <1>1, <1>18 DEF runtimeVars, RuntimeInv, RuntimeTypeOK, OpenIsInHand, InHand, PendingStart,
     PendingClose, OwnedSoFar, RuntimeResources, Http
<1> QED
  BY <1>5, <1>6, <1>7, <1>9, <1>10, <1>11, <1>12, <1>13, <1>14, <1>15, <1>16, <1>17, <1>18
  DEF RuntimeNext

\* Whenever the runtime is closed, in the middle of whichever await of a start:
\* between starts nothing is open, no bootstrap goes on and no signal listener is
\* left, and while it serves everything it serves with is open
\* (src/capability-mcp-server-runtime.mjs).
THEOREM NothingOpenBetweenStarts == RuntimeSpec => []OpenOnlyWhileStarted
<1>1. RuntimeInv => OpenOnlyWhileStarted
  <2> SUFFICES ASSUME RuntimeInv PROVE OpenOnlyWhileStarted
    OBVIOUS
  <2>1. CASE state = "idle"
    BY <2>1 DEF RuntimeInv, OpenOnlyWhileStarted, OpenIsInHand, InHand, PendingStart, PendingClose,
       OwnedSoFar, NoBoot, NoCloser
  <2>2. CASE state = "started"
    <3>1. RuntimeResources \subseteq opened /\ Http \in opened /\ opened \subseteq 1..Http
      <4>1. owned = RuntimeResources /\ server
        BY <2>2 DEF RuntimeInv, OwnedSoFar
      <4>2. owned \subseteq opened /\ Http \in opened
        BY <4>1 DEF RuntimeInv, OpenIsInHand
      <4> QED
        BY <4>1, <4>2 DEF RuntimeInv, RuntimeTypeOK
    <3>2. 1..Http = RuntimeResources \cup {Http}
      BY ResourceNumbers
    <3>3. opened = 1..Http
      BY <3>1, <3>2
    <3> QED
      BY <2>2, <3>3 DEF OpenOnlyWhileStarted
  <2> QED
    BY <2>1, <2>2 DEF OpenOnlyWhileStarted
<1> QED
  BY InitRuntimeInv, NextRuntimeInv, <1>1, PTL DEF RuntimeSpec

(***************************************************************************)
(* The route change.  Whoever works under the lock file is alone, and      *)
(* every byte it writes keeps the other settings of the configuration that *)
(* it found: an execution wrote them to its backup before, a rollback      *)
(* compared them with the backup.                                          *)
(***************************************************************************)

OpSteps == {"stopped", "planned", "lock", "verify", "backup", "copy", "replace", "commitHook",
            "readiness", "rollbackHook", "restore", "result", "release"}
Working == OpSteps \ {"stopped", "planned", "lock"}
Changing == {"replace", "commitHook", "readiness", "restore", "rollbackHook", "result"}

Configuration == [mode : {"legacy", "active"}, edits : Nat]
LegacyBytes == [mode : {"legacy"}, edits : Nat]
RuntimeFile == [mode : {"legacy", "active"}, edits : Nat, ino : Nat]
Outcomes == {"none", "active", "rolled_back", "rollback_failed"}
OpRecord == [at : OpSteps, seen : Configuration \cup {Nothing},
             confirmed : RuntimeFile \cup {Nothing}, outcome : Outcomes]
CompleteBackup == [state : {"complete"}, bytes : LegacyBytes]

BackupIsOld(e) ==
  \/ routeBackup[e] = Nothing
  \/ routeBackup[e] = [state |-> "partial"]
  \/ routeBackup[e] \in CompleteBackup

ResultIsChange(e) ==
  \/ results[e] = Nothing
  \/ /\ results[e] \in [state : Outcomes, before : LegacyBytes, after : Configuration]
     /\ results[e].after = Routed(results[e].before)

CutoverTyped ==
  /\ runtime \in RuntimeFile
  /\ op \in [Operations -> OpRecord]
  /\ DOMAIN routeBackup = Executions /\ DOMAIN results = Executions
  /\ \A e \in Executions : BackupIsOld(e) /\ ResultIsChange(e)

\* The active configuration has a result and a backup.
ChangeIsRecorded ==
  runtime.mode = "active" =>
    \E e \in Executions :
      /\ results[e].state = "active" /\ results[e].after.edits <= runtime.edits
      /\ routeBackup[e] = [state |-> "complete", bytes |-> results[e].before]

\* The configuration is the change of a complete backup, or what it replaced.
SavedIn(e) == routeBackup[e].state = "complete" /\ routeBackup[e].bytes.edits = runtime.edits

RouteIsBacked == ChangeIsRecorded \/ (routeLock # {} /\ \E e \in Executions : SavedIn(e))

\* What an execution will write was the configuration that was confirmed.
Chosen(e) ==
  /\ op[e].confirmed \in RuntimeFile /\ op[e].seen \in LegacyBytes
  /\ op[e].seen = Bytes(op[e].confirmed)

ExecutionIsSafe(e) ==
  /\ op[e].at \in {"verify", "backup", "copy"} => Chosen(e)
  /\ op[e].at \in {"backup", "copy"} \cup Changing => results[e] = Nothing
  /\ op[e].at = "copy" => routeBackup[e] = [state |-> "partial"]
  /\ op[e].at \in Changing =>
       /\ op[e].seen \in LegacyBytes /\ runtime.edits = op[e].seen.edits
       /\ routeBackup[e] = [state |-> "complete", bytes |-> op[e].seen]
  /\ op[e].at = "rollbackHook" => runtime.mode = "legacy"
  /\ op[e].at = "result" =>
       op[e].outcome # "none" /\ (op[e].outcome = "rolled_back" => runtime.mode = "legacy")

RollbackIsSafe(r) ==
  /\ op[r].at \notin {"backup", "copy", "replace", "commitHook"}
  /\ op[r].at = "restore" =>
       routeBackup[ExecutionOf[r]] \in CompleteBackup /\ SavedIn(ExecutionOf[r])
  /\ op[r].at \in {"rollbackHook", "readiness"} => runtime.mode = "legacy"
  /\ op[r].at = "result" =>
       /\ op[r].outcome \in {"rolled_back", "rollback_failed"}
       /\ op[r].outcome = "rolled_back" => runtime.mode = "legacy"

OpIsSafe(o) ==
  /\ o \in Executions /\ op[o].at = "lock" => Chosen(o)
  /\ op[o].at \in Working =>
       /\ routeLock = {o}
       /\ op[o].at \in {"verify", "backup", "copy", "release"} => ChangeIsRecorded
       /\ o \in Executions => ExecutionIsSafe(o)
       /\ o \in Rollbacks => RollbackIsSafe(o)

CutoverInv == CutoverTyped /\ RouteIsBacked /\ \A o \in Operations : OpIsSafe(o)

LEMMA RoutedBytes ==
  ASSUME NEW b \in LegacyBytes
  PROVE  /\ b.mode = "legacy" /\ b.edits \in Nat
         /\ Routed(b) \in Configuration /\ Routed(b) = [mode |-> "active", edits |-> b.edits]
BY DEF LegacyBytes, Routed, Configuration

\* A configuration that is written.
LEMMA RuntimeWritten ==
  ASSUME runtime \in RuntimeFile, NEW b \in Configuration, WriteRuntime(b)
  PROVE  runtime' \in RuntimeFile /\ runtime'.mode = b.mode /\ runtime'.edits = b.edits
BY DEF RuntimeFile, Configuration, WriteRuntime

\* What the moves of an operation do to its process and to the others.
LEMMA OpMoves ==
  ASSUME CutoverTyped, NEW o \in Operations, NEW step \in OpSteps, NEW result \in Outcomes
  PROVE  /\ OpStep(o, step) =>
              /\ op' \in [Operations -> OpRecord] /\ op'[o].at = step
              /\ op'[o].seen = op[o].seen /\ op'[o].confirmed = op[o].confirmed
              /\ op'[o].outcome = op[o].outcome
              /\ \A p \in Operations \ {o} : op'[p] = op[p]
         /\ Passes(o, result, step) =>
              /\ op' \in [Operations -> OpRecord] /\ op'[o].at = step
              /\ op'[o].seen = op[o].seen /\ op'[o].confirmed = op[o].confirmed
              /\ op'[o].outcome = result
              /\ \A p \in Operations \ {o} : op'[p] = op[p]
         /\ OpEnds(o) =>
              /\ op' \in [Operations -> OpRecord] /\ op'[o].at = "stopped"
              /\ \A p \in Operations \ {o} : op'[p] = op[p]
<1>1. op \in [Operations -> OpRecord] /\ op[o] \in OpRecord
  BY DEF CutoverTyped
<1> DEFINE a == [op[o] EXCEPT !.at = step]
           b == [op[o] EXCEPT !.outcome = result, !.at = step]
<1>2. /\ a \in OpRecord /\ a.at = step /\ a.seen = op[o].seen /\ a.confirmed = op[o].confirmed
      /\ a.outcome = op[o].outcome
  BY <1>1 DEF OpRecord
<1>3. /\ b \in OpRecord /\ b.at = step /\ b.seen = op[o].seen /\ b.confirmed = op[o].confirmed
      /\ b.outcome = result
  BY <1>1 DEF OpRecord
<1>4. Stopped \in OpRecord /\ Stopped.at = "stopped"
  BY DEF Stopped, OpRecord, OpSteps, Outcomes
<1>5. OpStep(o, step) => op' = [op EXCEPT ![o] = a]
  BY <1>1 DEF OpStep
<1>6. Passes(o, result, step) => op' = [op EXCEPT ![o] = b]
  BY <1>1 DEF Passes
<1> HIDE DEF a, b
<1>7. ASSUME NEW r \in OpRecord, op' = [op EXCEPT ![o] = r]
      PROVE  /\ op' \in [Operations -> OpRecord] /\ op'[o] = r
             /\ \A p \in Operations \ {o} : op'[p] = op[p]
  BY <1>1, <1>7
<1>8. OpStep(o, step) =>
        /\ op' \in [Operations -> OpRecord] /\ op'[o] = a
        /\ \A p \in Operations \ {o} : op'[p] = op[p]
  BY <1>2, <1>5, <1>7
<1>9. Passes(o, result, step) =>
        /\ op' \in [Operations -> OpRecord] /\ op'[o] = b
        /\ \A p \in Operations \ {o} : op'[p] = op[p]
  BY <1>3, <1>6, <1>7
<1>10. OpEnds(o) =>
        /\ op' \in [Operations -> OpRecord] /\ op'[o] = Stopped
        /\ \A p \in Operations \ {o} : op'[p] = op[p]
  BY <1>4, <1>7 DEF OpEnds
<1> QED
  BY <1>2, <1>3, <1>4, <1>8, <1>9, <1>10

\* Nobody works yet, and the configuration has its old route.
LEMMA InitCutoverInv == CutoverInit => CutoverInv
<1> SUFFICES ASSUME CutoverInit PROVE CutoverInv
  OBVIOUS
<1>1. Stopped \in OpRecord /\ Stopped.at = "stopped"
  BY DEF Stopped, OpRecord, OpSteps, Outcomes
<1>2. CutoverTyped
  BY <1>1 DEF CutoverInit, CutoverTyped, RuntimeFile, BackupIsOld, ResultIsChange
<1>3. RouteIsBacked
  BY DEF CutoverInit, RouteIsBacked, ChangeIsRecorded
<1>4. \A o \in Operations : op[o].at = "stopped"
  BY <1>1 DEF CutoverInit
<1> QED
  BY <1>2, <1>3, <1>4 DEF CutoverInv, OpIsSafe, Working

\* The worker under the lock is the only one.
LEMMA WorksAlone ==
  ASSUME CutoverInv, NEW o \in Operations, op[o].at \in Working \/ routeLock = {},
         NEW p \in Operations \ {o}
  PROVE  op[p].at \notin Working
BY DEF CutoverInv, OpIsSafe

\* A step of the worker, or of anyone while there is none.
LEMMA WorkerMoves ==
  ASSUME CutoverInv, NEW o \in Operations, op[o].at \in Working \/ routeLock = {},
         \A p \in Operations \ {o} : op'[p] = op[p],
         CutoverTyped', RouteIsBacked', OpIsSafe(o)'
  PROVE  CutoverInv'
<1>1. ASSUME NEW p \in Operations \ {o} PROVE OpIsSafe(p)'
  <2>1. op[p].at \notin Working
    BY WorksAlone
  <2>2. OpIsSafe(p)
    BY DEF CutoverInv
  <2> QED
    BY <2>1, <2>2 DEF OpIsSafe, Chosen
<1> QED
  BY <1>1 DEF CutoverInv

\* A step that writes no file and after which the process does not work.
LEMMA NothingWritten ==
  ASSUME CutoverInv, NEW o \in Operations, UNCHANGED <<runtime, routeLock, routeBackup, results>>,
         op' \in [Operations -> OpRecord], \A p \in Operations \ {o} : op'[p] = op[p],
         op'[o].at \notin Working, o \in Executions /\ op'[o].at = "lock" => Chosen(o)'
  PROVE  CutoverInv'
<1>1. CutoverTyped'
  BY DEF CutoverInv, CutoverTyped, BackupIsOld, ResultIsChange
<1>2. RouteIsBacked' /\ (ChangeIsRecorded => ChangeIsRecorded')
  BY DEF CutoverInv, RouteIsBacked, ChangeIsRecorded, SavedIn
<1>3. ASSUME NEW p \in Operations PROVE OpIsSafe(p)'
  <2>1. CASE p = o
    BY <2>1 DEF OpIsSafe
  <2>2. CASE p # o
    <3>1. op'[p] = op[p] /\ OpIsSafe(p)
      BY <2>2 DEF CutoverInv
    <3>2. ExecutionIsSafe(p) => ExecutionIsSafe(p)'
      BY <3>1 DEF ExecutionIsSafe, Chosen
    <3>3. RollbackIsSafe(p) => RollbackIsSafe(p)'
      BY <3>1 DEF RollbackIsSafe, SavedIn
    <3> QED
      BY <1>2, <3>1, <3>2, <3>3 DEF OpIsSafe, Chosen
  <2> QED
    BY <2>1, <2>2
<1> QED
  BY <1>1, <1>2, <1>3 DEF CutoverInv

\* The lock is removed before a write, or when the route is settled; a backup
\* that is removed with it was never filled.
LEMMA LockReleased ==
  ASSUME CutoverInv, NEW o \in Operations, op[o].at \in {"verify", "backup", "copy", "release"},
         OpEnds(o), Release, UNCHANGED <<runtime, results>>,
         \/ UNCHANGED routeBackup
         \/ op[o].at = "copy" /\ routeBackup' = [routeBackup EXCEPT ![o] = Nothing]
  PROVE  CutoverInv'
<1>1. CutoverTyped /\ OpIsSafe(o) /\ op[o].at \in Working
  BY DEF CutoverInv, Working, OpSteps
<1>2. /\ op' \in [Operations -> OpRecord] /\ op'[o].at = "stopped"
      /\ \A p \in Operations \ {o} : op'[p] = op[p]
  BY <1>1, OpMoves DEF OpSteps, Outcomes
<1>3. DOMAIN routeBackup' = Executions /\ \A e \in Executions :
        routeBackup'[e] = routeBackup[e] \/ (results[e] = Nothing /\ routeBackup'[e] = Nothing)
  BY <1>1 DEF CutoverTyped, OpIsSafe, ExecutionIsSafe, RollbackIsSafe
<1>4. CutoverTyped'
  BY <1>1, <1>2, <1>3 DEF CutoverTyped, BackupIsOld, ResultIsChange
<1>5. ChangeIsRecorded'
  BY <1>1, <1>3 DEF OpIsSafe, ChangeIsRecorded, Nothing
<1>6. OpIsSafe(o)'
  BY <1>2 DEF OpIsSafe, Working
<1> QED
  BY <1>1, <1>2, <1>4, <1>5, <1>6, WorkerMoves DEF RouteIsBacked

\* A rollback that is prepared will put back the backup of its execution.
LEMMA SavedConfiguration ==
  ASSUME CutoverTyped, NEW r \in Rollbacks, RollbackPrepared(r)
  PROVE  routeBackup[ExecutionOf[r]] \in CompleteBackup /\ SavedIn(ExecutionOf[r])
<1> DEFINE e == ExecutionOf[r]
<1>1. e \in Executions
  BY CutoverAssumption DEF CutoverAssumption
<1>2. /\ results[e].state = "active" /\ Bytes(runtime) = results[e].after
      /\ routeBackup[e] = [state |-> "complete", bytes |-> results[e].before]
  BY DEF RollbackPrepared
<1> HIDE DEF e
<1>3. results[e].before \in LegacyBytes /\ results[e].after = Routed(results[e].before)
  BY <1>1, <1>2 DEF CutoverTyped, ResultIsChange, Nothing
<1>4. Bytes(runtime).edits = results[e].before.edits
  BY <1>2, <1>3, RoutedBytes
<1>5. routeBackup[e] \in CompleteBackup /\ SavedIn(e)
  BY <1>2, <1>3, <1>4 DEF CompleteBackup, SavedIn, Bytes
<1> QED
  BY <1>5 DEF e

\* What an operation decides before it writes anything.
LEMMA ChecksKeep ==
  ASSUME CutoverInv, NEW o \in Operations,
         PlanOperation(o) \/ StartOperation(o) \/ LockRoute(o) \/ VerifyAgain(o)
  PROVE  CutoverInv'
<1>1. CutoverTyped /\ OpIsSafe(o) /\ runtime \in RuntimeFile /\ op \in [Operations -> OpRecord]
  BY DEF CutoverInv, CutoverTyped
<1>2. Bytes(runtime) \in Configuration
      /\ (runtime.mode = "legacy" => Bytes(runtime) \in LegacyBytes)
  BY <1>1 DEF Bytes, RuntimeFile, Configuration, LegacyBytes
<1>3. ASSUME NEW r \in OpRecord, op' = [op EXCEPT ![o] = r]
      PROVE  /\ op' \in [Operations -> OpRecord] /\ op'[o] = r
             /\ \A p \in Operations \ {o} : op'[p] = op[p]
  BY <1>1, <1>3
<1>4. "none" \in Outcomes /\ {"stopped", "planned", "lock", "verify", "backup", "restore"} \subseteq OpSteps
  BY DEF Outcomes, OpSteps
<1>5. OpEnds(o) => /\ op' \in [Operations -> OpRecord] /\ op'[o].at = "stopped"
                   /\ \A p \in Operations \ {o} : op'[p] = op[p]
  BY <1>1, <1>4, OpMoves
<1>6. CASE PlanOperation(o)
  <2> DEFINE r == [op[o] EXCEPT !.at = "planned", !.confirmed = runtime]
  <2>1. r \in OpRecord /\ r.at = "planned"
    BY <1>1, <1>4 DEF OpRecord
  <2>2. op' = [op EXCEPT ![o] = r]
    BY <1>1, <1>6 DEF PlanOperation
  <2> HIDE DEF r
  <2>3. UNCHANGED <<runtime, routeLock, routeBackup, results>>
    BY <1>6 DEF PlanOperation
  <2> QED
    BY <1>3, <2>1, <2>2, <2>3, NothingWritten DEF Working
<1>7. CASE StartOperation(o)
  <2>1. UNCHANGED <<runtime, routeLock, routeBackup, results>>
    BY <1>7 DEF StartOperation
  <2>2. CASE OpEnds(o)
    BY <1>5, <2>1, <2>2, NothingWritten DEF Working
  <2>3. CASE /\ Prepared(o) /\ op[o].confirmed = runtime
             /\ op' = [op EXCEPT ![o].at = "lock", ![o].seen = Bytes(runtime)]
    <3> DEFINE r == [op[o] EXCEPT !.at = "lock", !.seen = Bytes(runtime)]
    <3>1. r \in OpRecord /\ r.at = "lock" /\ r.seen = Bytes(runtime) /\ r.confirmed = op[o].confirmed
      BY <1>1, <1>2, <1>4 DEF OpRecord
    <3>2. op' = [op EXCEPT ![o] = r]
      BY <1>1, <2>3
    <3> HIDE DEF r
    <3>3. o \in Executions => Chosen(o)'
      BY <1>1, <1>2, <1>3, <2>3, <3>1, <3>2 DEF Prepared, RoutePrepared, Chosen
    <3> QED
      BY <1>3, <2>1, <3>1, <3>2, <3>3, NothingWritten DEF Working
  <2> QED
    BY <1>7, <2>2, <2>3 DEF StartOperation
<1>8. CASE LockRoute(o)
  <2>1. UNCHANGED <<runtime, routeBackup, results>> /\ op[o].at = "lock"
    BY <1>8 DEF LockRoute, OpAt
  <2>2. CASE OpEnds(o) /\ UNCHANGED routeLock
    BY <1>5, <2>1, <2>2, NothingWritten DEF Working
  <2>3. CASE routeLock = {} /\ routeLock' = {o} /\ OpStep(o, "verify")
    <3>1. /\ op' \in [Operations -> OpRecord] /\ op'[o].at = "verify"
          /\ op'[o].seen = op[o].seen /\ op'[o].confirmed = op[o].confirmed
          /\ \A p \in Operations \ {o} : op'[p] = op[p]
      BY <1>1, <1>4, <2>3, OpMoves
    <3>2. CutoverTyped'
      BY <1>1, <2>1, <3>1 DEF CutoverTyped, BackupIsOld, ResultIsChange
    <3>3. ChangeIsRecorded /\ ChangeIsRecorded' /\ RouteIsBacked'
      BY <2>1, <2>3 DEF CutoverInv, RouteIsBacked, ChangeIsRecorded
    <3>4. OpIsSafe(o)'
      <4>1. o \in Executions => Chosen(o) /\ Chosen(o)'
        BY <1>1, <2>1, <3>1 DEF OpIsSafe, Chosen
      <4> QED
        BY <2>3, <3>1, <3>3, <4>1 DEF OpIsSafe, ExecutionIsSafe, RollbackIsSafe, Changing
    <3> QED
      BY <2>3, <3>1, <3>2, <3>3, <3>4, WorkerMoves
  <2> QED
    BY <1>8, <2>2, <2>3 DEF LockRoute
<1>9. CASE VerifyAgain(o)
  <2>1. UNCHANGED <<runtime, routeBackup, results>> /\ op[o].at = "verify"
    BY <1>9 DEF VerifyAgain, OpAt
  <2>2. CASE OpEnds(o) /\ Release
    BY <2>1, <2>2, LockReleased
  <2>3. CASE /\ Prepared(o) /\ Unwritten(o) /\ UNCHANGED routeLock
             /\ OpStep(o, IF o \in Executions THEN "backup" ELSE "restore")
    <3>1. /\ op' \in [Operations -> OpRecord]
          /\ op'[o].at = (IF o \in Executions THEN "backup" ELSE "restore")
          /\ op'[o].seen = op[o].seen /\ op'[o].confirmed = op[o].confirmed
          /\ \A p \in Operations \ {o} : op'[p] = op[p]
      BY <1>1, <1>4, <2>3, OpMoves
    <3>2. CutoverTyped'
      BY <1>1, <2>1, <3>1 DEF CutoverTyped, BackupIsOld, ResultIsChange
    <3>3. ChangeIsRecorded /\ ChangeIsRecorded' /\ RouteIsBacked' /\ routeLock = {o}
      BY <1>1, <2>1 DEF OpIsSafe, Working, OpSteps, RouteIsBacked, ChangeIsRecorded
    <3>4. CASE o \in Executions
      <4>1. Chosen(o) /\ results[o] = Nothing
        BY <1>1, <2>1, <2>3, <3>4 DEF OpIsSafe, Working, OpSteps, ExecutionIsSafe, Unwritten
      <4>2. Chosen(o)' /\ results'[o] = Nothing /\ op'[o].at = "backup"
        BY <2>1, <3>1, <3>4, <4>1 DEF Chosen
      <4>3. o \notin Rollbacks
        BY <3>4, CutoverAssumption DEF CutoverAssumption
      <4> QED
        BY <2>3, <3>1, <3>2, <3>3, <4>2, <4>3, WorkerMoves, <1>1, <2>1
           DEF OpIsSafe, ExecutionIsSafe, Changing, Working, OpSteps
    <3>5. CASE o \notin Executions
      <4>1. o \in Rollbacks /\ op'[o].at = "restore" /\ RollbackPrepared(o)
        BY <2>3, <3>1, <3>5 DEF Operations, Prepared
      <4>2. routeBackup[ExecutionOf[o]] \in CompleteBackup /\ SavedIn(ExecutionOf[o])
        BY <1>1, <4>1, SavedConfiguration
      <4>3. RollbackIsSafe(o)'
        BY <2>1, <4>1, <4>2 DEF RollbackIsSafe, SavedIn
      <4> QED
        BY <1>1, <2>1, <2>3, <3>1, <3>2, <3>3, <3>5, <4>1, <4>3, WorkerMoves DEF OpIsSafe, Working, OpSteps
    <3> QED
      BY <3>4, <3>5
  <2> QED
    BY <1>9, <2>2, <2>3 DEF VerifyAgain, Reverified
<1> QED
  BY <1>6, <1>7, <1>8, <1>9

\* The backup is made of what was confirmed, and replacement follows.
LEMMA BackupKeeps ==
  ASSUME CutoverInv, NEW e \in Operations, MakeBackup(e) \/ FillBackup(e)
  PROVE  CutoverInv'
<1>1. /\ CutoverTyped /\ OpIsSafe(e) /\ op \in [Operations -> OpRecord]
      /\ e \in Executions /\ e \notin Rollbacks
  BY CutoverAssumption DEF CutoverInv, CutoverTyped, MakeBackup, FillBackup, CutoverAssumption
<1>2. UNCHANGED <<runtime, results>> /\ op[e].at \in {"backup", "copy"}
  BY DEF MakeBackup, FillBackup, OpAt
<1>3. ExecutionIsSafe(e) /\ ChangeIsRecorded /\ routeLock = {e} /\ op[e].at \in Working
  BY <1>1, <1>2 DEF OpIsSafe, Working, OpSteps
<1>4. Chosen(e) /\ results[e] = Nothing
  BY <1>2, <1>3 DEF ExecutionIsSafe
<1>5. ASSUME NEW b, routeBackup' = [routeBackup EXCEPT ![e] = b],
             b = [state |-> "partial"] \/ b \in CompleteBackup,
             op' \in [Operations -> OpRecord]
      PROVE  CutoverTyped' /\ ChangeIsRecorded' /\ routeBackup'[e] = b
  <2>1. /\ DOMAIN routeBackup' = Executions /\ routeBackup'[e] = b
        /\ \A x \in Executions \ {e} : routeBackup'[x] = routeBackup[x]
    BY <1>1, <1>5 DEF CutoverTyped
  <2>2. CutoverTyped'
    BY <1>1, <1>2, <1>5, <2>1 DEF CutoverTyped, BackupIsOld, ResultIsChange
  <2>3. ChangeIsRecorded'
    BY <1>2, <1>3, <1>4, <2>1 DEF ChangeIsRecorded, Nothing
  <2> QED
    BY <2>1, <2>2, <2>3
<1>6. CASE MakeBackup(e)
  <2>1. op[e].at = "backup"
    BY <1>6 DEF MakeBackup, OpAt
  <2>2. CASE OpEnds(e) /\ Release /\ UNCHANGED routeBackup
    BY <1>2, <2>1, <2>2, LockReleased
  <2>3. CASE /\ routeBackup' = [routeBackup EXCEPT ![e] = [state |-> "partial"]]
             /\ OpStep(e, "copy") /\ UNCHANGED routeLock
    <3>1. /\ op' \in [Operations -> OpRecord] /\ op'[e].at = "copy"
          /\ op'[e].seen = op[e].seen /\ op'[e].confirmed = op[e].confirmed
          /\ \A p \in Operations \ {e} : op'[p] = op[p]
      BY <1>1, <2>3, OpMoves DEF OpSteps, Outcomes
    <3>2. CutoverTyped' /\ ChangeIsRecorded' /\ routeBackup'[e] = [state |-> "partial"]
      BY <1>5, <2>3, <3>1
    <3>3. OpIsSafe(e)'
      BY <1>1, <1>2, <1>3, <1>4, <2>3, <3>1, <3>2 DEF OpIsSafe, ExecutionIsSafe, Chosen, Changing
    <3> QED
      BY <1>3, <3>1, <3>2, <3>3, WorkerMoves DEF RouteIsBacked
  <2> QED
    BY <1>6, <2>2, <2>3 DEF MakeBackup
<1>7. CASE FillBackup(e)
  <2>1. op[e].at = "copy"
    BY <1>7 DEF FillBackup, OpAt
  <2>2. CASE OpEnds(e) /\ Release /\ routeBackup' = [routeBackup EXCEPT ![e] = Nothing]
    BY <1>2, <2>1, <2>2, LockReleased
  <2>3. CASE /\ routeBackup' = [routeBackup EXCEPT ![e] = [state |-> "complete", bytes |-> op[e].seen]]
             /\ OpStep(e, "replace") /\ UNCHANGED routeLock /\ Reverified(e)
    <3>1. /\ op' \in [Operations -> OpRecord] /\ op'[e].at = "replace"
          /\ op'[e].seen = op[e].seen /\ op'[e].confirmed = op[e].confirmed
          /\ \A p \in Operations \ {e} : op'[p] = op[p]
      BY <1>1, <2>3, OpMoves DEF OpSteps, Outcomes
    <3>2. op[e].seen \in LegacyBytes /\ op[e].seen.edits = runtime.edits
      BY <1>4, <2>3 DEF Chosen, Reverified, Bytes
    <3>3. [state |-> "complete", bytes |-> op[e].seen] \in CompleteBackup
      BY <3>2 DEF CompleteBackup
    <3>4. /\ CutoverTyped' /\ ChangeIsRecorded'
          /\ routeBackup'[e] = [state |-> "complete", bytes |-> op[e].seen]
      BY <1>5, <2>3, <3>1, <3>3
    <3>5. OpIsSafe(e)'
      BY <1>1, <1>2, <1>3, <1>4, <2>3, <3>1, <3>2, <3>4 DEF OpIsSafe, ExecutionIsSafe, Changing
    <3> QED
      BY <1>3, <3>1, <3>4, <3>5, WorkerMoves DEF RouteIsBacked
  <2> QED
    BY <1>7, <2>2, <2>3 DEF FillBackup
<1> QED
  BY <1>6, <1>7

\* The configuration is replaced while a complete backup has what it was.
LEMMA ReplacementKeeps ==
  ASSUME CutoverInv, NEW e \in Operations, ReplaceRuntime(e)
  PROVE  CutoverInv' /\ runtime'.edits = runtime.edits
<1>1. /\ CutoverTyped /\ OpIsSafe(e) /\ op \in [Operations -> OpRecord] /\ runtime \in RuntimeFile
      /\ e \in Executions /\ e \notin Rollbacks /\ op[e].at = "replace"
  BY CutoverAssumption DEF CutoverInv, CutoverTyped, ReplaceRuntime, CutoverAssumption, OpAt
<1>2. ExecutionIsSafe(e) /\ routeLock = {e} /\ op[e].at \in Working
  BY <1>1 DEF OpIsSafe, Working, OpSteps
<1>3. /\ op[e].seen \in LegacyBytes /\ runtime.edits = op[e].seen.edits
      /\ routeBackup[e] = [state |-> "complete", bytes |-> op[e].seen] /\ results[e] = Nothing
  BY <1>1, <1>2 DEF ExecutionIsSafe, Changing
<1>4. UNCHANGED <<routeLock, routeBackup, results>>
  BY DEF ReplaceRuntime, WriteFailed
<1>5. /\ WriteRuntime(Routed(op[e].seen)) \/ UNCHANGED runtime
      /\ OpStep(e, "commitHook") \/ OpEnds(e)
  BY DEF ReplaceRuntime, WriteFailed
<1>6. runtime' \in RuntimeFile /\ runtime'.edits = runtime.edits
  BY <1>1, <1>3, <1>5, RoutedBytes, RuntimeWritten
<1>7. /\ op' \in [Operations -> OpRecord] /\ op'[e].at \in {"commitHook", "stopped"}
      /\ op'[e].at = "commitHook" => op'[e].seen = op[e].seen
      /\ \A p \in Operations \ {e} : op'[p] = op[p]
  BY <1>1, <1>5, OpMoves DEF OpSteps, Outcomes
<1>8. CutoverTyped'
  BY <1>1, <1>4, <1>6, <1>7 DEF CutoverTyped, BackupIsOld, ResultIsChange
<1>9. RouteIsBacked'
  BY <1>1, <1>2, <1>3, <1>4, <1>6 DEF RouteIsBacked, SavedIn
<1>10. OpIsSafe(e)'
  BY <1>1, <1>2, <1>3, <1>4, <1>6, <1>7 DEF OpIsSafe, ExecutionIsSafe, Changing, Working
<1> QED
  BY <1>2, <1>6, <1>7, <1>8, <1>9, <1>10, WorkerMoves

\* Hooks and readiness change no file: only the worker moves.
LEMMA HooksKeep ==
  ASSUME CutoverInv, NEW o \in Operations, ExecutionHooks(o) \/ RollbackHooks(o)
  PROVE  CutoverInv'
<1>1. /\ CutoverTyped /\ OpIsSafe(o) /\ op \in [Operations -> OpRecord]
      /\ UNCHANGED <<runtime, routeLock, routeBackup, results>>
      /\ op[o].at \in {"commitHook", "readiness", "rollbackHook"}
  BY DEF CutoverInv, CutoverTyped, ExecutionHooks, RollbackHooks, OpAt
<1>2. op[o].at \in Working /\ routeLock = {o}
  BY <1>1 DEF OpIsSafe, Working, OpSteps
<1>3. RouteIsBacked'
  BY <1>1 DEF CutoverInv, RouteIsBacked, ChangeIsRecorded, SavedIn
<1>4. {"readiness", "restore", "result"} \subseteq OpSteps
      /\ {"active", "rolled_back", "rollback_failed", "none"} \subseteq Outcomes
  BY DEF OpSteps, Outcomes
<1>5. CASE ExecutionHooks(o)
  <2>1. /\ o \in Executions /\ o \notin Rollbacks /\ ExecutionIsSafe(o)
    BY <1>1, <1>2, <1>5, CutoverAssumption DEF ExecutionHooks, OpIsSafe, CutoverAssumption
  <2>2. \/ OpStep(o, "readiness") \/ OpStep(o, "restore") \/ Passes(o, "active", "result")
        \/ Passes(o, "rollback_failed", "result")
        \/ op[o].at = "rollbackHook" /\ Passes(o, "rolled_back", "result")
    BY <1>5 DEF ExecutionHooks, OpAt
  <2>3. /\ op' \in [Operations -> OpRecord] /\ op'[o].at \in {"readiness", "restore", "result"}
        /\ op'[o].seen = op[o].seen
        /\ op'[o].at = "result" =>
             /\ op'[o].outcome \in {"active", "rolled_back", "rollback_failed"}
             /\ op'[o].outcome = "rolled_back" => op[o].at = "rollbackHook"
        /\ \A p \in Operations \ {o} : op'[p] = op[p]
    BY <1>1, <1>4, <2>2, OpMoves
  <2>4. CutoverTyped'
    BY <1>1, <2>3 DEF CutoverTyped, BackupIsOld, ResultIsChange
  <2>5. ExecutionIsSafe(o)'
    BY <1>1, <2>1, <2>3 DEF ExecutionIsSafe, Changing
  <2>6. OpIsSafe(o)'
    BY <1>1, <1>2, <2>1, <2>3, <2>5 DEF OpIsSafe
  <2> QED
    BY <1>2, <1>3, <2>3, <2>4, <2>6, WorkerMoves
<1>6. CASE RollbackHooks(o)
  <2>1. /\ o \in Rollbacks /\ o \notin Executions /\ RollbackIsSafe(o)
    BY <1>1, <1>2, <1>6, CutoverAssumption DEF RollbackHooks, OpIsSafe, CutoverAssumption
  <2>2. \/ OpStep(o, "readiness") \/ Passes(o, "rollback_failed", "result")
        \/ Passes(o, "rolled_back", "result")
    BY <1>6 DEF RollbackHooks
  <2>3. op[o].at # "commitHook" /\ runtime.mode = "legacy"
    BY <1>1, <2>1 DEF RollbackIsSafe
  <2>4. /\ op' \in [Operations -> OpRecord] /\ op'[o].at \in {"readiness", "result"}
        /\ op'[o].at = "result" => op'[o].outcome \in {"rolled_back", "rollback_failed"}
        /\ \A p \in Operations \ {o} : op'[p] = op[p]
    BY <1>1, <1>4, <2>2, OpMoves
  <2>5. CutoverTyped'
    BY <1>1, <2>4 DEF CutoverTyped, BackupIsOld, ResultIsChange
  <2>6. RollbackIsSafe(o)'
    BY <1>1, <2>3, <2>4 DEF RollbackIsSafe
  <2>7. OpIsSafe(o)'
    BY <1>1, <1>2, <2>1, <2>4, <2>6 DEF OpIsSafe
  <2> QED
    BY <1>2, <1>3, <2>4, <2>5, <2>7, WorkerMoves
<1> QED
  BY <1>5, <1>6

\* What is put back has the same other settings.
LEMMA RestoreKeeps ==
  ASSUME CutoverInv, NEW o \in Operations, RestoreRuntime(o)
  PROVE  CutoverInv' /\ runtime'.edits = runtime.edits
<1>1. /\ CutoverTyped /\ OpIsSafe(o) /\ op \in [Operations -> OpRecord] /\ runtime \in RuntimeFile
      /\ UNCHANGED <<routeLock, routeBackup, results>> /\ op[o].at = "restore"
  BY DEF CutoverInv, CutoverTyped, RestoreRuntime, OpAt
<1>2. op[o].at \in Working /\ routeLock = {o}
  BY <1>1 DEF OpIsSafe, Working, OpSteps
<1>3. Original(o) \in LegacyBytes /\ Original(o).edits = runtime.edits
  <2>1. CASE o \in Executions
    BY <1>1, <1>2, <2>1 DEF OpIsSafe, ExecutionIsSafe, Changing, Original
  <2>2. CASE o \notin Executions
    <3>1. RollbackIsSafe(o)
      BY <1>1, <1>2, <2>2 DEF OpIsSafe, Operations
    <3> QED
      BY <1>1, <2>2, <3>1 DEF RollbackIsSafe, Original, CompleteBackup, SavedIn
  <2> QED
    BY <2>1, <2>2
<1>4. /\ WriteRuntime(Original(o)) \/ UNCHANGED runtime
      /\ \/ OpStep(o, "rollbackHook") /\ WriteRuntime(Original(o))
         \/ Passes(o, "rollback_failed", "result")
  BY DEF RestoreRuntime
<1>5. Original(o) \in Configuration /\ Original(o).mode = "legacy"
  BY <1>3 DEF LegacyBytes, Configuration
<1>6. /\ runtime' \in RuntimeFile /\ runtime'.edits = runtime.edits
      /\ WriteRuntime(Original(o)) => runtime'.mode = "legacy"
      /\ runtime'.mode = "legacy" \/ runtime'.mode = runtime.mode
  BY <1>1, <1>3, <1>4, <1>5, RuntimeWritten
<1>7. /\ op' \in [Operations -> OpRecord] /\ op'[o].at \in {"rollbackHook", "result"}
      /\ op'[o].at = "rollbackHook" => runtime'.mode = "legacy"
      /\ op'[o].at = "result" => op'[o].outcome = "rollback_failed"
      /\ op'[o].seen = op[o].seen
      /\ \A p \in Operations \ {o} : op'[p] = op[p]
  BY <1>1, <1>4, <1>6, OpMoves DEF OpSteps, Outcomes
<1>8. CutoverTyped'
  BY <1>1, <1>6, <1>7 DEF CutoverTyped, BackupIsOld, ResultIsChange
<1>9. RouteIsBacked'
  BY <1>1, <1>6 DEF CutoverInv, RouteIsBacked, ChangeIsRecorded, SavedIn
<1>10. OpIsSafe(o)'
  <2>1. o \in Executions => ExecutionIsSafe(o)'
    BY <1>1, <1>2, <1>6, <1>7 DEF OpIsSafe, ExecutionIsSafe, Changing
  <2>2. o \in Rollbacks => RollbackIsSafe(o)'
    BY <1>7 DEF RollbackIsSafe
  <2> QED
    BY <1>1, <1>2, <1>7, <2>1, <2>2 DEF OpIsSafe
<1> QED
  BY <1>2, <1>6, <1>7, <1>8, <1>9, <1>10, WorkerMoves

\* A result is recorded once, and the lock is given up only if the route is
\* settled: active and recorded, or as it was.
LEMMA ResultKeeps ==
  ASSUME CutoverInv, NEW o \in Operations, WriteResult(o)
  PROVE  CutoverInv'
<1>1. /\ CutoverTyped /\ OpIsSafe(o) /\ RouteIsBacked /\ op \in [Operations -> OpRecord]
      /\ runtime \in RuntimeFile /\ UNCHANGED <<runtime, routeLock, routeBackup>>
      /\ op[o].at = "result" /\ op[o].outcome \in Outcomes
  BY DEF CutoverInv, CutoverTyped, WriteResult, OpAt, OpRecord
<1>2. op[o].at \in Working /\ routeLock = {o}
  BY <1>1 DEF OpIsSafe, Working, OpSteps
<1>3. \/ Recorded(o) /\ (OpEnds(o) \/ (OpStep(o, "release") /\ op[o].outcome # "rollback_failed"))
      \/ OpEnds(o) /\ UNCHANGED results
  BY DEF WriteResult, Recorded
<1>4. /\ op' \in [Operations -> OpRecord] /\ op'[o].at \in {"release", "stopped"}
      /\ op'[o].at = "release" => Recorded(o) /\ op[o].outcome # "rollback_failed"
      /\ \A p \in Operations \ {o} : op'[p] = op[p]
  BY <1>1, <1>3, OpMoves DEF OpSteps, Outcomes
<1>5. CASE o \in Executions
  <2> DEFINE row == [state |-> op[o].outcome, before |-> op[o].seen, after |-> Routed(op[o].seen)]
  <2>1. ExecutionIsSafe(o) /\ o \notin Rollbacks
    BY <1>1, <1>2, <1>5, CutoverAssumption DEF OpIsSafe, CutoverAssumption
  <2>2. /\ op[o].seen \in LegacyBytes /\ runtime.edits = op[o].seen.edits /\ results[o] = Nothing
        /\ routeBackup[o] = [state |-> "complete", bytes |-> op[o].seen]
        /\ op[o].outcome # "none" /\ (op[o].outcome = "rolled_back" => runtime.mode = "legacy")
    BY <1>1, <2>1 DEF ExecutionIsSafe, Changing
  <2>3. /\ row \in [state : Outcomes, before : LegacyBytes, after : Configuration]
        /\ row.after = Routed(row.before) /\ row.state = op[o].outcome /\ row.before = op[o].seen
        /\ row.after.edits = runtime.edits
    BY <1>1, <2>2, RoutedBytes
  <2> HIDE DEF row
  <2>4. /\ DOMAIN results' = Executions /\ \A e \in Executions \ {o} : results'[e] = results[e]
        /\ results'[o] = row \/ results'[o] = Nothing
        /\ Recorded(o) => results'[o] = row
    BY <1>1, <1>3, <1>5, <2>2 DEF Recorded, CutoverTyped, row
  <2>5. CutoverTyped'
    <3>1. \A e \in Executions : BackupIsOld(e)' /\ ResultIsChange(e)'
      BY <1>1, <2>3, <2>4 DEF CutoverTyped, BackupIsOld, ResultIsChange
    <3> QED
      BY <1>1, <1>4, <2>4, <3>1 DEF CutoverTyped
  <2>6. ChangeIsRecorded => ChangeIsRecorded'
    <3>1. \A e \in Executions : results[e].state = "active" => results'[e] = results[e]
      BY <2>2, <2>4 DEF Nothing
    <3> QED
      BY <1>1, <3>1 DEF ChangeIsRecorded
  <2>7. RouteIsBacked'
    BY <1>1, <2>6 DEF RouteIsBacked, SavedIn
  <2>8. op'[o].at = "release" => ChangeIsRecorded'
    <3>1. SUFFICES ASSUME op'[o].at = "release", runtime.mode = "active"
                   PROVE  ChangeIsRecorded'
      BY <1>1 DEF ChangeIsRecorded
    <3>2. results'[o] = row /\ row.state = "active"
      BY <1>1, <1>4, <2>2, <2>3, <2>4, <3>1 DEF Outcomes
    <3>3. runtime.edits \in Nat
      BY <1>1 DEF RuntimeFile
    <3> QED
      BY <1>1, <1>5, <2>2, <2>3, <3>2, <3>3 DEF ChangeIsRecorded
  <2>9. OpIsSafe(o)'
    BY <1>1, <1>2, <1>4, <2>1, <2>8 DEF OpIsSafe, ExecutionIsSafe, Changing, Working
  <2> QED
    BY <1>2, <1>4, <2>5, <2>7, <2>9, WorkerMoves
<1>6. CASE o \notin Executions
  <2>1. RollbackIsSafe(o) /\ UNCHANGED results
    BY <1>1, <1>2, <1>3, <1>6 DEF OpIsSafe, Recorded, Operations
  <2>2. CutoverTyped'
    BY <1>1, <1>4, <2>1 DEF CutoverTyped, BackupIsOld, ResultIsChange
  <2>3. RouteIsBacked'
    BY <1>1, <2>1 DEF RouteIsBacked, ChangeIsRecorded, SavedIn
  <2>4. op'[o].at = "release" => ChangeIsRecorded'
    BY <1>1, <1>4, <2>1 DEF RollbackIsSafe, ChangeIsRecorded
  <2>5. OpIsSafe(o)'
    BY <1>1, <1>2, <1>4, <1>6, <2>4 DEF OpIsSafe, RollbackIsSafe, Working
  <2> QED
    BY <1>2, <1>4, <2>2, <2>3, <2>5, WorkerMoves
<1> QED
  BY <1>5, <1>6

\* An operator edits, or recovers, when nobody works.
LEMMA OperatorKeeps ==
  ASSUME CutoverInv, EditRuntime \/ RecoverRoute
  PROVE  CutoverInv' /\ runtime'.edits >= runtime.edits
<1>1. /\ CutoverTyped /\ RouteIsBacked /\ runtime \in RuntimeFile
      /\ UNCHANGED <<routeBackup, results, op>>
  BY DEF CutoverInv, CutoverTyped, EditRuntime, RecoverRoute
<1>2. ASSUME NEW p \in Operations PROVE op[p].at \notin Working
  <2>1. op[p].at \in Working => routeLock = {p}
    BY DEF CutoverInv, OpIsSafe
  <2> QED
    BY <2>1 DEF EditRuntime, RecoverRoute, OpAt, Working
<1>3. \A p \in Operations : OpIsSafe(p)'
  BY <1>1, <1>2 DEF CutoverInv, OpIsSafe, Chosen
<1>4. CASE EditRuntime
  <2> DEFINE b == [Bytes(runtime) EXCEPT !.edits = @ + 1]
  <2>1. b \in Configuration /\ b.mode = runtime.mode /\ b.edits = runtime.edits + 1
    BY <1>1 DEF Bytes, Configuration, RuntimeFile
  <2>2. WriteRuntime(b) /\ routeLock = {}
    BY <1>4 DEF EditRuntime
  <2> HIDE DEF b
  <2>3. /\ runtime' \in RuntimeFile /\ runtime'.mode = runtime.mode
        /\ runtime'.edits = runtime.edits + 1
    BY <1>1, <2>1, <2>2, RuntimeWritten
  <2>4. CutoverTyped'
    BY <1>1, <2>3 DEF CutoverTyped, BackupIsOld, ResultIsChange
  <2>5. ChangeIsRecorded'
    <3>1. SUFFICES ASSUME runtime.mode = "active" PROVE ChangeIsRecorded'
      BY <2>3 DEF ChangeIsRecorded
    <3>2. PICK e \in Executions :
            /\ results[e].state = "active" /\ results[e].after.edits <= runtime.edits
            /\ routeBackup[e] = [state |-> "complete", bytes |-> results[e].before]
      BY <1>1, <2>2, <3>1 DEF RouteIsBacked, ChangeIsRecorded
    <3>3. results[e].after.edits \in Nat /\ runtime.edits \in Nat
      BY <1>1, <3>2 DEF CutoverTyped, ResultIsChange, Nothing, Configuration, RuntimeFile
    <3>4. results[e].after.edits <= runtime'.edits
      BY <2>3, <3>2, <3>3
    <3> QED
      BY <1>1, <3>2, <3>4 DEF ChangeIsRecorded
  <2>6. runtime'.edits >= runtime.edits
    BY <1>1, <2>3 DEF RuntimeFile
  <2> QED
    BY <1>3, <2>4, <2>5, <2>6 DEF CutoverInv, RouteIsBacked
<1>5. CASE RecoverRoute
  <2> DEFINE saved == {b \in Range(routeBackup) :
                        b.state = "complete" /\ Routed(b.bytes) = Bytes(runtime)}
  <2>1. IF saved = {} THEN UNCHANGED runtime ELSE \E b \in saved : WriteRuntime(b.bytes)
    BY <1>5 DEF RecoverRoute
  <2>2. ASSUME NEW b \in saved
        PROVE  b.bytes \in Configuration /\ b.bytes.mode = "legacy" /\ b.bytes.edits = runtime.edits
    <3>1. b \in CompleteBackup
      BY <1>1, <2>2 DEF CutoverTyped, BackupIsOld, Range, Nothing
    <3>2. b.bytes \in LegacyBytes
      BY <3>1 DEF CompleteBackup
    <3>3. b.bytes.edits = Bytes(runtime).edits
      BY <2>2, <3>2, RoutedBytes
    <3> QED
      BY <3>2, <3>3 DEF LegacyBytes, Configuration, Bytes
  <2>3. ASSUME saved = {}, runtime.mode = "active" PROVE ChangeIsRecorded
    <3>1. SUFFICES ASSUME NEW e \in Executions, SavedIn(e) PROVE FALSE
      BY <1>1 DEF RouteIsBacked
    <3>2. routeBackup[e] \in CompleteBackup
      BY <1>1, <3>1 DEF CutoverTyped, BackupIsOld, SavedIn, Nothing
    <3>3. routeBackup[e].bytes \in LegacyBytes
      BY <3>2 DEF CompleteBackup
    <3>4. Routed(routeBackup[e].bytes) = Bytes(runtime)
      BY <2>3, <3>1, <3>3, RoutedBytes DEF SavedIn, Bytes
    <3>5. routeBackup[e] \in saved
      BY <1>1, <3>1, <3>4 DEF SavedIn, Range, CutoverTyped
    <3> QED
      BY <2>3, <3>5
  <2> HIDE DEF saved
  <2>4. /\ runtime' \in RuntimeFile /\ runtime'.edits = runtime.edits
        /\ runtime'.mode = "legacy" \/ (saved = {} /\ runtime'.mode = runtime.mode)
    <3>1. CASE saved = {}
      BY <1>1, <2>1, <3>1
    <3>2. CASE saved # {}
      BY <1>1, <2>1, <2>2, <3>2, RuntimeWritten
    <3> QED
      BY <3>1, <3>2
  <2>5. CutoverTyped'
    BY <1>1, <2>4 DEF CutoverTyped, BackupIsOld, ResultIsChange
  <2>6. ChangeIsRecorded'
    BY <1>1, <2>3, <2>4 DEF ChangeIsRecorded
  <2>7. runtime'.edits >= runtime.edits
    BY <1>1, <2>4 DEF RuntimeFile
  <2> QED
    BY <1>3, <2>5, <2>6, <2>7 DEF CutoverInv, RouteIsBacked
<1> QED
  BY <1>4, <1>5

\* Every step keeps the invariant and the edits of the other settings.
LEMMA NextCutoverInv ==
  CutoverInv /\ [CutoverNext]_cutoverVars => CutoverInv' /\ runtime'.edits >= runtime.edits
<1> SUFFICES ASSUME CutoverInv, [CutoverNext]_cutoverVars
             PROVE  CutoverInv' /\ runtime'.edits >= runtime.edits
  OBVIOUS
<1>1. CutoverTyped /\ runtime.edits \in Nat
  BY DEF CutoverInv, CutoverTyped, RuntimeFile
<1>2. UNCHANGED runtime => runtime'.edits >= runtime.edits
  BY <1>1
<1>3. CASE UNCHANGED <<runtime, routeLock, routeBackup, results, op>>
  BY <1>2, <1>3 DEF CutoverInv, CutoverTyped, BackupIsOld, ResultIsChange, RouteIsBacked,
     ChangeIsRecorded, SavedIn, OpIsSafe, Chosen, ExecutionIsSafe, RollbackIsSafe
<1>4. ASSUME NEW o \in Operations, OperationStep(o)
      PROVE  CutoverInv' /\ runtime'.edits >= runtime.edits
  <2>1. CASE PlanOperation(o) \/ StartOperation(o) \/ LockRoute(o) \/ VerifyAgain(o)
    <3>1. UNCHANGED runtime
      BY <2>1 DEF PlanOperation, StartOperation, LockRoute, VerifyAgain
    <3> QED
      BY <1>2, <2>1, <3>1, ChecksKeep
  <2>2. CASE MakeBackup(o) \/ FillBackup(o)
    <3>1. UNCHANGED runtime
      BY <2>2 DEF MakeBackup, FillBackup
    <3> QED
      BY <1>2, <2>2, <3>1, BackupKeeps
  <2>3. CASE ReplaceRuntime(o)
    BY <1>1, <2>3, ReplacementKeeps
  <2>4. CASE ExecutionHooks(o) \/ RollbackHooks(o)
    <3>1. UNCHANGED runtime
      BY <2>4 DEF ExecutionHooks, RollbackHooks
    <3> QED
      BY <1>2, <2>4, <3>1, HooksKeep
  <2>5. CASE RestoreRuntime(o)
    BY <1>1, <2>5, RestoreKeeps
  <2>6. CASE WriteResult(o)
    <3>1. UNCHANGED runtime
      BY <2>6 DEF WriteResult
    <3> QED
      BY <1>2, <2>6, <3>1, ResultKeeps
  <2>7. CASE ReleaseRoute(o)
    <3>1. /\ op[o].at = "release" /\ OpEnds(o) /\ Release
          /\ UNCHANGED <<runtime, results, routeBackup>>
      BY <2>7 DEF ReleaseRoute, OpAt
    <3> QED
      BY <1>2, <3>1, LockReleased
  <2>8. CASE EarlyFailure(o)
    <3>1. /\ op[o].at \in {"verify", "backup", "copy"} /\ OpEnds(o) /\ Release
          /\ UNCHANGED <<runtime, results>>
          /\ \/ UNCHANGED routeBackup
             \/ op[o].at = "copy" /\ routeBackup' = [routeBackup EXCEPT ![o] = Nothing]
      BY <2>8 DEF EarlyFailure, OpAt
    <3> QED
      BY <1>2, <3>1, LockReleased
  <2>9. CASE KillOperation(o)
    <3>1. UNCHANGED <<runtime, routeLock, routeBackup, results>> /\ OpEnds(o)
      BY <2>9 DEF KillOperation
    <3>2. /\ op' \in [Operations -> OpRecord] /\ op'[o].at = "stopped"
          /\ \A p \in Operations \ {o} : op'[p] = op[p]
      BY <1>1, <3>1, OpMoves DEF OpSteps, Outcomes
    <3> QED
      BY <1>2, <3>1, <3>2, NothingWritten DEF Working
  <2> QED
    BY <1>4, <2>1, <2>2, <2>3, <2>4, <2>5, <2>6, <2>7, <2>8, <2>9 DEF OperationStep
<1>5. CASE \E e \in Executions : Authorize(e) \/ Expire(e) \/ ObserveFailure(e)
  BY <1>3, <1>5 DEF Authorize, Expire, ObserveFailure
<1>6. CASE EditRuntime \/ RecoverRoute
  BY <1>6, OperatorKeeps
<1>7. CASE UNCHANGED cutoverVars
  BY <1>3, <1>7 DEF cutoverVars
<1> QED
  BY <1>4, <1>5, <1>6, <1>7 DEF CutoverNext

\* A changed route that is not locked is recorded and can be taken back:
\* RouteIsRecorded, for any executions, rollbacks, faults and edits.
THEOREM RouteCanBeTakenBack == CutoverSpec => []RouteIsRecorded
<1>1. CutoverInv => RouteIsRecorded
  BY DEF CutoverInv, RouteIsBacked, ChangeIsRecorded, RouteIsRecorded
<1> QED
  BY <1>1, InitCutoverInv, NextCutoverInv, PTL DEF CutoverSpec

\* No operation loses an edit of the other settings: EditsSurvive.
THEOREM EditsAreKept == CutoverSpec => EditsSurvive
<1>1. CutoverInv /\ [CutoverNext]_cutoverVars => [runtime'.edits >= runtime.edits]_cutoverVars
  BY NextCutoverInv
<1> QED
  BY <1>1, InitCutoverInv, NextCutoverInv, PTL DEF CutoverSpec, EditsSurvive

(***************************************************************************)
(* The extractor.  A tick starts only without a pending reservation, so the*)
(* one it makes is the only one there is, until it settles it; and what it *)
(* posts is in the file before the first post, so that a later tick goes on*)
(* where it stopped.                                                       *)
(***************************************************************************)

\* A record with the fields of the state file, of what is in flight, of a tick.
IsFile(r) ==
  r \in [cursor : {r.cursor}, inFlight : {r.inFlight}, used : {r.used}, reserved : {r.reserved}]
IsInFlight(r) ==
  r \in [stage : {r.stage}, conv : {r.conv}, rev : {r.rev}, day : {r.day},
         claims : {r.claims}, records : {r.records}]
IsTick(r) ==
  r \in [at : {r.at}, conv : {r.conv}, rev : {r.rev}, next : {r.next}, cost : {r.cost},
         claims : {r.claims}, todo : {r.todo}]

ExtractorShapes ==
  /\ IsFile(file) /\ IsInFlight(file.inFlight) /\ IsTick(tick)
  /\ {file.used, file.reserved, spent} \subseteq [Days -> Nat] /\ today \in Days

\* The call a tick works on is the pending one, and all others are settled.
ReservationIsOwn ==
  /\ Blocked => file.inFlight.day \in Days
  /\ tick.at \notin {"idle", "model", "settle"} => ~Blocked
  /\ tick.at = "model" =>
       /\ Blocked /\ file.used[file.inFlight.day] = spent[file.inFlight.day]
       /\ spent[file.inFlight.day] + 1 <= DailyBudget
  /\ tick.at = "settle" =>
       /\ Blocked /\ tick.cost \in Nat
       /\ file.used[file.inFlight.day] + tick.cost = spent[file.inFlight.day]

\* What is not among the records to post is stated by a canonical memory.
RecordsCoverClaims ==
  /\ file.inFlight.stage = "proposing" =>
       \A t \in file.inFlight.claims : t \in file.inFlight.records \/ t \in canonical
  /\ tick.at = "search" => tick.claims = file.inFlight.claims
  /\ tick.at = "post" =>
       \A t \in tick.claims : t \in tick.todo \/ KeyOf(t) \in proposed \/ t \in canonical

ExtractorInv ==
  ExtractorShapes /\ CallsAreInLedger /\ ReservationIsOwn /\ RecordsCoverClaims /\ PaidIsProposed

\* An idle tick, and nothing in flight.
LEMMA IdleTick ==
  /\ IsTick(NoTick) /\ NoTick.at = "idle"
  /\ IsInFlight(NothingInFlight) /\ NothingInFlight.stage = "none"
BY DEF NoTick, NothingInFlight, IsTick, IsInFlight

\* The first day has seen no call.
LEMMA InitExtractorInv == ExtractorInit => ExtractorInv
<1> SUFFICES ASSUME ExtractorInit PROVE ExtractorInv
  OBVIOUS
<1>1. 1 \in Days /\ file.inFlight.stage = "none" /\ tick.at = "idle"
  BY ExtractorAssumption, IdleTick DEF ExtractorAssumption, ExtractorInit, Days
<1>2. ExtractorShapes
  BY <1>1, IdleTick DEF ExtractorInit, ExtractorShapes, IsFile
<1>3. CallsAreInLedger
  BY <1>1 DEF ExtractorInit, CallsAreInLedger, Blocked
<1> QED
  BY <1>1, <1>2, <1>3 DEF ExtractorInit, ExtractorInv, ReservationIsOwn, RecordsCoverClaims, PaidIsProposed, Blocked

\* The ledger and the pending reservation, when the file and the calls stay.
LEMMA LedgerStays ==
  ASSUME ExtractorInv, UNCHANGED <<file, spent>>,
         tick' = tick \/ tick'.at \notin {"model", "settle"},
         tick'.at \in {"idle", "model", "settle"} \/ ~Blocked
  PROVE  CallsAreInLedger' /\ ReservationIsOwn'
<1>1. CallsAreInLedger'
  BY DEF ExtractorInv, CallsAreInLedger, Blocked, TAt
<1> QED
  BY <1>1 DEF ExtractorInv, ReservationIsOwn, Blocked

\* Messages, curators and the calendar.
LEMMA WorldKeeps ==
  ASSUME ExtractorInv, UNCHANGED <<proposed, file, tick, spent, passed>>,
         canonical \subseteq canonical', today' \in Days
  PROVE  ExtractorInv'
<1>1. ExtractorShapes'
  BY DEF ExtractorInv, ExtractorShapes
<1>2. CallsAreInLedger' /\ ReservationIsOwn'
  BY DEF ExtractorInv, CallsAreInLedger, ReservationIsOwn, Blocked, TAt
<1>3. RecordsCoverClaims' /\ PaidIsProposed'
  BY DEF ExtractorInv, RecordsCoverClaims, PaidIsProposed, KeyOf
<1> QED
  BY <1>1, <1>2, <1>3 DEF ExtractorInv

\* A tick that ends or only reads: file and ledger stay.
LEMMA TickReads ==
  ASSUME ExtractorInv, UNCHANGED <<file, spent, passed, canonical, today>>,
         proposed \subseteq proposed',
         \/ tick' = NoTick
         \/ /\ tick'.at \in {"fetch", "triage", "search", "post"} /\ ~Blocked
            /\ IsTick(tick')
            /\ tick'.at = "search" => tick'.claims = file.inFlight.claims
            /\ tick'.at = "post" => \A t \in tick'.claims :
                 t \in tick'.todo \/ KeyOf(t)' \in proposed' \/ t \in canonical
  PROVE  ExtractorInv'
<1>1. ExtractorShapes'
  BY IdleTick DEF ExtractorInv, ExtractorShapes
<1>2. CallsAreInLedger' /\ ReservationIsOwn'
  <2>1. tick'.at \notin {"model", "settle"} /\ (tick'.at = "idle" \/ ~Blocked)
    BY IdleTick
  <2> QED
    BY <2>1, LedgerStays
<1>3. RecordsCoverClaims'
  BY IdleTick DEF ExtractorInv, RecordsCoverClaims
<1>4. PaidIsProposed'
  BY DEF ExtractorInv, PaidIsProposed
<1> QED
  BY <1>1, <1>2, <1>3, <1>4 DEF ExtractorInv

\* The steps of a tick that pay and write nothing.
LEMMA ReadingKeeps ==
  ASSUME ExtractorInv,
         \/ StartTick \/ FetchSession \/ Resume \/ PlanConstrained \/ BudgetExhausted
         \/ Post \/ PostConflicts \/ PostUnanswered \/ KillTick
  PROVE  ExtractorInv'
<1>1. ExtractorShapes /\ RecordsCoverClaims /\ ReservationIsOwn
  BY DEF ExtractorInv
<1>2. UNCHANGED <<file, spent, passed, canonical, today>> /\ proposed \subseteq proposed'
  BY DEF StartTick, FetchSession, Resume, PlanConstrained, BudgetExhausted, Post, PostConflicts,
         PostUnanswered, KillTick, world, history
<1>3. CASE EndTick
  BY <1>2, <1>3, TickReads DEF EndTick
<1>4. CASE StartTick
  <2>1. tick' = [NoTick EXCEPT !.at = "fetch"] /\ ~Blocked
    BY <1>4 DEF StartTick, MayRun
  <2>2. tick'.at = "fetch" /\ IsTick(tick')
    BY <2>1, IdleTick DEF IsTick
  <2> QED
    BY <1>2, <2>1, <2>2, TickReads
<1>5. CASE FetchSession
  <2>1. ~Blocked
    BY <1>1, <1>5 DEF FetchSession, TAt, ReservationIsOwn
  <2>2. CASE \E c : tick' = [tick EXCEPT !.at = "triage", !.conv = c, !.rev = newest[c],
                               !.next = IF Before(newest[c]) = {} THEN 0 ELSE newest[c]]
    <3>1. PICK c, n : tick' = [tick EXCEPT !.at = "triage", !.conv = c, !.rev = newest[c], !.next = n]
      BY <2>2
    <3>2. tick'.at = "triage" /\ IsTick(tick')
      BY <1>1, <3>1 DEF ExtractorShapes, IsTick
    <3> QED
      BY <1>2, <2>1, <3>2, TickReads
  <2> QED
    BY <1>3, <1>5, <2>2 DEF FetchSession
<1>6. CASE Resume
  <2>1. /\ tick.at = "triage" /\ file.inFlight.stage \in {"model_done", "proposing"} /\ ~Blocked
        /\ tick' = [tick EXCEPT !.at = StageOfResume, !.claims = file.inFlight.claims,
                                !.todo = file.inFlight.records]
    BY <1>6 DEF Resume, Resumable, TAt, Blocked
  <2>2. /\ StageOfResume \in {"post", "search"}
        /\ StageOfResume = "post" => file.inFlight.stage = "proposing"
    BY DEF StageOfResume
  <2>4. /\ tick'.at = StageOfResume /\ tick'.claims = file.inFlight.claims
        /\ tick'.todo = file.inFlight.records /\ IsTick(tick')
    BY <1>1, <2>1 DEF ExtractorShapes, IsTick
  <2>5. tick'.at = "post" => \A t \in tick'.claims : t \in tick'.todo \/ t \in canonical
    BY <1>1, <2>2, <2>4 DEF RecordsCoverClaims
  <2> QED
    BY <1>2, <2>1, <2>2, <2>4, <2>5, TickReads
<1>7. CASE Post
  <2>1. PICK t \in tick.todo : /\ proposed' = proposed \cup {KeyOf(t)}
                               /\ tick' = [tick EXCEPT !.todo = @ \ {t}]
    BY <1>7 DEF Post
  <2>2. tick.at = "post" /\ ~Blocked
    BY <1>1, <1>7 DEF Post, TAt, ReservationIsOwn
  <2>4. /\ tick'.at = "post" /\ tick'.claims = tick.claims /\ tick'.todo = tick.todo \ {t}
        /\ IsTick(tick') /\ \A x : KeyOf(x)' = KeyOf(x)
    BY <1>1, <2>1, <2>2 DEF KeyOf, ExtractorShapes, IsTick
  <2>5. \A x \in tick'.claims : x \in tick'.todo \/ KeyOf(x)' \in proposed' \/ x \in canonical
    BY <1>1, <2>1, <2>2, <2>4 DEF RecordsCoverClaims
  <2> QED
    BY <1>2, <2>2, <2>4, <2>5, TickReads
<1> QED
  BY <1>3, <1>4, <1>5, <1>6, <1>7 DEF PlanConstrained, BudgetExhausted, PostConflicts, PostUnanswered, KillTick

\* The cursor moves on: nothing is in flight, and the ledger is as it was.
LEMMA CursorKeeps ==
  ASSUME ExtractorInv, Discard \/ AdvanceCursor
  PROVE  ExtractorInv'
<1>1. /\ ExtractorShapes /\ RecordsCoverClaims /\ ReservationIsOwn /\ CallsAreInLedger /\ PaidIsProposed
      /\ ~Blocked /\ tick' = NoTick /\ file' = CursorMoved
      /\ UNCHANGED <<proposed, canonical, today, spent>>
  BY DEF ExtractorInv, Discard, AdvanceCursor, EndTick, world, history, TAt, ReservationIsOwn
<1>3. /\ file'.inFlight = NothingInFlight /\ file'.used = file.used /\ file'.reserved = file.reserved
      /\ IsFile(file')
  BY <1>1 DEF CursorMoved, ExtractorShapes, IsFile
<1>4. tick'.at = "idle" /\ ~Blocked' /\ file'.inFlight.stage = "none"
  BY <1>1, <1>3, IdleTick DEF Blocked
<1>5. ExtractorShapes'
  BY <1>1, <1>3, IdleTick DEF ExtractorShapes
<1>6. CallsAreInLedger' /\ ReservationIsOwn' /\ RecordsCoverClaims'
  BY <1>1, <1>3, <1>4 DEF CallsAreInLedger, ReservationIsOwn, RecordsCoverClaims
<1>7. PaidIsProposed'
  <2>1. ASSUME AdvanceCursor, NEW t \in tick.claims
        PROVE  KeyOf(t) \in proposed \/ KeyOf(t).text \in canonical
    BY <1>1, <2>1 DEF AdvanceCursor, TAt, RecordsCoverClaims, KeyOf
  <2>2. passed' = passed \/ (AdvanceCursor /\ passed' = passed \cup {KeyOf(t) : t \in tick.claims})
    BY DEF Discard, AdvanceCursor, history
  <2> QED
    BY <1>1, <2>1, <2>2 DEF PaidIsProposed
<1> QED
  BY <1>5, <1>6, <1>7 DEF ExtractorInv

\* The reservation is written, with the budget of the day checked, before the call.
LEMMA ReserveKeeps == ASSUME ExtractorInv, Reserve PROVE ExtractorInv'
<1>1. /\ ExtractorShapes /\ ReservationIsOwn /\ CallsAreInLedger /\ PaidIsProposed
      /\ UNCHANGED <<proposed, canonical, today, spent, passed>>
      /\ tick.at = "triage" /\ WithinBudget /\ ~Blocked
  BY DEF ExtractorInv, Reserve, world, history, TAt, ReservationIsOwn
<1> DEFINE f == [NothingInFlight EXCEPT !.stage = "model_pending", !.conv = tick.conv,
                                        !.rev = tick.rev, !.day = today]
<1>2. IsInFlight(f) /\ f.stage = "model_pending" /\ f.day = today
  BY IdleTick DEF IsInFlight
<1>3. file' = [file EXCEPT !.reserved[today] = @ + 1, !.inFlight = f]
  BY DEF Reserve
<1> HIDE DEF f
<1>4. /\ IsFile(file') /\ file'.inFlight = f /\ file'.used = file.used
      /\ file'.reserved = [file.reserved EXCEPT ![today] = file.reserved[today] + 1]
  BY <1>1, <1>3 DEF ExtractorShapes, IsFile
<1>5. /\ file.reserved \in [Days -> Nat] /\ file.used \in [Days -> Nat] /\ spent \in [Days -> Nat]
      /\ today \in Days /\ \A d \in Days : file.reserved[d] = 0 /\ file.used[d] = spent[d]
  BY <1>1 DEF ExtractorShapes, CallsAreInLedger
<1>6. file'.reserved \in [Days -> Nat]
      /\ \A d \in Days : file'.reserved[d] = IF d = today THEN 1 ELSE 0
  BY <1>4, <1>5
<1>7. IsTick(tick') /\ tick'.at = "model"
  BY <1>1 DEF Reserve, ExtractorShapes, IsTick
<1>8. spent[today] + 1 <= DailyBudget
  BY <1>1, <1>5 DEF WithinBudget
<1>9. Blocked' /\ file'.inFlight.day = today
  BY <1>2, <1>4 DEF Blocked
<1>10. ExtractorShapes'
  BY <1>1, <1>2, <1>4, <1>5, <1>6, <1>7 DEF ExtractorShapes
<1>11. CallsAreInLedger'
  BY <1>1, <1>4, <1>5, <1>6, <1>8, <1>9 DEF CallsAreInLedger
<1>12. ReservationIsOwn'
  BY <1>1, <1>4, <1>5, <1>7, <1>8, <1>9 DEF ReservationIsOwn
<1>13. RecordsCoverClaims'
  BY <1>7, <1>9 DEF RecordsCoverClaims, Blocked
<1>14. PaidIsProposed'
  BY <1>1 DEF PaidIsProposed
<1> QED
  BY <1>10, <1>11, <1>12, <1>13, <1>14 DEF ExtractorInv

\* The call is made, or has failed: its day has cost something more, which its
\* reservation stands for.
LEMMA ModelKeeps == ASSUME ExtractorInv, ModelRuns \/ ModelFails PROVE ExtractorInv'
<1>1. /\ ExtractorShapes /\ ReservationIsOwn /\ CallsAreInLedger /\ PaidIsProposed
      /\ RecordsCoverClaims /\ tick.at = "model"
      /\ UNCHANGED <<proposed, canonical, today, file, passed>>
  BY DEF ExtractorInv, ModelRuns, ModelFails, world, TAt
<1> DEFINE day == file.inFlight.day
<1>2. /\ Blocked /\ day \in Days /\ file.used[day] = spent[day]
      /\ spent \in [Days -> Nat] /\ file.used \in [Days -> Nat]
  BY <1>1 DEF ReservationIsOwn, ExtractorShapes
<1>3. PICK cost \in 0..MaxCost :
        /\ spent' = [spent EXCEPT ![day] = spent[day] + cost]
        /\ \/ tick' = NoTick
           \/ \E claims : tick' = [tick EXCEPT !.at = "settle", !.cost = cost, !.claims = claims]
  <2>1. MaxCost \in Nat
    BY ExtractorAssumption DEF ExtractorAssumption
  <2>2. \A cost : Paid(cost) => spent' = [spent EXCEPT ![day] = spent[day] + cost]
    BY <1>2 DEF Paid
  <2>3. CASE ModelRuns
    <3>1. PICK cost \in 1..MaxCost, claims \in SUBSET Texts :
            Paid(cost) /\ tick' = [tick EXCEPT !.at = "settle", !.cost = cost, !.claims = claims]
      BY <2>3 DEF ModelRuns
    <3>2. cost \in 0..MaxCost
      BY <2>1, <3>1
    <3> QED
      BY <2>2, <3>1, <3>2
  <2>4. CASE ModelFails
    BY <2>2, <2>4 DEF ModelFails, EndTick
  <2> QED
    BY <2>3, <2>4
<1> HIDE DEF day
<1>4. /\ spent' \in [Days -> Nat] /\ spent'[day] = spent[day] + cost /\ cost \in Nat
      /\ \A d \in Days \ {day} : spent'[d] = spent[d]
  <2>1. cost \in Nat
    <3>1. MaxCost \in Nat /\ cost \in 0..MaxCost
      BY <1>3, ExtractorAssumption DEF ExtractorAssumption
    <3> QED
      BY <3>1
  <2>2. spent[day] + cost \in Nat
    BY <1>2, <2>1
  <2> QED
    BY <1>2, <1>3, <2>1, <2>2
<1>5. /\ IsTick(tick') /\ tick'.at \in {"idle", "settle"}
      /\ tick'.at = "settle" => tick'.cost = cost
  <2>1. CASE tick' = NoTick
    BY <2>1, IdleTick
  <2>2. CASE \E claims : tick' = [tick EXCEPT !.at = "settle", !.cost = cost, !.claims = claims]
    BY <1>1, <2>2 DEF ExtractorShapes, IsTick
  <2> QED
    BY <1>3, <2>1, <2>2
<1>6. ExtractorShapes'
  BY <1>1, <1>4, <1>5 DEF ExtractorShapes
<1>7. CallsAreInLedger'
  BY <1>1, <1>2, <1>4, <1>5 DEF CallsAreInLedger, Blocked, day, TAt
<1>8. ReservationIsOwn'
  BY <1>1, <1>2, <1>4, <1>5 DEF ReservationIsOwn, Blocked, day
<1>9. RecordsCoverClaims'
  BY <1>1, <1>5 DEF RecordsCoverClaims
<1>10. PaidIsProposed'
  BY <1>1 DEF PaidIsProposed
<1> QED
  BY <1>6, <1>7, <1>8, <1>9, <1>10 DEF ExtractorInv

\* The reservation becomes what the call has cost.
LEMMA SettleKeeps == ASSUME ExtractorInv, Settle PROVE ExtractorInv'
<1>1. /\ ExtractorShapes /\ ReservationIsOwn /\ CallsAreInLedger /\ PaidIsProposed
      /\ RecordsCoverClaims /\ tick.at = "settle"
      /\ UNCHANGED <<proposed, canonical, today, spent, passed>>
  BY DEF ExtractorInv, Settle, world, history, TAt
<1> DEFINE day == file.inFlight.day
           f == [file.inFlight EXCEPT !.stage = "model_done", !.claims = tick.claims]
<1>2. /\ Blocked /\ day \in Days /\ tick.cost \in Nat /\ file.used[day] + tick.cost = spent[day]
      /\ spent \in [Days -> Nat] /\ file.used \in [Days -> Nat] /\ file.reserved \in [Days -> Nat]
  BY <1>1 DEF ReservationIsOwn, ExtractorShapes
<1>3. IsInFlight(f) /\ f.stage = "model_done" /\ f.claims = tick.claims
  BY <1>1 DEF ExtractorShapes, IsInFlight
<1>4. /\ IsFile(file') /\ file'.inFlight = f
      /\ file'.used = [file.used EXCEPT ![day] = file.used[day] + tick.cost]
      /\ file'.reserved = [file.reserved EXCEPT ![day] = file.reserved[day] - 1]
  BY <1>1 DEF Settle, ExtractorShapes, IsFile, IsInFlight
<1>5. IsTick(tick') /\ tick'.at = "search" /\ tick'.claims = tick.claims
  BY <1>1 DEF Settle, ExtractorShapes, IsTick
<1>6. \A d \in Days : /\ file.reserved[d] = IF d = day THEN 1 ELSE 0
                      /\ d # day => file.used[d] = spent[d]
  BY <1>1, <1>2 DEF CallsAreInLedger
<1> HIDE DEF f, day
<1>7. /\ file'.used \in [Days -> Nat] /\ file'.reserved \in [Days -> Nat]
      /\ \A d \in Days : file'.used[d] = spent[d] /\ file'.reserved[d] = 0
  <2>1. file.used[day] + tick.cost \in Nat /\ file.reserved[day] - 1 = 0
    BY <1>2, <1>6
  <2> QED
    BY <1>2, <1>4, <1>6, <2>1
<1>8. ~Blocked'
  BY <1>3, <1>4 DEF Blocked
<1>9. ExtractorShapes'
  BY <1>1, <1>3, <1>4, <1>5, <1>7 DEF ExtractorShapes
<1>10. CallsAreInLedger' /\ ReservationIsOwn'
  BY <1>1, <1>5, <1>7, <1>8 DEF CallsAreInLedger, ReservationIsOwn
<1>11. RecordsCoverClaims'
  BY <1>3, <1>4, <1>5 DEF RecordsCoverClaims
<1>12. PaidIsProposed'
  BY <1>1 DEF PaidIsProposed
<1> QED
  BY <1>9, <1>10, <1>11, <1>12 DEF ExtractorInv

\* What is left out of the records is canonical.
LEMMA SearchKeeps == ASSUME ExtractorInv, SearchAndRecord PROVE ExtractorInv'
<1>1. /\ ExtractorShapes /\ ReservationIsOwn /\ CallsAreInLedger /\ PaidIsProposed
      /\ RecordsCoverClaims /\ tick.at = "search" /\ ~Blocked
      /\ UNCHANGED <<proposed, canonical, today, spent, passed>>
  BY DEF ExtractorInv, SearchAndRecord, world, history, TAt, ReservationIsOwn
<1> DEFINE records == tick.claims \ canonical
           f == [file.inFlight EXCEPT !.stage = "proposing", !.records = records]
<1>2. /\ IsInFlight(f) /\ f.stage = "proposing" /\ f.claims = file.inFlight.claims
      /\ f.records = records
  BY <1>1 DEF ExtractorShapes, IsInFlight
<1>3. /\ IsFile(file') /\ file'.inFlight = f
      /\ file'.used = file.used /\ file'.reserved = file.reserved
  BY <1>1 DEF SearchAndRecord, Saved, ExtractorShapes, IsFile
<1>4. IsTick(tick') /\ tick'.at = "post" /\ tick'.claims = tick.claims /\ tick'.todo = records
  BY <1>1 DEF SearchAndRecord, ExtractorShapes, IsTick
<1>5. ~Blocked'
  BY <1>2, <1>3 DEF Blocked
<1>6. ExtractorShapes'
  BY <1>1, <1>2, <1>3, <1>4 DEF ExtractorShapes
<1>7. CallsAreInLedger' /\ ReservationIsOwn'
  BY <1>1, <1>3, <1>4, <1>5 DEF CallsAreInLedger, ReservationIsOwn
<1>8. RecordsCoverClaims'
  BY <1>1, <1>2, <1>3, <1>4 DEF RecordsCoverClaims
<1>9. PaidIsProposed'
  BY <1>1 DEF PaidIsProposed
<1> QED
  BY <1>6, <1>7, <1>8, <1>9 DEF ExtractorInv

\* Every step keeps ledger and proposals.
LEMMA NextExtractorInv == ExtractorInv /\ [ExtractorNext]_extractorVars => ExtractorInv'
<1> SUFFICES ASSUME ExtractorInv, [ExtractorNext]_extractorVars PROVE ExtractorInv'
  OBVIOUS
<1>1. today \in Days
  BY DEF ExtractorInv, ExtractorShapes
<1>2. CASE TickSteps
  BY <1>2, ReadingKeeps, CursorKeeps, ReserveKeeps, ModelKeeps, SettleKeeps, SearchKeeps DEF TickSteps
<1>3. CASE PlanConstrained \/ ModelFails \/ PostUnanswered \/ KillTick
  BY <1>3, ReadingKeeps, ModelKeeps
<1>4. CASE \E c \in Conversations : Message(c)
  BY <1>1, <1>4, WorldKeeps DEF Message, history
<1>5. CASE Curate
  BY <1>1, <1>5, WorldKeeps DEF Curate, history
<1>6. CASE NewDay
  <2>1. today' \in Days
    BY <1>1, <1>6, ExtractorAssumption DEF NewDay, Days, ExtractorAssumption
  <2> QED
    BY <1>6, <2>1, WorldKeeps DEF NewDay, history
<1>7. CASE UNCHANGED extractorVars
  BY <1>1, <1>7, WorldKeeps DEF extractorVars
<1> QED
  BY <1>2, <1>3, <1>4, <1>5, <1>6, <1>7 DEF ExtractorNext

\* Every call is in the ledger and every paid claim proposed or canonical:
\* PaidWorkIsAccounted, for any conversations, budgets, costs and interruptions.
THEOREM PaidWorkStaysAccounted == ExtractorSpec => []PaidWorkIsAccounted
<1>1. ExtractorInv => PaidWorkIsAccounted
  BY DEF ExtractorInv, PaidWorkIsAccounted
<1> QED
  BY <1>1, InitExtractorInv, NextExtractorInv, PTL DEF ExtractorSpec

(***************************************************************************)
(* The backfill lease.  Of the steps that change the path, link calls need *)
(* it to be free, which a holder's file denies them; a release removes the *)
(* file of the process that releases, found there by the invariant itself; *)
(* and a takeover that moves the file it has read moves that of a dead     *)
(* process, since a process once seen dead stays dead.  Any other takeover *)
(* sets overlapped.                                                        *)
(***************************************************************************)

LeaseSteps == {"idle", "create", "bind", "rebind", "read", "rename", "compare", "restore",
               "recreate", "cleanHeld", "cleanLost", "working", "torn", "unlink"}

LeaseTypeOK ==
  /\ path \in Inodes \cup {None}
  /\ tomb \in [Inodes -> Inodes \cup {None}]
  /\ readable \subseteq Inodes /\ fresh \subseteq Inodes
  /\ pc \in [Processes -> LeaseSteps]
  /\ attempt \in [Processes -> Nat] /\ \A p \in Processes : attempt[p] <= MaxAttempts[p]
  /\ seen \in [Processes -> Inodes \cup {None}]
  /\ ident \in [Processes -> Inodes \cup {None}]
  /\ alive \subseteq Processes
  /\ overlapped \in BOOLEAN

\* A process in a call has made a lease object.
HasAttempt == \A p \in alive : pc[p] # "idle" => attempt[p] > 0

\* What a holder bound is an inode of its own.
BoundIsOwn ==
  \A p \in Processes : HoldsLease(p) => ident[p] # None /\ Owner(ident[p]) = p

\* A lease that is taken over was left by a process that does not run.
SeenIsDead ==
  \A p \in alive :
    pc[p] \in {"rename", "compare", "restore", "recreate", "rebind"} =>
      seen[p] # None /\ Owner(seen[p]) \notin alive

LeaseInv == LeaseTypeOK /\ HasAttempt /\ BoundIsOwn /\ SeenIsDead /\ HolderIsAtPath

\* An inode is not the absence of one.
LEMMA InodesExist == None \notin Inodes
BY LeaseAssumption DEF LeaseAssumption, Inodes

\* An inode a process makes is its own.
LEMMA MineIsOwn ==
  ASSUME LeaseTypeOK, NEW p \in Processes, attempt[p] > 0
  PROVE  Mine(p) \in Inodes /\ Owner(Mine(p)) = p
<1>1. attempt[p] \in 1..MaxAttempts[p]
  BY LeaseAssumption DEF LeaseAssumption, LeaseTypeOK
<1> QED
  BY <1>1 DEF Inodes, Mine, Owner

\* No process holds a lease to begin with.
LEMMA InitLeaseInv == LeaseInit => LeaseInv
<1> SUFFICES ASSUME LeaseInit PROVE LeaseInv
  OBVIOUS
<1> USE DEF LeaseInit
<1>1. LeaseTypeOK
  <2>1. \A p \in Processes : 0 <= MaxAttempts[p]
    BY LeaseAssumption DEF LeaseAssumption
  <2> QED
    BY <2>1 DEF LeaseTypeOK, LeaseSteps
<1>2. HasAttempt /\ BoundIsOwn /\ SeenIsDead /\ HolderIsAtPath
  BY DEF HasAttempt, BoundIsOwn, SeenIsDead, HolderIsAtPath, HoldsLease
<1> QED
  BY <1>1, <1>2 DEF LeaseInv

\* Every step of a contender or holder, a death included, keeps the invariant.
LEMMA NextLeaseInv == LeaseInv /\ [LeaseNext]_leaseVars => LeaseInv'
<1> SUFFICES ASSUME LeaseInv, [LeaseNext]_leaseVars PROVE LeaseInv'
  OBVIOUS
<1> USE LeaseAssumption, InodesExist
<1> USE DEF LeaseInv, LeaseTypeOK, LeaseSteps, HasAttempt, BoundIsOwn, SeenIsDead, HolderIsAtPath,
            HoldsLease, LeaseAt, LeaseGoto, SelfUnchanged, LeaseFilesUnchanged, GiveUp
<1>1. ASSUME NEW p \in Processes, StartAcquire(p) PROVE LeaseInv'
  BY <1>1 DEF StartAcquire, LeaseAssumption
<1>2. ASSUME NEW p \in Processes, Create(p) PROVE LeaseInv'
  BY <1>2, MineIsOwn DEF Create, LinkMine
<1>3. ASSUME NEW p \in Processes, Bind(p) PROVE LeaseInv'
  BY <1>3, MineIsOwn DEF Bind
<1>4. ASSUME NEW p \in Processes, ReadExisting(p) PROVE LeaseInv'
  BY <1>4 DEF ReadExisting, MayTakeOver
<1>5. ASSUME NEW p \in Processes, Rename(p) PROVE LeaseInv'
  <2>1. CASE path = None
    BY <1>5, <2>1 DEF Rename
  <2>2. CASE path # None
    <3>1. /\ p \in alive /\ pc[p] = "rename" /\ seen[p] \in Inodes
          /\ Owner(seen[p]) \notin alive
      BY <1>5 DEF Rename
    <3>2. /\ tomb' = [tomb EXCEPT ![seen[p]] = path] /\ path' = None
          /\ overlapped' = (overlapped \/ path # seen[p])
          /\ pc' = [pc EXCEPT ![p] = "compare"]
          /\ UNCHANGED <<readable, fresh, ident, attempt, seen, alive>>
      BY <1>5, <2>2 DEF Rename
    <3>3. LeaseTypeOK'
      BY <2>2, <3>1, <3>2
    <3>4. HasAttempt' /\ BoundIsOwn' /\ SeenIsDead'
      BY <3>1, <3>2
    <3>5. ~overlapped' => \A q \in Processes : ~HoldsLease(q)
      <4> SUFFICES ASSUME ~overlapped', NEW q \in Processes, HoldsLease(q) PROVE FALSE
        OBVIOUS
      <4>1. path = ident[q] /\ path = seen[p]
        BY <3>2
      <4>2. Owner(ident[q]) = q /\ q \in alive
        OBVIOUS
      <4> QED
        BY <3>1, <4>1, <4>2
    <3>6. HolderIsAtPath'
      BY <3>1, <3>2, <3>5
    <3> QED
      BY <3>3, <3>4, <3>6
  <2> QED
    BY <2>1, <2>2
<1>6. ASSUME NEW p \in Processes, CompareMoved(p) PROVE LeaseInv'
  BY <1>6 DEF CompareMoved
<1>7. ASSUME NEW p \in Processes, Restore(p) PROVE LeaseInv'
  BY <1>7 DEF Restore
<1>8. ASSUME NEW p \in Processes, Recreate(p) PROVE LeaseInv'
  BY <1>8, MineIsOwn DEF Recreate, LinkMine
<1>9. ASSUME NEW p \in Processes, Clean(p) PROVE LeaseInv'
  <2>1. /\ p \in alive /\ pc[p] \in {"cleanHeld", "cleanLost"}
        /\ tomb' = [tomb EXCEPT ![seen[p]] = None]
        /\ UNCHANGED <<path, readable, fresh, attempt, seen, alive, overlapped>>
    BY <1>9 DEF Clean
  <2>2. \/ pc[p] = "cleanHeld" /\ pc' = [pc EXCEPT ![p] = "working"] /\ ident' = ident
        \/ pc' = [pc EXCEPT ![p] = "idle"] /\ ident' = [ident EXCEPT ![p] = None]
    BY <1>9 DEF Clean
  <2>3. LeaseTypeOK'
    BY <2>1, <2>2
  <2>4. HasAttempt' /\ BoundIsOwn' /\ SeenIsDead' /\ HolderIsAtPath'
    BY <2>1, <2>2
  <2> QED
    BY <2>3, <2>4
<1>10. ASSUME NEW p \in Processes, Heartbeat(p) PROVE LeaseInv'
  BY <1>10 DEF Heartbeat
<1>11. ASSUME NEW p \in Processes, WriteHeartbeat(p) PROVE LeaseInv'
  BY <1>11 DEF WriteHeartbeat
<1>12. ASSUME NEW p \in Processes, ReleaseLease(p) PROVE LeaseInv'
  BY <1>12 DEF ReleaseLease
<1>13. ASSUME NEW p \in Processes, Unlink(p) PROVE LeaseInv'
  BY <1>13 DEF Unlink
<1>14. ASSUME NEW p \in Processes, LeaseCrash(p) PROVE LeaseInv'
  BY <1>14 DEF LeaseCrash
<1>15. ASSUME NEW i \in Inodes, Age(i) PROVE LeaseInv'
  BY <1>15 DEF Age
<1>16. CASE UNCHANGED leaseVars
  BY <1>16 DEF leaseVars
<1> QED
  BY <1>1, <1>2, <1>3, <1>4, <1>5, <1>6, <1>7, <1>8, <1>9, <1>10, <1>11, <1>12, <1>13, <1>14,
     <1>15, <1>16 DEF LeaseNext, ProcessStep, Finished

\* Until a contender has moved away a lease it had not read, whoever holds the
\* lease finds its own file at the path (acquire, heartbeat and release,
\* backfill.mjs).
THEOREM HolderKeepsPath == LeaseSpec => []HolderIsAtPath
<1>1. LeaseInv => HolderIsAtPath
  BY DEF LeaseInv
<1> QED
  BY InitLeaseInv, NextLeaseInv, <1>1, PTL DEF LeaseSpec

\* Two processes never hold the lease before such a move.
THEOREM ExclusiveUntilOverlap == LeaseSpec => [](~overlapped => MutualExclusion)
<1>1. LeaseInv => (~overlapped => MutualExclusion)
  BY DEF LeaseInv, BoundIsOwn, HolderIsAtPath, MutualExclusion
<1> QED
  BY InitLeaseInv, NextLeaseInv, <1>1, PTL DEF LeaseSpec

(***************************************************************************)
(* Provisioning.  While a job has the lock of its tool nobody else writes, *)
(* so the files are those it found, overlaid with what it has replaced:    *)
(* its backups and its entry say all.  That holds of a team whose jobs use *)
(* one tool: jobs of two tools overwrite one another's entries, as the     *)
(* locks are not shared.                                                   *)
(***************************************************************************)

\* The hypothesis of the theorems.
OneTool(jobs) == \A j, k \in jobs : j.tool = k.tool

Steps == {"idle", "read", "validate", "check", "replace", "handoff", "finish", "rollback",
          "restore", "restorePam", "cleanup"}
Replacing == {"check", "replace", "handoff", "finish"}

IsProcess(p) ==
  p = [at |-> p.at, read |-> p.read, replaced |-> p.replaced] /\ p.at \in Steps

ProvisioningTypeOK ==
  /\ team \in Teams
  /\ disk \in [Files -> [ino : Nat, entries : SUBSET team]]
  /\ locks \in [Tools -> [owner : {j.id : j \in team} \cup {"none"}, failed : BOOLEAN]]
  /\ job = [j \in Jobs |-> job[j]] /\ \A j \in Jobs : IsProcess(job[j])
  /\ backups = [j \in Jobs |-> backups[j]]
  /\ handoffs \subseteq team /\ reported \subseteq team

Holds(j) == locks[j.tool].owner = j.id

\* Only who has the lock runs, and a lock is that of a job of its tool.
LocksOK ==
  /\ \A j \in Jobs : job[j].at # "idle" => j \in team /\ Holds(j)
  /\ \A t \in Tools : locks[t] # NoLock => \E j \in team : j.tool = t /\ Holds(j)

Contents == [f \in Files |-> Entries(f)]

\* What the files were before the holder of the lock began.
Found(j) ==
  [f \in Files |-> IF f \in DOMAIN backups[j] THEN backups[j][f].entries ELSE Entries(f)]

\* A collector or consumer is in all of its files or in none; the actor of a
\* handoff may authenticate.
Tidy(contents, published) ==
  \A k \in Jobs : k.tool \in {"collector", "consumer"} =>
    /\ \A f \in Range(Chain(k)) : k \in contents[f] <=> k \in contents["auth"]
    /\ k \in published => \E e \in contents["auth"] : e.actor = k.actor

\* The first n files have the entry of the job, the others are as it found them.
Replaced(j, n) ==
  \A i \in 1..Len(Chain(j)) :
    LET f == Chain(j)[i] IN
    Entries(f) = IF i <= n THEN With(j, backups[j][f].entries) ELSE backups[j][f].entries

\* Nothing is prepared: the files are as they were found.
UnpreparedOK(j) ==
  /\ job[j].at \in {"idle", "read", "validate"} /\ job[j].replaced = 0
  /\ ~locks[j.tool].failed /\ j \notin handoffs
  /\ job[j].at # "idle" =>
       /\ DOMAIN job[j].read \subseteq Range(Chain(j))
       /\ \A f \in DOMAIN job[j].read : job[j].read[f] = disk[f]
  /\ job[j].at = "read" => DOMAIN job[j].read # Range(Chain(j))
  /\ job[j].at = "validate" => DOMAIN job[j].read = Range(Chain(j))

PreparedOK(j) ==
  LET n == job[j].replaced
      chain == Chain(j)
  IN
  /\ DOMAIN backups[j] = Range(chain)
  /\ \A f \in Range(chain) : /\ backups[j][f].entries \subseteq team
                             /\ Entries(f) \in {backups[j][f].entries, With(j, backups[j][f].entries)}
  /\ n \in 0..Len(chain)
  /\ job[j].at \notin {"read", "validate"}
  /\ job[j].at = "restore" => j.tool # "lane"
  /\ job[j].at \in {"restorePam", "cleanup"} => j.tool = "lane"
  /\ job[j].at \in Replacing =>
       /\ ~locks[j.tool].failed /\ Replaced(j, n)
       /\ n = Len(chain) <=> job[j].at \in {"handoff", "finish"}
       /\ \A f \in Range(chain) : f \in DOMAIN job[j].read
                                  /\ job[j].read[f].entries = backups[j][f].entries
  /\ j.tool # "lane" /\ ~locks[j.tool].failed =>
       /\ \E m \in 0..Len(chain) : Replaced(j, m)
       /\ job[j].at \in {"rollback", "restore"} => Replaced(j, n)
       /\ job[j].at = "restore" => j \notin handoffs

HolderOK(j) ==
  /\ Tidy(Found(j), handoffs \ {j})
  /\ IF DOMAIN backups[j] = {} THEN UnpreparedOK(j) ELSE PreparedOK(j)

\* A reported job no other job has the principal of.
Lasting(j) == j \in reported /\ \A k \in Jobs \ {j} : k.actor # j.actor
ReportedOK ==
  \A j \in Jobs : Lasting(j) => \A f \in Range(Chain(j)) :
    /\ j \in Entries(f)
    /\ \A k \in team : Holds(k) /\ f \in DOMAIN backups[k] => j \in backups[k][f].entries

ProvisioningInv ==
  /\ ProvisioningTypeOK /\ OneTool(team) /\ LocksOK /\ ReportedOK
  /\ (\A j \in team : ~Holds(j)) => Tidy(Contents, handoffs)
  /\ \A j \in team : Holds(j) => HolderOK(j)

\* What a tool replaces: up to three files, each once, the registry last unless
\* it is a lane's.
LEMMA ChainFacts ==
  ASSUME NEW j \in Jobs
  PROVE  /\ j.tool \in Tools
         /\ Len(Chain(j)) \in 1..3 /\ Range(Chain(j)) \subseteq Files /\ Range(Chain(j)) # {}
         /\ \A i \in 1..Len(Chain(j)) : Chain(j)[i] \in Range(Chain(j))
         /\ \A f \in Range(Chain(j)) : \E i \in 1..Len(Chain(j)) : Chain(j)[i] = f
         /\ \A i, k \in 1..Len(Chain(j)) : Chain(j)[i] = Chain(j)[k] => i = k
         /\ j.tool \in {"collector", "consumer"} => Len(Chain(j)) = 3 /\ Chain(j)[3] = "auth"
         /\ j.tool = "lane" => "auth" \in Range(Chain(j)) /\ "pam" \in Range(Chain(j))
<1>0. j.tool \in Tools
  BY ProvisioningAssumption DEF ProvisioningAssumption, Job
<1>1. CASE j.tool = "collector"
  BY <1>1 DEF Tools, Chain, FilesOf, Range, Files
<1>2. CASE j.tool = "consumer"
  BY <1>2 DEF Tools, Chain, FilesOf, Range, Files
<1>3. CASE j.tool = "lane"
  BY <1>3 DEF Tools, Chain, FilesOf, Range, Files
<1>4. CASE j.tool = "route"
  BY <1>4 DEF Tools, Chain, FilesOf, Range, Files
<1> QED
  BY <1>0, <1>1, <1>2, <1>3, <1>4 DEF Tools

\* The jobs of a team are told apart by their ids.
LEMMA TeamFacts ==
  ASSUME ProvisioningTypeOK
  PROVE  /\ team \subseteq Jobs
         /\ \A j, k \in Jobs : j.id = k.id => j = k
         /\ \A j \in Jobs : j.id # "none" /\ j.tool \in Tools
BY ProvisioningAssumption, ChainFacts DEF ProvisioningAssumption, ProvisioningTypeOK

\* One tool, one lock, one holder.
LEMMA OneHolder ==
  ASSUME ProvisioningInv, NEW j \in team, Holds(j)
  PROVE  \A k \in team : Holds(k) => k = j
BY TeamFacts DEF ProvisioningInv, OneTool, Holds

\* Whoever runs has the lock.
LEMMA RunnerHolds ==
  ASSUME ProvisioningInv, NEW j \in Jobs, job[j].at # "idle"
  PROVE  /\ j \in team /\ Holds(j) /\ HolderOK(j) /\ IsProcess(job[j])
         /\ job[j].at \in Steps
         /\ locks[j.tool] \in [owner : {k.id : k \in team} \cup {"none"}, failed : BOOLEAN]
BY TeamFacts DEF ProvisioningInv, LocksOK, ProvisioningTypeOK, IsProcess

\* A file is written, the others are not.
LEMMA WriteEffect ==
  ASSUME ProvisioningTypeOK, NEW f \in Files, NEW S \in SUBSET team, NEW inPlace \in BOOLEAN,
         Write(f, S, inPlace)
  PROVE  /\ disk' \in [Files -> [ino : Nat, entries : SUBSET team]]
         /\ \A g \in Files : Entries(g)' = IF g = f THEN S ELSE Entries(g)
<1>1. disk \in [Files -> [ino : Nat, entries : SUBSET team]]
  BY DEF ProvisioningTypeOK
<1>2. PICK n \in Nat : disk' = [disk EXCEPT ![f] = [ino |-> n, entries |-> S]]
  <2>1. disk[f].ino \in Nat
    BY <1>1
  <2>2. CASE inPlace
    BY <2>1, <2>2 DEF Write
  <2>3. CASE ~inPlace
    <3>1. disk' = [disk EXCEPT ![f] = [ino |-> disk[f].ino + 1, entries |-> S]]
      BY <2>3 DEF Write
    <3>2. disk[f].ino + 1 \in Nat
      BY <2>1
    <3> QED
      BY <3>1, <3>2
  <2> QED
    BY <2>2, <2>3
<1> QED
  BY <1>1, <1>2 DEF Entries

\* The holder goes on: only what concerns it has changed.
HolderMoves(j) ==
  /\ job' = [job EXCEPT ![j] = job'[j]] /\ IsProcess(job'[j])
  /\ locks' = [locks EXCEPT ![j.tool] = locks'[j.tool]]
  /\ locks'[j.tool] \in [owner : {j.id}, failed : BOOLEAN]
  /\ backups' = [backups EXCEPT ![j] = backups'[j]]
  /\ disk' \in [Files -> [ino : Nat, entries : SUBSET team]]
  /\ handoffs' \subseteq team /\ UNCHANGED <<team, reported>>

LEMMA MoveKept ==
  ASSUME ProvisioningInv, NEW j \in team, Holds(j), HolderMoves(j), HolderOK(j)', ReportedOK'
  PROVE  ProvisioningInv'
<1>0. j \in Jobs /\ j.tool \in Tools /\ team \subseteq Jobs
  BY TeamFacts DEF ProvisioningInv
<1>1. \A k \in Jobs \ {j} : job'[k] = job[k]
  BY <1>0 DEF HolderMoves, ProvisioningInv, ProvisioningTypeOK
<1>2. \A t \in Tools \ {j.tool} : locks'[t] = locks[t]
  BY <1>0 DEF HolderMoves, ProvisioningInv, ProvisioningTypeOK
<1>3. /\ job' = [k \in Jobs |-> job'[k]] /\ \A k \in Jobs : IsProcess(job'[k])
      /\ backups' = [k \in Jobs |-> backups'[k]]
  <2>1. job = [k \in Jobs |-> job[k]] /\ backups = [k \in Jobs |-> backups[k]]
    BY DEF ProvisioningInv, ProvisioningTypeOK
  <2>2. job' = [job EXCEPT ![j] = job'[j]] /\ backups' = [backups EXCEPT ![j] = backups'[j]]
    BY DEF HolderMoves
  <2>3. \A k \in Jobs : IsProcess(job'[k])
    BY <1>1 DEF HolderMoves, ProvisioningInv, ProvisioningTypeOK
  <2> QED
    BY <2>1, <2>2, <2>3
<1>4. locks' \in [Tools -> [owner : {k.id : k \in team} \cup {"none"}, failed : BOOLEAN]]
  BY <1>0 DEF HolderMoves, ProvisioningInv, ProvisioningTypeOK
<1>5. ProvisioningTypeOK'
  BY <1>3, <1>4 DEF HolderMoves, ProvisioningInv, ProvisioningTypeOK, IsProcess
<1>6. \A k \in team : Holds(k)' => k = j
  BY <1>0, <1>5, TeamFacts DEF HolderMoves, ProvisioningInv, OneTool, Holds
<1>7. Holds(j)'
  BY DEF HolderMoves, Holds
<1>8. LocksOK'
  <2>1. ASSUME NEW k \in Jobs, job'[k].at # "idle"
        PROVE  k \in team' /\ Holds(k)'
    <3>1. CASE k = j
      BY <1>7, <3>1 DEF HolderMoves
    <3>2. CASE k # j
      <4>1. job[k].at # "idle"
        BY <1>1, <2>1, <3>2
      <4>2. k \in team /\ Holds(k)
        BY <4>1 DEF ProvisioningInv, LocksOK
      <4> QED
        BY <3>2, <4>2, OneHolder
    <3> QED
      BY <3>1, <3>2
  <2>2. ASSUME NEW t \in Tools, locks'[t] # NoLock
        PROVE  \E k \in team : k.tool = t /\ Holds(k)'
    <3>1. CASE t = j.tool
      BY <1>7, <3>1
    <3>2. CASE t # j.tool
      <4>1. PICK k \in team : k.tool = t
        BY <1>2, <2>2, <3>2 DEF ProvisioningInv, LocksOK
      <4> QED
        BY <3>2, <4>1 DEF ProvisioningInv, OneTool
    <3> QED
      BY <3>1, <3>2
  <2>3. team' = team
    BY DEF HolderMoves
  <2> QED
    BY <2>1, <2>2, <2>3 DEF LocksOK
<1>9. team' = team /\ OneTool(team)
  BY DEF HolderMoves, ProvisioningInv
<1> QED
  BY <1>5, <1>6, <1>7, <1>8, <1>9 DEF ProvisioningInv, OneTool

\* The holder gives its lock back.
HolderLeaves(j) ==
  /\ job' = [job EXCEPT ![j] = job'[j]] /\ IsProcess(job'[j]) /\ job'[j].at = "idle"
  /\ locks' = [locks EXCEPT ![j.tool] = NoLock]
  /\ disk' \in [Files -> [ino : Nat, entries : SUBSET team]]
  /\ handoffs' \subseteq team /\ reported' \subseteq team /\ UNCHANGED <<team, backups>>

LEMMA LeaveKept ==
  ASSUME ProvisioningInv, NEW j \in team, Holds(j), HolderLeaves(j),
         Tidy(Contents, handoffs)', ReportedOK'
  PROVE  ProvisioningInv'
<1>0. j \in Jobs /\ j.tool \in Tools /\ team \subseteq Jobs /\ OneTool(team)
  BY TeamFacts DEF ProvisioningInv
<1>1. \A k \in Jobs \ {j} : job'[k] = job[k]
  BY <1>0 DEF HolderLeaves, ProvisioningInv, ProvisioningTypeOK
<1>2. \A t \in Tools : locks'[t] = IF t = j.tool THEN NoLock ELSE locks[t]
  BY <1>0 DEF HolderLeaves, ProvisioningInv, ProvisioningTypeOK
<1>3. IsProcess(job'[j]) /\ job'[j].at = "idle"
  BY DEF HolderLeaves
<1>4. ProvisioningTypeOK'
  <2>1. job' = [k \in Jobs |-> job'[k]] /\ \A k \in Jobs : IsProcess(job'[k])
    BY <1>0, <1>1, <1>3 DEF HolderLeaves, ProvisioningInv, ProvisioningTypeOK
  <2>2. locks' \in [Tools -> [owner : {k.id : k \in team} \cup {"none"}, failed : BOOLEAN]]
    BY <1>0 DEF HolderLeaves, ProvisioningInv, ProvisioningTypeOK, NoLock
  <2> QED
    BY <2>1, <2>2 DEF HolderLeaves, ProvisioningInv, ProvisioningTypeOK, IsProcess
<1>5. \A k \in team : ~Holds(k)'
  <2> TAKE k \in team
  <2>1. k.tool = j.tool /\ k.id # "none"
    BY <1>0, TeamFacts DEF OneTool, ProvisioningInv
  <2>2. locks'[k.tool] = NoLock
    BY <1>0, <1>2, <2>1
  <2> QED
    BY <2>1, <2>2 DEF Holds, NoLock
<1>6. LocksOK'
  <2>1. ASSUME NEW k \in Jobs, job'[k].at # "idle"
        PROVE  FALSE
    <3>1. k # j /\ job[k].at # "idle"
      BY <1>1, <1>3, <2>1
    <3> QED
      BY <3>1, OneHolder DEF ProvisioningInv, LocksOK
  <2>2. ASSUME NEW t \in Tools, locks'[t] # NoLock
        PROVE  FALSE
    <3>1. t # j.tool /\ locks[t] # NoLock
      BY <1>2, <2>2
    <3> QED
      BY <1>0, <3>1 DEF ProvisioningInv, LocksOK, OneTool
  <2> QED
    BY <2>1, <2>2 DEF LocksOK
<1>7. team' = team
  BY DEF HolderLeaves
<1> QED
  BY <1>0, <1>4, <1>5, <1>6, <1>7 DEF ProvisioningInv, OneTool

\* The entry of a job takes the place of those of its actor.
LEMMA WithFacts ==
  ASSUME NEW j, NEW S
  PROVE  /\ j \in With(j, S) /\ With(j, S) \subseteq S \cup {j}
         /\ \A k \in S : k.actor # j.actor => k \in With(j, S)
         /\ \A k \in With(j, S) : k = j \/ (k \in S /\ k.actor # j.actor)
BY DEF With

\* What has been reported stays in the files, the holder's step included.
LEMMA ReportedKept ==
  ASSUME ProvisioningInv, NEW j \in team, Holds(j), team' = team,
         \A k \in reported' : k \in reported \/
           (/\ k = j /\ \A f \in Range(Chain(j)) : j \in Entries(f)'
            /\ \A i \in team : ~Holds(i)'),
         \A f \in Files : Entries(f)' \in {Entries(f), With(j, Entries(f))} \/
           (/\ f \in DOMAIN backups[j]
            /\ Entries(f)' \in {backups[j][f].entries, With(j, backups[j][f].entries)}),
         \A k \in team : Holds(k)' => k = j,
         \A f \in Files : f \in DOMAIN backups'[j] =>
           \/ backups'[j][f].entries = Entries(f)
           \/ f \in DOMAIN backups[j] /\ backups'[j][f].entries = backups[j][f].entries
  PROVE  ReportedOK'
<1> SUFFICES ASSUME NEW k \in Jobs, Lasting(k)', NEW f \in Range(Chain(k))
             PROVE  /\ k \in Entries(f)'
                    /\ \A i \in team : Holds(i)' /\ f \in DOMAIN backups'[i] =>
                         k \in backups'[i][f].entries
  BY DEF ReportedOK
<1>1. f \in Files /\ j \in Jobs
  BY ChainFacts, TeamFacts DEF ProvisioningInv
<1>2. CASE k \notin reported
  BY <1>2 DEF Lasting
<1>3. CASE k \in reported
  <2>1. Lasting(k)
    BY <1>3 DEF Lasting
  <2>2. k \in Entries(f) /\ (f \in DOMAIN backups[j] => k \in backups[j][f].entries)
    BY <2>1 DEF ProvisioningInv, ReportedOK
  <2>3. k = j \/ k.actor # j.actor
    BY <1>1, <2>1 DEF Lasting
  <2>4. k \in With(j, Entries(f))
        /\ (f \in DOMAIN backups[j] => k \in With(j, backups[j][f].entries))
    BY <2>2, <2>3, WithFacts
  <2>5. k \in Entries(f)'
    BY <1>1, <2>2, <2>4
  <2> QED
    BY <1>1, <2>2, <2>5
<1> QED
  BY <1>2, <1>3

\* In a team of lanes or routes there is nothing to tidy.
LEMMA OthersAreTidy ==
  ASSUME ProvisioningInv, NEW j \in team, j.tool \notin {"collector", "consumer"},
         NEW contents, \A f \in Files : contents[f] \subseteq team,
         NEW published \in SUBSET team
  PROVE  Tidy(contents, published)
<1> SUFFICES ASSUME NEW k \in Jobs, k.tool \in {"collector", "consumer"}
             PROVE  /\ \A f \in Range(Chain(k)) : k \in contents[f] <=> k \in contents["auth"]
                    /\ k \notin published
  BY DEF Tidy
<1>1. k \notin team
  BY DEF ProvisioningInv, OneTool
<1>2. Range(Chain(k)) \subseteq Files /\ "auth" \in Files
  BY ChainFacts DEF Files
<1> QED
  BY <1>1, <1>2

\* The entries of every file are jobs of the team, also those that were found.
LEMMA EntriesTyped ==
  ASSUME ProvisioningInv, NEW j \in team, Holds(j)
  PROVE  /\ \A f \in Files : Entries(f) \subseteq team /\ Found(j)[f] \subseteq team
         /\ \A f \in DOMAIN backups[j] : backups[j][f].entries \subseteq team /\ f \in Files
         /\ j \in Jobs
<1>1. j \in Jobs /\ \A f \in Files : Entries(f) \subseteq team
  BY TeamFacts DEF ProvisioningInv, ProvisioningTypeOK, Entries
<1>2. \A f \in DOMAIN backups[j] : backups[j][f].entries \subseteq team /\ f \in Files
  <2>1. HolderOK(j)
    BY DEF ProvisioningInv
  <2>2. CASE DOMAIN backups[j] = {}
    BY <2>2
  <2>3. CASE DOMAIN backups[j] # {}
    BY <1>1, <2>1, <2>3, ChainFacts DEF HolderOK, PreparedOK
  <2> QED
    BY <2>2, <2>3
<1> QED
  BY <1>1, <1>2 DEF Found

\* Every file replaced: the files are as tidy as they were found, and the job is
\* in all of them.
LEMMA ReplacedIsTidy ==
  ASSUME ProvisioningInv, NEW j \in team, Holds(j), DOMAIN backups[j] # {},
         Replaced(j, Len(Chain(j)))
  PROVE  Tidy(Contents, handoffs)
<1>1. HolderOK(j) /\ PreparedOK(j) /\ j \in Jobs
  BY EntriesTyped DEF ProvisioningInv, HolderOK
<1>2. CASE j.tool \notin {"collector", "consumer"}
  BY <1>2, OthersAreTidy, EntriesTyped DEF ProvisioningInv, ProvisioningTypeOK, Contents
<1>3. CASE j.tool \in {"collector", "consumer"}
  <2>1. \A f \in Range(Chain(j)) : Entries(f) = With(j, Found(j)[f])
    BY <1>1, ChainFacts DEF Replaced, PreparedOK, Found
  <2>2. "auth" \in Range(Chain(j)) /\ Range(Chain(j)) \subseteq Files
    BY <1>1, <1>3, ChainFacts
  <2> SUFFICES ASSUME NEW k \in Jobs, k.tool \in {"collector", "consumer"}
               PROVE  /\ \A f \in Range(Chain(k)) : k \in Entries(f) <=> k \in Entries("auth")
                      /\ k \in handoffs => \E e \in Entries("auth") : e.actor = k.actor
    BY ChainFacts DEF Tidy, Contents, Files
  <2>3. CASE k \notin team
    BY <2>3, EntriesTyped, ChainFacts DEF ProvisioningInv, ProvisioningTypeOK, Files
  <2>4. CASE k \in team
    <3>1. Range(Chain(k)) = Range(Chain(j))
      BY <2>4 DEF ProvisioningInv, OneTool, Chain
    <3>2. /\ \A f \in Range(Chain(j)) : k \in Found(j)[f] <=> k \in Found(j)["auth"]
          /\ k \in handoffs \ {j} => \E e \in Found(j)["auth"] : e.actor = k.actor
      BY <1>1, <3>1 DEF HolderOK, Tidy
    <3>3. ASSUME NEW f \in Range(Chain(j))
          PROVE  k \in Entries(f) <=> k \in Entries("auth")
      BY <2>1, <2>2, <3>2, WithFacts
    <3>4. k \in handoffs => \E e \in Entries("auth") : e.actor = k.actor
      <4>1. CASE k = j
        BY <2>1, <2>2, <4>1, WithFacts
      <4>2. CASE k # j /\ k \in handoffs
        <5>1. PICK e \in Found(j)["auth"] : e.actor = k.actor
          BY <3>2, <4>2
        <5> QED
          BY <2>1, <2>2, <5>1, WithFacts
      <4> QED
        BY <4>1, <4>2
    <3> QED
      BY <3>1, <3>3, <3>4
  <2> QED
    BY <2>3, <2>4
<1> QED
  BY <1>2, <1>3

\* What was found is as it was while neither the backups nor the other files
\* change.
LEMMA FoundKept ==
  ASSUME ProvisioningInv, NEW j \in team, Holds(j), backups'[j] = backups[j],
         \A f \in Files : f \in DOMAIN backups[j] \/ Entries(f)' = Entries(f),
         handoffs' \ {j} = handoffs \ {j}
  PROVE  Tidy(Found(j), handoffs \ {j})'
<1>1. Tidy(Found(j), handoffs \ {j})
  BY DEF ProvisioningInv, HolderOK
<1>2. Found(j)' = Found(j)
  BY DEF Found
<1> QED
  BY <1>1, <1>2 DEF Tidy

\* Nothing prepared: what was found is there.
LEMMA UnpreparedIsTidy ==
  ASSUME ProvisioningInv, NEW j \in team, Holds(j), DOMAIN backups[j] = {}
  PROVE  Tidy(Contents, handoffs) /\ UnpreparedOK(j) /\ Found(j) = Contents
<1>1. Found(j) = Contents /\ UnpreparedOK(j) /\ Tidy(Found(j), handoffs \ {j})
  BY DEF Found, Contents, ProvisioningInv, HolderOK
<1>2. handoffs \ {j} = handoffs
  BY <1>1 DEF UnpreparedOK
<1> QED
  BY <1>1, <1>2

\* The lock is taken while nobody has it.
LEMMA AcquireLockKept ==
  ASSUME ProvisioningInv, NEW j \in Jobs, AcquireLock(j)
  PROVE  ProvisioningInv'
<1>1. /\ j \in team /\ locks[j.tool] = NoLock /\ j \notin handoffs
      /\ locks' = [locks EXCEPT ![j.tool] = [owner |-> j.id, failed |-> FALSE]]
      /\ job' = [job EXCEPT ![j] = [NotRunning EXCEPT !.at = "read"]]
      /\ backups' = [backups EXCEPT ![j] = <<>>]
      /\ UNCHANGED <<team, disk, handoffs, reported>>
  BY DEF AcquireLock
<1>2. \A k \in team : ~Holds(k)
  BY <1>1, TeamFacts DEF ProvisioningInv, OneTool, Holds, NoLock
<1>3. Tidy(Contents, handoffs)
  BY <1>2 DEF ProvisioningInv
<1>4. j.tool \in Tools /\ Range(Chain(j)) # {}
  BY ChainFacts
<1>5. \A k \in Jobs : job'[k] = IF k = j THEN [NotRunning EXCEPT !.at = "read"] ELSE job[k]
  BY <1>1 DEF ProvisioningInv, ProvisioningTypeOK
<1>6. \A t \in Tools : locks'[t] = IF t = j.tool THEN [owner |-> j.id, failed |-> FALSE]
                                   ELSE locks[t]
  BY <1>1, <1>4 DEF ProvisioningInv, ProvisioningTypeOK
<1>7. backups'[j] = <<>> /\ DOMAIN backups'[j] = {}
  BY <1>1 DEF ProvisioningInv, ProvisioningTypeOK
<1>8. ProvisioningTypeOK'
  <2>1. IsProcess([NotRunning EXCEPT !.at = "read"])
    BY DEF NotRunning, IsProcess, Steps
  <2>2. job' = [k \in Jobs |-> job'[k]] /\ \A k \in Jobs : IsProcess(job'[k])
    BY <1>1, <1>5, <2>1 DEF ProvisioningInv, ProvisioningTypeOK
  <2>3. locks' \in [Tools -> [owner : {k.id : k \in team} \cup {"none"}, failed : BOOLEAN]]
    BY <1>1, <1>4 DEF ProvisioningInv, ProvisioningTypeOK
  <2> QED
    BY <1>1, <2>2, <2>3 DEF ProvisioningInv, ProvisioningTypeOK, IsProcess
<1>9. Holds(j)' /\ \A k \in team : Holds(k)' => k = j
  <2>1. Holds(j)'
    BY <1>4, <1>6 DEF Holds
  <2> QED
    BY <1>1, <1>4, <1>6, <2>1, TeamFacts DEF ProvisioningInv, OneTool, Holds
<1>10. LocksOK'
  <2>1. ASSUME NEW k \in Jobs, job'[k].at # "idle"
        PROVE  k = j
    BY <1>2, <1>5, <2>1 DEF ProvisioningInv, LocksOK
  <2>2. ASSUME NEW t \in Tools, locks'[t] # NoLock
        PROVE  t = j.tool
    BY <1>2, <1>6, <2>2 DEF ProvisioningInv, LocksOK
  <2> QED
    BY <1>1, <1>9, <2>1, <2>2 DEF LocksOK
<1>11. HolderOK(j)'
  <2>1. (Found(j) = Contents)'
    BY <1>7 DEF Found, Contents
  <2>2. Contents' = Contents /\ handoffs' \ {j} = handoffs
    BY <1>1 DEF Contents, Entries
  <2>3. Tidy(Found(j), handoffs \ {j})'
    BY <1>3, <2>1, <2>2 DEF Tidy
  <2>4. /\ job'[j].at = "read" /\ DOMAIN job'[j].read = {} /\ job'[j].replaced = 0
        /\ ~locks'[j.tool].failed
    BY <1>4, <1>5, <1>6 DEF NotRunning
  <2> QED
    BY <1>1, <1>4, <1>7, <2>3, <2>4 DEF HolderOK, UnpreparedOK
<1>12. ReportedOK'
  BY <1>1, <1>7, <1>9 DEF ProvisioningInv, ReportedOK, Lasting, Entries
<1> QED
  BY <1>1, <1>8, <1>9, <1>10, <1>11, <1>12 DEF ProvisioningInv, OneTool

\* A step of the holder that writes no file: types and reports are kept.
Quiet(j, p, l) ==
  /\ IsProcess(p) /\ job' = [job EXCEPT ![j] = p]
  /\ l \in [owner : {j.id}, failed : BOOLEAN] /\ locks' = [locks EXCEPT ![j.tool] = l]
  /\ UNCHANGED <<team, disk, backups, reported>>

LEMMA QuietFacts ==
  ASSUME ProvisioningInv, NEW j \in team, Holds(j), NEW p, NEW l, Quiet(j, p, l),
         handoffs' \subseteq team, handoffs' \ {j} = handoffs \ {j}
  PROVE  /\ HolderMoves(j) /\ ReportedOK' /\ Tidy(Found(j), handoffs \ {j})'
         /\ job'[j] = p /\ locks'[j.tool] = l /\ backups'[j] = backups[j]
         /\ \A f \in Files : Entries(f)' = Entries(f) /\ disk'[f] = disk[f]
         /\ \A n : Replaced(j, n)' = Replaced(j, n)
<1>0. j \in Jobs /\ j.tool \in Tools /\ \A k \in team : k.tool = j.tool
  BY TeamFacts DEF ProvisioningInv, OneTool
<1>1. job'[j] = p /\ locks'[j.tool] = l /\ backups' = backups /\ disk' = disk
  BY <1>0 DEF Quiet, ProvisioningInv, ProvisioningTypeOK
<1>2. HolderMoves(j)
  BY <1>0, <1>1 DEF Quiet, HolderMoves, ProvisioningInv, ProvisioningTypeOK
<1>3. \A f \in Files : Entries(f)' = Entries(f)
  BY <1>1 DEF Entries
<1>4. \A k \in team : Holds(k)' => k = j
  BY <1>0, <1>1, TeamFacts DEF Holds, Quiet, ProvisioningInv
<1>5. ReportedOK'
  BY <1>1, <1>3, <1>4, ReportedKept DEF Quiet
<1>6. Tidy(Found(j), handoffs \ {j})'
  BY <1>1, <1>3, FoundKept
<1>7. \A n : Replaced(j, n)' = Replaced(j, n)
  BY <1>1 DEF Replaced, Entries
<1> QED
  BY <1>1, <1>2, <1>3, <1>5, <1>6, <1>7

\* A job goes to its next step.
LEMMA JobStepEffect ==
  ASSUME NEW j, NEW step \in Steps, IsProcess(job[j]), JobStep(j, step)
  PROVE  LET p == [at |-> step, read |-> job[j].read, replaced |-> job[j].replaced]
         IN  IsProcess(p) /\ job' = [job EXCEPT ![j] = p]
<1> DEFINE p == [at |-> step, read |-> job[j].read, replaced |-> job[j].replaced]
<1>1. [job[j] EXCEPT !.at = step] = p
  BY DEF IsProcess
<1>2. job' = [job EXCEPT ![j] = [job[j] EXCEPT !.at = step]]
  BY DEF JobStep
<1> QED
  BY <1>1, <1>2 DEF IsProcess

\* A job goes on and has read, replaced or restored one more file.
Reads(j, v, step) == job' = [job EXCEPT ![j].read = v, ![j].at = step]
Replaces(j, v, step) == job' = [job EXCEPT ![j].replaced = v, ![j].at = step]
Restores(j, v) == job' = [job EXCEPT ![j].replaced = v]

LEMMA JobUpdates ==
  ASSUME ProvisioningTypeOK, NEW j \in Jobs, NEW v, NEW step
  PROVE  /\ Reads(j, v, step) =>
              job' = [job EXCEPT ![j] = [at |-> step, read |-> v, replaced |-> job[j].replaced]]
         /\ Replaces(j, v, step) =>
              job' = [job EXCEPT ![j] = [at |-> step, read |-> job[j].read, replaced |-> v]]
         /\ Restores(j, v) =>
              job' = [job EXCEPT ![j] = [at |-> job[j].at, read |-> job[j].read, replaced |-> v]]
<1> DEFINE a == job[j].at
           r == job[j].read
           n == job[j].replaced
<1>0. job = [k \in Jobs |-> job[k]]
  BY DEF ProvisioningTypeOK
<1>1. job[j] = [at |-> a, read |-> r, replaced |-> n]
  BY DEF IsProcess, ProvisioningTypeOK
<1> HIDE DEF a, r, n
<1>2. ASSUME Reads(j, v, step)
      PROVE  job' = [job EXCEPT ![j] = [at |-> step, read |-> v, replaced |-> n]]
  <2>1. job' = [k \in Jobs |-> job'[k]]
    BY <1>0, <1>2 DEF Reads
  <2>2. job'[j] = [at |-> step, read |-> v, replaced |-> n]
    <3> DEFINE between == [job EXCEPT ![j].read = v]
    <3>1. DOMAIN between = Jobs /\ between[j] = [at |-> a, read |-> v, replaced |-> n]
      BY <1>0, <1>1
    <3>2. job' = [between EXCEPT ![j].at = step]
      BY <1>2 DEF Reads
    <3> HIDE DEF between
    <3> QED
      BY <3>1, <3>2
  <2>3. \A k \in Jobs \ {j} : job'[k] = job[k]
    BY <1>0, <1>2 DEF Reads
  <2> QED
    BY <1>0, <2>1, <2>2, <2>3
<1>3. ASSUME Replaces(j, v, step)
      PROVE  job' = [job EXCEPT ![j] = [at |-> step, read |-> r, replaced |-> v]]
  <2>1. job' = [k \in Jobs |-> job'[k]]
    BY <1>0, <1>3 DEF Replaces
  <2>2. job'[j] = [at |-> step, read |-> r, replaced |-> v]
    <3> DEFINE between == [job EXCEPT ![j].replaced = v]
    <3>1. DOMAIN between = Jobs /\ between[j] = [at |-> a, read |-> r, replaced |-> v]
      BY <1>0, <1>1
    <3>2. job' = [between EXCEPT ![j].at = step]
      BY <1>3 DEF Replaces
    <3> HIDE DEF between
    <3> QED
      BY <3>1, <3>2
  <2>3. \A k \in Jobs \ {j} : job'[k] = job[k]
    BY <1>0, <1>3 DEF Replaces
  <2> QED
    BY <1>0, <2>1, <2>2, <2>3
<1>4. ASSUME Restores(j, v)
      PROVE  job' = [job EXCEPT ![j] = [at |-> a, read |-> r, replaced |-> v]]
  <2>1. job' = [k \in Jobs |-> job'[k]]
    BY <1>0, <1>4 DEF Restores
  <2>2. job'[j] = [at |-> a, read |-> r, replaced |-> v]
    BY <1>0, <1>1, <1>4 DEF Restores
  <2>3. \A k \in Jobs \ {j} : job'[k] = job[k]
    BY <1>0, <1>4 DEF Restores
  <2> QED
    BY <1>0, <2>1, <2>2, <2>3
<1> QED
  BY <1>2, <1>3, <1>4 DEF a, r, n

\* The lock of a holder is its own, whole or marked.
LEMMA LockOfHolder ==
  ASSUME ProvisioningInv, NEW j \in team, Holds(j)
  PROVE  /\ locks[j.tool] \in [owner : {j.id}, failed : BOOLEAN]
         /\ locks' = locks => locks' = [locks EXCEPT ![j.tool] = locks[j.tool]]
         /\ locks' = [locks EXCEPT ![j.tool].failed = TRUE] =>
              locks' = [locks EXCEPT ![j.tool] = [owner |-> j.id, failed |-> TRUE]]
<1>1. j.tool \in Tools /\ locks[j.tool].owner = j.id
      /\ locks \in [Tools -> [owner : {k.id : k \in team} \cup {"none"}, failed : BOOLEAN]]
  BY TeamFacts DEF ProvisioningInv, ProvisioningTypeOK, Holds
<1>2. locks[j.tool] = [owner |-> j.id, failed |-> locks[j.tool].failed]
  BY <1>1
<1> QED
  BY <1>1, <1>2

\* One more file is read while nobody writes.
LEMMA ReadFileKept ==
  ASSUME ProvisioningInv, NEW j \in Jobs, ReadFile(j)
  PROVE  ProvisioningInv'
<1> DEFINE left == Range(Chain(j)) \ DOMAIN job[j].read
           next == IF "auth" \in left THEN "auth" ELSE CHOOSE f \in left : TRUE
           read == [f \in DOMAIN job[j].read \cup {next} |->
                      IF f = next THEN disk[f] ELSE job[j].read[f]]
           p == [at |-> IF left = {next} THEN "validate" ELSE "read", read |-> read,
                 replaced |-> job[j].replaced]
<1>1. job[j].at = "read" /\ UNCHANGED <<disk, locks, handoffs, backups, reported, team>>
  BY DEF ReadFile, JobAt, NoProvisioningBound
<1>2. j \in team /\ Holds(j) /\ HolderOK(j) /\ IsProcess(job[j])
  BY <1>1, RunnerHolds
<1>3. DOMAIN backups[j] = {} /\ UnpreparedOK(j)
  BY <1>1, <1>2 DEF HolderOK, PreparedOK
<1>4. next \in left
  BY <1>1, <1>3 DEF UnpreparedOK
<1>5. job' = [job EXCEPT ![j] = p]
  <2>1. job' = [job EXCEPT ![j].read = read,
                           ![j].at = IF left = {next} THEN "validate" ELSE "read"]
    BY DEF ReadFile
  <2> DEFINE step == IF left = {next} THEN "validate" ELSE "read"
  <2>2. Reads(j, read, step)
        /\ p = [at |-> step, read |-> read, replaced |-> job[j].replaced]
    BY <2>1 DEF Reads
  <2>3. ProvisioningTypeOK
    BY DEF ProvisioningInv
  <2> HIDE DEF read, left, next, step
  <2> QED
    BY <2>2, <2>3, JobUpdates
<1>6. IsProcess(p)
  BY DEF IsProcess, Steps
<1> HIDE DEF p
<1>7. Quiet(j, p, locks[j.tool]) /\ handoffs' \subseteq team
      /\ handoffs' = handoffs /\ handoffs' \ {j} = handoffs \ {j}
  BY <1>1, <1>2, <1>5, <1>6, LockOfHolder DEF Quiet, ProvisioningInv, ProvisioningTypeOK
<1>8. /\ HolderMoves(j) /\ ReportedOK' /\ Tidy(Found(j), handoffs \ {j})'
      /\ job'[j] = p /\ locks'[j.tool] = locks[j.tool] /\ backups'[j] = backups[j]
      /\ \A f \in Files : disk'[f] = disk[f]
  <2> HIDE DEF left, next, read
  <2>1. Quiet(j, p, locks[j.tool]) /\ handoffs' \subseteq team
        /\ handoffs' \ {j} = handoffs \ {j} /\ j \in team /\ Holds(j)
    BY <1>2, <1>7
  <2>2. HolderMoves(j)
    BY <2>1, QuietFacts
  <2> QED
    BY <2>1, QuietFacts
<1>9. UnpreparedOK(j)'
  <2>1. p.at \in {"read", "validate"} /\ p.read = read /\ p.replaced = 0
        /\ (p.at = "validate" <=> left = {next})
    BY <1>3 DEF p, UnpreparedOK
  <2>2. DOMAIN read = DOMAIN job[j].read \cup {next} /\ DOMAIN read \subseteq Range(Chain(j))
    BY <1>1, <1>3, <1>4 DEF UnpreparedOK
  <2>3. \A f \in DOMAIN read : read[f] = disk[f]
    BY <1>1, <1>3 DEF UnpreparedOK
  <2>4. DOMAIN read = Range(Chain(j)) <=> left = {next}
    BY <1>4, <2>2
  <2> HIDE DEF read, next, left
  <2> QED
    BY <1>1, <1>3, <1>8, <2>1, <2>2, <2>3, <2>4, ChainFacts DEF UnpreparedOK
<1> QED
  BY <1>2, <1>3, <1>8, <1>9, MoveKept DEF HolderOK

\* What PreparedOK says of the step a job is at.
StageOK(j, p, failed, published) ==
  LET chain == Chain(j) IN
  /\ p.replaced \in 0..Len(chain)
  /\ p.at \notin {"read", "validate"}
  /\ p.at = "restore" => j.tool # "lane"
  /\ p.at \in {"restorePam", "cleanup"} => j.tool = "lane"
  /\ p.at \in Replacing =>
       /\ ~failed /\ Replaced(j, p.replaced)
       /\ p.replaced = Len(chain) <=> p.at \in {"handoff", "finish"}
       /\ \A f \in Range(chain) : f \in DOMAIN p.read
                                  /\ p.read[f].entries = backups[j][f].entries
  /\ j.tool # "lane" /\ ~failed =>
       /\ \E m \in 0..Len(chain) : Replaced(j, m)
       /\ p.at \in {"rollback", "restore"} => Replaced(j, p.replaced)
       /\ p.at = "restore" => j \notin published

\* A prepared job goes on without writing a file.
LEMMA QuietKept ==
  ASSUME ProvisioningInv, NEW j \in team, Holds(j), PreparedOK(j), DOMAIN backups[j] # {},
         NEW p, NEW l, Quiet(j, p, l), handoffs' \subseteq team,
         handoffs' \ {j} = handoffs \ {j}, StageOK(j, p, l.failed, handoffs')
  PROVE  ProvisioningInv'
<1>1. /\ HolderMoves(j) /\ ReportedOK' /\ Tidy(Found(j), handoffs \ {j})'
      /\ job'[j] = p /\ locks'[j.tool] = l /\ backups'[j] = backups[j]
      /\ \A f \in Files : Entries(f)' = Entries(f) /\ disk'[f] = disk[f]
      /\ \A n : Replaced(j, n)' = Replaced(j, n)
  BY QuietFacts
<1>2. team' = team /\ Range(Chain(j)) \subseteq Files
  BY ChainFacts, TeamFacts DEF Quiet, ProvisioningInv
<1>3. PreparedOK(j)'
  BY <1>1, <1>2 DEF PreparedOK, StageOK
<1> QED
  BY <1>1, <1>3, MoveKept DEF HolderOK

\* The entries to replace are compared with what was read.
LEMMA CheckFileKept ==
  ASSUME ProvisioningInv, NEW j \in Jobs, CheckFile(j)
  PROVE  ProvisioningInv'
<1> DEFINE step == IF Unchanged(j, Chain(j)[job[j].replaced + 1]) THEN "replace" ELSE "rollback"
           p == [at |-> step, read |-> job[j].read, replaced |-> job[j].replaced]
<1>1. /\ job[j].at = "check" /\ JobStep(j, step)
      /\ UNCHANGED <<disk, locks, handoffs, backups, reported, team>>
  BY DEF CheckFile, JobAt, NoProvisioningBound
<1>2. j \in team /\ Holds(j) /\ HolderOK(j) /\ IsProcess(job[j])
  BY <1>1, RunnerHolds
<1>3. DOMAIN backups[j] # {} /\ PreparedOK(j)
  BY <1>1, <1>2 DEF HolderOK, UnpreparedOK
<1>4. IsProcess(p) /\ job' = [job EXCEPT ![j] = p]
  BY <1>1, <1>2, JobStepEffect DEF Steps
<1>5. Quiet(j, p, locks[j.tool]) /\ handoffs' \subseteq team /\ handoffs' = handoffs
  BY <1>1, <1>2, <1>4, LockOfHolder DEF Quiet, ProvisioningInv, ProvisioningTypeOK
<1>6. StageOK(j, p, locks[j.tool].failed, handoffs')
  BY <1>1, <1>3 DEF PreparedOK, StageOK, Replacing
<1> QED
  BY <1>2, <1>3, <1>5, <1>6, QuietKept

\* The handoff is published last.
LEMMA PublishHandoffKept ==
  ASSUME ProvisioningInv, NEW j \in Jobs, PublishHandoff(j)
  PROVE  ProvisioningInv'
<1> DEFINE p == [at |-> "finish", read |-> job[j].read, replaced |-> job[j].replaced]
<1>1. /\ job[j].at = "handoff" /\ JobStep(j, "finish")
      /\ handoffs' \in {handoffs, handoffs \cup {j}}
      /\ UNCHANGED <<disk, locks, backups, reported, team>>
  BY DEF PublishHandoff, JobAt, NoProvisioningBound
<1>2. j \in team /\ Holds(j) /\ HolderOK(j) /\ IsProcess(job[j])
  BY <1>1, RunnerHolds
<1>3. DOMAIN backups[j] # {} /\ PreparedOK(j)
  BY <1>1, <1>2 DEF HolderOK, UnpreparedOK
<1>4. IsProcess(p) /\ job' = [job EXCEPT ![j] = p]
  BY <1>1, <1>2, JobStepEffect DEF Steps
<1>5. Quiet(j, p, locks[j.tool]) /\ handoffs' \subseteq team /\ handoffs' \ {j} = handoffs \ {j}
  BY <1>1, <1>2, <1>4, LockOfHolder DEF Quiet, ProvisioningInv, ProvisioningTypeOK
<1>6. StageOK(j, p, locks[j.tool].failed, handoffs')
  BY <1>1, <1>3 DEF PreparedOK, StageOK, Replacing
<1> QED
  BY <1>2, <1>3, <1>5, <1>6, QuietKept

\* The process is killed and leaves everything.
LEMMA KillKept ==
  ASSUME ProvisioningInv, NEW j \in Jobs, Kill(j)
  PROVE  ProvisioningInv'
<1>1. /\ job[j].at # "idle" /\ job' = [job EXCEPT ![j] = NotRunning]
      /\ UNCHANGED <<disk, locks, handoffs, backups, reported, team>>
  BY DEF Kill, JobAt, NoProvisioningBound
<1>2. j \in team /\ Holds(j) /\ HolderOK(j) /\ IsProcess(job[j])
  BY <1>1, RunnerHolds
<1>3. Quiet(j, NotRunning, locks[j.tool]) /\ handoffs' \subseteq team /\ handoffs' = handoffs
  <2>1. IsProcess(NotRunning)
    BY DEF NotRunning, IsProcess, Steps
  <2> QED
    BY <1>1, <1>2, <2>1, LockOfHolder DEF Quiet, ProvisioningInv, ProvisioningTypeOK
<1>4. CASE DOMAIN backups[j] = {}
  <2>1. /\ HolderMoves(j) /\ ReportedOK' /\ Tidy(Found(j), handoffs \ {j})'
        /\ job'[j] = NotRunning /\ locks'[j.tool] = locks[j.tool] /\ backups'[j] = backups[j]
    BY <1>2, <1>3, QuietFacts
  <2>2. UnpreparedOK(j)'
    BY <1>2, <1>3, <1>4, <2>1 DEF HolderOK, UnpreparedOK, NotRunning
  <2> QED
    BY <1>2, <1>4, <2>1, <2>2, MoveKept DEF HolderOK
<1>5. CASE DOMAIN backups[j] # {}
  <2>1. PreparedOK(j)
    BY <1>2, <1>5 DEF HolderOK
  <2>2. Len(Chain(j)) \in 1..3
    BY ChainFacts
  <2>3. StageOK(j, NotRunning, locks[j.tool].failed, handoffs')
    BY <2>1, <2>2 DEF PreparedOK, StageOK, NotRunning, Replacing
  <2> QED
    BY <1>2, <1>3, <1>5, <2>1, <2>3, QuietKept
<1> QED
  BY <1>4, <1>5

\* The job ends and its lock is free: the files have to be tidy.
LEMMA EndsKept ==
  ASSUME ProvisioningInv, NEW j \in team, Holds(j), JobEnds(j), UNCHANGED <<team, backups>>,
         disk' \in [Files -> [ino : Nat, entries : SUBSET team]],
         handoffs' \subseteq team, reported' \subseteq team,
         Tidy(Contents, handoffs)', ReportedOK'
  PROVE  ProvisioningInv'
<1>1. j \in Jobs
  BY TeamFacts DEF ProvisioningInv
<1>2. job'[j] = NotRunning /\ job' = [job EXCEPT ![j] = job'[j]]
  BY <1>1 DEF JobEnds, ProvisioningInv, ProvisioningTypeOK
<1>3. IsProcess(NotRunning) /\ NotRunning.at = "idle"
  BY DEF NotRunning, IsProcess, Steps
<1> QED
  BY <1>2, <1>3, LeaveKept DEF JobEnds, Unlock, HolderLeaves

\* No lock is held when the holder has given its own back.
LEMMA NobodyHolds ==
  ASSUME ProvisioningInv, NEW j \in team, Holds(j), locks' = [locks EXCEPT ![j.tool] = NoLock]
  PROVE  \A k \in team : ~Holds(k)'
<1> TAKE k \in team
<1>1. k.tool = j.tool /\ k.id # "none" /\ j.tool \in Tools
  BY TeamFacts DEF ProvisioningInv, OneTool
<1>2. locks'[k.tool] = NoLock
  BY <1>1 DEF ProvisioningInv, ProvisioningTypeOK
<1> QED
  BY <1>1, <1>2 DEF Holds, NoLock

\* It ends with the files as they are; it may report, being in all of them.
LEMMA EndsInPlace ==
  ASSUME ProvisioningInv, NEW j \in team, Holds(j), JobEnds(j), Tidy(Contents, handoffs),
         UNCHANGED <<team, disk, backups, handoffs>>, reported' \subseteq team,
         \A k \in reported' : k \in reported \/
           (k = j /\ \A f \in Range(Chain(j)) : j \in Entries(f))
  PROVE  ProvisioningInv'
<1>0. j \in Jobs /\ Range(Chain(j)) \subseteq Files
  BY ChainFacts, TeamFacts DEF ProvisioningInv
<1>1. \A f \in Files : Entries(f)' = Entries(f)
  BY DEF Entries
<1>2. Contents' = Contents /\ handoffs' = handoffs
  BY DEF Contents, Entries
<1>3. \A k \in team : ~Holds(k)'
  BY NobodyHolds DEF JobEnds, Unlock
<1>4. ReportedOK'
  BY <1>0, <1>1, <1>3, ReportedKept
<1>6. Tidy(Contents, handoffs)'
  BY <1>2 DEF Tidy
<1> QED
  BY <1>4, <1>6, EndsKept DEF ProvisioningInv, ProvisioningTypeOK

\* It ends without having written, or where there is nothing to tidy.
LEMMA EndsUnwritten ==
  ASSUME ProvisioningInv, NEW j \in team, Holds(j), JobEnds(j),
         UNCHANGED <<team, disk, backups, handoffs, reported>>,
         DOMAIN backups[j] = {} \/ j.tool \notin {"collector", "consumer"}
  PROVE  ProvisioningInv'
<1>1. Tidy(Contents, handoffs)
  <2>1. CASE DOMAIN backups[j] = {}
    BY <2>1, UnpreparedIsTidy
  <2>2. CASE j.tool \notin {"collector", "consumer"}
    BY <2>2, OthersAreTidy, EntriesTyped DEF Contents, ProvisioningInv, ProvisioningTypeOK
  <2> QED
    BY <2>1, <2>2
<1> QED
  BY <1>1, EndsInPlace DEF ProvisioningInv, ProvisioningTypeOK

\* The checks fail, or backups are made of what was read.
LEMMA PrepareKept ==
  ASSUME ProvisioningInv, NEW j \in Jobs, Prepare(j)
  PROVE  ProvisioningInv'
<1>1. job[j].at = "validate" /\ UNCHANGED <<disk, handoffs, reported, team>>
  BY DEF Prepare, JobAt, NoProvisioningBound
<1>2. j \in team /\ Holds(j) /\ HolderOK(j) /\ IsProcess(job[j])
  BY <1>1, RunnerHolds
<1>3. DOMAIN backups[j] = {} /\ UnpreparedOK(j)
  BY <1>1, <1>2 DEF HolderOK, PreparedOK
<1>4. CASE JobEnds(j) /\ UNCHANGED backups
  BY <1>1, <1>2, <1>3, <1>4, EndsUnwritten
<1>5. CASE /\ JobStep(j, "check") /\ UNCHANGED locks
           /\ backups' = [backups EXCEPT ![j] =
                IF j.tool = "lane" THEN [f \in DOMAIN job[j].read |-> disk[f]] ELSE job[j].read]
  <2> DEFINE p == [at |-> "check", read |-> job[j].read, replaced |-> job[j].replaced]
  <2>1. IsProcess(p) /\ job' = [job EXCEPT ![j] = p]
    BY <1>2, <1>5, JobStepEffect DEF Steps
  <2>2. job'[j] = p /\ job' = [job EXCEPT ![j] = job'[j]]
    BY <1>2, <2>1 DEF ProvisioningInv, ProvisioningTypeOK
  <2>3. backups' = [backups EXCEPT ![j] = backups'[j]]
        /\ DOMAIN backups'[j] = DOMAIN job[j].read
        /\ \A f \in DOMAIN job[j].read : backups'[j][f] = disk[f]
    <3>1. \A f \in DOMAIN job[j].read : job[j].read[f] = disk[f]
      BY <1>1, <1>3 DEF UnpreparedOK
    <3>2. backups' = [backups EXCEPT ![j] = backups'[j]]
          /\ backups'[j] = IF j.tool = "lane" THEN [f \in DOMAIN job[j].read |-> disk[f]]
                           ELSE job[j].read
      <4>1. backups = [k \in Jobs |-> backups[k]]
        BY DEF ProvisioningInv, ProvisioningTypeOK
      <4> QED
        BY <1>5, <4>1
    <3>3. CASE j.tool = "lane"
      BY <3>2, <3>3
    <3>4. CASE j.tool # "lane"
      <4>1. backups'[j] = job[j].read
        BY <3>2, <3>4
      <4> QED
        BY <3>1, <3>2, <4>1
    <3> QED
      BY <3>3, <3>4
  <2>4. /\ DOMAIN job[j].read = Range(Chain(j))
        /\ \A f \in DOMAIN job[j].read : job[j].read[f] = disk[f]
        /\ job[j].replaced = 0 /\ ~locks[j.tool].failed /\ j \notin handoffs
    BY <1>1, <1>3 DEF UnpreparedOK
  <2>5. locks'[j.tool] = locks[j.tool]
    BY <1>5
  <2>6. HolderMoves(j)
    BY <1>1, <1>2, <1>5, <2>1, <2>2, <2>3, <2>5, LockOfHolder
    DEF HolderMoves, ProvisioningInv, ProvisioningTypeOK
  <2>7. \A f \in Files : Entries(f)' = Entries(f) /\ (f \in DOMAIN backups'[j] =>
                                                       backups'[j][f].entries = Entries(f))
    BY <1>1, <2>3 DEF Entries
  <2>8. Range(Chain(j)) \subseteq Files /\ Range(Chain(j)) # {} /\ Len(Chain(j)) \in 1..3
        /\ \A i \in 1..Len(Chain(j)) : Chain(j)[i] \in Range(Chain(j))
    BY ChainFacts
  <2>9. ReportedOK'
    <3>1. \A k \in team : Holds(k)' => k = j
      BY <1>2, <1>5, OneHolder DEF Holds
    <3> QED
      BY <1>1, <1>2, <2>7, <3>1, ReportedKept
  <2>10. Tidy(Found(j), handoffs \ {j})'
    <3>1. Found(j)' = Contents
      BY <2>7 DEF Found, Contents
    <3>2. handoffs' \ {j} = handoffs
      <4>1. handoffs' = handoffs /\ j \notin handoffs
        BY <1>1, <2>4
      <4> QED
        BY <4>1
    <3>3. Tidy(Contents, handoffs)
      BY <1>2, <1>3, UnpreparedIsTidy
    <3> QED
      BY <3>1, <3>2, <3>3 DEF Tidy
  <2>11. Replaced(j, 0)'
    BY <1>1, <2>3, <2>4, <2>7, <2>8 DEF Replaced
  <2>12. PreparedOK(j)'
    <3>1. \A f \in Range(Chain(j)) :
            /\ backups'[j][f].entries \subseteq team' /\ Entries(f)' = backups'[j][f].entries
            /\ job[j].read[f].entries = backups'[j][f].entries
      <4>1. \A f \in Range(Chain(j)) : backups'[j][f].entries = Entries(f) /\ f \in Files
                                       /\ job[j].read[f].entries = Entries(f)
        BY <2>3, <2>4, <2>7, <2>8 DEF Entries
      <4> QED
        BY <1>1, <1>2, <2>7, <4>1, EntriesTyped
    <3>2. job'[j].at = "check" /\ job'[j].replaced = 0 /\ job'[j].read = job[j].read
          /\ ~locks'[j.tool].failed
      <4>1. job'[j] = p
        BY <2>2
      <4>2. p.at = "check" /\ p.replaced = job[j].replaced /\ p.read = job[j].read
        OBVIOUS
      <4> HIDE DEF p
      <4> QED
        BY <2>4, <2>5, <4>1, <4>2
    <3>3. DOMAIN backups'[j] = Range(Chain(j)) /\ DOMAIN job[j].read = Range(Chain(j))
          /\ j \notin handoffs' /\ team' = team
      BY <1>1, <2>3, <2>4
    <3>4. 0 \in 0..Len(Chain(j)) /\ 0 # Len(Chain(j))
      BY <2>8
    <3> HIDE DEF p
    <3> QED
      BY <2>11, <3>1, <3>2, <3>3, <3>4 DEF PreparedOK, Replacing
  <2> QED
    BY <1>2, <2>3, <2>4, <2>6, <2>8, <2>9, <2>10, <2>12, MoveKept DEF HolderOK
<1> QED
  BY <1>4, <1>5, Zenon DEF Prepare

\* One more file has the entry of the job.
LEMMA ReplaceFileKept ==
  ASSUME ProvisioningInv, NEW j \in Jobs, ReplaceFile(j)
  PROVE  ProvisioningInv'
<1>1. job[j].at = "replace" /\ UNCHANGED <<locks, handoffs, backups, reported, team>>
  BY DEF ReplaceFile, JobAt, NoProvisioningBound
<1>2. j \in team /\ Holds(j) /\ HolderOK(j) /\ IsProcess(job[j])
  BY <1>1, RunnerHolds
<1>3. DOMAIN backups[j] # {} /\ PreparedOK(j)
  BY <1>1, <1>2 DEF HolderOK, UnpreparedOK
<1>4. /\ Len(Chain(j)) \in 1..3 /\ Range(Chain(j)) \subseteq Files
      /\ \A i \in 1..Len(Chain(j)) : Chain(j)[i] \in Range(Chain(j))
      /\ \A i, k \in 1..Len(Chain(j)) : Chain(j)[i] = Chain(j)[k] => i = k
  BY ChainFacts
<1>0. PICK n : n = job[j].replaced + 1
  OBVIOUS
<1> DEFINE f == Chain(j)[n]
           step == IF n < Len(Chain(j)) THEN "check" ELSE "handoff"
           p == [at |-> step, read |-> job[j].read, replaced |-> n]
           S == With(j, backups[j][f].entries)
<1>5. /\ n \in 1..Len(Chain(j)) /\ ~locks[j.tool].failed /\ Replaced(j, n - 1)
      /\ \A g \in Range(Chain(j)) : g \in DOMAIN job[j].read
                                    /\ job[j].read[g].entries = backups[j][g].entries
      /\ DOMAIN backups[j] = Range(Chain(j))
  <2>1. n - 1 = job[j].replaced /\ n \in 1..Len(Chain(j))
    BY <1>0, <1>1, <1>3, <1>4 DEF PreparedOK, Replacing
  <2> QED
    BY <1>1, <1>3, <2>1 DEF PreparedOK, Replacing
<1>6. f \in Files /\ f \in Range(Chain(j))
  BY <1>4, <1>5
<1>7. S \in SUBSET team
  BY <1>2, <1>5, <1>6, EntriesTyped, WithFacts
<1>8. Write(f, S, j.tool = "lane")
  BY <1>0, <1>5, <1>6 DEF ReplaceFile
<1>9. /\ disk' \in [Files -> [ino : Nat, entries : SUBSET team]]
      /\ \A g \in Files : Entries(g)' = IF g = f THEN S ELSE Entries(g)
  <2>1. ProvisioningTypeOK /\ (j.tool = "lane") \in BOOLEAN
    BY DEF ProvisioningInv
  <2> HIDE DEF S, f
  <2> QED
    BY <1>6, <1>7, <1>8, <2>1, WriteEffect
<1>10. IsProcess(p) /\ job' = [job EXCEPT ![j] = p]
  <2>1. Replaces(j, n, step)
    BY <1>0 DEF ReplaceFile, Replaces
  <2>2. IsProcess(p)
    BY DEF IsProcess, Steps
  <2> HIDE DEF step
  <2> QED
    BY <2>1, <2>2, JobUpdates DEF ProvisioningInv
<1>11. job'[j] = p /\ job' = [job EXCEPT ![j] = job'[j]]
  BY <1>2, <1>10 DEF ProvisioningInv, ProvisioningTypeOK
<1>12. HolderMoves(j)
  <2>1. locks'[j.tool] \in [owner : {j.id}, failed : BOOLEAN]
        /\ locks' = [locks EXCEPT ![j.tool] = locks'[j.tool]]
    BY <1>1, <1>2, LockOfHolder
  <2>2. backups' = [backups EXCEPT ![j] = backups'[j]]
    BY <1>1 DEF ProvisioningInv, ProvisioningTypeOK
  <2>3. IsProcess(job'[j])
    BY <1>10, <1>11
  <2> HIDE DEF p, S, f
  <2> QED
    BY <1>1, <1>9, <1>11, <2>1, <2>2, <2>3 DEF HolderMoves, ProvisioningInv, ProvisioningTypeOK
<1> HIDE DEF S
<1>13. ReportedOK'
  <2>1. \A k \in team : Holds(k)' => k = j
    BY <1>1, <1>2, OneHolder DEF Holds
  <2>2. \A g \in Files : Entries(g)' = Entries(g) \/
          (g \in DOMAIN backups[j] /\ Entries(g)' = With(j, backups[j][g].entries))
    BY <1>5, <1>6, <1>9 DEF S
  <2> QED
    BY <1>1, <1>2, <2>1, <2>2, ReportedKept
<1>14. Tidy(Found(j), handoffs \ {j})'
  BY <1>1, <1>2, <1>5, <1>6, <1>9, FoundKept
<1>15. Replaced(j, n)'
  <2>1. ASSUME NEW i \in 1..Len(Chain(j))
        PROVE  Entries(Chain(j)[i])' = IF i <= n THEN With(j, backups[j][Chain(j)[i]].entries)
                                       ELSE backups[j][Chain(j)[i]].entries
    <3>1. CASE i = n
      BY <1>6, <1>9, <3>1 DEF S
    <3>2. CASE i # n
      <4>1. Entries(Chain(j)[i])' = Entries(Chain(j)[i]) /\ (i <= n <=> i <= n - 1)
        <5>1. Chain(j)[i] \in Files /\ Chain(j)[i] # f
          BY <1>4, <1>5, <3>2
        <5>2. i <= n <=> i <= n - 1
          BY <1>4, <1>5, <3>2
        <5> QED
          BY <1>9, <5>1, <5>2
      <4> QED
        BY <1>5, <4>1 DEF Replaced
    <3> QED
      BY <3>1, <3>2
  <2>2. \A i \in 1..Len(Chain(j)) :
          Entries(Chain(j)[i])' = IF i <= n THEN With(j, backups'[j][Chain(j)[i]].entries)
                                  ELSE backups'[j][Chain(j)[i]].entries
    BY <1>1, <2>1
  <2> HIDE DEF f, p, step
  <2> QED
    BY <2>2 DEF Replaced
<1>16. PreparedOK(j)'
  <2>1. job'[j].at = step /\ job'[j].replaced = n /\ job'[j].read = job[j].read
        /\ ~locks'[j.tool].failed /\ backups'[j] = backups[j] /\ team' = team
    BY <1>1, <1>5, <1>11
  <2>2. step \in {"check", "handoff"} /\ (n = Len(Chain(j)) <=> step = "handoff")
    BY <1>4, <1>5
  <2>3. \A g \in Range(Chain(j)) :
          Entries(g)' \in {backups[j][g].entries, With(j, backups[j][g].entries)}
    BY <1>3, <1>4, <1>9 DEF PreparedOK, S
  <2>4. \A g \in Range(Chain(j)) : backups[j][g].entries \subseteq team
    BY <1>3 DEF PreparedOK
  <2>5. (\E m \in 0..Len(Chain(j)) : Replaced(j, m))' /\ n \in 0..Len(Chain(j))
    BY <1>4, <1>5, <1>15
  <2> HIDE DEF step, p, f
  <2> QED
    BY <1>5, <1>15, <2>1, <2>2, <2>3, <2>4, <2>5 DEF PreparedOK, Replacing
<1> QED
  BY <1>1, <1>2, <1>3, <1>12, <1>13, <1>14, <1>16, MoveKept DEF HolderOK


\* A failure before the replacement ends the job, one after it rolls back.
LEMMA OperationFailsKept ==
  ASSUME ProvisioningInv, NEW j \in Jobs, OperationFails(j)
  PROVE  ProvisioningInv'
<1> DEFINE p == [at |-> "rollback", read |-> job[j].read, replaced |-> job[j].replaced]
<1>1. /\ job[j].at \in {"read", "validate", "check", "replace", "handoff", "finish"}
      /\ UNCHANGED <<disk, handoffs, backups, reported, team>>
  BY DEF OperationFails, NoProvisioningBound
<1>2. j \in team /\ Holds(j) /\ HolderOK(j) /\ IsProcess(job[j])
  BY <1>1, RunnerHolds
<1>3. CASE (job[j].at \in {"read", "validate"} \/ j.tool = "route") /\ JobEnds(j)
  <2>1. DOMAIN backups[j] = {} \/ j.tool \notin {"collector", "consumer"}
    BY <1>2, <1>3 DEF HolderOK, PreparedOK
  <2> QED
    BY <1>1, <1>2, <1>3, <2>1, EndsUnwritten
<1>4. CASE job[j].at \notin {"read", "validate"} /\ JobStep(j, "rollback") /\ UNCHANGED locks
  <2>1. DOMAIN backups[j] # {} /\ PreparedOK(j)
    BY <1>1, <1>2, <1>4 DEF HolderOK, UnpreparedOK
  <2>2. IsProcess(p) /\ job' = [job EXCEPT ![j] = p]
    BY <1>2, <1>4, JobStepEffect DEF Steps
  <2>3. Quiet(j, p, locks[j.tool]) /\ handoffs' \subseteq team /\ handoffs' = handoffs
    BY <1>1, <1>2, <1>4, <2>2, LockOfHolder DEF Quiet, ProvisioningInv, ProvisioningTypeOK
  <2>4. StageOK(j, p, locks[j.tool].failed, handoffs')
    BY <1>1, <1>4, <2>1 DEF PreparedOK, StageOK, Replacing
  <2> QED
    BY <1>2, <2>1, <2>3, <2>4, QuietKept
<1> QED
  BY <1>3, <1>4 DEF OperationFails

\* The handoff is withdrawn, or the lock is marked.
LEMMA WithdrawHandoffKept ==
  ASSUME ProvisioningInv, NEW j \in Jobs, WithdrawHandoff(j)
  PROVE  ProvisioningInv'
<1> DEFINE p == [at |-> "restore", read |-> job[j].read, replaced |-> job[j].replaced]
<1>1. /\ job[j].at = "rollback" /\ j.tool # "lane" /\ JobStep(j, "restore")
      /\ UNCHANGED <<disk, backups, reported, team>>
  BY DEF WithdrawHandoff, JobAt, NoProvisioningBound
<1>2. j \in team /\ Holds(j) /\ HolderOK(j) /\ IsProcess(job[j])
  BY <1>1, RunnerHolds
<1>3. DOMAIN backups[j] # {} /\ PreparedOK(j)
  BY <1>1, <1>2 DEF HolderOK, UnpreparedOK
<1>4. IsProcess(p) /\ job' = [job EXCEPT ![j] = p]
  BY <1>1, <1>2, JobStepEffect DEF Steps
<1>5. CASE handoffs' = handoffs \ {j} /\ UNCHANGED locks
  <2>1. Quiet(j, p, locks[j.tool]) /\ handoffs' \subseteq team /\ handoffs' \ {j} = handoffs \ {j}
    BY <1>1, <1>2, <1>4, <1>5, LockOfHolder DEF Quiet, ProvisioningInv, ProvisioningTypeOK
  <2>2. StageOK(j, p, locks[j.tool].failed, handoffs')
    BY <1>1, <1>3, <1>5 DEF PreparedOK, StageOK, Replacing
  <2> QED
    BY <1>2, <1>3, <2>1, <2>2, QuietKept
<1>6. CASE locks' = [locks EXCEPT ![j.tool].failed = TRUE] /\ UNCHANGED handoffs
  <2> DEFINE l == [owner |-> j.id, failed |-> TRUE]
  <2>1. Quiet(j, p, l) /\ handoffs' \subseteq team /\ handoffs' = handoffs
    BY <1>1, <1>2, <1>4, <1>6, LockOfHolder DEF Quiet, ProvisioningInv, ProvisioningTypeOK
  <2>2. StageOK(j, p, l.failed, handoffs')
    BY <1>1, <1>3 DEF PreparedOK, StageOK, Replacing
  <2> QED
    BY <1>2, <1>3, <2>1, <2>2, QuietKept
<1> QED
  BY <1>5, <1>6 DEF WithdrawHandoff

\* The holder writes a file back on its way out.
WritesBack(j, f, inPlace, p) ==
  /\ f \in Range(Chain(j)) /\ Write(f, backups[j][f].entries, inPlace)
  /\ IsProcess(p) /\ job' = [job EXCEPT ![j] = p]
  /\ p.at \in {"restore", "restorePam", "cleanup"} /\ p.replaced \in 0..Len(Chain(j))
  /\ IF j.tool = "lane" THEN p.at # "restore" ELSE p.at = "restore" /\ job[j].at = "restore"
  /\ UNCHANGED <<locks, handoffs, backups, reported, team>>

LEMMA WriteBackKept ==
  ASSUME ProvisioningInv, NEW j \in team, Holds(j), PreparedOK(j), DOMAIN backups[j] # {},
         NEW f, NEW inPlace \in BOOLEAN, NEW p, WritesBack(j, f, inPlace, p),
         j.tool # "lane" /\ ~locks[j.tool].failed => Replaced(j, p.replaced)'
  PROVE  ProvisioningInv'
<1>1. /\ f \in Range(Chain(j)) /\ Write(f, backups[j][f].entries, inPlace)
      /\ IsProcess(p) /\ job' = [job EXCEPT ![j] = p]
      /\ UNCHANGED <<locks, handoffs, backups, reported, team>>
  BY DEF WritesBack
<1>2. j \in Jobs /\ Range(Chain(j)) \subseteq Files /\ Range(Chain(j)) = DOMAIN backups[j]
  BY ChainFacts, TeamFacts DEF ProvisioningInv, PreparedOK
<1>3. f \in Files /\ backups[j][f].entries \in SUBSET team /\ ProvisioningTypeOK
  BY <1>1, <1>2 DEF PreparedOK, ProvisioningInv
<1>4. /\ disk' \in [Files -> [ino : Nat, entries : SUBSET team]]
      /\ \A g \in Files : Entries(g)' = IF g = f THEN backups[j][f].entries ELSE Entries(g)
  BY <1>1, <1>3, WriteEffect
<1>5. job'[j] = p /\ backups'[j] = backups[j] /\ locks'[j.tool] = locks[j.tool]
  BY <1>1, <1>2 DEF ProvisioningInv, ProvisioningTypeOK
<1>6. HolderMoves(j)
  <2>1. locks'[j.tool] \in [owner : {j.id}, failed : BOOLEAN]
        /\ locks' = [locks EXCEPT ![j.tool] = locks'[j.tool]]
    BY <1>1, LockOfHolder
  <2>2. backups' = [backups EXCEPT ![j] = backups'[j]]
    BY <1>1 DEF ProvisioningInv, ProvisioningTypeOK
  <2> QED
    BY <1>1, <1>4, <1>5, <2>1, <2>2 DEF HolderMoves, ProvisioningInv, ProvisioningTypeOK
<1>7. ReportedOK'
  <2>1. \A k \in team : Holds(k)' => k = j
    BY <1>1, OneHolder DEF Holds
  <2> QED
    BY <1>1, <1>2, <1>4, <2>1, ReportedKept
<1>8. Tidy(Found(j), handoffs \ {j})'
  BY <1>1, <1>2, <1>4, FoundKept
<1>9. PreparedOK(j)'
  <2>1. \A g \in Range(Chain(j)) :
          /\ backups'[j][g].entries \subseteq team'
          /\ Entries(g)' \in {backups'[j][g].entries, With(j, backups'[j][g].entries)}
    BY <1>1, <1>2, <1>4, <1>5 DEF PreparedOK
  <2>2. /\ job'[j].at \in {"restore", "restorePam", "cleanup"}
        /\ job'[j].replaced \in 0..Len(Chain(j))
        /\ IF j.tool = "lane" THEN job'[j].at # "restore"
           ELSE job'[j].at = "restore" /\ job[j].at = "restore"
    BY <1>5 DEF WritesBack
  <2>3. j.tool # "lane" /\ ~locks'[j.tool].failed =>
          /\ Replaced(j, p.replaced)' /\ p.replaced \in 0..Len(Chain(j)) /\ job'[j].replaced = p.replaced
          /\ j \notin handoffs'
    BY <1>1, <1>5, <2>2 DEF PreparedOK
  <2>4. j.tool # "lane" /\ ~locks'[j.tool].failed =>
          /\ (\E m \in 0..Len(Chain(j)) : Replaced(j, m))'
          /\ Replaced(j, job[j].replaced)'
    BY <2>3
  <2> QED
    BY <1>2, <1>5, <2>1, <2>2, <2>3, <2>4 DEF PreparedOK, Replacing
<1> QED
  BY <1>5, <1>6, <1>7, <1>8, <1>9, MoveKept DEF HolderOK

\* The last file replaced is written back, or the lock is marked.
LEMMA RestoreFileKept ==
  ASSUME ProvisioningInv, NEW j \in Jobs, RestoreFile(j)
  PROVE  ProvisioningInv'
<1>0. PICK n : n = job[j].replaced
  OBVIOUS
<1> DEFINE p == [at |-> "restore", read |-> job[j].read, replaced |-> n - 1]
           f == Chain(j)[n]
<1>1. /\ job[j].at = "restore" /\ n > 0 /\ Restores(j, n - 1)
      /\ UNCHANGED <<handoffs, backups, reported, team>>
  BY <1>0 DEF RestoreFile, JobAt, NoProvisioningBound, Restores
<1>2. j \in team /\ Holds(j) /\ HolderOK(j) /\ IsProcess(job[j])
  BY <1>1, RunnerHolds
<1>3. DOMAIN backups[j] # {} /\ PreparedOK(j)
  BY <1>1, <1>2 DEF HolderOK, UnpreparedOK
<1>4. /\ Len(Chain(j)) \in 1..3 /\ Range(Chain(j)) \subseteq Files
      /\ \A i \in 1..Len(Chain(j)) : Chain(j)[i] \in Range(Chain(j))
      /\ \A i, k \in 1..Len(Chain(j)) : Chain(j)[i] = Chain(j)[k] => i = k
  BY ChainFacts
<1>5. n \in 1..Len(Chain(j)) /\ j.tool # "lane"
  BY <1>0, <1>1, <1>3, <1>4 DEF PreparedOK
<1>6. n - 1 \in 0..Len(Chain(j)) /\ f \in Range(Chain(j)) /\ f \in Files
  BY <1>4, <1>5
<1>7. IsProcess(p) /\ job' = [job EXCEPT ![j] = p]
  <2>1. IsProcess(p)
    BY DEF IsProcess, Steps
  <2> QED
    BY <1>1, <2>1, JobUpdates DEF ProvisioningInv
<1>8. CASE Write(f, backups[j][f].entries, FALSE) /\ UNCHANGED locks
  <2>1. WritesBack(j, f, FALSE, p)
    BY <1>1, <1>5, <1>6, <1>7, <1>8 DEF WritesBack
  <2>2. ASSUME ~locks[j.tool].failed
        PROVE  Replaced(j, n - 1)'
    <3>1. Replaced(j, n)
      BY <1>0, <1>1, <1>3, <1>5, <2>2 DEF PreparedOK
    <3>2. backups[j][f].entries \in SUBSET team
      BY <1>3, <1>6 DEF PreparedOK
    <3>3. \A g \in Files : Entries(g)' = IF g = f THEN backups[j][f].entries ELSE Entries(g)
      <4>1. ProvisioningTypeOK
        BY DEF ProvisioningInv
      <4> HIDE DEF f
      <4> QED
        BY <1>6, <1>8, <3>2, <4>1, WriteEffect
    <3>4. ASSUME NEW i \in 1..Len(Chain(j))
          PROVE  Entries(Chain(j)[i])' = IF i <= n - 1 THEN With(j, backups[j][Chain(j)[i]].entries)
                                         ELSE backups[j][Chain(j)[i]].entries
      <4>1. CASE i = n
        BY <1>5, <1>6, <3>3, <4>1
      <4>2. CASE i # n
        <5>1. Chain(j)[i] \in Files /\ Chain(j)[i] # f
          BY <1>4, <1>5, <4>2
        <5>2. i <= n <=> i <= n - 1
          BY <1>4, <1>5, <4>2
        <5> QED
          BY <3>1, <3>3, <5>1, <5>2 DEF Replaced
      <4> QED
        BY <4>1, <4>2
    <3>5. \A i \in 1..Len(Chain(j)) :
            Entries(Chain(j)[i])' = IF i <= n - 1 THEN With(j, backups'[j][Chain(j)[i]].entries)
                                    ELSE backups'[j][Chain(j)[i]].entries
      BY <1>1, <3>4
    <3> HIDE DEF f, p
    <3> QED
      BY <3>5 DEF Replaced
  <2>3. p.replaced = n - 1
    OBVIOUS
  <2>4. PICK m : m = n - 1
    OBVIOUS
  <2>5. PICK q : q = p
    OBVIOUS
  <2>6. q.replaced = m /\ WritesBack(j, f, FALSE, q)
        /\ (j.tool # "lane" /\ ~locks[j.tool].failed => Replaced(j, m)')
    BY <2>1, <2>2, <2>3, <2>4, <2>5
  <2> HIDE DEF p, f
  <2> QED
    BY <1>2, <1>3, <2>6, WriteBackKept
<1>9. CASE locks' = [locks EXCEPT ![j.tool].failed = TRUE] /\ UNCHANGED disk
  <2> DEFINE l == [owner |-> j.id, failed |-> TRUE]
  <2>1. Quiet(j, p, l) /\ handoffs' \subseteq team /\ handoffs' = handoffs
    BY <1>1, <1>2, <1>7, <1>9, LockOfHolder DEF Quiet, ProvisioningInv, ProvisioningTypeOK
  <2>2. StageOK(j, p, l.failed, handoffs')
    BY <1>5, <1>6 DEF StageOK, Replacing
  <2> QED
    BY <1>2, <1>3, <2>1, <2>2, QuietKept
<1> QED
  BY <1>0, <1>8, <1>9 DEF RestoreFile

\* A prepared job is gone and its lock stays.
LEMMA GoneKept ==
  ASSUME ProvisioningInv, NEW j \in team, Holds(j), PreparedOK(j), DOMAIN backups[j] # {},
         job' = [job EXCEPT ![j] = NotRunning],
         UNCHANGED <<disk, locks, handoffs, backups, reported, team>>
  PROVE  ProvisioningInv'
<1>1. IsProcess(NotRunning)
  BY DEF NotRunning, IsProcess, Steps
<1>2. Quiet(j, NotRunning, locks[j.tool]) /\ handoffs' \subseteq team /\ handoffs' = handoffs
  BY <1>1, LockOfHolder DEF Quiet, ProvisioningInv, ProvisioningTypeOK
<1>3. Len(Chain(j)) \in 1..3
  BY ChainFacts, TeamFacts DEF ProvisioningInv
<1>4. StageOK(j, NotRunning, locks[j.tool].failed, handoffs')
  BY <1>3 DEF PreparedOK, StageOK, NotRunning, Replacing
<1> QED
  BY <1>2, <1>4, QuietKept

\* Everything restored, or the lock stays.
LEMMA EndRollbackKept ==
  ASSUME ProvisioningInv, NEW j \in Jobs, EndRollback(j)
  PROVE  ProvisioningInv'
<1>1. /\ job[j].at = "restore" /\ job[j].replaced = 0
      /\ UNCHANGED <<disk, handoffs, backups, reported, team>>
  BY DEF EndRollback, JobAt, NoProvisioningBound
<1>2. j \in team /\ Holds(j) /\ HolderOK(j) /\ IsProcess(job[j])
  BY <1>1, RunnerHolds
<1>3. DOMAIN backups[j] # {} /\ PreparedOK(j)
  BY <1>1, <1>2 DEF HolderOK, UnpreparedOK
<1>4. CASE job' = [job EXCEPT ![j] = NotRunning] /\ UNCHANGED locks
  BY <1>1, <1>2, <1>3, <1>4, GoneKept
<1>5. CASE ~locks[j.tool].failed /\ JobEnds(j)
  <2>1. Replaced(j, 0) /\ j \notin handoffs /\ DOMAIN backups[j] = Range(Chain(j))
    BY <1>1, <1>3, <1>5 DEF PreparedOK
  <2>2. \A f \in Range(Chain(j)) : Entries(f) = backups[j][f].entries
    BY <2>1, ChainFacts DEF Replaced
  <2>3. Found(j) = Contents /\ handoffs \ {j} = handoffs
    BY <2>1, <2>2 DEF Found, Contents
  <2>4. Tidy(Contents, handoffs)
    BY <1>2, <2>3 DEF HolderOK
  <2> QED
    BY <1>1, <1>2, <1>5, <2>4, EndsInPlace DEF ProvisioningInv, ProvisioningTypeOK
<1> QED
  BY <1>4, <1>5 DEF EndRollback

\* The lane writes one of its two files back or gives up.
LEMMA RestoreLaneKept ==
  ASSUME ProvisioningInv, NEW j \in Jobs, NEW at \in {"rollback", "restorePam"},
         NEW f \in {"auth", "pam"}, NEW next \in {"restorePam", "cleanup"},
         RestoreLane(j, at, f, next)
  PROVE  ProvisioningInv'
<1> DEFINE p == [at |-> next, read |-> job[j].read, replaced |-> job[j].replaced]
<1>1. /\ job[j].at = at /\ j.tool = "lane"
      /\ UNCHANGED <<handoffs, backups, reported, team>>
  BY DEF RestoreLane, JobAt, NoProvisioningBound
<1>2. j \in team /\ Holds(j) /\ HolderOK(j) /\ IsProcess(job[j])
  BY <1>1, RunnerHolds
<1>3. DOMAIN backups[j] # {} /\ PreparedOK(j)
  BY <1>1, <1>2 DEF HolderOK, UnpreparedOK
<1>4. CASE Write(f, backups[j][f].entries, TRUE) /\ JobStep(j, next) /\ UNCHANGED locks
  <2>1. IsProcess(p) /\ job' = [job EXCEPT ![j] = p]
    BY <1>2, <1>4, JobStepEffect DEF Steps
  <2>2. p.at = next /\ p.replaced \in 0..Len(Chain(j))
    BY <1>3 DEF PreparedOK
  <2>3. WritesBack(j, f, TRUE, p)
    BY <1>1, <1>4, <2>1, <2>2, ChainFacts DEF WritesBack
  <2>4. PICK q : q = p
    OBVIOUS
  <2>5. WritesBack(j, f, TRUE, q)
    BY <2>3, <2>4
  <2> QED
    BY <1>1, <1>2, <1>3, <2>5, WriteBackKept
<1>5. CASE JobEnds(j) /\ UNCHANGED disk
  BY <1>1, <1>2, <1>5, EndsUnwritten
<1> QED
  BY <1>4, <1>5 DEF RestoreLane

LEMMA EndLaneRollbackKept ==
  ASSUME ProvisioningInv, NEW j \in Jobs, EndLaneRollback(j)
  PROVE  ProvisioningInv'
<1>1. /\ job[j].at = "cleanup" /\ handoffs' = handoffs \ {j} /\ JobEnds(j)
      /\ UNCHANGED <<disk, backups, reported, team>>
  BY DEF EndLaneRollback, JobAt, NoProvisioningBound
<1>2. j \in team /\ Holds(j) /\ HolderOK(j)
  BY <1>1, RunnerHolds
<1>3. PreparedOK(j)
  BY <1>1, <1>2 DEF HolderOK, UnpreparedOK
<1>4. j.tool = "lane" /\ handoffs' \in SUBSET team
  BY <1>1, <1>3 DEF PreparedOK, ProvisioningInv, ProvisioningTypeOK
<1>5. \A f \in Files : Contents[f] \subseteq team
  BY <1>2, EntriesTyped DEF Contents
<1>6. Tidy(Contents, handoffs')
  BY <1>2, <1>4, <1>5, OthersAreTidy
<1>7. Contents' = Contents /\ \A f \in Files : Entries(f)' = Entries(f)
  BY <1>1 DEF Contents, Entries
<1>8. Tidy(Contents, handoffs)'
  BY <1>6, <1>7 DEF Tidy
<1>9. ReportedOK'
  <2>1. \A k \in team : ~Holds(k)'
    BY <1>1, <1>2, NobodyHolds DEF JobEnds, Unlock
  <2> QED
    BY <1>1, <1>2, <1>7, <2>1, ReportedKept
<1> QED
  BY <1>1, <1>2, <1>4, <1>8, <1>9, EndsKept DEF ProvisioningInv, ProvisioningTypeOK

\* Success is reported when the job is in all of its files.
LEMMA FinishKept ==
  ASSUME ProvisioningInv, NEW j \in Jobs, Finish(j)
  PROVE  ProvisioningInv'
<1>1. /\ job[j].at = "finish" /\ reported' = reported \cup {j} /\ JobEnds(j)
      /\ UNCHANGED <<disk, handoffs, backups, team>>
  BY DEF Finish, JobAt, NoProvisioningBound
<1>2. j \in team /\ Holds(j) /\ HolderOK(j)
  BY <1>1, RunnerHolds
<1>3. DOMAIN backups[j] # {} /\ PreparedOK(j)
  BY <1>1, <1>2 DEF HolderOK, UnpreparedOK
<1>4. Replaced(j, Len(Chain(j)))
  BY <1>1, <1>3 DEF PreparedOK, Replacing
<1>5. Tidy(Contents, handoffs)
  BY <1>2, <1>3, <1>4, ReplacedIsTidy
<1>6. \A f \in Range(Chain(j)) : j \in Entries(f)
  BY <1>4, ChainFacts, WithFacts DEF Replaced
<1> QED
  BY <1>1, <1>2, <1>5, <1>6, EndsInPlace DEF ProvisioningInv, ProvisioningTypeOK

\* The operator puts back what the job found and removes its lock.
LEMMA RecoverKept ==
  ASSUME ProvisioningInv, NEW j \in Jobs, Recover(j)
  PROVE  ProvisioningInv'
<1>1. /\ job[j].at = "idle" /\ locks[j.tool].owner = j.id
      /\ disk' = [f \in Files |-> IF f \notin DOMAIN backups[j] THEN disk[f]
                    ELSE [ino |-> disk[f].ino + 1, entries |-> backups[j][f].entries]]
      /\ handoffs' = handoffs \ {j} /\ locks' = [locks EXCEPT ![j.tool] = NoLock]
      /\ UNCHANGED <<job, backups, reported, team>>
  BY DEF Recover, JobAt, NoProvisioningBound, Unlock
<1>2. j \in team /\ Holds(j)
  <2>1. locks[j.tool] # NoLock /\ j.tool \in Tools
    BY <1>1, TeamFacts DEF ProvisioningInv, NoLock
  <2>2. PICK k \in team : k.tool = j.tool /\ Holds(k)
    BY <2>1 DEF ProvisioningInv, LocksOK
  <2>3. k = j
    BY <1>1, <2>2, TeamFacts DEF ProvisioningInv, Holds
  <2> QED
    BY <2>2, <2>3
<1>3. /\ \A f \in Files : Entries(f) \subseteq team /\ Found(j)[f] \subseteq team
      /\ \A f \in DOMAIN backups[j] : backups[j][f].entries \subseteq team /\ f \in Files
  BY <1>2, EntriesTyped
<1>4. \A f \in Files : Entries(f)' = IF f \in DOMAIN backups[j] THEN backups[j][f].entries
                                     ELSE Entries(f)
  BY <1>1 DEF Entries
<1>5. disk' \in [Files -> [ino : Nat, entries : SUBSET team]]
  <2>1. \A f \in Files : disk[f].ino \in Nat /\ disk[f] \in [ino : Nat, entries : SUBSET team]
    BY DEF ProvisioningInv, ProvisioningTypeOK
  <2> QED
    BY <1>1, <1>3, <2>1
<1>6. Tidy(Contents, handoffs)'
  <2>1. Contents' = Found(j)
    BY <1>4 DEF Contents, Found
  <2>2. Tidy(Found(j), handoffs \ {j})
    BY <1>2 DEF ProvisioningInv, HolderOK
  <2> QED
    BY <1>1, <2>1, <2>2 DEF Tidy
<1>7. ReportedOK'
  <2>1. \A k \in team : ~Holds(k)'
    BY <1>1, <1>2, NobodyHolds
  <2> QED
    BY <1>1, <1>2, <1>4, <2>1, ReportedKept
<1>8. HolderLeaves(j)
  BY <1>1, <1>5 DEF HolderLeaves, ProvisioningInv, ProvisioningTypeOK
<1> QED
  BY <1>2, <1>6, <1>7, <1>8, LeaveKept

LEMMA ProvisioningInitOK ==
  ASSUME ProvisioningInit, OneTool(team)
  PROVE  ProvisioningInv
<1>1. /\ team \in Teams /\ disk = [f \in Files |-> [ino |-> 0, entries |-> {}]]
      /\ locks = [t \in Tools |-> NoLock] /\ job = [j \in Jobs |-> NotRunning]
      /\ handoffs = {} /\ backups = [j \in Jobs |-> <<>>] /\ reported = {}
  BY DEF ProvisioningInit
<1>2. ProvisioningTypeOK
  <2>1. IsProcess(NotRunning)
    BY DEF NotRunning, IsProcess, Steps
  <2>2. NoLock \in [owner : {j.id : j \in team} \cup {"none"}, failed : BOOLEAN]
    BY DEF NoLock
  <2> QED
    BY <1>1, <2>1, <2>2 DEF ProvisioningTypeOK, IsProcess
<1>3. \A j \in Jobs : ~Holds(j) /\ job[j].at = "idle"
  BY <1>1, <1>2, TeamFacts DEF Holds, NoLock, NotRunning
<1>4. LocksOK
  BY <1>1, <1>3 DEF LocksOK
<1>5. \A f \in Files : Entries(f) = {}
  BY <1>1 DEF Entries
<1>6. Tidy(Contents, handoffs)
  <2>1. \A f \in Files : Contents[f] = {}
    BY <1>5 DEF Contents
  <2> QED
    BY <1>1, <2>1, ChainFacts DEF Tidy, Files
<1>7. ReportedOK
  BY <1>1 DEF ReportedOK, Lasting
<1>8. team \subseteq Jobs
  BY <1>2, TeamFacts
<1> QED
  BY <1>2, <1>3, <1>4, <1>6, <1>7, <1>8 DEF ProvisioningInv

LEMMA ProvisioningNextOK ==
  ASSUME ProvisioningInv, [ProvisioningNext]_provisioningVars
  PROVE  ProvisioningInv'
<1>1. CASE UNCHANGED provisioningVars
  <2>1. UNCHANGED <<team, disk, locks, job, handoffs, backups, reported>>
    BY <1>1 DEF provisioningVars
  <2>2. \A j : Holds(j)' = Holds(j) /\ Found(j)' = Found(j) /\ (UnpreparedOK(j)' <=> UnpreparedOK(j))
    BY <2>1 DEF Holds, Found, Entries, UnpreparedOK
  <2>3. Contents' = Contents /\ \A f : Entries(f)' = Entries(f)
    BY <2>1 DEF Contents, Entries
  <2>4. \A j, n : Replaced(j, n)' <=> Replaced(j, n)
    BY <2>1, <2>3 DEF Replaced
  <2>5. \A j : PreparedOK(j)' <=> PreparedOK(j)
    BY <2>1, <2>3, <2>4 DEF PreparedOK
  <2>6. \A j : HolderOK(j) => HolderOK(j)'
    BY <2>1, <2>2, <2>5 DEF HolderOK, Tidy
  <2>7. ProvisioningTypeOK' /\ OneTool(team)' /\ LocksOK'
    BY <2>1, <2>2 DEF ProvisioningInv, ProvisioningTypeOK, LocksOK, OneTool, IsProcess
  <2>8. ReportedOK'
    BY <2>1, <2>2, <2>3 DEF ProvisioningInv, ReportedOK, Lasting
  <2>9. (\A j \in team : ~Holds(j))' => Tidy(Contents, handoffs)'
    BY <2>1, <2>2, <2>3 DEF ProvisioningInv, Tidy
  <2> QED
    BY <2>1, <2>2, <2>6, <2>7, <2>8, <2>9 DEF ProvisioningInv
<1>2. ASSUME NEW j \in Jobs, ProvisioningStep(j)
      PROVE  ProvisioningInv'
  BY <1>2, AcquireLockKept, ReadFileKept, PrepareKept, CheckFileKept, ReplaceFileKept,
    PublishHandoffKept, FinishKept, OperationFailsKept, WithdrawHandoffKept, RestoreFileKept,
    EndRollbackKept, RestoreLaneKept, EndLaneRollbackKept, KillKept, RecoverKept
  DEF ProvisioningStep
<1> QED
  BY <1>1, <1>2 DEF ProvisioningNext

\* A file of an open lock's tool is that of the job which replaces it or as it was.
LEMMA TogetherHolds ==
  ASSUME ProvisioningInv
  PROVE  ProvisionedTogether
<1>1. PartialStateIsLocked
  <2> SUFFICES ASSUME NEW j \in Jobs, j.tool \in {"collector", "consumer"}, locks[j.tool] = NoLock
               PROVE  /\ \A f \in Range(Chain(j)) : j \in Entries(f) <=> j \in Entries("auth")
                      /\ j \in handoffs => \E e \in Entries("auth") : e.actor = j.actor
    BY DEF PartialStateIsLocked
  <2>0. Range(Chain(j)) \subseteq Files /\ "auth" \in Files
    BY ChainFacts DEF Files
  <2>1. CASE j \notin team
    BY <2>0, <2>1 DEF ProvisioningInv, ProvisioningTypeOK, Entries
  <2>2. CASE j \in team
    <3>1. \A k \in team : ~Holds(k)
      BY <2>2, TeamFacts DEF ProvisioningInv, OneTool, Holds, NoLock
    <3>2. Tidy(Contents, handoffs)
      BY <3>1 DEF ProvisioningInv
    <3> QED
      BY <2>0, <3>2 DEF Tidy, Contents
  <2> QED
    BY <2>1, <2>2
<1>2. BearersAreBacked
  <2> SUFFICES ASSUME NEW j \in Jobs, NEW f \in Range(Chain(j)), j.tool \in {"collector", "consumer"},
                      j \in Entries("auth"), ~locks[j.tool].failed
               PROVE  \E e \in Entries(f) : e.actor = j.actor
    BY DEF BearersAreBacked
  <2>0. /\ Range(Chain(j)) \subseteq Files /\ "auth" \in Range(Chain(j))
        /\ Len(Chain(j)) = 3 /\ Chain(j)[3] = "auth"
    BY ChainFacts
  <2>1. j \in team
    BY <2>0 DEF ProvisioningInv, ProvisioningTypeOK, Entries
  <2>2. CASE \A k \in team : ~Holds(k)
    <3>1. Tidy(Contents, handoffs)
      BY <2>2 DEF ProvisioningInv
    <3> QED
      BY <2>0, <3>1 DEF Tidy, Contents
  <2>3. ASSUME NEW h \in team, Holds(h)
        PROVE  \E e \in Entries(f) : e.actor = j.actor
    <3>0. h.tool = j.tool /\ Chain(h) = Chain(j) /\ HolderOK(h) /\ h \in Jobs
      BY <2>1, <2>3, TeamFacts DEF ProvisioningInv, OneTool, Chain
    <3>1. CASE DOMAIN backups[h] = {}
      <4>1. Tidy(Contents, handoffs)
        BY <2>3, <3>1, UnpreparedIsTidy
      <4> QED
        BY <2>0, <4>1 DEF Tidy, Contents
    <3>2. CASE DOMAIN backups[h] # {}
      <4>1. PreparedOK(h)
        BY <3>0, <3>2 DEF HolderOK
      <4>2. PICK m \in 0..3 : Replaced(h, m)
        BY <2>0, <3>0, <4>1 DEF PreparedOK
      <4>3. DOMAIN backups[h] = Range(Chain(j))
        BY <3>0, <4>1 DEF PreparedOK
      <4>4. \A k \in Jobs : k.tool = j.tool => \A g \in Range(Chain(j)) :
              k \in backups[h][g].entries <=> k \in backups[h]["auth"].entries
        <5>1. \A k \in Jobs : k.tool = j.tool => Chain(k) = Chain(j)
          BY DEF Chain
        <5> QED
          BY <2>0, <3>0, <4>3, <5>1 DEF HolderOK, Tidy, Found
      <4>5. PICK i \in 1..3 : Chain(j)[i] = f
        BY <2>0, ChainFacts
      <4>6. Entries(f) = IF i <= m THEN With(h, backups[h][f].entries) ELSE backups[h][f].entries
        BY <2>0, <3>0, <4>2, <4>5 DEF Replaced
      <4>7. Entries("auth") = IF 3 <= m THEN With(h, backups[h]["auth"].entries)
                              ELSE backups[h]["auth"].entries
        <5>1. 3 \in 1..Len(Chain(h)) /\ Chain(h)[3] = "auth"
          <6>1. Chain(h) = Chain(j) /\ 3 \in 1..3
            BY <3>0
          <6>2. Len(Chain(j)) = 3 /\ Chain(j)[3] = "auth"
            BY <2>0
          <6> QED
            BY <6>1, <6>2, Zenon
        <5> QED
          BY <4>2, <5>1 DEF Replaced
      <4>8. CASE j = h
        <5>1. CASE i <= m
          BY <4>6, <4>8, <5>1, WithFacts
        <5>2. CASE ~(i <= m)
          <6>1. ~(3 <= m)
            BY <5>2
          <6> QED
            BY <4>4, <4>6, <4>7, <5>2, <6>1
        <5> QED
          BY <5>1, <5>2
      <4>9. CASE j # h
        <5>1. j \in backups[h]["auth"].entries
          BY <4>7, <4>9, WithFacts
        <5>2. j \in backups[h][f].entries
          BY <4>4, <5>1
        <5>3. CASE j.actor = h.actor
          BY <4>6, <5>2, <5>3, WithFacts
        <5>4. CASE j.actor # h.actor
          BY <4>6, <5>2, <5>4, WithFacts
        <5> QED
          BY <5>3, <5>4
      <4> QED
        BY <4>8, <4>9
    <3> QED
      BY <3>1, <3>2
  <2> QED
    BY <2>2, <2>3
<1> QED
  BY <1>1, <1>2 DEF ProvisionedTogether

\* The invariant of every behaviour whose team uses one tool.
LEMMA ProvisioningInvariant ==
  ASSUME \A T \in Teams : OneTool(T)
  PROVE  ProvisioningSpec => []ProvisioningInv
<1>1. ProvisioningInit => OneTool(team)
  BY DEF ProvisioningInit
<1>2. ProvisioningInit => ProvisioningInv
  BY <1>1, ProvisioningInitOK
<1>3. ProvisioningInv /\ [ProvisioningNext]_provisioningVars => ProvisioningInv'
  BY ProvisioningNextOK
<1> QED
  BY <1>2, <1>3, PTL DEF ProvisioningSpec

\* A key ring, the policy and the registry of one tool are replaced together: in
\* no state is a bearer without policy and key but after a failed rollback, and a
\* file that lags is locked. Failures, kills and recoveries may come anywhere.
THEOREM ProvisioningStaysTogether ==
  ASSUME \A T \in Teams : OneTool(T)
  PROVE  ProvisioningSpec => []ProvisionedTogether
<1>1. ProvisioningInv => ProvisionedTogether
  BY TogetherHolds
<1> QED
  BY <1>1, ProvisioningInvariant, PTL

\* What a run reported as provisioned is in all its files for good, whatever later
\* runs of its tool do, fail at or roll back, unless its principal is given anew.
THEOREM ReportsLast ==
  ASSUME \A T \in Teams : OneTool(T)
  PROVE  ProvisioningSpec => []ReportedStays
<1>1. ProvisioningInv => ReportedStays
  BY TeamFacts DEF ProvisioningInv, ProvisioningTypeOK, ReportedOK, Lasting, ReportedStays
<1> QED
  BY <1>1, ProvisioningInvariant, PTL

=============================================================================
