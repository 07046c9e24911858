---------------------------- MODULE AuditSampler ----------------------------
(***************************************************************************)
(* The sampler in front of the audit table (src/audit-retention.mjs,       *)
(* src/server.mjs).  A status call is counted in memory, in the bucket of  *)
(* its time window; a bucket becomes one audit row when its window is over,*)
(* and stays in memory until the write succeeds.  Flushes run one after the*)
(* other while calls go on being counted.  The buckets are those of one    *)
(* actor; the clock of the process does not step back.                     *)
(***************************************************************************)
EXTENDS Naturals, FiniteSets, Sequences

CONSTANTS
  MaxWindow,        \* bound: windows are 1..MaxWindow
  MaxCalls,         \* bound: status calls in a window
  MaxPending,       \* maxPendingBuckets of the sampler
  MaxSamplerFaults  \* bound: writes without an answer, stops of the server

ASSUME SamplerAssumption ==
  /\ MaxWindow \in Nat \ {0} /\ MaxCalls \in Nat /\ MaxSamplerFaults \in Nat
  /\ MaxPending \in Nat \ {0}

VARIABLES
  window,         \* the window of the clock
  buckets,        \* calls counted for each window, 0: no bucket
  flushes,        \* the chain of flushes, the first one running
  writing,        \* the buckets the running flush has still to write
  accepting,      \* the sampler is not closed
  owed,           \* calls of each window that memory or the table accounts for
  sampled,        \* calls of each window in rows of the audit table
  calls,          \* bound: calls of each window
  samplerFaults

samplerVars == <<window, buckets, flushes, writing, accepting, owed, sampled, calls, samplerFaults>>

Windows == 1..MaxWindow
PendingBuckets == {w \in Windows : buckets[w] > 0}
NotWriting == [at |-> "idle", todo |-> {}, bucket |-> 1, count |-> 0]

SamplerInit ==
  /\ window = 1 /\ accepting = TRUE
  /\ buckets = [w \in Windows |-> 0] /\ flushes = <<>> /\ writing = NotWriting
  /\ owed = [w \in Windows |-> 0] /\ sampled = [w \in Windows |-> 0]
  /\ calls = [w \in Windows |-> 0] /\ samplerFaults = 0

NextWindow ==
  /\ window < MaxWindow /\ window' = window + 1
  /\ UNCHANGED <<buckets, flushes, writing, accepting, owed, sampled, calls, samplerFaults>>

\* A status call; a closed sampler refuses it.
Record ==
  /\ accepting /\ calls[window] < MaxCalls
  /\ buckets' = [buckets EXCEPT ![window] = @ + 1]
  /\ owed' = [owed EXCEPT ![window] = @ + 1]
  /\ calls' = [calls EXCEPT ![window] = @ + 1]
  /\ UNCHANGED <<window, flushes, writing, accepting, sampled, samplerFaults>>

\* The timer asks for a flush.  At most one waits behind the running one: a
\* third one would find what the second one leaves.
Tick ==
  /\ accepting /\ Len(flushes) < 2
  /\ flushes' = Append(flushes, "expired")
  /\ UNCHANGED <<window, buckets, writing, accepting, owed, sampled, calls, samplerFaults>>

Close ==
  /\ accepting /\ accepting' = FALSE
  /\ flushes' = Append(flushes, "all")
  /\ UNCHANGED <<window, buckets, writing, owed, sampled, calls, samplerFaults>>

\* Mutant: the current bucket is due as well.
DueAtOnce(flush) == {w \in PendingBuckets : w <= window}

Due(flush) == IF flush = "all" THEN PendingBuckets ELSE {w \in PendingBuckets : w < window}

StartFlush ==
  /\ writing.at = "idle" /\ flushes # <<>>
  /\ writing' = [writing EXCEPT !.at = "next", !.todo = Due(Head(flushes))]
  /\ UNCHANGED <<window, buckets, flushes, accepting, owed, sampled, calls, samplerFaults>>

\* The row is made of the count at this moment, and its insert is awaited.
StartWrite ==
  /\ writing.at = "next"
  /\ \E w \in writing.todo :
       writing' = [at |-> "write", todo |-> writing.todo \ {w}, bucket |-> w, count |-> buckets[w]]
  /\ UNCHANGED <<window, buckets, flushes, accepting, owed, sampled, calls, samplerFaults>>

StoreRow == sampled' = [sampled EXCEPT ![writing.bucket] = @ + writing.count]

WriteAnswered ==
  /\ writing.at = "write" /\ writing' = [writing EXCEPT !.at = "next"]
  /\ StoreRow
  /\ buckets' = [buckets EXCEPT ![writing.bucket] = 0]
  /\ UNCHANGED <<window, flushes, accepting, owed, calls, samplerFaults>>

\* The insert fails, or takes effect after its time is up: the bucket stays.
WriteFails ==
  /\ writing.at = "write" /\ writing' = [writing EXCEPT !.at = "next"]
  /\ samplerFaults < MaxSamplerFaults /\ samplerFaults' = samplerFaults + 1
  /\ StoreRow \/ UNCHANGED sampled
  /\ UNCHANGED <<window, buckets, flushes, accepting, owed, calls>>

Oldest(set, n) == {w \in set : Cardinality({v \in set : v < w}) < n}

\* What exceeds the limit is dropped, oldest first, and reported.
Overflow ==
  IF Cardinality(PendingBuckets) <= MaxPending THEN {}
    ELSE Oldest(PendingBuckets, Cardinality(PendingBuckets) - MaxPending)

DropBuckets(dropped) ==
  /\ buckets' = [w \in Windows |-> IF w \in dropped THEN 0 ELSE buckets[w]]
  /\ owed' = [w \in Windows |-> IF w \in dropped THEN owed[w] - buckets[w] ELSE owed[w]]

EndFlush ==
  /\ writing.at = "next" /\ writing.todo = {} /\ writing' = NotWriting
  /\ flushes' = Tail(flushes)
  /\ DropBuckets(Overflow)
  /\ UNCHANGED <<window, accepting, sampled, calls, samplerFaults>>

\* A closed server ends, or a running one is killed: memory is lost with it,
\* which a close that could not write everything reports.
Stop ==
  /\ \/ ~accepting /\ flushes = <<>> /\ UNCHANGED samplerFaults
     \/ samplerFaults < MaxSamplerFaults /\ samplerFaults' = samplerFaults + 1
  /\ DropBuckets(Windows)
  /\ flushes' = <<>> /\ writing' = NotWriting /\ accepting' = TRUE
  /\ UNCHANGED <<window, sampled, calls>>

SamplerNext ==
  \/ NextWindow \/ Record \/ Tick \/ Close \/ StartFlush \/ StartWrite
  \/ WriteAnswered \/ WriteFails \/ EndFlush \/ Stop

SamplerTypeOK ==
  /\ window \in Windows /\ accepting \in BOOLEAN /\ samplerFaults \in 0..MaxSamplerFaults
  /\ buckets \in [Windows -> 0..MaxCalls] /\ owed \in [Windows -> 0..MaxCalls]
  /\ calls \in [Windows -> 0..MaxCalls] /\ sampled \in [Windows -> Nat]
  /\ flushes \in Seq({"expired", "all"})
  /\ writing \in [at : {"idle", "next", "write"}, todo : SUBSET Windows, bucket : Windows,
                  count : 0..MaxCalls]

(***************************************************************************)
(* Property                                                                *)
(***************************************************************************)

\* "Bucket is kept until its write succeeds (at-least-once); a crash loses what's
\* in memory" (src/audit-retention.mjs): every call is in a bucket or in a row,
\* unless its bucket was dropped with a report or lost with the process.  Calls
\* that are counted while a flush waits for its write are not lost with the
\* bucket that is being written.
SampledCallsAreKept == \A w \in Windows : owed[w] <= sampled[w] + buckets[w]

=============================================================================
