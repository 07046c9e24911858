--------------------------- MODULE NativePausedPhase ---------------------------
(***************************************************************************)
(* The paused-native phase of the M4 migration                             *)
(* (src/migration/m4-native-paused-phase-orchestrator.mjs): under the phase*)
(* lease the intervals are run batch by batch in catalog order, a finished *)
(* interval gets a signed receipt in the phase store, and when every       *)
(* interval has one a completion is signed.  An operator invokes the phase *)
(* again and again; an invocation may reach its call bounds, fail at any   *)
(* await, die, or lose its lease.                                          *)
(***************************************************************************)
EXTENDS BackfillBatch

CONSTANTS
  MaxCallsPerShard,   \* maxCallsPerInvocationPerShard
  MaxCallsTotal       \* maxCallsPerInvocationTotal

ASSUME PhaseAssumption ==
  MaxCallsPerShard \in Nat \ {0} /\ MaxCallsTotal \in Nat \ {0}

VARIABLES
  receipts,           \* phase store: the receipts of the first intervals
  phase,              \* where each invocation is
  completions         \* history: receipts for which a completion was signed

vars == <<bvars, receipts, phase, completions>>

PhaseSteps == {"idle", "acquire", "open", "load", "shard", "batch", "commit", "write",
               "reload", "sign", "release"}

\* A receipt binds the interval, its last checkpoint and the batch result.
Receipt == [ordinal : Shards, terminal : Nat, processed : Nat]

Invocation == [step : PhaseSteps, known : Seq(Receipt), found : Seq(Receipt),
               shardCalls : 0..MaxCallsPerShard, totalCalls : 0..MaxCallsTotal]

Idle == [step |-> "idle", known |-> <<>>, found |-> <<>>, shardCalls |-> 0, totalCalls |-> 0]

Init ==
  /\ BatchInit
  /\ receipts = <<>>
  /\ phase = [r \in Runners |-> Idle]
  /\ completions = {}

At(r, step) == phase[r].step = step
Goto(r, step) == phase' = [phase EXCEPT ![r].step = step]
Fails(r) == Goto(r, "release")
StoresUnchanged == UNCHANGED <<stores, faults, steals, records>>

\* The interval whose receipt is missing next.
Ordinal(r) == Len(phase[r].known) + 1
AllReceipts(known) == Len(known) = Cardinality(Shards)

(***************************************************************************)
(* runM4NativePausedPhase                                                  *)
(***************************************************************************)

\* The plan is confirmed and the prerequisites are current.
Invoke(r) ==
  /\ At(r, "idle") /\ BatchAt(r, "off")
  /\ Goto(r, "acquire")
  /\ UNCHANGED <<bvars, receipts, completions>>

AcquirePhase(r) ==
  /\ At(r, "acquire")
  /\ IF IsFree(PhaseLease)
     THEN Take(PhaseLease, r) /\ Goto(r, "open")
     ELSE Fails(r) /\ UNCHANGED lease
  /\ UNCHANGED <<batch, receipts, completions>> /\ StoresUnchanged

OpenStore(r) ==
  /\ At(r, "open")
  /\ IF Heartbeat(PhaseLease, r) THEN Goto(r, "load") ELSE Fails(r)
  /\ UNCHANGED <<bvars, receipts, completions>>

\* The receipts are loaded and verified against the plan.
LoadReceipts(r) ==
  /\ At(r, "load")
  /\ phase' = [phase EXCEPT ![r].step = "shard", ![r].known = receipts]
  /\ UNCHANGED <<bvars, receipts, completions>>

\* One more call of the batch runner, within the bounds of the invocation.
StartShard(r) ==
  /\ At(r, "shard")
  /\ ~AllReceipts(phase[r].known)
  /\ IF /\ phase[r].shardCalls < MaxCallsPerShard
        /\ phase[r].totalCalls < MaxCallsTotal
        /\ Heartbeat(PhaseLease, r)
     THEN /\ Goto(r, "batch")
          /\ batch' = [batch EXCEPT ![r] = [Off EXCEPT !.step = "acquire",
                                                       !.shard = Ordinal(r)]]
     ELSE Fails(r) /\ UNCHANGED batch
  /\ UNCHANGED <<lease, receipts, completions>> /\ StoresUnchanged

\* The result of the batch: another call, a receipt, or the end.
BatchEnds(r) ==
  /\ At(r, "batch")
  /\ \/ /\ BatchAt(r, "failed")
        /\ Fails(r)
        /\ batch' = [batch EXCEPT ![r] = Off]
     \/ /\ BatchAt(r, "done") /\ ~batch[r].complete
        /\ phase' = [phase EXCEPT ![r].step = IF batch[r].processed = 0 THEN "release"
                                              ELSE "shard",
                                  ![r].shardCalls = @ + 1, ![r].totalCalls = @ + 1]
        /\ batch' = [batch EXCEPT ![r] = Off]
     \/ /\ BatchAt(r, "done") /\ batch[r].complete
        /\ phase' = [phase EXCEPT ![r].step = "commit",
                                  ![r].shardCalls = @ + 1, ![r].totalCalls = @ + 1]
        /\ UNCHANGED batch
  /\ UNCHANGED <<lease, receipts, completions>> /\ StoresUnchanged

\* The receipt of a finished interval.  Its result digest covers the number of
\* duplicates too, which is left out here: where two invocations disagree on it
\* the commit fails, which PhaseFault stands for.
MyReceipt(r) == [ordinal |-> Ordinal(r), terminal |-> batch[r].scan,
                 processed |-> batch[r].processed]

\* M4NativePausedPhaseStore.commit reads the state: a receipt is written once
\* and without a gap ...
CommitReceipt(r) ==
  /\ At(r, "commit")
  /\ IF Ordinal(r) = Len(receipts) + 1
     THEN phase' = [phase EXCEPT ![r].step = "write", ![r].found = receipts]
     ELSE IF Ordinal(r) <= Len(receipts) /\ receipts[Ordinal(r)] = MyReceipt(r)
          THEN Goto(r, "reload")
          ELSE Fails(r)
  /\ UNCHANGED <<bvars, receipts, completions>>

\* ... and renames the new state over it.
WriteReceipt(r) ==
  /\ At(r, "write")
  /\ receipts' = Append(phase[r].found, MyReceipt(r))
  /\ Goto(r, "reload")
  /\ UNCHANGED <<bvars, completions>>

\* The store must give back the receipt as the last one before the next
\* interval starts.
Reload(r) ==
  /\ At(r, "reload")
  /\ IF Len(receipts) = Ordinal(r) /\ receipts[Len(receipts)] = MyReceipt(r)
     THEN phase' = [phase EXCEPT ![r].step = "shard", ![r].known = receipts,
                                 ![r].found = <<>>, ![r].shardCalls = 0]
     ELSE Fails(r)
  /\ batch' = [batch EXCEPT ![r] = Off]
  /\ UNCHANGED <<lease, receipts, completions>> /\ StoresUnchanged

\* Every receipt is there: heartbeat, prerequisites, heartbeat ...
Finish(r) ==
  /\ At(r, "shard")
  /\ AllReceipts(phase[r].known)
  /\ IF Heartbeat(PhaseLease, r) THEN Goto(r, "sign") ELSE Fails(r)
  /\ UNCHANGED <<bvars, receipts, completions>>

\* ... and the completion of the receipts as this invocation knows them.
Sign(r) ==
  /\ At(r, "sign")
  /\ completions' = completions \cup {phase[r].known}
  /\ Goto(r, "release")
  /\ UNCHANGED <<bvars, receipts>>

\* The finally block closes the resources, the lease last but one.
Release(r) ==
  /\ At(r, "release")
  /\ phase' = [phase EXCEPT ![r] = Idle]
  /\ batch' = [batch EXCEPT ![r] = Off]
  /\ lease' = Released(PhaseLease, r)
  /\ UNCHANGED <<receipts, completions>> /\ StoresUnchanged

PhaseStep(r) ==
  \/ AcquirePhase(r) \/ OpenStore(r) \/ LoadReceipts(r) \/ StartShard(r) \/ BatchEnds(r) \/ CommitReceipt(r)
  \/ WriteReceipt(r) \/ Reload(r) \/ Finish(r) \/ Sign(r) \/ Release(r)

PhaseFault(r) ==
  /\ phase[r].step \notin {"idle", "batch", "release"}
  /\ faults < MaxFaults /\ faults' = faults + 1
  /\ Fails(r)
  /\ UNCHANGED <<stores, lease, batch, steals, records, receipts, completions>>

\* The process dies; its leases are taken over once they are stale.
Crash(r) ==
  /\ ~At(r, "idle")
  /\ faults < MaxFaults /\ faults' = faults + 1
  /\ phase' = [phase EXCEPT ![r] = Idle]
  /\ batch' = [batch EXCEPT ![r] = Off]
  /\ lease' = [l \in Leases |-> IF lease[l] = r THEN None ELSE lease[l]]
  /\ UNCHANGED <<stores, steals, records, receipts, completions>>

InBatch(r) == At(r, "batch") /\ UNCHANGED <<receipts, phase, completions>>

RunnerStep(r) == PhaseStep(r) \/ (BatchStep(r) /\ InBatch(r))

Next ==
  \/ \E r \in Runners :
       \/ Invoke(r) \/ RunnerStep(r) \/ PhaseFault(r) \/ Crash(r)
       \/ BatchFault(r) /\ InBatch(r)
  \/ \E l \in Leases : Steal(l) /\ UNCHANGED <<receipts, phase, completions>>

Spec == Init /\ [][Next]_vars

\* An invocation once begun goes on, and the operator invokes the phase again
\* and again.
FairSpec == Spec /\ \A r \in Runners : WF_vars(Invoke(r)) /\ WF_vars(RunnerStep(r))

(***************************************************************************)
(* Properties                                                              *)
(***************************************************************************)

\* Every eligible record of the interval is in the archive.
Archived(s) ==
  \A q \in Positions(s) :
    records[s][q].eligible =>
      archive[records[s][q].event] \in {<<s, p>> : p \in Emits(s, 0)}

\* A receipt, and a completion signed over receipts, is never issued for an
\* interval of which an eligible record is missing in the archive: not after
\* crashes and retries, and not when two invocations lost the lease to each
\* other and write to the same stores.
ReceiptsAreBacked ==
  \A s \in Shards :
    (s <= Len(receipts) \/ completions # {}) => Archived(s)

\* Both levels: neither the progress of a shard nor the receipts of the phase run
\* ahead of the archive.
PhaseIsBacked == ProgressIsBacked /\ ReceiptsAreBacked

\* An event is archived with another payload, or repeated with another meaning:
\* the phase then stops for an operator.
Blocked ==
  \E s \in Shards :
    \/ Clashes(s) # {}
    \/ \E q \in Emits(s, 0) : archive[records[s][q].event] \notin {None, <<s, q>>}

\* Repeated invocations complete the phase, however few calls each one may
\* make, unless the data themselves are in conflict.
EventuallyComplete == <>(completions # {} \/ Blocked)

===============================================================================
