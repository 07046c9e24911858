---------------------------- MODULE RouteCutover ----------------------------
(***************************************************************************)
(* The route change of the migration and its way back                      *)
(* (src/operator/m4-route-executor.mjs, m4-post-route-rollback.mjs).  A    *)
(* confirmed execution backs the runtime configuration up, replaces it,    *)
(* runs hooks and records a result; a rollback restores the backup of an   *)
(* active execution whose observation failed.  Both work under one lock    *)
(* file, which an error after the first write leaves in place.             *)
(***************************************************************************)
EXTENDS Naturals, FiniteSets, Functions

CONSTANTS
  Executions,      \* execution id and revision
  Rollbacks,       \* rollback id and revision
  ExecutionOf,     \* the execution whose result a rollback names
  MaxRouteFaults,  \* bound: failed operations and killed processes
  MaxEdits         \* bound: edits of other settings by the operator

ASSUME CutoverAssumption ==
  /\ Executions \cap Rollbacks = {}
  /\ ExecutionOf \in [Rollbacks -> Executions]
  /\ {MaxRouteFaults, MaxEdits} \subseteq Nat

VARIABLES
  runtime,     \* configuration: route, other settings, inode
  routeLock,   \* the operation whose lock file exists
  routeBackup, \* backup directory of each execution
  results,     \* what each execution recorded
  undone,      \* what each rollback recorded
  authorized,  \* configuration the signed authorization of an execution names
  expired,     \* executions whose selector scope is no longer fresh
  observed,    \* executions with a signed failed observation
  op,          \* the process of each operation
  routeFaults

cutoverVars == <<runtime, routeLock, routeBackup, results, undone, authorized, expired,
                 observed, op, routeFaults>>
evidence == <<authorized, expired, observed>>

Operations == Executions \cup Rollbacks
Nothing == [state |-> "none"]
Stopped == [at |-> "stopped", seen |-> Nothing, confirmed |-> Nothing, outcome |-> "none"]

CutoverInit ==
  /\ runtime = [mode |-> "legacy", edits |-> 0, ino |-> 0]
  /\ routeLock = {}
  /\ routeBackup = [e \in Executions |-> Nothing]
  /\ results = [e \in Executions |-> Nothing]
  /\ undone = [r \in Rollbacks |-> Nothing]
  /\ authorized = [e \in Executions |-> Nothing]
  /\ expired = {} /\ observed = {}
  /\ op = [o \in Operations |-> Stopped]
  /\ routeFaults = 0

Bytes(file) == [mode |-> file.mode, edits |-> file.edits]
Routed(bytes) == [bytes EXCEPT !.mode = "active"]
WriteRuntime(bytes) ==
  runtime' = [mode |-> bytes.mode, edits |-> bytes.edits, ino |-> runtime.ino + 1]

OpAt(o, step) == op[o].at = step
OpStep(o, step) == op' = [op EXCEPT ![o].at = step]
OpEnds(o) == op' = [op EXCEPT ![o] = Stopped]
RouteFault == routeFaults < MaxRouteFaults /\ routeFaults' = routeFaults + 1
Release == routeLock' = {}

(***************************************************************************)
(* What plan and run verify                                                *)
(***************************************************************************)

\* prepare and freshness of an execution: the route has its old values and
\* these bytes are the ones the authorization was signed for.
RoutePrepared(e) ==
  /\ runtime.mode = "legacy" /\ authorized[e] = Bytes(runtime)
  /\ e \notin expired

\* prepare of a rollback: an active result, its failed observation, its
\* configuration still in place and a complete backup of the one before.
RollbackPrepared(r) ==
  /\ results[ExecutionOf[r]].state = "active" /\ ExecutionOf[r] \in observed
  /\ Bytes(runtime) = results[ExecutionOf[r]].after
  /\ routeBackup[ExecutionOf[r]] = [state |-> "complete", bytes |-> results[ExecutionOf[r]].before]

Prepared(o) == IF o \in Executions THEN RoutePrepared(o) ELSE RollbackPrepared(o)
Unwritten(o) == (IF o \in Executions THEN results[o] ELSE undone[o]) = Nothing

\* Mutant: the inputs are not verified again under the lock.
ReverifiedNever(o) == TRUE

\* The confirmation digest binds the bytes and the inode of the configuration.
Reverified(o) == Prepared(o) /\ op[o].confirmed = runtime

PlanOperation(o) ==
  /\ OpAt(o, "stopped") /\ Prepared(o) /\ Unwritten(o) /\ routeLock = {}
  /\ op' = [op EXCEPT ![o].at = "planned", ![o].confirmed = runtime]
  /\ UNCHANGED <<runtime, routeLock, routeBackup, results, undone, evidence, routeFaults>>

\* The checks of run before it takes the lock.
StartOperation(o) ==
  /\ OpAt(o, "planned")
  /\ IF Prepared(o) /\ op[o].confirmed = runtime /\ Unwritten(o) /\ routeLock = {}
       THEN op' = [op EXCEPT ![o].at = "lock", ![o].seen = Bytes(runtime)]
     ELSE OpEnds(o)
  /\ UNCHANGED <<runtime, routeLock, routeBackup, results, undone, evidence, routeFaults>>

LockRoute(o) ==
  /\ OpAt(o, "lock")
  /\ IF routeLock = {} THEN routeLock' = {o} /\ OpStep(o, "verify")
     ELSE OpEnds(o) /\ UNCHANGED routeLock
  /\ UNCHANGED <<runtime, routeBackup, results, undone, evidence, routeFaults>>

\* The prepare under the lock.
VerifyAgain(o) ==
  /\ OpAt(o, "verify")
  /\ IF Reverified(o) /\ Unwritten(o)
       THEN OpStep(o, IF o \in Executions THEN "backup" ELSE "restore") /\ UNCHANGED routeLock
     ELSE OpEnds(o) /\ Release
  /\ UNCHANGED <<runtime, routeBackup, results, undone, evidence, routeFaults>>

(***************************************************************************)
(* Execution                                                               *)
(***************************************************************************)

\* The directory must be new; the copy and its metadata follow.
MakeBackup(e) ==
  /\ e \in Executions /\ OpAt(e, "backup")
  /\ IF routeBackup[e] = Nothing
       THEN /\ routeBackup' = [routeBackup EXCEPT ![e] = [state |-> "partial"]]
            /\ OpStep(e, "copy") /\ UNCHANGED routeLock
     ELSE OpEnds(e) /\ Release /\ UNCHANGED routeBackup
  /\ UNCHANGED <<runtime, results, undone, evidence, routeFaults>>

\* Then everything is verified once more; a failure removes the backup.
FillBackup(e) ==
  /\ e \in Executions /\ OpAt(e, "copy")
  /\ IF Reverified(e)
       THEN /\ routeBackup' = [routeBackup EXCEPT ![e] = [state |-> "complete", bytes |-> op[e].seen]]
            /\ OpStep(e, "replace") /\ UNCHANGED routeLock
     ELSE OpEnds(e) /\ Release /\ routeBackup' = [routeBackup EXCEPT ![e] = Nothing]
  /\ UNCHANGED <<runtime, results, undone, evidence, routeFaults>>

\* Mutant: a write that failed releases the lock, though the file may be there.
WriteFailedUnlocked(o) == OpEnds(o) /\ Release

\* The first write failed: the lock is kept and nothing is recorded.
WriteFailed(o) == OpEnds(o) /\ UNCHANGED routeLock

\* A write fails before or after its rename.
ReplaceRuntime(e) ==
  /\ e \in Executions /\ OpAt(e, "replace")
  /\ \/ WriteRuntime(Routed(op[e].seen)) /\ OpStep(e, "commitHook") /\ UNCHANGED <<routeLock, routeFaults>>
     \/ /\ RouteFault /\ WriteFailed(e)
        /\ UNCHANGED runtime \/ WriteRuntime(Routed(op[e].seen))
  /\ UNCHANGED <<routeBackup, results, undone, evidence>>

Passes(o, outcome, step) == op' = [op EXCEPT ![o].outcome = outcome, ![o].at = step]

\* postCommit, then readiness; a failure of either leads to the restore.
ExecutionHooks(e) ==
  /\ e \in Executions
  /\ \/ /\ OpAt(e, "commitHook")
        /\ \/ OpStep(e, "readiness") /\ UNCHANGED routeFaults
           \/ RouteFault /\ OpStep(e, "restore")
     \/ /\ OpAt(e, "readiness")
        /\ \/ Passes(e, "active", "result") /\ UNCHANGED routeFaults
           \/ RouteFault /\ OpStep(e, "restore")
     \/ /\ OpAt(e, "rollbackHook")
        /\ \/ Passes(e, "rolled_back", "result") /\ UNCHANGED routeFaults
           \/ RouteFault /\ Passes(e, "rollback_failed", "result")
  /\ UNCHANGED <<runtime, routeLock, routeBackup, results, undone, evidence>>

(***************************************************************************)
(* Rollback                                                                *)
(***************************************************************************)

RollbackHooks(r) ==
  /\ r \in Rollbacks
  /\ \/ /\ OpAt(r, "rollbackHook")
        /\ \/ OpStep(r, "readiness") /\ UNCHANGED routeFaults
           \/ RouteFault /\ Passes(r, "rollback_failed", "result")
     \/ /\ OpAt(r, "readiness")
        /\ \/ Passes(r, "rolled_back", "result") /\ UNCHANGED routeFaults
           \/ RouteFault /\ Passes(r, "rollback_failed", "result")
  /\ UNCHANGED <<runtime, routeLock, routeBackup, results, undone, evidence>>

(***************************************************************************)
(* Both                                                                    *)
(***************************************************************************)

Original(o) == IF o \in Executions THEN op[o].seen ELSE routeBackup[ExecutionOf[o]].bytes

\* The bytes from before; written, read back and compared.
RestoreRuntime(o) ==
  /\ OpAt(o, "restore")
  /\ \/ WriteRuntime(Original(o)) /\ OpStep(o, "rollbackHook") /\ UNCHANGED routeFaults
     \/ /\ RouteFault /\ Passes(o, "rollback_failed", "result")
        /\ UNCHANGED runtime \/ WriteRuntime(Original(o))
  /\ UNCHANGED <<routeLock, routeBackup, results, undone, evidence>>

Recorded(o) ==
  IF o \in Executions
    THEN /\ results' = [results EXCEPT ![o] =
              [state |-> op[o].outcome, before |-> op[o].seen, after |-> Routed(op[o].seen)]]
         /\ UNCHANGED undone
  ELSE undone' = [undone EXCEPT ![o] = [state |-> op[o].outcome]] /\ UNCHANGED results

\* Never over another result; the lock stays unless the route is settled.
WriteResult(o) ==
  /\ OpAt(o, "result")
  /\ \/ /\ Recorded(o) /\ UNCHANGED routeFaults
        /\ IF op[o].outcome = "rollback_failed" THEN OpEnds(o) ELSE OpStep(o, "release")
     \/ /\ RouteFault /\ OpEnds(o)
        /\ UNCHANGED <<results, undone>> \/ Recorded(o)
  /\ UNCHANGED <<runtime, routeLock, routeBackup, evidence>>

ReleaseRoute(o) ==
  /\ OpAt(o, "release") /\ OpEnds(o) /\ Release
  /\ UNCHANGED <<runtime, routeBackup, results, undone, evidence, routeFaults>>

\* An error before the first write releases the lock and removes the backup.
EarlyFailure(o) ==
  /\ op[o].at \in {"verify", "backup", "copy"} /\ RouteFault
  /\ OpEnds(o) /\ Release
  /\ routeBackup' = IF OpAt(o, "copy") THEN [routeBackup EXCEPT ![o] = Nothing] ELSE routeBackup
  /\ UNCHANGED <<runtime, results, undone, evidence>>

KillOperation(o) ==
  /\ ~OpAt(o, "stopped") /\ RouteFault /\ OpEnds(o)
  /\ UNCHANGED <<runtime, routeLock, routeBackup, results, undone, evidence>>

(***************************************************************************)
(* Operators and authorities                                               *)
(***************************************************************************)

\* Signed for the configuration as it is.
Authorize(e) ==
  /\ authorized[e] = Nothing /\ runtime.mode = "legacy"
  /\ authorized' = [authorized EXCEPT ![e] = Bytes(runtime)]
  /\ UNCHANGED <<runtime, routeLock, routeBackup, results, undone, expired, observed, op, routeFaults>>

Expire(e) ==
  /\ e \notin expired /\ authorized[e] # Nothing /\ expired' = expired \cup {e}
  /\ UNCHANGED <<runtime, routeLock, routeBackup, results, undone, authorized, observed, op, routeFaults>>

ObserveFailure(e) ==
  /\ results[e].state = "active" /\ e \notin observed /\ observed' = observed \cup {e}
  /\ UNCHANGED <<runtime, routeLock, routeBackup, results, undone, authorized, expired, op, routeFaults>>

\* Other settings are edited while nobody has the lock.
EditRuntime ==
  /\ routeLock = {} /\ runtime.edits < MaxEdits
  /\ WriteRuntime([Bytes(runtime) EXCEPT !.edits = @ + 1])
  /\ UNCHANGED <<routeLock, routeBackup, results, undone, evidence, op, routeFaults>>

\* Deliberate recovery under a lock nobody works under: the configuration from
\* before an unrecorded change is put back, then the lock removed.
RecoverRoute ==
  /\ \E o \in routeLock : OpAt(o, "stopped")
  /\ LET saved == {b \in Range(routeBackup) : b.state = "complete" /\ Routed(b.bytes) = Bytes(runtime)}
     IN  IF saved = {} THEN UNCHANGED runtime ELSE \E b \in saved : WriteRuntime(b.bytes)
  /\ Release
  /\ UNCHANGED <<routeBackup, results, undone, evidence, op, routeFaults>>

OperationStep(o) ==
  \/ PlanOperation(o) \/ StartOperation(o) \/ LockRoute(o) \/ VerifyAgain(o)
  \/ MakeBackup(o) \/ FillBackup(o) \/ ReplaceRuntime(o)
  \/ ExecutionHooks(o) \/ RollbackHooks(o) \/ RestoreRuntime(o)
  \/ WriteResult(o) \/ ReleaseRoute(o) \/ EarlyFailure(o) \/ KillOperation(o)

CutoverNext ==
  \/ \E o \in Operations : OperationStep(o)
  \/ \E e \in Executions : Authorize(e) \/ Expire(e) \/ ObserveFailure(e)
  \/ EditRuntime \/ RecoverRoute

CutoverSpec == CutoverInit /\ [][CutoverNext]_cutoverVars

(***************************************************************************)
(* Properties                                                              *)
(***************************************************************************)

\* "Any error after configuration mutation also retains the lock": a changed
\* route that is not locked has an active result for exactly these settings, or
\* a later edit of them, and a complete backup of what it replaced.
RouteIsRecorded ==
  runtime.mode = "active" /\ routeLock = {} =>
    \E e \in Executions :
      /\ results[e].state = "active" /\ results[e].after.edits <= runtime.edits
      /\ routeBackup[e] = [state |-> "complete", bytes |-> results[e].before]

\* "every other byte remains unchanged": whoever replaces the configuration,
\* no edit that the operator made before the lock was taken is lost.
EditsSurvive == [][runtime'.edits >= runtime.edits]_cutoverVars

=============================================================================
