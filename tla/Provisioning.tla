---------------------------- MODULE Provisioning ----------------------------
(***************************************************************************)
(* Provisioning of principals (src/operator/*-provisioning.mjs).  Four     *)
(* tools rewrite files of the server: a collector or a consumer of recall  *)
(* replaces a key ring, the policy and at last the auth registry by rename *)
(* and then publishes a handoff; a curation lane rewrites the registry and *)
(* the PAM configuration in place; session routes replace a manifest.  Each*)
(* tool works under a lock file of its own.  A failure that is handled     *)
(* rolls back; a kill leaves files, lock and backup as they are.           *)
(***************************************************************************)
EXTENDS Naturals, FiniteSets, Sequences, Functions

CONSTANTS
  Jobs,       \* invocations; an entry of a file is the job that wrote it
  Teams,      \* sets of jobs that may run in one behaviour
  MaxFaults,  \* bound: failed operations and killed processes
  MaxStarts   \* bound: invocations

Tools == {"collector", "consumer", "lane", "route"}
\* A migration gives an actor that is provisioned a new token and key.
Job == [id : STRING, tool : Tools, actor : STRING, migrate : BOOLEAN]

ASSUME ProvisioningAssumption ==
  /\ Jobs \subseteq Job /\ Teams \subseteq SUBSET Jobs
  /\ \A j \in Jobs : j.migrate => j.tool = "consumer"
  /\ \A j, k \in Jobs : j.id = k.id => j = k
  /\ \A j \in Jobs : j.id # "none"
  /\ {MaxFaults, MaxStarts} \subseteq Nat

Files == {"ingest", "context", "policy", "auth", "pam", "manifest"}

\* In the order in which they are replaced.
FilesOf(tool) ==
  CASE tool = "collector" -> <<"ingest", "policy", "auth">>
    [] tool = "consumer" -> <<"context", "policy", "auth">>
    [] tool = "lane" -> <<"auth", "pam">>
    [] tool = "route" -> <<"manifest">>

VARIABLES
  team,       \* the jobs of this behaviour
  disk,       \* inode and entries of each file
  locks,      \* lock files: the job that made it, whether its rollback failed
  job,        \* the process of each job
  handoffs,   \* jobs whose handoff directory (or token files) is in place
  backups,    \* the files as the last invocation of a job found them
  reported,   \* jobs that reported success
  starts, faults

provisioningVars == <<team, disk, locks, job, handoffs, backups, reported, starts, faults>>

NoLock == [owner |-> "none", failed |-> FALSE]
NotRunning == [at |-> "idle", read |-> <<>>, replaced |-> 0]

ProvisioningInit ==
  /\ team \in Teams
  /\ disk = [f \in Files |-> [ino |-> 0, entries |-> {}]]
  /\ locks = [t \in Tools |-> NoLock]
  /\ job = [j \in Jobs |-> NotRunning]
  /\ handoffs = {} /\ backups = [j \in Jobs |-> <<>>] /\ reported = {}
  /\ starts = 0 /\ faults = 0

Chain(j) == FilesOf(j.tool)
JobAt(j, step) == job[j].at = step
JobStep(j, step) == job' = [job EXCEPT ![j].at = step]
Unlock(j) == locks' = [locks EXCEPT ![j.tool] = NoLock]
JobEnds(j) == job' = [job EXCEPT ![j] = NotRunning] /\ Unlock(j)

Entries(f) == disk[f].entries
With(j, entries) == {e \in entries : e.actor # j.actor} \cup {j}
Write(f, entries, inPlace) ==
  disk' = [disk EXCEPT ![f] = [ino |-> IF inPlace THEN @.ino ELSE @.ino + 1, entries |-> entries]]
NoProvisioningBound == UNCHANGED <<team, starts>>

(***************************************************************************)
(* Before anything is changed                                              *)
(***************************************************************************)

\* Mutant: the lock is not exclusive.
AcquireLockAnyway(j) ==
  /\ j \in team /\ JobAt(j, "idle") /\ starts < MaxStarts
  /\ j \notin handoffs
  /\ locks' = [locks EXCEPT ![j.tool] = [owner |-> j.id, failed |-> FALSE]]
  /\ job' = [job EXCEPT ![j] = [NotRunning EXCEPT !.at = "read"]]
  /\ starts' = starts + 1
  /\ backups' = [backups EXCEPT ![j] = <<>>]
  /\ UNCHANGED <<team, disk, handoffs, reported, faults>>

\* acquireLock; the handoff must not exist.
AcquireLock(j) ==
  /\ j \in team /\ JobAt(j, "idle") /\ starts < MaxStarts
  /\ locks[j.tool] = NoLock /\ j \notin handoffs
  /\ locks' = [locks EXCEPT ![j.tool] = [owner |-> j.id, failed |-> FALSE]]
  /\ job' = [job EXCEPT ![j] = [NotRunning EXCEPT !.at = "read"]]
  /\ starts' = starts + 1
  /\ backups' = [backups EXCEPT ![j] = <<>>]
  /\ UNCHANGED <<team, disk, handoffs, reported, faults>>

\* The files are read one after the other, the auth registry first.
ReadFile(j) ==
  LET left == Range(Chain(j)) \ DOMAIN job[j].read
      next == IF "auth" \in left THEN "auth" ELSE CHOOSE f \in left : TRUE
  IN
  /\ JobAt(j, "read")
  /\ job' = [job EXCEPT ![j].read = [f \in DOMAIN @ \cup {next} |-> IF f = next THEN disk[f] ELSE @[f]],
                        ![j].at = IF left = {next} THEN "validate" ELSE "read"]
  /\ UNCHANGED <<disk, locks, handoffs, backups, reported, faults>> /\ NoProvisioningBound

\* validateContextActorBindings: registry, policy and context ring agree on
\* the consumers.
BindingsAgree(j) ==
  LET consumers(f) == {e.actor : e \in {x \in job[j].read[f].entries : x.tool = "consumer"}} IN
  /\ consumers("auth") = consumers("policy")
  /\ consumers("auth") \subseteq consumers("context")

\* A principal is new in every file, or migrates and is in all of them.
Conflicts(j) ==
  LET has(f) == \E e \in job[j].read[f].entries : e.actor = j.actor IN
  CASE j.tool = "route" -> FALSE
    [] j.migrate -> \E f \in Range(Chain(j)) : ~has(f)
    [] OTHER -> \E f \in Range(Chain(j)) : has(f)

\* The consumer and the routes look again before they prepare anything.
Unchanged(j, f) == j.tool \in {"consumer", "route"} => disk[f] = job[j].read[f]

\* Validation, then backup, staged handoff and temporary files.
Prepare(j) ==
  /\ JobAt(j, "validate")
  /\ IF Conflicts(j) \/ (j.tool = "consumer" /\ ~BindingsAgree(j))
          \/ \E f \in Range(Chain(j)) : ~Unchanged(j, f)
       THEN JobEnds(j) /\ UNCHANGED backups
     ELSE /\ JobStep(j, "check")
          \* The lane takes its copies from the files, not from what it parsed.
          /\ backups' = [backups EXCEPT ![j] =
               IF j.tool = "lane" THEN [f \in DOMAIN job[j].read |-> disk[f]] ELSE job[j].read]
          /\ UNCHANGED locks
  /\ UNCHANGED <<disk, handoffs, reported, faults>> /\ NoProvisioningBound

(***************************************************************************)
(* Replacement, handoff and rollback                                       *)
(***************************************************************************)

\* assertUnchanged and assertManifestSnapshot
CheckFile(j) ==
  LET f == Chain(j)[job[j].replaced + 1] IN
  /\ JobAt(j, "check")
  /\ JobStep(j, IF Unchanged(j, f) THEN "replace" ELSE "rollback")
  /\ UNCHANGED <<disk, locks, handoffs, backups, reported, faults>> /\ NoProvisioningBound

ReplaceFile(j) ==
  LET f == Chain(j)[job[j].replaced + 1]
      n == job[j].replaced + 1
  IN
  /\ JobAt(j, "replace")
  /\ Write(f, With(j, job[j].read[f].entries), j.tool = "lane")
  /\ job' = [job EXCEPT ![j].replaced = n,
                        ![j].at = IF n < Len(Chain(j)) THEN "check" ELSE "handoff"]
  /\ UNCHANGED <<locks, handoffs, backups, reported, faults>> /\ NoProvisioningBound

\* The staged directory is renamed; a route has none.
PublishHandoff(j) ==
  /\ JobAt(j, "handoff")
  /\ handoffs' = IF j.tool = "route" THEN handoffs ELSE handoffs \cup {j}
  /\ JobStep(j, "finish")
  /\ UNCHANGED <<disk, locks, backups, reported, faults>> /\ NoProvisioningBound

Finish(j) ==
  /\ JobAt(j, "finish")
  /\ reported' = reported \cup {j}
  /\ JobEnds(j)
  /\ UNCHANGED <<disk, handoffs, backups, faults>> /\ NoProvisioningBound

\* An operation fails.  Before the first replacement there is nothing to undo,
\* and a published manifest is not taken back.
OperationFails(j) ==
  /\ job[j].at \in {"read", "validate", "check", "replace", "handoff", "finish"}
  /\ faults < MaxFaults /\ faults' = faults + 1
  /\ IF job[j].at \in {"read", "validate"} \/ j.tool = "route" THEN JobEnds(j)
     ELSE JobStep(j, "rollback") /\ UNCHANGED locks
  /\ UNCHANGED <<disk, handoffs, backups, reported>> /\ NoProvisioningBound

\* The handoff goes first; that may fail as any of the restores.
WithdrawHandoff(j) ==
  /\ JobAt(j, "rollback") /\ j.tool # "lane"
  /\ \/ handoffs' = handoffs \ {j} /\ UNCHANGED <<locks, faults>>
     \/ /\ j \in handoffs /\ faults < MaxFaults /\ faults' = faults + 1
        /\ locks' = [locks EXCEPT ![j.tool].failed = TRUE]
        /\ UNCHANGED handoffs
  /\ JobStep(j, "restore")
  /\ UNCHANGED <<disk, backups, reported>> /\ NoProvisioningBound

\* The replaced files in reverse order, each attempted whatever happened to
\* the others.
RestoreFile(j) ==
  LET n == job[j].replaced IN
  /\ JobAt(j, "restore") /\ n > 0
  /\ job' = [job EXCEPT ![j].replaced = n - 1]
  /\ \/ Write(Chain(j)[n], backups[j][Chain(j)[n]].entries, FALSE) /\ UNCHANGED <<locks, faults>>
     \/ /\ faults < MaxFaults /\ faults' = faults + 1
        /\ locks' = [locks EXCEPT ![j.tool].failed = TRUE]
        /\ UNCHANGED disk
  /\ UNCHANGED <<handoffs, backups, reported>> /\ NoProvisioningBound

\* Mutant: the lock is released although a restore failed.
EndRollbackUnlocked(j) ==
  /\ JobAt(j, "restore") /\ job[j].replaced = 0
  /\ JobEnds(j)
  /\ UNCHANGED <<disk, handoffs, backups, reported, faults>> /\ NoProvisioningBound

\* The lock is preserved when something was not restored.
EndRollback(j) ==
  /\ JobAt(j, "restore") /\ job[j].replaced = 0
  /\ IF locks[j.tool].failed THEN job' = [job EXCEPT ![j] = NotRunning] /\ UNCHANGED locks
     ELSE JobEnds(j)
  /\ UNCHANGED <<disk, handoffs, backups, reported, faults>> /\ NoProvisioningBound

\* The lane writes both files back, the registry first, then removes what it
\* made; the first failure ends it, and the lock goes whatever happened.
RestoreLane(j, at, f, next) ==
  /\ JobAt(j, at) /\ j.tool = "lane"
  /\ \/ Write(f, backups[j][f].entries, TRUE) /\ JobStep(j, next) /\ UNCHANGED <<locks, faults>>
     \/ /\ faults < MaxFaults /\ faults' = faults + 1
        /\ JobEnds(j) /\ UNCHANGED disk
  /\ UNCHANGED <<handoffs, backups, reported>> /\ NoProvisioningBound

EndLaneRollback(j) ==
  /\ JobAt(j, "cleanup")
  /\ handoffs' = handoffs \ {j}
  /\ JobEnds(j)
  /\ UNCHANGED <<disk, backups, reported, faults>> /\ NoProvisioningBound

\* The process is killed: the lock file stays.
Kill(j) ==
  /\ ~JobAt(j, "idle") /\ faults < MaxFaults /\ faults' = faults + 1
  /\ job' = [job EXCEPT ![j] = NotRunning]
  /\ UNCHANGED <<disk, locks, handoffs, backups, reported>> /\ NoProvisioningBound

\* What the documents ask of the operator who finds a lock: restore the files
\* from the backup, remove the handoff, then the lock.
Recover(j) ==
  /\ JobAt(j, "idle") /\ locks[j.tool].owner = j.id
  /\ disk' = [f \in Files |-> IF f \notin DOMAIN backups[j] THEN disk[f]
                              ELSE [ino |-> disk[f].ino + 1, entries |-> backups[j][f].entries]]
  /\ handoffs' = handoffs \ {j}
  /\ Unlock(j)
  /\ UNCHANGED <<job, backups, reported, faults>> /\ NoProvisioningBound

ProvisioningStep(j) ==
  \/ AcquireLock(j) \/ ReadFile(j) \/ Prepare(j)
  \/ CheckFile(j) \/ ReplaceFile(j) \/ PublishHandoff(j) \/ Finish(j)
  \/ OperationFails(j)
  \/ WithdrawHandoff(j) \/ RestoreFile(j) \/ EndRollback(j)
  \/ RestoreLane(j, "rollback", "auth", "restorePam") \/ RestoreLane(j, "restorePam", "pam", "cleanup")
  \/ EndLaneRollback(j)
  \/ Kill(j) \/ Recover(j)

ProvisioningNext == \E j \in Jobs : ProvisioningStep(j)
ProvisioningSpec == ProvisioningInit /\ [][ProvisioningNext]_provisioningVars

(***************************************************************************)
(* Properties                                                              *)
(***************************************************************************)

\* "Partial state cannot be retried as if it were clean": without a lock of its
\* tool, a collector or consumer is in all of its files or in none, and its
\* handoff is there only if it was provisioned.
PartialStateIsLocked ==
  \A j \in Jobs :
    j.tool \in {"collector", "consumer"} /\ locks[j.tool] = NoLock =>
      /\ \A f \in Range(Chain(j)) : j \in Entries(f) <=> j \in Entries("auth")
      /\ j \in handoffs => \E e \in Entries("auth") : e.actor = j.actor

\* The key ring and the policy are replaced "before activating the bearer in the
\* auth registry": whoever may authenticate has policy and key, in every state
\* but those a failed rollback leaves.
BearersAreBacked ==
  \A j \in Jobs : \A f \in Range(Chain(j)) :
    j.tool \in {"collector", "consumer"} /\ j \in Entries("auth") /\ ~locks[j.tool].failed
      => \E e \in Entries(f) : e.actor = j.actor

\* Both: one tool's files agree, and a bearer never runs ahead of them.
ProvisionedTogether == PartialStateIsLocked /\ BearersAreBacked

\* What was reported as provisioned stays, unless its principal migrates.
ReportedStays ==
  \A j \in reported :
    \/ \A f \in Range(Chain(j)) : j \in Entries(f)
    \/ \E k \in Jobs \ {j} : k.actor = j.actor

=============================================================================
