---------------------------- MODULE BackfillLease ----------------------------
(***************************************************************************)
(* The lease file of transcript and migration backfills (BackfillLease of  *)
(* src/ingest/transcripts/backfill.mjs).  Processes race on one path with  *)
(* link, rename and unlink; every file system call is a step.  A lease file*)
(* is an inode: it keeps its content under whatever name it is moved to,   *)
(* and a holder keeps the inode open.                                      *)
(***************************************************************************)
EXTENDS Naturals, FiniteSets

CONSTANTS
  Processes,       \* processes running a backfill; a crash is final
  Hosts, HostOf,   \* the host each process runs on
  MaxAttempts,     \* bound: BackfillLease objects of each process
  None             \* no file, no content

ASSUME LeaseAssumption ==
  /\ HostOf \in [Processes -> Hosts]
  /\ MaxAttempts \in [Processes -> Nat \ {0}]
  /\ None \notin Processes \X Nat

VARIABLES
  path,            \* inode at leasePath, or None
  tomb,            \* inode at leasePath.stale.<nonce> for each nonce, or None
  readable,        \* inodes whose record is complete
  fresh,           \* inodes whose heartbeat is younger than staleMs
  pc,              \* where each process is
  attempt,         \* BackfillLease objects each process has constructed
  seen,            \* the owner a contender read, or None
  ident,           \* the inode a process bound, or None
  alive,           \* processes that run
  overlapped       \* history: a contender moved away a lease it had not read

leaseVars == <<path, tomb, readable, fresh, pc, attempt, seen, ident, alive, overlapped>>

\* An inode is made once by every attempt and carries that attempt's nonce.
Inodes == UNION {{p} \X (1..MaxAttempts[p]) : p \in Processes}
Mine(p) == <<p, attempt[p]>>
Owner(inode) == inode[1]

LeaseInit ==
  /\ path = None
  /\ tomb = [i \in Inodes |-> None]
  /\ readable = {} /\ fresh = {}
  /\ pc = [p \in Processes |-> "idle"]
  /\ attempt = [p \in Processes |-> 0]
  /\ seen = [p \in Processes |-> None]
  /\ ident = [p \in Processes |-> None]
  /\ alive = Processes
  /\ overlapped = FALSE

LeaseAt(p, step) == p \in alive /\ pc[p] = step
LeaseGoto(p, step) == pc' = [pc EXCEPT ![p] = step]
LeaseFilesUnchanged == UNCHANGED <<path, tomb, readable, fresh>>
SelfUnchanged == UNCHANGED <<attempt, seen, ident, alive, overlapped>>

\* The call throws: the process gives up this lease object.
GiveUp(p) == LeaseGoto(p, "idle") /\ ident' = [ident EXCEPT ![p] = None]

(***************************************************************************)
(* acquire                                                                 *)
(***************************************************************************)

StartAcquire(p) ==
  /\ LeaseAt(p, "idle")
  /\ attempt[p] < MaxAttempts[p]
  /\ attempt' = [attempt EXCEPT ![p] = @ + 1]
  /\ LeaseGoto(p, "create")
  /\ LeaseFilesUnchanged /\ UNCHANGED <<seen, ident, alive, overlapped>>

\* A complete record, written to a temporary file, is linked to the path.
LinkMine(p) ==
  /\ path' = Mine(p)
  /\ readable' = readable \cup {Mine(p)}
  /\ fresh' = fresh \cup {Mine(p)}
  /\ UNCHANGED tomb

Create(p) ==
  /\ LeaseAt(p, "create")
  /\ IF path = None
     THEN LeaseGoto(p, "bind") /\ LinkMine(p)
     ELSE LeaseGoto(p, "read") /\ LeaseFilesUnchanged
  /\ SelfUnchanged

\* bindAcquiredLease: the file at the path must hold this owner's record.
Bind(p) ==
  \/ /\ LeaseAt(p, "bind")
     /\ IF path = Mine(p)
        THEN LeaseGoto(p, "working") /\ ident' = [ident EXCEPT ![p] = path]
        ELSE GiveUp(p)
     /\ LeaseFilesUnchanged /\ UNCHANGED <<attempt, seen, alive, overlapped>>
  \/ /\ LeaseAt(p, "rebind")
     /\ IF path = Mine(p)
        THEN LeaseGoto(p, "cleanHeld") /\ ident' = [ident EXCEPT ![p] = path]
        ELSE LeaseGoto(p, "cleanLost") /\ UNCHANGED ident
     /\ LeaseFilesUnchanged /\ UNCHANGED <<attempt, seen, alive, overlapped>>

\* Mutant: a stale heartbeat is enough, the owner may be alive.
MayTakeOverStale(p, inode) == inode \notin fresh

\* The record is stale, of this host, and of a process that does not run.
MayTakeOver(p, inode) ==
  /\ inode \notin fresh
  /\ HostOf[Owner(inode)] = HostOf[p]
  /\ Owner(inode) \notin alive

\* An absent or incomplete record is invalid; a lease that may not be taken
\* over is held.
ReadExisting(p) ==
  /\ LeaseAt(p, "read")
  /\ IF path # None /\ path \in readable /\ MayTakeOver(p, path)
     THEN LeaseGoto(p, "rename") /\ seen' = [seen EXCEPT ![p] = path] /\ UNCHANGED ident
     ELSE GiveUp(p) /\ UNCHANGED seen
  /\ LeaseFilesUnchanged /\ UNCHANGED <<attempt, alive, overlapped>>

\* renameSync moves whatever is at the path by now.
Rename(p) ==
  /\ LeaseAt(p, "rename")
  /\ IF path = None
     THEN GiveUp(p) /\ LeaseFilesUnchanged /\ UNCHANGED overlapped
     ELSE /\ tomb' = [tomb EXCEPT ![seen[p]] = path]
          /\ path' = None
          /\ overlapped' = (overlapped \/ path # seen[p])
          /\ LeaseGoto(p, "compare")
          /\ UNCHANGED <<readable, fresh, ident>>
  /\ UNCHANGED <<attempt, seen, alive>>

CompareMoved(p) ==
  LET moved == tomb[seen[p]] IN
  /\ LeaseAt(p, "compare")
  /\ \/ /\ moved = None \/ moved \notin readable      \* backfill_lease_invalid
        /\ LeaseGoto(p, "cleanLost")
     \/ /\ moved # None /\ moved \in readable /\ moved # seen[p]
        /\ LeaseGoto(p, "restore")
     \/ /\ moved # None /\ moved \in readable /\ moved = seen[p]
        /\ LeaseGoto(p, "recreate")
  /\ LeaseFilesUnchanged /\ SelfUnchanged

\* linkSync(tombstone, leasePath): a path taken in the meantime is left alone,
\* a tombstone removed in the meantime fails the call.
Restore(p) ==
  /\ LeaseAt(p, "restore")
  /\ path' = IF path = None THEN tomb[seen[p]] ELSE path
  /\ LeaseGoto(p, "cleanLost")
  /\ UNCHANGED <<tomb, readable, fresh>> /\ SelfUnchanged

Recreate(p) ==
  /\ LeaseAt(p, "recreate")
  /\ IF path = None
     THEN LeaseGoto(p, "rebind") /\ LinkMine(p)
     ELSE LeaseGoto(p, "cleanLost") /\ LeaseFilesUnchanged
  /\ SelfUnchanged

\* The finally block removes the tombstone by name.
Clean(p) ==
  /\ p \in alive /\ pc[p] \in {"cleanHeld", "cleanLost"}
  /\ tomb' = [tomb EXCEPT ![seen[p]] = None]
  /\ IF pc[p] = "cleanHeld" THEN LeaseGoto(p, "working") /\ UNCHANGED ident ELSE GiveUp(p)
  /\ UNCHANGED <<path, readable, fresh, attempt, seen, alive, overlapped>>

(***************************************************************************)
(* heartbeat and release                                                   *)
(***************************************************************************)

\* assertPathIdentity, then the open file is truncated ...
Heartbeat(p) ==
  /\ LeaseAt(p, "working")
  /\ IF path = ident[p]
     THEN /\ LeaseGoto(p, "torn") /\ readable' = readable \ {ident[p]}
          /\ UNCHANGED <<path, tomb, fresh, ident>>
     ELSE GiveUp(p) /\ LeaseFilesUnchanged
  /\ UNCHANGED <<attempt, seen, alive, overlapped>>

\* ... and written anew.
WriteHeartbeat(p) ==
  /\ LeaseAt(p, "torn")
  /\ readable' = readable \cup {ident[p]}
  /\ fresh' = fresh \cup {ident[p]}
  /\ LeaseGoto(p, "working")
  /\ UNCHANGED <<path, tomb>> /\ SelfUnchanged

ReleaseLease(p) ==
  /\ LeaseAt(p, "working")
  /\ IF path = ident[p] THEN LeaseGoto(p, "unlink") /\ UNCHANGED ident ELSE GiveUp(p)
  /\ LeaseFilesUnchanged /\ UNCHANGED <<attempt, seen, alive, overlapped>>

\* rmSync(leasePath) removes whatever is at the path by now.
Unlink(p) ==
  /\ LeaseAt(p, "unlink")
  /\ path' = None
  /\ GiveUp(p)
  /\ UNCHANGED <<tomb, readable, fresh, attempt, seen, alive, overlapped>>

\* The heartbeat of a lease becomes older than staleMs, its owner alive or not.
Age(inode) ==
  /\ inode \in fresh
  /\ fresh' = fresh \ {inode}
  /\ UNCHANGED <<path, tomb, readable, pc>> /\ SelfUnchanged

LeaseCrash(p) ==
  /\ p \in alive
  /\ Cardinality(alive) > 1
  /\ alive' = alive \ {p}
  /\ LeaseGoto(p, "idle")
  /\ LeaseFilesUnchanged /\ UNCHANGED <<attempt, seen, ident, overlapped>>

ProcessStep(p) ==
  \/ Create(p) \/ Bind(p) \/ ReadExisting(p) \/ Rename(p) \/ CompareMoved(p) \/ Restore(p)
  \/ Recreate(p) \/ Clean(p) \/ WriteHeartbeat(p) \/ Unlink(p)

\* Every process has used up its attempts.
Finished ==
  /\ \A p \in alive : pc[p] = "idle" /\ attempt[p] = MaxAttempts[p]
  /\ UNCHANGED leaseVars

LeaseNext ==
  \/ \E p \in Processes :
       ProcessStep(p) \/ StartAcquire(p) \/ Heartbeat(p) \/ ReleaseLease(p) \/ LeaseCrash(p)
  \/ \E i \in Inodes : Age(i)
  \/ Finished

LeaseSpec == LeaseInit /\ [][LeaseNext]_leaseVars

(***************************************************************************)
(* Properties                                                              *)
(***************************************************************************)

\* The process goes on with the backfill under its lease.
HoldsLease(p) == p \in alive /\ pc[p] \in {"cleanHeld", "working", "torn", "unlink"}

\* Two processes never run the backfill under one lease path, and a lease is
\* taken from a dead owner only
\* (scripts/test-transcript-adapters.mjs:653, README.md:295).
MutualExclusion == \A p, q \in Processes : (HoldsLease(p) /\ HoldsLease(q)) => p = q

\* The only way to two holders is a contender that moved away a lease it had
\* not read: until that happens a holder's own file is at the path, through
\* every crash, takeover, heartbeat and release.
HolderIsAtPath == ~overlapped => \A p \in Processes : HoldsLease(p) => path = ident[p]

=============================================================================
