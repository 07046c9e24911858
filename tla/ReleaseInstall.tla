--------------------------- MODULE ReleaseInstall ---------------------------
(***************************************************************************)
(* Installing a release in place (deploy/amf-install-release.mjs).  Under a*)
(* lock directory the files of a release are extracted to a staging        *)
(* directory; every file they replace, every file only the previous release*)
(* had and the manifest are moved aside before the new ones are renamed    *)
(* into place.  A failing step puts everything back in reverse order; when *)
(* that fails too, or the process is killed, the lock and the staging      *)
(* directory stay for the operator.  The deployment root is chmod-ed once  *)
(* more at the end, whatever happened.  A file is its path and the release *)
(* its content is from; paths are numbered in the order of their names.    *)
(***************************************************************************)
EXTENDS Naturals, FiniteSets, Sequences

CONSTANTS
  Installers,       \* processes of the installer, one run each
  Releases,         \* releases, the first of which is installed
  ReleaseFiles,      \* paths of each release
  MaxReleaseFaults  \* bound: failed file operations and killed processes

ASSUME ReleaseAssumption ==
  /\ Releases \subseteq Nat \ {0} /\ 1 \in Releases
  /\ ReleaseFiles \in [Releases -> SUBSET (Nat \ {0})]
  /\ MaxReleaseFaults \in Nat

VARIABLES
  live,          \* release each path of the deployment root is from, 0: no file
  manifest,      \* release the manifest describes, 0: no manifest
  deployLock,    \* the installer whose lock directory exists
  stage,         \* staging directory of each installer: files moved aside
  installer,     \* the process of each installer
  releaseFaults

releaseVars == <<live, manifest, deployLock, stage, installer, releaseFaults>>

Paths == UNION {ReleaseFiles[r] : r \in Releases}
Manifest == 0    \* the path of the manifest in a staging directory
Listed(r) == IF r = 0 THEN {} ELSE ReleaseFiles[r]

NoStage == [exists |-> FALSE, aside |-> [p \in {Manifest} \cup Paths |-> 0]]
NotStarted == [at |-> "new", release |-> 1, todo |-> {}, stale |-> {}, journal |-> <<>>,
               failed |-> FALSE, outcome |-> "none", before |-> <<>>]

ReleaseInit ==
  /\ live = [p \in Paths |-> IF p \in ReleaseFiles[1] THEN 1 ELSE 0]
  /\ manifest = 1 /\ deployLock = {}
  /\ stage = [i \in Installers |-> NoStage]
  /\ installer = [i \in Installers |-> NotStarted]
  /\ releaseFaults = 0

IAt(i, step) == installer[i].at = step
IGoto(i, step) == installer' = [installer EXCEPT ![i].at = step]
Mishap == releaseFaults < MaxReleaseFaults /\ releaseFaults' = releaseFaults + 1
Tree == <<live, manifest>>
Least(set) == CHOOSE p \in set : \A q \in set : p <= q

TakeLock(i, r) ==
  /\ IAt(i, "new") /\ deployLock = {}
  /\ deployLock' = {i}
  /\ installer' = [installer EXCEPT ![i].at = "prepare", ![i].release = r]
  /\ UNCHANGED <<Tree, stage, releaseFaults>>

\* Everything before the first change: the archive is staged and checked, the
\* configuration saved, the previous manifest read.
PrepareRelease(i) ==
  /\ IAt(i, "prepare")
  /\ stage' = [stage EXCEPT ![i].exists = TRUE]
  /\ installer' =
       [installer EXCEPT ![i].at = "aside", ![i].todo = ReleaseFiles[installer[i].release],
                         ![i].stale = Listed(manifest) \ ReleaseFiles[installer[i].release],
                         ![i].before = Tree]
  /\ UNCHANGED <<Tree, deployLock, releaseFaults>>

PrepareFails(i) ==
  /\ IAt(i, "prepare") /\ Mishap
  /\ installer' = [installer EXCEPT ![i].at = "unlock", ![i].outcome = "failed"]
  /\ UNCHANGED <<Tree, deployLock, stage>>

\* A file is moved aside, if there is one, and recorded in the journal.
Entry(path, moved) == [path |-> path, moved |-> moved # 0, published |-> FALSE]
Aside(i, path, content, next) ==
  /\ stage' = [stage EXCEPT ![i].aside[path] = content]
  /\ installer' = [installer EXCEPT ![i].journal = Append(@, Entry(path, content)), ![i].at = next]

MoveAside(i) ==
  /\ IAt(i, "aside") /\ installer[i].todo # {}
  /\ LET p == Least(installer[i].todo)
     IN Aside(i, p, live[p], "publish") /\ live' = [live EXCEPT ![p] = 0]
  /\ UNCHANGED <<manifest, deployLock, releaseFaults>>

Published(i) == [installer[i] EXCEPT !.journal[Len(installer[i].journal)].published = TRUE]

PublishFile(i) ==
  /\ IAt(i, "publish")
  /\ LET p == Least(installer[i].todo)
     IN /\ live' = [live EXCEPT ![p] = installer[i].release]
        /\ installer' = [installer EXCEPT ![i] = [Published(i) EXCEPT !.todo = @ \ {p}, !.at = "aside"]]
  /\ UNCHANGED <<manifest, deployLock, stage, releaseFaults>>

\* chown of a published file fails: the journal knows that it was published.
PublishFailsLate(i) ==
  /\ IAt(i, "publish") /\ Mishap
  /\ live' = [live EXCEPT ![Least(installer[i].todo)] = installer[i].release]
  /\ installer' = [installer EXCEPT ![i] = [Published(i) EXCEPT !.at = "undo"]]
  /\ UNCHANGED <<manifest, deployLock, stage>>

MoveStale(i) ==
  /\ IAt(i, "aside") /\ installer[i].todo = {}
  /\ \E p \in installer[i].stale :
       /\ p = Least(installer[i].stale)
       /\ stage' = [stage EXCEPT ![i].aside[p] = live[p]]
       /\ live' = [live EXCEPT ![p] = 0]
       /\ installer' =
            [installer EXCEPT ![i].stale = @ \ {p},
                              ![i].journal = IF live[p] = 0 THEN @ ELSE Append(@, Entry(p, live[p]))]
  /\ UNCHANGED <<manifest, deployLock, releaseFaults>>

MoveManifest(i) ==
  /\ IAt(i, "aside") /\ installer[i].todo = {} /\ installer[i].stale = {}
  /\ Aside(i, Manifest, manifest, "manifest") /\ manifest' = 0
  /\ UNCHANGED <<live, deployLock, releaseFaults>>

PublishManifest(i) ==
  /\ IAt(i, "manifest")
  /\ manifest' = installer[i].release
  /\ installer' = [installer EXCEPT ![i] = [Published(i) EXCEPT !.at = "verify"]]
  /\ UNCHANGED <<live, deployLock, stage, releaseFaults>>

\* Root permissions, the identity of the persistent paths, empty directories.
Verify(i) ==
  /\ IAt(i, "verify")
  /\ installer' = [installer EXCEPT ![i].at = "root", ![i].outcome = "installed"]
  /\ UNCHANGED <<Tree, deployLock, stage, releaseFaults>>

PublishStepFails(i) ==
  /\ installer[i].at \in {"aside", "publish", "manifest", "verify"} /\ Mishap
  /\ IGoto(i, "undo")
  /\ UNCHANGED <<Tree, deployLock, stage>>

(***************************************************************************)
(* Going back through the journal.  A record whose restoration fails is    *)
(* left as it is and the next one tried.                                   *)
(***************************************************************************)
LastEntry(i) == installer[i].journal[Len(installer[i].journal)]
Put(path, content) ==
  IF path = Manifest THEN manifest' = content /\ UNCHANGED live
  ELSE live' = [live EXCEPT ![path] = content] /\ UNCHANGED manifest
Dropped(i) == [installer[i] EXCEPT !.journal = SubSeq(@, 1, Len(@) - 1), !.at = "undo"]

UndoPublish(i) ==
  /\ IAt(i, "undo") /\ installer[i].journal # <<>>
  /\ IF LastEntry(i).published THEN Put(LastEntry(i).path, 0) ELSE UNCHANGED Tree
  /\ IGoto(i, "putback")
  /\ UNCHANGED <<deployLock, stage, releaseFaults>>

PutBack(i) ==
  /\ IAt(i, "putback")
  /\ LET e == LastEntry(i)
     IN IF e.moved
        THEN Put(e.path, stage[i].aside[e.path]) /\ stage' = [stage EXCEPT ![i].aside[e.path] = 0]
        ELSE UNCHANGED <<Tree, stage>>
  /\ installer' = [installer EXCEPT ![i] = Dropped(i)]
  /\ UNCHANGED <<deployLock, releaseFaults>>

UndoFails(i) ==
  /\ installer[i].at \in {"undo", "putback"} /\ installer[i].journal # <<>> /\ Mishap
  /\ installer' = [installer EXCEPT ![i] = [Dropped(i) EXCEPT !.failed = TRUE]]
  /\ UNCHANGED <<Tree, deployLock, stage>>

RolledBack(i) ==
  /\ IAt(i, "undo") /\ installer[i].journal = <<>>
  /\ installer' = [installer EXCEPT ![i].at = "root",
                     ![i].outcome = IF installer[i].failed THEN "rollback_failed" ELSE "failed"]
  /\ UNCHANGED <<Tree, deployLock, stage, releaseFaults>>

\* The root is chmod-ed once more; its failure replaces the answer and leaves
\* the staging directory.  Otherwise that is removed unless the rollback failed.
Root(i) ==
  /\ IAt(i, "root") /\ IGoto(i, "unlock")
  /\ stage' = IF installer[i].failed THEN stage ELSE [stage EXCEPT ![i] = NoStage]
  /\ UNCHANGED <<Tree, deployLock, releaseFaults>>

RootFails(i) ==
  /\ IAt(i, "root") /\ Mishap
  /\ installer' = [installer EXCEPT ![i].at = "unlock", ![i].outcome = "root_failed"]
  /\ UNCHANGED <<Tree, deployLock, stage>>

\* Mutant: every run that ends releases the lock.
KeepsLockNever(i) == FALSE

KeepsLock(i) == installer[i].outcome = "rollback_failed"

UnlockDeploy(i) ==
  /\ IAt(i, "unlock") /\ IGoto(i, "ended")
  /\ deployLock' = IF KeepsLock(i) THEN deployLock ELSE {}
  /\ UNCHANGED <<Tree, stage, releaseFaults>>

KillInstaller(i) ==
  /\ installer[i].at \notin {"new", "ended"} /\ Mishap
  /\ installer' = [installer EXCEPT ![i].at = "ended", ![i].outcome = "killed"]
  /\ UNCHANGED <<Tree, deployLock, stage>>

\* The deployment root holds exactly the files of the release its manifest names.
IsRelease(tree) ==
  tree[2] # 0 /\ \A p \in Paths : tree[1][p] = IF p \in ReleaseFiles[tree[2]] THEN tree[2] ELSE 0
Whole == IsRelease(Tree)

\* The operator restores what a preserved staging directory holds and clears
\* the lock, as docs/deployment-procedure.md asks.
RecoverRelease(i) ==
  /\ i \in deployLock /\ IAt(i, "ended")
  /\ IF Whole \/ installer[i].before = <<>> THEN UNCHANGED Tree
     ELSE live' = installer[i].before[1] /\ manifest' = installer[i].before[2]
  /\ deployLock' = {} /\ stage' = [stage EXCEPT ![i] = NoStage]
  /\ UNCHANGED <<installer, releaseFaults>>

ReleaseNext ==
  \E i \in Installers :
    \/ \E r \in Releases : TakeLock(i, r)
    \/ PrepareRelease(i) \/ PrepareFails(i)
    \/ MoveAside(i) \/ PublishFile(i) \/ PublishFailsLate(i) \/ MoveStale(i)
    \/ MoveManifest(i) \/ PublishManifest(i) \/ Verify(i) \/ PublishStepFails(i)
    \/ UndoPublish(i) \/ PutBack(i) \/ UndoFails(i) \/ RolledBack(i)
    \/ Root(i) \/ RootFails(i) \/ UnlockDeploy(i) \/ KillInstaller(i) \/ RecoverRelease(i)

(***************************************************************************)
(* Properties                                                              *)
(***************************************************************************)

WholeOrLocked ==
  deployLock = {} =>
    Whole \/ \E i \in Installers : installer[i].failed /\ installer[i].outcome = "root_failed"

PreviousReleaseIsKept ==
  \A i \in Installers : i \in deployLock /\ installer[i].before # <<>> =>
    LET before == installer[i].before IN
    IsRelease(before) =>
      /\ IAt(i, "unlock") /\ installer[i].outcome = "failed" => Tree = before
      /\ ~Whole => \A p \in Paths :
           before[1][p] # 0 => before[1][p] \in {live[p], stage[i].aside[p]}

\* Without a lock the deployment root holds one whole release, the one its manifest
\* names, whatever failed and whoever was killed; only a failing chmod of the root
\* after a failed restoration gives a mixed tree away.  Over a whole release, a run
\* that says it failed without asking for recovery has changed nothing, and while
\* the tree is mixed every file of the previous release is in its place or in the
\* staging directory the operator is pointed to.
ReleaseIsSafe == WholeOrLocked /\ PreviousReleaseIsKept
=============================================================================
