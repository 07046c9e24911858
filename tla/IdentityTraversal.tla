-------------------------- MODULE IdentityTraversal --------------------------
(***************************************************************************)
(* The cross-phase identity traversal                                      *)
(* (src/migration/m4-cross-phase-identity-traversal-*.mjs,                 *)
(* m4-cross-phase-identity-streaming-writer.mjs and the operator command   *)
(* around them): a run reads every logical group of the catalog, records   *)
(* its result in a traversal store, accepts identity blocks into a spool,  *)
(* seals the spool into pages and publishes a root artifact.  A run may    *)
(* stop anywhere; the next one reads the catalog from the start, compares  *)
(* what it reads with the store, and goes on.                              *)
(*                                                                         *)
(* A group is Excluded or the identity block it is accepted with; a page   *)
(* holds one block.  The lease is that of BackfillLease; it may be lost to *)
(* another run while its holder is at work.                                *)
(***************************************************************************)
EXTENDS Naturals, Sequences

CONSTANTS
  Runners,             \* processes that run the command
  Catalogs,            \* contents the catalog may have, group by group
  Baseline,            \* the content the signed baseline attests
  BatchSize,           \* EXCLUDED_COMMIT_BATCH_SIZE
  MaxDisturbances      \* bound: crashes, changes of the catalog and leases lost

Excluded == "excluded"
NoRunner == "no runner"

Blocks == (UNION {{c[n] : n \in DOMAIN c} : c \in Catalogs}) \ {Excluded}

\* A block names its logical message, which is one group of the catalog.
ASSUME TraversalAssumption ==
  /\ Catalogs \subseteq Seq(Blocks \cup {Excluded})
  /\ Baseline \in Catalogs /\ Baseline # <<>>
  /\ \A m, n \in DOMAIN Baseline : Baseline[m] = Baseline[n] => m = n \/ Baseline[m] = Excluded
  /\ NoRunner \notin Runners
  /\ BatchSize \in Nat \ {0}
  /\ MaxDisturbances \in Nat

VARIABLES
  groups,              \* the catalog
  holder,              \* the run whose lease is at the lease path
  store,               \* the traversal store: results so far, complete or not
  spool,               \* the writer's database: blocks accepted, seal
  pageNames,           \* directory entries of each page: 0, 1 or 2
  root,                \* the published artifact: directory entries and blocks
  runner,              \* what each run is at and has read; the group at hand
  stops, drifts, displacements

traversalFiles == <<store, spool, pageNames, root>>
traversalVars == <<groups, holder, traversalFiles, runner, stops, drifts, displacements>>

\* The blocks of the accepted ones among some results, in their order.
Accepted(results) ==
  LET upTo[n \in 0..Len(results)] ==
        IF n = 0 THEN <<>>
        ELSE IF results[n] = Excluded THEN upTo[n - 1] ELSE Append(upTo[n - 1], results[n])
  IN  upTo[Len(results)]

NoRun == [pc |-> "idle", persisted |-> <<>>, complete |-> FALSE, seen |-> <<>>,
          batch |-> <<>>, group |-> Excluded, writer |-> FALSE, sealed |-> FALSE,
          orphan |-> FALSE, next |-> {}, then |-> "idle", page |-> 1]

TraversalInit ==
  /\ groups = Baseline
  /\ holder = NoRunner
  /\ store = [results |-> <<>>, complete |-> FALSE]
  /\ spool = [blocks |-> <<>>, seal |-> "none"]
  /\ pageNames = [b \in Blocks |-> 0]
  /\ root = [names |-> 0, blocks |-> <<>>]
  /\ runner = [r \in Runners |-> NoRun]
  /\ stops = 0 /\ drifts = 0 /\ displacements = 0

MayDisturb == stops + drifts + displacements < MaxDisturbances

RunAt(r, step) == runner[r].pc = step
RunGoes(r, step) == runner' = [runner EXCEPT ![r].pc = step]
BoundsUnchanged == UNCHANGED <<groups, stops, drifts, displacements>>
OnlyRun == UNCHANGED <<holder, traversalFiles>> /\ BoundsUnchanged

\* The run is over, one way or the other: the lease is released if it is held.
RunEnds(r) ==
  /\ runner' = [runner EXCEPT ![r] = NoRun]
  /\ holder' = IF holder = r THEN NoRunner ELSE holder

RunFails(r) == RunEnds(r) /\ UNCHANGED traversalFiles /\ BoundsUnchanged

(***************************************************************************)
(* Lease, store and attestation                                            *)
(***************************************************************************)

\* The lease is free or its owner does not run.
StartRun(r) ==
  /\ RunAt(r, "idle")
  /\ IF holder = NoRunner THEN TRUE ELSE runner[holder].pc = "idle"
  /\ holder' = r
  /\ RunGoes(r, "load")
  /\ UNCHANGED traversalFiles /\ BoundsUnchanged

\* The lease of a run at work goes to another one.
Displace(r) ==
  /\ RunAt(r, "idle")
  /\ holder # NoRunner /\ MayDisturb
  /\ runner[holder].pc # "idle"
  /\ holder' = r
  /\ RunGoes(r, "load")
  /\ displacements' = displacements + 1
  /\ UNCHANGED <<traversalFiles, groups, stops, drifts>>

\* Opening the store removes the temporary files it finds, those of another run
\* included.
LoadStore(r) ==
  /\ RunAt(r, "load")
  /\ runner' = [q \in Runners |->
       IF q = r THEN [runner[r] EXCEPT !.pc = "attest", !.persisted = store.results,
                                       !.complete = store.complete]
       ELSE [runner[q] EXCEPT !.next = {}]]
  /\ OnlyRun

\* The catalog still has the content the baseline attests.
Attest(r, step, following) ==
  /\ RunAt(r, step)
  /\ IF groups = Baseline /\ (step = "attestSeal" => holder = r)
     THEN RunGoes(r, following) /\ OnlyRun
     ELSE RunFails(r)

(***************************************************************************)
(* The groups of the catalog                                               *)
(***************************************************************************)

\* Blocks in the spool beyond those the store knows of: none, or the one of a run
\* that stopped between the two writes.
Ahead(r) == Len(spool.blocks) - Len(Accepted(runner[r].persisted))
SpoolFits(r) ==
  /\ Len(spool.blocks) >= Len(Accepted(runner[r].persisted)) /\ Ahead(r) <= 1
  /\ spool.seal # "none" => runner[r].complete /\ Ahead(r) = 0

\* The chain of results read so far is the stored one.
PrefixMatches(r, read) == read = runner[r].persisted

\* A group the store already has is compared; with the last of them the spool is
\* opened and compared.
RereadGroup(r, read) ==
  LET me == runner[r] IN
  /\ Len(read) <= Len(me.persisted)
  /\ IF Len(read) < Len(me.persisted)
     THEN runner' = [runner EXCEPT ![r].seen = read] /\ OnlyRun
     ELSE IF PrefixMatches(r, read) /\ (Accepted(me.persisted) = <<>> \/ SpoolFits(r))
     THEN /\ runner' = [runner EXCEPT ![r] =
               IF Accepted(me.persisted) = <<>> THEN [me EXCEPT !.seen = read]
               ELSE [me EXCEPT !.seen = read, !.writer = TRUE,
                               !.sealed = (spool.seal = "sealed"),
                               !.orphan = (Ahead(r) = 1)]]
          /\ OnlyRun
     ELSE RunFails(r)

\* Mutant: the excluded groups before an accepted one are recorded later.
AcceptGroupAtOnce(r, read, g) ==
  runner' = [runner EXCEPT ![r] =
    [runner[r] EXCEPT !.seen = read, !.group = g, !.pc = "accept"]]

\* An accepted group waits until the excluded ones before it are recorded.
AcceptGroup(r, read, g) ==
  runner' = [runner EXCEPT ![r] =
    [runner[r] EXCEPT !.seen = read, !.group = g,
                      !.pc = IF runner[r].batch = <<>> THEN "accept" ELSE "flush"]]

NewGroup(r, read, g) ==
  LET me == runner[r]
      batch == Append(me.batch, g)
  IN /\ Len(read) > Len(me.persisted)
     /\ IF g = Excluded
        THEN IF me.orphan THEN RunFails(r)
             ELSE /\ runner' = [runner EXCEPT ![r] =
                       [me EXCEPT !.seen = read, !.batch = batch, !.group = Excluded,
                                  !.then = "scan",
                                  !.pc = IF Len(batch) = BatchSize THEN "flush" ELSE "scan"]]
                  /\ OnlyRun
        ELSE AcceptGroup(r, read, g) /\ OnlyRun

\* The source yields the next group as the catalog has it now; every group
\* renews the lease, and a group beyond the baseline's count ends the run.
TakeGroup(r) ==
  LET n == Len(runner[r].seen) + 1 IN
  /\ RunAt(r, "scan")
  /\ n <= Len(groups)
  /\ IF holder # r \/ n > Len(Baseline) THEN RunFails(r)
     ELSE LET read == Append(runner[r].seen, groups[n])
          IN RereadGroup(r, read) \/ NewGroup(r, read, groups[n])

\* What was read in all is what the baseline attests, or the source fails; then
\* the last excluded groups are recorded.
EndOfCatalog(r) ==
  LET me == runner[r] IN
  /\ RunAt(r, "scan")
  /\ Len(me.seen) >= Len(groups)
  /\ IF me.seen = Baseline /\ ~me.orphan /\ Len(me.persisted) <= Len(me.seen)
     THEN /\ runner' = [runner EXCEPT ![r] =
               [me EXCEPT !.then = "complete",
                          !.pc = IF me.batch = <<>> THEN "complete" ELSE "flush"]]
          /\ OnlyRun
     ELSE RunFails(r)

\* The store reads its file, checks the sequence, writes a temporary file ...
RecordResults(r, first, entries, following) ==
  LET last == Len(store.results) IN
  CASE store.complete \/ first \notin {last, last + 1} -> RunFails(r)
    [] ~store.complete /\ first = last ->
         IF Len(entries) = 1 /\ following = "committed" /\ store.results[last] = entries[1]
         THEN RunGoes(r, "scan") /\ OnlyRun
         ELSE RunFails(r)
    [] ~store.complete /\ first = last + 1 ->
         /\ runner' = [runner EXCEPT ![r] =
              [runner[r] EXCEPT !.pc = "rename", !.then = following, !.batch = <<>>,
                 !.next = {[results |-> store.results \o entries, complete |-> FALSE]}]]
         /\ OnlyRun

\* commitExcludedBatch
Flush(r) ==
  LET me == runner[r]
      last == IF me.group = Excluded THEN Len(me.seen) ELSE Len(me.seen) - 1
  IN /\ RunAt(r, "flush")
     /\ RecordResults(r, last - Len(me.batch) + 1, me.batch,
               IF me.group = Excluded THEN me.then ELSE "accept")

\* ... and renames it into place.
RenameStore(r) ==
  LET me == runner[r] IN
  /\ RunAt(r, "rename")
  /\ IF me.next = {} THEN RunFails(r)
     ELSE /\ store' = CHOOSE s \in me.next : TRUE
          /\ runner' = [runner EXCEPT ![r] =
               [me EXCEPT !.next = {},
                          !.pc = IF me.then = "committed" THEN "scan" ELSE me.then]]
          /\ UNCHANGED <<holder, spool, pageNames, root>> /\ BoundsUnchanged

HasBlock(b) == \E n \in DOMAIN spool.blocks : spool.blocks[n] = b

\* The writer is opened with the first accepted group; one transaction keeps the
\* block, and only the orphan of a stopped run may be there already.
AcceptBlock(r) ==
  LET me == runner[r]
      orphan == IF me.writer THEN me.orphan ELSE Ahead(r) = 1
  IN /\ RunAt(r, "accept")
     /\ IF \/ ~me.writer /\ (spool.seal # "none" \/ ~SpoolFits(r))
           \/ spool.seal # "none" \/ orphan # HasBlock(me.group)
        THEN \* a second run may have left a block the failed call adds
             /\ RunEnds(r)
             /\ spool' = IF /\ spool.seal = "none" /\ ~HasBlock(me.group)
                            /\ (me.writer \/ SpoolFits(r))
                         THEN [spool EXCEPT !.blocks = Append(@, me.group)] ELSE spool
             /\ UNCHANGED <<store, pageNames, root>> /\ BoundsUnchanged
        ELSE /\ spool' = IF orphan THEN spool
                         ELSE [spool EXCEPT !.blocks = Append(@, me.group)]
             /\ runner' = [runner EXCEPT ![r] =
                  [me EXCEPT !.writer = TRUE, !.orphan = FALSE, !.pc = "commit"]]
             /\ UNCHANGED <<holder, store, pageNames, root>> /\ BoundsUnchanged

\* commit
CommitGroup(r) ==
  LET me == runner[r] IN
  /\ RunAt(r, "commit")
  /\ RecordResults(r, Len(me.seen), <<me.group>>, "committed")

(***************************************************************************)
(* Completion, seal and publication                                        *)
(***************************************************************************)

\* complete: all groups are recorded; a complete store answers again.
CompleteStore(r) ==
  LET me == runner[r] IN
  /\ RunAt(r, "complete")
  /\ \/ /\ Len(store.results) # Len(Baseline) /\ RunFails(r)
     \/ /\ Len(store.results) = Len(Baseline)
        /\ runner' = [runner EXCEPT ![r] =
             IF store.complete
             THEN [me EXCEPT !.pc = "attestPost", !.persisted = store.results]
             ELSE [me EXCEPT !.pc = "rename", !.then = "attestPost",
                             !.persisted = store.results,
                             !.next = {[store EXCEPT !.complete = TRUE]}]]
        /\ OnlyRun

\* The signed coverage is what the spool holds.
CoversRecord(r) == Len(spool.blocks) = Len(Accepted(runner[r].persisted))

\* The completion is signed and the seal intent kept in one transaction; nothing
\* accepted needs no seal.
SealIntent(r) ==
  LET me == runner[r] IN
  /\ RunAt(r, "seal")
  /\ IF Accepted(me.persisted) = <<>>
     THEN IF holder = r /\ ~me.writer THEN RunGoes(r, "attestSeal") /\ OnlyRun ELSE RunFails(r)
     ELSE IF holder # r \/ ~me.writer \/ ~CoversRecord(r) THEN RunFails(r)
     ELSE IF me.sealed THEN RunGoes(r, "attestSeal") /\ OnlyRun
     ELSE /\ spool' = IF spool.seal = "none" THEN [spool EXCEPT !.seal = "intent"] ELSE spool
          /\ RunGoes(r, "link")
          /\ UNCHANGED <<holder, store, pageNames, root>> /\ BoundsUnchanged

PageBlock(r) == spool.blocks[runner[r].page]
HasPage(r) == runner[r].page <= Len(spool.blocks)

\* writePage: the temporary file is linked to the page's name.  A page that is
\* there is read, which wants a file of one name, and must be the same.
LinkPage(r) ==
  /\ RunAt(r, "link") /\ HasPage(r)
  /\ CASE pageNames[PageBlock(r)] = 0 ->
            /\ pageNames' = [pageNames EXCEPT ![PageBlock(r)] = 2]
            /\ RunGoes(r, "unlink")
            /\ UNCHANGED <<holder, store, spool, root>> /\ BoundsUnchanged
       [] pageNames[PageBlock(r)] = 1 ->
            runner' = [runner EXCEPT ![r].page = @ + 1] /\ OnlyRun
       [] pageNames[PageBlock(r)] = 2 -> RunFails(r)

\* The temporary name is removed.
UnlinkPage(r) ==
  /\ RunAt(r, "unlink")
  /\ pageNames' = [pageNames EXCEPT ![PageBlock(r)] = 1]
  /\ runner' = [runner EXCEPT ![r].pc = "link", ![r].page = @ + 1]
  /\ UNCHANGED <<holder, store, spool, root>> /\ BoundsUnchanged

\* The sealed result is kept once every page is acknowledged.
FinishSeal(r) ==
  /\ RunAt(r, "link") /\ ~HasPage(r)
  /\ spool' = [spool EXCEPT !.seal = "sealed"]
  /\ RunGoes(r, "attestSeal")
  /\ UNCHANGED <<holder, store, pageNames, root>> /\ BoundsUnchanged

\* publish: every page is verified and the root is linked; one that is there ends
\* the run and stays as it is.
Publish(r) ==
  LET blocks == IF runner[r].writer THEN spool.blocks ELSE <<>> IN
  /\ RunAt(r, "publish")
  /\ IF \/ holder # r \/ root.names > 0
        \/ \E n \in DOMAIN blocks : pageNames[blocks[n]] # 1
     THEN RunFails(r)
     ELSE /\ root' = [names |-> 2, blocks |-> blocks]
          /\ RunGoes(r, "unlinkRoot")
          /\ UNCHANGED <<holder, store, spool, pageNames>> /\ BoundsUnchanged

UnlinkRoot(r) ==
  /\ RunAt(r, "unlinkRoot")
  /\ root' = [root EXCEPT !.names = 1]
  /\ RunEnds(r)
  /\ UNCHANGED <<store, spool, pageNames>> /\ BoundsUnchanged

(***************************************************************************)
(* Faults                                                                  *)
(***************************************************************************)

\* The process dies; its lease stays at the path.
StopRun(r) ==
  /\ runner[r].pc # "idle" /\ MayDisturb
  /\ stops' = stops + 1
  /\ runner' = [runner EXCEPT ![r] = NoRun]
  /\ UNCHANGED <<holder, traversalFiles, groups, drifts, displacements>>

\* An event is ingested or withdrawn.
Drift ==
  /\ MayDisturb
  /\ drifts' = drifts + 1
  /\ \E c \in Catalogs \ {groups} : groups' = c
  /\ UNCHANGED <<holder, traversalFiles, runner, stops, displacements>>

RunStep(r) ==
  \/ LoadStore(r) \/ Attest(r, "attest", "scan") \/ TakeGroup(r) \/ EndOfCatalog(r)
  \/ Flush(r) \/ RenameStore(r) \/ AcceptBlock(r) \/ CommitGroup(r) \/ CompleteStore(r)
  \/ Attest(r, "attestPost", "seal") \/ SealIntent(r) \/ LinkPage(r) \/ UnlinkPage(r)
  \/ FinishSeal(r) \/ Attest(r, "attestSeal", "publish") \/ Publish(r) \/ UnlinkRoot(r)

TraversalNext ==
  \/ \E r \in Runners : StartRun(r) \/ Displace(r) \/ RunStep(r) \/ StopRun(r)
  \/ Drift

TraversalSpec == TraversalInit /\ [][TraversalNext]_traversalVars

(***************************************************************************)
(* Properties                                                              *)
(***************************************************************************)

\* The published artifact names exactly the blocks of the attested catalog, in
\* order, and every page of it exists: through crashes at every step, through a
\* catalog that changes and changes back between two reads, and through runs that
\* lost their lease and kept writing (but not through the last two together: the
\* record a run completes is compared with the baseline by its counts only).
PublishedIsCovered ==
  (root.names > 0 /\ (drifts = 0 \/ displacements = 0)) =>
    /\ root.blocks = Accepted(Baseline)
    /\ \A n \in DOMAIN root.blocks : pageNames[root.blocks[n]] > 0

\* A run that stopped anywhere left files the next one accepts: the results are a
\* prefix of the baseline, the spool has their blocks or the next one more, and
\* it is closed only when the traversal is complete
\* (docs/m4-cross-phase-identity-traversal-operator-v1.md:42).
InterruptedRunResumes ==
  (drifts = 0 /\ displacements = 0) =>
    LET n == Len(store.results)
        blocks == Accepted(store.results)
    IN /\ n <= Len(Baseline) /\ store.results = SubSeq(Baseline, 1, n)
       /\ \/ spool.blocks = blocks
          \/ n < Len(Baseline) /\ spool.blocks = Append(blocks, Baseline[n + 1])
       /\ spool.seal # "none" => store.complete
       /\ root.names > 0 => spool.seal = "sealed" \/ blocks = <<>>

\* Both: a traversal that was interrupted is taken up again, and publishes the
\* catalog it was confirmed for.
TraversalIsFaithful == PublishedIsCovered /\ InterruptedRunResumes

=============================================================================
