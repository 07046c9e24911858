---------------------------- MODULE HostCatalog -----------------------------
(***************************************************************************)
(* The catalog of a host's files (src/host-file-catalog.mjs): a scan is    *)
(* done in batches, each of them one transaction over the queue of paths   *)
(* to visit, the inventory, the searchable texts and the coverage.  The    *)
(* directories being listed stay open between the batches, in memory only. *)
(* Other processes change the disk between any two steps of a batch.       *)
(***************************************************************************)
EXTENDS Naturals, Sequences, FiniteSets, Functions

CONSTANTS
  RootPath,
  Children,         \* directories to the sequences of what they may hold
  MaxEntries,       \* maxDirectoryEntries of the policy
  EarlierFiles,     \* what a generation before this one found, when there was no path index
  MaxDiskChanges,   \* bound: changes of the disk
  MaxCatalogScans,  \* bound: generations
  MaxCatalogFaults  \* bound: batches rolled back and processes killed

Directories == DOMAIN Children
HostPaths == {RootPath} \cup UNION {Range(Children[d]) : d \in Directories}
HolderOf(p) == CHOOSE d \in Directories : p \in Range(Children[d])
\* A path and what it is in; two levels below the root are enough.
Above(p) ==
  IF p = RootPath THEN {p}
  ELSE IF HolderOf(p) = RootPath THEN {p, RootPath}
  ELSE {p, HolderOf(p), RootPath}

CONSTANT PathOrder  \* the paths in binary order
Rank(p) == CHOOSE i \in 1..Len(PathOrder) : PathOrder[i] = p

ASSUME CatalogAssumption ==
  /\ PathOrder \in Seq(HostPaths) /\ Range(PathOrder) = HostPaths
  /\ RootPath \in Directories
  /\ \A d \in Directories :
       /\ Children[d] \in Seq(HostPaths \ {RootPath})
       /\ d = RootPath \/ d \in Range(Children[RootPath])
       /\ \A e \in Directories \ {d} : Range(Children[d]) \cap Range(Children[e]) = {}
  /\ EarlierFiles \subseteq SUBSET HostPaths
  /\ MaxEntries \in Nat \ {0} /\ MaxDiskChanges \in Nat /\ MaxCatalogScans \in Nat
  /\ MaxCatalogFaults \in Nat

VARIABLES
  onDisk,    \* path -> is it there, may it be opened, and its version; an odd version is
             \* text, an even one holds something that looks like a secret
  database,  \* what is committed
  batch,     \* the open transaction: what it has written, and the entry to visit next
  listings,  \* open directories: task -> entries to come and to skip
  catalogFaults

catalogVars == <<onDisk, database, batch, listings, catalogFaults>>

NoBatch == [open |-> FALSE]
IsText(version) == version % 2 = 1
Row(version, state, generation) ==
  [signature |-> version, state |-> state, generation |-> generation]

CatalogInit ==
  /\ onDisk = [p \in HostPaths |-> [there |-> TRUE, allowed |-> TRUE, version |-> 1]]
  /\ \E earlier \in EarlierFiles :
       database = [generation |-> 1, phase |-> "complete", queue |-> {},
                   files |-> [p \in earlier |->
                     Row(1, IF p \in Directories THEN "metadata-only" ELSE "indexed", 1)],
                   texts |-> {<<p, 1>> : p \in earlier \ Directories}, coverage |-> {},
                   keys |-> {}, cursor |-> 0, indexed |-> FALSE, touched |-> HostPaths]
  /\ batch = NoBatch /\ listings = <<>> /\ catalogFaults = 0

(***************************************************************************)
(* Tasks.  The queue is a table whose key is an id, and a new id is one    *)
(* more than the largest that is still queued.                             *)
(***************************************************************************)
NextId(queue) ==
  IF queue = {} THEN 1
  ELSE 1 + (CHOOSE t \in queue : \A u \in queue : u.id <= t.id).id
Queued(queue, p, kind) ==
  queue \cup {[id |-> NextId(queue), path |-> p, kind |-> kind, cursor |-> 0]}
Without(queue, task) == {t \in queue : t.id # task.id}

Reachable(p) == \A d \in Above(p) \ {p} : onDisk[d].there /\ onDisk[d].allowed
Observable(p) == Reachable(p) /\ onDisk[p].there

Covered(db, p, kind) == [db EXCEPT !.coverage = @ \cup {<<db.generation, p, kind>>}]
TextDropped(db, p) == [db EXCEPT !.texts = {t \in @ : t[1] # p}]

\* An entry or a directory cannot be read: its text goes, and so does its open directory.
Failed(db, task) ==
  LET kept == TextDropped(Covered(db, task.path, "error"), task.path)
  IN  [kept EXCEPT !.queue = Without(@, task),
                   !.files = [p \in DOMAIN @ |->
                     IF p = task.path THEN [@[p] EXCEPT !.state = "unavailable"] ELSE @[p]]]

(***************************************************************************)
(* inspect: what kind of entry it is, and whether it must be read.         *)
(***************************************************************************)
Known(db, p) ==
  p \in DOMAIN db.files /\ db.files[p].signature = onDisk[p].version
StillKnown(db, p) == Known(db, p) /\ db.files[p].state # "unavailable"
StateOf(db, p) ==
  IF p \in Directories THEN "metadata-only"
  ELSE IF StillKnown(db, p) THEN db.files[p].state
  ELSE IF IsText(onDisk[p].version) THEN "indexed" ELSE "sensitive-content"

Inspected(db, task) ==
  LET p == task.path
      state == StateOf(db, p)
      body == IF p \in Directories \/ StillKnown(db, p) \/ state # "indexed" THEN {}
              ELSE {<<p, onDisk[p].version>>}
      read == IF Known(db, p) /\ state = "indexed" THEN db
              ELSE [TextDropped(db, p) EXCEPT !.texts = @ \cup body]
  IN  [read EXCEPT
         !.files = [q \in DOMAIN @ \cup {p} |->
                      IF q = p THEN Row(onDisk[p].version, state, db.generation) ELSE @[q]],
         !.keys = IF p \in DOMAIN db.files THEN @ ELSE @ \cup {p},
         !.queue = Without(IF p \in Directories THEN Queued(@, p, "directory") ELSE @, task)]

Goes(db, next, open) == batch' = [open |-> TRUE, db |-> db, next |-> next] /\ listings' = open
WithoutListing(task) == Restrict(listings, DOMAIN listings \ {task.id})

Inspect(task) ==
  /\ task.kind = "entry"
  /\ LET db == batch.db IN
     IF \/ ~Observable(task.path)
        \/ task.path \notin Directories /\ ~StillKnown(db, task.path) /\ ~onDisk[task.path].allowed
     THEN Goes(Failed(db, task), 0, WithoutListing(task))
     ELSE Goes(Inspected(db, task), 0, listings)

(***************************************************************************)
(* directory: one entry of an open directory, which Node has read ahead.   *)
(***************************************************************************)
\* The entries that are among those, in their order.
Kept(entries, those) ==
  LET upTo[n \in 0..Len(entries)] ==
        IF n = 0 THEN <<>>
        ELSE IF entries[n] \in those THEN Append(upTo[n - 1], entries[n]) ELSE upTo[n - 1]
  IN  upTo[Len(entries)]
EntriesOf(d) == Kept(Children[d], {p \in Range(Children[d]) : onDisk[p].there})
Listing(task) ==
  IF task.id \in DOMAIN listings THEN listings[task.id]
  ELSE [rest |-> EntriesOf(task.path), skip |-> task.cursor]
WithListing(task, l) ==
  [i \in DOMAIN listings \cup {task.id} |-> IF i = task.id THEN l ELSE listings[i]]

Enumerate(task) ==
  /\ task.kind = "directory"
  /\ LET db == batch.db
         l == Listing(task)
         rest == IF l.rest = <<>> THEN <<>> ELSE Tail(l.rest)
     IN  IF task.id \notin DOMAIN listings /\ ~(Observable(task.path) /\ onDisk[task.path].allowed)
         THEN Goes(Failed(db, task), 0, WithoutListing(task))
         ELSE IF l.skip > 0
         THEN Goes(db, 0, WithListing(task, [rest |-> rest, skip |-> l.skip - 1]))
         ELSE IF task.cursor >= MaxEntries
         THEN Goes([Covered(db, task.path, "incomplete") EXCEPT !.queue = Without(@, task)],
                   0, WithoutListing(task))
         ELSE IF l.rest = <<>>
         THEN Goes([db EXCEPT !.queue = Without(@, task)], 0, WithoutListing(task))
         ELSE Goes([db EXCEPT !.queue = (Queued(@, Head(l.rest), "entry") \ {task})
                                          \cup {[task EXCEPT !.cursor = @ + 1]}],
                   NextId(db.queue), WithListing(task, [rest |-> rest, skip |-> 0]))

(***************************************************************************)
(* scan: a batch begins, visits until its budget is used up, and commits   *)
(* or rolls back.                                                          *)
(***************************************************************************)
BeginScan ==
  /\ ~batch.open
  /\ IF database.phase = "scanning" THEN Goes(database, 0, listings)
     ELSE /\ database.generation < MaxCatalogScans
          /\ Goes([database EXCEPT !.generation = @ + 1, !.phase = "scanning", !.touched = {},
                                   !.queue = Queued(@, RootPath, "entry")], 0, <<>>)
  /\ UNCHANGED <<onDisk, database, catalogFaults>>

CurrentTask(task) ==
  IF batch.next = 0 THEN \A t \in batch.db.queue : task.id <= t.id ELSE task.id = batch.next

Visit ==
  /\ batch.open
  /\ \E task \in batch.db.queue : CurrentTask(task) /\ (Inspect(task) \/ Enumerate(task))
  /\ UNCHANGED <<onDisk, database, catalogFaults>>

CommitScan ==
  /\ batch.open
  /\ database' = IF batch.db.queue = {} THEN [batch.db EXCEPT !.phase = "complete"] ELSE batch.db
  /\ batch' = NoBatch /\ UNCHANGED <<onDisk, listings, catalogFaults>>

\* Mutant: the open directories survive the batch that has read from them.
RollBackScanKeeping ==
  /\ batch.open /\ catalogFaults < MaxCatalogFaults /\ catalogFaults' = catalogFaults + 1
  /\ batch' = NoBatch /\ UNCHANGED <<onDisk, database, listings>>
\* The database fails and the batch is rolled back, or the process is killed: either
\* way the directories are opened again at the committed cursor.
RollBackScan ==
  /\ batch.open /\ catalogFaults < MaxCatalogFaults /\ catalogFaults' = catalogFaults + 1
  /\ batch' = NoBatch /\ listings' = <<>> /\ UNCHANGED <<onDisk, database>>
KillCatalog ==
  /\ ~batch.open /\ listings # <<>> /\ catalogFaults < MaxCatalogFaults
  /\ catalogFaults' = catalogFaults + 1 /\ listings' = <<>> /\ UNCHANGED <<onDisk, database, batch>>

(***************************************************************************)
(* buildPathIndex: the next paths of the inventory in order; a batch that  *)
(* finds none proves that there are no more.                               *)
(***************************************************************************)
Beyond(cursor) == {p \in DOMAIN database.files : Rank(p) > cursor}
BuildPathIndex ==
  /\ ~batch.open /\ ~database.indexed
  /\ IF Beyond(database.cursor) = {} THEN database' = [database EXCEPT !.indexed = TRUE]
     ELSE LET first == CHOOSE p \in Beyond(database.cursor) :
                         \A q \in Beyond(database.cursor) : Rank(p) <= Rank(q)
          IN  database' = [database EXCEPT !.keys = @ \cup {first}, !.cursor = Rank(first)]
  /\ UNCHANGED <<onDisk, batch, listings, catalogFaults>>

(***************************************************************************)
(* The disk.  What was touched since the generation began is remembered    *)
(* for the properties only.                                                *)
(***************************************************************************)
Changes == SumFunction([p \in HostPaths |-> onDisk[p].version - 1])
Touch(paths) ==
  /\ database' = [database EXCEPT !.touched = @ \cup paths]
  /\ batch' = IF batch.open THEN [batch EXCEPT !.db.touched = @ \cup paths] ELSE batch
  /\ UNCHANGED <<listings, catalogFaults>>

DiskChanges ==
  /\ Changes < MaxDiskChanges
  /\ \/ \E p \in HostPaths \ Directories :
          /\ onDisk[p].there
          /\ \/ onDisk' = [onDisk EXCEPT ![p].version = @ + 1] /\ Touch({p})
             \/ onDisk' = [onDisk EXCEPT ![p].version = @ + 2, ![p].allowed = ~@] /\ Touch({p})
             \/ /\ onDisk' = [onDisk EXCEPT ![p].version = @ + 1, ![p].there = FALSE]
                /\ Touch({p, HolderOf(p)})
     \/ \E d \in Directories \ {RootPath} :
          onDisk' = [onDisk EXCEPT ![d].allowed = ~@, ![d].version = @ + 1] /\ Touch({d})

CatalogNext ==
  \/ BeginScan \/ Visit \/ CommitScan \/ RollBackScan \/ KillCatalog
  \/ BuildPathIndex \/ DiskChanges

-----------------------------------------------------------------------------

(***************************************************************************)
(* A completed generation has missed nothing that stayed as it was since   *)
(* it began, although batches were rolled back and directories reopened in *)
(* between: each path was seen with the version it has, or the coverage    *)
(* says that it, or what it is in, could not be read or was too large      *)
(* (scan and directory, src/host-file-catalog.mjs:140-222).                *)
(***************************************************************************)
Place(p) == CHOOSE i \in 1..Len(EntriesOf(HolderOf(p))) : EntriesOf(HolderOf(p))[i] = p
Seen(p) ==
  /\ p \in DOMAIN database.files /\ database.files[p].generation = database.generation
  /\ database.files[p].signature = onDisk[p].version
NothingIsMissed ==
  database.phase = "complete" =>
    \A p \in HostPaths : Observable(p) /\ Above(p) \cap database.touched = {} =>
      \/ Seen(p)
      \/ \E q \in Above(p) : <<database.generation, q, "error">> \in database.coverage
      \/ \E q \in Above(p) \ {RootPath} :
           /\ Place(q) > MaxEntries
           /\ <<database.generation, HolderOf(q), "incomplete">> \in database.coverage

(***************************************************************************)
(* A search finds a text only if the inventory vouches for it: the version *)
(* last seen, which holds no secret.  What is called indexed is found,     *)
(* unless it could not be read at some time: then its text is gone, and a  *)
(* later scan that reads it again does not store it (README, section 6).   *)
(***************************************************************************)
TextsAreVouchedFor ==
  /\ \A t \in database.texts :
       /\ t[1] \in DOMAIN database.files /\ IsText(t[2])
       /\ database.files[t[1]].state = "indexed" /\ database.files[t[1]].signature = t[2]
  /\ \A p \in DOMAIN database.files :
       database.files[p].state = "indexed" =>
         \/ <<p, database.files[p].signature>> \in database.texts
         \/ \E g \in 1..database.generation : <<g, p, "error">> \in database.coverage

(***************************************************************************)
(* Once the path index is complete it has every path of the inventory,     *)
(* also those scans have added behind and ahead of its cursor              *)
(* (src/host-catalog-path-index.mjs:33-56).                                *)
(***************************************************************************)
PathIndexIsExact == database.indexed => database.keys = DOMAIN database.files

CatalogIsFaithful == NothingIsMissed /\ TextsAreVouchedFor /\ PathIndexIsExact
=============================================================================
