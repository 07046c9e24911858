# Agent Memory Fabric: a TLA+ model

Agent Memory Fabric (AMF) collects the conversations of agents, archives them, lets curators turn them into
memories, and serves both under an access contract. It is written in JavaScript (Node); its state lives in
directories shared by several processes (outboxes, leases, progress files) and in SQLite or PostgreSQL.
This directory holds TLA+ modules for the parts in which order, crashes and concurrency matter, the TLC runs that
check them on small instances, and TLAPS proofs of what holds for every instance.

Paths below are relative to the repository (`src/...` is its source directory). "Line" always refers to the commit
this model was written from; `PROJECT.json` maps every definition to the lines it models, lists every component with
what is modelled of it, and every hazard with its line and the properties that watch it.

1. [The system](#1-the-system)
2. [Modules](#2-modules)
3. [Runs, bounds and what they show](#3-runs-bounds-and-what-they-show)
4. [Fairness](#4-fairness)
5. [Proofs](#5-proofs)
6. [Where code and documentation disagree](#6-where-code-and-documentation-disagree)
7. [What is left out, and what comes next](#7-what-is-left-out-and-what-comes-next)

## 1. The system

    transcripts ──ingestor──> encrypted outbox ──HTTP──> FabricStore (catalog + raw store) <── proposals <──┐
                                                              ^                │                            │
    conversation events ──> plaintext outbox ──HTTP──> conversation archive    v                        extractor
                                   ^                          ^     │      curator receipts,                ^
    migration phases ──batches─────┘──────────────────────────┘     │      retention                        │
         (leases, progress files, receipts)                         └──> session views, listing ────────────┘

    operators: provisioning, route cutover, host integration, releases, identities and their cross-phase registry

| component | state it keeps | operations | hard behaviour | what makes it correct |
|---|---|---|---|---|
| conversation event outbox (`ingest/conversation-event-v3-outbox.mjs`) | three directories: pending records, acknowledgements, conflicting payloads; temporary links | enqueue, acknowledge, deliver, replay, recovery at start | processes share the directory without a lock; a delivery is awaited in the middle; replies get lost | what enqueue accepted is never lost; an acknowledgement is true; the queue stays within its limit; everything pending is finally delivered |
| conversation archive (`conversation-archive-v1.mjs`) | four tables: events, requests, conflicts, audit | append, tombstone, list, applyRetention; two adapters | ambiguous COMMIT, retries under the same key, changed payloads, references in any order, retention beside writes, pages over changing rows | first payload wins, conflicts stay visible and are spared by retention, everything is audited, pages neither repeat nor skip |
| transcript capture and encrypted outbox (`ingest/transcripts/*`, `ingest/outbox.mjs`) | cursors per namespace, pending envelopes, acknowledgements | poll, full audit, backfill, enqueue, deliver, replay | files that grow, shrink or rotate, a file read before and used after an await, two processes on one outbox, lost replies | no cursor passes a line that is not with the receiver; an audit leaves nothing behind |
| raw events and logical messages (`fabric-store.mjs`) | raw events, logical messages, session bindings, ciphertexts | ingest (v1, v2), recover | unlocked read of a logical message, ambiguous COMMIT, rotated keys | answers are true, every event points to a stored ciphertext and to its message |
| proposals, receipts, retention (`fabric-store.mjs`, `canonical-memory-bridge.mjs`, `identity-retention.mjs`) | proposals, raw retention rows, tombstones, receipt ledger, retention operations, encrypted blobs | propose, record a receipt, apply retention | READ COMMITTED statements of several processes, row and advisory locks, ambiguous COMMIT, blob store outside the transaction | answers are true, status and ledger agree, decisions are final, retention ends once, no lock cycle |
| document store (`document-store.mjs`) | revisions and heads | write (put, delete), replay | two locks, a unique index on live paths, keys that do not bind the whole request | heads follow their revisions one by one; an answer outlives its process |
| identities (`fabric-store.mjs`) | identity records, events | create, merge, split | revision checks, locks of two rows in the order of the request | no ring of merges |
| backfill lease (`ingest/transcripts/backfill.mjs`) | one file, moved aside on takeover | acquire, heartbeat, release | takeover of a dead owner by several contenders | at most one live holder; a displaced holder stops |
| migration batch (`migration/m4-backfill-coordinator.mjs` and its stores) | outbox, archive, identity store, progress file, lease | run one bounded batch | crash between delivery and progress; two runs after a lost lease; completeness decided by one extra read | progress is never ahead of the archive and never goes back |
| native paused phase (`migration/m4-native-paused-phase-orchestrator.mjs`) | receipts per interval, completion | invoke | resumed any number of times, bounded calls, lost leases | receipts and completion only over archived intervals; repeated invocations finish |
| cross-phase identity registry (`migration/m4-cross-phase-identity-*`) | traversal store, spool, pages, root artifact, lease | run, resume, publish | killed at every step, displaced by another run, a catalog that drifts | what is published covers the catalog; an interrupted run can be resumed |
| route cutover (`operator/m4-route-executor.mjs`, `m4-post-route-rollback.mjs`) | one runtime configuration, backups, results, a lock | execute and roll back by confirmed digest | crash between configuration change and result; edits of the operator in between | a route is active only with a result, or the lock is kept; edits survive a rollback |
| provisioning (`operator/*-provisioning.mjs`) | auth registry, policy, key rings, PAM configuration, route manifest, lock files, handoffs | provision a collector, a consumer, a lane or a route | several files per change, failure and kill in the middle, tools with different locks on one file | partial state stays locked, a bearer has its key and policy, what was reported stays |
| host integration (`integrations/lifecycle.mjs`) | wrapper, environment, marker, units, timers | install, adopt, run, enable, disable, uninstall | systemctl fails, undo fails, a kill | one timer per vault; a failed command leaves what it found |
| installer (`deploy/amf-install-release.mjs`) | deployment root, staging directory, manifest, lock | install a release, roll back, recover | failures of the rollback, a kill | never a mixed tree without its lock |
| memory extraction (`scripts/amf-conversation-memory-extractor.mjs`) | one state file: cursor, budget, work in flight | tick | the archive, the curators and the calendar change between ticks; a call is paid for | every call is in the ledger of its day; what was paid for is proposed before the cursor moves |
| audit retention (`audit-retention.mjs`, `audit-retention-cleanup.mjs`, `operator/audit-retention-gc-operator.mjs`) | buckets in memory, audit rows, a log | record, flush, close; collect | calls counted while a write is awaited; two collectors; a COMMIT without an answer | no counted call is lost; the log accounts for every deletion |
| group replay (`migration/m4-legacy-group-replay-batch-runner.mjs`, `m4-preserved-group-replay.mjs`) | outbox, archive, checkpoint, completion | run batches from the checkpoint | limits of three kinds, crash between delivery and checkpoint | a completion only over a whole, delivered source |
| HTTP server (`server.mjs`) | sessions, SSE streams, registry as last read, audit rows | REST and MCP requests | a token withdrawn in one of a request's awaits; full session table; streams that end | what is served was authorized and is audited; limits hold |
| capability listener (`capability-mcp-server-runtime.mjs`) | resources, server, pending start and close | start, close, signal | close in every await of a start | nothing stays open; a closed listener starts again |
| host file catalog (`host-file-catalog.mjs`, `host-catalog-path-index.mjs`) | queue, inventory, texts, coverage, path index | scan in batches, index | the disk changes between two steps; rollback and kill of a batch | nothing is missed in silence; texts belong to files that were read |
| opaque references, reconciliation, legacy projection | references; derived | insert-or-find, comparison | a race into a unique index | not modelled (section 7) |
| contracts, context tokens, content protection, session views, host administration | none of their own, or derived | stateless | | checked by tests; not modelled |

How they interact: a collector enqueues events into an outbox and delivers them over HTTP to the archive, whose answer
becomes the acknowledgement; the ingestor does the same with raw transcript lines, the encrypted outbox and the raw
catalog. A migration phase puts the rows of old transcripts into the plaintext outbox under a lease and delivers them
to the archive. The extractor reads the archive and queues proposals; they are decided by receipts that curators'
services send, and ended by retention, which also ends the raw objects they were made from. Operators' commands act on
files of the server or the host, each under a lock file of its own. The server answers requests with calls of the
stores, in the name of a token that the provisioning tools have written to the registry it reads, and audits each
answer.

## 2. Modules

Every module has its state as VARIABLES, one action per operation or statement, and its properties at its end. A
definition whose comment begins with "Mutant" is a plausible bug of the definition that follows it; it is used nowhere
in the model, and shows that some property would notice the bug.

### Collecting and archiving

**ConversationOutbox** (`EventDelivery`, `MCConversationOutbox`, `ConversationOutboxProofs`). A caller is one call of
enqueue or deliver. Calls of one Node process run to completion between awaits; calls of different processes
interleave at every file operation: read the acknowledgement, read the pending record, look for the conflict file,
count, write a temporary file, link it, unlink it, await the sink, check again, link the acknowledgement, unlink the
pending record. A crash leaves its temporary link, a restart removes all of them. The receiver is the archive's
promise: the first payload of an id is stored, the same again is a duplicate, another is refused. Requests whose
sender gave up may still arrive. `promised` is a history variable: payloads whose enqueue returned. `EventDelivery` is
what a producer may rely on, without files: the receiver takes one payload of an event, and that payload is
acknowledged once. `DeliversEvents` states the refinement (`Payloads <- Digests`); it is checked and proved.

**ConversationArchive** (`MCConversationArchive`, `PostgresArchiveProofs`). The four tables; `append` and
`tombstone` as one operation with the answers stored, duplicate, conflict_visible and request_invalid; applyRetention.
The SQLite adapter runs each in one transaction, so each is one action. Conversation and source instance of an event
are one value: the code always compares both. **ConversationListing** adds `list`: superseded events, the order of
rows, pages with cursors over changing tables.

**PostgresArchive** (`LooseArchive`, `MCPostgresArchive`, `PostgresArchiveProofs`). The same operations in the PostgreSQL adapter, statement by
statement: the two advisory locks in sorted order, reads, inserts that wait for a claimed key, the retention UPDATE
with the snapshot it works from, the audit row, COMMIT with or without acknowledgement, and the recovery read that
follows a lost one. Each open transaction keeps its rows until COMMIT, so no other session sees them. Its tables are
those of ConversationArchive, and `ImplementsLooseArchive` says that every COMMIT has the effect of one whole call of
`LooseArchive`: writes as in ConversationArchive, but retention picks its rows by the snapshot of its UPDATE, which is
not the moment of its COMMIT (section 6).

**EncryptedOutbox** and **TranscriptCapture** (`MCTranscriptCapture`, `TranscriptCaptureProofs`). EncryptedOutbox is the outbox of raw events,
file by file, with the HTTP sink behind it. TranscriptCapture EXTENDS it with the ingestor: the file is a sequence of
tokens (a record, the end of a line, a malformed line) that the source appends to, truncates or replaces; a pass opens
the file, checks inode, prefix and tail against the cursor, reads a window, cuts it to complete lines, delivers them
one by one and stores the cursor. A checkpoint, in the code an HMAC over bytes, is the tokens it covers. Two cursor
namespaces (realtime, backfill) run beside each other and beside a replay.

**BackfillLease** (`MCBackfillLease`, `ServiceProofs`). A lease file is an inode: link, rename and unlink move it between the path and
tombstones, and a holder keeps it open. Takeover, restore, heartbeat (truncate, write) and release are steps; crashes,
age and the hosts of processes decide who may take over. `overlapped` is a history variable: some contender moved away
a lease it had not read.

**BackfillBatch** and **NativePausedPhase** (`MCNativePausedPhase`, `NativePausedPhaseProofs`). BackfillBatch is one batch under its lease: load
the progress, take the rows after it, enqueue, deliver, bind the identity, acknowledge, and commit the count with the
extra read that tells whether the interval is finished. NativePausedPhase EXTENDS it with the orchestrator: intervals
in order, calls per interval and in total, a receipt per interval, the signed completion. The outbox, the archive and
the lease are reduced to what their own modules show; in particular a lease may be taken from a live holder (`Steal`),
as lease_overlap shows it can. The transcript is a constant of a behaviour, chosen in Init from three: an interval
with a repeat and a skipped record, the same with a repeat that changed, and one whose second interval has an event of
the first.

### The stores of the fabric

`MCFabric` puts these modules and ConversationListing side by side. They share a database but no row; a behaviour
exercises one of them (`exercised`), so the states of the run are the sum of theirs, and each has its own bounds.
`StoreProofs` has the theorems of RawCatalog, DocumentStore and FabricIdentities, and of IdentityTraversal.

**FabricProposals** (`FabricProposalsProofs`). Calls of propose, recordCuratorReceipt and applyRetention in PostgreSQL, statement by statement:
reads before the transaction, the locks in it, every INSERT and UPDATE, COMMIT and what is done when it fails or is
not acknowledged. A content stands for a payload and its address in the raw store; the raw object and its retention
row are inserted together and never deleted, so one variable stands for both. Rows of an open transaction are in
`tx[s]`; a session waits for the locks of the others. The eligibility check of a promotion (logical message, canonical
record) is a nondeterministic refusal. A crash of a process is a failure whose answer nobody reads.

**RawCatalog**. ingestRawEvent and ingestRawEventV2 with findLogicalMessage and the recovery after a failure: read the
catalog, store the ciphertext, then one transaction whose statements interleave with those of other calls. A logical
message is known by several ids (keys are rotated); its row holds the list of its events and the selection computed
from them, written from what was read before the transaction.

**DocumentStore**. One write is one transaction under two advisory locks in sorted order; then replay by key, the
transition of the head, and the unique index on live paths, which may make it wait or fail. The answer may be lost
with its COMMIT.

### Operators' commands and timers

`MCOperations` does the same for commands that touch different files or rows. `OperationsProofs` has the theorems of
HostIntegration, ReleaseInstall, GroupReplay and FabricServer; those of Provisioning are in `ServiceProofs`, that of
HostCatalog is in `TranscriptCaptureProofs`.

**Provisioning**. Four tools (collector, consumer, curation lane, session routes) as one sequence of steps with
parameters: the lock, the files in the order in which they are replaced, the backup, the handoff, rollback and release
of the lock. A failure is handled, a kill is not. A team is a set of invocations that run in one behaviour.

**RouteCutover**. Execution: lock, checks against the authorization, backup, replacement, hooks, result. Rollback:
lock, checks of result, observation and backup, restore, hooks, result. The operator edits other settings in between;
`Recover` and `RecoverRoute` are the manual recovery of the documentation.

**HostIntegration**. Each command is a list of file operations with an undo stack; the timer is asked of systemctl,
which may fail; a failing undo or a kill leaves the instance `unfinished`.

**ReleaseInstall**. Lock directory, staging, moving aside every file that is replaced or dropped and then the
manifest, renaming in, the new manifest, clean-up, and the chmod of the deployment root in `finally`; rollback in
reverse order; recovery by the operator, who restores what an installer left staged before the lock is removed.

**MemoryExtractor**. One tick at a time: the work in flight is resumed, or the newest conversation before the cursor
is taken, budget is reserved, the model is called, claims are proposed, the cursor moves. Conversations, curators and
days go on meanwhile; a tick may be killed anywhere. The history variables `spent` and `passed` relate what was called and paid to what was recorded.

**FabricIdentities**. create, merge and split with the read before the transaction, the two row locks in the order of
the request, the revision check and the replay by key.

**IdentityTraversal**. From the lease to the publication: the catalog group by group, the traversal store written in
batches, the spool of accepted blocks, seal, pages, root artifact; killed, displaced by another run, resumed, while
the catalog drifts and drifts back.

**GroupReplay**. Runs over a source of groups: a batch takes groups as long as their number, members and events fit
its limits, hands their events to the outbox, which may hold them pending, acknowledged or with another payload, and
commits a checkpoint per group. What outbox and archive hold beforehand is chosen in Init; a call may fail and a run
be killed in every step.

### Timers and listeners

`ServiceProofs` has the theorems of AuditSampler, AuditCollection, CapabilityRuntime, RouteCutover, MemoryExtractor,
BackfillLease and Provisioning.

**AuditSampler** and **AuditCollection**. The sampler counts status calls per window; flushes run one after the other
and may wait for the database while calls go on being counted; close flushes what is left. The collection deletes
expired rows batch by batch, logs each batch after its COMMIT and before the next, and is run by two collectors at a
time.

**CapabilityRuntime**. start opens its resources one after the other and listens; close may come in any of its awaits
and takes over what start has opened.

**FabricServer**. A handler is the list of what it awaits: body, registry, policy, store, audit. Between its steps
other requests, edits of the registry and the clock go on. A store answers or fails; what it does is said by its own
module. What depends on the request or a setting (the purpose and its context token, the form of a proposal, the
migration pause of the raw ingest) is one more step that passes or refuses (`Check`), where its refusal is audited
otherwise than that of the step beside it; elsewhere it is part of that step.

**HostCatalog**. A scan is a sequence of batches, each a transaction over queue, inventory, texts and coverage, while
directories are read from handles that stay open between them; then the path index is built behind and ahead of later
scans. Files are created, changed, removed or made unreadable between any two steps.

## 3. Runs, bounds and what they show

`MC*.tla` give the constants, `*.cfg` the runs. A property that is a conjunction of named parts (`PhaseIsBacked ==
ProgressIsBacked /\ ReceiptsAreBacked`) is named by the whole; its module has the parts.

| run | instance | distinct states | what it shows |
|---|---|---|---|
| outbox | 2 processes, 1 event, 3 payloads, limit 1, 1 crash, 1 lost reply | 308,385 | `AckedIsStored`, `PromisedIsKept`, `OverrunBounded`, `EventuallyAcknowledged`, and that the outbox implements EventDelivery |
| postgres_archive | 2 sessions, 4 calls, 2 failures | 2,281,512 | the PostgreSQL adapter has the effect of whole calls (`ImplementsLooseArchive`); `AnswersAreTrue` even after a lost COMMIT; `EverythingAudited`; no two calls wait for each other (deadlock) |
| native_phase | 2 invocations, 2 intervals, 3 transcripts, 1 failure or crash, 2 lost leases | 450,526 | `PhaseIsBacked` (of each interval's progress, and of the receipts), `EventuallyComplete` |
| transcript_capture | 2 namespaces and a replay, 2 payloads of an id, files of up to 2 tokens, 1 rewrite, 1 lost reply or kill | 1,628,870 | `ConsumedIsStored` (`CursorIsBacked`, `AcksAreTrue`), `PendingUntilAcknowledged`, `AuditCoversFile` |
| fabric | proposals: 2 sessions, 4 calls, 1 failure; raw events: 2 callers, 3 calls, 1 failure; documents: 2 writers, 4 writes, 1 failure; archive: 7 payloads of 6 ids, 1 cutoff, 1 reader | 1,483,196 | `CallAnswersAreTrue`, `NoLockCycle`, `DecisionsRespectTerminal`; `CatalogIsConsistent`, `StoredAnswersAreTrue`; `DocumentHistory`; `FirstPayloadWins`, `ReferencesStored`, `PagesComplete`, `PagesNeverRepeat`, `NeverResurrected` |
| operations | provisioning: 4 teams of 2 or 3 jobs, 2 faults; cutover: 2 executions, 3 rollbacks, 2 faults, 1 edit; host: 3 instances, 5 commands, 3 faults; lease: 3 processes, one twice; releases: 2 installers, 3 faults; extractor: 2 conversations, 2 times, 2 days, 1 fault; identities: 4 identities, 3 processes, 3 calls, 1 failure; traversal: 2 runs, 3 catalogs, 2 disturbances; replay: 2 sources, 3 runs, 2 faults; sampler: 3 windows, 2 calls each, 1 pending bucket, 1 fault; collection: 2 collectors, 3 rows, 2 faults; listener: 3 resources, 5 starts and closes; server: every route alone, and 2 requests over sessions of one token that is withdrawn; host catalog: 2 directories, 2 disk changes, 2 scans, 1 fault | 987,328 | `ProvisionedTogether` (`PartialStateIsLocked`, `BearersAreBacked`), `ReportedStays`; `RouteIsRecorded`, `EditsSurvive`; `VaultsStayServed` (`OneTimerPerVault`, `FailureRestores`); `HolderIsAtPath`; `ReleaseIsSafe`; `PaidWorkIsAccounted` (`CallsAreInLedger`, `PaidIsProposed`); `MergesAreAcyclic`; `TraversalIsFaithful` (`PublishedIsCovered`, `InterruptedRunResumes`); `CompletionIsEarned`; `SampledCallsAreKept`; `LogAccountsForDeletions`; `OpenOnlyWhileStarted`; `RequestsAreServedSoundly` (`AnswersAreAudited`, `ServedAsAuthorized`, `SessionsAreBounded`); `CatalogIsFaithful` (`NothingIsMissed`, `TextsAreVouchedFor`, `PathIndexIsExact`) |
| postgres_lost_conflict | 1 session, 2 calls, 1 failure | violation | section 6 |
| postgres_retention_race | 2 sessions, 3 calls | violation | section 6 |
| lease_overlap | 3 processes of a host, one of them twice | violation | section 6 |
| selection_stale | 2 callers, 3 observations of one message | violation | section 6 |
| provisioning_race (`MCProvisioning`) | a collector and a consumer | violation | section 6 |
| extraction_wedged | 2 conversations, 1 claim | violation | section 6 |

Deadlock is checked in outbox, postgres_archive, native_phase, transcript_capture and the three runs of the archive
and the lease, where an action says when the model may rest. It is switched off in fabric, operations,
selection_stale, provisioning_race and extraction_wedged: their behaviours come to an end when the bound on calls or
commands is used up. A cycle of locks in FabricProposals is stated as `NoLockCycle` instead.

Why the bounds are enough. Ids in the outbox do not interact except through the count of the queue. Two processes
with a limit of 1 make the count stale and overrun it, two payloads make a conflict, and a third lets a conflict be
followed by another. In the archive, ids interact only through references and retention batches: three ids in a chain
(event, edit, tombstone) and a stray one in another conversation give every case of `references`; one of the other two
outlives the cutoff, and a batch of one row is smaller than what is due. Pages of one row make every row the end of a
page, and an event that comes first in the order but may be stored last arrives behind the cursor of a listing.
PostgreSQL calls conflict in pairs (two locks each), so two sessions suffice for cycles and stale reads; four calls
allow a write, its retry, a conflict and a retention. A transcript of two tokens with a prefix and a tail of one
distinguishes a file that grew from one that was replaced with the same beginning; a rewrite after the cursor and a
kill before the cursor store are both within one fault. Three processes are needed to have two contenders for the
lease of a dead one. The phase needs a second interval for receipts in order and a call bound smaller than the work,
which makes resumption happen. In the proposals, two keys with a common content relate proposals through retention;
the ledger of one key suffices, since no statement reads the ledger of another. Applicators send receipts for
approvals only (the hypothesis of `CatalogStaysConsistent`, section 5). The document requests include a key
used again with another path, a skipped revision and a path that two documents want. Two faults in provisioning are a failure and
a failure of its rollback; three, on the host and in the installer, one of what follows as well. Three rollbacks, two of them
of the first execution, include one that comes late. The extractor needs a second conversation for the scan to move
and come back, a second day for the budget to be renewed, and a call that costs more than was reserved. A ring of
merges needs three identities and as many processes. The traversal batch of two groups fills up once behind
the accepted groups and leaves one group for the end and an unfinished batch at a kill, and two disturbances let the catalog drift and drift back, or a run be displaced after a kill. A replay
source ends batches at each of their limits, and one of its groups fits none. The sampler needs a call after the
window of the bucket that is being written, and one after close has begun. Two requests of one token are a session
that is used while it is deleted, or while the token loses its permission. A directory of the host catalog is exactly
at its limit, the root above it.

transcript_capture is reduced by symmetry: the two payloads are told apart by nothing but equality, its properties are
invariants and action properties, which symmetry preserves, and no liveness is checked there. No other run uses it.

`ReportedStays` appears with both outcomes: it holds for teams that share a lock and fails across tools.
`ConflictsAreNotExpired` is checked of the PostgreSQL adapter, where it fails; in SQLite the choice of the rows and the
UPDATE are one transaction.
`EventuallyComplete` excludes transcripts that contradict themselves or what an earlier phase archived (`Blocked`):
the code stops for an operator there, and `PhaseIsBacked`, which includes these transcripts, says that it has not
counted the conflict as archived. `DecisionsRespectTerminal` excludes the step from revoked to promoted, and
`ReleaseIsSafe` excludes one more; section 6 describes both.

## 4. Fairness

Three specifications state fairness. None is assumed of crashes, failures, steals or the arrival of late requests.

- `FairSpec` of the outbox: a call once begun goes on, a dead process is restarted, a receiver answers, and replay is
  run again and again for what is pending (`SF` on `StartDeliver`: another call may occupy the caller in between). The
  collectors run replay at every pass of their loop, and failures are bounded, so a delivery is finally attempted
  without one.
- `FairSpec` of the native phase: an operator invokes it again after a stop, which is how
  `docs/m4-native-paused-phase-orchestrator-v1.md` describes its use, and an invocation once begun goes on.
- `ExtractorFairSpec`: the systemd timer (`OnUnitActiveSec=5min`) starts a tick when none runs, a tick that is not
  killed goes on, and the quality gate in front of it passes. The counterexample of extraction_wedged therefore is not
  a behaviour in which the extractor simply stops.

## 5. Proofs

TLAPS checks what follows for every value of the constants, under the named assumptions of the modules
(`ConstantsAssumption`, `ArchiveAssumption`, `PostgresAssumption`, `LeaseAssumption`, `ProposalsAssumption`,
`IdentityAssumption`, `DocumentAssumption`, `RawAssumption`, `OutboxAssumption`, `CaptureAssumption`,
`BatchAssumption`, `PhaseAssumption`, `SamplerAssumption`, `CollectionAssumption`, `RuntimeAssumption`,
`CutoverAssumption`, `ExtractorAssumption`, `ListingAssumption`, `ProvisioningAssumption`, `ServerAssumption`,
`MixAssumption`, `ReplayAssumption`, `ReleaseAssumption`, `HostAssumption`, `TraversalAssumption`,
`CatalogAssumption`), which TLC
evaluates in every run of these modules.
They say of which kind the constants are and that a value which stands for nothing is none of the others; the ones
that say more are named below. Every proof has the same form: an inductive invariant, which contains the property and
what the property needs to be inductive; that it holds initially; one lemma for each step or group of steps; and a
theorem that ends in temporal logic.

*ConversationOutboxProofs.*
`TypeCorrect`: `Spec => []TypeOK`.
`AcknowledgedIsStored`: `Spec => []AckedIsStored`, for any number of processes, calls, crashes and lost replies.
`AckedIsStored` alone is not inductive: an acknowledgement is written several steps after the reply that justifies it.
`IInv` adds that a caller with a positive reply works on the payload the receiver stored (`ReplyIsTrue`) and that only
such a caller is on its way to write an acknowledgement (`AckNeedsReply`). The receiver never changes a stored payload,
so what was true when the reply came stays true. One lemma per setter says what it does to the control state; the
induction step then has one case per action.
`OutboxImplementsDelivery`: `Spec => Delivery!Spec`. Initial states map to initial states; under `IInv` a delivery is
`Accept` or a stutter, the link of an acknowledgement is `Acknowledge`, everything else a stutter.
`PromisesKept`: `PromisedIsKept` under `AtMostTwo`, the hypothesis that at most two processes open the outbox root.
The hypothesis is needed: with three processes TLC finds the first observation of section 6. In the repository the
root of a migration is opened by one backfill operator, whose runs exclude each other by the lease. `KeepInv` says for
each point of a call what it knows of the files (`PathInv`) and that a caller about to remove a pending record would
remove what it compared, or a record that is acknowledged while nobody is writing another (`ClearInv`).
`QueueOverrunBounded`: `OverrunBounded` for any finite number of processes: the records in the queue and the
processes with a record on its way together exceed the limit by at most one record per further process (`OverInv`).

*PostgresArchiveProofs*, of the archive's tables and their listing, for any payloads, keys, cutoffs and limits.
`ArchiveTypeCorrect`, `FirstPayloadIsFinal`, `ReferencesAreStored`, `ArchiveIsAudited`: the type invariant, the action
property and the two invariants of the archive. `ReferencesStored` rests on
`RowsAreFinal` (no step changes or removes a row of `events`): a reference checked when a row is inserted can never
dangle. `ListingsAreComplete`: an event that is visible all the time while a reader goes from page to page is still to
be seen or, once the cursor has passed it, received (`ListingOK`). A page is the beginning of what is left
(`PageIsPrefix`), and no two rows have the same rank, so no event is passed over between two pages.
`PagesStayInOrder`: `PagesNeverRepeat`. What a listing has received is stored, in order and not beyond its cursor
(`ReceivedOK`); a page is in order too and begins after the cursor (`PageInOrder`), and a stored event keeps its rank,
so that what is stored behind the cursor meanwhile is never looked at. `HiddenStaysHidden`: `NeverResurrected`.

The same module, of the adapter, for any number of connections, calls and failures.
`PostgresTypeCorrect`; `PostgresImplementsLooseArchive`, the refinement of whole calls by interleaved statements;
`AnswersBacked` and `AnswersTrue`; `PostgresFirstPayloadIsFinal` and `PostgresIsAudited`, which need the refinement's
invariant again for the tables of this adapter. `PgInv` says for each statement of a transaction what it has read of
its event and key, and that this stays true until its COMMIT: whoever could change it needs one of the advisory locks
the transaction holds, or the request row it has inserted (`Apart`, for every pair of sessions). So a COMMIT finds the
tables as its statements left them, and is a step of `LooseArchive`. `AnswersTrue` has the hypothesis
`OneKeyPerEvent`: both callers of the archive derive the key from the event id. Without it a repeated conflict under
another key is answered `duplicate` (section 6); `AnswersBacked` says what holds of the answers then.

*NativePausedPhaseProofs*, for any intervals, transcripts, processes, failures and lost leases.
`PhaseStaysBacked`: `Spec => []PhaseIsBacked`, and with it `PhaseIsTyped` and `StoresOnlyGrow` (what outbox, archive
and identity binding hold of an event is never replaced). The proof does not use the leases: it shows that the phase is
right even while two batches run over one interval. `PhaseInv` is the types, `StoresAgree` (an event is acknowledged
once, for what the archive has), `ProgressIsBacked` (of every stored progress the rows up to it are archived,
acknowledged and bound, and counted), `ReceiptsKnown` (the intervals that have receipts are backed as a whole), and what
a process knows: a batch that its sequence counts the rows up to its scan position, all backed or all but the one in
hand (`BatchKnows`), an invocation that the receipts it has loaded are true (`PhaseKnows`). A batch that slept may
write an older progress over a newer one; the older one is true as well, because the stores only grow.

*FabricProposalsProofs*, for any number of calls, keys and contents.
`ProposalsSafe` is the invariant: what each call was asked and has found, which rows its transaction holds and what it
will write, that row locks are exclusive and that status and ledger agree. A call works on rows it has locked or
inserted, so they are at its COMMIT what it has read, and no COMMIT changes what another call holds.
`AnswersAreTrue` and `TerminalStays` follow. `NobodyWaitsForEachOther`: retentions take the contents in one order, and
proposals and receipts hold nothing that a call they wait for may want. `CatalogStaysConsistent` has the hypothesis
`AppliesNameApprovals`, that applicators send apply receipts for approvals only. The verifier of the canonical store
is outside this repository; without the hypothesis status and ledger can disagree (section 6).

*StoreProofs*, for any number of callers, retries and failures.
`MergesStayAcyclic`: a merge commits under an update lock of its source and a share lock of a target it has seen
active. A ring that it closed would lead on from the target, which no one can have merged meanwhile.
`HistoryStays`: a write holds the lock of its document from before it compares the head until its COMMIT, so its
revision follows the last one; every stored revision of a document is below its head, in the head's vault, and there
is one of each number.
`RawAnswersTrue`: a row is written under a lock of its key, which was free, and no later step changes its observation;
what a caller has found or committed therefore stays until it answers. `RawAssumption` says that two observations of
the same event and payload have the same session: the digest that is compared covers it.
`TraversalStaysFaithful`: `TraversalIsFaithful`, for any catalogs and baseline, any number of runs, and any number of
crashes, changes of the catalog and lost leases. `TraversalInv` says of each run what it knows (`Sound`), in parts that
depend on different things: what it has read begins the baseline while the catalog has not changed (`Steady`); store
and spool are what it left while no lease was lost (`Alone`: the others are then idle, `OneAtWork`); past the
completion of the store it has the whole baseline, for either of these reasons (`Covered`), which is why
`PublishedIsCovered` survives each of them but not both; and the store it is about to rename agrees with the spool when
both hold (`Recording`). Of the files it says that the spool has the blocks of the results, or those and the next one
(`Exact`). `TraversalAssumption` says that no block of the baseline comes twice: a block names its logical message,
which is one group. What `Accepted` computes is a recursive function over a sequence; that more groups have at least
the blocks of fewer, and that no block comes twice, is proved from the least length at which it could fail
(`SeqInduct`).

*TranscriptCaptureProofs*, for any file, any bounds and any records that share an id.
`CapturesAreStored`: every record that a cursor counts as consumed was acknowledged with that payload, and the receiver
has stored it. `PendingIsKept`: a pending record stays until its id has an acknowledgement, which is its own.
`AuditsCoverFile`: a full audit that ends over the file it started with has every record up to its cursor
acknowledged. `CaptureInv` says for every point of a delivery that what is to be acknowledged is the pending record
and is stored (`ItemSafe`), and of a call that captures a record that past the conflict checks only this record can be
acknowledged, whatever the replay or the other namespace does with its id (`FirstSafe`). A cursor's chain has the length
from its first offset to its last, and all its records are acknowledged (`CursorIsSound`); the chain and the batch of
a full pass together are the file it has seen (`BatchIsSound`). The last one holds when a pass starts because the
chain was compared with the file and the batch was read from it in the same synchronous section; afterwards the pass
moves tokens from the batch to the chain, and neither depends on the file any more.

*ServiceProofs*, for any bounds.
`HolderKeepsPath`: `LeaseSpec => []HolderIsAtPath`, for any number of processes, hosts and attempts;
`ExclusiveUntilOverlap`: no two holders unless a contender has moved away a lease it had not read, which lease_overlap
shows to happen. `LeaseInv` adds that a bound inode is the process's own and that the owner a contender has seen dead
is dead (`SeenIsDead`; a killed process never comes back). A link needs a free path, a release removes its own file,
because the invariant itself says that it is there, and a takeover of the file that was read moves that of a dead
process.
`CallsAreKept`: the count of a bucket cannot change while its row is written, because its window is over or the sampler
is closed (`RowIsBucket`). `DeletionsAreLogged`: each run's log lags what it has removed by one batch at most
(`RunInv`), every removed row is counted by one run (`RowsAreCounted`), and two runs never have the same row in their
open transactions (`BatchesApart`). `NothingOpenBetweenStarts`: what is open is owned by the runtime, by the start that is
pending or by the close that took it over (`OpenIsInHand`), and the pending start and close are those of the current
state.
`RouteCanBeTakenBack` and `EditsAreKept`: `RouteIsRecorded` and `EditsSurvive` of the cutover. `CutoverInv` says that
whoever works under the lock file is alone (`OpIsSafe`), that an execution past its backup finds in it what it
replaces, with the settings of the configuration now (`ExecutionIsSafe`), and that an active route is recorded or,
while there is a lock, is the change of some complete backup (`RouteIsBacked`): the last one is what a recovery by hand
relies on. No result and no complete backup is ever written over.
`PaidWorkStaysAccounted`: `PaidWorkIsAccounted` of the extractor. A tick starts only without a pending reservation, so
the one it makes is its own until it settles it (`ReservationIsOwn`), and a claim that is not among the records
written before the first post is stated by a canonical memory (`RecordsCoverClaims`); neither depends on where the
tick is killed. `ExtractorAssumption` says that there is a first day and that a call costs something.

`ProvisioningStaysTogether` and `ReportsLast`: `ProvisionedTogether` and `ReportedStays`, for any jobs and faults, under
the hypothesis `OneTool`, that the jobs of a team run the same tool. Tools differ in their lock files; for a team of two
tools the second property is false, which is the finding of provisioning_race. Only the holder of the lock is at
work (`LocksOK`), and the files as it found them, its backups and beside them the files it does not touch (`Found`),
have every principal in all of its files or in none (`Tidy`). Up to its backup the files are as it read them
(`UnpreparedOK`); after it each file is its backup with or without the new entry, the first ones with it as long as
nothing has gone wrong (`PreparedOK`, `Replaced`). A failed rollback only marks the lock, which stays. What was
reported is in the files and in the backups of whoever holds the lock (`ReportedOK`), so restoring does not remove it.

The same module has `CatalogStaysFaithful`: `CatalogIsFaithful` of the host catalog, for any host of two levels, any
limit of entries and any numbers of changes of the disk, generations, rollbacks and kills. `NothingIsMissed` speaks of
a completed generation and says nothing of the way there. `CatalogInv` does: each path that stayed as it was has been
seen, is excused by the coverage, or is led to by a queued task (`Unmissed`), which is the path's entry or the entry of
what it is in, or a directory above it whose cursor has not come to it. That no entry is lost between two batches needs
that an open directory goes on where the cursor of its task is (`Continues`), as does one that is opened again at the
committed cursor after a rollback. Of the texts it says beside the property that a row becomes unavailable only with an
error in the coverage; of the path index, that keys and the paths beyond its cursor are the inventory together
(`IndexOK`). `CatalogAssumption` says that the children of different directories are different paths. Which entries a
directory has now (`Kept`) is a recursive function over a sequence, treated like `Accepted` above.

*OperationsProofs*, for any bounds.
`RequestsStaySound`: `RequestsAreServedSoundly` of the server, for any mix of routes and any number of clients.
`ServerInv` says what a request has left behind at each of its steps (`Left`): each handler asks the policy before its
effect and audits last (`OrderedSteps`), a step adds only its own row or effect, and the policy that a request asks is
as old as the request (`InThePast`). Places in the table of sessions are counted when they are reserved.
`CompletionStaysEarned`: `CompletionIsEarned` of the replay, for any source and any earlier contents of outbox and
archive. `ReplayInv` is the stores (`StoresOK`), the checkpoint (`ReplayOK`), the batch in selection (`SelectionOK`),
the group whose events are handed over (`EventsOK`) and what is committed (`CommittedOK`).
`ReleasesStaySafe`: `ReleaseIsSafe` of the installer, for any releases and any number of installers. The holder of
the lock knows the tree: its journal names each path it has touched once, with what the path held staged
(`JournalOK`), every other path is as it was or a failed restoration has left its file staged (`OthersOK`), what is not
to do any more is of the new release (`ForwardOK`). So a run ends with the new release or the previous one, or says
that it could not (`OutcomeOK`), and then every file of the previous one is in place or staged (`KeptOK`).
`VaultsAreServed`: `VaultsStayServed` of the host, for any instances and vaults, under the hypotheses `OneOperator`
(the project assumes one, section 6) and `OneLegacyEach` (the earlier layout gave no vault two instances; no command
of this program has made it). `OneTimerPerVault` alone is not inductive, because a timer is enabled long after the
check of the install: an instance claims its vault with its environment file, its unit or its running timer, no two
instances claim one vault (`ClaimsDiffer`), and a command whose instance is not the only one to claim its vault
neither makes a claim nor has one to restore (`SoleClaim`). `UndoOK` says of the undo list that it names each changed
file once and that without these files the tree is as before.

Only model-checked: liveness, `EventuallyAcknowledged` of the outbox and `EventuallyComplete` of the native phase,
because fairness and ENABLED are beyond the prover.

## 6. Where code and documentation disagree

Six runs end in a counterexample. Each checks one sentence of the repository.

- **postgres_lost_conflict** (`conversation-archive-v1.mjs:224`). The COMMIT of a changed payload is not
  acknowledged. The recovery read looks for the key derived from the event id and finds the request of the first
  payload; the call answers `transaction_rolled_back` although the conflict and its audit row are committed.
- **postgres_retention_race** (`conversation-archive-v1.mjs:309`). Retention picks rows from a snapshot and does not
  lock the event; a conflict recorded and answered before its COMMIT does not save the event.
- **lease_overlap** (`backfill.mjs:120`). Two contenders for one dead lease both rename the path; the slower one moves
  away the fresh lease of the faster one, and for a while two live processes hold the lease.
- **selection_stale** (`fabric-store.mjs:2046`). ingestRawEventV2 reads a logical message without a lock and upserts
  the selection computed from it. Of two observations at a time the later upsert drops the other event; a message
  whose authoritative deletion is stored stays untombstoned.
- **provisioning_race** (`recall-consumer-provisioning.mjs:668`). The tools that rewrite one auth registry lock three
  different files; an entry another tool has reported as provisioned is overwritten.
- **extraction_wedged** (`amf-conversation-memory-extractor.mjs:248`). A cycle of the scan comes back to a
  conversation that was paid and proposed before; the rebuilt record meets the stored one under the same key, the
  Fabric refuses it, and every later tick repeats the refused proposal. Under `ExtractorFairSpec` it never ends.

Smaller observations met while modelling. Those marked * are behaviours of the modules, seen with other constants or
excepted by a property; the others come from reading.

- Outbox (`conversation-event-v3-outbox.mjs:388`) *: with three processes and two payloads `PromisedIsKept` fails.
  Between the look at the files and the link of a pending record another process may acknowledge another payload; a
  third process that compared the earlier record then removes the new one by name. The payload is neither pending,
  acknowledged nor a conflict, against `scripts/test-conversation-event-v3-outbox.mjs:124`.
- Archive *: a retry of a conflict under a key of its own is answered `duplicate`, because the request row of the
  conflict is found first.
- Proposals *: the apply branch of a receipt does not look at the status again (`fabric-store.mjs:2364`): a revoked
  proposal becomes promoted, against `docs/ARCHITECTURE.md:55`. `DecisionsRespectTerminal` shows that this is the only
  such step. A proposal whose content is that of an expired one keeps the expired raw object (`fabric-store.mjs:1805`).
  An apply receipt may name a decision `review_required`: the coordinator compares ids and digests, not the status
  (`canonical-memory-bridge.mjs:203-206`). When an approval supersedes that decision before the transaction, which
  checks that the current decision is an approval and not that it is the one that is named
  (`fabric-store.mjs:2357-2366`), the receipt is stored beside the other decision and status and ledger disagree. Only
  the verifier of the canonical store could refuse it. `CatalogStaysConsistent` states this as its hypothesis, and the
  receipts of `MCFabric` satisfy it.
- Identities *: the replay inside the transaction (`fabric-store.mjs:2385-2391`, `2444-2450`) compares no evidence: a
  key used at the same time for two requests is answered as a duplicate of the other one instead of
  `idempotency_key_conflict` (`scripts/test-identity-retention.mjs:48-51`). Merges around a
  cycle may wait for each other until PostgreSQL aborts one of them, which no property is about. A split records its target as it was read
  before the transaction.
- Raw catalog: concurrent first observations under rotated keys split one message into two rows; ingestRawEventV2 has
  no reconciliation of an ambiguous COMMIT.
- Lease: a crash between the truncate and the write of a heartbeat (`backfill.mjs:140`) leaves an empty lease that no
  contender can parse.
- Transcripts: a full audit of a file that was truncated in place and regrew with a byte other than a newline before
  the cursor throws `transcript_checkpoint_not_line_aligned` (`ingestor.mjs:66`, `110`), where `README.md:294` promises
  that it is read anew. One malformed line fails its whole batch; replay stops at its first failing id; a record that
  vanishes after an EEXIST is taken for a conflict; a conflicting record linked after the acknowledgement may be
  removed by name, or stay and make every later replay fail at its id (`outbox.mjs:213`, `outbox.mjs:244`).
- Traversal *: a page write that is interrupted between link and unlink leaves two names, which the page store refuses
  (`m4-cross-phase-identity-page-store.mjs:17`, `65-66`), against
  `docs/m4-cross-phase-identity-traversal-operator-v1.md:42`; the same for the root artifact and its reader. With a
  lost lease and a catalog that drifts and drifts back, a record may be published that differs from what the run read.
  A crash that leaves a hot SQLite journal makes the probe refuse the spool; a displaced runner's rename can rewind
  the store.
- Group replay: the coordinator of preserved replay compares the sequence of an acknowledgement with positions of the
  interval (`m4-preserved-replay-coordinator.mjs:179-182`), so a resume at a sequence up to `startExclusive` is refused
  as drift; only its test uses it.
- Host catalog *: a file whose inspection failed once is `unavailable`; read again with the same signature it becomes
  `indexed` without a row in the texts (`host-file-catalog.mjs:131`), against `docs/host-file-catalog.md` ("Unchanged
  stat signatures ... preserve existing indexed text"). A directory of exactly `maxDirectoryEntries` entries is
  recorded as incomplete (`host-file-catalog.mjs:153`).
- Server: with a remote registry a slower, older fetch overwrites the newer policy of a session between another
  request's refresh and its use; the result of a tool call is lost when its SSE stream ends during the call, which is
  answered 200; DELETE of an SSE session leaves its stream open; a token that changes its actor may exceed
  `maxPerActor`.
- Snapshot bundle (`operator/private-snapshot-bundle.mjs`): a publisher whose `mkdir` fails with EEXIST removes the
  still empty target of another, so that both fail; a reader may sign over a bundle whose publisher then fails its last
  fsync and withdraws it.
- Semantic index: a record whose scope changed with the same text stays under the old scope until `--force`; a record
  whose read fails is removed until a later run.
- Cutover: an older failed observation can roll back a later execution with the same bytes; adapter hooks run only
  after the restore.
- Provisioning *: a lane's rollback stops at its first failing restore and releases its lock all the same.
- Host: `disable` takes exit status 1 of systemctl for a success (`lifecycle.mjs:724`) and removes the marker of a
  timer that may still run, against `docs/integration-framework.md:110-111`. An install killed after the environment file is refused by the next
  install, while uninstall reports that nothing is installed; `run` beside `enable` removes the marker; a new
  release's templates make disable and uninstall impossible; a failed move back skips the rest of an uninstall's
  rollback. Two operators at a time share the wrapper: the project assumes one.
- Installer *: an `enforceDeploymentRoot` that fails in `finally` (`amf-install-release.mjs:567`) replaces
  `release_rollback_failed`, so that the lock is released over a mixed tree, against
  `docs/deployment-procedure.md:96-100`; the next installer sees no manifest and leaves orphans. `ReleaseIsSafe`
  excepts exactly this step. After a successful install the same failure reports an error with the new release in
  place; a failed manifest write leaves a temporary file.
- Extractor *: it rests at `empty` for ever when all conversations older than the cursor have become newer (line 204
  never resets the cursor; `docs/raw-memory-extractor.md:32`). A newer conversation displaces a paid result in flight,
  which is paid again; every conversation is paid again in each cycle; a model timeout leaves `model_pending`, which
  blocks every tick until an operator intervenes; the transcript may be newer than the revision it is recorded under.
- Audit retention: of two collections at a time the second deletes nothing and reports `drained`; an ambiguous COMMIT
  leaves a batch unlogged; a wall clock that steps back during a flush loses counts.

## 7. What is left out, and what comes next

Left out of the modelled parts: contents and digests of payloads (a payload is a value), encryption and signatures
(assumed correct), the schema creation in `ready()`, a COMMIT that takes effect only after the recovery read has
looked for it, the scan limits of 10,000 and more records, the validation of configurations and signed artifacts
(a failing validation is a failing call), listing and pagination of proposals. The duplicate flag of a proposal found
after a lost COMMIT is not told apart from "queued". The SQLite and memory catalogs run the steps of FabricProposals
one call after the other and have no module of their own. Renaming an identity and the tombstone of a record are those
of a split without a status check. Deferred writes of the provisioning and cutover tools (`rewriteInPlace`) are one
step. The capture hooks of the harness, the deprecated generation of the extractor and its quality gate are not
modelled.

Not modelled, with the reason:

- *access contract, context tokens, host administration*: they keep no state that order could spoil; each request is
  a pure decision. Of the server, validation of bodies, formatting, the list of tools and health are left out; of the
  capability interface, the translation of requests into calls of the stores. That Node ends a pending listen when a
  server is closed is taken from Node (CapabilityRuntime).
- *conversation event contract, content protection, backfill gate, migration pause*: validation, encryption and
  comparison of whole documents; the modules take their outcome as given, FabricServer as either one (`Check`).
- *session views, semantic index, legacy projection*: derived from the archive or the catalog, rebuilt as a whole.
- *reconciliation*: a comparison of two frozen sets; a pure algorithm that would be stated as operators against a
  reference definition.
- *preserved and legacy replay*: GroupReplay has the batches; the coordinator around them, its indexes and the
  projection of groups to events are further sources for the batch and the outbox of the native phase.
- *snapshot bundles, opaque references*: publication of one directory by rename, and insert-or-find; what a module
  would show are the observations of section 6.

The map covers a small share of all lines because the repository counts its tests, schemas, demos and front ends with
its implementation; the parts with state, concurrency and failures are the ones that were chosen.

Each safety property of the runs that pass is stated by a theorem of section 5; liveness stays with TLC. What would
come next is the coordinator of the preserved replay above GroupReplay.
