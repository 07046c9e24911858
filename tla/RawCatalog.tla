----------------------------- MODULE RawCatalog -----------------------------
(***************************************************************************)
(* Ingestion of raw events into the PostgreSQL catalog (src/fabric-store   *)
(* .mjs: FabricStore.ingestRawEvent over ingestRawEvent, ingestRawEventV2, *)
(* findLogicalMessage and recoverRawEventV2 of PostgresCatalog).  A call   *)
(* reads the catalog, writes the ciphertext to the raw store and then runs *)
(* one READ COMMITTED transaction whose statements interleave with those   *)
(* of other calls; any of them may fail, the COMMIT with or without effect.*)
(*                                                                         *)
(* The tables are what is committed.  What an open transaction has written *)
(* is determined by its call and becomes visible at the COMMIT; until then *)
(* it holds the locks of the rows.                                         *)
(***************************************************************************)
EXTENDS Naturals, FiniteSets, Sequences, Functions

CONSTANTS
  Observations,  \* projections that collectors send
  CiphertextIds, \* the same projection may be encrypted anew
  IngestRequests,\* <<observation, content>> pairs that are sent
  Callers,       \* calls that may run at once
  MaxIngests,    \* bound: calls in one behaviour
  MaxFailures,   \* bound: failed statements and lost ciphertexts
  NoRow

\* One logical id is the primary of an observation, the others are aliases
\* under older keys; rank is the order of compareObservations among
\* observations that agree on deletion (authority, revision, sequence, id).
Observation == [event : STRING, version : {1, 2}, session : STRING, binding : STRING,
                ids : Seq(STRING), payload : STRING, deletion : BOOLEAN, rank : Nat]

EventKeys == {<<o.version, o.event>> : o \in Observations}
SessionIds == {o.session : o \in Observations}
LogicalIds == UNION {Range(o.ids) : o \in Observations}
RawRow == [obs : Observations, logical : LogicalIds \cup {NoRow}, content : CiphertextIds]

\* The payload of an event, a digest, covers its session (decryptClientCiphertext).
ASSUME RawAssumption ==
  /\ Observations \subseteq Observation
  /\ \A o, q \in Observations :
       o.event = q.event /\ o.payload = q.payload => o.session = q.session
  /\ IngestRequests \subseteq Observations \X CiphertextIds
  /\ \A o \in Observations : o.version = 2 => o.ids # <<>>
  /\ NoRow \notin RawRow
  /\ {MaxIngests, MaxFailures} \subseteq Nat

VARIABLES
  rawEvents,     \* raw_events_v1 and raw_events_v2, by version and event id
  sessions,   \* raw_sessions_v1: binding and event_count
  logicals,   \* logical_messages_v2: event_ids of each message, {} without a row
  aliases,    \* logical_message_aliases_v2
  ciphertexts,\* the raw store
  ingest,     \* the call of each caller
  held,       \* locks of its transaction
  answered,   \* requests answered stored, duplicate or recovered
  ingests,    \* calls so far
  failures    \* failures so far

rawTables == <<rawEvents, sessions, logicals, aliases>>
rawVars == <<rawTables, ciphertexts, ingest, held, answered, ingests, failures>>

NoIngest == [at |-> "idle", obs |-> NoRow, content |-> NoRow, expected |-> NoRow,
             canonical |-> NoRow, listed |-> {}, linked |-> 0]

RawInit ==
  /\ rawEvents = [k \in EventKeys |-> NoRow]
  /\ sessions = [s \in SessionIds |-> NoRow]
  /\ logicals = [m \in LogicalIds |-> {}]
  /\ aliases = [m \in LogicalIds |-> NoRow]
  /\ ciphertexts = {}
  /\ ingest = [c \in Callers |-> NoIngest]
  /\ held = [c \in Callers |-> {}]
  /\ answered = {}
  /\ ingests = 0 /\ failures = 0

Obs(c) == ingest[c].obs
Key(o) == <<o.version, o.event>>
\* getRawEvent: the row of version 2, else the one of version 1.
RowsOf(e) == {rawEvents[k] : k \in {j \in EventKeys : j[2] = e /\ rawEvents[j] # NoRow}}
RowOf(e) == IF RowsOf(e) = {} THEN NoRow
            ELSE CHOOSE r \in RowsOf(e) : \A q \in RowsOf(e) : q.obs.version <= r.obs.version

AtStep(c, step) == ingest[c].at = step
Step(c, step) == ingest' = [ingest EXCEPT ![c].at = step]
LockedByOther(c, lock) == \E d \in Callers \ {c} : lock \in held[d]
Take(c, lock) == held' = [held EXCEPT ![c] = @ \cup {lock}]
Pure == UNCHANGED <<rawTables, ciphertexts, answered, ingests, failures>>
NoWrite == Pure /\ UNCHANGED held

\* The call ends; an open transaction is rolled back.
IngestEnds(c) ==
  /\ ingest' = [ingest EXCEPT ![c] = NoIngest]
  /\ held' = [held EXCEPT ![c] = {}]
IngestAnswers(c) == IngestEnds(c) /\ answered' = answered \cup {<<Obs(c), ingest[c].content>>}
Refuses(c) == IngestEnds(c) /\ UNCHANGED answered

\* Mutant: an event id that is known is a duplicate.
SameEventById(row, o) == TRUE

\* The stored event is the one that was sent, under the same binding.
SameEvent(row, o) == row.obs.binding = o.binding /\ row.obs.session = o.session
                       /\ row.obs.payload = o.payload /\ row.obs.version = o.version

(***************************************************************************)
(* FabricStore.ingestRawEvent before the transaction                       *)
(***************************************************************************)

StartIngest(c, o, x) ==
  /\ AtStep(c, "idle") /\ ingests < MaxIngests
  /\ ingests' = ingests + 1
  /\ ingest' = [ingest EXCEPT ![c] = [NoIngest EXCEPT !.at = "known", !.obs = o, !.content = x]]
  /\ UNCHANGED <<rawTables, ciphertexts, held, answered, failures>>

\* A known event is refused or a duplicate; its ciphertext may be missing.
\* The transaction of a duplicate writes its audit row alone.
KnownEvent(c) ==
  LET row == RowOf(Obs(c).event)
      missing == Obs(c).version = 2 /\ row.content \notin ciphertexts
  IN
  /\ AtStep(c, "known")
  /\ IF row = NoRow THEN Step(c, "bound") /\ UNCHANGED <<held, answered>>
     ELSE IF ~SameEvent(row, Obs(c)) THEN Refuses(c)
     ELSE IF ~missing THEN IngestAnswers(c)
     ELSE IF row.content = ingest[c].content THEN Refuses(c)
     ELSE /\ ingest' = [ingest EXCEPT ![c].at = "recoverCipher", ![c].expected = row.content]
          /\ UNCHANGED <<held, answered>>
  /\ UNCHANGED <<rawTables, ciphertexts, ingests, failures>>

BindingDiffers(c) ==
  LET s == sessions[Obs(c).session] IN s # NoRow /\ s.binding # Obs(c).binding

Bound(c) ==
  /\ AtStep(c, "bound")
  /\ IF BindingDiffers(c) THEN Refuses(c) ELSE Step(c, "cipher") /\ UNCHANGED <<held, answered>>
  /\ UNCHANGED <<rawTables, ciphertexts, ingests, failures>>

CommitCiphertext(c) ==
  /\ \/ AtStep(c, "cipher") /\ Step(c, "select")
     \/ AtStep(c, "recoverCipher") /\ Step(c, "lock")
  /\ ciphertexts' = ciphertexts \cup {ingest[c].content}
  /\ UNCHANGED <<rawTables, held, answered, ingests, failures>>

(***************************************************************************)
(* The transactions of ingestRawEvent and ingestRawEventV2                 *)
(***************************************************************************)

\* The event may have been committed since; the answer is then the stored row.
Existing(c) ==
  LET o == Obs(c)
      row == IF o.version = 2 THEN RowOf(o.event) ELSE rawEvents[Key(o)]
  IN
  /\ AtStep(c, "select")
  /\ IF row = NoRow THEN Step(c, "object") /\ UNCHANGED <<held, answered>>
     ELSE IF row.obs.payload = o.payload THEN IngestAnswers(c) ELSE Refuses(c)
  /\ UNCHANGED <<rawTables, ciphertexts, ingests, failures>>

\* ON CONFLICT DO NOTHING: waits for an uncommitted row of the same key.
InsertObject(c) ==
  LET lock == <<"object", ingest[c].content>> IN
  /\ AtStep(c, "object") /\ ~LockedByOther(c, lock)
  /\ Take(c, lock) /\ Step(c, "session") /\ Pure

\* The session as the first committed event bound it, read back and checked.
InsertSession(c) ==
  LET s == Obs(c).session IN
  /\ AtStep(c, "session")
  /\ sessions[s] = NoRow => ~LockedByOther(c, <<"session", s>>)
  /\ IF BindingDiffers(c) THEN IngestEnds(c)
     ELSE /\ IF sessions[s] = NoRow THEN Take(c, <<"session", s>>) ELSE UNCHANGED held
          /\ Step(c, IF Obs(c).version = 2 THEN "alias" ELSE "insert")
  /\ Pure

\* findLogicalMessage: the target of any alias of the ids, else the primary.
FindAlias(c) ==
  LET o == Obs(c)
      targets == {aliases[m] : m \in Range(o.ids)} \ {NoRow}
  IN
  /\ AtStep(c, "alias")
  /\ \E m \in IF targets = {} THEN {Head(o.ids)} ELSE targets :
       ingest' = [ingest EXCEPT ![c].at = "load", ![c].canonical = m]
  /\ NoWrite

\* The row of the message, without a lock.  No row: the primary id is used.
LoadLogical(c) ==
  LET m == ingest[c].canonical IN
  /\ AtStep(c, "load")
  /\ ingest' = [ingest EXCEPT ![c].at = "insert", ![c].listed = logicals[m],
                              ![c].canonical = IF logicals[m] = {} THEN Head(Obs(c).ids) ELSE m]
  /\ NoWrite

\* Version 1 ends as a duplicate of an event that is there; version 2 fails on
\* the key.  Both wait for an uncommitted row.
InsertEvent(c) ==
  LET o == Obs(c) IN
  /\ AtStep(c, "insert") /\ ~LockedByOther(c, <<"event", Key(o)>>)
  /\ IF rawEvents[Key(o)] = NoRow
       THEN /\ Take(c, <<"event", Key(o)>>) /\ UNCHANGED answered
            /\ Step(c, IF o.version = 2 THEN "upsert" ELSE "count")
     ELSE IF o.version = 1 /\ rawEvents[Key(o)].obs.payload = o.payload THEN IngestAnswers(c)
     ELSE Refuses(c)
  /\ UNCHANGED <<rawTables, ciphertexts, ingests, failures>>

\* The selection over the observations found before, upserted as a whole.
UpsertLogical(c) ==
  LET lock == <<"logical", ingest[c].canonical>> IN
  /\ AtStep(c, "upsert") /\ ~LockedByOther(c, lock)
  /\ Take(c, lock) /\ Step(c, "link") /\ Pure

\* One upsert per id, in the order of the projection.
LinkAlias(c) ==
  LET n == ingest[c].linked + 1
      lock == <<"alias", Obs(c).ids[n]>>
  IN
  /\ AtStep(c, "link") /\ ~LockedByOther(c, lock)
  /\ Take(c, lock)
  /\ ingest' = [ingest EXCEPT ![c].linked = n,
                              ![c].at = IF n = Len(Obs(c).ids) THEN "count" ELSE "link"]
  /\ Pure

CountEvent(c) ==
  LET lock == <<"session", Obs(c).session>> IN
  /\ AtStep(c, "count") /\ ~LockedByOther(c, lock)
  /\ Take(c, lock) /\ Step(c, "commit") /\ Pure

\* What the transaction wrote becomes visible.
IngestCommitted(c) ==
  LET o == Obs(c)
      m == ingest[c].canonical
      s == sessions[o.session]
  IN
  /\ rawEvents' = [rawEvents EXCEPT ![Key(o)] = [obs |-> o, logical |-> m, content |-> ingest[c].content]]
  /\ sessions' = [sessions EXCEPT ![o.session] =
                    [binding |-> IF s = NoRow THEN o.binding ELSE s.binding,
                     count |-> IF s = NoRow THEN 1 ELSE s.count + 1]]
  /\ IF o.version = 1 THEN UNCHANGED <<logicals, aliases>>
     ELSE /\ logicals' = [logicals EXCEPT ![m] = ingest[c].listed \cup {Key(o)}]
          /\ aliases' = [a \in LogicalIds |-> IF a \in Range(o.ids) THEN m ELSE aliases[a]]

CommitIngest(c) ==
  /\ AtStep(c, "commit")
  /\ IngestCommitted(c)
  /\ IngestAnswers(c)
  /\ UNCHANGED <<ciphertexts, ingests, failures>>

\* The COMMIT fails after all, with or without effect.  Version 1 looks the
\* event up, version 2 reports the failure.
IngestCommitFails(c) ==
  /\ AtStep(c, "commit") /\ failures < MaxFailures
  /\ failures' = failures + 1
  /\ IngestCommitted(c) \/ UNCHANGED rawTables
  /\ held' = [held EXCEPT ![c] = {}]
  /\ IF Obs(c).version = 1 THEN Step(c, "reconcile")
     ELSE ingest' = [ingest EXCEPT ![c] = NoIngest]
  /\ UNCHANGED <<ciphertexts, answered, ingests>>

Reconcile(c) ==
  LET row == RowOf(Obs(c).event) IN
  /\ AtStep(c, "reconcile")
  /\ IF row # NoRow /\ SameEvent(row, Obs(c)) THEN IngestAnswers(c) ELSE Refuses(c)
  /\ UNCHANGED <<rawTables, ciphertexts, ingests, failures>>

\* Any other failed statement, or the timeout of one that waits, rolls back.
IngestStatementFails(c) ==
  /\ ingest[c].at \in {"select", "object", "session", "alias", "load", "insert", "upsert", "link",
                       "count", "lock", "reconcile", "reconcileRecovery"}
  /\ failures < MaxFailures
  /\ failures' = failures + 1
  /\ IngestEnds(c)
  /\ UNCHANGED <<rawTables, ciphertexts, answered, ingests>>

(***************************************************************************)
(* recoverRawEventV2: a new ciphertext for an event whose old one is lost  *)
(***************************************************************************)

LoseCiphertext(x) ==
  /\ x \in ciphertexts /\ failures < MaxFailures
  /\ failures' = failures + 1
  /\ ciphertexts' = ciphertexts \ {x}
  /\ UNCHANGED <<rawTables, ingest, held, answered, ingests>>

\* FOR UPDATE, then compared with what the caller expects to replace.
LockEvent(c) ==
  LET k == Key(Obs(c)) IN
  /\ AtStep(c, "lock") /\ ~LockedByOther(c, <<"event", k>>)
  /\ ~LockedByOther(c, <<"object", ingest[c].content>>)
  /\ IF rawEvents[k] = NoRow \/ ingest[c].content = ingest[c].expected THEN IngestEnds(c)
     ELSE IF rawEvents[k].content # ingest[c].expected THEN IngestEnds(c)
     ELSE /\ held' = [held EXCEPT ![c] = {<<"event", k>>, <<"object", ingest[c].content>>}]
          /\ Step(c, "commitRecovery")
  /\ Pure

Replaced(c) == rawEvents' = [rawEvents EXCEPT ![Key(Obs(c))].content = ingest[c].content]

CommitRecovery(c) ==
  /\ AtStep(c, "commitRecovery")
  /\ Replaced(c)
  /\ IngestAnswers(c)
  /\ UNCHANGED <<sessions, logicals, aliases, ciphertexts, ingests, failures>>

CommitRecoveryFails(c) ==
  /\ AtStep(c, "commitRecovery") /\ failures < MaxFailures
  /\ failures' = failures + 1
  /\ Replaced(c) \/ UNCHANGED rawEvents
  /\ held' = [held EXCEPT ![c] = {}]
  /\ Step(c, "reconcileRecovery")
  /\ UNCHANGED <<sessions, logicals, aliases, ciphertexts, answered, ingests>>

ReconcileRecovery(c) ==
  /\ AtStep(c, "reconcileRecovery")
  /\ IF RowOf(Obs(c).event).content = ingest[c].content THEN IngestAnswers(c) ELSE Refuses(c)
  /\ UNCHANGED <<rawTables, ciphertexts, ingests, failures>>

IngestStep(c) ==
  \/ KnownEvent(c) \/ Bound(c) \/ CommitCiphertext(c)
  \/ Existing(c) \/ InsertObject(c) \/ InsertSession(c) \/ FindAlias(c) \/ LoadLogical(c)
  \/ InsertEvent(c) \/ UpsertLogical(c) \/ LinkAlias(c) \/ CountEvent(c)
  \/ CommitIngest(c) \/ IngestCommitFails(c) \/ Reconcile(c) \/ IngestStatementFails(c)
  \/ LockEvent(c) \/ CommitRecovery(c) \/ CommitRecoveryFails(c) \/ ReconcileRecovery(c)

RawNext ==
  \/ \E c \in Callers, r \in IngestRequests : StartIngest(c, r[1], r[2])
  \/ \E c \in Callers : IngestStep(c)
  \/ \E x \in CiphertextIds : LoseCiphertext(x)

RawSpec == RawInit /\ [][RawNext]_rawVars

(***************************************************************************)
(* Properties                                                              *)
(***************************************************************************)

\* What a collector was told is stored is there with its payload and session:
\* first payload wins against conflicting retries, concurrent ones and
\* commits whose outcome was unknown.
StoredAnswersAreTrue ==
  \A r \in answered : \E k \in EventKeys :
    rawEvents[k] # NoRow /\ rawEvents[k].obs.event = r[1].event /\ rawEvents[k].obs.payload = r[1].payload
      /\ rawEvents[k].obs.session = r[1].session

\* Deletion first, then the rank.
Precedes(a, b) == IF a.deletion # b.deletion THEN a.deletion ELSE a.rank < b.rank
Preferred(keys) ==
  CHOOSE k \in keys : \A j \in keys \ {k} : Precedes(rawEvents[k].obs, rawEvents[j].obs)
Members(m) == {k \in EventKeys : rawEvents[k] # NoRow /\ rawEvents[k].logical = m}

\* selectLogicalMessage
Selection(keys) ==
  [preferred |-> Preferred(keys), tombstoned |-> rawEvents[Preferred(keys)].obs.deletion,
   conflict |-> Cardinality({rawEvents[k].obs.payload : k \in {j \in keys : ~rawEvents[j].obs.deletion}}) > 1]

\* "preferred observation, payload conflict and authoritative tombstone state
\* are recomputed transactionally": the selection of a message is the one over
\* all its committed observations.
SelectionIsCurrent ==
  \A m \in LogicalIds : logicals[m] # {} => Selection(logicals[m]) = Selection(Members(m))

=============================================================================
