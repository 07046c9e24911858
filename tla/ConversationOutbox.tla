------------------------- MODULE ConversationOutbox -------------------------
(***************************************************************************)
(* The plaintext outbox of conversation events v3                          *)
(* (src/ingest/conversation-event-v3-outbox.mjs): a directory of pending   *)
(* records, one of acknowledgements and one of conflicting payloads, shared*)
(* by every process that opens the same root.  A caller is one call of     *)
(* enqueue or deliver in progress; the calls of one Node process run to    *)
(* completion between two awaits, the calls of different processes         *)
(* interleave at every file system operation.                              *)
(*                                                                         *)
(* A record is its event id and its payload digest.  The receiver behind   *)
(* the sink is the abstract promise of the archive: the first payload of   *)
(* an event id is stored, the same payload is a duplicate, another payload *)
(* is refused.                                                             *)
(***************************************************************************)
EXTENDS Naturals, FiniteSets

CONSTANTS
  Callers,           \* calls in progress
  Processes,         \* Node processes that opened the outbox root
  ProcessOf,         \* the process each caller runs in
  Ids,               \* event ids
  Digests,           \* payload digests an event id may come with
  NoDigest,          \* the file is absent
  MaxPendingCount,   \* maxPendingCount of the constructor
  MaxCrashes,        \* bound: process crashes in one behaviour
  MaxLosses,         \* bound: calls of the sink that fail in one behaviour
  MaxFaults          \* bound: crashes and failed calls together

ASSUME ConstantsAssumption ==
  /\ ProcessOf \in [Callers -> Processes]
  /\ Ids # {}
  /\ NoDigest \notin Digests
  /\ MaxPendingCount \in Nat \ {0}
  /\ MaxCrashes \in Nat
  /\ MaxLosses \in Nat
  /\ MaxFaults \in Nat

VARIABLES
  pending,     \* pending/<id>.json: the digest of the record, or NoDigest
  ack,         \* acks/<id>.ack.json: the digest acknowledged, or NoDigest
  conflicts,   \* conflicts/<id>.<digest>.json
  temps,       \* callers whose .amf-<uuid>.tmp file is in a directory
  pc,          \* where each caller is
  job,         \* what each caller works on
  up,          \* processes whose outbox object is constructed
  stored,      \* the receiver: first payload accepted for each event id
  wire,        \* requests whose caller has given up, still on their way
  promised,    \* history: <<id, digest>> some enqueue returned without error
  crashes,     \* crashes so far
  losses       \* failed sink calls so far

files == <<pending, ack, conflicts, temps>>
vars == <<files, pc, job, up, stored, wire, promised, crashes, losses>>

Digest == Digests \cup {NoDigest}
Record == Ids \X Digest

Targets == {"pending", "conflict", "ack"}

\* Points at which a caller is between two synchronous sections.
Yielded == {"idle", "await"}
Steps == Yielded \cup
  {"readAck", "readPending", "unlinkStale", "readConflict", "capacity",
   "temp", "link", "unlinkTemp", "record", "recheck", "unlinkPending"}

Job == [op : {"none", "enqueue", "deliver"}, id : Ids, digest : Digest,
        seen : Digest, target : Targets, attempt : Nat, made : BOOLEAN,
        reply : {"none", "ok", "refused"}]

TypeOK ==
  /\ pending \in [Ids -> Digest]
  /\ ack \in [Ids -> Digest]
  /\ conflicts \subseteq Record
  /\ temps \subseteq Callers
  /\ pc \in [Callers -> Steps]
  /\ job \in [Callers -> Job]
  /\ up \subseteq Processes
  /\ stored \in [Ids -> Digest]
  /\ wire \subseteq Record
  /\ promised \subseteq Record
  /\ crashes \in 0..MaxCrashes
  /\ losses \in 0..MaxLosses

NoId == CHOOSE i \in Ids : TRUE
NoJob(i) == [op |-> "none", id |-> i, digest |-> NoDigest, seen |-> NoDigest,
             target |-> "pending", attempt |-> 0, made |-> FALSE,
             reply |-> "none"]

Init ==
  /\ pending = [i \in Ids |-> NoDigest]
  /\ ack = [i \in Ids |-> NoDigest]
  /\ conflicts = {}
  /\ temps = {}
  /\ pc = [c \in Callers |-> "idle"]
  /\ job = [c \in Callers |-> NoJob(NoId)]
  /\ up = Processes
  /\ stored \in [Ids -> Digest]    \* another root may have delivered before
  /\ wire = {}
  /\ promised = {}
  /\ crashes = 0
  /\ losses = 0

(***************************************************************************)
(* Scheduling and control                                                  *)
(***************************************************************************)

\* A caller runs when its process is up and no other call of the same process
\* is inside a synchronous section.
Runs(c) ==
  /\ ProcessOf[c] \in up
  /\ \A d \in Callers \ {c} : ProcessOf[d] = ProcessOf[c] => pc[d] \in Yielded

At(c, step) == Runs(c) /\ pc[c] = step
Goto(c, step) == pc' = [pc EXCEPT ![c] = step]

\* The call is over; its job is cleared.
Finish(c) == /\ Goto(c, "idle")
             /\ job' = [job EXCEPT ![c] = NoJob(NoId)]

\* What the next durable write of a caller is for.
Target(c, t) == job' = [job EXCEPT ![c].target = t]

\* Whether the durable write made its target.
Made(c, b) == job' = [job EXCEPT ![c].made = b]

\* The digest of the record a delivery works on.
Holds(c, d) == job' = [job EXCEPT ![c].digest = d]
Retry(c) == job' = [job EXCEPT ![c].attempt = @ + 1]

\* enqueue returns without an error: its payload is promised to be kept.
Promise(c) == promised' = promised \cup {<<job[c].id, job[c].digest>>}

ReceiverUnchanged == UNCHANGED <<up, stored, wire, crashes, losses>>

(***************************************************************************)
(* enqueue                                                                 *)
(***************************************************************************)

StartEnqueue(c, i, d) ==
  /\ At(c, "idle")
  /\ Goto(c, "readAck")
  /\ job' = [job EXCEPT ![c] = [NoJob(i) EXCEPT !.op = "enqueue", !.digest = d]]
  /\ UNCHANGED <<files, promised>> /\ ReceiverUnchanged

\* #readAck, the first read of #acceptedState and of #reconcileAck.  deliver
\* goes on to the pending record itself when there is no acknowledgement.
ReadAck(c) ==
  /\ At(c, "readAck")
  /\ job' = [job EXCEPT ![c].seen = ack[job[c].id]]
  /\ Goto(c, IF job[c].op = "deliver" /\ ack[job[c].id] = NoDigest
             THEN "record" ELSE "readPending")
  /\ UNCHANGED <<files, promised>> /\ ReceiverUnchanged

\* Mutant: a payload that differs from the accepted one is taken for a retry.
ResolveAnyAsDuplicate(c, accepted) ==
  IF accepted = NoDigest
  THEN /\ Goto(c, "capacity")
       /\ Target(c, "pending")
       /\ UNCHANGED promised
  ELSE Finish(c) /\ Promise(c)

\* What enqueue does once it knows the accepted digest (#resolveEnqueue, or the
\* write loop when nothing is accepted).
Resolve(c, accepted) ==
  \/ /\ accepted = NoDigest
     /\ job[c].attempt < 2
     /\ Goto(c, "capacity")
     /\ Target(c, "pending")
     /\ UNCHANGED promised
  \/ /\ accepted = NoDigest           \* conversation_outbox_race_unresolved
     /\ job[c].attempt = 2
     /\ Finish(c)
     /\ UNCHANGED promised
  \/ /\ accepted = job[c].digest      \* duplicate
     /\ Finish(c)
     /\ Promise(c)
  \/ /\ accepted \notin {NoDigest, job[c].digest}
     /\ Goto(c, "readConflict")
     /\ Target(c, "conflict")
     /\ UNCHANGED promised

\* The second read of #acceptedState and #reconcileAck: a pending record that
\* disagrees with the acknowledgement fails the call, one that agrees is
\* removed.
ReadPending(c) ==
  LET i == job[c].id
      seen == job[c].seen
  IN /\ At(c, "readPending")
     /\ \/ /\ seen # NoDigest
           /\ pending[i] \notin {NoDigest, seen}
           /\ Finish(c)
           /\ UNCHANGED promised
        \/ /\ seen # NoDigest
           /\ pending[i] = seen
           /\ Goto(c, "unlinkStale")
           /\ UNCHANGED <<job, promised>>
        \/ /\ seen = NoDigest \/ pending[i] = NoDigest
           /\ IF job[c].op = "deliver"
              THEN Finish(c) /\ UNCHANGED promised
              ELSE Resolve(c, IF seen # NoDigest THEN seen ELSE pending[i])
     /\ UNCHANGED files /\ ReceiverUnchanged

\* unlinkPrivateFile(pendingFile(id)): by name, whatever the file now holds.
UnlinkStale(c) ==
  /\ At(c, "unlinkStale")
  /\ pending' = [pending EXCEPT ![job[c].id] = NoDigest]
  /\ IF job[c].op = "deliver"
     THEN Finish(c) /\ UNCHANGED promised
     ELSE Resolve(c, job[c].seen)
  /\ UNCHANGED <<ack, conflicts, temps>> /\ ReceiverUnchanged

\* #preserveConflict: the same conflicting payload is kept once.
ReadConflict(c) ==
  /\ At(c, "readConflict")
  /\ IF <<job[c].id, job[c].digest>> \in conflicts
     THEN Finish(c) /\ Promise(c)
     ELSE Goto(c, "capacity") /\ UNCHANGED <<job, promised>>
  /\ UNCHANGED files /\ ReceiverUnchanged

QueueCount == Cardinality({i \in Ids : pending[i] # NoDigest})
                + Cardinality(conflicts)

\* Mutant: the record about to be written is not counted.
CapacityWithoutNewRecord(c) ==
  /\ At(c, "capacity")
  /\ IF temps = {} /\ QueueCount <= MaxPendingCount
     THEN Goto(c, "temp") /\ UNCHANGED job
     ELSE Finish(c)
  /\ UNCHANGED <<files, promised>> /\ ReceiverUnchanged

\* #assertCapacity: a directory entry that is not a record (a temporary file of
\* another process) or a full queue fails the call.
Capacity(c) ==
  /\ At(c, "capacity")
  /\ IF temps = {} /\ QueueCount + 1 <= MaxPendingCount
     THEN Goto(c, "temp") /\ UNCHANGED job
     ELSE Finish(c)
  /\ UNCHANGED <<files, promised>> /\ ReceiverUnchanged

(***************************************************************************)
(* writeExclusiveDurable: temporary file, link, unlink                     *)
(***************************************************************************)

WriteTemp(c) ==
  /\ At(c, "temp")
  /\ temps' = temps \cup {c}
  /\ Goto(c, "link")
  /\ UNCHANGED <<pending, ack, conflicts, job, promised>> /\ ReceiverUnchanged

Exists(target, i, d) ==
  CASE target = "pending"  -> pending[i] # NoDigest
    [] target = "ack"      -> ack[i] # NoDigest
    [] target = "conflict" -> <<i, d>> \in conflicts

Create(target, i, d) ==
  /\ pending' = IF target = "pending" THEN [pending EXCEPT ![i] = d] ELSE pending
  /\ ack' = IF target = "ack" THEN [ack EXCEPT ![i] = d] ELSE ack
  /\ conflicts' = IF target = "conflict" THEN conflicts \cup {<<i, d>>}
                                         ELSE conflicts

\* linkSync: fails with ENOENT when another process's constructor removed the
\* temporary file, with EEXIST (made = FALSE) when the target is there.
Link(c) ==
  LET j == job[c] IN
  /\ At(c, "link")
  /\ \/ /\ c \notin temps
        /\ Finish(c)
        /\ UNCHANGED <<pending, ack, conflicts>>
     \/ /\ c \in temps
        /\ Exists(j.target, j.id, j.digest)
        /\ Goto(c, "unlinkTemp")
        /\ Made(c, FALSE)
        /\ UNCHANGED <<pending, ack, conflicts>>
     \/ /\ c \in temps
        /\ ~Exists(j.target, j.id, j.digest)
        /\ Create(j.target, j.id, j.digest)
        /\ Goto(c, "unlinkTemp")
        /\ Made(c, TRUE)
  /\ UNCHANGED <<temps, promised>> /\ ReceiverUnchanged

\* The finally block removes the temporary file; then the caller goes on with
\* what the write was for.
UnlinkTemp(c) ==
  LET j == job[c] IN
  /\ At(c, "unlinkTemp")
  /\ temps' = temps \ {c}
  /\ \/ /\ j.target = "pending" /\ j.made
        /\ Finish(c) /\ Promise(c)
     \/ /\ j.target = "pending" /\ ~j.made
        /\ Goto(c, "readAck")
        /\ Retry(c)
        /\ UNCHANGED promised
     \/ /\ j.target = "conflict"
        /\ Finish(c) /\ Promise(c)
     \/ /\ j.target = "ack"
        /\ IF j.made \/ ack[j.id] = j.digest
           THEN Goto(c, "unlinkPending") /\ UNCHANGED job
           ELSE Finish(c)
        /\ UNCHANGED promised
  /\ UNCHANGED <<pending, ack, conflicts>> /\ ReceiverUnchanged

(***************************************************************************)
(* deliver and acknowledge                                                 *)
(***************************************************************************)

\* replay calls deliver for the ids it finds in pending/.
StartDeliver(c, i) ==
  /\ At(c, "idle")
  /\ pending[i] # NoDigest
  /\ Goto(c, "readAck")
  /\ job' = [job EXCEPT ![c] = [NoJob(i) EXCEPT !.op = "deliver"]]
  /\ UNCHANGED <<files, promised>> /\ ReceiverUnchanged

\* The pending record is read and sent; the caller awaits the sink.
ReadRecord(c) ==
  /\ At(c, "record")
  /\ IF pending[job[c].id] = NoDigest
     THEN Finish(c)
     ELSE /\ Goto(c, "await")
          /\ Holds(c, pending[job[c].id])
  /\ UNCHANGED <<files, promised>> /\ ReceiverUnchanged

\* Mutant: the receiver refuses a payload it already has.
AcceptsOnlyNew(i, d) == stored[i] = NoDigest /\ d \in Digests

\* First payload wins at the receiver.
Accepts(i, d) == stored[i] \in {NoDigest, d}
Receive(i, d) == stored' = IF Accepts(i, d) THEN [stored EXCEPT ![i] = d] ELSE stored

\* The receiver handles the request of a caller that still waits.
SinkHandles(c) ==
  LET i == job[c].id
      d == job[c].digest
  IN /\ ProcessOf[c] \in up
     /\ pc[c] = "await"
     /\ job[c].reply = "none"
     /\ Receive(i, d)
     /\ job' = [job EXCEPT ![c].reply = IF Accepts(i, d) THEN "ok" ELSE "refused"]
     /\ UNCHANGED <<files, pc, up, wire, promised, crashes, losses>>

\* The receiver handles a request whose caller has given up or crashed.
LateRequestArrives(r) ==
  /\ r \in wire
  /\ wire' = wire \ {r}
  /\ Receive(r[1], r[2])
  /\ UNCHANGED <<files, pc, job, up, promised, crashes, losses>>

Abandon(cs) ==
  wire' = wire \cup {<<job[c].id, job[c].digest>> :
                       c \in {x \in cs : pc[x] = "await" /\ job[x].reply = "none"}}

\* Mutant: a sink call that timed out counts as delivered.
SinkFailsAsDelivered(c) ==
  /\ At(c, "await")
  /\ losses < MaxLosses /\ crashes + losses < MaxFaults
  /\ losses' = losses + 1
  /\ Abandon({c})
  /\ Goto(c, "recheck")
  /\ UNCHANGED <<files, job, up, stored, promised, crashes>>

\* The sink call fails: timeout, lost reply, transport error.
SinkFails(c) ==
  /\ At(c, "await")
  /\ losses < MaxLosses /\ crashes + losses < MaxFaults
  /\ losses' = losses + 1
  /\ Abandon({c})
  /\ Finish(c)
  /\ UNCHANGED <<files, up, stored, promised, crashes>>

\* The sink call ends: a refusal fails the call, an acknowledgement is recorded.
SinkReturns(c) ==
  /\ At(c, "await")
  /\ job[c].reply # "none"
  /\ IF job[c].reply = "ok"
     THEN Goto(c, "recheck") /\ UNCHANGED job
     ELSE Finish(c)
  /\ UNCHANGED <<files, promised>> /\ ReceiverUnchanged

\* acknowledge reads the pending record again: it may have changed or gone
\* while the sink was awaited.
Recheck(c) ==
  /\ At(c, "recheck")
  /\ IF pending[job[c].id] = job[c].digest
     THEN /\ Goto(c, "temp")
          /\ Target(c, "ack")
     ELSE Finish(c)
  /\ UNCHANGED <<files, promised>> /\ ReceiverUnchanged

UnlinkPending(c) ==
  /\ At(c, "unlinkPending")
  /\ pending' = [pending EXCEPT ![job[c].id] = NoDigest]
  /\ Finish(c)
  /\ UNCHANGED <<ack, conflicts, temps, promised>> /\ ReceiverUnchanged

(***************************************************************************)
(* Crash and restart                                                       *)
(***************************************************************************)

\* A process dies: its calls vanish, its temporary file stays.
Crash(p) ==
  LET dead == {c \in Callers : ProcessOf[c] = p} IN
  /\ p \in up
  /\ crashes < MaxCrashes /\ crashes + losses < MaxFaults
  /\ crashes' = crashes + 1
  /\ up' = up \ {p}
  /\ Abandon(dead)
  /\ pc' = [c \in Callers |-> IF c \in dead THEN "idle" ELSE pc[c]]
  /\ job' = [c \in Callers |-> IF c \in dead THEN NoJob(NoId) ELSE job[c]]
  /\ UNCHANGED <<files, stored, promised, losses>>

\* The constructor: #recoverTemps removes every temporary file it finds, those
\* of other processes included, then the entries are checked.
Restart(p) ==
  /\ p \in Processes \ up
  /\ up' = up \cup {p}
  /\ temps' = {}
  /\ UNCHANGED <<pending, ack, conflicts, pc, job, stored, wire, promised,
                 crashes, losses>>

CallerStep(c) ==
  \/ ReadAck(c) \/ ReadPending(c) \/ UnlinkStale(c) \/ ReadConflict(c)
  \/ Capacity(c) \/ WriteTemp(c) \/ Link(c) \/ UnlinkTemp(c)
  \/ ReadRecord(c) \/ SinkReturns(c) \/ Recheck(c) \/ UnlinkPending(c)

Next ==
  \/ \E c \in Callers :
       \/ CallerStep(c)
       \/ \E i \in Ids : StartDeliver(c, i)
       \/ \E i \in Ids, d \in Digests : StartEnqueue(c, i, d)
       \/ SinkHandles(c)
       \/ SinkFails(c)
  \/ \E r \in wire : LateRequestArrives(r)
  \/ \E p \in Processes : Crash(p) \/ Restart(p)

Spec == Init /\ [][Next]_vars

\* A call once begun is carried on, a dead process is restarted, the receiver
\* answers a waiting caller, and replay is run again and again for what is
\* pending.
Fairness ==
  /\ \A c \in Callers : /\ WF_vars(CallerStep(c))
                        /\ WF_vars(SinkHandles(c))
  /\ \A i \in Ids : SF_vars(\E c \in Callers : StartDeliver(c, i))
  /\ \A p \in Processes : WF_vars(Restart(p))

FairSpec == Spec /\ Fairness

(***************************************************************************)
(* Properties                                                              *)
(***************************************************************************)

\* An acknowledgement on disk names the very payload the receiver stored,
\* whatever the pending record became while the sink was awaited.
AckedIsStored == \A i \in Ids : ack[i] # NoDigest => stored[i] = ack[i]

\* Once enqueue has returned, its payload is on disk for good: still pending,
\* acknowledged, or preserved as a conflict
\* (scripts/test-conversation-event-v3-outbox.mjs:124).
PromisedIsKept ==
  \A r \in promised : \/ pending[r[1]] = r[2]
                       \/ ack[r[1]] = r[2]
                       \/ r \in conflicts

\* Processes that counted before each other's write overrun the limit by at
\* most one record each; one process keeps the limit exactly.
OverrunBounded == QueueCount <= MaxPendingCount + Cardinality(Processes) - 1

\* An event with a pending record is finally stored by the receiver, and then
\* acknowledged unless the receiver has another payload of it.
EventuallyAcknowledged ==
  \A i \in Ids :
    pending[i] # NoDigest ~> /\ stored[i] # NoDigest
                             /\ \/ ack[i] = stored[i]
                                \/ pending[i] \notin {NoDigest, stored[i]}

\* The files and the sink implement the promise made to producers: the
\* acknowledgement of an event is written once, by any caller of any process,
\* after the receiver took that payload, and is never withdrawn or changed.
Delivery == INSTANCE EventDelivery WITH Payloads <- Digests, None <- NoDigest
DeliversEvents == Delivery!Spec

=============================================================================
