-------------------------- MODULE MemoryExtractor --------------------------
(***************************************************************************)
(* The scheduled extraction of memories from conversations                 *)
(* (scripts/amf-conversation-memory-extractor.mjs, tick; reader generation *)
(* conversation-v3).  One tick at a time, under flock: it takes the newest *)
(* conversation before a cursor, pays for one model call, and proposes the *)
(* claims the call returned that no canonical memory states yet.  What a   *)
(* later tick needs is in one state file.  Archive, curators and calendar  *)
(* go on meanwhile.                                                        *)
(*                                                                         *)
(* A conversation is the time of its newest message, which also stands for *)
(* its visible revision; the two queries of a page are taken as one. The   *)
(* quality gate in front of a tick is taken to pass. A record is rebuilt   *)
(* with the time of the tick, so two builds of one claim differ: `mine` are*)
(* the proposals whose stored record is the one in flight. Input and output*)
(* tokens are reserved and settled alike; a reservation is one unit.       *)
(***************************************************************************)
EXTENDS Naturals, FiniteSets

CONSTANTS
  Conversations,
  Texts,             \* claims a model call may return
  DailyBudget,       \* units of model input a day may use
  MaxCost,           \* bound: what a call may really cost
  MaxTime,           \* bound: messages
  MaxDay,            \* bound: days
  MaxTickFaults      \* bound: killed ticks, failed requests and model calls

ASSUME ExtractorAssumption ==
  {DailyBudget, MaxCost, MaxTime, MaxDay, MaxTickFaults} \subseteq Nat /\ MaxCost >= 1 /\ MaxDay >= 1

VARIABLES
  newest,       \* time of the newest message of each conversation
  durable,      \* conversations whose text passes triage
  canonical,    \* texts of canonical memories
  proposed,     \* idempotency keys of proposals in the Fabric
  mine,         \* those whose stored record is the one in flight
  file,         \* state file of the extractor
  tick,         \* the tick under way
  today,
  spent,        \* history: what the calls reserved on each day have cost
  passed,       \* history: paid claims of conversations the cursor moved past
  tickFaults

extractorVars == <<newest, durable, canonical, proposed, mine, file, tick, today, spent, passed, tickFaults>>
world == <<newest, durable, canonical, today>>
history == <<spent, passed>>

Days == 1..MaxDay
NothingInFlight == [stage |-> "none", conv |-> "", rev |-> 0, day |-> 0, claims |-> {}, records |-> {}]
NoTick == [at |-> "idle", conv |-> "", rev |-> 0, next |-> 0, cost |-> 0, claims |-> {}, todo |-> {}]

\* Idempotency key: conversation, visible revision, normalized claim.
KeyOf(t) == [conv |-> tick.conv, rev |-> tick.rev, text |-> t]

ExtractorInit ==
  /\ newest = [c \in Conversations |-> 0] /\ durable = {} /\ canonical = {}
  /\ proposed = {} /\ mine = {}
  /\ file = [cursor |-> 0, inFlight |-> NothingInFlight,
             used |-> [d \in Days |-> 0], reserved |-> [d \in Days |-> 0]]
  /\ tick = NoTick /\ today = 1
  /\ spent = [d \in Days |-> 0] /\ passed = {} /\ tickFaults = 0

TAt(step) == tick.at = step
TickFault == tickFaults < MaxTickFaults /\ tickFaults' = tickFaults + 1
Saved(inFlight) == file' = [file EXCEPT !.inFlight = inFlight]
EndTick == tick' = NoTick

(***************************************************************************)
(* The world                                                               *)
(***************************************************************************)
Now == CHOOSE t \in 0..MaxTime :
  (\A c \in Conversations : newest[c] <= t) /\ (t = 0 \/ \E c \in Conversations : newest[c] = t)

Message(c) ==
  /\ Now < MaxTime
  /\ newest' = [newest EXCEPT ![c] = Now + 1]
  /\ durable' \in {durable \cup {c}, durable \ {c}}
  /\ UNCHANGED <<canonical, proposed, mine, file, tick, today, history, tickFaults>>

\* A curator makes a proposed claim canonical; another proposal he may reject.
Curate ==
  /\ \E k \in proposed : canonical' = canonical \cup {k.text} /\ k.text \notin canonical
  /\ UNCHANGED <<newest, durable, proposed, mine, file, tick, today, history, tickFaults>>

NewDay ==
  /\ today < MaxDay /\ today' = today + 1
  /\ UNCHANGED <<newest, durable, canonical, proposed, mine, file, tick, history, tickFaults>>

(***************************************************************************)
(* A tick                                                                  *)
(***************************************************************************)
Blocked == file.inFlight.stage = "model_pending"

\* Mutant: a pending reservation does not stop the next tick.
MayRunAlways == TRUE

MayRun == ~Blocked

StartTick ==
  /\ TAt("idle") /\ MayRun
  /\ tick' = [NoTick EXCEPT !.at = "fetch"]
  /\ UNCHANGED <<world, proposed, mine, file, history, tickFaults>>

\* A page of one row: the newest conversation before the cursor, and a cursor
\* if there is an older one.  An empty page ends the tick with nothing changed.
Before(cursor) == {c \in Conversations : newest[c] # 0 /\ (cursor # 0 => newest[c] < cursor)}

FetchSession ==
  /\ TAt("fetch")
  /\ IF Before(file.cursor) = {} THEN EndTick
     ELSE \E c \in Before(file.cursor) :
       /\ \A o \in Before(file.cursor) : newest[o] <= newest[c]
       /\ tick' = [tick EXCEPT !.at = "triage", !.conv = c, !.rev = newest[c],
                     !.next = IF Before(newest[c]) = {} THEN 0 ELSE newest[c]]
  /\ UNCHANGED <<world, proposed, mine, file, history, tickFaults>>

\* What the cursor moves to, with nothing in flight any more.
CursorMoved == [file EXCEPT !.cursor = tick.next, !.inFlight = NothingInFlight]

\* The transcript is read after the page: it may be newer than the revision.
Discard ==
  /\ TAt("triage") /\ tick.conv \notin durable
  /\ file' = CursorMoved /\ EndTick
  /\ UNCHANGED <<world, proposed, mine, history, tickFaults>>

Resumable ==
  /\ file.inFlight.stage \in {"model_done", "proposing"}
  /\ file.inFlight.conv = tick.conv /\ file.inFlight.rev = tick.rev

\* Mutant: whatever is resumed has its records already.
ResumeStage == "post"

StageOfResume == IF file.inFlight.stage = "proposing" THEN "post" ELSE "search"

Resume ==
  /\ TAt("triage") /\ tick.conv \in durable /\ Resumable
  /\ tick' = [tick EXCEPT !.at = StageOfResume, !.claims = file.inFlight.claims,
                          !.todo = file.inFlight.records]
  /\ UNCHANGED <<world, proposed, mine, file, history, tickFaults>>

\* The subscription plan is short, or its state unknown: nothing is paid.
PlanConstrained ==
  /\ TAt("triage") /\ tick.conv \in durable /\ ~Resumable
  /\ TickFault /\ EndTick
  /\ UNCHANGED <<world, proposed, mine, file, history>>

WithinBudget == file.used[today] + file.reserved[today] + 1 <= DailyBudget

BudgetExhausted ==
  /\ TAt("triage") /\ tick.conv \in durable /\ ~Resumable /\ ~WithinBudget
  /\ EndTick
  /\ UNCHANGED <<world, proposed, mine, file, history, tickFaults>>

Reserve ==
  /\ TAt("triage") /\ tick.conv \in durable /\ ~Resumable /\ WithinBudget
  /\ file' = [file EXCEPT !.reserved[today] = @ + 1,
                !.inFlight = [NothingInFlight EXCEPT !.stage = "model_pending", !.conv = tick.conv,
                                             !.rev = tick.rev, !.day = today]]
  /\ tick' = [tick EXCEPT !.at = "model"]
  /\ UNCHANGED <<world, proposed, mine, history, tickFaults>>

Paid(cost) == spent' = [spent EXCEPT ![file.inFlight.day] = @ + cost]

ModelRuns ==
  /\ TAt("model")
  /\ \E cost \in 1..MaxCost, claims \in SUBSET Texts :
       Paid(cost) /\ tick' = [tick EXCEPT !.at = "settle", !.cost = cost, !.claims = claims]
  /\ UNCHANGED <<world, proposed, mine, file, passed, tickFaults>>

\* A timeout, an unreadable answer or missing usage: the reservation stays.
ModelFails ==
  /\ TAt("model") /\ TickFault
  /\ \E cost \in 0..MaxCost : Paid(cost)
  /\ EndTick
  /\ UNCHANGED <<world, proposed, mine, file, passed>>

Settle ==
  /\ TAt("settle")
  /\ LET d == file.inFlight.day IN
     file' = [file EXCEPT !.used[d] = @ + tick.cost, !.reserved[d] = @ - 1,
                !.inFlight.stage = "model_done", !.inFlight.claims = tick.claims]
  /\ tick' = [tick EXCEPT !.at = "search"]
  /\ UNCHANGED <<world, proposed, mine, history, tickFaults>>

\* Records of the claims no canonical memory states, built at this time, are
\* written before the first of them is posted.
SearchAndRecord ==
  /\ TAt("search")
  /\ LET records == tick.claims \ canonical IN
     /\ Saved([file.inFlight EXCEPT !.stage = "proposing", !.records = records])
     /\ tick' = [tick EXCEPT !.at = "post", !.todo = records]
  /\ mine' = {}
  /\ UNCHANGED <<world, proposed, history, tickFaults>>

\* The Fabric answers a known key with the same record as a duplicate and with
\* another one as a conflict (FabricProposals), which ends the tick.
ConflictsWith(t) == KeyOf(t) \in proposed \ mine

Post ==
  /\ TAt("post")
  /\ \E t \in tick.todo :
       /\ ~ConflictsWith(t)
       /\ proposed' = proposed \cup {KeyOf(t)} /\ mine' = mine \cup {KeyOf(t)}
       /\ tick' = [tick EXCEPT !.todo = @ \ {t}]
  /\ UNCHANGED <<world, file, history, tickFaults>>

PostConflicts ==
  /\ TAt("post") /\ \E t \in tick.todo : ConflictsWith(t)
  /\ EndTick
  /\ UNCHANGED <<world, proposed, mine, file, history, tickFaults>>

\* The proposal is stored and the answer lost.
PostUnanswered ==
  /\ TAt("post") /\ TickFault
  /\ \E t \in tick.todo :
       ~ConflictsWith(t) /\ proposed' = proposed \cup {KeyOf(t)} /\ mine' = mine \cup {KeyOf(t)}
  /\ EndTick
  /\ UNCHANGED <<world, file, history>>

AdvanceCursor ==
  /\ TAt("post") /\ tick.todo = {}
  /\ file' = CursorMoved /\ EndTick
  /\ passed' = passed \cup {KeyOf(t) : t \in tick.claims}
  /\ UNCHANGED <<world, proposed, mine, spent, tickFaults>>

\* A killed tick, or a failed request: what the file holds is what remains.
KillTick ==
  /\ ~TAt("idle") /\ TickFault /\ EndTick
  /\ UNCHANGED <<world, proposed, mine, file, history>>

TickSteps ==
  \/ StartTick \/ FetchSession \/ Discard \/ Resume \/ BudgetExhausted \/ Reserve \/ ModelRuns
  \/ Settle \/ SearchAndRecord \/ Post \/ PostConflicts \/ AdvanceCursor

ExtractorNext ==
  \/ TickSteps \/ PlanConstrained \/ ModelFails \/ PostUnanswered \/ KillTick
  \/ (\E c \in Conversations : Message(c)) \/ Curate \/ NewDay

ExtractorSpec == ExtractorInit /\ [][ExtractorNext]_extractorVars

\* The timer starts a tick every interval, and a tick that is not killed goes on.
ExtractorFairSpec == ExtractorSpec /\ WF_extractorVars(TickSteps)

(***************************************************************************)
(* Properties                                                              *)
(***************************************************************************)

\* Every call is in the ledger of its day: settled with what it cost or, once, as
\* the pending reservation that stops all ticks; and a call starts only if what the
\* calls of its day have cost leaves room for it, whatever was killed in between.
CallsAreInLedger ==
  \A d \in Days :
    LET pending == Blocked /\ file.inFlight.day = d IN
    /\ file.reserved[d] = IF pending THEN 1 ELSE 0
    /\ pending \/ file.used[d] = spent[d]
    /\ pending /\ TAt("model") => spent[d] + 1 <= DailyBudget

\* When the cursor has moved past a conversation, each claim paid for is a proposal
\* or is stated by a canonical memory, however often the tick was interrupted.
PaidIsProposed ==
  \A k \in passed : k \in proposed \/ k.text \in canonical

\* What a tick pays for is accounted: the call in the ledger, its claims as proposals
\* (tick, scripts/amf-conversation-memory-extractor.mjs:192-255).
PaidWorkIsAccounted == CallsAreInLedger /\ PaidIsProposed

\* A result that is being proposed is finally proposed: "On restart it repeats that
\* same proposal and observes the Fabric duplicate acknowledgement before moving the
\* cursor" (docs/raw-memory-extractor.md:98-100).
ProposalsFinish == (file.inFlight.stage = "proposing") ~> (file.inFlight.stage # "proposing")

=============================================================================
