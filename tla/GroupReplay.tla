----------------------------- MODULE GroupReplay -----------------------------
(***************************************************************************)
(* The replay of closed groups of preserved observations                   *)
(* (src/migration/m4-legacy-group-replay-batch-runner.mjs,                 *)
(* m4-preserved-group-replay.mjs, m4-unified-logical-group-source.mjs).  A *)
(* run replays batches from the last checkpoint; a batch takes groups as   *)
(* long as they fit its limits, hands their events to the outbox, which    *)
(* delivers them to the archive, and commits a checkpoint per group.  Only *)
(* a run that has replayed the whole source signs its completion.  The     *)
(* gate, the indexes and the projection of a group are left out.           *)
(***************************************************************************)
EXTENDS Naturals, Sequences, FiniteSetsExt

CONSTANTS
  Sources,           \* sequences of groups: the members and projected events of each
  Pasts,             \* what outbox and archive may hold of the events beforehand
  MaxGroups,         \* limits of a batch: groups,
  MaxObservations,   \*   members of its groups,
  MaxOutputEvents,   \*   projected events
  MaxReplayBatches,  \* maxBatches of a run
  MaxReplayRuns,     \* bound: runs
  MaxReplayFaults    \* bound: failing calls and crashes

ASSUME ReplayAssumption ==
  /\ MaxGroups \in Nat \ {0} /\ MaxObservations \in Nat \ {0} /\ MaxOutputEvents \in Nat \ {0}
  /\ MaxReplayBatches \in Nat \ {0} /\ MaxReplayRuns \in Nat /\ MaxReplayFaults \in Nat
  \* the outbox acknowledges what the archive has
  /\ \A past \in Pasts :
       /\ past.queued \in [DOMAIN past.queued -> {"none", "pending", "acknowledged", "other"}]
       /\ past.archived \in [DOMAIN past.queued -> {"none", "same", "other"}]
       /\ \A e \in DOMAIN past.queued :
            past.queued[e] = "acknowledged" => past.archived[e] = "same"
       /\ Sources \subseteq Seq([members : Nat, events : Seq(DOMAIN past.queued)])

VARIABLES
  source,        \* the groups to replay, in their order; closed before the run
  checkpoint,    \* the last committed group, 0: none
  queued,        \* the outbox: "none", "pending", "acknowledged", "other" (payload)
  archived,      \* the archive: "none", "same" or "other" (payload)
  replay,        \* the process of the run
  completed,     \* a completion was signed
  replayRuns,
  replayFaults

replayVars == <<source, checkpoint, queued, archived, replay, completed, replayRuns, replayFaults>>

NoReplay ==
  [at |-> "off", batches |-> 0, upto |-> 0, groups |-> 0, observations |-> 0, outputs |-> 0, event |-> 1]

ReplayInit ==
  /\ source \in Sources /\ checkpoint = 0 /\ replay = NoReplay /\ completed = FALSE
  /\ replayRuns = 0 /\ replayFaults = 0
  /\ \E past \in Pasts : queued = past.queued /\ archived = past.archived

Current == source[checkpoint + 1]
Members(from, to) == LET of(g) == source[g].members IN MapThenSumSet(of, from..to)
ReplayFault == replayFaults < MaxReplayFaults /\ replayFaults' = replayFaults + 1
EndRun(how) == replay' = [NoReplay EXCEPT !.at = how]

BeginReplay ==
  /\ replay.at \in {"off", "no_progress"}
  /\ replayRuns < MaxReplayRuns /\ replayRuns' = replayRuns + 1
  /\ replay' = [NoReplay EXCEPT !.at = "open"]
  /\ UNCHANGED <<source, checkpoint, queued, archived, completed, replayFaults>>

\* The source selects groups after the checkpoint up to the first that does not fit.
Fits(last) == last - checkpoint <= MaxGroups /\ Members(checkpoint + 1, last) <= MaxObservations
Selected == Max({last \in checkpoint..Len(source) : Fits(last)})

OpenBatch ==
  /\ replay.at = "open"
  /\ replay' = [replay EXCEPT !.at = "group", !.upto = Selected,
                              !.groups = 0, !.observations = 0, !.outputs = 0]
  /\ UNCHANGED <<source, checkpoint, queued, archived, completed, replayRuns, replayFaults>>

\* The source is exhausted and was not cut short.
Exhausted == replay.groups < MaxGroups /\ checkpoint = replay.upto

\* Mutant: what was cut off from the selection is not looked at.
ExhaustedIsComplete == Exhausted

Complete == Exhausted /\ replay.upto = Len(source)

ExceedsBatch ==
  \/ replay.observations + Current.members > MaxObservations
  \/ replay.outputs + Len(Current.events) > MaxOutputEvents

AfterReplayed ==
  IF Complete THEN "sign"
  ELSE IF replay.groups = 0 THEN "no_progress"
  ELSE IF replay.batches + 1 = MaxReplayBatches THEN "off" ELSE "open"

NextGroup ==
  /\ replay.at = "group"
  /\ IF replay.groups < MaxGroups /\ checkpoint < replay.upto /\ ~ExceedsBatch
       THEN replay' = [replay EXCEPT !.at = "events", !.event = 1]
       ELSE IF AfterReplayed \in {"off", "no_progress"} THEN EndRun(AfterReplayed)
       ELSE replay' = [replay EXCEPT !.at = AfterReplayed, !.batches = @ + 1]
  /\ UNCHANGED <<source, checkpoint, queued, archived, completed, replayRuns, replayFaults>>

Event == Current.events[replay.event]
EventsLeft == replay.event <= Len(Current.events)
NextEvent == replay' = [replay EXCEPT !.at = "events", !.event = @ + 1]

\* The outbox has the event, has another payload for it, or takes it in.
Enqueue ==
  /\ replay.at = "events" /\ EventsLeft
  /\ \/ queued[Event] \in {"acknowledged", "other"} /\ NextEvent /\ UNCHANGED queued
     \/ /\ queued[Event] \in {"none", "pending"}
        /\ queued' = [queued EXCEPT ![Event] = "pending"]
        /\ replay' = [replay EXCEPT !.at = "deliver"]
  /\ UNCHANGED <<source, checkpoint, archived, completed, replayRuns, replayFaults>>

Store(e) == archived' = [archived EXCEPT ![e] = "same"]

\* The archive refuses another payload, and the run fails without an acknowledgement.
Deliver ==
  /\ replay.at = "deliver"
  /\ \/ /\ archived[Event] # "other" /\ Store(Event)
        /\ queued' = [queued EXCEPT ![Event] = "acknowledged"] /\ NextEvent
     \/ archived[Event] = "other" /\ EndRun("off") /\ UNCHANGED <<queued, archived>>
  /\ UNCHANGED <<source, checkpoint, completed, replayRuns, replayFaults>>

CommitReplayed ==
  /\ replay.at = "events" /\ ~EventsLeft
  /\ checkpoint' = checkpoint + 1
  /\ replay' = [replay EXCEPT !.at = "group", !.groups = @ + 1,
                  !.observations = @ + Current.members, !.outputs = @ + Len(Current.events)]
  /\ UNCHANGED <<source, queued, archived, completed, replayRuns, replayFaults>>

Sign ==
  /\ replay.at = "sign" /\ completed' = TRUE /\ EndRun("off")
  /\ UNCHANGED <<source, checkpoint, queued, archived, replayRuns, replayFaults>>

\* A call fails, or the process dies: the call may have taken effect.
ReplayFails ==
  /\ replay.at \notin {"off", "no_progress"} /\ ReplayFault /\ EndRun("off")
  /\ \/ UNCHANGED <<checkpoint, queued, archived>>
     \/ /\ replay.at = "events" /\ EventsLeft /\ queued[Event] = "none"
        /\ queued' = [queued EXCEPT ![Event] = "pending"] /\ UNCHANGED <<checkpoint, archived>>
     \/ /\ replay.at = "deliver" /\ archived[Event] # "other" /\ Store(Event)
        /\ UNCHANGED <<checkpoint, queued>>
     \/ /\ replay.at = "events" /\ ~EventsLeft
        /\ checkpoint' = checkpoint + 1 /\ UNCHANGED <<queued, archived>>
  /\ UNCHANGED <<source, completed, replayRuns>>

ReplayNext ==
  \/ BeginReplay \/ OpenBatch \/ NextGroup \/ Enqueue \/ Deliver \/ CommitReplayed \/ Sign \/ ReplayFails

ReplayTypeOK ==
  /\ source \in Sources /\ checkpoint \in 0..Len(source) /\ completed \in BOOLEAN
  /\ replayRuns \in 0..MaxReplayRuns /\ replayFaults \in 0..MaxReplayFaults
  /\ \A e \in DOMAIN queued : queued[e] \in {"none", "pending", "acknowledged", "other"}
  /\ \A e \in DOMAIN archived : archived[e] \in {"none", "same", "other"}
  /\ replay \in [at : {"off", "no_progress", "open", "group", "events", "deliver", "sign"},
       batches : 0..MaxReplayBatches, upto : 0..Len(source), groups : 0..MaxGroups,
       observations : 0..MaxObservations, outputs : 0..MaxOutputEvents, event : Nat]

(***************************************************************************)
(* Property                                                                *)
(***************************************************************************)

\* "Emits signed completion evidence only after the complete source has been
\* durably checkpointed" and "commits one content-free checkpoint only after every
\* event reaches accepted, duplicate, or conflict"
\* (docs/m4-legacy-group-replay-batch-runner-v1.md, m4-preserved-group-replay-v1.md);
\* a run gives up for lack of progress only before a group that no batch can hold.
CompletionIsEarned ==
  /\ completed => checkpoint = Len(source)
  /\ \A g \in 1..checkpoint : \A i \in 1..Len(source[g].events) :
       LET e == source[g].events[i] IN
       queued[e] = "other" \/ (queued[e] = "acknowledged" /\ archived[e] = "same")
  /\ replay.at = "no_progress" =>
       Current.members > MaxObservations \/ Len(Current.events) > MaxOutputEvents

=============================================================================
