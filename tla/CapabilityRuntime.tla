-------------------------- MODULE CapabilityRuntime --------------------------
(***************************************************************************)
(* Start and close of the capability listener                              *)
(* (src/capability-mcp-server-runtime.mjs).  The bootstrap opens one       *)
(* resource after the other, makes them ready and listens; close may be    *)
(* called, by the program or by a signal, in any of its awaits.  What a    *)
(* resource is for is left out; closing a server also ends a listen that   *)
(* has not been answered, as Node does.                                    *)
(***************************************************************************)
EXTENDS Naturals, FiniteSets

CONSTANTS
  LastResource,    \* stores, verifier, reader: opened in the order 1..LastResource
  MaxGenerations   \* bound: starts and closes

ASSUME RuntimeAssumption == LastResource \in Nat \ {0} /\ MaxGenerations \in Nat \ {0}

VARIABLES
  state,         \* "idle", "starting", "started", "closing"
  generation,
  boot,          \* the pending start, "none" when startPromise is null
  closer,        \* the pending close, "none" when closePromise is null
  owned,         \* the variable resources
  server,        \* the variable server is set
  draining,      \* what each of the two has taken and has still to close
  opened,        \* resources and the server, as long as they are open
  signals        \* the signal listeners are installed

runtimeVars == <<state, generation, boot, closer, owned, server, draining, opened, signals>>

Http == LastResource + 1
RuntimeResources == 1..LastResource
NoBoot == [at |-> "none", token |-> 0, item |-> 1]
NoCloser == [at |-> "none", pendingStart |-> FALSE]

RuntimeInit ==
  /\ state = "idle" /\ generation = 0 /\ boot = NoBoot /\ closer = NoCloser
  /\ owned = {} /\ server = FALSE /\ draining = [who \in {"boot", "close"} |-> {}]
  /\ opened = {} /\ signals = FALSE

Stale == boot.token # generation \/ state = "closing"

\* Server and resources change hands in one step; they are closed one by one.
Drain(who) ==
  /\ draining' = [draining EXCEPT ![who] = owned \cup IF server THEN {Http} ELSE {}]
  /\ owned' = {} /\ server' = FALSE

BootGoto(step, item) == boot' = [boot EXCEPT !.at = step, !.item = item]

CatchBoot ==
  /\ Drain("boot") /\ BootGoto("catch", 1) /\ UNCHANGED <<state, signals, opened>>

StartRuntime ==
  /\ state = "idle" /\ boot = NoBoot /\ closer = NoCloser
  /\ generation < MaxGenerations /\ generation' = generation + 1
  /\ state' = "starting"
  /\ boot' = [at |-> "create", token |-> generation + 1, item |-> 1]
  /\ UNCHANGED <<closer, owned, server, draining, opened, signals>>

\* A factory answers: what it has made is owned, or closed by a bootstrap that is
\* no longer wanted.
FactoryAnswers ==
  /\ boot.at = "create"
  /\ \/ /\ opened' = opened \cup {boot.item}
        /\ IF Stale THEN BootGoto("drop", boot.item) /\ UNCHANGED owned
                    ELSE BootGoto("owned", boot.item) /\ owned' = owned \cup {boot.item}
        /\ UNCHANGED <<state, server, draining, signals>>
     \/ CatchBoot
  /\ UNCHANGED <<generation, closer>>

DropStale ==
  /\ boot.at = "drop"
  /\ Drain("boot") /\ BootGoto("catch", 1)
  /\ opened' = opened \ {boot.item}
  /\ UNCHANGED <<state, signals, generation, closer>>

Owned ==
  /\ boot.at = "owned"
  /\ \/ Stale /\ CatchBoot
     \/ /\ ~Stale
        /\ IF boot.item = LastResource THEN BootGoto("ready", 1) ELSE BootGoto("create", boot.item + 1)
        /\ UNCHANGED <<state, owned, server, draining, opened, signals>>
  /\ UNCHANGED <<generation, closer>>

\* A resource is ready; after the last one the server is made and told to listen.
Ready ==
  /\ boot.at = "ready"
  /\ \/ CatchBoot
     \/ ~Stale /\ boot.item < LastResource /\ BootGoto("ready", boot.item + 1)
        /\ UNCHANGED <<state, owned, server, draining, opened, signals>>
     \/ ~Stale /\ boot.item = LastResource /\ BootGoto("listen", 1)
        /\ server' = TRUE /\ opened' = opened \cup {Http}
        /\ UNCHANGED <<state, owned, draining, signals>>
  /\ UNCHANGED <<generation, closer>>

ListenAnswered ==
  /\ boot.at = "listen" /\ \E step \in {"listened", "cancelled"} : BootGoto(step, 1)
  /\ UNCHANGED <<state, generation, closer, owned, server, draining, opened, signals>>

Listened ==
  /\ boot.at \in {"listened", "cancelled"}
  /\ \/ (boot.at = "cancelled" \/ Stale) /\ CatchBoot
     \/ /\ boot.at = "listened" /\ ~Stale
        /\ state' = "started" /\ signals' = TRUE /\ boot' = NoBoot
        /\ UNCHANGED <<owned, server, draining, opened>>
  /\ UNCHANGED <<generation, closer>>

\* The server first, then the resources in the reverse order of their opening.
CloseOne(who) ==
  /\ draining[who] # {}
  /\ LET last == CHOOSE x \in draining[who] : \A y \in draining[who] : y <= x IN
     /\ opened' = opened \ {last}
     /\ draining' = [draining EXCEPT ![who] = @ \ {last}]
  /\ UNCHANGED <<state, generation, boot, closer, owned, server, signals>>

BootFails ==
  /\ boot.at = "catch" /\ draining.boot = {} /\ boot' = NoBoot
  /\ state' = IF state = "closing" THEN state ELSE "idle"
  /\ UNCHANGED <<generation, closer, owned, server, draining, opened, signals>>

\* A pending listen is cancelled at once; a second call shares the first one's end.
CloseRuntime ==
  /\ closer = NoCloser
  /\ generation < MaxGenerations /\ generation' = generation + 1
  /\ state' = "closing"
  /\ IF boot.at = "listen" THEN BootGoto("cancelled", 1) ELSE UNCHANGED boot
  /\ Drain("close") /\ closer' = [at |-> "drain", pendingStart |-> boot # NoBoot]
  /\ UNCHANGED <<opened, signals>>

\* Mutant: the pending bootstrap is not awaited.
CloseGoesOn ==
  /\ closer.at = "drain" /\ draining.close = {}
  /\ Drain("close") /\ closer' = [closer EXCEPT !.at = "last"]
  /\ UNCHANGED <<state, generation, boot, opened, signals>>

\* The bootstrap that was pending is awaited before the second drain.
CloseAwaits ==
  /\ closer.at = "drain" /\ draining.close = {} /\ (closer.pendingStart => boot = NoBoot)
  /\ Drain("close") /\ closer' = [closer EXCEPT !.at = "last"]
  /\ UNCHANGED <<state, generation, boot, opened, signals>>

Closed ==
  /\ closer.at = "last" /\ draining.close = {}
  /\ closer' = NoCloser /\ state' = "idle" /\ signals' = FALSE
  /\ UNCHANGED <<generation, boot, owned, server, draining, opened>>

RuntimeNext ==
  \/ StartRuntime \/ FactoryAnswers \/ DropStale \/ Owned \/ Ready \/ ListenAnswered \/ Listened
  \/ CloseOne("boot") \/ CloseOne("close") \/ BootFails \/ CloseRuntime \/ CloseAwaits \/ Closed

RuntimeTypeOK ==
  /\ state \in {"idle", "starting", "started", "closing"} /\ generation \in 0..MaxGenerations
  /\ boot \in [at : {"none", "create", "drop", "owned", "ready", "listen", "listened", "cancelled", "catch"},
               token : 0..MaxGenerations, item : RuntimeResources]
  /\ closer \in [at : {"none", "drain", "last"}, pendingStart : BOOLEAN]
  /\ owned \subseteq RuntimeResources /\ server \in BOOLEAN /\ signals \in BOOLEAN
  /\ draining \in [{"boot", "close"} -> SUBSET (1..Http)] /\ opened \subseteq 1..Http

(***************************************************************************)
(* Property                                                                *)
(***************************************************************************)

\* Between starts nothing is open and no bootstrap goes on, so that a closed
\* runtime may be started again; while it serves, everything it serves with is
\* open (start and close of src/capability-mcp-server-runtime.mjs).
OpenOnlyWhileStarted ==
  /\ state = "idle" => opened = {} /\ boot = NoBoot /\ ~signals
  /\ state = "started" => opened = 1..Http

=============================================================================
