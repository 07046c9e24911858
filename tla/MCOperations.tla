---------------------------- MODULE MCOperations ----------------------------
(***************************************************************************)
(* The commands of operators and administrators, and the timers and        *)
(* listeners beside the store, on small instances.  They touch different   *)
(* files and rows, so one behaviour exercises one of them: the run's       *)
(* states are the sum of theirs.                                           *)
(***************************************************************************)
EXTENDS MCProvisioning, RouteCutover, HostIntegration, BackfillLease, ReleaseInstall,
        MemoryExtractor, FabricIdentities, IdentityTraversal, GroupReplay,
        AuditSampler, AuditCollection, CapabilityRuntime, HostCatalog, FabricServer

\* Two rollbacks of the first execution, so that the second one is a late one.
FirstOrSecond == [r \in {"rb1", "rb2", "rb3"} |-> IF r = "rb3" THEN "ex2" ELSE "ex1"]

\* Two instances for one vault, and a vault the earlier layout serves.
Vaults == [i \in {"a", "b", "old"} |-> IF i = "old" THEN "w" ELSE "v"]

\* Backfill: one host, a process that dies and two contenders, one of them twice.
OneHost == [p \in Processes |-> "here"]
TwiceForOne == [p \in Processes |-> IF p = "p2" THEN 2 ELSE 1]

\* Releases: the second one drops a file of the first and adds one.
TwoReleases == <<{1, 2}, {2, 3}>>

(***************************************************************************)
(* Identities: merges around a cycle of three, one of them in the other    *)
(* direction as well; a split and a second merge; a key that is used twice.*)
(***************************************************************************)
Ask(kind, from, target, expected, key) ==
  [op |-> kind, source |-> from, target |-> target, expected |-> expected, key |-> key]

Merges == {Ask("merge", "a", "b", 1, "k1"), Ask("merge", "b", "a", 1, "k2"),
           Ask("merge", "b", "c", 1, "k3"), Ask("merge", "c", "a", 1, "k4")}
AllIdentityRequests ==
  Merges \cup {Ask("create", "a", Nobody, 0, "k5"), Ask("create", "d", Nobody, 0, "k6"),
               Ask("split", "a", Nobody, 2, "k7"), Ask("merge", "a", "c", 3, "k8")}

(***************************************************************************)
(* Traversal: the attested catalog has two identity blocks; other contents *)
(* differ in one block, or have an accepted group where it has an excluded *)
(* one.                                                                    *)
(***************************************************************************)
AttestedCatalog == <<Excluded, "b1", "b2", Excluded, Excluded, Excluded>>
CatalogContents ==
  {AttestedCatalog, <<Excluded, "b3", "b2", Excluded, Excluded, Excluded>>,
   <<Excluded, "b1", Excluded, Excluded, "b2">>}

(***************************************************************************)
(* Replay: a source that batches cut by groups, by members and by events,  *)
(* and one whose last group fits no batch.  Of each event outbox and       *)
(* archive may hold nothing, the same payload or another one.              *)
(***************************************************************************)
Group(members, events) == [members |-> members, events |-> events]

GroupSources ==
  {<<Group(1, <<"e1">>), Group(2, <<>>), Group(1, <<"e2", "e3">>), Group(2, <<"e4">>)>>,
   <<Group(1, <<"e1">>), Group(2, <<"e2", "e3", "e4">>)>>}

PastOfEvent == {<<"none", "none">>, <<"none", "same">>, <<"none", "other">>,
                <<"acknowledged", "same">>, <<"other", "other">>}
SomePasts ==
  {[queued |-> [e \in {"e1", "e2", "e3", "e4"} |-> IF e = "e1" THEN "none" ELSE past[e][1]],
    archived |-> [e \in {"e1", "e2", "e3", "e4"} |-> IF e = "e1" THEN "none" ELSE past[e][2]]] :
      past \in [{"e2", "e3", "e4"} -> PastOfEvent]}

\* Files of a host: a directory with as many entries as its limit, and the root with more.
HostTree == [d \in {"r", "d"} |-> IF d = "r" THEN <<"d", "z">> ELSE <<"f">>]
HostOrder == <<"r", "d", "f", "z">>

(***************************************************************************)
(* The server: every route by itself, and sessions that are opened, used   *)
(* by a tool and deleted, by two requests, while the permission of the only*)
(* token is withdrawn and then the token itself.                           *)
(***************************************************************************)
Withdrawn ==
  <<[b \in Bearers |-> "granted"], [b \in Bearers |-> "denied"], [b \in Bearers |-> "revoked"]>>
OneRequest ==
  {[routes |-> {r}, requests |-> 1] : r \in DOMAIN RestRoutes \cup DOMAIN ToolRoutes}
AllMixes ==
  OneRequest \cup {[routes |-> {"stream_open", "tool_write", "session_delete"}, requests |-> 2]}

VARIABLE exercised    \* the command a behaviour is about

adminVars == <<provisioningVars, cutoverVars, hostVars, releaseVars>>
migrationVars == <<leaseVars, identityVars, traversalVars, replayVars>>
serverVars == <<extractorVars, samplerVars, collectionVars, runtimeVars, catalogVars, httpVars>>

OperationsInit ==
  /\ ProvisioningInit /\ CutoverInit /\ HostInit /\ ReleaseInit
  /\ LeaseInit /\ IdentityInit /\ TraversalInit /\ ReplayInit
  /\ ExtractorInit /\ SamplerInit /\ CollectionInit /\ RuntimeInit /\ CatalogInit /\ ServerInit
  /\ exercised \in {"provisioning", "cutover", "host", "release",
                   "backfill", "identities", "traversal", "replay",
                   "extraction", "sampler", "collection", "listener", "catalog", "requests"}
  /\ exercised = "provisioning" \/ team = CHOOSE t \in Teams : TRUE
  /\ \/ exercised = "requests"
     \/ mix = (CHOOSE m \in Mixes : TRUE) /\ sourceKind = "local"
  /\ \/ exercised = "replay"
     \/ /\ source = CHOOSE s \in Sources : TRUE
        /\ \A e \in DOMAIN queued : queued[e] = "none" /\ archived[e] = "none"

OperationsNext ==
  \/ exercised = "provisioning" /\ ProvisioningNext
       /\ UNCHANGED <<cutoverVars, hostVars, releaseVars, migrationVars, serverVars>>
  \/ exercised = "cutover" /\ CutoverNext
       /\ UNCHANGED <<provisioningVars, hostVars, releaseVars, migrationVars, serverVars>>
  \/ exercised = "host" /\ HostNext
       /\ UNCHANGED <<provisioningVars, cutoverVars, releaseVars, migrationVars, serverVars>>
  \/ exercised = "release" /\ ReleaseNext
       /\ UNCHANGED <<provisioningVars, cutoverVars, hostVars, migrationVars, serverVars>>
  \/ exercised = "backfill" /\ LeaseNext
       /\ UNCHANGED <<identityVars, traversalVars, replayVars, adminVars, serverVars>>
  \/ exercised = "identities" /\ IdentityNext
       /\ UNCHANGED <<leaseVars, traversalVars, replayVars, adminVars, serverVars>>
  \/ exercised = "traversal" /\ TraversalNext
       /\ UNCHANGED <<leaseVars, identityVars, replayVars, adminVars, serverVars>>
  \/ exercised = "replay" /\ ReplayNext
       /\ UNCHANGED <<leaseVars, identityVars, traversalVars, adminVars, serverVars>>
  \/ exercised = "extraction" /\ ExtractorNext
       /\ UNCHANGED <<adminVars, migrationVars, samplerVars, collectionVars,
                      runtimeVars, catalogVars, httpVars>>
  \/ exercised = "sampler" /\ SamplerNext
       /\ UNCHANGED <<adminVars, migrationVars, extractorVars, collectionVars,
                      runtimeVars, catalogVars, httpVars>>
  \/ exercised = "collection" /\ CollectionNext
       /\ UNCHANGED <<adminVars, migrationVars, extractorVars, samplerVars,
                      runtimeVars, catalogVars, httpVars>>
  \/ exercised = "listener" /\ RuntimeNext
       /\ UNCHANGED <<adminVars, migrationVars, extractorVars, samplerVars,
                      collectionVars, catalogVars, httpVars>>
  \/ exercised = "catalog" /\ CatalogNext
       /\ UNCHANGED <<adminVars, migrationVars, extractorVars, samplerVars,
                      collectionVars, runtimeVars, httpVars>>
  \/ exercised = "requests" /\ ServerNext
       /\ UNCHANGED <<adminVars, migrationVars, extractorVars, samplerVars,
                      collectionVars, runtimeVars, catalogVars>>

OperationsSpec ==
  OperationsInit /\
  [][OperationsNext /\ UNCHANGED exercised]_<<adminVars, migrationVars, serverVars, exercised>>

=============================================================================
