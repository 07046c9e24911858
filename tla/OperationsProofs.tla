-------------------------- MODULE OperationsProofs --------------------------
(***************************************************************************)
(* For every value of their constants: what the HTTP server answers, what  *)
(* a replay of preserved groups completes, what installing a release       *)
(* leaves behind, and what commands on a host do to its vaults.            *)
(*                                                                         *)
(* The argument about the server.  Every handler is a sequence of steps in *)
(* one order (OrderedSteps): its outcome is audited last, nothing but that *)
(* audit follows a write, and the policy is asked after the session was    *)
(* found.  So what a request has left behind at a step (Left) follows from *)
(* the steps before it, a step adds only its own row or effect, and        *)
(* authorization stays as old as the request because the registry a        *)
(* request compares with only moves on (InThePast).  The table of sessions *)
(* is bounded because a request reserves its place when it is admitted.    *)
(*                                                                         *)
(* The argument about the replay.  A group is in hand while its events are *)
(* settled one after the other (EventsOK); settled is for good, so the     *)
(* checkpoint may pass it.  A batch that has not committed anything knows  *)
(* that its selection was as long as the limits allow (SelectionOK), so a  *)
(* run without progress has met a group that exceeds them by itself.       *)
(*                                                                         *)
(* The argument about releases.  The journal of a run has one record per   *)
(* path it has touched, what the path held is staged (JournalOK), and every*)
(* other path is as it was (OthersOK); so going back through the journal   *)
(* restores the tree, and a failed restoration leaves its file staged.  The*)
(* lock keeps any other run from touching the tree meanwhile.              *)
(*                                                                         *)
(* The argument about hosts.  An instance claims its vault with any of its *)
(* environment file, timer unit and running timer.  No two claim one vault *)
(* (ClaimsDiffer), because a command whose instance does not claim it      *)
(* alone neither makes a claim nor has one to restore (SoleClaim).  The    *)
(* undo list names each file it changed once (UndoOK), so going back       *)
(* through it gives the files of before.                                   *)
(***************************************************************************)
EXTENDS FabricServer, GroupReplay, ReleaseInstall, HostIntegration, FiniteSetTheorems,
        SequenceTheorems, TLAPS

ServerSpec == ServerInit /\ [][ServerNext]_httpVars

(***************************************************************************)
(* The handlers.                                                           *)
(***************************************************************************)

StepNames ==
  {"permit", "check", "body", "read", "effect", "store", "intent", "audit", "register", "drop"}

\* An outcome is audited last, nothing but its audit follows a write, and the
\* policy is compared after the session has been found.
OrderedSteps(steps) ==
  \A i, j \in 1..Len(steps) : i < j =>
    /\ steps[i] # "audit"
    /\ steps[i] \in {"effect", "store"} => steps[j] = "audit"
    /\ steps[i] = "permit" => steps[j] # "register"

SoundRoute(h) == h.steps \in Seq(StepNames) /\ h.steps # <<>> /\ OrderedSteps(h.steps)

\* The body and the session come before a handler without disturbing its order.
LEMMA AfterIsSound ==
  ASSUME NEW core, SoundRoute(core), NEW steps \in {<<"body">>, <<"body", "register">>}
  PROVE  SoundRoute(After(steps, core))
<1> DEFINE all == steps \o core.steps
<1>1. steps \in Seq({"body", "register"}) /\ core.steps \in Seq(StepNames)
  <2>1. CASE steps = <<"body">>
    BY <2>1 DEF SoundRoute
  <2>2. CASE steps = <<"body", "register">>
    BY <2>2 DEF SoundRoute
  <2> QED
    BY <2>1, <2>2
<1>2. all \in Seq(StepNames) /\ Len(all) = Len(steps) + Len(core.steps) /\ Len(all) > 0
  <2>1. steps \in Seq(StepNames)
    <3>1. \A i \in 1..Len(steps) : steps[i] \in StepNames
      BY <1>1 DEF StepNames
    <3> QED
      BY <1>1, <3>1
  <2> QED
    BY <1>1, <2>1 DEF SoundRoute
<1>3. ASSUME NEW i \in 1..Len(all)
      PROVE  \/ i <= Len(steps) /\ all[i] \in {"body", "register"}
             \/ i - Len(steps) \in 1..Len(core.steps) /\ all[i] = core.steps[i - Len(steps)]
  <2>1. Len(steps) \in Nat /\ Len(core.steps) \in Nat
    BY <1>1
  <2>2. CASE i <= Len(steps)
    <3>1. all[i] = steps[i] /\ i \in 1..Len(steps)
      BY <1>1, <2>1, <2>2
    <3> QED
      BY <1>1, <2>2, <3>1
  <2>3. CASE i > Len(steps)
    BY <1>1, <1>2, <2>1, <2>3
  <2> QED
    BY <2>1, <2>2, <2>3
<1>4. OrderedSteps(all)
  <2> SUFFICES ASSUME NEW i \in 1..Len(all), NEW j \in 1..Len(all), i < j
               PROVE  /\ all[i] # "audit"
                      /\ all[i] \in {"effect", "store"} => all[j] = "audit"
                      /\ all[i] = "permit" => all[j] # "register"
    BY DEF OrderedSteps
  <2>1. CASE all[i] \in {"body", "register"}
    BY <2>1
  <2>2. CASE i - Len(steps) \in 1..Len(core.steps) /\ all[i] = core.steps[i - Len(steps)]
    <3>1. /\ j - Len(steps) \in 1..Len(core.steps) /\ i - Len(steps) < j - Len(steps)
          /\ all[j] = core.steps[j - Len(steps)]
      BY <1>1, <1>2, <1>3, <2>2
    <3> QED
      BY <2>2, <3>1 DEF SoundRoute, OrderedSteps
  <2> QED
    BY <1>3, <2>1, <2>2
<1>5. After(steps, core).steps = all
  BY DEF After, Route
<1> HIDE DEF all
<1> QED
  BY <1>2, <1>4, <1>5 DEF SoundRoute

\* The handlers the routes and the tools have in common.
LEMMA CoresAreSound ==
  /\ SoundRoute(DocumentWrite) /\ SoundRoute(DocumentsSearch) /\ SoundRoute(DocumentRead)
  /\ SoundRoute(ContextSearch) /\ SoundRoute(MemoryProposal) /\ SoundRoute(MemoryProposalStatus)
  /\ SoundRoute(MemoryRead) /\ SoundRoute(SessionSearch) /\ SoundRoute(SessionGet)
  /\ SoundRoute(SessionTranscript) /\ SoundRoute(StatusRoute)
<1> USE DEF SoundRoute, OrderedSteps, StepNames, Route, Audited
<1>1. SoundRoute(DocumentWrite) /\ SoundRoute(DocumentsSearch) /\ SoundRoute(DocumentRead)
  BY DEF DocumentWrite, DocumentsSearch, DocumentRead
<1>2. SoundRoute(ContextSearch) /\ SoundRoute(MemoryProposal) /\ SoundRoute(MemoryProposalStatus)
  BY DEF ContextSearch, MemoryProposal, MemoryProposalStatus
<1>3. SoundRoute(MemoryRead) /\ SoundRoute(SessionSearch) /\ SoundRoute(SessionGet)
  BY DEF MemoryRead, SessionSearch, SessionGet
<1>4. SoundRoute(SessionTranscript) /\ SoundRoute(StatusRoute)
  BY DEF SessionTranscript, StatusRoute
<1> QED
  BY <1>1, <1>2, <1>3, <1>4

\* The tools.
LEMMA ToolsAreSound == \A name \in DOMAIN ToolRoutes : SoundRoute(ToolRoutes[name])
BY CoresAreSound DEF ToolRoutes

\* Every route.
LEMMA RestIsSound == \A name \in DOMAIN RestRoutes : SoundRoute(RestRoutes[name])
<1>1. /\ SoundRoute(DocumentPutRoute) /\ SoundRoute(DocumentsSearchRoute)
      /\ SoundRoute(DocumentReadRoute) /\ SoundRoute(ContextSearchRoute)
      /\ SoundRoute(ProposalRoute) /\ SoundRoute(ReadV1Route) /\ SoundRoute(AddV1Route)
  BY CoresAreSound, AfterIsSound
  DEF DocumentPutRoute, DocumentsSearchRoute, DocumentReadRoute, ContextSearchRoute,
      ProposalRoute, ReadV1Route, AddV1Route
<1>2. /\ SoundRoute(ProposalStatusRoute) /\ SoundRoute(MemoryReadRoute)
      /\ SoundRoute(SessionRoute) /\ SoundRoute(SessionV1Route) /\ SoundRoute(StatusRoute)
  BY CoresAreSound DEF ProposalStatusRoute, MemoryReadRoute, SessionRoute, SessionV1Route
<1>3. /\ SoundRoute(IdentityCreateRoute) /\ SoundRoute(IdentityReadRoute)
      /\ SoundRoute(IdentityMergeRoute) /\ SoundRoute(RetentionPlanRoute)
      /\ SoundRoute(RetentionApplyRoute)
  BY DEF SoundRoute, OrderedSteps, StepNames, Route, Audited, IdentityCreateRoute,
         IdentityReadRoute, IdentityMergeRoute, RetentionPlanRoute, RetentionApplyRoute
<1>4. /\ SoundRoute(CurationListRoute) /\ SoundRoute(CurationReadRoute)
      /\ SoundRoute(ReceiptRoute) /\ SoundRoute(ReconcileRoute) /\ SoundRoute(MemorySearchRoute)
  BY DEF SoundRoute, OrderedSteps, StepNames, Route, Audited, CurationListRoute,
         CurationReadRoute, ReceiptRoute, ReconcileRoute, MemorySearchRoute
<1>5. /\ SoundRoute(ExtractorSessionsRoute) /\ SoundRoute(ExtractorSessionRoute)
      /\ SoundRoute(ExtractorTranscriptRoute) /\ SoundRoute(RawIngestRoute)
  BY DEF SoundRoute, OrderedSteps, StepNames, Route, Audited, ExtractorSessionsRoute,
         ExtractorSessionRoute, ExtractorTranscriptRoute, RawIngestRoute
<1>6. /\ SoundRoute(DeliveryProofRoute) /\ SoundRoute(SessionsSearchRoute)
      /\ SoundRoute(SessionsSearchV1Route) /\ SoundRoute(SearchV1Route)
  BY DEF SoundRoute, OrderedSteps, StepNames, Route, Audited, DeliveryProofRoute,
         SessionsSearchRoute, SessionsSearchV1Route, SearchV1Route
<1> QED
  BY <1>1, <1>2, <1>3, <1>4, <1>5, <1>6 DEF RestRoutes

LEMMA HandlersAreSound == \A name \in RouteNames : SoundRoute(Handler(name))
<1> SUFFICES ASSUME NEW name \in RouteNames PROVE SoundRoute(Handler(name))
  OBVIOUS
<1>1. CASE name \in DOMAIN RestRoutes
  <2>1. name \notin DOMAIN SessionRoutes /\ name \notin DOMAIN ToolRoutes
    BY <1>1 DEF RestRoutes, SessionRoutes, ToolRoutes
  <2>2. Handler(name) = RestRoutes[name]
    BY <1>1, <2>1 DEF Handler
  <2> QED
    BY <1>1, <2>2, RestIsSound
<1>2. CASE name \notin DOMAIN RestRoutes /\ name \in DOMAIN SessionRoutes
  <2>1. name \notin DOMAIN ToolRoutes
    BY <1>2 DEF SessionRoutes, ToolRoutes
  <2>2. Handler(name) = SessionRoutes[name]
    BY <1>2, <2>1 DEF Handler
  <2>3. \E step \in {"register", "drop"} : SessionRoutes[name] = Route(<<step>>, {})
    BY <1>2 DEF SessionRoutes
  <2>4. ASSUME NEW step \in {"register", "drop"} PROVE SoundRoute(Route(<<step>>, {}))
    <3>1. <<step>> \in Seq(StepNames) /\ Len(<<step>>) = 1
      BY DEF StepNames
    <3> QED
      BY <3>1 DEF SoundRoute, OrderedSteps, Route
  <2> QED
    BY <2>2, <2>3, <2>4
<1>3. CASE /\ name \notin DOMAIN RestRoutes /\ name \notin DOMAIN SessionRoutes
           /\ name \in DOMAIN ToolRoutes
  <2>1. SoundRoute(ToolCall(name))
    BY <1>3, ToolsAreSound, AfterIsSound DEF ToolCall
  <2>2. Handler(name) = ToolCall(name)
    BY <1>3 DEF Handler
  <2> QED
    BY <2>1, <2>2
<1> QED
  BY <1>1, <1>2, <1>3 DEF RouteNames

(***************************************************************************)
(* The inductive invariant.                                                *)
(***************************************************************************)

Versions == 1..Len(RegistryEdits)
Request ==
  [at : {"new", "fetch", "fetched", "denying", "run", "failing", "done"},
   route : RouteNames \cup {""}, bearer : Bearers \cup {Unset}, sid : SessionIds \cup {Unset},
   arrived : Nat, version : Versions \cup {0}, step : Nat, wrote : BOOLEAN,
   answer : {"none", "ok", "refused", "audit_unavailable"}]
Session ==
  [bearer : Bearers \cup {Unset}, version : Versions \cup {0}, seen : Nat, stream : BOOLEAN]

RouteSteps(r) == Handler(r.route).steps
Begun(r) == r.route \in RouteNames /\ r.step \in 1..Len(RouteSteps(r))
Granted(r) == RegistryEdits[r.version][r.bearer] = "granted"
Fresh(r, kind) == kind = "local" \/ r.sid = Unset => r.version >= r.arrived

\* What a step leaves when it is passed: an announcement, or a decision.
Left(c, r, rows, kind, i) ==
  /\ RouteSteps(r)[i] = "intent" => <<c, "intent">> \in rows
  /\ RouteSteps(r)[i] = "permit" => Granted(r) /\ Fresh(r, kind)

\* A request waits for the registry, or for the audit of its denial.
IsWaiting(r, kind) ==
  /\ r.step = 1 /\ ~r.wrote /\ r.answer = "none"
  /\ r.at # "denying" => kind = "remote"
  /\ r.at # "fetched" => r.version = 0
  /\ r.version # 0 => r.version >= r.arrived

\* It is served under an entry of the registry.
IsServed(c, r, s, kind) ==
  /\ r.version # 0 /\ r.bearer \in Bearers /\ r.answer = "none" /\ Fresh(r, kind)
  /\ r.sid # Unset /\ kind = "local" => s[r.sid].version >= r.arrived

\* It has passed the steps before the one it is at, and if it has written
\* anything, only the audit of that is left.
IsRunning(c, r, s, rows, kind) ==
  /\ IsServed(c, r, s, kind)
  /\ \A i \in 1..(r.step - 1) :
       Left(c, r, rows, kind, i) /\ (RouteSteps(r)[i] = "store" => <<c, "ok">> \in rows)
  /\ r.wrote => RouteSteps(r)[r.step] = "audit"

IsFailing(c, r, rows, kind) ==
  /\ r.version # 0 /\ r.answer = "none" /\ ~r.wrote /\ r.step \in Handler(r.route).audited
  /\ \A i \in 1..(r.step - 1) : Left(c, r, rows, kind, i)

IsAnswered(c, r, rows, kind) ==
  /\ r.answer = "ok" =>
       /\ r.version # 0
       /\ \A i \in 1..Len(RouteSteps(r)) :
            RouteSteps(r)[i] \in {"audit", "store"} => <<c, "ok">> \in rows
  /\ r.answer = "refused" =>
       /\ ~r.wrote
       /\ r.version = 0 => <<c, "denied">> \in rows
       /\ r.version # 0 /\ r.step \in Handler(r.route).audited => <<c, "failed">> \in rows
  /\ r.version # 0 =>
       \A i \in 1..Len(RouteSteps(r)) : i < r.step \/ r.answer = "ok" => Left(c, r, rows, kind, i)

RequestOK(c, r, s, rows, kind) ==
  /\ r \in Request
  /\ r.at = "new" => r = NoRequest
  /\ r.at # "new" =>
       /\ Begun(r)
       /\ r.sid = Unset => r.bearer \in Bearers
       /\ r.sid # Unset => s[r.sid].version # 0
  /\ r.at \in {"fetch", "fetched", "denying"} => IsWaiting(r, kind)
  /\ r.at = "run" => IsRunning(c, r, s, rows, kind)
  /\ r.at = "failing" => IsFailing(c, r, rows, kind)
  /\ r.at = "done" => IsAnswered(c, r, rows, kind)

ServerTypeOK ==
  /\ mix \in Mixes /\ sourceKind \in {"local", "remote"}
  /\ registryAt \in Versions /\ clockAt \in Nat
  /\ sessionOf \in [SessionIds -> Session]
  /\ inTable \subseteq SessionIds /\ openStreams \subseteq SessionIds
  /\ request \in [Clients -> Request]

\* No request is from the future.
InThePast(r) == r.arrived <= registryAt /\ r.version <= registryAt
ArrivalsOK == \A c \in Clients : InThePast(request[c])

RequestsOK == \A c \in Clients : RequestOK(c, request[c], sessionOf, auditRows, sourceKind)

\* A session is unused or somebody's, and the registry is never behind it.
SessionsOK ==
  \A i \in SessionIds :
    /\ sessionOf[i] = NoSession \/ (sessionOf[i].bearer \in Bearers /\ sessionOf[i].version # 0)
    /\ sessionOf[i].version <= registryAt

TableOK ==
  /\ IsFiniteSet(inTable)
  /\ \A i \in inTable : sessionOf[i].version # 0
  /\ SessionsAreBounded

ServerInv == ServerTypeOK /\ ArrivalsOK /\ RequestsOK /\ SessionsOK /\ TableOK

\* The entries of the registry are numbered.
LEMMA VersionsAreNumbers == Versions \cup {0} \subseteq Nat
<1>1. Len(RegistryEdits) \in Nat
  BY ServerAssumption DEF ServerAssumption
<1> QED
  BY <1>1 DEF Versions

\* Rows are added, and a session that was used keeps its bearer and, with a local
\* registry, never goes back to an older entry.
SessionsMove(s, t, kind) ==
  \A i \in SessionIds : s[i].version # 0 =>
    t[i].version # 0 /\ (kind = "local" => t[i].version >= s[i].version)

LEMMA RequestStaysOK ==
  ASSUME NEW c \in Clients, NEW r, NEW s \in [SessionIds -> Session],
         NEW t \in [SessionIds -> Session], NEW rows, NEW more,
         NEW kind, RequestOK(c, r, s, rows, kind), rows \subseteq more, SessionsMove(s, t, kind)
  PROVE  RequestOK(c, r, t, more, kind)
<1>1. r \in Request
  BY DEF RequestOK
<1>2. r.sid # Unset => r.sid \in SessionIds
  BY <1>1 DEF Request
<1>3. r.sid # Unset /\ s[r.sid].version # 0 =>
        t[r.sid].version # 0 /\ (kind = "local" => t[r.sid].version >= s[r.sid].version)
  BY <1>2 DEF SessionsMove
<1>4. \A i : Left(c, r, rows, kind, i) => Left(c, r, more, kind, i)
  BY DEF Left
<1>5. r.at # "new" => (r.sid # Unset => t[r.sid].version # 0)
  BY <1>3 DEF RequestOK
<1>6. r.at = "run" => IsRunning(c, r, t, more, kind)
  <2> SUFFICES ASSUME r.at = "run" PROVE IsRunning(c, r, t, more, kind)
    OBVIOUS
  <2>1. IsRunning(c, r, s, rows, kind)
    BY DEF RequestOK
  <2>2. r.sid # Unset => s[r.sid].version # 0
    BY DEF RequestOK
  <2>3. r.sid # Unset /\ kind = "local" => t[r.sid].version >= r.arrived
    <3> SUFFICES ASSUME r.sid # Unset, kind = "local" PROVE t[r.sid].version >= r.arrived
      OBVIOUS
    <3>1. s[r.sid].version \in Nat /\ t[r.sid].version \in Nat /\ r.arrived \in Nat
      <4>1. s[r.sid] \in Session /\ t[r.sid] \in Session
        BY <1>2
      <4> QED
        BY <1>1, <4>1, VersionsAreNumbers DEF Session, Request
    <3>2. t[r.sid].version >= s[r.sid].version /\ s[r.sid].version >= r.arrived
      BY <1>3, <2>1, <2>2 DEF IsRunning, IsServed
    <3> QED
      BY <3>1, <3>2
  <2> QED
    BY <2>1, <2>3, <1>4 DEF IsRunning, IsServed
<1>7. r.at = "failing" => IsFailing(c, r, more, kind)
  BY <1>4 DEF RequestOK, IsFailing
<1>8. r.at = "done" => IsAnswered(c, r, more, kind)
  BY <1>4 DEF RequestOK, IsAnswered
<1> QED
  BY <1>5, <1>6, <1>7, <1>8 DEF RequestOK

\* One request moves, the others stay.
LEMMA OneMoves ==
  ASSUME ServerInv, NEW c \in Clients, NEW r,
         request' = [request EXCEPT ![c] = r],
         sessionOf' \in [SessionIds -> Session], SessionsMove(sessionOf, sessionOf', sourceKind),
         auditRows \subseteq auditRows', sourceKind' = sourceKind,
         RequestOK(c, r, sessionOf', auditRows', sourceKind)
  PROVE  RequestsOK' /\ request' \in [Clients -> Request]
<1>1. ASSUME NEW d \in Clients
      PROVE  RequestOK(d, request'[d], sessionOf', auditRows', sourceKind)
  <2>1. CASE d = c
    BY <2>1 DEF ServerInv, ServerTypeOK
  <2>2. CASE d # c
    <3>1. request'[d] = request[d]
      BY <2>2 DEF ServerInv, ServerTypeOK
    <3>2. RequestOK(d, request[d], sessionOf, auditRows, sourceKind)
      BY DEF ServerInv, RequestsOK
    <3>3. sessionOf \in [SessionIds -> Session]
      BY DEF ServerInv, ServerTypeOK
    <3> QED
      BY <3>1, <3>2, <3>3, RequestStaysOK
  <2> QED
    BY <2>1, <2>2
<1>2. r \in Request
  BY DEF RequestOK
<1>3. request' \in [Clients -> Request]
  BY <1>2 DEF ServerInv, ServerTypeOK
<1> QED
  BY <1>1, <1>3 DEF RequestsOK

\* All stay while something else moves.
LEMMA AllStay ==
  ASSUME ServerInv, request' = request, sessionOf' = sessionOf, auditRows' = auditRows,
         sourceKind' = sourceKind
  PROVE  RequestsOK'
BY DEF ServerInv, RequestsOK

\* A session that stays as it is moves nowhere.
LEMMA StandingStill == \A s, kind : s \in [SessionIds -> Session] => SessionsMove(s, s, kind)
<1> SUFFICES ASSUME NEW s \in [SessionIds -> Session], NEW kind, NEW i \in SessionIds
             PROVE  s[i].version >= s[i].version
  BY DEF SessionsMove
<1>1. s[i].version \in Nat
  BY VersionsAreNumbers DEF Session
<1> QED
  BY <1>1

\* Sessions leave the table, and their streams end.
LEMMA TableShrinks ==
  ASSUME ServerInv, inTable' \subseteq inTable,
         \A i \in inTable' : i \in openStreams => i \in openStreams',
         \A i \in SessionIds : /\ sessionOf'[i].bearer = sessionOf[i].bearer
                               /\ sessionOf'[i].stream = sessionOf[i].stream
                               /\ sessionOf[i].version # 0 => sessionOf'[i].version # 0
  PROVE  TableOK'
<1>1. inTable \subseteq SessionIds /\ IsFiniteSet(inTable)
  BY DEF ServerInv, ServerTypeOK, TableOK
<1>2. IsFiniteSet(inTable') /\ Cardinality(inTable') <= Cardinality(inTable)
  BY <1>1, FS_Subset
<1>3. ASSUME NEW b \in Bearers
      PROVE  Cardinality(OfBearer(inTable, b)') <= MaxPerActor
  <2>1. OfBearer(inTable, b)' \subseteq OfBearer(inTable, b)
    BY <1>1 DEF OfBearer
  <2>2. IsFiniteSet(OfBearer(inTable, b))
    BY <1>1, FS_Subset DEF OfBearer
  <2>3. Cardinality(OfBearer(inTable, b)') <= Cardinality(OfBearer(inTable, b))
    BY <2>1, <2>2, FS_Subset
  <2>4. Cardinality(OfBearer(inTable, b)) <= MaxPerActor
    BY DEF ServerInv, TableOK, SessionsAreBounded
  <2>5. /\ Cardinality(OfBearer(inTable, b)) \in Nat
        /\ Cardinality(OfBearer(inTable, b)') \in Nat
    BY <2>1, <2>2, FS_Subset, FS_CardinalityType
  <2> QED
    BY <2>3, <2>4, <2>5, ServerAssumption DEF ServerAssumption
<1>4. Cardinality(inTable') <= MaxGlobal
  <2>1. Cardinality(inTable) <= MaxGlobal
    BY DEF ServerInv, TableOK, SessionsAreBounded
  <2>2. Cardinality(inTable) \in Nat /\ Cardinality(inTable') \in Nat
    BY <1>1, <1>2, FS_CardinalityType
  <2> QED
    BY <1>2, <2>1, <2>2, ServerAssumption DEF ServerAssumption
<1>5. \A i \in inTable' : sessionOf'[i].version # 0
  BY <1>1 DEF ServerInv, TableOK
<1>6. \A i \in inTable' : sessionOf'[i].stream => i \in openStreams'
  BY <1>1 DEF ServerInv, TableOK, SessionsAreBounded
<1>7. (\A b \in Bearers : Cardinality(OfBearer(inTable, b)) <= MaxPerActor)'
  BY <1>3 DEF OfBearer
<1> QED
  BY <1>2, <1>4, <1>5, <1>6, <1>7 DEF TableOK, SessionsAreBounded

(***************************************************************************)
(* The steps of a handler.                                                 *)
(***************************************************************************)

Next1(r) ==
  IF r.step = Len(RouteSteps(r)) THEN [r EXCEPT !.at = "done", !.answer = "ok"]
  ELSE [r EXCEPT !.step = r.step + 1]
Failed1(r) ==
  IF r.step \in Handler(r.route).audited THEN [r EXCEPT !.at = "failing"]
  ELSE [r EXCEPT !.at = "done", !.answer = "refused"]

\* A step that is done leaves what it has to.
HasDone(c, r, s, rows, kind) ==
  /\ r \in Request /\ r.at = "run" /\ Begun(r) /\ IsServed(c, r, s, kind)
  /\ r.sid # Unset => s[r.sid].version # 0
  /\ \A i \in 1..r.step :
       Left(c, r, rows, kind, i) /\ (RouteSteps(r)[i] = "store" => <<c, "ok">> \in rows)
  /\ RouteSteps(r)[r.step] # "audit"
  /\ r.wrote => RouteSteps(r)[r.step] \in {"effect", "store"}

LEMMA StepsAreOrdered ==
  ASSUME NEW r, Begun(r)
  PROVE  /\ RouteSteps(r) \in Seq(StepNames) /\ Len(RouteSteps(r)) \in Nat
         /\ OrderedSteps(RouteSteps(r)) /\ r.step \in Nat
<1>1. SoundRoute(Handler(r.route))
  BY HandlersAreSound DEF Begun
<1>2. Len(RouteSteps(r)) \in Nat
  BY <1>1 DEF SoundRoute, RouteSteps
<1> QED
  BY <1>1, <1>2 DEF SoundRoute, RouteSteps, Begun

LEMMA OnwardIsOK ==
  ASSUME NEW c, NEW r, NEW s, NEW rows, NEW kind, HasDone(c, r, s, rows, kind)
  PROVE  RequestOK(c, Next1(r), s, rows, kind) /\ Next1(r).arrived = r.arrived
         /\ Next1(r).version = r.version
<1>1. /\ r \in Request /\ r.at = "run" /\ Begun(r) /\ r.answer = "none" /\ r.version # 0
      /\ r.sid # Unset => s[r.sid].version # 0
      /\ r.bearer \in Bearers
  BY DEF HasDone, IsServed
<1>2. Len(RouteSteps(r)) \in Nat /\ OrderedSteps(RouteSteps(r)) /\ r.step \in 1..Len(RouteSteps(r))
  BY <1>1, StepsAreOrdered DEF Begun
<1>3. CASE r.step = Len(RouteSteps(r))
  <2> DEFINE q == [r EXCEPT !.at = "done", !.answer = "ok"]
  <2>1. /\ q \in Request /\ q.at = "done" /\ q.answer = "ok" /\ q.route = r.route
        /\ q.step = r.step /\ q.sid = r.sid /\ q.bearer = r.bearer /\ q.version = r.version
        /\ q.arrived = r.arrived
    BY <1>1 DEF Request
  <2>2. Next1(r) = q
    BY <1>3 DEF Next1
  <2> HIDE DEF q
  <2>3. ASSUME NEW i \in 1..Len(RouteSteps(r))
        PROVE  RouteSteps(r)[i] \in {"audit", "store"} => <<c, "ok">> \in rows
    <3>1. RouteSteps(r)[i] # "audit"
      BY <1>2, <1>3 DEF OrderedSteps, HasDone
    <3> QED
      BY <1>2, <1>3, <3>1 DEF HasDone
  <2>4. ASSUME NEW i \in 1..Len(RouteSteps(r)) PROVE Left(c, q, rows, kind, i)
    <3>1. Left(c, r, rows, kind, i)
      BY <1>2, <1>3 DEF HasDone
    <3> QED
      BY <2>1, <3>1 DEF Left, RouteSteps, Granted, Fresh
  <2>5. IsAnswered(c, q, rows, kind)
    BY <1>1, <2>1, <2>3, <2>4 DEF IsAnswered, RouteSteps
  <2> QED
    BY <1>1, <2>1, <2>2, <2>5 DEF RequestOK, Begun, RouteSteps
<1>4. CASE r.step # Len(RouteSteps(r))
  <2> DEFINE q == [r EXCEPT !.step = r.step + 1]
  <2>0. q \in Request
    <3>1. r.step + 1 \in Nat
      BY <1>2
    <3> QED
      BY <1>1, <3>1 DEF Request
  <2>1. /\ q \in Request /\ q.at = "run" /\ q.answer = "none" /\ q.route = r.route
        /\ q.step = r.step + 1 /\ q.sid = r.sid /\ q.bearer = r.bearer /\ q.version = r.version
        /\ q.arrived = r.arrived /\ q.wrote = r.wrote
    BY <1>1, <2>0 DEF Request
  <2>2. Next1(r) = q
    BY <1>4 DEF Next1
  <2> HIDE DEF q
  <2>3. IsServed(c, q, s, kind)
    BY <2>1 DEF HasDone, IsServed, Fresh
  <2>4. ASSUME NEW i \in 1..(q.step - 1)
        PROVE  Left(c, q, rows, kind, i) /\ (RouteSteps(q)[i] = "store" => <<c, "ok">> \in rows)
    <3>1. i \in 1..r.step
      BY <1>2, <2>1
    <3>2. Left(c, r, rows, kind, i) /\ (RouteSteps(r)[i] = "store" => <<c, "ok">> \in rows)
      BY <3>1 DEF HasDone
    <3> QED
      BY <2>1, <3>2 DEF Left, RouteSteps, Granted, Fresh
  <2>5. q.step \in 1..Len(RouteSteps(q)) /\ RouteSteps(q) = RouteSteps(r)
    BY <1>2, <1>4, <2>1 DEF RouteSteps
  <2>6. q.wrote => RouteSteps(q)[q.step] = "audit"
    BY <1>2, <2>1, <2>5 DEF HasDone, OrderedSteps
  <2>7. IsRunning(c, q, s, rows, kind)
    BY <2>3, <2>4, <2>6 DEF IsRunning
  <2> QED
    BY <1>1, <2>1, <2>2, <2>5, <2>7 DEF RequestOK, Begun
<1> QED
  BY <1>3, <1>4

LEMMA FailIsOK ==
  ASSUME NEW c, NEW r, NEW s, NEW rows, NEW kind, RequestOK(c, r, s, rows, kind),
         r.at = "run", RouteSteps(r)[r.step] # "audit"
  PROVE  RequestOK(c, Failed1(r), s, rows, kind) /\ Failed1(r).arrived = r.arrived
         /\ Failed1(r).version = r.version
<1>1. /\ r \in Request /\ Begun(r) /\ IsRunning(c, r, s, rows, kind) /\ ~r.wrote
      /\ r.sid # Unset => s[r.sid].version # 0
      /\ r.version # 0 /\ r.bearer \in Bearers /\ r.answer = "none"
  BY DEF RequestOK, IsRunning, IsServed
<1>2. r.step \in 1..Len(RouteSteps(r)) /\ Len(RouteSteps(r)) \in Nat
  BY <1>1, StepsAreOrdered DEF Begun
<1> DEFINE q == Failed1(r)
<1>0. q = Failed1(r)
  OBVIOUS
<1>3. /\ q \in Request /\ q.route = r.route /\ q.step = r.step /\ q.sid = r.sid
      /\ q.bearer = r.bearer /\ q.version = r.version /\ q.arrived = r.arrived
      /\ q.wrote = r.wrote
      /\ \/ q.at = "failing" /\ q.answer = "none" /\ r.step \in Handler(r.route).audited
         \/ q.at = "done" /\ q.answer = "refused" /\ r.step \notin Handler(r.route).audited
  BY <1>1 DEF Request, Failed1
<1> HIDE DEF q
<1>4. ASSUME NEW i \in 1..(r.step - 1) PROVE Left(c, q, rows, kind, i)
  <2>1. Left(c, r, rows, kind, i)
    BY <1>1 DEF IsRunning
  <2> QED
    BY <1>3, <2>1 DEF Left, RouteSteps, Granted, Fresh
<1>5. q.at = "failing" => IsFailing(c, q, rows, kind)
  BY <1>1, <1>3, <1>4 DEF IsFailing
<1>6. q.at = "done" => IsAnswered(c, q, rows, kind)
  BY <1>1, <1>2, <1>3, <1>4 DEF IsAnswered, RouteSteps
<1> QED
  BY <1>0, <1>1, <1>3, <1>5, <1>6 DEF RequestOK, Begun, RouteSteps

(***************************************************************************)
(* The actions.                                                            *)
(***************************************************************************)

\* A request moves, and with it at most sessions out of the table.
LEMMA RequestMoves ==
  ASSUME ServerInv, NEW c \in Clients, NEW r,
         request' = [request EXCEPT ![c] = r], UNCHANGED <<ambientVars, sessionOf>>,
         inTable' \subseteq inTable, openStreams' \subseteq SessionIds,
         \A i \in inTable' : i \in openStreams => i \in openStreams',
         auditRows \subseteq auditRows', InThePast(r),
         RequestOK(c, r, sessionOf, auditRows', sourceKind)
  PROVE  ServerInv'
<1>1. ServerTypeOK
  BY DEF ServerInv
<1>2. SessionsMove(sessionOf, sessionOf', sourceKind)
  BY <1>1, StandingStill DEF ServerTypeOK
<1>3. RequestsOK' /\ request' \in [Clients -> Request]
  BY <1>1, <1>2, OneMoves DEF ServerTypeOK, ambientVars
<1>4. ServerTypeOK'
  BY <1>1, <1>3 DEF ServerTypeOK, ambientVars
<1>5. TableOK'
  BY <1>1, TableShrinks DEF ServerTypeOK
<1>6. SessionsOK'
  BY DEF ServerInv, SessionsOK, ambientVars
<1>7. ArrivalsOK'
  BY <1>1 DEF ServerInv, ServerTypeOK, ArrivalsOK, InThePast, ambientVars
<1> QED
  BY <1>3, <1>4, <1>5, <1>6, <1>7 DEF ServerInv

\* A request of the run: what it is known to have done.
LEMMA AtItsStep ==
  ASSUME ServerInv, NEW c \in Clients, NEW steps, AtStep(c, steps)
  PROVE  /\ request[c] \in Request /\ request[c].at = "run" /\ Begun(request[c])
         /\ IsRunning(c, request[c], sessionOf, auditRows, sourceKind)
         /\ RequestOK(c, request[c], sessionOf, auditRows, sourceKind)
         /\ request[c].sid # Unset => sessionOf[request[c].sid].version # 0
         /\ RouteSteps(request[c])[request[c].step] \in steps
         /\ request[c].step \in Nat /\ InThePast(request[c])
         /\ \A i \in 1..request[c].step : i = request[c].step \/ i \in 1..(request[c].step - 1)
<1>1. RequestOK(c, request[c], sessionOf, auditRows, sourceKind) /\ request[c].at = "run"
  BY DEF ServerInv, RequestsOK, AtStep
<1>2. request[c].step \in Nat
  BY <1>1 DEF RequestOK, Request
<1>3. request[c] \in Request /\ Begun(request[c])
  BY <1>1 DEF RequestOK
<1>4. InThePast(request[c])
  BY DEF ServerInv, ArrivalsOK
<1> QED
  BY <1>1, <1>2, <1>3, <1>4 DEF RequestOK, AtStep, StepOf, RouteSteps

LEMMA PermitKeeps == \A c \in Clients : ServerInv /\ Permit(c) => ServerInv'
<1> SUFFICES ASSUME NEW c \in Clients, ServerInv, Permit(c) PROVE ServerInv'
  OBVIOUS
<1> DEFINE r == request[c]
<1>1. AtStep(c, {"permit"}) /\ UNCHANGED <<ambientVars, tableVars, auditRows, serverFaults>>
  BY DEF Permit
<1>2. /\ r \in Request /\ r.at = "run" /\ Begun(r)
      /\ IsRunning(c, r, sessionOf, auditRows, sourceKind)
      /\ RequestOK(c, r, sessionOf, auditRows, sourceKind)
      /\ r.sid # Unset => sessionOf[r.sid].version # 0
      /\ RouteSteps(r)[r.step] = "permit"
      /\ r.step \in Nat /\ \A i \in 1..r.step : i = r.step \/ i \in 1..(r.step - 1)
      /\ InThePast(r)
  BY <1>1, AtItsStep
<1> HIDE DEF r
<1>3. CASE Granted(r) /\ Onward(c, r)
  <2>1. HasDone(c, r, sessionOf, auditRows, sourceKind)
    BY <1>2, <1>3 DEF HasDone, IsRunning, IsServed, Left
  <2>2. request' = [request EXCEPT ![c] = Next1(r)]
    BY <1>3 DEF Onward, Next1, Answered, RouteSteps
  <2> QED
    BY <1>1, <1>2, <2>1, <2>2, OnwardIsOK, RequestMoves DEF InThePast, tableVars, ServerInv, ServerTypeOK
<1>4. CASE Fail(c)
  <2>1. request' = [request EXCEPT ![c] = Failed1(r)]
    BY <1>4 DEF Fail, Failed1, Goto, Answered, r
  <2>2. /\ RequestOK(c, Failed1(r), sessionOf, auditRows, sourceKind)
        /\ InThePast(Failed1(r))
    BY <1>2, FailIsOK DEF InThePast
  <2> QED
    BY <1>1, <2>1, <2>2, RequestMoves DEF InThePast, tableVars, ServerInv, ServerTypeOK
<1> QED
  BY <1>3, <1>4 DEF Permit, Granted, r

LEMMA CheckKeeps == \A c \in Clients : ServerInv /\ Check(c) => ServerInv'
<1> SUFFICES ASSUME NEW c \in Clients, ServerInv, Check(c) PROVE ServerInv'
  OBVIOUS
<1> DEFINE r == request[c]
<1>1. AtStep(c, {"check"}) /\ UNCHANGED <<ambientVars, tableVars, auditRows, serverFaults>>
  BY DEF Check
<1>2. /\ r \in Request /\ r.at = "run" /\ Begun(r)
      /\ IsRunning(c, r, sessionOf, auditRows, sourceKind)
      /\ RequestOK(c, r, sessionOf, auditRows, sourceKind)
      /\ r.sid # Unset => sessionOf[r.sid].version # 0
      /\ RouteSteps(r)[r.step] = "check"
      /\ r.step \in Nat /\ \A i \in 1..r.step : i = r.step \/ i \in 1..(r.step - 1)
      /\ InThePast(r)
  BY <1>1, AtItsStep
<1> HIDE DEF r
<1>3. CASE Onward(c, r)
  <2>1. HasDone(c, r, sessionOf, auditRows, sourceKind)
    BY <1>2 DEF HasDone, IsRunning, IsServed, Left
  <2>2. request' = [request EXCEPT ![c] = Next1(r)]
    BY <1>3 DEF Onward, Next1, Answered, RouteSteps
  <2> QED
    BY <1>1, <1>2, <2>1, <2>2, OnwardIsOK, RequestMoves DEF InThePast, tableVars, ServerInv, ServerTypeOK
<1>4. CASE Fail(c)
  <2>1. request' = [request EXCEPT ![c] = Failed1(r)]
    BY <1>4 DEF Fail, Failed1, Goto, Answered, r
  <2>2. /\ RequestOK(c, Failed1(r), sessionOf, auditRows, sourceKind)
        /\ InThePast(Failed1(r))
    BY <1>2, FailIsOK DEF InThePast
  <2> QED
    BY <1>1, <2>1, <2>2, RequestMoves DEF InThePast, tableVars, ServerInv, ServerTypeOK
<1> QED
  BY <1>3, <1>4 DEF Check, r

LEMMA AwaitKeeps == \A c \in Clients : ServerInv /\ Await(c) => ServerInv'
<1> SUFFICES ASSUME NEW c \in Clients, ServerInv, Await(c) PROVE ServerInv'
  OBVIOUS
<1> DEFINE r == request[c]
           step == StepOf(c)
           q == [request[c] EXCEPT !.wrote = @ \/ step \in {"effect", "store"}]
<1>1. AtStep(c, {"body", "read", "effect", "store"}) /\ UNCHANGED <<ambientVars, tableVars>>
  BY DEF Await
<1>2. /\ r \in Request /\ r.at = "run" /\ Begun(r)
      /\ IsRunning(c, r, sessionOf, auditRows, sourceKind)
      /\ RequestOK(c, r, sessionOf, auditRows, sourceKind)
      /\ r.sid # Unset => sessionOf[r.sid].version # 0
      /\ RouteSteps(r)[r.step] \in {"body", "read", "effect", "store"}
      /\ r.step \in Nat /\ \A i \in 1..r.step : i = r.step \/ i \in 1..(r.step - 1)
      /\ InThePast(r)
  BY <1>1, AtItsStep
<1>3. step = RouteSteps(r)[r.step]
  BY DEF StepOf, RouteSteps
<1>4. /\ q \in Request /\ q.at = "run" /\ q.route = r.route /\ q.step = r.step /\ q.sid = r.sid
      /\ q.bearer = r.bearer /\ q.version = r.version /\ q.arrived = r.arrived
      /\ q.answer = r.answer /\ q.wrote = (r.wrote \/ step \in {"effect", "store"})
  BY <1>2 DEF Request
<1>5. \/ /\ Onward(c, q)
         /\ auditRows' = auditRows \cup (IF step = "store" THEN {<<c, "ok">>} ELSE {})
      \/ Fail(c) /\ UNCHANGED auditRows
  BY DEF Await
<1> HIDE DEF r, q, step
<1>6. CASE /\ Onward(c, q)
           /\ auditRows' = auditRows \cup (IF step = "store" THEN {<<c, "ok">>} ELSE {})
  <2>1. \A i \in 1..r.step :
          /\ Left(c, q, auditRows', sourceKind, i)
          /\ RouteSteps(q)[i] = "store" => <<c, "ok">> \in auditRows'
    BY <1>2, <1>3, <1>4, <1>6 DEF IsRunning, Left, RouteSteps, Granted, Fresh
  <2>2. ~r.wrote
    BY <1>2 DEF IsRunning
  <2>3. HasDone(c, q, sessionOf, auditRows', sourceKind)
    BY <1>2, <1>3, <1>4, <2>1, <2>2 DEF HasDone, IsRunning, IsServed, Fresh, Begun, RouteSteps
  <2>4. request' = [request EXCEPT ![c] = Next1(q)]
    BY <1>6 DEF Onward, Next1, Answered, RouteSteps
  <2>5. auditRows \subseteq auditRows'
    BY <1>6
  <2> QED
    BY <1>1, <1>2, <1>4, <2>3, <2>4, <2>5, OnwardIsOK, RequestMoves DEF InThePast, tableVars, ServerInv, ServerTypeOK
<1>7. CASE Fail(c) /\ UNCHANGED auditRows
  <2>1. request' = [request EXCEPT ![c] = Failed1(r)]
    BY <1>7 DEF Fail, Failed1, Goto, Answered, r
  <2>2. /\ RequestOK(c, Failed1(r), sessionOf, auditRows, sourceKind)
        /\ InThePast(Failed1(r))
    BY <1>2, FailIsOK DEF InThePast
  <2> QED
    BY <1>1, <1>7, <2>1, <2>2, RequestMoves DEF InThePast, tableVars, ServerInv, ServerTypeOK
<1> QED
  BY <1>5, <1>6, <1>7

\* An audit row is written, and the request answered; or it is not, and it says so.
LEMMA AuditKeeps ==
  ASSUME ServerInv, NEW c \in Clients, NEW row, NEW answer \in {"ok", "refused"},
         RequireAudit(c, request[c], row, answer), UNCHANGED <<ambientVars, tableVars>>,
         Begun(request[c]), request[c].at \in {"denying", "failing", "run"},
         request[c].version # 0 =>
           \A i \in 1..(request[c].step - 1) :
             Left(c, request[c], auditRows, sourceKind, i),
         \A more : <<c, row>> \in more /\ auditRows \subseteq more =>
           IsAnswered(c, [request[c] EXCEPT !.at = "done", !.answer = answer], more, sourceKind)
  PROVE  ServerInv'
<1> DEFINE r == request[c]
           q == [r EXCEPT !.at = "done", !.answer = answer]
           u == [r EXCEPT !.at = "done", !.answer = "audit_unavailable"]
<1>1. r \in Request /\ RequestOK(c, r, sessionOf, auditRows, sourceKind)
  BY DEF ServerInv, RequestsOK, RequestOK
<1>0. InThePast(r)
  BY DEF ServerInv, ArrivalsOK
<1>2. /\ r.sid = Unset => r.bearer \in Bearers
      /\ r.sid # Unset => sessionOf[r.sid].version # 0
  BY <1>1 DEF RequestOK
<1>3. CASE /\ auditRows' = auditRows \cup {<<c, row>>}
           /\ request' = [request EXCEPT ![c] = q]
  <2>1. /\ q \in Request /\ q.at = "done" /\ q.route = r.route /\ q.step = r.step
        /\ q.sid = r.sid /\ q.bearer = r.bearer /\ q.arrived = r.arrived
        /\ q.version = r.version
    BY <1>1 DEF Request
  <2>2. IsAnswered(c, q, auditRows', sourceKind)
    BY <1>3
  <2> HIDE DEF q
  <2>3. RequestOK(c, q, sessionOf, auditRows', sourceKind)
    BY <1>2, <2>1, <2>2 DEF RequestOK, Begun, RouteSteps
  <2> QED
    BY <1>0, <1>3, <2>1, <2>3, RequestMoves DEF InThePast, tableVars, ServerInv, ServerTypeOK
<1>4. CASE /\ auditRows' \in {auditRows, auditRows \cup {<<c, row>>}}
           /\ request' = [request EXCEPT ![c] = u]
  <2>1. /\ u \in Request /\ u.at = "done" /\ u.route = r.route /\ u.step = r.step
        /\ u.sid = r.sid /\ u.bearer = r.bearer /\ u.answer = "audit_unavailable"
        /\ u.version = r.version /\ u.arrived = r.arrived
    BY <1>1 DEF Request
  <2> HIDE DEF u
  <2>2. auditRows \subseteq auditRows'
    BY <1>4
  <2>3. ASSUME u.version # 0, NEW i \in 1..Len(RouteSteps(u)), i < u.step
        PROVE  Left(c, u, auditRows', sourceKind, i)
    <3>1. i \in 1..(r.step - 1)
      <4>1. r.step \in Nat /\ Len(RouteSteps(u)) \in Nat /\ u.step = r.step
        BY <1>1, <2>1, StepsAreOrdered DEF RouteSteps
      <4> QED
        BY <2>3, <4>1
    <3>2. Left(c, r, auditRows, sourceKind, i)
      BY <2>1, <2>3, <3>1
    <3> QED
      BY <2>1, <2>2, <3>2 DEF Left, RouteSteps, Granted, Fresh
  <2>4. IsAnswered(c, u, auditRows', sourceKind)
    BY <2>1, <2>3 DEF IsAnswered
  <2>5. RequestOK(c, u, sessionOf, auditRows', sourceKind)
    BY <1>2, <2>1, <2>4 DEF RequestOK, Begun, RouteSteps
  <2> QED
    BY <1>0, <1>4, <2>1, <2>2, <2>5, RequestMoves DEF InThePast, tableVars, ServerInv, ServerTypeOK
<1> QED
  BY <1>3, <1>4 DEF RequireAudit, Answered

LEMMA DenyKeeps == \A c \in Clients : ServerInv /\ Deny(c) => ServerInv'
<1> SUFFICES ASSUME NEW c \in Clients, ServerInv, Deny(c) PROVE ServerInv'
  OBVIOUS
<1> DEFINE r == request[c]
           q == [r EXCEPT !.at = "done", !.answer = "refused"]
<1>1. /\ r \in Request /\ r.at = "denying" /\ Begun(r) /\ IsWaiting(r, sourceKind) /\ r.version = 0
  BY DEF Deny, ServerInv, RequestsOK, RequestOK, IsWaiting
<1>2. q.answer = "refused" /\ q.version = 0 /\ q.wrote = r.wrote
  BY <1>1 DEF Request
<1>3. ASSUME NEW more, <<c, "denied">> \in more
      PROVE  IsAnswered(c, q, more, sourceKind)
  <2> HIDE DEF q
  <2> QED
    BY <1>1, <1>2, <1>3 DEF IsAnswered, IsWaiting
<1> QED
  BY <1>1, <1>3, AuditKeeps DEF Deny

LEMMA AuditFailureKeeps == \A c \in Clients : ServerInv /\ AuditFailure(c) => ServerInv'
<1> SUFFICES ASSUME NEW c \in Clients, ServerInv, AuditFailure(c) PROVE ServerInv'
  OBVIOUS
<1> DEFINE r == request[c]
           q == [r EXCEPT !.at = "done", !.answer = "refused"]
<1>1. r \in Request /\ r.at = "failing" /\ Begun(r) /\ IsFailing(c, r, auditRows, sourceKind)
  BY DEF AuditFailure, ServerInv, RequestsOK, RequestOK
<1>2. /\ q.answer = "refused" /\ q.version = r.version /\ q.wrote = r.wrote /\ q.step = r.step
      /\ q.route = r.route /\ q.bearer = r.bearer /\ q.arrived = r.arrived /\ q.sid = r.sid
  BY <1>1 DEF Request
<1>3. r.step \in Nat /\ Len(RouteSteps(r)) \in Nat
  BY <1>1, StepsAreOrdered
<1>4. ASSUME NEW more, <<c, "failed">> \in more, auditRows \subseteq more
      PROVE  IsAnswered(c, q, more, sourceKind)
  <2> HIDE DEF q
  <2>1. ASSUME NEW i \in 1..Len(RouteSteps(q)), i < q.step PROVE Left(c, q, more, sourceKind, i)
    <3>1. i \in 1..(r.step - 1)
      BY <1>2, <1>3, <2>1 DEF RouteSteps
    <3>2. Left(c, r, auditRows, sourceKind, i)
      BY <1>1, <3>1 DEF IsFailing
    <3> QED
      BY <1>2, <1>4, <3>2 DEF Left, RouteSteps, Granted, Fresh
  <2> QED
    BY <1>1, <1>2, <1>4, <2>1 DEF IsAnswered, IsFailing
<1>5. \A i \in 1..(r.step - 1) : Left(c, r, auditRows, sourceKind, i)
  BY <1>1 DEF IsFailing
<1> QED
  BY <1>1, <1>4, <1>5, AuditKeeps DEF AuditFailure

LEMMA AuditOutcomeKeeps == \A c \in Clients : ServerInv /\ AuditOutcome(c) => ServerInv'
<1> SUFFICES ASSUME NEW c \in Clients, ServerInv, AuditOutcome(c) PROVE ServerInv'
  OBVIOUS
<1> DEFINE r == request[c]
           q == [r EXCEPT !.at = "done", !.answer = "ok"]
<1>1. /\ AtStep(c, {"audit"}) /\ RequireAudit(c, r, "ok", "ok")
      /\ UNCHANGED <<ambientVars, tableVars>>
  BY DEF AuditOutcome
<1>2. /\ r \in Request /\ r.at = "run" /\ Begun(r)
      /\ IsRunning(c, r, sessionOf, auditRows, sourceKind)
      /\ RouteSteps(r)[r.step] = "audit" /\ r.step \in Nat /\ InThePast(r)
  BY <1>1, AtItsStep
<1>3. /\ q.answer = "ok" /\ q.version = r.version /\ q.step = r.step
      /\ q.route = r.route /\ q.bearer = r.bearer /\ q.arrived = r.arrived /\ q.sid = r.sid
  BY <1>2 DEF Request
<1>4. /\ Len(RouteSteps(r)) \in Nat /\ OrderedSteps(RouteSteps(r)) /\ r.step \in 1..Len(RouteSteps(r))
  BY <1>2, StepsAreOrdered DEF Begun
<1>5. \* the audit is the last step
      r.step = Len(RouteSteps(r))
  <2>1. \A j \in 1..Len(RouteSteps(r)) : r.step < j => RouteSteps(r)[r.step] # "audit"
    BY <1>4 DEF OrderedSteps
  <2>2. \A j \in 1..Len(RouteSteps(r)) : ~(r.step < j)
    BY <1>2, <2>1
  <2> HIDE DEF r
  <2>3. Len(RouteSteps(r)) \in 1..Len(RouteSteps(r)) /\ r.step <= Len(RouteSteps(r)) /\ r.step \in Nat
    BY <1>4
  <2> QED
    BY <1>4, <2>2, <2>3
<1>6. ASSUME NEW more, <<c, "ok">> \in more, auditRows \subseteq more
      PROVE  IsAnswered(c, q, more, sourceKind)
  <2> HIDE DEF q
  <2>1. ASSUME NEW i \in 1..Len(RouteSteps(q)) PROVE Left(c, q, more, sourceKind, i)
    <3>1. i = r.step \/ i \in 1..(r.step - 1)
      BY <1>3, <1>4, <1>5 DEF RouteSteps
    <3>2. Left(c, r, auditRows, sourceKind, i)
      BY <1>2, <3>1 DEF IsRunning, Left
    <3> QED
      BY <1>3, <1>6, <3>2 DEF Left, RouteSteps, Granted, Fresh
  <2> QED
    BY <1>2, <1>3, <1>6, <2>1 DEF IsAnswered, IsRunning, IsServed
<1>7. \A i \in 1..(r.step - 1) : Left(c, r, auditRows, sourceKind, i)
  BY <1>2 DEF IsRunning
<1> QED
  BY <1>1, <1>2, <1>6, <1>7, AuditKeeps

LEMMA AnnounceKeeps == \A c \in Clients : ServerInv /\ AnnounceDecryption(c) => ServerInv'
<1> SUFFICES ASSUME NEW c \in Clients, ServerInv, AnnounceDecryption(c) PROVE ServerInv'
  OBVIOUS
<1> DEFINE r == request[c]
           u == [r EXCEPT !.at = "done", !.answer = "audit_unavailable"]
<1>1. AtStep(c, {"intent"}) /\ UNCHANGED <<ambientVars, tableVars>>
  BY DEF AnnounceDecryption
<1>2. /\ r \in Request /\ r.at = "run" /\ Begun(r)
      /\ IsRunning(c, r, sessionOf, auditRows, sourceKind)
      /\ r.sid # Unset => sessionOf[r.sid].version # 0
      /\ RouteSteps(r)[r.step] = "intent"
      /\ r.step \in Nat /\ \A i \in 1..r.step : i = r.step \/ i \in 1..(r.step - 1)
      /\ InThePast(r)
  BY <1>1, AtItsStep
<1>3. \/ Onward(c, r) /\ auditRows' = auditRows \cup {<<c, "intent">>}
      \/ /\ request' = [request EXCEPT ![c] = u]
         /\ auditRows' \in {auditRows, auditRows \cup {<<c, "intent">>}}
  BY DEF AnnounceDecryption, Answered
<1> HIDE DEF r
<1>4. CASE Onward(c, r) /\ auditRows' = auditRows \cup {<<c, "intent">>}
  <2>1. HasDone(c, r, sessionOf, auditRows', sourceKind)
    BY <1>2, <1>4 DEF HasDone, IsRunning, IsServed, Left
  <2>2. request' = [request EXCEPT ![c] = Next1(r)]
    BY <1>4 DEF Onward, Next1, Answered, RouteSteps
  <2>3. auditRows \subseteq auditRows'
    BY <1>4
  <2> QED
    BY <1>1, <1>2, <2>1, <2>2, <2>3, OnwardIsOK, RequestMoves DEF InThePast, tableVars, ServerInv, ServerTypeOK
<1>5. CASE /\ request' = [request EXCEPT ![c] = u]
           /\ auditRows' \in {auditRows, auditRows \cup {<<c, "intent">>}}
  <2>1. /\ u \in Request /\ u.at = "done" /\ u.route = r.route /\ u.step = r.step
        /\ u.sid = r.sid /\ u.bearer = r.bearer /\ u.answer = "audit_unavailable"
        /\ u.version = r.version /\ u.arrived = r.arrived
    BY <1>2 DEF Request
  <2> HIDE DEF u
  <2>2. auditRows \subseteq auditRows'
    BY <1>5
  <2>3. ASSUME NEW i \in 1..Len(RouteSteps(u)), i < u.step
        PROVE  Left(c, u, auditRows', sourceKind, i)
    <3>1. i \in 1..(r.step - 1)
      <4>1. r.step \in Nat /\ Len(RouteSteps(u)) \in Nat /\ u.step = r.step
        BY <1>2, <2>1, StepsAreOrdered DEF RouteSteps
      <4> QED
        BY <2>3, <4>1
    <3>2. Left(c, r, auditRows, sourceKind, i)
      BY <1>2, <3>1 DEF IsRunning
    <3> QED
      BY <2>1, <2>2, <3>2 DEF Left, RouteSteps, Granted, Fresh
  <2>4. IsAnswered(c, u, auditRows', sourceKind)
    BY <2>1, <2>3 DEF IsAnswered
  <2>5. RequestOK(c, u, sessionOf, auditRows', sourceKind)
    BY <1>2, <2>1, <2>4 DEF RequestOK, Begun, RouteSteps, IsRunning, IsServed
  <2> QED
    BY <1>1, <1>2, <1>5, <2>1, <2>2, <2>5, RequestMoves DEF InThePast, tableVars, ServerInv, ServerTypeOK
<1> QED
  BY <1>3, <1>4, <1>5

\* A tool takes the policy its session has by now, before it is compared.
LEMMA UseSessionKeeps == \A c \in Clients : ServerInv /\ UseSession(c) => ServerInv'
<1> SUFFICES ASSUME NEW c \in Clients, ServerInv, UseSession(c) PROVE ServerInv'
  OBVIOUS
<1> DEFINE r == request[c]
           v == sessionOf[request[c].sid].version
           q == [r EXCEPT !.version = v]
<1>1. /\ AtStep(c, {"register"}) /\ r.sid # Unset
      /\ UNCHANGED <<ambientVars, tableVars, auditRows>> /\ Onward(c, q)
  BY DEF UseSession
<1>2. /\ r \in Request /\ r.at = "run" /\ Begun(r)
      /\ IsRunning(c, r, sessionOf, auditRows, sourceKind)
      /\ v # 0 /\ RouteSteps(r)[r.step] = "register"
      /\ r.step \in Nat /\ \A i \in 1..r.step : i = r.step \/ i \in 1..(r.step - 1)
      /\ InThePast(r)
  BY <1>1, AtItsStep
<1>3. v \in Versions \cup {0}
  <2>1. r.sid \in SessionIds
    BY <1>1, <1>2 DEF Request
  <2> QED
    BY <2>1 DEF ServerInv, ServerTypeOK, Session
<1> HIDE DEF v
<1>4. /\ q \in Request /\ q.at = "run" /\ q.answer = r.answer /\ q.version = v /\ q.step = r.step
      /\ q.route = r.route /\ q.bearer = r.bearer /\ q.arrived = r.arrived /\ q.sid = r.sid
      /\ q.wrote = r.wrote
  BY <1>2, <1>3 DEF Request
<1> HIDE DEF q
<1>10. InThePast(q)
  <2>1. r.sid \in SessionIds
    BY <1>1, <1>2 DEF Request
  <2>2. v <= registryAt
    BY <2>1 DEF ServerInv, SessionsOK, v
  <2> QED
    BY <1>2, <1>4, <2>2 DEF InThePast
<1>5. request' = [request EXCEPT ![c] = Next1(q)]
  BY <1>1 DEF Onward, Next1, Answered, RouteSteps
<1>6. IsServed(c, q, sessionOf, sourceKind)
  BY <1>1, <1>2, <1>4 DEF IsRunning, IsServed, Fresh, v
<1>7. Len(RouteSteps(r)) \in Nat /\ OrderedSteps(RouteSteps(r)) /\ r.step \in 1..Len(RouteSteps(r))
  BY <1>2, StepsAreOrdered DEF Begun
<1>8. ASSUME NEW i \in 1..q.step
      PROVE  /\ Left(c, q, auditRows, sourceKind, i)
             /\ RouteSteps(q)[i] = "store" => <<c, "ok">> \in auditRows
  <2>1. CASE i = r.step
    BY <1>2, <1>4, <2>1 DEF Left, RouteSteps
  <2>2. CASE i \in 1..(r.step - 1)
    <3>1. RouteSteps(r)[i] # "permit"
      BY <1>2, <1>7, <2>2 DEF OrderedSteps
    <3>2. /\ Left(c, r, auditRows, sourceKind, i)
          /\ RouteSteps(r)[i] = "store" => <<c, "ok">> \in auditRows
      BY <1>2, <2>2 DEF IsRunning
    <3> QED
      BY <1>4, <3>1, <3>2 DEF Left, RouteSteps
  <2> QED
    BY <1>2, <1>4, <2>1, <2>2
<1>9. HasDone(c, q, sessionOf, auditRows, sourceKind)
  BY <1>2, <1>4, <1>6, <1>8 DEF HasDone, IsRunning, Begun, RouteSteps, v
<1> QED
  BY <1>1, <1>5, <1>9, <1>10, OnwardIsOK, RequestMoves DEF InThePast, tableVars, ServerInv, ServerTypeOK

LEMMA DropSessionKeeps == \A c \in Clients : ServerInv /\ DropSession(c) => ServerInv'
<1> SUFFICES ASSUME NEW c \in Clients, ServerInv, DropSession(c) PROVE ServerInv'
  OBVIOUS
<1> DEFINE r == request[c]
<1>1. /\ AtStep(c, {"drop"}) /\ inTable' = inTable \ {r.sid} /\ Onward(c, r)
      /\ UNCHANGED <<ambientVars, sessionOf, openStreams, auditRows, serverFaults>>
  BY DEF DropSession
<1>2. /\ r \in Request /\ r.at = "run" /\ Begun(r)
      /\ IsRunning(c, r, sessionOf, auditRows, sourceKind)
      /\ r.sid # Unset => sessionOf[r.sid].version # 0
      /\ RouteSteps(r)[r.step] = "drop"
      /\ r.step \in Nat /\ \A i \in 1..r.step : i = r.step \/ i \in 1..(r.step - 1)
      /\ InThePast(r)
  BY <1>1, AtItsStep
<1> HIDE DEF r
<1>3. HasDone(c, r, sessionOf, auditRows, sourceKind)
  BY <1>2 DEF HasDone, IsRunning, IsServed, Left
<1>4. request' = [request EXCEPT ![c] = Next1(r)]
  BY <1>1 DEF Onward, Next1, Answered, RouteSteps
<1> QED
  BY <1>1, <1>2, <1>3, <1>4, OnwardIsOK, RequestMoves DEF InThePast, tableVars, ServerInv, ServerTypeOK

(***************************************************************************)
(* The registry has answered.                                              *)
(***************************************************************************)

\* What may ask: a request that has just come, or whose answer is there.
MayAsk(r) ==
  /\ r \in Request /\ Begun(r) /\ r.step = 1 /\ ~r.wrote /\ r.answer = "none" /\ r.version = 0
  /\ r.sid = Unset => r.bearer \in Bearers
  /\ r.sid # Unset => sessionOf[r.sid].version # 0
  /\ r.arrived <= registryAt

LEMMA IdentifiedKeeps ==
  ASSUME ServerInv, NEW c \in Clients, NEW r, MayAsk(r), NEW version, NEW found,
         NEW table, NEW streams, Identified(c, r, version, found, table, streams),
         found => version \in Versions /\ version <= registryAt,
         sourceKind = "local" => version = registryAt,
         found => version >= r.arrived,
         table \subseteq inTable, streams \subseteq openStreams,
         \A i \in table : i \in openStreams => i \in streams,
         UNCHANGED <<ambientVars, auditRows>>
  PROVE  ServerInv'
<1> DEFINE bearer == IF r.sid = Unset THEN r.bearer ELSE sessionOf[r.sid].bearer
           q == [r EXCEPT !.at = "run", !.bearer = bearer, !.version = version]
           d == [r EXCEPT !.at = "denying"]
           t == IF r.sid = Unset THEN sessionOf
                ELSE [sessionOf EXCEPT ![r.sid].version = version, ![r.sid].seen = clockAt]
<1>0. ServerTypeOK /\ SessionsOK
  BY DEF ServerInv
<1>1. r.sid # Unset => r.sid \in SessionIds
  BY DEF MayAsk, Request
<1>2. bearer \in Bearers
  <2>1. CASE r.sid = Unset
    BY <2>1 DEF MayAsk
  <2>2. CASE r.sid # Unset
    <3>1. sessionOf[r.sid].version # 0 /\ r.sid \in SessionIds
      BY <1>1, <2>2 DEF MayAsk
    <3>2. sessionOf[r.sid] # NoSession
      BY <3>1 DEF NoSession
    <3> QED
      BY <1>0, <2>2, <3>1, <3>2 DEF SessionsOK
  <2> QED
    BY <2>1, <2>2
<1>3. \/ /\ found /\ request' = [request EXCEPT ![c] = q] /\ sessionOf' = t
         /\ inTable' = table /\ openStreams' = streams
      \/ /\ request' = [request EXCEPT ![c] = d] /\ UNCHANGED sessionOf
         /\ inTable' = table \ {r.sid} /\ openStreams' = streams \ {r.sid}
  BY DEF Identified, Goto
<1> HIDE DEF bearer
<1>4. CASE /\ found /\ request' = [request EXCEPT ![c] = q] /\ sessionOf' = t
           /\ inTable' = table /\ openStreams' = streams
  <2>1. version \in Versions /\ version \in Nat /\ version # 0
    BY <1>4, VersionsAreNumbers DEF Versions
  <2>2. /\ q \in Request /\ q.at = "run" /\ q.answer = "none" /\ q.version = version
        /\ q.step = 1 /\ q.route = r.route /\ q.bearer = bearer /\ q.arrived = r.arrived
        /\ q.sid = r.sid /\ ~q.wrote
    BY <1>2, <2>1 DEF MayAsk, Request
  <2>3. ASSUME NEW i \in SessionIds
        PROVE  /\ t[i] \in Session
               /\ t[i].bearer = sessionOf[i].bearer /\ t[i].stream = sessionOf[i].stream
               /\ i = r.sid => t[i].version = version
               /\ i # r.sid => t[i] = sessionOf[i]
    <3>1. sessionOf[i] \in Session /\ clockAt \in Nat
      BY <1>0 DEF ServerTypeOK
    <3>2. CASE r.sid = Unset
      BY <3>1, <3>2, ServerAssumption DEF ServerAssumption
    <3>3. CASE r.sid # Unset /\ i = r.sid
      <4>1. t[i] = [sessionOf[i] EXCEPT !.version = version, !.seen = clockAt]
        BY <1>0, <3>3 DEF ServerTypeOK
      <4> HIDE DEF t
      <4>2. t[i] \in Session
        BY <2>1, <3>1, <4>1 DEF Session
      <4>3. /\ t[i].bearer = sessionOf[i].bearer /\ t[i].stream = sessionOf[i].stream
            /\ t[i].version = version
        BY <3>1, <4>1 DEF Session
      <4> QED
        BY <3>3, <4>2, <4>3
    <3>4. CASE r.sid # Unset /\ i # r.sid
      <4>1. t[i] = sessionOf[i]
        BY <1>0, <3>4 DEF ServerTypeOK
      <4> HIDE DEF t
      <4> QED
        BY <3>1, <3>4, <4>1
    <3> QED
      BY <3>2, <3>3, <3>4
  <2>4. t \in [SessionIds -> Session]
    <3>1. t = [i \in SessionIds |-> t[i]]
      BY <1>0 DEF ServerTypeOK
    <3> HIDE DEF t
    <3> QED
      BY <2>3, <3>1
  <2> HIDE DEF t, q
  <2>5. SessionsMove(sessionOf, t, sourceKind)
    <3> SUFFICES ASSUME NEW i \in SessionIds, sessionOf[i].version # 0
                 PROVE  /\ t[i].version # 0
                        /\ sourceKind = "local" => t[i].version >= sessionOf[i].version
      BY DEF SessionsMove
    <3>1. sessionOf[i].version \in Nat /\ registryAt \in Nat
      BY <1>0, VersionsAreNumbers DEF ServerTypeOK, Session
    <3>2. sourceKind = "local" => registryAt >= sessionOf[i].version
      BY <1>0, <3>1 DEF SessionsOK
    <3> QED
      BY <2>1, <2>3, <3>1, <3>2
  <2>6. Fresh(q, sourceKind)
    BY <1>4, <2>2 DEF Fresh
  <2>7. q.sid # Unset => t[q.sid].version = version
    BY <1>1, <2>2, <2>3
  <2>8. IsServed(c, q, t, sourceKind)
    BY <1>2, <1>4, <2>1, <2>2, <2>6, <2>7 DEF IsServed
  <2>9. RequestOK(c, q, t, auditRows, sourceKind)
    BY <1>2, <2>1, <2>2, <2>7, <2>8 DEF RequestOK, IsRunning, Begun, RouteSteps, MayAsk
  <2>10. RequestsOK' /\ request' \in [Clients -> Request]
    BY <1>4, <2>4, <2>5, <2>9, OneMoves DEF ambientVars
  <2>11. TableOK'
    <3>1. \A i \in SessionIds : /\ t[i].bearer = sessionOf[i].bearer
                                /\ t[i].stream = sessionOf[i].stream
                                /\ sessionOf[i].version # 0 => t[i].version # 0
      BY <2>1, <2>3
    <3> QED
      BY <1>4, <3>1, TableShrinks
  <2>12. SessionsOK'
    <3> SUFFICES ASSUME NEW i \in SessionIds
                 PROVE  /\ t[i] = NoSession \/ (t[i].bearer \in Bearers /\ t[i].version # 0)
                        /\ t[i].version <= registryAt
      BY <1>4 DEF SessionsOK, ambientVars
    <3>1. CASE i = r.sid
      <4>1. registryAt \in Nat
        BY <1>0, VersionsAreNumbers DEF ServerTypeOK
      <4>2. i # Unset
        BY ServerAssumption DEF ServerAssumption
      <4>3. t[i].bearer = bearer
        BY <2>3, <3>1, <4>2 DEF bearer
      <4> QED
        BY <1>2, <1>4, <2>1, <2>3, <3>1, <4>1, <4>3
    <3>2. CASE i # r.sid
      BY <1>0, <2>3, <3>2 DEF SessionsOK
    <3> QED
      BY <3>1, <3>2
  <2>13. ArrivalsOK'
    BY <1>0, <1>4, <2>2 DEF MayAsk, ServerInv, ServerTypeOK, ArrivalsOK, InThePast, ambientVars
  <2>14. ServerTypeOK'
    BY <1>0, <1>4, <2>4, <2>10 DEF ServerTypeOK, ambientVars
  <2> QED
    BY <2>10, <2>11, <2>12, <2>14, <2>13 DEF ServerInv
<1>5. CASE /\ request' = [request EXCEPT ![c] = d] /\ UNCHANGED sessionOf
           /\ inTable' = table \ {r.sid} /\ openStreams' = streams \ {r.sid}
  <2>1. /\ d \in Request /\ d.at = "denying" /\ d.answer = "none" /\ d.version = 0
        /\ d.step = 1 /\ d.route = r.route /\ d.bearer = r.bearer
        /\ d.sid = r.sid /\ ~d.wrote /\ d.arrived = r.arrived
    BY DEF MayAsk, Request
  <2> HIDE DEF d
  <2>2. RequestOK(c, d, sessionOf, auditRows, sourceKind)
    BY <2>1 DEF RequestOK, IsWaiting, Begun, RouteSteps, MayAsk
  <2>3. /\ inTable' \subseteq inTable /\ openStreams' \subseteq SessionIds
        /\ \A i \in inTable' : i \in openStreams => i \in openStreams'
    BY <1>0, <1>5 DEF ServerTypeOK
  <2>4. InThePast(d)
    <3>1. registryAt \in Nat
      BY <1>0, VersionsAreNumbers DEF ServerTypeOK
    <3> QED
      BY <2>1, <3>1 DEF MayAsk, InThePast
  <2> QED
    BY <1>5, <2>1, <2>2, <2>3, <2>4, RequestMoves
<1> QED
  BY <1>3, <1>4, <1>5

LEMMA FetchKeeps == \A c \in Clients : ServerInv /\ Fetch(c) => ServerInv'
<1> SUFFICES ASSUME NEW c \in Clients, ServerInv, Fetch(c) PROVE ServerInv'
  OBVIOUS
<1> DEFINE r == request[c]
<1>1. /\ r.at = "fetch" /\ r \in Request /\ RequestOK(c, r, sessionOf, auditRows, sourceKind)
      /\ Begun(r) /\ IsWaiting(r, sourceKind) /\ r.version = 0
  BY DEF Fetch, ServerInv, RequestsOK, RequestOK, IsWaiting
<1>0. InThePast(r)
  BY DEF ServerInv, ArrivalsOK
<1>2. registryAt \in Versions /\ registryAt \in Nat /\ r.arrived \in Nat
  BY <1>1, VersionsAreNumbers DEF ServerInv, ServerTypeOK, Request
<1>3. PICK v \in {0, registryAt} :
        request' = [request EXCEPT ![c] = [[r EXCEPT !.version = v] EXCEPT !.at = "fetched"]]
  <2>1. r = [r EXCEPT !.version = 0]
    BY <1>1 DEF Request
  <2> QED
    BY <2>1 DEF Fetch, Goto
<1> DEFINE q == [[r EXCEPT !.version = v] EXCEPT !.at = "fetched"]
<1>4. /\ q \in Request /\ q.at = "fetched" /\ q.answer = r.answer /\ q.version = v
      /\ q.step = r.step /\ q.route = r.route /\ q.bearer = r.bearer
      /\ q.sid = r.sid /\ q.wrote = r.wrote /\ q.arrived = r.arrived
  BY <1>1, <1>2 DEF Request
<1>5. request' = [request EXCEPT ![c] = q] /\ UNCHANGED <<ambientVars, tableVars, auditRows>>
  BY <1>3 DEF Fetch
<1> HIDE DEF q
<1>6. RequestOK(c, q, sessionOf, auditRows, sourceKind)
  BY <1>1, <1>2, <1>4, <1>0 DEF RequestOK, IsWaiting, Begun, RouteSteps, InThePast
<1>7. InThePast(q)
  BY <1>0, <1>2, <1>4 DEF InThePast
<1> QED
  BY <1>5, <1>6, <1>7, RequestMoves DEF tableVars, ServerInv, ServerTypeOK

LEMMA FetchAnswersKeeps == \A c \in Clients : ServerInv /\ FetchAnswers(c) => ServerInv'
<1> SUFFICES ASSUME NEW c \in Clients, ServerInv, FetchAnswers(c) PROVE ServerInv'
  OBVIOUS
<1> DEFINE r == request[c]
           v == request[c].version
           q == [r EXCEPT !.version = 0]
<1>1. /\ r.at = "fetched" /\ r \in Request /\ RequestOK(c, r, sessionOf, auditRows, sourceKind)
      /\ Begun(r) /\ IsWaiting(r, sourceKind)
      /\ r.arrived <= registryAt /\ r.version <= registryAt
  BY DEF FetchAnswers, ServerInv, RequestsOK, RequestOK, ArrivalsOK, InThePast
<1>2. /\ q \in Request /\ q.answer = r.answer /\ q.version = 0
      /\ q.step = r.step /\ q.route = r.route /\ q.bearer = r.bearer
      /\ q.sid = r.sid /\ q.wrote = r.wrote /\ q.arrived = r.arrived
  BY <1>1 DEF Request
<1>3. /\ Identified(c, q, v, v # 0, inTable, openStreams) /\ UNCHANGED <<ambientVars, auditRows>>
  BY DEF FetchAnswers
<1>4. v \in Versions \cup {0}
  BY <1>1 DEF Request
<1> HIDE DEF q
<1>5. MayAsk(q)
  BY <1>1, <1>2 DEF MayAsk, RequestOK, IsWaiting, Begun, RouteSteps
<1>6. sourceKind # "local" /\ (v # 0 => v >= q.arrived) /\ v <= registryAt
  BY <1>1, <1>2 DEF IsWaiting
<1> HIDE DEF v
<1> QED
  BY <1>3, <1>4, <1>5, <1>6, IdentifiedKeeps

LEMMA ArriveKeeps == \A c \in Clients : ServerInv /\ Arrive(c) => ServerInv'
<1> SUFFICES ASSUME NEW c \in Clients, ServerInv, Arrive(c) PROVE ServerInv'
  OBVIOUS
<1>0. ServerTypeOK /\ SessionsOK
  BY DEF ServerInv
<1>1. UNCHANGED <<ambientVars, auditRows>>
  BY DEF Arrive
<1>2. PICK route \in mix.routes : \E credential \in Credentials(route) :
        LET q == [NoRequest EXCEPT !.route = route, !.bearer = credential[1],
                                   !.sid = credential[2], !.arrived = registryAt] IN
        \/ /\ Goto(c, q, "denying")
           /\ inTable' = Pruned /\ openStreams' = openStreams \ Idle
           /\ UNCHANGED sessionOf
        \/ /\ sourceKind = "remote" /\ Goto(c, q, "fetch")
           /\ inTable' = Pruned /\ openStreams' = openStreams \ Idle
           /\ UNCHANGED sessionOf
        \/ /\ sourceKind # "remote"
           /\ \E found \in BOOLEAN :
                Identified(c, q, registryAt, found, Pruned, openStreams \ Idle)
  BY DEF Arrive
<1>x. PICK credential \in Credentials(route) :
        LET q == [NoRequest EXCEPT !.route = route, !.bearer = credential[1],
                                   !.sid = credential[2], !.arrived = registryAt] IN
        \/ /\ Goto(c, q, "denying")
           /\ inTable' = Pruned /\ openStreams' = openStreams \ Idle
           /\ UNCHANGED sessionOf
        \/ /\ sourceKind = "remote" /\ Goto(c, q, "fetch")
           /\ inTable' = Pruned /\ openStreams' = openStreams \ Idle
           /\ UNCHANGED sessionOf
        \/ /\ sourceKind # "remote"
           /\ \E found \in BOOLEAN :
                Identified(c, q, registryAt, found, Pruned, openStreams \ Idle)
  BY <1>2
<1> DEFINE r == [NoRequest EXCEPT !.route = route, !.bearer = credential[1],
                                  !.sid = credential[2], !.arrived = registryAt]
<1>3. /\ route \in RouteNames
      /\ \/ credential[1] \in Bearers /\ credential[2] = Unset
         \/ /\ credential[1] = Unset /\ credential[2] \in SessionIds
            /\ sessionOf[credential[2]].bearer # Unset
  <2>1. route \in RouteNames
    BY <1>0, MixAssumption DEF ServerTypeOK
  <2>2. \/ credential \in Bearers \X {Unset}
        \/ credential \in {Unset} \X {i \in SessionIds : sessionOf[i].bearer # Unset}
    BY DEF Credentials
  <2> QED
    BY <2>1, <2>2
<1>4. registryAt \in Versions /\ registryAt \in Nat
  BY <1>0, VersionsAreNumbers DEF ServerTypeOK
<1>5. /\ r \in Request /\ r.answer = "none" /\ r.version = 0 /\ r.step = 1 /\ r.route = route
      /\ r.bearer = credential[1] /\ r.sid = credential[2] /\ ~r.wrote /\ r.arrived = registryAt
  BY <1>3, <1>4 DEF NoRequest, Request
<1> HIDE DEF r
<1>6. r.sid # Unset => sessionOf[r.sid].version # 0
  <2> SUFFICES ASSUME r.sid # Unset PROVE sessionOf[r.sid].version # 0
    OBVIOUS
  <2>1. r.sid \in SessionIds /\ sessionOf[r.sid].bearer # Unset
    BY <1>3, <1>5
  <2>2. sessionOf[r.sid] # NoSession
    BY <2>1 DEF NoSession
  <2> QED
    BY <1>0, <2>1, <2>2 DEF SessionsOK
<1>7. Begun(r) /\ (r.sid = Unset => r.bearer \in Bearers)
  <2>1. SoundRoute(Handler(route))
    BY <1>3, HandlersAreSound
  <2>2. Len(Handler(route).steps) \in Nat \ {0}
    BY <2>1 DEF SoundRoute
  <2>3. r.sid = Unset => r.bearer \in Bearers
    BY <1>3, <1>5, ServerAssumption DEF ServerAssumption
  <2> QED
    BY <1>3, <1>5, <2>2, <2>3 DEF Begun, RouteSteps
<1>8. MayAsk(r)
  BY <1>4, <1>5, <1>6, <1>7 DEF MayAsk
<1>9. /\ Pruned \subseteq inTable /\ openStreams \ Idle \subseteq openStreams
      /\ \A i \in Pruned : i \in openStreams => i \in openStreams \ Idle
  BY DEF Pruned
<1>10. ASSUME NEW place \in {"denying", "fetch"}, place = "fetch" => sourceKind = "remote",
              Goto(c, r, place), inTable' = Pruned, openStreams' = openStreams \ Idle,
              UNCHANGED sessionOf
       PROVE  ServerInv'
  <2> DEFINE q == [r EXCEPT !.at = place]
  <2>1. /\ q \in Request /\ q.at = place /\ q.answer = "none" /\ q.version = 0 /\ q.step = 1
        /\ q.route = r.route /\ q.bearer = r.bearer /\ q.sid = r.sid /\ ~q.wrote
        /\ q.arrived = r.arrived
    BY <1>5 DEF Request
  <2>2. request' = [request EXCEPT ![c] = q]
    BY <1>10 DEF Goto
  <2> HIDE DEF q
  <2>3. RequestOK(c, q, sessionOf, auditRows, sourceKind)
    BY <1>6, <1>7, <1>10, <2>1 DEF RequestOK, IsWaiting, Begun, RouteSteps
  <2>4. openStreams' \subseteq SessionIds
    BY <1>0, <1>10 DEF ServerTypeOK
  <2>5. InThePast(q)
    BY <1>4, <1>5, <2>1 DEF InThePast
  <2> QED
    BY <1>1, <1>9, <1>10, <2>2, <2>3, <2>4, <2>5, RequestMoves
<1>11. ASSUME NEW found \in BOOLEAN,
              Identified(c, r, registryAt, found, Pruned, openStreams \ Idle)
       PROVE  ServerInv'
  <2>1. registryAt >= r.arrived
    BY <1>4, <1>5
  <2> QED
    BY <1>1, <1>4, <1>8, <1>9, <1>11, <2>1, IdentifiedKeeps
<1> QED
  BY <1>x, <1>10, <1>11 DEF r

\* A session is registered only while the table has room for it.
LEMMA RegisterKeeps == \A c \in Clients : ServerInv /\ Register(c) => ServerInv'
<1> SUFFICES ASSUME NEW c \in Clients, ServerInv, Register(c) PROVE ServerInv'
  OBVIOUS
<1> DEFINE r == request[c]
<1>0. ServerTypeOK /\ SessionsOK /\ TableOK /\ IsFiniteSet(inTable)
  BY DEF ServerInv, TableOK
<1>1. AtStep(c, {"register"}) /\ r.sid = Unset /\ UNCHANGED <<ambientVars, auditRows>>
  BY DEF Register
<1>2. /\ r \in Request /\ r.at = "run" /\ Begun(r)
      /\ IsRunning(c, r, sessionOf, auditRows, sourceKind)
      /\ RequestOK(c, r, sessionOf, auditRows, sourceKind)
      /\ RouteSteps(r)[r.step] = "register"
      /\ r.step \in Nat /\ \A i \in 1..r.step : i = r.step \/ i \in 1..(r.step - 1)
      /\ InThePast(r)
  BY <1>1, AtItsStep
<1>3. /\ Pruned \subseteq inTable /\ Pruned \subseteq SessionIds
      /\ \A i \in Pruned : i \in openStreams => i \in openStreams \ Idle
  BY <1>0 DEF Pruned, ServerTypeOK
<1>4. r.version \in Versions /\ r.version # 0 /\ r.bearer \in Bearers /\ r.arrived \in Nat
  BY <1>2 DEF IsRunning, IsServed, Request
<1>5. CASE /\ Fail(c) /\ inTable' = Pruned /\ openStreams' = openStreams \ Idle
           /\ UNCHANGED sessionOf
  <2>1. request' = [request EXCEPT ![c] = Failed1(r)]
    BY <1>5 DEF Fail, Failed1, Goto, Answered
  <2>2. /\ RequestOK(c, Failed1(r), sessionOf, auditRows, sourceKind)
        /\ InThePast(Failed1(r))
    BY <1>2, FailIsOK DEF InThePast
  <2> HIDE DEF r
  <2> QED
    BY <1>0, <1>1, <1>3, <1>5, <2>1, <2>2, RequestMoves DEF InThePast, ServerTypeOK
<1>6. ASSUME NEW i \in SessionIds, sessionOf[i] = NoSession, ~Full(r.bearer),
             sessionOf' = [sessionOf EXCEPT ![i] =
               [bearer |-> r.bearer, version |-> r.version, seen |-> clockAt,
                stream |-> r.route = "stream_open"]],
             inTable' = Pruned \cup {i},
             openStreams' = (openStreams \ Idle) \cup
                              IF r.route = "stream_open" THEN {i} ELSE {},
             Onward(c, [r EXCEPT !.sid = i])
      PROVE  ServerInv'
  <2> DEFINE q == [r EXCEPT !.sid = i]
             new == [bearer |-> r.bearer, version |-> r.version, seen |-> clockAt,
                     stream |-> r.route = "stream_open"]
  <2>1. /\ q \in Request /\ q.at = "run" /\ q.answer = r.answer /\ q.version = r.version
        /\ q.step = r.step /\ q.route = r.route /\ q.bearer = r.bearer /\ q.arrived = r.arrived
        /\ q.sid = i /\ q.wrote = r.wrote
    BY <1>2 DEF Request
  <2>2. i # Unset
    BY ServerAssumption DEF ServerAssumption
  <2>3. /\ new \in Session /\ new.bearer = r.bearer /\ new.version = r.version
        /\ new.stream = (r.route = "stream_open")
    BY <1>0, <1>4 DEF Session, ServerTypeOK
  <2>4. /\ sessionOf' \in [SessionIds -> Session] /\ sessionOf'[i] = new
        /\ \A k \in SessionIds : k # i => sessionOf'[k] = sessionOf[k]
    <3> HIDE DEF new
    <3>1. sessionOf' = [sessionOf EXCEPT ![i] = new]
      BY <1>6 DEF new
    <3> QED
      BY <1>0, <2>3, <3>1 DEF ServerTypeOK
  <2>5. request' = [request EXCEPT ![c] = Next1(q)]
    BY <1>6 DEF Onward, Next1, Answered, RouteSteps
  <2> HIDE DEF q, new, r
  <2>6. sessionOf[i].version = 0
    BY <1>6 DEF NoSession
  <2>7. SessionsMove(sessionOf, sessionOf', sourceKind)
    <3> SUFFICES ASSUME NEW k \in SessionIds, sessionOf[k].version # 0
                 PROVE  /\ sessionOf'[k].version # 0
                        /\ sourceKind = "local" => sessionOf'[k].version >= sessionOf[k].version
      BY DEF SessionsMove
    <3>1. sessionOf'[k] = sessionOf[k] /\ sessionOf[k].version \in Nat
      BY <1>0, <2>4, <2>6, VersionsAreNumbers DEF ServerTypeOK, Session
    <3> QED
      BY <3>1
  <2>8. IsServed(c, q, sessionOf', sourceKind)
    BY <1>1, <1>2, <1>4, <2>1, <2>2, <2>3, <2>4 DEF IsRunning, IsServed, Fresh
  <2>9. ASSUME NEW k \in 1..q.step
        PROVE  /\ Left(c, q, auditRows, sourceKind, k)
               /\ RouteSteps(q)[k] = "store" => <<c, "ok">> \in auditRows
    <3>1. CASE k = r.step
      BY <1>2, <2>1, <3>1 DEF Left, RouteSteps
    <3>2. CASE k \in 1..(r.step - 1)
      <4>1. RouteSteps(r)[k] # "permit"
        <5>1. /\ Len(RouteSteps(r)) \in Nat /\ OrderedSteps(RouteSteps(r))
              /\ r.step \in 1..Len(RouteSteps(r))
          BY <1>2, StepsAreOrdered DEF Begun
        <5> QED
          BY <1>2, <3>2, <5>1 DEF OrderedSteps
      <4>2. /\ Left(c, r, auditRows, sourceKind, k)
            /\ RouteSteps(r)[k] = "store" => <<c, "ok">> \in auditRows
        BY <1>2, <3>2 DEF IsRunning
      <4> QED
        BY <2>1, <4>1, <4>2 DEF Left, RouteSteps
    <3> QED
      BY <1>2, <2>1, <3>1, <3>2
  <2>10. HasDone(c, q, sessionOf', auditRows, sourceKind)
    BY <1>2, <1>4, <2>1, <2>3, <2>4, <2>8, <2>9 DEF HasDone, IsRunning, Begun, RouteSteps
  <2>11. /\ RequestOK(c, Next1(q), sessionOf', auditRows, sourceKind)
         /\ InThePast(Next1(q))
    BY <1>2, <2>1, <2>10, OnwardIsOK DEF InThePast
  <2>12. RequestsOK' /\ request' \in [Clients -> Request]
    BY <1>1, <2>4, <2>5, <2>7, <2>11, OneMoves DEF ambientVars
  <2>13. ArrivalsOK'
    BY <1>1, <2>5, <2>11 DEF ServerInv, ServerTypeOK, ArrivalsOK, InThePast, ambientVars
  <2>14. ServerTypeOK'
    <3>1. inTable' \subseteq SessionIds /\ openStreams' \subseteq SessionIds
      BY <1>0, <1>3, <1>6 DEF ServerTypeOK
    <3> QED
      BY <1>0, <1>1, <2>4, <2>12, <3>1 DEF ServerTypeOK, ambientVars
  <2>15. SessionsOK'
    <3> SUFFICES ASSUME NEW k \in SessionIds
                 PROVE  /\ \/ sessionOf'[k] = NoSession
                           \/ sessionOf'[k].bearer \in Bearers /\ sessionOf'[k].version # 0
                        /\ sessionOf'[k].version <= registryAt
      BY <1>1 DEF SessionsOK, ambientVars
    <3>1. r.version <= registryAt
      BY <1>2 DEF InThePast
    <3> QED
      BY <1>0, <1>4, <2>3, <2>4, <3>1 DEF SessionsOK
  <2>16. TableOK'
    <3>1. i \notin inTable
      BY <1>0, <2>6 DEF TableOK
    <3>2. IsFiniteSet(Pruned) /\ Cardinality(Pruned) \in Nat
      BY <1>0, <1>3, FS_Subset, FS_CardinalityType
    <3>3. IsFiniteSet(inTable') /\ Cardinality(inTable') = Cardinality(Pruned) + 1
      BY <1>3, <1>6, <3>1, <3>2, FS_AddElement
    <3>4. Cardinality(inTable') <= MaxGlobal
      BY <1>6, <3>2, <3>3, ServerAssumption DEF Full, ServerAssumption
    <3>5. ASSUME NEW b \in Bearers PROVE Cardinality(OfBearer(inTable, b)') <= MaxPerActor
      <4> DEFINE kept == OfBearer(Pruned, b)
      <4>1. kept \subseteq Pruned /\ IsFiniteSet(kept) /\ Cardinality(kept) \in Nat
        BY <3>2, FS_Subset, FS_CardinalityType DEF OfBearer
      <4>2. CASE b = r.bearer
        <5>1. OfBearer(inTable, b)' = kept \cup {i}
          BY <1>3, <1>6, <2>3, <2>4, <3>1, <4>2 DEF OfBearer
        <5>2. Cardinality(kept \cup {i}) = Cardinality(kept) + 1
          BY <1>3, <3>1, <4>1, FS_AddElement
        <5> QED
          <6>1. ~(Cardinality(kept) >= MaxPerActor)
            BY <1>6, <4>2 DEF Full
          <6> QED
            BY <4>1, <5>1, <5>2, <6>1, ServerAssumption DEF ServerAssumption
      <4>3. CASE b # r.bearer
        <5>1. OfBearer(inTable, b)' = kept
          BY <1>3, <1>6, <2>3, <2>4, <3>1, <4>3 DEF OfBearer
        <5>2. kept \subseteq OfBearer(inTable, b) /\ IsFiniteSet(OfBearer(inTable, b))
          BY <1>0, <1>3, FS_Subset DEF OfBearer
        <5>3. Cardinality(OfBearer(inTable, b)) <= MaxPerActor
          BY <1>0 DEF TableOK, SessionsAreBounded
        <5>4. Cardinality(kept) <= Cardinality(OfBearer(inTable, b))
          BY <5>2, FS_Subset
        <5>5. Cardinality(OfBearer(inTable, b)) \in Nat
          BY <5>2, FS_CardinalityType
        <5> QED
          BY <4>1, <5>1, <5>3, <5>4, <5>5, ServerAssumption DEF ServerAssumption
      <4> QED
        BY <4>2, <4>3
    <3>6. (\A b \in Bearers : Cardinality(OfBearer(inTable, b)) <= MaxPerActor)'
      BY <3>5
    <3>7. \A k \in inTable' : sessionOf'[k].version # 0
      BY <1>0, <1>3, <1>4, <1>6, <2>3, <2>4, <3>1 DEF TableOK
    <3>8. \A k \in inTable' : sessionOf'[k].stream => k \in openStreams'
      BY <1>0, <1>3, <1>6, <2>3, <2>4, <3>1 DEF TableOK, SessionsAreBounded
    <3> QED
      BY <3>3, <3>4, <3>6, <3>7, <3>8 DEF TableOK, SessionsAreBounded
  <2> QED
    BY <2>12, <2>13, <2>14, <2>15, <2>16 DEF ServerInv
<1> QED
  BY <1>5, <1>6 DEF Register

\* Nobody has asked yet.
LEMMA InitServerInv == ServerInit => ServerInv
<1> SUFFICES ASSUME ServerInit PROVE ServerInv
  OBVIOUS
<1> USE DEF ServerInit
<1>1. 1 \in Versions
  BY ServerAssumption DEF ServerAssumption, Versions
<1>2. NoSession \in Session /\ NoSession.version = 0
  BY DEF NoSession, Session
<1>3. /\ NoRequest \in Request /\ NoRequest.at = "new" /\ NoRequest.arrived = 0
      /\ NoRequest.version = 0
  BY DEF NoRequest, Request
<1>4. sessionOf \in [SessionIds -> Session] /\ request \in [Clients -> Request]
  BY <1>2, <1>3
<1>5. ServerTypeOK
  BY <1>1, <1>4 DEF ServerTypeOK
<1>6. ArrivalsOK /\ SessionsOK
  BY <1>2, <1>3 DEF ArrivalsOK, InThePast, SessionsOK
<1>7. RequestsOK
  BY <1>3 DEF RequestsOK, RequestOK
<1>8. TableOK
  <2>1. IsFiniteSet({}) /\ Cardinality({}) = 0
    BY FS_EmptySet
  <2>2. \A b \in Bearers : OfBearer(inTable, b) = {}
    BY DEF OfBearer
  <2>3. \A b \in Bearers : Cardinality(OfBearer(inTable, b)) <= MaxPerActor
    <3>1. ASSUME NEW b \in Bearers PROVE Cardinality(OfBearer(inTable, b)) = 0
      <4>1. OfBearer(inTable, b) = {}
        BY <2>2
      <4> QED
        BY <2>1, <4>1
    <3> QED
      BY <3>1, ServerAssumption DEF ServerAssumption
  <2>4. Cardinality(inTable) <= MaxGlobal
    BY <2>1, ServerAssumption DEF ServerAssumption
  <2> QED
    BY <2>1, <2>3, <2>4 DEF TableOK, SessionsAreBounded
<1> QED
  BY <1>5, <1>6, <1>7, <1>8 DEF ServerInv

\* The clock, the registry and the streams by themselves.
LEMMA AmbientKeeps ==
  ServerInv /\ (Ticks \/ EditRegistry \/ (\E i \in SessionIds : CloseStream(i))) => ServerInv'
<1> SUFFICES ASSUME ServerInv, Ticks \/ EditRegistry \/ (\E i \in SessionIds : CloseStream(i))
             PROVE  ServerInv'
  OBVIOUS
<1>0. ServerTypeOK /\ SessionsOK
  BY DEF ServerInv
<1>1. /\ UNCHANGED <<mix, sourceKind, sessionOf, request, auditRows>>
      /\ inTable' \subseteq inTable /\ openStreams' \subseteq openStreams
      /\ \A i \in inTable' : i \in openStreams => i \in openStreams'
      /\ registryAt' = registryAt \/ (registryAt < Len(RegistryEdits) /\ registryAt' = registryAt + 1)
      /\ clockAt' = clockAt \/ clockAt' = clockAt + 1
  <2>1. CASE Ticks
    BY <2>1 DEF Ticks, tableVars
  <2>2. CASE EditRegistry
    BY <2>2 DEF EditRegistry, tableVars
  <2>3. ASSUME NEW i \in SessionIds, CloseStream(i)
        PROVE  /\ UNCHANGED <<mix, sourceKind, sessionOf, request, auditRows, registryAt, clockAt>>
               /\ inTable' = inTable \ {i} /\ openStreams' = openStreams \ {i}
    BY <2>3 DEF CloseStream, ambientVars
  <2> QED
    BY <2>1, <2>2, <2>3
<1>2. /\ registryAt \in Nat /\ registryAt' \in Versions /\ registryAt' \in Nat
      /\ registryAt <= registryAt'
  <2>1. Len(RegistryEdits) \in Nat
    BY ServerAssumption DEF ServerAssumption
  <2> QED
    BY <1>0, <1>1, <2>1 DEF ServerTypeOK, Versions
<1>3. ServerTypeOK'
  BY <1>0, <1>1, <1>2 DEF ServerTypeOK
<1>4. ArrivalsOK'
  <2> SUFFICES ASSUME NEW c \in Clients
               PROVE  request[c].arrived <= registryAt' /\ request[c].version <= registryAt'
    BY <1>1 DEF ArrivalsOK, InThePast
  <2>1. request[c].arrived \in Nat /\ request[c].version \in Nat
    BY <1>0, VersionsAreNumbers DEF ServerTypeOK, Request
  <2>2. request[c].arrived <= registryAt /\ request[c].version <= registryAt
    BY DEF ServerInv, ArrivalsOK, InThePast
  <2> QED
    BY <1>2, <2>1, <2>2
<1>5. RequestsOK'
  BY <1>1, AllStay
<1>6. SessionsOK'
  <2> SUFFICES ASSUME NEW i \in SessionIds PROVE sessionOf[i].version <= registryAt'
    BY <1>0, <1>1 DEF SessionsOK
  <2>1. sessionOf[i].version \in Nat /\ sessionOf[i].version <= registryAt
    BY <1>0, VersionsAreNumbers DEF ServerTypeOK, Session, SessionsOK
  <2> QED
    BY <1>2, <2>1
<1>7. TableOK'
  BY <1>0, <1>1, TableShrinks
<1> QED
  BY <1>3, <1>4, <1>5, <1>6, <1>7 DEF ServerInv

LEMMA NextServerInv == ServerInv /\ [ServerNext]_httpVars => ServerInv'
<1> SUFFICES ASSUME ServerInv, [ServerNext]_httpVars PROVE ServerInv'
  OBVIOUS
<1>1. CASE UNCHANGED httpVars
  <2>1. /\ UNCHANGED <<mix, sourceKind, registryAt, clockAt, sessionOf, inTable, openStreams>>
        /\ UNCHANGED <<request, auditRows>>
    BY <1>1 DEF httpVars
  <2>2. RequestsOK'
    BY <2>1, AllStay
  <2>3. TableOK'
    BY <2>1, TableShrinks DEF ServerInv, ServerTypeOK
  <2> QED
    BY <2>1, <2>2, <2>3 DEF ServerInv, ServerTypeOK, ArrivalsOK, InThePast, SessionsOK
<1>2. CASE Ticks \/ EditRegistry \/ \E i \in SessionIds : CloseStream(i)
  BY <1>2, AmbientKeeps
<1>3. ASSUME NEW c \in Clients,
             \/ Arrive(c) \/ Fetch(c) \/ FetchAnswers(c) \/ Deny(c) \/ AuditFailure(c)
             \/ Permit(c) \/ Check(c) \/ Await(c) \/ AnnounceDecryption(c) \/ AuditOutcome(c)
             \/ Register(c) \/ UseSession(c) \/ DropSession(c)
      PROVE  ServerInv'
  BY <1>3, ArriveKeeps, FetchKeeps, FetchAnswersKeeps, DenyKeeps, AuditFailureKeeps,
     PermitKeeps, CheckKeeps, AwaitKeeps, AnnounceKeeps, AuditOutcomeKeeps, RegisterKeeps,
     UseSessionKeeps, DropSessionKeeps
<1> QED
  BY <1>1, <1>2, <1>3 DEF ServerNext

\* The invariant says of each request what the properties say.
LEMMA ServerInvIsEnough == ServerInv => RequestsAreServedSoundly
<1> SUFFICES ASSUME ServerInv PROVE RequestsAreServedSoundly
  OBVIOUS
<1>1. ASSUME NEW c \in Clients
      PROVE  /\ request[c] \in Request /\ RequestOK(c, request[c], sessionOf, auditRows, sourceKind)
             /\ request[c].at \in {"run", "done"} /\ request[c].version # 0 =>
                  \A i \in 1..Len(RouteSteps(request[c])) :
                    i < request[c].step \/ request[c].answer = "ok" =>
                      Left(c, request[c], auditRows, sourceKind, i)
             /\ request[c].answer \in {"ok", "refused"} =>
                  request[c].at = "done" /\ IsAnswered(c, request[c], auditRows, sourceKind)
  <2> DEFINE r == request[c]
  <2>1. r \in Request /\ RequestOK(c, r, sessionOf, auditRows, sourceKind)
    BY DEF ServerInv, RequestsOK, RequestOK
  <2> HIDE DEF r
  <2>2. CASE r.at = "run"
    <3>1. Begun(r) /\ IsRunning(c, r, sessionOf, auditRows, sourceKind) /\ r.answer = "none"
      BY <2>1, <2>2 DEF RequestOK, IsRunning, IsServed
    <3>2. r.step \in Nat /\ Len(RouteSteps(r)) \in Nat
      BY <3>1, StepsAreOrdered
    <3>3. \A i \in 1..Len(RouteSteps(r)) : i < r.step => i \in 1..(r.step - 1)
      BY <3>2
    <3> QED
      BY <2>1, <2>2, <3>1, <3>3 DEF IsRunning, r
  <2>3. CASE r.at = "done"
    <3>1. IsAnswered(c, r, auditRows, sourceKind)
      BY <2>1, <2>3 DEF RequestOK
    <3> QED
      BY <2>1, <2>3, <3>1 DEF IsAnswered, r
  <2>4. CASE r.at \notin {"run", "done"}
    <3>1. CASE r.at = "new"
      <4>1. r = NoRequest
        BY <2>1, <3>1 DEF RequestOK
      <4>2. r.answer = "none" /\ r.at = "new"
        BY <4>1 DEF NoRequest
      <4> QED
        BY <2>1, <2>4, <4>2 DEF r
    <3>2. CASE r.at \in {"fetch", "fetched", "denying"}
      BY <2>1, <2>4, <3>2 DEF RequestOK, IsWaiting, r
    <3>3. CASE r.at = "failing"
      BY <2>1, <2>4, <3>3 DEF RequestOK, IsFailing, r
    <3>4. r.at \in {"new", "fetch", "fetched", "denying", "failing"}
      BY <2>1, <2>4 DEF Request
    <3> QED
      BY <3>1, <3>2, <3>3, <3>4
  <2> QED
    BY <2>2, <2>3, <2>4
<1>2. AnswersAreAudited
  <2> SUFFICES ASSUME NEW c \in Clients
               PROVE  LET r == request[c]
                          steps == {Handler(r.route).steps[i] : i \in 1..Len(Handler(r.route).steps)}
                      IN  /\ r.answer = "ok" /\ steps \cap {"audit", "store"} # {} =>
                               <<c, "ok">> \in auditRows
                          /\ r.answer = "refused" => ~r.wrote
                          /\ r.answer = "refused" /\ r.version = 0 => <<c, "denied">> \in auditRows
                          /\ r.answer = "refused" /\ r.version # 0
                               /\ r.step \in Handler(r.route).audited => <<c, "failed">> \in auditRows
                          /\ r.at \in {"run", "done"} /\ r.version # 0 /\ Passed(c, "intent") =>
                               <<c, "intent">> \in auditRows
    BY DEF AnswersAreAudited
  <2> QED
    BY <1>1 DEF IsAnswered, Left, Passed, RouteSteps
<1>3. ServedAsAuthorized
  <2> SUFFICES ASSUME NEW c \in Clients, request[c].at \in {"run", "done"},
                      request[c].version # 0, Passed(c, "permit")
               PROVE  Granted(request[c]) /\ Fresh(request[c], sourceKind)
    BY DEF ServedAsAuthorized, Granted, Fresh
  <2> QED
    BY <1>1 DEF Left, Passed, RouteSteps
<1>4. SessionsAreBounded
  BY DEF ServerInv, TableOK
<1> QED
  BY <1>2, <1>3, <1>4 DEF RequestsAreServedSoundly

\* For any requests, tokens, edits of the registry, sessions and failures: what is
\* answered has been audited as it was answered, what is done has been granted by
\* an entry of the registry no older than the request, nothing is decrypted
\* unannounced, and the table of sessions keeps its limits.
THEOREM RequestsStaySound == ServerSpec => []RequestsAreServedSoundly
<1>1. ServerInit => ServerInv
  BY InitServerInv
<1>2. ServerInv /\ [ServerNext]_httpVars => ServerInv'
  BY NextServerInv
<1>3. ServerInv => RequestsAreServedSoundly
  BY ServerInvIsEnough
<1> QED
  BY <1>1, <1>2, <1>3, PTL DEF ServerSpec

LEMMA GreatestExists ==
  ASSUME NEW S \in SUBSET Nat, IsFiniteSet(S), S # {}
  PROVE  \E x \in S : \A y \in S : y <= x
<1> DEFINE Above(x) == {z \in S : x <= z}
           F == {Above(x) : x \in S}
<1>1. F \subseteq FiniteSubsetsOf(S) /\ F # {}
  <2>1. \A x \in S : Above(x) \subseteq S /\ IsFiniteSet(Above(x))
    BY FS_Subset
  <2> QED
    BY <2>1 DEF FiniteSubsetsOf
<1>2. PICK M \in F : \A A \in F : ~(<<A, M>> \in StrictSubsetOrdering(S))
  <2> HIDE DEF F
  <2> QED
    BY <1>1, WFMin, FS_StrictSubsetOrderingWellFounded
<1>3. PICK x \in S : M = Above(x)
  BY <1>2
<1>4. ASSUME NEW y \in S, x < y PROVE FALSE
  <2>1. \A z \in S : y <= z => x <= z
    BY <1>4
  <2>2. Above(y) \subseteq Above(x) /\ x \in Above(x) /\ x \notin Above(y)
    <3>1. x \in Nat /\ y \in Nat /\ ~(y <= x) /\ x <= x
      BY <1>4
    <3> QED
      BY <2>1, <3>1
  <2>3. Above(y) \in F /\ Above(y) \subseteq S /\ Above(x) \subseteq S
    OBVIOUS
  <2> QED
    BY <1>2, <1>3, <2>2, <2>3 DEF StrictSubsetOrdering
<1> QED
  BY <1>4

(***************************************************************************)
(* The replay of preserved groups.                                         *)
(***************************************************************************)

ReplaySpec == ReplayInit /\ [][ReplayNext]_replayVars

Group == [members : Nat, events : Seq(DOMAIN queued)]
Settled(e) == queued[e] = "other" \/ (queued[e] = "acknowledged" /\ archived[e] = "same")

StoresOK ==
  /\ source \in Sources /\ source \in Seq(Group) /\ checkpoint \in 0..Len(source)
  /\ queued \in [DOMAIN queued -> {"none", "pending", "acknowledged", "other"}]
  /\ archived \in [DOMAIN queued -> {"none", "same", "other"}]
  /\ \A e \in DOMAIN queued : queued[e] = "acknowledged" => archived[e] = "same"

ReplayOK ==
  replay \in [at : {"off", "no_progress", "open", "group", "events", "deliver", "sign"},
              batches : Nat, upto : Nat, groups : Nat, observations : Nat, outputs : Nat,
              event : Nat]

\* A batch knows how far its selection goes, and before its first group that it
\* goes as far as the limits allow.
SelectionOK ==
  replay.at \in {"group", "events", "deliver"} =>
    /\ replay.upto <= Len(source) /\ checkpoint <= replay.upto
    /\ replay.groups = 0 =>
         replay.upto = Selected /\ replay.observations = 0 /\ replay.outputs = 0

\* The events of a group before the one in hand are settled.
EventsOK ==
  replay.at \in {"events", "deliver"} =>
    /\ checkpoint < replay.upto
    /\ replay.event \in 1..(Len(Current.events) + 1)
    /\ replay.at = "deliver" => EventsLeft /\ queued[Event] = "pending"
    /\ \A i \in 1..(replay.event - 1) : Settled(Current.events[i])

\* What was committed is settled, and what is signed is complete.
CommittedOK ==
  /\ completed \/ replay.at = "sign" => checkpoint = Len(source)
  /\ \A g \in 1..checkpoint : \A i \in 1..Len(source[g].events) : Settled(source[g].events[i])
  /\ replay.at = "no_progress" =>
       /\ checkpoint < Len(source)
       /\ Current.members > MaxObservations \/ Len(Current.events) > MaxOutputEvents

ReplayInv == StoresOK /\ ReplayOK /\ SelectionOK /\ EventsOK /\ CommittedOK

\* The number of members of no group, and of one.
LEMMA MembersOfNone == \A from \in Nat : Members(from + 1, from) = 0
<1> SUFFICES ASSUME NEW from \in Nat PROVE Members(from + 1, from) = 0
  OBVIOUS
<1> DEFINE of(g) == source[g].members
           body(it) == [s \in SUBSET {} |->
                          IF s = {} THEN 0
                          ELSE of(CHOOSE x \in s : TRUE) + it[s \ {CHOOSE x \in s : TRUE}]]
           iter == CHOOSE it : it = body(it)
<1>1. (from + 1)..from = {}
  OBVIOUS
<1>2. Members(from + 1, from) = iter[{}]
  BY <1>1 DEF Members, MapThenSumSet, MapThenFoldSet
<1>3. \E it : it = body(it)
  <2>1. [s \in SUBSET {} |-> 0] = body([s \in SUBSET {} |-> 0])
    OBVIOUS
  <2> QED
    BY <2>1
<1>4. iter = body(iter)
  BY <1>3
<1>5. body(iter)[{}] = 0
  OBVIOUS
<1> HIDE DEF iter, body
<1> QED
  BY <1>2, <1>4, <1>5

LEMMA MembersOfOne ==
  ASSUME NEW g \in Nat, source[g].members \in Nat
  PROVE  Members(g, g) = source[g].members
<1> DEFINE of(k) == source[k].members
           body(it) == [s \in SUBSET {g} |->
                          IF s = {} THEN 0
                          ELSE of(CHOOSE x \in s : TRUE) + it[s \ {CHOOSE x \in s : TRUE}]]
           iter == CHOOSE it : it = body(it)
           sum == [s \in SUBSET {g} |-> IF s = {} THEN 0 ELSE source[g].members]
<1>1. g..g = {g}
  OBVIOUS
<1>2. Members(g, g) = iter[{g}]
  BY <1>1 DEF Members, MapThenSumSet, MapThenFoldSet
<1>3. (CHOOSE x \in {g} : TRUE) = g
  OBVIOUS
<1>4. sum = body(sum)
  <2>1. \A s \in SUBSET {g} : s = {} \/ s = {g}
    OBVIOUS
  <2>2. ASSUME NEW s \in SUBSET {g} PROVE sum[s] = body(sum)[s]
    <3>1. CASE s = {}
      BY <3>1
    <3>2. CASE s = {g}
      <4>1. s \ {CHOOSE x \in s : TRUE} = {} /\ s # {}
        BY <3>2, <1>3
      <4>2. sum[{}] = 0 /\ sum[s] = source[g].members
        BY <3>2
      <4>3. body(sum)[s] = of(CHOOSE x \in s : TRUE) + sum[s \ {CHOOSE x \in s : TRUE}]
        BY <4>1
      <4>4. body(sum)[s] = source[g].members + 0
        BY <1>3, <3>2, <4>1, <4>2, <4>3
      <4> QED
        BY <4>2, <4>4
    <3> QED
      BY <2>1, <3>1, <3>2
  <2> QED
    BY <2>2
<1>5. iter = body(iter)
  BY <1>4
<1>6. body(iter)[{}] = 0
  OBVIOUS
<1>7. body(iter)[{g}] = source[g].members + iter[{}]
  <2>1. {g} \ {g} = {} /\ {g} # {}
    OBVIOUS
  <2> QED
    BY <1>3, <2>1
<1> HIDE DEF iter, body
<1> QED
  BY <1>2, <1>5, <1>6, <1>7

\* A selection reaches as far as the limits allow, which may be nowhere.
LEMMA SelectedIsGreatest ==
  ASSUME StoresOK
  PROVE  /\ Selected \in checkpoint..Len(source)
         /\ Selected = checkpoint /\ checkpoint < Len(source) =>
              source[checkpoint + 1].members > MaxObservations
<1> DEFINE S == {last \in checkpoint..Len(source) : Fits(last)}
<1>1. checkpoint \in Nat /\ Len(source) \in Nat /\ checkpoint <= Len(source)
  BY DEF StoresOK
<1>2. S \in SUBSET Nat /\ IsFiniteSet(S)
  <2>1. IsFiniteSet(checkpoint..Len(source)) /\ checkpoint..Len(source) \subseteq Nat
    BY <1>1, FS_Interval
  <2> QED
    BY <2>1, FS_Subset
<1>3. checkpoint \in S
  <2>1. Fits(checkpoint)
    BY <1>1, MembersOfNone, ReplayAssumption DEF Fits, ReplayAssumption
  <2> QED
    BY <1>1, <2>1
<1>4. \E m \in S : \A y \in S : m >= y
  <2> HIDE DEF S
  <2>1. PICK m \in S : \A y \in S : y <= m
    BY <1>2, <1>3, GreatestExists
  <2> QED
    BY <1>2, <2>1
<1>5. Selected \in S /\ \A y \in S : Selected >= y
  <2>1. Selected = CHOOSE m \in S : \A y \in S : m >= y
    BY DEF Selected, Max
  <2> HIDE DEF S
  <2> QED
    BY <1>4, <2>1
<1>6. ASSUME Selected = checkpoint, checkpoint < Len(source)
      PROVE  source[checkpoint + 1].members > MaxObservations
  <2>1. checkpoint + 1 \in 1..Len(source)
    BY <1>1, <1>6
  <2>2. source[checkpoint + 1].members \in Nat
    <3>1. source[checkpoint + 1] \in Group
      BY <2>1 DEF StoresOK
    <3> QED
      BY <3>1 DEF Group
  <2>3. Members(checkpoint + 1, checkpoint + 1) = source[checkpoint + 1].members
    BY <1>1, <2>2, MembersOfOne
  <2>4. checkpoint + 1 \notin S
    BY <1>1, <1>5, <1>6
  <2>5. ~Fits(checkpoint + 1)
    BY <1>1, <2>1, <2>4
  <2> QED
    BY <1>1, <2>2, <2>3, <2>5, ReplayAssumption DEF Fits, ReplayAssumption
<1> QED
  BY <1>5, <1>6

\* What a batch selects depends on the source and the checkpoint alone.
LEMMA SelectedStays ==
  ASSUME UNCHANGED <<source, checkpoint>>
  PROVE  Selected' = Selected /\ Current' = Current
<1>1. Selected' = Selected
  BY SMT DEF Selected, Fits, Members, Max, MapThenSumSet, MapThenFoldSet
<1>2. Current' = Current
  BY DEF Current
<1> QED
  BY <1>1, <1>2

\* A group in hand.
LEMMA GroupInHand ==
  ASSUME ReplayInv, replay.at \in {"events", "deliver"}
  PROVE  /\ checkpoint + 1 \in 1..Len(source) /\ checkpoint \in Nat /\ Len(source) \in Nat
         /\ Current \in Group /\ replay.event \in Nat /\ Len(Current.events) \in Nat
         /\ EventsLeft => Event \in DOMAIN queued
<1>1. checkpoint \in Nat /\ Len(source) \in Nat /\ checkpoint < Len(source)
  BY DEF ReplayInv, StoresOK, ReplayOK, SelectionOK, EventsOK
<1>2. Current \in Group
  BY <1>1 DEF ReplayInv, StoresOK, Current
<1>3. Current.events \in Seq(DOMAIN queued) /\ Len(Current.events) \in Nat
  BY <1>2 DEF Group
<1>4. replay.event \in 1..(Len(Current.events) + 1)
  BY DEF ReplayInv, EventsOK
<1> QED
  BY <1>1, <1>2, <1>3, <1>4 DEF Event, EventsLeft

\* A step that leaves source and checkpoint alone and settles no event back.
LEMMA StoresGrow ==
  ASSUME ReplayInv, UNCHANGED source,
         queued' \in [DOMAIN queued -> {"none", "pending", "acknowledged", "other"}],
         archived' \in [DOMAIN queued -> {"none", "same", "other"}],
         \A e \in DOMAIN queued : queued'[e] = "acknowledged" => archived'[e] = "same",
         \A e \in DOMAIN queued : Settled(e) => Settled(e)',
         checkpoint' \in 0..Len(source)
  PROVE  /\ StoresOK' /\ DOMAIN queued' = DOMAIN queued
         /\ \A g \in 1..Len(source) : \A i \in 1..Len(source[g].events) :
              Settled(source[g].events[i]) => Settled(source[g].events[i])'
<1>1. DOMAIN queued' = DOMAIN queued
  OBVIOUS
<1>2. Group' = Group
  BY <1>1 DEF Group
<1>3. StoresOK'
  BY <1>1, <1>2 DEF ReplayInv, StoresOK
<1>4. ASSUME NEW g \in 1..Len(source), NEW i \in 1..Len(source[g].events)
      PROVE  source[g].events[i] \in DOMAIN queued
  <2>1. source[g] \in Group
    BY DEF ReplayInv, StoresOK
  <2> QED
    BY <2>1 DEF Group
<1>5. ASSUME NEW g \in 1..Len(source), NEW i \in 1..Len(source[g].events),
             Settled(source[g].events[i])
      PROVE  Settled(source[g].events[i])'
  <2> DEFINE e == source[g].events[i]
  <2>1. e' = e
    OBVIOUS
  <2>2. e \in DOMAIN queued
    BY <1>4
  <2> QED
    BY <1>5, <2>1, <2>2 DEF Settled
<1> QED
  BY <1>1, <1>3, <1>5

\* What is committed stays settled.
LEMMA CommittedStays ==
  ASSUME ReplayInv, UNCHANGED <<source, completed>>,
         checkpoint' \in {checkpoint, checkpoint + 1}, checkpoint' <= Len(source),
         checkpoint' = checkpoint + 1 =>
           \A i \in 1..Len(Current.events) : Settled(Current.events[i]),
         \A g \in 1..Len(source) : \A i \in 1..Len(source[g].events) :
           Settled(source[g].events[i]) => Settled(source[g].events[i])'
  PROVE  /\ \A g \in 1..checkpoint' : \A i \in 1..Len(source[g].events) :
              Settled(source[g].events[i])'
         /\ completed => checkpoint' = Len(source)
<1>1. checkpoint \in Nat /\ Len(source) \in Nat /\ checkpoint <= Len(source)
  BY DEF ReplayInv, StoresOK
<1>2. ASSUME NEW g \in 1..checkpoint', NEW i \in 1..Len(source[g].events)
      PROVE  Settled(source[g].events[i])'
  <2>1. g \in 1..Len(source)
    BY <1>1
  <2>2. CASE g \in 1..checkpoint
    BY <2>1, <2>2 DEF ReplayInv, CommittedOK
  <2>3. CASE g \notin 1..checkpoint
    <3>1. g = checkpoint + 1 /\ checkpoint' = checkpoint + 1
      BY <1>1, <2>3
    <3> QED
      BY <2>1, <3>1 DEF Current
  <2> QED
    BY <2>2, <2>3
<1>3. completed => checkpoint' = Len(source)
  BY <1>1 DEF ReplayInv, CommittedOK
<1> QED
  BY <1>2, <1>3

\* A run moves on, and the stores and the checkpoint stay.
LEMMA RunMoves ==
  ASSUME ReplayInv, UNCHANGED <<source, checkpoint, queued, archived>>,
         completed' = completed \/ (completed' = TRUE /\ checkpoint = Len(source)),
         ReplayOK',
         replay'.at \in {"group", "events"} =>
           /\ replay'.upto <= Len(source) /\ checkpoint <= replay'.upto
           /\ replay'.groups = 0 =>
                replay'.upto = Selected /\ replay'.observations = 0 /\ replay'.outputs = 0,
         replay'.at = "events" =>
           /\ checkpoint < replay'.upto
           /\ replay'.event \in 1..(Len(Current.events) + 1)
           /\ \A i \in 1..(replay'.event - 1) : Settled(Current.events[i]),
         replay'.at # "deliver",
         replay'.at = "sign" => checkpoint = Len(source),
         replay'.at = "no_progress" =>
           /\ checkpoint < Len(source)
           /\ Current.members > MaxObservations \/ Len(Current.events) > MaxOutputEvents
  PROVE  ReplayInv'
<1>1. StoresOK'
  <2>1. Group' = Group
    BY DEF Group
  <2> QED
    BY <2>1 DEF ReplayInv, StoresOK
<1>2. Selected' = Selected /\ Current' = Current
  BY SelectedStays
<1>3. SelectionOK'
  BY <1>2 DEF SelectionOK
<1>4. EventsOK'
  BY <1>2 DEF EventsOK, Settled, Current
<1>5. CommittedOK'
  BY <1>2 DEF ReplayInv, CommittedOK, Settled, Current
<1> QED
  BY <1>1, <1>3, <1>4, <1>5 DEF ReplayInv

LEMMA RunControlKeeps ==
  ReplayInv /\ (BeginReplay \/ OpenBatch \/ Sign) => ReplayInv'
<1> SUFFICES ASSUME ReplayInv, BeginReplay \/ OpenBatch \/ Sign PROVE ReplayInv'
  OBVIOUS
<1>1. CASE BeginReplay
  <2>1. replay' = [NoReplay EXCEPT !.at = "open"]
    BY <1>1 DEF BeginReplay
  <2>2. replay'.at = "open" /\ ReplayOK'
    BY <2>1 DEF NoReplay, ReplayOK
  <2> QED
    BY <1>1, <2>2, RunMoves DEF BeginReplay
<1>2. CASE OpenBatch
  <2>1. Selected \in Nat /\ Selected \in checkpoint..Len(source)
    BY SelectedIsGreatest DEF ReplayInv, StoresOK
  <2>2. /\ replay'.at = "group" /\ replay'.upto = Selected /\ replay'.groups = 0
        /\ replay'.observations = 0 /\ replay'.outputs = 0 /\ ReplayOK'
    BY <1>2, <2>1 DEF OpenBatch, ReplayInv, ReplayOK
  <2>3. checkpoint \in Nat /\ Len(source) \in Nat
    BY DEF ReplayInv, StoresOK
  <2> QED
    BY <1>2, <2>1, <2>2, <2>3, RunMoves DEF OpenBatch
<1>3. CASE Sign
  <2>1. replay' = [NoReplay EXCEPT !.at = "off"]
    BY <1>3 DEF Sign, EndRun
  <2>2. replay'.at = "off" /\ ReplayOK'
    BY <2>1 DEF NoReplay, ReplayOK
  <2>3. checkpoint = Len(source)
    BY <1>3 DEF Sign, ReplayInv, CommittedOK
  <2> QED
    BY <1>3, <2>2, <2>3, RunMoves DEF Sign
<1> QED
  BY <1>1, <1>2, <1>3

\* A run that gives up stands before a group that no batch can hold.
LEMMA NextGroupKeeps == ReplayInv /\ NextGroup => ReplayInv'
<1> SUFFICES ASSUME ReplayInv, NextGroup PROVE ReplayInv'
  OBVIOUS
<1>0. /\ checkpoint \in Nat /\ Len(source) \in Nat /\ checkpoint <= Len(source)
      /\ replay.at = "group" /\ ReplayOK /\ replay.upto \in Nat /\ replay.groups \in Nat
      /\ replay.batches \in Nat
      /\ replay.upto <= Len(source) /\ checkpoint <= replay.upto
      /\ replay.groups = 0 =>
           replay.upto = Selected /\ replay.observations = 0 /\ replay.outputs = 0
      /\ UNCHANGED <<source, checkpoint, queued, archived, completed>>
  BY DEF NextGroup, ReplayInv, StoresOK, ReplayOK, SelectionOK
<1>1. CASE /\ replay.groups < MaxGroups /\ checkpoint < replay.upto /\ ~ExceedsBatch
  <2>1. replay' = [replay EXCEPT !.at = "events", !.event = 1]
    BY <1>1 DEF NextGroup
  <2>2. /\ replay'.at = "events" /\ replay'.event = 1 /\ ReplayOK'
        /\ replay'.upto = replay.upto /\ replay'.groups = replay.groups
        /\ replay'.observations = replay.observations /\ replay'.outputs = replay.outputs
    BY <1>0, <2>1 DEF ReplayOK
  <2>3. Len(Current.events) \in Nat
    <3>1. Current \in Group
      BY <1>0, <1>1 DEF ReplayInv, StoresOK, Current
    <3> QED
      BY <3>1 DEF Group
  <2> QED
    BY <1>0, <1>1, <2>2, <2>3, RunMoves
<1>2. CASE ~(replay.groups < MaxGroups /\ checkpoint < replay.upto /\ ~ExceedsBatch)
  <2>1. IF AfterReplayed \in {"off", "no_progress"} THEN EndRun(AfterReplayed)
        ELSE replay' = [replay EXCEPT !.at = AfterReplayed, !.batches = @ + 1]
    BY <1>2 DEF NextGroup
  <2>2. AfterReplayed \in {"sign", "no_progress", "off", "open"}
    BY DEF AfterReplayed
  <2>3. replay'.at = AfterReplayed /\ ReplayOK'
    <3>1. CASE AfterReplayed \in {"off", "no_progress"}
      BY <2>1, <3>1 DEF EndRun, NoReplay, ReplayOK
    <3>2. CASE AfterReplayed \in {"sign", "open"}
      <4>1. replay' = [replay EXCEPT !.at = AfterReplayed, !.batches = replay.batches + 1]
        BY <2>1, <3>2
      <4>2. replay.batches + 1 \in Nat
        BY <1>0
      <4> QED
        BY <1>0, <3>2, <4>1, <4>2 DEF ReplayOK
    <3> QED
      BY <2>2, <3>1, <3>2
  <2>4. AfterReplayed = "sign" => checkpoint = Len(source)
    BY <1>0 DEF AfterReplayed, Complete, Exhausted
  <2>5. ASSUME AfterReplayed = "no_progress"
        PROVE  /\ checkpoint < Len(source)
               /\ Current.members > MaxObservations \/ Len(Current.events) > MaxOutputEvents
    <3>1. replay.groups = 0 /\ ~Complete
      BY <2>5 DEF AfterReplayed
    <3>2. replay.groups < MaxGroups
      BY <3>1, ReplayAssumption DEF ReplayAssumption
    <3>3. CASE checkpoint = replay.upto
      <4>1. checkpoint < Len(source)
        BY <1>0, <3>1, <3>2, <3>3 DEF Complete, Exhausted
      <4>2. Selected = checkpoint
        BY <1>0, <3>1, <3>3
      <4>3. Current.members > MaxObservations
        BY <4>1, <4>2, SelectedIsGreatest DEF ReplayInv, Current
      <4> QED
        BY <4>1, <4>3
    <3>4. CASE checkpoint < replay.upto
      <4>1. ExceedsBatch
        BY <1>2, <3>2, <3>4
      <4>2. Current \in Group
        BY <1>0, <3>4 DEF ReplayInv, StoresOK, Current
      <4>3. Current.members \in Nat /\ Len(Current.events) \in Nat
        BY <4>2 DEF Group
      <4>4. replay.observations = 0 /\ replay.outputs = 0
        BY <1>0, <3>1
      <4>5. Current.members > MaxObservations \/ Len(Current.events) > MaxOutputEvents
        BY <4>1, <4>3, <4>4 DEF ExceedsBatch
      <4> QED
        BY <1>0, <3>4, <4>5
    <3> QED
      BY <1>0, <3>3, <3>4
  <2> QED
    BY <1>0, <2>2, <2>3, <2>4, <2>5, RunMoves
<1> QED
  BY <1>1, <1>2

\* A committed group is settled, whether or not its run goes on.
GroupCommitted ==
  /\ StoresOK'
  /\ \A g \in 1..checkpoint' : \A i \in 1..Len(source[g].events) : Settled(source[g].events[i])'
  /\ completed => checkpoint' = Len(source)

LEMMA GroupCommits ==
  ASSUME ReplayInv, UNCHANGED <<source, queued, archived, completed>>,
         checkpoint' = checkpoint + 1, replay.at = "events", ~EventsLeft
  PROVE  GroupCommitted
<1>0. /\ checkpoint + 1 \in 1..Len(source) /\ checkpoint \in Nat /\ Len(source) \in Nat
      /\ Current \in Group /\ replay.event \in Nat /\ Len(Current.events) \in Nat
  BY GroupInHand
<1>3. \A i \in 1..Len(Current.events) : Settled(Current.events[i])
  <2>1. \A i \in 1..(replay.event - 1) : Settled(Current.events[i])
    BY <1>0 DEF ReplayInv, EventsOK
  <2>2. \A i \in 1..Len(Current.events) : i \in 1..(replay.event - 1)
    BY <1>0 DEF EventsLeft
  <2> QED
    BY <2>1, <2>2
<1>4. /\ StoresOK'
      /\ \A g \in 1..Len(source) : \A i \in 1..Len(source[g].events) :
           Settled(source[g].events[i]) => Settled(source[g].events[i])'
  <2>1. \A e \in DOMAIN queued : Settled(e) => Settled(e)'
    BY DEF Settled
  <2>2. checkpoint' \in 0..Len(source)
    BY <1>0
  <2>3. /\ queued' \in [DOMAIN queued -> {"none", "pending", "acknowledged", "other"}]
        /\ archived' \in [DOMAIN queued -> {"none", "same", "other"}]
        /\ \A e \in DOMAIN queued : queued'[e] = "acknowledged" => archived'[e] = "same"
    BY DEF ReplayInv, StoresOK
  <2> QED
    BY <2>1, <2>2, <2>3, StoresGrow
<1>5. /\ \A g \in 1..checkpoint' : \A i \in 1..Len(source[g].events) :
           Settled(source[g].events[i])'
      /\ completed => checkpoint' = Len(source)
  <2>1. checkpoint' <= Len(source)
    BY <1>0
  <2> QED
    BY <1>3, <1>4, <2>1, CommittedStays
<1> QED
  BY <1>4, <1>5 DEF GroupCommitted

LEMMA CommitKeeps == ReplayInv /\ CommitReplayed => ReplayInv'
<1> SUFFICES ASSUME ReplayInv, CommitReplayed PROVE ReplayInv'
  OBVIOUS
<1>0. /\ checkpoint + 1 \in 1..Len(source) /\ checkpoint \in Nat /\ Len(source) \in Nat
      /\ Current \in Group /\ replay.event \in Nat /\ Len(Current.events) \in Nat
      /\ replay.at = "events" /\ ~EventsLeft
  BY GroupInHand DEF CommitReplayed
<1>1. /\ replay.upto \in Nat /\ replay.groups \in Nat /\ replay.observations \in Nat
      /\ replay.outputs \in Nat /\ Current.members \in Nat
      /\ checkpoint < replay.upto /\ replay.upto <= Len(source)
  BY <1>0 DEF ReplayInv, ReplayOK, SelectionOK, EventsOK, Group
<1>2. UNCHANGED <<source, queued, archived, completed>> /\ checkpoint' = checkpoint + 1
  BY DEF CommitReplayed
<1>5. GroupCommitted
  BY <1>0, <1>2, GroupCommits
<1>6. /\ replay'.at = "group" /\ replay'.groups = replay.groups + 1 /\ ReplayOK'
      /\ replay'.upto = replay.upto
  <2> DEFINE g == replay.groups + 1
             o == replay.observations + Current.members
             n == replay.outputs + Len(Current.events)
  <2>1. g \in Nat
    BY <1>1
  <2>2. o \in Nat
    BY <1>1
  <2>3. n \in Nat
    BY <1>0, <1>1
  <2>4. replay' = [replay EXCEPT !.at = "group", !.groups = g, !.observations = o, !.outputs = n]
    BY DEF CommitReplayed
  <2> HIDE DEF g, o, n
  <2>5. replay'.groups = g /\ replay'.at = "group" /\ replay'.upto = replay.upto /\ ReplayOK'
    BY <2>1, <2>2, <2>3, <2>4 DEF ReplayInv, ReplayOK
  <2> QED
    BY <2>5 DEF g
<1>7. SelectionOK'
  BY <1>0, <1>1, <1>2, <1>6 DEF SelectionOK
<1>8. EventsOK' /\ CommittedOK'
  BY <1>2, <1>5, <1>6 DEF EventsOK, CommittedOK, GroupCommitted
<1> QED
  BY <1>5, <1>6, <1>7, <1>8 DEF ReplayInv, GroupCommitted

\* The stores move under a group in hand.
LEMMA StoresMove ==
  ASSUME ReplayInv, UNCHANGED <<source, checkpoint, completed>>,
         replay.at \in {"events", "deliver"},
         StoresOK', DOMAIN queued' = DOMAIN queued, ReplayOK',
         \A g \in 1..Len(source) : \A i \in 1..Len(source[g].events) :
           Settled(source[g].events[i]) => Settled(source[g].events[i])',
         \/ replay'.at = "off"
         \/ /\ replay'.at \in {"events", "deliver"} /\ replay'.upto = replay.upto
            /\ replay'.groups = replay.groups /\ replay'.observations = replay.observations
            /\ replay'.outputs = replay.outputs
            /\ \/ replay'.event = replay.event
               \/ /\ EventsLeft /\ replay'.event = replay.event + 1 /\ replay'.at = "events"
                  /\ \/ queued'[Event] = "other"
                     \/ queued'[Event] = "acknowledged" /\ archived'[Event] = "same"
            /\ replay'.at = "deliver" => EventsLeft' /\ queued'[Event'] = "pending"
  PROVE  ReplayInv'
<1>0. /\ checkpoint + 1 \in 1..Len(source) /\ checkpoint \in Nat /\ Len(source) \in Nat
      /\ Current \in Group /\ replay.event \in Nat /\ Len(Current.events) \in Nat
  BY GroupInHand
<1>1. Selected' = Selected /\ Current' = Current
  BY SelectedStays
<1>2. SelectionOK'
  BY <1>1 DEF ReplayInv, SelectionOK
<1>3. CommittedOK'
  <2>1. /\ \A g \in 1..checkpoint' : \A i \in 1..Len(source[g].events) :
             Settled(source[g].events[i])'
        /\ completed => checkpoint' = Len(source)
    <3>1. checkpoint' <= Len(source) /\ checkpoint' # checkpoint + 1
      BY <1>0
    <3> QED
      BY <3>1, CommittedStays
  <2> QED
    BY <2>1 DEF CommittedOK
<1>4. EventsOK'
  <2> SUFFICES ASSUME replay'.at \in {"events", "deliver"} PROVE EventsOK'
    BY DEF EventsOK
  <2>1. checkpoint' < replay'.upto
    BY DEF ReplayInv, EventsOK
  <2>2. replay'.event \in 1..(Len(Current.events) + 1)
    BY <1>0 DEF ReplayInv, EventsOK, EventsLeft
  <2>3. ASSUME NEW i \in 1..(replay'.event - 1) PROVE Settled(Current.events[i])'
    <3>1. i \in 1..Len(Current.events)
      BY <1>0, <2>2
    <3>2. CASE i \in 1..(replay.event - 1)
      BY <1>0, <3>1, <3>2 DEF ReplayInv, EventsOK, Current
    <3>3. CASE i \notin 1..(replay.event - 1)
      <4>1. i = replay.event /\ replay'.event = replay.event + 1
        BY <1>0, <3>1, <3>3
      <4>2. Current.events[i] = Event
        BY <4>1 DEF Event
      <4>3. \/ queued'[Current.events[i]] = "other"
            \/ queued'[Current.events[i]] = "acknowledged" /\ archived'[Current.events[i]] = "same"
        BY <1>0, <4>1, <4>2
      <4> QED
        BY <1>1, <4>3 DEF Settled
    <3> QED
      BY <3>2, <3>3
  <2> QED
    BY <1>1, <2>1, <2>2, <2>3 DEF EventsOK
<1> QED
  BY <1>2, <1>3, <1>4 DEF ReplayInv

LEMMA EnqueueKeeps == ReplayInv /\ Enqueue => ReplayInv'
<1> SUFFICES ASSUME ReplayInv, Enqueue PROVE ReplayInv'
  OBVIOUS
<1>0. /\ replay.at = "events" /\ EventsLeft /\ Event \in DOMAIN queued /\ replay.event \in Nat
      /\ UNCHANGED <<source, checkpoint, archived, completed>> /\ StoresOK /\ ReplayOK
      /\ checkpoint' \in 0..Len(source)
      /\ archived' \in [DOMAIN queued -> {"none", "same", "other"}]
  BY GroupInHand DEF Enqueue, ReplayInv, StoresOK
<1>1. CASE queued[Event] \in {"acknowledged", "other"} /\ NextEvent /\ UNCHANGED queued
  <2>1. /\ replay'.at = "events" /\ replay'.event = replay.event + 1 /\ ReplayOK'
        /\ replay'.upto = replay.upto /\ replay'.groups = replay.groups
        /\ replay'.observations = replay.observations /\ replay'.outputs = replay.outputs
    <3> DEFINE n == replay.event + 1
    <3>1. n \in Nat
      BY <1>0
    <3>2. replay' = [replay EXCEPT !.at = "events", !.event = n]
      BY <1>1 DEF NextEvent
    <3> HIDE DEF n
    <3>3. /\ replay'.at = "events" /\ replay'.event = n /\ ReplayOK'
          /\ replay'.upto = replay.upto /\ replay'.groups = replay.groups
          /\ replay'.observations = replay.observations /\ replay'.outputs = replay.outputs
      BY <1>0, <3>1, <3>2 DEF ReplayOK
    <3> QED
      BY <3>3 DEF n
  <2>2. \A e \in DOMAIN queued : Settled(e) => Settled(e)'
    BY <1>0, <1>1 DEF Settled
  <2>3. /\ queued' \in [DOMAIN queued -> {"none", "pending", "acknowledged", "other"}]
        /\ \A e \in DOMAIN queued : queued'[e] = "acknowledged" => archived'[e] = "same"
    BY <1>0, <1>1 DEF StoresOK
  <2>4. /\ StoresOK' /\ DOMAIN queued' = DOMAIN queued
        /\ \A g \in 1..Len(source) : \A i \in 1..Len(source[g].events) :
             Settled(source[g].events[i]) => Settled(source[g].events[i])'
    BY <1>0, <2>2, <2>3, StoresGrow
  <2>5. \/ queued'[Event] = "other"
        \/ queued'[Event] = "acknowledged" /\ archived'[Event] = "same"
    BY <1>0, <1>1 DEF StoresOK
  <2> QED
    BY <1>0, <2>1, <2>4, <2>5, StoresMove
<1>2. CASE /\ queued[Event] \in {"none", "pending"}
           /\ queued' = [queued EXCEPT ![Event] = "pending"]
           /\ replay' = [replay EXCEPT !.at = "deliver"]
  <2>1. /\ replay'.at = "deliver" /\ replay'.event = replay.event /\ ReplayOK'
        /\ replay'.upto = replay.upto /\ replay'.groups = replay.groups
        /\ replay'.observations = replay.observations /\ replay'.outputs = replay.outputs
    BY <1>0, <1>2 DEF ReplayOK
  <2>2. /\ queued' \in [DOMAIN queued -> {"none", "pending", "acknowledged", "other"}]
        /\ \A e \in DOMAIN queued : queued'[e] = "acknowledged" => archived'[e] = "same"
        /\ queued'[Event] = "pending"
    BY <1>0, <1>2 DEF StoresOK
  <2>3. \A e \in DOMAIN queued : Settled(e) => Settled(e)'
    BY <1>0, <1>2 DEF Settled, StoresOK
  <2>4. /\ StoresOK' /\ DOMAIN queued' = DOMAIN queued
        /\ \A g \in 1..Len(source) : \A i \in 1..Len(source[g].events) :
             Settled(source[g].events[i]) => Settled(source[g].events[i])'
    BY <1>0, <2>2, <2>3, StoresGrow
  <2>5. EventsLeft' /\ Event' = Event
    BY <1>0, <2>1, SelectedStays DEF EventsLeft, Event
  <2> QED
    BY <1>0, <2>1, <2>2, <2>4, <2>5, StoresMove
<1> QED
  BY <1>1, <1>2 DEF Enqueue

\* What the archive takes in, and the outbox acknowledges with it.
LEMMA Delivered ==
  ASSUME ReplayInv, UNCHANGED <<source, checkpoint>>,
         NEW e \in DOMAIN queued, queued[e] = "pending", archived[e] # "other",
         archived' = [archived EXCEPT ![e] = "same"],
         queued' \in {queued, [queued EXCEPT ![e] = "acknowledged"]}
  PROVE  /\ StoresOK' /\ DOMAIN queued' = DOMAIN queued
         /\ \A g \in 1..Len(source) : \A i \in 1..Len(source[g].events) :
              Settled(source[g].events[i]) => Settled(source[g].events[i])'
<1>1. /\ queued' \in [DOMAIN queued -> {"none", "pending", "acknowledged", "other"}]
      /\ archived' \in [DOMAIN queued -> {"none", "same", "other"}]
      /\ \A d \in DOMAIN queued : queued'[d] = "acknowledged" => archived'[d] = "same"
  BY DEF ReplayInv, StoresOK
<1>2. \A d \in DOMAIN queued : Settled(d) => Settled(d)'
  BY DEF Settled, ReplayInv, StoresOK
<1>3. checkpoint' \in 0..Len(source)
  BY DEF ReplayInv, StoresOK
<1> QED
  BY <1>1, <1>2, <1>3, StoresGrow

\* A group in hand loses its process.
LEMMA RunIsOver ==
  ASSUME ReplayInv, EndRun("off")
  PROVE  replay'.at = "off" /\ ReplayOK'
BY DEF EndRun, NoReplay, ReplayOK

LEMMA DeliverKeeps == ReplayInv /\ Deliver => ReplayInv'
<1> SUFFICES ASSUME ReplayInv, Deliver PROVE ReplayInv'
  OBVIOUS
<1>0. /\ replay.at = "deliver" /\ EventsLeft /\ queued[Event] = "pending"
      /\ UNCHANGED <<source, checkpoint, completed>> /\ StoresOK /\ ReplayOK
  BY DEF Deliver, ReplayInv, EventsOK
<1>1. Event \in DOMAIN queued /\ replay.event \in Nat
  BY <1>0, GroupInHand
<1>2. CASE /\ archived[Event] # "other" /\ Store(Event)
           /\ queued' = [queued EXCEPT ![Event] = "acknowledged"] /\ NextEvent
  <2>1. /\ replay'.at = "events" /\ replay'.event = replay.event + 1 /\ ReplayOK'
        /\ replay'.upto = replay.upto /\ replay'.groups = replay.groups
        /\ replay'.observations = replay.observations /\ replay'.outputs = replay.outputs
    <3> DEFINE n == replay.event + 1
    <3>1. n \in Nat
      BY <1>1
    <3>2. replay' = [replay EXCEPT !.at = "events", !.event = n]
      BY <1>2 DEF NextEvent
    <3> HIDE DEF n
    <3>3. /\ replay'.at = "events" /\ replay'.event = n /\ ReplayOK'
          /\ replay'.upto = replay.upto /\ replay'.groups = replay.groups
          /\ replay'.observations = replay.observations /\ replay'.outputs = replay.outputs
      BY <1>0, <3>1, <3>2 DEF ReplayOK
    <3> QED
      BY <3>3 DEF n
  <2>2. /\ StoresOK' /\ DOMAIN queued' = DOMAIN queued
        /\ \A g \in 1..Len(source) : \A i \in 1..Len(source[g].events) :
             Settled(source[g].events[i]) => Settled(source[g].events[i])'
    BY <1>0, <1>1, <1>2, Delivered DEF Store
  <2>3. queued'[Event] = "acknowledged" /\ archived'[Event] = "same"
    BY <1>1, <1>2, <1>0 DEF Store, StoresOK
  <2> QED
    BY <1>0, <2>1, <2>2, <2>3, StoresMove
<1>3. CASE archived[Event] = "other" /\ EndRun("off") /\ UNCHANGED <<queued, archived>>
  <2>1. replay'.at = "off" /\ ReplayOK'
    BY <1>3, RunIsOver
  <2> QED
    BY <1>0, <1>3, <2>1, RunMoves
<1> QED
  BY <1>2, <1>3 DEF Deliver

LEMMA FailureKeeps == ReplayInv /\ ReplayFails => ReplayInv'
<1> SUFFICES ASSUME ReplayInv, ReplayFails PROVE ReplayInv'
  OBVIOUS
<1>0. replay'.at = "off" /\ ReplayOK' /\ UNCHANGED <<source, completed>> /\ StoresOK
  BY RunIsOver DEF ReplayFails, ReplayInv
<1>1. CASE UNCHANGED <<checkpoint, queued, archived>>
  BY <1>0, <1>1, RunMoves
<1>2. CASE /\ replay.at = "events" /\ EventsLeft /\ queued[Event] = "none"
           /\ queued' = [queued EXCEPT ![Event] = "pending"] /\ UNCHANGED <<checkpoint, archived>>
  <2>1. Event \in DOMAIN queued
    BY <1>2, GroupInHand
  <2>2. /\ queued' \in [DOMAIN queued -> {"none", "pending", "acknowledged", "other"}]
        /\ archived' \in [DOMAIN queued -> {"none", "same", "other"}]
        /\ \A e \in DOMAIN queued : queued'[e] = "acknowledged" => archived'[e] = "same"
        /\ checkpoint' \in 0..Len(source)
    BY <1>0, <1>2, <2>1 DEF StoresOK
  <2>3. \A e \in DOMAIN queued : Settled(e) => Settled(e)'
    BY <1>0, <1>2, <2>1 DEF Settled, StoresOK
  <2>4. /\ StoresOK' /\ DOMAIN queued' = DOMAIN queued
        /\ \A g \in 1..Len(source) : \A i \in 1..Len(source[g].events) :
             Settled(source[g].events[i]) => Settled(source[g].events[i])'
    BY <1>0, <2>2, <2>3, StoresGrow
  <2> QED
    BY <1>0, <1>2, <2>4, StoresMove
<1>3. CASE /\ replay.at = "deliver" /\ archived[Event] # "other" /\ Store(Event)
           /\ UNCHANGED <<checkpoint, queued>>
  <2>1. Event \in DOMAIN queued /\ queued[Event] = "pending"
    BY <1>3, GroupInHand DEF ReplayInv, EventsOK
  <2>2. /\ StoresOK' /\ DOMAIN queued' = DOMAIN queued
        /\ \A g \in 1..Len(source) : \A i \in 1..Len(source[g].events) :
             Settled(source[g].events[i]) => Settled(source[g].events[i])'
    BY <1>0, <1>3, <2>1, Delivered DEF Store
  <2> QED
    BY <1>0, <1>3, <2>2, StoresMove
<1>4. CASE /\ replay.at = "events" /\ ~EventsLeft
           /\ checkpoint' = checkpoint + 1 /\ UNCHANGED <<queued, archived>>
  <2>1. GroupCommitted
    BY <1>0, <1>4, GroupCommits
  <2>2. SelectionOK' /\ EventsOK' /\ CommittedOK'
    BY <1>0, <2>1 DEF SelectionOK, EventsOK, CommittedOK, GroupCommitted
  <2> QED
    BY <1>0, <2>1, <2>2 DEF ReplayInv, GroupCommitted
<1> QED
  BY <1>1, <1>2, <1>3, <1>4 DEF ReplayFails

LEMMA InitReplayInv == ReplayInit => ReplayInv
<1> SUFFICES ASSUME ReplayInit PROVE ReplayInv
  OBVIOUS
<1>1. PICK past \in Pasts : queued = past.queued /\ archived = past.archived
  BY DEF ReplayInit
<1>2. source \in Seq(Group) /\ source \in Sources
  BY <1>1, ReplayAssumption DEF ReplayInit, ReplayAssumption, Group
<1>3. StoresOK
  <2>1. checkpoint \in 0..Len(source)
    BY <1>2 DEF ReplayInit
  <2>2. /\ queued \in [DOMAIN queued -> {"none", "pending", "acknowledged", "other"}]
        /\ archived \in [DOMAIN queued -> {"none", "same", "other"}]
        /\ \A e \in DOMAIN queued : queued[e] = "acknowledged" => archived[e] = "same"
    BY <1>1, ReplayAssumption DEF ReplayAssumption
  <2> QED
    BY <1>2, <2>1, <2>2 DEF StoresOK
<1>4. replay.at = "off" /\ ReplayOK /\ checkpoint = 0 /\ completed = FALSE
  BY DEF ReplayInit, NoReplay, ReplayOK
<1>5. SelectionOK /\ EventsOK /\ CommittedOK
  BY <1>4 DEF SelectionOK, EventsOK, CommittedOK
<1> QED
  BY <1>3, <1>4, <1>5 DEF ReplayInv

LEMMA NextReplayInv == ReplayInv /\ [ReplayNext]_replayVars => ReplayInv'
<1> SUFFICES ASSUME ReplayInv, [ReplayNext]_replayVars PROVE ReplayInv'
  OBVIOUS
<1>1. CASE UNCHANGED replayVars
  <2>1. UNCHANGED <<source, checkpoint, queued, archived, replay, completed>>
    BY <1>1 DEF replayVars
  <2>2. Selected' = Selected /\ Current' = Current /\ StoresOK' /\ ReplayOK'
    <3>1. Group' = Group
      BY <2>1 DEF Group
    <3> QED
      BY <2>1, <3>1, SelectedStays DEF ReplayInv, StoresOK, ReplayOK
  <2>3. SelectionOK'
    BY <2>1, <2>2 DEF ReplayInv, SelectionOK
  <2>4. EventsOK'
    BY <2>1, <2>2 DEF ReplayInv, EventsOK, Settled, EventsLeft, Event
  <2>5. CommittedOK'
    BY <2>1, <2>2 DEF ReplayInv, CommittedOK, Settled
  <2> QED
    BY <2>2, <2>3, <2>4, <2>5 DEF ReplayInv
<1>2. CASE BeginReplay \/ OpenBatch \/ Sign
  BY <1>2, RunControlKeeps
<1>3. CASE NextGroup
  BY <1>3, NextGroupKeeps
<1>4. CASE Enqueue
  BY <1>4, EnqueueKeeps
<1>5. CASE Deliver
  BY <1>5, DeliverKeeps
<1>6. CASE CommitReplayed
  BY <1>6, CommitKeeps
<1>7. CASE ReplayFails
  BY <1>7, FailureKeeps
<1> QED
  BY <1>1, <1>2, <1>3, <1>4, <1>5, <1>6, <1>7 DEF ReplayNext

\* A completion is signed only when every group is checkpointed, and a checkpoint
\* stands for events the outbox and the archive have settled; a run gives up only
\* before a group that no batch can hold.
THEOREM CompletionStaysEarned == ReplaySpec => []CompletionIsEarned
<1>1. ReplayInv => CompletionIsEarned
  BY DEF ReplayInv, CommittedOK, CompletionIsEarned, Settled
<1> QED
  BY <1>1, InitReplayInv, NextReplayInv, PTL DEF ReplaySpec

(***************************************************************************)
(* Installing a release.                                                   *)
(***************************************************************************)

ReleaseSpec == ReleaseInit /\ [][ReleaseNext]_releaseVars

Contents == Releases \cup {0}
AllPaths == {Manifest} \cup Paths
Trees == [Paths -> Contents] \X Contents
Entries == [path : AllPaths, moved : BOOLEAN, published : BOOLEAN]
Forward == {"aside", "publish", "manifest", "verify"}
Backward == {"undo", "putback"}

InstallerRecords ==
  [at : {"new", "prepare", "root", "unlock", "ended"} \cup Forward \cup Backward,
   release : Releases, todo : SUBSET Paths, stale : SUBSET Paths, journal : Seq(Entries),
   failed : BOOLEAN, outcome : {"none", "installed", "failed", "rollback_failed", "root_failed", "killed"},
   before : {<<>>} \cup Trees]

ReleaseTypes ==
  /\ Tree \in Trees
  /\ stage \in [Installers -> [exists : BOOLEAN, aside : [AllPaths -> Contents]]]
  /\ installer \in [Installers -> InstallerRecords]

\* What a tree holds at a path; the manifest counts as a file.
At(tree, p) == IF p = Manifest THEN tree[2] ELSE tree[1][p]
Recorded(j) == {j[k].path : k \in 1..Len(j)}

\* The journal has one record for each path that was touched, and what the record
\* stands for is in the staging directory.
JournalOK(q, tree, aside) ==
  /\ \A k, l \in 1..Len(q.journal) : q.journal[k].path = q.journal[l].path => k = l
  /\ \A k \in 1..Len(q.journal) :
       LET e == q.journal[k] IN
       /\ aside[e.path] = At(q.before, e.path)
       /\ e.moved <=> At(q.before, e.path) # 0
       /\ At(tree, e.path) = IF e.published /\ ~(q.at = "putback" /\ k = Len(q.journal))
                               THEN q.release ELSE 0
  /\ q.at = "putback" => q.journal # <<>>

\* Every other path is as it was, or a failed restoration has left its file staged.
OthersOK(q, tree, aside) ==
  \A p \in AllPaths \ Recorded(q.journal) :
    \/ At(tree, p) = At(q.before, p)
    \/ q.failed /\ aside[p] = At(q.before, p)

\* What is done and what is still to do.
StaleFiles(q) == Listed(q.before[2]) \ ReleaseFiles[q.release]
Newest(q) == q.journal[Len(q.journal)]
ForwardOK(q, tree) ==
  q.at \in Forward =>
    /\ ~q.failed /\ q.todo \subseteq ReleaseFiles[q.release] /\ q.stale \subseteq StaleFiles(q)
    /\ \A p \in ReleaseFiles[q.release] \ q.todo : tree[1][p] = q.release
    /\ \A p \in StaleFiles(q) \ q.stale : tree[1][p] = 0
    /\ Recorded(q.journal) \subseteq ReleaseFiles[q.release] \cup StaleFiles(q) \cup {Manifest}
    /\ q.at = "aside" => Recorded(q.journal) \cap (q.todo \cup q.stale \cup {Manifest}) = {}
    /\ q.at = "publish" =>
         /\ q.todo # {} /\ q.journal # <<>>
         /\ Newest(q).path = Least(q.todo) /\ ~Newest(q).published
         /\ Recorded(q.journal) \cap ((q.todo \ {Least(q.todo)}) \cup q.stale \cup {Manifest}) = {}
    /\ q.at \in {"manifest", "verify"} => q.todo = {} /\ q.stale = {}
    /\ q.at = "manifest" => q.journal # <<>> /\ Newest(q).path = Manifest /\ ~Newest(q).published
    /\ q.at = "verify" => tree[2] = q.release

\* A run that is over has installed its release or put the previous one back, or
\* it says that it could not.
OutcomeOK(q, tree) ==
  IF q.failed THEN q.outcome \in {"rollback_failed", "root_failed"}
  ELSE /\ IsRelease(q.before) => IsRelease(tree)
       /\ q.outcome \in {"installed", "failed", "root_failed"}
       /\ q.outcome = "failed" => tree = q.before

\* Every file of the previous release is in its place or staged.
KeptOK(q, tree, aside) ==
  IsRelease(q.before) =>
    \/ IsRelease(tree)
    \/ \A p \in Paths : q.before[1][p] # 0 => q.before[1][p] \in {tree[1][p], aside[p]}

\* A run has given a mixed tree away.
GivenAway ==
  \E i \in Installers : IAt(i, "ended") /\ installer[i].failed /\ installer[i].outcome = "root_failed"

BeforeChanges(q) ==
  /\ q.at \in {"prepare", "unlock", "ended"} /\ q.journal = <<>> /\ ~q.failed
  /\ q.at = "unlock" => q.outcome = "failed"

HolderOK(q, tree, aside, given) ==
  /\ q.before = <<>> => BeforeChanges(q) /\ (IsRelease(tree) \/ given)
  /\ q.before # <<>> =>
       /\ q.at \in Forward \cup Backward \cup {"root", "unlock", "ended"}
       /\ IsRelease(q.before) \/ given
       /\ q.at \in Forward \cup Backward =>
            JournalOK(q, tree, aside) /\ OthersOK(q, tree, aside) /\ ForwardOK(q, tree)
       /\ q.at \in {"root", "unlock"} => OutcomeOK(q, tree)
       /\ q.at \in {"root", "unlock", "ended"} => KeptOK(q, tree, aside)

ReleaseInv ==
  /\ ReleaseTypes
  /\ deployLock = {} => Whole \/ GivenAway
  /\ deployLock # {} => \E i \in Installers :
       deployLock = {i} /\ HolderOK(installer[i], Tree, stage[i].aside, GivenAway)
  /\ \A i \in Installers :
       /\ installer[i].at \notin {"new", "ended"} => deployLock = {i}
       /\ IAt(i, "new") => installer[i] = NotStarted /\ deployLock # {i}

\* The least of some numbers is one of them.
LEMMA LeastIsThere ==
  ASSUME NEW S \in SUBSET Nat, S # {}
  PROVE  Least(S) \in S
<1>1. PICK x \in S : TRUE
  OBVIOUS
<1> DEFINE T == {n \in 0..x : \A y \in S : n <= y}
<1>2. T \in SUBSET Nat /\ IsFiniteSet(T) /\ T # {}
  <2>1. T \subseteq 0..x /\ IsFiniteSet(0..x) /\ 0..x \subseteq Nat
    BY FS_Interval
  <2>2. 0 \in T
    OBVIOUS
  <2> QED
    BY <2>1, <2>2, FS_Subset
<1>3. PICK m \in T : \A n \in T : n <= m
  <2> HIDE DEF T
  <2> QED
    BY <1>2, GreatestExists
<1>4. m \in S
  <2> SUFFICES ASSUME m \notin S PROVE FALSE
    OBVIOUS
  <2>1. m \in Nat /\ m <= x /\ \A y \in S : m <= y
    BY <1>3
  <2>2. \A y \in S : m + 1 <= y
    <3> TAKE y \in S
    <3>1. m <= y /\ m # y /\ y \in Nat
      BY <2>1
    <3> QED
      BY <2>1, <3>1
  <2>3. m + 1 \in T
    BY <2>1, <2>2
  <2> QED
    BY <1>3, <2>1, <2>3
<1>5. \E p \in S : \A y \in S : p <= y
  BY <1>3, <1>4
<1> QED
  BY <1>5 DEF Least

LEMMA PathFacts ==
  /\ Paths \subseteq Nat /\ Manifest \notin Paths /\ Manifest \in AllPaths
  /\ \A r \in Releases : ReleaseFiles[r] \subseteq Paths
  /\ \A r \in Releases : r # 0 /\ r \in Contents
  /\ \A v \in Contents : Listed(v) \subseteq Paths
BY ReleaseAssumption DEF ReleaseAssumption, Paths, Manifest, AllPaths, Contents, Listed

\* A record enters the journal with the file that is moved aside.
Adds(q, r, tree, more, aside, staged, p) ==
  /\ q \in InstallerRecords /\ r \in InstallerRecords /\ tree \in Trees /\ more \in Trees
  /\ aside \in [AllPaths -> Contents] /\ staged = [aside EXCEPT ![p] = At(tree, p)]
  /\ JournalOK(q, tree, aside) /\ OthersOK(q, tree, aside)
  /\ q.at # "putback" /\ r.at # "putback" /\ ~q.failed /\ ~r.failed
  /\ r.before = q.before /\ r.release = q.release
  /\ p \in AllPaths /\ p \notin Recorded(q.journal)
  /\ r.journal = Append(q.journal, Entry(p, At(tree, p)))
  /\ At(more, p) = 0 /\ \A x \in AllPaths \ {p} : At(more, x) = At(tree, x)

LEMMA EntryAdded ==
  ASSUME NEW q, NEW r, NEW tree, NEW more, NEW aside, NEW staged, NEW p,
         Adds(q, r, tree, more, aside, staged, p)
  PROVE  /\ JournalOK(r, more, staged) /\ OthersOK(r, more, staged)
         /\ Recorded(r.journal) = Recorded(q.journal) \cup {p}
         /\ r.journal # <<>> /\ Newest(r).path = p /\ ~Newest(r).published
<1> DEFINE n == Len(q.journal)
           e == Entry(p, At(tree, p))
<1>1. /\ q.journal \in Seq(Entries) /\ n \in Nat /\ Len(r.journal) = n + 1
      /\ r.journal[n + 1] = e /\ \A k \in 1..n : r.journal[k] = q.journal[k]
      /\ e.path = p /\ ~e.published /\ (e.moved <=> At(tree, p) # 0)
  <2>1. q.journal \in Seq(Entries) /\ n \in Nat
    BY DEF InstallerRecords, Adds
  <2>2. e.path = p /\ ~e.published /\ (e.moved <=> At(tree, p) # 0) /\ e \in Entries
    BY DEF Entry, Entries, Adds
  <2> HIDE DEF e
  <2>3. /\ Len(r.journal) = n + 1 /\ r.journal[n + 1] = e
        /\ \A k \in 1..n : r.journal[k] = q.journal[k]
    <3>1. r.journal = Append(q.journal, e)
      BY DEF e, Adds
    <3> QED
      BY <2>1, <2>2, <3>1
  <2> QED
    BY <2>1, <2>2, <2>3
<1>2. At(tree, p) = At(q.before, p)
  BY DEF OthersOK, Adds
<1>3. \A k \in 1..n : q.journal[k].path \in AllPaths /\ q.journal[k].path # p
  <2> TAKE k \in 1..n
  <2>1. q.journal[k] \in Entries /\ q.journal[k].path \in Recorded(q.journal)
    BY <1>1 DEF Recorded, Adds
  <2> QED
    BY <2>1 DEF Entries, Adds
<1>4. \A k \in 1..(n + 1) : k = n + 1 \/ k \in 1..n
  BY <1>1
<1>5. Recorded(r.journal) = Recorded(q.journal) \cup {p}
  BY <1>1, <1>4 DEF Recorded
<1>6. JournalOK(r, more, staged)
  <2>1. ASSUME NEW k \in 1..(n + 1), NEW l \in 1..(n + 1),
               r.journal[k].path = r.journal[l].path
        PROVE  k = l
    BY <1>1, <1>3, <1>4, <2>1 DEF JournalOK, Adds
  <2>2. ASSUME NEW k \in 1..(n + 1)
        PROVE  /\ staged[r.journal[k].path] = At(r.before, r.journal[k].path)
               /\ r.journal[k].moved <=> At(r.before, r.journal[k].path) # 0
               /\ At(more, r.journal[k].path) =
                    IF r.journal[k].published THEN r.release ELSE 0
    <3>1. CASE k = n + 1
      BY <1>1, <1>2, <3>1 DEF Adds
    <3>2. CASE k \in 1..n
      BY <1>1, <1>3, <3>2 DEF JournalOK, Adds
    <3> QED
      BY <1>4, <3>1, <3>2
  <2> QED
    BY <1>1, <2>1, <2>2 DEF JournalOK, Adds
<1>7. OthersOK(r, more, staged)
  BY <1>5 DEF OthersOK, Adds
<1>8. r.journal # <<>> /\ Newest(r) = e
  <2>1. Len(r.journal) # 0
    BY <1>1
  <2> QED
    BY <1>1, <2>1 DEF Newest
<1> QED
  BY <1>1, <1>5, <1>6, <1>7, <1>8

\* The newest record learns that its file was published.
Publishes(q, r, tree, more, aside) ==
  /\ q \in InstallerRecords /\ r \in InstallerRecords /\ tree \in Trees /\ more \in Trees
  /\ aside \in [AllPaths -> Contents]
  /\ JournalOK(q, tree, aside) /\ OthersOK(q, tree, aside)
  /\ q.at # "putback" /\ r.at # "putback" /\ q.journal # <<>>
  /\ r.journal = [q.journal EXCEPT ![Len(q.journal)] = [Newest(q) EXCEPT !.published = TRUE]]
  /\ r.before = q.before /\ r.release = q.release /\ r.failed = q.failed
  /\ At(more, Newest(q).path) = q.release
  /\ \A x \in AllPaths \ {Newest(q).path} : At(more, x) = At(tree, x)

LEMMA EntryPublished ==
  ASSUME NEW q, NEW r, NEW tree, NEW more, NEW aside, Publishes(q, r, tree, more, aside)
  PROVE  /\ JournalOK(r, more, aside) /\ OthersOK(r, more, aside)
         /\ Recorded(r.journal) = Recorded(q.journal)
<1> DEFINE n == Len(q.journal)
<1>1. /\ q.journal \in Seq(Entries) /\ n \in Nat /\ n \in 1..n /\ Len(r.journal) = n
      /\ \A k \in 1..n : q.journal[k] \in Entries
  BY DEF InstallerRecords, Publishes
<1>2. /\ \A k \in 1..n : k # n => r.journal[k] = q.journal[k]
      /\ r.journal[n] = [Newest(q) EXCEPT !.published = TRUE]
  BY <1>1 DEF Publishes
<1>3. /\ r.journal[n].path = q.journal[n].path /\ r.journal[n].moved = q.journal[n].moved
      /\ r.journal[n].published
  BY <1>1, <1>2 DEF Newest, Entries
<1>4. \A k \in 1..n : r.journal[k].path = q.journal[k].path /\ r.journal[k].moved = q.journal[k].moved
  BY <1>2, <1>3
<1>5. Recorded(r.journal) = Recorded(q.journal)
  BY <1>1, <1>4 DEF Recorded
<1>6. ASSUME NEW k \in 1..n
      PROVE  At(more, q.journal[k].path) = IF r.journal[k].published THEN r.release ELSE 0
  <2>1. CASE k = n
    BY <1>3, <2>1 DEF Newest, Publishes
  <2>2. CASE k # n
    <3>1. q.journal[k].path # Newest(q).path /\ q.journal[k].path \in AllPaths
      BY <1>1, <2>2 DEF JournalOK, Newest, Entries, Publishes
    <3> QED
      BY <1>2, <2>2, <3>1 DEF JournalOK, Publishes
  <2> QED
    BY <2>1, <2>2
<1>7. JournalOK(r, more, aside)
  BY <1>1, <1>4, <1>6 DEF JournalOK, Publishes
<1>8. Newest(q).path \in Recorded(q.journal)
  BY <1>1 DEF Newest, Recorded
<1>9. OthersOK(r, more, aside)
  BY <1>5, <1>8 DEF OthersOK, Publishes
<1> QED
  BY <1>5, <1>7, <1>9

\* The newest record leaves the journal: its file is back, or staged for good.
Drops(q, r, tree, more, aside, staged) ==
  /\ q \in InstallerRecords /\ r \in InstallerRecords /\ tree \in Trees /\ more \in Trees
  /\ aside \in [AllPaths -> Contents] /\ staged \in [AllPaths -> Contents]
  /\ JournalOK(q, tree, aside) /\ OthersOK(q, tree, aside)
  /\ r.at = "undo" /\ q.journal # <<>> /\ r.journal = SubSeq(q.journal, 1, Len(q.journal) - 1)
  /\ r.before = q.before /\ r.release = q.release /\ (q.failed => r.failed)
  /\ \A x \in AllPaths \ {Newest(q).path} : At(more, x) = At(tree, x) /\ staged[x] = aside[x]
  /\ \/ At(more, Newest(q).path) = At(q.before, Newest(q).path)
     \/ r.failed /\ staged[Newest(q).path] = At(q.before, Newest(q).path)

LEMMA EntryDropped ==
  ASSUME NEW q, NEW r, NEW tree, NEW more, NEW aside, NEW staged,
         Drops(q, r, tree, more, aside, staged)
  PROVE  JournalOK(r, more, staged) /\ OthersOK(r, more, staged)
<1> DEFINE n == Len(q.journal)
           p == Newest(q).path
<1>1. /\ q.journal \in Seq(Entries) /\ n \in Nat /\ n \in 1..n
      /\ \A k \in 1..n : q.journal[k] \in Entries
  BY DEF InstallerRecords, Drops
<1>2. Len(r.journal) = n - 1 /\ \A k \in 1..(n - 1) : r.journal[k] = q.journal[k]
  BY <1>1 DEF Drops
<1>3. \A k \in 1..(n - 1) : k \in 1..n /\ k # n
  BY <1>1
<1>4. \A k \in 1..(n - 1) : q.journal[k].path # p /\ q.journal[k].path \in AllPaths
  BY <1>1, <1>3 DEF JournalOK, Newest, Entries, Drops
<1>5. Recorded(q.journal) = Recorded(r.journal) \cup {p}
  <2>1. \A k \in 1..n : k = n \/ k \in 1..(n - 1)
    BY <1>1
  <2>2. \A k \in 1..n : q.journal[k].path \in Recorded(r.journal) \cup {p}
    BY <1>2, <2>1 DEF Recorded, Newest
  <2>3. \A k \in 1..(n - 1) : r.journal[k].path \in Recorded(q.journal)
    BY <1>2, <1>3 DEF Recorded
  <2>4. p \in Recorded(q.journal)
    BY <1>1 DEF Recorded, Newest
  <2>5. Recorded(q.journal) \subseteq Recorded(r.journal) \cup {p}
    BY <2>2 DEF Recorded
  <2>6. Recorded(r.journal) \subseteq Recorded(q.journal)
    BY <1>2, <2>3 DEF Recorded
  <2> QED
    BY <2>4, <2>5, <2>6
<1>6. JournalOK(r, more, staged)
  <2>1. ASSUME NEW k \in 1..(n - 1)
        PROVE  /\ staged[r.journal[k].path] = At(r.before, r.journal[k].path)
               /\ r.journal[k].moved <=> At(r.before, r.journal[k].path) # 0
               /\ At(more, r.journal[k].path) =
                    IF r.journal[k].published THEN r.release ELSE 0
    <3>1. /\ r.journal[k] = q.journal[k] /\ k \in 1..n /\ k # n
          /\ q.journal[k].path \in AllPaths \ {p}
      BY <1>2, <1>3, <1>4
    <3>2. /\ aside[q.journal[k].path] = At(q.before, q.journal[k].path)
          /\ q.journal[k].moved <=> At(q.before, q.journal[k].path) # 0
          /\ At(tree, q.journal[k].path) = IF q.journal[k].published THEN q.release ELSE 0
      BY <3>1 DEF JournalOK, Drops
    <3>3. /\ At(more, q.journal[k].path) = At(tree, q.journal[k].path)
          /\ staged[q.journal[k].path] = aside[q.journal[k].path]
          /\ r.before = q.before /\ r.release = q.release
      BY <3>1 DEF Drops
    <3> QED
      BY <3>1, <3>2, <3>3
  <2>2. \A k, l \in 1..(n - 1) : r.journal[k].path = r.journal[l].path => k = l
    <3>1. \A k \in 1..(n - 1) : r.journal[k].path = q.journal[k].path /\ k \in 1..n
      BY <1>2, <1>3
    <3>2. \A k, l \in 1..n : q.journal[k].path = q.journal[l].path => k = l
      BY DEF JournalOK, Drops
    <3> QED
      BY <3>1, <3>2
  <2> QED
    BY <1>2, <2>1, <2>2 DEF JournalOK, Drops
<1>7. ASSUME NEW x \in AllPaths \ Recorded(r.journal)
      PROVE  At(more, x) = At(r.before, x) \/ (r.failed /\ staged[x] = At(r.before, x))
  <2>1. CASE x = p
    BY <2>1 DEF Drops
  <2>2. CASE x # p
    <3>1. x \in AllPaths \ Recorded(q.journal)
      BY <1>5, <2>2
    <3> QED
      BY <2>2, <3>1 DEF OthersOK, Drops
  <2> QED
    BY <2>1, <2>2
<1> QED
  BY <1>6, <1>7 DEF OthersOK, Drops

\* A mixed tree that was given away stays given away while a run goes on.
LEMMA GivenStays ==
  ASSUME NEW i \in Installers, NEW q, installer[i].at # "ended",
         installer' = [installer EXCEPT ![i] = q], DOMAIN installer = Installers, GivenAway
  PROVE  GivenAway'
<1>1. PICK j \in Installers :
        IAt(j, "ended") /\ installer[j].failed /\ installer[j].outcome = "root_failed"
  BY DEF GivenAway
<1>2. j # i /\ installer'[j] = installer[j]
  BY <1>1 DEF IAt
<1> QED
  BY <1>1, <1>2 DEF GivenAway, IAt

\* A step of the run that holds the lock, or takes it.
LEMMA HolderMoves ==
  ASSUME ReleaseInv, NEW i \in Installers, NEW q \in InstallerRecords,
         installer[i].at # "ended", q.at # "new", deployLock \in {{}, {i}}, deployLock' = {i},
         installer' = [installer EXCEPT ![i] = q], Tree' \in Trees,
         stage' \in [Installers -> [exists : BOOLEAN, aside : [AllPaths -> Contents]]],
         HolderOK(q, Tree', stage'[i].aside, GivenAway)
  PROVE  ReleaseInv'
<1>1. installer \in [Installers -> InstallerRecords]
  BY DEF ReleaseInv, ReleaseTypes
<1>2. installer'[i] = q /\ \A j \in Installers \ {i} : installer'[j] = installer[j]
  BY <1>1
<1>3. ReleaseTypes'
  BY <1>1 DEF ReleaseTypes
<1>4. HolderOK(q, Tree', stage'[i].aside, GivenAway')
  BY <1>1, GivenStays DEF HolderOK
<1>5. ASSUME NEW j \in Installers
      PROVE  /\ installer'[j].at \notin {"new", "ended"} => deployLock' = {j}
             /\ installer'[j].at = "new" => installer'[j] = NotStarted /\ deployLock' # {j}
  <2>1. CASE j = i
    BY <1>2, <2>1
  <2>2. CASE j # i
    <3>1. installer'[j] = installer[j] /\ deployLock # {j} /\ deployLock' # {j}
      BY <1>2, <2>2
    <3> QED
      BY <3>1 DEF ReleaseInv, IAt
  <2> QED
    BY <2>1, <2>2
<1>6. \E k \in Installers :
        deployLock' = {k} /\ HolderOK(installer'[k], Tree', stage'[k].aside, GivenAway')
  BY <1>2, <1>4
<1> QED
  BY <1>3, <1>5, <1>6 DEF ReleaseInv, IAt

\* A run at work.
LEMMA InHand ==
  ASSUME ReleaseInv, NEW i \in Installers, installer[i].at \notin {"new", "ended"}
  PROVE  /\ deployLock = {i} /\ installer[i] \in InstallerRecords /\ Tree \in Trees
         /\ HolderOK(installer[i], Tree, stage[i].aside, GivenAway)
         /\ stage \in [Installers -> [exists : BOOLEAN, aside : [AllPaths -> Contents]]]
         /\ stage[i].aside \in [AllPaths -> Contents]
         /\ live \in [Paths -> Contents] /\ manifest \in Contents
         /\ installer \in [Installers -> InstallerRecords]
<1>1. deployLock = {i}
  BY DEF ReleaseInv
<1>2. HolderOK(installer[i], Tree, stage[i].aside, GivenAway)
  BY <1>1 DEF ReleaseInv
<1>3. ReleaseTypes
  BY DEF ReleaseInv
<1>4. live \in [Paths -> Contents] /\ manifest \in Contents
  BY <1>3 DEF ReleaseTypes, Trees, Tree
<1> QED
  BY <1>1, <1>2, <1>3, <1>4 DEF ReleaseTypes

\* A run at work goes on.
LEMMA WorkGoesOn ==
  ASSUME ReleaseInv, NEW i \in Installers, NEW r \in InstallerRecords,
         installer[i].at \in Forward \cup Backward, r.at \in Forward \cup Backward,
         r.before = installer[i].before, UNCHANGED deployLock,
         installer' = [installer EXCEPT ![i] = r], Tree' \in Trees,
         stage' \in [Installers -> [exists : BOOLEAN, aside : [AllPaths -> Contents]]],
         JournalOK(r, Tree', stage'[i].aside), OthersOK(r, Tree', stage'[i].aside),
         ForwardOK(r, Tree')
  PROVE  ReleaseInv'
<1>1. installer[i].at \notin {"new", "ended", "prepare", "unlock", "root"}
  BY DEF Forward, Backward
<1>2. deployLock = {i} /\ HolderOK(installer[i], Tree, stage[i].aside, GivenAway)
  BY <1>1, InHand
<1>3. r.before # <<>> /\ (IsRelease(r.before) \/ GivenAway)
  BY <1>1, <1>2 DEF HolderOK, BeforeChanges
<1>4. r.at \notin {"new", "root", "unlock", "ended"}
  BY DEF Forward, Backward
<1>5. HolderOK(r, Tree', stage'[i].aside, GivenAway)
  BY <1>3, <1>4 DEF HolderOK
<1> QED
  BY <1>1, <1>2, <1>4, <1>5, HolderMoves

\* What a run at work has done.
LEMMA AtWork ==
  ASSUME ReleaseInv, NEW i \in Installers, installer[i].at \in Forward \cup Backward
  PROVE  /\ JournalOK(installer[i], Tree, stage[i].aside) /\ OthersOK(installer[i], Tree, stage[i].aside)
         /\ ForwardOK(installer[i], Tree) /\ installer[i].before # <<>>
         /\ installer[i].before \in Trees
         /\ installer[i].at \notin {"new", "ended"}
         /\ IsRelease(installer[i].before) \/ GivenAway
<1>1. installer[i].at \notin {"new", "ended", "prepare", "unlock", "root"}
  BY DEF Forward, Backward
<1>2. HolderOK(installer[i], Tree, stage[i].aside, GivenAway) /\ installer[i] \in InstallerRecords
  BY <1>1, InHand
<1>3. installer[i].before # <<>>
  BY <1>1, <1>2 DEF HolderOK, BeforeChanges
<1> QED
  BY <1>1, <1>2, <1>3 DEF HolderOK, InstallerRecords

LEMMA MoveAsideKeeps == \A i \in Installers : ReleaseInv /\ MoveAside(i) => ReleaseInv'
<1> SUFFICES ASSUME NEW i \in Installers, ReleaseInv, MoveAside(i) PROVE ReleaseInv'
  OBVIOUS
<1> DEFINE q == installer[i]
           p == Least(q.todo)
           j == Append(q.journal, Entry(p, live[p]))
           r == [q EXCEPT !.journal = j, !.at = "publish"]
<1>0. q.at = "aside" /\ q.todo # {} /\ q.at \in Forward \cup Backward
  BY DEF MoveAside, IAt, Forward
<1>1. /\ q \in InstallerRecords /\ Tree \in Trees /\ stage[i].aside \in [AllPaths -> Contents]
      /\ stage \in [Installers -> [exists : BOOLEAN, aside : [AllPaths -> Contents]]]
      /\ live \in [Paths -> Contents] /\ manifest \in Contents
      /\ installer \in [Installers -> InstallerRecords]
  BY <1>0, InHand
<1>2. /\ JournalOK(q, Tree, stage[i].aside) /\ OthersOK(q, Tree, stage[i].aside)
      /\ ForwardOK(q, Tree) /\ q.before # <<>>
  BY <1>0, AtWork
<1>3. /\ q.todo \subseteq ReleaseFiles[q.release] /\ q.stale \subseteq StaleFiles(q) /\ ~q.failed
      /\ Recorded(q.journal) \cap (q.todo \cup q.stale \cup {Manifest}) = {}
      /\ q.release \in Releases /\ q.todo \subseteq Paths /\ q.journal \in Seq(Entries)
  BY <1>0, <1>1, <1>2 DEF ForwardOK, InstallerRecords, Forward
<1>4. p \in q.todo /\ p \in Paths /\ p \in AllPaths /\ p # Manifest
  BY <1>0, <1>3, LeastIsThere, PathFacts DEF AllPaths
<1>5. At(Tree, p) = live[p] /\ live[p] \in Contents
  BY <1>1, <1>4 DEF At, Tree
<1> HIDE DEF p
<1>6. Entry(p, live[p]) \in Entries
  BY <1>4 DEF Entry, Entries
<1>7. j \in Seq(Entries)
  BY <1>3, <1>6
<1> HIDE DEF j
<1>8. /\ r \in InstallerRecords /\ r.at = "publish" /\ r.release = q.release /\ r.todo = q.todo
      /\ r.stale = q.stale /\ r.journal = j /\ ~r.failed /\ r.before = q.before
  BY <1>1, <1>3, <1>7 DEF InstallerRecords, Forward
<1>9. installer' = [installer EXCEPT ![i] = r]
  BY DEF MoveAside, Aside, p, j
<1>10. /\ stage' = [stage EXCEPT ![i].aside[p] = live[p]]
       /\ live' = [live EXCEPT ![p] = 0] /\ UNCHANGED <<manifest, deployLock>>
  BY DEF MoveAside, Aside, p
<1>11. /\ stage'[i].aside = [stage[i].aside EXCEPT ![p] = live[p]]
       /\ stage' \in [Installers -> [exists : BOOLEAN, aside : [AllPaths -> Contents]]]
  BY <1>1, <1>4, <1>5, <1>10
<1>12. Tree' \in Trees /\ At(Tree', p) = 0 /\ \A x \in AllPaths \ {p} : At(Tree', x) = At(Tree, x)
  BY <1>1, <1>4, <1>10 DEF Tree, Trees, At, AllPaths, Contents
<1> HIDE DEF r
<1>13. /\ JournalOK(r, Tree', stage'[i].aside) /\ OthersOK(r, Tree', stage'[i].aside)
       /\ Recorded(r.journal) = Recorded(q.journal) \cup {p}
       /\ r.journal # <<>> /\ Newest(r).path = p /\ ~Newest(r).published
  <2>1. p \notin Recorded(q.journal)
    BY <1>3, <1>4
  <2>2. r.journal = Append(q.journal, Entry(p, At(Tree, p)))
    BY <1>5, <1>8 DEF j
  <2>3. q.at # "putback" /\ r.at # "putback" /\ r.release = q.release /\ ~r.failed
    BY <1>0, <1>8
  <2>4. stage'[i].aside = [stage[i].aside EXCEPT ![p] = At(Tree, p)]
    BY <1>5, <1>11
  <2>5. Adds(q, r, Tree, Tree', stage[i].aside, stage'[i].aside, p)
    BY <1>1, <1>2, <1>3, <1>4, <1>8, <1>12, <2>1, <2>2, <2>3, <2>4 DEF Adds
  <2> QED
    BY <2>5, EntryAdded
<1>14. ForwardOK(r, Tree')
  <2>1. \A x \in Paths \ {p} : live'[x] = live[x]
    BY <1>1, <1>10
  <2>2. /\ r.todo \subseteq ReleaseFiles[r.release] /\ r.stale \subseteq StaleFiles(r)
        /\ StaleFiles(r) = StaleFiles(q)
    BY <1>3, <1>8 DEF StaleFiles
  <2>3. \A x \in ReleaseFiles[q.release] \ q.todo : x \in Paths \ {p} /\ live[x] = q.release
    BY <1>0, <1>2, <1>3, <1>4, PathFacts DEF ForwardOK, Tree, Forward
  <2>4. p \notin StaleFiles(q) /\ p \in ReleaseFiles[q.release]
    BY <1>3, <1>4 DEF StaleFiles
  <2>5. StaleFiles(q) \subseteq Paths
    BY <1>1, <1>2, PathFacts DEF StaleFiles, InstallerRecords, Trees
  <2>6. \A x \in StaleFiles(q) \ q.stale : x \in Paths \ {p} /\ live[x] = 0
    BY <1>0, <1>2, <2>4, <2>5 DEF ForwardOK, Tree, Forward
  <2>7. Recorded(r.journal) \subseteq ReleaseFiles[q.release] \cup StaleFiles(q) \cup {Manifest}
    BY <1>0, <1>2, <1>13, <2>4 DEF ForwardOK, Forward
  <2>8. Recorded(r.journal) \cap ((r.todo \ {p}) \cup r.stale \cup {Manifest}) = {}
    BY <1>3, <1>4, <1>8, <1>13, <2>4
  <2>9. p = Least(r.todo)
    BY <1>8 DEF p
  <2> QED
    BY <1>0, <1>8, <1>13, <2>1, <2>2, <2>3, <2>6, <2>7, <2>8, <2>9 DEF ForwardOK, Tree
<1>15. r.at \in Forward \cup Backward
  BY <1>8 DEF Forward
<1> QED
  BY <1>0, <1>8, <1>9, <1>10, <1>11, <1>12, <1>13, <1>14, <1>15, WorkGoesOn

\* The records of a process with its newest record published, or dropped.
LEMMA PublishedRecord ==
  ASSUME NEW i \in Installers, installer[i] \in InstallerRecords, installer[i].journal # <<>>
  PROVE  /\ Published(i) \in InstallerRecords
         /\ Published(i).journal =
              [installer[i].journal EXCEPT ![Len(installer[i].journal)] =
                 [Newest(installer[i]) EXCEPT !.published = TRUE]]
         /\ Published(i).todo = installer[i].todo /\ Published(i).stale = installer[i].stale
         /\ Published(i).release = installer[i].release /\ Published(i).before = installer[i].before
         /\ Published(i).failed = installer[i].failed
<1> DEFINE q == installer[i]
           n == Len(q.journal)
           j == [q.journal EXCEPT ![n] = [Newest(q) EXCEPT !.published = TRUE]]
<1>1. q.journal \in Seq(Entries) /\ n \in Nat /\ n \in 1..n
  BY DEF InstallerRecords
<1>2. Newest(q) \in Entries
  BY <1>1 DEF Newest
<1>3. [Newest(q) EXCEPT !.published = TRUE] \in Entries
  BY <1>2 DEF Entries
<1>4. j \in Seq(Entries)
  BY <1>1, <1>3
<1>5. Published(i) = [q EXCEPT !.journal = j]
  BY DEF Published, Newest
<1> HIDE DEF j
<1>6. /\ [q EXCEPT !.journal = j] \in InstallerRecords /\ [q EXCEPT !.journal = j].journal = j
      /\ [q EXCEPT !.journal = j].todo = q.todo /\ [q EXCEPT !.journal = j].stale = q.stale
      /\ [q EXCEPT !.journal = j].release = q.release /\ [q EXCEPT !.journal = j].before = q.before
      /\ [q EXCEPT !.journal = j].failed = q.failed
  BY <1>4 DEF InstallerRecords
<1> QED
  BY <1>5, <1>6 DEF j

LEMMA DroppedRecord ==
  ASSUME NEW i \in Installers, installer[i] \in InstallerRecords, installer[i].journal # <<>>
  PROVE  /\ Dropped(i) \in InstallerRecords /\ Dropped(i).at = "undo"
         /\ Dropped(i).journal = SubSeq(installer[i].journal, 1, Len(installer[i].journal) - 1)
         /\ Dropped(i).release = installer[i].release /\ Dropped(i).before = installer[i].before
         /\ Dropped(i).failed = installer[i].failed
<1> DEFINE q == installer[i]
           j == SubSeq(q.journal, 1, Len(q.journal) - 1)
<1>1. q.journal \in Seq(Entries) /\ Len(q.journal) \in Nat /\ Len(q.journal) # 0
  BY DEF InstallerRecords
<1>2. j \in Seq(Entries)
  BY <1>1
<1>3. Dropped(i) = [q EXCEPT !.journal = j, !.at = "undo"]
  BY DEF Dropped
<1> HIDE DEF j
<1> DEFINE r == [q EXCEPT !.journal = j, !.at = "undo"]
<1>4. /\ r \in InstallerRecords /\ r.at = "undo" /\ r.journal = j /\ r.release = q.release
      /\ r.before = q.before /\ r.failed = q.failed
  BY <1>2 DEF InstallerRecords, Backward
<1> QED
  BY <1>3, <1>4 DEF j

\* A file is published, whether or not its owner can be set.
LEMMA FileIsPublished ==
  ASSUME NEW i \in Installers, ReleaseInv, IAt(i, "publish"),
         NEW r \in InstallerRecords, r.at # "putback",
         r.journal = Published(i).journal, r.before = installer[i].before,
         r.release = installer[i].release, r.failed = installer[i].failed,
         live' = [live EXCEPT ![Least(installer[i].todo)] = installer[i].release],
         UNCHANGED <<manifest, stage>>
  PROVE  /\ Tree' \in Trees
         /\ JournalOK(r, Tree', stage'[i].aside) /\ OthersOK(r, Tree', stage'[i].aside)
         /\ Recorded(r.journal) = Recorded(installer[i].journal)
         /\ live'[Least(installer[i].todo)] = installer[i].release
         /\ \A x \in Paths \ {Least(installer[i].todo)} : live'[x] = live[x]
         /\ Least(installer[i].todo) \in installer[i].todo
<1> DEFINE q == installer[i]
           p == Least(q.todo)
<1>0. q.at = "publish" /\ q.at \in Forward \cup Backward
  BY DEF IAt, Forward
<1>1. /\ q \in InstallerRecords /\ Tree \in Trees /\ stage[i].aside \in [AllPaths -> Contents]
      /\ live \in [Paths -> Contents] /\ manifest \in Contents
  BY <1>0, InHand
<1>2. /\ JournalOK(q, Tree, stage[i].aside) /\ OthersOK(q, Tree, stage[i].aside)
      /\ ForwardOK(q, Tree)
  BY <1>0, AtWork
<1>3. /\ q.todo # {} /\ q.journal # <<>> /\ Newest(q).path = p
      /\ q.release \in Releases /\ q.todo \subseteq Paths
  BY <1>0, <1>1, <1>2 DEF ForwardOK, InstallerRecords, Forward
<1>4. p \in q.todo /\ p \in Paths /\ p \in AllPaths /\ p # Manifest
  BY <1>3, LeastIsThere, PathFacts DEF AllPaths
<1>5. q.release \in Contents
  BY <1>3 DEF Contents
<1> HIDE DEF p
<1>6. live' = [live EXCEPT ![p] = q.release]
  BY DEF p
<1>7. /\ Tree' \in Trees /\ At(Tree', p) = q.release
      /\ \A x \in AllPaths \ {p} : At(Tree', x) = At(Tree, x)
  BY <1>1, <1>4, <1>5, <1>6 DEF Tree, Trees, At, AllPaths
<1>8. r.journal = [q.journal EXCEPT ![Len(q.journal)] = [Newest(q) EXCEPT !.published = TRUE]]
  BY <1>1, <1>3, PublishedRecord
<1>9. Publishes(q, r, Tree, Tree', stage[i].aside)
  BY <1>0, <1>1, <1>2, <1>3, <1>7, <1>8 DEF Publishes
<1>10. /\ JournalOK(r, Tree', stage[i].aside) /\ OthersOK(r, Tree', stage[i].aside)
       /\ Recorded(r.journal) = Recorded(q.journal)
  BY <1>9, EntryPublished
<1>11. /\ live'[p] = q.release /\ \A x \in Paths \ {p} : live'[x] = live[x]
  BY <1>1, <1>4, <1>6
<1> QED
  BY <1>4, <1>7, <1>10, <1>11 DEF p

LEMMA PublishFileKeeps == \A i \in Installers : ReleaseInv /\ PublishFile(i) => ReleaseInv'
<1> SUFFICES ASSUME NEW i \in Installers, ReleaseInv, PublishFile(i) PROVE ReleaseInv'
  OBVIOUS
<1> DEFINE q == installer[i]
           p == Least(q.todo)
           r == [Published(i) EXCEPT !.todo = q.todo \ {p}, !.at = "aside"]
<1>0. q.at = "publish" /\ q.at \in Forward \cup Backward
  BY DEF PublishFile, IAt, Forward
<1>1. /\ q \in InstallerRecords
      /\ stage \in [Installers -> [exists : BOOLEAN, aside : [AllPaths -> Contents]]]
      /\ ForwardOK(q, Tree)
  BY <1>0, InHand, AtWork
<1>2. /\ q.todo # {} /\ q.journal # <<>> /\ q.todo \subseteq ReleaseFiles[q.release] /\ ~q.failed
      /\ q.release \in Releases /\ q.todo \subseteq Paths
      /\ Recorded(q.journal) \cap ((q.todo \ {p}) \cup q.stale \cup {Manifest}) = {}
  BY <1>0, <1>1 DEF ForwardOK, InstallerRecords, Forward
<1>3. /\ Published(i) \in InstallerRecords /\ Published(i).todo = q.todo
      /\ Published(i).stale = q.stale /\ Published(i).release = q.release
      /\ Published(i).before = q.before /\ Published(i).failed = q.failed
  BY <1>1, <1>2, PublishedRecord
<1>4. installer' = [installer EXCEPT ![i] = r]
  BY <1>3 DEF PublishFile
<1>5. /\ live' = [live EXCEPT ![p] = q.release] /\ UNCHANGED <<manifest, stage, deployLock>>
  BY DEF PublishFile
<1> HIDE DEF p
<1>6. q.todo \ {p} \in SUBSET Paths
  BY <1>2
<1>7. /\ r \in InstallerRecords /\ r.at = "aside" /\ r.todo = q.todo \ {p} /\ r.stale = q.stale
      /\ r.journal = Published(i).journal /\ r.before = q.before /\ r.release = q.release
      /\ r.failed = q.failed
  <2> DEFINE u == Published(i)
             t == q.todo \ {p}
  <2>1. u \in InstallerRecords /\ t \in SUBSET Paths
    BY <1>3, <1>6
  <2>2. r = [u EXCEPT !.todo = t, !.at = "aside"]
    OBVIOUS
  <2>3. u.stale = q.stale /\ u.release = q.release /\ u.before = q.before /\ u.failed = q.failed
    BY <1>3
  <2> HIDE DEF u, t, r
  <2>4. /\ r \in InstallerRecords /\ r.at = "aside" /\ r.todo = t /\ r.stale = u.stale
        /\ r.journal = u.journal /\ r.before = u.before /\ r.release = u.release
        /\ r.failed = u.failed
    BY <2>1, <2>2 DEF InstallerRecords, Forward
  <2> QED
    BY <2>3, <2>4 DEF u, t
<1> HIDE DEF r
<1>8. /\ Tree' \in Trees
      /\ JournalOK(r, Tree', stage'[i].aside) /\ OthersOK(r, Tree', stage'[i].aside)
      /\ Recorded(r.journal) = Recorded(q.journal) /\ live'[p] = q.release
      /\ (\A x \in Paths \ {p} : live'[x] = live[x]) /\ p \in q.todo
  <2>1. IAt(i, "publish") /\ r.at # "putback"
    BY <1>0, <1>7 DEF IAt
  <2> QED
    BY <1>5, <1>7, <2>1, FileIsPublished DEF p
<1>9. ForwardOK(r, Tree')
  <2>1. StaleFiles(r) = StaleFiles(q) /\ StaleFiles(q) \subseteq Paths
    <3>1. q.before \in Trees
      BY <1>0, AtWork
    <3> QED
      BY <1>7, <3>1, PathFacts DEF StaleFiles, Trees
  <2>2. ASSUME NEW x \in ReleaseFiles[q.release] \ (q.todo \ {p}) PROVE live'[x] = q.release
    <3>1. x \in Paths
      BY <1>2, PathFacts
    <3>2. x # p => live[x] = q.release
      BY <1>0, <1>1, <2>2 DEF ForwardOK, Tree, Forward
    <3> QED
      BY <1>8, <3>1, <3>2
  <2>3. ASSUME NEW x \in StaleFiles(q) \ q.stale PROVE live'[x] = 0
    <3>1. x \in Paths /\ x # p
      BY <1>2, <1>8, <2>1 DEF StaleFiles
    <3>2. live[x] = 0
      BY <1>0, <1>1 DEF ForwardOK, Tree, Forward
    <3> QED
      BY <1>8, <3>1, <3>2
  <2>4. q.stale \subseteq StaleFiles(q) /\ Recorded(q.journal) \subseteq ReleaseFiles[q.release] \cup StaleFiles(q) \cup {Manifest}
    BY <1>0, <1>1 DEF ForwardOK, Forward
  <2> QED
    BY <1>2, <1>7, <1>8, <2>1, <2>2, <2>3, <2>4 DEF ForwardOK, Tree
<1>10. r.at \in Forward \cup Backward
  BY <1>7 DEF Forward
<1> QED
  BY <1>0, <1>1, <1>4, <1>5, <1>7, <1>8, <1>9, <1>10, WorkGoesOn

LEMMA PublishFailsLateKeeps ==
  \A i \in Installers : ReleaseInv /\ PublishFailsLate(i) => ReleaseInv'
<1> SUFFICES ASSUME NEW i \in Installers, ReleaseInv, PublishFailsLate(i) PROVE ReleaseInv'
  OBVIOUS
<1> DEFINE q == installer[i]
           u == Published(i)
           r == [u EXCEPT !.at = "undo"]
<1>0. q.at = "publish" /\ IAt(i, "publish") /\ q.at \in Forward \cup Backward
  BY DEF PublishFailsLate, IAt, Forward
<1>1. /\ q \in InstallerRecords /\ q.journal # <<>>
      /\ stage \in [Installers -> [exists : BOOLEAN, aside : [AllPaths -> Contents]]]
  <2>1. ForwardOK(q, Tree)
    BY <1>0, AtWork
  <2> QED
    BY <1>0, <2>1, InHand DEF ForwardOK, Forward
<1>2. /\ u \in InstallerRecords /\ u.release = q.release /\ u.before = q.before
      /\ u.failed = q.failed
  BY <1>1, PublishedRecord
<1>3. installer' = [installer EXCEPT ![i] = r]
  BY DEF PublishFailsLate
<1>4. /\ live' = [live EXCEPT ![Least(q.todo)] = q.release] /\ UNCHANGED <<manifest, stage, deployLock>>
  BY DEF PublishFailsLate
<1>5. /\ r \in InstallerRecords /\ r.at = "undo" /\ r.journal = u.journal
      /\ r.before = q.before /\ r.release = q.release /\ r.failed = q.failed
  <2> HIDE DEF u
  <2> QED
    BY <1>2 DEF InstallerRecords, Backward
<1> HIDE DEF r
<1>6. /\ Tree' \in Trees
      /\ JournalOK(r, Tree', stage'[i].aside) /\ OthersOK(r, Tree', stage'[i].aside)
  BY <1>0, <1>4, <1>5, FileIsPublished
<1>7. ForwardOK(r, Tree') /\ r.at \in Forward \cup Backward
  BY <1>5 DEF ForwardOK, Forward, Backward
<1> QED
  BY <1>0, <1>1, <1>3, <1>4, <1>5, <1>6, <1>7, WorkGoesOn

\* A path leaves what is still to be moved aside: with a record if a file was there.
LEMMA MoveStaleKeeps == \A i \in Installers : ReleaseInv /\ MoveStale(i) => ReleaseInv'
<1> SUFFICES ASSUME NEW i \in Installers, ReleaseInv, MoveStale(i) PROVE ReleaseInv'
  OBVIOUS
<1> DEFINE q == installer[i]
<1>0. q.at = "aside" /\ q.todo = {} /\ q.at \in Forward \cup Backward
  BY DEF MoveStale, IAt, Forward
<1>1. /\ q \in InstallerRecords /\ Tree \in Trees /\ stage[i].aside \in [AllPaths -> Contents]
      /\ stage \in [Installers -> [exists : BOOLEAN, aside : [AllPaths -> Contents]]]
      /\ live \in [Paths -> Contents] /\ manifest \in Contents
      /\ installer \in [Installers -> InstallerRecords]
  BY <1>0, InHand
<1>2. /\ JournalOK(q, Tree, stage[i].aside) /\ OthersOK(q, Tree, stage[i].aside)
      /\ ForwardOK(q, Tree) /\ q.before # <<>> /\ q.before \in Trees
  BY <1>0, AtWork
<1>3. /\ q.stale \subseteq StaleFiles(q) /\ ~q.failed
      /\ Recorded(q.journal) \cap (q.stale \cup {Manifest}) = {}
      /\ Recorded(q.journal) \subseteq ReleaseFiles[q.release] \cup StaleFiles(q) \cup {Manifest}
      /\ q.release \in Releases /\ q.stale \subseteq Paths /\ q.journal \in Seq(Entries)
  BY <1>0, <1>1, <1>2 DEF ForwardOK, InstallerRecords, Forward
<1>4. PICK p \in q.stale :
        /\ stage' = [stage EXCEPT ![i].aside[p] = live[p]] /\ live' = [live EXCEPT ![p] = 0]
        /\ installer' =
             [installer EXCEPT ![i].stale = @ \ {p},
                               ![i].journal = IF live[p] = 0 THEN @ ELSE Append(@, Entry(p, live[p]))]
  BY DEF MoveStale
<1>5. UNCHANGED <<manifest, deployLock>>
  BY DEF MoveStale
<1>6. /\ p \in Paths /\ p \in AllPaths /\ p # Manifest /\ p \notin Recorded(q.journal)
      /\ p \in StaleFiles(q) /\ p \notin ReleaseFiles[q.release]
  BY <1>3, PathFacts DEF AllPaths, StaleFiles
<1>7. At(Tree, p) = live[p] /\ live[p] \in Contents
  BY <1>1, <1>6 DEF At, Tree
<1>8. /\ stage'[i].aside = [stage[i].aside EXCEPT ![p] = live[p]]
      /\ stage' \in [Installers -> [exists : BOOLEAN, aside : [AllPaths -> Contents]]]
      /\ stage'[i].aside \in [AllPaths -> Contents]
  BY <1>1, <1>4, <1>6, <1>7
<1>9. /\ Tree' \in Trees /\ At(Tree', p) = 0 /\ \A x \in AllPaths \ {p} : At(Tree', x) = At(Tree, x)
  BY <1>1, <1>4, <1>5, <1>6 DEF Tree, Trees, At, AllPaths, Contents
<1>10. /\ live'[p] = 0 /\ \A x \in Paths \ {p} : live'[x] = live[x]
  BY <1>1, <1>4, <1>6
<1>11. ASSUME NEW r \in InstallerRecords, r.at = "aside", r.todo = q.todo, r.stale = q.stale \ {p},
              r.release = q.release, r.before = q.before, r.failed = q.failed,
              Recorded(r.journal) \subseteq Recorded(q.journal) \cup {p}
       PROVE  ForwardOK(r, Tree')
  <2>1. StaleFiles(r) = StaleFiles(q) /\ StaleFiles(q) \subseteq Paths
    BY <1>2, <1>11, PathFacts DEF StaleFiles, Trees
  <2>2. ASSUME NEW x \in ReleaseFiles[q.release] PROVE live'[x] = q.release
    <3>1. x \in Paths \ {p}
      BY <1>3, <1>6, PathFacts
    <3>2. live[x] = q.release
      BY <1>0, <1>2 DEF ForwardOK, Tree, Forward
    <3> QED
      BY <1>10, <3>1, <3>2
  <2>3. ASSUME NEW x \in StaleFiles(q) \ (q.stale \ {p}) PROVE live'[x] = 0
    <3>1. x # p => live[x] = 0
      BY <1>0, <1>2, <2>3 DEF ForwardOK, Tree, Forward
    <3> QED
      BY <1>10, <2>1, <3>1
  <2>4. Recorded(r.journal) \cap (r.stale \cup {Manifest}) = {}
    BY <1>3, <1>6, <1>11
  <2>5. Recorded(r.journal) \subseteq ReleaseFiles[q.release] \cup StaleFiles(q) \cup {Manifest}
    BY <1>3, <1>6, <1>11
  <2> QED
    BY <1>0, <1>3, <1>11, <2>1, <2>2, <2>3, <2>4, <2>5 DEF ForwardOK, Tree
<1>12. q.stale \ {p} \in SUBSET Paths
  BY <1>3
<1>13. CASE live[p] = 0
  <2> DEFINE s == q.stale \ {p}
             r == [q EXCEPT !.stale = s]
  <2>1. installer' = [installer EXCEPT ![i] = r]
    <3>1. [q EXCEPT !.stale = s, !.journal = q.journal] = [q EXCEPT !.stale = s]
      BY <1>1 DEF InstallerRecords
    <3>2. installer' = [installer EXCEPT ![i] = [q EXCEPT !.stale = s, !.journal = q.journal]]
      BY <1>4, <1>13
    <3> QED
      BY <3>1, <3>2
  <2> HIDE DEF s
  <2>2. /\ r \in InstallerRecords /\ r.at = "aside" /\ r.todo = q.todo /\ r.stale = s
        /\ r.journal = q.journal /\ r.release = q.release /\ r.before = q.before
        /\ r.failed = q.failed
    <3>1. s \in SUBSET Paths
      BY <1>12 DEF s
    <3> QED
      BY <1>0, <1>1, <3>1 DEF InstallerRecords
  <2> HIDE DEF r
  <2>3. ForwardOK(r, Tree')
    BY <1>11, <2>2 DEF s
  <2>4. At(q.before, p) = 0
    BY <1>2, <1>3, <1>6, <1>7, <1>13 DEF OthersOK
  <2>5. Tree' = Tree
    <3>1. live' = live
      BY <1>1, <1>4, <1>6, <1>13
    <3> QED
      BY <1>5, <3>1 DEF Tree
  <2>6. \A x \in Recorded(q.journal) : stage'[i].aside[x] = stage[i].aside[x]
    <3>1. \A x \in Recorded(q.journal) : x \in AllPaths \ {p}
      <4>1. \A k \in 1..Len(q.journal) : q.journal[k].path \in AllPaths
        <5> TAKE k \in 1..Len(q.journal)
        <5>1. q.journal[k] \in Entries
          BY <1>3
        <5> QED
          BY <5>1 DEF Entries
      <4> QED
        BY <1>6, <4>1 DEF Recorded
    <3> QED
      BY <1>1, <1>8, <3>1
  <2>7. \A k \in 1..Len(q.journal) : q.journal[k].path \in Recorded(q.journal)
    BY DEF Recorded
  <2>8. JournalOK(r, Tree', stage'[i].aside)
    BY <1>0, <1>2, <2>2, <2>5, <2>6, <2>7 DEF JournalOK
  <2>9. OthersOK(r, Tree', stage'[i].aside)
    BY <1>2, <1>3, <2>2, <2>5 DEF OthersOK
  <2>10. r.at \in Forward \cup Backward
    BY <2>2 DEF Forward
  <2> QED
    BY <1>0, <1>5, <1>8, <1>9, <2>1, <2>2, <2>3, <2>8, <2>9, <2>10, WorkGoesOn
<1>14. CASE live[p] # 0
  <2> DEFINE s == q.stale \ {p}
             j == Append(q.journal, Entry(p, live[p]))
             r == [q EXCEPT !.stale = s, !.journal = j]
  <2>1. installer' = [installer EXCEPT ![i] = r]
    BY <1>4, <1>14
  <2>2. j \in Seq(Entries)
    <3>1. Entry(p, live[p]) \in Entries
      BY <1>6 DEF Entry, Entries
    <3> QED
      BY <1>3, <3>1
  <2> HIDE DEF s, j
  <2>3. /\ r \in InstallerRecords /\ r.at = "aside" /\ r.todo = q.todo /\ r.stale = s
        /\ r.journal = j /\ r.release = q.release /\ r.before = q.before
        /\ r.failed = q.failed
    <3>1. s \in SUBSET Paths
      BY <1>12 DEF s
    <3> QED
      BY <1>0, <1>1, <2>2, <3>1 DEF InstallerRecords
  <2> HIDE DEF r
  <2>4. /\ JournalOK(r, Tree', stage'[i].aside) /\ OthersOK(r, Tree', stage'[i].aside)
        /\ Recorded(r.journal) = Recorded(q.journal) \cup {p}
    <3>1. r.journal = Append(q.journal, Entry(p, At(Tree, p)))
      BY <1>7, <2>3 DEF j
    <3>2. stage'[i].aside = [stage[i].aside EXCEPT ![p] = At(Tree, p)]
      BY <1>7, <1>8
    <3>3. Adds(q, r, Tree, Tree', stage[i].aside, stage'[i].aside, p)
      BY <1>0, <1>1, <1>2, <1>3, <1>6, <1>9, <2>3, <3>1, <3>2 DEF Adds
    <3> QED
      BY <3>3, EntryAdded
  <2>5. ForwardOK(r, Tree')
    BY <1>11, <2>3, <2>4 DEF s
  <2>6. r.at \in Forward \cup Backward
    BY <2>3 DEF Forward
  <2> QED
    BY <1>0, <1>5, <1>8, <1>9, <2>1, <2>3, <2>4, <2>5, <2>6, WorkGoesOn
<1> QED
  BY <1>13, <1>14

LEMMA MoveManifestKeeps == \A i \in Installers : ReleaseInv /\ MoveManifest(i) => ReleaseInv'
<1> SUFFICES ASSUME NEW i \in Installers, ReleaseInv, MoveManifest(i) PROVE ReleaseInv'
  OBVIOUS
<1> DEFINE q == installer[i]
           j == Append(q.journal, Entry(Manifest, manifest))
           r == [q EXCEPT !.journal = j, !.at = "manifest"]
<1>0. q.at = "aside" /\ q.todo = {} /\ q.stale = {} /\ q.at \in Forward \cup Backward
  BY DEF MoveManifest, IAt, Forward
<1>1. /\ q \in InstallerRecords /\ Tree \in Trees /\ stage[i].aside \in [AllPaths -> Contents]
      /\ stage \in [Installers -> [exists : BOOLEAN, aside : [AllPaths -> Contents]]]
      /\ live \in [Paths -> Contents] /\ manifest \in Contents
      /\ installer \in [Installers -> InstallerRecords]
  BY <1>0, InHand
<1>2. /\ JournalOK(q, Tree, stage[i].aside) /\ OthersOK(q, Tree, stage[i].aside)
      /\ ForwardOK(q, Tree) /\ q.before # <<>>
  BY <1>0, AtWork
<1>3. /\ ~q.failed /\ Manifest \notin Recorded(q.journal) /\ q.journal \in Seq(Entries)
      /\ Recorded(q.journal) \subseteq ReleaseFiles[q.release] \cup StaleFiles(q) \cup {Manifest}
  BY <1>0, <1>1, <1>2 DEF ForwardOK, InstallerRecords, Forward
<1>4. Manifest \in AllPaths /\ Manifest \notin Paths
  BY PathFacts
<1>5. At(Tree, Manifest) = manifest
  BY DEF At, Tree
<1>6. j \in Seq(Entries)
  <2>1. Entry(Manifest, manifest) \in Entries
    BY <1>4 DEF Entry, Entries
  <2> QED
    BY <1>3, <2>1
<1>7. installer' = [installer EXCEPT ![i] = r]
  BY DEF MoveManifest, Aside
<1> HIDE DEF j
<1>8. /\ r \in InstallerRecords /\ r.at = "manifest" /\ r.todo = {} /\ r.stale = {}
      /\ r.journal = j /\ r.release = q.release /\ r.before = q.before /\ ~r.failed
  BY <1>0, <1>1, <1>3, <1>6 DEF InstallerRecords, Forward
<1> HIDE DEF r
<1>9. /\ stage' = [stage EXCEPT ![i].aside[Manifest] = manifest] /\ manifest' = 0
      /\ UNCHANGED <<live, deployLock>>
  BY DEF MoveManifest, Aside
<1>10. /\ stage'[i].aside = [stage[i].aside EXCEPT ![Manifest] = At(Tree, Manifest)]
       /\ stage' \in [Installers -> [exists : BOOLEAN, aside : [AllPaths -> Contents]]]
  BY <1>1, <1>4, <1>5, <1>9
<1>11. /\ Tree' \in Trees /\ At(Tree', Manifest) = 0
       /\ \A x \in AllPaths \ {Manifest} : At(Tree', x) = At(Tree, x)
  BY <1>1, <1>9 DEF Tree, Trees, At, Contents
<1>12. /\ JournalOK(r, Tree', stage'[i].aside) /\ OthersOK(r, Tree', stage'[i].aside)
       /\ Recorded(r.journal) = Recorded(q.journal) \cup {Manifest}
       /\ r.journal # <<>> /\ Newest(r).path = Manifest /\ ~Newest(r).published
  <2>1. r.journal = Append(q.journal, Entry(Manifest, At(Tree, Manifest)))
    BY <1>5, <1>8 DEF j
  <2>2. Adds(q, r, Tree, Tree', stage[i].aside, stage'[i].aside, Manifest)
    BY <1>0, <1>1, <1>2, <1>3, <1>4, <1>8, <1>10, <1>11, <2>1 DEF Adds
  <2> QED
    BY <2>2, EntryAdded
<1>13. ForwardOK(r, Tree')
  <2>1. StaleFiles(r) = StaleFiles(q)
    BY <1>8 DEF StaleFiles
  <2>2. /\ \A x \in ReleaseFiles[q.release] : live'[x] = q.release
        /\ \A x \in StaleFiles(q) : live'[x] = 0
    BY <1>0, <1>2, <1>9 DEF ForwardOK, Tree, Forward
  <2> QED
    BY <1>3, <1>8, <1>12, <2>1, <2>2 DEF ForwardOK, Tree
<1>14. r.at \in Forward \cup Backward
  BY <1>8 DEF Forward
<1> QED
  BY <1>0, <1>7, <1>8, <1>9, <1>10, <1>11, <1>12, <1>13, <1>14, WorkGoesOn

LEMMA PublishManifestKeeps == \A i \in Installers : ReleaseInv /\ PublishManifest(i) => ReleaseInv'
<1> SUFFICES ASSUME NEW i \in Installers, ReleaseInv, PublishManifest(i) PROVE ReleaseInv'
  OBVIOUS
<1> DEFINE q == installer[i]
           u == Published(i)
           r == [u EXCEPT !.at = "verify"]
<1>0. q.at = "manifest" /\ q.at \in Forward \cup Backward
  BY DEF PublishManifest, IAt, Forward
<1>1. /\ q \in InstallerRecords /\ Tree \in Trees /\ stage[i].aside \in [AllPaths -> Contents]
      /\ stage \in [Installers -> [exists : BOOLEAN, aside : [AllPaths -> Contents]]]
      /\ live \in [Paths -> Contents] /\ manifest \in Contents
  BY <1>0, InHand
<1>2. /\ JournalOK(q, Tree, stage[i].aside) /\ OthersOK(q, Tree, stage[i].aside)
      /\ ForwardOK(q, Tree)
  BY <1>0, AtWork
<1>3. /\ q.todo = {} /\ q.stale = {} /\ q.journal # <<>> /\ Newest(q).path = Manifest /\ ~q.failed
      /\ q.release \in Contents
      /\ Recorded(q.journal) \subseteq ReleaseFiles[q.release] \cup StaleFiles(q) \cup {Manifest}
  BY <1>0, <1>1, <1>2, PathFacts DEF ForwardOK, InstallerRecords, Forward
<1>4. /\ u \in InstallerRecords /\ u.todo = q.todo /\ u.stale = q.stale
      /\ u.release = q.release /\ u.before = q.before /\ u.failed = q.failed
      /\ u.journal = [q.journal EXCEPT ![Len(q.journal)] = [Newest(q) EXCEPT !.published = TRUE]]
  BY <1>1, <1>3, PublishedRecord
<1>5. installer' = [installer EXCEPT ![i] = r]
  BY DEF PublishManifest
<1>6. /\ r \in InstallerRecords /\ r.at = "verify" /\ r.todo = {} /\ r.stale = {}
      /\ r.journal = u.journal /\ r.release = q.release /\ r.before = q.before /\ r.failed = q.failed
  <2> HIDE DEF u
  <2> QED
    BY <1>3, <1>4 DEF InstallerRecords, Forward
<1> HIDE DEF r
<1>7. manifest' = q.release /\ UNCHANGED <<live, deployLock, stage>>
  BY DEF PublishManifest
<1>8. /\ Tree' \in Trees /\ At(Tree', Manifest) = q.release
      /\ \A x \in AllPaths \ {Manifest} : At(Tree', x) = At(Tree, x)
  BY <1>1, <1>3, <1>7 DEF Tree, Trees, At
<1>9. /\ JournalOK(r, Tree', stage'[i].aside) /\ OthersOK(r, Tree', stage'[i].aside)
      /\ Recorded(r.journal) = Recorded(q.journal)
  <2>1. Publishes(q, r, Tree, Tree', stage[i].aside)
    <3>1. r.journal = [q.journal EXCEPT ![Len(q.journal)] = [Newest(q) EXCEPT !.published = TRUE]]
      BY <1>4, <1>6
    <3>2. /\ At(Tree', Newest(q).path) = q.release
          /\ \A x \in AllPaths \ {Newest(q).path} : At(Tree', x) = At(Tree, x)
      BY <1>3, <1>8
    <3>3. q.at # "putback" /\ r.at # "putback"
      BY <1>0, <1>6
    <3> QED
      BY <1>1, <1>2, <1>3, <1>6, <1>8, <3>1, <3>2, <3>3 DEF Publishes
  <2> QED
    BY <1>7, <2>1, EntryPublished
<1>10. ForwardOK(r, Tree')
  <2>1. StaleFiles(r) = StaleFiles(q)
    BY <1>6 DEF StaleFiles
  <2>2. /\ \A x \in ReleaseFiles[q.release] : live'[x] = q.release
        /\ \A x \in StaleFiles(q) : live'[x] = 0
    BY <1>0, <1>2, <1>3, <1>7 DEF ForwardOK, Tree, Forward
  <2> QED
    BY <1>3, <1>6, <1>7, <1>9, <2>1, <2>2 DEF ForwardOK, Tree
<1>11. r.at \in Forward \cup Backward
  BY <1>6 DEF Forward
<1> QED
  BY <1>0, <1>1, <1>5, <1>6, <1>7, <1>8, <1>9, <1>10, <1>11, WorkGoesOn

\* A journal whose newest record is complete describes the whole release.
LEMMA VerifiedIsRelease ==
  ASSUME NEW q \in InstallerRecords, NEW tree \in Trees, NEW aside, q.before \in Trees,
         OthersOK(q, tree, aside), ForwardOK(q, tree), q.at = "verify", IsRelease(q.before)
  PROVE  IsRelease(tree)
<1>1. /\ ~q.failed /\ tree[2] = q.release /\ q.release \in Releases /\ q.release # 0
      /\ Recorded(q.journal) \subseteq ReleaseFiles[q.release] \cup StaleFiles(q) \cup {Manifest}
      /\ \A p \in ReleaseFiles[q.release] : tree[1][p] = q.release
      /\ \A p \in StaleFiles(q) : tree[1][p] = 0
  BY PathFacts DEF ForwardOK, InstallerRecords, Forward
<1>2. ASSUME NEW p \in Paths, p \notin ReleaseFiles[q.release] PROVE tree[1][p] = 0
  <2>1. CASE p \in StaleFiles(q)
    BY <1>1, <2>1
  <2>2. CASE p \notin StaleFiles(q)
    <3>1. p \notin Recorded(q.journal) /\ p # Manifest /\ p \in AllPaths
      BY <1>1, <1>2, <2>2, PathFacts DEF AllPaths
    <3>2. At(tree, p) = At(q.before, p)
      BY <1>1, <3>1 DEF OthersOK
    <3>3. tree[1][p] = q.before[1][p]
      BY <3>1, <3>2 DEF At
    <3>4. q.before[2] # 0 /\ p \notin ReleaseFiles[q.before[2]]
      BY <1>2, <2>2 DEF StaleFiles, Listed, IsRelease
    <3> QED
      BY <3>3, <3>4 DEF IsRelease
  <2> QED
    BY <2>1, <2>2
<1> QED
  BY <1>1, <1>2 DEF IsRelease

LEMMA VerifyKeeps == \A i \in Installers : ReleaseInv /\ Verify(i) => ReleaseInv'
<1> SUFFICES ASSUME NEW i \in Installers, ReleaseInv, Verify(i) PROVE ReleaseInv'
  OBVIOUS
<1> DEFINE q == installer[i]
           r == [q EXCEPT !.at = "root", !.outcome = "installed"]
<1>0. q.at = "verify" /\ q.at \in Forward \cup Backward
  BY DEF Verify, IAt, Forward
<1>1. /\ q \in InstallerRecords /\ Tree \in Trees /\ deployLock = {i}
      /\ stage \in [Installers -> [exists : BOOLEAN, aside : [AllPaths -> Contents]]]
  BY <1>0, InHand
<1>2. /\ OthersOK(q, Tree, stage[i].aside) /\ ForwardOK(q, Tree) /\ q.before # <<>>
      /\ q.before \in Trees /\ (IsRelease(q.before) \/ GivenAway)
  BY <1>0, AtWork
<1>3. ~q.failed /\ (IsRelease(q.before) => IsRelease(Tree))
  BY <1>0, <1>1, <1>2, VerifiedIsRelease DEF ForwardOK, Forward
<1>4. installer' = [installer EXCEPT ![i] = r] /\ UNCHANGED <<Tree, deployLock, stage>>
  BY DEF Verify
<1>5. /\ r \in InstallerRecords /\ r.at = "root" /\ r.outcome = "installed"
      /\ r.before = q.before /\ ~r.failed
  BY <1>1, <1>3 DEF InstallerRecords
<1> HIDE DEF r
<1>6. HolderOK(r, Tree, stage[i].aside, GivenAway)
  BY <1>2, <1>3, <1>5 DEF HolderOK, OutcomeOK, KeptOK, Forward, Backward
<1> QED
  BY <1>0, <1>1, <1>4, <1>5, <1>6, HolderMoves

LEMMA PublishStepFailsKeeps ==
  \A i \in Installers : ReleaseInv /\ PublishStepFails(i) => ReleaseInv'
<1> SUFFICES ASSUME NEW i \in Installers, ReleaseInv, PublishStepFails(i) PROVE ReleaseInv'
  OBVIOUS
<1> DEFINE q == installer[i]
           r == [q EXCEPT !.at = "undo"]
<1>0. q.at \in Forward /\ q.at \in Forward \cup Backward /\ q.at \notin {"new", "ended"}
  BY DEF PublishStepFails, Forward
<1>1. /\ q \in InstallerRecords /\ Tree \in Trees
      /\ stage \in [Installers -> [exists : BOOLEAN, aside : [AllPaths -> Contents]]]
  BY <1>0, InHand
<1>2. JournalOK(q, Tree, stage[i].aside) /\ OthersOK(q, Tree, stage[i].aside)
  BY <1>0, AtWork
<1>3. installer' = [installer EXCEPT ![i] = r] /\ UNCHANGED <<Tree, deployLock, stage>>
  BY DEF PublishStepFails, IGoto
<1>4. /\ r \in InstallerRecords /\ r.at = "undo" /\ r.journal = q.journal /\ r.before = q.before
      /\ r.release = q.release /\ r.failed = q.failed
  BY <1>1 DEF InstallerRecords, Backward
<1> HIDE DEF r
<1>5. q.at # "putback"
  BY <1>0 DEF Forward
<1>6. JournalOK(r, Tree, stage[i].aside) /\ OthersOK(r, Tree, stage[i].aside)
  BY <1>2, <1>4, <1>5 DEF JournalOK, OthersOK
<1>7. ForwardOK(r, Tree) /\ r.at \in Forward \cup Backward
  BY <1>4 DEF ForwardOK, Forward, Backward
<1> QED
  BY <1>0, <1>1, <1>3, <1>4, <1>6, <1>7, WorkGoesOn

\* Writing one path of the tree.
LEMMA PutFacts ==
  ASSUME live \in [Paths -> Contents], manifest \in Contents,
         NEW p \in AllPaths, NEW c \in Contents, Put(p, c)
  PROVE  /\ Tree' \in Trees /\ At(Tree', p) = c
         /\ \A x \in AllPaths \ {p} : At(Tree', x) = At(Tree, x)
<1>1. CASE p = Manifest
  BY <1>1 DEF Put, Tree, Trees, At
<1>2. CASE p # Manifest
  <2>1. p \in Paths /\ live' = [live EXCEPT ![p] = c] /\ manifest' = manifest
    BY <1>2 DEF Put, AllPaths
  <2> QED
    BY <1>2, <2>1 DEF Tree, Trees, At, AllPaths
<1> QED
  BY <1>1, <1>2

\* The newest record of a journal.
LEMMA NewestFacts ==
  ASSUME NEW q \in InstallerRecords, NEW tree, NEW aside, JournalOK(q, tree, aside),
         q.journal # <<>>
  PROVE  /\ Newest(q) \in Entries /\ Newest(q).path \in AllPaths
         /\ Len(q.journal) \in 1..Len(q.journal)
         /\ \A k \in 1..Len(q.journal) : q.journal[k].path \in AllPaths
         /\ \A k \in 1..Len(q.journal) : k # Len(q.journal) => q.journal[k].path # Newest(q).path
         /\ aside[Newest(q).path] = At(q.before, Newest(q).path)
         /\ Newest(q).moved <=> At(q.before, Newest(q).path) # 0
         /\ At(tree, Newest(q).path) =
              IF Newest(q).published /\ q.at # "putback" THEN q.release ELSE 0
<1>1. q.journal \in Seq(Entries) /\ Len(q.journal) \in 1..Len(q.journal)
  BY DEF InstallerRecords
<1>2. \A k \in 1..Len(q.journal) : q.journal[k] \in Entries
  BY <1>1
<1>3. \A k \in 1..Len(q.journal) : q.journal[k].path \in AllPaths
  BY <1>2 DEF Entries
<1> QED
  BY <1>1, <1>2, <1>3 DEF JournalOK, Newest

LEMMA UndoPublishKeeps == \A i \in Installers : ReleaseInv /\ UndoPublish(i) => ReleaseInv'
<1> SUFFICES ASSUME NEW i \in Installers, ReleaseInv, UndoPublish(i) PROVE ReleaseInv'
  OBVIOUS
<1> DEFINE q == installer[i]
           e == Newest(q)
           r == [q EXCEPT !.at = "putback"]
<1>0. q.at = "undo" /\ q.at \in Forward \cup Backward /\ q.journal # <<>>
  BY DEF UndoPublish, IAt, Backward
<1>1. /\ q \in InstallerRecords /\ Tree \in Trees
      /\ live \in [Paths -> Contents] /\ manifest \in Contents
      /\ stage \in [Installers -> [exists : BOOLEAN, aside : [AllPaths -> Contents]]]
  BY <1>0, InHand
<1>2. JournalOK(q, Tree, stage[i].aside) /\ OthersOK(q, Tree, stage[i].aside)
  BY <1>0, AtWork
<1>3. /\ e \in Entries /\ e.path \in AllPaths /\ Len(q.journal) \in 1..Len(q.journal)
      /\ \A k \in 1..Len(q.journal) : q.journal[k].path \in AllPaths
      /\ \A k \in 1..Len(q.journal) : k # Len(q.journal) => q.journal[k].path # e.path
      /\ At(Tree, e.path) = IF e.published THEN q.release ELSE 0
  <2>1. q.at # "putback"
    BY <1>0
  <2> QED
    BY <1>0, <1>1, <1>2, <2>1, NewestFacts
<1>4. /\ installer' = [installer EXCEPT ![i] = r] /\ UNCHANGED <<deployLock, stage>>
      /\ IF e.published THEN Put(e.path, 0) ELSE UNCHANGED Tree
  BY DEF UndoPublish, IGoto, LastEntry, Newest
<1>5. /\ Tree' \in Trees /\ At(Tree', e.path) = 0
      /\ \A x \in AllPaths \ {e.path} : At(Tree', x) = At(Tree, x)
  <2>1. CASE e.published
    <3>1. Put(e.path, 0) /\ 0 \in Contents
      BY <1>4, <2>1 DEF Contents
    <3> QED
      BY <1>1, <1>3, <3>1, PutFacts
  <2>2. CASE ~e.published
    BY <1>1, <1>3, <1>4, <2>2
  <2> QED
    BY <2>1, <2>2
<1>6. /\ r \in InstallerRecords /\ r.at = "putback" /\ r.journal = q.journal /\ r.before = q.before
      /\ r.release = q.release /\ r.failed = q.failed
  BY <1>1 DEF InstallerRecords, Backward
<1> HIDE DEF r
<1>7. JournalOK(r, Tree', stage[i].aside)
  <2>1. q.journal[Len(q.journal)].path = e.path
    BY DEF Newest
  <2>2. ASSUME NEW k \in 1..Len(q.journal)
        PROVE  /\ k = Len(q.journal) => At(Tree', q.journal[k].path) = 0
               /\ k # Len(q.journal) => At(Tree', q.journal[k].path) = At(Tree, q.journal[k].path)
    BY <1>3, <1>5, <2>1
  <2> HIDE DEF e
  <2> QED
    BY <1>0, <1>2, <1>6, <2>2 DEF JournalOK
<1>8. OthersOK(r, Tree', stage[i].aside)
  <2>1. e.path \in Recorded(q.journal)
    BY <1>3 DEF Recorded, Newest
  <2> HIDE DEF e
  <2> QED
    BY <1>2, <1>5, <1>6, <2>1 DEF OthersOK
<1>9. ForwardOK(r, Tree') /\ r.at \in Forward \cup Backward
  BY <1>6 DEF ForwardOK, Forward, Backward
<1> QED
  BY <1>0, <1>1, <1>4, <1>5, <1>6, <1>7, <1>8, <1>9, WorkGoesOn

LEMMA PutBackKeeps == \A i \in Installers : ReleaseInv /\ PutBack(i) => ReleaseInv'
<1> SUFFICES ASSUME NEW i \in Installers, ReleaseInv, PutBack(i) PROVE ReleaseInv'
  OBVIOUS
<1> DEFINE q == installer[i]
           e == Newest(q)
           r == Dropped(i)
<1>0. q.at = "putback" /\ q.at \in Forward \cup Backward
  BY DEF PutBack, IAt, Backward
<1>1. /\ q \in InstallerRecords /\ Tree \in Trees
      /\ live \in [Paths -> Contents] /\ manifest \in Contents
      /\ stage \in [Installers -> [exists : BOOLEAN, aside : [AllPaths -> Contents]]]
      /\ stage[i].aside \in [AllPaths -> Contents]
  BY <1>0, InHand
<1>2. JournalOK(q, Tree, stage[i].aside) /\ OthersOK(q, Tree, stage[i].aside) /\ q.journal # <<>>
  BY <1>0, AtWork DEF JournalOK
<1>3. /\ e.path \in AllPaths /\ At(Tree, e.path) = 0
      /\ stage[i].aside[e.path] = At(q.before, e.path)
      /\ (e.moved <=> At(q.before, e.path) # 0)
  BY <1>0, <1>1, <1>2, NewestFacts
<1>4. /\ installer' = [installer EXCEPT ![i] = r] /\ UNCHANGED <<deployLock>>
      /\ IF e.moved
         THEN Put(e.path, stage[i].aside[e.path]) /\ stage' = [stage EXCEPT ![i].aside[e.path] = 0]
         ELSE UNCHANGED <<Tree, stage>>
  BY DEF PutBack, LastEntry, Newest
<1> HIDE DEF e
<1>5. /\ Tree' \in Trees /\ At(Tree', e.path) = At(q.before, e.path)
      /\ \A x \in AllPaths \ {e.path} : At(Tree', x) = At(Tree, x)
  <2>1. CASE e.moved
    <3>1. stage[i].aside[e.path] \in Contents
      BY <1>1, <1>3
    <3> QED
      BY <1>1, <1>3, <1>4, <2>1, <3>1, PutFacts
  <2>2. CASE ~e.moved
    BY <1>1, <1>3, <1>4, <2>2
  <2> QED
    BY <2>1, <2>2
<1>6. /\ stage' \in [Installers -> [exists : BOOLEAN, aside : [AllPaths -> Contents]]]
      /\ stage'[i].aside \in [AllPaths -> Contents]
      /\ \A x \in AllPaths \ {e.path} : stage'[i].aside[x] = stage[i].aside[x]
  <2>1. CASE e.moved
    <3> DEFINE kept == [stage[i] EXCEPT !.aside = [stage[i].aside EXCEPT ![e.path] = 0]]
    <3>1. 0 \in Contents
      BY DEF Contents
    <3>2. stage' = [stage EXCEPT ![i] = kept]
      BY <1>4, <2>1
    <3>3. [stage[i].aside EXCEPT ![e.path] = 0] \in [AllPaths -> Contents]
      BY <1>1, <3>1
    <3>4. stage[i] \in [exists : BOOLEAN, aside : [AllPaths -> Contents]]
      BY <1>1
    <3>5. /\ kept \in [exists : BOOLEAN, aside : [AllPaths -> Contents]]
          /\ kept.aside = [stage[i].aside EXCEPT ![e.path] = 0]
      BY <3>3, <3>4
    <3> HIDE DEF kept
    <3>6. stage'[i] = kept /\ stage' \in [Installers -> [exists : BOOLEAN, aside : [AllPaths -> Contents]]]
      BY <1>1, <3>2, <3>5
    <3> QED
      BY <1>1, <3>3, <3>5, <3>6
  <2>2. CASE ~e.moved
    BY <1>1, <1>4, <2>2
  <2> QED
    BY <2>1, <2>2
<1>7. /\ r \in InstallerRecords /\ r.at = "undo" /\ r.before = q.before /\ r.release = q.release
      /\ r.failed = q.failed /\ r.journal = SubSeq(q.journal, 1, Len(q.journal) - 1)
  BY <1>1, <1>2, DroppedRecord
<1> HIDE DEF r
<1>8. JournalOK(r, Tree', stage'[i].aside) /\ OthersOK(r, Tree', stage'[i].aside)
  <2>1. Drops(q, r, Tree, Tree', stage[i].aside, stage'[i].aside)
    BY <1>1, <1>2, <1>5, <1>6, <1>7 DEF Drops, e
  <2> QED
    BY <2>1, EntryDropped
<1>9. ForwardOK(r, Tree') /\ r.at \in Forward \cup Backward
  BY <1>7 DEF ForwardOK, Forward, Backward
<1> QED
  BY <1>0, <1>1, <1>4, <1>5, <1>6, <1>7, <1>8, <1>9, WorkGoesOn

LEMMA UndoFailsKeeps == \A i \in Installers : ReleaseInv /\ UndoFails(i) => ReleaseInv'
<1> SUFFICES ASSUME NEW i \in Installers, ReleaseInv, UndoFails(i) PROVE ReleaseInv'
  OBVIOUS
<1> DEFINE q == installer[i]
           u == Dropped(i)
           r == [u EXCEPT !.failed = TRUE]
<1>0. q.at \in Backward /\ q.at \in Forward \cup Backward /\ q.journal # <<>> /\ q.at \notin {"new", "ended"}
  BY DEF UndoFails, Backward
<1>1. /\ q \in InstallerRecords /\ Tree \in Trees
      /\ stage \in [Installers -> [exists : BOOLEAN, aside : [AllPaths -> Contents]]]
      /\ stage[i].aside \in [AllPaths -> Contents]
  BY <1>0, InHand
<1>2. JournalOK(q, Tree, stage[i].aside) /\ OthersOK(q, Tree, stage[i].aside)
  BY <1>0, AtWork
<1>3. installer' = [installer EXCEPT ![i] = r] /\ UNCHANGED <<Tree, deployLock, stage>>
  BY DEF UndoFails
<1>4. /\ u \in InstallerRecords /\ u.at = "undo" /\ u.before = q.before /\ u.release = q.release
      /\ u.journal = SubSeq(q.journal, 1, Len(q.journal) - 1)
  BY <1>0, <1>1, DroppedRecord
<1>5. /\ r \in InstallerRecords /\ r.at = "undo" /\ r.before = q.before /\ r.release = q.release
      /\ r.failed /\ r.journal = SubSeq(q.journal, 1, Len(q.journal) - 1)
  <2> HIDE DEF u
  <2> QED
    BY <1>4 DEF InstallerRecords
<1> HIDE DEF r
<1>6. JournalOK(r, Tree, stage[i].aside) /\ OthersOK(r, Tree, stage[i].aside)
  <2>1. stage[i].aside[Newest(q).path] = At(q.before, Newest(q).path)
    BY <1>0, <1>1, <1>2, NewestFacts
  <2>2. Drops(q, r, Tree, Tree, stage[i].aside, stage[i].aside)
    BY <1>0, <1>1, <1>2, <1>5, <2>1 DEF Drops
  <2> QED
    BY <2>2, EntryDropped
<1>7. ForwardOK(r, Tree) /\ r.at \in Forward \cup Backward
  BY <1>5 DEF ForwardOK, Forward, Backward
<1> QED
  BY <1>0, <1>1, <1>3, <1>5, <1>6, <1>7, WorkGoesOn

\* While a run is at work, every file of the previous release is in its place or staged.
LEMMA KeptAtWork ==
  ASSUME NEW q \in InstallerRecords, NEW tree, NEW aside,
         JournalOK(q, tree, aside), OthersOK(q, tree, aside)
  PROVE  \A p \in Paths : q.before[1][p] # 0 => q.before[1][p] \in {tree[1][p], aside[p]}
<1> SUFFICES ASSUME NEW p \in Paths PROVE q.before[1][p] \in {tree[1][p], aside[p]}
  OBVIOUS
<1>1. p # Manifest /\ p \in AllPaths
  BY PathFacts DEF AllPaths
<1>2. CASE p \in Recorded(q.journal)
  <2>1. PICK k \in 1..Len(q.journal) : q.journal[k].path = p
    BY <1>2 DEF Recorded
  <2>2. aside[p] = At(q.before, p)
    BY <2>1 DEF JournalOK
  <2> QED
    BY <1>1, <2>2 DEF At
<1>3. CASE p \notin Recorded(q.journal)
  BY <1>1, <1>3 DEF OthersOK, At
<1> QED
  BY <1>2, <1>3

LEMMA SameTrees ==
  ASSUME NEW t \in Trees, NEW u \in Trees, \A p \in AllPaths : At(t, p) = At(u, p)
  PROVE  t = u
<1>1. t[2] = u[2]
  BY PathFacts DEF At
<1>2. \A p \in Paths : t[1][p] = u[1][p]
  BY PathFacts DEF At, AllPaths
<1>3. t[1] = u[1]
  BY <1>2 DEF Trees
<1> QED
  BY <1>1, <1>3 DEF Trees

LEMMA RolledBackKeeps == \A i \in Installers : ReleaseInv /\ RolledBack(i) => ReleaseInv'
<1> SUFFICES ASSUME NEW i \in Installers, ReleaseInv, RolledBack(i) PROVE ReleaseInv'
  OBVIOUS
<1> DEFINE q == installer[i]
           o == IF q.failed THEN "rollback_failed" ELSE "failed"
           r == [q EXCEPT !.at = "root", !.outcome = o]
<1>0. q.at = "undo" /\ q.at \in Forward \cup Backward /\ q.journal = <<>>
  BY DEF RolledBack, IAt, Backward
<1>1. /\ q \in InstallerRecords /\ Tree \in Trees /\ deployLock = {i}
      /\ stage \in [Installers -> [exists : BOOLEAN, aside : [AllPaths -> Contents]]]
  BY <1>0, InHand
<1>2. /\ JournalOK(q, Tree, stage[i].aside) /\ OthersOK(q, Tree, stage[i].aside)
      /\ q.before # <<>> /\ q.before \in Trees /\ (IsRelease(q.before) \/ GivenAway)
  BY <1>0, AtWork
<1>3. installer' = [installer EXCEPT ![i] = r] /\ UNCHANGED <<Tree, deployLock, stage>>
  BY DEF RolledBack
<1>4. /\ r \in InstallerRecords /\ r.at = "root" /\ r.outcome = o
      /\ r.before = q.before /\ r.failed = q.failed
  BY <1>1 DEF InstallerRecords
<1>5. \A p \in Paths : q.before[1][p] # 0 => q.before[1][p] \in {Tree[1][p], stage[i].aside[p]}
  BY <1>1, <1>2, KeptAtWork
<1>6. ~q.failed => Tree = q.before
  <2>1. Recorded(q.journal) = {}
    BY <1>0 DEF Recorded
  <2>2. ~q.failed => \A p \in AllPaths : At(Tree, p) = At(q.before, p)
    BY <1>2, <2>1 DEF OthersOK
  <2> QED
    BY <1>1, <1>2, <2>2, SameTrees
<1> HIDE DEF r
<1>7. OutcomeOK(r, Tree) /\ KeptOK(r, Tree, stage[i].aside)
  BY <1>4, <1>5, <1>6 DEF OutcomeOK, KeptOK
<1>8. HolderOK(r, Tree, stage[i].aside, GivenAway)
  BY <1>2, <1>4, <1>7 DEF HolderOK, Forward, Backward
<1> QED
  BY <1>0, <1>1, <1>3, <1>4, <1>8, HolderMoves

\* What the end of a run knows.
LEMMA AtTheRoot ==
  ASSUME ReleaseInv, NEW i \in Installers, installer[i].at = "root"
  PROVE  /\ OutcomeOK(installer[i], Tree) /\ KeptOK(installer[i], Tree, stage[i].aside)
         /\ installer[i].before # <<>> /\ (IsRelease(installer[i].before) \/ GivenAway)
         /\ installer[i] \in InstallerRecords /\ Tree \in Trees /\ deployLock = {i}
         /\ stage \in [Installers -> [exists : BOOLEAN, aside : [AllPaths -> Contents]]]
<1>1. HolderOK(installer[i], Tree, stage[i].aside, GivenAway)
  BY InHand
<1>2. installer[i].before # <<>>
  BY <1>1 DEF HolderOK, BeforeChanges
<1> QED
  BY <1>1, <1>2, InHand DEF HolderOK

LEMMA RootKeeps == \A i \in Installers : ReleaseInv /\ (Root(i) \/ RootFails(i)) => ReleaseInv'
<1> SUFFICES ASSUME NEW i \in Installers, ReleaseInv, Root(i) \/ RootFails(i) PROVE ReleaseInv'
  OBVIOUS
<1> DEFINE q == installer[i]
<1>0. q.at = "root"
  BY DEF Root, RootFails, IAt
<1>1. /\ OutcomeOK(q, Tree) /\ KeptOK(q, Tree, stage[i].aside)
      /\ q.before # <<>> /\ (IsRelease(q.before) \/ GivenAway)
      /\ q \in InstallerRecords /\ Tree \in Trees /\ deployLock = {i}
      /\ stage \in [Installers -> [exists : BOOLEAN, aside : [AllPaths -> Contents]]]
  BY <1>0, AtTheRoot
<1>2. UNCHANGED <<Tree, deployLock>>
  BY DEF Root, RootFails
<1>3. CASE Root(i)
  <2> DEFINE r == [q EXCEPT !.at = "unlock"]
  <2>1. /\ installer' = [installer EXCEPT ![i] = r]
        /\ stage' = IF q.failed THEN stage ELSE [stage EXCEPT ![i] = NoStage]
    BY <1>3 DEF Root, IGoto
  <2>2. /\ r \in InstallerRecords /\ r.at = "unlock" /\ r.outcome = q.outcome
        /\ r.before = q.before /\ r.failed = q.failed
    BY <1>1 DEF InstallerRecords
  <2> HIDE DEF r
  <2>3. OutcomeOK(r, Tree)
    BY <1>1, <2>2 DEF OutcomeOK
  <2>4. /\ KeptOK(r, Tree, stage'[i].aside)
        /\ stage' \in [Installers -> [exists : BOOLEAN, aside : [AllPaths -> Contents]]]
    <3>1. CASE q.failed
      BY <1>1, <2>1, <2>2, <3>1 DEF KeptOK
    <3>2. CASE ~q.failed
      <4>1. IsRelease(r.before) => IsRelease(Tree)
        BY <2>2, <2>3, <3>2 DEF OutcomeOK
      <4>2. NoStage \in [exists : BOOLEAN, aside : [AllPaths -> Contents]]
        BY DEF NoStage, AllPaths, Contents
      <4> QED
        BY <1>1, <2>1, <3>2, <4>1, <4>2 DEF KeptOK
    <3> QED
      BY <3>1, <3>2
  <2>5. HolderOK(r, Tree, stage'[i].aside, GivenAway)
    BY <1>1, <2>2, <2>3, <2>4 DEF HolderOK, Forward, Backward
  <2> QED
    BY <1>0, <1>1, <1>2, <2>1, <2>2, <2>4, <2>5, HolderMoves
<1>4. CASE RootFails(i)
  <2> DEFINE r == [q EXCEPT !.at = "unlock", !.outcome = "root_failed"]
  <2>1. installer' = [installer EXCEPT ![i] = r] /\ stage' = stage
    BY <1>4 DEF RootFails
  <2>2. /\ r \in InstallerRecords /\ r.at = "unlock" /\ r.outcome = "root_failed"
        /\ r.before = q.before /\ r.failed = q.failed
    BY <1>1 DEF InstallerRecords
  <2> HIDE DEF r
  <2>3. OutcomeOK(r, Tree) /\ KeptOK(r, Tree, stage[i].aside)
    BY <1>1, <2>2 DEF OutcomeOK, KeptOK
  <2>4. HolderOK(r, Tree, stage[i].aside, GivenAway)
    BY <1>1, <2>2, <2>3 DEF HolderOK, Forward, Backward
  <2> QED
    BY <1>0, <1>1, <1>2, <2>1, <2>2, <2>4, HolderMoves
<1> QED
  BY <1>3, <1>4

\* The lock is released.
LEMMA LockReleased ==
  ASSUME ReleaseInv, NEW i \in Installers, deployLock = {i}, deployLock' = {},
         NEW r \in InstallerRecords, r.at = "ended", installer' = [installer EXCEPT ![i] = r],
         Tree' \in Trees,
         stage' \in [Installers -> [exists : BOOLEAN, aside : [AllPaths -> Contents]]],
         IsRelease(Tree') \/ GivenAway'
  PROVE  ReleaseInv'
<1>1. installer \in [Installers -> InstallerRecords]
  BY DEF ReleaseInv, ReleaseTypes
<1>2. installer'[i] = r /\ \A j \in Installers \ {i} : installer'[j] = installer[j]
  BY <1>1
<1>3. ReleaseTypes'
  BY <1>1 DEF ReleaseTypes
<1>4. ASSUME NEW j \in Installers
      PROVE  /\ installer'[j].at \in {"new", "ended"}
             /\ installer'[j].at = "new" => installer'[j] = NotStarted
  <2>1. CASE j = i
    BY <1>2, <2>1
  <2>2. CASE j # i
    <3>1. installer'[j] = installer[j] /\ deployLock # {j}
      BY <1>2, <2>2
    <3> QED
      BY <3>1 DEF ReleaseInv, IAt
  <2> QED
    BY <2>1, <2>2
<1> QED
  BY <1>3, <1>4 DEF ReleaseInv, IAt, Whole

LEMMA UnlockDeployKeeps == \A i \in Installers : ReleaseInv /\ UnlockDeploy(i) => ReleaseInv'
<1> SUFFICES ASSUME NEW i \in Installers, ReleaseInv, UnlockDeploy(i) PROVE ReleaseInv'
  OBVIOUS
<1> DEFINE q == installer[i]
           r == [q EXCEPT !.at = "ended"]
<1>0. q.at = "unlock"
  BY DEF UnlockDeploy, IAt
<1>1. /\ q \in InstallerRecords /\ Tree \in Trees /\ deployLock = {i}
      /\ HolderOK(q, Tree, stage[i].aside, GivenAway)
      /\ stage \in [Installers -> [exists : BOOLEAN, aside : [AllPaths -> Contents]]]
      /\ installer \in [Installers -> InstallerRecords]
  BY <1>0, InHand
<1>2. /\ installer' = [installer EXCEPT ![i] = r] /\ UNCHANGED <<Tree, stage>>
      /\ deployLock' = IF KeepsLock(i) THEN deployLock ELSE {}
  BY DEF UnlockDeploy, IGoto
<1>3. /\ r \in InstallerRecords /\ r.at = "ended" /\ r.outcome = q.outcome
      /\ r.before = q.before /\ r.failed = q.failed /\ r.journal = q.journal
  BY <1>1 DEF InstallerRecords
<1> HIDE DEF r
<1>4. HolderOK(r, Tree, stage[i].aside, GivenAway)
  BY <1>0, <1>1, <1>3 DEF HolderOK, BeforeChanges, KeptOK, Forward, Backward
<1>5. CASE KeepsLock(i)
  BY <1>0, <1>1, <1>2, <1>3, <1>4, <1>5, HolderMoves
<1>6. CASE ~KeepsLock(i)
  <2>1. GivenAway => GivenAway'
    BY <1>0, <1>1, <1>2, GivenStays
  <2>2. CASE q.before = <<>>
    <3>1. IsRelease(Tree) \/ GivenAway
      BY <1>1, <2>2 DEF HolderOK
    <3> QED
      BY <1>1, <1>2, <1>3, <1>6, <2>1, <3>1, LockReleased
  <2>3. CASE q.before # <<>>
    <3>1. OutcomeOK(q, Tree) /\ (IsRelease(q.before) \/ GivenAway)
      BY <1>0, <1>1, <2>3 DEF HolderOK
    <3>2. CASE q.failed
      <4>1. q.outcome = "root_failed"
        BY <1>6, <3>1, <3>2 DEF OutcomeOK, KeepsLock
      <4>2. installer'[i] = r
        BY <1>1, <1>2
      <4>3. GivenAway'
        BY <1>3, <3>2, <4>1, <4>2 DEF GivenAway, IAt
      <4> QED
        BY <1>1, <1>2, <1>3, <1>6, <4>3, LockReleased
    <3>3. CASE ~q.failed
      <4>1. IsRelease(Tree) \/ GivenAway'
        BY <2>1, <3>1, <3>3 DEF OutcomeOK
      <4> QED
        BY <1>1, <1>2, <1>3, <1>6, <4>1, LockReleased
    <3> QED
      BY <3>2, <3>3
  <2> QED
    BY <2>2, <2>3
<1> QED
  BY <1>5, <1>6

LEMMA KillInstallerKeeps == \A i \in Installers : ReleaseInv /\ KillInstaller(i) => ReleaseInv'
<1> SUFFICES ASSUME NEW i \in Installers, ReleaseInv, KillInstaller(i) PROVE ReleaseInv'
  OBVIOUS
<1> DEFINE q == installer[i]
           r == [q EXCEPT !.at = "ended", !.outcome = "killed"]
<1>0. q.at \notin {"new", "ended"}
  BY DEF KillInstaller
<1>1. /\ q \in InstallerRecords /\ Tree \in Trees /\ deployLock = {i}
      /\ HolderOK(q, Tree, stage[i].aside, GivenAway)
      /\ stage \in [Installers -> [exists : BOOLEAN, aside : [AllPaths -> Contents]]]
  BY <1>0, InHand
<1>2. installer' = [installer EXCEPT ![i] = r] /\ UNCHANGED <<Tree, stage, deployLock>>
  BY DEF KillInstaller
<1>3. /\ r \in InstallerRecords /\ r.at = "ended" /\ r.before = q.before
      /\ r.failed = q.failed /\ r.journal = q.journal
  BY <1>1 DEF InstallerRecords
<1> HIDE DEF r
<1>4. HolderOK(r, Tree, stage[i].aside, GivenAway)
  <2>1. CASE q.before = <<>>
    BY <1>1, <1>3, <2>1 DEF HolderOK, BeforeChanges
  <2>2. CASE q.before # <<>>
    <3>1. KeptOK(r, Tree, stage[i].aside)
      <4>1. CASE q.at \in Forward \cup Backward
        <5>1. JournalOK(q, Tree, stage[i].aside) /\ OthersOK(q, Tree, stage[i].aside)
          BY <4>1, AtWork
        <5>2. \A p \in Paths : q.before[1][p] # 0 => q.before[1][p] \in {Tree[1][p], stage[i].aside[p]}
          BY <1>1, <5>1, KeptAtWork
        <5> QED
          BY <1>3, <5>2 DEF KeptOK
      <4>2. CASE q.at \notin Forward \cup Backward
        BY <1>0, <1>1, <1>3, <2>2, <4>2 DEF HolderOK, KeptOK
      <4> QED
        BY <4>1, <4>2
    <3>2. IsRelease(q.before) \/ GivenAway
      BY <1>1, <2>2 DEF HolderOK
    <3> QED
      BY <1>3, <2>2, <3>1, <3>2 DEF HolderOK, Forward, Backward
  <2> QED
    BY <2>1, <2>2
<1> QED
  BY <1>0, <1>1, <1>2, <1>3, <1>4, HolderMoves

LEMMA RecoverReleaseKeeps == \A i \in Installers : ReleaseInv /\ RecoverRelease(i) => ReleaseInv'
<1> SUFFICES ASSUME NEW i \in Installers, ReleaseInv, RecoverRelease(i) PROVE ReleaseInv'
  OBVIOUS
<1> DEFINE q == installer[i]
<1>1. i \in deployLock /\ q.at = "ended" /\ deployLock' = {} /\ installer' = installer
      /\ stage' = [stage EXCEPT ![i] = NoStage]
  BY DEF RecoverRelease, IAt
<1>2. deployLock = {i} /\ HolderOK(q, Tree, stage[i].aside, GivenAway)
  BY <1>1 DEF ReleaseInv
<1>3. /\ q \in InstallerRecords /\ Tree \in Trees /\ installer \in [Installers -> InstallerRecords]
      /\ stage \in [Installers -> [exists : BOOLEAN, aside : [AllPaths -> Contents]]]
  BY DEF ReleaseInv, ReleaseTypes
<1>4. stage' \in [Installers -> [exists : BOOLEAN, aside : [AllPaths -> Contents]]]
  <2>1. NoStage \in [exists : BOOLEAN, aside : [AllPaths -> Contents]]
    BY DEF NoStage, AllPaths, Contents
  <2> QED
    BY <1>1, <1>3, <2>1
<1>5. GivenAway' = GivenAway
  BY <1>1 DEF GivenAway, IAt
<1>6. installer' = [installer EXCEPT ![i] = q]
  BY <1>1, <1>3
<1>7. Tree' \in Trees /\ (IsRelease(Tree') \/ GivenAway')
  <2>1. CASE Whole \/ q.before = <<>>
    <3>1. Tree' = Tree
      BY <2>1 DEF RecoverRelease
    <3> QED
      BY <1>2, <1>3, <1>5, <2>1, <3>1 DEF HolderOK, Whole
  <2>2. CASE ~(Whole \/ q.before = <<>>)
    <3>1. live' = q.before[1] /\ manifest' = q.before[2]
      BY <2>2 DEF RecoverRelease
    <3>2. q.before \in Trees
      BY <1>3, <2>2 DEF InstallerRecords
    <3>3. Tree' = q.before
      BY <3>1, <3>2 DEF Tree, Trees
    <3> QED
      BY <1>2, <1>5, <2>2, <3>2, <3>3 DEF HolderOK
  <2> QED
    BY <2>1, <2>2
<1> QED
  BY <1>1, <1>2, <1>3, <1>4, <1>6, <1>7, LockReleased

LEMMA TakeLockKeeps ==
  \A i \in Installers, v \in Releases : ReleaseInv /\ TakeLock(i, v) => ReleaseInv'
<1> SUFFICES ASSUME NEW i \in Installers, NEW v \in Releases, ReleaseInv, TakeLock(i, v)
             PROVE  ReleaseInv'
  OBVIOUS
<1> DEFINE q == installer[i]
           r == [q EXCEPT !.at = "prepare", !.release = v]
<1>1. /\ q = NotStarted /\ q \in InstallerRecords /\ deployLock = {} /\ Tree \in Trees
      /\ (IsRelease(Tree) \/ GivenAway)
      /\ stage \in [Installers -> [exists : BOOLEAN, aside : [AllPaths -> Contents]]]
  BY DEF TakeLock, ReleaseInv, ReleaseTypes, Whole
<1>2. /\ deployLock' = {i} /\ installer' = [installer EXCEPT ![i] = r] /\ UNCHANGED <<Tree, stage>>
  BY DEF TakeLock
<1>3. q.at = "new" /\ q.journal = <<>> /\ q.failed = FALSE /\ q.before = <<>>
  BY <1>1 DEF NotStarted
<1>4. /\ r \in InstallerRecords /\ r.at = "prepare" /\ r.journal = <<>> /\ r.failed = FALSE
      /\ r.before = <<>>
  BY <1>1, <1>3 DEF InstallerRecords
<1> HIDE DEF r
<1>5. HolderOK(r, Tree, stage[i].aside, GivenAway)
  BY <1>1, <1>4 DEF HolderOK, BeforeChanges
<1> QED
  BY <1>1, <1>2, <1>3, <1>4, <1>5, HolderMoves

\* Before its first change a run knows the tree it has found.
LEMMA Prepares ==
  ASSUME ReleaseInv, NEW i \in Installers, installer[i].at = "prepare"
  PROVE  /\ installer[i].before = <<>> /\ installer[i].journal = <<>> /\ ~installer[i].failed
         /\ (IsRelease(Tree) \/ GivenAway)
<1>1. HolderOK(installer[i], Tree, stage[i].aside, GivenAway)
  BY InHand
<1>2. installer[i].before = <<>>
  BY <1>1 DEF HolderOK, Forward, Backward
<1> QED
  BY <1>1, <1>2 DEF HolderOK, BeforeChanges

LEMMA PrepareKeeps ==
  \A i \in Installers : ReleaseInv /\ (PrepareRelease(i) \/ PrepareFails(i)) => ReleaseInv'
<1> SUFFICES ASSUME NEW i \in Installers, ReleaseInv, PrepareRelease(i) \/ PrepareFails(i)
             PROVE  ReleaseInv'
  OBVIOUS
<1> DEFINE q == installer[i]
<1>0. q.at = "prepare"
  BY DEF PrepareRelease, PrepareFails, IAt
<1>1. /\ q \in InstallerRecords /\ Tree \in Trees /\ deployLock = {i} /\ manifest \in Contents
      /\ stage \in [Installers -> [exists : BOOLEAN, aside : [AllPaths -> Contents]]]
      /\ installer \in [Installers -> InstallerRecords]
  BY <1>0, InHand
<1>2. q.before = <<>> /\ q.journal = <<>> /\ ~q.failed /\ (IsRelease(Tree) \/ GivenAway)
  BY <1>0, Prepares
<1>3. CASE PrepareRelease(i)
  <2> DEFINE t == ReleaseFiles[q.release]
             s == Listed(manifest) \ ReleaseFiles[q.release]
             b == Tree
             r == [q EXCEPT !.at = "aside", !.todo = t, !.stale = s, !.before = b]
  <2>1. /\ installer' = [installer EXCEPT ![i] = r] /\ UNCHANGED <<Tree, deployLock>>
        /\ stage' = [stage EXCEPT ![i].exists = TRUE]
    BY <1>3 DEF PrepareRelease
  <2>2. /\ q.release \in Releases /\ t \in SUBSET Paths /\ s \in SUBSET Paths /\ b \in Trees
        /\ b[2] = manifest /\ b # <<>>
    BY <1>1, PathFacts DEF InstallerRecords, Tree
  <2> HIDE DEF t, s, b
  <2>3. /\ r \in InstallerRecords /\ r.at = "aside" /\ r.todo = t /\ r.stale = s /\ r.before = b
        /\ r.journal = <<>> /\ ~r.failed /\ r.release = q.release
    BY <1>1, <1>2, <2>2 DEF InstallerRecords, Forward
  <2> HIDE DEF r
  <2>4. /\ stage' \in [Installers -> [exists : BOOLEAN, aside : [AllPaths -> Contents]]]
        /\ stage'[i].aside = stage[i].aside
    BY <1>1, <2>1
  <2>5. Recorded(r.journal) = {}
    BY <2>3 DEF Recorded
  <2>6. JournalOK(r, Tree, stage[i].aside) /\ OthersOK(r, Tree, stage[i].aside)
    BY <2>3, <2>5 DEF JournalOK, OthersOK, b
  <2>7. ForwardOK(r, Tree)
    <3>1. StaleFiles(r) = s /\ t = ReleaseFiles[r.release]
      BY <2>2, <2>3 DEF StaleFiles, s, t
    <3> QED
      BY <2>3, <2>5, <3>1 DEF ForwardOK
  <2>8. IsRelease(r.before) \/ GivenAway
    BY <1>2, <2>3 DEF b
  <2>9. HolderOK(r, Tree, stage[i].aside, GivenAway)
    BY <2>2, <2>3, <2>6, <2>7, <2>8 DEF HolderOK, Forward
  <2> QED
    BY <1>0, <1>1, <2>1, <2>3, <2>4, <2>9, HolderMoves
<1>4. CASE PrepareFails(i)
  <2> DEFINE r == [q EXCEPT !.at = "unlock", !.outcome = "failed"]
  <2>1. installer' = [installer EXCEPT ![i] = r] /\ UNCHANGED <<Tree, deployLock, stage>>
    BY <1>4 DEF PrepareFails
  <2>2. /\ r \in InstallerRecords /\ r.at = "unlock" /\ r.outcome = "failed" /\ r.before = <<>>
        /\ r.journal = <<>> /\ ~r.failed
    BY <1>1, <1>2 DEF InstallerRecords
  <2> HIDE DEF r
  <2>3. HolderOK(r, Tree, stage[i].aside, GivenAway)
    BY <1>2, <2>2 DEF HolderOK, BeforeChanges
  <2> QED
    BY <1>0, <1>1, <2>1, <2>2, <2>3, HolderMoves
<1> QED
  BY <1>3, <1>4

LEMMA InitReleaseInv == ReleaseInit => ReleaseInv
<1> SUFFICES ASSUME ReleaseInit PROVE ReleaseInv
  OBVIOUS
<1>1. 1 \in Releases /\ 1 \in Contents /\ 0 \in Contents /\ 1 # 0
  BY ReleaseAssumption DEF ReleaseAssumption, Contents
<1>2. live \in [Paths -> Contents] /\ manifest \in Contents
  BY <1>1 DEF ReleaseInit
<1>3. Tree \in Trees
  BY <1>2 DEF Tree, Trees
<1>4. NotStarted \in InstallerRecords
  BY <1>1 DEF NotStarted, InstallerRecords
<1>5. NoStage \in [exists : BOOLEAN, aside : [AllPaths -> Contents]]
  BY <1>1 DEF NoStage, AllPaths
<1>6. ReleaseTypes
  BY <1>3, <1>4, <1>5 DEF ReleaseInit, ReleaseTypes
<1>7. Whole
  BY <1>1 DEF Whole, IsRelease, Tree, ReleaseInit
<1>8. \A i \in Installers : installer[i] = NotStarted /\ installer[i].at = "new" /\ deployLock = {}
  BY DEF ReleaseInit, NotStarted
<1>9. \A i \in Installers : deployLock # {i}
  BY <1>8
<1> QED
  BY <1>6, <1>7, <1>8, <1>9 DEF ReleaseInv, ReleaseInit, IAt

LEMMA NextReleaseInv == ReleaseInv /\ [ReleaseNext]_releaseVars => ReleaseInv'
<1> SUFFICES ASSUME ReleaseInv, [ReleaseNext]_releaseVars PROVE ReleaseInv'
  OBVIOUS
<1>1. CASE UNCHANGED releaseVars
  BY <1>1 DEF releaseVars, ReleaseInv, ReleaseTypes, Tree, Whole, GivenAway, IAt
<1>2. ASSUME NEW i \in Installers, \E v \in Releases : TakeLock(i, v) PROVE ReleaseInv'
  BY <1>2, TakeLockKeeps
<1>3. ASSUME NEW i \in Installers,
             \/ PrepareRelease(i) \/ PrepareFails(i) \/ MoveAside(i) \/ PublishFile(i)
             \/ PublishFailsLate(i) \/ MoveStale(i) \/ MoveManifest(i) \/ PublishManifest(i)
      PROVE  ReleaseInv'
  BY <1>3, PrepareKeeps, MoveAsideKeeps, PublishFileKeeps, PublishFailsLateKeeps, MoveStaleKeeps,
     MoveManifestKeeps, PublishManifestKeeps
<1>4. ASSUME NEW i \in Installers,
             \/ Verify(i) \/ PublishStepFails(i) \/ UndoPublish(i) \/ PutBack(i) \/ UndoFails(i)
             \/ RolledBack(i) \/ Root(i) \/ RootFails(i)
      PROVE  ReleaseInv'
  BY <1>4, VerifyKeeps, PublishStepFailsKeeps, UndoPublishKeeps, PutBackKeeps, UndoFailsKeeps,
     RolledBackKeeps, RootKeeps
<1>5. ASSUME NEW i \in Installers, UnlockDeploy(i) \/ KillInstaller(i) \/ RecoverRelease(i)
      PROVE  ReleaseInv'
  BY <1>5, UnlockDeployKeeps, KillInstallerKeeps, RecoverReleaseKeeps
<1> QED
  BY <1>1, <1>2, <1>3, <1>4, <1>5 DEF ReleaseNext

LEMMA ReleaseInvIsEnough == ReleaseInv => ReleaseIsSafe
<1> SUFFICES ASSUME ReleaseInv PROVE ReleaseIsSafe
  OBVIOUS
<1>1. WholeOrLocked
  BY DEF ReleaseInv, WholeOrLocked, GivenAway
<1>2. ASSUME NEW i \in Installers, i \in deployLock, installer[i].before # <<>>,
             IsRelease(installer[i].before)
      PROVE  /\ IAt(i, "unlock") /\ installer[i].outcome = "failed" => Tree = installer[i].before
             /\ ~Whole => \A p \in Paths :
                  installer[i].before[1][p] # 0 =>
                    installer[i].before[1][p] \in {live[p], stage[i].aside[p]}
  <2> DEFINE q == installer[i]
  <2>1. HolderOK(q, Tree, stage[i].aside, GivenAway) /\ q \in InstallerRecords
    BY <1>2 DEF ReleaseInv, ReleaseTypes
  <2>2. IAt(i, "unlock") /\ q.outcome = "failed" => Tree = q.before
    BY <1>2, <2>1 DEF HolderOK, OutcomeOK, IAt
  <2>3. Tree[1] = live
    BY DEF Tree
  <2>4. CASE q.at \in Forward \cup Backward
    <3>1. JournalOK(q, Tree, stage[i].aside) /\ OthersOK(q, Tree, stage[i].aside)
      BY <2>4, AtWork
    <3>2. \A p \in Paths : q.before[1][p] # 0 => q.before[1][p] \in {Tree[1][p], stage[i].aside[p]}
      BY <2>1, <3>1, KeptAtWork
    <3> QED
      BY <2>2, <2>3, <3>2
  <2>5. CASE q.at \notin Forward \cup Backward
    <3>1. KeptOK(q, Tree, stage[i].aside)
      BY <1>2, <2>1, <2>5 DEF HolderOK
    <3> QED
      BY <1>2, <2>2, <2>3, <3>1 DEF KeptOK, Whole
  <2> QED
    BY <2>4, <2>5
<1>3. PreviousReleaseIsKept
  BY <1>2 DEF PreviousReleaseIsKept
<1> QED
  BY <1>1, <1>3 DEF ReleaseIsSafe

\* Without a lock the deployment root holds one whole release, but for a failing
\* chmod of the root after a failed restoration; a run that says it failed has
\* changed nothing; and while the tree is mixed every file of the previous release
\* is in its place or staged.
THEOREM ReleasesStaySafe == ReleaseSpec => []ReleaseIsSafe
<1> QED
  BY InitReleaseInv, NextReleaseInv, ReleaseInvIsEnough, PTL DEF ReleaseSpec

(***************************************************************************)
(* Commands on a host                                                      *)
(***************************************************************************)

\* Commands of one operator, on a host whose earlier layout gave each vault one
\* instance.
OneOperator == \A o, p \in Operators : o = p
OneLegacyEach == \A i, k \in Legacy : VaultOf[i] = VaultOf[k] => i = k

HostNames == {"wrapper", "env", "client", "service", "timer", "manifest", "marker"}
HostFiles == (Instances \cup {"host"}) \X HostNames
CommandKinds == {"install", "adopt", "run", "enable", "disable", "uninstall"}
HostChange == [made : BOOLEAN, file : HostFiles]
Commands ==
  [kind : CommandKinds, inst : Instances, at : Nat \ {0}, undo : Seq(HostChange),
   failing : BOOLEAN, had : BOOLEAN, previous : BOOLEAN, before : SUBSET HostFiles]

HostTypeOK ==
  /\ files \subseteq HostFiles
  /\ timers \subseteq Instances
  /\ command \in [Operators -> Commands \cup {Resting}]

\* An instance claims its vault with an environment file, a timer unit or a timer
\* that runs.
Claims(i, fs, ts) == File(i, "env") \in fs \/ File(i, "timer") \in fs \/ i \in ts
ClaimsDiffer(fs, ts) ==
  \A i, k \in Instances :
    Claims(i, fs, ts) /\ Claims(k, fs, ts) /\ VaultOf[i] = VaultOf[k] => i = k

LegacyServed(fs) == \A i \in Legacy : File(i, "env") \in fs /\ File(i, "wrapper") \in fs

\* The command's instance is the only one that claims its vault, or has no claim
\* and gets none: it is not being installed, and there is none to restore.
SoleClaim(c, fs, ts) ==
  \/ \A k \in Instances \ {c.inst} : VaultOf[k] = VaultOf[c.inst] => ~Claims(k, fs, ts)
  \/ /\ c.kind # "install"
     /\ ~Claims(c.inst, fs, ts)
     /\ ~c.previous /\ ~Claims(c.inst, c.before, {})

Touched(c) == {c.undo[n].file : n \in DOMAIN c.undo}

\* Undoing what is listed gives the files of before, unless something could not be
\* undone.
UndoOK(c, fs, unf) ==
  /\ \A m, n \in DOMAIN c.undo : c.undo[m].file = c.undo[n].file => m = n
  /\ \A n \in DOMAIN c.undo :
       /\ c.undo[n].made => c.undo[n].file \in fs /\ c.undo[n].file \notin c.before
       /\ ~c.undo[n].made => c.undo[n].file \notin fs /\ c.undo[n].file \in c.before
       /\ c.undo[n].made <=> c.kind \notin {"disable", "uninstall"}
       /\ \E name \in HostNames : c.undo[n].file = File(c.inst, name)
  /\ ~c.failing \/ c.inst \notin unf => c.before \ Touched(c) = fs \ Touched(c)

CommandOK(c, fs, ts, unf) ==
  /\ c.at \in 1..Len(StepsOf(c))
  /\ c.inst \in Legacy => c.kind # "install"
  /\ LegacyServed(c.before)
  /\ SoleClaim(c, fs, ts)
  /\ UndoOK(c, fs, unf)

HostInv ==
  /\ HostTypeOK
  /\ ClaimsDiffer(files, timers)
  /\ LegacyServed(files)
  /\ \A o \in Operators : command[o] # Resting => CommandOK(command[o], files, timers, unfinished)

LEMMA FileIs ==
  /\ \A i \in Instances, name \in HostNames : File(i, name) \in HostFiles
  /\ \A i, k : \A name \in HostNames \ {"wrapper"}, other \in HostNames :
       File(i, name) = File(k, other) => i = k /\ name = other
<1>1. \A i \in Instances, name \in HostNames : File(i, name) \in HostFiles
  BY DEF File, HostFiles, HostNames
<1>2. \A i, k : \A name \in HostNames \ {"wrapper"}, other \in HostNames :
       File(i, name) = File(k, other) => i = k /\ name = other
  BY DEF File, HostNames
<1> QED  BY <1>1, <1>2

LEMMA StepFacts ==
  ASSUME NEW c \in Commands, NEW n \in 1..Len(StepsOf(c))
  PROVE  /\ StepsOf(c)[n].do \in {"write", "remove", "systemctl"}
         /\ StepsOf(c)[n].do = "write" =>
              /\ StepsOf(c)[n].what \in HostNames
              /\ c.kind \in {"install", "adopt", "run", "enable"}
              /\ c.kind # "install" => StepsOf(c)[n].what \in {"manifest", "marker"}
         /\ StepsOf(c)[n].do = "remove" =>
              /\ StepsOf(c)[n].what \in HostNames \ {"wrapper"}
              /\ c.kind \in {"disable", "uninstall"} \/ (c.kind = "run" /\ n = Len(StepsOf(c)))
              /\ c.inst \in Legacy => StepsOf(c)[n].what # "env"
         /\ StepsOf(c)[n].do = "systemctl" =>
              /\ StepsOf(c)[n].what = "enable" => c.kind = "enable"
              /\ StepsOf(c)[n].what = "disable" => n # Len(StepsOf(c))
<1>1. c.kind \in CommandKinds /\ c.had \in BOOLEAN
  BY DEF Commands
<1>2. CASE c.kind = "install"
  BY <1>2 DEF StepsOf, W, R, Systemctl, HostNames
<1>3. CASE c.kind = "adopt"
  BY <1>3 DEF StepsOf, W, R, Systemctl, HostNames
<1>4. CASE c.kind = "run" /\ c.had
  BY <1>4 DEF StepsOf, W, R, Systemctl, HostNames
<1>5. CASE c.kind = "run" /\ ~c.had
  BY <1>5 DEF StepsOf, W, R, Systemctl, HostNames
<1>6. CASE c.kind = "enable"
  BY <1>6 DEF StepsOf, W, R, Systemctl, HostNames
<1>7. CASE c.kind = "disable"
  BY <1>7 DEF StepsOf, W, R, Systemctl, HostNames
<1>8. CASE c.kind = "uninstall" /\ c.inst \in Legacy
  BY <1>8 DEF StepsOf, W, R, Systemctl, HostNames
<1>9. CASE c.kind = "uninstall" /\ c.inst \notin Legacy
  BY <1>9 DEF StepsOf, W, R, Systemctl, HostNames
<1> QED  BY <1>1, <1>2, <1>3, <1>4, <1>5, <1>6, <1>7, <1>8, <1>9 DEF CommandKinds

\* Only one operator has a command.
LEMMA HostFrame ==
  ASSUME OneOperator, HostInv, NEW o \in Operators, NEW X,
         command' = [command EXCEPT ![o] = X],
         files' \subseteq HostFiles, timers' \subseteq Instances,
         ClaimsDiffer(files', timers'), LegacyServed(files'),
         X = Resting \/ (X \in Commands /\ CommandOK(X, files', timers', unfinished'))
  PROVE  HostInv'
<1>1. command' \in [Operators -> Commands \cup {Resting}] /\ command'[o] = X
  BY DEF HostInv, HostTypeOK
<1>2. \A p \in Operators : command'[p] = X
  BY <1>1 DEF OneOperator
<1>3. HostTypeOK'
  BY <1>1 DEF HostTypeOK
<1>4. ClaimsDiffer(files, timers)' /\ LegacyServed(files)'
  BY DEF ClaimsDiffer, LegacyServed, Claims
<1>5. \A p \in Operators : command'[p] # Resting =>
        CommandOK(command'[p], files', timers', unfinished')
  BY <1>2
<1> QED  BY <1>3, <1>4, <1>5 DEF HostInv

\* What a command may do to the claims: nothing to those of others, and no claim
\* for an instance that has none, now or to restore.
ClaimsMove(c, fs, ts, fs2, ts2) ==
  /\ \A k \in Instances \ {c.inst} : Claims(k, fs2, ts2) => Claims(k, fs, ts)
  /\ \/ c.kind = "install" \/ Claims(c.inst, fs, ts)
     \/ c.previous \/ Claims(c.inst, c.before, {})
     \/ ~Claims(c.inst, fs2, ts2)

SameCommand(c, X) ==
  X.inst = c.inst /\ X.kind = c.kind /\ X.previous = c.previous /\ X.before = c.before

LEMMA ClaimsStep ==
  ASSUME NEW c, NEW fs, NEW ts, NEW fs2, NEW ts2, NEW X,
         c.inst \in Instances, ClaimsDiffer(fs, ts), SoleClaim(c, fs, ts),
         ClaimsMove(c, fs, ts, fs2, ts2), SameCommand(c, X)
  PROVE  ClaimsDiffer(fs2, ts2) /\ SoleClaim(X, fs2, ts2)
<1>1. CASE \A k \in Instances \ {c.inst} : VaultOf[k] = VaultOf[c.inst] => ~Claims(k, fs, ts)
  <2>1. \A k \in Instances \ {c.inst} : VaultOf[k] = VaultOf[c.inst] => ~Claims(k, fs2, ts2)
    BY <1>1 DEF ClaimsMove
  <2>2. \A k \in Instances \ {c.inst} : Claims(k, fs2, ts2) => Claims(k, fs, ts)
    BY DEF ClaimsMove
  <2>3. ClaimsDiffer(fs2, ts2)
    BY <2>1, <2>2 DEF ClaimsDiffer
  <2> QED  BY <2>1, <2>3 DEF SoleClaim, SameCommand
<1>2. CASE /\ c.kind # "install" /\ ~Claims(c.inst, fs, ts)
           /\ ~c.previous /\ ~Claims(c.inst, c.before, {})
  <2>1. ~Claims(c.inst, fs2, ts2)
    BY <1>2 DEF ClaimsMove
  <2>2. \A k \in Instances \ {c.inst} : Claims(k, fs2, ts2) => Claims(k, fs, ts)
    BY DEF ClaimsMove
  <2>3. ClaimsDiffer(fs2, ts2)
    BY <2>1, <2>2 DEF ClaimsDiffer
  <2> QED  BY <1>2, <2>1, <2>3 DEF SoleClaim, SameCommand
<1> QED  BY <1>1, <1>2 DEF SoleClaim

\* A change of one file of an instance leaves the claims of the others.
LEMMA OthersClaim ==
  ASSUME NEW i \in Instances, NEW name \in HostNames, NEW fs, NEW fs2, NEW ts, NEW ts2,
         fs2 \subseteq fs \cup {File(i, name)}, ts2 \subseteq ts \cup {i}
  PROVE  \A k \in Instances \ {i} : Claims(k, fs2, ts2) => Claims(k, fs, ts)
<1>1. \A k \in Instances \ {i} : File(k, "env") # File(i, name) /\ File(k, "timer") # File(i, name)
  BY FileIs DEF HostNames
<1> QED  BY <1>1 DEF Claims

LEMMA Busy ==
  ASSUME HostInv, NEW o \in Operators, command[o].kind # "none"
  PROVE  /\ command[o] \in Commands
         /\ CommandOK(command[o], files, timers, unfinished)
<1>1. command[o] # Resting
  BY DEF Resting
<1> QED  BY <1>1 DEF HostInv, HostTypeOK

\* A file that is written is new to the undo list, as is one that is removed.
LEMMA UndoGrows ==
  ASSUME NEW c \in Commands, NEW fs, NEW unf, UndoOK(c, fs, unf),
         NEW name \in HostNames, NEW made \in BOOLEAN, NEW fs2,
         made <=> c.kind \notin {"disable", "uninstall"},
         IF made THEN File(c.inst, name) \notin fs /\ fs2 = fs \cup {File(c.inst, name)}
                 ELSE File(c.inst, name) \in fs /\ fs2 = fs \ {File(c.inst, name)},
         NEW X \in Commands, X.undo = Append(c.undo, [made |-> made, file |-> File(c.inst, name)]),
         X.inst = c.inst, X.kind = c.kind, X.before = c.before,
         ~c.failing
  PROVE  UndoOK(X, fs2, unf)
<1> DEFINE f == File(c.inst, name)
<1>1. c.undo \in Seq(HostChange) /\ f \in HostFiles
  BY FileIs DEF Commands
<1>2. /\ Len(X.undo) = Len(c.undo) + 1
      /\ \A n \in 1..Len(c.undo) : X.undo[n] = c.undo[n]
      /\ X.undo[Len(c.undo) + 1] = [made |-> made, file |-> f]
  BY <1>1
<1>3. DOMAIN X.undo = DOMAIN c.undo \cup {Len(c.undo) + 1} /\ DOMAIN c.undo = 1..Len(c.undo)
      /\ Len(c.undo) \in Nat
  BY <1>1, <1>2, X.undo \in Seq(HostChange) DEF Commands
<1>4. \A n \in DOMAIN c.undo : c.undo[n].file # f
  BY DEF UndoOK
<1>5. \A m, n \in DOMAIN X.undo : X.undo[m].file = X.undo[n].file => m = n
  BY <1>2, <1>3, <1>4 DEF UndoOK
<1> HIDE DEF f
<1>5a. Touched(X) = Touched(c) \cup {f}
  BY <1>2, <1>3 DEF Touched
<1>6. ASSUME NEW n \in DOMAIN X.undo
      PROVE  /\ X.undo[n].made => X.undo[n].file \in fs2 /\ X.undo[n].file \notin X.before
             /\ ~X.undo[n].made => X.undo[n].file \notin fs2 /\ X.undo[n].file \in X.before
             /\ X.undo[n].made <=> X.kind \notin {"disable", "uninstall"}
             /\ \E other \in HostNames : X.undo[n].file = File(X.inst, other)
  <2>1. CASE n \in DOMAIN c.undo
    BY <2>1, <1>2, <1>3, <1>4 DEF UndoOK, f
  <2>2. CASE n = Len(c.undo) + 1
    <3>1. f \notin Touched(c)
      BY <1>4 DEF Touched, f
    <3>2. f \in fs <=> f \in c.before
      BY <3>1 DEF UndoOK
    <3>3. X.undo[n].made = made /\ X.undo[n].file = f
      BY <2>2, <1>2
    <3> QED  BY <3>2, <3>3 DEF f
  <2> QED  BY <2>1, <2>2, <1>3
<1>7. X.before \ Touched(X) = fs2 \ Touched(X)
  <2>1. c.before \ Touched(c) = fs \ Touched(c)
    BY DEF UndoOK
  <2> QED  BY <2>1, <1>5a DEF f
<1> QED  BY <1>5, <1>6, <1>7 DEF UndoOK

NextStepOf(c, undo) == [c EXCEPT !.at = c.at + 1, !.undo = undo]

LEMMA NextStepIs ==
  ASSUME NEW c \in Commands, NEW undo \in Seq(HostChange)
  PROVE  /\ NextStepOf(c, undo) \in Commands /\ SameCommand(c, NextStepOf(c, undo))
         /\ NextStepOf(c, undo).undo = undo /\ NextStepOf(c, undo).at = c.at + 1
         /\ NextStepOf(c, undo).failing = c.failing
         /\ StepsOf(NextStepOf(c, undo)) = StepsOf(c)
<1>1. /\ NextStepOf(c, undo) \in Commands /\ SameCommand(c, NextStepOf(c, undo))
      /\ NextStepOf(c, undo).undo = undo /\ NextStepOf(c, undo).at = c.at + 1
      /\ NextStepOf(c, undo).failing = c.failing /\ NextStepOf(c, undo).had = c.had
  <2>1. PICK d : d = [c EXCEPT !.at = c.at + 1]
    OBVIOUS
  <2>2. d \in Commands /\ SameCommand(c, d) /\ d.at = c.at + 1 /\ d.failing = c.failing
        /\ d.had = c.had
    <3>1. c.at + 1 \in Nat \ {0}
      BY DEF Commands
    <3>2. d \in Commands
      BY <2>1, <3>1 DEF Commands
    <3> QED  BY <2>1, <3>2 DEF Commands, SameCommand
  <2>3. NextStepOf(c, undo) = [d EXCEPT !.undo = undo]
    BY <2>1 DEF NextStepOf
  <2> QED  BY <2>2, <2>3 DEF Commands, SameCommand
<1> QED  BY <1>1 DEF StepsOf, SameCommand

\* A step is done: what is left to show of the next one.
LEMMA Advanced ==
  ASSUME NEW c \in Commands, NEW undo \in Seq(HostChange),
         NEW fs, NEW ts, NEW unf, NEW fs2, NEW ts2,
         CommandOK(c, fs, ts, unf), c.at # Len(StepsOf(c)),
         ClaimsDiffer(fs, ts), ClaimsMove(c, fs, ts, fs2, ts2), UndoOK(NextStepOf(c, undo), fs2, unf)
  PROVE  CommandOK(NextStepOf(c, undo), fs2, ts2, unf)
<1> DEFINE next == NextStepOf(c, undo)
<1>1. next \in Commands /\ SameCommand(c, next) /\ next.at = c.at + 1 /\ StepsOf(next) = StepsOf(c)
  BY NextStepIs
<1> HIDE DEF next
<1>2. SoleClaim(next, fs2, ts2)
  BY <1>1, ClaimsStep DEF CommandOK, Commands
<1>3. next.at \in 1..Len(StepsOf(next))
  BY <1>1 DEF CommandOK, Commands
<1> QED  BY <1>1, <1>2, <1>3 DEF CommandOK, SameCommand, next

LEMMA WriteFileKeeps ==
  ASSUME OneOperator, HostInv, NEW o \in Operators, WriteFile(o)
  PROVE  HostInv'
<1> DEFINE name == What(o)
           f == Subject(o)
<1>0. PICK c : c = command[o]
  OBVIOUS
<1>1. c \in Commands /\ CommandOK(c, files, timers, unfinished) /\ ~c.failing
  BY <1>0, Busy DEF WriteFile, Doing
<1>2. /\ name \in HostNames
      /\ c.kind \in {"install", "adopt", "run", "enable"}
      /\ c.kind # "install" => name \in {"manifest", "marker"}
  BY <1>0, <1>1, StepFacts DEF WriteFile, Doing, What, CommandOK
<1>3. f = File(c.inst, name) /\ f \in HostFiles /\ c.inst \in Instances
  BY <1>0, <1>1, <1>2, FileIs DEF Subject, Commands
<1>4. PICK undo : undo = IF f \in files THEN c.undo ELSE Append(c.undo, [made |-> TRUE, file |-> f])
  OBVIOUS
<1>5. undo \in Seq(HostChange)
  <2>1. c.undo \in Seq(HostChange) /\ [made |-> TRUE, file |-> f] \in HostChange
    BY <1>1, <1>3 DEF Commands, HostChange
  <2> HIDE DEF f
  <2> QED  BY <1>4, <2>1
<1>6. PICK X : X = IF c.at = Len(StepsOf(c)) THEN Resting ELSE NextStepOf(c, undo)
  OBVIOUS
<1>7. /\ command' = [command EXCEPT ![o] = X]
      /\ files' = files \cup {f} /\ timers' = timers
      /\ c.at = Len(StepsOf(c)) \/ unfinished' = unfinished
  <2>1. c.at = Len(StepsOf(c)) \/ unfinished' = unfinished
    BY <1>0 DEF WriteFile, Done
  <2> QED  BY <1>0, <1>4, <1>6, <2>1 DEF WriteFile, Advance, NextStepOf
<1> HIDE DEF f, name
<1>8. files' \subseteq HostFiles /\ timers' \subseteq Instances /\ LegacyServed(files')
  BY <1>3, <1>7 DEF HostInv, HostTypeOK, LegacyServed
<1>9. ClaimsMove(c, files, timers, files', timers')
  <2>1. \A k \in Instances \ {c.inst} : Claims(k, files', timers') => Claims(k, files, timers)
    BY <1>2, <1>3, <1>7, OthersClaim
  <2>2. CASE c.kind # "install"
    <3>1. File(c.inst, "env") # f /\ File(c.inst, "timer") # f
      BY <1>2, <1>3, <2>2, FileIs DEF HostNames
    <3> QED  BY <2>1, <3>1, <1>7 DEF ClaimsMove, Claims
  <2> QED  BY <2>1, <2>2 DEF ClaimsMove
<1>10. ClaimsDiffer(files, timers) /\ SoleClaim(c, files, timers) /\ UndoOK(c, files, unfinished)
  BY <1>1 DEF HostInv, CommandOK
<1>11. ClaimsDiffer(files', timers')
  BY <1>3, <1>9, <1>10, ClaimsStep DEF SameCommand
<1>12. PICK next : next = NextStepOf(c, undo)
  OBVIOUS
<1>13. next \in Commands /\ SameCommand(c, next) /\ next.undo = undo /\ next.failing = c.failing
  BY <1>1, <1>5, <1>12, NextStepIs
<1>14. UndoOK(next, files', unfinished)
  <2>1. CASE f \in files
    <3>1. undo = c.undo /\ files' = files
      BY <2>1, <1>4, <1>7
    <3>2. Touched(next) = Touched(c)
      BY <3>1, <1>13 DEF Touched
    <3> QED  BY <1>10, <3>1, <3>2, <1>13 DEF UndoOK, SameCommand
  <2>2. CASE f \notin files
    <3>1. undo = Append(c.undo, [made |-> TRUE, file |-> f])
      BY <2>2, <1>4
    <3> QED  BY <1>10, <2>2, <3>1, <1>1, <1>2, <1>3, <1>7, <1>13, UndoGrows DEF SameCommand
  <2> QED  BY <2>1, <2>2
<1>15. X = Resting \/ (X \in Commands /\ CommandOK(X, files', timers', unfinished'))
  BY <1>1, <1>5, <1>6, <1>7, <1>9, <1>10, <1>12, <1>13, <1>14, Advanced
<1> QED  BY <1>7, <1>8, <1>11, <1>15, HostFrame

LEMMA RemoveFileKeeps ==
  ASSUME OneOperator, HostInv, NEW o \in Operators, RemoveFile(o)
  PROVE  HostInv'
<1> DEFINE name == What(o)
           f == Subject(o)
<1>0. PICK c : c = command[o]
  OBVIOUS
<1>1. c \in Commands /\ CommandOK(c, files, timers, unfinished) /\ ~c.failing
  BY <1>0, Busy DEF RemoveFile, Doing
<1>2. /\ name \in HostNames \ {"wrapper"}
      /\ c.kind \in {"disable", "uninstall"} \/ c.at = Len(StepsOf(c))
      /\ c.inst \in Legacy => name # "env"
  BY <1>0, <1>1, StepFacts DEF RemoveFile, Doing, What, CommandOK
<1>3. f = File(c.inst, name) /\ f \in HostFiles /\ c.inst \in Instances
  BY <1>0, <1>1, <1>2, FileIs DEF Subject, Commands
<1>4. PICK undo : undo = IF f \notin files THEN c.undo ELSE Append(c.undo, [made |-> FALSE, file |-> f])
  OBVIOUS
<1>5. undo \in Seq(HostChange)
  <2>1. c.undo \in Seq(HostChange) /\ [made |-> FALSE, file |-> f] \in HostChange
    BY <1>1, <1>3 DEF Commands, HostChange
  <2> HIDE DEF f
  <2> QED  BY <1>4, <2>1
<1>6. PICK X : X = IF c.at = Len(StepsOf(c)) THEN Resting ELSE NextStepOf(c, undo)
  OBVIOUS
<1>7. /\ command' = [command EXCEPT ![o] = X]
      /\ files' = files \ {f} /\ timers' = timers
      /\ c.at = Len(StepsOf(c)) \/ unfinished' = unfinished
  <2>1. c.at = Len(StepsOf(c)) \/ unfinished' = unfinished
    BY <1>0 DEF RemoveFile, Done
  <2> QED  BY <1>0, <1>4, <1>6, <2>1 DEF RemoveFile, Advance, NextStepOf
<1> HIDE DEF f, name
<1>8. files' \subseteq HostFiles /\ timers' \subseteq Instances
  BY <1>7 DEF HostInv, HostTypeOK
<1>8a. LegacyServed(files')
  <2> SUFFICES ASSUME NEW i \in Legacy
               PROVE  File(i, "env") # f /\ File(i, "wrapper") # f
    BY <1>7 DEF HostInv, LegacyServed
  <2>1. "env" \in HostNames /\ "wrapper" \in HostNames
    BY DEF HostNames
  <2>2. f = File(i, "env") => c.inst = i /\ name = "env"
    BY <1>2, <1>3, <2>1, FileIs
  <2>3. f # File(i, "wrapper")
    BY <1>2, <1>3, <2>1, FileIs
  <2> QED  BY <1>2, <2>2, <2>3
<1>9. ClaimsMove(c, files, timers, files', timers')
  BY <1>7 DEF ClaimsMove, Claims
<1>10. ClaimsDiffer(files, timers) /\ SoleClaim(c, files, timers) /\ UndoOK(c, files, unfinished)
  BY <1>1 DEF HostInv, CommandOK
<1>11. ClaimsDiffer(files', timers')
  BY <1>3, <1>9, <1>10, ClaimsStep DEF SameCommand
<1>12. PICK next : next = NextStepOf(c, undo)
  OBVIOUS
<1>13. next \in Commands /\ SameCommand(c, next) /\ next.undo = undo /\ next.failing = c.failing
  BY <1>1, <1>5, <1>12, NextStepIs
<1>14. c.at # Len(StepsOf(c)) => UndoOK(next, files', unfinished)
  <2> SUFFICES ASSUME c.kind \in {"disable", "uninstall"} PROVE UndoOK(next, files', unfinished)
    BY <1>2
  <2>1. CASE f \notin files
    <3>1. undo = c.undo /\ files' = files
      BY <2>1, <1>4, <1>7
    <3>2. Touched(next) = Touched(c)
      BY <3>1, <1>13 DEF Touched
    <3> QED  BY <1>10, <3>1, <3>2, <1>13 DEF UndoOK, SameCommand
  <2>2. CASE f \in files
    <3>1. undo = Append(c.undo, [made |-> FALSE, file |-> f])
      BY <2>2, <1>4
    <3> QED  BY <1>10, <2>2, <3>1, <1>1, <1>2, <1>3, <1>7, <1>13, UndoGrows DEF SameCommand
  <2> QED  BY <2>1, <2>2
<1>15. X = Resting \/ (X \in Commands /\ CommandOK(X, files', timers', unfinished'))
  BY <1>1, <1>5, <1>6, <1>7, <1>9, <1>10, <1>12, <1>13, <1>14, Advanced
<1> QED  BY <1>7, <1>8, <1>8a, <1>11, <1>15, HostFrame

\* A call to systemctl that succeeds, or is counted as done.
LEMMA CallKeeps ==
  ASSUME OneOperator, HostInv, NEW o \in Operators, CallSystemctl(o) \/ DisableTolerated(o)
  PROVE  HostInv'
<1>0. PICK c : c = command[o]
  OBVIOUS
<1>1. c \in Commands /\ CommandOK(c, files, timers, unfinished) /\ ~c.failing
  BY <1>0, Busy DEF CallSystemctl, DisableTolerated, Doing
<1>2. What(o) = "enable" => c.kind = "enable"
  BY <1>0, <1>1, StepFacts DEF CallSystemctl, DisableTolerated, Doing, What, CommandOK
<1>3. c.inst \in Instances /\ c.undo \in Seq(HostChange)
  BY <1>1 DEF Commands
<1>6. PICK X : X = IF c.at = Len(StepsOf(c)) THEN Resting ELSE NextStepOf(c, c.undo)
  OBVIOUS
<1>7. /\ command' = [command EXCEPT ![o] = X]
      /\ files' = files
      /\ c.at = Len(StepsOf(c)) \/ unfinished' = unfinished
  <2>1. c.at = Len(StepsOf(c)) \/ unfinished' = unfinished
    BY <1>0 DEF CallSystemctl, DisableTolerated, Done
  <2> QED  BY <1>0, <1>6, <2>1 DEF CallSystemctl, DisableTolerated, Advance, NextStepOf
<1>7a. \/ timers' \subseteq timers
       \/ timers' = timers \cup {c.inst} /\ What(o) = "enable" /\ UnitExists(o)
  BY <1>0 DEF CallSystemctl, DisableTolerated
<1>8. files' \subseteq HostFiles /\ timers' \subseteq Instances /\ LegacyServed(files')
  BY <1>3, <1>7, <1>7a DEF HostInv, HostTypeOK
<1>9. ClaimsMove(c, files, timers, files', timers')
  <2>1. CASE timers' \subseteq timers
    BY <2>1, <1>7 DEF ClaimsMove, Claims
  <2>2. CASE timers' = timers \cup {c.inst} /\ What(o) = "enable" /\ UnitExists(o)
    <3>1. Claims(c.inst, files, timers)
      BY <2>2, <1>0 DEF UnitExists, Claims, Has, HostInv, LegacyServed
    <3> QED  BY <2>2, <3>1, <1>7 DEF ClaimsMove, Claims
  <2> QED  BY <2>1, <2>2, <1>7a
<1>10. ClaimsDiffer(files, timers) /\ SoleClaim(c, files, timers) /\ UndoOK(c, files, unfinished)
  BY <1>1 DEF HostInv, CommandOK
<1>11. ClaimsDiffer(files', timers')
  BY <1>3, <1>9, <1>10, ClaimsStep DEF SameCommand
<1>12. PICK next : next = NextStepOf(c, c.undo)
  OBVIOUS
<1>13. next \in Commands /\ SameCommand(c, next) /\ next.undo = c.undo /\ next.failing = c.failing
  BY <1>1, <1>3, <1>12, NextStepIs
<1>14. UndoOK(next, files', unfinished)
  <2>1. Touched(next) = Touched(c)
    BY <1>13 DEF Touched
  <2> QED  BY <1>10, <2>1, <1>7, <1>13 DEF UndoOK, SameCommand
<1>15. X = Resting \/ (X \in Commands /\ CommandOK(X, files', timers', unfinished'))
  BY <1>1, <1>3, <1>6, <1>7, <1>9, <1>10, <1>12, <1>13, <1>14, Advanced
<1> QED  BY <1>7, <1>8, <1>11, <1>15, HostFrame

\* A step fails: what was done is undone next.
LEMMA FailKeeps ==
  ASSUME OneOperator, HostInv, NEW o \in Operators, UnitIsMissing(o) \/ StepFails(o)
  PROVE  HostInv'
<1>0. PICK c : c = command[o]
  OBVIOUS
<1>1. c \in Commands /\ CommandOK(c, files, timers, unfinished) /\ ~c.failing
  BY <1>0, Busy DEF UnitIsMissing, StepFails, Doing
<1>2. PICK X : X = [c EXCEPT !.failing = TRUE]
  OBVIOUS
<1>3. /\ command' = [command EXCEPT ![o] = X]
      /\ files' = files /\ timers' = timers /\ unfinished' = unfinished
  BY <1>0, <1>2 DEF UnitIsMissing, StepFails
<1>4. /\ X \in Commands /\ SameCommand(c, X) /\ X.undo = c.undo /\ X.at = c.at
      /\ X.had = c.had
  <2>1. X \in Commands
    BY <1>1, <1>2 DEF Commands
  <2> QED  BY <2>1, <1>1, <1>2 DEF Commands, SameCommand
<1>5. StepsOf(X) = StepsOf(c)
  BY <1>4 DEF StepsOf, SameCommand
<1>6. Touched(X) = Touched(c)
  BY <1>4 DEF Touched
<1>7. UndoOK(X, files, unfinished)
  BY <1>1, <1>4, <1>6 DEF UndoOK, SameCommand, CommandOK
<1>8. SoleClaim(X, files, timers)
  BY <1>1, <1>4 DEF CommandOK, SoleClaim, SameCommand
<1>9. CommandOK(X, files', timers', unfinished')
  BY <1>1, <1>3, <1>4, <1>5, <1>7, <1>8 DEF CommandOK, SameCommand
<1>10. /\ files' \subseteq HostFiles /\ timers' \subseteq Instances
       /\ ClaimsDiffer(files', timers') /\ LegacyServed(files')
  BY <1>3 DEF HostInv, HostTypeOK
<1> QED  BY <1>3, <1>4, <1>9, <1>10, HostFrame

\* The list of what is left to undo, without its last entry.
LEMMA UndoShrinks ==
  ASSUME NEW c \in Commands, c.undo # <<>>
  PROVE  LET n == Len(c.undo)
             rest == SubSeq(c.undo, 1, n - 1)
         IN /\ n \in DOMAIN c.undo /\ c.undo[n] \in HostChange
            /\ rest \in Seq(HostChange)
            /\ DOMAIN c.undo = DOMAIN rest \cup {n} /\ n \notin DOMAIN rest
            /\ \A m \in DOMAIN rest : rest[m] = c.undo[m]
<1>1. c.undo \in Seq(HostChange) /\ Len(c.undo) \in Nat \ {0}
      /\ DOMAIN c.undo = 1..Len(c.undo)
  BY DEF Commands
<1>2. PICK n : n = Len(c.undo)
  OBVIOUS
<1>3. PICK rest : rest = SubSeq(c.undo, 1, n - 1)
  OBVIOUS
<1>4. c.undo[n] \in HostChange
  BY <1>1, <1>2
<1>5. /\ rest \in Seq(HostChange) /\ Len(rest) = n - 1
      /\ \A m \in 1..(n - 1) : rest[m] = c.undo[m]
  BY <1>1, <1>2, <1>3
<1>6. DOMAIN rest = 1..(n - 1)
  BY <1>1, <1>2, <1>5
<1> QED  BY <1>1, <1>2, <1>3, <1>4, <1>5, <1>6

LEMMA UndoStepKeeps ==
  ASSUME OneOperator, HostInv, NEW o \in Operators, UndoStep(o)
  PROVE  HostInv'
<1>0. PICK c : c = command[o]
  OBVIOUS
<1>1. c \in Commands /\ CommandOK(c, files, timers, unfinished) /\ c.failing /\ c.undo # <<>>
  BY <1>0, Busy DEF UndoStep, Failing
<1>2. PICK last, rest : last = c.undo[Len(c.undo)] /\ rest = SubSeq(c.undo, 1, Len(c.undo) - 1)
  OBVIOUS
<1>3. PICK next : next = [c EXCEPT !.undo = rest]
  OBVIOUS
<1>4. /\ rest \in Seq(HostChange) /\ last \in HostChange
      /\ DOMAIN c.undo = DOMAIN rest \cup {Len(c.undo)} /\ Len(c.undo) \notin DOMAIN rest
      /\ Len(c.undo) \in DOMAIN c.undo
      /\ \A m \in DOMAIN rest : rest[m] = c.undo[m]
  BY <1>1, <1>2, UndoShrinks
<1>5. /\ next \in Commands /\ SameCommand(c, next) /\ next.undo = rest /\ next.at = c.at
      /\ next.had = c.had /\ next.failing = c.failing
  <2>1. next \in Commands
    BY <1>1, <1>3, <1>4 DEF Commands
  <2> QED  BY <2>1, <1>1, <1>3 DEF Commands, SameCommand
<1>6. StepsOf(next) = StepsOf(c)
  BY <1>5 DEF StepsOf, SameCommand
<1>7. PICK name \in HostNames : last.file = File(c.inst, name)
  BY <1>1, <1>2, <1>4 DEF CommandOK, UndoOK
<1>8. /\ last.made \in BOOLEAN
      /\ last.made => last.file \in files /\ last.file \notin c.before
      /\ ~last.made => last.file \notin files /\ last.file \in c.before
  BY <1>1, <1>2, <1>4 DEF CommandOK, UndoOK, HostChange
<1>9. Touched(c) = Touched(next) \cup {last.file} /\ last.file \notin Touched(next)
  <2>1. Touched(c) = Touched(next) \cup {last.file}
    BY <1>2, <1>4, <1>5 DEF Touched
  <2>2. \A m \in DOMAIN rest : rest[m].file # last.file
    BY <1>1, <1>2, <1>4 DEF CommandOK, UndoOK
  <2> QED  BY <2>1, <2>2, <1>5 DEF Touched
<1>10. \A fs \in {files, Undone(last)} :
         /\ \A m, n \in DOMAIN next.undo : next.undo[m].file = next.undo[n].file => m = n
         /\ \A n \in DOMAIN next.undo :
              /\ next.undo[n].made => next.undo[n].file \in fs /\ next.undo[n].file \notin next.before
              /\ ~next.undo[n].made => next.undo[n].file \notin fs /\ next.undo[n].file \in next.before
              /\ next.undo[n].made <=> next.kind \notin {"disable", "uninstall"}
              /\ \E other \in HostNames : next.undo[n].file = File(next.inst, other)
  <2>1. UndoOK(c, files, unfinished)
    BY <1>1 DEF CommandOK
  <2>2. \A m, n \in DOMAIN next.undo : next.undo[m].file = next.undo[n].file => m = n
    BY <2>1, <1>4, <1>5 DEF UndoOK
  <2>3. ASSUME NEW fs \in {files, Undone(last)}, NEW n \in DOMAIN next.undo
        PROVE  /\ next.undo[n].made => next.undo[n].file \in fs /\ next.undo[n].file \notin next.before
               /\ ~next.undo[n].made => next.undo[n].file \notin fs /\ next.undo[n].file \in next.before
               /\ next.undo[n].made <=> next.kind \notin {"disable", "uninstall"}
               /\ \E other \in HostNames : next.undo[n].file = File(next.inst, other)
    <3>1. next.undo[n] = c.undo[n] /\ n \in DOMAIN c.undo /\ next.undo[n].file # last.file
      BY <1>4, <1>5, <1>9 DEF Touched
    <3>2. next.undo[n].file \in fs <=> next.undo[n].file \in files
      BY <3>1 DEF Undone
    <3> QED  BY <2>1, <3>1, <3>2, <1>5 DEF UndoOK, SameCommand
  <2> QED  BY <2>2, <2>3
<1>11. ClaimsDiffer(files, timers) /\ SoleClaim(c, files, timers)
  BY <1>1 DEF HostInv, CommandOK
<1>12. c.inst \in Instances
  BY <1>1 DEF Commands
<1>13. CASE /\ files' = Undone(last) /\ command' = [command EXCEPT ![o] = next]
            /\ unfinished' = unfinished /\ timers' = timers
  <2>1. files' \subseteq HostFiles /\ timers' \subseteq Instances
    BY <1>4, <1>13 DEF HostInv, HostTypeOK, Undone, HostChange
  <2>2. LegacyServed(files')
    BY <1>1, <1>8, <1>13 DEF HostInv, LegacyServed, Undone, CommandOK
  <2>3. ClaimsMove(c, files, timers, files', timers')
    <3>1. CASE last.made
      BY <3>1, <1>13 DEF ClaimsMove, Claims, Undone
    <3>2. CASE ~last.made
      <4>1. files' = files \cup {File(c.inst, name)}
        BY <3>2, <1>7, <1>13 DEF Undone
      <4>2. \A k \in Instances \ {c.inst} : Claims(k, files', timers') => Claims(k, files, timers)
        BY <4>1, <1>7, <1>12, <1>13, OthersClaim
      <4>3. Claims(c.inst, files', timers') => Claims(c.inst, files, timers) \/ Claims(c.inst, c.before, {})
        BY <3>2, <4>1, <1>7, <1>8, <1>13 DEF Claims
      <4> QED  BY <4>2, <4>3 DEF ClaimsMove
    <3> QED  BY <3>1, <3>2, <1>8
  <2>4. ClaimsDiffer(files', timers') /\ SoleClaim(next, files', timers')
    BY <2>3, <1>5, <1>11, <1>12, ClaimsStep
  <2>5. next.inst \notin unfinished => next.before \ Touched(next) = files' \ Touched(next)
    <3> SUFFICES ASSUME c.inst \notin unfinished
                 PROVE  c.before \ Touched(next) = files' \ Touched(next)
      BY <1>5 DEF SameCommand
    <3>1. c.before \ Touched(c) = files \ Touched(c)
      BY <1>1 DEF CommandOK, UndoOK
    <3> QED  BY <3>1, <1>8, <1>9, <1>13 DEF Undone
  <2>6. UndoOK(next, files', unfinished)
    BY <2>5, <1>1, <1>5, <1>10, <1>13 DEF UndoOK
  <2>7. CommandOK(next, files', timers', unfinished')
    BY <2>4, <2>6, <1>1, <1>5, <1>6, <1>13 DEF CommandOK, SameCommand
  <2> QED  BY <2>1, <2>2, <2>4, <2>7, <1>5, <1>13, HostFrame
<1>14. CASE /\ files' = files /\ timers' = timers /\ unfinished' = unfinished \cup {c.inst}
            /\ \/ command' = [command EXCEPT ![o] = Resting]
               \/ command' = [command EXCEPT ![o] = next]
  <2>1. PICK X : command' = [command EXCEPT ![o] = X] /\ (X = Resting \/ X = next)
    BY <1>14
  <2>2. SoleClaim(next, files, timers)
    BY <1>5, <1>11, <1>12, ClaimsStep DEF ClaimsMove
  <2>3. UndoOK(next, files, unfinished')
    BY <1>1, <1>5, <1>10, <1>14 DEF UndoOK, SameCommand
  <2>4. CommandOK(next, files', timers', unfinished')
    BY <2>2, <2>3, <1>1, <1>5, <1>6, <1>14 DEF CommandOK, SameCommand
  <2>5. /\ files' \subseteq HostFiles /\ timers' \subseteq Instances
        /\ ClaimsDiffer(files', timers') /\ LegacyServed(files')
    BY <1>14 DEF HostInv, HostTypeOK
  <2> QED  BY <2>1, <2>4, <2>5, <1>5, HostFrame
<1> QED  BY <1>0, <1>2, <1>3, <1>13, <1>14 DEF UndoStep

LEMMA EndKeeps ==
  ASSUME OneOperator, HostInv, NEW o \in Operators, EndUndo(o) \/ KillCommand(o)
  PROVE  HostInv'
<1>0. PICK c : c = command[o]
  OBVIOUS
<1>1. c \in Commands /\ CommandOK(c, files, timers, unfinished)
  BY <1>0, Busy DEF EndUndo, KillCommand, Failing
<1>2. /\ command' = [command EXCEPT ![o] = Resting] /\ files' = files
      /\ \/ timers' \subseteq timers
         \/ timers' = timers \cup {c.inst} /\ c.previous
  BY <1>0 DEF EndUndo, KillCommand
<1>3. c.inst \in Instances
  BY <1>1 DEF Commands
<1>4. ClaimsMove(c, files, timers, files', timers')
  BY <1>2 DEF ClaimsMove, Claims
<1>5. ClaimsDiffer(files, timers) /\ SoleClaim(c, files, timers)
  BY <1>1 DEF HostInv, CommandOK
<1>6. ClaimsDiffer(files', timers')
  BY <1>3, <1>4, <1>5, ClaimsStep DEF SameCommand
<1>7. files' \subseteq HostFiles /\ timers' \subseteq Instances /\ LegacyServed(files')
  BY <1>2, <1>3 DEF HostInv, HostTypeOK
<1> QED  BY <1>2, <1>6, <1>7, HostFrame

LEMMA StartKeeps ==
  ASSUME OneOperator, HostInv, NEW o \in Operators, NEW kind \in CommandKinds,
         NEW i \in Instances, StartCommand(o, kind, i)
  PROVE  HostInv'
<1>1. PICK X : X = [kind |-> kind, inst |-> i, at |-> 1, undo |-> <<>>, failing |-> FALSE,
                    had |-> Has(i, "marker"), previous |-> i \in timers, before |-> files]
  OBVIOUS
<1>2. /\ command' = [command EXCEPT ![o] = X]
      /\ files' = files /\ timers' = timers /\ unfinished' = unfinished
      /\ MayStart(kind, i)
  BY <1>1 DEF StartCommand
<1>3. X \in Commands
  <2>1. <<>> \in Seq(HostChange) /\ files \in SUBSET HostFiles
    BY DEF HostInv, HostTypeOK
  <2>2. Has(i, "marker") \in BOOLEAN
    BY DEF Has
  <2> QED  BY <1>1, <2>1, <2>2 DEF Commands
<1>4. /\ X.kind = kind /\ X.inst = i /\ X.at = 1 /\ X.undo = <<>> /\ ~X.failing
      /\ X.previous = (i \in timers) /\ X.before = files /\ X.had \in BOOLEAN
  BY <1>1 DEF Has
<1>5. 1 \in 1..Len(StepsOf(X))
  <2>1. CASE kind \in {"install", "adopt", "enable", "disable"}
    BY <2>1, <1>4 DEF StepsOf
  <2>2. CASE kind = "run" /\ X.had
    BY <2>2, <1>4 DEF StepsOf
  <2>3. CASE kind = "run" /\ ~X.had
    BY <2>3, <1>4 DEF StepsOf
  <2>4. CASE kind = "uninstall" /\ i \in Legacy
    BY <2>4, <1>4 DEF StepsOf
  <2>5. CASE kind = "uninstall" /\ i \notin Legacy
    BY <2>5, <1>4 DEF StepsOf
  <2> QED  BY <2>1, <2>2, <2>3, <2>4, <2>5, <1>4 DEF CommandKinds
<1>6. /\ ClaimsDiffer(files, timers) /\ LegacyServed(files)
      /\ files \subseteq HostFiles /\ timers \subseteq Instances
  BY DEF HostInv, HostTypeOK
<1>7. ASSUME kind = "install"
      PROVE  /\ i \notin Legacy
             /\ \A k \in Instances : VaultOf[k] = VaultOf[i] => ~Claims(k, files, timers)
  <2>1. ~LegacyFound(i) /\ ~Unattributed /\ TimersOf(VaultOf[i]) = {}
    BY <1>2, <1>7 DEF MayStart
  <2>2. i \notin Legacy
    BY <2>1, <1>6 DEF LegacyFound, LegacyServed, Has
  <2>3. \A k \in Instances : Claims(k, files, timers) => File(k, "env") \in files
    BY <2>1 DEF Unattributed, Claims, Has
  <2>4. \A k \in Instances : File(k, "env") \in files => VaultOf[k] # VaultOf[i]
    BY <2>1 DEF TimersOf, Has
  <2> QED  BY <2>2, <2>3, <2>4
<1>8. SoleClaim(X, files, timers)
  <2>1. CASE kind = "install"
    BY <2>1, <1>4, <1>7 DEF SoleClaim
  <2>2. CASE Claims(i, files, timers)
    BY <2>2, <1>4, <1>6 DEF SoleClaim, ClaimsDiffer
  <2>3. CASE kind # "install" /\ ~Claims(i, files, timers)
    BY <2>3, <1>4 DEF SoleClaim, Claims
  <2> QED  BY <2>1, <2>2, <2>3
<1>9. UndoOK(X, files, unfinished)
  <2>1. DOMAIN X.undo = {}
    BY <1>4
  <2>2. Touched(X) = {}
    BY <2>1 DEF Touched
  <2> QED  BY <2>1, <2>2, <1>4 DEF UndoOK
<1>10. CommandOK(X, files', timers', unfinished')
  BY <1>2, <1>4, <1>5, <1>6, <1>7, <1>8, <1>9 DEF CommandOK
<1> QED  BY <1>2, <1>3, <1>6, <1>10, HostFrame

LEMMA HostStep ==
  ASSUME OneOperator, HostInv, [HostNext]_hostVars
  PROVE  HostInv'
<1>1. CASE UNCHANGED hostVars
  BY <1>1 DEF HostInv, HostTypeOK, hostVars
<1>2. ASSUME NEW o \in Operators, NEW kind \in CommandKinds, NEW i \in Instances,
             StartCommand(o, kind, i)
      PROVE  HostInv'
  BY <1>2, StartKeeps
<1>3. ASSUME NEW o \in Operators,
             \/ WriteFile(o) \/ RemoveFile(o) \/ CallSystemctl(o) \/ UnitIsMissing(o)
             \/ DisableTolerated(o)
             \/ StepFails(o) \/ UndoStep(o) \/ EndUndo(o) \/ KillCommand(o)
      PROVE  HostInv'
  BY <1>3, WriteFileKeeps, RemoveFileKeeps, CallKeeps, FailKeeps, UndoStepKeeps, EndKeeps
<1> QED  BY <1>1, <1>2, <1>3 DEF HostNext, CommandKinds

LEMMA HostStart ==
  ASSUME OneLegacyEach, HostInit
  PROVE  HostInv
<1>1. Legacy \subseteq Instances
  BY HostAssumption
<1>2. \A f : f \in files <=> \E i \in Legacy : f \in {File(i, "wrapper"), File(i, "env"), File(i, "marker")}
  BY DEF HostInit
<1>3. HostTypeOK
  <2>1. {"wrapper", "env", "marker"} \subseteq HostNames
    BY DEF HostNames
  <2>2. files \subseteq HostFiles
    BY <1>1, <1>2, <2>1, FileIs
  <2> QED  BY <1>1, <2>2 DEF HostTypeOK, HostInit
<1>4. \A k \in Instances : Claims(k, files, timers) => k \in Legacy
  <2> SUFFICES ASSUME NEW k \in Instances, NEW name \in {"env", "timer"}, File(k, name) \in files
               PROVE  k \in Legacy
    BY DEF Claims, HostInit
  <2>1. PICK i \in Legacy, other \in {"wrapper", "env", "marker"} : File(k, name) = File(i, other)
    BY <1>2
  <2>2. name \in HostNames \ {"wrapper"} /\ other \in HostNames
    BY DEF HostNames
  <2> QED  BY <2>1, <2>2, FileIs
<1>5. ClaimsDiffer(files, timers)
  BY <1>4 DEF ClaimsDiffer, OneLegacyEach
<1>6. LegacyServed(files)
  BY <1>2 DEF LegacyServed
<1> QED  BY <1>3, <1>5, <1>6 DEF HostInv, HostInit

\* A command that failed and was undone leaves the files it found.
LEMMA UndoneRestores ==
  ASSUME OneOperator, HostInv, [HostNext]_hostVars
  PROVE  FailureRestores
<1> SUFFICES ASSUME NEW o \in Operators, Failing(o), command'[o] = Resting,
                    command[o].inst \notin unfinished'
             PROVE  files' = command[o].before
  BY DEF FailureRestores
<1>1. command[o] \in Commands /\ CommandOK(command[o], files, timers, unfinished)
      /\ command[o].failing
  BY Busy DEF Failing
<1>2. command[o] # Resting
  BY DEF Failing, Resting
<1>3. PICK p \in Operators : p = o /\
        \/ \E kind \in CommandKinds, i \in Instances : StartCommand(p, kind, i)
        \/ WriteFile(p) \/ RemoveFile(p) \/ CallSystemctl(p) \/ UnitIsMissing(p)
        \/ DisableTolerated(p)
        \/ StepFails(p) \/ UndoStep(p) \/ EndUndo(p) \/ KillCommand(p)
  BY <1>2 DEF HostNext, hostVars, OneOperator, CommandKinds
<1>4. UndoStep(o) \/ EndUndo(o) \/ KillCommand(o)
  BY <1>1, <1>2, <1>3 DEF StartCommand, WriteFile, RemoveFile, CallSystemctl, UnitIsMissing,
       DisableTolerated, StepFails, Doing
<1>5. ~KillCommand(o)
  BY DEF KillCommand
<1>6. ASSUME UndoStep(o)
      PROVE  FALSE
  <2>1. PICK rest : command' = [command EXCEPT ![o] = [command[o] EXCEPT !.undo = rest]]
    BY <1>6 DEF UndoStep
  <2>2. command'[o].kind = command[o].kind
    BY <2>1, <1>1 DEF HostInv, HostTypeOK, Commands
  <2> QED  BY <2>2 DEF Failing, Resting
<1>7. /\ command[o].undo = <<>> /\ files' = files
      /\ command[o].inst \notin unfinished
  BY <1>4, <1>5, <1>6 DEF EndUndo
<1>8. Touched(command[o]) = {}
  BY <1>7 DEF Touched
<1> QED  BY <1>1, <1>7, <1>8 DEF CommandOK, UndoOK

\* No sequence of commands gives a vault two timers, and a command that failed and
\* was undone leaves the files it found, for any instances, vaults and numbers of
\* faults and commands, when one operator runs them and the earlier layout gave no
\* vault two instances (src/integrations/lifecycle.mjs).
THEOREM VaultsAreServed ==
  ASSUME OneOperator, OneLegacyEach
  PROVE  HostSpec => VaultsStayServed
<1>1. HostInit => HostInv
  BY HostStart
<1>2. HostInv /\ [HostNext]_hostVars => HostInv'
  BY HostStep
<1>3. HostInv /\ [HostNext]_hostVars => FailureRestores
  BY UndoneRestores
<1>4. HostInv' => OneTimerPerVault'
  <2>1. HostInv => OneTimerPerVault
    BY DEF HostInv, HostTypeOK, ClaimsDiffer, Claims, OneTimerPerVault
  <2> QED  BY <2>1, PTL
<1>5. HostInv /\ HostInv' /\ [HostNext]_hostVars
        => [OneTimerPerVault' /\ FailureRestores]_hostVars
  BY <1>3, <1>4
<1> QED  BY <1>1, <1>2, <1>5, PTL DEF HostSpec, VaultsStayServed

=============================================================================
