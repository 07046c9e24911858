---------------------------- MODULE FabricServer ----------------------------
(***************************************************************************)
(* The request handlers of src/server.mjs.  A handler is the list of what  *)
(* it awaits, in order; between its steps other requests, edits of the     *)
(* registry and the clock go on.  An MCP session keeps who it belongs to   *)
(* and what that token may do; a request refreshes both from the registry  *)
(* before it is served.  What a store does is left to the modules of the   *)
(* stores: here it answers or fails.                                       *)
(***************************************************************************)
EXTENDS Naturals, Sequences, FiniteSets

CONSTANTS
  MaxClients,      \* bound: requests, numbered as they arrive
  Bearers,         \* tokens
  RegistryEdits,   \* the registry over time: a sequence of functions from Bearers to
                   \* "granted", "denied" (active, without the permission) or "revoked"
  SessionIds, Unset,
  Mixes,           \* what a behaviour asks: [routes |-> names of routes, requests |-> how many]
  MaxGlobal, MaxPerActor,  \* limits of the session table
  SessionTtl,      \* ticks after which an idle session ends
  MaxTicks,        \* bound: ticks of the clock
  MaxServerFaults  \* bound: bodies, store calls, audits and registry reads that fail

ASSUME ServerAssumption ==
  /\ RegistryEdits \in Seq([Bearers -> {"granted", "denied", "revoked"}]) /\ RegistryEdits # <<>>
  /\ MaxClients \in Nat /\ Unset \notin SessionIds /\ SessionTtl \in Nat \ {0}
  /\ MaxGlobal \in Nat /\ MaxPerActor \in Nat /\ MaxTicks \in Nat /\ MaxServerFaults \in Nat

(***************************************************************************)
(* The handlers.  "permit" compares the policy of the request; "effect"    *)
(* writes to a store, "store" to one that audits in the same transaction;  *)
(* "intent" and "audit" are required audit rows.  A "check" is decided by  *)
(* the request or the settings: the purpose and its context token, the     *)
(* form of a proposal, the migration pause; it is a step of its own where  *)
(* its refusal is audited otherwise than that of the step beside it.       *)
(* "audited" are the steps whose failure is audited before it is answered. *)
(***************************************************************************)
Route(steps, audited) == [steps |-> steps, audited |-> audited]
Audited(steps) == Route(steps, 1..Len(steps))
After(steps, core) ==
  Route(steps \o core.steps, {i + Len(steps) : i \in core.audited})

DocumentWrite == Audited(<<"permit", "effect", "audit">>)
DocumentsSearch == Audited(<<"permit", "read", "audit">>)
DocumentRead == Audited(<<"permit", "read", "audit">>)
ContextSearch == Audited(<<"permit", "read", "read", "audit">>)
MemoryProposal == Route(<<"check", "permit", "effect", "audit">>, {2, 3})
MemoryProposalStatus == Route(<<"permit", "read", "audit">>, {})
MemoryRead == Route(<<"check", "permit", "read", "audit">>, {2})
SessionSearch == Route(<<"permit", "read", "audit">>, {})
SessionGet == Route(<<"permit", "read", "audit">>, {})
SessionTranscript == Route(<<"permit", "read", "read", "audit">>, {})

StatusRoute == Route(<<"permit", "read">>, {})
DocumentPutRoute == After(<<"body">>, DocumentWrite)
DocumentsSearchRoute == After(<<"body">>, DocumentsSearch)
DocumentReadRoute == After(<<"body">>, DocumentRead)
ContextSearchRoute == After(<<"body">>, ContextSearch)
IdentityCreateRoute == Audited(<<"permit", "body", "effect", "audit">>)
IdentityReadRoute == Audited(<<"permit", "read", "audit">>)
IdentityMergeRoute == Audited(<<"permit", "body", "effect", "audit">>)
RetentionPlanRoute == Audited(<<"permit", "body", "read", "audit">>)
RetentionApplyRoute == Audited(<<"permit", "body", "effect", "audit">>)
CurationListRoute == Audited(<<"permit", "read", "audit">>)
CurationReadRoute == Audited(<<"permit", "intent", "read", "audit">>)
ReceiptRoute == Audited(<<"body", "permit", "store">>)
ReconcileRoute == Audited(<<"permit", "body", "read", "audit">>)
MemorySearchRoute == Audited(<<"body", "permit", "read", "audit">>)
ProposalRoute == After(<<"body">>, MemoryProposal)
ExtractorSessionsRoute == Route(<<"permit", "read", "audit">>, {})
ExtractorSessionRoute == Route(<<"permit", "read", "audit">>, {})
ExtractorTranscriptRoute == Route(<<"permit", "read", "read", "audit">>, {})
RawIngestRoute == Route(<<"permit", "check", "body", "store">>, {1, 3, 4})
DeliveryProofRoute == Audited(<<"permit", "body", "store">>)
ProposalStatusRoute == MemoryProposalStatus
MemoryReadRoute == MemoryRead
SessionsSearchRoute == Route(<<"permit", "body", "read", "audit">>, {})
SessionRoute == SessionTranscript
ReadV1Route == After(<<"body">>, MemoryRead)
SessionsSearchV1Route == Route(<<"permit", "body", "read", "audit">>, {})
SessionV1Route == SessionTranscript
SearchV1Route == Route(<<"body", "permit", "read", "audit">>, {})
AddV1Route == After(<<"body">>, MemoryProposal)

\* tools/call: after the body, with the policy of the session at that moment.
ToolRoutes ==
  [tool_status |-> StatusRoute, tool_search |-> SessionSearch,
   tool_propose |-> MemoryProposal, tool_proposal |-> MemoryProposalStatus,
   tool_read |-> MemoryRead, tool_documents |-> DocumentsSearch,
   tool_document |-> DocumentRead, tool_write |-> DocumentWrite,
   tool_context |-> ContextSearch, tool_sessions |-> SessionSearch,
   tool_session |-> SessionGet, tool_transcript |-> SessionTranscript]

RestRoutes ==
  [status |-> StatusRoute, document_put |-> DocumentPutRoute,
   documents_search |-> DocumentsSearchRoute, document_read |-> DocumentReadRoute,
   context_search |-> ContextSearchRoute, identity_create |-> IdentityCreateRoute,
   identity_read |-> IdentityReadRoute, identity_merge |-> IdentityMergeRoute,
   retention_plan |-> RetentionPlanRoute, retention_apply |-> RetentionApplyRoute,
   curation_list |-> CurationListRoute, curation_read |-> CurationReadRoute,
   receipt |-> ReceiptRoute, reconcile |-> ReconcileRoute, search |-> MemorySearchRoute,
   propose |-> ProposalRoute, extractor_sessions |-> ExtractorSessionsRoute,
   extractor_session |-> ExtractorSessionRoute, extractor_transcript |-> ExtractorTranscriptRoute,
   raw_ingest |-> RawIngestRoute, delivery_proof |-> DeliveryProofRoute,
   proposal |-> ProposalStatusRoute, memory |-> MemoryReadRoute,
   sessions_search |-> SessionsSearchRoute, session |-> SessionRoute,
   v1_read |-> ReadV1Route, v1_sessions_search |-> SessionsSearchV1Route,
   v1_session |-> SessionV1Route, v1_search |-> SearchV1Route, v1_add |-> AddV1Route]

\* A streamable request and a message are one tool call; opening a stream and
\* deleting a session touch the table only.
SessionRoutes ==
  [stream_open |-> Route(<<"register">>, {}), session_delete |-> Route(<<"drop">>, {})]
ToolCall(tool) == After(<<"body", "register">>, ToolRoutes[tool])
Handler(name) ==
  CASE name \in DOMAIN RestRoutes -> RestRoutes[name]
    [] name \in DOMAIN SessionRoutes -> SessionRoutes[name]
    [] name \in DOMAIN ToolRoutes -> ToolCall(name)
RouteNames == DOMAIN RestRoutes \cup DOMAIN SessionRoutes \cup DOMAIN ToolRoutes

ASSUME MixAssumption == \A m \in Mixes : m.routes \subseteq RouteNames /\ m.requests \in Nat

VARIABLES
  mix,           \* what this behaviour asks
  sourceKind,    \* "local" or "remote": a file read at once, or a table that is fetched
  registryAt,    \* the edit of the registry that is in force
  clockAt,
  sessionOf,     \* records of the sessions, also those requests still refer to
  inTable,       \* sessions in the table
  openStreams,   \* sessions whose event stream is open
  request,       \* what each client's request is at
  auditRows,     \* the audited outcomes: client and "ok", "failed" or "intent"
  serverFaults

httpVars == <<mix, sourceKind, registryAt, clockAt, sessionOf, inTable, openStreams, request, auditRows, serverFaults>>
tableVars == <<sessionOf, inTable, openStreams>>
ambientVars == <<mix, sourceKind, registryAt, clockAt>>

Clients == 1..MaxClients
NoSession == [bearer |-> Unset, version |-> 0, seen |-> 0, stream |-> FALSE]
NoRequest == [at |-> "new", route |-> "", bearer |-> Unset, sid |-> Unset, arrived |-> 0,
              version |-> 0, step |-> 1, wrote |-> FALSE, answer |-> "none"]

ServerInit ==
  /\ mix \in Mixes /\ sourceKind \in {"local", "remote"} /\ registryAt = 1 /\ clockAt = 0
  /\ sessionOf = [i \in SessionIds |-> NoSession] /\ inTable = {} /\ openStreams = {}
  /\ request = [c \in Clients |-> NoRequest] /\ auditRows = {} /\ serverFaults = 0

Ticks ==
  /\ clockAt < MaxTicks /\ clockAt' = clockAt + 1
  /\ UNCHANGED <<mix, sourceKind, registryAt, tableVars, request, auditRows, serverFaults>>
EditRegistry ==
  /\ registryAt < Len(RegistryEdits) /\ registryAt' = registryAt + 1
  /\ UNCHANGED <<mix, sourceKind, clockAt, tableVars, request, auditRows, serverFaults>>
ServerFault == serverFaults < MaxServerFaults /\ serverFaults' = serverFaults + 1

\* pruneSessions: what has been idle for too long leaves the table, its stream ends.
Idle == {i \in inTable : clockAt - sessionOf[i].seen >= SessionTtl}
Pruned == inTable \ Idle

Goto(c, r, place) == request' = [request EXCEPT ![c] = [r EXCEPT !.at = place]]
Answered(c, r, answer) ==
  request' = [request EXCEPT ![c] = [r EXCEPT !.at = "done", !.answer = answer]]

(***************************************************************************)
(* The registry has answered, or not, for a request: its token is known    *)
(* and active, and the session shares what was found; or the request is    *)
(* denied and takes its session with it.                                   *)
(***************************************************************************)
\* Mutant: a session goes on with the policy it was opened with.
IdentifiedOnce(c, r, version, found, table, streams) ==
  LET bearer == IF r.sid = Unset THEN r.bearer ELSE sessionOf[r.sid].bearer
      known == IF r.sid = Unset THEN version ELSE sessionOf[r.sid].version
  IN  /\ Goto(c, [r EXCEPT !.bearer = bearer, !.version = known], IF known = 0 THEN "denying" ELSE "run")
      /\ inTable' = table /\ openStreams' = streams /\ UNCHANGED sessionOf
Identified(c, r, version, found, table, streams) ==
  LET bearer == IF r.sid = Unset THEN r.bearer ELSE sessionOf[r.sid].bearer
  IN  IF found /\ RegistryEdits[version][bearer] # "revoked"
      THEN /\ request' = [request EXCEPT ![c] =
                            [r EXCEPT !.at = "run", !.bearer = bearer, !.version = version]]
           /\ sessionOf' = IF r.sid = Unset THEN sessionOf
                           ELSE [sessionOf EXCEPT ![r.sid].version = version, ![r.sid].seen = clockAt]
           /\ inTable' = table /\ openStreams' = streams
      ELSE /\ Goto(c, r, "denying")
           /\ inTable' = table \ {r.sid} /\ openStreams' = streams \ {r.sid}
           /\ UNCHANGED sessionOf

\* A request comes with a token or names a session; tools come either way.
Credentials(route) ==
  (IF route = "session_delete" THEN {} ELSE Bearers \X {Unset}) \cup
  (IF route \in DOMAIN ToolRoutes \cup {"session_delete"}
   THEN {Unset} \X {i \in SessionIds : sessionOf[i].bearer # Unset} ELSE {})

Arrive(c) ==
  /\ request[c].at = "new"
  /\ c <= mix.requests /\ \A d \in 1..(c - 1) : request[d].at # "new"
  /\ \E route \in mix.routes : \E credential \in Credentials(route) :
       LET r == [NoRequest EXCEPT !.route = route, !.bearer = credential[1], !.sid = credential[2],
                                  !.arrived = registryAt]
       IN  IF r.sid # Unset /\ r.sid \notin Pruned
           THEN /\ Goto(c, r, "denying")
                /\ inTable' = Pruned /\ openStreams' = openStreams \ Idle
                /\ UNCHANGED <<sessionOf, serverFaults>>
           ELSE IF sourceKind = "remote"
           THEN /\ Goto(c, r, "fetch")
                /\ inTable' = Pruned /\ openStreams' = openStreams \ Idle
                /\ UNCHANGED <<sessionOf, serverFaults>>
           ELSE \/ /\ Identified(c, r, registryAt, TRUE, Pruned, openStreams \ Idle)
                   /\ UNCHANGED serverFaults
                \/ ServerFault /\ Identified(c, r, registryAt, FALSE, Pruned, openStreams \ Idle)
  /\ UNCHANGED <<ambientVars, auditRows>>

\* A remote registry reads its rows at one moment and answers at a later one.
Fetch(c) ==
  /\ request[c].at = "fetch"
  /\ \/ Goto(c, [request[c] EXCEPT !.version = registryAt], "fetched") /\ UNCHANGED serverFaults
     \/ ServerFault /\ Goto(c, request[c], "fetched")
  /\ UNCHANGED <<ambientVars, tableVars, auditRows>>
FetchAnswers(c) ==
  /\ request[c].at = "fetched"
  /\ LET v == request[c].version
     IN  Identified(c, [request[c] EXCEPT !.version = 0], v, v # 0, inTable, openStreams)
  /\ UNCHANGED <<ambientVars, auditRows, serverFaults>>

\* A required audit row is written before the answer, or the answer says it is not;
\* a row that came too late may still be there.
RequireAudit(c, r, row, answer) ==
  \/ /\ auditRows' = auditRows \cup {<<c, row>>} /\ Answered(c, r, answer)
     /\ UNCHANGED serverFaults
  \/ /\ ServerFault /\ Answered(c, r, "audit_unavailable")
     /\ auditRows' \in {auditRows, auditRows \cup {<<c, row>>}}

Deny(c) ==
  /\ request[c].at = "denying" /\ RequireAudit(c, request[c], "denied", "refused")
  /\ UNCHANGED <<ambientVars, tableVars>>
AuditFailure(c) ==
  /\ request[c].at = "failing" /\ RequireAudit(c, request[c], "failed", "refused")
  /\ UNCHANGED <<ambientVars, tableVars>>

StepOf(c) == Handler(request[c].route).steps[request[c].step]
AtStep(c, steps) == request[c].at = "run" /\ StepOf(c) \in steps

Onward(c, r) ==
  IF r.step = Len(Handler(r.route).steps) THEN Answered(c, r, "ok")
  ELSE request' = [request EXCEPT ![c] = [r EXCEPT !.step = r.step + 1]]
\* Mutant: the failure of a write is answered without its audit row.
FailQuietly(c) == Answered(c, request[c], "refused")
Fail(c) ==
  IF request[c].step \in Handler(request[c].route).audited THEN Goto(c, request[c], "failing")
  ELSE Answered(c, request[c], "refused")

Permit(c) ==
  /\ AtStep(c, {"permit"})
  /\ IF RegistryEdits[request[c].version][request[c].bearer] = "granted"
     THEN Onward(c, request[c]) ELSE Fail(c)
  /\ UNCHANGED <<ambientVars, tableVars, auditRows, serverFaults>>

\* A purpose the policy lacks, a context token that does not verify, a request
\* out of form or a paused route is refused.
Check(c) ==
  /\ AtStep(c, {"check"})
  /\ Onward(c, request[c]) \/ Fail(c)
  /\ UNCHANGED <<ambientVars, tableVars, auditRows, serverFaults>>

\* The body and the answers of the stores are awaited.
Await(c) ==
  /\ AtStep(c, {"body", "read", "effect", "store"})
  /\ \/ /\ Onward(c, [request[c] EXCEPT !.wrote = @ \/ StepOf(c) \in {"effect", "store"}])
        /\ auditRows' = auditRows \cup (IF StepOf(c) = "store" THEN {<<c, "ok">>} ELSE {})
        /\ UNCHANGED serverFaults
     \/ ServerFault /\ Fail(c) /\ UNCHANGED auditRows
  /\ UNCHANGED <<ambientVars, tableVars>>

AnnounceDecryption(c) ==
  /\ AtStep(c, {"intent"})
  /\ \/ auditRows' = auditRows \cup {<<c, "intent">>} /\ Onward(c, request[c]) /\ UNCHANGED serverFaults
     \/ /\ ServerFault /\ Answered(c, request[c], "audit_unavailable")
        /\ auditRows' \in {auditRows, auditRows \cup {<<c, "intent">>}}
  /\ UNCHANGED <<ambientVars, tableVars>>
AuditOutcome(c) ==
  /\ AtStep(c, {"audit"}) /\ RequireAudit(c, request[c], "ok", "ok")
  /\ UNCHANGED <<ambientVars, tableVars>>

(***************************************************************************)
(* registerSession, for a stream or for a tool call without a session; a   *)
(* tool call that has one takes its policy as it is by now.                *)
(***************************************************************************)
OfBearer(table, bearer) == {i \in table : sessionOf[i].bearer = bearer}
Full(bearer) ==
  Cardinality(Pruned) >= MaxGlobal \/ Cardinality(OfBearer(Pruned, bearer)) >= MaxPerActor

Register(c) ==
  /\ AtStep(c, {"register"}) /\ request[c].sid = Unset
  /\ IF Full(request[c].bearer)
     THEN Fail(c) /\ inTable' = Pruned /\ openStreams' = openStreams \ Idle /\ UNCHANGED sessionOf
     ELSE \E i \in SessionIds :
            /\ sessionOf[i] = NoSession
            /\ sessionOf' = [sessionOf EXCEPT ![i] =
                 [bearer |-> request[c].bearer, version |-> request[c].version, seen |-> clockAt,
                  stream |-> request[c].route = "stream_open"]]
            /\ inTable' = Pruned \cup {i}
            /\ openStreams' = (openStreams \ Idle) \cup
                 IF request[c].route = "stream_open" THEN {i} ELSE {}
            /\ Onward(c, [request[c] EXCEPT !.sid = i])
  /\ UNCHANGED <<ambientVars, auditRows, serverFaults>>
UseSession(c) ==
  /\ AtStep(c, {"register"}) /\ request[c].sid # Unset
  /\ Onward(c, [request[c] EXCEPT !.version = sessionOf[request[c].sid].version])
  /\ UNCHANGED <<ambientVars, tableVars, auditRows, serverFaults>>
DropSession(c) ==
  /\ AtStep(c, {"drop"}) /\ inTable' = inTable \ {request[c].sid}
  /\ Onward(c, request[c])
  /\ UNCHANGED <<ambientVars, sessionOf, openStreams, auditRows, serverFaults>>

CloseStream(i) ==
  /\ i \in openStreams /\ openStreams' = openStreams \ {i} /\ inTable' = inTable \ {i}
  /\ UNCHANGED <<ambientVars, sessionOf, request, auditRows, serverFaults>>

ServerNext ==
  \/ Ticks \/ EditRegistry \/ \E i \in SessionIds : CloseStream(i)
  \/ \E c \in Clients :
       \/ Arrive(c) \/ Fetch(c) \/ FetchAnswers(c) \/ Deny(c) \/ AuditFailure(c)
       \/ Permit(c) \/ Check(c) \/ Await(c) \/ AnnounceDecryption(c) \/ AuditOutcome(c)
       \/ Register(c) \/ UseSession(c) \/ DropSession(c)

-----------------------------------------------------------------------------

Passed(c, step) ==
  \E i \in 1..Len(Handler(request[c].route).steps) :
    /\ Handler(request[c].route).steps[i] = step
    /\ i < request[c].step \/ request[c].answer = "ok"

(***************************************************************************)
(* The audit table accounts for every request: a success was audited       *)
(* before it was answered, a write whose answer is an error has an audit   *)
(* that did not answer as its only reason, a denial or a failure that the  *)
(* handler audits is there, and nothing was decrypted unannounced          *)
(* (auditRequired and auditInternalFailure, src/server.mjs:340-353).       *)
(***************************************************************************)
AnswersAreAudited ==
  \A c \in Clients :
    LET r == request[c]
        steps == {Handler(r.route).steps[i] : i \in 1..Len(Handler(r.route).steps)}
    IN  /\ r.answer = "ok" /\ steps \cap {"audit", "store"} # {} => <<c, "ok">> \in auditRows
        /\ r.answer = "refused" => ~r.wrote
        /\ r.answer = "refused" /\ r.version = 0 => <<c, "denied">> \in auditRows
        /\ r.answer = "refused" /\ r.version # 0 /\ r.step \in Handler(r.route).audited
             => <<c, "failed">> \in auditRows
        /\ r.at \in {"run", "done"} /\ r.version # 0 /\ Passed(c, "intent") => <<c, "intent">> \in auditRows

(***************************************************************************)
(* What a request does, it does under a registry entry that granted it and *)
(* is no older than the request, whatever its session was opened with      *)
(* (src/server.mjs:1624, 1803-1815).  With a remote registry the answer    *)
(* to an older request may overwrite the session between the refresh and   *)
(* the use (README, section 6).                                            *)
(***************************************************************************)
ServedAsAuthorized ==
  \A c \in Clients :
    LET r == request[c]
    IN  r.at \in {"run", "done"} /\ r.version # 0 /\ Passed(c, "permit") =>
          /\ RegistryEdits[r.version][r.bearer] = "granted"
          /\ sourceKind = "local" \/ r.sid = Unset => r.version >= r.arrived

(***************************************************************************)
(* The table keeps its limits although registration follows an awaited     *)
(* body, and a session of the table that answers by a stream has it open   *)
(* (registerSession, pruneSessions; src/server.mjs:1761-1777).             *)
(***************************************************************************)
SessionsAreBounded ==
  /\ Cardinality(inTable) <= MaxGlobal
  /\ \A b \in Bearers : Cardinality(OfBearer(inTable, b)) <= MaxPerActor
  /\ \A i \in inTable : sessionOf[i].stream => i \in openStreams

\* The requests of a server are served in the name of those who may ask, and
\* within its limits (createAgentMemoryFabricServer, src/server.mjs:1741).
RequestsAreServedSoundly == AnswersAreAudited /\ ServedAsAuthorized /\ SessionsAreBounded
=============================================================================
