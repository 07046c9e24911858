-------------------------- MODULE FabricIdentities --------------------------
(***************************************************************************)
(* Identities of the fabric and their merges (src/fabric-store.mjs:        *)
(* createIdentity, mergeIdentity and splitIdentity of FabricStore over     *)
(* createIdentity, mutateIdentity and findIdentityOperation of             *)
(* PostgresCatalog).  A process works on one call at a time                *)
(* (_queueIdentity); several processes share the catalog.  What a          *)
(* transaction writes becomes visible at its COMMIT; its locks are kept    *)
(* until then.                                                             *)
(***************************************************************************)
EXTENDS Naturals, FiniteSets, Functions

CONSTANTS
  Identities,        \* external keys; the tag of a record is unique
  Enrolled,          \* those created before, each under a key of its own
  IdentityRequests,  \* what may be asked
  IdentityProcesses,
  MaxIdentityCalls,  \* bound: calls in one behaviour
  MaxIdentityFailures,\* bound: failed statements
  Nobody             \* no identity

\* create, merge into target, or split; `expected` is the revision the caller
\* saw.  The evidence of a request is the request itself.
IdentityRequest == [op : {"create", "merge", "split"}, source : Identities,
                    target : Identities \cup {Nobody}, expected : Nat, key : STRING]

ASSUME IdentityAssumption ==
  /\ Enrolled \subseteq Identities
  /\ IdentityRequests \subseteq IdentityRequest
  /\ \A r \in IdentityRequests : (r.op = "merge") = (r.target # Nobody)
  /\ Nobody \notin Identities
  /\ {MaxIdentityCalls, MaxIdentityFailures} \subseteq Nat

VARIABLES
  identities,     \* identity_records_v2
  identityEvents, \* identity_events_v2
  identityCall,   \* the call of each process
  identityLocks,  \* <<mode, object>> pairs held by its transaction
  identityAnswers,\* <<request, event>> pairs answered with an event
  identityCalls,  \* calls so far
  identityFailures

identityTables == <<identities, identityEvents>>
identityVars == <<identityTables, identityCall, identityLocks, identityAnswers, identityCalls,
                  identityFailures>>

NoIdentity == [status |-> "none", canonical |-> Nobody, revision |-> 0]
NoIdentityCall == [at |-> "idle", request |-> Nobody, target |-> Nobody]

Created(i) == [request |-> [op |-> "create", source |-> i, target |-> Nobody, expected |-> 0, key |-> i],
               target |-> Nobody, revision |-> 1]

IdentityInit ==
  /\ identities = [i \in Identities |-> IF i \notin Enrolled THEN NoIdentity
                     ELSE [status |-> "active", canonical |-> Nobody, revision |-> 1]]
  /\ identityEvents = {Created(i) : i \in Enrolled}
  /\ identityCall = [p \in IdentityProcesses |-> NoIdentityCall]
  /\ identityLocks = [p \in IdentityProcesses |-> {}]
  /\ identityAnswers = {}
  /\ identityCalls = 0 /\ identityFailures = 0

Asked(p) == identityCall[p].request
Source(p) == Asked(p).source
\* The evidence payload has neither the key nor the revision.
SameEvidence(r, q) == <<r.op, r.source, r.target>> = <<q.op, q.source, q.target>>
EventsOf(key) == {e \in identityEvents : e.request.key = key}
IdentityStep(p, step) == identityCall' = [identityCall EXCEPT ![p].at = step]
IdentityAt(p, step) == identityCall[p].at = step
NoIdentityWrite == UNCHANGED <<identityTables, identityAnswers, identityCalls, identityFailures>>

\* Shared locks are compatible with each other alone.
IsFreeFor(p, mode, x) ==
  \A q \in IdentityProcesses \ {p} : \A l \in identityLocks[q] :
    l[2] = x => l[1] = "share" /\ mode = "share"
Lock(p, mode, x) ==
  IsFreeFor(p, mode, x) /\ identityLocks' = [identityLocks EXCEPT ![p] = @ \cup {<<mode, x>>}]

CallEnds(p) ==
  /\ identityCall' = [identityCall EXCEPT ![p] = NoIdentityCall]
  /\ identityLocks' = [identityLocks EXCEPT ![p] = {}]
AnswerWith(p, e) == CallEnds(p) /\ identityAnswers' = identityAnswers \cup {<<Asked(p), e>>}
Reject(p) == CallEnds(p) /\ UNCHANGED identityAnswers

(***************************************************************************)
(* FabricStore                                                             *)
(***************************************************************************)

\* createIdentity and _identityMutationAction: the source as it is now, whose
\* target a split will record.
AskIdentity(p, r) ==
  LET row == identities[r.source] IN
  /\ IdentityAt(p, "idle") /\ identityCalls < MaxIdentityCalls
  /\ r.op # "create" => row # NoIdentity
  /\ identityCalls' = identityCalls + 1
  /\ identityCall' = [identityCall EXCEPT ![p] =
       [at |-> "replay", request |-> r,
        target |-> IF r.target # Nobody THEN r.target ELSE row.canonical]]
  /\ UNCHANGED <<identityTables, identityLocks, identityAnswers, identityFailures>>

\* findIdentityOperation: an event of the key is the answer if it has the same
\* evidence.
ReplayIdentity(p) ==
  /\ IdentityAt(p, "replay")
  /\ IF EventsOf(Asked(p).key) = {} THEN IdentityStep(p, "key") /\ UNCHANGED <<identityLocks, identityAnswers>>
     ELSE \E e \in EventsOf(Asked(p).key) :
            IF SameEvidence(e.request, Asked(p)) THEN AnswerWith(p, e) ELSE Reject(p)
  /\ UNCHANGED <<identityTables, identityCalls, identityFailures>>

\* An ambiguous COMMIT: the same lookup, without a second attempt.
ReconcileIdentity(p) ==
  /\ IdentityAt(p, "reconcile")
  /\ IF EventsOf(Asked(p).key) = {} THEN Reject(p)
     ELSE \E e \in EventsOf(Asked(p).key) :
            IF SameEvidence(e.request, Asked(p)) THEN AnswerWith(p, e) ELSE Reject(p)
  /\ UNCHANGED <<identityTables, identityCalls, identityFailures>>

(***************************************************************************)
(* The transactions                                                        *)
(***************************************************************************)

\* pg_advisory_xact_lock on the idempotency tag.
LockKey(p) ==
  /\ IdentityAt(p, "key")
  /\ Lock(p, "update", <<"key", Asked(p).key>>)
  /\ IdentityStep(p, "lookup")
  /\ NoIdentityWrite

\* A replay inside the transaction is a duplicate whatever it asked for.
Lookup(p) ==
  LET r == Asked(p) IN
  /\ IdentityAt(p, "lookup")
  /\ IF EventsOf(r.key) # {} THEN \E e \in EventsOf(r.key) : AnswerWith(p, e)
     ELSE /\ UNCHANGED <<identityLocks, identityAnswers>>
          /\ IdentityStep(p, CASE r.op = "create" -> "insert" [] r.op = "merge" -> "pair"
                               [] r.op = "split" -> "source")
  /\ UNCHANGED <<identityTables, identityCalls, identityFailures>>

\* INSERT ON CONFLICT DO NOTHING on the unique tag: waits for an uncommitted one.
InsertIdentity(p) ==
  /\ IdentityAt(p, "insert")
  /\ IsFreeFor(p, "update", <<"row", Source(p)>>)
  /\ IF identities[Source(p)] # NoIdentity THEN CallEnds(p)
     ELSE Lock(p, "update", <<"row", Source(p)>>) /\ IdentityStep(p, "commit")
  /\ NoIdentityWrite

\* identityPairLockKey does not depend on the direction of the merge.
LockPair(p) ==
  /\ IdentityAt(p, "pair")
  /\ Lock(p, "update", <<"pair", {Source(p), identityCall[p].target}>>)
  /\ IdentityStep(p, "source")
  /\ NoIdentityWrite

\* SELECT ... FOR UPDATE of the source, the revision and, for a split, the status.
LockSource(p) ==
  LET row == identities[Source(p)] IN
  /\ IdentityAt(p, "source")
  /\ IsFreeFor(p, "update", <<"row", Source(p)>>)
  /\ IF row.revision # Asked(p).expected \/ (Asked(p).op = "split" /\ row.status # "merged")
       THEN CallEnds(p)
     ELSE /\ Lock(p, "update", <<"row", Source(p)>>)
          /\ IdentityStep(p, IF Asked(p).op = "merge" THEN "target" ELSE "commit")
  /\ NoIdentityWrite

\* Mutant: the target is read without FOR SHARE.
LockTargetUnlocked(p) ==
  /\ IdentityAt(p, "target")
  /\ IF identities[identityCall[p].target].status # "active" \/ identityCall[p].target = Source(p)
          \/ identities[Source(p)].status # "active"
       THEN CallEnds(p)
     ELSE IdentityStep(p, "commit") /\ UNCHANGED identityLocks
  /\ NoIdentityWrite

\* SELECT ... FOR SHARE of the target; both must be active.
LockTarget(p) ==
  LET t == identityCall[p].target IN
  /\ IdentityAt(p, "target")
  /\ IsFreeFor(p, "share", <<"row", t>>)
  /\ IF identities[t].status # "active" \/ t = Source(p) \/ identities[Source(p)].status # "active"
       THEN CallEnds(p)
     ELSE Lock(p, "share", <<"row", t>>) /\ IdentityStep(p, "commit")
  /\ NoIdentityWrite

\* Record and event of the operation.
IdentityWritten(p) ==
  LET r == Asked(p)
      revision == identities[r.source].revision + 1
      row == [status |-> IF r.op = "merge" THEN "merged" ELSE "active",
              canonical |-> IF r.op = "merge" THEN identityCall[p].target ELSE Nobody,
              revision |-> revision]
  IN
  /\ identities' = [identities EXCEPT ![r.source] = row]
  /\ identityEvents' = identityEvents \cup
       {[request |-> r, target |-> identityCall[p].target, revision |-> revision]}

CommitIdentity(p) ==
  /\ IdentityAt(p, "commit")
  /\ IdentityWritten(p)
  /\ \E e \in identityEvents' \ identityEvents : AnswerWith(p, e)
  /\ UNCHANGED <<identityCalls, identityFailures>>

CommitIdentityFails(p) ==
  /\ IdentityAt(p, "commit") /\ identityFailures < MaxIdentityFailures
  /\ identityFailures' = identityFailures + 1
  /\ IdentityWritten(p) \/ UNCHANGED identityTables
  /\ identityLocks' = [identityLocks EXCEPT ![p] = {}]
  /\ IdentityStep(p, "reconcile")
  /\ UNCHANGED <<identityAnswers, identityCalls>>

\* A failed statement, a timeout or the victim of a deadlock rolls back.
IdentityStatementFails(p) ==
  /\ identityCall[p].at \notin {"idle", "commit"} /\ identityFailures < MaxIdentityFailures
  /\ identityFailures' = identityFailures + 1
  /\ CallEnds(p)
  /\ UNCHANGED <<identityTables, identityAnswers, identityCalls>>

IdentityNext ==
  \E p \in IdentityProcesses :
    \/ \E r \in IdentityRequests : AskIdentity(p, r)
    \/ ReplayIdentity(p) \/ ReconcileIdentity(p)
    \/ LockKey(p) \/ Lookup(p) \/ InsertIdentity(p)
    \/ LockPair(p) \/ LockSource(p) \/ LockTarget(p)
    \/ CommitIdentity(p) \/ CommitIdentityFails(p) \/ IdentityStatementFails(p)

IdentitySpec == IdentityInit /\ [][IdentityNext]_identityVars

(***************************************************************************)
(* Properties                                                              *)
(***************************************************************************)

\* No chain of merges leads back to where it began: every identity has a
\* canonical one (a set closed under the links would hold a cycle).
MergesAreAcyclic ==
  ~ \E loop \in (SUBSET Identities) \ {{}} :
      \A i \in loop : identities[i].status = "merged" /\ identities[i].canonical \in loop

=============================================================================
