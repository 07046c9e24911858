----------------------------- MODULE StoreProofs -----------------------------
(***************************************************************************)
(* The stores of the fabric beside the proposals, for any number of calls, *)
(* processes and failures: merges of identities never form a cycle         *)
(* (MergesStayAcyclic), a document has one history whose head is its last  *)
(* revision (HistoryStays), what a collector was told is stored is in the  *)
(* catalog with its payload (RawAnswersTrue), and an identity traversal    *)
(* publishes the catalog that was attested (TraversalStaysFaithful).       *)
(***************************************************************************)
EXTENDS FabricIdentities, DocumentStore, RawCatalog, IdentityTraversal, FiniteSetTheorems,
        SequenceTheorems, WellFoundedInduction, TLAPS

(***************************************************************************)
(* Identities.  A merge commits under an update lock of its source and a   *)
(* share lock of its target, which it has seen active: a cycle that it     *)
(* closed would lead through the target, and that is merged into nothing.  *)
(***************************************************************************)

IdentitySteps == {"idle", "replay", "key", "lookup", "insert", "pair", "source", "target", "commit",
                  "reconcile"}
IdentityRow == [status : {"none", "active", "merged"}, canonical : Identities \cup {Nobody},
                revision : Nat]

IdentityTyped ==
  /\ identities \in [Identities -> IdentityRow]
  /\ identityCall \in [IdentityProcesses ->
       [at : IdentitySteps, request : IdentityRequests \cup {Nobody}, target : Identities \cup {Nobody}]]
  /\ DOMAIN identityLocks = IdentityProcesses

\* Two transactions have a lock in common only if both share it.
LocksAgree ==
  \A p, q \in IdentityProcesses : p # q =>
    \A l \in identityLocks[p], m \in identityLocks[q] :
      l[2] = m[2] => l[1] = "share" /\ m[1] = "share"

\* What a call has asked for, and what its transaction has locked and seen.
MergeIsSafe(p) ==
  /\ identityCall[p].at # "idle" =>
       /\ identityCall[p].request \in IdentityRequests
       /\ Asked(p).op = "merge" => identityCall[p].target \in Identities
  /\ identityCall[p].at \in {"target", "commit"} =>
       <<"update", <<"row", Source(p)>>>> \in identityLocks[p]
  /\ identityCall[p].at = "target" => Asked(p).op = "merge"
  /\ identityCall[p].at = "insert" => Asked(p).op = "create"
  /\ identityCall[p].at = "commit" /\ Asked(p).op = "merge" =>
       LET t == identityCall[p].target IN
       /\ t # Source(p) /\ identities[t].status = "active"
       /\ <<"share", <<"row", t>>>> \in identityLocks[p]

IdentityInv ==
  IdentityTyped /\ LocksAgree /\ (\A p \in IdentityProcesses : MergeIsSafe(p)) /\ MergesAreAcyclic

\* The enrolled identities are not merged.
LEMMA InitIdentityInv == IdentityInit => IdentityInv
<1> SUFFICES ASSUME IdentityInit PROVE IdentityInv
  OBVIOUS
<1>1. IdentityTyped
  BY DEF IdentityInit, IdentityTyped, IdentityRow, IdentitySteps, NoIdentity, NoIdentityCall
<1>2. LocksAgree /\ \A p \in IdentityProcesses : MergeIsSafe(p)
  BY DEF IdentityInit, LocksAgree, MergeIsSafe, NoIdentityCall
<1>3. \A i \in Identities : identities[i].status # "merged"
  BY DEF IdentityInit, NoIdentity
<1>4. MergesAreAcyclic
  <2> SUFFICES ASSUME NEW loop \in (SUBSET Identities) \ {{}},
                      \A i \in loop : identities[i].status = "merged"
               PROVE  FALSE
    BY DEF MergesAreAcyclic
  <2> QED
    BY <1>3
<1> QED
  BY <1>1, <1>2, <1>4 DEF IdentityInv

\* A step of one process that changes no row.
LEMMA NoRowChanges ==
  ASSUME IdentityInv, NEW p \in IdentityProcesses, identities' = identities,
         identityCall' \in [IdentityProcesses ->
           [at : IdentitySteps, request : IdentityRequests \cup {Nobody},
            target : Identities \cup {Nobody}]],
         DOMAIN identityLocks' = IdentityProcesses,
         \A q \in IdentityProcesses \ {p} :
           identityCall'[q] = identityCall[q] /\ identityLocks'[q] = identityLocks[q],
         \A l \in identityLocks'[p] : l \in identityLocks[p] \/ IsFreeFor(p, l[1], l[2]),
         MergeIsSafe(p)'
  PROVE  IdentityInv'
<1>1. IdentityTyped' /\ MergesAreAcyclic'
  BY DEF IdentityInv, IdentityTyped, MergesAreAcyclic
<1>2. \A q \in IdentityProcesses : MergeIsSafe(q)'
  <2>1. ASSUME NEW q \in IdentityProcesses, q # p PROVE MergeIsSafe(q)'
    <3>1. MergeIsSafe(q) /\ identityCall'[q] = identityCall[q] /\ identityLocks'[q] = identityLocks[q]
      BY <2>1 DEF IdentityInv
    <3> QED
      BY <3>1 DEF MergeIsSafe, Asked, Source
  <2> QED
    BY <2>1
<1>3. LocksAgree'
  <2> SUFFICES ASSUME NEW q \in IdentityProcesses, NEW r \in IdentityProcesses, q # r,
                      NEW l \in identityLocks'[q], NEW m \in identityLocks'[r], l[2] = m[2]
               PROVE  l[1] = "share" /\ m[1] = "share"
    BY DEF LocksAgree
  <2>1. CASE q # p /\ r # p
    BY <2>1 DEF IdentityInv, LocksAgree
  <2>2. CASE q = p
    <3>1. m \in identityLocks[r] /\ r \in IdentityProcesses \ {p}
      BY <2>2
    <3> QED
      BY <2>2, <3>1 DEF IdentityInv, LocksAgree, IsFreeFor
  <2>3. CASE r = p
    <3>1. l \in identityLocks[q] /\ q \in IdentityProcesses \ {p}
      BY <2>3
    <3> QED
      BY <2>3, <3>1 DEF IdentityInv, LocksAgree, IsFreeFor
  <2> QED
    BY <2>1, <2>2, <2>3
<1> QED
  BY <1>1, <1>2, <1>3 DEF IdentityInv

\* What the moves of a call do to its control state and its locks.
LEMMA IdentityMoves ==
  ASSUME IdentityInv, NEW p \in IdentityProcesses, NEW step \in IdentitySteps
  PROVE  /\ IdentityStep(p, step) =>
              /\ identityCall' \in [IdentityProcesses ->
                   [at : IdentitySteps, request : IdentityRequests \cup {Nobody},
                    target : Identities \cup {Nobody}]]
              /\ \A q \in IdentityProcesses \ {p} : identityCall'[q] = identityCall[q]
              /\ identityCall'[p].at = step /\ identityCall'[p].request = identityCall[p].request
              /\ identityCall'[p].target = identityCall[p].target
         /\ CallEnds(p) =>
              /\ identityCall' \in [IdentityProcesses ->
                   [at : IdentitySteps, request : IdentityRequests \cup {Nobody},
                    target : Identities \cup {Nobody}]]
              /\ \A q \in IdentityProcesses \ {p} : identityCall'[q] = identityCall[q]
              /\ identityCall'[p].at = "idle"
              /\ \A q \in IdentityProcesses \ {p} : identityLocks'[q] = identityLocks[q]
              /\ identityLocks'[p] = {} /\ DOMAIN identityLocks' = IdentityProcesses
<1> DEFINE c == identityCall[p]
           d == [c EXCEPT !.at = step]
<1>1. identityCall \in [IdentityProcesses ->
        [at : IdentitySteps, request : IdentityRequests \cup {Nobody},
         target : Identities \cup {Nobody}]]
      /\ DOMAIN identityLocks = IdentityProcesses
  BY DEF IdentityInv, IdentityTyped
<1>2. ASSUME IdentityStep(p, step)
      PROVE  /\ identityCall' \in [IdentityProcesses ->
                   [at : IdentitySteps, request : IdentityRequests \cup {Nobody},
                    target : Identities \cup {Nobody}]]
             /\ \A q \in IdentityProcesses \ {p} : identityCall'[q] = identityCall[q]
             /\ identityCall'[p].at = step /\ identityCall'[p].request = identityCall[p].request
             /\ identityCall'[p].target = identityCall[p].target
  <2>1. /\ d \in [at : IdentitySteps, request : IdentityRequests \cup {Nobody},
                  target : Identities \cup {Nobody}]
        /\ d.at = step /\ d.request = c.request /\ d.target = c.target
    BY <1>1
  <2>2. identityCall' = [identityCall EXCEPT ![p] = d]
    BY <1>1, <1>2 DEF IdentityStep
  <2> HIDE DEF d
  <2> QED
    BY <1>1, <2>1, <2>2
<1>3. ASSUME CallEnds(p)
      PROVE  /\ identityCall' \in [IdentityProcesses ->
                   [at : IdentitySteps, request : IdentityRequests \cup {Nobody},
                    target : Identities \cup {Nobody}]]
             /\ \A q \in IdentityProcesses \ {p} : identityCall'[q] = identityCall[q]
             /\ identityCall'[p].at = "idle"
             /\ \A q \in IdentityProcesses \ {p} : identityLocks'[q] = identityLocks[q]
             /\ identityLocks'[p] = {} /\ DOMAIN identityLocks' = IdentityProcesses
  <2>1. NoIdentityCall \in [at : IdentitySteps, request : IdentityRequests \cup {Nobody},
                            target : Identities \cup {Nobody}]
        /\ NoIdentityCall.at = "idle"
    BY DEF NoIdentityCall, IdentitySteps
  <2> HIDE DEF IdentitySteps
  <2> QED
    BY <1>1, <1>3, <2>1 DEF CallEnds
<1> QED
  BY <1>2, <1>3

\* A record is written: whoever is about to merge into it would hold it.
LEMMA RowWritten ==
  ASSUME IdentityInv, NEW p \in IdentityProcesses, identityCall[p].at = "commit", IdentityWritten(p),
         identityCall' \in [IdentityProcesses ->
           [at : IdentitySteps, request : IdentityRequests \cup {Nobody},
            target : Identities \cup {Nobody}]],
         \A q \in IdentityProcesses \ {p} :
           identityCall'[q] = identityCall[q] /\ identityLocks'[q] = identityLocks[q],
         identityLocks'[p] = {}, DOMAIN identityLocks' = IdentityProcesses, MergeIsSafe(p)'
  PROVE  IdentityInv'
<1> DEFINE r == Asked(p)
           s == r.source
           t == identityCall[p].target
           row == [status |-> IF r.op = "merge" THEN "merged" ELSE "active",
                   canonical |-> IF r.op = "merge" THEN t ELSE Nobody,
                   revision |-> identities[s].revision + 1]
<1>1. /\ identities \in [Identities -> IdentityRow] /\ r \in IdentityRequests
      /\ <<"update", <<"row", s>>>> \in identityLocks[p]
      /\ r.op = "merge" => /\ t # s /\ t \in Identities /\ identities[t].status = "active"
  BY DEF IdentityInv, IdentityTyped, MergeIsSafe, Asked, Source
<1>2. s \in Identities /\ Nobody \notin Identities
  BY <1>1, IdentityAssumption DEF IdentityAssumption, IdentityRequest
<1>3. /\ row \in IdentityRow
      /\ row.status = IF r.op = "merge" THEN "merged" ELSE "active"
      /\ row.canonical = IF r.op = "merge" THEN t ELSE Nobody
  <2>1. identities[s].revision + 1 \in Nat
    BY <1>1, <1>2 DEF IdentityRow
  <2> QED
    BY <1>1, <2>1 DEF IdentityRow
<1>4. identities' = [identities EXCEPT ![s] = row]
  BY DEF IdentityWritten
<1> HIDE DEF row
<1>5. /\ identities' \in [Identities -> IdentityRow] /\ identities'[s] = row
      /\ \A i \in Identities \ {s} : identities'[i] = identities[i]
  BY <1>1, <1>2, <1>3, <1>4
<1>6. IdentityTyped'
  BY <1>5 DEF IdentityTyped
<1>7. LocksAgree'
  BY DEF IdentityInv, LocksAgree
<1>8. ASSUME NEW q \in IdentityProcesses, q # p PROVE MergeIsSafe(q)'
  <2> DEFINE u == identityCall[q].target
  <2>1. MergeIsSafe(q) /\ identityCall'[q] = identityCall[q] /\ identityLocks'[q] = identityLocks[q]
    BY <1>8 DEF IdentityInv
  <2>2. ASSUME identityCall[q].at = "commit", Asked(q).op = "merge"
        PROVE  identities'[u].status = "active"
    <3>1. u \in Identities /\ identities[u].status = "active"
          /\ <<"share", <<"row", u>>>> \in identityLocks[q]
      BY <2>1, <2>2 DEF MergeIsSafe
    <3>2. u # s
      <4> SUFFICES ASSUME u = s PROVE FALSE
        OBVIOUS
      <4>1. <<"share", <<"row", s>>>> \in identityLocks[q]
        BY <3>1
      <4> DEFINE l == <<"update", <<"row", s>>>>
                 m == <<"share", <<"row", s>>>>
      <4>2. l \in identityLocks[p] /\ m \in identityLocks[q] /\ l[2] = m[2] /\ l[1] = "update"
        BY <1>1, <4>1
      <4>3. l[1] = "share"
        <5> HIDE DEF l, m
        <5> QED
          BY <1>8, <4>2 DEF IdentityInv, LocksAgree
      <4> HIDE DEF l
      <4> QED
        BY <4>2, <4>3
    <3> QED
      BY <1>5, <3>1, <3>2
  <2> QED
    BY <2>1, <2>2 DEF MergeIsSafe, Asked, Source
<1>9. MergesAreAcyclic'
  <2> SUFFICES ASSUME NEW loop \in (SUBSET Identities) \ {{}},
                      \A i \in loop : identities'[i].status = "merged" /\ identities'[i].canonical \in loop
               PROVE  FALSE
    BY DEF MergesAreAcyclic
  <2>1. CASE s \notin loop
    <3>1. \A i \in loop : identities[i].status = "merged" /\ identities[i].canonical \in loop
      BY <1>5, <2>1
    <3> QED
      BY <3>1 DEF IdentityInv, MergesAreAcyclic
  <2>2. CASE s \in loop
    <3>1. r.op = "merge" /\ t \in loop
      BY <1>3, <1>5, <2>2
    <3>2. identities'[t].status = "active"
      BY <1>1, <1>5, <3>1
    <3> QED
      BY <3>1, <3>2
  <2> QED
    BY <2>1, <2>2
<1> QED
  BY <1>6, <1>7, <1>8, <1>9 DEF IdentityInv

\* Every step keeps the merges apart.
LEMMA NextIdentityInv == IdentityInv /\ [IdentityNext]_identityVars => IdentityInv'
<1> SUFFICES ASSUME IdentityInv, [IdentityNext]_identityVars PROVE IdentityInv'
  OBVIOUS
<1> DEFINE Calls == [at : IdentitySteps, request : IdentityRequests \cup {Nobody},
                     target : Identities \cup {Nobody}]
<1>1. /\ identityCall \in [IdentityProcesses -> Calls] /\ DOMAIN identityLocks = IdentityProcesses
      /\ identities \in [Identities -> IdentityRow]
      /\ \A p \in IdentityProcesses : MergeIsSafe(p)
  BY DEF IdentityInv, IdentityTyped
\* A call ends without a change.
<1>2. ASSUME NEW p \in IdentityProcesses, CallEnds(p), identities' = identities PROVE IdentityInv'
  <2>1. "idle" \in IdentitySteps
    BY DEF IdentitySteps
  <2>2. MergeIsSafe(p)'
    BY <1>2, <2>1, IdentityMoves DEF MergeIsSafe
  <2> QED
    BY <1>2, <2>1, <2>2, IdentityMoves, NoRowChanges
\* A call goes on, with the same locks or one more.
<1>3. ASSUME NEW p \in IdentityProcesses, identities' = identities,
             NEW step \in IdentitySteps \ {"idle"}, IdentityStep(p, step), identityCall[p].at # "idle",
             identityLocks' = identityLocks
               \/ \E mode \in {"share", "update"} : \E x : Lock(p, mode, x),
             step \in {"target", "commit"} => <<"update", <<"row", Source(p)>>>> \in identityLocks'[p],
             step = "target" => Asked(p).op = "merge", step = "insert" => Asked(p).op = "create",
             step = "commit" /\ Asked(p).op = "merge" =>
               LET t == identityCall[p].target IN
               /\ t # Source(p) /\ identities[t].status = "active"
               /\ <<"share", <<"row", t>>>> \in identityLocks'[p]
      PROVE  IdentityInv'
  <2>1. /\ identityCall' \in [IdentityProcesses -> Calls]
        /\ \A q \in IdentityProcesses \ {p} : identityCall'[q] = identityCall[q]
        /\ identityCall'[p].at = step /\ identityCall'[p].request = identityCall[p].request
        /\ identityCall'[p].target = identityCall[p].target
    BY <1>3, IdentityMoves
  <2>2. /\ DOMAIN identityLocks' = IdentityProcesses
        /\ \A q \in IdentityProcesses \ {p} : identityLocks'[q] = identityLocks[q]
        /\ \A l \in identityLocks'[p] : l \in identityLocks[p] \/ IsFreeFor(p, l[1], l[2])
    <3>1. CASE identityLocks' = identityLocks
      BY <1>1, <3>1
    <3>2. ASSUME NEW mode \in {"share", "update"}, NEW x, Lock(p, mode, x)
          PROVE  /\ DOMAIN identityLocks' = IdentityProcesses
                 /\ \A q \in IdentityProcesses \ {p} : identityLocks'[q] = identityLocks[q]
                 /\ \A l \in identityLocks'[p] : l \in identityLocks[p] \/ IsFreeFor(p, l[1], l[2])
      <4>1. /\ IsFreeFor(p, mode, x)
            /\ identityLocks' = [identityLocks EXCEPT ![p] = @ \cup {<<mode, x>>}]
        BY <3>2 DEF Lock
      <4>2. identityLocks'[p] = identityLocks[p] \cup {<<mode, x>>}
        BY <1>1, <4>1
      <4>3. IsFreeFor(p, <<mode, x>>[1], <<mode, x>>[2])
        BY <4>1
      <4> QED
        BY <1>1, <4>1, <4>2, <4>3
    <3> QED
      BY <1>3, <3>1, <3>2
  <2>3. MergeIsSafe(p)'
    BY <1>1, <1>3, <2>1 DEF MergeIsSafe, Asked, Source
  <2> QED
    BY <1>3, <2>1, <2>2, <2>3, NoRowChanges
<1>4. ASSUME NEW p \in IdentityProcesses, NEW r \in IdentityRequests, AskIdentity(p, r)
      PROVE  IdentityInv'
  <2> DEFINE d == [at |-> "replay", request |-> r,
                   target |-> IF r.target # Nobody THEN r.target ELSE identities[r.source].canonical]
  <2>1. /\ r.source \in Identities /\ r.target \in Identities \cup {Nobody}
        /\ r.op = "merge" => r.target # Nobody
    BY IdentityAssumption DEF IdentityAssumption, IdentityRequest
  <2>2. /\ d \in Calls /\ d.at = "replay" /\ d.request = r
        /\ r.op = "merge" => d.target \in Identities
    BY <1>1, <2>1 DEF IdentityRow, IdentitySteps
  <2>3. /\ identityCall' = [identityCall EXCEPT ![p] = d]
        /\ identities' = identities /\ identityLocks' = identityLocks
    BY <1>4 DEF AskIdentity, identityTables
  <2> HIDE DEF d
  <2>4. /\ identityCall' \in [IdentityProcesses -> Calls] /\ identityCall'[p] = d
        /\ \A q \in IdentityProcesses \ {p} : identityCall'[q] = identityCall[q]
    BY <1>1, <2>2, <2>3
  <2>5. MergeIsSafe(p)'
    BY <2>2, <2>4 DEF MergeIsSafe, Asked
  <2> QED
    BY <1>1, <2>3, <2>4, <2>5, NoRowChanges
<1>5. ASSUME NEW p \in IdentityProcesses, ReplayIdentity(p) PROVE IdentityInv'
  <2>1. CASE CallEnds(p)
    BY <1>2, <1>5, <2>1 DEF ReplayIdentity, identityTables
  <2>2. CASE IdentityStep(p, "key") /\ identityLocks' = identityLocks
    BY <1>3, <1>5, <2>2 DEF ReplayIdentity, identityTables, IdentityAt, IdentitySteps
  <2> QED
    BY <1>5, <2>1, <2>2 DEF ReplayIdentity, AnswerWith, Reject
<1>6. ASSUME NEW p \in IdentityProcesses, ReconcileIdentity(p) PROVE IdentityInv'
  BY <1>2, <1>6 DEF ReconcileIdentity, identityTables, AnswerWith, Reject
<1>7. ASSUME NEW p \in IdentityProcesses, LockKey(p) PROVE IdentityInv'
  <2>1. Lock(p, "update", <<"key", Asked(p).key>>)
    BY <1>7 DEF LockKey
  <2> QED
    BY <1>3, <1>7, <2>1 DEF LockKey, NoIdentityWrite, identityTables, IdentityAt, IdentitySteps
<1>8. ASSUME NEW p \in IdentityProcesses, Lookup(p) PROVE IdentityInv'
  <2>1. CASE CallEnds(p)
    BY <1>2, <1>8, <2>1 DEF Lookup, identityTables
  <2>2. ASSUME NEW step \in {"insert", "pair", "source"}, IdentityStep(p, step),
               identityLocks' = identityLocks, step = "insert" => Asked(p).op = "create"
        PROVE  IdentityInv'
    BY <1>3, <1>8, <2>2 DEF Lookup, identityTables, IdentityAt, IdentitySteps
  <2>3. Asked(p).op \in {"create", "merge", "split"}
    <3>1. Asked(p) \in IdentityRequests
      BY <1>1, <1>8 DEF Lookup, IdentityAt, MergeIsSafe, Asked
    <3> QED
      BY <3>1, IdentityAssumption DEF IdentityAssumption, IdentityRequest
  <2> QED
    BY <1>8, <2>1, <2>2, <2>3 DEF Lookup, AnswerWith
<1>9. ASSUME NEW p \in IdentityProcesses, InsertIdentity(p) PROVE IdentityInv'
  <2>1. CASE CallEnds(p)
    BY <1>2, <1>9, <2>1 DEF InsertIdentity, NoIdentityWrite, identityTables
  <2>2. CASE Lock(p, "update", <<"row", Source(p)>>) /\ IdentityStep(p, "commit")
    <3>1. <<"update", <<"row", Source(p)>>>> \in identityLocks'[p]
      BY <1>1, <2>2 DEF Lock
    <3>2. Asked(p).op # "merge"
      BY <1>1, <1>9 DEF InsertIdentity, IdentityAt, MergeIsSafe
    <3> QED
      BY <1>3, <1>9, <2>2, <3>1, <3>2
      DEF InsertIdentity, NoIdentityWrite, identityTables, IdentityAt, IdentitySteps
  <2> QED
    BY <1>9, <2>1, <2>2 DEF InsertIdentity
<1>10. ASSUME NEW p \in IdentityProcesses, LockPair(p) PROVE IdentityInv'
  <2>1. Lock(p, "update", <<"pair", {Source(p), identityCall[p].target}>>)
    BY <1>10 DEF LockPair
  <2> QED
    BY <1>3, <1>10, <2>1 DEF LockPair, NoIdentityWrite, identityTables, IdentityAt, IdentitySteps
<1>11. ASSUME NEW p \in IdentityProcesses, LockSource(p) PROVE IdentityInv'
  <2>1. CASE CallEnds(p)
    BY <1>2, <1>11, <2>1 DEF LockSource, NoIdentityWrite, identityTables
  <2>2. CASE Lock(p, "update", <<"row", Source(p)>>)
             /\ IdentityStep(p, IF Asked(p).op = "merge" THEN "target" ELSE "commit")
    <3>1. <<"update", <<"row", Source(p)>>>> \in identityLocks'[p]
      BY <1>1, <2>2 DEF Lock
    <3> QED
      BY <1>3, <1>11, <2>2, <3>1
      DEF LockSource, NoIdentityWrite, identityTables, IdentityAt, IdentitySteps
  <2> QED
    BY <1>11, <2>1, <2>2 DEF LockSource
<1>12. ASSUME NEW p \in IdentityProcesses, LockTarget(p) PROVE IdentityInv'
  <2> DEFINE t == identityCall[p].target
  <2>1. CASE CallEnds(p)
    BY <1>2, <1>12, <2>1 DEF LockTarget, NoIdentityWrite, identityTables
  <2>2. CASE Lock(p, "share", <<"row", t>>) /\ IdentityStep(p, "commit")
             /\ identities[t].status = "active" /\ t # Source(p)
    <3>1. <<"share", <<"row", t>>>> \in identityLocks'[p] /\ identityLocks[p] \subseteq identityLocks'[p]
      BY <1>1, <2>2 DEF Lock
    <3>2. <<"update", <<"row", Source(p)>>>> \in identityLocks'[p]
      BY <1>1, <1>12, <3>1 DEF LockTarget, IdentityAt, MergeIsSafe
    <3> QED
      BY <1>3, <1>12, <2>2, <3>1, <3>2
      DEF LockTarget, NoIdentityWrite, identityTables, IdentityAt, IdentitySteps
  <2> QED
    BY <1>12, <2>1, <2>2 DEF LockTarget
<1>13. ASSUME NEW p \in IdentityProcesses, CommitIdentity(p) PROVE IdentityInv'
  <2>1. CallEnds(p) /\ IdentityWritten(p) /\ identityCall[p].at = "commit" /\ "idle" \in IdentitySteps
    BY <1>13 DEF CommitIdentity, AnswerWith, IdentityAt, IdentitySteps
  <2>2. MergeIsSafe(p)'
    BY <2>1, IdentityMoves DEF MergeIsSafe
  <2> QED
    BY <2>1, <2>2, IdentityMoves, RowWritten
<1>14. ASSUME NEW p \in IdentityProcesses, CommitIdentityFails(p) PROVE IdentityInv'
  <2>1. /\ IdentityStep(p, "reconcile") /\ identityCall[p].at = "commit" /\ "reconcile" \in IdentitySteps
        /\ identityLocks' = [identityLocks EXCEPT ![p] = {}]
    BY <1>14 DEF CommitIdentityFails, IdentityAt, IdentitySteps
  <2>2. MergeIsSafe(p)'
    <3>1. /\ identityCall'[p].at = "reconcile" /\ identityCall'[p].request = identityCall[p].request
          /\ identityCall'[p].target = identityCall[p].target /\ MergeIsSafe(p)
      BY <1>1, <2>1, IdentityMoves DEF IdentityInv
    <3> QED
      BY <2>1, <3>1 DEF MergeIsSafe, Asked
  <2>3. /\ DOMAIN identityLocks' = IdentityProcesses /\ identityLocks'[p] = {}
        /\ \A q \in IdentityProcesses \ {p} : identityLocks'[q] = identityLocks[q]
    BY <1>1, <2>1
  <2>4. CASE IdentityWritten(p)
    BY <2>1, <2>2, <2>3, <2>4, IdentityMoves, RowWritten
  <2>5. CASE identities' = identities
    BY <2>1, <2>2, <2>3, <2>5, IdentityMoves, NoRowChanges
  <2> QED
    BY <1>14, <2>4, <2>5 DEF CommitIdentityFails, identityTables
<1>15. ASSUME NEW p \in IdentityProcesses, IdentityStatementFails(p) PROVE IdentityInv'
  BY <1>2, <1>15 DEF IdentityStatementFails, identityTables
<1>16. CASE UNCHANGED identityVars
  BY <1>16 DEF identityVars, identityTables, IdentityInv, IdentityTyped, LocksAgree, MergeIsSafe, Asked,
     Source, MergesAreAcyclic
<1> QED
  BY <1>4, <1>5, <1>6, <1>7, <1>8, <1>9, <1>10, <1>11, <1>12, <1>13, <1>14, <1>15, <1>16
  DEF IdentityNext

\* However many processes merge, split and create, whatever fails: every identity
\* has a canonical one (mutateIdentity and the locks it takes, fabric-store.mjs).
THEOREM MergesStayAcyclic == IdentitySpec => []MergesAreAcyclic
<1>1. IdentityInv => MergesAreAcyclic
  BY DEF IdentityInv
<1> QED
  BY InitIdentityInv, NextIdentityInv, <1>1, PTL DEF IdentitySpec

(***************************************************************************)
(* Documents.  Whoever has passed the transition holds the lock of the     *)
(* document, so the head it has compared is still the head when it commits.*)
(***************************************************************************)

WriteSteps == {"idle", "document", "idempotency", "replay", "transition", "head", "commit"}
DocumentWrites == [at : WriteSteps, request : DocumentRequests \cup {NoDocument}]

DocumentTyped ==
  /\ revisions \subseteq DocumentRequests
  /\ heads \in [DocumentIds -> DocumentRequests \cup {NoDocument}]
  /\ write \in [Writers -> DocumentWrites]
  /\ DOMAIN writeLocks = Writers

HistoryOf(d) == {r \in revisions : r.doc = d}
HeadRevision(d) == IF heads[d] = NoDocument THEN 0 ELSE heads[d].revision

OneHistory(d) ==
  /\ IsFiniteSet(HistoryOf(d)) /\ Cardinality(HistoryOf(d)) = HeadRevision(d)
  /\ {r.revision : r \in HistoryOf(d)} = 1..HeadRevision(d)
  /\ heads[d] # NoDocument =>
       heads[d] \in HistoryOf(d) /\ \A r \in HistoryOf(d) : r.vault = heads[d].vault

DocumentLocksApart ==
  \A v, w \in Writers : v # w =>
    \A d \in DocumentIds : <<"document", d>> \in writeLocks[v] => <<"document", d>> \notin writeLocks[w]

WriteIsSafe(w) ==
  /\ write[w].at # "idle" => write[w].request \in DocumentRequests
  /\ write[w].at \in {"idempotency", "replay", "transition", "head", "commit"} =>
       <<"document", Sent(w).doc>> \in writeLocks[w]
  /\ write[w].at \in {"head", "commit"} => MayFollow(heads[Sent(w).doc], Sent(w))

DocumentInv ==
  /\ DocumentTyped /\ DocumentLocksApart /\ (\A w \in Writers : WriteIsSafe(w))
  /\ (\A d \in DocumentIds : OneHistory(d)) /\ stored \subseteq revisions

\* No document has been written.
LEMMA InitDocumentInv == DocumentInit => DocumentInv
<1> SUFFICES ASSUME DocumentInit PROVE DocumentInv
  OBVIOUS
<1>1. DocumentTyped
  BY DEF DocumentInit, DocumentTyped, DocumentWrites, WriteSteps, NoDocumentWrite
<1>2. DocumentLocksApart /\ (\A w \in Writers : WriteIsSafe(w)) /\ stored \subseteq revisions
  BY DEF DocumentInit, DocumentLocksApart, WriteIsSafe, NoDocumentWrite
<1>3. ASSUME NEW d \in DocumentIds PROVE OneHistory(d)
  <2>1. HistoryOf(d) = {} /\ HeadRevision(d) = 0 /\ heads[d] = NoDocument
    BY DEF DocumentInit, HistoryOf, HeadRevision
  <2>2. 1..0 = {}
    OBVIOUS
  <2> QED
    BY <2>1, <2>2, FS_EmptySet DEF OneHistory
<1> QED
  BY <1>1, <1>2, <1>3 DEF DocumentInv

\* A step of one write that changes no row.
LEMMA NoDocumentChanges ==
  ASSUME DocumentInv, NEW w \in Writers, revisions' = revisions, heads' = heads,
         stored' \subseteq revisions, write' \in [Writers -> DocumentWrites],
         DOMAIN writeLocks' = Writers,
         \A v \in Writers \ {w} : write'[v] = write[v] /\ writeLocks'[v] = writeLocks[v],
         \A d \in DocumentIds : <<"document", d>> \in writeLocks'[w] =>
           <<"document", d>> \in writeLocks[w] \/ ~IsLockedFor(w, <<"document", d>>),
         WriteIsSafe(w)'
  PROVE  DocumentInv'
<1>1. DocumentTyped' /\ stored' \subseteq revisions'
  BY DEF DocumentInv, DocumentTyped
<1>2. \A d \in DocumentIds : OneHistory(d)'
  BY DEF DocumentInv, OneHistory, HistoryOf, HeadRevision
<1>3. \A v \in Writers : WriteIsSafe(v)'
  <2>1. ASSUME NEW v \in Writers, v # w PROVE WriteIsSafe(v)'
    <3>1. WriteIsSafe(v) /\ write'[v] = write[v] /\ writeLocks'[v] = writeLocks[v]
      BY <2>1 DEF DocumentInv
    <3> QED
      BY <3>1 DEF WriteIsSafe, Sent
  <2> QED
    BY <2>1
<1>4. DocumentLocksApart'
  <2> SUFFICES ASSUME NEW v \in Writers, NEW u \in Writers, v # u, NEW d \in DocumentIds,
                      <<"document", d>> \in writeLocks'[v], <<"document", d>> \in writeLocks'[u]
               PROVE  FALSE
    BY DEF DocumentLocksApart
  <2> DEFINE lock == <<"document", d>>
  <2>1. \A a, b \in Writers : a # b => ~(lock \in writeLocks[a] /\ lock \in writeLocks[b])
    BY DEF DocumentInv, DocumentLocksApart
  <2>2. lock \in writeLocks'[w] => lock \in writeLocks[w] \/ \A b \in Writers \ {w} : lock \notin writeLocks[b]
    BY DEF IsLockedFor
  <2> HIDE DEF lock
  <2>3. lock \in writeLocks'[v] /\ lock \in writeLocks'[u]
    BY DEF lock
  <2> QED
    BY <2>1, <2>2, <2>3
<1> QED
  BY <1>1, <1>2, <1>3, <1>4 DEF DocumentInv

\* The next revision of a document is written.
LEMMA RevisionAdded ==
  ASSUME DocumentInv, NEW w \in Writers, write[w].at = "commit", RowsWritten(w),
         stored' \subseteq revisions \cup {Sent(w)}, WriteEnds(w)
  PROVE  DocumentInv'
<1>0. PICK r : r = Sent(w)
  OBVIOUS
<1>a. PICK d : d = r.doc
  OBVIOUS
<1>b. PICK n : n = HeadRevision(d)
  OBVIOUS
<1>1. /\ r \in DocumentRequests /\ MayFollow(heads[d], r) /\ <<"document", d>> \in writeLocks[w]
      /\ revisions' = revisions \cup {r} /\ revisions \subseteq DocumentRequests
      /\ heads \in [DocumentIds -> DocumentRequests \cup {NoDocument}]
  BY <1>0, <1>a DEF DocumentInv, DocumentTyped, WriteIsSafe, RowsWritten, Sent
<1>2. /\ d \in DocumentIds /\ r # NoDocument /\ r.revision \in Nat
      /\ \A q \in DocumentRequests : q.revision \in Nat
  BY <1>1, <1>a, DocumentAssumption DEF DocumentAssumption, DocumentIds, DocumentRequest
<1>3. /\ heads' \in [DocumentIds -> DocumentRequests \cup {NoDocument}]
      /\ heads'[d] = r /\ \A e \in DocumentIds \ {d} : heads'[e] = heads[e]
  BY <1>0, <1>a, <1>1, <1>2 DEF RowsWritten
<1>4. n \in Nat /\ r.revision = n + 1
  BY <1>b, <1>1, <1>2 DEF HeadRevision, MayFollow
<1>5. /\ write' \in [Writers -> DocumentWrites] /\ DOMAIN writeLocks' = Writers
      /\ write'[w].at = "idle" /\ writeLocks'[w] = {}
      /\ \A v \in Writers \ {w} : write'[v] = write[v] /\ writeLocks'[v] = writeLocks[v]
  <2>1. NoDocumentWrite \in DocumentWrites /\ NoDocumentWrite.at = "idle"
    BY DEF NoDocumentWrite, DocumentWrites, WriteSteps
  <2> QED
    BY <2>1 DEF WriteEnds, DocumentInv, DocumentTyped
<1>6. OneHistory(d)'
  <2>1. HistoryOf(d)' = HistoryOf(d) \cup {r}
    BY <1>a, <1>1 DEF HistoryOf
  <2>2. /\ IsFiniteSet(HistoryOf(d)) /\ Cardinality(HistoryOf(d)) = n
        /\ {q.revision : q \in HistoryOf(d)} = 1..n
        /\ heads[d] # NoDocument => \A q \in HistoryOf(d) : q.vault = heads[d].vault
    BY <1>b, <1>2 DEF DocumentInv, OneHistory
  <2>3. r \notin HistoryOf(d)
    <3>1. n + 1 \notin 1..n
      BY <1>4
    <3> QED
      BY <1>4, <2>2, <3>1
  <2>4. IsFiniteSet(HistoryOf(d)') /\ Cardinality(HistoryOf(d)') = n + 1
    BY <2>1, <2>2, <2>3, FS_AddElement
  <2>5. HeadRevision(d)' = n + 1
    BY <1>2, <1>3, <1>4 DEF HeadRevision
  <2>6. {q.revision : q \in HistoryOf(d)'} = 1..(n + 1)
    <3>1. 1..(n + 1) = (1..n) \cup {n + 1}
      BY <1>4
    <3>2. {q.revision : q \in HistoryOf(d) \cup {r}} = {q.revision : q \in HistoryOf(d)} \cup {r.revision}
      OBVIOUS
    <3> QED
      BY <1>4, <2>1, <2>2, <3>1, <3>2
  <2>7. \A q \in HistoryOf(d) : q.vault = r.vault
    <3>1. CASE heads[d] = NoDocument
      <4>1. Cardinality(HistoryOf(d)) = 0
        BY <1>b, <2>2, <3>1 DEF HeadRevision
      <4> QED
        BY <2>2, <4>1, FS_EmptySet
    <3>2. CASE heads[d] # NoDocument
      BY <1>1, <2>2, <3>2 DEF MayFollow
    <3> QED
      BY <3>1, <3>2
  <2> QED
    BY <1>3, <2>1, <2>4, <2>5, <2>6, <2>7 DEF OneHistory
<1>7. ASSUME NEW e \in DocumentIds, e # d PROVE OneHistory(e)'
  <2>1. HistoryOf(e)' = HistoryOf(e) /\ heads'[e] = heads[e] /\ OneHistory(e)
    BY <1>a, <1>1, <1>3, <1>7 DEF HistoryOf, DocumentInv
  <2> QED
    BY <2>1 DEF OneHistory, HeadRevision
<1>8. ASSUME NEW v \in Writers PROVE WriteIsSafe(v)'
  <2>1. CASE v = w
    BY <1>5, <2>1 DEF WriteIsSafe
  <2>2. CASE v # w
    <3>1. WriteIsSafe(v) /\ write'[v] = write[v] /\ writeLocks'[v] = writeLocks[v]
      BY <1>5, <2>2 DEF DocumentInv
    <3>2. ASSUME write[v].at \in {"head", "commit"} PROVE heads'[Sent(v).doc] = heads[Sent(v).doc]
      <4>1. Sent(v) \in DocumentRequests /\ <<"document", Sent(v).doc>> \in writeLocks[v]
        BY <3>1, <3>2 DEF WriteIsSafe, Sent
      <4>2. Sent(v).doc \in DocumentIds
        BY <4>1 DEF DocumentIds
      <4>3. Sent(v).doc # d
        BY <1>1, <1>2, <2>2, <4>1 DEF DocumentInv, DocumentLocksApart
      <4> QED
        BY <1>3, <4>2, <4>3
    <3> QED
      BY <3>1, <3>2 DEF WriteIsSafe, Sent
  <2> QED
    BY <2>1, <2>2
<1>9. DocumentLocksApart'
  BY <1>5 DEF DocumentInv, DocumentLocksApart
<1>10. DocumentTyped' /\ stored' \subseteq revisions'
  BY <1>0, <1>1, <1>3, <1>5 DEF DocumentTyped
<1> QED
  BY <1>6, <1>7, <1>8, <1>9, <1>10 DEF DocumentInv

\* What the moves of a write do to its control state and its locks.
LEMMA WriteMoves ==
  ASSUME DocumentInv, NEW w \in Writers, NEW step \in WriteSteps
  PROVE  /\ WriteStep(w, step) =>
              /\ write' \in [Writers -> DocumentWrites]
              /\ \A v \in Writers \ {w} : write'[v] = write[v]
              /\ write'[w].at = step /\ write'[w].request = write[w].request
         /\ WriteEnds(w) =>
              /\ write' \in [Writers -> DocumentWrites]
              /\ \A v \in Writers \ {w} : write'[v] = write[v]
              /\ write'[w].at = "idle"
              /\ \A v \in Writers \ {w} : writeLocks'[v] = writeLocks[v]
              /\ writeLocks'[w] = {} /\ DOMAIN writeLocks' = Writers
<1> DEFINE d == [write[w] EXCEPT !.at = step]
<1>1. write \in [Writers -> DocumentWrites] /\ DOMAIN writeLocks = Writers
  BY DEF DocumentInv, DocumentTyped
<1>2. d \in DocumentWrites /\ d.at = step /\ d.request = write[w].request
  BY <1>1 DEF DocumentWrites
<1>3. WriteStep(w, step) => write' = [write EXCEPT ![w] = d]
  BY <1>1 DEF WriteStep
<1>4. NoDocumentWrite \in DocumentWrites /\ NoDocumentWrite.at = "idle"
  BY DEF NoDocumentWrite, DocumentWrites, WriteSteps
<1> HIDE DEF d
<1> QED
  BY <1>1, <1>2, <1>3, <1>4 DEF WriteEnds

\* Every step of every write keeps the histories.
LEMMA NextDocumentInv == DocumentInv /\ [DocumentNext]_documentVars => DocumentInv'
<1> SUFFICES ASSUME DocumentInv, [DocumentNext]_documentVars PROVE DocumentInv'
  OBVIOUS
<1>1. /\ write \in [Writers -> DocumentWrites] /\ DOMAIN writeLocks = Writers
      /\ stored \subseteq revisions /\ \A w \in Writers : WriteIsSafe(w)
  BY DEF DocumentInv, DocumentTyped
<1>2. ASSUME NEW w \in Writers, WriteEnds(w), revisions' = revisions, heads' = heads,
             stored' \subseteq revisions
      PROVE  DocumentInv'
  <2>1. "idle" \in WriteSteps
    BY DEF WriteSteps
  <2>2. WriteIsSafe(w)'
    BY <1>2, <2>1, WriteMoves DEF WriteIsSafe
  <2> QED
    BY <1>2, <2>1, <2>2, WriteMoves, NoDocumentChanges
<1>3. ASSUME NEW w \in Writers, NEW r \in DocumentRequests, StartWrite(w, r) PROVE DocumentInv'
  <2> DEFINE d == [at |-> "document", request |-> r]
  <2>1. d \in DocumentWrites /\ d.at = "document" /\ d.request = r
    BY DEF DocumentWrites, WriteSteps
  <2>2. /\ write' = [write EXCEPT ![w] = d]
        /\ UNCHANGED <<revisions, heads, writeLocks, stored>>
    BY <1>3 DEF StartWrite
  <2> HIDE DEF d
  <2>3. /\ write' \in [Writers -> DocumentWrites] /\ write'[w] = d
        /\ \A v \in Writers \ {w} : write'[v] = write[v]
    BY <1>1, <2>1, <2>2
  <2>4. WriteIsSafe(w)'
    BY <2>1, <2>3 DEF WriteIsSafe
  <2> QED
    BY <1>1, <2>2, <2>3, <2>4, NoDocumentChanges
<1>4. ASSUME NEW w \in Writers, LockDocument(w) PROVE DocumentInv'
  <2>1. UNCHANGED <<revisions, heads, stored>> /\ {"idempotency", "replay"} \subseteq WriteSteps
        /\ write[w].request \in DocumentRequests
    BY <1>1, <1>4 DEF LockDocument, NoRowsWritten, WriteSteps, WriteIsSafe
  <2>2. CASE write[w].at = "document"
    <3> DEFINE lock == <<"document", Sent(w).doc>>
    <3>1. /\ ~IsLockedFor(w, lock) /\ WriteStep(w, "idempotency")
          /\ writeLocks' = [writeLocks EXCEPT ![w] = @ \cup {lock}]
      BY <1>4, <2>2 DEF LockDocument, WriteAt
    <3>2. /\ writeLocks'[w] = writeLocks[w] \cup {lock} /\ DOMAIN writeLocks' = Writers
          /\ \A v \in Writers \ {w} : writeLocks'[v] = writeLocks[v]
      BY <1>1, <3>1
    <3>3. WriteIsSafe(w)'
      BY <2>1, <3>1, <3>2, WriteMoves DEF WriteIsSafe, Sent
    <3>4. \A d \in DocumentIds : <<"document", d>> \in writeLocks'[w] =>
            <<"document", d>> \in writeLocks[w] \/ ~IsLockedFor(w, <<"document", d>>)
      BY <3>1, <3>2
    <3> HIDE DEF lock
    <3> QED
      BY <1>1, <2>1, <3>1, <3>2, <3>3, <3>4, WriteMoves, NoDocumentChanges
  <2>3. CASE write[w].at = "idempotency"
    <3> DEFINE lock == <<"idempotency", DocumentKey(Sent(w))>>
    <3>1. /\ WriteStep(w, "replay") /\ writeLocks' = [writeLocks EXCEPT ![w] = @ \cup {lock}]
      BY <1>4, <2>3 DEF LockDocument, WriteAt
    <3>2. /\ writeLocks'[w] = writeLocks[w] \cup {lock} /\ DOMAIN writeLocks' = Writers
          /\ \A v \in Writers \ {w} : writeLocks'[v] = writeLocks[v]
      BY <1>1, <3>1
    <3>3. WriteIsSafe(w)'
      BY <1>1, <2>1, <2>3, <3>1, <3>2, WriteMoves DEF WriteIsSafe, Sent
    <3>4. \A d \in DocumentIds : <<"document", d>> \in writeLocks'[w] => <<"document", d>> \in writeLocks[w]
      BY <3>2
    <3> HIDE DEF lock
    <3> QED
      BY <1>1, <2>1, <3>1, <3>2, <3>3, <3>4, WriteMoves, NoDocumentChanges
  <2> QED
    BY <1>4, <2>2, <2>3 DEF LockDocument
<1>5. ASSUME NEW w \in Writers, ReplayDocument(w) PROVE DocumentInv'
  <2>1. UNCHANGED <<revisions, heads>> /\ "transition" \in WriteSteps
    BY <1>5 DEF ReplayDocument, NoRowsWritten, WriteSteps
  <2>2. CASE WriteStep(w, "transition") /\ UNCHANGED <<writeLocks, stored>>
    <3>1. WriteIsSafe(w)'
      BY <1>1, <1>5, <2>1, <2>2, WriteMoves DEF ReplayDocument, WriteAt, WriteIsSafe, Sent
    <3> QED
      BY <1>1, <2>1, <2>2, <3>1, WriteMoves, NoDocumentChanges
  <2>3. CASE \E r \in revisions : IF r = ReplayOf(w, r) THEN Succeeds(w) ELSE Fails(w)
    <3>1. WriteEnds(w) /\ stored' \subseteq revisions
      BY <1>1, <2>3 DEF Succeeds, Fails, ReplayOf
    <3> QED
      BY <1>2, <2>1, <3>1
  <2> QED
    BY <1>5, <2>2, <2>3 DEF ReplayDocument
<1>6. ASSUME NEW w \in Writers, Transition(w) PROVE DocumentInv'
  <2>1. UNCHANGED <<revisions, heads, stored>> /\ "head" \in WriteSteps
    BY <1>6 DEF Transition, NoRowsWritten, WriteSteps
  <2>2. CASE MayFollow(heads[Sent(w).doc], Sent(w)) /\ WriteStep(w, "head") /\ UNCHANGED writeLocks
    <3>1. WriteIsSafe(w)'
      BY <1>1, <1>6, <2>1, <2>2, WriteMoves DEF Transition, WriteAt, WriteIsSafe, Sent
    <3> QED
      BY <1>1, <2>1, <2>2, <3>1, WriteMoves, NoDocumentChanges
  <2>3. CASE WriteEnds(w)
    BY <1>1, <1>2, <2>1, <2>3
  <2> QED
    BY <1>6, <2>2, <2>3 DEF Transition
<1>7. ASSUME NEW w \in Writers, WriteHead(w) PROVE DocumentInv'
  <2>1. UNCHANGED <<revisions, heads, stored>> /\ "commit" \in WriteSteps
    BY <1>7 DEF WriteHead, NoRowsWritten, WriteSteps
  <2>2. ASSUME NEW paths, writeLocks' = [writeLocks EXCEPT ![w] = @ \cup {<<"path", x>> : x \in paths}],
               WriteStep(w, "commit")
        PROVE  DocumentInv'
    <3>1. /\ writeLocks'[w] = writeLocks[w] \cup {<<"path", x>> : x \in paths} /\ DOMAIN writeLocks' = Writers
          /\ \A v \in Writers \ {w} : writeLocks'[v] = writeLocks[v]
      BY <1>1, <2>2
    <3>2. WriteIsSafe(w)'
      BY <1>1, <1>7, <2>1, <2>2, <3>1, WriteMoves DEF WriteHead, WriteAt, WriteIsSafe, Sent
    <3>3. \A d \in DocumentIds : <<"document", d>> \in writeLocks'[w] => <<"document", d>> \in writeLocks[w]
      BY <3>1
    <3> QED
      BY <1>1, <2>1, <2>2, <3>1, <3>2, <3>3, WriteMoves, NoDocumentChanges
  <2>3. CASE WriteEnds(w)
    BY <1>1, <1>2, <2>1, <2>3
  <2> QED
    BY <1>7, <2>2, <2>3 DEF WriteHead
<1>8. ASSUME NEW w \in Writers, CommitWrite(w) PROVE DocumentInv'
  <2>1. write[w].at = "commit" /\ RowsWritten(w) /\ WriteEnds(w) /\ stored' = stored \cup {Sent(w)}
    BY <1>8 DEF CommitWrite, WriteAt, Succeeds
  <2> QED
    BY <1>1, <2>1, RevisionAdded
<1>9. ASSUME NEW w \in Writers, CommitWriteFails(w) PROVE DocumentInv'
  <2>1. write[w].at = "commit" /\ WriteEnds(w) /\ stored' = stored
    BY <1>9 DEF CommitWriteFails, WriteAt, Fails
  <2>2. CASE RowsWritten(w)
    BY <1>1, <2>1, <2>2, RevisionAdded
  <2>3. CASE UNCHANGED <<revisions, heads>>
    BY <1>1, <1>2, <2>1, <2>3
  <2> QED
    BY <1>9, <2>2, <2>3 DEF CommitWriteFails
<1>10. ASSUME NEW w \in Writers, WriteStatementFails(w) PROVE DocumentInv'
  BY <1>1, <1>2, <1>10 DEF WriteStatementFails, Fails
<1>11. CASE UNCHANGED documentVars
  BY <1>11 DEF documentVars, DocumentInv, DocumentTyped, DocumentLocksApart, WriteIsSafe, Sent, OneHistory,
     HistoryOf, HeadRevision
<1> QED
  BY <1>3, <1>4, <1>5, <1>6, <1>7, <1>8, <1>9, <1>10, <1>11 DEF DocumentNext

\* Whatever is written at once, retried or lost: the revisions of a document are
\* 1, 2, ... once each in one vault, its head is the last one, and what a caller was
\* told is stored is among them (PostgresDocumentStore).
THEOREM HistoryStays == DocumentSpec => []DocumentHistory
<1>1. DocumentInv => DocumentHistory
  <2> SUFFICES ASSUME DocumentInv PROVE DocumentHistory
    OBVIOUS
  <2>1. ASSUME NEW d \in DocumentIds PROVE Cardinality({r.vault : r \in HistoryOf(d)}) <= 1
    <3>1. OneHistory(d)
      BY DEF DocumentInv
    <3>2. CASE heads[d] = NoDocument
      <4>1. HistoryOf(d) = {}
        BY <3>1, <3>2, FS_EmptySet DEF OneHistory, HeadRevision
      <4>2. {r.vault : r \in HistoryOf(d)} = {}
        BY <4>1
      <4>3. Cardinality({r.vault : r \in HistoryOf(d)}) = 0
        BY <4>2, FS_EmptySet
      <4> QED
        BY <4>3
    <3>3. CASE heads[d] # NoDocument
      <4>1. {r.vault : r \in HistoryOf(d)} = {heads[d].vault}
        BY <3>1, <3>3 DEF OneHistory
      <4>2. Cardinality({r.vault : r \in HistoryOf(d)}) = 1
        BY <4>1, FS_Singleton
      <4> QED
        BY <4>2
    <3> QED
      BY <3>2, <3>3
  <2> QED
    BY <2>1 DEF DocumentInv, OneHistory, HistoryOf, HeadRevision, DocumentHistory
<1> QED
  BY InitDocumentInv, NextDocumentInv, <1>1, PTL DEF DocumentSpec

(***************************************************************************)
(* Raw events.  A row is written under a lock of its key by a call that    *)
(* has seen the key free, and its observation never changes afterwards: a  *)
(* call that was told its event is stored compared it with such a row, or  *)
(* wrote it.                                                               *)
(***************************************************************************)

IngestSteps == {"idle", "known", "bound", "cipher", "recoverCipher", "select", "object", "session",
                "alias", "load", "insert", "upsert", "link", "count", "commit", "reconcile", "lock",
                "commitRecovery", "reconcileRecovery"}
IngestCall == [at : IngestSteps, obs : Observations \cup {NoRow}, content : CiphertextIds \cup {NoRow},
               expected : CiphertextIds \cup {NoRow}, canonical : LogicalIds \cup {NoRow},
               listed : SUBSET EventKeys, linked : Nat]

RawTyped ==
  /\ rawEvents \in [EventKeys -> RawRow \cup {NoRow}]
  /\ \A k \in EventKeys : rawEvents[k] # NoRow => Key(rawEvents[k].obs) = k
  /\ logicals \in [LogicalIds -> SUBSET EventKeys]
  /\ aliases \in [LogicalIds -> LogicalIds \cup {NoRow}]
  /\ ingest \in [Callers -> IngestCall]
  /\ DOMAIN held = Callers

\* A row of the event has the payload and the session of the observation.
Backed(o) ==
  \E k \in EventKeys :
    rawEvents[k] # NoRow /\ rawEvents[k].obs.event = o.event /\ rawEvents[k].obs.payload = o.payload
      /\ rawEvents[k].obs.session = o.session

EventLocksApart ==
  \A c, d \in Callers : c # d =>
    \A k \in EventKeys : <<"event", k>> \in held[c] => <<"event", k>> \notin held[d]

\* What a call sends, and what its transaction has locked and seen.
IngestIsSafe(c) ==
  /\ ingest[c].at # "idle" => Obs(c) \in Observations /\ ingest[c].content \in CiphertextIds
  /\ ingest[c].at \in {"alias", "load"} => Obs(c).version = 2
  /\ ingest[c].at = "load" => ingest[c].canonical \in LogicalIds
  /\ ingest[c].at \in {"upsert", "link", "count", "commit"} =>
       <<"event", Key(Obs(c))>> \in held[c] /\ rawEvents[Key(Obs(c))] = NoRow
  /\ ingest[c].at = "commitRecovery" =>
       <<"event", Key(Obs(c))>> \in held[c] /\ rawEvents[Key(Obs(c))] # NoRow
  /\ ingest[c].at \in {"recoverCipher", "lock", "commitRecovery", "reconcileRecovery"} => Backed(Obs(c))

RawInv ==
  RawTyped /\ EventLocksApart /\ (\A c \in Callers : IngestIsSafe(c)) /\ StoredAnswersAreTrue

\* Nothing is sent or stored.
LEMMA InitRawInv == RawInit => RawInv
<1> SUFFICES ASSUME RawInit PROVE RawInv
  OBVIOUS
<1>1. NoIngest \in IngestCall
  BY DEF NoIngest, IngestCall, IngestSteps
<1>2. RawTyped
  BY <1>1 DEF RawInit, RawTyped
<1>3. EventLocksApart /\ \A c \in Callers : IngestIsSafe(c)
  BY DEF RawInit, EventLocksApart, IngestIsSafe, NoIngest
<1> QED
  BY <1>2, <1>3 DEF RawInv, StoredAnswersAreTrue, RawInit

\* The key of an observation and of a row, and the ids of a message.
LEMMA RowsAndKeys ==
  ASSUME RawTyped
  PROVE  /\ \A o \in Observations : Key(o) \in EventKeys /\ o.event = Key(o)[2] /\ o.version \in {1, 2}
         /\ \A k \in EventKeys : rawEvents[k] # NoRow =>
              rawEvents[k] \in RawRow /\ rawEvents[k].obs \in Observations /\ rawEvents[k].obs.event = k[2]
         /\ \A o \in Observations : o.version = 2 => Head(o.ids) \in LogicalIds
         /\ RawRow \cap {NoRow} = {}
<1>1. \A o \in Observations : Key(o) \in EventKeys /\ o.event = Key(o)[2] /\ o.version \in {1, 2}
  BY RawAssumption DEF RawAssumption, Observation, EventKeys, Key
<1>2. ASSUME NEW k \in EventKeys, rawEvents[k] # NoRow
      PROVE  rawEvents[k] \in RawRow /\ rawEvents[k].obs \in Observations /\ rawEvents[k].obs.event = k[2]
  <2>1. rawEvents[k] \in RawRow /\ Key(rawEvents[k].obs) = k
    BY <1>2 DEF RawTyped
  <2>2. rawEvents[k].obs \in Observations
    BY <2>1 DEF RawRow
  <2> QED
    BY <1>1, <2>1, <2>2
<1>3. ASSUME NEW o \in Observations, o.version = 2 PROVE Head(o.ids) \in LogicalIds
  <2>1. o.ids \in Seq(STRING) /\ o.ids # <<>>
    BY <1>3, RawAssumption DEF RawAssumption, Observation
  <2>2. Head(o.ids) = o.ids[1] /\ 1 \in DOMAIN o.ids
    BY <2>1
  <2>3. Head(o.ids) \in Range(o.ids)
    BY <2>2 DEF Range
  <2> QED
    BY <2>3 DEF LogicalIds
<1>4. RawRow \cap {NoRow} = {}
  BY RawAssumption DEF RawAssumption
<1> QED
  BY <1>1, <1>2, <1>3, <1>4

\* What getRawEvent returns is a row of the event.
LEMMA RowFound ==
  ASSUME RawTyped, NEW e, RowOf(e) # NoRow
  PROVE  \E k \in EventKeys : k[2] = e /\ rawEvents[k] # NoRow /\ RowOf(e) = rawEvents[k]
<1>1. RowsOf(e) # {} /\ RowOf(e) = CHOOSE r \in RowsOf(e) : \A q \in RowsOf(e) : q.obs.version <= r.obs.version
  BY DEF RowOf
<1>2. \A r \in RowsOf(e) : r.obs.version \in {1, 2}
  BY RowsAndKeys DEF RowsOf
<1>3. \E r \in RowsOf(e) : \A q \in RowsOf(e) : q.obs.version <= r.obs.version
  <2>1. CASE \E r \in RowsOf(e) : r.obs.version = 2
    BY <1>2, <2>1
  <2>2. CASE ~\E r \in RowsOf(e) : r.obs.version = 2
    BY <1>1, <1>2, <2>2
  <2> QED
    BY <2>1, <2>2
<1>4. RowOf(e) \in RowsOf(e)
  BY <1>1, <1>3
<1> QED
  BY <1>4 DEF RowsOf

\* A row with the payload of an observation of its event has its session too.
LEMMA RowBacks ==
  ASSUME RawTyped, NEW o \in Observations, NEW k \in EventKeys, k[2] = o.event,
         rawEvents[k] # NoRow, rawEvents[k].obs.payload = o.payload
  PROVE  Backed(o)
<1>1. rawEvents[k].obs \in Observations /\ rawEvents[k].obs.event = o.event
  BY RowsAndKeys
<1>2. rawEvents[k].obs.session = o.session
  BY <1>1, RawAssumption DEF RawAssumption
<1> QED
  BY <1>1, <1>2 DEF Backed

\* A step of one call: rows stay with their observations, and only rows that the
\* call has locked change.
LEMMA IngestMoves ==
  ASSUME RawInv, NEW c \in Callers, RawTyped',
         \A k \in EventKeys : rawEvents[k] # NoRow =>
           rawEvents'[k] # NoRow /\ rawEvents'[k].obs = rawEvents[k].obs,
         \A k \in EventKeys : rawEvents'[k] # rawEvents[k] => <<"event", k>> \in held[c],
         \A d \in Callers \ {c} : ingest'[d] = ingest[d] /\ held'[d] = held[d],
         \A k \in EventKeys : <<"event", k>> \in held'[c] =>
           <<"event", k>> \in held[c] \/ ~LockedByOther(c, <<"event", k>>),
         IngestIsSafe(c)',
         \A r \in answered' : r \in answered \/ Backed(r[1])'
  PROVE  RawInv'
<1>1. ASSUME NEW o, Backed(o) PROVE Backed(o)'
  BY <1>1 DEF Backed
<1>2. \A k \in EventKeys, a, b \in Callers : a # b =>
        ~(<<"event", k>> \in held[a] /\ <<"event", k>> \in held[b])
  BY DEF RawInv, EventLocksApart
<1>3. ASSUME NEW d \in Callers, d # c PROVE IngestIsSafe(d)'
  <2>1. IngestIsSafe(d) /\ ingest'[d] = ingest[d] /\ held'[d] = held[d]
    BY <1>3 DEF RawInv
  <2>2. ASSUME ingest[d].at # "idle", <<"event", Key(Obs(d))>> \in held[d]
        PROVE  rawEvents'[Key(Obs(d))] = rawEvents[Key(Obs(d))]
    <3>1. Key(Obs(d)) \in EventKeys
      BY <2>1, <2>2, RowsAndKeys DEF IngestIsSafe, RawInv
    <3>2. <<"event", Key(Obs(d))>> \notin held[c]
      BY <1>2, <1>3, <2>2, <3>1
    <3> QED
      BY <3>1, <3>2
  <2>3. Backed(Obs(d)) => Backed(Obs(d))'
    BY <1>1, <2>1 DEF Backed, Obs
  <2> QED
    BY <2>1, <2>2, <2>3 DEF IngestIsSafe, Obs
<1>4. EventLocksApart'
  <2> SUFFICES ASSUME NEW a \in Callers, NEW b \in Callers, a # b, NEW k \in EventKeys,
                      <<"event", k>> \in held'[a], <<"event", k>> \in held'[b]
               PROVE  FALSE
    BY DEF EventLocksApart
  <2> DEFINE lock == <<"event", k>>
  <2>1. lock \in held'[c] => lock \in held[c] \/ \A d \in Callers \ {c} : lock \notin held[d]
    BY DEF LockedByOther
  <2>2. \A x, y \in Callers : x # y => ~(lock \in held[x] /\ lock \in held[y])
    BY <1>2
  <2>3. lock \in held'[a] /\ lock \in held'[b]
    OBVIOUS
  <2> HIDE DEF lock
  <2> QED
    BY <2>1, <2>2, <2>3
<1>5. StoredAnswersAreTrue'
  <2>1. \A r \in answered : Backed(r[1])
    BY DEF RawInv, StoredAnswersAreTrue, Backed
  <2>2. \A r \in answered' : Backed(r[1])'
    BY <1>1, <2>1
  <2> QED
    BY <2>2 DEF StoredAnswersAreTrue, Backed
<1> QED
  BY <1>3, <1>4, <1>5 DEF RawInv

\* What the moves of a call do to its control state and its locks.
LEMMA IngestControl ==
  ASSUME RawTyped, NEW c \in Callers, NEW step \in IngestSteps
  PROVE  /\ Step(c, step) =>
              /\ ingest' \in [Callers -> IngestCall]
              /\ \A d \in Callers \ {c} : ingest'[d] = ingest[d]
              /\ ingest'[c] = [ingest[c] EXCEPT !.at = step]
              /\ ingest'[c].at = step /\ ingest'[c].obs = ingest[c].obs
              /\ ingest'[c].content = ingest[c].content
         /\ ingest' = [ingest EXCEPT ![c] = NoIngest] =>
              /\ ingest' \in [Callers -> IngestCall]
              /\ \A d \in Callers \ {c} : ingest'[d] = ingest[d]
              /\ ingest'[c].at = "idle"
         /\ \A lock : Take(c, lock) =>
              /\ held'[c] = held[c] \cup {lock} /\ DOMAIN held' = Callers
              /\ \A d \in Callers \ {c} : held'[d] = held[d]
         /\ held' = [held EXCEPT ![c] = {}] =>
              /\ held'[c] = {} /\ DOMAIN held' = Callers
              /\ \A d \in Callers \ {c} : held'[d] = held[d]
<1> DEFINE d == [ingest[c] EXCEPT !.at = step]
<1>1. ingest \in [Callers -> IngestCall] /\ DOMAIN held = Callers
  BY DEF RawTyped
<1>2. d \in IngestCall /\ d.at = step /\ d.obs = ingest[c].obs /\ d.content = ingest[c].content
  BY <1>1 DEF IngestCall
<1>3. Step(c, step) => ingest' = [ingest EXCEPT ![c] = d]
  BY <1>1 DEF Step
<1>4. NoIngest \in IngestCall /\ NoIngest.at = "idle"
  BY DEF NoIngest, IngestCall, IngestSteps
<1>5. d = [ingest[c] EXCEPT !.at = step]
  OBVIOUS
<1> HIDE DEF d
<1>6. Step(c, step) =>
        /\ ingest' \in [Callers -> IngestCall]
        /\ \A e \in Callers \ {c} : ingest'[e] = ingest[e]
        /\ ingest'[c] = d
  BY <1>1, <1>2, <1>3
<1>7. ingest' = [ingest EXCEPT ![c] = NoIngest] =>
        /\ ingest' \in [Callers -> IngestCall]
        /\ \A e \in Callers \ {c} : ingest'[e] = ingest[e]
        /\ ingest'[c].at = "idle"
  BY <1>1, <1>4
<1>8. \A lock : Take(c, lock) =>
        /\ held'[c] = held[c] \cup {lock} /\ DOMAIN held' = Callers
        /\ \A e \in Callers \ {c} : held'[e] = held[e]
  BY <1>1 DEF Take
<1>9. held' = [held EXCEPT ![c] = {}] =>
        /\ held'[c] = {} /\ DOMAIN held' = Callers
        /\ \A e \in Callers \ {c} : held'[e] = held[e]
  BY <1>1
<1> QED
  BY <1>2, <1>5, <1>6, <1>7, <1>8, <1>9

\* A step of one call that writes no row.
LEMMA NoEventWritten ==
  ASSUME RawInv, NEW c \in Callers, UNCHANGED rawTables, ingest' \in [Callers -> IngestCall],
         DOMAIN held' = Callers,
         \A d \in Callers \ {c} : ingest'[d] = ingest[d] /\ held'[d] = held[d],
         \A k \in EventKeys : <<"event", k>> \in held'[c] =>
           <<"event", k>> \in held[c] \/ ~LockedByOther(c, <<"event", k>>),
         IngestIsSafe(c)', answered' = answered
  PROVE  RawInv'
<1>1. RawTyped' /\ rawEvents' = rawEvents
  BY DEF RawInv, RawTyped, rawTables, Key
<1> QED
  BY <1>1, IngestMoves

\* A call that ends; what it answered with success is backed by a row.
LEMMA IngestOver ==
  ASSUME RawInv, NEW c \in Callers, UNCHANGED rawTables, IngestEnds(c),
         answered' = answered \/ (IngestAnswers(c) /\ Backed(Obs(c)))
  PROVE  RawInv'
<1>1. /\ ingest' \in [Callers -> IngestCall] /\ ingest'[c].at = "idle" /\ held'[c] = {}
      /\ DOMAIN held' = Callers
      /\ \A d \in Callers \ {c} : ingest'[d] = ingest[d] /\ held'[d] = held[d]
  <2>1. "idle" \in IngestSteps /\ RawTyped
    BY DEF IngestSteps, RawInv
  <2> QED
    BY <2>1, IngestControl DEF IngestEnds
<1>2. RawTyped' /\ rawEvents' = rawEvents
  BY <1>1 DEF RawInv, RawTyped, rawTables, Key
<1>3. IngestIsSafe(c)'
  BY <1>1 DEF IngestIsSafe
<1>4. \A r \in answered' : r \in answered \/ Backed(r[1])'
  <2>1. Backed(Obs(c)) => \A o : o = Obs(c) => Backed(o)'
    BY <1>2 DEF Backed
  <2>2. CASE IngestAnswers(c) /\ Backed(Obs(c))
    <3>1. \A r \in answered' : r \in answered \/ r[1] = Obs(c)
      BY <2>2 DEF IngestAnswers
    <3> QED
      BY <2>1, <2>2, <3>1
  <2> QED
    BY <2>2
<1> QED
  BY <1>1, <1>2, <1>3, <1>4, IngestMoves

\* The steps before the transaction.
LEMMA BeforeTransaction ==
  ASSUME RawInv, NEW c \in Callers, KnownEvent(c) \/ Bound(c) \/ CommitCiphertext(c)
  PROVE  RawInv'
<1>1. RawTyped /\ IngestIsSafe(c) /\ UNCHANGED rawTables
  BY DEF RawInv, KnownEvent, Bound, CommitCiphertext
<1>2. ASSUME NEW step \in {"bound", "cipher", "select", "lock"}, Step(c, step), UNCHANGED <<held, answered>>,
             ingest[c].at # "idle", step = "lock" => Backed(Obs(c))
      PROVE  RawInv'
  <2>1. step \in IngestSteps
    BY <1>2 DEF IngestSteps
  <2>2. /\ ingest' \in [Callers -> IngestCall] /\ ingest'[c].at = step /\ ingest'[c].obs = ingest[c].obs
        /\ ingest'[c].content = ingest[c].content
        /\ \A d \in Callers \ {c} : ingest'[d] = ingest[d]
    BY <1>1, <1>2, <2>1, IngestControl
  <2>3. step = "lock" => Backed(Obs(c))'
    BY <1>1, <1>2, <2>2 DEF Backed, Obs, rawTables
  <2>4. IngestIsSafe(c)'
    BY <1>1, <1>2, <2>2, <2>3 DEF IngestIsSafe, Obs
  <2> QED
    BY <1>1, <1>2, <2>2, <2>4, NoEventWritten DEF RawTyped
<1>3. CASE KnownEvent(c)
  <2> DEFINE row == RowOf(Obs(c).event)
  <2>1. Obs(c) \in Observations /\ ingest[c].at # "idle"
    BY <1>1, <1>3 DEF KnownEvent, AtStep, IngestIsSafe
  <2>2. row # NoRow /\ SameEvent(row, Obs(c)) => Backed(Obs(c))
    BY <1>1, <2>1, RowFound, RowBacks DEF SameEvent
  <2>3. CASE row = NoRow
    BY <1>2, <1>3, <2>1, <2>3 DEF KnownEvent
  <2>4. CASE Refuses(c)
    BY <1>1, <2>4, IngestOver DEF Refuses
  <2>5. CASE row # NoRow /\ SameEvent(row, Obs(c)) /\ IngestAnswers(c)
    BY <1>1, <2>2, <2>5, IngestOver DEF IngestAnswers
  <2>6. CASE /\ row # NoRow /\ SameEvent(row, Obs(c))
             /\ ingest' = [ingest EXCEPT ![c].at = "recoverCipher", ![c].expected = row.content]
             /\ UNCHANGED <<held, answered>>
    <3> DEFINE d == [ingest[c] EXCEPT !.at = "recoverCipher", !.expected = row.content]
    <3>1. row.content \in CiphertextIds
      <4>1. row \in RawRow
        BY <1>1, <2>6, RowFound, RowsAndKeys
      <4> QED
        BY <4>1 DEF RawRow
    <3>2. ingest \in [Callers -> IngestCall]
      BY <1>1 DEF RawTyped
    <3>3. d \in IngestCall /\ d.at = "recoverCipher" /\ d.obs = ingest[c].obs /\ d.content = ingest[c].content
      BY <3>1, <3>2 DEF IngestCall, IngestSteps
    <3>4. ingest' = [ingest EXCEPT ![c] = d]
      BY <2>6, <3>2
    <3> HIDE DEF d, row
    <3>5. /\ ingest' \in [Callers -> IngestCall] /\ ingest'[c] = d
          /\ \A e \in Callers \ {c} : ingest'[e] = ingest[e]
      BY <3>2, <3>3, <3>4
    <3>6. Backed(Obs(c))'
      BY <1>1, <2>2, <2>6, <3>3, <3>5 DEF Backed, Obs, rawTables
    <3>7. IngestIsSafe(c)'
      BY <1>1, <2>1, <3>3, <3>5, <3>6 DEF IngestIsSafe, Obs
    <3> QED
      BY <1>1, <2>6, <3>5, <3>7, NoEventWritten DEF RawTyped
  <2> QED
    BY <1>3, <2>3, <2>4, <2>5, <2>6 DEF KnownEvent
<1>4. CASE Bound(c)
  <2>1. ingest[c].at # "idle"
    BY <1>4 DEF Bound, AtStep
  <2>2. CASE Refuses(c)
    BY <1>1, <2>2, IngestOver DEF Refuses
  <2>3. CASE Step(c, "cipher") /\ UNCHANGED <<held, answered>>
    BY <1>2, <2>1, <2>3
  <2> QED
    BY <1>4, <2>2, <2>3 DEF Bound
<1>5. CASE CommitCiphertext(c)
  <2>1. UNCHANGED <<held, answered>>
    BY <1>5 DEF CommitCiphertext
  <2>2. CASE AtStep(c, "cipher") /\ Step(c, "select")
    BY <1>2, <2>1, <2>2 DEF AtStep
  <2>3. CASE AtStep(c, "recoverCipher") /\ Step(c, "lock")
    <3>1. Backed(Obs(c)) /\ ingest[c].at # "idle"
      BY <1>1, <2>3 DEF IngestIsSafe, AtStep
    <3> QED
      BY <1>2, <2>1, <2>3, <3>1
  <2> QED
    BY <1>5, <2>2, <2>3 DEF CommitCiphertext
<1> QED
  BY <1>3, <1>4, <1>5

\* The steps of the transaction that write no event and take no event lock.
LEMMA InTransaction ==
  ASSUME RawInv, NEW c \in Callers,
         Existing(c) \/ InsertObject(c) \/ InsertSession(c) \/ FindAlias(c) \/ LoadLogical(c)
  PROVE  RawInv'
<1>1. RawTyped /\ IngestIsSafe(c) /\ UNCHANGED rawTables /\ DOMAIN held = Callers
      /\ ingest \in [Callers -> IngestCall]
  BY DEF RawInv, RawTyped, Existing, InsertObject, InsertSession, FindAlias, LoadLogical, NoWrite, Pure
<1>2. ASSUME NEW d \in IngestCall, ingest' = [ingest EXCEPT ![c] = d], d.obs = ingest[c].obs,
             d.content = ingest[c].content, d.at \in {"object", "session", "alias", "load", "insert"},
             d.at \in {"alias", "load"} => Obs(c).version = 2, d.at = "load" => d.canonical \in LogicalIds,
             ingest[c].at # "idle", answered' = answered, DOMAIN held' = Callers,
             \A e \in Callers \ {c} : held'[e] = held[e],
             \A k \in EventKeys : <<"event", k>> \in held'[c] => <<"event", k>> \in held[c]
      PROVE  RawInv'
  <2>1. /\ ingest' \in [Callers -> IngestCall] /\ ingest'[c] = d
        /\ \A e \in Callers \ {c} : ingest'[e] = ingest[e]
    BY <1>1, <1>2
  <2>2. IngestIsSafe(c)'
    BY <1>1, <1>2, <2>1 DEF IngestIsSafe, Obs
  <2> QED
    BY <1>1, <1>2, <2>1, <2>2, NoEventWritten
<1>3. ASSUME NEW step \in {"object", "session", "alias", "insert"}
      PROVE  /\ [ingest[c] EXCEPT !.at = step] \in IngestCall
             /\ Step(c, step) => ingest' = [ingest EXCEPT ![c] = [ingest[c] EXCEPT !.at = step]]
             /\ [ingest[c] EXCEPT !.at = step].at = step
             /\ [ingest[c] EXCEPT !.at = step].obs = ingest[c].obs
             /\ [ingest[c] EXCEPT !.at = step].content = ingest[c].content
  BY <1>1, <1>3 DEF IngestCall, IngestSteps, Step
<1>4. ASSUME NEW step \in {"object", "session", "alias", "insert"}, Step(c, step),
             step = "alias" => Obs(c).version = 2, ingest[c].at # "idle", answered' = answered,
             \/ UNCHANGED held
             \/ \E x : Take(c, <<"object", x>>) \/ Take(c, <<"session", x>>)
      PROVE  RawInv'
  <2> DEFINE d == [ingest[c] EXCEPT !.at = step]
  <2>1. /\ d \in IngestCall /\ ingest' = [ingest EXCEPT ![c] = d] /\ d.at = step /\ d.obs = ingest[c].obs
        /\ d.content = ingest[c].content
    BY <1>3, <1>4
  <2> HIDE DEF d
  <2>2. /\ DOMAIN held' = Callers /\ \A e \in Callers \ {c} : held'[e] = held[e]
        /\ \A k \in EventKeys : <<"event", k>> \in held'[c] => <<"event", k>> \in held[c]
    BY <1>1, <1>4 DEF Take
  <2> QED
    BY <1>2, <1>4, <2>1, <2>2
<1>5. CASE Existing(c)
  <2> DEFINE o == Obs(c)
             row == IF o.version = 2 THEN RowOf(o.event) ELSE rawEvents[Key(o)]
  <2>1. o \in Observations /\ ingest[c].at # "idle"
    BY <1>1, <1>5 DEF Existing, AtStep, IngestIsSafe
  <2>2. CASE row = NoRow
    BY <1>4, <1>5, <2>1, <2>2 DEF Existing
  <2>3. CASE Refuses(c)
    BY <1>1, <2>3, IngestOver DEF Refuses
  <2>4. CASE row # NoRow /\ row.obs.payload = o.payload /\ IngestAnswers(c)
    <3>1. PICK k \in EventKeys : k[2] = o.event /\ rawEvents[k] # NoRow /\ row = rawEvents[k]
      BY <1>1, <2>1, <2>4, RowFound, RowsAndKeys
    <3>2. Backed(o)
      BY <1>1, <2>1, <2>4, <3>1, RowBacks
    <3> QED
      BY <1>1, <2>4, <3>2, IngestOver DEF IngestAnswers
  <2> QED
    BY <1>5, <2>2, <2>3, <2>4 DEF Existing
<1>6. CASE InsertObject(c)
  BY <1>4, <1>6 DEF InsertObject, Pure, AtStep
<1>7. CASE InsertSession(c)
  <2>1. ingest[c].at # "idle" /\ answered' = answered
    BY <1>7 DEF InsertSession, Pure, AtStep
  <2>2. CASE IngestEnds(c)
    BY <1>1, <2>1, <2>2, IngestOver
  <2>3. CASE /\ UNCHANGED held \/ Take(c, <<"session", Obs(c).session>>)
             /\ Step(c, IF Obs(c).version = 2 THEN "alias" ELSE "insert")
    BY <1>4, <2>1, <2>3
  <2> QED
    BY <1>7, <2>2, <2>3 DEF InsertSession
<1>8. CASE FindAlias(c)
  <2> DEFINE o == Obs(c)
             targets == {aliases[m] : m \in Range(o.ids)} \ {NoRow}
  <2>1. ingest[c].at = "alias" /\ o \in Observations /\ o.version = 2
    BY <1>1, <1>8 DEF FindAlias, AtStep, IngestIsSafe
  <2>2. PICK m \in (IF targets = {} THEN {Head(o.ids)} ELSE targets) :
          ingest' = [ingest EXCEPT ![c].at = "load", ![c].canonical = m]
    BY <1>8 DEF FindAlias
  <2>3. m \in LogicalIds
    <3>1. Range(o.ids) \subseteq LogicalIds
      BY <2>1 DEF LogicalIds
    <3>2. targets \subseteq LogicalIds
      BY <1>1, <3>1 DEF RawTyped
    <3> QED
      BY <1>1, <2>1, <2>2, <3>2, RowsAndKeys
  <2> DEFINE d == [ingest[c] EXCEPT !.at = "load", !.canonical = m]
  <2>4. d \in IngestCall /\ d.at = "load" /\ d.obs = ingest[c].obs /\ d.content = ingest[c].content
        /\ d.canonical = m
    <3>1. ingest[c] \in IngestCall
      BY <1>1
    <3>2. "load" \in IngestSteps
      BY DEF IngestSteps
    <3> QED
      BY <2>3, <3>1, <3>2 DEF IngestCall
  <2>5. ingest' = [ingest EXCEPT ![c] = d] /\ UNCHANGED <<held, answered>>
    BY <1>1, <1>8, <2>2 DEF FindAlias, NoWrite, Pure
  <2> HIDE DEF d
  <2> QED
    BY <1>1, <1>2, <2>1, <2>3, <2>4, <2>5
<1>9. CASE LoadLogical(c)
  <2> DEFINE m == ingest[c].canonical
             d == [ingest[c] EXCEPT !.at = "insert", !.listed = logicals[m],
                     !.canonical = IF logicals[m] = {} THEN Head(Obs(c).ids) ELSE m]
  <2>1. ingest[c].at = "load" /\ Obs(c) \in Observations /\ Obs(c).version = 2 /\ m \in LogicalIds
    BY <1>1, <1>9 DEF LoadLogical, AtStep, IngestIsSafe
  <2>2. logicals[m] \in SUBSET EventKeys /\ Head(Obs(c).ids) \in LogicalIds
    BY <1>1, <2>1, RowsAndKeys DEF RawTyped
  <2>3. d \in IngestCall /\ d.at = "insert" /\ d.obs = ingest[c].obs /\ d.content = ingest[c].content
    BY <1>1, <2>1, <2>2 DEF IngestCall, IngestSteps
  <2>4. ingest' = [ingest EXCEPT ![c] = d] /\ UNCHANGED <<held, answered>>
    BY <1>1, <1>9 DEF LoadLogical, NoWrite, Pure
  <2> HIDE DEF d
  <2> QED
    BY <1>1, <1>2, <2>1, <2>3, <2>4
<1> QED
  BY <1>5, <1>6, <1>7, <1>8, <1>9

\* The steps that hold the event, up to the commit.
LEMMA EventHeld ==
  ASSUME RawInv, NEW c \in Callers,
         InsertEvent(c) \/ UpsertLogical(c) \/ LinkAlias(c) \/ CountEvent(c)
  PROVE  RawInv'
<1> DEFINE o == Obs(c)
           held_at == {"upsert", "link", "count", "commit"}
<1>1. RawTyped /\ IngestIsSafe(c) /\ UNCHANGED rawTables /\ ingest \in [Callers -> IngestCall]
  BY DEF RawInv, RawTyped, InsertEvent, UpsertLogical, LinkAlias, CountEvent, Pure
<1>2. o \in Observations /\ ingest[c].at # "idle" /\ ingest[c].content \in CiphertextIds
  BY <1>1 DEF IngestIsSafe, InsertEvent, UpsertLogical, LinkAlias, CountEvent, AtStep
<1>3. ASSUME NEW d \in IngestCall, ingest' = [ingest EXCEPT ![c] = d], d.obs = ingest[c].obs,
             d.content = ingest[c].content, d.at \in held_at, NEW lock, Take(c, lock),
             answered' = answered,
             \/ lock = <<"event", Key(o)>> /\ ~LockedByOther(c, lock) /\ rawEvents[Key(o)] = NoRow
             \/ ingest[c].at \in held_at /\ \E x : lock \in {<<"logical", x>>, <<"alias", x>>, <<"session", x>>}
      PROVE  RawInv'
  <2>1. /\ ingest' \in [Callers -> IngestCall] /\ ingest'[c] = d
        /\ \A e \in Callers \ {c} : ingest'[e] = ingest[e]
    BY <1>1, <1>3
  <2>2. /\ held'[c] = held[c] \cup {lock} /\ DOMAIN held' = Callers
        /\ \A e \in Callers \ {c} : held'[e] = held[e]
    BY <1>1, <1>3 DEF Take, RawTyped
  <2>3. <<"event", Key(o)>> \in held'[c] /\ rawEvents[Key(o)] = NoRow
    BY <1>1, <1>3, <2>2 DEF IngestIsSafe
  <2>4. IngestIsSafe(c)'
    BY <1>1, <1>2, <1>3, <2>1, <2>3 DEF IngestIsSafe, Obs, rawTables, Key
  <2>5. \A k \in EventKeys : <<"event", k>> \in held'[c] =>
          <<"event", k>> \in held[c] \/ ~LockedByOther(c, <<"event", k>>)
    BY <1>3, <2>2
  <2> QED
    BY <1>1, <1>3, <2>1, <2>2, <2>4, <2>5, NoEventWritten
<1>4. ASSUME NEW step \in held_at
      PROVE  /\ [ingest[c] EXCEPT !.at = step] \in IngestCall
             /\ Step(c, step) => ingest' = [ingest EXCEPT ![c] = [ingest[c] EXCEPT !.at = step]]
             /\ [ingest[c] EXCEPT !.at = step].at = step
             /\ [ingest[c] EXCEPT !.at = step].obs = ingest[c].obs
             /\ [ingest[c] EXCEPT !.at = step].content = ingest[c].content
  BY <1>1, <1>4 DEF IngestCall, IngestSteps, Step
<1>5. CASE InsertEvent(c)
  <2> DEFINE row == rawEvents[Key(o)]
             step == IF o.version = 2 THEN "upsert" ELSE "count"
             d == [ingest[c] EXCEPT !.at = step]
             lock == <<"event", Key(o)>>
  <2>1. CASE row = NoRow
    <3>1. step \in held_at
      OBVIOUS
    <3>2. Step(c, step) /\ Take(c, lock) /\ answered' = answered /\ ~LockedByOther(c, lock)
      BY <1>5, <2>1 DEF InsertEvent
    <3> HIDE DEF step
    <3>3. /\ d \in IngestCall /\ ingest' = [ingest EXCEPT ![c] = d] /\ d.at \in held_at
          /\ d.obs = ingest[c].obs /\ d.content = ingest[c].content
      BY <1>4, <3>1, <3>2
    <3> HIDE DEF d
    <3> QED
      BY <1>3, <2>1, <3>2, <3>3
  <2>2. CASE Refuses(c)
    BY <1>1, <2>2, IngestOver DEF Refuses
  <2>3. CASE row # NoRow /\ row.obs.payload = o.payload /\ IngestAnswers(c)
    <3>1. Key(o) \in EventKeys /\ Key(o)[2] = o.event
      BY <1>1, <1>2, RowsAndKeys
    <3>2. Backed(o)
      BY <1>1, <1>2, <2>3, <3>1, RowBacks
    <3> QED
      BY <1>1, <2>3, <3>2, IngestOver DEF IngestAnswers
  <2> QED
    BY <1>5, <2>1, <2>2, <2>3 DEF InsertEvent
<1>6. CASE UpsertLogical(c)
  <2> DEFINE d == [ingest[c] EXCEPT !.at = "link"]
             lock == <<"logical", ingest[c].canonical>>
  <2>1. Step(c, "link") /\ Take(c, lock) /\ answered' = answered /\ ingest[c].at \in held_at
    BY <1>6 DEF UpsertLogical, Pure, AtStep
  <2>2. /\ d \in IngestCall /\ ingest' = [ingest EXCEPT ![c] = d] /\ d.at \in held_at
        /\ d.obs = ingest[c].obs /\ d.content = ingest[c].content
    BY <1>4, <2>1
  <2>3. \E x : lock \in {<<"logical", x>>, <<"alias", x>>, <<"session", x>>}
    OBVIOUS
  <2> HIDE DEF d, lock
  <2> QED
    BY <1>3, <2>1, <2>2, <2>3
<1>7. CASE LinkAlias(c)
  <2> DEFINE n == ingest[c].linked + 1
             step == IF n = Len(o.ids) THEN "count" ELSE "link"
             d == [ingest[c] EXCEPT !.linked = n, !.at = step]
             lock == <<"alias", o.ids[n]>>
  <2>1. Take(c, lock) /\ answered' = answered /\ ingest[c].at \in held_at
    BY <1>7 DEF LinkAlias, Pure, AtStep
  <2>2. ingest' = [ingest EXCEPT ![c].linked = n, ![c].at = step]
    BY <1>7 DEF LinkAlias
  <2>3. n \in Nat /\ step \in held_at
    BY <1>1 DEF IngestCall
  <2> HIDE DEF n, step
  <2>4. /\ d \in IngestCall /\ d.at \in held_at /\ d.obs = ingest[c].obs /\ d.content = ingest[c].content
    BY <1>1, <2>3 DEF IngestCall, IngestSteps
  <2>5. ingest' = [ingest EXCEPT ![c] = d]
    BY <1>1, <2>2
  <2>6. \E x : lock \in {<<"logical", x>>, <<"alias", x>>, <<"session", x>>}
    OBVIOUS
  <2> HIDE DEF d, lock
  <2> QED
    BY <1>3, <2>1, <2>4, <2>5, <2>6
<1>8. CASE CountEvent(c)
  <2> DEFINE d == [ingest[c] EXCEPT !.at = "commit"]
             lock == <<"session", o.session>>
  <2>1. Step(c, "commit") /\ Take(c, lock) /\ answered' = answered /\ ingest[c].at \in held_at
    BY <1>8 DEF CountEvent, Pure, AtStep
  <2>2. /\ d \in IngestCall /\ ingest' = [ingest EXCEPT ![c] = d] /\ d.at \in held_at
        /\ d.obs = ingest[c].obs /\ d.content = ingest[c].content
    BY <1>4, <2>1
  <2>3. \E x : lock \in {<<"logical", x>>, <<"alias", x>>, <<"session", x>>}
    OBVIOUS
  <2> HIDE DEF d, lock
  <2> QED
    BY <1>3, <2>1, <2>2, <2>3
<1> QED
  BY <1>5, <1>6, <1>7, <1>8

\* What the commit of an event leaves: one more row, under its key.
LEMMA EventCommitted ==
  ASSUME RawInv, NEW c \in Callers, ingest[c].at = "commit", IngestCommitted(c),
         ingest' \in [Callers -> IngestCall], DOMAIN held' = Callers
  PROVE  /\ RawTyped' /\ \A o : o = Obs(c) => Backed(o)'
         /\ \A k \in EventKeys : rawEvents[k] # NoRow =>
              rawEvents'[k] # NoRow /\ rawEvents'[k].obs = rawEvents[k].obs
         /\ \A k \in EventKeys : rawEvents'[k] # rawEvents[k] => <<"event", k>> \in held[c]
<1>1. RawTyped /\ IngestIsSafe(c) /\ ingest \in [Callers -> IngestCall]
  BY DEF RawInv, RawTyped
<1>2. PICK o : o = Obs(c)
  OBVIOUS
<1>3. PICK m : m = ingest[c].canonical
  OBVIOUS
<1>4. PICK row : row = [obs |-> o, logical |-> m, content |-> ingest[c].content]
  OBVIOUS
<1>5. /\ o \in Observations /\ ingest[c].content \in CiphertextIds /\ rawEvents[Key(o)] = NoRow
      /\ <<"event", Key(o)>> \in held[c]
  BY <1>1, <1>2 DEF IngestIsSafe
<1>6. Key(o) \in EventKeys /\ o.event = Key(o)[2]
  BY <1>1, <1>5, RowsAndKeys
<1>7. m \in LogicalIds \cup {NoRow} /\ ingest[c].listed \in SUBSET EventKeys
  BY <1>1, <1>3 DEF IngestCall
<1>8. row \in RawRow /\ row # NoRow /\ row.obs = o
  BY <1>1, <1>4, <1>5, <1>7, RowsAndKeys DEF RawRow
<1>9. rawEvents' = [rawEvents EXCEPT ![Key(o)] = row]
  BY <1>2, <1>3, <1>4 DEF IngestCommitted
<1>10. /\ rawEvents' \in [EventKeys -> RawRow \cup {NoRow}] /\ rawEvents'[Key(o)] = row
       /\ \A k \in EventKeys \ {Key(o)} : rawEvents'[k] = rawEvents[k]
  BY <1>1, <1>6, <1>8, <1>9 DEF RawTyped
<1>11. logicals' \in [LogicalIds -> SUBSET EventKeys] /\ aliases' \in [LogicalIds -> LogicalIds \cup {NoRow}]
  <2>1. CASE o.version = 1
    BY <1>1, <1>2, <2>1 DEF RawTyped, IngestCommitted
  <2>2. CASE o.version # 1
    <3>1. /\ logicals' = [logicals EXCEPT ![m] = ingest[c].listed \cup {Key(o)}]
          /\ aliases' = [a \in LogicalIds |-> IF a \in Range(o.ids) THEN m ELSE aliases[a]]
      BY <1>2, <1>3, <2>2 DEF IngestCommitted
    <3> QED
      BY <1>1, <1>6, <1>7, <3>1 DEF RawTyped
  <2> QED
    BY <2>1, <2>2
<1>12. RawTyped'
  <2>1. \A k \in EventKeys : rawEvents'[k] # NoRow => Key(rawEvents'[k].obs) = k
    BY <1>1, <1>8, <1>10 DEF RawTyped
  <2> QED
    BY <1>10, <1>11, <2>1 DEF RawTyped, Key
<1>13. ASSUME NEW q, q = Obs(c) PROVE Backed(q)'
  BY <1>2, <1>6, <1>8, <1>10, <1>13 DEF Backed
<1>14. /\ \A k \in EventKeys : rawEvents[k] # NoRow =>
            rawEvents'[k] # NoRow /\ rawEvents'[k].obs = rawEvents[k].obs
       /\ \A k \in EventKeys : rawEvents'[k] # rawEvents[k] => <<"event", k>> \in held[c]
  BY <1>5, <1>10
<1> QED
  BY <1>12, <1>13, <1>14

\* The commit of an event, whether or not it answers.
LEMMA CommitKeeps ==
  ASSUME RawInv, NEW c \in Callers,
         CommitIngest(c) \/ IngestCommitFails(c) \/ Reconcile(c) \/ IngestStatementFails(c)
  PROVE  RawInv'
<1>1. RawTyped /\ IngestIsSafe(c)
  BY DEF RawInv
<1>2. \A r \in answered : Backed(r[1])
  BY DEF RawInv, StoredAnswersAreTrue, Backed
<1>3. "idle" \in IngestSteps /\ "reconcile" \in IngestSteps
  BY DEF IngestSteps
<1>4. CASE CommitIngest(c)
  <2>1. ingest[c].at = "commit" /\ IngestCommitted(c) /\ IngestEnds(c)
        /\ answered' = answered \cup {<<Obs(c), ingest[c].content>>}
    BY <1>4 DEF CommitIngest, AtStep, IngestAnswers
  <2>2. /\ ingest' \in [Callers -> IngestCall] /\ ingest'[c].at = "idle"
        /\ held'[c] = {} /\ DOMAIN held' = Callers
        /\ \A d \in Callers \ {c} : ingest'[d] = ingest[d] /\ held'[d] = held[d]
    BY <1>1, <1>3, <2>1, IngestControl DEF IngestEnds
  <2>3. IngestIsSafe(c)'
    BY <2>2 DEF IngestIsSafe
  <2>4. \A r \in answered' : r \in answered \/ Backed(r[1])'
    <3>1. \A r \in answered' : r \in answered \/ r[1] = Obs(c)
      BY <2>1
    <3>2. \A o : o = Obs(c) => Backed(o)'
      BY <2>1, <2>2, EventCommitted
    <3> QED
      BY <3>1, <3>2
  <2> QED
    BY <2>1, <2>2, <2>3, <2>4, EventCommitted, IngestMoves
<1>5. CASE IngestCommitFails(c)
  <2>1. /\ ingest[c].at = "commit" /\ answered' = answered /\ held' = [held EXCEPT ![c] = {}]
        /\ (Step(c, "reconcile") \/ ingest' = [ingest EXCEPT ![c] = NoIngest])
    BY <1>5 DEF IngestCommitFails, AtStep
  <2>2. /\ ingest' \in [Callers -> IngestCall]
        /\ \/ ingest'[c].at = "idle"
           \/ /\ ingest'[c].at = "reconcile" /\ ingest'[c].obs = ingest[c].obs
              /\ ingest'[c].content = ingest[c].content
        /\ held'[c] = {} /\ DOMAIN held' = Callers
        /\ \A d \in Callers \ {c} : ingest'[d] = ingest[d] /\ held'[d] = held[d]
    <3>1. CASE Step(c, "reconcile")
      BY <1>1, <1>3, <2>1, <3>1, IngestControl
    <3>2. CASE ingest' = [ingest EXCEPT ![c] = NoIngest]
      BY <1>1, <1>3, <2>1, <3>2, IngestControl
    <3> QED
      BY <2>1, <3>1, <3>2
  <2>3. IngestIsSafe(c)'
    BY <1>1, <2>1, <2>2 DEF IngestIsSafe, Obs
  <2>4. CASE IngestCommitted(c)
    BY <2>1, <2>2, <2>3, <2>4, EventCommitted, IngestMoves
  <2>5. CASE UNCHANGED rawTables
    BY <2>1, <2>2, <2>3, <2>5, NoEventWritten
  <2> QED
    BY <1>5, <2>4, <2>5 DEF IngestCommitFails
<1>6. CASE Reconcile(c)
  <2> DEFINE row == RowOf(Obs(c).event)
  <2>1. Obs(c) \in Observations /\ UNCHANGED rawTables
    BY <1>1, <1>6 DEF Reconcile, AtStep, IngestIsSafe
  <2>2. row # NoRow /\ SameEvent(row, Obs(c)) => Backed(Obs(c))
    BY <1>1, <2>1, RowFound, RowBacks DEF SameEvent
  <2>3. CASE Refuses(c)
    BY <2>1, <2>3, IngestOver DEF Refuses
  <2>4. CASE row # NoRow /\ SameEvent(row, Obs(c)) /\ IngestAnswers(c)
    BY <2>1, <2>2, <2>4, IngestOver DEF IngestAnswers
  <2> QED
    BY <1>6, <2>3, <2>4 DEF Reconcile
<1>7. CASE IngestStatementFails(c)
  <2>1. IngestEnds(c) /\ UNCHANGED rawTables /\ answered' = answered
    BY <1>7 DEF IngestStatementFails
  <2> QED
    BY <2>1, IngestOver
<1> QED
  BY <1>4, <1>5, <1>6, <1>7

\* The recovery of an event replaces the ciphertext of its row and nothing else.
LEMMA CiphertextReplaced ==
  ASSUME RawInv, NEW c \in Callers, ingest[c].at = "commitRecovery", Replaced(c),
         UNCHANGED <<logicals, aliases>>,
         ingest' \in [Callers -> IngestCall], DOMAIN held' = Callers
  PROVE  /\ RawTyped' /\ \A o : Backed(o) => Backed(o)'
         /\ \A k \in EventKeys : rawEvents[k] # NoRow =>
              rawEvents'[k] # NoRow /\ rawEvents'[k].obs = rawEvents[k].obs
         /\ \A k \in EventKeys : rawEvents'[k] # rawEvents[k] => <<"event", k>> \in held[c]
<1>1. RawTyped /\ IngestIsSafe(c)
  BY DEF RawInv
<1>2. PICK k : k = Key(Obs(c))
  OBVIOUS
<1>3. k \in EventKeys /\ rawEvents[k] # NoRow /\ <<"event", k>> \in held[c] /\ ingest[c].content \in CiphertextIds
  BY <1>1, <1>2, RowsAndKeys DEF IngestIsSafe
<1>4. PICK row : row = [rawEvents[k] EXCEPT !.content = ingest[c].content]
  OBVIOUS
<1>5. row \in RawRow /\ row # NoRow /\ row.obs = rawEvents[k].obs
  <2>1. rawEvents[k] \in RawRow
    BY <1>1, <1>3, RowsAndKeys
  <2>2. row \in RawRow /\ row.obs = rawEvents[k].obs
    BY <1>3, <1>4, <2>1 DEF RawRow
  <2> QED
    BY <1>1, <2>2, RowsAndKeys
<1>6. rawEvents' = [rawEvents EXCEPT ![k] = row]
  BY <1>1, <1>2, <1>3, <1>4 DEF Replaced, RawTyped
<1>7. /\ rawEvents' \in [EventKeys -> RawRow \cup {NoRow}] /\ rawEvents'[k] = row
      /\ \A j \in EventKeys \ {k} : rawEvents'[j] = rawEvents[j]
  BY <1>1, <1>3, <1>5, <1>6 DEF RawTyped
<1>8. \A j \in EventKeys : rawEvents[j] # NoRow =>
        rawEvents'[j] # NoRow /\ rawEvents'[j].obs = rawEvents[j].obs
  BY <1>5, <1>7
<1>9. \A j \in EventKeys : rawEvents'[j] # NoRow => Key(rawEvents'[j].obs) = j
  BY <1>1, <1>3, <1>5, <1>7 DEF RawTyped
<1>10. RawTyped'
  BY <1>1, <1>7, <1>9 DEF RawTyped, Key
<1>11. ASSUME NEW o, Backed(o) PROVE Backed(o)'
  BY <1>8, <1>11 DEF Backed
<1> QED
  BY <1>3, <1>7, <1>8, <1>10, <1>11

\* The steps of a recovery.
LEMMA RecoveryKeeps ==
  ASSUME RawInv, NEW c \in Callers,
         LockEvent(c) \/ CommitRecovery(c) \/ CommitRecoveryFails(c) \/ ReconcileRecovery(c)
  PROVE  RawInv'
<1>1. RawTyped /\ IngestIsSafe(c) /\ DOMAIN held = Callers
  BY DEF RawInv, RawTyped
<1>2. /\ Backed(Obs(c)) /\ Obs(c) \in Observations
  BY <1>1 DEF IngestIsSafe, LockEvent, CommitRecovery, CommitRecoveryFails, ReconcileRecovery, AtStep
<1>3. {"idle", "commitRecovery", "reconcileRecovery"} \subseteq IngestSteps
  BY DEF IngestSteps
<1>4. CASE LockEvent(c)
  <2> DEFINE k == Key(Obs(c))
             locks == {<<"event", k>>, <<"object", ingest[c].content>>}
  <2>1. UNCHANGED rawTables /\ answered' = answered /\ ~LockedByOther(c, <<"event", k>>)
        /\ ingest[c].at = "lock"
    BY <1>4 DEF LockEvent, Pure, AtStep
  <2>2. CASE IngestEnds(c)
    BY <2>1, <2>2, IngestOver
  <2>3. CASE rawEvents[k] # NoRow /\ held' = [held EXCEPT ![c] = locks] /\ Step(c, "commitRecovery")
    <3>1. /\ ingest' \in [Callers -> IngestCall] /\ ingest'[c].at = "commitRecovery"
          /\ ingest'[c].obs = ingest[c].obs /\ ingest'[c].content = ingest[c].content
          /\ \A d \in Callers \ {c} : ingest'[d] = ingest[d]
      BY <1>1, <1>3, <2>3, IngestControl
    <3>2. /\ held'[c] = locks /\ DOMAIN held' = Callers
          /\ \A d \in Callers \ {c} : held'[d] = held[d]
      BY <1>1, <2>3
    <3>3. \A j \in EventKeys : <<"event", j>> \in held'[c] => j = k
      BY <3>2
    <3>4. Backed(Obs(c))'
      BY <1>2, <2>1, <3>1 DEF Backed, Obs, rawTables
    <3>5. IngestIsSafe(c)'
      BY <1>1, <2>1, <2>3, <3>1, <3>2, <3>4 DEF IngestIsSafe, Obs, Key, rawTables
    <3> QED
      BY <2>1, <3>1, <3>2, <3>3, <3>5, NoEventWritten
  <2> QED
    BY <1>4, <2>2, <2>3 DEF LockEvent
<1>5. CASE CommitRecovery(c)
  <2>1. /\ ingest[c].at = "commitRecovery" /\ Replaced(c) /\ IngestEnds(c) /\ UNCHANGED <<logicals, aliases>>
        /\ answered' = answered \cup {<<Obs(c), ingest[c].content>>}
    BY <1>5 DEF CommitRecovery, AtStep, IngestAnswers
  <2>2. /\ ingest' \in [Callers -> IngestCall] /\ ingest'[c].at = "idle"
        /\ held'[c] = {} /\ DOMAIN held' = Callers
        /\ \A d \in Callers \ {c} : ingest'[d] = ingest[d] /\ held'[d] = held[d]
    BY <1>1, <1>3, <2>1, IngestControl DEF IngestEnds
  <2>3. IngestIsSafe(c)'
    BY <2>2 DEF IngestIsSafe
  <2>4. \A r \in answered' : r \in answered \/ Backed(r[1])'
    <3>1. \A r \in answered' : r \in answered \/ r[1] = Obs(c)
      BY <2>1
    <3>2. \A o : Backed(o) => Backed(o)'
      BY <2>1, <2>2, CiphertextReplaced
    <3> QED
      BY <1>2, <3>1, <3>2
  <2> QED
    BY <2>1, <2>2, <2>3, <2>4, CiphertextReplaced, IngestMoves
<1>6. CASE CommitRecoveryFails(c)
  <2>1. /\ ingest[c].at = "commitRecovery" /\ Step(c, "reconcileRecovery") /\ answered' = answered
        /\ held' = [held EXCEPT ![c] = {}] /\ UNCHANGED <<sessions, logicals, aliases>>
    BY <1>6 DEF CommitRecoveryFails, AtStep
  <2>2. /\ ingest' \in [Callers -> IngestCall] /\ ingest'[c].at = "reconcileRecovery"
        /\ ingest'[c].obs = ingest[c].obs /\ ingest'[c].content = ingest[c].content
        /\ held'[c] = {} /\ DOMAIN held' = Callers
        /\ \A d \in Callers \ {c} : ingest'[d] = ingest[d] /\ held'[d] = held[d]
    <3>1. "reconcileRecovery" \in IngestSteps
      BY <1>3
    <3>2. /\ ingest' \in [Callers -> IngestCall] /\ ingest'[c].at = "reconcileRecovery"
          /\ ingest'[c].obs = ingest[c].obs /\ ingest'[c].content = ingest[c].content
          /\ \A d \in Callers \ {c} : ingest'[d] = ingest[d]
      BY <1>1, <2>1, <3>1, IngestControl
    <3>3. /\ held'[c] = {} /\ DOMAIN held' = Callers
          /\ \A d \in Callers \ {c} : held'[d] = held[d]
      BY <1>1, <2>1
    <3> QED
      BY <3>2, <3>3
  <2>3. ASSUME \A o : Backed(o) => Backed(o)' PROVE IngestIsSafe(c)'
    <3>1. PICK o : o = Obs(c)
      OBVIOUS
    <3>2. Backed(o)' /\ o = Obs(c)'
      BY <1>2, <2>2, <2>3, <3>1 DEF Obs
    <3>3. Backed(Obs(c))'
      BY <3>2 DEF Backed
    <3> QED
      BY <1>1, <2>1, <2>2, <3>3 DEF IngestIsSafe, Obs
  <2>4. CASE Replaced(c)
    BY <2>1, <2>2, <2>3, <2>4, CiphertextReplaced, IngestMoves
  <2>5. CASE UNCHANGED rawEvents
    <3>1. \A o : Backed(o) => Backed(o)'
      BY <2>5 DEF Backed
    <3> QED
      BY <2>1, <2>2, <2>3, <2>5, <3>1, NoEventWritten DEF rawTables
  <2> QED
    BY <1>6, <2>4, <2>5 DEF CommitRecoveryFails
<1>7. CASE ReconcileRecovery(c)
  <2>1. UNCHANGED rawTables
    BY <1>7 DEF ReconcileRecovery
  <2>2. CASE Refuses(c)
    BY <2>1, <2>2, IngestOver DEF Refuses
  <2>3. CASE IngestAnswers(c)
    BY <1>2, <2>1, <2>3, IngestOver DEF IngestAnswers
  <2> QED
    BY <1>7, <2>2, <2>3 DEF ReconcileRecovery
<1> QED
  BY <1>4, <1>5, <1>6, <1>7

\* Every step of every call keeps the answers true.
LEMMA NextRawInv == RawInv /\ [RawNext]_rawVars => RawInv'
<1> SUFFICES ASSUME RawInv, [RawNext]_rawVars PROVE RawInv'
  OBVIOUS
<1>1. RawTyped /\ ingest \in [Callers -> IngestCall] /\ DOMAIN held = Callers
  BY DEF RawInv, RawTyped
<1>2. ASSUME NEW c \in Callers, NEW r \in IngestRequests, StartIngest(c, r[1], r[2]) PROVE RawInv'
  <2> DEFINE d == [NoIngest EXCEPT !.at = "known", !.obs = r[1], !.content = r[2]]
  <2>1. r[1] \in Observations /\ r[2] \in CiphertextIds
    BY RawAssumption DEF RawAssumption
  <2>2. d \in IngestCall /\ d.at = "known" /\ d.obs = r[1] /\ d.content = r[2]
    BY <2>1 DEF NoIngest, IngestCall, IngestSteps
  <2>3. ingest' = [ingest EXCEPT ![c] = d] /\ UNCHANGED <<rawTables, held, answered>>
    BY <1>2 DEF StartIngest
  <2> HIDE DEF d
  <2>4. /\ ingest' \in [Callers -> IngestCall] /\ ingest'[c] = d
        /\ \A e \in Callers \ {c} : ingest'[e] = ingest[e]
    BY <1>1, <2>2, <2>3
  <2>5. IngestIsSafe(c)'
    BY <2>1, <2>2, <2>4 DEF IngestIsSafe, Obs
  <2> QED
    BY <1>1, <2>3, <2>4, <2>5, NoEventWritten
<1>3. ASSUME NEW c \in Callers, IngestStep(c) PROVE RawInv'
  BY <1>3, BeforeTransaction, InTransaction, EventHeld, CommitKeeps, RecoveryKeeps DEF IngestStep
<1>4. ASSUME UNCHANGED <<rawTables, ingest, held, answered>> PROVE RawInv'
  BY <1>4 DEF rawTables, RawInv, RawTyped, Key, EventLocksApart, IngestIsSafe, Obs, Backed, StoredAnswersAreTrue
<1>5. CASE UNCHANGED rawVars
  BY <1>4, <1>5 DEF rawVars
<1>6. ASSUME NEW x \in CiphertextIds, LoseCiphertext(x) PROVE RawInv'
  BY <1>4, <1>6 DEF LoseCiphertext
<1> QED
  BY <1>2, <1>3, <1>5, <1>6 DEF RawNext

\* Whatever is sent, retried, lost or raced: what a collector was told is stored
\* is in the catalog with its payload and session (FabricStore.ingestRawEvent).
THEOREM RawAnswersTrue == RawSpec => []StoredAnswersAreTrue
<1>1. RawInv => StoredAnswersAreTrue
  BY DEF RawInv
<1> QED
  BY InitRawInv, NextRawInv, <1>1, PTL DEF RawSpec

(***************************************************************************)
(* The identity traversal.  Three things that a run knows of the files are *)
(* kept apart, for each holds as long as something else does: what it has  *)
(* read begins the baseline while the catalog does not change (Steady); the*)
(* store and the spool are what it has left them while no lease is lost    *)
(* (Alone); and either of them is enough for a run past the completion of  *)
(* the store to hold the whole baseline (Covered).  Both together make the *)
(* store that is about to be renamed agree with the spool (Recording).  The*)
(* files follow: the spool has the blocks of the results, or those and the *)
(* next one (Exact), and a sealed spool has them all.                      *)
(***************************************************************************)

Groups == Blocks \cup {Excluded}
Steps == {"idle", "load", "attest", "scan", "flush", "rename", "accept", "commit", "complete",
          "attestPost", "seal", "link", "unlink", "attestSeal", "publish", "unlinkRoot"}
Stores == [results : Seq(Groups), complete : BOOLEAN]
Spools == [blocks : Seq(Blocks), seal : {"none", "intent", "sealed"}]
Runs == [pc : Steps, persisted : Seq(Groups), complete : BOOLEAN, seen : Seq(Groups),
         batch : Seq({Excluded}), group : Groups, writer : BOOLEAN, sealed : BOOLEAN,
         orphan : BOOLEAN, next : SUBSET Stores,
         then : {"idle", "scan", "accept", "committed", "complete", "attestPost"},
         page : Nat \ {0}]

FilesTyped ==
  /\ groups \in Catalogs
  /\ store \in Stores /\ spool \in Spools
  /\ pageNames \in [Blocks -> 0..2]
  /\ root \in [names : 0..2, blocks : Seq(Blocks)]
  /\ runner \in [Runners -> Runs]
  /\ stops \in Nat /\ drifts \in Nat /\ displacements \in Nat

\* One sequence begins another.
Begins(s, t) == Len(s) <= Len(t) /\ \A i \in 1..Len(s) : s[i] = t[i]

\* The group at hand is read but not yet in the spool.
Pending(me) ==
  \/ me.pc = "accept"
  \/ me.pc = "flush" /\ me.group # Excluded
  \/ me.pc = "rename" /\ me.then = "accept"

AllButLast(s) == SubSeq(s, 1, Len(s) - 1)
Held(me) == IF Pending(me) THEN AllButLast(me.seen) ELSE me.seen
Rereads(me) == Len(me.seen) < Len(me.persisted)

AfterRename == {"attestPost", "seal", "link", "unlink", "attestSeal", "publish", "unlinkRoot"}
Completed(me) == me.pc \in AfterRename \/ (me.pc = "rename" /\ me.then = "attestPost")
Ended(me) == me.pc \in AfterRename \cup {"complete"} \/ me.then \in {"complete", "attestPost"}

Shape(me) ==
  /\ me.pc = "idle" => me = NoRun
  /\ me.pc = "load" => me = [NoRun EXCEPT !.pc = "load"]
  /\ me.pc = "attest" => me.seen = <<>> /\ ~me.writer /\ me.batch = <<>> /\ ~Ended(me)
  /\ Pending(me) \/ me.pc = "commit" =>
       me.seen # <<>> /\ me.group = me.seen[Len(me.seen)] /\ me.group # Excluded
  /\ me.batch # <<>> => me.pc \in {"scan", "flush"} /\ (me.pc = "scan" => me.group = Excluded)
  /\ me.pc = "flush" => me.batch # <<>> /\ (me.group # Excluded \/ me.then \in {"scan", "complete"})
  /\ me.pc = "rename" => me.then # "idle"
  /\ Len(me.batch) <= Len(Held(me))
  /\ \A i \in 1..Len(Held(me)) : i > Len(Held(me)) - Len(me.batch) => Held(me)[i] = Excluded
  /\ Rereads(me) => me.pc \in {"attest", "scan"} /\ ~me.writer /\ me.batch = <<>>
  /\ me.orphan => me.writer
  /\ me.pc = "commit" => me.writer /\ ~me.orphan
  /\ ~Rereads(me) /\ ~me.writer =>
       /\ Accepted(Held(me)) = <<>>
       /\ ~Completed(me) => Accepted(me.persisted) = <<>>
  /\ Ended(me) => me.seen = Baseline /\ ~me.orphan /\ ~Rereads(me) /\ ~Pending(me)

Sealing(me, sp) ==
  /\ me.sealed => sp.seal = "sealed"
  /\ me.pc \in {"attestSeal", "publish", "unlinkRoot"} /\ me.writer => sp.seal = "sealed"

\* What a run has read of a catalog that did not change.
Steady(me, sp) ==
  /\ Begins(me.seen, Baseline)
  /\ \A x \in me.next : Begins(x.results, Baseline)
  /\ me.writer => Len(Accepted(Held(me))) <= Len(sp.blocks)

\* What a run that is alone knows of the files.
Alone(me, sp, st) ==
  /\ me.pc = "attest" \/ Rereads(me) => st.results = me.persisted
  /\ me.pc \notin {"idle", "load", "attest", "commit", "rename"} /\ ~Rereads(me) =>
       st.results \o me.batch = Held(me)
  /\ me.pc = "commit" => st.results = AllButLast(me.seen)
  /\ me.pc = "rename" => \A x \in me.next :
       x.results = Held(me) /\ x.complete = (me.then = "attestPost")
  /\ me.pc = "rename" /\ me.then # "attestPost" => ~st.complete
  /\ me.pc \in AfterRename => st.complete
  /\ me.writer => Len(sp.blocks) = Len(Accepted(Held(me))) + (IF me.orphan THEN 1 ELSE 0)
  /\ ~Rereads(me) /\ Begins(Held(me), Baseline) => Begins(Accepted(Held(me)), sp.blocks)

Covered(me, sp) ==
  /\ Completed(me) => me.persisted = Baseline
  /\ me.pc \in {"link", "unlink", "attestSeal", "publish"} =>
       IF me.writer THEN sp.blocks = Accepted(Baseline) ELSE Accepted(Baseline) = <<>>

Recording(me, sp) ==
  me.pc = "rename" => \A x \in me.next : sp.blocks = Accepted(x.results)

\* What holds of every run; the catalog has not changed (d), no lease was lost (p).
Sound(me, sp, st, d, p) ==
  /\ Shape(me) /\ Sealing(me, sp)
  /\ d => Steady(me, sp)
  /\ p => Alone(me, sp, st)
  /\ d \/ p => Covered(me, sp)
  /\ d /\ p => Recording(me, sp)

SteadySoFar == drifts = 0
AloneSoFar == displacements = 0

RunsAreSound ==
  \A r \in Runners : Sound(runner[r], spool, store, SteadySoFar, AloneSoFar)

OneAtWork == AloneSoFar => \A r \in Runners : runner[r].pc # "idle" => holder = r

Exact(st, sp) ==
  LET n == Len(st.results) IN
  \/ sp.blocks = Accepted(st.results)
  \/ n < Len(Baseline) /\ sp.blocks = Append(Accepted(st.results), Baseline[n + 1])

RootIsBacked ==
  root.names > 0 =>
    /\ \A n \in DOMAIN root.blocks : pageNames[root.blocks[n]] > 0
    /\ spool.seal = "sealed" \/ root.blocks = <<>>
    /\ SteadySoFar \/ AloneSoFar => root.blocks = Accepted(Baseline)

CatalogStays ==
  SteadySoFar => /\ groups = Baseline
                 /\ Begins(store.results, Baseline)
                 /\ Begins(spool.blocks, Accepted(Baseline))

SpoolHasResults(sp, st) ==
  Begins(st.results, Baseline) => Begins(Accepted(st.results), sp.blocks)

FilesAgree ==
  /\ AloneSoFar => SpoolHasResults(spool, store)
  /\ SteadySoFar /\ AloneSoFar =>
       Exact(store, spool) /\ (spool.seal # "none" => store.complete)

FilesAreSound == RootIsBacked /\ CatalogStays /\ FilesAgree

TraversalInv == FilesTyped /\ RunsAreSound /\ OneAtWork /\ FilesAreSound

(***************************************************************************)
(* Sequences: what begins another one, and the blocks of the accepted.     *)
(***************************************************************************)

LEMMA LessThanIsWellFounded == IsWellFoundedOn({p \in Nat \X Nat : p[1] < p[2]}, Nat)
BY NatLessThanWellFounded DEF OpToRel

\* A set of numbers that is not empty has a least one.
LEMMA SmallestExists ==
  ASSUME NEW T \in SUBSET Nat, T # {}
  PROVE  \E n \in T : \A m \in T : n <= m
<1> DEFINE R == {p \in Nat \X Nat : p[1] < p[2]}
<1>1. IsWellFoundedOn(R, Nat)
  BY LessThanIsWellFounded
<1>2. PICK x \in T : \A y \in T : ~ (<<y, x>> \in R)
  <2> HIDE DEF R
  <2> QED BY <1>1, WFMin
<1>3. ASSUME NEW y \in T
      PROVE  x <= y
  <2>1. <<y, x>> \in Nat \X Nat
    BY <1>2
  <2>2. ~(y < x)
    BY <1>2, <2>1
  <2> QED BY <2>2
<1> QED
  BY <1>3

\* A sequence is its last entry after the others.
LEMMA LastSplits ==
  ASSUME NEW G, NEW s \in Seq(G), s # <<>>
  PROVE  /\ SubSeq(s, 1, Len(s) - 1) \in Seq(G) /\ s[Len(s)] \in G
         /\ Len(SubSeq(s, 1, Len(s) - 1)) = Len(s) - 1 /\ Len(s) \in Nat \ {0}
         /\ s = Append(SubSeq(s, 1, Len(s) - 1), s[Len(s)])
<1>1. Len(s) \in Nat \ {0} /\ s[Len(s)] \in G
  OBVIOUS
<1>2. PICK n \in Nat : Len(s) = n + 1
  BY <1>1
<1>3. SubSeq(s, 1, n) \in Seq(G) /\ Len(SubSeq(s, 1, n)) = n
      /\ \A i \in 1..n : SubSeq(s, 1, n)[i] = s[i]
  BY <1>2
<1>4. s = Append(SubSeq(s, 1, n), s[n + 1])
  <2> DEFINE t == Append(SubSeq(s, 1, n), s[n + 1])
  <2>1. t \in Seq(G) /\ Len(t) = n + 1
    BY <1>1, <1>2, <1>3
  <2>2. \A i \in 1..(n + 1) : t[i] = s[i]
    BY <1>1, <1>2, <1>3
  <2> HIDE DEF t
  <2> QED BY <2>1, <2>2, <1>2, SeqEqual
<1> QED
  BY <1>1, <1>2, <1>3, <1>4

\* What the empty sequence has, and what Append keeps, every sequence has.
LEMMA SeqInduct ==
  ASSUME NEW G, NEW T,
         <<>> \in T,
         \A s \in Seq(G), g \in G : s \in T => Append(s, g) \in T
  PROVE  Seq(G) \subseteq T
<1> SUFFICES ASSUME NEW z \in Seq(G), z \notin T
             PROVE  FALSE
  OBVIOUS
<1> DEFINE L == {Len(s) : s \in Seq(G) \ T}
<1>1. L \in SUBSET Nat /\ L # {}
  OBVIOUS
<1>2. PICK n \in L : \A m \in L : n <= m
  <2> HIDE DEF L
  <2> QED BY <1>1, SmallestExists
<1>3. PICK s \in Seq(G) \ T : Len(s) = n
  BY <1>2
<1>4. s # <<>>
  BY <1>3
<1>5. PICK t \in Seq(G), g \in G : s = Append(t, g) /\ Len(t) = n - 1 /\ n \in Nat \ {0}
  <2> DEFINE t == SubSeq(s, 1, Len(s) - 1)
  <2>1. /\ t \in Seq(G) /\ s[Len(s)] \in G
        /\ Len(t) = Len(s) - 1 /\ Len(s) \in Nat \ {0}
        /\ s = Append(t, s[Len(s)])
    BY <1>3, <1>4, LastSplits
  <2> HIDE DEF t
  <2> QED BY <2>1, <1>3
<1>6. t \notin T
  BY <1>3, <1>5
<1>7. n - 1 \in L
  BY <1>5, <1>6
<1>8. ~(n <= n - 1)
  BY <1>5
<1> QED
  BY <1>2, <1>7, <1>8

(***************************************************************************)
(* The accepted ones                                                       *)
(***************************************************************************)
IsUpTo(f, s, k) ==
  f = [n \in 0..k |->
         IF n = 0 THEN <<>>
         ELSE IF s[n] = Excluded THEN f[n - 1] ELSE Append(f[n - 1], s[n])]

LEMMA AcceptedIs ==
  ASSUME NEW s
  PROVE  Accepted(s) = (CHOOSE f : IsUpTo(f, s, Len(s)))[Len(s)]
BY DEF Accepted, IsUpTo

\* The function that Accepted defines exists.
LEMMA UpToExists ==
  ASSUME NEW s
  PROVE  \A k \in Nat : \E f : IsUpTo(f, s, k)
<1> DEFINE T == {k \in Nat : ~\E f : IsUpTo(f, s, k)}
<1> SUFFICES T = {}
  OBVIOUS
<1> SUFFICES ASSUME T # {} PROVE FALSE
  OBVIOUS
<1>1. PICK k \in T : \A m \in T : k <= m
  <2>1. T \in SUBSET Nat
    OBVIOUS
  <2> HIDE DEF T
  <2> QED BY <2>1, SmallestExists
<1>2. CASE k = 0
  <2>1. IsUpTo([n \in 0..0 |-> <<>>], s, 0)
    BY DEF IsUpTo
  <2> QED BY <2>1, <1>2
<1>3. CASE k # 0
  <2>1. k - 1 \in Nat /\ k - 1 \notin T
    BY <1>1, <1>3
  <2>2. PICK f : IsUpTo(f, s, k - 1)
    BY <2>1
  <2> DEFINE last == IF s[k] = Excluded THEN f[k - 1] ELSE Append(f[k - 1], s[k])
             h == [n \in 0..k |-> IF n = k THEN last ELSE f[n]]
  <2>3. \A n \in 0..(k - 1) : n \in 0..k /\ n # k /\ h[n] = f[n]
    BY <1>1
  <2>4. h[k] = last /\ k \in Nat
    BY <1>1
  <2>5. \A n \in 0..k : n # 0 => n - 1 \in 0..(k - 1)
    BY <1>1
  <2>6. \A n \in 0..(k - 1) : f[n] = IF n = 0 THEN <<>>
         ELSE IF s[n] = Excluded THEN f[n - 1] ELSE Append(f[n - 1], s[n])
    BY <2>2 DEF IsUpTo
  <2>7. \A n \in 0..k : h[n] = IF n = 0 THEN <<>>
         ELSE IF s[n] = Excluded THEN h[n - 1] ELSE Append(h[n - 1], s[n])
    <3> SUFFICES ASSUME NEW n \in 0..k
                 PROVE  h[n] = IF n = 0 THEN <<>>
                          ELSE IF s[n] = Excluded THEN h[n - 1] ELSE Append(h[n - 1], s[n])
      OBVIOUS
    <3> HIDE DEF h
    <3>1. CASE n = k
      <4>1. h[k - 1] = f[k - 1] /\ k # 0
        BY <1>3, <2>3, <2>5
      <4> QED BY <3>1, <4>1, <2>4
    <3>2. CASE n # k
      <4>1. n \in 0..(k - 1)
        BY <3>2, <1>1
      <4>2. n # 0 => h[n - 1] = f[n - 1]
        BY <2>3, <2>5
      <4> QED BY <4>1, <4>2, <2>3, <2>6
    <3> QED BY <3>1, <3>2
  <2>8. IsUpTo(h, s, k)
    <3>1. h = [n \in 0..k |-> h[n]]
      OBVIOUS
    <3> HIDE DEF h
    <3> QED BY <3>1, <2>7 DEF IsUpTo
  <2> QED BY <2>8, <1>1
<1> QED BY <1>2, <1>3

StartAlike(s, t, f, h, k, l) ==
  /\ k <= l /\ IsUpTo(f, s, k) /\ IsUpTo(h, t, l)
  /\ \A i \in 1..k : s[i] = t[i]

\* Two sequences that begin alike have the same blocks so far.
LEMMA UpToAgree ==
  ASSUME NEW s, NEW t, NEW f, NEW h, NEW k \in Nat, NEW l \in Nat,
         StartAlike(s, t, f, h, k, l)
  PROVE  f[k] = h[k]
<1> USE DEF StartAlike
<1> DEFINE T == {n \in 0..k : f[n] # h[n]}
<1> SUFFICES ASSUME T # {} PROVE FALSE
  OBVIOUS
<1>1. PICK n \in T : \A m \in T : n <= m
  <2>1. T \in SUBSET Nat
    OBVIOUS
  <2> HIDE DEF T
  <2> QED BY <2>1, SmallestExists
<1>2. n \in 0..k /\ n \in 0..l
  BY <1>1
<1>3. /\ f[n] = IF n = 0 THEN <<>>
               ELSE IF s[n] = Excluded THEN f[n - 1] ELSE Append(f[n - 1], s[n])
      /\ h[n] = IF n = 0 THEN <<>>
               ELSE IF t[n] = Excluded THEN h[n - 1] ELSE Append(h[n - 1], t[n])
  BY <1>2 DEF IsUpTo
<1>4. n # 0
  BY <1>1, <1>3
<1>5. n - 1 \in 0..k /\ ~(n <= n - 1) /\ n \in 1..k
  BY <1>2, <1>4
<1>6. f[n - 1] = h[n - 1]
  BY <1>1, <1>5
<1>7. s[n] = t[n]
  BY <1>5
<1> QED BY <1>1, <1>3, <1>6, <1>7

LEMMA AcceptedNone == Accepted(<<>>) = <<>>
<1>1. PICK f : f = CHOOSE g : IsUpTo(g, <<>>, 0)
  OBVIOUS
<1>2. IsUpTo(f, <<>>, 0)
  BY <1>1, UpToExists
<1>3. f[0] = <<>>
  BY <1>2 DEF IsUpTo
<1> QED BY <1>1, <1>3, AcceptedIs

\* One more group adds its block, or nothing.
LEMMA AcceptedAppend ==
  ASSUME NEW G, NEW s \in Seq(G), NEW g \in G
  PROVE  Accepted(Append(s, g)) = IF g = Excluded THEN Accepted(s) ELSE Append(Accepted(s), g)
<1>1. PICK k \in Nat : k = Len(s)
  OBVIOUS
<1>2. PICK t : t = Append(s, g)
  OBVIOUS
<1>3. Len(t) = k + 1 /\ (\A i \in 1..k : s[i] = t[i]) /\ t[k + 1] = g
  BY <1>1, <1>2
<1>4. PICK f : f = CHOOSE z : IsUpTo(z, s, k)
  OBVIOUS
<1>5. PICK h : h = CHOOSE z : IsUpTo(z, t, k + 1)
  OBVIOUS
<1>6. IsUpTo(f, s, k) /\ IsUpTo(h, t, k + 1)
  <2>1. \E z : IsUpTo(z, s, k)
    BY UpToExists
  <2>2. k + 1 \in Nat
    OBVIOUS
  <2>3. \E z : IsUpTo(z, t, k + 1)
    BY <2>2, UpToExists
  <2> QED BY <1>4, <1>5, <2>1, <2>3
<1>7. f[k] = h[k]
  <2>1. PICK l \in Nat : l = k + 1
    OBVIOUS
  <2>2. StartAlike(s, t, f, h, k, l)
    BY <2>1, <1>3, <1>6 DEF StartAlike
  <2> QED BY <2>2, UpToAgree
<1>8. k + 1 \in 0..(k + 1) /\ k + 1 # 0 /\ (k + 1) - 1 = k
  OBVIOUS
<1>9. h[k + 1] = IF t[k + 1] = Excluded THEN h[k] ELSE Append(h[k], t[k + 1])
  BY <1>6, <1>8 DEF IsUpTo
<1>10. Accepted(s) = f[k] /\ Accepted(t) = h[k + 1]
  BY <1>1, <1>3, <1>4, <1>5, AcceptedIs
<1> QED BY <1>2, <1>3, <1>7, <1>9, <1>10

LEMMA NotABlock == Excluded \notin Blocks
<1> DEFINE S == UNION {{c[n] : n \in DOMAIN c} : c \in Catalogs}
<1>1. Blocks = S \ {Excluded}
  BY Zenon DEF Blocks
<1> HIDE DEF S
<1> QED BY <1>1

\* The blocks of some results are blocks.
LEMMA AcceptedType ==
  ASSUME NEW s \in Seq(Groups)
  PROVE  Accepted(s) \in Seq(Blocks)
<1> DEFINE T == {t \in Seq(Groups) : Accepted(t) \in Seq(Blocks)}
<1>1. <<>> \in T
  <2>1. <<>> \in Seq(Groups) /\ <<>> \in Seq(Blocks)
    OBVIOUS
  <2> QED BY <2>1, AcceptedNone
<1>2. ASSUME NEW t \in Seq(Groups), NEW g \in Groups, t \in T
      PROVE  Append(t, g) \in T
  <2>1. Append(t, g) \in Seq(Groups)
    OBVIOUS
  <2>2. Accepted(Append(t, g)) = IF g = Excluded THEN Accepted(t) ELSE Append(Accepted(t), g)
    BY AcceptedAppend
  <2>3. g # Excluded => g \in Blocks
    BY DEF Groups
  <2> QED BY <1>2, <2>1, <2>2, <2>3
<1>3. Seq(Groups) \subseteq T
  <2> HIDE DEF T
  <2> QED BY <1>1, <1>2, SeqInduct
<1> QED BY <1>3

LEMMA BeginsTransitive ==
  ASSUME NEW G, NEW s \in Seq(G), NEW t \in Seq(G), NEW u \in Seq(G), Begins(s, t), Begins(t, u)
  PROVE  Begins(s, u)
BY DEF Begins

LEMMA BeginsEqual ==
  ASSUME NEW G, NEW s \in Seq(G), NEW t \in Seq(G), Begins(s, t), Len(t) <= Len(s)
  PROVE  s = t
<1>1. Len(s) = Len(t) /\ \A i \in 1..Len(s) : s[i] = t[i]
  BY DEF Begins
<1> QED BY <1>1, SeqEqual

LEMMA BeginsAppend ==
  ASSUME NEW G, NEW s \in Seq(G), NEW g \in G
  PROVE  Begins(s, s) /\ Begins(s, Append(s, g))
BY DEF Begins

\* More results have at least the blocks of the fewer.
LEMMA AcceptedBegins ==
  ASSUME NEW s \in Seq(Groups), NEW t \in Seq(Groups), Begins(s, t)
  PROVE  Begins(Accepted(s), Accepted(t))
<1> DEFINE T == {z \in Seq(Groups) :
                   \A y \in Seq(Groups) : Begins(y, z) => Begins(Accepted(y), Accepted(z))}
<1>1. <<>> \in T
  <2>1. ASSUME NEW y \in Seq(Groups), Begins(y, <<>>)
        PROVE  y = <<>>
    BY <2>1 DEF Begins
  <2>2. Begins(Accepted(<<>>), Accepted(<<>>))
    BY AcceptedNone DEF Begins
  <2> QED BY <2>1, <2>2
<1>2. ASSUME NEW z \in Seq(Groups), NEW g \in Groups, z \in T
      PROVE  Append(z, g) \in T
  <2>1. PICK n \in Seq(Groups) : n = Append(z, g)
    <3>1. Append(z, g) \in Seq(Groups)
      OBVIOUS
    <3> QED BY <3>1
  <2>2. SUFFICES ASSUME NEW y \in Seq(Groups), Begins(y, n)
                 PROVE  Begins(Accepted(y), Accepted(n))
    BY <2>1
  <2>3. CASE Len(y) = Len(n)
    <3>1. y = n
      BY <2>2, <2>3, BeginsEqual
    <3>2. Accepted(n) \in Seq(Blocks)
      BY AcceptedType
    <3> QED BY <3>1, <3>2 DEF Begins
  <2>4. CASE Len(y) # Len(n)
    <3>1. Begins(y, z)
      BY <2>1, <2>2, <2>4 DEF Begins
    <3>2. Begins(Accepted(y), Accepted(z))
      BY <3>1, <1>2
    <3>3. Accepted(n) = IF g = Excluded THEN Accepted(z) ELSE Append(Accepted(z), g)
      BY <2>1, AcceptedAppend
    <3>4. Accepted(y) \in Seq(Blocks) /\ Accepted(z) \in Seq(Blocks) /\ Accepted(n) \in Seq(Blocks)
      BY AcceptedType
    <3>5. Begins(Accepted(z), Accepted(n))
      <4>1. CASE g = Excluded
        BY <4>1, <3>3, <3>4 DEF Begins
      <4>2. CASE g # Excluded
        <5>1. g \in Blocks
          BY <4>2 DEF Groups
        <5> QED BY <4>2, <5>1, <3>3, <3>4, BeginsAppend
      <4> QED BY <4>1, <4>2
    <3> QED BY <3>2, <3>4, <3>5, BeginsTransitive
  <2> QED BY <2>3, <2>4
<1>3. Seq(Groups) \subseteq T
  <2> HIDE DEF T
  <2> QED BY <1>1, <1>2, SeqInduct
<1> QED BY <1>3

LEMMA AcceptedExcluded ==
  ASSUME NEW s \in Seq(Groups), NEW b \in Seq({Excluded})
  PROVE  Accepted(s \o b) = Accepted(s)
<1> DEFINE T == {t \in Seq({Excluded}) : Accepted(s \o t) = Accepted(s)}
<1>1. <<>> \in T
  OBVIOUS
<1>2. ASSUME NEW t \in Seq({Excluded}), NEW g \in {Excluded}, t \in T
      PROVE  Append(t, g) \in T
  <2>1. Append(t, g) \in Seq({Excluded}) /\ g = Excluded
    OBVIOUS
  <2>0. t \in Seq(Groups)
    BY DEF Groups
  <2>2. PICK z \in Seq(Groups) : z = s \o t
    <3>1. s \o t \in Seq(Groups)
      BY <2>0
    <3> QED BY <3>1
  <2>3. s \o Append(t, g) = Append(z, g)
    <3>1. g \in Groups
      BY <2>1 DEF Groups
    <3>2. Append(t, g) = t \o <<g>> /\ Append(z, g) = z \o <<g>>
      BY <3>1, <2>0, <2>2, AppendIsConcat
    <3>3. s \o (t \o <<g>>) = (s \o t) \o <<g>>
      <4>1. <<g>> \in Seq(Groups)
        BY <3>1
      <4> QED BY <4>1, <2>0, ConcatAssociative
    <3> QED BY <3>2, <3>3, <2>2
  <2>4. Accepted(Append(z, g)) = Accepted(z)
    <3>1. g \in Groups
      BY <2>1 DEF Groups
    <3> QED BY <3>1, <2>1, AcceptedAppend
  <2> QED BY <1>2, <2>1, <2>2, <2>3, <2>4
<1>3. Seq({Excluded}) \subseteq T
  <2> HIDE DEF T
  <2> QED BY <1>1, <1>2, SeqInduct
<1> QED BY <1>3

\* Every block is one group's.
Distinct(s) == \A m, n \in DOMAIN s : s[m] = s[n] => m = n \/ s[m] = Excluded
OnceEach(s) == \A m, n \in DOMAIN s : s[m] = s[n] => m = n
From(s, t) == \A m \in DOMAIN s : \E n \in DOMAIN t : s[m] = t[n]

\* A group has its own block, so no block comes twice.
LEMMA AcceptedDistinct ==
  ASSUME NEW s \in Seq(Groups), Distinct(s)
  PROVE  OnceEach(Accepted(s))
<1> DEFINE T == {t \in Seq(Groups) :
                   From(Accepted(t), t) /\ (Distinct(t) => OnceEach(Accepted(t)))}
<1>1. <<>> \in T
  BY AcceptedNone DEF From, OnceEach
<1>2. ASSUME NEW t \in Seq(Groups), NEW g \in Groups, t \in T
      PROVE  Append(t, g) \in T
  <2>1. PICK u \in Seq(Groups) : u = Append(t, g)
    <3>1. Append(t, g) \in Seq(Groups)
      OBVIOUS
    <3> QED BY <3>1
  <2>2. PICK a \in Seq(Blocks) : a = Accepted(t)
    BY AcceptedType
  <2>3. Accepted(u) = IF g = Excluded THEN a ELSE Append(a, g)
    BY <2>1, <2>2, AcceptedAppend
  <2>4. /\ DOMAIN t \subseteq DOMAIN u /\ Len(t) + 1 \in DOMAIN u /\ u[Len(t) + 1] = g
        /\ \A i \in DOMAIN t : u[i] = t[i] /\ i # Len(t) + 1
    BY <2>1
  <2>5. From(a, u)
    BY <1>2, <2>2, <2>4 DEF From
  <2>6. Distinct(u) => Distinct(t)
    BY <2>4 DEF Distinct
  <2>7. CASE g = Excluded
    BY <2>1, <2>2, <2>3, <2>5, <2>6, <2>7, <1>2
  <2>8. CASE g # Excluded
    <3>1. g \in Blocks
      BY <2>8 DEF Groups
    <3>2. PICK b \in Seq(Blocks) : b = Append(a, g)
      <4>1. Append(a, g) \in Seq(Blocks)
        BY <3>1
      <4> QED BY <4>1
    <3>3. /\ DOMAIN b = DOMAIN a \cup {Len(a) + 1} /\ b[Len(a) + 1] = g
          /\ \A i \in DOMAIN a : b[i] = a[i]
      BY <3>2
    <3>4. From(b, u)
      BY <2>4, <2>5, <3>3 DEF From
    <3>5. ASSUME Distinct(u)
          PROVE  OnceEach(b)
      <4>1. OnceEach(a) /\ From(a, t)
        BY <1>2, <2>2, <2>6, <3>5
      <4>2. \A i \in DOMAIN a : a[i] # g
        <5> SUFFICES ASSUME NEW i \in DOMAIN a, a[i] = g PROVE FALSE
          OBVIOUS
        <5>1. PICK n \in DOMAIN t : a[i] = t[n]
          BY <4>1 DEF From
        <5>2. n \in DOMAIN u /\ Len(t) + 1 \in DOMAIN u /\ u[n] = u[Len(t) + 1] /\ u[n] # Excluded
          BY <5>1, <2>4, <2>8
        <5> QED BY <5>1, <5>2, <3>5, <2>4 DEF Distinct
      <4> QED BY <4>1, <4>2, <3>3 DEF OnceEach
    <3> QED BY <2>1, <2>3, <2>8, <3>2, <3>4, <3>5
  <2> QED BY <2>7, <2>8
<1>3. Seq(Groups) \subseteq T
  <2> HIDE DEF T
  <2> QED BY <1>1, <1>2, SeqInduct
<1> QED BY <1>3

(***************************************************************************)
(* The first state, and steps that leave the files alone.                  *)
(***************************************************************************)

LEMMA BaselineType == Baseline \in Seq(Groups) /\ Baseline \in Catalogs /\ Distinct(Baseline)
BY TraversalAssumption DEF Groups, Distinct

LEMMA NoRunType == NoRun \in Runs
<1>1. <<>> \in Seq(Groups) /\ <<>> \in Seq({Excluded}) /\ Excluded \in Groups
  BY DEF Groups
<1> QED BY <1>1 DEF NoRun, Runs, Steps

LEMMA NoRunFields ==
  /\ NoRun.pc = "idle" /\ NoRun.persisted = <<>> /\ NoRun.complete = FALSE /\ NoRun.seen = <<>>
  /\ NoRun.batch = <<>> /\ NoRun.group = Excluded /\ NoRun.writer = FALSE
  /\ NoRun.sealed = FALSE /\ NoRun.orphan = FALSE /\ NoRun.next = {}
  /\ NoRun.then = "idle" /\ NoRun.page = 1
BY DEF NoRun

\* A step that moves the program counter only.
LEMMA Moved ==
  ASSUME NEW me \in Runs, NEW step \in Steps
  PROVE  /\ [me EXCEPT !.pc = step] \in Runs
         /\ LET n == [me EXCEPT !.pc = step] IN
            /\ n.pc = step /\ n.persisted = me.persisted /\ n.complete = me.complete
            /\ n.seen = me.seen /\ n.batch = me.batch /\ n.group = me.group
            /\ n.writer = me.writer /\ n.sealed = me.sealed /\ n.orphan = me.orphan
            /\ n.next = me.next /\ n.then = me.then /\ n.page = me.page
BY DEF Runs

LEMMA StaysPut ==
  ASSUME NEW me \in Runs
  PROVE  me = [me EXCEPT !.pc = me.pc]
BY DEF Runs

LEMMA BeginsNothing ==
  ASSUME NEW G, NEW t \in Seq(G)
  PROVE  Begins(<<>>, t)
BY DEF Begins

LEMMA FreshFields ==
  ASSUME NEW step \in {"idle", "load"}, NEW n, n = [NoRun EXCEPT !.pc = step]
  PROVE  /\ n \in Runs
         /\ n.pc = step /\ n.persisted = <<>> /\ n.complete = FALSE /\ n.seen = <<>>
         /\ n.batch = <<>> /\ n.group = Excluded /\ n.writer = FALSE
         /\ n.sealed = FALSE /\ n.orphan = FALSE /\ n.next = {} /\ n.then = "idle"
<1>1. step \in Steps
  BY DEF Steps
<1> QED BY <1>1, Moved, NoRunType, NoRunFields

\* A run that has done nothing, or has just taken the lease.
LEMMA FreshIsSound ==
  ASSUME NEW step \in {"idle", "load"}, NEW sp \in Spools, NEW st \in Stores,
         NEW d \in BOOLEAN, NEW p \in BOOLEAN
  PROVE  Sound([NoRun EXCEPT !.pc = step], sp, st, d, p)
<1>1. PICK n : n = [NoRun EXCEPT !.pc = step]
  OBVIOUS
<1>2. /\ n \in Runs
      /\ n.pc = step /\ n.persisted = <<>> /\ n.complete = FALSE /\ n.seen = <<>>
      /\ n.batch = <<>> /\ n.group = Excluded /\ n.writer = FALSE
      /\ n.sealed = FALSE /\ n.orphan = FALSE /\ n.next = {} /\ n.then = "idle"
  BY <1>1, FreshFields
<1>3. ~Pending(n) /\ Held(n) = <<>> /\ ~Rereads(n) /\ ~Ended(n) /\ ~Completed(n)
  BY <1>2 DEF Pending, Held, Rereads, Ended, Completed, AfterRename
<1>4. Shape(n)
  <2>1. step = "idle" => n = NoRun
    <3>1. NoRun = [NoRun EXCEPT !.pc = "idle"]
      BY NoRunType, NoRunFields, StaysPut
    <3> QED BY <1>1, <3>1
  <2> QED BY <1>1, <1>2, <1>3, <2>1, AcceptedNone DEF Shape
<1>5. Begins(n.seen, Baseline) /\ Begins(Accepted(Held(n)), sp.blocks)
  <2>1. sp.blocks \in Seq(Blocks)
    BY DEF Spools
  <2> QED BY <1>2, <1>3, <2>1, AcceptedNone, BaselineType, BeginsNothing
<1>6. Sealing(n, sp) /\ Steady(n, sp) /\ Alone(n, sp, st) /\ Covered(n, sp) /\ Recording(n, sp)
  BY <1>2, <1>3, <1>5 DEF Sealing, Steady, Alone, Covered, Recording, AfterRename
<1> QED BY <1>1, <1>4, <1>6 DEF Sound

LEMMA NoRunIsSound ==
  ASSUME NEW sp \in Spools, NEW st \in Stores, NEW d \in BOOLEAN, NEW p \in BOOLEAN
  PROVE  Sound(NoRun, sp, st, d, p)
<1>1. NoRun = [NoRun EXCEPT !.pc = "idle"]
  BY NoRunType, NoRunFields, StaysPut
<1> QED BY <1>1, FreshIsSound

(***************************************************************************)
(* Steps of one run                                                        *)
(***************************************************************************)

\* One run moves and no file changes.
LEMMA OneRunMoves ==
  ASSUME TraversalInv, NEW r \in Runners, NEW n \in Runs,
         runner' = [runner EXCEPT ![r] = n], OnlyRun, runner[r].pc # "idle",
         Sound(n, spool, store, SteadySoFar, AloneSoFar)
  PROVE  TraversalInv'
<1>1. UNCHANGED <<holder, store, spool, pageNames, root, groups, stops, drifts, displacements>>
  BY DEF OnlyRun, BoundsUnchanged, traversalFiles
<1>2. FilesTyped'
  BY <1>1 DEF TraversalInv, FilesTyped
<1>3. \A q \in Runners : runner'[q] = IF q = r THEN n ELSE runner[q]
  BY DEF TraversalInv, FilesTyped
<1>4. RunsAreSound'
  BY <1>1, <1>3 DEF TraversalInv, RunsAreSound, SteadySoFar, AloneSoFar
<1>5. OneAtWork'
  BY <1>1, <1>3 DEF TraversalInv, OneAtWork, AloneSoFar
<1>6. FilesAreSound'
  BY <1>1 DEF TraversalInv, FilesAreSound, RootIsBacked, CatalogStays, FilesAgree, SteadySoFar, AloneSoFar
<1> QED BY <1>2, <1>4, <1>5, <1>6 DEF TraversalInv

\* A run ends, its files being sound.
LEMMA RunOver ==
  ASSUME TraversalInv, NEW r \in Runners, RunEnds(r), runner[r].pc # "idle", BoundsUnchanged,
         FilesTyped', FilesAreSound',
         \A q \in Runners \ {r} : Sound(runner[q], spool', store', SteadySoFar, AloneSoFar)
  PROVE  TraversalInv'
<1>1. UNCHANGED <<groups, stops, drifts, displacements>>
  BY DEF BoundsUnchanged
<1>3. \A q \in Runners : runner'[q] = IF q = r THEN NoRun ELSE runner[q]
  BY DEF TraversalInv, FilesTyped, RunEnds
<1>4. RunsAreSound'
  <2>1. SteadySoFar \in BOOLEAN /\ AloneSoFar \in BOOLEAN /\ spool' \in Spools /\ store' \in Stores
    BY DEF FilesTyped, SteadySoFar, AloneSoFar
  <2>2. Sound(NoRun, spool', store', SteadySoFar, AloneSoFar)
    BY <2>1, NoRunIsSound
  <2> QED BY <1>1, <1>3, <2>2 DEF RunsAreSound, SteadySoFar, AloneSoFar
<1>5. OneAtWork'
  BY <1>1, <1>3, NoRunFields DEF TraversalInv, OneAtWork, AloneSoFar, RunEnds
<1> QED BY <1>4, <1>5 DEF TraversalInv

LEMMA RunFailing ==
  ASSUME TraversalInv, NEW r \in Runners, RunFails(r), runner[r].pc # "idle"
  PROVE  TraversalInv'
<1>1. UNCHANGED <<store, spool, pageNames, root, groups, stops, drifts, displacements>>
      /\ RunEnds(r) /\ BoundsUnchanged
  BY DEF RunFails, BoundsUnchanged, traversalFiles
<1>2. runner' = [runner EXCEPT ![r] = NoRun]
  BY <1>1 DEF RunEnds
<1>3. FilesTyped'
  BY <1>1, <1>2, NoRunType DEF TraversalInv, FilesTyped
<1>4. FilesAreSound'
  BY <1>1 DEF TraversalInv, FilesAreSound, RootIsBacked, CatalogStays, FilesAgree, SteadySoFar, AloneSoFar
<1>5. \A q \in Runners \ {r} : Sound(runner[q], spool', store', SteadySoFar, AloneSoFar)
  BY <1>1 DEF TraversalInv, RunsAreSound
<1> QED BY <1>1, <1>3, <1>4, <1>5, RunOver

LEMMA SoundWeaker ==
  ASSUME NEW me, NEW sp, NEW st, NEW d \in BOOLEAN, NEW p \in BOOLEAN,
         NEW e \in BOOLEAN, NEW q \in BOOLEAN, e => d, q => p, Sound(me, sp, st, d, p)
  PROVE  Sound(me, sp, st, e, q)
BY DEF Sound

\* It holds at first.
LEMMA InitSound == TraversalInit => TraversalInv
<1> SUFFICES ASSUME TraversalInit PROVE TraversalInv
  OBVIOUS
<1>1. /\ store \in Stores /\ spool \in Spools /\ root \in [names : 0..2, blocks : Seq(Blocks)]
      /\ pageNames \in [Blocks -> 0..2] /\ groups \in Catalogs
      /\ stops = 0 /\ drifts = 0 /\ displacements = 0
  BY BaselineType DEF TraversalInit, Stores, Spools
<1>2. runner = [r \in Runners |-> NoRun]
  BY DEF TraversalInit
<1>3. FilesTyped
  BY <1>1, <1>2, NoRunType DEF FilesTyped
<1>4. RunsAreSound
  <2>1. Sound(NoRun, spool, store, SteadySoFar, AloneSoFar)
    BY <1>1, NoRunIsSound DEF SteadySoFar, AloneSoFar
  <2> QED BY <2>1, <1>2 DEF RunsAreSound
<1>5. OneAtWork
  BY <1>2, NoRunFields DEF OneAtWork
<1>6. store.results = <<>> /\ spool.blocks = <<>> /\ spool.seal = "none" /\ root.names = 0 /\ groups = Baseline
  BY DEF TraversalInit
<1>7. Accepted(Baseline) \in Seq(Blocks)
  BY BaselineType, AcceptedType
<1>8. Begins(<<>>, Baseline) /\ Begins(<<>>, Accepted(Baseline)) /\ Begins(<<>>, <<>>)
  <2>1. Begins(<<>>, <<>>)
    BY DEF Begins
  <2> QED BY <2>1, <1>7, BaselineType, BeginsNothing
<1>9. FilesAreSound
  BY <1>6, <1>8, AcceptedNone
     DEF FilesAreSound, RootIsBacked, CatalogStays, FilesAgree, SpoolHasResults, Exact
<1> QED BY <1>3, <1>4, <1>5, <1>9 DEF TraversalInv

LEMMA StartSound ==
  ASSUME TraversalInv, NEW r \in Runners, StartRun(r)
  PROVE  TraversalInv'
<1>1. UNCHANGED <<store, spool, pageNames, root, groups, stops, drifts, displacements>>
  BY DEF StartRun, BoundsUnchanged, traversalFiles
<1>2. runner[r] = NoRun /\ runner[r].pc = "idle"
  BY DEF StartRun, RunAt, TraversalInv, RunsAreSound, Sound, Shape
<1>3. PICK n : n = [NoRun EXCEPT !.pc = "load"]
  OBVIOUS
<1>4. n \in Runs
  BY <1>3, NoRunType, Moved DEF Steps
<1>5. runner' = [runner EXCEPT ![r] = n]
  BY <1>2, <1>3 DEF StartRun, RunGoes
<1>6. FilesTyped'
  BY <1>1, <1>4, <1>5 DEF TraversalInv, FilesTyped
<1>7. \A q \in Runners : runner'[q] = IF q = r THEN n ELSE runner[q]
  BY <1>5 DEF TraversalInv, FilesTyped
<1>8. RunsAreSound'
  <2>1. Sound(n, spool, store, SteadySoFar, AloneSoFar)
    BY <1>3, FreshIsSound DEF TraversalInv, FilesTyped, SteadySoFar, AloneSoFar
  <2> QED BY <1>1, <1>7, <2>1 DEF TraversalInv, RunsAreSound, SteadySoFar, AloneSoFar
<1>9. OneAtWork'
  <2>1. AloneSoFar => \A q \in Runners \ {r} : runner[q].pc = "idle"
    BY TraversalAssumption DEF TraversalInv, OneAtWork, StartRun
  <2> QED BY <1>1, <1>7, <2>1 DEF OneAtWork, AloneSoFar, StartRun
<1>10. FilesAreSound'
  BY <1>1 DEF TraversalInv, FilesAreSound, RootIsBacked, CatalogStays, FilesAgree, SteadySoFar, AloneSoFar
<1> QED BY <1>6, <1>8, <1>9, <1>10 DEF TraversalInv

\* A lease is lost: nothing is claimed of a run that is not alone.
LEMMA DisplaceSound ==
  ASSUME TraversalInv, NEW r \in Runners, Displace(r)
  PROVE  TraversalInv'
<1>1. UNCHANGED <<store, spool, pageNames, root, groups, stops, drifts>>
      /\ displacements' = displacements + 1
  BY DEF Displace, traversalFiles
<1>2. runner[r] = NoRun /\ runner[r].pc = "idle"
  BY DEF Displace, RunAt, TraversalInv, RunsAreSound, Sound, Shape
<1>3. PICK n : n = [NoRun EXCEPT !.pc = "load"]
  OBVIOUS
<1>4. n \in Runs
  BY <1>3, NoRunType, Moved DEF Steps
<1>5. runner' = [runner EXCEPT ![r] = n]
  BY <1>2, <1>3 DEF Displace, RunGoes
<1>6. FilesTyped'
  BY <1>1, <1>4, <1>5 DEF TraversalInv, FilesTyped
<1>7. \A q \in Runners : runner'[q] = IF q = r THEN n ELSE runner[q]
  BY <1>5 DEF TraversalInv, FilesTyped
<1>8. AloneSoFar' = FALSE
  BY <1>1 DEF AloneSoFar, TraversalInv, FilesTyped
<1>9. RunsAreSound'
  <2>1. Sound(n, spool, store, SteadySoFar, FALSE)
    BY <1>3, FreshIsSound DEF TraversalInv, FilesTyped, SteadySoFar
  <2>2. ASSUME NEW q \in Runners
        PROVE  Sound(runner[q], spool, store, SteadySoFar, FALSE)
    BY DEF TraversalInv, RunsAreSound, Sound
  <2> QED BY <1>1, <1>7, <1>8, <2>1, <2>2 DEF RunsAreSound, SteadySoFar
<1>10. FilesAreSound'
  BY <1>1, <1>8 DEF TraversalInv, FilesAreSound, RootIsBacked, CatalogStays, FilesAgree, SteadySoFar
<1> QED BY <1>6, <1>8, <1>9, <1>10 DEF TraversalInv, OneAtWork

\* The catalog changes: nothing is claimed of what was read.
LEMMA DriftSound ==
  ASSUME TraversalInv, Drift
  PROVE  TraversalInv'
<1>1. UNCHANGED <<holder, runner, store, spool, pageNames, root, stops, displacements>>
      /\ drifts' = drifts + 1 /\ groups' \in Catalogs
  BY DEF Drift, traversalFiles
<1>2. FilesTyped'
  BY <1>1 DEF TraversalInv, FilesTyped
<1>3. SteadySoFar' = FALSE
  BY <1>1 DEF SteadySoFar, TraversalInv, FilesTyped
<1>4. RunsAreSound'
  <2>2. ASSUME NEW q \in Runners
        PROVE  Sound(runner[q], spool, store, FALSE, AloneSoFar)
    BY DEF TraversalInv, RunsAreSound, Sound
  <2> QED BY <1>1, <1>3, <2>2 DEF RunsAreSound, AloneSoFar
<1>5. FilesAreSound' /\ OneAtWork'
  BY <1>1, <1>3 DEF TraversalInv, FilesAreSound, RootIsBacked, CatalogStays, FilesAgree, AloneSoFar, OneAtWork
<1> QED BY <1>2, <1>4, <1>5 DEF TraversalInv

\* A run dies: the files are as it left them.
LEMMA StopSound ==
  ASSUME TraversalInv, NEW r \in Runners, StopRun(r)
  PROVE  TraversalInv'
<1>1. UNCHANGED <<holder, store, spool, pageNames, root, groups, drifts, displacements>>
      /\ stops' = stops + 1 /\ runner' = [runner EXCEPT ![r] = NoRun]
  BY DEF StopRun, traversalFiles
<1>2. FilesTyped'
  BY <1>1, NoRunType DEF TraversalInv, FilesTyped
<1>3. \A q \in Runners : runner'[q] = IF q = r THEN NoRun ELSE runner[q]
  BY <1>1 DEF TraversalInv, FilesTyped
<1>4. RunsAreSound'
  <2>1. Sound(NoRun, spool, store, SteadySoFar, AloneSoFar)
    BY NoRunIsSound DEF TraversalInv, FilesTyped, SteadySoFar, AloneSoFar
  <2> QED BY <1>1, <1>3, <2>1 DEF TraversalInv, RunsAreSound, SteadySoFar, AloneSoFar
<1>5. OneAtWork'
  BY <1>1, <1>3, NoRunFields DEF TraversalInv, OneAtWork, AloneSoFar
<1>6. FilesAreSound'
  BY <1>1 DEF TraversalInv, FilesAreSound, RootIsBacked, CatalogStays, FilesAgree, SteadySoFar, AloneSoFar
<1> QED BY <1>2, <1>4, <1>5, <1>6 DEF TraversalInv

SameBut(n, me) ==
  /\ n.persisted = me.persisted /\ n.complete = me.complete
  /\ n.seen = me.seen /\ n.batch = me.batch /\ n.group = me.group
  /\ n.writer = me.writer /\ n.sealed = me.sealed /\ n.orphan = me.orphan
  /\ n.then = me.then

LEMMA NextDropped ==
  ASSUME NEW me \in Runs, NEW sp, NEW st, NEW d \in BOOLEAN, NEW p \in BOOLEAN,
         Sound(me, sp, st, d, p)
  PROVE  /\ [me EXCEPT !.next = {}] \in Runs
         /\ Sound([me EXCEPT !.next = {}], sp, st, d, p)
         /\ [me EXCEPT !.next = {}].pc = me.pc
<1>1. PICK n : n = [me EXCEPT !.next = {}]
  OBVIOUS
<1>2. n \in Runs /\ SameBut(n, me) /\ n.pc = me.pc /\ n.next = {}
  BY <1>1 DEF Runs, SameBut
<1>3. /\ Pending(n) = Pending(me) /\ Rereads(n) = Rereads(me)
      /\ Completed(n) = Completed(me) /\ Ended(n) = Ended(me)
  BY <1>2 DEF SameBut, Pending, Rereads, Completed, Ended
<1>4. Held(n) = Held(me)
  BY <1>2, <1>3 DEF SameBut, Held
<1>5. me.pc \in {"idle", "load"} => n = me
  <2>1. me.pc \in {"idle", "load"} => me.next = {}
    <3>1. me.pc = "idle" => me.next = {}
      BY NoRunFields DEF Sound, Shape
    <3>2. me.pc = "load" => me.next = {}
      <4>1. me.pc = "load" => me = [NoRun EXCEPT !.pc = "load"]
        BY DEF Sound, Shape
      <4> QED BY <4>1, FreshFields
    <3> QED BY <3>1, <3>2
  <2> QED BY <1>1, <2>1 DEF Runs
<1>6. Shape(n)
  BY <1>2, <1>3, <1>4, <1>5 DEF Sound, Shape, SameBut
<1>7. Sealing(n, sp) /\ (d => Steady(n, sp)) /\ (p => Alone(n, sp, st))
      /\ (d \/ p => Covered(n, sp)) /\ Recording(n, sp)
  BY <1>2, <1>3, <1>4 DEF Sound, SameBut, Sealing, Steady, Alone, Covered, Recording
<1> QED BY <1>1, <1>2, <1>6, <1>7 DEF Sound

\* A run opens the store.
LEMMA LoadSound ==
  ASSUME TraversalInv, NEW r \in Runners, LoadStore(r)
  PROVE  TraversalInv'
<1>1. UNCHANGED <<holder, store, spool, pageNames, root, groups, stops, drifts, displacements>>
  BY DEF LoadStore, OnlyRun, BoundsUnchanged, traversalFiles
<1>2. PICK me \in Runs : me = runner[r]
  BY DEF TraversalInv, FilesTyped
<1>3. me.pc = "load" /\ me = [NoRun EXCEPT !.pc = "load"] /\ me.pc # "idle"
  BY <1>2 DEF LoadStore, RunAt, TraversalInv, RunsAreSound, Sound, Shape
<1>4. PICK n : n = [me EXCEPT !.pc = "attest", !.persisted = store.results, !.complete = store.complete]
  OBVIOUS
<1>5. store.results \in Seq(Groups) /\ store.complete \in BOOLEAN
      /\ store \in Stores /\ spool \in Spools /\ spool.blocks \in Seq(Blocks)
  BY DEF TraversalInv, FilesTyped, Stores, Spools
<1>6. /\ n \in Runs /\ n.pc = "attest" /\ n.persisted = store.results
      /\ n.seen = <<>> /\ n.batch = <<>> /\ n.writer = FALSE
      /\ n.sealed = FALSE /\ n.orphan = FALSE /\ n.then = "idle" /\ n.next = {}
  <2>1. /\ me.seen = <<>> /\ me.batch = <<>> /\ me.writer = FALSE
        /\ me.sealed = FALSE /\ me.orphan = FALSE /\ me.then = "idle" /\ me.next = {}
    BY <1>3, FreshFields
  <2>2. PICK s \in Seq(Groups), c \in BOOLEAN : s = store.results /\ c = store.complete
    BY <1>5
  <2>3. n = [me EXCEPT !.pc = "attest", !.persisted = s, !.complete = c]
    BY <1>4, <2>2
  <2>4. /\ n \in Runs
        /\ n.pc = "attest" /\ n.persisted = s /\ n.complete = c
        /\ n.seen = me.seen /\ n.batch = me.batch /\ n.group = me.group
        /\ n.writer = me.writer /\ n.sealed = me.sealed /\ n.orphan = me.orphan
        /\ n.next = me.next /\ n.then = me.then /\ n.page = me.page
    BY <2>3 DEF Runs, Steps
  <2> QED BY <2>1, <2>2, <2>4
<1>7. \A q \in Runners : runner'[q] = IF q = r THEN n ELSE [runner[q] EXCEPT !.next = {}]
  BY <1>2, <1>4 DEF LoadStore
<1>8. Sound(n, spool, store, SteadySoFar, AloneSoFar)
  <2>1. ~Pending(n) /\ Held(n) = <<>> /\ ~Ended(n) /\ ~Completed(n)
    BY <1>6 DEF Pending, Held, Ended, Completed, AfterRename
  <2>2. ~Rereads(n) => n.persisted = <<>>
    BY <1>5, <1>6 DEF Rereads
  <2>3. Shape(n)
    BY <1>6, <2>1, <2>2, AcceptedNone DEF Shape
  <2>4. Begins(n.seen, Baseline) /\ Begins(Accepted(Held(n)), spool.blocks)
    BY <1>5, <1>6, <2>1, AcceptedNone, BaselineType, BeginsNothing
  <2>5. Sealing(n, spool) /\ Steady(n, spool) /\ Alone(n, spool, store) /\ Covered(n, spool) /\ Recording(n, spool)
    BY <1>6, <2>1, <2>4 DEF Sealing, Steady, Alone, Covered, Recording, AfterRename
  <2> QED BY <2>3, <2>5 DEF Sound
<1>9. \A q \in Runners : /\ [runner[q] EXCEPT !.next = {}] \in Runs
                         /\ Sound([runner[q] EXCEPT !.next = {}], spool, store, SteadySoFar, AloneSoFar)
                         /\ [runner[q] EXCEPT !.next = {}].pc = runner[q].pc
  <2>1. SteadySoFar \in BOOLEAN /\ AloneSoFar \in BOOLEAN
    BY DEF SteadySoFar, AloneSoFar
  <2> QED BY <2>1, NextDropped DEF TraversalInv, FilesTyped, RunsAreSound
<1>10. FilesTyped'
  <2>1. runner' \in [Runners -> Runs]
    <3>1. runner' = [q \in Runners |-> runner'[q]]
      BY DEF LoadStore
    <3> QED BY <3>1, <1>6, <1>7, <1>9
  <2> QED BY <1>1, <2>1 DEF TraversalInv, FilesTyped
<1>11. RunsAreSound'
  BY <1>1, <1>7, <1>8, <1>9 DEF RunsAreSound, SteadySoFar, AloneSoFar
<1>12. OneAtWork'
  BY <1>1, <1>2, <1>3, <1>6, <1>7, <1>9 DEF TraversalInv, OneAtWork, AloneSoFar
<1>13. FilesAreSound'
  BY <1>1 DEF TraversalInv, FilesAreSound, RootIsBacked, CatalogStays, FilesAgree, SteadySoFar, AloneSoFar
<1> QED BY <1>10, <1>11, <1>12, <1>13 DEF TraversalInv

\* A run past the completion of the store goes on.
LEMMA LaterIsSound ==
  ASSUME NEW me \in Runs, NEW n \in Runs, SameBut(n, me), n.next = me.next,
         me.pc \in AfterRename, n.pc \in AfterRename,
         NEW sp, NEW st, NEW d \in BOOLEAN, NEW p \in BOOLEAN, Sound(me, sp, st, d, p),
         n.pc \in {"attestSeal", "publish", "unlinkRoot"} /\ n.writer => sp.seal = "sealed",
         (d \/ p) /\ n.pc \in {"link", "unlink", "attestSeal", "publish"} =>
            IF n.writer THEN sp.blocks = Accepted(Baseline) ELSE Accepted(Baseline) = <<>>
  PROVE  Sound(n, sp, st, d, p)
<1>1. /\ ~Pending(n) /\ ~Pending(me) /\ Rereads(n) = Rereads(me)
      /\ Completed(n) /\ Completed(me) /\ Ended(n) /\ Ended(me)
  BY DEF SameBut, Pending, Rereads, Completed, Ended, AfterRename
<1>2. Held(n) = n.seen /\ Held(me) = me.seen
  BY <1>1 DEF Held
<1>3. Shape(n)
  <2>1. Held(n) = Held(me) /\ n.pc \notin {"idle", "load", "attest", "commit", "scan", "flush", "rename"}
        /\ me.pc \notin {"idle", "load", "attest", "commit", "scan", "flush", "rename"}
    BY <1>2 DEF AfterRename, SameBut
  <2> HIDE DEF AfterRename
  <2> QED BY <1>1, <2>1 DEF Sound, Shape, SameBut
<1>4. Sealing(n, sp)
  BY DEF Sound, Sealing, SameBut
<1>5. d => Steady(n, sp)
  BY <1>2 DEF Sound, Steady, SameBut
<1>6. p => Alone(n, sp, st)
  BY <1>1, <1>2 DEF Sound, Alone, SameBut, AfterRename
<1>7. d \/ p => Covered(n, sp)
  BY <1>1, <1>2 DEF Sound, Covered, SameBut
<1>8. Recording(n, sp)
  BY DEF Recording, AfterRename
<1> QED BY <1>3, <1>4, <1>5, <1>6, <1>7, <1>8 DEF Sound

LEMMA SoundNow ==
  ASSUME TraversalInv, NEW r \in Runners
  PROVE  /\ runner[r] \in Runs /\ Sound(runner[r], spool, store, SteadySoFar, AloneSoFar)
         /\ SteadySoFar \in BOOLEAN /\ AloneSoFar \in BOOLEAN
         /\ store \in Stores /\ store.results \in Seq(Groups) /\ store.complete \in BOOLEAN
         /\ spool \in Spools /\ spool.blocks \in Seq(Blocks)
BY DEF TraversalInv, FilesTyped, RunsAreSound, SteadySoFar, AloneSoFar, Stores, Spools

\* A run past the completion of the store goes on, and no file changes.
LEMMA LaterGoes ==
  ASSUME TraversalInv, NEW r \in Runners, NEW step \in AfterRename, RunGoes(r, step), OnlyRun,
         runner[r].pc \in AfterRename,
         step \in {"attestSeal", "publish", "unlinkRoot"} /\ runner[r].writer => spool.seal = "sealed",
         (SteadySoFar \/ AloneSoFar) /\ step \in {"link", "unlink", "attestSeal", "publish"} =>
            IF runner[r].writer THEN spool.blocks = Accepted(Baseline) ELSE Accepted(Baseline) = <<>>
  PROVE  TraversalInv'
<1>1. PICK me \in Runs : me = runner[r]
  BY SoundNow
<1>2. PICK n : n = [me EXCEPT !.pc = step]
  OBVIOUS
<1>3. n \in Runs /\ SameBut(n, me) /\ n.next = me.next /\ n.pc = step
  <2>1. step \in Steps
    BY DEF Steps, AfterRename
  <2> QED BY <1>2, <2>1, Moved DEF SameBut
<1>4. runner' = [runner EXCEPT ![r] = n]
  BY <1>1, <1>2 DEF RunGoes
<1>5. n.writer = me.writer
  BY <1>3 DEF SameBut
<1>6. Sound(n, spool, store, SteadySoFar, AloneSoFar)
  BY <1>1, <1>3, <1>5, SoundNow, LaterIsSound
<1>7. runner[r].pc # "idle"
  BY DEF AfterRename
<1> QED BY <1>3, <1>4, <1>6, <1>7, OneRunMoves

\* The content of the catalog is attested.
LEMMA AttestSound ==
  ASSUME TraversalInv, NEW r \in Runners,
         \/ Attest(r, "attest", "scan") \/ Attest(r, "attestPost", "seal")
         \/ Attest(r, "attestSeal", "publish")
  PROVE  TraversalInv'
<1>1. PICK me \in Runs : me = runner[r]
  BY SoundNow
<1>2. me.pc \in {"attest", "attestPost", "attestSeal"} /\ runner[r].pc # "idle"
  BY <1>1 DEF Attest, RunAt
<1>3. CASE RunFails(r)
  BY <1>2, <1>3, RunFailing
<1>4. CASE me.pc = "attest" /\ RunGoes(r, "scan") /\ OnlyRun
  <2>1. PICK n : n = [me EXCEPT !.pc = "scan"]
    OBVIOUS
  <2>2. n \in Runs /\ SameBut(n, me) /\ n.next = me.next /\ n.pc = "scan"
    <3>1. "scan" \in Steps
      BY DEF Steps
    <3> QED BY <2>1, <3>1, Moved DEF SameBut
  <2>3. Sound(me, spool, store, SteadySoFar, AloneSoFar) /\ store.results \in Seq(Groups)
        /\ spool.blocks \in Seq(Blocks)
    BY <1>1, SoundNow
  <2>4. /\ me.seen = <<>> /\ me.batch = <<>> /\ ~me.writer /\ ~Ended(me) /\ ~me.orphan
        /\ n.seen = <<>> /\ n.batch = <<>> /\ ~n.writer /\ ~n.orphan
    BY <1>4, <2>2, <2>3 DEF Sound, Shape, SameBut
  <2>5. /\ ~Pending(n) /\ ~Pending(me) /\ Rereads(n) = Rereads(me) /\ ~Ended(n)
        /\ ~Completed(n) /\ ~Completed(me) /\ Held(n) = <<>> /\ Held(me) = <<>>
    BY <1>4, <2>2, <2>4 DEF Pending, Held, Rereads, Completed, Ended, AfterRename, SameBut
  <2>6. ~Rereads(me) => me.persisted = <<>>
    BY <2>4 DEF Rereads, Runs
  <2>7. Shape(n)
    BY <2>2, <2>3, <2>4, <2>5, <2>6, AcceptedNone DEF Sound, Shape, SameBut
  <2>8. Begins(n.seen, Baseline) /\ Begins(Accepted(Held(n)), spool.blocks)
    BY <2>3, <2>4, <2>5, AcceptedNone, BaselineType, BeginsNothing
  <2>9. AloneSoFar => Alone(n, spool, store)
    <3>1. AloneSoFar => store.results = me.persisted
      BY <1>4, <2>3 DEF Sound, Alone
    <3>2. ~Rereads(n) => me.persisted \o n.batch = Held(n)
      BY <2>4, <2>5, <2>6
    <3> QED BY <2>2, <2>4, <2>5, <2>8, <3>1, <3>2 DEF Alone, SameBut, AfterRename
  <2>10. /\ Sealing(n, spool) /\ (SteadySoFar => Steady(n, spool)) /\ Covered(n, spool) /\ Recording(n, spool)
    BY <2>2, <2>3, <2>4, <2>5, <2>8 DEF Sound, SameBut, Sealing, Steady, Covered, Recording
  <2>11. Sound(n, spool, store, SteadySoFar, AloneSoFar)
    BY <2>7, <2>9, <2>10 DEF Sound
  <2>12. runner' = [runner EXCEPT ![r] = n]
    BY <1>1, <1>4, <2>1 DEF RunGoes
  <2> QED BY <1>2, <1>4, <2>2, <2>11, <2>12, OneRunMoves
<1>5. CASE me.pc = "attestPost" /\ RunGoes(r, "seal") /\ OnlyRun
  BY <1>1, <1>5, LaterGoes DEF AfterRename
<1>6. CASE me.pc = "attestSeal" /\ RunGoes(r, "publish") /\ OnlyRun
  <2>1. Sound(me, spool, store, SteadySoFar, AloneSoFar)
    BY <1>1, SoundNow
  <2>2. me.writer => spool.seal = "sealed"
    BY <1>6, <2>1 DEF Sound, Sealing
  <2>3. SteadySoFar \/ AloneSoFar =>
          IF me.writer THEN spool.blocks = Accepted(Baseline) ELSE Accepted(Baseline) = <<>>
    BY <1>6, <2>1 DEF Sound, Covered
  <2>4. "publish" \in AfterRename /\ me.pc \in AfterRename
    BY <1>6 DEF AfterRename
  <2> QED BY <1>1, <1>6, <2>2, <2>3, <2>4, LaterGoes
<1> QED
  BY <1>1, <1>3, <1>4, <1>5, <1>6 DEF Attest, RunAt

\* The catalog is read to its end.
LEMMA EndOfCatalogSound ==
  ASSUME TraversalInv, NEW r \in Runners, EndOfCatalog(r)
  PROVE  TraversalInv'
<1>1. PICK me \in Runs : me = runner[r]
  BY SoundNow
<1>2. me.pc = "scan" /\ runner[r].pc # "idle"
  BY <1>1 DEF EndOfCatalog, RunAt
<1>3. CASE RunFails(r)
  BY <1>2, <1>3, RunFailing
<1>4. CASE /\ me.seen = Baseline /\ ~me.orphan /\ Len(me.persisted) <= Len(me.seen) /\ OnlyRun
           /\ runner' = [runner EXCEPT ![r] = [me EXCEPT !.then = "complete",
                            !.pc = IF me.batch = <<>> THEN "complete" ELSE "flush"]]
  <2>1. PICK step \in {"complete", "flush"} : step = IF me.batch = <<>> THEN "complete" ELSE "flush"
    OBVIOUS
  <2>2. PICK n : n = [me EXCEPT !.then = "complete", !.pc = step]
    OBVIOUS
  <2>3. /\ n \in Runs /\ n.pc = step /\ n.then = "complete" /\ n.next = me.next
        /\ n.persisted = me.persisted /\ n.seen = me.seen /\ n.batch = me.batch
        /\ n.group = me.group /\ n.writer = me.writer /\ n.sealed = me.sealed
        /\ n.orphan = me.orphan
    BY <2>2 DEF Runs, Steps
  <2>4. Sound(me, spool, store, SteadySoFar, AloneSoFar)
    BY <1>1, SoundNow
  <2>5. me.batch # <<>> => me.group = Excluded
    BY <1>2, <2>4 DEF Sound, Shape
  <2>6. /\ ~Pending(n) /\ ~Pending(me) /\ Rereads(n) = Rereads(me) /\ ~Rereads(me) /\ Ended(n)
        /\ ~Completed(n) /\ ~Completed(me) /\ Held(n) = me.seen /\ Held(me) = me.seen
    BY <1>2, <1>4, <2>1, <2>3, <2>5, BaselineType
       DEF Pending, Held, Rereads, Completed, Ended, AfterRename, Runs
  <2>7. Shape(n)
    BY <1>2, <1>4, <2>1, <2>3, <2>4, <2>5, <2>6 DEF Sound, Shape
  <2>8. /\ Sealing(n, spool) /\ (SteadySoFar => Steady(n, spool)) /\ Covered(n, spool) /\ Recording(n, spool)
        /\ (AloneSoFar => Alone(n, spool, store))
    BY <1>2, <1>4, <2>1, <2>3, <2>4, <2>6
       DEF Sound, Sealing, Steady, Covered, Recording, Alone, AfterRename
  <2>9. Sound(n, spool, store, SteadySoFar, AloneSoFar)
    BY <2>7, <2>8 DEF Sound
  <2> QED BY <1>2, <1>4, <2>1, <2>2, <2>3, <2>9, OneRunMoves
<1> QED
  BY <1>1, <1>3, <1>4 DEF EndOfCatalog, RunAt

(***************************************************************************)
(* A group is taken.                                                       *)
(***************************************************************************)

LEMMA AppendFacts ==
  ASSUME NEW G, NEW s \in Seq(G), NEW g \in G
  PROVE  /\ Append(s, g) \in Seq(G) /\ Append(s, g) # <<>>
         /\ Len(Append(s, g)) = Len(s) + 1 /\ Append(s, g)[Len(s) + 1] = g
         /\ \A i \in 1..Len(s) : Append(s, g)[i] = s[i]
         /\ AllButLast(Append(s, g)) = s
<1>1. PICK u : u = Append(s, g)
  OBVIOUS
<1>2. u \in Seq(G) /\ u # <<>> /\ Len(u) = Len(s) + 1 /\ u[Len(s) + 1] = g
      /\ \A i \in 1..Len(s) : u[i] = s[i]
  BY <1>1
<1>3. PICK k \in Nat : k = Len(s)
  OBVIOUS
<1>4. SubSeq(u, 1, k) \in Seq(G) /\ Len(SubSeq(u, 1, k)) = k
      /\ \A i \in 1..k : SubSeq(u, 1, k)[i] = u[i]
  BY <1>2, <1>3
<1>5. SubSeq(u, 1, k) = s
  BY <1>2, <1>3, <1>4, SeqEqual
<1>6. AllButLast(u) = s
  BY <1>2, <1>3, <1>5 DEF AllButLast
<1> QED BY <1>1, <1>2, <1>6

LEMMA LastFacts ==
  ASSUME NEW G, NEW s \in Seq(G), s # <<>>
  PROVE  /\ AllButLast(s) \in Seq(G) /\ s[Len(s)] \in G
         /\ Len(AllButLast(s)) = Len(s) - 1 /\ Len(s) \in Nat \ {0}
         /\ s = Append(AllButLast(s), s[Len(s)])
BY LastSplits DEF AllButLast

LEMMA ConcatAppend ==
  ASSUME NEW s \in Seq(Groups), NEW t \in Seq(Groups), NEW g \in Groups
  PROVE  s \o Append(t, g) = Append(s \o t, g)
<1>1. Append(t, g) = t \o <<g>>
  BY AppendIsConcat
<1>2. s \o t \in Seq(Groups)
  OBVIOUS
<1>3. Append(s \o t, g) = (s \o t) \o <<g>>
  BY <1>2, AppendIsConcat
<1>4. <<g>> \in Seq(Groups)
  OBVIOUS
<1> QED BY <1>1, <1>3, <1>4, ConcatAssociative

\* What a run that takes a group knows.
LEMMA Taken ==
  ASSUME TraversalInv, NEW r \in Runners, TakeGroup(r), ~RunFails(r)
  PROVE  \E me \in Runs, g \in Groups, read \in Seq(Groups) :
           /\ me = runner[r] /\ me.pc = "scan" /\ read = Append(me.seen, g)
           /\ Len(read) = Len(me.seen) + 1 /\ read[Len(read)] = g /\ read # <<>>
           /\ AllButLast(read) = me.seen
           /\ \A i \in 1..Len(me.seen) : read[i] = me.seen[i]
           /\ Accepted(read) = IF g = Excluded THEN Accepted(me.seen)
                               ELSE Append(Accepted(me.seen), g)
           /\ ~Ended(me) /\ ~Pending(me) /\ Held(me) = me.seen /\ ~Completed(me)
           /\ SteadySoFar => Begins(read, Baseline)
           /\ Begins(read, Baseline) => Begins(me.seen, Baseline)
           /\ RereadGroup(r, read) \/ NewGroup(r, read, g)
<1>1. PICK me \in Runs : me = runner[r]
  BY SoundNow
<1>2. me.pc = "scan"
  BY <1>1 DEF TakeGroup, RunAt
<1>3. me.seen \in Seq(Groups) /\ Len(me.seen) \in Nat
  BY DEF Runs
<1>4. groups \in Seq(Groups)
  BY TraversalAssumption DEF TraversalInv, FilesTyped, Groups
<1>5. PICK k \in Nat \ {0} : k = Len(me.seen) + 1
  BY <1>3
<1>6. k <= Len(groups) /\ k <= Len(Baseline)
  BY <1>1, <1>5, BaselineType DEF TakeGroup
<1>7. PICK g \in Groups : g = groups[k]
  BY <1>4, <1>5, <1>6
<1>8. PICK read \in Seq(Groups) : read = Append(me.seen, g)
  BY <1>3, AppendFacts
<1>9. /\ Len(read) = Len(me.seen) + 1 /\ read[k] = g /\ read # <<>> /\ AllButLast(read) = me.seen
      /\ \A i \in 1..Len(me.seen) : read[i] = me.seen[i]
  BY <1>3, <1>5, <1>8, AppendFacts
<1>10. Accepted(read) = IF g = Excluded THEN Accepted(me.seen) ELSE Append(Accepted(me.seen), g)
  BY <1>3, <1>8, AcceptedAppend
<1>11. ~Ended(me)
  <2>1. Ended(me) => me.seen = Baseline
    BY <1>1, SoundNow DEF Sound, Shape
  <2> QED BY <2>1, <1>3, <1>5, <1>6
<1>12. ~Pending(me) /\ Held(me) = me.seen /\ ~Completed(me)
  BY <1>2 DEF Pending, Held, Completed, AfterRename
<1>13. SteadySoFar => Begins(read, Baseline)
  <2> SUFFICES ASSUME SteadySoFar PROVE Begins(read, Baseline)
    OBVIOUS
  <2>1. groups = Baseline
    BY DEF TraversalInv, FilesAreSound, CatalogStays
  <2>2. Begins(me.seen, Baseline)
    BY <1>1, SoundNow DEF Sound, Steady
  <2> QED BY <1>3, <1>5, <1>6, <1>7, <1>9, <2>1, <2>2 DEF Begins
<1>14. Begins(read, Baseline) => Begins(me.seen, Baseline)
  BY <1>3, <1>9, BaselineType DEF Begins
<1>15. RereadGroup(r, read) \/ NewGroup(r, read, g)
  BY <1>1, <1>5, <1>7, <1>8 DEF TakeGroup
<1> QED BY <1>1, <1>2, <1>5, <1>8, <1>9, <1>10, <1>11, <1>12, <1>13, <1>14, <1>15

\* A group the store has is compared and the run goes on.
LEMMA ReadAgainSound ==
  ASSUME TraversalInv, NEW r \in Runners, NEW me \in Runs, NEW g \in Groups, NEW read \in Seq(Groups),
         me = runner[r], me.pc = "scan", read = Append(me.seen, g),
         Len(read) = Len(me.seen) + 1,
         ~Ended(me), ~Completed(me),
         SteadySoFar => Begins(read, Baseline),
         Len(read) < Len(me.persisted),
         OnlyRun, runner' = [runner EXCEPT ![r].seen = read]
  PROVE  TraversalInv'
<1>1. PICK n : n = [me EXCEPT !.seen = read]
  OBVIOUS
<1>2. /\ n \in Runs /\ n.pc = "scan" /\ n.then = me.then /\ n.next = me.next
      /\ n.persisted = me.persisted /\ n.seen = read /\ n.batch = me.batch
      /\ n.group = me.group /\ n.writer = me.writer /\ n.sealed = me.sealed
      /\ n.orphan = me.orphan
  BY <1>1 DEF Runs
<1>3. Sound(me, spool, store, SteadySoFar, AloneSoFar)
  BY SoundNow
<1>4. Rereads(me) /\ Rereads(n)
  BY <1>2 DEF Rereads, Runs
<1>5. me.batch = <<>> /\ ~me.writer /\ ~me.orphan
  BY <1>3, <1>4 DEF Sound, Shape
<1>6. ~Pending(n) /\ Held(n) = read /\ ~Ended(n) /\ ~Completed(n)
  BY <1>2 DEF Pending, Held, Ended, Completed
<1>7. Shape(n)
  BY <1>2, <1>3, <1>4, <1>5, <1>6 DEF Sound, Shape
<1>8. /\ Sealing(n, spool) /\ (SteadySoFar => Steady(n, spool)) /\ Covered(n, spool)
      /\ Recording(n, spool) /\ (AloneSoFar => Alone(n, spool, store))
  BY <1>2, <1>3, <1>4, <1>5, <1>6 DEF Sound, Sealing, Steady, Covered, Recording, Alone, AfterRename
<1>9. Sound(n, spool, store, SteadySoFar, AloneSoFar)
  BY <1>7, <1>8 DEF Sound
<1> QED BY <1>1, <1>2, <1>9, OneRunMoves

\* The last group the store has is compared: the spool is opened, or there is nothing in it.
OpensSpool(r, me, read, n) ==
  /\ me = runner[r] /\ me.pc = "scan" /\ Len(read) = Len(me.seen) + 1
  /\ ~Ended(me) /\ ~Completed(me)
  /\ SteadySoFar => Begins(read, Baseline)
  /\ read = me.persisted
  /\ OnlyRun
  /\ n.pc = "scan" /\ n.then = me.then /\ n.next = me.next
  /\ n.persisted = me.persisted /\ n.seen = read /\ n.batch = me.batch /\ n.group = me.group
  /\ n.writer => /\ SpoolFits(r) /\ n.sealed = (spool.seal = "sealed")
                  /\ n.orphan = (Ahead(r) = 1)
  /\ ~n.writer => /\ n.sealed = me.sealed /\ n.orphan = me.orphan
                   /\ Accepted(me.persisted) = <<>>
  /\ runner' = [runner EXCEPT ![r] = n]

LEMMA ReadAgainLastSound ==
  ASSUME TraversalInv, NEW r \in Runners, NEW me \in Runs, NEW read \in Seq(Groups),
         NEW n \in Runs, OpensSpool(r, me, read, n)
  PROVE  TraversalInv'
<1> USE DEF OpensSpool
<1>1. me.seen \in Seq(Groups) /\ me.batch \in Seq({Excluded}) /\ me.persisted \in Seq(Groups)
  BY DEF Runs
<1>2. /\ Sound(me, spool, store, SteadySoFar, AloneSoFar) /\ store.results \in Seq(Groups)
      /\ spool.blocks \in Seq(Blocks)
  BY SoundNow
<1>3. Rereads(me) /\ ~Rereads(n)
  BY <1>1 DEF Rereads, Runs
<1>4. me.batch = <<>> /\ ~me.writer /\ ~me.orphan
  BY <1>2, <1>3 DEF Sound, Shape
<1>5. ~Pending(n) /\ Held(n) = read /\ ~Ended(n) /\ ~Completed(n)
  BY <1>1 DEF Pending, Held, Ended, Completed
<1>6. n.orphan => n.writer
  BY <1>4
<1>7. Shape(n)
  <2>1. n.batch = <<>> /\ Len(n.batch) = 0 /\ Len(read) \in Nat
    BY <1>1, <1>4
  <2>2. ~n.writer => Accepted(read) = <<>> /\ Accepted(n.persisted) = <<>>
    BY <1>1, <1>6
  <2>3. \A i \in 1..Len(read) : i > Len(read) - Len(n.batch) => read[i] = Excluded
    BY <2>1
  <2> QED BY <1>1, <1>3, <1>5, <1>6, <2>1, <2>2, <2>3 DEF Shape
<1>8. Accepted(read) \in Seq(Blocks)
  BY AcceptedType
<1>9. n.writer => /\ Len(Accepted(read)) <= Len(spool.blocks)
           /\ Len(spool.blocks) = Len(Accepted(read)) + (IF n.orphan THEN 1 ELSE 0)
  <2>1. Ahead(r) = Len(spool.blocks) - Len(Accepted(read))
    BY DEF Ahead
  <2>2. SpoolFits(r) => Len(spool.blocks) >= Len(Accepted(read)) /\ Ahead(r) <= 1
    BY DEF SpoolFits
  <2>3. Len(spool.blocks) \in Nat /\ Len(Accepted(read)) \in Nat
    BY <1>2, <1>8
  <2>4. n.writer => SpoolFits(r) /\ (n.orphan <=> Ahead(r) = 1)
    BY <1>1, <1>6
  <2> QED BY <2>1, <2>2, <2>3, <2>4
<1>10. AloneSoFar => store.results = read
  BY <1>2, <1>3 DEF Sound, Alone
<1>11. AloneSoFar /\ Begins(read, Baseline) => Begins(Accepted(read), spool.blocks)
  BY <1>10 DEF TraversalInv, FilesAreSound, FilesAgree, SpoolHasResults
<1>12. read \o n.batch = read
  <2>1. n.batch = <<>>
    BY <1>1, <1>4
  <2> QED BY <2>1, ConcatEmptySeq
<1>13. AloneSoFar => Alone(n, spool, store)
  BY <1>1, <1>3, <1>5, <1>6, <1>9, <1>10, <1>11, <1>12 DEF Alone, AfterRename
<1>14. SteadySoFar => Steady(n, spool)
  BY <1>1, <1>2, <1>5, <1>6, <1>9 DEF Sound, Steady
<1>15. Sealing(n, spool) /\ Covered(n, spool) /\ Recording(n, spool)
  BY <1>1, <1>2, <1>4, <1>5 DEF Sound, Sealing, Covered, Recording
<1>16. Sound(n, spool, store, SteadySoFar, AloneSoFar)
  BY <1>7, <1>13, <1>14, <1>15 DEF Sound
<1> QED BY <1>1, <1>16, OneRunMoves

\* A new excluded group joins the batch.
LEMMA BatchedSound ==
  ASSUME TraversalInv, NEW r \in Runners, NEW me \in Runs, NEW read \in Seq(Groups),
         me = runner[r], me.pc = "scan", read = Append(me.seen, Excluded),
         ~Ended(me), ~Completed(me), ~me.orphan, Len(read) > Len(me.persisted),
         SteadySoFar => Begins(read, Baseline),
         Begins(read, Baseline) => Begins(me.seen, Baseline),
         OnlyRun,
         NEW n \in Runs, n.pc \in {"scan", "flush"}, n.then = "scan", n.next = me.next,
         n.persisted = me.persisted, n.seen = read, n.batch = Append(me.batch, Excluded),
         n.group = Excluded, n.writer = me.writer, n.sealed = me.sealed, n.orphan = me.orphan,
         runner' = [runner EXCEPT ![r] = n]
  PROVE  TraversalInv'
<1>1. me.seen \in Seq(Groups) /\ me.batch \in Seq({Excluded}) /\ me.batch \in Seq(Groups)
      /\ me.persisted \in Seq(Groups) /\ Excluded \in Groups /\ Len(me.seen) \in Nat
      /\ Len(me.batch) \in Nat /\ Len(me.persisted) \in Nat
  BY DEF Runs, Groups
<1>2. /\ Sound(me, spool, store, SteadySoFar, AloneSoFar) /\ store.results \in Seq(Groups)
      /\ spool.blocks \in Seq(Blocks)
  BY SoundNow
<1>3. /\ Len(read) = Len(me.seen) + 1 /\ read[Len(me.seen) + 1] = Excluded
      /\ \A i \in 1..Len(me.seen) : read[i] = me.seen[i]
      /\ Len(n.batch) = Len(me.batch) + 1 /\ n.batch # <<>>
  <2>1. Excluded \in {Excluded}
    OBVIOUS
  <2>2. Len(n.batch) = Len(me.batch) + 1 /\ n.batch # <<>>
    <3>1. PICK b \in Seq({Excluded}) : b = me.batch
      BY <1>1
    <3>2. Len(Append(b, Excluded)) = Len(b) + 1 /\ Append(b, Excluded) # <<>>
      BY <2>1, AppendFacts
    <3> QED BY <3>1, <3>2
  <2>3. /\ Len(read) = Len(me.seen) + 1 /\ read[Len(me.seen) + 1] = Excluded
        /\ \A i \in 1..Len(me.seen) : read[i] = me.seen[i]
    BY <1>1, AppendFacts
  <2> QED BY <2>2, <2>3
<1>4. Accepted(read) = Accepted(me.seen)
  BY <1>1, AcceptedAppend
<1>5. /\ ~Pending(n) /\ Held(n) = read /\ ~Ended(n) /\ ~Completed(n) /\ ~Pending(me) /\ Held(me) = me.seen
      /\ ~Rereads(n) /\ ~Rereads(me)
  BY <1>1, <1>3 DEF Pending, Held, Ended, Completed, AfterRename, Rereads
<1>6. Shape(n)
  <2>1. Len(n.batch) <= Len(read)
    BY <1>1, <1>2, <1>3, <1>5 DEF Sound, Shape
  <2>2. ASSUME NEW i \in 1..Len(read), i > Len(read) - Len(n.batch)
        PROVE  read[i] = Excluded
    <3>1. CASE i = Len(me.seen) + 1
      BY <3>1, <1>3
    <3>2. CASE i # Len(me.seen) + 1
      <4>1. i \in 1..Len(me.seen) /\ i > Len(me.seen) - Len(me.batch)
        <5>1. PICK k \in Nat, b \in Nat : k = Len(me.seen) /\ b = Len(me.batch)
          BY <1>1
        <5>2. i \in 1..(k + 1) /\ i # k + 1 /\ i > (k + 1) - (b + 1)
          BY <1>3, <2>2, <3>2, <5>1
        <5>3. i \in 1..k /\ i > k - b
          BY <5>2
        <5> QED BY <5>1, <5>3
      <4>2. me.seen[i] = Excluded
        BY <4>1, <1>2, <1>5 DEF Sound, Shape
      <4> QED BY <4>1, <4>2, <1>3
    <3> QED BY <3>1, <3>2
  <2>3. ~n.writer => Accepted(read) = <<>> /\ Accepted(n.persisted) = <<>>
    BY <1>2, <1>4, <1>5 DEF Sound, Shape
  <2> QED BY <1>3, <1>5, <2>1, <2>2, <2>3 DEF Shape
<1>7. ASSUME AloneSoFar
      PROVE  Alone(n, spool, store)
  <2>1. Alone(me, spool, store)
    BY <1>2, <1>7 DEF Sound
  <2>2. store.results \o me.batch = me.seen
    BY <2>1, <1>5 DEF Alone
  <2>3. store.results \o n.batch = read
    <3>1. store.results \o Append(me.batch, Excluded) = Append(store.results \o me.batch, Excluded)
      <4>1. PICK s \in Seq(Groups), b \in Seq(Groups) : s = store.results /\ b = me.batch
        BY <1>1, <1>2
      <4>2. s \o Append(b, Excluded) = Append(s \o b, Excluded)
        BY <1>1, ConcatAppend
      <4> QED BY <4>1, <4>2
    <3> QED BY <2>2, <3>1
  <2>4. Begins(read, Baseline) => Begins(Accepted(read), spool.blocks)
    BY <2>1, <1>4, <1>5 DEF Alone
  <2>5. n.writer => Len(spool.blocks) = Len(Accepted(read)) + (IF n.orphan THEN 1 ELSE 0)
    BY <2>1, <1>4, <1>5 DEF Alone
  <2> QED BY <1>5, <2>3, <2>4, <2>5 DEF Alone, AfterRename
<1>8. SteadySoFar => Steady(n, spool)
  BY <1>2, <1>4, <1>5 DEF Sound, Steady
<1>9. Sealing(n, spool) /\ Covered(n, spool) /\ Recording(n, spool)
  BY <1>2, <1>5 DEF Sound, Sealing, Covered, Recording
<1>10. Sound(n, spool, store, SteadySoFar, AloneSoFar)
  BY <1>6, <1>7, <1>8, <1>9 DEF Sound
<1> QED BY <1>10, OneRunMoves

\* A new accepted group is at hand.
HasAtHand(r, me, g, read, n) ==
  /\ me = runner[r] /\ me.pc = "scan" /\ read = Append(me.seen, g) /\ g # Excluded
  /\ ~Ended(me) /\ ~Completed(me) /\ Len(read) > Len(me.persisted)
  /\ SteadySoFar => Begins(read, Baseline)
  /\ OnlyRun
  /\ n.pc = (IF me.batch = <<>> THEN "accept" ELSE "flush")
  /\ n.then = me.then /\ n.next = me.next
  /\ n.persisted = me.persisted /\ n.seen = read /\ n.batch = me.batch
  /\ n.group = g /\ n.writer = me.writer /\ n.sealed = me.sealed /\ n.orphan = me.orphan
  /\ runner' = [runner EXCEPT ![r] = n]

LEMMA AtHandSound ==
  ASSUME TraversalInv, NEW r \in Runners, NEW me \in Runs, NEW g \in Groups, NEW read \in Seq(Groups),
         NEW n \in Runs, HasAtHand(r, me, g, read, n)
  PROVE  TraversalInv'
<1> USE DEF HasAtHand
<1>1. me.seen \in Seq(Groups) /\ me.batch \in Seq({Excluded})
      /\ me.persisted \in Seq(Groups) /\ Len(me.seen) \in Nat
      /\ Len(me.batch) \in Nat /\ Len(me.persisted) \in Nat
  BY DEF Runs
<1>2. /\ Sound(me, spool, store, SteadySoFar, AloneSoFar) /\ store.results \in Seq(Groups)
      /\ spool.blocks \in Seq(Blocks)
  BY SoundNow
<1>3. /\ Len(read) = Len(me.seen) + 1 /\ read[Len(read)] = g /\ AllButLast(read) = me.seen
      /\ read # <<>>
  <2>1. /\ Len(read) = Len(me.seen) + 1 /\ read[Len(me.seen) + 1] = g
        /\ AllButLast(read) = me.seen /\ read # <<>>
    <3>1. PICK s \in Seq(Groups) : s = me.seen
      BY <1>1
    <3>2. /\ Len(Append(s, g)) = Len(s) + 1 /\ Append(s, g)[Len(s) + 1] = g
          /\ AllButLast(Append(s, g)) = s /\ Append(s, g) # <<>>
      BY AppendFacts
    <3> QED BY <3>1, <3>2
  <2> QED BY <2>1
<1>5. /\ Pending(n) /\ Held(n) = me.seen /\ ~Ended(n) /\ ~Completed(n) /\ ~Pending(me) /\ Held(me) = me.seen
      /\ ~Rereads(n) /\ ~Rereads(me)
  <2>1. Pending(n)
    BY DEF Pending
  <2>2. ~Ended(n) /\ ~Completed(n) /\ ~Pending(me)
    BY DEF Pending, Ended, Completed, AfterRename
  <2>3. ~Rereads(n) /\ ~Rereads(me)
    BY <1>1, <1>3 DEF Rereads
  <2> QED BY <1>3, <2>1, <2>2, <2>3 DEF Held
<1>6. Shape(n)
  <2>1. n.pc \in {"accept", "flush"} /\ (n.pc = "flush" => n.batch # <<>>) /\ (n.batch # <<>> => n.pc = "flush")
    OBVIOUS
  <2>2. ~n.writer => Accepted(me.seen) = <<>> /\ Accepted(n.persisted) = <<>>
    BY <1>2, <1>5 DEF Sound, Shape
  <2>3. /\ Len(n.batch) <= Len(me.seen) /\ (n.orphan => n.writer)
        /\ \A i \in 1..Len(me.seen) : i > Len(me.seen) - Len(n.batch) => me.seen[i] = Excluded
    <3>1. Shape(me)
      BY <1>2 DEF Sound
    <3>2. /\ Len(me.batch) <= Len(Held(me)) /\ (me.orphan => me.writer)
          /\ \A i \in 1..Len(Held(me)) : i > Len(Held(me)) - Len(me.batch) => Held(me)[i] = Excluded
      BY <3>1 DEF Shape
    <3> QED BY <1>5, <3>2
  <2> QED BY <1>3, <1>5, <2>1, <2>2, <2>3 DEF Shape
<1>7. ASSUME AloneSoFar
      PROVE  Alone(n, spool, store)
  <2>1. Alone(me, spool, store)
    BY <1>2, <1>7 DEF Sound
  <2>2. store.results \o n.batch = me.seen
    BY <2>1, <1>5 DEF Alone
  <2>3. n.pc \in {"accept", "flush"}
    OBVIOUS
  <2>4. Begins(me.seen, Baseline) => Begins(Accepted(me.seen), spool.blocks)
    BY <2>1, <1>5 DEF Alone
  <2>5. n.writer => Len(spool.blocks) = Len(Accepted(me.seen)) + (IF n.orphan THEN 1 ELSE 0)
    BY <2>1, <1>5 DEF Alone
  <2> QED BY <1>5, <2>2, <2>3, <2>4, <2>5 DEF Alone, AfterRename
<1>8. SteadySoFar => Steady(n, spool)
  BY <1>2, <1>5 DEF Sound, Steady
<1>9. Sealing(n, spool) /\ Covered(n, spool) /\ Recording(n, spool)
  BY <1>2, <1>5 DEF Sound, Sealing, Covered, Recording
<1>10. Sound(n, spool, store, SteadySoFar, AloneSoFar)
  BY <1>6, <1>7, <1>8, <1>9 DEF Sound
<1> QED BY <1>10, OneRunMoves

\* The next group of the catalog is taken.
LEMMA TakeGroupSound ==
  ASSUME TraversalInv, NEW r \in Runners, TakeGroup(r)
  PROVE  TraversalInv'
<1>1. CASE RunFails(r)
  <2>1. runner[r].pc # "idle"
    BY DEF TakeGroup, RunAt
  <2> QED BY <1>1, <2>1, RunFailing
<1>2. CASE ~RunFails(r)
  <2>1. PICK me \in Runs, g \in Groups, read \in Seq(Groups) :
           /\ me = runner[r] /\ me.pc = "scan" /\ read = Append(me.seen, g)
           /\ Len(read) = Len(me.seen) + 1 /\ read[Len(read)] = g /\ read # <<>>
           /\ AllButLast(read) = me.seen
           /\ \A i \in 1..Len(me.seen) : read[i] = me.seen[i]
           /\ Accepted(read) = IF g = Excluded THEN Accepted(me.seen)
                               ELSE Append(Accepted(me.seen), g)
           /\ ~Ended(me) /\ ~Pending(me) /\ Held(me) = me.seen /\ ~Completed(me)
           /\ SteadySoFar => Begins(read, Baseline)
           /\ Begins(read, Baseline) => Begins(me.seen, Baseline)
           /\ RereadGroup(r, read) \/ NewGroup(r, read, g)
    BY <1>2, Taken
  <2>2. CASE RereadGroup(r, read)
    <3>1. CASE Len(read) < Len(me.persisted)
      BY <2>1, <2>2, <3>1, ReadAgainSound DEF RereadGroup
    <3>2. CASE ~(Len(read) < Len(me.persisted))
      <4>1. /\ read = me.persisted /\ OnlyRun
            /\ Accepted(me.persisted) = <<>> \/ SpoolFits(r)
            /\ runner' = [runner EXCEPT ![r] =
               IF Accepted(me.persisted) = <<>> THEN [me EXCEPT !.seen = read]
               ELSE [me EXCEPT !.seen = read, !.writer = TRUE,
                               !.sealed = (spool.seal = "sealed"),
                               !.orphan = (Ahead(r) = 1)]]
        BY <1>2, <2>1, <2>2, <3>2 DEF RereadGroup, PrefixMatches
      <4>2. CASE Accepted(me.persisted) = <<>>
        <5>1. PICK n : n = [me EXCEPT !.seen = read]
          OBVIOUS
        <5>2. /\ n \in Runs /\ n.pc = "scan" /\ n.then = me.then /\ n.next = me.next
              /\ n.persisted = me.persisted /\ n.seen = read /\ n.batch = me.batch
              /\ n.group = me.group /\ n.writer = me.writer /\ n.sealed = me.sealed
              /\ n.orphan = me.orphan
          BY <2>1, <5>1 DEF Runs
        <5>3. ~me.writer
          <6>1. Rereads(me)
            BY <2>1, <4>1 DEF Rereads, Runs
          <6> QED BY <2>1, <6>1, SoundNow DEF Sound, Shape
        <5>4. ~n.writer /\ runner' = [runner EXCEPT ![r] = n]
          BY <4>1, <4>2, <5>1, <5>2, <5>3
        <5>5. OpensSpool(r, me, read, n)
          BY <2>1, <4>1, <4>2, <5>2, <5>4 DEF OpensSpool
        <5> QED BY <5>2, <5>5, ReadAgainLastSound
      <4>3. CASE Accepted(me.persisted) # <<>>
        <5>0. PICK s \in BOOLEAN, o \in BOOLEAN : s = (spool.seal = "sealed") /\ o = (Ahead(r) = 1)
          OBVIOUS
        <5>1. PICK n : n = [me EXCEPT !.seen = read, !.writer = TRUE, !.sealed = s, !.orphan = o]
          OBVIOUS
        <5>2. /\ n \in Runs /\ n.pc = "scan" /\ n.then = me.then /\ n.next = me.next
              /\ n.persisted = me.persisted /\ n.seen = read /\ n.batch = me.batch
              /\ n.group = me.group /\ n.writer = TRUE /\ n.sealed = s
              /\ n.orphan = o
          BY <2>1, <5>1 DEF Runs
        <5>4. runner' = [runner EXCEPT ![r] = n]
          BY <4>1, <4>3, <5>0, <5>1
        <5>5. /\ n.writer => /\ SpoolFits(r) /\ n.sealed = (spool.seal = "sealed")
                             /\ n.orphan = (Ahead(r) = 1)
              /\ ~n.writer => /\ n.sealed = me.sealed /\ n.orphan = me.orphan
                              /\ Accepted(me.persisted) = <<>>
          BY <4>1, <4>3, <5>0, <5>2
        <5>6. OpensSpool(r, me, read, n)
          BY <2>1, <4>1, <5>2, <5>4, <5>5 DEF OpensSpool
        <5> QED BY <5>2, <5>6, ReadAgainLastSound
      <4> QED BY <4>2, <4>3
    <3> QED BY <3>1, <3>2
  <2>3. CASE NewGroup(r, read, g)
    <3>1. Len(read) > Len(me.persisted) /\ OnlyRun
      BY <1>2, <2>1, <2>3 DEF NewGroup
    <3>2. CASE g = Excluded
      <4>1. PICK step \in {"scan", "flush"} :
              step = IF Len(Append(me.batch, g)) = BatchSize THEN "flush" ELSE "scan"
        OBVIOUS
      <4>2. PICK b \in Seq({Excluded}) : b = Append(me.batch, Excluded)
        <5>1. me.batch \in Seq({Excluded}) /\ Excluded \in {Excluded}
          BY DEF Runs
        <5>2. Append(me.batch, Excluded) \in Seq({Excluded})
          BY <5>1
        <5> QED BY <5>2
      <4>3. PICK n : n = [me EXCEPT !.seen = read, !.batch = b, !.group = Excluded, !.then = "scan", !.pc = step]
        OBVIOUS
      <4>4. /\ n \in Runs /\ n.pc = step /\ n.then = "scan" /\ n.next = me.next
            /\ n.persisted = me.persisted /\ n.seen = read /\ n.batch = b
            /\ n.group = Excluded /\ n.writer = me.writer /\ n.sealed = me.sealed
            /\ n.orphan = me.orphan
        BY <2>1, <4>3 DEF Runs, Steps, Groups
      <4>5. ~me.orphan /\ runner' = [runner EXCEPT ![r] = n]
        BY <1>2, <2>1, <2>3, <3>2, <4>1, <4>2, <4>3 DEF NewGroup
      <4> QED BY <2>1, <3>1, <3>2, <4>1, <4>2, <4>4, <4>5, BatchedSound
    <3>3. CASE g # Excluded
      <4>1. PICK step \in {"accept", "flush"} : step = IF me.batch = <<>> THEN "accept" ELSE "flush"
        OBVIOUS
      <4>3. PICK n : n = [me EXCEPT !.seen = read, !.group = g, !.pc = step]
        OBVIOUS
      <4>4. /\ n \in Runs /\ n.pc = step /\ n.then = me.then /\ n.next = me.next
            /\ n.persisted = me.persisted /\ n.seen = read /\ n.batch = me.batch
            /\ n.group = g /\ n.writer = me.writer /\ n.sealed = me.sealed
            /\ n.orphan = me.orphan
        BY <2>1, <4>3 DEF Runs, Steps
      <4>5. runner' = [runner EXCEPT ![r] = n]
        BY <2>1, <2>3, <3>3, <4>1, <4>3 DEF NewGroup, AcceptGroup
      <4>6. HasAtHand(r, me, g, read, n)
        BY <2>1, <3>1, <3>3, <4>1, <4>4, <4>5 DEF HasAtHand
      <4> QED BY <4>4, <4>6, AtHandSound
    <3> QED BY <3>2, <3>3
  <2> QED BY <2>1, <2>2, <2>3
<1> QED BY <1>1, <1>2

(***************************************************************************)
(* Results are recorded.                                                   *)
(***************************************************************************)

\* A run that was alone still is: the others are idle.
LEMMA OthersIdle ==
  ASSUME TraversalInv, NEW r \in Runners, runner[r].pc # "idle", AloneSoFar,
         NEW q \in Runners \ {r}
  PROVE  runner[q] = NoRun
BY DEF TraversalInv, OneAtWork, RunsAreSound, Sound, Shape

\* The files as another run left them do for a run.
LEMMA OthersStaySound ==
  ASSUME TraversalInv, NEW r \in Runners, runner[r].pc # "idle", NEW q \in Runners \ {r},
         NEW sp \in Spools, NEW st \in Stores,
         Len(spool.blocks) <= Len(sp.blocks),
         spool.seal = "sealed" => sp.seal = "sealed",
         SteadySoFar /\ spool.blocks = Accepted(Baseline) => sp.blocks = Accepted(Baseline)
  PROVE  Sound(runner[q], sp, st, SteadySoFar, AloneSoFar)
<1>1. CASE AloneSoFar
  <2>1. runner[q] = NoRun
    BY <1>1, OthersIdle
  <2>2. SteadySoFar \in BOOLEAN /\ AloneSoFar \in BOOLEAN
    BY DEF SteadySoFar, AloneSoFar
  <2> QED BY <2>1, <2>2, NoRunIsSound
<1>2. CASE ~AloneSoFar
  <2>1. PICK me \in Runs : me = runner[q]
    BY DEF TraversalInv, FilesTyped
  <2>2. Sound(me, spool, store, SteadySoFar, AloneSoFar)
    BY <2>1, SoundNow
  <2>3. Shape(me) /\ Sealing(me, sp)
    BY <2>2 DEF Sound, Sealing
  <2>4. SteadySoFar => Steady(me, sp)
    <3>1. Shape(me)
      BY <2>2 DEF Sound
    <3>2. Held(me) \in Seq(Groups)
      <4>1. me.seen \in Seq(Groups)
        BY DEF Runs
      <4>2. Pending(me) => me.seen # <<>>
        BY <3>1 DEF Shape
      <4> QED BY <4>1, <4>2, LastFacts DEF Held
    <3>3. Accepted(Held(me)) \in Seq(Blocks) /\ spool.blocks \in Seq(Blocks) /\ sp.blocks \in Seq(Blocks)
      BY <3>2, AcceptedType, SoundNow DEF Spools
    <3> QED BY <2>2, <3>3 DEF Sound, Steady
  <2>5. SteadySoFar => Covered(me, sp)
    BY <2>2 DEF Sound, Covered
  <2> QED BY <1>2, <2>1, <2>3, <2>4, <2>5 DEF Sound
<1> QED BY <1>1, <1>2

\* One run moves and leaves sound files.
LEMMA RunMoves ==
  ASSUME TraversalInv, NEW r \in Runners, NEW n \in Runs, runner[r].pc # "idle",
         runner' = [runner EXCEPT ![r] = n],
         holder' = holder, BoundsUnchanged,
         store' \in Stores, spool' \in Spools, pageNames' \in [Blocks -> 0..2],
         root' \in [names : 0..2, blocks : Seq(Blocks)],
         FilesAreSound', Sound(n, spool', store', SteadySoFar, AloneSoFar),
         \A q \in Runners \ {r} : Sound(runner[q], spool', store', SteadySoFar, AloneSoFar)
  PROVE  TraversalInv'
<1>1. UNCHANGED <<holder, groups, stops, drifts, displacements>>
  BY DEF BoundsUnchanged
<1>2. FilesTyped'
  BY <1>1 DEF TraversalInv, FilesTyped
<1>3. \A q \in Runners : runner'[q] = IF q = r THEN n ELSE runner[q]
  BY DEF TraversalInv, FilesTyped
<1>4. RunsAreSound'
  BY <1>1, <1>3 DEF RunsAreSound, SteadySoFar, AloneSoFar
<1>5. OneAtWork'
  BY <1>1, <1>3 DEF TraversalInv, OneAtWork, AloneSoFar
<1> QED BY <1>2, <1>4, <1>5 DEF TraversalInv

\* What a run has at hand and what it holds.
LEMMA HeldFacts ==
  ASSUME NEW me \in Runs, Shape(me)
  PROVE  /\ Held(me) \in Seq(Groups) /\ Accepted(Held(me)) \in Seq(Blocks)
         /\ Len(Held(me)) \in Nat /\ Len(me.batch) \in Nat
         /\ Pending(me) \/ me.pc = "commit" =>
              /\ me.group \in Blocks
              /\ AllButLast(me.seen) \in Seq(Groups) /\ Len(me.seen) \in Nat \ {0}
              /\ Len(AllButLast(me.seen)) = Len(me.seen) - 1
              /\ me.seen = Append(AllButLast(me.seen), me.group)
              /\ Accepted(me.seen) = Append(Accepted(AllButLast(me.seen)), me.group)
<1>1. me.seen \in Seq(Groups) /\ me.group \in Groups /\ me.batch \in Seq({Excluded})
  BY DEF Runs
<1>2. ASSUME Pending(me) \/ me.pc = "commit"
      PROVE  /\ me.group \in Blocks
             /\ AllButLast(me.seen) \in Seq(Groups) /\ Len(me.seen) \in Nat \ {0}
             /\ Len(AllButLast(me.seen)) = Len(me.seen) - 1
             /\ me.seen = Append(AllButLast(me.seen), me.group)
             /\ Accepted(me.seen) = Append(Accepted(AllButLast(me.seen)), me.group)
  <2>1. me.seen # <<>> /\ me.group = me.seen[Len(me.seen)] /\ me.group # Excluded
    BY <1>2 DEF Shape
  <2>2. /\ AllButLast(me.seen) \in Seq(Groups) /\ Len(me.seen) \in Nat \ {0}
        /\ Len(AllButLast(me.seen)) = Len(me.seen) - 1
        /\ me.seen = Append(AllButLast(me.seen), me.group)
    BY <1>1, <2>1, LastFacts
  <2>3. PICK s \in Seq(Groups), g \in Groups : s = AllButLast(me.seen) /\ g = me.group
    BY <1>1, <2>2
  <2>4. Accepted(Append(s, g)) = IF g = Excluded THEN Accepted(s) ELSE Append(Accepted(s), g)
    BY AcceptedAppend
  <2> QED BY <1>1, <2>1, <2>2, <2>3, <2>4 DEF Groups
<1>3. Held(me) \in Seq(Groups)
  BY <1>1, <1>2 DEF Held
<1> QED BY <1>1, <1>2, <1>3, AcceptedType

\* A run has written the temporary file of a longer store.
Records(r, me, x, n) ==
  /\ me = runner[r] /\ me.pc \in {"flush", "commit"} /\ OnlyRun
  /\ runner' = [runner EXCEPT ![r] = n]
  /\ n.pc = "rename" /\ n.next = {x} /\ n.batch = <<>>
  /\ n.then \in {"scan", "complete", "accept", "committed"}
  /\ n.then = "accept" <=> Pending(me)
  /\ n.then = "complete" => Ended(me)
  /\ n.persisted = me.persisted /\ n.seen = me.seen
  /\ n.group = me.group /\ n.writer = me.writer /\ n.sealed = me.sealed /\ n.orphan = me.orphan
  /\ ~store.complete /\ ~x.complete
  /\ SteadySoFar => Begins(x.results, Baseline)
  /\ AloneSoFar => x.results = Held(me)
  /\ SteadySoFar /\ AloneSoFar => spool.blocks = Accepted(x.results)

\* A store with more results is about to be renamed into place.
LEMMA RecordsSound ==
  ASSUME TraversalInv, NEW r \in Runners, NEW me \in Runs, NEW x \in Stores, NEW n \in Runs,
         Records(r, me, x, n)
  PROVE  TraversalInv'
<1> USE DEF Records
<1>1. Sound(me, spool, store, SteadySoFar, AloneSoFar)
  BY SoundNow
<1>2. /\ Pending(n) <=> Pending(me)
      /\ Rereads(n) <=> Rereads(me)
      /\ ~Rereads(me) /\ ~Completed(n) /\ ~Completed(me)
      /\ Ended(n) => Ended(me)
  <2>1. Pending(n) <=> Pending(me)
    BY DEF Pending
  <2>2. ~Rereads(me) /\ (Rereads(n) <=> Rereads(me))
    BY <1>1 DEF Sound, Shape, Rereads
  <2>3. ~Completed(n) /\ ~Completed(me) /\ (Ended(n) => Ended(me))
    BY DEF Completed, Ended, AfterRename
  <2> QED BY <2>1, <2>2, <2>3
<1>3. Held(n) = Held(me)
  BY <1>2 DEF Held
<1>4. Shape(me) /\ Held(me) \in Seq(Groups) /\ Len(Held(me)) \in Nat
  BY <1>1, HeldFacts DEF Sound
<1>5. Shape(n)
  <2>1. Len(n.batch) = 0
    OBVIOUS
  <2>2. Len(n.batch) <= Len(Held(n))
        /\ \A i \in 1..Len(Held(n)) : i > Len(Held(n)) - Len(n.batch) => Held(n)[i] = Excluded
    BY <1>3, <1>4, <2>1
  <2>3. n.pc = "rename" /\ n.batch = <<>> /\ n.then # "idle"
    OBVIOUS
  <2>4. Pending(n) => n.seen # <<>> /\ n.group = n.seen[Len(n.seen)] /\ n.group # Excluded
    BY <1>2, <1>4 DEF Shape
  <2>5. /\ n.orphan => n.writer
        /\ ~n.writer => Accepted(Held(n)) = <<>> /\ Accepted(n.persisted) = <<>>
        /\ Ended(n) => n.seen = Baseline /\ ~n.orphan /\ ~Rereads(n) /\ ~Pending(n)
    BY <1>2, <1>3, <1>4 DEF Shape
  <2> QED BY <1>2, <2>2, <2>3, <2>4, <2>5 DEF Shape
<1>6. ASSUME AloneSoFar PROVE Alone(n, spool, store)
  <2>1. Alone(me, spool, store)
    BY <1>1, <1>6 DEF Sound
  <2>2. \A y \in n.next : y.results = Held(n) /\ y.complete = (n.then = "attestPost")
    BY <1>3, <1>6 DEF Stores
  <2>3. n.writer => Len(spool.blocks) = Len(Accepted(Held(n))) + (IF n.orphan THEN 1 ELSE 0)
    BY <1>3, <2>1 DEF Alone
  <2>4. Begins(Held(n), Baseline) => Begins(Accepted(Held(n)), spool.blocks)
    BY <1>2, <1>3, <2>1 DEF Alone
  <2> QED BY <1>2, <2>2, <2>3, <2>4 DEF Alone, AfterRename
<1>7. SteadySoFar => Steady(n, spool)
  BY <1>1, <1>3 DEF Sound, Steady
<1>8. Sealing(n, spool) /\ Covered(n, spool)
  BY <1>1, <1>2 DEF Sound, Sealing, Covered
<1>9. SteadySoFar /\ AloneSoFar => Recording(n, spool)
  BY DEF Recording
<1>10. Sound(n, spool, store, SteadySoFar, AloneSoFar)
  BY <1>5, <1>6, <1>7, <1>8, <1>9 DEF Sound
<1> QED BY <1>10, OneRunMoves

\* What RecordResults does.
Outcome(r, first, entries, following) ==
  \/ RunFails(r)
  \/ /\ following = "committed" /\ RunGoes(r, "scan") /\ OnlyRun
     /\ first = Len(store.results)
  \/ /\ ~store.complete /\ first = Len(store.results) + 1 /\ OnlyRun
     /\ runner' = [runner EXCEPT ![r] = [runner[r] EXCEPT !.pc = "rename", !.then = following, !.batch = <<>>,
           !.next = {[results |-> store.results \o entries, complete |-> FALSE]}]]

LEMMA RecordCases ==
  ASSUME TraversalInv, NEW r \in Runners,
         NEW first, NEW entries, NEW following, RecordResults(r, first, entries, following)
  PROVE  Outcome(r, first, entries, following)
<1> USE DEF Outcome
<1>1. PICK last \in Nat : last = Len(store.results)
  BY SoundNow
<1>2. last # last + 1
  BY <1>1
<1>3. CASE store.complete \/ first \notin {last, last + 1}
  BY <1>1, <1>2, <1>3 DEF RecordResults
<1>4. CASE ~store.complete /\ first = last
  <2>1. \/ following = "committed" /\ RunGoes(r, "scan") /\ OnlyRun
        \/ RunFails(r)
    BY <1>1, <1>2, <1>4 DEF RecordResults
  <2> QED BY <1>1, <1>4, <2>1
<1>5. CASE ~store.complete /\ first = last + 1
  BY <1>1, <1>2, <1>5 DEF RecordResults
<1> QED BY <1>3, <1>4, <1>5

LEMMA NextType ==
  ASSUME TraversalInv, NEW e \in Seq(Groups)
  PROVE  /\ [results |-> store.results \o e, complete |-> FALSE] \in Stores
         /\ store.results \o e \in Seq(Groups)
         /\ Len(store.results \o e) = Len(store.results) + Len(e)
         /\ \A i \in 1..Len(store.results) : (store.results \o e)[i] = store.results[i]
         /\ \A i \in 1..Len(e) : (store.results \o e)[Len(store.results) + i] = e[i]
<1>1. PICK s \in Seq(Groups) : s = store.results
  BY DEF TraversalInv, FilesTyped, Stores
<1>2. /\ s \o e \in Seq(Groups) /\ Len(s \o e) = Len(s) + Len(e)
      /\ \A i \in 1..Len(s) : (s \o e)[i] = s[i]
      /\ \A i \in 1..Len(e) : (s \o e)[Len(s) + i] = e[i]
  OBVIOUS
<1> QED BY <1>1, <1>2 DEF Stores

\* Excluded groups are recorded.
LEMMA FlushSound ==
  ASSUME TraversalInv, NEW r \in Runners, Flush(r)
  PROVE  TraversalInv'
<1>1. PICK me \in Runs : me = runner[r]
  BY SoundNow
<1>2. me.pc = "flush" /\ runner[r].pc # "idle"
  BY <1>1 DEF Flush, RunAt
<1>3. /\ Sound(me, spool, store, SteadySoFar, AloneSoFar)
      /\ store.results \in Seq(Groups) /\ spool.blocks \in Seq(Blocks)
  BY <1>1, SoundNow
<1>4. PICK h \in Seq(Groups), b \in Seq({Excluded}) : h = Held(me) /\ b = me.batch
  BY <1>3, HeldFacts DEF Sound, Runs
<1>5. PICK k \in Nat, l \in Nat, m \in Nat : k = Len(h) /\ l = Len(b) /\ m = Len(store.results)
  BY <1>3
<1>6. b \in Seq(Groups)
  BY DEF Groups
<1>7. /\ l <= k /\ \A i \in 1..k : i > k - l => h[i] = Excluded
      /\ b # <<>> /\ l # 0
      /\ Pending(me) <=> me.group # Excluded
      /\ me.group # Excluded \/ me.then \in {"scan", "complete"}
      /\ ~Rereads(me)
  <2>1. Shape(me)
    BY <1>3 DEF Sound
  <2>2. /\ l <= k /\ \A i \in 1..k : i > k - l => h[i] = Excluded
    BY <2>1, <1>4, <1>5 DEF Shape
  <2>3. /\ b # <<>> /\ (me.group # Excluded \/ me.then \in {"scan", "complete"}) /\ ~Rereads(me)
    BY <2>1, <1>2, <1>4 DEF Shape
  <2>4. l # 0
    BY <2>3, <1>5
  <2>5. Pending(me) <=> me.group # Excluded
    BY <1>2 DEF Pending
  <2> QED BY <2>2, <2>3, <2>4, <2>5
<1>8. PICK following \in {"scan", "complete", "accept"} :
        following = IF me.group = Excluded THEN me.then ELSE "accept"
  BY <1>7
<1>9. RecordResults(r, k - l + 1, b, following)
  <2>1. k = IF me.group = Excluded THEN Len(me.seen) ELSE Len(me.seen) - 1
    <3>1. CASE me.group = Excluded
      BY <3>1, <1>4, <1>5, <1>7 DEF Held
    <3>2. CASE me.group # Excluded
      BY <3>2, <1>3, <1>4, <1>5, <1>7, HeldFacts DEF Held, Sound
    <3> QED BY <3>1, <3>2
  <2> QED BY <2>1, <1>1, <1>4, <1>5, <1>8 DEF Flush
<1>10. CASE RunFails(r)
  BY <1>2, <1>10, RunFailing
<1>11. CASE /\ ~store.complete /\ k - l + 1 = m + 1 /\ OnlyRun
            /\ runner' = [runner EXCEPT ![r] = [me EXCEPT !.pc = "rename", !.then = following, !.batch = <<>>,
                 !.next = {[results |-> store.results \o b, complete |-> FALSE]}]]
  <2>1. PICK x \in Stores : x = [results |-> store.results \o b, complete |-> FALSE]
    BY <1>6, NextType
  <2>2. PICK n : n = [me EXCEPT !.pc = "rename", !.then = following, !.batch = <<>>, !.next = {x}]
    OBVIOUS
  <2>3. /\ n \in Runs /\ n.pc = "rename" /\ n.then = following /\ n.next = {x} /\ n.batch = <<>>
        /\ n.persisted = me.persisted /\ n.seen = me.seen
        /\ n.group = me.group /\ n.writer = me.writer /\ n.sealed = me.sealed /\ n.orphan = me.orphan
    <3>1. /\ following \in {"idle", "scan", "accept", "committed", "complete", "attestPost"}
          /\ {x} \in SUBSET Stores /\ <<>> \in Seq({Excluded}) /\ "rename" \in Steps
      BY DEF Steps
    <3>2. PICK a : a = [me EXCEPT !.pc = "rename", !.then = following]
      OBVIOUS
    <3>3. a \in Runs
      BY <3>1, <3>2 DEF Runs
    <3>4. /\ a.pc = "rename" /\ a.then = following
          /\ a.persisted = me.persisted /\ a.seen = me.seen
          /\ a.group = me.group /\ a.writer = me.writer /\ a.sealed = me.sealed /\ a.orphan = me.orphan
      BY <3>2 DEF Runs
    <3>5. n = [a EXCEPT !.batch = <<>>, !.next = {x}]
      BY <2>2, <3>2
    <3> QED BY <3>1, <3>3, <3>4, <3>5 DEF Runs
  <2>4. /\ x.complete = FALSE /\ x.results = store.results \o b /\ x.results \in Seq(Groups)
        /\ Len(x.results) = k
        /\ \A i \in 1..m : x.results[i] = store.results[i]
        /\ \A i \in 1..l : x.results[m + i] = Excluded
    <3>1. x.complete = FALSE /\ x.results = store.results \o b
      BY <2>1
    <3>2. /\ x.results \in Seq(Groups) /\ Len(x.results) = m + l
          /\ \A i \in 1..m : x.results[i] = store.results[i]
          /\ \A i \in 1..l : x.results[m + i] = b[i]
      <4>1. PICK c \in Seq(Groups) : c = b
        BY <1>6
      <4>2. /\ store.results \o c \in Seq(Groups)
            /\ Len(store.results \o c) = Len(store.results) + Len(c)
            /\ \A i \in 1..Len(store.results) : (store.results \o c)[i] = store.results[i]
            /\ \A i \in 1..Len(c) : (store.results \o c)[Len(store.results) + i] = c[i]
        BY NextType
      <4> QED BY <3>1, <4>1, <4>2, <1>5
    <3>3. \A i \in 1..l : b[i] = Excluded
      BY <1>5
    <3>4. m + l = k
      BY <1>11
    <3> QED BY <3>1, <3>2, <3>3, <3>4
  <2>5. SteadySoFar => Begins(x.results, Baseline)
    <3> SUFFICES ASSUME SteadySoFar PROVE Begins(x.results, Baseline)
      OBVIOUS
    <3>1. Begins(store.results, Baseline)
      BY DEF TraversalInv, FilesAreSound, CatalogStays
    <3>2. Begins(me.seen, Baseline)
      BY <1>3 DEF Sound, Steady
    <3>3. k <= Len(Baseline) /\ \A i \in 1..k : h[i] = Baseline[i]
      <4>1. CASE ~Pending(me)
        BY <4>1, <3>2, <1>4, <1>5 DEF Held, Begins
      <4>2. CASE Pending(me)
        <5>1. /\ h \in Seq(Groups) /\ Len(me.seen) = k + 1 /\ me.seen = Append(h, me.group)
          BY <4>2, <1>3, <1>4, <1>5, HeldFacts DEF Held, Sound
        <5>2. \A i \in 1..k : h[i] = me.seen[i]
          <6>1. me.group \in Groups
            BY DEF Runs
          <6> QED BY <5>1, <6>1, <1>5
        <5> QED BY <5>1, <5>2, <3>2, BaselineType DEF Begins
      <4> QED BY <4>1, <4>2
    <3>4. \A i \in 1..k : x.results[i] = Baseline[i]
      <4> SUFFICES ASSUME NEW i \in 1..k PROVE x.results[i] = Baseline[i]
        OBVIOUS
      <4>1. CASE i <= m
        BY <4>1, <2>4, <3>1, <1>5 DEF Begins
      <4>2. CASE i > m
        <5>1. PICK j \in 1..l : i = m + j
          <6>1. i - m \in 1..l /\ i = m + (i - m)
            BY <4>2, <1>11
          <6> QED BY <6>1
        <5>2. x.results[i] = Excluded
          BY <5>1, <2>4
        <5>3. i > k - l
          BY <4>2, <1>11
        <5> QED BY <5>2, <5>3, <1>7, <3>3
      <4> QED BY <4>1, <4>2
    <3> QED BY <2>4, <3>3, <3>4 DEF Begins
  <2>6. AloneSoFar => store.results \o b = h
    BY <1>2, <1>3, <1>4, <1>7 DEF Sound, Alone
  <2>7. ASSUME SteadySoFar, AloneSoFar
        PROVE  spool.blocks = Accepted(x.results)
    <3>1. Accepted(x.results) = Accepted(store.results)
      BY <1>3, <2>4, AcceptedExcluded
    <3>2. \/ spool.blocks = Accepted(store.results)
          \/ m < Len(Baseline) /\ spool.blocks = Append(Accepted(store.results), Baseline[m + 1])
      <4>1. Exact(store, spool)
        BY <2>7 DEF TraversalInv, FilesAreSound, FilesAgree
      <4> QED BY <4>1, <1>5 DEF Exact
    <3>3. ASSUME m < Len(Baseline), spool.blocks = Append(Accepted(store.results), Baseline[m + 1])
          PROVE  FALSE
      <4>1. Baseline[m + 1] = Excluded
        <5>1. 1 \in 1..l /\ m + 1 \in 1..k
          BY <1>7, <1>11
        <5>2. x.results[m + 1] = Excluded
          BY <5>1, <2>4
        <5>3. Begins(x.results, Baseline)
          BY <2>5, <2>7
        <5> QED BY <5>1, <5>2, <5>3, <2>4 DEF Begins
      <4>2. PICK a \in Seq(Blocks) : a = Accepted(store.results)
        BY <1>3, AcceptedType
      <4>3. Append(a, Excluded) \in Seq(Blocks)
        BY <1>3, <3>3, <4>1, <4>2
      <4>4. Append(a, Excluded)[Len(a) + 1] = Excluded /\ Len(Append(a, Excluded)) = Len(a) + 1
            /\ Len(a) + 1 \in 1..(Len(a) + 1)
        BY <4>2
      <4>5. Excluded \in Blocks
        BY <4>3, <4>4
      <4> QED BY <4>5, NotABlock
    <3> QED BY <3>1, <3>2, <3>3
  <2>8. /\ n.then = "accept" <=> Pending(me)
        /\ n.then = "complete" => Ended(me)
    BY <1>7, <1>8, <2>3 DEF Ended
  <2>9. Records(r, me, x, n)
    BY <1>1, <1>2, <1>4, <1>8, <1>11, <2>1, <2>2, <2>3, <2>4, <2>5, <2>6, <2>7, <2>8 DEF Records
  <2> QED BY <2>3, <2>9, RecordsSound
<1> QED
  <2>1. \/ RunFails(r)
        \/ following = "committed"
        \/ /\ ~store.complete /\ k - l + 1 = m + 1 /\ OnlyRun
           /\ runner' = [runner EXCEPT ![r] = [me EXCEPT !.pc = "rename", !.then = following, !.batch = <<>>,
                 !.next = {[results |-> store.results \o b, complete |-> FALSE]}]]
    <3>1. PICK f : f = k - l + 1
      OBVIOUS
    <3>2. RecordResults(r, f, b, following)
      BY <1>9, <3>1
    <3>3. \/ RunFails(r)
          \/ following = "committed"
          \/ /\ ~store.complete /\ f = Len(store.results) + 1 /\ OnlyRun
             /\ runner' = [runner EXCEPT ![r] = [me EXCEPT !.pc = "rename", !.then = following, !.batch = <<>>,
                 !.next = {[results |-> store.results \o b, complete |-> FALSE]}]]
      BY <1>1, <3>2, RecordCases DEF Outcome
    <3> QED BY <1>5, <3>1, <3>3
  <2> QED BY <1>8, <1>10, <1>11, <2>1

\* An accepted group is recorded.
LEMMA CommitSound ==
  ASSUME TraversalInv, NEW r \in Runners, CommitGroup(r)
  PROVE  TraversalInv'
<1>1. PICK me \in Runs : me = runner[r]
  BY SoundNow
<1>2. me.pc = "commit" /\ runner[r].pc # "idle" /\ ~Pending(me) /\ Held(me) = me.seen
  <2>1. me.pc = "commit"
    BY <1>1 DEF CommitGroup, RunAt
  <2> QED BY <2>1, <1>1 DEF Pending, Held
<1>3. /\ Sound(me, spool, store, SteadySoFar, AloneSoFar) /\ Shape(me)
      /\ store.results \in Seq(Groups) /\ spool.blocks \in Seq(Blocks)
  BY <1>1, SoundNow DEF Sound
<1>4. /\ me.seen \in Seq(Groups) /\ me.group \in Groups /\ Len(me.seen) \in Nat \ {0}
      /\ AllButLast(me.seen) \in Seq(Groups)
      /\ Len(AllButLast(me.seen)) = Len(me.seen) - 1
      /\ me.seen = Append(AllButLast(me.seen), me.group)
      /\ me.group = me.seen[Len(me.seen)]
      /\ me.batch = <<>> /\ me.writer /\ ~me.orphan /\ ~Rereads(me)
  <2>1. me.seen \in Seq(Groups) /\ me.group \in Groups
    BY DEF Runs
  <2>2. /\ Len(me.seen) \in Nat \ {0} /\ AllButLast(me.seen) \in Seq(Groups)
        /\ Len(AllButLast(me.seen)) = Len(me.seen) - 1
        /\ me.seen = Append(AllButLast(me.seen), me.group)
    BY <1>2, <1>3, HeldFacts
  <2>3. /\ me.group = me.seen[Len(me.seen)] /\ me.batch = <<>> /\ me.writer /\ ~me.orphan /\ ~Rereads(me)
    BY <1>2, <1>3 DEF Shape
  <2> QED BY <2>1, <2>2, <2>3
<1>5. Outcome(r, Len(me.seen), <<me.group>>, "committed")
  <2>1. PICK f, e : f = Len(me.seen) /\ e = <<me.group>>
    OBVIOUS
  <2>2. RecordResults(r, f, e, "committed")
    BY <1>1, <2>1 DEF CommitGroup
  <2>3. Outcome(r, f, e, "committed")
    BY <2>2, RecordCases
  <2> QED BY <2>1, <2>3
<1>6. CASE RunFails(r)
  BY <1>2, <1>6, RunFailing
<1>7. CASE RunGoes(r, "scan") /\ OnlyRun /\ Len(me.seen) = Len(store.results)
  <2>1. PICK n : n = [me EXCEPT !.pc = "scan"]
    OBVIOUS
  <2>2. n \in Runs /\ SameBut(n, me) /\ n.next = me.next /\ n.pc = "scan"
    <3>1. "scan" \in Steps
      BY DEF Steps
    <3> QED BY <2>1, <3>1, Moved DEF SameBut
  <2>3. runner' = [runner EXCEPT ![r] = n]
    BY <1>1, <1>7, <2>1 DEF RunGoes
  <2>4. ~AloneSoFar
    <3>1. AloneSoFar => store.results = AllButLast(me.seen)
      BY <1>2, <1>3 DEF Sound, Alone
    <3> QED BY <3>1, <1>4, <1>7
  <2>5. /\ ~Pending(n) /\ Held(n) = me.seen /\ (Rereads(n) <=> Rereads(me))
        /\ ~Completed(n) /\ (Ended(n) => Ended(me))
    BY <1>2, <2>2 DEF Pending, Held, Rereads, Completed, Ended, SameBut, AfterRename
  <2>6. Shape(n)
    <3>1. n.batch = <<>> /\ n.writer /\ ~n.orphan /\ n.seen = me.seen
      BY <1>4, <2>2 DEF SameBut
    <3>2. Len(n.batch) <= Len(Held(n))
          /\ \A i \in 1..Len(Held(n)) : i > Len(Held(n)) - Len(n.batch) => Held(n)[i] = Excluded
      BY <1>4, <2>5, <3>1
    <3>3. Ended(n) => n.seen = Baseline /\ ~n.orphan /\ ~Rereads(n) /\ ~Pending(n)
      BY <1>3, <2>5, <3>1 DEF Shape
    <3> QED BY <1>4, <2>2, <2>5, <3>1, <3>2, <3>3 DEF Shape
  <2>7. SteadySoFar => Steady(n, spool)
    BY <1>2, <1>3, <2>2, <2>5 DEF Sound, Steady, SameBut
  <2>8. Sealing(n, spool) /\ Covered(n, spool) /\ Recording(n, spool)
    BY <1>3, <2>2, <2>5 DEF Sound, Sealing, Covered, Recording, SameBut
  <2>9. Sound(n, spool, store, SteadySoFar, AloneSoFar)
    BY <2>4, <2>6, <2>7, <2>8 DEF Sound
  <2> QED BY <1>2, <1>7, <2>2, <2>3, <2>9, OneRunMoves
<1>8. CASE /\ ~store.complete /\ Len(me.seen) = Len(store.results) + 1 /\ OnlyRun
           /\ runner' = [runner EXCEPT ![r] = [me EXCEPT !.pc = "rename", !.then = "committed", !.batch = <<>>,
                 !.next = {[results |-> store.results \o <<me.group>>, complete |-> FALSE]}]]
  <2>0. PICK e \in Seq(Groups) : e = <<me.group>> /\ Len(e) = 1 /\ e[1] = me.group
    <3>1. PICK g \in Groups : g = me.group
      BY <1>4
    <3>2. <<g>> \in Seq(Groups) /\ Len(<<g>>) = 1 /\ <<g>>[1] = g
      OBVIOUS
    <3> QED BY <3>1, <3>2
  <2>1. PICK x \in Stores : x = [results |-> store.results \o e, complete |-> FALSE]
    BY NextType
  <2>2. PICK n : n = [me EXCEPT !.pc = "rename", !.then = "committed", !.batch = <<>>, !.next = {x}]
    OBVIOUS
  <2>3. /\ n \in Runs /\ n.pc = "rename" /\ n.then = "committed" /\ n.next = {x} /\ n.batch = <<>>
        /\ n.persisted = me.persisted /\ n.seen = me.seen
        /\ n.group = me.group /\ n.writer = me.writer /\ n.sealed = me.sealed /\ n.orphan = me.orphan
    <3>2. PICK a : a = [me EXCEPT !.pc = "rename", !.then = "committed"]
      OBVIOUS
    <3>3. /\ a \in Runs /\ a.pc = "rename" /\ a.then = "committed"
          /\ a.persisted = me.persisted /\ a.seen = me.seen
          /\ a.group = me.group /\ a.writer = me.writer /\ a.sealed = me.sealed /\ a.orphan = me.orphan
      BY <3>2 DEF Runs, Steps
    <3>4. n = [a EXCEPT !.batch = <<>>, !.next = {x}]
      BY <2>2, <3>2
    <3>5. {x} \in SUBSET Stores /\ <<>> \in Seq({Excluded})
      OBVIOUS
    <3> QED BY <3>3, <3>4, <3>5 DEF Runs
  <2>4. PICK m \in Nat : m = Len(store.results) /\ Len(me.seen) = m + 1
    BY <1>3, <1>8
  <2>5. /\ x.complete = FALSE /\ x.results = store.results \o e /\ x.results \in Seq(Groups)
        /\ Len(x.results) = m + 1
        /\ \A i \in 1..m : x.results[i] = store.results[i]
        /\ x.results[m + 1] = me.group
    <3>1. x.complete = FALSE /\ x.results = store.results \o e
      BY <2>1
    <3>2. /\ store.results \o e \in Seq(Groups)
          /\ Len(store.results \o e) = Len(store.results) + Len(e)
          /\ \A i \in 1..Len(store.results) : (store.results \o e)[i] = store.results[i]
          /\ \A i \in 1..Len(e) : (store.results \o e)[Len(store.results) + i] = e[i]
      BY NextType
    <3> QED BY <3>1, <3>2, <2>0, <2>4
  <2>6. SteadySoFar => Begins(x.results, Baseline)
    <3>1. SteadySoFar => Begins(store.results, Baseline) /\ Begins(me.seen, Baseline)
      BY <1>3 DEF Sound, Steady, TraversalInv, FilesAreSound, CatalogStays
    <3> QED BY <3>1, <2>4, <2>5, <1>4 DEF Begins
  <2>7. AloneSoFar => x.results = me.seen
    <3>1. AloneSoFar => store.results = AllButLast(me.seen)
      BY <1>2, <1>3 DEF Sound, Alone
    <3>2. store.results \o e = Append(store.results, me.group)
      <4>1. PICK s \in Seq(Groups), g \in Groups : s = store.results /\ g = me.group
        BY <1>3, <1>4
      <4>2. Append(s, g) = s \o <<g>>
        BY AppendIsConcat
      <4> QED BY <4>1, <4>2, <2>0
    <3> QED BY <3>1, <3>2, <2>5, <1>4
  <2>8. ASSUME SteadySoFar, AloneSoFar
        PROVE  spool.blocks = Accepted(x.results)
    <3>1. Begins(me.seen, Baseline)
      BY <1>3, <2>8 DEF Sound, Steady
    <3>2. Begins(Accepted(me.seen), spool.blocks) /\ Len(spool.blocks) = Len(Accepted(me.seen)) + 0
      BY <1>2, <1>3, <1>4, <2>8, <3>1 DEF Sound, Alone
    <3>3. Accepted(me.seen) \in Seq(Blocks)
      BY <1>4, AcceptedType
    <3>4. Accepted(me.seen) = spool.blocks
      BY <1>3, <3>2, <3>3, BeginsEqual
    <3> QED BY <2>7, <2>8, <3>4
  <2>9. runner' = [runner EXCEPT ![r] = n]
    BY <1>8, <2>0, <2>1, <2>2
  <2>10. Records(r, me, x, n)
    BY <1>1, <1>2, <1>8, <2>3, <2>5, <2>6, <2>7, <2>8, <2>9 DEF Records
  <2> QED BY <2>3, <2>10, RecordsSound
<1> QED
  BY <1>1, <1>5, <1>6, <1>7, <1>8 DEF Outcome

\* The store of a run takes the place of the earlier one.
LEMMA RenameSound ==
  ASSUME TraversalInv, NEW r \in Runners, RenameStore(r)
  PROVE  TraversalInv'
<1>1. PICK me \in Runs : me = runner[r]
  BY SoundNow
<1>2. me.pc = "rename" /\ runner[r].pc # "idle"
  BY <1>1 DEF RenameStore, RunAt
<1>3. /\ Sound(me, spool, store, SteadySoFar, AloneSoFar) /\ Shape(me)
      /\ store \in Stores /\ spool \in Spools /\ spool.blocks \in Seq(Blocks)
  BY <1>1, SoundNow DEF Sound
<1>4. CASE RunFails(r)
  BY <1>2, <1>4, RunFailing
<1>5. CASE ~RunFails(r)
  <2>1. /\ me.next # {} /\ store' = CHOOSE s \in me.next : TRUE
        /\ runner' = [runner EXCEPT ![r] =
               [me EXCEPT !.next = {},
                          !.pc = IF me.then = "committed" THEN "scan" ELSE me.then]]
        /\ UNCHANGED <<holder, spool, pageNames, root>> /\ BoundsUnchanged
    BY <1>1, <1>5 DEF RenameStore
  <2>2. PICK x \in me.next : x = store'
    BY <2>1
  <2>3. x \in Stores /\ x.results \in Seq(Groups)
    <3>1. me.next \in SUBSET Stores
      BY DEF Runs
    <3> QED BY <2>2, <3>1 DEF Stores
  <2>4. PICK step \in {"scan", "accept", "complete", "attestPost"} :
          step = IF me.then = "committed" THEN "scan" ELSE me.then
    <3>1. me.then \in {"idle", "scan", "accept", "committed", "complete", "attestPost"}
      BY DEF Runs
    <3>2. me.then # "idle"
      BY <1>2, <1>3 DEF Shape
    <3> QED BY <3>1, <3>2
  <2>5. PICK n : n = [me EXCEPT !.next = {}, !.pc = step]
    OBVIOUS
  <2>6. /\ n \in Runs /\ n.pc = step /\ SameBut(n, me) /\ n.next = {}
    BY <2>5 DEF Runs, Steps, SameBut
  <2>7. runner' = [runner EXCEPT ![r] = n]
    BY <2>1, <2>4, <2>5
  <2>8. /\ Pending(n) <=> Pending(me)
        /\ Rereads(n) <=> Rereads(me)
        /\ ~Rereads(me)
        /\ Ended(n) <=> Ended(me)
        /\ Completed(n) <=> Completed(me)
        /\ Completed(me) <=> me.then = "attestPost"
        /\ me.batch = <<>> /\ n.batch = <<>>
    <3>1. (Pending(n) <=> Pending(me)) /\ (Rereads(n) <=> Rereads(me))
      BY <1>2, <2>4, <2>6 DEF SameBut, Pending, Rereads
    <3>2. /\ Ended(n) <=> Ended(me)
          /\ Completed(n) <=> Completed(me)
          /\ Completed(me) <=> me.then = "attestPost"
      BY <1>2, <2>4, <2>6 DEF SameBut, Ended, Completed, AfterRename
    <3>3. ~Rereads(me) /\ me.batch = <<>>
      BY <1>2, <1>3 DEF Shape
    <3> QED BY <3>1, <3>2, <3>3, <2>6 DEF SameBut
  <2>9. Held(n) = Held(me) /\ Held(me) \in Seq(Groups)
    BY <1>3, <2>6, <2>8, HeldFacts DEF Held, SameBut
  <2>10. Shape(n)
    <3>1. Len(n.batch) <= Len(Held(n))
          /\ \A i \in 1..Len(Held(n)) : i > Len(Held(n)) - Len(n.batch) => Held(n)[i] = Excluded
      BY <2>8, <2>9
    <3>2. Pending(n) => n.seen # <<>> /\ n.group = n.seen[Len(n.seen)] /\ n.group # Excluded
      BY <1>3, <2>6, <2>8 DEF Shape, SameBut
    <3>3. /\ n.orphan => n.writer
          /\ ~n.writer => /\ Accepted(Held(n)) = <<>>
                          /\ ~Completed(n) => Accepted(n.persisted) = <<>>
          /\ Ended(n) => n.seen = Baseline /\ ~n.orphan /\ ~Rereads(n) /\ ~Pending(n)
      BY <1>3, <2>6, <2>8, <2>9 DEF Shape, SameBut
    <3> QED BY <2>4, <2>6, <2>8, <3>1, <3>2, <3>3 DEF Shape
  <2>11. ASSUME AloneSoFar PROVE Alone(n, spool, x)
    <3>1. Alone(me, spool, store)
      BY <1>3, <2>11 DEF Sound
    <3>2. x.results = Held(me) /\ x.complete = (me.then = "attestPost")
      BY <3>1, <1>2, <2>2 DEF Alone
    <3>3. x.results \o n.batch = Held(n)
      <4>1. x.results \o <<>> = x.results
        BY <2>3, ConcatEmptySeq
      <4> QED BY <3>2, <4>1, <2>8, <2>9
    <3>4. n.writer => Len(spool.blocks) = Len(Accepted(Held(n))) + (IF n.orphan THEN 1 ELSE 0)
      BY <3>1, <2>6, <2>9 DEF Alone, SameBut
    <3>5. Begins(Held(n), Baseline) => Begins(Accepted(Held(n)), spool.blocks)
      BY <3>1, <2>8, <2>9 DEF Alone
    <3>6. n.pc \in AfterRename => x.complete
      BY <2>4, <2>6, <3>2 DEF AfterRename
    <3> QED BY <2>4, <2>6, <2>8, <3>3, <3>4, <3>5, <3>6 DEF Alone
  <2>12. SteadySoFar => Steady(n, spool)
    BY <1>3, <2>6, <2>9 DEF Sound, Steady, SameBut
  <2>13. Sealing(n, spool)
    BY <1>3, <2>4, <2>6 DEF Sound, Sealing, SameBut
  <2>14. SteadySoFar \/ AloneSoFar => Covered(n, spool)
    BY <1>3, <2>4, <2>6, <2>8 DEF Sound, Covered, SameBut
  <2>15. Recording(n, spool)
    BY <2>4, <2>6 DEF Recording
  <2>16. Sound(n, spool, x, SteadySoFar, AloneSoFar)
    BY <2>10, <2>11, <2>12, <2>13, <2>14, <2>15 DEF Sound
  <2>17. \A q \in Runners \ {r} : Sound(runner[q], spool, x, SteadySoFar, AloneSoFar)
    <3>1. Len(spool.blocks) <= Len(spool.blocks)
      BY <1>3
    <3> QED BY <1>2, <1>3, <2>3, <3>1, OthersStaySound
  <2>18. UNCHANGED <<holder, spool, pageNames, root, groups, stops, drifts, displacements>>
    BY <2>1 DEF BoundsUnchanged
  <2>19. RootIsBacked' /\ CatalogStays'
    <3>1. SteadySoFar => Begins(x.results, Baseline)
      BY <1>3, <2>2 DEF Sound, Steady
    <3>2. RootIsBacked'
      BY <2>18 DEF TraversalInv, FilesAreSound, RootIsBacked, SteadySoFar, AloneSoFar
    <3>3. CatalogStays'
      BY <2>2, <2>18, <3>1 DEF TraversalInv, FilesAreSound, CatalogStays, SteadySoFar
    <3> QED BY <3>2, <3>3
  <2>20. FilesAgree'
    <3>1. AloneSoFar => SpoolHasResults(spool, x)
      <4>1. AloneSoFar => x.results = Held(me)
        BY <1>2, <1>3, <2>2 DEF Sound, Alone
      <4>2. AloneSoFar /\ Begins(Held(me), Baseline) => Begins(Accepted(Held(me)), spool.blocks)
        BY <1>3, <2>8 DEF Sound, Alone
      <4> QED BY <4>1, <4>2 DEF SpoolHasResults
    <3>2. SteadySoFar /\ AloneSoFar => Exact(x, spool)
      BY <1>2, <1>3, <2>2 DEF Sound, Recording, Exact
    <3>3. SteadySoFar /\ AloneSoFar => (spool.seal # "none" => x.complete)
      <4>1. SteadySoFar /\ AloneSoFar => (spool.seal # "none" => store.complete)
        BY DEF TraversalInv, FilesAreSound, FilesAgree
      <4>2. AloneSoFar => x.complete = (me.then = "attestPost") /\ (me.then # "attestPost" => ~store.complete)
        BY <1>2, <1>3, <2>2 DEF Sound, Alone
      <4> QED BY <4>1, <4>2
    <3> QED BY <2>2, <2>18, <3>1, <3>2, <3>3 DEF FilesAgree, SteadySoFar, AloneSoFar
  <2>21. FilesAreSound'
    BY <2>19, <2>20 DEF FilesAreSound
  <2>22. /\ pageNames' \in [Blocks -> 0..2] /\ root' \in [names : 0..2, blocks : Seq(Blocks)]
         /\ spool' \in Spools /\ store' \in Stores
    BY <1>3, <2>2, <2>3, <2>18 DEF TraversalInv, FilesTyped
  <2>23. Sound(n, spool', store', SteadySoFar, AloneSoFar)
    BY <2>2, <2>16, <2>18
  <2>24. \A q \in Runners \ {r} : Sound(runner[q], spool', store', SteadySoFar, AloneSoFar)
    BY <2>2, <2>17, <2>18
  <2>25. BoundsUnchanged /\ holder' = holder
    BY <2>1
  <2> QED BY <1>2, <2>6, <2>7, <2>21, <2>22, <2>23, <2>24, <2>25, RunMoves
<1> QED BY <1>4, <1>5

(***************************************************************************)
(* A block is accepted into the spool.                                     *)
(***************************************************************************)

Has(b, g) == \E n \in DOMAIN b : b[n] = g

LEMMA BlockAppended ==
  ASSUME NEW b \in Seq(Blocks), NEW g \in Blocks
  PROVE  /\ Append(b, g) \in Seq(Blocks) /\ Len(Append(b, g)) = Len(b) + 1
         /\ Append(b, g)[Len(b) + 1] = g
         /\ \A i \in 1..Len(b) : Append(b, g)[i] = b[i]
         /\ Len(b) \in Nat /\ DOMAIN b = 1..Len(b)
OBVIOUS

\* Blocks come in the order of the catalog.
LEMMA NextBlock ==
  ASSUME NEW a \in Seq(Blocks), NEW b \in Seq(Blocks), NEW c \in Seq(Blocks), NEW g \in Blocks,
         OnceEach(c), Begins(Append(a, g), c), Begins(b, c), Len(a) <= Len(b)
  PROVE  /\ Has(b, g) => Len(a) + 1 <= Len(b)
         /\ ~Has(b, g) => Len(b) = Len(a) /\ Begins(Append(b, g), c) /\ b # c
<1>1. PICK k \in Nat : k = Len(a) /\ k + 1 <= Len(c) /\ c[k + 1] = g
  <2>1. Len(a) + 1 <= Len(c) /\ c[Len(a) + 1] = g
    BY BlockAppended DEF Begins
  <2> QED BY <2>1
<1>2. /\ Len(b) <= Len(c) /\ \A i \in 1..Len(b) : b[i] = c[i]
      /\ DOMAIN b = 1..Len(b) /\ DOMAIN c = 1..Len(c) /\ Len(b) \in Nat /\ Len(c) \in Nat
  BY DEF Begins
<1>3. ASSUME Has(b, g) PROVE k + 1 <= Len(b)
  <2>1. PICK n \in 1..Len(b) : b[n] = g
    BY <1>2, <1>3 DEF Has
  <2>2. n \in DOMAIN c /\ k + 1 \in DOMAIN c /\ c[n] = c[k + 1]
    BY <1>1, <1>2, <2>1
  <2>3. n = k + 1
    BY <2>2 DEF OnceEach
  <2> QED BY <2>1, <2>3
<1>4. ASSUME ~Has(b, g) PROVE Len(b) = k /\ Begins(Append(b, g), c) /\ b # c
  <2>1. ~(k + 1 <= Len(b))
    <3> SUFFICES ASSUME k + 1 <= Len(b) PROVE FALSE
      OBVIOUS
    <3>1. k + 1 \in DOMAIN b /\ b[k + 1] = g
      BY <1>1, <1>2
    <3> QED BY <1>4, <3>1 DEF Has
  <2>2. Len(b) = k
    BY <1>1, <1>2, <2>1
  <2>3. Begins(Append(b, g), c)
    BY <1>1, <1>2, <2>2, BlockAppended DEF Begins
  <2> QED BY <1>1, <2>2, <2>3
<1> QED BY <1>1, <1>3, <1>4

\* ... and what the spool of a run that is alone has then.
LEMMA NextBlockAlone ==
  ASSUME NEW a \in Seq(Blocks), NEW b \in Seq(Blocks), NEW c \in Seq(Blocks), NEW g \in Blocks,
         OnceEach(c), Begins(Append(a, g), c), Begins(a, b)
  PROVE  /\ Len(b) = Len(a) => Begins(Append(a, g), Append(b, g))
         /\ Len(b) = Len(a) + 1 /\ Has(b, g) => Begins(Append(a, g), b)
<1>1. PICK k \in Nat : k = Len(a) /\ k + 1 <= Len(c) /\ c[k + 1] = g
  <2>1. Len(a) + 1 <= Len(c) /\ c[Len(a) + 1] = g
    BY BlockAppended DEF Begins
  <2> QED BY <2>1
<1>2. /\ k <= Len(b) /\ \A i \in 1..k : b[i] = a[i]
      /\ DOMAIN b = 1..Len(b) /\ DOMAIN c = 1..Len(c) /\ Len(b) \in Nat /\ Len(c) \in Nat
  BY <1>1 DEF Begins
<1>3. \A i \in 1..k : a[i] = c[i] /\ i \in DOMAIN c /\ i # k + 1
  BY <1>1, BlockAppended DEF Begins
<1>4. /\ Len(Append(a, g)) = k + 1 /\ Append(a, g)[k + 1] = g
      /\ \A i \in 1..k : Append(a, g)[i] = a[i]
  BY <1>1, BlockAppended
<1>5. ASSUME Len(b) = k PROVE Begins(Append(a, g), Append(b, g))
  <2>1. /\ Len(Append(b, g)) = k + 1 /\ Append(b, g)[k + 1] = g
        /\ \A i \in 1..k : Append(b, g)[i] = b[i]
    BY <1>5, BlockAppended
  <2> QED BY <1>1, <1>2, <1>4, <2>1 DEF Begins
<1>6. ASSUME Len(b) = k + 1, Has(b, g) PROVE Begins(Append(a, g), b)
  <2>1. PICK n \in 1..(k + 1) : b[n] = g
    BY <1>2, <1>6 DEF Has
  <2>2. n \notin 1..k
    <3> SUFFICES ASSUME n \in 1..k PROVE FALSE
      OBVIOUS
    <3>1. c[n] = c[k + 1] /\ n \in DOMAIN c /\ k + 1 \in DOMAIN c /\ n # k + 1
      BY <1>1, <1>2, <1>3, <2>1
    <3> QED BY <3>1 DEF OnceEach
  <2>3. n = k + 1
    BY <2>1, <2>2
  <2> QED BY <1>1, <1>2, <1>4, <1>6, <2>1, <2>3 DEF Begins
<1> QED BY <1>1, <1>5, <1>6

\* What was read last is the next group of the baseline.
LEMMA NextInBaseline ==
  ASSUME NEW h \in Seq(Groups), NEW g \in Groups, Begins(Append(h, g), Baseline)
  PROVE  Len(h) < Len(Baseline) /\ Baseline[Len(h) + 1] = g
<1>1. PICK k \in Nat, s \in Seq(Groups) :
        k = Len(h) /\ s = Append(h, g) /\ Len(s) = k + 1 /\ s[k + 1] = g
  <2>1. /\ Len(h) \in Nat /\ Append(h, g) \in Seq(Groups) /\ Len(Append(h, g)) = Len(h) + 1
        /\ Append(h, g)[Len(h) + 1] = g
    OBVIOUS
  <2> QED BY <2>1
<1>2. k + 1 <= Len(Baseline) /\ s[k + 1] = Baseline[k + 1]
  <2>1. k + 1 \in 1..(k + 1)
    BY <1>1
  <2> QED BY <1>1, <2>1 DEF Begins
<1> QED BY <1>1, <1>2, BaselineType

\* What a run that accepts a group knows.
AcceptFacts(r, me, h, a, b, c, g) ==
  /\ me = runner[r] /\ me.pc = "accept"
  /\ h = AllButLast(me.seen) /\ h = Held(me) /\ a = Accepted(h) /\ b = spool.blocks
  /\ c = Accepted(Baseline) /\ g = me.group /\ OnceEach(c)
  /\ me.seen = Append(h, g) /\ Accepted(me.seen) = Append(a, g)
  /\ Len(me.seen) = Len(h) + 1
  /\ me.batch = <<>> /\ ~Rereads(me) /\ ~Ended(me)
  /\ ~me.writer => a = <<>> /\ Ahead(r) = Len(b)
  /\ SteadySoFar => Begins(me.seen, Baseline) /\ Begins(b, c) /\ Len(a) <= Len(b)
  /\ Begins(me.seen, Baseline) => Begins(Append(a, g), c)
  /\ AloneSoFar => /\ store.results = h
                   /\ me.writer => Len(b) = Len(a) + (IF me.orphan THEN 1 ELSE 0)
                   /\ Begins(me.seen, Baseline) => Begins(a, b)
  /\ HasBlock(g) <=> Has(b, g)

\* It knows all of this.
LEMMA Accepting ==
  ASSUME TraversalInv, NEW r \in Runners, RunAt(r, "accept")
  PROVE  \E me \in Runs, h \in Seq(Groups), a \in Seq(Blocks), b \in Seq(Blocks), c \in Seq(Blocks),
            g \in Blocks : AcceptFacts(r, me, h, a, b, c, g)
<1>1. PICK me \in Runs : me = runner[r] /\ me.pc = "accept"
  BY SoundNow DEF RunAt
<1>2. Pending(me) /\ Held(me) = AllButLast(me.seen)
  BY <1>1 DEF Pending, Held
<1>3. /\ Sound(me, spool, store, SteadySoFar, AloneSoFar) /\ Shape(me)
      /\ store.results \in Seq(Groups) /\ spool.blocks \in Seq(Blocks)
  BY <1>1, SoundNow DEF Sound
<1>4. PICK h \in Seq(Groups), a \in Seq(Blocks), g \in Blocks :
        /\ h = AllButLast(me.seen) /\ a = Accepted(h) /\ g = me.group
        /\ me.seen = Append(h, g) /\ Accepted(me.seen) = Append(a, g) /\ Len(me.seen) = Len(h) + 1
  <2>1. /\ me.group \in Blocks
        /\ AllButLast(me.seen) \in Seq(Groups) /\ Len(me.seen) \in Nat \ {0}
        /\ Len(AllButLast(me.seen)) = Len(me.seen) - 1
        /\ me.seen = Append(AllButLast(me.seen), me.group)
        /\ Accepted(me.seen) = Append(Accepted(AllButLast(me.seen)), me.group)
    BY <1>2, <1>3, HeldFacts
  <2>2. Accepted(AllButLast(me.seen)) \in Seq(Blocks)
    BY <2>1, AcceptedType
  <2>3. Len(me.seen) = Len(AllButLast(me.seen)) + 1
    BY <2>1
  <2> QED BY <2>1, <2>2, <2>3
<1>5. PICK b \in Seq(Blocks) : b = spool.blocks
  BY <1>3
<1>6. PICK c \in Seq(Blocks) : c = Accepted(Baseline) /\ OnceEach(c)
  BY BaselineType, AcceptedType, AcceptedDistinct
<1>7. me.batch = <<>> /\ ~Rereads(me) /\ ~Ended(me) /\ (~me.writer => a = <<>> /\ Accepted(me.persisted) = <<>>)
  <2>1. ~Completed(me)
    BY <1>1 DEF Completed, AfterRename
  <2>2. ~Rereads(me) /\ ~Ended(me)
    BY <1>1, <1>2, <1>3 DEF Shape
  <2>3. me.batch = <<>>
    BY <1>1, <1>3 DEF Shape
  <2> QED BY <1>2, <1>3, <1>4, <2>1, <2>2, <2>3 DEF Shape
<1>8. ~me.writer => a = <<>> /\ Ahead(r) = Len(b)
  <2>1. Len(<<>>) = 0 /\ Len(b) \in Nat
    OBVIOUS
  <2>2. ~me.writer => Accepted(runner[r].persisted) = <<>>
    BY <1>1, <1>7
  <2>3. Ahead(r) = Len(b) - Len(Accepted(runner[r].persisted))
    BY <1>5 DEF Ahead
  <2> QED BY <1>7, <2>1, <2>2, <2>3
<1>9. Begins(me.seen, Baseline) => Begins(Append(a, g), c)
  <2>1. me.seen \in Seq(Groups)
    BY DEF Runs
  <2> QED BY <1>4, <1>6, <2>1, BaselineType, AcceptedBegins
<1>10. SteadySoFar => Begins(me.seen, Baseline) /\ Begins(b, c) /\ Len(a) <= Len(b)
  <2>1. SteadySoFar => Begins(me.seen, Baseline) /\ (me.writer => Len(a) <= Len(b))
    BY <1>2, <1>3, <1>4, <1>5 DEF Sound, Steady
  <2>2. SteadySoFar => Begins(b, c)
    BY <1>5, <1>6 DEF TraversalInv, FilesAreSound, CatalogStays
  <2>3. ~me.writer => Len(a) <= Len(b)
    BY <1>8
  <2> QED BY <2>1, <2>2, <2>3
<1>11. ASSUME AloneSoFar
       PROVE  /\ store.results = h
              /\ me.writer => Len(b) = Len(a) + (IF me.orphan THEN 1 ELSE 0)
              /\ Begins(me.seen, Baseline) => Begins(a, b)
  <2>1. Alone(me, spool, store)
    BY <1>3, <1>11 DEF Sound
  <2>2. store.results \o me.batch = h
    BY <1>1, <1>2, <1>4, <1>7, <2>1 DEF Alone
  <2>3. store.results \o <<>> = store.results
    BY <1>3, ConcatEmptySeq
  <2>4. me.writer => Len(b) = Len(a) + (IF me.orphan THEN 1 ELSE 0)
    BY <1>2, <1>4, <1>5, <2>1 DEF Alone
  <2>5. Begins(h, Baseline) => Begins(a, b)
    BY <1>2, <1>4, <1>5, <1>7, <2>1 DEF Alone
  <2>6. Begins(me.seen, Baseline) => Begins(h, Baseline)
    <3>1. g \in Groups
      BY DEF Groups
    <3>2. me.seen \in Seq(Groups) /\ Begins(h, me.seen)
      <4>1. Append(h, g) \in Seq(Groups) /\ Begins(h, Append(h, g))
        BY <3>1, BeginsAppend
      <4> QED BY <1>4, <4>1
    <3> QED BY <3>2, BaselineType, BeginsTransitive
  <2> QED BY <1>7, <2>2, <2>3, <2>4, <2>5, <2>6
<1>12. HasBlock(g) <=> Has(b, g)
  BY <1>5 DEF HasBlock, Has
<1>13. AcceptFacts(r, me, h, a, b, c, g)
  BY <1>1, <1>2, <1>4, <1>5, <1>6, <1>7, <1>8, <1>9, <1>10, <1>11, <1>12 DEF AcceptFacts
<1> QED BY <1>13

\* A block is added to the spool.
LEMMA AddedBlock ==
  ASSUME TraversalInv, NEW r \in Runners, NEW me \in Runs, NEW h \in Seq(Groups), NEW a \in Seq(Blocks),
         NEW b \in Seq(Blocks), NEW c \in Seq(Blocks), NEW g \in Blocks,
         AcceptFacts(r, me, h, a, b, c, g), ~Has(b, g),
         spool' = [spool EXCEPT !.blocks = Append(@, g)],
         UNCHANGED <<store, pageNames, root>>, BoundsUnchanged,
         SteadySoFar /\ AloneSoFar => Len(b) = Len(a)
  PROVE  /\ FilesAreSound' /\ spool' \in Spools /\ spool'.blocks = Append(b, g)
         /\ spool'.seal = spool.seal
         /\ \A q \in Runners \ {r} : Sound(runner[q], spool', store', SteadySoFar, AloneSoFar)
<1>1. /\ me = runner[r] /\ me.pc = "accept" /\ b = spool.blocks /\ c = Accepted(Baseline)
      /\ OnceEach(c) /\ a = Accepted(h) /\ me.seen = Append(h, g) /\ Len(me.seen) = Len(h) + 1
      /\ SteadySoFar => Begins(me.seen, Baseline) /\ Begins(b, c) /\ Len(a) <= Len(b)
      /\ Begins(me.seen, Baseline) => Begins(Append(a, g), c)
      /\ AloneSoFar => store.results = h
  BY DEF AcceptFacts
<1>2. PICK b2 \in Seq(Blocks) : b2 = Append(b, g) /\ Len(b2) = Len(b) + 1 /\ Begins(b, b2)
  <2>1. Append(b, g) \in Seq(Blocks) /\ Len(Append(b, g)) = Len(b) + 1 /\ Begins(b, Append(b, g))
    BY BlockAppended, BeginsAppend
  <2> QED BY <2>1
<1>3. spool' \in Spools /\ spool'.blocks = b2 /\ spool'.seal = spool.seal
  BY <1>1, <1>2 DEF TraversalInv, FilesTyped, Spools
<1>4. SteadySoFar => Begins(b2, c) /\ b # c
  BY <1>1, <1>2, NextBlock
<1>5. UNCHANGED <<store, pageNames, root, groups, stops, drifts, displacements>>
  BY DEF BoundsUnchanged
<1>6. RootIsBacked'
  BY <1>3, <1>5 DEF TraversalInv, FilesAreSound, RootIsBacked, SteadySoFar, AloneSoFar
<1>7. CatalogStays'
  BY <1>1, <1>3, <1>4, <1>5 DEF TraversalInv, FilesAreSound, CatalogStays, SteadySoFar
<1>8. FilesAgree'
  <2>1. AloneSoFar => SpoolHasResults(spool', store)
    <3>1. AloneSoFar => SpoolHasResults(spool, store)
      BY DEF TraversalInv, FilesAreSound, FilesAgree
    <3>2. store.results \in Seq(Groups)
      BY SoundNow
    <3>3. Accepted(store.results) \in Seq(Blocks)
      BY <3>2, AcceptedType
    <3>4. Begins(Accepted(store.results), b) => Begins(Accepted(store.results), b2)
      BY <1>2, <3>3, BeginsTransitive
    <3> QED BY <1>1, <1>3, <3>1, <3>4 DEF SpoolHasResults
  <2>2. ASSUME SteadySoFar, AloneSoFar PROVE Exact(store, spool')
    <3>1. store.results = h /\ Len(b) = Len(a) /\ Begins(me.seen, Baseline)
      BY <1>1, <2>2
    <3>2. PICK k \in Nat : k = Len(h)
      OBVIOUS
    <3>3. Exact(store, spool)
      BY <2>2 DEF TraversalInv, FilesAreSound, FilesAgree
    <3>4. b = a
      <4>1. b = a \/ (k < Len(Baseline) /\ b = Append(a, Baseline[k + 1]))
        BY <1>1, <3>1, <3>2, <3>3 DEF Exact
      <4>2. ASSUME k < Len(Baseline), b = Append(a, Baseline[k + 1]) PROVE FALSE
        <5>1. PICK e \in Groups : e = Baseline[k + 1]
          <6>1. k + 1 \in 1..Len(Baseline)
            BY <4>2, BaselineType
          <6> QED BY <6>1, BaselineType
        <5>2. a \in Seq(Groups)
          BY DEF Groups
        <5>3. Len(Append(a, e)) = Len(a) + 1 /\ Len(a) \in Nat
          BY <5>2
        <5> QED BY <3>1, <4>2, <5>1, <5>3
      <4> QED BY <4>1, <4>2
    <3>5. k < Len(Baseline) /\ Baseline[k + 1] = g
      <4>1. g \in Groups /\ Begins(Append(h, g), Baseline)
        BY <1>1, <3>1 DEF Groups
      <4> QED BY <3>2, <4>1, NextInBaseline
    <3>6. spool'.blocks = Append(Accepted(store.results), Baseline[k + 1])
      BY <1>1, <1>2, <1>3, <3>1, <3>4, <3>5
    <3> QED BY <3>1, <3>2, <3>5, <3>6 DEF Exact
  <2>3. SteadySoFar /\ AloneSoFar => (spool'.seal # "none" => store.complete)
    BY <1>3 DEF TraversalInv, FilesAreSound, FilesAgree
  <2> QED BY <1>5, <2>1, <2>2, <2>3 DEF FilesAgree, SteadySoFar, AloneSoFar
<1>9. \A q \in Runners \ {r} : Sound(runner[q], spool', store', SteadySoFar, AloneSoFar)
  <2> SUFFICES ASSUME NEW q \in Runners \ {r}
               PROVE  Sound(runner[q], spool', store, SteadySoFar, AloneSoFar)
    BY <1>5
  <2>1. PICK sp \in Spools : sp = spool'
    BY <1>3
  <2>2. /\ Len(spool.blocks) <= Len(sp.blocks)
        /\ spool.seal = "sealed" => sp.seal = "sealed"
        /\ SteadySoFar /\ spool.blocks = Accepted(Baseline) => sp.blocks = Accepted(Baseline)
    BY <1>1, <1>2, <1>3, <1>4, <2>1
  <2>3. runner[r].pc # "idle" /\ store \in Stores
    BY <1>1, SoundNow
  <2>4. Sound(runner[q], sp, store, SteadySoFar, AloneSoFar)
    BY <2>2, <2>3, OthersStaySound
  <2> QED BY <2>1, <2>4
<1> QED BY <1>2, <1>3, <1>6, <1>7, <1>8, <1>9 DEF FilesAreSound

\* The run has its group in the spool.
IsAccepted(me, n, sp, a, b, g) ==
  /\ sp.seal = spool.seal
  /\ \/ sp.blocks = Append(b, g) /\ ~Has(b, g) /\ (AloneSoFar => Len(b) = Len(a))
     \/ sp.blocks = b /\ Has(b, g) /\ (AloneSoFar => Len(b) = Len(a) + 1)
  /\ n.pc = "commit" /\ n.then = me.then /\ n.next = me.next
  /\ n.persisted = me.persisted /\ n.seen = me.seen /\ n.batch = me.batch
  /\ n.group = me.group /\ n.writer = TRUE /\ n.sealed = me.sealed /\ n.orphan = FALSE

\* The run whose group is in the spool may record it.
LEMMA AcceptedSound ==
  ASSUME TraversalInv, NEW r \in Runners, NEW me \in Runs, NEW h \in Seq(Groups), NEW a \in Seq(Blocks),
         NEW b \in Seq(Blocks), NEW c \in Seq(Blocks), NEW g \in Blocks,
         AcceptFacts(r, me, h, a, b, c, g), NEW sp \in Spools, NEW n \in Runs,
         IsAccepted(me, n, sp, a, b, g)
  PROVE  Sound(n, sp, store, SteadySoFar, AloneSoFar)
<1> USE DEF IsAccepted
<1>1. /\ me = runner[r] /\ me.pc = "accept" /\ b = spool.blocks /\ c = Accepted(Baseline)
      /\ h = AllButLast(me.seen)
      /\ OnceEach(c) /\ a = Accepted(h) /\ me.seen = Append(h, g) /\ Len(me.seen) = Len(h) + 1
      /\ Accepted(me.seen) = Append(a, g) /\ g = me.group
      /\ me.batch = <<>> /\ ~Rereads(me) /\ ~Ended(me)
      /\ SteadySoFar => Begins(me.seen, Baseline) /\ Begins(b, c) /\ Len(a) <= Len(b)
      /\ Begins(me.seen, Baseline) => Begins(Append(a, g), c)
      /\ AloneSoFar => store.results = h /\ (Begins(me.seen, Baseline) => Begins(a, b))
  BY DEF AcceptFacts
<1>2. /\ Sound(me, spool, store, SteadySoFar, AloneSoFar) /\ Shape(me)
  BY <1>1, SoundNow DEF Sound
<1>3. /\ ~Pending(n) /\ Held(n) = me.seen /\ ~Rereads(n) /\ ~Ended(n) /\ ~Completed(n)
  BY <1>1 DEF Pending, Held, Rereads, Ended, Completed, AfterRename
<1>4. /\ Len(Append(a, g)) = Len(a) + 1 /\ Len(Append(b, g)) = Len(b) + 1
      /\ Len(a) \in Nat /\ Len(b) \in Nat /\ me.seen \in Seq(Groups) /\ Len(me.seen) \in Nat
  BY BlockAppended DEF Runs
<1>5. Shape(n)
  <2>1. Pending(me)
    BY <1>1 DEF Pending
  <2>2. n.seen # <<>> /\ n.group = n.seen[Len(n.seen)] /\ n.group # Excluded
    BY <1>2, <2>1 DEF Shape
  <2>3. n.batch = <<>> /\ Len(n.batch) = 0
    BY <1>1
  <2>4. Len(n.batch) <= Len(Held(n))
        /\ \A i \in 1..Len(Held(n)) : i > Len(Held(n)) - Len(n.batch) => Held(n)[i] = Excluded
    BY <1>3, <1>4, <2>3
  <2> QED BY <1>3, <2>2, <2>3, <2>4 DEF Shape
<1>6. Sealing(n, sp)
  BY <1>2 DEF Sound, Sealing
<1>7. SteadySoFar => Steady(n, sp)
  <2>1. SteadySoFar => Begins(n.seen, Baseline) /\ \A x \in n.next : Begins(x.results, Baseline)
    BY <1>2 DEF Sound, Steady
  <2>2. SteadySoFar => Len(Append(a, g)) <= Len(sp.blocks)
    BY <1>1, <1>4, NextBlock
  <2> QED BY <1>1, <1>3, <2>1, <2>2 DEF Steady
<1>8. AloneSoFar => Alone(n, sp, store)
  <2>1. AloneSoFar => Len(sp.blocks) = Len(Accepted(Held(n)))
    BY <1>1, <1>3, <1>4
  <2>2. ASSUME AloneSoFar, Begins(me.seen, Baseline) PROVE Begins(Append(a, g), sp.blocks)
    <3>1. Begins(Append(a, g), c) /\ Begins(a, b) /\ OnceEach(c)
      BY <1>1, <2>2
    <3>2. /\ Len(b) = Len(a) => Begins(Append(a, g), Append(b, g))
          /\ Len(b) = Len(a) + 1 /\ Has(b, g) => Begins(Append(a, g), b)
      BY <3>1, NextBlockAlone
    <3> QED BY <2>2, <3>2
  <2>3. AloneSoFar => store.results = AllButLast(n.seen)
    BY <1>1
  <2>4. AloneSoFar => (Begins(Held(n), Baseline) => Begins(Accepted(Held(n)), sp.blocks))
    BY <1>1, <1>3, <2>2
  <2>5. ~Rereads(n) /\ n.pc = "commit" /\ n.orphan = FALSE /\ n.writer = TRUE
    BY <1>3
  <2> QED BY <2>1, <2>3, <2>4, <2>5 DEF Alone, AfterRename
<1>9. Covered(n, sp) /\ Recording(n, sp)
  BY <1>3 DEF Covered, Recording
<1> QED BY <1>5, <1>6, <1>7, <1>8, <1>9 DEF Sound

\* A block is accepted, or the run fails, perhaps having added it.
LEMMA AcceptBlockSound ==
  ASSUME TraversalInv, NEW r \in Runners, AcceptBlock(r)
  PROVE  TraversalInv'
<1>1. PICK me \in Runs, h \in Seq(Groups), a \in Seq(Blocks), b \in Seq(Blocks), c \in Seq(Blocks),
            g \in Blocks : AcceptFacts(r, me, h, a, b, c, g)
  <2>1. RunAt(r, "accept")
    BY DEF AcceptBlock
  <2> QED BY <2>1, Accepting
<1>2. /\ me = runner[r] /\ me.pc = "accept" /\ b = spool.blocks /\ g = me.group
      /\ HasBlock(g) <=> Has(b, g)
      /\ ~me.writer => a = <<>> /\ Ahead(r) = Len(b)
      /\ AloneSoFar => /\ store.results = h
                       /\ me.writer => Len(b) = Len(a) + (IF me.orphan THEN 1 ELSE 0)
      /\ runner[r].pc # "idle"
  BY <1>1 DEF AcceptFacts
<1>3. PICK o \in BOOLEAN : o = IF me.writer THEN me.orphan ELSE Ahead(r) = 1
  BY DEF Runs
<1>4. Len(a) \in Nat /\ Len(b) \in Nat
  OBVIOUS
<1>5. me.writer \/ SpoolFits(r) => (AloneSoFar => Len(b) = Len(a) + (IF o THEN 1 ELSE 0))
  <2>1. CASE me.writer
    BY <2>1, <1>2, <1>3
  <2>2. CASE ~me.writer
    <3>1. SpoolFits(r) => Ahead(r) <= 1
      BY DEF SpoolFits
    <3>2. Len(a) = 0 /\ Ahead(r) = Len(b)
      BY <1>2, <2>2
    <3>3. o <=> Len(b) = 1
      BY <1>3, <2>2, <3>2
    <3> QED BY <1>4, <2>2, <3>1, <3>2, <3>3
  <2> QED BY <2>1, <2>2
<1> DEFINE Refused == \/ ~me.writer /\ (spool.seal # "none" \/ ~SpoolFits(r))
                    \/ spool.seal # "none" \/ o # HasBlock(g)
           Adds == /\ spool.seal = "none" /\ ~HasBlock(g)
                   /\ (me.writer \/ SpoolFits(r))
<1>6. CASE Refused /\ ~Adds
  <2>1. RunFails(r)
    BY <1>2, <1>3, <1>6 DEF AcceptBlock, RunFails, traversalFiles
  <2> QED BY <1>2, <2>1, RunFailing
<1>7. CASE Refused /\ Adds
  <2>1. /\ RunEnds(r) /\ spool' = [spool EXCEPT !.blocks = Append(@, g)]
        /\ UNCHANGED <<store, pageNames, root>> /\ BoundsUnchanged
    BY <1>2, <1>3, <1>7 DEF AcceptBlock
  <2>2. o /\ ~Has(b, g)
    <3>1. HasBlock(g) \in BOOLEAN
      BY DEF HasBlock
    <3> QED BY <1>2, <1>3, <1>7, <3>1
  <2>3. SteadySoFar /\ AloneSoFar => Len(b) = Len(a)
    <3> SUFFICES ASSUME SteadySoFar, AloneSoFar PROVE FALSE
      OBVIOUS
    <3>1. Len(b) = Len(a) + 1
      BY <1>5, <1>7, <2>2
    <3>2. PICK k \in Nat : k = Len(h)
      OBVIOUS
    <3>3. b = a \/ (k < Len(Baseline) /\ b = Append(a, Baseline[k + 1]))
      <4>1. Exact(store, spool)
        BY DEF TraversalInv, FilesAreSound, FilesAgree
      <4>2. store.results = h /\ a = Accepted(h) /\ b = spool.blocks
        BY <1>1 DEF AcceptFacts
      <4> QED BY <3>2, <4>1, <4>2 DEF Exact
    <3>4. b # a
      BY <1>4, <3>1
    <3>5. Baseline[k + 1] = g
      <4>1. g \in Groups /\ Begins(Append(h, g), Baseline)
        BY <1>1 DEF Groups, AcceptFacts
      <4> QED BY <3>2, <4>1, NextInBaseline
    <3>6. b = Append(a, g)
      BY <3>3, <3>4, <3>5
    <3>7. Len(a) + 1 \in DOMAIN b /\ b[Len(a) + 1] = g
      BY <3>6, BlockAppended
    <3> QED BY <2>2, <3>7 DEF Has
  <2>4. /\ FilesAreSound' /\ spool' \in Spools
        /\ \A q \in Runners \ {r} : Sound(runner[q], spool', store', SteadySoFar, AloneSoFar)
    BY <1>1, <2>1, <2>2, <2>3, AddedBlock
  <2>5. FilesTyped'
    <3>1. runner' = [runner EXCEPT ![r] = NoRun]
      BY <2>1 DEF RunEnds
    <3>2. UNCHANGED <<store, pageNames, root, groups, stops, drifts, displacements>>
      BY <2>1 DEF BoundsUnchanged
    <3> QED BY <2>4, <3>1, <3>2, NoRunType DEF TraversalInv, FilesTyped
  <2> QED BY <1>2, <2>1, <2>4, <2>5, RunOver
<1>8. CASE ~Refused
  <2>1. /\ spool' = IF o THEN spool ELSE [spool EXCEPT !.blocks = Append(@, g)]
        /\ runner' = [runner EXCEPT ![r] =
             [me EXCEPT !.writer = TRUE, !.orphan = FALSE, !.pc = "commit"]]
        /\ UNCHANGED <<holder, store, pageNames, root>> /\ BoundsUnchanged
    BY <1>2, <1>3, <1>8 DEF AcceptBlock
  <2>2. (o <=> Has(b, g)) /\ (me.writer \/ SpoolFits(r))
    BY <1>2, <1>3, <1>8
  <2>3. PICK n : n = [me EXCEPT !.writer = TRUE, !.orphan = FALSE, !.pc = "commit"]
    OBVIOUS
  <2>4. /\ n \in Runs /\ n.pc = "commit" /\ n.then = me.then /\ n.next = me.next
        /\ n.persisted = me.persisted /\ n.seen = me.seen /\ n.batch = me.batch
        /\ n.group = me.group /\ n.writer = TRUE /\ n.sealed = me.sealed /\ n.orphan = FALSE
    BY <2>3 DEF Runs, Steps
  <2>5. /\ spool' \in Spools /\ spool'.seal = spool.seal /\ FilesAreSound'
        /\ \/ spool'.blocks = Append(b, g) /\ ~Has(b, g) /\ (AloneSoFar => Len(b) = Len(a))
           \/ spool'.blocks = b /\ Has(b, g) /\ (AloneSoFar => Len(b) = Len(a) + 1)
        /\ \A q \in Runners \ {r} : Sound(runner[q], spool', store', SteadySoFar, AloneSoFar)
    <3>1. CASE o
      <4>1. UNCHANGED <<spool, store, pageNames, root, groups, stops, drifts, displacements>>
        BY <2>1, <3>1 DEF BoundsUnchanged
      <4>2. FilesAreSound'
        BY <4>1 DEF TraversalInv, FilesAreSound, RootIsBacked, CatalogStays, FilesAgree, SteadySoFar, AloneSoFar
      <4>3. \A q \in Runners \ {r} : Sound(runner[q], spool', store', SteadySoFar, AloneSoFar)
        BY <4>1 DEF TraversalInv, RunsAreSound
      <4>4. spool' \in Spools
        BY <4>1, SoundNow
      <4> QED BY <1>2, <1>5, <2>2, <3>1, <4>1, <4>2, <4>3, <4>4
    <3>2. CASE ~o
      <4>1. AloneSoFar => Len(b) = Len(a)
        BY <1>4, <1>5, <2>2, <3>2
      <4>2. /\ FilesAreSound' /\ spool' \in Spools /\ spool'.blocks = Append(b, g)
            /\ spool'.seal = spool.seal
            /\ \A q \in Runners \ {r} : Sound(runner[q], spool', store', SteadySoFar, AloneSoFar)
        <5>1. spool' = [spool EXCEPT !.blocks = Append(@, g)] /\ ~Has(b, g)
          BY <2>1, <2>2, <3>2
        <5> QED BY <1>1, <2>1, <4>1, <5>1, AddedBlock
      <4> QED BY <2>2, <3>2, <4>1, <4>2
    <3> QED BY <3>1, <3>2
  <2>6. Sound(n, spool', store', SteadySoFar, AloneSoFar)
    <3>1. PICK sp \in Spools : sp = spool'
      BY <2>5
    <3>2. n \in Runs /\ IsAccepted(me, n, sp, a, b, g)
      BY <2>4, <2>5, <3>1 DEF IsAccepted
    <3>3. Sound(n, sp, store, SteadySoFar, AloneSoFar)
      BY <1>1, <3>2, AcceptedSound
    <3> QED BY <2>1, <3>1, <3>3
  <2>7. /\ store' \in Stores /\ pageNames' \in [Blocks -> 0..2]
        /\ root' \in [names : 0..2, blocks : Seq(Blocks)]
    BY <2>1 DEF TraversalInv, FilesTyped
  <2>8. runner' = [runner EXCEPT ![r] = n] /\ holder' = holder /\ BoundsUnchanged
    BY <2>1, <2>3
  <2> QED BY <1>2, <2>4, <2>5, <2>6, <2>7, <2>8, RunMoves
<1> QED BY <1>6, <1>7, <1>8

(***************************************************************************)
(* The store is completed.                                                 *)
(***************************************************************************)

\* The store is complete.
LEMMA CompleteSound ==
  ASSUME TraversalInv, NEW r \in Runners, CompleteStore(r)
  PROVE  TraversalInv'
<1>1. PICK me \in Runs : me = runner[r]
  BY SoundNow
<1>2. me.pc = "complete" /\ runner[r].pc # "idle"
  BY <1>1 DEF CompleteStore, RunAt
<1>3. /\ Sound(me, spool, store, SteadySoFar, AloneSoFar) /\ Shape(me)
      /\ store \in Stores /\ store.results \in Seq(Groups) /\ spool \in Spools
      /\ spool.blocks \in Seq(Blocks)
  BY <1>1, SoundNow DEF Sound
<1>4. CASE RunFails(r)
  BY <1>2, <1>4, RunFailing
<1>5. CASE ~RunFails(r)
  <2>1. /\ Len(store.results) = Len(Baseline) /\ OnlyRun
        /\ runner' = [runner EXCEPT ![r] =
             IF store.complete
             THEN [me EXCEPT !.pc = "attestPost", !.persisted = store.results]
             ELSE [me EXCEPT !.pc = "rename", !.then = "attestPost",
                             !.persisted = store.results,
                             !.next = {[store EXCEPT !.complete = TRUE]}]]
    BY <1>1, <1>5 DEF CompleteStore
  <2>2. Ended(me) /\ ~Pending(me) /\ ~Rereads(me) /\ me.seen = Baseline /\ ~me.orphan /\ Held(me) = Baseline
    <3>1. Ended(me) /\ ~Pending(me)
      BY <1>2 DEF Ended, Pending
    <3>2. ~Rereads(me) /\ me.seen = Baseline /\ ~me.orphan
      BY <1>3, <3>1 DEF Shape
    <3> QED BY <3>1, <3>2 DEF Held
  <2>3. me.batch = <<>> /\ store.results \o me.batch = store.results
    <3>1. me.batch = <<>>
      BY <1>2, <1>3 DEF Shape
    <3>2. store.results \o <<>> = store.results
      BY <1>3, ConcatEmptySeq
    <3> QED BY <3>1, <3>2
  <2>4. SteadySoFar \/ AloneSoFar => store.results = Baseline
    <3>1. AloneSoFar => store.results = Baseline
      BY <1>2, <1>3, <2>2, <2>3 DEF Sound, Alone
    <3>2. SteadySoFar => store.results = Baseline
      <4>1. SteadySoFar => Begins(store.results, Baseline)
        BY DEF TraversalInv, FilesAreSound, CatalogStays
      <4>2. Len(Baseline) <= Len(store.results)
        BY <2>1, BaselineType
      <4> QED BY <4>1, <4>2, <1>3, BaselineType, BeginsEqual
    <3> QED BY <3>1, <3>2
  <2>5. Accepted(Held(me)) = <<>> \/ me.writer
    BY <1>3, <2>2 DEF Shape
  <2>6. PICK n : n = IF store.complete
             THEN [me EXCEPT !.pc = "attestPost", !.persisted = store.results]
             ELSE [me EXCEPT !.pc = "rename", !.then = "attestPost",
                             !.persisted = store.results,
                             !.next = {[store EXCEPT !.complete = TRUE]}]
    OBVIOUS
  <2>7. PICK x \in Stores : x = [store EXCEPT !.complete = TRUE] /\ x.results = store.results /\ x.complete = TRUE
    <3>1. PICK y : y = [store EXCEPT !.complete = TRUE]
      OBVIOUS
    <3>2. y \in Stores /\ y.results = store.results /\ y.complete = TRUE
      BY <1>3, <3>1 DEF Stores
    <3> QED BY <3>1, <3>2
  <2>8. /\ n \in Runs
        /\ store.complete => n.pc = "attestPost" /\ n.then = me.then /\ n.next = me.next
        /\ ~store.complete => n.pc = "rename" /\ n.then = "attestPost" /\ n.next = {x}
        /\ n.persisted = store.results /\ n.seen = me.seen /\ n.batch = me.batch
        /\ n.group = me.group /\ n.writer = me.writer /\ n.sealed = me.sealed /\ n.orphan = me.orphan
    <3>1. PICK a : a = [me EXCEPT !.persisted = store.results]
      OBVIOUS
    <3>2. /\ a \in Runs /\ a.pc = me.pc /\ a.then = me.then /\ a.next = me.next
          /\ a.persisted = store.results /\ a.seen = me.seen /\ a.batch = me.batch
          /\ a.group = me.group /\ a.writer = me.writer /\ a.sealed = me.sealed /\ a.orphan = me.orphan
      BY <1>3, <3>1 DEF Runs
    <3>3. CASE store.complete
      <4>1. n = [a EXCEPT !.pc = "attestPost"]
        BY <2>6, <3>1, <3>3 DEF Runs
      <4> QED BY <3>2, <3>3, <4>1 DEF Runs, Steps
    <3>4. CASE ~store.complete
      <4>1. PICK b : b = [a EXCEPT !.next = {x}]
        OBVIOUS
      <4>2. /\ b \in Runs /\ b.pc = a.pc /\ b.then = a.then /\ b.next = {x}
            /\ b.persisted = a.persisted /\ b.seen = a.seen /\ b.batch = a.batch
            /\ b.group = a.group /\ b.writer = a.writer /\ b.sealed = a.sealed /\ b.orphan = a.orphan
        BY <3>2, <4>1 DEF Runs
      <4>3. n = [b EXCEPT !.pc = "rename", !.then = "attestPost"]
        BY <2>6, <2>7, <3>1, <3>4, <4>1 DEF Runs
      <4> QED BY <3>2, <3>4, <4>2, <4>3 DEF Runs, Steps
    <3> QED BY <3>3, <3>4
  <2>9. /\ ~Pending(n) /\ ~Rereads(n) /\ Ended(n) /\ Completed(n) /\ Held(n) = Baseline
    <3>1. ~Pending(n) /\ Ended(n) /\ Completed(n)
      BY <2>8 DEF Pending, Ended, Completed, AfterRename
    <3>2. ~Rereads(n)
      BY <2>1, <2>2, <2>8, BaselineType DEF Rereads
    <3> QED BY <2>2, <2>8, <3>1, <3>2 DEF Held
  <2>10. Shape(n)
    <3>1. Len(n.batch) = 0 /\ n.batch = <<>> /\ n.seen = Baseline /\ Len(Baseline) \in Nat
      BY <2>2, <2>3, <2>8, BaselineType
    <3>2. Len(n.batch) <= Len(Held(n))
          /\ \A i \in 1..Len(Held(n)) : i > Len(Held(n)) - Len(n.batch) => Held(n)[i] = Excluded
      BY <2>9, <3>1
    <3>3. n.pc \in {"attestPost", "rename"} /\ n.orphan = me.orphan /\ (~n.writer => Accepted(Held(n)) = <<>>)
          /\ (n.pc = "rename" => n.then # "idle")
      BY <2>2, <2>5, <2>8, <2>9
    <3> QED BY <2>2, <2>9, <3>1, <3>2, <3>3 DEF Shape
  <2>11. Sealing(n, spool)
    BY <1>3, <2>8 DEF Sound, Sealing
  <2>12. SteadySoFar => Steady(n, spool)
    <3>1. SteadySoFar => Steady(me, spool) /\ Begins(x.results, Baseline)
      BY <1>3, <2>4, <2>7, <2>2 DEF Sound, Steady
    <3> QED BY <2>2, <2>8, <2>9, <3>1 DEF Steady
  <2>13. ASSUME AloneSoFar PROVE Alone(n, spool, store)
    <3>1. Alone(me, spool, store)
      BY <1>3, <2>13 DEF Sound
    <3>2. n.writer => Len(spool.blocks) = Len(Accepted(Held(n))) + (IF n.orphan THEN 1 ELSE 0)
      BY <2>2, <2>8, <2>9, <3>1 DEF Alone
    <3>3. Begins(Held(n), Baseline) => Begins(Accepted(Held(n)), spool.blocks)
      BY <2>2, <2>9, <3>1 DEF Alone
    <3>4. store.results \o n.batch = Held(n)
      BY <2>3, <2>4, <2>8, <2>9, <2>13
    <3>5. CASE store.complete
      BY <2>8, <2>9, <3>2, <3>3, <3>4, <3>5 DEF Alone
    <3>6. CASE ~store.complete
      <4>1. \A y \in n.next : y.results = Held(n) /\ y.complete = (n.then = "attestPost")
        BY <2>4, <2>7, <2>8, <2>9, <2>13, <3>6
      <4>2. n.pc = "rename" /\ n.then = "attestPost" /\ n.pc \notin AfterRename
        BY <2>8, <3>6 DEF AfterRename
      <4> QED BY <2>9, <3>2, <3>3, <4>1, <4>2 DEF Alone
    <3> QED BY <3>5, <3>6
  <2>14. SteadySoFar \/ AloneSoFar => Covered(n, spool)
    BY <2>4, <2>8 DEF Covered
  <2>15. SteadySoFar /\ AloneSoFar => Recording(n, spool)
    <3>1. SteadySoFar /\ AloneSoFar => spool.blocks = Accepted(store.results)
      <4>1. SteadySoFar /\ AloneSoFar => Exact(store, spool)
        BY DEF TraversalInv, FilesAreSound, FilesAgree
      <4>2. ~(Len(store.results) < Len(Baseline))
        BY <2>1, BaselineType
      <4> QED BY <4>1, <4>2 DEF Exact
    <3>2. n.pc = "rename" => n.next = {x}
      BY <2>8
    <3>3. SteadySoFar /\ AloneSoFar => spool.blocks = Accepted(x.results)
      BY <2>7, <3>1
    <3> QED BY <3>2, <3>3 DEF Recording
  <2>16. Sound(n, spool, store, SteadySoFar, AloneSoFar)
    BY <2>10, <2>11, <2>12, <2>13, <2>14, <2>15 DEF Sound
  <2> QED BY <1>2, <2>1, <2>6, <2>8, <2>16, OneRunMoves
<1> QED BY <1>4, <1>5

(***************************************************************************)
(* The seal                                                                *)
(***************************************************************************)

\* A run past the completion of the store seals the spool and goes on.
LEMMA SealMoves ==
  ASSUME TraversalInv, NEW r \in Runners, runner[r].pc \in AfterRename,
         NEW step \in AfterRename, RunGoes(r, step),
         NEW seal \in {"intent", "sealed"}, spool' = [spool EXCEPT !.seal = seal],
         UNCHANGED <<holder, store, pageNames, root>>, BoundsUnchanged,
         spool.seal = "sealed" => seal = "sealed",
         runner[r].pc \in {"attestSeal", "publish", "unlinkRoot"} /\ runner[r].writer => seal = "sealed",
         runner[r].sealed => seal = "sealed",
         step \in {"attestSeal", "publish", "unlinkRoot"} /\ runner[r].writer => seal = "sealed",
         (SteadySoFar \/ AloneSoFar) /\ step \in {"link", "unlink", "attestSeal", "publish"} =>
            IF runner[r].writer THEN spool.blocks = Accepted(Baseline) ELSE Accepted(Baseline) = <<>>
  PROVE  TraversalInv'
<1>1. PICK me \in Runs : me = runner[r]
  BY SoundNow
<1>2. PICK n : n = [me EXCEPT !.pc = step]
  OBVIOUS
<1>3. n \in Runs /\ SameBut(n, me) /\ n.next = me.next /\ n.pc = step /\ n.writer = me.writer
  <2>1. step \in Steps
    BY DEF Steps, AfterRename
  <2> QED BY <1>2, <2>1, Moved DEF SameBut
<1>4. runner' = [runner EXCEPT ![r] = n]
  BY <1>1, <1>2 DEF RunGoes
<1>5. Sound(me, spool, store, SteadySoFar, AloneSoFar) /\ spool \in Spools /\ store \in Stores
      /\ SteadySoFar \in BOOLEAN /\ AloneSoFar \in BOOLEAN
  BY <1>1, SoundNow
<1>6. PICK sp \in Spools : sp = spool' /\ sp.blocks = spool.blocks /\ sp.seal = seal
  BY <1>5 DEF Spools
<1>7. runner[r].pc # "idle"
  BY DEF AfterRename
<1>8. Sound(me, sp, store, SteadySoFar, AloneSoFar)
  <2>1. Sealing(me, sp)
    BY <1>1, <1>5, <1>6 DEF Sound, Sealing
  <2>2. /\ SteadySoFar => Steady(me, sp)
        /\ AloneSoFar => Alone(me, sp, store)
        /\ SteadySoFar \/ AloneSoFar => Covered(me, sp)
        /\ SteadySoFar /\ AloneSoFar => Recording(me, sp)
    BY <1>5, <1>6 DEF Sound, Steady, Alone, Covered, Recording
  <2> QED BY <1>5, <2>1, <2>2 DEF Sound
<1>9. Sound(n, sp, store, SteadySoFar, AloneSoFar)
  <2>1. me.pc \in AfterRename /\ n.pc \in AfterRename
    BY <1>1, <1>3
  <2>2. n.pc \in {"attestSeal", "publish", "unlinkRoot"} /\ n.writer => sp.seal = "sealed"
    BY <1>1, <1>3, <1>6
  <2>3. (SteadySoFar \/ AloneSoFar) /\ n.pc \in {"link", "unlink", "attestSeal", "publish"} =>
            IF n.writer THEN sp.blocks = Accepted(Baseline) ELSE Accepted(Baseline) = <<>>
    BY <1>1, <1>3, <1>6
  <2> QED BY <1>3, <1>5, <1>8, <2>1, <2>2, <2>3, LaterIsSound
<1>10. \A q \in Runners \ {r} : Sound(runner[q], sp, store, SteadySoFar, AloneSoFar)
  <2>1. Len(spool.blocks) <= Len(sp.blocks)
    BY <1>5, <1>6 DEF Spools
  <2> QED BY <1>5, <1>6, <1>7, <2>1, OthersStaySound
<1>11. UNCHANGED <<store, pageNames, root, groups, stops, drifts, displacements>>
  BY DEF BoundsUnchanged
<1>12. FilesAreSound'
  <2>1. RootIsBacked'
    BY <1>6, <1>11 DEF TraversalInv, FilesAreSound, RootIsBacked, SteadySoFar, AloneSoFar
  <2>2. CatalogStays'
    BY <1>6, <1>11 DEF TraversalInv, FilesAreSound, CatalogStays, SteadySoFar
  <2>3. FilesAgree'
    <3>1. AloneSoFar => store.complete
      BY <1>1, <1>5 DEF Sound, Alone
    <3> QED BY <1>6, <1>11, <3>1
            DEF TraversalInv, FilesAreSound, FilesAgree, SpoolHasResults, Exact, SteadySoFar, AloneSoFar
  <2> QED BY <2>1, <2>2, <2>3 DEF FilesAreSound
<1>13. /\ pageNames' \in [Blocks -> 0..2] /\ root' \in [names : 0..2, blocks : Seq(Blocks)]
       /\ spool' \in Spools /\ store' \in Stores
  BY <1>5, <1>6, <1>11 DEF TraversalInv, FilesTyped
<1>14. /\ Sound(n, spool', store', SteadySoFar, AloneSoFar)
       /\ \A q \in Runners \ {r} : Sound(runner[q], spool', store', SteadySoFar, AloneSoFar)
  BY <1>6, <1>9, <1>10, <1>11
<1> QED BY <1>3, <1>4, <1>7, <1>12, <1>13, <1>14, RunMoves

\* The spool of a run whose coverage is what it holds has the attested blocks.
LEMMA CoveredNow ==
  ASSUME TraversalInv, NEW r \in Runners, runner[r].pc = "seal", runner[r].writer, CoversRecord(r),
         SteadySoFar \/ AloneSoFar
  PROVE  spool.blocks = Accepted(Baseline)
<1>1. PICK me \in Runs : me = runner[r]
  BY SoundNow
<1>2. /\ Sound(me, spool, store, SteadySoFar, AloneSoFar) /\ Shape(me)
      /\ store.results \in Seq(Groups) /\ spool.blocks \in Seq(Blocks)
  BY <1>1, SoundNow DEF Sound
<1>3. Completed(me) /\ Ended(me) /\ ~Pending(me)
  BY <1>1 DEF Completed, Ended, Pending, AfterRename
<1>4. me.persisted = Baseline
  BY <1>2, <1>3 DEF Sound, Covered
<1>5. PICK b \in Seq(Blocks), c \in Seq(Blocks) : b = spool.blocks /\ c = Accepted(Baseline) /\ Len(b) = Len(c)
  <2>1. Len(spool.blocks) = Len(Accepted(Baseline))
    BY <1>1, <1>4 DEF CoversRecord
  <2> QED BY <1>2, <2>1, BaselineType, AcceptedType
<1>6. CASE SteadySoFar
  <2>1. Begins(b, c)
    BY <1>5, <1>6 DEF TraversalInv, FilesAreSound, CatalogStays
  <2>2. Len(c) <= Len(b)
    BY <1>5
  <2> QED BY <1>5, <2>1, <2>2, BeginsEqual
<1>7. CASE AloneSoFar
  <2>1. Held(me) = Baseline /\ ~Rereads(me)
    BY <1>2, <1>3 DEF Shape, Held
  <2>2. Begins(Baseline, Baseline)
    BY BaselineType DEF Begins
  <2>3. Begins(c, b)
    BY <1>2, <1>5, <1>7, <2>1, <2>2 DEF Sound, Alone
  <2>4. Len(b) <= Len(c)
    BY <1>5
  <2> QED BY <1>5, <2>3, <2>4, BeginsEqual
<1> QED BY <1>6, <1>7

\* The intent to seal is kept.
LEMMA SealIntentSound ==
  ASSUME TraversalInv, NEW r \in Runners, SealIntent(r)
  PROVE  TraversalInv'
<1>1. PICK me \in Runs : me = runner[r]
  BY SoundNow
<1>2. me.pc = "seal" /\ runner[r].pc \in AfterRename /\ runner[r].pc # "idle"
  BY <1>1 DEF SealIntent, RunAt, AfterRename
<1>3. Sound(me, spool, store, SteadySoFar, AloneSoFar) /\ spool \in Spools
  BY <1>1, SoundNow
<1>4. CASE RunFails(r)
  BY <1>2, <1>4, RunFailing
<1>5. "attestSeal" \in AfterRename /\ "link" \in AfterRename
  BY DEF AfterRename
<1>6. CASE /\ Accepted(me.persisted) = <<>> /\ ~me.writer
           /\ RunGoes(r, "attestSeal") /\ OnlyRun
  <2>1. SteadySoFar \/ AloneSoFar => Accepted(Baseline) = <<>>
    BY <1>2, <1>3, <1>6 DEF Sound, Covered, Completed, AfterRename
  <2> QED BY <1>1, <1>2, <1>5, <1>6, <2>1, LaterGoes
<1>7. CASE /\ me.writer /\ CoversRecord(r) /\ me.sealed
           /\ RunGoes(r, "attestSeal") /\ OnlyRun
  <2>1. spool.seal = "sealed"
    BY <1>3, <1>7 DEF Sound, Sealing
  <2>2. SteadySoFar \/ AloneSoFar => spool.blocks = Accepted(Baseline)
    BY <1>1, <1>2, <1>7, CoveredNow
  <2> QED BY <1>1, <1>2, <1>5, <1>7, <2>1, <2>2, LaterGoes
<1>8. CASE /\ me.writer /\ CoversRecord(r) /\ ~me.sealed
           /\ spool' = IF spool.seal = "none" THEN [spool EXCEPT !.seal = "intent"] ELSE spool
           /\ RunGoes(r, "link")
           /\ UNCHANGED <<holder, store, pageNames, root>> /\ BoundsUnchanged
  <2>1. PICK seal \in {"intent", "sealed"} : seal = IF spool.seal = "none" THEN "intent" ELSE spool.seal
    BY <1>3 DEF Spools
  <2>2. spool' = [spool EXCEPT !.seal = seal]
    BY <1>3, <1>8, <2>1 DEF Spools
  <2>3. SteadySoFar \/ AloneSoFar => spool.blocks = Accepted(Baseline)
    BY <1>1, <1>2, <1>8, CoveredNow
  <2>4. spool.seal = "sealed" => seal = "sealed"
    BY <2>1
  <2> QED BY <1>1, <1>2, <1>5, <1>8, <2>2, <2>3, <2>4, SealMoves
<1> QED BY <1>1, <1>4, <1>6, <1>7, <1>8 DEF SealIntent

\* The spool is sealed.
LEMMA FinishSealSound ==
  ASSUME TraversalInv, NEW r \in Runners, FinishSeal(r)
  PROVE  TraversalInv'
<1>1. PICK me \in Runs : me = runner[r]
  BY SoundNow
<1>2. me.pc = "link" /\ runner[r].pc \in AfterRename
  BY <1>1 DEF FinishSeal, RunAt, AfterRename
<1>3. Sound(me, spool, store, SteadySoFar, AloneSoFar)
  BY <1>1, SoundNow
<1>4. SteadySoFar \/ AloneSoFar =>
        IF me.writer THEN spool.blocks = Accepted(Baseline) ELSE Accepted(Baseline) = <<>>
  BY <1>2, <1>3 DEF Sound, Covered
<1>5. /\ spool' = [spool EXCEPT !.seal = "sealed"] /\ RunGoes(r, "attestSeal")
      /\ UNCHANGED <<holder, store, pageNames, root>> /\ BoundsUnchanged
  BY DEF FinishSeal
<1>6. "attestSeal" \in AfterRename
  BY DEF AfterRename
<1> QED BY <1>1, <1>2, <1>4, <1>5, <1>6, SealMoves

(***************************************************************************)
(* The pages and the root                                                  *)
(***************************************************************************)

\* A run writes a page and goes on to the next.
WritesPage(r, n) ==
  /\ runner[r].pc \in {"link", "unlink"} /\ n.pc \in {"link", "unlink"}
  /\ SameBut(n, runner[r]) /\ n.next = runner[r].next
  /\ runner' = [runner EXCEPT ![r] = n]
  /\ pageNames' \in [Blocks -> 0..2]
  /\ \A b \in Blocks : pageNames[b] > 0 => pageNames'[b] > 0
  /\ UNCHANGED <<holder, store, spool, root>> /\ BoundsUnchanged

LEMMA PagesSound ==
  ASSUME TraversalInv, NEW r \in Runners, NEW n \in Runs, WritesPage(r, n)
  PROVE  TraversalInv'
<1> USE DEF WritesPage
<1>1. PICK me \in Runs : me = runner[r]
  BY SoundNow
<1>2. Sound(me, spool, store, SteadySoFar, AloneSoFar) /\ spool \in Spools /\ store \in Stores
      /\ SteadySoFar \in BOOLEAN /\ AloneSoFar \in BOOLEAN /\ spool.blocks \in Seq(Blocks)
  BY <1>1, SoundNow
<1>3. SteadySoFar \/ AloneSoFar =>
        IF me.writer THEN spool.blocks = Accepted(Baseline) ELSE Accepted(Baseline) = <<>>
  BY <1>1, <1>2 DEF Sound, Covered
<1>4. Sound(n, spool, store, SteadySoFar, AloneSoFar)
  <2>1. me.pc \in AfterRename /\ n.pc \in AfterRename
        /\ n.pc \notin {"attestSeal", "publish", "unlinkRoot"}
    BY <1>1 DEF AfterRename
  <2>2. n.writer = me.writer /\ SameBut(n, me) /\ n.next = me.next
    BY <1>1 DEF SameBut
  <2> QED BY <1>2, <1>3, <2>1, <2>2, LaterIsSound
<1>5. UNCHANGED <<store, spool, root, groups, stops, drifts, displacements>>
  BY DEF BoundsUnchanged
<1>6. FilesAreSound'
  <2>1. RootIsBacked'
    <3>1. ASSUME root.names > 0, NEW i \in DOMAIN root.blocks PROVE pageNames'[root.blocks[i]] > 0
      <4>1. root.blocks \in Seq(Blocks)
        BY DEF TraversalInv, FilesTyped
      <4>2. pageNames[root.blocks[i]] > 0 /\ root.blocks[i] \in Blocks
        BY <3>1, <4>1 DEF TraversalInv, FilesAreSound, RootIsBacked
      <4> QED BY <4>2
    <3> QED BY <1>5, <3>1 DEF TraversalInv, FilesAreSound, RootIsBacked, SteadySoFar, AloneSoFar
  <2>2. CatalogStays' /\ FilesAgree'
    BY <1>5 DEF TraversalInv, FilesAreSound, CatalogStays, FilesAgree, SteadySoFar, AloneSoFar
  <2> QED BY <2>1, <2>2 DEF FilesAreSound
<1>7. /\ root' \in [names : 0..2, blocks : Seq(Blocks)] /\ spool' \in Spools /\ store' \in Stores
  BY <1>5 DEF TraversalInv, FilesTyped
<1>8. /\ Sound(n, spool', store', SteadySoFar, AloneSoFar)
      /\ \A q \in Runners \ {r} : Sound(runner[q], spool', store', SteadySoFar, AloneSoFar)
  BY <1>4, <1>5 DEF TraversalInv, RunsAreSound
<1> QED BY <1>6, <1>7, <1>8, RunMoves

LEMMA LinkPageSound ==
  ASSUME TraversalInv, NEW r \in Runners, LinkPage(r)
  PROVE  TraversalInv'
<1>1. PICK me \in Runs : me = runner[r]
  BY SoundNow
<1>2. me.pc = "link" /\ runner[r].pc # "idle"
  BY <1>1 DEF LinkPage, RunAt
<1>3. PICK b \in Blocks : b = PageBlock(r)
  <2>1. me.page \in 1..Len(spool.blocks)
    BY <1>1, SoundNow DEF LinkPage, HasPage, Runs
  <2> QED BY <1>1, <2>1, SoundNow DEF PageBlock
<1>4. pageNames \in [Blocks -> 0..2] /\ pageNames[b] \in 0..2
  BY DEF TraversalInv, FilesTyped
<1>5. CASE pageNames[b] = 0
  <2>1. /\ pageNames' = [pageNames EXCEPT ![b] = 2] /\ RunGoes(r, "unlink")
        /\ UNCHANGED <<holder, store, spool, root>> /\ BoundsUnchanged
    BY <1>3, <1>5 DEF LinkPage
  <2>2. PICK n : n = [me EXCEPT !.pc = "unlink"]
    OBVIOUS
  <2>3. n \in Runs /\ SameBut(n, me) /\ n.next = me.next /\ n.pc = "unlink"
    <3>1. "unlink" \in Steps
      BY DEF Steps
    <3> QED BY <2>2, <3>1, Moved DEF SameBut
  <2>4. pageNames' \in [Blocks -> 0..2] /\ \A c \in Blocks : pageNames[c] > 0 => pageNames'[c] > 0
    BY <1>4, <2>1
  <2>5. runner' = [runner EXCEPT ![r] = n]
    BY <1>1, <2>1, <2>2 DEF RunGoes
  <2> QED BY <1>1, <1>2, <2>1, <2>3, <2>4, <2>5, PagesSound DEF WritesPage
<1>6. CASE pageNames[b] = 1
  <2>1. runner' = [runner EXCEPT ![r].page = @ + 1] /\ OnlyRun
    BY <1>3, <1>6 DEF LinkPage
  <2>2. PICK n : n = [me EXCEPT !.page = @ + 1]
    OBVIOUS
  <2>3. n \in Runs /\ SameBut(n, me) /\ n.next = me.next /\ n.pc = "link"
    <3>1. me.page + 1 \in Nat \ {0}
      BY DEF Runs
    <3>2. n.pc = me.pc /\ n \in Runs
      BY <2>2, <3>1 DEF Runs
    <3>3. SameBut(n, me) /\ n.next = me.next
      BY <2>2 DEF Runs, SameBut
    <3> QED BY <1>2, <3>2, <3>3
  <2>4. runner' = [runner EXCEPT ![r] = n]
    BY <1>1, <2>1, <2>2
  <2>5. UNCHANGED <<holder, store, spool, root, pageNames>> /\ BoundsUnchanged
    BY <2>1 DEF OnlyRun, traversalFiles
  <2> QED BY <1>1, <1>2, <1>4, <2>3, <2>4, <2>5, PagesSound DEF WritesPage
<1>7. CASE pageNames[b] = 2
  <2>1. RunFails(r)
    BY <1>3, <1>7 DEF LinkPage
  <2> QED BY <1>2, <2>1, RunFailing
<1> QED BY <1>4, <1>5, <1>6, <1>7

LEMMA UnlinkPageSound ==
  ASSUME TraversalInv, NEW r \in Runners, UnlinkPage(r)
  PROVE  TraversalInv'
<1>1. PICK me \in Runs : me = runner[r]
  BY SoundNow
<1>2. me.pc = "unlink"
  BY <1>1 DEF UnlinkPage, RunAt
<1>3. PICK n : n = [me EXCEPT !.pc = "link", !.page = @ + 1]
  OBVIOUS
<1>4. n \in Runs /\ SameBut(n, me) /\ n.next = me.next /\ n.pc = "link"
  <2>1. me.page + 1 \in Nat \ {0} /\ "link" \in Steps
    BY DEF Runs, Steps
  <2>2. n.pc = "link" /\ n \in Runs
    BY <1>3, <2>1 DEF Runs
  <2>3. SameBut(n, me) /\ n.next = me.next
    BY <1>3 DEF Runs, SameBut
  <2> QED BY <2>2, <2>3
<1>5. pageNames' \in [Blocks -> 0..2] /\ \A c \in Blocks : pageNames[c] > 0 => pageNames'[c] > 0
  <2>1. PICK b : b = PageBlock(r)
    OBVIOUS
  <2>2. pageNames' = [pageNames EXCEPT ![b] = 1] /\ pageNames \in [Blocks -> 0..2]
    BY <2>1 DEF UnlinkPage, TraversalInv, FilesTyped
  <2>3. \A c \in Blocks : pageNames'[c] = IF c = b THEN 1 ELSE pageNames[c]
    BY <2>2
  <2>4. pageNames' = [c \in Blocks |-> pageNames'[c]]
    BY <2>2
  <2>5. \A c \in Blocks : pageNames[c] \in 0..2
    BY <2>2
  <2>6. \A c \in Blocks : pageNames'[c] \in 0..2 /\ (pageNames[c] > 0 => pageNames'[c] > 0)
    BY <2>3, <2>5
  <2> QED BY <2>4, <2>6
<1>6. runner' = [runner EXCEPT ![r] = n]
  BY <1>1, <1>3 DEF UnlinkPage
<1>7. UNCHANGED <<holder, store, spool, root>> /\ BoundsUnchanged
  BY DEF UnlinkPage
<1> QED BY <1>1, <1>2, <1>4, <1>5, <1>6, <1>7, PagesSound DEF WritesPage

\* The root is linked.
LEMMA PublishSound ==
  ASSUME TraversalInv, NEW r \in Runners, Publish(r)
  PROVE  TraversalInv'
<1>1. PICK me \in Runs : me = runner[r]
  BY SoundNow
<1>2. me.pc = "publish" /\ runner[r].pc # "idle"
  BY <1>1 DEF Publish, RunAt
<1>3. PICK blocks \in Seq(Blocks) : blocks = IF me.writer THEN spool.blocks ELSE <<>>
  <2>1. <<>> \in Seq(Blocks) /\ spool.blocks \in Seq(Blocks)
    BY SoundNow
  <2> QED BY <2>1
<1>4. CASE RunFails(r)
  BY <1>2, <1>4, RunFailing
<1>5. CASE ~RunFails(r)
  <2>1. /\ root' = [names |-> 2, blocks |-> blocks]
        /\ \A n \in DOMAIN blocks : pageNames[blocks[n]] = 1
        /\ RunGoes(r, "unlinkRoot")
        /\ UNCHANGED <<holder, store, spool, pageNames>> /\ BoundsUnchanged
    BY <1>1, <1>3, <1>5 DEF Publish
  <2>2. Sound(me, spool, store, SteadySoFar, AloneSoFar) /\ spool \in Spools /\ store \in Stores
        /\ SteadySoFar \in BOOLEAN /\ AloneSoFar \in BOOLEAN
    BY <1>1, SoundNow
  <2>3. /\ me.writer => spool.seal = "sealed"
        /\ SteadySoFar \/ AloneSoFar => blocks = Accepted(Baseline)
    BY <1>2, <1>3, <2>2 DEF Sound, Sealing, Covered
  <2>4. PICK n : n = [me EXCEPT !.pc = "unlinkRoot"]
    OBVIOUS
  <2>5. n \in Runs /\ SameBut(n, me) /\ n.next = me.next /\ n.pc = "unlinkRoot" /\ n.writer = me.writer
    <3>1. "unlinkRoot" \in Steps
      BY DEF Steps
    <3> QED BY <2>4, <3>1, Moved DEF SameBut
  <2>6. runner' = [runner EXCEPT ![r] = n]
    BY <1>1, <2>1, <2>4 DEF RunGoes
  <2>7. Sound(n, spool, store, SteadySoFar, AloneSoFar)
    <3>1. me.pc \in AfterRename /\ n.pc \in AfterRename
      BY <1>2, <2>5 DEF AfterRename
    <3> QED BY <2>2, <2>3, <2>5, <3>1, LaterIsSound
  <2>8. UNCHANGED <<store, spool, pageNames, groups, stops, drifts, displacements>>
    BY <2>1 DEF BoundsUnchanged
  <2>9. FilesAreSound'
    <3>1. root'.names = 2 /\ root'.blocks = blocks
      BY <2>1
    <3>2. spool.seal = "sealed" \/ blocks = <<>>
      BY <1>3, <2>3
    <3>3. \A i \in DOMAIN blocks : pageNames[blocks[i]] > 0
      BY <2>1
    <3>4. RootIsBacked'
      BY <2>3, <2>8, <3>1, <3>2, <3>3 DEF RootIsBacked, SteadySoFar, AloneSoFar
    <3>5. CatalogStays' /\ FilesAgree'
      BY <2>8 DEF TraversalInv, FilesAreSound, CatalogStays, FilesAgree, SteadySoFar, AloneSoFar
    <3> QED BY <3>4, <3>5 DEF FilesAreSound
  <2>10. /\ root' \in [names : 0..2, blocks : Seq(Blocks)] /\ spool' \in Spools /\ store' \in Stores
         /\ pageNames' \in [Blocks -> 0..2]
    BY <2>1, <2>8 DEF TraversalInv, FilesTyped
  <2>11. /\ Sound(n, spool', store', SteadySoFar, AloneSoFar)
         /\ \A q \in Runners \ {r} : Sound(runner[q], spool', store', SteadySoFar, AloneSoFar)
    BY <2>7, <2>8 DEF TraversalInv, RunsAreSound
  <2> QED BY <1>2, <2>1, <2>5, <2>6, <2>9, <2>10, <2>11, RunMoves
<1> QED BY <1>4, <1>5

\* A run that removes the temporary name of the root has linked it.
RootIsThere == \A r \in Runners : runner[r].pc = "unlinkRoot" => root.names > 0

\* The temporary name of the root is removed.
LEMMA UnlinkRootSound ==
  ASSUME TraversalInv, RootIsThere, NEW r \in Runners, UnlinkRoot(r)
  PROVE  TraversalInv'
<1>1. runner[r].pc # "idle" /\ root.names > 0
  BY DEF UnlinkRoot, RunAt, RootIsThere
<1>2. /\ UNCHANGED <<store, spool, pageNames, groups, stops, drifts, displacements>>
      /\ root' \in [names : 0..2, blocks : Seq(Blocks)] /\ root'.blocks = root.blocks
      /\ RunEnds(r) /\ BoundsUnchanged
  BY DEF UnlinkRoot, BoundsUnchanged, TraversalInv, FilesTyped
<1>3. FilesAreSound'
  BY <1>1, <1>2 DEF TraversalInv, FilesAreSound, RootIsBacked, CatalogStays, FilesAgree, SteadySoFar, AloneSoFar
<1>4. FilesTyped'
  <2>1. runner' = [runner EXCEPT ![r] = NoRun]
    BY <1>2 DEF RunEnds
  <2> QED BY <1>2, <2>1, NoRunType DEF TraversalInv, FilesTyped
<1>5. \A q \in Runners \ {r} : Sound(runner[q], spool', store', SteadySoFar, AloneSoFar)
  BY <1>2 DEF TraversalInv, RunsAreSound
<1> QED BY <1>1, <1>2, <1>3, <1>4, <1>5, RunOver

\* Only a run that links the root gets there.
LEMMA RootStaysThere ==
  ASSUME TraversalInv, RootIsThere, TraversalNext
  PROVE  RootIsThere'
<1> SUFFICES ASSUME NEW q \in Runners, runner'[q].pc = "unlinkRoot"
             PROVE  root'.names > 0
  BY DEF RootIsThere
<1> USE DEF RootIsThere, RunAt
<1>1. \A p \in Runners : runner[p] \in Runs
  BY SoundNow
<1>2. runner \in [Runners -> Runs]
  BY DEF TraversalInv, FilesTyped
<1>3. ASSUME UNCHANGED root, runner'[q].pc = runner[q].pc PROVE root'.names > 0
  BY <1>3
<1>4. ASSUME NEW r \in Runners, RunEnds(r) PROVE runner'[q].pc = runner[q].pc /\ q # r
  BY <1>2, <1>4, NoRunFields DEF RunEnds
<1>5. ASSUME NEW r \in Runners, RunFails(r) PROVE root'.names > 0
  BY <1>3, <1>4, <1>5 DEF RunFails, traversalFiles
<1>6. ASSUME NEW r \in Runners, NEW step, RunGoes(r, step), step # "unlinkRoot"
      PROVE  runner'[q].pc = runner[q].pc
  BY <1>1, <1>2, <1>6 DEF RunGoes, Runs
<1>7. ASSUME OnlyRun PROVE UNCHANGED root
  BY <1>7 DEF OnlyRun, traversalFiles
<1>8. ASSUME NEW r \in Runners, NEW n, runner' = [runner EXCEPT ![r] = n],
             n.pc = "unlinkRoot" => runner[r].pc = "unlinkRoot"
      PROVE  runner'[q].pc = runner[q].pc
  <2>1. CASE q = r
    BY <1>2, <1>8, <2>1
  <2>2. CASE q # r
    BY <1>2, <1>8, <2>2
  <2> QED BY <2>1, <2>2
<1> DEFINE Elsewhere(r) == \E n : runner' = [runner EXCEPT ![r] = n] /\ n.pc # "unlinkRoot"
<1>24. ASSUME NEW r \in Runners, Elsewhere(r), UNCHANGED root PROVE root'.names > 0
  BY <1>3, <1>8, <1>24
<1>25. ASSUME NEW r \in Runners, NEW n, runner' = [runner EXCEPT ![r] = n], n.pc # "unlinkRoot"
       PROVE  Elsewhere(r)
  BY <1>25
<1> HIDE DEF Elsewhere
<1>9. ASSUME NEW r \in Runners, StartRun(r) \/ Displace(r) PROVE root'.names > 0
  BY <1>3, <1>6, <1>9 DEF StartRun, Displace, traversalFiles
<1>10. ASSUME NEW r \in Runners, StopRun(r) PROVE root'.names > 0
  <2>1. runner' = [runner EXCEPT ![r] = NoRun] /\ UNCHANGED root
    BY <1>10 DEF StopRun, traversalFiles
  <2> QED BY <1>3, <1>8, <2>1, NoRunFields
<1>11. ASSUME Drift PROVE root'.names > 0
  BY <1>3, <1>11 DEF Drift, traversalFiles
<1>12. ASSUME NEW r \in Runners, LoadStore(r) PROVE root'.names > 0
  <2>1. runner'[q].pc = runner[q].pc
    BY <1>1, <1>12 DEF LoadStore, Runs
  <2> QED BY <1>3, <1>7, <1>12, <2>1 DEF LoadStore
<1>13. ASSUME NEW r \in Runners,
              \/ Attest(r, "attest", "scan") \/ Attest(r, "attestPost", "seal")
              \/ Attest(r, "attestSeal", "publish")
       PROVE  root'.names > 0
  BY <1>3, <1>5, <1>6, <1>7, <1>13 DEF Attest
<1>14. ASSUME NEW r \in Runners, TakeGroup(r) PROVE root'.names > 0
  <2>1. CASE RunFails(r)
    BY <1>5, <2>1
  <2>2. CASE ~RunFails(r)
    <3>1. PICK me \in Runs : me = runner[r]
      BY <1>1
    <3>2. PICK read : RereadGroup(r, read) \/ \E g : NewGroup(r, read, g)
      BY <1>14, <2>2 DEF TakeGroup
    <3>3. OnlyRun /\ me.pc = "scan"
      BY <1>14, <2>2, <3>1, <3>2 DEF TakeGroup, RereadGroup, NewGroup
    <3>4. Elsewhere(r)
      <4>1. CASE RereadGroup(r, read)
        <5>1. CASE runner' = [runner EXCEPT ![r].seen = read]
          <6>1. runner' = [runner EXCEPT ![r] = [me EXCEPT !.seen = read]]
            BY <3>1, <5>1
          <6>2. [me EXCEPT !.seen = read].pc = "scan"
            BY <3>3 DEF Runs
          <6> QED BY <6>1, <6>2, <1>25
        <5>2. CASE runner' = [runner EXCEPT ![r] = [me EXCEPT !.seen = read]]
          <6>1. PICK n : n = [me EXCEPT !.seen = read]
            OBVIOUS
          <6>2. n.pc = "scan"
            BY <3>3, <6>1 DEF Runs
          <6> QED BY <5>2, <6>1, <6>2, <1>25
        <5>3. CASE runner' = [runner EXCEPT ![r] =
                   [me EXCEPT !.seen = read, !.writer = TRUE,
                               !.sealed = (spool.seal = "sealed"),
                               !.orphan = (Ahead(r) = 1)]]
          <6>1. PICK n : n = [me EXCEPT !.seen = read, !.writer = TRUE,
                               !.sealed = (spool.seal = "sealed"),
                               !.orphan = (Ahead(r) = 1)]
            OBVIOUS
          <6>2. n.pc = "scan"
            BY <3>3, <6>1 DEF Runs
          <6> QED BY <5>3, <6>1, <6>2, <1>25
        <5> QED BY <2>2, <3>1, <4>1, <5>1, <5>2, <5>3 DEF RereadGroup
      <4>2. CASE \E g : NewGroup(r, read, g)
        <5>1. PICK g : NewGroup(r, read, g)
          BY <4>2
        <5>2. CASE g = Excluded
          <6>1. PICK step \in {"flush", "scan"} :
                  runner' = [runner EXCEPT ![r] =
                    [me EXCEPT !.seen = read, !.batch = Append(me.batch, g), !.group = Excluded,
                               !.then = "scan", !.pc = step]]
            BY <2>2, <3>1, <5>1, <5>2 DEF NewGroup
          <6>2. PICK n : n = [me EXCEPT !.seen = read, !.batch = Append(me.batch, g), !.group = Excluded,
                               !.then = "scan", !.pc = step]
            OBVIOUS
          <6>3. n.pc = step
            BY <6>2 DEF Runs
          <6> QED BY <6>1, <6>2, <6>3, <1>25
        <5>3. CASE g # Excluded
          <6>1. PICK step \in {"accept", "flush"} :
                  runner' = [runner EXCEPT ![r] = [me EXCEPT !.seen = read, !.group = g, !.pc = step]]
            BY <2>2, <3>1, <5>1, <5>3 DEF NewGroup, AcceptGroup
          <6>2. PICK n : n = [me EXCEPT !.seen = read, !.group = g, !.pc = step]
            OBVIOUS
          <6>3. n.pc = step
            BY <6>2 DEF Runs
          <6> QED BY <6>1, <6>2, <6>3, <1>25
        <5> QED BY <5>2, <5>3
      <4> QED BY <3>2, <4>1, <4>2
    <3> QED BY <1>7, <1>24, <3>3, <3>4
  <2> QED BY <2>1, <2>2
<1>15. ASSUME NEW r \in Runners, EndOfCatalog(r) PROVE root'.names > 0
  <2>1. CASE RunFails(r)
    BY <1>5, <2>1
  <2>2. CASE ~RunFails(r)
    <3>1. PICK me \in Runs : me = runner[r]
      BY <1>1
    <3>2. PICK step \in {"complete", "flush"} :
            /\ runner' = [runner EXCEPT ![r] = [me EXCEPT !.then = "complete", !.pc = step]]
            /\ OnlyRun
      BY <1>15, <2>2, <3>1 DEF EndOfCatalog
    <3>3. PICK n : n = [me EXCEPT !.then = "complete", !.pc = step]
      OBVIOUS
    <3>4. n.pc = step
      BY <3>3 DEF Runs
    <3> QED BY <1>7, <1>24, <1>25, <3>2, <3>3, <3>4
  <2> QED BY <2>1, <2>2
<1>16. ASSUME NEW r \in Runners, Flush(r) \/ CommitGroup(r) PROVE root'.names > 0
  <2>1. PICK first, entries, following : RecordResults(r, first, entries, following)
    BY <1>16 DEF Flush, CommitGroup
  <2>2. Outcome(r, first, entries, following)
    BY <2>1, RecordCases
  <2>3. CASE RunFails(r)
    BY <1>5, <2>3
  <2>4. CASE RunGoes(r, "scan") /\ OnlyRun
    BY <1>3, <1>6, <1>7, <2>4
  <2>5. CASE /\ ~RunFails(r) /\ ~(RunGoes(r, "scan") /\ OnlyRun)
    <3>1. PICK me \in Runs : me = runner[r]
      BY <1>1
    <3>2. /\ runner' = [runner EXCEPT ![r] =
              [me EXCEPT !.pc = "rename", !.then = following, !.batch = <<>>,
                 !.next = {[results |-> store.results \o entries, complete |-> FALSE]}]]
          /\ OnlyRun
      BY <2>2, <2>5, <3>1 DEF Outcome
    <3>3. PICK n : n = [me EXCEPT !.pc = "rename", !.then = following, !.batch = <<>>,
                 !.next = {[results |-> store.results \o entries, complete |-> FALSE]}]
      OBVIOUS
    <3>4. n.pc = "rename"
      BY <3>3 DEF Runs
    <3> QED BY <1>7, <1>24, <1>25, <3>2, <3>3, <3>4
  <2> QED BY <2>3, <2>4, <2>5
<1>17. ASSUME NEW r \in Runners, RenameStore(r) PROVE root'.names > 0
  <2>1. CASE RunFails(r)
    BY <1>5, <2>1
  <2>2. CASE ~RunFails(r)
    <3>1. PICK me \in Runs : me = runner[r]
      BY <1>1
    <3>2. PICK step \in {"idle", "scan", "accept", "committed", "complete", "attestPost"} :
            /\ runner' = [runner EXCEPT ![r] = [me EXCEPT !.next = {}, !.pc = step]]
            /\ UNCHANGED root
      BY <1>17, <2>2, <3>1 DEF RenameStore, Runs
    <3>3. PICK n : n = [me EXCEPT !.next = {}, !.pc = step]
      OBVIOUS
    <3>4. n.pc = step
      BY <3>3 DEF Runs
    <3> QED BY <1>24, <1>25, <3>2, <3>3, <3>4
  <2> QED BY <2>1, <2>2
<1>18. ASSUME NEW r \in Runners, AcceptBlock(r) PROVE root'.names > 0
  <2>1. CASE RunEnds(r)
    <3>1. UNCHANGED root
      BY <1>18 DEF AcceptBlock
    <3> QED BY <1>3, <1>4, <2>1, <3>1
  <2>2. CASE ~RunEnds(r)
    <3>1. PICK me \in Runs : me = runner[r]
      BY <1>1
    <3>2. /\ UNCHANGED root
          /\ runner' = [runner EXCEPT ![r] =
                  [me EXCEPT !.writer = TRUE, !.orphan = FALSE, !.pc = "commit"]]
      BY <1>18, <2>2, <3>1 DEF AcceptBlock
    <3>3. PICK n : n = [me EXCEPT !.writer = TRUE, !.orphan = FALSE, !.pc = "commit"]
      OBVIOUS
    <3>4. n.pc = "commit"
      BY <3>3 DEF Runs
    <3> QED BY <1>24, <1>25, <3>2, <3>3, <3>4
  <2> QED BY <2>1, <2>2
<1>19. ASSUME NEW r \in Runners, CompleteStore(r) PROVE root'.names > 0
  <2>1. CASE RunFails(r)
    BY <1>5, <2>1
  <2>2. CASE ~RunFails(r)
    <3>1. PICK me \in Runs : me = runner[r]
      BY <1>1
    <3>2. /\ OnlyRun
          /\ \/ runner' = [runner EXCEPT ![r] =
                   [me EXCEPT !.pc = "attestPost", !.persisted = store.results]]
             \/ runner' = [runner EXCEPT ![r] =
                   [me EXCEPT !.pc = "rename", !.then = "attestPost",
                             !.persisted = store.results,
                             !.next = {[store EXCEPT !.complete = TRUE]}]]
      BY <1>19, <2>2, <3>1 DEF CompleteStore
    <3>3. Elsewhere(r)
      <4>1. PICK a, b :
              /\ a = [me EXCEPT !.pc = "attestPost", !.persisted = store.results]
              /\ b = [me EXCEPT !.pc = "rename", !.then = "attestPost",
                             !.persisted = store.results,
                             !.next = {[store EXCEPT !.complete = TRUE]}]
        OBVIOUS
      <4>2. a.pc = "attestPost" /\ b.pc = "rename"
        BY <4>1 DEF Runs
      <4> QED BY <1>25, <3>2, <4>1, <4>2
    <3> QED BY <1>7, <1>24, <3>2, <3>3
  <2> QED BY <2>1, <2>2
<1>20. ASSUME NEW r \in Runners, SealIntent(r) \/ FinishSeal(r) PROVE root'.names > 0
  <2>1. RunFails(r) \/ (UNCHANGED root /\ (RunGoes(r, "attestSeal") \/ RunGoes(r, "link")))
    BY <1>7, <1>20 DEF SealIntent, FinishSeal
  <2> QED BY <1>3, <1>5, <1>6, <2>1
<1>21. ASSUME NEW r \in Runners, LinkPage(r) \/ UnlinkPage(r) PROVE root'.names > 0
  <2>1. PICK me \in Runs : me = runner[r]
    BY <1>1
  <2>2. me.pc \in {"link", "unlink"}
    BY <1>21, <2>1 DEF LinkPage, UnlinkPage
  <2>3. CASE RunFails(r)
    BY <1>5, <2>3
  <2>4. CASE UNCHANGED root /\ RunGoes(r, "unlink")
    BY <1>3, <1>6, <2>4
  <2>5. CASE UNCHANGED root /\ runner' = [runner EXCEPT ![r].page = @ + 1]
    BY <1>1, <1>2, <1>3, <2>5 DEF Runs
  <2>6. CASE UNCHANGED root /\ runner' = [runner EXCEPT ![r].pc = "link", ![r].page = @ + 1]
    <3>1. runner' = [runner EXCEPT ![r] = [me EXCEPT !.pc = "link", !.page = @ + 1]]
      BY <2>1, <2>6
    <3>2. PICK n : n = [me EXCEPT !.pc = "link", !.page = @ + 1]
      OBVIOUS
    <3>3. n.pc = "link"
      BY <3>2 DEF Runs
    <3> QED BY <1>24, <1>25, <2>6, <3>1, <3>2, <3>3
  <2>7. PageBlock(r) \in Blocks /\ LinkPage(r) => pageNames[PageBlock(r)] \in 0..2
    BY DEF TraversalInv, FilesTyped
  <2>8. LinkPage(r) => PageBlock(r) \in Blocks
    <3>1. LinkPage(r) => me.page \in 1..Len(spool.blocks)
      BY <2>1, SoundNow DEF LinkPage, HasPage, Runs
    <3> QED BY <2>1, <3>1, SoundNow DEF PageBlock
  <2>9. LinkPage(r) =>
          \/ RunFails(r) \/ (RunGoes(r, "unlink") /\ UNCHANGED root)
          \/ OnlyRun /\ runner' = [runner EXCEPT ![r].page = @ + 1]
    <3> SUFFICES ASSUME LinkPage(r)
                 PROVE  \/ RunFails(r) \/ (RunGoes(r, "unlink") /\ UNCHANGED root)
                        \/ OnlyRun /\ runner' = [runner EXCEPT ![r].page = @ + 1]
      OBVIOUS
    <3>1. PICK k \in 0..2 : k = pageNames[PageBlock(r)]
      BY <2>7, <2>8
    <3>2. CASE k = 0
      BY <3>1, <3>2 DEF LinkPage
    <3>3. CASE k = 1
      BY <3>1, <3>3 DEF LinkPage
    <3>4. CASE k = 2
      <4>1. RunFails(r)
        BY <3>1, <3>4 DEF LinkPage
      <4> QED BY <4>1
    <3> QED BY <3>2, <3>3, <3>4
  <2>10. UnlinkPage(r) => UNCHANGED root /\ runner' = [runner EXCEPT ![r].pc = "link", ![r].page = @ + 1]
    BY DEF UnlinkPage
  <2> QED BY <1>7, <1>21, <2>3, <2>4, <2>5, <2>6, <2>9, <2>10
<1>22. ASSUME NEW r \in Runners, Publish(r) PROVE root'.names > 0
  <2>1. RunFails(r) \/ \E blocks : root' = [names |-> 2, blocks |-> blocks]
    BY <1>22 DEF Publish
  <2> QED BY <1>5, <2>1
<1>23. ASSUME NEW r \in Runners, UnlinkRoot(r) PROVE root'.names > 0
  <2>1. root \in [names : 0..2, blocks : Seq(Blocks)]
    BY DEF TraversalInv, FilesTyped
  <2> QED BY <1>23, <2>1 DEF UnlinkRoot
<1> QED BY <1>9, <1>10, <1>11, <1>12, <1>13, <1>14, <1>15, <1>16, <1>17, <1>18, <1>19, <1>20,
           <1>21, <1>22, <1>23 DEF TraversalNext, RunStep

(***************************************************************************)
(* Every step.                                                             *)
(***************************************************************************)

LEMMA RunStepSound ==
  ASSUME TraversalInv, RootIsThere, NEW r \in Runners, RunStep(r)
  PROVE  TraversalInv'
BY LoadSound, AttestSound, TakeGroupSound, EndOfCatalogSound, FlushSound, RenameSound,
   AcceptBlockSound, CommitSound, CompleteSound, SealIntentSound, LinkPageSound,
   UnlinkPageSound, FinishSealSound, PublishSound, UnlinkRootSound DEF RunStep

\* Every step keeps the invariant.
LEMMA TraversalStep ==
  ASSUME TraversalInv, RootIsThere, [TraversalNext]_traversalVars
  PROVE  TraversalInv' /\ RootIsThere'
<1>1. CASE TraversalNext
  <2>1. RootIsThere'
    BY <1>1, RootStaysThere
  <2>2. TraversalInv'
    BY <1>1, StartSound, DisplaceSound, StopSound, DriftSound, RunStepSound DEF TraversalNext
  <2> QED BY <2>1, <2>2
<1>2. CASE UNCHANGED traversalVars
  <2>1. UNCHANGED <<groups, holder, store, spool, pageNames, root, runner, stops, drifts, displacements>>
    BY <1>2 DEF traversalVars, traversalFiles
  <2>2. FilesTyped' /\ OneAtWork' /\ RootIsThere'
    BY <2>1 DEF TraversalInv, FilesTyped, OneAtWork, AloneSoFar, RootIsThere
  <2>3. RunsAreSound'
    BY <2>1 DEF TraversalInv, RunsAreSound, SteadySoFar, AloneSoFar
  <2>4. FilesAreSound'
    BY <2>1 DEF TraversalInv, FilesAreSound, RootIsBacked, CatalogStays, FilesAgree, SteadySoFar, AloneSoFar
  <2> QED BY <2>2, <2>3, <2>4 DEF TraversalInv
<1> QED BY <1>1, <1>2

\* The invariant is what the properties say.
LEMMA SoundIsFaithful == TraversalInv => TraversalIsFaithful
<1> SUFFICES ASSUME TraversalInv PROVE TraversalIsFaithful
  OBVIOUS
<1>1. PublishedIsCovered
  BY DEF TraversalInv, FilesAreSound, RootIsBacked, PublishedIsCovered, SteadySoFar, AloneSoFar
<1>2. ASSUME drifts = 0, displacements = 0
      PROVE  LET n == Len(store.results)
                 blocks == Accepted(store.results)
             IN /\ n <= Len(Baseline) /\ store.results = SubSeq(Baseline, 1, n)
                /\ \/ spool.blocks = blocks
                   \/ n < Len(Baseline) /\ spool.blocks = Append(blocks, Baseline[n + 1])
                /\ spool.seal # "none" => store.complete
                /\ root.names > 0 => spool.seal = "sealed" \/ blocks = <<>>
  <2>1. SteadySoFar /\ AloneSoFar
    BY <1>2 DEF SteadySoFar, AloneSoFar
  <2>2. PICK s \in Seq(Groups) : s = store.results
    BY DEF TraversalInv, FilesTyped, Stores
  <2>3. /\ Begins(s, Baseline) /\ Exact(store, spool)
        /\ spool.seal # "none" => store.complete
        /\ root.names > 0 => (spool.seal = "sealed" \/ Accepted(Baseline) = <<>>)
    BY <2>1, <2>2 DEF TraversalInv, FilesAreSound, CatalogStays, FilesAgree, RootIsBacked
  <2>4. PICK n \in Nat : n = Len(s) /\ n <= Len(Baseline)
    BY <2>3 DEF Begins
  <2>5. s = SubSeq(Baseline, 1, n)
    <3>1. PICK t \in Seq(Groups) : t = SubSeq(Baseline, 1, n) /\ Len(t) = n /\ \A i \in 1..n : t[i] = Baseline[i]
      <4>1. n \in 0..Len(Baseline)
        BY <2>4, BaselineType
      <4>2. /\ SubSeq(Baseline, 1, n) \in Seq(Groups) /\ Len(SubSeq(Baseline, 1, n)) = n
            /\ \A i \in 1..n : SubSeq(Baseline, 1, n)[i] = Baseline[i]
        BY <4>1, BaselineType
      <4> QED BY <4>2
    <3>2. \A i \in 1..Len(s) : s[i] = t[i]
      BY <2>3, <2>4, <3>1 DEF Begins
    <3>3. s = t
      BY <2>4, <3>1, <3>2, SeqEqual
    <3> QED BY <3>1, <3>3
  <2>6. Accepted(Baseline) = <<>> => Accepted(s) = <<>>
    <3>1. PICK a \in Seq(Blocks) : a = Accepted(s)
      BY AcceptedType
    <3>2. Begins(a, Accepted(Baseline))
      BY <2>3, <3>1, BaselineType, AcceptedBegins
    <3>3. Begins(a, <<>>) => a = <<>>
      BY DEF Begins
    <3> QED BY <3>1, <3>2, <3>3
  <2>7. /\ \/ spool.blocks = Accepted(s)
           \/ n < Len(Baseline) /\ spool.blocks = Append(Accepted(s), Baseline[n + 1])
    BY <2>2, <2>3, <2>4 DEF Exact
  <2> QED BY <2>2, <2>3, <2>4, <2>5, <2>6, <2>7
<1> QED BY <1>1, <1>2 DEF TraversalIsFaithful, InterruptedRunResumes

\* Whatever runs of the traversal operator do, die at, or lose their lease at, and
\* however the catalog changes: what is published is the attested catalog with all
\* its pages (unless the catalog changed and a lease was lost), and the files of a
\* run that stopped anywhere are such that the next one takes them up (m4-cross-
\* phase-identity-traversal-store.mjs, -streaming-writer.mjs, -operator.mjs).
THEOREM TraversalStaysFaithful == TraversalSpec => []TraversalIsFaithful
<1>1. TraversalInit => TraversalInv /\ RootIsThere
  <2>1. ASSUME TraversalInit PROVE RootIsThere
    BY <2>1, NoRunFields DEF TraversalInit, RootIsThere
  <2> QED BY <2>1, InitSound
<1>2. TraversalInv /\ RootIsThere /\ [TraversalNext]_traversalVars => (TraversalInv /\ RootIsThere)'
  BY TraversalStep
<1>3. TraversalInv /\ RootIsThere => TraversalIsFaithful
  BY SoundIsFaithful
<1> QED BY <1>1, <1>2, <1>3, PTL DEF TraversalSpec
=============================================================================
