------------------------- MODULE ConversationArchive -------------------------
(***************************************************************************)
(* The conversation archive (src/conversation-archive-v1.mjs): its four    *)
(* tables and the operations of the SQLite adapter, each one transaction.  *)
(* The PostgreSQL adapter (PostgresArchive) is shown to implement this     *)
(* module; ConversationListing adds the paged reads.                       *)
(*                                                                         *)
(* A payload is a validated conversation event: its event id, what its     *)
(* state makes of it, the events it refers to and when it expires.  Two    *)
(* payloads with one id stand for two payload digests of that event.       *)
(***************************************************************************)
EXTENDS Naturals, FiniteSets

CONSTANTS
  Payloads,     \* records [id, kind, refs, conversation, expires, rank, digest]
  Keys,         \* idempotency keys
  KeysFor,      \* the keys callers use for an event id
  Cutoffs,      \* cutoffs retention is called with
  Limits,       \* batch limits retention is called with
  None          \* no row

Ids == {p.id : p \in Payloads}
Kinds == {"active", "edited", "tombstone", "conflict"}

ASSUME ArchiveAssumption ==
  /\ \A p \in Payloads : p.kind \in Kinds /\ p.refs \subseteq Ids \ {p.id}
                         /\ p.expires \in Nat /\ p.rank \in Nat
  /\ KeysFor \in [Ids -> SUBSET Keys]
  /\ Cutoffs \subseteq Nat
  /\ Limits \subseteq Nat \ {0}
  /\ None \notin Payloads

VARIABLES
  events,       \* events_v1: the payload stored for each event id, or None
  requests,     \* requests_v1: the row of each idempotency key, or None
  conflicts,    \* conflicts_v1: payloads received for an id already taken
  expired,      \* ids whose row has expired = 1
  audit         \* audit_v1: actions recorded with the id they concern

tables == <<events, requests, conflicts, expired, audit>>

\* The operation a payload is written with: tombstone takes tombstones only.
Operation(p) == IF p.kind = "tombstone" THEN "tombstone" ELSE "append"

WriteRow(p, outcome) == [op |-> Operation(p), payload |-> p, outcome |-> outcome]
RetentionRow(cutoff, limit) == [op |-> "apply_retention", cutoff |-> cutoff,
                                limit |-> limit]
Rows == {WriteRow(p, o) : p \in Payloads, o \in {"stored", "conflict_visible"}}
          \cup {RetentionRow(c, l) : c \in Cutoffs, l \in Limits}

ArchiveTypeOK ==
  /\ events \in [Ids -> Payloads \cup {None}]
  /\ \A i \in Ids : events[i] # None => events[i].id = i
  /\ requests \in [Keys -> Rows \cup {None}]
  /\ conflicts \subseteq Payloads
  /\ expired \subseteq {i \in Ids : events[i] # None}
  /\ audit \subseteq {"append", "tombstone", "apply_retention"} \X (Ids \cup {None})

ArchiveInit ==
  /\ events = [i \in Ids |-> None]
  /\ requests = [k \in Keys |-> None]
  /\ conflicts = {}
  /\ expired = {}
  /\ audit = {}

(***************************************************************************)
(* append and tombstone                                                    *)
(***************************************************************************)

\* The request row was written for this operation, key, id and payload.
Replays(p, k) ==
  /\ requests[k] # None
  /\ requests[k].op = Operation(p)
  /\ requests[k].payload = p

\* Every event referred to is stored, in the same conversation and source.
ReferencesAreLocal(p) ==
  \A i \in p.refs : events[i] # None /\ events[i].conversation = p.conversation

\* Mutant: an event may refer to events the archive has not seen.
OutcomeIgnoringReferences(p, k) ==
  CASE Replays(p, k)                                        -> "duplicate"
    [] ~Replays(p, k) /\ events[p.id] # None                -> "conflict_visible"
    [] ~Replays(p, k) /\ events[p.id] = None /\ requests[k] = None -> "stored"
    [] OTHER                                                -> "request_invalid"

\* What _write answers when the audit is available and the transaction succeeds.
Outcome(p, k) ==
  CASE Replays(p, k)                                 -> "duplicate"
    [] ~Replays(p, k) /\ events[p.id] # None         -> "conflict_visible"
    [] ~Replays(p, k) /\ events[p.id] = None
         /\ requests[k] = None /\ ReferencesAreLocal(p) -> "stored"
    [] OTHER                                         -> "request_invalid"

\* INSERT OR IGNORE into the requests.
KeepRequest(k, row) ==
  requests' = IF requests[k] = None THEN [requests EXCEPT ![k] = row] ELSE requests

Audited(p) == audit' = audit \cup {<<Operation(p), p.id>>}

Store(p, k) ==
  /\ Outcome(p, k) = "stored"
  /\ events' = [events EXCEPT ![p.id] = p]
  /\ requests' = [requests EXCEPT ![k] = WriteRow(p, "stored")]
  /\ Audited(p)
  /\ UNCHANGED <<conflicts, expired>>

\* Mutant: the changed payload takes the place of the stored one.
RecordConflictUpserting(p, k) ==
  /\ Outcome(p, k) = "conflict_visible"
  /\ events' = [events EXCEPT ![p.id] = p]
  /\ conflicts' = conflicts \cup {p}
  /\ KeepRequest(k, WriteRow(p, "conflict_visible"))
  /\ Audited(p)
  /\ UNCHANGED expired

\* _recordConflict
RecordConflict(p, k) ==
  /\ Outcome(p, k) = "conflict_visible"
  /\ conflicts' = conflicts \cup {p}
  /\ KeepRequest(k, WriteRow(p, "conflict_visible"))
  /\ Audited(p)
  /\ UNCHANGED <<events, expired>>

\* An exact retry appends an audit row and nothing else.
Replay(p, k) ==
  /\ Outcome(p, k) = "duplicate"
  /\ Audited(p)
  /\ UNCHANGED <<events, requests, conflicts, expired>>

(***************************************************************************)
(* applyRetention                                                          *)
(***************************************************************************)

Eligible(cutoff) ==
  {i \in Ids \ expired : /\ events[i] # None
                         /\ events[i].expires <= cutoff
                         /\ events[i].kind # "conflict"
                         /\ \A p \in conflicts : p.id # i}

\* The oldest rows of a set, at most limit of them.
Batches(ids, limit) ==
  {b \in SUBSET ids :
     /\ Cardinality(b) = IF Cardinality(ids) < limit THEN Cardinality(ids) ELSE limit
     /\ \A i \in b, j \in ids \ b : events[i].expires <= events[j].expires}

Expire(k, cutoff, limit) ==
  /\ requests[k] = None
  /\ \E batch \in Batches(Eligible(cutoff), limit) : expired' = expired \cup batch
  /\ requests' = [requests EXCEPT ![k] = RetentionRow(cutoff, limit)]
  /\ audit' = audit \cup {<<"apply_retention", None>>}
  /\ UNCHANGED <<events, conflicts>>

ReplayRetention(k, cutoff, limit) ==
  /\ requests[k] = RetentionRow(cutoff, limit)
  /\ audit' = audit \cup {<<"apply_retention", None>>}
  /\ UNCHANGED <<events, requests, conflicts, expired>>

\* Invalid requests, an unavailable audit and a failed transaction change
\* nothing: they are the stuttering steps of this module.
ArchiveNext ==
  \/ \E p \in Payloads : \E k \in KeysFor[p.id] :
       Store(p, k) \/ RecordConflict(p, k) \/ Replay(p, k)
  \/ \E k \in Keys, c \in Cutoffs, l \in Limits :
       Expire(k, c, l) \/ ReplayRetention(k, c, l)

ArchiveSpec == ArchiveInit /\ [][ArchiveNext]_tables

(***************************************************************************)
(* Properties                                                              *)
(***************************************************************************)

\* The payload first stored for an event id is its payload for ever: neither a
\* changed payload, nor a retry under another key, nor retention replaces it.
FirstPayloadWins ==
  [][\A i \in Ids : events[i] # None => events'[i] = events[i]]_tables

\* Retention spares what is in conflict (docs/threat-model-v3.md:20).
ConflictsAreNotExpired ==
  [][\A i \in expired' \ expired :
       events[i].kind # "conflict" /\ \A p \in conflicts : p.id # i]_tables

\* An event that refers to others never precedes them, and stays within their
\* conversation.
ReferencesStored ==
  \A i \in Ids : events[i] # None =>
    \A j \in events[i].refs :
      events[j] # None /\ events[j].conversation = events[i].conversation

\* Whatever the tables hold was audited in the same transaction.
EverythingAudited ==
  /\ \A i \in Ids : events[i] # None => <<Operation(events[i]), i>> \in audit
  /\ \A p \in conflicts : <<Operation(p), p.id>> \in audit
  /\ expired # {} => <<"apply_retention", None>> \in audit

=============================================================================
