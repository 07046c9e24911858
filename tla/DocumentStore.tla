--------------------------- MODULE DocumentStore ----------------------------
(***************************************************************************)
(* PostgresDocumentStore (src/document-store.mjs): revisions of documents  *)
(* and their heads.  A write is one transaction under two advisory locks,  *)
(* of the document and of the idempotency key, taken in sorted order.  Its *)
(* rows become visible at the COMMIT, which may be lost with its answer;   *)
(* the caller then sends the same request again.                           *)
(***************************************************************************)
EXTENDS Naturals, FiniteSets

CONSTANTS
  DocumentRequests,   \* validated requests
  Writers,            \* writes that may run at once
  MaxWrites,          \* bound: writes in one behaviour
  MaxWriteFailures,   \* bound: failed statements
  NoDocument

\* The key of a request binds vault, document, revision and content; path,
\* expected revision and tombstone are not part of it.
DocumentRequest == [doc : STRING, vault : STRING, path : STRING, revision : Nat \ {0},
                    content : STRING, expected : Nat, tombstone : BOOLEAN]

\* `expected` is 0 for null, which a deletion may not send (validateDocumentRequest).
ASSUME DocumentAssumption ==
  /\ DocumentRequests \subseteq DocumentRequest /\ NoDocument \notin DocumentRequests
  /\ \A r \in DocumentRequests : r.tombstone => r.expected > 0
  /\ {MaxWrites, MaxWriteFailures} \subseteq Nat

DocumentIds == {r.doc : r \in DocumentRequests}
DocumentKey(r) == <<r.vault, r.doc, r.revision, r.content>>

VARIABLES
  revisions,   \* document_revisions_v1: the requests that were stored
  heads,       \* document_heads_v1: the request of the head, or NoDocument
  write,       \* the write of each caller
  writeLocks,  \* advisory locks, and the live path its head row takes
  stored,      \* requests that were answered with success
  writes,      \* writes so far
  writeFailures

documentVars == <<revisions, heads, write, writeLocks, stored, writes, writeFailures>>

NoDocumentWrite == [at |-> "idle", request |-> NoDocument]

DocumentInit ==
  /\ revisions = {}
  /\ heads = [d \in DocumentIds |-> NoDocument]
  /\ write = [w \in Writers |-> NoDocumentWrite]
  /\ writeLocks = [w \in Writers |-> {}]
  /\ stored = {}
  /\ writes = 0 /\ writeFailures = 0

Sent(w) == write[w].request
WriteAt(w, step) == write[w].at = step
WriteStep(w, step) == write' = [write EXCEPT ![w].at = step]
IsLockedFor(w, lock) == \E v \in Writers \ {w} : lock \in writeLocks[v]
NoRowsWritten == UNCHANGED <<revisions, heads, writes, writeFailures>>

WriteEnds(w) ==
  /\ write' = [write EXCEPT ![w] = NoDocumentWrite]
  /\ writeLocks' = [writeLocks EXCEPT ![w] = {}]
Succeeds(w) == WriteEnds(w) /\ stored' = stored \cup {Sent(w)}
Fails(w) == WriteEnds(w) /\ UNCHANGED stored

StartWrite(w, r) ==
  /\ WriteAt(w, "idle") /\ writes < MaxWrites
  /\ writes' = writes + 1
  /\ write' = [write EXCEPT ![w] = [at |-> "document", request |-> r]]
  /\ UNCHANGED <<revisions, heads, writeLocks, stored, writeFailures>>

\* pg_advisory_xact_lock for `document:...`, then for `idempotency:...`.
LockDocument(w) ==
  LET lock == IF WriteAt(w, "document") THEN <<"document", Sent(w).doc>>
              ELSE <<"idempotency", DocumentKey(Sent(w))>>
  IN
  /\ write[w].at \in {"document", "idempotency"} /\ ~IsLockedFor(w, lock)
  /\ writeLocks' = [writeLocks EXCEPT ![w] = @ \cup {lock}]
  /\ WriteStep(w, IF WriteAt(w, "document") THEN "idempotency" ELSE "replay")
  /\ NoRowsWritten /\ UNCHANGED stored

\* The stored request of the key is the one that was sent (request_digest).
ReplayOf(w, r) == Sent(w)

ReplayDocument(w) ==
  LET rows == {r \in revisions : DocumentKey(r) = DocumentKey(Sent(w))} IN
  /\ WriteAt(w, "replay")
  /\ IF rows = {} THEN WriteStep(w, "transition") /\ UNCHANGED <<writeLocks, stored>>
     ELSE \E r \in rows : IF r = ReplayOf(w, r) THEN Succeeds(w) ELSE Fails(w)
  /\ NoRowsWritten

\* Mutant: only the head is compared, not the new revision.
MayFollowExpected(head, r) ==
  IF head = NoDocument THEN r.expected = 0 ELSE head.vault = r.vault /\ r.expected = head.revision

\* assertTransition
MayFollow(head, r) ==
  IF head = NoDocument THEN r.expected = 0 /\ r.revision = 1
  ELSE head.vault = r.vault /\ r.expected = head.revision /\ r.revision = head.revision + 1

Transition(w) ==
  /\ WriteAt(w, "transition")
  /\ IF MayFollow(heads[Sent(w).doc], Sent(w)) THEN WriteStep(w, "head") /\ UNCHANGED writeLocks
     ELSE WriteEnds(w)
  /\ NoRowsWritten /\ UNCHANGED stored

\* The rows of revision and head.  The unique index on live paths waits for an
\* open write that takes the path or leaves it, and refuses a taken one.
WriteHead(w) ==
  LET r == Sent(w)
      path == <<r.vault, r.path>>
      leaves == IF heads[r.doc] = NoDocument \/ heads[r.doc].tombstone THEN {}
                ELSE {<<heads[r.doc].vault, heads[r.doc].path>>}
      takes == IF r.tombstone THEN {} ELSE {path}
      taken == \E d \in DocumentIds \ {r.doc} :
                 heads[d] # NoDocument /\ ~heads[d].tombstone /\ <<heads[d].vault, heads[d].path>> = path
  IN
  /\ WriteAt(w, "head")
  /\ r.tombstone \/ ~IsLockedFor(w, <<"path", path>>)
  /\ IF ~r.tombstone /\ taken THEN WriteEnds(w)
     ELSE /\ writeLocks' = [writeLocks EXCEPT ![w] = @ \cup {<<"path", x>> : x \in leaves \cup takes}]
          /\ WriteStep(w, "commit")
  /\ NoRowsWritten /\ UNCHANGED stored

RowsWritten(w) ==
  /\ revisions' = revisions \cup {Sent(w)}
  /\ heads' = [heads EXCEPT ![Sent(w).doc] = Sent(w)]

CommitWrite(w) ==
  /\ WriteAt(w, "commit") /\ RowsWritten(w) /\ Succeeds(w)
  /\ UNCHANGED <<writes, writeFailures>>

\* COMMIT fails with or without effect; nothing looks the outcome up.
CommitWriteFails(w) ==
  /\ WriteAt(w, "commit") /\ writeFailures < MaxWriteFailures
  /\ writeFailures' = writeFailures + 1
  /\ RowsWritten(w) \/ UNCHANGED <<revisions, heads>>
  /\ Fails(w)
  /\ UNCHANGED writes

WriteStatementFails(w) ==
  /\ write[w].at \notin {"idle", "commit"} /\ writeFailures < MaxWriteFailures
  /\ writeFailures' = writeFailures + 1
  /\ Fails(w)
  /\ UNCHANGED <<revisions, heads, writes>>

DocumentNext ==
  \E w \in Writers :
    \/ \E r \in DocumentRequests : StartWrite(w, r)
    \/ LockDocument(w) \/ ReplayDocument(w) \/ Transition(w) \/ WriteHead(w)
    \/ CommitWrite(w) \/ CommitWriteFails(w) \/ WriteStatementFails(w)

DocumentSpec == DocumentInit /\ [][DocumentNext]_documentVars

(***************************************************************************)
(* Properties                                                              *)
(***************************************************************************)

\* The revisions of a document are 1, 2, ... once each, its head is the last
\* one, and all of them are of one vault, whatever was retried or raced; and what
\* a caller was told is stored is among them as sent: a retry under a key that was
\* used for another path or state is never its duplicate.
DocumentHistory ==
  /\ \A d \in DocumentIds :
       LET history == {r \in revisions : r.doc = d}
           last == IF heads[d] = NoDocument THEN 0 ELSE heads[d].revision
       IN
       /\ Cardinality(history) = last /\ {r.revision : r \in history} = 1..last
       /\ heads[d] # NoDocument => heads[d] \in history
       /\ Cardinality({r.vault : r \in history}) <= 1
  /\ stored \subseteq revisions

=============================================================================
