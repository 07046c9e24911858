-------------------------- MODULE MCFabric -------------------------------
(***************************************************************************)
(* The stores of the fabric on small instances.  They share a database but *)
(* no row, so one behaviour exercises one of them: the run's states are the*)
(* sum of theirs.                                                          *)
(***************************************************************************)
EXTENDS FabricProposals, RawCatalog, DocumentStore, ConversationListing,
        MCConversationArchive

(***************************************************************************)
(* Raw events: one message observed and observed again with another        *)
(* payload; its deletion, derived under a rotated key; an edit; an event of*)
(* version 1 under another binding, and its altered retry.                 *)
(***************************************************************************)
Note(event, ids, payload, deletion) ==
  [event |-> event, version |-> 2, session |-> "s1", binding |-> "b1", ids |-> ids,
   payload |-> payload, deletion |-> deletion, rank |-> 1]

Said == Note("e1", <<"m1">>, "p1", FALSE)
Altered == [Said EXCEPT !.payload = "p2"]
Deleted == [Note("e2", <<"m2", "m1">>, "p3", TRUE) EXCEPT !.session = "s2"]
Edited == [Note("e4", <<"m1">>, "p4", FALSE) EXCEPT !.rank = 0]
Legacy == [Said EXCEPT !.version = 1, !.ids = <<>>, !.event = "e3", !.binding = "b2"]
LegacyAltered == [Legacy EXCEPT !.payload = "p2"]

AllObservations == {Said, Altered, Deleted, Legacy, LegacyAltered}
AllIngests == {<<Said, "c1">>, <<Said, "c2">>, <<Altered, "c3">>, <<Deleted, "c4">>,
               <<Legacy, "c5">>, <<LegacyAltered, "c6">>}
OneMessage == {Said, Deleted, Edited}
OneMessageIngests == {<<Said, "c1">>, <<Deleted, "c4">>, <<Edited, "c5">>}

(***************************************************************************)
(* Documents: two that move over the same paths, a deletion, and requests  *)
(* that reuse a key with another path, skip a revision or change the vault.*)
(***************************************************************************)
Document(doc, path, revision, content) ==
  [doc |-> doc, vault |-> "v", path |-> path, revision |-> revision, content |-> content,
   expected |-> revision - 1, tombstone |-> FALSE]

AllDocumentRequests ==
  {Document("d1", "p", 1, "x"), Document("d1", "q", 1, "x"), Document("d1", "q", 2, "y"),
   [Document("d1", "p", 2, "y") EXCEPT !.tombstone = TRUE],
   [Document("d1", "q", 2, "x") EXCEPT !.vault = "w"],
   [Document("d1", "q", 3, "z") EXCEPT !.expected = 1],
   Document("d2", "p", 1, "x"), Document("d2", "q", 2, "y")}

(***************************************************************************)
(* Proposals: two keys, of which one may be proposed with two contents and *)
(* both with the same; receipts of the first; retention of both contents   *)
(* in one call.                                                            *)
(***************************************************************************)
Inputs == {<<"k1", 1>>, <<"k1", 2>>, <<"k2", 1>>}

Decision(status) == [kind |-> "decision", key |-> "k1", status |-> status]
Applied(d, n) == [kind |-> "apply", key |-> "k1", decision |-> d, record |-> n]
Approved == Decision("approved_pending_apply")
AllReceipts == {Decision("review_required"), Decision("rejected"), Approved, Applied(Approved, 1)}

AllRequests == {[contents |-> {1, 2}, reason |-> "revoked"],
                [contents |-> {1, 2}, reason |-> "retention_expired"],
                [contents |-> {1}, reason |-> "forgotten"]}

VARIABLE exercised    \* the store a behaviour is about

FabricInit ==
  /\ Init /\ RawInit /\ DocumentInit /\ ListingInit
  /\ exercised \in {"proposals", "raw", "documents", "conversations"}

FabricNext ==
  \/ exercised = "proposals" /\ Next
       /\ UNCHANGED <<rawVars, documentVars, lvars>>
  \/ exercised = "raw" /\ RawNext
       /\ UNCHANGED <<vars, documentVars, lvars>>
  \/ exercised = "documents" /\ DocumentNext
       /\ UNCHANGED <<vars, rawVars, lvars>>
  \/ exercised = "conversations" /\ ListingNext
       /\ UNCHANGED <<vars, rawVars, documentVars>>

FabricSpec ==
  FabricInit /\
  [][FabricNext /\ UNCHANGED exercised]_<<vars, rawVars, documentVars, lvars,
                                         exercised>>

=============================================================================
