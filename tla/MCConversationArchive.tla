------------------------ MODULE MCConversationArchive ------------------------
(***************************************************************************)
(* Five events of one conversation and a stray one: a is an ordinary event *)
(* with a changed payload, b replaces a, t is a tombstone of b, c comes    *)
(* last and d first in the order of the archive, and x lives in another    *)
(* conversation and refers to a.  What order they are stored in is free;   *)
(* d outlives every cutoff.                                                *)
(***************************************************************************)
EXTENDS ConversationArchive

Payload(i, kind, refs, conversation, expires, rank, digest) ==
  [id |-> i, kind |-> kind, refs |-> refs, conversation |-> conversation,
   expires |-> expires, rank |-> rank, digest |-> digest]

A1 == Payload("a", "active", {}, "c1", 1, 2, 1)
A2 == Payload("a", "active", {}, "c1", 2, 3, 2)
B == Payload("b", "edited", {"a"}, "c1", 1, 4, 1)
T == Payload("t", "tombstone", {"b"}, "c1", 2, 5, 1)
C == Payload("c", "active", {}, "c1", 2, 6, 1)
D == Payload("d", "active", {}, "c1", 3, 1, 1)
X == Payload("x", "conflict", {"a"}, "c2", 1, 7, 1)

AnyPayloads == {A1, A2, B, C, D, T, X}

\* The key derived from the event id, as both callers of the archive use it.
DerivedKey == [i \in Ids |-> {i}]
=============================================================================
