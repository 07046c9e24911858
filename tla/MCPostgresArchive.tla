-------------------------- MODULE MCPostgresArchive --------------------------
(***************************************************************************)
(* The payloads of MCConversationArchive for PostgresArchive.              *)
(***************************************************************************)
EXTENDS PostgresArchive, MCConversationArchive

\* A write, a tombstone that changes its payload, and a tombstone of it.
TA == Payload("t", "tombstone", {"a"}, "c1", 2, 4, 1)
TB == Payload("a", "tombstone", {}, "c1", 2, 2, 3)
C1 == Payload("c", "active", {}, "c1", 1, 5, 1)
WritePayloads == {A1, TA, TB}
RetentionPayloads == {A1, A2, C1}
=============================================================================
