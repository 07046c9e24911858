--------------------------- MODULE MCBackfillLease ---------------------------
(***************************************************************************)
(* Three processes of one host, one of them twice.                         *)
(***************************************************************************)
EXTENDS BackfillLease

CONSTANTS p1, p2, p3
OneHost == [p \in Processes |-> "here"]
TwiceForOne == [p \in Processes |-> IF p = p2 THEN 2 ELSE 1]
=============================================================================
