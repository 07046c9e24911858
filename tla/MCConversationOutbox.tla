------------------------ MODULE MCConversationOutbox ------------------------
(***************************************************************************)
(* One caller in each of two processes.                                    *)
(***************************************************************************)
EXTENDS ConversationOutbox, TLC

CONSTANTS c1, c2, p1, p2

TwoProcesses == (c1 :> p1) @@ (c2 :> p2)
=============================================================================
