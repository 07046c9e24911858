------------------------ MODULE MCTranscriptCapture ------------------------
(***************************************************************************)
(* Two processes, one event id with two payloads.                          *)
(***************************************************************************)
EXTENDS TranscriptCapture, TLC

CONSTANTS r1, r2, i1

TwoPayloads == (r1 :> i1) @@ (r2 :> i1)
CaptureProcs == {"realtime", "backfill"}

\* The two payloads have the same id and are told apart by nothing else.
Symmetry == Permutations(Records)
=============================================================================
