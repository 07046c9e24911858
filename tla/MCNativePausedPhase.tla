-------------------------- MODULE MCNativePausedPhase --------------------------
(***************************************************************************)
(* Two intervals.  The first has two events, one of them repeated, and a   *)
(* record that is skipped; the second has nothing to migrate.  In two more *)
(* transcripts the repeat means something else, and the second interval    *)
(* has an event of the first one again.                                    *)
(***************************************************************************)
EXTENDS NativePausedPhase

Native(event, meaning, eligible, binding) ==
  [event |-> event, meaning |-> meaning, eligible |-> eligible, binding |-> binding]

Skipped == Native("s", 1, FALSE, None)

FirstInterval(repeat) ==
  << Native("a", 1, TRUE, None), Skipped, Native("a", repeat, TRUE, None),
     Native("b", 1, TRUE, "id") >>

TwoIntervals ==
  {<<FirstInterval(1), <<Skipped>>>>, <<FirstInterval(2), <<Skipped>>>>,
   <<FirstInterval(1), <<Native("b", 1, TRUE, "id")>>>>}

OneEventPerBatch == <<1, 1>>
================================================================================
