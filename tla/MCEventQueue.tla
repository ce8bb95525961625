---------------------------- MODULE MCEventQueue ----------------------------
(***************************************************************************)
(* A small game configuration for EventQueue: chop is always open, plank   *)
(* takes material and is gated by the instant event story, still is a loop *)
(* without a loop time, and typo is an id that is not configured.          *)
(***************************************************************************)
EXTENDS EventQueue

CONSTANTS chop, plank, story, still, typo

MCEvents   == {chop, plank, story, still}
MCKind     == [e \in Events |-> IF e = story THEN "instant" ELSE "loop"]
MCLoopTime == [e \in Events |-> IF e = chop THEN 4 ELSE IF e = plank THEN 1 ELSE 0]
MCPrereq   == [e \in Events |-> IF e = plank THEN {story} ELSE {}]
MCCost     == [e \in Events |-> IF e \in {plank, story} THEN 1 ELSE 0]
MCYield    == [e \in Events |-> IF e = chop THEN 1 ELSE 0]
MCTargets  == {-1, 1}

=============================================================================
