--------------------------- MODULE MCQueueClient ---------------------------
(***************************************************************************)
(* One queue and a client that comes and goes.  The instant event has the  *)
(* lowest number, so that a snapshot's order differs from the queue's.     *)
(***************************************************************************)
EXTENDS QueueClient

CONSTANTS chop, plank, story, typo

MCEvents   == {chop, plank, story}
MCKind     == [e \in Events |-> IF e = story THEN "instant" ELSE "loop"]
MCLoopTime == [e \in Events |-> IF e = chop THEN 2 ELSE IF e = plank THEN 1 ELSE 0]
MCPrereq   == [e \in Events |-> IF e = plank THEN {story} ELSE {}]
MCCost     == [e \in Events |-> IF e = plank THEN 1 ELSE 0]
MCYield    == [e \in Events |-> IF e = chop THEN 1 ELSE 0]
MCTargets  == {-1, 1}
MCRank     == [e \in Ids |-> IF e = story THEN 1 ELSE IF e = plank THEN 2
                             ELSE IF e = chop THEN 3 ELSE 4]

=============================================================================
