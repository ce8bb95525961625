-------------------------- MODULE MCCommandChannel --------------------------
(* CommandChannel for TLC: three commands compete for two places, so that  *)
(* the channel is full, drained by the tick loop and drained by Close in   *)
(* one behaviour.  Commands are interchangeable, but the runs check        *)
(* liveness and so take no symmetry.                                       *)
EXTENDS CommandChannel

=============================================================================
