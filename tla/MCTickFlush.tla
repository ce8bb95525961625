---------------------------- MODULE MCTickFlush ----------------------------
(* TickFlush for TLC: two sessions with two parts each.  One of them may   *)
(* expire and the other stays, so they are not interchangeable.            *)
EXTENDS TickFlush

=============================================================================
