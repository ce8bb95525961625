------------------------------ MODULE WaveCycle ------------------------------
(***************************************************************************)
(* What a battle promises to those who watch its status (deriveStatus of   *)
(* battle/snapshot.go): waves come one at a time, each after the one       *)
(* before was cleared; only a fight can down the last player, and who      *)
(* comes back comes back to the same fight; a stopped battle stays so.     *)
(***************************************************************************)
EXTENDS Naturals

VARIABLES status, wave

Turn(from, to) == status = from /\ status' = to

Init == status = "between_waves" /\ wave = 0

Spawn == Turn("between_waves", "fighting") /\ wave' = wave + 1
Clear == Turn("fighting", "between_waves") /\ UNCHANGED wave
Wipe  == Turn("fighting", "respawn") /\ UNCHANGED wave
Back  == Turn("respawn", "fighting") /\ UNCHANGED wave
Halt  == status # "stopped" /\ status' = "stopped" /\ UNCHANGED wave

Next == Spawn \/ Clear \/ Wipe \/ Back \/ Halt

Spec == Init /\ [][Next]_<<status, wave>>

=============================================================================
