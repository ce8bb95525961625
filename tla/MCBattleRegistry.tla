-------------------------- MODULE MCBattleRegistry --------------------------
(* Two players, one of whom may come back with a second session, for TLC.  *)
EXTENDS BattleRegistry, TLC

CONSTANTS u1, u2, s1, s2, s3, mine, cave

UserOfDef == (s1 :> u1) @@ (s2 :> u1) @@ (s3 :> u2)
BattleSymmetry == Permutations({mine, cave})
=============================================================================
