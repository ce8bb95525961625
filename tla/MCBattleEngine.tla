--------------------------- MODULE MCBattleEngine ---------------------------
(* Two players, waves of one or two enemies, for TLC.                      *)
EXTENDS BattleEngine

LoopDef == <<"boss", "weak">>
CombosDef == [weak |-> {<<"pig", "pig">>, <<"ox", "pig">>}, boss |-> {<<>>}]
OutcomesDef == {[damage |-> 0, raw |-> 1, evaded |-> TRUE, cut |-> 0],
                [damage |-> 1, raw |-> 2, evaded |-> FALSE, cut |-> 1],
                [damage |-> 2, raw |-> 2, evaded |-> FALSE, cut |-> 0]}
SkillDef == [basic |-> [cost |-> 0, cast |-> 0, cooldown |-> 0, damage |-> TRUE, style |-> "melee",
                        effect |-> "none", lasts |-> 1],
             guard |-> [cost |-> 1, cast |-> 1, cooldown |-> 3, damage |-> FALSE, style |-> "melee",
                        effect |-> "self", lasts |-> 2]]
PlayerPlanDef == <<"guard", "basic">>
EnemyPlanDef == <<"basic">>

=============================================================================
