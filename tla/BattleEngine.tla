---------------------------- MODULE BattleEngine ----------------------------
(***************************************************************************)
(* One battle: BattleSession of battle/session.go with its waves (wave.go),*)
(* attacks (combat.go, damage.go, targeting.go), effects (effect.go, the   *)
(* two entity files) and snapshots (snapshot.go), advanced by the tick     *)
(* loop and shown to its players (session/tick.go, battle_proto.go).       *)
(*                                                                         *)
(* A tick calls AdvanceByDelta, which handles one due event after the      *)
(* other.  An event is taken apart into the parts of AdvanceOneEvent: time *)
(* passes, the dead come back and a wave appears; then every player that   *)
(* was alive and due attacks; then every enemy; then the end of the wave.  *)
(* The parts follow each other in one goroutine: pc says which is next.    *)
(*                                                                         *)
(* Time is counted in steps as long as the code's least interval.  What a  *)
(* blow does is one of Outcomes, for the attributes and the dice of        *)
(* CalcDamage.  Maximal hit points do not change during a battle.          *)
(***************************************************************************)
EXTENDS Naturals, Sequences, FiniteSets, FiniteSetsExt, SequencesExt

CONSTANTS
  NPlayers,     \* players 1..NPlayers take part, in this order
  Kinds,        \* enemies that gameconfig knows
  Loop,         \* CombinationLoop: the types of the waves, repeated
  Combos,       \* Combos[type]: the combinations a wave of that type may be
  Interval,     \* time between waves, and until a player is back
  Attack,       \* attack_interval of players and enemies
  Delta,        \* what one tick adds
  Heartbeat,    \* a snapshot is sent when the clock is a multiple of this
  PlayerHP, EnemyHP, MaxMP,
  HPRecovery, MPRecovery,
  Outcomes,     \* what CalcDamage may return for a skill that does damage
  Skills,       \* skills of the battle, the basic one included
  Basic,        \* the basic attack
  Skill,        \* Skill[s]: its cost, cast time, cooldown and effect
  PlayerPlan, EnemyPlan, \* the skill plans, highest priority first
  MaxTime,      \* bound on the clock
  Nil

Players == 1..NPlayers

\* BattleSkill: no mana is lacking for a cost of 0, no cooldown is one of 0.
SkillRecord == [cost : Nat, cast : Nat, cooldown : Nat, damage : BOOLEAN,
                style : {"melee", "ranged", "magic"},
                effect : {"none", "self", "target"}, lasts : Nat \ {0}]

\* DamageResult: cut is what blocking took off.
DamageResult == [damage : Nat, raw : Nat, evaded : BOOLEAN, cut : Nat]

ASSUME BattleAssumption ==
  /\ NPlayers \in Nat \ {0}
  /\ {Interval, Attack, Delta, Heartbeat, PlayerHP, EnemyHP} \subseteq Nat \ {0}
  /\ {MaxMP, HPRecovery, MPRecovery, MaxTime} \subseteq Nat
  /\ Nil \notin Nat
  /\ Loop \in Seq(DOMAIN Combos) \ {<<>>}
  /\ \A t \in DOMAIN Combos : Combos[t] \subseteq Seq(STRING)
  /\ Basic \in Skills
  /\ Skill \in [Skills -> SkillRecord]
  /\ Outcomes \subseteq DamageResult
  /\ PlayerPlan \in Seq(Skills) /\ EnemyPlan \in Seq(Skills)

VARIABLES
  pc,       \* "out", or what AdvanceByDelta does next
  running,  \* BattleSession.Running
  time,     \* BattleSession.Time
  until,    \* the target of AdvanceByDelta
  player,   \* player[p]: the PlayerBattleEntity
  enemies,  \* every enemy that ever appeared, in order
  wave,     \* WaveNumber
  nextWave, \* NextWaveTime
  respawn,  \* RespawnTimes
  hate,     \* HateMap: damage by enemy id and player
  exp,      \* skills with pending experience
  todo,     \* who has still to attack in this phase, in the order of the list
  target,   \* index of the enemy the players attack, 0 for none
  cands,    \* players the enemies choose from
  logs,     \* the logs of this tick
  shown     \* shown[p]: the client believes p alive

turn == <<todo, target, cands>>
waves == <<wave, nextWave>>
vars == <<pc, running, time, until, player, enemies, waves, respawn, hate, exp,
          turn, logs, shown>>

-----------------------------------------------------------------------------
(* Entities                                                                *)

\* attr: the skills whose modifiers are in the entity's attribute instance.
NewEntity(id, hp, mp, ready) ==
  [id |-> id, hp |-> hp, mp |-> mp, alive |-> TRUE, ready |-> ready,
   cd |-> [s \in Skills |-> 0], eff |-> [s \in Skills |-> Nil], attr |-> {}]

\* EntityID: the user id, or the enemy's number and its place in its wave.
PlayerID(p) == <<"player", p>>
EnemyID(kind, idx) == <<kind, idx>>
NoID == <<"none", 0>>

AlivePlayersIn(ps) == {p \in Players : ps[p].alive}
AliveEnemiesIn(es) == {i \in DOMAIN es : es[i].alive}
AlivePlayers == AlivePlayersIn(player)
AliveEnemies == AliveEnemiesIn(enemies)

\* Mutant: a player that is down still counts with its next blow.
CandidatesOfAll ==
  {respawn[p] : p \in {q \in Players : respawn[q] # Nil}}
    \cup (IF nextWave # Nil THEN {nextWave} ELSE {})
    \cup (IF AlivePlayers # {} /\ AliveEnemies # {}
          THEN {player[p].ready : p \in Players} \cup {enemies[i].ready : i \in AliveEnemies}
          ELSE {})

\* NextEventTime
Candidates ==
  {respawn[p] : p \in {q \in Players : respawn[q] # Nil}}
    \cup (IF nextWave # Nil THEN {nextWave} ELSE {})
    \cup (IF AlivePlayers # {} /\ AliveEnemies # {}
          THEN {player[p].ready : p \in AlivePlayers} \cup {enemies[i].ready : i \in AliveEnemies}
          ELSE {})
NextEventTime == IF Candidates = {} THEN Nil ELSE Min(Candidates)

Least(a, b) == IF a < b THEN a ELSE b
Most(a, b) == IF a < b THEN b ELSE a

\* RefreshStats: it drops the effects that have ended.  Their modifiers stay
\* in the attribute instance.
Refreshed(e, now) ==
  [e EXCEPT !.eff = [s \in Skills |-> IF @[s] # Nil /\ @[s] <= now THEN Nil ELSE @[s]]]

\* applyNaturalRecovery and RefreshStats, for those alive.
Rested(e, maxHP, now) ==
  IF ~e.alive \/ now <= time THEN e
  ELSE Refreshed([e EXCEPT !.hp = Least(maxHP, @ + HPRecovery * (now - time)),
                           !.mp = Least(MaxMP, @ + MPRecovery * (now - time))], now)

\* Mutant: a player that is back keeps the time of its last blow.
RevivedAsBefore(e, now) == [e EXCEPT !.alive = TRUE]

Revived(e, now) ==
  [e EXCEPT !.alive = TRUE, !.hp = PlayerHP, !.mp = MaxMP, !.ready = now + Attack]

Status ==
  IF ~running THEN "stopped"
  ELSE IF AlivePlayers = {} THEN "respawn"
  ELSE IF AliveEnemies = {} /\ nextWave # Nil THEN "between_waves"
  ELSE "fighting"

-----------------------------------------------------------------------------
(* AdvanceByDelta and the beginning of an event                            *)

\* The bound keeps the clock finite.
TickBegins ==
  /\ pc = "out" /\ running /\ time + Delta <= MaxTime
  /\ pc' = "loop"
  /\ until' = time + Delta
  /\ logs' = <<>>
  /\ UNCHANGED <<running, time, player, enemies, waves, respawn, hate, exp, turn, shown>>

Log(type, from, to) == [type |-> type, attacker |-> from, defender |-> to]

\* Mutant: only attackers are sent along with the logs.
AffectedAttackers == {logs[i].attacker : i \in DOMAIN logs}

\* The entities whose state goes out with the logs: battleLogsToProto.
Affected == UNION {{logs[i].attacker, logs[i].defender} : i \in DOMAIN logs}

\* The state of a player as BuildEntityState and BuildSnapshot give it to clients.
Snapshot == [p \in Players |-> player[p].alive]

\* No event is due: the rest of the tick passes, tickBattles sends what there is.
TickEnds ==
  /\ pc = "loop"
  /\ NextEventTime = Nil \/ NextEventTime > until
  /\ pc' = "out"
  /\ player' = [p \in Players |-> Rested(player[p], PlayerHP, until)]
  /\ enemies' = [i \in DOMAIN enemies |-> Rested(enemies[i], EnemyHP, until)]
  /\ time' = until
  /\ shown' = [p \in Players |->
       IF PlayerID(p) \in Affected \/ until % Heartbeat = 0 THEN Snapshot[p] ELSE shown[p]]
  /\ logs' = <<>>
  /\ UNCHANGED <<running, until, waves, respawn, hate, exp, turn>>

\* chooseWaveType, for a wave number that was incremented already.
WaveType(n) == Loop[(n % Len(Loop)) + 1]

\* createEnemyFromDef, for the idx-th enemy of a wave that appears at time t.
Enemy(kind, idx, t) == NewEntity(EnemyID(kind, idx), EnemyHP, 0, t + Attack)

\* pickWeightedCombination: any of those that a wave of this type may be.
Combinations == Combos[WaveType(wave + 1)]

\* Unknown enemies are left out but keep their place in the numbering.
Known(c) == {i \in DOMAIN c : c[i] \in Kinds}

\* spawnWave: the known enemies of a combination, in its order.
Spawned(t) ==
  LET Combo(c) == [k \in 1..Cardinality(Known(c)) |->
                    LET i == SetToSortSeq(Known(c), <)[k] IN Enemy(c[i], i - 1, t)]
  IN IF Combinations = {} THEN {<<>>} ELSE {Combo(c) : c \in Combinations}

\* AdvanceOneEvent, up to the attacks.  The timers of the dead are looked at in
\* any order: RespawnTimes is a map.
EventBegins ==
  /\ pc = "loop"
  /\ NextEventTime # Nil /\ NextEventTime <= until
  /\ LET t == Most(time, NextEventTime)
         back == {p \in Players : respawn[p] # Nil /\ t >= respawn[p]}
         ps == [p \in Players |->
                 IF p \in back THEN Revived(Rested(player[p], PlayerHP, t), t)
                 ELSE Rested(player[p], PlayerHP, t)]
         rested == [i \in DOMAIN enemies |-> Rested(enemies[i], EnemyHP, t)]
         spawns == nextWave # Nil /\ t >= nextWave /\ AlivePlayersIn(ps) # {}
     IN \E new \in (IF spawns THEN Spawned(t) ELSE {<<>>}), order \in SetToSeqs(back) :
          LET reborn == [i \in DOMAIN order |-> Log("player_respawn", PlayerID(order[i]), NoID)]
              es == rested \o new
              living == AliveEnemiesIn(es)
              alive == AlivePlayersIn(ps)
          IN /\ time' = t
             /\ player' = ps
             /\ enemies' = es
             /\ respawn' = [p \in Players |-> IF p \in back THEN Nil ELSE respawn[p]]
             /\ wave' = IF spawns THEN wave + 1 ELSE wave
             /\ nextWave' = IF spawns THEN Nil ELSE nextWave
             /\ logs' = logs \o reborn
                  \o (IF spawns /\ Combinations # {} THEN <<Log("wave_spawned", NoID, NoID)>> ELSE <<>>)
                  \o (IF alive = {} THEN <<Log("all_players_downed", NoID, NoID)>> ELSE <<>>)
             /\ pc' = IF alive = {} THEN "loop" ELSE "players"
             /\ target' = IF alive # {} /\ living # {} THEN Min(living) ELSE 0
             /\ todo' = IF living = {} THEN {} ELSE {p \in alive : t >= ps[p].ready}
  /\ UNCHANGED <<running, until, hate, exp, cands, shown>>

-----------------------------------------------------------------------------
(* Attacks                                                                 *)

\* canUseSkill, and a skill without damage must change something
\* (skillWouldApplyEffect).
Usable(e, s, foe) ==
  LET dst == IF Skill[s].effect = "self" THEN e ELSE foe
  IN /\ time >= e.cd[s]
     /\ e.mp >= Skill[s].cost
     /\ Skill[s].damage \/ Skill[s].effect = "none"
          \/ dst.eff[s] = Nil \/ dst.eff[s] <= time

\* choosePlayerSkill and chooseEnemySkill
ChosenSkill(e, plan, foe) ==
  LET usable == {i \in DOMAIN plan : Usable(e, plan[i], foe)}
  IN IF usable = {} THEN Basic ELSE plan[Min(usable)]

\* CalcDamage
CalcDamage(s) ==
  IF Skill[s].damage THEN Outcomes ELSE {[damage |-> 0, raw |-> 0, evaded |-> FALSE, cut |-> 0]}

\* ApplyEffect
WithEffect(e, s) == [e EXCEPT !.eff[s] = time + Skill[s].lasts, !.attr = @ \cup {s}]

\* resolveAttack, what it does to the attacker: costs, effects on itself, timing.
Acted(e, s) ==
  LET paid == [e EXCEPT !.mp = @ - Least(@, Skill[s].cost)]
      buffed == IF Skill[s].effect = "self" THEN WithEffect(paid, s) ELSE paid
  IN [buffed EXCEPT !.ready = time + (IF Skill[s].cast > 0 THEN Skill[s].cast ELSE Attack),
                    !.cd[s] = IF Skill[s].cooldown > 0 THEN time + Skill[s].cooldown ELSE @]

\* ... and to the defender: effects on it, damage, death.
Struck(e, s, out) ==
  LET marked == IF Skill[s].effect = "target" THEN WithEffect(e, s) ELSE e
      hit == [marked EXCEPT !.hp = @ - Least(@, out.damage)]
  IN [hit EXCEPT !.alive = @ /\ hit.hp > 0]

\* awardCombatXP
DealtExp(s, out) ==
  IF out.damage = 0 THEN {}
  ELSE IF Skill[s].style = "magic" THEN {"magic"} ELSE {"strength", "ranging"}

\* awardDefenseXP
TakenExp(out) ==
  IF out.evaded THEN (IF out.raw > 0 THEN {"ranging"} ELSE {})
  ELSE (IF out.damage > 0 THEN {"resilience", "defense"} ELSE {})
         \cup (IF out.cut > 0 THEN {"defense"} ELSE {})

\* processPlayerAttack and resolveAttack.  The target was chosen before the
\* first player of this event attacked, and may be dead.
PlayerAttacks ==
  /\ pc = "players" /\ todo # {}
  /\ LET p == Min(todo)
         foe == enemies[target]
         s == ChosenSkill(player[p], PlayerPlan, foe)
     IN \E out \in CalcDamage(s) :
          LET struck == Struck(foe, s, out)
          IN /\ player' = [player EXCEPT ![p] = Acted(@, s)]
             /\ enemies' = [enemies EXCEPT ![target] = struck]
             /\ hate' = [hate EXCEPT ![foe.id] = [@ EXCEPT ![p] = @ + out.damage]]
             /\ exp' = exp \cup {s} \cup DealtExp(s, out)
             /\ logs' = logs \o <<Log("player_attack", PlayerID(p), foe.id)>>
                  \o (IF foe.alive /\ ~struck.alive
                      THEN <<Log("enemy_died", foe.id, NoID)>> ELSE <<>>)
  /\ todo' = todo \ {Min(todo)}
  /\ UNCHANGED <<pc, running, time, until, waves, respawn, target, cands, shown>>

PlayersDone ==
  /\ pc = "players" /\ todo = {}
  /\ pc' = "enemies"
  /\ todo' = {i \in AliveEnemies : time >= enemies[i].ready}
  /\ cands' = AlivePlayers
  /\ target' = 0
  /\ UNCHANGED <<running, time, until, player, enemies, waves, respawn, hate, exp, logs, shown>>

\* chooseEnemyTarget, among the players alive when the enemies' turn began: hate
\* and hatred make some likelier, none impossible.
EnemyTargets == cands

\* A player goes down once.
Downed(before, after) == before.alive /\ ~after.alive

\* processEnemyAttack; the player may have gone down in this very turn.
EnemyAttacks ==
  /\ pc = "enemies" /\ todo # {}
  /\ LET i == Min(todo)
     IN \E p \in EnemyTargets :
          LET s == ChosenSkill(enemies[i], EnemyPlan, player[p])
          IN \E out \in CalcDamage(s) :
               LET struck == Struck(player[p], s, out)
                   down == Downed(player[p], struck)
               IN /\ enemies' = [enemies EXCEPT ![i] = Acted(@, s)]
                  /\ player' = [player EXCEPT ![p] = struck]
                  /\ exp' = exp \cup TakenExp(out)
                  /\ respawn' = [respawn EXCEPT ![p] = IF down THEN time + Interval ELSE @]
                  /\ logs' = logs \o <<Log("enemy_attack", enemies[i].id, PlayerID(p))>>
                       \o (IF down THEN <<Log("player_downed", NoID, PlayerID(p))>> ELSE <<>>)
  /\ todo' = todo \ {Min(todo)}
  /\ UNCHANGED <<pc, running, time, until, waves, hate, target, cands, shown>>

\* Mutant: the next wave is scheduled one enemy early.
ClearedEarly == AlivePlayers # {} /\ nextWave = Nil /\ Cardinality(AliveEnemies) <= 1

\* Mutant: the end of a wave is looked for only when no player is down.
ClearedByAll == AlivePlayers = Players /\ nextWave = Nil /\ AliveEnemies = {}

\* finishWaveIfNeeded
Cleared == AlivePlayers # {} /\ nextWave = Nil /\ AliveEnemies = {}

\* Mutant: the first player down is reported as the end of all.
WipeLogEarly(alive) ==
  IF alive # Players THEN <<Log("all_players_downed", NoID, NoID)>> ELSE <<>>

WipeLog(alive) == IF alive = {} THEN <<Log("all_players_downed", NoID, NoID)>> ELSE <<>>

EventEnds ==
  /\ pc = "enemies" /\ todo = {}
  /\ pc' = "loop"
  /\ nextWave' = IF Cleared THEN time + Interval ELSE nextWave
  /\ logs' = logs
       \o WipeLog(AlivePlayers)
       \o (IF Cleared THEN <<Log("wave_cleared", NoID, NoID)>> ELSE <<>>)
  /\ cands' = {}
  /\ UNCHANGED <<running, time, until, player, enemies, wave, respawn, hate, exp, todo, target, shown>>

\* battle.stop, between two ticks.
Stop ==
  /\ pc = "out" /\ running
  /\ running' = FALSE
  /\ UNCHANGED <<pc, time, until, player, enemies, waves, respawn, hate, exp, turn, logs, shown>>

-----------------------------------------------------------------------------
IDs == {EnemyID(k, i) : k \in Kinds, i \in 0..(Max({0} \cup {Len(c) : c \in UNION {Combos[t] : t \in DOMAIN Combos}}))}

\* NewBattleSession, for players that battle.start gave full resources.
Init ==
  /\ pc = "out" /\ running = TRUE
  /\ time = 0 /\ until = 0
  /\ player = [p \in Players |-> NewEntity(PlayerID(p), PlayerHP, MaxMP, Interval + Attack)]
  /\ enemies = <<>>
  /\ wave = 0 /\ nextWave = Interval
  /\ respawn = [p \in Players |-> Nil]
  /\ hate = [id \in IDs |-> [p \in Players |-> 0]]
  /\ exp = {}
  /\ todo = {} /\ target = 0 /\ cands = {}
  /\ logs = <<>>
  /\ shown = [p \in Players |-> TRUE]

Next ==
  \/ TickBegins \/ TickEnds \/ EventBegins
  \/ PlayerAttacks \/ PlayersDone \/ EnemyAttacks \/ EventEnds
  \/ Stop

Spec == Init /\ [][Next]_vars

\* The tick loop goes on with the tick it has begun.
FairSpec == Spec /\ WF_vars(pc # "out" /\ Next)

-----------------------------------------------------------------------------
(* Properties                                                              *)

\* The state is well typed; hit points and mana stay between zero and their maximum.
TypeOK ==
  /\ pc \in {"out", "loop", "players", "enemies"}
  /\ running \in BOOLEAN /\ {time, until, wave} \subseteq Nat
  /\ nextWave \in Nat \cup {Nil}
  /\ respawn \in [Players -> Nat \cup {Nil}]
  /\ target \in 0..Len(enemies) /\ cands \subseteq Players
  /\ \A p \in Players : player[p].hp \in 0..PlayerHP /\ player[p].mp \in 0..MaxMP
  /\ \A i \in DOMAIN enemies : enemies[i].hp \in 0..EnemyHP /\ enemies[i].mp \in 0..MaxMP

\* Between two events a player has a respawn timer exactly while it is down,
\* and whoever is alive has hit points left.
DownedHasTimer ==
  /\ \A p \in Players : player[p].alive <=> respawn[p] = Nil
  /\ \A p \in Players : player[p].alive <=> player[p].hp > 0
  /\ \A i \in DOMAIN enemies : enemies[i].alive <=> enemies[i].hp > 0

\* Between two events the next wave is scheduled exactly if no enemy is left,
\* and then somebody is there to meet it: a battle never runs out of events
\* and no wave waits for a player.  What comes next lies in the future, so the
\* loop of AdvanceByDelta cannot spin.
WaveScheduled ==
  pc \in {"out", "loop"} =>
    /\ nextWave # Nil <=> AliveEnemies = {}
    /\ nextWave # Nil => AlivePlayers # {}
    /\ NextEventTime # Nil /\ NextEventTime > time

\* After an event the wipe is the last thing reported exactly while nobody is
\* alive, so it is reported once.
WipeReported ==
  pc = "loop" /\ logs # <<>> =>
    (Last(logs).type = "all_players_downed" <=> AlivePlayers = {})

\* What a tick sends is enough for the clients to know who is alive.
ShownIsTrue == pc = "out" => \A p \in Players : shown[p] = player[p].alive

\* Two enemies of the battle never have the same EntityID.
EntityIDsUnique ==
  \A i, j \in DOMAIN enemies : enemies[i].id = enemies[j].id => i = j

\* An entity's attribute modifiers are those of its active effects.
EffectsExpire ==
  pc = "out" => \A p \in Players : player[p].attr = {s \in Skills : player[p].eff[s] # Nil}

\* A tick that has begun ends.
TickReturns == pc = "loop" ~> pc = "out"

\* What the snapshots call the battle's status goes round as WaveCycle says.
Cycle == INSTANCE WaveCycle WITH status <- Status
CycleSpec == Cycle!Spec
=============================================================================
