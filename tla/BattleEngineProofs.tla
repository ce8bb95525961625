------------------------- MODULE BattleEngineProofs -------------------------
(***************************************************************************)
(* Proofs about BattleEngine, for any number of players, any waves, skills *)
(* and outcomes of a blow: whoever is down has a timer and nobody else     *)
(* (DownedHasTimer), and a battle always has a next event, in the future   *)
(* (WaveScheduled), so that AdvanceByDelta neither starves nor spins.      *)
(* And a wipe is reported exactly when it happens (WipeReported), and      *)
(* what is reported is enough to know who is alive (ShownIsTrue).  A tick  *)
(* has no infinite run: each part has a lower rank than the one before.    *)
(*                                                                         *)
(* The second needs what every part of an event leaves for the next one:   *)
(* while the players attack, whoever is due is still in todo; while the    *)
(* enemies do, so are they, and with no enemy left nobody can go down      *)
(* (WaveInv).                                                              *)
(***************************************************************************)
EXTENDS BattleEngine, FiniteSetTheorems, SequenceTheorems, WellFoundedInduction, TLAPS

\* What the proofs need of an entity: the alive are those with hit points left.
Fit(e) ==
  /\ {"hp", "mp", "alive", "ready"} \subseteq DOMAIN e
  /\ e.hp \in Nat /\ e.ready \in Nat /\ e.alive \in BOOLEAN
  /\ e.alive <=> e.hp > 0

TypeInv ==
  /\ pc \in {"out", "loop", "players", "enemies"}
  /\ time \in Nat /\ until \in Nat /\ wave \in Nat
  /\ nextWave \in Nat \cup {Nil}
  /\ respawn \in [Players -> Nat \cup {Nil}]
  /\ DOMAIN player = Players
  /\ \A p \in Players : Fit(player[p])
  /\ \E n \in Nat : DOMAIN enemies = 1..n
  /\ \A i \in DOMAIN enemies : Fit(enemies[i])
  /\ todo \subseteq Nat
  /\ cands \subseteq Players

DownInv == \A p \in Players : player[p].alive <=> respawn[p] = Nil

TimerInv == \A p \in Players : respawn[p] # Nil => respawn[p] > time

NextWaveInv ==
  nextWave # Nil => nextWave > time /\ AliveEnemies = {} /\ AlivePlayers # {}

BetweenEvents ==
  pc \in {"out", "loop"} =>
    /\ AliveEnemies = {} => nextWave # Nil
    /\ \A x \in Candidates : x > time

PlayersTurn ==
  pc = "players" =>
    /\ AlivePlayers # {} /\ todo \subseteq Players
    /\ AliveEnemies # {} => \A p \in AlivePlayers : p \in todo \/ player[p].ready > time

EnemiesTurn ==
  pc = "enemies" =>
    /\ todo \subseteq AliveEnemies
    /\ AliveEnemies = {} => AlivePlayers # {}
    /\ \A i \in AliveEnemies : i \in todo \/ enemies[i].ready > time
    /\ AliveEnemies # {} => \A p \in AlivePlayers : player[p].ready > time

WaveInv == TimerInv /\ NextWaveInv /\ BetweenEvents /\ PlayersTurn /\ EnemiesTurn

IInv == TypeInv /\ DownInv /\ WaveInv

-----------------------------------------------------------------------------
(* Least elements                                                          *)

Earlier == {ss \in Nat \X Nat : ss[1] < ss[2]}

\* Min of a set of natural numbers is its least element.
LEMMA MinIsLeast ==
  ASSUME NEW T, T \subseteq Nat, T # {}
  PROVE  Min(T) \in T /\ \A y \in T : Min(T) <= y
<1>1. IsWellFoundedOn(Earlier, Nat)
  BY NatLessThanWellFounded DEF OpToRel, Earlier
<1>2. PICK x \in T : \A y \in T : ~(<<y, x>> \in Earlier)
  BY <1>1, WFMin
<1>3. ASSUME NEW y \in T PROVE x <= y
  <2>1. x \in Nat /\ y \in Nat /\ ~(y < x)
    BY <1>2 DEF Earlier
  <2>. QED  BY <2>1
<1>. QED  BY <1>3 DEF Min

LEMMA CandidatesType ==
  ASSUME TypeInv
  PROVE  Candidates \subseteq Nat
  BY DEF TypeInv, Candidates, AlivePlayers, AliveEnemies, AlivePlayersIn, AliveEnemiesIn, Fit

\* NextEventTime is the least candidate, if there is one.
LEMMA NextEvent ==
  ASSUME TypeInv
  PROVE  /\ NextEventTime # Nil <=> Candidates # {}
         /\ NextEventTime # Nil => /\ NextEventTime \in Candidates /\ NextEventTime \in Nat
                                   /\ \A x \in Candidates : NextEventTime <= x
<1>1. Candidates \subseteq Nat
  BY CandidatesType
<1>2. Nil \notin Nat
  BY BattleAssumption
<1>. QED  BY <1>1, <1>2, MinIsLeast DEF NextEventTime

-----------------------------------------------------------------------------
(* Entities                                                                *)

LEMMA Product == ASSUME NEW a \in Nat, NEW b \in Nat PROVE a * b \in Nat
  OBVIOUS

LEMMA Constants ==
  /\ Interval \in Nat /\ Interval > 0 /\ Attack \in Nat /\ Attack > 0
  /\ Delta \in Nat /\ Delta > 0
  /\ PlayerHP \in Nat /\ PlayerHP > 0 /\ EnemyHP \in Nat /\ EnemyHP > 0
  /\ HPRecovery \in Nat /\ Nil \notin Nat
  BY BattleAssumption

\* Resting changes hit points only, and only of the living.
LEMMA RestedFits ==
  ASSUME NEW e, Fit(e), NEW maxHP \in Nat \ {0}, NEW now \in Nat, time \in Nat
  PROVE  /\ Fit(Rested(e, maxHP, now))
         /\ Rested(e, maxHP, now).alive = e.alive
         /\ Rested(e, maxHP, now).ready = e.ready
<1>1. CASE ~e.alive \/ now <= time
  BY <1>1 DEF Rested
<1>2. CASE e.alive /\ ~(now <= time)
  <2>. DEFINE gain == HPRecovery * (now - time)
  <2>1. now - time \in Nat
    BY <1>2
  <2>2. gain \in Nat
    BY <2>1, Constants, Product
  <2>. DEFINE r == [e EXCEPT !.hp = Least(maxHP, @ + gain),
                             !.mp = Least(MaxMP, @ + MPRecovery * (now - time))]
  <2>3. /\ DOMAIN r = DOMAIN e /\ r.alive = e.alive /\ r.ready = e.ready
        /\ r.hp = Least(maxHP, e.hp + gain)
    BY DEF Fit
  <2>. HIDE DEF gain
  <2>4. r.hp \in Nat /\ r.hp > 0
    BY <1>2, <2>2, <2>3 DEF Least, Fit
  <2>. HIDE DEF r
  <2>5. /\ DOMAIN Refreshed(r, now) = DOMAIN r /\ Refreshed(r, now).hp = r.hp
        /\ Refreshed(r, now).alive = r.alive /\ Refreshed(r, now).ready = r.ready
    BY <2>3 DEF Refreshed, Fit
  <2>6. Rested(e, maxHP, now) = Refreshed(r, now)
    BY <1>2 DEF Rested, r, gain
  <2>. QED  BY <1>2, <2>3, <2>4, <2>5, <2>6 DEF Fit
<1>. QED  BY <1>1, <1>2 DEF Fit

LEMMA RevivedFits ==
  ASSUME NEW e, Fit(e), NEW now \in Nat
  PROVE  Fit(Revived(e, now)) /\ Revived(e, now).alive
  BY Constants DEF Revived, Fit

\* An attacker waits before it attacks again, and is none the worse for it.
LEMMA ActedFits ==
  ASSUME NEW e, Fit(e), NEW s \in Skills, time \in Nat
  PROVE  /\ Fit(Acted(e, s))
         /\ Acted(e, s).alive = e.alive
         /\ Acted(e, s).ready > time
<1>. DEFINE paid == [e EXCEPT !.mp = @ - Least(@, Skill[s].cost)]
            buffed == IF Skill[s].effect = "self" THEN WithEffect(paid, s) ELSE paid
            pause == IF Skill[s].cast > 0 THEN Skill[s].cast ELSE Attack
<1>1. pause \in Nat /\ pause > 0
  <2>1. Skill[s] \in SkillRecord
    BY BattleAssumption
  <2>2. Skill[s].cast \in Nat
    BY <2>1 DEF SkillRecord
  <2>. QED  BY <2>2, Constants
<1>2. DOMAIN paid = DOMAIN e /\ paid.hp = e.hp /\ paid.alive = e.alive /\ paid.ready = e.ready
  BY DEF Fit
<1>. HIDE DEF paid
<1>3. /\ DOMAIN buffed = DOMAIN e /\ buffed.hp = e.hp
      /\ buffed.alive = e.alive /\ buffed.ready = e.ready
  BY <1>2 DEF WithEffect, Fit
<1>. HIDE DEF buffed, pause
<1>4. Acted(e, s) = [buffed EXCEPT !.ready = time + pause,
                                   !.cd[s] = IF Skill[s].cooldown > 0
                                             THEN time + Skill[s].cooldown ELSE @]
  BY DEF Acted, buffed, paid, pause
<1>5. /\ DOMAIN Acted(e, s) = DOMAIN e /\ Acted(e, s).hp = e.hp
      /\ Acted(e, s).alive = e.alive /\ Acted(e, s).ready = time + pause
  BY <1>3, <1>4 DEF Fit
<1>. QED  BY <1>1, <1>5 DEF Fit

\* Whoever is struck keeps its place in time, and nobody is revived by it.
LEMMA StruckFits ==
  ASSUME NEW e, Fit(e), NEW s \in Skills, NEW out \in CalcDamage(s)
  PROVE  /\ Fit(Struck(e, s, out))
         /\ Struck(e, s, out).alive => e.alive
         /\ Struck(e, s, out).ready = e.ready
<1>. DEFINE marked == IF Skill[s].effect = "target" THEN WithEffect(e, s) ELSE e
            hit == [marked EXCEPT !.hp = @ - Least(@, out.damage)]
<1>1. out.damage \in Nat
  BY BattleAssumption DEF CalcDamage, DamageResult
<1>2. /\ DOMAIN marked = DOMAIN e /\ marked.hp = e.hp
      /\ marked.alive = e.alive /\ marked.ready = e.ready
  BY DEF WithEffect, Fit
<1>. HIDE DEF marked
<1>3. /\ DOMAIN hit = DOMAIN e /\ hit.hp = e.hp - Least(e.hp, out.damage)
      /\ hit.alive = e.alive /\ hit.ready = e.ready
  BY <1>2 DEF Fit
<1>. HIDE DEF hit
<1>4. Struck(e, s, out) = [hit EXCEPT !.alive = @ /\ hit.hp > 0]
  BY DEF Struck, hit, marked
<1>5. hit.hp \in Nat /\ hit.hp <= e.hp
  BY <1>1, <1>3 DEF Least, Fit
<1>6. /\ DOMAIN Struck(e, s, out) = DOMAIN e /\ Struck(e, s, out).hp = hit.hp
      /\ Struck(e, s, out).alive = (e.alive /\ hit.hp > 0)
      /\ Struck(e, s, out).ready = e.ready
  BY <1>3, <1>4 DEF Fit
<1>7. Struck(e, s, out).alive \in BOOLEAN /\ (Struck(e, s, out).alive <=> hit.hp > 0)
  <2>1. hit.hp > 0 => e.alive
    BY <1>5 DEF Fit
  <2>2. Struck(e, s, out).alive = (e.alive /\ hit.hp > 0)
    BY <1>6
  <2>. QED  BY <2>1, <2>2, Zenon
<1>8. Struck(e, s, out).alive => e.alive
  BY <1>6
<1>. QED  BY <1>5, <1>6, <1>7, <1>8 DEF Fit

LEMMA ChosenIsSkill ==
  ASSUME NEW e, NEW plan \in Seq(Skills), NEW foe
  PROVE  ChosenSkill(e, plan, foe) \in Skills
<1>. DEFINE usable == {i \in DOMAIN plan : Usable(e, plan[i], foe)}
<1>1. usable \subseteq Nat
  OBVIOUS
<1>2. usable # {} => Min(usable) \in DOMAIN plan
  BY <1>1, MinIsLeast
<1>3. Basic \in Skills
  BY BattleAssumption
<1>. QED  BY <1>2, <1>3 DEF ChosenSkill

\* A wave consists of living enemies.
LEMMA SpawnFits ==
  ASSUME TypeInv, NEW t \in Nat, NEW new \in Spawned(t)
  PROVE  /\ \E n \in Nat : new = [k \in 1..n |-> new[k]]
         /\ \A k \in DOMAIN new : Fit(new[k])
<1>1. WaveType(wave + 1) \in DOMAIN Combos
  <2>1. Loop \in Seq(DOMAIN Combos) /\ Len(Loop) \in Nat /\ Len(Loop) > 0
    BY BattleAssumption
  <2>2. (wave + 1) % Len(Loop) \in 0..(Len(Loop) - 1)
    BY <2>1 DEF TypeInv
  <2>3. ((wave + 1) % Len(Loop)) + 1 \in 1..Len(Loop)
    BY <2>1, <2>2
  <2>. QED  BY <2>1, <2>3 DEF WaveType
<1>2. Combinations \subseteq Seq(STRING)
  BY <1>1, BattleAssumption DEF Combinations
<1>3. CASE Combinations = {}
  <2>1. new = <<>>
    BY <1>3 DEF Spawned
  <2>. QED  BY <2>1
<1>4. CASE Combinations # {}
  <2>. DEFINE Combo(c) == [k \in 1..Cardinality(Known(c)) |->
                            LET i == SetToSortSeq(Known(c), <)[k] IN Enemy(c[i], i - 1, t)]
  <2>1. PICK c \in Combinations : new = Combo(c)
    BY <1>4 DEF Spawned
  <2>2. Cardinality(Known(c)) \in Nat
    <3>1. c \in Seq(STRING)
      BY <1>2
    <3>2. IsFiniteSet(1..Len(c)) /\ Known(c) \subseteq 1..Len(c)
      BY <3>1, FS_Interval DEF Known
    <3>. QED  BY <3>2, FS_Subset, FS_CardinalityType
  <2>3. ASSUME NEW kind, NEW idx PROVE Fit(Enemy(kind, idx, t))
    BY Constants DEF Enemy, NewEntity, Fit
  <2>. QED  BY <2>1, <2>2, <2>3
<1>. QED  BY <1>3, <1>4

-----------------------------------------------------------------------------
(* The invariant                                                           *)

LEMMA InitInv == Init => IInv
<1> SUFFICES ASSUME Init PROVE IInv
  OBVIOUS
<1>1. \A p \in Players : /\ Fit(player[p]) /\ player[p].alive
                         /\ player[p].ready = Interval + Attack
  <2>1. ASSUME NEW p \in Players
        PROVE  /\ Fit(player[p]) /\ player[p].alive /\ player[p].ready = Interval + Attack
    <3>1. player[p] = NewEntity(PlayerID(p), PlayerHP, MaxMP, Interval + Attack)
      BY DEF Init
    <3>2. /\ {"hp", "mp", "alive", "ready"} \subseteq DOMAIN player[p]
          /\ player[p].hp = PlayerHP /\ player[p].alive = TRUE
          /\ player[p].ready = Interval + Attack
      BY <3>1 DEF NewEntity
    <3>3. player[p].hp \in Nat /\ player[p].hp > 0 /\ player[p].ready \in Nat
      BY <3>2, Constants
    <3>4. player[p].alive \in BOOLEAN /\ player[p].alive
      BY <3>2, Zenon
    <3>5. Fit(player[p])
      BY <3>2, <3>3, <3>4, Zenon DEF Fit
    <3>. QED  BY <3>2, <3>4, <3>5
  <2>. QED  BY <2>1
<1>2. DOMAIN enemies = 1..0 /\ DOMAIN player = Players
  BY DEF Init
<1>3. TypeInv
  BY <1>1, <1>2, Constants DEF Init, TypeInv
<1>4. AliveEnemies = {} /\ AlivePlayers = Players /\ Players # {}
  <2>1. 1 \in Players
    BY BattleAssumption DEF Players
  <2>2. AlivePlayers = Players
    BY <1>1 DEF AlivePlayers, AlivePlayersIn
  <2>3. AliveEnemies = {}
    BY <1>2 DEF AliveEnemies, AliveEnemiesIn
  <2>. QED  BY <2>1, <2>2, <2>3
<1>5. DownInv /\ TimerInv /\ NextWaveInv
  BY <1>1, <1>4, Constants DEF Init, DownInv, TimerInv, NextWaveInv
<1>6. BetweenEvents /\ PlayersTurn /\ EnemiesTurn
  BY <1>4, Constants DEF Init, BetweenEvents, PlayersTurn, EnemiesTurn, Candidates
<1>. QED  BY <1>3, <1>5, <1>6 DEF IInv, WaveInv

\* A tick begins, or the battle is stopped: no entity and no time changes.
LEMMA OutsideInv ==
  ASSUME IInv, TickBegins \/ Stop \/ UNCHANGED vars
  PROVE  IInv'
<1>1. /\ UNCHANGED <<time, wave, nextWave, respawn, player, enemies, todo, cands>>
      /\ until' \in Nat
      /\ \/ pc' = pc
         \/ pc = "out" /\ pc' = "loop"
  BY Constants DEF IInv, TypeInv, TickBegins, Stop, vars, waves, turn
<1>2. TypeInv'
  BY <1>1 DEF IInv, TypeInv
<1>3. DownInv' /\ TimerInv'
  BY <1>1 DEF IInv, WaveInv, DownInv, TimerInv
<1>4. /\ AliveEnemies' = AliveEnemies /\ AlivePlayers' = AlivePlayers
      /\ Candidates' = Candidates
  BY <1>1 DEF AliveEnemies, AlivePlayers, Candidates
<1>5. NextWaveInv' /\ BetweenEvents' /\ PlayersTurn' /\ EnemiesTurn'
  BY <1>1, <1>4
     DEF IInv, TypeInv, WaveInv, NextWaveInv, BetweenEvents, PlayersTurn, EnemiesTurn
<1>. QED  BY <1>2, <1>3, <1>5 DEF IInv, WaveInv

\* The rest of a tick passes: what comes next is later than its end.
LEMMA TickEndsInv ==
  ASSUME IInv, TickEnds
  PROVE  IInv' /\ AliveEnemies' = AliveEnemies /\ AlivePlayers' = AlivePlayers
<1>. USE DEF IInv, WaveInv
<1>1. /\ UNCHANGED <<until, wave, nextWave, respawn, todo, cands>>
      /\ pc = "loop" /\ pc' = "out" /\ time' = until
      /\ player' = [p \in Players |-> Rested(player[p], PlayerHP, until)]
      /\ enemies' = [i \in DOMAIN enemies |-> Rested(enemies[i], EnemyHP, until)]
  BY DEF TickEnds, waves, turn
<1>2. DOMAIN player' = Players /\ DOMAIN enemies' = DOMAIN enemies
  BY <1>1
<1>3. \A p \in Players : /\ Fit(player'[p]) /\ player'[p].alive = player[p].alive
                         /\ player'[p].ready = player[p].ready
  <2>1. PlayerHP \in Nat \ {0} /\ until \in Nat /\ time \in Nat
    BY Constants DEF TypeInv
  <2>2. ASSUME NEW p \in Players
        PROVE  /\ Fit(player'[p]) /\ player'[p].alive = player[p].alive
               /\ player'[p].ready = player[p].ready
    <3>1. player'[p] = Rested(player[p], PlayerHP, until) /\ Fit(player[p])
      BY <1>1 DEF TypeInv
    <3>. QED  BY <2>1, <3>1, RestedFits
  <2>. QED  BY <2>2
<1>4. \A i \in DOMAIN enemies : /\ Fit(enemies'[i]) /\ enemies'[i].alive = enemies[i].alive
                                /\ enemies'[i].ready = enemies[i].ready
  BY <1>1, Constants, RestedFits DEF TypeInv
<1>5. TypeInv'
  BY <1>1, <1>2, <1>3, <1>4 DEF TypeInv
<1>6. AliveEnemies' = AliveEnemies /\ AlivePlayers' = AlivePlayers
  BY <1>2, <1>3, <1>4 DEF AliveEnemies, AlivePlayers, AliveEnemiesIn, AlivePlayersIn
<1>7. Candidates' = Candidates
  <2>1. {player'[p].ready : p \in AlivePlayers} = {player[p].ready : p \in AlivePlayers}
    BY <1>3 DEF AlivePlayers, AlivePlayersIn
  <2>2. {enemies'[i].ready : i \in AliveEnemies} = {enemies[i].ready : i \in AliveEnemies}
    BY <1>4 DEF AliveEnemies, AliveEnemiesIn
  <2>. QED  BY <1>1, <1>6, <2>1, <2>2 DEF Candidates
<1>8. \A x \in Candidates : x > until
  <2>1. Candidates \subseteq Nat /\ until \in Nat
    BY CandidatesType DEF TypeInv
  <2>2. NextEventTime = Nil \/ NextEventTime > until
    BY DEF TickEnds
  <2>. QED  BY <2>1, <2>2, NextEvent
<1>9. DownInv'
  BY <1>1, <1>3 DEF DownInv
<1>10. TimerInv' /\ NextWaveInv'
  BY <1>1, <1>6, <1>8 DEF TimerInv, NextWaveInv, Candidates
<1>11. BetweenEvents' /\ PlayersTurn' /\ EnemiesTurn'
  BY <1>1, <1>6, <1>7, <1>8 DEF BetweenEvents, PlayersTurn, EnemiesTurn
<1>. QED  BY <1>5, <1>6, <1>9, <1>10, <1>11

\* A player attacks: enemies may die, no player does, and it has had its turn.
LEMMA PlayerAttacksInv ==
  ASSUME IInv, PlayerAttacks
  PROVE  IInv' /\ AliveEnemies' \subseteq AliveEnemies /\ AlivePlayers' = AlivePlayers
<1>. USE DEF IInv, WaveInv
<1>. DEFINE q == Min(todo)
<1>1. /\ UNCHANGED <<pc, time, until, wave, nextWave, respawn, cands>>
      /\ pc = "players" /\ todo # {} /\ todo' = todo \ {q}
  BY DEF PlayerAttacks, waves
<1>2. q \in Players /\ todo \subseteq Nat
  BY <1>1, MinIsLeast DEF TypeInv, PlayersTurn
<1>3. PICK s, out : /\ s \in Skills /\ out \in CalcDamage(s)
                    /\ player' = [player EXCEPT ![q] = Acted(@, s)]
                    /\ enemies' = [enemies EXCEPT ![target] = Struck(enemies[target], s, out)]
  <2>1. ChosenSkill(player[q], PlayerPlan, enemies[target]) \in Skills
    BY ChosenIsSkill, BattleAssumption
  <2>. QED  BY <2>1 DEF PlayerAttacks
<1>4. DOMAIN player' = Players /\ DOMAIN enemies' = DOMAIN enemies
  BY <1>3 DEF TypeInv
<1>5. \A p \in Players : /\ Fit(player'[p]) /\ player'[p].alive = player[p].alive
                         /\ (p # q => player'[p].ready = player[p].ready)
  BY <1>2, <1>3, ActedFits DEF TypeInv
<1>6. player'[q].ready > time
  BY <1>2, <1>3, ActedFits DEF TypeInv
<1>7. \A i \in DOMAIN enemies : /\ Fit(enemies'[i])
                                /\ (enemies'[i].alive => enemies[i].alive)
  BY <1>3, StruckFits DEF TypeInv
<1>8. TypeInv'
  BY <1>1, <1>2, <1>4, <1>5, <1>7 DEF TypeInv
<1>9. AliveEnemies' \subseteq AliveEnemies /\ AlivePlayers' = AlivePlayers
  BY <1>4, <1>5, <1>7 DEF AliveEnemies, AlivePlayers, AliveEnemiesIn, AlivePlayersIn
<1>10. DownInv' /\ TimerInv'
  BY <1>1, <1>5 DEF DownInv, TimerInv
<1>11. NextWaveInv'
  BY <1>1, <1>9 DEF NextWaveInv
<1>12. PlayersTurn'
  <2>1. ASSUME AliveEnemies' # {}, NEW p \in AlivePlayers'
        PROVE  p \in todo' \/ player'[p].ready > time'
    <3>1. p \in todo \/ player[p].ready > time
      BY <1>1, <1>9, <2>1 DEF PlayersTurn
    <3>2. p \in Players
      BY <1>9 DEF AlivePlayers, AlivePlayersIn
    <3>. QED  BY <1>1, <1>5, <1>6, <3>1, <3>2
  <2>. QED  BY <1>1, <1>9, <2>1 DEF PlayersTurn
<1>13. BetweenEvents' /\ EnemiesTurn'
  BY <1>1 DEF BetweenEvents, EnemiesTurn
<1>. QED  BY <1>8, <1>9, <1>10, <1>11, <1>12, <1>13

\* It is the enemies' turn: every one alive and due is in todo.
LEMMA PlayersDoneInv ==
  ASSUME IInv, PlayersDone
  PROVE  IInv'
<1>. USE DEF IInv, WaveInv
<1>1. /\ UNCHANGED <<time, until, wave, nextWave, respawn, player, enemies>>
      /\ pc = "players" /\ todo = {} /\ pc' = "enemies"
      /\ todo' = {i \in AliveEnemies : time >= enemies[i].ready} /\ cands' = AlivePlayers
  BY DEF PlayersDone, waves
<1>2. AliveEnemies' = AliveEnemies /\ AlivePlayers' = AlivePlayers
  BY <1>1 DEF AliveEnemies, AlivePlayers
<1>3. AliveEnemies \subseteq DOMAIN enemies /\ AlivePlayers \subseteq Players
  BY DEF AliveEnemies, AlivePlayers, AliveEnemiesIn, AlivePlayersIn
<1>4. DOMAIN enemies \subseteq Nat
  BY DEF TypeInv
<1>5. TypeInv'
  BY <1>1, <1>3, <1>4 DEF TypeInv
<1>6. DownInv' /\ TimerInv' /\ NextWaveInv'
  BY <1>1, <1>2 DEF DownInv, TimerInv, NextWaveInv
<1>7. \A i \in AliveEnemies : enemies[i].ready \in Nat /\ time \in Nat
  BY <1>3 DEF TypeInv, Fit
<1>8. EnemiesTurn'
  BY <1>1, <1>2, <1>7 DEF PlayersTurn, EnemiesTurn
<1>9. BetweenEvents' /\ PlayersTurn'
  BY <1>1 DEF BetweenEvents, PlayersTurn
<1>. QED  BY <1>5, <1>6, <1>8, <1>9

\* An enemy attacks: whoever goes down gets a timer, and the enemy waits.
LEMMA EnemyAttacksInv ==
  ASSUME IInv, EnemyAttacks
  PROVE  /\ IInv' /\ AlivePlayers' \subseteq AlivePlayers
         /\ AliveEnemies' = AliveEnemies /\ AliveEnemies # {}
<1>. USE DEF IInv, WaveInv
<1>. DEFINE j == Min(todo)
<1>1. /\ UNCHANGED <<pc, time, until, wave, nextWave, cands>>
      /\ pc = "enemies" /\ todo # {} /\ todo' = todo \ {j}
  BY DEF EnemyAttacks, waves
<1>2. j \in AliveEnemies /\ j \in DOMAIN enemies /\ todo \subseteq Nat
  BY <1>1, MinIsLeast DEF TypeInv, EnemiesTurn, AliveEnemies, AliveEnemiesIn
<1>3. PICK q \in Players, s \in Skills, out \in UNION {CalcDamage(x) : x \in Skills} :
        /\ out \in CalcDamage(s)
        /\ enemies' = [enemies EXCEPT ![j] = Acted(@, s)]
        /\ player' = [player EXCEPT ![q] = Struck(player[q], s, out)]
        /\ respawn' = [respawn EXCEPT ![q] =
             IF Downed(player[q], Struck(player[q], s, out)) THEN time + Interval ELSE @]
  <2>1. ASSUME NEW q \in EnemyTargets
        PROVE  ChosenSkill(enemies[j], EnemyPlan, player[q]) \in Skills /\ q \in Players
    BY ChosenIsSkill, BattleAssumption DEF EnemyTargets, TypeInv
  <2>. DEFINE s(q) == ChosenSkill(enemies[j], EnemyPlan, player[q])
  <2>2. PICK q \in EnemyTargets : \E out \in CalcDamage(s(q)) :
          /\ enemies' = [enemies EXCEPT ![j] = Acted(@, s(q))]
          /\ player' = [player EXCEPT ![q] = Struck(player[q], s(q), out)]
          /\ respawn' = [respawn EXCEPT ![q] =
               IF Downed(player[q], Struck(player[q], s(q), out)) THEN time + Interval ELSE @]
    BY DEF EnemyAttacks
  <2>3. s(q) \in Skills /\ q \in Players
    BY <2>1
  <2>. HIDE DEF s
  <2>4. PICK out \in CalcDamage(s(q)) :
          /\ enemies' = [enemies EXCEPT ![j] = Acted(@, s(q))]
          /\ player' = [player EXCEPT ![q] = Struck(player[q], s(q), out)]
          /\ respawn' = [respawn EXCEPT ![q] =
               IF Downed(player[q], Struck(player[q], s(q), out)) THEN time + Interval ELSE @]
    BY <2>2
  <2>5. out \in UNION {CalcDamage(x) : x \in Skills}
    BY <2>3, <2>4
  <2>. QED  BY <2>3, <2>4, <2>5
<1>4. DOMAIN player' = Players /\ DOMAIN enemies' = DOMAIN enemies
  BY <1>3 DEF TypeInv
<1>5. \A i \in DOMAIN enemies : /\ Fit(enemies'[i]) /\ enemies'[i].alive = enemies[i].alive
                                /\ (i # j => enemies'[i].ready = enemies[i].ready)
  BY <1>2, <1>3, ActedFits DEF TypeInv
<1>6. enemies'[j].ready > time
  BY <1>2, <1>3, ActedFits DEF TypeInv
<1>7. \A p \in Players : /\ Fit(player'[p])
                         /\ (player'[p].alive => player[p].alive)
                         /\ player'[p].ready = player[p].ready
  BY <1>3, StruckFits DEF TypeInv
<1>8. \A p \in Players : p # q => player'[p] = player[p] /\ respawn'[p] = respawn[p]
  BY <1>3 DEF TypeInv
<1>9. player'[q] = Struck(player[q], s, out)
  BY <1>3 DEF TypeInv
<1>10. respawn'[q] = IF player[q].alive /\ ~player'[q].alive THEN time + Interval ELSE respawn[q]
  BY <1>3, <1>9 DEF TypeInv, Downed
<1>11. respawn' \in [Players -> Nat \cup {Nil}]
  BY <1>3, Constants DEF TypeInv
<1>12. TypeInv'
  BY <1>1, <1>2, <1>4, <1>5, <1>7, <1>11 DEF TypeInv
<1>13. AliveEnemies' = AliveEnemies /\ AlivePlayers' \subseteq AlivePlayers
  BY <1>4, <1>5, <1>7 DEF AliveEnemies, AlivePlayers, AliveEnemiesIn, AlivePlayersIn
<1>14. DownInv' /\ TimerInv'
  <2>1. time + Interval > time /\ time + Interval # Nil
    BY Constants DEF TypeInv
  <2>2. (player'[q].alive <=> respawn'[q] = Nil) /\ (respawn'[q] # Nil => respawn'[q] > time)
    BY <1>7, <1>10, <2>1 DEF DownInv, TimerInv
  <2>. QED  BY <1>1, <1>8, <2>2 DEF DownInv, TimerInv
<1>15. NextWaveInv'
  BY <1>1, <1>2 DEF NextWaveInv
<1>16. EnemiesTurn'
  <2>1. ASSUME NEW i \in AliveEnemies' PROVE i \in todo' \/ enemies'[i].ready > time'
    <3>1. i \in DOMAIN enemies /\ (i \in todo \/ enemies[i].ready > time)
      BY <1>1, <1>13 DEF EnemiesTurn, AliveEnemies, AliveEnemiesIn
    <3>. QED  BY <1>1, <1>5, <1>6, <3>1
  <2>2. ASSUME NEW p \in AlivePlayers' PROVE player'[p].ready > time'
    <3>1. p \in Players /\ player[p].ready > time
      BY <1>1, <1>2, <1>13 DEF EnemiesTurn, AlivePlayers, AlivePlayersIn
    <3>. QED  BY <1>1, <1>7, <3>1
  <2>. QED  BY <1>1, <1>2, <1>13, <2>1, <2>2 DEF EnemiesTurn
<1>17. BetweenEvents' /\ PlayersTurn'
  BY <1>1 DEF BetweenEvents, PlayersTurn
<1>. QED  BY <1>2, <1>12, <1>13, <1>14, <1>15, <1>16, <1>17

\* An event begins: the dead whose time has come are back, so somebody is
\* there, a wave whose time has come appears, and whoever is due is in todo.
LEMMA EventBeginsInv ==
  ASSUME IInv, EventBegins
  PROVE  /\ IInv' /\ AlivePlayers' # {}
         /\ \/ /\ nextWave' = nextWave /\ wave' = wave
               /\ nextWave # Nil => AliveEnemies' = AliveEnemies
            \/ nextWave # Nil /\ nextWave' = Nil /\ wave' = wave + 1
<1>. USE DEF IInv, WaveInv
<1>. DEFINE t == Most(time, NextEventTime)
            back == {p \in Players : respawn[p] # Nil /\ t >= respawn[p]}
            ps == [p \in Players |->
                    IF p \in back THEN Revived(Rested(player[p], PlayerHP, t), t)
                    ELSE Rested(player[p], PlayerHP, t)]
            rested == [i \in DOMAIN enemies |-> Rested(enemies[i], EnemyHP, t)]
            spawns == nextWave # Nil /\ t >= nextWave /\ AlivePlayersIn(ps) # {}
<1>1. PICK new \in (IF spawns THEN Spawned(t) ELSE {<<>>}) :
        /\ time' = t /\ player' = ps /\ enemies' = rested \o new
        /\ respawn' = [p \in Players |-> IF p \in back THEN Nil ELSE respawn[p]]
        /\ wave' = IF spawns THEN wave + 1 ELSE wave
        /\ nextWave' = IF spawns THEN Nil ELSE nextWave
        /\ pc' = IF AlivePlayersIn(ps) = {} THEN "loop" ELSE "players"
        /\ todo' = IF AliveEnemiesIn(enemies') = {} THEN {}
                   ELSE {p \in AlivePlayersIn(ps) : t >= ps[p].ready}
  BY DEF EventBegins
<1>2. pc = "loop" /\ NextEventTime # Nil /\ NextEventTime <= until
      /\ until' = until /\ cands' = cands
  BY DEF EventBegins
<1>3. /\ t \in Nat /\ t > time /\ t = NextEventTime /\ time \in Nat
      /\ t \in Candidates /\ \A x \in Candidates : t <= x
  <2>1. /\ NextEventTime \in Candidates /\ NextEventTime \in Nat
        /\ \A x \in Candidates : NextEventTime <= x
    BY <1>2, NextEvent
  <2>2. NextEventTime > time /\ time \in Nat
    BY <1>2, <2>1 DEF BetweenEvents, TypeInv
  <2>. QED  BY <2>1, <2>2 DEF Most
<1>. HIDE DEF t
<1>4. \A p \in Players : /\ Fit(ps[p])
                         /\ ps[p].alive <=> (player[p].alive \/ p \in back)
  <2>1. PlayerHP \in Nat \ {0}
    BY Constants
  <2>2. ASSUME NEW p \in Players
        PROVE  Fit(ps[p]) /\ (ps[p].alive <=> (player[p].alive \/ p \in back))
    <3>. DEFINE e == Rested(player[p], PlayerHP, t)
    <3>1. Fit(e) /\ e.alive = player[p].alive
      <4>1. Fit(player[p])
        BY DEF TypeInv
      <4>. QED  BY <1>3, <2>1, <4>1, RestedFits
    <3>2. Fit(Revived(e, t)) /\ Revived(e, t).alive
      BY <1>3, <3>1, RevivedFits
    <3>3. ps[p] = IF p \in back THEN Revived(e, t) ELSE e
      OBVIOUS
    <3>. QED  BY <3>1, <3>2, <3>3
  <2>. QED  BY <2>2
<1>5. /\ \E n \in Nat : DOMAIN enemies' = 1..n
      /\ \A i \in DOMAIN enemies' : Fit(enemies'[i])
      /\ ~spawns => AliveEnemies' = AliveEnemies
  <2>1. EnemyHP \in Nat \ {0}
    BY Constants
  <2>2. ASSUME NEW i \in DOMAIN enemies
        PROVE  Fit(rested[i]) /\ rested[i].alive = enemies[i].alive
    <3>1. Fit(enemies[i]) /\ rested[i] = Rested(enemies[i], EnemyHP, t)
      BY DEF TypeInv
    <3>. QED  BY <1>3, <2>1, <3>1, RestedFits
  <2>3. PICK n \in Nat : DOMAIN enemies = 1..n
    BY DEF TypeInv
  <2>4. CASE spawns
    <3>1. new \in Spawned(t)
      BY <1>1, <2>4
    <3>2. PICK k \in Nat : new = [i \in 1..k |-> new[i]]
      BY <1>3, <3>1, SpawnFits
    <3>3. \A i \in 1..k : Fit(new[i])
      BY <1>3, <3>1, <3>2, SpawnFits
    <3>. DEFINE A == {rested[i] : i \in 1..n} \cup {new[i] : i \in 1..k}
    <3>4. rested \in Seq(A) /\ new \in Seq(A) /\ Len(rested) = n /\ Len(new) = k
      BY <2>3, <3>2
    <3>5. \A a \in A : Fit(a)
      BY <2>2, <2>3, <3>3
    <3>. HIDE DEF A, rested
    <3>6. enemies' \in Seq(A) /\ Len(enemies') = n + k
      <4>1. enemies' = rested \o new
        BY <1>1
      <4>. HIDE DEF ps, back, spawns
      <4>. QED  BY <3>4, <4>1, ConcatProperties
    <3>7. \A i \in DOMAIN enemies' : Fit(enemies'[i])
      BY <3>5, <3>6
    <3>8. n + k \in Nat /\ DOMAIN enemies' = 1..(n + k)
      BY <3>6
    <3>. QED  BY <2>4, <3>7, <3>8
  <2>5. CASE ~spawns
    <3>1. new = <<>>
      BY <1>1, <2>5
    <3>2. enemies' = rested
      <4>. DEFINE A == {rested[i] : i \in 1..n}
      <4>1. rested \in Seq(A)
        BY <2>3
      <4>. HIDE DEF rested, A
      <4>. QED  BY <1>1, <3>1, <4>1
    <3>3. AliveEnemies' = AliveEnemies
      BY <2>2, <3>2 DEF AliveEnemies, AliveEnemiesIn
    <3>. QED  BY <2>2, <2>3, <3>2, <3>3
  <2>. QED  BY <2>4, <2>5
<1>. HIDE DEF rested
<1>6. AlivePlayers' = AlivePlayersIn(ps) /\ AlivePlayersIn(ps) \subseteq Players
  BY <1>1 DEF AlivePlayers, AlivePlayersIn
<1>7. AlivePlayers' # {}
  <2>1. SUFFICES ASSUME AlivePlayers' = {} PROVE FALSE
    OBVIOUS
  <2>2. \A p \in Players : ~player[p].alive /\ p \notin back
    BY <1>4, <1>6, <2>1 DEF AlivePlayersIn
  <2>3. AlivePlayers = {}
    BY <2>2 DEF AlivePlayers, AlivePlayersIn
  <2>4. PICK p \in Players : respawn[p] # Nil /\ t = respawn[p]
    BY <1>3, <2>3 DEF Candidates, NextWaveInv
  <2>5. p \in back
    BY <1>3, <2>4
  <2>. QED  BY <2>2, <2>5
<1>8. /\ pc' = "players" /\ todo' \subseteq Players
      /\ todo' = IF AliveEnemies' = {} THEN {} ELSE {p \in AlivePlayers' : t >= player'[p].ready}
  BY <1>1, <1>6, <1>7 DEF AliveEnemies
<1>9. respawn' \in [Players -> Nat \cup {Nil}] /\ DOMAIN player' = Players
  BY <1>1 DEF TypeInv
<1>10. wave' \in Nat /\ nextWave' \in Nat \cup {Nil} /\ Players \subseteq Nat
  BY <1>1 DEF TypeInv, Players
<1>11. TypeInv'
  BY <1>1, <1>2, <1>3, <1>4, <1>5, <1>8, <1>9, <1>10 DEF TypeInv
<1>12. DownInv'
  <2>1. \A p \in Players : respawn'[p] = Nil <=> (p \in back \/ respawn[p] = Nil)
    BY <1>1
  <2>. QED  BY <1>1, <1>4, <2>1 DEF DownInv
<1>13. TimerInv'
  <2>1. ASSUME NEW p \in Players, respawn'[p] # Nil PROVE respawn'[p] > time'
    <3>1. respawn'[p] = respawn[p] /\ p \notin back /\ respawn[p] \in Nat
      BY <1>1, <2>1 DEF TypeInv
    <3>. QED  BY <1>1, <1>3, <2>1, <3>1
  <2>. QED  BY <2>1 DEF TimerInv
<1>14. NextWaveInv'
  <2>1. SUFFICES ASSUME nextWave' # Nil
                 PROVE  nextWave' > time' /\ AliveEnemies' = {} /\ AlivePlayers' # {}
    BY DEF NextWaveInv
  <2>2. ~spawns /\ nextWave' = nextWave /\ nextWave \in Nat
    BY <1>1, <2>1 DEF TypeInv
  <2>3. nextWave > t
    BY <1>3, <1>6, <1>7, <2>1, <2>2
  <2>. QED  BY <1>1, <1>5, <1>7, <2>1, <2>2, <2>3 DEF NextWaveInv
<1>15. PlayersTurn'
  <2>1. ASSUME AliveEnemies' # {}, NEW p \in AlivePlayers'
        PROVE  p \in todo' \/ player'[p].ready > time'
    <3>1. player'[p].ready \in Nat
      BY <1>1, <1>4, <1>6 DEF Fit
    <3>2. t >= player'[p].ready => p \in todo'
      BY <1>8, <2>1
    <3>3. time' = t
      BY <1>1
    <3>. HIDE DEF ps, back, spawns
    <3>. QED  BY <1>3, <3>1, <3>2, <3>3
  <2>. QED  BY <1>7, <1>8, <2>1 DEF PlayersTurn
<1>16. BetweenEvents' /\ EnemiesTurn'
  BY <1>8 DEF BetweenEvents, EnemiesTurn
<1>17. \/ /\ nextWave' = nextWave /\ wave' = wave
          /\ nextWave # Nil => AliveEnemies' = AliveEnemies
       \/ nextWave # Nil /\ nextWave' = Nil /\ wave' = wave + 1
  BY <1>1, <1>5
<1>. QED  BY <1>7, <1>11, <1>12, <1>13, <1>14, <1>15, <1>16, <1>17

\* An event ends: nobody is due any more, and a battle without enemies has a wave to come.
LEMMA EventEndsInv ==
  ASSUME IInv, EventEnds
  PROVE  IInv'
<1>. USE DEF IInv, WaveInv
<1>1. /\ UNCHANGED <<time, until, wave, player, enemies, respawn, todo>>
      /\ pc = "enemies" /\ todo = {} /\ pc' = "loop" /\ cands' = {}
      /\ nextWave' = IF Cleared THEN time + Interval ELSE nextWave
  BY DEF EventEnds
<1>2. AliveEnemies' = AliveEnemies /\ AlivePlayers' = AlivePlayers
  BY <1>1 DEF AliveEnemies, AlivePlayers
<1>3. time + Interval \in Nat /\ time + Interval > time /\ Nil \notin Nat
  BY Constants DEF TypeInv
<1>4. nextWave' \in Nat \cup {Nil}
  BY <1>1, <1>3 DEF TypeInv
<1>5. TypeInv'
  BY <1>1, <1>4 DEF TypeInv
<1>6. DownInv' /\ TimerInv'
  BY <1>1 DEF DownInv, TimerInv
<1>7. NextWaveInv'
  BY <1>1, <1>2, <1>3 DEF NextWaveInv, Cleared
<1>8. AliveEnemies = {} => nextWave' # Nil
  BY <1>1, <1>3 DEF EnemiesTurn, Cleared
<1>9. ASSUME NEW x \in Candidates' PROVE x > time'
  <2>1. CASE \E p \in Players : respawn[p] # Nil /\ x = respawn[p]
    BY <1>1, <2>1 DEF TimerInv
  <2>2. CASE nextWave' # Nil /\ x = nextWave'
    BY <1>7, <2>2 DEF NextWaveInv
  <2>3. CASE /\ AliveEnemies # {}
             /\ \/ \E p \in AlivePlayers : x = player[p].ready
                \/ \E i \in AliveEnemies : x = enemies[i].ready
    BY <1>1, <2>3 DEF EnemiesTurn
  <2>. QED  BY <1>1, <1>2, <2>1, <2>2, <2>3 DEF Candidates
<1>10. BetweenEvents' /\ PlayersTurn' /\ EnemiesTurn'
  BY <1>1, <1>2, <1>8, <1>9 DEF BetweenEvents, PlayersTurn, EnemiesTurn
<1>. QED  BY <1>5, <1>6, <1>7, <1>10

\* Only a battle that runs is advanced.
RunInv == running \in BOOLEAN /\ (pc # "out" => running)

LEMMA Invariance == Spec => [](IInv /\ RunInv)
<1>1. IInv /\ [Next]_vars => IInv'
  BY OutsideInv, TickEndsInv, EventBeginsInv, PlayerAttacksInv, PlayersDoneInv,
     EnemyAttacksInv, EventEndsInv DEF Next
<1>2. Init => RunInv
  BY DEF Init, RunInv
<1>3. RunInv /\ [Next]_vars => RunInv'
  BY DEF RunInv, Next, vars, TickBegins, TickEnds, EventBegins, PlayerAttacks, PlayersDone,
         EnemyAttacks, EventEnds, Stop
<1>. QED  BY InitInv, <1>1, <1>2, <1>3, PTL DEF Spec

-----------------------------------------------------------------------------
(* The logs of a tick                                                      *)

IsSeq(s) == s \in Seq({s[i] : i \in DOMAIN s})

\* Every sequence is one of its own elements.
LEMMA AnySeq ==
  ASSUME NEW B, NEW w \in Seq(B)
  PROVE  IsSeq(w)
<1>. DEFINE A == {w[i] : i \in DOMAIN w}
<1>1. Len(w) \in Nat /\ DOMAIN w = 1..Len(w) /\ w = [i \in 1..Len(w) |-> w[i]]
  OBVIOUS
<1>2. \A i \in 1..Len(w) : w[i] \in A
  BY <1>1
<1>. HIDE DEF A
<1>3. w \in [1..Len(w) -> A]
  BY <1>1, <1>2
<1>4. w \in Seq(A)
  BY <1>1, <1>3
<1>. QED  BY <1>4 DEF IsSeq, A

\* The last entry of two lists of logs.
LEMMA LastOfBoth ==
  ASSUME NEW s, IsSeq(s), NEW u, IsSeq(u)
  PROVE  /\ IsSeq(s \o u)
         /\ u = <<>> => s \o u = s
         /\ u # <<>> => s \o u # <<>> /\ (s \o u)[Len(s \o u)] = u[Len(u)]
<1>. DEFINE A == {s[i] : i \in DOMAIN s} \cup {u[i] : i \in DOMAIN u}
            w == s \o u
<1>1. s \in Seq(A) /\ u \in Seq(A)
  BY DEF IsSeq
<1>. HIDE DEF A
<1>2. /\ w \in Seq(A) /\ Len(w) = Len(s) + Len(u)
      /\ \A i \in 1..Len(w) : w[i] = IF i <= Len(s) THEN s[i] ELSE u[i - Len(s)]
  BY <1>1, ConcatProperties
<1>3. IsSeq(w)
  BY <1>2, AnySeq
<1>4. u = <<>> => w = s
  BY <1>1
<1>5. ASSUME u # <<>> PROVE w # <<>> /\ w[Len(w)] = u[Len(u)]
  <2>1. Len(s) \in Nat /\ Len(u) \in Nat /\ Len(u) > 0
    BY <1>1, <1>5
  <2>2. Len(w) \in 1..Len(w) /\ ~(Len(w) <= Len(s)) /\ Len(w) - Len(s) = Len(u)
    BY <1>2, <2>1
  <2>. QED  BY <1>2, <2>2
<1>. QED  BY <1>3, <1>4, <1>5

\* Whether the last entry reports that all are down.
Ends(s) == s # <<>> /\ s[Len(s)].type = "all_players_downed"

\* A list with one entry, and with none.
LEMMA OneLog ==
  ASSUME NEW type, NEW from, NEW to
  PROVE  /\ IsSeq(<<Log(type, from, to)>>) /\ <<Log(type, from, to)>> # <<>>
         /\ Ends(<<Log(type, from, to)>>) <=> type = "all_players_downed"
<1>. DEFINE l == Log(type, from, to)
<1>1. l.type = type
  BY DEF Log
<1>. HIDE DEF l
<1>2. <<l>> # <<>> /\ Len(<<l>>) = 1 /\ <<l>>[1] = l /\ IsSeq(<<l>>)
  BY DEF IsSeq
<1>. QED  BY <1>1, <1>2 DEF Ends, l

LEMMA NoLog == IsSeq(<<>>) /\ ~Ends(<<>>)
  BY DEF IsSeq, Ends

\* What is reported last is the last of what is added.
LEMMA EndsOfBoth ==
  ASSUME NEW s, IsSeq(s), NEW u, IsSeq(u)
  PROVE  /\ IsSeq(s \o u)
         /\ u = <<>> => s \o u = s
         /\ u # <<>> => s \o u # <<>> /\ (Ends(s \o u) <=> Ends(u))
  BY LastOfBoth DEF Ends

\* While an event goes on its logs do not end with a wipe; between two events
\* they do exactly if all are down.
LogInv ==
  /\ IsSeq(logs)
  /\ pc \in {"players", "enemies"} => ~Ends(logs)
  /\ pc = "loop" /\ logs # <<>> => (Ends(logs) <=> AlivePlayers = {})

\* An order of the elements of a finite set has each of them.
LEMMA OrderIs ==
  ASSUME NEW S, IsFiniteSet(S), NEW order \in SetToSeqs(S)
  PROVE  /\ Cardinality(S) \in Nat /\ DOMAIN order = 1..Cardinality(S)
         /\ \A x \in S : \E i \in DOMAIN order : order[i] = x
<1>. DEFINE D == 1..Cardinality(S)
<1>1. Cardinality(S) \in Nat
  BY FS_CardinalityType
<1>2. order \in [D -> S] /\ \A i, j \in D : i # j => order[i] # order[j]
  BY DEF SetToSeqs
<1>3. Cardinality(D) = Cardinality(S)
  BY <1>1, FS_Interval
<1>. HIDE DEF D
<1>4. order \in Injection(D, S)
  BY <1>2 DEF Injection, IsInjective
<1>5. order \in Surjection(D, S)
  BY <1>3, <1>4, FS_Injection
<1>. QED  BY <1>1, <1>2, <1>5 DEF Surjection, D

LEMMA BackFinite == \A S \in SUBSET Players : IsFiniteSet(S)
<1>1. NPlayers \in Nat
  BY BattleAssumption
<1>2. IsFiniteSet(Players)
  BY <1>1, FS_Interval DEF Players
<1>. QED  BY <1>2, FS_Subset

\* An event that begins revives somebody and says so, or finds somebody alive as
\* before; no blow reports a wipe; the end of an event does, if all are down.
LEMMA LogStep ==
  ASSUME IInv, IInv', LogInv, [Next]_vars
  PROVE  LogInv'
<1>1. CASE TickBegins
  BY <1>1, NoLog DEF TickBegins, LogInv
<1>2. CASE TickEnds
  BY <1>2, NoLog DEF TickEnds, LogInv
<1>3. CASE EventBegins
  <2>. DEFINE t == Most(time, NextEventTime)
              back == {p \in Players : respawn[p] # Nil /\ t >= respawn[p]}
              ps == [p \in Players |->
                      IF p \in back THEN Revived(Rested(player[p], PlayerHP, t), t)
                      ELSE Rested(player[p], PlayerHP, t)]
              spawns == nextWave # Nil /\ t >= nextWave /\ AlivePlayersIn(ps) # {}
              spawned == IF spawns /\ Combinations # {}
                         THEN <<Log("wave_spawned", NoID, NoID)>> ELSE <<>>
  <2>10. PICK order \in SetToSeqs(back) :
        logs' = logs \o [i \in DOMAIN order |-> Log("player_respawn", PlayerID(order[i]), NoID)]
              \o spawned
              \o (IF AlivePlayersIn(ps) = {} THEN <<Log("all_players_downed", NoID, NoID)>> ELSE <<>>)
    BY <1>3 DEF EventBegins
  <2>. DEFINE reborn == [i \in DOMAIN order |-> Log("player_respawn", PlayerID(order[i]), NoID)]
  <2>1. /\ pc = "loop" /\ player' = ps
        /\ respawn' = [p \in Players |-> IF p \in back THEN Nil ELSE respawn[p]]
        /\ logs' = logs \o reborn \o spawned
              \o (IF AlivePlayersIn(ps) = {} THEN <<Log("all_players_downed", NoID, NoID)>> ELSE <<>>)
        /\ pc' = IF AlivePlayersIn(ps) = {} THEN "loop" ELSE "players"
    BY <1>3, <2>10 DEF EventBegins
  <2>2. AlivePlayersIn(ps) # {} /\ AlivePlayers' = AlivePlayersIn(ps)
    BY <1>3, <2>1, EventBeginsInv DEF AlivePlayers
  <2>3. /\ Cardinality(back) \in Nat /\ (back # {} => Cardinality(back) # 0)
        /\ DOMAIN order = 1..Cardinality(back)
    <3>1. IsFiniteSet(back) /\ order \in SetToSeqs(back)
      BY BackFinite
    <3>. HIDE DEF back
    <3>. QED  BY <3>1, OrderIs, FS_EmptySet
  <2>4. ASSUME back = {} PROVE AlivePlayers # {}
    <3>1. \A p \in Players : respawn'[p] = respawn[p]
      BY <2>1, <2>4
    <3>2. PICK p \in Players : p \in AlivePlayers'
      BY <2>2 DEF AlivePlayersIn
    <3>3. player'[p].alive
      BY <3>2 DEF AlivePlayers, AlivePlayersIn
    <3>4. player[p].alive
      BY <3>1, <3>2, <3>3 DEF IInv, DownInv
    <3>. QED  BY <3>4 DEF AlivePlayers, AlivePlayersIn
  <2>. HIDE DEF t, back, ps
  <2>5. IsSeq(reborn) /\ ~Ends(reborn) /\ (back # {} => reborn # <<>>)
    <3>. DEFINE R(i) == Log("player_respawn", PlayerID(order[i]), NoID)
    <3>2. \A i \in 1..Cardinality(back) : reborn[i].type = "player_respawn"
      BY <2>3 DEF Log
    <3>4. reborn = [i \in 1..Cardinality(back) |-> R(i)]
      BY <2>3
    <3>. HIDE DEF reborn, R
    <3>1. Len(reborn) = Cardinality(back) /\ IsSeq(reborn)
      BY <2>3, <3>4 DEF IsSeq
    <3>3. back # {} => reborn # <<>>
      BY <2>3, <3>1
    <3>5. ASSUME Ends(reborn) PROVE FALSE
      <4>1. Len(reborn) \in 1..Cardinality(back)
        BY <2>3, <3>1, <3>5 DEF Ends, IsSeq
      <4>. QED  BY <3>1, <3>2, <3>5, <4>1 DEF Ends
    <3>. QED  BY <3>1, <3>3, <3>5
  <2>6. IsSeq(spawned) /\ ~Ends(spawned)
    BY OneLog, NoLog
  <2>. HIDE DEF reborn, spawned
  <2>7. logs' = logs \o reborn \o spawned /\ IsSeq(logs \o reborn \o spawned)
    <3>1. IsSeq(logs \o reborn)
      BY <2>5, EndsOfBoth DEF LogInv
    <3>2. IsSeq(logs \o reborn \o spawned)
      BY <2>6, <3>1, EndsOfBoth
    <3>3. (logs \o reborn \o spawned) \o <<>> = logs \o reborn \o spawned
      BY <3>2, NoLog, EndsOfBoth
    <3>. QED  BY <2>1, <2>2, <3>2, <3>3
  <2>8. ~Ends(logs \o reborn)
    <3>1. CASE reborn # <<>>
      BY <2>5, <3>1, EndsOfBoth DEF LogInv
    <3>2. CASE reborn = <<>>
      <4>1. logs \o reborn = logs /\ AlivePlayers # {}
        BY <2>4, <2>5, <3>2, EndsOfBoth DEF LogInv
      <4>. QED  BY <2>1, <4>1 DEF LogInv, Ends
    <3>. QED  BY <3>1, <3>2
  <2>9. ~Ends(logs \o reborn \o spawned)
    BY <2>5, <2>6, <2>8, EndsOfBoth DEF LogInv
  <2>. QED  BY <2>1, <2>2, <2>7, <2>9 DEF LogInv
<1>4. CASE PlayerAttacks
  <2>1. PICK l, m : /\ IsSeq(l) /\ IsSeq(m) /\ l # <<>> /\ ~Ends(l) /\ ~Ends(m)
                    /\ logs' = logs \o l \o m
    <3>1. PICK from, foe, struck :
            logs' = logs \o <<Log("player_attack", from, foe.id)>>
              \o (IF foe.alive /\ ~struck.alive
                  THEN <<Log("enemy_died", foe.id, NoID)>> ELSE <<>>)
      BY <1>4 DEF PlayerAttacks
    <3>. DEFINE l == <<Log("player_attack", from, foe.id)>>
                m == IF foe.alive /\ ~struck.alive
                     THEN <<Log("enemy_died", foe.id, NoID)>> ELSE <<>>
    <3>2. IsSeq(l) /\ IsSeq(m) /\ l # <<>> /\ ~Ends(l) /\ ~Ends(m)
      BY OneLog, NoLog
    <3>. HIDE DEF l, m
    <3>3. logs' = logs \o l \o m
      BY <3>1 DEF l, m
    <3>. QED  BY <3>2, <3>3
  <2>2. IsSeq(logs') /\ ~Ends(logs')
    BY <2>1, EndsOfBoth DEF LogInv
  <2>3. pc' = "players"
    BY <1>4 DEF PlayerAttacks
  <2>. QED  BY <2>2, <2>3 DEF LogInv
<1>5. CASE PlayersDone
  BY <1>5 DEF PlayersDone, LogInv
<1>6. CASE EnemyAttacks
  <2>1. PICK l, m : /\ IsSeq(l) /\ IsSeq(m) /\ l # <<>> /\ ~Ends(l) /\ ~Ends(m)
                    /\ logs' = logs \o l \o m
    <3>1. PICK from, to, down :
            logs' = logs \o <<Log("enemy_attack", from, to)>>
              \o (IF down THEN <<Log("player_downed", NoID, to)>> ELSE <<>>)
      BY <1>6 DEF EnemyAttacks
    <3>. DEFINE l == <<Log("enemy_attack", from, to)>>
                m == IF down THEN <<Log("player_downed", NoID, to)>> ELSE <<>>
    <3>2. IsSeq(l) /\ IsSeq(m) /\ l # <<>> /\ ~Ends(l) /\ ~Ends(m)
      BY OneLog, NoLog
    <3>. HIDE DEF l, m
    <3>3. logs' = logs \o l \o m
      BY <3>1 DEF l, m
    <3>. QED  BY <3>2, <3>3
  <2>2. IsSeq(logs') /\ ~Ends(logs')
    BY <2>1, EndsOfBoth DEF LogInv
  <2>3. pc' = "enemies"
    BY <1>6 DEF EnemyAttacks
  <2>. QED  BY <2>2, <2>3 DEF LogInv
<1>7. CASE EventEnds
  <2>. DEFINE wipe == WipeLog(AlivePlayers)
              clear == IF Cleared THEN <<Log("wave_cleared", NoID, NoID)>> ELSE <<>>
  <2>1. /\ pc = "enemies" /\ pc' = "loop" /\ AlivePlayers' = AlivePlayers
        /\ logs' = logs \o wipe \o clear
    BY <1>7 DEF EventEnds, AlivePlayers
  <2>2. /\ IsSeq(wipe) /\ (wipe # <<>> <=> AlivePlayers = {})
        /\ Ends(wipe) <=> AlivePlayers = {}
    BY OneLog, NoLog DEF WipeLog
  <2>3. IsSeq(clear) /\ ~Ends(clear) /\ (AlivePlayers = {} => clear = <<>>)
    BY OneLog, NoLog DEF Cleared
  <2>. HIDE DEF wipe, clear
  <2>4. IsSeq(logs) /\ ~Ends(logs)
    BY <2>1 DEF LogInv
  <2>5. IsSeq(logs \o wipe) /\ (Ends(logs \o wipe) <=> AlivePlayers = {})
    BY <2>2, <2>4, EndsOfBoth
  <2>6. IsSeq(logs') /\ (Ends(logs') <=> AlivePlayers = {})
    BY <2>1, <2>3, <2>5, EndsOfBoth
  <2>. QED  BY <2>1, <2>6 DEF LogInv
<1>8. CASE Stop
  BY <1>8 DEF Stop, LogInv
<1>9. CASE UNCHANGED vars
  BY <1>9 DEF vars, LogInv, AlivePlayers
<1>. QED  BY <1>1, <1>2, <1>3, <1>4, <1>5, <1>6, <1>7, <1>8, <1>9 DEF Next

-----------------------------------------------------------------------------
(* What clients know                                                       *)

\* The entities that some logs name.
Named(s) == UNION {{s[i].attacker, s[i].defender} : i \in DOMAIN s}

LEMMA NamedInBoth ==
  ASSUME NEW s, IsSeq(s), NEW u, IsSeq(u)
  PROVE  IsSeq(s \o u) /\ Named(s) \subseteq Named(s \o u) /\ Named(u) \subseteq Named(s \o u)
<1>. DEFINE A == {s[i] : i \in DOMAIN s} \cup {u[i] : i \in DOMAIN u}
            w == s \o u
<1>1. s \in Seq(A) /\ u \in Seq(A)
  BY DEF IsSeq
<1>. HIDE DEF A
<1>2. /\ w \in Seq(A) /\ Len(w) = Len(s) + Len(u)
      /\ \A i \in 1..Len(w) : w[i] = IF i <= Len(s) THEN s[i] ELSE u[i - Len(s)]
  BY <1>1, ConcatProperties
<1>3. Len(s) \in Nat /\ Len(u) \in Nat /\ DOMAIN s = 1..Len(s) /\ DOMAIN u = 1..Len(u)
      /\ DOMAIN w = 1..Len(w)
  BY <1>1, <1>2
<1>4. \A i \in DOMAIN s : i \in DOMAIN w /\ w[i] = s[i]
  BY <1>2, <1>3
<1>5. \A i \in DOMAIN u : Len(s) + i \in DOMAIN w /\ w[Len(s) + i] = u[i]
  BY <1>2, <1>3
<1>6. Named(s) \subseteq Named(w) /\ Named(u) \subseteq Named(w)
  BY <1>4, <1>5 DEF Named
<1>. QED  BY <1>6, LastOfBoth

LEMMA NamedInOne ==
  ASSUME NEW type, NEW from, NEW to
  PROVE  {from, to} \subseteq Named(<<Log(type, from, to)>>)
<1>. DEFINE l == Log(type, from, to)
<1>1. l.attacker = from /\ l.defender = to
  BY DEF Log
<1>. HIDE DEF l
<1>2. 1 \in DOMAIN <<l>> /\ <<l>>[1] = l
  OBVIOUS
<1>. QED  BY <1>1, <1>2 DEF Named, l

\* Whoever is not as the clients believe is in the logs that go out next.
ShownInv ==
  /\ IsSeq(logs) /\ (pc = "out" => logs = <<>>)
  /\ \A p \in Players : shown[p] = player[p].alive \/ PlayerID(p) \in Named(logs)

\* Logs that go on naming whom they named, and name everybody whose respawn
\* timer has changed.
LEMMA ReportedAll ==
  ASSUME IInv, IInv', ShownInv, shown' = shown, pc' # "out",
         IsSeq(logs'), Named(logs) \subseteq Named(logs'),
         \A p \in Players : respawn'[p] = respawn[p] \/ PlayerID(p) \in Named(logs')
  PROVE  ShownInv'
<1>1. ASSUME NEW p \in Players
      PROVE  shown'[p] = player'[p].alive \/ PlayerID(p) \in Named(logs')
  <2>1. CASE respawn'[p] = respawn[p]
    <3>1. /\ player[p].alive <=> respawn[p] = Nil
          /\ player'[p].alive <=> respawn'[p] = Nil
          /\ player[p].alive \in BOOLEAN /\ player'[p].alive \in BOOLEAN
      BY DEF IInv, DownInv, TypeInv, Fit
    <3>2. player'[p].alive = player[p].alive
      BY <2>1, <3>1
    <3>. QED  BY <3>2 DEF ShownInv
  <2>2. CASE PlayerID(p) \in Named(logs')
    BY <2>2
  <2>. QED  BY <2>1, <2>2
<1>. QED  BY <1>1 DEF ShownInv

\* A revival, a blow and a death are each in a log that names the player.
LEMMA ShownStep ==
  ASSUME IInv, IInv', ShownInv, [Next]_vars
  PROVE  ShownInv'
<1>1. CASE TickBegins
  <2>1. logs = <<>> /\ logs' = <<>> /\ shown' = shown /\ player' = player /\ pc' = "loop"
    BY <1>1 DEF TickBegins, ShownInv
  <2>. QED  BY <2>1 DEF ShownInv, IsSeq, Named
<1>2. CASE TickEnds
  <2>1. /\ logs' = <<>> /\ respawn' = respawn
        /\ \A p \in Players : shown'[p] = IF PlayerID(p) \in Affected \/ until % Heartbeat = 0
                                         THEN player[p].alive ELSE shown[p]
    BY <1>2 DEF TickEnds, Snapshot
  <2>2. Affected = Named(logs)
    BY DEF Affected, Named
  <2>3. ASSUME NEW p \in Players PROVE shown'[p] = player'[p].alive
    <3>1. /\ player[p].alive <=> respawn[p] = Nil
          /\ player'[p].alive <=> respawn'[p] = Nil
          /\ player[p].alive \in BOOLEAN /\ player'[p].alive \in BOOLEAN
      BY DEF IInv, DownInv, TypeInv, Fit
    <3>2. player'[p].alive = player[p].alive
      BY <2>1, <3>1
    <3>. QED  BY <3>2, <2>1, <2>2 DEF ShownInv
  <2>. QED  BY <2>1, <2>3, NoLog DEF ShownInv
<1>3. CASE EventBegins
  <2>. DEFINE t == Most(time, NextEventTime)
              back == {p \in Players : respawn[p] # Nil /\ t >= respawn[p]}
              ps == [p \in Players |->
                      IF p \in back THEN Revived(Rested(player[p], PlayerHP, t), t)
                      ELSE Rested(player[p], PlayerHP, t)]
              spawns == nextWave # Nil /\ t >= nextWave /\ AlivePlayersIn(ps) # {}
              spawned == IF spawns /\ Combinations # {}
                         THEN <<Log("wave_spawned", NoID, NoID)>> ELSE <<>>
              wiped == IF AlivePlayersIn(ps) = {}
                       THEN <<Log("all_players_downed", NoID, NoID)>> ELSE <<>>
  <2>1. PICK order \in SetToSeqs(back) :
          logs' = logs \o [i \in DOMAIN order |-> Log("player_respawn", PlayerID(order[i]), NoID)]
                    \o spawned \o wiped
    BY <1>3 DEF EventBegins
  <2>2. /\ respawn' = [p \in Players |-> IF p \in back THEN Nil ELSE respawn[p]]
        /\ shown' = shown /\ pc' # "out"
    BY <1>3 DEF EventBegins
  <2>. DEFINE reborn == [i \in DOMAIN order |-> Log("player_respawn", PlayerID(order[i]), NoID)]
  <2>3. \A p \in Players : respawn'[p] = respawn[p] \/ p \in back
    BY <2>2
  <2>4. IsFiniteSet(back)
    BY BackFinite
  <2>. HIDE DEF back
  <2>5. /\ Cardinality(back) \in Nat /\ DOMAIN order = 1..Cardinality(back)
        /\ \A p \in back : \E i \in DOMAIN order : order[i] = p
    BY <2>4, OrderIs
  <2>6. IsSeq(reborn)
    <3>. DEFINE R(i) == Log("player_respawn", PlayerID(order[i]), NoID)
    <3>1. reborn = [i \in 1..Cardinality(back) |-> R(i)]
      BY <2>5
    <3>. HIDE DEF R, reborn
    <3>. QED  BY <2>5, <3>1 DEF IsSeq
  <2>7. \A p \in back : PlayerID(p) \in Named(reborn)
    BY <2>5 DEF Named, Log
  <2>8. IsSeq(spawned) /\ IsSeq(wiped)
    BY OneLog, NoLog
  <2>. HIDE DEF reborn, spawned, wiped
  <2>9. logs' = logs \o reborn \o spawned \o wiped
    BY <2>1 DEF reborn
  <2>10. ShownInv'
    <3>1. /\ IsSeq(logs \o reborn) /\ IsSeq(logs \o reborn \o spawned) /\ IsSeq(logs')
          /\ Named(logs) \subseteq Named(logs') /\ Named(reborn) \subseteq Named(logs')
      <4>1. /\ IsSeq(logs \o reborn) /\ Named(logs) \subseteq Named(logs \o reborn)
            /\ Named(reborn) \subseteq Named(logs \o reborn)
        BY <2>6, NamedInBoth DEF ShownInv
      <4>2. /\ IsSeq(logs \o reborn \o spawned)
            /\ Named(logs \o reborn) \subseteq Named(logs \o reborn \o spawned)
        BY <2>8, <4>1, NamedInBoth
      <4>3. IsSeq(logs') /\ Named(logs \o reborn \o spawned) \subseteq Named(logs')
        BY <2>8, <2>9, <4>2, NamedInBoth
      <4>. QED  BY <4>1, <4>2, <4>3
    <3>. QED  BY <3>1, <2>2, <2>3, <2>7, ReportedAll
  <2>. QED  BY <2>10
<1>4. CASE PlayerAttacks
  <2>1. PICK from, foe, struck :
          logs' = logs \o <<Log("player_attack", from, foe.id)>>
            \o (IF foe.alive /\ ~struck.alive
                THEN <<Log("enemy_died", foe.id, NoID)>> ELSE <<>>)
    BY <1>4 DEF PlayerAttacks
  <2>2. respawn' = respawn /\ shown' = shown /\ pc' = pc /\ pc = "players"
    BY <1>4 DEF PlayerAttacks
  <2>. DEFINE l == <<Log("player_attack", from, foe.id)>>
              m == IF foe.alive /\ ~struck.alive
                   THEN <<Log("enemy_died", foe.id, NoID)>> ELSE <<>>
  <2>3. IsSeq(l) /\ IsSeq(m)
    BY OneLog, NoLog
  <2>. HIDE DEF l, m
  <2>4. logs' = logs \o l \o m
    BY <2>1 DEF l, m
  <2>5. IsSeq(logs') /\ Named(logs) \subseteq Named(logs')
    BY <2>3, <2>4, NamedInBoth DEF ShownInv
  <2>. QED  BY <2>2, <2>5, ReportedAll
<1>5. CASE PlayersDone
  <2>1. logs' = logs /\ shown' = shown /\ player' = player /\ pc' = "enemies"
    BY <1>5 DEF PlayersDone
  <2>. QED  BY <2>1 DEF ShownInv, IsSeq, Named
<1>6. CASE EnemyAttacks
  <2>1. PICK q \in Players : \E from, down :
          /\ logs' = logs \o <<Log("enemy_attack", from, PlayerID(q))>>
               \o (IF down THEN <<Log("player_downed", NoID, PlayerID(q))>> ELSE <<>>)
          /\ respawn' = [respawn EXCEPT ![q] = IF down THEN time + Interval ELSE @]
    BY <1>6 DEF EnemyAttacks, EnemyTargets, IInv, TypeInv
  <2>. PICK from, down :
          /\ logs' = logs \o <<Log("enemy_attack", from, PlayerID(q))>>
               \o (IF down THEN <<Log("player_downed", NoID, PlayerID(q))>> ELSE <<>>)
          /\ respawn' = [respawn EXCEPT ![q] = IF down THEN time + Interval ELSE @]
    BY <2>1
  <2>2. shown' = shown /\ pc' = pc /\ pc = "enemies"
    BY <1>6 DEF EnemyAttacks
  <2>. DEFINE l == <<Log("enemy_attack", from, PlayerID(q))>>
              m == IF down THEN <<Log("player_downed", NoID, PlayerID(q))>> ELSE <<>>
  <2>3. IsSeq(l) /\ IsSeq(m)
    BY OneLog, NoLog
  <2>4. PlayerID(q) \in Named(l)
    BY NamedInOne
  <2>. HIDE DEF l, m
  <2>5. logs' = logs \o l \o m
    BY <2>1 DEF l, m
  <2>6. /\ IsSeq(logs') /\ Named(logs) \subseteq Named(logs') /\ Named(l) \subseteq Named(logs')
    <3>1. IsSeq(logs \o l) /\ Named(logs) \subseteq Named(logs \o l) /\ Named(l) \subseteq Named(logs \o l)
      BY <2>3, NamedInBoth DEF ShownInv
    <3>2. IsSeq(logs') /\ Named(logs \o l) \subseteq Named(logs')
      BY <2>3, <2>5, <3>1, NamedInBoth
    <3>. QED  BY <3>1, <3>2
  <2>7. \A p \in Players : respawn'[p] = respawn[p] \/ PlayerID(p) \in Named(logs')
    BY <2>1, <2>4, <2>6 DEF IInv, TypeInv
  <2>. QED  BY <2>2, <2>6, <2>7, ReportedAll
<1>7. CASE EventEnds
  <2>. DEFINE wipe == WipeLog(AlivePlayers)
              clear == IF Cleared THEN <<Log("wave_cleared", NoID, NoID)>> ELSE <<>>
  <2>1. /\ pc' = "loop" /\ respawn' = respawn /\ shown' = shown
        /\ logs' = logs \o wipe \o clear
    BY <1>7 DEF EventEnds
  <2>2. IsSeq(wipe) /\ IsSeq(clear)
    BY OneLog, NoLog DEF WipeLog
  <2>. HIDE DEF wipe, clear
  <2>3. IsSeq(logs') /\ Named(logs) \subseteq Named(logs')
    BY <2>1, <2>2, NamedInBoth DEF ShownInv
  <2>. QED  BY <2>1, <2>3, ReportedAll
<1>8. CASE Stop
  BY <1>8 DEF Stop, ShownInv, IsSeq, Named
<1>9. CASE UNCHANGED vars
  BY <1>9 DEF vars, ShownInv, IsSeq, Named
<1>. QED  BY <1>1, <1>2, <1>3, <1>4, <1>5, <1>6, <1>7, <1>8, <1>9 DEF Next

-----------------------------------------------------------------------------
(* Theorems                                                                *)

\* Whoever is down has a respawn timer and nobody else, and the alive are those
\* with hit points left: handlePlayerDown sets the timer once, the revival in
\* AdvanceOneEvent clears it, and no blow, effect or recovery comes between.
THEOREM TimersMatchDeaths == Spec => []DownedHasTimer
<1>1. IInv => DownedHasTimer
  BY DEF IInv, TypeInv, DownInv, DownedHasTimer, Fit
<1>. QED  BY Invariance, <1>1, PTL

\* After each event NextEventTime has an event to return, later than the clock:
\* a battle never runs out of events and AdvanceByDelta cannot spin on one.
THEOREM BattleGoesOn == Spec => []WaveScheduled
<1>1. IInv => WaveScheduled
  <2>1. SUFFICES ASSUME IInv, pc \in {"out", "loop"}
                 PROVE  /\ nextWave # Nil <=> AliveEnemies = {}
                        /\ nextWave # Nil => AlivePlayers # {}
                        /\ NextEventTime # Nil /\ NextEventTime > time
    BY DEF WaveScheduled
  <2>2. /\ nextWave # Nil <=> AliveEnemies = {}
        /\ nextWave # Nil => AlivePlayers # {}
        /\ \A x \in Candidates : x > time
    BY <2>1 DEF IInv, WaveInv, NextWaveInv, BetweenEvents
  <2>3. Candidates # {}
    <3>1. CASE nextWave # Nil
      BY <3>1 DEF Candidates
    <3>2. CASE AlivePlayers = {}
      <4>1. 1 \in Players
        BY BattleAssumption DEF Players
      <4>2. respawn[1] # Nil
        BY <2>1, <3>2, <4>1 DEF IInv, DownInv, AlivePlayers, AlivePlayersIn
      <4>. QED  BY <4>1, <4>2 DEF Candidates
    <3>3. CASE nextWave = Nil /\ AlivePlayers # {}
      BY <2>2, <3>3 DEF Candidates
    <3>. QED  BY <3>1, <3>2, <3>3
  <2>. QED  BY <2>1, <2>2, <2>3, NextEvent DEF IInv
<1>. QED  BY Invariance, <1>1, PTL

\* The end of all players is the last thing an event reports exactly if all are
\* down, so clients are told of every wipe, once, and of no other
\* (AdvanceOneEvent, which writes that log at two places).
THEOREM WipesReported == Spec => []WipeReported
<1>1. Init => LogInv
  BY NoLog DEF Init, LogInv
<1>2. IInv /\ IInv' /\ LogInv /\ [Next]_vars => LogInv'
  BY LogStep
<1>3. LogInv => WipeReported
  BY DEF LogInv, WipeReported, Ends, Last
<1>. QED  BY Invariance, <1>1, <1>2, <1>3, PTL DEF Spec

\* After every tick the clients of a battle know who is alive from nothing but
\* the entities named in the logs they were sent: no revival and no death goes
\* without a log that names the player (tickBattles, battleLogsToProto).
THEOREM NobodyForgotten == Spec => []ShownIsTrue
<1>1. ASSUME Init
      PROVE  ShownInv
  <2>1. IsSeq(logs) /\ logs = <<>>
    BY <1>1, NoLog DEF Init
  <2>2. \A p \in Players : shown[p] = TRUE
    BY <1>1 DEF Init
  <2>3. \A p \in Players : player[p].alive = TRUE
    BY <1>1 DEF Init, NewEntity
  <2>. QED  BY <2>1, <2>2, <2>3 DEF ShownInv
<1>2. IInv /\ IInv' /\ ShownInv /\ [Next]_vars => ShownInv'
  BY ShownStep
<1>3. ShownInv => ShownIsTrue
  BY DEF ShownInv, ShownIsTrue, Named
<1>. QED  BY Invariance, <1>1, <1>2, <1>3, PTL DEF Spec

-----------------------------------------------------------------------------
(* A tick ends                                                             *)

Ranks == [1..3 -> Nat]

\* The rank x is less than y at the first place where they differ.
Less(x, y) ==
  /\ x \in Ranks /\ y \in Ranks
  /\ \E j \in 1..3 : (\A i \in 1..(j - 1) : x[i] = y[i]) /\ x[j] < y[j]

\* What each part of a tick has less of than the one before: time until the
\* tick's end, else parts of the event to come, else attacks to come.
TickRank ==
  [i \in 1..3 |->
     CASE i = 1 -> IF time < until THEN until - time ELSE 0
       [] i = 2 -> IF pc = "players" THEN 2 ELSE IF pc = "enemies" THEN 1 ELSE 0
       [] i = 3 -> IF pc \in {"players", "enemies"} THEN Cardinality(todo) ELSE 0]

\* There is no infinite descent of ranks, ...
LEMMA RanksEnd == ~\E f \in [Nat -> Ranks] : \A n \in Nat : Less(f[n + 1], f[n])
<1> DEFINE Order == LexProductOrdering(Earlier, Nat, 3)
<1>1. IsWellFoundedOn(Earlier, Nat)
  BY NatLessThanWellFounded DEF OpToRel, Earlier
<1>2. IsWellFoundedOn(Order, Ranks)
  BY <1>1, WFLexProductOrdering DEF Ranks
<1>3. ASSUME NEW x \in Ranks, NEW y \in Ranks, Less(x, y) PROVE <<x, y>> \in Order
  <2>1. PICK j \in 1..3 : (\A i \in 1..(j - 1) : x[i] = y[i]) /\ x[j] < y[j]
    BY <1>3 DEF Less
  <2>2. <<x[j], y[j]>> \in Earlier
    BY <2>1 DEF Earlier, Ranks
  <2>. QED  BY <2>1, <2>2 DEF LexProductOrdering, Ranks
<1> HIDE DEF Order
<1>. QED  BY <1>2, <1>3 DEF IsWellFoundedOn

\* Whoever has still to attack is one of finitely many.
LEMMA TodoFinite ==
  ASSUME TypeInv, PlayersTurn, EnemiesTurn, pc \in {"players", "enemies"}
  PROVE  IsFiniteSet(todo)
<1>1. CASE pc = "players"
  BY <1>1, BackFinite DEF PlayersTurn
<1>2. CASE pc = "enemies"
  <2>1. PICK n \in Nat : DOMAIN enemies = 1..n
    BY DEF TypeInv
  <2>2. todo \subseteq 1..n
    BY <1>2, <2>1 DEF EnemiesTurn, AliveEnemies, AliveEnemiesIn
  <2>3. IsFiniteSet(1..n)
    BY FS_Interval
  <2>. QED  BY <2>2, <2>3, FS_Subset
<1>. QED  BY <1>1, <1>2

LEMMA RankType ==
  ASSUME TypeInv, PlayersTurn, EnemiesTurn
  PROVE  TickRank \in Ranks
<1>1. pc \in {"players", "enemies"} => Cardinality(todo) \in Nat
  BY TodoFinite, FS_CardinalityType
<1>2. \A i \in 1..3 : i \in {1, 2, 3}
  OBVIOUS
<1>3. time \in Nat /\ until \in Nat
  BY DEF TypeInv
<1>4. \A i \in 1..3 : TickRank[i] \in Nat
  BY <1>1, <1>2, <1>3 DEF TickRank
<1>5. TickRank = [i \in 1..3 |-> TickRank[i]]
  BY DEF TickRank
<1>. QED  BY <1>4, <1>5 DEF Ranks

LEMMA RankTypeNext ==
  ASSUME TypeInv', PlayersTurn', EnemiesTurn'
  PROVE  TickRank' \in Ranks
<1>1. (TypeInv /\ PlayersTurn /\ EnemiesTurn => TickRank \in Ranks)'
  BY RankType, PTL
<1>. QED  BY <1>1

\* The rank of this state and of the next one, place by place.
LEMMA RankIs ==
  /\ TickRank[1] = IF time < until THEN until - time ELSE 0
  /\ TickRank[2] = IF pc = "players" THEN 2 ELSE IF pc = "enemies" THEN 1 ELSE 0
  /\ TickRank[3] = IF pc \in {"players", "enemies"} THEN Cardinality(todo) ELSE 0
  /\ TickRank'[1] = IF time' < until' THEN until' - time' ELSE 0
  /\ TickRank'[2] = IF pc' = "players" THEN 2 ELSE IF pc' = "enemies" THEN 1 ELSE 0
  /\ TickRank'[3] = IF pc' \in {"players", "enemies"} THEN Cardinality(todo') ELSE 0
BY DEF TickRank

\* ... and every part of a tick has a lower rank than the one before it.
LEMMA TickStepDescends ==
  ASSUME IInv, IInv', Next, pc # "out", pc' # "out"
  PROVE  Less(TickRank', TickRank)
<1>1. /\ TypeInv /\ PlayersTurn /\ EnemiesTurn /\ BetweenEvents
      /\ TypeInv' /\ PlayersTurn' /\ EnemiesTurn'
  BY DEF IInv, WaveInv
<1>2. TickRank \in Ranks /\ TickRank' \in Ranks
  BY <1>1, RankType, RankTypeNext
<1>3. \A j \in 1..3 : (\A i \in 1..3 : i < j => TickRank'[i] = TickRank[i])
                        /\ TickRank'[j] < TickRank[j] => Less(TickRank', TickRank)
  <2>1. TAKE j \in 1..3
  <2>2. HAVE (\A i \in 1..3 : i < j => TickRank'[i] = TickRank[i]) /\ TickRank'[j] < TickRank[j]
  <2>3. \A i \in 1..(j - 1) : TickRank'[i] = TickRank[i]
    BY <2>2
  <2>. QED  BY <1>2, <2>2, <2>3 DEF Less
<1>4. CASE EventBegins
  <2>1. /\ pc = "loop" /\ NextEventTime # Nil /\ NextEventTime <= until
        /\ time' = Most(time, NextEventTime) /\ until' = until
    BY <1>4 DEF EventBegins
  <2>2. NextEventTime \in Candidates /\ NextEventTime \in Nat
    BY <1>1, <2>1, NextEvent
  <2>3. NextEventTime > time
    BY <1>1, <2>1, <2>2 DEF BetweenEvents
  <2>4. time \in Nat /\ until \in Nat
    BY <1>1 DEF TypeInv
  <2>5. time' > time /\ time' <= until
    BY <2>1, <2>2, <2>3, <2>4 DEF Most
  <2>6. TickRank'[1] < TickRank[1]
    BY <2>1, <2>2, <2>4, <2>5, RankIs DEF Most
  <2>. QED  BY <1>3, <2>6
<1>5. CASE PlayersDone \/ EventEnds
  <2>1. /\ UNCHANGED <<time, until>>
        /\ \/ pc = "players" /\ pc' = "enemies"
           \/ pc = "enemies" /\ pc' = "loop"
    BY <1>5 DEF PlayersDone, EventEnds
  <2>2. TickRank'[1] = TickRank[1] /\ TickRank'[2] < TickRank[2]
    BY <2>1, RankIs
  <2>. QED  BY <1>3, <2>2
<1>6. CASE PlayerAttacks \/ EnemyAttacks
  <2>1. /\ UNCHANGED <<pc, time, until>> /\ pc \in {"players", "enemies"}
        /\ todo # {} /\ todo' = todo \ {Min(todo)}
    BY <1>6 DEF PlayerAttacks, EnemyAttacks
  <2>2. Min(todo) \in todo
    BY <1>1, <2>1, MinIsLeast DEF TypeInv
  <2>3. IsFiniteSet(todo)
    BY <1>1, <2>1, TodoFinite
  <2>4. Cardinality(todo \ {Min(todo)}) = Cardinality(todo) - 1
    BY <2>2, <2>3, FS_RemoveElement
  <2>5. Cardinality(todo) \in Nat
    BY <2>3, FS_CardinalityType
  <2>6. /\ TickRank'[1] = TickRank[1] /\ TickRank'[2] = TickRank[2]
        /\ TickRank'[3] < TickRank[3]
    BY <2>1, <2>4, <2>5, RankIs
  <2>. QED  BY <1>3, <2>6
<1>7. ~TickBegins /\ ~TickEnds /\ ~Stop
  BY DEF TickBegins, TickEnds, Stop
<1>. QED  BY <1>4, <1>5, <1>6, <1>7 DEF Next

\* A tick does not go on for ever: whatever the waves, the skills, the outcomes
\* of the blows and the order of the respawns, each part of AdvanceByDelta's
\* loop descends in an order that has no infinite descent.
THEOREM TickDescends ==
  Spec => [][pc # "out" /\ pc' # "out" => Less(TickRank', TickRank)]_vars
<1>1. IInv /\ IInv' /\ [Next]_vars =>
        [pc # "out" /\ pc' # "out" => Less(TickRank', TickRank)]_vars
  BY TickStepDescends
<1>. QED  BY Invariance, <1>1, PTL DEF Spec

-----------------------------------------------------------------------------
(* The refinement                                                          *)

\* What a step may do to the status that clients are shown.
LEMMA StatusStep ==
  ASSUME IInv, RunInv, [Next]_vars
  PROVE  [Cycle!Next]_<<Status, wave>>
<1>. USE DEF Cycle!Next, Cycle!Turn
<1>1. NextWaveInv
  BY DEF IInv, WaveInv
<1>2. CASE TickBegins \/ UNCHANGED vars \/ PlayersDone
  <2>1. UNCHANGED <<running, player, enemies, wave, nextWave>>
    BY <1>2 DEF TickBegins, PlayersDone, vars, waves
  <2>. QED  BY <2>1 DEF Status, AlivePlayers, AliveEnemies
<1>3. CASE TickEnds
  <2>1. UNCHANGED <<running, wave, nextWave, AlivePlayers, AliveEnemies>>
    BY <1>3, TickEndsInv DEF TickEnds, waves
  <2>. QED  BY <2>1 DEF Status
<1>4. CASE EventBegins
  <2>1. running /\ running' = running
    BY <1>4 DEF EventBegins, RunInv
  <2>2. /\ AlivePlayers' # {}
        /\ \/ /\ nextWave' = nextWave /\ wave' = wave
              /\ nextWave # Nil => AliveEnemies' = AliveEnemies
           \/ nextWave # Nil /\ nextWave' = Nil /\ wave' = wave + 1
    BY <1>4, EventBeginsInv
  <2>3. CASE nextWave # Nil
    BY <1>1, <2>1, <2>2, <2>3 DEF NextWaveInv, Status, Cycle!Spawn
  <2>4. CASE nextWave = Nil
    BY <2>1, <2>2, <2>4 DEF Status, Cycle!Back
  <2>. QED  BY <2>3, <2>4
<1>5. CASE PlayerAttacks
  <2>1. /\ UNCHANGED <<running, wave, nextWave, AlivePlayers>>
        /\ AliveEnemies' \subseteq AliveEnemies
    BY <1>5, PlayerAttacksInv DEF PlayerAttacks, waves
  <2>. QED  BY <1>1, <2>1 DEF NextWaveInv, Status
<1>6. CASE EnemyAttacks
  <2>1. UNCHANGED <<running, wave, nextWave>> /\ running
    BY <1>6 DEF EnemyAttacks, waves, RunInv
  <2>2. /\ AliveEnemies' = AliveEnemies /\ AliveEnemies # {}
        /\ AlivePlayers' \subseteq AlivePlayers
    BY <1>6, EnemyAttacksInv
  <2>. QED  BY <2>1, <2>2 DEF Status, Cycle!Wipe
<1>7. CASE EventEnds
  <2>1. /\ UNCHANGED <<running, wave, player, enemies>> /\ running
        /\ nextWave' = IF Cleared THEN time + Interval ELSE nextWave
        /\ time \in Nat
    BY <1>7 DEF EventEnds, RunInv, IInv, TypeInv
  <2>2. AliveEnemies' = AliveEnemies /\ AlivePlayers' = AlivePlayers
    BY <2>1 DEF AliveEnemies, AlivePlayers
  <2>3. time + Interval # Nil
    BY <2>1, Constants
  <2>. QED  BY <2>1, <2>2, <2>3 DEF Cleared, Status, Cycle!Clear
<1>8. CASE Stop
  BY <1>8 DEF Stop, Status, waves, Cycle!Halt
<1>. QED  BY <1>2, <1>3, <1>4, <1>5, <1>6, <1>7, <1>8 DEF Next

\* The status in the snapshots (deriveStatus) goes round as WaveCycle says: one
\* wave after the other, no fight forgotten over a wipe, and no end undone.
THEOREM BattleImplementsCycle == Spec => CycleSpec
<1>1. Init => Cycle!Init
  <2>1. ASSUME Init PROVE Status = "between_waves" /\ wave = 0
    <3>1. 1 \in Players
      BY BattleAssumption DEF Players
    <3>2. AlivePlayers # {} /\ AliveEnemies = {}
      BY <2>1, <3>1
         DEF Init, NewEntity, AlivePlayers, AliveEnemies, AlivePlayersIn, AliveEnemiesIn
    <3>3. running /\ wave = 0 /\ nextWave # Nil
      BY <2>1, Constants DEF Init
    <3>. QED  BY <3>2, <3>3 DEF Status
  <2>. QED  BY <2>1 DEF Cycle!Init
<1>2. IInv /\ RunInv /\ [Next]_vars => [Cycle!Next]_<<Status, wave>>
  BY StatusStep
<1>. QED  BY Invariance, <1>1, <1>2, PTL DEF Spec, CycleSpec, Cycle!Spec

=============================================================================
