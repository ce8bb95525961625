--------------------------- MODULE BattleRegistry ---------------------------
(***************************************************************************)
(* The battles of all players: the field battleSession of a session, the   *)
(* Manager's registry of battles, keyed by the NumericID of the battle     *)
(* that is fought, the commands battle.start and battle.stop, and          *)
(* tickBattles, which advances what is registered and sends it to the      *)
(* players (session/session.go, session/tick.go, cmd/server/handlers.go).  *)
(*                                                                         *)
(* Commands run in the workers of parallelTick: those of one session one   *)
(* after the other, those of different sessions interleaved, here at every *)
(* access to what they share.  tickBattles runs when all workers are done. *)
(* Connections, the grace timer and evictions belong to other goroutines;  *)
(* their own steps are in SessionLifecycle.                                *)
(***************************************************************************)
EXTENDS Naturals, Sequences, FiniteSets

CONSTANTS
  Users,
  Sessions,    \* the session objects that may be made
  UserOf,      \* UserOf[s]: the player of session s
  NumericIDs,  \* the battles of the game's configuration
  MaxBattles,  \* bound: battles started in all
  None

ASSUME RegistryAssumption ==
  /\ UserOf \in [Sessions -> Users]
  /\ MaxBattles \in Nat
  /\ None \notin Sessions /\ None \notin Nat
  /\ NumericIDs \cap {"out", "waiting", "turn", "adding", "stopping"} = {}

VARIABLES
  battle,    \* the battles ever started: id, player's session, Running
  registry,  \* Manager.battles: by NumericID, an index of battle
  own,       \* own[s]: the session's battleSession
  manager,   \* Manager.sessions
  life,      \* life[s]: new, live, closing, expired, evicted, or late:
             \* evicted while closing
  conn,      \* sessions with a connection
  step,      \* step[s]: where the worker is with this session's commands
  phase,     \* of the tick round: idle, commands, battles
  todo,      \* battles that tickBattles has still to look at
  served,    \* battles it has advanced in this round
  sent       \* what it sent in this round: session and battle

clients == <<manager, life, conn>>
fights  == <<battle, registry, own>>
round   == <<step, phase, todo, served, sent>>
vars    == <<fights, clients, round>>

Battles == 1..MaxBattles

Init ==
  /\ battle = <<>>
  /\ registry = [k \in NumericIDs |-> None]
  /\ own = [s \in Sessions |-> None]
  /\ manager = [u \in Users |-> None]
  /\ life = [s \in Sessions |-> "new"]
  /\ conn = {}
  /\ step = [s \in Sessions |-> "out"]
  /\ phase = "idle"
  /\ todo = {} /\ served = {} /\ sent = {}

-----------------------------------------------------------------------------
(* Clients                                                                 *)

\* OnConnect finds the player's session, or makes one.
Connect(u) ==
  /\ \/ /\ manager[u] # None
        /\ conn' = conn \cup {manager[u]}
        /\ UNCHANGED <<manager, life>>
     \/ /\ manager[u] = None
        /\ \E s \in Sessions :
             /\ UserOf[s] = u /\ life[s] = "new"
             /\ manager' = [manager EXCEPT ![u] = s]
             /\ life' = [life EXCEPT ![s] = "live"]
             /\ conn' = conn \cup {s}
  /\ UNCHANGED <<fights, round>>

Disconnect(s) ==
  /\ s \in conn
  /\ conn' = conn \ {s}
  /\ UNCHANGED <<manager, life, fights, round>>

Fighting(s) == own[s] # None /\ battle[own[s]].running

\* Mutant: the timer has no regard to battles.
ExpireBeginsAnyway(s) ==
  /\ life[s] = "live" /\ s \notin conn
  /\ life' = [life EXCEPT ![s] = "closing"]
  /\ UNCHANGED <<manager, conn, fights, round>>

\* The grace timer fires: a session in battle gets five minutes more.
ExpireBegins(s) ==
  /\ life[s] = "live" /\ s \notin conn
  /\ ~Fighting(s)
  /\ life' = [life EXCEPT ![s] = "closing"]
  /\ UNCHANGED <<manager, conn, fights, round>>

\* After the flush the callback removes whatever session the player has: also
\* a successor, when its own session was evicted in the meantime.
ExpireEnds(s) ==
  /\ life[s] \in {"closing", "late"}
  /\ life' = [life EXCEPT ![s] = "expired"]
  /\ manager' = [manager EXCEPT ![UserOf[s]] = None]
  /\ UNCHANGED <<conn, fights, round>>

\* Evict, and Add when it replaces a session.
Evict(u) ==
  /\ manager[u] # None
  /\ life' = [life EXCEPT ![manager[u]] = IF @ = "closing" THEN "late" ELSE "evicted"]
  /\ manager' = [manager EXCEPT ![u] = None]
  /\ conn' = conn \ {manager[u]}
  /\ UNCHANGED <<fights, round>>

-----------------------------------------------------------------------------
(* A tick round: the commands of the sessions                              *)

InRound == {s \in Sessions : step[s] # "out"}
Managed == {manager[u] : u \in Users} \ {None}

\* Without sessions there is no round, and no battle goes on.
RoundBegins ==
  /\ phase = "idle" /\ Managed # {}
  /\ phase' = "commands"
  /\ step' = [s \in Sessions |-> IF s \in Managed THEN "waiting" ELSE "out"]
  /\ served' = {} /\ sent' = {}
  /\ UNCHANGED <<todo, fights, clients>>

Closed(s) == life[s] \in {"expired", "evicted", "late"}

\* A closed session is skipped.
TurnBegins(s) ==
  /\ step[s] = "waiting"
  /\ step' = [step EXCEPT ![s] = IF Closed(s) THEN "out" ELSE "turn"]
  /\ UNCHANGED <<phase, todo, served, sent, fights, clients>>

TurnEnds(s) ==
  /\ step[s] = "turn"
  /\ step' = [step EXCEPT ![s] = "out"]
  /\ UNCHANGED <<phase, todo, served, sent, fights, clients>>

At(s, from, to) ==
  /\ step[s] = from
  /\ step' = [step EXCEPT ![s] = to]
  /\ UNCHANGED <<phase, todo, served, sent, clients>>

Stopping(s) == step[s] = "stopping" \/ step[s] \in NumericIDs

\* begun and rivals only record the circumstances, for the properties.
NewBattle(s, k) ==
  [id |-> k, session |-> s, running |-> TRUE, begun |-> life[s],
   rivals |-> {b \in DOMAIN battle :
                 battle[b].id = k /\ (battle[b].running \/ Stopping(battle[b].session))}]

\* Mutant: battle.start has no regard to the battle that goes on.
StartAnother(s, k) ==
  /\ At(s, "turn", "adding")
  /\ Len(battle) < MaxBattles
  /\ battle' = Append(battle, NewBattle(s, k))
  /\ own' = [own EXCEPT ![s] = Len(battle')]
  /\ UNCHANGED registry

\* battle.start: NewBattleSession and SetBattleSession ...
Start(s, k) ==
  /\ At(s, "turn", "adding")
  /\ own[s] = None
  /\ Len(battle) < MaxBattles
  /\ battle' = Append(battle, NewBattle(s, k))
  /\ own' = [own EXCEPT ![s] = Len(battle')]
  /\ UNCHANGED registry

\* ... and AddBattle, which replaces the battle of the same NumericID.
AddBattle(s) ==
  /\ At(s, "adding", "turn")
  /\ registry' = [registry EXCEPT ![battle[own[s]].id] = own[s]]
  /\ UNCHANGED <<battle, own>>

\* battle.stop: it ends the running ...
Stop(s) ==
  /\ At(s, "turn", "stopping")
  /\ own[s] # None
  /\ battle' = [battle EXCEPT ![own[s]].running = FALSE]
  /\ UNCHANGED <<registry, own>>

\* ... SetBattleSession(nil); bs stays in the handler's local variable ...
Detach(s) ==
  /\ step[s] = "stopping"
  /\ step' = [step EXCEPT ![s] = battle[own[s]].id]
  /\ own' = [own EXCEPT ![s] = None]
  /\ UNCHANGED <<phase, todo, served, sent, clients, battle, registry>>

\* Mutant: the battle is left in the registry.
RemoveNothing(s) ==
  /\ step[s] \in NumericIDs
  /\ At(s, step[s], "turn")
  /\ UNCHANGED fights

\* ... and RemoveBattle, which removes whatever has the NumericID.
RemoveBattle(s) ==
  /\ step[s] \in NumericIDs
  /\ At(s, step[s], "turn")
  /\ registry' = [registry EXCEPT ![step[s]] = None]
  /\ UNCHANGED <<battle, own>>

-----------------------------------------------------------------------------
(* tickBattles                                                             *)

Registered == {registry[k] : k \in NumericIDs} \ {None}

\* wg.Wait has returned.
BattlesBegin ==
  /\ phase = "commands" /\ InRound = {}
  /\ phase' = "battles"
  /\ todo' = Registered
  /\ UNCHANGED <<step, served, sent, fights, clients>>

\* Events and snapshots go to the connection of the session the player has now.
Receivers(b) == {manager[UserOf[battle[b].session]]} \cap conn

\* Mutant: a battle without a watching client is not advanced.
AdvanceWatched(b) ==
  /\ phase = "battles" /\ b \in todo
  /\ todo' = todo \ {b}
  /\ served' = IF battle[b].running /\ Receivers(b) # {} THEN served \cup {b} ELSE served
  /\ sent' = IF battle[b].running THEN sent \cup (Receivers(b) \X {b}) ELSE sent
  /\ UNCHANGED <<step, phase, fights, clients>>

Advance(b) ==
  /\ phase = "battles" /\ b \in todo
  /\ todo' = todo \ {b}
  /\ served' = IF battle[b].running THEN served \cup {b} ELSE served
  /\ sent' = IF battle[b].running THEN sent \cup (Receivers(b) \X {b}) ELSE sent
  /\ UNCHANGED <<step, phase, fights, clients>>

RoundEnds ==
  /\ phase = "battles" /\ todo = {}
  /\ phase' = "idle"
  /\ UNCHANGED <<step, todo, served, sent, fights, clients>>

Next ==
  \/ \E u \in Users : Connect(u) \/ Evict(u)
  \/ \E s \in Sessions :
       \/ Disconnect(s) \/ ExpireBegins(s) \/ ExpireEnds(s)
       \/ TurnBegins(s) \/ TurnEnds(s)
       \/ \E k \in NumericIDs : Start(s, k)
       \/ AddBattle(s) \/ Stop(s) \/ Detach(s) \/ RemoveBattle(s)
  \/ RoundBegins \/ BattlesBegin \/ RoundEnds
  \/ \E b \in Battles : Advance(b)

Spec == Init /\ [][Next]_vars

-----------------------------------------------------------------------------
(* Properties                                                              *)

Index == DOMAIN battle

\* The state is well typed: a session's battle and the registered ones exist.
TypeOK ==
  /\ battle \in Seq([id : NumericIDs, session : Sessions, running : BOOLEAN,
                     begun : {"live", "closing", "expired", "evicted", "late"},
                     rivals : SUBSET Battles])
  /\ Len(battle) <= MaxBattles
  /\ registry \in [NumericIDs -> Index \cup {None}]
  /\ own \in [Sessions -> Index \cup {None}]
  /\ manager \in [Users -> Sessions \cup {None}]
  /\ life \in [Sessions -> {"new", "live", "closing", "expired", "evicted", "late"}]
  /\ conn \subseteq Sessions
  /\ step \in [Sessions -> {"out", "waiting", "turn", "adding", "stopping"} \cup NumericIDs]
  /\ phase \in {"idle", "commands", "battles"}
  /\ todo \subseteq Index /\ served \subseteq Index
  /\ sent \subseteq Sessions \X Index

\* A stopped battle is in the registry only while the command that stopped it
\* is still at work: no battle.stop leaves one behind, whoever else used its
\* NumericID in the meantime.
RegisteredRuns ==
  \A k \in NumericIDs :
    registry[k] # None =>
      LET b == battle[registry[k]]
      IN b.id = k /\ (b.running \/ Stopping(b.session))

\* Another battle of the same NumericID was begun after it, or was running or
\* just being stopped when it began.
Shared(b) == battle[b].rivals # {} \/ \E c \in Index : c > b /\ battle[c].id = battle[b].id

\* When tickBattles is through, every running battle has been advanced, those
\* started in this very round and those nobody watches included, unless
\* another player fights the same battle.
UnsharedTicked ==
  phase = "battles" /\ todo = {} =>
    \A b \in Index : battle[b].running /\ ~Shared(b) => b \in served

\* What a client receives is about the battle its own session fights, except
\* the last doings of a session the player no longer has.
SentIsOwned ==
  \A m \in sent : LET s == battle[m[2]].session
                  IN  own[m[1]] = m[2] \/ manager[UserOf[s]] # s

\* The grace timer never removes a session out of a running battle, unless the
\* battle was started after it had fired.
BattleKeepsSession ==
  \A s \in Sessions :
    life[s] = "expired" /\ Fighting(s) => battle[own[s]].begun # "live"

\* tickBattles advances every active battle session exactly once per round.
EveryBattleTicked ==
  phase = "battles" /\ todo = {} =>
    \A b \in Index : battle[b].running => b \in served
=============================================================================
