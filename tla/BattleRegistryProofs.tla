------------------------ MODULE BattleRegistryProofs ------------------------
(***************************************************************************)
(* Proofs about BattleRegistry, for any number of players, sessions,       *)
(* battles and commands under way: no stopped battle stays registered, the *)
(* grace timer takes no session out of a battle it was in, a battle that   *)
(* is not shared is advanced in every round, and what a round sends is     *)
(* about the battle of its receiver.                                       *)
(*                                                                         *)
(* A running battle of a session is the one the session holds, until the   *)
(* command that stops it lets go of it (OwnOK, StepOK); so a registered    *)
(* battle either runs or is in the hands of that command (RegOK), which    *)
(* removes its NumericID at the end.                                       *)
(***************************************************************************)
EXTENDS BattleRegistry, TLAPS

Working == {"out", "waiting", "turn", "adding", "stopping"}

Lives == {"new", "live", "closing", "expired", "evicted", "late"}

BattleType == [id : NumericIDs, session : Sessions, running : BOOLEAN,
               begun : Lives, rivals : SUBSET Nat]

TypeInv ==
  /\ battle \in Seq(BattleType)
  /\ registry \in [NumericIDs -> (1..Len(battle)) \cup {None}]
  /\ own \in [Sessions -> (1..Len(battle)) \cup {None}]
  /\ life \in [Sessions -> Lives]
  /\ manager \in [Users -> Sessions \cup {None}]
  /\ step \in [Sessions -> Working \cup NumericIDs]

\* The battle a session holds is its own, and runs until it is stopped.
OwnOK(s) ==
  own[s] # None => /\ battle[own[s]].session = s
                   /\ battle[own[s]].running \/ step[s] = "stopping"

\* A command at work on a battle holds it, or has let go of it.
StepOK(s) ==
  /\ step[s] \in {"adding", "stopping"} => own[s] # None
  /\ step[s] \in NumericIDs => own[s] = None

\* A registered battle runs, or the command that stopped it will remove it.
RegOK(k) ==
  registry[k] # None =>
    LET b == battle[registry[k]]
    IN  /\ b.id = k
        /\ \/ b.running
           \/ step[b.session] = "stopping" /\ own[b.session] = registry[k]
           \/ step[b.session] = k

\* A session whose grace timer has fired holds no battle from before.
LifeOK(s) ==
  own[s] # None /\ battle[own[s]].running /\ battle[own[s]].begun = "live" =>
    life[s] \in {"live", "evicted"}

IInv ==
  /\ TypeInv
  /\ \A s \in Sessions : OwnOK(s) /\ StepOK(s) /\ LifeOK(s)
  /\ \A k \in NumericIDs : RegOK(k)

-----------------------------------------------------------------------------
LEMMA InitInv == Init => IInv
  BY RegistryAssumption
     DEF Init, IInv, TypeInv, OwnOK, StepOK, LifeOK, RegOK, Working, Lives

LEMMA RegisteredType ==
  ASSUME TypeInv, NEW k \in NumericIDs, registry[k] # None
  PROVE  /\ registry[k] \in 1..Len(battle)
         /\ battle[registry[k]] \in BattleType
         /\ battle[registry[k]].session \in Sessions
<1>1. registry[k] \in 1..Len(battle)
  BY DEF TypeInv
<1>2. battle[registry[k]] \in BattleType
  BY <1>1 DEF TypeInv
<1>. QED  BY <1>1, <1>2 DEF BattleType

\* The invariant over a step that changes no battle and no field of a session
\* but its life, and no life but for the worse.
LEMMA LifeStep ==
  ASSUME IInv, UNCHANGED <<fights, step>>, TypeInv',
         \A s \in Sessions :
           own[s] # None /\ battle[own[s]].running /\ battle[own[s]].begun = "live"
             => (life[s] \in {"live", "evicted"} => life'[s] \in {"live", "evicted"})
  PROVE  IInv'
<1>1. \A s \in Sessions : OwnOK(s)' /\ StepOK(s)' /\ LifeOK(s)'
  BY DEF IInv, OwnOK, StepOK, LifeOK, fights
<1>2. \A k \in NumericIDs : RegOK(k)'
  BY DEF IInv, RegOK, fights
<1>. QED  BY <1>1, <1>2 DEF IInv

LEMMA UserStep ==
  ASSUME IInv, NEW u \in Users, Connect(u) \/ Evict(u)
  PROVE  IInv'
<1> USE RegistryAssumption
<1>0. TypeInv
  BY DEF IInv
<1>1. CASE Connect(u)
  <2>1. TypeInv'
    BY <1>0, <1>1 DEF Connect, TypeInv, Lives, fights, round
  <2>2. \A o \in Sessions : life[o] \in {"live", "evicted"} => life'[o] \in {"live", "evicted"}
    BY <1>0, <1>1 DEF Connect, TypeInv
  <2>. QED  BY <1>1, <2>1, <2>2, LifeStep DEF Connect, round
<1>2. CASE Evict(u)
  <2>1. TypeInv'
    BY <1>0, <1>2 DEF Evict, TypeInv, Lives, fights, round
  <2>2. \A o \in Sessions : life[o] \in {"live", "evicted"} => life'[o] \in {"live", "evicted"}
    BY <1>0, <1>2 DEF Evict, TypeInv
  <2>. QED  BY <1>2, <2>1, <2>2, LifeStep DEF Evict, round
<1>. QED  BY <1>1, <1>2

LEMMA SessionStep ==
  ASSUME IInv, NEW s \in Sessions, Disconnect(s) \/ ExpireBegins(s) \/ ExpireEnds(s)
  PROVE  IInv'
<1> USE RegistryAssumption
<1>0. TypeInv
  BY DEF IInv
<1>1. CASE Disconnect(s)
  BY <1>0, <1>1, LifeStep DEF Disconnect, TypeInv, fights, round
<1>2. CASE ExpireBegins(s)
  <2>1. TypeInv'
    BY <1>0, <1>2 DEF ExpireBegins, TypeInv, Lives, fights, round
  <2>2. \A o \in Sessions :
          own[o] # None /\ battle[own[o]].running => life'[o] = life[o]
    BY <1>0, <1>2 DEF ExpireBegins, Fighting, TypeInv
  <2>. QED  BY <1>2, <2>1, <2>2, LifeStep DEF ExpireBegins, round
<1>3. CASE ExpireEnds(s)
  <2>1. TypeInv'
    BY <1>0, <1>3 DEF ExpireEnds, TypeInv, Lives, fights, round
  <2>2. \A o \in Sessions : life[o] \in {"live", "evicted"} => life'[o] = life[o]
    BY <1>0, <1>3 DEF ExpireEnds, TypeInv
  <2>. QED  BY <1>3, <2>1, <2>2, LifeStep DEF ExpireEnds, round
<1>. QED  BY <1>1, <1>2, <1>3

\* A step of the round that changes no battle: a session that is not at work
\* on a battle goes to another such step.
LEMMA RoundStep ==
  ASSUME IInv, UNCHANGED <<fights, life, manager>>,
         step' \in [Sessions -> Working \cup NumericIDs],
         \A s \in Sessions : step'[s] # step[s] =>
           {step[s], step'[s]} \subseteq {"out", "waiting", "turn"}
  PROVE  IInv'
<1> USE RegistryAssumption
<1>1. TypeInv'
  BY DEF IInv, TypeInv, fights
<1>2. ASSUME NEW s \in Sessions PROVE OwnOK(s)' /\ StepOK(s)' /\ LifeOK(s)'
  <2>1. OwnOK(s)'
    BY DEF IInv, OwnOK, fights
  <2>2. StepOK(s)'
    BY DEF IInv, StepOK, fights
  <2>3. LifeOK(s)'
    BY DEF IInv, LifeOK, fights
  <2>. QED  BY <2>1, <2>2, <2>3
<1>3. ASSUME NEW k \in NumericIDs PROVE RegOK(k)'
  <2>1. CASE registry[k] = None
    BY <2>1 DEF RegOK, fights
  <2>2. CASE registry[k] # None
    <3>1. battle[registry[k]].session \in Sessions
      BY <2>2, RegisteredType DEF IInv
    <3>. QED  BY <2>2, <3>1 DEF IInv, RegOK, fights
  <2>. QED  BY <2>1, <2>2
<1>. QED  BY <1>1, <1>2, <1>3 DEF IInv

\* Start: a new battle, held by a session that held none.
LEMMA StartStep ==
  ASSUME IInv, NEW s \in Sessions, NEW k \in NumericIDs, Start(s, k)
  PROVE  IInv'
<1> USE RegistryAssumption
<1> DEFINE n == Len(battle) + 1
<1>0. TypeInv /\ step[s] = "turn" /\ own[s] = None
  BY DEF IInv, Start, At
<1>1. NewBattle(s, k) \in BattleType /\ Len(battle) \in Nat
  BY <1>0 DEF NewBattle, BattleType, TypeInv
<1>2. /\ battle' = Append(battle, NewBattle(s, k))
      /\ battle' \in Seq(BattleType) /\ Len(battle') = n
      /\ \A b \in 1..Len(battle) : battle'[b] = battle[b]
      /\ battle'[n].session = s /\ battle'[n].running /\ battle'[n].begun = life[s]
      /\ battle'[n].id = k
  BY <1>0, <1>1 DEF Start, TypeInv, NewBattle
<1>3. /\ own' = [own EXCEPT ![s] = n] /\ registry' = registry
      /\ step' = [step EXCEPT ![s] = "adding"]
      /\ life' = life /\ manager' = manager
  BY <1>2 DEF Start, At, clients
<1>4. TypeInv'
  <2>1. own' \in [Sessions -> (1..n) \cup {None}]
    BY <1>0, <1>1, <1>3 DEF TypeInv
  <2>2. registry' \in [NumericIDs -> (1..n) \cup {None}]
    BY <1>0, <1>1, <1>3 DEF TypeInv
  <2>. QED  BY <1>0, <1>2, <1>3, <2>1, <2>2 DEF TypeInv, Working
<1>5. n # None /\ n \notin 1..Len(battle)
  BY <1>1
<1> HIDE DEF n
<1>6. ASSUME NEW o \in Sessions PROVE OwnOK(o)' /\ StepOK(o)' /\ LifeOK(o)'
  <2>1. CASE o = s
    <3>1. own'[o] = n /\ step'[o] = "adding"
      BY <1>0, <1>3, <2>1 DEF TypeInv
    <3>. QED  BY <1>2, <1>3, <1>5, <2>1, <3>1 DEF OwnOK, StepOK, LifeOK
  <2>2. CASE o # s
    <3>1. own'[o] = own[o] /\ step'[o] = step[o] /\ life'[o] = life[o]
      BY <1>0, <1>3, <2>2 DEF TypeInv
    <3>2. own[o] # None => battle'[own[o]] = battle[own[o]]
      BY <1>0, <1>2 DEF TypeInv
    <3>. QED  BY <3>1, <3>2 DEF IInv, OwnOK, StepOK, LifeOK
  <2>. QED  BY <2>1, <2>2
<1>7. ASSUME NEW j \in NumericIDs PROVE RegOK(j)'
  <2>1. CASE registry[j] = None
    BY <1>3, <2>1 DEF RegOK
  <2>2. CASE registry[j] # None
    <3>1. /\ battle'[registry[j]] = battle[registry[j]]
          /\ battle[registry[j]].session \in Sessions
      BY <1>0, <1>2, <2>2, RegisteredType
    <3>2. \A o \in Sessions : step[o] \in {"stopping"} \cup NumericIDs =>
            step'[o] = step[o] /\ own'[o] = own[o]
      BY <1>0, <1>3 DEF TypeInv
    <3>. QED  BY <1>3, <2>2, <3>1, <3>2 DEF IInv, RegOK
  <2>. QED  BY <2>1, <2>2
<1>. QED  BY <1>4, <1>6, <1>7 DEF IInv

\* The worker's steps on what session s holds.
LEMMA AddStep ==
  ASSUME IInv, NEW s \in Sessions, AddBattle(s)
  PROVE  IInv'
<1> USE RegistryAssumption
<1>0. /\ TypeInv /\ step[s] = "adding" /\ own[s] # None /\ OwnOK(s)
      /\ step' = [step EXCEPT ![s] = "turn"]
      /\ UNCHANGED <<battle, own, life, manager>>
  BY DEF IInv, AddBattle, At, StepOK, clients
<1>1. /\ own[s] \in 1..Len(battle) /\ battle[own[s]] \in BattleType
      /\ battle[own[s]].running
  BY <1>0 DEF TypeInv, OwnOK
<1> DEFINE k == battle[own[s]].id
<1>2. k \in NumericIDs /\ registry' = [registry EXCEPT ![k] = own[s]]
  BY <1>1 DEF BattleType, AddBattle
<1>3. TypeInv'
  BY <1>0, <1>1, <1>2 DEF TypeInv, Working
<1>4. ASSUME NEW o \in Sessions PROVE OwnOK(o)' /\ StepOK(o)' /\ LifeOK(o)'
  <2>1. step'[o] = IF o = s THEN "turn" ELSE step[o]
    BY <1>0 DEF TypeInv
  <2>. QED  BY <1>0, <1>1, <2>1 DEF IInv, OwnOK, StepOK, LifeOK
<1>5. ASSUME NEW j \in NumericIDs PROVE RegOK(j)'
  <2>1. CASE registry'[j] = own[s] /\ j = k
    BY <1>0, <1>1, <2>1 DEF RegOK
  <2>2. CASE registry'[j] = registry[j]
    <3>1. CASE registry[j] = None
      BY <2>2, <3>1 DEF RegOK
    <3>2. CASE registry[j] # None
      <4>1. battle[registry[j]].session \in Sessions
        BY <1>0, <3>2, RegisteredType
      <4>. QED  BY <1>0, <2>2, <3>2, <4>1 DEF IInv, RegOK, TypeInv
    <3>. QED  BY <3>1, <3>2
  <2>3. registry'[j] = IF j = k THEN own[s] ELSE registry[j]
    BY <1>0, <1>2 DEF TypeInv
  <2>. QED  BY <2>1, <2>2, <2>3
<1>. QED  BY <1>3, <1>4, <1>5 DEF IInv

LEMMA ReplacedInSeq ==
  ASSUME NEW S, NEW q \in Seq(S), NEW i \in 1..Len(q), NEW e \in S
  PROVE  /\ [q EXCEPT ![i] = e] \in Seq(S)
         /\ Len([q EXCEPT ![i] = e]) = Len(q)
         /\ \A j \in 1..Len(q) : [q EXCEPT ![i] = e][j] = IF j = i THEN e ELSE q[j]
  OBVIOUS

LEMMA StopStep ==
  ASSUME IInv, NEW s \in Sessions, Stop(s)
  PROVE  IInv'
<1> USE RegistryAssumption
<1>0. /\ TypeInv /\ step[s] = "turn" /\ own[s] # None /\ OwnOK(s)
      /\ step' = [step EXCEPT ![s] = "stopping"]
      /\ battle' = [battle EXCEPT ![own[s]].running = FALSE]
      /\ UNCHANGED <<registry, own, life, manager>>
  BY DEF IInv, Stop, At, clients
<1>1. own[s] \in 1..Len(battle) /\ battle[own[s]].session = s
  BY <1>0 DEF TypeInv, OwnOK
<1>2. /\ battle' \in Seq(BattleType) /\ Len(battle') = Len(battle)
      /\ \A b \in 1..Len(battle) :
           /\ battle'[b].id = battle[b].id /\ battle'[b].session = battle[b].session
           /\ battle'[b].begun = battle[b].begun
           /\ b # own[s] => battle'[b].running = battle[b].running
           /\ battle'[own[s]].running = FALSE
  <2> DEFINE stopped == [battle[own[s]] EXCEPT !.running = FALSE]
  <2>1. battle[own[s]] \in BattleType
    BY <1>0, <1>1 DEF TypeInv
  <2>2. /\ stopped \in BattleType /\ stopped.running = FALSE
        /\ stopped.id = battle[own[s]].id /\ stopped.session = battle[own[s]].session
        /\ stopped.begun = battle[own[s]].begun
    BY <2>1 DEF BattleType
  <2>3. battle' = [battle EXCEPT ![own[s]] = stopped]
    BY <1>0
  <2> HIDE DEF stopped
  <2>4. battle \in Seq(BattleType)
    BY <1>0 DEF TypeInv
  <2>5. /\ battle' \in Seq(BattleType) /\ Len(battle') = Len(battle)
        /\ \A b \in 1..Len(battle) : battle'[b] = IF b = own[s] THEN stopped ELSE battle[b]
    BY <1>1, <2>2, <2>3, <2>4, ReplacedInSeq
  <2>. QED  BY <1>1, <2>2, <2>5
<1>3. TypeInv'
  BY <1>0, <1>2 DEF TypeInv, Working
<1>4. ASSUME NEW o \in Sessions PROVE OwnOK(o)' /\ StepOK(o)' /\ LifeOK(o)'
  <2>1. step'[o] = IF o = s THEN "stopping" ELSE step[o]
    BY <1>0 DEF TypeInv
  <2>2. own[o] # None => own[o] \in 1..Len(battle)
    BY <1>0 DEF TypeInv
  <2>3. own[o] # None /\ o # s => own[o] # own[s]
    BY <1>1 DEF IInv, OwnOK
  <2>. QED  BY <1>0, <1>1, <1>2, <2>1, <2>2, <2>3 DEF IInv, OwnOK, StepOK, LifeOK
<1>5. ASSUME NEW j \in NumericIDs PROVE RegOK(j)'
  <2>1. CASE registry[j] = None
    BY <1>0, <2>1 DEF RegOK
  <2>2. CASE registry[j] # None
    <3>1. registry[j] \in 1..Len(battle) /\ battle[registry[j]].session \in Sessions
      BY <1>0, <2>2, RegisteredType
    <3>2. CASE registry[j] = own[s]
      BY <1>0, <1>1, <1>2, <2>2, <3>1, <3>2 DEF IInv, RegOK, TypeInv
    <3>3. CASE registry[j] # own[s]
      BY <1>0, <1>2, <2>2, <3>1, <3>3 DEF IInv, RegOK, TypeInv
    <3>. QED  BY <3>2, <3>3
  <2>. QED  BY <2>1, <2>2
<1>. QED  BY <1>3, <1>4, <1>5 DEF IInv

LEMMA DetachStep ==
  ASSUME IInv, NEW s \in Sessions, Detach(s)
  PROVE  IInv'
<1> USE RegistryAssumption
<1>0. /\ TypeInv /\ step[s] = "stopping" /\ own[s] # None /\ OwnOK(s)
      /\ own' = [own EXCEPT ![s] = None]
      /\ UNCHANGED <<registry, battle, life, manager>>
  BY DEF IInv, Detach, StepOK, clients
<1> DEFINE k == battle[own[s]].id
<1>1. own[s] \in 1..Len(battle) /\ battle[own[s]] \in BattleType
  BY <1>0 DEF TypeInv
<1>2. k \in NumericIDs /\ step' = [step EXCEPT ![s] = k]
  BY <1>1 DEF Detach, BattleType
<1>3. TypeInv'
  BY <1>0, <1>2 DEF TypeInv
<1>4. ASSUME NEW o \in Sessions PROVE OwnOK(o)' /\ StepOK(o)' /\ LifeOK(o)'
  <2>1. /\ step'[o] = IF o = s THEN k ELSE step[o]
        /\ own'[o] = IF o = s THEN None ELSE own[o]
    BY <1>0, <1>2 DEF TypeInv
  <2>. QED  BY <1>0, <1>2, <2>1 DEF IInv, OwnOK, StepOK, LifeOK
<1>5. ASSUME NEW j \in NumericIDs PROVE RegOK(j)'
  <2>1. CASE registry[j] = None
    BY <1>0, <2>1 DEF RegOK
  <2>2. CASE registry[j] # None
    <3>1. battle[registry[j]].session \in Sessions
      BY <1>0, <2>2, RegisteredType
    <3>2. CASE battle[registry[j]].session = s
      BY <1>0, <1>1, <1>2, <2>2, <3>2 DEF IInv, RegOK, TypeInv
    <3>3. CASE battle[registry[j]].session # s
      BY <1>0, <1>2, <2>2, <3>1, <3>3 DEF IInv, RegOK, TypeInv
    <3>. QED  BY <3>2, <3>3
  <2>. QED  BY <2>1, <2>2
<1>. QED  BY <1>3, <1>4, <1>5 DEF IInv

LEMMA RemoveStep ==
  ASSUME IInv, NEW s \in Sessions, RemoveBattle(s)
  PROVE  IInv'
<1> USE RegistryAssumption
<1>0. /\ TypeInv /\ step[s] \in NumericIDs
      /\ step' = [step EXCEPT ![s] = "turn"]
      /\ registry' = [registry EXCEPT ![step[s]] = None]
      /\ UNCHANGED <<own, battle, life, manager>>
  BY DEF IInv, RemoveBattle, At, clients
<1>1. TypeInv'
  BY <1>0 DEF TypeInv, Working
<1>2. ASSUME NEW o \in Sessions PROVE OwnOK(o)' /\ StepOK(o)' /\ LifeOK(o)'
  <2>1. step'[o] = IF o = s THEN "turn" ELSE step[o]
    BY <1>0 DEF TypeInv
  <2>. QED  BY <1>0, <2>1 DEF IInv, OwnOK, StepOK, LifeOK
<1>3. ASSUME NEW j \in NumericIDs PROVE RegOK(j)'
  <2>1. CASE registry'[j] = None
    BY <2>1 DEF RegOK
  <2>2. CASE registry'[j] # None
    <3>1. registry'[j] = registry[j] /\ j # step[s]
      BY <1>0, <2>2 DEF TypeInv
    <3>2. battle[registry[j]].session \in Sessions
      BY <1>0, <2>2, <3>1, RegisteredType
    <3>. QED  BY <1>0, <2>2, <3>1, <3>2 DEF IInv, RegOK, TypeInv
  <2>. QED  BY <2>1, <2>2
<1>. QED  BY <1>1, <1>2, <1>3 DEF IInv

-----------------------------------------------------------------------------
\* Outside of the commands no worker is at work.
IdleOK == phase # "commands" => \A s \in Sessions : step[s] = "out"

LEMMA IdleStep ==
  ASSUME IdleOK, [Next]_vars
  PROVE  IdleOK'
<1> USE RegistryAssumption DEF IdleOK
<1>1. CASE UNCHANGED <<phase, step>>
  BY <1>1
<1>2. ASSUME NEW s \in Sessions, step[s] # "out", phase' = phase PROVE IdleOK'
  BY <1>2
<1>3. CASE RoundBegins \/ BattlesBegin \/ RoundEnds
  BY <1>3 DEF RoundBegins, BattlesBegin, RoundEnds, InRound
<1>. QED
  BY <1>1, <1>2, <1>3 DEF Next, vars, round, Connect, Evict, Disconnect,
     ExpireBegins, ExpireEnds, TurnBegins, TurnEnds, Start, AddBattle, Stop, Detach,
     RemoveBattle, At, Advance

LEMMA StepInv ==
  ASSUME IInv, IdleOK, [Next]_vars
  PROVE  IInv'
<1> USE RegistryAssumption
<1>0. TypeInv
  BY DEF IInv
<1>1. ASSUME NEW u \in Users, Connect(u) \/ Evict(u) PROVE IInv'
  BY <1>1, UserStep
<1>2. ASSUME NEW s \in Sessions, Disconnect(s) \/ ExpireBegins(s) \/ ExpireEnds(s)
      PROVE IInv'
  BY <1>2, SessionStep
<1>3. ASSUME NEW s \in Sessions, TurnBegins(s) \/ TurnEnds(s) PROVE IInv'
  <2>1. step' \in [Sessions -> Working \cup NumericIDs]
    BY <1>0, <1>3 DEF TurnBegins, TurnEnds, TypeInv, Working
  <2>2. \A o \in Sessions : step'[o] # step[o] =>
          {step[o], step'[o]} \subseteq {"out", "waiting", "turn"}
    BY <1>0, <1>3 DEF TurnBegins, TurnEnds, TypeInv
  <2>. QED  BY <1>3, <2>1, <2>2, RoundStep DEF TurnBegins, TurnEnds, clients
<1>4. ASSUME NEW s \in Sessions,
             \/ \E k \in NumericIDs : Start(s, k)
             \/ AddBattle(s) \/ Stop(s) \/ Detach(s) \/ RemoveBattle(s)
      PROVE IInv'
  BY <1>4, StartStep, AddStep, StopStep, DetachStep, RemoveStep
<1>5. CASE RoundBegins
  <2>1. \A o \in Sessions : step[o] = "out" /\ step'[o] \in {"out", "waiting"}
    BY <1>5 DEF RoundBegins, IdleOK
  <2>2. step' \in [Sessions -> Working \cup NumericIDs]
    BY <1>5 DEF RoundBegins, Working
  <2>. QED  BY <1>5, <2>1, <2>2, RoundStep DEF RoundBegins, clients
<1>6. CASE BattlesBegin \/ RoundEnds \/ (\E b \in Battles : Advance(b)) \/ UNCHANGED vars
  <2>1. UNCHANGED <<fights, clients, step>>
    BY <1>6 DEF BattlesBegin, RoundEnds, Advance, vars, round
  <2>. QED  BY <1>0, <2>1, RoundStep DEF clients, TypeInv
<1>. QED  BY <1>1, <1>2, <1>3, <1>4, <1>5, <1>6 DEF Next

-----------------------------------------------------------------------------
\* RegOK says more than RegisteredRuns, LifeOK than BattleKeepsSession.
LEMMA InvImplies ==
  IInv => RegisteredRuns /\ BattleKeepsSession
<1> SUFFICES ASSUME IInv PROVE RegisteredRuns /\ BattleKeepsSession
  OBVIOUS
<1>1. RegisteredRuns
  BY DEF IInv, RegOK, RegisteredRuns, Stopping
<1>2. BattleKeepsSession
  BY DEF IInv, LifeOK, BattleKeepsSession, Fighting
<1>. QED  BY <1>1, <1>2

\* Battles and sessions, for any number of players and rounds.
LEMMA SpecInv == Spec => [](IInv /\ IdleOK)
<1>1. Init => IInv /\ IdleOK
  BY InitInv DEF Init, IdleOK
<1>2. IInv /\ IdleOK /\ [Next]_vars => IInv' /\ IdleOK'
  BY StepInv, IdleStep
<1>. QED  BY <1>1, <1>2, PTL DEF Spec

\* A battle that battle.stop has stopped does not stay in the registry, where
\* tickBattles would find it for ever, whoever else fights under its NumericID
\* (RemoveBattle goes by NumericID).
THEOREM StoppedBattleLeaves == Spec => []RegisteredRuns
  BY SpecInv, InvImplies, PTL

\* The grace timer leaves a player who is in battle alone, unless the battle
\* began while it was already saving the session (startGraceTimer).
THEOREM TimerSparesBattles == Spec => []BattleKeepsSession
  BY SpecInv, InvImplies, PTL

-----------------------------------------------------------------------------
(* What tickBattles comes to.  A battle nobody shares the NumericID with   *)
(* stays registered: whoever registers or removes that id holds, or has    *)
(* held, a battle that is then a rival.                                    *)

\* Every battle of the same id begun later found b running or being stopped.
RivalOf(b) ==
  \A c \in 1..Len(battle) :
    c > b /\ battle[c].id = battle[b].id => b \in battle[c].rivals

\* A running battle is held by its session, and who holds a battle has it
\* among the rivals of later ones.
HeldOK(b) ==
  /\ battle[b].running => own[battle[b].session] = b
  /\ own[battle[b].session] = b => RivalOf(b)

\* A running battle that is not shared is registered, or about to be.
ListedOK(b) ==
  battle[b].running /\ ~Shared(b) =>
    registry[battle[b].id] = b \/ step[battle[b].session] = "adding"

\* battle.stop has stopped its battle, and knows its id when it removes it.
StoppingOK(s) ==
  /\ step[s] = "stopping" => ~battle[own[s]].running
  /\ step[s] \in NumericIDs =>
       \E b \in 1..Len(battle) :
         /\ battle[b].session = s /\ battle[b].id = step[s]
         /\ ~battle[b].running /\ RivalOf(b)

ListInv ==
  /\ \A b \in 1..Len(battle) : HeldOK(b) /\ ListedOK(b)
  /\ \A s \in Sessions : StoppingOK(s)

LEMMA BattleFields ==
  ASSUME TypeInv, NEW b \in 1..Len(battle)
  PROVE  /\ battle[b] \in BattleType /\ battle[b].session \in Sessions
         /\ battle[b].id \in NumericIDs /\ battle[b].running \in BOOLEAN
         /\ b \in Nat /\ b # None
<1>1. battle[b] \in BattleType /\ b \in Nat
  BY DEF TypeInv
<1>. QED  BY <1>1, RegistryAssumption DEF BattleType

\* A battle with a rival of its id is shared.
LEMMA SharedBy ==
  ASSUME TypeInv, NEW b \in 1..Len(battle), NEW c \in 1..Len(battle), b # c,
         battle[b].id = battle[c].id, RivalOf(c)
  PROVE  Shared(b)
<1>1. DOMAIN battle = 1..Len(battle) /\ b \in Nat /\ c \in Nat
  BY DEF TypeInv
<1>2. CASE c > b
  BY <1>1, <1>2 DEF Shared, Index
<1>3. CASE b > c
  BY <1>3 DEF RivalOf, Shared
<1>. QED  BY <1>1, <1>2, <1>3

\* A step that leaves battles alone.
LEMMA ListKeeps ==
  ASSUME TypeInv, ListInv, UNCHANGED fights,
         \A s \in Sessions : step'[s] # step[s] =>
           {step[s], step'[s]} \subseteq {"out", "waiting", "turn"}
  PROVE  ListInv'
<1> USE RegistryAssumption
<1>1. ASSUME NEW b \in 1..Len(battle) PROVE HeldOK(b)' /\ ListedOK(b)'
  <2>1. battle[b].session \in Sessions
    BY BattleFields
  <2>2. step[battle[b].session] = "adding" => step'[battle[b].session] = "adding"
    BY <2>1
  <2>3. HeldOK(b) /\ ListedOK(b)
    BY DEF ListInv
  <2>4. HeldOK(b)'
    BY <2>3 DEF HeldOK, RivalOf, fights
  <2>5. ListedOK(b)'
    BY <2>2, <2>3 DEF ListedOK, Shared, Index, fights
  <2>. QED  BY <2>4, <2>5
<1>2. ASSUME NEW s \in Sessions PROVE StoppingOK(s)'
  <2>1. step'[s] \in {"stopping"} \cup NumericIDs => step'[s] = step[s]
    OBVIOUS
  <2>. QED  BY <2>1 DEF ListInv, StoppingOK, RivalOf, fights
<1>. QED  BY <1>1, <1>2 DEF ListInv, fights

\* battle.start: the battles of its id that somebody holds become its rivals.
LEMMA ListStart ==
  ASSUME IInv, ListInv, NEW s \in Sessions, NEW k \in NumericIDs, Start(s, k)
  PROVE  ListInv'
<1> USE RegistryAssumption
<1> DEFINE new == NewBattle(s, k)
<1>0. TypeInv /\ step[s] = "turn" /\ own[s] = None
  BY DEF IInv, Start, At
<1>a. PICK n \in Nat : n = Len(battle) + 1
  BY <1>0 DEF TypeInv
<1>1. new \in BattleType /\ Len(battle) \in Nat /\ DOMAIN battle = 1..Len(battle)
  BY <1>0 DEF NewBattle, BattleType, TypeInv
<1>2. /\ battle' = Append(battle, new) /\ Len(battle') = n
      /\ DOMAIN battle' = 1..n
      /\ \A b \in 1..Len(battle) : battle'[b] = battle[b]
      /\ battle'[n] = new
  BY <1>0, <1>1, <1>a DEF Start, TypeInv
<1>3. /\ own' = [own EXCEPT ![s] = n] /\ registry' = registry
      /\ step' = [step EXCEPT ![s] = "adding"]
  BY <1>2 DEF Start, At
<1>4. /\ new.session = s /\ new.id = k
      /\ new.rivals = {b \in 1..Len(battle) :
                         battle[b].id = k /\ (battle[b].running \/ Stopping(battle[b].session))}
  BY <1>1 DEF NewBattle
<1>5. \A o \in Sessions \ {s} : own'[o] = own[o] /\ step'[o] = step[o]
  BY <1>0, <1>3 DEF TypeInv
<1>6. own'[s] = n /\ step'[s] = "adding"
  BY <1>0, <1>3 DEF TypeInv
<1> HIDE DEF new
<1>7. ASSUME NEW b \in 1..Len(battle), RivalOf(b),
             battle[b].running \/ Stopping(battle[b].session)
      PROVE  RivalOf(b)'
  <2> SUFFICES ASSUME NEW c \in 1..n, c > b, battle'[c].id = battle'[b].id
               PROVE  b \in battle'[c].rivals
    BY <1>2 DEF RivalOf
  <2>1. CASE c = n
    BY <1>2, <1>4, <1>7, <2>1
  <2>2. CASE c # n
    <3>1. c \in 1..Len(battle)
      BY <1>1, <1>a, <2>2
    <3>. QED  BY <1>2, <1>7, <3>1 DEF RivalOf
  <2>. QED  BY <2>1, <2>2
<1>8. ASSUME NEW b \in 1..Len(battle) PROVE HeldOK(b)' /\ ListedOK(b)'
  <2> DEFINE o == battle[b].session
  <2>1. /\ o \in Sessions /\ battle'[b] = battle[b] /\ b # None /\ b # n
        /\ HeldOK(b) /\ ListedOK(b)
    BY <1>0, <1>1, <1>2, <1>a, BattleFields DEF ListInv
  <2>2. own'[o] = b => own[o] = b
    BY <1>5, <1>6, <2>1
  <2>3. own[o] = b => battle[b].running \/ Stopping(o)
    BY <2>1 DEF IInv, OwnOK, Stopping
  <2>4. battle[b].running => o # s
    BY <1>0, <2>1 DEF HeldOK
  <2>5. HeldOK(b)'
    BY <1>5, <1>7, <2>1, <2>2, <2>3, <2>4 DEF HeldOK
  <2>6. ~Shared(b)' => ~Shared(b)
    <3>1. ASSUME NEW c \in 1..Len(battle), c > b, battle[c].id = battle[b].id
          PROVE  Shared(b)'
      BY <1>1, <1>2, <1>a, <2>1, <3>1 DEF Shared, Index
    <3>. QED  BY <1>1, <2>1, <3>1 DEF Shared, Index
  <2>7. ListedOK(b)'
    BY <1>3, <1>5, <2>1, <2>4, <2>6 DEF ListedOK
  <2>. QED  BY <2>5, <2>7
<1>9. HeldOK(n)' /\ ListedOK(n)'
  <2>1. RivalOf(n)'
    BY <1>2, <1>a DEF RivalOf
  <2>. QED  BY <1>2, <1>4, <1>6, <2>1 DEF HeldOK, ListedOK
<1>10. ASSUME NEW o \in Sessions PROVE StoppingOK(o)'
  <2>1. CASE o = s
    BY <1>6, <2>1 DEF StoppingOK
  <2>2. CASE o # s
    <3>1. own'[o] = own[o] /\ step'[o] = step[o] /\ StoppingOK(o)
      BY <1>5, <2>2 DEF ListInv
    <3>2. ASSUME step[o] = "stopping" PROVE ~battle'[own'[o]].running
      <4>1. own[o] \in 1..Len(battle)
        BY <1>0, <3>2 DEF IInv, StepOK, TypeInv
      <4>. QED  BY <1>2, <3>1, <3>2, <4>1 DEF StoppingOK
    <3>3. ASSUME step[o] \in NumericIDs
          PROVE  \E b \in 1..Len(battle') :
                   /\ battle'[b].session = o /\ battle'[b].id = step[o]
                   /\ ~battle'[b].running /\ RivalOf(b)'
      <4>1. PICK b \in 1..Len(battle) :
              /\ battle[b].session = o /\ battle[b].id = step[o]
              /\ ~battle[b].running /\ RivalOf(b)
        BY <3>1, <3>3 DEF StoppingOK
      <4>2. RivalOf(b)'
        BY <1>7, <3>3, <4>1 DEF Stopping
      <4>3. b \in 1..Len(battle')
        BY <1>1, <1>2, <1>a
      <4>. QED  BY <1>2, <4>1, <4>2, <4>3
    <3>. QED  BY <3>1, <3>2, <3>3 DEF StoppingOK
  <2>. QED  BY <2>1, <2>2
<1>11. 1..Len(battle') = (1..Len(battle)) \cup {n}
  BY <1>1, <1>2, <1>a
<1>. QED  BY <1>8, <1>9, <1>10, <1>11 DEF ListInv

\* AddBattle: who loses the place in the registry had a rival.
LEMMA ListAdd ==
  ASSUME IInv, ListInv, NEW s \in Sessions, AddBattle(s)
  PROVE  ListInv'
<1> USE RegistryAssumption
<1> DEFINE c == own[s]
<1>0. /\ TypeInv /\ step[s] = "adding" /\ own[s] # None /\ OwnOK(s)
      /\ step' = [step EXCEPT ![s] = "turn"]
      /\ UNCHANGED <<battle, own>>
  BY DEF IInv, AddBattle, At, StepOK
<1>1. c \in 1..Len(battle) /\ battle[c].session = s
  BY <1>0 DEF TypeInv, OwnOK
<1>2. registry' = [registry EXCEPT ![battle[c].id] = c]
  BY DEF AddBattle
<1>3. \A o \in Sessions : step'[o] = IF o = s THEN "turn" ELSE step[o]
  BY <1>0 DEF TypeInv
<1>4. RivalOf(c)
  BY <1>1 DEF ListInv, HeldOK
<1>5. ASSUME NEW b \in 1..Len(battle) PROVE HeldOK(b)' /\ ListedOK(b)'
  <2>1. HeldOK(b) /\ ListedOK(b) /\ battle[b].id \in NumericIDs
        /\ battle[b].session \in Sessions
    BY <1>0, BattleFields DEF ListInv
  <2>2. HeldOK(b)'
    BY <1>0, <2>1 DEF HeldOK, RivalOf
  <2>3. CASE b = c
    <3>1. registry'[battle[b].id] = b
      BY <1>0, <1>2, <2>1, <2>3 DEF TypeInv
    <3>. QED  BY <1>0, <2>2, <3>1 DEF ListedOK
  <2>4. CASE b # c /\ battle[b].id = battle[c].id
    <3>1. Shared(b)
      BY <1>0, <1>1, <1>4, <2>4, SharedBy
    <3>2. Shared(b)'
      BY <1>0, <3>1 DEF Shared, Index
    <3>. QED  BY <2>2, <3>2 DEF ListedOK
  <2>5. CASE b # c /\ battle[b].id # battle[c].id
    <3>1. registry'[battle[b].id] = registry[battle[b].id]
      BY <1>0, <1>2, <2>1, <2>5 DEF TypeInv
    <3>2. battle[b].running => battle[b].session # s
      BY <2>1, <2>5 DEF HeldOK
    <3>3. Shared(b)' <=> Shared(b)
      BY <1>0 DEF Shared, Index
    <3>. QED  BY <1>0, <1>3, <2>1, <2>2, <3>1, <3>2, <3>3 DEF ListedOK
  <2>. QED  BY <2>3, <2>4, <2>5
<1>6. ASSUME NEW o \in Sessions PROVE StoppingOK(o)'
  BY <1>0, <1>3 DEF ListInv, StoppingOK, RivalOf
<1>. QED  BY <1>0, <1>5, <1>6 DEF ListInv

\* battle.stop ends the battle its session holds.
LEMMA ListStop ==
  ASSUME IInv, ListInv, NEW s \in Sessions, Stop(s)
  PROVE  ListInv'
<1> USE RegistryAssumption
<1>0. /\ TypeInv /\ step[s] = "turn" /\ own[s] # None /\ OwnOK(s)
      /\ step' = [step EXCEPT ![s] = "stopping"]
      /\ battle' = [battle EXCEPT ![own[s]].running = FALSE]
      /\ UNCHANGED <<registry, own>>
  BY DEF IInv, Stop, At
<1>1. own[s] \in 1..Len(battle) /\ battle[own[s]].session = s
  BY <1>0 DEF TypeInv, OwnOK
<1>2. /\ Len(battle') = Len(battle) /\ DOMAIN battle' = 1..Len(battle)
      /\ DOMAIN battle = 1..Len(battle)
      /\ \A b \in 1..Len(battle) :
           /\ battle'[b].id = battle[b].id /\ battle'[b].session = battle[b].session
           /\ battle'[b].rivals = battle[b].rivals
           /\ b # own[s] => battle'[b].running = battle[b].running
           /\ b = own[s] => battle'[b].running = FALSE
  <2> DEFINE stopped == [battle[own[s]] EXCEPT !.running = FALSE]
  <2>1. battle[own[s]] \in BattleType /\ battle \in Seq(BattleType)
    BY <1>0, <1>1 DEF TypeInv
  <2>2. /\ stopped \in BattleType /\ stopped.running = FALSE
        /\ stopped.id = battle[own[s]].id /\ stopped.session = battle[own[s]].session
        /\ stopped.rivals = battle[own[s]].rivals
    BY <2>1 DEF BattleType
  <2>3. battle' = [battle EXCEPT ![own[s]] = stopped]
    BY <1>0
  <2> HIDE DEF stopped
  <2>4. /\ battle' \in Seq(BattleType) /\ Len(battle') = Len(battle)
        /\ \A b \in 1..Len(battle) : battle'[b] = IF b = own[s] THEN stopped ELSE battle[b]
    BY <1>1, <2>1, <2>2, <2>3, ReplacedInSeq
  <2>. QED  BY <1>1, <2>1, <2>2, <2>4
<1>3. \A o \in Sessions : step'[o] = IF o = s THEN "stopping" ELSE step[o]
  BY <1>0 DEF TypeInv
<1>4. \A b \in 1..Len(battle) : RivalOf(b) => RivalOf(b)'
  BY <1>2 DEF RivalOf
<1>5. ASSUME NEW b \in 1..Len(battle) PROVE HeldOK(b)' /\ ListedOK(b)'
  <2>1. HeldOK(b) /\ ListedOK(b) /\ battle[b].session \in Sessions
    BY <1>0, BattleFields DEF ListInv
  <2>2. HeldOK(b)'
    BY <1>0, <1>2, <1>4, <2>1 DEF HeldOK
  <2>3. Shared(b)' <=> Shared(b)
    BY <1>2 DEF Shared, Index
  <2>4. step[battle[b].session] = "adding" => step'[battle[b].session] = "adding"
    BY <1>0, <1>3, <2>1
  <2>. QED  BY <1>0, <1>2, <2>1, <2>2, <2>3, <2>4 DEF ListedOK
<1>6. ASSUME NEW o \in Sessions PROVE StoppingOK(o)'
  <2>1. CASE o = s
    BY <1>0, <1>1, <1>2, <1>3, <2>1 DEF StoppingOK
  <2>2. CASE o # s
    <3>1. step'[o] = step[o] /\ own'[o] = own[o] /\ StoppingOK(o)
      BY <1>0, <1>3, <2>2 DEF ListInv
    <3>2. step[o] = "stopping" => own[o] \in 1..Len(battle)
      BY <1>0 DEF IInv, StepOK, TypeInv
    <3>3. step[o] = "stopping" => ~battle'[own'[o]].running
      BY <1>2, <3>1, <3>2 DEF StoppingOK
    <3>4. ASSUME step[o] \in NumericIDs
          PROVE  \E b \in 1..Len(battle') :
                   /\ battle'[b].session = o /\ battle'[b].id = step[o]
                   /\ ~battle'[b].running /\ RivalOf(b)'
      <4>1. PICK b \in 1..Len(battle) :
              /\ battle[b].session = o /\ battle[b].id = step[o]
              /\ ~battle[b].running /\ RivalOf(b)
        BY <3>1, <3>4 DEF StoppingOK
      <4>. QED  BY <1>2, <1>4, <4>1
    <3>. QED  BY <3>1, <3>3, <3>4 DEF StoppingOK
  <2>. QED  BY <2>1, <2>2
<1>. QED  BY <1>2, <1>5, <1>6 DEF ListInv

\* SetBattleSession(nil): the handler keeps the id.
LEMMA ListDetach ==
  ASSUME IInv, ListInv, NEW s \in Sessions, Detach(s)
  PROVE  ListInv'
<1> USE RegistryAssumption
<1>0. /\ TypeInv /\ step[s] = "stopping" /\ own[s] # None /\ OwnOK(s) /\ StoppingOK(s)
      /\ own' = [own EXCEPT ![s] = None]
      /\ step' = [step EXCEPT ![s] = battle[own[s]].id]
      /\ UNCHANGED <<registry, battle>>
  BY DEF IInv, ListInv, Detach, StepOK
<1>a. PICK c \in 1..Len(battle) : c = own[s]
  BY <1>0 DEF TypeInv
<1>b. PICK k \in NumericIDs : k = battle[c].id
  BY <1>0, BattleFields
<1>1. battle[c].session = s /\ ~battle[c].running
  BY <1>0, <1>a DEF OwnOK, StoppingOK
<1>3. RivalOf(c)
  BY <1>1, <1>a DEF ListInv, HeldOK
<1>4. \A o \in Sessions : /\ own'[o] = IF o = s THEN None ELSE own[o]
                          /\ step'[o] = IF o = s THEN k ELSE step[o]
  BY <1>0, <1>a, <1>b DEF TypeInv
<1>5. ASSUME NEW b \in 1..Len(battle) PROVE HeldOK(b)' /\ ListedOK(b)'
  <2>1. /\ HeldOK(b) /\ ListedOK(b) /\ battle[b].session \in Sessions /\ b # None
    BY <1>0, BattleFields DEF ListInv
  <2>2. battle[b].running => battle[b].session # s
    BY <1>1, <1>a, <2>1, <1>0 DEF HeldOK, StoppingOK
  <2>3. HeldOK(b)'
    BY <1>0, <1>4, <2>1, <2>2 DEF HeldOK, RivalOf
  <2>4. Shared(b)' <=> Shared(b)
    BY <1>0 DEF Shared, Index
  <2>. QED  BY <1>0, <1>4, <2>1, <2>2, <2>3, <2>4 DEF ListedOK
<1>6. ASSUME NEW o \in Sessions PROVE StoppingOK(o)'
  <2>1. CASE o = s
    <3>1. step'[o] = k /\ battle[c].id = k /\ RivalOf(c)'
      BY <1>0, <1>3, <1>4, <1>b, <2>1 DEF RivalOf
    <3>. QED  BY <1>0, <1>1, <2>1, <3>1 DEF StoppingOK
  <2>2. CASE o # s
    BY <1>0, <1>4, <2>2 DEF ListInv, StoppingOK, RivalOf
  <2>. QED  BY <2>1, <2>2
<1>. QED  BY <1>0, <1>5, <1>6 DEF ListInv

\* RemoveBattle: who loses the place in the registry had a rival.
LEMMA ListRemove ==
  ASSUME IInv, ListInv, NEW s \in Sessions, RemoveBattle(s)
  PROVE  ListInv'
<1> USE RegistryAssumption
<1>0. /\ TypeInv /\ step[s] \in NumericIDs /\ StoppingOK(s)
      /\ step' = [step EXCEPT ![s] = "turn"]
      /\ registry' = [registry EXCEPT ![step[s]] = None]
      /\ UNCHANGED <<own, battle>>
  BY DEF IInv, ListInv, RemoveBattle, At
<1>1. PICK c \in 1..Len(battle) :
        /\ battle[c].session = s /\ battle[c].id = step[s]
        /\ ~battle[c].running /\ RivalOf(c)
  BY <1>0 DEF StoppingOK
<1>2. \A o \in Sessions : step'[o] = IF o = s THEN "turn" ELSE step[o]
  BY <1>0 DEF TypeInv
<1>3. ASSUME NEW b \in 1..Len(battle) PROVE HeldOK(b)' /\ ListedOK(b)'
  <2>1. /\ HeldOK(b) /\ ListedOK(b) /\ battle[b].session \in Sessions
        /\ battle[b].id \in NumericIDs
    BY <1>0, BattleFields DEF ListInv
  <2>2. HeldOK(b)'
    BY <1>0, <2>1 DEF HeldOK, RivalOf
  <2>3. Shared(b)' <=> Shared(b)
    BY <1>0 DEF Shared, Index
  <2>4. CASE battle[b].id = step[s]
    <3>1. battle[b].running => Shared(b)
      BY <1>0, <1>1, <2>4, SharedBy
    <3>. QED  BY <1>0, <2>2, <2>3, <3>1 DEF ListedOK
  <2>5. CASE battle[b].id # step[s]
    <3>1. registry'[battle[b].id] = registry[battle[b].id]
      BY <1>0, <2>1, <2>5 DEF TypeInv
    <3>2. step[battle[b].session] = "adding" => step'[battle[b].session] = "adding"
      BY <1>0, <1>2, <2>1
    <3>. QED  BY <1>0, <2>1, <2>2, <2>3, <3>1, <3>2 DEF ListedOK
  <2>. QED  BY <2>4, <2>5
<1>4. ASSUME NEW o \in Sessions PROVE StoppingOK(o)'
  BY <1>0, <1>2 DEF ListInv, StoppingOK, RivalOf
<1>. QED  BY <1>0, <1>3, <1>4 DEF ListInv

LEMMA ListStep ==
  ASSUME IInv, ListInv, IdleOK, [Next]_vars
  PROVE  ListInv'
<1>0. TypeInv
  BY DEF IInv
<1>1. CASE UNCHANGED <<fights, step>>
  BY <1>0, <1>1, ListKeeps
<1>2. ASSUME NEW s \in Sessions, TurnBegins(s) \/ TurnEnds(s) PROVE ListInv'
  <2>1. \A o \in Sessions : step'[o] # step[o] =>
          {step[o], step'[o]} \subseteq {"out", "waiting", "turn"}
    BY <1>0, <1>2 DEF TurnBegins, TurnEnds, TypeInv
  <2>. QED  BY <1>0, <1>2, <2>1, ListKeeps DEF TurnBegins, TurnEnds
<1>3. CASE RoundBegins
  <2>1. \A o \in Sessions : step[o] = "out" /\ step'[o] \in {"out", "waiting"}
    BY <1>3 DEF RoundBegins, IdleOK
  <2>. QED  BY <1>0, <1>3, <2>1, ListKeeps DEF RoundBegins
<1>4. ASSUME NEW s \in Sessions,
             \/ \E k \in NumericIDs : Start(s, k)
             \/ AddBattle(s) \/ Stop(s) \/ Detach(s) \/ RemoveBattle(s)
      PROVE  ListInv'
  BY <1>4, ListStart, ListAdd, ListStop, ListDetach, ListRemove
<1>. QED
  BY <1>1, <1>2, <1>3, <1>4 DEF Next, vars, round, Connect, Evict, Disconnect,
     ExpireBegins, ExpireEnds, BattlesBegin, RoundEnds, Advance

-----------------------------------------------------------------------------
(* What a round does with them, and what it tells the players.             *)

\* A session that the Manager hands out, that takes part in a round or that
\* has fought is no new one, and is its player's.
BornOK ==
  /\ \A u \in Users : manager[u] # None =>
       UserOf[manager[u]] = u /\ life[manager[u]] # "new"
  /\ \A s \in Sessions : step[s] # "out" => life[s] # "new"
  /\ \A b \in 1..Len(battle) : life[battle[b].session] # "new"

\* In its last part a round has advanced, or has still to look at, every
\* running battle that is not shared.
ServedOK ==
  phase = "battles" =>
    /\ todo \subseteq 1..Len(battle)
    /\ \A b \in 1..Len(battle) :
         battle[b].running /\ ~Shared(b) => b \in todo \cup served

\* While commands run nothing has been sent; after that, what was sent to a
\* session the player still has is about the battle it holds.
SentOK ==
  /\ phase = "commands" => sent = {}
  /\ \A m \in sent :
       /\ m[2] \in 1..Len(battle)
       /\ LET s == battle[m[2]].session
          IN  manager[UserOf[s]] = s => m[1] = s /\ own[s] = m[2]

\* Sessions are made once: a session that is not new was not made just now.
LEMMA Ages ==
  ASSUME IInv, [Next]_vars, NEW s \in Sessions, life[s] # "new"
  PROVE  /\ life'[s] # "new"
         /\ \A u \in Users : manager'[u] = s => manager[u] = s
<1> USE RegistryAssumption
<1>0. TypeInv
  BY DEF IInv
<1>1. ASSUME NEW u \in Users, Connect(u)
      PROVE /\ life'[s] # "new"
            /\ \A o \in Users : manager'[o] = s => manager[o] = s
  BY <1>0, <1>1 DEF Connect, TypeInv
<1>2. ASSUME NEW u \in Users, Evict(u)
      PROVE /\ life'[s] # "new"
            /\ \A o \in Users : manager'[o] = s => manager[o] = s
  BY <1>0, <1>2 DEF Evict, TypeInv
<1>3. ASSUME NEW o \in Sessions, ExpireBegins(o) \/ ExpireEnds(o)
      PROVE /\ life'[s] # "new"
            /\ \A u \in Users : manager'[u] = s => manager[u] = s
  BY <1>0, <1>3 DEF ExpireBegins, ExpireEnds, TypeInv
<1>4. CASE UNCHANGED <<life, manager>>
  BY <1>4
<1>. QED
  BY <1>1, <1>2, <1>3, <1>4 DEF Next, vars, clients, Disconnect, TurnBegins, TurnEnds,
     Start, AddBattle, Stop, Detach, RemoveBattle, At, RoundBegins, BattlesBegin,
     RoundEnds, Advance

LEMMA BornStep ==
  ASSUME IInv, BornOK, [Next]_vars
  PROVE  BornOK'
<1> USE RegistryAssumption
<1>0. TypeInv
  BY DEF IInv
<1>1. ASSUME NEW u \in Users, manager'[u] # None
      PROVE  UserOf[manager'[u]] = u /\ life'[manager'[u]] # "new"
  <2>1. CASE manager'[u] = manager[u]
    BY <1>0, <1>1, <2>1, Ages DEF BornOK, TypeInv
  <2>2. CASE manager'[u] # manager[u]
    <3>1. Connect(u)
      BY <1>0, <1>1, <2>2 DEF Next, vars, clients, Connect, Evict, Disconnect, ExpireBegins,
         ExpireEnds, TurnBegins, TurnEnds, Start, AddBattle, Stop, Detach, RemoveBattle,
         At, RoundBegins, BattlesBegin, RoundEnds, Advance, TypeInv
    <3>. QED  BY <1>0, <2>2, <3>1 DEF Connect, TypeInv
  <2>. QED  BY <2>1, <2>2
<1>2. ASSUME NEW s \in Sessions, step'[s] # "out" PROVE life'[s] # "new"
  <2>1. CASE step[s] # "out"
    BY <2>1, Ages DEF BornOK
  <2>2. CASE step[s] = "out"
    <3>1. RoundBegins
      BY <1>0, <1>2, <2>2 DEF Next, vars, round, Connect, Evict, Disconnect, ExpireBegins,
         ExpireEnds, TurnBegins, TurnEnds, Start, AddBattle, Stop, Detach, RemoveBattle,
         At, BattlesBegin, RoundEnds, Advance, TypeInv
    <3>2. s \in Managed
      BY <1>2, <3>1 DEF RoundBegins
    <3>3. life[s] # "new"
      BY <3>2 DEF Managed, BornOK
    <3>. QED  BY <3>3, Ages
  <2>. QED  BY <2>1, <2>2
<1>3. ASSUME NEW b \in 1..Len(battle') PROVE life'[battle'[b].session] # "new"
  <2>1. ASSUME b \in 1..Len(battle), battle'[b].session = battle[b].session
        PROVE  life'[battle'[b].session] # "new"
    <3>1. battle[b].session \in Sessions
      BY <1>0, <2>1, BattleFields
    <3>. QED  BY <2>1, <3>1, Ages DEF BornOK
  <2>2. ASSUME NEW s \in Sessions, NEW k \in NumericIDs, Start(s, k)
        PROVE  life'[battle'[b].session] # "new"
    <3>1. battle' = Append(battle, NewBattle(s, k)) /\ step[s] = "turn"
      BY <2>2 DEF Start, At
    <3>2. CASE b \in 1..Len(battle)
      BY <1>0, <2>1, <3>1, <3>2 DEF TypeInv
    <3>3. CASE b \notin 1..Len(battle)
      <4>1. battle'[b] = NewBattle(s, k)
        BY <1>0, <3>1, <3>3 DEF TypeInv
      <4>. QED  BY <3>1, <4>1, Ages DEF NewBattle, BornOK
    <3>. QED  BY <3>2, <3>3
  <2>3. ASSUME NEW s \in Sessions, Stop(s)
        PROVE  life'[battle'[b].session] # "new"
    <3>1. battle' = [battle EXCEPT ![own[s]].running = FALSE] /\ own[s] \in 1..Len(battle)
      BY <1>0, <2>3 DEF Stop, TypeInv
    <3>2. b \in 1..Len(battle) /\ battle'[b].session = battle[b].session
      BY <1>0, <3>1 DEF TypeInv, BattleType
    <3>. QED  BY <2>1, <3>2
  <2>4. CASE UNCHANGED battle
    BY <2>1, <2>4
  <2>. QED
    BY <2>2, <2>3, <2>4 DEF Next, vars, fights, Connect, Evict, Disconnect, ExpireBegins,
       ExpireEnds, TurnBegins, TurnEnds, AddBattle, Detach, RemoveBattle, RoundBegins,
       BattlesBegin, RoundEnds, Advance
<1>. QED  BY <1>1, <1>2, <1>3 DEF BornOK

LEMMA ServedStep ==
  ASSUME IInv, ListInv, IdleOK, ServedOK, [Next]_vars
  PROVE  ServedOK'
<1> USE RegistryAssumption
<1>0. TypeInv
  BY DEF IInv
<1>1. CASE UNCHANGED <<fights, phase, todo, served>>
  BY <1>1 DEF ServedOK, Shared, Index, fights
<1>2. ASSUME NEW s \in Sessions, step[s] # "out", phase' = phase PROVE ServedOK'
  BY <1>2 DEF IdleOK, ServedOK
<1>3. CASE RoundBegins \/ RoundEnds
  BY <1>3 DEF RoundBegins, RoundEnds, ServedOK
<1>4. CASE BattlesBegin
  <2>1. /\ UNCHANGED fights /\ todo' = Registered /\ \A s \in Sessions : step[s] = "out"
    BY <1>4 DEF BattlesBegin, InRound
  <2>2. Registered \subseteq 1..Len(battle)
    BY <1>0 DEF Registered, TypeInv
  <2>3. ASSUME NEW b \in 1..Len(battle), battle[b].running, ~Shared(b)
        PROVE  b \in Registered
    <3>1. /\ battle[b].session \in Sessions /\ battle[b].id \in NumericIDs /\ b # None
          /\ ListedOK(b)
      BY <1>0, BattleFields DEF ListInv
    <3>2. registry[battle[b].id] = b
      BY <2>1, <2>3, <3>1 DEF ListedOK
    <3>. QED  BY <3>1, <3>2 DEF Registered
  <2>. QED  BY <2>1, <2>2, <2>3 DEF ServedOK, Shared, Index, fights
<1>5. ASSUME NEW b \in Battles, Advance(b) PROVE ServedOK'
  <2>1. UNCHANGED <<fights, phase>> /\ phase = "battles" /\ todo' = todo \ {b}
        /\ served' = IF battle[b].running THEN served \cup {b} ELSE served
    BY <1>5 DEF Advance
  <2>. QED  BY <2>1 DEF ServedOK, Shared, Index, fights
<1>. QED
  BY <1>1, <1>2, <1>3, <1>4, <1>5 DEF Next, vars, round, Connect, Evict, Disconnect,
     ExpireBegins, ExpireEnds, TurnBegins, TurnEnds, Start, AddBattle, Stop, Detach,
     RemoveBattle, At

LEMMA SentStep ==
  ASSUME IInv, ListInv, IdleOK, BornOK, ServedOK, SentOK, [Next]_vars
  PROVE  SentOK'
<1> USE RegistryAssumption
<1>0. TypeInv
  BY DEF IInv
<1>1. ASSUME UNCHANGED <<fights, phase, sent>> PROVE SentOK'
  <2>1. ASSUME NEW m \in sent, m[2] \in 1..Len(battle),
               manager'[UserOf[battle[m[2]].session]] = battle[m[2]].session
        PROVE  manager[UserOf[battle[m[2]].session]] = battle[m[2]].session
    <3>1. battle[m[2]].session \in Sessions /\ life[battle[m[2]].session] # "new"
      BY <1>0, <2>1, BattleFields DEF BornOK
    <3>. QED  BY <2>1, <3>1, Ages
  <2>. QED  BY <1>1, <2>1 DEF SentOK, fights
<1>2. ASSUME NEW s \in Sessions, step[s] # "out", phase' = phase, sent' = sent
      PROVE  SentOK'
  BY <1>2 DEF IdleOK, SentOK
<1>3. CASE RoundBegins
  BY <1>3 DEF RoundBegins, SentOK
<1>4. CASE BattlesBegin \/ RoundEnds
  BY <1>4 DEF BattlesBegin, RoundEnds, SentOK, fights, clients
<1>5. ASSUME NEW b \in Battles, Advance(b) PROVE SentOK'
  <2>1. /\ UNCHANGED <<fights, clients, phase>> /\ phase = "battles" /\ b \in todo
        /\ sent' = IF battle[b].running THEN sent \cup (Receivers(b) \X {b}) ELSE sent
    BY <1>5 DEF Advance
  <2>2. b \in 1..Len(battle) /\ HeldOK(b)
    BY <2>1 DEF ServedOK, ListInv
  <2>3. ASSUME NEW m \in Receivers(b) \X {b}, battle[b].running
        PROVE  /\ m[2] = b
               /\ LET s == battle[b].session
                  IN  manager[UserOf[s]] = s => m[1] = s /\ own[s] = b
    BY <2>2, <2>3 DEF Receivers, HeldOK
  <2>4. ASSUME NEW m \in sent'
        PROVE  /\ m[2] \in 1..Len(battle)
               /\ LET s == battle[m[2]].session
                  IN  manager[UserOf[s]] = s => m[1] = s /\ own[s] = m[2]
    BY <2>1, <2>2, <2>3, <2>4 DEF SentOK
  <2>. QED  BY <2>1, <2>4 DEF SentOK, fights, clients
<1>. QED
  BY <1>1, <1>2, <1>3, <1>4, <1>5 DEF Next, vars, round, Connect, Evict, Disconnect,
     ExpireBegins, ExpireEnds, TurnBegins, TurnEnds, Start, AddBattle, Stop, Detach,
     RemoveBattle, At

LEMMA RoundInv == Spec => [](ListInv /\ BornOK /\ ServedOK /\ SentOK)
<1>1. Init => ListInv /\ BornOK /\ ServedOK /\ SentOK
  BY RegistryAssumption DEF Init, ListInv, StoppingOK, BornOK, ServedOK, SentOK
<1>2. IInv /\ IdleOK /\ ListInv /\ BornOK /\ ServedOK /\ SentOK /\ [Next]_vars
        => (ListInv /\ BornOK /\ ServedOK /\ SentOK)'
  BY ListStep, BornStep, ServedStep, SentStep
<1>. QED  BY <1>1, <1>2, SpecInv, PTL DEF Spec

\* A running battle whose NumericID nobody else fights under is advanced in
\* every round, whatever commands the round has run and whoever watches
\* (AddBattle, RemoveBattle, tickBattles).
THEOREM OwnBattlesGoOn == Spec => []UnsharedTicked
<1>1. TypeInv /\ ServedOK => UnsharedTicked
  BY DEF TypeInv, ServedOK, UnsharedTicked, Index
<1>2. IInv => TypeInv
  BY DEF IInv
<1>. QED  BY <1>1, <1>2, SpecInv, RoundInv, PTL

\* What tickBattles sends is about the battle its receiver fights, whatever
\* reconnects, expiries and evictions happen while it sends (sendToSession).
THEOREM NewsIsOwn == Spec => []SentIsOwned
<1>1. SentOK => SentIsOwned
  BY DEF SentOK, SentIsOwned
<1>. QED  BY <1>1, RoundInv, PTL

=============================================================================
