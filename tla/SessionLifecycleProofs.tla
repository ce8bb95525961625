------------------------ MODULE SessionLifecycleProofs ------------------------
(***************************************************************************)
(* Proofs about SessionLifecycle, for any number of connections, sessions  *)
(* and evictions and however the handlers overlap: the expiry of a session *)
(* is exclusive, and the Manager never hands out a session that Close has  *)
(* ended. Where the handlers of a user follow one another, also: a session *)
(* whose client has gone is counted down, and only such a one.             *)
(***************************************************************************)
EXTENDS SessionLifecycle, TLAPS

-----------------------------------------------------------------------------
(* The fields of a session                                                 *)

Session ==
  [state: States, conn: Conns \cup {None}, armed: BOOLEAN, fired: Nat,
   cb: {"idle", "flush", "remove", "end"}, hook: BOOLEAN,
   done: BOOLEAN, fighting: BOOLEAN]

\* Where a connection's goroutine works on a session.
Working == {"kick", "attach", "stop", "add", "closeOld", "hook",
            "check", "detach", "hasConn", "grace"}

\* A goroutine that works on a session has one.
TargetKnown == \A c \in Conns : pc[c] \in Working => target[c] \in Sessions

\* One assignment to one field of one session.
LEMMA FieldTypes ==
  ASSUME NEW r \in Session
  PROVE  /\ \A v \in States : [r EXCEPT !.state = v] \in Session
         /\ \A v \in Conns \cup {None} : [r EXCEPT !.conn = v] \in Session
         /\ [r EXCEPT !.armed = FALSE] \in Session
         /\ [r EXCEPT !.armed = TRUE] \in Session
         /\ \A v \in Nat : [r EXCEPT !.fired = v] \in Session
         /\ \A v \in {"idle", "flush", "remove", "end"} :
              [r EXCEPT !.cb = v] \in Session
         /\ [r EXCEPT !.hook = TRUE] \in Session
         /\ [r EXCEPT !.done = TRUE] \in Session
         /\ [r EXCEPT !.fighting = FALSE] \in Session
         /\ [r EXCEPT !.fighting = TRUE] \in Session
  BY DEF Session

\* A callback that holds graceMu belongs to a session that is being closed.
Exclusive(r) == r.cb # "idle" => r.state = "closing"

LEMMA SessType ==
  TypeOK <=> /\ pc \in [Conns -> {"new", "open", "gone"} \cup Connecting \cup Leaving]
             /\ target \in [Conns -> Sessions \cup {None}]
             /\ closed \subseteq Conns
             /\ manager \in Sessions \cup {None}
             /\ sess \in [Sessions -> Session]
             /\ evictor \in {"idle", "close"} /\ evicts \in Nat /\ overlap \in Overlaps
  BY DEF TypeOK, Session

\* What every step does to the sessions: it leaves them alone, or it changes
\* one of them, which stays well typed and exclusive, is not unborn again, and
\* is closed for good only if the Manager has it and does not keep it.
Touches(s, r) ==
  /\ sess' = [sess EXCEPT ![s] = r]
  /\ Exclusive(sess[s]) => Exclusive(r)
  /\ r.state = "none" => sess[s].state = "none"
  /\ r.done => sess[s].done \/ (s = manager /\ manager' # s)

Touched == sess' = sess \/ \E s \in Sessions, r \in Session : Touches(s, r)

\* OnConnect's steps that change a session.
LEMMA ConnectTouches ==
  ASSUME TypeOK, TargetKnown, NEW c \in Conns
  PROVE  /\ ConnectAttach(c) => Touched
         /\ ConnectStop(c) => Touched
         /\ ConnectCreate(c) => Touched
         /\ ConnectHook(c) => Touched
<1>1. sess \in [Sessions -> Session]
  BY SessType
<1>2. ASSUME ConnectAttach(c) PROVE Touched
  <2> DEFINE s == target[c]
             r == [sess[s] EXCEPT !.conn = c]
  <2>1. s \in Sessions
    BY <1>2 DEF ConnectAttach, Goto, TargetKnown, Working
  <2>2. r \in Session
    BY <1>1, <2>1, FieldTypes
  <2>3. sess' = [sess EXCEPT ![s] = r]
    BY <1>2 DEF ConnectAttach
  <2>4. /\ Exclusive(sess[s]) => Exclusive(r)
        /\ r.state = sess[s].state /\ r.done = sess[s].done
    BY <1>1, <2>1 DEF Session, Exclusive
  <2> HIDE DEF r, s
  <2> QED BY <2>1, <2>2, <2>3, <2>4 DEF Touched, Touches
<1>3. ASSUME ConnectStop(c) PROVE Touched
  <2> DEFINE s == target[c]
             q == [sess[s] EXCEPT !.armed = FALSE]
             r == [q EXCEPT !.state = "active"]
  <2>1. s \in Sessions /\ sess[s].cb = "idle"
    BY <1>3 DEF ConnectStop, Goto, TargetKnown, Working, GraceHeld
  <2>2. r \in Session
    <3>1. q \in Session
      BY <1>1, <2>1, FieldTypes
    <3> HIDE DEF q
    <3> QED BY <3>1, FieldTypes DEF States
  <2>3. sess' = [sess EXCEPT ![s] = r]
    BY <1>3 DEF ConnectStop
  <2>4. r.cb = "idle" /\ r.state = "active" /\ r.done = sess[s].done
    BY <1>1, <2>1 DEF Session
  <2> HIDE DEF r, s
  <2> QED BY <2>1, <2>2, <2>3, <2>4 DEF Touched, Touches, Exclusive
<1>4. ASSUME ConnectCreate(c) PROVE Touched
  <2>1. PICK s \in Sessions :
          /\ sess[s].state = "none"
          /\ sess' = [sess EXCEPT ![s].state = "active", ![s].conn = c]
    BY <1>4 DEF ConnectCreate
  <2> DEFINE q == [sess[s] EXCEPT !.state = "active"]
             r == [q EXCEPT !.conn = c]
  <2>2. r \in Session
    <3>1. q \in Session
      BY <1>1, <2>1, FieldTypes DEF States
    <3> HIDE DEF q
    <3> QED BY <3>1, FieldTypes
  <2>3. sess' = [sess EXCEPT ![s] = r]
    BY <2>1
  <2>4. /\ r.cb = sess[s].cb /\ r.state = "active" /\ r.done = sess[s].done
        /\ Exclusive(sess[s]) => sess[s].cb = "idle"
    BY <1>1, <2>1 DEF Session, Exclusive
  <2> HIDE DEF r
  <2> QED BY <2>1, <2>2, <2>3, <2>4 DEF Touched, Touches, Exclusive
<1>5. ASSUME ConnectHook(c) PROVE Touched
  <2> DEFINE s == target[c]
             r == [sess[s] EXCEPT !.hook = TRUE]
  <2>1. s \in Sessions
    BY <1>5 DEF ConnectHook, Goto, TargetKnown, Working
  <2>2. r \in Session
    BY <1>1, <2>1, FieldTypes
  <2>3. sess' = [sess EXCEPT ![s] = r]
    BY <1>5 DEF ConnectHook
  <2>4. /\ Exclusive(sess[s]) => Exclusive(r)
        /\ r.state = sess[s].state /\ r.done = sess[s].done
    BY <1>1, <2>1 DEF Session, Exclusive
  <2> HIDE DEF r, s
  <2> QED BY <2>1, <2>2, <2>3, <2>4 DEF Touched, Touches
<1> QED BY <1>2, <1>3, <1>4, <1>5

\* OnDisconnect's.
LEMMA DisconnectTouches ==
  ASSUME TypeOK, TargetKnown, NEW c \in Conns
  PROVE  /\ DisconnectDetach(c) => Touched
         /\ DisconnectGrace(c) => Touched
<1>1. sess \in [Sessions -> Session]
  BY SessType
<1>2. ASSUME DisconnectDetach(c) PROVE Touched
  <2> DEFINE s == target[c]
             r == [sess[s] EXCEPT !.conn = None]
  <2>1. s \in Sessions
    BY <1>2 DEF DisconnectDetach, Goto, TargetKnown, Working
  <2>2. r \in Session
    BY <1>1, <2>1, FieldTypes
  <2>3. sess' = [sess EXCEPT ![s] = r]
    BY <1>2 DEF DisconnectDetach
  <2>4. /\ Exclusive(sess[s]) => Exclusive(r)
        /\ r.state = sess[s].state /\ r.done = sess[s].done
    BY <1>1, <2>1 DEF Session, Exclusive
  <2> HIDE DEF r, s
  <2> QED BY <2>1, <2>2, <2>3, <2>4 DEF Touched, Touches
<1>3. ASSUME DisconnectGrace(c) PROVE Touched
  <2> DEFINE s == target[c]
             q == [sess[s] EXCEPT !.armed = TRUE]
             r == [q EXCEPT !.state = "grace"]
  <2>1. s \in Sessions /\ sess[s].cb = "idle"
    BY <1>3 DEF DisconnectGrace, Goto, TargetKnown, Working, GraceHeld
  <2>2. r \in Session
    <3>1. q \in Session
      BY <1>1, <2>1, FieldTypes
    <3> HIDE DEF q
    <3> QED BY <3>1, FieldTypes DEF States
  <2>3. sess' = [sess EXCEPT ![s] = r]
    BY <1>3 DEF DisconnectGrace
  <2>4. r.cb = "idle" /\ r.state = "grace" /\ r.done = sess[s].done
    BY <1>1, <2>1 DEF Session
  <2> HIDE DEF r, s
  <2> QED BY <2>1, <2>2, <2>3, <2>4 DEF Touched, Touches, Exclusive
<1> QED BY <1>2, <1>3

\* The timer, its callback, and the battle.
LEMMA SessionTouches ==
  ASSUME TypeOK, NEW s \in Sessions
  PROVE  /\ TimerFires(s) => Touched
         /\ Callback(s) => Touched
         /\ BattleStarts(s) \/ BattleEnds(s) => Touched
<1>1. sess \in [Sessions -> Session] /\ sess[s] \in Session
  BY SessType
<1>2. ASSUME NEW r \in Session, sess' = [sess EXCEPT ![s] = r],
             Exclusive(sess[s]) => Exclusive(r),
             r.state = "none" => sess[s].state = "none",
             r.done = sess[s].done
      PROVE  Touched
  BY <1>2 DEF Touched, Touches
<1>3. ASSUME TimerFires(s) PROVE Touched
  <2> DEFINE q == [sess[s] EXCEPT !.armed = FALSE]
             n == q.fired + 1
             r == [q EXCEPT !.fired = n]
  <2>1. r \in Session
    <3>1. q \in Session
      BY <1>1, FieldTypes
    <3> HIDE DEF q
    <3>2. n \in Nat
      BY <3>1 DEF Session
    <3> HIDE DEF n
    <3> QED BY <3>1, <3>2, FieldTypes
  <2>2. sess' = [sess EXCEPT ![s] = r]
    BY <1>3 DEF TimerFires
  <2>3. /\ r.cb = sess[s].cb /\ r.state = sess[s].state
        /\ r.done = sess[s].done
    BY <1>1 DEF Session
  <2> HIDE DEF r
  <2> QED BY <1>2, <2>1, <2>2, <2>3 DEF Exclusive
<1>4. ASSUME CallbackBegins(s) PROVE Touched
  <2> DEFINE o == sess[s]
             expires == o.state = "grace" /\ ~o.fighting
             st == IF expires THEN "closing" ELSE o.state
             cb == IF o.state # "grace" \/ o.fighting THEN "idle"
                   ELSE IF o.hook THEN "flush" ELSE "end"
             ar == o.armed \/ (o.state = "grace" /\ o.fighting)
             r  == [o EXCEPT !.fired = @ - 1, !.armed = ar, !.state = st, !.cb = cb]
  <2>1. sess' = [sess EXCEPT ![s] = r] /\ o.fired > 0 /\ o.cb = "idle"
    BY <1>4 DEF CallbackBegins, GraceHeld
  <2>2. o \in Session
    BY <1>1
  <2>3. st \in States /\ (st = "none" => o.state = "none")
    BY <2>2 DEF Session, States
  <2>4. cb \in {"idle", "flush", "end"} /\ (cb # "idle" => st = "closing")
    OBVIOUS
  <2>5. ar \in BOOLEAN
    BY Zenon
  <2>6. o.fired - 1 \in Nat
    BY <2>1, <2>2 DEF Session
  <2> HIDE DEF st, cb, ar, expires
  <2>7. r \in Session
    BY <2>2, <2>3, <2>4, <2>5, <2>6 DEF Session
  <2>8. r.cb = cb /\ r.state = st /\ r.done = o.done
    BY <2>2 DEF Session
  <2> HIDE DEF r, o
  <2> QED BY <1>2, <2>1, <2>3, <2>4, <2>7, <2>8 DEF Exclusive, o
<1>5. ASSUME CallbackFlush(s) PROVE Touched
  <2> DEFINE r == [sess[s] EXCEPT !.cb = "remove"]
  <2>1. r \in Session /\ sess' = [sess EXCEPT ![s] = r] /\ sess[s].cb = "flush"
    BY <1>1, <1>5, FieldTypes DEF CallbackFlush
  <2>2. r.cb = "remove" /\ r.state = sess[s].state /\ r.done = sess[s].done
    BY <1>1 DEF Session
  <2> HIDE DEF r
  <2> QED BY <1>2, <2>1, <2>2 DEF Exclusive
<1>6. ASSUME CallbackRemove(s) PROVE Touched
  <2> DEFINE r == [sess[s] EXCEPT !.cb = "end"]
  <2>1. r \in Session /\ sess' = [sess EXCEPT ![s] = r] /\ sess[s].cb = "remove"
    BY <1>1, <1>6, FieldTypes DEF CallbackRemove
  <2>2. r.cb = "end" /\ r.state = sess[s].state /\ r.done = sess[s].done
    BY <1>1 DEF Session
  <2> HIDE DEF r
  <2> QED BY <1>2, <2>1, <2>2 DEF Exclusive
<1>7. ASSUME CallbackEnds(s) PROVE Touched
  <2> DEFINE q == [sess[s] EXCEPT !.cb = "idle"]
             r == [q EXCEPT !.state = "closed"]
  <2>1. r \in Session
    <3>1. q \in Session
      BY <1>1, FieldTypes
    <3> HIDE DEF q
    <3> QED BY <3>1, FieldTypes DEF States
  <2>2. sess' = [sess EXCEPT ![s] = r]
    BY <1>7 DEF CallbackEnds
  <2>3. r.cb = "idle" /\ r.state = "closed" /\ r.done = sess[s].done
    BY <1>1 DEF Session
  <2> HIDE DEF r
  <2> QED BY <1>2, <2>1, <2>2, <2>3 DEF Exclusive
<1>8. ASSUME BattleStarts(s) \/ BattleEnds(s) PROVE Touched
  <2>1. PICK v \in {TRUE, FALSE} : sess' = [sess EXCEPT ![s].fighting = v]
    BY <1>8 DEF BattleStarts, BattleEnds
  <2> DEFINE r == [sess[s] EXCEPT !.fighting = v]
  <2>2. r \in Session
    BY <1>1, FieldTypes
  <2>3. /\ r.cb = sess[s].cb /\ r.state = sess[s].state
        /\ r.done = sess[s].done
    BY <1>1 DEF Session
  <2>4. sess' = [sess EXCEPT ![s] = r]
    BY <2>1
  <2> HIDE DEF r
  <2> QED BY <1>2, <2>2, <2>3, <2>4 DEF Exclusive
<1> QED BY <1>3, <1>4, <1>5, <1>6, <1>7, <1>8 DEF Callback

\* A session that Add or Evict closes is not kept by the Manager.
LEMMA CloseTouches ==
  ASSUME TypeOK, NEW s \in Sessions, s = manager, manager' # s,
         sess' = [sess EXCEPT ![manager] = Closed(@)], ~GraceHeld(manager)
  PROVE  Touched
<1> DEFINE o == sess[s]
           q == [o EXCEPT !.state = "closed"]
           p == [q EXCEPT !.armed = FALSE]
           r == [p EXCEPT !.done = TRUE]
<1>1. o \in Session /\ o.cb = "idle"
  BY SessType DEF GraceHeld
<1>2. r \in Session
  <2>1. q \in Session
    BY <1>1, FieldTypes DEF States
  <2> HIDE DEF q
  <2>2. p \in Session
    BY <2>1, FieldTypes
  <2> HIDE DEF p
  <2> QED BY <2>2, FieldTypes
<1>3. sess' = [sess EXCEPT ![s] = r]
  BY DEF Closed
<1>4. r.cb = "idle" /\ r.state = "closed"
  BY <1>1 DEF Session
<1> HIDE DEF r
<1> QED BY <1>2, <1>3, <1>4 DEF Touched, Touches, Exclusive

-----------------------------------------------------------------------------
(* The sessions that are being added                                       *)

Adding == {"add", "closeOld"}

\* A session that OnConnect has created and not added yet is this handler's
\* alone: nobody has closed it, and the Manager does not have it.
Newcomers ==
  /\ \A c \in Conns : pc[c] \in Adding =>
       /\ target[c] # manager
       /\ target[c] \in Sessions =>
            sess[target[c]].state # "none" /\ ~sess[target[c]].done
  /\ \A c, d \in Conns :
       pc[c] \in Adding /\ pc[d] \in Adding /\ target[c] = target[d] => c = d

\* A session that was never created was never closed and is not managed.
Unborn ==
  \A s \in Sessions : sess[s].state = "none" => ~sess[s].done /\ s # manager

IInv ==
  /\ TypeOK /\ TargetKnown
  /\ \A s \in Sessions : Exclusive(sess[s])
  /\ Newcomers /\ Unborn /\ ManagedNotDone

-----------------------------------------------------------------------------
(* Each step of a handler, without the session it changes                  *)

\* Every step changes one session at most.
LEMMA StepTouches ==
  ASSUME IInv, Next
  PROVE  Touched
<1> USE DEF IInv
<1>1. ASSUME NEW c \in Conns,
             \/ ConnectGet(c) \/ ConnectKick(c) \/ ConnectCreateFails(c)
             \/ ConnectAdd(c) \/ RunReturns(c) \/ DisconnectGet(c)
             \/ DisconnectCheck(c) \/ DisconnectHasConn(c) \/ PeerCloses(c)
      PROVE  Touched
  BY <1>1 DEF ConnectGet, ConnectKick, ConnectCreateFails, ConnectAdd,
              RunReturns, DisconnectGet, DisconnectCheck, DisconnectHasConn,
              PeerCloses, Touched
<1>2. ASSUME NEW c \in Conns, ConnectCloseOld(c) PROVE Touched
  <2>1. /\ sess' = [sess EXCEPT ![manager] = Closed(@)]
        /\ manager' = target[c] /\ ~GraceHeld(manager)
        /\ pc[c] = "closeOld"
    BY <1>2 DEF ConnectCloseOld, Goto
  <2>2. CASE manager \in Sessions
    <3>1. manager' # manager
      BY <2>1 DEF Newcomers, Adding
    <3> QED BY <2>1, <2>2, <3>1, CloseTouches
  <2>3. CASE manager \notin Sessions
    <3>1. sess' = sess
      BY <2>1, <2>3, SessType
    <3> QED BY <3>1 DEF Touched
  <2> QED BY <2>2, <2>3
<1>3. ASSUME EvictCloses PROVE Touched
  <2>1. /\ sess' = [sess EXCEPT ![manager] = Closed(@)]
        /\ manager' = None /\ ~GraceHeld(manager)
    BY <1>3 DEF EvictCloses
  <2>2. CASE manager \in Sessions
    <3>1. manager' # manager
      BY <2>1, <2>2, LifecycleAssumption
    <3> QED BY <2>1, <2>2, <3>1, CloseTouches
  <2>3. CASE manager \notin Sessions
    <3>1. sess' = sess
      BY <2>1, <2>3, SessType
    <3> QED BY <3>1 DEF Touched
  <2> QED BY <2>2, <2>3
<1>4. CASE Evict
  BY <1>4 DEF Evict, Touched
<1> QED BY <1>1, <1>2, <1>3, <1>4, ConnectTouches, DisconnectTouches,
           SessionTouches DEF Next, Handler

\* The goroutines: where they go, what they work on, whom the Manager has.
GoroutinesType ==
  /\ pc \in [Conns -> {"new", "open", "gone"} \cup Connecting \cup Leaving]
  /\ target \in [Conns -> Sessions \cup {None}]
  /\ closed \subseteq Conns
  /\ manager \in Sessions \cup {None}
  /\ evictor \in {"idle", "close"} /\ evicts \in Nat /\ overlap \in Overlaps
  /\ TargetKnown

LEMMA HandlerType ==
  ASSUME IInv, NEW c \in Conns, Handler(c) \/ PeerCloses(c)
  PROVE  GoroutinesType'
<1> USE DEF IInv, GoroutinesType, TargetKnown, Working, Goto, Connecting,
            Leaving, conns, others
<1>0. /\ pc \in [Conns -> {"new", "open", "gone"} \cup Connecting \cup Leaving]
      /\ target \in [Conns -> Sessions \cup {None}]
      /\ closed \subseteq Conns
      /\ manager \in Sessions \cup {None}
      /\ evictor \in {"idle", "close"} /\ evicts \in Nat /\ overlap \in Overlaps
  BY DEF TypeOK
<1>1. CASE ConnectGet(c)
  BY <1>0, <1>1 DEF ConnectGet
<1>2. CASE ConnectKick(c) \/ ConnectAttach(c)
  <2>1. sess[target[c]].conn \in Conns \cup {None}
    BY <1>2, SessType DEF ConnectKick, ConnectAttach, Session
  <2> QED BY <1>0, <1>2, <2>1 DEF ConnectKick, ConnectAttach
<1>3. CASE ConnectStop(c)
  BY <1>0, <1>3 DEF ConnectStop
<1>4. CASE ConnectCreate(c)
  BY <1>0, <1>4 DEF ConnectCreate
<1>5. CASE ConnectCreateFails(c)
  BY <1>0, <1>5 DEF ConnectCreateFails
<1>6. CASE ConnectAdd(c)
  BY <1>0, <1>6 DEF ConnectAdd
<1>7. CASE ConnectCloseOld(c) \/ ConnectHook(c)
  BY <1>0, <1>7 DEF ConnectCloseOld, ConnectHook
<1>8. CASE PeerCloses(c) \/ RunReturns(c)
  BY <1>0, <1>8 DEF PeerCloses, RunReturns
<1>9. CASE DisconnectGet(c)
  BY <1>0, <1>9 DEF DisconnectGet
<1>10. CASE DisconnectCheck(c) \/ DisconnectDetach(c)
  BY <1>0, <1>10 DEF DisconnectCheck, DisconnectDetach
<1>11. CASE DisconnectHasConn(c) \/ DisconnectGrace(c)
  BY <1>0, <1>11 DEF DisconnectHasConn, DisconnectGrace
<1> QED BY <1>1, <1>2, <1>3, <1>4, <1>5, <1>6, <1>7, <1>8, <1>9, <1>10,
           <1>11 DEF Handler

LEMMA OthersType ==
  ASSUME IInv,
         \/ \E s \in Sessions :
              TimerFires(s) \/ Callback(s) \/ BattleStarts(s) \/ BattleEnds(s)
         \/ Evict \/ EvictCloses
  PROVE  GoroutinesType'
<1> USE DEF IInv, GoroutinesType, TargetKnown, conns, others
<1>1. ASSUME NEW s \in Sessions,
             TimerFires(s) \/ Callback(s) \/ BattleStarts(s) \/ BattleEnds(s)
      PROVE  GoroutinesType'
  BY <1>1 DEF TimerFires, Callback, CallbackBegins, CallbackFlush,
              CallbackRemove, CallbackEnds, BattleStarts, BattleEnds, TypeOK
<1>2. CASE Evict \/ EvictCloses
  BY <1>2 DEF Evict, EvictCloses, TypeOK
<1> QED BY <1>1, <1>2

-----------------------------------------------------------------------------
(* The steps that matter for who is being added and who is managed         *)

\* Any step but those of CreateSession and Add brings no session in: no
\* handler starts adding one, and the Manager keeps its session or drops it.
BringsNoneIn ==
  /\ \A d \in Conns :
       pc'[d] \in Adding => pc[d] \in Adding /\ target'[d] = target[d]
  /\ manager' \in {manager, None}

LEMMA NewcomerSteps ==
  ASSUME IInv, Next
  PROVE  \/ BringsNoneIn
         \/ \E c \in Conns :
              ConnectCreate(c) \/ ConnectAdd(c) \/ ConnectCloseOld(c)
<1>1. pc \in [Conns -> {"new", "open", "gone"} \cup Connecting \cup Leaving]
      /\ target \in [Conns -> Sessions \cup {None}]
  BY DEF IInv, TypeOK
<1>2. ASSUME NEW c \in Conns, NEW to, to \notin Adding,
             pc' = [pc EXCEPT ![c] = to], manager' = manager,
             \A d \in Conns : d # c => target'[d] = target[d]
      PROVE  BringsNoneIn
  BY <1>1, <1>2 DEF BringsNoneIn
<1>3. ASSUME NEW c \in Conns, PeerCloses(c)
      PROVE  BringsNoneIn
  BY <1>3 DEF PeerCloses, BringsNoneIn
<1>4. ASSUME NEW c \in Conns, ConnectGet(c) \/ DisconnectGet(c)
      PROVE  BringsNoneIn
  <2>1. /\ manager' = manager
        /\ \E x : target' = [target EXCEPT ![c] = x]
        /\ \E to \in {"create", "kick", "gone", "check"} :
             pc' = [pc EXCEPT ![c] = to]
    BY <1>4 DEF ConnectGet, DisconnectGet, Goto
  <2>2. \A d \in Conns : d # c => target'[d] = target[d]
    BY <1>1, <2>1
  <2> QED BY <1>2, <2>1, <2>2 DEF Adding
<1>5. ASSUME NEW c \in Conns,
             \/ ConnectKick(c) \/ ConnectAttach(c) \/ ConnectStop(c)
             \/ ConnectCreateFails(c) \/ ConnectHook(c) \/ RunReturns(c)
             \/ DisconnectCheck(c) \/ DisconnectDetach(c)
             \/ DisconnectHasConn(c) \/ DisconnectGrace(c)
      PROVE  BringsNoneIn
  <2>1. /\ manager' = manager /\ target' = target
        /\ \E to \in {"attach", "stop", "open", "left", "detach", "hasConn",
                      "grace", "gone"} :
             pc' = [pc EXCEPT ![c] = to]
    BY <1>5 DEF ConnectKick, ConnectAttach, ConnectStop, ConnectCreateFails,
                ConnectHook, RunReturns, DisconnectCheck, DisconnectDetach,
                DisconnectHasConn, DisconnectGrace, Goto
  <2> QED BY <1>2, <2>1 DEF Adding
<1>6. ASSUME NEW s \in Sessions,
             TimerFires(s) \/ Callback(s) \/ BattleStarts(s) \/ BattleEnds(s)
      PROVE  BringsNoneIn
  BY <1>6 DEF TimerFires, Callback, CallbackBegins, CallbackFlush,
              CallbackRemove, CallbackEnds, BattleStarts, BattleEnds, conns,
              BringsNoneIn
<1>7. CASE Evict \/ EvictCloses
  BY <1>7 DEF Evict, EvictCloses, conns, BringsNoneIn
<1> QED BY <1>3, <1>4, <1>5, <1>6, <1>7 DEF Next, Handler

\* What a step that changes one session at most does to any session.
LEMMA TouchedSessions ==
  ASSUME IInv, Touched, NEW t \in Sessions
  PROVE  /\ Exclusive(sess'[t])
         /\ sess'[t].state = "none" => sess[t].state = "none"
         /\ sess'[t].done => sess[t].done \/ (t = manager /\ manager' # t)
<1>1. sess \in [Sessions -> Session] /\ Exclusive(sess[t])
  BY SessType DEF IInv
<1>2. CASE sess' = sess
  BY <1>1, <1>2
<1>3. ASSUME NEW s \in Sessions, NEW r \in Session, Touches(s, r)
      PROVE  /\ Exclusive(sess'[t])
             /\ sess'[t].state = "none" => sess[t].state = "none"
             /\ sess'[t].done => sess[t].done \/ (t = manager /\ manager' # t)
  <2>1. CASE s = t
    BY <1>1, <1>3, <2>1 DEF Touches
  <2>2. CASE s # t
    BY <1>1, <1>3, <2>2 DEF Touches
  <2> QED BY <2>1, <2>2
<1> QED BY <1>2, <1>3 DEF Touched

LEMMA AddingHasSession ==
  ASSUME IInv, NEW c \in Conns, pc[c] \in Adding
  PROVE  /\ target[c] \in Sessions /\ target[c] # None /\ target[c] # manager
         /\ sess[target[c]].state # "none" /\ ~sess[target[c]].done
<1>1. target[c] \in Sessions
  BY DEF IInv, TargetKnown, Working, Adding
<1> QED BY <1>1, LifecycleAssumption DEF IInv, Newcomers

LEMMA NewcomersKept ==
  ASSUME IInv, Next
  PROVE  Newcomers' /\ Unborn' /\ ManagedNotDone'
<1>1. Touched
  BY StepTouches
<1>2. /\ manager \in Sessions \cup {None}
      /\ pc \in [Conns -> {"new", "open", "gone"} \cup Connecting \cup Leaving]
      /\ target \in [Conns -> Sessions \cup {None}]
      /\ sess \in [Sessions -> Session]
  BY SessType DEF IInv
<1>3. CASE BringsNoneIn
  <2>1. Newcomers'
    BY <1>1, <1>3, TouchedSessions, AddingHasSession
       DEF IInv, Newcomers, BringsNoneIn
  <2>2. Unborn'
    BY <1>1, <1>3, TouchedSessions, LifecycleAssumption
       DEF IInv, Unborn, BringsNoneIn
  <2>3. ManagedNotDone'
    BY <1>1, <1>2, <1>3, TouchedSessions DEF IInv, ManagedNotDone, BringsNoneIn
  <2> QED BY <2>1, <2>2, <2>3
<1>4. ASSUME NEW c \in Conns, ConnectCreate(c)
      PROVE  Newcomers' /\ Unborn' /\ ManagedNotDone'
  <2>1. PICK s \in Sessions :
          /\ sess[s].state = "none"
          /\ target' = [target EXCEPT ![c] = s]
          /\ sess' = [sess EXCEPT ![s].state = "active", ![s].conn = c]
    BY <1>4 DEF ConnectCreate
  <2>2. pc' = [pc EXCEPT ![c] = "add"] /\ manager' = manager
    BY <1>4 DEF ConnectCreate, Goto
  <2>3. sess'[s].state = "active" /\ sess'[s].done = sess[s].done
    BY <1>2, <2>1 DEF Session
  <2>4. ~sess[s].done /\ s # manager
    BY <2>1 DEF IInv, Unborn
  <2>5. ASSUME NEW d \in Conns, d # c, pc'[d] \in Adding
        PROVE  pc[d] \in Adding /\ target'[d] = target[d] /\ target[d] # s
    BY <1>2, <2>1, <2>2, <2>5, AddingHasSession
  <2>6. target'[c] = s
    BY <1>2, <2>1
  <2>7. Newcomers'
    <3>1. ASSUME NEW d \in Conns, d # c, pc'[d] \in Adding
          PROVE  /\ target'[d] # manager'
                 /\ sess'[target'[d]].state # "none" /\ ~sess'[target'[d]].done
      BY <1>1, <2>2, <2>5, <3>1, TouchedSessions, AddingHasSession
    <3>2. ASSUME NEW d \in Conns, NEW e \in Conns, pc'[d] \in Adding,
                 pc'[e] \in Adding, target'[d] = target'[e]
          PROVE  d = e
      BY <2>5, <2>6, <3>2 DEF IInv, Newcomers
    <3> QED BY <2>2, <2>3, <2>4, <2>6, <3>1, <3>2 DEF Newcomers
  <2>8. Unborn'
    BY <1>1, <2>2, TouchedSessions DEF IInv, Unborn
  <2>9. ManagedNotDone'
    BY <1>1, <1>2, <2>2, TouchedSessions DEF IInv, ManagedNotDone
  <2> QED BY <2>7, <2>8, <2>9
<1>5. ASSUME NEW c \in Conns, ConnectAdd(c) \/ ConnectCloseOld(c),
             manager' = target[c], pc[c] \in Adding,
             pc' = [pc EXCEPT ![c] = "hook"], target' = target
      PROVE  Newcomers' /\ Unborn' /\ ManagedNotDone'
  <2>1. /\ target[c] \in Sessions /\ target[c] # manager
        /\ sess[target[c]].state # "none" /\ ~sess[target[c]].done
    BY <1>5, AddingHasSession
  <2>2. ASSUME NEW d \in Conns, pc'[d] \in Adding
        PROVE  d # c /\ pc[d] \in Adding /\ target[d] # target[c]
    BY <1>2, <1>5, <2>2 DEF Adding, IInv, Newcomers
  <2>3. Newcomers'
    BY <1>1, <1>5, <2>2, TouchedSessions, AddingHasSession DEF IInv, Newcomers
  <2>4. Unborn'
    BY <1>1, <1>5, <2>1, TouchedSessions DEF IInv, Unborn
  <2>5. ManagedNotDone'
    BY <1>1, <1>5, <2>1, TouchedSessions DEF ManagedNotDone
  <2> QED BY <2>3, <2>4, <2>5
<1>6. ASSUME NEW c \in Conns, ConnectAdd(c), manager # None
      PROVE  Newcomers' /\ Unborn' /\ ManagedNotDone'
  <2>1. /\ pc' = [pc EXCEPT ![c] = "closeOld"] /\ pc[c] = "add"
        /\ manager' = manager /\ target' = target /\ sess' = sess
    BY <1>6 DEF ConnectAdd, Goto
  <2>2. \A d \in Conns : pc'[d] \in Adding => pc[d] \in Adding
    BY <1>2, <2>1 DEF Adding
  <2> QED BY <2>1, <2>2 DEF IInv, Newcomers, Unborn, ManagedNotDone
<1>7. ASSUME NEW c \in Conns, ConnectAdd(c), manager = None
      PROVE  Newcomers' /\ Unborn' /\ ManagedNotDone'
  <2>1. /\ pc' = [pc EXCEPT ![c] = "hook"] /\ pc[c] \in Adding
        /\ manager' = target[c] /\ target' = target
    BY <1>7 DEF ConnectAdd, Goto, Adding
  <2> QED BY <1>5, <1>7, <2>1
<1>8. ASSUME NEW c \in Conns, ConnectCloseOld(c)
      PROVE  Newcomers' /\ Unborn' /\ ManagedNotDone'
  <2>1. /\ pc' = [pc EXCEPT ![c] = "hook"] /\ pc[c] \in Adding
        /\ manager' = target[c] /\ target' = target
    BY <1>8 DEF ConnectCloseOld, Goto, Adding
  <2> QED BY <1>5, <1>8, <2>1
<1> QED BY <1>3, <1>4, <1>6, <1>7, <1>8, NewcomerSteps

-----------------------------------------------------------------------------
(* The theorems                                                            *)

LEMMA InitHolds == Init => IInv
<1> SUFFICES ASSUME Init PROVE IInv
  OBVIOUS
<1>1. NewSession \in Session
  BY DEF NewSession, Session, States
<1>2. TypeOK
  BY <1>1, SessType DEF Init
<1>3. \A s \in Sessions : sess[s].cb = "idle" /\ sess[s].done = FALSE
  BY DEF Init, NewSession
<1>4. TargetKnown /\ Newcomers
  BY DEF Init, TargetKnown, Newcomers, Working, Adding
<1>5. Unborn /\ ManagedNotDone /\ \A s \in Sessions : Exclusive(sess[s])
  BY <1>3, LifecycleAssumption DEF Init, Unborn, ManagedNotDone, Exclusive
<1> QED BY <1>2, <1>4, <1>5 DEF IInv

LEMMA NextKeeps ==
  ASSUME IInv, Next
  PROVE  IInv'
<1>1. Touched
  BY StepTouches
<1>2. GoroutinesType'
  BY HandlerType, OthersType DEF Next
<1>3. sess' \in [Sessions -> Session]
  BY <1>1, SessType DEF IInv, Touched, Touches
<1>4. TypeOK' /\ TargetKnown'
  BY <1>2, <1>3 DEF GoroutinesType, TypeOK, Session
<1>5. (\A s \in Sessions : Exclusive(sess[s]))'
  BY <1>1, TouchedSessions DEF Exclusive
<1>6. Newcomers' /\ Unborn' /\ ManagedNotDone'
  BY NewcomersKept
<1> QED BY <1>4, <1>5, <1>6 DEF IInv

LEMMA StutterKeeps == IInv /\ UNCHANGED vars => IInv'
  BY DEF IInv, TypeOK, TargetKnown, Newcomers, Unborn, ManagedNotDone,
         Exclusive, vars, conns, others

LEMMA Inductive == Spec => []IInv
<1>1. IInv /\ [Next]_vars => IInv'
  BY NextKeeps, StutterKeeps
<1> QED BY <1>1, InitHolds, PTL DEF Spec

\* From its check under graceMu to its end, an expiry callback has its
\* session for itself: nothing revives, closes or re-expires it.
THEOREM ExpiryAlone == Spec => []ExpiryIsExclusive
<1>1. IInv => ExpiryIsExclusive
  BY DEF IInv, Exclusive, ExpiryIsExclusive, GraceHeld
<1> QED BY <1>1, Inductive, PTL

\* However many connections, expiries and evictions overlap, the session the
\* Manager hands out has never been closed by Add or Evict.
THEOREM ManagedIsOpen == Spec => []ManagedNotDone
<1>1. IInv => ManagedNotDone
  BY DEF IInv
<1> QED BY <1>1, Inductive, PTL

-----------------------------------------------------------------------------
(* Where handlers follow one another                                       *)

\* Between the start of a handler and its end.
Busy(c) == pc[c] \in Connecting \cup {"check", "detach", "hasConn", "grace"}

\* A session that has just been made: nothing has happened to it.
Fresh(c) ==
  LET r == sess[target[c]]
  IN  r.conn = c /\ r.state = "active" /\ ~r.hook /\ ~r.armed /\ r.fired = 0 /\ r.cb = "idle"

\* What the handler of c may rely on when it is alone.
Place(c) ==
  /\ pc[c] # "closeOld"
  /\ pc[c] \in {"create", "add"} => manager = None
  /\ pc[c] \in {"kick", "attach", "stop", "hook", "check", "detach", "hasConn", "grace"} =>
       manager \in {target[c], None}
  /\ Busy(c) /\ pc[c] # "create" => sess[target[c]].state # "none"
  /\ pc[c] = "add" => Fresh(c)
  /\ pc[c] = "hook" /\ manager = target[c] => Fresh(c)
  /\ pc[c] = "stop" => sess[target[c]].conn = c
  /\ pc[c] = "grace" => sess[target[c]].conn = None

Alone == \A c, d \in Conns : Busy(c) /\ Busy(d) => c = d

\* A session that was never created is as NewSession made it.
NewOK(s) ==
  LET r == sess[s]
  IN  r.state = "none" => r.conn = None /\ ~r.hook /\ ~r.armed /\ r.fired = 0

\* A session in grace has no connection, or is about to be active again.
GraceOK(s) ==
  sess[s].state = "grace" /\ sess[s].conn # None =>
    \E c \in Conns : pc[c] = "stop" /\ target[c] = s

\* The callback of a managed session will remove it.
HookOK(s) ==
  /\ sess[s].hook \/ \E c \in Conns : pc[c] = "hook" /\ target[c] = s
  /\ sess[s].cb \in {"idle", "flush", "remove"}

\* A managed session without a connection is counted down, being removed, or
\* in the hands of the handler that starts its timer.
IdleOK(s) ==
  sess[s].conn = None =>
    \/ sess[s].state = "grace" /\ (sess[s].armed \/ sess[s].fired > 0)
    \/ sess[s].cb # "idle"
    \/ \E c \in Conns : pc[c] \in {"hasConn", "grace"} /\ target[c] = s

SerialInv ==
  overlap = "none" =>
    /\ Alone
    /\ \A c \in Conns : Place(c)
    /\ \A s \in Sessions : NewOK(s) /\ GraceOK(s)
    /\ manager # None => HookOK(manager) /\ IdleOK(manager)

LEMMA InitSerial == Init => SerialInv
<1> SUFFICES ASSUME Init PROVE SerialInv
  OBVIOUS
<1>1. \A c \in Conns : pc[c] = "new"
  BY DEF Init
<1>2. \A s \in Sessions : sess[s].state = "none" /\ NewOK(s)
  BY DEF Init, NewSession, NewOK
<1>3. manager = None
  BY DEF Init
<1>. QED  BY <1>1, <1>2, <1>3
             DEF SerialInv, Alone, Busy, Place, GraceOK, Connecting

\* While a handler is at work no other one is.
LEMMA OthersRest ==
  ASSUME IInv, SerialInv, overlap = "none", NEW c \in Conns, Busy(c),
         NEW d \in Conns, d # c
  PROVE  ~Busy(d)
  BY DEF SerialInv, Alone

\* It is enough to look at the handler that moves, c, and at the sessions.
LEMMA HandlerSerial ==
  ASSUME IInv, SerialInv, overlap = "none", NEW c \in Conns,
         \A d \in Conns \ {c} : ~Busy(d) /\ pc'[d] = pc[d],
         Place(c)', \A s \in Sessions : NewOK(s)' /\ GraceOK(s)',
         manager' # None => HookOK(manager)' /\ IdleOK(manager)'
  PROVE  SerialInv'
<1>1. \A d \in Conns \ {c} : ~Busy(d)'
  BY DEF Busy
<1>2. \A d \in Conns \ {c} : Place(d)'
  BY <1>1 DEF Busy, Place, Connecting
<1>3. Alone'
  BY <1>1 DEF Alone
<1>. QED  BY <1>2, <1>3 DEF SerialInv

LEMMA SerialTypes ==
  ASSUME IInv
  PROVE  /\ pc \in [Conns -> {"new", "open", "gone"} \cup Connecting \cup Leaving]
         /\ target \in [Conns -> Sessions \cup {None}]
         /\ manager \in Sessions \cup {None} /\ sess \in [Sessions -> Session]
         /\ TargetKnown /\ None \notin Conns \cup Sessions
         /\ \A s \in Sessions : Exclusive(sess[s])
  BY SessType, LifecycleAssumption DEF IInv

\* OnConnect and OnDisconnect begin when no handler is at work.
LEMMA StartSerial ==
  ASSUME IInv, SerialInv, overlap = "none", overlap' = overlap, NEW c \in Conns,
         ConnectGet(c) \/ DisconnectGet(c)
  PROVE  SerialInv'
<1>1. \A d \in Conns : ~Busy(d)
  BY DEF ConnectGet, DisconnectGet, MayStart, Busy, Connecting, Leaving
<1>2. /\ manager' = manager /\ sess' = sess
      /\ target' = [target EXCEPT ![c] = manager]
      /\ \/ pc' = [pc EXCEPT ![c] = IF manager = None THEN "create" ELSE "kick"]
         \/ pc' = [pc EXCEPT ![c] = IF manager = None THEN "gone" ELSE "check"]
  BY DEF ConnectGet, DisconnectGet, Goto
<1>3. \A d \in Conns \ {c} : pc'[d] = pc[d] /\ target'[d] = target[d]
  BY <1>2, SerialTypes
<1>4. /\ target'[c] = manager
      /\ \/ pc'[c] = IF manager = None THEN "create" ELSE "kick"
         \/ pc'[c] = IF manager = None THEN "gone" ELSE "check"
  BY <1>2, SerialTypes
<1>5. Place(c)'
  <2>1. manager # None => sess[manager].state # "none"
    BY SerialTypes DEF IInv, Unborn
  <2>. QED  BY <1>2, <1>4, <2>1 DEF Place, Busy, Connecting
<1>6. \A d \in Conns : pc[d] \notin {"stop", "hook", "hasConn", "grace"}
  BY <1>1 DEF Busy, Connecting
<1>7. \A s \in Sessions : NewOK(s)' /\ GraceOK(s)'
  BY <1>2, <1>6 DEF SerialInv, NewOK, GraceOK
<1>8. manager' # None => HookOK(manager)' /\ IdleOK(manager)'
  BY <1>2, <1>6 DEF SerialInv, HookOK, IdleOK
<1>. QED  BY <1>1, <1>3, <1>5, <1>7, <1>8, HandlerSerial

\* Handlers that only read sessions, or change nothing that matters here.
LEMMA ReadSerial ==
  ASSUME IInv, SerialInv, overlap = "none", overlap' = overlap, NEW c \in Conns,
         \/ ConnectKick(c) \/ ConnectCreateFails(c) \/ RunReturns(c) \/ PeerCloses(c)
         \/ DisconnectCheck(c) \/ DisconnectHasConn(c)
  PROVE  SerialInv'
<1>1. manager' = manager /\ sess' = sess /\ target' = target
  BY DEF ConnectKick, ConnectCreateFails, RunReturns, PeerCloses, DisconnectCheck,
         DisconnectHasConn
<1>2. CASE RunReturns(c) \/ PeerCloses(c)
  <2>1. \A d \in Conns : pc'[d] = pc[d] \/ (pc[d] = "open" /\ pc'[d] = "left")
    BY <1>2, SerialTypes DEF RunReturns, PeerCloses, Goto
  <2>2. \A d \in Conns : /\ Busy(d)' <=> Busy(d)
                         /\ Place(d)'
    BY <1>1, <2>1 DEF Busy, Place, Fresh, SerialInv, Connecting
  <2>3. \A s \in Sessions : NewOK(s)' /\ GraceOK(s)'
    BY <1>1, <2>1 DEF NewOK, GraceOK, SerialInv
  <2>4. manager' # None => HookOK(manager)' /\ IdleOK(manager)'
    BY <1>1, <2>1 DEF HookOK, IdleOK, SerialInv
  <2>. QED  BY <2>2, <2>3, <2>4 DEF SerialInv, Alone
<1>3. CASE ConnectKick(c) \/ ConnectCreateFails(c) \/ DisconnectCheck(c) \/ DisconnectHasConn(c)
  <2>1. /\ \E to : pc' = [pc EXCEPT ![c] = to]
        /\ pc[c] \in {"kick", "create", "check", "hasConn"}
        /\ \/ pc[c] = "kick" /\ pc'[c] = "attach"
           \/ pc[c] = "create" /\ pc'[c] = "open"
           \/ pc[c] = "check" /\ pc'[c] \in {"detach", "hasConn"}
           \/ pc[c] = "hasConn" /\ pc'[c] = IF sess[target[c]].conn = None THEN "grace" ELSE "gone"
    BY <1>3, SerialTypes
       DEF ConnectKick, ConnectCreateFails, DisconnectCheck, DisconnectHasConn, Goto
  <2>2. \A d \in Conns \ {c} : ~Busy(d) /\ pc'[d] = pc[d]
    <3>1. Busy(c)
      BY <2>1 DEF Busy, Connecting
    <3>. QED  BY <2>1, <3>1, OthersRest, SerialTypes
  <2>3. Place(c)'
    BY <1>1, <2>1 DEF Place, SerialInv, Busy, Connecting
  <2>4. \A s \in Sessions : NewOK(s)' /\ GraceOK(s)'
    BY <1>1, <2>1, <2>2 DEF NewOK, GraceOK, SerialInv
  <2>5. manager' # None => HookOK(manager)'
    BY <1>1, <2>1, <2>2 DEF HookOK, SerialInv
  <2>6. manager' # None => IdleOK(manager)'
    <3>1. SUFFICES ASSUME manager # None, IdleOK(manager), sess[manager].conn = None
                   PROVE  IdleOK(manager)'
      BY <1>1 DEF IdleOK, SerialInv
    <3>2. CASE \E d \in Conns : pc[d] \in {"hasConn", "grace"} /\ target[d] = manager
      <4>1. PICK d \in Conns : pc[d] \in {"hasConn", "grace"} /\ target[d] = manager
        BY <3>2
      <4>2. d = c
        BY <2>2, <4>1 DEF Busy
      <4>3. pc'[c] = "grace" /\ target'[c] = manager'
        BY <1>1, <2>1, <3>1, <4>1, <4>2
      <4>. QED  BY <4>3 DEF IdleOK
    <3>3. CASE ~\E d \in Conns : pc[d] \in {"hasConn", "grace"} /\ target[d] = manager
      BY <1>1, <3>1, <3>3 DEF IdleOK
    <3>. QED  BY <3>2, <3>3
  <2>. QED  BY <2>2, <2>3, <2>4, <2>5, <2>6, HandlerSerial
<1>. QED  BY <1>2, <1>3

\* Timers, callbacks and battles change a session that the handlers rely on
\* only in what they do not rely on.
LEMMA SessionSerial ==
  ASSUME IInv, SerialInv, overlap = "none", NEW s \in Sessions, NEW r \in Session,
         sess' = [sess EXCEPT ![s] = r], pc' = pc, target' = target,
         manager' \in {manager, None},
         r.conn = sess[s].conn, r.hook = sess[s].hook,
         r.state = "none" =>
           sess[s].state = "none" /\ r.armed = sess[s].armed /\ r.fired = sess[s].fired,
         r.state = "grace" => sess[s].state = "grace",
         sess[s].state = "active" /\ ~sess[s].armed /\ sess[s].fired = 0 /\ sess[s].cb = "idle"
           => r.state = "active" /\ ~r.armed /\ r.fired = 0 /\ r.cb = "idle",
         manager' = s =>
           /\ r.cb \in {"idle", "flush", "remove"}
           /\ \/ sess[s].state = "grace" /\ (sess[s].armed \/ sess[s].fired > 0)
              \/ sess[s].cb # "idle"
              => \/ r.state = "grace" /\ (r.armed \/ r.fired > 0)
                 \/ r.cb # "idle"
  PROVE  SerialInv'
<1>1. sess'[s] = r /\ \A t \in Sessions \ {s} : sess'[t] = sess[t]
  BY SerialTypes
<1>2. \A t \in Sessions : sess'[t].conn = sess[t].conn /\ sess'[t].hook = sess[t].hook
  BY <1>1
<1>3. ASSUME NEW c \in Conns PROVE Place(c)'
  <2>1. Place(c)
    BY DEF SerialInv
  <2>2. Busy(c) /\ pc[c] # "create" => target[c] \in Sessions
    BY SerialTypes DEF TargetKnown, Working, Busy, Connecting
  <2>3. target[c] \in Sessions /\ Fresh(c) => Fresh(c)'
    <3>1. CASE target[c] = s
      BY <1>1, <3>1 DEF Fresh
    <3>2. CASE target[c] # s
      BY <1>1, <3>2 DEF Fresh
    <3>. QED  BY <3>1, <3>2
  <2>4. manager' = target[c] /\ target[c] \in Sessions => manager = target[c]
    BY SerialTypes
  <2>5. pc[c] \in {"add", "hook", "stop", "grace"} => Busy(c) /\ pc[c] # "create"
    BY DEF Busy, Connecting
  <2>6. Busy(c)' <=> Busy(c)
    BY DEF Busy
  <2>7. Busy(c) /\ pc[c] # "create" => sess'[target[c]].state # "none"
    BY <1>1, <2>1, <2>2 DEF Place
  <2>. QED  BY <1>2, <2>1, <2>2, <2>3, <2>4, <2>5, <2>6, <2>7 DEF Place
<1>4. \A t \in Sessions : NewOK(t)' /\ GraceOK(t)'
  BY <1>1, <1>2 DEF SerialInv, NewOK, GraceOK
<1>5. manager' # None => HookOK(manager)' /\ IdleOK(manager)'
  <2>1. SUFFICES ASSUME manager' # None, manager' = manager, manager \in Sessions
                 PROVE  HookOK(manager)' /\ IdleOK(manager)'
    BY SerialTypes
  <2>2. HookOK(manager) /\ IdleOK(manager)
    BY <2>1 DEF SerialInv
  <2>3. CASE manager = s
    BY <1>1, <2>1, <2>2, <2>3 DEF HookOK, IdleOK
  <2>4. CASE manager # s
    BY <1>1, <2>1, <2>2, <2>4 DEF HookOK, IdleOK
  <2>. QED  BY <2>3, <2>4
<1>6. Alone'
  BY DEF SerialInv, Alone, Busy
<1>. QED  BY <1>3, <1>4, <1>5, <1>6 DEF SerialInv

LEMMA TimerSerial ==
  ASSUME IInv, SerialInv, overlap = "none", NEW s \in Sessions,
         TimerFires(s) \/ Callback(s) \/ BattleStarts(s) \/ BattleEnds(s)
  PROVE  SerialInv'
<1>. DEFINE o == sess[s]
<1>1. o \in Session /\ pc' = pc /\ target' = target
  BY SerialTypes DEF TimerFires, Callback, CallbackBegins, CallbackFlush, CallbackRemove,
     CallbackEnds, BattleStarts, BattleEnds, conns
<1>2. manager = s => /\ o.hook \/ \E c \in Conns : Fresh(c) /\ target[c] = s
                     /\ o.cb \in {"idle", "flush", "remove"}
  <2>1. SUFFICES ASSUME manager = s
                 PROVE  /\ o.hook \/ \E c \in Conns : Fresh(c) /\ target[c] = s
                        /\ o.cb \in {"idle", "flush", "remove"}
    OBVIOUS
  <2>2. HookOK(s)
    BY <2>1, SerialTypes DEF SerialInv
  <2>3. ASSUME NEW c \in Conns, pc[c] = "hook", target[c] = s PROVE Fresh(c)
    BY <2>1, <2>3 DEF SerialInv, Place
  <2>. QED  BY <2>2, <2>3 DEF HookOK
<1>3. o.state = "none" => ~o.armed /\ o.fired = 0 /\ o.cb = "idle"
  BY SerialTypes DEF SerialInv, NewOK, Exclusive
<1>4. ASSUME TimerFires(s) PROVE SerialInv'
  <2>. DEFINE r == [[o EXCEPT !.armed = FALSE] EXCEPT !.fired = o.fired + 1]
  <2>1. r \in Session /\ o.armed /\ o.fired \in Nat
    <3>1. o.armed /\ o.fired \in Nat /\ o.fired + 1 \in Nat
      BY <1>1, <1>4 DEF Session, TimerFires
    <3>. QED  BY <1>1, <3>1 DEF Session
  <2>2. sess' = [sess EXCEPT ![s] = r] /\ manager' = manager
    BY <1>4 DEF TimerFires
  <2>3. /\ r.conn = o.conn /\ r.hook = o.hook /\ r.state = o.state
        /\ r.cb = o.cb /\ r.fired > 0
    BY <1>1, <2>1 DEF Session
  <2>4. r.state # "none"
    BY <1>3, <2>1, <2>3
  <2>. HIDE DEF r
  <2>. QED  BY <1>1, <1>2, <2>1, <2>2, <2>3, <2>4, SessionSerial
<1>5. ASSUME CallbackBegins(s) PROVE SerialInv'
  <2>. DEFINE r == [o EXCEPT
          !.fired = @ - 1,
          !.armed = o.armed \/ (o.state = "grace" /\ o.fighting),
          !.state = IF o.state = "grace" /\ ~o.fighting THEN "closing" ELSE @,
          !.cb = IF o.state # "grace" \/ o.fighting THEN "idle"
                 ELSE IF o.hook THEN "flush" ELSE "end"]
  <2>1. sess' = [sess EXCEPT ![s] = r] /\ manager' = manager /\ o.fired > 0 /\ o.cb = "idle"
    BY <1>5 DEF CallbackBegins, GraceHeld
  <2>2. /\ r \in Session /\ r.conn = o.conn /\ r.hook = o.hook
        /\ o.state = "grace" /\ ~o.fighting =>
             r.state = "closing" /\ r.cb = IF o.hook THEN "flush" ELSE "end"
        /\ o.state # "grace" \/ o.fighting => r.state = o.state /\ r.cb = "idle"
        /\ o.state = "grace" /\ o.fighting => r.armed
    <3>1. o.fired - 1 \in Nat
      BY <1>1, <2>1 DEF Session
    <3>. QED  BY <1>1, <3>1 DEF Session, States
  <2>3. manager = s => o.hook
    BY <1>2, <2>1 DEF Fresh
  <2>. HIDE DEF r
  <2>4. r.state = "grace" => o.state = "grace" /\ r.armed
    BY <2>2
  <2>5. manager' = s =>
          /\ r.cb \in {"idle", "flush", "remove"}
          /\ o.state = "grace" => (r.state = "grace" /\ r.armed) \/ r.cb # "idle"
    BY <2>1, <2>2, <2>3
  <2>6. o.fired # 0 /\ r.state # "none"
    BY <1>1, <1>3, <2>1, <2>2 DEF Session
  <2>. QED  BY <1>1, <2>1, <2>2, <2>4, <2>5, <2>6, SessionSerial
<1>6. ASSUME CallbackFlush(s) PROVE SerialInv'
  <2>. DEFINE r == [o EXCEPT !.cb = "remove"]
  <2>1. sess' = [sess EXCEPT ![s] = r] /\ manager' = manager /\ o.cb = "flush"
    BY <1>6 DEF CallbackFlush
  <2>2. /\ r \in Session /\ r.conn = o.conn /\ r.hook = o.hook /\ r.state = o.state
        /\ r.cb = "remove"
    BY <1>1 DEF Session
  <2>3. r.state # "none"
    BY <1>3, <2>1, <2>2
  <2>. HIDE DEF r
  <2>. QED  BY <1>1, <2>1, <2>2, <2>3, SessionSerial
<1>7. ASSUME CallbackRemove(s) PROVE SerialInv'
  <2>. DEFINE r == [o EXCEPT !.cb = "end"]
  <2>1. sess' = [sess EXCEPT ![s] = r] /\ manager' = None /\ o.cb = "remove"
    BY <1>7 DEF CallbackRemove
  <2>2. r \in Session /\ r.conn = o.conn /\ r.hook = o.hook /\ r.state = o.state
    BY <1>1 DEF Session
  <2>3. None # s /\ r.state # "none"
    BY <1>3, <2>1, <2>2, SerialTypes
  <2>. HIDE DEF r
  <2>. QED  BY <1>1, <2>1, <2>2, <2>3, SessionSerial
<1>8. ASSUME CallbackEnds(s) PROVE SerialInv'
  <2>. DEFINE r == [[o EXCEPT !.cb = "idle"] EXCEPT !.state = "closed"]
  <2>1. sess' = [sess EXCEPT ![s] = r] /\ manager' = manager /\ o.cb = "end"
    BY <1>8 DEF CallbackEnds
  <2>2. r \in Session /\ r.conn = o.conn /\ r.hook = o.hook /\ r.state = "closed"
    BY <1>1 DEF Session, States
  <2>3. manager # s
    BY <1>2, <2>1
  <2>. HIDE DEF r
  <2>. QED  BY <1>1, <2>1, <2>2, <2>3, SessionSerial
<1>9. ASSUME BattleStarts(s) \/ BattleEnds(s) PROVE SerialInv'
  <2>1. PICK v \in BOOLEAN : sess' = [sess EXCEPT ![s].fighting = v] /\ manager' = manager
    BY <1>9 DEF BattleStarts, BattleEnds
  <2>. DEFINE r == [o EXCEPT !.fighting = v]
  <2>2. sess' = [sess EXCEPT ![s] = r]
    BY <2>1
  <2>3. /\ r \in Session /\ r.conn = o.conn /\ r.hook = o.hook /\ r.state = o.state
        /\ r.cb = o.cb /\ r.armed = o.armed /\ r.fired = o.fired
    BY <1>1 DEF Session
  <2>. HIDE DEF r
  <2>. QED  BY <1>1, <1>2, <2>1, <2>2, <2>3, SessionSerial
<1>. QED  BY <1>4, <1>5, <1>6, <1>7, <1>8, <1>9 DEF Callback

\* Evict takes the session away from the handlers.
LEMMA EvictSerial ==
  ASSUME IInv, SerialInv, overlap = "none", Evict \/ EvictCloses
  PROVE  SerialInv'
<1>1. CASE Evict
  BY <1>1 DEF Evict, conns, SerialInv, Alone, Busy, Place, Fresh, NewOK, GraceOK, HookOK, IdleOK
<1>2. CASE EvictCloses
  <2>1. /\ pc' = pc /\ target' = target /\ manager' = None
        /\ sess' = [sess EXCEPT ![manager] = Closed(@)]
    BY <1>2 DEF EvictCloses, conns
  <2>2. \A t \in Sessions : /\ t # manager => sess'[t] = sess[t]
                            /\ t = manager => sess'[t].conn = sess[t].conn
                                              /\ sess'[t].state = "closed"
    BY <2>1, SerialTypes DEF Closed, Session
  <2>3. ASSUME NEW c \in Conns PROVE Place(c)'
    <3>1. Place(c)
      BY DEF SerialInv
    <3>2. Busy(c) /\ pc[c] # "create" => target[c] \in Sessions
      BY SerialTypes DEF TargetKnown, Working, Busy, Connecting
    <3>3. pc[c] \in {"add", "hook", "stop", "grace"} => Busy(c) /\ pc[c] # "create"
      BY DEF Busy, Connecting
    <3>4. Busy(c) /\ pc[c] # "create" => sess'[target[c]].state # "none"
      BY <2>2, <3>1, <3>2 DEF Place
    <3>5. Busy(c)' <=> Busy(c)
      BY <2>1 DEF Busy
    <3>6. target[c] \in Sessions => target[c] # None /\ sess'[target[c]].conn = sess[target[c]].conn
      BY <2>2, SerialTypes
    <3>7. pc[c] = "add" => Fresh(c)'
      BY <2>1, <2>2, <3>1, <3>2, <3>3, <3>6 DEF Place, Fresh
    <3>. QED  BY <2>1, <3>1, <3>2, <3>3, <3>4, <3>5, <3>6, <3>7 DEF Place
  <2>4. \A t \in Sessions : NewOK(t)' /\ GraceOK(t)'
    BY <2>1, <2>2 DEF SerialInv, NewOK, GraceOK
  <2>5. Alone'
    BY <2>1 DEF SerialInv, Alone, Busy
  <2>. QED  BY <2>1, <2>3, <2>4, <2>5 DEF SerialInv
<1>. QED  BY <1>1, <1>2

\* A handler moves on and changes one session, s, to r.
LEMMA MoveSerial ==
  ASSUME IInv, SerialInv, overlap = "none", NEW c \in Conns, Busy(c),
         NEW to, pc' = [pc EXCEPT ![c] = to],
         NEW s \in Sessions, NEW r \in Session, sess' = [sess EXCEPT ![s] = r],
         r.state # "none",
         pc[c] = "stop" => s = target[c],
         r.state = "grace" /\ r.conn # None => to = "stop" /\ target'[c] = s,
         Place(c)', manager' # None => HookOK(manager)' /\ IdleOK(manager)'
  PROVE  SerialInv'
<1>1. sess'[s] = r /\ \A t \in Sessions \ {s} : sess'[t] = sess[t]
  BY SerialTypes
<1>2. \A d \in Conns \ {c} : ~Busy(d) /\ pc'[d] = pc[d]
  BY OthersRest, SerialTypes
<1>3. pc'[c] = to
  BY SerialTypes
<1>4. ASSUME NEW t \in Sessions PROVE NewOK(t)' /\ GraceOK(t)'
  <2>1. CASE t = s
    BY <1>1, <1>3, <2>1 DEF NewOK, GraceOK
  <2>2. CASE t # s
    <3>1. sess'[t] = sess[t] /\ NewOK(t) /\ GraceOK(t)
      BY <1>1, <2>2 DEF SerialInv
    <3>2. ~\E d \in Conns : pc[d] = "stop" /\ target[d] = t
      BY <1>2, <2>2 DEF Busy, Connecting
    <3>. QED  BY <3>1, <3>2 DEF NewOK, GraceOK
  <2>. QED  BY <2>1, <2>2
<1>. QED  BY <1>2, <1>4, HandlerSerial

\* What the handler of c knows of its session when it changes it.
LEMMA TargetSerial ==
  ASSUME IInv, SerialInv, overlap = "none", NEW c \in Conns,
         pc[c] \in {"attach", "stop", "hook", "detach", "grace"}
  PROVE  /\ Busy(c) /\ Place(c) /\ target[c] \in Sessions
         /\ sess[target[c]] \in Session /\ sess[target[c]].state # "none"
         /\ manager # None =>
              /\ manager = target[c]
              /\ sess[manager].hook \/ pc[c] = "hook"
              /\ sess[manager].cb \in {"idle", "flush", "remove"}
<1>1. Busy(c) /\ Place(c)
  BY DEF SerialInv, Busy, Connecting
<1>2. target[c] \in Sessions
  BY SerialTypes DEF TargetKnown, Working
<1>3. sess[target[c]].state # "none" /\ manager \in {target[c], None}
  BY <1>1 DEF Place
<1>4. ASSUME manager # None
      PROVE  /\ sess[manager].hook \/ pc[c] = "hook"
             /\ sess[manager].cb \in {"idle", "flush", "remove"}
  <2>1. HookOK(manager)
    BY <1>4 DEF SerialInv
  <2>2. ASSUME NEW d \in Conns, pc[d] = "hook" PROVE d = c
    BY <1>1, <2>2 DEF SerialInv, Alone, Busy, Connecting
  <2>. QED  BY <2>1, <2>2 DEF HookOK
<1>. QED  BY <1>1, <1>2, <1>3, <1>4, SerialTypes

LEMMA ChangeSerial ==
  ASSUME IInv, SerialInv, overlap = "none", NEW c \in Conns,
         \/ ConnectAttach(c) \/ ConnectStop(c) \/ ConnectHook(c)
         \/ DisconnectDetach(c) \/ DisconnectGrace(c)
  PROVE  SerialInv'
<1>. DEFINE s == target[c]
            o == sess[s]
<1>1. pc[c] \in {"attach", "stop", "hook", "detach", "grace"}
  BY DEF ConnectAttach, ConnectStop, ConnectHook, DisconnectDetach, DisconnectGrace, Goto
<1>2. /\ Busy(c) /\ Place(c) /\ s \in Sessions /\ o \in Session /\ o.state # "none"
      /\ manager # None => /\ manager = s
                           /\ o.hook \/ pc[c] = "hook"
                           /\ o.cb \in {"idle", "flush", "remove"}
  BY <1>1, TargetSerial
<1>3. manager' = manager /\ target' = target
  BY DEF ConnectAttach, ConnectStop, ConnectHook, DisconnectDetach, DisconnectGrace
<1>4. c # None
  BY SerialTypes
<1>5. ASSUME ConnectAttach(c) PROVE SerialInv'
  <2>. DEFINE r == [o EXCEPT !.conn = c]
  <2>1. /\ pc[c] = "attach" /\ pc' = [pc EXCEPT ![c] = "stop"]
        /\ sess' = [sess EXCEPT ![s] = r]
    BY <1>5 DEF ConnectAttach, Goto
  <2>2. r \in Session /\ r.conn = c /\ r.state = o.state /\ r.hook = o.hook /\ r.cb = o.cb
    BY <1>2 DEF Session
  <2>. HIDE DEF r
  <2>3. pc'[c] = "stop" /\ sess'[s] = r
    BY <1>2, <2>1, SerialTypes
  <2>4. Place(c)'
    BY <1>2, <1>3, <2>1, <2>2, <2>3 DEF Place
  <2>5. manager' # None => HookOK(manager)' /\ IdleOK(manager)'
    BY <1>2, <1>3, <1>4, <2>1, <2>2, <2>3 DEF HookOK, IdleOK
  <2>. QED  BY <1>2, <1>3, <2>1, <2>2, <2>4, <2>5, MoveSerial
<1>6. ASSUME ConnectStop(c) PROVE SerialInv'
  <2>. DEFINE r == [[o EXCEPT !.armed = FALSE] EXCEPT !.state = "active"]
  <2>1. /\ pc[c] = "stop" /\ pc' = [pc EXCEPT ![c] = "open"]
        /\ sess' = [sess EXCEPT ![s] = r]
    BY <1>6 DEF ConnectStop, Goto
  <2>2. /\ r \in Session /\ r.conn = o.conn /\ r.state = "active"
        /\ r.hook = o.hook /\ r.cb = o.cb
    BY <1>2 DEF Session, States
  <2>. HIDE DEF r
  <2>3. pc'[c] = "open" /\ sess'[s] = r
    BY <1>2, <2>1, SerialTypes
  <2>4. Place(c)' /\ o.conn = c
    BY <1>2, <2>1, <2>3 DEF Place, Busy, Connecting
  <2>5. manager' # None => HookOK(manager)' /\ IdleOK(manager)'
    BY <1>2, <1>3, <1>4, <2>1, <2>2, <2>3, <2>4 DEF HookOK, IdleOK
  <2>. QED  BY <1>2, <1>3, <2>1, <2>2, <2>4, <2>5, MoveSerial
<1>7. ASSUME ConnectHook(c) PROVE SerialInv'
  <2>. DEFINE r == [o EXCEPT !.hook = TRUE]
  <2>1. /\ pc[c] = "hook" /\ pc' = [pc EXCEPT ![c] = "open"]
        /\ sess' = [sess EXCEPT ![s] = r]
    BY <1>7 DEF ConnectHook, Goto
  <2>2. r \in Session /\ r.conn = o.conn /\ r.state = o.state /\ r.hook /\ r.cb = o.cb
    BY <1>2 DEF Session
  <2>. HIDE DEF r
  <2>3. pc'[c] = "open" /\ sess'[s] = r
    BY <1>2, <2>1, SerialTypes
  <2>4. Place(c)'
    BY <2>3 DEF Place, Busy, Connecting
  <2>5. manager' # None => HookOK(manager)' /\ IdleOK(manager)'
    BY <1>2, <1>3, <1>4, <2>1, <2>2, <2>3 DEF HookOK, IdleOK, Place, Fresh
  <2>6. r.state = "grace" => r.conn = None
    BY <1>2, <2>1, <2>2 DEF SerialInv, GraceOK, Alone, Busy, Connecting
  <2>. QED  BY <1>2, <1>3, <2>1, <2>2, <2>4, <2>5, <2>6, MoveSerial
<1>8. ASSUME DisconnectDetach(c) PROVE SerialInv'
  <2>. DEFINE r == [o EXCEPT !.conn = None]
  <2>1. /\ pc[c] = "detach" /\ pc' = [pc EXCEPT ![c] = "hasConn"]
        /\ sess' = [sess EXCEPT ![s] = r]
    BY <1>8 DEF DisconnectDetach, Goto
  <2>2. r \in Session /\ r.conn = None /\ r.state = o.state /\ r.hook = o.hook /\ r.cb = o.cb
    BY <1>2 DEF Session
  <2>. HIDE DEF r
  <2>3. pc'[c] = "hasConn" /\ sess'[s] = r
    BY <1>2, <2>1, SerialTypes
  <2>4. Place(c)'
    BY <1>2, <1>3, <2>1, <2>2, <2>3 DEF Place
  <2>5. manager' # None => HookOK(manager)' /\ IdleOK(manager)'
    BY <1>2, <1>3, <2>1, <2>2, <2>3 DEF HookOK, IdleOK
  <2>. QED  BY <1>2, <1>3, <2>1, <2>2, <2>4, <2>5, MoveSerial
<1>9. ASSUME DisconnectGrace(c) PROVE SerialInv'
  <2>. DEFINE r == [[o EXCEPT !.armed = TRUE] EXCEPT !.state = "grace"]
  <2>1. /\ pc[c] = "grace" /\ pc' = [pc EXCEPT ![c] = "gone"]
        /\ sess' = [sess EXCEPT ![s] = r]
    BY <1>9 DEF DisconnectGrace, Goto
  <2>2. /\ r \in Session /\ r.conn = o.conn /\ r.state = "grace" /\ r.armed
        /\ r.hook = o.hook /\ r.cb = o.cb
    BY <1>2 DEF Session, States
  <2>. HIDE DEF r
  <2>3. pc'[c] = "gone" /\ sess'[s] = r
    BY <1>2, <2>1, SerialTypes
  <2>4. Place(c)' /\ o.conn = None
    BY <1>2, <2>1, <2>3 DEF Place, Busy, Connecting
  <2>5. manager' # None => HookOK(manager)' /\ IdleOK(manager)'
    BY <1>2, <1>3, <2>1, <2>2, <2>3, <2>4 DEF HookOK, IdleOK
  <2>. QED  BY <1>2, <1>3, <2>1, <2>2, <2>4, <2>5, MoveSerial
<1>. QED  BY <1>5, <1>6, <1>7, <1>8, <1>9

\* A session is created while the user has none, and added.
LEMMA CreateSerial ==
  ASSUME IInv, SerialInv, overlap = "none", NEW c \in Conns,
         ConnectCreate(c) \/ ConnectAdd(c) \/ ConnectCloseOld(c)
  PROVE  SerialInv'
<1>1. Place(c)
  BY DEF SerialInv
<1>2. ASSUME ConnectCreate(c) PROVE SerialInv'
  <2>1. PICK s \in Sessions :
          /\ sess[s].state = "none" /\ pc[c] = "create"
          /\ pc' = [pc EXCEPT ![c] = "add"] /\ target' = [target EXCEPT ![c] = s]
          /\ sess' = [sess EXCEPT ![s].state = "active", ![s].conn = c]
          /\ manager' = manager
    BY <1>2 DEF ConnectCreate, Goto
  <2>. DEFINE o == sess[s]
              r == [[o EXCEPT !.state = "active"] EXCEPT !.conn = c]
  <2>2. sess' = [sess EXCEPT ![s] = r] /\ o \in Session
    BY <2>1, SerialTypes
  <2>3. /\ r \in Session /\ r.conn = c /\ r.state = "active" /\ r.hook = o.hook
        /\ r.armed = o.armed /\ r.fired = o.fired /\ r.cb = o.cb
    BY <2>2 DEF Session, States
  <2>4. ~o.hook /\ ~o.armed /\ o.fired = 0 /\ o.cb = "idle"
    BY <2>1, SerialTypes DEF SerialInv, NewOK, Exclusive
  <2>. HIDE DEF r
  <2>5. pc'[c] = "add" /\ target'[c] = s /\ sess'[s] = r
    BY <2>1, <2>2, SerialTypes
  <2>6. manager' = None
    BY <1>1, <2>1 DEF Place
  <2>7. Place(c)'
    BY <2>3, <2>4, <2>5, <2>6 DEF Place, Fresh
  <2>8. Busy(c)
    BY <2>1 DEF Busy, Connecting
  <2>. QED  BY <2>1, <2>2, <2>3, <2>6, <2>7, <2>8, MoveSerial
<1>3. ASSUME ConnectAdd(c) PROVE SerialInv'
  <2>1. pc[c] = "add" /\ manager = None /\ Fresh(c) /\ target[c] \in Sessions /\ c # None
    BY <1>1, <1>3, SerialTypes DEF ConnectAdd, Goto, Place, TargetKnown, Working
  <2>2. /\ pc' = [pc EXCEPT ![c] = "hook"] /\ manager' = target[c]
        /\ sess' = sess /\ target' = target
    BY <1>3, <2>1 DEF ConnectAdd, Goto
  <2>3. pc'[c] = "hook" /\ Fresh(c)'
    BY <2>1, <2>2, SerialTypes DEF Fresh
  <2>4. Busy(c) /\ sess[target[c]].state # "none"
    BY <2>1 DEF Busy, Connecting, Fresh
  <2>5. Place(c)'
    BY <2>2, <2>3, <2>4 DEF Place
  <2>6. HookOK(manager)' /\ IdleOK(manager)'
    BY <2>1, <2>2, <2>3 DEF HookOK, IdleOK, Fresh
  <2>7. \A d \in Conns \ {c} : ~Busy(d) /\ pc'[d] = pc[d]
    BY <2>2, <2>4, OthersRest, SerialTypes
  <2>8. \A s \in Sessions : NewOK(s)' /\ GraceOK(s)'
    BY <2>1, <2>2, <2>7 DEF SerialInv, NewOK, GraceOK, Busy, Connecting
  <2>. QED  BY <2>5, <2>6, <2>7, <2>8, HandlerSerial
<1>4. ~ConnectCloseOld(c)
  BY <1>1 DEF ConnectCloseOld, Goto, Place
<1>. QED  BY <1>2, <1>3, <1>4

LEMMA SerialStep == IInv /\ SerialInv /\ [Next]_vars => SerialInv'
<1>. SUFFICES ASSUME IInv, SerialInv, [Next]_vars PROVE SerialInv'
  OBVIOUS
<1>1. CASE UNCHANGED vars
  BY <1>1 DEF vars, conns, others, SerialInv, Alone, Busy, Place, Fresh, NewOK, GraceOK,
              HookOK, IdleOK
<1>2. CASE Next
  <2>1. overlap' = overlap
    BY <1>2 DEF Next, Handler, ConnectGet, ConnectKick, ConnectAttach, ConnectStop,
       ConnectCreate, ConnectCreateFails, ConnectAdd, ConnectCloseOld, ConnectHook, PeerCloses,
       RunReturns, DisconnectGet, DisconnectCheck, DisconnectDetach, DisconnectHasConn,
       DisconnectGrace, TimerFires, Callback, CallbackBegins, CallbackFlush, CallbackRemove,
       CallbackEnds, Evict, EvictCloses, BattleStarts, BattleEnds, others
  <2>2. CASE overlap # "none"
    BY <2>1, <2>2 DEF SerialInv
  <2>3. CASE overlap = "none"
    BY <1>2, <2>1, <2>3, StartSerial, ReadSerial, ChangeSerial, CreateSerial, TimerSerial,
       EvictSerial DEF Next, Handler
  <2>. QED  BY <2>2, <2>3
<1>. QED  BY <1>1, <1>2

LEMMA SerialInductive == Spec => []SerialInv
<1>1. IInv /\ SerialInv /\ [Next]_vars => SerialInv'
  BY SerialStep
<1>. QED  BY <1>1, InitSerial, Inductive, PTL DEF Spec

\* Where a user's handlers follow one another, whatever the timers, evictions
\* and battles do meanwhile, a session whose client has gone is counted down:
\* no session stays in memory for ever (ws.go OnDisconnect, lifecycle.go).
THEOREM IdleSessionsExpire == Spec => []IdleSessionHasTimer
<1>1. IInv /\ SerialInv => IdleSessionHasTimer
  <2>1. SUFFICES ASSUME IInv, SerialInv, overlap = "none", Settled, manager # None,
                        sess[manager].conn = None
                 PROVE  sess[manager].armed
    BY DEF IdleSessionHasTimer
  <2>2. manager \in Sessions
    BY <2>1, SerialTypes
  <2>3. \A c \in Conns : pc[c] \in {"new", "gone", "open"}
    BY <2>1 DEF Settled
  <2>4. sess[manager].cb = "idle" /\ sess[manager].fired = 0
    BY <2>1, <2>2 DEF Settled, GraceHeld
  <2>5. IdleOK(manager)
    BY <2>1 DEF SerialInv
  <2>. QED  BY <2>1, <2>3, <2>4, <2>5 DEF IdleOK
<1>. QED  BY <1>1, Inductive, SerialInductive, PTL

\* There, too, a session in StateGrace has no connection: nobody who plays is
\* about to be expired (ws.go OnConnect, OnDisconnect).
THEOREM GraceIsForTheGone == Spec => []ConnectedNotInGrace
<1>1. SerialInv => ConnectedNotInGrace
  BY DEF SerialInv, GraceOK, Settled, ConnectedNotInGrace
<1>. QED  BY <1>1, SerialInductive, PTL

=============================================================================
