-------------------------- MODULE SessionLifecycle --------------------------
(***************************************************************************)
(* The life of one player's sessions: the WebSocket handlers OnConnect and *)
(* OnDisconnect (internal/server/ws.go), the grace timer and its callback  *)
(* (session/lifecycle.go), and the Manager that maps a user to a session   *)
(* (session/session.go).                                                   *)
(*                                                                         *)
(* Every connection has a goroutine of its own that runs OnConnect, then   *)
(* the connection, then OnDisconnect; every grace timer that fires has one *)
(* for its callback.  A step of a goroutine is what it does between two    *)
(* points where another may run.  Two locks are held across such points:   *)
(* Manager.mu by Add and Evict while they close the old session, and a     *)
(* session's graceMu by its callback, from the state check to the end.     *)
(*                                                                         *)
(* One user is enough: sessions of different users share only Manager.mu.  *)
(***************************************************************************)
EXTENDS Naturals, FiniteSets

CONSTANTS
  Conns,         \* connections the user opens; each is opened once
  Sessions,      \* PlayerSession objects, a bound on how many are created
  None,          \* no session, no connection
  Overlaps,      \* whether handlers of the user may run at the same time:
                 \* "any" of them or "none"; one is chosen
  MaxEvicts      \* bound: calls of Evict

ASSUME LifecycleAssumption ==
  /\ None \notin Conns \cup Sessions
  /\ Overlaps \subseteq {"any", "none"}
  /\ MaxEvicts \in Nat

VARIABLES
  pc,       \* pc[c]: where the goroutine of connection c is
  target,   \* target[c]: the session that goroutine works on
  closed,   \* connections closed by the server or by the peer
  manager,  \* Manager.sessions[userID]
  sess,     \* sess[s]: the fields of session s
  evictor,  \* "close" while Evict holds Manager.mu and closes a session
  evicts,   \* calls of Evict so far
  overlap   \* how much the user's handlers overlap in this behavior

conns  == <<pc, target, closed>>
others == <<evictor, evicts, overlap>>
vars   == <<conns, manager, sess, others>>

(***************************************************************************)
(* The fields of a session.  armed: the timer runs.  fired: callbacks that *)
(* were started and have not got graceMu yet.  cb: where the callback that *)
(* holds graceMu is.  hook: SetOnGraceExpire was called.  done: Close was  *)
(* called.  fighting: the session's battle is Running.                     *)
(***************************************************************************)
States == {"none", "active", "grace", "closing", "closed"}

NewSession == [state |-> "none", conn |-> None, armed |-> FALSE, fired |-> 0,
               cb |-> "idle", hook |-> FALSE, done |-> FALSE, fighting |-> FALSE]

Connecting == {"kick", "attach", "stop", "create", "add", "closeOld", "hook"}
Leaving    == {"left", "check", "detach", "hasConn", "grace"}

ManagerHeld == evictor = "close" \/ \E c \in Conns : pc[c] = "closeOld"

GraceHeld(s) == sess[s].cb # "idle"

Init ==
  /\ pc = [c \in Conns |-> "new"]
  /\ target = [c \in Conns |-> None]
  /\ closed = {}
  /\ manager = None
  /\ sess = [s \in Sessions |-> NewSession]
  /\ evictor = "idle" /\ evicts = 0
  /\ overlap \in Overlaps

\* A handler may start.
MayStart ==
  overlap = "none" => \A c \in Conns : pc[c] \notin Connecting \cup (Leaving \ {"left"})

Goto(c, from, to) == pc[c] = from /\ pc' = [pc EXCEPT ![c] = to]

-----------------------------------------------------------------------------
(* OnConnect                                                               *)

\* Manager.Get decides between an existing session and a new one.
ConnectGet(c) ==
  /\ ~ManagerHeld
  /\ MayStart
  /\ Goto(c, "new", IF manager = None THEN "create" ELSE "kick")
  /\ target' = [target EXCEPT ![c] = manager]
  /\ UNCHANGED <<closed, manager, sess, others>>

\* The session's connection, if it has one, is closed ...
ConnectKick(c) ==
  /\ Goto(c, "kick", "attach")
  /\ closed' = closed \cup ({sess[target[c]].conn} \ {None})
  /\ UNCHANGED <<target, manager, sess, others>>

\* ... and then replaced: AttachConn closes the one that is there by now.
ConnectAttach(c) ==
  /\ Goto(c, "attach", "stop")
  /\ closed' = closed \cup ({sess[target[c]].conn} \ {None, c})
  /\ sess' = [sess EXCEPT ![target[c]].conn = c]
  /\ UNCHANGED <<target, manager, others>>

\* Mutant: without graceMu.
ConnectStopUnlocked(c) ==
  /\ Goto(c, "stop", "open")
  /\ sess' = [sess EXCEPT ![target[c]].armed = FALSE, ![target[c]].state = "active"]
  /\ UNCHANGED <<target, closed, manager, others>>

\* StopGraceTimer, then SendFullState.
ConnectStop(c) ==
  LET s == target[c] IN
  /\ Goto(c, "stop", "open")
  /\ ~GraceHeld(s)
  /\ sess' = [sess EXCEPT ![s].armed = FALSE, ![s].state = "active"]
  /\ UNCHANGED <<target, closed, manager, others>>

\* CreateSession loads the player from the database; AttachConn follows.
ConnectCreate(c) ==
  \E s \in Sessions :
    /\ sess[s].state = "none"
    /\ Goto(c, "create", "add")
    /\ target' = [target EXCEPT ![c] = s]
    /\ sess' = [sess EXCEPT ![s].state = "active", ![s].conn = c]
    /\ UNCHANGED <<closed, manager, others>>

\* CreateSession fails: OnConnect returns and the connection runs anyway.
ConnectCreateFails(c) ==
  /\ Goto(c, "create", "open")
  /\ UNCHANGED <<target, closed, manager, sess, others>>

\* Manager.Add, with a session of the user already there or not.
ConnectAdd(c) ==
  /\ ~ManagerHeld
  /\ Goto(c, "add", IF manager = None THEN "hook" ELSE "closeOld")
  /\ manager' = IF manager = None THEN target[c] ELSE manager
  /\ UNCHANGED <<target, closed, sess, others>>

Closed(r) == [r EXCEPT !.state = "closed", !.armed = FALSE, !.done = TRUE]

\* Add closes the session it replaces: Close needs graceMu, Add holds mu.
ConnectCloseOld(c) ==
  /\ Goto(c, "closeOld", "hook")
  /\ ~GraceHeld(manager)
  /\ sess' = [sess EXCEPT ![manager] = Closed(@)]
  /\ manager' = target[c]
  /\ UNCHANGED <<target, closed, others>>

\* SendFullState, SetOnGraceExpire.
ConnectHook(c) ==
  /\ Goto(c, "hook", "open")
  /\ sess' = [sess EXCEPT ![target[c]].hook = TRUE]
  /\ UNCHANGED <<target, closed, manager, others>>

-----------------------------------------------------------------------------
(* The connection ends; OnDisconnect                                       *)

PeerCloses(c) ==
  /\ pc[c] \in Connecting \cup {"open"}
  /\ c \notin closed
  /\ closed' = closed \cup {c}
  /\ UNCHANGED <<pc, target, manager, sess, others>>

RunReturns(c) ==
  /\ c \in closed
  /\ Goto(c, "open", "left")
  /\ UNCHANGED <<target, closed, manager, sess, others>>

DisconnectGet(c) ==
  /\ ~ManagerHeld
  /\ MayStart
  /\ Goto(c, "left", IF manager = None THEN "gone" ELSE "check")
  /\ target' = [target EXCEPT ![c] = manager]
  /\ UNCHANGED <<closed, manager, sess, others>>

\* "Only detach if this is the current conn": the test is one step, ...
DisconnectCheck(c) ==
  /\ pc[c] = "check"
  /\ Goto(c, "check", IF sess[target[c]].conn = c THEN "detach" ELSE "hasConn")
  /\ UNCHANGED <<target, closed, manager, sess, others>>

\* ... DetachConn another.
DisconnectDetach(c) ==
  /\ Goto(c, "detach", "hasConn")
  /\ sess' = [sess EXCEPT ![target[c]].conn = None]
  /\ UNCHANGED <<target, closed, manager, others>>

\* Mutant: HasConn is not asked.
DisconnectAlwaysGrace(c) ==
  /\ Goto(c, "hasConn", "grace")
  /\ UNCHANGED <<target, closed, manager, sess, others>>

DisconnectHasConn(c) ==
  /\ pc[c] = "hasConn"
  /\ Goto(c, "hasConn", IF sess[target[c]].conn = None THEN "grace" ELSE "gone")
  /\ UNCHANGED <<target, closed, manager, sess, others>>

\* Mutant: the state stays what it was.
DisconnectGraceStateless(c) ==
  LET s == target[c] IN
  /\ Goto(c, "grace", "gone")
  /\ ~GraceHeld(s)
  /\ sess' = [sess EXCEPT ![s].armed = TRUE]
  /\ UNCHANGED <<target, closed, manager, others>>

\* StartGraceTimer: stops a running timer and starts a new one.
DisconnectGrace(c) ==
  LET s == target[c] IN
  /\ Goto(c, "grace", "gone")
  /\ ~GraceHeld(s)
  /\ sess' = [sess EXCEPT ![s].armed = TRUE, ![s].state = "grace"]
  /\ UNCHANGED <<target, closed, manager, others>>

-----------------------------------------------------------------------------
(* The grace timer and its callback                                        *)

TimerFires(s) ==
  /\ sess[s].armed
  /\ sess' = [sess EXCEPT ![s].armed = FALSE, ![s].fired = @ + 1]
  /\ UNCHANGED <<conns, manager, others>>

\* Mutant: the timer is not reset when the battle runs.
CallbackBeginsOnce(s) ==
  LET r == sess[s] IN
  /\ r.fired > 0 /\ ~GraceHeld(s)
  /\ sess' = [sess EXCEPT ![s] =
       [r EXCEPT
          !.fired = @ - 1,
          !.state = IF r.state = "grace" /\ ~r.fighting THEN "closing" ELSE @,
          !.cb = IF r.state # "grace" \/ r.fighting THEN "idle"
                 ELSE IF r.hook THEN "flush" ELSE "end"]]
  /\ UNCHANGED <<conns, manager, others>>

\* Under graceMu: a session that is not in grace is left alone, one with a
\* running battle gets another period, any other one is being closed.
CallbackBegins(s) ==
  LET r == sess[s] IN
  /\ r.fired > 0 /\ ~GraceHeld(s)
  /\ sess' = [sess EXCEPT ![s] =
       [r EXCEPT
          !.fired = @ - 1,
          !.armed = r.armed \/ (r.state = "grace" /\ r.fighting),
          !.state = IF r.state = "grace" /\ ~r.fighting THEN "closing" ELSE @,
          !.cb = IF r.state # "grace" \/ r.fighting THEN "idle"
                 ELSE IF r.hook THEN "flush" ELSE "end"]]
  /\ UNCHANGED <<conns, manager, others>>

CallbackFlush(s) ==
  /\ sess[s].cb = "flush"
  /\ sess' = [sess EXCEPT ![s].cb = "remove"]
  /\ UNCHANGED <<conns, manager, others>>

\* Manager.Remove(userID): whatever session the user has.
CallbackRemove(s) ==
  /\ ~ManagerHeld
  /\ sess[s].cb = "remove"
  /\ sess' = [sess EXCEPT ![s].cb = "end"]
  /\ manager' = None
  /\ UNCHANGED <<conns, others>>

\* Mutant: graceMu is not released.
CallbackEndsLocked(s) ==
  /\ sess[s].cb = "end" /\ sess[s].state # "closed"
  /\ sess' = [sess EXCEPT ![s].state = "closed"]
  /\ UNCHANGED <<conns, manager, others>>

CallbackEnds(s) ==
  /\ sess[s].cb = "end"
  /\ sess' = [sess EXCEPT ![s].cb = "idle", ![s].state = "closed"]
  /\ UNCHANGED <<conns, manager, others>>

-----------------------------------------------------------------------------
(* Evict, and the battle of a session                                      *)

Evict ==
  /\ ~ManagerHeld
  /\ evicts < MaxEvicts
  /\ evicts' = evicts + 1
  /\ evictor' = IF manager = None THEN "idle" ELSE "close"
  /\ UNCHANGED <<conns, manager, sess, overlap>>

\* Mutant: the closed session is not deleted from the map.
EvictClosesOnly ==
  /\ evictor = "close" /\ ~GraceHeld(manager)
  /\ evictor' = "idle"
  /\ sess' = [sess EXCEPT ![manager] = Closed(@)]
  /\ UNCHANGED <<conns, manager, evicts, overlap>>

EvictCloses ==
  /\ evictor = "close" /\ ~GraceHeld(manager)
  /\ evictor' = "idle"
  /\ sess' = [sess EXCEPT ![manager] = Closed(@)]
  /\ manager' = None
  /\ UNCHANGED <<conns, evicts, overlap>>

\* battle.start is a command of a connected client.
BattleStarts(s) ==
  /\ manager = s /\ sess[s].conn # None /\ ~sess[s].fighting
  /\ sess' = [sess EXCEPT ![s].fighting = TRUE]
  /\ UNCHANGED <<conns, manager, others>>

\* battle.stop, or the battle runs out of events.
BattleEnds(s) ==
  /\ sess[s].fighting
  /\ sess' = [sess EXCEPT ![s].fighting = FALSE]
  /\ UNCHANGED <<conns, manager, others>>

-----------------------------------------------------------------------------
Handler(c) ==
  \/ ConnectGet(c) \/ ConnectKick(c) \/ ConnectAttach(c) \/ ConnectStop(c)
  \/ ConnectCreate(c) \/ ConnectCreateFails(c)
  \/ ConnectAdd(c) \/ ConnectCloseOld(c) \/ ConnectHook(c)
  \/ RunReturns(c) \/ DisconnectGet(c) \/ DisconnectCheck(c)
  \/ DisconnectDetach(c) \/ DisconnectHasConn(c) \/ DisconnectGrace(c)

Callback(s) ==
  \/ CallbackBegins(s) \/ CallbackFlush(s)
  \/ CallbackRemove(s) \/ CallbackEnds(s)

Next ==
  \/ \E c \in Conns : Handler(c) \/ PeerCloses(c)
  \/ \E s \in Sessions :
       TimerFires(s) \/ Callback(s) \/ BattleStarts(s) \/ BattleEnds(s)
  \/ Evict \/ EvictCloses

Spec == Init /\ [][Next]_vars

\* Goroutines that can run do run, and a running timer fires.  Clients need
\* not connect, leave or fight, and a battle need not end.
Fairness ==
  /\ \A c \in Conns : WF_vars(Handler(c) /\ pc[c] # "new")
  /\ \A s \in Sessions : WF_vars(TimerFires(s)) /\ WF_vars(Callback(s))
  /\ WF_vars(EvictCloses)

FairSpec == Spec /\ Fairness

-----------------------------------------------------------------------------
TypeOK ==
  /\ pc \in [Conns -> {"new", "open", "gone"} \cup Connecting \cup Leaving]
  /\ target \in [Conns -> Sessions \cup {None}]
  /\ closed \subseteq Conns
  /\ manager \in Sessions \cup {None}
  /\ sess \in [Sessions ->
       [state: States, conn: Conns \cup {None}, armed: BOOLEAN, fired: Nat,
        cb: {"idle", "flush", "remove", "end"}, hook: BOOLEAN,
        done: BOOLEAN, fighting: BOOLEAN]]
  /\ evictor \in {"idle", "close"} /\ evicts \in Nat
  /\ overlap \in Overlaps

\* Nobody revives or closes a session while its expiry callback runs: from
\* the check under graceMu to the end the session stays in StateClosing
\* (lifecycle.go, StartGraceTimer's callback).
ExpiryIsExclusive ==
  \A s \in Sessions : GraceHeld(s) => sess[s].state = "closing"

\* A session that was closed for good, its done channel closed, is never the
\* one the Manager hands out (session.go Add, Evict): a command sent to the
\* session Get returns is not left behind in the channel of a closed one.
ManagedNotDone == manager # None => ~sess[manager].done

\* No OnConnect, OnDisconnect, callback or Evict is under way.
Settled ==
  /\ \A c \in Conns : pc[c] \in {"new", "gone"} \/ (pc[c] = "open" /\ c \notin closed)
  /\ \A s \in Sessions : ~GraceHeld(s) /\ sess[s].fired = 0
  /\ evictor = "idle"

\* No session is left in memory for ever: where handlers follow one another,
\* at rest, a managed session whose client has gone has its grace timer
\* running (ws.go OnDisconnect, and the callback's Reset while a battle runs).
IdleSessionHasTimer ==
  overlap = "none" /\ Settled /\ manager # None /\ sess[manager].conn = None
    => sess[manager].armed

\* 1.1: StateGrace means the connection is gone.  Where handlers follow one
\* another, at rest, a session that has one is not about to be expired under
\* its player.  (A reconnect between HasConn and StartGraceTimer is.)
ConnectedNotInGrace ==
  overlap = "none" /\ Settled =>
    \A s \in Sessions : sess[s].state = "grace" => sess[s].conn = None

\* Add or Evict holds Manager.mu and waits for the graceMu of the session it
\* closes, whose callback holds that and waits for Manager.mu: neither goes on.
LockInversion ==
  ManagerHeld /\ manager # None /\ sess[manager].cb = "remove"

\* Once every client has gone the session is removed, unless its battle is
\* running, which postpones the expiry again and again (lifecycle.go), or the
\* Manager is locked for ever.  However the user's handlers overlap.
SessionFreed ==
  (\A c \in Conns : pc[c] = "gone") ~>
    manager = None \/ sess[manager].fighting \/ LockInversion

\* session.go Add, "single-online-per-user": at rest at most one of the user's
\* open connections was given a session.
SingleOnline ==
  Settled =>
    \A c, d \in Conns :
      pc[c] = "open" /\ pc[d] = "open" /\ None \notin {target[c], target[d]}
      => c = d

\* Manager is "the thread-safe registry": a client that connects gets through
\* OnConnect.  With any handlers, callbacks and evictions of the user at the
\* same time nothing keeps it there for ever, except that Add or Evict and a
\* callback take Manager.mu and graceMu in opposite orders.
ConnectReturns ==
  \A c \in Conns :
    pc[c] \in Connecting ~> pc[c] \notin Connecting \/ LockInversion

=============================================================================
