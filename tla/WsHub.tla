-------------------------------- MODULE WsHub --------------------------------
(***************************************************************************)
(* The connections of package wsx: Hub.Serve from the upgrade to the end,  *)
(* the read and the write loop of a connection, Send and its bounded       *)
(* buffer, closeWithReason, and the shutdown by Hub.Close.  The WebSocket  *)
(* library is external: Read and Write fail when the connection is closed  *)
(* or the peer is gone.  What OnConnect, OnDisconnect and the handlers of  *)
(* messages do is left to other modules; here they take any time, or never *)
(* return: they wait for locks and for the tick loop.                      *)
(*                                                                         *)
(* closeWithReason is one step: done is closed, and the library's Close,   *)
(* which waits for the peer up to its timeouts, counts as no time.  (In    *)
(* the code the write loop may choose the buffer rather than done as long  *)
(* as Close has not sent its frame, and write what is left there.)         *)
(***************************************************************************)
EXTENDS Naturals, Sequences, FiniteSets

CONSTANTS
  Conns, Users,
  Messages,
  Marshals,        \* the messages that can be serialized
  AllowAnonymous,  \* whether the configuration lets in who is not logged in
  SendBuffer,
  MaxSends,        \* bound: MaxSends[c] messages are sent to c
  None

ASSUME WsHubAssumption ==
  /\ Marshals \subseteq Messages /\ AllowAnonymous \in BOOLEAN
  /\ SendBuffer \in Nat \ {0} /\ MaxSends \in [Conns -> Nat]
  /\ None \notin Messages \cup Users
  /\ Messages \cap {"none", "select", "exited"} = {}

VARIABLES
  stage,     \* stage[c]: new, upgraded, connect, read, dispatch, join, disconnect,
             \* uncount or gone: where Serve is
  user,      \* user[c]: UserID, None for 0
  conns,     \* Hub.conns
  byUserID,  \* Hub.byUserID
  closed,    \* connections whose done channel is closed
  peerGone,  \* connections whose client has gone, and nothing it sent is left
  send,      \* send[c]: the buffer
  writer,    \* writer[c]: none, select, exited, or the message being written
  offered,   \* offered[c]: what Send was given while c was open (history)
  received,  \* received[c]: what the client was sent (history)
  allDone,   \* WaitGroup: connections counted
  hub,       \* open, kick, wait or returned: Hub.Close
  kick       \* snapshot of Hub.Close, not yet closed

serve   == <<stage, user, conns, byUserID>>
line    == <<send, writer, offered, received>>
stop    == <<allDone, hub, kick>>
hubVars == <<serve, line, closed, peerGone, stop>>

\* closeWithReason: the first caller closes done, the others find it closed.
Close(c) == closed' = closed \cup {c}

PeerLeaves(c) ==
  /\ stage[c] # "new" /\ c \notin peerGone
  /\ peerGone' = peerGone \cup {c}
  /\ UNCHANGED <<serve, line, closed, stop>>

-----------------------------------------------------------------------------
(* Send, by the tick loop and by the connection's own goroutine            *)

\* The connection is at hand: the session's, or the handler's own.
Known(c) == stage[c] \notin {"new", "upgraded"}

\* Every message is another one: two that say the same are told apart.
MaySend(c, m) ==
  /\ Known(c) /\ Len(offered[c]) < MaxSends[c]
  /\ \A n \in 1..Len(offered[c]) : offered[c][n] # m

\* There is room.  After the pre-check the connection may be closed already:
\* then nobody will get what is queued.
SendQueues(c, m) ==
  /\ MaySend(c, m) /\ Len(send[c]) < SendBuffer
  /\ send' = [send EXCEPT ![c] = Append(@, m)]
  /\ offered' = IF c \in closed THEN offered
                ELSE [offered EXCEPT ![c] = Append(@, m)]
  /\ UNCHANGED <<serve, writer, received, closed, peerGone, stop>>

\* Mutant: the message is dropped and the connection goes on.
SendDrops(c, m) ==
  /\ MaySend(c, m) /\ Len(send[c]) = SendBuffer
  /\ c \notin closed
  /\ offered' = [offered EXCEPT ![c] = Append(@, m)]
  /\ UNCHANGED <<serve, send, writer, received, closed, peerGone, stop>>

\* The buffer is full: the sender itself closes the connection.
SendOverflows(c, m) ==
  /\ MaySend(c, m) /\ Len(send[c]) = SendBuffer
  /\ c \notin closed
  /\ Close(c)
  /\ offered' = [offered EXCEPT ![c] = Append(@, m)]
  /\ UNCHANGED <<serve, send, writer, received, peerGone, stop>>

-----------------------------------------------------------------------------
(* Serve                                                                   *)

Goes(c, from, to) == stage[c] = from /\ stage' = [stage EXCEPT ![c] = to]

\* Accept, for a user whom the caller has authenticated, or for nobody.
Upgrade(c, u) ==
  /\ u # None \/ AllowAnonymous
  /\ Goes(c, "new", "upgraded")
  /\ user' = [user EXCEPT ![c] = u]
  /\ UNCHANGED <<conns, byUserID, line, closed, peerGone, stop>>

\* Mutant: Hub.closed is not looked at under the lock.
RegisterAnyway(c) ==
  /\ Goes(c, "upgraded", "connect")
  /\ conns' = conns \cup {c}
  /\ byUserID' = [u \in Users |-> IF u = user[c] THEN byUserID[u] \cup {c} ELSE byUserID[u]]
  /\ UNCHANGED <<user, line, closed, peerGone, stop>>

Register(c) ==
  /\ hub = "open" /\ Goes(c, "upgraded", "connect")
  /\ conns' = conns \cup {c}
  /\ byUserID' = [u \in Users |-> IF u = user[c] THEN byUserID[u] \cup {c} ELSE byUserID[u]]
  /\ UNCHANGED <<user, line, closed, peerGone, stop>>

RegisterRefused(c) ==
  /\ hub # "open" /\ Goes(c, "upgraded", "gone")
  /\ UNCHANGED <<user, conns, byUserID, line, closed, peerGone, stop>>

\* OnConnect closes the connection the user has had.
ConnectKicks(c, old) ==
  /\ stage[c] = "connect"
  /\ user[c] # None /\ old \in byUserID[user[c]] \ ({c} \cup closed)
  /\ Close(old)
  /\ UNCHANGED <<serve, line, peerGone, stop>>

\* OnConnect returns; allDone.Add(1), then run starts the writer.
Counted(c) ==
  /\ Goes(c, "connect", "read")
  /\ allDone' = allDone \cup {c}
  /\ writer' = [writer EXCEPT ![c] = "select"]
  /\ UNCHANGED <<user, conns, byUserID, send, offered, received, closed, peerGone,
                 hub, kick>>

\* A message is read and its handler runs, in the read loop's goroutine.
Dispatches(c) ==
  /\ c \notin closed \cup peerGone
  /\ Goes(c, "read", "dispatch")
  /\ UNCHANGED <<user, conns, byUserID, line, closed, peerGone, stop>>

\* The handler has returned, after what it sent.
HandlerReturns(c) ==
  /\ Goes(c, "dispatch", "read")
  /\ UNCHANGED <<user, conns, byUserID, line, closed, peerGone, stop>>

\* Mutant: run does not wake the writer up.
ReadEndsSilently(c) ==
  /\ Goes(c, "read", "join")
  /\ UNCHANGED <<user, conns, byUserID, line, closed, peerGone, stop>>

\* Read fails, or a frame of the wrong type comes; run closes the connection.
ReadEnds(c) ==
  /\ Goes(c, "read", "join")
  /\ Close(c)
  /\ UNCHANGED <<user, conns, byUserID, line, peerGone, stop>>

\* The writer has exited: run returns, and OnDisconnect is called.
RunReturns(c) ==
  /\ Goes(c, "join", "disconnect") /\ writer[c] = "exited"
  /\ UNCHANGED <<user, conns, byUserID, line, closed, peerGone, stop>>

\* OnDisconnect has returned.
Unregister(c) ==
  /\ Goes(c, "disconnect", "uncount")
  /\ conns' = conns \ {c}
  /\ byUserID' = [u \in Users |-> byUserID[u] \ {c}]
  /\ UNCHANGED <<user, line, closed, peerGone, stop>>

\* cancel, allDone.Done
Uncount(c) ==
  /\ Goes(c, "uncount", "gone")
  /\ allDone' = allDone \ {c}
  /\ UNCHANGED <<user, conns, byUserID, line, closed, peerGone, hub, kick>>

-----------------------------------------------------------------------------
(* The write loop                                                          *)

Writing(c) == writer[c] \in Messages

\* select: a message is taken; one that cannot be serialized is left out.
WriterTakes(c) ==
  /\ writer[c] = "select" /\ send[c] # <<>>
  /\ send' = [send EXCEPT ![c] = Tail(@)]
  /\ writer' = [writer EXCEPT ![c] = IF Head(send[c]) \in Marshals THEN Head(send[c]) ELSE @]
  /\ UNCHANGED <<serve, offered, received, closed, peerGone, stop>>

WriterWrites(c) ==
  /\ Writing(c) /\ c \notin closed \cup peerGone
  /\ received' = [received EXCEPT ![c] = Append(@, writer[c])]
  /\ writer' = [writer EXCEPT ![c] = "select"]
  /\ UNCHANGED <<serve, send, offered, closed, peerGone, stop>>

\* A write or a ping fails: the writer closes the connection.
WriterFails(c) ==
  /\ Writing(c) \/ (writer[c] = "select" /\ c \notin closed)
  /\ c \in peerGone \cup closed
  /\ Close(c)
  /\ writer' = [writer EXCEPT ![c] = "exited"]
  /\ UNCHANGED <<serve, send, offered, received, peerGone, stop>>

WriterStops(c) ==
  /\ writer[c] = "select" /\ c \in closed
  /\ writer' = [writer EXCEPT ![c] = "exited"]
  /\ UNCHANGED <<serve, send, offered, received, closed, peerGone, stop>>

-----------------------------------------------------------------------------
(* Hub.Close                                                               *)

HubCloses ==
  /\ hub = "open"
  /\ hub' = "kick"
  /\ kick' = conns
  /\ UNCHANGED <<serve, line, closed, peerGone, allDone>>

HubKicks(c) ==
  /\ hub = "kick" /\ c \in kick
  /\ Close(c)
  /\ kick' = kick \ {c}
  /\ UNCHANGED <<serve, line, peerGone, allDone, hub>>

HubWaits ==
  /\ hub = "kick" /\ kick = {}
  /\ hub' = "wait"
  /\ UNCHANGED <<serve, line, closed, peerGone, allDone, kick>>

\* All who were counted are done, or the timeout has elapsed.
HubReturns ==
  /\ hub = "wait"
  /\ hub' = "returned"
  /\ UNCHANGED <<serve, line, closed, peerGone, allDone, kick>>

-----------------------------------------------------------------------------
HubInit ==
  /\ stage = [c \in Conns |-> "new"] /\ user = [c \in Conns |-> None]
  /\ conns = {} /\ byUserID = [u \in Users |-> {}]
  /\ closed = {} /\ peerGone = {}
  /\ send = [c \in Conns |-> <<>>] /\ writer = [c \in Conns |-> "none"]
  /\ offered = [c \in Conns |-> <<>>] /\ received = [c \in Conns |-> <<>>]
  /\ allDone = {} /\ hub = "open" /\ kick = {}

Serving(c) == Register(c) \/ RegisterRefused(c) \/ RunReturns(c) \/ Uncount(c)

\* OnConnect, OnDisconnect, or the handler of a message runs.
InCallback(c) == stage[c] \in {"connect", "dispatch", "disconnect"}

CallbackReturns(c) == Counted(c) \/ HandlerReturns(c) \/ Unregister(c)

HubStep ==
  \/ \E c \in Conns :
       \/ Serving(c) \/ CallbackReturns(c)
       \/ Dispatches(c) \/ ReadEnds(c) \/ PeerLeaves(c)
       \/ WriterTakes(c) \/ WriterWrites(c) \/ WriterFails(c) \/ WriterStops(c)
       \/ HubKicks(c)
       \/ \E m \in Messages : SendQueues(c, m) \/ SendOverflows(c, m)
       \/ \E old \in Conns : ConnectKicks(c, old)
  \/ HubCloses \/ HubWaits \/ HubReturns

HubNext == HubStep \/ \E c \in Conns, u \in Users \cup {None} : Upgrade(c, u)

\* Goroutines are scheduled; Read and Write fail on a connection that is closed
\* or whose client is gone, at the latest by a ping.  That OnConnect, a handler
\* or OnDisconnect returns is not assumed: CommandChannel and SessionLifecycle
\* show how they may wait for ever.
HubFairness ==
  /\ \A c \in Conns :
       /\ WF_hubVars(Serving(c))
       /\ WF_hubVars(c \in peerGone \cup closed /\ ReadEnds(c))
       /\ WF_hubVars(WriterFails(c) \/ WriterStops(c))
       /\ WF_hubVars(HubKicks(c))
  /\ WF_hubVars(HubWaits) /\ WF_hubVars(HubReturns)

HubSpec == HubInit /\ [][HubNext]_hubVars /\ HubFairness

-----------------------------------------------------------------------------
(* Properties                                                              *)

Stream == INSTANCE ClientStream

\* What a client is sent is a beginning of all that Send was given for it while
\* the connection was open, in order and without a gap but for messages that
\* cannot be serialized.  A connection that cannot take a message on is cut off
\* with it: none goes on with one message less (conn.go Send).
ClientStreamSpec == Stream!Spec

\* A connection that is closed, by whomever, whose client has gone or whose read
\* loop has ended, ends: its goroutines return, the hub and the WaitGroup forget
\* it.  Or OnConnect, a handler of a message or OnDisconnect never returns.
ConnectionEnds ==
  \A c \in Conns :
    c \in closed \cup peerGone \/ stage[c] = "join" ~>
      (stage[c] = "gone" /\ c \notin conns \cup allDone) \/ []InCallback(c)

\* After Hub.Close has begun every connection goes, but for those one of whose
\* callbacks does not return, none comes, and Hub.Close returns.
ShutdownEmpties ==
  hub # "open" ~> [](hub = "returned" /\ \A c \in conns : InCallback(c))

\* hub.go Close: "blocks until every connection's goroutines have exited or
\* shutdownTimeout elapses": when the WaitGroup lets it go they have.
CloseWaitsForAll ==
  hub = "wait" /\ allDone = {} =>
    \A c \in Conns : stage[c] \in {"new", "upgraded", "gone"}
=============================================================================
