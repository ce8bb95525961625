--------------------------- MODULE CommandChannel ---------------------------
(***************************************************************************)
(* How a client's command reaches its session and how the client gets its  *)
(* answer: SubmitCommand (session/command.go), drainCommandsLocked of the  *)
(* tick loop (session/tick.go), and the two ways a session ends, Close     *)
(* (session/session.go) and the grace callback (session/lifecycle.go).     *)
(*                                                                         *)
(* SubmitCommand runs in the goroutine of the client's request; it puts    *)
(* the command into a buffered channel and waits.  The tick loop and Close *)
(* take commands out and answer them, at the same time if it so happens.   *)
(* An answer goes to a channel of the command that has room for one.       *)
(***************************************************************************)
EXTENDS Naturals, Sequences, FiniteSets

CONSTANTS
  Commands,   \* the commands that clients send, each sent once
  Capacity    \* room in the session's command channel

ASSUME ChannelAssumption == Capacity \in Nat \ {0}

VARIABLES
  pc,        \* pc[c]: where SubmitCommand is with command c
  channel,   \* the commands in the channel, oldest first
  answers,   \* answers[c]: answers sent for c and not received yet
  executed,  \* commands the tick loop has run
  state,     \* the session's state
  done,      \* the session's done channel is closed
  managed,   \* the Manager has the session
  tick,      \* the tick loop's goroutine
  closer     \* the goroutine that calls Close

session == <<state, done, managed, closer>>
vars == <<pc, channel, answers, executed, session, tick>>

Init ==
  /\ pc = [c \in Commands |-> "new"]
  /\ channel = <<>>
  /\ answers = [c \in Commands |-> 0]
  /\ executed = {}
  /\ state = "active" /\ done = FALSE /\ managed = TRUE
  /\ tick = "idle"
  /\ closer = "idle"

Step(c, from, to) == pc[c] = from /\ pc' = [pc EXCEPT ![c] = to]

-----------------------------------------------------------------------------
(* SubmitCommand                                                           *)

\* The handler found the session with Manager.Get.
SubmitFind(c) ==
  /\ managed /\ closer = "idle"
  /\ Step(c, "new", "check")
  /\ UNCHANGED <<channel, answers, executed, session, tick>>

\* Only StateClosed refuses a command.
SubmitCheck(c) ==
  /\ Step(c, "check", IF state = "closed" THEN "refused" ELSE "send")
  /\ UNCHANGED <<channel, answers, executed, session, tick>>

\* The select of the sender: it takes any case that is ready, ...
SubmitSend(c) ==
  /\ Len(channel) < Capacity
  /\ Step(c, "send", "wait")
  /\ channel' = Append(channel, c)
  /\ UNCHANGED <<answers, executed, session, tick>>

\* ... the default if none is.
SubmitRefused(c) ==
  /\ done \/ Len(channel) = Capacity
  /\ Step(c, "send", "refused")
  /\ UNCHANGED <<channel, answers, executed, session, tick>>

SubmitAnswered(c) ==
  /\ answers[c] > 0
  /\ Step(c, "wait", "answered")
  /\ answers' = [answers EXCEPT ![c] = @ - 1]
  /\ UNCHANGED <<channel, executed, session, tick>>

\* Mutant: the sender waits for the answer whether the session is closed or not.
SubmitWaitsOn(c) ==
  /\ done /\ answers[c] > 0
  /\ Step(c, "wait", "refused")
  /\ UNCHANGED <<channel, answers, executed, session, tick>>

\* The session was closed: the sender does not wait for an answer any more.
SubmitGivesUp(c) ==
  /\ done
  /\ Step(c, "wait", "refused")
  /\ UNCHANGED <<channel, answers, executed, session, tick>>

-----------------------------------------------------------------------------
(* The tick loop                                                           *)

\* getAllSessions takes the session into the round.
TickBegin ==
  /\ managed /\ closer = "idle"
  /\ tick = "idle" /\ tick' = "check"
  /\ UNCHANGED <<pc, channel, answers, executed, session>>

TickCheck ==
  /\ tick = "check"
  /\ tick' = IF state = "closed" THEN "idle" ELSE "drain"
  /\ UNCHANGED <<pc, channel, answers, executed, session>>

\* Mutant: the oldest command is looked at, not taken.
AnswerHeadPeeking ==
  /\ channel # <<>>
  /\ answers' = [answers EXCEPT ![Head(channel)] = @ + 1]
  /\ UNCHANGED <<pc, channel>>

\* The oldest command is taken out and answered.
AnswerHead ==
  /\ channel # <<>>
  /\ channel' = Tail(channel)
  /\ answers' = [answers EXCEPT ![Head(channel)] = @ + 1]
  /\ UNCHANGED pc

TickRuns ==
  /\ tick = "drain"
  /\ AnswerHead
  /\ executed' = executed \cup {Head(channel)}
  /\ UNCHANGED <<session, tick>>

TickEnds ==
  /\ tick = "drain" /\ channel = <<>>
  /\ tick' = "idle"
  /\ UNCHANGED <<pc, channel, answers, executed, session>>

-----------------------------------------------------------------------------
(* The end of the session                                                  *)

\* Mutant: the command channel is drained before done is closed.
CloseBeginDraining ==
  /\ managed /\ closer = "idle" /\ state = "active"
  /\ closer' = "drain" /\ state' = "closed"
  /\ UNCHANGED <<pc, channel, answers, executed, done, managed, tick>>

\* Close as Evict and Add call it, with Manager.mu held: the state, then ...
CloseBegin ==
  /\ managed /\ closer = "idle" /\ state = "active"
  /\ closer' = "done" /\ state' = "closed"
  /\ UNCHANGED <<pc, channel, answers, executed, done, managed, tick>>

\* ... the done channel, and then what is left in the command channel.
CloseDone ==
  /\ closer = "done"
  /\ closer' = "drain" /\ done' = TRUE
  /\ UNCHANGED <<pc, channel, answers, executed, state, managed, tick>>

CloseFails ==
  /\ closer = "drain"
  /\ AnswerHead
  /\ UNCHANGED <<executed, session, tick>>

CloseEnds ==
  /\ closer = "drain" /\ channel = <<>>
  /\ closer' = "idle" /\ managed' = FALSE
  /\ UNCHANGED <<pc, channel, answers, executed, state, done, tick>>

\* The grace callback does not call Close: closing, Remove, closed.
ExpiryBegins ==
  /\ state = "active" /\ closer = "idle"
  /\ state' = "closing"
  /\ UNCHANGED <<pc, channel, answers, executed, done, managed, tick, closer>>

ExpiryRemoves ==
  /\ state = "closing" /\ managed
  /\ managed' = FALSE
  /\ UNCHANGED <<pc, channel, answers, executed, state, done, tick, closer>>

ExpiryEnds ==
  /\ state = "closing" /\ ~managed
  /\ state' = "closed"
  /\ UNCHANGED <<pc, channel, answers, executed, done, managed, tick, closer>>

-----------------------------------------------------------------------------
Submit(c) ==
  \/ SubmitCheck(c) \/ SubmitSend(c) \/ SubmitRefused(c)
  \/ SubmitAnswered(c) \/ SubmitGivesUp(c)

TickStep == TickBegin \/ TickCheck \/ TickRuns \/ TickEnds

EndStep == CloseDone \/ CloseFails \/ CloseEnds \/ ExpiryRemoves \/ ExpiryEnds

Next ==
  \/ \E c \in Commands : SubmitFind(c) \/ Submit(c)
  \/ TickStep
  \/ CloseBegin \/ ExpiryBegins \/ EndStep

Spec == Init /\ [][Next]_vars

\* Goroutines keep running and the ticker keeps ticking; clients need not
\* send, and the session need not end.
FairSpec ==
  /\ Spec
  /\ \A c \in Commands : WF_vars(Submit(c))
  /\ WF_vars(TickStep) /\ WF_vars(EndStep)

-----------------------------------------------------------------------------
TypeOK ==
  /\ pc \in [Commands -> {"new", "check", "send", "wait", "answered", "refused"}]
  /\ channel \in Seq(Commands) /\ Len(channel) <= Capacity
  /\ answers \in [Commands -> Nat]
  /\ executed \subseteq Commands
  /\ state \in {"active", "closing", "closed"}
  /\ done \in BOOLEAN /\ managed \in BOOLEAN
  /\ tick \in {"idle", "check", "drain"}
  /\ closer \in {"idle", "done", "drain"}

\* Neither the tick loop nor Close ever blocks on an answer: there is never
\* more than one for a command, so the buffer of one is enough, although the
\* two drain the same channel (command.go SubmitCommand, tick.go, Close).
AnswersFit ==
  /\ \A c \in Commands : answers[c] <= 1
  /\ \A i \in 1..Len(channel) :
       answers[channel[i]] = 0 /\ channel[i] \notin executed

\* A client that gets an answer from an open session had its command run:
\* Close answers "session closed" only once done is closed (session.go Close).
AnsweredWasRun ==
  \A c \in Commands : pc[c] = "answered" /\ ~done => c \in executed

\* A client waits for ever only if the session's grace period has run out:
\* the tick loop or Close answers every other command (command.go, tick.go).
CommandReturns ==
  \A c \in Commands :
    pc[c] = "wait" ~> pc[c] # "wait" \/ (state = "closed" /\ ~done)

-----------------------------------------------------------------------------
(* What the tests and documents say and the code does not do               *)

\* tick_lifecycle_race_test.go, TestCommandDuringStateClosing: SubmitCommand
\* does not block for ever "because the command channel is never drained
\* after grace".
NeverStuck == \A c \in Commands : pc[c] = "wait" ~> pc[c] # "wait"

=============================================================================
