---------------------------- MODULE ChannelProofs ----------------------------
(***************************************************************************)
(* Proofs about what passes through the two bounded channels of the        *)
(* server, for any number of senders and any size of the channel.          *)
(*                                                                         *)
(* CommandChannel: neither the tick loop nor Close ever blocks on an       *)
(* answer, and a client answered by an open session had its command run.   *)
(*                                                                         *)
(* WsHub: the send buffer, the write loop and all the ways to close a      *)
(* connection implement ClientStream: a client is sent a beginning of all  *)
(* that Send was given for it, in order and without a gap.                 *)
(***************************************************************************)
EXTENDS CommandChannel, WsHub, NaturalsInduction, SequenceTheorems,
        WellFoundedInduction, TLAPS

-----------------------------------------------------------------------------
(* CommandChannel: the inductive invariant                                 *)

\* A command is in the channel at most once.
ChannelDistinct ==
  \A i, j \in 1..Len(channel) : channel[i] = channel[j] => i = j

\* A command in the channel was sent, and nobody has looked at it.
Pending(c) == pc[c] \in {"wait", "refused"} /\ answers[c] = 0 /\ c \notin executed

ChannelPending == \A i \in 1..Len(channel) : Pending(channel[i])

\* A command that was not sent has no answer.
UnsentUnknown ==
  \A c \in Commands :
    pc[c] \in {"new", "check", "send"} => answers[c] = 0 /\ c \notin executed

OneAnswer == \A c \in Commands : answers[c] <= 1

\* Close answers only after it has closed done.
DrainedWhenDone == closer = "drain" => done

AnswerMeansRun ==
  \A c \in Commands :
    (answers[c] > 0 \/ pc[c] = "answered") /\ ~done => c \in executed

IInv ==
  /\ TypeOK
  /\ ChannelDistinct /\ ChannelPending
  /\ UnsentUnknown /\ OneAnswer
  /\ DrainedWhenDone /\ AnswerMeansRun

-----------------------------------------------------------------------------
(* What the two readers of the channel do to it                            *)

\* Taking the oldest command out and answering it.
LEMMA AnswerHeadKeeps ==
  ASSUME IInv, AnswerHead
  PROVE  /\ Head(channel) \in Commands
         /\ answers[Head(channel)] = 0
         /\ answers' = [answers EXCEPT ![Head(channel)] = 1]
         /\ answers' \in [Commands -> Nat]
         /\ channel' \in Seq(Commands) /\ Len(channel') <= Capacity
         /\ ChannelDistinct'
         /\ \A i \in 1..Len(channel') :
              /\ channel'[i] # Head(channel)
              /\ channel'[i] \in Commands
              /\ Pending(channel'[i])
<1> DEFINE h == Head(channel)
<1>1. channel \in Seq(Commands) /\ channel # <<>> /\ Len(channel) <= Capacity
  BY DEF IInv, TypeOK, AnswerHead
<1>2. h = channel[1] /\ h \in Commands /\ 1 \in 1..Len(channel)
  BY <1>1
<1>3. channel' = Tail(channel) /\ answers' = [answers EXCEPT ![h] = @ + 1]
  BY DEF AnswerHead
<1>4. answers[h] = 0 /\ answers \in [Commands -> Nat]
  BY <1>2 DEF IInv, ChannelPending, Pending, TypeOK
<1>5. channel' \in Seq(Commands) /\ Len(channel') = Len(channel) - 1
  BY <1>1, <1>3
<1>6. ASSUME NEW i \in 1..Len(channel')
      PROVE  /\ i + 1 \in 1..Len(channel)
             /\ channel'[i] = channel[i + 1]
             /\ channel'[i] \in Commands
  BY <1>1, <1>3, <1>5, <1>6
<1>7. ChannelDistinct'
  BY <1>5, <1>6 DEF IInv, ChannelDistinct
<1>8. ASSUME NEW i \in 1..Len(channel')
      PROVE  channel'[i] # h /\ Pending(channel'[i])
  BY <1>2, <1>5, <1>6 DEF IInv, ChannelDistinct, ChannelPending
<1>9. Capacity \in Nat /\ Len(channel) \in Nat
  BY <1>1, ChannelAssumption
<1> HIDE DEF h
<1>10. answers' = [answers EXCEPT ![h] = 1] /\ answers' \in [Commands -> Nat]
  BY <1>2, <1>3, <1>4
<1> QED BY <1>1, <1>2, <1>4, <1>5, <1>6, <1>7, <1>8, <1>9, <1>10 DEF h

-----------------------------------------------------------------------------
(* One lemma for the sender, one for the others                            *)

LEMMA SubmitKeeps ==
  ASSUME IInv, NEW c \in Commands, SubmitFind(c) \/ Submit(c)
  PROVE  IInv'
<1> USE DEF IInv, ChannelPending, Pending, UnsentUnknown, OneAnswer,
            DrainedWhenDone, AnswerMeansRun, Step, session
<1>1. CASE SubmitFind(c) \/ SubmitCheck(c) \/ SubmitRefused(c)
  <2>1. /\ UNCHANGED <<channel, answers, executed, state, done, managed, closer, tick>>
        /\ \/ pc[c] \in {"new", "check"} /\ pc' = [pc EXCEPT ![c] = "check"]
           \/ pc[c] \in {"check", "send"} /\ pc' = [pc EXCEPT ![c] = "send"]
           \/ pc[c] \in {"check", "send"} /\ pc' = [pc EXCEPT ![c] = "refused"]
    BY <1>1 DEF SubmitFind, SubmitCheck, SubmitRefused
  <2>2. TypeOK' /\ ChannelDistinct'
    BY <2>1 DEF TypeOK, ChannelDistinct
  <2>3. ChannelPending' /\ UnsentUnknown'
    BY <2>1 DEF TypeOK
  <2>4. OneAnswer' /\ DrainedWhenDone' /\ AnswerMeansRun'
    BY <2>1 DEF TypeOK
  <2>. QED  BY <2>2, <2>3, <2>4
<1>2. CASE SubmitSend(c)
  <2>1. /\ channel \in Seq(Commands) /\ Len(channel) < Capacity
        /\ pc[c] = "send" /\ pc' = [pc EXCEPT ![c] = "wait"]
        /\ channel' = Append(channel, c)
        /\ UNCHANGED <<answers, executed, state, done, managed, closer, tick>>
    BY <1>2 DEF SubmitSend, TypeOK
  <2>2. /\ channel' \in Seq(Commands) /\ Len(channel') = Len(channel) + 1
        /\ channel'[Len(channel) + 1] = c
        /\ \A i \in 1..Len(channel) : channel'[i] = channel[i]
    BY <2>1
  <2>3. \A i \in 1..Len(channel) : channel[i] # c /\ channel[i] \in Commands
    BY <2>1
  <2>4. Len(channel') <= Capacity /\ Len(channel) \in Nat
    BY <2>1, <2>2, ChannelAssumption
  <2>5. TypeOK'
    BY <2>1, <2>2, <2>4 DEF TypeOK
  <2>6. ChannelDistinct'
    <3> SUFFICES ASSUME NEW i \in 1..Len(channel'), NEW j \in 1..Len(channel'),
                        channel'[i] = channel'[j]
                 PROVE  i = j
      BY DEF ChannelDistinct
    <3>1. CASE i \in 1..Len(channel) /\ j \in 1..Len(channel)
      BY <2>2, <3>1 DEF ChannelDistinct
    <3>2. CASE i \notin 1..Len(channel) \/ j \notin 1..Len(channel)
      BY <2>2, <2>3, <2>4, <3>2
    <3> QED BY <3>1, <3>2
  <2>7. ChannelPending'
    <3> SUFFICES ASSUME NEW i \in 1..Len(channel') PROVE Pending(channel[i])'
      OBVIOUS
    <3>1. CASE i \in 1..Len(channel)
      BY <2>1, <2>2, <2>3, <3>1 DEF TypeOK
    <3>2. CASE i = Len(channel) + 1
      BY <2>1, <2>2, <3>2 DEF TypeOK
    <3> QED BY <2>2, <2>4, <3>1, <3>2
  <2>8. UnsentUnknown' /\ OneAnswer' /\ DrainedWhenDone' /\ AnswerMeansRun'
    BY <2>1 DEF TypeOK
  <2> QED BY <2>5, <2>6, <2>7, <2>8
<1>3. CASE SubmitAnswered(c)
  BY <1>3 DEF SubmitAnswered, TypeOK, ChannelDistinct
<1>4. CASE SubmitGivesUp(c)
  BY <1>4 DEF SubmitGivesUp, TypeOK, ChannelDistinct
<1> QED BY <1>1, <1>2, <1>3, <1>4 DEF Submit

LEMMA TickKeeps ==
  ASSUME IInv, TickStep
  PROVE  IInv'
<1>1. CASE TickBegin \/ TickCheck \/ TickEnds
  BY <1>1 DEF TickBegin, TickCheck, TickEnds, session, IInv, TypeOK,
              ChannelDistinct, ChannelPending, Pending, UnsentUnknown,
              OneAnswer, DrainedWhenDone, AnswerMeansRun
<1>2. CASE TickRuns
  <2> DEFINE h == Head(channel)
  <2>1. /\ AnswerHead /\ pc' = pc /\ executed' = executed \cup {h}
        /\ UNCHANGED <<state, done, managed, closer, tick>>
    BY <1>2 DEF TickRuns, AnswerHead, session
  <2>2. /\ h \in Commands
        /\ answers' = [answers EXCEPT ![h] = 1]
        /\ answers' \in [Commands -> Nat]
        /\ channel' \in Seq(Commands) /\ Len(channel') <= Capacity
        /\ ChannelDistinct'
        /\ \A i \in 1..Len(channel') :
             channel'[i] # h /\ channel'[i] \in Commands /\ Pending(channel'[i])
    BY <2>1, AnswerHeadKeeps
  <2>3. pc[h] \in {"wait", "refused"}
    BY <1>2 DEF TickRuns, AnswerHead, IInv, TypeOK, ChannelPending, Pending
  <2> HIDE DEF h
  <2>4. TypeOK'
    BY <2>1, <2>2 DEF IInv, TypeOK
  <2>5. ChannelPending'
    BY <2>1, <2>2 DEF IInv, TypeOK, ChannelPending, Pending
  <2>6. UnsentUnknown' /\ OneAnswer'
    BY <2>1, <2>2, <2>3 DEF IInv, TypeOK, UnsentUnknown, OneAnswer
  <2>7. DrainedWhenDone' /\ AnswerMeansRun'
    BY <2>1, <2>2 DEF IInv, TypeOK, DrainedWhenDone, AnswerMeansRun
  <2> QED BY <2>2, <2>4, <2>5, <2>6, <2>7 DEF IInv
<1> QED BY <1>1, <1>2 DEF TickStep

LEMMA EndKeeps ==
  ASSUME IInv, CloseBegin \/ ExpiryBegins \/ EndStep
  PROVE  IInv'
<1>1. CASE CloseBegin \/ CloseDone \/ CloseEnds
  BY <1>1 DEF CloseBegin, CloseDone, CloseEnds, IInv, TypeOK,
              ChannelDistinct, ChannelPending, Pending, UnsentUnknown,
              OneAnswer, DrainedWhenDone, AnswerMeansRun
<1>2. CASE ExpiryBegins \/ ExpiryRemoves \/ ExpiryEnds
  BY <1>2 DEF ExpiryBegins, ExpiryRemoves, ExpiryEnds, IInv, TypeOK,
              ChannelDistinct, ChannelPending, Pending, UnsentUnknown,
              OneAnswer, DrainedWhenDone, AnswerMeansRun
<1>3. CASE CloseFails
  <2> DEFINE h == Head(channel)
  <2>1. /\ AnswerHead /\ pc' = pc /\ executed' = executed
        /\ UNCHANGED <<state, done, managed, closer, tick>>
    BY <1>3 DEF CloseFails, AnswerHead, session
  <2>2. done
    BY <1>3 DEF CloseFails, IInv, DrainedWhenDone
  <2>3. /\ h \in Commands
        /\ answers' = [answers EXCEPT ![h] = 1]
        /\ answers' \in [Commands -> Nat]
        /\ channel' \in Seq(Commands) /\ Len(channel') <= Capacity
        /\ ChannelDistinct'
        /\ \A i \in 1..Len(channel') :
             channel'[i] # h /\ channel'[i] \in Commands /\ Pending(channel'[i])
    BY <2>1, AnswerHeadKeeps
  <2>4. pc[h] \in {"wait", "refused"}
    BY <1>3 DEF CloseFails, AnswerHead, IInv, TypeOK, ChannelPending, Pending
  <2> HIDE DEF h
  <2>5. TypeOK'
    BY <2>1, <2>3 DEF IInv, TypeOK
  <2>6. ChannelPending'
    BY <2>1, <2>3 DEF IInv, TypeOK, ChannelPending, Pending
  <2>7. UnsentUnknown' /\ OneAnswer'
    BY <2>1, <2>3, <2>4 DEF IInv, TypeOK, UnsentUnknown, OneAnswer
  <2>8. DrainedWhenDone' /\ AnswerMeansRun'
    BY <2>1, <2>2 DEF IInv, DrainedWhenDone, AnswerMeansRun
  <2> QED BY <2>3, <2>5, <2>6, <2>7, <2>8 DEF IInv
<1> QED BY <1>1, <1>2, <1>3 DEF EndStep

-----------------------------------------------------------------------------
(* The theorems about CommandChannel                                       *)

LEMMA Inductive == Spec => []IInv
<1>1. Init => IInv
  <2> SUFFICES ASSUME Init PROVE IInv
    OBVIOUS
  <2>1. done \in BOOLEAN /\ managed \in BOOLEAN
    BY Zenon DEF Init
  <2>2. TypeOK
    BY <2>1, ChannelAssumption DEF Init, TypeOK
  <2>3. /\ ChannelDistinct /\ ChannelPending
        /\ UnsentUnknown /\ OneAnswer
        /\ DrainedWhenDone /\ AnswerMeansRun
    BY DEF Init, ChannelDistinct, ChannelPending, UnsentUnknown, OneAnswer,
           DrainedWhenDone, AnswerMeansRun
  <2> QED BY <2>2, <2>3 DEF IInv
<1>2. IInv /\ [Next]_vars => IInv'
  <2> SUFFICES ASSUME IInv, [Next]_vars PROVE IInv'
    OBVIOUS
  <2>1. CASE UNCHANGED vars
    BY <2>1 DEF vars, session, IInv, TypeOK, ChannelDistinct, ChannelPending,
                Pending, UnsentUnknown, OneAnswer, DrainedWhenDone,
                AnswerMeansRun
  <2>2. CASE Next
    BY <2>2, SubmitKeeps, TickKeeps, EndKeeps DEF Next
  <2> QED BY <2>1, <2>2
<1> QED BY <1>1, <1>2, PTL DEF Spec

\* The buffer of one answer per command is never full when the tick loop or
\* Close answers: neither of them blocks, in whatever order they drain.
THEOREM AnswersAlwaysFit == Spec => []AnswersFit
<1>1. IInv => AnswersFit
  BY DEF IInv, OneAnswer, ChannelPending, Pending, AnswersFit
<1> QED BY <1>1, Inductive, PTL

\* A client that is answered before the session is closed had its command run.
THEOREM AnswersAreResults == Spec => []AnsweredWasRun
<1>1. IInv => AnsweredWasRun
  BY DEF IInv, AnswerMeansRun, AnsweredWasRun
<1> QED BY <1>1, Inductive, PTL

-----------------------------------------------------------------------------
(* ClientStream: the messages of a sequence that can be serialized         *)

Below == {x \in Nat \X Nat : x[1] < x[2]}

\* A set of numbers that is not empty has a least element.
LEMMA LeastElement ==
  ASSUME NEW T, T \subseteq Nat, T # {}
  PROVE  \E x \in T : \A y \in T : x <= y
<1>1. IsWellFoundedOn(Below, Nat)
  BY NatLessThanWellFounded DEF OpToRel, Below
<1>2. PICK x \in T : \A y \in T : ~(<<y, x>> \in Below)
  BY <1>1, WFMin
<1>3. ASSUME NEW y \in T PROVE x <= y
  <2>1. ~(y < x)
    BY <1>2 DEF Below
  <2>2. x \in Nat /\ y \in Nat
    OBVIOUS
  <2>. QED  BY <2>1, <2>2
<1>. QED  BY <1>3

\* f holds, for each of the first m places of s, the part of s up to there
\* that can be serialized.
Serializing(s, m, f) == f = [n \in 0..m |-> Stream!SerializedStep(s, f, n)]

\* The recursion has a solution.
LEMMA SerializingExists ==
  ASSUME NEW s, NEW N \in Nat
  PROVE  \E f : Serializing(s, N, f)
<1> DEFINE Stuck == {m \in Nat : ~\E f : Serializing(s, m, f)}
<1>. SUFFICES ASSUME Stuck # {} PROVE FALSE
  OBVIOUS
<1>1. PICK m \in Stuck : \A k \in Stuck : m <= k
  <2>1. Stuck \subseteq Nat
    OBVIOUS
  <2> HIDE DEF Stuck
  <2>. QED  BY <2>1, LeastElement
<1>2. m \in Nat /\ ~\E f : Serializing(s, m, f)
  BY <1>1
<1>3. CASE m = 0
  <2> DEFINE f == [n \in 0..m |-> <<>>]
  <2>1. \A n \in 0..m : Stream!SerializedStep(s, f, n) = <<>>
    BY <1>3 DEF Stream!SerializedStep
  <2>2. f = [n \in 0..m |-> Stream!SerializedStep(s, f, n)]
    BY <2>1
  <2>. QED  BY <1>2, <2>2 DEF Serializing
<1>4. CASE m > 0
  <2>1. m - 1 \in Nat /\ m - 1 \notin Stuck
    <3>1. m - 1 \in Nat
      BY <1>2, <1>4
    <3> HIDE DEF Stuck
    <3>. QED  BY <1>1, <1>2, <3>1
  <2>2. PICK f : Serializing(s, m - 1, f)
    BY <2>1
  <2> DEFINE last == Stream!SerializedStep(s, f, m)
             g == [n \in 0..m |-> IF n = m THEN last ELSE f[n]]
  <2>3. ASSUME NEW n \in 0..m PROVE g[n] = Stream!SerializedStep(s, g, n)
    <3>1. n > 0 => g[n - 1] = f[n - 1]
      BY <1>2
    <3>2. Stream!SerializedStep(s, g, n) = Stream!SerializedStep(s, f, n)
      BY <3>1 DEF Stream!SerializedStep
    <3>3. n # m => f[n] = Stream!SerializedStep(s, f, n)
      BY <1>2, <2>2 DEF Serializing
    <3>. QED  BY <3>2, <3>3
  <2>4. g = [n \in 0..m |-> Stream!SerializedStep(s, g, n)]
    BY <2>3
  <2> HIDE DEF g
  <2>. QED  BY <1>2, <2>4 DEF Serializing
<1>. QED  BY <1>2, <1>3, <1>4

\* Serialized(s) is the last of them.
LEMMA SerializedIsLast ==
  ASSUME NEW s, Len(s) \in Nat
  PROVE  \E f : Serializing(s, Len(s), f) /\ Stream!Serialized(s) = f[Len(s)]
<1> DEFINE f == CHOOSE g : Serializing(s, Len(s), g)
<1>1. Stream!Serialized(s) = f[Len(s)]
  BY DEF Stream!Serialized, Serializing
<1>2. Serializing(s, Len(s), f)
  BY SerializingExists
<1> HIDE DEF f
<1>. QED  BY <1>1, <1>2

LEMMA SerializedNone == Stream!Serialized(<<>>) = <<>>
<1>1. Len(<<>>) = 0
  OBVIOUS
<1>2. PICK f : /\ Serializing(<<>>, 0, f)
               /\ Stream!Serialized(<<>>) = f[0]
  BY <1>1, SerializedIsLast
<1>3. f[0] = Stream!SerializedStep(<<>>, f, 0)
  BY <1>2 DEF Serializing
<1>. QED  BY <1>2, <1>3 DEF Stream!SerializedStep

\* One message more: it comes last, or not at all.
LEMMA SerializedAppend ==
  ASSUME NEW s \in Seq(Messages), NEW m \in Messages
  PROVE  Stream!Serialized(Append(s, m)) =
           IF m \in Marshals THEN Append(Stream!Serialized(s), m)
           ELSE Stream!Serialized(s)
<1> DEFINE n == Len(s)
           t == Append(s, m)
<1>1. /\ n \in Nat /\ Len(t) = n + 1 /\ t[n + 1] = m
      /\ \A i \in 1..n : t[i] = s[i]
  OBVIOUS
<1>2. PICK f : Serializing(s, n, f) /\ Stream!Serialized(s) = f[n]
  BY <1>1, SerializedIsLast
<1>3. PICK g : Serializing(t, n + 1, g) /\ Stream!Serialized(t) = g[n + 1]
  <2>1. Len(t) \in Nat
    BY <1>1
  <2>. QED  BY <1>1, <2>1, SerializedIsLast
<1> HIDE DEF n, t
<1>4. \A k \in 0..n : f[k] = Stream!SerializedStep(s, f, k)
  BY <1>1, <1>2 DEF Serializing
<1>5. \A k \in 0..(n + 1) : g[k] = Stream!SerializedStep(t, g, k)
  BY <1>1, <1>3 DEF Serializing
<1> DEFINE Differ == {k \in 0..n : f[k] # g[k]}
<1>6. Differ = {}
  <2>. SUFFICES ASSUME Differ # {} PROVE FALSE
    OBVIOUS
  <2>1. PICK k \in Differ : \A j \in Differ : k <= j
    <3>1. Differ \subseteq Nat
      BY <1>1
    <3> HIDE DEF Differ
    <3>. QED  BY <3>1, LeastElement
  <2>2. k \in 0..n /\ f[k] # g[k]
    OBVIOUS
  <2>3. k > 0 => f[k - 1] = g[k - 1]
    <3>. SUFFICES ASSUME k > 0 PROVE k - 1 \in 0..n /\ k - 1 \notin Differ
      OBVIOUS
    <3>1. k - 1 \in 0..n /\ ~(k <= k - 1)
      BY <1>1, <2>2
    <3> HIDE DEF Differ
    <3>. QED  BY <2>1, <3>1
  <2>4. k > 0 => s[k] = t[k]
    BY <1>1, <2>2
  <2>5. f[k] = Stream!SerializedStep(s, f, k) /\ g[k] = Stream!SerializedStep(t, g, k)
    BY <1>1, <1>4, <1>5, <2>2
  <2>6. Stream!SerializedStep(s, f, k) = Stream!SerializedStep(t, g, k)
    BY <1>1, <2>2, <2>3, <2>4 DEF Stream!SerializedStep
  <2>. QED  BY <2>2, <2>5, <2>6
<1>7. f[n] = g[n]
  BY <1>1, <1>6
<1>8. g[n + 1] = IF m \in Marshals THEN Append(g[n], m) ELSE g[n]
  <2>1. n + 1 \in 0..(n + 1) /\ n + 1 # 0 /\ (n + 1) - 1 = n
    BY <1>1
  <2>. QED  BY <1>1, <1>5, <2>1 DEF Stream!SerializedStep
<1>. QED  BY <1>2, <1>3, <1>7, <1>8 DEF t

LEMMA SerializedType ==
  ASSUME NEW s \in Seq(Messages)
  PROVE  Stream!Serialized(s) \in Seq(Messages)
<1> DEFINE Wrong == {n \in Nat : \E t \in Seq(Messages) :
                       Len(t) = n /\ Stream!Serialized(t) \notin Seq(Messages)}
<1>1. Wrong = {}
  <2>. SUFFICES ASSUME Wrong # {} PROVE FALSE
    OBVIOUS
  <2>1. PICK n \in Wrong : \A k \in Wrong : n <= k
    <3>1. Wrong \subseteq Nat
      OBVIOUS
    <3> HIDE DEF Wrong
    <3>. QED  BY <3>1, LeastElement
  <2>2. PICK t \in Seq(Messages) :
          Len(t) = n /\ Stream!Serialized(t) \notin Seq(Messages)
    OBVIOUS
  <2>3. t # <<>>
    BY <2>2, SerializedNone
  <2>4. PICK u \in Seq(Messages), m \in Messages : t = Append(u, m)
    BY <2>3, SequenceEmptyOrAppend
  <2>5. Len(u) \in Nat /\ ~(n <= Len(u))
    BY <2>2, <2>4
  <2>6. Stream!Serialized(u) \in Seq(Messages)
    <3>1. Len(u) \notin Wrong
      <4> HIDE DEF Wrong
      <4>. QED  BY <2>1, <2>5
    <3>. QED  BY <2>5, <3>1
  <2>7. Stream!Serialized(t) = IF m \in Marshals THEN Append(Stream!Serialized(u), m)
                             ELSE Stream!Serialized(u)
    BY <2>4, SerializedAppend
  <2>8. Append(Stream!Serialized(u), m) \in Seq(Messages)
    BY <2>6, AppendProperties
  <2>. QED  BY <2>2, <2>6, <2>7, <2>8
<1>. QED  BY <1>1, LenProperties

\* u is a beginning of v.
Begins(u, v) == Len(u) <= Len(v) /\ \A i \in 1..Len(u) : u[i] = v[i]

\* More messages leave what is serialized of the first ones as it is.
LEMMA SerializedGrows ==
  ASSUME NEW s \in Seq(Messages), NEW t \in Seq(Messages)
  PROVE  Begins(Stream!Serialized(s), Stream!Serialized(s \o t))
<1> DEFINE Wrong == {n \in Nat : \E w \in Seq(Messages) :
                       /\ Len(w) = n
                       /\ ~Begins(Stream!Serialized(s), Stream!Serialized(s \o w))}
<1>1. Wrong = {}
  <2>. SUFFICES ASSUME Wrong # {} PROVE FALSE
    OBVIOUS
  <2>1. PICK n \in Wrong : \A k \in Wrong : n <= k
    <3>1. Wrong \subseteq Nat
      OBVIOUS
    <3> HIDE DEF Wrong
    <3>. QED  BY <3>1, LeastElement
  <2>2. PICK w \in Seq(Messages) :
          Len(w) = n /\ ~Begins(Stream!Serialized(s), Stream!Serialized(s \o w))
    OBVIOUS
  <2>3. Stream!Serialized(s) \in Seq(Messages)
    BY SerializedType
  <2>4. w # <<>>
    <3>1. Begins(Stream!Serialized(s), Stream!Serialized(s))
      BY <2>3 DEF Begins
    <3>2. s \o <<>> = s
      BY ConcatEmptySeq
    <3>. QED  BY <2>2, <3>1, <3>2
  <2>5. PICK u \in Seq(Messages), m \in Messages : w = Append(u, m)
    BY <2>4, SequenceEmptyOrAppend
  <2>6. Len(u) \in Nat /\ ~(n <= Len(u))
    BY <2>2, <2>5
  <2>7. Begins(Stream!Serialized(s), Stream!Serialized(s \o u))
    <3>1. Len(u) \notin Wrong
      <4> HIDE DEF Wrong
      <4>. QED  BY <2>1, <2>6
    <3>. QED  BY <2>6, <3>1
  <2>8. s \o w = Append(s \o u, m) /\ s \o u \in Seq(Messages)
    <3>1. s \o u \in Seq(Messages) /\ s \o w \in Seq(Messages)
      OBVIOUS
    <3>2. Append(s \o u, m) \in Seq(Messages) /\ Len(Append(s \o u, m)) = Len(s \o w)
      BY <2>5
    <3>3. \A i \in 1..Len(s \o w) : (s \o w)[i] = Append(s \o u, m)[i]
      BY <2>5
    <3>. QED  BY <3>1, <3>2, <3>3, SeqEqual
  <2>9. Stream!Serialized(s \o u) \in Seq(Messages)
    BY <2>8, SerializedType
  <2> DEFINE old == Stream!Serialized(s \o u)
  <2>10. Stream!Serialized(s \o w) = IF m \in Marshals THEN Append(old, m) ELSE old
    BY <2>8, SerializedAppend
  <2> HIDE DEF old
  <2>11. Begins(Stream!Serialized(s), Append(old, m))
    BY <2>3, <2>7, <2>9 DEF Begins, old
  <2>. QED  BY <2>2, <2>7, <2>10, <2>11 DEF old
<1>. QED  BY <1>1, LenProperties

-----------------------------------------------------------------------------
(* WsHub: the inductive invariant                                          *)

HubTypeInv ==
  /\ offered \in [Conns -> Seq(Messages)] /\ received \in [Conns -> Seq(Messages)]
  /\ send \in [Conns -> Seq(Messages)]
  /\ writer \in [Conns -> Messages \cup {"none", "select", "exited"}]
  /\ stage \in [Conns -> {"new", "upgraded", "connect", "read", "dispatch", "join",
                         "disconnect", "uncount", "gone"}]

\* The writer is started once: none writes before.
Unstarted ==
  \A c \in Conns : stage[c] \in {"new", "upgraded", "connect"} => writer[c] = "none"

\* The message a writer has at hand.
AtHand(w) == IF w \in Messages THEN <<w>> ELSE <<>>

\* What was offered is what the writer took, then what the buffer holds; what
\* the writer took and could serialize has been sent, but for the one at hand.
\* So it is until the connection is closed.
Passing(acc, buffer, rec, w) ==
  \E taken \in Seq(Messages) :
    /\ acc = taken \o buffer
    /\ Stream!Serialized(taken) = rec \o AtHand(w)

NothingLost ==
  \A c \in Conns :
    c \notin closed => Passing(offered[c], send[c], received[c], writer[c])

HubInv == HubTypeInv /\ Unstarted /\ NothingLost

-----------------------------------------------------------------------------
(* What the steps do to the messages of one connection                     *)

LEMMA PassingSend ==
  ASSUME NEW acc \in Seq(Messages), NEW buffer \in Seq(Messages), NEW rec, NEW w,
         NEW m \in Messages, Passing(acc, buffer, rec, w)
  PROVE  Passing(Append(acc, m), Append(buffer, m), rec, w)
<1>1. PICK taken \in Seq(Messages) :
        acc = taken \o buffer /\ Stream!Serialized(taken) = rec \o AtHand(w)
  BY DEF Passing
<1>2. Append(acc, m) = taken \o Append(buffer, m)
  <2>1. /\ Append(acc, m) = acc \o <<m>> /\ Append(buffer, m) = buffer \o <<m>>
        /\ <<m>> \in Seq(Messages)
    BY AppendIsConcat
  <2>. QED  BY <1>1, <2>1, ConcatAssociative
<1>. QED  BY <1>1, <1>2 DEF Passing

LEMMA PassingTake ==
  ASSUME NEW acc, NEW buffer \in Seq(Messages), NEW rec \in Seq(Messages), NEW w,
         w \notin Messages, buffer # <<>>, Passing(acc, buffer, rec, w)
  PROVE  Passing(acc, Tail(buffer), rec,
                 IF Head(buffer) \in Marshals THEN Head(buffer) ELSE w)
<1> DEFINE h == Head(buffer)
<1>1. PICK taken \in Seq(Messages) :
        acc = taken \o buffer /\ Stream!Serialized(taken) = rec \o AtHand(w)
  BY DEF Passing
<1>2. h \in Messages /\ Tail(buffer) \in Seq(Messages) /\ <<h>> \in Seq(Messages)
  OBVIOUS
<1>3. buffer = <<h>> \o Tail(buffer)
  <2>1. <<h>> \o Tail(buffer) \in Seq(Messages)
    BY <1>2, ConcatProperties
  <2>2. /\ Len(<<h>> \o Tail(buffer)) = Len(buffer)
        /\ \A i \in 1..Len(buffer) : buffer[i] = (<<h>> \o Tail(buffer))[i]
    BY <1>2
  <2>. QED  BY <2>1, <2>2, SeqEqual
<1>4. Append(taken, h) = taken \o <<h>> /\ Append(taken, h) \in Seq(Messages)
  BY <1>2, AppendIsConcat, AppendProperties
<1> HIDE DEF h
<1>5. acc = Append(taken, h) \o Tail(buffer)
  <2>1. (taken \o <<h>>) \o Tail(buffer) = taken \o (<<h>> \o Tail(buffer))
    BY <1>2, ConcatAssociative
  <2>. QED  BY <1>1, <1>3, <1>4, <2>1
<1>6. Stream!Serialized(taken) = rec
  BY <1>1, ConcatEmptySeq DEF AtHand
<1>7. Stream!Serialized(Append(taken, h)) = IF h \in Marshals THEN Append(rec, h) ELSE rec
  BY <1>2, <1>6, SerializedAppend
<1>8. Append(rec, h) = rec \o AtHand(h)
  BY <1>2, AppendIsConcat DEF AtHand
<1>9. rec = rec \o AtHand(w)
  BY <1>1, <1>6
<1>10. Stream!Serialized(Append(taken, h)) = rec \o AtHand(IF h \in Marshals THEN h ELSE w)
  BY <1>7, <1>8, <1>9
<1>. QED  BY <1>4, <1>5, <1>10 DEF Passing, h

LEMMA PassingWrite ==
  ASSUME NEW acc, NEW buffer \in Seq(Messages), NEW rec \in Seq(Messages),
         NEW w \in Messages, NEW v, v \notin Messages, Passing(acc, buffer, rec, w)
  PROVE  /\ Passing(acc, buffer, Append(rec, w), v)
         /\ Len(rec) < Len(Stream!Serialized(acc))
         /\ Stream!Serialized(acc)[Len(rec) + 1] = w
<1>1. PICK taken \in Seq(Messages) :
        acc = taken \o buffer /\ Stream!Serialized(taken) = rec \o AtHand(w)
  BY DEF Passing
<1>2. Stream!Serialized(taken) = Append(rec, w) /\ Append(rec, w) \in Seq(Messages)
  BY <1>1, AppendIsConcat, AppendProperties DEF AtHand
<1>3. Append(rec, w) = Append(rec, w) \o AtHand(v)
  BY <1>2, ConcatEmptySeq DEF AtHand
<1>4. Passing(acc, buffer, Append(rec, w), v)
  BY <1>1, <1>2, <1>3 DEF Passing
<1>5. Begins(Append(rec, w), Stream!Serialized(acc))
  BY <1>1, <1>2, SerializedGrows
<1>6. acc \in Seq(Messages)
  BY <1>1, ConcatProperties
<1>7. Len(Stream!Serialized(acc)) \in Nat
  BY <1>6, SerializedType
<1>. QED  BY <1>4, <1>5, <1>7 DEF Begins

-----------------------------------------------------------------------------
(* The steps                                                               *)

\* The steps that leave the messages, the writers and the stages alone or only
\* let the writer of a closed connection exit, ...
LEMMA OthersKeep ==
  ASSUME HubInv,
         UNCHANGED <<offered, received, send>>,
         closed' = closed \/ \E d \in Conns : closed' = closed \cup {d},
         NEW c \in Conns,
         \/ UNCHANGED <<stage, writer>>
         \/ /\ UNCHANGED stage /\ writer[c] # "none" /\ c \in closed'
            /\ writer' = [writer EXCEPT ![c] = "exited"]
         \/ UNCHANGED writer /\ \/ Goes(c, "new", "upgraded") \/ Goes(c, "upgraded", "connect")
                                \/ Goes(c, "upgraded", "gone") \/ Goes(c, "read", "dispatch")
                                \/ Goes(c, "dispatch", "read") \/ Goes(c, "read", "join")
                                \/ Goes(c, "join", "disconnect")
                                \/ Goes(c, "disconnect", "uncount")
                                \/ Goes(c, "uncount", "gone")
  PROVE  HubInv' /\ [Stream!Next]_(Stream!streamVars)
<1>1. HubTypeInv'
  BY DEF HubInv, HubTypeInv, Goes
<1>2. Unstarted'
  BY DEF HubInv, HubTypeInv, Unstarted, Goes
<1>3. \A d \in Conns : d \notin closed' => d \notin closed /\ writer'[d] = writer[d]
  BY DEF HubInv, HubTypeInv
<1>4. NothingLost'
  BY <1>3 DEF HubInv, NothingLost
<1>5. [Stream!Next]_(Stream!streamVars)
  BY DEF Stream!Next, Stream!Cut, Stream!streamVars
<1>. QED  BY <1>1, <1>2, <1>4, <1>5 DEF HubInv

\* ... the start of the writer, ...
LEMMA CountedKeeps ==
  ASSUME HubInv, NEW c \in Conns, Counted(c)
  PROVE  HubInv' /\ UNCHANGED Stream!streamVars
<1>1. /\ UNCHANGED <<offered, received, send, closed>>
      /\ stage[c] = "connect" /\ stage' = [stage EXCEPT ![c] = "read"]
      /\ writer' = [writer EXCEPT ![c] = "select"]
  BY DEF Counted, Goes
<1>2. writer[c] = "none"
  BY <1>1 DEF HubInv, Unstarted
<1>3. HubTypeInv'
  BY <1>1 DEF HubInv, HubTypeInv
<1>4. Unstarted'
  BY <1>1 DEF HubInv, HubTypeInv, Unstarted
<1>5. AtHand("none") = AtHand("select")
  BY WsHubAssumption DEF AtHand
<1>6. ASSUME NEW d \in Conns, d \notin closed'
      PROVE  Passing(offered'[d], send'[d], received'[d], writer'[d])
  <2>1. Passing(offered[d], send[d], received[d], writer[d])
    BY <1>1, <1>6 DEF HubInv, NothingLost
  <2>2. AtHand(writer'[d]) = AtHand(writer[d])
    BY <1>1, <1>2, <1>5 DEF HubInv, HubTypeInv
  <2>. QED  BY <1>1, <2>1, <2>2 DEF Passing
<1>. QED  BY <1>1, <1>3, <1>4, <1>6 DEF HubInv, NothingLost, Stream!streamVars

\* ... the two that offer a message, ...
LEMMA SendQueuesKeeps ==
  ASSUME HubInv, NEW c \in Conns, NEW m \in Messages, SendQueues(c, m)
  PROVE  HubInv' /\ (Stream!Offer(c, m) \/ UNCHANGED Stream!streamVars)
<1>1. /\ send' = [send EXCEPT ![c] = Append(@, m)]
      /\ offered' = IF c \in closed THEN offered
                    ELSE [offered EXCEPT ![c] = Append(@, m)]
      /\ UNCHANGED <<stage, writer, received, closed>>
  BY DEF SendQueues, serve
<1>2. HubTypeInv'
  BY <1>1 DEF HubInv, HubTypeInv
<1>3. Unstarted'
  BY <1>1 DEF HubInv, Unstarted
<1>4. ASSUME NEW d \in Conns, d \notin closed'
      PROVE  Passing(offered'[d], send'[d], received'[d], writer'[d])
  <2>1. Passing(offered[d], send[d], received[d], writer[d])
    BY <1>1, <1>4 DEF HubInv, NothingLost
  <2>2. CASE d = c
    BY <1>1, <1>4, <2>1, <2>2, PassingSend DEF HubInv, HubTypeInv
  <2>3. CASE d # c
    BY <1>1, <2>1, <2>3 DEF HubInv, HubTypeInv
  <2>. QED  BY <2>2, <2>3
<1>. QED  BY <1>1, <1>2, <1>3, <1>4 DEF HubInv, NothingLost, Stream!Offer, Stream!streamVars

LEMMA SendOverflowsKeeps ==
  ASSUME HubInv, NEW c \in Conns, NEW m \in Messages, SendOverflows(c, m)
  PROVE  HubInv' /\ Stream!Offer(c, m)
<1>1. /\ offered' = [offered EXCEPT ![c] = Append(@, m)]
      /\ closed' = closed \cup {c}
      /\ UNCHANGED <<stage, send, writer, received>>
  BY DEF SendOverflows, Close, serve
<1>2. HubTypeInv'
  BY <1>1 DEF HubInv, HubTypeInv
<1>3. Unstarted'
  BY <1>1 DEF HubInv, Unstarted
<1>4. NothingLost'
  BY <1>1 DEF HubInv, HubTypeInv, NothingLost
<1>. QED  BY <1>1, <1>2, <1>3, <1>4 DEF HubInv, Stream!Offer

\* ... and the two that move one.
LEMMA WriterTakesKeeps ==
  ASSUME HubInv, NEW c \in Conns, WriterTakes(c)
  PROVE  HubInv' /\ UNCHANGED Stream!streamVars
<1> DEFINE h == Head(send[c])
           w == IF h \in Marshals THEN h ELSE "select"
<1>1. /\ writer[c] = "select" /\ send[c] # <<>>
      /\ send' = [send EXCEPT ![c] = Tail(@)]
      /\ writer' = [writer EXCEPT ![c] = w]
      /\ UNCHANGED <<stage, offered, received, closed>>
  BY DEF WriterTakes, serve
<1>2. send[c] \in Seq(Messages) /\ received[c] \in Seq(Messages)
  BY DEF HubInv, HubTypeInv
<1>3. h \in Messages /\ Tail(send[c]) \in Seq(Messages) /\ "select" \notin Messages
  BY <1>1, <1>2, WsHubAssumption
<1>4. HubTypeInv'
  BY <1>1, <1>3 DEF HubInv, HubTypeInv
<1>5. Unstarted'
  BY <1>1 DEF HubInv, HubTypeInv, Unstarted
<1>6. c \notin closed => Passing(offered[c], Tail(send[c]), received[c], w)
  <2>1. c \notin closed => Passing(offered[c], send[c], received[c], "select")
    BY <1>1 DEF HubInv, NothingLost
  <2>. QED  BY <1>1, <1>2, <1>3, <2>1, PassingTake
<1> HIDE DEF w
<1>7. ASSUME NEW d \in Conns, d \notin closed'
      PROVE  Passing(offered'[d], send'[d], received'[d], writer'[d])
  <2>1. CASE d = c
    BY <1>1, <1>6, <1>7, <2>1 DEF HubInv, HubTypeInv
  <2>2. CASE d # c
    BY <1>1, <1>7, <2>2 DEF HubInv, HubTypeInv, NothingLost
  <2>. QED  BY <2>1, <2>2
<1>. QED  BY <1>1, <1>4, <1>5, <1>7 DEF HubInv, NothingLost, Stream!streamVars

LEMMA WriterWritesKeeps ==
  ASSUME HubInv, NEW c \in Conns, WriterWrites(c)
  PROVE  HubInv' /\ Stream!Receive(c)
<1>1. /\ writer[c] \in Messages /\ c \notin closed
      /\ received' = [received EXCEPT ![c] = Append(@, writer[c])]
      /\ writer' = [writer EXCEPT ![c] = "select"]
      /\ UNCHANGED <<stage, send, offered, closed>>
  BY DEF WriterWrites, Writing, serve
<1>2. /\ send[c] \in Seq(Messages) /\ received[c] \in Seq(Messages)
      /\ "select" \notin Messages /\ writer[c] \notin {"none", "exited"}
  BY <1>1, WsHubAssumption DEF HubInv, HubTypeInv
<1>3. HubTypeInv'
  BY <1>1 DEF HubInv, HubTypeInv
<1>4. Unstarted'
  BY <1>1, <1>2 DEF HubInv, HubTypeInv, Unstarted
<1>5. /\ Passing(offered[c], send[c], Append(received[c], writer[c]), "select")
      /\ Len(received[c]) < Len(Stream!Serialized(offered[c]))
      /\ Stream!Serialized(offered[c])[Len(received[c]) + 1] = writer[c]
  <2>1. Passing(offered[c], send[c], received[c], writer[c])
    BY <1>1 DEF HubInv, NothingLost
  <2>. QED  BY <1>1, <1>2, <2>1, PassingWrite
<1>6. ASSUME NEW d \in Conns, d \notin closed'
      PROVE  Passing(offered'[d], send'[d], received'[d], writer'[d])
  <2>1. CASE d = c
    BY <1>1, <1>5, <2>1 DEF HubInv, HubTypeInv
  <2>2. CASE d # c
    BY <1>1, <1>6, <2>2 DEF HubInv, HubTypeInv, NothingLost
  <2>. QED  BY <2>1, <2>2
<1>7. Stream!Receive(c)
  BY <1>1, <1>5 DEF Stream!Receive, Stream!Promised
<1>. QED  BY <1>3, <1>4, <1>6, <1>7 DEF HubInv, NothingLost

LEMMA HubNextKeeps ==
  ASSUME HubInv, HubNext
  PROVE  HubInv' /\ [Stream!Next]_(Stream!streamVars)
<1> DEFINE Kept == HubInv' /\ [Stream!Next]_(Stream!streamVars)
<1>1. ASSUME NEW c \in Conns, NEW u \in Users \cup {None}, Upgrade(c, u)
      PROVE  Kept
  BY <1>1, OthersKeep DEF Upgrade, line
<1>2. ASSUME NEW c \in Conns, Serving(c)
      PROVE  Kept
  BY <1>2, OthersKeep DEF Serving, Register, RegisterRefused, RunReturns, Uncount, line
<1>3. ASSUME NEW c \in Conns, CallbackReturns(c)
      PROVE  Kept
  BY <1>3, OthersKeep, CountedKeeps DEF CallbackReturns, HandlerReturns, Unregister, line
<1>4. ASSUME NEW c \in Conns, Dispatches(c) \/ ReadEnds(c) \/ PeerLeaves(c) \/ HubKicks(c)
      PROVE  Kept
  BY <1>4, OthersKeep DEF Dispatches, ReadEnds, PeerLeaves, HubKicks, Close, line, serve
<1>5. ASSUME NEW c \in Conns, WriterFails(c) \/ WriterStops(c)
      PROVE  Kept
  <2>1. /\ writer[c] # "none" /\ writer' = [writer EXCEPT ![c] = "exited"]
        /\ c \in closed' /\ (closed' = closed \/ closed' = closed \cup {c})
    BY <1>5, WsHubAssumption DEF WriterFails, WriterStops, Writing, Close
  <2>. QED  BY <1>5, <2>1, OthersKeep DEF WriterFails, WriterStops, serve
<1>6. ASSUME NEW c \in Conns, NEW old \in Conns, ConnectKicks(c, old)
      PROVE  Kept
  BY <1>6, OthersKeep DEF ConnectKicks, Close, line, serve
<1>7. ASSUME HubCloses \/ HubWaits \/ HubReturns
      PROVE  Kept
  <2>1. UNCHANGED <<stage, offered, received, send, writer, closed>>
    BY <1>7 DEF HubCloses, HubWaits, HubReturns, line, serve
  <2>. QED  BY <2>1 DEF HubInv, HubTypeInv, Unstarted, NothingLost, Stream!streamVars
<1>8. ASSUME NEW c \in Conns, NEW m \in Messages, SendQueues(c, m) \/ SendOverflows(c, m)
      PROVE  Kept
  BY <1>8, SendQueuesKeeps, SendOverflowsKeeps DEF Stream!Next
<1>9. ASSUME NEW c \in Conns, WriterTakes(c) \/ WriterWrites(c)
      PROVE  Kept
  BY <1>9, WriterTakesKeeps, WriterWritesKeeps DEF Stream!Next
<1>. QED  BY <1>1, <1>2, <1>3, <1>4, <1>5, <1>6, <1>7, <1>8, <1>9 DEF HubNext, HubStep

\* What the client of any connection is sent is a beginning of all that Send was
\* given for it while the connection was open, in order and without a gap: the
\* hub implements ClientStream, for any number of connections and users and any
\* size of the buffer.
THEOREM HubImplementsStream == HubSpec => ClientStreamSpec
<1>1. HubInit => HubInv /\ Stream!Init
  <2>. SUFFICES ASSUME HubInit PROVE HubInv /\ Stream!Init
    OBVIOUS
  <2>1. HubTypeInv
    BY DEF HubInit, HubTypeInv
  <2>2. Unstarted
    BY DEF HubInit, Unstarted
  <2>3. AtHand("none") = <<>>
    BY WsHubAssumption DEF AtHand
  <2>4. Passing(<<>>, <<>>, <<>>, "none")
    <3>1. <<>> \in Seq(Messages) /\ <<>> \o <<>> = <<>>
      BY EmptySeq, ConcatEmptySeq
    <3>. QED  BY <2>3, <3>1, SerializedNone DEF Passing
  <2>5. NothingLost
    BY <2>4 DEF HubInit, NothingLost
  <2>. QED  BY <2>1, <2>2, <2>5 DEF HubInit, HubInv, Stream!Init
<1>2. HubInv /\ [HubNext]_hubVars => HubInv' /\ [Stream!Next]_(Stream!streamVars)
  <2>. SUFFICES ASSUME HubInv, [HubNext]_hubVars
                PROVE  HubInv' /\ [Stream!Next]_(Stream!streamVars)
    OBVIOUS
  <2>1. CASE UNCHANGED hubVars
    BY <2>1 DEF hubVars, serve, line, HubInv, HubTypeInv, Unstarted, NothingLost,
                Stream!streamVars
  <2>. QED  BY <2>1, HubNextKeeps
<1>. QED  BY <1>1, <1>2, PTL DEF HubSpec, ClientStreamSpec, Stream!Spec

=============================================================================
