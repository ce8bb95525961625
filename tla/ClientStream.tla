---------------------------- MODULE ClientStream ----------------------------
(***************************************************************************)
(* What connections promise: of the messages a connection was given, all   *)
(* of them, the client receives a beginning, in their order and without a  *)
(* gap but for those that cannot be serialized.  A connection that does    *)
(* not take a message on is cut off, and its client receives no more.      *)
(***************************************************************************)
EXTENDS Naturals, Sequences

CONSTANTS Conns, Messages, Marshals

VARIABLES
  offered,   \* offered[c]: what connection c was given while it was open
  received,  \* received[c]: what its client got
  closed     \* connections that have been cut off

\* The messages of s that can be serialized, in their order, for the first n
\* places, given those for fewer places.
SerializedStep(s, kept, n) ==
  IF n = 0 THEN <<>>
  ELSE IF s[n] \in Marshals THEN Append(kept[n - 1], s[n])
  ELSE kept[n - 1]

Serialized(s) ==
  LET kept[n \in 0..Len(s)] == SerializedStep(s, kept, n)
  IN  kept[Len(s)]

Promised(c) == Serialized(offered[c])

\* A message is taken on, or it is what the connection is cut off for.
Offer(c, m) ==
  /\ offered' = [offered EXCEPT ![c] = Append(@, m)]
  /\ closed' \in {closed, closed \cup {c}}
  /\ UNCHANGED received

Receive(c) ==
  /\ c \notin closed
  /\ Len(received[c]) < Len(Promised(c))
  /\ received' = [received EXCEPT ![c] = Append(@, Promised(c)[Len(@) + 1])]
  /\ UNCHANGED <<offered, closed>>

Cut(c) ==
  /\ closed' = closed \cup {c}
  /\ UNCHANGED <<offered, received>>

Init ==
  /\ offered = [c \in Conns |-> <<>>]
  /\ received = [c \in Conns |-> <<>>]
  /\ closed = {}

Next == \E c \in Conns : Receive(c) \/ Cut(c) \/ \E m \in Messages : Offer(c, m)

streamVars == <<offered, received, closed>>

Spec == Init /\ [][Next]_streamVars
=============================================================================
