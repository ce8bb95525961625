---------------------------- MODULE QueueClient ----------------------------
(***************************************************************************)
(* The event queues together with the player's client: the marks by which  *)
(* queue changes get into a tick's diff (event/bucket.go), the snapshot a  *)
(* client gets when it connects (event/provider.go), and the list that the *)
(* client shows and sends indices of (applyStateFull and applyStateDiff in *)
(* stores/game.ts).                                                        *)
(*                                                                         *)
(* Every action is one of EventQueue and says what it marks.  A snapshot   *)
(* is read and sent in one step, not while Settle runs; torn and overtaken *)
(* ones are in PlayerState.  The progress of the head is left out.         *)
(***************************************************************************)
EXTENDS EventQueue, Functions

CONSTANTS
  Rank,     \* Rank[e]: the number of event e, by which snapshots are sorted
  NoClient

ASSUME QueueClientAssumption ==
  /\ Rank \in [Ids -> Nat]
  /\ NoClient \notin Seq(Ids)

VARIABLES
  marks,   \* queueBucket.marks of the round: "none", "current" or "full"
  shown,   \* the events in the client's list, or NoClient
  ordered  \* history: the list came in a diff, not in a snapshot

client     == <<marks, shown, ordered>>
clientVars == <<vars, client>>

NoMarks == [q \in QueueIds |-> "none"]

ClientInit == Init /\ marks = NoMarks /\ shown = NoClient /\ ordered = FALSE

-----------------------------------------------------------------------------
(* Marks                                                                   *)

\* Mutant: the mark made last replaces an earlier one.
MarkedLast(old, scope) == scope

\* markQueue: once the whole list is to be sent, it is.
Marked(old, scope) == IF old = "full" THEN "full" ELSE scope

Mark(q, scope) ==
  /\ marks' = [marks EXCEPT ![q] = Marked(@, scope)]
  /\ UNCHANGED <<shown, ordered>>

\* A cycle that ends an entry consumes it; other settled time is progress.
CyclesScope(q) == IF Len(queues'[q]) < Len(queues[q]) THEN "full" ELSE "current"

ClientCommand ==
  \/ \E q \in QueueIds, e \in Ids, t \in Targets :
       \/ QueueAppend(q, e, t) /\ Mark(q, "full")
       \/ QueueSet(q, <<e>>, t) /\ Mark(q, "full")
       \/ \E f \in Ids : QueueSet(q, <<e, f>>, t) /\ Mark(q, "full")
  \/ \E q \in QueueIds : QueueSet(q, <<>>, 0) /\ Mark(q, "full")
  \/ \E q \in QueueIds, i, j \in 1..MaxLen :
       \/ QueueRemove(q, i) /\ Mark(q, "full")
       \/ QueueMove(q, i, j) /\ Mark(q, "full")
  \/ \E e \in Events : ExecuteInstant(e) /\ UNCHANGED client

ClientSettle ==
  \/ \E q \in QueueIds :
       \/ SettleDrop(q) /\ Mark(q, "full")
       \/ SettleSwap(q) /\ Mark(q, "full")
       \/ SettleInstant(q) /\ Mark(q, "full")
       \/ SettleProgress(q) /\ Mark(q, "current")
       \/ SettleCycles(q) /\ Mark(q, CyclesScope(q))
       \/ (SettleNextQueue(q) \/ SettleQueueDone(q) \/ SettleBlocked(q)) /\ UNCHANGED client
  \/ SettleReturn /\ UNCHANGED client

-----------------------------------------------------------------------------
(* Messages                                                                *)

\* The client leaves out events its registry does not know.
Listed(s) ==
  Kept([i \in 1..Len(s) |-> s[i].ev], {i \in 1..Len(s) : s[i].ev \in Events})

\* The diff of the round: the client's only list becomes that of a queue sent
\* in full, the last one in Go's arbitrary map order.
ApplyDiff ==
  LET full == {q \in QueueIds : marks[q] = "full"}
  IN  IF shown = NoClient \/ full = {}
      THEN UNCHANGED <<shown, ordered>>
      ELSE ordered' = TRUE /\ \E q \in full : shown' = Listed(queues[q])

\* runTick pushes the diff, then the round is flushed.
PushAndFlush ==
  /\ RoundFlush
  /\ ApplyDiff
  /\ marks' = NoMarks

\* SerializeFull: the entries of all queues, sorted by queue and by event.
Places == UNION {{<<q, i>> : i \in 1..Len(queues[q])} : q \in QueueIds}

InOrder(x, y) ==
  \/ x[1] < y[1]
  \/ x[1] = y[1] /\ Rank[queues[x[1]][x[2]].ev] <= Rank[queues[y[1]][y[2]].ev]

Snapshots ==
  {f \in Bijection(1..Cardinality(Places), Places) :
     \A j, k \in DOMAIN f : j < k => InOrder(f[j], f[k])}

\* OnConnect: SendFullState.
Connect ==
  /\ phase # "settling"
  /\ \E f \in Snapshots :
       shown' = Listed([k \in DOMAIN f |-> queues[f[k][1]][f[k][2]]])
  /\ ordered' = FALSE
  /\ UNCHANGED <<vars, marks>>

Disconnect ==
  /\ shown # NoClient
  /\ shown' = NoClient /\ ordered' = FALSE
  /\ UNCHANGED <<vars, marks>>

\* A session ends, by expiry or with the server, and with it its recorder.
SessionEnds ==
  /\ GraceExpireAndReturn \/ CrashAndReturn
  /\ marks' = NoMarks /\ shown' = NoClient /\ ordered' = FALSE

ClientNext ==
  \/ ClientCommand
  \/ \E d \in Deltas :
       (TickInactive(d) \/ TickAdvance(d) \/ TickSettle(d)) /\ UNCHANGED client
  \/ ClientSettle
  \/ PushAndFlush
  \/ Connect \/ Disconnect \/ SessionEnds

ClientSpec == ClientInit /\ [][ClientNext]_clientVars

-----------------------------------------------------------------------------
(* Properties                                                              *)

Count(s, e) == Cardinality({i \in DOMAIN s : s[i] = e})

\* Between rounds a player with one queue is shown the events in it, each as
\* often as it is there, through commands, swaps, drops and cycles that end an
\* entry and through reconnects; in the order in which they will be executed
\* if the list came in a diff (markQueue, SerializeDiff, applyStateDiff).
ClientShowsQueue ==
  \A q \in QueueIds :
    QueueIds = {q} /\ shown # NoClient /\ phase = "idle" /\ marks = NoMarks =>
      /\ \A e \in Events : Count(shown, e) = Count(Listed(queues[q]), e)
      /\ ordered => shown = Listed(queues[q])

\* What the client shows is also what an index it sends means: the list is
\* the queue in Position order (provider.go says of the snapshot only that it
\* "serializes all entries").  It is not after a reconnect.
ClientShowsOrder ==
  \A q \in QueueIds :
    QueueIds = {q} /\ shown # NoClient /\ phase = "idle" /\ marks = NoMarks =>
      shown = Listed(queues[q])

=============================================================================
