----------------------------- MODULE EventQueue -----------------------------
(***************************************************************************)
(* The event queues of one player: backend/internal/event (state.go and    *)
(* settle.go), the queue handlers of cmd/server, and the way runTick and   *)
(* BatchFlush of internal/session drive them.                              *)
(*                                                                         *)
(* A queue is a list of entries.  The head is worked on by the tick: a     *)
(* loop event turns elapsed seconds into cycles that take material from    *)
(* the player's stock and give material back; an instant event runs once.  *)
(* An event whose gate is closed is swapped with the first later entry     *)
(* whose gate is open.  The queue is written to player_active_events, one  *)
(* row per Position, at the end of a tick round that changed something.    *)
(*                                                                         *)
(* Everything in a tick happens under the session's lock, so one loop      *)
(* iteration of settleQueue is one action here: it is what a call does     *)
(* next, not a step another thread can see.                                *)
(***************************************************************************)
EXTENDS Integers, Sequences, FiniteSets, SequencesExt

CONSTANTS
  Events,       \* the events of the game configuration
  UnknownIds,   \* event ids a client may send that no configured event has
  NoEvent,      \* event id 0: a cleared row of player_active_events
  QueueIds,     \* the queue ids in use
  Kind,         \* Kind[e] is "loop" or "instant" (upgrade events run alike)
  LoopTime,     \* seconds per cycle of a loop event, 0 when not positive
  Prereq,       \* the events that must be unlocked before e may run
  Cost,         \* material one cycle of e takes
  Yield,        \* material one cycle of e gives
  Targets,      \* target cycle counts a client asks for, -1 = infinite
  Deltas,       \* seconds that may pass between two rounds
  InitStock,    \* the player's material at the start
  MaxLen,       \* bound: entries per queue
  MaxPos,       \* bound: highest Position written to the table
  MaxTicks,     \* bound: tick rounds
  MaxCommands   \* bound: client commands

ASSUME EventsAssumption ==
  /\ IsFiniteSet(Events)
  /\ NoEvent \notin Events
  /\ UnknownIds \cap Events = {}
\* State.queues is a map: it holds finitely many queues.
ASSUME QueuesAssumption == IsFiniteSet(QueueIds)
ASSUME ConfigAssumption ==
  /\ Kind \in [Events -> {"loop", "instant"}]
  /\ LoopTime \in [Events -> Nat]
  /\ Prereq \in [Events -> SUBSET Events]
  /\ Cost \in [Events -> Nat]
  /\ Yield \in [Events -> Nat]
ASSUME InputAssumption ==
  /\ Targets \subseteq Int
  /\ Deltas \subseteq Nat \ {0}
  /\ InitStock \in Nat
  /\ MaxLen \in Nat /\ MaxPos \in Nat /\ MaxLen <= MaxPos + 1
  /\ MaxTicks \in Nat /\ MaxCommands \in Nat

VARIABLES
  queues,     \* State.queues: the entries of each queue
  dirty,      \* State.dirty: queues changed since the last flush
  stock,      \* inventory: material held
  unlocked,   \* bestiary: events that have been executed
  executed,   \* how many cycles of each event the player was credited with
  table,      \* the rows of player_active_events
  saved,      \* the rows holding stock, unlocked and executed
  phase,      \* where the tick round is: idle, settling or flush
  visit,      \* queues that Settle's range loop has not visited yet
  cur,        \* the queue settleQueue works on: {} or a singleton
  remaining,  \* seconds that Settle has still to distribute
  changed,    \* runTick saw a non-empty diff: the session will be flushed
  ticks,      \* tick rounds so far
  commands,   \* client commands so far
  elapsed,    \* history: seconds handed to the session
  spent       \* history: seconds' worth of cycles executed

world  == <<stock, unlocked, executed>>
settle == <<visit, cur, remaining>>
clock  == <<elapsed, spent>>
bounds == <<ticks, commands>>
store  == <<table, saved>>
vars == <<queues, dirty, world, store, phase, settle, changed, bounds, clock>>

Ids      == Events \cup UnknownIds
Entry    == [pos: Nat, ev: Ids, target: Int, progress: Nat]
Row      == [ev: Ids \cup {NoEvent}, target: Int, progress: Nat]
EmptyRow == [ev |-> NoEvent, target |-> 0, progress |-> 0]

-----------------------------------------------------------------------------
(* Operators on a queue                                                    *)

NewEntry(p, e, t) == [pos |-> p, ev |-> e, target |-> t, progress |-> 0]

Renumber(s, from) ==
  [i \in 1..Len(s) |-> IF i >= from THEN [s[i] EXCEPT !.pos = i - 1] ELSE s[i]]

\* The entries behind i shift down and are renumbered, those before i keep
\* the Position they have.
Consume(s, i) == Renumber(RemoveAt(s, i), i)

Move(s, f, t) == Renumber(InsertAt(RemoveAt(s, f), t, s[f]), 1)

Insert(s, i, e, t) == Renumber(InsertAt(s, i, NewEntry(0, e, t)), 1)

NextPos(s) == IF s = <<>> THEN 0 ELSE s[Len(s)].pos + 1

\* The two entries trade places; each keeps its own Position.
Swap(s, i) == [s EXCEPT ![1] = s[i], ![i] = s[1]]

Dense(s) == \A i \in 1..Len(s) : s[i].pos = i - 1

CheckReqs(e) == Prereq[e] \subseteq unlocked

HasActive == \E q \in QueueIds : queues[q] # <<>>

Configured(q) == queues[q] # <<>> /\ queues[q][1].ev \in Events

\* A loop event with a positive loop time.
Looping(e) == Kind[e] = "loop" /\ LoopTime[e] > 0

\* Mutant: the progress already made is not counted.
WillTriggerIgnoringProgress(d) ==
  \E q \in QueueIds :
    /\ Configured(q)
    /\ LET e == queues[q][1].ev IN
         \/ Kind[e] = "instant"
         \/ Looping(e) /\ (~CheckReqs(e) \/ d >= LoopTime[e])

WillTrigger(d) ==
  \E q \in QueueIds :
    /\ Configured(q)
    /\ LET e == queues[q][1].ev IN
         \/ Kind[e] = "instant"
         \/ /\ Looping(e)
            /\ \/ ~CheckReqs(e)
               \/ d + queues[q][1].progress >= LoopTime[e]

\* One second stands for the 1e-9 the code leaves below a full cycle.
Advanced(s, d) ==
  LET lt == LoopTime[s[1].ev]
      p  == s[1].progress + d
  IN  [s EXCEPT ![1].progress = IF p >= lt THEN lt - 1 ELSE p]

LoopCycles(h, d) == (d + h.progress) \div LoopTime[h.ev]

Least(a, b) == IF a <= b THEN a ELSE b

\* Mutant: the material held is not looked at.
AffordableOnCredit(h, d) ==
  IF h.target > 0 THEN Least(LoopCycles(h, d), h.target) ELSE LoopCycles(h, d)

\* The cycles settleLoop runs: elapsed time, target and material permitting.
Affordable(h, d) ==
  LET wanted == IF h.target > 0 THEN Least(LoopCycles(h, d), h.target)
                ELSE LoopCycles(h, d)
  IN  IF Cost[h.ev] = 0 THEN wanted ELSE Least(wanted, stock \div Cost[h.ev])

RowOf(e) == [ev |-> e.ev, target |-> e.target, progress |-> e.progress]

\* Mutant: the rows behind the queue are not cleared.
FlushRowsKeepingTail(rows, s) ==
  [p \in 0..MaxPos |->
     IF p < Len(s) THEN RowOf(s[p + 1]) ELSE rows[p]]

\* Entries are upserted in queue order, so the last one at a Position wins;
\* then every row from the last entry's Position + 1 on is cleared.
FlushRows(rows, s) ==
  [p \in 0..MaxPos |->
     IF p >= NextPos(s) THEN EmptyRow
     ELSE LET at == {i \in 1..Len(s) : s[i].pos = p}
          IN  IF at = {} THEN rows[p]
              ELSE RowOf(s[CHOOSE i \in at : \A j \in at : j <= i])]

\* The entry of the row at position p.
EntryAt(rows, p) ==
  [pos |-> p, ev |-> rows[p].ev, target |-> rows[p].target,
   progress |-> rows[p].progress]

\* The items of s at the places in keep, in their order, for the first n
\* places, given those for fewer places.
KeptStep(s, keep, kept, n) ==
  IF n = 0 THEN <<>>
  ELSE IF n \in keep THEN Append(kept[n - 1], s[n])
  ELSE kept[n - 1]

Kept(s, keep) ==
  LET kept[n \in 0..Len(s)] == KeptStep(s, keep, kept, n)
  IN  kept[Len(s)]

\* Load goes through the rows in Position order and skips the cleared ones.
LoadRows(rows) ==
  Kept([n \in 1..(MaxPos + 1) |-> EntryAt(rows, n - 1)],
       {n \in 1..(MaxPos + 1) : rows[n - 1].ev # NoEvent})

FlushTable ==
  [q \in QueueIds |->
     IF q \in dirty THEN FlushRows(table[q], queues[q]) ELSE table[q]]

World == [stock |-> stock, unlocked |-> unlocked, executed |-> executed]

-----------------------------------------------------------------------------
Init ==
  /\ queues = [q \in QueueIds |-> <<>>]
  /\ dirty = {}
  /\ stock = InitStock
  /\ unlocked = {}
  /\ executed = [e \in Events |-> 0]
  /\ table = [q \in QueueIds |-> [p \in 0..MaxPos |-> EmptyRow]]
  /\ saved = World
  /\ phase = "idle"
  /\ visit = {} /\ cur = {} /\ remaining = 0
  /\ changed = FALSE
  /\ ticks = 0 /\ commands = 0
  /\ elapsed = 0 /\ spent = 0

\* Mutant: the cost is taken once, not once per cycle.
CreditPayingOnce(e, n, c) ==
  /\ stock' = stock - c + n * Yield[e]
  /\ unlocked' = unlocked \cup {e}
  /\ executed' = [executed EXCEPT ![e] = @ + n]

\* The player is credited with n cycles of e, each costing c.
Credit(e, n, c) ==
  /\ stock' = stock - n * c + n * Yield[e]
  /\ unlocked' = unlocked \cup {e}
  /\ executed' = [executed EXCEPT ![e] = @ + n]

(***************************************************************************)
(* Client commands, drained at the start of runTick.                       *)
(***************************************************************************)
Edit(q, s) ==
  /\ phase = "idle"
  /\ commands < MaxCommands
  /\ commands' = commands + 1
  /\ queues' = [queues EXCEPT ![q] = s]
  /\ dirty' = dirty \cup {q}
  /\ changed' = TRUE
  /\ UNCHANGED <<world, store, phase, settle, ticks, clock>>

\* queue.append of a loop event or of an id the configuration does not know.
QueueAppend(q, e, t) ==
  /\ e \in Events => Kind[e] = "loop"
  /\ Len(queues[q]) < MaxLen
  /\ NextPos(queues[q]) <= MaxPos
  /\ Edit(q, Append(queues[q], NewEntry(NextPos(queues[q]), e, t)))

\* queue.append of an instant or upgrade event runs it at once.
ExecuteInstant(e) ==
  /\ phase = "idle"
  /\ commands < MaxCommands
  /\ Kind[e] = "instant"
  /\ CheckReqs(e)
  /\ commands' = commands + 1
  /\ Credit(e, 1, 0)
  /\ changed' = TRUE
  /\ UNCHANGED <<queues, dirty, store, phase, settle, ticks, clock>>

QueueRemove(q, i) ==
  /\ i \in 1..Len(queues[q])
  /\ Edit(q, Consume(queues[q], i))

QueueMove(q, f, t) ==
  /\ f \in 1..Len(queues[q]) /\ t \in 1..Len(queues[q])
  /\ f # t
  /\ Edit(q, Move(queues[q], f, t))

\* InsertEntry is exported but no handler calls it: only tests do.
InsertEntry(q, i, e, t) ==
  /\ i \in 1..(Len(queues[q]) + 1)
  /\ Len(queues[q]) < MaxLen
  /\ Edit(q, Insert(queues[q], i, e, t))

\* queue.set: the queue is cleared and the new entries appended one by one,
\* instant events among them.
QueueSet(q, es, t) ==
  /\ queues[q] # <<>> \/ es # <<>>
  /\ Len(es) <= MaxLen
  /\ Edit(q, [i \in 1..Len(es) |-> NewEntry(i - 1, es[i], t)])

(***************************************************************************)
(* runTick after the commands: nothing to do, the fast path, or Settle.    *)
(***************************************************************************)
Tick(d) ==
  /\ phase = "idle"
  /\ ticks < MaxTicks
  /\ ticks' = ticks + 1
  /\ elapsed' = elapsed + d
  /\ UNCHANGED <<dirty, world, store, changed, commands, spent>>

TickInactive(d) ==
  /\ Tick(d)
  /\ ~HasActive
  /\ phase' = "flush"
  /\ UNCHANGED <<queues, settle>>

TickAdvance(d) ==
  /\ Tick(d)
  /\ HasActive /\ ~WillTrigger(d)
  /\ queues' = [q \in QueueIds |->
                  IF Configured(q) /\ Looping(queues[q][1].ev)
                  THEN Advanced(queues[q], d) ELSE queues[q]]
  /\ phase' = "flush"
  /\ UNCHANGED settle

TickSettle(d) ==
  /\ Tick(d)
  /\ HasActive /\ WillTrigger(d)
  /\ visit' = QueueIds
  /\ remaining' = d
  /\ phase' = "settling"
  /\ UNCHANGED <<queues, cur>>

(***************************************************************************)
(* Settle: the range loop over the queues, in Go's arbitrary map order,    *)
(* and the iterations of settleQueue.                                      *)
(***************************************************************************)
SettleNextQueue(q) ==
  /\ phase = "settling" /\ cur = {}
  /\ q \in visit /\ remaining > 0
  /\ cur' = {q}
  /\ visit' = visit \ {q}
  /\ UNCHANGED <<queues, dirty, world, store, phase, remaining, changed,
                 bounds, clock>>

SettleReturn ==
  /\ phase = "settling" /\ cur = {}
  /\ visit = {} \/ remaining <= 0
  /\ phase' = "flush"
  /\ visit' = {} /\ remaining' = 0
  /\ UNCHANGED <<queues, dirty, world, cur, store, changed, bounds, clock>>

\* The for loop of settleQueue ends: no time or no entry left.
SettleQueueDone(q) ==
  /\ phase = "settling" /\ cur = {q}
  /\ remaining <= 0 \/ queues[q] = <<>>
  /\ cur' = {}
  /\ UNCHANGED <<queues, dirty, world, store, phase, visit, remaining,
                 changed, bounds, clock>>

\* An iteration of settleQueue's loop looks at the head of queue q.
AtHead(q) ==
  /\ phase = "settling" /\ cur = {q}
  /\ remaining > 0 /\ queues[q] # <<>>

\* Mutant: the change leaves no trace in the diff.
SettleToSilently(q, s) ==
  /\ queues' = [queues EXCEPT ![q] = s]
  /\ dirty' = dirty \cup {q}
  /\ UNCHANGED <<changed, store, phase, visit, cur, bounds, elapsed>>

\* What the iterations that change the queue share: s is the queue afterwards.
SettleTo(q, s) ==
  /\ queues' = [queues EXCEPT ![q] = s]
  /\ dirty' = dirty \cup {q}
  /\ changed' = TRUE
  /\ UNCHANGED <<store, phase, visit, cur, bounds, elapsed>>

\* Mutant: the gate is not checked.
RunnableUngated(e) == e \in Events

Runnable(e) == e \in Events /\ CheckReqs(e)

\* Unknown event id at the head, or a loop event without a loop time.
SettleDrop(q) ==
  /\ AtHead(q)
  /\ LET e == queues[q][1].ev IN
       \/ e \notin Events
       \/ Runnable(e) /\ Kind[e] = "loop" /\ LoopTime[e] = 0
  /\ SettleTo(q, Consume(queues[q], 1))
  /\ UNCHANGED <<world, remaining, spent>>

\* Mutant: any later entry is brought to the head.
SatisfiedAny(s) == 2..Len(s)

\* The later entries swapSatisfied may bring to the head.
Satisfied(s) == {i \in 2..Len(s) : Runnable(s[i].ev)}

SettleSwap(q) ==
  /\ AtHead(q)
  /\ Configured(q) /\ ~CheckReqs(queues[q][1].ev)
  /\ \E i \in Satisfied(queues[q]) :
       /\ \A j \in Satisfied(queues[q]) : i <= j
       /\ SettleTo(q, Swap(queues[q], i))
  /\ UNCHANGED <<world, remaining, spent>>

SettleBlocked(q) ==
  /\ AtHead(q)
  /\ Configured(q) /\ ~CheckReqs(queues[q][1].ev)
  /\ Satisfied(queues[q]) = {}
  /\ cur' = {}
  /\ UNCHANGED <<queues, dirty, world, store, phase, visit, remaining,
                 changed, bounds, clock>>

\* settleLoop without a full, affordable cycle: the time becomes progress.
SettleProgress(q) ==
  LET h == queues[q][1] IN
  /\ AtHead(q)
  /\ Runnable(h.ev) /\ Looping(h.ev)
  /\ Affordable(h, remaining) = 0
  /\ SettleTo(q, [queues[q] EXCEPT ![1].progress = @ + remaining])
  /\ remaining' = 0
  /\ UNCHANGED <<world, spent>>

AfterCycles(s, n) ==
  LET h == s[1] IN
  IF h.target > 0 /\ h.target <= n THEN Consume(s, 1)
  ELSE [s EXCEPT ![1].progress = @ + remaining - n * LoopTime[h.ev],
                 ![1].target = IF @ > 0 THEN @ - n ELSE @]

SettleCycles(q) ==
  LET h == queues[q][1]
      n == Affordable(h, remaining)
  IN
  /\ AtHead(q)
  /\ Runnable(h.ev) /\ Looping(h.ev)
  /\ n > 0
  /\ SettleTo(q, AfterCycles(queues[q], n))
  /\ Credit(h.ev, n, Cost[h.ev])
  /\ remaining' = remaining - n * LoopTime[h.ev]
  /\ spent' = spent + n * LoopTime[h.ev]

\* settleInstant: no cost is taken, whatever the event's requirements say.
SettleInstant(q) ==
  LET h == queues[q][1] IN
  /\ AtHead(q)
  /\ Runnable(h.ev) /\ Kind[h.ev] = "instant"
  /\ SettleTo(q, Consume(queues[q], 1))
  /\ Credit(h.ev, 1, 0)
  /\ UNCHANGED <<remaining, spent>>

SettleStep ==
  \/ SettleReturn
  \/ \E q \in QueueIds :
       \/ SettleNextQueue(q) \/ SettleQueueDone(q)
       \/ SettleDrop(q) \/ SettleSwap(q) \/ SettleBlocked(q)
       \/ SettleProgress(q) \/ SettleCycles(q) \/ SettleInstant(q)

(***************************************************************************)
(* The end of a round, the end of a session, and a crash of the server.    *)
(***************************************************************************)

\* BatchFlush: one transaction, in which this session takes part only if
\* runTick reported a change.
RoundFlush ==
  /\ phase = "flush"
  /\ phase' = "idle"
  /\ IF changed
     THEN /\ table' = FlushTable
          /\ saved' = World
          /\ dirty' = {}
     ELSE UNCHANGED <<store, dirty>>
  /\ changed' = FALSE
  /\ UNCHANGED <<queues, world, settle, bounds, clock>>

LoadFrom(tbl, w) ==
  /\ queues' = [q \in QueueIds |-> LoadRows(tbl[q])]
  /\ stock' = w.stock /\ unlocked' = w.unlocked /\ executed' = w.executed
  /\ dirty' = {}
  /\ changed' = FALSE
  /\ phase' = "idle"
  /\ visit' = {} /\ cur' = {} /\ remaining' = 0
  /\ UNCHANGED <<bounds, clock>>

\* Grace expiry runs FlushAll, which takes no lock: also between two steps of
\* a settlement, of which what is left goes with the session.  (What happens
\* within a step, and what the round of the old session writes after it, is
\* in TickFlush.)  The player's next connection loads the rows.
GraceExpireAndReturn ==
  /\ table' = FlushTable
  /\ saved' = World
  /\ LoadFrom(table', saved')

CrashAndReturn ==
  /\ LoadFrom(table, saved)
  /\ UNCHANGED store

Next ==
  \/ \E q \in QueueIds, e \in Ids, t \in Targets :
       \/ QueueAppend(q, e, t)
       \/ \E i \in 1..(MaxLen + 1) : InsertEntry(q, i, e, t)
       \/ QueueSet(q, <<e>>, t)
       \/ \E f \in Ids : QueueSet(q, <<e, f>>, t)
  \/ \E q \in QueueIds : QueueSet(q, <<>>, 0)
  \/ \E e \in Events : ExecuteInstant(e)
  \/ \E q \in QueueIds, i, j \in 1..MaxLen :
       QueueRemove(q, i) \/ QueueMove(q, i, j)
  \/ \E d \in Deltas : TickInactive(d) \/ TickAdvance(d) \/ TickSettle(d)
  \/ SettleStep
  \/ RoundFlush
  \/ GraceExpireAndReturn
  \/ CrashAndReturn

Spec == Init /\ [][Next]_vars

\* A call of Settle that has begun keeps running.
FairSpec == Spec /\ WF_vars(SettleStep)

-----------------------------------------------------------------------------
(* Invariants                                                              *)

TypeOK ==
  /\ queues \in [QueueIds -> Seq(Entry)]
  /\ dirty \subseteq QueueIds
  /\ stock \in Nat
  /\ unlocked \subseteq Events
  /\ executed \in [Events -> Nat]
  /\ table \in [QueueIds -> [0..MaxPos -> Row]]
  /\ saved \in [stock: Nat, unlocked: SUBSET Events, executed: [Events -> Nat]]
  /\ phase \in {"idle", "settling", "flush"}
  /\ visit \subseteq QueueIds /\ cur \subseteq QueueIds
  /\ remaining \in Int
  /\ changed \in BOOLEAN
  /\ ticks \in Nat /\ commands \in Nat
  /\ elapsed \in Nat /\ spent \in Nat

GatesOpen(w) ==
  \A e \in Events : w.executed[e] > 0 => {e} \cup Prereq[e] \subseteq w.unlocked

\* Whatever was ever executed, by a command, by the queue, after a swap or
\* before a reload, had its gate open and is itself unlocked - in memory and
\* in the rows a crash falls back to (settle.go CheckReqs, UnlockEvent).
GateRespected == GatesOpen(World) /\ GatesOpen(saved)

\* What one execution of e takes: instant events take nothing in the code.
Price(e) == IF Kind[e] = "loop" THEN Cost[e] ELSE 0

NetYield(e) == Yield[e] - Price(e)

Earned(w) == [e \in Events |-> w.executed[e] * NetYield(e)]

Balanced(w) == w.stock = InitStock + SumFunction(Earned(w))

\* Material is conserved across settling, flushing, expiry and crashes: what
\* the player holds, in memory and in the saved rows, is exactly what the
\* credited cycles took and gave (settleLoop, settleInstant, FlushAll).
StockLedger == Balanced(World) /\ Balanced(saved)

\* Memory and database agree between rounds: when no round has anything left
\* to flush, no queue is dirty and the saved world is the current one, so a
\* crash then loses only progress (tick.go: dirty = diff not empty).
RoundDurable ==
  phase = "idle" /\ ~changed => dirty = {} /\ saved = World

\* The rows of a clean queue are its entries: position by position, with
\* nothing behind the last one.  Only the head's progress may be ahead of its
\* row, by less than one cycle: the fast path does not mark the queue dirty.
\* Queues whose positions a swap has mixed up are excluded here.
TableMatchesQueue ==
  \A q \in QueueIds \ dirty :
    Dense(queues[q]) =>
      \A p \in 0..MaxPos :
        IF p >= Len(queues[q]) THEN table[q][p].ev = NoEvent
        ELSE LET e   == queues[q][p + 1]
                 r   == table[q][p]
                 lag == e.progress - r.progress
             IN  /\ r.ev = e.ev /\ r.target = e.target
                 /\ lag >= 0
                 /\ lag > 0 => p = 0 /\ e.ev \in Events /\ lag < LoopTime[e.ev]

-----------------------------------------------------------------------------
(* Action and liveness properties                                          *)

\* The fast path gives every loop at a head all the seconds of the round: its
\* cap just below a full cycle never takes any away, because WillTrigger has
\* sent every round that would reach the cap to Settle.
FastPathLosesNoTime ==
  [][phase = "idle" /\ phase' = "flush" =>
       \A q \in QueueIds :
         Configured(q) /\ Looping(queues[q][1].ev) =>
           queues'[q][1].progress = queues[q][1].progress + elapsed' - elapsed]_vars

\* A call of Settle returns: no sequence of swaps, drops and zero-time events
\* keeps settleQueue's loop going for ever.
SettleTerminates == phase = "settling" ~> phase # "settling"

-----------------------------------------------------------------------------
(* What the documents say and the code does not do                         *)

\* event_test.go TestFlushAndReloadKeepsEnqueued, and QueueEntry's comment
\* "Position is the current execution order (0 = head)": a flush followed by
\* a load gives back the queue.
ReloadKeepsQueue ==
  [][GraceExpireAndReturn =>
       \A q \in QueueIds : Len(queues'[q]) = Len(queues[q])]_vars

\* 2.4: the queue "only consumes" the delta it is handed: the cycles executed
\* never amount to more time than has passed.
TimeNotOverspent == spent <= elapsed

=============================================================================
