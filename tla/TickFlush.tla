------------------------------ MODULE TickFlush ------------------------------
(***************************************************************************)
(* How a player's state gets from memory to the database: the tick loop    *)
(* (tickRound, parallelTick, runTick and BatchFlush of session/tick.go),   *)
(* FlushAll as the grace callback calls it (session/session.go), the Flush *)
(* of the subsystems, and DB.InTx.                                         *)
(*                                                                         *)
(* A session's state is a row of parts (inventory, skill, bestiary, event, *)
(* equipment), each a version number: a change makes the next version and  *)
(* sets the part's dirty mark.  One change does not: while no event is due *)
(* a tick only lets the progress of the queues grow, in memory, with no    *)
(* mark and no diff.  Transactions run in the tick loop (Batch)            *)
(* and in the callback of every expiring session; SQLite lets one of them  *)
(* write at a time.  BatchFlush holds the session's lock while it flushes  *)
(* a session, as runTick does, but the two never run together anyway;      *)
(* FlushAll holds none, so its steps fall between those of runTick.        *)
(***************************************************************************)
EXTENDS Integers, FiniteSets

CONSTANTS
  Sessions,     \* the sessions in memory, one per user
  MayExpire,    \* the ones whose grace timer may fire
  Parts,        \* number of parts, flushed in order
  Events,       \* the part that holds the event queues
  Batch,        \* the transaction of the tick loop
  None,         \* no transaction, no session
  MaxChanges,   \* bound: ticks that change something
  MaxFaults     \* bound: panics and failing statements and commits

ASSUME FlushAssumption ==
  /\ MayExpire \subseteq Sessions
  /\ Batch \notin Sessions /\ None \notin Sessions \cup {Batch}
  /\ Parts \in Nat \ {0} /\ Events \in 1..Parts
  /\ MaxChanges \in Nat /\ MaxFaults \in Nat

VARIABLES
  mem,      \* mem[s][p]: version of part p in memory
  settled,  \* settled[s]: the event part's version at its last marked change;
            \* later versions differ from it in progress only
  dirty,    \* dirty[s]: the parts of s marked dirty
  life,     \* life[s]: live, expiring (StateClosing), or gone
  rows,     \* rows[s][p]: version committed to the database
  phase,    \* the tick loop: idle, tick, or flush
  todo,     \* sessions of this round not ticked yet
  results,  \* sessions the round has to flush
  tx,       \* tx[t]: the transaction t
  writer,   \* the transaction that holds SQLite's write lock
  changes,  \* ticks that changed something so far
  faults    \* panics and failures so far

bounds == <<changes, faults>>
vars == <<mem, settled, dirty, life, rows, phase, todo, results, tx, writer, bounds>>

Txs  == Sessions \cup {Batch}
Part == 1..Parts
Unwritten == -1

(***************************************************************************)
(* left: sessions not flushed yet.  cur and part: what is flushed now.     *)
(* val: the version read for the statement, Unwritten before it is read.   *)
(* sent: the statement has been executed.  log: what a commit will write.  *)
(***************************************************************************)
NoLog == [s \in Sessions |-> [p \in Part |-> Unwritten]]
NoTx  == [open |-> FALSE, left |-> {}, cur |-> None, part |-> 1,
          val |-> Unwritten, sent |-> FALSE, log |-> NoLog]
Begin(ss) == [NoTx EXCEPT !.open = TRUE, !.left = ss]

Init ==
  /\ mem = [s \in Sessions |-> [p \in Part |-> 0]]
  /\ rows = mem
  /\ settled = [s \in Sessions |-> 0]
  /\ dirty = [s \in Sessions |-> {}]
  /\ life = [s \in Sessions |-> "live"]
  /\ phase = "idle" /\ todo = {} /\ results = {}
  /\ tx = [t \in Txs |-> NoTx]
  /\ writer = None
  /\ changes = 0 /\ faults = 0

-----------------------------------------------------------------------------
(* The tick round                                                          *)

Managed == {s \in Sessions : life[s] # "gone"}

\* Mutant: a round does not wait for the flush of the one before.
TickBeginEarly ==
  /\ phase \in {"idle", "flush"}
  /\ Managed # {}
  /\ phase' = "tick"
  /\ todo' = Managed /\ results' = {}
  /\ UNCHANGED <<mem, settled, dirty, life, rows, tx, writer, bounds>>

TickBegin ==
  /\ phase = "idle"
  /\ Managed # {}
  /\ phase' = "tick"
  /\ todo' = Managed /\ results' = {}
  /\ UNCHANGED <<mem, settled, dirty, life, rows, tx, writer, bounds>>

Ticked(s) ==
  /\ phase = "tick" /\ s \in todo
  /\ todo' = todo \ {s}
  /\ UNCHANGED <<life, rows, phase, tx, writer>>

\* The parts ps change and are marked; then, if "ahead", progress grows.
Changes(s, ps, ahead) ==
  /\ changes < MaxChanges
  /\ changes' = changes + 1
  /\ mem' = [mem EXCEPT ![s] =
               [p \in Part |-> @[p] + (IF p \in ps THEN 1 ELSE 0)
                                    + (IF ahead /\ p = Events THEN 1 ELSE 0)]]
  /\ dirty' = [dirty EXCEPT ![s] = @ \cup ps]
  /\ settled' = IF Events \in ps THEN [settled EXCEPT ![s] = mem[s][Events] + 1]
                ELSE settled

\* A closed session is skipped; any other may have nothing to do.
TickIdle(s) ==
  /\ Ticked(s)
  /\ UNCHANGED <<mem, settled, dirty, results, bounds>>

\* The fast path: no event is due, AdvanceProgress only.
TickAdvances(s) ==
  /\ Ticked(s)
  /\ life[s] # "gone"
  /\ Changes(s, {}, TRUE)
  /\ UNCHANGED <<results, faults>>

\* Mutant: the change is not reported to the round.
RunTickUnreported(s, ps, ahead) ==
  /\ Ticked(s)
  /\ life[s] # "gone" /\ ps # {}
  /\ Changes(s, ps, ahead)
  /\ UNCHANGED <<results, faults>>

\* Commands or the settlement change some parts: the diff is not empty.  After
\* commands the fast path may follow.
RunTick(s, ps, ahead) ==
  /\ Ticked(s)
  /\ life[s] # "gone" /\ ps # {}
  /\ Changes(s, ps, ahead)
  /\ results' = results \cup {s}
  /\ UNCHANGED faults

\* Settle panics half way: it is recovered, and there is no diff but that of
\* the commands before it.
RunTickPanics(s, ps) ==
  /\ Ticked(s)
  /\ life[s] # "gone" /\ ps # {}
  /\ faults < MaxFaults
  /\ Changes(s, ps, FALSE)
  /\ faults' = faults + 1
  /\ results' \in {results, results \cup {s}}

BatchBegin ==
  /\ phase = "tick" /\ todo = {}
  /\ phase' = "flush"
  /\ tx' = [tx EXCEPT ![Batch] = Begin(results)]
  /\ UNCHANGED <<mem, settled, dirty, life, rows, todo, results, writer, bounds>>

-----------------------------------------------------------------------------
(* The grace callback: FlushAll, its error logged, then Remove             *)

ExpiryBegin(s) ==
  /\ life[s] = "live" /\ s \in MayExpire
  /\ life' = [life EXCEPT ![s] = "expiring"]
  /\ tx' = [tx EXCEPT ![s] = Begin({s})]
  /\ UNCHANGED <<mem, settled, dirty, rows, phase, todo, results, writer, bounds>>

\* Mutant: after an error the callback returns without Remove.
ExpiryEndOnSuccess(s) ==
  /\ life[s] = "expiring" /\ ~tx[s].open /\ rows[s] = mem[s]
  /\ life' = [life EXCEPT ![s] = "gone"]
  /\ UNCHANGED <<mem, settled, dirty, rows, phase, todo, results, tx, writer, bounds>>

ExpiryEnd(s) ==
  /\ life[s] = "expiring" /\ ~tx[s].open
  /\ life' = [life EXCEPT ![s] = "gone"]
  /\ UNCHANGED <<mem, settled, dirty, rows, phase, todo, results, tx, writer, bounds>>

-----------------------------------------------------------------------------
(* A transaction: InTx around the Flush of every part of every session     *)

\* Mutant: a flushed session is flushed again.
FlushNextAgain(t) ==
  /\ tx[t].open /\ tx[t].cur = None
  /\ \E s \in tx[t].left : tx' = [tx EXCEPT ![t].cur = s, ![t].part = 1]
  /\ UNCHANGED <<mem, settled, dirty, life, rows, phase, todo, results, writer, bounds>>

FlushNext(t) ==
  /\ tx[t].open /\ tx[t].cur = None
  /\ \E s \in tx[t].left :
       tx' = [tx EXCEPT ![t].cur = s, ![t].part = 1, ![t].left = @ \ {s}]
  /\ UNCHANGED <<mem, settled, dirty, life, rows, phase, todo, results, writer, bounds>>

At(t, p) == tx[t].open /\ tx[t].cur # None /\ tx[t].part = p

\* On to the next part, or to the next session.
Advance(t) == IF tx[t].part = Parts THEN [tx[t] EXCEPT !.cur = None]
              ELSE [tx[t] EXCEPT !.part = @ + 1]

FlushClean(t, p) ==
  /\ At(t, p) /\ tx[t].val = Unwritten
  /\ p \notin dirty[tx[t].cur]
  /\ tx' = [tx EXCEPT ![t] = Advance(t)]
  /\ UNCHANGED <<mem, settled, dirty, life, rows, phase, todo, results, writer, bounds>>

FlushRead(t, p) ==
  /\ At(t, p) /\ tx[t].val = Unwritten
  /\ p \in dirty[tx[t].cur]
  /\ tx' = [tx EXCEPT ![t].val = mem[tx[t].cur][p]]
  /\ UNCHANGED <<mem, settled, dirty, life, rows, phase, todo, results, writer, bounds>>

\* The first statement of a transaction takes the write lock.
FlushWrite(t, p) ==
  /\ At(t, p) /\ tx[t].val # Unwritten /\ ~tx[t].sent
  /\ writer \in {None, t}
  /\ writer' = t
  /\ tx' = [tx EXCEPT ![t].log[tx[t].cur][p] = tx[t].val, ![t].sent = TRUE]
  /\ UNCHANGED <<mem, settled, dirty, life, rows, phase, todo, results, bounds>>

\* The mark is cleared long before the commit.
FlushClear(t, p) ==
  /\ At(t, p) /\ tx[t].sent
  /\ dirty' = [dirty EXCEPT ![tx[t].cur] = @ \ {p}]
  /\ tx' = [tx EXCEPT ![t] = [Advance(t) EXCEPT !.val = Unwritten, !.sent = FALSE]]
  /\ UNCHANGED <<mem, settled, life, rows, phase, todo, results, writer, bounds>>

CloseTx(t) ==
  /\ tx' = [tx EXCEPT ![t] = NoTx]
  /\ writer' = IF writer = t THEN None ELSE writer
  /\ phase' = IF t = Batch THEN "idle" ELSE phase
  /\ UNCHANGED <<mem, settled, dirty, life, todo, results, changes>>

Flushed(t) == tx[t].open /\ tx[t].cur = None /\ tx[t].left = {}

Commit(t) ==
  /\ Flushed(t)
  /\ rows' = [s \in Sessions |-> [p \in Part |->
                IF tx[t].log[s][p] # Unwritten THEN tx[t].log[s][p] ELSE rows[s][p]]]
  /\ UNCHANGED faults
  /\ CloseTx(t)

\* A statement or the commit fails: everything is rolled back.
Rollback(t) ==
  /\ Flushed(t) \/ (tx[t].open /\ tx[t].val # Unwritten /\ ~tx[t].sent)
  /\ faults < MaxFaults
  /\ faults' = faults + 1
  /\ UNCHANGED rows
  /\ CloseTx(t)

-----------------------------------------------------------------------------
FlushStep(t) ==
  \/ FlushNext(t) \/ Commit(t) \/ Rollback(t)
  \/ \E p \in Part : FlushClean(t, p) \/ FlushRead(t, p)
                     \/ FlushWrite(t, p) \/ FlushClear(t, p)

TickStep ==
  \/ BatchBegin
  \/ \E s \in Sessions :
       \/ TickIdle(s)
       \/ TickAdvances(s)
       \/ \E ps \in SUBSET Part :
            (\E ahead \in BOOLEAN : RunTick(s, ps, ahead)) \/ RunTickPanics(s, ps)

Next ==
  \/ TickBegin \/ TickStep
  \/ \E s \in Sessions : ExpiryBegin(s) \/ ExpiryEnd(s)
  \/ \E t \in Txs : FlushStep(t)

Spec == Init /\ [][Next]_vars

\* The goroutines keep running; a timer need not fire.
FairSpec ==
  /\ Spec
  /\ WF_vars(TickStep)
  /\ \A t \in Txs : WF_vars(FlushStep(t))
  /\ \A s \in Sessions : WF_vars(ExpiryEnd(s))

-----------------------------------------------------------------------------
Version == 0..2 * MaxChanges
Tx == [open: BOOLEAN, left: SUBSET Sessions, cur: Sessions \cup {None},
       part: Part, val: Version \cup {Unwritten}, sent: BOOLEAN,
       log: [Sessions -> [Part -> Version \cup {Unwritten}]]]

TypeOK ==
  /\ mem \in [Sessions -> [Part -> Version]]
  /\ rows \in [Sessions -> [Part -> Version]]
  /\ settled \in [Sessions -> Version]
  /\ dirty \in [Sessions -> SUBSET Part]
  /\ life \in [Sessions -> {"live", "expiring", "gone"}]
  /\ phase \in {"idle", "tick", "flush"}
  /\ todo \subseteq Sessions /\ results \subseteq Sessions
  /\ tx \in [Txs -> Tx]
  /\ writer \in Txs \cup {None}
  /\ changes \in 0..MaxChanges /\ faults \in 0..MaxFaults

\* The row of part p has every marked change of it: progress alone, which the
\* fast path marks nowhere, may be missing.
Saved(s, p) == IF p = Events THEN rows[s][p] \in settled[s]..mem[s][p]
               ELSE rows[s][p] = mem[s][p]

\* As long as nothing has failed, a round leaves nothing of a live session
\* unsaved and marked, and nothing unsaved but progress that only the fast path
\* has made since the last change of its queues, whatever the expiring sessions
\* write at the same time (tick.go tickRound, runTick).
SavedUnlessFault ==
  faults = 0 /\ phase = "idle" =>
    \A s \in Sessions :
      life[s] = "live" => dirty[s] = {} /\ \A p \in Part : Saved(s, p)

\* What BatchFlush is about to commit is what memory holds, also for a
\* session that expires meanwhile: no tick comes between reading a part and
\* the commit (tick.go tickRound).
BatchWritesCurrent ==
  \A s \in Sessions, p \in Part :
    tx[Batch].log[s][p] \in {Unwritten, mem[s][p]}

\* Every tick round ends, however transactions fail and however FlushAll
\* competes for the database (tick.go tickRound, db.go InTx).
RoundEnds == phase # "idle" ~> phase = "idle"

\* An expired session is removed even if its flush fails (ws.go OnGraceExpire).
ExpiryEnds == \A s \in Sessions : life[s] = "expiring" ~> life[s] = "gone"

-----------------------------------------------------------------------------
(* What the tests and documents say and the code does not do               *)

\* tick_consistency_test.go: when a flush fails, "the dirty markers must stay
\* set so the next tick re-attempts flush".
FlushFailureKeepsDirty ==
  phase = "idle" =>
    \A s \in Sessions, p \in Part :
      life[s] = "live" /\ ~Saved(s, p) => p \in dirty[s]

\* 1.1: on expiry the state is flushed, then the session is removed: what the
\* next session loads is what this one had, but for that progress, if no flush
\* failed.  And tick_lifecycle_race_test.go: "the callback runs FlushAll
\* (holding s.mu)".
ExpiredIsSaved ==
  faults = 0 /\ phase = "idle" =>
    \A s \in Sessions : life[s] = "gone" => \A p \in Part : Saved(s, p)

=============================================================================
