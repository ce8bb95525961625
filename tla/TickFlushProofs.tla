--------------------------- MODULE TickFlushProofs ---------------------------
(***************************************************************************)
(* Proofs about TickFlush, for any number of sessions, parts and changes:  *)
(* BatchFlush writes what memory holds, and without a failure a round      *)
(* leaves every live session saved.                                        *)
(*                                                                         *)
(* A session's own transaction is there only while it expires, and touches *)
(* nothing else (OwnTx); the tick loop's is there only while no tick runs  *)
(* (BatchTx), so what it has read stays current (BatchCurrent).  A part of *)
(* a live session that its row does not have, but for progress, is dirty   *)
(* or in the log of the batch (Covered), and a dirty session is one the    *)
(* round still comes to (Ahead).                                           *)
(***************************************************************************)
EXTENDS TickFlush, TLAPS

Written == Nat \cup {Unwritten}

TxType == [open: BOOLEAN, left: SUBSET Sessions, cur: Sessions \cup {None},
           part: Part, val: Written, sent: BOOLEAN,
           log: [Sessions -> [Part -> Written]]]

TypeInv ==
  /\ mem \in [Sessions -> [Part -> Nat]]
  /\ rows \in [Sessions -> [Part -> Nat]]
  /\ settled \in [Sessions -> Nat]
  /\ \A s \in Sessions : settled[s] <= mem[s][Events]
  /\ dirty \in [Sessions -> SUBSET Part]
  /\ life \in [Sessions -> {"live", "expiring", "gone"}]
  /\ phase \in {"idle", "tick", "flush"}
  /\ results \subseteq Sessions
  /\ tx \in [Txs -> TxType]
  /\ faults \in Nat

\* The transaction of session s is about s only, and s is no longer live.
OwnTx(s) ==
  /\ tx[s].open => life[s] # "live"
  /\ tx[s].left \subseteq {s} /\ tx[s].cur \in {s, None}
  /\ \A o \in Sessions \ {s} : tx[s].log[o] = [p \in Part |-> Unwritten]

BatchTx == IF phase = "flush" THEN tx[Batch].open ELSE tx[Batch] = NoTx

\* What the batch has read is current, and executed as it was read.
BatchCurrent ==
  /\ BatchWritesCurrent
  /\ tx[Batch].val # Unwritten =>
       /\ tx[Batch].cur # None
       /\ tx[Batch].val = mem[tx[Batch].cur][tx[Batch].part]
  /\ tx[Batch].sent =>
       /\ tx[Batch].val # Unwritten
       /\ tx[Batch].log[tx[Batch].cur][tx[Batch].part] = mem[tx[Batch].cur][tx[Batch].part]

Covered(s) ==
  \A p \in Part : \/ p \in dirty[s]
                  \/ Saved(s, p)
                  \/ tx[Batch].log[s][p] = mem[s][p]

Ahead(s) ==
  \/ dirty[s] = {}
  \/ phase = "tick" /\ s \in results
  \/ phase = "flush" /\ s \in tx[Batch].left
  \/ phase = "flush" /\ tx[Batch].cur = s /\ \A p \in dirty[s] : p >= tx[Batch].part

SafeInv ==
  /\ TypeInv
  /\ \A s \in Sessions : OwnTx(s)
  /\ BatchTx
  /\ BatchCurrent

SavedInv ==
  faults = 0 => \A s \in Sessions : life[s] = "live" => Covered(s) /\ Ahead(s)

-----------------------------------------------------------------------------
LEMMA NoTxType == NoTx \in TxType /\ \A ss \in SUBSET Sessions : Begin(ss) \in TxType
<1>1. 1 \in Part /\ Unwritten \in Written
  BY FlushAssumption DEF Part, Written
<1>. QED  BY <1>1 DEF NoTx, Begin, TxType, NoLog

LEMMA Fields ==
  /\ ~NoTx.open /\ NoTx.left = {} /\ NoTx.cur = None /\ NoTx.val = Unwritten
  /\ ~NoTx.sent /\ NoTx.log = NoLog
  /\ \A ss : /\ Begin(ss).open /\ Begin(ss).left = ss /\ Begin(ss).cur = None
             /\ Begin(ss).val = Unwritten /\ ~Begin(ss).sent /\ Begin(ss).log = NoLog
  BY DEF NoTx, Begin

LEMMA InitSafe == Init => SafeInv /\ SavedInv
<1> SUFFICES ASSUME Init PROVE SafeInv /\ SavedInv
  OBVIOUS
<1>1. TypeInv
  <2>1. \A s \in Sessions : settled[s] = 0 /\ mem[s][Events] = 0
    BY FlushAssumption DEF Init, Part
  <2>2. \A s \in Sessions : settled[s] <= mem[s][Events]
    BY <2>1
  <2>. QED  BY <2>2, NoTxType DEF Init, TypeInv
<1>2. \A s \in Sessions : OwnTx(s)
  BY FlushAssumption DEF Init, OwnTx, NoTx, NoLog, Txs
<1>3. BatchTx /\ BatchCurrent
  BY DEF Init, BatchTx, BatchCurrent, BatchWritesCurrent, NoTx, NoLog, Txs
<1>4. SavedInv
  BY DEF Init, SavedInv, Covered, Saved, Ahead
<1>. QED  BY <1>1, <1>2, <1>3, <1>4 DEF SafeInv

\* A tick changes a session: marked changes are reported to the round, and
\* progress of the event queues is not.
LEMMA ChangesSafe ==
  ASSUME SafeInv, SavedInv, NEW s \in Sessions, NEW ps \in SUBSET Part,
         NEW ahead \in BOOLEAN, Changes(s, ps, ahead),
         phase = "tick", UNCHANGED <<phase, tx, life, rows>>,
         results' \in {results, results \cup {s}}, faults' \in Nat,
         faults' = 0 => faults = 0 /\ (ps # {} => results' = results \cup {s})
  PROVE  SafeInv' /\ SavedInv'
<1> USE FlushAssumption
<1>0. TypeInv /\ BatchTx /\ BatchCurrent
  BY DEF SafeInv
<1>1. /\ mem' \in [Sessions -> [Part -> Nat]]
      /\ \A o \in Sessions : o # s => mem'[o] = mem[o]
      /\ \A p \in Part : mem[s][p] <= mem'[s][p]
      /\ \A p \in Part \ ps : p # Events => mem'[s][p] = mem[s][p]
      /\ \A p \in ps : mem[s][p] + 1 <= mem'[s][p]
  <2>1. mem' = [mem EXCEPT ![s] =
                  [p \in Part |-> mem[s][p] + (IF p \in ps THEN 1 ELSE 0)
                                    + (IF ahead /\ p = Events THEN 1 ELSE 0)]]
    BY DEF Changes
  <2>2. \A p \in Part : mem'[s][p] = mem[s][p] + (IF p \in ps THEN 1 ELSE 0)
                                    + (IF ahead /\ p = Events THEN 1 ELSE 0)
    BY <1>0, <2>1 DEF TypeInv
  <2>3. mem[s] \in [Part -> Nat]
    BY <1>0 DEF TypeInv
  <2>4. mem' \in [Sessions -> [Part -> Nat]]
    BY <1>0, <2>1, <2>3 DEF TypeInv
  <2>5. \A o \in Sessions : o # s => mem'[o] = mem[o]
    BY <1>0, <2>1 DEF TypeInv
  <2>. QED  BY <2>2, <2>3, <2>4, <2>5
<1>2. Events \in Part
  BY DEF Part
<1>3. /\ settled' \in [Sessions -> Nat]
      /\ \A o \in Sessions : settled'[o] <= mem'[o][Events]
      /\ \A o \in Sessions : o # s \/ Events \notin ps => settled'[o] = settled[o]
  <2>1. mem[s][Events] \in Nat /\ mem'[s][Events] \in Nat
    BY <1>0, <1>1, <1>2 DEF TypeInv
  <2>2. CASE Events \in ps
    <3>1. settled' = [settled EXCEPT ![s] = mem[s][Events] + 1]
      BY <2>2 DEF Changes
    <3>. QED  BY <1>0, <1>1, <2>1, <2>2, <3>1 DEF TypeInv
  <2>3. CASE Events \notin ps
    <3>1. settled' = settled
      BY <2>3 DEF Changes
    <3>2. \A o \in Sessions : mem[o][Events] <= mem'[o][Events]
      BY <1>0, <1>1, <1>2 DEF TypeInv
    <3>3. \A o \in Sessions : settled[o] \in Nat /\ mem[o][Events] \in Nat
                              /\ mem'[o][Events] \in Nat
      BY <1>0, <1>1, <1>2 DEF TypeInv
    <3>. QED  BY <1>0, <3>1, <3>2, <3>3 DEF TypeInv
  <2>. QED  BY <2>2, <2>3
<1>4. /\ dirty' \in [Sessions -> SUBSET Part]
      /\ dirty'[s] = dirty[s] \cup ps
      /\ \A o \in Sessions : o # s => dirty'[o] = dirty[o]
  BY <1>0 DEF Changes, TypeInv
<1>5. TypeInv'
  BY <1>0, <1>1, <1>3, <1>4 DEF TypeInv
<1>6. (\A o \in Sessions : OwnTx(o)')
  BY DEF SafeInv, OwnTx
<1>7. tx[Batch] = NoTx
  BY <1>0 DEF BatchTx
<1>8. BatchTx' /\ BatchCurrent'
  BY <1>0, <1>7 DEF BatchTx, BatchCurrent, BatchWritesCurrent, NoTx, NoLog
<1>9. ASSUME faults' = 0, NEW o \in Sessions, life'[o] = "live"
      PROVE  Covered(o)' /\ Ahead(o)'
  <2>1. Covered(o) /\ Ahead(o)
    BY <1>9 DEF SavedInv
  <2>2. tx[Batch].log[o] = [p \in Part |-> Unwritten]
    BY <1>7, Fields DEF NoLog
  <2>3. \A p \in Part : p \in dirty[o] \/ Saved(o, p)
    <3> SUFFICES ASSUME NEW p \in Part PROVE tx[Batch].log[o][p] # mem[o][p]
      BY <2>1 DEF Covered
    <3>1. mem[o][p] \in Nat
      BY <1>0 DEF TypeInv
    <3>. QED  BY <2>2, <3>1 DEF Unwritten
  <2>4. ASSUME NEW p \in Part, p \notin dirty'[o]
        PROVE  Saved(o, p)'
    <3>1. Saved(o, p) /\ ~(o = s /\ p \in ps)
      BY <1>4, <2>3, <2>4
    <3>2. CASE p = Events
      <4>1. settled'[o] = settled[o] /\ rows'[o] = rows[o]
        BY <1>3, <3>1, <3>2
      <4>2. mem[o][p] \in Nat /\ mem'[o][p] \in Nat
        BY <1>0, <1>1 DEF TypeInv
      <4>4. mem[o][p] <= mem'[o][p]
        BY <1>1, <4>2
      <4>3. settled[o] \in Nat /\ rows[o][p] \in Nat
        BY <1>0 DEF TypeInv
      <4>. QED  BY <3>1, <3>2, <4>1, <4>2, <4>3, <4>4 DEF Saved
    <3>3. CASE p # Events
      BY <1>1, <3>1, <3>3 DEF Saved
    <3>. QED  BY <3>2, <3>3
  <2>5. Covered(o)'
    BY <2>4 DEF Covered
  <2>6. Ahead(o)'
    BY <1>4, <1>9, <2>1 DEF Ahead
  <2>. QED  BY <2>5, <2>6
<1>. QED  BY <1>5, <1>6, <1>8, <1>9 DEF SafeInv, SavedInv

\* A tick round begins, or a session is ticked.
LEMMA TickSafe ==
  ASSUME SafeInv, SavedInv, NEW s \in Sessions, NEW ps \in SUBSET Part,
         NEW ahead \in BOOLEAN,
         \/ TickBegin \/ TickIdle(s) \/ TickAdvances(s)
         \/ RunTick(s, ps, ahead) \/ RunTickPanics(s, ps)
  PROVE  SafeInv' /\ SavedInv'
<1> USE FlushAssumption
<1>0. TypeInv /\ BatchTx /\ BatchCurrent
  BY DEF SafeInv
<1>1. CASE TickBegin
  <2>1. TypeInv'
    BY <1>0, <1>1 DEF TickBegin, TypeInv, bounds
  <2>2. (\A o \in Sessions : OwnTx(o)')
    BY <1>1 DEF TickBegin, SafeInv, OwnTx
  <2>3. BatchTx' /\ BatchCurrent'
    BY <1>0, <1>1 DEF TickBegin, BatchTx, BatchCurrent, BatchWritesCurrent
  <2>4. SavedInv'
    BY <1>1 DEF TickBegin, SavedInv, Covered, Saved, Ahead, bounds
  <2>. QED  BY <2>1, <2>2, <2>3, <2>4 DEF SafeInv
<1>2. CASE TickIdle(s)
  <2>1. TypeInv'
    BY <1>0, <1>2 DEF TickIdle, Ticked, TypeInv, bounds
  <2>2. (\A o \in Sessions : OwnTx(o)')
    BY <1>2 DEF TickIdle, Ticked, SafeInv, OwnTx
  <2>3. BatchTx' /\ BatchCurrent'
    BY <1>0, <1>2 DEF TickIdle, Ticked, BatchTx, BatchCurrent, BatchWritesCurrent
  <2>4. SavedInv'
    BY <1>2 DEF TickIdle, Ticked, SavedInv, Covered, Saved, Ahead, bounds
  <2>. QED  BY <2>1, <2>2, <2>3, <2>4 DEF SafeInv
<1>3. CASE RunTick(s, ps, ahead) \/ RunTickPanics(s, ps)
  <2>1. PICK grows \in BOOLEAN : Changes(s, ps, grows)
    BY <1>3 DEF RunTick, RunTickPanics
  <2>2. /\ phase = "tick" /\ UNCHANGED <<phase, tx, life, rows>>
        /\ results' \in {results, results \cup {s}} /\ faults' \in Nat
        /\ faults' = 0 => faults = 0 /\ results' = results \cup {s}
    <3>1. faults \in Nat
      BY <1>0 DEF TypeInv
    <3>2. CASE RunTick(s, ps, ahead)
      BY <3>1, <3>2 DEF RunTick, Ticked
    <3>3. CASE RunTickPanics(s, ps)
      <4>1. faults' = faults + 1
        BY <3>3 DEF RunTickPanics
      <4>. QED  BY <3>1, <3>3, <4>1 DEF RunTickPanics, Ticked
    <3>. QED  BY <1>3, <3>2, <3>3
  <2>. QED  BY <2>1, <2>2, ChangesSafe
<1>4. CASE TickAdvances(s)
  <2>1. Changes(s, {}, TRUE)
    BY <1>4 DEF TickAdvances
  <2>2. /\ phase = "tick" /\ UNCHANGED <<phase, tx, life, rows, results, faults>>
    BY <1>4 DEF TickAdvances, Ticked
  <2>3. results' \in {results, results \cup {s}} /\ faults' \in Nat
    BY <1>0, <2>2 DEF TypeInv
  <2>. QED  BY <2>1, <2>2, <2>3, ChangesSafe
<1>. QED  BY <1>1, <1>2, <1>3, <1>4

\* The flush of a round begins.
LEMMA BatchBeginSafe ==
  ASSUME SafeInv, SavedInv, BatchBegin
  PROVE  SafeInv' /\ SavedInv'
<1> USE FlushAssumption DEF BatchBegin
<1>0. TypeInv /\ BatchTx /\ BatchCurrent /\ \A s \in Sessions : OwnTx(s)
  BY DEF SafeInv
<1>1. /\ tx'[Batch] = Begin(results)
      /\ tx[Batch] = NoTx
      /\ \A s \in Sessions : tx'[s] = tx[s]
  BY <1>0 DEF TypeInv, Txs, BatchTx
<1>2. TypeInv'
  BY <1>0, NoTxType DEF TypeInv, bounds, Txs
<1>3. \A s \in Sessions : OwnTx(s)'
  BY <1>0, <1>1 DEF OwnTx
<1>4. BatchTx' /\ BatchCurrent'
  BY <1>0, <1>1, Fields DEF BatchTx, BatchCurrent, BatchWritesCurrent, NoLog
<1>5. tx'[Batch].left = results /\ tx'[Batch].log = tx[Batch].log
  BY <1>1, Fields
<1>6. SavedInv'
  BY <1>5 DEF SavedInv, Covered, Saved, Ahead, bounds
<1>. QED  BY <1>2, <1>3, <1>4, <1>6 DEF SafeInv

\* A session expires, or is removed.
LEMMA ExpirySafe ==
  ASSUME SafeInv, SavedInv, NEW s \in Sessions, ExpiryBegin(s) \/ ExpiryEnd(s)
  PROVE  SafeInv' /\ SavedInv'
<1> USE FlushAssumption
<1>0. TypeInv /\ BatchTx /\ BatchCurrent /\ \A o \in Sessions : OwnTx(o)
  BY DEF SafeInv
<1>1. /\ UNCHANGED <<mem, settled, dirty, rows, phase, todo, results, writer, bounds>>
      /\ life' \in [Sessions -> {"live", "expiring", "gone"}]
      /\ \A o \in Sessions : life'[o] = "live" => life[o] = "live" /\ o # s
      /\ \A t \in Txs : t # s => tx'[t] = tx[t]
      /\ tx'[s] = tx[s] \/ tx'[s] = Begin({s})
      /\ tx' \in [Txs -> TxType]
  <2>1. CASE ExpiryBegin(s)
    <3>1. Begin({s}) \in TxType
      BY NoTxType
    <3>. QED  BY <1>0, <2>1, <3>1 DEF ExpiryBegin, TypeInv, Txs
  <2>2. CASE ExpiryEnd(s)
    BY <1>0, <2>2 DEF ExpiryEnd, TypeInv
  <2>. QED  BY <2>1, <2>2
<1>2. TypeInv'
  BY <1>0, <1>1 DEF TypeInv, bounds
<1>3. \A o \in Sessions : OwnTx(o)'
  <2> SUFFICES ASSUME NEW o \in Sessions PROVE OwnTx(o)'
    OBVIOUS
  <2>1. CASE o # s
    BY <1>0, <1>1, <2>1 DEF OwnTx, Txs
  <2>2. CASE o = s
    BY <1>0, <1>1, <2>2, Fields DEF OwnTx, NoLog
  <2>. QED  BY <2>1, <2>2
<1>4. tx'[Batch] = tx[Batch]
  BY <1>1 DEF Txs
<1>5. BatchTx' /\ BatchCurrent'
  BY <1>0, <1>1, <1>4 DEF BatchTx, BatchCurrent, BatchWritesCurrent
<1>6. SavedInv'
  BY <1>1, <1>4 DEF SavedInv, Covered, Saved, Ahead, bounds
<1>. QED  BY <1>2, <1>3, <1>5, <1>6 DEF SafeInv

\* The next part, or the next session.
LEMMA AdvanceFields ==
  ASSUME TypeInv, NEW t \in Txs
  PROVE  /\ Advance(t) \in TxType
         /\ Advance(t).open = tx[t].open /\ Advance(t).left = tx[t].left
         /\ Advance(t).val = tx[t].val /\ Advance(t).sent = tx[t].sent
         /\ Advance(t).log = tx[t].log
         /\ \/ tx[t].part = Parts /\ Advance(t).cur = None
            \/ /\ tx[t].part # Parts /\ Advance(t).cur = tx[t].cur
               /\ Advance(t).part = tx[t].part + 1
<1> USE FlushAssumption
<1>1. tx[t] \in TxType
  BY DEF TypeInv
<1>2. CASE tx[t].part = Parts
  BY <1>1, <1>2 DEF Advance, TxType
<1>3. CASE tx[t].part # Parts
  <2>1. tx[t].part + 1 \in Part
    BY <1>1, <1>3 DEF TxType, Part
  <2>. QED  BY <1>1, <1>3, <2>1 DEF Advance, TxType
<1>. QED  BY <1>2, <1>3

\* A step of the transaction of an expiring session.
LEMMA OwnStep ==
  ASSUME SafeInv, SavedInv, NEW t \in Sessions, tx[t].open,
         UNCHANGED <<mem, settled, life, phase, results>>,
         \A o \in Txs \ {t} : tx'[o] = tx[o],
         \A o \in Sessions \ {t} : dirty'[o] = dirty[o] /\ rows'[o] = rows[o],
         faults' = 0 => faults = 0,
         TypeInv', OwnTx(t)'
  PROVE  SafeInv' /\ SavedInv'
<1> USE FlushAssumption
<1>1. tx'[Batch] = tx[Batch]
  BY DEF Txs
<1>2. \A s \in Sessions : OwnTx(s)'
  BY DEF SafeInv, OwnTx, Txs
<1>3. BatchTx' /\ BatchCurrent'
  BY <1>1 DEF SafeInv, BatchTx, BatchCurrent, BatchWritesCurrent
<1>4. life[t] # "live"
  BY DEF SafeInv, OwnTx
<1>5. SavedInv'
  BY <1>1, <1>4 DEF SavedInv, Covered, Saved, Ahead
<1>. QED  BY <1>2, <1>3, <1>5 DEF SafeInv

\* Other sessions' transactions know nothing of a step of the batch.
LEMMA BatchStep ==
  ASSUME SafeInv, UNCHANGED life, \A o \in Txs \ {Batch} : tx'[o] = tx[o]
  PROVE  \A s \in Sessions : OwnTx(s)'
  BY FlushAssumption DEF SafeInv, OwnTx, Txs

LEMMA FlushNextSafe ==
  ASSUME SafeInv, SavedInv, NEW t \in Txs, FlushNext(t)
  PROVE  SafeInv' /\ SavedInv'
<1> USE FlushAssumption
<1>0. TypeInv /\ BatchTx /\ BatchCurrent /\ \A o \in Sessions : OwnTx(o)
  BY DEF SafeInv
<1>1. PICK s \in tx[t].left :
        tx' = [tx EXCEPT ![t].cur = s, ![t].part = 1, ![t].left = @ \ {s}]
  BY DEF FlushNext
<1>2. tx[t] \in TxType /\ s \in Sessions /\ 1 \in Part
  <2>1. tx[t] \in TxType
    BY <1>0 DEF TypeInv
  <2>2. 1 \in Part
    BY DEF Part
  <2>. QED  BY <2>1, <2>2 DEF TxType
<1>3. /\ tx'[t] \in TxType
      /\ tx'[t].open = tx[t].open /\ tx'[t].left = tx[t].left \ {s}
      /\ tx'[t].cur = s /\ tx'[t].part = 1
      /\ tx'[t].val = tx[t].val /\ tx'[t].sent = tx[t].sent /\ tx'[t].log = tx[t].log
  BY <1>0, <1>1, <1>2 DEF TypeInv, TxType
<1>4. \A o \in Txs \ {t} : tx'[o] = tx[o]
  BY <1>0, <1>1 DEF TypeInv
<1>5. tx' \in [Txs -> TxType]
  BY <1>0, <1>1, <1>3, <1>4 DEF TypeInv
<1>6. /\ tx[t].open /\ tx[t].cur = None
      /\ UNCHANGED <<mem, settled, dirty, life, rows, phase, todo, results, writer, faults>>
  BY DEF FlushNext, bounds
<1>7. TypeInv'
  BY <1>0, <1>5, <1>6 DEF TypeInv
<1>8. CASE t \in Sessions
  <2>0. OwnTx(t)
    BY <1>0, <1>8
  <2>1. s = t
    BY <2>0 DEF OwnTx
  <2>2. OwnTx(t)'
    BY <1>3, <1>6, <2>0, <2>1 DEF OwnTx
  <2>. QED  BY <1>4, <1>6, <1>7, <1>8, <2>2, OwnStep
<1>9. CASE t = Batch
  <2>1. \A o \in Sessions : OwnTx(o)'
    BY <1>4, <1>6, <1>9, BatchStep
  <2>2. BatchTx' /\ BatchCurrent'
    BY <1>0, <1>3, <1>6, <1>9, Fields DEF BatchTx, BatchCurrent, BatchWritesCurrent
  <2>3. \A o \in Sessions : Covered(o) => Covered(o)'
    BY <1>3, <1>6, <1>9 DEF Covered, Saved
  <2>4. \A o \in Sessions : Ahead(o) => Ahead(o)'
    <3> SUFFICES ASSUME NEW o \in Sessions, Ahead(o) PROVE Ahead(o)'
      OBVIOUS
    <3>1. \A p \in dirty[o] : p >= 1
      BY <1>0 DEF TypeInv, Part
    <3>2. phase = "flush"
      BY <1>0, <1>6, <1>9, Fields DEF BatchTx
    <3>3. o \notin tx[Batch].left => dirty[o] = {}
      BY <1>6, <1>9, <3>2 DEF Ahead
    <3>. QED  BY <1>3, <1>6, <1>9, <3>1, <3>2, <3>3 DEF Ahead
  <2>. QED  BY <1>6, <1>7, <2>1, <2>2, <2>3, <2>4 DEF SafeInv, SavedInv
<1>. QED  BY <1>8, <1>9 DEF Txs

\* The batch goes on to the next part, and the one it leaves is clean.
LEMMA BatchAdvances ==
  ASSUME TypeInv, TypeInv', phase = "flush", phase' = "flush", tx[Batch].cur # None,
         tx'[Batch].left = tx[Batch].left,
         \/ tx[Batch].part = Parts /\ tx'[Batch].cur = None
         \/ tx'[Batch].cur = tx[Batch].cur /\ tx'[Batch].part = tx[Batch].part + 1,
         NEW s \in Sessions, dirty'[s] \subseteq dirty[s],
         tx[Batch].cur = s => tx[Batch].part \notin dirty'[s],
         Ahead(s)
  PROVE  Ahead(s)'
<1> USE FlushAssumption
<1>1. CASE dirty[s] = {} \/ s \in tx[Batch].left
  BY <1>1 DEF Ahead
<1>2. CASE tx[Batch].cur = s /\ \A p \in dirty[s] : p >= tx[Batch].part
  <2>0. tx[Batch] \in TxType /\ dirty'[s] \in SUBSET Part
    BY DEF TypeInv, Txs
  <2>1. tx[Batch].part \in Nat /\ dirty'[s] \subseteq 1..Parts
    BY <2>0 DEF TxType, Part
  <2>2. \A p \in dirty'[s] : p >= tx[Batch].part + 1
    BY <1>2, <2>1
  <2>3. tx[Batch].part = Parts => dirty'[s] = {}
    BY <2>1, <2>2
  <2>. QED  BY <1>2, <2>2, <2>3 DEF Ahead
<1>. QED  BY <1>1, <1>2 DEF Ahead

\* A part that is clean is left out.
LEMMA FlushCleanSafe ==
  ASSUME SafeInv, SavedInv, NEW t \in Txs, NEW p \in Part, FlushClean(t, p)
  PROVE  SafeInv' /\ SavedInv'
<1> USE FlushAssumption
<1>0. TypeInv /\ BatchTx /\ BatchCurrent /\ \A o \in Sessions : OwnTx(o)
  BY DEF SafeInv
<1>1. tx'[t] = Advance(t) /\ \A o \in Txs \ {t} : tx'[o] = tx[o]
  BY <1>0 DEF FlushClean, TypeInv
<1>2. tx' \in [Txs -> TxType]
  BY <1>0, AdvanceFields DEF FlushClean, TypeInv
<1>3. /\ tx[t].open /\ tx[t].cur # None /\ tx[t].part = p /\ tx[t].val = Unwritten
      /\ p \notin dirty[tx[t].cur]
      /\ UNCHANGED <<mem, settled, dirty, life, rows, phase, todo, results, writer, faults>>
  BY DEF FlushClean, At, bounds
<1>4. TypeInv'
  BY <1>0, <1>2, <1>3 DEF TypeInv
<1>5. CASE t \in Sessions
  <2>1. OwnTx(t)
    BY <1>0, <1>5
  <2>2. OwnTx(t)'
    BY <1>0, <1>1, <1>3, <2>1, AdvanceFields DEF OwnTx
  <2>. QED  BY <1>1, <1>3, <1>4, <1>5, <2>2, OwnStep
<1>6. CASE t = Batch
  <2>1. \A o \in Sessions : OwnTx(o)'
    BY <1>1, <1>3, <1>6, BatchStep
  <2>2. phase = "flush"
    BY <1>0, <1>3, <1>6, Fields DEF BatchTx
  <2>3. /\ tx'[t].val = Unwritten /\ ~tx'[t].sent
        /\ tx'[t].log = tx[t].log /\ tx'[t].open
    BY <1>0, <1>1, <1>3, <1>6, AdvanceFields DEF BatchCurrent
  <2>4. BatchTx' /\ BatchCurrent'
    BY <1>0, <1>3, <1>6, <2>2, <2>3 DEF BatchTx, BatchCurrent, BatchWritesCurrent
  <2>5. \A o \in Sessions : Covered(o) => Covered(o)'
    BY <1>3, <1>6, <2>3 DEF Covered, Saved
  <2>6. \A o \in Sessions : Ahead(o) => Ahead(o)'
    BY <1>0, <1>1, <1>3, <1>4, <1>6, <2>2, AdvanceFields, BatchAdvances
  <2>. QED  BY <1>3, <1>4, <2>1, <2>4, <2>5, <2>6 DEF SafeInv, SavedInv
<1>. QED  BY <1>5, <1>6 DEF Txs

\* The value of a dirty part is read.
LEMMA FlushReadSafe ==
  ASSUME SafeInv, SavedInv, NEW t \in Txs, NEW p \in Part, FlushRead(t, p)
  PROVE  SafeInv' /\ SavedInv'
<1> USE FlushAssumption
<1>0. TypeInv /\ BatchTx /\ BatchCurrent /\ \A o \in Sessions : OwnTx(o)
  BY DEF SafeInv
<1>1. tx[t] \in TxType
  BY <1>0 DEF TypeInv
<1>2. /\ tx[t].open /\ tx[t].cur # None /\ tx[t].part = p /\ tx[t].val = Unwritten
      /\ tx' = [tx EXCEPT ![t].val = mem[tx[t].cur][p]]
      /\ UNCHANGED <<mem, settled, dirty, life, rows, phase, todo, results, writer, faults>>
  BY DEF FlushRead, At, bounds
<1>3. mem[tx[t].cur][p] \in Nat
  BY <1>0, <1>1, <1>2 DEF TypeInv, TxType
<1>4. /\ tx'[t] \in TxType
      /\ tx'[t].open /\ tx'[t].left = tx[t].left /\ tx'[t].cur = tx[t].cur
      /\ tx'[t].part = p /\ tx'[t].val = mem[tx[t].cur][p]
      /\ tx'[t].sent = tx[t].sent /\ tx'[t].log = tx[t].log
  BY <1>0, <1>1, <1>2, <1>3 DEF TypeInv, TxType, Written
<1>5. \A o \in Txs \ {t} : tx'[o] = tx[o]
  BY <1>0, <1>2 DEF TypeInv
<1>6. TypeInv'
  BY <1>0, <1>2, <1>4, <1>5 DEF TypeInv
<1>7. CASE t \in Sessions
  <2>1. OwnTx(t)
    BY <1>0, <1>7
  <2>2. OwnTx(t)'
    BY <1>2, <1>4, <2>1 DEF OwnTx
  <2>. QED  BY <1>2, <1>5, <1>6, <1>7, <2>2, OwnStep
<1>8. CASE t = Batch
  <2>1. \A o \in Sessions : OwnTx(o)'
    BY <1>2, <1>5, <1>8, BatchStep
  <2>2. BatchTx' /\ BatchCurrent'
    BY <1>0, <1>2, <1>4, <1>8, Fields DEF BatchTx, BatchCurrent, BatchWritesCurrent
  <2>3. \A o \in Sessions : Covered(o)' = Covered(o) /\ Ahead(o)' = Ahead(o)
    BY <1>2, <1>4, <1>8 DEF Covered, Saved, Ahead
  <2>. QED  BY <1>2, <1>6, <2>1, <2>2, <2>3 DEF SafeInv, SavedInv
<1>. QED  BY <1>7, <1>8 DEF Txs

\* The statement of a part is executed.
LEMMA FlushWriteSafe ==
  ASSUME SafeInv, SavedInv, NEW t \in Txs, NEW p \in Part, FlushWrite(t, p)
  PROVE  SafeInv' /\ SavedInv'
<1> USE FlushAssumption
<1>0. TypeInv /\ BatchTx /\ BatchCurrent /\ \A o \in Sessions : OwnTx(o)
  BY DEF SafeInv
<1>1. tx[t] \in TxType
  BY <1>0 DEF TypeInv
<1>2. /\ tx[t].open /\ tx[t].cur # None /\ tx[t].part = p /\ tx[t].val # Unwritten
      /\ tx' = [tx EXCEPT ![t].log[tx[t].cur][p] = tx[t].val, ![t].sent = TRUE]
      /\ UNCHANGED <<mem, settled, dirty, life, rows, phase, todo, results, faults>>
  BY DEF FlushWrite, At, bounds
<1>3. tx[t].cur \in Sessions /\ tx[t].val \in Written
  BY <1>1, <1>2 DEF TxType
<1>4. /\ tx'[t].open /\ tx'[t].left = tx[t].left /\ tx'[t].cur = tx[t].cur
      /\ tx'[t].part = p /\ tx'[t].val = tx[t].val /\ tx'[t].sent
      /\ tx'[t].log = [tx[t].log EXCEPT ![tx[t].cur][p] = tx[t].val]
  BY <1>0, <1>1, <1>2, <1>3 DEF TypeInv, TxType
<1>5. /\ tx'[t].log \in [Sessions -> [Part -> Written]]
      /\ tx'[t].log[tx[t].cur][p] = tx[t].val
      /\ \A s \in Sessions : s # tx[t].cur => tx'[t].log[s] = tx[t].log[s]
      /\ \A q \in Part : q # p => tx'[t].log[tx[t].cur][q] = tx[t].log[tx[t].cur][q]
  <2>1. tx[t].log \in [Sessions -> [Part -> Written]]
    BY <1>1 DEF TxType
  <2>. QED  BY <1>3, <1>4, <2>1
<1>6. tx'[t] \in TxType
  <2>1. tx'[t] = [tx[t] EXCEPT !.log = tx'[t].log, !.sent = TRUE]
    BY <1>0, <1>1, <1>2, <1>4 DEF TypeInv, TxType
  <2>. QED  BY <1>1, <1>5, <2>1 DEF TxType
<1>7. \A o \in Txs \ {t} : tx'[o] = tx[o]
  BY <1>0, <1>2 DEF TypeInv
<1>8. TypeInv'
  BY <1>0, <1>2, <1>6, <1>7 DEF TypeInv
<1>9. CASE t \in Sessions
  <2>1. OwnTx(t)
    BY <1>0, <1>9
  <2>2. tx[t].cur = t
    BY <1>2, <2>1 DEF OwnTx
  <2>3. life[t] # "live" /\ life' = life
    BY <1>2, <2>1 DEF OwnTx
  <2>4. OwnTx(t)'
    BY <1>4, <1>5, <2>1, <2>2, <2>3 DEF OwnTx
  <2>. QED  BY <1>2, <1>7, <1>8, <1>9, <2>4, OwnStep
<1>10. CASE t = Batch
  <2>1. \A o \in Sessions : OwnTx(o)'
    BY <1>2, <1>7, <1>10, BatchStep
  <2>2. tx'[t].log[tx[t].cur][p] = mem[tx[t].cur][p]
    BY <1>0, <1>2, <1>5, <1>10 DEF BatchCurrent
  <2>3. \A s \in Sessions, q \in Part :
          \/ tx'[t].log[s][q] = tx[t].log[s][q]
          \/ tx'[t].log[s][q] = mem[s][q]
    BY <1>3, <1>5, <2>2
  <2>4. BatchTx'
    BY <1>0, <1>2, <1>4, <1>10, Fields DEF BatchTx
  <2>0. UNCHANGED <<mem, settled, dirty, rows>>
    BY <1>2
  <2>5. BatchWritesCurrent'
    BY <1>0, <1>10, <2>0, <2>3 DEF BatchCurrent, BatchWritesCurrent
  <2>6. BatchCurrent'
    <3>1. tx[t].cur # None /\ tx[t].part = p /\ tx[t].val # Unwritten
      BY <1>2
    <3>2. tx[t].val = mem[tx[t].cur][p]
      BY <1>0, <1>10, <3>1 DEF BatchCurrent
    <3>3. tx'[t].cur = tx[t].cur /\ tx'[t].part = p /\ tx'[t].val = tx[t].val
      BY <1>4
    <3>. QED  BY <1>10, <2>0, <2>2, <2>5, <3>1, <3>2, <3>3 DEF BatchCurrent
  <2>7. \A o \in Sessions : Covered(o) => Covered(o)'
    <3> SUFFICES ASSUME NEW o \in Sessions, NEW q \in Part, Covered(o)
                 PROVE  \/ q \in dirty'[o] \/ Saved(o, q)'
                        \/ tx'[Batch].log[o][q] = mem'[o][q]
      BY DEF Covered, Saved
    <3>1. q \in dirty[o] \/ Saved(o, q) \/ tx[t].log[o][q] = mem[o][q]
      BY <1>10 DEF Covered, Saved
    <3>. QED  BY <1>10, <2>0, <2>3, <3>1 DEF Saved
  <2>8. \A o \in Sessions : Ahead(o)' = Ahead(o)
    BY <1>2, <1>4, <1>10 DEF Ahead
  <2>. QED  BY <1>2, <1>8, <2>1, <2>4, <2>6, <2>7, <2>8 DEF SafeInv, SavedInv
<1>. QED  BY <1>9, <1>10 DEF Txs

\* The mark of a part is cleared.
LEMMA FlushClearSafe ==
  ASSUME SafeInv, SavedInv, NEW t \in Txs, NEW p \in Part, FlushClear(t, p)
  PROVE  SafeInv' /\ SavedInv'
<1> USE FlushAssumption
<1>0. TypeInv /\ BatchTx /\ BatchCurrent /\ \A o \in Sessions : OwnTx(o)
  BY DEF SafeInv
<1>1. tx[t] \in TxType
  BY <1>0 DEF TypeInv
<1>2. /\ tx[t].open /\ tx[t].cur # None /\ tx[t].part = p /\ tx[t].sent
      /\ dirty' = [dirty EXCEPT ![tx[t].cur] = @ \ {p}]
      /\ tx' = [tx EXCEPT ![t] = [Advance(t) EXCEPT !.val = Unwritten, !.sent = FALSE]]
      /\ UNCHANGED <<mem, settled, life, rows, phase, todo, results, writer, faults>>
  BY DEF FlushClear, At, bounds
<1>3. tx[t].cur \in Sessions
  BY <1>1, <1>2 DEF TxType
<1>4. /\ tx'[t] \in TxType
      /\ tx'[t].open = tx[t].open /\ tx'[t].left = tx[t].left
      /\ tx'[t].cur = Advance(t).cur /\ tx'[t].part = Advance(t).part
      /\ tx'[t].val = Unwritten /\ ~tx'[t].sent /\ tx'[t].log = tx[t].log
  <2>1. Advance(t) \in TxType
    BY <1>0, AdvanceFields
  <2>2. tx'[t] = [Advance(t) EXCEPT !.val = Unwritten, !.sent = FALSE]
    BY <1>0, <1>2 DEF TypeInv
  <2>. QED  BY <1>0, <2>1, <2>2, AdvanceFields DEF TxType, Written
<1>5. \A o \in Txs \ {t} : tx'[o] = tx[o]
  BY <1>0, <1>2 DEF TypeInv
<1>6. /\ dirty' \in [Sessions -> SUBSET Part]
      /\ \A s \in Sessions : dirty'[s] = IF s = tx[t].cur THEN dirty[s] \ {p} ELSE dirty[s]
  BY <1>0, <1>2, <1>3 DEF TypeInv
<1>7. tx' \in [Txs -> TxType]
  BY <1>0, <1>2, <1>4, <1>5 DEF TypeInv
<1>8. TypeInv'
  BY <1>0, <1>2, <1>6, <1>7 DEF TypeInv
<1>9. CASE t \in Sessions
  <2>1. OwnTx(t)
    BY <1>0, <1>9
  <2>2. tx[t].cur = t
    BY <1>2, <2>1 DEF OwnTx
  <2>3. OwnTx(t)'
    BY <1>0, <1>2, <1>4, <2>1, <2>2, AdvanceFields DEF OwnTx
  <2>. QED  BY <1>2, <1>5, <1>6, <1>8, <1>9, <2>2, <2>3, OwnStep
<1>10. CASE t = Batch
  <2>1. \A o \in Sessions : OwnTx(o)'
    BY <1>2, <1>5, <1>10, BatchStep
  <2>2. phase = "flush"
    BY <1>0, <1>2, <1>10, Fields DEF BatchTx
  <2>3. BatchTx' /\ BatchCurrent'
    BY <1>0, <1>2, <1>4, <1>10, <2>2 DEF BatchTx, BatchCurrent, BatchWritesCurrent
  <2>4. tx[t].log[tx[t].cur][p] = mem[tx[t].cur][p]
    BY <1>0, <1>2, <1>10 DEF BatchCurrent
  <2>5. \A o \in Sessions : Covered(o) => Covered(o)'
    BY <1>2, <1>4, <1>6, <1>10, <2>4 DEF Covered, Saved
  <2>6. \A o \in Sessions : Ahead(o) => Ahead(o)'
    BY <1>0, <1>2, <1>4, <1>6, <1>8, <1>10, <2>2, AdvanceFields, BatchAdvances
  <2>. QED  BY <1>2, <1>8, <2>1, <2>3, <2>5, <2>6 DEF SafeInv, SavedInv
<1>. QED  BY <1>9, <1>10 DEF Txs

\* A transaction is committed or rolled back.
LEMMA CloseSafe ==
  ASSUME SafeInv, SavedInv, NEW t \in Txs, Commit(t) \/ Rollback(t)
  PROVE  SafeInv' /\ SavedInv'
<1> USE FlushAssumption
<1>0. TypeInv /\ BatchTx /\ BatchCurrent /\ \A o \in Sessions : OwnTx(o)
  BY DEF SafeInv
<1>1. tx[t] \in TxType
  BY <1>0 DEF TypeInv
<1>2. /\ tx[t].open /\ tx' = [tx EXCEPT ![t] = NoTx]
      /\ phase' = IF t = Batch THEN "idle" ELSE phase
      /\ UNCHANGED <<mem, settled, dirty, life, todo, results>>
  BY DEF Commit, Rollback, CloseTx, Flushed
<1>3. tx'[t] = NoTx /\ \A o \in Txs \ {t} : tx'[o] = tx[o]
  BY <1>0, <1>2 DEF TypeInv
<1>4. tx' \in [Txs -> TxType]
  BY <1>0, <1>2, NoTxType DEF TypeInv
<1>5. rows' \in [Sessions -> [Part -> Nat]]
  <2>1. CASE Commit(t)
    <3>1. \A s \in Sessions, p \in Part :
            tx[t].log[s][p] \in Written /\ rows[s][p] \in Nat
      BY <1>0, <1>1 DEF TxType, TypeInv
    <3>2. \A s \in Sessions, p \in Part :
            (IF tx[t].log[s][p] # Unwritten THEN tx[t].log[s][p] ELSE rows[s][p]) \in Nat
      BY <3>1 DEF Written
    <3>. QED  BY <2>1, <3>2 DEF Commit
  <2>2. CASE Rollback(t)
    BY <1>0, <2>2 DEF Rollback, TypeInv
  <2>. QED  BY <2>1, <2>2
<1>6. faults' \in Nat /\ (faults' = 0 => faults = 0 /\ Commit(t))
  BY <1>0 DEF Commit, Rollback, TypeInv
<1>7. TypeInv'
  BY <1>0, <1>2, <1>4, <1>5, <1>6 DEF TypeInv
<1>8. CASE t \in Sessions
  <2>1. OwnTx(t)
    BY <1>0, <1>8
  <2>2. OwnTx(t)'
    BY <1>3, Fields DEF OwnTx, NoLog
  <2>3. \A o \in Sessions \ {t} : rows'[o] = rows[o]
    <3> SUFFICES ASSUME NEW o \in Sessions \ {t}, Commit(t) PROVE rows'[o] = rows[o]
      BY DEF Rollback
    <3>1. tx[t].log[o] = [p \in Part |-> Unwritten] /\ rows[o] \in [Part -> Nat]
      BY <1>0, <2>1 DEF OwnTx, TypeInv
    <3>. QED  BY <3>1 DEF Commit
  <2>. QED  BY <1>2, <1>3, <1>6, <1>7, <1>8, <2>2, <2>3, OwnStep
<1>9. CASE t = Batch
  <2>1. \A o \in Sessions : OwnTx(o)'
    BY <1>2, <1>3, <1>9, BatchStep
  <2>2. BatchTx' /\ BatchCurrent'
    BY <1>2, <1>3, <1>9, Fields DEF BatchTx, BatchCurrent, BatchWritesCurrent, NoLog
  <2>3. ASSUME faults' = 0, NEW s \in Sessions, life'[s] = "live"
        PROVE  dirty'[s] = {} /\ \A p \in Part : Saved(s, p)'
    <3>1. /\ Commit(t) /\ Covered(s) /\ Ahead(s)
          /\ tx[t].cur = None /\ tx[t].left = {} /\ phase = "flush"
      BY <1>0, <1>2, <1>6, <1>9, <2>3, Fields DEF SavedInv, Commit, Flushed, BatchTx
    <3>2. dirty[s] = {}
      BY <1>9, <3>1 DEF Ahead
    <3>3. ASSUME NEW p \in Part PROVE Saved(s, p)'
      <4>1. rows'[s][p] = IF tx[t].log[s][p] # Unwritten THEN tx[t].log[s][p] ELSE rows[s][p]
        BY <3>1 DEF Commit
      <4>2. tx[t].log[s][p] \in {Unwritten, mem[s][p]}
        BY <1>0, <1>9 DEF BatchCurrent, BatchWritesCurrent
      <4>3. mem[s][p] # Unwritten /\ mem[s][p] \in Nat
        BY <1>0 DEF TypeInv, Unwritten
      <4>4. CASE tx[t].log[s][p] = mem[s][p]
        <5>1. rows'[s][p] = mem'[s][p]
          BY <1>2, <4>1, <4>3, <4>4
        <5>2. p = Events => settled'[s] <= mem'[s][p] /\ settled'[s] \in Nat
          BY <1>7 DEF TypeInv
        <5>3. mem'[s][p] \in Nat
          BY <1>7 DEF TypeInv
        <5>. QED  BY <5>1, <5>2, <5>3 DEF Saved
      <4>5. CASE tx[t].log[s][p] = Unwritten
        <5>1. Saved(s, p)
          BY <1>9, <3>1, <3>2, <4>3, <4>5 DEF Covered
        <5>2. rows'[s][p] = rows[s][p]
          BY <4>1, <4>5
        <5>. QED  BY <1>2, <5>1, <5>2 DEF Saved
      <4>. QED  BY <4>2, <4>4, <4>5
    <3>. QED  BY <1>2, <3>2, <3>3
  <2>4. SavedInv'
    BY <2>3 DEF SavedInv, Covered, Saved, Ahead
  <2>. QED  BY <1>7, <2>1, <2>2, <2>4 DEF SafeInv
<1>. QED  BY <1>8, <1>9 DEF Txs

-----------------------------------------------------------------------------
LEMMA Invariance == SafeInv /\ SavedInv /\ [Next]_vars => SafeInv' /\ SavedInv'
<1> SUFFICES ASSUME SafeInv, SavedInv, [Next]_vars PROVE SafeInv' /\ SavedInv'
  OBVIOUS
<1>1. CASE TickBegin
  <2>1. CASE Sessions = {}
    BY <1>1, <2>1 DEF TickBegin, Managed
  <2>2. CASE Sessions # {}
    BY <1>1, <2>2, TickSafe
  <2>. QED  BY <2>1, <2>2
<1>2. CASE TickStep
  BY <1>2, BatchBeginSafe, TickSafe DEF TickStep
<1>3. ASSUME NEW s \in Sessions, ExpiryBegin(s) \/ ExpiryEnd(s)
      PROVE  SafeInv' /\ SavedInv'
  BY <1>3, ExpirySafe
<1>4. ASSUME NEW t \in Txs, FlushStep(t)
      PROVE  SafeInv' /\ SavedInv'
  BY <1>4, FlushNextSafe, FlushCleanSafe, FlushReadSafe, FlushWriteSafe, FlushClearSafe,
     CloseSafe DEF FlushStep
<1>5. CASE UNCHANGED vars
  BY <1>5 DEF vars, bounds, SafeInv, SavedInv, TypeInv, OwnTx, BatchTx, BatchCurrent,
     BatchWritesCurrent, Covered, Saved, Ahead
<1>. QED  BY <1>1, <1>2, <1>3, <1>4, <1>5 DEF Next

LEMMA Inductive == Spec => [](SafeInv /\ SavedInv)
  BY InitSafe, Invariance, PTL DEF Spec

\* What a batch is about to commit is what memory holds, for any number of
\* sessions, parts and expiring sessions, and however transactions fail
\* (BatchFlush, FlushAll).
THEOREM BatchIsCurrent == Spec => []BatchWritesCurrent
<1>1. SafeInv => BatchWritesCurrent
  BY DEF SafeInv, BatchCurrent
<1>. QED  BY <1>1, Inductive, PTL

\* While nothing has failed, a round leaves nothing marked of a live session,
\* and nothing unsaved but progress that only the fast path has made since the
\* last marked change, whatever the expiring ones write meanwhile (tickRound).
THEOREM RoundSaves == Spec => []SavedUnlessFault
<1>1. SafeInv /\ SavedInv => SavedUnlessFault
  <2> SUFFICES ASSUME SafeInv, SavedInv, faults = 0, phase = "idle",
                      NEW s \in Sessions, life[s] = "live"
               PROVE  dirty[s] = {} /\ \A p \in Part : Saved(s, p)
    BY DEF SavedUnlessFault
  <2>1. Covered(s) /\ Ahead(s)
    BY DEF SavedInv
  <2>2. dirty[s] = {}
    BY <2>1 DEF Ahead
  <2>3. tx[Batch] = NoTx
    BY DEF SafeInv, BatchTx
  <2>4. mem[s] \in [Part -> Nat]
    BY DEF SafeInv, TypeInv
  <2>5. \A p \in Part : tx[Batch].log[s][p] # mem[s][p]
    BY <2>3, <2>4, Fields DEF NoLog, Unwritten
  <2>. QED  BY <2>1, <2>2, <2>5 DEF Covered
<1>. QED  BY <1>1, Inductive, PTL
=============================================================================
