--------------------------- MODULE EventQueueProofs ---------------------------
(***************************************************************************)
(* Proofs about EventQueue, for every configuration, every number of       *)
(* queues, every bound and every amount of elapsed time: its type          *)
(* invariant, in which stock and progress are never negative; no event is  *)
(* executed behind a closed gate; every unit of material is accounted for; *)
(* a round that is over is durable; the fast path loses no time; the rows  *)
(* of a clean queue are its entries; and a call of Settle has no infinite  *)
(* run, since each of its iterations has a lower rank than the one before. *)
(*                                                                         *)
(* Then the queues with a client (QueueClient): they are still the queues, *)
(* and the client lists what is queued.                                    *)
(***************************************************************************)
EXTENDS QueueClient, FiniteSetTheorems, SequenceTheorems, WellFoundedInduction, TLAPS

-----------------------------------------------------------------------------
(* Induction over the natural numbers, as a least element: the library's   *)
(* induction theorems take a predicate as a parameter.                     *)

Below == {ss \in Nat \X Nat : ss[1] < ss[2]}

\* Every non-empty set of natural numbers has a least element.
LEMMA LeastElement ==
  ASSUME NEW T, T \subseteq Nat, T # {}
  PROVE  \E x \in T : \A y \in T : x <= y
<1>1. IsWellFoundedOn(Below, Nat)
  BY NatLessThanWellFounded DEF OpToRel, Below
<1>2. PICK x \in T : \A y \in T : ~(<<y, x>> \in Below)
  BY <1>1, WFMin
<1>3. ASSUME NEW y \in T PROVE x <= y
  <2>1. ~(<<y, x>> \in Below)
    BY <1>2
  <2>2. ~(y < x)
    BY <2>1 DEF Below
  <2>3. x \in Nat /\ y \in Nat
    OBVIOUS
  <2> QED BY <2>2, <2>3
<1> QED BY <1>3

\* Of the finite sets with a property there is a smallest one.
LEMMA SmallestSet ==
  ASSUME NEW C, C # {}, \A s \in C : IsFiniteSet(s)
  PROVE  \E s \in C : \A t \in C : Cardinality(s) <= Cardinality(t)
<1>. DEFINE N == {Cardinality(s) : s \in C}
<1>1. N \subseteq Nat /\ N # {}
  BY FS_CardinalityType
<1>2. PICK n \in N : \A k \in N : n <= k
  BY <1>1, LeastElement
<1>. QED  BY <1>2

-----------------------------------------------------------------------------
(* Sums                                                                    *)

Pick(s) == CHOOSE x \in s : TRUE

Partial(f, S, g) ==
  g = [s \in SUBSET S |-> IF s = {} THEN 0 ELSE f[Pick(s)] + g[s \ {Pick(s)}]]

LEMMA SumIsPartial ==
  ASSUME NEW f
  PROVE  SumFunction(f) = (CHOOSE g : Partial(f, DOMAIN f, g))[DOMAIN f]
  BY DEF SumFunction, SumFunctionOnSet, FoldFunctionOnSet, MapThenFoldSet, Partial, Pick

LEMMA Picked ==
  ASSUME NEW s, s # {}, IsFiniteSet(s)
  PROVE  /\ Pick(s) \in s /\ IsFiniteSet(s \ {Pick(s)})
         /\ Cardinality(s) \in Nat /\ Cardinality(s \ {Pick(s)}) = Cardinality(s) - 1
  BY FS_RemoveElement, FS_CardinalityType DEF Pick

\* The recursion by which sums are defined has a solution.
LEMMA PartialExists ==
  ASSUME NEW S, IsFiniteSet(S), NEW f \in [S -> Int]
  PROVE  \E g : Partial(f, S, g)
<1>. DEFINE Next1(g, s) == IF s = {} THEN 0 ELSE f[Pick(s)] + g[s \ {Pick(s)}]
            Upto(n) == \E g \in [SUBSET S -> Int] :
                         \A s \in SUBSET S : Cardinality(s) <= n => g[s] = Next1(g, s)
            Bad == {n \in Nat : ~Upto(n)}
<1>1. \A s \in SUBSET S : IsFiniteSet(s) /\ Cardinality(s) \in Nat
  BY FS_Subset, FS_CardinalityType
<1>2. Upto(0)
  <2>1. \A s \in SUBSET S : Cardinality(s) <= 0 => s = {}
    BY <1>1, FS_EmptySet
  <2>2. [s \in SUBSET S |-> 0] \in [SUBSET S -> Int]
    OBVIOUS
  <2>. QED  BY <2>1, <2>2
<1>3. ASSUME NEW n \in Nat, Upto(n) PROVE Upto(n + 1)
  <2>1. PICK g \in [SUBSET S -> Int] : \A s \in SUBSET S : Cardinality(s) <= n => g[s] = Next1(g, s)
    BY <1>3
  <2>. DEFINE h == [s \in SUBSET S |-> IF Cardinality(s) <= n THEN g[s] ELSE Next1(g, s)]
  <2>2. ASSUME NEW s \in SUBSET S, s # {}
        PROVE  /\ Pick(s) \in S /\ s \ {Pick(s)} \in SUBSET S
               /\ Cardinality(s \ {Pick(s)}) = Cardinality(s) - 1
    BY <2>2, <1>1, Picked
  <2>3. ASSUME NEW s \in SUBSET S PROVE Next1(g, s) \in Int
    <3>1. CASE s = {}
      BY <3>1
    <3>2. CASE s # {}
      <4>1. Pick(s) \in S /\ s \ {Pick(s)} \in SUBSET S
        BY <2>2, <3>2
      <4>2. f[Pick(s)] \in Int /\ g[s \ {Pick(s)}] \in Int
        BY <4>1
      <4>. QED  BY <4>2, <3>2
    <3>. QED  BY <3>1, <3>2
  <2>4. h \in [SUBSET S -> Int]
    BY <2>3
  <2>5. ASSUME NEW s \in SUBSET S, Cardinality(s) <= n + 1 PROVE h[s] = Next1(h, s)
    <3>1. CASE s = {}
      <4>1. Cardinality(s) = 0
        BY <3>1, FS_EmptySet
      <4>. QED  BY <3>1, <4>1, <2>1
    <3>2. CASE s # {}
      <4>1. Cardinality(s \ {Pick(s)}) <= n
        BY <3>2, <2>2, <2>5, <1>1
      <4>2. h[s \ {Pick(s)}] = g[s \ {Pick(s)}]
        BY <4>1, <3>2, <2>2
      <4>3. h[s] = Next1(g, s)
        BY <2>1
      <4>. QED  BY <4>2, <4>3, <3>2
    <3>. QED  BY <3>1, <3>2
  <2>. HIDE DEF h
  <2>. QED  BY <2>4, <2>5
<1>. HIDE DEF Upto
<1>4. Bad = {}
  <2>1. SUFFICES ASSUME Bad # {} PROVE FALSE
    OBVIOUS
  <2>2. PICK n \in Bad : \A k \in Bad : n <= k
    BY <2>1, LeastElement
  <2>3. n # 0
    BY <1>2, <2>2
  <2>4. n - 1 \in Nat /\ n - 1 \notin Bad
    BY <2>2, <2>3
  <2>. QED  BY <2>4, <2>2, <1>3
<1>5. Upto(Cardinality(S))
  BY <1>4, FS_CardinalityType
<1>6. PICK g \in [SUBSET S -> Int] :
        \A s \in SUBSET S : Cardinality(s) <= Cardinality(S) => g[s] = Next1(g, s)
  BY <1>5 DEF Upto
<1>7. \A s \in SUBSET S : g[s] = Next1(g, s)
  BY <1>6, FS_Subset
<1>8. g = [s \in SUBSET S |-> Next1(g, s)]
  BY <1>7
<1>. QED  BY <1>8 DEF Partial

Plus(f, y, n) == [f EXCEPT ![y] = @ + n]

\* Adding n to one term adds it to each partial sum with that term.
LEMMA PartialChanged ==
  ASSUME NEW D, IsFiniteSet(D), NEW f \in [D -> Int], NEW y \in D, NEW n \in Int,
         NEW e, e = Plus(f, y, n),
         NEW g, Partial(f, D, g), NEW h, Partial(e, D, h)
  PROVE  \A s \in SUBSET D : /\ g[s] \in Int
                             /\ h[s] = g[s] + (IF y \in s THEN n ELSE 0)
<1>. DEFINE Good(s) == g[s] \in Int /\ h[s] = g[s] + (IF y \in s THEN n ELSE 0)
            C == {s \in SUBSET D : ~Good(s)}
<1>1. SUFFICES ASSUME C # {} PROVE FALSE
  OBVIOUS
<1>2. \A s \in C : IsFiniteSet(s)
  BY FS_Subset
<1>3. PICK s \in C : \A t \in C : Cardinality(s) <= Cardinality(t)
  BY <1>1, <1>2, SmallestSet
<1>. DEFINE x == Pick(s)
            r == s \ {x}
<1>4. /\ g[s] = IF s = {} THEN 0 ELSE f[x] + g[r]
      /\ h[s] = IF s = {} THEN 0 ELSE e[x] + h[r]
  BY DEF Partial
<1>5. s # {}
  BY <1>3, <1>4
<1>6. x \in s /\ x \in D /\ Cardinality(s) \in Nat /\ Cardinality(r) = Cardinality(s) - 1
  BY <1>5, <1>2, Picked
<1>7. r \notin C
  BY <1>6, <1>3
<1>8. Good(r)
  BY <1>7
<1>9. f[x] \in Int /\ e[x] = f[x] + (IF y = x THEN n ELSE 0)
  BY <1>6 DEF Plus
<1>10. y \in s <=> y = x \/ y \in r
  BY <1>6
<1>11. y = x => y \notin r
  OBVIOUS
<1>. HIDE DEF x, r
<1>. QED  BY <1>3, <1>4, <1>5, <1>8, <1>9, <1>10, <1>11

\* Changing one value changes the sum by as much.
LEMMA SumChanged ==
  ASSUME NEW D, IsFiniteSet(D), NEW f \in [D -> Int], NEW y \in D, NEW n \in Int,
         NEW e, e = Plus(f, y, n)
  PROVE  SumFunction(f) \in Int /\ SumFunction(e) = SumFunction(f) + n
<1>. DEFINE g == CHOOSE g : Partial(f, D, g)
            h == CHOOSE h : Partial(e, D, h)
<1>1. e \in [D -> Int] /\ DOMAIN e = D /\ DOMAIN f = D
  BY DEF Plus
<1>2. Partial(f, D, g)
  BY PartialExists
<1>3. Partial(e, D, h)
  BY <1>1, PartialExists
<1>4. SumFunction(f) = g[D] /\ SumFunction(e) = h[D]
  BY <1>1, SumIsPartial
<1>. HIDE DEF g, h
<1>5. \A s \in SUBSET D : g[s] \in Int /\ h[s] = g[s] + (IF y \in s THEN n ELSE 0)
  BY <1>2, <1>3, PartialChanged
<1>6. g[D] \in Int /\ h[D] = g[D] + n
  BY <1>5
<1>. QED  BY <1>4, <1>6

LEMMA SumOfZeros ==
  ASSUME NEW D, IsFiniteSet(D), NEW f \in [D -> Int], \A x \in D : f[x] = 0
  PROVE  SumFunction(f) = 0
<1>. DEFINE g == CHOOSE g : Partial(f, D, g)
            C == {s \in SUBSET D : g[s] # 0}
<1>1. Partial(f, D, g) /\ SumFunction(f) = g[D]
  BY PartialExists, SumIsPartial
<1>. HIDE DEF g
<1>2. SUFFICES ASSUME C # {} PROVE FALSE
  BY <1>1
<1>3. \A s \in C : IsFiniteSet(s)
  BY FS_Subset
<1>4. PICK s \in C : \A t \in C : Cardinality(s) <= Cardinality(t)
  BY <1>2, <1>3, SmallestSet
<1>5. g[s] = IF s = {} THEN 0 ELSE f[Pick(s)] + g[s \ {Pick(s)}]
  BY <1>1 DEF Partial
<1>6. s # {}
  BY <1>4, <1>5
<1>7. /\ Pick(s) \in D /\ Cardinality(s) \in Nat
      /\ Cardinality(s \ {Pick(s)}) = Cardinality(s) - 1
  BY <1>6, <1>3, Picked
<1>8. s \ {Pick(s)} \notin C
  BY <1>7, <1>4
<1>. QED  BY <1>4, <1>5, <1>6, <1>7, <1>8

-----------------------------------------------------------------------------
(* Operators on a queue                                                    *)

\* The head of a queue that is not empty is an entry.
LEMMA HeadType ==
  ASSUME NEW s \in Seq(Entry), s # <<>>
  PROVE  s[1] \in Entry /\ 1 \in 1..Len(s) /\ Len(s) \in Nat
  OBVIOUS

LEMMA RemoveAtType ==
  ASSUME NEW s \in Seq(Entry), NEW i \in 1..Len(s)
  PROVE  RemoveAt(s, i) \in Seq(Entry)
<1>1. SubSeq(s, 1, i - 1) \in Seq(Entry)
  BY SubSeqProperties, LenProperties
<1>2. SubSeq(s, i + 1, Len(s)) \in Seq(Entry)
  BY SubSeqProperties, LenProperties
<1> QED BY <1>1, <1>2, ConcatProperties DEF RemoveAt

LEMMA InsertAtType ==
  ASSUME NEW s \in Seq(Entry), NEW i \in 1..(Len(s) + 1), NEW e \in Entry
  PROVE  InsertAt(s, i, e) \in Seq(Entry)
<1>1. SubSeq(s, 1, i - 1) \in Seq(Entry)
  BY SubSeqProperties, LenProperties
<1>2. SubSeq(s, i, Len(s)) \in Seq(Entry)
  BY SubSeqProperties, LenProperties
<1>3. SubSeq(s, 1, i - 1) \o <<e>> \in Seq(Entry)
  BY <1>1, ConcatProperties
<1> QED BY <1>2, <1>3, ConcatProperties DEF InsertAt

LEMMA RepositionType ==
  ASSUME NEW e \in Entry, NEW p \in Nat
  PROVE  [e EXCEPT !.pos = p] \in Entry
  BY DEF Entry

LEMMA RenumberType ==
  ASSUME NEW s \in Seq(Entry), NEW from \in Int
  PROVE  Renumber(s, from) \in Seq(Entry)
<1>1. ASSUME NEW i \in 1..Len(s)
      PROVE  (IF i >= from THEN [s[i] EXCEPT !.pos = i - 1] ELSE s[i]) \in Entry
  <2>1. s[i] \in Entry /\ i - 1 \in Nat
    OBVIOUS
  <2> QED BY <2>1, RepositionType
<1> QED BY <1>1 DEF Renumber

LEMMA NewEntryType ==
  ASSUME NEW p \in Nat, NEW e \in Ids, NEW t \in Int
  PROVE  NewEntry(p, e, t) \in Entry
  BY DEF NewEntry, Entry

\* Consuming an entry leaves a queue.
LEMMA ConsumeType ==
  ASSUME NEW s \in Seq(Entry), NEW i \in 1..Len(s)
  PROVE  Consume(s, i) \in Seq(Entry)
  BY RemoveAtType, RenumberType DEF Consume

LEMMA MoveType ==
  ASSUME NEW s \in Seq(Entry), NEW f \in 1..Len(s), NEW t \in 1..Len(s)
  PROVE  Move(s, f, t) \in Seq(Entry)
<1> DEFINE a == SubSeq(s, 1, f - 1)
           b == SubSeq(s, f + 1, Len(s))
<1>1. RemoveAt(s, f) \in Seq(Entry) /\ Len(RemoveAt(s, f)) = Len(s) - 1
  <2>1. a \in Seq(Entry) /\ Len(a) = f - 1
    BY SubSeqProperties, LenProperties
  <2>2. b \in Seq(Entry) /\ Len(b) = Len(s) - f
    BY SubSeqProperties, LenProperties
  <2>3. RemoveAt(s, f) = a \o b
    BY DEF RemoveAt
  <2> HIDE DEF a, b
  <2>4. a \o b \in Seq(Entry) /\ Len(a \o b) = Len(a) + Len(b)
    BY <2>1, <2>2, ConcatProperties
  <2> QED BY <2>1, <2>2, <2>3, <2>4
<1>2. t \in 1..(Len(RemoveAt(s, f)) + 1) /\ s[f] \in Entry
  BY <1>1
<1>3. InsertAt(RemoveAt(s, f), t, s[f]) \in Seq(Entry)
  BY <1>1, <1>2, InsertAtType
<1> QED BY <1>3, RenumberType DEF Move

LEMMA InsertType ==
  ASSUME NEW s \in Seq(Entry), NEW i \in 1..(Len(s) + 1),
         NEW e \in Ids, NEW t \in Int
  PROVE  Insert(s, i, e, t) \in Seq(Entry)
  BY NewEntryType, InsertAtType, RenumberType DEF Insert

LEMMA NextPosType ==
  ASSUME NEW s \in Seq(Entry)
  PROVE  NextPos(s) \in Nat
<1>1. CASE s = <<>>
  BY <1>1 DEF NextPos
<1>2. CASE s # <<>>
  <2>1. s[Len(s)] \in Entry
    BY <1>2
  <2> QED BY <1>2, <2>1 DEF NextPos, Entry
<1> QED BY <1>1, <1>2

LEMMA SwapType ==
  ASSUME NEW s \in Seq(Entry), NEW i \in 2..Len(s)
  PROVE  Swap(s, i) \in Seq(Entry)
<1>1. s[1] \in Entry /\ s[i] \in Entry
  OBVIOUS
<1> QED BY <1>1 DEF Swap

\* The fast path's change of the head.
LEMMA AdvancedType ==
  ASSUME NEW s \in Seq(Entry), s # <<>>, s[1].ev \in Events, Looping(s[1].ev),
         NEW d \in Nat
  PROVE  Advanced(s, d) \in Seq(Entry)
<1> DEFINE h == s[1]
           lt == LoopTime[h.ev]
           p == IF h.progress + d >= lt THEN lt - 1 ELSE h.progress + d
<1>1. h \in Entry /\ lt \in Nat \ {0}
  BY HeadType, ConfigAssumption DEF Looping
<1>2. h.progress \in Nat
  BY <1>1 DEF Entry
<1>3. p \in Nat
  BY <1>1, <1>2
<1>4. Advanced(s, d) = [s EXCEPT ![1].progress = p]
  BY DEF Advanced
<1> HIDE DEF p
<1>5. [h EXCEPT !.progress = p] \in Entry
  BY <1>1, <1>3 DEF Entry
<1>6. [s EXCEPT ![1].progress = p] = [s EXCEPT ![1] = [h EXCEPT !.progress = p]]
  OBVIOUS
<1> QED BY <1>4, <1>5, <1>6, HeadType, ExceptSeq

\* A loop event's head after n cycles in d seconds.
LEMMA ProgressType ==
  ASSUME NEW s \in Seq(Entry), s # <<>>, NEW p \in Nat, NEW t \in Int
  PROVE  [s EXCEPT ![1].progress = p, ![1].target = t] \in Seq(Entry)
<1> DEFINE h == [s[1] EXCEPT !.progress = p, !.target = t]
<1>1. h \in Entry
  BY HeadType DEF Entry
<1>2. [s EXCEPT ![1].progress = p, ![1].target = t] = [s EXCEPT ![1] = h]
  OBVIOUS
<1>3. 1 \in 1..Len(s)
  BY HeadType
<1> HIDE DEF h
<1>4. [s EXCEPT ![1] = h] \in Seq(Entry)
  BY <1>1, <1>3, ExceptSeq
<1> QED BY <1>2, <1>4

\* Consuming the head makes a queue shorter.
LEMMA ConsumeShortens ==
  ASSUME NEW s \in Seq(Entry), s # <<>>
  PROVE  Len(Consume(s, 1)) < Len(s)
<1> DEFINE a == SubSeq(s, 1, 0)
           b == SubSeq(s, 2, Len(s))
           N == Len(s)
<1>1. N \in Nat /\ N > 0 /\ \A i \in 2..N : s[i] \in Entry
  OBVIOUS
<1>2. a \in Seq(Entry) /\ Len(a) = 0
  BY SubSeqProperties
<1>3. b \in Seq(Entry) /\ Len(b) = IF 2 <= N THEN N - 2 + 1 ELSE 0
  BY <1>1, SubSeqProperties
<1>4. RemoveAt(s, 1) = a \o b
  BY DEF RemoveAt
<1> HIDE DEF a, b, N
<1>5. Len(b) = N - 1
  BY <1>1, <1>3
<1>6. Len(a \o b) = Len(a) + Len(b)
  BY <1>2, <1>3, ConcatProperties
<1>7. Len(RemoveAt(s, 1)) = N - 1 /\ N - 1 \in Nat
  BY <1>1, <1>2, <1>4, <1>5, <1>6
<1>8. Len(Consume(s, 1)) = Len(RemoveAt(s, 1))
  BY <1>7 DEF Consume, Renumber
<1>. QED  BY <1>1, <1>7, <1>8 DEF N

-----------------------------------------------------------------------------
(* The rows of the table                                                   *)

LEMMA EmptyRowType == EmptyRow \in Row
  BY DEF EmptyRow, Row

LEMMA RowOfType ==
  ASSUME NEW e \in Entry
  PROVE  RowOf(e) \in Row
  BY DEF RowOf, Entry, Row

\* Flushing a queue writes rows.
LEMMA FlushRowsType ==
  ASSUME NEW rows \in [0..MaxPos -> Row], NEW s \in Seq(Entry)
  PROVE  FlushRows(rows, s) \in [0..MaxPos -> Row]
<1> DEFINE at(p) == {i \in 1..Len(s) : s[i].pos = p}
           last(p) == CHOOSE i \in at(p) : \A j \in at(p) : j <= i
           cell(p) == IF p >= NextPos(s) THEN EmptyRow
                      ELSE IF at(p) = {} THEN rows[p] ELSE RowOf(s[last(p)])
<1>1. FlushRows(rows, s) = [p \in 0..MaxPos |-> cell(p)]
  BY DEF FlushRows
<1>2. ASSUME NEW p \in 0..MaxPos, at(p) # {}
      PROVE  last(p) \in at(p)
  <2> DEFINE fromEnd == {Len(s) - i : i \in at(p)}
  <2>1. fromEnd \subseteq Nat /\ fromEnd # {}
    BY <1>2
  <2>2. PICK k \in fromEnd : \A l \in fromEnd : k <= l
    BY <2>1, LeastElement
  <2>3. PICK i \in at(p) : k = Len(s) - i
    BY <2>2
  <2>4. \A j \in at(p) : Len(s) - i <= Len(s) - j
    BY <2>2, <2>3
  <2>5. \A j \in at(p) : j <= i
    BY <2>4
  <2> QED BY <2>3, <2>5
<1>3. ASSUME NEW p \in 0..MaxPos PROVE cell(p) \in Row
  <2>1. CASE at(p) # {}
    <3>1. last(p) \in 1..Len(s)
      BY <1>2, <2>1
    <3>2. s[last(p)] \in Entry
      BY <3>1
    <3> QED BY <2>1, <3>2, RowOfType, EmptyRowType
  <2>2. CASE at(p) = {}
    BY <2>2, EmptyRowType
  <2> QED BY <2>1, <2>2
<1> HIDE DEF cell
<1> QED BY <1>1, <1>3

\* f is the picking of the items at the places in keep, for the first m places.
Picking(s, keep, m, f) == f = [n \in 0..m |-> KeptStep(s, keep, f, n)]

\* The recursion by which items are picked has a solution.
LEMMA PickingExists ==
  ASSUME NEW s, NEW keep, NEW N \in Nat
  PROVE  \E f : Picking(s, keep, N, f)
<1> DEFINE Stuck == {m \in Nat : ~\E f : Picking(s, keep, m, f)}
<1> SUFFICES ASSUME Stuck # {} PROVE FALSE
  OBVIOUS
<1>1. PICK m \in Stuck : \A k \in Stuck : m <= k
  <2>1. Stuck \subseteq Nat
    OBVIOUS
  <2> HIDE DEF Stuck
  <2> QED BY <2>1, LeastElement
<1>2. m \in Nat /\ ~\E f : Picking(s, keep, m, f)
  BY <1>1
<1>3. CASE m = 0
  <2> DEFINE f == [n \in 0..m |-> <<>>]
  <2>1. \A n \in 0..m : KeptStep(s, keep, f, n) = <<>>
    BY <1>3 DEF KeptStep
  <2>2. f = [n \in 0..m |-> KeptStep(s, keep, f, n)]
    BY <2>1
  <2> QED BY <1>2, <2>2 DEF Picking
<1>4. CASE m > 0
  <2>1. m - 1 \in Nat /\ m - 1 \notin Stuck
    <3>1. m - 1 \in Nat
      BY <1>2, <1>4
    <3> HIDE DEF Stuck
    <3> QED BY <1>1, <1>2, <3>1
  <2>2. PICK f : Picking(s, keep, m - 1, f)
    BY <2>1
  <2> DEFINE last == KeptStep(s, keep, f, m)
             g == [n \in 0..m |-> IF n = m THEN last ELSE f[n]]
  <2>3. ASSUME NEW n \in 0..m PROVE g[n] = KeptStep(s, keep, g, n)
    <3>1. n > 0 => g[n - 1] = f[n - 1]
      BY <1>2
    <3>2. KeptStep(s, keep, g, n) = KeptStep(s, keep, f, n)
      BY <3>1 DEF KeptStep
    <3>3. n # m => f[n] = KeptStep(s, keep, f, n)
      BY <1>2, <2>2 DEF Picking
    <3> QED BY <3>2, <3>3
  <2>4. g = [n \in 0..m |-> KeptStep(s, keep, g, n)]
    BY <2>3
  <2> HIDE DEF g
  <2> QED BY <1>2, <2>4 DEF Picking
<1> QED BY <1>2, <1>3, <1>4

\* t holds the items of s at the places in K, each once.
Picks(s, K, t) ==
  /\ t \in Seq({s[k] : k \in K})
  /\ \E h \in [1..Len(t) -> K] :
       /\ \A i, j \in 1..Len(t) : h[i] = h[j] => i = j
       /\ \A k \in K : \E i \in 1..Len(t) : h[i] = k
       /\ \A i \in 1..Len(t) : t[i] = s[h[i]]

LEMMA PickNone ==
  ASSUME NEW s
  PROVE  Picks(s, {}, <<>>)
<1>1. <<>> \in Seq({s[k] : k \in {}}) /\ Len(<<>>) = 0
  OBVIOUS
<1>2. [i \in 1..0 |-> 0] \in [1..0 -> {}]
  OBVIOUS
<1>. QED  BY <1>1, <1>2 DEF Picks

LEMMA PickOneMore ==
  ASSUME NEW s, NEW K, NEW u, Picks(s, K, u), NEW m, m \notin K
  PROVE  Picks(s, K \cup {m}, Append(u, s[m]))
<1> DEFINE t == Append(u, s[m])
           M == K \cup {m}
           T == {s[k] : k \in M}
<1>1. PICK h \in [1..Len(u) -> K] :
        /\ \A i, j \in 1..Len(u) : h[i] = h[j] => i = j
        /\ \A k \in K : \E i \in 1..Len(u) : h[i] = k
        /\ \A i \in 1..Len(u) : u[i] = s[h[i]]
  BY DEF Picks
<1>2. u \in Seq(T) /\ s[m] \in T
  <2>1. u \in Seq({s[k] : k \in K}) /\ {s[k] : k \in K} \subseteq T
    BY DEF Picks
  <2>2. s[m] \in T
    OBVIOUS
  <2> HIDE DEF T
  <2>. QED  BY <2>1, <2>2
<1> HIDE DEF T
<1>3. /\ t \in Seq(T) /\ Len(t) = Len(u) + 1 /\ Len(u) \in Nat
      /\ t[Len(u) + 1] = s[m] /\ \A i \in 1..Len(u) : t[i] = u[i]
  BY <1>2
<1> HIDE DEF t
<1> DEFINE g == [i \in 1..Len(t) |-> IF i = Len(t) THEN m ELSE h[i]]
<1>4. \A i \in 1..Len(t) : i = Len(t) \/ i \in 1..Len(u)
  BY <1>3
<1>5. g \in [1..Len(t) -> M]
  BY <1>4
<1>6. ASSUME NEW i \in 1..Len(t), NEW j \in 1..Len(t), g[i] = g[j] PROVE i = j
  <2>1. \A k \in 1..Len(u) : h[k] # m
    OBVIOUS
  <2>. QED  BY <1>1, <1>4, <1>6, <2>1
<1>7. ASSUME NEW k \in M PROVE \E i \in 1..Len(t) : g[i] = k
  <2>1. CASE k = m
    BY <1>3, <2>1
  <2>2. CASE k # m
    <3>1. PICK i \in 1..Len(u) : h[i] = k
      BY <1>1, <2>2
    <3>. QED  BY <1>3, <3>1
  <2>. QED  BY <2>1, <2>2
<1>8. ASSUME NEW i \in 1..Len(t) PROVE t[i] = s[g[i]]
  BY <1>1, <1>3, <1>4
<1> HIDE DEF g, M
<1>9. Picks(s, M, t)
  BY <1>3, <1>5, <1>6, <1>7, <1>8 DEF Picks, T
<1>. QED  BY <1>9 DEF M, t

LEMMA PickNext ==
  ASSUME NEW s, NEW keep, NEW m \in Nat \ {0}, NEW f,
         Picks(s, keep \cap (1..(m - 1)), f[m - 1])
  PROVE  Picks(s, keep \cap (1..m), KeptStep(s, keep, f, m))
<1>1. CASE m \notin keep
  <2>1. keep \cap (1..m) = keep \cap (1..(m - 1))
    BY <1>1
  <2>2. KeptStep(s, keep, f, m) = f[m - 1]
    BY <1>1 DEF KeptStep
  <2>. QED  BY <2>1, <2>2
<1>2. CASE m \in keep
  <2> DEFINE K == keep \cap (1..(m - 1))
             u == f[m - 1]
  <2>1. KeptStep(s, keep, f, m) = Append(u, s[m])
    BY <1>2 DEF KeptStep
  <2>2. keep \cap (1..m) = K \cup {m} /\ m \notin K
    BY <1>2
  <2>3. Picks(s, K, u)
    OBVIOUS
  <2> HIDE DEF K, u
  <2>4. Picks(s, K \cup {m}, Append(u, s[m]))
    BY <2>2, <2>3, PickOneMore
  <2>. QED  BY <2>1, <2>2, <2>4
<1>. QED  BY <1>1, <1>2

\* Kept is what it says, for sequences of any length.
LEMMA KeptPicks ==
  ASSUME NEW s, NEW keep, Len(s) \in Nat
  PROVE  Picks(s, keep \cap (1..Len(s)), Kept(s, keep))
<1> DEFINE kept == CHOOSE f : Picking(s, keep, Len(s), f)
<1>1. Kept(s, keep) = kept[Len(s)]
  BY DEF Kept, Picking
<1>2. Picking(s, keep, Len(s), kept)
  BY PickingExists
<1> HIDE DEF kept
<1>3. \A n \in 0..Len(s) : kept[n] = KeptStep(s, keep, kept, n)
  BY <1>2 DEF Picking
<1> DEFINE Right(n) == Picks(s, keep \cap (1..n), kept[n])
           Wrong == {n \in 0..Len(s) : ~Right(n)}
<1>4. Wrong = {}
  <2> SUFFICES ASSUME Wrong # {} PROVE FALSE
    OBVIOUS
  <2>1. PICK m \in Wrong : \A k \in Wrong : m <= k
    <3>1. Wrong \subseteq Nat
      OBVIOUS
    <3> HIDE DEF Wrong
    <3> QED BY <3>1, LeastElement
  <2>2. CASE m = 0
    <3>1. kept[m] = <<>>
      BY <1>3, <2>2 DEF KeptStep
    <3>2. keep \cap (1..0) = {}
      OBVIOUS
    <3>. QED  BY <2>2, <3>1, <3>2, PickNone
  <2>3. CASE m # 0
    <3>1. m - 1 \in 0..Len(s) /\ m \in Nat \ {0}
      BY <2>3
    <3>2. m - 1 \notin Wrong
      <4> HIDE DEF Wrong
      <4>. QED  BY <2>1, <3>1
    <3>3. Picks(s, keep \cap (1..(m - 1)), kept[m - 1])
      BY <3>1, <3>2
    <3>4. Picks(s, keep \cap (1..m), KeptStep(s, keep, kept, m))
      BY <3>1, <3>3, PickNext
    <3>. QED  BY <1>3, <3>4
  <2>. QED  BY <2>2, <2>3
<1>5. Len(s) \in 0..Len(s)
  OBVIOUS
<1>6. Right(Len(s))
  <2> HIDE DEF Right
  <2>. QED  BY <1>4, <1>5
<1>. QED  BY <1>1, <1>6

\* s holds the entries of the rows in use: each entry is that of such a row,
\* and each such row has its entry.
Loaded(rows, s) ==
  /\ \A i \in 1..Len(s) :
       /\ s[i].pos \in 0..MaxPos
       /\ s[i] = EntryAt(rows, s[i].pos)
       /\ rows[s[i].pos].ev # NoEvent
  /\ \A p \in 0..MaxPos :
       rows[p].ev # NoEvent => \E i \in 1..Len(s) : s[i].pos = p

\* What Load gives back is a queue, which holds what the rows hold.
LEMMA LoadRowsType ==
  ASSUME NEW rows \in [0..MaxPos -> Row]
  PROVE  LoadRows(rows) \in Seq(Entry) /\ Loaded(rows, LoadRows(rows))
<1> DEFINE all == [n \in 1..(MaxPos + 1) |-> EntryAt(rows, n - 1)]
           used == {n \in 1..(MaxPos + 1) : rows[n - 1].ev # NoEvent}
           t == LoadRows(rows)
<1>1. MaxPos + 1 \in Nat /\ Len(all) = MaxPos + 1
  BY InputAssumption
<1>2. ASSUME NEW n \in used PROVE all[n] \in Entry /\ all[n].pos = n - 1
  <2>1. n - 1 \in 0..MaxPos /\ rows[n - 1] \in Row
    BY InputAssumption
  <2>2. rows[n - 1].ev \in Ids
    BY <2>1 DEF Row
  <2>. QED  BY <2>1, <2>2 DEF EntryAt, Row, Entry
<1>3. t = Kept(all, used)
  BY DEF LoadRows
<1>4. used \cap (1..(MaxPos + 1)) = used
  OBVIOUS
<1> HIDE DEF all, used, t
<1>5. Picks(all, used, t)
  BY <1>1, <1>3, <1>4, KeptPicks
<1>6. t \in Seq(Entry)
  <2>1. {all[k] : k \in used} \subseteq Entry
    BY <1>2
  <2>2. t \in Seq({all[k] : k \in used})
    BY <1>5 DEF Picks
  <2>. QED  BY <2>1, <2>2
<1>7. PICK h \in [1..Len(t) -> used] :
        /\ \A k \in used : \E i \in 1..Len(t) : h[i] = k
        /\ \A i \in 1..Len(t) : t[i] = all[h[i]]
  BY <1>5 DEF Picks
<1>8. ASSUME NEW i \in 1..Len(t)
      PROVE  /\ t[i].pos \in 0..MaxPos
             /\ t[i] = EntryAt(rows, t[i].pos)
             /\ rows[t[i].pos].ev # NoEvent
  <2>1. h[i] \in used /\ t[i] = all[h[i]] /\ t[i].pos = h[i] - 1
    BY <1>2, <1>7
  <2>. QED  BY <2>1, InputAssumption DEF used, all
<1>9. ASSUME NEW p \in 0..MaxPos, rows[p].ev # NoEvent
      PROVE  \E i \in 1..Len(t) : t[i].pos = p
  <2>1. p + 1 \in used /\ (p + 1) - 1 = p
    BY <1>9, InputAssumption DEF used
  <2>2. PICK i \in 1..Len(t) : h[i] = p + 1
    BY <1>7, <2>1
  <2>. QED  BY <1>2, <1>7, <2>1, <2>2
<1>. QED  BY <1>6, <1>8, <1>9 DEF Loaded, t

-----------------------------------------------------------------------------
(* What a cycle costs                                                      *)

\* The cycles that are run can be paid for from the stock.
LEMMA AffordableBound ==
  ASSUME stock \in Nat, NEW h \in Entry, h.ev \in Events, LoopTime[h.ev] > 0,
         NEW d \in Int, Affordable(h, d) > 0
  PROVE  /\ Affordable(h, d) \in Nat
         /\ Affordable(h, d) * Cost[h.ev] \in Nat
         /\ Affordable(h, d) * Cost[h.ev] <= stock
<1> DEFINE c == Cost[h.ev]
           w == IF h.target > 0 THEN Least(LoopCycles(h, d), h.target)
                ELSE LoopCycles(h, d)
           n == Affordable(h, d)
<1>1. c \in Nat /\ LoopTime[h.ev] \in Nat
  BY ConfigAssumption
<1>2. h.target \in Int /\ h.progress \in Int
  BY DEF Entry
<1>3. LoopCycles(h, d) \in Int
  BY <1>1, <1>2 DEF LoopCycles
<1>4. w \in Int
  BY <1>2, <1>3 DEF Least
<1>5. n = IF c = 0 THEN w ELSE Least(w, stock \div c)
  BY DEF Affordable
<1> HIDE DEF w, c, n
<1>6. CASE c = 0
  BY <1>4, <1>5, <1>6 DEF n, c
<1>7. CASE c > 0
  <2> DEFINE q == stock \div c
  <2>1. q \in Nat /\ q * c <= stock
    BY <1>1, <1>7
  <2>2. n \in Int /\ n <= q
    BY <1>4, <1>5, <1>7, <2>1 DEF Least
  <2>3. n \in Nat
    BY <2>2 DEF n
  <2> HIDE DEF q
  <2>4. n * c <= q * c /\ n * c \in Nat
    BY <1>1, <2>1, <2>2, <2>3
  <2>5. q * c \in Nat
    BY <1>1, <2>1
  <2> QED BY <2>1, <2>3, <2>4, <2>5 DEF n, c
<1> QED BY <1>1, <1>6, <1>7

\* The cycles that are run take no more time than there is.
LEMMA AffordableTime ==
  ASSUME NEW h \in Entry, h.ev \in Events, Looping(h.ev), NEW d \in Nat,
         Affordable(h, d) \in Nat
  PROVE  h.progress + d - Affordable(h, d) * LoopTime[h.ev] \in Nat
<1> DEFINE lt == LoopTime[h.ev]
           x == d + h.progress
           w == x \div lt
           n == Affordable(h, d)
<1>1. lt \in Nat \ {0} /\ x \in Nat /\ h.target \in Int /\ Cost[h.ev] \in Nat
  BY ConfigAssumption DEF Looping, Entry
<1>2. w \in Nat /\ w * lt <= x
  <2> HIDE DEF lt, x
  <2>. QED  BY <1>1
<1>3. n <= w
  <2>1. w = LoopCycles(h, d)
    BY DEF LoopCycles
  <2>. QED  BY <1>1, <1>2, <2>1 DEF Affordable, Least
<1> HIDE DEF lt, w, n, x
<1>4. n \in Nat
  BY DEF n
<1>5. n * lt <= w * lt /\ n * lt \in Nat /\ w * lt \in Nat
  BY <1>1, <1>2, <1>3, <1>4
<1>6. x - n * lt \in Nat
  BY <1>1, <1>2, <1>5
<1>. QED  BY <1>1, <1>6 DEF x, lt, n, Entry

-----------------------------------------------------------------------------
(* What the actions share                                                  *)

\* A client command leaves the state well typed.
LEMMA EditType ==
  ASSUME TypeOK, NEW q \in QueueIds, NEW s \in Seq(Entry), Edit(q, s)
  PROVE  TypeOK'
<1>1. queues' \in [QueueIds -> Seq(Entry)] /\ dirty' \subseteq QueueIds
  BY DEF TypeOK, Edit
<1> QED BY <1>1 DEF TypeOK, Edit, world, store, settle, clock

\* Crediting cycles that are paid for keeps the stock a natural number.
LEMMA CreditType ==
  ASSUME TypeOK, NEW e \in Events, NEW n \in Nat, NEW c \in Nat,
         n * c \in Nat, n * c <= stock, Credit(e, n, c)
  PROVE  /\ stock' \in Nat
         /\ unlocked' \subseteq Events
         /\ executed' \in [Events -> Nat]
<1>1. stock' \in Nat
  <2>1. Yield[e] \in Nat
    BY ConfigAssumption
  <2>2. n * Yield[e] \in Nat
    BY <2>1
  <2> QED BY <2>2 DEF TypeOK, Credit
<1>2. executed' \in [Events -> Nat]
  <2>1. executed[e] + n \in Nat
    BY DEF TypeOK
  <2> QED BY <2>1 DEF TypeOK, Credit
<1> QED BY <1>1, <1>2 DEF TypeOK, Credit

\* An iteration of settleQueue's loop that credits nothing.
LEMMA SettleToType ==
  ASSUME TypeOK, NEW q \in QueueIds, NEW s \in Seq(Entry), SettleTo(q, s)
  PROVE  /\ queues' \in [QueueIds -> Seq(Entry)]
         /\ dirty' \subseteq QueueIds
         /\ changed' \in BOOLEAN
         /\ table' = table /\ saved' = saved /\ phase' = phase
         /\ visit' = visit /\ cur' = cur
         /\ ticks' = ticks /\ commands' = commands /\ elapsed' = elapsed
<1>1. queues' \in [QueueIds -> Seq(Entry)] /\ dirty' \subseteq QueueIds
  BY DEF TypeOK, SettleTo
<1> QED BY <1>1 DEF SettleTo, store, bounds

\* Tables are flushed to tables, and loaded into queues.
LEMMA FlushTableType ==
  ASSUME TypeOK
  PROVE  FlushTable \in [QueueIds -> [0..MaxPos -> Row]]
<1>1. ASSUME NEW q \in QueueIds
      PROVE  (IF q \in dirty THEN FlushRows(table[q], queues[q]) ELSE table[q])
                \in [0..MaxPos -> Row]
  BY FlushRowsType DEF TypeOK
<1> QED BY <1>1 DEF FlushTable

LEMMA LoadFromType ==
  ASSUME TypeOK, NEW tbl \in [QueueIds -> [0..MaxPos -> Row]],
         NEW w \in [stock: Nat, unlocked: SUBSET Events,
                    executed: [Events -> Nat]],
         LoadFrom(tbl, w),
         table' \in [QueueIds -> [0..MaxPos -> Row]],
         saved' \in [stock: Nat, unlocked: SUBSET Events,
                     executed: [Events -> Nat]]
  PROVE  TypeOK'
<1>1. ASSUME NEW q \in QueueIds PROVE LoadRows(tbl[q]) \in Seq(Entry)
  BY LoadRowsType
<1>2. queues' \in [QueueIds -> Seq(Entry)]
  BY <1>1 DEF LoadFrom
<1>3. stock' \in Nat /\ unlocked' \subseteq Events /\ executed' \in [Events -> Nat]
  BY DEF LoadFrom
<1>4. /\ dirty' = {} /\ changed' = FALSE /\ phase' = "idle"
      /\ visit' = {} /\ cur' = {} /\ remaining' = 0
      /\ ticks' = ticks /\ commands' = commands
      /\ elapsed' = elapsed /\ spent' = spent
  BY DEF LoadFrom, bounds, clock
<1>5. ticks \in Nat /\ commands \in Nat /\ elapsed \in Nat /\ spent \in Nat
  BY DEF TypeOK
<1>6. /\ dirty' \subseteq QueueIds
      /\ phase' \in {"idle", "settling", "flush"}
      /\ visit' \subseteq QueueIds /\ cur' \subseteq QueueIds
      /\ remaining' \in Int
  BY <1>4
<1>7. /\ ticks' \in Nat /\ commands' \in Nat
      /\ elapsed' \in Nat /\ spent' \in Nat
  BY <1>4, <1>5
<1>8. changed' \in BOOLEAN
  BY <1>4, Zenon
<1> QED BY <1>2, <1>3, <1>6, <1>7, <1>8, Zenon DEF TypeOK

-----------------------------------------------------------------------------
(* The type invariant                                                      *)

LEMMA InitType == Init => TypeOK
<1> SUFFICES ASSUME Init PROVE TypeOK
  OBVIOUS
<1>1. table \in [QueueIds -> [0..MaxPos -> Row]]
  BY EmptyRowType DEF Init
<1>2. saved \in [stock: Nat, unlocked: SUBSET Events, executed: [Events -> Nat]]
  BY InputAssumption DEF Init, World
<1>3. executed \in [Events -> Nat] /\ queues \in [QueueIds -> Seq(Entry)]
  BY DEF Init
<1>4. stock \in Nat
  BY InputAssumption DEF Init
<1>5. /\ dirty \subseteq QueueIds
      /\ phase \in {"idle", "settling", "flush"}
      /\ visit \subseteq QueueIds /\ cur \subseteq QueueIds
      /\ unlocked \subseteq Events
      /\ remaining \in Int
      /\ ticks \in Nat /\ commands \in Nat
      /\ elapsed \in Nat /\ spent \in Nat
  BY DEF Init
<1>6. changed \in BOOLEAN
  BY Zenon DEF Init
<1> QED BY <1>1, <1>2, <1>3, <1>4, <1>5, <1>6, Zenon DEF TypeOK

\* The commands of a client.
LEMMA CommandType ==
  ASSUME TypeOK, NEW q \in QueueIds, NEW e \in Ids, NEW t \in Targets
  PROVE  /\ QueueAppend(q, e, t) => TypeOK'
         /\ \A i \in 1..(MaxLen + 1) : InsertEntry(q, i, e, t) => TypeOK'
         /\ QueueSet(q, <<e>>, t) => TypeOK'
         /\ \A f \in Ids : QueueSet(q, <<e, f>>, t) => TypeOK'
<1>1. queues[q] \in Seq(Entry) /\ t \in Int
  BY InputAssumption DEF TypeOK
<1>2. ASSUME QueueAppend(q, e, t) PROVE TypeOK'
  <2>1. NewEntry(NextPos(queues[q]), e, t) \in Entry
    BY <1>1, NextPosType, NewEntryType
  <2>2. Append(queues[q], NewEntry(NextPos(queues[q]), e, t)) \in Seq(Entry)
    BY <1>1, <2>1, AppendProperties
  <2> QED BY <1>2, <2>2, EditType DEF QueueAppend
<1>3. ASSUME NEW i \in 1..(MaxLen + 1), InsertEntry(q, i, e, t) PROVE TypeOK'
  <2>1. Insert(queues[q], i, e, t) \in Seq(Entry)
    BY <1>1, <1>3, InsertType DEF InsertEntry
  <2> QED BY <1>3, <2>1, EditType DEF InsertEntry
<1>4. ASSUME NEW es \in Seq(Ids), QueueSet(q, es, t) PROVE TypeOK'
  <2> DEFINE s == [i \in 1..Len(es) |-> NewEntry(i - 1, es[i], t)]
  <2>1. ASSUME NEW i \in 1..Len(es) PROVE NewEntry(i - 1, es[i], t) \in Entry
    <3>1. es[i] \in Ids /\ i - 1 \in Nat
      OBVIOUS
    <3> QED BY <1>1, <3>1, NewEntryType
  <2>2. s \in Seq(Entry)
    BY <2>1, LenProperties
  <2> QED BY <1>4, <2>2, EditType DEF QueueSet
<1>5. <<e>> \in Seq(Ids) /\ \A f \in Ids : <<e, f>> \in Seq(Ids)
  OBVIOUS
<1> QED BY <1>2, <1>3, <1>4, <1>5

\* Commands that take entries away or move them.
LEMMA RearrangeType ==
  ASSUME TypeOK, NEW q \in QueueIds
  PROVE  /\ QueueSet(q, <<>>, 0) => TypeOK'
         /\ \A i \in 1..MaxLen : QueueRemove(q, i) => TypeOK'
         /\ \A i, j \in 1..MaxLen : QueueMove(q, i, j) => TypeOK'
<1>1. queues[q] \in Seq(Entry)
  BY DEF TypeOK
<1>2. ASSUME QueueSet(q, <<>>, 0) PROVE TypeOK'
  <2> DEFINE s == [i \in 1..Len(<<>>) |-> NewEntry(i - 1, <<>>[i], 0)]
  <2>1. s \in Seq(Entry)
    OBVIOUS
  <2> QED BY <1>2, <2>1, EditType DEF QueueSet
<1>3. ASSUME NEW i \in 1..MaxLen, QueueRemove(q, i) PROVE TypeOK'
  BY <1>1, <1>3, ConsumeType, EditType DEF QueueRemove
<1>4. ASSUME NEW i \in 1..MaxLen, NEW j \in 1..MaxLen, QueueMove(q, i, j)
      PROVE TypeOK'
  BY <1>1, <1>4, MoveType, EditType DEF QueueMove
<1> QED BY <1>2, <1>3, <1>4

LEMMA ExecuteInstantType ==
  ASSUME TypeOK, NEW e \in Events, ExecuteInstant(e)
  PROVE  TypeOK'
<1>1. Credit(e, 1, 0)
  BY DEF ExecuteInstant
<1>2. /\ stock' \in Nat
      /\ unlocked' \subseteq Events
      /\ executed' \in [Events -> Nat]
  <2>1. 1 * 0 \in Nat /\ 1 * 0 <= stock
    BY DEF TypeOK
  <2> QED BY <1>1, <2>1, CreditType
<1> QED BY <1>2 DEF TypeOK, ExecuteInstant, store, settle, clock

\* The three ways a round begins.
LEMMA TickType ==
  ASSUME TypeOK, NEW d \in Deltas,
         TickInactive(d) \/ TickAdvance(d) \/ TickSettle(d)
  PROVE  TypeOK'
<1>1. d \in Nat
  BY InputAssumption
<1>2. Tick(d) => /\ ticks' \in Nat /\ elapsed' \in Nat
                 /\ UNCHANGED <<dirty, world, store, changed, commands, spent>>
  BY <1>1 DEF Tick, TypeOK
<1>3. CASE TickInactive(d)
  BY <1>2, <1>3 DEF TickInactive, TypeOK, world, store, settle
<1>4. CASE TickSettle(d)
  BY <1>1, <1>2, <1>4 DEF TickSettle, TypeOK, world, store
<1>5. CASE TickAdvance(d)
  <2>1. ASSUME NEW q \in QueueIds
        PROVE  (IF Configured(q) /\ Looping(queues[q][1].ev)
                THEN Advanced(queues[q], d) ELSE queues[q]) \in Seq(Entry)
    BY <1>1, AdvancedType DEF TypeOK, Configured
  <2>2. queues' \in [QueueIds -> Seq(Entry)]
    BY <1>5, <2>1 DEF TickAdvance
  <2> QED BY <1>2, <1>5, <2>2 DEF TickAdvance, TypeOK, world, store, settle
<1> QED BY <1>3, <1>4, <1>5

\* settleQueue's loop.
LEMMA SettleType ==
  ASSUME TypeOK, SettleStep
  PROVE  TypeOK'
<1>1. CASE SettleReturn
  BY <1>1 DEF SettleReturn, TypeOK, world, store, bounds, clock
<1>2. ASSUME NEW q \in QueueIds,
             SettleNextQueue(q) \/ SettleQueueDone(q) \/ SettleBlocked(q)
      PROVE  TypeOK'
  BY <1>2 DEF SettleNextQueue, SettleQueueDone, SettleBlocked, TypeOK,
              world, store, bounds, clock
<1>3. ASSUME NEW q \in QueueIds, AtHead(q)
      PROVE  /\ queues[q] \in Seq(Entry) /\ queues[q] # <<>>
             /\ queues[q][1] \in Entry /\ 1 \in 1..Len(queues[q])
  BY <1>3, HeadType DEF AtHead, TypeOK
<1>4. ASSUME NEW q \in QueueIds, SettleDrop(q) PROVE TypeOK'
  <2>1. Consume(queues[q], 1) \in Seq(Entry)
    BY <1>3, <1>4, ConsumeType DEF SettleDrop
  <2>2. SettleTo(q, Consume(queues[q], 1)) /\ UNCHANGED <<world, remaining, spent>>
    BY <1>4 DEF SettleDrop
  <2> QED BY <2>1, <2>2, SettleToType DEF TypeOK, world
<1>5. ASSUME NEW q \in QueueIds, SettleSwap(q) PROVE TypeOK'
  <2>1. PICK i \in Satisfied(queues[q]) : SettleTo(q, Swap(queues[q], i))
    BY <1>5 DEF SettleSwap
  <2>2. Swap(queues[q], i) \in Seq(Entry)
    BY <1>3, <1>5, <2>1, SwapType DEF SettleSwap, Satisfied
  <2>3. UNCHANGED <<world, remaining, spent>>
    BY <1>5 DEF SettleSwap
  <2> QED BY <2>1, <2>2, <2>3, SettleToType DEF TypeOK, world
<1>6. ASSUME NEW q \in QueueIds, SettleProgress(q) PROVE TypeOK'
  <2> DEFINE h == queues[q][1]
             s == [queues[q] EXCEPT ![1].progress = @ + remaining]
  <2>1. h.progress + remaining \in Nat /\ h.target \in Int
    BY <1>3, <1>6 DEF SettleProgress, AtHead, TypeOK, Entry
  <2> DEFINE p == h.progress + remaining
  <2>2. [h EXCEPT !.progress = p] \in Entry
    BY <1>3, <1>6, <2>1 DEF SettleProgress, Entry
  <2>3. s \in Seq(Entry)
    <3>1. s = [queues[q] EXCEPT ![1] = [h EXCEPT !.progress = p]]
      OBVIOUS
    <3> HIDE DEF s
    <3> QED BY <1>3, <1>6, <2>2, <3>1 DEF SettleProgress
  <2>4. SettleTo(q, s) /\ remaining' = 0 /\ UNCHANGED <<world, spent>>
    BY <1>6 DEF SettleProgress
  <2> HIDE DEF s
  <2> QED BY <2>3, <2>4, SettleToType DEF TypeOK, world
<1>7. ASSUME NEW q \in QueueIds, SettleInstant(q) PROVE TypeOK'
  <2> DEFINE e == queues[q][1].ev
             s == Consume(queues[q], 1)
  <2>1. SettleTo(q, s) /\ Credit(e, 1, 0) /\ e \in Events
    BY <1>7 DEF SettleInstant, Runnable
  <2>2. s \in Seq(Entry)
    BY <1>3, <1>7, ConsumeType DEF SettleInstant
  <2>3. UNCHANGED <<remaining, spent>>
    BY <1>7 DEF SettleInstant
  <2> HIDE DEF e, s
  <2>4. 1 * 0 \in Nat /\ 1 * 0 <= stock
    BY DEF TypeOK
  <2>5. /\ stock' \in Nat
        /\ unlocked' \subseteq Events
        /\ executed' \in [Events -> Nat]
    BY <2>1, <2>4, CreditType
  <2> QED BY <2>1, <2>2, <2>3, <2>5, SettleToType DEF TypeOK
<1>8. ASSUME NEW q \in QueueIds, SettleCycles(q) PROVE TypeOK'
  <2> DEFINE h == queues[q][1]
             n == Affordable(h, remaining)
             s == AfterCycles(queues[q], n)
             lt == LoopTime[h.ev]
             c == Cost[h.ev]
  <2>1. /\ SettleTo(q, s) /\ Credit(h.ev, n, c) /\ h.ev \in Events
        /\ remaining' = remaining - n * lt
        /\ spent' = spent + n * lt
    BY <1>8 DEF SettleCycles, Runnable
  <2>2. /\ queues[q] \in Seq(Entry) /\ queues[q] # <<>>
        /\ h \in Entry /\ 1 \in 1..Len(queues[q])
    BY <1>3, <1>8 DEF SettleCycles
  <2>3. n \in Nat /\ n * c \in Nat /\ n * c <= stock
    <3>1. stock \in Nat /\ remaining \in Int /\ n > 0 /\ lt > 0
      BY <1>8 DEF SettleCycles, Looping, TypeOK
    <3> QED BY <2>1, <2>2, <3>1, AffordableBound
  <2>4. lt \in Nat /\ c \in Nat
    BY <2>1, ConfigAssumption
  <2>5. n * lt \in Nat
    BY <2>3, <2>4
  <2>6. s \in Seq(Entry)
    <3> DEFINE pr == h.progress + remaining - n * lt
               tg == IF h.target > 0 THEN h.target - n ELSE h.target
    <3>1. tg \in Int
      BY <2>2, <2>3 DEF Entry
    <3>3. pr \in Nat
      <4>1. remaining \in Nat /\ Looping(h.ev)
        BY <1>8 DEF SettleCycles, AtHead, TypeOK
      <4>. QED  BY <2>1, <2>2, <2>3, <4>1, AffordableTime
    <3>2. s = IF h.target > 0 /\ h.target <= n THEN Consume(queues[q], 1)
              ELSE [queues[q] EXCEPT ![1].progress = pr, ![1].target = tg]
      BY <2>2 DEF AfterCycles
    <3> HIDE DEF pr, tg, s
    <3> QED BY <2>2, <3>1, <3>2, <3>3, ConsumeType, ProgressType
  <2> HIDE DEF s, n, lt, c
  <2>7. /\ stock' \in Nat
        /\ unlocked' \subseteq Events
        /\ executed' \in [Events -> Nat]
    BY <2>1, <2>3, <2>4, CreditType
  <2>8. remaining' \in Int /\ spent' \in Nat
    BY <2>1, <2>5 DEF TypeOK
  <2> QED BY <2>1, <2>6, <2>7, <2>8, SettleToType DEF TypeOK
<1> QED BY <1>1, <1>2, <1>4, <1>5, <1>6, <1>7, <1>8 DEF SettleStep

\* The end of a round, the end of a session, and a crash.
LEMMA StoreType ==
  ASSUME TypeOK, RoundFlush \/ GraceExpireAndReturn \/ CrashAndReturn
  PROVE  TypeOK'
<1>1. World \in [stock: Nat, unlocked: SUBSET Events, executed: [Events -> Nat]]
  BY DEF TypeOK, World
<1>2. CASE RoundFlush
  <2>1. table' \in [QueueIds -> [0..MaxPos -> Row]]
    BY <1>2, FlushTableType DEF RoundFlush, TypeOK, store
  <2>2. saved' \in [stock: Nat, unlocked: SUBSET Events, executed: [Events -> Nat]]
    BY <1>1, <1>2 DEF RoundFlush, TypeOK, store
  <2>3. dirty' \subseteq QueueIds
    BY <1>2 DEF RoundFlush, TypeOK
  <2> QED BY <1>2, <2>1, <2>2, <2>3
          DEF RoundFlush, TypeOK, world, settle, bounds, clock
<1>3. CASE GraceExpireAndReturn
  <2>1. table' = FlushTable /\ saved' = World /\ LoadFrom(table', saved')
    BY <1>3 DEF GraceExpireAndReturn
  <2> QED BY <1>1, <2>1, FlushTableType, LoadFromType
<1>4. CASE CrashAndReturn
  <2>1. LoadFrom(table, saved) /\ table' = table /\ saved' = saved
    BY <1>4 DEF CrashAndReturn, store
  <2> QED BY <2>1, LoadFromType DEF TypeOK
<1> QED BY <1>2, <1>3, <1>4

LEMMA StutterType == TypeOK /\ UNCHANGED vars => TypeOK'
  BY DEF TypeOK, vars, world, store, settle, bounds, clock

\* Whatever the configuration, the commands and the seconds that pass, the
\* state stays well typed: in particular the stock settleLoop takes material
\* from is never negative, and every queue and every row stays well formed.
THEOREM TypeCorrect == Spec => []TypeOK
<1>1. Init => TypeOK
  BY InitType
<1>2. TypeOK /\ [Next]_vars => TypeOK'
  <2> SUFFICES ASSUME TypeOK, [Next]_vars PROVE TypeOK'
    OBVIOUS
  <2>1. CASE UNCHANGED vars
    BY <2>1, StutterType
  <2>2. CASE Next
    BY <2>2, CommandType, RearrangeType, ExecuteInstantType, TickType,
       SettleType, StoreType DEF Next
  <2> QED BY <2>1, <2>2
<1> QED BY <1>1, <1>2, PTL DEF Spec

-----------------------------------------------------------------------------
(* Gates                                                                   *)

GatesOpenNow ==
  \A e \in Events : executed[e] > 0 => {e} \cup Prereq[e] \subseteq unlocked

LEMMA GatesOfWorld == GatesOpen(World) <=> GatesOpenNow
  BY DEF GatesOpen, World, GatesOpenNow

\* Executing an event whose gate is open leaves no event behind a closed one.
LEMMA CreditGates ==
  ASSUME TypeOK, GatesOpenNow, NEW e \in Events, NEW n, NEW c,
         CheckReqs(e), Credit(e, n, c)
  PROVE  GatesOpenNow'
<1> SUFFICES ASSUME NEW f \in Events, executed'[f] > 0
             PROVE  {f} \cup Prereq[f] \subseteq unlocked'
  BY DEF GatesOpenNow
<1>1. CASE f = e
  BY <1>1 DEF Credit, CheckReqs
<1>2. CASE f # e
  <2>1. executed'[f] = executed[f]
    BY <1>2 DEF Credit, TypeOK
  <2> QED BY <2>1 DEF Credit, GatesOpenNow
<1> QED BY <1>1, <1>2

\* A step that changes what the player holds executes an event with an open
\* gate for its price, or is the loading of a new session.
LEMMA WorldSteps ==
  ASSUME TypeOK, [Next]_vars
  PROVE  \/ UNCHANGED world
         \/ GraceExpireAndReturn \/ CrashAndReturn
         \/ /\ \E e \in Events, n \in Nat : CheckReqs(e) /\ Credit(e, n, Price(e))
            /\ changed' = TRUE
            /\ saved' = saved
<1>1. CASE UNCHANGED vars
  BY <1>1 DEF vars
<1>2. ASSUME NEW q \in QueueIds, NEW s, Edit(q, s) PROVE UNCHANGED world
  BY <1>2 DEF Edit
<1>3. ASSUME NEW q \in QueueIds, NEW e \in Ids, NEW t \in Targets,
             \/ QueueAppend(q, e, t)
             \/ \E i \in 1..(MaxLen + 1) : InsertEntry(q, i, e, t)
             \/ QueueSet(q, <<e>>, t)
             \/ \E f \in Ids : QueueSet(q, <<e, f>>, t)
      PROVE  UNCHANGED world
  BY <1>2, <1>3 DEF QueueAppend, InsertEntry, QueueSet
<1>4. ASSUME NEW q \in QueueIds,
             \/ QueueSet(q, <<>>, 0)
             \/ \E i, j \in 1..MaxLen : QueueRemove(q, i) \/ QueueMove(q, i, j)
      PROVE  UNCHANGED world
  BY <1>2, <1>4 DEF QueueSet, QueueRemove, QueueMove
<1>5. ASSUME NEW e \in Events, ExecuteInstant(e)
      PROVE  CheckReqs(e) /\ Credit(e, 1, Price(e)) /\ changed' = TRUE /\ saved' = saved
  BY <1>5 DEF ExecuteInstant, store, Price
<1>6. ASSUME NEW d \in Deltas, TickInactive(d) \/ TickAdvance(d) \/ TickSettle(d)
      PROVE  UNCHANGED world
  BY <1>6 DEF TickInactive, TickAdvance, TickSettle, Tick
<1>7. ASSUME NEW q \in QueueIds, SettleCycles(q) \/ SettleInstant(q)
      PROVE  /\ \E e \in Events, n \in Nat : CheckReqs(e) /\ Credit(e, n, Price(e))
             /\ changed' = TRUE /\ saved' = saved
  <2> DEFINE h == queues[q][1]
             n == Affordable(h, remaining)
  <2>1. /\ h \in Entry /\ h.ev \in Events /\ CheckReqs(h.ev)
        /\ changed' = TRUE /\ saved' = saved
    <3>1. queues[q] \in Seq(Entry) /\ queues[q] # <<>>
      BY <1>7 DEF SettleCycles, SettleInstant, AtHead, TypeOK
    <3>. QED  BY <1>7, <3>1, HeadType
                DEF SettleCycles, SettleInstant, Runnable, SettleTo, store
  <2>2. CASE SettleCycles(q)
    <3>1. /\ Looping(h.ev) /\ n > 0 /\ Credit(h.ev, n, Price(h.ev))
          /\ stock \in Nat /\ remaining \in Int
      BY <2>2 DEF SettleCycles, Looping, Price, TypeOK
    <3>2. n \in Nat
      BY <2>1, <3>1, AffordableBound DEF Looping
    <3>. QED  BY <2>1, <3>1, <3>2
  <2>3. CASE SettleInstant(q)
    BY <2>1, <2>3 DEF SettleInstant, Price
  <2>. QED  BY <1>7, <2>1, <2>2, <2>3
<1>8. ASSUME NEW q \in QueueIds,
             \/ SettleNextQueue(q) \/ SettleQueueDone(q)
             \/ SettleDrop(q) \/ SettleSwap(q) \/ SettleBlocked(q)
             \/ SettleProgress(q)
      PROVE  UNCHANGED world
  BY <1>8 DEF SettleNextQueue, SettleQueueDone, SettleDrop, SettleSwap,
              SettleBlocked, SettleProgress
<1>9. CASE SettleReturn \/ RoundFlush
  BY <1>9 DEF SettleReturn, RoundFlush
<1> QED BY <1>1, <1>3, <1>4, <1>5, <1>6, <1>7, <1>8, <1>9 DEF Next, SettleStep

\* Only a flush writes the rows of what the player holds.
LEMMA SavedSteps ==
  ASSUME [Next]_vars
  PROVE  saved' = saved \/ RoundFlush \/ GraceExpireAndReturn
<1>1. CASE UNCHANGED vars
  BY <1>1 DEF vars, store
<1>2. ASSUME NEW q \in QueueIds, NEW s, Edit(q, s) PROVE saved' = saved
  BY <1>2 DEF Edit, store
<1>3. ASSUME NEW q \in QueueIds, NEW e \in Ids, NEW t \in Targets,
             \/ QueueAppend(q, e, t)
             \/ \E i \in 1..(MaxLen + 1) : InsertEntry(q, i, e, t)
             \/ QueueSet(q, <<e>>, t)
             \/ \E f \in Ids : QueueSet(q, <<e, f>>, t)
      PROVE  saved' = saved
  BY <1>2, <1>3 DEF QueueAppend, InsertEntry, QueueSet
<1>4. ASSUME NEW q \in QueueIds,
             \/ QueueSet(q, <<>>, 0)
             \/ \E i, j \in 1..MaxLen : QueueRemove(q, i) \/ QueueMove(q, i, j)
      PROVE  saved' = saved
  BY <1>2, <1>4 DEF QueueSet, QueueRemove, QueueMove
<1>5. ASSUME NEW e \in Events, ExecuteInstant(e) PROVE saved' = saved
  BY <1>5 DEF ExecuteInstant, store
<1>6. ASSUME NEW d \in Deltas, TickInactive(d) \/ TickAdvance(d) \/ TickSettle(d)
      PROVE  saved' = saved
  BY <1>6 DEF TickInactive, TickAdvance, TickSettle, Tick, store
<1>7. CASE SettleStep
  BY <1>7 DEF SettleStep, SettleReturn, SettleNextQueue, SettleQueueDone,
              SettleDrop, SettleSwap, SettleBlocked, SettleProgress,
              SettleCycles, SettleInstant, SettleTo, store
<1>8. CASE CrashAndReturn
  BY <1>8 DEF CrashAndReturn, store
<1> QED BY <1>1, <1>3, <1>4, <1>5, <1>6, <1>7, <1>8 DEF Next

\* A new session holds exactly what the rows say.
LEMMA LoadedWorld ==
  ASSUME TypeOK, GraceExpireAndReturn \/ CrashAndReturn
  PROVE  /\ World' = saved'
         /\ saved' \in {World, saved}
         /\ dirty' = {} /\ changed' = FALSE
<1>1. ASSUME NEW tbl, NEW w \in [stock: Nat, unlocked: SUBSET Events,
                                 executed: [Events -> Nat]],
             LoadFrom(tbl, w)
      PROVE  World' = w /\ dirty' = {} /\ changed' = FALSE
  BY <1>1 DEF LoadFrom, World
<1>2. World \in [stock: Nat, unlocked: SUBSET Events, executed: [Events -> Nat]]
  BY DEF TypeOK, World
<1>3. CASE GraceExpireAndReturn
  <2>1. saved' = World /\ LoadFrom(table', saved')
    BY <1>3 DEF GraceExpireAndReturn
  <2> QED BY <1>1, <1>2, <2>1
<1>4. CASE CrashAndReturn
  <2>1. saved' = saved /\ LoadFrom(table, saved)
    BY <1>4 DEF CrashAndReturn, store
  <2> QED BY <1>1, <2>1 DEF TypeOK
<1> QED BY <1>3, <1>4

\* Nothing is ever executed behind a closed gate, and no crash brings the
\* player back to rows that say otherwise.
THEOREM GatesRespected == Spec => []GateRespected
<1>1. Init => GateRespected
  BY DEF Init, GateRespected, GatesOpen, World
<1>2. TypeOK /\ GateRespected /\ [Next]_vars => GateRespected'
  <2> SUFFICES ASSUME TypeOK, GateRespected, [Next]_vars PROVE GateRespected'
    OBVIOUS
  <2>1. GatesOpenNow /\ GatesOpen(saved) /\ GatesOpen(World)
    BY GatesOfWorld DEF GateRespected
  <2>2. GatesOpen(World')
    <3>1. CASE UNCHANGED world
      BY <2>1, <3>1 DEF world, World
    <3>2. ASSUME NEW e \in Events, NEW n \in Nat, CheckReqs(e), Credit(e, n, Price(e))
          PROVE  GatesOpen(World')
      BY <2>1, <3>2, CreditGates DEF GatesOpenNow, GatesOpen, World
    <3>3. CASE GraceExpireAndReturn \/ CrashAndReturn
      BY <2>1, <3>3, LoadedWorld
    <3> QED BY <3>1, <3>2, <3>3, WorldSteps
  <2>3. GatesOpen(saved')
    <3>1. CASE RoundFlush
      BY <2>1, <3>1 DEF RoundFlush, store
    <3>2. CASE GraceExpireAndReturn
      BY <2>1, <3>2, LoadedWorld
    <3> QED BY <2>1, <3>1, <3>2, SavedSteps
  <2> QED BY <2>2, <2>3 DEF GateRespected
<1> QED BY <1>1, <1>2, TypeCorrect, PTL DEF Spec

-----------------------------------------------------------------------------
(* The ledger                                                              *)

\* Crediting cycles for their price changes the stock by what they earn.
LEMMA CreditBalance ==
  ASSUME TypeOK, Balanced(World), NEW e \in Events, NEW n \in Nat,
         Credit(e, n, Price(e))
  PROVE  Balanced(World')
<1> DEFINE f == Earned(World)
<1>1. Price(e) \in Int /\ Yield[e] \in Int /\ \A x \in Events : NetYield(x) \in Int
  BY ConfigAssumption DEF Price, NetYield
<1>2. f \in [Events -> Int]
  BY <1>1 DEF Earned, World, TypeOK
<1>3. Earned(World') = [f EXCEPT ![e] = @ + n * NetYield(e)]
  <2>1. ASSUME NEW x \in Events
        PROVE  executed'[x] * NetYield(x)
                 = executed[x] * NetYield(x) + (IF x = e THEN n * NetYield(x) ELSE 0)
    <3>1. executed[x] \in Int /\ NetYield(x) \in Int /\ n \in Int
      BY <1>1 DEF TypeOK
    <3>2. executed'[x] = IF x = e THEN executed[x] + n ELSE executed[x]
      BY DEF Credit, TypeOK
    <3>3. (executed[x] + n) * NetYield(x) = executed[x] * NetYield(x) + n * NetYield(x)
      BY <3>1
    <3>4. executed[x] * NetYield(x) \in Int
      BY <3>1
    <3>. QED  BY <3>2, <3>3, <3>4
  <2>2. \A x \in Events : f[x] = executed[x] * NetYield(x)
    BY DEF Earned, World
  <2>3. Earned(World') = [x \in Events |-> executed'[x] * NetYield(x)]
    BY DEF Earned, World
  <2> HIDE DEF f
  <2>4. \A x \in Events : executed'[x] * NetYield(x) = [f EXCEPT ![e] = @ + n * NetYield(e)][x]
    BY <1>2, <2>1, <2>2
  <2>. QED  BY <1>2, <2>3, <2>4
<1>4. n * NetYield(e) = n * Yield[e] - n * Price(e) /\ n * NetYield(e) \in Int
  BY <1>1 DEF NetYield
<1> HIDE DEF f
<1>5. /\ SumFunction(f) \in Int
      /\ SumFunction(Earned(World')) = SumFunction(f) + n * NetYield(e)
  <2> DEFINE k == n * NetYield(e)
             g == Earned(World')
  <2>1. k \in Int /\ g = Plus(f, e, k)
    BY <1>3, <1>4 DEF Plus
  <2> HIDE DEF k, g
  <2>2. SumFunction(f) \in Int /\ SumFunction(g) = SumFunction(f) + k
    BY <1>2, <2>1, SumChanged, EventsAssumption
  <2>. QED  BY <2>2 DEF k, g
<1>6. stock = InitStock + SumFunction(f)
  BY DEF f, Balanced, World
<1>7. stock' = stock - n * Price(e) + n * Yield[e]
  BY DEF Credit
<1>8. /\ stock \in Int /\ InitStock \in Int
      /\ n * Price(e) \in Int /\ n * Yield[e] \in Int
  BY <1>1, InputAssumption DEF TypeOK
<1>9. stock' = InitStock + (SumFunction(f) + n * NetYield(e))
  BY <1>4, <1>5, <1>6, <1>7, <1>8
<1>. QED  BY <1>5, <1>9 DEF Balanced, World

\* Every unit of material is accounted for by what was executed, in memory and
\* in the rows, through settling, flushes, expiry and crashes.
THEOREM StockBalanced == Spec => []StockLedger
<1>1. Init => StockLedger
  <2> SUFFICES ASSUME Init PROVE Balanced(World) /\ saved = World
    BY DEF StockLedger
  <2>1. saved = World /\ stock = InitStock /\ \A e \in Events : executed[e] = 0
    BY DEF Init
  <2>2. \A e \in Events : NetYield(e) \in Int
    BY ConfigAssumption DEF NetYield, Price
  <2>3. \A e \in Events : Earned(World)[e] = 0
    BY <2>1, <2>2 DEF Earned, World
  <2>4. Earned(World) \in [Events -> Int]
    BY <2>3 DEF Earned
  <2>5. SumFunction(Earned(World)) = 0
    BY <2>3, <2>4, SumOfZeros, EventsAssumption
  <2>. QED  BY <2>1, <2>5, InputAssumption DEF Balanced, World
<1>2. TypeOK /\ StockLedger /\ [Next]_vars => StockLedger'
  <2> SUFFICES ASSUME TypeOK, StockLedger, [Next]_vars PROVE StockLedger'
    OBVIOUS
  <2>1. Balanced(World) /\ Balanced(saved)
    BY DEF StockLedger
  <2>2. Balanced(World')
    <3>1. CASE UNCHANGED world
      <4>1. World' = World
        BY <3>1 DEF world, World
      <4>. QED  BY <2>1, <4>1
    <3>2. ASSUME NEW e \in Events, NEW n \in Nat, CheckReqs(e), Credit(e, n, Price(e))
          PROVE  Balanced(World')
      BY <2>1, <3>2, CreditBalance
    <3>3. CASE GraceExpireAndReturn \/ CrashAndReturn
      BY <2>1, <3>3, LoadedWorld
    <3> QED BY <3>1, <3>2, <3>3, WorldSteps
  <2>3. Balanced(saved')
    <3>1. CASE RoundFlush
      <4>1. saved' = saved \/ saved' = World
        BY <3>1 DEF RoundFlush, store
      <4>. QED  BY <2>1, <4>1
    <3>2. CASE GraceExpireAndReturn
      BY <2>1, <3>2, LoadedWorld
    <3> QED BY <2>1, <3>1, <3>2, SavedSteps
  <2>. QED  BY <2>2, <2>3 DEF StockLedger
<1>. QED  BY <1>1, <1>2, TypeCorrect, PTL DEF Spec

-----------------------------------------------------------------------------
(* Durability between rounds                                               *)

\* RoundDurable, in every phase: what no diff has reported has been written.
Reported == ~changed => dirty = {} /\ saved = World

\* A step that is no flush and no loading either reports a change or leaves
\* alone everything that is written.
LEMMA ReportingSteps ==
  ASSUME [Next]_vars
  PROVE  \/ UNCHANGED <<world, dirty, saved, changed>>
         \/ changed' = TRUE
         \/ RoundFlush \/ GraceExpireAndReturn \/ CrashAndReturn
<1>1. CASE UNCHANGED vars
  BY <1>1 DEF vars, store
<1>2. ASSUME NEW q \in QueueIds, NEW e \in Ids, NEW t \in Targets,
             \/ QueueAppend(q, e, t)
             \/ \E i \in 1..(MaxLen + 1) : InsertEntry(q, i, e, t)
             \/ QueueSet(q, <<e>>, t)
             \/ \E f \in Ids : QueueSet(q, <<e, f>>, t)
      PROVE  changed' = TRUE
  BY <1>2 DEF QueueAppend, InsertEntry, QueueSet, Edit
<1>3. ASSUME NEW q \in QueueIds,
             \/ QueueSet(q, <<>>, 0)
             \/ \E i, j \in 1..MaxLen : QueueRemove(q, i) \/ QueueMove(q, i, j)
      PROVE  changed' = TRUE
  BY <1>3 DEF QueueSet, QueueRemove, QueueMove, Edit
<1>4. ASSUME NEW e \in Events, ExecuteInstant(e) PROVE changed' = TRUE
  BY <1>4 DEF ExecuteInstant
<1>5. ASSUME NEW d \in Deltas, TickInactive(d) \/ TickAdvance(d) \/ TickSettle(d)
      PROVE  UNCHANGED <<world, dirty, saved, changed>>
  BY <1>5 DEF TickInactive, TickAdvance, TickSettle, Tick, store
<1>6. CASE SettleReturn
  BY <1>6 DEF SettleReturn, store
<1>7. ASSUME NEW q \in QueueIds,
             SettleNextQueue(q) \/ SettleQueueDone(q) \/ SettleBlocked(q)
      PROVE  UNCHANGED <<world, dirty, saved, changed>>
  BY <1>7 DEF SettleNextQueue, SettleQueueDone, SettleBlocked, store
<1>8. ASSUME NEW q \in QueueIds,
             \/ SettleDrop(q) \/ SettleSwap(q) \/ SettleProgress(q)
             \/ SettleCycles(q) \/ SettleInstant(q)
      PROVE  changed' = TRUE
  BY <1>8 DEF SettleDrop, SettleSwap, SettleProgress, SettleCycles,
              SettleInstant, SettleTo
<1> QED BY <1>1, <1>2, <1>3, <1>4, <1>5, <1>6, <1>7, <1>8 DEF Next, SettleStep

\* Between two rounds, whatever was not reported as changed is in the
\* database: a crash there loses nothing but the progress of a head.
THEOREM RoundsAreDurable == Spec => []RoundDurable
<1>1. Init => Reported
  BY DEF Init, Reported
<1>2. TypeOK /\ Reported /\ [Next]_vars => Reported'
  <2> SUFFICES ASSUME TypeOK, Reported, [Next]_vars PROVE Reported'
    OBVIOUS
  <2>1. CASE UNCHANGED <<world, dirty, saved, changed>>
    BY <2>1 DEF Reported, World, world
  <2>2. CASE changed' = TRUE
    BY <2>2 DEF Reported
  <2>3. CASE RoundFlush
    BY <2>3 DEF RoundFlush, Reported, World, world, store
  <2>4. CASE GraceExpireAndReturn \/ CrashAndReturn
    BY <2>4, LoadedWorld DEF Reported
  <2> QED BY <2>1, <2>2, <2>3, <2>4, ReportingSteps
<1>3. Reported => RoundDurable
  BY DEF Reported, RoundDurable
<1> QED BY <1>1, <1>2, <1>3, TypeCorrect, PTL DEF Spec

-----------------------------------------------------------------------------
(* The fast path                                                           *)

\* Only the fast path, or a round with nothing to do, goes from idle to flush.
LEMMA FastSteps ==
  ASSUME [Next]_vars, phase = "idle", phase' = "flush"
  PROVE  \E d \in Deltas : TickInactive(d) \/ TickAdvance(d)
<1>1. ~UNCHANGED vars
  BY DEF vars
<1>2. ASSUME NEW q \in QueueIds, NEW s, Edit(q, s) PROVE FALSE
  BY <1>2 DEF Edit
<1>3. ASSUME NEW q \in QueueIds, NEW e \in Ids, NEW t \in Targets,
             \/ QueueAppend(q, e, t)
             \/ \E i \in 1..(MaxLen + 1) : InsertEntry(q, i, e, t)
             \/ QueueSet(q, <<e>>, t)
             \/ \E f \in Ids : QueueSet(q, <<e, f>>, t)
      PROVE  FALSE
  BY <1>2, <1>3 DEF QueueAppend, InsertEntry, QueueSet
<1>4. ASSUME NEW q \in QueueIds,
             \/ QueueSet(q, <<>>, 0)
             \/ \E i, j \in 1..MaxLen : QueueRemove(q, i) \/ QueueMove(q, i, j)
      PROVE  FALSE
  BY <1>2, <1>4 DEF QueueSet, QueueRemove, QueueMove
<1>5. ASSUME NEW e \in Events, ExecuteInstant(e) PROVE FALSE
  BY <1>5 DEF ExecuteInstant
<1>6. ASSUME NEW d \in Deltas, TickSettle(d) PROVE FALSE
  BY <1>6 DEF TickSettle
<1>7. ~SettleStep
  BY DEF SettleStep, SettleReturn, SettleNextQueue, SettleQueueDone,
         SettleDrop, SettleSwap, SettleBlocked, SettleProgress,
         SettleCycles, SettleInstant, AtHead
<1>8. ~RoundFlush /\ ~GraceExpireAndReturn /\ ~CrashAndReturn
  BY DEF RoundFlush, GraceExpireAndReturn, CrashAndReturn, LoadFrom
<1> QED BY <1>1, <1>3, <1>4, <1>5, <1>6, <1>7, <1>8 DEF Next

\* The fast path hands every loop at a head all the seconds of the round.
THEOREM NoTimeLost == Spec => FastPathLosesNoTime
<1>1. TypeOK /\ [Next]_vars =>
        [phase = "idle" /\ phase' = "flush" =>
           \A q \in QueueIds :
             Configured(q) /\ Looping(queues[q][1].ev) =>
               queues'[q][1].progress =
                 queues[q][1].progress + elapsed' - elapsed]_vars
  <2> SUFFICES ASSUME TypeOK, [Next]_vars, phase = "idle", phase' = "flush",
                      NEW q \in QueueIds,
                      Configured(q), Looping(queues[q][1].ev)
               PROVE  queues'[q][1].progress =
                        queues[q][1].progress + elapsed' - elapsed
    OBVIOUS
  <2>1. PICK d \in Deltas : TickInactive(d) \/ TickAdvance(d)
    BY FastSteps
  <2>2. d \in Nat /\ elapsed \in Nat /\ elapsed' = elapsed + d
    BY <2>1, InputAssumption DEF TypeOK, TickInactive, TickAdvance, Tick
  <2>3. queues[q] \in Seq(Entry) /\ queues[q] # <<>> /\ queues[q][1].ev \in Events
    BY DEF TypeOK, Configured
  <2>4. TickAdvance(d)
    BY <2>1, <2>3 DEF TickInactive, HasActive
  <2> DEFINE s == queues[q]
             h == s[1]
             lt == LoopTime[h.ev]
  <2>5. h \in Entry /\ 1 \in 1..Len(s) /\ lt \in Nat
    BY <2>3, HeadType, ConfigAssumption
  <2>6. h.progress \in Int
    BY <2>5 DEF Entry
  <2>7. h.progress + d < lt
    BY <2>2, <2>4, <2>5, <2>6 DEF TickAdvance, WillTrigger, Looping
  <2>8. queues'[q] = Advanced(s, d)
    BY <2>4 DEF TickAdvance
  <2>9. Advanced(s, d) = [s EXCEPT ![1].progress = h.progress + d]
    BY <2>2, <2>5, <2>6, <2>7 DEF Advanced
  <2>10. Advanced(s, d)[1] = [h EXCEPT !.progress = h.progress + d]
    BY <2>3, <2>5, <2>9
  <2>11. Advanced(s, d)[1].progress = h.progress + d
    BY <2>5, <2>10 DEF Entry
  <2> QED BY <2>2, <2>6, <2>8, <2>11
<1> QED BY <1>1, TypeCorrect, PTL DEF Spec, FastPathLosesNoTime

-----------------------------------------------------------------------------
(* The rows of a clean queue                                               *)

\* What TableMatchesQueue says of one queue.
RowsMatch(s, rows) ==
  Dense(s) =>
    \A p \in 0..MaxPos :
      IF p >= Len(s) THEN rows[p].ev = NoEvent
      ELSE LET e   == s[p + 1]
               r   == rows[p]
               lag == e.progress - r.progress
           IN  /\ r.ev = e.ev /\ r.target = e.target
               /\ lag >= 0
               /\ lag > 0 => p = 0 /\ e.ev \in Events /\ lag < LoopTime[e.ev]

\* Writing a queue: one row per entry, cleared rows behind the last.
LEMMA FlushMatches ==
  ASSUME NEW s \in Seq(Entry), NEW rows \in [0..MaxPos -> Row]
  PROVE  RowsMatch(s, FlushRows(rows, s))
<1> SUFFICES ASSUME Dense(s) PROVE RowsMatch(s, FlushRows(rows, s))
  BY DEF RowsMatch
<1> DEFINE out == FlushRows(rows, s)
<1>1. NextPos(s) = Len(s) /\ Len(s) \in Nat
  <2>1. CASE s = <<>>
    BY <2>1 DEF NextPos
  <2>2. CASE s # <<>>
    BY <2>2 DEF NextPos, Dense
  <2>. QED  BY <2>1, <2>2
<1>2. ASSUME NEW p \in 0..MaxPos, p >= Len(s) PROVE out[p].ev = NoEvent
  BY <1>1, <1>2 DEF FlushRows, EmptyRow
<1>3. ASSUME NEW p \in 0..MaxPos, ~(p >= Len(s)) PROVE out[p] = RowOf(s[p + 1])
  <2> DEFINE at == {i \in 1..Len(s) : s[i].pos = p}
  <2>1. at = {p + 1}
    BY <1>1, <1>3, InputAssumption DEF Dense
  <2>2. (CHOOSE i \in at : \A j \in at : j <= i) = p + 1
    BY <2>1
  <2>. QED  BY <1>1, <1>3, <2>1, <2>2 DEF FlushRows
<1> HIDE DEF out
<1>4. ASSUME NEW p \in 0..MaxPos, ~(p >= Len(s))
      PROVE  /\ out[p].ev = s[p + 1].ev /\ out[p].target = s[p + 1].target
             /\ s[p + 1].progress - out[p].progress = 0
  <2>1. s[p + 1] \in Entry
    BY <1>1, <1>4
  <2>2. PICK e \in Entry : e = s[p + 1]
    BY <2>1
  <2>3. out[p] = RowOf(e)
    BY <1>3, <1>4, <2>2
  <2>4. e.progress \in Nat
    BY DEF Entry
  <2>. QED  BY <2>2, <2>3, <2>4 DEF RowOf
<1>. QED  BY <1>2, <1>4 DEF RowsMatch, out

\* Loading a queue: a dense one fills the rows from the first on.
LEMMA LoadMatches ==
  ASSUME NEW rows \in [0..MaxPos -> Row]
  PROVE  RowsMatch(LoadRows(rows), rows)
<1> DEFINE s == LoadRows(rows)
<1>1. s \in Seq(Entry) /\ Loaded(rows, s)
  BY LoadRowsType
<1> HIDE DEF s
<1> SUFFICES ASSUME Dense(s) PROVE RowsMatch(s, rows)
  BY DEF RowsMatch, s
<1>2. ASSUME NEW p \in 0..MaxPos, p >= Len(s) PROVE rows[p].ev = NoEvent
  <2>1. ASSUME NEW i \in 1..Len(s) PROVE s[i].pos # p
    BY <1>1, <1>2 DEF Dense
  <2>. QED  BY <1>1, <2>1 DEF Loaded
<1>3. ASSUME NEW p \in 0..MaxPos, ~(p >= Len(s))
      PROVE  /\ rows[p].ev = s[p + 1].ev /\ rows[p].target = s[p + 1].target
             /\ s[p + 1].progress - rows[p].progress = 0
  <2>1. p + 1 \in 1..Len(s)
    BY <1>1, <1>3
  <2>2. s[p + 1].pos = p
    BY <2>1, InputAssumption DEF Dense
  <2>3. s[p + 1] = EntryAt(rows, p)
    BY <1>1, <2>1, <2>2 DEF Loaded
  <2>. QED  BY <2>3 DEF EntryAt, Row
<1>. QED  BY <1>2, <1>3 DEF RowsMatch

\* The fast path: the head gets ahead of its row by less than a cycle.
LEMMA AdvanceMatches ==
  ASSUME TypeOK, NEW d \in Deltas, TickAdvance(d), NEW q \in QueueIds,
         RowsMatch(queues[q], table[q])
  PROVE  RowsMatch(queues'[q], table[q])
<1> DEFINE s == queues[q]
           h == s[1]
           rows == table[q]
<1>1. d \in Nat /\ s \in Seq(Entry) /\ rows \in [0..MaxPos -> Row]
  BY InputAssumption DEF TypeOK
<1>2. CASE ~(Configured(q) /\ Looping(h.ev))
  BY <1>2 DEF TickAdvance
<1>3. CASE Configured(q) /\ Looping(h.ev)
  <2> DEFINE lt == LoopTime[h.ev]
             x == h.progress + d
             t == [s EXCEPT ![1].progress = x]
  <2>1. s # <<>> /\ h.ev \in Events
    BY <1>3 DEF Configured
  <2>2. h \in Entry /\ 1 \in 1..Len(s) /\ lt \in Nat
    BY <1>1, <2>1, HeadType, ConfigAssumption
  <2>3. h.progress \in Nat
    BY <2>2 DEF Entry
  <2>4. x < lt
    BY <1>1, <1>3, <2>2, <2>3 DEF TickAdvance, WillTrigger, Looping
  <2>5. queues'[q] = t
    <3>1. queues'[q] = Advanced(s, d)
      BY <1>3 DEF TickAdvance
    <3>2. Advanced(s, d) = t
      BY <1>1, <2>2, <2>3, <2>4 DEF Advanced
    <3>. QED  BY <3>1, <3>2
  <2>6. /\ Len(t) = Len(s) /\ t[1] = [h EXCEPT !.progress = x]
        /\ \A i \in 2..Len(s) : t[i] = s[i]
    BY <1>1, <2>2
  <2> HIDE DEF t
  <2>7. Dense(t) => Dense(s)
    <3>1. t[1].pos = h.pos
      BY <2>2, <2>6 DEF Entry
    <3>2. ASSUME NEW i \in 1..Len(s) PROVE t[i].pos = s[i].pos
      <4>1. CASE i = 1
        BY <3>1, <4>1
      <4>2. CASE i # 1
        <5>1. i \in 2..Len(s)
          BY <1>1, <4>2
        <5>. QED  BY <2>6, <5>1
      <4>. QED  BY <4>1, <4>2
    <3>. QED  BY <2>6, <3>2 DEF Dense
  <2>8. ASSUME Dense(s), NEW p \in 0..MaxPos, p >= Len(t) PROVE rows[p].ev = NoEvent
    BY <2>6, <2>8 DEF RowsMatch
  <2>9. ASSUME Dense(s), NEW p \in 0..MaxPos, ~(p >= Len(t)), p # 0
        PROVE  t[p + 1] = s[p + 1]
    <3>1. p + 1 \in 2..Len(s)
      BY <1>1, <2>6, <2>9, InputAssumption
    <3>. QED  BY <2>6, <3>1
  <2>10. ASSUME Dense(s), 0 \in 0..MaxPos
         PROVE  /\ rows[0].ev = t[1].ev /\ rows[0].target = t[1].target
                /\ t[1].progress - rows[0].progress >= 0
                /\ t[1].progress - rows[0].progress < LoopTime[t[1].ev]
                /\ t[1].ev \in Events
    <3>1. t[1].progress = x /\ t[1].ev = h.ev /\ t[1].target = h.target
      BY <2>2, <2>6 DEF Entry
    <3>2. rows[0].progress \in Nat
      BY <1>1, <2>10 DEF Row
    <3>3. /\ rows[0].ev = h.ev /\ rows[0].target = h.target
          /\ h.progress - rows[0].progress >= 0
      BY <1>1, <2>2, <2>10 DEF RowsMatch
    <3> HIDE DEF h, rows
    <3>. QED  BY <1>1, <2>1, <2>2, <2>3, <2>4, <3>1, <3>2, <3>3
  <2>11. ASSUME Dense(s), NEW p \in 0..MaxPos, ~(p >= Len(s))
         PROVE  LET lag == s[p + 1].progress - rows[p].progress
                IN  /\ rows[p].ev = s[p + 1].ev /\ rows[p].target = s[p + 1].target
                    /\ lag >= 0
                    /\ lag > 0 => /\ p = 0 /\ s[p + 1].ev \in Events
                                  /\ lag < LoopTime[s[p + 1].ev]
    BY <2>11 DEF RowsMatch
  <2> HIDE DEF s, rows
  <2>12. RowsMatch(t, rows)
    <3> SUFFICES ASSUME Dense(s), NEW p \in 0..MaxPos
                 PROVE  IF p >= Len(t) THEN rows[p].ev = NoEvent
                        ELSE LET e   == t[p + 1]
                                 r   == rows[p]
                                 lag == e.progress - r.progress
                             IN  /\ r.ev = e.ev /\ r.target = e.target
                                 /\ lag >= 0
                                 /\ lag > 0 => /\ p = 0 /\ e.ev \in Events
                                               /\ lag < LoopTime[e.ev]
      BY <2>7 DEF RowsMatch
    <3>1. CASE p >= Len(t)
      BY <2>8, <3>1
    <3>2. CASE ~(p >= Len(t)) /\ p = 0
      BY <2>10, <3>2
    <3>3. CASE ~(p >= Len(t)) /\ p # 0
      BY <2>6, <2>9, <2>11, <3>3
    <3>. QED  BY <3>1, <3>2, <3>3
  <2>. QED  BY <2>5, <2>12 DEF rows
<1>. QED  BY <1>2, <1>3

\* Whoever else changes a queue marks it, and nobody else writes rows.
LEMMA MarkingSteps ==
  ASSUME TypeOK, [Next]_vars
  PROVE  \/ /\ table' = table /\ dirty \subseteq dirty'
            /\ \A q \in QueueIds \ dirty' : queues'[q] = queues[q]
         \/ \E d \in Deltas : TickAdvance(d)
         \/ RoundFlush \/ GraceExpireAndReturn \/ CrashAndReturn
<1> DEFINE Marking == /\ table' = table /\ dirty \subseteq dirty'
                      /\ \A q \in QueueIds \ dirty' : queues'[q] = queues[q]
<1>1. ASSUME NEW q \in QueueIds, NEW s, table' = table,
             queues' = [queues EXCEPT ![q] = s], dirty' = dirty \cup {q}
      PROVE  Marking
  BY <1>1 DEF TypeOK
<1>2. ASSUME UNCHANGED <<queues, dirty, table>> PROVE Marking
  BY <1>2
<1> HIDE DEF Marking
<1>3. ASSUME NEW q \in QueueIds, NEW s, Edit(q, s) PROVE Marking
  BY <1>1, <1>3 DEF Edit, store
<1>4. ASSUME NEW q \in QueueIds, NEW s, SettleTo(q, s) PROVE Marking
  BY <1>1, <1>4 DEF SettleTo, store
<1>5. CASE UNCHANGED vars
  BY <1>2, <1>5 DEF vars, store
<1>6. ASSUME NEW q \in QueueIds, NEW e \in Ids, NEW t \in Targets,
             \/ QueueAppend(q, e, t)
             \/ \E i \in 1..(MaxLen + 1) : InsertEntry(q, i, e, t)
             \/ QueueSet(q, <<e>>, t)
             \/ \E f \in Ids : QueueSet(q, <<e, f>>, t)
      PROVE  Marking
  BY <1>3, <1>6 DEF QueueAppend, InsertEntry, QueueSet
<1>7. ASSUME NEW q \in QueueIds,
             \/ QueueSet(q, <<>>, 0)
             \/ \E i, j \in 1..MaxLen : QueueRemove(q, i) \/ QueueMove(q, i, j)
      PROVE  Marking
  BY <1>3, <1>7 DEF QueueSet, QueueRemove, QueueMove
<1>8. ASSUME NEW e \in Events, ExecuteInstant(e) PROVE Marking
  BY <1>2, <1>8 DEF ExecuteInstant, store
<1>9. ASSUME NEW d \in Deltas, TickInactive(d) \/ TickSettle(d) PROVE Marking
  BY <1>2, <1>9 DEF TickInactive, TickSettle, Tick, store
<1>10. CASE SettleReturn
  BY <1>2, <1>10 DEF SettleReturn, store
<1>11. ASSUME NEW q \in QueueIds,
              SettleNextQueue(q) \/ SettleQueueDone(q) \/ SettleBlocked(q)
       PROVE  Marking
  BY <1>2, <1>11 DEF SettleNextQueue, SettleQueueDone, SettleBlocked, store
<1>12. ASSUME NEW q \in QueueIds,
              \/ SettleDrop(q) \/ SettleSwap(q) \/ SettleProgress(q)
              \/ SettleCycles(q) \/ SettleInstant(q)
       PROVE  Marking
  BY <1>4, <1>12 DEF SettleDrop, SettleSwap, SettleProgress, SettleCycles,
                     SettleInstant
<1>. QED
  BY <1>5, <1>6, <1>7, <1>8, <1>9, <1>10, <1>11, <1>12 DEF Next, SettleStep, Marking

\* A queue with no unsaved change is in player_active_events as it is in
\* memory, but for the progress the fast path has given its head, which is
\* less than a cycle: for every configuration, every order of commands,
\* rounds, expiries and crashes (Flush, Load, State.AdvanceProgress).
THEOREM RowsFollowQueues == Spec => []TableMatchesQueue
<1>1. Init => TableMatchesQueue
  BY DEF Init, TableMatchesQueue, EmptyRow
<1>2. TypeOK /\ TypeOK' /\ TableMatchesQueue /\ [Next]_vars => TableMatchesQueue'
  <2> SUFFICES ASSUME TypeOK, TypeOK', TableMatchesQueue, [Next]_vars,
                      NEW q \in QueueIds, q \notin dirty'
               PROVE  RowsMatch(queues'[q], table'[q])
    BY DEF TableMatchesQueue, RowsMatch
  <2>1. q \notin dirty => RowsMatch(queues[q], table[q])
    BY DEF TableMatchesQueue, RowsMatch
  <2>2. queues[q] \in Seq(Entry) /\ table[q] \in [0..MaxPos -> Row]
    BY DEF TypeOK
  <2>3. table'[q] \in [0..MaxPos -> Row]
    BY DEF TypeOK
  <2>4. ASSUME table' = table, dirty \subseteq dirty', queues'[q] = queues[q]
        PROVE  RowsMatch(queues'[q], table'[q])
    BY <2>1, <2>4
  <2>5. ASSUME NEW d \in Deltas, TickAdvance(d)
        PROVE  RowsMatch(queues'[q], table'[q])
    BY <2>1, <2>5, AdvanceMatches DEF TickAdvance, Tick, store
  <2>6. CASE RoundFlush
    <3>1. CASE changed
      <4>1. queues' = queues /\ table'[q] = FlushTable[q]
        BY <2>6, <3>1 DEF RoundFlush
      <4>. QED  BY <2>1, <2>2, <4>1, FlushMatches DEF FlushTable
    <3>2. CASE ~changed
      BY <2>1, <2>6, <3>2 DEF RoundFlush, store
    <3>. QED  BY <3>1, <3>2
  <2>7. CASE GraceExpireAndReturn \/ CrashAndReturn
    <3>1. queues'[q] = LoadRows(table'[q])
      BY <2>7 DEF GraceExpireAndReturn, CrashAndReturn, LoadFrom, store
    <3>. QED  BY <2>3, <3>1, LoadMatches
  <2>. QED  BY <2>4, <2>5, <2>6, <2>7, MarkingSteps
<1>. QED  BY <1>1, <1>2, TypeCorrect, PTL DEF Spec

-----------------------------------------------------------------------------
(* Settle ends                                                             *)

Ranks == [1..5 -> Nat]

\* The rank x is less than y at the first place where they differ.
Less(x, y) ==
  /\ x \in Ranks /\ y \in Ranks
  /\ \E j \in 1..5 : (\A i \in 1..(j - 1) : x[i] = y[i]) /\ x[j] < y[j]

\* What an iteration of settleQueue has less of than the one before: seconds,
\* else queues to visit, else the queue at hand, else entries in it; else the
\* head was closed and is not.
SettleRank ==
  LET q == CHOOSE x \in QueueIds : cur = {x}
  IN  [i \in 1..5 |->
        CASE i = 1 -> IF remaining > 0 THEN remaining ELSE 0
          [] i = 2 -> Cardinality(visit)
          [] i = 3 -> IF cur = {} THEN 0 ELSE 1
          [] i = 4 -> IF cur = {} THEN 0 ELSE Len(queues[q])
          [] i = 5 -> IF cur # {} /\ Configured(q) /\ ~CheckReqs(queues[q][1].ev) THEN 1 ELSE 0]

\* There is no infinite descent of ranks, ...
LEMMA RanksEnd == ~\E f \in [Nat -> Ranks] : \A n \in Nat : Less(f[n + 1], f[n])
<1> DEFINE Order == LexProductOrdering(Below, Nat, 5)
<1>1. IsWellFoundedOn(Below, Nat)
  BY NatLessThanWellFounded DEF OpToRel, Below
<1>2. IsWellFoundedOn(Order, Ranks)
  BY <1>1, WFLexProductOrdering DEF Ranks
<1>3. ASSUME NEW x \in Ranks, NEW y \in Ranks, Less(x, y) PROVE <<x, y>> \in Order
  <2>1. PICK j \in 1..5 : (\A i \in 1..(j - 1) : x[i] = y[i]) /\ x[j] < y[j]
    BY <1>3 DEF Less
  <2>2. <<x[j], y[j]>> \in Below
    BY <2>1 DEF Below, Ranks
  <2>. QED  BY <2>1, <2>2 DEF LexProductOrdering, Ranks
<1> HIDE DEF Order
<1>. QED  BY <1>2, <1>3 DEF IsWellFoundedOn

\* The queue at hand is the only one.
LEMMA AtHandIs ==
  ASSUME NEW q \in QueueIds, cur = {q}
  PROVE  (CHOOSE x \in QueueIds : cur = {x}) = q
OBVIOUS

LEMMA RankAt ==
  ASSUME NEW q \in QueueIds, cur = {q}
  PROVE  /\ SettleRank[1] = IF remaining > 0 THEN remaining ELSE 0
         /\ SettleRank[2] = Cardinality(visit)
         /\ SettleRank[3] = 1
         /\ SettleRank[4] = Len(queues[q])
         /\ SettleRank[5] = IF Configured(q) /\ ~CheckReqs(queues[q][1].ev) THEN 1 ELSE 0
<1>1. cur # {}
  OBVIOUS
<1>. QED  BY <1>1, AtHandIs DEF SettleRank

LEMMA RankBetween ==
  ASSUME cur = {}
  PROVE  /\ SettleRank[1] = IF remaining > 0 THEN remaining ELSE 0
         /\ SettleRank[2] = Cardinality(visit)
         /\ SettleRank[3] = 0 /\ SettleRank[4] = 0 /\ SettleRank[5] = 0
BY DEF SettleRank

\* The same for the state an iteration leads to.
LEMMA RankAtNext ==
  ASSUME NEW q \in QueueIds, cur' = {q}
  PROVE  /\ SettleRank'[1] = IF remaining' > 0 THEN remaining' ELSE 0
         /\ SettleRank'[2] = Cardinality(visit')
         /\ SettleRank'[3] = 1
         /\ SettleRank'[4] = Len(queues'[q])
         /\ SettleRank'[5] = (IF Configured(q) /\ ~CheckReqs(queues[q][1].ev) THEN 1 ELSE 0)'
<1>1. (CHOOSE x \in QueueIds : cur' = {x}) = q /\ cur' # {}
  OBVIOUS
<1>. QED  BY <1>1 DEF SettleRank

LEMMA RankBetweenNext ==
  ASSUME cur' = {}
  PROVE  /\ SettleRank'[1] = IF remaining' > 0 THEN remaining' ELSE 0
         /\ SettleRank'[2] = Cardinality(visit')
         /\ SettleRank'[3] = 0 /\ SettleRank'[4] = 0 /\ SettleRank'[5] = 0
BY DEF SettleRank

LEMMA RankType ==
  ASSUME TypeOK, NEW q \in QueueIds, cur \in {{}, {q}}
  PROVE  SettleRank \in Ranks
<1>1. Cardinality(visit) \in Nat
  BY QueuesAssumption, FS_Subset, FS_CardinalityType DEF TypeOK
<1>2. Len(queues[q]) \in Nat /\ remaining \in Int
  BY DEF TypeOK
<1>3. \A i \in 1..5 : SettleRank[i] \in Nat
  <2>1. \A i \in 1..5 : i \in {1, 2, 3, 4, 5}
    OBVIOUS
  <2>2. CASE cur = {}
    BY <1>1, <1>2, <2>1, <2>2, RankBetween
  <2>3. CASE cur = {q}
    BY <1>1, <1>2, <2>1, <2>3, RankAt
  <2>. QED  BY <2>2, <2>3
<1>4. SettleRank = [i \in 1..5 |-> SettleRank[i]]
  BY DEF SettleRank
<1>. QED  BY <1>3, <1>4 DEF Ranks

\* Time is used up, or what comes later in the rank grows less.
LEMMA LessAt ==
  ASSUME NEW x \in Ranks, NEW y \in Ranks, NEW j \in 1..5,
         \A i \in 1..5 : i < j => x[i] = y[i], x[j] < y[j]
  PROVE  Less(x, y)
<1>1. \A i \in 1..(j - 1) : x[i] = y[i]
  OBVIOUS
<1>. QED  BY <1>1 DEF Less

LEMMA RankTypeNext ==
  ASSUME TypeOK', NEW q \in QueueIds, cur' \in {{}, {q}}
  PROVE  SettleRank' \in Ranks
<1>1. Cardinality(visit') \in Nat
  BY QueuesAssumption, FS_Subset, FS_CardinalityType DEF TypeOK
<1>2. Len(queues'[q]) \in Nat /\ remaining' \in Int
  BY DEF TypeOK
<1>3. \A i \in 1..5 : SettleRank'[i] \in Nat
  <2>1. \A i \in 1..5 : i \in {1, 2, 3, 4, 5}
    OBVIOUS
  <2>2. CASE cur' = {}
    BY <1>1, <1>2, <2>1, <2>2, RankBetweenNext
  <2>3. CASE cur' = {q}
    BY <1>1, <1>2, <2>1, <2>3, RankAtNext
  <2>. QED  BY <2>2, <2>3
<1>4. SettleRank' = [i \in 1..5 |-> SettleRank'[i]]
  BY DEF SettleRank
<1>. QED  BY <1>3, <1>4 DEF Ranks

\* ... and every iteration has a lower rank than the one before it.
LEMMA SettleStepDescends ==
  ASSUME TypeOK, TypeOK', SettleStep, phase' = "settling"
  PROVE  Less(SettleRank', SettleRank)
<1>1. PICK q \in QueueIds :
        \/ SettleNextQueue(q) \/ SettleQueueDone(q)
        \/ SettleDrop(q) \/ SettleSwap(q) \/ SettleBlocked(q)
        \/ SettleProgress(q) \/ SettleCycles(q) \/ SettleInstant(q)
  BY DEF SettleStep, SettleReturn
<1>2. /\ cur \in {{}, {q}} /\ cur' \in {{}, {q}}
  BY <1>1 DEF SettleNextQueue, SettleQueueDone, SettleDrop, SettleSwap, SettleBlocked,
              SettleProgress, SettleCycles, SettleInstant, AtHead, SettleTo
<1>3. SettleRank \in Ranks /\ SettleRank' \in Ranks
  BY <1>2, RankType, RankTypeNext
<1>4. \A j \in 1..5 : (\A i \in 1..5 : i < j => SettleRank'[i] = SettleRank[i])
                        /\ SettleRank'[j] < SettleRank[j] => Less(SettleRank', SettleRank)
  BY <1>3, LessAt
<1>5. /\ queues[q] \in Seq(Entry) /\ queues'[q] \in Seq(Entry)
      /\ remaining \in Int /\ remaining' \in Int
  BY DEF TypeOK
<1>6. cur = {q} =>
        /\ SettleRank[1] = IF remaining > 0 THEN remaining ELSE 0
        /\ SettleRank[2] = Cardinality(visit)
        /\ SettleRank[3] = 1
        /\ SettleRank[4] = Len(queues[q])
        /\ SettleRank[5] = IF Configured(q) /\ ~CheckReqs(queues[q][1].ev) THEN 1 ELSE 0
  BY RankAt
<1>7. cur' = {q} =>
        /\ SettleRank'[1] = IF remaining' > 0 THEN remaining' ELSE 0
        /\ SettleRank'[2] = Cardinality(visit')
        /\ SettleRank'[3] = 1
        /\ SettleRank'[4] = Len(queues'[q])
        /\ SettleRank'[5] = (IF Configured(q) /\ ~CheckReqs(queues[q][1].ev) THEN 1 ELSE 0)'
  BY RankAtNext
<1>8. cur = {} =>
        /\ SettleRank[1] = IF remaining > 0 THEN remaining ELSE 0
        /\ SettleRank[2] = Cardinality(visit)
        /\ SettleRank[3] = 0 /\ SettleRank[4] = 0 /\ SettleRank[5] = 0
  BY RankBetween
<1>9. cur' = {} =>
        /\ SettleRank'[1] = IF remaining' > 0 THEN remaining' ELSE 0
        /\ SettleRank'[2] = Cardinality(visit')
        /\ SettleRank'[3] = 0 /\ SettleRank'[4] = 0 /\ SettleRank'[5] = 0
  BY RankBetweenNext
<1>10. ASSUME cur = {q}, cur' = {q}, remaining > 0, remaining' < remaining
       PROVE  Less(SettleRank', SettleRank)
  <2>1. SettleRank'[1] < SettleRank[1]
    BY <1>5, <1>6, <1>7, <1>10
  <2>. QED  BY <1>4, <2>1
<1>11. ASSUME cur = {q}, cur' = {q}, remaining' = remaining, visit' = visit,
              Len(queues'[q]) < Len(queues[q])
       PROVE  Less(SettleRank', SettleRank)
  <2>1. /\ SettleRank'[1] = SettleRank[1] /\ SettleRank'[2] = SettleRank[2]
        /\ SettleRank'[3] = SettleRank[3] /\ SettleRank'[4] < SettleRank[4]
    BY <1>6, <1>7, <1>11
  <2>. QED  BY <1>4, <2>1
<1>12. CASE SettleNextQueue(q)
  <2>1. /\ cur = {} /\ cur' = {q} /\ remaining' = remaining
        /\ visit' = visit \ {q} /\ q \in visit
    BY <1>12 DEF SettleNextQueue
  <2>2. IsFiniteSet(visit)
    BY QueuesAssumption, FS_Subset DEF TypeOK
  <2>3. Cardinality(visit') < Cardinality(visit)
    <3>1. Cardinality(visit \ {q}) = Cardinality(visit) - 1
      BY <2>1, <2>2, FS_RemoveElement
    <3>2. Cardinality(visit) \in Nat
      BY <2>2, FS_CardinalityType
    <3>. QED  BY <2>1, <3>1, <3>2
  <2>4. SettleRank'[1] = SettleRank[1] /\ SettleRank'[2] < SettleRank[2]
    BY <1>7, <1>8, <2>1, <2>3
  <2>. QED  BY <1>4, <2>4
<1>13. CASE SettleQueueDone(q) \/ SettleBlocked(q)
  <2>1. cur = {q} /\ cur' = {} /\ remaining' = remaining /\ visit' = visit
    BY <1>13 DEF SettleQueueDone, SettleBlocked, AtHead
  <2>2. /\ SettleRank'[1] = SettleRank[1] /\ SettleRank'[2] = SettleRank[2]
        /\ SettleRank'[3] < SettleRank[3]
    BY <1>6, <1>9, <2>1
  <2>. QED  BY <1>4, <2>2
<1>14. CASE SettleDrop(q) \/ SettleInstant(q)
  <2>1. /\ cur = {q} /\ cur' = {q} /\ remaining' = remaining /\ visit' = visit
        /\ queues[q] # <<>> /\ queues' = [queues EXCEPT ![q] = Consume(queues[q], 1)]
    BY <1>14 DEF SettleDrop, SettleInstant, AtHead, SettleTo
  <2>2. queues'[q] = Consume(queues[q], 1)
    BY <2>1 DEF TypeOK
  <2>. QED  BY <1>5, <1>11, <2>1, <2>2, ConsumeShortens
<1>15. CASE SettleSwap(q)
  <2>1. /\ cur = {q} /\ cur' = {q} /\ remaining' = remaining /\ visit' = visit
        /\ unlocked' = unlocked
        /\ Configured(q) /\ ~CheckReqs(queues[q][1].ev)
    BY <1>15 DEF SettleSwap, AtHead, SettleTo, world
  <2>2. PICK i \in Satisfied(queues[q]) : queues' = [queues EXCEPT ![q] = Swap(queues[q], i)]
    BY <1>15 DEF SettleSwap, SettleTo
  <2>3. i \in 2..Len(queues[q]) /\ CheckReqs(queues[q][i].ev)
    BY <2>2 DEF Satisfied, Runnable
  <2>4. queues'[q] = Swap(queues[q], i)
    BY <2>2 DEF TypeOK
  <2>5. Len(queues'[q]) = Len(queues[q]) /\ queues'[q][1] = queues[q][i]
    BY <1>5, <2>3, <2>4 DEF Swap
  <2>6. CheckReqs(queues[q][1].ev)'
    BY <2>1, <2>3, <2>5 DEF CheckReqs
  <2>7. /\ SettleRank'[1] = SettleRank[1] /\ SettleRank'[2] = SettleRank[2]
        /\ SettleRank'[3] = SettleRank[3] /\ SettleRank'[4] = SettleRank[4]
        /\ SettleRank'[5] < SettleRank[5]
    BY <1>6, <1>7, <2>1, <2>5, <2>6
  <2>. QED  BY <1>4, <2>7
<1>16. CASE SettleProgress(q)
  <2>1. cur = {q} /\ cur' = {q} /\ remaining > 0 /\ remaining' = 0
    BY <1>16 DEF SettleProgress, AtHead, SettleTo
  <2>. QED  BY <1>10, <2>1
<1>17. CASE SettleCycles(q)
  <2> DEFINE h == queues[q][1]
             n == Affordable(h, remaining)
             lt == LoopTime[h.ev]
  <2>1. /\ cur = {q} /\ cur' = {q} /\ remaining > 0 /\ queues[q] # <<>>
        /\ n > 0 /\ h.ev \in Events /\ lt > 0 /\ remaining' = remaining - n * lt
    BY <1>17 DEF SettleCycles, AtHead, SettleTo, Runnable, Looping
  <2>2. lt \in Nat /\ h \in Entry
    BY <1>5, <2>1, HeadType, ConfigAssumption
  <2>3. n \in Nat
    BY <1>5, <2>1, <2>2, AffordableBound DEF TypeOK
  <2> HIDE DEF n, lt
  <2>4. n * lt > 0 /\ n * lt \in Nat
    BY <2>1, <2>2, <2>3
  <2>5. remaining' < remaining
    BY <1>5, <2>1, <2>4
  <2>. QED  BY <1>10, <2>1, <2>5
<1>. QED  BY <1>1, <1>12, <1>13, <1>14, <1>15, <1>16, <1>17

\* Settle does not go on for ever: whatever the queues, the times, the gates
\* that open meanwhile and the order of the queues, each iteration descends in
\* an order that has no infinite descent (settle.go Settle, settleQueue).
THEOREM SettleDescends ==
  Spec => [][phase = "settling" /\ phase' = "settling" => Less(SettleRank', SettleRank)]_vars
<1>1. TypeOK /\ TypeOK' /\ [Next]_vars =>
        [phase = "settling" /\ phase' = "settling" => Less(SettleRank', SettleRank)]_vars
  <2>. SUFFICES ASSUME TypeOK, TypeOK', [Next]_vars, ~UNCHANGED vars,
                       phase = "settling", phase' = "settling"
                PROVE  Less(SettleRank', SettleRank)
    OBVIOUS
  <2>1. SettleStep
    BY DEF Next, QueueAppend, InsertEntry, QueueSet, QueueRemove, QueueMove, ExecuteInstant,
           Edit, TickInactive, TickAdvance, TickSettle, Tick, RoundFlush,
           GraceExpireAndReturn, CrashAndReturn, LoadFrom
  <2>. QED  BY <2>1, SettleStepDescends
<1>. QED  BY <1>1, TypeCorrect, PTL DEF Spec

-----------------------------------------------------------------------------
(* The queues with a client                                                *)

LEMMA CommandIsStep ==
  ClientCommand => Next
<1> SUFFICES ASSUME ClientCommand PROVE Next
    OBVIOUS
<1>1. CASE \E q \in QueueIds, e \in Ids, t \in Targets :
             \/ QueueAppend(q, e, t)
             \/ QueueSet(q, <<e>>, t)
             \/ \E f \in Ids : QueueSet(q, <<e, f>>, t)
  BY <1>1 DEF Next
<1>2. CASE \E q \in QueueIds : QueueSet(q, <<>>, 0)
  BY <1>2 DEF Next
<1>3. CASE \E q \in QueueIds, i, j \in 1..MaxLen :
             QueueRemove(q, i) \/ QueueMove(q, i, j)
  BY <1>3 DEF Next
<1>4. CASE \E e \in Events : ExecuteInstant(e)
  BY <1>4 DEF Next
<1>. QED  BY <1>1, <1>2, <1>3, <1>4 DEF ClientCommand

LEMMA SettleIsStep ==
  ClientSettle => Next
<1> SUFFICES ASSUME ClientSettle PROVE SettleStep
    BY DEF Next
<1>. QED  BY DEF ClientSettle, SettleStep

LEMMA ClientStepIsStep ==
  [ClientNext]_clientVars => [Next]_vars
<1> SUFFICES ASSUME [ClientNext]_clientVars PROVE [Next]_vars
    OBVIOUS
<1>1. CASE ClientCommand
  BY <1>1, CommandIsStep
<1>2. CASE \E d \in Deltas : TickInactive(d) \/ TickAdvance(d) \/ TickSettle(d)
  BY <1>2 DEF Next
<1>3. CASE ClientSettle
  BY <1>3, SettleIsStep
<1>4. CASE PushAndFlush
  BY <1>4 DEF PushAndFlush, Next
<1>5. CASE Connect \/ Disconnect
  BY <1>5 DEF Connect, Disconnect
<1>6. CASE SessionEnds
  BY <1>6 DEF SessionEnds, Next
<1>7. CASE UNCHANGED clientVars
  BY <1>7 DEF clientVars
<1>. QED  BY <1>1, <1>2, <1>3, <1>4, <1>5, <1>6, <1>7 DEF ClientNext

\* Clients, marks and diffs only watch the queues: every behavior of the
\* queues with a client is one of EventQueue (event/bucket.go, provider.go).
THEOREM ClientImplementsQueue ==
  ClientSpec => Spec
<1>1. ClientInit => Init
  BY DEF ClientInit
<1>. QED  BY <1>1, ClientStepIsStep, PTL DEF ClientSpec, Spec

\* With clients coming and going, too, no event is executed before its gate
\* is open.
THEOREM GatesRespectedWithClient ==
  ClientSpec => []GateRespected
<1>. QED  BY ClientImplementsQueue, GatesRespected, PTL

-----------------------------------------------------------------------------
(* What the client is shown                                                *)

\* Sets that are matched one to one are equally large.
LEMMA SameSize ==
  ASSUME NEW S, IsFiniteSet(S), NEW T, NEW h \in [S -> T],
         \A x, y \in S : h[x] = h[y] => x = y, \A z \in T : \E x \in S : h[x] = z
  PROVE  IsFiniteSet(T) /\ Cardinality(T) = Cardinality(S)
<1>1. h \in Bijection(S, T)
  BY DEF Bijection, Injection, Surjection, IsInjective
<1>. QED  BY <1>1, FS_Bijection DEF ExistsBijection

\* The list depends on the events of the queue only.
LEMMA SameEvents ==
  ASSUME NEW s, NEW t, Len(s) \in Nat, Len(t) = Len(s),
         \A i \in 1..Len(s) : t[i].ev = s[i].ev
  PROVE  Listed(t) = Listed(s)
<1>1. [i \in 1..Len(t) |-> t[i].ev] = [i \in 1..Len(s) |-> s[i].ev]
  OBVIOUS
<1>2. {i \in 1..Len(t) : t[i].ev \in Events} = {i \in 1..Len(s) : s[i].ev \in Events}
  OBVIOUS
<1>. QED  BY <1>1, <1>2 DEF Listed

Where(s, e) == {i \in 1..Len(s) : s[i].ev = e}

\* Every known event is listed as often as it is in the queue.
LEMMA ListedCount ==
  ASSUME NEW s, Len(s) \in Nat, NEW e \in Events
  PROVE  Count(Listed(s), e) = Cardinality(Where(s, e)) /\ IsFiniteSet(Where(s, e))
<1> DEFINE evs == [i \in 1..Len(s) |-> s[i].ev]
           K == {i \in 1..Len(s) : s[i].ev \in Events}
           t == Listed(s)
           P == {i \in DOMAIN t : t[i] = e}
<1>1. Len(evs) = Len(s) /\ K \cap (1..Len(s)) = K
  OBVIOUS
<1>2. t = Kept(evs, K)
  BY DEF Listed
<1>3. Picks(evs, K, t)
  <2> HIDE DEF evs, K, t
  <2>1. Picks(evs, K \cap (1..Len(evs)), Kept(evs, K))
    BY <1>1, KeptPicks
  <2>. QED  BY <1>1, <1>2, <2>1
<1>4. \A k \in K : evs[k] = s[k].ev /\ k \in 1..Len(s)
  OBVIOUS
<1>5. \A k \in Where(s, e) : k \in K /\ evs[k] = e
  BY DEF Where
<1> HIDE DEF evs, K, t
<1>6. PICK h \in [1..Len(t) -> K] :
        /\ \A i, j \in 1..Len(t) : h[i] = h[j] => i = j
        /\ \A k \in K : \E i \in 1..Len(t) : h[i] = k
        /\ \A i \in 1..Len(t) : t[i] = evs[h[i]]
  BY <1>3 DEF Picks
<1>7. DOMAIN t = 1..Len(t) /\ Len(t) \in Nat
  BY <1>3 DEF Picks
<1> DEFINE g == [i \in P |-> h[i]]
<1>8. IsFiniteSet(P)
  <2>1. IsFiniteSet(1..Len(t)) /\ P \subseteq 1..Len(t)
    BY <1>7, FS_Interval
  <2>. QED  BY <2>1, FS_Subset
<1>9. g \in [P -> Where(s, e)]
  <2>1. ASSUME NEW i \in P PROVE h[i] \in Where(s, e)
    <3>1. i \in 1..Len(t) /\ t[i] = e
      BY <1>7
    <3>. QED  BY <1>4, <1>6, <3>1 DEF Where
  <2>. QED  BY <2>1
<1>10. \A i, j \in P : g[i] = g[j] => i = j
  BY <1>6, <1>7
<1>11. ASSUME NEW k \in Where(s, e) PROVE \E i \in P : g[i] = k
  <2>1. PICK i \in 1..Len(t) : h[i] = k
    BY <1>5, <1>6
  <2>2. i \in P
    BY <1>5, <1>6, <1>7, <2>1
  <2>. QED  BY <2>1, <2>2
<1> HIDE DEF g, P
<1>12. IsFiniteSet(Where(s, e)) /\ Cardinality(Where(s, e)) = Cardinality(P)
  BY <1>8, <1>9, <1>10, <1>11, SameSize
<1>. QED  BY <1>12 DEF Count, P, t

\* A snapshot of one queue lists each event as often as the queue has it.
LEMMA SnapshotCount ==
  ASSUME TypeOK, NEW q \in QueueIds, QueueIds = {q}, NEW f \in Snapshots,
         NEW u, u = [k \in DOMAIN f |-> queues[f[k][1]][f[k][2]]], NEW e \in Events
  PROVE  Count(Listed(u), e) = Count(Listed(queues[q]), e)
<1> DEFINE s == queues[q]
           n == Cardinality(Places)
           pair == [i \in 1..Len(s) |-> <<q, i>>]
<1>1. Len(s) \in Nat /\ s \in Seq(Entry)
  BY DEF TypeOK
<1>2. Places = {<<q, i>> : i \in 1..Len(s)}
  BY DEF Places
<1> HIDE DEF s
<1>3. IsFiniteSet(Places) /\ n = Len(s)
  <2>1. pair \in [1..Len(s) -> Places]
    BY <1>2
  <2>2. \A i, j \in 1..Len(s) : pair[i] = pair[j] => i = j
    OBVIOUS
  <2>3. \A x \in Places : \E i \in 1..Len(s) : pair[i] = x
    BY <1>2
  <2>4. IsFiniteSet(1..Len(s)) /\ Cardinality(1..Len(s)) = Len(s)
    BY <1>1, FS_Interval
  <2> HIDE DEF pair
  <2>. QED  BY <2>1, <2>2, <2>3, <2>4, SameSize
<1>4. /\ f \in [1..n -> Places]
      /\ \A j, k \in 1..n : f[j] = f[k] => j = k
      /\ \A x \in Places : \E k \in 1..n : f[k] = x
  BY DEF Snapshots, Bijection, Injection, Surjection, IsInjective
<1>5. \A k \in 1..n : \E i \in 1..Len(s) : f[k] = <<q, i>>
  BY <1>2, <1>4
<1>6. n \in Nat /\ Len(u) = n /\ \A k \in 1..n : u[k] = s[f[k][2]]
  <2>1. DOMAIN f = 1..n /\ n \in Nat
    BY <1>1, <1>3, <1>4
  <2> HIDE DEF n
  <2>2. Len(u) = n
    BY <2>1
  <2>3. \A k \in 1..n : u[k] = queues[f[k][1]][f[k][2]]
    BY <2>1
  <2>. QED  BY <1>5, <2>1, <2>2, <2>3 DEF s
<1> HIDE DEF n
<1> DEFINE g == [k \in Where(u, e) |-> f[k][2]]
<1>7. g \in [Where(u, e) -> Where(s, e)]
  BY <1>5, <1>6 DEF Where
<1>8. ASSUME NEW j \in Where(u, e), NEW k \in Where(u, e), g[j] = g[k] PROVE j = k
  <2>1. j \in 1..n /\ k \in 1..n
    BY <1>6 DEF Where
  <2>2. f[j] = f[k]
    BY <1>5, <1>8, <2>1
  <2>. QED  BY <1>4, <2>1, <2>2
<1>9. ASSUME NEW i \in Where(s, e) PROVE \E k \in Where(u, e) : g[k] = i
  <2>1. PICK k \in 1..n : f[k] = <<q, i>>
    BY <1>2, <1>4 DEF Where
  <2>2. k \in Where(u, e)
    BY <1>6, <2>1 DEF Where
  <2>. QED  BY <2>1, <2>2
<1>10. IsFiniteSet(Where(u, e)) /\ Count(Listed(u), e) = Cardinality(Where(u, e))
  BY <1>6, ListedCount
<1>11. Count(Listed(s), e) = Cardinality(Where(s, e))
  BY <1>1, ListedCount
<1> HIDE DEF g
<1>12. Cardinality(Where(s, e)) = Cardinality(Where(u, e))
  BY <1>7, <1>8, <1>9, <1>10, SameSize
<1>. QED  BY <1>10, <1>11, <1>12 DEF s

\* The client shows the events of s, in order if its list came in a diff.
Shows(s) ==
  /\ \A e \in Events : Count(shown, e) = Count(Listed(s), e)
  /\ ordered => shown = Listed(s)

\* ClientShowsQueue, in every phase and round: the whole list of a queue is
\* marked for the diff as soon as a client would have to be shown another one.
ShowsInv ==
  /\ marks \in [QueueIds -> {"none", "current", "full"}]
  /\ \A q \in QueueIds :
       QueueIds = {q} /\ shown # NoClient /\ marks[q] # "full" => Shows(queues[q])

\* A step that marks the queue it changes in full, or changes no event of it.
LEMMA MarkingKeeps ==
  ASSUME TypeOK, ShowsInv, shown' = shown, ordered' = ordered,
         marks' \in [QueueIds -> {"none", "current", "full"}],
         \A q \in QueueIds :
           \/ marks'[q] = "full"
           \/ /\ marks[q] = "full" => marks'[q] = "full"
              /\ Listed(queues'[q]) = Listed(queues[q])
  PROVE  ShowsInv'
BY DEF ShowsInv, Shows

LEMMA FullMark ==
  ASSUME TypeOK, ShowsInv, NEW q \in QueueIds, Mark(q, "full")
  PROVE  /\ shown' = shown /\ ordered' = ordered
         /\ marks' \in [QueueIds -> {"none", "current", "full"}] /\ marks'[q] = "full"
         /\ \A r \in QueueIds : r # q => marks'[r] = marks[r]
BY DEF Mark, Marked, ShowsInv

LEMMA EditKeeps ==
  ASSUME TypeOK, ShowsInv, NEW q \in QueueIds, NEW s,
         queues' = [queues EXCEPT ![q] = s], Mark(q, "full")
  PROVE  ShowsInv'
<1>1. \A r \in QueueIds : r # q => queues'[r] = queues[r]
  BY DEF TypeOK
<1>. QED  BY <1>1, FullMark, MarkingKeeps

LEMMA CommandShows ==
  ASSUME TypeOK, ShowsInv, ClientCommand
  PROVE  ShowsInv'
<1>1. CASE \E e \in Events : ExecuteInstant(e) /\ UNCHANGED client
  BY <1>1 DEF ExecuteInstant, client, ShowsInv, Shows
<1>2. ASSUME NEW q \in QueueIds, NEW s, Edit(q, s), Mark(q, "full") PROVE ShowsInv'
  BY <1>2, EditKeeps DEF Edit
<1>3. ASSUME NEW q \in QueueIds, NEW e \in Ids, NEW t \in Targets, Mark(q, "full"),
             QueueAppend(q, e, t) \/ QueueSet(q, <<e>>, t) \/ \E f \in Ids : QueueSet(q, <<e, f>>, t)
      PROVE  ShowsInv'
  BY <1>2, <1>3 DEF QueueAppend, QueueSet
<1>4. ASSUME NEW q \in QueueIds, Mark(q, "full"),
             QueueSet(q, <<>>, 0) \/ \E i, j \in 1..MaxLen : QueueRemove(q, i) \/ QueueMove(q, i, j)
      PROVE  ShowsInv'
  BY <1>2, <1>4 DEF QueueSet, QueueRemove, QueueMove
<1>. QED  BY <1>1, <1>3, <1>4 DEF ClientCommand

\* Work on the head that leaves the entries where they are changes no event.
LEMMA HeadKeeps ==
  ASSUME NEW s \in Seq(Entry), s # <<>>, NEW e, e.ev = s[1].ev
  PROVE  Listed([s EXCEPT ![1] = e]) = Listed(s)
<1> DEFINE t == [s EXCEPT ![1] = e]
<1>1. Len(s) \in Nat /\ Len(t) = Len(s)
  OBVIOUS
<1>2. \A i \in 1..Len(s) : t[i].ev = s[i].ev
  OBVIOUS
<1> HIDE DEF t
<1>3. Listed(t) = Listed(s)
  BY <1>1, <1>2, SameEvents
<1>. QED  BY <1>3 DEF t

LEMMA ProgressKeeps ==
  ASSUME NEW s \in Seq(Entry), s # <<>>, NEW p, NEW g
  PROVE  /\ Listed([s EXCEPT ![1].progress = p]) = Listed(s)
         /\ Listed([s EXCEPT ![1].progress = p, ![1].target = g]) = Listed(s)
<1> DEFINE d == [s[1] EXCEPT !.progress = p]
           e == [s[1] EXCEPT !.progress = p, !.target = g]
<1>1. d.ev = s[1].ev /\ e.ev = s[1].ev
  BY HeadType DEF Entry
<1>2. /\ [s EXCEPT ![1].progress = p] = [s EXCEPT ![1] = d]
      /\ [s EXCEPT ![1].progress = p, ![1].target = g] = [s EXCEPT ![1] = e]
  OBVIOUS
<1> HIDE DEF d, e
<1>. QED  BY <1>1, <1>2, HeadKeeps

\* A queue whose events stay is marked at most in part.
LEMMA PartKeeps ==
  ASSUME TypeOK, ShowsInv, NEW q \in QueueIds, NEW s, Listed(s) = Listed(queues[q]),
         queues' = [queues EXCEPT ![q] = s], Mark(q, "current")
  PROVE  ShowsInv'
<1>1. \A r \in QueueIds : Listed(queues'[r]) = Listed(queues[r])
  BY DEF TypeOK
<1>2. /\ shown' = shown /\ ordered' = ordered
      /\ marks' \in [QueueIds -> {"none", "current", "full"}]
      /\ \A r \in QueueIds : marks[r] = "full" => marks'[r] = "full"
  BY DEF Mark, Marked, ShowsInv
<1>. QED  BY <1>1, <1>2, MarkingKeeps

LEMMA SettleShows ==
  ASSUME TypeOK, ShowsInv, ClientSettle
  PROVE  ShowsInv'
<1>1. ASSUME NEW q \in QueueIds, NEW s, SettleTo(q, s), Mark(q, "full") PROVE ShowsInv'
  BY <1>1, EditKeeps DEF SettleTo
<1>2. ASSUME NEW q \in QueueIds, Mark(q, "full"),
             SettleDrop(q) \/ SettleSwap(q) \/ SettleInstant(q)
      PROVE  ShowsInv'
  BY <1>1, <1>2 DEF SettleDrop, SettleSwap, SettleInstant
<1>3. ASSUME NEW q \in QueueIds, AtHead(q) PROVE queues[q] \in Seq(Entry) /\ queues[q] # <<>>
  BY <1>3 DEF AtHead, TypeOK
<1>4. ASSUME NEW q \in QueueIds, Mark(q, "current"), SettleProgress(q) PROVE ShowsInv'
  <2> DEFINE s == [queues[q] EXCEPT ![1].progress = @ + remaining]
  <2>1. SettleTo(q, s) /\ AtHead(q)
    BY <1>4 DEF SettleProgress
  <2>2. Listed(s) = Listed(queues[q])
    BY <1>3, <2>1, ProgressKeeps
  <2> HIDE DEF s
  <2>. QED  BY <1>4, <2>1, <2>2, PartKeeps DEF SettleTo
<1>5. ASSUME NEW q \in QueueIds, Mark(q, CyclesScope(q)), SettleCycles(q) PROVE ShowsInv'
  <2> DEFINE h == queues[q][1]
             n == Affordable(h, remaining)
             s == AfterCycles(queues[q], n)
  <2>1. SettleTo(q, s) /\ AtHead(q)
    BY <1>5 DEF SettleCycles
  <2>2. queues' = [queues EXCEPT ![q] = s] /\ queues'[q] = s
    BY <2>1 DEF SettleTo, TypeOK
  <2>3. CASE h.target > 0 /\ h.target <= n
    <3>1. s = Consume(queues[q], 1)
      BY <2>3 DEF AfterCycles
    <3>2. CyclesScope(q) = "full"
      BY <1>3, <2>1, <2>2, <3>1, ConsumeShortens DEF CyclesScope
    <3>. QED  BY <1>1, <1>5, <2>1, <3>2
  <2>4. CASE ~(h.target > 0 /\ h.target <= n)
    <3> DEFINE pr == h.progress + remaining - n * LoopTime[h.ev]
               tg == IF h.target > 0 THEN h.target - n ELSE h.target
    <3>1. s = [queues[q] EXCEPT ![1].progress = pr, ![1].target = tg]
      BY <1>3, <2>1, <2>4 DEF AfterCycles
    <3> HIDE DEF pr, tg, s
    <3>2. Listed(s) = Listed(queues[q])
      BY <1>3, <2>1, <3>1, ProgressKeeps
    <3>4. Len(s) = Len(queues[q]) /\ Len(s) \in Nat
      BY <1>3, <2>1, <3>1
    <3>3. CyclesScope(q) = "current"
      BY <2>2, <3>4 DEF CyclesScope
    <3>. QED  BY <1>5, <2>2, <3>2, <3>3, PartKeeps
  <2>. QED  BY <2>3, <2>4
<1>6. ASSUME UNCHANGED <<queues, client>> PROVE ShowsInv'
  BY <1>6 DEF client, ShowsInv, Shows
<1>7. ASSUME UNCHANGED client,
             \/ SettleReturn
             \/ \E q \in QueueIds : SettleNextQueue(q) \/ SettleQueueDone(q) \/ SettleBlocked(q)
      PROVE  ShowsInv'
  BY <1>6, <1>7 DEF SettleReturn, SettleNextQueue, SettleQueueDone, SettleBlocked
<1>. QED  BY <1>2, <1>4, <1>5, <1>7 DEF ClientSettle

LEMMA TickShows ==
  ASSUME TypeOK, ShowsInv, UNCHANGED client, NEW d \in Deltas,
         TickInactive(d) \/ TickAdvance(d) \/ TickSettle(d)
  PROVE  ShowsInv'
<1>1. \A q \in QueueIds : Listed(queues'[q]) = Listed(queues[q])
  <2>1. CASE TickInactive(d) \/ TickSettle(d)
    BY <2>1 DEF TickInactive, TickSettle
  <2>2. ASSUME TickAdvance(d), NEW q \in QueueIds
        PROVE  Listed(queues'[q]) = Listed(queues[q])
    <3>1. queues'[q] = IF Configured(q) /\ Looping(queues[q][1].ev)
                       THEN Advanced(queues[q], d) ELSE queues[q]
      BY <2>2 DEF TickAdvance
    <3>2. ASSUME Configured(q)
          PROVE  Listed(Advanced(queues[q], d)) = Listed(queues[q])
      <4>1. queues[q] \in Seq(Entry) /\ queues[q] # <<>>
        BY <3>2 DEF Configured, TypeOK
      <4>2. PICK p : Advanced(queues[q], d) = [queues[q] EXCEPT ![1].progress = p]
        BY DEF Advanced
      <4>3. Listed([queues[q] EXCEPT ![1].progress = p]) = Listed(queues[q])
        BY <4>1, ProgressKeeps
      <4>. QED  BY <4>2, <4>3
    <3>. QED  BY <3>1, <3>2
  <2>. QED  BY <2>1, <2>2
<1>. QED  BY <1>1, MarkingKeeps DEF client, ShowsInv

LEMMA PushShows ==
  ASSUME TypeOK, ShowsInv, PushAndFlush
  PROVE  ShowsInv'
<1>1. queues' = queues /\ marks' = NoMarks /\ ApplyDiff
  BY DEF PushAndFlush, RoundFlush
<1>2. marks' \in [QueueIds -> {"none", "current", "full"}]
  BY <1>1 DEF NoMarks
<1>3. ASSUME NEW q \in QueueIds, QueueIds = {q}, shown' # NoClient
      PROVE  Shows(queues[q])'
  <2>1. CASE marks[q] = "full" /\ shown # NoClient
    <3>1. ordered' = TRUE /\ shown' = Listed(queues[q])
      BY <1>1, <1>3, <2>1 DEF ApplyDiff
    <3>. QED  BY <1>1, <3>1 DEF Shows
  <2>2. CASE marks[q] # "full" \/ shown = NoClient
    <3>1. shown' = shown /\ ordered' = ordered
      BY <1>1, <1>3, <2>2 DEF ApplyDiff
    <3>. QED  BY <1>1, <1>3, <2>2, <3>1 DEF Shows, ShowsInv
  <2>. QED  BY <2>1, <2>2
<1>. QED  BY <1>2, <1>3 DEF ShowsInv

LEMMA ConnectShows ==
  ASSUME TypeOK, ShowsInv, Connect
  PROVE  ShowsInv'
<1>1. PICK f \in Snapshots :
        shown' = Listed([k \in DOMAIN f |-> queues[f[k][1]][f[k][2]]])
  BY DEF Connect
<1>2. queues' = queues /\ marks' = marks /\ ordered' = FALSE
  BY DEF Connect, vars
<1> DEFINE u == [k \in DOMAIN f |-> queues[f[k][1]][f[k][2]]]
<1>3. ASSUME NEW q \in QueueIds, QueueIds = {q}, NEW e \in Events
      PROVE  Count(Listed(u), e) = Count(Listed(queues[q]), e)
  BY <1>3, SnapshotCount
<1> HIDE DEF u
<1>4. shown' = Listed(u)
  BY <1>1 DEF u
<1>. QED  BY <1>2, <1>3, <1>4 DEF ShowsInv, Shows

\* Through commands, swaps, drops, entries that end, reconnects, expiry and
\* crashes a client of a player with one queue lists what is queued.
THEOREM ClientShown == ClientSpec => []ClientShowsQueue
<1>1. ClientInit => ShowsInv
  BY DEF ClientInit, NoMarks, ShowsInv
<1>2. TypeOK /\ ShowsInv /\ [ClientNext]_clientVars => ShowsInv'
  <2> SUFFICES ASSUME TypeOK, ShowsInv, [ClientNext]_clientVars PROVE ShowsInv'
    OBVIOUS
  <2>1. CASE Disconnect
    BY <2>1 DEF Disconnect, vars, ShowsInv
  <2>2. CASE SessionEnds
    BY <2>2 DEF SessionEnds, NoMarks, ShowsInv
  <2>3. CASE UNCHANGED clientVars
    BY <2>3 DEF clientVars, client, vars, ShowsInv, Shows
  <2>. QED  BY <2>1, <2>2, <2>3, CommandShows, SettleShows, TickShows, PushShows,
               ConnectShows DEF ClientNext
<1>3. ShowsInv => ClientShowsQueue
  BY DEF ShowsInv, Shows, NoMarks, ClientShowsQueue
<1>4. ClientSpec => []TypeOK
  BY ClientImplementsQueue, TypeCorrect, PTL
<1>. QED  BY <1>1, <1>2, <1>3, <1>4, PTL DEF ClientSpec

=============================================================================
