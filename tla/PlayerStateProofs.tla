------------------------- MODULE PlayerStateProofs -------------------------
(***************************************************************************)
(* Proofs about PlayerState, for every configuration of items, slots,      *)
(* attributes, formulas and level curve, and every bound: its types; no    *)
(* item is lost or doubled; what is not marked is saved; no clean value in *)
(* the cache is out of date; and a client is in step between ticks.        *)
(*                                                                         *)
(* In this order: sums over finite sets; what the parts of a command do to *)
(* the record of a player (Now); the evaluation of attributes; the slots   *)
(* of pieces; what a part of a command keeps (Kept); putting on and taking *)
(* off; levels; then the inductive invariant (IInv), one lemma per action, *)
(* and the theorems.                                                       *)
(***************************************************************************)
EXTENDS PlayerState, FiniteSetTheorems, SequenceTheorems, WellFoundedInduction, TLAPS

-----------------------------------------------------------------------------
(* Induction, as a least element: the library's induction theorems take a  *)
(* predicate as a parameter.                                               *)

Earlier == {ss \in Nat \X Nat : ss[1] < ss[2]}

\* Every non-empty set of natural numbers has a least element.
LEMMA LeastElement ==
  ASSUME NEW T, T \subseteq Nat, T # {}
  PROVE  \E x \in T : \A y \in T : x <= y
<1>1. IsWellFoundedOn(Earlier, Nat)
  BY NatLessThanWellFounded DEF OpToRel, Earlier
<1>2. PICK x \in T : \A y \in T : ~(<<y, x>> \in Earlier)
  BY <1>1, WFMin
<1>3. ASSUME NEW y \in T PROVE x <= y
  <2>1. x \in Nat /\ y \in Nat /\ ~(y < x)
    BY <1>2 DEF Earlier
  <2>. QED  BY <2>1
<1>. QED  BY <1>3

\* Min of a set of natural numbers is its least element.
LEMMA MinIsLeast ==
  ASSUME NEW T, T \subseteq Nat, T # {}
  PROVE  Min(T) \in T /\ \A y \in T : Min(T) <= y
  BY LeastElement DEF Min

\* Of the finite sets with a property there is a smallest one.
LEMMA SmallestSet ==
  ASSUME NEW C, C # {}, \A s \in C : IsFiniteSet(s)
  PROVE  \E s \in C : \A t \in C : Cardinality(s) <= Cardinality(t)
<1>. DEFINE N == {Cardinality(s) : s \in C}
<1>1. N \subseteq Nat /\ N # {}
  BY FS_CardinalityType
<1>2. PICK n \in N : \A k \in N : n <= k
  BY <1>1, LeastElement
<1>. QED  BY <1>2

-----------------------------------------------------------------------------
(* Sums                                                                    *)

Pick(s) == CHOOSE x \in s : TRUE

Partial(f, S, g) ==
  g = [s \in SUBSET S |-> IF s = {} THEN 0 ELSE f[Pick(s)] + g[s \ {Pick(s)}]]

LEMMA SumIsPartial ==
  ASSUME NEW f, NEW S
  PROVE  SumFunctionOnSet(f, S) = (CHOOSE g : Partial(f, S, g))[S]
  BY DEF SumFunctionOnSet, FoldFunctionOnSet, MapThenFoldSet, Partial, Pick

LEMMA Picked ==
  ASSUME NEW s, s # {}, IsFiniteSet(s)
  PROVE  /\ Pick(s) \in s /\ IsFiniteSet(s \ {Pick(s)})
         /\ Cardinality(s) \in Nat /\ Cardinality(s \ {Pick(s)}) = Cardinality(s) - 1
  BY FS_RemoveElement, FS_CardinalityType DEF Pick

\* The recursion by which sums are defined has a solution.
LEMMA PartialExists ==
  ASSUME NEW S, IsFiniteSet(S), NEW f \in [S -> Int]
  PROVE  \E g : Partial(f, S, g)
<1>. DEFINE Next1(g, s) == IF s = {} THEN 0 ELSE f[Pick(s)] + g[s \ {Pick(s)}]
            Upto(n) == \E g \in [SUBSET S -> Int] :
                         \A s \in SUBSET S : Cardinality(s) <= n => g[s] = Next1(g, s)
            Bad == {n \in Nat : ~Upto(n)}
<1>1. \A s \in SUBSET S : IsFiniteSet(s) /\ Cardinality(s) \in Nat
  BY FS_Subset, FS_CardinalityType
<1>2. Upto(0)
  <2>1. \A s \in SUBSET S : Cardinality(s) <= 0 => s = {}
    BY <1>1, FS_EmptySet
  <2>2. [s \in SUBSET S |-> 0] \in [SUBSET S -> Int]
    OBVIOUS
  <2>. QED  BY <2>1, <2>2
<1>3. ASSUME NEW n \in Nat, Upto(n) PROVE Upto(n + 1)
  <2>1. PICK g \in [SUBSET S -> Int] : \A s \in SUBSET S : Cardinality(s) <= n => g[s] = Next1(g, s)
    BY <1>3
  <2>. DEFINE h == [s \in SUBSET S |-> IF Cardinality(s) <= n THEN g[s] ELSE Next1(g, s)]
  <2>2. ASSUME NEW s \in SUBSET S, s # {}
        PROVE  /\ Pick(s) \in S /\ s \ {Pick(s)} \in SUBSET S
               /\ Cardinality(s \ {Pick(s)}) = Cardinality(s) - 1
    BY <2>2, <1>1, Picked
  <2>3. ASSUME NEW s \in SUBSET S PROVE Next1(g, s) \in Int
    <3>1. CASE s = {}
      BY <3>1
    <3>2. CASE s # {}
      <4>1. Pick(s) \in S /\ s \ {Pick(s)} \in SUBSET S
        BY <2>2, <3>2
      <4>2. f[Pick(s)] \in Int /\ g[s \ {Pick(s)}] \in Int
        BY <4>1
      <4>. QED  BY <4>2, <3>2
    <3>. QED  BY <3>1, <3>2
  <2>4. h \in [SUBSET S -> Int]
    BY <2>3
  <2>5. ASSUME NEW s \in SUBSET S, Cardinality(s) <= n + 1 PROVE h[s] = Next1(h, s)
    <3>1. CASE s = {}
      <4>1. Cardinality(s) = 0
        BY <3>1, FS_EmptySet
      <4>. QED  BY <3>1, <4>1, <2>1
    <3>2. CASE s # {}
      <4>1. Cardinality(s \ {Pick(s)}) <= n
        BY <3>2, <2>2, <2>5, <1>1
      <4>2. h[s \ {Pick(s)}] = g[s \ {Pick(s)}]
        BY <4>1, <3>2, <2>2
      <4>3. h[s] = Next1(g, s)
        BY <2>1
      <4>. QED  BY <4>2, <4>3, <3>2
    <3>. QED  BY <3>1, <3>2
  <2>. HIDE DEF h
  <2>. QED  BY <2>4, <2>5
<1>. HIDE DEF Upto
<1>4. Bad = {}
  <2>1. SUFFICES ASSUME Bad # {} PROVE FALSE
    OBVIOUS
  <2>2. PICK n \in Bad : \A k \in Bad : n <= k
    BY <2>1, LeastElement
  <2>3. n # 0
    BY <1>2, <2>2
  <2>4. n - 1 \in Nat /\ n - 1 \notin Bad
    BY <2>2, <2>3
  <2>. QED  BY <2>4, <2>2, <1>3
<1>5. Upto(Cardinality(S))
  BY <1>4, FS_CardinalityType
<1>6. PICK g \in [SUBSET S -> Int] :
        \A s \in SUBSET S : Cardinality(s) <= Cardinality(S) => g[s] = Next1(g, s)
  BY <1>5 DEF Upto
<1>7. \A s \in SUBSET S : g[s] = Next1(g, s)
  BY <1>6, FS_Subset
<1>8. g = [s \in SUBSET S |-> Next1(g, s)]
  BY <1>7
<1>. QED  BY <1>8 DEF Partial

\* Solutions have integer values and agree where the functions do.
LEMMA PartialUnique ==
  ASSUME NEW S, IsFiniteSet(S), NEW f, NEW g, Partial(f, S, g), \A x \in S : f[x] \in Int,
         NEW T, IsFiniteSet(T), NEW e, NEW h, Partial(e, T, h), \A x \in T : e[x] = f[x],
         T \subseteq S
  PROVE  \A s \in SUBSET T : g[s] \in Int /\ g[s] = h[s]
<1>. DEFINE C == {s \in SUBSET T : ~(g[s] \in Int /\ g[s] = h[s])}
<1>1. SUFFICES ASSUME C # {} PROVE FALSE
  OBVIOUS
<1>2. \A s \in C : IsFiniteSet(s)
  BY FS_Subset
<1>3. PICK s \in C : \A t \in C : Cardinality(s) <= Cardinality(t)
  BY <1>1, <1>2, SmallestSet
<1>4. /\ g[s] = IF s = {} THEN 0 ELSE f[Pick(s)] + g[s \ {Pick(s)}]
      /\ h[s] = IF s = {} THEN 0 ELSE e[Pick(s)] + h[s \ {Pick(s)}]
  BY DEF Partial
<1>5. s # {}
  BY <1>3, <1>4
<1>. DEFINE r == s \ {Pick(s)}
<1>6. Pick(s) \in s /\ Cardinality(s) \in Nat /\ Cardinality(r) = Cardinality(s) - 1
  BY <1>5, <1>2, Picked
<1>7. r \notin C
  BY <1>6, <1>3
<1>8. g[r] \in Int /\ g[r] = h[r]
  BY <1>7
<1>. QED  BY <1>3, <1>4, <1>5, <1>6, <1>8

Summable(f, S) == IsFiniteSet(S) /\ \A x \in S : f[x] \in Int

LEMMA SumOfPartial ==
  ASSUME NEW f, NEW S, Summable(f, S)
  PROVE  \E g : /\ Partial(f, S, g)
                /\ \A s \in SUBSET S : g[s] \in Int /\ g[s] = SumFunctionOnSet(f, s)
<1>1. ASSUME NEW s \in SUBSET S PROVE \E g : Partial(f, s, g)
  <2>. DEFINE e == [x \in s |-> f[x]]
  <2>1. IsFiniteSet(s) /\ e \in [s -> Int]
    BY FS_Subset DEF Summable
  <2>2. PICK g : Partial(e, s, g)
    BY <2>1, PartialExists
  <2>3. \A t \in SUBSET s : t # {} => Pick(t) \in s
    BY DEF Pick
  <2>4. Partial(f, s, g)
    BY <2>2, <2>3 DEF Partial
  <2>. QED  BY <2>4
<1>2. PICK g : Partial(f, S, g)
  BY <1>1
<1>3. ASSUME NEW s \in SUBSET S PROVE g[s] \in Int /\ g[s] = SumFunctionOnSet(f, s)
  <2>. DEFINE h == CHOOSE h : Partial(f, s, h)
  <2>1. Partial(f, s, h)
    BY <1>1
  <2>2. SumFunctionOnSet(f, s) = h[s]
    BY SumIsPartial
  <2>. HIDE DEF h
  <2>3. IsFiniteSet(s)
    BY FS_Subset DEF Summable
  <2>4. g[s] \in Int /\ g[s] = h[s]
    BY <1>2, <2>1, <2>3, PartialUnique DEF Summable
  <2>. QED  BY <2>2, <2>4
<1>. QED  BY <1>2, <1>3

LEMMA SumOfNone ==
  ASSUME NEW f
  PROVE  SumFunctionOnSet(f, {}) = 0
<1>1. Summable(f, {})
  BY FS_EmptySet DEF Summable
<1>. QED  BY <1>1, SumOfPartial DEF Partial

LEMMA SumType ==
  ASSUME NEW f, NEW S, Summable(f, S)
  PROVE  SumFunctionOnSet(f, S) \in Int
  BY SumOfPartial

LEMMA SumWithPick ==
  ASSUME NEW f, NEW S, Summable(f, S), S # {}
  PROVE  SumFunctionOnSet(f, S) = f[Pick(S)] + SumFunctionOnSet(f, S \ {Pick(S)})
<1>1. PICK g : /\ Partial(f, S, g)
               /\ \A s \in SUBSET S : g[s] \in Int /\ g[s] = SumFunctionOnSet(f, s)
  BY SumOfPartial
<1>2. g[S] = f[Pick(S)] + g[S \ {Pick(S)}]
  BY <1>1 DEF Partial
<1>. QED  BY <1>1, <1>2

\* One term of a sum may be added last.
LEMMA SumWith ==
  ASSUME NEW f, NEW S, Summable(f, S), NEW y \in S
  PROVE  SumFunctionOnSet(f, S) = f[y] + SumFunctionOnSet(f, S \ {y})
<1>. DEFINE C == {s \in SUBSET S : \E z \in s :
                    SumFunctionOnSet(f, s) # f[z] + SumFunctionOnSet(f, s \ {z})}
<1>1. SUFFICES ASSUME C # {} PROVE FALSE
  OBVIOUS
<1>2. \A s \in SUBSET S : Summable(f, s)
  BY FS_Subset DEF Summable
<1>3. \A s \in C : IsFiniteSet(s)
  BY <1>2 DEF Summable
<1>4. PICK s \in C : \A t \in C : Cardinality(s) <= Cardinality(t)
  BY <1>1, <1>3, SmallestSet
<1>5. PICK z \in s : SumFunctionOnSet(f, s) # f[z] + SumFunctionOnSet(f, s \ {z})
  BY <1>4
<1>. DEFINE x == Pick(s)
<1>6. x \in s /\ s \in SUBSET S
  BY <1>5 DEF Pick
<1>7. SumFunctionOnSet(f, s) = f[x] + SumFunctionOnSet(f, s \ {x})
  BY <1>2, <1>5, <1>6, SumWithPick
<1>. HIDE DEF x
<1>8. x # z
  BY <1>5, <1>7
<1>9. s \ {x} \notin C /\ s \ {z} \notin C
  <2>1. ASSUME NEW u \in s PROVE s \ {u} \notin C
    <3>1. IsFiniteSet(s) /\ Cardinality(s) \in Nat
      BY <1>2, <1>6, FS_CardinalityType DEF Summable
    <3>2. Cardinality(s \ {u}) = Cardinality(s) - 1
      BY <3>1, FS_RemoveElement
    <3>3. ~(Cardinality(s) <= Cardinality(s \ {u}))
      BY <3>1, <3>2
    <3>. QED  BY <3>3, <1>4
  <2>. QED  BY <2>1, <1>6
<1>10. /\ SumFunctionOnSet(f, s \ {x}) = f[z] + SumFunctionOnSet(f, (s \ {x}) \ {z})
       /\ SumFunctionOnSet(f, s \ {z}) = f[x] + SumFunctionOnSet(f, (s \ {z}) \ {x})
  BY <1>9, <1>8, <1>6, <1>5
<1>11. (s \ {x}) \ {z} = (s \ {z}) \ {x} /\ (s \ {x}) \ {z} \in SUBSET S
  BY <1>6
<1>12. /\ f[x] \in Int /\ f[z] \in Int
       /\ SumFunctionOnSet(f, (s \ {x}) \ {z}) \in Int
  BY <1>2, <1>6, <1>5, <1>11, SumType DEF Summable
<1>. DEFINE rest == SumFunctionOnSet(f, (s \ {x}) \ {z})
<1>13. SumFunctionOnSet(f, s) = f[x] + (f[z] + rest)
  BY <1>7, <1>10
<1>14. SumFunctionOnSet(f, s) # f[z] + (f[x] + rest)
  BY <1>5, <1>10, <1>11
<1>. HIDE DEF rest
<1>15. f[x] + (f[z] + rest) = f[z] + (f[x] + rest)
  BY <1>12 DEF rest
<1>. QED  BY <1>13, <1>14, <1>15

\* A sum depends on the values that are summed only.
LEMMA SumSame ==
  ASSUME NEW f, NEW S, Summable(f, S), NEW h, \A x \in S : h[x] = f[x]
  PROVE  SumFunctionOnSet(h, S) = SumFunctionOnSet(f, S)
<1>1. Summable(h, S)
  BY DEF Summable
<1>2. PICK g : /\ Partial(f, S, g)
               /\ \A s \in SUBSET S : g[s] \in Int /\ g[s] = SumFunctionOnSet(f, s)
  BY SumOfPartial
<1>3. PICK e : /\ Partial(h, S, e)
               /\ \A s \in SUBSET S : e[s] \in Int /\ e[s] = SumFunctionOnSet(h, s)
  BY <1>1, SumOfPartial
<1>4. g[S] = e[S]
  BY <1>2, <1>3, PartialUnique DEF Summable
<1>. QED  BY <1>2, <1>3, <1>4

Plus(f, x, n) == [f EXCEPT ![x] = @ + n]

\* Changing one value changes the sum by as much.
LEMMA SumChanged ==
  ASSUME NEW D, IsFiniteSet(D), NEW f \in [D -> Int], NEW y \in D, NEW n \in Int
  PROVE  SumFunction(Plus(f, y, n)) = SumFunction(f) + n
<1>. DEFINE g == [f EXCEPT ![y] = @ + n]
<1>1. Summable(f, D) /\ Summable(g, D) /\ DOMAIN g = D
  BY DEF Summable
<1>2. Summable(f, D \ {y})
  BY <1>1, FS_RemoveElement DEF Summable
<1>3. SumFunctionOnSet(g, D \ {y}) = SumFunctionOnSet(f, D \ {y})
  BY <1>2, SumSame
<1>4. SumFunctionOnSet(f, D \ {y}) \in Int
  BY <1>2, SumType
<1>7. g[y] = f[y] + n
  OBVIOUS
<1>9. g = Plus(f, y, n)
  BY DEF Plus
<1>. HIDE DEF g
<1>5. SumFunctionOnSet(g, D) = g[y] + SumFunctionOnSet(g, D \ {y})
  BY <1>1, SumWith
<1>6. SumFunctionOnSet(f, D) = f[y] + SumFunctionOnSet(f, D \ {y})
  BY <1>1, SumWith
<1>8. SumFunctionOnSet(g, D) = SumFunctionOnSet(f, D) + n
  BY <1>3, <1>4, <1>5, <1>6, <1>7
<1>. QED  BY <1>1, <1>8, <1>9 DEF SumFunction

-----------------------------------------------------------------------------
(* Types.  A command makes one record of the player's state (Now) another, *)
(* so facts about commands are facts about such records.                   *)

SkillType == [level : Nat, xp : Nat]

DirtyType == [inv : SUBSET Items, worn : SUBSET Slots, gone : SUBSET Slots,
              seen : SUBSET Items, skill : BOOLEAN]

RecType == [attr : SUBSET Attrs, inv : [Items -> Int],
            worn : [Slots -> Items \cup {"none", "unequip"}],
            seen : SUBSET Defs, skill : Nat \cup {None}, xp : Nat]

WornType == [Slots -> Piece \cup {None}]

PlayerType == [inv : [Items -> Nat], worn : WornType, mods : [Defs -> Items \cup {None}],
               stale : SUBSET Attrs, seen : SUBSET Items, skill : SkillType,
               dirty : DirtyType, rec : RecType]

RowsType == [inv : [Items -> Nat], worn : WornType, seen : SUBSET Defs, skill : SkillType]

\* A call of getFinal.
Frame == [attr : Attrs, refs : [Attrs -> Values \cup {None}], its : SUBSET Items]

TypeInv ==
  /\ Now \in PlayerType
  /\ cached \in [Attrs -> Values \cup {None}]
  /\ rows \in RowsType
  /\ phase \in {"idle", "commands", "settle", "flush", "down"}
  /\ due \in BOOLEAN /\ torn \in BOOLEAN /\ raced \in BOOLEAN
  /\ frames \in Seq(Frame)
  /\ client \in Shown \cup {None} /\ full \in Shown \cup {None}
  /\ commands \in Nat /\ crashes \in Nat

LEMMA Constants ==
  /\ Def \in [Items -> Defs]
  /\ None \notin Items /\ None \notin Values /\ None \notin Nat
  /\ None \notin Piece /\ None \notin Shown
  /\ "none" \notin Items /\ "unequip" \notin Items
  /\ Refs \in [Attrs -> SUBSET Attrs]
  /\ Touches \in [Items -> SUBSET Attrs]
  BY PlayerAssumption

LEMMA PlayerFields ==
  ASSUME NEW p \in PlayerType
  PROVE  /\ p.inv \in [Items -> Nat] /\ p.worn \in WornType
         /\ p.mods \in [Defs -> Items \cup {None}]
         /\ p.stale \subseteq Attrs /\ p.seen \subseteq Items /\ p.skill \in SkillType
         /\ p.dirty \in DirtyType /\ p.rec \in RecType
  BY DEF PlayerType

LEMMA NowFields ==
  /\ Now.inv = inv /\ Now.worn = worn /\ Now.mods = mods /\ Now.stale = stale
  /\ Now.seen = seen /\ Now.skill = skill /\ Now.dirty = dirty /\ Now.rec = rec
  BY DEF Now

-----------------------------------------------------------------------------
(* What can be reached                                                     *)

LEMMA ReachHas ==
  ASSUME NEW from \in SUBSET Attrs, NEW next
  PROVE  from \subseteq Reach(from, next) /\ Reach(from, next) \subseteq Attrs
  BY DEF Reach

LEMMA ReachNext ==
  ASSUME NEW from \in SUBSET Attrs, NEW next \in [Attrs -> SUBSET Attrs],
         NEW b \in Reach(from, next)
  PROVE  next[b] \subseteq Reach(from, next)
<1>. SUFFICES ASSUME NEW a \in next[b] PROVE a \in Reach(from, next)
  OBVIOUS
<1>1. b \in Attrs /\ a \in Attrs
  BY DEF Reach
<1>2. ASSUME NEW M \in SUBSET Attrs, from \subseteq M, \A c \in M : next[c] \subseteq M PROVE a \in M
  <2>1. b \in M
    BY <1>2 DEF Reach
  <2>. QED  BY <2>1, <1>2
<1>. QED  BY <1>1, <1>2 DEF Reach

LEMMA ReachWithin ==
  ASSUME NEW from, NEW next, NEW M \in SUBSET Attrs,
         from \subseteq M, \A c \in M : next[c] \subseteq M
  PROVE  Reach(from, next) \subseteq M
  BY DEF Reach

\* The attributes that depend on a, but for those in old.
Dependents(old) == [a \in Attrs |-> {c \in Attrs \ old : a \in Refs[c]}]

\* Marking marks what depends on a newly marked attribute.
LEMMA MarkedClosed ==
  ASSUME NEW old \in SUBSET Attrs, NEW as \in SUBSET Attrs
  PROVE  /\ Marked(old, as) \subseteq Attrs /\ old \subseteq Marked(old, as)
         /\ as \subseteq Marked(old, as)
         /\ \A a \in Marked(old, as) \ old : \A c \in Attrs : a \in Refs[c] => c \in Marked(old, as)
<1>. DEFINE new == Reach(as \ old, Dependents(old))
<1>1. Marked(old, as) = old \cup new
  BY DEF Marked, Dependents
<1>2. as \ old \subseteq new /\ new \subseteq Attrs
  BY ReachHas
<1>3. Dependents(old) \in [Attrs -> SUBSET Attrs]
  BY DEF Dependents
<1>4. \A a \in new : Dependents(old)[a] \subseteq new
  BY <1>3, ReachNext
<1>5. \A a \in new : \A c \in Attrs : a \in Refs[c] => c \in old \cup new
  BY <1>2, <1>4 DEF Dependents
<1>. QED  BY <1>1, <1>2, <1>5

-----------------------------------------------------------------------------
(* What the parts of a command do to the record                            *)

IsAdded(p, q, it, n) ==
  /\ q \in PlayerType
  /\ q.inv = Plus(p.inv, it, n)
  /\ q.worn = p.worn /\ q.mods = p.mods /\ q.stale = p.stale
  /\ q.seen = p.seen /\ q.skill = p.skill
  /\ q.dirty = [p.dirty EXCEPT !.inv = @ \cup {it}]
  /\ q.rec = [p.rec EXCEPT !.inv = Plus(p.rec.inv, it, n)]

LEMMA AddedFields ==
  ASSUME NEW p \in PlayerType, NEW it \in Items, NEW n \in Int, p.inv[it] + n >= 0
  PROVE  IsAdded(p, Added(p, it, n), it, n)
<1>. DEFINE q == Added(p, it, n)
<1>. USE PlayerFields
<1>1. /\ q.inv = Plus(p.inv, it, n)
      /\ q.worn = p.worn /\ q.mods = p.mods /\ q.stale = p.stale
      /\ q.seen = p.seen /\ q.skill = p.skill
      /\ q.dirty = [p.dirty EXCEPT !.inv = @ \cup {it}]
      /\ q.rec = [p.rec EXCEPT !.inv = Plus(p.rec.inv, it, n)]
  BY DEF Added, RecordedStack, Plus, PlayerType
<1>2. Plus(p.inv, it, n) \in [Items -> Nat] /\ Plus(p.rec.inv, it, n) \in [Items -> Int]
  BY DEF Plus, RecType
<1>3. q.dirty \in DirtyType /\ q.rec \in RecType
  BY <1>1, <1>2 DEF DirtyType, RecType
<1>4. q = [p EXCEPT !.inv = q.inv, !.dirty = q.dirty, !.rec = q.rec]
  BY DEF Added, PlayerType
<1>. HIDE DEF q
<1>5. q \in PlayerType
  BY <1>1, <1>2, <1>3, <1>4 DEF PlayerType
<1>. QED  BY <1>1, <1>5 DEF q, IsAdded

IsUnlocked(p, q, it) ==
  /\ q \in PlayerType
  /\ q.inv = p.inv /\ q.worn = p.worn /\ q.mods = p.mods /\ q.stale = p.stale
  /\ q.seen = p.seen \cup {it} /\ q.skill = p.skill
  /\ it \in p.seen => q = p
  /\ it \notin p.seen => /\ q.dirty = [p.dirty EXCEPT !.seen = @ \cup {it}]
                         /\ q.rec = [p.rec EXCEPT !.seen = @ \cup {Def[it]}]

LEMMA UnlockedFields ==
  ASSUME NEW p \in PlayerType, NEW it \in Items
  PROVE  IsUnlocked(p, Unlocked(p, it), it)
<1>. DEFINE q == Unlocked(p, it)
<1>. USE PlayerFields
<1>1. CASE it \in p.seen
  BY <1>1 DEF Unlocked, IsUnlocked
<1>2. CASE it \notin p.seen
  <2>1. /\ q.inv = p.inv /\ q.worn = p.worn /\ q.mods = p.mods /\ q.stale = p.stale
        /\ q.seen = p.seen \cup {it} /\ q.skill = p.skill
        /\ q.dirty = [p.dirty EXCEPT !.seen = @ \cup {it}]
        /\ q.rec = [p.rec EXCEPT !.seen = @ \cup {Def[it]}]
    BY <1>2 DEF Unlocked, RecordedUnlock, PlayerType
  <2>2. q.dirty \in DirtyType /\ q.rec \in RecType
    BY <2>1, Constants DEF DirtyType, RecType
  <2>3. q = [inv |-> q.inv, worn |-> q.worn, mods |-> q.mods, stale |-> q.stale,
             seen |-> q.seen, skill |-> q.skill, dirty |-> q.dirty, rec |-> q.rec]
    BY <1>2 DEF Unlocked, PlayerType
  <2>. HIDE DEF q
  <2>4. q \in PlayerType
    BY <2>1, <2>2, <2>3 DEF PlayerType
  <2>. QED  BY <1>2, <2>1, <2>4 DEF q, IsUnlocked
<1>. QED  BY <1>1, <1>2

LEMMA NotedFields ==
  ASSUME NEW p \in PlayerType, NEW as \in SUBSET Attrs
  PROVE  LET q == Noted(p, as)
         IN /\ q \in PlayerType
            /\ q.inv = p.inv /\ q.worn = p.worn /\ q.mods = p.mods
            /\ q.stale = Marked(p.stale, as)
            /\ q.seen = p.seen /\ q.skill = p.skill /\ q.dirty = p.dirty
            /\ q.rec = [p.rec EXCEPT !.attr = @ \cup (Marked(p.stale, as) \ p.stale)]
<1>1. Marked(p.stale, as) \subseteq Attrs
  BY MarkedClosed, PlayerFields
<1>. QED  BY <1>1 DEF Noted, PlayerType, RecType

\* What the modifiers and the dirty flags have to do with each other: nothing
\* that is not marked has lost or got a modifier.
SameBut(p, q) ==
  /\ q.inv = p.inv /\ q.worn = p.worn /\ q.seen = p.seen /\ q.skill = p.skill
  /\ q.dirty = p.dirty
  /\ p.stale \subseteq q.stale
  /\ \A a \in q.stale \ p.stale : \A c \in Attrs : a \in Refs[c] => c \in q.stale
  /\ \A a \in Attrs \ q.stale :
       {it \in MountedItems(q.mods) : a \in Touches[it]}
         = {it \in MountedItems(p.mods) : a \in Touches[it]}
  /\ q.rec = [p.rec EXCEPT !.attr = @ \cup (q.stale \ p.stale)]

LEMMA RemovedFields ==
  ASSUME NEW p \in PlayerType, NEW d \in Defs
  PROVE  LET q == Removed(p, d)
         IN q \in PlayerType /\ q.mods = [p.mods EXCEPT ![d] = None] /\ SameBut(p, q)
<1>. DEFINE q == Removed(p, d)
<1>. USE PlayerFields
<1>1. CASE p.mods[d] = None
  <2>1. q = p
    BY <1>1 DEF Removed
  <2>2. p.rec = [p.rec EXCEPT !.attr = @ \cup (p.stale \ p.stale)]
    BY DEF RecType
  <2>3. p.mods = [p.mods EXCEPT ![d] = None]
    BY <1>1
  <2>. QED  BY <2>1, <2>2, <2>3 DEF SameBut
<1>2. CASE p.mods[d] # None
  <2>. DEFINE it == p.mods[d]
              m == Noted(p, Touches[it])
  <2>1. it \in Items /\ Touches[it] \in SUBSET Attrs
    BY <1>2, Constants
  <2>2. q = [m EXCEPT !.mods = [@ EXCEPT ![d] = None]]
    BY <1>2 DEF Removed
  <2>3. /\ m \in PlayerType
        /\ m.inv = p.inv /\ m.worn = p.worn /\ m.mods = p.mods
        /\ m.stale = Marked(p.stale, Touches[it])
        /\ m.seen = p.seen /\ m.skill = p.skill /\ m.dirty = p.dirty
        /\ m.rec = [p.rec EXCEPT !.attr = @ \cup (Marked(p.stale, Touches[it]) \ p.stale)]
    BY <2>1, NotedFields
  <2>. HIDE DEF m
  <2>4. /\ q \in PlayerType /\ q.mods = [p.mods EXCEPT ![d] = None]
        /\ q.inv = p.inv /\ q.worn = p.worn /\ q.stale = m.stale
        /\ q.seen = p.seen /\ q.skill = p.skill /\ q.dirty = p.dirty /\ q.rec = m.rec
    BY <2>2, <2>3 DEF PlayerType
  <2>. HIDE DEF q
  <2>5. ASSUME NEW a \in Attrs \ q.stale
        PROVE  {i \in MountedItems(q.mods) : a \in Touches[i]}
                 = {i \in MountedItems(p.mods) : a \in Touches[i]}
    <3>1. a \notin Touches[it]
      BY <2>1, <2>3, <2>4, MarkedClosed
    <3>2. MountedItems(q.mods) \subseteq MountedItems(p.mods)
      BY <2>4 DEF MountedItems
    <3>3. \A i \in MountedItems(p.mods) : i = it \/ i \in MountedItems(q.mods)
      BY <2>4 DEF MountedItems
    <3>. QED  BY <3>1, <3>2, <3>3
  <2>6. /\ p.stale \subseteq q.stale
        /\ \A a \in q.stale \ p.stale : \A c \in Attrs : a \in Refs[c] => c \in q.stale
    BY <2>1, <2>3, <2>4, MarkedClosed
  <2>7. SameBut(p, q)
    BY <2>3, <2>4, <2>5, <2>6 DEF SameBut
  <2>. QED  BY <2>4, <2>7 DEF q
<1>. QED  BY <1>1, <1>2

LEMMA MountedFields ==
  ASSUME NEW p \in PlayerType, NEW it \in Items
  PROVE  LET q == Mounted(p, it)
         IN q \in PlayerType /\ q.mods = [p.mods EXCEPT ![Def[it]] = it] /\ SameBut(p, q)
<1>. DEFINE d == Def[it]
            r == Removed(p, d)
            m == Noted(r, Touches[it])
            q == Mounted(p, it)
<1>. USE PlayerFields
<1>1. d \in Defs /\ Touches[it] \in SUBSET Attrs
  BY Constants
<1>2. r \in PlayerType /\ r.mods = [p.mods EXCEPT ![d] = None] /\ SameBut(p, r)
  BY <1>1, RemovedFields
<1>. HIDE DEF r
<1>3. /\ m \in PlayerType
      /\ m.inv = r.inv /\ m.worn = r.worn /\ m.mods = r.mods
      /\ m.stale = Marked(r.stale, Touches[it])
      /\ m.seen = r.seen /\ m.skill = r.skill /\ m.dirty = r.dirty
      /\ m.rec = [r.rec EXCEPT !.attr = @ \cup (Marked(r.stale, Touches[it]) \ r.stale)]
  BY <1>1, <1>2, NotedFields
<1>4. q = [m EXCEPT !.mods = [@ EXCEPT ![d] = it]]
  BY DEF Mounted, r
<1>. HIDE DEF m
<1>5. /\ q \in PlayerType /\ q.mods = [p.mods EXCEPT ![d] = it]
      /\ q.inv = r.inv /\ q.worn = r.worn /\ q.stale = m.stale
      /\ q.seen = r.seen /\ q.skill = r.skill /\ q.dirty = r.dirty /\ q.rec = m.rec
  BY <1>1, <1>2, <1>3, <1>4 DEF PlayerType
<1>. HIDE DEF q, d
<1>6. /\ r.stale \subseteq q.stale /\ Touches[it] \subseteq q.stale
      /\ \A a \in q.stale \ r.stale : \A c \in Attrs : a \in Refs[c] => c \in q.stale
  BY <1>1, <1>2, <1>3, <1>5, MarkedClosed
<1>7. ASSUME NEW a \in Attrs \ q.stale
      PROVE  {i \in MountedItems(q.mods) : a \in Touches[i]}
               = {i \in MountedItems(p.mods) : a \in Touches[i]}
  <2>1. {i \in MountedItems(r.mods) : a \in Touches[i]}
          = {i \in MountedItems(p.mods) : a \in Touches[i]}
    BY <1>2, <1>6 DEF SameBut
  <2>2. it # None
    BY Constants
  <2>3. MountedItems(q.mods) = MountedItems(r.mods) \cup {it}
    BY <1>1, <1>2, <1>5, <2>2 DEF MountedItems
  <2>4. a \notin Touches[it]
    BY <1>6
  <2>. QED  BY <2>1, <2>3, <2>4
<1>8. q.rec = [p.rec EXCEPT !.attr = @ \cup (q.stale \ p.stale)]
  <2>1. r.rec = [p.rec EXCEPT !.attr = @ \cup (r.stale \ p.stale)]
    BY <1>2 DEF SameBut
  <2>2. q.rec = [r.rec EXCEPT !.attr = @ \cup (q.stale \ r.stale)]
    BY <1>3, <1>5
  <2>3. r.stale \subseteq q.stale /\ p.stale \subseteq r.stale
    BY <1>2, <1>6 DEF SameBut
  <2>. QED  BY <2>1, <2>2, <2>3 DEF RecType
<1>9. SameBut(p, q)
  BY <1>2, <1>5, <1>6, <1>7, <1>8 DEF SameBut
<1>. QED  BY <1>5, <1>9 DEF d, q

-----------------------------------------------------------------------------
(* Values of attributes                                                    *)

\* Attributes refer to one another without a cycle: among some that are wrong
\* there is one that refers to none of them.
LEMMA RankInduction ==
  ASSUME NEW B \in SUBSET Attrs, \A a \in B : \E r \in Refs[a] : r \in B
  PROVE  B = {}
<1>1. PICK rank \in [Attrs -> 1..Cardinality(Attrs)] :
        \A a \in Attrs : \A r \in Refs[a] : rank[r] < rank[a]
  BY PlayerAssumption DEF Acyclic
<1>. DEFINE N == {rank[a] : a \in B}
<1>2. SUFFICES ASSUME B # {} PROVE FALSE
  OBVIOUS
<1>3. N \subseteq Nat /\ N # {}
  BY <1>1, <1>2
<1>4. PICK n \in N : \A k \in N : n <= k
  BY <1>3, LeastElement
<1>5. PICK a \in B : rank[a] = n
  OBVIOUS
<1>6. PICK r \in Refs[a] : r \in B
  BY <1>5
<1>7. rank[r] < rank[a] /\ rank[r] \in N /\ rank[r] \in Nat /\ rank[a] \in Nat
  BY <1>1, <1>5, <1>6
<1>8. n <= rank[r]
  BY <1>4, <1>7
<1>. HIDE DEF N
<1>. QED  BY <1>5, <1>7, <1>8

Evaluates(v, known, its) == v = [a \in Attrs |-> Valued(v, known, its, a)]

LEMMA FormulaType ==
  ASSUME NEW its \in SUBSET Items, NEW a \in Attrs, NEW v, \A r \in Refs[a] : v[r] \in Values
  PROVE  Formula(a, {it \in its : a \in Touches[it]}, [r \in Refs[a] |-> v[r]]) \in Values
<1>1. {it \in its : a \in Touches[it]} \in SUBSET Items
  OBVIOUS
<1>2. [r \in Refs[a] |-> v[r]] \in [Refs[a] -> Values]
  OBVIOUS
<1>. QED  BY <1>1, <1>2, PlayerAssumption

\* The recursion of getFinal ends.
LEMMA EvaluatesExists ==
  ASSUME NEW known, NEW its
  PROVE  \E v : Evaluates(v, known, its)
<1>1. PICK rank \in [Attrs -> 1..Cardinality(Attrs)] :
        \A a \in Attrs : \A r \in Refs[a] : rank[r] < rank[a]
  BY PlayerAssumption DEF Acyclic
<1>. DEFINE Upto(n) == \E v : \A a \in Attrs : rank[a] <= n => v[a] = Valued(v, known, its, a)
            Bad == {n \in Nat : ~Upto(n)}
<1>2. Upto(0)
  BY <1>1
<1>3. ASSUME NEW n \in Nat, Upto(n) PROVE Upto(n + 1)
  <2>1. PICK v : \A a \in Attrs : rank[a] <= n => v[a] = Valued(v, known, its, a)
    BY <1>3
  <2>. DEFINE w == [a \in Attrs |-> Valued(v, known, its, a)]
  <2>2. ASSUME NEW a \in Attrs, rank[a] <= n + 1 PROVE w[a] = Valued(w, known, its, a)
    <3>1. \A r \in Refs[a] : r \in Attrs /\ rank[r] <= n
      BY <1>1, <2>2, Constants
    <3>2. \A r \in Refs[a] : w[r] = v[r]
      BY <2>1, <3>1
    <3>. QED  BY <3>2 DEF Valued
  <2>. HIDE DEF w
  <2>. QED  BY <2>2
<1>. HIDE DEF Upto
<1>4. Bad = {}
  <2>1. SUFFICES ASSUME Bad # {} PROVE FALSE
    OBVIOUS
  <2>2. PICK n \in Bad : \A k \in Bad : n <= k
    BY <2>1, LeastElement
  <2>3. n # 0
    BY <1>2, <2>2
  <2>4. n - 1 \in Nat /\ n - 1 \notin Bad
    BY <2>2, <2>3
  <2>. QED  BY <2>4, <2>2, <1>3
<1>5. Cardinality(Attrs) \in Nat
  BY PlayerAssumption, FS_CardinalityType
<1>6. Upto(Cardinality(Attrs))
  BY <1>4, <1>5
<1>7. PICK v : \A a \in Attrs : rank[a] <= Cardinality(Attrs) => v[a] = Valued(v, known, its, a)
  BY <1>6 DEF Upto
<1>8. \A a \in Attrs : v[a] = Valued(v, known, its, a)
  BY <1>1, <1>5, <1>7
<1>. DEFINE w == [a \in Attrs |-> Valued(v, known, its, a)]
<1>9. ASSUME NEW a \in Attrs PROVE Valued(v, known, its, a) = Valued(w, known, its, a)
  <2>1. \A r \in Refs[a] : w[r] = v[r]
    BY <1>8, Constants
  <2>. QED  BY <2>1 DEF Valued
<1>. QED  BY <1>9 DEF Evaluates

LEMMA EvaluatedIs ==
  ASSUME NEW known \in [Attrs -> Values \cup {None}], NEW its \in SUBSET Items
  PROVE  /\ Evaluated(known, its) \in [Attrs -> Values]
         /\ \A a \in Attrs : Evaluated(known, its)[a] = Valued(Evaluated(known, its), known, its, a)
<1>. DEFINE v == Evaluated(known, its)
<1>1. v = CHOOSE u : Evaluates(u, known, its)
  BY DEF Evaluated, Evaluates
<1>2. Evaluates(v, known, its)
  BY <1>1, EvaluatesExists
<1>. HIDE DEF v
<1>3. \A a \in Attrs : v[a] = Valued(v, known, its, a)
  BY <1>2 DEF Evaluates
<1>. DEFINE B == {a \in Attrs : v[a] \notin Values}
<1>4. ASSUME NEW a \in B PROVE \E r \in Refs[a] : r \in B
  <2>1. SUFFICES ASSUME \A r \in Refs[a] : v[r] \in Values PROVE FALSE
    BY Constants
  <2>2. Valued(v, known, its, a) \in Values
    BY <2>1, FormulaType DEF Valued
  <2>. QED  BY <2>2, <1>3
<1>5. B = {}
  BY <1>4, RankInduction
<1>6. v \in [Attrs -> Values]
  BY <1>2, <1>5 DEF Evaluates
<1>. QED  BY <1>3, <1>6 DEF v

\* What a set of pieces makes of each attribute, computed from scratch.
Nothing == [a \in Attrs |-> None]
Value(its) == Evaluated(Nothing, its)

LEMMA ValueIs ==
  ASSUME NEW its \in SUBSET Items
  PROVE  /\ Value(its) \in [Attrs -> Values]
         /\ \A a \in Attrs : Value(its)[a] =
              Formula(a, {it \in its : a \in Touches[it]}, [r \in Refs[a] |-> Value(its)[r]])
<1>1. Nothing \in [Attrs -> Values \cup {None}] /\ \A a \in Attrs : Nothing[a] = None
  BY DEF Nothing
<1>. QED  BY <1>1, EvaluatedIs DEF Value, Valued

\* Values that are known and right do not change the result.
LEMMA KnownRight ==
  ASSUME NEW known \in [Attrs -> Values \cup {None}], NEW its \in SUBSET Items,
         \A a \in Attrs : known[a] # None => known[a] = Value(its)[a]
  PROVE  Evaluated(known, its) = Value(its)
<1>. DEFINE v == Evaluated(known, its)
            B == {a \in Attrs : v[a] # Value(its)[a]}
<1>1. /\ v \in [Attrs -> Values]
      /\ \A a \in Attrs : v[a] = Valued(v, known, its, a)
  BY EvaluatedIs
<1>. HIDE DEF v
<1>2. ASSUME NEW a \in B PROVE \E r \in Refs[a] : r \in B
  <2>1. SUFFICES ASSUME \A r \in Refs[a] : v[r] = Value(its)[r] PROVE FALSE
    BY Constants
  <2>2. [r \in Refs[a] |-> v[r]] = [r \in Refs[a] |-> Value(its)[r]]
    BY <2>1
  <2>3. CASE known[a] # None
    BY <2>3, <1>1 DEF Valued
  <2>4. CASE known[a] = None
    <3>1. v[a] = Formula(a, {it \in its : a \in Touches[it]}, [r \in Refs[a] |-> v[r]])
      BY <1>1, <2>4 DEF Valued
    <3>. QED  BY <3>1, <2>2, ValueIs
  <2>. QED  BY <2>3, <2>4
<1>3. B = {}
  BY <1>2, RankInduction
<1>4. v = Value(its)
  BY <1>1, <1>3, ValueIs
<1>. QED  BY <1>4 DEF v

\* Pieces that do not touch an attribute nor any it refers to do not change it.
LEMMA Untouched ==
  ASSUME NEW its1 \in SUBSET Items, NEW its2 \in SUBSET Items, NEW S \in SUBSET Attrs,
         \A a \in S : Refs[a] \subseteq S,
         \A a \in S : {it \in its1 : a \in Touches[it]} = {it \in its2 : a \in Touches[it]}
  PROVE  \A a \in S : Value(its1)[a] = Value(its2)[a]
<1>. DEFINE B == {a \in S : Value(its1)[a] # Value(its2)[a]}
<1>1. ASSUME NEW a \in B PROVE \E r \in Refs[a] : r \in B
  <2>1. SUFFICES ASSUME \A r \in Refs[a] : Value(its1)[r] = Value(its2)[r] PROVE FALSE
    OBVIOUS
  <2>2. [r \in Refs[a] |-> Value(its1)[r]] = [r \in Refs[a] |-> Value(its2)[r]]
    BY <2>1
  <2>3. {it \in its1 : a \in Touches[it]} = {it \in its2 : a \in Touches[it]}
    OBVIOUS
  <2>4. Value(its1)[a] = Formula(a, {it \in its1 : a \in Touches[it]}, [r \in Refs[a] |-> Value(its1)[r]])
    BY ValueIs
  <2>5. Value(its2)[a] = Formula(a, {it \in its2 : a \in Touches[it]}, [r \in Refs[a] |-> Value(its2)[r]])
    BY ValueIs
  <2>. QED  BY <2>2, <2>3, <2>4, <2>5
<1>2. B = {}
  BY <1>1, RankInduction
<1>. QED  BY <1>2

\* A cached value that is not marked is what the mounted modifiers make it,
\* and depends on such values only.
Fresh(p) ==
  /\ \A a \in Attrs \ p.stale : cached[a] # None =>
       cached[a] = Value(MountedItems(p.mods))[a]
  /\ \A a \in Attrs \ p.stale : cached[a] # None =>
       \A r \in Refs[a] : r \notin p.stale /\ cached[r] # None

LEMMA MountedType ==
  ASSUME NEW m \in [Defs -> Items \cup {None}]
  PROVE  MountedItems(m) \in SUBSET Items
  BY DEF MountedItems

LEMMA SameButFresh ==
  ASSUME NEW p \in PlayerType, NEW q \in PlayerType, SameBut(p, q), Fresh(p)
  PROVE  Fresh(q)
<1>. DEFINE S == {a \in Attrs \ q.stale : cached[a] # None}
<1>1. \A a \in S : a \in Attrs \ p.stale
  BY DEF SameBut
<1>2. \A a \in S : \A r \in Refs[a] : r \in S
  <2>1. SUFFICES ASSUME NEW a \in S, NEW r \in Refs[a] PROVE r \in S
    OBVIOUS
  <2>2. r \in Attrs /\ r \notin p.stale /\ cached[r] # None
    BY <1>1, Constants DEF Fresh
  <2>3. r \notin q.stale
    BY <2>2 DEF SameBut
  <2>. QED  BY <2>2, <2>3
<1>3. \A a \in S : Value(MountedItems(q.mods))[a] = Value(MountedItems(p.mods))[a]
  <2>1. MountedItems(q.mods) \in SUBSET Items /\ MountedItems(p.mods) \in SUBSET Items
    BY MountedType, PlayerFields
  <2>2. \A a \in S : {it \in MountedItems(q.mods) : a \in Touches[it]}
                       = {it \in MountedItems(p.mods) : a \in Touches[it]}
    BY DEF SameBut
  <2>3. S \in SUBSET Attrs /\ \A a \in S : Refs[a] \subseteq S
    BY <1>2
  <2>. HIDE DEF S
  <2>. QED  BY <2>1, <2>2, <2>3, Untouched
<1>. QED  BY <1>1, <1>2, <1>3 DEF Fresh

-----------------------------------------------------------------------------
(* Slots and pieces                                                        *)

LEMMA SlotIs ==
  ASSUME NEW s
  PROVE  s \in Slots <=> \E b \in Bases : \E i \in 1..Count[b] : s = <<b, i>>
  BY DEF Slots

LEMMA SlotsOfBase ==
  ASSUME NEW b \in Bases
  PROVE  /\ {s \in Slots : s[1] = b} = {b} \X (1..Count[b])
         /\ IsFiniteSet({b} \X (1..Count[b])) /\ Cardinality({b} \X (1..Count[b])) = Count[b]
<1>1. Count[b] \in Nat \ {0}
  BY PlayerAssumption
<1>2. {s \in Slots : s[1] = b} = {b} \X (1..Count[b])
  BY SlotIs
<1>3. IsFiniteSet(1..Count[b]) /\ Cardinality(1..Count[b]) = Count[b]
  BY <1>1, FS_Interval
<1>4. IsFiniteSet({b}) /\ Cardinality({b}) = 1
  BY FS_Singleton
<1>5. /\ IsFiniteSet({b} \X (1..Count[b]))
      /\ Cardinality({b} \X (1..Count[b])) = Cardinality({b}) * Cardinality(1..Count[b])
  BY <1>3, <1>4, FS_Product
<1>. QED  BY <1>1, <1>2, <1>3, <1>4, <1>5

LEMMA SlotsFinite == IsFiniteSet(Slots)
<1>. DEFINE T == {{b} \X (1..Count[b]) : b \in Bases}
            f == [b \in Bases |-> {b} \X (1..Count[b])]
<1>1. f \in Surjection(Bases, T)
  BY DEF Surjection
<1>2. IsFiniteSet(Bases)
  BY PlayerAssumption
<1>3. IsFiniteSet(T)
  BY <1>1, <1>2, FS_Surjection
<1>4. \A t \in T : IsFiniteSet(t)
  BY SlotsOfBase
<1>5. Slots = UNION T
  BY DEF Slots
<1>. HIDE DEF T
<1>. QED  BY <1>3, <1>4, <1>5, FS_UNION

Filled(w, ss, x) == [s \in Slots |-> IF s \in ss THEN x ELSE w[s]]

LEMMA PieceType ==
  ASSUME NEW x \in Piece
  PROVE  x.item \in Items /\ x.anchor \in Slots /\ x # None /\ Def[x.item] \in Defs
  BY Constants DEF Piece

LEMMA WornAt ==
  ASSUME NEW w \in WornType, NEW s \in Slots, w[s] # None
  PROVE  w[s] \in Piece /\ w[s].item \in Items /\ w[s].anchor \in Slots /\ Def[w[s].item] \in Defs
<1>1. w[s] \in Piece
  BY DEF WornType
<1>. QED  BY <1>1, PieceType

\* Each piece that is worn has its anchor, and all its slots agree.
LEMMA WholePiece ==
  ASSUME NEW w \in WornType, Whole(w), NEW s \in Slots, w[s] # None
  PROVE  LET piece == PieceAt(w, w[s].anchor)
         IN /\ s \in piece /\ piece \subseteq Slots
            /\ w[w[s].anchor] = w[s]
            /\ \A t \in piece : w[t] = w[s]
            /\ w[s].anchor \in Anchors(w)
<1>. DEFINE piece == PieceAt(w, w[s].anchor)
<1>1. s \in piece /\ piece \subseteq Slots
  BY DEF PieceAt
<1>2. w[s].anchor \in piece /\ \A t \in piece : w[t] = w[s]
  BY DEF Whole
<1>3. w[w[s].anchor] = w[s]
  BY <1>2
<1>4. w[s].anchor \in Anchors(w)
  BY <1>3, WornAt DEF Anchors
<1>. QED  BY <1>1, <1>2, <1>3, <1>4

\* How many slots of a base a definition takes.
Takes(d, b) == IF b \in DOMAIN Needs[d] THEN Needs[d][b] ELSE 0

LEMMA WholeIs ==
  ASSUME NEW w
  PROVE  Whole(w) <=> \A s \in Slots : w[s] # None =>
           /\ w[s].anchor \in PieceAt(w, w[s].anchor)
           /\ \A t \in PieceAt(w, w[s].anchor) : w[t] = w[s]
           /\ \A b \in Bases : Cardinality({t \in PieceAt(w, w[s].anchor) : t[1] = b})
                                 = Takes(Def[w[s].item], b)
  BY DEF Whole, Takes

\* With slots for one, two pieces of a definition are the same piece.
LEMMA OnePiece ==
  ASSUME OneOfAKind, NEW w \in WornType, Whole(w),
         NEW s \in Slots, NEW t \in Slots, w[s] # None, w[t] # None,
         Def[w[s].item] = Def[w[t].item]
  PROVE  w[s] = w[t]
<1>. DEFINE P == PieceAt(w, w[s].anchor)
            Q == PieceAt(w, w[t].anchor)
            d == Def[w[s].item]
<1>1. CASE w[s].anchor = w[t].anchor
  BY <1>1, WholePiece
<1>2. CASE w[s].anchor # w[t].anchor
  <2>1. PICK b \in DOMAIN Needs[d] : Count[b] < 2 * Needs[d][b]
    BY WornAt DEF OneOfAKind
  <2>2. b \in Bases /\ Needs[d][b] \in Nat /\ Count[b] \in Nat
    BY <2>1, WornAt, PlayerAssumption
  <2>. DEFINE A == {u \in P : u[1] = b}
              B == {u \in Q : u[1] = b}
              S == {b} \X (1..Count[b])
  <2>3. Cardinality(A) = Needs[d][b] /\ Cardinality(B) = Needs[d][b]
    BY <2>1, <2>2, WholeIs DEF Takes
  <2>4. A \cap B = {}
    BY <1>2 DEF PieceAt
  <2>5. S = {u \in Slots : u[1] = b} /\ IsFiniteSet(S) /\ Cardinality(S) = Count[b]
    BY <2>2, SlotsOfBase
  <2>6. A \subseteq S /\ B \subseteq S /\ A \cup B \in SUBSET S
    BY <2>5, WholePiece
  <2>. HIDE DEF A, B, S
  <2>7. IsFiniteSet(A) /\ IsFiniteSet(B)
    BY <2>5, <2>6, FS_Subset
  <2>8. Cardinality(A \cup B) = Cardinality(A) + Cardinality(B) - Cardinality(A \cap B)
    BY <2>7, FS_Union
  <2>9. Cardinality(A \cup B) <= Cardinality(S)
    BY <2>5, <2>6, FS_Subset
  <2>10. Cardinality(A \cap B) = 0
    BY <2>4, FS_EmptySet
  <2>. HIDE DEF d, P, Q
  <2>11. Needs[d][b] + Needs[d][b] <= Count[b]
    BY <2>2, <2>3, <2>5, <2>8, <2>9, <2>10
  <2>. QED  BY <2>1, <2>2, <2>11
<1>. QED  BY <1>1, <1>2

\* Taking off what is in a slot frees all slots of the piece and no other.
LEMMA OffWorn ==
  ASSUME NEW w \in WornType, Whole(w), NEW s \in Slots, w[s] # None
  PROVE  LET v == Filled(w, PieceAt(w, w[s].anchor), None)
         IN /\ v \in WornType /\ Whole(v) /\ v[s] = None
            /\ w[s].anchor \in Anchors(w) /\ Anchors(v) = Anchors(w) \ {w[s].anchor}
            /\ \A t \in Slots : v[t] # None => v[t] = w[t] /\ w[t].anchor # w[s].anchor
            /\ \A t \in Slots : w[t] # None /\ w[t] # w[s] => v[t] = w[t]
<1>. DEFINE anchor == w[s].anchor
            v == Filled(w, PieceAt(w, anchor), None)
<1>1. v \in WornType
  BY DEF Filled, WornType
<1>2. \A t \in Slots : v[t] = IF w[t] # None /\ w[t].anchor = anchor THEN None ELSE w[t]
  BY DEF Filled, PieceAt
<1>3. v[s] = None
  BY <1>2
<1>. HIDE DEF v
<1>4. \A t \in Slots : v[t] # None => v[t] = w[t] /\ w[t].anchor # anchor
  BY <1>2
<1>5. \A t \in Slots : w[t] # None /\ w[t] # w[s] => v[t] = w[t]
  BY <1>2, WholePiece DEF PieceAt
<1>6. Anchors(v) = Anchors(w) \ {anchor}
  BY <1>2 DEF Anchors
<1>7. \A a \in Slots : a # anchor => PieceAt(v, a) = PieceAt(w, a)
  BY <1>2 DEF PieceAt
<1>8. Whole(v)
  <2>1. ASSUME NEW t \in Slots, v[t] # None
        PROVE  /\ v[t].anchor \in PieceAt(v, v[t].anchor)
               /\ \A u \in PieceAt(v, v[t].anchor) : v[u] = v[t]
               /\ \A b \in Bases : Cardinality({u \in PieceAt(v, v[t].anchor) : u[1] = b})
                                     = Takes(Def[v[t].item], b)
    <3>1. v[t] = w[t] /\ w[t] # None /\ w[t].anchor \in Slots
      BY <2>1, <1>4, WornAt
    <3>2. PieceAt(v, v[t].anchor) = PieceAt(w, w[t].anchor)
      BY <2>1, <3>1, <1>4, <1>7
    <3>3. \A u \in PieceAt(v, v[t].anchor) : v[u] = w[u]
      BY <1>4 DEF PieceAt
    <3>. QED  BY <3>1, <3>2, <3>3, WholeIs
  <2>. QED  BY <2>1, WholeIs
<1>. QED  BY <1>1, <1>3, <1>4, <1>5, <1>6, <1>8, WholePiece DEF v

\* One piece more than before.
IsPut(w, v, x) ==
  /\ v \in WornType /\ Whole(v) /\ v[x.anchor] = x
  /\ Anchors(v) = Anchors(w) \cup {x.anchor} /\ x.anchor \notin Anchors(w)
  /\ \A t \in Slots : v[t] # None => v[t] = x \/ v[t] = w[t]
  /\ \A t \in Slots : w[t] # None => v[t] = w[t]

\* A piece that is put into free slots, as many of each base as it takes.
LEMMA PutWorn ==
  ASSUME NEW w \in WornType, Whole(w), NEW x \in Piece,
         NEW ss \in SUBSET Slots, x.anchor \in ss, \A s \in ss : w[s] = None,
         \A b \in Bases : Cardinality({t \in ss : t[1] = b}) = Takes(Def[x.item], b)
  PROVE  IsPut(w, Filled(w, ss, x), x)
<1>. DEFINE v == Filled(w, ss, x)
            clicked == x.anchor
            it == x.item
<1>1. clicked \in Slots /\ x # None
  BY PieceType
<1>. HIDE DEF clicked
<1>2. v \in WornType /\ \A t \in Slots : v[t] = IF t \in ss THEN x ELSE w[t]
  BY <1>1 DEF Filled, WornType
<1>. HIDE DEF v
<1>3. \A t \in Slots : w[t] # None => v[t] = w[t] /\ w[t].anchor # clicked
  BY <1>2, WholePiece DEF clicked
<1>4. PieceAt(v, clicked) = ss
  BY <1>1, <1>2, <1>3 DEF PieceAt, clicked
<1>5. \A a \in Slots : a # clicked => PieceAt(v, a) = PieceAt(w, a)
  BY <1>1, <1>2, <1>3 DEF PieceAt, clicked
<1>6. Whole(v)
  <2>1. ASSUME NEW t \in Slots, v[t] # None
        PROVE  /\ v[t].anchor \in PieceAt(v, v[t].anchor)
               /\ \A u \in PieceAt(v, v[t].anchor) : v[u] = v[t]
               /\ \A b \in Bases : Cardinality({u \in PieceAt(v, v[t].anchor) : u[1] = b})
                                     = Takes(Def[v[t].item], b)
    <3>1. CASE t \in ss
      <4>1. v[t] = x
        BY <1>2, <3>1
      <4>. QED  BY <4>1, <1>1, <1>2, <1>4 DEF clicked
    <3>2. CASE t \notin ss
      <4>1. v[t] = w[t] /\ w[t] # None /\ w[t].anchor \in Slots /\ w[t].anchor # clicked
        BY <2>1, <3>2, <1>2, <1>3, WornAt
      <4>2. PieceAt(v, v[t].anchor) = PieceAt(w, w[t].anchor)
        BY <4>1, <1>5
      <4>3. \A u \in PieceAt(v, v[t].anchor) : v[u] = w[u]
        BY <4>2, <1>3 DEF PieceAt
      <4>. QED  BY <4>1, <4>2, <4>3, WholeIs
    <3>. QED  BY <3>1, <3>2
  <2>. QED  BY <2>1, WholeIs
<1>7. Anchors(v) = Anchors(w) \cup {clicked} /\ clicked \notin Anchors(w)
  BY <1>1, <1>2, <1>3 DEF Anchors, clicked
<1>8. v[clicked] = x
  BY <1>1, <1>2 DEF clicked
<1>. QED  BY <1>2, <1>3, <1>6, <1>7, <1>8 DEF v, clicked, IsPut

\* chooseTargetSlots: only free slots besides the clicked one, and as many of
\* each base as the piece takes, if it finds enough.
LEMMA Targets ==
  ASSUME NEW p \in PlayerType, NEW it \in Items, NEW clicked \in Slots,
         clicked[1] \in DOMAIN Needs[Def[it]], p.worn[clicked] = None,
         Enough(Def[it], TargetSlots(p, Def[it], clicked))
  PROVE  LET ss == UNION Range(TargetSlots(p, Def[it], clicked))
         IN /\ ss \in SUBSET Slots /\ clicked \in ss /\ \A s \in ss : p.worn[s] = None
            /\ \A b \in Bases : Cardinality({t \in ss : t[1] = b}) = Takes(Def[it], b)
<1>. DEFINE d == Def[it]
            targets == TargetSlots(p, d, clicked)
            ss == UNION Range(targets)
<1>1. \A b \in DOMAIN Needs[d] : targets[b] \subseteq {s \in Slots : s[1] = b /\ p.worn[s] = None}
  BY DEF TargetSlots, FirstFree
<1>2. clicked \in targets[clicked[1]] /\ DOMAIN targets = DOMAIN Needs[d]
  BY DEF TargetSlots
<1>3. \A b \in DOMAIN Needs[d] : Cardinality(targets[b]) = Needs[d][b]
  BY DEF Enough
<1>. HIDE DEF targets, d
<1>4. \A s : s \in ss <=> \E b \in DOMAIN Needs[d] : s \in targets[b]
  BY <1>2 DEF Range
<1>5. ss \in SUBSET Slots /\ clicked \in ss /\ \A s \in ss : p.worn[s] = None
  BY <1>1, <1>2, <1>4 DEF d
<1>6. ASSUME NEW b \in Bases PROVE Cardinality({t \in ss : t[1] = b}) = Takes(d, b)
  <2>1. CASE b \in DOMAIN Needs[d]
    <3>1. {t \in ss : t[1] = b} = targets[b]
      BY <1>1, <1>4, <2>1
    <3>. QED  BY <3>1, <1>3, <2>1 DEF Takes
  <2>2. CASE b \notin DOMAIN Needs[d]
    <3>1. {t \in ss : t[1] = b} = {}
      BY <1>1, <1>4, <2>2
    <3>. QED  BY <3>1, <2>2, FS_EmptySet DEF Takes
  <2>. QED  BY <2>1, <2>2
<1>. QED  BY <1>5, <1>6 DEF d, targets

-----------------------------------------------------------------------------
(* What holds of the record before and after each part of a command        *)

\* What is not marked is in the database as it is in memory.
Saved(p) ==
  /\ \A it \in Items \ p.dirty.inv : rows.inv[it] = p.inv[it]
  /\ \A s \in p.dirty.gone : p.worn[s] = None /\ s \notin p.dirty.worn
  /\ \A s \in Slots \ (p.dirty.worn \cup p.dirty.gone) : rows.worn[s] = p.worn[s]
  /\ \A it \in p.seen \ p.dirty.seen : Def[it] \in rows.seen
  /\ ~p.dirty.skill => rows.skill = p.skill
  /\ p.skill.level = LevelOf(p.skill.xp)

Look(entry) == IF entry = None THEN None ELSE Def[entry.item]

\* What the client shows of a slot and the recorded action make the entry.
Told(shown, action, entry) ==
  /\ action = "none" => shown = Look(entry)
  /\ action = "unequip" => entry = None
  /\ action \in Items => entry # None /\ entry.item = action

\* What the client shows, together with what is recorded, is what there is.
Synced(p) ==
  /\ client \in Shown
  /\ \A it \in Items : client.inv[it] + p.rec.inv[it] = p.inv[it]
  /\ \A s \in Slots : Told(client.worn[s], p.rec.worn[s], p.worn[s])
  /\ \A it \in p.seen : Def[it] \in client.seen \cup p.rec.seen
  /\ client.skill.xp + p.rec.xp = p.skill.xp
  /\ p.skill.level = IF p.rec.skill = None THEN client.skill.level ELSE p.rec.skill
  /\ p.rec.attr = p.stale

\* Experience is never recorded without the level.
LevelTold(p) == p.rec.skill = None => p.rec.xp = 0

Kept(p, q) ==
  /\ Saved(p) => Saved(q)
  /\ Synced(p) => Synced(q)
  /\ Fresh(p) => Fresh(q)
  /\ LevelTold(p) => LevelTold(q)
  /\ p.stale \subseteq q.stale

LEMMA KeptTransitive ==
  ASSUME NEW p, NEW q, NEW r, Kept(p, q), Kept(q, r)
  PROVE  Kept(p, r)
  BY DEF Kept

LEMMA AddedKept ==
  ASSUME NEW p \in PlayerType, NEW it \in Items, NEW n \in Int, p.inv[it] + n >= 0
  PROVE  Kept(p, Added(p, it, n))
<1>. DEFINE q == Added(p, it, n)
<1>. USE PlayerFields
<1>1. /\ q \in PlayerType
      /\ q.inv = Plus(p.inv, it, n)
      /\ q.worn = p.worn /\ q.mods = p.mods /\ q.stale = p.stale
      /\ q.seen = p.seen /\ q.skill = p.skill
      /\ q.dirty = [p.dirty EXCEPT !.inv = @ \cup {it}]
      /\ q.rec = [p.rec EXCEPT !.inv = Plus(p.rec.inv, it, n)]
  BY AddedFields DEF IsAdded
<1>. HIDE DEF q
<1>2. /\ q.dirty.inv = p.dirty.inv \cup {it} /\ q.dirty.worn = p.dirty.worn
      /\ q.dirty.gone = p.dirty.gone /\ q.dirty.seen = p.dirty.seen /\ q.dirty.skill = p.dirty.skill
  BY <1>1 DEF DirtyType
<1>3. /\ q.rec.inv = Plus(p.rec.inv, it, n) /\ q.rec.worn = p.rec.worn /\ q.rec.seen = p.rec.seen
      /\ q.rec.skill = p.rec.skill /\ q.rec.xp = p.rec.xp /\ q.rec.attr = p.rec.attr
  BY <1>1 DEF RecType
<1>4. \A i \in Items : Plus(p.inv, it, n)[i] = IF i = it THEN p.inv[i] + n ELSE p.inv[i]
  BY DEF Plus
<1>5. \A i \in Items : Plus(p.rec.inv, it, n)[i] = IF i = it THEN p.rec.inv[i] + n ELSE p.rec.inv[i]
  BY DEF Plus, RecType
<1>6. Saved(p) => Saved(q)
  BY <1>1, <1>2, <1>4 DEF Saved
<1>7. ASSUME Synced(p) PROVE Synced(q)
  <2>1. ASSUME NEW i \in Items PROVE client.inv[i] + q.rec.inv[i] = q.inv[i]
    <3>1. client.inv[i] \in Int /\ p.rec.inv[i] \in Int /\ p.inv[i] \in Int
      BY <1>7 DEF Synced, Shown, RecType
    <3>2. client.inv[i] + p.rec.inv[i] = p.inv[i]
      BY <1>7 DEF Synced
    <3>. QED  BY <3>1, <3>2, <1>1, <1>3, <1>4, <1>5
  <2>. QED  BY <2>1, <1>7, <1>1, <1>3 DEF Synced
<1>8. Fresh(p) => Fresh(q)
  BY <1>1 DEF Fresh
<1>9. LevelTold(p) => LevelTold(q)
  BY <1>3 DEF LevelTold
<1>. QED  BY <1>1, <1>6, <1>7, <1>8, <1>9 DEF Kept, q

LEMMA UnlockedKept ==
  ASSUME NEW p \in PlayerType, NEW it \in Items
  PROVE  Kept(p, Unlocked(p, it))
<1>. DEFINE q == Unlocked(p, it)
<1>. USE PlayerFields
<1>1. /\ q \in PlayerType
      /\ q.inv = p.inv /\ q.worn = p.worn /\ q.mods = p.mods /\ q.stale = p.stale
      /\ q.seen = p.seen \cup {it} /\ q.skill = p.skill
      /\ it \in p.seen => q = p
      /\ it \notin p.seen => /\ q.dirty = [p.dirty EXCEPT !.seen = @ \cup {it}]
                             /\ q.rec = [p.rec EXCEPT !.seen = @ \cup {Def[it]}]
  BY UnlockedFields DEF IsUnlocked
<1>. HIDE DEF q
<1>2. CASE it \in p.seen
  BY <1>1, <1>2 DEF Kept, q
<1>3. CASE it \notin p.seen
  <2>1. /\ q.dirty.seen = p.dirty.seen \cup {it} /\ q.dirty.worn = p.dirty.worn
        /\ q.dirty.gone = p.dirty.gone /\ q.dirty.inv = p.dirty.inv /\ q.dirty.skill = p.dirty.skill
    BY <1>1, <1>3 DEF DirtyType
  <2>2. /\ q.rec.seen = p.rec.seen \cup {Def[it]} /\ q.rec.worn = p.rec.worn /\ q.rec.inv = p.rec.inv
        /\ q.rec.skill = p.rec.skill /\ q.rec.xp = p.rec.xp /\ q.rec.attr = p.rec.attr
    BY <1>1, <1>3 DEF RecType
  <2>3. Saved(p) => Saved(q)
    BY <1>1, <2>1 DEF Saved
  <2>4. Synced(p) => Synced(q)
    BY <1>1, <2>2 DEF Synced
  <2>5. Fresh(p) => Fresh(q)
    BY <1>1 DEF Fresh
  <2>6. LevelTold(p) => LevelTold(q)
    BY <2>2 DEF LevelTold
  <2>. QED  BY <1>1, <2>3, <2>4, <2>5, <2>6 DEF Kept, q
<1>. QED  BY <1>2, <1>3

LEMMA SameButKept ==
  ASSUME NEW p \in PlayerType, NEW q \in PlayerType, SameBut(p, q)
  PROVE  Kept(p, q)
<1>1. /\ q.rec.seen = p.rec.seen /\ q.rec.worn = p.rec.worn /\ q.rec.inv = p.rec.inv
      /\ q.rec.skill = p.rec.skill /\ q.rec.xp = p.rec.xp
      /\ q.rec.attr = p.rec.attr \cup (q.stale \ p.stale)
  BY PlayerFields DEF SameBut, RecType
<1>2. Saved(p) => Saved(q)
  BY DEF Saved, SameBut
<1>3. Synced(p) => Synced(q)
  BY <1>1 DEF Synced, SameBut
<1>4. Fresh(p) => Fresh(q)
  BY SameButFresh
<1>5. LevelTold(p) => LevelTold(q)
  BY <1>1 DEF LevelTold
<1>. QED  BY <1>2, <1>3, <1>4, <1>5 DEF Kept, SameBut

LEMMA FilledType ==
  ASSUME NEW w, NEW ss \in SUBSET Slots, NEW x, NEW S, x \in S, w \in [Slots -> S]
  PROVE  Filled(w, ss, x) \in [Slots -> S]
  BY DEF Filled

\* The record after the entries of some slots have changed.
Switched(p, ss, entry, action, set, gone) ==
  [p EXCEPT !.worn = Filled(p.worn, ss, entry),
            !.dirty = [p.dirty EXCEPT !.worn = set, !.gone = gone],
            !.rec = [p.rec EXCEPT !.worn = Filled(p.rec.worn, ss, action)]]

IsSwitch(p, q, ss, entry, action, set, gone) ==
  /\ q \in PlayerType
  /\ q.inv = p.inv /\ q.worn = Filled(p.worn, ss, entry)
  /\ q.mods = p.mods /\ q.stale = p.stale /\ q.seen = p.seen /\ q.skill = p.skill
  /\ q.dirty = [p.dirty EXCEPT !.worn = set, !.gone = gone]
  /\ q.rec = [p.rec EXCEPT !.worn = Filled(p.rec.worn, ss, action)]

LEMMA SwitchedFields ==
  ASSUME NEW p \in PlayerType, NEW ss \in SUBSET Slots, NEW entry \in Piece \cup {None},
         NEW action \in Items \cup {"none", "unequip"}, NEW set \in SUBSET Slots,
         NEW gone \in SUBSET Slots
  PROVE  IsSwitch(p, Switched(p, ss, entry, action, set, gone), ss, entry, action, set, gone)
<1>. DEFINE w == Filled(p.worn, ss, entry)
            r == Filled(p.rec.worn, ss, action)
            d == [p.dirty EXCEPT !.worn = set, !.gone = gone]
            c == [p.rec EXCEPT !.worn = r]
<1>. USE PlayerFields
<1>1. w \in WornType /\ r \in [Slots -> Items \cup {"none", "unequip"}]
  BY FilledType DEF WornType, RecType
<1>. HIDE DEF w, r
<1>2. d \in DirtyType /\ c \in RecType
  <2>1. p.dirty \in DirtyType /\ p.rec \in RecType
    OBVIOUS
  <2>2. d \in DirtyType
    BY <2>1 DEF DirtyType
  <2>3. c \in RecType
    BY <2>1, <1>1 DEF RecType
  <2>. QED  BY <2>2, <2>3
<1>. HIDE DEF d, c
<1>3. Switched(p, ss, entry, action, set, gone) = [p EXCEPT !.worn = w, !.dirty = d, !.rec = c]
  BY DEF Switched, w, r, d, c
<1>4. LET q == [p EXCEPT !.worn = w, !.dirty = d, !.rec = c]
      IN /\ q \in PlayerType
         /\ q.inv = p.inv /\ q.worn = w
         /\ q.mods = p.mods /\ q.stale = p.stale /\ q.seen = p.seen /\ q.skill = p.skill
         /\ q.dirty = d /\ q.rec = c
  BY <1>1, <1>2 DEF PlayerType
<1>. QED  BY <1>3, <1>4 DEF IsSwitch, d, c, w, r

\* The marks and the action have to fit the entry.
Fitting(p, ss, entry, action, set, gone) ==
  \/ /\ entry = None /\ action = "unequip"
     /\ set = p.dirty.worn \ ss /\ gone = p.dirty.gone \cup ss
  \/ /\ entry \in Piece /\ action = entry.item
     /\ set = p.dirty.worn \cup ss /\ gone = p.dirty.gone \ ss

LEMMA SwitchedKept ==
  ASSUME NEW p \in PlayerType, NEW ss \in SUBSET Slots, NEW entry \in Piece \cup {None},
         NEW action \in Items \cup {"none", "unequip"}, NEW set \in SUBSET Slots,
         NEW gone \in SUBSET Slots,
         Fitting(p, ss, entry, action, set, gone)
  PROVE  Kept(p, Switched(p, ss, entry, action, set, gone))
<1>. DEFINE q == Switched(p, ss, entry, action, set, gone)
<1>0. IsSwitch(p, q, ss, entry, action, set, gone)
  BY SwitchedFields
<1>. HIDE DEF q
<1>1. /\ q \in PlayerType
      /\ q.inv = p.inv /\ q.worn = Filled(p.worn, ss, entry)
      /\ q.mods = p.mods /\ q.stale = p.stale /\ q.seen = p.seen /\ q.skill = p.skill
      /\ q.dirty = [p.dirty EXCEPT !.worn = set, !.gone = gone]
      /\ q.rec = [p.rec EXCEPT !.worn = Filled(p.rec.worn, ss, action)]
  BY <1>0 DEF IsSwitch
<1>2. /\ q.dirty.seen = p.dirty.seen /\ q.dirty.worn = set
      /\ q.dirty.gone = gone /\ q.dirty.inv = p.dirty.inv /\ q.dirty.skill = p.dirty.skill
  BY <1>1, PlayerFields DEF DirtyType
<1>3. /\ q.rec.seen = p.rec.seen /\ q.rec.worn = Filled(p.rec.worn, ss, action)
      /\ q.rec.inv = p.rec.inv
      /\ q.rec.skill = p.rec.skill /\ q.rec.xp = p.rec.xp /\ q.rec.attr = p.rec.attr
  BY <1>1, PlayerFields DEF RecType
<1>4. \A s \in Slots : /\ q.worn[s] = IF s \in ss THEN entry ELSE p.worn[s]
                       /\ q.rec.worn[s] = IF s \in ss THEN action ELSE p.rec.worn[s]
  BY <1>1, <1>3 DEF Filled
<1>5. ASSUME Saved(p) PROVE Saved(q)
  <2>1. \A s \in gone : q.worn[s] = None /\ s \notin set
    BY <1>4, <1>5, Constants DEF Saved, Fitting
  <2>2. \A s \in Slots \ (set \cup gone) : rows.worn[s] = q.worn[s]
    BY <1>4, <1>5 DEF Saved, Fitting
  <2>. QED  BY <1>1, <1>2, <2>1, <2>2, <1>5 DEF Saved
<1>6. ASSUME Synced(p) PROVE Synced(q)
  <2>1. ASSUME NEW s \in Slots PROVE Told(client.worn[s], q.rec.worn[s], q.worn[s])
    <3>1. CASE s \in ss
      BY <3>1, <1>4, Constants DEF Told, Piece, Fitting
    <3>2. CASE s \notin ss
      BY <3>2, <1>4, <1>6 DEF Synced
    <3>. QED  BY <3>1, <3>2
  <2>. QED  BY <2>1, <1>1, <1>3, <1>6 DEF Synced
<1>7. Fresh(p) => Fresh(q)
  BY <1>1 DEF Fresh
<1>8. LevelTold(p) => LevelTold(q)
  BY <1>3 DEF LevelTold
<1>. QED  BY <1>1, <1>5, <1>6, <1>7, <1>8 DEF Kept, q

LEMMA PutIsSwitch ==
  ASSUME NEW p \in PlayerType, NEW ss, NEW it, NEW anchor
  PROVE  Put(p, ss, it, anchor)
           = Switched(p, ss, [item |-> it, anchor |-> anchor], it,
                      p.dirty.worn \cup ss, p.dirty.gone \ ss)
  BY DEF Put, Switched, Filled, RecordedSlots, PlayerType, DirtyType, RecType

\* A piece whose slots are emptied before the rest of TakenOff.
Emptied(p, anchor) ==
  LET ss == PieceAt(p.worn, anchor)
  IN  [p EXCEPT !.worn = [s \in Slots |-> IF s \in ss THEN None ELSE @[s]],
                !.dirty.worn = @ \ ss, !.dirty.gone = @ \cup ss,
                !.rec = RecordedSlots(@, ss, "unequip")]

LEMMA EmptiedIsSwitch ==
  ASSUME NEW p \in PlayerType, NEW anchor
  PROVE  LET ss == PieceAt(p.worn, anchor)
         IN  Emptied(p, anchor) = Switched(p, ss, None, "unequip",
                                           p.dirty.worn \ ss, p.dirty.gone \cup ss)
  BY DEF Emptied, Switched, Filled, RecordedSlots, PlayerType, DirtyType, RecType

-----------------------------------------------------------------------------
(* Putting on and taking off                                               *)

LEMMA HoldingsType ==
  ASSUME NEW i \in [Items -> Nat], NEW w \in WornType
  PROVE  /\ SumFunction(i) \in Int /\ IsFiniteSet(Anchors(w)) /\ Cardinality(Anchors(w)) \in Nat
         /\ Holdings(i, w) = SumFunction(i) + Cardinality(Anchors(w))
<1>1. IsFiniteSet(Items)
  BY PlayerAssumption
<1>2. Summable(i, Items) /\ DOMAIN i = Items
  BY <1>1 DEF Summable
<1>3. SumFunction(i) \in Int
  BY <1>2, SumType DEF SumFunction
<1>4. IsFiniteSet(Anchors(w)) /\ Cardinality(Anchors(w)) \in Nat
  BY SlotsFinite, FS_Subset, FS_CardinalityType DEF Anchors
<1>. QED  BY <1>3, <1>4 DEF Holdings

LEMMA SumPlus ==
  ASSUME NEW i \in [Items -> Nat], NEW it \in Items, NEW n \in Int
  PROVE  SumFunction(Plus(i, it, n)) = SumFunction(i) + n
<1>1. IsFiniteSet(Items) /\ i \in [Items -> Int]
  BY PlayerAssumption
<1>. QED  BY <1>1, SumChanged

\* The mounted modifiers are those of the worn pieces.
Matched(p) ==
  /\ \A s \in Slots : p.worn[s] # None => p.mods[Def[p.worn[s].item]] = p.worn[s].item
  /\ \A d \in Defs : p.mods[d] # None =>
       \E s \in Slots : p.worn[s] # None /\ p.worn[s].item = p.mods[d] /\ Def[p.mods[d]] = d

LEMMA MatchedItems ==
  ASSUME NEW p \in PlayerType, Matched(p)
  PROVE  MountedItems(p.mods) = WornItems(p.worn)
<1>1. ASSUME NEW s \in Slots, p.worn[s] # None PROVE p.worn[s].item \in MountedItems(p.mods)
  <2>1. Def[p.worn[s].item] \in Defs /\ p.worn[s].item # None
    BY <1>1, WornAt, PlayerFields, Constants
  <2>2. p.mods[Def[p.worn[s].item]] = p.worn[s].item
    BY <1>1 DEF Matched
  <2>. QED  BY <2>1, <2>2 DEF MountedItems
<1>2. MountedItems(p.mods) \subseteq WornItems(p.worn)
  BY DEF MountedItems, WornItems, Matched
<1>. QED  BY <1>1, <1>2 DEF WornItems

LEMMA TakenOffIs ==
  ASSUME NEW p \in PlayerType, Whole(p.worn), NEW s \in Slots, p.worn[s] # None
  PROVE  LET it == p.worn[s].item
             ss == PieceAt(p.worn, p.worn[s].anchor)
             q  == TakenOff(p, p.worn[s].anchor)
         IN /\ q \in PlayerType /\ Kept(p, q)
            /\ q.worn = Filled(p.worn, ss, None) /\ q.inv = Plus(p.inv, it, 1)
            /\ q.mods = [p.mods EXCEPT ![Def[it]] = None]
<1>. DEFINE anchor == p.worn[s].anchor
            it == p.worn[s].item
            ss == PieceAt(p.worn, anchor)
            e == Emptied(p, anchor)
            r == Removed(e, Def[it])
            a == Added(r, it, 1)
            q == TakenOff(p, anchor)
<1>. USE PlayerFields
<1>1. /\ it \in Items /\ anchor \in Slots /\ Def[it] \in Defs /\ ss \in SUBSET Slots
      /\ p.worn[anchor].item = it
  BY WornAt, WholePiece
<1>. HIDE DEF it
<1>2. q = Unlocked(a, it)
  BY <1>1 DEF TakenOff, Emptied
<1>3. e = Switched(p, ss, None, "unequip", p.dirty.worn \ ss, p.dirty.gone \cup ss)
  BY EmptiedIsSwitch
<1>4. p.dirty.worn \ ss \in SUBSET Slots /\ p.dirty.gone \cup ss \in SUBSET Slots
  BY <1>1 DEF DirtyType
<1>5. Fitting(p, ss, None, "unequip", p.dirty.worn \ ss, p.dirty.gone \cup ss)
  BY DEF Fitting
<1>. HIDE DEF ss, e, anchor
<1>6. Kept(p, e) /\ IsSwitch(p, e, ss, None, "unequip", p.dirty.worn \ ss, p.dirty.gone \cup ss)
  BY <1>1, <1>3, <1>4, <1>5, SwitchedFields, SwitchedKept
<1>7. e \in PlayerType /\ e.worn = Filled(p.worn, ss, None) /\ e.inv = p.inv /\ e.mods = p.mods
  BY <1>6 DEF IsSwitch
<1>8. r \in PlayerType /\ r.mods = [e.mods EXCEPT ![Def[it]] = None] /\ SameBut(e, r)
  BY <1>1, <1>7, RemovedFields
<1>. HIDE DEF r
<1>9. Kept(e, r) /\ r.worn = e.worn /\ r.inv = e.inv
  BY <1>7, <1>8, SameButKept DEF SameBut
<1>10. r.inv[it] + 1 >= 0
  BY <1>1, <1>8
<1>14. IsAdded(r, a, it, 1) /\ Kept(r, a)
  BY <1>1, <1>8, <1>10, AddedFields, AddedKept
<1>. HIDE DEF a
<1>11. a \in PlayerType /\ a.inv = Plus(r.inv, it, 1) /\ a.worn = r.worn /\ a.mods = r.mods
  BY <1>14 DEF IsAdded
<1>15. IsUnlocked(a, q, it) /\ Kept(a, q)
  BY <1>1, <1>2, <1>11, UnlockedFields, UnlockedKept
<1>. HIDE DEF q
<1>12. q \in PlayerType /\ q.inv = a.inv /\ q.worn = a.worn /\ q.mods = a.mods
  BY <1>15 DEF IsUnlocked
<1>13. Kept(p, q)
  BY <1>6, <1>9, <1>14, <1>15, KeptTransitive
<1>. QED  BY <1>7, <1>8, <1>9, <1>11, <1>12, <1>13 DEF q, it, ss, anchor

\* Taking off makes of a worn piece one in the inventory.
LEMMA TakenOffRight ==
  ASSUME NEW p \in PlayerType, Whole(p.worn), NEW s \in Slots, p.worn[s] # None
  PROVE  LET q == TakenOff(p, p.worn[s].anchor)
         IN /\ q \in PlayerType /\ Whole(q.worn) /\ Kept(p, q)
            /\ Holdings(q.inv, q.worn) = Holdings(p.inv, p.worn)
            /\ OneOfAKind /\ Matched(p) => Matched(q)
            /\ q.worn[s] = None
            /\ \A it \in Items : q.inv[it] >= p.inv[it]
<1>. DEFINE it == p.worn[s].item
            ss == PieceAt(p.worn, p.worn[s].anchor)
            q  == TakenOff(p, p.worn[s].anchor)
<1>. USE PlayerFields
<1>1. it \in Items /\ p.worn[s].anchor \in Slots /\ Def[it] \in Defs
  BY WornAt
<1>2. /\ q \in PlayerType /\ Kept(p, q)
      /\ q.worn = Filled(p.worn, ss, None) /\ q.inv = Plus(p.inv, it, 1)
      /\ q.mods = [p.mods EXCEPT ![Def[it]] = None]
  BY TakenOffIs
<1>. HIDE DEF q
<1>3. /\ Whole(q.worn) /\ q.worn[s] = None
      /\ p.worn[s].anchor \in Anchors(p.worn)
      /\ Anchors(q.worn) = Anchors(p.worn) \ {p.worn[s].anchor}
      /\ \A t \in Slots : q.worn[t] # None => q.worn[t] = p.worn[t] /\ p.worn[t].anchor # p.worn[s].anchor
      /\ \A t \in Slots : p.worn[t] # None /\ p.worn[t] # p.worn[s] => q.worn[t] = p.worn[t]
  BY <1>2, OffWorn
<1>. HIDE DEF it, ss
<1>4. Holdings(q.inv, q.worn) = Holdings(p.inv, p.worn)
  <2>1. SumFunction(q.inv) = SumFunction(p.inv) + 1
    BY <1>1, <1>2, SumPlus
  <2>2. IsFiniteSet(Anchors(p.worn)) /\ Cardinality(Anchors(p.worn)) \in Nat /\ SumFunction(p.inv) \in Int
    BY HoldingsType
  <2>. DEFINE A == Anchors(p.worn)
              c == p.worn[s].anchor
  <2>4. IsFiniteSet(A) /\ c \in A /\ Anchors(q.worn) = A \ {c}
    BY <1>3, <2>2
  <2>. HIDE DEF A, c
  <2>5. Cardinality(A \ {c}) = Cardinality(A) - 1
    BY <2>4, FS_RemoveElement
  <2>3. Cardinality(Anchors(q.worn)) = Cardinality(Anchors(p.worn)) - 1
    BY <2>4, <2>5 DEF A
  <2>. QED  BY <2>1, <2>2, <2>3 DEF Holdings
<1>5. ASSUME OneOfAKind, Matched(p) PROVE Matched(q)
  <2>1. ASSUME NEW t \in Slots, q.worn[t] # None
        PROVE  q.mods[Def[q.worn[t].item]] = q.worn[t].item
    <3>1. q.worn[t] = p.worn[t] /\ p.worn[t] # None /\ p.worn[t] # p.worn[s]
      BY <1>3, <2>1
    <3>2. Def[p.worn[t].item] # Def[it]
      BY <3>1, <1>5, OnePiece DEF it
    <3>3. p.mods[Def[p.worn[t].item]] = p.worn[t].item
      BY <3>1, <1>5 DEF Matched
    <3>4. Def[p.worn[t].item] \in Defs
      BY <3>1, WornAt
    <3>. QED  BY <3>1, <3>2, <3>3, <3>4, <1>1, <1>2
  <2>2. ASSUME NEW d \in Defs, q.mods[d] # None
        PROVE  \E t \in Slots : q.worn[t] # None /\ q.worn[t].item = q.mods[d] /\ Def[q.mods[d]] = d
    <3>1. d # Def[it] /\ q.mods[d] = p.mods[d] /\ p.mods[d] # None
      BY <2>2, <1>1, <1>2
    <3>2. PICK t \in Slots : p.worn[t] # None /\ p.worn[t].item = p.mods[d] /\ Def[p.mods[d]] = d
      BY <3>1, <1>5 DEF Matched
    <3>3. p.worn[t] # p.worn[s]
      BY <3>1, <3>2 DEF it
    <3>4. q.worn[t] = p.worn[t]
      BY <3>2, <3>3, <1>3
    <3>. QED  BY <3>1, <3>2, <3>4
  <2>. QED  BY <2>1, <2>2 DEF Matched
<1>6. \A i \in Items : q.inv[i] >= p.inv[i]
  BY <1>1, <1>2 DEF Plus
<1>. QED  BY <1>2, <1>3, <1>4, <1>5, <1>6 DEF q

\* Putting on makes of one in the inventory a worn piece, or nothing.
LEMMA EquippedRight ==
  ASSUME NEW p \in PlayerType, Whole(p.worn), NEW it \in Items, NEW clicked \in Slots,
         p.inv[it] >= 1, Fits(it, clicked)
  PROVE  LET q == Equipped(p, it, clicked)
         IN /\ q \in PlayerType /\ Whole(q.worn) /\ Kept(p, q)
            /\ Holdings(q.inv, q.worn) = Holdings(p.inv, p.worn)
            /\ OneOfAKind /\ Matched(p) => Matched(q)
<1>. DEFINE d == Def[it]
            f == IF p.worn[clicked] = None THEN p ELSE TakenOff(p, p.worn[clicked].anchor)
            targets == TargetSlots(f, d, clicked)
            ss == UNION Range(targets)
            a == Added(f, it, -1)
            m == Mounted(a, it)
            q == Equipped(p, it, clicked)
<1>. USE PlayerFields
<1>1. q = IF ~Enough(d, targets) THEN f ELSE Put(m, ss, it, clicked)
  BY DEF Equipped
<1>2. /\ f \in PlayerType /\ Whole(f.worn) /\ Kept(p, f)
      /\ Holdings(f.inv, f.worn) = Holdings(p.inv, p.worn)
      /\ OneOfAKind /\ Matched(p) => Matched(f)
      /\ f.worn[clicked] = None
      /\ f.inv[it] >= 1
  <2>1. CASE p.worn[clicked] = None
    BY <2>1 DEF Kept
  <2>2. CASE p.worn[clicked] # None
    <3>1. f = TakenOff(p, p.worn[clicked].anchor)
      BY <2>2
    <3>. HIDE DEF f
    <3>2. /\ f \in PlayerType /\ Whole(f.worn) /\ Kept(p, f)
          /\ Holdings(f.inv, f.worn) = Holdings(p.inv, p.worn)
          /\ OneOfAKind /\ Matched(p) => Matched(f)
          /\ f.worn[clicked] = None
          /\ \A i \in Items : f.inv[i] >= p.inv[i]
      BY <2>2, <3>1, TakenOffRight
    <3>3. f.inv[it] >= p.inv[it] /\ f.inv[it] \in Nat /\ p.inv[it] \in Nat
      BY <3>2
    <3>4. f.inv[it] >= 1
      BY <3>3
    <3>. QED  BY <3>2, <3>4
  <2>. QED  BY <2>1, <2>2
<1>. HIDE DEF f
<1>3. CASE ~Enough(d, targets)
  BY <1>1, <1>2, <1>3
<1>4. CASE Enough(d, targets)
  <2>. DEFINE x == [item |-> it, anchor |-> clicked]
  <2>1. q = Put(m, ss, it, clicked)
    BY <1>1, <1>4
  <2>2. /\ ss \in SUBSET Slots /\ clicked \in ss /\ \A s \in ss : f.worn[s] = None
        /\ \A b \in Bases : Cardinality({t \in ss : t[1] = b}) = Takes(Def[it], b)
    BY <1>2, <1>4, Targets DEF Fits
  <2>. HIDE DEF ss, q
  <2>3. f.inv[it] + (-1) >= 0
    BY <1>2
  <2>17. IsAdded(f, a, it, -1) /\ Kept(f, a)
    BY <1>2, <2>3, AddedFields, AddedKept
  <2>. HIDE DEF a
  <2>4. a \in PlayerType /\ a.inv = Plus(f.inv, it, -1) /\ a.worn = f.worn /\ a.mods = f.mods
    BY <2>17 DEF IsAdded
  <2>5. m \in PlayerType /\ m.mods = [a.mods EXCEPT ![d] = it] /\ SameBut(a, m)
    BY <2>4, MountedFields
  <2>. HIDE DEF m
  <2>6. Kept(a, m) /\ m.worn = a.worn /\ m.inv = a.inv
    BY <2>4, <2>5, SameButKept DEF SameBut
  <2>7. x \in Piece /\ x # None /\ x.item = it /\ x.anchor = clicked /\ d \in Defs
    BY Constants DEF Piece
  <2>8. q = Switched(m, ss, x, it, m.dirty.worn \cup ss, m.dirty.gone \ ss)
    BY <2>1, <2>5, PutIsSwitch
  <2>9. m.dirty.worn \cup ss \in SUBSET Slots /\ m.dirty.gone \ ss \in SUBSET Slots
    BY <2>2, <2>5 DEF DirtyType
  <2>10. Fitting(m, ss, x, it, m.dirty.worn \cup ss, m.dirty.gone \ ss)
    BY <2>7 DEF Fitting
  <2>. HIDE DEF x
  <2>11. Kept(m, q) /\ IsSwitch(m, q, ss, x, it, m.dirty.worn \cup ss, m.dirty.gone \ ss)
    BY <2>2, <2>5, <2>7, <2>8, <2>9, <2>10, SwitchedFields, SwitchedKept
  <2>12. q \in PlayerType /\ q.inv = m.inv /\ q.mods = m.mods /\ q.worn = Filled(m.worn, ss, x)
    BY <2>11 DEF IsSwitch
  <2>13. Kept(p, q)
    BY <1>2, <2>17, <2>6, <2>11, KeptTransitive
  <2>18. f.worn \in WornType /\ q.worn = Filled(f.worn, ss, x)
    BY <1>2, <2>4, <2>6, <2>12
  <2>19. IsPut(f.worn, q.worn, x)
    BY <1>2, <2>2, <2>7, <2>18, PutWorn
  <2>14. /\ Whole(q.worn) /\ q.worn[clicked] = x
         /\ Anchors(q.worn) = Anchors(f.worn) \cup {clicked} /\ clicked \notin Anchors(f.worn)
         /\ \A t \in Slots : q.worn[t] # None => q.worn[t] = x \/ q.worn[t] = f.worn[t]
         /\ \A t \in Slots : f.worn[t] # None => q.worn[t] = f.worn[t]
    BY <2>19, <2>7 DEF IsPut
  <2>15. Holdings(q.inv, q.worn) = Holdings(p.inv, p.worn)
    <3>1. SumFunction(q.inv) = SumFunction(f.inv) + (-1)
      BY <1>2, <2>4, <2>6, <2>12, SumPlus
    <3>2. IsFiniteSet(Anchors(f.worn)) /\ Cardinality(Anchors(f.worn)) \in Nat /\ SumFunction(f.inv) \in Int
      BY <1>2, HoldingsType
    <3>3. Cardinality(Anchors(q.worn)) = Cardinality(Anchors(f.worn)) + 1
      BY <2>14, <3>2, FS_AddElement
    <3>. QED  BY <3>1, <3>2, <3>3, <1>2 DEF Holdings
  <2>16. ASSUME OneOfAKind, Matched(p) PROVE Matched(q)
    <3>1. Matched(f) /\ q.mods = [f.mods EXCEPT ![d] = it]
      BY <1>2, <2>4, <2>5, <2>12, <2>16
    <3>2. ASSUME NEW t \in Slots, q.worn[t] # None
          PROVE  q.mods[Def[q.worn[t].item]] = q.worn[t].item
      <4>1. CASE Def[q.worn[t].item] = d
        <5>1. q.worn[t] = q.worn[clicked]
          BY <2>16, <2>12, <2>14, <3>2, <4>1, <2>7, OnePiece
        <5>. QED  BY <5>1, <2>7, <2>14, <3>1, <4>1, <1>2
      <4>2. CASE Def[q.worn[t].item] # d
        <5>1. q.worn[t] = f.worn[t]
          BY <2>7, <2>14, <3>2, <4>2
        <5>2. f.mods[Def[f.worn[t].item]] = f.worn[t].item
          BY <5>1, <3>1, <3>2 DEF Matched
        <5>. QED  BY <5>1, <5>2, <3>1, <4>2, <1>2
      <4>. QED  BY <4>1, <4>2
    <3>3. ASSUME NEW e \in Defs, q.mods[e] # None
          PROVE  \E t \in Slots : q.worn[t] # None /\ q.worn[t].item = q.mods[e] /\ Def[q.mods[e]] = e
      <4>1. CASE e = d
        BY <4>1, <2>7, <2>14, <3>1, <1>2
      <4>2. CASE e # d
        <5>1. q.mods[e] = f.mods[e] /\ f.mods[e] # None
          BY <3>1, <3>3, <4>2
        <5>2. PICK t \in Slots : f.worn[t] # None /\ f.worn[t].item = f.mods[e] /\ Def[f.mods[e]] = e
          BY <5>1, <3>1 DEF Matched
        <5>. QED  BY <5>1, <5>2, <2>14
      <4>. QED  BY <4>1, <4>2
    <3>. QED  BY <3>2, <3>3 DEF Matched
  <2>. QED  BY <2>12, <2>13, <2>14, <2>15, <2>16 DEF q
<1>. QED  BY <1>3, <1>4

-----------------------------------------------------------------------------
(* Levels                                                                  *)

LEMMA CurveIs ==
  /\ Len(Curve) \in Nat /\ Len(Curve) > 0 /\ DOMAIN Curve = 1..Len(Curve)
  /\ \A i \in 1..Len(Curve) : Curve[i] \in Nat
  /\ Curve[1] = 0
  /\ \A i \in 1..(Len(Curve) - 1) : Curve[i] < Curve[i + 1]
  BY PlayerAssumption DEF IsCurve

LEMMA CurveGrows ==
  ASSUME NEW i \in 1..Len(Curve), NEW j \in 1..Len(Curve), i <= j
  PROVE  Curve[i] <= Curve[j]
<1>. DEFINE Bad == {k \in Nat : k \in i..Len(Curve) /\ ~(Curve[i] <= Curve[k])}
<1>1. SUFFICES ASSUME Bad # {} PROVE FALSE
  BY CurveIs
<1>2. PICK k \in Bad : \A l \in Bad : k <= l
  BY <1>1, LeastElement
<1>3. k # i
  BY <1>2, CurveIs
<1>4. k - 1 \in Nat /\ k - 1 \in i..Len(Curve) /\ k - 1 \notin Bad /\ k - 1 \in 1..(Len(Curve) - 1)
  BY <1>2, <1>3, CurveIs
<1>5. Curve[i] <= Curve[k - 1] /\ Curve[k - 1] < Curve[(k - 1) + 1]
  BY <1>4, CurveIs
<1>6. k \in 1..Len(Curve) /\ (k - 1) + 1 = k /\ ~(Curve[i] <= Curve[k])
  BY <1>2, CurveIs
<1>. QED  BY <1>4, <1>5, <1>6, CurveIs

AtLevel(k, xp) ==
  k \in 1..Len(Curve) /\ Curve[k] <= xp /\ (k = Len(Curve) \/ xp < Curve[k + 1])

LEMMA LevelUnique ==
  ASSUME NEW xp \in Nat, NEW k, AtLevel(k, xp)
  PROVE  LevelOf(xp) = k
<1>1. k \in 1..Len(Curve) /\ Curve[k] <= xp
  BY DEF AtLevel
<1>2. ASSUME NEW i \in 1..Len(Curve) PROVE Curve[i] <= xp <=> i <= k
  <2>1. Curve[i] \in Nat /\ Curve[k] \in Nat /\ Len(Curve) \in Nat
    BY <1>1, CurveIs
  <2>2. CASE i <= k
    <3>1. Curve[i] <= Curve[k]
      BY <1>1, <2>2, CurveGrows
    <3>. QED  BY <3>1, <2>1, <2>2, <1>1
  <2>3. CASE ~(i <= k)
    <3>1. k + 1 \in 1..Len(Curve) /\ k + 1 <= i /\ k # Len(Curve)
      BY <1>1, <2>1, <2>3
    <3>2. Curve[k + 1] <= Curve[i] /\ Curve[k + 1] \in Nat
      BY <3>1, CurveGrows, CurveIs
    <3>3. xp < Curve[k + 1]
      BY <3>1 DEF AtLevel
    <3>. QED  BY <3>2, <3>3, <2>1, <2>3
  <2>. QED  BY <2>2, <2>3
<1>3. {i \in DOMAIN Curve : Curve[i] <= xp} = 1..k
  BY <1>1, <1>2, CurveIs
<1>4. Cardinality(1..k) = k
  BY <1>1, FS_Interval
<1>. QED  BY <1>3, <1>4 DEF LevelOf

LEMMA NextLevelAt ==
  ASSUME NEW old \in 1..Len(Curve), NEW xp \in Nat, Curve[old] <= xp
  PROVE  AtLevel(NextLevel(old, xp), xp)
<1>. DEFINE L == {l \in old..Len(Curve) : l = Len(Curve) \/ xp < Curve[l + 1]}
            m == Min(L)
<1>1. Len(Curve) \in L /\ L \subseteq Nat
  BY CurveIs
<1>2. m \in L /\ \A l \in L : m <= l
  BY <1>1, MinIsLeast
<1>. HIDE DEF m
<1>6. m \in old..Len(Curve)
  BY <1>2
<1>3. m \in 1..Len(Curve) /\ m \in old..Len(Curve)
  BY <1>6, CurveIs
<1>4. Curve[m] <= xp
  <2>1. CASE m = old
    BY <2>1
  <2>2. CASE m # old
    <3>1. m - 1 \in old..Len(Curve) /\ m - 1 # Len(Curve) /\ (m - 1) + 1 = m
      BY <1>3, <2>2, CurveIs
    <3>2. ~(m <= m - 1)
      BY <1>3
    <3>3. m - 1 \notin L
      BY <1>2, <3>2
    <3>4. ~(xp < Curve[m])
      BY <3>1, <3>3
    <3>. QED  BY <3>4, <1>3, CurveIs
  <2>. QED  BY <2>1, <2>2
<1>5. AtLevel(m, xp)
  BY <1>2, <1>3, <1>4 DEF AtLevel
<1>. QED  BY <1>5 DEF NextLevel, m

LEMMA LevelAt ==
  ASSUME NEW xp \in Nat
  PROVE  AtLevel(LevelOf(xp), xp)
<1>1. AtLevel(NextLevel(1, xp), xp)
  BY NextLevelAt, CurveIs
<1>. QED  BY <1>1, LevelUnique

\* nextLevel, starting from the level so far, comes to that of the experience.
LEMMA NextLevelRight ==
  ASSUME NEW xp \in Nat, NEW n \in Nat
  PROVE  NextLevel(LevelOf(xp), xp + n) = LevelOf(xp + n) /\ LevelOf(xp) \in Nat
<1>. DEFINE old == LevelOf(xp)
<1>4. AtLevel(old, xp)
  BY LevelAt
<1>. HIDE DEF old
<1>5. old \in 1..Len(Curve) /\ Curve[old] <= xp
  BY <1>4 DEF AtLevel
<1>1. old \in 1..Len(Curve) /\ Curve[old] <= xp /\ Curve[old] \in Nat /\ old \in Nat
  BY <1>5, CurveIs
<1>2. xp + n \in Nat /\ Curve[old] <= xp + n
  BY <1>1
<1>3. AtLevel(NextLevel(old, xp + n), xp + n)
  BY <1>1, <1>2, NextLevelAt
<1>6. LevelOf(xp + n) = NextLevel(old, xp + n)
  BY <1>2, <1>3, LevelUnique
<1>. QED  BY <1>1, <1>6 DEF old

\* The record after AddXP.
Gained(p, n) ==
  LET level == NextLevel(p.skill.level, p.skill.xp + n)
  IN  [p EXCEPT !.skill = [level |-> level, xp |-> @.xp + n],
                !.dirty.skill = TRUE,
                !.rec = RecordedXP(@, n, level)]

LEMMA GainKept ==
  ASSUME NEW p \in PlayerType, NEW n \in Nat \ {0}, Saved(p)
  PROVE  LET q == Gained(p, n)
         IN /\ q \in PlayerType /\ Kept(p, q)
            /\ q.inv = p.inv /\ q.worn = p.worn /\ q.mods = p.mods /\ q.stale = p.stale
<1>. DEFINE q == Gained(p, n)
            xp == p.skill.xp + n
            level == NextLevel(p.skill.level, xp)
<1>. USE PlayerFields
<1>1. p.skill.xp \in Nat /\ xp \in Nat
  BY DEF SkillType
<1>2. level = LevelOf(xp)
  BY <1>1, NextLevelRight DEF Saved
<1>3. level \in Nat
  BY <1>1, <1>2, NextLevelRight
<1>. HIDE DEF level
<1>4. /\ q.inv = p.inv /\ q.worn = p.worn /\ q.mods = p.mods /\ q.stale = p.stale /\ q.seen = p.seen
      /\ q.skill = [level |-> level, xp |-> xp]
      /\ q.dirty = [p.dirty EXCEPT !.skill = TRUE]
      /\ q.rec = [p.rec EXCEPT !.skill = level, !.xp = p.rec.xp + n]
  BY DEF level, Gained, RecordedXP, PlayerType
<1>6. q = [p EXCEPT !.skill = q.skill, !.dirty = q.dirty, !.rec = q.rec]
  BY DEF Gained, PlayerType
<1>. HIDE DEF q, xp
<1>5. q.dirty \in DirtyType /\ q.rec \in RecType /\ q.skill \in SkillType
  <2>1. q.dirty \in DirtyType
    BY <1>4 DEF DirtyType
  <2>3. p.rec \in RecType /\ p.rec.xp + n \in Nat
    BY DEF RecType
  <2>. DEFINE k == p.rec.xp + n
  <2>4. q.rec = [p.rec EXCEPT !.skill = level, !.xp = k]
    BY <1>4
  <2>. HIDE DEF k
  <2>2. q.rec \in RecType
    BY <1>3, <2>3, <2>4 DEF RecType, k
  <2>. QED  BY <2>1, <2>2, <1>1, <1>3, <1>4 DEF SkillType
<1>7. q \in PlayerType
  BY <1>5, <1>6 DEF PlayerType
<1>8. /\ q.dirty.seen = p.dirty.seen /\ q.dirty.worn = p.dirty.worn
      /\ q.dirty.gone = p.dirty.gone /\ q.dirty.inv = p.dirty.inv /\ q.dirty.skill
  BY <1>4 DEF DirtyType
<1>9. /\ q.rec.seen = p.rec.seen /\ q.rec.worn = p.rec.worn /\ q.rec.inv = p.rec.inv
      /\ q.rec.skill = level /\ q.rec.xp = p.rec.xp + n /\ q.rec.attr = p.rec.attr
  BY <1>4 DEF RecType
<1>10. level # None
  BY <1>3, Constants
<1>11. Saved(p) => Saved(q)
  BY <1>2, <1>4, <1>8 DEF Saved
<1>12. ASSUME Synced(p) PROVE Synced(q)
  <2>1. client.skill.xp \in Nat /\ p.rec.xp \in Nat /\ client.skill.xp + p.rec.xp = p.skill.xp
    BY <1>12 DEF Synced, Shown, SkillType, RecType
  <2>2. client.skill.xp + q.rec.xp = q.skill.xp
    BY <1>1, <1>4, <1>9, <2>1 DEF xp
  <2>. QED  BY <1>4, <1>9, <1>10, <1>12, <2>2 DEF Synced
<1>13. Fresh(p) => Fresh(q)
  BY <1>4 DEF Fresh
<1>14. LevelTold(p) => LevelTold(q)
  BY <1>9, <1>10 DEF LevelTold
<1>. QED  BY <1>4, <1>7, <1>11, <1>12, <1>13, <1>14 DEF Kept, q

-----------------------------------------------------------------------------
(* The inductive invariant                                                 *)

Total == Holdings(Owned, [s \in Slots |-> None])

\* Pieces and items, in memory and in the database.
Conserved ==
  /\ Whole(worn) /\ Whole(rows.worn)
  /\ Holdings(inv, worn) = Total /\ Holdings(rows.inv, rows.worn) = Total

\* With a client that is told of changes, all values have been computed once,
\* and what is not marked is what the client shows.
Following ==
  client # None /\ full = None /\ ~torn =>
    /\ Synced(Now)
    /\ \A a \in Attrs \ stale : client.attr[a] = cached[a]

\* What has been read for a snapshot is up to date, unless it is torn, and is
\* not being computed again.
SnapshotCurrent ==
  full # None /\ ~torn =>
    /\ full.inv = inv /\ full.skill = skill /\ full.worn = ShownWorn
    /\ ShownSeen \subseteq full.seen /\ ~Recorded
    /\ \A a \in Attrs : full.attr[a] # None => a \notin stale /\ full.attr[a] = cached[a]
    /\ \A i \in 1..Len(frames) : full.attr[frames[i].attr] = None

Connected ==
  /\ phase = "down" => client = None /\ full = None
  /\ full = None => frames = <<>>
  /\ phase \in {"idle", "flush"} => rec = NoRecord
  /\ client # None /\ full = None => \A a \in Attrs : cached[a] # None
  /\ full # None => \A a \in Attrs : full.attr[a] # None => cached[a] # None

\* The cache is right, and so are the modifiers and values with which
\* SendFullState is computing.
Computing ==
  /\ Fresh(Now)
  /\ \A i \in 1..Len(frames) :
       /\ frames[i].its = {it \in MountedItems(mods) : frames[i].attr \in Touches[it]}
       /\ \A r \in Attrs : frames[i].refs[r] # None =>
            /\ frames[i].refs[r] = Value(MountedItems(mods))[r]
            /\ r \notin stale /\ cached[r] # None

IInv ==
  /\ TypeInv
  /\ Conserved
  /\ Saved(Now) /\ rows.skill.level = LevelOf(rows.skill.xp)
  /\ OneOfAKind => Matched(Now)
  /\ LevelTold(Now)
  /\ ~raced => Computing
  /\ Connected /\ Following /\ SnapshotCurrent

-----------------------------------------------------------------------------
(* The initial state                                                       *)

LEMMA NowType ==
  ASSUME inv \in [Items -> Nat], worn \in WornType, mods \in [Defs -> Items \cup {None}],
         stale \subseteq Attrs, seen \subseteq Items, skill \in SkillType,
         dirty \in DirtyType, rec \in RecType
  PROVE  Now \in PlayerType
  BY DEF Now, PlayerType

LEMMA NothingDone ==
  /\ NoRecord \in RecType /\ Clean \in DirtyType
  /\ NoRecord.attr = {} /\ NoRecord.seen = {} /\ NoRecord.skill = None /\ NoRecord.xp = 0
  /\ \A it \in Items : NoRecord.inv[it] = 0
  /\ \A s \in Slots : NoRecord.worn[s] = "none"
  /\ Clean.inv = {} /\ Clean.worn = {} /\ Clean.gone = {} /\ Clean.seen = {} /\ ~Clean.skill
  BY DEF NoRecord, RecType, Clean, DirtyType

LEMMA FirstLevel == LevelOf(Curve[1]) = 1 /\ Curve[1] \in Nat
<1>1. Curve[1] = 0
  BY CurveIs
<1>2. AtLevel(1, 0)
  BY CurveIs DEF AtLevel
<1>. QED  BY <1>1, <1>2, LevelUnique

LEMMA InitInvariant == Init => IInv
<1>. SUFFICES ASSUME Init PROVE IInv
  OBVIOUS
<1>. DEFINE bare == [s \in Slots |-> None]
            start == [level |-> 1, xp |-> Curve[1]]
<1>1. /\ rows = [inv |-> Owned, worn |-> bare, seen |-> {}, skill |-> start]
      /\ inv = Owned /\ worn = bare /\ seen = {} /\ skill = start
      /\ mods = [d \in Defs |-> None] /\ stale = {} /\ cached = [a \in Attrs |-> None]
      /\ dirty = Clean /\ rec = NoRecord
      /\ phase = "idle" /\ due = FALSE /\ client = None /\ full = None /\ torn = FALSE
      /\ frames = <<>> /\ raced = FALSE
      /\ commands = 0 /\ crashes = 0
  BY DEF Init, Unread
<1>2. Owned \in [Items -> Nat] /\ bare \in WornType /\ start \in SkillType
  BY PlayerAssumption, FirstLevel DEF WornType, SkillType
<1>3. \A s \in Slots : bare[s] = None
  OBVIOUS
<1>4. start.level = LevelOf(start.xp)
  BY FirstLevel
<1>. HIDE DEF bare, start
<1>5. rows.inv = Owned /\ rows.worn = bare /\ rows.seen = {} /\ rows.skill = start
  BY <1>1
<1>6. TypeInv
  <2>1. Now \in PlayerType
    BY <1>1, <1>2, NothingDone, NowType
  <2>2. rows \in RowsType
    BY <1>1, <1>2 DEF RowsType
  <2>3. <<>> \in Seq(Frame)
    OBVIOUS
  <2>. QED  BY <1>1, <2>1, <2>2, <2>3 DEF TypeInv
<1>7. Conserved
  <2>1. Whole(bare)
    BY <1>3 DEF Whole
  <2>2. Total = Holdings(Owned, bare)
    BY DEF Total, bare
  <2>. QED  BY <1>1, <1>5, <2>1, <2>2 DEF Conserved
<1>8. Saved(Now)
  BY <1>1, <1>4, <1>5, NowFields, NothingDone DEF Saved
<1>9. Matched(Now)
  BY <1>1, <1>3, NowFields DEF Matched
<1>10. Computing /\ LevelTold(Now)
  BY <1>1, NowFields, NothingDone DEF Fresh, LevelTold, Computing
<1>11. Connected /\ Following /\ SnapshotCurrent
  BY <1>1 DEF Connected, Following, SnapshotCurrent
<1>. QED  BY <1>4, <1>5, <1>6, <1>7, <1>8, <1>9, <1>10, <1>11 DEF IInv

-----------------------------------------------------------------------------
(* Commands                                                                *)

LEMMA BecomesKeeps ==
  ASSUME IInv, NEW p \in PlayerType, phase \in {"commands", "settle"},
         Whole(p.worn), Holdings(p.inv, p.worn) = Holdings(inv, worn),
         Kept(Now, p), OneOfAKind /\ Matched(Now) => Matched(p), Becomes(p),
         Remounts \/ (p.mods = mods /\ p.stale = stale /\ raced' = raced)
  PROVE  IInv'
<1>1. /\ inv' = p.inv /\ worn' = p.worn /\ mods' = p.mods /\ stale' = p.stale
      /\ seen' = p.seen /\ skill' = p.skill /\ dirty' = p.dirty /\ rec' = p.rec
      /\ commands' = commands + 1 /\ torn' = (torn \/ full # None)
      /\ cached' = cached /\ rows' = rows /\ phase' = phase /\ client' = client
      /\ full' = full /\ frames' = frames /\ crashes' = crashes /\ due' = due
      /\ raced' \in BOOLEAN
  BY DEF Becomes, reader, Remounts, IInv, TypeInv
<1>2. Now' = p
  BY <1>1 DEF Now, PlayerType
<1>3. TypeInv'
  BY <1>1, <1>2 DEF IInv, TypeInv
<1>4. Conserved'
  BY <1>1 DEF IInv, Conserved, Total
<1>5. Saved(Now)' /\ LevelTold(Now)'
  <2>1. Saved(p) /\ LevelTold(p)
    BY DEF IInv, Kept
  <2>. QED  BY <1>1, <1>2, <2>1 DEF Saved, LevelTold
<1>10. (~raced => Computing)'
  <2>1. SUFFICES ASSUME ~raced' PROVE Computing'
    OBVIOUS
  <2>2. ~raced /\ Computing
    <3>1. ~raced
      BY <2>1 DEF Remounts
    <3>. QED  BY <3>1 DEF IInv
  <2>3. Fresh(Now)'
    <3>1. Fresh(p)
      BY <2>2 DEF Computing, Kept
    <3>. QED  BY <3>1, <1>1, <1>2 DEF Fresh
  <2>4. CASE Remounts
    <3>1. frames = <<>>
      BY <2>1, <2>4 DEF Remounts
    <3>2. Len(frames') = 0
      BY <1>1, <3>1
    <3>. QED  BY <2>3, <3>2 DEF Computing
  <2>5. CASE p.mods = mods /\ p.stale = stale
    BY <1>1, <2>2, <2>3, <2>5 DEF Computing
  <2>. QED  BY <2>4, <2>5
<1>6. (OneOfAKind => Matched(Now))'
  BY <1>2 DEF IInv, Matched
<1>7. Connected'
  BY <1>1 DEF IInv, Connected
<1>8. Following'
  <2>1. SUFFICES ASSUME client # None, full = None, ~torn
                 PROVE  Synced(Now)' /\ \A a \in Attrs \ p.stale : client.attr[a] = cached[a]
    BY <1>1 DEF Following
  <2>2. Synced(p) /\ stale \subseteq p.stale
    BY <2>1, NowFields DEF IInv, Following, Kept
  <2>3. Synced(Now)'
    BY <1>1, <1>2, <2>2 DEF Synced
  <2>. QED  BY <2>1, <2>2, <2>3 DEF IInv, Following
<1>9. SnapshotCurrent'
  BY <1>1 DEF SnapshotCurrent
<1>. QED  BY <1>1, <1>3, <1>4, <1>5, <1>6, <1>7, <1>8, <1>9, <1>10 DEF IInv

LEMMA EquipKeeps ==
  ASSUME IInv, NEW it \in Items, NEW s \in Slots, Equip(it, s)
  PROVE  IInv'
<1>1. Now \in PlayerType /\ Whole(Now.worn) /\ Now.inv[it] >= 1 /\ Fits(it, s)
  BY NowFields DEF IInv, TypeInv, Conserved, Equip
<1>2. LET q == Equipped(Now, it, s)
      IN /\ q \in PlayerType /\ Whole(q.worn) /\ Kept(Now, q)
         /\ Holdings(q.inv, q.worn) = Holdings(Now.inv, Now.worn)
         /\ OneOfAKind /\ Matched(Now) => Matched(q)
  BY <1>1, EquippedRight
<1>. QED  BY <1>2, NowFields, BecomesKeeps DEF Equip

LEMMA UnequipKeeps ==
  ASSUME IInv, NEW s \in Slots, Unequip(s)
  PROVE  IInv'
<1>1. Now \in PlayerType /\ Whole(Now.worn) /\ Now.worn[s] # None
  BY NowFields DEF IInv, TypeInv, Conserved, Unequip
<1>2. LET q == TakenOff(Now, Now.worn[s].anchor)
      IN /\ q \in PlayerType /\ Whole(q.worn) /\ Kept(Now, q)
         /\ Holdings(q.inv, q.worn) = Holdings(Now.inv, Now.worn)
         /\ OneOfAKind /\ Matched(Now) => Matched(q)
  BY <1>1, TakenOffRight
<1>. QED  BY <1>2, NowFields, BecomesKeeps DEF Unequip

LEMMA ExchangeKeeps ==
  ASSUME IInv, NEW from \in Items, NEW to \in Items, Exchange(from, to)
  PROVE  IInv'
<1>. DEFINE a == Added(Now, from, -1)
            b == Added(a, to, 1)
            q == Unlocked(b, to)
<1>. USE PlayerFields
<1>1. Now \in PlayerType /\ Whole(Now.worn) /\ Now.inv[from] + (-1) >= 0
  BY NowFields DEF IInv, TypeInv, Conserved, Exchange
<1>2. IsAdded(Now, a, from, -1) /\ Kept(Now, a)
  BY <1>1, AddedFields, AddedKept
<1>. HIDE DEF a
<1>3. /\ a \in PlayerType /\ a.inv = Plus(Now.inv, from, -1)
      /\ a.worn = Now.worn /\ a.mods = Now.mods
  BY <1>2 DEF IsAdded
<1>4. a.inv[to] \in Nat
  BY <1>3
<1>5. IsAdded(a, b, to, 1) /\ Kept(a, b)
  BY <1>3, <1>4, AddedFields, AddedKept
<1>. HIDE DEF b
<1>6. b \in PlayerType /\ b.inv = Plus(a.inv, to, 1) /\ b.worn = a.worn /\ b.mods = a.mods
  BY <1>5 DEF IsAdded
<1>7. IsUnlocked(b, q, to) /\ Kept(b, q)
  BY <1>6, UnlockedFields, UnlockedKept
<1>. HIDE DEF q
<1>8. q \in PlayerType /\ q.inv = b.inv /\ q.worn = b.worn /\ q.mods = b.mods
  BY <1>7 DEF IsUnlocked
<1>9. Kept(Now, q)
  BY <1>2, <1>5, <1>7, KeptTransitive
<1>10. SumFunction(q.inv) = SumFunction(Now.inv)
  <2>1. SumFunction(a.inv) = SumFunction(Now.inv) + (-1)
    BY <1>1, <1>3, SumPlus
  <2>2. SumFunction(b.inv) = SumFunction(a.inv) + 1
    BY <1>3, <1>6, SumPlus
  <2>3. SumFunction(Now.inv) \in Int
    BY <1>1, HoldingsType
  <2>. QED  BY <2>1, <2>2, <2>3, <1>8
<1>11. q.worn = Now.worn /\ q.mods = Now.mods
  BY <1>3, <1>6, <1>8
<1>12. Holdings(q.inv, q.worn) = Holdings(inv, worn)
  BY <1>10, <1>11, NowFields DEF Holdings
<1>13. Matched(Now) => Matched(q)
  BY <1>11 DEF Matched
<1>14. Becomes(q) /\ phase = "settle" /\ raced' = raced
  BY DEF Exchange, q, b, a
<1>15. q.mods = mods /\ q.stale = stale
  BY <1>2, <1>5, <1>7, NowFields DEF IsAdded, IsUnlocked
<1>. QED  BY <1>1, <1>8, <1>9, <1>11, <1>12, <1>13, <1>14, <1>15, BecomesKeeps

LEMMA GainXPKeeps ==
  ASSUME IInv, NEW n \in 1..MaxXP, GainXP(n)
  PROVE  IInv'
<1>. DEFINE q == Gained(Now, n)
<1>1. Now \in PlayerType /\ Whole(Now.worn) /\ Saved(Now) /\ n \in Nat \ {0}
  BY NowFields, PlayerAssumption DEF IInv, TypeInv, Conserved
<1>2. /\ q \in PlayerType /\ Kept(Now, q)
      /\ q.inv = Now.inv /\ q.worn = Now.worn /\ q.mods = Now.mods /\ q.stale = Now.stale
  BY <1>1, GainKept
<1>3. Becomes(q) /\ phase = "settle" /\ raced' = raced
  BY NowFields DEF GainXP, Gained
<1>. HIDE DEF q
<1>4. Matched(Now) => Matched(q)
  BY <1>2 DEF Matched
<1>. QED  BY <1>1, <1>2, <1>3, <1>4, NowFields, BecomesKeeps

-----------------------------------------------------------------------------
(* Reading attributes                                                      *)

\* What getFinal has not to compute stays, and what it computes is clean.
IsRead(as) ==
  /\ Final \in [Attrs -> Values] /\ cached' \in [Attrs -> Values \cup {None}]
  /\ stale' \subseteq stale
  /\ \A a \in as : a \notin stale' /\ cached'[a] = Final[a]
  /\ \A a \in Attrs \ stale : cached[a] # None => cached'[a] = cached[a]
  /\ \A a \in Attrs : cached[a] # None => cached'[a] # None

LEMMA ReadingRight ==
  ASSUME IInv, NEW as \in SUBSET Attrs, Reading(as), mods' = mods, frames' = frames
  PROVE  IsRead(as) /\ (~raced => Computing')
<1>. DEFINE its == MountedItems(mods)
            C == Computed(as)
            D == [a \in Attrs |-> {r \in Refs[a] : Known[r] = None}]
<1>1. /\ Now \in PlayerType /\ mods \in [Defs -> Items \cup {None}] /\ stale \subseteq Attrs
      /\ cached \in [Attrs -> Values \cup {None}]
  BY NowFields, PlayerFields DEF IInv, TypeInv
<1>2. /\ Known \in [Attrs -> Values \cup {None}]
      /\ \A a \in Attrs : Known[a] = IF a \in stale THEN None ELSE cached[a]
  BY <1>1 DEF Known
<1>3. its \in SUBSET Items
  BY <1>1, MountedType
<1>. HIDE DEF its
<1>5. /\ Final \in [Attrs -> Values]
      /\ \A a \in Attrs : Known[a] # None => Final[a] = Known[a]
  BY <1>2, <1>3, EvaluatedIs DEF Final, its, Valued
<1>6. D \in [Attrs -> SUBSET Attrs]
  BY Constants
<1>7. {a \in as : Known[a] = None} \in SUBSET Attrs
  OBVIOUS
<1>8. C = Reach({a \in as : Known[a] = None}, D)
  BY DEF Computed
<1>. HIDE DEF C, D
<1>9. C \subseteq Attrs /\ {a \in as : Known[a] = None} \subseteq C
  BY <1>7, <1>8, ReachHas
<1>10. \A a \in C : \A r \in Refs[a] : Known[r] = None => r \in C
  <2>1. \A a \in C : D[a] \subseteq C
    BY <1>6, <1>7, <1>8, ReachNext
  <2>. QED  BY <2>1, <1>9, Constants DEF D
<1>11. \A a \in C : Known[a] = None
  <2>. DEFINE M == {a \in Attrs : Known[a] = None}
  <2>1. {a \in as : Known[a] = None} \subseteq M /\ \A c \in M : D[c] \subseteq M
    BY Constants DEF D
  <2>2. Reach({a \in as : Known[a] = None}, D) \subseteq M
    BY <2>1, ReachWithin
  <2>. QED  BY <2>2, <1>8
<1>12. stale' = stale \ C /\ cached' = [a \in Attrs |-> IF a \in C THEN Final[a] ELSE cached[a]]
  BY DEF Reading, C
<1>13. \A a \in Attrs : cached'[a] = IF a \in C THEN Final[a] ELSE cached[a]
  BY <1>12
<1>14. IsRead(as)
  <2>1. cached' \in [Attrs -> Values \cup {None}]
    BY <1>1, <1>5, <1>12
  <2>2. ASSUME NEW a \in as PROVE a \notin stale' /\ cached'[a] = Final[a]
    <3>1. CASE Known[a] = None
      BY <3>1, <1>9, <1>12, <1>13
    <3>2. CASE Known[a] # None
      BY <3>2, <1>2, <1>5, <1>11, <1>12, <1>13
    <3>. QED  BY <3>1, <3>2
  <2>3. \A a \in Attrs \ stale : cached[a] # None => cached'[a] = cached[a]
    BY <1>2, <1>11, <1>13
  <2>4. \A a \in Attrs : cached[a] # None => cached'[a] # None
    BY <1>5, <1>13, Constants
  <2>. QED  BY <1>5, <1>12, <2>1, <2>2, <2>3, <2>4 DEF IsRead
<1>15. ASSUME ~raced PROVE Computing'
  <2>3. Computing
    BY <1>15 DEF IInv
  <2>4. /\ \A a \in Attrs \ stale : cached[a] # None => cached[a] = Value(its)[a]
        /\ \A a \in Attrs \ stale : cached[a] # None =>
             \A r \in Refs[a] : r \notin stale /\ cached[r] # None
    BY <2>3, NowFields DEF Computing, Fresh, its
  <2>5. Final = Value(its)
    <3>1. Evaluated(Known, its) = Value(its)
      BY <1>2, <1>3, <2>4, KnownRight
    <3>. QED  BY <3>1 DEF Final, its
  <2>1. ASSUME NEW a \in Attrs \ stale', cached'[a] # None
        PROVE  /\ cached'[a] = Value(its)[a]
               /\ \A r \in Refs[a] : r \notin stale' /\ cached'[r] # None
    <3>1. CASE a \in C
      <4>1. ASSUME NEW r \in Refs[a] PROVE r \notin stale' /\ cached'[r] # None
        <5>1. r \in Attrs
          BY Constants
        <5>2. CASE Known[r] = None
          BY <5>1, <5>2, <3>1, <1>10, <1>12, <1>13, <1>5, Constants
        <5>3. CASE Known[r] # None
          BY <5>1, <5>3, <1>2, <1>11, <1>12, <1>13
        <5>. QED  BY <5>2, <5>3
      <4>. QED  BY <4>1, <3>1, <2>5, <1>9, <1>13
    <3>2. CASE a \notin C
      <4>1. a \notin stale /\ cached[a] # None /\ cached'[a] = cached[a]
        BY <2>1, <3>2, <1>12, <1>13
      <4>2. \A r \in Refs[a] : r \in Attrs /\ r \notin stale /\ cached[r] # None
        BY <4>1, <2>4, Constants
      <4>3. \A r \in Refs[a] : r \notin stale' /\ cached'[r] # None
        BY <4>2, <1>12, <1>14 DEF IsRead
      <4>. QED  BY <4>1, <4>3, <2>4
    <3>. QED  BY <3>1, <3>2
  <2>2. Now.mods' = mods /\ Now.stale' = stale' /\ its' = its
    BY DEF Now, its, MountedItems
  <2>6. Fresh(Now)'
    BY <2>1, <2>2 DEF Fresh, its
  <2>7. \A a \in Attrs : cached[a] # None => cached'[a] # None
    BY <1>14 DEF IsRead
  <2>. QED  BY <2>3, <2>6, <2>7, <1>12 DEF Computing
<1>. QED  BY <1>14, <1>15

-----------------------------------------------------------------------------
(* Diffs                                                                   *)

LEMMA MaxZero ==
  ASSUME NEW n \in Nat
  PROVE  Max({0, n}) = n
<1>1. \E x \in {0, n} : \A y \in {0, n} : x >= y
  OBVIOUS
<1>2. Max({0, n}) \in {0, n} /\ \A y \in {0, n} : Max({0, n}) >= y
  BY <1>1 DEF Max
<1>. QED  BY <1>2

LEMMA MaxNat ==
  ASSUME NEW n \in Int
  PROVE  Max({0, n}) \in Nat
<1>1. \E x \in {0, n} : \A y \in {0, n} : x >= y
  OBVIOUS
<1>2. Max({0, n}) \in {0, n} /\ \A y \in {0, n} : Max({0, n}) >= y
  BY <1>1 DEF Max
<1>. QED  BY <1>2

\* A record in which nothing is set is the empty one.
LEMMA NotRecorded ==
  ASSUME rec \in RecType, LevelTold(Now)
  PROVE  ~Recorded => rec = NoRecord
<1>. SUFFICES ASSUME ~Recorded PROVE rec = NoRecord
  OBVIOUS
<1>1. /\ rec.attr = {} /\ rec.seen = {} /\ rec.skill = None /\ rec.xp = 0
      /\ \A it \in Items : rec.inv[it] = 0
      /\ \A s \in Slots : rec.worn[s] = "none"
  BY NowFields DEF Recorded, LevelTold
<1>2. rec.inv = [it \in Items |-> 0] /\ rec.worn = [s \in Slots |-> "none"]
  BY <1>1 DEF RecType
<1>. QED  BY <1>1, <1>2 DEF RecType, NoRecord

LEMMA NothingRecorded ==
  rec = NoRecord => ~Recorded
  BY NothingDone DEF Recorded

\* What a client that is in step makes of a diff.
IsApplied(c, values) ==
  LET d == Applied(c, values)
  IN /\ d \in Shown /\ d # None
     /\ d.inv = inv /\ d.skill = skill
     /\ \A s \in Slots : d.worn[s] = Look(worn[s])
     /\ \A it \in seen : Def[it] \in d.seen
     /\ \A a \in Attrs : d.attr[a] = IF a \in stale THEN values[a] ELSE c.attr[a]

LEMMA AppliedRight ==
  ASSUME Now \in PlayerType, Synced(Now), NEW values \in [Attrs -> Values]
  PROVE  IsApplied(client, values)
<1>. DEFINE d == Applied(client, values)
<1>. USE NowFields
<1>1. /\ inv \in [Items -> Nat] /\ worn \in WornType /\ seen \subseteq Items
      /\ skill \in SkillType /\ rec \in RecType /\ stale \subseteq Attrs
  BY PlayerFields
<1>2. /\ client \in Shown
      /\ \A it \in Items : client.inv[it] + rec.inv[it] = inv[it]
      /\ \A s \in Slots : Told(client.worn[s], rec.worn[s], worn[s])
      /\ \A it \in seen : Def[it] \in client.seen \cup rec.seen
      /\ client.skill.xp + rec.xp = skill.xp
      /\ skill.level = IF rec.skill = None THEN client.skill.level ELSE rec.skill
      /\ rec.attr = stale
  BY DEF Synced
<1>3. /\ d.inv = [it \in Items |-> Max({0, client.inv[it] + rec.inv[it]})]
      /\ d.worn = [s \in Slots |-> CASE rec.worn[s] = "none" -> client.worn[s]
                                     [] rec.worn[s] = "unequip" -> None
                                     [] OTHER -> Def[rec.worn[s]]]
      /\ d.attr = [a \in Attrs |-> IF a \in rec.attr THEN values[a] ELSE client.attr[a]]
      /\ d.seen = client.seen \cup rec.seen \cup {Def[it] : it \in {i \in Items : rec.inv[i] > 0}}
      /\ d.skill = [level |-> IF rec.skill = None THEN client.skill.level ELSE rec.skill,
                    xp |-> client.skill.xp + rec.xp]
      /\ d = [inv |-> d.inv, worn |-> d.worn, attr |-> d.attr, seen |-> d.seen, skill |-> d.skill]
  BY DEF Applied
<1>. HIDE DEF d
<1>4. d.inv = inv
  <2>1. \A it \in Items : Max({0, client.inv[it] + rec.inv[it]}) = inv[it]
    BY <1>1, <1>2, MaxZero
  <2>. QED  BY <2>1, <1>1, <1>3
<1>5. d.skill = skill
  BY <1>1, <1>2, <1>3 DEF SkillType
<1>6. ASSUME NEW s \in Slots PROVE d.worn[s] = Look(worn[s])
  <2>1. rec.worn[s] \in Items \cup {"none", "unequip"} /\ Told(client.worn[s], rec.worn[s], worn[s])
    BY <1>1, <1>2 DEF RecType
  <2>2. d.worn[s] = CASE rec.worn[s] = "none" -> client.worn[s]
                      [] rec.worn[s] = "unequip" -> None
                      [] OTHER -> Def[rec.worn[s]]
    BY <1>3
  <2>3. CASE rec.worn[s] = "none"
    BY <2>1, <2>2, <2>3 DEF Told
  <2>4. CASE rec.worn[s] = "unequip"
    BY <2>1, <2>2, <2>4 DEF Told, Look
  <2>5. CASE rec.worn[s] \in Items
    <3>1. d.worn[s] = Def[rec.worn[s]]
      BY <2>2, <2>5, Constants
    <3>. QED  BY <3>1, <2>1, <2>5 DEF Told, Look
  <2>. QED  BY <2>1, <2>3, <2>4, <2>5
<1>7. \A it \in seen : Def[it] \in d.seen
  BY <1>2, <1>3
<1>8. \A a \in Attrs : d.attr[a] = IF a \in stale THEN values[a] ELSE client.attr[a]
  BY <1>2, <1>3
<1>9. d \in Shown
  <2>1. \A s \in Slots : d.worn[s] \in Defs \cup {None}
    BY <1>6, <1>1, WornAt DEF Look
  <2>2. d.worn \in [Slots -> Defs \cup {None}]
    BY <2>1, <1>3
  <2>3. d.attr \in [Attrs -> Values \cup {None}]
    BY <1>2, <1>3 DEF Shown
  <2>4. d.seen \in SUBSET Defs
    BY <1>1, <1>2, <1>3, Constants DEF Shown, RecType
  <2>. QED  BY <1>1, <1>3, <1>4, <1>5, <2>2, <2>3, <2>4 DEF Shown, SkillType
<1>. QED  BY <1>4, <1>5, <1>6, <1>7, <1>8, <1>9, Constants DEF IsApplied, d

-----------------------------------------------------------------------------
(* Ticks                                                                   *)

\* The record after a diff has been built.
LEMMA Emptying ==
  ASSUME IInv, stale' \subseteq stale, cached' \in [Attrs -> Values \cup {None}],
         inv' = inv, worn' = worn, mods' = mods, seen' = seen, skill' = skill,
         dirty' = dirty, rec' = NoRecord, rows' = rows
  PROVE  /\ Now' \in PlayerType /\ rows' \in RowsType
         /\ Conserved' /\ Saved(Now)' /\ (rows.skill.level = LevelOf(rows.skill.xp))'
         /\ (OneOfAKind => Matched(Now))' /\ LevelTold(Now)'
<1>1. /\ inv \in [Items -> Nat] /\ worn \in WornType /\ mods \in [Defs -> Items \cup {None}]
      /\ stale \subseteq Attrs /\ seen \subseteq Items /\ skill \in SkillType
      /\ dirty \in DirtyType /\ rows \in RowsType
  BY NowFields, PlayerFields DEF IInv, TypeInv
<1>2. /\ Now'.inv = inv /\ Now'.worn = worn /\ Now'.mods = mods /\ Now'.stale = stale'
      /\ Now'.seen = seen /\ Now'.skill = skill /\ Now'.dirty = dirty /\ Now'.rec = NoRecord
  BY DEF Now
<1>3. Now' = [inv |-> inv, worn |-> worn, mods |-> mods, stale |-> stale',
              seen |-> seen, skill |-> skill, dirty |-> dirty, rec |-> NoRecord]
  BY DEF Now
<1>4. Now' \in PlayerType
  BY <1>1, <1>3, NothingDone DEF PlayerType
<1>5. Conserved' /\ (rows.skill.level = LevelOf(rows.skill.xp))'
  BY DEF IInv, Conserved, Total
<1>6. Saved(Now)'
  <2>1. Saved(Now)
    BY DEF IInv
  <2>. QED  BY <1>2, <2>1, NowFields DEF Saved
<1>7. (OneOfAKind => Matched(Now))'
  BY <1>2, NowFields DEF IInv, Matched
<1>8. LevelTold(Now)'
  BY <1>2, NothingDone DEF LevelTold
<1>. QED  BY <1>1, <1>4, <1>5, <1>6, <1>7, <1>8

\* A client that is in step with nothing left to tell.
LEMMA InStep ==
  ASSUME client' \in Shown, client'.inv = inv', client'.skill = skill',
         \A s \in Slots : client'.worn[s] = Look(worn'[s]),
         \A it \in seen' : Def[it] \in client'.seen,
         stale' = {}, rec' = NoRecord, Now' \in PlayerType
  PROVE  Synced(Now)'
<1>1. /\ Now'.inv = inv' /\ Now'.worn = worn' /\ Now'.stale = stale'
      /\ Now'.seen = seen' /\ Now'.skill = skill' /\ Now'.rec = NoRecord
  BY DEF Now
<1>2. \A s \in Slots : Told(client'.worn[s], "none", worn'[s])
  BY Constants DEF Told
<1>3. \A it \in Items : inv'[it] + 0 = inv'[it]
  BY <1>1, PlayerFields
<1>4. skill'.xp + 0 = skill'.xp
  BY <1>1, PlayerFields DEF SkillType
<1>. QED  BY <1>1, <1>2, <1>3, <1>4, NothingDone DEF Synced

LEMMA PushedKeeps ==
  ASSUME IInv, phase \in {"commands", "settle"}, Pushed,
         phase' \in {"settle", "flush", "idle"}, due' \in BOOLEAN
  PROVE  IInv'
<1>1. /\ Reading(rec.attr)
      /\ client' = (IF client # None /\ Recorded THEN Applied(client, Final) ELSE client)
      /\ torn' = (torn \/ (full # None /\ Recorded))
      /\ rec' = NoRecord
      /\ inv' = inv /\ worn' = worn /\ mods' = mods /\ seen' = seen /\ skill' = skill
      /\ dirty' = dirty /\ rows' = rows /\ full' = full /\ frames' = frames
      /\ raced' = raced /\ commands' = commands /\ crashes' = crashes
  BY DEF Pushed, reader
<1>2. /\ Now \in PlayerType /\ rec \in RecType /\ stale \subseteq Attrs
      /\ cached \in [Attrs -> Values \cup {None}] /\ rec.attr \in SUBSET Attrs
      /\ inv \in [Items -> Nat] /\ skill \in SkillType /\ LevelTold(Now)
      /\ client \in Shown \cup {None}
  BY NowFields, PlayerFields DEF IInv, TypeInv, RecType
<1>3. IsRead(rec.attr) /\ (~raced => Computing')
  BY <1>1, <1>2, ReadingRight
<1>4. /\ Final \in [Attrs -> Values] /\ cached' \in [Attrs -> Values \cup {None}]
      /\ stale' \subseteq stale
      /\ \A a \in rec.attr : a \notin stale' /\ cached'[a] = Final[a]
      /\ \A a \in Attrs \ stale : cached[a] # None => cached'[a] = cached[a]
      /\ \A a \in Attrs : cached[a] # None => cached'[a] # None
  BY <1>3 DEF IsRead
<1>5. /\ Now' \in PlayerType /\ rows' \in RowsType
      /\ Conserved' /\ Saved(Now)' /\ (rows.skill.level = LevelOf(rows.skill.xp))'
      /\ (OneOfAKind => Matched(Now))' /\ LevelTold(Now)'
  BY <1>1, <1>4, Emptying
<1>6. ASSUME client' # None, full' = None, ~torn'
      PROVE  client' \in Shown /\ Synced(Now)' /\ \A a \in Attrs \ stale' : client'.attr[a] = cached'[a]
  <2>1. /\ client # None /\ full = None /\ ~torn /\ Synced(Now) /\ rec.attr = stale
        /\ client \in Shown
        /\ \A a \in Attrs \ stale : client.attr[a] = cached[a]
        /\ \A a \in Attrs : cached[a] # None
    BY <1>1, <1>6, NowFields DEF IInv, Following, Synced, Connected
  <2>2. stale' = {}
    BY <1>4, <2>1
  <2>3. CASE Recorded
    <3>1. client' = Applied(client, Final) /\ IsApplied(client, Final)
      BY <1>1, <1>2, <1>4, <2>1, <2>3, AppliedRight
    <3>2. /\ client' \in Shown /\ client'.inv = inv /\ client'.skill = skill
          /\ \A s \in Slots : client'.worn[s] = Look(worn[s])
          /\ \A it \in seen : Def[it] \in client'.seen
          /\ \A a \in Attrs : client'.attr[a] = IF a \in stale THEN Final[a] ELSE client.attr[a]
      BY <3>1 DEF IsApplied
    <3>3. Synced(Now)'
      BY <1>1, <1>5, <2>2, <3>2, InStep
    <3>. QED  BY <3>2, <3>3, <1>4, <2>1
  <2>4. CASE ~Recorded
    <3>1. rec = NoRecord /\ client' = client
      BY <1>1, <1>2, <2>4, NotRecorded
    <3>2. stale = {}
      BY <3>1, <2>1, NothingDone
    <3>3. /\ Now'.inv = Now.inv /\ Now'.worn = Now.worn /\ Now'.stale = Now.stale
          /\ Now'.seen = Now.seen /\ Now'.skill = Now.skill /\ Now'.rec = Now.rec
      BY <1>1, <2>2, <3>1, <3>2 DEF Now
    <3>4. Synced(Now)'
      BY <2>1, <3>1, <3>3 DEF Synced
    <3>. QED  BY <3>1, <3>2, <3>4, <2>1, <1>4
  <2>. QED  BY <2>3, <2>4
<1>7. client' \in Shown \cup {None}
  <2>1. CASE client # None /\ Recorded
    \* Whatever the client showed, a diff makes a state of it that it can show.
    <3>1. client' = Applied(client, Final) /\ client \in Shown
      BY <1>1, <1>2, <2>1
    <3>2. \A it \in Items : client.inv[it] + rec.inv[it] \in Int
      BY <3>1, <1>2 DEF Shown, RecType
    <3>3. \A it \in Items : Max({0, client.inv[it] + rec.inv[it]}) \in Nat
      BY <3>2, MaxNat
    <3>4. [it \in Items |-> Max({0, client.inv[it] + rec.inv[it]})] \in [Items -> Nat]
      BY <3>3
    <3>5. [s \in Slots |-> CASE rec.worn[s] = "none" -> client.worn[s]
                             [] rec.worn[s] = "unequip" -> None
                             [] OTHER -> Def[rec.worn[s]]] \in [Slots -> Defs \cup {None}]
      BY <3>1, <1>2, Constants DEF Shown, RecType
    <3>6. [a \in Attrs |-> IF a \in rec.attr THEN Final[a] ELSE client.attr[a]]
            \in [Attrs -> Values \cup {None}]
      BY <3>1, <1>4 DEF Shown
    <3>7. client.seen \cup rec.seen \cup {Def[it] : it \in {i \in Items : rec.inv[i] > 0}} \in SUBSET Defs
      BY <3>1, <1>2, Constants DEF Shown, RecType
    <3>8. [level |-> IF rec.skill = None THEN client.skill.level ELSE rec.skill,
           xp |-> client.skill.xp + rec.xp] \in [level : Nat, xp : Nat]
      BY <3>1, <1>2 DEF Shown, RecType
    <3>. QED  BY <3>1, <3>4, <3>5, <3>6, <3>7, <3>8 DEF Applied, Shown
  <2>. QED  BY <2>1, <1>1, <1>2
<1>8. TypeInv'
  BY <1>1, <1>4, <1>5, <1>7 DEF IInv, TypeInv
<1>9. Following'
  BY <1>6 DEF Following
<1>10. SnapshotCurrent'
  <2>1. SUFFICES ASSUME full # None, ~torn
                 PROVE  /\ ~Recorded'
                        /\ \A a \in Attrs : full.attr[a] # None =>
                             a \notin stale' /\ full.attr[a] = cached'[a]
    BY <1>1 DEF IInv, SnapshotCurrent, ShownWorn, ShownSeen
  <2>2. \A a \in Attrs : full.attr[a] # None =>
          a \notin stale /\ full.attr[a] = cached[a] /\ cached[a] # None
    BY <2>1 DEF IInv, SnapshotCurrent, Connected
  <2>3. ~Recorded'
    BY <1>1, NothingDone DEF Recorded
  <2>. QED  BY <1>4, <2>2, <2>3
<1>11. Connected'
  <2>1. client' # None => client # None
    BY <1>1
  <2>. QED  BY <1>1, <1>4, <2>1 DEF IInv, Connected
<1>. QED  BY <1>1, <1>3, <1>5, <1>8, <1>9, <1>10, <1>11 DEF IInv

LEMMA ParametersKept ==
  ASSUME IInv, UNCHANGED <<rows, cached>>, Now' = Now
  PROVE  /\ Now' \in PlayerType /\ rows' \in RowsType
         /\ Conserved' /\ Saved(Now)' /\ (rows.skill.level = LevelOf(rows.skill.xp))'
         /\ (OneOfAKind => Matched(Now))' /\ LevelTold(Now)'
         /\ frames' \in {frames, <<>>} => (Computing => Computing')
         /\ (client' = client => (Synced(Now)' <=> Synced(Now)))
<1>1. Now \in PlayerType /\ rows \in RowsType
  BY DEF IInv, TypeInv
<1>2. inv' = inv /\ worn' = worn
  <2>1. Now'.inv = inv' /\ Now'.worn = worn'
    BY DEF Now
  <2>. QED  BY <2>1, NowFields
<1>3. Conserved' /\ (rows.skill.level = LevelOf(rows.skill.xp))'
  BY <1>2 DEF IInv, Conserved, Total
<1>4. Saved(Now)'
  BY DEF IInv, Saved
<1>5. (OneOfAKind => Matched(Now))' /\ LevelTold(Now)'
  BY DEF IInv, Matched, LevelTold
<1>7. frames' \in {frames, <<>>} => (Computing => Computing')
  <2>1. Fresh(Now) => Fresh(Now)'
    BY DEF Fresh
  <2>2. mods' = mods /\ stale' = stale /\ cached' = cached
    <3>1. Now'.mods = mods' /\ Now'.stale = stale'
      BY DEF Now
    <3>. QED  BY <3>1, NowFields
  <2>. QED  BY <2>1, <2>2 DEF Computing
<1>6. client' = client => (Synced(Now)' <=> Synced(Now))
  BY DEF Synced
<1>. QED  BY <1>1, <1>3, <1>4, <1>5, <1>6, <1>7

\* A step that has nothing to do with attributes.
LEMMA StillComputing ==
  ASSUME IInv, raced' = raced, frames' = frames, mods' = mods, stale' = stale, cached' = cached
  PROVE  (~raced => Computing)'
<1>1. Fresh(Now) => Fresh(Now)'
  BY DEF Fresh, Now
<1>. QED  BY <1>1 DEF IInv, Computing

LEMMA StutterKeeps ==
  ASSUME IInv, UNCHANGED vars
  PROVE  IInv'
<1>1. /\ Now' = Now /\ UNCHANGED <<rows, cached>> /\ client' = client /\ full' = full
      /\ torn' = torn /\ stale' = stale /\ rec' = rec /\ phase' = phase /\ due' = due
      /\ inv' = inv /\ skill' = skill /\ worn' = worn /\ seen' = seen
      /\ commands' = commands /\ crashes' = crashes /\ frames' = frames /\ raced' = raced
  BY DEF vars, state, attr, reader, Now
<1>2. TypeInv' /\ Following' /\ SnapshotCurrent' /\ Connected'
  <2>1. TypeInv'
    BY <1>1, ParametersKept DEF IInv, TypeInv
  <2>2. Following'
    BY <1>1, ParametersKept DEF IInv, Following
  <2>3. SnapshotCurrent'
    BY <1>1 DEF IInv, SnapshotCurrent, ShownWorn, ShownSeen, Recorded
  <2>4. Connected'
    BY <1>1 DEF IInv, Connected
  <2>. QED  BY <2>1, <2>2, <2>3, <2>4
<1>. QED  BY <1>1, <1>2, ParametersKept DEF IInv

LEMMA TickBeginsKeeps ==
  ASSUME IInv, TickBegins
  PROVE  IInv'
<1>1. /\ phase = "idle" /\ phase' = "commands" /\ due' = FALSE /\ rec' = NoRecord
      /\ UNCHANGED <<rows, cached>> /\ client' = client /\ full' = full
      /\ torn' = torn /\ stale' = stale /\ inv' = inv /\ worn' = worn /\ mods' = mods
      /\ seen' = seen /\ skill' = skill /\ dirty' = dirty
      /\ commands' = commands /\ crashes' = crashes /\ frames' = frames /\ raced' = raced
  BY DEF TickBegins, state, attr, reader
<1>2. rec = NoRecord
  BY <1>1 DEF IInv, Connected
<1>3. Now' = Now
  BY <1>1, <1>2 DEF Now
<1>4. TypeInv'
  BY <1>1, <1>3, ParametersKept DEF IInv, TypeInv
<1>5. Following'
  BY <1>1, <1>3, ParametersKept DEF IInv, Following
<1>6. SnapshotCurrent'
  BY <1>1, <1>2 DEF IInv, SnapshotCurrent, ShownWorn, ShownSeen, Recorded
<1>7. Connected'
  BY <1>1 DEF IInv, Connected
<1>. QED  BY <1>1, <1>3, <1>4, <1>5, <1>6, <1>7, ParametersKept DEF IInv

LEMMA SettlePanicsKeeps ==
  ASSUME IInv, SettlePanics
  PROVE  IInv'
<1>1. /\ phase = "settle" /\ phase' \in {"flush", "idle"} /\ due' = FALSE /\ rec' = NoRecord
      /\ torn' = (torn \/ (Recorded /\ client # None))
      /\ rows' = rows /\ cached' = cached /\ client' = client /\ full' = full
      /\ stale' = stale /\ inv' = inv /\ worn' = worn /\ mods' = mods
      /\ seen' = seen /\ skill' = skill /\ dirty' = dirty
      /\ commands' = commands /\ crashes' = crashes /\ frames' = frames /\ raced' = raced
  BY DEF SettlePanics, state, attr, reader
<1>2. rec \in RecType /\ LevelTold(Now) /\ cached \in [Attrs -> Values \cup {None}]
  BY NowFields, PlayerFields DEF IInv, TypeInv
<1>3. /\ Now' \in PlayerType /\ rows' \in RowsType
      /\ Conserved' /\ Saved(Now)' /\ (rows.skill.level = LevelOf(rows.skill.xp))'
      /\ (OneOfAKind => Matched(Now))' /\ LevelTold(Now)'
  BY <1>1, <1>2, Emptying
<1>4. (~raced => Computing)'
  BY <1>1, StillComputing
<1>5. TypeInv'
  BY <1>1, <1>3 DEF IInv, TypeInv
<1>6. Following'
  <2>1. SUFFICES ASSUME client # None, full = None, ~torn, ~Recorded
                 PROVE  Synced(Now)' /\ \A a \in Attrs \ stale : client.attr[a] = cached[a]
    BY <1>1 DEF Following
  <2>2. rec = NoRecord
    BY <1>2, <2>1, NotRecorded
  <2>3. Now' = Now
    BY <1>1, <2>2 DEF Now
  <2>. QED  BY <1>1, <2>1, <2>3, ParametersKept DEF IInv, Following
<1>7. SnapshotCurrent'
  <2>1. ~Recorded'
    BY <1>1, NothingDone DEF Recorded
  <2>. QED  BY <1>1, <2>1 DEF IInv, SnapshotCurrent, ShownWorn, ShownSeen
<1>8. Connected'
  BY <1>1 DEF IInv, Connected
<1>. QED  BY <1>3, <1>4, <1>5, <1>6, <1>7, <1>8 DEF IInv

\* Flush writes what is not in the database yet.
LEMMA Flushed ==
  ASSUME IInv
  PROVE  FlushedInv = inv /\ FlushedWorn = worn /\ FlushedSkill = skill
         /\ rows.seen \subseteq FlushedSeen /\ FlushedSeen \subseteq Defs
         /\ \A it \in seen : Def[it] \in FlushedSeen
<1>. USE NowFields
<1>1. /\ inv \in [Items -> Nat] /\ worn \in WornType /\ dirty \in DirtyType /\ seen \subseteq Items
      /\ rows.seen \subseteq Defs
  BY PlayerFields DEF IInv, TypeInv, RowsType
<1>2. /\ \A it \in Items \ dirty.inv : rows.inv[it] = inv[it]
      /\ \A s \in dirty.gone : worn[s] = None /\ s \notin dirty.worn
      /\ \A s \in Slots \ (dirty.worn \cup dirty.gone) : rows.worn[s] = worn[s]
      /\ \A it \in seen \ dirty.seen : Def[it] \in rows.seen
      /\ ~dirty.skill => rows.skill = skill
  BY DEF IInv, Saved
<1>3. FlushedInv = inv
  BY <1>1, <1>2 DEF FlushedInv
<1>4. FlushedWorn = worn
  <2>1. \A s \in Slots : FlushedWorn[s] = worn[s]
    BY <1>2 DEF FlushedWorn
  <2>2. FlushedWorn = [s \in Slots |-> FlushedWorn[s]] /\ worn = [s \in Slots |-> worn[s]]
    BY <1>1 DEF FlushedWorn, WornType
  <2>. QED  BY <2>1, <2>2
<1>5. FlushedSkill = skill
  BY <1>2 DEF FlushedSkill
<1>6. /\ rows.seen \subseteq FlushedSeen /\ FlushedSeen \subseteq Defs
      /\ \A it \in seen : Def[it] \in FlushedSeen
  BY <1>1, <1>2, Constants DEF FlushedSeen, DirtyType
<1>. QED  BY <1>3, <1>4, <1>5, <1>6

LEMMA FlushKeeps ==
  ASSUME IInv, Flush
  PROVE  IInv'
<1>1. /\ phase = "flush" /\ phase' = "idle" /\ dirty' = Clean
      /\ rows' = [inv |-> inv, worn |-> worn, seen |-> FlushedSeen, skill |-> skill]
      /\ cached' = cached /\ client' = client /\ full' = full
      /\ stale' = stale /\ inv' = inv /\ worn' = worn /\ mods' = mods
      /\ seen' = seen /\ skill' = skill /\ rec' = rec /\ due' = due /\ torn' = torn
      /\ commands' = commands /\ crashes' = crashes /\ frames' = frames /\ raced' = raced
  BY Flushed DEF Flush, attr, reader
<1>2. /\ inv \in [Items -> Nat] /\ worn \in WornType /\ mods \in [Defs -> Items \cup {None}]
      /\ stale \subseteq Attrs /\ seen \subseteq Items /\ skill \in SkillType /\ rec \in RecType
      /\ FlushedSeen \in SUBSET Defs
  BY NowFields, PlayerFields, Flushed DEF IInv, TypeInv
<1>3. rows' \in RowsType
  BY <1>1, <1>2 DEF RowsType
<1>4. Now' = [inv |-> inv, worn |-> worn, mods |-> mods, stale |-> stale,
              seen |-> seen, skill |-> skill, dirty |-> Clean, rec |-> rec]
  BY <1>1 DEF Now
<1>5. Now' \in PlayerType
  BY <1>2, <1>4, NothingDone DEF PlayerType
<1>6. TypeInv'
  BY <1>1, <1>3, <1>5 DEF IInv, TypeInv
<1>7. /\ Now'.inv = inv /\ Now'.worn = worn /\ Now'.mods = mods /\ Now'.stale = stale
      /\ Now'.seen = seen /\ Now'.skill = skill /\ Now'.dirty = Clean /\ Now'.rec = rec
      /\ rows'.inv = inv /\ rows'.worn = worn /\ rows'.seen = FlushedSeen /\ rows'.skill = skill
  BY <1>1, <1>4
<1>8. skill.level = LevelOf(skill.xp)
  BY NowFields DEF IInv, Saved
<1>9. Saved(Now)' /\ (rows.skill.level = LevelOf(rows.skill.xp))'
  <2>1. (rows.skill.level = LevelOf(rows.skill.xp))'
    BY <1>1, <1>8 DEF LevelOf
  <2>. QED  BY <1>7, <1>8, <2>1, Flushed, NothingDone DEF Saved
<1>10. Conserved'
  BY <1>1, <1>7 DEF IInv, Conserved, Total
<1>11. (OneOfAKind => Matched(Now))' /\ LevelTold(Now)' /\ (~raced => Computing)'
  BY <1>1, <1>7, NowFields, StillComputing DEF IInv, Matched, LevelTold
<1>12. Following'
  <2>1. Synced(Now) /\ client' = client => Synced(Now)'
    BY <1>7, NowFields DEF Synced
  <2>. QED  BY <2>1, <1>1 DEF IInv, Following
<1>13. SnapshotCurrent'
  BY <1>1 DEF IInv, SnapshotCurrent, ShownWorn, ShownSeen, Recorded
<1>14. Connected'
  BY <1>1 DEF IInv, Connected
<1>. QED  BY <1>6, <1>9, <1>10, <1>11, <1>12, <1>13, <1>14 DEF IInv

-----------------------------------------------------------------------------
(* Connections, crashes and loading                                        *)

\* What SerializeFull makes of the parts.
LEMMA SnapshotIs ==
  ASSUME Now \in PlayerType
  PROVE  /\ ShownInv = inv
         /\ ShownWorn \in [Slots -> Defs \cup {None}]
         /\ \A s \in Slots : ShownWorn[s] = Look(worn[s])
         /\ ShownSeen \in SUBSET Defs
<1>1. inv \in [Items -> Nat] /\ worn \in WornType /\ seen \subseteq Items
  BY NowFields, PlayerFields
<1>2. ShownInv = inv
  BY <1>1, MaxZero DEF ShownInv
<1>3. \A s \in Slots : ShownWorn[s] = Look(worn[s]) /\ Look(worn[s]) \in Defs \cup {None}
  BY <1>1, WornAt DEF ShownWorn, Look
<1>4. ShownWorn \in [Slots -> Defs \cup {None}]
  BY <1>3 DEF ShownWorn
<1>5. ShownSeen \in SUBSET Defs
  BY <1>1, Constants DEF ShownSeen
<1>. QED  BY <1>2, <1>3, <1>4, <1>5

LEMMA FullReadKeeps ==
  ASSUME IInv, FullRead
  PROVE  IInv'
<1>1. /\ phase # "down" /\ phase' = phase /\ full = None
      /\ client' = (IF client = None THEN Unknown ELSE client)
      /\ full' = [inv |-> ShownInv, worn |-> ShownWorn, attr |-> Unread, seen |-> ShownSeen,
                  skill |-> skill]
      /\ torn' = (phase # "idle" /\ Recorded)
      /\ UNCHANGED <<rows, cached>> /\ Now' = Now /\ cached' = cached
      /\ stale' = stale /\ rec' = rec /\ inv' = inv /\ worn' = worn /\ mods' = mods
      /\ seen' = seen /\ skill' = skill /\ due' = due
      /\ frames' = frames /\ raced' = raced /\ commands' = commands /\ crashes' = crashes
  BY DEF FullRead, state, attr, Now
<1>2. /\ Now \in PlayerType /\ inv \in [Items -> Nat] /\ skill \in SkillType
      /\ client \in Shown \cup {None} /\ frames = <<>>
  BY <1>1, NowFields, PlayerFields DEF IInv, TypeInv, Connected
<1>3. Unread \in [Attrs -> Values \cup {None}] /\ \A a \in Attrs : Unread[a] = None
  BY DEF Unread
<1>4. full' \in Shown /\ full' # None /\ full'.attr = Unread
  <2>1. full' \in Shown
    BY <1>1, <1>2, <1>3, SnapshotIs DEF Shown, SkillType
  <2>. QED  BY <2>1, <1>1, Constants
<1>5. client' \in Shown \cup {None}
  <2>1. Unknown \in Shown
    BY DEF Unknown, Shown
  <2>. QED  BY <2>1, <1>1, <1>2
<1>6. TypeInv'
  BY <1>1, <1>4, <1>5, ParametersKept DEF IInv, TypeInv
<1>7. Following'
  BY <1>4 DEF Following
<1>8. SnapshotCurrent'
  <2>1. SUFFICES ASSUME ~torn'
                 PROVE  /\ full'.inv = inv /\ full'.skill = skill /\ full'.worn = ShownWorn'
                        /\ ShownSeen' \subseteq full'.seen /\ ~Recorded'
    BY <1>1, <1>2, <1>3, <1>4 DEF SnapshotCurrent
  <2>2. ShownWorn' = ShownWorn /\ ShownSeen' = ShownSeen
    BY <1>1 DEF ShownWorn, ShownSeen
  <2>3. ~Recorded
    BY <1>1, <2>1, NothingRecorded DEF IInv, Connected
  <2>4. ~Recorded'
    BY <1>1, <2>3 DEF Recorded
  <2>. QED  BY <1>1, <1>2, <2>2, <2>4, SnapshotIs
<1>9. Connected'
  BY <1>1, <1>3, <1>4 DEF IInv, Connected
<1>10. (~raced => Computing)'
  BY <1>1, StillComputing
<1>. QED  BY <1>1, <1>6, <1>7, <1>8, <1>9, <1>10, ParametersKept DEF IInv

\* The value goes to one place: the snapshot, or the innermost call.
LEMMA ReturnedIs ==
  ASSUME NEW a \in Attrs, NEW v \in Values, NEW below \in Seq(Frame), full \in Shown,
         Returned(a, v, below)
  PROVE  /\ frames' \in Seq(Frame) /\ Len(frames') = Len(below)
         /\ full' \in Shown /\ full' # None
         /\ full'.inv = full.inv /\ full'.skill = full.skill /\ full'.worn = full.worn
         /\ full'.seen = full.seen
         /\ \A i \in 1..Len(below) :
              /\ frames'[i].attr = below[i].attr /\ frames'[i].its = below[i].its
              /\ \A r \in Attrs : frames'[i].refs[r] = below[i].refs[r]
                                 \/ (r = a /\ frames'[i].refs[r] = v)
         /\ \A b \in Attrs : full'.attr[b] = full.attr[b]
                            \/ (b = a /\ below = <<>> /\ full'.attr[b] = v)
<1>1. CASE below = <<>>
  <2>1. frames' = <<>> /\ full' = [full EXCEPT !.attr[a] = v]
    BY <1>1 DEF Returned
  <2>2. full.attr \in [Attrs -> Values \cup {None}]
    BY DEF Shown
  <2>3. full' = [full EXCEPT !.attr = [full.attr EXCEPT ![a] = v]]
    BY <2>1
  <2>. DEFINE g == [full.attr EXCEPT ![a] = v]
  <2>4. g \in [Attrs -> Values \cup {None}] /\ \A b \in Attrs : g[b] = IF b = a THEN v ELSE full.attr[b]
    BY <2>2
  <2>5. full' = [full EXCEPT !.attr = g]
    BY <2>3
  <2>. HIDE DEF g
  <2>6. full' \in Shown /\ full'.attr = g
    BY <2>4, <2>5 DEF Shown
  <2>7. /\ full'.inv = full.inv /\ full'.skill = full.skill /\ full'.worn = full.worn
        /\ full'.seen = full.seen
    BY <2>5 DEF Shown
  <2>8. full' # None
    BY <2>6, Constants
  <2>. QED  BY <1>1, <2>1, <2>4, <2>6, <2>7, <2>8
<1>2. CASE below # <<>>
  <2>. DEFINE n == Len(below)
              f == below[n]
              g == [f.refs EXCEPT ![a] = v]
              h == [f EXCEPT !.refs = g]
  <2>1. n \in Nat /\ n >= 1 /\ f \in Frame
    BY <1>2
  <2>2. frames' = [below EXCEPT ![n].refs[a] = v] /\ full' = full
    BY <1>2 DEF Returned
  <2>3. g \in [Attrs -> Values \cup {None}] /\ \A r \in Attrs : g[r] = IF r = a THEN v ELSE f.refs[r]
    BY <2>1 DEF Frame
  <2>4. frames' = [below EXCEPT ![n] = h]
    BY <2>2
  <2>. HIDE DEF g
  <2>5. h \in Frame /\ h.attr = f.attr /\ h.its = f.its /\ h.refs = g
    BY <2>1, <2>3 DEF Frame
  <2>. HIDE DEF h
  <2>6. frames' \in Seq(Frame) /\ Len(frames') = n
    BY <2>1, <2>4, <2>5
  <2>7. \A i \in 1..n : frames'[i] = IF i = n THEN h ELSE below[i]
    BY <2>1, <2>4
  <2>8. full' # None
    BY <2>2, Constants
  <2>. QED  BY <1>2, <2>2, <2>3, <2>5, <2>6, <2>7, <2>8
<1>. QED  BY <1>1, <1>2

\* Only while SendFullState runs there is something it asks for.
LEMMA AskedIs ==
  ASSUME IInv, NEW a \in Asked
  PROVE  full \in Shown /\ full # None
<1>1. full # None
  BY DEF Asked, IInv, Connected
<1>. QED  BY <1>1 DEF IInv, TypeInv

LEMMA CacheHitKeeps ==
  ASSUME IInv, NEW a \in Attrs, CacheHit(a)
  PROVE  IInv'
<1>. DEFINE v == cached[a]
<1>1. /\ a \in Asked /\ Known[a] # None /\ Returned(a, v, frames)
      /\ UNCHANGED <<rows, cached>> /\ Now' = Now /\ cached' = cached
      /\ stale' = stale /\ rec' = rec /\ inv' = inv /\ worn' = worn /\ mods' = mods
      /\ seen' = seen /\ skill' = skill /\ due' = due /\ client' = client /\ phase' = phase
      /\ torn' = torn /\ raced' = raced /\ commands' = commands /\ crashes' = crashes
  BY DEF CacheHit, state, attr, Now
<1>2. full \in Shown /\ full # None /\ frames \in Seq(Frame)
  BY <1>1, AskedIs DEF IInv, TypeInv
<1>3. a \notin stale /\ v \in Values
  BY <1>1 DEF Known, IInv, TypeInv
<1>. HIDE DEF v
<1>4. /\ frames' \in Seq(Frame) /\ Len(frames') = Len(frames)
      /\ full' \in Shown /\ full' # None
      /\ full'.inv = full.inv /\ full'.skill = full.skill /\ full'.worn = full.worn
      /\ full'.seen = full.seen
      /\ \A i \in 1..Len(frames) :
           /\ frames'[i].attr = frames[i].attr /\ frames'[i].its = frames[i].its
           /\ \A r \in Attrs : frames'[i].refs[r] = frames[i].refs[r]
                              \/ (r = a /\ frames'[i].refs[r] = v)
      /\ \A b \in Attrs : full'.attr[b] = full.attr[b]
                         \/ (b = a /\ frames = <<>> /\ full'.attr[b] = v)
  BY <1>1, <1>2, <1>3, ReturnedIs
<1>5. TypeInv'
  BY <1>1, <1>4, ParametersKept DEF IInv, TypeInv
<1>6. Following'
  BY <1>4 DEF Following
<1>7. SnapshotCurrent'
  <2>1. SUFFICES ASSUME ~torn
                 PROVE  /\ full'.inv = inv /\ full'.skill = skill /\ full'.worn = ShownWorn'
                        /\ ShownSeen' \subseteq full'.seen /\ ~Recorded'
                        /\ \A b \in Attrs : full'.attr[b] # None =>
                             b \notin stale /\ full'.attr[b] = cached[b]
                        /\ \A i \in 1..Len(frames') : full'.attr[frames'[i].attr] = None
    BY <1>1 DEF SnapshotCurrent
  <2>2. /\ full.inv = inv /\ full.skill = skill /\ full.worn = ShownWorn
        /\ ShownSeen \subseteq full.seen /\ ~Recorded
        /\ \A b \in Attrs : full.attr[b] # None => b \notin stale /\ full.attr[b] = cached[b]
        /\ \A i \in 1..Len(frames) : full.attr[frames[i].attr] = None
    BY <1>2, <2>1 DEF IInv, SnapshotCurrent
  <2>3. ShownWorn' = ShownWorn /\ ShownSeen' = ShownSeen /\ Recorded' = Recorded
    BY <1>1 DEF ShownWorn, ShownSeen, Recorded
  <2>4. \A b \in Attrs : full'.attr[b] # None => b \notin stale /\ full'.attr[b] = cached[b]
    BY <1>3, <1>4, <2>2 DEF v
  <2>5. ASSUME NEW i \in 1..Len(frames') PROVE full'.attr[frames'[i].attr] = None
    <3>1. frames # <<>> /\ i \in 1..Len(frames) /\ frames[i] \in Frame
      BY <1>2, <1>4
    <3>2. frames'[i].attr = frames[i].attr /\ frames[i].attr \in Attrs
      BY <1>4, <3>1 DEF Frame
    <3>. QED  BY <1>4, <2>2, <3>1, <3>2
  <2>. QED  BY <1>4, <2>2, <2>3, <2>4, <2>5
<1>8. Connected'
  <2>1. \A b \in Attrs : full'.attr[b] # None => cached[b] # None
    BY <1>2, <1>3, <1>4, Constants DEF IInv, Connected, v
  <2>. QED  BY <1>1, <1>2, <1>4, <2>1 DEF IInv, Connected
<1>9. ASSUME ~raced PROVE Computing'
  <2>1. Computing /\ Fresh(Now)
    BY <1>9 DEF IInv, Computing
  <2>2. v = Value(MountedItems(mods))[a] /\ v # None
    BY <2>1, <1>3, NowFields, Constants DEF Fresh, v
  <2>3. Fresh(Now)'
    BY <1>1, <2>1 DEF Fresh
  <2>4. ASSUME NEW i \in 1..Len(frames)
        PROVE  /\ frames'[i].its = {it \in MountedItems(mods) : frames'[i].attr \in Touches[it]}
               /\ \A r \in Attrs : frames'[i].refs[r] # None =>
                    /\ frames'[i].refs[r] = Value(MountedItems(mods))[r]
                    /\ r \notin stale /\ cached[r] # None
    BY <1>3, <1>4, <2>1, <2>2 DEF Computing, v
  <2>. QED  BY <1>1, <1>4, <2>3, <2>4 DEF Computing
<1>. QED  BY <1>1, <1>5, <1>6, <1>7, <1>8, <1>9, ParametersKept DEF IInv

LEMMA RecomputeKeeps ==
  ASSUME IInv, NEW a \in Attrs, Recompute(a)
  PROVE  IInv'
<1>. DEFINE its == {it \in MountedItems(mods) : a \in Touches[it]}
            f == [attr |-> a, refs |-> Unread, its |-> its]
<1>1. /\ a \in Asked /\ Known[a] = None /\ frames' = Append(frames, f)
      /\ UNCHANGED <<rows, cached>> /\ Now' = Now /\ cached' = cached
      /\ stale' = stale /\ rec' = rec /\ inv' = inv /\ worn' = worn /\ mods' = mods
      /\ seen' = seen /\ skill' = skill /\ due' = due /\ client' = client /\ phase' = phase
      /\ full' = full
      /\ torn' = torn /\ raced' = raced /\ commands' = commands /\ crashes' = crashes
  BY DEF Recompute, state, attr, Now
<1>2. full \in Shown /\ full # None /\ frames \in Seq(Frame)
  BY <1>1, AskedIs DEF IInv, TypeInv
<1>3. its \in SUBSET Items
  <2>1. mods \in [Defs -> Items \cup {None}]
    BY NowFields, PlayerFields DEF IInv, TypeInv
  <2>. QED  BY <2>1, MountedType
<1>. HIDE DEF its
<1>4. f \in Frame /\ f.attr = a /\ f.its = its /\ \A r \in Attrs : f.refs[r] = None
  BY <1>3 DEF Frame, Unread
<1>. HIDE DEF f
<1>5. /\ frames' \in Seq(Frame) /\ Len(frames') = Len(frames) + 1 /\ Len(frames) \in Nat
      /\ \A i \in 1..Len(frames') :
           (i \in 1..Len(frames) /\ frames'[i] = frames[i]) \/ frames'[i] = f
  BY <1>1, <1>2, <1>4
<1>6. TypeInv'
  BY <1>1, <1>5, ParametersKept DEF IInv, TypeInv
<1>7. Following'
  BY <1>1, <1>2 DEF Following
<1>8. SnapshotCurrent'
  <2>1. SUFFICES ASSUME ~torn
                 PROVE  \A i \in 1..Len(frames') : full.attr[frames'[i].attr] = None
    BY <1>1 DEF IInv, SnapshotCurrent, ShownWorn, ShownSeen, Recorded
  <2>2. /\ \A b \in Attrs : full.attr[b] # None => b \notin stale /\ full.attr[b] = cached[b]
        /\ \A i \in 1..Len(frames) : full.attr[frames[i].attr] = None
    BY <1>2, <2>1 DEF IInv, SnapshotCurrent
  <2>3. full.attr[a] = None
    BY <1>1, <2>2 DEF Known
  <2>. QED  BY <1>4, <1>5, <2>2, <2>3
<1>9. Connected'
  BY <1>1, <1>2 DEF IInv, Connected
<1>10. ASSUME ~raced PROVE Computing'
  <2>1. Computing /\ Fresh(Now)
    BY <1>10 DEF IInv, Computing
  <2>2. Fresh(Now)'
    BY <1>1, <2>1 DEF Fresh
  <2>3. ASSUME NEW i \in 1..Len(frames')
        PROVE  /\ frames'[i].its = {it \in MountedItems(mods) : frames'[i].attr \in Touches[it]}
               /\ \A r \in Attrs : frames'[i].refs[r] # None =>
                    /\ frames'[i].refs[r] = Value(MountedItems(mods))[r]
                    /\ r \notin stale /\ cached[r] # None
    <3>1. CASE i \in 1..Len(frames) /\ frames'[i] = frames[i]
      BY <2>1, <3>1 DEF Computing
    <3>2. CASE frames'[i] = f
      BY <1>4, <3>2 DEF its
    <3>. QED  BY <1>5, <3>1, <3>2
  <2>. QED  BY <1>1, <2>2, <2>3 DEF Computing
<1>. QED  BY <1>1, <1>6, <1>7, <1>8, <1>9, <1>10, ParametersKept DEF IInv

\* What getFinal writes at its end is clean and, if no modifier has changed
\* since its beginning, right.
LEMMA WriteBackKeeps ==
  ASSUME IInv, WriteBack
  PROVE  IInv'
<1>. DEFINE n == Len(frames)
            f == frames[n]
            a == f.attr
            v == Formula(a, f.its, [r \in Refs[a] |-> f.refs[r]])
            below == Front(frames)
<1>1. /\ frames # <<>> /\ Asked = {} /\ Returned(a, v, below)
      /\ cached' = [cached EXCEPT ![a] = v] /\ stale' = stale \ {a}
      /\ rows' = rows /\ rec' = rec /\ inv' = inv /\ worn' = worn /\ mods' = mods
      /\ seen' = seen /\ skill' = skill /\ dirty' = dirty /\ due' = due /\ client' = client
      /\ phase' = phase /\ torn' = torn /\ raced' = raced
      /\ commands' = commands /\ crashes' = crashes
  BY DEF WriteBack, Last
<1>2. /\ frames \in Seq(Frame) /\ Now \in PlayerType /\ cached \in [Attrs -> Values \cup {None}]
      /\ full \in Shown /\ full # None
  BY <1>1 DEF IInv, TypeInv, Connected
<1>3. n \in Nat /\ n >= 1 /\ f \in Frame
  BY <1>1, <1>2
<1>4. /\ below \in Seq(Frame) /\ Len(below) = n - 1
      /\ \A i \in 1..(n - 1) : below[i] = frames[i]
  <2>1. below = SubSeq(frames, 1, n - 1)
    BY DEF Front
  <2>2. \A i \in 1..(n - 1) : frames[i] \in Frame
    BY <1>2, <1>3
  <2>3. 1 \in Int /\ n - 1 \in Int /\ (n - 1) - 1 + 1 = n - 1
    BY <1>3
  <2>4. /\ SubSeq(frames, 1, n - 1) \in Seq(Frame)
        /\ Len(SubSeq(frames, 1, n - 1)) = IF 1 <= n - 1 THEN (n - 1) - 1 + 1 ELSE 0
        /\ \A i \in 1..((n - 1) - 1 + 1) : SubSeq(frames, 1, n - 1)[i] = frames[1 + i - 1]
    BY <2>2, <2>3, SubSeqProperties
  <2>. HIDE DEF n, below
  <2>5. Len(below) = n - 1
    BY <1>3, <2>1, <2>4
  <2>6. ASSUME NEW i \in 1..(n - 1) PROVE below[i] = frames[i]
    <3>1. i \in 1..((n - 1) - 1 + 1) /\ 1 + i - 1 = i
      BY <1>3
    <3>. QED  BY <2>1, <2>4, <3>1
  <2>. QED  BY <2>1, <2>4, <2>5, <2>6
<1>5. /\ a \in Attrs /\ f.its \in SUBSET Items /\ f.refs \in [Attrs -> Values \cup {None}]
      /\ Refs[a] \subseteq Attrs
  BY <1>3, Constants DEF Frame
<1>6. \A r \in Refs[a] : f.refs[r] # None
  BY <1>1 DEF Asked, Last
<1>7. v \in Values
  <2>1. [r \in Refs[a] |-> f.refs[r]] \in [Refs[a] -> Values]
    BY <1>5, <1>6
  <2>. QED  BY <1>5, <2>1, PlayerAssumption
<1>. HIDE DEF v, below
<1>8. /\ frames' \in Seq(Frame) /\ Len(frames') = Len(below)
      /\ full' \in Shown /\ full' # None
      /\ full'.inv = full.inv /\ full'.skill = full.skill /\ full'.worn = full.worn
      /\ full'.seen = full.seen
      /\ \A i \in 1..Len(below) :
           /\ frames'[i].attr = below[i].attr /\ frames'[i].its = below[i].its
           /\ \A r \in Attrs : frames'[i].refs[r] = below[i].refs[r]
                              \/ (r = a /\ frames'[i].refs[r] = v)
      /\ \A b \in Attrs : full'.attr[b] = full.attr[b]
                         \/ (b = a /\ below = <<>> /\ full'.attr[b] = v)
  BY <1>1, <1>2, <1>4, <1>5, <1>7, ReturnedIs
<1>9. /\ \A i \in 1..Len(frames') :
           /\ i \in 1..n /\ frames[i].attr \in Attrs
           /\ frames'[i].attr = frames[i].attr /\ frames'[i].its = frames[i].its
           /\ \A r \in Attrs : frames'[i].refs[r] = frames[i].refs[r]
                              \/ (r = a /\ frames'[i].refs[r] = v)
      /\ \A b \in Attrs : full'.attr[b] = full.attr[b]
                         \/ (b = a /\ frames' = <<>> /\ full'.attr[b] = v)
  <2>1. ASSUME NEW i \in 1..Len(frames') PROVE i \in 1..n /\ i \in 1..Len(below)
                /\ below[i] = frames[i] /\ frames[i] \in Frame
    BY <1>2, <1>3, <1>4, <1>8
  <2>2. below = <<>> => frames' = <<>>
    BY <1>8
  <2>. QED  BY <1>8, <2>1, <2>2 DEF Frame
<1>. HIDE DEF f
<1>10. /\ cached' \in [Attrs -> Values \cup {None}] /\ cached'[a] = v /\ v # None
       /\ \A b \in Attrs : b # a => cached'[b] = cached[b]
       /\ \A b \in Attrs : cached[b] # None => cached'[b] # None
  BY <1>1, <1>2, <1>5, <1>7, Constants
<1>. HIDE DEF a
<1>11. /\ Now'.inv = Now.inv /\ Now'.worn = Now.worn /\ Now'.mods = Now.mods
       /\ Now'.stale = stale' /\ Now'.seen = Now.seen /\ Now'.skill = Now.skill
       /\ Now'.dirty = Now.dirty /\ Now'.rec = Now.rec
  BY <1>1 DEF Now
<1>12. Now' \in PlayerType
  <2>1. Now' = [inv |-> inv, worn |-> worn, mods |-> mods, stale |-> stale',
                seen |-> seen, skill |-> skill, dirty |-> dirty, rec |-> rec]
    BY <1>1 DEF Now
  <2>2. /\ inv \in [Items -> Nat] /\ worn \in WornType /\ mods \in [Defs -> Items \cup {None}]
        /\ stale' \subseteq Attrs /\ seen \subseteq Items /\ skill \in SkillType
        /\ dirty \in DirtyType /\ rec \in RecType
    BY <1>1, <1>2, NowFields, PlayerFields
  <2>. QED  BY <2>1, <2>2 DEF PlayerType
<1>13. TypeInv'
  BY <1>1, <1>8, <1>10, <1>12 DEF IInv, TypeInv
<1>14. /\ Saved(Now)' /\ (rows.skill.level = LevelOf(rows.skill.xp))'
       /\ (OneOfAKind => Matched(Now))' /\ LevelTold(Now)'
  BY <1>1, <1>11 DEF IInv, Saved, Matched, LevelTold
<1>15. Conserved'
  BY <1>1 DEF IInv, Conserved, Total
<1>16. Following'
  BY <1>8 DEF Following
<1>17. SnapshotCurrent'
  <2>1. SUFFICES ASSUME ~torn
                 PROVE  /\ full'.inv = inv /\ full'.skill = skill /\ full'.worn = ShownWorn'
                        /\ ShownSeen' \subseteq full'.seen /\ ~Recorded'
                        /\ \A b \in Attrs : full'.attr[b] # None =>
                             b \notin stale' /\ full'.attr[b] = cached'[b]
                        /\ \A i \in 1..Len(frames') : full'.attr[frames'[i].attr] = None
    BY <1>1 DEF SnapshotCurrent
  <2>2. /\ full.inv = inv /\ full.skill = skill /\ full.worn = ShownWorn
        /\ ShownSeen \subseteq full.seen /\ ~Recorded
        /\ \A b \in Attrs : full.attr[b] # None => b \notin stale /\ full.attr[b] = cached[b]
        /\ \A i \in 1..n : full.attr[frames[i].attr] = None
    BY <1>2, <2>1 DEF IInv, SnapshotCurrent
  <2>3. ShownWorn' = ShownWorn /\ ShownSeen' = ShownSeen /\ Recorded' = Recorded
    BY <1>1 DEF ShownWorn, ShownSeen, Recorded
  <2>4. full.attr[a] = None
    BY <1>3, <2>2 DEF a, f
  <2>5. ASSUME NEW b \in Attrs, full'.attr[b] # None
        PROVE  b \notin stale' /\ full'.attr[b] = cached'[b]
    BY <1>1, <1>9, <1>10, <2>2, <2>4, <2>5
  <2>6. ASSUME NEW i \in 1..Len(frames') PROVE full'.attr[frames'[i].attr] = None
    <3>1. frames' # <<>>
      BY <2>6
    <3>. QED  BY <1>9, <2>2, <3>1
  <2>. QED  BY <1>8, <2>2, <2>3, <2>5, <2>6
<1>18. Connected'
  <2>1. \A b \in Attrs : full'.attr[b] # None => cached'[b] # None
    BY <1>2, <1>9, <1>10 DEF IInv, Connected
  <2>. QED  BY <1>1, <1>2, <1>8, <2>1 DEF IInv, Connected
<1>19. ASSUME ~raced PROVE Computing'
  <2>. DEFINE its == MountedItems(mods)
  <2>1. Computing /\ Fresh(Now)
    BY <1>19 DEF IInv, Computing
  <2>2. its \in SUBSET Items
    BY <1>2, NowFields, PlayerFields, MountedType
  <2>. HIDE DEF its
  <2>3. /\ f.its = {it \in its : a \in Touches[it]}
        /\ \A r \in Refs[a] : f.refs[r] = Value(its)[r] /\ r \notin stale /\ cached[r] # None
    BY <2>1, <1>3, <1>5, <1>6 DEF Computing, its, f, a
  <2>4. v = Value(its)[a]
    <3>1. [r \in Refs[a] |-> f.refs[r]] = [r \in Refs[a] |-> Value(its)[r]]
      BY <2>3
    <3>2. Value(its)[a] = Formula(a, {it \in its : a \in Touches[it]}, [r \in Refs[a] |-> Value(its)[r]])
      BY <1>5, <2>2, ValueIs
    <3>. QED  BY <2>3, <3>1, <3>2 DEF v
  <2>5. its' = its
    BY <1>1 DEF its, MountedItems
  <2>6. ASSUME NEW b \in Attrs \ stale', cached'[b] # None
        PROVE  /\ cached'[b] = Value(its)[b]
               /\ \A r \in Refs[b] : r \notin stale' /\ cached'[r] # None
    <3>1. CASE b = a
      BY <3>1, <1>1, <1>5, <1>10, <2>3, <2>4
    <3>2. CASE b # a
      <4>1. b \notin stale /\ cached[b] # None /\ cached'[b] = cached[b]
        BY <2>6, <3>2, <1>1, <1>10
      <4>2. cached[b] = Value(its)[b] /\ \A r \in Refs[b] : r \notin stale /\ cached[r] # None
        BY <4>1, <2>1, NowFields DEF Fresh, its
      <4>3. \A r \in Refs[b] : r \in Attrs
        BY Constants
      <4>. QED  BY <4>1, <4>2, <4>3, <1>1, <1>10
    <3>. QED  BY <3>1, <3>2
  <2>7. Fresh(Now)'
    BY <1>11, <1>1, <2>5, <2>6, NowFields DEF Fresh, its
  <2>8. ASSUME NEW i \in 1..Len(frames')
        PROVE  /\ frames'[i].its = {it \in its : frames'[i].attr \in Touches[it]}
               /\ \A r \in Attrs : frames'[i].refs[r] # None =>
                    /\ frames'[i].refs[r] = Value(its)[r]
                    /\ r \notin stale' /\ cached'[r] # None
    <3>1. /\ frames[i].its = {it \in its : frames[i].attr \in Touches[it]}
          /\ \A r \in Attrs : frames[i].refs[r] # None =>
               /\ frames[i].refs[r] = Value(its)[r]
               /\ r \notin stale /\ cached[r] # None
      BY <1>9, <2>1 DEF Computing, its
    <3>. QED  BY <3>1, <1>1, <1>9, <1>10, <2>4
  <2>. QED  BY <2>5, <2>7, <2>8 DEF Computing, its
<1>. QED  BY <1>1, <1>13, <1>14, <1>15, <1>16, <1>17, <1>18, <1>19 DEF IInv

LEMMA FullSendKeeps ==
  ASSUME IInv, FullSend
  PROVE  IInv'
<1>1. /\ full # None /\ client' = AppliedFull(full) /\ full' = None
      /\ frames = <<>> /\ \A a \in Attrs : full.attr[a] # None
      /\ mods' = mods /\ frames' = frames /\ raced' = raced
      /\ UNCHANGED <<rows, cached>> /\ Now' = Now
      /\ stale' = stale /\ cached' = cached /\ rec' = rec /\ worn' = worn
      /\ inv' = inv /\ seen' = seen /\ skill' = skill
      /\ phase' = phase /\ due' = due /\ torn' = torn /\ commands' = commands /\ crashes' = crashes
  BY DEF FullSend, state, attr, Now
<1>2. Now \in PlayerType /\ full \in Shown /\ rec \in RecType /\ LevelTold(Now)
  BY <1>1, NowFields, PlayerFields DEF IInv, TypeInv
<1>3. /\ client' \in Shown
      /\ client'.inv = full.inv /\ client'.worn = full.worn /\ client'.attr = full.attr
      /\ client'.skill = full.skill /\ full.seen \subseteq client'.seen
  <2>. DEFINE more == {Def[it] : it \in {i \in Items : full.inv[i] > 0}}
  <2>1. more \subseteq Defs
    BY Constants
  <2>2. client' = [full EXCEPT !.seen = @ \cup more]
    BY <1>1 DEF AppliedFull
  <2>. HIDE DEF more
  <2>. QED  BY <1>2, <2>1, <2>2 DEF Shown
<1>4. TypeInv'
  BY <1>1, <1>3, ParametersKept DEF IInv, TypeInv
<1>5. Following'
  <2>1. SUFFICES ASSUME ~torn
                 PROVE  Synced(Now)' /\ \A a \in Attrs \ stale' : client'.attr[a] = cached'[a]
    BY <1>1 DEF Following
  <2>2. /\ full.inv = inv /\ full.skill = skill /\ full.worn = ShownWorn
        /\ ShownSeen \subseteq full.seen /\ \A a \in Attrs : full.attr[a] = cached[a]
        /\ stale = {} /\ ~Recorded
    BY <1>1, <1>2, <2>1, NowFields, PlayerFields DEF IInv, SnapshotCurrent
  <2>3. rec = NoRecord
    BY <1>2, <2>2, NotRecorded
  <2>4. \A s \in Slots : client'.worn[s] = Look(worn'[s])
    BY <1>1, <1>2, <1>3, <2>2, SnapshotIs
  <2>5. \A it \in seen' : Def[it] \in client'.seen
    BY <1>1, <1>3, <2>2 DEF ShownSeen
  <2>6. Synced(Now)'
    BY <1>1, <1>2, <1>3, <2>2, <2>3, <2>4, <2>5, InStep
  <2>. QED  BY <2>6, <2>2, <1>1, <1>3
<1>6. SnapshotCurrent'
  BY <1>1 DEF SnapshotCurrent
<1>7. Connected'
  BY <1>1 DEF IInv, Connected
<1>8. (~raced => Computing)'
  BY <1>1, StillComputing
<1>. QED  BY <1>1, <1>4, <1>5, <1>6, <1>7, <1>8, ParametersKept DEF IInv

LEMMA DisconnectKeeps ==
  ASSUME IInv, Disconnect
  PROVE  IInv'
<1>1. /\ full = None /\ client' = None /\ full' = None /\ frames' = frames /\ raced' = raced
      /\ UNCHANGED <<rows, cached>> /\ Now' = Now
      /\ stale' = stale /\ cached' = cached /\ rec' = rec
      /\ phase' = phase /\ due' = due /\ torn' = torn /\ commands' = commands /\ crashes' = crashes
  BY DEF Disconnect, state, attr, reader, Now
<1>2. TypeInv'
  BY <1>1, ParametersKept DEF IInv, TypeInv
<1>3. Following' /\ SnapshotCurrent' /\ Connected'
  BY <1>1 DEF Following, SnapshotCurrent, Connected, IInv
<1>. QED  BY <1>1, <1>2, <1>3, ParametersKept DEF IInv

LEMMA CrashKeeps ==
  ASSUME IInv, Crash
  PROVE  IInv'
<1>1. /\ phase' = "down" /\ client' = None /\ full' = None /\ crashes' = crashes + 1
      /\ frames' = <<>> /\ raced' = raced
      /\ UNCHANGED <<rows, cached>> /\ Now' = Now
      /\ stale' = stale /\ cached' = cached /\ rec' = rec
      /\ due' = due /\ torn' = torn /\ commands' = commands
  BY DEF Crash, state, attr, Now
<1>2. TypeInv'
  BY <1>1, ParametersKept DEF IInv, TypeInv
<1>3. Following' /\ SnapshotCurrent' /\ Connected'
  BY <1>1 DEF Following, SnapshotCurrent, Connected
<1>. QED  BY <1>1, <1>2, <1>3, ParametersKept DEF IInv

LEMMA PlainIs ==
  ASSUME NEW d \in Defs
  PROVE  Plain(d) \in Items /\ Def[Plain(d)] = d
<1>1. \E it \in Items : Def[it] = d
  BY DEF Defs
<1>. QED  BY <1>1 DEF Plain

\* As long as only one piece of a definition is worn, it is the one whose
\* modifiers are mounted after loading.
LEMMA Replayed ==
  ASSUME NEW w \in WornType, Whole(w)
  PROVE  /\ ReplayedMods(w) \in [Defs -> Items \cup {None}]
         /\ OneOfAKind =>
              /\ \A s \in Slots : w[s] # None => ReplayedMods(w)[Def[w[s].item]] = w[s].item
              /\ \A d \in Defs : ReplayedMods(w)[d] # None =>
                   \E s \in Slots : w[s] # None /\ w[s].item = ReplayedMods(w)[d]
                                    /\ Def[ReplayedMods(w)[d]] = d
<1>. DEFINE its(d) == {w[s].item : s \in {t \in Slots : w[t] # None /\ Def[w[t].item] = d}}
            m == ReplayedMods(w)
<1>1. m = [d \in Defs |-> IF its(d) = {} THEN None ELSE CHOOSE it \in its(d) : TRUE]
  BY DEF ReplayedMods
<1>2. \A d \in Defs : m[d] = IF its(d) = {} THEN None ELSE CHOOSE it \in its(d) : TRUE
  BY <1>1
<1>. HIDE DEF m
<1>3. ASSUME NEW d \in Defs, its(d) # {}
      PROVE  m[d] \in Items /\ \E s \in Slots : w[s] # None /\ w[s].item = m[d] /\ Def[m[d]] = d
  <2>. DEFINE S == its(d)
  <2>1. S # {} /\ m[d] = CHOOSE it \in S : TRUE
    BY <1>2, <1>3
  <2>. HIDE DEF S
  <2>2. m[d] \in S
    BY <2>1
  <2>3. PICK s \in Slots : w[s] # None /\ Def[w[s].item] = d /\ m[d] = w[s].item
    BY <2>2 DEF S
  <2>. QED  BY <2>3, WornAt
<1>4. \A d \in Defs : its(d) = {} => m[d] = None
  BY <1>2
<1>. HIDE DEF its
<1>5. m \in [Defs -> Items \cup {None}]
  <2>1. \A d \in Defs : m[d] \in Items \cup {None}
    BY <1>3, <1>4
  <2>. QED  BY <2>1, <1>1
<1>6. ASSUME NEW d \in Defs, m[d] # None
      PROVE  \E s \in Slots : w[s] # None /\ w[s].item = m[d] /\ Def[m[d]] = d
  BY <1>3, <1>4, <1>6
<1>7. ASSUME OneOfAKind, NEW s \in Slots, w[s] # None PROVE m[Def[w[s].item]] = w[s].item
  <2>. DEFINE d == Def[w[s].item]
  <2>1. d \in Defs /\ w[s].item \in its(d)
    BY <1>7, WornAt DEF its
  <2>2. PICK t \in Slots : w[t] # None /\ w[t].item = m[d] /\ Def[m[d]] = d
    BY <2>1, <1>3
  <2>3. w[t] = w[s]
    BY <1>7, <2>2, OnePiece
  <2>. QED  BY <2>2, <2>3
<1>. QED  BY <1>5, <1>6, <1>7 DEF m

LEMMA LoadKeeps ==
  ASSUME IInv, Load
  PROVE  IInv'
<1>. DEFINE m == ReplayedMods(rows.worn)
            g == {Plain(d) : d \in rows.seen}
            k == UNION {Touches[it] : it \in MountedItems(m)}
            c == [a \in Attrs |-> None]
<1>1. /\ phase = "down" /\ phase' = "idle" /\ rows' = rows
      /\ inv' = rows.inv /\ worn' = rows.worn /\ mods' = m /\ seen' = g /\ skill' = rows.skill
      /\ stale' = Marked({}, k) /\ cached' = c
      /\ dirty' = Clean /\ rec' = NoRecord /\ due' = FALSE
      /\ client' = client /\ full' = full /\ frames' = frames /\ torn' = torn
      /\ raced' = FALSE /\ commands' = commands /\ crashes' = crashes
  BY DEF Load, LoadedInv, LoadedWorn, LoadedSeen, LoadedSkill, reader, Unread
<1>2. client = None /\ full = None /\ frames = <<>>
  BY <1>1 DEF IInv, Connected
<1>3. /\ rows.inv \in [Items -> Nat] /\ rows.worn \in WornType /\ rows.seen \subseteq Defs
      /\ rows.skill \in SkillType /\ Whole(rows.worn)
  BY DEF IInv, TypeInv, RowsType, Conserved
<1>4. m \in [Defs -> Items \cup {None}]
  BY <1>3, Replayed
<1>5. g \subseteq Items /\ \A it \in g : Def[it] \in rows.seen
  BY <1>3, PlainIs
<1>6. Marked({}, k) \subseteq Attrs
  <2>1. k \in SUBSET Attrs
    BY <1>4, MountedType, Constants
  <2>. QED  BY <2>1, MarkedClosed
<1>. HIDE DEF m, g, k
<1>7. /\ Now'.inv = rows.inv /\ Now'.worn = rows.worn /\ Now'.mods = m
      /\ Now'.seen = g /\ Now'.skill = rows.skill /\ Now'.dirty = Clean /\ Now'.rec = NoRecord
  BY <1>1 DEF Now
<1>8. Now' = [inv |-> rows.inv, worn |-> rows.worn, mods |-> m, stale |-> Marked({}, k),
              seen |-> g, skill |-> rows.skill, dirty |-> Clean, rec |-> NoRecord]
  BY <1>1 DEF Now
<1>9. Now' \in PlayerType
  BY <1>3, <1>4, <1>5, <1>6, <1>8, NothingDone DEF PlayerType
<1>10. TypeInv'
  BY <1>1, <1>9 DEF IInv, TypeInv
<1>11. Conserved'
  BY <1>1 DEF IInv, Conserved, Total
<1>12. Saved(Now)' /\ (rows.skill.level = LevelOf(rows.skill.xp))'
  BY <1>1, <1>5, <1>7, NothingDone DEF IInv, Saved
<1>13. (OneOfAKind => Matched(Now))'
  BY <1>3, <1>7, Replayed DEF m, Matched
<1>14. LevelTold(Now)' /\ Computing'
  BY <1>1, <1>2, <1>7, NothingDone DEF LevelTold, Fresh, Computing
<1>15. Connected' /\ Following' /\ SnapshotCurrent'
  BY <1>1, <1>2 DEF Connected, Following, SnapshotCurrent
<1>. QED  BY <1>10, <1>11, <1>12, <1>13, <1>14, <1>15 DEF IInv

-----------------------------------------------------------------------------
(* Theorems                                                                *)

\* Every step of the model keeps the inductive invariant: commands and
\* settlement, diffs, Flush, connections, crashes and loading.
LEMMA NextKeeps ==
  ASSUME IInv, [Next]_vars
  PROVE  IInv'
<1>1. CASE TickBegins
  BY <1>1, TickBeginsKeeps
<1>2. CASE CommandsEnd
  <2>1. phase \in {"commands", "settle"} /\ Pushed /\ phase' \in {"settle", "flush", "idle"}
        /\ due' \in BOOLEAN
    BY <1>2 DEF CommandsEnd, Recorded
  <2>. QED  BY <2>1, PushedKeeps
<1>3. CASE SettleEnds
  <2>1. phase \in {"commands", "settle"} /\ Pushed /\ phase' \in {"settle", "flush", "idle"}
        /\ due' \in BOOLEAN
    BY <1>3 DEF SettleEnds
  <2>. QED  BY <2>1, PushedKeeps
<1>4. CASE SettlePanics
  BY <1>4, SettlePanicsKeeps
<1>5. CASE Flush
  BY <1>5, FlushKeeps
<1>6. CASE \E it \in Items, s \in Slots : Equip(it, s)
  BY <1>6, EquipKeeps
<1>7. CASE \E s \in Slots : Unequip(s)
  BY <1>7, UnequipKeeps
<1>8. CASE \E r \in Recipes : Exchange(r[1], r[2])
  <2>1. PICK r \in Recipes : Exchange(r[1], r[2])
    BY <1>8
  <2>2. r[1] \in Items /\ r[2] \in Items
    BY PlayerAssumption
  <2>. QED  BY <2>1, <2>2, ExchangeKeeps
<1>9. CASE \E n \in 1..MaxXP : GainXP(n)
  BY <1>9, GainXPKeeps
<1>10. CASE FullRead
  BY <1>10, FullReadKeeps
<1>16. CASE \E a \in Attrs : CacheHit(a) \/ Recompute(a)
  BY <1>16, CacheHitKeeps, RecomputeKeeps
<1>17. CASE WriteBack
  BY <1>17, WriteBackKeeps
<1>11. CASE FullSend
  BY <1>11, FullSendKeeps
<1>12. CASE Disconnect
  BY <1>12, DisconnectKeeps
<1>13. CASE Crash
  BY <1>13, CrashKeeps
<1>14. CASE Load
  BY <1>14, LoadKeeps
<1>15. CASE UNCHANGED vars
  BY <1>15, StutterKeeps
<1>. QED
  BY <1>1, <1>2, <1>3, <1>4, <1>5, <1>6, <1>7, <1>8, <1>9, <1>10, <1>11, <1>12, <1>13,
     <1>14, <1>15, <1>16, <1>17 DEF Next

\* The inductive invariant holds in every state the program can be in.
THEOREM Invariant == Spec => []IInv
<1>1. IInv /\ [Next]_vars => IInv'
  BY NextKeeps
<1>. QED  BY <1>1, InitInvariant, PTL DEF Spec

\* Quantities never become negative, what is worn and mounted exists, and a
\* client shows states of a player only: type correctness.
THEOREM TypeCorrect == Spec => []TypeInv
<1>1. IInv => TypeInv
  BY DEF IInv
<1>. QED  BY <1>1, Invariant, PTL

\* Putting on, changing and taking off loses and doubles no item, in memory
\* and in the database, whatever is worn and whatever fails midway.
THEOREM Conservation == Spec => []ItemsConserved
<1>1. IInv => ItemsConserved
  BY DEF IInv, Conserved, ItemsConserved, Total
<1>. QED  BY <1>1, Invariant, PTL

\* What no mark tells Flush to write is in the database as it is in memory,
\* and a level is the one that the experience stands for.
THEOREM NothingUnmarked == Spec => []MarksCoverChanges
<1>1. ASSUME IInv PROVE MarksCoverChanges
  <2>1. Saved(Now) /\ rows.skill.level = LevelOf(rows.skill.xp)
    BY <1>1 DEF IInv
  <2>2. /\ \A it \in Items \ dirty.inv : rows.inv[it] = inv[it]
        /\ \A s \in dirty.gone : worn[s] = None /\ s \notin dirty.worn
        /\ \A s \in Slots \ (dirty.worn \cup dirty.gone) : rows.worn[s] = worn[s]
        /\ \A it \in seen \ dirty.seen : Def[it] \in rows.seen
        /\ ~dirty.skill => rows.skill = skill
        /\ skill.level = LevelOf(skill.xp)
    BY <2>1, NowFields DEF Saved
  <2>. QED  BY <2>1, <2>2 DEF MarksCoverChanges
<1>. QED  BY <1>1, Invariant, PTL

LEMMA WorthIs ==
  ASSUME IInv, OneOfAKind
  PROVE  Worth = Value(MountedItems(mods))
<1>1. Now \in PlayerType /\ Matched(Now)
  BY DEF IInv, TypeInv
<1>2. MountedItems(mods) = WornItems(worn)
  BY <1>1, NowFields, MatchedItems
<1>. QED  BY <1>2 DEF Worth, Value, Nothing

\* No clean value in the cache is out of date, directly or through the
\* attributes it depends on, for any formulas that refer to one another
\* without a cycle: getFinal may trust the cache, and markDirty may stop at an
\* attribute that is dirty already.
THEOREM CacheCurrent == Spec => []CacheIsCurrent
<1>1. IInv => CacheIsCurrent
  BY WorthIs, NowFields DEF IInv, Computing, Fresh, CacheIsCurrent
<1>. QED  BY <1>1, Invariant, PTL

\* Between ticks a client that has put together a snapshot and the diffs since
\* shows what the server has.
THEOREM ClientCurrent == Spec => []ClientUpToDate
<1>1. ASSUME IInv PROVE ClientUpToDate
  <2>1. SUFFICES ASSUME OneOfAKind, phase \in {"idle", "flush"}, client # None, full = None, ~torn
                 PROVE  /\ client.inv = inv /\ client.skill = skill /\ client.worn = ShownWorn
                        /\ ~raced => \A a \in Attrs : client.attr[a] = Worth[a]
                        /\ ShownSeen \subseteq client.seen
    BY DEF ClientUpToDate
  <2>2. /\ Synced(Now) /\ \A a \in Attrs \ stale : client.attr[a] = cached[a]
        /\ rec = NoRecord /\ \A a \in Attrs : cached[a] # None
    BY <1>1, <2>1 DEF IInv, Following, Connected
  <2>3. /\ Now \in PlayerType /\ inv \in [Items -> Nat] /\ skill \in SkillType /\ seen \subseteq Items
    BY <1>1, NowFields, PlayerFields DEF IInv, TypeInv
  <2>4. /\ client \in Shown
        /\ \A it \in Items : client.inv[it] + 0 = inv[it]
        /\ \A s \in Slots : Told(client.worn[s], "none", worn[s])
        /\ \A it \in seen : Def[it] \in client.seen
        /\ client.skill.xp + 0 = skill.xp /\ client.skill.level = skill.level
        /\ stale = {}
    BY <2>2, NowFields, NothingDone DEF Synced
  <2>5. client.inv \in [Items -> Nat] /\ client.skill \in SkillType
        /\ client.worn \in [Slots -> Defs \cup {None}]
    BY <2>4 DEF Shown, SkillType
  <2>6. client.inv = inv
    BY <2>3, <2>4, <2>5
  <2>7. client.skill = skill
    BY <2>3, <2>4, <2>5 DEF SkillType
  <2>8. client.worn = ShownWorn
    <3>1. \A s \in Slots : client.worn[s] = ShownWorn[s]
      BY <2>3, <2>4, SnapshotIs DEF Told
    <3>. QED  BY <3>1, <2>3, <2>5, SnapshotIs
  <2>9. ~raced => \A a \in Attrs : client.attr[a] = Worth[a]
    BY <1>1, <2>1, <2>2, <2>4, WorthIs, NowFields DEF IInv, Computing, Fresh
  <2>10. ShownSeen \subseteq client.seen
    BY <2>4 DEF ShownSeen
  <2>. QED  BY <2>6, <2>7, <2>8, <2>9, <2>10
<1>. QED  BY <1>1, Invariant, PTL
=============================================================================
