----------------------------- MODULE PlayerState -----------------------------
(***************************************************************************)
(* What one player has and what is derived from it: the inventory, the     *)
(* worn equipment, the attributes with their modifiers and cache, the      *)
(* bestiary and a skill (packages inventory, equipment, attribute,         *)
(* bestiary and skill, put together by session/session.go); the records of *)
(* one tick, which become the diff a client is sent (record, the buckets); *)
(* what the client makes of it (stores/game.ts); and the marks by which    *)
(* the state gets into the database and back.                              *)
(*                                                                         *)
(* The commands of a tick run under the session's lock and are atomic, as  *)
(* is the diff after them.  SendFullState takes no lock: it computes one   *)
(* attribute after the other while ticks go on, and getFinal reads the     *)
(* modifiers at its beginning and writes cache and mark at its end.  The   *)
(* runtime may also end the process when both are in one map: a Crash.     *)
(* A flush is one transaction here; how it fails and interleaves is in     *)
(* TickFlush.                                                              *)
(***************************************************************************)
EXTENDS Integers, FiniteSets, FiniteSetsExt, Functions, SequencesExt

CONSTANTS
  Items,      \* item identities: a definition in a state of enhancement
  Def,        \* Def[it]: its definition
  Needs,      \* Needs[d]: how many slots of which base the definition takes
  Count,      \* Count[b]: instances of slots of base b
  Owned,      \* Owned[it]: how many the player has at first
  Attrs,
  Id,         \* Id[a]: its numeric id, the order in which snapshots list them
  Values,     \* of attributes
  Refs,       \* Refs[a]: attributes that static modifiers of a refer to
  Touches,    \* Touches[it]: attributes that modifiers of the item are for
  Formula(_, _, _), \* value of an attribute, from the items that touch it and its Refs
  Recipes,    \* pairs of items: an event takes the first and gives the second
  Curve,      \* level curve: experience needed for level 1, 2, ...
  MaxXP, MaxCommands, MaxCrashes, \* bounds
  None

Defs  == {Def[it] : it \in Items}
Bases == DOMAIN Count

\* buildSlotInstances: the slots of every base, in order.
Slots == UNION {{b} \X (1..Count[b]) : b \in Bases}

\* An entry of the equipment: what is worn and the slot that was clicked for it.
Piece == [item : Items, anchor : Slots]

\* What a client shows of the player.
Shown == [inv : [Items -> Nat], worn : [Slots -> Defs \cup {None}],
          attr : [Attrs -> Values \cup {None}], seen : SUBSET Defs,
          skill : [level : Nat, xp : Nat]]

\* checkCycles: attributes can be ordered so that each refers to earlier ones.
Acyclic ==
  \E rank \in [Attrs -> 1..Cardinality(Attrs)] :
    \A a \in Attrs : \A r \in Refs[a] : rank[r] < rank[a]

\* LoadLevelCurve: nothing for the first level, then ever more.
IsCurve(c) ==
  c \in Seq(Nat) /\ Len(c) > 0 /\ c[1] = 0 /\ \A i \in 1..(Len(c) - 1) : c[i] < c[i + 1]

ASSUME PlayerAssumption ==
  /\ Def \in [Items -> Defs]
  /\ \A d \in Defs : DOMAIN Needs[d] \subseteq Bases /\ Needs[d] \in [DOMAIN Needs[d] -> Nat \ {0}]
  /\ Count \in [Bases -> Nat \ {0}]
  /\ Owned \in [Items -> Nat]
  /\ Id \in [Attrs -> Nat]
  /\ Refs \in [Attrs -> SUBSET Attrs] /\ Acyclic
  /\ Touches \in [Items -> SUBSET Attrs]
  /\ \A a \in Attrs : \A its \in SUBSET Items, refs \in [Refs[a] -> Values] :
       Formula(a, its, refs) \in Values
  /\ Recipes \subseteq Items \X Items
  /\ IsCurve(Curve)
  /\ {MaxXP, MaxCommands, MaxCrashes} \subseteq Nat
  /\ IsFiniteSet(Items) /\ IsFiniteSet(Bases) /\ IsFiniteSet(Attrs)
  /\ {"none", "unequip"} \cap Items = {}
  /\ None \notin Items /\ None \notin Values /\ None \notin Nat
  /\ None \notin Piece /\ None \notin Shown

VARIABLES
  inv,     \* inv[it]: quantity
  worn,    \* worn[s]: item and anchor, or None
  mods,    \* mods[d]: the item whose modifiers are mounted for "equipment:d"
  stale,   \* attributes marked dirty in the instance
  cached,  \* cached[a]: value, or None
  seen,    \* items discovered
  skill,   \* level and xp
  dirty,   \* marks for Flush: inv, worn, gone, seen, skill
  rows,    \* the database: inv, worn, seen, skill
  rec,     \* the recorder's buckets: attr, inv, worn, seen, skill
  phase,   \* idle, commands, settle, flush, or down
  due,     \* the commands of this tick have changed something
  client,  \* what the client shows, or None without a connection
  full,    \* what SendFullState has read and not yet sent, or None
  frames,  \* its calls of getFinal that have not returned, the innermost last
  torn,    \* the snapshot, or the last one sent, overlapped a tick
  raced,   \* since loading, modifiers changed under a call of getFinal
  commands, crashes

attr  == <<mods, stale, cached>>
state == <<inv, worn, attr, seen, skill, dirty>>
reader == <<full, frames>>
vars  == <<state, rows, rec, phase, due, client, reader, torn, raced, commands, crashes>>

-----------------------------------------------------------------------------
(* Skills                                                                  *)

\* LevelCurve.Level
LevelOf(xp) == Cardinality({i \in DOMAIN Curve : Curve[i] <= xp})

\* nextLevel: Curve[l + 1] is what level l + 1 takes.
NextLevel(old, xp) ==
  Min({l \in old..Len(Curve) : l = Len(Curve) \/ xp < Curve[l + 1]})

-----------------------------------------------------------------------------
(* Attributes                                                              *)

\* What getFinal need not compute: values in the cache that are not dirty.
Known == [a \in Attrs |-> IF a \in stale THEN None ELSE cached[a]]

\* Value of a from the values v of others: known, or by its formula.
Valued(v, known, its, a) ==
  IF known[a] # None THEN known[a]
  ELSE Formula(a, {it \in its : a \in Touches[it]}, [r \in Refs[a] |-> v[r]])

Evaluated(known, its) ==
  LET value[a \in Attrs] == Valued(value, known, its, a) IN value

MountedItems(m) == {m[d] : d \in Defs} \ {None}

\* getFinal of every attribute, when nothing comes between.
Final == Evaluated(Known, MountedItems(mods))

\* What can be reached from a set of attributes along the edges of next.
Reach(from, next) ==
  {a \in Attrs : \A M \in SUBSET Attrs :
     from \subseteq M /\ (\A b \in M : next[b] \subseteq M) => a \in M}

\* getFinal of a set computes what is not known, and first what that refers to.
Computed(as) ==
  Reach({a \in as : Known[a] = None},
        [a \in Attrs |-> {r \in Refs[a] : Known[r] = None}])

\* GetFinal of all attributes of a set.
Reading(as) ==
  /\ stale' = stale \ Computed(as)
  /\ cached' = [a \in Attrs |-> IF a \in Computed(as) THEN Final[a] ELSE cached[a]]

\* Mutant: the attributes that depend on a marked one are forgotten.
MarkedAlone(old, as) == old \cup as

\* markDirty, of each of a set: it stops at an attribute that is dirty already.
Marked(old, as) ==
  old \cup Reach(as \ old, [a \in Attrs |-> {c \in Attrs \ old : a \in Refs[c]}])

-----------------------------------------------------------------------------
(* The state of the player as one record, for the commands                 *)

Now == [inv |-> inv, worn |-> worn, mods |-> mods, stale |-> stale, seen |-> seen,
        skill |-> skill, dirty |-> dirty, rec |-> rec]

\* Mutant: the bucket keeps the last change of a stack instead of the sum.
RecordedStackLast(r, it, n) == [r EXCEPT !.inv[it] = n]

\* The buckets of a recorder: changes of a stack and experience are summed up,
\* of a slot and a level the last one counts, unlocked entries are collected.
RecordedStack(r, it, n) == [r EXCEPT !.inv[it] = @ + n]
RecordedSlots(r, ss, action) ==
  [r EXCEPT !.worn = [s \in Slots |-> IF s \in ss THEN action ELSE @[s]]]
RecordedUnlock(r, it) == [r EXCEPT !.seen = @ \cup {Def[it]}]
RecordedXP(r, xp, level) == [r EXCEPT !.skill = level, !.xp = @ + xp]

\* inventory.State.add
Added(p, it, n) ==
  [p EXCEPT !.inv[it] = @ + n, !.dirty.inv = @ \cup {it}, !.rec = RecordedStack(@, it, n)]

\* bestiary.State.UnlockItem
Unlocked(p, it) ==
  IF it \in p.seen THEN p
  ELSE [p EXCEPT !.seen = @ \cup {it}, !.dirty.seen = @ \cup {it},
                 !.rec = RecordedUnlock(@, it)]

\* markDirty with the recorder: only what was clean is recorded.
Noted(p, as) ==
  LET marked == Marked(p.stale, as)
  IN [p EXCEPT !.stale = marked, !.rec.attr = @ \cup (marked \ p.stale)]

\* RemoveModifiers
Removed(p, d) ==
  IF p.mods[d] = None THEN p
  ELSE [Noted(p, Touches[p.mods[d]]) EXCEPT !.mods[d] = None]

\* AddModifiers: what the source had before is replaced.
Mounted(p, it) ==
  [Noted(Removed(p, Def[it]), Touches[it]) EXCEPT !.mods[Def[it]] = it]

\* Mutant: a slot that is filled again keeps its mark for deletion.
PutStill(p, ss, it, anchor) ==
  [p EXCEPT !.worn = [s \in Slots |-> IF s \in ss THEN [item |-> it, anchor |-> anchor] ELSE @[s]],
            !.dirty.worn = @ \cup ss,
            !.rec = RecordedSlots(@, ss, it)]

\* equipment.State.Equip, for all slots of a piece.
Put(p, ss, it, anchor) ==
  [p EXCEPT !.worn = [s \in Slots |-> IF s \in ss THEN [item |-> it, anchor |-> anchor] ELSE @[s]],
            !.dirty.worn = @ \cup ss, !.dirty.gone = @ \ ss,
            !.rec = RecordedSlots(@, ss, it)]

PieceAt(w, anchor) == {s \in Slots : w[s] # None /\ w[s].anchor = anchor}

\* unequipByAnchor, and UnequipByAnchor of the equipment.
TakenOff(p, anchor) ==
  LET ss == PieceAt(p.worn, anchor)
      it == p.worn[anchor].item
      off == [p EXCEPT !.worn = [s \in Slots |-> IF s \in ss THEN None ELSE @[s]],
                       !.dirty.worn = @ \ ss, !.dirty.gone = @ \cup ss,
                       !.rec = RecordedSlots(@, ss, "unequip")]
  IN Unlocked(Added(Removed(off, Def[it]), it, 1), it)

\* The first n of the free slots of a base that chooseTargetSlots comes to.
FirstFree(free, n) ==
  {s \in free : Cardinality({t \in free : t[2] < s[2]}) < n}

\* chooseTargetSlots: the clicked slot and then the first free ones.
TargetSlots(p, d, clicked) ==
  LET Free(b) == {s \in Slots : s[1] = b /\ p.worn[s] = None}
      Chosen(b) == IF b = clicked[1]
                   THEN {clicked} \cup FirstFree(Free(b) \ {clicked}, Needs[d][b] - 1)
                   ELSE FirstFree(Free(b), Needs[d][b])
  IN [b \in DOMAIN Needs[d] |-> Chosen(b)]

Enough(d, targets) == \A b \in DOMAIN Needs[d] : Cardinality(targets[b]) = Needs[d][b]

\* Mutant: the item leaves the inventory before the slots are chosen.
EquippedEarly(p, it, clicked) ==
  LET d == Def[it]
      freed == IF p.worn[clicked] = None THEN p ELSE TakenOff(p, p.worn[clicked].anchor)
      paid == Added(freed, it, -1)
      targets == TargetSlots(freed, d, clicked)
  IN IF ~Enough(d, targets) THEN paid
     ELSE Put(Mounted(paid, it), UNION Range(targets), it, clicked)

\* PlayerSession.Equip, once item and slot are found to fit: what is in the
\* way in the clicked slot is taken off even if the piece does not fit after.
Equipped(p, it, clicked) ==
  LET d == Def[it]
      freed == IF p.worn[clicked] = None THEN p ELSE TakenOff(p, p.worn[clicked].anchor)
      targets == TargetSlots(freed, d, clicked)
  IN IF ~Enough(d, targets) THEN freed
     ELSE Put(Mounted(Added(freed, it, -1), it), UNION Range(targets), it, clicked)

-----------------------------------------------------------------------------
(* A tick: commands and settlement, then the diff, then the flush          *)

NoRecord == [attr |-> {}, inv |-> [it \in Items |-> 0], worn |-> [s \in Slots |-> "none"],
             seen |-> {}, skill |-> None, xp |-> 0]
Clean == [inv |-> {}, worn |-> {}, gone |-> {}, seen |-> {}, skill |-> FALSE]

\* runTick takes the lock; the commands have a recorder of their own.
TickBegins ==
  /\ phase = "idle" /\ commands < MaxCommands
  /\ phase' = "commands"
  /\ due' = FALSE /\ rec' = NoRecord
  /\ UNCHANGED <<state, rows, client, reader, torn, raced, commands, crashes>>

Becomes(p) ==
  /\ commands < MaxCommands
  /\ inv' = p.inv /\ worn' = p.worn /\ mods' = p.mods /\ stale' = p.stale
  /\ seen' = p.seen /\ skill' = p.skill /\ dirty' = p.dirty /\ rec' = p.rec
  /\ commands' = commands + 1
  /\ torn' = (torn \/ full # None)
  /\ UNCHANGED <<cached, rows, phase, due, client, reader, crashes>>

\* AddModifiers and RemoveModifiers, perhaps under a call of getFinal.
Remounts == raced' = (raced \/ frames # <<>>)

\* positionRequirements name the base of the slot.
Fits(it, slot) == slot[1] \in DOMAIN Needs[Def[it]]

Equip(it, slot) ==
  /\ phase = "commands"
  /\ inv[it] >= 1 /\ Fits(it, slot)
  /\ Becomes(Equipped(Now, it, slot))
  /\ Remounts

Unequip(slot) ==
  /\ phase = "commands"
  /\ worn[slot] # None
  /\ Becomes(TakenOff(Now, worn[slot].anchor))
  /\ Remounts

\* SettlementCtx of a session: an event takes an item and gives another.
Exchange(from, to) ==
  /\ phase = "settle"
  /\ inv[from] >= 1
  /\ Becomes(Unlocked(Added(Added(Now, from, -1), to, 1), to))
  /\ UNCHANGED raced

\* AddXP
GainXP(n) ==
  /\ phase = "settle"
  /\ skill.xp + n <= MaxXP
  /\ LET level == NextLevel(skill.level, skill.xp + n)
     IN Becomes([Now EXCEPT !.skill = [level |-> level, xp |-> @.xp + n],
                            !.dirty.skill = TRUE,
                            !.rec = RecordedXP(@, n, level)])
  /\ UNCHANGED raced

\* isStateDiffEmpty
Recorded ==
  \/ rec.attr # {} \/ rec.seen # {} \/ rec.skill # None
  \/ \E it \in Items : rec.inv[it] # 0
  \/ \E s \in Slots : rec.worn[s] # "none"

\* applyStateDiff
Applied(c, values) ==
  [inv   |-> [it \in Items |-> Max({0, c.inv[it] + rec.inv[it]})],
   worn  |-> [s \in Slots |-> CASE rec.worn[s] = "none" -> c.worn[s]
                                [] rec.worn[s] = "unequip" -> None
                                [] OTHER -> Def[rec.worn[s]]],
   attr  |-> [a \in Attrs |-> IF a \in rec.attr THEN values[a] ELSE c.attr[a]],
   seen  |-> c.seen \cup rec.seen \cup {Def[it] : it \in {i \in Items : rec.inv[i] > 0}},
   skill |-> [level |-> IF rec.skill = None THEN c.skill.level ELSE rec.skill,
              xp |-> c.skill.xp + rec.xp]]

\* BuildDiff: the values of the recorded attributes are computed, and cleaned,
\* whether or not somebody is there to receive them.
Pushed ==
  /\ Reading(rec.attr)
  /\ client' = IF client # None /\ Recorded THEN Applied(client, Final) ELSE client
  /\ torn' = (torn \/ (full # None /\ Recorded))
  /\ rec' = NoRecord
  /\ UNCHANGED <<inv, worn, mods, seen, skill, dirty, rows, reader, raced, commands, crashes>>

CommandsEnd ==
  /\ phase = "commands"
  /\ phase' = "settle"
  /\ due' = Recorded
  /\ Pushed

SettleEnds ==
  /\ phase = "settle"
  /\ phase' = IF due \/ Recorded THEN "flush" ELSE "idle"
  /\ due' = FALSE
  /\ Pushed

\* The settlement panics: what it has done stays, its diff is lost and does
\* not make the session dirty.
SettlePanics ==
  /\ phase = "settle"
  /\ phase' = IF due THEN "flush" ELSE "idle"
  /\ due' = FALSE
  /\ rec' = NoRecord
  /\ torn' = (torn \/ (Recorded /\ client # None))
  /\ UNCHANGED <<state, rows, client, reader, raced, commands, crashes>>

\* Flush of the parts: rows are written for marked entries only, and those of
\* empty slots deleted after the others are written.
FlushedInv == [it \in Items |-> IF it \in dirty.inv THEN inv[it] ELSE rows.inv[it]]

FlushedWorn ==
  [s \in Slots |-> IF s \in dirty.gone THEN None
                   ELSE IF s \in dirty.worn THEN worn[s] ELSE rows.worn[s]]

FlushedSeen == rows.seen \cup {Def[it] : it \in dirty.seen}

FlushedSkill == IF dirty.skill THEN skill ELSE rows.skill

Flush ==
  /\ phase = "flush"
  /\ phase' = "idle"
  /\ rows' = [inv |-> FlushedInv, worn |-> FlushedWorn, seen |-> FlushedSeen, skill |-> FlushedSkill]
  /\ dirty' = Clean
  /\ UNCHANGED <<inv, worn, attr, seen, skill, rec, due, client, reader, torn, raced,
                 commands, crashes>>

-----------------------------------------------------------------------------
(* Connections, crashes and loading                                        *)

\* The client's values before the first snapshot do not matter.
Unknown == [inv |-> [it \in Items |-> 0], worn |-> [s \in Slots |-> None],
            attr |-> [a \in Attrs |-> None], seen |-> {}, skill |-> [level |-> 1, xp |-> 0]]

\* SerializeFull of the inventory, the equipment and the bestiary.
ShownInv == [it \in Items |-> Max({0, inv[it]})]
ShownWorn == [s \in Slots |-> IF worn[s] = None THEN None ELSE Def[worn[s].item]]
ShownSeen == {Def[it] : it \in seen}

\* applyStateFull: what there is a stack of counts as discovered.
AppliedFull(m) == [m EXCEPT !.seen = @ \cup {Def[it] : it \in {i \in Items : m.inv[i] > 0}}]

Unread == [a \in Attrs |-> None]

\* AttachConn, then SendFullState begins: the other subsystems are read, and
\* of the attributes nothing yet.
FullRead ==
  /\ phase # "down" /\ full = None
  /\ client' = IF client = None THEN Unknown ELSE client
  /\ full' = [inv |-> ShownInv, worn |-> ShownWorn, attr |-> Unread, seen |-> ShownSeen,
              skill |-> skill]
  /\ torn' = (phase # "idle" /\ Recorded)
  /\ UNCHANGED <<state, rows, rec, frames, phase, due, raced, commands, crashes>>

\* What SendFullState asks for next: the first attribute it has not read yet;
\* in a call of getFinal, one that a modifier refers to.
Asked ==
  IF frames = <<>>
  THEN {a \in Attrs : full # None /\ full.attr[a] = None
                      /\ \A b \in Attrs : Id[b] < Id[a] => full.attr[b] # None}
  ELSE {r \in Refs[Last(frames).attr] : Last(frames).refs[r] = None}

\* The value of a goes to the caller, which the calls below it are.
Returned(a, value, below) ==
  IF below = <<>> THEN frames' = <<>> /\ full' = [full EXCEPT !.attr[a] = value]
  ELSE frames' = [below EXCEPT ![Len(below)].refs[a] = value] /\ UNCHANGED full

\* getFinal returns a value from the cache ...
CacheHit(a) ==
  /\ a \in Asked /\ Known[a] # None
  /\ Returned(a, cached[a], frames)
  /\ UNCHANGED <<state, rows, rec, phase, due, client, torn, raced, commands, crashes>>

\* ... or takes the modifiers of the attribute ...
Recompute(a) ==
  /\ a \in Asked /\ Known[a] = None
  /\ frames' = Append(frames, [attr |-> a, refs |-> Unread,
                               its |-> {it \in MountedItems(mods) : a \in Touches[it]}])
  /\ UNCHANGED <<state, rows, rec, phase, due, client, full, torn, raced, commands, crashes>>

\* ... and, when it has the values they refer to, computes, caches and returns.
WriteBack ==
  /\ frames # <<>> /\ Asked = {}
  /\ LET f == Last(frames)
         value == Formula(f.attr, f.its, [r \in Refs[f.attr] |-> f.refs[r]])
     IN /\ cached' = [cached EXCEPT ![f.attr] = value]
        /\ stale' = stale \ {f.attr}
        /\ Returned(f.attr, value, Front(frames))
  /\ UNCHANGED <<inv, worn, mods, seen, skill, dirty, rows, rec, phase, due, client, torn,
                 raced, commands, crashes>>

\* The snapshot is sent.
FullSend ==
  /\ full # None /\ frames = <<>> /\ \A a \in Attrs : full.attr[a] # None
  /\ client' = AppliedFull(full)
  /\ full' = None
  /\ UNCHANGED <<state, rows, rec, frames, phase, due, torn, raced, commands, crashes>>

Disconnect ==
  /\ client # None /\ full = None
  /\ client' = None
  /\ UNCHANGED <<state, rows, rec, phase, due, reader, torn, raced, commands, crashes>>

\* The process ends at any moment.
Crash ==
  /\ phase # "down" /\ crashes < MaxCrashes
  /\ phase' = "down"
  /\ crashes' = crashes + 1
  /\ client' = None /\ full' = None /\ frames' = <<>>
  /\ UNCHANGED <<state, rows, rec, due, torn, raced, commands>>

\* SetEquipment: the modifiers of every piece are mounted again.
ReplayedMods(w) ==
  [d \in Defs |->
    LET its == {w[s].item : s \in {t \in Slots : w[t] # None /\ Def[w[t].item] = d}}
    IN IF its = {} THEN None ELSE CHOOSE it \in its : TRUE]

\* LoadDiscoveredItems knows the item only, in its first state.
Plain(d) == CHOOSE it \in Items : Def[it] = d

\* The Load of each subsystem: its rows, with nothing marked.
LoadedInv   == inv' = rows.inv
LoadedWorn  == worn' = rows.worn /\ mods' = ReplayedMods(rows.worn)
LoadedSeen  == seen' = {Plain(d) : d \in rows.seen}
LoadedSkill == skill' = rows.skill

\* CreateSession
Load ==
  /\ phase = "down"
  /\ phase' = "idle"
  /\ LoadedInv /\ LoadedWorn /\ LoadedSeen /\ LoadedSkill
  /\ stale' = Marked({}, UNION {Touches[it] : it \in MountedItems(ReplayedMods(rows.worn))})
  /\ cached' = Unread
  /\ dirty' = Clean /\ rec' = NoRecord
  /\ due' = FALSE /\ raced' = FALSE
  /\ UNCHANGED <<rows, client, reader, torn, commands, crashes>>

\* A player whom playerinit has set up and who has got a few items since.
Init ==
  /\ rows = [inv |-> Owned, worn |-> [s \in Slots |-> None], seen |-> {},
             skill |-> [level |-> 1, xp |-> Curve[1]]]
  /\ inv = Owned /\ worn = rows.worn /\ seen = {} /\ skill = rows.skill
  /\ mods = [d \in Defs |-> None]
  /\ stale = {} /\ cached = Unread
  /\ dirty = Clean /\ rec = NoRecord
  /\ phase = "idle" /\ due = FALSE /\ client = None
  /\ full = None /\ frames = <<>> /\ torn = FALSE /\ raced = FALSE
  /\ commands = 0 /\ crashes = 0

Next ==
  \/ TickBegins \/ CommandsEnd \/ SettleEnds \/ SettlePanics \/ Flush
  \/ \E it \in Items, s \in Slots : Equip(it, s)
  \/ \E s \in Slots : Unequip(s)
  \/ \E r \in Recipes : Exchange(r[1], r[2])
  \/ \E n \in 1..MaxXP : GainXP(n)
  \/ FullRead \/ WriteBack \/ FullSend \/ Disconnect
  \/ \E a \in Attrs : CacheHit(a) \/ Recompute(a)
  \/ Crash \/ Load

Spec == Init /\ [][Next]_vars

-----------------------------------------------------------------------------
(* Properties                                                              *)

\* What the worn pieces make of each attribute, computed from scratch.
WornItems(w) == {w[s].item : s \in {t \in Slots : w[t] # None}}
Worth == Evaluated([a \in Attrs |-> None], WornItems(worn))

\* Pieces by the slot that was clicked for them.
Anchors(w) == {s \in Slots : w[s] # None /\ w[s].anchor = s}

Holdings(i, w) == SumFunction(i) + Cardinality(Anchors(w))

\* Of a piece that is worn the slots it needs are filled and no other.
Whole(w) ==
  \A s \in {t \in Slots : w[t] # None} :
    LET piece == PieceAt(w, w[s].anchor)
    IN /\ w[s].anchor \in piece
       /\ \A t \in piece : w[t] = w[s]
       /\ \A b \in Bases : Cardinality({t \in piece : t[1] = b}) =
            IF b \in DOMAIN Needs[Def[w[s].item]] THEN Needs[Def[w[s].item]][b] ELSE 0

\* Every item is in the inventory or worn as one piece, of which the slots it
\* needs are filled and no other: putting on, changing and taking off loses
\* and doubles nothing, in memory and in the database, whatever fails midway.
ItemsConserved ==
  /\ phase # "down" => Holdings(inv, worn) = Holdings(Owned, [s \in Slots |-> None])
  /\ Holdings(rows.inv, rows.worn) = Holdings(Owned, [s \in Slots |-> None])
  /\ Whole(worn) /\ Whole(rows.worn)

\* There are not slots enough to wear two pieces of the same definition.
OneOfAKind ==
  \A d \in Defs : \E b \in DOMAIN Needs[d] : Count[b] < 2 * Needs[d][b]

\* A cached attribute is worth what the worn pieces make it, directly and
\* through the attributes it depends on: markDirty stops at a dirty attribute,
\* and still no clean value is out of date, wherever in its walk through the
\* attributes SendFullState is when pieces are put on and taken off, and
\* whichever of them the diffs compute meanwhile.  It is kept from that only
\* when it happens under a call of getFinal, between its reading of the
\* modifiers and its writing of cache and mark (raced): then the old value may
\* stay in the cache as clean.  Pieces of the same definition share one source
\* of modifiers, which goes with the first that is taken off; where there are
\* not slots enough for two of them (OneOfAKind), they cannot be worn together.
CacheIsCurrent ==
  OneOfAKind /\ phase # "down" /\ ~raced =>
    \A a \in Attrs : a \notin stale /\ cached[a] # None => cached[a] = Worth[a]

\* Between ticks the client shows what the server has, from nothing but the
\* last snapshot and the diffs since, unless that snapshot was being read or
\* on its way while a tick was changing the state, or a settlement panicked;
\* and of the attributes, unless the cache may have been spoilt (raced).
ClientUpToDate ==
  OneOfAKind /\ phase \in {"idle", "flush"} /\ client # None /\ full = None /\ ~torn =>
    /\ client.inv = inv /\ client.skill = skill
    /\ client.worn = ShownWorn
    /\ ~raced => \A a \in Attrs : client.attr[a] = Worth[a]
    /\ ShownSeen \subseteq client.seen

\* What no mark tells Flush to write is in the database as it is in memory,
\* and a level is always the one the experience stands for: however the
\* process ends and whatever was lost, what is loaded hangs together.
MarksCoverChanges ==
  /\ phase # "down" =>
       /\ \A it \in Items \ dirty.inv : rows.inv[it] = inv[it]
       /\ \A s \in Slots : s \in dirty.gone => worn[s] = None /\ s \notin dirty.worn
       /\ \A s \in Slots \ (dirty.worn \cup dirty.gone) : rows.worn[s] = worn[s]
       /\ {Def[it] : it \in seen \ dirty.seen} \subseteq rows.seen
       /\ ~dirty.skill => rows.skill = skill
  /\ \A k \in {skill, rows.skill} : k.level = LevelOf(k.xp)
=============================================================================
