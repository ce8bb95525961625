# Verification of the Milkyway-Liluo Idle backend

TLA+ models of the Go backend (`src/backend`), checked with TLC and proved with
TLAPS. The backend is the server of an idle game: a player queues events, the
server turns elapsed time into cycles of them, keeps the player's state in
memory while the player is connected (and a grace period longer), sends what
changed to the player's client, and writes it to SQLite. Players also fight
battles, which the same tick loop advances.

`PROJECT.json` maps every definition to the lines it models and lists runs,
mutants, findings, hazards and theorems. This file explains them. Numbers like
1.1 and 2.4 are documents of the repository (`docs`: `1.1-...md` on running and
advancing the game, `2.4-...md` on events).

## 1. The system

| Component | State it keeps | Operations | Talks to |
|---|---|---|---|
| Event queues (`internal/event`) | queues of entries (position, event, target cycles, progress), dirty queues | enqueue, remove, move, insert, clear, settle, advance, flush, load | inventory, skills, bestiary through `SettlementCtx`; the recorder |
| Session (`internal/session/session.go`, `lifecycle.go`, `command.go`) | subsystems, connection, state (active, grace, closing, closed), grace timer, command channel, done channel, battle | attach, detach, grace start/stop/expiry, submit a command, close, flush | the manager, the hub's connections, the database |
| Manager (`session.go`, `tick.go`) | user -> session, NumericID -> battle | get, add, remove, evict, create; tick round, batch flush | everything |
| Tick loop (`tick.go`) | last tick, accumulated time | every 50 ms: tick all sessions in parallel, tick battles, flush what changed in one transaction | sessions, battles, database |
| Inventory, skills, bestiary, equipment, attributes | maps with dirty marks; modifiers with a cached value | add, deduct, add XP, unlock, equip, unequip, flush, load | recorder, one another on level-up and equip |
| Battle (`internal/battle`) | entities, wave, due times, hate, effects | start, stop, advance by a delta | tick loop, session |
| Records (`internal/record`) | buckets of one execution | diff, full snapshot | the connection |
| WebSocket hub (`internal/wsx`) | connections by id and by user, send buffers | serve, send, broadcast, close | `OnConnect`, `OnDisconnect`, command handlers |
| Accounts (`internal/auth`) | users, login sessions (rows) | register, login, authenticate, logout, clean up | HTTP, WebSocket upgrade |
| Database (`internal/db`) | rows; one writer at a time | `InTx` | every flush and load |
| Client store (`web-client`, `stores/game.ts`) | the player's state as last told | apply a diff, apply a snapshot | the connection |
| Game configuration | static tables | load at start | everything, read only |

How they interact: each WebSocket connection has a goroutine that runs
`OnConnect`, the connection, and `OnDisconnect`. A client's message becomes a
command in its session's channel and waits for an answer. The tick loop drains
the channel, settles the queues under the session's lock, sends the recorded
changes, advances the battles, and flushes the sessions that changed. When the
last connection goes a grace timer starts, whose callback flushes the session
and removes it from the manager.

What is hard about it:

- **Concurrency.** Handlers of several connections of a user, grace callbacks,
  the tick loop, `Close` and `Evict` touch the same session under five locks
  (`Manager.mu`, `graceMu`, `connMu`, `s.mu`, an atomic state) and SQLite's
  write lock; several checks are made in one critical section and used in
  another. HTTP requests on login sessions meet between SQL statements.
- **Failure.** A transaction may fail after some parts were flushed; a
  settlement may panic half way; a client may not keep up with what it is sent;
  the server may stop at any moment and flushes nothing at shutdown.
- **Ordering and time.** The delta is spread over queues in Go's random map
  order; progress, the fast path and the settle loop have to agree at the
  boundary of a cycle; timers race late reconnects; a battle lives on due times
  that set and clear each other.
- **Derived state.** Attributes are cached, diffs are merged from marks, clients
  are told only what a record or a log entry names, rows are written only for
  what is marked: each is right only if no change misses its mark.

What makes each component correct: *queues* - nothing runs before its gate is
open, time is not lost, settling ends, the rows are the queue, material is
conserved; *sessions* - one per user, expiry is exclusive and only for sessions
nobody is connected to, nothing closed is handed out, idle sessions go away,
nobody blocks; *commands* - answered once, by whoever ran them, and always;
*persistence* - what a round changed and marked is saved, nothing stale is
written;
*player state* - a piece is in the inventory or worn, an attribute is what the
worn pieces make it; *client* - it shows what the server has; *battles* - waves,
respawn and timers agree, and every tick ends; *connections* - a gapless stream
or an end; *logins* - a token that has ended opens nothing, one that has not
lasts.

The list of hazards, each at its line, is in `PROJECT.json`.

## 2. The modules

| Module | Models | Composes, implements | Proofs |
|---|---|---|---|
| `EventQueue` | queues, settlement, their rows, reload and crash | | `EventQueueProofs` |
| `QueueClient` | marks, diffs and snapshots of the queues, the client's list | composes `EventQueue` with a client and implements it | `EventQueueProofs` |
| `SessionLifecycle` | connect, disconnect, grace, manager, for one user | | `SessionLifecycleProofs` |
| `TickFlush` | tick rounds, batch flush, `FlushAll`, transactions | | `TickFlushProofs` |
| `CommandChannel` | `SubmitCommand`, drain, close | | `ChannelProofs` |
| `PlayerState` | inventory, equipment, attributes, skill, bestiary; records, diffs, snapshots, the client's store; flush and load | | `PlayerStateProofs` |
| `BattleEngine` | one battle: `AdvanceByDelta` and everything in it | implements `WaveCycle` | `BattleEngineProofs` |
| `WaveCycle` | what those who watch a battle's status are promised | abstract | |
| `BattleRegistry` | battles of all players, `battle.start` and `battle.stop`, `tickBattles` | | `BattleRegistryProofs` |
| `WsHub` | connections from upgrade to end, send buffers, shutdown | implements `ClientStream` | `ChannelProofs` |
| `ClientStream` | what a connection promises | abstract | |
| `Accounts` | users, login sessions, requests statement by statement | | `AccountsProofs` |
| `MC...` | constants and symmetry for TLC | | |

Every action stands for a whole handler, or for what a goroutine does between
two points at which another one may run.

### EventQueue

`queues[q]` is `State.queues`, an entry keeps its `Position` apart from its
place in the slice, since `swapSatisfied` swaps entries and not positions.
`dirty` is `State.dirty`; `table` is `player_active_events`, a row for each
position; `stock`, `unlocked` and `executed` are the player's world as far as
settlement reads and writes it, `saved` its rows. `changed` says that a round's
diff is not empty: only then does `BatchFlush` touch the session.

Commands (`QueueAppend`, `QueueRemove`, `QueueMove`, `QueueSet`,
`ExecuteInstant`, and `InsertEntry`, which has no handler) happen between
rounds. A round is `TickInactive`, `TickAdvance` (the fast path) or
`TickSettle` followed by iterations of `settleQueue`'s loop, then `RoundFlush`.
One iteration is one action although the whole of `Settle` holds the session's
lock: the steps are those of a program, no other actor runs between them except
a crash, which is possible anywhere. `GraceExpireAndReturn` flushes and
reloads, `CrashAndReturn` only reloads. The callback's `FlushAll` takes no session
lock, so it may fall between two iterations of a settlement, which then goes on
without effect on what is loaded; how its statements fall within one step is in
`TickFlush`.

Abstractions: one material stands for all items; requirements are prerequisite
events (a skill-level requirement is a gate that opens in the same way);
experience, attributes and the production factor do not influence which cycles
run; upgrade events are treated as instant by the code and the model; seconds
are integers and the code's 1e-9 margin is one of them, which is sound because
`FastPathLosesNoTime` shows the margin is never used. The ids a client may send
include one that is not configured; id 0, the tombstone, is not sent.

### QueueClient

Each action of `EventQueue` is taken together with what it marks in the
recorder's `queueBucket` (`marks`), so every behaviour of `QueueClient` is one of
`EventQueue`: `ClientImplementsQueue` proves it. A round's diff replaces the
client's list by that of the queues marked as a whole; a snapshot lists the
entries of all queues sorted by queue and event, those that are equal in any
order (`Snapshots`: `sort.Slice` is not stable). Progress within the head entry
is left out, and executions are counted in `EventQueue` only.

### SessionLifecycle

`pc[c]` is the goroutine of connection `c`; its labels are the steps of
`OnConnect` and `OnDisconnect`. `sess[s]` has a session's fields; `cb` is where
the callback that holds `graceMu` is, `fired` counts callbacks that wait for
it, so a timer that fired before `Stop` is still a callback. `closeOld` and
`evictor` are held `Manager.mu`. A session that fails to load
(`ConnectCreateFails`) leaves the connection open without one.

The variable `overlap`, chosen at the start from the constant `Overlaps`, says
whether handlers of one user may overlap: "any" or "none". The code guarantees
the former; the latter shows what is true where one follows the other.
`LockInversion` is the deadlock of the code: `Add` or `Evict` holds `Manager.mu`
and waits for the `graceMu` of the session it closes, whose callback holds that
and waits for `Manager.mu`. `GraceExpireNow`, which only the test API calls, is
left out; it closes a session that is still in the manager.

### TickFlush

Each part of a session (inventory, skills, bestiary, queues, equipment) is a
version number with a dirty mark. `Events` is the part with the queues: while no
event is due, a tick takes the fast path (`TickAdvances`), which lets progress grow
in memory with no mark, no diff and no flush; commands of the same tick may have
marked it (`ahead`). `settled` is its version at the last marked change. `tx` has one transaction per flushing
goroutine: the tick loop's and that of each expiring session. `Flush` of a part
is four steps - clean or not, read the value, execute the statement (which
takes SQLite's write lock), clear the mark - since `FlushAll` holds no session
lock. Faults are a failing statement or commit, and a panic while settling.
Live sessions are ticked until they are gone; `parallelTick` skips only
StateClosed.

### CommandChannel

`pc[c]` follows `SubmitCommand`; `answers[c]` is the response channel with room
for one. The tick loop takes the session into a round, checks its state and
drains; `Close` sets the state, closes `done`, drains; the grace callback goes
to StateClosing, removes and ends, without closing `done`.

### PlayerState

The contents of what `TickFlush` treats as versions. A command's effect is an
operator from the player's state, as one record, to the next (`Equipped`,
`TakenOff`, `Added`, `Unlocked`), as the code's functions call each other:
equipping takes off what occupies the clicked slot, which mounts and removes
modifiers, which mark attributes and what depends on them, which records them.
`Final` is `getFinal` with its cache and `Marked` is `markDirty` with its early
return. A tick has a recorder for the commands and one for the settlement, each
of which becomes a diff (`CommandsEnd`, `SettleEnds`).

`SendFullState` takes no lock. `FullRead` reads the other subsystems; then it
asks for one attribute after the other in the order of their ids, and each call
of `getFinal` returns from the cache (`CacheHit`), or takes the modifiers of the
attribute (`Recompute`), asks for those they refer to, and writes value and mark
(`WriteBack`); `frames` is the stack of these calls, with what each has so far.
`FullSend` sends the snapshot. Ticks go on between any two of these steps. `torn`
records that a snapshot overlapped a change, `raced` that since loading a piece
was put on or taken off while a call of `getFinal` was open, so that it may write
an old value as clean. Not taken apart are the diff of a tick, which meets no change
of modifiers since the tick loop makes both, and the reading of one map; that
Go's runtime ends the process when it sees a map read and written at once is a
`Crash`. One snapshot is read at a time: a second connection's `SendFullState`
beside the first would add calls of `getFinal` to the same races.

`Flush` writes what is marked and
is one transaction; `Load` reads the rows and mounts the modifiers again.

Quantities are integers. What an attribute is worth is the constant `Formula` of
the mounted items that touch it (`Touches`) and of the attributes it refers to
(`Refs`), with `Values` for its range: which numbers the code's additions and
multiplications make is left open, what they read is not. `Acyclic` is what
`checkCycles` makes sure of at start. All modifiers an item has are mounted and
removed together, under the source `equipment:` and its definition. The marks that
`NewInstance` gives to attributes with static modifiers are left out: a value that
was never computed is computed like a marked one. One skill stands for all;
areas, a third set of the bestiary that nothing fills, are left out.

`Equip` has an error branch that `Equipped` leaves out: when `def.Modifiers` fails
after the item was taken from the inventory (`session.go:404-410`) the piece is
lost. `Modifiers` fails only for an attribute that is not registered, and those of
the shipped items all are. A battle's effects mount modifiers outside the lock
too; no shipped effect does so to a player.

### BattleEngine and WaveCycle

`AdvanceByDelta` handles one due event after the other; `AdvanceOneEvent` is
taken apart into its four parts (`EventBegins`, the players' attacks, the
enemies' attacks, `EventEnds`), one action per attack. Those whose respawn time
has come return in any order, since Go's maps are read in any order. What
`CalcDamage` returns is one of `Outcomes`; which target an enemy chooses is any
of the candidates, since hate makes some likelier and none impossible; so `hate`
decides nothing. Skills have costs, cast times, cooldowns and one effect.
`shown` is what a client believes of the players after the logs with their
affected entities (`battleLogsToProto`) and the heartbeat snapshots. Loot is
left out: nothing reads it. `Status` is `deriveStatus`, and `WaveCycle`, with
that status and the wave number for its variables, is the cycle of waves.

### BattleRegistry

Commands of different sessions run in parallel workers, so `battle.start` is two
steps and `battle.stop` three, at their accesses to the manager's registry.
`life` follows a session through the grace timer and evictions, of which
`SessionLifecycle` has the steps; "late" is a session evicted while its callback
was already running. `begun` and `rivals` of a battle are history, for the
properties: under which circumstances it was begun, and which battles of the
same NumericID there were.

### WsHub and ClientStream

`stage[c]` follows `Hub.Serve`, `writer[c]` the write loop; `closed` are the
connections whose `done` channel, which ends both, is closed. Any known
connection may be sent any message at any time; a message that cannot be
serialized is skipped by the writer. `offered[c]` is what `Send` was given while
the connection was open, also the message whose overflow closed it; messages
are told apart, so none is sent twice. The read loop calls the handler of a
message itself (`Dispatches`, `HandlerReturns`): it sees a closed connection only
afterwards. `OnConnect`, handlers and `OnDisconnect` take any time and may never
return, which `CommandChannel` and `SessionLifecycle` give the reasons for. Without
`AllowAnonymous`, as shipped, every connection has a user. A client leaves at any time, seen as a
failing read, write or ping. `closeWithReason` is one step: the library's
`Close`, which waits for the peer's answer up to its timeouts, inside `Send`
too, counts as no time. `SendToUser`, `SendToConn` and `Broadcast` are left out
since nothing calls them.

### Accounts

Every request is a sequence of SQL statements, and each statement is an action:
that is where requests of one user meet. `given`, `ended`, `late` and `scope`
are history: when a token was given out, which logouts were answered, and what
had ended when a request was sent. Passwords are right or wrong, a token and
its hash are one value.

## 3. The runs

| Run | Question | Bounds |
|---|---|---|
| `MCEventQueue` | gates, durability, rows = queue, ledger, fast path, end of Settle | 2 queues of 2 entries, 4 events + 1 unknown id, 2 commands, 2 rounds of 3 s |
| `MCQueueClient` | between rounds the client lists what is queued | 1 queue of 3 entries, 3 events + 1 unknown id, 2 commands, 2 rounds |
| `MCSessionLifecycle` | with any overlap: exclusive expiry, no closed session is managed; with none: idle sessions have a timer, connected ones are not in grace | 3 connections, 2 sessions, 1 eviction |
| `MCSessionLifecycleLive` | with any overlap sessions are freed and `OnConnect` ends, or `Manager.mu` and `graceMu` are deadlocked | 2 connections, 2 sessions, 2 evictions |
| `MCTickFlush` | a round without faults saves everything but progress of the fast path, the batch writes nothing stale, rounds and expiries end | 2 sessions of 2 parts, 2 changes, 1 fault |
| `MCCommandChannel` | answers fit and are results, commands return | 3 commands, room for 2 |
| `MCPlayerState` | no item lost or doubled, marks cover changes, caches current and client up to date beside a snapshot read step by step | 5 items in 4 slots, 3 attributes in a chain, 3 levels, 2 commands, 1 crash |
| `MCBattleEngine` | timers, waves and reports agree, clients know who is alive, ticks return; refinement of `WaveCycle` | 2 players, waves of 0 or 2 enemies, 2 hit points, 2 skills, 12 units of time |
| `MCBattleRegistry` | no stopped battle stays, unshared ones go on, are sent to their owners and keep their session | 2 players, 3 sessions, 2 NumericIDs, 2 battles |
| `MCWsHub` | refinement of `ClientStream`; connections and shutdown end | 2 connections of 1 user, buffer of 1, 3 messages |
| `MCAccounts` | a token that has ended is refused, one that has not lasts | 2 users, 2 tokens, 3 requests, lifetime 3 of 5 units of time |
| `EventQueue_ReloadKeepsQueue` | expects a violation: see below | 1 queue of 3 entries |

The largest, `MCBattleRegistry`, has 3.9 million distinct states.

Why the bounds are enough to be interesting:

- *Queues.* Two entries let a swap leave the positions out of order, and two
  queues share one round's delta, in either order, and one flush; a queue of
  loop, gated, instant, zero-time and unknown events reaches every branch of
  `settleQueue`; a round of 3 seconds is below the loop time 4 and above the
  loop time 1, so that partial cycles, several cycles at once and leftovers all
  occur; two rounds put a flush, an expiry or a crash between two settlements.
  For the client three entries let a list sorted by event differ from the
  queue in more than one place.
- *Sessions.* Three connections are an old one, its successor and the one that
  finds what the two left behind; with two `PlayerSession`s one can be replaced.
  For liveness two connections, an eviction of each session and any overlap reach
  `LockInversion` from `Add` and from `Evict`.
- *Persistence.* Two parts are the least for which one is flushed and the other
  fails; two changes let a part change before a flush and while it
  goes on; the fast path may run in each of them and after both.
- *Player state.* A sword in two states of enhancement shares a modifier source;
  a two-handed sword needs slots of two bases, so that it displaces a shield or
  fails to fit; the base of treasures has three slots and a charm takes two of
  them, so that which are free decides where it goes, and a second charm has to
  displace the first; an attribute depends on one
  that depends on another, so that a mark has to travel; the curve has a level of
  one step and a last one; two commands put on and change or take off, with
  `torn` and `raced` in any combination. A chain of three attributes lets a change fall
  between the innermost call of `getFinal` and the outer ones.
- *Battles.* Two players are the least for which one is down while the other
  fights; an empty combination, two enemies and two kinds of waves cover
  `spawnWave`; a cast time, a cooldown, a cost and an effect each occur. The
  first waves appear at time 3 and attacks come every 2 units, ticks every 2: due
  times coincide and fall between ticks. 12 units are enough for a wipe, a
  revival, a cleared wave and the next one.
- *Registry.* One player comes back with a second session; two battles of one or
  of two NumericIDs.
- *Connections.* A second connection kicks the first out; a buffer of one is full
  at the second message; one of the three messages cannot be serialized.
- *Accounts.* Lifetimes end, rows are cleaned up and logins repeated within the
  5 units; three requests are a login and two that race each other.

Positions above `MaxPos` and further commands, rounds, changes, faults,
evictions, battles, messages and time are cut off by guards, named in
`CONSTANTS`. `CHECK_DEADLOCK FALSE` is said where these bounds stop the system
or every client may be gone; `SessionLifecycle` can deadlock in truth, which
section 4 describes. Symmetry is used in runs without liveness properties only.
`TypeOK` is checked for `EventQueue`; in the other modules it documents the
state and, in those with proofs, is part of the proved invariant.

### Fairness

`EventQueue`: a call of `Settle` that has begun keeps running (one goroutine,
no blocking in it). `SessionLifecycle`: goroutines that can run do, a running
timer fires, a started eviction goes on; clients need not connect or leave,
battles need not end. Go's mutexes are starvation-free, so weak fairness of a
step that waits for a lock is what the runtime gives. `TickFlush`: the tick
loop and open transactions go on; no timer need fire. `CommandChannel`: the
ticker ticks, handlers go on; nobody need send, and the session need not end.
`BattleEngine`: a tick that has begun goes on. `WsHub`: goroutines are
scheduled, and reads and writes on a connection that is closed or whose client
is gone fail (a ping sees to it at the latest), once the read loop is not in a
handler; nobody need send or leave, and `OnConnect`, handlers and `OnDisconnect`
need not return.

### Refinement

- `WsHub` implements `ClientStream` for each connection (`ClientStreamSpec`):
  of all that `Send` was given while the connection was open, whether or not
  there was room, the client has received a beginning, without a gap but for
  messages that cannot be serialized. A `Send` that finds no room must therefore
  cut the connection off: `SendDrops`, which does not, is its mutant.
- `BattleEngine` implements `WaveCycle` (`CycleSpec`): waves come one by one,
  only a fight can end in a wipe, those who come back come back to the same
  fight, a stopped battle stays stopped.
- `QueueClient` implements `EventQueue`.

All three are proved for every value of the constants, the first two checked as
well.

## 4. Where the code differs from its documents, or surprises

One has a run that expects its violation, quoted in `PROJECT.json`:
`EventQueue_ReloadKeepsQueue`. A swap keeps positions, flush clears rows behind
the *last entry's* position, and entries are lost on reload.

The modules state the following, too. They do not hold, no run checks them, and
the properties that are checked leave out exactly these cases.

| Statement | What the code does |
|---|---|
| `TimeNotOverspent` (`EventQueue`) | leftover seconds become progress and are settled again (`settle.go:215`; `tick_integration_test.go:272-278` takes this for granted) |
| `ClientShowsOrder` (`QueueClient`) | a snapshot is sorted by event id, so that a client's indices mean other entries until the next change (`provider.go:37`) |
| `SingleOnline` (`SessionLifecycle`) | a reconnect between `Get` and `StopGraceTimer` keeps a session the callback has removed |
| never `LockInversion` (`SessionLifecycle`) | `Add` or `Evict` and the callback take `mu` and `graceMu` in opposite orders: a deadlock (`session.go:672`) |
| `FlushFailureKeepsDirty` (`TickFlush`) | dirty marks are cleared before the commit |
| `ExpiredIsSaved` (`TickFlush`) | `FlushAll` takes no lock while the session is still ticked |
| `NeverStuck` (`CommandChannel`) | after grace expiry nobody answers a command sent meanwhile |
| `EntityIDsUnique` (`BattleEngine`) | ids are reused from wave to wave (`enemy_entity.go:100`), so an enemy inherits the hate of a namesake |
| `EffectsExpire` (`BattleEngine`) | `RefreshStats` drops an expired effect and leaves its modifiers mounted (`player_entity.go`, `enemy_entity.go`) |
| `EveryBattleTicked` (`BattleRegistry`) | battles are keyed by NumericID: of two players in the same battle one stands still (`session.go:705`; `tick.go:202` says each active one is advanced) |
| `CloseWaitsForAll` (`WsHub`) | a connection is registered before it is counted: `Hub.Close` may not wait for it (`hub.go:107`) |

Others were met while translating. The models follow the code in them, or stand
beside them; no run is spent on them.

Queues:
- without material, `settleLoop` lets progress grow past `loop_time`
  (`settle.go:184`; 2.4 rule 5 says it is cut off);
- the rest of a delta is used for the next entry after one was removed
  (`settle.go:124`; 2.4 rule 6 says it is discarded);
- instant and upgrade events take no cost (`settle.go:271`; 2.4 says a
  consumption requirement is deducted on execution);
- the fast path never removes an unconfigured head, which blocks its queue
  (`settle.go:58`; 1.1 has every active queue settled);
- the fast path advances the heads of all queues with the same seconds
  (`settle.go:86`; 2.4 says one queue runs at a time);
- the client keeps one list whatever queue it was told of, drops ids it does not
  know, and ignores target cycles in diffs of the head.

Sessions:
- the grace callback removes by user id, a successor session too (`ws.go:68`);
- "only detach if this is the current conn" (`ws.go:86`) is a check and a use in
  two critical sections, and so are `HasConn` and `StartGraceTimer`
  (`ws.go:91`): with overlapping handlers a connected session can lose its
  connection or be left in grace;
- `StopGraceTimer` revives a closed session (`lifecycle.go:62`);
- StateClosing accepts commands (`command.go:11`; 1.1 says it forbids them);
- shutdown flushes no session (`main.go:150`);
- progress that the fast path has made since the last change of a queue is in no
  flush: neither a crash nor, the queue being clean, an expiry saves it
  (`tick.go:158-162`).

Player state:
- Equip takes off what occupies the slot before it can fail (`session.go:386`);
- two worn pieces of one definition would share one modifier source; the shipped
  definitions cannot be worn twice;
- a discovered item is saved without its state of enhancement;
- a panic in a settlement keeps the changes and loses their diff: the client
  is wrong until it reconnects;
- a snapshot is read without the session's lock: it may be torn, or overtaken by
  a diff that it does not contain; and since `getFinal` writes cache and mark at
  its end (`calculation.go:110-113`), a piece put on or taken off meanwhile may
  leave an old value in the cache as clean, which later snapshots show too, until
  the attribute is marked again;
- `Equip` would lose the piece if its modifiers could not be built
  (`session.go:404-410`); with the shipped items they can;
- player initialization checks a flag and starts its transaction later.

Battles:
- the loop of waves begins with its second type: `chooseWaveType` uses the
  incremented number;
- pending experience and drops of a battle are never granted;
- a skill effect of duration 0 is permanent; the comment says instantaneous;
- damage is not a number with neither attack nor defense (`damage.go`);
- what a battle does to attributes happens outside a recorder;
- an evicted, replaced or expired session leaves its battle running, and a
  battle started while its session is closing goes on without one.

Connections and logins:
- a login is checked at the upgrade and never again: logout leaves connections;
- addresses are validated trimmed and stored as they are (`service.go:92`).

`TableMatchesQueue` speaks of queues whose positions no swap has mixed up,
`CommandReturns` of sessions that do not end by grace expiry. `SavedUnlessFault`
excepts expiring sessions and progress of the fast path; `ConnectReturns` and
`SessionFreed` except `LockInversion`. `CacheIsCurrent` and the attributes in
`ClientUpToDate` except a session after a race with `getFinal`, `ClientUpToDate`
clients with a torn snapshot. `ConnectionEnds` and `ShutdownEmpties` except
connections of which a callback never returns. `ClientShowsQueue` speaks of a
player with one queue, `UnsharedTicked` of battles no other player fights,
`SentIsOwned` of sessions the player still has, `BattleKeepsSession` of battles
begun before the timer fired.

## 5. What is proved

For every value of the constants, from the `ASSUME`s of the component modules
(names are disjoint, loop times, costs and bounds are natural numbers), which
TLC evaluates in every run.

**EventQueueProofs.** `TypeCorrect`: `TypeOK` is inductive by itself. The parts
that need thought are that material never becomes negative (`AffordableBound`:
no more cycles are run than the stock pays for), that `FlushRows` and the
recursive function in `LoadRows` give rows and queues (the latter by the least n
for which it would not: `KeptPicks`), and that the community operators
`RemoveAt` and `InsertAt` stay within sequences. `GatesRespected`: inductive
given the types; the world changes only by `Credit` of a runnable event, by an
instant command whose gate was checked, or by a reload of a world that had the
property. `RoundsAreDurable`: `RoundDurable` is not inductive, since it says
nothing while a round is settling; `Reported` - whenever nothing was reported,
nothing is dirty and the saved world is current - is, and implies it.
`NoTimeLost`: an action property; in `TickAdvance` the cap's condition
contradicts `~WillTrigger`. `RowsFollowQueues`: `TableMatchesQueue` needs the
types, progress being a natural number among them (`AffordableTime`: cycles take
no more time than there is), and that nothing but the fast path touches a queue
it does not mark (`MarkingSteps`); the fast path moves a head by less than one
cycle (`AdvanceMatches`). What `FlushRows` writes and `LoadRows` reads are the
entries of a dense queue (`FlushMatches`, `Loaded`), for `LoadRows` again by the
least row that would be wrong.

`StockBalanced`: `Balanced` is a sum over all events, so the proof first gives
how the library's `SumFunction` over a finite set changes with one value
(`SumChanged`), from the recursion that defines it. Then executing an event n times
moves both sides by n times its `NetYield`.

`SettleDescends`: each iteration of `settleQueue` has a lower `SettleRank` than
the one before: seconds left, else queues to visit, else a queue at hand, else
entries in it, else a head that is closed and will be open. Seconds do not run
out in every iteration (`SettleDrop`, `SettleInstant` and `SettleSwap` take
none), so the rank is lexicographic. A swap leaves the queue as long as it was
but brings an open head, which is why two swaps never follow each other
directly; cycles that run take time, since they are at least one and `LoopTime`
is positive. `RanksEnd` says that no infinite sequence of ranks descends.

`ClientImplementsQueue`: each action of the composition of queues and client is
an action of `EventQueue` or leaves its variables alone. So the invariants of
`EventQueue` hold with a client, `GatesRespectedWithClient` for one. `ClientShown`:
`ClientShowsQueue` says nothing while something is marked; `ShowsInv` says that
whenever the queue is not marked as a whole, in whatever phase, the client shows
it. What marks less (progress at the head, cycles that end no entry) changes no
event in the list. A snapshot has the same events as the queue because it lists
its places by a bijection and `Listed` keeps each known one once (`KeptPicks`).

**ChannelProofs.** For `CommandChannel` the inductive invariant `IInv` adds to
the types that a command is in the channel at most once and only while its
sender waits, that a command not sent yet has neither answer nor execution, that
it has at most one answer, that what `Close` drained was drained after `done`,
and that an answer means the command was run or `done` is closed.
`AnswersAlwaysFit` and `AnswersAreResults` follow.

For `WsHub`, `HubImplementsStream`: `HubInv` says of each connection that is not
closed that what it was offered is what the writer took followed by what the
buffer holds, and that what it took, without what cannot be serialized, is what the
client was sent followed by the message at hand (`Passing`); and that a connection
not yet counted has no writer (`Unstarted`), so that none is started twice. Of a closed
one nothing need be said, since a closed connection writes no more. Every step of
the hub keeps this and is an `Offer`, a `Receive`, a `Cut` or a stutter of
`ClientStream`. A `Receive` needs that more messages leave what is serialized of
the first ones as it is (`SerializedGrows`), which is proved of the recursion that
defines `Serialized`.

**PlayerStateProofs.** For any items, slots, attributes, formulas and level curve.
A command is a composition of a few changes of one record, `Now`, so each
property is a relation that every part keeps (`Kept`) and the inductive invariant
`IInv` is about that record at the ends. `TypeCorrect`: `TypeInv`. `Conservation`:
`Conserved` has, besides the sums, that what is worn fills exactly the slots its
definition needs (`Whole`); taking off a whole piece and putting one on, in free
slots, moves one item between the two terms of `Holdings`, a sum over a finite
set. `NothingUnmarked`: `Saved`, which with the marks in it is inductive, and the
level, for which `NextLevel` from the old level and `LevelOf` agree on any rising
curve. `CacheCurrent`: `Fresh` says that a clean value is what its formula makes of
the mounted items *and* that whatever it refers to is clean too; that is why
`markDirty` may stop at an attribute that is dirty already. It is part of
`Computing`, which holds while not `raced`: every open call of `getFinal` has taken
the modifiers that are mounted, and what it has been given so far is clean and the
value of the mounted items, so that what it writes back is, too. That the values are
determined is the evaluation of attributes that refer to one another without a
cycle, by the rank of `Acyclic`. `Matched`: the mounted modifiers are those of
the worn pieces, which needs `OneOfAKind`. `ClientCurrent`: `Following` says in
every phase that what the client shows, with the records of the current
execution applied to it, is the player (`Synced`); `SnapshotCurrent` the same of a
snapshot that is on its way and not torn; `Connected` that with a client all
values have been computed once, so that each later change of one marks and sends
it (cache and client agree also after a race; that the cache is right is
`Computing`); `LevelTold` that experience is not recorded without its level.

**SessionLifecycleProofs.** For every set of overlaps, any number of connections
and sessions. `IInv` adds to the two theorems that a handler past `Get` has a
session, that a session being created belongs to one connection and nobody
else knows it, and that one not created yet has no callback. A lemma per group
of actions says which session's fields it touches and how (`ConnectTouches`,
`SessionTouches`, `CloseTouches`), so that the invariance proof speaks of
changes, not of actions. `ExpiryAlone` and `ManagedIsOpen` follow.
`IdleSessionsExpire` and `GraceIsForTheGone` speak of handlers that follow one
another, and rest on `SerialInv`: then at most one handler is at work (`Alone`)
and finds what its predecessor left (`Place`); a session in grace has no
connection, or is being made active again (`GraceOK`); the callback of a managed
session will remove it (`HookOK`); a managed session without a connection is
counted down, being removed, or with the handler that starts its timer
(`IdleOK`).

**AccountsProofs.** `EndedStaysRefused`: `EndedIsRefused` is about requests sent
after a token ended, so the invariant has to follow a token from its login on.
`RowOK`: a row lasts no longer than `TTL` from the answer to its login and
belongs to the user of that answer. `EndedOK`: a token that has ended has no
usable row, and no step makes a row usable again (`OnlyEnds`). `ReqOK`: which
request is where, a login is alone with its token (`HolderOK`, `LoginsApart`), a
late request does not get past its lookup (`LateOK`), a logout-all's scope are
tokens of its own user (`ScopeOK`). `KnownOK`: a known token is that of some
request, so that no login draws it again. `LoginsLast`: only a logout's statement
and the cleanup end a row before its time; `LifeOK` says that no statement moves
the time itself, `RowsMove` which steps change a row and how, and the cleanup
takes rows only long after their time.

**BattleRegistryProofs.** For `StoppedBattleLeaves` and `TimerSparesBattles`,
`OwnOK`: the battle a session holds is its own and runs until it is stopped.
`StepOK`: a command at work on a battle holds it, or has let go of it. `RegOK`:
what is registered under a NumericID has that id, and runs or is in the hands of
the command that stopped it. `LifeOK`: a session whose timer has fired holds no
running battle from before. `IdleOK`: between rounds no worker is at work, so
that a round begins with every session outside a command. `OwnBattlesGoOn` and
`NewsIsOwn` add that a running battle is the one its session holds (`HeldOK`),
that whoever holds a battle is a rival of the later ones of its id (`RivalOf`),
so that one without rivals stays registered (`ListedOK`) and is served or still
to be (`ServedOK`); that a session is made once (`BornOK`), so that a battle of
an earlier one is never again its player's; and that what was sent stays about
the receiver's battle or about one of a session that is gone (`SentOK`).

**TickFlushProofs.** `BatchIsCurrent`: a session has a transaction of its own only
while it expires, and that one touches only its own parts (`OwnTx`); the batch's
is open only while no tick runs (`BatchTx`), so what it has read stays what memory
holds (`BatchCurrent`). `RoundSaves`: `SavedUnlessFault` speaks of the end of a
round, so the invariant follows each live session through it: each part is marked, in the
batch's log, or saved (`Covered`), and a session with a mark is one the round still
comes to (`Ahead`). `Saved` is equality of row and memory, for the queues a row
between `settled` and memory: the fast path moves memory alone, and a marked
change moves `settled` and marks (`ChangesSafe`).

**BattleEngineProofs.** For any number of players, any waves, skills and outcomes of
a blow. `TimersMatchDeaths`: `DownedHasTimer` needs of an entity only that it is
alive exactly while it has hit points (`Fit`), which resting, reviving, acting
and being struck keep. `BattleGoesOn`: `WaveScheduled` says nothing within an
event, so `WaveInv` says what each part of it leaves for the next: while the
players attack, whoever is due is still in `todo` (`PlayersTurn`); while the
enemies do, so are they, and with no enemy left nobody can go down
(`EnemiesTurn`). That an event finds somebody alive is an argument about
`NextEventTime`: with all down its only candidates are respawn times, so
somebody's time has come. `WipesReported`: while an event goes on its logs do not
end with a wipe (`LogInv`), because it begins with somebody alive: one who is back,
which is logged, or one who was alive when the last event ended.
`BattleImplementsCycle`: with these facts each step is
a step of `WaveCycle` or leaves its variables alone. `NobodyForgotten`: `ShownInv`
says within a tick, too, that whoever is not as the clients believe is named by
a log entry that goes out at its end. A player's being alive changes only with its
respawn timer (`DownInv`), and each step that sets or clears one logs it with
that player's id, in whatever order those who come back are taken. `TickDescends`:
from one part of a tick to the next either the clock comes closer to the tick's
end (an event that begins is later than the clock, by `BetweenEvents`), or the
event has fewer parts to come, or fewer attacks; those who have still to attack
are finitely many because a battle has finitely many entities (`TodoFinite`).

The library's induction theorems take a predicate as a parameter, which the
provers cannot instantiate. Where a fact rests on induction (sums over finite
sets, `Kept`, `Serialized`, the evaluation of attributes, the level curve) it is
proved by contradiction from the least number for which it fails
(`LeastElement`, from `NatLessThanWellFounded`), and the recursive function it is
about is shown to exist in the same way.

Every safety property of the passing runs, action properties and refinements
included, is now stated by a theorem. Only model-checked remains liveness, which
the provers do not reach: `SettleTerminates`, `SessionFreed`, `ConnectReturns`,
`RoundEnds`, `ExpiryEnds`, `CommandReturns`, `TickReturns`, `ConnectionEnds`,
`ShutdownEmpties`. Of two of them the part that does not need `ENABLED` or
fairness is proved for every configuration: `SettleDescends` and `TickDescends`
say that a call of `Settle` and a tick of a battle make only finitely many
steps, and `BattleGoesOn` that there always is a next event. That such a call
can always make its next step, and therefore ends, is what TLC checks in
`SettleTerminates` and `TickReturns`.

## 6. Not modelled

- Game configuration: parsing and validation at start. Its result is the
  constants and assumptions of the modules.
- HTTP routing, middleware, cookies, hashing of passwords and tokens, the form
  of names and addresses, logging, error wrapping: input and output without
  state, or conversions no property is about.
- Generated code: protobuf messages and the scanning of rows. What the SQL
  statements of queues and logins do is modelled in `EventQueue` and `Accounts`.
- The test API, except `Evict`, which it calls.
- The web client beyond the store that applies diffs and snapshots.
- The older Python backend, which is not run any more.
- Player initialization as steps of its own: its result is the initial rows of
  `PlayerState`. A flush of an old session between the separate reads of
  `CreateSession` is not modelled either: `Load` is one step.
- Numbers: floating-point formulas of damage, attributes and factors.

What would come next: `CreateSession`'s reads beside an old session's flush, as a
composition of `SessionLifecycle`, `TickFlush` and `PlayerState`; an abstract
durable player state that `TickFlush` implements while nothing fails.
