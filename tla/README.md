# A verification project for Canary

Canary is a game server in C++20: one process that keeps a world in memory,
serves thousands of clients over TCP, runs game rules in C++ and Lua and stores
characters in MySQL.  This directory holds TLA+ models of the parts of it whose
correctness depends on order, interleaving, failure or long histories, the TLC
configurations that check them, and proofs for the TLA+ proof system.

Paths below are relative to the repository's `src/` directory (the C++ sources).
`PROJECT.json` relates every definition to the lines it stands for.

## 1. Inventory

### The system's parts and how they interact

| Component | Code | State | Operations | Model |
|---|---|---|---|---|
| Dispatcher | `game/scheduling/dispatcher.*`, `task.*` | per thread: a queue per task group and a list of scheduled tasks, under the thread's mutex; merged queues, the multiset of scheduled tasks, the map of those that may be stopped | `addEvent`, `addWalkEvent`, `asyncEvent`, `scheduleEvent`, `cycleEvent`, `stopEvent`, `safeCall`, the loop, shutdown | `Dispatcher` |
| Thread pool | `lib/thread/thread_pool.*` | tasks, threads, `stopped` | run a task, shut down | in `Dispatcher`, `SaveManager` |
| Save manager | `game/scheduling/save_manager.*` | `m_playerMap`, `m_scheduledAt` | `savePlayer`, `schedulePlayer`, `scheduleAll`, `saveAll`, `saveMap`, `saveKV` | `SaveManager` |
| Loading and saving of players | `io/iologindata.*`, `io/functions/*` | the tables of a character | load, save, delivery to a character that is not in the game | `SaveManager` |
| Player lifecycle | `server/network/protocol/protocolgame.cpp`, `creatures/players/player.cpp`, `game/game.cpp` | `Game::players`, the dead players, the game state | login, logout, death, respawn, kick, `setGameState` | `SaveManager` |
| Waiting list | `creatures/players/management/waitlist.*` | two lists and references into them | `clientLogin` | `WaitingList` |
| Key-value store | `kv/*` | cache, LRU queue, table `kv_store` | `get`, `set`, `remove`, `saveAll`, `flush`, `keys` | `KVStore`, `KVMap` |
| Database | `database/*` | one connection under a recursive mutex | queries with retries, `DBInsert`, `DBTransaction`, asynchronous queries | in `SaveManager` |
| Connections, protocols | `server/network/*` | write queue, timers, connection state, output buffers | accept, parse, send, close (soft and forced), release | `Connection` |
| Market | `io/iomarket.*`, `game/game.cpp` | table of offers, purses of both sides | create, cancel, accept, expire | `Market` |
| Trade | `game/game.cpp`, `creatures/players/player.cpp`, `map/house/house.cpp` | state of both partners, locked items, a house's document | request, accept, close, what closes it by itself | `Trade` |
| House auctions | `game/game.cpp`, `io/iomapserialize.cpp`, `map/house/house.cpp` | state, bid, bidder, transfer of a house | bid, move out, transfer, accept, reject, settlement at startup, rent | `HouseAuction` |
| Item decay | `items/decay/*` | items by the time they end, one timer | start, stop, check, transform | `Decay` |
| Parties | `creatures/players/grouping/party.*` | leader, members, invitees; a player's party and invitations | invite, join, revoke, pass, leave, disband, death, logout | `Party` |
| Spawns | `creatures/monsters/spawns/spawn_monster.*` | blocks, the monsters they have made, one check | startup, check, delayed appearance, removal, variants | `Spawns` |
| Raids | `lua/creature/raids.*` | the list, the running one, its next event, one check | check, start, execute, reload | `Raids` |
| Mail, depot, bank, guild, chat, VIP, prey, accounts | see `PROJECT.json` | per-object state | single handlers | |
| Monsters' AI, NPCs, combat, spells, map, path finding | see `PROJECT.json` | the world | game rules | |
| Lua, datapacks, configuration, logging, metrics | see `PROJECT.json` | none of their own that matters here | bindings, I/O | |

How they meet:

* **The dispatcher serialises the game.**  Network threads, pool threads, signal
  handlers and tasks themselves push work; one thread of the pool runs it.
  Nearly all code of the server relies on being run there, and has no locks.
* **Saving leaves that thread.**  `saveAll` gives every player to the pool, and
  with `toggleSaveAsync` so does every other save; the game may meanwhile
  change the object, remove it or load the character again.
* **Loading happens in places that do not look like a login**: mail, house rent,
  bank transfers and market offers for somebody who is not in the game build a
  temporary `Player`, change it and save it.
* **The key-value store** is used by game code and, at every save of a player, by
  pool threads.  Its mutex is not held across accesses to the database.
* **Whatever takes time on the dispatcher is a chain of scheduled events**:
  decaying items, spawns, raids, cycle events.  Each link schedules the next one, and
  what stops a chain has to find the link that is under way.
* **The process can be killed between any two statements** that reach the
  database.  `SaveManager`, `KVStore` and `Market` have kills there; of
  `HouseAuction` only the start of the server is killed (section 6).

### What is hard here, and what must hold

| Component | Hard behaviour | What makes it correct |
|---|---|---|
| Dispatcher | a `notify()` between the last merge and the wait; swapping queues; a cycle event stopped by its own callback; parallel events next to serial ones; shutdown while it waits | no task lost or doubled; one thread in game state; a stopped event never starts; everything is run in the end; shutdown ends |
| Save manager, loading, lifecycle | two objects of one character; a save that reads while the game writes; a save superseded by a later one; an exception in the middle; being killed between two tables | an absent character is stored as it last was; tables agree; nothing stored is rolled back; accepted requests are stored; saves end |
| Waiting list | expiry between two attempts; premium players in front; sizes kept by two lists | references and entries agree; nobody overtakes; a room lets somebody in; waiting ends |
| Key-value store | eviction and reload outside the mutex; removals as markers; a crash | it is a map; a crash loses nothing newer than the last `saveAll` could keep |
| Connections | closing with messages queued; a stalled client; a release that expires | one reader of the input buffer, one writer; a soft close drains; silent clients are dropped; every protocol is released |
| Market | a partner who is dead, offline or online; offers read on another thread and settled later; a kill between the row of an offer and the save of its player | gold and items are conserved; a kill gives nothing back to who is in no request; an offer is settled |
| Trade | a move refused by room or weight; either side acts first; things change while they are shown | both sides or none; what was shown is given; every lock is released; only the owner sells a house |
| House auctions | gold kept with the house over weeks; a bid for a house in any state; a start that dies while it settles | bid and payment of a house agree; gold appears or disappears only in three known steps, by their amounts |
| Decay | `stopDecay` that empties the map; items transformed or removed by their own decay | every decaying item is listed once; there is a timer for the first deadline |
| Parties | the leader goes while invitations are open; the dead; objects that outlive their player | both sides name each other; a party ends when it should and not before |
| Spawns | delayed appearances under way together; removal by a script while it appears; variants that leave nothing | one monster a block; a check while one is empty; it is filled again |
| Raids | an event fails, a script starts another, the raids are loaded again in the middle | one raid at a time, one next event, one chain of checks |

`PROJECT.json` lists the hazards line by line, each with the properties that
look for it.  Section 6 names the ones no property covers.

## 2. Modules

| Module | Models | Proved in |
|---|---|---|
| `Dispatcher` | the event loop, tasks, the pool as executor of parallel events, shutdown | `DispatcherProofs` |
| `SaveManager` | player objects between database and game; every way to save | `SaveProofs` |
| `KVMap` | what the key-value library promises: an atomic map with a durability bound | (abstract specification) |
| `KVStore`, `MCKVStore` | the cache, its queue and the table; implements `KVMap` | `KVProofs` |
| `WaitingList` | the login queue | `WorldProofs` |
| `Connection` | a connection with its protocol: reading, writing, time-outs, closing, login, release | `ConnectionProofs` |
| `Market` | offers and purses, the objects of the two sides, expiry in two steps | `MoneyProofs` |
| `Trade` | two-sided trades, locked items, bags, walking, the document of a house | `TradeProofs` |
| `HouseAuction` | bids and transfers of houses from the request to the next start | `MoneyProofs` |
| `Decay` | `decayMap`, its timer, transformations | `WorldProofs` |
| `Party` | parties and the objects they own | `WorldProofs` |
| `Spawns` | a spawn of monsters | `WorldProofs` |
| `Raids` | raids and their events | `WorldProofs` |
| `Lists` | filtering and counting in lists, for `Dispatcher`, `KVStore`, `Connection` and `WaitingList` | `ListsProofs` |
| `Sums` | sums over finite sets, for `Market` and `HouseAuction` | `MoneyProofs` |
| `MCHandlers` | the eight components above that live on the dispatcher alone, for TLC | |

`SaveManager`, `Connection` and those eight take from `Dispatcher` that a handler
runs to its end before the next starts.  That is what `SerialIsExclusive` proves of it.

`MCHandlers` is one specification for eight components: no two of them share
a variable, so in a behaviour the component that `subject` names takes all the steps
and the others stay as they began.  What is checked is what eight runs would
check.  `WorldSpec` has those whose properties are about safety, `QueuesSpec` those
that need fairness.

Definitions keep the names of the source.  An operator `<definition>_<defect>`
right before a definition is a plausible wrong version of it; no specification uses one.
They say what each property is good for: putting one in the place of the
original makes a run fail.

### Dispatcher

* `posted[t]`, `postedSched[t]` are `ThreadTask::tasks` and `::scheduledTasks`;
  `mtasks`, `sched`, `ref`, `hasPending` are `m_tasks`, `scheduledTasks`,
  `scheduledTasksRef`, `hasPendingTasks`.  `task` holds every `Task` object.
* `pc` is the place in the loop of `Dispatcher::init`; `After` unrolls
  `executeEvents` (walk, walk parallel, serial, generic parallel),
  `executeScheduledEvents` and the merges between them.  `merging` visits one
  thread at a time, because `__mergeEvents` locks one at a time: a push to a
  thread that has been visited is seen by the next merge only.
* A push and its `notify()` are one step: both happen under the lock
  the merge takes.  The check of `hasPendingTasks` and the wait are three steps
  (`Park`, `Wait`, waking), because `notify()` takes no lock that the
  dispatcher holds between them; a signal before the wait is lost.
* Time is relative: a task carries what is left until it is due as of the cached
  `OTSYS_TIME()`, and only `NextIteration` refreshes that.  Overruns are `Lags`.
* `stopEvent` is taken by serial and scheduled events.  Scripts and C++ do call it
  only there.
* `inline` is the set of threads inside an action that `safeCall` ran in place.
* `Shutdown` is `CanaryServer::shutdown`: a notification, then `shuttingDown`,
  then the pool's `stopped` and join.
* `ExactlyOnePlace` counts the `Places` of a task: a thread's queue or list, a merged queue, the
  multiset, a thread that executes it, `done`.
* `EventuallyHandled` says two things: no task is left behind, and the events that
  begin with the server (`NumBeats`) go on for as long as it runs.

### SaveManager

* A character's state is the set of *changes* it has received; each shows in every
  table.  Two tables with different changes are a torn save.  `content[o][t]` is
  what object `o` would write to table `t`, `db[c][t]` what is there.
* `place[o]` is where an object is: in `Game::players`, among the dead, removed
  but still referenced (`gone`), or nowhere.  `Held` and `Watched` are the shared
  and weak pointers of threads and of tasks.
* `job[th]` is what a thread does: `load` and `save` go table by table, because
  other threads come in between and because a query commits by itself
  (`DBTransaction::executeWithinTransaction` opens its transaction after it has
  called the function).  `lock` is `PlayerLock`.
* The game thread takes one handler at a time (`GameIdle`).
* Login, logout, death, respawn, leaving as a dead player, `player:save()`,
  offline delivery, market partners, `scheduleAll`, `setGameState` with its kicks
  and its `saveAll` are the handlers.
* `SavedWhenAbsent` includes that a character is in memory once: two objects would
  both be right about what was stored and one of them wrong.

### KVStore and KVMap

`set`, `remove`, `get`, eviction and `saveAll` hold the mutex up to the access to
the database; this access is a step of its own (`saveEvicted`, `load`, `fill`,
`saveDeleted`, `saveRows`).  `View` is the refinement mapping: the cache, what is
on its way after an eviction, the table.  `recent` and `since` are history
variables for the values a crash may take a key back to.  Keys in `Volatile` are
those whose removal `get` may undo: it treats the marker of a removal as absent, reads
the table, where the row is until the next save, and caches it again.

### WaitingList

One call of `clientLogin` is one action.  Entries carry the time left; `Fresh` are
those that `cleanupList` keeps.  `drift` is the difference between the
lists' sizes and their entries that erasing an entry from the other list
leaves behind: `std::list::erase` unlinks the node but counts on
the list it was called on (libstdc++).  `LoginsInOrder` is both halves of the promise: who is let
in leaves a room for each of those ahead, and who is first with a room free gets in.

### Connection

* `c` is a `Connection` with its operations under way (`reads`, `writes`, the
  timers' waits), those completed (`ready`, handled by the `io_service`'s single
  thread, first completed first) and the dispatcher's tasks for it (`tasks`, `due`).
  `p` is the protocol, `peer` the client.  The functions of the class are operators
  on `c`, as they call each other under one recursive lock.
* A handler is one step, except where the dispatcher can come in: `onSendMessage`
  runs without the lock (`sealing`), and `resumeWork` takes none, so it can run
  before `parsePacket` has returned (`posted`).  The dispatcher's event for a packet is
  two steps, since the other thread may close the connection between
  `parsePacket` and `resumeWork`.
* Closing a socket ends what is under way with an error; a cancelled wait does
  nothing, but one that ended just before still has its handler.  `Alive` says
  that some `shared_ptr` is left, which `isConnectionExpired` asks.
* Outcomes that depend on what the client sent (a bad size, a wrong checksum, a
  refusal, too many packets) are choices; a client of the game port gets past the
  first message only if the challenge was sent.
* `Dispatcher` lets tasks overtake within a batch and expire, so tasks here do, unless
  `InOrder` and `Punctual` say otherwise.

### Market

* `live` is what the `Player` object has, or, of somebody who is not in the game, what is
  stored; `saved` is what the database says.  Money in the bank and in the inventory is one
  sum, and one kind of item is traded.
* `presence` decides which object a handler changes (`getMarketPlayerByGUID` looks
  among the dead too) and whether it is saved: only for a partner who is offline.
* A request is as many steps as it has commits.  `Create`, `Cancel` and `Accept` go up to the first:
  the row of the offer, or, of an acceptance, the save of an offline owner.  `ReduceOffer` takes what was
  accepted (`claim`) off its row, and `FinishRequest` saves the player (`unsaved`).  Between them the
  dispatcher does nothing else (`Idle`), but `Crash` may come.
* `NothingTakenBack` compares the two: what the database says a player has, the player has at least, or a kill
  would give it back.  Who has a request under way is excepted: the code has this window.  `missed` are
  those whose object lacks what is stored or promised: a dead owner an expired offer was paid back to, and who
  paid for goods that found no room.
* `checkExpiredOffers` reads rows on a pool thread into `batch` and schedules the next check
  (`armed`), which is what `ExpiredIsSettled` depends on;
  `processExpiredOffers` finds the rows later, with requests and deaths in between, and then
  settles one row a step, as `settling` excludes requests.
* `fees` contains the undefined `std::clamp` of a small total.

### Trade

* The fields are those of `Player` and `Game`.  An item is carried, lies on a spot or is in a
  bag; players stand on a line of spots, which is enough to be near an item, a partner,
  both or neither.
* `Exchange` has the order of `playerAcceptTrade`: both room tests, then both moves.  A
  move can fail after its test has passed: the test counts on a stack with room, and the move does
  not stack.
* `Disturbs` are the moves of an item that close a trade, `LeftBehind` the steps of a player;
  who dies or logs out calls `internalCloseTrade` like who gives up (`playerCloseTrade`).
* The document of a house is an item that `startTrade` makes for the trade; `executeTransfer` is part of
  the move.
* `onRestart` is `togglehouseTransferOnRestart`: both values are initial states.  With it a house changes
  hands at the next restart (`promised`, the `new_owner` of its row and `hasNewOwnerOnStartup`).  Once it is
  promised, `startTrade` makes the document and returns before the trade begins; nothing takes it back, and
  the house cannot be offered again until the restart (`DeedInTrade`).

### HouseAuction

* The fields are those of `House`; `Open` is the server running.  `Restart` makes every
  house wait to be loaded, `loadHouseInfo` settles one, `payHouses` takes the rent after.
* `DieBetween` is a process that dies between the two statements of a
  settlement; the next start loads the houses again.
* `Bid` does not look at the state of the house, nor does the code: what `canBidHouse` says is told to the
  player and not returned on.  So a rented house may have a bidder, `Transfer` may write over a bid (whose gold is
  lost), and a bid on a house in transfer refunds `bidHolderLimit` and the rent to a buyer who has not paid
  them.  `AuctionBooks` names these steps and their amounts (`TransferLoses`, `BidLoses`), with that
  of a start that dies (`CrashLoses`); in every other step gold is conserved.
* `paidFor` are the houses a dead start has left with `transfer_status` set although nobody buys them:
  `setOwner` writes the row without that column.

### Decay

* `decay.map` is `decayMap`, a sequence for each deadline; `event` is the event that
  `eventId` names and `strays` the ones it has forgotten: `stopDecay` may empty the map
  without stopping the event, and the next `startDecay` schedules another.
* `Kind` is the part of `ItemType` that decides: time, what it becomes, whether its time stops
  when it is taken off.  `transformItem` moves duration and state from one kind to the next.
* `internalDecayItem` runs inside `checkDecay`, for one item after the other of each deadline
  that has passed, and may put entries into the map that it walks through.

### Party

* `grouped` has both sides of the relation: a party's leader, members and invitees, a
  player's party and invitations.  The functions of the class are operators on it, as they call
  each other.
* A `Person` is an object: a character that comes back is another.  `Destroyed` is its end,
  when no party's lists own it any more, and makes the weak pointer of a leader expire.

### Spawns

* One `SpawnMonster`.  `spawned` is `spawnedMonsterMap`; an entry stays as `removed` until
  `cleanup`.  `alive` counts independently what is in the world.
* `checkEvent` is the event that `checkSpawnMonsterEvent` names, `strayChecks` are others:
  a script that removes the monster that has just appeared makes
  `startSpawnMonsterCheck` schedule one before the check schedules its own.
* `obstacle` is what a block meets: nothing, an hour or a player that keeps it empty, a full
  tile, a script that removes what appears.
* `overlooked` is a history variable: the empty blocks of which no check has been told.

### Raids

* `scheduled` has the pending calls of `executeRaidEvent` with the `Raid` they were made
  on, which `clear()` may have destroyed (`dead`).
* `reload` is `clear`, `loadFromXml` and `startup`, which Game.reload and the signal
  handler call in this order on the dispatcher.
* `astray` is a history variable: an event has run on a destroyed `Raid`, which is undefined
  behaviour; the model has the object go on as it was.

## 3. Runs

| Run | Question | Instance |
|---|---|---|
| `dispatcher_queues` | Are tasks lost, doubled, overtaken, or run next to game code? | 3 threads (loop, pool, outside), all four groups, expiring, scheduled posts excluded by `Delays`, 3 tasks |
| `dispatcher_live` | Is everything handled, do cycle events go on, does a stop hold, does shutdown end? | 1 beat and 2 more tasks, serial, parallel, scheduled, cycle, shutdown, lags |
| `save_sync` | Default configuration: absent characters stored, tables agree, one object | 2 characters (one of the staff), 2 objects each, 2 tables, 2 changes, 2 workers; all handlers but deaths |
| `save_fail` | What remains when statements fail and the process is killed? | 1 character, 1 worker, deaths, market, game states, failures, crashes |
| `save_async` | `toggleSaveAsync`: is every request covered and stored, does every save end? | 1 character, 3 workers, 2 requests |
| `save_torn` | Does a failing save leave the tables as they were? (no) | failures |
| `kv_sequential` | With one user of a key at a time: is the cache a map, across crashes? | 3 keys, cache of 2, 2 values, crashes |
| `kv_race` | Is a key that only one thread uses stable? (no) | 2 threads with their own keys |
| `connection` | One reader, one writer, soft closes drain, everything is closed and released | 2 packets, 2 messages and what the protocol adds, tasks overtake and expire |
| `connection_ghost` | Can a released protocol have a player? (yes) | 1 packet, tasks in order and in time |
| `world` | Trades, market, auctions, decay, parties, raids: do records on both sides agree, and is what changes hands accounted for? | 3 traders, coins, a bag, a house on 3 spots; 2 merchants, 2 offers, 1 kill within a request; 3 citizens, 1 house; 2 items of 5 kinds; 3 persons, 2 parties; 3 raids |
| `queues` | Waiting list, market, spawns: order, and does what must happen happen? | 5 players, 2 rooms; 2 merchants, 2 offers; 2 blocks |

**Why the bounds are enough to be interesting.**

* Dispatcher: one thread per role (the loop, a pool thread, an outside thread) and three
  tasks make a queue longer than the merged one (the swap), a task posted by a task, and a push
  on both sides of the merge.
* SaveManager: two tables are the least that can be torn; two changes distinguish old,
  middle and new; two objects are the least for a duplicate; three workers are one more than the
  `saveAll`s that can wait for each other with `MaxSaves = 2`.
* KVStore: three keys and room for two, so every insertion may evict.
* Connection: the first packet logs in, the second goes through the dispatcher; two messages
  are the least for an order.
* WaitingList: two rooms, five players (two premium, one exempt), ticks of 10 s against
  time-outs of 20 s.
* Trade: a third trader disturbs the other two; one has room for one thing, one for more, one
  only on a stack; spots at distance 1, 2 and 3 are the three answers of the range tests.
* Market: two offers are the least for one to change while a batch with the other is under
  way; an amount of two can be accepted in two parts.  `MaxKills` counts only kills between two commits of a handler: one in
  `world`, none in `queues`, where kills come between handlers.
* HouseAuction: three citizens are an owner, one who buys and one who bids against both; savings are enough for
  the higher bid with the rent and not for a second; a transfer costs nothing or one. `MaxWealth` is one
  more than all have in the beginning, so that gold may appear once. What two houses add, the limit of one for each citizen
  and the rule of one bid, is left to the theorems, which hold for any number: two citizens and two houses were
  checked alone, and are too slow next to the other components.
* Decay: two items make a deadline of two entries and a first and a second deadline; the torch
  decays into something that decays, the ring stops and goes on.
* Party: three persons are a leader, a successor and one more; the same properties were checked
  with four (2.6 million states).
* Spawns: one block of each sort (`Blockable`); `MaxChains = 2` appearances of one block under
  way at a time, which is a spawn checked every 2.1 seconds at most; `MaxStrays` is up to where
  strays are counted, not a limit to what happens.
* Raids: one that runs once, one that repeats, and one without events; two events
  are a first and a last.

`world` has about 957,000 distinct states and `queues` 53,389.  All bounds are constants with
"bound" in their comment (`MaxTasks`, `Incarnations`, `Changes`, `MaxSaves`, `MaxDrift`,
`MaxPackets`, `MaxSent`, `MaxOffers`, `MaxKills`, `MaxWealth`, `MaxTime`, `MaxChains`).

`CHECK_DEADLOCK FALSE` appears where the system may stop: after shutdown
or when a bound is used up.

### Fairness

* Dispatcher: the loop never stops by itself; functions of tasks return; a pool
  thread takes what it was given; a wait with a finite time-out ends; a shutdown
  that began goes on; over infinitely many turns the clock advances.  The
  environment owes nothing, spurious wake-ups included.  `Game::start` schedules
  cycle events that nobody stops (`NumBeats`): `EventuallyHandled` needs one,
  since a lost `notify()` is made up for only by the next time-out.
* SaveManager (`save_async`): each thread continues what it does (statements
  return, the mutex is free some time), idle workers take tasks.  Handlers owe
  nothing.
* Connection: both threads go on, timers end, TCP reports a client that is gone
  and delivers to one that reads.  A client need not send, nor read.
* WaitingList: a waiting client repeats its login, as the server tells it to;
  players leave some time; members of the staff do not come and go for ever.
* Market: a check that is scheduled is made (that each check schedules the next is a step of the
  model), every offer is old some day, the dispatcher runs its task, and the server does not crash for ever.
* Spawns: the dispatcher runs what is scheduled, and intervals pass.  Monsters need not die, nor
  obstacles go away.

### Findings

Each is a run that TLC finds violated, about one sentence of a comment, a doc or a test.

1. `save_torn`: `executeWithinTransaction` calls the function before it begins the
   transaction; a save that fails half way is not rolled back.
2. `kv_race`: between the unlock of an eviction and its write, or the read of a
   row and its insertion, a thread may overwrite what another one just stored,
   also of a key it does not use.
3. `connection_ghost`: `connect` asks whether the `Connection` object is gone to find out
   whether its protocol was released.  The object may outlive the release
   (handlers not yet run, a write to a client that does not read); the
   player is then attached to a protocol that nobody will release.

Reproducible with other values of the constants, or with a clause of a property left out:

* `kv_sequential` with `{}` for `Volatile` in the instance of `KVMap`, which is what
  `tests/unit/kv/kv_test.cpp:125-126` shows of a key that has no row yet: a key
  that has one comes back after its removal (`kv/kv.cpp:79`);
* `dispatcher_live` without beats (`NumBeats = 0`) fails `EventuallyHandled`: a `notify()`
  between the check of `hasPendingTasks` and the wait is lost;
* with `Market` and `MayDie`, `SavedWhenAbsent` fails: a dead player's object is found by
  `getMarketPlayerByGUID`, changed, and not saved since it is not "offline";
* with `Offline` and `MayDie`, `NeverRollsBack` fails: mail to a dead player
  goes into a temporary object, and the dead object's later save forgets it;
* with as many asynchronous `saveAll`s at once as pool threads, `SavesComplete`
  fails: each waits for tasks no thread is left to run;
* with `SafeCallers` containing an outside thread, `SafeCallOnDispatcher` fails; the code
  calls `safeCall` from tasks only (theorem `SafeCallFromTasks`);
* `LoginsInOrder` without `drift = 0` in `RoomAdmits` fails: `clientLogin` erases a premium
  player's entry from `waitList`, and the size of `priorityWaitList` stays one
  too large for every ordinary player after that;
* `SocketFreed` without `peer = "stalled"` fails: after a soft close the forced close
  of a time-out returns early, and a client that reads nothing keeps the socket;
* `ReleasedInTheEnd` without its `"expired"` fails unless `Punctual`: the event that
  releases a protocol expires after 30 seconds;
* `MarketBooks` without `Stale` fails: an offer that is partly accepted between the read of
  its row and its settlement is paid out by the old amount, and a dead owner gets what nobody
  stores.  With `LimitedInbox = TRUE` it fails too: a full inbox drops the goods;
* `NothingTakenBack` without `unsaved` fails: a kill between the row of an offer and the save of its player gives
  the goods back while the offer stands; without `missed` it fails for a dead owner;
* `TradeAllOrNothing` without its last disjunct fails: one side's item stays where it was, the
  other's has moved;
* `TradeInv` without `OwnershipIsDue` in `DeedInTrade` fails with `togglehouseTransferOnRestart`: the document
  of a promised house stays;
* with `LeaveWhileTrading = TRUE`, `HouseSoldByOwner` fails: `!leavehouse` does not end the
  trade of the document;
* `NotTorn` with `SaveAsync = TRUE` fails: a save on a pool thread reads while the game writes;
* `AuctionBooks` without `BidLoses`, without `TransferLoses` or without `CrashLoses` fails, and
  `BidsAreBacked` without `paidFor`: `transfer_status` survives the change of owner;
* `EndsWhenLeftAlone` without `Destroyed` fails with `leavePartyOnDeath = false`, the default: a
  dead leader who goes leaves a party nobody can leave;
* `RaidsKept` without `~astray` fails: loading the raids again while one that runs once is
  running leaves its event behind, and this event ends the raid that runs by then;
* `SpawnsWatched` without `overlooked` fails: a block that was taken when the server
  started, or whose monster's `onDisappear` script returned true, waits for another one of
  its spawn.

## 4. Proofs

For every value of the constants that the modules' assumptions allow:

| Module | Theorem | States | Assuming |
|---|---|---|---|
| `DispatcherProofs` | `TypeCorrect` | `[]TypeOK` | |
| | `Invariance` | `[]Inv`, the inductive invariant | |
| | `RefIsAccurate` | `scheduledTasksRef` holds exactly the scheduled events that may still run | |
| | `StoppedNeverStarts` | a stopped event never starts (`StopIsFinal`) | |
| | `SerialIsExclusive` | one thread in game state outside the parallel phases | `safeCall` is called by tasks |
| | `SafeCallFromTasks` | an action given to `safeCall` runs on the dispatcher's thread | the same |
| | `PlacesKept` | `[](Inv /\ PlacesInv)`, the inductive invariant of the queues | |
| | `TasksInOnePlace` | a task that is posted is in one place, once (`ExactlyOnePlace`) | |
| | `OvertakingInBatch` | a serial event overtakes another only in a batch (`OvertakingStaysInBatch`) | |
| `SaveProofs` | `SaveInvariance` | `[]SaveInv`, the inductive invariant | `Sync` |
| | `SavedAlways`, `NeverTorn` | `SavedWhenAbsent`, `NotTorn` | `Sync` |
| | `TornInOrderAlways`, `NoRollback` | `TornInOrder`, `NeverRollsBack` | `OneCopy` |
| | `RequestsCovered` | `RequestCovered` | `OneEach` |
| | `OneObjectAlways` | `TypeOK`, and a character is in memory once | no death within a login; every mode, failures and crashes included |
| `KVProofs` | `QueueMatches` | `store_` and `lruQueue_` agree (`QueueMatchesStore`) | |
| | `StoreIsMap` | `KVStore` implements `KVMap` (`ImplementsMap`) | `OneUser` |
| | `StableWithRoom` | a key changes by its owner only (`OwnKeysStable`) | `RoomForAll` |
| `ConnectionProofs` | `ConnectionKept` | `[]ConnectionInv`, the inductive invariant | |
| | `BuffersKept`, `SealedKept`, `SoftClosesFlush` | `BuffersOwned`, `SealedInOrder`, `SoftCloseFlushes` | |
| `TradeProofs` | `TradeInvariance` | `[]TradeInv` | |
| | `ShownGiven` | `ShownIsGiven` | |
| | `DeedInvariance`, `SoldByOwner`, `AllOrNothing` | `[]DeedOfOwner`, `HouseSoldByOwner`, `TradeAllOrNothing` | no `!leavehouse` during the trade |
| `MoneyProofs` | `MarketTypes`, `NothingBack` | `[]MarketTypeOK`, `[]NothingTakenBack` | |
| | `BooksBalance` | `MarketBooks` | no limit of the inbox |
| | `AuctionInvariance`, `AuctionsBalance` | `[]BidsAreBacked`, `AuctionBooks` | |
| `WorldProofs` | `SpawnsAlwaysWatched` | `[]SpawnsWatched` | |
| | `RaidsInvariance`, `RaidsAlwaysKept` | `[]RaidsInv`, `[]RaidsKept` | |
| | `ReferencesKept`, `LoginsOrdered` | `[]ReferencesMatch`, `LoginsInOrder` | |
| | `PartiesAlwaysMatch`, `PartiesEndWell` | `[]PartiesMatch`, `EndsWhenLeftAlone` | |
| | `AlwaysDecaysInTime` | `[]DecaysInTime` | `Settles` |

`Sync` is the default mode without failing statements and crashes, in which either nobody
dies or nobody is changed while not in the game; the runs show that it is needed.  `OneCopy`
is the default mode with failing statements and crashes.  `OneEach` is any mode, crashes included, without failing
statements, in which a character has one `Player` object: a save that fails drops its request, and
`doSavePlayer` of an older object erases the stamp of the newer one's request.  `OneUser` is one thread that
uses the store; `RoomForAll` is any number of threads that use keys of their own, none of them removed, with room
for all keys.  `kv_race` shows what happens with less room.

`Settles` is about `items.xml`: what a kind with a time decays to, and what that decays to, has a time
itself or is a kind that `setID` stops.  It is true of all kinds but 7540, 26135 and 28730, which
have `decayTo` 0 and no time.  It is used only where a script sets a duration of 0 on an item that is
listed: `startDecay` makes it one of these kinds on the spot, `setID` leaves it pending, and
it stays in `decayMap` although it does not decay any more; with such a kind in the instance `DecaysInTime`
is violated.  `DecayAssumption` has what is true of the whole file: no kind with a
time and `stopTime` has another to decay to, none decays to itself, and kinds with
a time and nothing to decay to (a few rings and fires) come only from their like.

**Dispatcher.**  `RefAccurate` alone is not inductive: when a scheduled
event returns and leaves the map, nothing says it is not in a list as well, and when
it is re-armed nothing says it was still in the map.  `Inv` adds that queues hold
tasks of their own group (`KindsOK`), that who executes what fits the phase
(`RunningOK`), that a live scheduled event is in one list or in execution
(`ListsOK`), and that where `stopEvent` found nothing, nothing was left to stop
(`StopAskedOK`).  One lemma per action or group of actions; `StoppedNeverStarts`
follows from `StopAskedOK` and from the fact that only live tasks start.

`ExactlyOnePlace` and `OvertakingStaysInBatch` need more.  `QueuesOK`: no queue repeats a task; what a
thread has posted is its own, and neither merged nor started.  `ExecutingOK`: two threads
never execute the same task, nor one that is done.  `NoneLost`: a task that is not done is in execution or in the
queue of its group, an event in the multiset or in a list.  `BatchOK`: what a thread has posted and the
dispatcher has not merged is younger than everything of that thread and group that is merged or
runs, whichever of the two queues `__mergeEvents` swaps and appends.

**SaveManager.**  That an absent character is stored rests on what each thread does
at that time.  `SaveInv` says: the pool has only parts of a `saveAll` that the game thread waits
for (`QueueOK`, `WorkersOK`); what a handler loads is absent, and what it has loaded so
far is current (`GameOK`); who is in memory is there once and complete (`PlacesOK`); a
save has written the tables up to its place and found the others alike (`TablesOK`); and a
character nobody has is stored (`StoredOK`).  `OneObjectAlways` has invariants of its own, as workers do anything there: `TypeInv`, and
`OnceInv`, that a lookup and the object it leads to are one handler of the game thread.

`OrderInv` is about what survives a failure: whoever holds a character for good is `Ahead` of its rows in every table
and has in an earlier table what it has in a later one; a save that stops half way leaves rows that are in order again,
and so does a process that dies, since the next load reads what is there.  `CoverInv` follows a request
(`Covered`): its changes are stored, or a task that waits has the stamp of `m_playerMap`, or a thread has it in hand:
about to compare the stamp, to take the lock, or saving, with the changes in every table it has passed.

**KVStore.**  `CacheInv` says that the queue holds each key of the cache once and no other.  `MapInv`, for one
thread, says where the value of a key may be: what the table, the cache and an eviction under way hold
is among what a crash may leave, and `saveAll` knows the value of every key as long as it runs.  With it
each step maps to a step of `KVMap` or changes nothing there.  `RoomInv`, for many threads, says that what a
thread is about to fill in is not in the cache, as nobody else uses the key and nothing is evicted.

**Connection.**  `ConnectionInv` counts: reads under way, their completions not yet handled and tasks that hold a packet are
one together while the connection is open (`Held`), and so are writes under way, their completions, the
handlers that wake the writer, and `onSendMessage`, while the queue holds something (`Queued`).  The queue is what has been
accepted and not yet written, with consecutive numbers, and what has been sealed is delivered or on its way while the socket is open
(`Flowing`).  Its parts are stated of a record, because a handler is a chain of functions on such records, each with a
lemma of its own.  The branch of `internalWorker` for an empty queue is never taken.

**Lists.**  `Only` is a recursive function.  The induction theorems of the libraries take an operator as a parameter; here induction
over lists is stated of a set of lists instead, and comes from `NatLessThanWellFounded`.

**Trade.**  `TradeInv` is inductive as it stands: lock list, partners and reach depend on each
other, and each clause is what an early return or a closing keeps true.  A document that no trade takes back appears only
in `startTrade` when ownership is due, and ownership that is due stays so until the restart.  What is shown stays because every
move into or out of a traded bag closes the trade (`Disturbs`), and neither side's item is put into
the other's offer (`Places`); that both sides get theirs needs that a house on offer belongs to who offers it and
is not promised (`DeedOfOwner`).

**HouseAuction.**  `BooksInv` says the clauses of `BidsAreBacked` of one house (`Backed`, `Marked`) and of two
(`Twice`), and adds what a start relies on: of a house to be loaded, one in transfer with a dead start's mark
is one that a buyer has accepted.
For `AuctionBooks` a step changes one house and at most two accounts (`WealthMoves`): what a house
holds (`HeldOf`) grows by what the account pays, but for the three steps that the property names.

**Market.**  Purses stay natural numbers because every handler asks for the gold or the goods in the
step that takes them, and a settled row is never negative.  `NothingTakenBack` needs that what is still to come off a row
is in it (`ClaimHolds`), and then each step is looked at for the players it changes: a request takes from who is
`unsaved` from then on, a credit to the object alone makes it larger than its row, one to the row alone is noted in `missed`.
`MarketBooks` compares two sums before and after a step: each handler moves
as much between purses, offers and the accepted amount as leaves the sums alone.  `RowsInv` has what this
rests on: a row that was read still says whether its offer sells (`SameRows`), so that a settlement pays back what the
offer holds unless the row is stale.

**Sums.**  `Total` adds the terms of a set in an order that `CHOOSE` takes.  `TotalSplit` says that the
order does not matter, by an induction over the subsets of a finite set (`SubsetInduction`, again stated of a set and not of
an operator); from it follow the sums after one term has changed, come or gone.

**Spawns.**  `SpawnsWatched` is inductive as it stands.  The chains that are under way need not be counted: a
chain finds the block filled and gives up, and a check that ends without scheduling another has
found every block in the map.

**Raids.**  `RaidsKept` needs `FoundByClear`: an event under way belongs to a raid of the list or
to one that runs once, so that what `clear()` does not find is never a raid that repeats.

**WaitingList.**  `ReferencesMatch` is inductive as it stands: cleaning and erasing keep a list free of repetitions, and
`Fresh` is exactly who is left in the cleaned lists.  `LoginsInOrder` follows from it: the place of
a player in its list is one more than the number of those ahead, and `drift` only makes the
slot larger than that.

**Party.**  `PartiesMatch` is not inductive: it says nothing of objects that are gone, which a party
may own, and of those that are free, which may become a new player.  `PartyInv` adds that who names an
invitation has it, that a party that exists has invited nobody who is free, that a leader is
inside, and that a free object is in no list.  It is stated of one party at a time (`Team`), of its own six values,
so that a step need be looked at only where it changes one (`Untouched`); one lemma for each
function of class `Party` says that it keeps all of them.  `Withdrawing` treats the invitations a player gives back
on leaving together: no two of the parties concerned have a leader in common.

**Decay.**  `DecaysInTime` does not say why it stays true: what is listed can decay and has a time left
(otherwise `startDecay` after a transformation would leave it in its list), and no stamp is further away
than the longest life.  `DecayInv` adds this.  Inside a handler it does not hold of the item in hand (`AllBut`), and
inside `checkDecay` not of those that were due and have not ended (`Limbo`), nor do the remaining lists need a timer, as
long as they come after the first one left (`Good`, with the set `X` of the former and the deadlines `R`).  Each function of
class `Decay` has a lemma about what it makes of such a state; `checkDecay` ends one item after the other, by
induction over the list `Due`.  A new timer for an earlier deadline may replace one that was watching others, because it comes
before all of them (`Scheduling`).

Every safety invariant and action property that a passing run checks is a theorem, under the assumptions above.
Only model-checked: liveness, as fairness and ENABLED are out of the prover's reach, and the
properties of the three runs that expect a violation.

## 5. Atomicity

* A push and its notification (above).  A merge of one thread (its mutex).
* `KVStore`: each block under the mutex; each statement.  A very long batch of
  `saveAll` may be split into several statements; the model takes it as one.
* `SaveManager`: each table of a load or save; a handler of the game otherwise.
* The components of `MCHandlers`: a handler, a scheduled event, or one house or row of a
  loop over them where the process may die or the dispatcher may be asked in between.  Scripts
  that such a handler calls are choices of their outcome.
* `Connection`: a completion handler up to the unlocked parts above; a task.  The
  data race on `readTimer` between `resumeWork` and the end of `parsePacket` is undefined
  behaviour; the model takes each use of a timer as atomic, in either order.

## 6. Not modelled, and why

* Dispatcher: how thread ids are given out; recursion of the pool's own task
  types; `asyncEvent` from the last parallel phase of a turn waits for the next turn
  like in the code, without extra state.
* SaveManager: data races on `m_playerMap` and on the iteration of
  `Game::players` from a pool thread (undefined behaviour; the model takes
  these accesses as atomic); `PlayerLock` in quick loot; handlers between
  `SHUTDOWN` and the end of `Game::shutdown`; `Login` is one step for two checks: on the connection's thread whether the character lies dead
  (`server/network/protocol/protocolgame.cpp:873-879`), on the dispatcher whether it is in the game (582).  A
  death between them, for which a client has to log in while the character fights, is left out; guilds, map and key-value parts of
  `saveAll`; tables saved only for players in the game are treated like others.
* KVStore: `keys` (only reads), `flush` (used by tests), failing statements.
* Connection: exceptions of asio functions (errors reach the handlers), `closeAll`
  at the end of the process, the acceptor, `getIP`, the status and raw protocols, the
  output buffer's own overflow, encryption and formats.
* WaitingList: an account whose premium time ends while it waits.
* Market: the depot as a container, tiers, history, statistics, coins.
* Trade: weights, trades inside depots, and the restart that makes a promised owner the owner.  `!leavehouse` of a house
  whose document is on offer is left out by `LeaveWhileTrading = FALSE`, and so is what it leads to with
  `togglehouseTransferOnRestart`: `executeTransfer` refuses (`map/house/house.cpp:663`), and the document stays.
* HouseAuction: a crash while the server runs, which loses whatever was not saved of players and houses alike;
  `togglehouseTransferOnRestart` (off by default), with which `loadHouseInfo` looks at `new_owner` first
  (`io/iomapserialize.cpp:323-332`) and a house is set to available when its items have reached the depot; access lists, beds.
* Decay: items of the map that are kept when they end, and transformations into another class.
* Party: shared experience, the analyser.  Guilds are tables changed by single handlers.
* Spawns: which of its kinds a block chooses, spawns made by scripts (`setSpawnPosition`), spawns of
  NPCs, which are the same class with fewer cases.
* Raids: what the events do, scripts among them that load the raids again, and the order of
  the rolls.  `required` of `checkRaids` wraps at 32 bits (`lua/creature/raids.cpp:124`): how likely a raid
  is depends on that, whether it may start does not.
* Bank, prey, accounts: one handler on one record each; a transfer to somebody who is not
  in the game is `SaveManager`'s load, change and save.
* Rules of the game, geometry, encoding, Lua and content: large, sequential and
  data-driven.  They are most of the sources, which is why the map covers a small share of
  the repository's lines.  See the notes in `PROJECT.json`.

Hazards seen while modelling that no property covers (with those in `PROJECT.json` that have no
property, where the code does what a property would forbid, so that the property excepts it or its run
leaves it out; section 3 says with what it can be reproduced):

* `game/game.cpp:11417`: what `canBidHouse` returns is sent and not returned on, so that houses that are not for
  sale are bid for, with the gold made and lost that `BidLoses` and `TransferLoses` say.
* `server/network/protocol/protocolgame.cpp:582`: `login` does not look among the dead; that a character is in memory once
  (`SavedWhenAbsent`, `OneObjectAlways`) takes that nobody dies between the check at 876 and `login`.
* `lua/functions/map/house_functions.cpp:254`: the document of a house whose new owner is due stays behind.
* `lib/thread/thread_pool.hpp:54`: two new threads may read the same id.
* `game/scheduling/dispatcher.cpp:272`: `stopEvent` from two threads; only the dispatcher calls it.
* `game/scheduling/save_manager.cpp:122`: `m_playerMap` is written without a mutex.
* `game/scheduling/save_manager.cpp:123`: asynchronous saves of two objects of a character may
  overtake each other; `SavedWhenAbsent` does not hold in that mode.
* `kv/kv.cpp:57`, `kv/kv_sql.cpp:86`: results of failing statements are ignored.
* `kv/kv.cpp:80`: a value set between two critical sections of `get` is overwritten (as in `kv_race`).
* `creatures/players/management/waitlist.cpp:99`: premium time that ends while waiting.
* `game/game.cpp:9587`: an offer whose row cannot be written takes its goods away.
* `game/game.cpp:2894`: `decayTo = -1` cast to an id is 65535, which `getItemType` answers with an empty
  entry (kind `Never` of `Decay`).
* `map/house/house.cpp:99`: the new owner of a house is written at once, what is in the house and who
  has paid later.
* `database/database.cpp:404`: rows collected by a `DBInsert` are lost if nobody executes it.
* `lua/creature/raids.cpp:114`: switching `disableLegacyRaids` on and off ends the chain of checks until
  the raids are loaded again.
* `creatures/monsters/spawns/spawn_monster.cpp:445`: a variant that lacks a kind drops it for good.

## 7. Plan

1. *Done*: `Dispatcher`, `SaveManager` and its proofs, `KVMap`/`KVStore`, `WaitingList`, `Connection`,
   `Market`, `Trade`, `HouseAuction`, `Decay`, `Party`, `Spawns`, `Raids`, with proofs for all of them.
2. `Prey` slots and `Bank` transfers as handlers on one player next to
   `SaveManager`'s offline deliveries; NPC spawns; zones as sets of creatures kept by moves.
3. `DBInsert` with its batches, and retries of the database, below `SaveManager`'s tables.
4. Theorems: the properties with `Sync` or `OneEach` in the other modes as far as they hold there; `DecaysInTime` without
   `Settles` for scripts that set no duration of 0 on listed items.

Runs are few on purpose: each asks one question, and a run that documents a disagreement gives
way to one of a new module where the two compete.
