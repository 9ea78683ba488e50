# A formal model of the Teeworlds MRPG server

This directory holds TLA+ modules for the parts of the server
(`src/src/engine/server`, `src/src/game/server`) whose correctness depends on the
order in which things happen, the TLC configurations that model-check them, and
TLAPS proofs about eight of them (the SQL pool, saves of items, the identifier pool,
groups, accounts, trade, the connection and the dungeon).
`PROJECT.json` is the index: which definition stands for which lines, which property belongs to which hazard, what each run
checks, and a mutant of the code for every property.

Paths below are relative to `src/src/` unless they start with `src/`.

## 1. The system

One process runs the game. The **game thread** ticks the worlds, runs the
commands of players, and is the only one that touches most of the data in memory.
Everything that lasts is in a MySQL database, reached in two ways:

- *synchronously*: a SELECT on the game thread, which blocks it and sees the
  tables as they are at that moment;
- *asynchronously*: a SELECT or a change (INSERT, UPDATE, DELETE) handed to a
  pool of worker threads. Changes are fire-and-forget for nearly every caller; a
  callback, when there is one, runs **on the worker thread**.

So memory is ahead of the tables, statements of one player may be executed in
another order than they were issued in, a statement may be executed twice or
never, and a synchronous SELECT may read what a queued change is about to
overwrite. Most of the hard behaviour of this program comes from that, and this is
why the SQL pool is the first module and the saves that go through it the next.

### Components

| component | state it keeps | operations | interacts with | hard behaviour | correct when |
|---|---|---|---|---|---|
| SQL pool (`engine/server/sql_connect_pool.*`) | task queue, stop flag, threads, a connection per worker, lost-query log | `AtExecute`, `Enqueue`, `EnqueueRetry`, `WorkerThread`, destructor | called by all that saves; callbacks into components | threads, timed waits, two levels of retry, shutdown, back pressure | a task is in one place, ends once, is told once; the pool drains and stops |
| Synchronous queries (same files) | connections | `ExecuteSelectSync` | game thread | failure looks like an empty table | callers survive an empty answer |
| Saving of items (`game/server/core/components/inventory/item_data.cpp`) | amount, durability and settings of an item, serial of the latest save | `Save`, finalising callback, repair of everything, login | pool, table `tw_accounts_items` | reordering, retries, crash, login while saving, a second writer | table ends with what the player holds |
| Snapshot identifiers (`engine/server/snapshot_ids_pool.*`) | array with two linked lists, counters | `NewID`, `FreeID`, `TimeoutIDs` | entities of all worlds | long call sequences, narrow integers, exhaustion | an identifier has one owner; lists stay intact |
| Player groups (`.../groups/`) | map of groups, pointer per account | create, invite, accept, leave, kick, change owner, disband | votes, pool, `tw_groups`, menus | stale menus and invitations, table behind memory, restart | leader is a member, one group per player, limit |
| Optional votes (`game/server/core/tools/vote_optional.*`) | queue of questions per client | create, run, end | groups, guilds, duels | client number outlives the player | an answer is given by who was asked |
| Accounts: login and registration (`.../accounts/account_manager.cpp`, `tools/db_async_context.*`) | who is logged in where, three tables | chains of asynchronous queries, rename, ban | pool, all components | client number reused mid-chain, checks in another step than their use, half a registration | an account is online once, for who asked for it |
| Currency and bank (`.../accounts/account_data.cpp`, `houses/base/bank_manager.cpp`) | gold in the hand, bank, safe | `SpendCurrency`, deposit, withdraw | items, trade, houses | capacity limits, several rows for one act | gold is conserved |
| Auction, mail, houses (`.../auction`, `.../mails`, `.../houses`) | slots and a house in memory, letters in a table | sell, buy, cancel, send, claim, rent | items, pool, synchronous SELECT | IDs read while INSERTs are queued, DELETE still queued on the second click | an item is in one place |
| Dungeons (`game/server/worldmodes/dungeon`, `.../duties`, `core/scenarios/base`) | state, timers, participants and lives of a run | enter, get ready, start, die, respawn, complete, leave | clients that change worlds, scripts | people arriving late, leaving in any way, timers that run out in any order | a run belongs to those in it, and ends |
| Guilds, warehouse, crafting | members, bank, owner, stores | many menu commands | pool, currency | as groups | limits and balances |
| Quests, skills, achievements, event listeners | progress of a player | events of the game | each other through listeners | a listener that goes away while listeners are called | a step is counted once |
| Bots, AI, path finding, entities, game world | positions, timers | one step per tick | – | real numbers | – |
| Connection (`engine/shared/network*.cpp`) | state, sequence numbers, resend buffer | connect, send, receive, time out | UDP | loss, duplication, reordering, reconnects | messages arrive once, in order |
| Server (`engine/server/server.cpp`) | state per client, world of a client | connect, change world, drop | network, game | a client that leaves in any state | slots are released |
| Snapshots, register, bans, console, HTTP, base library, client code | – | inherited from DDNet | – | – | – |

`PROJECT.json` lists them under `components` with the reason for each that is not
modelled, and what is hard to test under `hazards`, each at its line.

## 2. Modules

| module | what it is | source |
|---|---|---|
| `TaskLife` | abstract: what a caller may rely on when it hands a statement to the pool | `AtExecute` |
| `SqlPool` | the pool in detail; implements `TaskLife` | `sql_connect_pool.cpp` |
| `SqlPool_proofs` | theorems about `SqlPool` | |
| `InventorySave` | item saves and repairs on top of a pool | `item_data.cpp:11-113`, `inventory_manager.cpp` |
| `InventorySave_proofs` | theorems about `InventorySave` | |
| `IdPool` | abstract: an identifier has one owner | `SnapNewID`, `SnapFreeID` |
| `SnapIdPool` | the two linked lists; implements `IdPool` | `snapshot_ids_pool.cpp` |
| `SnapIdPool_proofs` | theorems about `SnapIdPool` | |
| `Groups` | groups, their votes, menus and rows, on top of a pool | `groups/*.cpp`, `vote_optional.cpp` |
| `Groups_proofs` | theorems about `Groups` | |
| `Accounts` | registration and login, names and bans, on top of a pool | `account_manager.cpp`, `db_async_context.*` |
| `Accounts_proofs` | theorems about `Accounts` | |
| `Market` | abstract: gold and goods change hands and are conserved | |
| `Trade` | auction, mail, bank and house over memory, tables and pool; implements `Market` | `auction_manager.cpp`, `mail*_*.cpp`, `house_data.cpp`, `account_data.cpp` |
| `Trade_proofs` | theorems about `Trade`, and that it implements `Market` | |
| `NetConn` | two ends of a connection over a network that loses, repeats and reorders | `network_conn.cpp`, `network.cpp`, `network_server.cpp`, `network_client.cpp` |
| `NetConn_proofs` | theorems about `NetConn` | |
| `Dungeon` | a dungeon, its scenario and the clients in it | `dungeon.cpp`, `scenario_base*.cpp`, `player.cpp` |
| `Dungeon_proofs` | theorems about `Dungeon` | |
| `MC...` | instances for TLC: constants, bounds and symmetry sets only | |

How they compose: every module but `NetConn`, `SnapIdPool` and `Dungeon` has a
`queue`, `fifo` or `jobs` that stands for the SQL pool. What it assumes of the pool is
what `TaskLife` promises and `SqlPool` implements: a statement is tried a bounded
number of times, takes effect once or more, is told once or is given up, and the
order is anybody's. `Groups` and `Trade` let an account be logged in at most once;
`Accounts` shows when that is so (`OnlineOnce`).

Definitions whose comment begins with *Variant:* are wrong on purpose. They are
the mutants of `PROJECT.json`, plausible slips in the code (a forgotten reset, a
dropped guard, a swapped comparison), stand before the definition they vary, and
are used nowhere in the specifications. Each property is violated when the
definition is replaced by one of its variants. In most modules the type invariant
is the first conjunct of another invariant.

### SqlPool

| variable | code |
|---|---|
| `pc[th]` | position of a thread in `WorkerThread` or `EnqueueTask`; `idle` for a caller |
| `hand[th]` | the `CTask` a thread holds (moved, never copied, in the code), with its `m_RetryCount` |
| `queue` | `m_qTasks`; `m_QueueSize` is its length |
| `dtor` | progress of `~CThreadPool`; `m_bStop` is `Stop`, true from `storing` on |
| `todo`, `outcome`, `applied`, `calls`, `logged` | what nobody has asked for yet, and history: what became of each task. History guards nothing |

`m_mxQueue` is not a variable. Each critical section is one action; where a
thread goes to sleep the section is split into evaluating the predicate
(`fetchHold`, `enqHold`: the lock is held, `LockFree` keeps everybody else out) and
entering the wait set (`fetchWait`, `enqWait`). The destructor stores `m_bStop`
without the lock and can come between. There is one condition variable for
threads waiting for room and for workers waiting for work: `NotifyOne` wakes *any*
sleeper. `Timeout` is the end of a timed wait or a spurious wakeup.

`NoConnection` is the branch where a worker has no connection
(`EnqueueRetry`); `SelectOk`, `SelectLost`, `SelectError`, `DmlOk`, `DmlLost`,
`DmlError` are the ways through the task's own code. Connections are not variables:
whether one is usable is chosen at every task. A DML whose connection broke may or
may not have been applied. Callbacks of tasks in `Throwing` may raise; the code
calls those again with an empty result, and `ToldOnce` excludes them. A callback,
whatever it is told, may itself submit, on the worker (`Answered`), which is how the
chains of login and registration work. `sv_sql_queue_max_size 0`, a queue without a
limit, is not an instance: every wait for room is then absent.

### InventorySave

`item` is what the player holds, amount and durability; `pending` is
`ms_PendingSerials`, `starting` the save between taking its serial and the check in
`OnWrite`, `fifo` and `running` the pool reduced to what a caller can observe of it,
`row` the youngest row of the key. Add, Remove, equipping and enchanting all end in
`Save` and are one step: the amount becomes anything and is saved. `Wear` is a use of
a tool, which saves too. `RepairAll` is `RepairDurabilityItems`: one UPDATE of all rows,
without a serial, and then a save of every worn item; `toMend` holds the items it has
not come to. A statement may break and be repeated (`Break`), fail for good
(`Fail`: its callback is told at once) or be dropped (`Drop`: no callback). `Login` is
the synchronous SELECT, which does not wait for the pool and
comes back empty when the connection fails. `Crash` forgets memory and pool. The
ghosts record *why* a row may differ, so that the properties can say that nothing
else makes it differ.

A broken item (durability 0) is written as 100, as `Start` does. Settings and
enchantment travel in the same statement as the amount and behave like it.

### SnapIdPool

`next`, `state`, `timeout` are the fields of `m_aIDs`; heads, tail and counters have
the code's names. `NewID` and `TimeoutIDs` are a first step that sets `op`, repeated
`RemoveFirstTimeout`, and a last step; `op` keeps other calls out in between, since the
pool is used by one thread. `freeSeq` and `timedSeq` are history, the sequences the
lists ought to contain. `timeout` is stored by `ToInt`, which keeps the low bits as a
narrowing conversion to `int` does: `m_Timeout` is an `int` and `time_get()` counts
nanoseconds.

### Groups

`groups` is the static map, `pointer` the `weak_ptr` of an online account, `rows` the
table, `queue` the statements in the pool, executed in any order or given up. A
`weak_ptr` to a `GroupData` that was replaced is told from one to its successor by
`obj`. `menu` is what the screen of a client still offers: the server rebuilds it
later and only for one world, so an entry may be of any age. `votes` hold only the
group ID, as the lambda in the code does. `Disband` reads `m_ID` after the
`erase` that destroys the object, so its DELETE carries the right ID or one no row
has. `aborted` is a failed `dbg_assert`, after which nothing happens.

A login has two parts. `Login` is `CAccountData::Init`, from which on the player is
authed; `OnPlayerLogin` looks for his group later, on the worker that ran the chain,
one group per step (`entering`). In between the player has no group for `HasGroup`, and may
found or join one although another lists him.

The ghost `clean` turns FALSE exactly when the table is bound to differ from memory:
a statement is given up or overtaken by one of the same group, a group is replaced,
the server stops with statements queued or starts with a SELECT that fails. `early` has
the accounts that founded or joined a group during their login. That the worker reads
the map while the game thread may change it is a data race; the model reads one group at a time, and
a crash out of it is a `Restart`.

Left out: colours, names, messages.

### Accounts

| variable | code |
|---|---|
| `client[c]` | the player on a number: `visit` (0: nobody), the name the server shows, the account in `CAccountData`, the guest login of `CPlayer` |
| `jobs` | the next statement of each chain, with what its callback holds (`DbAsync::CContext` and the strings moved into it) |
| `accounts`, `nick`, `banned` | `tw_accounts`, `tw_accounts_data`, `tw_accounts_bans` |
| `aborted` | the assertion in `CAccountData::Init` |
| `happened` | history: causes, each an event, of states the code does not mean to be in |

An action is a callback, run after its query, or a command of a player. A query and
its callback are one step, since nothing is read between them that is read again. A
chain finds its player by client number when each answer comes, so after somebody left
it finds nobody, or the next player on the number. Commands may start a second chain of
the same client.

The pool does to these statements what it does to all: it repeats one that was applied
when the connection is lost, gives up with the callback told, or drops it without a
callback (`Dropped`). So a registration may insert two accounts, as `tw_accounts` has no
unique key but its ID, of which the next step finds the younger (`Newest`); the
INSERT of the data, repeated, finds the name taken, and `Cleanup` removes an
account that has data; `Cleanup` itself may be repeated and then take an older row of the two, since it
names login and salt and takes one, or be refused because of a ban. The ghost `happened` has
these as causes: `kept` names the registration that was inserted twice or not cleaned
up, `removed` the account that went with its data. Left out: timeout codes, PIN codes, vouchers and worlds. Logins by
chat use `Secrets` only; the login of a guest is his nickname.

### Market and Trade

`Market` is the promise: purses, bags, offers, letters and a safe, and steps that move
gold and goods among them. It says nothing of tables, statements and who is online.
`Trade` is the code:

| variable | code |
|---|---|
| `acct[a]` | `m_Value` of `itGold` and of the goods, `m_Bank`; what an offline player left with |
| `slots`, `house` | `CAuctionSlot::Data()`, `CHouse` with its `CBankManager` |
| `table` | all tables the trade writes; letters are only here |
| `queue` | statements in the pool, executed in any order, repeated or given up |
| `plan`, `calls`, `faults` | bounds of a behaviour |
| `clean` | history: FALSE once a named cause has made memory and tables part |

The mapping adds hand and bank, takes the slots in memory for the offers, and for the
letters the rows nobody has asked to delete with those on their way to the table, each
counted (`BagOf`). Every
command must be one `Market` step or none; `clean` maps to `trusted`, after which nothing
is promised. The causes that make `clean` FALSE, each checked to be needed, are: a
statement overtaken by a later one on its row, repeated after such, a letter sent
twice by a retry, a statement given up, two slots with one ID, a letter claimed again
while its DELETE is queued, a login while statements are pending or with a failed
SELECT, a restart with statements pending. Not all of them are failures of database or process:
two workers are enough for an overtaking, two clicks for a letter claimed again, two
sellers for one ID, a quick return for a login too early. **Within them lies all the risk of
this code**: there are no transactions, no claim is locked, and trades are conserved only as long
as none of them occurs. `ImplementsMarket` shows that nothing else breaks them.

`GetGoldCapacity` depends on equipment and profession, which change at any time:
a command that asks for it gets any of `Capacities`. Gold in the hand may exceed
it; `Add` and `UpdateEquippedStats` move what is over to the bank, other changes
of the attribute do not. No property bounds the hand.

Abstracted: goods are one item that does not stack; the days a rent lasts are
"may end at any moment"; menus in which a price is chosen are one choice; the
queries of a login are one step; percentages are integer divisions. Left out: doors,
decorations, farm zones, houses of guilds, and titles and items that can be neither dropped
nor traded, which become material when they are claimed a second time
(`item_data.cpp:297`) instead of a new letter. A house whose safe is empty is sold for 1
gold (`Send` of an amount of at least 1), which is what `Market!Release` says.

### NetConn

| variable | code |
|---|---|
| `conn[e]` | `CNetConnection`: state, `m_Sequence`, `m_Ack`, `m_PeerAck`, `m_Buffer`, `m_Construct` |
| `rest[e]` | what `m_RecvUnpacker` has not yet fetched of a packet |
| `net[e]` | packets on their way to `e`, delivered in any order, again, or lost |
| `session`, `mine`, `opened`, `sent`, `got`, `unkept`, `odd`, `spoilt` | history, numbers the code does not see |

Sequence numbers wrap at `MaxSeq`; `IsSeqInBackroom` and `AckIsValid` are the code's
arithmetic. Control packets (connect with token, accept, close, keep-alive) and the ways
the server enters and re-enters a slot are actions. A CONNECT for a slot that is taken
is answered by `OnConnCtrlMsg`; it carries no token, so `Feed` refuses it and the slot
stays as it is. Timers are nondeterministic:
`Due` chooses which of the timers of `Update` have run out. Only vital chunks are
modelled, since the others have neither number nor promise. `SetTimedOut` and
`SetTimeoutProtected` are called by nobody, and `PENDING` is not reached on a server
that opens slots by `DirectInit`; the vanilla handshake is left out. 455 of the
smallest chunks fit into the 32 kB of the resend buffer, fewer than the half of the 1024
numbers: `SequenceAssumption`.

### Dungeon

| variable | code |
|---|---|
| `state`, `warmup`, `saved`, `endTick` | `CDungeonData::m_State`, `m_WarmupTick`, `m_LastWarmupTick`, `m_EndTick` |
| `safe` | ticks until `m_SafeSpawnTick` has passed |
| `scenario`, `participants`, `lives` | `m_ScenarioID` and the `GroupScenarioBase` of that ID |
| `where[c]` | world of a client, by `GetClientWorldID`: while it loads a map it is in none |
| `body[c]` | its character, and whether the time before respawning is over |
| `ready`, `started` | `m_TempDutiesReady`, `m_TempStartDungeonTick` |
| `late`, `cutOff`, `recorded`, `overtime` | history |

`Tick...` are the cases of the controller's tick; what players, mobs and scripts do
comes between ticks. One tick of the model is several seconds, so the 20 seconds after
the end are one more than the (default) 20 seconds of safe time: a run is not
finished in the tick it starts. The script of the scenario is reduced to steps that may
set the lives, complete the dungeon or end; it goes on while a participant has a
character. Respawning is in the dungeon itself (its `RespawnWorldID`). Left out: doors,
messages, `defeat_mobs` and the numbers of spawned bots it keeps, spectators.

## 3. What the runs check

`CHECK_DEADLOCK FALSE` stands in every cfg because the server may really stop: the
pool after its destructor, the others at a bound or a failed assertion.

| run | instance | checks | result |
|---|---|---|---|
| `pool_safety` | 2 workers, 2 callers, 3 tasks (one SELECT whose callback may raise, two changes), queue of 1, 1 retry | types, `OnePlace`, `NoTaskVanishes`, `ToldOnce`, `LossIsLogged`, `BoundedTries`, `JoinedIsDrained`, implements `TaskLife` | holds, 504,066 states |
| `pool_live` | 2 workers, 2 callers, 2 tasks with follow-ups, queue of 1, 1 retry | every task ends, the destructor returns | holds, 17,415 |
| `pool_retry_stall` | 3 tasks, one caller | every task ends | **violated**, see 3.2 |
| `inventory_save` | one item, 3 saves, 1 repair of everything, 2 workers, 1 retry, crashes and logins | `SettledRowIsLatest`, `SkipNeedsInversion`, `NoLeakedSerial` | holds, 596,742 |
| `snap_ids` | 3 identifiers, clock to 6, `int` of 8 values | types, `ListsIntact`, `StateIsPlace`, `CountersAgree`, `LateTimeoutsNeverHold`, implements `IdPool` | holds, 194,554 |
| `groups_safety` | 3 accounts and clients, 2 group IDs, groups of 2, 2 statements (two players and two groups, or three and one: `Small`) | `LeaderIsMember`, `PointerIsMembership`, `OneGroupEach`, `TableFollows`, `WithinLimit` | holds, 666,471 |
| `accounts` | 2 clients, 2 names, 2 visits, 2 chains, 2 accounts; one cause, and two statements at a time or one | types, `OnlineOnce`, `LoggedInByOneself`, `NameIsAccounts`, `NoOrphan`, `BannedStaysOut` | holds, 2,000,039 |
| `accounts_init_once` | same | `InitOnce` | **violated** |
| `trade` | 2 accounts, two capacities, six plans of 2 to 4 commands, some with a fault | types, `TableFollows`, implements `Market` | holds, 261,490 |
| `net_order` | 5 sequence numbers, buffer of 1, six budgets: up to 6 chunks or 2 sessions, packets of 1 or 2 chunks, up to 3 packets on the way | `InOrderOnce`, `KeptUntilDelivered` | holds, 898,801 |
| `net_live` | 6 numbers, 2 chunks, buffer of 2, a packet in flight each way | `EverySentArrives` | holds, 8,822 |
| `dungeon` | 2 clients, timers of 2 and 3 ticks, 2 lives | `ScenarioBelongsToRun`, `PlayersTakePart`, `RecordIsOfThisRun`, `DungeonIsFreeAgain` | holds, 123,486 |

What the properties say, where their names do not:

- `SettledRowIsLatest`: as soon as the statements of an item are through, its row is what
  the player holds, and it stays so while a repair is retried; excepted are two saves
  of the item at once, a save of a worn item during a repair, one given up, and a
  player loaded during any of these.
- `SkipNeedsInversion`: a save is dropped as outdated, though it is the latest, only
  after an older one was finalized after a younger one.
- `OneGroupEach` (groups): as long as `clean`, nobody is in two groups, and who is online is
  shown in the group that lists him as soon as the login has looked at it; excepted
  are those in `early`. `TableFollows` holds as long as `clean`.
- `OnlineOnce`, `LoggedInByOneself`, `NameIsAccounts`, `NoOrphan`, `BannedStaysOut`: each holds
  up to events that are named and happen outside any check of the code, such as a
  player who leaves while his chain runs, or an INSERT that is repeated.
- `TypeOK` of the pool has the limit of the queue, of the trade that nobody is in debt.
- `InOrderOnce`: a session in which a chunk was handed up out of order, or twice, was
  spoilt by a named cause: a packet of another session or of a whole window ago, a
  repeated ACCEPT, a close in mid-packet, a sender that is a whole window
  ahead of the other end or of a chunk it repeats (`Overrun`). Each was checked to be
  needed at this size.
- `PlayersTakePart`: who is alive in a running dungeon takes part in it, unless he was
  loading the map when the run began or died without a life.
- `DungeonIsFreeAgain`: needs the throwing out on respawn, and the kill at the end of
  the time. It fails when lives are left after the time (excepted, `overtime`), for
  `sv_duties_warmup 0` (the run never starts and the door stays shut, until all have
  left) and for `sv_dungeon_safe_time` above 20 (those killed at the end
  respawn in safe time). Both values are in the ranges of `variables.h`; the
  instance has the defaults' proportions.

Several hazards of `PROJECT.json` name no property. They are things the code does nothing
against: a chain that finds the next player, two saves at a time, a letter claimed
again, a repeated ACCEPT. The model has each of them, as a named cause that a property
excepts, and what the property then shows is that there is no *other* way to the same
damage. The note of the hazard names the cause and the property.

### 3.1 Why the bounds are enough

- *Pool.* The interesting cases need two of everything: two workers that race for a
  task, a worker and a caller that sleep on the same condition variable, a second
  caller that finds the queue full. A queue of one makes every second task wait for
  room. One retry separates the first, the repeated and the final try. The safety
  invariants that are also proved do not depend on these numbers. Liveness with two
  tasks shows retries, follow-ups and a full queue; with a third, `pool_retry_stall` finds
  the stall.
- *Items.* Keys share nothing but workers and the repair, so one key suffices. The
  known hard case, a serial that is reused because a younger save's callback removed
  it, needs three saves. With four saves the same properties hold on 11,117,470 states.
- *Identifiers.* Three give a list with a head, a middle and a tail, and let one list be
  empty while the other is full. `MCSnapIdPool` chooses `Freq` and `IntRange` so that
  five seconds exceed the range of an int, as 5·10⁹ ns exceed 2³².
- *Groups.* Two IDs make an old and a new group of one ID, a pointer to a replaced group,
  and two groups that list one account; a third player is invited while there is room. One
  login at a time looks for its group, with at most one statement waiting (`Limits`): every other
  command may come in between. The proofs have no such bound.
  Accounts and clients are interchangeable (no definition picks one with `CHOOSE`).
- *Accounts.* Two chains on one client, or of one account on two, are all the races the
  code has; two visits put the next player on a number. `FewAtATime` prunes
  behaviours with two causes, and with two statements after a player has left or renamed
  himself too early: a property excepts each cause alone, so a violation that
  needs two would be excepted anyway. The proofs have none of these bounds.
- *Trade.* A sale has two sides; a letter, a slot and a purse per side. A plan names the
  parts that interact, because a behaviour through all of them adds nothing that a pair
  does not show. `StillClean` stops where nothing is promised any more.
- *Connection.* A window of 5 numbers wraps, and is more than twice the buffer, as in
  the code. Two sessions are one reconnect. Six chunks, one in a packet, are the fewest
  with which a sender can be more than a window ahead; the other budgets trade the number
  of chunks for packets of two, a second session or chunks from both ends. `SomethingPromised` stops when all
  sessions are spoilt.
- *Dungeon.* One client inside and one who arrives late, leaves or is cut off. The timers
  are long enough that each can run out before or after the other events.

### 3.2 Findings

Two runs end in a counterexample. Each checks one sentence of the repository.

1. `pool_retry_stall`. A retry is enqueued by the worker that executes the task
   (`sql_connect_pool.cpp:222`, `:327`), and `EnqueueTask` waits for room
   (`:285`). Room is made by workers only. When every worker is in that wait, the
   queue is full for ever; the timed waits only loop. "Enqueues a task to be executed
   by a worker thread" (`sql_connect_pool.h:158`) does not come true, and the game
   thread blocks at its next save. In production the queue is long, so this needs a
   long outage of the database; that is when retries happen.
2. `accounts_init_once`. "Unique AccountID cannot change the value more than 1 time"
   (`account_data.cpp`) is an assertion that two login commands of one client in a
   row reach: both chains are past the check for an online account (110) before either
   initialises it (138).

Met while modelling, and not run:

- the next group ID is read from the table (`group_manager.cpp:60`) while the INSERT of
  an earlier group may be queued, and a failed SELECT yields 1: a live group is then
  replaced in the map. `Groups` has the behaviour; `TableFollows` excepts it;
- a player may found or join a second group between `CAccountData::Init` and
  `OnPlayerLogin`, which runs on a worker (`group_manager.cpp:30`); `OneGroupEach` excepts it;
- a registration whose INSERT is repeated leaves an account without data, and one whose
  INSERT of data is repeated loses its account (`account_manager.cpp:257`, `:282`); `NoOrphan` and
  `NameIsAccounts` except them;
- a letter claimed twice before its DELETE is executed is paid twice
  (`mailbox_manager.cpp:238`); `ImplementsMarket` excepts it;
- gold in the hand may exceed the capacity when the profession changes;
- the assertion in `group_data.cpp:95` is reached from a menu entry of a member who has
  left (`aborted` in `Groups`);
- the upsert of `item_data.cpp:88` needs a unique key on (UserID, ItemID), and the
  schema has none: every save adds a row, and the player loads the youngest;
- a change whose task is given up because the pool is stopping is neither executed nor
  logged;
- an invitation keeps only a group ID and may join its holder to a later group with it;
- deaths of mobs, and of players who leave, take lives of the dungeon's group
  (`dungeon.cpp:189`; `CWorldScenario` asks whether the victim is a bot, the
  dungeon does not), and the time limit ends a run only when no life is left;
- a late entrant's record counts from an earlier run (`dungeon.cpp:352`), unless he
  has never been in one.

### 3.3 Fairness

`SqlPool!FairSpec` assumes that

- every thread that can take a step that needs no lock takes it (weak fairness of
  `Sleep`, `NotifyOne`, `NotifyAll`, `Run`, `Destructor`): the operating system
  schedules threads, and a query ends, with an answer or an error, because the
  connector's timeouts end it;
- timed waits end (weak fairness of `Timeout`): `wait_for` with
  `sv_sql_queue_wait_timeout_ms`, or with 60 seconds in a worker;
- the mutex does not starve a thread (strong fairness of `TryEnqueue`, `Fetch`): the
  lock is held for a few instructions and requests are waits apart. Weak fairness
  would not do, because `LockFree` is false again and again.

Nobody is obliged to submit a task or to stop the server.

`NetConn!FairSpec` assumes that an end fetches the chunks it has (weak fairness of
`FetchChunk`: a loop), that packets do not stay on the way for ever (strong fairness of
`Passes`), that the timers of an end run out and make it send what the other needs
(strong fairness of `SendsAgain`, because other packets may fill the bounded network
again and again), and that of what is sent infinitely often something arrives (strong
fairness of `Arrives`). Everything else may be lost. Nothing obliges a player to connect or submit.

`Dungeon!Spec` assumes that the server ticks and that in its ticks players on the way out
leave and those who are due spawn (weak fairness of `Tick`, `Leave`, `Spawn`). Each of
the three was checked to be needed. Nothing obliges a client to finish
loading, to play or to leave, nor the script to go on.

The other modules have no liveness properties and no fairness.

## 4. What is proved

The proofs hold for every value of the constants that satisfies the named
assumptions of the module. All follow one pattern: an inductive invariant, lemmas
that say what a kind of step does to it (a push, a pop, the end of a task; one
operation on the lists; the deaths of a tick), one case per action, and temporal
steps by PTL.

**`SqlPool_proofs`**, under `ThreadAssumption` (there is a worker, as
`sv_sql_pool_size` is at least 2; workers are not callers; the game thread is a
caller), `TaskAssumption` and `ConfigAssumption` (the queue has room for
at least one task): any number of threads, tasks and retries.

- `TypeCorrect`: `Spec => []TypeOK`, with the limit of the queue.
- `NeverInTwoPlaces`: `Spec => []OnePlace`.
- `NoTaskIsLost`: `Spec => []NoTaskVanishes`.
- `CallbackIsToldOnce`: `Spec => []ToldOnce`.

The inductive invariant is `TypeOK /\ HandsMatch /\ OnePlace /\ NoTaskVanishes`.
`HandsMatch` is what `OnePlace` lacks: a thread holds a task exactly at the positions
where the code has moved one into it. Without it a thread about to push could hold
nothing, or an idle worker could still hold a task that is also in the queue.
`ToldOnce` is carried along on its own, since a callback is entered only where the
task leaves a hand.

What the pool owes its callers builds on that invariant:

- `LossesAreLogged`: `Spec => []LossIsLogged`, from `LogMatches`: the log has one entry
  exactly for what failed or was lost, and what is reported as done was applied.
- `TriesAreBounded`: `Spec => []BoundedTries`, from `Budget`: a task on its way was applied
  (and, if its callback raises, told) at most as often as its retry count says. The
  retry count travels with the task and there is one copy of it, which is why
  `OnePlace` is needed here.
- `DestructorDrains`: `Spec => []JoinedIsDrained`, from `Drained`: a worker exits only
  when the pool stops with an empty queue, and then nobody can push any more. It
  needs at least one worker.
- `PoolImplementsTaskLife`: the refinement to `TaskLife`. `Phase` is computed from
  `outcome` and `todo`; each branch of `Run` is a try, a success, a failure or a
  give-up, a refused hand-over is a give-up, the rest stutters. `Budget` supplies the
  bound in `TaskLife!Try`.

**`SnapIdPool_proofs`**, under `PoolAssumption`: any number of identifiers, any
clock frequency and any width of `int`.

- `TypeCorrect`, `ListsStayIntact`, `StateTellsThePlace`: the inductive invariant
  `TypeOK /\ ListsIntact /\ StateIsPlace`. The three need each other: relinking the
  tail keeps the other list intact only because the tail is not on it, and that is
  what `StateIsPlace` says.
- `CountersCount`: `m_Usage` and `m_InUsage` are cardinalities.
- `PoolImplementsIdPool`: the refinement to `IdPool`. Initial states map to initial
  states; `TakeFree` is `SnapNewID`, `FreeID` is `SnapFreeID`, the rest stutters.
- `LateDelayIsVoid`: once the clock has passed the largest `int`, `NewID` always empties
  the timed list first. It adds to the invariant that every stored timeout is an
  `int`.

**`InventorySave_proofs`**, under `SaveAssumption` (bounds are numbers, `Full` is not 0) and
`NoJobAssumption` (the value that stands for "no save" is not a save): any items, amounts,
number of saves, retries and workers.

- `NoEntryIsLeaked`: `Spec => []NoLeakedSerial`.
- `SkipsNeedInversion`: `Spec => []SkipNeedsInversion`.
- `SettledRowsAreLatest`: `Spec => []SettledRowIsLatest`.

`StepKinds` sorts the steps of this module into ten (an item changes and its save starts; a
login; a repair of everything; a save is queued or skipped; a worker takes a statement,
executes it, loses its connection, drops it, finalises it; a crash), and each part of the invariant has a lemma that goes through them. `EntryHasSave` (an entry of
`ms_PendingSerials` belongs to a save under way) is `NoLeakedSerial`. `EntryIsYoungest` is why a save is
skipped only after an inversion: unless a younger save was finalised before an older
one, the entry of an item is the serial of its youngest save for as long as that is under
way, so the comparison in `OnWrite` can only fail for an older one. This needs that
a save is in one place (`Apart`) and that saves are counted as they start (`Counted`). `RowFollows` is the
row: of an item that nothing is to blame for, everything under way is what the player
holds, up to a repair that has not come to it, and so is the row once it was written.

**`Groups_proofs`**, under `GroupsAssumption`: any accounts, clients, group limit and number
of groups.

- `LeaderIsMemberHolds`, `WithinLimitHolds`: `Spec => []LeaderIsMember`, `Spec => []WithinLimit`, both
  parts of `AllProper`, which says the same of every row and of every statement in the pool,
  because a restart makes groups of rows, and rows are made of statements.
- `PointerIsMembershipHolds`: `Spec => []PointerIsMembership`. A `weak_ptr` is told from one to a
  replaced group by `obj`, so the invariant has `ObjectsApart`: no object is made twice.
- `OneGroupEachHolds`: `Spec => []OneGroupEach`. Inductive with those, because a group the login has
  not looked at yet (`LookedAt`) owes the player nothing, and whoever gets a group
  while another lists him enters `early`.
- `TableFollowsHolds`: `Spec => []TableFollows`. The invariant `Database` is the one that relates memory to
  table while statements are queued: executed in order, each takes effect (an INSERT
  finds no row, an UPDATE or a DELETE finds one), and they turn the rows into what is in
  memory (`Follows`). It is stated by positions of the queue and not by folding over it, so
  that `Append` and `RemoveAt` can be reasoned about without induction.

**`Accounts_proofs`**, under `AccountsAssumption`: any number of clients, names,
logins, chains and accounts.

- `TypesHold`: `Spec => []TypeOK`.
- `OnlineOnceHolds`, `LoggedInByOneselfHolds`, `NameIsAccountsHolds`, `NoOrphanHolds`, `BannedStaysOutHolds`: `Spec => []P` for the
  five properties of the run `accounts`.

The inductive invariant says what each statement in the pool still knows. `ChainsOwn`: the
player who began a chain is there, unless he left meanwhile. `OneWayIn`: an account has one
client online or one chain about to log in, not both, unless a second chain passed the
check before the first had logged in. `BanHolds`: once a ban is on its way the same is
nobody. `Salts` and `Registering`: which account a registration wrote is known by its salt
alone, since `ResolveAccountID` asks the table again; it has no data before the
registration is through, so that an account without data belongs to a registration
under way or to one that a cause names. Of two rows with one salt (an INSERT that was
repeated) `kept` is blamed.
`RenamesOwn`: there is at most one rename of an account under way, and it is of somebody
online who bears the name. `StepKinds` classifies every step by what it changes, and each
part of the invariant goes through the kinds, not the actions.

**`NetConn_proofs`**, under `SequenceAssumption` and `BoundsAssumption`: any window that is more
than twice the buffer, any budgets.

- `InOrderOnceHolds`: `Spec => []InOrderOnce`.
- `KeptUntilDeliveredHolds`: `Spec => []KeptUntilDelivered`.

The code compares residues; the ghosts count. The invariant relates the two in a session that
is not spoilt. `Numbers`: what an end has in `m_Sequence` and `m_Ack` are the residues of what it
has sent and got. `Ahead`: the other end has sent at most a window more than that. `OnTheWay` and
`Fetching`: every chunk in a packet, in a resend or still to be fetched has the number of its
place in the order, and none is a whole window old. So a chunk whose number is the next one
*is* the next one, and a chunk that looks old is old. `Kept`: what an end has sent and not had
acknowledged is in its buffer, unless that was full, and what is acknowledged has
arrived, since an acknowledgement that passes `AckIsValid` and is not of another session is no
more than half a window back. `Room` and `Fresh` say that counters are within their budgets and
that sessions not yet begun have neither packets nor counts.

`ResendKeeps` is an induction over the fold of `Resend`, by way of the least number at which
it could fail, so that no induction theorem with an operator as parameter is needed. Trying
this proof showed that an earlier `Overrun` was too weak: with packets of one chunk a sender
can get a whole window ahead of the other end without repeating anything.

**`Trade_proofs`**, under `TradeAssumption` (prices and amounts are at least 1; the commission
is at most 100 percent, the range of `sv_bank_commission_rate`): any accounts, prices, rates
and limits.

- `TypesHold`: `Spec => []TypeOK`, also where `clean` is FALSE: whatever fails, nobody is in debt.
  It assumes nothing of the capacity and says nothing of it.
- `TableFollowsHolds`: `Spec => []TableFollows`.

Tables and memory are cut into `Cells`: a field of an account, the owner and the safe of the
house, and, for every slot there could be, whether it is there. Of each cell the invariant `Database` says that the last
statement in the pool that writes it writes what is in memory, and that without such a
statement the table has it already (`Leads`). A command appends its saves (`Follows`: the
saves of an account in the middle of a command lead to what it has become, through `Add`, `RemoveGold` and
`SpendCurrency`) and what else it writes. A worker that takes the first statement of a
row leaves all this as it is (`LeadsAfter`, `OneRow`); one that overtakes on a row spoils it,
which is what `clean` records. `SlotsApart` makes the removal of a slot from memory and the DELETE
of its row the same thing.

- `TradeImplementsMarket`: `Spec => ImplementsMarket`, every step of `Trade` is a step of
  `Market` or leaves its variables alone.

The mapping counts: the slots and the letters of `Market` are bags of what slots in
memory, rows and statements hold. A bag of the mapping is known by how often it holds a value (`Often`,
`Times`, `SameBag`), so a step that adds or removes one thing is one bijection
(`MoreIs`, `LessIs`). A letter is an ID: one of a row for which no DELETE is queued, or
one of a queued INSERT (`RowIds`, `Letters`, `LettersAre`). That needs one more invariant,
`Mailbox`: rows have IDs of their own, below `next`, and no DELETE is queued for an ID that is
not yet given, so an INSERT that is executed makes a letter of the pool one of the table,
and the same one. Then there is one lemma for each command (`...Promised`); of the
pool, `ExecutedPost` (an INSERT changes nothing there), and `ExecutedOther` (a DELETE of a
letter that was claimed changes nothing, the purge of old letters is a `Discard`). A player
who logs in and a server that restarts read the tables; while `clean` holds, `Database` says
that what they read is what memory had (`LoadedAsLeft`, `NothingLost`), and the slots
loaded are counted like those that were left, in whatever order they come (`SlotsCounted`). Once `clean` is FALSE
`Market` allows everything, so the theorem says nothing of what follows one of
the named causes.

**`Dungeon_proofs`**, under `DungeonAssumption`: finitely many clients, any timers and
any number of lives.

- `ScenarioKept`: `Spec => []ScenarioBelongsToRun`.
- `AliveTakePart`: `Spec => []PlayersTakePart`.
- `RecordsCount`: `Spec => []RecordIsOfThisRun`.

The inductive invariant adds four facts to the properties. `WarmupKept`: what was left of the
warmup is remembered only while the short one runs, so that giving it back stays
within the whole. `EntrantsAreLate`: nobody is on the way into a run who was not on the
way when it began, since the menu refuses him. `InsideIsKnown`: who is in the world takes part,
is late, was cut off, or is on the way out without a body; it is `PlayersTakePart` of the
dead as well, which is what a respawn needs. `StartedNow`: who is in the world has the
start time of this run or is late; a record copies it. The only fact about numbers of
players is `DeathsCount`: a set of deaths takes at most that many lives, and whom it takes
from the participants it records as cut off.

Only model-checked:

- liveness (`EverySubmittedTaskEnds`, `DestructorReturns`, `EverySentArrives`,
  `DungeonIsFreeAgain`): TLAPS has no rules for fairness and ENABLED that its installed
  backends could use.

Every invariant, every action property and every refinement that a passing run checks is also
proved. Also out of the prover's reach are induction over data, whose library theorems take
an operator as a parameter,
and modules with RECURSIVE operators. No module here declares one; `SnapIdPool`
describes lists by what each link is, not by walking them.

## 5. What is not modelled, and the plan

Not modelled for good: simulation on real numbers (worlds, entities, bots, AI,
path finding, skills), presentation (menus, dialogs, votes as such), vendored code, the
DDNet infrastructure of console, bans, storage and HTTP, and the client sources that
are in the tree. Much of the tree is of this kind, which is why the share of all lines
that the map covers is small. Not modelled, although it could be:

- **Server**: the states of a client (`server.cpp`); `Accounts` and `Dungeon` have as much
  of them as they need (a client comes, loads a world, is ready, leaves).
- **Guilds and guild wars**: members, ranks and requests are groups with more columns,
  and the bank of a guild is the safe of a house; the conquest of a war is scripted.
- **Quests, achievements, event listeners**: the steps of one player, driven by listeners.
  Listeners are called from a copy of the set (`event_listener.h:102`), so one that
  an earlier listener removed is still called.
- **Dice duel and roulette** (`core/casino`), **register** (a protocol over HTTP jobs).
- `UpdateRandomColor` of a group (`group_data.cpp:110`), which never ends with 63 groups
  of different colours.

Proofs worth having next: abstract specifications for two components that have only
invariants, and the refinement of them: a pair of sequences that only grow for `NetConn`
(what was sent, and a prefix of it that was received), and one register per item for
`InventorySave`, which a save writes and a restart reads.

## 6. Running

    tlc -config pool_safety.cfg MCSqlPool
    tlapm SqlPool_proofs.tla

Every run ends within five minutes on two workers. The module of a run is in
`PROJECT.json`; cfg files are named after runs.
