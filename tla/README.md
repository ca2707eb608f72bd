# strademarket in TLA+

A verification project for the stock trading server in this repository: TLA+
modules that model its core, TLC configurations that check them on small
instances, and theorems about them whose proofs the TLA+ proof system checks.
Paths below are relative to the repository's `src/`.

## 1. The system

strademarket is a C++ server made of plugins loaded by a core process. Users
hold capital, keep stocks in groups, submit buy and sell orders with a price,
and the server deals an order as soon as the market price allows. Quotations and
stock figures are served to web clients by a second plugin.

| component | state | operations | talks to |
|---|---|---|---|
| user account (`pub/logic/user_info`) | capital (available, frozen), stock groups, positions, orders, a read/write lock | `Init`, group methods, `SubmitOrder`, `OnOrderDone`, `OnCancelOrder`, queries | database engine, share engine, Subject, its positions |
| stock group (`pub/logic/stock_group`) | stock codes as list and as set | `CreateGroup`, `InitStockList`, `AddStocks`, `DelStocks` | database engine |
| position (`pub/logic/stock_position`) | total, available shares, list of purchases | `InitFakeStockPosition`, `AddFakeStockPosition`, `Delegate`, `OnOrderCancel`, `OnOrderDone`, `cost` | database engine, orders |
| observers (`pub/logic/subject`) | list of order addresses | `Attach`, `Detach`, `Notify` | orders |
| engine pool (`pub/storage/mysql_engine`) | read and write connections, three semaphores, a mutex, a job queue and its thread | `ReadData`, `ReadDataRows`, `ExcuteStorage`, `WriteData`, `AddAsyncMysqlJob` | MySQL |
| simple pool (`pub/storage/mysql_pool`, `data_mysql_engine`) | list of connections and a lock | `DBConnectionPop`, `DBConnectionPush`, `GetDBEngine` | MySQL |
| multi pool (`pub/sqldbpool`) | map of pools, each a list and a mutex | `InitPool`, `GetEngine`, `RecycleEngine`, `Release` | MySQL |
| stock basics (`plugins/stockshare`) | singletons, a map of figures and a lock | `Instance`, `FreeInstance`, `UpdateStockBasic`, `GetStockBasicInfo` | multi pool |
| quotations (`plugins/realinfo`) | none of its own | message dispatch, hourly timer | stock basics, market data |
| calendar (`pub/logic/stock_util`) | the month table, holidays | dates, trading hours | - |
| subscriptions (`pub/db`) | one connection per object | one stored procedure per method | external pool |
| log trace, configuration, tokens, row mapping, FastCGI front ends, packets | see `PROJECT.json` | | |

`OrderInfo`, `Observer`, the share engine and the base library are not in the
repository. What the models need of them is taken from how `src/` uses them and
is marked external in the map.

What is hard in it: several server threads work on one account; `SubmitOrder`
takes the lock by hand, gives it back before it deals an order, and does not
give it back at all on its error paths; market data deals orders from another
thread; cancellation does not lock; every operation changes memory first and the
database second, and the second may fail; counts are unsigned and are reduced
without a check; the pool's semaphores, lists and mutex have to agree. The full
list, line by line, is `hazards` in `PROJECT.json`.

What makes the components correct:

* account: money is neither made nor lost. The available capital is never
  negative, the frozen capital is what the open orders hold, an order is settled
  or cancelled once, and shares on sale are covered by shares held. The code keeps
  these under conditions on cancellations, which sections 3 and 4 name;
* position: total and purchases agree, sales are served from the cheapest ones;
* engine pool: a connection is used by one thread at a time and always comes
  back, whoever passes a semaphore finds a connection, jobs are worked off once
  and in order;
* account and database: a restart loads what memory had, and backs every pending
  sale with a position;
* groups: what a client was told is added stays added (but for what
  `CreateGroup` reports without having stored it), names are unique;
* the three other pools: a connection is opened once, is used by one thread at a
  time, and lists do not grow without end;
* stock basics: readers see the rows of one query;
* quotations and front ends: one answer for one request;
* log: nothing is written behind a message that was cut off;
* reference counts: no data is deleted under a handle, none outlives its last one;
* calendar and tools: the answers are those of the definition (for the calendar
  but for what the table of an earlier leap-year question does to them).

## 2. The modules

| module | models | kind |
|---|---|---|
| `TradeFees` | the charges (`macros.h`, `user_info.cc:310-323`, `514-519`) | operators |
| `StockPosition` | `GroupStockPosition` and its purchases | operators |
| `PositionTrades` | one position through purchases, delegations, cancellations, sales | state machine |
| `CapitalLedger` | what an account promises about money | abstract specification |
| `UserAccount` | `UserInfo` used by several threads, with the `Subject` | state machine, implements `CapitalLedger` |
| `MCUserAccount` | symmetry for TLC | MC |
| `AccountRecovery` | the account next to its tables, and the restart | state machine, extends `UserAccount` |
| `OrderObservers` | the addresses of orders the Subject and a handler keep | state machine |
| `MysqlEnginePool` | the engine pool with its asynchronous worker | state machine |
| `MCMysqlEnginePool` | the connections of an instance | MC |
| `ConnectionPool` | what a pool of connections promises | abstract specification |
| `MysqlPool` | the simple pool and its guard (`storage/mysql_pool`) | state machine, implements `ConnectionPool` |
| `DbSql` | objects of `db/db_comm` and the connection each holds | state machine, implements `ConnectionPool` |
| `BaseConfig` | the configuration parser | operators |
| `SqlDbPool` | the map of pools, set up from a configuration file | actions over `BaseConfig`, implements `ConnectionPool` |
| `StockBasics` | the snapshot of stock figures and its refresh | state machine over `SqlDbPool` |
| `StockGroups` | groups in memory and in the database | state machine |
| `RealInfo` | the quotation plugin: start, timer, dispatch, handlers | state machine |
| `LogTrace` | messages on the stream to the log server | state machine |
| `FrontEnd` | the FastCGI loop, with its log | state machine over `LogTrace` |
| `RefCount` | handles and their shared data (`REFCOUNT_DEFINE`) | state machine |
| `TradeCalendar` | dates, trading days, trading hours (`stock_util`) | algorithms, one call per step |
| `Tools` | texts, sets as texts, heap (`tools`) | algorithms, one call per step |
| `MCServices` | the components around the account, each run alone; values of constants | MC |
| `UserAccountProofs` | lemmas on charges, positions, orders; type correctness; no debt; settled once | proofs |
| `UserAccountLedger` | frozen = held; the refinement of `CapitalLedger`; a sale has its group's position, and shares and lots to be served from | proofs |
| `AccountRecoveryProofs` | types of memory and tables; a restart loses nothing and backs the pending sales | proofs |
| `StockPositionProofs` | sums over finite sets, sequences computed step by step; what the sort, the loop and the clear of `OnOrderDone` do to a list of purchases and its sum | lemmas |
| `PositionTradesProofs` | types of a position, its purchases within its total, cheapest first | proofs |
| `MysqlEnginePoolProofs` | types, conservation of connections, order of jobs, when the semaphores suffice | proofs |
| `ConnectionPoolProofs` | the three pools that implement `ConnectionPool`, the stock basics over one of them; lemmas on lists without repetition | proofs |
| `ServicesProofs` | reference counts, groups, log, quotations, calendar | proofs |

### UserAccount

One action per stretch between two places where the account's lock is taken or
given back:

* `SubmitRejected`, `SubmitBuyRefused`, `SubmitSellRefused`, `SubmitBuy`,
  `SubmitSell`: `SubmitOrder` from `WlockThreadrw` to its return, or to
  `UnlockThreadrw` in front of `MakeADeal`. A failing `proc_InsertDelegation` is
  a disjunct of the two that reach it.
* `MakeADeal`: outside the lock.
* `OnBuyOrderDone`, `OnSellOrderDone`: `OnOrderDone`, under the lock, with every
  database call that may fail as a disjunct and the automatic sell order.
* `OnCancelOrder` (the search), `MarkOrder`, `TestOperation` (twice: BUY, SELL),
  `OnCancelBuyOrder`, `OnCancelSellOrder`, `EraseOrder`: a cancellation, whose only
  locked steps are the two in the middle.
* `Notify`, `DropStale`: `Subject::Notify`, one observer per step, by the thread
  `Notifier`.

`available`, `frozen`, `position`, `orderList` are the fields of
`UserInfo::Data`; `order` is what became of the ids the database gave out;
`observers` is the Subject's list; `lockLeak` is the thread that has returned
with the lock. `released` and `lost` are history: how often an order was settled
or cancelled, and what was frozen for orders the database refused. Money is
counted in whole units with the charges rounded as the macros do.

Choices a reader should know of:

* The lock admits its owner again and counts. The code needs that: `SubmitOrder`
  calls `GetGroup`, which locks, and `OnOrderDone` calls
  `GetGroupStockPosition`. With a lock that does not, the first `SubmitOrder`
  waits for itself, and there is nothing left to model (section 6).
* A call between two of its steps holds an address into `order_list_`, not an
  order: the pointer of `SubmitOrder`, `Notify` and `OnOrderDone`, the iterator of
  `OnCancelOrder`. `cur` is the order that stands at that address now. `EraseOrder`,
  which takes no lock, moves the elements behind the erased one up, and with them
  what the other threads hold (`Moved`): the next step of theirs marks, deals,
  settles or gives back whatever is there. The slot past the new end keeps its old
  element (it is assigned from, not destroyed to nothing), and an iterator there
  makes `erase` remove the last element (`Erased`), or end the process on an empty
  list (`Abort`). Not modelled: that a later `push_back` fills that slot, and an
  erase in the middle of another thread's locked section. After an erase the
  observers' addresses are arbitrary too; `Notify` may then reach any pending order
  of the list (`shifted`), which allows more than the code does.
* A `push_back` here leaves addresses alone; reallocation is in `OrderObservers`.
* `gp = &p` (`user_info.cc:472`) is a dangling pointer. The purchase has been
  added through it in every build the makefiles describe (no optimisation, the
  block's slot is not reused yet); when the automatic order is delegated, the
  slot may have been written over, and the process may end.
* A group has one position: `GetGroupStockPosition` does not look at the code.

### PositionTrades and StockPosition

Total and available shares are unsigned (`UintMod` for 2^32), the count of a
purchase is signed, as in the code. `SellLots` follows the loop of
`GroupStockPosition::OnOrderDone`: after a sort that promises no order among equal
prices it hands on what is left of the demand and
stops behind the first purchase that does not go below zero, so exhausted
purchases stay in the list with a negative count (the final loop drops only
those with exactly none). `PositionTrades` adds the profit loop of
`OnSellOrderDone`.

### MysqlEnginePool

A section under the mutex is one step, except that `CheckConnect` keeps the
mutex while it retries (`mutex`). Synchronous calls and the worker go through the
same steps. `MYSQL_STORAGE` shares the pool of `MYSQL_WRITE`. Calling `front()`
on an empty list ends the behaviour (`corrupt`).

### AccountRecovery

Every action of `UserAccount` with the database calls it makes, and `Reload`, a
restart. `dbFree` and `dbHeld` are the two capitals in `user_info`, `dbOrder` the
delegation records, `dbRow` the shares left of each purchase. The procedures are
not in the repository; their effects follow the arguments and the comments at the
calls: amounts for a submission or a cancellation, the capital available now for a
deal, the counts left for a sale. A call and the change in memory it stands next to are one
step; a process that dies between the two is a call that fails followed by
`Reload`. `synced` and `unmarked` remember failures, since a failed call is
nowhere repaired: after one, memory and tables differ until the restart, and
after a lost deal or cancellation of a sale (`unmarked`) for good. Both properties
also leave out what follows a lot sold below zero (`NoRowBelowZero`, section 5),
which takes at least two purchases and three sales, more than the 3 orders of `Services`.
After a restart nothing is available for sale, as in the code.

### OrderObservers

`order_list_` as a vector: `slots` in a `buffer` of a `capacity` that doubles.
`attached` are the entries of the Subject, each with the order its address was
taken from; `handler` is the pointer `order` of a running `OnBuyOrderDone`.
`Denoted` is what an address denotes now.

### ConnectionPool, MysqlPool, DbSql, SqlDbPool

`ConnectionPool` knows the connections opened, those in the pool, and the one
each user has; a user takes one, gives it back or forgets it. The three pools are
mapped to it by what is in their lists and what threads or objects hold; NULL
entries vanish in the mapping.

`MysqlPool` splits `DBConnectionPop` where the code does: the size without the
lock, the front with it. The list may hold NULL, since the destructor pushes
whatever there was. `DbSql` has one action per query. Each is one of four kinds,
by what it does with the connection `GetEntine` returns: checked or used as it
is, kept in the object or borrowed; using NULL ends the process.
`get_record_num` uses the object's own connection, which a query may have
forgotten. `SqlDbPool`
reads the sizes and hosts of its pools with the parser of `BaseConfig`, so that
an incomplete file gives the pools the code would make of it. `GetEngine` pops
with the mutex and checks without it. `Release` is taken only while no thread is
inside a pool: the unlocked map gives no meaning to anything else.

### StockBasics

The engine's start up to a reader that comes before `basic_info_` is set
(`EarlyReader`), and `UpdateStockBasic` in its steps: a connection of pool 2, the
query, the swap under the write lock, the connection given back. Several threads
may be between any two of them. A row is the version of the table it was read
from, which is what tells one query from another.

### StockGroups

`groupInfo` and `groupStock` are the tables, `listed` and `stocks` the groups in
memory. Each operation is one action with its failing calls as disjuncts, in the
order of the code (memory first). `Restart`, `RestartWithNewDefault` and
`RestartFails` are `InitStockGroup`, in which the stocks of a group may fail to
load (the group is then left out, `skipped`). `added` is what clients were told,
by `AddStock` and by `CreateGroup`; `unstored` is the part of it that `CreateGroup`
reported although its INSERT had failed, since it does not look at the result.

### RealInfo, LogTrace, FrontEnd

`RealInfo` follows one request per socket from dispatch to return; the market
engine and the share engine may change between the two lookups of a handler.
Answers keep their status and the lengths of their lists. `LogTrace` sends a
message of `LogLen` chunks in any portions; a stream is the messages that left
something on it, whole or not. `FrontEnd` is `StdRun` around it: accept, trace,
log, core, print. `content` is not emptied behind a PUT or DELETE, and the next
POST sends it too. A request without the CGI variables it reads ends the process
(`NoVariable`); without REMOTE_ADDR only the log text is cut.

### RefCount

Handles belong to threads and may share a Data. `Release` is two steps, the
decrement and the test; between them others may count or delete. What a thread
reads from a deleted Data is either value.

### TradeCalendar and Tools

Each step is one call with arguments of a small set, and keeps its arguments and
its answer; the property compares the answer with a definition that does not
follow the code: day numbers and quantifiers for the calendar, sets, sorting and
counting for the tools. The calendar has state, `MONTH_DAY[2]`, so the answer
depends on what was asked before. An answer has to be a date of the calendar
(`RealDate`), not only the number of one; the exceptions are `NoSuchDay`, a 29th
of February of a common year, and `StaleMarch`.

### MCServices

The components in this module share no state. Each behaviour picks one in its
first state (`part`) and runs it alone, so the sizes of the state spaces add up.

## 3. What the runs check

| run | instance | shows |
|---|---|---|
| `AccountConcurrent` | 2 threads, 3 orders, 2 prices, 2 sizes, 1 database failure, no cancellation | types, no debt, frozen = held, settled once, sales covered, only empty sales throw, the account implements `CapitalLedger` |
| `AccountSequential` | 1 thread, 3 orders, pending orders are cancelled | the same conservation with cancellations in the game, no debt, and the assertion at `user_info.cc:614` |
| `AccountCancels` | 2 threads, 2 groups, 3 orders of one size, pending orders are cancelled | **violated**: the unlocked erase of one cancellation moves a sale of another group under the iterator of the other, and the assertion at `user_info.cc:614` fails |
| `AccountLive` | 2 threads, fairness | a deal is booked unless another thread has left the lock taken |
| `AccountLateCancel` | 1 thread, a dealt order is cancelled | **violated**: frozen capital is given back twice |
| `PositionTrades` | 3 purchases, 3 sales, 3 prices | purchases never exceed the total; cheapest first |
| `PositionProfit` | the same | **violated**: the profit loop charges for what remains |
| `PoolConserves` | 2 clients, worker, 1 + 2 connections, 2 jobs, 1 drop | connections are conserved, the task semaphore agrees with the queue, jobs in order |
| `PoolLive` | 1 client, worker, 2 + 2 connections, fairness | nobody finds the pool empty; calls return, jobs finish |
| `PoolOverdrawn` | 2 clients, worker, 1 + 1 connections | **violated**: a thread passes the semaphore and finds the pool empty |
| `Services` | the components of `MCServices`, each alone | see below |
| `ObserverAddresses` | 3 orders | **violated**: an address denotes another order, or nothing |

What `Services` shows, part by part:

| part | instance | property |
|---|---|---|
| account and database | 1 thread, 3 orders, 1 failure, 1 restart | `NothingLostByRestart`: without failures a restart loads what memory had; `RestartBacksSales`: with failures other than a lost end of a sale, a pending sale still finds a position |
| groups | 2 groups, 2 names, 2 codes, 2 failures | `AddedStocksSurvive` (but for what `CreateGroup` reported and did not store), `GroupNamesDiffer` |
| simple pool | 3 threads, 2 connections, 1 drop | `SlotsBounded`, `KeepsMysqlConns` |
| database objects | 2 threads, 2 connections, 1 drop, 2 rows | `OnlyUnreachableForgotten`, `KeepsDbPool` |
| multi pool and stock basics | 2 threads, 2 connections, 2 files, 2 codes, 1 change of the table | `KeepsSqlPool`, `SnapshotIsOneQuery` |
| quotations | 1 socket, 1 code, 2 index codes | `AnsweredOnce` |
| log and front end | messages of 2 chunks, 3 messages, 3 requests | `WholeLogLines`, `RequestsReturn` |
| reference counts | 3 handles of 2 threads, 2 Datas | `FreedWithLastHandle` |
| calendar | 39 dates around month ends, a leap day, holidays and New Year; 5 times of day | `TradeDaysInOrder` |
| tools | all orders of subsets of 3 codes, 27 value lists | `ToolsAgree` |

and `ServicesTypeOK`, the types of all of them.

Bounds, and why they are enough. Two prices make orders that can and cannot be
dealt now, and deals below the order's price; two sizes make a purchase that the
deposit of 3012 covers, does not cover once another is frozen, or would cover but
for its charges; three
orders are a purchase, its automatic sale and one more of either kind, which is
what the hazards need (`Room` keeps an id for every automatic order that may
still come, so that the bound never cuts a handler short). One failing database
call reaches every partial failure; a second would only repeat one. Two threads
give every pair of interleaved calls. In the pool, the number of connections is
set against the number of threads on purpose: below it (`PoolOverdrawn`), above
it (`PoolLive`), and mixed (`PoolConserves`). `MaxCalls` and `MaxDrops` bound
behaviours, not reachable configurations of the pool. In `Services` the simple
pool has more threads than connections, so that two threads race for the last
one and a third finds none; the groups have two failures, since the second start
may go wrong in another way than the first; three handles let one thread have two
of a Data and another one; two chunks are the fewest that can be cut. The account
has one thread there: what several do to each other is `AccountConcurrent`, and
every restart is between calls. `OrderObservers` needs three orders for a buffer
that grows twice. `Longest` is more than twice the
longest run of days without trade, so the walks end although one may stand still
for a turn.

Fairness. `UserAccount`: a thread inside a call keeps running, and one waiting
for the lock gets it when it is free; requests and market data need never come.
`MysqlEnginePool`: threads are scheduled, semaphores and the mutex wake their
waiters, and a reconnection succeeds some time (the code retries for ever; with
a database that never returns nothing can be promised). Weak fairness is enough:
in the checked instances a step that is enabled stays enabled, or is taken.
`FrontEnd`: a process works on the request it has accepted (`FrontWork`), and the
core connection answers or fails; requests need never come. `ServicesSpec` has
this fairness and no other.

`CHECK_DEADLOCK FALSE` everywhere: ids, calls and jobs are bounded, and a server
without requests is idle.

## 4. What is proved

Every theorem is about the specification a run checks, for every value of its
constants that meets the module's assumptions (`...Assumption`, which TLC
evaluates) and, where it has them, the hypotheses named here.

### The account

* `AccountTypes` (`UserAccountProofs`): `Spec => []TypeOK`. The proof is by one
  lemma per action, over lemmas about each operator: the charges are natural
  numbers and grow with the price, every operation on a position keeps its
  unsigned counts in range.
* `DebtNeedsMovedOrder`, `AccountNeverInDebt` (`UserAccountProofs`): the available
  capital is never negative. The first is for any cancellations, late and repeated
  ones too, failures and interleavings, in behaviours in which no erase moves
  another order under the address of a call that is dealing one
  (`[][DealsNotMoved]_vars`): such an order may have a lower limit than the price it
  is dealt at, and with several threads the code has nothing to prevent it. The
  second discharges the condition where the code meets it (`CancelsAlone`): nobody
  cancels, with any number of threads, or one thread makes all the calls. Hypothesis
  of both: prices are at least 6 -- below that the commission, rounded up to 5, can
  exceed what a small sale brings. `NeverInDebt` is not inductive: `DebtInv` adds
  that the frozen capital of a purchase is its whole cost at the order's price
  (`TermsCovered`) and that no deal is made above that price (`DealWithinPrice`,
  `DoneHasPrice`); a deal then gives back what it did not cost.
* `AccountReleasedOnce` (`UserAccountProofs`): no order is settled twice. The
  invariant says who may deal an order: the thread that submitted it, if it was
  dealt at once, and then it was never attached; or the thread that delivers market
  data, if it was attached, and then only while it is pending. That two observers'
  threads would break it is what the constant `Notifier` stands for: market data
  arrives on one thread.
* `AccountFrozenIsHeld`, `AccountKeepsLedger` (`UserAccountLedger`): the frozen
  capital is what the open orders hold plus what failing submissions left frozen,
  and the account implements `CapitalLedger`. Every step does one of five things
  (`Moves`): it moves no money, an order takes some (`MoneyHeld`), the database
  refuses the order that took it (`MoneyLost`), an order gives back what it held or
  pays with it (`MoneyReleased`), or a sale earns (`MoneyEarned`); this is proved
  once per action, and both theorems follow from it. `MoneyInv` has what the
  classification needs: an order is settled once, and sales hold nothing.
  `AccountKeepsLedger` needs prices of at least 6 too, since only then a sale earns.
* `AccountSalesCovered` (`UserAccountLedger`): no sale takes the unsigned count of a
  position below zero, the automatic sales included. The invariant (`Covered`): the
  shares available and those of the sales still to be dealt are together at most the
  count, and the count is at most what was bought. Hypothesis `SharesFit`: all orders together are of
  less than 2^32 shares. Without it a purchase may wrap the count.
* `AccountSalesHavePosition`, `AccountCancelsFind` (`UserAccountLedger`): the
  assertion at `user_info.cc:614`. The first is for late, repeated and racing
  cancellations in behaviours in which no erase moves another order under the
  iterator of a cancellation between its test of `operation()` and its call of
  `OnCancelSellOrder` (`[][SalesNotMoved]_vars`); the second is for one thread, where
  none does. `AccountCancels` violates the property with two. The invariant
  `SalesHeld` says it of every order ever made, also of those erased from the
  list, because a cancellation may be under way with any of them; `SellsAreSales`,
  that what stands under such an iterator is a sale. Positions are never removed
  (`PositionsStay`), and the actions that make sales need one (`OrdersFit`).
  Hypothesis: `NoPosition`, the NULL of `GetGroupStockPosition`, is not itself a
  position.

* `AccountOnlyEmptySalesThrow` (`UserAccountLedger`): the deal of a sale ends the
  process (`h.erase(h.size() - 1)` on an empty text) only if the sale was of no
  shares. By `AccountSalesCovered` the count is at least what is sold, so a list
  without lots has to mean a count of zero. That is not inductive, since a sale may
  take more from the lots than from the count; what is (`SumsUp`): some lot is below
  zero, or the lots add up to the count. A lot below zero is never cleared, and a
  sale that leaves none was served by the cheapest lot alone (`SaleTakesExactly`).
  Same hypotheses as `AccountSalesCovered`.

`AccountReleasedOnce`, `AccountFrozenIsHeld`, `AccountKeepsLedger`,
`AccountSalesCovered`, `AccountOnlyEmptySalesThrow` and the two theorems on
restarts below have the hypothesis `CallsApart`: nobody cancels, with any
number of threads; or one thread does everything and cancels only what is pending,
as often as it likes. These are the instances `AccountConcurrent` and
`AccountSequential`. It cannot be dropped: `OnCancelOrder` does not look at the
order's status, so that a late or a racing cancellation settles an order again
(`AccountLateCancel`, section 5).

Sums over the orders are folds over a set, whose definition recurses over its
subsets. The induction theorems of the library cannot be instantiated here, so
`StockPositionProofs` argues by a smallest counterexample: among the subsets for which the
recursive function has no value, or the sum depends on the order, there would be
one without a smaller one, for inclusion of finite sets is well-founded, and taking
one element out of it yields a contradiction. From it come the facts the account
needs: a sum with one value changed is changed by as much (`SumChanged`), and
sums are monotone and bounded.

### The account and its tables

All in `AccountRecoveryProofs`, about `RecoverySpec`, for any number of threads,
groups, orders, failures and restarts.

* `RecoveryTypes`: the types of memory and tables. What a restart loads is well
  typed whatever the rows hold, also below zero. Hypothesis: `NoPosition` is not
  itself a position (as in `AccountSalesHavePosition`); the two below have it too.
* `NothingLost`: `RecoverySpec => []NothingLostByRestart`. Hypotheses `CallsApart`
  and `SharesFit`, as above.
* `RestartsBackSales`: `RecoverySpec => RestartBacksSales`, under the same.

The invariant (`RecoveryInv`) is layered by what survives which failure:

* `StoredInv` holds whatever fails. Every order made is stored, with its terms, and
  is PENDING there while it is open (`OrdersStored`); only settled purchases have a
  row (`RowsSettled`); every lot in memory has a row of its own, at the price of its
  purchase, with no fewer shares (`LotsInRows`). So a row, whose order is settled,
  never changes its record, and rows only fall (`RowsFall`).
* `BooksInv` holds as long as the account is `Clean`, that is, no end of a sale was
  lost and no row is below zero: the lots are the rows (`RowsHeld`, sold-out rows
  excepted), no PENDING sale of some shares is settled (`SalesPending`), and the
  invariants of `AccountSalesCovered` and `AccountOnlyEmptySalesThrow` hold. `Clean`
  is never regained (`CleanFalls`), since rows only fall, so the step may assume it
  on both sides.
* `SyncInv` holds while besides no call has failed since the last restart
  (`synced`): capitals agree, and so does every order no thread is about to settle.

Each step is classified once, as a move of the orders (`OrdersMove`: a record is
left alone, or written anew) and a move of the rows (`RowMove`: untouched, one
bought, some sold, a sale lost, a restart); the first two layers follow from the
moves. The steps in between that are steps of `UserAccount` take its invariants over
by `SharesStep`, `LotsAgreeStep` and `StepMoves`; `Reload` is not one, and for it they are
proved anew: the rows of a group add up to the lots that were held (`RowsAddUp`),
hence to the count that was there (`RowsAreShares`), which covers the sales still
open. `RestartsBackSales` is the same sum read the other way: a pending sale of
some shares means a sum above zero, hence a row above zero, hence a position.

### Positions

All in `PositionTradesProofs`, for any number of purchases and sales at any prices.

* `TradesTypes`: the unsigned counts stay in range, and every purchase in the list
  is one the database numbered and is not empty. The invariant (`LotsInv`) adds
  that no two have the same number, through the sort, the loop and the clear.
* `TradesLotsFit`: the purchases never add up to more shares than the total says.
  Hypothesis `TradesFit`: all purchases together are of less than 2^32 shares,
  or the total wraps. The argument (`SaleTakesShares`): what the loop
  asks of the cheapest purchase is the whole sale, and what it asks of any later
  one is what the one before it lacked, so nothing negative (`VisitedIs`); the sum
  goes down by at least the sale. The clear drops purchases that count for nothing.
* `TradesCheapestFirst`: shares are taken from a purchase only when every cheaper
  one has nothing left. A purchase that gave shares was visited
  (`SaleTakesCheapest`), a cheaper one stands before it in any order `std::sort`
  may choose, and the loop passes a purchase only after it was left below zero.

These are inductions over a list, which the prover cannot take from the library
(its theorems have an operator parameter). `StockPositionProofs` has them in a form
without: `CountingUp` for a set of numbers instead of a predicate, and
`ComputationExists` for recursions whose step is a function; `DemandIs` and
`ClearedLotsIs` apply them to the two loops. That there is an order to sort into,
also among equal prices, is `SortExists`: the rank of a purchase is its place.

### The engine pool

* `PoolTypes`, `PoolEnginesConserved` (`MysqlEnginePoolProofs`): no connection is
  lost, shared or returned to the other pool, for any number of clients and
  connections, made by `Initialize` once each (`PoolAssumption`). To be inductive
  `EnginesConserved` needs that a pool holds only connections made for it
  (`PoolsApart`), and that a thread points to a connection exactly from
  `PopEngine` to `PushEngine` (in `TypeOK`). Only those two steps move a
  connection; all others are covered by one frame lemma.
* `PoolTasksAreQueued`, `PoolJobsInOrder`: the task
  semaphore agrees with the queue, and jobs are worked off in the order they were
  pushed. The invariant (`JobsAccounted`): the jobs submitted are those taken,
  followed by those queued.
* `PoolCountsEngines`, `PoolNotOverdrawn`: where there are at least as many
  connections of each kind as threads (`ThreadsFit`), who comes through a semaphore
  finds a connection, although the semaphores start at twice the number. With an
  empty pool every connection would be with a thread; the thread in front of the
  pool has none, so two connections would be with one thread (`RoomInPool`).
  `PoolOverdrawn` is the instance where `ThreadsFit` fails.

### The pools that implement `ConnectionPool`

All in `ConnectionPoolProofs`.

* `MysqlPoolTypes`, `MysqlPoolSlots`, `MysqlPoolImplementsPool`. A connection is
  once in the list or with one thread (`OwnedOnce`), whatever NULLs travel through
  the list. The list stays bounded because a thread finds it empty only while all
  slots are with other threads: a NULL that comes into being makes their number at
  most that of the threads.
* `DbTypes`, `DbForgets`, `DbImplementsPool`. The queries and
  `get_record_num` have one effect in common (`QueryEffect`): an object keeps its
  connection, or forgets one that the server has lost, or the process ends.
  Everything else is proved of that effect.
* `SqlPoolsImplementPool`: the pools of the multi-pool, filled from any
  configuration file. `SqOwned`: no connection twice in a list, in two lists, or in
  a list and with a thread; `SqStages`: an idle thread has none, and before `Init`
  nothing was made.
* `BasicTypes`, `SnapshotsAreOneQuery`: readers of the stock basics find the rows of
  one query. The invariant is that a thread about to swap has rows of one version,
  and at least one (`RowsOfQueries`).

### The other services

All in `ServicesProofs`.

* `RcTypesHold`, `RcFreedWithLastHandle`: the counter is the
  number of handles (`Counted`), so who reads anything but zero behind a decrement
  is not the last; what no handle points to is still to be tested by a thread
  (`Watched`); an assignment finds its handles as it left them (`Assigning`),
  for handles are of one thread.
* `GroupsTypes`, `GroupsAddedSurvive`, `GroupsNamesDiffer`.
  What was added is in memory because it is in the tables (`AddedStored`: rows
  are marked, never removed); a restart goes through them. Excepted is what
  `CreateGroup` reported and did not store, until another call gives it a row. Names differ in memory
  because they differ in the tables, as long as memory has all of them
  (`NamesInv`, which also needs that a user with groups has a default one, or the
  restart would make a second).
* `LogLinesWhole`: nothing is written behind a message `LogMsg` has cut off. The
  invariant (`CutNoticed`): such a message is the last of its stream, no call is at
  work, and the status makes the next one connect anew before it sends anything.
* `InfoAnsweredOnce`: a handler of the quotation plugin answers once. The invariant
  fits the stage of a handler to its request (`HandlerFits`), and says what has been
  sent before it is done (`NoAnswer`) and then (`OneAnswer`).
* `TradingDaysInOrder`: for any dates of the calendar asked about in any order
  (`TradeCalendarAssumption`: they exist, and a trading day is near enough for the
  bound on the turns), the answer is the nearest trading day, and a date of the
  calendar but for the two effects of the stale table (`NoSuchDay`, `StaleMarch`).
  The invariant adds that the table has 28 or 29 days for February and that a walk
  stands at a date of the calendar or at a `NoSuchDay` (`TurnGhost`, `NamedReal`);
  the argument is arithmetic. The table and the year determine one next
  and one previous date, whose number is one more or less, except that a table
  with 29 days lets a walk stand at a 29th of February that is the first of March
  (`NextDay`, `PreDay`, `Ghost`). So the numbers a walk comes by rise by at most
  one and never rest twice (`WalkRises`), it passes every day on its way
  (`RisingThrough`), and the first trading day it meets is the nearest. Only if the
  first turn rests is that the day it started from (`StaleMarch`). The recursion of
  the walk is taken apart once, in `TurnsAre`.

### What is only model-checked

* Liveness: `DealsAreBooked`, `CallsReturn`, `JobsFinish`, `RequestsReturn`.
* `ServicesTypeOK` as far as the theorems on types above do not
  cover it, and the tools, which are folds over texts and lists compared
  with a definition: what a fold computes for every list is an induction over data.

## 5. Findings

* `AccountLateCancel`: `OnCancelOrder` does not look at the status of the order.
* `AccountCancels`: `OnCancelOrder` works with an iterator it keeps outside the
  lock, and erases without it (`user_info.cc:634-653`). Another cancellation's erase
  puts a later order under the iterator; if that is a sale where a test of
  `operation()` is next, its shares are looked for in the group of another order.
* `PositionProfit`: the cost is computed from the shares left in a purchase.
* `PoolOverdrawn`: the semaphores start at twice the number of connections.

* `ObserverAddresses`: the Subject keeps addresses of elements of an indexed list.
  `OrderList` is not defined in the repository; it is taken to be the vector that
  `pub/logic/message.h:212` declares under that name. `erase` alone moves the
  elements of any list that is indexed.

Met while modelling, without a sentence in the repository to hold them against, or
outside what a run could show of them:

* account: the same moved addresses let `MakeADeal` and `OnOrderDone` deal another
  order than the one `can_deal` was asked of, also one with a lower limit, so that
  with cancellations and several threads nothing is claimed about debt;
  `exist_stock` is tested the wrong way round in `SubmitOrder` (371); the
  error paths of `SubmitOrder` keep the lock; nothing ever makes bought shares
  available for sale except a cancellation; a purchase whose `proc_BuyOrderDone`
  fails is paid but not held;
* restart: the available shares of every position are 0; purchases sold out are
  loaded again (the next sale may visit them first and take them below zero), and
  those with a negative count wrap the total around; a sale of
  no shares ends the process again after every restart; what a failing submit has
  frozen is written off by the next call that stores the capital as it is now; a
  failed `proc_BuyOrderDone` or `proc_SellOrderDone` before such a call counts the
  change or the proceeds twice after a restart; a cancellation of a sale that was
  not stored lets the shares be sold twice. A lot that `OnOrderDone` took below
  zero (its loop asks the next lot for what `sell` left, whatever the sign,
  `stock_position.cc:146-153`) stays below zero in `holding_record`: when no other
  row of the group has shares, `num > 0` (`stock_position.cc:67-72`) finds none and
  the group is not loaded, although `count_` had said that shares were left. A sale
  pending on them is loaded without a position: dealt, it is paid for and never
  stored; cancelled, it meets the assertion at `user_info.cc:614`.
  `NothingLostByRestart` and `RestartBacksSales` are about what is left;
* groups: deleted stocks come back with a restart (`stock_group.cc:42` reads them
  all), and a deleted stock cannot be added again, for its row is still there;
  `CreateGroup` returns SUCCESS with the stocks of a failed INSERT, which a restart
  does not find (`user_info.cc:182-186`);
* reference counts: two threads may both read zero in `Release` and delete twice
  (`doubleFree`);
* simple pool: a call without a connection pushes NULL, which later calls receive
  although connections are free again behind it;
* `DbSql`: queries of the last two kinds, and `get_record_num` after a query has
  forgotten the connection, use a NULL connection;
* stock basics: a thread that uses the engine while another starts it finds no
  manager; two refreshes at once may leave the older snapshot;
* log: `LogMessage` never notices that a message was cut, since the failure ends
  the loop in which it looks for one;
* front end: the content of a PUT or DELETE is sent with the next POST; a request
  without one of the CGI variables ends the process (`fcgimodule.cc:59-72`);
* calendar: when an earlier question about a leap year has left 29 days to
  February, `PreTradeDate` takes the day before a first of March for a 29th that
  the year does not have, which is that first of March again (`StaleMarch`), and
  `NextTradeDate` may answer such a date too, e.g. 20170229 (`NoSuchDay`);
  `market_open_time` is -1 on trading days, its test being the wrong way round
  (`stock_util.h:270`; no property asks for either);
* tools: `tools.h:50` says that `FindNth` looks in `len` characters from `start`;
  the code counts `len` anew behind each occurrence.

## 6. Not modelled

* The account's own lock as `pthread_rwlock` (`user_info.cc:364`): `SubmitOrder`
  takes the read lock with the write lock held and never passes its first call.
  No interleaving is needed to see it, and a model with that lock would have no
  second state. The account is modelled with the lock the code assumes.
* The list of observers while it is walked (`subject.cc:31`): an append to a
  `std::list` another thread walks has no outcome a model could choose.
* `StockBasicInfoMgr::FreeInstance` (`stock_base_info.cc:23`): it has no caller.
* What a deletion promises (`stock_group.cc:42`, `179`): modelled in
  `StockGroups`, but nothing in the repository says whether deleted stocks stay
  away, so no property does.
* Redis (`redis_controller`): single calls to the cache server, no state.
* Packets, JSON, HTTP data, error texts, `message.*`: getters and layout. How an
  answer is sent is in `RealInfo`.
* Row mapping (`abstract_dao`): conversions of columns. What they yield for the
  tables of the account is in `AccountRecovery`.
* Tokens (`tools.cc`): a cipher around a conversion of characters, without state.
* The loader and the mains of the front ends: they start what the models begin
  with.
* SQL texts, getters that format the current time, character sets.
