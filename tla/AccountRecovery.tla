--------------------------- MODULE AccountRecovery ---------------------------
(***************************************************************************)
(* The account of UserAccount next to what the database keeps of it, and    *)
(* the restart that loads it again: UserInfo::Deserialize, Init,            *)
(* InitStockPosition, InitOrder and BindOrder of pub/logic/user_info.cc,    *)
(* with GroupStockPosition's loading in pub/logic/stock_position.cc.        *)
(*                                                                         *)
(* The stored procedures are not in the repository: they are modelled from  *)
(* the arguments they are called with and from the comments at the calls    *)
(* ("update available capital and frozen capital", "delegation_record").    *)
(* Each is one transaction, made by the same step as the change in memory.  *)
(* A call that fails in UserAccount counts in `dbErrors'; the calls whose    *)
(* result changes nothing in memory may fail here as well.                  *)
(***************************************************************************)
EXTENDS UserAccount

CONSTANTS
  NoHolding,     \* no row in holding_record
  MaxRestarts    \* bound: restarts of a behaviour

ASSUME RecoveryAssumption ==
  MaxRestarts \in Nat /\ NoHolding \notin Int

VARIABLES
  dbFree, dbHeld,  \* user_info: availableCapital, frozenCapital
  dbOrder,         \* delegation_record, by order id
  dbRow,           \* holding_record.num, by the order that bought the shares;
                   \* or NoHolding
  synced,          \* history: no call has failed since the last restart
  unmarked,        \* history: a sale's deal or cancellation was not stored, ever
  restarts

storedVars == <<dbFree, dbHeld, dbOrder, dbRow>>
recVars == <<vars, storedVars, synced, unmarked, restarts>>

DbPending == {o \in OrderIds : dbOrder[o].status = "PENDING"}

Numbered == {o \in OrderIds : dbOrder[o].status # "NONE"}

RecoveryInit ==
  /\ Init
  /\ dbFree = Deposit /\ dbHeld = 0
  /\ dbOrder = order
  /\ dbRow = [o \in OrderIds |-> NoHolding]
  /\ synced = TRUE /\ unmarked = FALSE /\ restarts = 0

-----------------------------------------------------------------------------
(* A call of the database fails, or changes nothing there.                  *)
NotStored == UNCHANGED storedVars

Failing == dbErrors' # dbErrors

(* What a step that calls the database leaves in the two history variables. *)
Noted == /\ synced' = (synced /\ ~Failing)
         /\ UNCHANGED <<unmarked, restarts>>

(* The ids numbered in this step.                                           *)
NewIds == {o \in OrderIds : ~Made(o) /\ order'[o].status # "NONE"}

(* proc_InsertDelegation, called by SubmitOrder with the money it has       *)
(* frozen.                                                                 *)
StoreNew(o) ==
  /\ dbOrder' = [dbOrder EXCEPT ![o] = order'[o]]
  /\ dbFree' = dbFree - order'[o].frozen
  /\ dbHeld' = dbHeld + order'[o].frozen
  /\ UNCHANGED dbRow

(* The requests UserAccount refuses make no call.                           *)
StoredSubmit(t, g, price, num, market) ==
  /\ \/ \E expected \in Prices \cup {0} : SubmitBuy(t, g, price, num, expected, market)
     \/ SubmitSell(t, g, price, num, market)
  /\ IF NewIds = {} THEN NotStored ELSE \E o \in NewIds : StoreNew(o)
  /\ Noted

(* Variant: the change is stored, not the capital that is available now.    *)
StoreChange(o) == dbFree' = dbFree + order[o].frozen

(* proc_BuyOrderDone and proc_SellOrderDone are given the capital available *)
(* now (set_available_capital).                                            *)
StoreAvailable(o) == dbFree' = available'

(* Variant: the row keeps the shares no order is waiting to sell.           *)
UndelegatedShares(o) == IF order[o].expected = 0 THEN order[o].num ELSE 0

(* The new holding_record: deal_num.                                        *)
BoughtShares(o) == order[o].num

(* proc_BuyOrderDone unless it fails (then the position stays as it was),   *)
(* and proc_InsertDelegation for the automatic order.                       *)
StoredBuyDone(t) ==
  LET o == cur[t][1] IN
  /\ OnBuyOrderDone(t)
  /\ IF position' = position
     THEN NotStored
     ELSE /\ StoreAvailable(o)
          /\ dbHeld' = dbHeld - order[o].frozen
          /\ dbRow' = [dbRow EXCEPT ![o] = BoughtShares(o)]
          /\ dbOrder' = [i \in OrderIds |->
                IF i = o \/ i \in NewIds THEN order'[i] ELSE dbOrder[i]]
  /\ Noted

(* The history string of OnSellOrderDone: "id:count," for every lot visited. *)
Picked(o) ==
  LET pos == position[order[o].group]
  IN  IF pos = NoPosition THEN <<>> ELSE OnSaleDonePicked(pos, order[o].num)

(* The counts of the lots visited, as the sale left them.                   *)
StoreRows(o) ==
  dbRow' = [i \in OrderIds |->
    LET picks == {k \in DOMAIN Picked(o) : Picked(o)[k].id = i}
    IN  IF picks = {} THEN dbRow[i] ELSE Picked(o)[CHOOSE k \in picks : TRUE].count]

(* OnSellOrderDone: no call without a position, nor when h.erase throws;    *)
(* a call that fails is only logged.                                        *)
StoredSellDone(t) ==
  LET o == cur[t][1] IN
  /\ At(t, "done") /\ CanLock(t)
  /\ order[o].op = "SELL"
  /\ \/ /\ OnSellOrderDone(t)
        /\ IF Picked(o) = <<>>
           THEN NotStored
           ELSE /\ StoreAvailable(o)
                /\ StoreRows(o)
                /\ dbOrder' = [dbOrder EXCEPT ![o] = order[o]]
                /\ UNCHANGED dbHeld
        /\ Noted
     \/ /\ Picked(o) # <<>>
        /\ DbError
        /\ available' = available + Proceeds(o)
        /\ position' = [position EXCEPT ![order[o].group] = Sold(@, order[o].num)]
        /\ Finish(t, o)
        /\ UNCHANGED <<frozen, order, orderList, observers, crashed>>
        /\ NotStored
        /\ synced' = FALSE /\ unmarked' = TRUE
        /\ UNCHANGED restarts

(* proc_CancelBuyDelegation and proc_CancelSaleDelegation get the order's   *)
(* id; the first gives the frozen capital back.                             *)
StoreCancel(o) ==
  /\ dbOrder' = [dbOrder EXCEPT ![o] = order[o]]
  /\ dbFree' = dbFree + order[o].frozen
  /\ dbHeld' = dbHeld - order[o].frozen
  /\ UNCHANGED dbRow

(* A cancellation that cannot be stored is done in memory all the same.     *)
(* Bound: it is the first call to fail since the restart.                   *)
StoredCancel(t) ==
  LET o == cur[t][1] IN
  /\ OnCancelBuyOrder(t) \/ OnCancelSellOrder(t)
  /\ \/ /\ IF crashed' THEN NotStored ELSE StoreCancel(o)
        /\ Noted
     \/ /\ ~crashed'
        /\ synced
        /\ NotStored
        /\ synced' = FALSE
        /\ unmarked' = (unmarked \/ order[o].op = "SELL")
        /\ UNCHANGED restarts

(* The steps that do not reach the database.  A stale observer, which does  *)
(* nothing, stays attached here.                                           *)
InMemory ==
  /\ \/ \E t \in Threads : \/ MakeADeal(t)
                           \/ \E o \in OrderIds : OnCancelOrder(t, o)
                           \/ MarkOrder(t)
                           \/ TestOperation(t)
                           \/ EraseOrder(t)
     \/ \E o \in OrderIds, market \in Prices : Notify(o, market)
  /\ NotStored
  /\ UNCHANGED <<synced, unmarked, restarts>>

-----------------------------------------------------------------------------
(* GetFakeStockPositionSql: every row of the group, sold out or not.        *)
Rows(g) == {o \in Numbered : dbOrder[o].group = g /\ dbRow[o] # NoHolding}

(* GetGroupStockPositionSql: the groups with a row of more than no shares.  *)
SomeShares(g) == \E o \in Rows(g) : dbRow[o] > 0

(* InitFakeStockPosition adds the rows up and leaves available_ at 0;       *)
(* BindOrder finds the order, and so the price, of each.                    *)
LoadedPosition(g) ==
  [count |-> SumFunctionOnSet(dbRow, Rows(g)) % UintMod,
   available |-> 0,
   lots |-> SetToSeq({[id |-> o, price |-> dbOrder[o].deal, count |-> dbRow[o]] :
                        o \in Rows(g)})]

(* InitOrder attaches the orders still pending; the lines that delegated    *)
(* their shares are commented out.                                         *)
AttachPending == observers' = DbPending

(* UserInfo::Deserialize and Init in a new process.  GetUserOrderSql is     *)
(* not in the repository: every order stored is taken to be read.           *)
Reload ==
  /\ restarts < MaxRestarts
  /\ restarts' = restarts + 1
  /\ available' = dbFree /\ frozen' = dbHeld
  /\ position' = [g \in Groups |-> IF SomeShares(g) THEN LoadedPosition(g)
                                   ELSE NoPosition]
  /\ order' = dbOrder
  /\ orderList' = Numbered
  /\ AttachPending
  /\ released' = [o \in OrderIds |-> IF o \in Numbered \ DbPending THEN 1 ELSE 0]
  /\ shifted' = FALSE /\ lockLeak' = NoThread /\ crashed' = FALSE
  /\ pc' = [t \in Threads |-> "idle"]
  /\ cur' = [t \in Threads |-> <<>>]
  /\ lost' = 0
  /\ synced' = TRUE
  /\ UNCHANGED <<storedVars, dbErrors, unmarked>>

RecoveryNext ==
  \/ \E t \in Threads :
       \/ \E g \in Groups, price \in Prices, num \in Nums, market \in Prices :
            StoredSubmit(t, g, price, num, market)
       \/ StoredBuyDone(t) \/ StoredSellDone(t) \/ StoredCancel(t)
  \/ InMemory
  \/ Reload

RecoverySpec == RecoveryInit /\ [][RecoveryNext]_recVars

-----------------------------------------------------------------------------
(* Types of what the database keeps, next to those of the account.          *)
RecoveryTypeOK ==
  /\ TypeOK
  /\ dbFree \in Int /\ dbHeld \in Int
  /\ dbOrder \in [OrderIds -> OrderType \cup {NoOrder}]
  /\ dbRow \in [OrderIds -> Int \cup {NoHolding}]
  /\ synced \in BOOLEAN /\ unmarked \in BOOLEAN
  /\ restarts \in 0 .. MaxRestarts

BetweenCalls == ~crashed /\ \A t \in Threads : pc[t] = "idle"

LotsOf(g) ==
  LET lots == IF position[g] = NoPosition THEN <<>> ELSE position[g].lots
  IN  {lot \in {lots[i] : i \in DOMAIN lots} : HasShares(lot)}

RowLots(g) ==
  {lot \in {[id |-> o, price |-> dbOrder[o].deal, count |-> dbRow[o]] : o \in Rows(g)} :
     HasShares(lot)}

EmptySale(o) == Made(o) /\ order[o].op = "SELL" /\ order[o].num = 0

(* No sale has taken more from a lot than it held.  The loop of             *)
(* GroupStockPosition::OnOrderDone may (StockPosition): such a row stays    *)
(* below zero, and a group with no other row is not loaded again though     *)
(* count_ says that shares are left.                                       *)
NoRowBelowZero == \A o \in OrderIds : dbRow[o] = NoHolding \/ dbRow[o] >= 0

(* While no database call fails, a process that stops between two calls     *)
(* loses nothing it stored: the capitals, the orders and the lots a restart *)
(* (user_info.cc:28-161) would load are those in memory, though the         *)
(* handlers send them to the database piece by piece and in three ways (as  *)
(* amounts, as the capital available now, as the counts left in the lots).  *)
(* Only a sale cut down to no shares may be dealt without being stored.     *)
(* An order must not be ended twice: one thread at work, or no cancellation *)
(* (UserAccount!ReleasedOnce); a late one is stored like any other.  And    *)
(* two things are the end of it.  A sale whose end was not stored leaves    *)
(* its shares to be sold twice after the restart.  A lot sold below zero    *)
(* leaves the next sale without a position after the restart, and that sale *)
(* is paid for and not stored.                                              *)
NothingLostByRestart ==
  BetweenCalls /\ synced /\ ~unmarked /\ NoRowBelowZero =>
    /\ dbFree = available /\ dbHeld = frozen
    /\ \A o \in OrderIds : dbOrder[o] = order[o] \/ EmptySale(o)
    /\ \A g \in Groups : LotsOf(g) = RowLots(g)

(* The assertion commented out at user_info.cc:132: a pending sale loaded   *)
(* at a restart finds its group's position, however many other calls failed *)
(* and restarts came before, as long as the end of no sale was lost and no  *)
(* lot was sold below zero (a group without a row above zero is not loaded,  *)
(* stock_position.cc:67-72); a sale of no shares has nothing to find, and   *)
(* one ended twice has given its shares to others.                          *)
RestartBacksSales ==
  [][ Reload /\ ~unmarked /\ NoRowBelowZero =>
        \A o \in DbPending :
          dbOrder[o].op = "SELL" /\ dbOrder[o].num > 0
            => position'[dbOrder[o].group] # NoPosition ]_recVars
=============================================================================
