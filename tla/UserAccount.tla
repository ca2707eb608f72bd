---------------------------- MODULE UserAccount ----------------------------
(***************************************************************************)
(* UserInfo of pub/logic/user_info.{h,cc}: one user's capital, orders and   *)
(* positions, used by several server threads.  A call is cut into steps     *)
(* where the code takes or gives back the account's lock:                   *)
(*                                                                         *)
(*   SubmitOrder    [locked: check, reserve, store, push, attach]           *)
(*                  then, unlocked, MakeADeal -> OnOrderDone [locked]       *)
(*   Notify         [unlocked: stale?, can_deal?] MakeADeal -> OnOrderDone   *)
(*   OnCancelOrder  [unlocked: find] [mark] [BUY?] [locked: give back]      *)
(*                  [SELL?] [give back] [erase]                            *)
(*                                                                         *)
(* From find to erase, and from can_deal to OnOrderDone, a call holds the   *)
(* address of an element of the vector order_list_, not the order: `cur' is *)
(* the order that address denotes now, and EraseOrder, which takes no lock, *)
(* moves the later elements up under the addresses of the other threads.    *)
(*                                                                         *)
(* The lock: SubmitOrder takes it by hand and returns from its error paths  *)
(* without giving it back.  `lockLeak' is the thread that did so.  The lock *)
(* is taken to admit its owner again and to count, as every method needs    *)
(* that calls GetGroup (which locks) from a locked section; a section that  *)
(* is left normally therefore changes nothing, and a leaked lock stays with *)
(* its thread.                                                             *)
(*                                                                         *)
(* OrderInfo, Observer and SSEngine are not in the repository.  They are    *)
(* modelled from their uses here: stale() is status # PENDING, MakeADeal    *)
(* fills in the deal, sets FINISHED and calls OnOrderDone.                  *)
(***************************************************************************)
EXTENDS Integers, FiniteSets, FiniteSetsExt, Sequences, TradeFees, StockPosition

CONSTANTS
  Threads,       \* server threads that call into the account
  Notifier,      \* the one that delivers market data, by Subject::Notify
  Groups,        \* the user's stock groups
  OrderIds,      \* order ids the database can still give out, in this order
  Prices, Nums,  \* order prices and numbers of shares a request may have
  Deposit,       \* available capital of the user at the start
  Cancels,       \* which orders clients cancel: "none", "pending" or "any"
  MaxDbErrors,   \* bound: failing database calls of a behaviour
  NoThread, NoPosition

ASSUME UserAccountAssumption ==
  /\ Notifier \in Threads
  /\ NoThread \notin Threads
  /\ IsFiniteSet(OrderIds)
  /\ OrderIds \subseteq Nat
  /\ Prices \subseteq Nat \ {0}
  /\ Nums \subseteq Nat \ {0}
  /\ Deposit \in Nat
  /\ Cancels \in {"none", "pending", "any"}
  /\ MaxDbErrors \in Nat
  /\ NoPosition \notin PositionType

VARIABLES
  available,     \* available_capital_
  frozen,        \* frozen_capital_
  position,      \* stock_position_list_: by group, GetGroupStockPosition
                 \* looks at nothing else
  order,         \* the orders the database has numbered
  orderList,     \* order_list_, the ids of its elements: push_back adds
                 \* the highest, so their order is that of the vector
  observers,     \* ids of the orders attached to the engine's Subject
  shifted,       \* an erase has moved elements of order_list_ under the
                 \* addresses the Subject holds
  lockLeak,      \* the thread that returned with the lock, or NoThread
  pc,            \* where each thread is
  cur,           \* the order at the address it holds, and the market
                 \* price it read
  released,      \* history: how often an order was settled or cancelled
  lost,          \* history: capital frozen for orders that were never made
  dbErrors,      \* database calls that failed
  crashed        \* an exception or abort ended the process

vars == <<available, frozen, position, order, orderList, observers, shifted,
          lockLeak, pc, cur, released, lost, dbErrors, crashed>>

OrderType ==
  [op : {"BUY", "SELL"}, group : Groups, price : Prices, num : Nat,
   expected : Prices \cup {0}, frozen : Nat,
   status : {"PENDING", "FINISHED", "CANCEL"}, deal : Prices \cup {0}]

NoOrder == [status |-> "NONE"]

Steps == {"idle", "deal", "done",
          "mark", "ifBuy", "buy", "ifSell", "sell", "erase"}

Work == OrderIds \X (Prices \cup {0})

-----------------------------------------------------------------------------
Idle(t) == ~crashed /\ pc[t] = "idle"
At(t, step) == ~crashed /\ pc[t] = step

(* Variant: a lock that does not admit its owner.                           *)
CanLockOnce(t) == lockLeak = NoThread

(* WLockGd and WlockThreadrw: nobody else left the lock taken.              *)
CanLock(t) == lockLeak \in {NoThread, t}

Goto(t, step) == pc' = [pc EXCEPT ![t] = step]

Fresh == {o \in OrderIds : order[o].status = "NONE"}

(* The id the database gives next: `delegation_record' counts up.           *)
NextId(o) == o \in Fresh /\ \A p \in Fresh : o <= p

(* Bound: an id is kept for the automatic sell order every unsettled        *)
(* purchase with an expected price may still generate.                      *)
Room(k) ==
  LET promised == {o \in OrderIds : /\ order[o].status # "NONE"
                                    /\ order[o].op = "BUY"
                                    /\ order[o].expected # 0
                                    /\ released[o] = 0}
  IN  Cardinality(Fresh) >= Cardinality(promised) + k

DbError == dbErrors < MaxDbErrors /\ dbErrors' = dbErrors + 1

(* OrderInfo::can_deal, external.                                          *)
CanDeal(op, price, market) ==
  IF op = "BUY" THEN market <= price ELSE market >= price

NewOrder(op, group, price, num, expected, money) ==
  [op |-> op, group |-> group, price |-> price, num |-> num,
   expected |-> expected, frozen |-> money, status |-> "PENDING", deal |-> 0]

(* OrderInfo::amount of a bought order, external.                          *)
Amount(o) == BuyCost(order[o].deal, order[o].num)

Proceeds(o) == SaleProceeds(order[o].deal, order[o].num)

(* The lot of a purchase, known by the order it came from (BindOrder).      *)
BoughtLot(o) == [id |-> o, price |-> order[o].deal, count |-> order[o].num]

PositionOf(g) == IF position[g] = NoPosition THEN EmptyPosition ELSE position[g]

Init ==
  /\ available = Deposit
  /\ frozen = 0
  /\ position = [g \in Groups |-> NoPosition]
  /\ order = [o \in OrderIds |-> NoOrder]
  /\ orderList = {}
  /\ observers = {}
  /\ shifted = FALSE
  /\ lockLeak = NoThread
  /\ pc = [t \in Threads |-> "idle"]
  /\ cur = [t \in Threads |-> <<>>]
  /\ released = [o \in OrderIds |-> 0]
  /\ lost = 0
  /\ dbErrors = 0
  /\ crashed = FALSE

-----------------------------------------------------------------------------
(* SubmitOrder.                                                            *)

(* Every return before the two UnlockThreadrw calls.                        *)
ReturnLocked(t) ==
  /\ lockLeak' = t
  /\ UNCHANGED <<order, orderList, observers, shifted, pc, cur, released,
                 crashed>>

(* GROUP_NOT_EXIST, STOCK_NOT_IN_GROUP (sent when the stock IS in the       *)
(* group), STOCK_NOT_EXIST.                                                *)
SubmitRejected(t) ==
  /\ Idle(t) /\ CanLock(t)
  /\ ReturnLocked(t)
  /\ UNCHANGED <<available, frozen, position, lost, dbErrors>>

(* Variant: every order is attached, dealt at once or not.                  *)
WatchAlways(o, dealt) == observers' = observers \cup {o}

(* Only an order that cannot be dealt now is attached to the Subject.       *)
Watch(o, dealt) == observers' = IF dealt THEN observers ELSE observers \cup {o}

(* proc_InsertDelegation has numbered the order: push it; either its price  *)
(* is met and the lock is given back for MakeADeal, or it is attached.      *)
PushOrder(t, new, market) ==
  \E o \in OrderIds :
    /\ NextId(o)
    /\ order' = [order EXCEPT ![o] = new]
    /\ orderList' = orderList \cup {o}
    /\ Watch(o, CanDeal(new.op, new.price, market))
    /\ IF CanDeal(new.op, new.price, market)
       THEN Goto(t, "deal") /\ cur' = [cur EXCEPT ![t] = <<o, market>>]
       ELSE UNCHANGED <<pc, cur>>
    /\ UNCHANGED <<shifted, lockLeak, released, lost, dbErrors, crashed>>

(* Variant: the check forgets the charges.                                  *)
AffordableBeforeCharges(price, num) == price * num <= available

(* The test of OnBuyOrder.                                                  *)
Affordable(price, num) == BuyCost(price, num) <= available

(* Variant: the capital is frozen but still available.                      *)
FreezeOnly(need) == available' = available /\ frozen' = frozen + need

(* OnBuyOrder: "frozen commitment".                                         *)
Freeze(need) == available' = available - need /\ frozen' = frozen + need

(* OnBuyOrder: CAPITAL_NOT_ENOUGH.                                          *)
SubmitBuyRefused(t, price, num) ==
  /\ Idle(t) /\ CanLock(t)
  /\ ~Affordable(price, num)
  /\ ReturnLocked(t)
  /\ UNCHANGED <<available, frozen, position, lost, dbErrors>>

(* OnBuyOrder freezes the capital; the database call may fail after it.     *)
SubmitBuy(t, g, price, num, expected, market) ==
  LET need == BuyCost(price, num) IN
  /\ Idle(t) /\ CanLock(t)
  /\ Affordable(price, num)
  /\ Room(IF expected = 0 THEN 1 ELSE 2)
  /\ Freeze(need)
  /\ UNCHANGED position
  /\ \/ /\ DbError
        /\ lost' = lost + need
        /\ ReturnLocked(t)
     \/ PushOrder(t, NewOrder("BUY", g, price, num, expected, need), market)

(* OnSellOrder: NO_HOLDING_STOCK.                                           *)
SubmitSellRefused(t, g) ==
  /\ Idle(t) /\ CanLock(t)
  /\ position[g] = NoPosition
  /\ ReturnLocked(t)
  /\ UNCHANGED <<available, frozen, position, lost, dbErrors>>

(* OnSellOrder: the request is cut down to the shares available, down to    *)
(* none at all, and accepted.                                              *)
SubmitSell(t, g, price, num, market) ==
  /\ Idle(t) /\ CanLock(t)
  /\ position[g] # NoPosition
  /\ Room(1)
  /\ LET pos == position[g]
         n   == IF CanDelegate(pos, num) THEN num ELSE pos.available
     IN  /\ position' = [position EXCEPT ![g] = Delegate(pos, n)]
         /\ UNCHANGED <<available, frozen>>
         /\ \/ /\ DbError
               /\ ReturnLocked(t)
               /\ UNCHANGED lost
            \/ PushOrder(t, NewOrder("SELL", g, price, n, 0, 0), market)

-----------------------------------------------------------------------------
(* Subject::Notify, one observer at a time: an order that is not stale and  *)
(* whose price is met goes to MakeADeal.  Once elements have been moved the *)
(* addresses held may be those of any pending order.                        *)
Notify(o, market) ==
  /\ Idle(Notifier)
  /\ o \in orderList /\ (o \in observers \/ shifted)
  /\ order[o].status = "PENDING"
  /\ CanDeal(order[o].op, order[o].price, market)
  /\ Goto(Notifier, "deal")
  /\ cur' = [cur EXCEPT ![Notifier] = <<o, market>>]
  /\ UNCHANGED <<available, frozen, position, order, orderList, observers,
                 shifted, lockLeak, released, lost, dbErrors, crashed>>

(* Subject::Notify drops a stale observer.                                  *)
DropStale(o) ==
  /\ Idle(Notifier)
  /\ o \in observers /\ order[o].status # "PENDING"
  /\ observers' = observers \ {o}
  /\ UNCHANGED <<available, frozen, position, order, orderList, shifted,
                 lockLeak, pc, cur, released, lost, dbErrors, crashed>>

(* OrderInfo::MakeADeal, external, outside the lock: it does not look at    *)
(* the status again, nor whether its element is the one can_deal looked at. *)
MakeADeal(t) ==
  /\ At(t, "deal")
  /\ order' = [order EXCEPT ![cur[t][1]].status = "FINISHED",
                            ![cur[t][1]].deal = cur[t][2]]
  /\ Goto(t, "done")
  /\ UNCHANGED <<available, frozen, position, orderList, observers, shifted,
                 lockLeak, cur, released, lost, dbErrors, crashed>>

(* The call that dealt an order returns.                                    *)
Finish(t, o) ==
  /\ Goto(t, "idle")
  /\ cur' = [cur EXCEPT ![t] = <<>>]
  /\ released' = [released EXCEPT ![o] = @ + 1]
  /\ UNCHANGED <<shifted, lockLeak, lost>>

(* The order generated for a purchase with an expected price.  Its shares   *)
(* are delegated if they can be; whether they could is not looked at.       *)
AutoOrder(o, new) ==
  /\ order' = [order EXCEPT ![new] =
        NewOrder("SELL", order[o].group, order[o].expected, order[o].num, 0, 0)]
  /\ orderList' = orderList \cup {new}
  /\ observers' = observers \cup {new}

(* Variant: what was paid leaves the frozen capital, not what was frozen.   *)
SpendPaid(o) ==
  /\ frozen' = frozen - Amount(o)
  /\ available' = available + order[o].frozen - Amount(o)

Spend(o) ==
  /\ frozen' = frozen - order[o].frozen
  /\ available' = available + order[o].frozen - Amount(o)

(* OnOrderDone for a purchase: the capital first, then two database calls,  *)
(* each of which may fail and end the handler.  For a group's first         *)
(* purchase `gp' points to a local that is gone (gp = &p): what it points   *)
(* to has not been written over yet when the lot is added, but may have     *)
(* been when the automatic order is delegated; otherwise that call finds    *)
(* nothing available, as in any new position.                              *)
OnBuyOrderDone(t) ==
  LET o == cur[t][1]
      g == order[o].group
      held == AddLot(PositionOf(g), BoughtLot(o))
  IN
  /\ At(t, "done") /\ CanLock(t)
  /\ order[o].op = "BUY"
  /\ Spend(o)
  /\ Finish(t, o)
  /\ \/ /\ DbError
        /\ UNCHANGED <<position, order, orderList, observers, crashed>>
     \/ /\ order[o].expected = 0
        /\ position' = [position EXCEPT ![g] = held]
        /\ UNCHANGED <<order, orderList, observers, dbErrors, crashed>>
     \/ /\ order[o].expected # 0
        /\ DbError
        /\ position' = [position EXCEPT ![g] = held]
        /\ UNCHANGED <<order, orderList, observers, crashed>>
     \/ /\ order[o].expected # 0
        /\ \E new \in OrderIds : NextId(new) /\ AutoOrder(o, new)
        /\ position' = [position EXCEPT ![g] = Delegate(held, order[o].num)]
        /\ crashed' \in {FALSE, position[g] = NoPosition}
        /\ UNCHANGED dbErrors

(* Variant: a position that is sold out leaves the list.                    *)
SoldDropped(pos, num) ==
  IF OnSaleDone(pos, num).count = 0 THEN NoPosition ELSE OnSaleDone(pos, num)

(* gp->OnOrderDone: the position stays in the list, sold out or not.        *)
Sold(pos, num) == OnSaleDone(pos, num)

(* OnOrderDone for a sale.  A position without lots yields an empty         *)
(* fp_list, and h.erase(h.size() - 1) throws.  The result of the database   *)
(* call changes nothing in memory.                                         *)
OnSellOrderDone(t) ==
  LET o == cur[t][1]
      g == order[o].group
  IN
  /\ At(t, "done") /\ CanLock(t)
  /\ order[o].op = "SELL"
  /\ available' = available + Proceeds(o)
  /\ Finish(t, o)
  /\ IF position[g] = NoPosition
     THEN UNCHANGED <<position, crashed>>
     ELSE /\ position' = [position EXCEPT ![g] = Sold(@, order[o].num)]
          /\ crashed' = (position[g].lots = <<>>)
  /\ UNCHANGED <<frozen, order, orderList, observers, dbErrors>>

-----------------------------------------------------------------------------
(* order->OnOrderCancel(), external.                                        *)
MarkCancelled(o) == order' = [order EXCEPT ![o].status = "CANCEL"]

(* OnCancelOrder finds the order, without the lock and without a look at    *)
(* its status; `Cancels' says which orders clients ask for.                 *)
OnCancelOrder(t, o) ==
  /\ Idle(t)
  /\ o \in orderList
  /\ \/ Cancels = "any"
     \/ Cancels = "pending" /\ order[o].status = "PENDING"
  /\ Goto(t, "mark")
  /\ cur' = [cur EXCEPT ![t] = <<o, 0>>]
  /\ UNCHANGED <<available, frozen, position, order, orderList, observers,
                 shifted, lockLeak, released, lost, dbErrors, crashed>>

MarkOrder(t) ==
  /\ At(t, "mark")
  /\ MarkCancelled(cur[t][1])
  /\ Goto(t, "ifBuy")
  /\ UNCHANGED <<available, frozen, position, orderList, observers, shifted,
                 lockLeak, cur, released, lost, dbErrors, crashed>>

(* The two tests of order->operation(), each before its call.               *)
TestOperation(t) ==
  /\ LET op == order[cur[t][1]].op
     IN  \/ At(t, "ifBuy") /\ Goto(t, IF op = "BUY" THEN "buy" ELSE "ifSell")
         \/ At(t, "ifSell") /\ Goto(t, IF op = "SELL" THEN "sell" ELSE "erase")
  /\ UNCHANGED <<available, frozen, position, order, orderList, observers,
                 shifted, lockLeak, cur, released, lost, dbErrors, crashed>>

(* The database result only becomes the caller's status.                    *)
CancelDone(t, o, step) ==
  /\ Goto(t, step)
  /\ released' = [released EXCEPT ![o] = @ + 1]
  /\ UNCHANGED <<order, orderList, observers, shifted, lockLeak, cur, lost,
                 dbErrors>>

(* Variant: the frozen capital is given back and kept frozen.               *)
ThawAvailableOnly(o) == available' = available + order[o].frozen /\ frozen' = frozen

Thaw(o) == /\ available' = available + order[o].frozen
           /\ frozen' = frozen - order[o].frozen

OnCancelBuyOrder(t) ==
  LET o == cur[t][1] IN
  /\ At(t, "buy") /\ CanLock(t)
  /\ Thaw(o)
  /\ CancelDone(t, o, "ifSell")
  /\ UNCHANGED <<position, crashed>>

(* A failing assertion, or undefined behaviour, ends the process.           *)
Abort ==
  /\ crashed' = TRUE
  /\ UNCHANGED <<available, frozen, position, order, orderList, observers,
                 shifted, lockLeak, pc, cur, released, lost, dbErrors>>

(* Takes only the read lock of GetGroupStockPosition, and asserts that it   *)
(* finds the position.                                                     *)
OnCancelSellOrder(t) ==
  LET o == cur[t][1]
      g == order[o].group
  IN
  /\ At(t, "sell") /\ CanLock(t)
  /\ IF position[g] = NoPosition
     THEN Abort
     ELSE /\ position' = [position EXCEPT ![g] = OnOrderCancel(@, order[o].num)]
          /\ CancelDone(t, o, "erase")
          /\ UNCHANGED <<available, frozen, crashed>>

(* The orders after o in order_list_.                                      *)
Behind(o) == {p \in orderList : p > o}

(* The order at the address of o once e is erased: the elements behind e    *)
(* move up by one; the slot past the new end keeps what it held.            *)
Moved(o, e) == IF e <= o /\ Behind(o) # {} THEN Min(Behind(o)) ELSE o

(* What erase(order) removes: the element at the iterator, and the last one *)
(* if that has come to stand past the end.                                  *)
Erased(t, e) ==
  /\ e \in orderList
  /\ \/ e = cur[t][1]
     \/ cur[t][1] \notin orderList /\ Behind(e) = {}

(* data_->order_list_.erase(order), again without the lock.                 *)
EraseOrder(t) ==
  /\ At(t, "erase")
  /\ IF orderList = {}
     THEN Abort
     ELSE \E e \in orderList :
       /\ Erased(t, e)
       /\ orderList' = orderList \ {e}
       /\ cur' = [u \in Threads |->
                    IF u = t \/ cur[u] = <<>> THEN <<>>
                    ELSE <<Moved(cur[u][1], e), cur[u][2]>>]
       /\ shifted' = TRUE
       /\ Goto(t, "idle")
       /\ UNCHANGED <<available, frozen, position, order, observers, lockLeak,
                      released, lost, dbErrors, crashed>>

-----------------------------------------------------------------------------
SubmitOrder(t) ==
  \/ SubmitRejected(t)
  \/ \E g \in Groups : SubmitSellRefused(t, g)
  \/ \E price \in Prices, num \in Nums : SubmitBuyRefused(t, price, num)
  \/ \E g \in Groups, price \in Prices, num \in Nums, market \in Prices :
       \/ \E expected \in Prices \cup {0} :
            SubmitBuy(t, g, price, num, expected, market)
       \/ SubmitSell(t, g, price, num, market)

OnOrderDone(t) == OnBuyOrderDone(t) \/ OnSellOrderDone(t)

Cancel(t) ==
  \/ \E o \in OrderIds : OnCancelOrder(t, o)
  \/ MarkOrder(t)
  \/ TestOperation(t)
  \/ OnCancelBuyOrder(t)
  \/ OnCancelSellOrder(t)
  \/ EraseOrder(t)

Next ==
  \/ \E t \in Threads : SubmitOrder(t) \/ MakeADeal(t) \/ OnOrderDone(t) \/ Cancel(t)
  \/ \E o \in OrderIds : DropStale(o) \/ \E market \in Prices : Notify(o, market)

Spec == Init /\ [][Next]_vars

(* A thread inside a call keeps running; a thread waiting for the lock is   *)
(* woken when it is free.  New requests and market data need never come.    *)
Fairness ==
  \A t \in Threads :
    WF_vars(MakeADeal(t) \/ OnOrderDone(t) \/ MarkOrder(t)
            \/ TestOperation(t) \/ OnCancelBuyOrder(t)
            \/ OnCancelSellOrder(t) \/ EraseOrder(t))

FairSpec == Spec /\ Fairness

-----------------------------------------------------------------------------
(* Types of the state; the capitals are doubles and may have any sign, the  *)
(* two counts of a position are unsigned.                                  *)
TypeOK ==
  /\ available \in Int /\ frozen \in Int /\ lost \in Nat
  /\ position = [g \in Groups |-> position[g]]
  /\ \A g \in Groups : position[g] = NoPosition \/ IsPosition(position[g])
  /\ order \in [OrderIds -> OrderType \cup {NoOrder}]
  /\ orderList \subseteq OrderIds /\ observers \subseteq OrderIds
  /\ lockLeak \in Threads \cup {NoThread}
  /\ pc \in [Threads -> Steps]
  /\ cur \in [Threads -> Work \cup {<<>>}]
  /\ \A t \in Threads : pc[t] # "idle" => cur[t] \in Work
  /\ released \in [OrderIds -> Nat]
  /\ dbErrors \in 0 .. MaxDbErrors
  /\ shifted \in BOOLEAN /\ crashed \in BOOLEAN

Made(o) == order[o].status # "NONE"

Open(o) == Made(o) /\ released[o] = 0

(* OnBuyOrder refuses what the user cannot pay, and a deal never costs more *)
(* than was frozen for it: the user is never in debt, in whatever order     *)
(* deals and failing database calls come, and cancellations of one thread.  *)
NeverInDebt == available >= 0

Held == [o \in OrderIds |-> IF Open(o) THEN order[o].frozen ELSE 0]

TotalHeld == SumFunctionOnSet(Held, OrderIds)

(* user_info.cc:333 calls frozen capital a commitment: it is what the       *)
(* orders not yet settled or cancelled were given, plus what a failing      *)
(* proc_InsertDelegation left behind.                                      *)
FrozenIsHeld == frozen = TotalHeld + lost

(* An order is settled or cancelled once, though the thread that submits it *)
(* deals it outside the lock while market data is delivered to the others.  *)
ReleasedOnce == \A o \in OrderIds : released[o] <= 1

Offered(g) ==
  [o \in OrderIds |->
     IF Open(o) /\ order[o].op = "SELL" /\ order[o].group = g
     THEN order[o].num ELSE 0]

SharesToSell(g) == SumFunctionOnSet(Offered(g), OrderIds)

(* The open sell orders of a group, the automatic ones included, and what   *)
(* may still be delegated never exceed the shares held: no sale takes       *)
(* count_ below zero.                                                      *)
SalesCovered ==
  \A g \in Groups :
    position[g] # NoPosition =>
      position[g].available + SharesToSell(g) <= position[g].count

(* The assertion at user_info.cc:614: a cancellation that has found a sell   *)
(* order finds the position the order sells from.                          *)
CancelFindsPosition ==
  \A t \in Threads :
    pc[t] = "sell" => position[order[cur[t][1]].group] # NoPosition

(* Only a sale of no shares at all (a request cut down to what is           *)
(* available) can meet a position without lots and throw.                   *)
OnlyEmptySalesThrow ==
  [][ \A t \in Threads :
        (/\ crashed' /\ ~crashed
         /\ pc[t] = "done" /\ pc'[t] = "idle"
         /\ order[cur[t][1]].op = "SELL")
        => order[cur[t][1]].num = 0 ]_vars

(* A deal is booked unless some other thread has left the lock taken: the   *)
(* leaks of SubmitOrder are the only thing an OnOrderDone can wait for.     *)
DealsAreBooked ==
  \A t \in Threads :
    (pc[t] = "done") ~> (pc[t] = "idle" \/ lockLeak \notin {NoThread, t} \/ crashed)

(* The account keeps the promises of the ledger.                            *)
Ledger == INSTANCE CapitalLedger WITH
  Orders <- OrderIds,
  free   <- available,
  held   <- Held,
  closed <- {o \in OrderIds : released[o] > 0},
  stray  <- frozen - TotalHeld

KeepsLedger == Ledger!LedgerSpec
=============================================================================
