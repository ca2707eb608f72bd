------------------------- MODULE UserAccountLedger -------------------------
(***************************************************************************)
(* What UserAccount keeps books of.  Money: the frozen capital is what the  *)
(* open orders hold, plus what failing database calls have left behind, and *)
(* the account implements CapitalLedger; every step is shown to be one of   *)
(* five moves of money, and each theorem is then about the moves alone.     *)
(* Shares: a sale that is cancelled finds the group's position (the         *)
(* assertion at user_info.cc:614), and no deal takes the unsigned count of  *)
(* a position below zero, nor meets one without lots unless the sale is of  *)
(* nothing.                                                                *)
(***************************************************************************)
EXTENDS UserAccountProofs

(* Only purchases hold money.                                               *)
SellsHoldNothing ==
  \A o \in OrderIds : Made(o) /\ order[o].op = "SELL" => order[o].frozen = 0

MoneyInv == OnceInv /\ SellsHoldNothing

-----------------------------------------------------------------------------
(* The moves.                                                              *)

(* Held is a function of the orders; this is it, order by order.            *)
HeldNow(o, amount) ==
  \A p \in OrderIds : Held'[p] = IF p = o THEN amount ELSE Held[p]

NothingMoves ==
  /\ \A p \in OrderIds : Held'[p] = Held[p]
  /\ UNCHANGED <<available, frozen, lost, released>>

(* OnBuyOrder freezes the cost of an order ...                              *)
MoneyHeld(o, need) ==
  /\ need \in Nat \ {0} /\ need <= available
  /\ released[o] = 0 /\ Held[o] = 0 /\ HeldNow(o, need)
  /\ available' = available - need /\ frozen' = frozen + need
  /\ UNCHANGED <<lost, released>>

(* ... that the database then refuses.                                      *)
MoneyLost(need) ==
  /\ need \in Nat \ {0} /\ need <= available
  /\ \A p \in OrderIds : Held'[p] = Held[p]
  /\ available' = available - need /\ frozen' = frozen + need
  /\ lost' = lost + need
  /\ UNCHANGED released

(* A purchase is settled, or an order cancelled.                            *)
MoneyReleased(o, back) ==
  /\ released[o] = 0 /\ released' = [released EXCEPT ![o] = @ + 1]
  /\ HeldNow(o, 0)
  /\ frozen' = frozen - Held[o] /\ available' = available + back
  /\ back \in Int
  /\ DebtInv => 0 <= back /\ back <= Held[o]
  /\ UNCHANGED lost

(* A sale is settled.                                                       *)
MoneyEarned(o) ==
  /\ released[o] = 0 /\ released' = [released EXCEPT ![o] = @ + 1]
  /\ Held[o] = 0 /\ \A p \in OrderIds : Held'[p] = Held[p]
  /\ DebtInv /\ (\A price \in Prices : price >= 6) => available' >= available
  /\ UNCHANGED <<frozen, lost>>

Moves ==
  \/ NothingMoves
  \/ \E need \in Nat : MoneyLost(need)
  \/ \E o \in OrderIds :
       \/ \E need \in Nat : MoneyHeld(o, need)
       \/ \E back \in Int : MoneyReleased(o, back)
       \/ MoneyEarned(o)

-----------------------------------------------------------------------------
(* What the changes of the orders do to the money held for them.            *)

LEMMA HeldIs ==
  /\ Held = [o \in OrderIds |-> Held[o]] /\ Held' = [o \in OrderIds |-> Held'[o]]
  /\ \A o \in OrderIds :
       Held[o] = IF Made(o) /\ released[o] = 0 THEN order[o].frozen ELSE 0
  /\ \A o \in OrderIds :
       Held'[o] = IF Made(o)' /\ released'[o] = 0 THEN order'[o].frozen ELSE 0
BY DEF Held, Open

LEMMA HeldType ==
  ASSUME TypeInv
  PROVE  \A o \in OrderIds : Held[o] \in Nat
BY HeldIs, OrderFields, OrderNumbers DEF TypeInv

LEMMA TermsKeptHeld ==
  ASSUME TypeInv, UNCHANGED released,
         \A p \in OrderIds : (Made(p)' <=> Made(p)) /\ (Made(p) => SameTerms(p))
  PROVE  \A p \in OrderIds : Held'[p] = Held[p]
BY HeldIs DEF SameTerms

LEMMA OrderAddedHeld ==
  ASSUME TypeInv, OnceInv, NEW new, NEW terms, OrderAdded(new, terms),
         UNCHANGED released
  PROVE  /\ new \in OrderIds /\ released[new] = 0 /\ Held[new] = 0
         /\ HeldNow(new, terms.frozen)
<1>1. /\ \A p \in OrderIds : Made(p) => order'[p] = order[p] /\ p # new
      /\ \A p \in OrderIds : Made(p)' => Made(p) \/ p = new
      /\ new \in OrderIds /\ order'[new] = terms /\ ~Made(new)
  BY AddedTerms
<1>2. Made(new)' /\ released[new] = 0
  BY <1>1 DEF Made, OrderAdded, OnceInv, UnmadeUnknown
<1>3. \A p \in OrderIds : Made(p) => Made(p)'
  BY <1>1 DEF Made
<1>. QED
  BY <1>1, <1>2, <1>3, HeldIs DEF HeldNow

LEMMA SettledHeld ==
  ASSUME TypeInv, NEW o \in OrderIds, Made(o), released[o] = 0,
         released' = [released EXCEPT ![o] = @ + 1],
         \A p \in OrderIds : Made(p) => order'[p] = order[p],
         \A p \in OrderIds : Made(p)' /\ ~Made(p) => order'[p].frozen = 0
  PROVE  Held[o] = order[o].frozen /\ HeldNow(o, 0)
<1>1. \A p \in OrderIds : released'[p] = IF p = o THEN released[p] + 1 ELSE released[p]
  BY DEF TypeInv, TypeOK
<1>2. \A p \in OrderIds : Made(p) => Made(p)'
  BY DEF Made
<1>3. released'[o] = 1
  BY <1>1
<1>. QED
  BY <1>1, <1>2, <1>3, HeldIs DEF HeldNow

(* A step that submits no sale with money held for it.                      *)
LEMMA SellsPreserved ==
  ASSUME TypeInv, SellsHoldNothing,
         \A p \in OrderIds : Made(p) => SameTerms(p),
         \A p \in OrderIds :
           Made(p)' /\ ~Made(p) /\ order'[p].op = "SELL" => order'[p].frozen = 0
  PROVE  SellsHoldNothing'
BY DEF SellsHoldNothing, SameTerms

LEMMA SameOrdersMove ==
  ASSUME TypeInv, SellsHoldNothing, UNCHANGED order
  PROVE  /\ SellsHoldNothing'
         /\ UNCHANGED released => \A p \in OrderIds : Held'[p] = Held[p]
<1>1. \A p \in OrderIds : (Made(p)' <=> Made(p)) /\ (Made(p) => SameTerms(p))
  BY DEF Made, SameTerms
<1>. QED
  BY <1>1, TermsKeptHeld, SellsPreserved

-----------------------------------------------------------------------------
(* SubmitOrder.                                                            *)

LEMMA PushedMove ==
  ASSUME TypeInv, MoneyInv, NEW t \in Threads,
         NEW op \in {"BUY", "SELL"}, NEW g \in Groups, NEW price \in Prices,
         NEW num \in Nat, NEW expected \in Prices \cup {0}, NEW money \in Nat,
         NEW market \in Prices, op = "SELL" => money = 0,
         PushOrder(t, NewOrder(op, g, price, num, expected, money), market)
  PROVE  /\ SellsHoldNothing' /\ UNCHANGED <<lost, released>>
         /\ \E o \in OrderIds : /\ released[o] = 0 /\ Held[o] = 0
                                /\ HeldNow(o, money)
<1>. DEFINE new == NewOrder(op, g, price, num, expected, money)
<1>1. new.op = op /\ new.frozen = money
  BY DEF NewOrder
<1>2. PICK o \in Fresh : order' = [order EXCEPT ![o] = new]
  BY DEF PushOrder, NextId
<1>3. UNCHANGED <<lost, released>>
  BY DEF PushOrder
<1>4. OrderAdded(o, new)
  BY <1>2, NewOrderAdded
<1>. HIDE DEF new
<1>5. o \in OrderIds /\ released[o] = 0 /\ Held[o] = 0 /\ HeldNow(o, money)
  BY <1>1, <1>3, <1>4, OrderAddedHeld DEF MoneyInv
<1>6. SellsHoldNothing'
  <2>1. /\ \A p \in OrderIds : Made(p) => order'[p] = order[p] /\ p # o
        /\ \A p \in OrderIds : Made(p)' => Made(p) \/ p = o
        /\ order'[o] = new
    BY <1>4, AddedTerms
  <2>. QED
    BY <1>1, <2>1, SellsPreserved DEF MoneyInv, SameTerms
<1>. QED
  BY <1>3, <1>5, <1>6

LEMMA BuyCostPositive ==
  ASSUME NEW p \in Nat \ {0}, NEW n \in Nat \ {0}
  PROVE  BuyCost(p, n) \in Nat \ {0}
<1>1. p * n \in Nat /\ p * n >= 1
  <2>1. 1 * n <= p * n
    BY TurnoverMonotone
  <2>. QED
    BY <2>1, TurnoverType
<1>2. RoundCommission(p * n) \in Nat /\ TransferFee(n) \in Nat
  BY <1>1, RoundCommissionType, TransferFeeType
<1>. QED
  BY <1>1, <1>2 DEF BuyCost

LEMMA SubmitOrderMove ==
  ASSUME TypeInv, MoneyInv, NEW t \in Threads, SubmitOrder(t)
  PROVE  Moves /\ SellsHoldNothing'
<1>0. Nums \subseteq Nat \ {0} /\ Prices \subseteq Nat \ {0}
  BY UserAccountAssumption
<1>1. CASE ReturnLocked(t) /\ UNCHANGED <<available, frozen, lost>>
  BY <1>1, SameOrdersMove DEF ReturnLocked, MoneyInv, Moves, NothingMoves
<1>2. ASSUME NEW g \in Groups, NEW price \in Prices, NEW num \in Nums,
             NEW market \in Prices, NEW expected \in Prices \cup {0},
             SubmitBuy(t, g, price, num, expected, market)
      PROVE  Moves /\ SellsHoldNothing'
  <2>. DEFINE need == BuyCost(price, num)
  <2>1. need \in Nat \ {0} /\ num \in Nat
    BY <1>0, BuyCostPositive
  <2>2. available' = available - need /\ frozen' = frozen + need /\ need <= available
    BY <1>2 DEF SubmitBuy, Freeze, Affordable
  <2>3. \/ ReturnLocked(t) /\ lost' = lost + need
        \/ PushOrder(t, NewOrder("BUY", g, price, num, expected, need), market)
    BY <1>2 DEF SubmitBuy
  <2>. HIDE DEF need
  <2>4. CASE ReturnLocked(t) /\ lost' = lost + need
    <3>1. MoneyLost(need) /\ SellsHoldNothing'
      BY <2>1, <2>2, <2>4, SameOrdersMove DEF ReturnLocked, MoneyInv, MoneyLost
    <3>. QED
      BY <2>1, <3>1 DEF Moves
  <2>5. CASE PushOrder(t, NewOrder("BUY", g, price, num, expected, need), market)
    <3>1. /\ SellsHoldNothing' /\ UNCHANGED <<lost, released>>
          /\ \E o \in OrderIds : /\ released[o] = 0 /\ Held[o] = 0
                                 /\ HeldNow(o, need)
      BY <2>1, <2>5, PushedMove
    <3>2. \E o \in OrderIds : MoneyHeld(o, need)
      BY <2>1, <2>2, <3>1 DEF MoneyHeld
    <3>. QED
      BY <2>1, <3>1, <3>2 DEF Moves
  <2>. QED
    BY <2>3, <2>4, <2>5
<1>3. ASSUME NEW g \in Groups, NEW price \in Prices, NEW num \in Nums,
             NEW market \in Prices, SubmitSell(t, g, price, num, market)
      PROVE  Moves /\ SellsHoldNothing'
  <2>. DEFINE n == IF CanDelegate(position[g], num) THEN num ELSE position[g].available
  <2>1. n \in Nat
    BY <1>0, <1>3, UintModAssumption DEF SubmitSell, TypeInv, TypeOK, IsPosition, Uint
  <2>2. UNCHANGED <<available, frozen>>
    BY <1>3 DEF SubmitSell
  <2>3. \/ ReturnLocked(t) /\ UNCHANGED lost
        \/ PushOrder(t, NewOrder("SELL", g, price, n, 0, 0), market)
    BY <1>3 DEF SubmitSell
  <2>. HIDE DEF n
  <2>4. CASE PushOrder(t, NewOrder("SELL", g, price, n, 0, 0), market)
    <3>1. /\ SellsHoldNothing' /\ UNCHANGED <<lost, released>>
          /\ \E o \in OrderIds : /\ released[o] = 0 /\ Held[o] = 0
                                 /\ HeldNow(o, 0)
      BY <2>1, <2>4, PushedMove
    <3>2. NothingMoves
      BY <2>2, <3>1 DEF NothingMoves, HeldNow
    <3>. QED
      BY <3>1, <3>2 DEF Moves
  <2>. QED
    BY <1>1, <2>2, <2>3, <2>4
<1>. QED
  BY <1>1, <1>2, <1>3 DEF SubmitOrder, SubmitRejected, SubmitSellRefused, SubmitBuyRefused

-----------------------------------------------------------------------------
(* Deals and cancellations.                                                *)

LEMMA StatusMove ==
  ASSUME TypeInv, MoneyInv,
         \A p \in OrderIds : SameTerms(p) /\ (Made(p)' <=> Made(p)),
         UNCHANGED <<available, frozen, lost, released>>
  PROVE  Moves /\ SellsHoldNothing'
<1>1. NothingMoves
  BY TermsKeptHeld DEF NothingMoves
<1>2. SellsHoldNothing'
  BY SellsPreserved DEF MoneyInv
<1>. QED
  BY <1>1, <1>2 DEF Moves

LEMMA MakeADealMove ==
  ASSUME TypeInv, MoneyInv, NEW t \in Threads, MakeADeal(t)
  PROVE  Moves /\ SellsHoldNothing'
<1>. DEFINE o == cur[t][1]
<1>1. /\ o \in OrderIds /\ Made(o)
      /\ \A p \in OrderIds : SameTerms(p)
      /\ \A p \in OrderIds \ {o} : order'[p] = order[p]
      /\ order'[o].status = "FINISHED"
  BY DealtTerms
<1>2. UNCHANGED <<available, frozen, lost, released>>
  BY DEF MakeADeal
<1>. HIDE DEF o
<1>3. \A p \in OrderIds : Made(p)' <=> Made(p)
  BY <1>1 DEF Made
<1>. QED
  BY <1>1, <1>2, <1>3, StatusMove

(* A deal within the price of the order gives back no more than was frozen. *)
LEMMA PaidWithinHeld ==
  ASSUME TypeInv, DebtInv, NEW o \in OrderIds, Made(o), order[o].op = "BUY"
  PROVE  Amount(o) \in Nat /\ Amount(o) <= order[o].frozen
<1>1. /\ order[o].frozen = BuyCost(order[o].price, order[o].num)
      /\ order[o].deal <= order[o].price
  BY DEF DebtInv, TermsCovered
<1>2. order[o].price \in Nat /\ order[o].num \in Nat /\ order[o].deal \in Nat
  BY OrderFields, OrderNumbers DEF TypeInv
<1>3. BuyCost(order[o].deal, order[o].num) \in Nat
  BY <1>2, BuyCostType
<1>4. BuyCost(order[o].deal, order[o].num) <= BuyCost(order[o].price, order[o].num)
  BY <1>1, <1>2, BuyCostMonotone
<1>. QED
  BY <1>1, <1>3, <1>4 DEF Amount

LEMMA OnBuyOrderDoneMove ==
  ASSUME TypeInv, MoneyInv, NEW t \in Threads, OnBuyOrderDone(t)
  PROVE  Moves /\ SellsHoldNothing'
<1>1. PICK o \in OrderIds : o = cur[t][1]
  BY CurrentOrder DEF OnBuyOrderDone, At
<1>2. /\ order[o] \in OrderType /\ Made(o) /\ order[o].op = "BUY" /\ pc[t] = "done"
      /\ released[o] = 0
  BY <1>1, CurrentOrder DEF OnBuyOrderDone, At, MoneyInv, OnceInv, WorkIsUnsettled
<1>3. /\ frozen' = frozen - order[o].frozen
      /\ available' = available + order[o].frozen - Amount(o)
      /\ released' = [released EXCEPT ![o] = @ + 1] /\ UNCHANGED lost
  BY <1>1 DEF OnBuyOrderDone, Spend, Finish
<1>4. /\ order[o].group \in Groups /\ order[o].num \in Nat /\ order[o].frozen \in Nat
      /\ order[o].deal \in Nat /\ (order[o].expected # 0 => order[o].expected \in Prices)
  BY <1>2, OrderNumbers
<1>5. /\ \A p \in OrderIds : Made(p) => order'[p] = order[p]
      /\ \A p \in OrderIds : Made(p)' /\ ~Made(p) => order'[p].frozen = 0
  <2>1. CASE UNCHANGED order
    BY <2>1 DEF Made
  <2>2. ASSUME NEW new \in Fresh, AutoOrder(o, new), order[o].expected # 0
        PROVE  /\ \A p \in OrderIds : Made(p) => order'[p] = order[p]
               /\ \A p \in OrderIds : Made(p)' /\ ~Made(p) => order'[p].frozen = 0
    <3>. DEFINE g == order[o].group
                e == order[o].expected
                n == order[o].num
                sale == NewOrder("SELL", g, e, n, 0, 0)
    <3>1. order' = [order EXCEPT ![new] = sale]
      BY <2>2 DEF AutoOrder
    <3>2. g \in Groups /\ e \in Prices /\ n \in Nat
      BY <1>4, <2>2
    <3>. HIDE DEF g, e, n
    <3>3. OrderAdded(new, sale) /\ sale.frozen = 0
      BY <3>1, <3>2, NewOrderAdded DEF NewOrder
    <3>. HIDE DEF sale
    <3>. QED
      BY <3>3, AddedTerms
  <2>3. \/ UNCHANGED order
        \/ order[o].expected # 0 /\ \E new \in Fresh : AutoOrder(o, new)
    BY <1>1 DEF OnBuyOrderDone, NextId
  <2>. QED
    BY <2>1, <2>2, <2>3
<1>6. Held[o] = order[o].frozen /\ HeldNow(o, 0)
  BY <1>2, <1>3, <1>5, SettledHeld
<1>. DEFINE back == order[o].frozen - Amount(o)
<1>7. Amount(o) \in Nat
  BY <1>4, BuyCostType DEF Amount
<1>8. DebtInv => Amount(o) <= order[o].frozen
  BY <1>2, PaidWithinHeld
<1>9. /\ back \in Int /\ available' = available + back
      /\ DebtInv => 0 <= back /\ back <= order[o].frozen
  BY <1>3, <1>4, <1>7, <1>8 DEF TypeInv, TypeOK
<1>. HIDE DEF back
<1>10. MoneyReleased(o, back)
  BY <1>2, <1>3, <1>6, <1>9 DEF MoneyReleased
<1>11. SellsHoldNothing'
  BY <1>5, SellsPreserved DEF MoneyInv, SameTerms
<1>. QED
  BY <1>9, <1>10, <1>11 DEF Moves

LEMMA OnSellOrderDoneMove ==
  ASSUME TypeInv, MoneyInv, NEW t \in Threads, OnSellOrderDone(t)
  PROVE  Moves /\ SellsHoldNothing'
<1>1. PICK o \in OrderIds : o = cur[t][1]
  BY CurrentOrder DEF OnSellOrderDone, At
<1>2. /\ order[o] \in OrderType /\ Made(o) /\ order[o].op = "SELL" /\ pc[t] = "done"
      /\ released[o] = 0
  BY <1>1, CurrentOrder DEF OnSellOrderDone, At, MoneyInv, OnceInv, WorkIsUnsettled
<1>3. /\ available' = available + Proceeds(o)
      /\ released' = [released EXCEPT ![o] = @ + 1] /\ UNCHANGED <<lost, frozen, order>>
  BY <1>1 DEF OnSellOrderDone, Finish
<1>4. order[o].num \in Nat /\ order[o].deal \in Nat /\ order[o].frozen = 0
  BY <1>2, OrderNumbers DEF MoneyInv, SellsHoldNothing
<1>5. Held[o] = 0 /\ HeldNow(o, 0)
  BY <1>2, <1>3, <1>4, SettledHeld DEF Made
<1>6. DebtInv /\ (\A price \in Prices : price >= 6) => available' >= available
  <2>. SUFFICES ASSUME DebtInv, \A price \in Prices : price >= 6
                PROVE  available' >= available
    OBVIOUS
  <2>1. order[o].deal >= 6
    BY <1>1, <1>2 DEF DebtInv, DoneHasPrice
  <2>2. Proceeds(o) \in Int /\ Proceeds(o) >= 0
    BY <1>4, <2>1, SaleProceedsType, SaleProceedsPositive DEF Proceeds
  <2>. QED
    BY <1>3, <2>2 DEF TypeInv, TypeOK
<1>7. MoneyEarned(o)
  BY <1>2, <1>3, <1>5, <1>6 DEF MoneyEarned, HeldNow
<1>8. SellsHoldNothing'
  BY <1>3, SameOrdersMove DEF MoneyInv
<1>. QED
  BY <1>7, <1>8 DEF Moves

(* A cancellation that releases an order: its money is given back, or it    *)
(* holds none.                                                             *)
LEMMA CancelDoneMove ==
  ASSUME TypeInv, MoneyInv, NEW t \in Threads,
         OnCancelBuyOrder(t) \/ OnCancelSellOrder(t), ~Abort
  PROVE  Moves /\ SellsHoldNothing'
<1>1. PICK o \in OrderIds : o = cur[t][1]
  BY CurrentOrder DEF OnCancelBuyOrder, OnCancelSellOrder, At
<1>2. /\ order[o] \in OrderType /\ Made(o) /\ released[o] = 0
  BY <1>1, CurrentOrder
  DEF OnCancelBuyOrder, OnCancelSellOrder, At, MoneyInv, OnceInv, WorkIsUnsettled
<1>3. /\ released' = [released EXCEPT ![o] = @ + 1] /\ UNCHANGED <<lost, order>>
  BY <1>1 DEF OnCancelBuyOrder, OnCancelSellOrder, CancelDone
<1>4. order[o].frozen \in Nat
  BY <1>2, OrderNumbers
<1>5. Held[o] = order[o].frozen /\ HeldNow(o, 0)
  BY <1>2, <1>3, SettledHeld DEF Made
<1>6. available \in Int /\ frozen \in Int
  BY DEF TypeInv, TypeOK
<1>7. /\ frozen' = frozen - order[o].frozen
      /\ available' = available + order[o].frozen
  <2>1. CASE OnCancelBuyOrder(t)
    BY <1>1, <2>1 DEF OnCancelBuyOrder, Thaw
  <2>2. CASE OnCancelSellOrder(t)
    <3>1. order[o].op = "SELL"
      BY <1>1, <2>2 DEF OnCancelSellOrder, At, MoneyInv, OnceInv, WorkIsUnsettled
    <3>2. order[o].frozen = 0
      BY <1>2, <3>1 DEF MoneyInv, SellsHoldNothing
    <3>3. UNCHANGED <<available, frozen>>
      BY <2>2 DEF OnCancelSellOrder
    <3>. QED
      BY <1>6, <3>2, <3>3
  <2>. QED
    BY <2>1, <2>2
<1>8. MoneyReleased(o, order[o].frozen)
  BY <1>2, <1>3, <1>4, <1>5, <1>7 DEF MoneyReleased
<1>9. SellsHoldNothing'
  BY <1>3, SameOrdersMove DEF MoneyInv
<1>. QED
  BY <1>4, <1>8, <1>9 DEF Moves

LEMMA CancelMove ==
  ASSUME TypeInv, MoneyInv, NEW t \in Threads, Cancel(t)
  PROVE  Moves /\ SellsHoldNothing'
<1>1. ASSUME NEW o \in OrderIds, OnCancelOrder(t, o)
      PROVE  Moves /\ SellsHoldNothing'
  BY <1>1, StatusMove DEF OnCancelOrder, SameTerms, Made
<1>2. CASE MarkOrder(t)
  <2>1. \A p \in OrderIds : SameTerms(p)
    BY <1>2, CancelledTerms
  <2>2. \A p \in OrderIds : Made(p)' <=> Made(p)
    BY <1>2, CancelledTerms DEF Made
  <2>. QED
    BY <1>2, <2>1, <2>2, StatusMove DEF MarkOrder
<1>3. CASE TestOperation(t)
  BY <1>3, StatusMove DEF TestOperation, SameTerms, Made
<1>4. CASE Abort
  BY <1>4, StatusMove DEF Abort, SameTerms, Made
<1>5. CASE EraseOrder(t) /\ ~Abort
  BY <1>5, StatusMove DEF EraseOrder, SameTerms, Made
<1>. QED
  BY <1>1, <1>2, <1>3, <1>4, <1>5, CancelDoneMove DEF Cancel

(* Every step of the account is a move.                                     *)
LEMMA StepMoves ==
  ASSUME TypeInv, MoneyInv, [Next]_vars
  PROVE  Moves /\ SellsHoldNothing'
<1>1. ASSUME NEW o \in OrderIds,
             DropStale(o) \/ \E market \in Prices : Notify(o, market)
      PROVE  Moves /\ SellsHoldNothing'
  BY <1>1, StatusMove DEF DropStale, Notify, SameTerms, Made
<1>2. CASE UNCHANGED vars
  BY <1>2, StatusMove DEF vars, SameTerms, Made
<1>. QED
  BY <1>1, <1>2, SubmitOrderMove, MakeADealMove, OnBuyOrderDoneMove,
     OnSellOrderDoneMove, CancelMove
  DEF Next, OnOrderDone

LEMMA MoneyStep ==
  ASSUME CallsApart
  PROVE  TypeInv /\ MoneyInv /\ [Next]_vars => MoneyInv'
BY OnceStep, StepMoves DEF MoneyInv

LEMMA MoneyInit == Init => MoneyInv
BY OnceInit DEF Init, MoneyInv, SellsHoldNothing, Made, NoOrder

-----------------------------------------------------------------------------
(* The frozen capital.                                                     *)

LEMMA TotalKept ==
  ASSUME TypeInv, \A p \in OrderIds : Held'[p] = Held[p]
  PROVE  TotalHeld' = TotalHeld
<1>1. IsFiniteSet(OrderIds)
  BY UserAccountAssumption
<1>. QED
  BY <1>1, SumSame DEF TotalHeld

LEMMA TotalChanged ==
  ASSUME TypeInv, NEW o \in OrderIds, NEW amount \in Nat, HeldNow(o, amount)
  PROVE  TotalHeld' = TotalHeld - Held[o] + amount
<1>1. IsFiniteSet(OrderIds)
  BY UserAccountAssumption
<1>2. \A p \in OrderIds : Held[p] \in Int /\ Held'[p] \in Int
  BY HeldType DEF HeldNow
<1>3. Held'[o] = amount /\ \A p \in OrderIds \ {o} : Held'[p] = Held[p]
  BY DEF HeldNow
<1>. QED
  BY <1>1, <1>2, <1>3, SumChanged DEF TotalHeld

LEMMA TotalType == TypeInv => TotalHeld \in Nat
<1>. SUFFICES ASSUME TypeInv PROVE TotalHeld \in Nat
  OBVIOUS
<1>1. IsFiniteSet(OrderIds)
  BY UserAccountAssumption
<1>. QED
  BY <1>1, HeldType, SumOfNats DEF TotalHeld

LEMMA FrozenInit == Init => FrozenIsHeld
<1>. SUFFICES ASSUME Init PROVE FrozenIsHeld
  OBVIOUS
<1>1. IsFiniteSet(OrderIds)
  BY UserAccountAssumption
<1>2. \A p \in OrderIds : Held[p] = 0
  BY HeldIs DEF Init, Made, NoOrder
<1>3. TotalHeld = 0
  BY <1>1, <1>2, SumOfZeros DEF TotalHeld
<1>. QED
  BY <1>3 DEF Init, FrozenIsHeld

LEMMA FrozenMove ==
  ASSUME TypeInv, FrozenIsHeld, Moves
  PROVE  FrozenIsHeld'
<1>1. TotalHeld \in Nat /\ frozen \in Int /\ lost \in Nat /\ frozen = TotalHeld + lost
  BY TotalType DEF TypeInv, TypeOK, FrozenIsHeld
<1>2. CASE NothingMoves
  BY <1>1, <1>2, TotalKept DEF NothingMoves, FrozenIsHeld
<1>3. ASSUME NEW need \in Nat, MoneyLost(need) PROVE FrozenIsHeld'
  BY <1>1, <1>3, TotalKept DEF MoneyLost, FrozenIsHeld
<1>4. ASSUME NEW o \in OrderIds, NEW need \in Nat, MoneyHeld(o, need)
      PROVE  FrozenIsHeld'
  <2>1. TotalHeld' = TotalHeld + need
    <3>1. TotalHeld' = TotalHeld - Held[o] + need
      BY <1>4, TotalChanged DEF MoneyHeld
    <3>. QED
      BY <1>1, <1>4, <3>1 DEF MoneyHeld
  <2>. QED
    BY <1>1, <1>4, <2>1 DEF MoneyHeld, FrozenIsHeld
<1>5. ASSUME NEW o \in OrderIds, NEW back \in Int, MoneyReleased(o, back)
      PROVE  FrozenIsHeld'
  <2>1. TotalHeld' = TotalHeld - Held[o] + 0
    BY <1>5, TotalChanged DEF MoneyReleased
  <2>2. Held[o] \in Nat
    BY HeldType
  <2>. QED
    BY <1>1, <1>5, <2>1, <2>2 DEF MoneyReleased, FrozenIsHeld
<1>6. ASSUME NEW o \in OrderIds, MoneyEarned(o) PROVE FrozenIsHeld'
  BY <1>1, <1>6, TotalKept DEF MoneyEarned, FrozenIsHeld
<1>. QED
  BY <1>2, <1>3, <1>4, <1>5, <1>6 DEF Moves

(* "frozen commitment" (user_info.cc:333): for any threads, orders, prices  *)
(* and failing database calls, the frozen capital is exactly what the open  *)
(* orders were given plus what failing proc_InsertDelegation calls left --  *)
(* as long as nobody cancels, or one thread does everything and cancels     *)
(* only what is pending.  With late cancellations it is not.                *)
THEOREM AccountFrozenIsHeld ==
  ASSUME CallsApart
  PROVE  Spec => []FrozenIsHeld
<1>1. Init => TypeInv /\ MoneyInv /\ FrozenIsHeld
  BY TypeInit, MoneyInit, FrozenInit
<1>2. TypeInv /\ MoneyInv /\ FrozenIsHeld /\ [Next]_vars
        => (TypeInv /\ MoneyInv /\ FrozenIsHeld)'
  BY TypeStep, MoneyStep, StepMoves, FrozenMove
<1>. QED
  BY <1>1, <1>2, PTL DEF Spec

-----------------------------------------------------------------------------
(* The ledger.                                                             *)

LEMMA LedgerInitially == Init => Ledger!LedgerInit
<1>. SUFFICES ASSUME Init PROVE Ledger!LedgerInit
  OBVIOUS
<1>1. \A p \in OrderIds : Held[p] = 0
  BY HeldIs DEF Init, Made, NoOrder
<1>2. Held = [o \in OrderIds |-> 0]
  BY <1>1, HeldIs
<1>3. frozen - TotalHeld = 0
  <2>1. IsFiniteSet(OrderIds)
    BY UserAccountAssumption
  <2>2. TotalHeld = 0
    BY <1>1, <2>1, SumOfZeros DEF TotalHeld
  <2>. QED
    BY <2>2 DEF Init
<1>4. {o \in OrderIds : released[o] > 0} = {}
  BY DEF Init
<1>. QED
  BY <1>2, <1>3, <1>4 DEF Ledger!LedgerInit, Init

LEMMA LedgerMove ==
  ASSUME TypeInv, DebtInv, FrozenIsHeld, FrozenIsHeld', TypeInv',
         \A price \in Prices : price >= 6, Moves
  PROVE  Ledger!LedgerNext \/ UNCHANGED Ledger!ledgerVars
<1>. DEFINE closed == {o \in OrderIds : released[o] > 0}
<1>0. /\ TotalHeld \in Nat /\ TotalHeld' \in Nat /\ lost \in Nat /\ lost' \in Nat
      /\ available \in Int /\ frozen - TotalHeld = lost /\ frozen' - TotalHeld' = lost'
  <2>1. TotalHeld \in Nat
    BY TotalType
  <2>2. (TotalHeld \in Nat)'
    BY TotalType, PTL
  <2>. QED
    BY <2>1, <2>2 DEF TypeInv, TypeOK, FrozenIsHeld
<1>1. CASE NothingMoves
  <2>1. Held' = Held
    BY <1>1, HeldIs DEF NothingMoves
  <2>2. closed' = closed
    BY <1>1 DEF NothingMoves
  <2>. QED
    BY <1>0, <1>1, <2>1, <2>2 DEF NothingMoves, Ledger!ledgerVars
<1>2. ASSUME NEW need \in Nat, MoneyLost(need) PROVE Ledger!Stray
  <2>1. Held' = Held
    BY <1>2, HeldIs DEF MoneyLost
  <2>2. closed' = closed
    BY <1>2 DEF MoneyLost
  <2>3. /\ 0 <= available' /\ available' < available
        /\ frozen' - TotalHeld' = frozen - TotalHeld + (available - available')
    BY <1>0, <1>2 DEF MoneyLost
  <2>. QED
    BY <2>1, <2>2, <2>3 DEF Ledger!Stray
<1>3. ASSUME NEW o \in OrderIds, NEW need \in Nat, MoneyHeld(o, need)
      PROVE  Ledger!Hold(o)
  <2>1. Held' = [Held EXCEPT ![o] = available - available']
    <3>1. available - available' = need
      BY <1>0, <1>3 DEF MoneyHeld
    <3>. QED
      BY <1>3, <3>1, HeldIs DEF MoneyHeld, HeldNow
  <2>2. closed' = closed /\ o \notin closed
    BY <1>3 DEF MoneyHeld
  <2>3. /\ 0 <= available' /\ available' < available
        /\ frozen' - TotalHeld' = frozen - TotalHeld
    BY <1>0, <1>3 DEF MoneyHeld
  <2>. QED
    BY <1>3, <2>1, <2>2, <2>3 DEF MoneyHeld, Ledger!Hold
<1>4. ASSUME NEW o \in OrderIds, released[o] = 0, released' = [released EXCEPT ![o] = @ + 1]
      PROVE  closed' = closed \cup {o} /\ o \notin closed
  <2>1. \A p \in OrderIds : released'[p] = IF p = o THEN 1 ELSE released[p]
    BY <1>4 DEF TypeInv, TypeOK
  <2>. QED
    BY <1>4, <2>1
<1>5. ASSUME NEW o \in OrderIds, NEW back \in Int, MoneyReleased(o, back)
      PROVE  Ledger!Close(o)
  <2>1. Held' = [Held EXCEPT ![o] = 0]
    BY <1>5, HeldIs DEF MoneyReleased, HeldNow
  <2>2. closed' = closed \cup {o} /\ o \notin closed
    BY <1>4, <1>5 DEF MoneyReleased
  <2>3. /\ available <= available' /\ available' <= available + Held[o]
        /\ frozen' - TotalHeld' = frozen - TotalHeld
    <3>1. Held[o] \in Nat
      BY HeldType
    <3>. QED
      BY <1>0, <1>5, <3>1 DEF MoneyReleased
  <2>. QED
    BY <2>1, <2>2, <2>3 DEF Ledger!Close
<1>6. ASSUME NEW o \in OrderIds, MoneyEarned(o) PROVE Ledger!Credit(o)
  <2>1. Held' = Held
    BY <1>6, HeldIs DEF MoneyEarned
  <2>2. closed' = closed \cup {o} /\ o \notin closed
    BY <1>4, <1>6 DEF MoneyEarned
  <2>3. available' >= available /\ frozen' - TotalHeld' = frozen - TotalHeld
    BY <1>0, <1>6 DEF MoneyEarned
  <2>. QED
    BY <1>6, <2>1, <2>2, <2>3 DEF MoneyEarned, Ledger!Credit
<1>. QED
  BY <1>1, <1>2, <1>3, <1>5, <1>6 DEF Moves, Ledger!LedgerNext

(* The account implements CapitalLedger for any threads, orders and failing *)
(* database calls: every order is given money once, at most what is free,   *)
(* and it is given back or spent once and never exceeded -- as long as      *)
(* nobody cancels, or one thread does everything and cancels only what is   *)
(* pending, and where shares cost 6 or more (below that a sale may cost).   *)
THEOREM AccountKeepsLedger ==
  ASSUME CallsApart, \A price \in Prices : price >= 6
  PROVE  Spec => KeepsLedger
<1>. DEFINE Inv == TypeInv /\ MoneyInv /\ DebtInv /\ FrozenIsHeld
<1>1. Init => Inv /\ Ledger!LedgerInit
  BY TypeInit, MoneyInit, DebtInit, FrozenInit, LedgerInitially
<1>2. Inv /\ [Next]_vars => Inv'
  <2>. SUFFICES ASSUME Inv, [Next]_vars PROVE Inv'
    OBVIOUS
  <2>1. CancelsAlone /\ NoCancels
    BY DEF CallsApart, CancelsAlone, MoneyInv, OnceInv
  <2>2. [DealsNotMoved]_vars
    BY <2>1, DealsStay
  <2>. QED
    BY <2>2, TypeStep, MoneyStep, DebtStep, StepMoves, FrozenMove
<1>3. Inv /\ Inv' /\ [Next]_vars => [Ledger!LedgerNext]_(Ledger!ledgerVars)
  BY StepMoves, LedgerMove
<1>. QED
  BY <1>1, <1>2, <1>3, PTL DEF Spec, KeepsLedger, Ledger!LedgerSpec

-----------------------------------------------------------------------------
(* Shares: the position of a sale.                                         *)

(* Also of the orders no longer in the list: a call may still be at one.    *)
SalesHeld ==
  \A o \in OrderIds :
    Made(o) /\ order[o].op = "SELL" => position[order[o].group] # NoPosition

(* A position, once there, stays in stock_position_list_.                   *)
PositionsStay ==
  \A g \in Groups : position[g] # NoPosition => position'[g] # NoPosition

(* What a step may do to the orders: change none's side and group, and make *)
(* none but a purchase or a sale from a position.                           *)
OrdersFit ==
  \A o \in OrderIds :
    Made(o)' =>
      \/ Made(o) /\ order'[o].op = order[o].op /\ order'[o].group = order[o].group
      \/ order'[o].op = "SELL" => position'[order'[o].group] # NoPosition

LEMMA HeldPreserved ==
  ASSUME TypeInv, SalesHeld, PositionsStay, OrdersFit
  PROVE  SalesHeld'
<1>1. \A o \in OrderIds : Made(o) => order[o].group \in Groups
  BY OrderFields, OrderNumbers DEF TypeInv
<1>. QED
  BY <1>1 DEF SalesHeld, PositionsStay, OrdersFit

(* A step that only changes positions, or nothing of this.                  *)
LEMMA SameOrdersFit ==
  ASSUME order' = order
  PROVE  OrdersFit
BY DEF OrdersFit, Made

LEMMA SamePositionsStay ==
  ASSUME position' = position
  PROVE  PositionsStay
BY DEF PositionsStay

LEMMA OnePositionStays ==
  ASSUME TypeInv, NEW g \in Groups, NEW new, new # NoPosition,
         position' = [position EXCEPT ![g] = new]
  PROVE  PositionsStay /\ position'[g] = new
BY DEF PositionsStay, TypeInv, TypeOK

LEMMA AddedFits ==
  ASSUME TypeInv, NEW new, NEW terms, OrderAdded(new, terms),
         terms.op = "SELL" => position'[terms.group] # NoPosition
  PROVE  OrdersFit
<1>1. /\ \A o \in OrderIds : Made(o) => order'[o] = order[o] /\ o # new
      /\ \A o \in OrderIds : Made(o)' => Made(o) \/ o = new
      /\ new \in OrderIds /\ order'[new] = terms /\ ~Made(new)
  BY AddedTerms
<1>. QED
  BY <1>1 DEF OrdersFit

LEMMA SubmitBuyHeld ==
  ASSUME TypeInv, SalesHeld, NEW t \in Threads, NEW g \in Groups, NEW price \in Prices,
         NEW num \in Nums, NEW expected \in Prices \cup {0}, NEW market \in Prices,
         SubmitBuy(t, g, price, num, expected, market)
  PROVE  SalesHeld'
<1>. DEFINE need == BuyCost(price, num)
<1>1. need \in Nat /\ num \in Nat
  BY BuyCostType, UserAccountAssumption
<1>2. /\ position' = position
      /\ ReturnLocked(t)
         \/ PushOrder(t, NewOrder("BUY", g, price, num, expected, need), market)
  BY DEF SubmitBuy
<1>. HIDE DEF need
<1>3. CASE ReturnLocked(t)
  BY <1>2, <1>3, SameOrdersFit, SamePositionsStay, HeldPreserved DEF ReturnLocked
<1>4. CASE PushOrder(t, NewOrder("BUY", g, price, num, expected, need), market)
  <2>. DEFINE new == NewOrder("BUY", g, price, num, expected, need)
  <2>1. PICK o \in Fresh : order' = [order EXCEPT ![o] = new]
    BY <1>4 DEF PushOrder, NextId
  <2>2. OrderAdded(o, new)
    BY <1>1, <2>1, NewOrderAdded
  <2>3. new.op = "BUY"
    BY DEF NewOrder
  <2>. HIDE DEF new
  <2>4. OrdersFit
    BY <2>2, <2>3, AddedFits
  <2>. QED
    BY <1>2, <2>4, SamePositionsStay, HeldPreserved
<1>. QED
  BY <1>2, <1>3, <1>4

LEMMA SubmitSellHeld ==
  ASSUME ~IsPosition(NoPosition), TypeInv, SalesHeld, NEW t \in Threads,
         NEW g \in Groups, NEW price \in Prices, NEW num \in Nums,
         NEW market \in Prices, SubmitSell(t, g, price, num, market)
  PROVE  SalesHeld'
<1>. DEFINE n == IF CanDelegate(position[g], num) THEN num ELSE position[g].available
<1>1. IsPosition(position[g]) /\ n \in Nat
  BY UserAccountAssumption, UintModAssumption
  DEF SubmitSell, TypeInv, TypeOK, IsPosition, Uint
<1>2. /\ position' = [position EXCEPT ![g] = Delegate(position[g], n)]
      /\ ReturnLocked(t) \/ PushOrder(t, NewOrder("SELL", g, price, n, 0, 0), market)
  BY DEF SubmitSell
<1>. HIDE DEF n
<1>3. IsPosition(Delegate(position[g], n))
  BY <1>1, DelegateType
<1>4. PositionsStay /\ position'[g] # NoPosition
  BY <1>2, <1>3, OnePositionStays
<1>5. CASE ReturnLocked(t)
  BY <1>4, <1>5, SameOrdersFit, HeldPreserved DEF ReturnLocked
<1>6. CASE PushOrder(t, NewOrder("SELL", g, price, n, 0, 0), market)
  <2>. DEFINE new == NewOrder("SELL", g, price, n, 0, 0)
  <2>1. PICK o \in Fresh : order' = [order EXCEPT ![o] = new]
    BY <1>6 DEF PushOrder, NextId
  <2>2. OrderAdded(o, new)
    BY <1>1, <2>1, NewOrderAdded
  <2>3. new.group = g
    BY DEF NewOrder
  <2>. HIDE DEF new
  <2>4. OrdersFit
    BY <1>4, <2>2, <2>3, AddedFits
  <2>. QED
    BY <1>4, <2>4, HeldPreserved
<1>. QED
  BY <1>2, <1>5, <1>6

LEMMA SubmitOrderHeld ==
  ASSUME ~IsPosition(NoPosition), TypeInv, SalesHeld, NEW t \in Threads, SubmitOrder(t)
  PROVE  SalesHeld'
<1>1. CASE ReturnLocked(t) /\ position' = position
  BY <1>1, SameOrdersFit, SamePositionsStay, HeldPreserved DEF ReturnLocked
<1>. QED
  BY <1>1, SubmitBuyHeld, SubmitSellHeld
  DEF SubmitOrder, SubmitRejected, SubmitSellRefused, SubmitBuyRefused

-----------------------------------------------------------------------------
(* MakeADeal and OnOrderCancel change an order's status and deal.           *)
LEMMA DealHeld ==
  ASSUME TypeInv, SalesHeld, NEW t \in Threads, MakeADeal(t)
  PROVE  SalesHeld'
<1>. DEFINE o == cur[t][1]
<1>1. o \in OrderIds /\ Made(o) /\ order[o] \in OrderType
  BY CurrentOrder DEF MakeADeal, At
<1>2. \A p \in OrderIds : p # o => order'[p] = order[p]
  BY DEF MakeADeal, TypeInv, TypeOK
<1>3. order'[o].op = order[o].op /\ order'[o].group = order[o].group
  BY <1>1 DEF MakeADeal, TypeInv, TypeOK, OrderType
<1>. HIDE DEF o
<1>4. OrdersFit
  BY <1>1, <1>2, <1>3 DEF OrdersFit, Made
<1>. QED
  BY <1>4, SamePositionsStay, HeldPreserved DEF MakeADeal

LEMMA CancelHeld ==
  ASSUME ~IsPosition(NoPosition), TypeInv, SalesHeld, NEW t \in Threads, Cancel(t)
  PROVE  SalesHeld'
<1>1. ASSUME NEW o \in OrderIds, OnCancelOrder(t, o) PROVE SalesHeld'
  BY <1>1, SameOrdersFit, SamePositionsStay, HeldPreserved DEF OnCancelOrder
<1>2. CASE MarkOrder(t)
  <2>1. OrdersFit
    BY <1>2, CancelledTerms DEF OrdersFit, SameTerms, Made
  <2>. QED
    BY <1>2, <2>1, SamePositionsStay, HeldPreserved DEF MarkOrder
<1>5. CASE TestOperation(t) \/ OnCancelBuyOrder(t)
  BY <1>5, SameOrdersFit, SamePositionsStay, HeldPreserved
  DEF TestOperation, OnCancelBuyOrder, CancelDone
<1>6. CASE Abort
  BY <1>6, SameOrdersFit, SamePositionsStay, HeldPreserved DEF Abort
<1>3. CASE OnCancelSellOrder(t) /\ ~Abort
  <2>. DEFINE o == cur[t][1]
              g == order[o].group
              n == order[o].num
  <2>1. g \in Groups /\ n \in Nat
    BY <1>3, CurrentOrder, OrderNumbers DEF OnCancelSellOrder, At
  <2>2. /\ position[g] # NoPosition /\ order' = order
        /\ position' = [position EXCEPT ![g] = OnOrderCancel(position[g], n)]
    BY <1>3 DEF OnCancelSellOrder, CancelDone
  <2>. HIDE DEF g, n
  <2>3. IsPosition(OnOrderCancel(position[g], n))
    BY <2>1, <2>2, OnOrderCancelType DEF TypeInv, TypeOK
  <2>. QED
    BY <2>1, <2>2, <2>3, OnePositionStays, SameOrdersFit, HeldPreserved
<1>4. CASE EraseOrder(t) /\ ~Abort
  BY <1>4, SameOrdersFit, SamePositionsStay, HeldPreserved DEF EraseOrder
<1>. QED
  BY <1>1, <1>2, <1>3, <1>4, <1>5, <1>6 DEF Cancel

-----------------------------------------------------------------------------
LEMMA SellDoneHeld ==
  ASSUME ~IsPosition(NoPosition), TypeInv, SalesHeld, NEW t \in Threads,
         OnSellOrderDone(t)
  PROVE  SalesHeld'
<1>. DEFINE o == cur[t][1]
            g == order[o].group
            n == order[o].num
<1>1. g \in Groups /\ n \in Nat
  BY CurrentOrder, OrderNumbers DEF OnSellOrderDone, At
<1>2. /\ order' = order
      /\ IF position[g] = NoPosition
         THEN position' = position
         ELSE position' = [position EXCEPT ![g] = OnSaleDone(position[g], n)]
  BY DEF OnSellOrderDone, Sold
<1>. HIDE DEF g, n
<1>3. CASE position[g] = NoPosition
  BY <1>2, <1>3, SameOrdersFit, SamePositionsStay, HeldPreserved
<1>4. CASE position[g] # NoPosition
  <2>1. IsPosition(OnSaleDone(position[g], n))
    BY <1>1, <1>4, OnSaleDoneType DEF TypeInv, TypeOK
  <2>. QED
    BY <1>1, <1>2, <1>4, <2>1, OnePositionStays, SameOrdersFit, HeldPreserved
<1>. QED
  BY <1>3, <1>4

(* The automatic sale is made from the position the purchase has just been  *)
(* added to.                                                               *)
LEMMA BuyDoneHeld ==
  ASSUME ~IsPosition(NoPosition), TypeInv, SalesHeld, NEW t \in Threads,
         OnBuyOrderDone(t)
  PROVE  SalesHeld'
<1>. DEFINE o == cur[t][1]
            g == order[o].group
            e == order[o].expected
            n == order[o].num
            held == AddLot(PositionOf(g), BoughtLot(o))
            sale == NewOrder("SELL", g, e, n, 0, 0)
<1>1. g \in Groups /\ n \in Nat /\ (e # 0 => e \in Prices)
  BY CurrentOrder, OrderNumbers DEF OnBuyOrderDone, At
<1>2. BoughtLot(o).count \in Int
  BY <1>1 DEF BoughtLot
<1>3. \/ order' = order /\ position' = position
      \/ order' = order /\ position' = [position EXCEPT ![g] = held]
      \/ /\ e # 0
         /\ \E new \in Fresh : order' = [order EXCEPT ![new] = sale]
         /\ position' = [position EXCEPT ![g] = Delegate(held, n)]
  BY DEF OnBuyOrderDone, AutoOrder, NextId
<1>4. IsPosition(PositionOf(g))
  BY <1>1, EmptyPositionType DEF PositionOf, TypeInv, TypeOK
<1>. HIDE DEF o, g, e, n
<1>5. IsPosition(held)
  BY <1>2, <1>4, AddLotType
<1>. HIDE DEF held
<1>6. CASE order' = order /\ position' = position
  BY <1>6, SameOrdersFit, SamePositionsStay, HeldPreserved
<1>7. CASE order' = order /\ position' = [position EXCEPT ![g] = held]
  BY <1>1, <1>5, <1>7, OnePositionStays, SameOrdersFit, HeldPreserved
<1>8. CASE /\ e # 0
           /\ \E new \in Fresh : order' = [order EXCEPT ![new] = sale]
           /\ position' = [position EXCEPT ![g] = Delegate(held, n)]
  <2>1. IsPosition(Delegate(held, n))
    BY <1>1, <1>5, DelegateType
  <2>2. PositionsStay /\ position'[g] # NoPosition
    BY <1>1, <1>8, <2>1, OnePositionStays
  <2>3. PICK new \in Fresh : order' = [order EXCEPT ![new] = sale]
    BY <1>8
  <2>4. OrderAdded(new, sale)
    BY <1>1, <1>8, <2>3, NewOrderAdded
  <2>5. sale.group = g
    BY DEF NewOrder
  <2>. HIDE DEF sale
  <2>6. OrdersFit
    BY <2>2, <2>4, <2>5, AddedFits
  <2>. QED
    BY <2>2, <2>6, HeldPreserved
<1>. QED
  BY <1>3, <1>6, <1>7, <1>8

-----------------------------------------------------------------------------
LEMMA HeldStep ==
  ASSUME ~IsPosition(NoPosition)
  PROVE  TypeInv /\ SalesHeld /\ [Next]_vars => SalesHeld'
<1>. SUFFICES ASSUME TypeInv, SalesHeld, [Next]_vars PROVE SalesHeld'
  OBVIOUS
<1>1. ASSUME NEW t \in Threads, SubmitOrder(t) PROVE SalesHeld'
  BY <1>1, SubmitOrderHeld
<1>2. ASSUME NEW t \in Threads, MakeADeal(t) PROVE SalesHeld'
  BY <1>2, DealHeld
<1>3. ASSUME NEW t \in Threads, OnOrderDone(t) PROVE SalesHeld'
  BY <1>3, BuyDoneHeld, SellDoneHeld DEF OnOrderDone
<1>4. ASSUME NEW t \in Threads, Cancel(t) PROVE SalesHeld'
  BY <1>4, CancelHeld
<1>5. ASSUME NEW o \in OrderIds, DropStale(o) PROVE SalesHeld'
  BY <1>5, SameOrdersFit, SamePositionsStay, HeldPreserved DEF DropStale
<1>6. ASSUME NEW o \in OrderIds, NEW market \in Prices, Notify(o, market)
      PROVE  SalesHeld'
  BY <1>6, SameOrdersFit, SamePositionsStay, HeldPreserved DEF Notify
<1>7. CASE UNCHANGED vars
  BY <1>7, SameOrdersFit, SamePositionsStay, HeldPreserved DEF vars
<1>. QED
  BY <1>1, <1>2, <1>3, <1>4, <1>5, <1>6, <1>7 DEF Next

(* Positions never leave the list, and no sale is made without one, for any *)
(* threads and orders, with late, repeated and racing cancellations and any *)
(* failing database call.                                                  *)
LEMMA SalesStayHeld ==
  ASSUME ~IsPosition(NoPosition)
  PROVE  Spec => [](TypeInv /\ SalesHeld)
<1>1. Init => TypeInv /\ SalesHeld
  BY TypeInit DEF Init, SalesHeld, Made, NoOrder
<1>2. TypeInv /\ SalesHeld /\ [Next]_vars => (TypeInv /\ SalesHeld)'
  BY TypeStep, HeldStep
<1>. QED
  BY <1>1, <1>2, PTL DEF Spec

(* What is cancelled as a sale is a sale, unless an erase moves another     *)
(* order under the address.                                                *)
SellsAreSales == \A t \in Threads : pc[t] = "sell" => order[cur[t][1]].op = "SELL"

SalesNotMoved ==
  \A t \in Threads : pc[t] = "sell" /\ pc'[t] = pc[t] => cur'[t] = cur[t]

SidesKept == \A o \in OrderIds : Made(o) => order'[o].op = order[o].op

LEMMA SubmitKeepsSides ==
  ASSUME TypeInv, NEW t \in Threads, SubmitOrder(t)
  PROVE  /\ SidesKept
         /\ \A u \in Threads : pc'[u] = "sell" => pc[u] = "sell" /\ cur'[u] = cur[u]
<1>. DEFINE Kept == /\ SidesKept
                    /\ \A u \in Threads :
                         pc'[u] = "sell" => pc[u] = "sell" /\ cur'[u] = cur[u]
<1>1. ReturnLocked(t) => Kept
  BY DEF ReturnLocked, SidesKept
<1>2. ASSUME NEW new, NEW market, PushOrder(t, new, market) PROVE Kept
  <2>1. PICK o \in OrderIds :
          /\ NextId(o)
          /\ order' = [order EXCEPT ![o] = new]
          /\ \/ Goto(t, "deal") /\ cur' = [cur EXCEPT ![t] = <<o, market>>]
             \/ UNCHANGED <<pc, cur>>
    BY <1>2 DEF PushOrder
  <2>2. SidesKept
    BY <2>1 DEF SidesKept, NextId, Fresh, Made, TypeInv, TypeOK
  <2>3. \A u \in Threads : pc'[u] = "sell" => pc[u] = "sell" /\ cur'[u] = cur[u]
    BY <2>1 DEF Goto, TypeInv, TypeOK
  <2>. QED
    BY <2>2, <2>3
<1>. HIDE DEF Kept
<1>3. \A g \in Groups, price \in Prices, num \in Nums, market \in Prices,
         expected \in Prices \cup {0} :
        SubmitBuy(t, g, price, num, expected, market) => Kept
  BY <1>1, <1>2 DEF SubmitBuy
<1>4. \A g \in Groups, price \in Prices, num \in Nums, market \in Prices :
        SubmitSell(t, g, price, num, market) => Kept
  BY <1>1, <1>2 DEF SubmitSell
<1>5. Kept
  BY <1>1, <1>3, <1>4
  DEF SubmitOrder, SubmitRejected, SubmitBuyRefused, SubmitSellRefused
<1>. QED
  BY <1>5 DEF Kept

LEMMA SellsAreSalesKept ==
  ASSUME TypeInv, SellsAreSales, SidesKept,
         \A u \in Threads : pc'[u] = "sell" => pc[u] = "sell" /\ cur'[u] = cur[u]
  PROVE  SellsAreSales'
<1>1. \A u \in Threads :
        pc[u] # "idle" => cur[u][1] \in OrderIds /\ Made(cur[u][1])
  BY CurrentOrder
<1>. QED
  BY <1>1 DEF SellsAreSales, SidesKept

LEMMA SellsAreSalesStep ==
  TypeInv /\ SellsAreSales /\ [Next]_vars /\ [SalesNotMoved]_vars => SellsAreSales'
<1>. SUFFICES ASSUME TypeInv, SellsAreSales, [Next]_vars, [SalesNotMoved]_vars
              PROVE  SellsAreSales'
  OBVIOUS
<1>1. ASSUME NEW t \in Threads, SubmitOrder(t) PROVE SellsAreSales'
  BY <1>1, SubmitKeepsSides, SellsAreSalesKept
<1>2. ASSUME NEW t \in Threads, MakeADeal(t) PROVE SellsAreSales'
  <2>1. SidesKept
    BY <1>2, DealtTerms DEF SidesKept, SameTerms
  <2>2. \A u \in Threads : pc'[u] = "sell" => pc[u] = "sell" /\ cur'[u] = cur[u]
    BY <1>2 DEF MakeADeal, Goto, TypeInv, TypeOK
  <2>. QED
    BY <2>1, <2>2, SellsAreSalesKept
<1>3. ASSUME NEW t \in Threads, OnOrderDone(t) PROVE SellsAreSales'
  <2>1. \/ UNCHANGED order
        \/ \E new \in Fresh : \E terms : order' = [order EXCEPT ![new] = terms]
    BY <1>3 DEF OnOrderDone, OnBuyOrderDone, OnSellOrderDone, AutoOrder, NextId
  <2>2. SidesKept
    BY <2>1 DEF SidesKept, Fresh, Made, TypeInv, TypeOK
  <2>3. \A u \in Threads : pc'[u] = "sell" => pc[u] = "sell" /\ cur'[u] = cur[u]
    BY <1>3
    DEF OnOrderDone, OnBuyOrderDone, OnSellOrderDone, Finish, Goto, TypeInv, TypeOK
  <2>. QED
    BY <2>2, <2>3, SellsAreSalesKept
<1>4. ASSUME NEW t \in Threads, NEW o \in OrderIds, OnCancelOrder(t, o)
      PROVE  SellsAreSales'
  BY <1>4, SellsAreSalesKept DEF OnCancelOrder, Goto, SidesKept, TypeInv, TypeOK
<1>5. ASSUME NEW t \in Threads, MarkOrder(t) PROVE SellsAreSales'
  <2>1. SidesKept
    BY <1>5, CancelledTerms DEF SidesKept, SameTerms
  <2>2. \A u \in Threads : pc'[u] = "sell" => pc[u] = "sell" /\ cur'[u] = cur[u]
    BY <1>5 DEF MarkOrder, Goto, TypeInv, TypeOK
  <2>. QED
    BY <2>1, <2>2, SellsAreSalesKept
<1>6. ASSUME NEW t \in Threads, TestOperation(t) PROVE SellsAreSales'
  BY <1>6 DEF TestOperation, Goto, SellsAreSales, TypeInv, TypeOK
<1>7. CASE UNCHANGED vars
  BY <1>7 DEF vars, SellsAreSales
<1>8. CASE Abort
  BY <1>8, SellsAreSalesKept DEF Abort, SidesKept
<1>9. ASSUME NEW t \in Threads,
             OnCancelBuyOrder(t) \/ (OnCancelSellOrder(t) /\ ~Abort)
      PROVE  SellsAreSales'
  BY <1>9, SellsAreSalesKept
  DEF OnCancelBuyOrder, OnCancelSellOrder, CancelDone, Goto, SidesKept, TypeInv, TypeOK
<1>10. ASSUME NEW t \in Threads, EraseOrder(t), ~Abort, SalesNotMoved
       PROVE  SellsAreSales'
  <2>1. Goto(t, "idle") /\ UNCHANGED order
    BY <1>10 DEF EraseOrder
  <2>2. \A u \in Threads : pc'[u] = "sell" => pc[u] = "sell" /\ cur'[u] = cur[u]
    BY <1>10, <2>1 DEF Goto, SalesNotMoved, TypeInv, TypeOK
  <2>. QED
    BY <2>1, <2>2, SellsAreSalesKept DEF SidesKept
<1>11. ASSUME NEW o \in OrderIds,
              DropStale(o) \/ \E market \in Prices : Notify(o, market)
       PROVE  SellsAreSales'
  BY <1>11, SellsAreSalesKept DEF DropStale, Notify, Goto, SidesKept, TypeInv, TypeOK
<1>. QED
  BY <1>1, <1>2, <1>3, <1>4, <1>5, <1>6, <1>7, <1>8, <1>9, <1>10, <1>11
  DEF Next, Cancel

(* The assertion at user_info.cc:614 holds for any threads and orders, with *)
(* late, repeated and racing cancellations and any failing database call,   *)
(* as long as no erase moves an order under the address of a call that is   *)
(* about to give a sale's shares back.  NoPosition stands for the NULL that *)
(* GetGroupStockPosition returns.                                          *)
THEOREM AccountSalesHavePosition ==
  ASSUME ~IsPosition(NoPosition)
  PROVE  Spec /\ [][SalesNotMoved]_vars => []CancelFindsPosition
<1>1. Spec => [](TypeInv /\ SalesHeld)
  BY SalesStayHeld
<1>2. Init => SellsAreSales
  BY DEF Init, SellsAreSales
<1>3. TypeInv /\ SellsAreSales /\ [Next]_vars /\ [SalesNotMoved]_vars => SellsAreSales'
  BY SellsAreSalesStep
<1>4. TypeInv /\ SalesHeld /\ SellsAreSales => CancelFindsPosition
  BY CurrentOrder DEF SalesHeld, SellsAreSales, CancelFindsPosition
<1>. QED
  BY <1>1, <1>2, <1>3, <1>4, PTL DEF Spec

LEMMA SalesStay ==
  ASSUME CancelsAlone
  PROVE  TypeInv /\ NoCancels /\ [Next]_vars => [SalesNotMoved]_vars
<1>. SUFFICES ASSUME TypeInv, NoCancels, Next,
                     NEW u \in Threads, pc[u] = "sell", pc'[u] = pc[u]
              PROVE  cur'[u] = cur[u]
  BY DEF SalesNotMoved
<1>1. Threads = {u} /\ u = Notifier
  BY DEF CancelsAlone, NoCancels
<1>2. ASSUME NEW t \in Threads, SubmitOrder(t) PROVE cur'[u] = cur[u]
  BY <1>1, <1>2, SubmitKeepsSides
<1>3. ASSUME NEW t \in Threads, MakeADeal(t) \/ OnOrderDone(t) PROVE FALSE
  BY <1>1, <1>3 DEF MakeADeal, OnOrderDone, OnBuyOrderDone, OnSellOrderDone, At
<1>4. ASSUME NEW t \in Threads, NEW o \in OrderIds, OnCancelOrder(t, o) PROVE FALSE
  BY <1>1, <1>4 DEF OnCancelOrder, Idle
<1>5. ASSUME NEW t \in Threads,
             \/ MarkOrder(t) \/ TestOperation(t) \/ OnCancelBuyOrder(t)
             \/ OnCancelSellOrder(t)
      PROVE  cur'[u] = cur[u]
  BY <1>5
  DEF MarkOrder, TestOperation, OnCancelBuyOrder, OnCancelSellOrder, CancelDone, Abort
<1>6. ASSUME NEW t \in Threads, EraseOrder(t) PROVE FALSE
  BY <1>1, <1>6 DEF EraseOrder, At
<1>7. ASSUME NEW o \in OrderIds,
             DropStale(o) \/ \E market \in Prices : Notify(o, market)
      PROVE  cur'[u] = cur[u]
  BY <1>1, <1>7 DEF DropStale, Notify, Idle
<1>. QED
  BY <1>2, <1>3, <1>4, <1>5, <1>6, <1>7 DEF Next, Cancel

(* In particular the assertion holds where nobody cancels, and while one    *)
(* thread makes all the calls, whatever it cancels and how often: no other  *)
(* call then stands at an address while elements move.                      *)
THEOREM AccountCancelsFind ==
  ASSUME CancelsAlone, ~IsPosition(NoPosition)
  PROVE  Spec => []CancelFindsPosition
<1>1. Init => TypeInv /\ NoCancels
  BY TypeInit, NoCancelsInit
<1>2. TypeInv /\ NoCancels /\ [Next]_vars => (TypeInv /\ NoCancels)'
  BY TypeStep, NoCancelsStep
<1>3. TypeInv /\ NoCancels /\ [Next]_vars => [SalesNotMoved]_vars
  BY SalesStay
<1>. QED
  BY <1>1, <1>2, <1>3, AccountSalesHavePosition, PTL DEF Spec

-----------------------------------------------------------------------------
(* The shares of a group.  The count of a position is never more than what  *)
(* the settled purchases were of, so it stays below 2^32 while the orders   *)
(* are too few and too small to reach it.                                   *)

SharesFit ==
  \E most \in Nat :
    /\ \A n \in Nums : n <= most
    /\ Cardinality(OrderIds) * most < UintMod

Bought(g) ==
  [o \in OrderIds |->
     IF Made(o) /\ released[o] > 0 /\ order[o].op = "BUY" /\ order[o].group = g
     THEN order[o].num ELSE 0]

SharesBought(g) == SumFunctionOnSet(Bought(g), OrderIds)

BuysAreRequested ==
  \A o \in OrderIds : Made(o) /\ order[o].op = "BUY" => order[o].num \in Nums

(* Before there is a position nothing is offered from it.                   *)
Covered(g) ==
  /\ position[g] = NoPosition => SharesToSell(g) = 0
  /\ position[g] # NoPosition =>
       /\ position[g].available + SharesToSell(g) <= position[g].count
       /\ position[g].count <= SharesBought(g)

SharesInv ==
  /\ OnceInv /\ BuysAreRequested
  /\ \A g \in Groups : Covered(g)

-----------------------------------------------------------------------------
(* What a step may do to a group's shares.                                  *)

(* Nothing, except that a purchase is settled of which no lot is made.      *)
NoShares(g) ==
  /\ position'[g] = position[g]
  /\ SharesToSell(g)' = SharesToSell(g) /\ SharesBought(g)' >= SharesBought(g)

(* A sale takes shares from what is available; the order may fail.          *)
Delegated(g, n) ==
  /\ position[g] # NoPosition /\ n <= position[g].available
  /\ position'[g] = Delegate(position[g], n)
  /\ SharesToSell(g)' \in {SharesToSell(g), SharesToSell(g) + n}
  /\ SharesBought(g)' = SharesBought(g)

(* A purchase is settled ...                                                *)
LotAdded(g, lot) ==
  /\ position'[g] = AddLot(PositionOf(g), lot)
  /\ SharesToSell(g)' = SharesToSell(g)
  /\ SharesBought(g)' = SharesBought(g) + lot.count

(* ... and its automatic sale submitted.                                    *)
LotOffered(g, lot) ==
  /\ position'[g] = Delegate(AddLot(PositionOf(g), lot), lot.count)
  /\ SharesToSell(g)' = SharesToSell(g) + lot.count
  /\ SharesBought(g)' = SharesBought(g) + lot.count

SharesSold(g, n) ==
  /\ position[g] # NoPosition /\ n <= SharesToSell(g)
  /\ position'[g] = OnSaleDone(position[g], n)
  /\ SharesToSell(g)' = SharesToSell(g) - n
  /\ SharesBought(g)' = SharesBought(g)

SharesReturned(g, n) ==
  /\ position[g] # NoPosition /\ n <= SharesToSell(g)
  /\ position'[g] = OnOrderCancel(position[g], n)
  /\ SharesToSell(g)' = SharesToSell(g) - n
  /\ SharesBought(g)' = SharesBought(g)

ShareMove(g) ==
  \/ NoShares(g)
  \/ \E n \in Nat : Delegated(g, n) \/ SharesSold(g, n) \/ SharesReturned(g, n)
  \/ \E o \in OrderIds :
       /\ order[o] \in OrderType /\ order[o].num \in Nat
       /\ LotAdded(g, BoughtLot(o)) \/ LotOffered(g, BoughtLot(o))

(* The two sums, order by order.                                            *)
LEMMA OfferedIs ==
  /\ \A g \in Groups, o \in OrderIds :
       Offered(g)[o] =
         IF Made(o) /\ released[o] = 0 /\ order[o].op = "SELL" /\ order[o].group = g
         THEN order[o].num ELSE 0
  /\ \A g \in Groups, o \in OrderIds :
       Offered(g)'[o] =
         IF Made(o)' /\ released'[o] = 0 /\ order'[o].op = "SELL" /\ order'[o].group = g
         THEN order'[o].num ELSE 0
BY DEF Offered, Open

LEMMA BoughtIs ==
  /\ \A g \in Groups, o \in OrderIds :
       Bought(g)[o] =
         IF Made(o) /\ released[o] > 0 /\ order[o].op = "BUY" /\ order[o].group = g
         THEN order[o].num ELSE 0
  /\ \A g \in Groups, o \in OrderIds :
       Bought(g)'[o] =
         IF Made(o)' /\ released'[o] > 0 /\ order'[o].op = "BUY" /\ order'[o].group = g
         THEN order'[o].num ELSE 0
BY DEF Bought

SharesTyped ==
  \A g \in Groups :
    /\ \A o \in OrderIds : Offered(g)[o] \in Nat /\ Bought(g)[o] \in Nat
    /\ SharesToSell(g) \in Nat /\ SharesBought(g) \in Nat

LEMMA ShareTypes == TypeInv => SharesTyped
<1>. SUFFICES ASSUME TypeInv, NEW g \in Groups
              PROVE  /\ \A o \in OrderIds : Offered(g)[o] \in Nat /\ Bought(g)[o] \in Nat
                     /\ SharesToSell(g) \in Nat /\ SharesBought(g) \in Nat
  BY DEF SharesTyped
<1>1. \A o \in OrderIds : Made(o) => order[o].num \in Nat
  BY OrderFields, OrderNumbers DEF TypeInv
<1>2. \A o \in OrderIds : Offered(g)[o] \in Nat /\ Bought(g)[o] \in Nat
  BY <1>1, OfferedIs, BoughtIs
<1>3. IsFiniteSet(OrderIds)
  BY UserAccountAssumption
<1>. QED
  BY <1>2, <1>3, SumOfNats DEF SharesToSell, SharesBought

LEMMA ShareTypesNext ==
  ASSUME TypeInv'
  PROVE  SharesTyped'
BY ShareTypes, PTL

LEMMA OfferChanged ==
  ASSUME TypeInv, TypeInv', NEW g \in Groups, NEW o \in OrderIds,
         \A p \in OrderIds \ {o} : Offered(g)'[p] = Offered(g)[p]
  PROVE  SharesToSell(g)' = SharesToSell(g) - Offered(g)[o] + Offered(g)'[o]
<1>1. IsFiniteSet(OrderIds)
  BY UserAccountAssumption
<1>2. \A p \in OrderIds : Offered(g)[p] \in Int /\ Offered(g)'[p] \in Int
  BY ShareTypes, ShareTypesNext DEF SharesTyped
<1>. QED
  BY <1>1, <1>2, SumChanged DEF SharesToSell

LEMMA OfferKept ==
  ASSUME NEW g \in Groups, \A p \in OrderIds : Offered(g)'[p] = Offered(g)[p]
  PROVE  SharesToSell(g)' = SharesToSell(g)
<1>1. IsFiniteSet(OrderIds)
  BY UserAccountAssumption
<1>. QED
  BY <1>1, SumSame DEF SharesToSell

LEMMA BoughtChanged ==
  ASSUME TypeInv, TypeInv', NEW g \in Groups, NEW o \in OrderIds,
         \A p \in OrderIds \ {o} : Bought(g)'[p] = Bought(g)[p]
  PROVE  SharesBought(g)' = SharesBought(g) - Bought(g)[o] + Bought(g)'[o]
<1>1. IsFiniteSet(OrderIds)
  BY UserAccountAssumption
<1>2. \A p \in OrderIds : Bought(g)[p] \in Int /\ Bought(g)'[p] \in Int
  BY ShareTypes, ShareTypesNext DEF SharesTyped
<1>. QED
  BY <1>1, <1>2, SumChanged DEF SharesBought

LEMMA BoughtKept ==
  ASSUME NEW g \in Groups, \A p \in OrderIds : Bought(g)'[p] = Bought(g)[p]
  PROVE  SharesBought(g)' = SharesBought(g)
<1>1. IsFiniteSet(OrderIds)
  BY UserAccountAssumption
<1>. QED
  BY <1>1, SumSame DEF SharesBought

(* Orders that are too few and too small to reach 2^32.                     *)
BoughtBelow == \A g \in Groups : SharesBought(g) < UintMod

LEMMA BoughtFits ==
  ASSUME SharesFit
  PROVE  TypeInv /\ BuysAreRequested => BoughtBelow
<1>. SUFFICES ASSUME TypeInv, BuysAreRequested, NEW g \in Groups
              PROVE  SharesBought(g) < UintMod
  BY DEF BoughtBelow
<1>1. PICK most \in Nat : /\ \A n \in Nums : n <= most
                          /\ Cardinality(OrderIds) * most < UintMod
  BY DEF SharesFit
<1>2. IsFiniteSet(OrderIds) /\ Nums \subseteq Nat
  BY UserAccountAssumption
<1>3. ASSUME NEW o \in OrderIds PROVE Bought(g)[o] \in 0 .. most
  <2>1. Made(o) /\ order[o].op = "BUY" => order[o].num \in 0 .. most
    <3>1. \A n \in Nums : n \in 0 .. most
      BY <1>1, <1>2
    <3>. QED
      BY <3>1 DEF BuysAreRequested
  <2>2. Bought(g)[o] = 0 \/ Bought(g)[o] \in 0 .. most
    BY <2>1, BoughtIs
  <2>. QED
    BY <2>2
<1>4. SharesBought(g) <= Cardinality(OrderIds) * most
  BY <1>2, <1>3, SumBounded DEF SharesBought
<1>5. Cardinality(OrderIds) * most \in Nat
  BY <1>2, FS_CardinalityType
<1>6. SharesBought(g) \in Nat
  BY ShareTypes DEF SharesTyped
<1>. QED
  BY <1>1, <1>4, <1>5, <1>6, UintModAssumption

LEMMA BoughtFitsNext ==
  ASSUME SharesFit, TypeInv', BuysAreRequested'
  PROVE  BoughtBelow'
BY BoughtFits, PTL

-----------------------------------------------------------------------------
(* A move of shares leaves the open sales covered.                          *)

LEMMA UintKept ==
  ASSUME NEW n \in Nat, n < UintMod
  PROVE  n % UintMod = n
BY UintModAssumption

LEMMA AddLotCount ==
  ASSUME NEW pos, IsPosition(pos), NEW lot, lot.count \in Nat,
         pos.count + lot.count < UintMod
  PROVE  /\ AddLot(pos, lot).count = pos.count + lot.count
         /\ AddLot(pos, lot).available = pos.available
<1>1. (pos.count + lot.count) % UintMod = pos.count + lot.count
  BY UintKept DEF IsPosition, Uint
<1>. QED
  BY <1>1 DEF AddLot, IsPosition

LEMMA DelegateCounts ==
  ASSUME NEW pos, IsPosition(pos), NEW n \in Nat
  PROVE  /\ Delegate(pos, n).count = pos.count
         /\ Delegate(pos, n).available
              = IF n <= pos.available THEN pos.available - n ELSE pos.available
BY DEF Delegate, CanDelegate, IsPosition, Uint

LEMMA SoldCounts ==
  ASSUME NEW pos, IsPosition(pos), NEW n \in Nat, n <= pos.count
  PROVE  /\ OnSaleDone(pos, n).count = pos.count - n
         /\ OnSaleDone(pos, n).available = pos.available
<1>1. pos.count - n \in Nat /\ pos.count - n < UintMod
  BY UintModAssumption DEF IsPosition, Uint
<1>2. (pos.count - n) % UintMod = pos.count - n
  BY <1>1, UintKept
<1>. QED
  BY <1>2 DEF OnSaleDone, IsPosition

LEMMA ReturnedCounts ==
  ASSUME NEW pos, IsPosition(pos), NEW n \in Nat, pos.available + n < UintMod
  PROVE  /\ OnOrderCancel(pos, n).count = pos.count
         /\ OnOrderCancel(pos, n).available = pos.available + n
<1>1. (pos.available + n) % UintMod = pos.available + n
  BY UintKept DEF IsPosition, Uint
<1>. QED
  BY <1>1 DEF OnOrderCancel, IsPosition

LEMMA CoveredKept ==
  ASSUME SharesFit, ~IsPosition(NoPosition), TypeInv, TypeInv', SharesInv,
         BuysAreRequested', NEW g \in Groups, ShareMove(g)
  PROVE  Covered(g)'
<1>1. /\ SharesToSell(g) \in Nat /\ SharesBought(g) \in Nat
      /\ SharesToSell(g)' \in Nat /\ SharesBought(g)' \in Nat
  BY ShareTypes, ShareTypesNext DEF SharesTyped
<1>2. SharesBought(g)' < UintMod
  BY BoughtFitsNext DEF BoughtBelow
<1>3. position[g] # NoPosition =>
        /\ IsPosition(position[g])
        /\ position[g].count \in Nat /\ position[g].available \in Nat
        /\ position[g].count < UintMod
        /\ position[g].available + SharesToSell(g) <= position[g].count
        /\ position[g].count <= SharesBought(g)
  BY UintModAssumption DEF TypeInv, TypeOK, IsPosition, Uint, SharesInv, Covered
<1>0. position[g] = NoPosition => SharesToSell(g) = 0
  BY DEF SharesInv, Covered
<1>4. CASE NoShares(g)
  BY <1>0, <1>1, <1>3, <1>4 DEF NoShares, Covered
<1>5. ASSUME NEW n \in Nat, Delegated(g, n) PROVE Covered(g)'
  <2>1. /\ position'[g].count = position[g].count
        /\ position'[g].available = position[g].available - n
    BY <1>3, <1>5, DelegateCounts DEF Delegated
  <2>2. position'[g] # NoPosition
    BY <1>3, <1>5, DelegateType DEF Delegated
  <2>. QED
    BY <1>1, <1>3, <1>5, <2>1, <2>2 DEF Delegated, Covered
<1>6. ASSUME NEW n \in Nat, SharesSold(g, n) PROVE Covered(g)'
  <2>1. /\ position'[g].count = position[g].count - n
        /\ position'[g].available = position[g].available
    BY <1>1, <1>3, <1>6, SoldCounts DEF SharesSold
  <2>2. position'[g] # NoPosition
    BY <1>3, <1>6, OnSaleDoneType DEF SharesSold
  <2>. QED
    BY <1>1, <1>3, <1>6, <2>1, <2>2 DEF SharesSold, Covered
<1>7. ASSUME NEW n \in Nat, SharesReturned(g, n) PROVE Covered(g)'
  <2>0. position[g] # NoPosition /\ position[g].available + n < UintMod
    BY <1>1, <1>3, <1>7, UintModAssumption DEF SharesReturned
  <2>1. /\ position'[g].count = position[g].count
        /\ position'[g].available = position[g].available + n
    BY <1>3, <1>7, <2>0, ReturnedCounts DEF SharesReturned
  <2>2. position'[g] # NoPosition
    BY <1>3, <1>7, OnOrderCancelType DEF SharesReturned
  <2>. QED
    BY <1>1, <1>3, <1>7, <2>1, <2>2 DEF SharesReturned, Covered
<1>8. ASSUME NEW lot, lot.count \in Nat, LotAdded(g, lot) \/ LotOffered(g, lot)
      PROVE  Covered(g)'
  <2>. DEFINE pos == PositionOf(g)
              held == AddLot(pos, lot)
  <2>1. /\ IsPosition(pos) /\ pos.count \in Nat /\ pos.available \in Nat
        /\ pos.available + SharesToSell(g) <= pos.count /\ pos.count <= SharesBought(g)
    <3>1. CASE position[g] = NoPosition
      <4>1. SharesToSell(g) = 0
        BY <3>1 DEF SharesInv, Covered
      <4>2. /\ IsPosition(EmptyPosition) /\ EmptyPosition.count = 0
            /\ EmptyPosition.available = 0
        BY EmptyPositionType DEF EmptyPosition
      <4>. QED
        BY <1>1, <3>1, <4>1, <4>2 DEF PositionOf
    <3>2. CASE position[g] # NoPosition
      BY <1>3, <3>2 DEF PositionOf
    <3>. QED
      BY <3>1, <3>2
  <2>. HIDE DEF pos
  <2>2. SharesBought(g)' = SharesBought(g) + lot.count
    BY <1>8 DEF LotAdded, LotOffered
  <2>3. /\ IsPosition(held) /\ held.count = pos.count + lot.count
        /\ held.available = pos.available
    <3>1. pos.count + lot.count < UintMod
      BY <1>1, <1>2, <1>8, <2>1, <2>2, UintModAssumption
    <3>2. lot.count \in Int
      BY <1>8
    <3>. QED
      BY <1>8, <2>1, <3>1, <3>2, AddLotCount, AddLotType
  <2>. HIDE DEF held
  <2>4. CASE LotAdded(g, lot)
    <3>1. position'[g] = held /\ SharesToSell(g)' = SharesToSell(g)
      BY <2>4 DEF LotAdded, held, pos
    <3>. QED
      BY <1>1, <1>8, <2>1, <2>2, <2>3, <3>1 DEF Covered
  <2>5. CASE LotOffered(g, lot)
    <3>1. /\ position'[g] = Delegate(held, lot.count)
          /\ SharesToSell(g)' = SharesToSell(g) + lot.count
      BY <2>5 DEF LotOffered, held, pos
    <3>2. /\ position'[g].count = held.count
          /\ position'[g].available
               = IF lot.count <= held.available THEN held.available - lot.count
                 ELSE held.available
      BY <1>8, <2>3, <3>1, DelegateCounts
    <3>3. position'[g] # NoPosition
      BY <1>8, <2>3, <3>1, DelegateType
    <3>. QED
      BY <1>1, <1>8, <2>1, <2>2, <2>3, <3>1, <3>2, <3>3 DEF Covered
  <2>. QED
    BY <1>8, <2>4, <2>5
<1>9. \A o \in OrderIds : BoughtLot(o).count = order[o].num
  BY DEF BoughtLot
<1>. QED
  BY <1>4, <1>5, <1>6, <1>7, <1>8, <1>9 DEF ShareMove

-----------------------------------------------------------------------------
(* What the changes of the orders do to the two sums.                       *)

SharesMove == (\A g \in Groups : ShareMove(g)) /\ BuysAreRequested'

LEMMA RequestsKept ==
  ASSUME BuysAreRequested,
         \A p \in OrderIds : Made(p) => SameTerms(p),
         \A p \in OrderIds :
           Made(p)' /\ ~Made(p) /\ order'[p].op = "BUY" => order'[p].num \in Nums
  PROVE  BuysAreRequested'
BY DEF BuysAreRequested, SameTerms

(* No order is made, settled or given other terms.                          *)
LEMMA TermsKeptShares ==
  ASSUME UNCHANGED released,
         \A p \in OrderIds : (Made(p)' <=> Made(p)) /\ (Made(p) => SameTerms(p))
  PROVE  \A g \in Groups : SharesToSell(g)' = SharesToSell(g)
                           /\ SharesBought(g)' = SharesBought(g)
<1>. TAKE g \in Groups
<1>1. \A p \in OrderIds : Offered(g)'[p] = Offered(g)[p]
  BY OfferedIs DEF SameTerms
<1>2. \A p \in OrderIds : Bought(g)'[p] = Bought(g)[p]
  BY BoughtIs DEF SameTerms
<1>. QED
  BY <1>1, <1>2, OfferKept, BoughtKept

LEMMA StatusShares ==
  ASSUME TypeInv, SharesInv, UNCHANGED <<position, released>>,
         \A p \in OrderIds : (Made(p)' <=> Made(p)) /\ (Made(p) => SameTerms(p))
  PROVE  SharesMove
<1>1. \A g \in Groups : SharesBought(g) \in Nat
  BY ShareTypes DEF SharesTyped
<1>2. \A g \in Groups : NoShares(g)
  BY <1>1, TermsKeptShares DEF NoShares
<1>3. BuysAreRequested'
  BY RequestsKept DEF SharesInv
<1>. QED
  BY <1>2, <1>3 DEF SharesMove, ShareMove

(* An order is made: what it offers, if it is a sale, is offered now.       *)
LEMMA AddedOffer ==
  ASSUME TypeInv, TypeInv', NEW new, NEW terms, OrderAdded(new, terms),
         \A p \in OrderIds : Made(p) => released'[p] = released[p] \/ order[p].op = "BUY",
         released'[new] = 0
  PROVE  \A g \in Groups :
           SharesToSell(g)'
             = SharesToSell(g)
               + (IF terms.op = "SELL" /\ terms.group = g THEN terms.num ELSE 0)
<1>. TAKE g \in Groups
<1>1. /\ \A p \in OrderIds : Made(p) => order'[p] = order[p] /\ p # new
      /\ \A p \in OrderIds : Made(p)' => Made(p) \/ p = new
      /\ new \in OrderIds /\ order'[new] = terms /\ ~Made(new)
  BY AddedTerms
<1>2. \A p \in OrderIds : Made(p) => Made(p)'
  BY <1>1 DEF Made
<1>3. Made(new)'
  BY <1>1 DEF Made, OrderAdded
<1>4. \A p \in OrderIds \ {new} : Offered(g)'[p] = Offered(g)[p]
  BY <1>1, <1>2, OfferedIs
<1>5. /\ Offered(g)[new] = 0
      /\ Offered(g)'[new]
           = IF terms.op = "SELL" /\ terms.group = g THEN terms.num ELSE 0
  BY <1>1, <1>3, OfferedIs
<1>6. SharesToSell(g)' = SharesToSell(g) - Offered(g)[new] + Offered(g)'[new]
  BY <1>1, <1>4, OfferChanged
<1>7. SharesToSell(g) \in Nat
  BY ShareTypes DEF SharesTyped
<1>. QED
  BY <1>5, <1>6, <1>7

LEMMA AddedBought ==
  ASSUME TypeInv, OnceInv, NEW new, NEW terms, OrderAdded(new, terms), UNCHANGED released
  PROVE  \A g \in Groups : SharesBought(g)' = SharesBought(g)
<1>. TAKE g \in Groups
<1>1. /\ \A p \in OrderIds : Made(p) => order'[p] = order[p] /\ p # new
      /\ \A p \in OrderIds : Made(p)' => Made(p) \/ p = new
      /\ new \in OrderIds /\ order'[new] = terms /\ ~Made(new)
  BY AddedTerms
<1>2. released[new] = 0
  BY <1>1 DEF OnceInv, UnmadeUnknown
<1>3. \A p \in OrderIds : Made(p) => Made(p)'
  BY <1>1 DEF Made
<1>4. \A p \in OrderIds : Bought(g)'[p] = Bought(g)[p]
  BY <1>1, <1>2, <1>3, BoughtIs
<1>. QED
  BY <1>4, BoughtKept

(* A purchase is settled or cancelled, and maybe an order made.             *)
LEMMA BuySettledBought ==
  ASSUME TypeInv, TypeInv', OnceInv, NEW o \in OrderIds, Made(o), released[o] = 0,
         order[o].op = "BUY", released' = [released EXCEPT ![o] = @ + 1],
         \A p \in OrderIds : Made(p) => order'[p] = order[p]
  PROVE  \A g \in Groups :
           SharesBought(g)'
             = SharesBought(g) + (IF order[o].group = g THEN order[o].num ELSE 0)
<1>. TAKE g \in Groups
<1>1. \A p \in OrderIds : released'[p] = IF p = o THEN 1 ELSE released[p]
  BY DEF TypeInv, TypeOK
<1>2. \A p \in OrderIds : Made(p) => Made(p)'
  BY DEF Made
<1>3. \A p \in OrderIds : ~Made(p) => released[p] = 0
  BY DEF OnceInv, UnmadeUnknown
<1>4. \A p \in OrderIds \ {o} : Bought(g)'[p] = Bought(g)[p]
  BY <1>1, <1>2, <1>3, BoughtIs
<1>5. /\ Bought(g)[o] = 0
      /\ Bought(g)'[o] = IF order[o].group = g THEN order[o].num ELSE 0
  BY <1>1, <1>2, BoughtIs
<1>6. SharesBought(g)' = SharesBought(g) - Bought(g)[o] + Bought(g)'[o]
  BY <1>4, BoughtChanged
<1>7. SharesBought(g) \in Nat
  BY ShareTypes DEF SharesTyped
<1>. QED
  BY <1>5, <1>6, <1>7

(* A purchase offers nothing.                                               *)
LEMMA BuySettledOffer ==
  ASSUME TypeInv, NEW o \in OrderIds, order[o].op = "BUY",
         released' = [released EXCEPT ![o] = @ + 1], UNCHANGED order
  PROVE  \A g \in Groups : SharesToSell(g)' = SharesToSell(g)
<1>. TAKE g \in Groups
<1>1. \A p \in OrderIds : p # o => released'[p] = released[p]
  BY DEF TypeInv, TypeOK
<1>2. \A p \in OrderIds : Offered(g)'[p] = Offered(g)[p]
  BY <1>1, OfferedIs DEF Made
<1>. QED
  BY <1>2, OfferKept

(* A sale is settled or cancelled: what it offered is no longer offered.    *)
LEMMA SellSettled ==
  ASSUME TypeInv, TypeInv', NEW o \in OrderIds, Made(o), released[o] = 0,
         order[o].op = "SELL", released' = [released EXCEPT ![o] = @ + 1],
         UNCHANGED order
  PROVE  /\ \A g \in Groups : SharesBought(g)' = SharesBought(g)
         /\ \A g \in Groups : order[o].group # g => SharesToSell(g)' = SharesToSell(g)
         /\ \A g \in Groups : order[o].group = g =>
              /\ SharesToSell(g)' = SharesToSell(g) - order[o].num
              /\ order[o].num <= SharesToSell(g)
<1>. SUFFICES ASSUME NEW g \in Groups
              PROVE  /\ SharesBought(g)' = SharesBought(g)
                     /\ order[o].group # g => SharesToSell(g)' = SharesToSell(g)
                     /\ order[o].group = g =>
                          /\ SharesToSell(g)' = SharesToSell(g) - order[o].num
                          /\ order[o].num <= SharesToSell(g)
  OBVIOUS
<1>1. \A p \in OrderIds : released'[p] = IF p = o THEN 1 ELSE released[p]
  BY DEF TypeInv, TypeOK
<1>2. \A p \in OrderIds : Bought(g)'[p] = Bought(g)[p]
  BY <1>1, BoughtIs DEF Made
<1>3. SharesBought(g)' = SharesBought(g)
  BY <1>2, BoughtKept
<1>4. CASE order[o].group # g
  <2>1. \A p \in OrderIds : Offered(g)'[p] = Offered(g)[p]
    BY <1>1, <1>4, OfferedIs DEF Made
  <2>. QED
    BY <1>3, <1>4, <2>1, OfferKept
<1>5. CASE order[o].group = g
  <2>1. \A p \in OrderIds \ {o} : Offered(g)'[p] = Offered(g)[p]
    BY <1>1, OfferedIs DEF Made
  <2>2. Offered(g)[o] = order[o].num /\ Offered(g)'[o] = 0
    BY <1>1, <1>5, OfferedIs
  <2>3. SharesToSell(g)' = SharesToSell(g) - Offered(g)[o] + Offered(g)'[o]
    BY <2>1, OfferChanged
  <2>4. SharesToSell(g) \in Nat /\ \A p \in OrderIds : Offered(g)[p] \in Nat
    BY ShareTypes DEF SharesTyped
  <2>5. IsFiniteSet(OrderIds)
    BY UserAccountAssumption
  <2>6. Offered(g)[o] <= SharesToSell(g)
    BY <2>4, <2>5, SumCovers DEF SharesToSell
  <2>. QED
    BY <1>3, <1>5, <2>2, <2>3, <2>4, <2>6
<1>. QED
  BY <1>4, <1>5

-----------------------------------------------------------------------------
(* Every step moves shares in one of these ways.                            *)

LEMMA PushedShares ==
  ASSUME TypeInv, TypeInv', SharesInv, NEW t \in Threads,
         NEW op \in {"BUY", "SELL"}, NEW g \in Groups, NEW price \in Prices,
         NEW num \in Nat, NEW expected \in Prices \cup {0}, NEW money \in Nat,
         NEW market \in Prices, op = "BUY" => num \in Nums,
         PushOrder(t, NewOrder(op, g, price, num, expected, money), market)
  PROVE  /\ BuysAreRequested'
         /\ \A h \in Groups : SharesBought(h)' = SharesBought(h)
         /\ \A h \in Groups :
              op = "BUY" \/ h # g => SharesToSell(h)' = SharesToSell(h)
         /\ op = "SELL" => SharesToSell(g)' = SharesToSell(g) + num
<1>. DEFINE new == NewOrder(op, g, price, num, expected, money)
<1>1. new.op = op /\ new.group = g /\ new.num = num
  BY DEF NewOrder
<1>2. PICK o \in Fresh : order' = [order EXCEPT ![o] = new]
  BY DEF PushOrder, NextId
<1>3. UNCHANGED released
  BY DEF PushOrder
<1>4. OrderAdded(o, new)
  BY <1>2, NewOrderAdded
<1>. HIDE DEF new
<1>5. /\ \A p \in OrderIds : Made(p) => order'[p] = order[p] /\ p # o
      /\ \A p \in OrderIds : Made(p)' => Made(p) \/ p = o
      /\ o \in OrderIds /\ order'[o] = new /\ ~Made(o)
  BY <1>4, AddedTerms
<1>6. released'[o] = 0
  BY <1>3, <1>5 DEF SharesInv, OnceInv, UnmadeUnknown
<1>7. BuysAreRequested'
  BY <1>1, <1>5, RequestsKept DEF SharesInv, SameTerms
<1>8. \A h \in Groups : SharesBought(h)' = SharesBought(h)
  BY <1>3, <1>4, AddedBought DEF SharesInv
<1>9. \A h \in Groups :
        SharesToSell(h)'
          = SharesToSell(h) + (IF op = "SELL" /\ g = h THEN num ELSE 0)
  BY <1>1, <1>3, <1>4, <1>6, AddedOffer
<1>10. ASSUME NEW h \in Groups, op = "BUY" \/ h # g
       PROVE  SharesToSell(h)' = SharesToSell(h)
  <2>1. SharesToSell(h)' = SharesToSell(h) + 0
    BY <1>9, <1>10
  <2>. QED
    BY <2>1, ShareTypes DEF SharesTyped
<1>11. op = "SELL" => SharesToSell(g)' = SharesToSell(g) + num
  BY <1>9
<1>. QED
  BY <1>7, <1>8, <1>10, <1>11

LEMMA SubmitBuyShares ==
  ASSUME TypeInv, TypeInv', SharesInv, NEW t \in Threads, NEW g \in Groups,
         NEW price \in Prices, NEW num \in Nums, NEW expected \in Prices \cup {0},
         NEW market \in Prices, SubmitBuy(t, g, price, num, expected, market)
  PROVE  SharesMove
<1>. DEFINE need == BuyCost(price, num)
<1>1. need \in Nat /\ num \in Nat
  BY BuyCostType, UserAccountAssumption
<1>2. /\ position' = position
      /\ ReturnLocked(t)
         \/ PushOrder(t, NewOrder("BUY", g, price, num, expected, need), market)
  BY DEF SubmitBuy
<1>. HIDE DEF need
<1>3. CASE ReturnLocked(t)
  BY <1>2, <1>3, StatusShares DEF ReturnLocked, Made, SameTerms
<1>4. CASE PushOrder(t, NewOrder("BUY", g, price, num, expected, need), market)
  <2>1. /\ BuysAreRequested'
        /\ \A h \in Groups : SharesBought(h)' = SharesBought(h)
        /\ \A h \in Groups : SharesToSell(h)' = SharesToSell(h)
    BY <1>1, <1>4, PushedShares
  <2>2. \A h \in Groups : NoShares(h)
    BY <1>2, <2>1, ShareTypes DEF NoShares, SharesTyped
  <2>. QED
    BY <2>1, <2>2 DEF SharesMove, ShareMove
<1>. QED
  BY <1>2, <1>3, <1>4

LEMMA SubmitSellShares ==
  ASSUME TypeInv, TypeInv', SharesInv, NEW t \in Threads, NEW g \in Groups,
         NEW price \in Prices, NEW num \in Nums, NEW market \in Prices,
         SubmitSell(t, g, price, num, market)
  PROVE  SharesMove
<1>. DEFINE cut == IF CanDelegate(position[g], num) THEN num ELSE position[g].available
<1>0. cut \in Nat /\ cut <= position[g].available
  BY UserAccountAssumption, UintModAssumption
  DEF SubmitSell, TypeInv, TypeOK, IsPosition, Uint, CanDelegate
<1>1. PICK n \in Nat : n = cut /\ n <= position[g].available
  BY <1>0
<1>2. /\ position[g] # NoPosition
      /\ position' = [position EXCEPT ![g] = Delegate(position[g], n)]
      /\ ReturnLocked(t) \/ PushOrder(t, NewOrder("SELL", g, price, n, 0, 0), market)
  BY <1>1 DEF SubmitSell
<1>. HIDE DEF cut
<1>3. /\ \A h \in Groups : h # g => position'[h] = position[h]
      /\ position'[g] = Delegate(position[g], n)
  BY <1>2 DEF TypeInv, TypeOK
<1>4. \A h \in Groups : SharesToSell(h) \in Nat /\ SharesBought(h) \in Nat
  BY ShareTypes DEF SharesTyped
<1>5. /\ BuysAreRequested'
      /\ \A h \in Groups : SharesBought(h)' = SharesBought(h)
      /\ \A h \in Groups : h # g => SharesToSell(h)' = SharesToSell(h)
      /\ SharesToSell(g)' \in {SharesToSell(g), SharesToSell(g) + n}
  <2>1. CASE ReturnLocked(t)
    <3>1. order' = order /\ released' = released
      BY <2>1 DEF ReturnLocked
    <3>2. \A p \in OrderIds : (Made(p)' <=> Made(p)) /\ (Made(p) => SameTerms(p))
      BY <3>1 DEF Made, SameTerms
    <3>. QED
      BY <3>1, <3>2, TermsKeptShares, RequestsKept DEF SharesInv
  <2>2. CASE PushOrder(t, NewOrder("SELL", g, price, n, 0, 0), market)
    BY <1>1, <2>2, PushedShares
  <2>. QED
    BY <1>2, <2>1, <2>2
<1>6. Delegated(g, n)
  BY <1>2, <1>1, <1>3, <1>5 DEF Delegated
<1>7. \A h \in Groups : h # g => NoShares(h)
  BY <1>3, <1>4, <1>5 DEF NoShares
<1>. QED
  BY <1>1, <1>5, <1>6, <1>7 DEF SharesMove, ShareMove

LEMMA SubmitOrderShares ==
  ASSUME TypeInv, TypeInv', SharesInv, NEW t \in Threads, SubmitOrder(t)
  PROVE  SharesMove
<1>1. CASE ReturnLocked(t) /\ UNCHANGED position
  BY <1>1, StatusShares DEF ReturnLocked, Made, SameTerms
<1>. QED
  BY <1>1, SubmitBuyShares, SubmitSellShares
  DEF SubmitOrder, SubmitRejected, SubmitSellRefused, SubmitBuyRefused

LEMMA MakeADealShares ==
  ASSUME TypeInv, SharesInv, NEW t \in Threads, MakeADeal(t)
  PROVE  SharesMove
<1>. DEFINE o == cur[t][1]
<1>1. /\ o \in OrderIds /\ Made(o)
      /\ \A p \in OrderIds : SameTerms(p)
      /\ \A p \in OrderIds \ {o} : order'[p] = order[p]
      /\ order'[o].status = "FINISHED"
  BY DealtTerms
<1>. HIDE DEF o
<1>2. \A p \in OrderIds : Made(p)' <=> Made(p)
  BY <1>1 DEF Made
<1>. QED
  BY <1>1, <1>2, StatusShares DEF MakeADeal

LEMMA OnBuyOrderDoneShares ==
  ASSUME TypeInv, TypeInv', SharesInv, NEW t \in Threads, OnBuyOrderDone(t)
  PROVE  SharesMove
<1>1. PICK o \in OrderIds : o = cur[t][1]
  BY CurrentOrder DEF OnBuyOrderDone, At
<1>2. /\ order[o] \in OrderType /\ Made(o) /\ order[o].op = "BUY" /\ pc[t] = "done"
      /\ released[o] = 0
  BY <1>1, CurrentOrder DEF OnBuyOrderDone, At, SharesInv, OnceInv, WorkIsUnsettled
<1>3. released' = [released EXCEPT ![o] = @ + 1]
  BY <1>1 DEF OnBuyOrderDone, Finish
<1>0. PICK g \in Groups, n \in Nat : g = order[o].group /\ n = order[o].num
  BY <1>2, OrderNumbers
<1>. DEFINE e == order[o].expected
            lot == BoughtLot(o)
            held == AddLot(PositionOf(g), lot)
            sale == NewOrder("SELL", g, e, n, 0, 0)
<1>4. (e # 0 => e \in Prices) /\ lot.count = n
  BY <1>2, <1>0, OrderNumbers DEF BoughtLot
<1>5. \/ order' = order /\ position' = position
      \/ order' = order /\ position' = [position EXCEPT ![g] = held]
      \/ /\ e # 0
         /\ \E new \in Fresh : order' = [order EXCEPT ![new] = sale]
         /\ position' = [position EXCEPT ![g] = Delegate(held, n)]
  BY <1>1, <1>0 DEF OnBuyOrderDone, AutoOrder, NextId
<1>. HIDE DEF e, lot, held
<1>6. \A h \in Groups : SharesToSell(h) \in Nat /\ SharesBought(h) \in Nat
  BY ShareTypes DEF SharesTyped
<1>7. ASSUME \A p \in OrderIds : Made(p) => order'[p] = order[p]
      PROVE  /\ \A h \in Groups : h # g => SharesBought(h)' = SharesBought(h)
             /\ SharesBought(g)' = SharesBought(g) + n
  <2>1. \A h \in Groups :
          SharesBought(h)' = SharesBought(h) + (IF g = h THEN n ELSE 0)
    BY <1>2, <1>3, <1>7, <1>0, BuySettledBought DEF SharesInv
  <2>2. SharesBought(g)' = SharesBought(g) + n
    BY <1>4, <2>1
  <2>3. ASSUME NEW h \in Groups, h # g PROVE SharesBought(h)' = SharesBought(h)
    <3>1. SharesBought(h)' = SharesBought(h) + 0
      BY <2>1, <2>3
    <3>. QED
      BY <1>6, <3>1
  <2>. QED
    BY <2>2, <2>3
<1>8. CASE order' = order
  <2>1. \A h \in Groups : SharesToSell(h)' = SharesToSell(h)
    BY <1>2, <1>3, <1>8, BuySettledOffer
  <2>2. \A p \in OrderIds : (Made(p)' <=> Made(p)) /\ (Made(p) => SameTerms(p))
    BY <1>8 DEF Made, SameTerms
  <2>3. BuysAreRequested'
    BY <2>2, RequestsKept DEF SharesInv
  <2>4. /\ \A h \in Groups : h # g => SharesBought(h)' = SharesBought(h)
        /\ SharesBought(g)' = SharesBought(g) + n
    BY <1>7, <1>8
  <2>5. CASE position' = position
    <3>1. ASSUME NEW h \in Groups PROVE SharesBought(h)' >= SharesBought(h)
      <4>1. CASE h = g
        BY <1>4, <1>6, <2>4, <4>1
      <4>2. CASE h # g
        BY <1>6, <2>4, <4>2
      <4>. QED
        BY <4>1, <4>2
    <3>. QED
      BY <2>1, <2>3, <2>5, <3>1 DEF SharesMove, ShareMove, NoShares
  <2>6. CASE position' = [position EXCEPT ![g] = held]
    <3>1. /\ position'[g] = held
          /\ \A h \in Groups : h # g => position'[h] = position[h]
      BY <1>4, <2>6 DEF TypeInv, TypeOK
    <3>2. LotAdded(g, lot)
      BY <1>4, <2>1, <2>4, <3>1 DEF LotAdded, held
    <3>3. \A h \in Groups : h # g => NoShares(h)
      BY <1>6, <2>1, <2>4, <3>1 DEF NoShares
    <3>. QED
      BY <1>2, <1>0, <2>3, <3>2, <3>3 DEF SharesMove, ShareMove, lot
  <2>7. CASE /\ e # 0
             /\ \E new \in Fresh : order' = [order EXCEPT ![new] = sale]
    <3>1. PICK new \in Fresh : order' = [order EXCEPT ![new] = sale]
      BY <2>7
    <3>2. OrderAdded(new, sale)
      BY <1>4, <2>7, <3>1, NewOrderAdded
    <3>3. sale.status = "PENDING"
      BY DEF NewOrder
    <3>. HIDE DEF sale
    <3>4. order'[new] = sale /\ ~Made(new) /\ new \in OrderIds
      BY <3>2, AddedTerms
    <3>. QED
      BY <1>8, <3>3, <3>4 DEF Made
  <2>. QED
    BY <1>5, <2>5, <2>6, <2>7
<1>9. CASE /\ e # 0
           /\ \E new \in Fresh : order' = [order EXCEPT ![new] = sale]
           /\ position' = [position EXCEPT ![g] = Delegate(held, n)]
  <2>1. PICK new \in Fresh : order' = [order EXCEPT ![new] = sale]
    BY <1>9
  <2>2. sale.op = "SELL" /\ sale.group = g /\ sale.num = n
    BY DEF NewOrder
  <2>3. OrderAdded(new, sale)
    BY <1>4, <1>9, <2>1, NewOrderAdded
  <2>. HIDE DEF sale
  <2>4. /\ \A p \in OrderIds : Made(p) => order'[p] = order[p] /\ p # new
        /\ \A p \in OrderIds : Made(p)' => Made(p) \/ p = new
        /\ new \in OrderIds /\ order'[new] = sale /\ ~Made(new)
    BY <2>3, AddedTerms
  <2>5. \A p \in OrderIds : p # o => released'[p] = released[p]
    BY <1>3 DEF TypeInv, TypeOK
  <2>6. released'[new] = 0
    BY <1>2, <2>4, <2>5 DEF SharesInv, OnceInv, UnmadeUnknown
  <2>7. \A h \in Groups :
          SharesToSell(h)' = SharesToSell(h) + (IF g = h THEN n ELSE 0)
    BY <1>2, <2>2, <2>3, <2>5, <2>6, AddedOffer
  <2>8. BuysAreRequested'
    BY <2>2, <2>4, RequestsKept DEF SharesInv, SameTerms
  <2>9. /\ position'[g] = Delegate(held, n)
        /\ \A h \in Groups : h # g => position'[h] = position[h]
    BY <1>4, <1>9 DEF TypeInv, TypeOK
  <2>10. /\ \A h \in Groups : h # g => SharesBought(h)' = SharesBought(h)
         /\ SharesBought(g)' = SharesBought(g) + n
    BY <1>7, <2>4
  <2>11. SharesToSell(g)' = SharesToSell(g) + n
    BY <1>4, <2>7
  <2>12. LotOffered(g, lot)
    BY <1>4, <2>9, <2>10, <2>11 DEF LotOffered, held
  <2>13. ASSUME NEW h \in Groups, h # g PROVE NoShares(h)
    <3>1. SharesToSell(h)' = SharesToSell(h) + 0
      BY <2>7, <2>13
    <3>. QED
      BY <1>6, <2>9, <2>10, <2>13, <3>1 DEF NoShares
  <2>. QED
    BY <1>2, <1>0, <2>8, <2>12, <2>13 DEF SharesMove, ShareMove, lot
<1>. QED
  BY <1>5, <1>8, <1>9

LEMMA OnSellOrderDoneShares ==
  ASSUME TypeInv, TypeInv', SharesInv, NEW t \in Threads, OnSellOrderDone(t)
  PROVE  SharesMove
<1>1. PICK o \in OrderIds : o = cur[t][1]
  BY CurrentOrder DEF OnSellOrderDone, At
<1>2. /\ order[o] \in OrderType /\ Made(o) /\ order[o].op = "SELL" /\ released[o] = 0
  BY <1>1, CurrentOrder DEF OnSellOrderDone, At, SharesInv, OnceInv, WorkIsUnsettled
<1>3. PICK g \in Groups, n \in Nat : g = order[o].group /\ n = order[o].num
  BY <1>2, OrderNumbers
<1>4. /\ released' = [released EXCEPT ![o] = @ + 1] /\ UNCHANGED order
      /\ IF position[g] = NoPosition THEN UNCHANGED position
         ELSE position' = [position EXCEPT ![g] = OnSaleDone(position[g], n)]
  BY <1>1, <1>3 DEF OnSellOrderDone, Finish, Sold
<1>5. /\ \A h \in Groups : SharesBought(h)' = SharesBought(h)
      /\ \A h \in Groups : h # g => SharesToSell(h)' = SharesToSell(h)
      /\ SharesToSell(g)' = SharesToSell(g) - n /\ n <= SharesToSell(g)
  BY <1>2, <1>3, <1>4, SellSettled
<1>6. \A h \in Groups : SharesBought(h) \in Nat /\ SharesToSell(h) \in Nat
  BY ShareTypes DEF SharesTyped
<1>7. ShareMove(g)
  <2>1. CASE position[g] = NoPosition
    <3>1. SharesToSell(g) = 0
      BY <2>1 DEF SharesInv, Covered
    <3>2. position'[g] = position[g]
      BY <1>4, <2>1
    <3>3. NoShares(g)
      BY <1>5, <1>6, <3>1, <3>2 DEF NoShares
    <3>. QED
      BY <3>3 DEF ShareMove
  <2>2. CASE position[g] # NoPosition
    <3>1. position'[g] = OnSaleDone(position[g], n)
      BY <1>4, <2>2 DEF TypeInv, TypeOK
    <3>2. SharesSold(g, n)
      BY <1>5, <2>2, <3>1 DEF SharesSold
    <3>. QED
      BY <3>2 DEF ShareMove
  <2>. QED
    BY <2>1, <2>2
<1>8. ASSUME NEW h \in Groups, h # g PROVE NoShares(h)
  <2>1. position'[h] = position[h]
    BY <1>4, <1>8 DEF TypeInv, TypeOK
  <2>. QED
    BY <1>5, <1>6, <1>8, <2>1 DEF NoShares
<1>9. BuysAreRequested'
  BY <1>4 DEF SharesInv, BuysAreRequested, Made
<1>. QED
  BY <1>7, <1>8, <1>9 DEF SharesMove, ShareMove

(* A cancelled purchase is settled without a lot.                           *)
LEMMA OnCancelBuyOrderShares ==
  ASSUME TypeInv, TypeInv', SharesInv, NEW t \in Threads, OnCancelBuyOrder(t)
  PROVE  SharesMove
<1>1. PICK o \in OrderIds : o = cur[t][1]
  BY CurrentOrder DEF OnCancelBuyOrder, At
<1>2. /\ order[o] \in OrderType /\ Made(o) /\ order[o].op = "BUY" /\ released[o] = 0
      /\ order[o].num \in Nat
  BY <1>1, CurrentOrder, OrderNumbers
  DEF OnCancelBuyOrder, At, SharesInv, OnceInv, WorkIsUnsettled
<1>3. /\ released' = [released EXCEPT ![o] = @ + 1]
      /\ UNCHANGED <<order, position>>
  BY <1>1 DEF OnCancelBuyOrder, CancelDone
<1>4. \A h \in Groups : SharesToSell(h)' = SharesToSell(h)
  BY <1>2, <1>3, BuySettledOffer
<1>5. \A h \in Groups :
        SharesBought(h)'
          = SharesBought(h) + (IF order[o].group = h THEN order[o].num ELSE 0)
  BY <1>2, <1>3, BuySettledBought DEF SharesInv
<1>6. ASSUME NEW h \in Groups PROVE NoShares(h)
  <2>1. SharesBought(h) \in Nat
    BY ShareTypes DEF SharesTyped
  <2>2. SharesBought(h)' \in {SharesBought(h), SharesBought(h) + order[o].num}
    BY <1>5, <2>1
  <2>. QED
    BY <1>2, <1>3, <1>4, <2>1, <2>2 DEF NoShares
<1>7. BuysAreRequested'
  BY <1>3 DEF SharesInv, BuysAreRequested, Made
<1>. QED
  BY <1>6, <1>7 DEF SharesMove, ShareMove

LEMMA OnCancelSellOrderShares ==
  ASSUME TypeInv, TypeInv', SharesInv, NEW t \in Threads, OnCancelSellOrder(t), ~Abort
  PROVE  SharesMove
<1>1. PICK o \in OrderIds : o = cur[t][1]
  BY CurrentOrder DEF OnCancelSellOrder, At
<1>2. /\ order[o] \in OrderType /\ Made(o) /\ order[o].op = "SELL" /\ released[o] = 0
  BY <1>1, CurrentOrder
  DEF OnCancelSellOrder, At, SharesInv, OnceInv, WorkIsUnsettled
<1>3. PICK g \in Groups, n \in Nat : g = order[o].group /\ n = order[o].num
  BY <1>2, OrderNumbers
<1>4. /\ released' = [released EXCEPT ![o] = @ + 1] /\ UNCHANGED order
      /\ position[g] # NoPosition
      /\ position' = [position EXCEPT ![g] = OnOrderCancel(position[g], n)]
  BY <1>1, <1>3 DEF OnCancelSellOrder, CancelDone
<1>5. /\ \A h \in Groups : SharesBought(h)' = SharesBought(h)
      /\ \A h \in Groups : h # g => SharesToSell(h)' = SharesToSell(h)
      /\ SharesToSell(g)' = SharesToSell(g) - n /\ n <= SharesToSell(g)
  BY <1>2, <1>3, <1>4, SellSettled
<1>6. /\ position'[g] = OnOrderCancel(position[g], n)
      /\ \A h \in Groups : h # g => position'[h] = position[h]
  BY <1>4 DEF TypeInv, TypeOK
<1>7. SharesReturned(g, n)
  BY <1>4, <1>5, <1>6 DEF SharesReturned
<1>8. \A h \in Groups : h # g => NoShares(h)
  BY <1>5, <1>6, ShareTypes DEF NoShares, SharesTyped
<1>9. BuysAreRequested'
  BY <1>4 DEF SharesInv, BuysAreRequested, Made
<1>. QED
  BY <1>7, <1>8, <1>9 DEF SharesMove, ShareMove

LEMMA CancelShares ==
  ASSUME TypeInv, TypeInv', SharesInv, NEW t \in Threads, Cancel(t)
  PROVE  SharesMove
<1>1. ASSUME NEW o \in OrderIds, OnCancelOrder(t, o) PROVE SharesMove
  BY <1>1, StatusShares DEF OnCancelOrder, SameTerms, Made
<1>2. CASE MarkOrder(t)
  <2>1. \A p \in OrderIds : SameTerms(p)
    BY <1>2, CancelledTerms
  <2>2. \A p \in OrderIds : Made(p)' <=> Made(p)
    BY <1>2, CancelledTerms DEF Made
  <2>. QED
    BY <1>2, <2>1, <2>2, StatusShares DEF MarkOrder
<1>3. CASE TestOperation(t)
  BY <1>3, StatusShares DEF TestOperation, SameTerms, Made
<1>4. CASE Abort
  BY <1>4, StatusShares DEF Abort, SameTerms, Made
<1>5. CASE EraseOrder(t) /\ ~Abort
  BY <1>5, StatusShares DEF EraseOrder, SameTerms, Made
<1>. QED
  BY <1>1, <1>2, <1>3, <1>4, <1>5, OnCancelBuyOrderShares, OnCancelSellOrderShares
  DEF Cancel

LEMMA StepShares ==
  ASSUME TypeInv, TypeInv', SharesInv, [Next]_vars
  PROVE  SharesMove
<1>1. ASSUME NEW o \in OrderIds,
             DropStale(o) \/ \E market \in Prices : Notify(o, market)
      PROVE  SharesMove
  BY <1>1, StatusShares DEF DropStale, Notify, Made, SameTerms
<1>2. CASE UNCHANGED vars
  BY <1>2, StatusShares DEF vars, Made, SameTerms
<1>. QED
  BY <1>1, <1>2, SubmitOrderShares, MakeADealShares, OnBuyOrderDoneShares,
     OnSellOrderDoneShares, CancelShares
  DEF Next, OnOrderDone

LEMMA SharesStep ==
  ASSUME CallsApart, SharesFit, ~IsPosition(NoPosition)
  PROVE  TypeInv /\ SharesInv /\ [Next]_vars => SharesInv'
<1>. SUFFICES ASSUME TypeInv, SharesInv, [Next]_vars PROVE SharesInv'
  OBVIOUS
<1>1. TypeInv' /\ OnceInv'
  BY TypeStep, OnceStep DEF SharesInv
<1>2. BuysAreRequested' /\ \A g \in Groups : ShareMove(g)
  BY <1>1, StepShares DEF SharesMove
<1>3. \A g \in Groups : Covered(g)'
  BY <1>1, <1>2, CoveredKept
<1>. QED
  BY <1>1, <1>2, <1>3 DEF SharesInv

LEMMA SharesInit == Init => SharesInv
<1>. SUFFICES ASSUME Init PROVE SharesInv
  OBVIOUS
<1>1. \A o \in OrderIds : ~Made(o)
  BY DEF Init, Made, NoOrder
<1>2. ASSUME NEW g \in Groups PROVE Covered(g)
  <2>1. position[g] = NoPosition
    BY DEF Init
  <2>2. \A o \in OrderIds : Offered(g)[o] = 0
    BY <1>1, OfferedIs
  <2>3. IsFiniteSet(OrderIds)
    BY UserAccountAssumption
  <2>4. SharesToSell(g) = 0
    BY <2>2, <2>3, SumOfZeros DEF SharesToSell
  <2>. QED
    BY <2>1, <2>4 DEF Covered
<1>. QED
  BY <1>1, <1>2, OnceInit DEF SharesInv, BuysAreRequested

(* For any threads, groups and orders: no sale takes count_ below zero, the *)
(* automatic ones too, which are made without a look at whether their       *)
(* shares could be delegated -- as long as nobody cancels, or one thread    *)
(* does everything and cancels only what is pending, and while the orders   *)
(* are too few and too small for the 32 bits of count_ and available_.      *)
THEOREM AccountSalesCovered ==
  ASSUME CallsApart, SharesFit, ~IsPosition(NoPosition)
  PROVE  Spec => []SalesCovered
<1>1. Init => TypeInv /\ SharesInv
  BY TypeInit, SharesInit
<1>2. TypeInv /\ SharesInv /\ [Next]_vars => (TypeInv /\ SharesInv)'
  BY TypeStep, SharesStep
<1>3. SharesInv => SalesCovered
  BY DEF SharesInv, Covered, SalesCovered
<1>. QED
  BY <1>1, <1>2, <1>3, PTL DEF Spec

-----------------------------------------------------------------------------
(* The lots of a group next to its total.                                   *)

TradedLot == [id : OrderIds, price : Prices \cup {0}, count : Int]

LotsAgree(g) ==
  position[g] # NoPosition =>
    /\ position[g].lots \in Seq(TradedLot)
    /\ SumsUp(position[g].lots, position[g].count)

LotsAgreeInv == \A g \in Groups : LotsAgree(g)

LEMMA TradedLotKind == LotKind(TradedLot)
<1>1. Prices \subseteq Int /\ 0 \in Int
  BY UserAccountAssumption
<1>. QED
  BY <1>1 DEF LotKind, TradedLot

LEMMA BoughtLotIs ==
  ASSUME NEW o \in OrderIds, order[o] \in OrderType
  PROVE  BoughtLot(o) \in TradedLot /\ BoughtLot(o).count = order[o].num
BY DEF BoughtLot, TradedLot, OrderType

(* What each operation does to the list.                                    *)
LEMMA AddedLots ==
  ASSUME NEW pos, IsPosition(pos), NEW lot
  PROVE  AddLot(pos, lot).lots = Append(pos.lots, lot)
BY DEF AddLot, IsPosition

LEMMA KeptLots ==
  ASSUME NEW pos, IsPosition(pos), NEW n \in Nat
  PROVE  /\ Delegate(pos, n).lots = pos.lots
         /\ OnOrderCancel(pos, n).lots = pos.lots /\ OnOrderCancel(pos, n).count = pos.count
BY DEF Delegate, OnOrderCancel, IsPosition

LEMMA SoldLots ==
  ASSUME NEW pos, IsPosition(pos), NEW n \in Nat
  PROVE  OnSaleDone(pos, n).lots = ClearedLots(SellLots(SortedLots(pos.lots), n))
BY DEF OnSaleDone, IsPosition

LEMMA LotsAgreeKept ==
  ASSUME SharesFit, TypeInv, TypeInv', SharesInv, BuysAreRequested', ~IsPosition(NoPosition),
         NEW g \in Groups, ShareMove(g), LotsAgree(g)
  PROVE  LotsAgree(g)'
<1>1. /\ SharesToSell(g) \in Nat /\ SharesBought(g) \in Nat /\ SharesBought(g)' < UintMod
  BY ShareTypes, BoughtFitsNext DEF SharesTyped, BoughtBelow
<1>2. position[g] # NoPosition =>
        /\ IsPosition(position[g])
        /\ position[g].count \in Nat /\ position[g].available \in Nat
        /\ position[g].available + SharesToSell(g) <= position[g].count
        /\ position[g].count <= SharesBought(g)
        /\ position[g].lots \in Seq(TradedLot)
        /\ SumsUp(position[g].lots, position[g].count)
  BY UintModAssumption DEF TypeInv, TypeOK, IsPosition, Uint, SharesInv, Covered, LotsAgree
<1>3. CASE NoShares(g)
  BY <1>2, <1>3 DEF NoShares, LotsAgree
<1>4. ASSUME NEW n \in Nat, Delegated(g, n) PROVE LotsAgree(g)'
  <2>1. position'[g].count = position[g].count /\ position'[g].lots = position[g].lots
    BY <1>2, <1>4, DelegateCounts, KeptLots DEF Delegated
  <2>. QED
    BY <1>2, <1>4, <2>1 DEF Delegated, LotsAgree
<1>5. ASSUME NEW n \in Nat, SharesReturned(g, n) PROVE LotsAgree(g)'
  <2>0. position[g] # NoPosition /\ position'[g] = OnOrderCancel(position[g], n)
    BY <1>5 DEF SharesReturned
  <2>1. position'[g].count = position[g].count /\ position'[g].lots = position[g].lots
    BY <1>2, <2>0, KeptLots
  <2>. QED
    BY <1>2, <2>0, <2>1 DEF LotsAgree
<1>6. ASSUME NEW n \in Nat, SharesSold(g, n) PROVE LotsAgree(g)'
  <2>. DEFINE pos == position[g]
              left == ClearedLots(SellLots(SortedLots(pos.lots), n))
  <2>1. /\ pos # NoPosition /\ n <= pos.count /\ position'[g] = OnSaleDone(pos, n)
    BY <1>1, <1>2, <1>6 DEF SharesSold
  <2>2. position'[g].count = pos.count - n /\ position'[g].lots = left
    BY <1>2, <2>1, SoldCounts, SoldLots
  <2>3. pos.lots = <<>> => n = 0
    <3>1. pos.lots = <<>> => pos.count = 0
      BY <1>2, <2>1, EmptySumsUp
    <3>. QED
      BY <2>1, <3>1
  <2>4. pos.lots \in Seq(TradedLot) /\ pos.count \in Int /\ SumsUp(pos.lots, pos.count)
    BY <1>2, <2>1
  <2>5. left \in Seq(TradedLot) /\ SumsUp(left, pos.count - n)
    <3>. HIDE DEF pos
    <3>. QED
      BY <2>3, <2>4, TradedLotKind, SaleSumsUp
  <2>. HIDE DEF left, pos
  <2>. QED
    BY <2>2, <2>5 DEF LotsAgree
<1>7. ASSUME NEW o \in OrderIds, order[o] \in OrderType, order[o].num \in Nat,
             LotAdded(g, BoughtLot(o)) \/ LotOffered(g, BoughtLot(o))
      PROVE  LotsAgree(g)'
  <2>. DEFINE lot == BoughtLot(o)
              pos == PositionOf(g)
              held == AddLot(pos, lot)
  <2>1. lot \in TradedLot /\ lot.count = order[o].num
    BY <1>7, BoughtLotIs
  <2>2. lot.count \in Nat /\ lot.count \in Int
    BY <1>7, <2>1
  <2>3. /\ IsPosition(pos) /\ pos.count \in Nat /\ pos.count <= SharesBought(g)
        /\ pos.lots \in Seq(TradedLot) /\ SumsUp(pos.lots, pos.count)
    <3>1. CASE position[g] = NoPosition
      <4>1. /\ IsPosition(EmptyPosition) /\ EmptyPosition.count = 0
            /\ EmptyPosition.lots = <<>>
        BY EmptyPositionType DEF EmptyPosition
      <4>2. SumsUp(<<>>, 0) /\ <<>> \in Seq(TradedLot)
        BY EmptySumsUp
      <4>3. pos = EmptyPosition
        BY <3>1 DEF PositionOf
      <4>. HIDE DEF pos
      <4>4. pos.count = 0 /\ pos.lots = <<>>
        BY <4>1, <4>3
      <4>5. SumsUp(pos.lots, pos.count) /\ pos.lots \in Seq(TradedLot)
        BY ONLY <4>2, <4>4
      <4>6. IsPosition(pos)
        BY ONLY <4>1, <4>3
      <4>7. pos.count \in Nat /\ pos.count <= SharesBought(g)
        BY <1>1, <4>4
      <4>. QED
        BY <4>5, <4>6, <4>7
    <3>2. CASE position[g] # NoPosition
      BY <1>2, <3>2 DEF PositionOf
    <3>. QED
      BY <3>1, <3>2
  <2>4. LotAdded(g, lot) \/ LotOffered(g, lot)
    BY <1>7
  <2>. HIDE DEF lot, pos
  <2>5. SharesBought(g)' = SharesBought(g) + lot.count
    BY <2>4 DEF LotAdded, LotOffered
  <2>6. /\ IsPosition(held) /\ held.count = pos.count + lot.count
        /\ held.lots = Append(pos.lots, lot)
    <3>1. pos.count + lot.count < UintMod
      BY <1>1, <2>2, <2>3, <2>5, UintModAssumption
    <3>. QED
      BY <2>2, <2>3, <3>1, AddLotCount, AddLotType, AddedLots
  <2>7. Append(pos.lots, lot) \in Seq(TradedLot)
    BY <2>1, <2>3, AppendProperties
  <2>8. SumsUp(Append(pos.lots, lot), pos.count + lot.count)
    BY <2>1, <2>3, TradedLotKind, AppendSumsUp
  <2>. HIDE DEF held
  <2>9. position'[g].count = held.count /\ position'[g].lots = held.lots
    <3>1. position'[g] = held \/ position'[g] = Delegate(held, lot.count)
      BY <2>4 DEF LotAdded, LotOffered, held, pos
    <3>. QED
      BY <2>2, <2>6, <3>1, DelegateCounts, KeptLots
  <2>. QED
    BY <2>6, <2>7, <2>8, <2>9 DEF LotsAgree
<1>. QED
  BY <1>3, <1>4, <1>5, <1>6, <1>7 DEF ShareMove

LEMMA LotsAgreeStep ==
  ASSUME CallsApart, SharesFit, ~IsPosition(NoPosition)
  PROVE  TypeInv /\ SharesInv /\ LotsAgreeInv /\ [Next]_vars => LotsAgreeInv'
<1>. SUFFICES ASSUME TypeInv, SharesInv, LotsAgreeInv, [Next]_vars PROVE LotsAgreeInv'
  OBVIOUS
<1>1. TypeInv' /\ BuysAreRequested' /\ \A g \in Groups : ShareMove(g)
  BY TypeStep, StepShares DEF SharesMove
<1>2. ASSUME NEW g \in Groups PROVE LotsAgree(g)'
  BY <1>1, LotsAgreeKept DEF LotsAgreeInv
<1>. QED
  BY <1>2 DEF LotsAgreeInv

(* A deal that empties h in OnSellOrderDone is a sale of no shares.         *)
ThrowsForNothing ==
  \A t \in Threads :
    (/\ crashed' /\ ~crashed
     /\ pc[t] = "done" /\ pc'[t] = "idle"
     /\ order[cur[t][1]].op = "SELL")
    => order[cur[t][1]].num = 0

LEMMA ThrowsForNothingStep ==
  ASSUME TypeInv, SharesInv, LotsAgreeInv, [Next]_vars
  PROVE  ThrowsForNothing
<1>. SUFFICES ASSUME NEW t \in Threads, crashed' /\ ~crashed,
                     pc[t] = "done" /\ pc'[t] = "idle",
                     order[cur[t][1]].op = "SELL"
              PROVE  order[cur[t][1]].num = 0
  BY DEF ThrowsForNothing
<1>1. \E u \in Threads : OnOrderDone(u)
  <2>1. ASSUME NEW u \in Threads, SubmitOrder(u) PROVE crashed' = crashed
    <3>1. ReturnLocked(u) => crashed' = crashed
      BY DEF ReturnLocked
    <3>2. \A new, market : PushOrder(u, new, market) => crashed' = crashed
      BY DEF PushOrder
    <3>3. \A g \in Groups, price \in Prices, num \in Nums, market \in Prices,
             expected \in Prices \cup {0} :
            SubmitBuy(u, g, price, num, expected, market) => crashed' = crashed
      BY <3>1, <3>2 DEF SubmitBuy
    <3>4. \A g \in Groups, price \in Prices, num \in Nums, market \in Prices :
            SubmitSell(u, g, price, num, market) => crashed' = crashed
      BY <3>1, <3>2 DEF SubmitSell
    <3>. QED
      BY <2>1, <3>1, <3>3, <3>4
      DEF SubmitOrder, SubmitRejected, SubmitBuyRefused, SubmitSellRefused
  <2>2. ASSUME NEW u \in Threads, MakeADeal(u) \/ Cancel(u)
        PROVE  crashed' = crashed \/ pc' = pc
    BY <2>2 DEF MakeADeal, Cancel, OnCancelOrder, MarkOrder, TestOperation, Abort,
       OnCancelBuyOrder, OnCancelSellOrder, CancelDone, EraseOrder
  <2>3. ASSUME NEW o \in OrderIds, DropStale(o) \/ \E market \in Prices : Notify(o, market)
        PROVE  crashed' = crashed
    BY <2>3 DEF DropStale, Notify
  <2>4. ~UNCHANGED vars
    BY DEF vars
  <2>. QED
    BY <2>1, <2>2, <2>3, <2>4 DEF Next
<1>2. PICK u \in Threads : OnBuyOrderDone(u) \/ OnSellOrderDone(u)
  BY <1>1 DEF OnOrderDone
<1>3. pc' = [pc EXCEPT ![u] = "idle"]
  BY <1>2 DEF OnBuyOrderDone, OnSellOrderDone, Finish, Goto
<1>4. u = t
  BY <1>3 DEF TypeInv, TypeOK
<1>5. OnSellOrderDone(t)
  BY <1>2, <1>4 DEF OnBuyOrderDone
<1>6. PICK o \in OrderIds : o = cur[t][1]
  BY <1>5, CurrentOrder DEF OnSellOrderDone, At
<1>7. /\ order[o] \in OrderType /\ Made(o) /\ order[o].op = "SELL" /\ released[o] = 0
  BY <1>5, <1>6, CurrentOrder DEF OnSellOrderDone, At, SharesInv, OnceInv, WorkIsUnsettled
<1>8. PICK g \in Groups, n \in Nat : g = order[o].group /\ n = order[o].num
  BY <1>7, OrderNumbers
<1>9. position[g] # NoPosition /\ position[g].lots = <<>>
  BY <1>5, <1>6, <1>7, <1>8 DEF OnSellOrderDone
<1>10. released' = [released EXCEPT ![o] = @ + 1] /\ UNCHANGED order
  BY <1>5, <1>6 DEF OnSellOrderDone, Finish
<1>11. n <= SharesToSell(g)
  <2>1. TypeInv'
    BY TypeStep
  <2>. QED
    BY <1>7, <1>8, <1>10, <2>1, SellSettled
<1>12. position[g].count = 0
  BY <1>9, EmptySumsUp DEF LotsAgreeInv, LotsAgree
<1>13. /\ position[g].available \in Nat /\ SharesToSell(g) \in Nat
       /\ position[g].available + SharesToSell(g) <= position[g].count
  BY <1>9, ShareTypes, UintModAssumption
  DEF TypeInv, TypeOK, IsPosition, Uint, SharesTyped, SharesInv, Covered
<1>14. n = 0
  BY <1>11, <1>12, <1>13
<1>. QED
  BY <1>6, <1>8, <1>14

(* Whenever the deal of a sale ends the process, because OnSellOrderDone    *)
(* finds no lots and erases the last character of an empty text, the sale   *)
(* was of no shares: a request cut down to nothing.  Lots and total of a    *)
(* position agree until some lot is below zero, and such a lot is never     *)
(* cleared; so a list without lots is one without shares.  Under the        *)
(* conditions of AccountSalesCovered.                                      *)
THEOREM AccountOnlyEmptySalesThrow ==
  ASSUME CallsApart, SharesFit, ~IsPosition(NoPosition)
  PROVE  Spec => OnlyEmptySalesThrow
<1>1. Init => TypeInv /\ SharesInv /\ LotsAgreeInv
  BY TypeInit, SharesInit DEF Init, LotsAgreeInv, LotsAgree
<1>2. TypeInv /\ SharesInv /\ LotsAgreeInv /\ [Next]_vars
        => (TypeInv /\ SharesInv /\ LotsAgreeInv)'
  BY TypeStep, SharesStep, LotsAgreeStep
<1>3. TypeInv /\ SharesInv /\ LotsAgreeInv /\ [Next]_vars => [ThrowsForNothing]_vars
  BY ThrowsForNothingStep
<1>. QED
  BY <1>1, <1>2, <1>3, PTL DEF Spec, OnlyEmptySalesThrow, ThrowsForNothing
=============================================================================
