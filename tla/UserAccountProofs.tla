------------------------- MODULE UserAccountProofs -------------------------
(***************************************************************************)
(* Theorems about UserAccount for every number of threads, groups, orders   *)
(* and every set of prices and numbers of shares: types, a user is never in *)
(* debt, and when no order is settled twice.                                *)
(***************************************************************************)
EXTENDS UserAccount, StockPositionProofs

-----------------------------------------------------------------------------
(* The charges.                                                            *)

(* ROUND_COMMISSION yields a natural number and grows with the turnover.    *)
LEMMA RoundCommissionType ==
  ASSUME NEW x \in Nat
  PROVE  RoundCommission(x) \in Nat
BY DEF RoundCommission

LEMMA RoundCommissionMonotone ==
  ASSUME NEW x \in Nat, NEW y \in Nat, x <= y
  PROVE  RoundCommission(x) <= RoundCommission(y)
BY DEF RoundCommission

(* TRANSFER_FEE of a natural number of shares is a natural number.          *)
LEMMA TransferFeeType ==
  ASSUME NEW n \in Nat
  PROVE  TransferFee(n) \in Nat
BY DEF TransferFee

LEMMA TurnoverType ==
  ASSUME NEW p \in Nat, NEW n \in Nat
  PROVE  p * n \in Nat
OBVIOUS

LEMMA TurnoverMonotone ==
  ASSUME NEW p \in Nat, NEW q \in Nat, NEW n \in Nat, p <= q
  PROVE  p * n <= q * n
<1>1. PICK d \in Nat : q = p + d
  <2>1. q - p \in Nat /\ q = p + (q - p)
    OBVIOUS
  <2>. QED
    BY <2>1
<1>2. q * n = p * n + d * n
  BY <1>1
<1>3. d * n \in Nat /\ p * n \in Nat
  BY TurnoverType
<1>. QED
  BY <1>2, <1>3

(* What a purchase costs is a natural number ...                            *)
LEMMA BuyCostType ==
  ASSUME NEW p \in Nat, NEW n \in Nat
  PROVE  BuyCost(p, n) \in Nat
<1>1. p * n \in Nat
  BY TurnoverType
<1>2. RoundCommission(p * n) \in Nat /\ TransferFee(n) \in Nat
  BY <1>1, RoundCommissionType, TransferFeeType
<1>. QED
  BY <1>1, <1>2 DEF BuyCost

(* ... and a purchase at a lower price never costs more.                    *)
LEMMA BuyCostMonotone ==
  ASSUME NEW p \in Nat, NEW q \in Nat, NEW n \in Nat, p <= q
  PROVE  BuyCost(p, n) <= BuyCost(q, n)
<1>1. p * n \in Nat /\ q * n \in Nat /\ p * n <= q * n
  BY TurnoverType, TurnoverMonotone
<1>2. RoundCommission(p * n) <= RoundCommission(q * n)
  BY <1>1, RoundCommissionMonotone
<1>3. /\ RoundCommission(p * n) \in Nat /\ RoundCommission(q * n) \in Nat
      /\ TransferFee(n) \in Nat
  BY <1>1, RoundCommissionType, TransferFeeType
<1>. QED
  BY <1>1, <1>2, <1>3 DEF BuyCost

LEMMA SaleProceedsType ==
  ASSUME NEW p \in Nat, NEW n \in Nat
  PROVE  SaleProceeds(p, n) \in Int
<1>1. p * n \in Nat
  BY TurnoverType
<1>2. /\ RoundCommission(p * n) \in Nat /\ TransferFee(n) \in Nat
      /\ StampDuty(p * n) \in Int
  BY <1>1, RoundCommissionType, TransferFeeType DEF StampDuty
<1>. QED
  BY <1>1, <1>2 DEF SaleProceeds

(* From a price of 6 on the charges of a sale never exceed its turnover,    *)
(* however few shares it is of.                                            *)
LEMMA SaleProceedsPositive ==
  ASSUME NEW p \in Nat, NEW n \in Nat, p >= 6
  PROVE  SaleProceeds(p, n) >= 0
<1>. DEFINE x == p * n
<1>1. x \in Nat /\ 6 * n <= x
  BY TurnoverType, TurnoverMonotone
<1>. HIDE DEF x
<1>2. CASE n = 0
  <2>1. x = 0
    BY <1>2 DEF x
  <2>2. SaleProceeds(p, n) = 0
    BY <1>2, <2>1 DEF SaleProceeds, RoundCommission, StampDuty, TransferFee, x
  <2>. QED
    BY <2>2
<1>3. CASE n >= 1
  <2>. DEFINE c == (3 * x + 4999) \div 1000
              s == x \div 1000
              f == (n + 999) \div 1000
  <2>1. /\ c \in Nat /\ s \in Nat /\ f \in Nat
        /\ 1000 * c <= 3 * x + 4999 /\ 1000 * s <= x /\ 1000 * f <= n + 999
    BY <1>1
  <2>2. (c \div 5) * 5 <= c
    BY <2>1
  <2>. HIDE DEF c, s, f
  <2>3. x - s - f - (c \div 5) * 5 >= 0
    BY <1>1, <1>3, <2>1, <2>2
  <2>4. x - s - (c \div 5) * 5 >= 0
    BY <1>1, <1>3, <2>1, <2>2
  <2>. QED
    BY <2>3, <2>4, <1>1
    DEF SaleProceeds, RoundCommission, StampDuty, TransferFee, x, c, s, f
<1>. QED
  BY <1>2, <1>3

-----------------------------------------------------------------------------
(* The operations of a position keep its two counts in range.               *)

LEMMA UintRemainder ==
  ASSUME NEW x \in Int
  PROVE  x % UintMod \in Uint
BY UintModAssumption DEF Uint

LEMMA EmptyPositionType == IsPosition(EmptyPosition)
BY UintModAssumption DEF IsPosition, EmptyPosition, Uint

LEMMA AddLotType ==
  ASSUME NEW pos, IsPosition(pos), NEW lot, lot.count \in Int
  PROVE  IsPosition(AddLot(pos, lot))
<1>1. pos.count + lot.count \in Int
  BY DEF IsPosition, Uint
<1>. QED
  BY <1>1, UintRemainder DEF IsPosition, AddLot

LEMMA DelegateType ==
  ASSUME NEW pos, IsPosition(pos), NEW n \in Nat
  PROVE  IsPosition(Delegate(pos, n))
<1>1. CASE CanDelegate(pos, n)
  <2>1. pos.available - n \in Uint
    BY <1>1, UintModAssumption DEF IsPosition, CanDelegate, Uint
  <2>. QED
    BY <1>1, <2>1 DEF IsPosition, Delegate
<1>2. CASE ~CanDelegate(pos, n)
  BY <1>2 DEF Delegate
<1>. QED
  BY <1>1, <1>2

LEMMA OnOrderCancelType ==
  ASSUME NEW pos, IsPosition(pos), NEW n \in Nat
  PROVE  IsPosition(OnOrderCancel(pos, n))
<1>1. pos.available + n \in Int
  BY DEF IsPosition, Uint
<1>. QED
  BY <1>1, UintRemainder DEF IsPosition, OnOrderCancel

LEMMA OnSaleDoneType ==
  ASSUME NEW pos, IsPosition(pos), NEW n \in Nat
  PROVE  IsPosition(OnSaleDone(pos, n))
<1>1. pos.count - n \in Int
  BY DEF IsPosition, Uint
<1>. QED
  BY <1>1, UintRemainder DEF IsPosition, OnSaleDone

-----------------------------------------------------------------------------
(* Types.  A thread works on, and order_list_ holds, orders that exist:     *)
(* without that, the fields of the current order would have no types.       *)

WorkIsMade == \A t \in Threads : pc[t] # "idle" => Made(cur[t][1])

ListIsMade == \A o \in orderList : Made(o)

TypeInv == TypeOK /\ WorkIsMade /\ ListIsMade

LEMMA OrderFields ==
  ASSUME TypeOK, NEW o \in OrderIds, Made(o)
  PROVE  order[o] \in OrderType
BY DEF TypeOK, Made, NoOrder

LEMMA OrderNumbers ==
  ASSUME NEW r \in OrderType
  PROVE  /\ r.group \in Groups /\ r.price \in Nat /\ r.num \in Nat
         /\ r.frozen \in Nat /\ r.deal \in Nat
         /\ r.expected # 0 => r.expected \in Prices
<1>1. /\ r.group \in Groups /\ r.price \in Prices /\ r.num \in Nat
      /\ r.frozen \in Nat /\ r.deal \in Prices \cup {0}
      /\ r.expected \in Prices \cup {0}
  BY DEF OrderType
<1>2. Prices \subseteq Nat /\ Prices \cup {0} \subseteq Nat
  BY UserAccountAssumption
<1>3. r.price \in Nat
  BY <1>1, <1>2
<1>4. r.deal \in Nat
  BY <1>1, <1>2
<1>5. r.expected # 0 => r.expected \in Prices
  BY <1>1
<1>. QED
  BY <1>1, <1>3, <1>4, <1>5

LEMMA MadeStays ==
  ASSUME TypeOK, NEW o \in OrderIds, Made(o), NEW new,
         order' = [order EXCEPT ![o] = new], new.status # "NONE"
  PROVE  \A p \in OrderIds : Made(p) => Made(p)'
BY DEF TypeOK, Made

LEMMA NewOrderType ==
  ASSUME NEW op \in {"BUY", "SELL"}, NEW g \in Groups, NEW price \in Prices,
         NEW num \in Nat, NEW expected \in Prices \cup {0}, NEW money \in Nat
  PROVE  /\ NewOrder(op, g, price, num, expected, money) \in OrderType
         /\ NewOrder(op, g, price, num, expected, money).status = "PENDING"
BY DEF NewOrder, OrderType

LEMMA ReturnLockedType ==
  ASSUME TypeInv, NEW t \in Threads, ReturnLocked(t),
         available' \in Int, frozen' \in Int, lost' \in Nat,
         position' = [g \in Groups |-> position'[g]],
         \A g \in Groups : position'[g] = NoPosition \/ IsPosition(position'[g]),
         dbErrors' \in 0 .. MaxDbErrors
  PROVE  TypeInv'
<1>1. TypeOK'
  BY DEF TypeInv, TypeOK, ReturnLocked, IsPosition, Uint
<1>2. WorkIsMade' /\ ListIsMade'
  BY DEF TypeInv, WorkIsMade, ListIsMade, Made, ReturnLocked
<1>. QED
  BY <1>1, <1>2 DEF TypeInv

LEMMA PushOrderType ==
  ASSUME TypeInv, NEW t \in Threads, NEW new \in OrderType, NEW market \in Prices,
         new.status = "PENDING", PushOrder(t, new, market),
         available' \in Int, frozen' \in Int,
         position' = [g \in Groups |-> position'[g]],
         \A g \in Groups : position'[g] = NoPosition \/ IsPosition(position'[g])
  PROVE  TypeInv'
<1>1. PICK o \in Fresh :
        /\ order' = [order EXCEPT ![o] = new]
        /\ orderList' = orderList \cup {o}
        /\ Watch(o, CanDeal(new.op, new.price, market))
        /\ \/ Goto(t, "deal") /\ cur' = [cur EXCEPT ![t] = <<o, market>>]
           \/ UNCHANGED <<pc, cur>>
        /\ UNCHANGED <<shifted, lockLeak, released, lost, dbErrors, crashed>>
  BY DEF PushOrder, NextId
<1>2. o \in OrderIds
  BY DEF Fresh
<1>3. observers' \subseteq OrderIds
  BY <1>1, <1>2 DEF Watch, TypeInv, TypeOK
<1>4. /\ pc' \in [Threads -> Steps] /\ cur' \in [Threads -> Work \cup {<<>>}]
      /\ \A u \in Threads : pc'[u] # "idle" => cur'[u] \in Work
  <2>1. <<o, market>> \in Work /\ "deal" \in Steps
    BY <1>2 DEF Work, Steps
  <2>2. CASE Goto(t, "deal") /\ cur' = [cur EXCEPT ![t] = <<o, market>>]
    BY <2>1, <2>2 DEF Goto, TypeInv, TypeOK
  <2>3. CASE UNCHANGED <<pc, cur>>
    BY <2>3 DEF TypeInv, TypeOK
  <2>. QED
    BY <1>1, <2>2, <2>3
<1>5. TypeOK'
  BY <1>1, <1>2, <1>3, <1>4 DEF TypeInv, TypeOK, IsPosition, Uint
<1>6. \A p \in OrderIds : Made(p) \/ p = o => Made(p)'
  BY <1>1, <1>2 DEF TypeInv, TypeOK, Made
<1>7. \A u \in Threads : pc'[u] # "idle" =>
        \/ cur'[u] = cur[u] /\ pc[u] # "idle"
        \/ cur'[u] = <<o, market>>
  BY <1>1 DEF Goto, TypeInv, TypeOK
<1>8. WorkIsMade' /\ ListIsMade'
  BY <1>1, <1>2, <1>6, <1>7 DEF TypeInv, TypeOK, WorkIsMade, ListIsMade, Work
<1>. QED
  BY <1>5, <1>8 DEF TypeInv

LEMMA TypeInit == Init => TypeInv
<1>. SUFFICES ASSUME Init PROVE TypeInv
  OBVIOUS
<1>1. pc \in [Threads -> Steps] /\ \A t \in Threads : pc[t] = "idle"
  BY DEF Init, Steps
<1>2. order \in [OrderIds -> OrderType \cup {NoOrder}]
  BY DEF Init
<1>3. /\ position = [g \in Groups |-> position[g]]
      /\ \A g \in Groups : position[g] = NoPosition
  BY DEF Init
<1>4. cur \in [Threads -> Work \cup {<<>>}] /\ released \in [OrderIds -> Nat]
  BY DEF Init
<1>5. /\ available \in Int /\ frozen \in Int /\ lost \in Nat
      /\ dbErrors \in 0 .. MaxDbErrors
  BY UserAccountAssumption DEF Init
<1>6. TypeOK
  BY <1>1, <1>2, <1>3, <1>4, <1>5 DEF Init, TypeOK
<1>. QED
  BY <1>1, <1>6 DEF Init, TypeInv, WorkIsMade, ListIsMade

LEMMA SubmitOrderType ==
  ASSUME TypeInv, NEW t \in Threads, SubmitOrder(t)
  PROVE  TypeInv'
<1>. USE DEF TypeInv
<1>1. CASE SubmitRejected(t)
  BY <1>1, ReturnLockedType DEF SubmitRejected, TypeOK
<1>2. CASE \E g \in Groups : SubmitSellRefused(t, g)
  BY <1>2, ReturnLockedType DEF SubmitSellRefused, TypeOK
<1>3. CASE \E price \in Prices, num \in Nums : SubmitBuyRefused(t, price, num)
  BY <1>3, ReturnLockedType DEF SubmitBuyRefused, TypeOK
<1>4. ASSUME NEW g \in Groups, NEW price \in Prices, NEW num \in Nums,
             NEW market \in Prices, NEW expected \in Prices \cup {0},
             SubmitBuy(t, g, price, num, expected, market)
      PROVE  TypeInv'
  <2>. DEFINE need == BuyCost(price, num)
  <2>1. need \in Nat
    BY BuyCostType, UserAccountAssumption
  <2>. HIDE DEF need
  <2>2. /\ available' \in Int /\ frozen' \in Int /\ UNCHANGED position
        /\ position' = [h \in Groups |-> position'[h]]
        /\ \A h \in Groups : position'[h] = NoPosition \/ IsPosition(position'[h])
    BY <1>4, <2>1 DEF SubmitBuy, Freeze, TypeOK, need
  <2>3. CASE DbError /\ lost' = lost + need /\ ReturnLocked(t)
    <3>1. lost' \in Nat /\ dbErrors' \in 0 .. MaxDbErrors
      BY <2>1, <2>3, UserAccountAssumption DEF DbError, TypeOK
    <3>. QED
      BY <2>2, <2>3, <3>1, ReturnLockedType
  <2>4. CASE PushOrder(t, NewOrder("BUY", g, price, num, expected, need), market)
    <3>1. num \in Nat
      BY UserAccountAssumption
    <3>2. /\ NewOrder("BUY", g, price, num, expected, need) \in OrderType
          /\ NewOrder("BUY", g, price, num, expected, need).status = "PENDING"
      BY <2>1, <3>1, NewOrderType
    <3>. QED
      BY <2>2, <2>4, <3>2, PushOrderType
  <2>. QED
    BY <1>4, <2>3, <2>4 DEF SubmitBuy, need
<1>5. ASSUME NEW g \in Groups, NEW price \in Prices, NEW num \in Nums,
             NEW market \in Prices, SubmitSell(t, g, price, num, market)
      PROVE  TypeInv'
  <2>. DEFINE n == IF CanDelegate(position[g], num) THEN num ELSE position[g].available
  <2>1. IsPosition(position[g]) /\ n \in Nat
    BY <1>5, UserAccountAssumption, UintModAssumption
    DEF SubmitSell, TypeOK, IsPosition, Uint
  <2>. HIDE DEF n
  <2>2. /\ UNCHANGED <<available, frozen>>
        /\ position' = [position EXCEPT ![g] = Delegate(position[g], n)]
        /\ \/ DbError /\ ReturnLocked(t) /\ UNCHANGED lost
           \/ PushOrder(t, NewOrder("SELL", g, price, n, 0, 0), market)
    BY <1>5 DEF SubmitSell, n
  <2>3. IsPosition(Delegate(position[g], n))
    BY <2>1, DelegateType
  <2>4. /\ position' = [h \in Groups |-> position'[h]]
        /\ \A h \in Groups : position'[h] = NoPosition \/ IsPosition(position'[h])
    BY <2>2, <2>3 DEF TypeOK
  <2>5. CASE DbError /\ ReturnLocked(t) /\ UNCHANGED lost
    <3>1. dbErrors' \in 0 .. MaxDbErrors
      BY <2>5, UserAccountAssumption DEF DbError, TypeOK
    <3>. QED
      BY <2>2, <2>4, <2>5, <3>1, ReturnLockedType DEF TypeOK
  <2>6. CASE PushOrder(t, NewOrder("SELL", g, price, n, 0, 0), market)
    <3>1. /\ NewOrder("SELL", g, price, n, 0, 0) \in OrderType
          /\ NewOrder("SELL", g, price, n, 0, 0).status = "PENDING"
      BY <2>1, NewOrderType
    <3>. QED
      BY <2>2, <2>4, <2>6, <3>1, PushOrderType DEF TypeOK
  <2>. QED
    BY <2>2, <2>5, <2>6
<1>. QED
  BY <1>1, <1>2, <1>3, <1>4, <1>5 DEF SubmitOrder

LEMMA DropStaleType ==
  ASSUME TypeInv, NEW o \in OrderIds, DropStale(o)
  PROVE  TypeInv'
<1>1. TypeOK'
  BY DEF DropStale, TypeInv, TypeOK, IsPosition, Uint
<1>. QED
  BY <1>1 DEF DropStale, TypeInv, WorkIsMade, ListIsMade, Made

LEMMA NotifyType ==
  ASSUME TypeInv, NEW o \in OrderIds, NEW market \in Prices, Notify(o, market)
  PROVE  TypeInv'
<1>1. /\ Notifier \in Threads /\ <<o, market>> \in Work /\ "deal" \in Steps
      /\ Made(o)
  BY UserAccountAssumption DEF Work, Steps, Notify, TypeInv, ListIsMade
<1>2. /\ pc' \in [Threads -> Steps] /\ cur' \in [Threads -> Work \cup {<<>>}]
      /\ \A u \in Threads : pc'[u] # "idle" => cur'[u] \in Work
  BY <1>1 DEF Notify, Goto, TypeInv, TypeOK
<1>3. TypeOK'
  BY <1>2 DEF Notify, TypeInv, TypeOK, IsPosition, Uint
<1>4. \A u \in Threads : pc'[u] # "idle" =>
        \/ cur'[u] = cur[u] /\ pc[u] # "idle"
        \/ cur'[u] = <<o, market>>
  BY DEF Notify, Goto, TypeInv, TypeOK
<1>5. WorkIsMade' /\ ListIsMade'
  BY <1>1, <1>4 DEF Notify, TypeInv, WorkIsMade, ListIsMade, Made
<1>. QED
  BY <1>3, <1>5 DEF TypeInv

(* The order a thread works on is a full record.                            *)
LEMMA CurrentOrder ==
  ASSUME TypeInv, NEW t \in Threads, pc[t] # "idle"
  PROVE  /\ cur[t] \in Work
         /\ cur[t][1] \in OrderIds
         /\ cur[t][2] \in Prices \cup {0}
         /\ order[cur[t][1]] \in OrderType
         /\ Made(cur[t][1])
<1>1. cur[t] \in Work /\ Made(cur[t][1])
  BY DEF TypeInv, TypeOK, WorkIsMade
<1>2. cur[t][1] \in OrderIds /\ cur[t][2] \in Prices \cup {0}
  BY <1>1 DEF Work
<1>. QED
  BY <1>1, <1>2, OrderFields DEF TypeInv

LEMMA MakeADealType ==
  ASSUME TypeInv, NEW t \in Threads, MakeADeal(t)
  PROVE  TypeInv'
<1>. DEFINE o == cur[t][1]
            dealt == [order[o] EXCEPT !.status = "FINISHED", !.deal = cur[t][2]]
<1>1. /\ o \in OrderIds /\ cur[t][2] \in Prices \cup {0}
      /\ order[o] \in OrderType /\ cur[t] \in Work
  BY CurrentOrder DEF MakeADeal, At
<1>2. dealt \in OrderType /\ dealt.status = "FINISHED"
  BY <1>1 DEF OrderType
<1>3. order' = [order EXCEPT ![o] = dealt]
  BY <1>1 DEF MakeADeal, TypeInv, TypeOK
<1>. HIDE DEF dealt
<1>4. /\ order' \in [OrderIds -> OrderType \cup {NoOrder}]
      /\ \A p \in OrderIds : Made(p) => Made(p)'
  BY <1>1, <1>2, <1>3 DEF TypeInv, TypeOK, Made
<1>5. /\ pc' \in [Threads -> Steps]
      /\ \A u \in Threads : pc'[u] # "idle" => pc[u] # "idle"
  BY DEF MakeADeal, At, Goto, TypeInv, TypeOK, Steps
<1>6. TypeOK'
  BY <1>4, <1>5 DEF MakeADeal, TypeInv, TypeOK, IsPosition, Uint
<1>7. \A u \in Threads : pc'[u] # "idle" => order'[cur[u][1]].status # "NONE"
  <2>1. \A u \in Threads :
          pc[u] # "idle" => cur[u][1] \in OrderIds /\ Made(cur[u][1])
    BY CurrentOrder
  <2>. QED
    BY <1>4, <1>5, <2>1 DEF Made
<1>8. WorkIsMade'
  BY <1>7 DEF MakeADeal, WorkIsMade, Made
<1>9. ListIsMade'
  BY <1>4 DEF MakeADeal, TypeInv, TypeOK, ListIsMade
<1>. QED
  BY <1>6, <1>8, <1>9 DEF TypeInv

LEMMA FinishType ==
  ASSUME TypeInv, NEW t \in Threads, NEW o \in OrderIds, Finish(t, o),
         \A p \in OrderIds : Made(p) => Made(p)'
  PROVE  /\ pc' \in [Threads -> Steps]
         /\ cur' \in [Threads -> Work \cup {<<>>}]
         /\ \A u \in Threads : pc'[u] # "idle" => cur'[u] \in Work
         /\ released' \in [OrderIds -> Nat]
         /\ WorkIsMade'
<1>1. "idle" \in Steps
  BY DEF Steps
<1>2. /\ pc' \in [Threads -> Steps]
      /\ cur' \in [Threads -> Work \cup {<<>>}]
      /\ \A u \in Threads :
           pc'[u] # "idle" => pc[u] # "idle" /\ cur'[u] = cur[u]
  BY <1>1 DEF Finish, Goto, TypeInv, TypeOK
<1>3. released' \in [OrderIds -> Nat]
  BY DEF Finish, TypeInv, TypeOK
<1>4. \A u \in Threads :
        pc'[u] # "idle" => /\ cur'[u] \in Work
                           /\ cur'[u][1] = cur[u][1]
                           /\ cur[u][1] \in OrderIds
                           /\ Made(cur[u][1])
  BY <1>2, CurrentOrder
<1>5. WorkIsMade'
  BY <1>4 DEF WorkIsMade, Made
<1>. QED
  BY <1>2, <1>3, <1>4, <1>5

LEMMA OnBuyOrderDoneType ==
  ASSUME TypeInv, NEW t \in Threads, OnBuyOrderDone(t)
  PROVE  TypeInv'
<1>. DEFINE o == cur[t][1]
            g == order[o].group
            lot == AddLot(PositionOf(g), BoughtLot(o))
<1>1. o \in OrderIds /\ order[o] \in OrderType /\ Made(o)
  BY CurrentOrder DEF OnBuyOrderDone, At
<1>. HIDE DEF o
<1>2. g \in Groups /\ order[o].num \in Nat
  BY <1>1 DEF OrderType
<1>3. IsPosition(lot) /\ IsPosition(Delegate(lot, order[o].num))
  <2>1. IsPosition(PositionOf(g))
    BY <1>2, EmptyPositionType DEF PositionOf, TypeInv, TypeOK
  <2>2. BoughtLot(o).count \in Int
    BY <1>2 DEF BoughtLot
  <2>3. IsPosition(lot)
    BY <2>1, <2>2, AddLotType
  <2>. QED
    BY <1>2, <2>3, DelegateType
<1>. HIDE DEF lot
<1>4. available' \in Int /\ frozen' \in Int
  <2>1. /\ order[o].frozen \in Nat /\ order[o].num \in Nat
        /\ order[o].deal \in Nat
    BY <1>1, OrderNumbers
  <2>2. Amount(o) \in Nat
    BY <2>1, BuyCostType DEF Amount
  <2>. QED
    BY <2>1, <2>2 DEF OnBuyOrderDone, Spend, TypeInv, TypeOK, o
<1>5. /\ position' = [h \in Groups |-> position'[h]]
      /\ \A h \in Groups : position'[h] = NoPosition \/ IsPosition(position'[h])
  <2>1. \/ position' = position
        \/ position' = [position EXCEPT ![g] = lot]
        \/ position' = [position EXCEPT ![g] = Delegate(lot, order[o].num)]
    BY DEF OnBuyOrderDone, o, lot
  <2>. QED
    BY <1>2, <1>3, <2>1 DEF TypeInv, TypeOK
<1>6. /\ order' \in [OrderIds -> OrderType \cup {NoOrder}]
      /\ \A p \in OrderIds : Made(p) => Made(p)'
      /\ orderList' \subseteq OrderIds /\ observers' \subseteq OrderIds
      /\ ListIsMade'
  <2>1. CASE UNCHANGED <<order, orderList, observers>>
    BY <2>1 DEF TypeInv, TypeOK, ListIsMade, Made
  <2>2. ASSUME NEW new \in Fresh, AutoOrder(o, new), order[o].expected # 0
        PROVE  /\ order' \in [OrderIds -> OrderType \cup {NoOrder}]
               /\ \A p \in OrderIds : Made(p) => Made(p)'
               /\ orderList' \subseteq OrderIds /\ observers' \subseteq OrderIds
               /\ ListIsMade'
    <3>. DEFINE e == order[o].expected
                n == order[o].num
                sale == NewOrder("SELL", g, e, n, 0, 0)
    <3>1. sale \in OrderType /\ sale.status = "PENDING"
      <4>1. g \in Groups /\ e \in Prices /\ n \in Nat
        BY <1>1, <2>2, OrderNumbers
      <4>. HIDE DEF g, e, n
      <4>. QED
        BY <4>1, NewOrderType
    <3>2. new \in OrderIds
      BY DEF Fresh
    <3>3. /\ order' = [order EXCEPT ![new] = sale]
          /\ orderList' = orderList \cup {new}
          /\ observers' = observers \cup {new}
      BY <2>2 DEF AutoOrder
    <3>. HIDE DEF sale
    <3>4. /\ order' \in [OrderIds -> OrderType \cup {NoOrder}]
          /\ \A p \in OrderIds : Made(p) \/ p = new => Made(p)'
      BY <3>1, <3>2, <3>3 DEF TypeInv, TypeOK, Made
    <3>5. ListIsMade'
      BY <3>2, <3>3, <3>4 DEF TypeInv, TypeOK, ListIsMade
    <3>6. orderList' \subseteq OrderIds /\ observers' \subseteq OrderIds
      BY <3>2, <3>3 DEF TypeInv, TypeOK
    <3>7. \A p \in OrderIds : Made(p) => Made(p)'
      BY <3>4
    <3>. QED
      BY <3>4, <3>5, <3>6, <3>7
  <2>3. \/ UNCHANGED <<order, orderList, observers>>
        \/ order[o].expected # 0 /\ \E new \in Fresh : AutoOrder(o, new)
    BY DEF OnBuyOrderDone, NextId, o
  <2>. QED
    BY <2>1, <2>2, <2>3
<1>7. dbErrors' \in 0 .. MaxDbErrors
  <2>1. DbError \/ UNCHANGED dbErrors
    BY DEF OnBuyOrderDone
  <2>. QED
    BY <2>1, UserAccountAssumption DEF DbError, TypeInv, TypeOK
<1>8. Finish(t, o) /\ crashed' \in BOOLEAN
  BY DEF OnBuyOrderDone, TypeInv, TypeOK, o
<1>9. TypeOK' /\ WorkIsMade'
  <2>1. UNCHANGED <<lockLeak, shifted, lost>>
    BY <1>8 DEF Finish
  <2>. QED
    BY <1>1, <1>4, <1>5, <1>6, <1>7, <1>8, <2>1, FinishType DEF TypeInv, TypeOK
<1>. QED
  BY <1>6, <1>9 DEF TypeInv

LEMMA OnSellOrderDoneType ==
  ASSUME TypeInv, NEW t \in Threads, OnSellOrderDone(t)
  PROVE  TypeInv'
<1>. DEFINE o == cur[t][1]
            g == order[o].group
<1>1. o \in OrderIds /\ order[o] \in OrderType /\ Made(o)
  BY CurrentOrder DEF OnSellOrderDone, At
<1>. HIDE DEF o
<1>2. g \in Groups /\ order[o].num \in Nat /\ order[o].deal \in Nat
  BY <1>1, OrderNumbers
<1>3. available' \in Int
  <2>1. Proceeds(o) \in Int
    BY <1>2, SaleProceedsType DEF Proceeds
  <2>. QED
    BY <2>1 DEF OnSellOrderDone, TypeInv, TypeOK, o
<1>4. /\ position' = [h \in Groups |-> position'[h]]
      /\ \A h \in Groups : position'[h] = NoPosition \/ IsPosition(position'[h])
  <2>1. CASE position[g] = NoPosition
    BY <2>1 DEF OnSellOrderDone, TypeInv, TypeOK, o
  <2>2. CASE position[g] # NoPosition
    <3>1. IsPosition(Sold(position[g], order[o].num))
      BY <1>2, <2>2, OnSaleDoneType DEF Sold, TypeInv, TypeOK
    <3>2. position' = [position EXCEPT ![g] = Sold(position[g], order[o].num)]
      BY <2>2 DEF OnSellOrderDone, o
    <3>. QED
      BY <1>2, <3>1, <3>2 DEF TypeInv, TypeOK
  <2>. QED
    BY <2>1, <2>2
<1>5. /\ Finish(t, o)
      /\ UNCHANGED <<frozen, order, orderList, observers, dbErrors>>
      /\ UNCHANGED <<lockLeak, shifted, lost>>
  BY DEF OnSellOrderDone, Finish, o
<1>6. crashed' \in BOOLEAN
  <2>1. CASE position[g] = NoPosition
    BY <2>1 DEF OnSellOrderDone, TypeInv, TypeOK, o
  <2>2. CASE position[g] # NoPosition
    BY <2>2 DEF OnSellOrderDone, o
  <2>. QED
    BY <2>1, <2>2
<1>7. \A p \in OrderIds : Made(p) => Made(p)'
  BY <1>5 DEF Made
<1>8. TypeOK' /\ WorkIsMade'
  BY <1>1, <1>3, <1>4, <1>5, <1>6, <1>7, FinishType DEF TypeInv, TypeOK
<1>9. ListIsMade'
  BY <1>5 DEF TypeInv, ListIsMade, Made
<1>. QED
  BY <1>8, <1>9 DEF TypeInv

LEMMA OnCancelOrderType ==
  ASSUME TypeInv, NEW t \in Threads, NEW o \in OrderIds, OnCancelOrder(t, o)
  PROVE  TypeInv'
<1>1. Made(o) /\ <<o, 0>> \in Work /\ "mark" \in Steps
  BY DEF OnCancelOrder, TypeInv, ListIsMade, Work, Steps
<1>2. /\ pc' = [pc EXCEPT ![t] = "mark"]
      /\ cur' = [cur EXCEPT ![t] = <<o, 0>>]
      /\ UNCHANGED <<available, frozen, position, order, orderList, observers,
                     shifted, lockLeak, released, lost, dbErrors, crashed>>
  BY DEF OnCancelOrder, Goto
<1>3. /\ pc' \in [Threads -> Steps] /\ cur' \in [Threads -> Work \cup {<<>>}]
      /\ \A u \in Threads : pc'[u] # "idle" => cur'[u] \in Work
  BY <1>1, <1>2 DEF TypeInv, TypeOK
<1>4. TypeOK'
  BY <1>2, <1>3 DEF TypeInv, TypeOK, IsPosition, Uint
<1>5. WorkIsMade'
  <2>1. \A u \in Threads :
          pc'[u] # "idle" => \/ cur'[u] = <<o, 0>>
                             \/ pc[u] # "idle" /\ cur'[u] = cur[u]
    BY <1>2 DEF TypeInv, TypeOK
  <2>2. \A u \in Threads :
          pc'[u] # "idle" => cur'[u][1] \in OrderIds /\ Made(cur'[u][1])
    BY <1>1, <2>1, CurrentOrder
  <2>. QED
    BY <1>2, <2>2 DEF WorkIsMade, Made
<1>6. ListIsMade'
  BY <1>2 DEF TypeInv, ListIsMade, Made
<1>. QED
  BY <1>4, <1>5, <1>6 DEF TypeInv

LEMMA MarkOrderType ==
  ASSUME TypeInv, NEW t \in Threads, MarkOrder(t)
  PROVE  TypeInv'
<1>. DEFINE o == cur[t][1]
            cancelled == [order[o] EXCEPT !.status = "CANCEL"]
<1>1. o \in OrderIds /\ Made(o) /\ order[o] \in OrderType
  BY CurrentOrder DEF MarkOrder, At
<1>2. cancelled \in OrderType /\ cancelled.status = "CANCEL"
  BY <1>1 DEF OrderType
<1>3. order' = [order EXCEPT ![o] = cancelled]
  BY <1>1 DEF MarkOrder, MarkCancelled, TypeInv, TypeOK
<1>. HIDE DEF cancelled
<1>4. /\ order' \in [OrderIds -> OrderType \cup {NoOrder}]
      /\ \A p \in OrderIds : Made(p) => Made(p)'
  BY <1>1, <1>2, <1>3 DEF TypeInv, TypeOK, Made
<1>5. /\ pc' \in [Threads -> Steps]
      /\ \A u \in Threads : pc'[u] # "idle" => pc[u] # "idle"
  BY DEF MarkOrder, At, Goto, TypeInv, TypeOK, Steps
<1>6. TypeOK'
  BY <1>4, <1>5 DEF MarkOrder, TypeInv, TypeOK, IsPosition, Uint
<1>7. \A u \in Threads : pc'[u] # "idle" => order'[cur[u][1]].status # "NONE"
  <2>1. \A u \in Threads :
          pc[u] # "idle" => cur[u][1] \in OrderIds /\ Made(cur[u][1])
    BY CurrentOrder
  <2>. QED
    BY <1>4, <1>5, <2>1 DEF Made
<1>8. WorkIsMade'
  BY <1>7 DEF MarkOrder, WorkIsMade, Made
<1>9. ListIsMade'
  BY <1>4 DEF MarkOrder, TypeInv, TypeOK, ListIsMade
<1>. QED
  BY <1>6, <1>8, <1>9 DEF TypeInv

LEMMA TestOperationType ==
  ASSUME TypeInv, NEW t \in Threads, TestOperation(t)
  PROVE  TypeInv'
<1>1. /\ pc' \in [Threads -> Steps]
      /\ \A u \in Threads : pc'[u] # "idle" => pc[u] # "idle"
  <2>1. PICK step \in Steps : pc' = [pc EXCEPT ![t] = step]
    BY DEF TestOperation, Goto, Steps
  <2>2. pc[t] # "idle"
    BY DEF TestOperation, At
  <2>. QED
    BY <2>1, <2>2 DEF TypeInv, TypeOK
<1>2. TypeOK'
  BY <1>1 DEF TestOperation, TypeInv, TypeOK, IsPosition, Uint
<1>. QED
  BY <1>1, <1>2 DEF TestOperation, TypeInv, WorkIsMade, ListIsMade, Made

LEMMA AbortType ==
  ASSUME TypeInv, Abort
  PROVE  TypeInv'
<1>1. TypeOK'
  BY DEF Abort, TypeInv, TypeOK, IsPosition, Uint
<1>. QED
  BY <1>1 DEF Abort, TypeInv, WorkIsMade, ListIsMade, Made

LEMMA CancelDoneType ==
  ASSUME TypeInv, NEW t \in Threads, NEW o \in OrderIds, NEW step \in Steps,
         CancelDone(t, o, step),
         available' \in Int, frozen' \in Int, pc[t] # "idle",
         position' = [g \in Groups |-> position'[g]],
         \A g \in Groups : position'[g] = NoPosition \/ IsPosition(position'[g]),
         UNCHANGED crashed
  PROVE  TypeInv'
<1>1. /\ pc' \in [Threads -> Steps] /\ cur' = cur
      /\ \A u \in Threads : pc'[u] # "idle" => pc[u] # "idle"
      /\ released' \in [OrderIds -> Nat]
  BY DEF CancelDone, Goto, TypeInv, TypeOK
<1>2. TypeOK'
  BY <1>1 DEF CancelDone, TypeInv, TypeOK
<1>3. WorkIsMade' /\ ListIsMade'
  BY <1>1 DEF CancelDone, TypeInv, WorkIsMade, ListIsMade, Made
<1>. QED
  BY <1>2, <1>3 DEF TypeInv

(* What moves up under an address is an element of order_list_.             *)
LEMMA MovedOrder ==
  ASSUME TypeInv, NEW o \in OrderIds, NEW e
  PROVE  /\ Moved(o, e) \in OrderIds
         /\ Made(o) => Made(Moved(o, e))
<1>1. CASE Behind(o) = {}
  BY <1>1 DEF Moved
<1>2. CASE Behind(o) # {}
  <2>1. Behind(o) \subseteq Nat /\ Behind(o) \subseteq orderList
    BY UserAccountAssumption DEF Behind, TypeInv, TypeOK
  <2>2. \E k \in Behind(o) : \A j \in Behind(o) : k <= j
    BY <1>2, <2>1, FirstOne
  <2>3. Min(Behind(o)) \in Behind(o)
    BY <2>2 DEF Min
  <2>4. Min(Behind(o)) \in OrderIds /\ Made(Min(Behind(o)))
    BY <2>1, <2>3 DEF TypeInv, TypeOK, ListIsMade
  <2>. QED
    BY <2>4 DEF Moved
<1>. QED
  BY <1>1, <1>2

(* What EraseOrder does to the other threads.                               *)
LEMMA EraseMoves ==
  ASSUME TypeInv, NEW t \in Threads, EraseOrder(t), orderList # {}
  PROVE  /\ cur' \in [Threads -> Work \cup {<<>>}]
         /\ \A u \in Threads :
              pc'[u] # "idle" => cur'[u] \in Work /\ Made(cur'[u][1])
<1>1. PICK e \in orderList :
        /\ cur' = [u \in Threads |->
                    IF u = t \/ cur[u] = <<>> THEN <<>>
                    ELSE <<Moved(cur[u][1], e), cur[u][2]>>]
        /\ Goto(t, "idle")
  BY DEF EraseOrder
<1>2. ASSUME NEW u \in Threads, cur[u] \in Work
      PROVE  /\ <<Moved(cur[u][1], e), cur[u][2]>> \in Work
             /\ Made(cur[u][1]) => Made(Moved(cur[u][1], e))
  <2>1. cur[u][1] \in OrderIds /\ cur[u][2] \in Prices \cup {0}
    BY <1>2 DEF Work
  <2>2. /\ Moved(cur[u][1], e) \in OrderIds
        /\ Made(cur[u][1]) => Made(Moved(cur[u][1], e))
    BY <2>1, MovedOrder
  <2>. QED
    BY <2>1, <2>2 DEF Work
<1>3. cur' \in [Threads -> Work \cup {<<>>}]
  <2>1. \A u \in Threads : cur[u] = <<>> \/ cur[u] \in Work
    BY DEF TypeInv, TypeOK
  <2>2. \A u \in Threads :
          cur[u] # <<>> => <<Moved(cur[u][1], e), cur[u][2]>> \in Work
    BY <1>2, <2>1
  <2>. QED
    BY <1>1, <2>2
<1>4. ASSUME NEW u \in Threads, pc'[u] # "idle"
      PROVE  cur'[u] \in Work /\ Made(cur'[u][1])
  <2>1. u # t /\ pc[u] # "idle"
    BY <1>1, <1>4 DEF Goto, TypeInv, TypeOK
  <2>2. cur[u] \in Work /\ Made(cur[u][1])
    BY <2>1, CurrentOrder
  <2>3. cur'[u] = cur[u] \/ cur'[u] = <<Moved(cur[u][1], e), cur[u][2]>>
    BY <1>1, <2>1
  <2>. QED
    BY <1>2, <2>2, <2>3
<1>. QED
  BY <1>3, <1>4

LEMMA EraseOrderType ==
  ASSUME TypeInv, NEW t \in Threads, EraseOrder(t)
  PROVE  TypeInv'
<1>1. CASE orderList = {}
  BY <1>1, AbortType DEF EraseOrder
<1>2. CASE orderList # {}
  <2>1. /\ orderList' \subseteq orderList
        /\ pc' = [pc EXCEPT ![t] = "idle"] /\ shifted' = TRUE
        /\ UNCHANGED <<available, frozen, position, order, observers, lockLeak,
                       released, lost, dbErrors, crashed>>
    BY <1>2 DEF EraseOrder, Goto
  <2>2. pc' \in [Threads -> Steps]
    BY <2>1 DEF TypeInv, TypeOK, Steps
  <2>3. /\ cur' \in [Threads -> Work \cup {<<>>}]
        /\ \A u \in Threads :
             pc'[u] # "idle" => cur'[u] \in Work /\ Made(cur'[u][1])
    BY <1>2, EraseMoves
  <2>4. TypeOK'
    BY <2>1, <2>2, <2>3 DEF TypeInv, TypeOK, IsPosition, Uint
  <2>5. WorkIsMade' /\ ListIsMade'
    BY <2>1, <2>3 DEF TypeInv, WorkIsMade, ListIsMade, Made
  <2>. QED
    BY <2>4, <2>5 DEF TypeInv
<1>. QED
  BY <1>1, <1>2

LEMMA OnCancelBuyOrderType ==
  ASSUME TypeInv, NEW t \in Threads, OnCancelBuyOrder(t)
  PROVE  TypeInv'
<1>. DEFINE o == cur[t][1]
<1>1. o \in OrderIds /\ order[o] \in OrderType /\ pc[t] # "idle"
  BY CurrentOrder DEF OnCancelBuyOrder, At
<1>2. order[o].frozen \in Nat
  BY <1>1, OrderNumbers
<1>3. available' \in Int /\ frozen' \in Int
  BY <1>2 DEF OnCancelBuyOrder, Thaw, TypeInv, TypeOK
<1>4. CancelDone(t, o, "ifSell") /\ UNCHANGED <<position, crashed>> /\ "ifSell" \in Steps
  BY DEF OnCancelBuyOrder, Steps
<1>5. /\ position' = [h \in Groups |-> position'[h]]
      /\ \A h \in Groups : position'[h] = NoPosition \/ IsPosition(position'[h])
  BY <1>4 DEF TypeInv, TypeOK
<1>. QED
  BY <1>1, <1>3, <1>4, <1>5, CancelDoneType

LEMMA OnCancelSellOrderType ==
  ASSUME TypeInv, NEW t \in Threads, OnCancelSellOrder(t)
  PROVE  TypeInv'
<1>. DEFINE o == cur[t][1]
            g == order[o].group
<1>1. o \in OrderIds /\ order[o] \in OrderType /\ pc[t] # "idle" /\ "erase" \in Steps
  BY CurrentOrder DEF OnCancelSellOrder, At, Steps
<1>2. g \in Groups /\ order[o].num \in Nat
  BY <1>1, OrderNumbers
<1>3. CASE position[g] = NoPosition
  BY <1>3, AbortType DEF OnCancelSellOrder
<1>4. CASE position[g] # NoPosition
  <2>1. /\ CancelDone(t, o, "erase") /\ UNCHANGED <<available, frozen, crashed>>
        /\ position' = [position EXCEPT
                          ![g] = OnOrderCancel(position[g], order[o].num)]
    BY <1>4 DEF OnCancelSellOrder
  <2>. HIDE DEF o, g
  <2>2. IsPosition(OnOrderCancel(position[g], order[o].num))
    BY <1>2, <1>4, OnOrderCancelType DEF TypeInv, TypeOK
  <2>3. /\ position' = [h \in Groups |-> position'[h]]
        /\ \A h \in Groups : position'[h] = NoPosition \/ IsPosition(position'[h])
    BY <1>2, <2>1, <2>2 DEF TypeInv, TypeOK
  <2>4. available' \in Int /\ frozen' \in Int
    BY <2>1 DEF TypeInv, TypeOK
  <2>. QED
    BY <1>1, <2>1, <2>3, <2>4, CancelDoneType
<1>. QED
  BY <1>3, <1>4

LEMMA CancelType ==
  ASSUME TypeInv, NEW t \in Threads, Cancel(t)
  PROVE  TypeInv'
BY OnCancelOrderType, MarkOrderType, TestOperationType, OnCancelBuyOrderType,
   OnCancelSellOrderType, EraseOrderType DEF Cancel

LEMMA TypeStep == TypeInv /\ [Next]_vars => TypeInv'
<1>. SUFFICES ASSUME TypeInv, [Next]_vars PROVE TypeInv'
  OBVIOUS
<1>1. ASSUME NEW t \in Threads, SubmitOrder(t) PROVE TypeInv'
  BY <1>1, SubmitOrderType
<1>2. ASSUME NEW t \in Threads, MakeADeal(t) PROVE TypeInv'
  BY <1>2, MakeADealType
<1>3. ASSUME NEW t \in Threads, OnOrderDone(t) PROVE TypeInv'
  BY <1>3, OnBuyOrderDoneType, OnSellOrderDoneType DEF OnOrderDone
<1>4. ASSUME NEW t \in Threads, Cancel(t) PROVE TypeInv'
  BY <1>4, CancelType
<1>5. ASSUME NEW o \in OrderIds,
             DropStale(o) \/ \E market \in Prices : Notify(o, market)
      PROVE  TypeInv'
  BY <1>5, DropStaleType, NotifyType
<1>6. CASE UNCHANGED vars
  <2>1. TypeOK'
    BY <1>6 DEF vars, TypeInv, TypeOK, IsPosition, Uint
  <2>. QED
    BY <1>6, <2>1 DEF vars, TypeInv, WorkIsMade, ListIsMade, Made
<1>. QED
  BY <1>1, <1>2, <1>3, <1>4, <1>5, <1>6 DEF Next

(* Every reachable state of the account has the types TypeOK gives it: in   *)
(* particular the two unsigned counts of a position stay in range, and a    *)
(* thread in the middle of a call has an order to work on.                  *)
THEOREM AccountTypes == Spec => []TypeOK
<1>1. TypeInv => TypeOK
  BY DEF TypeInv
<1>. QED
  BY <1>1, TypeInit, TypeStep, PTL DEF Spec

-----------------------------------------------------------------------------
(* Never in debt.                                                          *)

(* What keeps the user out of debt: the capital frozen for a purchase is    *)
(* its whole cost at the price of the order, and no deal is made above it.  *)

TermsCovered ==
  \A o \in OrderIds :
    Made(o) /\ order[o].op = "BUY" =>
      /\ order[o].frozen = BuyCost(order[o].price, order[o].num)
      /\ order[o].deal <= order[o].price

DealWithinPrice ==
  \A t \in Threads :
    pc[t] = "deal" =>
      /\ cur[t][2] \in Prices
      /\ order[cur[t][1]].op = "BUY" => cur[t][2] <= order[cur[t][1]].price

DoneHasPrice ==
  \A t \in Threads : pc[t] = "done" => order[cur[t][1]].deal \in Prices

DebtInv == NeverInDebt /\ TermsCovered /\ DealWithinPrice /\ DoneHasPrice

(* The terms of an order are those it was submitted with.                   *)
SameTerms(o) ==
  /\ order'[o].op = order[o].op
  /\ order'[o].group = order[o].group
  /\ order'[o].price = order[o].price
  /\ order'[o].num = order[o].num
  /\ order'[o].frozen = order[o].frozen

(* How a step may change the orders: not at all, by one that is new, or, as *)
(* MakeADeal and OnOrderCancel do, in the status and deal of one.           *)
OrderAdded(new, terms) ==
  /\ new \in Fresh
  /\ terms \in OrderType /\ terms.status = "PENDING" /\ terms.deal = 0
  /\ order' = [order EXCEPT ![new] = terms]

LEMMA AddedTerms ==
  ASSUME TypeInv, NEW new, NEW terms, OrderAdded(new, terms)
  PROVE  /\ \A o \in OrderIds : Made(o) => order'[o] = order[o] /\ o # new
         /\ \A o \in OrderIds : Made(o)' => Made(o) \/ o = new
         /\ new \in OrderIds /\ order'[new] = terms /\ ~Made(new)
BY DEF OrderAdded, Fresh, TypeInv, TypeOK, Made

LEMMA NewOrderAdded ==
  ASSUME NEW op \in {"BUY", "SELL"}, NEW g \in Groups, NEW price \in Prices,
         NEW num \in Nat, NEW expected \in Prices \cup {0}, NEW money \in Nat,
         NEW new \in Fresh,
         order' = [order EXCEPT ![new] = NewOrder(op, g, price, num, expected, money)]
  PROVE  OrderAdded(new, NewOrder(op, g, price, num, expected, money))
<1>1. NewOrder(op, g, price, num, expected, money).deal = 0
  BY DEF NewOrder
<1>. QED
  BY <1>1, NewOrderType DEF OrderAdded

LEMMA DealtTerms ==
  ASSUME TypeInv, NEW t \in Threads, MakeADeal(t)
  PROVE  /\ cur[t][1] \in OrderIds /\ Made(cur[t][1]) /\ pc[t] = "deal"
         /\ \A o \in OrderIds : SameTerms(o)
         /\ \A o \in OrderIds \ {cur[t][1]} : order'[o] = order[o]
         /\ order'[cur[t][1]].deal = cur[t][2]
         /\ order'[cur[t][1]].status = "FINISHED"
<1>. DEFINE o == cur[t][1]
            dealt == [order[o] EXCEPT !.status = "FINISHED", !.deal = cur[t][2]]
<1>1. o \in OrderIds /\ order[o] \in OrderType /\ Made(o) /\ pc[t] = "deal"
  BY CurrentOrder DEF MakeADeal, At
<1>2. /\ dealt.status = "FINISHED" /\ dealt.deal = cur[t][2]
      /\ dealt.op = order[o].op /\ dealt.price = order[o].price
      /\ dealt.group = order[o].group
      /\ dealt.num = order[o].num /\ dealt.frozen = order[o].frozen
  BY <1>1 DEF OrderType
<1>3. order' = [order EXCEPT ![o] = dealt]
  BY <1>1 DEF MakeADeal, TypeInv, TypeOK
<1>. HIDE DEF dealt
<1>4. \A p \in OrderIds : order'[p] = IF p = o THEN dealt ELSE order[p]
  BY <1>1, <1>3 DEF TypeInv, TypeOK
<1>. QED
  BY <1>1, <1>2, <1>4 DEF SameTerms

LEMMA CancelledTerms ==
  ASSUME TypeInv, NEW t \in Threads, MarkOrder(t)
  PROVE  /\ cur[t][1] \in OrderIds /\ Made(cur[t][1]) /\ pc[t] = "mark"
         /\ \A p \in OrderIds : SameTerms(p) /\ order'[p].deal = order[p].deal
         /\ \A p \in OrderIds \ {cur[t][1]} : order'[p] = order[p]
         /\ order'[cur[t][1]].status = "CANCEL"
<1>. DEFINE o == cur[t][1]
            cancelled == [order[o] EXCEPT !.status = "CANCEL"]
<1>1. o \in OrderIds /\ Made(o) /\ order[o] \in OrderType /\ pc[t] = "mark"
  BY CurrentOrder DEF MarkOrder, At
<1>2. /\ cancelled.status = "CANCEL"
      /\ cancelled.deal = order[o].deal /\ cancelled.op = order[o].op
      /\ cancelled.price = order[o].price /\ cancelled.num = order[o].num
      /\ cancelled.frozen = order[o].frozen /\ cancelled.group = order[o].group
  BY <1>1 DEF OrderType
<1>3. order' = [order EXCEPT ![o] = cancelled]
  BY <1>1 DEF MarkOrder, MarkCancelled, TypeInv, TypeOK
<1>. HIDE DEF cancelled
<1>4. \A p \in OrderIds : order'[p] = IF p = o THEN cancelled ELSE order[p]
  BY <1>1, <1>3 DEF TypeInv, TypeOK
<1>. QED
  BY <1>1, <1>2, <1>4 DEF SameTerms

-----------------------------------------------------------------------------
(* A user is never in debt.                                                *)

(* The order a call deals is dealt within its price.                        *)
LEMMA DebtPreserved ==
  ASSUME TypeInv, DebtInv, available' >= 0,
         \A o \in OrderIds :
           Made(o) => SameTerms(o) /\ order'[o].deal = order[o].deal,
         \A o \in OrderIds :
           Made(o)' /\ ~Made(o) /\ order'[o].op = "BUY" =>
             /\ order'[o].frozen = BuyCost(order'[o].price, order'[o].num)
             /\ order'[o].deal <= order'[o].price,
         \A t \in Threads :
           pc'[t] = "deal" =>
             \/ pc[t] = "deal" /\ cur'[t] = cur[t]
             \/ /\ cur'[t][2] \in Prices
                /\ order'[cur'[t][1]].op = "BUY"
                     => cur'[t][2] <= order'[cur'[t][1]].price,
         \A t \in Threads :
           pc'[t] = "done" => pc[t] = "done" /\ cur'[t] = cur[t]
  PROVE  DebtInv'
<1>1. NeverInDebt'
  BY DEF NeverInDebt
<1>2. TermsCovered'
  BY DEF DebtInv, TermsCovered, SameTerms, Made
<1>3. \A t \in Threads :
        pc[t] # "idle" => cur[t][1] \in OrderIds /\ Made(cur[t][1])
  BY CurrentOrder
<1>4. DealWithinPrice'
  BY <1>3 DEF DebtInv, DealWithinPrice, SameTerms
<1>5. DoneHasPrice'
  BY <1>3 DEF DebtInv, DoneHasPrice, SameTerms
<1>. QED
  BY <1>1, <1>2, <1>4, <1>5 DEF DebtInv

LEMMA ReturnLockedDebt ==
  ASSUME TypeInv, DebtInv, NEW t \in Threads, ReturnLocked(t), available' >= 0
  PROVE  DebtInv'
BY DebtPreserved DEF ReturnLocked, SameTerms, Made

LEMMA PushOrderDebt ==
  ASSUME TypeInv, DebtInv, NEW t \in Threads, available' >= 0,
         NEW op \in {"BUY", "SELL"}, NEW g \in Groups, NEW price \in Prices,
         NEW num \in Nat, NEW expected \in Prices \cup {0}, NEW money \in Nat,
         NEW market \in Prices,
         PushOrder(t, NewOrder(op, g, price, num, expected, money), market),
         op = "BUY" => money = BuyCost(price, num)
  PROVE  DebtInv'
<1>. DEFINE new == NewOrder(op, g, price, num, expected, money)
<1>1. /\ new.op = op /\ new.price = price /\ new.num = num
      /\ new.frozen = money /\ new.deal = 0
  BY DEF NewOrder
<1>2. PICK o \in Fresh :
        /\ order' = [order EXCEPT ![o] = new]
        /\ \/ Goto(t, "deal") /\ cur' = [cur EXCEPT ![t] = <<o, market>>]
              /\ CanDeal(op, price, market)
           \/ UNCHANGED <<pc, cur>>
  BY <1>1 DEF PushOrder, NextId
<1>3. OrderAdded(o, new)
  BY <1>2, NewOrderAdded
<1>. HIDE DEF new
<1>4. price \in Nat
  BY UserAccountAssumption
<1>5. /\ \A p \in OrderIds :
           Made(p) => SameTerms(p) /\ order'[p].deal = order[p].deal
      /\ \A p \in OrderIds :
           Made(p)' /\ ~Made(p) /\ order'[p].op = "BUY" =>
             /\ order'[p].frozen = BuyCost(order'[p].price, order'[p].num)
             /\ order'[p].deal <= order'[p].price
  BY <1>1, <1>3, <1>4, AddedTerms DEF SameTerms
<1>6. order'[o] = new
  BY <1>3, AddedTerms
<1>7. \A u \in Threads :
        pc'[u] = "deal" =>
          \/ pc[u] = "deal" /\ cur'[u] = cur[u]
          \/ cur'[u] = <<o, market>> /\ (op = "BUY" => market <= price)
  BY <1>2 DEF Goto, CanDeal, TypeInv, TypeOK
<1>8. \A u \in Threads :
        pc'[u] = "deal" =>
          \/ pc[u] = "deal" /\ cur'[u] = cur[u]
          \/ /\ cur'[u][2] \in Prices
             /\ order'[cur'[u][1]].op = "BUY"
                  => cur'[u][2] <= order'[cur'[u][1]].price
  BY <1>1, <1>6, <1>7
<1>9. \A u \in Threads : pc'[u] = "done" => pc[u] = "done" /\ cur'[u] = cur[u]
  BY <1>2 DEF Goto, TypeInv, TypeOK
<1>. QED
  BY <1>5, <1>8, <1>9, DebtPreserved

LEMMA SubmitOrderDebt ==
  ASSUME TypeInv, DebtInv, NEW t \in Threads, SubmitOrder(t)
  PROVE  DebtInv'
<1>0. available \in Int /\ available >= 0 /\ Nums \subseteq Nat /\ Prices \subseteq Nat
  BY UserAccountAssumption DEF TypeInv, TypeOK, DebtInv, NeverInDebt
<1>1. CASE SubmitRejected(t)
  BY <1>0, <1>1, ReturnLockedDebt DEF SubmitRejected
<1>2. CASE \E g \in Groups : SubmitSellRefused(t, g)
  BY <1>0, <1>2, ReturnLockedDebt DEF SubmitSellRefused
<1>3. CASE \E price \in Prices, num \in Nums : SubmitBuyRefused(t, price, num)
  BY <1>0, <1>3, ReturnLockedDebt DEF SubmitBuyRefused
<1>4. ASSUME NEW g \in Groups, NEW price \in Prices, NEW num \in Nums,
             NEW market \in Prices, NEW expected \in Prices \cup {0},
             SubmitBuy(t, g, price, num, expected, market)
      PROVE  DebtInv'
  <2>. DEFINE need == BuyCost(price, num)
  <2>1. need \in Nat /\ num \in Nat
    BY <1>0, BuyCostType
  <2>2. available' = available - need /\ need <= available
    BY <1>4 DEF SubmitBuy, Freeze, Affordable
  <2>3. \/ ReturnLocked(t)
        \/ PushOrder(t, NewOrder("BUY", g, price, num, expected, need), market)
    BY <1>4 DEF SubmitBuy
  <2>. HIDE DEF need
  <2>4. available' >= 0
    BY <1>0, <2>1, <2>2
  <2>. QED
    BY <2>1, <2>3, <2>4, ReturnLockedDebt, PushOrderDebt DEF need
<1>5. ASSUME NEW g \in Groups, NEW price \in Prices, NEW num \in Nums,
             NEW market \in Prices, SubmitSell(t, g, price, num, market)
      PROVE  DebtInv'
  <2>. DEFINE n == IF CanDelegate(position[g], num) THEN num ELSE position[g].available
  <2>1. n \in Nat
    BY <1>0, <1>5, UintModAssumption DEF SubmitSell, TypeInv, TypeOK, IsPosition, Uint
  <2>2. \/ ReturnLocked(t)
        \/ PushOrder(t, NewOrder("SELL", g, price, n, 0, 0), market)
    BY <1>5 DEF SubmitSell
  <2>. HIDE DEF n
  <2>3. available' >= 0
    BY <1>0, <1>5 DEF SubmitSell
  <2>. QED
    BY <2>1, <2>2, <2>3, ReturnLockedDebt, PushOrderDebt
<1>. QED
  BY <1>1, <1>2, <1>3, <1>4, <1>5 DEF SubmitOrder

LEMMA MakeADealDebt ==
  ASSUME TypeInv, DebtInv, NEW t \in Threads, MakeADeal(t)
  PROVE  DebtInv'
<1>. DEFINE o == cur[t][1]
<1>1. /\ o \in OrderIds /\ Made(o) /\ pc[t] = "deal"
      /\ \A p \in OrderIds : SameTerms(p)
      /\ \A p \in OrderIds \ {o} : order'[p] = order[p]
      /\ order'[o].deal = cur[t][2] /\ order'[o].status = "FINISHED"
  BY DealtTerms
<1>2. /\ cur[t][2] \in Prices
      /\ order[o].op = "BUY" => cur[t][2] <= order[o].price
  BY <1>1 DEF DebtInv, DealWithinPrice
<1>. HIDE DEF o
<1>3. /\ available' = available /\ cur' = cur
      /\ pc' = [pc EXCEPT ![t] = "done"] /\ cur[t][1] = o
  BY DEF MakeADeal, Goto, o
<1>4. NeverInDebt'
  BY <1>3 DEF DebtInv, NeverInDebt
<1>5. TermsCovered'
  <2>1. \A p \in OrderIds \ {o} : Made(p)' => Made(p)
    BY <1>1 DEF Made
  <2>. QED
    BY <1>1, <1>2, <2>1 DEF DebtInv, TermsCovered, SameTerms
<1>6. \A u \in Threads :
        pc[u] # "idle" => cur[u][1] \in OrderIds /\ Made(cur[u][1])
  BY CurrentOrder
<1>7. DealWithinPrice'
  <2>1. \A u \in Threads : pc'[u] = "deal" => pc[u] = "deal"
    BY <1>1, <1>3 DEF TypeInv, TypeOK
  <2>. QED
    BY <1>1, <1>3, <1>6, <2>1 DEF DebtInv, DealWithinPrice, SameTerms
<1>8. DoneHasPrice'
  <2>1. \A u \in Threads : pc'[u] = "done" => pc[u] = "done" \/ u = t
    BY <1>3 DEF TypeInv, TypeOK
  <2>2. \A u \in Threads : pc'[u] = "done" => order'[cur[u][1]].deal \in Prices
    BY <1>1, <1>2, <1>3, <1>6, <2>1 DEF DebtInv, DoneHasPrice
  <2>. QED
    BY <1>3, <2>2 DEF DoneHasPrice
<1>. QED
  BY <1>4, <1>5, <1>7, <1>8 DEF DebtInv

(* A purchase gives back what the deal cost less than was frozen.           *)
LEMMA OnBuyOrderDoneDebt ==
  ASSUME TypeInv, DebtInv, NEW t \in Threads, OnBuyOrderDone(t)
  PROVE  DebtInv'
<1>. DEFINE o == cur[t][1]
<1>1. /\ o \in OrderIds /\ order[o] \in OrderType /\ Made(o)
      /\ order[o].op = "BUY"
  BY CurrentOrder DEF OnBuyOrderDone, At
<1>2. /\ order[o].frozen = BuyCost(order[o].price, order[o].num)
      /\ order[o].deal <= order[o].price
  BY <1>1 DEF DebtInv, TermsCovered
<1>3. /\ order[o].price \in Nat /\ order[o].num \in Nat
      /\ order[o].deal \in Nat /\ order[o].frozen \in Nat
  BY <1>1, OrderNumbers
<1>4. Amount(o) \in Nat /\ Amount(o) <= order[o].frozen
  <2>1. BuyCost(order[o].deal, order[o].num) \in Nat
    BY <1>3, BuyCostType
  <2>2. BuyCost(order[o].deal, order[o].num) <= BuyCost(order[o].price, order[o].num)
    BY <1>2, <1>3, BuyCostMonotone
  <2>. QED
    BY <1>2, <2>1, <2>2 DEF Amount
<1>5. available' = available + order[o].frozen - Amount(o)
  BY DEF OnBuyOrderDone, Spend
<1>6. available \in Int /\ available >= 0
  BY DEF TypeInv, TypeOK, DebtInv, NeverInDebt
<1>. HIDE DEF o
<1>7. available' >= 0
  BY <1>3, <1>4, <1>5, <1>6
<1>8. \A u \in Threads :
        /\ pc'[u] = "deal" => pc[u] = "deal" /\ cur'[u] = cur[u]
        /\ pc'[u] = "done" => pc[u] = "done" /\ cur'[u] = cur[u]
  BY DEF OnBuyOrderDone, Finish, Goto, TypeInv, TypeOK
<1>9. CASE UNCHANGED order
  BY <1>7, <1>8, <1>9, DebtPreserved DEF SameTerms, Made
<1>10. ASSUME NEW new \in Fresh, AutoOrder(o, new), order[o].expected # 0
       PROVE  DebtInv'
  <2>. DEFINE g == order[o].group
              e == order[o].expected
              n == order[o].num
              sale == NewOrder("SELL", g, e, n, 0, 0)
  <2>1. g \in Groups /\ e \in Prices /\ n \in Nat
    BY <1>1, <1>10, OrderNumbers
  <2>2. order' = [order EXCEPT ![new] = sale]
    BY <1>10 DEF AutoOrder
  <2>. HIDE DEF g, e, n
  <2>3. OrderAdded(new, sale) /\ sale.op = "SELL" /\ sale.deal = 0
    BY <2>1, <2>2, NewOrderAdded DEF NewOrder
  <2>. HIDE DEF sale
  <2>4. /\ \A p \in OrderIds :
             Made(p) => SameTerms(p) /\ order'[p].deal = order[p].deal
        /\ \A p \in OrderIds : Made(p)' /\ ~Made(p) => order'[p].op = "SELL"
    BY <2>3, AddedTerms DEF SameTerms
  <2>. QED
    BY <1>7, <1>8, <2>4, DebtPreserved
<1>11. \/ UNCHANGED order
       \/ order[o].expected # 0 /\ \E new \in Fresh : AutoOrder(o, new)
  BY DEF OnBuyOrderDone, NextId, o
<1>. QED
  BY <1>9, <1>10, <1>11

(* A sale brings at least its charges.                                      *)
LEMMA OnSellOrderDoneDebt ==
  ASSUME TypeInv, DebtInv, NEW t \in Threads, OnSellOrderDone(t),
         \A price \in Prices : price >= 6
  PROVE  DebtInv'
<1>. DEFINE o == cur[t][1]
<1>1. o \in OrderIds /\ order[o] \in OrderType /\ pc[t] = "done"
  BY CurrentOrder DEF OnSellOrderDone, At
<1>2. order[o].deal \in Prices
  BY <1>1 DEF DebtInv, DoneHasPrice
<1>3. order[o].num \in Nat /\ order[o].deal \in Nat /\ order[o].deal >= 6
  BY <1>1, <1>2, OrderNumbers
<1>4. Proceeds(o) \in Int /\ Proceeds(o) >= 0
  BY <1>3, SaleProceedsType, SaleProceedsPositive DEF Proceeds
<1>5. available' = available + Proceeds(o)
  BY DEF OnSellOrderDone
<1>6. available \in Int /\ available >= 0
  BY DEF TypeInv, TypeOK, DebtInv, NeverInDebt
<1>. HIDE DEF o
<1>7. available' >= 0
  BY <1>4, <1>5, <1>6
<1>8. /\ UNCHANGED order
      /\ \A u \in Threads :
           /\ pc'[u] = "deal" => pc[u] = "deal" /\ cur'[u] = cur[u]
           /\ pc'[u] = "done" => pc[u] = "done" /\ cur'[u] = cur[u]
  BY DEF OnSellOrderDone, Finish, Goto, TypeInv, TypeOK
<1>. QED
  BY <1>7, <1>8, DebtPreserved DEF SameTerms, Made

(* What the unlocked erase of OnCancelOrder may take away: no element of    *)
(* order_list_ moves under the address of an order that is being dealt.     *)
DealsNotMoved ==
  \A t \in Threads :
    pc[t] \in {"deal", "done"} /\ pc'[t] = pc[t] => cur'[t] = cur[t]

LEMMA MarkOrderDebt ==
  ASSUME TypeInv, DebtInv, NEW t \in Threads, MarkOrder(t)
  PROVE  DebtInv'
<1>. DEFINE o == cur[t][1]
<1>1. /\ o \in OrderIds /\ Made(o) /\ pc[t] = "mark"
      /\ \A p \in OrderIds : SameTerms(p) /\ order'[p].deal = order[p].deal
      /\ \A p \in OrderIds \ {o} : order'[p] = order[p]
  BY CancelledTerms
<1>. HIDE DEF o
<1>2. \A p \in OrderIds : Made(p)' => Made(p)
  BY <1>1 DEF Made
<1>3. \A u \in Threads :
        /\ pc'[u] = "deal" => pc[u] = "deal" /\ cur'[u] = cur[u]
        /\ pc'[u] = "done" => pc[u] = "done" /\ cur'[u] = cur[u]
  BY DEF MarkOrder, Goto, TypeInv, TypeOK
<1>4. available' >= 0
  BY DEF MarkOrder, DebtInv, NeverInDebt
<1>. QED
  BY <1>1, <1>2, <1>3, <1>4, DebtPreserved

(* A step of a cancellation that changes no order.                          *)
LEMMA CancelStepDebt ==
  ASSUME TypeInv, DebtInv, NEW t \in Threads, available' >= 0, UNCHANGED order,
         \/ UNCHANGED pc
         \/ \E step \in Steps \ {"deal", "done"} : Goto(t, step),
         \A u \in Threads : pc[u] \in {"deal", "done"} => u = t \/ cur'[u] = cur[u],
         UNCHANGED pc => UNCHANGED cur
  PROVE  DebtInv'
<1>1. \A u \in Threads :
        /\ pc'[u] = "deal" => pc[u] = "deal" /\ cur'[u] = cur[u]
        /\ pc'[u] = "done" => pc[u] = "done" /\ cur'[u] = cur[u]
  BY DEF Goto, TypeInv, TypeOK
<1>. QED
  BY <1>1, DebtPreserved DEF SameTerms, Made

LEMMA CancelDebt ==
  ASSUME TypeInv, DebtInv, NEW t \in Threads, Cancel(t), DealsNotMoved
  PROVE  DebtInv'
<1>1. available \in Int /\ available >= 0
  BY DEF TypeInv, TypeOK, DebtInv, NeverInDebt
<1>2. {"idle", "mark", "buy", "ifSell", "sell", "erase"} \subseteq Steps \ {"deal", "done"}
  BY DEF Steps
<1>3. ASSUME NEW o \in OrderIds, OnCancelOrder(t, o) PROVE DebtInv'
  <2>1. /\ Goto(t, "mark") /\ UNCHANGED <<order, available>>
        /\ \A u \in Threads : u = t \/ cur'[u] = cur[u]
        /\ pc[t] = "idle"
    BY <1>3 DEF OnCancelOrder, Idle, TypeInv, TypeOK
  <2>2. pc' # pc
    BY <2>1 DEF Goto, TypeInv, TypeOK
  <2>. QED
    BY <1>1, <1>2, <2>1, <2>2, CancelStepDebt
<1>4. CASE MarkOrder(t)
  BY <1>4, MarkOrderDebt
<1>5. CASE TestOperation(t)
  <2>1. /\ \E step \in Steps \ {"deal", "done"} : Goto(t, step)
        /\ UNCHANGED <<order, available, cur>>
    BY <1>2, <1>5 DEF TestOperation
  <2>. QED
    BY <1>1, <2>1, CancelStepDebt
<1>6. CASE Abort
  BY <1>1, <1>6, CancelStepDebt DEF Abort
<1>7. CASE OnCancelBuyOrder(t)
  <2>. DEFINE f == order[cur[t][1]].frozen
  <2>1. f \in Nat
    BY <1>7, CurrentOrder, OrderNumbers DEF OnCancelBuyOrder, At
  <2>2. available' = available + f
    BY <1>7 DEF OnCancelBuyOrder, Thaw
  <2>. HIDE DEF f
  <2>3. available' >= 0
    BY <1>1, <2>1, <2>2
  <2>4. Goto(t, "ifSell") /\ UNCHANGED <<order, cur>>
    BY <1>7 DEF OnCancelBuyOrder, CancelDone
  <2>. QED
    BY <1>2, <2>3, <2>4, CancelStepDebt
<1>8. CASE OnCancelSellOrder(t) /\ ~Abort
  <2>1. Goto(t, "erase") /\ UNCHANGED <<order, cur, available>>
    BY <1>8 DEF OnCancelSellOrder, CancelDone
  <2>. QED
    BY <1>1, <1>2, <2>1, CancelStepDebt
<1>9. CASE EraseOrder(t) /\ ~Abort
  <2>1. Goto(t, "idle") /\ UNCHANGED <<order, available>> /\ pc[t] = "erase"
    BY <1>9 DEF EraseOrder, At
  <2>2. pc' # pc /\ \A u \in Threads \ {t} : pc'[u] = pc[u]
    BY <2>1 DEF Goto, TypeInv, TypeOK
  <2>3. \A u \in Threads : pc[u] \in {"deal", "done"} => u = t \/ cur'[u] = cur[u]
    BY <2>2 DEF DealsNotMoved
  <2>. QED
    BY <1>1, <1>2, <2>1, <2>2, <2>3, CancelStepDebt
<1>. QED
  BY <1>3, <1>4, <1>5, <1>6, <1>7, <1>8, <1>9 DEF Cancel

LEMMA MarketDataDebt ==
  ASSUME TypeInv, DebtInv, NEW o \in OrderIds,
         DropStale(o) \/ \E market \in Prices : Notify(o, market)
  PROVE  DebtInv'
<1>1. available' >= 0 /\ UNCHANGED order
  BY DEF DropStale, Notify, DebtInv, NeverInDebt
<1>2. \A u \in Threads : pc'[u] = "done" => pc[u] = "done" /\ cur'[u] = cur[u]
  BY DEF DropStale, Notify, Goto, TypeInv, TypeOK
<1>3. CASE DropStale(o)
  BY <1>1, <1>2, <1>3, DebtPreserved DEF DropStale, SameTerms, Made
<1>4. ASSUME NEW market \in Prices, Notify(o, market) PROVE DebtInv'
  <2>1. \A u \in Threads :
          pc'[u] = "deal" =>
            \/ pc[u] = "deal" /\ cur'[u] = cur[u]
            \/ cur'[u] = <<o, market>>
    BY <1>4 DEF Notify, Goto, TypeInv, TypeOK
  <2>2. order[o].op = "BUY" => market <= order[o].price
    BY <1>4 DEF Notify, CanDeal
  <2>3. \A u \in Threads :
          pc'[u] = "deal" =>
            \/ pc[u] = "deal" /\ cur'[u] = cur[u]
            \/ /\ cur'[u][2] \in Prices
               /\ order'[cur'[u][1]].op = "BUY"
                    => cur'[u][2] <= order'[cur'[u][1]].price
    BY <1>1, <2>1, <2>2
  <2>. QED
    BY <1>1, <1>2, <2>3, DebtPreserved DEF SameTerms, Made
<1>. QED
  BY <1>3, <1>4

LEMMA DebtInit == Init => DebtInv
BY UserAccountAssumption
DEF Init, DebtInv, NeverInDebt, TermsCovered, DealWithinPrice, DoneHasPrice, Made,
    NoOrder

LEMMA DebtStep ==
  ASSUME \A price \in Prices : price >= 6
  PROVE  TypeInv /\ DebtInv /\ [Next]_vars /\ [DealsNotMoved]_vars => DebtInv'
<1>. SUFFICES ASSUME TypeInv, DebtInv, [Next]_vars, [DealsNotMoved]_vars
              PROVE  DebtInv'
  OBVIOUS
<1>1. ASSUME NEW t \in Threads, SubmitOrder(t) PROVE DebtInv'
  BY <1>1, SubmitOrderDebt
<1>2. ASSUME NEW t \in Threads, MakeADeal(t) PROVE DebtInv'
  BY <1>2, MakeADealDebt
<1>3. ASSUME NEW t \in Threads, OnOrderDone(t) PROVE DebtInv'
  BY <1>3, OnBuyOrderDoneDebt, OnSellOrderDoneDebt DEF OnOrderDone
<1>4. CASE UNCHANGED vars
  BY <1>4
  DEF vars, DebtInv, NeverInDebt, TermsCovered, DealWithinPrice, DoneHasPrice, Made
<1>5. ASSUME NEW t \in Threads, Cancel(t) PROVE DebtInv'
  BY <1>4, <1>5, CancelDebt
<1>6. ASSUME NEW o \in OrderIds,
             DropStale(o) \/ \E market \in Prices : Notify(o, market)
      PROVE  DebtInv'
  BY <1>6, MarketDataDebt
<1>. QED
  BY <1>1, <1>2, <1>3, <1>4, <1>5, <1>6 DEF Next

(* OnBuyOrder's check, and deals never above the order's price, keep the    *)
(* available capital from going below zero for any number of threads and    *)
(* orders, any interleaving of deals and cancellations (late and repeated   *)
(* ones too) and any failing database call, as long as no erase moves an    *)
(* order under the address of a call that deals it, and where shares cost 6 *)
(* or more: below that the minimum commission may eat up a very small sale. *)
THEOREM DebtNeedsMovedOrder ==
  ASSUME \A price \in Prices : price >= 6
  PROVE  Spec /\ [][DealsNotMoved]_vars => []NeverInDebt
<1>1. Init => TypeInv /\ DebtInv
  BY TypeInit, DebtInit
<1>2. TypeInv /\ DebtInv /\ [Next]_vars /\ [DealsNotMoved]_vars => (TypeInv /\ DebtInv)'
  BY TypeStep, DebtStep
<1>3. TypeInv /\ DebtInv => NeverInDebt
  BY DEF DebtInv
<1>. QED
  BY <1>1, <1>2, <1>3, PTL DEF Spec

(* Nothing is erased while nobody cancels, and a thread erases nothing      *)
(* while it deals.                                                         *)
CancelsAlone == Cancels = "none" \/ Threads = {Notifier}

NoCancels ==
  Cancels = "none" =>
    /\ ~shifted
    /\ \A t \in Threads : pc[t] \in {"idle", "deal", "done"}

LEMMA NoCancelsInit == Init => NoCancels
BY DEF Init, NoCancels

LEMMA NoCancelsStep == TypeInv /\ NoCancels /\ [Next]_vars => NoCancels'
<1>. SUFFICES ASSUME TypeInv, NoCancels, [Next]_vars, Cancels = "none"
              PROVE  NoCancels'
  BY DEF NoCancels
<1>1. \A t \in Threads : pc[t] \in {"idle", "deal", "done"} /\ ~shifted
  BY DEF NoCancels
<1>2. ASSUME NEW t \in Threads, NEW step \in {"idle", "deal", "done"},
             \/ pc' = pc
             \/ Goto(t, step),
             UNCHANGED shifted
      PROVE  NoCancels'
  BY <1>1, <1>2 DEF NoCancels, Goto, TypeInv, TypeOK
<1>3. ASSUME NEW t \in Threads, SubmitOrder(t) PROVE NoCancels'
  BY <1>2, <1>3
  DEF SubmitOrder, SubmitRejected, SubmitSellRefused, SubmitBuyRefused, SubmitBuy,
      SubmitSell, ReturnLocked, PushOrder
<1>4. ASSUME NEW t \in Threads, MakeADeal(t) \/ OnOrderDone(t) PROVE NoCancels'
  BY <1>2, <1>4
  DEF MakeADeal, OnOrderDone, OnBuyOrderDone, OnSellOrderDone, Finish
<1>5. ASSUME NEW t \in Threads, Cancel(t) PROVE FALSE
  BY <1>1, <1>5
  DEF Cancel, OnCancelOrder, MarkOrder, TestOperation, OnCancelBuyOrder,
      OnCancelSellOrder, EraseOrder, At
<1>6. ASSUME NEW o \in OrderIds,
             DropStale(o) \/ \E market \in Prices : Notify(o, market)
      PROVE  NoCancels'
  BY <1>2, <1>6, UserAccountAssumption DEF DropStale, Notify
<1>7. CASE UNCHANGED vars
  BY <1>1, <1>7 DEF vars, NoCancels
<1>. QED
  BY <1>3, <1>4, <1>5, <1>6, <1>7 DEF Next

LEMMA DealsStay ==
  ASSUME CancelsAlone
  PROVE  TypeInv /\ NoCancels /\ [Next]_vars => [DealsNotMoved]_vars
<1>. SUFFICES ASSUME TypeInv, NoCancels, Next,
                     NEW u \in Threads, pc[u] \in {"deal", "done"}, pc'[u] = pc[u]
              PROVE  cur'[u] = cur[u]
  BY DEF DealsNotMoved
<1>1. ASSUME NEW t \in Threads, SubmitOrder(t) PROVE cur'[u] = cur[u]
  BY <1>1
  DEF SubmitOrder, SubmitRejected, SubmitSellRefused, SubmitBuyRefused, SubmitBuy,
      SubmitSell, ReturnLocked, PushOrder, Idle, TypeInv, TypeOK
<1>2. ASSUME NEW t \in Threads, MakeADeal(t) PROVE cur'[u] = cur[u]
  BY <1>2 DEF MakeADeal
<1>3. ASSUME NEW t \in Threads, OnOrderDone(t) PROVE cur'[u] = cur[u]
  BY <1>3
  DEF OnOrderDone, OnBuyOrderDone, OnSellOrderDone, Finish, Goto, TypeInv, TypeOK
<1>4. ASSUME NEW t \in Threads, NEW o \in OrderIds, OnCancelOrder(t, o)
      PROVE  cur'[u] = cur[u]
  BY <1>4 DEF OnCancelOrder, Idle, TypeInv, TypeOK
<1>5. ASSUME NEW t \in Threads,
             \/ MarkOrder(t) \/ TestOperation(t) \/ OnCancelBuyOrder(t)
             \/ OnCancelSellOrder(t)
      PROVE  cur'[u] = cur[u]
  BY <1>5
  DEF MarkOrder, TestOperation, OnCancelBuyOrder, OnCancelSellOrder, CancelDone, Abort
<1>6. ASSUME NEW t \in Threads, EraseOrder(t) PROVE FALSE
  BY <1>6 DEF EraseOrder, At, CancelsAlone, NoCancels
<1>7. ASSUME NEW o \in OrderIds,
             DropStale(o) \/ \E market \in Prices : Notify(o, market)
      PROVE  cur'[u] = cur[u]
  BY <1>7 DEF DropStale, Notify, Idle, TypeInv, TypeOK
<1>. QED
  BY <1>1, <1>2, <1>3, <1>4, <1>5, <1>6, <1>7 DEF Next, Cancel

(* In particular the user is never in debt while nobody cancels, however    *)
(* many threads submit and deal, and while one thread does everything,      *)
(* whatever and whenever it cancels.                                       *)
THEOREM AccountNeverInDebt ==
  ASSUME CancelsAlone, \A price \in Prices : price >= 6
  PROVE  Spec => []NeverInDebt
<1>1. Init => TypeInv /\ NoCancels
  BY TypeInit, NoCancelsInit
<1>2. TypeInv /\ NoCancels /\ [Next]_vars => (TypeInv /\ NoCancels)'
  BY TypeStep, NoCancelsStep
<1>3. TypeInv /\ NoCancels /\ [Next]_vars => [DealsNotMoved]_vars
  BY DealsStay
<1>. QED
  BY <1>1, <1>2, <1>3, DebtNeedsMovedOrder, PTL DEF Spec

-----------------------------------------------------------------------------
(* What keeps an order from being settled twice: two threads never work on  *)
(* the same order, because the one that submits it keeps it from the        *)
(* engine, and the engine passes over what is dealt or cancelled.  That     *)
(* much is true while nobody cancels, or while one thread does everything   *)
(* and cancels only what is pending.                                       *)

CallsApart ==
  \/ Cancels = "none"
  \/ Cancels = "pending" /\ Threads = {Notifier}

UnmadeUnknown ==
  \A o \in OrderIds : ~Made(o) => released[o] = 0 /\ o \notin observers

WorkIsUnsettled ==
  \A t \in Threads :
    /\ pc[t] \in {"deal", "done", "mark", "ifBuy", "buy"} => released[cur[t][1]] = 0
    /\ pc[t] \in {"ifSell", "sell"} /\ order[cur[t][1]].op = "SELL"
         => released[cur[t][1]] = 0
    /\ pc[t] = "deal" => order[cur[t][1]].status = "PENDING"
    /\ pc[t] = "done" => order[cur[t][1]].status = "FINISHED"
    /\ pc[t] \in {"ifBuy", "buy", "ifSell", "sell"} => order[cur[t][1]].status = "CANCEL"
    /\ pc[t] = "buy" => order[cur[t][1]].op = "BUY"
    /\ pc[t] = "sell" => order[cur[t][1]].op = "SELL"

WorkIsApart ==
  \A t, u \in Threads :
    t # u /\ pc[t] # "idle" /\ pc[u] # "idle" => cur[t][1] # cur[u][1]

SubmittedUnwatched ==
  \A t \in Threads \ {Notifier} : pc[t] = "deal" => cur[t][1] \notin observers

SettledIsClosed ==
  \A o \in OrderIds : released[o] > 0 => order[o].status \in {"FINISHED", "CANCEL"}

OnceInv ==
  /\ ReleasedOnce /\ NoCancels /\ UnmadeUnknown /\ WorkIsUnsettled
  /\ WorkIsApart /\ SubmittedUnwatched /\ SettledIsClosed


(* A step that takes no order up and settles none.                          *)
LEMMA OnceUntouched ==
  ASSUME TypeInv, OnceInv,
         \A o \in OrderIds : Made(o) => order'[o] = order[o],
         \A o \in OrderIds : Made(o)' = Made(o),
         observers' \subseteq observers,
         UNCHANGED <<shifted, pc, cur, released>>
  PROVE  OnceInv'
<1>1. \A t \in Threads :
        pc[t] # "idle" => cur[t][1] \in OrderIds /\ Made(cur[t][1])
  BY CurrentOrder
<1>2. ReleasedOnce' /\ NoCancels' /\ WorkIsApart'
  BY DEF OnceInv, ReleasedOnce, NoCancels, WorkIsApart
<1>3. UnmadeUnknown'
  BY DEF OnceInv, UnmadeUnknown
<1>4. WorkIsUnsettled'
  BY <1>1 DEF OnceInv, WorkIsUnsettled
<1>5. SubmittedUnwatched'
  BY DEF OnceInv, SubmittedUnwatched
<1>6. SettledIsClosed'
  <2>1. \A o \in OrderIds : released[o] > 0 => Made(o)
    BY DEF OnceInv, UnmadeUnknown
  <2>. QED
    BY <2>1 DEF OnceInv, SettledIsClosed
<1>. QED
  BY <1>2, <1>3, <1>4, <1>5, <1>6 DEF OnceInv

LEMMA PushOrderOnce ==
  ASSUME TypeInv, OnceInv, NEW t \in Threads, pc[t] = "idle",
         NEW new \in OrderType, NEW market \in Prices,
         new.status = "PENDING", new.deal = 0, PushOrder(t, new, market)
  PROVE  OnceInv'
<1>1. PICK o \in Fresh :
        /\ order' = [order EXCEPT ![o] = new]
        /\ Watch(o, CanDeal(new.op, new.price, market))
        /\ IF CanDeal(new.op, new.price, market)
           THEN Goto(t, "deal") /\ cur' = [cur EXCEPT ![t] = <<o, market>>]
           ELSE UNCHANGED <<pc, cur>>
        /\ UNCHANGED <<shifted, released>>
  BY DEF PushOrder, NextId
<1>2. OrderAdded(o, new)
  BY <1>1 DEF OrderAdded
<1>3. /\ \A p \in OrderIds : Made(p) => order'[p] = order[p] /\ p # o
      /\ \A p \in OrderIds : Made(p)' => Made(p) \/ p = o
      /\ o \in OrderIds /\ order'[o] = new /\ ~Made(o)
  BY <1>2, AddedTerms
<1>4. Made(o)' /\ released[o] = 0 /\ o \notin observers
  BY <1>3 DEF Made, OnceInv, UnmadeUnknown
<1>5. \A u \in Threads :
        pc[u] # "idle" => cur[u][1] \in OrderIds /\ Made(cur[u][1]) /\ cur[u][1] # o
  BY <1>3, CurrentOrder
<1>6. /\ observers' \subseteq observers \cup {o}
      /\ \A u \in Threads :
           \/ pc'[u] = pc[u] /\ cur'[u] = cur[u]
           \/ u = t /\ pc'[u] = "deal" /\ cur'[u] = <<o, market>> /\ o \notin observers'
  BY <1>1, <1>4 DEF Watch, Goto, TypeInv, TypeOK
<1>7. ReleasedOnce' /\ NoCancels'
  BY <1>1, <1>6 DEF OnceInv, ReleasedOnce, NoCancels
<1>8. UnmadeUnknown'
  BY <1>1, <1>3, <1>4, <1>6 DEF OnceInv, UnmadeUnknown, Made
<1>9. WorkIsUnsettled'
  BY <1>1, <1>3, <1>4, <1>5, <1>6 DEF OnceInv, WorkIsUnsettled
<1>10. WorkIsApart'
  BY <1>5, <1>6 DEF OnceInv, WorkIsApart
<1>11. SubmittedUnwatched'
  BY <1>5, <1>6 DEF OnceInv, SubmittedUnwatched
<1>12. SettledIsClosed'
  <2>1. \A p \in OrderIds : released[p] > 0 => Made(p)
    BY DEF OnceInv, UnmadeUnknown
  <2>. QED
    BY <1>1, <1>3, <2>1 DEF OnceInv, SettledIsClosed
<1>. QED
  BY <1>7, <1>8, <1>9, <1>10, <1>11, <1>12 DEF OnceInv

LEMMA SubmitOrderOnce ==
  ASSUME TypeInv, OnceInv, NEW t \in Threads, SubmitOrder(t)
  PROVE  OnceInv'
<1>0. Nums \subseteq Nat
  BY UserAccountAssumption
<1>1. pc[t] = "idle"
  BY DEF SubmitOrder, SubmitRejected, SubmitSellRefused, SubmitBuyRefused, SubmitBuy,
         SubmitSell, Idle
<1>2. CASE ReturnLocked(t)
  BY <1>2, OnceUntouched DEF ReturnLocked, Made
<1>3. ASSUME NEW op \in {"BUY", "SELL"}, NEW g \in Groups, NEW price \in Prices,
             NEW num \in Nat, NEW expected \in Prices \cup {0}, NEW money \in Nat,
             NEW market \in Prices,
             PushOrder(t, NewOrder(op, g, price, num, expected, money), market)
      PROVE  OnceInv'
  <2>. DEFINE new == NewOrder(op, g, price, num, expected, money)
  <2>1. new \in OrderType /\ new.status = "PENDING"
    BY NewOrderType
  <2>2. new.deal = 0
    BY DEF NewOrder
  <2>3. PushOrder(t, new, market)
    BY <1>3
  <2>. HIDE DEF new
  <2>. QED
    BY <1>1, <2>1, <2>2, <2>3, PushOrderOnce
<1>4. ASSUME NEW g \in Groups, NEW price \in Prices, NEW num \in Nums,
             NEW market \in Prices, NEW expected \in Prices \cup {0},
             SubmitBuy(t, g, price, num, expected, market)
      PROVE  OnceInv'
  <2>. DEFINE need == BuyCost(price, num)
  <2>1. need \in Nat /\ num \in Nat
    BY <1>0, BuyCostType, UserAccountAssumption
  <2>2. \/ ReturnLocked(t)
        \/ PushOrder(t, NewOrder("BUY", g, price, num, expected, need), market)
    BY <1>4 DEF SubmitBuy
  <2>. HIDE DEF need
  <2>. QED
    BY <1>2, <1>3, <2>1, <2>2
<1>5. ASSUME NEW g \in Groups, NEW price \in Prices, NEW num \in Nums,
             NEW market \in Prices, SubmitSell(t, g, price, num, market)
      PROVE  OnceInv'
  <2>. DEFINE n == IF CanDelegate(position[g], num) THEN num ELSE position[g].available
  <2>1. n \in Nat
    BY <1>0, <1>5, UintModAssumption DEF SubmitSell, TypeInv, TypeOK, IsPosition, Uint
  <2>2. \/ ReturnLocked(t)
        \/ PushOrder(t, NewOrder("SELL", g, price, n, 0, 0), market)
    BY <1>5 DEF SubmitSell
  <2>. HIDE DEF n
  <2>. QED
    BY <1>2, <1>3, <2>1, <2>2
<1>. QED
  BY <1>2, <1>4, <1>5 DEF SubmitOrder, SubmitRejected, SubmitSellRefused, SubmitBuyRefused

LEMMA NotifyOnce ==
  ASSUME CallsApart, TypeInv, OnceInv, NEW o \in OrderIds, NEW market \in Prices, Notify(o, market)
  PROVE  OnceInv'
<1>1. /\ Cancels = "none" => o \in observers
      /\ order[o].status = "PENDING" /\ Made(o)
      /\ pc[Notifier] = "idle" /\ Notifier \in Threads
  BY UserAccountAssumption
  DEF Notify, Idle, OnceInv, NoCancels, TypeInv, ListIsMade
<1>2. released[o] = 0
  BY <1>1 DEF OnceInv, SettledIsClosed, TypeInv, TypeOK
<1>3. /\ UNCHANGED <<order, observers, shifted, released>>
      /\ \A u \in Threads :
           \/ pc'[u] = pc[u] /\ cur'[u] = cur[u] /\ u # Notifier
           \/ u = Notifier /\ pc'[u] = "deal" /\ cur'[u] = <<o, market>>
  BY <1>1 DEF Notify, Goto, TypeInv, TypeOK
<1>4. \A u \in Threads \ {Notifier} : pc[u] # "idle" => cur[u][1] # o
  BY <1>1 DEF CallsApart, OnceInv, NoCancels, SubmittedUnwatched, WorkIsUnsettled
<1>5. ReleasedOnce' /\ NoCancels' /\ UnmadeUnknown' /\ SettledIsClosed'
  BY <1>3 DEF OnceInv, ReleasedOnce, NoCancels, UnmadeUnknown, SettledIsClosed, Made
<1>6. WorkIsUnsettled'
  BY <1>1, <1>2, <1>3 DEF OnceInv, WorkIsUnsettled
<1>7. WorkIsApart'
  BY <1>3, <1>4 DEF OnceInv, WorkIsApart
<1>8. SubmittedUnwatched'
  BY <1>3 DEF OnceInv, SubmittedUnwatched
<1>. QED
  BY <1>5, <1>6, <1>7, <1>8 DEF OnceInv

LEMMA MakeADealOnce ==
  ASSUME TypeInv, OnceInv, NEW t \in Threads, MakeADeal(t)
  PROVE  OnceInv'
<1>. DEFINE o == cur[t][1]
<1>1. /\ o \in OrderIds /\ Made(o) /\ pc[t] = "deal"
      /\ \A p \in OrderIds \ {o} : order'[p] = order[p]
      /\ order'[o].status = "FINISHED"
  BY DealtTerms
<1>. HIDE DEF o
<1>2. /\ UNCHANGED <<observers, shifted, released, cur>> /\ cur[t][1] = o
      /\ \A u \in Threads : pc'[u] = IF u = t THEN "done" ELSE pc[u]
  BY DEF MakeADeal, Goto, TypeInv, TypeOK, o
<1>3. \A u \in Threads \ {t} : pc[u] # "idle" => cur[u][1] # o
  BY <1>1, <1>2 DEF OnceInv, WorkIsApart
<1>4. \A u \in Threads : pc[u] # "idle" => cur[u][1] \in OrderIds
  BY CurrentOrder
<1>5. ReleasedOnce' /\ NoCancels'
  BY <1>2 DEF OnceInv, ReleasedOnce, NoCancels
<1>6. UnmadeUnknown' /\ SettledIsClosed'
  BY <1>1, <1>2 DEF OnceInv, UnmadeUnknown, SettledIsClosed, Made
<1>7. WorkIsUnsettled'
  BY <1>1, <1>2, <1>3, <1>4 DEF OnceInv, WorkIsUnsettled
<1>8. WorkIsApart'
  BY <1>1, <1>2 DEF OnceInv, WorkIsApart
<1>9. SubmittedUnwatched'
  BY <1>2 DEF OnceInv, SubmittedUnwatched
<1>. QED
  BY <1>5, <1>6, <1>7, <1>8, <1>9 DEF OnceInv

(* Booking: the order is settled now, and was not before.                   *)
LEMMA FinishOnce ==
  ASSUME TypeInv, OnceInv, NEW t \in Threads, NEW o \in OrderIds,
         pc[t] = "done", o = cur[t][1], Finish(t, o), TypeInv',
         \A p \in OrderIds : Made(p) => order'[p] = order[p],
         \A p \in OrderIds : Made(p)' => Made(p) \/ p \in observers',
         \A p \in observers' : p \in observers \/ (p \in OrderIds /\ ~Made(p) /\ Made(p)')
  PROVE  OnceInv'
<1>1. \A u \in Threads :
        pc[u] # "idle" => cur[u][1] \in OrderIds /\ Made(cur[u][1])
  BY CurrentOrder
<1>2. /\ UNCHANGED shifted
      /\ \A u \in Threads :
           \/ u = t /\ pc'[u] = "idle"
           \/ u # t /\ pc'[u] = pc[u] /\ cur'[u] = cur[u]
      /\ \A p \in OrderIds : released'[p] = IF p = o THEN released[p] + 1 ELSE released[p]
  BY DEF Finish, Goto, TypeInv, TypeOK
<1>3. released[o] = 0 /\ order[o].status = "FINISHED" /\ Made(o)
  BY <1>1 DEF OnceInv, WorkIsUnsettled
<1>4. \A u \in Threads \ {t} : pc[u] # "idle" => cur[u][1] # o
  BY DEF OnceInv, WorkIsApart
<1>5. ReleasedOnce'
  BY <1>2, <1>3 DEF OnceInv, ReleasedOnce
<1>6. NoCancels'
  BY <1>2 DEF OnceInv, NoCancels
<1>7. UnmadeUnknown'
  <2>1. \A p \in OrderIds : Made(p) => Made(p)'
    BY DEF Made
  <2>. QED
    BY <1>2, <1>3, <2>1 DEF OnceInv, UnmadeUnknown
<1>8. WorkIsUnsettled'
  BY <1>1, <1>2, <1>4 DEF OnceInv, WorkIsUnsettled
<1>9. WorkIsApart'
  BY <1>2 DEF OnceInv, WorkIsApart
<1>10. SubmittedUnwatched'
  BY <1>1, <1>2 DEF OnceInv, SubmittedUnwatched
<1>11. SettledIsClosed'
  <2>1. \A p \in OrderIds : released[p] > 0 => Made(p)
    BY DEF OnceInv, UnmadeUnknown
  <2>. QED
    BY <1>2, <1>3, <2>1 DEF OnceInv, SettledIsClosed
<1>. QED
  BY <1>5, <1>6, <1>7, <1>8, <1>9, <1>10, <1>11 DEF OnceInv

LEMMA OnOrderDoneOnce ==
  ASSUME TypeInv, OnceInv, NEW t \in Threads, OnOrderDone(t)
  PROVE  OnceInv'
<1>. DEFINE o == cur[t][1]
<1>1. /\ o \in OrderIds /\ order[o] \in OrderType /\ Made(o)
      /\ pc[t] = "done" /\ Finish(t, o)
  BY CurrentOrder DEF OnOrderDone, OnBuyOrderDone, OnSellOrderDone, At
<1>2. TypeInv'
  BY OnBuyOrderDoneType, OnSellOrderDoneType DEF OnOrderDone
<1>. HIDE DEF o
<1>3. CASE UNCHANGED <<order, observers>>
  BY <1>1, <1>2, <1>3, FinishOnce DEF Made, o
<1>4. ASSUME NEW new \in Fresh, AutoOrder(o, new), order[o].expected # 0
      PROVE  OnceInv'
  <2>. DEFINE g == order[o].group
              e == order[o].expected
              n == order[o].num
              sale == NewOrder("SELL", g, e, n, 0, 0)
  <2>1. g \in Groups /\ e \in Prices /\ n \in Nat
    BY <1>1, <1>4, OrderNumbers
  <2>2. order' = [order EXCEPT ![new] = sale] /\ observers' = observers \cup {new}
    BY <1>4 DEF AutoOrder
  <2>. HIDE DEF g, e, n
  <2>3. OrderAdded(new, sale) /\ sale.status = "PENDING"
    BY <2>1, <2>2, NewOrderAdded, NewOrderType
  <2>. HIDE DEF sale
  <2>4. /\ \A p \in OrderIds : Made(p) => order'[p] = order[p]
        /\ \A p \in OrderIds : Made(p)' => Made(p) \/ p = new
        /\ new \in OrderIds /\ order'[new] = sale /\ ~Made(new)
    BY <2>3, AddedTerms
  <2>5. Made(new)'
    BY <2>3, <2>4 DEF Made
  <2>. QED
    BY <1>1, <1>2, <2>2, <2>4, <2>5, FinishOnce DEF o
<1>5. \/ UNCHANGED <<order, observers>>
      \/ order[o].expected # 0 /\ \E new \in Fresh : AutoOrder(o, new)
  BY DEF OnOrderDone, OnBuyOrderDone, OnSellOrderDone, NextId, o
<1>. QED
  BY <1>3, <1>4, <1>5

LEMMA OnceInit == Init => OnceInv
BY DEF Init, OnceInv, ReleasedOnce, NoCancels, UnmadeUnknown, WorkIsUnsettled,
       WorkIsApart, SubmittedUnwatched, SettledIsClosed

(* A cancellation takes an order nobody else works on, then releases it.    *)
LEMMA OnCancelOrderOnce ==
  ASSUME CallsApart, TypeInv, OnceInv, NEW t \in Threads, NEW o \in OrderIds,
         OnCancelOrder(t, o)
  PROVE  OnceInv'
<1>1. Cancels = "pending" /\ Threads = {Notifier} /\ order[o].status = "PENDING"
  BY DEF CallsApart, OnCancelOrder
<1>2. released[o] = 0
  BY <1>1 DEF OnceInv, SettledIsClosed, TypeInv, TypeOK
<1>3. /\ UNCHANGED <<order, observers, released>>
      /\ t = Notifier /\ pc'[t] = "mark" /\ cur'[t] = <<o, 0>>
  BY <1>1 DEF OnCancelOrder, Goto, TypeInv, TypeOK
<1>4. NoCancels' /\ WorkIsApart' /\ SubmittedUnwatched'
  BY <1>1, <1>3 DEF NoCancels, WorkIsApart, SubmittedUnwatched
<1>5. ReleasedOnce' /\ UnmadeUnknown' /\ SettledIsClosed'
  BY <1>3 DEF OnceInv, ReleasedOnce, UnmadeUnknown, SettledIsClosed, Made
<1>6. WorkIsUnsettled'
  BY <1>1, <1>2, <1>3 DEF WorkIsUnsettled
<1>. QED
  BY <1>4, <1>5, <1>6 DEF OnceInv

LEMMA MarkOrderOnce ==
  ASSUME CallsApart, TypeInv, OnceInv, NEW t \in Threads, MarkOrder(t)
  PROVE  OnceInv'
<1>. DEFINE o == cur[t][1]
<1>1. Cancels # "none" /\ Threads = {Notifier} /\ t = Notifier
  BY DEF CallsApart, OnceInv, NoCancels, MarkOrder, At
<1>2. /\ o \in OrderIds /\ Made(o) /\ pc[t] = "mark"
      /\ \A p \in OrderIds \ {o} : order'[p] = order[p]
      /\ order'[o].status = "CANCEL"
  BY CancelledTerms
<1>3. released[o] = 0
  BY <1>2 DEF OnceInv, WorkIsUnsettled
<1>4. UNCHANGED <<observers, released, cur>> /\ pc'[t] = "ifBuy"
  BY DEF MarkOrder, Goto, TypeInv, TypeOK
<1>5. NoCancels' /\ WorkIsApart' /\ SubmittedUnwatched'
  BY <1>1, <1>4 DEF NoCancels, WorkIsApart, SubmittedUnwatched
<1>6. WorkIsUnsettled'
  BY <1>1, <1>2, <1>3, <1>4 DEF WorkIsUnsettled
<1>. HIDE DEF o
<1>7. ReleasedOnce' /\ UnmadeUnknown' /\ SettledIsClosed'
  BY <1>2, <1>3, <1>4 DEF OnceInv, ReleasedOnce, UnmadeUnknown, SettledIsClosed, Made
<1>. QED
  BY <1>5, <1>6, <1>7 DEF OnceInv

LEMMA TestOperationOnce ==
  ASSUME CallsApart, TypeInv, OnceInv, NEW t \in Threads, TestOperation(t)
  PROVE  OnceInv'
<1>1. Cancels # "none" /\ Threads = {Notifier} /\ t = Notifier
  BY DEF CallsApart, OnceInv, NoCancels, TestOperation, At
<1>2. UNCHANGED <<order, observers, released, cur>>
  BY DEF TestOperation
<1>3. order[cur[t][1]].op \in {"BUY", "SELL"}
  BY CurrentOrder DEF TestOperation, At, OrderType
<1>4. LET op == order[cur[t][1]].op
      IN  \/ pc[t] = "ifBuy" /\ pc'[t] = IF op = "BUY" THEN "buy" ELSE "ifSell"
          \/ pc[t] = "ifSell" /\ pc'[t] = IF op = "SELL" THEN "sell" ELSE "erase"
  BY DEF TestOperation, At, Goto, TypeInv, TypeOK
<1>5. NoCancels' /\ WorkIsApart' /\ SubmittedUnwatched'
  BY <1>1, <1>2, <1>4 DEF NoCancels, WorkIsApart, SubmittedUnwatched
<1>6. WorkIsUnsettled'
  BY <1>1, <1>2, <1>3, <1>4 DEF OnceInv, WorkIsUnsettled
<1>7. ReleasedOnce' /\ UnmadeUnknown' /\ SettledIsClosed'
  BY <1>2 DEF OnceInv, ReleasedOnce, UnmadeUnknown, SettledIsClosed, Made
<1>. QED
  BY <1>5, <1>6, <1>7 DEF OnceInv

LEMMA CancelDoneOnce ==
  ASSUME CallsApart, TypeInv, OnceInv, NEW t \in Threads, NEW o \in OrderIds,
         NEW step, \/ pc[t] = "buy" /\ step = "ifSell"
                   \/ pc[t] = "sell" /\ step = "erase",
         o = cur[t][1], CancelDone(t, o, step)
  PROVE  OnceInv'
<1>1. Cancels # "none" /\ Threads = {Notifier} /\ t = Notifier
  BY DEF CallsApart, OnceInv, NoCancels
<1>2. /\ order[o].status = "CANCEL" /\ Made(o) /\ released[o] = 0
      /\ pc[t] = "buy" => order[o].op = "BUY"
  BY CurrentOrder DEF OnceInv, WorkIsUnsettled
<1>3. /\ UNCHANGED <<order, observers, cur>> /\ pc'[t] = step
      /\ \A p \in OrderIds : released'[p] = IF p = o THEN released[p] + 1 ELSE released[p]
  BY DEF CancelDone, Goto, TypeInv, TypeOK
<1>4. NoCancels' /\ WorkIsApart' /\ SubmittedUnwatched' /\ WorkIsUnsettled'
  BY <1>1, <1>2, <1>3 DEF NoCancels, WorkIsApart, SubmittedUnwatched, WorkIsUnsettled
<1>5. ReleasedOnce' /\ UnmadeUnknown' /\ SettledIsClosed'
  BY <1>2, <1>3 DEF OnceInv, ReleasedOnce, UnmadeUnknown, SettledIsClosed, Made
<1>. QED
  BY <1>4, <1>5 DEF OnceInv

LEMMA EraseOrderOnce ==
  ASSUME CallsApart, TypeInv, OnceInv, NEW t \in Threads, EraseOrder(t), ~Abort
  PROVE  OnceInv'
<1>1. Cancels # "none" /\ Threads = {Notifier} /\ t = Notifier
  BY DEF CallsApart, OnceInv, NoCancels, EraseOrder, At
<1>2. UNCHANGED <<order, observers, released>> /\ pc'[t] = "idle"
  BY DEF EraseOrder, Goto, TypeInv, TypeOK
<1>3. NoCancels' /\ WorkIsApart' /\ SubmittedUnwatched' /\ WorkIsUnsettled'
  BY <1>1, <1>2 DEF NoCancels, WorkIsApart, SubmittedUnwatched, WorkIsUnsettled
<1>4. ReleasedOnce' /\ UnmadeUnknown' /\ SettledIsClosed'
  BY <1>2 DEF OnceInv, ReleasedOnce, UnmadeUnknown, SettledIsClosed, Made
<1>. QED
  BY <1>3, <1>4 DEF OnceInv

LEMMA CancelOnce ==
  ASSUME CallsApart, TypeInv, OnceInv, NEW t \in Threads, Cancel(t)
  PROVE  OnceInv'
<1>1. CASE OnCancelBuyOrder(t) \/ (OnCancelSellOrder(t) /\ ~Abort)
  BY <1>1, CurrentOrder, CancelDoneOnce DEF OnCancelBuyOrder, OnCancelSellOrder, At
<1>2. CASE Abort
  BY <1>2, OnceUntouched DEF Abort, Made
<1>. QED
  BY <1>1, <1>2, OnCancelOrderOnce, MarkOrderOnce, TestOperationOnce, EraseOrderOnce
  DEF Cancel

LEMMA OnceStep ==
  ASSUME CallsApart
  PROVE  TypeInv /\ OnceInv /\ [Next]_vars => OnceInv'
<1>. SUFFICES ASSUME TypeInv, OnceInv, [Next]_vars PROVE OnceInv'
  OBVIOUS
<1>1. ASSUME NEW t \in Threads, SubmitOrder(t) PROVE OnceInv'
  BY <1>1, SubmitOrderOnce
<1>2. ASSUME NEW t \in Threads, MakeADeal(t) PROVE OnceInv'
  BY <1>2, MakeADealOnce
<1>3. ASSUME NEW t \in Threads, OnOrderDone(t) PROVE OnceInv'
  BY <1>3, OnOrderDoneOnce
<1>4. ASSUME NEW t \in Threads, Cancel(t) PROVE OnceInv'
  BY <1>4, CancelOnce
<1>5. ASSUME NEW o \in OrderIds, DropStale(o) PROVE OnceInv'
  BY <1>5, OnceUntouched DEF DropStale, Made
<1>6. ASSUME NEW o \in OrderIds, NEW market \in Prices, Notify(o, market)
      PROVE  OnceInv'
  BY <1>6, NotifyOnce
<1>7. CASE UNCHANGED vars
  BY <1>7, OnceUntouched DEF vars, Made
<1>. QED
  BY <1>1, <1>2, <1>3, <1>4, <1>5, <1>6, <1>7 DEF Next

(* While nobody cancels, or while one thread does everything and cancels    *)
(* only what is pending, no order is settled twice, although MakeADeal runs *)
(* outside the account's lock and looks at no status: SubmitOrder attaches  *)
(* to the engine only what it does not deal itself, and Notify passes over  *)
(* what is no longer pending.                                              *)
THEOREM AccountReleasedOnce ==
  ASSUME CallsApart
  PROVE  Spec => []ReleasedOnce
<1>1. Init => TypeInv /\ OnceInv
  BY TypeInit, OnceInit
<1>2. TypeInv /\ OnceInv /\ [Next]_vars => (TypeInv /\ OnceInv)'
  BY TypeStep, OnceStep
<1>3. TypeInv /\ OnceInv => ReleasedOnce
  BY DEF OnceInv
<1>. QED
  BY <1>1, <1>2, <1>3, PTL DEF Spec
=============================================================================
