----------------------- MODULE AccountRecoveryProofs -----------------------
(***************************************************************************)
(* What AccountRecovery promises about a restart, for every number of       *)
(* threads, groups and orders.  The invariant has three parts:              *)
(*                                                                         *)
(*   RecTypes   what the variables hold;                                   *)
(*   StoredInv  every order is stored, and PENDING there while it is open;  *)
(*              each lot held is a row of holding_record, with at least     *)
(*              the shares of the lot;                                     *)
(*   BooksInv   the lots are the rows, they add up to the position, and no  *)
(*              sale the database still calls PENDING is settled.           *)
(*                                                                         *)
(* StoredInv holds whatever fails.  BooksInv holds as long as the account   *)
(* is `Clean': the end of every sale was stored and no lot went below zero, *)
(* which once lost is lost for good.  SyncInv adds what is equal on both    *)
(* sides while no call has failed since the last restart.                   *)
(***************************************************************************)
EXTENDS AccountRecovery, UserAccountLedger

HeldLots(g) == IF position[g] = NoPosition THEN <<>> ELSE position[g].lots

LotsTyped == \A g \in Groups : HeldLots(g) \in Seq(TradedLot)

DbTyped ==
  /\ dbFree \in Int /\ dbHeld \in Int
  /\ dbOrder \in [OrderIds -> OrderType \cup {NoOrder}]
  /\ dbRow \in [OrderIds -> Int \cup {NoHolding}]
  /\ synced \in BOOLEAN /\ unmarked \in BOOLEAN
  /\ restarts \in 0 .. MaxRestarts

RecTypes == TypeInv /\ DbTyped /\ LotsTyped

-----------------------------------------------------------------------------
(* What a sale does to the lots.                                            *)

SoldLotsOf(lots, n) == SellLots(SortedLots(lots), n)

VisitedOf(lots, n) == Visited(SortedLots(lots), n)

(* A lot after a sale, and what it was before.                              *)
LeftOf(after, before) ==
  after.id = before.id /\ after.price = before.price /\ after.count <= before.count

LEMMA TradedLotTaken ==
  ASSUME NEW lot \in TradedLot, NEW d \in Nat
  PROVE  LeftOf([lot EXCEPT !.count = @ - d], lot)
BY DEF TradedLot, LeftOf

(* Each lot is left with what it had or less, the same where the loop did   *)
(* not come, and no two have the same id if none had.                       *)
LEMMA SaleOfLots ==
  ASSUME NEW lots \in Seq(TradedLot), NEW n \in Nat
  PROVE  /\ SoldLotsOf(lots, n) \in Seq(TradedLot)
         /\ DOMAIN SoldLotsOf(lots, n) = DOMAIN lots
         /\ VisitedOf(lots, n) \in 0 .. Len(lots)
         /\ lots # <<>> => VisitedOf(lots, n) >= 1
         /\ \A j \in DOMAIN lots : \E i \in DOMAIN lots :
              /\ LeftOf(SoldLotsOf(lots, n)[j], lots[i])
              /\ j > VisitedOf(lots, n) => SoldLotsOf(lots, n)[j] = lots[i]
         /\ \A i \in DOMAIN lots : \E j \in DOMAIN lots :
              /\ LeftOf(SoldLotsOf(lots, n)[j], lots[i])
              /\ j > VisitedOf(lots, n) => SoldLotsOf(lots, n)[j] = lots[i]
         /\ (\A i, j \in DOMAIN lots : lots[i].id = lots[j].id => i = j)
              => \A i, j \in DOMAIN lots :
                   SoldLotsOf(lots, n)[i].id = SoldLotsOf(lots, n)[j].id => i = j
<1>. DEFINE D == DOMAIN lots
            sorted == SortedLots(lots)
            sold == SellLots(sorted, n)
            k == Visited(sorted, n)
<1>0. LotKind(TradedLot) /\ D = 1 .. Len(lots) /\ Len(lots) \in Nat
  BY TradedLotKind, DomainFinite
<1>1. /\ sorted \in Seq(TradedLot) /\ DOMAIN sorted = D /\ Len(sorted) = Len(lots)
      /\ Sorts(sorted, lots)
  BY <1>0, SortedLotsSorts
<1>2. PICK p \in Bijection(D, D) : \A i \in D : sorted[i] = lots[p[i]]
  BY <1>1 DEF Sorts
<1>3. /\ \A i \in D : p[i] \in D
      /\ \A i, j \in D : p[i] = p[j] => i = j
      /\ \A j \in D : \E i \in D : p[i] = j
  BY <1>2 DEF Bijection, Injection, Surjection, IsInjective
<1>. HIDE DEF sorted
<1>4. /\ k \in 0 .. Len(lots) /\ (sorted # <<>> => k >= 1)
      /\ \A i \in D : i <= k => Demand(sorted, n)[i] >= 0
      /\ \A i \in D : Demand(sorted, n)[i] \in Int
  <2>1. /\ k \in 0 .. Len(sorted) /\ (sorted # <<>> => k >= 1)
        /\ \A i \in DOMAIN sorted : i <= k => Demand(sorted, n)[i] >= 0
    BY <1>0, <1>1, VisitedIs
  <2>2. \A i \in DOMAIN sorted : Demand(sorted, n)[i] \in Int
    BY <1>0, <1>1, DemandIs
  <2>. QED
    BY <1>1, <2>1, <2>2
<1>5. /\ sold \in Seq(TradedLot) /\ DOMAIN sold = D
      /\ \A i \in D :
           sold[i] = IF i <= k THEN [sorted[i] EXCEPT !.count = @ - Demand(sorted, n)[i]]
                     ELSE sorted[i]
  BY <1>0, <1>1, SellLotsIs
<1>6. \A i \in D : sorted[i] \in TradedLot /\ sorted[i].count \in Int
  <2>1. \A i \in D : sorted[i] \in TradedLot
    BY <1>1
  <2>. QED
    BY <2>1 DEF TradedLot
<1>. HIDE DEF sold, k
<1>7. ASSUME NEW j \in D
      PROVE  LeftOf(sold[j], sorted[j]) /\ (j > k => sold[j] = sorted[j])
  <2>1. j \in Int /\ k \in Int
    BY <1>0, <1>4
  <2>2. CASE j <= k
    <3>1. Demand(sorted, n)[j] \in Nat
      BY <1>4, <2>2
    <3>2. sold[j] = [sorted[j] EXCEPT !.count = @ - Demand(sorted, n)[j]]
      BY <1>5, <2>2
    <3>3. LeftOf(sold[j], sorted[j])
      BY <1>6, <3>1, <3>2, TradedLotTaken
    <3>. QED
      BY <2>1, <2>2, <3>3
  <2>3. CASE ~(j <= k)
    <3>1. sold[j] = sorted[j]
      BY <1>5, <2>3
    <3>. QED
      BY <1>6, <3>1 DEF LeftOf
  <2>. QED
    BY <2>2, <2>3
<1>8. ASSUME NEW j \in D
      PROVE  \E i \in D : LeftOf(sold[j], lots[i]) /\ (j > k => sold[j] = lots[i])
  <2>1. p[j] \in D /\ sorted[j] = lots[p[j]]
    BY <1>2, <1>3
  <2>. QED
    BY <1>7, <2>1
<1>9. ASSUME NEW i \in D
      PROVE  \E j \in D : LeftOf(sold[j], lots[i]) /\ (j > k => sold[j] = lots[i])
  <2>1. PICK j \in D : p[j] = i
    BY <1>3
  <2>2. sorted[j] = lots[i]
    BY <1>2, <2>1
  <2>. QED
    BY <1>7, <2>2
<1>10. ASSUME \A i, j \in D : lots[i].id = lots[j].id => i = j,
              NEW i \in D, NEW j \in D, sold[i].id = sold[j].id
       PROVE  i = j
  <2>1. sorted[i].id = sorted[j].id
    BY <1>7, <1>10 DEF LeftOf
  <2>2. /\ p[i] \in D /\ sorted[i] = lots[p[i]]
        /\ p[j] \in D /\ sorted[j] = lots[p[j]]
    BY <1>2, <1>3
  <2>3. p[i] = p[j]
    BY <1>10, <2>1, <2>2
  <2>. QED
    BY <1>3, <2>3
<1>11. lots # <<>> => k >= 1
  <2>1. lots # <<>> => Len(lots) # 0
    BY EmptySeq
  <2>2. sorted = <<>> => Len(sorted) = 0
    OBVIOUS
  <2>. QED
    BY <1>1, <1>4, <2>1, <2>2
<1>. QED
  BY <1>4, <1>5, <1>8, <1>9, <1>10, <1>11 DEF SoldLotsOf, VisitedOf, sold, k, sorted
-----------------------------------------------------------------------------
(* What a step does to the lots held.                                       *)

LEMMA LotsStay ==
  ASSUME position' = position
  PROVE  \A h \in Groups : HeldLots(h)' = HeldLots(h)
BY DEF HeldLots

LEMMA LotsReplaced ==
  ASSUME ~IsPosition(NoPosition), TypeInv, NEW g \in Groups, NEW new, IsPosition(new),
         position' = [position EXCEPT ![g] = new]
  PROVE  /\ HeldLots(g)' = new.lots
         /\ \A h \in Groups : h # g => HeldLots(h)' = HeldLots(h)
<1>1. position'[g] = new /\ \A h \in Groups : h # g => position'[h] = position[h]
  BY DEF TypeInv, TypeOK
<1>. QED
  BY <1>1 DEF HeldLots

(* Delegated and given back, the shares stay in the lots.                   *)
LEMMA LotsUndisturbed ==
  ASSUME ~IsPosition(NoPosition), TypeInv, NEW g \in Groups, position[g] # NoPosition,
         NEW n \in Nat,
         \/ position' = [position EXCEPT ![g] = Delegate(position[g], n)]
         \/ position' = [position EXCEPT ![g] = OnOrderCancel(position[g], n)]
  PROVE  \A h \in Groups : HeldLots(h)' = HeldLots(h)
<1>1. IsPosition(position[g])
  BY DEF TypeInv, TypeOK
<1>2. PICK new : /\ IsPosition(new) /\ new.lots = position[g].lots
                 /\ position' = [position EXCEPT ![g] = new]
  BY <1>1, DelegateType, OnOrderCancelType, KeptLots
<1>3. HeldLots(g) = new.lots
  BY <1>2 DEF HeldLots
<1>. QED
  BY <1>2, <1>3, LotsReplaced

-----------------------------------------------------------------------------
(* What each step does, as far as the database is concerned.                *)

LEMMA OneNewId ==
  ASSUME TypeInv, NEW new, NEW terms, OrderAdded(new, terms)
  PROVE  NewIds = {new} /\ order'[new] = terms
<1>1. /\ \A p \in OrderIds : Made(p)' => Made(p) \/ p = new
      /\ new \in OrderIds /\ order'[new] = terms /\ ~Made(new)
  BY AddedTerms
<1>2. terms.status = "PENDING"
  BY DEF OrderAdded
<1>. QED
  BY <1>1, <1>2 DEF NewIds, Made

LEMMA NoNewIds ==
  ASSUME order' = order
  PROVE  NewIds = {}
BY DEF NewIds, Made

(* A step that leaves the deals and cancellations under way alone.          *)
WorkGoesOn(t) ==
  /\ pc[t] = "idle"
  /\ \A u \in Threads \ {t} : pc'[u] = pc[u] /\ cur'[u] = cur[u]

LEMMA PushedEffect ==
  ASSUME TypeInv, NEW t \in Threads, pc[t] = "idle",
         NEW op \in {"BUY", "SELL"}, NEW g \in Groups, NEW price \in Prices,
         NEW num \in Nat, NEW expected \in Prices \cup {0}, NEW money \in Nat,
         NEW market \in Prices,
         PushOrder(t, NewOrder(op, g, price, num, expected, money), market)
  PROVE  /\ WorkGoesOn(t) /\ UNCHANGED <<released, dbErrors>>
         /\ \E o \in OrderIds : /\ OrderAdded(o, order'[o]) /\ NewIds = {o}
                                /\ order'[o].frozen = money
<1>. DEFINE new == NewOrder(op, g, price, num, expected, money)
<1>1. PICK o \in Fresh : /\ order' = [order EXCEPT ![o] = new]
                         /\ \/ pc' = [pc EXCEPT ![t] = "deal"]
                               /\ cur' = [cur EXCEPT ![t] = <<o, market>>]
                            \/ UNCHANGED <<pc, cur>>
                         /\ UNCHANGED <<released, dbErrors>>
  BY DEF PushOrder, Goto, NextId
<1>2. OrderAdded(o, new) /\ new.frozen = money
  BY <1>1, NewOrderAdded DEF NewOrder
<1>. HIDE DEF new
<1>3. NewIds = {o} /\ order'[o] = new /\ o \in OrderIds
  BY <1>2, OneNewId DEF Fresh
<1>4. WorkGoesOn(t)
  BY <1>1 DEF WorkGoesOn, TypeInv, TypeOK
<1>. QED
  BY <1>1, <1>2, <1>3, <1>4

LEMMA SubmitEffect ==
  ASSUME ~IsPosition(NoPosition), TypeInv, NEW t \in Threads, NEW g \in Groups,
         NEW price \in Prices, NEW num \in Nums, NEW market \in Prices,
         StoredSubmit(t, g, price, num, market)
  PROVE  /\ SubmitOrder(t) /\ WorkGoesOn(t)
         /\ \A h \in Groups : HeldLots(h)' = HeldLots(h)
         /\ UNCHANGED <<released, unmarked>> /\ (synced' => synced)
         /\ \/ /\ UNCHANGED order /\ NotStored
               /\ synced' => UNCHANGED <<available, frozen>>
            \/ \E o \in OrderIds :
                 /\ OrderAdded(o, order'[o]) /\ StoreNew(o)
                 /\ available' = available - order'[o].frozen
                 /\ frozen' = frozen + order'[o].frozen
<1>0. /\ num \in Nat /\ dbErrors \in Int /\ available \in Int /\ frozen \in Int
      /\ pc \in [Threads -> Steps] /\ 0 \in Nat
  BY UserAccountAssumption DEF TypeInv, TypeOK
<1>1. /\ UNCHANGED unmarked /\ synced' = (synced /\ ~(dbErrors' # dbErrors))
      /\ IF NewIds = {} THEN NotStored ELSE \E o \in NewIds : StoreNew(o)
  BY DEF StoredSubmit, Noted, Failing
<1>2. ASSUME ReturnLocked(t), pc[t] = "idle"
      PROVE  UNCHANGED <<order, released>> /\ NotStored /\ WorkGoesOn(t)
  BY <1>1, <1>2, NoNewIds DEF ReturnLocked, WorkGoesOn
<1>3. ASSUME NEW expected \in Prices \cup {0},
             SubmitBuy(t, g, price, num, expected, market)
      PROVE  /\ \A h \in Groups : HeldLots(h)' = HeldLots(h)
             /\ WorkGoesOn(t) /\ UNCHANGED released
             /\ \/ UNCHANGED order /\ NotStored /\ ~synced'
                \/ \E o \in OrderIds :
                     /\ OrderAdded(o, order'[o]) /\ StoreNew(o)
                     /\ available' = available - order'[o].frozen
                     /\ frozen' = frozen + order'[o].frozen
  <2>. DEFINE need == BuyCost(price, num)
  <2>1. need \in Nat /\ pc[t] = "idle"
    BY <1>0, <1>3, BuyCostType, UserAccountAssumption DEF SubmitBuy, Idle
  <2>2. /\ available' = available - need /\ frozen' = frozen + need
        /\ position' = position
    BY <1>3 DEF SubmitBuy, Freeze
  <2>3. \/ DbError /\ ReturnLocked(t)
        \/ PushOrder(t, NewOrder("BUY", g, price, num, expected, need), market)
    BY <1>3 DEF SubmitBuy
  <2>. HIDE DEF need
  <2>4. CASE DbError /\ ReturnLocked(t)
    <3>0. dbErrors' # dbErrors
      BY <1>0, <2>4 DEF DbError
    <3>1. ~synced'
      BY <1>1, <3>0
    <3>. QED
      BY <1>2, <2>1, <2>2, <2>4, <3>1, LotsStay
  <2>5. CASE PushOrder(t, NewOrder("BUY", g, price, num, expected, need), market)
    <3>1. /\ WorkGoesOn(t) /\ UNCHANGED released
          /\ \E o \in OrderIds : /\ OrderAdded(o, order'[o]) /\ NewIds = {o}
                                 /\ order'[o].frozen = need
      BY <1>0, <2>1, <2>5, PushedEffect
    <3>. QED
      BY <1>1, <2>2, <3>1, LotsStay
  <2>. QED
    BY <2>3, <2>4, <2>5
<1>4. ASSUME SubmitSell(t, g, price, num, market)
      PROVE  /\ \A h \in Groups : HeldLots(h)' = HeldLots(h)
             /\ WorkGoesOn(t) /\ UNCHANGED released
             /\ \/ UNCHANGED <<order, available, frozen>> /\ NotStored
                \/ \E o \in OrderIds :
                     /\ OrderAdded(o, order'[o]) /\ StoreNew(o)
                     /\ available' = available - order'[o].frozen
                     /\ frozen' = frozen + order'[o].frozen
  <2>. DEFINE cut == IF CanDelegate(position[g], num) THEN num ELSE position[g].available
  <2>1. position[g] # NoPosition /\ cut \in Nat /\ pc[t] = "idle"
    BY <1>0, <1>4, UintModAssumption DEF SubmitSell, Idle, TypeInv, TypeOK, IsPosition, Uint
  <2>2. /\ position' = [position EXCEPT ![g] = Delegate(position[g], cut)]
        /\ UNCHANGED <<available, frozen>>
    BY <1>4 DEF SubmitSell
  <2>3. \/ ReturnLocked(t)
        \/ PushOrder(t, NewOrder("SELL", g, price, cut, 0, 0), market)
    BY <1>4 DEF SubmitSell
  <2>. HIDE DEF cut
  <2>4. \A h \in Groups : HeldLots(h)' = HeldLots(h)
    BY <2>1, <2>2, LotsUndisturbed
  <2>5. CASE ReturnLocked(t)
    BY <1>2, <2>1, <2>2, <2>4, <2>5
  <2>6. CASE PushOrder(t, NewOrder("SELL", g, price, cut, 0, 0), market)
    <3>1. /\ WorkGoesOn(t) /\ UNCHANGED released
          /\ \E o \in OrderIds : /\ OrderAdded(o, order'[o]) /\ NewIds = {o}
                                 /\ order'[o].frozen = 0
      BY <1>0, <2>1, <2>6, PushedEffect
    <3>2. available' = available - 0 /\ frozen' = frozen + 0
      BY <1>0, <2>2
    <3>. QED
      BY <1>1, <2>4, <3>1, <3>2
  <2>. QED
    BY <2>3, <2>5, <2>6
<1>5. SubmitOrder(t)
  BY DEF StoredSubmit, SubmitOrder
<1>6. \/ \E expected \in Prices \cup {0} : SubmitBuy(t, g, price, num, expected, market)
      \/ SubmitSell(t, g, price, num, market)
  BY DEF StoredSubmit
<1>. QED
  BY <1>1, <1>3, <1>4, <1>5, <1>6
(* A deal or a cancellation comes to its end at the database.               *)
Settles(t, o, step) ==
  /\ o \in OrderIds /\ order[o] \in OrderType /\ Made(o)
  /\ o = cur[t][1]
  /\ released' = [released EXCEPT ![o] = @ + 1]
  /\ \A u \in Threads \ {t} : pc'[u] = pc[u] /\ cur'[u] = cur[u]
  /\ pc[t] = step

LEMMA FinishSettles ==
  ASSUME TypeInv, NEW t \in Threads, pc[t] = "done", Finish(t, cur[t][1])
  PROVE  Settles(t, cur[t][1], "done")
BY CurrentOrder DEF Finish, Goto, Settles, TypeInv, TypeOK

(* OnOrderDone of a purchase: nothing is stored when the first call fails.  *)
LEMMA BuyDoneEffect ==
  ASSUME ~IsPosition(NoPosition), TypeInv, LotsTyped, NEW t \in Threads, StoredBuyDone(t)
  PROVE  \E o \in OrderIds, g \in Groups :
           /\ OnBuyOrderDone(t) /\ Settles(t, o, "done")
           /\ order[o].op = "BUY" /\ g = order[o].group /\ order[o].num \in Nat
           /\ UNCHANGED unmarked /\ (synced' => synced)
           /\ frozen' = frozen - order[o].frozen
           /\ \A h \in Groups : h # g => HeldLots(h)' = HeldLots(h)
           /\ \/ /\ UNCHANGED order /\ NotStored /\ ~synced'
                 /\ HeldLots(g)' = HeldLots(g)
              \/ /\ HeldLots(g)' = Append(HeldLots(g), BoughtLot(o))
                 /\ dbFree' = available' /\ dbHeld' = dbHeld - order[o].frozen
                 /\ dbRow' = [dbRow EXCEPT ![o] = order[o].num]
                 /\ UNCHANGED order \/ \E new \in OrderIds : OrderAdded(new, order'[new])
                 /\ dbOrder' = [i \in OrderIds |->
                       IF i = o \/ i \in NewIds THEN order'[i] ELSE dbOrder[i]]
<1>1. PICK o \in OrderIds : o = cur[t][1]
  BY CurrentOrder DEF StoredBuyDone, OnBuyOrderDone, At
<1>2. /\ order[o] \in OrderType /\ Made(o) /\ order[o].op = "BUY" /\ pc[t] = "done"
  BY <1>1, CurrentOrder DEF StoredBuyDone, OnBuyOrderDone, At
<1>3. PICK g \in Groups, n \in Nat : g = order[o].group /\ n = order[o].num
  BY <1>2, OrderNumbers
<1>4. Settles(t, o, "done") /\ frozen' = frozen - order[o].frozen /\ OnBuyOrderDone(t)
  BY <1>1, <1>2, FinishSettles DEF StoredBuyDone, OnBuyOrderDone, Spend
<1>5. UNCHANGED unmarked /\ synced' = (synced /\ ~(dbErrors' # dbErrors))
  BY DEF StoredBuyDone, Noted, Failing
<1>6. IF position' = position
      THEN NotStored
      ELSE /\ dbFree' = available' /\ dbHeld' = dbHeld - order[o].frozen
           /\ dbRow' = [dbRow EXCEPT ![o] = order[o].num]
           /\ dbOrder' = [i \in OrderIds |->
                 IF i = o \/ i \in NewIds THEN order'[i] ELSE dbOrder[i]]
  BY <1>1 DEF StoredBuyDone, StoreAvailable, BoughtShares
<1>. DEFINE e == order[o].expected
            lot == BoughtLot(o)
            held == AddLot(PositionOf(g), lot)
            sale == NewOrder("SELL", g, e, n, 0, 0)
<1>7. (e # 0 => e \in Prices) /\ lot.count = n
  BY <1>2, <1>3, OrderNumbers DEF BoughtLot
<1>8. \/ DbError /\ order' = order /\ position' = position
      \/ order' = order /\ position' = [position EXCEPT ![g] = held]
      \/ /\ e # 0
         /\ \E new \in Fresh : order' = [order EXCEPT ![new] = sale]
         /\ position' = [position EXCEPT ![g] = Delegate(held, n)]
  BY <1>1, <1>3, <1>4 DEF OnBuyOrderDone, AutoOrder, NextId
<1>9. /\ IsPosition(PositionOf(g)) /\ PositionOf(g).lots = HeldLots(g)
  <2>1. CASE position[g] = NoPosition
    BY <2>1, EmptyPositionType DEF PositionOf, HeldLots, EmptyPosition
  <2>2. CASE position[g] # NoPosition
    BY <2>2 DEF PositionOf, HeldLots, TypeInv, TypeOK
  <2>. QED
    BY <2>1, <2>2
<1>10. IsPosition(held) /\ held.lots = Append(HeldLots(g), lot)
  BY <1>7, <1>9, AddLotType, AddedLots
<1>. HIDE DEF e, lot, held
<1>11. ASSUME NEW new, IsPosition(new), new.lots = Append(HeldLots(g), lot),
              position' = [position EXCEPT ![g] = new]
       PROVE  /\ HeldLots(g)' = Append(HeldLots(g), lot) /\ position' # position
              /\ \A h \in Groups : h # g => HeldLots(h)' = HeldLots(h)
  <2>1. /\ HeldLots(g)' = Append(HeldLots(g), lot)
        /\ \A h \in Groups : h # g => HeldLots(h)' = HeldLots(h)
    BY <1>11, LotsReplaced
  <2>2. Append(HeldLots(g), lot) # HeldLots(g)
    <3>1. HeldLots(g) \in Seq(TradedLot) /\ lot \in TradedLot
      BY <1>2, BoughtLotIs DEF LotsTyped, lot
    <3>2. Len(Append(HeldLots(g), lot)) = Len(HeldLots(g)) + 1 /\ Len(HeldLots(g)) \in Nat
      BY <3>1, AppendProperties, LenProperties
    <3>. QED
      BY <3>2
  <2>. QED
    BY <2>1, <2>2, LotsStay
<1>12. CASE DbError /\ order' = order /\ position' = position
  <2>1. dbErrors' # dbErrors
    BY <1>12 DEF DbError, TypeInv, TypeOK
  <2>2. ~synced'
    BY <1>5, <2>1
  <2>3. NotStored
    BY <1>6, <1>12
  <2>. QED
    BY <1>2, <1>3, <1>4, <1>5, <1>12, <2>2, <2>3, LotsStay
<1>13. CASE order' = order /\ position' = [position EXCEPT ![g] = held]
  <2>1. /\ HeldLots(g)' = Append(HeldLots(g), lot) /\ position' # position
        /\ \A h \in Groups : h # g => HeldLots(h)' = HeldLots(h)
    BY <1>10, <1>11, <1>13
  <2>. QED
    BY <1>2, <1>3, <1>4, <1>5, <1>6, <1>13, <2>1 DEF lot
<1>14. CASE /\ e # 0
            /\ \E new \in Fresh : order' = [order EXCEPT ![new] = sale]
            /\ position' = [position EXCEPT ![g] = Delegate(held, n)]
  <2>1. IsPosition(Delegate(held, n)) /\ Delegate(held, n).lots = Append(HeldLots(g), lot)
    BY <1>10, DelegateType, KeptLots
  <2>2. /\ HeldLots(g)' = Append(HeldLots(g), lot) /\ position' # position
        /\ \A h \in Groups : h # g => HeldLots(h)' = HeldLots(h)
    BY <1>11, <1>14, <2>1
  <2>3. PICK new \in Fresh : order' = [order EXCEPT ![new] = sale]
    BY <1>14
  <2>4. OrderAdded(new, sale)
    BY <1>7, <1>14, <2>3, NewOrderAdded
  <2>. HIDE DEF sale
  <2>5. order'[new] = sale /\ new \in OrderIds
    BY <2>4, AddedTerms
  <2>. QED
    BY <1>2, <1>3, <1>4, <1>5, <1>6, <2>2, <2>4, <2>5 DEF lot
<1>. QED
  BY <1>8, <1>12, <1>13, <1>14
LEMMA NothingToSell ==
  ASSUME NEW n \in Nat
  PROVE  /\ ClearedLots(SoldLotsOf(<<>>, n)) = <<>>
         /\ VisitedOf(<<>>, n) = 0
<1>1. <<>> \in Seq(TradedLot) /\ Len(<<>>) = 0 /\ DOMAIN <<>> = {}
  OBVIOUS
<1>2. /\ SoldLotsOf(<<>>, n) \in Seq(TradedLot) /\ DOMAIN SoldLotsOf(<<>>, n) = {}
      /\ VisitedOf(<<>>, n) \in 0 .. 0
  BY <1>1, SaleOfLots
<1>. DEFINE sold == SoldLotsOf(<<>>, n)
            left == ClearedLots(sold)
<1>3. left \in Seq(TradedLot) /\ \A i \in DOMAIN left : left[i] \in {sold[k] : k \in {}}
  BY <1>2, TradedLotKind, ClearedLotsKeeps
<1>. HIDE DEF left
<1>4. left = <<>>
  <2>1. DOMAIN left = 1 .. Len(left) /\ Len(left) \in Nat
    BY <1>3, DomainFinite
  <2>2. DOMAIN left = {}
    BY <1>3
  <2>3. Len(left) = 0
    BY <2>1, <2>2
  <2>. QED
    BY <1>3, <2>3, EmptySeq
<1>. QED
  BY <1>2, <1>4 DEF left

(* The lots that the history string lists.                                  *)
LEMMA PickedIs ==
  ASSUME NEW lots \in Seq(TradedLot), NEW n \in Nat
  PROVE  LET picked == PickedLots(SortedLots(lots), n)
         IN  /\ picked = <<>> <=> lots = <<>>
             /\ DOMAIN picked = 1 .. VisitedOf(lots, n)
             /\ \A k \in 1 .. VisitedOf(lots, n) :
                  k \in DOMAIN lots /\ picked[k] = SoldLotsOf(lots, n)[k]
<1>. DEFINE picked == PickedLots(SortedLots(lots), n)
            sold == SoldLotsOf(lots, n)
            v == VisitedOf(lots, n)
<1>1. /\ sold \in Seq(TradedLot) /\ DOMAIN sold = DOMAIN lots
      /\ v \in 0 .. Len(lots) /\ (lots # <<>> => v >= 1)
  BY SaleOfLots
<1>2. picked = SubSeq(sold, 1, v)
  BY DEF PickedLots, SoldLotsOf, VisitedOf
<1>3. Len(lots) \in Nat /\ DOMAIN lots = 1 .. Len(lots) /\ Len(sold) = Len(lots)
  <2>1. /\ Len(lots) \in Nat /\ DOMAIN lots = 1 .. Len(lots)
        /\ Len(sold) \in Nat /\ DOMAIN sold = 1 .. Len(sold)
    BY <1>1, DomainFinite
  <2>2. \A a, b \in Nat : 1 .. a = 1 .. b => ~(a < b)
    <3>. SUFFICES ASSUME NEW a \in Nat, NEW b \in Nat, 1 .. a = 1 .. b, a < b
                  PROVE  FALSE
      OBVIOUS
    <3>1. b \in 1 .. b /\ b \notin 1 .. a
      OBVIOUS
    <3>. QED
      BY <3>1
  <2>3. \A a, b \in Nat : 1 .. a = 1 .. b => a = b
    <3>. TAKE a \in Nat, b \in Nat
    <3>. HAVE 1 .. a = 1 .. b
    <3>1. ~(a < b) /\ ~(b < a)
      BY <2>2
    <3>. QED
      BY ONLY <3>1, a \in Nat, b \in Nat
  <2>. HIDE DEF sold
  <2>4. 1 .. Len(lots) = 1 .. Len(sold)
    BY <1>1, <2>1
  <2>. QED
    BY <2>1, <2>3, <2>4, Zenon
<1>4. lots = <<>> => v = 0
  <2>1. lots = <<>> => Len(lots) = 0
    OBVIOUS
  <2>. QED
    BY <1>1, <2>1
<1>. HIDE DEF sold, v, picked
<1>5. Len(picked) = v /\ DOMAIN picked = 1 .. v /\ \A k \in 1 .. v : picked[k] = sold[k]
  BY <1>1, <1>2, <1>3
<1>6. picked = <<>> => Len(picked) = 0
  OBVIOUS
<1>7. Len(picked) = 0 => picked = <<>>
  BY <1>1, <1>2, <1>3, <1>5
<1>8. picked = <<>> <=> lots = <<>>
  BY <1>1, <1>3, <1>4, <1>5, <1>6, <1>7
<1>9. \A k \in 1 .. v : k \in DOMAIN lots
  BY <1>1, <1>3
<1>. QED
  BY <1>5, <1>8, <1>9 DEF sold, v, picked

LEMMA PickedOfOrder ==
  ASSUME LotsTyped, NEW o \in OrderIds, NEW g \in Groups, g = order[o].group,
         NEW n \in Nat, n = order[o].num
  PROVE  /\ Picked(o) = <<>> <=> HeldLots(g) = <<>>
         /\ DOMAIN Picked(o) = 1 .. VisitedOf(HeldLots(g), n)
         /\ \A k \in 1 .. VisitedOf(HeldLots(g), n) :
              k \in DOMAIN HeldLots(g) /\ Picked(o)[k] = SoldLotsOf(HeldLots(g), n)[k]
<1>1. HeldLots(g) \in Seq(TradedLot)
  BY DEF LotsTyped
<1>2. CASE position[g] = NoPosition
  <2>1. HeldLots(g) = <<>> /\ Picked(o) = <<>> /\ VisitedOf(<<>>, n) = 0
    BY <1>2, NothingToSell DEF HeldLots, Picked
  <2>. QED
    BY <2>1
<1>3. CASE position[g] # NoPosition
  <2>1. Picked(o) = PickedLots(SortedLots(HeldLots(g)), n)
    BY <1>3 DEF Picked, OnSaleDonePicked, HeldLots
  <2>. QED
    BY <1>1, <2>1, PickedIs
<1>. QED
  BY <1>2, <1>3

LEMMA SoldHeld ==
  ASSUME ~IsPosition(NoPosition), TypeInv, NEW g \in Groups, position[g] # NoPosition,
         NEW n \in Nat, position' = [position EXCEPT ![g] = OnSaleDone(position[g], n)]
  PROVE  /\ HeldLots(g)' = ClearedLots(SoldLotsOf(HeldLots(g), n))
         /\ \A h \in Groups : h # g => HeldLots(h)' = HeldLots(h)
<1>1. IsPosition(position[g])
  BY DEF TypeInv, TypeOK
<1>2. /\ IsPosition(OnSaleDone(position[g], n))
      /\ OnSaleDone(position[g], n).lots = ClearedLots(SoldLotsOf(HeldLots(g), n))
  BY <1>1, OnSaleDoneType, SoldLots DEF SoldLotsOf, HeldLots
<1>. QED
  BY <1>2, LotsReplaced

(* What a sale changes in memory, stored or not.                            *)
SaleBooked(t, o, g, n) ==
  /\ Settles(t, o, "done") /\ order[o].op = "SELL"
  /\ g = order[o].group /\ n = order[o].num
  /\ UNCHANGED <<frozen, order>> /\ available' = available + Proceeds(o)
  /\ \A h \in Groups : h # g => HeldLots(h)' = HeldLots(h)
  /\ HeldLots(g)' = ClearedLots(SoldLotsOf(HeldLots(g), n))

(* OnOrderDone of a sale that is stored, or has nothing to store.           *)
SaleStored(t, o, g, n) ==
  /\ OnSellOrderDone(t) /\ SaleBooked(t, o, g, n)
  /\ UNCHANGED unmarked /\ (synced' => synced)
  /\ \/ HeldLots(g) = <<>> /\ NotStored
     \/ /\ HeldLots(g) # <<>>
        /\ dbFree' = available' /\ dbHeld' = dbHeld
        /\ StoreRows(o)
        /\ dbOrder' = [dbOrder EXCEPT ![o] = order[o]]

SaleLost(t, o, g, n) ==
  /\ SaleBooked(t, o, g, n)
  /\ position' = [position EXCEPT ![g] = OnSaleDone(position[g], n)]
  /\ position[g] # NoPosition /\ Finish(t, o) /\ DbError
  /\ UNCHANGED <<orderList, observers, crashed>>
  /\ NotStored /\ synced' = FALSE /\ unmarked' = TRUE

LEMMA SellDoneEffect ==
  ASSUME ~IsPosition(NoPosition), TypeInv, LotsTyped, NEW t \in Threads, StoredSellDone(t)
  PROVE  /\ UNCHANGED restarts
         /\ \E o \in OrderIds, g \in Groups, n \in Nat :
              SaleStored(t, o, g, n) \/ SaleLost(t, o, g, n)
<1>1. PICK o \in OrderIds : o = cur[t][1]
  BY CurrentOrder DEF StoredSellDone, At
<1>2. /\ order[o] \in OrderType /\ Made(o) /\ order[o].op = "SELL" /\ pc[t] = "done"
  BY <1>1, CurrentOrder DEF StoredSellDone, At
<1>3. PICK g \in Groups, n \in Nat : g = order[o].group /\ n = order[o].num
  BY <1>2, OrderNumbers
<1>4. /\ Picked(o) = <<>> <=> HeldLots(g) = <<>>
  BY <1>3, PickedOfOrder
<1>5. ASSUME OnSellOrderDone(t),
             IF Picked(o) = <<>>
             THEN NotStored
             ELSE /\ StoreAvailable(o) /\ StoreRows(o)
                  /\ dbOrder' = [dbOrder EXCEPT ![o] = order[o]]
                  /\ UNCHANGED dbHeld,
             Noted
      PROVE  SaleStored(t, o, g, n)
  <2>1. /\ Settles(t, o, "done") /\ UNCHANGED <<frozen, order>>
        /\ available' = available + Proceeds(o)
    BY <1>1, <1>2, <1>5, FinishSettles DEF OnSellOrderDone
  <2>2. UNCHANGED unmarked /\ (synced' => synced)
    BY <1>5 DEF Noted
  <2>3. CASE position[g] = NoPosition
    <3>1. HeldLots(g) = <<>> /\ position' = position
      BY <1>1, <1>3, <1>5, <2>3 DEF OnSellOrderDone, HeldLots
    <3>2. /\ \A h \in Groups : HeldLots(h)' = HeldLots(h)
          /\ HeldLots(g)' = ClearedLots(SoldLotsOf(HeldLots(g), n))
      BY <3>1, LotsStay, NothingToSell
    <3>. QED
      BY <1>2, <1>3, <1>4, <1>5, <2>1, <2>2, <3>1, <3>2 DEF SaleStored, SaleBooked
  <2>4. CASE position[g] # NoPosition
    <3>1. position' = [position EXCEPT ![g] = OnSaleDone(position[g], n)]
      BY <1>1, <1>3, <1>5, <2>4 DEF OnSellOrderDone, Sold
    <3>2. /\ HeldLots(g)' = ClearedLots(SoldLotsOf(HeldLots(g), n))
          /\ \A h \in Groups : h # g => HeldLots(h)' = HeldLots(h)
      BY <2>4, <3>1, SoldHeld
    <3>3. SaleBooked(t, o, g, n)
      BY <1>2, <1>3, <2>1, <3>2 DEF SaleBooked
    <3>. QED
      BY <1>4, <1>5, <2>2, <3>3 DEF SaleStored, StoreAvailable
  <2>. QED
    BY <2>3, <2>4
<1>6. ASSUME Picked(o) # <<>>, DbError,
             available' = available + Proceeds(o),
             position' = [position EXCEPT ![g] = Sold(@, n)],
             Finish(t, o),
             UNCHANGED <<frozen, order, orderList, observers, crashed>>,
             NotStored, synced' = FALSE, unmarked' = TRUE
      PROVE  SaleLost(t, o, g, n)
  <2>1. position[g] # NoPosition
    BY <1>3, <1>6 DEF Picked
  <2>2. position' = [position EXCEPT ![g] = OnSaleDone(position[g], n)]
    BY <1>6 DEF Sold
  <2>3. /\ HeldLots(g)' = ClearedLots(SoldLotsOf(HeldLots(g), n))
        /\ \A h \in Groups : h # g => HeldLots(h)' = HeldLots(h)
    BY <2>1, <2>2, SoldHeld
  <2>4. Settles(t, o, "done")
    BY <1>1, <1>2, <1>6, FinishSettles
  <2>. QED
    BY <1>2, <1>3, <1>6, <2>1, <2>2, <2>3, <2>4 DEF SaleLost, SaleBooked
<1>7. UNCHANGED restarts
  BY DEF StoredSellDone, Noted
<1>. QED
  BY <1>1, <1>3, <1>5, <1>6, <1>7 DEF StoredSellDone

(* OnCancelBuyOrder and OnCancelSellOrder, stored or not.                   *)
CancelBooked(t, o) ==
  /\ OnCancelBuyOrder(t) \/ OnCancelSellOrder(t)
  /\ pc[t] \in {"buy", "sell"} /\ Settles(t, o, pc[t]) /\ order[o].status # "NONE"
  /\ UNCHANGED order
  /\ \A h \in Groups : HeldLots(h)' = HeldLots(h)
  /\ pc[t] = "buy" => /\ available' = available + order[o].frozen
                      /\ frozen' = frozen - order[o].frozen
  /\ pc[t] = "sell" => UNCHANGED <<available, frozen>>
  /\ \/ StoreCancel(o) /\ UNCHANGED unmarked /\ (synced' => synced)
     \/ NotStored /\ ~synced' /\ unmarked' = (unmarked \/ order[o].op = "SELL")

LEMMA CancelEffect ==
  ASSUME ~IsPosition(NoPosition), TypeInv, NEW t \in Threads, StoredCancel(t), ~crashed'
  PROVE  UNCHANGED restarts /\ \E o \in OrderIds : CancelBooked(t, o)
<1>1. PICK o \in OrderIds : o = cur[t][1]
  BY CurrentOrder DEF StoredCancel, OnCancelBuyOrder, OnCancelSellOrder, At
<1>2. order[o] \in OrderType /\ Made(o)
  BY <1>1, CurrentOrder DEF StoredCancel, OnCancelBuyOrder, OnCancelSellOrder, At
<1>3. OnCancelBuyOrder(t) \/ OnCancelSellOrder(t)
  BY DEF StoredCancel
<1>4. pc[t] \in {"buy", "sell"} /\ \E step : CancelDone(t, o, step)
  BY <1>1, <1>3 DEF OnCancelBuyOrder, OnCancelSellOrder, At, Abort
<1>5. Settles(t, o, pc[t]) /\ UNCHANGED order
  BY <1>1, <1>2, <1>4 DEF CancelDone, Goto, Settles, TypeInv, TypeOK
<1>6. /\ \A h \in Groups : HeldLots(h)' = HeldLots(h)
      /\ pc[t] = "buy" => /\ available' = available + order[o].frozen
                          /\ frozen' = frozen - order[o].frozen
      /\ pc[t] = "sell" => UNCHANGED <<available, frozen>>
  <2>1. CASE OnCancelBuyOrder(t)
    BY <1>1, <2>1, LotsStay DEF OnCancelBuyOrder, Thaw, At
  <2>2. CASE OnCancelSellOrder(t)
    <3>1. PICK g \in Groups, n \in Nat : g = order[o].group /\ n = order[o].num
      BY <1>2, OrderNumbers
    <3>2. /\ pc[t] = "sell" /\ UNCHANGED <<available, frozen>>
          /\ position[g] # NoPosition
          /\ position' = [position EXCEPT ![g] = OnOrderCancel(position[g], n)]
      BY <1>1, <2>2, <3>1 DEF OnCancelSellOrder, At, Abort
    <3>. QED
      BY <3>2, LotsUndisturbed
  <2>. QED
    BY <1>3, <2>1, <2>2
<1>7. /\ UNCHANGED restarts
      /\ \/ StoreCancel(o) /\ UNCHANGED unmarked /\ (synced' => synced)
         \/ NotStored /\ ~synced' /\ unmarked' = (unmarked \/ order[o].op = "SELL")
  BY <1>1 DEF StoredCancel, Noted
<1>. QED
  BY <1>2, <1>3, <1>4, <1>5, <1>6, <1>7 DEF CancelBooked, Made

(* The steps in memory, an assertion that fails among them: the orders keep *)
(* their terms.                                                            *)
StaysInMemory ==
  /\ UNCHANGED <<storedVars, synced, unmarked, restarts, available, frozen, released>>
  /\ \A h \in Groups : HeldLots(h)' = HeldLots(h)
  /\ \A p \in OrderIds : SameTerms(p) /\ (Made(p)' <=> Made(p))

CancelAborts == crashed' /\ \E t \in Threads : StoredCancel(t)

LEMMA InMemoryEffect ==
  ASSUME TypeInv, InMemory
  PROVE  [Next]_vars /\ StaysInMemory
<1>1. UNCHANGED <<storedVars, synced, unmarked, restarts>>
  BY DEF InMemory, NotStored
<1>2. ASSUME order' = order
      PROVE  \A p \in OrderIds : SameTerms(p) /\ (Made(p)' <=> Made(p))
  BY <1>2 DEF SameTerms, Made
<1>3. ASSUME NEW t \in Threads, MakeADeal(t) PROVE StaysInMemory
  <2>1. /\ \A p \in OrderIds : SameTerms(p)
        /\ \A p \in OrderIds : Made(p)' <=> Made(p)
    BY <1>3, DealtTerms DEF Made
  <2>2. UNCHANGED <<available, frozen, released, position>>
    BY <1>3 DEF MakeADeal
  <2>. QED
    BY <1>1, <2>1, <2>2, LotsStay DEF StaysInMemory
<1>4. ASSUME NEW t \in Threads, MarkOrder(t) PROVE StaysInMemory
  <2>1. /\ \A p \in OrderIds : SameTerms(p)
        /\ \A p \in OrderIds : Made(p)' <=> Made(p)
    BY <1>4, CancelledTerms DEF Made
  <2>2. UNCHANGED <<available, frozen, released, position>>
    BY <1>4 DEF MarkOrder
  <2>. QED
    BY <1>1, <2>1, <2>2, LotsStay DEF StaysInMemory
<1>5. ASSUME NEW t \in Threads,
             \/ TestOperation(t) \/ EraseOrder(t)
             \/ \E o \in OrderIds : OnCancelOrder(t, o)
             \/ \E o \in OrderIds, market \in Prices : Notify(o, market)
      PROVE  StaysInMemory
  <2>1. UNCHANGED <<available, frozen, released, position, order>>
    BY <1>5 DEF TestOperation, EraseOrder, OnCancelOrder, Notify, Abort
  <2>. QED
    BY <1>1, <1>2, <2>1, LotsStay DEF StaysInMemory
<1>6. Next
  BY DEF InMemory, Next, Cancel
<1>. QED
  BY <1>3, <1>4, <1>5, <1>6, UserAccountAssumption DEF InMemory

LEMMA AbortIsAll ==
  ASSUME NEW t \in Threads, StoredCancel(t), crashed'
  PROVE  Abort
BY DEF StoredCancel, OnCancelBuyOrder, OnCancelSellOrder, At

LEMMA AbortEffect ==
  ASSUME CancelAborts, TypeInv, DbTyped
  PROVE  [Next]_vars /\ StaysInMemory
<1>1. PICK t \in Threads : StoredCancel(t) /\ crashed'
  BY DEF CancelAborts
<1>2. Abort
  BY <1>1, AbortIsAll
<1>3. Next
  BY <1>1 DEF StoredCancel, Next, Cancel
<1>4. UNCHANGED <<available, frozen, released, position, order, dbErrors>>
  BY <1>2 DEF Abort
<1>5. UNCHANGED <<storedVars, synced, unmarked, restarts>>
  BY <1>1, <1>4 DEF StoredCancel, NotStored, Noted, Failing, DbTyped
<1>. QED
  BY <1>3, <1>4, <1>5, LotsStay DEF StaysInMemory, SameTerms, Made

-----------------------------------------------------------------------------
(* Loading.                                                                 *)

LEMMA RowsTyped ==
  ASSUME DbTyped, NEW g \in Groups
  PROVE  /\ Rows(g) \in SUBSET OrderIds /\ IsFiniteSet(Rows(g))
         /\ \A o \in Rows(g) : /\ dbOrder[o] \in OrderType /\ dbRow[o] \in Int
                               /\ dbOrder[o].deal \in Prices \cup {0}
<1>1. Rows(g) \in SUBSET OrderIds
  BY DEF Rows, Numbered
<1>2. IsFiniteSet(Rows(g))
  BY <1>1, UserAccountAssumption, FS_Subset
<1>3. ASSUME NEW o \in Rows(g) PROVE dbOrder[o] \in OrderType /\ dbRow[o] \in Int
  BY <1>3 DEF Rows, Numbered, DbTyped, NoOrder
<1>4. ASSUME NEW o \in Rows(g) PROVE dbOrder[o].deal \in Prices \cup {0}
  BY <1>3 DEF OrderType
<1>. QED
  BY <1>1, <1>2, <1>3, <1>4

(* The position a restart loads: one lot for each row.                      *)
LEMMA LoadedIs ==
  ASSUME DbTyped, NEW g \in Groups
  PROVE  LET lots == LoadedPosition(g).lots
         IN  /\ IsPosition(LoadedPosition(g)) /\ LoadedPosition(g).available = 0
             /\ LoadedPosition(g).count = SumFunctionOnSet(dbRow, Rows(g)) % UintMod
             /\ lots \in Seq(TradedLot)
             /\ \A i \in DOMAIN lots :
                  /\ lots[i].id \in Rows(g)
                  /\ lots[i].price = dbOrder[lots[i].id].deal
                  /\ lots[i].count = dbRow[lots[i].id]
             /\ \A i, j \in DOMAIN lots : lots[i].id = lots[j].id => i = j
             /\ \A o \in Rows(g) : \E i \in DOMAIN lots : lots[i].id = o
<1>. DEFINE R == Rows(g)
            lot(o) == [id |-> o, price |-> dbOrder[o].deal, count |-> dbRow[o]]
            all == {lot(o) : o \in R}
            lots == SetToSeq(all)
<1>1. /\ R \in SUBSET OrderIds /\ IsFiniteSet(R)
      /\ \A o \in R : dbRow[o] \in Int /\ dbOrder[o].deal \in Prices \cup {0}
  BY RowsTyped
<1>2. LoadedPosition(g) =
        [count |-> SumFunctionOnSet(dbRow, R) % UintMod, available |-> 0, lots |-> lots]
  BY DEF LoadedPosition
<1>3. SumFunctionOnSet(dbRow, R) % UintMod \in Uint
  <2>1. SumFunctionOnSet(dbRow, R) \in Int
    BY <1>1, SumType
  <2>. QED
    BY <2>1, UintRemainder
<1>4. IsPosition(LoadedPosition(g))
  BY <1>2, <1>3, UintModAssumption DEF IsPosition, Uint
<1>5. IsFiniteSet(all)
  <2>. DEFINE f == [o \in R |-> lot(o)]
  <2>1. f \in Surjection(R, all)
    BY DEF Surjection
  <2>. HIDE DEF f, all
  <2>. QED
    BY <1>1, <2>1, FS_Surjection
<1>6. all \subseteq TradedLot
  BY <1>1 DEF TradedLot
<1>7. /\ lots \in Seq(all)
      /\ \A i, j \in DOMAIN lots : lots[i] = lots[j] => i = j
      /\ \A i \in DOMAIN lots : lots[i] \in all
      /\ \A x \in all : \E i \in DOMAIN lots : lots[i] = x
  <2>. HIDE DEF all
  <2>. QED
    BY <1>5, SetToSeqLists
<1>8. lots \in Seq(TradedLot)
  <2>. HIDE DEF all, lots
  <2>. QED
    BY <1>6, <1>7
<1>. HIDE DEF lots
<1>9. \A i \in DOMAIN lots : \E o \in R : lots[i] = lot(o)
  BY <1>7
<1>10. ASSUME NEW i \in DOMAIN lots
       PROVE  /\ lots[i].id \in R /\ lots[i] = lot(lots[i].id)
              /\ lots[i].price = dbOrder[lots[i].id].deal
              /\ lots[i].count = dbRow[lots[i].id]
  <2>1. PICK o \in R : lots[i] = lot(o)
    BY <1>9
  <2>. QED
    BY <2>1
<1>11. \A i, j \in DOMAIN lots : lots[i].id = lots[j].id => i = j
  <2>. SUFFICES ASSUME NEW i \in DOMAIN lots, NEW j \in DOMAIN lots,
                       lots[i].id = lots[j].id
                PROVE  lots[i] = lots[j]
    BY <1>7
  <2>1. lots[i] = lot(lots[i].id) /\ lots[j] = lot(lots[j].id)
    BY <1>10
  <2>. QED
    BY <2>1
<1>12. ASSUME NEW o \in R PROVE \E i \in DOMAIN lots : lots[i].id = o
  <2>1. lot(o) \in all
    OBVIOUS
  <2>2. PICK i \in DOMAIN lots : lots[i] = lot(o)
    BY <1>7, <2>1
  <2>. QED
    BY <2>2
<1>13. LoadedPosition(g).available = 0 /\ LoadedPosition(g).lots = lots
       /\ LoadedPosition(g).count = SumFunctionOnSet(dbRow, R) % UintMod
  BY <1>2
<1>. QED
  BY <1>4, <1>8, <1>10, <1>11, <1>12, <1>13

(* The lots a restart loads.                                                *)
LEMMA ReloadedLots ==
  ASSUME ~IsPosition(NoPosition), DbTyped, Reload, NEW g \in Groups
  PROVE  /\ SomeShares(g) => /\ position'[g] = LoadedPosition(g)
                             /\ position'[g] # NoPosition
                             /\ HeldLots(g)' = LoadedPosition(g).lots
         /\ ~SomeShares(g) => position'[g] = NoPosition /\ HeldLots(g)' = <<>>
<1>1. position'[g] = IF SomeShares(g) THEN LoadedPosition(g) ELSE NoPosition
  BY DEF Reload
<1>2. LoadedPosition(g) # NoPosition
  BY LoadedIs
<1>. QED
  BY <1>1, <1>2 DEF HeldLots

LEMMA ReloadTypes ==
  ASSUME ~IsPosition(NoPosition), RecTypes, Reload
  PROVE  RecTypes'
<1>1. DbTyped
  BY DEF RecTypes
<1>2. /\ available' \in Int /\ frozen' \in Int /\ lost' \in Nat
      /\ order' \in [OrderIds -> OrderType \cup {NoOrder}]
      /\ lockLeak' \in Threads \cup {NoThread}
      /\ pc' \in [Threads -> Steps] /\ cur' \in [Threads -> Work \cup {<<>>}]
      /\ \A t \in Threads : pc'[t] = "idle"
      /\ shifted' \in BOOLEAN /\ crashed' \in BOOLEAN
      /\ orderList' \subseteq OrderIds /\ observers' \subseteq OrderIds
      /\ dbErrors' \in 0 .. MaxDbErrors
  BY <1>1 DEF Reload, DbTyped, Steps, Numbered, DbPending, AttachPending, RecTypes,
     TypeInv, TypeOK
<1>3. released' \in [OrderIds -> Nat]
  BY DEF Reload
<1>4. /\ position' = [g \in Groups |-> position'[g]]
      /\ \A g \in Groups : position'[g] = NoPosition \/ IsPosition(position'[g])
  BY <1>1, LoadedIs DEF Reload
<1>5. TypeInv'
  BY <1>2, <1>3, <1>4 DEF TypeInv, TypeOK, WorkIsMade, ListIsMade, Made, Reload, Numbered
<1>6. DbTyped'
  BY <1>1, RecoveryAssumption DEF Reload, DbTyped, storedVars
<1>7. LotsTyped'
  <2>1. ASSUME NEW g \in Groups PROVE HeldLots(g)' \in Seq(TradedLot)
    <3>1. LoadedPosition(g).lots \in Seq(TradedLot) /\ <<>> \in Seq(TradedLot)
      BY <1>1, LoadedIs
    <3>2. HeldLots(g)' = LoadedPosition(g).lots \/ HeldLots(g)' = <<>>
      BY <1>1, ReloadedLots
    <3>. QED
      BY <3>1, <3>2
  <2>. QED
    BY <2>1 DEF LotsTyped
<1>. QED
  BY <1>5, <1>6, <1>7 DEF RecTypes
-----------------------------------------------------------------------------
(* Types.                                                                   *)

LEMMA HistoryTyped ==
  ASSUME DbTyped, NEW t \in Threads,
         \/ \E g \in Groups, price \in Prices, num \in Nums, market \in Prices :
              StoredSubmit(t, g, price, num, market)
         \/ StoredBuyDone(t) \/ StoredSellDone(t) \/ StoredCancel(t)
  PROVE  restarts' = restarts /\ synced' \in BOOLEAN /\ unmarked' \in BOOLEAN
<1>1. Noted => restarts' = restarts /\ synced' \in BOOLEAN /\ unmarked' \in BOOLEAN
  BY DEF Noted, DbTyped
<1>. QED
  BY <1>1 DEF DbTyped, StoredSubmit, StoredBuyDone, StoredSellDone, StoredCancel

LEMMA SaleLostType ==
  ASSUME TypeInv, NEW t \in Threads, NEW o \in OrderIds, NEW g \in Groups, NEW n \in Nat,
         SaleLost(t, o, g, n)
  PROVE  TypeInv'
<1>1. order[o] \in OrderType /\ Made(o) /\ Finish(t, o)
  BY DEF SaleLost, SaleBooked, Settles
<1>2. available' \in Int
  <2>1. order[o].num \in Nat /\ order[o].deal \in Nat
    BY <1>1, OrderNumbers
  <2>2. Proceeds(o) \in Int
    BY <2>1, SaleProceedsType DEF Proceeds
  <2>. QED
    BY <2>2 DEF SaleLost, SaleBooked, TypeInv, TypeOK
<1>3. /\ position' = [h \in Groups |-> position'[h]]
      /\ \A h \in Groups : position'[h] = NoPosition \/ IsPosition(position'[h])
  <2>1. IsPosition(OnSaleDone(position[g], n))
    BY OnSaleDoneType DEF SaleLost, TypeInv, TypeOK
  <2>. QED
    BY <2>1 DEF SaleLost, TypeInv, TypeOK
<1>4. /\ UNCHANGED <<frozen, order, orderList, observers, crashed>>
      /\ UNCHANGED <<lockLeak, shifted, lost>>
  BY <1>1 DEF SaleLost, SaleBooked, Finish
<1>5. dbErrors' \in 0 .. MaxDbErrors
  BY UserAccountAssumption DEF SaleLost, DbError, TypeInv, TypeOK
<1>6. \A p \in OrderIds : Made(p) => Made(p)'
  BY <1>4 DEF Made
<1>7. TypeOK' /\ WorkIsMade'
  BY <1>1, <1>2, <1>3, <1>4, <1>5, <1>6, FinishType DEF TypeInv, TypeOK
<1>8. ListIsMade'
  BY <1>4 DEF TypeInv, ListIsMade, Made
<1>. QED
  BY <1>7, <1>8 DEF TypeInv

(* The lots of a sale keep their ids; so do those still held after it.      *)
LEMMA SoldLotsTyped ==
  ASSUME NEW lots \in Seq(TradedLot), NEW n \in Nat
  PROVE  ClearedLots(SoldLotsOf(lots, n)) \in Seq(TradedLot)
<1>1. SoldLotsOf(lots, n) \in Seq(TradedLot)
  BY SaleOfLots
<1>. QED
  BY <1>1, TradedLotKind, ClearedLotsKeeps

LEMMA StoreRowsType ==
  ASSUME TypeInv, DbTyped, LotsTyped, NEW o \in OrderIds, order[o] \in OrderType,
         StoreRows(o)
  PROVE  dbRow' \in [OrderIds -> Int \cup {NoHolding}]
<1>1. PICK g \in Groups, n \in Nat : g = order[o].group /\ n = order[o].num
  BY OrderNumbers
<1>2. \A k \in DOMAIN Picked(o) : Picked(o)[k].count \in Int
  <2>1. /\ SoldLotsOf(HeldLots(g), n) \in Seq(TradedLot)
        /\ DOMAIN SoldLotsOf(HeldLots(g), n) = DOMAIN HeldLots(g)
    BY SaleOfLots DEF LotsTyped
  <2>2. \A k \in DOMAIN HeldLots(g) : SoldLotsOf(HeldLots(g), n)[k] \in TradedLot
    BY <2>1
  <2>3. /\ DOMAIN Picked(o) = 1 .. VisitedOf(HeldLots(g), n)
        /\ \A k \in 1 .. VisitedOf(HeldLots(g), n) :
             k \in DOMAIN HeldLots(g) /\ Picked(o)[k] = SoldLotsOf(HeldLots(g), n)[k]
    BY <1>1, PickedOfOrder
  <2>4. \A k \in DOMAIN Picked(o) : Picked(o)[k] \in TradedLot
    BY <2>2, <2>3
  <2>. QED
    BY <2>4 DEF TradedLot
<1>3. ASSUME NEW i \in OrderIds
      PROVE  LET picks == {k \in DOMAIN Picked(o) : Picked(o)[k].id = i}
             IN  (IF picks = {} THEN dbRow[i] ELSE Picked(o)[CHOOSE k \in picks : TRUE].count)
                   \in Int \cup {NoHolding}
  <2>. DEFINE picks == {k \in DOMAIN Picked(o) : Picked(o)[k].id = i}
  <2>1. CASE picks = {}
    BY <2>1 DEF DbTyped
  <2>2. CASE picks # {}
    <3>1. (CHOOSE k \in picks : TRUE) \in DOMAIN Picked(o)
      BY <2>2
    <3>. QED
      BY <1>2, <2>2, <3>1
  <2>. QED
    BY <2>1, <2>2
<1>. QED
  BY <1>3 DEF StoreRows

LEMMA SubmitTypes ==
  ASSUME ~IsPosition(NoPosition), RecTypes, NEW t \in Threads, NEW g \in Groups,
         NEW price \in Prices, NEW num \in Nums, NEW market \in Prices,
         StoredSubmit(t, g, price, num, market)
  PROVE  RecTypes'
<1>1. /\ SubmitOrder(t) /\ \A h \in Groups : HeldLots(h)' = HeldLots(h)
      /\ \/ NotStored
         \/ \E o \in OrderIds : OrderAdded(o, order'[o]) /\ StoreNew(o)
  BY SubmitEffect DEF RecTypes
<1>2. TypeInv' /\ LotsTyped'
  BY <1>1, SubmitOrderType DEF RecTypes, LotsTyped
<1>3. /\ dbFree' \in Int /\ dbHeld' \in Int
      /\ dbOrder' \in [OrderIds -> OrderType \cup {NoOrder}]
      /\ dbRow' \in [OrderIds -> Int \cup {NoHolding}]
  <2>1. CASE NotStored
    BY <2>1 DEF NotStored, storedVars, RecTypes, DbTyped
  <2>2. ASSUME NEW o \in OrderIds, OrderAdded(o, order'[o]), StoreNew(o)
        PROVE  /\ dbFree' \in Int /\ dbHeld' \in Int
               /\ dbOrder' \in [OrderIds -> OrderType \cup {NoOrder}]
               /\ dbRow' \in [OrderIds -> Int \cup {NoHolding}]
    <3>1. order'[o] \in OrderType
      BY <2>2 DEF OrderAdded
    <3>2. order'[o].frozen \in Nat
      BY <3>1, OrderNumbers
    <3>. QED
      BY <2>2, <3>1, <3>2 DEF StoreNew, RecTypes, DbTyped
  <2>. QED
    BY <1>1, <2>1, <2>2
<1>4. DbTyped'
  BY <1>3, HistoryTyped DEF RecTypes, DbTyped
<1>. QED
  BY <1>2, <1>4 DEF RecTypes

LEMMA BuyDoneTypes ==
  ASSUME ~IsPosition(NoPosition), RecTypes, NEW t \in Threads, StoredBuyDone(t)
  PROVE  RecTypes'
<1>1. PICK o \in OrderIds, g \in Groups :
        /\ OnBuyOrderDone(t) /\ Settles(t, o, "done") /\ order[o].num \in Nat
        /\ \A h \in Groups : h # g => HeldLots(h)' = HeldLots(h)
        /\ \/ NotStored /\ HeldLots(g)' = HeldLots(g)
           \/ /\ HeldLots(g)' = Append(HeldLots(g), BoughtLot(o))
              /\ dbFree' = available' /\ dbHeld' = dbHeld - order[o].frozen
              /\ dbRow' = [dbRow EXCEPT ![o] = order[o].num]
              /\ dbOrder' = [i \in OrderIds |->
                    IF i = o \/ i \in NewIds THEN order'[i] ELSE dbOrder[i]]
  BY BuyDoneEffect DEF RecTypes
<1>2. order[o] \in OrderType /\ order[o].frozen \in Nat
  BY <1>1, OrderNumbers DEF Settles
<1>3. TypeInv'
  BY <1>1, OnBuyOrderDoneType DEF RecTypes
<1>4. LotsTyped'
  <2>1. BoughtLot(o) \in TradedLot /\ HeldLots(g) \in Seq(TradedLot)
    BY <1>2, BoughtLotIs DEF RecTypes, LotsTyped
  <2>2. HeldLots(g)' \in Seq(TradedLot)
    BY <1>1, <2>1, AppendProperties
  <2>. QED
    BY <1>1, <2>2 DEF RecTypes, LotsTyped
<1>5. /\ dbFree' \in Int /\ dbHeld' \in Int
      /\ dbOrder' \in [OrderIds -> OrderType \cup {NoOrder}]
      /\ dbRow' \in [OrderIds -> Int \cup {NoHolding}]
  <2>1. CASE NotStored
    BY <2>1 DEF NotStored, storedVars, RecTypes, DbTyped
  <2>2. CASE ~NotStored
    <3>1. /\ dbFree' = available' /\ dbHeld' = dbHeld - order[o].frozen
          /\ dbRow' = [dbRow EXCEPT ![o] = order[o].num]
          /\ dbOrder' = [i \in OrderIds |->
                IF i = o \/ i \in NewIds THEN order'[i] ELSE dbOrder[i]]
      BY <1>1, <2>2
    <3>2. available' \in Int /\ order' \in [OrderIds -> OrderType \cup {NoOrder}]
      BY <1>3 DEF TypeInv, TypeOK
    <3>3. dbFree' \in Int /\ dbHeld' \in Int
      BY <1>2, <3>1, <3>2 DEF RecTypes, DbTyped
    <3>4. dbOrder' \in [OrderIds -> OrderType \cup {NoOrder}]
      BY <3>1, <3>2 DEF RecTypes, DbTyped
    <3>5. order[o].num \in Int \cup {NoHolding}
      BY <1>1
    <3>6. dbRow' \in [OrderIds -> Int \cup {NoHolding}]
      BY <3>1, <3>5 DEF RecTypes, DbTyped
    <3>. QED
      BY <3>3, <3>4, <3>6
  <2>. QED
    BY <2>1, <2>2
<1>6. DbTyped'
  BY <1>5, HistoryTyped DEF RecTypes, DbTyped
<1>. QED
  BY <1>3, <1>4, <1>6 DEF RecTypes

LEMMA SellDoneTypes ==
  ASSUME ~IsPosition(NoPosition), RecTypes, NEW t \in Threads, StoredSellDone(t)
  PROVE  RecTypes'
<1>1. PICK o \in OrderIds, g \in Groups, n \in Nat :
        SaleStored(t, o, g, n) \/ SaleLost(t, o, g, n)
  BY SellDoneEffect DEF RecTypes
<1>2. SaleBooked(t, o, g, n) /\ order[o] \in OrderType
  BY <1>1 DEF SaleStored, SaleLost, SaleBooked, Settles
<1>3. TypeInv'
  BY <1>1, OnSellOrderDoneType, SaleLostType DEF RecTypes, SaleStored
<1>4. LotsTyped'
  <2>1. HeldLots(g)' \in Seq(TradedLot)
    BY <1>2, SoldLotsTyped DEF RecTypes, LotsTyped, SaleBooked
  <2>. QED
    BY <1>2, <2>1 DEF RecTypes, LotsTyped, SaleBooked
<1>5. /\ dbFree' \in Int /\ dbHeld' \in Int
      /\ dbOrder' \in [OrderIds -> OrderType \cup {NoOrder}]
      /\ dbRow' \in [OrderIds -> Int \cup {NoHolding}]
  <2>1. CASE NotStored
    BY <2>1 DEF NotStored, storedVars, RecTypes, DbTyped
  <2>2. CASE ~NotStored
    <3>1. /\ dbFree' = available' /\ dbHeld' = dbHeld /\ StoreRows(o)
          /\ dbOrder' = [dbOrder EXCEPT ![o] = order[o]]
      BY <1>1, <2>2 DEF SaleStored, SaleLost
    <3>2. dbRow' \in [OrderIds -> Int \cup {NoHolding}]
      BY <1>2, <3>1, StoreRowsType DEF RecTypes
    <3>. QED
      BY <1>2, <1>3, <3>1, <3>2 DEF RecTypes, DbTyped, TypeInv, TypeOK
  <2>. QED
    BY <2>1, <2>2
<1>6. DbTyped'
  BY <1>5, HistoryTyped DEF RecTypes, DbTyped
<1>. QED
  BY <1>3, <1>4, <1>6 DEF RecTypes

LEMMA CancelTypes ==
  ASSUME ~IsPosition(NoPosition), RecTypes, NEW t \in Threads, StoredCancel(t), ~crashed'
  PROVE  RecTypes'
<1>1. PICK o \in OrderIds : CancelBooked(t, o)
  BY CancelEffect DEF RecTypes
<1>2. order[o] \in OrderType /\ order[o].frozen \in Nat
  BY <1>1, OrderNumbers DEF CancelBooked, Settles
<1>3. TypeInv'
  BY <1>1, CancelType DEF RecTypes, CancelBooked, Cancel
<1>4. LotsTyped'
  BY <1>1 DEF RecTypes, LotsTyped, CancelBooked
<1>5. /\ dbFree' \in Int /\ dbHeld' \in Int
      /\ dbOrder' \in [OrderIds -> OrderType \cup {NoOrder}]
      /\ dbRow' \in [OrderIds -> Int \cup {NoHolding}]
  BY <1>1, <1>2 DEF CancelBooked, NotStored, storedVars, StoreCancel, RecTypes, DbTyped
<1>6. DbTyped'
  BY <1>5, HistoryTyped DEF RecTypes, DbTyped
<1>. QED
  BY <1>3, <1>4, <1>6 DEF RecTypes

LEMMA InMemoryTypes ==
  ASSUME RecTypes, InMemory \/ CancelAborts
  PROVE  RecTypes'
<1>1. [Next]_vars /\ StaysInMemory
  BY InMemoryEffect, AbortEffect DEF RecTypes
<1>2. TypeInv'
  BY <1>1, TypeStep DEF RecTypes
<1>3. DbTyped' /\ LotsTyped'
  BY <1>1 DEF RecTypes, DbTyped, LotsTyped, StaysInMemory, storedVars
<1>. QED
  BY <1>2, <1>3 DEF RecTypes

LEMMA RecTypesStep ==
  ASSUME ~IsPosition(NoPosition)
  PROVE  RecTypes /\ [RecoveryNext]_recVars => RecTypes'
<1>. SUFFICES ASSUME RecTypes, [RecoveryNext]_recVars PROVE RecTypes'
  OBVIOUS
<1>1. CASE UNCHANGED recVars
  <2>1. TypeInv'
    BY <1>1, TypeStep DEF recVars, RecTypes
  <2>2. DbTyped' /\ LotsTyped'
    BY <1>1 DEF recVars, vars, storedVars, RecTypes, DbTyped, LotsTyped, HeldLots
  <2>. QED
    BY <2>1, <2>2 DEF RecTypes
<1>. QED
  BY <1>1, SubmitTypes, BuyDoneTypes, SellDoneTypes, CancelTypes, InMemoryTypes, ReloadTypes
  DEF RecoveryNext, CancelAborts

LEMMA RecTypesInit == RecoveryInit => RecTypes
<1>. SUFFICES ASSUME RecoveryInit PROVE RecTypes
  OBVIOUS
<1>1. TypeInv
  BY TypeInit DEF RecoveryInit
<1>2. DbTyped
  <2>1. dbFree \in Int /\ dbHeld \in Int
    BY UserAccountAssumption DEF RecoveryInit
  <2>2. dbOrder \in [OrderIds -> OrderType \cup {NoOrder}]
    BY <1>1 DEF RecoveryInit, TypeInv, TypeOK
  <2>3. dbRow \in [OrderIds -> Int \cup {NoHolding}]
    BY DEF RecoveryInit
  <2>4. synced \in BOOLEAN /\ unmarked \in BOOLEAN
    BY DEF RecoveryInit
  <2>5. 0 \in 0 .. MaxRestarts
    BY RecoveryAssumption
  <2>. QED
    BY <2>1, <2>2, <2>3, <2>4, <2>5 DEF DbTyped, RecoveryInit
<1>3. LotsTyped
  <2>1. \A g \in Groups : HeldLots(g) = <<>>
    BY DEF RecoveryInit, Init, HeldLots
  <2>2. <<>> \in Seq(TradedLot)
    OBVIOUS
  <2>. QED
    BY <2>1, <2>2 DEF LotsTyped
<1>. QED
  BY <1>1, <1>2, <1>3 DEF RecTypes

(* Whatever fails and whenever the process restarts, the account and what   *)
(* the database keeps of it have the types their records allow: a position  *)
(* loaded from holding_record has unsigned counts, rows that sales took     *)
(* below zero included.                                                    *)
THEOREM RecoveryTypes ==
  ASSUME ~IsPosition(NoPosition)
  PROVE  RecoverySpec => []RecoveryTypeOK
<1>1. RecTypes => RecoveryTypeOK
  BY DEF RecTypes, TypeInv, DbTyped, RecoveryTypeOK
<1>. QED
  BY <1>1, RecTypesInit, RecTypesStep, PTL DEF RecoverySpec
-----------------------------------------------------------------------------
(* The orders and their records.                                            *)

Stored(o) == dbOrder[o].status # "NONE"

SameRecord(o) ==
  /\ dbOrder[o].op = order[o].op /\ dbOrder[o].group = order[o].group
  /\ dbOrder[o].num = order[o].num /\ dbOrder[o].frozen = order[o].frozen

OrdersStored ==
  \A o \in OrderIds :
    /\ Made(o) <=> Stored(o)
    /\ Made(o) => SameRecord(o)
    /\ Made(o) /\ released[o] = 0 => dbOrder[o].status = "PENDING"

(* A step leaves the record of an order alone, or writes it anew.           *)
Unwritten(p) ==
  /\ dbOrder'[p] = dbOrder[p] /\ SameTerms(p) /\ (Made(p)' <=> Made(p))
  /\ released'[p] = 0 => released[p] = 0

Written(p) ==
  /\ dbOrder'[p] = order'[p] /\ Made(p)'
  /\ dbOrder'[p] = dbOrder[p] \/ released[p] = 0
  /\ released'[p] = 0 => order'[p].status = "PENDING"

OrdersMove == \A p \in OrderIds : Unwritten(p) \/ Written(p)

LEMMA OrdersStoredKept ==
  ASSUME OrdersStored, OrdersMove
  PROVE  OrdersStored'
<1>. SUFFICES ASSUME NEW p \in OrderIds
              PROVE  /\ Made(p)' <=> Stored(p)'
                     /\ Made(p)' => SameRecord(p)'
                     /\ Made(p)' /\ released'[p] = 0 => dbOrder'[p].status = "PENDING"
  BY DEF OrdersStored
<1>1. CASE Written(p)
  BY <1>1 DEF Written, Stored, Made, SameRecord
<1>2. CASE Unwritten(p)
  <2>1. /\ dbOrder'[p] = dbOrder[p] /\ SameTerms(p) /\ (Made(p)' <=> Made(p))
        /\ released'[p] = 0 => released[p] = 0
    BY <1>2 DEF Unwritten
  <2>2. /\ Made(p) <=> Stored(p)
        /\ Made(p) => SameRecord(p)
        /\ Made(p) /\ released[p] = 0 => dbOrder[p].status = "PENDING"
    BY DEF OrdersStored
  <2>3. Stored(p)' <=> Stored(p)
    BY <2>1 DEF Stored
  <2>4. SameRecord(p) => SameRecord(p)'
    BY <2>1 DEF SameRecord, SameTerms
  <2>. QED
    BY <2>1, <2>2, <2>3, <2>4
<1>. QED
  BY <1>1, <1>2 DEF OrdersMove

(* A step that changes no order, and releases `o' if any.                   *)
LEMMA OrderStays ==
  ASSUME TypeInv, NEW o \in OrderIds, released[o] = 0, Made(o), UNCHANGED order,
         released' = [released EXCEPT ![o] = @ + 1],
         dbOrder' = dbOrder \/ dbOrder' = [dbOrder EXCEPT ![o] = order[o]], DbTyped
  PROVE  OrdersMove
<1>. SUFFICES ASSUME NEW p \in OrderIds PROVE Unwritten(p) \/ Written(p)
  BY DEF OrdersMove
<1>1. /\ p # o => released'[p] = released[p]
      /\ p = o => released'[p] # 0
  BY DEF TypeInv, TypeOK
<1>2. SameTerms(p) /\ (Made(p)' <=> Made(p))
  BY DEF SameTerms, Made
<1>3. \/ dbOrder'[p] = dbOrder[p]
      \/ p = o /\ dbOrder'[p] = order'[p]
  BY DEF DbTyped
<1>. QED
  BY <1>1, <1>2, <1>3 DEF Unwritten, Written

LEMMA SubmitOrders ==
  ASSUME RecTypes, OnceInv, NEW o \in OrderIds, OrderAdded(o, order'[o]), StoreNew(o),
         UNCHANGED released
  PROVE  OrdersMove
<1>. SUFFICES ASSUME NEW p \in OrderIds PROVE Unwritten(p) \/ Written(p)
  BY DEF OrdersMove
<1>1. /\ Made(p) => order'[p] = order[p]
      /\ p # o => order'[p] = order[p]
      /\ ~Made(o) /\ order'[o].status = "PENDING"
  BY AddedTerms DEF RecTypes, OrderAdded, TypeInv, TypeOK
<1>2. /\ p # o => dbOrder'[p] = dbOrder[p]
      /\ dbOrder'[o] = order'[o]
  BY DEF StoreNew, RecTypes, DbTyped
<1>3. CASE p = o
  <2>1. released[o] = 0
    BY <1>1 DEF OnceInv, UnmadeUnknown
  <2>. QED
    BY <1>1, <1>2, <1>3, <2>1 DEF Written, Made
<1>4. CASE p # o
  <2>1. SameTerms(p) /\ (Made(p)' <=> Made(p))
    BY <1>1, <1>4 DEF SameTerms, Made
  <2>. QED
    BY <1>2, <1>4, <2>1 DEF Unwritten
<1>. QED
  BY <1>3, <1>4

LEMMA BuyDoneOrders ==
  ASSUME RecTypes, OnceInv, NEW o \in OrderIds, released[o] = 0, Made(o),
         released' = [released EXCEPT ![o] = @ + 1],
         NEW new \in OrderIds, OrderAdded(new, order'[new]),
         dbOrder' = [i \in OrderIds |->
            IF i = o \/ i \in NewIds THEN order'[i] ELSE dbOrder[i]]
  PROVE  OrdersMove
<1>. SUFFICES ASSUME NEW p \in OrderIds PROVE Unwritten(p) \/ Written(p)
  BY DEF OrdersMove
<1>1. /\ Made(p) => order'[p] = order[p] /\ p # new
      /\ p # new => order'[p] = order[p]
      /\ order'[o] = order[o] /\ o # new
      /\ ~Made(new) /\ order'[new].status = "PENDING"
  BY AddedTerms DEF RecTypes, OrderAdded, TypeInv, TypeOK
<1>2. NewIds = {new}
  BY OneNewId DEF RecTypes
<1>3. dbOrder'[p] = IF p = o \/ p = new THEN order'[p] ELSE dbOrder[p]
  BY <1>2
<1>4. /\ p # o => released'[p] = released[p]
      /\ released'[o] # 0
  BY DEF RecTypes, TypeInv, TypeOK
<1>5. CASE p = o
  BY <1>1, <1>3, <1>4, <1>5 DEF Written, Made
<1>6. CASE p = new
  <2>1. released[new] = 0
    BY <1>1 DEF OnceInv, UnmadeUnknown
  <2>. QED
    BY <1>1, <1>3, <1>6, <2>1 DEF Written, Made
<1>7. CASE p # o /\ p # new
  <2>1. SameTerms(p) /\ (Made(p)' <=> Made(p))
    BY <1>1, <1>7 DEF SameTerms, Made
  <2>. QED
    BY <1>3, <1>4, <1>7, <2>1 DEF Unwritten
<1>. QED
  BY <1>5, <1>6, <1>7

LEMMA ReloadOrders ==
  ASSUME RecTypes, OnceInv, OrdersStored, Reload
  PROVE  OrdersMove
<1>. SUFFICES ASSUME NEW p \in OrderIds PROVE Unwritten(p) \/ Written(p)
  BY DEF OrdersMove
<1>1. /\ dbOrder' = dbOrder /\ order' = dbOrder
      /\ released'[p] = IF p \in Numbered \ DbPending THEN 1 ELSE 0
  BY DEF Reload, storedVars
<1>2. CASE Stored(p)
  <2>1. released'[p] = 0 => order'[p].status = "PENDING"
    BY <1>1, <1>2 DEF Numbered, DbPending, Stored
  <2>. QED
    BY <1>1, <1>2, <2>1 DEF Written, Stored, Made
<1>3. CASE ~Stored(p)
  <2>1. ~Made(p)
    BY <1>3 DEF OrdersStored
  <2>2. order[p] = NoOrder /\ dbOrder[p] = NoOrder
    <3>1. \A x \in OrderType : x.status # "NONE"
      BY DEF OrderType
    <3>. QED
      BY <1>3, <2>1, <3>1 DEF RecTypes, TypeInv, TypeOK, DbTyped, Stored, Made
  <2>3. released[p] = 0
    BY <2>1 DEF OnceInv, UnmadeUnknown
  <2>. QED
    BY <1>1, <2>2, <2>3 DEF Unwritten, SameTerms, Made
<1>. QED
  BY <1>2, <1>3
-----------------------------------------------------------------------------
(* The rows and the lots.                                                   *)

RowsSettled ==
  \A o \in OrderIds :
    dbRow[o] # NoHolding =>
      /\ dbOrder[o].status \in {"FINISHED", "CANCEL"}
      /\ dbOrder[o].op = "BUY" /\ dbRow[o] <= dbOrder[o].num

IdsApart(lots) == \A i, j \in DOMAIN lots : lots[i].id = lots[j].id => i = j

InRow(lot, g) ==
  lot.id \in Rows(g) /\ lot.price = dbOrder[lot.id].deal /\ lot.count <= dbRow[lot.id]

LotsInRows(g) ==
  /\ IdsApart(HeldLots(g))
  /\ \A i \in DOMAIN HeldLots(g) : InRow(HeldLots(g)[i], g)

StoredInv ==
  OnceInv /\ OrdersStored /\ RowsSettled /\ \A g \in Groups : LotsInRows(g)

(* What a step may do to the rows.  The orders that have one are settled,   *)
(* so their records do not change.                                         *)
RowOrdersStay == \A p \in OrderIds : dbRow[p] # NoHolding => dbOrder'[p] = dbOrder[p]

LotsStayBut(g) == \A h \in Groups : h # g => HeldLots(h)' = HeldLots(h)

RowsUntouched == dbRow' = dbRow /\ \A h \in Groups : HeldLots(h)' = HeldLots(h)

RowBought(o, g) ==
  /\ order[o] \in OrderType /\ order[o].op = "BUY" /\ order[o].group = g
  /\ order[o].status = "FINISHED"
  /\ dbRow[o] = NoHolding /\ dbRow' = [dbRow EXCEPT ![o] = order[o].num]
  /\ dbOrder'[o] = order[o]
  /\ HeldLots(g)' = Append(HeldLots(g), BoughtLot(o)) /\ LotsStayBut(g)

LotsSold(g, n) ==
  /\ HeldLots(g)' = ClearedLots(SoldLotsOf(HeldLots(g), n))
  /\ LotsStayBut(g)

RowsSold(g, n) ==
  LET sold == SoldLotsOf(HeldLots(g), n)
  IN  /\ LotsSold(g, n)
      /\ \A j \in DOMAIN sold :
           dbRow'[sold[j].id] = IF j <= VisitedOf(HeldLots(g), n) THEN sold[j].count
                                ELSE dbRow[sold[j].id]
      /\ \A p \in OrderIds : (\A j \in DOMAIN sold : sold[j].id # p) => dbRow'[p] = dbRow[p]

RowsLost(g, n) == LotsSold(g, n) /\ dbRow' = dbRow /\ unmarked'

RowMove ==
  \/ RowsUntouched
  \/ \E o \in OrderIds, g \in Groups : RowBought(o, g)
  \/ \E g \in Groups, n \in Nat : RowsSold(g, n) \/ RowsLost(g, n)
  \/ Reload

LEMMA SettlesOnce ==
  ASSUME OnceInv, NEW t \in Threads, NEW o, NEW step \in {"done", "buy", "sell"},
         Settles(t, o, step)
  PROVE  /\ released[o] = 0 /\ Made(o)
         /\ released' = [released EXCEPT ![o] = @ + 1]
         /\ step = "done" => order[o].status = "FINISHED"
         /\ step # "done" => order[o].status = "CANCEL"
         /\ step = "buy" => order[o].op = "BUY"
         /\ step = "sell" => order[o].op = "SELL"
BY DEF Settles, OnceInv, WorkIsUnsettled

LEMMA OpenHasNoRow ==
  ASSUME StoredInv, NEW o \in OrderIds, released[o] = 0
  PROVE  dbRow[o] = NoHolding
BY DEF StoredInv, RowsSettled, OrdersStored, Stored

LEMMA SettledRecords ==
  ASSUME StoredInv, OrdersMove
  PROVE  RowOrdersStay
BY OpenHasNoRow DEF OrdersMove, Unwritten, Written, RowOrdersStay

LEMMA SoldApart ==
  ASSUME NEW lots \in Seq(TradedLot), NEW n \in Nat, IdsApart(lots)
  PROVE  IdsApart(SoldLotsOf(lots, n))
<1>1. DOMAIN SoldLotsOf(lots, n) = DOMAIN lots
  BY SaleOfLots
<1>2. (\A i, j \in DOMAIN lots : lots[i].id = lots[j].id => i = j)
        => \A i, j \in DOMAIN lots :
             SoldLotsOf(lots, n)[i].id = SoldLotsOf(lots, n)[j].id => i = j
  BY SaleOfLots, Zenon
<1>. QED
  BY <1>1, <1>2 DEF IdsApart

(* The history string names every row of the lots visited.                  *)
LEMMA RowsStored ==
  ASSUME RecTypes, NEW o \in OrderIds, NEW g \in Groups, g = order[o].group,
         NEW n \in Nat, n = order[o].num, LotsInRows(g), StoreRows(o), LotsSold(g, n)
  PROVE  RowsSold(g, n)
<1>. DEFINE sold == SoldLotsOf(HeldLots(g), n)
            v == VisitedOf(HeldLots(g), n)
            D == DOMAIN sold
<1>1. /\ D = DOMAIN HeldLots(g) /\ sold \in Seq(TradedLot)
      /\ v \in 0 .. Len(HeldLots(g))
      /\ D = 1 .. Len(HeldLots(g)) /\ Len(HeldLots(g)) \in Nat
      /\ \A i, j \in D : sold[i].id = sold[j].id => i = j
  <2>1. HeldLots(g) \in Seq(TradedLot) /\ IdsApart(HeldLots(g))
    BY DEF RecTypes, LotsTyped, LotsInRows
  <2>2. DOMAIN HeldLots(g) = 1 .. Len(HeldLots(g)) /\ Len(HeldLots(g)) \in Nat
    BY <2>1, DomainFinite
  <2>3. /\ D = DOMAIN HeldLots(g) /\ sold \in Seq(TradedLot)
        /\ v \in 0 .. Len(HeldLots(g))
    BY <2>1, SaleOfLots
  <2>4. IdsApart(sold)
    BY <2>1, SoldApart
  <2>. HIDE DEF sold, v
  <2>. QED
    BY <2>2, <2>3, <2>4 DEF IdsApart
<1>2. /\ DOMAIN Picked(o) = 1 .. v
      /\ \A k \in 1 .. v : Picked(o)[k] = sold[k]
  BY PickedOfOrder DEF RecTypes
<1>3. \A j \in D : sold[j].id \in OrderIds
  <2>1. \A j \in D : sold[j] \in TradedLot
    BY <1>1
  <2>. QED
    BY <2>1 DEF TradedLot
<1>. HIDE DEF sold, v
<1>4. \A j \in D : j \in 1 .. v <=> j <= v
  BY <1>1
<1>5. 1 .. v \subseteq D
  BY <1>1
<1>. DEFINE picks(i) == {k \in DOMAIN Picked(o) : Picked(o)[k].id = i}
<1>6. \A i \in OrderIds :
        dbRow'[i] = IF picks(i) = {} THEN dbRow[i]
                    ELSE Picked(o)[CHOOSE k \in picks(i) : TRUE].count
  BY DEF StoreRows
<1>7. \A i : picks(i) = {k \in 1 .. v : sold[k].id = i}
  BY <1>2
<1>. HIDE DEF picks
<1>8. ASSUME NEW j \in D
      PROVE  dbRow'[sold[j].id] = IF j <= v THEN sold[j].count ELSE dbRow[sold[j].id]
  <2>1. sold[j].id \in OrderIds
    BY <1>3
  <2>2. CASE j <= v
    <3>1. j \in picks(sold[j].id)
      BY <1>4, <1>7, <2>2
    <3>2. PICK k \in picks(sold[j].id) : k = CHOOSE m \in picks(sold[j].id) : TRUE
      BY <3>1
    <3>3. k = j
      BY <1>1, <1>5, <1>7
    <3>4. Picked(o)[j] = sold[j]
      BY <1>2, <1>4, <2>2
    <3>5. dbRow'[sold[j].id] = Picked(o)[k].count
      BY <1>6, <2>1, <3>1, <3>2
    <3>. QED
      BY <2>2, <3>3, <3>4, <3>5
  <2>3. CASE ~(j <= v)
    <3>1. picks(sold[j].id) = {}
      BY <1>1, <1>4, <1>5, <1>7, <2>3
    <3>. QED
      BY <1>6, <2>1, <2>3, <3>1
  <2>. QED
    BY <2>2, <2>3
<1>9. ASSUME NEW p \in OrderIds, \A j \in D : sold[j].id # p
      PROVE  dbRow'[p] = dbRow[p]
  <2>1. picks(p) = {}
    BY <1>5, <1>7, <1>9
  <2>. QED
    BY <1>6, <2>1
<1>. QED
  BY <1>8, <1>9 DEF RowsSold, sold, v
-----------------------------------------------------------------------------
(* What the moves of the rows keep, group by group.                         *)

RowsHeld(g) ==
  /\ \A i \in DOMAIN HeldLots(g) : HeldLots(g)[i].count = dbRow[HeldLots(g)[i].id]
  /\ \A o \in Rows(g) : dbRow[o] = 0 \/ \E i \in DOMAIN HeldLots(g) : HeldLots(g)[i].id = o

Clean == ~unmarked /\ NoRowBelowZero

RowsFall ==
  \A o \in OrderIds : dbRow[o] # NoHolding => dbRow'[o] \in Int /\ dbRow'[o] <= dbRow[o]

GroupKept(g) == LotsInRows(g)' /\ (Clean' /\ RowsHeld(g) => RowsHeld(g)')

RowsKept == RowsFall /\ RowsSettled' /\ \A g \in Groups : GroupKept(g)

LEMMA RowNumbers ==
  ASSUME RecTypes, StoredInv, NEW o \in OrderIds, dbRow[o] # NoHolding
  PROVE  /\ dbRow[o] \in Int /\ dbOrder[o] \in OrderType /\ dbOrder[o].num \in Nat
         /\ dbOrder[o].group \in Groups
<1>1. dbRow[o] \in Int
  BY DEF RecTypes, DbTyped
<1>2. dbOrder[o] \in OrderType
  BY DEF RecTypes, DbTyped, StoredInv, RowsSettled, NoOrder
<1>. QED
  BY <1>1, <1>2 DEF OrderType

LEMMA RowsAre ==
  ASSUME RowsSettled, NEW g, NEW o
  PROVE  o \in Rows(g) <=> o \in OrderIds /\ dbRow[o] # NoHolding /\ dbOrder[o].group = g
BY DEF RowsSettled, Rows, Numbered

LEMMA RowsAreNext ==
  ASSUME RowsSettled', NEW g, NEW o
  PROVE  o \in Rows(g)' <=> o \in OrderIds /\ dbRow'[o] # NoHolding /\ dbOrder'[o].group = g
BY DEF RowsSettled, Rows, Numbered

LEMMA SettledKept ==
  ASSUME RecTypes, StoredInv, RowOrdersStay, RowsFall,
         \A o \in OrderIds : dbRow'[o] # NoHolding =>
            \/ dbRow[o] # NoHolding
            \/ /\ dbOrder'[o].status \in {"FINISHED", "CANCEL"} /\ dbOrder'[o].op = "BUY"
               /\ dbRow'[o] <= dbOrder'[o].num
  PROVE  RowsSettled'
<1>. SUFFICES ASSUME NEW o \in OrderIds, dbRow'[o] # NoHolding, dbRow[o] # NoHolding
              PROVE  /\ dbOrder'[o].status \in {"FINISHED", "CANCEL"}
                     /\ dbOrder'[o].op = "BUY" /\ dbRow'[o] <= dbOrder'[o].num
  BY DEF RowsSettled
<1>1. /\ dbOrder[o].status \in {"FINISHED", "CANCEL"}
      /\ dbOrder[o].op = "BUY" /\ dbRow[o] <= dbOrder[o].num
      /\ dbOrder'[o] = dbOrder[o]
  BY DEF StoredInv, RowsSettled, RowOrdersStay
<1>2. dbRow'[o] \in Int /\ dbRow'[o] <= dbRow[o] /\ dbRow[o] \in Int /\ dbOrder[o].num \in Nat
  BY RowNumbers DEF RowsFall
<1>3. dbRow'[o] <= dbOrder[o].num
  BY <1>1, <1>2
<1>. QED
  BY <1>1, <1>3

(* A group whose rows and lots the step leaves alone.                       *)
LEMMA GroupUntouched ==
  ASSUME StoredInv, RowsSettled', RowOrdersStay, NEW g \in Groups,
         HeldLots(g)' = HeldLots(g),
         \A p \in OrderIds : \/ dbRow'[p] = dbRow[p]
                             \/ dbOrder[p].group # g /\ dbOrder'[p].group # g
  PROVE  GroupKept(g)
<1>1. \A p : p \in Rows(g)' <=> p \in Rows(g)
  BY RowsAre, RowsAreNext DEF StoredInv, RowOrdersStay
<1>2. \A p \in Rows(g) : dbRow'[p] = dbRow[p] /\ dbOrder'[p] = dbOrder[p]
  BY RowsAre DEF StoredInv, RowOrdersStay
<1>3. LotsInRows(g)'
  <2>1. IdsApart(HeldLots(g)) /\ \A i \in DOMAIN HeldLots(g) : InRow(HeldLots(g)[i], g)
    BY DEF StoredInv, LotsInRows
  <2>2. ASSUME NEW i \in DOMAIN HeldLots(g) PROVE InRow(HeldLots(g)[i], g)'
    BY <1>1, <1>2, <2>1 DEF InRow
  <2>. QED
    BY <2>1, <2>2 DEF LotsInRows, IdsApart
<1>4. ASSUME RowsHeld(g) PROVE RowsHeld(g)'
  <2>1. ASSUME NEW i \in DOMAIN HeldLots(g)
        PROVE  HeldLots(g)[i].count = dbRow'[HeldLots(g)[i].id]
    BY <1>2, <1>4 DEF RowsHeld, StoredInv, LotsInRows, InRow
  <2>2. ASSUME NEW p \in Rows(g)
        PROVE  dbRow'[p] = 0 \/ \E i \in DOMAIN HeldLots(g) : HeldLots(g)[i].id = p
    BY <1>2, <1>4 DEF RowsHeld
  <2>. QED
    BY <1>1, <2>1, <2>2 DEF RowsHeld
<1>. QED
  BY <1>3, <1>4 DEF GroupKept

LEMMA UntouchedKeeps ==
  ASSUME RecTypes, StoredInv, RowOrdersStay, RowsUntouched
  PROVE  RowsKept
<1>1. RowsFall
  BY RowNumbers DEF RowsFall, RowsUntouched
<1>2. RowsSettled'
  BY <1>1, SettledKept DEF RowsUntouched
<1>3. \A g \in Groups : GroupKept(g)
  BY <1>2, GroupUntouched DEF RowsUntouched
<1>. QED
  BY <1>1, <1>2, <1>3 DEF RowsKept

LEMMA BoughtKeeps ==
  ASSUME RecTypes, RecTypes', StoredInv, RowOrdersStay, NEW o \in OrderIds, NEW g \in Groups,
         RowBought(o, g)
  PROVE  RowsKept
<1>. DEFINE lot == BoughtLot(o)
            lots == HeldLots(g)
<1>1. /\ \A p \in OrderIds : p # o => dbRow'[p] = dbRow[p]
      /\ dbRow'[o] = order[o].num /\ dbRow[o] = NoHolding
      /\ dbOrder'[o] = order[o] /\ order[o].group = g
      /\ order[o].status = "FINISHED" /\ order[o].op = "BUY"
      /\ HeldLots(g)' = Append(lots, lot)
  BY DEF RowBought, RecTypes, DbTyped
<1>2. RowsFall
  BY <1>1, RowNumbers DEF RowsFall
<1>3. order[o].num \in Nat /\ lot.id = o /\ lot.price = order[o].deal /\ lot.count = order[o].num
  BY OrderNumbers DEF RowBought, BoughtLot
<1>4. RowsSettled'
  BY <1>1, <1>2, <1>3, SettledKept
<1>5. o \in Rows(g)' /\ \A p : p \in Rows(g)' => p \in Rows(g) \/ p = o
  <2>1. dbRow'[o] # NoHolding
    BY <1>1, <1>3, RecoveryAssumption
  <2>. QED
    BY <1>1, <1>4, <2>1, RowsAre, RowsAreNext DEF StoredInv, RowOrdersStay
<1>6. \A p : p \in Rows(g) => /\ p \in Rows(g)' /\ p # o /\ dbRow'[p] = dbRow[p]
                              /\ dbOrder'[p] = dbOrder[p]
  BY <1>1, <1>4, RowsAre, RowsAreNext DEF StoredInv, RowOrdersStay
<1>7. /\ lots \in Seq(TradedLot) /\ lot \in TradedLot
      /\ IdsApart(lots) /\ \A i \in DOMAIN lots : InRow(lots[i], g)
  BY BoughtLotIs DEF RecTypes, LotsTyped, StoredInv, LotsInRows, RowBought
<1>. DEFINE all == Append(lots, lot)
<1>8. /\ DOMAIN lots = 1 .. Len(lots) /\ DOMAIN all = 1 .. Len(lots) + 1
      /\ Len(lots) \in Nat
      /\ \A i \in 1 .. Len(lots) : all[i] = lots[i]
      /\ all[Len(lots) + 1] = lot
  <2>. HIDE DEF lots, lot
  <2>. QED
    BY <1>7, AppendProperties, DomainFinite
<1>. HIDE DEF lots, lot, all
<1>9. \A i \in DOMAIN all : (i \in DOMAIN lots /\ all[i] = lots[i]) \/ i = Len(lots) + 1
  BY <1>8
<1>10. ASSUME NEW i \in DOMAIN all
       PROVE  /\ all[i].id \in Rows(g)' /\ all[i].price = dbOrder'[all[i].id].deal
              /\ all[i].count <= dbRow'[all[i].id]
  <2>1. CASE i \in DOMAIN lots /\ all[i] = lots[i]
    BY <1>6, <1>7, <2>1 DEF InRow
  <2>2. CASE i = Len(lots) + 1
    <3>1. all[i] = lot
      BY <1>8, <2>2
    <3>. QED
      BY <1>1, <1>3, <1>5, <3>1
  <2>. QED
    BY <1>9, <2>1, <2>2
<1>11. IdsApart(all)
  <2>1. \A i \in DOMAIN lots : lots[i].id # lot.id
    BY <1>3, <1>6, <1>7 DEF InRow
  <2>. QED
    BY <1>7, <1>8, <1>9, <2>1 DEF IdsApart
<1>12. LotsInRows(g)'
  <2>1. HeldLots(g)' = all
    BY <1>1 DEF all
  <2>. QED
    BY <1>10, <1>11, <2>1 DEF LotsInRows, IdsApart, InRow
<1>13. ASSUME RowsHeld(g) PROVE RowsHeld(g)'
  <2>1. ASSUME NEW i \in DOMAIN all PROVE all[i].count = dbRow'[all[i].id]
    <3>1. CASE i \in DOMAIN lots /\ all[i] = lots[i]
      <4>1. lots[i].id \in Rows(g) /\ lots[i].count = dbRow[lots[i].id]
        BY <1>7, <1>13, <3>1 DEF InRow, RowsHeld, lots
      <4>. QED
        BY <1>6, <3>1, <4>1
    <3>2. CASE i = Len(lots) + 1
      BY <1>1, <1>3, <1>8, <3>2
    <3>. QED
      BY <1>9, <3>1, <3>2
  <2>2. ASSUME NEW p \in Rows(g)'
        PROVE  dbRow'[p] = 0 \/ \E i \in DOMAIN all : all[i].id = p
    <3>1. CASE p = o
      BY <1>3, <1>8, <3>1
    <3>2. CASE p \in Rows(g)
      <4>1. dbRow[p] = 0 \/ \E i \in DOMAIN lots : lots[i].id = p
        BY <1>13, <3>2 DEF RowsHeld, lots
      <4>2. \A i \in DOMAIN lots : i \in DOMAIN all /\ all[i] = lots[i]
        BY <1>8
      <4>. QED
        BY <1>6, <3>2, <4>1, <4>2
    <3>. QED
      BY <1>5, <3>1, <3>2
  <2>. QED
    BY <1>1, <2>1, <2>2 DEF RowsHeld, all
<1>14. ASSUME NEW h \in Groups, h # g PROVE GroupKept(h)
  <2>1. HeldLots(h)' = HeldLots(h)
    BY <1>14 DEF RowBought, LotsStayBut
  <2>2. dbOrder[o].group = g
    BY DEF StoredInv, OrdersStored, SameRecord, RowBought, Made
  <2>. QED
    BY <1>1, <1>4, <1>14, <2>1, <2>2, GroupUntouched
<1>15. GroupKept(g)
  BY <1>12, <1>13 DEF GroupKept
<1>. QED
  BY <1>2, <1>4, <1>14, <1>15 DEF RowsKept
(* What a sale leaves in the list.                                          *)
LEMMA LeftLots ==
  ASSUME NEW sold \in Seq(TradedLot), IdsApart(sold)
  PROVE  LET left == ClearedLots(sold)
         IN  /\ IdsApart(left)
             /\ \A m \in DOMAIN left : \E j \in DOMAIN sold : left[m] = sold[j]
             /\ \A j \in DOMAIN sold :
                  sold[j].count # 0 => \E m \in DOMAIN left : left[m] = sold[j]
<1>. DEFINE left == ClearedLots(sold)
            key == [lot \in TradedLot |-> lot.id]
<1>1. /\ left \in Seq(TradedLot)
      /\ {left[i] : i \in DOMAIN left} = {lot \in {sold[i] : i \in DOMAIN sold} : HasShares(lot)}
  BY TradedLotKind, ClearedLotsKeeps
<1>2. \A i \in DOMAIN sold : key[sold[i]] = sold[i].id
  <2>1. \A i \in DOMAIN sold : sold[i] \in TradedLot
    OBVIOUS
  <2>. QED
    BY <2>1
<1>3. \A i, j \in DOMAIN sold : key[sold[i]] = key[sold[j]] => i = j
  BY <1>2 DEF IdsApart
<1>4. \A i, j \in DOMAIN left : key[left[i]] = key[left[j]] => i = j
  <2>. HIDE DEF key
  <2>. QED
    BY <1>3, ClearedLotsApart
<1>. HIDE DEF left
<1>5. \A i \in DOMAIN left : key[left[i]] = left[i].id
  <2>1. \A i \in DOMAIN left : left[i] \in TradedLot
    BY <1>1
  <2>. QED
    BY <2>1
<1>6. IdsApart(left)
  BY <1>4, <1>5 DEF IdsApart
<1>7. \A m \in DOMAIN left : \E j \in DOMAIN sold : left[m] = sold[j]
  BY <1>1
<1>8. \A j \in DOMAIN sold :
        sold[j].count # 0 => \E m \in DOMAIN left : left[m] = sold[j]
  BY <1>1 DEF HasShares
<1>. QED
  BY <1>6, <1>7, <1>8 DEF left

(* The lots of a sale are in the rows they came from.                       *)
LEMMA SoldInRows ==
  ASSUME RecTypes, StoredInv, NEW g \in Groups, NEW n \in Nat
  PROVE  LET sold == SoldLotsOf(HeldLots(g), n)
         IN  /\ sold \in Seq(TradedLot) /\ IdsApart(sold)
             /\ \A j \in DOMAIN sold : sold[j] \in TradedLot /\ InRow(sold[j], g)
             /\ \A j \in DOMAIN sold :
                  RowsHeld(g) /\ ~(j <= VisitedOf(HeldLots(g), n))
                    => sold[j].count = dbRow[sold[j].id]
             /\ \A i \in DOMAIN HeldLots(g) : \E j \in DOMAIN sold :
                  sold[j].id = HeldLots(g)[i].id
<1>. DEFINE lots == HeldLots(g)
            sold == SoldLotsOf(lots, n)
            v == VisitedOf(lots, n)
<1>1. /\ lots \in Seq(TradedLot) /\ IdsApart(lots)
      /\ \A i \in DOMAIN lots : InRow(lots[i], g)
      /\ \A i \in DOMAIN lots : lots[i] \in TradedLot
  BY DEF RecTypes, LotsTyped, StoredInv, LotsInRows
<1>2. sold \in Seq(TradedLot) /\ DOMAIN sold = DOMAIN lots /\ v \in 0 .. Len(lots)
  BY <1>1, SaleOfLots
<1>3. /\ \A j \in DOMAIN lots : \E i \in DOMAIN lots :
           LeftOf(sold[j], lots[i]) /\ (j > v => sold[j] = lots[i])
      /\ \A i \in DOMAIN lots : \E j \in DOMAIN lots :
           LeftOf(sold[j], lots[i]) /\ (j > v => sold[j] = lots[i])
  BY <1>1, SaleOfLots
<1>4. IdsApart(sold)
  BY <1>1, SoldApart
<1>5. DOMAIN lots \subseteq Int /\ v \in Int
  <2>1. DOMAIN lots = 1 .. Len(lots) /\ Len(lots) \in Nat
    BY <1>1, DomainFinite
  <2>. HIDE DEF lots, v
  <2>. QED
    BY <1>2, <2>1
<1>. HIDE DEF sold, v, lots
<1>6. \A j \in DOMAIN sold : sold[j] \in TradedLot
  BY <1>2
<1>7. ASSUME NEW j \in DOMAIN sold
      PROVE  /\ InRow(sold[j], g)
             /\ RowsHeld(g) /\ ~(j <= v) => sold[j].count = dbRow[sold[j].id]
  <2>1. PICK i \in DOMAIN lots : LeftOf(sold[j], lots[i]) /\ (j > v => sold[j] = lots[i])
    BY <1>2, <1>3
  <2>2. InRow(lots[i], g) /\ lots[i] \in TradedLot
    BY <1>1
  <2>3. /\ sold[j].count \in Int /\ lots[i].count \in Int
        /\ sold[j].id = lots[i].id /\ sold[j].price = lots[i].price
        /\ sold[j].count <= lots[i].count
    BY <1>6, <2>1, <2>2 DEF TradedLot, LeftOf
  <2>4. /\ lots[i].id \in Rows(g) /\ lots[i].price = dbOrder[lots[i].id].deal
        /\ lots[i].count <= dbRow[lots[i].id]
    BY <2>2 DEF InRow
  <2>5. dbRow[lots[i].id] \in Int
    BY <2>4, RowsTyped DEF RecTypes
  <2>6. sold[j].count <= dbRow[lots[i].id]
    BY <2>3, <2>4, <2>5
  <2>7. InRow(sold[j], g)
    BY <2>3, <2>4, <2>6 DEF InRow
  <2>8. ASSUME RowsHeld(g), ~(j <= v) PROVE sold[j].count = dbRow[sold[j].id]
    <3>1. j > v
      BY <1>2, <1>5, <2>8
    <3>2. sold[j] = lots[i]
      BY <2>1, <3>1
    <3>. QED
      BY <2>8, <3>2 DEF RowsHeld, lots
  <2>. QED
    BY <2>7, <2>8
<1>8. \A i \in DOMAIN lots : \E j \in DOMAIN sold : sold[j].id = lots[i].id
  BY <1>2, <1>3 DEF LeftOf
<1>. QED
  BY <1>2, <1>4, <1>6, <1>7, <1>8 DEF sold, v, lots

LEMMA LostKeeps ==
  ASSUME RecTypes, StoredInv, RowOrdersStay, NEW g \in Groups, NEW n \in Nat, RowsLost(g, n)
  PROVE  RowsKept
<1>. DEFINE sold == SoldLotsOf(HeldLots(g), n)
            left == ClearedLots(sold)
<1>1. dbRow' = dbRow /\ unmarked' /\ HeldLots(g)' = left /\ LotsStayBut(g)
  BY DEF RowsLost, LotsSold
<1>2. RowsFall
  BY <1>1, RowNumbers DEF RowsFall
<1>3. RowsSettled'
  BY <1>1, <1>2, SettledKept
<1>4. ASSUME NEW h \in Groups, h # g PROVE GroupKept(h)
  BY <1>1, <1>3, <1>4, GroupUntouched DEF LotsStayBut
<1>5. /\ sold \in Seq(TradedLot) /\ IdsApart(sold)
      /\ \A j \in DOMAIN sold : InRow(sold[j], g)
  BY SoldInRows
<1>6. IdsApart(left) /\ \A m \in DOMAIN left : \E j \in DOMAIN sold : left[m] = sold[j]
  <2>. HIDE DEF sold
  <2>. QED
    BY <1>5, LeftLots
<1>. HIDE DEF left, sold
<1>7. ASSUME NEW m \in DOMAIN left
      PROVE  /\ left[m].id \in Rows(g)' /\ left[m].price = dbOrder'[left[m].id].deal
             /\ left[m].count <= dbRow'[left[m].id]
  <2>1. InRow(left[m], g)
    BY <1>5, <1>6
  <2>. QED
    BY <1>1, <1>3, <2>1, RowsAre, RowsAreNext DEF InRow, RowOrdersStay, StoredInv
<1>8. LotsInRows(g)'
  BY <1>1, <1>6, <1>7 DEF LotsInRows, IdsApart, InRow
<1>. QED
  BY <1>1, <1>2, <1>3, <1>4, <1>8 DEF RowsKept, GroupKept, Clean

LEMMA SoldKeeps ==
  ASSUME RecTypes, StoredInv, RowOrdersStay, NEW g \in Groups, NEW n \in Nat, RowsSold(g, n)
  PROVE  RowsKept
<1>. DEFINE sold == SoldLotsOf(HeldLots(g), n)
            left == ClearedLots(sold)
            v == VisitedOf(HeldLots(g), n)
<1>1. /\ HeldLots(g)' = left /\ LotsStayBut(g)
      /\ \A j \in DOMAIN sold :
           dbRow'[sold[j].id] = IF j <= v THEN sold[j].count ELSE dbRow[sold[j].id]
      /\ \A p \in OrderIds : (\A j \in DOMAIN sold : sold[j].id # p) => dbRow'[p] = dbRow[p]
  BY DEF RowsSold, LotsSold
<1>2. /\ sold \in Seq(TradedLot) /\ IdsApart(sold)
      /\ \A j \in DOMAIN sold : sold[j] \in TradedLot /\ InRow(sold[j], g)
      /\ \A j \in DOMAIN sold :
           RowsHeld(g) /\ ~(j <= v) => sold[j].count = dbRow[sold[j].id]
      /\ \A i \in DOMAIN HeldLots(g) : \E j \in DOMAIN sold : sold[j].id = HeldLots(g)[i].id
  BY SoldInRows
<1>. HIDE DEF sold, v
<1>3. /\ IdsApart(left) /\ \A m \in DOMAIN left : \E j \in DOMAIN sold : left[m] = sold[j]
      /\ \A j \in DOMAIN sold : sold[j].count # 0 => \E m \in DOMAIN left : left[m] = sold[j]
  BY <1>2, LeftLots
<1>. HIDE DEF left
<1>4. ASSUME NEW j \in DOMAIN sold
      PROVE  /\ sold[j].id \in Rows(g) /\ sold[j].price = dbOrder[sold[j].id].deal
             /\ sold[j].count \in Int /\ dbRow'[sold[j].id] \in Int
             /\ sold[j].count <= dbRow'[sold[j].id]
             /\ dbRow'[sold[j].id] <= dbRow[sold[j].id]
             /\ RowsHeld(g) => sold[j].count = dbRow'[sold[j].id]
  <2>1. /\ sold[j].id \in Rows(g) /\ sold[j].price = dbOrder[sold[j].id].deal
        /\ sold[j].count <= dbRow[sold[j].id] /\ sold[j].count \in Int
    BY <1>2 DEF InRow, TradedLot
  <2>2. dbRow[sold[j].id] \in Int
    BY <2>1, RowsTyped DEF RecTypes
  <2>3. CASE j <= v
    <3>1. dbRow'[sold[j].id] = sold[j].count
      BY <1>1, <2>3
    <3>. QED
      BY <2>1, <3>1
  <2>4. CASE ~(j <= v)
    <3>1. dbRow'[sold[j].id] = dbRow[sold[j].id]
      BY <1>1, <2>4
    <3>2. RowsHeld(g) => sold[j].count = dbRow[sold[j].id]
      BY <1>2, <2>4
    <3>. QED
      BY <2>1, <2>2, <3>1, <3>2
  <2>. QED
    BY <2>3, <2>4
<1>5. ASSUME NEW p \in OrderIds
      PROVE  \/ dbRow'[p] = dbRow[p]
             \/ \E j \in DOMAIN sold : sold[j].id = p
  BY <1>1
<1>6. RowsFall
  <2>. SUFFICES ASSUME NEW p \in OrderIds, dbRow[p] # NoHolding
                PROVE  dbRow'[p] \in Int /\ dbRow'[p] <= dbRow[p]
    BY DEF RowsFall
  <2>1. CASE dbRow'[p] = dbRow[p]
    BY <2>1, RowNumbers
  <2>2. CASE \E j \in DOMAIN sold : sold[j].id = p
    BY <1>4, <2>2
  <2>. QED
    BY <1>5, <2>1, <2>2
<1>7. \A p \in OrderIds : dbRow'[p] # NoHolding => dbRow[p] # NoHolding
  <2>1. \A p \in Rows(g) : dbRow[p] # NoHolding
    BY DEF Rows
  <2>. QED
    BY <1>4, <1>5, <2>1
<1>8. RowsSettled'
  BY <1>6, <1>7, SettledKept
<1>9. \A p : p \in Rows(g)' <=> p \in Rows(g)
  <2>1. \A p \in OrderIds : dbRow[p] # NoHolding => dbRow'[p] # NoHolding
    BY <1>6, RecoveryAssumption DEF RowsFall
  <2>. QED
    BY <1>7, <1>8, <2>1, RowsAre, RowsAreNext DEF StoredInv, RowOrdersStay
<1>10. \A p \in Rows(g) : dbOrder'[p] = dbOrder[p]
  BY RowsAre DEF StoredInv, RowOrdersStay
<1>11. LotsInRows(g)'
  <2>1. ASSUME NEW m \in DOMAIN left
        PROVE  /\ left[m].id \in Rows(g)' /\ left[m].price = dbOrder'[left[m].id].deal
               /\ left[m].count <= dbRow'[left[m].id]
    BY <1>3, <1>4, <1>9, <1>10
  <2>. QED
    BY <1>1, <1>3, <2>1 DEF LotsInRows, IdsApart, InRow
<1>12. ASSUME RowsHeld(g) PROVE RowsHeld(g)'
  <2>1. \A m \in DOMAIN left : left[m].count = dbRow'[left[m].id]
    BY <1>3, <1>4, <1>12
  <2>2. ASSUME NEW p \in Rows(g)
        PROVE  dbRow'[p] = 0 \/ \E m \in DOMAIN left : left[m].id = p
    <3>1. CASE \E j \in DOMAIN sold : sold[j].id = p
      <4>1. PICK j \in DOMAIN sold : sold[j].id = p
        BY <3>1
      <4>2. sold[j].count = dbRow'[p]
        BY <1>4, <1>12, <4>1
      <4>. QED
        BY <1>3, <4>1, <4>2
    <3>2. CASE ~\E j \in DOMAIN sold : sold[j].id = p
      <4>1. ~\E i \in DOMAIN HeldLots(g) : HeldLots(g)[i].id = p
        BY <1>2, <3>2
      <4>2. dbRow[p] = 0
        BY <1>12, <4>1 DEF RowsHeld
      <4>3. p \in OrderIds
        BY DEF Rows, Numbered
      <4>. QED
        BY <1>5, <3>2, <4>2, <4>3
    <3>. QED
      BY <3>1, <3>2
  <2>. QED
    BY <1>1, <1>9, <2>1, <2>2 DEF RowsHeld
<1>13. ASSUME NEW h \in Groups, h # g PROVE GroupKept(h)
  <2>1. HeldLots(h)' = HeldLots(h)
    BY <1>1, <1>13 DEF LotsStayBut
  <2>2. ASSUME NEW p \in OrderIds
        PROVE  \/ dbRow'[p] = dbRow[p]
               \/ dbOrder[p].group # h /\ dbOrder'[p].group # h
    <3>1. CASE p \in Rows(g)
      <4>1. dbOrder[p].group = g
        BY <3>1 DEF Rows
      <4>. QED
        BY <1>10, <1>13, <3>1, <4>1
    <3>2. CASE p \notin Rows(g)
      BY <1>4, <1>5, <3>2
    <3>. QED
      BY <3>1, <3>2
  <2>. QED
    BY <1>8, <2>1, <2>2, GroupUntouched
<1>14. GroupKept(g)
  BY <1>11, <1>12 DEF GroupKept
<1>. QED
  BY <1>6, <1>8, <1>13, <1>14 DEF RowsKept
LEMMA ReloadKeeps ==
  ASSUME ~IsPosition(NoPosition), RecTypes, StoredInv, RowOrdersStay, Reload
  PROVE  RowsKept /\ \A g \in Groups : Clean' => RowsHeld(g)'
<1>1. dbRow' = dbRow /\ dbOrder' = dbOrder /\ DbTyped
  BY DEF Reload, storedVars, RecTypes
<1>2. RowsFall
  BY <1>1, RowNumbers DEF RowsFall
<1>3. RowsSettled'
  BY <1>1, <1>2, SettledKept
<1>4. ASSUME NEW g \in Groups
      PROVE  LotsInRows(g)' /\ (Clean' => RowsHeld(g)')
  <2>1. \A p : p \in Rows(g)' <=> p \in Rows(g)
    BY <1>1, <1>3, RowsAre, RowsAreNext DEF StoredInv
  <2>2. \A p \in Rows(g) : dbRow[p] \in Int
    BY <1>1, RowsTyped
  <2>3. CASE SomeShares(g)
    <3>. DEFINE lots == LoadedPosition(g).lots
    <3>1. HeldLots(g)' = lots
      BY <1>1, <2>3, ReloadedLots
    <3>2. /\ \A i \in DOMAIN lots : /\ lots[i].id \in Rows(g)
                                    /\ lots[i].price = dbOrder[lots[i].id].deal
                                    /\ lots[i].count = dbRow[lots[i].id]
          /\ IdsApart(lots)
          /\ \A o \in Rows(g) : \E i \in DOMAIN lots : lots[i].id = o
      BY <1>1, LoadedIs DEF IdsApart
    <3>. HIDE DEF lots
    <3>3. \A i \in DOMAIN lots : lots[i].count <= dbRow[lots[i].id]
      BY <2>2, <3>2
    <3>4. LotsInRows(g)'
      BY <1>1, <2>1, <3>1, <3>2, <3>3 DEF LotsInRows, IdsApart, InRow
    <3>5. RowsHeld(g)'
      BY <1>1, <2>1, <3>1, <3>2 DEF RowsHeld
    <3>. QED
      BY <3>4, <3>5
  <2>4. CASE ~SomeShares(g)
    <3>1. HeldLots(g)' = <<>> /\ DOMAIN <<>> = {}
      BY <1>1, <2>4, ReloadedLots
    <3>2. LotsInRows(g)'
      BY <3>1 DEF LotsInRows, IdsApart
    <3>3. ASSUME Clean', NEW p \in Rows(g) PROVE dbRow'[p] = 0
      <4>1. ~(dbRow[p] > 0) /\ dbRow[p] \in Int
        BY <2>2, <2>4 DEF SomeShares
      <4>2. dbRow[p] >= 0
        BY <1>1, <3>3 DEF Clean, NoRowBelowZero, Rows, Numbered
      <4>. QED
        BY <1>1, <4>1, <4>2
    <3>4. Clean' => RowsHeld(g)'
      BY <2>1, <3>1, <3>3 DEF RowsHeld
    <3>. QED
      BY <3>2, <3>4
  <2>. QED
    BY <2>3, <2>4
<1>. QED
  BY <1>2, <1>3, <1>4 DEF RowsKept, GroupKept

-----------------------------------------------------------------------------
(* Every step moves orders and rows in one of these ways.                   *)

RecMove == OrdersMove /\ RowMove /\ (unmarked => unmarked')

LEMMA SubmitMoves ==
  ASSUME ~IsPosition(NoPosition), RecTypes, StoredInv, NEW t \in Threads, NEW g \in Groups,
         NEW price \in Prices, NEW num \in Nums, NEW market \in Prices,
         StoredSubmit(t, g, price, num, market)
  PROVE  RecMove
<1>1. /\ \A h \in Groups : HeldLots(h)' = HeldLots(h)
      /\ UNCHANGED <<released, unmarked>>
      /\ \/ UNCHANGED order /\ NotStored
         \/ \E o \in OrderIds : OrderAdded(o, order'[o]) /\ StoreNew(o)
  BY SubmitEffect DEF RecTypes
<1>2. CASE UNCHANGED order /\ NotStored
  <2>1. OrdersMove
    BY <1>1, <1>2 DEF NotStored, storedVars, OrdersMove, Unwritten, SameTerms, Made
  <2>. QED
    BY <1>1, <1>2, <2>1 DEF RecMove, RowMove, RowsUntouched, NotStored, storedVars
<1>3. ASSUME NEW o \in OrderIds, OrderAdded(o, order'[o]), StoreNew(o) PROVE RecMove
  <2>1. OrdersMove
    BY <1>1, <1>3, SubmitOrders DEF StoredInv
  <2>. QED
    BY <1>1, <1>3, <2>1 DEF RecMove, RowMove, RowsUntouched, StoreNew
<1>. QED
  BY <1>1, <1>2, <1>3

LEMMA BuyDoneMoves ==
  ASSUME ~IsPosition(NoPosition), RecTypes, StoredInv, NEW t \in Threads, StoredBuyDone(t)
  PROVE  RecMove
<1>1. PICK o \in OrderIds, g \in Groups :
        /\ Settles(t, o, "done") /\ order[o].op = "BUY" /\ g = order[o].group
        /\ UNCHANGED unmarked /\ LotsStayBut(g)
        /\ \/ /\ UNCHANGED order /\ NotStored
              /\ HeldLots(g)' = HeldLots(g)
           \/ /\ HeldLots(g)' = Append(HeldLots(g), BoughtLot(o))
              /\ dbRow' = [dbRow EXCEPT ![o] = order[o].num]
              /\ UNCHANGED order \/ \E new \in OrderIds : OrderAdded(new, order'[new])
              /\ dbOrder' = [i \in OrderIds |->
                    IF i = o \/ i \in NewIds THEN order'[i] ELSE dbOrder[i]]
  BY BuyDoneEffect DEF RecTypes, LotsStayBut
<1>2. /\ released[o] = 0 /\ Made(o) /\ released' = [released EXCEPT ![o] = @ + 1]
      /\ order[o].status = "FINISHED" /\ order[o] \in OrderType
  BY <1>1, SettlesOnce DEF StoredInv, Settles
<1>3. TypeInv /\ DbTyped
  BY DEF RecTypes
<1>4. CASE UNCHANGED order /\ NotStored /\ HeldLots(g)' = HeldLots(g)
  <2>1. dbOrder' = dbOrder /\ dbRow' = dbRow
    BY <1>4 DEF NotStored, storedVars
  <2>2. OrdersMove
    BY <1>2, <1>3, <1>4, <2>1, OrderStays
  <2>3. RowsUntouched
    BY <1>1, <1>4, <2>1 DEF RowsUntouched, LotsStayBut
  <2>. QED
    BY <1>1, <2>2, <2>3 DEF RecMove, RowMove
<1>5. ASSUME HeldLots(g)' = Append(HeldLots(g), BoughtLot(o)),
             dbRow' = [dbRow EXCEPT ![o] = order[o].num],
             UNCHANGED order \/ \E new \in OrderIds : OrderAdded(new, order'[new]),
             dbOrder' = [i \in OrderIds |->
                    IF i = o \/ i \in NewIds THEN order'[i] ELSE dbOrder[i]]
      PROVE  RecMove
  <2>1. OrdersMove /\ order'[o] = order[o]
    <3>1. CASE UNCHANGED order
      <4>1. dbOrder' = [dbOrder EXCEPT ![o] = order[o]]
        BY <1>3, <1>5, <3>1, NoNewIds DEF DbTyped
      <4>. QED
        BY <1>2, <1>3, <3>1, <4>1, OrderStays
    <3>2. ASSUME NEW new \in OrderIds, OrderAdded(new, order'[new])
          PROVE  OrdersMove /\ order'[o] = order[o]
      <4>1. OrdersMove
        BY <1>2, <1>5, <3>2, BuyDoneOrders DEF StoredInv
      <4>2. order'[o] = order[o]
        BY <1>2, <1>3, <3>2, AddedTerms
      <4>. QED
        BY <4>1, <4>2
    <3>. QED
      BY <1>5, <3>1, <3>2
  <2>2. dbOrder'[o] = order[o]
    BY <1>5, <2>1
  <2>3. dbRow[o] = NoHolding
    BY <1>2, OpenHasNoRow
  <2>4. RowBought(o, g)
    BY <1>1, <1>2, <1>5, <2>2, <2>3 DEF RowBought
  <2>. QED
    BY <1>1, <2>1, <2>4 DEF RecMove, RowMove
<1>. QED
  BY <1>1, <1>4, <1>5

LEMMA SellDoneMoves ==
  ASSUME ~IsPosition(NoPosition), RecTypes, StoredInv, NEW t \in Threads, StoredSellDone(t)
  PROVE  RecMove
<1>1. PICK o \in OrderIds, g \in Groups, n \in Nat :
        SaleStored(t, o, g, n) \/ SaleLost(t, o, g, n)
  BY SellDoneEffect DEF RecTypes
<1>2. /\ Settles(t, o, "done") /\ g = order[o].group /\ n = order[o].num
      /\ UNCHANGED order /\ LotsSold(g, n)
  BY <1>1 DEF SaleStored, SaleLost, SaleBooked, LotsSold, LotsStayBut
<1>3. /\ released[o] = 0 /\ Made(o) /\ released' = [released EXCEPT ![o] = @ + 1]
  BY <1>2, SettlesOnce DEF StoredInv
<1>4. TypeInv /\ DbTyped
  BY DEF RecTypes
<1>5. CASE SaleLost(t, o, g, n)
  <2>1. dbOrder' = dbOrder /\ dbRow' = dbRow /\ unmarked'
    BY <1>5 DEF SaleLost, NotStored, storedVars
  <2>2. OrdersMove
    BY <1>2, <1>3, <1>4, <2>1, OrderStays
  <2>. QED
    BY <1>2, <2>1, <2>2 DEF RecMove, RowMove, RowsLost
<1>6. CASE SaleStored(t, o, g, n) /\ HeldLots(g) = <<>> /\ NotStored
  <2>1. dbOrder' = dbOrder /\ dbRow' = dbRow /\ UNCHANGED unmarked
    BY <1>6 DEF SaleStored, NotStored, storedVars
  <2>2. OrdersMove
    BY <1>2, <1>3, <1>4, <2>1, OrderStays
  <2>3. RowsUntouched
    BY <1>2, <1>6, <2>1, NothingToSell DEF RowsUntouched, LotsSold, LotsStayBut
  <2>. QED
    BY <2>1, <2>2, <2>3 DEF RecMove, RowMove
<1>7. CASE /\ SaleStored(t, o, g, n) /\ StoreRows(o)
           /\ dbOrder' = [dbOrder EXCEPT ![o] = order[o]]
  <2>1. UNCHANGED unmarked
    BY <1>7 DEF SaleStored
  <2>2. OrdersMove
    BY <1>2, <1>3, <1>4, <1>7, OrderStays
  <2>3. RowsSold(g, n)
    BY <1>2, <1>7, RowsStored DEF StoredInv
  <2>. QED
    BY <2>1, <2>2, <2>3 DEF RecMove, RowMove
<1>. QED
  BY <1>1, <1>5, <1>6, <1>7 DEF SaleStored

LEMMA CancelMoves ==
  ASSUME ~IsPosition(NoPosition), RecTypes, StoredInv, NEW t \in Threads, StoredCancel(t),
         ~crashed'
  PROVE  RecMove
<1>1. PICK o \in OrderIds : CancelBooked(t, o)
  BY CancelEffect DEF RecTypes
<1>2. /\ released[o] = 0 /\ Made(o) /\ released' = [released EXCEPT ![o] = @ + 1]
      /\ UNCHANGED order
  BY <1>1, SettlesOnce DEF StoredInv, CancelBooked
<1>3. TypeInv /\ DbTyped
  BY DEF RecTypes
<1>4. /\ dbOrder' = dbOrder \/ dbOrder' = [dbOrder EXCEPT ![o] = order[o]]
      /\ dbRow' = dbRow /\ (unmarked => unmarked')
  <2>1. CASE StoreCancel(o) /\ UNCHANGED unmarked
    BY <2>1 DEF StoreCancel
  <2>2. CASE NotStored /\ unmarked' = (unmarked \/ order[o].op = "SELL")
    <3>1. dbOrder' = dbOrder /\ dbRow' = dbRow
      BY <2>2 DEF NotStored, storedVars
    <3>2. unmarked => unmarked'
      BY <2>2
    <3>. QED
      BY <3>1, <3>2
  <2>. QED
    BY <1>1, <2>1, <2>2 DEF CancelBooked
<1>5. OrdersMove
  BY <1>2, <1>3, <1>4, OrderStays
<1>6. RowsUntouched
  BY <1>1, <1>4 DEF RowsUntouched, CancelBooked
<1>. QED
  BY <1>4, <1>5, <1>6 DEF RecMove, RowMove

LEMMA InMemoryMoves ==
  ASSUME StaysInMemory
  PROVE  RecMove
<1>1. OrdersMove
  BY DEF OrdersMove, Unwritten, StaysInMemory, storedVars
<1>. QED
  BY <1>1 DEF RecMove, RowMove, RowsUntouched, StaysInMemory, storedVars

LEMMA StutterStays ==
  ASSUME UNCHANGED recVars
  PROVE  StaysInMemory
BY DEF recVars, vars, storedVars, StaysInMemory, HeldLots, SameTerms, Made

LEMMA ReloadMoves ==
  ASSUME RecTypes, StoredInv, Reload
  PROVE  RecMove
<1>1. OrdersMove
  BY ReloadOrders DEF StoredInv
<1>. QED
  BY <1>1 DEF RecMove, RowMove, Reload

LEMMA StepRecMoves ==
  ASSUME ~IsPosition(NoPosition), RecTypes, StoredInv, [RecoveryNext]_recVars
  PROVE  RecMove
<1>1. CASE InMemory \/ CancelAborts \/ UNCHANGED recVars
  BY <1>1, InMemoryEffect, AbortEffect, StutterStays, InMemoryMoves DEF RecTypes
<1>. QED
  BY <1>1, SubmitMoves, BuyDoneMoves, SellDoneMoves, CancelMoves, ReloadMoves
  DEF RecoveryNext, CancelAborts
-----------------------------------------------------------------------------
(* StoredInv is an invariant, whatever fails.                               *)

LEMMA StepsOfAccount ==
  ASSUME ~IsPosition(NoPosition), RecTypes, [RecoveryNext]_recVars
  PROVE  \/ [Next]_vars
         \/ \E t \in Threads, o \in OrderIds, g \in Groups, n \in Nat : SaleLost(t, o, g, n)
         \/ Reload
<1>0. TypeInv /\ LotsTyped
  BY DEF RecTypes
<1>1. ASSUME NEW t \in Threads, NEW g \in Groups, NEW price \in Prices, NEW num \in Nums,
             NEW market \in Prices, StoredSubmit(t, g, price, num, market)
      PROVE  Next
  BY <1>0, <1>1, SubmitEffect DEF Next
<1>2. ASSUME NEW t \in Threads, StoredBuyDone(t) PROVE Next
  BY <1>2 DEF StoredBuyDone, Next, OnOrderDone
<1>3. ASSUME NEW t \in Threads, StoredSellDone(t)
      PROVE  \/ Next
             \/ \E o \in OrderIds, g \in Groups, n \in Nat : SaleLost(t, o, g, n)
  <2>1. PICK o \in OrderIds, g \in Groups, n \in Nat :
          SaleStored(t, o, g, n) \/ SaleLost(t, o, g, n)
    BY <1>0, <1>3, SellDoneEffect
  <2>2. SaleStored(t, o, g, n) => Next
    BY DEF SaleStored, Next, OnOrderDone
  <2>. QED
    BY <2>1, <2>2
<1>4. ASSUME NEW t \in Threads, StoredCancel(t) PROVE Next
  BY <1>4 DEF StoredCancel, Next, Cancel
<1>5. InMemory => [Next]_vars
  BY <1>0, InMemoryEffect
<1>6. UNCHANGED recVars => UNCHANGED vars
  BY DEF recVars
<1>. QED
  BY <1>1, <1>2, <1>3, <1>4, <1>5, <1>6 DEF RecoveryNext

LEMMA SaleLostOnce ==
  ASSUME RecTypes, RecTypes', OnceInv, NEW t \in Threads, NEW o \in OrderIds,
         NEW g \in Groups, NEW n \in Nat, SaleLost(t, o, g, n)
  PROVE  OnceInv'
<1>1. TypeInv /\ TypeInv'
  BY DEF RecTypes
<1>2. /\ pc[t] = "done" /\ o = cur[t][1] /\ Finish(t, o)
      /\ UNCHANGED order /\ UNCHANGED observers
  BY DEF SaleLost, SaleBooked, Settles
<1>3. \A p \in OrderIds : Made(p)' => Made(p)
  BY <1>2 DEF Made
<1>. QED
  BY <1>1, <1>2, <1>3, FinishOnce

LEMMA ReloadOnce ==
  ASSUME RecTypes, Reload
  PROVE  OnceInv'
<1>1. /\ \A o \in OrderIds :
           released'[o] = IF o \in Numbered \ DbPending THEN 1 ELSE 0
      /\ order' = dbOrder /\ observers' = DbPending /\ shifted' = FALSE
      /\ \A t \in Threads : pc'[t] = "idle"
  BY DEF Reload, AttachPending
<1>2. ReleasedOnce'
  BY <1>1 DEF ReleasedOnce
<1>3. /\ NoCancels' /\ WorkIsUnsettled' /\ WorkIsApart' /\ SubmittedUnwatched'
  BY <1>1 DEF NoCancels, WorkIsUnsettled, WorkIsApart, SubmittedUnwatched
<1>4. UnmadeUnknown'
  BY <1>1 DEF UnmadeUnknown, Made, Numbered, DbPending
<1>5. SettledIsClosed'
  <2>1. ASSUME NEW o \in OrderIds, released'[o] > 0
        PROVE  order'[o].status \in {"FINISHED", "CANCEL"}
    <3>1. o \in Numbered /\ o \notin DbPending
      BY <1>1, <2>1
    <3>2. dbOrder[o] \in OrderType /\ dbOrder[o].status # "PENDING"
      BY <3>1 DEF RecTypes, DbTyped, Numbered, DbPending, NoOrder
    <3>. QED
      BY <1>1, <3>2 DEF OrderType
  <2>. QED
    BY <2>1 DEF SettledIsClosed
<1>. QED
  BY <1>2, <1>3, <1>4, <1>5 DEF OnceInv

LEMMA StepKeepsRows ==
  ASSUME ~IsPosition(NoPosition), RecTypes, RecTypes', StoredInv, [RecoveryNext]_recVars
  PROVE  RowsKept /\ OrdersStored' /\ (unmarked => unmarked')
<1>1. OrdersMove /\ RowMove /\ (unmarked => unmarked')
  BY StepRecMoves DEF RecMove
<1>2. OrdersStored' /\ RowOrdersStay
  BY <1>1, OrdersStoredKept, SettledRecords DEF StoredInv
<1>3. RowsKept
  BY <1>1, <1>2, UntouchedKeeps, BoughtKeeps, SoldKeeps, LostKeeps, ReloadKeeps DEF RowMove
<1>. QED
  BY <1>1, <1>2, <1>3

LEMMA StoredStep ==
  ASSUME CallsApart, ~IsPosition(NoPosition)
  PROVE  RecTypes /\ StoredInv /\ [RecoveryNext]_recVars => StoredInv'
<1>. SUFFICES ASSUME RecTypes, StoredInv, [RecoveryNext]_recVars PROVE StoredInv'
  OBVIOUS
<1>1. RecTypes' /\ TypeInv /\ OnceInv
  BY RecTypesStep DEF RecTypes, StoredInv
<1>2. RowsKept /\ OrdersStored'
  BY <1>1, StepKeepsRows
<1>3. OnceInv'
  BY <1>1, StepsOfAccount, OnceStep, SaleLostOnce, ReloadOnce
<1>. QED
  BY <1>2, <1>3 DEF RowsKept, GroupKept, StoredInv

LEMMA StoredInit == RecoveryInit => StoredInv
<1>. SUFFICES ASSUME RecoveryInit PROVE StoredInv
  OBVIOUS
<1>1. OnceInv
  BY OnceInit DEF RecoveryInit
<1>2. OrdersStored
  BY DEF RecoveryInit, Init, OrdersStored, Made, Stored, NoOrder
<1>3. RowsSettled
  BY DEF RecoveryInit, RowsSettled
<1>4. ASSUME NEW g \in Groups PROVE LotsInRows(g)
  <2>1. HeldLots(g) = <<>>
    BY DEF RecoveryInit, Init, HeldLots
  <2>. QED
    BY <2>1 DEF LotsInRows, IdsApart
<1>. QED
  BY <1>1, <1>2, <1>3, <1>4 DEF StoredInv

(* What is not clean is never clean again.                                  *)
LEMMA CleanFalls ==
  ASSUME RecTypes, StoredInv, RowsKept, unmarked => unmarked'
  PROVE  Clean' => Clean
<1>. SUFFICES ASSUME Clean' PROVE Clean
  OBVIOUS
<1>1. ASSUME NEW o \in OrderIds, dbRow[o] # NoHolding PROVE dbRow[o] >= 0
  <2>1. dbRow'[o] \in Int /\ dbRow'[o] <= dbRow[o] /\ dbRow[o] \in Int
    BY <1>1, RowNumbers DEF RowsKept, RowsFall
  <2>2. dbRow'[o] >= 0
    BY <2>1, RecoveryAssumption DEF Clean, NoRowBelowZero
  <2>. QED
    BY <2>1, <2>2
<1>2. ~unmarked
  BY DEF Clean
<1>. QED
  BY <1>1, <1>2 DEF Clean, NoRowBelowZero
-----------------------------------------------------------------------------
(* The books of a clean account.                                            *)

(* No sale the database calls PENDING is settled.                           *)
SalesPending ==
  \A o \in OrderIds :
    dbOrder[o].status = "PENDING" /\ dbOrder[o].op = "SELL" /\ dbOrder[o].num > 0
      => released[o] = 0

BooksInv ==
  /\ SharesInv /\ SellsHoldNothing /\ LotsAgreeInv /\ SalesPending
  /\ \A g \in Groups : RowsHeld(g)

RowSum(g) == SumFunctionOnSet(dbRow, Rows(g))

(* The rows add up to the lots held, those sold out adding nothing.         *)
RowsSumUp ==
  \A g \in Groups : RowsHeld(g) => RowSum(g) = SumFunction(Counts(HeldLots(g)))

LEMMA RowsAddUp == RecTypes /\ StoredInv => RowsSumUp
<1>. SUFFICES ASSUME RecTypes, StoredInv, NEW g \in Groups, RowsHeld(g)
              PROVE  RowSum(g) = SumFunction(Counts(HeldLots(g)))
  BY DEF RowsSumUp
<1>. DEFINE lots == HeldLots(g)
            D == DOMAIN lots
            ids == [i \in D |-> lots[i].id]
            names == {lots[i].id : i \in D}
            R == Rows(g)
<1>1. lots \in Seq(TradedLot)
  BY DEF RecTypes, LotsTyped
<1>2. IsFiniteSet(D) /\ \A i \in D : lots[i].count \in Int
  <2>1. \A i \in D : lots[i] \in TradedLot
    BY <1>1
  <2>. QED
    BY <1>1, <2>1, DomainFinite DEF TradedLot
<1>3. IsFiniteSet(R) /\ \A p \in R : dbRow[p] \in Int
  BY RowsTyped DEF RecTypes
<1>4. /\ \A i, j \in D : lots[i].id = lots[j].id => i = j
      /\ \A i \in D : lots[i].id \in R
  BY DEF StoredInv, LotsInRows, IdsApart, InRow
<1>5. /\ \A i \in D : lots[i].count = dbRow[lots[i].id]
      /\ \A p \in R : dbRow[p] = 0 \/ p \in names
  BY DEF RowsHeld
<1>6. DOMAIN Counts(lots) = D /\ \A i \in D : Counts(lots)[i] = lots[i].count
  BY DEF Counts
<1>7. SumFunction(Counts(lots)) = SumFunctionOnSet(Counts(lots), D)
  BY <1>6 DEF SumFunction
<1>. HIDE DEF lots, R
<1>8. SumFunctionOnSet(Counts(lots), D) = SumFunctionOnSet(dbRow, names)
  <2>1. /\ \A i, j \in D : ids[i] = ids[j] => i = j
        /\ \A i \in D : ids[i] \in names
        /\ \A z \in names : \E i \in D : ids[i] = z
    BY <1>4
  <2>2. \A i \in D : Counts(lots)[i] = dbRow[ids[i]] /\ Counts(lots)[i] \in Int
    BY <1>2, <1>5, <1>6
  <2>. HIDE DEF ids, names, D
  <2>. QED
    BY <1>2, <2>1, <2>2, SumRenamed
<1>9. SumFunctionOnSet(dbRow, R) = SumFunctionOnSet(dbRow, names)
  <2>1. names \in SUBSET R
    BY <1>4
  <2>2. \A p \in R \ names : dbRow[p] = 0
    BY <1>5
  <2>. HIDE DEF names
  <2>. QED
    BY <1>3, <2>1, <2>2, SumIgnoresZeros
<1>. QED
  BY <1>7, <1>8, <1>9 DEF RowSum, lots, R

LEMMA RowsAddUpNext ==
  ASSUME RecTypes', StoredInv'
  PROVE  RowsSumUp'
BY RowsAddUp, PTL

(* In a clean account that is the count of the position.                    *)
LEMMA RowsAreShares ==
  ASSUME RecTypes, StoredInv, BooksInv, Clean, NEW g \in Groups
  PROVE  /\ position[g] = NoPosition => RowSum(g) = 0
         /\ position[g] # NoPosition => RowSum(g) = position[g].count
         /\ RowSum(g) \in Nat /\ RowSum(g) < UintMod
         /\ SharesToSell(g) \in Nat /\ SharesToSell(g) <= RowSum(g)
<1>1. RowSum(g) = SumFunction(Counts(HeldLots(g)))
  BY RowsAddUp DEF RowsSumUp, BooksInv
<1>2. /\ position[g] = NoPosition => SharesToSell(g) = 0
      /\ position[g] # NoPosition =>
           position[g].available + SharesToSell(g) <= position[g].count
      /\ SharesToSell(g) \in Nat
  BY ShareTypes DEF BooksInv, SharesInv, Covered, RecTypes, SharesTyped
<1>3. CASE position[g] = NoPosition
  <2>1. HeldLots(g) = <<>>
    BY <1>3 DEF HeldLots
  <2>2. RowSum(g) = 0
    BY <1>1, <2>1, EmptySumsUp
  <2>. QED
    BY <1>2, <1>3, <2>2, UintModAssumption
<1>4. CASE position[g] # NoPosition
  <2>1. /\ position[g].count \in Nat /\ position[g].count < UintMod
        /\ position[g].available \in Nat
    BY <1>4, UintModAssumption DEF RecTypes, TypeInv, TypeOK, IsPosition, Uint
  <2>2. SumsUp(HeldLots(g), position[g].count)
    BY <1>4 DEF BooksInv, LotsAgreeInv, LotsAgree, HeldLots
  <2>3. \A i \in DOMAIN HeldLots(g) : ~(HeldLots(g)[i].count < 0)
    <3>1. ASSUME NEW i \in DOMAIN HeldLots(g) PROVE ~(HeldLots(g)[i].count < 0)
      <4>1. /\ HeldLots(g)[i].count = dbRow[HeldLots(g)[i].id]
            /\ HeldLots(g)[i].id \in Rows(g)
        BY DEF BooksInv, RowsHeld, StoredInv, LotsInRows, InRow
      <4>2. dbRow[HeldLots(g)[i].id] \in Int /\ dbRow[HeldLots(g)[i].id] >= 0
        BY <4>1, RowsTyped DEF RecTypes, Clean, NoRowBelowZero, Rows, Numbered
      <4>. QED
        BY <4>1, <4>2
    <3>. QED
      BY <3>1
  <2>4. SumFunction(Counts(HeldLots(g))) = position[g].count
    BY <2>2, <2>3 DEF SumsUp
  <2>. QED
    BY <1>1, <1>2, <1>4, <2>1, <2>4
<1>. QED
  BY <1>3, <1>4

-----------------------------------------------------------------------------
(* A restart keeps the books.                                               *)

LEMMA ReloadedOrders ==
  ASSUME RecTypes, StoredInv, SalesPending, Reload, NEW p \in OrderIds
  PROVE  /\ Made(p)' <=> Made(p)
         /\ Made(p) => /\ order'[p].op = order[p].op /\ order'[p].group = order[p].group
                       /\ order'[p].num = order[p].num /\ order'[p].frozen = order[p].frozen
                       /\ order[p] \in OrderType
         /\ order[p].op = "SELL" /\ Made(p) /\ order[p].num > 0
              => (released'[p] = 0 <=> released[p] = 0)
<1>1. /\ order' = dbOrder /\ dbOrder' = dbOrder
      /\ released'[p] = IF p \in Numbered \ DbPending THEN 1 ELSE 0
  BY DEF Reload, storedVars
<1>2. /\ Made(p) <=> Stored(p)
      /\ Made(p) => SameRecord(p)
      /\ Made(p) /\ released[p] = 0 => dbOrder[p].status = "PENDING"
  BY DEF StoredInv, OrdersStored
<1>3. Made(p) => order[p] \in OrderType
  BY OrderFields DEF RecTypes, TypeInv
<1>4. released'[p] = 0 <=> ~Stored(p) \/ dbOrder[p].status = "PENDING"
  BY <1>1 DEF Numbered, DbPending, Stored
<1>5. Made(p) /\ dbOrder[p].status = "PENDING" /\ order[p].op = "SELL" /\ order[p].num > 0
        => released[p] = 0
  BY <1>2 DEF SalesPending, SameRecord
<1>6. Made(p)' <=> Made(p)
  BY <1>1, <1>2 DEF Made, Stored
<1>. QED
  BY <1>1, <1>2, <1>3, <1>4, <1>5, <1>6 DEF SameRecord

LEMMA ReloadOffers ==
  ASSUME RecTypes, StoredInv, SalesPending, Reload, NEW g \in Groups
  PROVE  SharesToSell(g)' = SharesToSell(g)
<1>1. ASSUME NEW p \in OrderIds PROVE Offered(g)'[p] = Offered(g)[p]
  <2>1. CASE Made(p) /\ order[p].op = "SELL" /\ order[p].num > 0
    <3>1. /\ Made(p)' /\ (released'[p] = 0 <=> released[p] = 0)
          /\ order'[p].op = order[p].op /\ order'[p].group = order[p].group
          /\ order'[p].num = order[p].num
      BY <2>1, ReloadedOrders
    <3>. QED
      BY <2>1, <3>1, OfferedIs
  <2>2. CASE Made(p) /\ order[p].op = "SELL" /\ ~(order[p].num > 0)
    <3>1. order[p].num = 0
      BY <2>2, ReloadedOrders, OrderNumbers
    <3>2. order'[p].num = 0
      BY <2>2, <3>1, ReloadedOrders
    <3>. QED
      BY <3>1, <3>2, OfferedIs
  <2>3. CASE ~Made(p) \/ order[p].op # "SELL"
    <3>1. ~Made(p)' \/ order'[p].op # "SELL"
      BY <2>3, ReloadedOrders
    <3>. QED
      BY <2>3, <3>1, OfferedIs
  <2>. QED
    BY <2>1, <2>2, <2>3
<1>. QED
  BY <1>1, OfferKept

(* The rows were all bought.                                                *)
LEMMA ReloadBought ==
  ASSUME RecTypes, RecTypes', StoredInv, SalesPending, Reload, NEW g \in Groups
  PROVE  RowSum(g) <= SharesBought(g)'
<1>. DEFINE R == Rows(g)
            f == [p \in OrderIds |-> IF p \in R THEN dbRow[p] ELSE 0]
<1>1. /\ R \in SUBSET OrderIds /\ IsFiniteSet(R) /\ IsFiniteSet(OrderIds)
      /\ \A p \in R : dbRow[p] \in Int
  BY RowsTyped, UserAccountAssumption DEF RecTypes
<1>2. \A p \in OrderIds : Bought(g)'[p] \in Nat
  BY ShareTypesNext DEF RecTypes, SharesTyped
<1>3. ASSUME NEW p \in R PROVE dbRow[p] <= Bought(g)'[p]
  <2>1. p \in OrderIds /\ dbRow[p] # NoHolding /\ dbOrder[p].group = g
    BY RowsAre DEF StoredInv
  <2>2. /\ dbOrder[p].status \in {"FINISHED", "CANCEL"}
        /\ dbOrder[p].op = "BUY" /\ dbRow[p] <= dbOrder[p].num
    BY <2>1 DEF StoredInv, RowsSettled
  <2>3. released'[p] = 1 /\ order'[p] = dbOrder[p] /\ Made(p)'
    BY <2>1, <2>2 DEF Reload, Numbered, DbPending, Made
  <2>4. Bought(g)'[p] = dbOrder[p].num
    BY <2>1, <2>2, <2>3, BoughtIs
  <2>. QED
    BY <2>2, <2>4
<1>. HIDE DEF R
<1>4. \A p \in OrderIds : f[p] \in Int /\ Bought(g)'[p] \in Int /\ f[p] <= Bought(g)'[p]
  BY <1>1, <1>2, <1>3
<1>5. /\ \A p \in OrderIds \ R : f[p] = 0
      /\ \A p \in R : f[p] = dbRow[p]
  BY <1>1
<1>. HIDE DEF f
<1>6. SumFunctionOnSet(f, OrderIds) <= SharesBought(g)'
  BY <1>1, <1>4, SumDominated DEF SharesBought
<1>7. SumFunctionOnSet(f, OrderIds) = SumFunctionOnSet(f, R)
  BY <1>1, <1>4, <1>5, SumIgnoresZeros
<1>8. SumFunctionOnSet(f, R) = SumFunctionOnSet(dbRow, R)
  BY <1>1, <1>5, SumSame
<1>. QED
  BY <1>6, <1>7, <1>8 DEF RowSum, R
LEMMA ReloadShares ==
  ASSUME ~IsPosition(NoPosition), RecTypes, RecTypes', StoredInv, StoredInv', BooksInv,
         Clean, Clean', Reload, NEW g \in Groups
  PROVE  Covered(g)' /\ LotsAgree(g)'
<1>1. /\ position[g] = NoPosition => RowSum(g) = 0
      /\ RowSum(g) \in Nat /\ RowSum(g) < UintMod
      /\ SharesToSell(g) \in Nat /\ SharesToSell(g) <= RowSum(g)
  BY RowsAreShares
<1>2. SharesToSell(g)' = SharesToSell(g) /\ RowSum(g) <= SharesBought(g)'
  BY ReloadOffers, ReloadBought DEF BooksInv
<1>3. DbTyped
  BY DEF RecTypes
<1>4. CASE SomeShares(g)
  <2>1. /\ position'[g] = LoadedPosition(g) /\ position'[g] # NoPosition
        /\ HeldLots(g)' = LoadedPosition(g).lots
    BY <1>3, <1>4, ReloadedLots
  <2>2. RowSum(g) % UintMod = RowSum(g)
    BY <1>1, UintKept
  <2>3. position'[g].count = RowSum(g) /\ position'[g].available = 0
    BY <1>3, <2>1, <2>2, LoadedIs DEF RowSum
  <2>4. Covered(g)'
    <3>1. /\ position'[g].available + SharesToSell(g)' <= position'[g].count
          /\ position'[g].count <= SharesBought(g)'
      BY <1>1, <1>2, <2>3
    <3>. QED
      BY <2>1, <3>1 DEF Covered
  <2>5. RowSum(g)' = RowSum(g)
    <3>1. \A p : p \in Rows(g)' <=> p \in Rows(g)
      BY RowsAre, RowsAreNext DEF StoredInv, Reload, storedVars
    <3>2. Rows(g)' = Rows(g) /\ dbRow' = dbRow
      BY <3>1 DEF Reload, storedVars
    <3>. QED
      BY <3>2 DEF RowSum
  <2>6. SumFunction(Counts(HeldLots(g)))' = RowSum(g)
    <3>1. RowsHeld(g)'
      BY SettledRecords, ReloadMoves, ReloadKeeps DEF RecMove
    <3>2. RowSum(g)' = SumFunction(Counts(HeldLots(g)))'
      BY <3>1, RowsAddUpNext DEF RowsSumUp
    <3>. QED
      BY <2>5, <3>2
  <2>7. HeldLots(g)' = position'[g].lots /\ HeldLots(g)' \in Seq(TradedLot)
    BY <2>1 DEF RecTypes, LotsTyped
  <2>8. SumFunction(Counts(position'[g].lots)) = RowSum(g)
    BY <2>6, <2>7
  <2>9. LotsAgree(g)'
    BY <2>3, <2>7, <2>8 DEF LotsAgree, SumsUp
  <2>. QED
    BY <2>4, <2>9
<1>5. CASE ~SomeShares(g)
  <2>1. position'[g] = NoPosition
    BY <1>3, <1>5, ReloadedLots
  <2>2. \A p \in Rows(g) : dbRow[p] = 0
    <3>1. ASSUME NEW p \in Rows(g) PROVE dbRow[p] = 0
      <4>1. dbRow[p] \in Int /\ ~(dbRow[p] > 0)
        BY <1>3, <1>5, RowsTyped DEF SomeShares
      <4>2. dbRow[p] >= 0
        BY <4>1, RecoveryAssumption DEF Clean, NoRowBelowZero, Rows, Numbered
      <4>. QED
        BY <4>1, <4>2
    <3>. QED
      BY <3>1
  <2>3. RowSum(g) = 0
    BY <1>3, <2>2, RowsTyped, SumOfZeros DEF RowSum
  <2>4. SharesToSell(g)' = 0
    BY <1>1, <1>2, <2>3
  <2>. QED
    BY <2>1, <2>4 DEF Covered, LotsAgree
<1>. QED
  BY <1>4, <1>5

LEMMA ReloadPending ==
  ASSUME Reload
  PROVE  SalesPending'
<1>1. /\ dbOrder' = dbOrder
      /\ released' = [o \in OrderIds |-> IF o \in Numbered \ DbPending THEN 1 ELSE 0]
  BY DEF Reload, storedVars
<1>. QED
  BY <1>1 DEF SalesPending, DbPending

LEMMA ReloadBooks ==
  ASSUME ~IsPosition(NoPosition), RecTypes, RecTypes', StoredInv, StoredInv', BooksInv,
         Clean, Clean', Reload
  PROVE  BooksInv'
<1>1. \A g \in Groups : Covered(g)' /\ LotsAgree(g)'
  BY ReloadShares
<1>2. SalesPending /\ BuysAreRequested /\ SellsHoldNothing
  BY DEF BooksInv, SharesInv
<1>3. BuysAreRequested'
  BY <1>2, ReloadedOrders DEF BuysAreRequested
<1>4. SellsHoldNothing'
  BY <1>2, ReloadedOrders DEF SellsHoldNothing
<1>5. \A g \in Groups : RowsHeld(g)'
  BY SettledRecords, ReloadMoves, ReloadKeeps DEF RecMove
<1>. QED
  BY <1>1, <1>3, <1>4, <1>5, ReloadPending
  DEF BooksInv, SharesInv, LotsAgreeInv, StoredInv

-----------------------------------------------------------------------------
(* The other steps keep them too.                                           *)

(* No sale is ended without its end being stored.                           *)
SaleEndsStored ==
  \A p \in OrderIds :
    dbOrder'[p] = dbOrder[p] /\ Made(p) /\ released[p] = 0 /\ released'[p] # 0
      => order[p].op # "SELL" \/ order[p].num = 0

LEMMA SalesPendingKept ==
  ASSUME RecTypes, StoredInv, SalesPending, OrdersMove, SettledIsClosed', SaleEndsStored,
         RecTypes'
  PROVE  SalesPending'
<1>. SUFFICES ASSUME NEW p \in OrderIds, dbOrder'[p].status = "PENDING",
                     dbOrder'[p].op = "SELL", dbOrder'[p].num > 0, released'[p] # 0
              PROVE  FALSE
  BY DEF SalesPending
<1>1. released'[p] > 0
  BY DEF RecTypes, TypeInv, TypeOK
<1>2. order'[p].status # "PENDING"
  BY <1>1 DEF SettledIsClosed
<1>3. Unwritten(p)
  BY <1>2 DEF OrdersMove, Written
<1>4. dbOrder'[p] = dbOrder[p] /\ released[p] = 0
  BY <1>3 DEF Unwritten, SalesPending
<1>5. Made(p) /\ SameRecord(p)
  BY <1>4 DEF StoredInv, OrdersStored, Stored
<1>6. order[p].op = "SELL" /\ order[p].num > 0
  BY <1>4, <1>5 DEF SameRecord
<1>7. order[p].num = 0
  BY <1>4, <1>5, <1>6 DEF SaleEndsStored
<1>. QED
  BY <1>6, <1>7

(* Without a lot there is nothing left to sell.                             *)
LEMMA NoLotsNoSale ==
  ASSUME RecTypes, RecTypes', StoredInv, BooksInv, Clean,
         NEW o \in OrderIds, Made(o), released[o] = 0, order[o].op = "SELL",
         released' = [released EXCEPT ![o] = @ + 1], UNCHANGED order,
         NEW g \in Groups, g = order[o].group, HeldLots(g) = <<>>
  PROVE  order[o].num = 0
<1>1. order[o].num \in Nat
  BY OrderFields, OrderNumbers DEF RecTypes, TypeInv
<1>2. order[o].num <= SharesToSell(g)
  BY SellSettled DEF RecTypes
<1>3. RowSum(g) = 0
  BY RowsAddUp, EmptySumsUp DEF RowsSumUp, BooksInv
<1>4. SharesToSell(g) \in Nat /\ SharesToSell(g) <= RowSum(g)
  BY RowsAreShares
<1>. QED
  BY <1>1, <1>2, <1>3, <1>4

LEMMA StepEndsStored ==
  ASSUME ~IsPosition(NoPosition), RecTypes, RecTypes', StoredInv, BooksInv, Clean, ~unmarked',
         [RecoveryNext]_recVars, ~Reload
  PROVE  SaleEndsStored
<1>0. TypeInv /\ LotsTyped /\ DbTyped /\ OnceInv
  BY DEF RecTypes, StoredInv
<1>1. ASSUME UNCHANGED released PROVE SaleEndsStored
  BY <1>1 DEF SaleEndsStored
<1>2. ASSUME NEW o \in OrderIds, released' = [released EXCEPT ![o] = @ + 1],
             dbOrder'[o] # dbOrder[o] \/ order[o].op # "SELL" \/ order[o].num = 0
      PROVE  SaleEndsStored
  <2>1. \A p \in OrderIds : released'[p] # released[p] => p = o
    BY <1>0, <1>2 DEF TypeInv, TypeOK
  <2>. QED
    BY <1>2, <2>1 DEF SaleEndsStored
<1>3. ASSUME NEW t \in Threads, NEW g \in Groups, NEW price \in Prices, NEW num \in Nums,
             NEW market \in Prices, StoredSubmit(t, g, price, num, market)
      PROVE  SaleEndsStored
  BY <1>0, <1>1, <1>3, SubmitEffect
<1>4. ASSUME NEW t \in Threads, StoredBuyDone(t) PROVE SaleEndsStored
  <2>1. PICK o \in OrderIds : Settles(t, o, "done") /\ order[o].op = "BUY"
    BY <1>0, <1>4, BuyDoneEffect
  <2>. QED
    BY <1>2, <2>1 DEF Settles
<1>5. ASSUME NEW t \in Threads, StoredSellDone(t) PROVE SaleEndsStored
  <2>1. PICK o \in OrderIds, g \in Groups, n \in Nat : SaleStored(t, o, g, n)
    BY <1>0, <1>5, SellDoneEffect DEF SaleLost
  <2>2. /\ Settles(t, o, "done") /\ order[o].op = "SELL" /\ UNCHANGED order
        /\ g = order[o].group
    BY <2>1 DEF SaleStored, SaleBooked
  <2>3. /\ released[o] = 0 /\ Made(o) /\ released' = [released EXCEPT ![o] = @ + 1]
        /\ order[o].status = "FINISHED"
    BY <1>0, <2>2, SettlesOnce
  <2>4. CASE HeldLots(g) = <<>>
    BY <1>2, <2>2, <2>3, <2>4, NoLotsNoSale
  <2>5. CASE dbOrder' = [dbOrder EXCEPT ![o] = order[o]]
    <3>1. dbOrder[o].status = "PENDING"
      BY <2>3 DEF StoredInv, OrdersStored
    <3>2. dbOrder'[o] = order[o]
      BY <1>0, <2>5 DEF DbTyped
    <3>3. dbOrder'[o] # dbOrder[o]
      BY <2>3, <3>1, <3>2
    <3>. QED
      BY <1>2, <2>3, <3>3
  <2>. QED
    BY <2>1, <2>4, <2>5 DEF SaleStored
<1>6. ASSUME NEW t \in Threads, StoredCancel(t), ~crashed' PROVE SaleEndsStored
  <2>1. PICK o \in OrderIds : CancelBooked(t, o)
    BY <1>0, <1>6, CancelEffect
  <2>2. /\ pc[t] \in {"buy", "sell"} /\ Settles(t, o, pc[t])
        /\ released' = [released EXCEPT ![o] = @ + 1]
    BY <2>1 DEF CancelBooked, Settles
  <2>3. released[o] = 0 /\ Made(o) /\ order[o].status = "CANCEL"
    BY <1>0, <2>2, SettlesOnce
  <2>4. CASE StoreCancel(o)
    <3>1. dbOrder[o].status = "PENDING"
      BY <2>3 DEF StoredInv, OrdersStored
    <3>2. dbOrder'[o] = order[o]
      BY <1>0, <2>4 DEF DbTyped, StoreCancel
    <3>3. dbOrder'[o] # dbOrder[o]
      BY <2>3, <3>1, <3>2
    <3>. QED
      BY <1>2, <2>2, <3>3
  <2>5. CASE unmarked' = (unmarked \/ order[o].op = "SELL")
    <3>1. order[o].op # "SELL"
      BY <2>5
    <3>. QED
      BY <1>2, <2>2, <3>1
  <2>. QED
    BY <2>1, <2>4, <2>5 DEF CancelBooked
<1>7. CASE InMemory \/ CancelAborts \/ UNCHANGED recVars
  BY <1>0, <1>1, <1>7, InMemoryEffect, AbortEffect, StutterStays DEF StaysInMemory
<1>. QED
  BY <1>3, <1>4, <1>5, <1>6, <1>7 DEF RecoveryNext, CancelAborts

LEMMA BooksKept ==
  ASSUME CallsApart, SharesFit, ~IsPosition(NoPosition), RecTypes, RecTypes', StoredInv,
         StoredInv', BooksInv, Clean, Clean', [RecoveryNext]_recVars
  PROVE  BooksInv'
<1>1. CASE Reload
  BY <1>1, ReloadBooks
<1>2. CASE ~Reload
  <2>0. TypeInv /\ OnceInv /\ SettledIsClosed' /\ ~unmarked'
    BY DEF RecTypes, StoredInv, OnceInv, Clean
  <2>1. [Next]_vars
    BY <1>2, <2>0, StepsOfAccount DEF SaleLost
  <2>2. SharesInv' /\ LotsAgreeInv'
    BY <2>0, <2>1, SharesStep, LotsAgreeStep DEF BooksInv
  <2>3. SellsHoldNothing'
    BY <2>0, <2>1, StepMoves DEF BooksInv, MoneyInv
  <2>4. OrdersMove
    BY StepRecMoves DEF RecMove
  <2>5. SaleEndsStored
    BY <1>2, <2>0, StepEndsStored
  <2>6. SalesPending'
    BY <2>0, <2>4, <2>5, SalesPendingKept DEF BooksInv
  <2>7. \A g \in Groups : RowsHeld(g)'
    BY StepKeepsRows DEF BooksInv, RowsKept, GroupKept
  <2>. QED
    BY <2>2, <2>3, <2>6, <2>7 DEF BooksInv
<1>. QED
  BY <1>1, <1>2

-----------------------------------------------------------------------------
(* Memory and database next to each other.                                  *)

(* Where a thread stands between the new status of its order and the call   *)
(* that stores it.                                                         *)
Unstored(t) ==
  \/ pc[t] \in {"done", "ifBuy", "buy", "sell"}
  \/ pc[t] = "ifSell" /\ order[cur[t][1]].op = "SELL"

AtWorkOn(o) == \E t \in Threads : Unstored(t) /\ cur[t][1] = o

OrdersAgree ==
  \A o \in OrderIds : dbOrder[o] = order[o] \/ EmptySale(o) \/ AtWorkOn(o)

SyncInv == dbFree = available /\ dbHeld = frozen /\ OrdersAgree

(* The order a deal or a cancellation has settled is stored, or empty.      *)
LEMMA SettledAgree ==
  ASSUME OrdersAgree, NEW t \in Threads, NEW o \in OrderIds, NEW step, Settles(t, o, step),
         dbOrder'[o] = order'[o] \/ EmptySale(o)',
         \A p \in OrderIds : p # o =>
            \/ dbOrder'[p] = dbOrder[p] /\ order'[p] = order[p]
            \/ dbOrder'[p] = order'[p]
  PROVE  OrdersAgree'
<1>. SUFFICES ASSUME NEW p \in OrderIds
              PROVE  dbOrder'[p] = order'[p] \/ EmptySale(p)' \/ AtWorkOn(p)'
  BY DEF OrdersAgree
<1>1. CASE p = o \/ dbOrder'[p] = order'[p]
  BY <1>1
<1>2. CASE p # o /\ dbOrder'[p] = dbOrder[p] /\ order'[p] = order[p]
  <2>1. CASE dbOrder[p] = order[p]
    BY <1>2, <2>1
  <2>2. CASE EmptySale(p)
    BY <1>2, <2>2 DEF EmptySale, Made
  <2>3. CASE AtWorkOn(p)
    <3>1. PICK u \in Threads : Unstored(u) /\ cur[u][1] = p
      BY <2>3 DEF AtWorkOn
    <3>2. u # t
      BY <1>2, <3>1 DEF Settles
    <3>3. pc'[u] = pc[u] /\ cur'[u] = cur[u]
      BY <3>2 DEF Settles
    <3>. QED
      BY <1>2, <3>1, <3>3 DEF AtWorkOn, Unstored
  <2>. QED
    BY <2>1, <2>2, <2>3 DEF OrdersAgree
<1>. QED
  BY <1>1, <1>2

LEMMA SubmitSync ==
  ASSUME ~IsPosition(NoPosition), RecTypes, SyncInv, NEW t \in Threads, NEW g \in Groups,
         NEW price \in Prices, NEW num \in Nums, NEW market \in Prices, synced',
         StoredSubmit(t, g, price, num, market)
  PROVE  SyncInv'
<1>0. TypeInv /\ DbTyped
  BY DEF RecTypes
<1>1. /\ WorkGoesOn(t)
      /\ \/ UNCHANGED order /\ NotStored /\ UNCHANGED <<available, frozen>>
         \/ \E o \in OrderIds : /\ OrderAdded(o, order'[o]) /\ StoreNew(o)
                                /\ available' = available - order'[o].frozen
                                /\ frozen' = frozen + order'[o].frozen
  BY <1>0, SubmitEffect
<1>2. ASSUME NEW p \in OrderIds, AtWorkOn(p), order'[p] = order[p] PROVE AtWorkOn(p)'
  <2>1. PICK u \in Threads : Unstored(u) /\ cur[u][1] = p
    BY <1>2 DEF AtWorkOn
  <2>2. pc'[u] = pc[u] /\ cur'[u] = cur[u]
    BY <1>1, <2>1 DEF WorkGoesOn, Unstored
  <2>. QED
    BY <1>2, <2>1, <2>2 DEF AtWorkOn, Unstored
<1>3. ASSUME NEW p \in OrderIds, order'[p] = order[p], dbOrder'[p] = dbOrder[p]
      PROVE  dbOrder'[p] = order'[p] \/ EmptySale(p)' \/ AtWorkOn(p)'
  BY <1>2, <1>3 DEF SyncInv, OrdersAgree, EmptySale, Made
<1>4. CASE UNCHANGED order /\ NotStored /\ UNCHANGED <<available, frozen>>
  BY <1>3, <1>4 DEF SyncInv, OrdersAgree, NotStored, storedVars
<1>5. ASSUME NEW o \in OrderIds, OrderAdded(o, order'[o]), StoreNew(o),
             available' = available - order'[o].frozen,
             frozen' = frozen + order'[o].frozen
      PROVE  SyncInv'
  <2>1. dbFree' = available' /\ dbHeld' = frozen'
    BY <1>5 DEF SyncInv, StoreNew
  <2>2. ASSUME NEW p \in OrderIds, p # o PROVE order'[p] = order[p] /\ dbOrder'[p] = dbOrder[p]
    BY <1>0, <1>5, <2>2 DEF OrderAdded, StoreNew, TypeInv, TypeOK, DbTyped
  <2>3. dbOrder'[o] = order'[o]
    BY <1>0, <1>5 DEF StoreNew, DbTyped
  <2>4. OrdersAgree'
    BY <1>3, <2>2, <2>3 DEF OrdersAgree
  <2>. QED
    BY <2>1, <2>4 DEF SyncInv
<1>. QED
  BY <1>1, <1>4, <1>5

LEMMA BuyDoneSync ==
  ASSUME ~IsPosition(NoPosition), RecTypes, SyncInv, NEW t \in Threads, synced',
         StoredBuyDone(t)
  PROVE  SyncInv'
<1>0. TypeInv /\ DbTyped /\ LotsTyped
  BY DEF RecTypes
<1>1. PICK o \in OrderIds :
        /\ Settles(t, o, "done") /\ frozen' = frozen - order[o].frozen
        /\ dbFree' = available' /\ dbHeld' = dbHeld - order[o].frozen
        /\ UNCHANGED order \/ \E new \in OrderIds : OrderAdded(new, order'[new])
        /\ dbOrder' = [i \in OrderIds |->
              IF i = o \/ i \in NewIds THEN order'[i] ELSE dbOrder[i]]
  BY <1>0, BuyDoneEffect
<1>2. dbFree' = available' /\ dbHeld' = frozen'
  BY <1>1 DEF SyncInv
<1>3. ASSUME NEW p \in OrderIds, p # o
      PROVE  \/ dbOrder'[p] = dbOrder[p] /\ order'[p] = order[p]
             \/ dbOrder'[p] = order'[p]
  <2>1. CASE UNCHANGED order
    BY <1>1, <1>3, <2>1
  <2>2. ASSUME NEW new \in OrderIds, OrderAdded(new, order'[new])
        PROVE  \/ dbOrder'[p] = dbOrder[p] /\ order'[p] = order[p]
               \/ dbOrder'[p] = order'[p]
    <3>1. NewIds = {new}
      BY <1>0, <2>2, OneNewId
    <3>2. p # new => order'[p] = order[p]
      BY <1>0, <2>2 DEF OrderAdded, TypeInv, TypeOK
    <3>. QED
      BY <1>1, <1>3, <3>1, <3>2
  <2>. QED
    BY <1>1, <2>1, <2>2
<1>4. dbOrder'[o] = order'[o]
  BY <1>1
<1>5. OrdersAgree'
  BY <1>1, <1>3, <1>4, SettledAgree DEF SyncInv
<1>. QED
  BY <1>2, <1>5 DEF SyncInv

(* A sale of no shares brings nothing.                                      *)
LEMMA NothingForNothing ==
  ASSUME NEW p \in Nat
  PROVE  SaleProceeds(p, 0) = 0
<1>1. p * 0 = 0
  OBVIOUS
<1>2. RoundCommission(0) = 0 /\ StampDuty(0) = 0 /\ TransferFee(0) = 0
  BY DEF RoundCommission, StampDuty, TransferFee
<1>. QED
  BY <1>1, <1>2 DEF SaleProceeds

LEMMA SellDoneSync ==
  ASSUME ~IsPosition(NoPosition), RecTypes, RecTypes', StoredInv, BooksInv, Clean, SyncInv,
         NEW t \in Threads, synced', StoredSellDone(t)
  PROVE  SyncInv'
<1>0. TypeInv /\ DbTyped /\ LotsTyped /\ OnceInv
  BY DEF RecTypes, StoredInv
<1>1. PICK o \in OrderIds, g \in Groups, n \in Nat : SaleStored(t, o, g, n)
  BY <1>0, SellDoneEffect DEF SaleLost
<1>2. /\ Settles(t, o, "done") /\ order[o].op = "SELL" /\ UNCHANGED <<order, frozen>>
      /\ g = order[o].group /\ available' = available + Proceeds(o)
  BY <1>1 DEF SaleStored, SaleBooked
<1>3. /\ released[o] = 0 /\ Made(o) /\ released' = [released EXCEPT ![o] = @ + 1]
  BY <1>0, <1>2, SettlesOnce
<1>4. CASE HeldLots(g) = <<>> /\ NotStored
  <2>1. order[o].num = 0
    BY <1>2, <1>3, <1>4, NoLotsNoSale
  <2>2. order[o].deal \in Nat
    BY <1>2, OrderNumbers DEF Settles
  <2>3. Proceeds(o) = 0
    BY <2>1, <2>2, NothingForNothing DEF Proceeds
  <2>4. available' = available
    BY <1>0, <1>2, <2>3 DEF TypeInv, TypeOK
  <2>5. EmptySale(o)'
    BY <1>2, <1>3, <2>1 DEF EmptySale, Made
  <2>6. dbOrder' = dbOrder /\ dbFree' = dbFree /\ dbHeld' = dbHeld
    BY <1>4 DEF NotStored, storedVars
  <2>7. OrdersAgree'
    BY <1>2, <2>5, <2>6, SettledAgree DEF SyncInv
  <2>. QED
    BY <1>2, <2>4, <2>6, <2>7 DEF SyncInv
<1>5. CASE /\ dbFree' = available' /\ dbHeld' = dbHeld
           /\ dbOrder' = [dbOrder EXCEPT ![o] = order[o]]
  <2>1. dbOrder'[o] = order'[o] /\ \A p \in OrderIds : p # o => dbOrder'[p] = dbOrder[p]
    BY <1>0, <1>2, <1>5 DEF DbTyped
  <2>2. OrdersAgree'
    BY <1>2, <2>1, SettledAgree DEF SyncInv
  <2>. QED
    BY <1>2, <1>5, <2>2 DEF SyncInv
<1>. QED
  BY <1>1, <1>4, <1>5 DEF SaleStored

LEMMA CancelSync ==
  ASSUME ~IsPosition(NoPosition), RecTypes, StoredInv, SellsHoldNothing, SyncInv,
         NEW t \in Threads, synced', StoredCancel(t), ~crashed'
  PROVE  SyncInv'
<1>0. TypeInv /\ DbTyped /\ OnceInv
  BY DEF RecTypes, StoredInv
<1>1. PICK o \in OrderIds : CancelBooked(t, o)
  BY <1>0, CancelEffect
<1>2. /\ pc[t] \in {"buy", "sell"} /\ Settles(t, o, pc[t]) /\ UNCHANGED order
      /\ StoreCancel(o) /\ Made(o) /\ order[o] \in OrderType
      /\ pc[t] = "buy" => /\ available' = available + order[o].frozen
                          /\ frozen' = frozen - order[o].frozen
      /\ pc[t] = "sell" => UNCHANGED <<available, frozen>>
  BY <1>1 DEF CancelBooked, Settles
<1>3. /\ dbFree' = dbFree + order[o].frozen /\ dbHeld' = dbHeld - order[o].frozen
      /\ dbOrder' = [dbOrder EXCEPT ![o] = order[o]]
  BY <1>2 DEF StoreCancel
<1>4. dbFree' = available' /\ dbHeld' = frozen'
  <2>1. CASE pc[t] = "buy"
    BY <1>2, <1>3, <2>1 DEF SyncInv
  <2>2. CASE pc[t] = "sell"
    <3>1. order[o].op = "SELL"
      BY <1>0, <1>2, <2>2, SettlesOnce
    <3>2. order[o].frozen = 0 /\ available' = available /\ frozen' = frozen
      BY <1>2, <2>2, <3>1 DEF SellsHoldNothing
    <3>3. dbFree \in Int /\ dbHeld \in Int
      BY <1>0 DEF DbTyped
    <3>4. dbFree' = dbFree /\ dbHeld' = dbHeld
      BY <1>3, <3>2, <3>3
    <3>. QED
      BY <3>2, <3>4 DEF SyncInv
  <2>. QED
    BY <1>2, <2>1, <2>2
<1>5. dbOrder'[o] = order'[o] /\ \A p \in OrderIds : p # o => dbOrder'[p] = dbOrder[p]
  BY <1>0, <1>2, <1>3 DEF DbTyped
<1>6. OrdersAgree'
  BY <1>2, <1>5, SettledAgree DEF SyncInv
<1>. QED
  BY <1>4, <1>6 DEF SyncInv

(* A step in memory that changes an order leaves a thread at work on it,    *)
(* and the threads at work stay so.                                        *)
WorkStays ==
  \A p \in OrderIds : AtWorkOn(p)' \/ (order'[p] = order[p] /\ ~AtWorkOn(p))

LEMMA OthersWork ==
  ASSUME NEW p \in OrderIds, AtWorkOn(p), NEW t \in Threads, ~Unstored(t),
         order'[p].op = order[p].op,
         \A u \in Threads \ {t} : pc'[u] = pc[u] /\ cur'[u] = cur[u]
  PROVE  AtWorkOn(p)'
<1>1. PICK u \in Threads : Unstored(u) /\ cur[u][1] = p
  BY DEF AtWorkOn
<1>2. u # t
  BY <1>1
<1>. QED
  BY <1>1, <1>2 DEF AtWorkOn, Unstored

LEMMA InMemoryWork ==
  ASSUME CallsApart, TypeInv, OnceInv, InMemory
  PROVE  WorkStays
<1>0. /\ pc \in [Threads -> Steps] /\ Notifier \in Threads
      /\ \A t \in Threads : \A w : /\ [cur EXCEPT ![t] = w][t] = w
                                   /\ \A u \in Threads \ {t} :
                                        [cur EXCEPT ![t] = w][u] = cur[u]
  BY UserAccountAssumption DEF TypeInv, TypeOK
<1>1. ASSUME NEW t \in Threads, ~Unstored(t), order' = order,
             \A u \in Threads \ {t} : pc'[u] = pc[u] /\ cur'[u] = cur[u]
      PROVE  WorkStays
  BY <1>1, OthersWork DEF WorkStays
<1>2. ASSUME NEW t \in Threads, ~Unstored(t), Unstored(t)', cur'[t] = cur[t],
             \A p \in OrderIds : SameTerms(p),
             \A p \in OrderIds \ {cur[t][1]} : order'[p] = order[p],
             \A u \in Threads \ {t} : pc'[u] = pc[u] /\ cur'[u] = cur[u]
      PROVE  WorkStays
  <2>1. ASSUME NEW p \in OrderIds, p # cur[t][1]
        PROVE  AtWorkOn(p)' \/ (order'[p] = order[p] /\ ~AtWorkOn(p))
    BY <1>2, <2>1, OthersWork DEF SameTerms
  <2>2. ASSUME NEW p \in OrderIds, p = cur[t][1] PROVE AtWorkOn(p)'
    BY <1>2, <2>2 DEF AtWorkOn
  <2>. QED
    BY <2>1, <2>2 DEF WorkStays
<1>3. ASSUME NEW t \in Threads, MakeADeal(t) PROVE WorkStays
  <2>1. /\ pc[t] = "deal"
        /\ \A p \in OrderIds : SameTerms(p)
        /\ \A p \in OrderIds \ {cur[t][1]} : order'[p] = order[p]
    BY <1>3, DealtTerms
  <2>2. pc' = [pc EXCEPT ![t] = "done"] /\ cur' = cur
    BY <1>3 DEF MakeADeal, Goto
  <2>3. ~Unstored(t) /\ Unstored(t)'
    BY <1>0, <2>1, <2>2 DEF Unstored
  <2>. QED
    BY <1>0, <1>2, <2>1, <2>2, <2>3
<1>4. ASSUME NEW t \in Threads, MarkOrder(t) PROVE WorkStays
  <2>1. /\ pc[t] = "mark"
        /\ \A p \in OrderIds : SameTerms(p)
        /\ \A p \in OrderIds \ {cur[t][1]} : order'[p] = order[p]
    BY <1>4, CancelledTerms
  <2>2. pc' = [pc EXCEPT ![t] = "ifBuy"] /\ cur' = cur
    BY <1>4 DEF MarkOrder, Goto
  <2>3. ~Unstored(t) /\ Unstored(t)'
    BY <1>0, <2>1, <2>2 DEF Unstored
  <2>. QED
    BY <1>0, <1>2, <2>1, <2>2, <2>3
<1>5. ASSUME NEW t \in Threads, TestOperation(t) PROVE WorkStays
  <2>1. order' = order /\ cur' = cur /\ order[cur[t][1]] \in OrderType
    BY <1>5, CurrentOrder DEF TestOperation, At
  <2>2. pc[t] \in {"ifBuy", "ifSell"} /\ \A u \in Threads \ {t} : pc'[u] = pc[u]
    BY <1>0, <1>5 DEF TestOperation, At, Goto
  <2>3. CASE Unstored(t)'
    <3>1. \A p \in OrderIds : AtWorkOn(p) => AtWorkOn(p)'
      BY <2>1, <2>2, <2>3 DEF AtWorkOn, Unstored
    <3>. QED
      BY <2>1, <3>1 DEF WorkStays
  <2>4. CASE ~Unstored(t)'
    <3>1. ~Unstored(t)
      BY <1>0, <1>5, <2>1, <2>4 DEF TestOperation, At, Goto, Unstored, OrderType
    <3>. QED
      BY <1>1, <2>1, <2>2, <3>1
  <2>. QED
    BY <2>3, <2>4
<1>6. ASSUME NEW t \in Threads, NEW o \in OrderIds, OnCancelOrder(t, o) PROVE WorkStays
  <2>1. /\ pc[t] = "idle" /\ order' = order
        /\ pc' = [pc EXCEPT ![t] = "mark"] /\ cur' = [cur EXCEPT ![t] = <<o, 0>>]
    BY <1>6 DEF OnCancelOrder, Idle, Goto
  <2>2. ~Unstored(t)
    BY <2>1 DEF Unstored
  <2>. QED
    BY <1>0, <1>1, <2>1, <2>2
<1>7. ASSUME NEW o \in OrderIds, NEW market \in Prices, Notify(o, market) PROVE WorkStays
  <2>1. /\ pc[Notifier] = "idle" /\ order' = order
        /\ pc' = [pc EXCEPT ![Notifier] = "deal"]
        /\ cur' = [cur EXCEPT ![Notifier] = <<o, market>>]
    BY <1>7 DEF Notify, Idle, Goto
  <2>2. ~Unstored(Notifier)
    BY <2>1 DEF Unstored
  <2>. QED
    BY <1>0, <1>1, <2>1, <2>2
<1>8. ASSUME NEW t \in Threads, EraseOrder(t) PROVE WorkStays
  <2>1. Threads = {t} /\ pc[t] = "erase" /\ order' = order
    BY <1>8 DEF EraseOrder, At, Abort, CallsApart, OnceInv, NoCancels
  <2>2. ~Unstored(t)
    BY <2>1 DEF Unstored
  <2>. QED
    BY <1>1, <2>1, <2>2
<1>. QED
  BY <1>3, <1>4, <1>5, <1>6, <1>7, <1>8 DEF InMemory

LEMMA StillWork ==
  ASSUME UNCHANGED <<pc, cur, order>>
  PROVE  WorkStays
BY DEF WorkStays, AtWorkOn, Unstored

LEMMA InMemorySync ==
  ASSUME SyncInv, StaysInMemory, WorkStays
  PROVE  SyncInv'
<1>1. dbFree' = available' /\ dbHeld' = frozen' /\ dbOrder' = dbOrder
  BY DEF SyncInv, StaysInMemory, storedVars
<1>2. ASSUME NEW p \in OrderIds
      PROVE  dbOrder'[p] = order'[p] \/ EmptySale(p)' \/ AtWorkOn(p)'
  <2>1. EmptySale(p) => EmptySale(p)'
    BY DEF EmptySale, StaysInMemory, SameTerms
  <2>2. AtWorkOn(p)' \/ (order'[p] = order[p] /\ ~AtWorkOn(p))
    BY DEF WorkStays
  <2>. QED
    BY <1>1, <2>1, <2>2 DEF SyncInv, OrdersAgree
<1>. QED
  BY <1>1, <1>2 DEF SyncInv, OrdersAgree

LEMMA ReloadSync ==
  ASSUME Reload
  PROVE  SyncInv'
<1>1. /\ available' = dbFree /\ frozen' = dbHeld /\ order' = dbOrder
      /\ dbFree' = dbFree /\ dbHeld' = dbHeld /\ dbOrder' = dbOrder
  BY DEF Reload, storedVars
<1>. QED
  BY <1>1 DEF SyncInv, OrdersAgree

(* Without a restart a call that failed is not forgotten.                   *)
LEMMA SyncedFalls ==
  ASSUME ~IsPosition(NoPosition), RecTypes, [RecoveryNext]_recVars
  PROVE  synced' => synced \/ Reload
<1>0. TypeInv /\ LotsTyped /\ DbTyped
  BY DEF RecTypes
<1>1. ASSUME NEW t \in Threads, NEW g \in Groups, NEW price \in Prices, NEW num \in Nums,
             NEW market \in Prices, StoredSubmit(t, g, price, num, market)
      PROVE  synced' => synced
  BY <1>0, <1>1, SubmitEffect
<1>2. ASSUME NEW t \in Threads, StoredBuyDone(t) PROVE synced' => synced
  BY <1>0, <1>2, BuyDoneEffect
<1>3. ASSUME NEW t \in Threads, StoredSellDone(t) PROVE synced' => synced
  BY <1>0, <1>3, SellDoneEffect DEF SaleStored, SaleLost
<1>4. ASSUME NEW t \in Threads, StoredCancel(t), ~crashed' PROVE synced' => synced
  BY <1>0, <1>4, CancelEffect DEF CancelBooked
<1>5. InMemory \/ UNCHANGED recVars => synced' = synced
  BY DEF InMemory, recVars
<1>6. CancelAborts => synced' = synced
  BY <1>0, AbortEffect DEF StaysInMemory
<1>. QED
  BY <1>1, <1>2, <1>3, <1>4, <1>5, <1>6 DEF RecoveryNext, CancelAborts

LEMMA SyncKept ==
  ASSUME CallsApart, ~IsPosition(NoPosition), RecTypes, RecTypes', StoredInv, BooksInv,
         Clean, synced => SyncInv, synced', [RecoveryNext]_recVars
  PROVE  SyncInv'
<1>1. CASE Reload
  BY <1>1, ReloadSync
<1>2. CASE ~Reload
  <2>1. TypeInv /\ LotsTyped /\ DbTyped /\ OnceInv /\ SellsHoldNothing
    BY DEF RecTypes, StoredInv, BooksInv
  <2>2. SyncInv
    BY <1>2, <2>1, SyncedFalls
  <2>3. CASE InMemory
    BY <2>1, <2>2, <2>3, InMemoryEffect, InMemoryWork, InMemorySync
  <2>4. CASE CancelAborts
    <3>1. UNCHANGED <<pc, cur, order>>
      BY <2>4, AbortIsAll DEF CancelAborts, Abort
    <3>. QED
      BY <2>1, <2>2, <2>4, <3>1, AbortEffect, StillWork, InMemorySync
  <2>5. CASE UNCHANGED recVars
    BY <2>2, <2>5, StutterStays, StillWork, InMemorySync DEF recVars, vars
  <2>. QED
    BY <1>2, <2>1, <2>2, <2>3, <2>4, <2>5, SubmitSync, BuyDoneSync, SellDoneSync,
       CancelSync
    DEF RecoveryNext, CancelAborts
<1>. QED
  BY <1>1, <1>2

-----------------------------------------------------------------------------
(* The invariant.                                                          *)

RecoveryInv ==
  /\ RecTypes /\ StoredInv
  /\ Clean => BooksInv
  /\ Clean /\ synced => SyncInv

LEMMA RecoveryInvInit ==
  ASSUME ~IsPosition(NoPosition)
  PROVE  RecoveryInit => RecoveryInv
<1>. SUFFICES ASSUME RecoveryInit PROVE RecoveryInv
  OBVIOUS
<1>1. Init /\ RecTypes /\ StoredInv
  BY RecTypesInit, StoredInit DEF RecoveryInit
<1>2. SharesInv
  BY <1>1, SharesInit
<1>3. /\ \A g \in Groups : position[g] = NoPosition /\ HeldLots(g) = <<>>
      /\ \A o \in OrderIds : ~Made(o) /\ dbOrder[o] = order[o] /\ dbRow[o] = NoHolding
  BY DEF RecoveryInit, Init, Made, NoOrder, HeldLots
<1>4. SellsHoldNothing /\ LotsAgreeInv
  BY <1>3 DEF SellsHoldNothing, LotsAgreeInv, LotsAgree
<1>5. SalesPending
  BY <1>3 DEF SalesPending, RecoveryInit, Init
<1>6. \A g \in Groups : RowsHeld(g)
  BY <1>3 DEF RowsHeld, Rows, Numbered
<1>7. SyncInv
  BY <1>3 DEF SyncInv, OrdersAgree, RecoveryInit, Init
<1>. QED
  BY <1>1, <1>2, <1>4, <1>5, <1>6, <1>7 DEF RecoveryInv, BooksInv

LEMMA RecoveryInvStep ==
  ASSUME CallsApart, SharesFit, ~IsPosition(NoPosition)
  PROVE  RecoveryInv /\ [RecoveryNext]_recVars => RecoveryInv'
<1>. SUFFICES ASSUME RecoveryInv, [RecoveryNext]_recVars PROVE RecoveryInv'
  OBVIOUS
<1>1. RecTypes /\ StoredInv
  BY DEF RecoveryInv
<1>2. RecTypes' /\ StoredInv'
  BY <1>1, RecTypesStep, StoredStep
<1>3. Clean' => Clean
  BY <1>1, <1>2, StepKeepsRows, CleanFalls
<1>4. Clean' => BooksInv'
  BY <1>1, <1>2, <1>3, BooksKept DEF RecoveryInv
<1>5. Clean' /\ synced' => SyncInv'
  BY <1>1, <1>2, <1>3, SyncKept DEF RecoveryInv
<1>. QED
  BY <1>2, <1>4, <1>5 DEF RecoveryInv
-----------------------------------------------------------------------------
(* The theorems.                                                           *)

LEMMA LotsAreRows ==
  ASSUME RecTypes, StoredInv, BooksInv, NEW g \in Groups
  PROVE  LotsOf(g) = RowLots(g)
<1>. DEFINE lots == HeldLots(g)
            lotOf(o) == [id |-> o, price |-> dbOrder[o].deal, count |-> dbRow[o]]
<1>1. LotsOf(g) = {lot \in {lots[i] : i \in DOMAIN lots} : HasShares(lot)}
  BY DEF LotsOf, HeldLots
<1>2. RowLots(g) = {lot \in {lotOf(o) : o \in Rows(g)} : HasShares(lot)}
  BY DEF RowLots
<1>3. ASSUME NEW i \in DOMAIN lots
      PROVE  lots[i].id \in Rows(g) /\ lots[i] = lotOf(lots[i].id)
  <2>1. /\ lots[i].id \in Rows(g) /\ lots[i].price = dbOrder[lots[i].id].deal
        /\ lots[i].count = dbRow[lots[i].id]
    BY DEF StoredInv, LotsInRows, InRow, BooksInv, RowsHeld
  <2>2. lots[i] \in TradedLot
    BY DEF RecTypes, LotsTyped
  <2>. HIDE DEF lots
  <2>3. lots[i] = [id |-> lots[i].id, price |-> lots[i].price, count |-> lots[i].count]
    BY <2>2 DEF TradedLot
  <2>. QED
    BY <2>1, <2>3
<1>4. ASSUME NEW o \in Rows(g), HasShares(lotOf(o))
      PROVE  \E i \in DOMAIN lots : lots[i] = lotOf(o)
  <2>1. dbRow[o] # 0
    BY <1>4 DEF HasShares
  <2>2. PICK i \in DOMAIN lots : lots[i].id = o
    BY <2>1 DEF BooksInv, RowsHeld
  <2>. QED
    BY <1>3, <2>2
<1>. HIDE DEF lots, lotOf
<1>. QED
  BY <1>1, <1>2, <1>3, <1>4

(* Between two calls of an account in which no call has failed since the    *)
(* last restart, no end of a sale was ever lost and no lot was sold below   *)
(* zero, the database holds what memory does: capitals, orders, lots.  It   *)
(* is assumed that an order is not ended twice (CallsApart) and that the    *)
(* shares ever bought fit the unsigned count.                               *)
THEOREM NothingLost ==
  ASSUME CallsApart, SharesFit, ~IsPosition(NoPosition)
  PROVE  RecoverySpec => []NothingLostByRestart
<1>1. RecoveryInv => NothingLostByRestart
  <2>. SUFFICES ASSUME RecoveryInv, BetweenCalls, synced, ~unmarked, NoRowBelowZero
                PROVE  /\ dbFree = available /\ dbHeld = frozen
                       /\ \A o \in OrderIds : dbOrder[o] = order[o] \/ EmptySale(o)
                       /\ \A g \in Groups : LotsOf(g) = RowLots(g)
    BY DEF NothingLostByRestart
  <2>1. RecTypes /\ StoredInv /\ BooksInv /\ SyncInv
    BY DEF RecoveryInv, Clean
  <2>2. \A o \in OrderIds : ~AtWorkOn(o)
    BY DEF BetweenCalls, AtWorkOn, Unstored
  <2>. QED
    BY <2>1, <2>2, LotsAreRows DEF SyncInv, OrdersAgree
<1>. QED
  BY <1>1, RecoveryInvInit, RecoveryInvStep, PTL DEF RecoverySpec

(* A sale still open in a clean account is for shares some row holds.       *)
LEMMA PendingHasRow ==
  ASSUME RecTypes, StoredInv, BooksInv, Clean, NEW o \in DbPending,
         dbOrder[o].op = "SELL", dbOrder[o].num > 0
  PROVE  dbOrder[o].group \in Groups /\ SomeShares(dbOrder[o].group)
<1>1. o \in OrderIds /\ dbOrder[o].status = "PENDING" /\ released[o] = 0
  BY DEF DbPending, BooksInv, SalesPending
<1>2. Made(o) /\ SameRecord(o) /\ order[o] \in OrderType
  BY <1>1, OrderFields DEF StoredInv, OrdersStored, Stored, RecTypes, TypeInv
<1>3. PICK g \in Groups, n \in Nat : g = dbOrder[o].group /\ n = dbOrder[o].num
  BY <1>1, <1>2, OrderNumbers DEF SameRecord
<1>4. Offered(g)[o] = n
  BY <1>1, <1>2, <1>3, OfferedIs DEF SameRecord
<1>5. n <= SharesToSell(g)
  BY <1>1, <1>4, SumCovers, ShareTypes, UserAccountAssumption
  DEF SharesToSell, SharesTyped, RecTypes
<1>6. RowSum(g) \in Nat /\ SharesToSell(g) \in Nat /\ SharesToSell(g) <= RowSum(g)
  BY RowsAreShares
<1>7. RowSum(g) # 0
  BY <1>3, <1>5, <1>6
<1>8. SomeShares(g)
  <2>. SUFFICES ASSUME ~SomeShares(g) PROVE FALSE
    OBVIOUS
  <2>0. DbTyped
    BY DEF RecTypes
  <2>1. ASSUME NEW p \in Rows(g) PROVE dbRow[p] = 0
    <3>1. dbRow[p] \in Int /\ ~(dbRow[p] > 0)
      BY <2>0, RowsTyped DEF SomeShares
    <3>2. dbRow[p] >= 0
      BY <3>1, RecoveryAssumption DEF Clean, NoRowBelowZero, Rows, Numbered
    <3>. QED
      BY <3>1, <3>2
  <2>2. RowSum(g) = 0
    BY <2>0, <2>1, RowsTyped, SumOfZeros DEF RowSum
  <2>. QED
    BY <1>7, <2>2
<1>. QED
  BY <1>3, <1>8

(* The assertion commented out at user_info.cc:132 holds of every restart   *)
(* of a clean account: a pending sale of some shares finds the position of  *)
(* its group, whatever else failed and however often the process stopped.   *)
THEOREM RestartsBackSales ==
  ASSUME CallsApart, SharesFit, ~IsPosition(NoPosition)
  PROVE  RecoverySpec => RestartBacksSales
<1>. DEFINE Backed ==
       Reload /\ ~unmarked /\ NoRowBelowZero =>
         \A o \in DbPending :
           dbOrder[o].op = "SELL" /\ dbOrder[o].num > 0
             => position'[dbOrder[o].group] # NoPosition
<1>1. RecoveryInv => Backed
  <2>. SUFFICES ASSUME RecoveryInv, Reload, ~unmarked, NoRowBelowZero,
                       NEW o \in DbPending, dbOrder[o].op = "SELL", dbOrder[o].num > 0
                PROVE  position'[dbOrder[o].group] # NoPosition
    OBVIOUS
  <2>1. RecTypes /\ DbTyped /\ StoredInv /\ BooksInv /\ Clean
    BY DEF RecoveryInv, Clean, RecTypes
  <2>2. dbOrder[o].group \in Groups /\ SomeShares(dbOrder[o].group)
    BY <2>1, PendingHasRow
  <2>. QED
    BY <2>1, <2>2, ReloadedLots
<1>2. RecoverySpec => []RecoveryInv
  BY RecoveryInvInit, RecoveryInvStep, PTL DEF RecoverySpec
<1>3. RecoveryInv => [Backed]_recVars
  BY <1>1
<1>. QED
  BY <1>2, <1>3, PTL DEF RestartBacksSales
=============================================================================
