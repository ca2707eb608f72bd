------------------------ MODULE PositionTradesProofs ------------------------
(***************************************************************************)
(* Theorems about PositionTrades: any number of purchases and sales of any  *)
(* size, for any prices.                                                   *)
(***************************************************************************)
EXTENDS PositionTrades, StockPositionProofs

TradeLot == [id : Nat, price : Nat, count : Int, dealNum : Nat]

(* Numbered by the database, one number for each.                           *)
Numbered(lots) ==
  /\ \A i \in DOMAIN lots : lots[i].id \in 1 .. bought
  /\ \A i, j \in DOMAIN lots : lots[i].id = lots[j].id => i = j

LotsInv ==
  /\ bought \in 0 .. MaxLots
  /\ IsPosition(pos)
  /\ pos.lots \in Seq(TradeLot)
  /\ Numbered(pos.lots)
  /\ \A i \in DOMAIN pos.lots : HasShares(pos.lots[i])

LEMMA TradeLotKind == LotKind(TradeLot)
BY DEF LotKind, TradeLot

(* A lot is found by its number.                                            *)
LEMMA LotNowIs ==
  ASSUME NEW lots, \A i, j \in DOMAIN lots : lots[i].id = lots[j].id => i = j,
         NEW i \in DOMAIN lots
  PROVE  LotNow(lots, lots[i].id) = lots[i].count
<1>. DEFINE same == {j \in DOMAIN lots : lots[j].id = lots[i].id}
<1>1. same = {i}
  OBVIOUS
<1>2. LotNow(lots, lots[i].id) = IF same = {} THEN 0 ELSE lots[CHOOSE j \in same : TRUE].count
  BY DEF LotNow
<1>. HIDE DEF same
<1>. QED
  BY <1>1, <1>2

-----------------------------------------------------------------------------
(* A sale, lot by lot.                                                      *)

(* Every lot keeps its number and its price in the sale; Place says where   *)
(* the sort puts it.                                                       *)
SaleOf(lots, n, place) ==
  LET sorted == SortedLots(lots)
      sold   == SellLots(sorted, n)
      left   == ClearedLots(sold)
  IN  /\ place \in [DOMAIN lots -> DOMAIN lots]
      /\ \A k \in DOMAIN lots : \E i \in DOMAIN lots : place[i] = k
      /\ \A i \in DOMAIN lots : sorted[place[i]] = lots[i]
      /\ DOMAIN sold = DOMAIN lots
      /\ \A k \in DOMAIN lots : sold[k].id = sorted[k].id /\ sold[k].price = sorted[k].price
      /\ \A i, j \in DOMAIN lots : sold[i].id = sold[j].id => i = j
      /\ sold \in Seq(TradeLot) /\ left \in Seq(TradeLot)
      /\ {left[k] : k \in DOMAIN left} = {lot \in {sold[k] : k \in DOMAIN sold} : HasShares(lot)}
      /\ \A i, j \in DOMAIN left : left[i].id = left[j].id => i = j

LEMMA SaleIs ==
  ASSUME NEW lots \in Seq(TradeLot), NEW n \in Nat,
         \A i, j \in DOMAIN lots : lots[i].id = lots[j].id => i = j
  PROVE  \E place : SaleOf(lots, n, place)
<1>. DEFINE D == DOMAIN lots
            sorted == SortedLots(lots)
            sold == SellLots(sorted, n)
            left == ClearedLots(sold)
            key == [lot \in TradeLot |-> lot.id]
<1>1. /\ sorted \in Seq(TradeLot) /\ DOMAIN sorted = D /\ Sorts(sorted, lots)
  BY TradeLotKind, SortedLotsSorts
<1>2. PICK p \in Bijection(D, D) : \A i \in D : sorted[i] = lots[p[i]]
  BY <1>1 DEF Sorts
<1>3. /\ \A i \in D : p[i] \in D
      /\ \A i, j \in D : p[i] = p[j] => i = j
      /\ \A j \in D : \E i \in D : p[i] = j
  BY DEF Bijection, Injection, Surjection, IsInjective
<1>. DEFINE place == [j \in D |-> CHOOSE i \in D : p[i] = j]
<1>4. \A j \in D : place[j] \in D /\ p[place[j]] = j
  BY <1>3
<1>5. place \in [D -> D]
  BY <1>4
<1>. HIDE DEF place
<1>6. \A k \in D : place[p[k]] = k /\ p[k] \in D
  <2>. HIDE DEF D
  <2>. QED
    BY ONLY <1>3, <1>4
<1>7. \A i \in D : sorted[place[i]] = lots[i]
  BY <1>2, <1>4
<1>. HIDE DEF sorted
<1>8. /\ sold \in Seq(TradeLot) /\ DOMAIN sold = D
      /\ \A k \in D : sold[k] = IF k <= Visited(sorted, n)
                                THEN [sorted[k] EXCEPT !.count = @ - Demand(sorted, n)[k]]
                                ELSE sorted[k]
  <2>1. /\ SellLots(sorted, n) \in Seq(TradeLot)
        /\ DOMAIN SellLots(sorted, n) = DOMAIN sorted
        /\ \A i \in DOMAIN sorted :
             SellLots(sorted, n)[i] =
               IF i <= Visited(sorted, n)
               THEN [sorted[i] EXCEPT !.count = @ - Demand(sorted, n)[i]]
               ELSE sorted[i]
    BY ONLY <1>1, n \in Nat, TradeLotKind, SellLotsIs
  <2>. QED
    BY <1>1, <2>1
<1>. HIDE DEF sold
<1>9. \A k \in D : sorted[k] \in TradeLot /\ sold[k] \in TradeLot
  BY <1>1, <1>8
<1>10. \A k \in D : sold[k].id = sorted[k].id /\ sold[k].price = sorted[k].price
  BY <1>8, <1>9 DEF TradeLot
<1>11. \A i, j \in D : sold[i].id = sold[j].id => i = j
  <2>1. \A k \in D : sold[k].id = lots[p[k]].id /\ p[k] \in DOMAIN lots
    BY <1>2, <1>3, <1>10
  <2>. HIDE DEF sold, left
  <2>. SUFFICES ASSUME NEW i \in D, NEW j \in D, sold[i].id = sold[j].id PROVE i = j
    OBVIOUS
  <2>2. lots[p[i]].id = lots[p[j]].id
    BY <2>1
  <2>3. p[i] = p[j]
    BY <2>1, <2>2
  <2>. QED
    BY <1>3, <2>3
<1>12. /\ left \in Seq(TradeLot)
       /\ {left[k] : k \in DOMAIN left} = {lot \in {sold[k] : k \in DOMAIN sold} : HasShares(lot)}
  BY <1>8, TradeLotKind, ClearedLotsKeeps
<1>13. \A i, j \in DOMAIN left : left[i].id = left[j].id => i = j
  <2>1. \A i, j \in DOMAIN sold : key[sold[i]] = key[sold[j]] => i = j
    BY <1>8, <1>9, <1>11
  <2>2. \A i, j \in DOMAIN left : key[left[i]] = key[left[j]] => i = j
    <3>. HIDE DEF key
    <3>. QED
      BY <1>8, <2>1, ClearedLotsApart
  <2>3. \A i \in DOMAIN left : left[i] \in TradeLot
    BY <1>12
  <2>. HIDE DEF left
  <2>. QED
    BY <2>2, <2>3
<1>14. \A k \in D : \E i \in D : place[i] = k
  BY <1>6
<1>. HIDE DEF left
<1>15. SaleOf(lots, n, place)
  BY <1>5, <1>7, <1>8, <1>10, <1>11, <1>12, <1>13, <1>14 DEF SaleOf, sorted, sold, left
<1>. QED
  BY <1>15

-----------------------------------------------------------------------------
(* The invariant.                                                          *)

LEMMA LotsInit == Init => LotsInv
<1>1. 0 \in 0 .. UintMod - 1 /\ 0 \in 0 .. MaxLots
  BY UintModAssumption, PositionTradesAssumption
<1>. QED
  BY <1>1 DEF Init, LotsInv, EmptyPosition, IsPosition, Uint, Numbered

LEMMA UintRemainder ==
  ASSUME NEW x \in Int
  PROVE  x % UintMod \in Uint
BY UintModAssumption DEF Uint

LEMMA AddLots ==
  ASSUME LotsInv, NEW price \in Prices, NEW num \in LotSizes,
         AddFakeStockPosition(price, num)
  PROVE  /\ LotsInv'
         /\ pos'.lots = Append(pos.lots, NewLot(bought + 1, price, num))
         /\ pos'.count = (pos.count + num) % UintMod
         /\ NewLot(bought + 1, price, num) \in TradeLot
         /\ \A i \in DOMAIN pos.lots : i \in DOMAIN pos'.lots /\ pos'.lots[i] = pos.lots[i]
<1>. DEFINE lot == NewLot(bought + 1, price, num)
            lots == pos.lots
            L == Append(lots, lot)
<1>1. /\ price \in Nat /\ num \in Nat /\ num # 0 /\ bought \in Nat
      /\ bought' = bought + 1 /\ bought' \in 0 .. MaxLots
  BY PositionTradesAssumption DEF LotsInv, AddFakeStockPosition
<1>2. lot \in TradeLot /\ lot.id = bought + 1 /\ HasShares(lot) /\ lot.count = num
  BY <1>1 DEF NewLot, TradeLot, HasShares
<1>3. lots \in Seq(TradeLot) /\ Numbered(lots) /\ IsPosition(pos)
  BY DEF LotsInv
<1>4. pos' = [pos EXCEPT !.lots = Append(@, lot), !.count = (@ + lot.count) % UintMod]
  BY DEF AddFakeStockPosition, AddLot
<1>5. pos'.lots = L /\ pos'.count = (pos.count + num) % UintMod /\ IsPosition(pos')
  BY <1>1, <1>2, <1>3, <1>4, UintRemainder DEF IsPosition, Uint
<1>. HIDE DEF lot
<1>6. /\ DOMAIN lots = 1 .. Len(lots) /\ Len(lots) \in Nat
      /\ L \in Seq(TradeLot) /\ Len(L) = Len(lots) + 1 /\ L[Len(lots) + 1] = lot
      /\ \A i \in 1 .. Len(lots) : L[i] = lots[i]
  BY <1>2, <1>3, DomainFinite, AppendProperties
<1>7. DOMAIN L = 1 .. Len(lots) + 1
  BY <1>6, DomainFinite
<1>. HIDE DEF L
<1>8. \A i \in DOMAIN L :
        \/ i \in DOMAIN lots /\ L[i] = lots[i]
        \/ i = Len(lots) + 1 /\ L[i] = lot
  BY <1>6, <1>7
<1>9. /\ \A i \in DOMAIN L : L[i].id \in 1 .. bought'
      /\ \A i, j \in DOMAIN L : L[i].id = L[j].id => i = j
  BY <1>1, <1>2, <1>3, <1>5, <1>8 DEF Numbered
<1>10. \A i \in DOMAIN L : HasShares(L[i])
  BY <1>2, <1>8 DEF LotsInv
<1>. QED
  <2>1. LotsInv'
    BY <1>1, <1>5, <1>6, <1>9, <1>10 DEF LotsInv, Numbered
  <2>2. \A i \in DOMAIN lots : i \in DOMAIN L /\ L[i] = lots[i]
    BY <1>6, <1>7
  <2>. QED
    BY <1>2, <1>5, <2>1, <2>2 DEF lot, L
LEMMA SaleLots ==
  ASSUME LotsInv, NEW n \in Quantities, SellDone(n)
  PROVE  /\ n \in Nat /\ n <= pos.count /\ pos.count \in Nat
         /\ pos'.lots = ClearedLots(SellLots(SortedLots(pos.lots), n))
         /\ pos'.count = pos.count - n
         /\ LotsInv'
<1>. DEFINE lots == pos.lots
            sold == SellLots(SortedLots(lots), n)
            left == ClearedLots(sold)
<1>1. n \in Nat /\ n <= pos.count /\ bought' = bought
  BY DEF Quantities, SellDone
<1>2. lots \in Seq(TradeLot) /\ Numbered(lots) /\ IsPosition(pos)
  BY DEF LotsInv
<1>3. pos.count \in Uint /\ pos.count - n \in Uint /\ (pos.count - n) % UintMod = pos.count - n
  <2>1. pos.count \in Uint
    BY <1>2 DEF IsPosition
  <2>2. pos.count - n \in Uint
    BY <1>1, <2>1, UintModAssumption DEF Uint
  <2>. DEFINE x == pos.count - n
  <2>3. x \in 0 .. UintMod - 1 => x % UintMod = x
    <3>. HIDE DEF x
    <3>. QED
      BY UintModAssumption
  <2>. QED
    BY <2>1, <2>2, <2>3 DEF Uint
<1>4. pos' = [pos EXCEPT !.count = (@ - n) % UintMod, !.lots = left]
  BY DEF SellDone, OnSaleDone
<1>5. pos'.lots = left /\ pos'.count = pos.count - n /\ IsPosition(pos')
  <2>. HIDE DEF left, Uint
  <2>. QED
    BY <1>2, <1>3, <1>4 DEF IsPosition
<1>6. PICK place : SaleOf(lots, n, place)
  BY <1>1, <1>2, SaleIs DEF Numbered
<1>. DEFINE sorted == SortedLots(lots)
            D == DOMAIN lots
<1>7. /\ \A k \in D : \E i \in D : sold[k].id = lots[i].id
      /\ DOMAIN sold = D
      /\ left \in Seq(TradeLot)
      /\ {left[k] : k \in DOMAIN left} = {lot \in {sold[k] : k \in DOMAIN sold} : HasShares(lot)}
      /\ \A i, j \in DOMAIN left : left[i].id = left[j].id => i = j
  <2>1. /\ \A k \in D : \E i \in D : place[i] = k
        /\ \A i \in D : sorted[place[i]] = lots[i]
        /\ \A k \in D : sold[k].id = sorted[k].id
    BY <1>6 DEF SaleOf
  <2>2. \A k \in D : \E i \in D : sold[k].id = lots[i].id
    <3>. HIDE DEF sold, sorted, D
    <3>. QED
      BY <2>1
  <2>. QED
    BY <1>6, <2>2 DEF SaleOf
<1>. HIDE DEF left, sold, sorted
<1>8. ASSUME NEW k \in DOMAIN left
      PROVE  HasShares(left[k]) /\ left[k].id \in 1 .. bought
  <2>1. left[k] \in {lot \in {sold[q] : q \in DOMAIN sold} : HasShares(lot)}
    BY <1>7
  <2>2. PICK q \in D : left[k] = sold[q]
    BY <1>7, <2>1
  <2>3. PICK i \in D : sold[q].id = lots[i].id
    BY <1>7
  <2>. QED
    BY <1>2, <2>1, <2>2, <2>3 DEF Numbered
<1>9. LotsInv'
  BY <1>1, <1>5, <1>7, <1>8 DEF LotsInv, Numbered
<1>. QED
  BY <1>1, <1>3, <1>5, <1>9 DEF left, sold, Uint

LEMMA OtherLots ==
  ASSUME LotsInv, NEW n \in Quantities, DelegateSale(n) \/ CancelSale(n)
  PROVE  pos'.lots = pos.lots /\ pos'.count = pos.count /\ bought' = bought /\ LotsInv'
<1>1. n \in Nat
  BY DEF Quantities
<1>2. IsPosition(pos) /\ bought' = bought
  BY DEF LotsInv, DelegateSale, CancelSale
<1>3. pos'.lots = pos.lots /\ pos'.count = pos.count /\ IsPosition(pos')
  <2>1. CASE DelegateSale(n)
    <3>. DEFINE k == IF CanDelegate(pos, n) THEN n ELSE pos.available
    <3>1. k \in Nat /\ k <= pos.available
      BY <1>1, <1>2 DEF CanDelegate, IsPosition, Uint
    <3>2. pos' = [pos EXCEPT !.available = @ - k]
      BY <2>1, <3>1 DEF DelegateSale, Delegate, CanDelegate
    <3>. HIDE DEF k
    <3>3. pos.available - k \in Uint
      BY <1>2, <3>1, UintModAssumption DEF IsPosition, Uint
    <3>. QED
      BY <1>2, <3>2, <3>3 DEF IsPosition
  <2>2. CASE CancelSale(n)
    <3>1. pos' = [pos EXCEPT !.available = (@ + n) % UintMod]
      BY <2>2 DEF CancelSale, OnOrderCancel
    <3>2. (pos.available + n) % UintMod \in Uint
      BY <1>1, <1>2, UintRemainder DEF IsPosition, Uint
    <3>. QED
      BY <1>2, <3>1, <3>2 DEF IsPosition
  <2>. QED
    BY <2>1, <2>2
<1>4. LotsInv'
  BY <1>2, <1>3 DEF LotsInv, Numbered
<1>. QED
  BY <1>2, <1>3, <1>4

LEMMA LotsStep == LotsInv /\ [Next]_vars => LotsInv'
<1>. SUFFICES ASSUME LotsInv, [Next]_vars PROVE LotsInv'
  OBVIOUS
<1>1. ASSUME NEW price \in Prices, NEW num \in LotSizes, AddFakeStockPosition(price, num)
      PROVE  LotsInv'
  BY <1>1, AddLots
<1>2. ASSUME NEW n \in Quantities, DelegateSale(n) \/ CancelSale(n) PROVE LotsInv'
  BY <1>2, OtherLots
<1>3. ASSUME NEW n \in Quantities, SellDone(n) PROVE LotsInv'
  BY <1>3, SaleLots
<1>4. CASE UNCHANGED vars
  BY <1>4 DEF vars, LotsInv, Numbered
<1>. QED
  BY <1>1, <1>2, <1>3, <1>4 DEF Next

(* Whatever is bought and sold: the two unsigned counts of a position stay  *)
(* in range, every lot of its list is one the database numbered, and none   *)
(* without shares is left behind by the clear of OnOrderDone.               *)
THEOREM TradesTypes == Spec => []TypeOK
<1>1. LotsInv => TypeOK
  <2>. SUFFICES ASSUME LotsInv PROVE TypeOK
    OBVIOUS
  <2>1. \A i \in DOMAIN pos.lots : pos.lots[i].count \in Int \ {0}
    <3>1. \A i \in DOMAIN pos.lots : pos.lots[i] \in TradeLot
      BY DEF LotsInv
    <3>. QED
      BY <3>1 DEF LotsInv, TradeLot, HasShares
  <2>. QED
    BY <2>1 DEF LotsInv, TypeOK, IsPosition, Uint, Numbered
<1>. QED
  BY <1>1, LotsInit, LotsStep, PTL DEF Spec
-----------------------------------------------------------------------------
(* The lots and the total.                                                  *)

(* All purchases together have fewer shares than a uint32 can count.        *)
TradesFit ==
  \E most \in Nat :
    /\ \A n \in LotSizes : n <= most
    /\ MaxLots * most < UintMod

CountFits(most) ==
  /\ \A n \in LotSizes : n <= most
  /\ MaxLots * most < UintMod

TotalInv(most) == LotsWithinCount /\ pos.count <= bought * most

LEMMA ProductGrows ==
  ASSUME NEW a \in Nat, NEW b \in Nat, a <= b, NEW c \in Nat
  PROVE  a * c <= b * c /\ a * c \in Nat /\ (a + 1) * c = a * c + c
<1>1. PICK d \in Nat : b = a + d
  <2>1. b - a \in Nat /\ b = a + (b - a)
    OBVIOUS
  <2>. QED
    BY <2>1
<1>2. (a + d) * c = a * c + d * c /\ d * c \in Nat /\ a * c \in Nat
  OBVIOUS
<1>3. (a + 1) * c = a * c + c
  OBVIOUS
<1>. QED
  BY <1>1, <1>2, <1>3

LEMMA SharesAreCounts ==
  ASSUME NEW lots
  PROVE  Shares(lots) = SumFunction(Counts(lots))
BY DEF Shares, Counts

LEMMA TotalInit == ASSUME NEW most \in Nat PROVE Init => TotalInv(most)
<1>. SUFFICES ASSUME Init PROVE TotalInv(most)
  OBVIOUS
<1>1. pos.lots = <<>> /\ pos.count = 0 /\ bought = 0
  BY DEF Init, EmptyPosition
<1>2. DOMAIN Counts(<<>>) = {}
  BY DEF Counts
<1>3. Shares(<<>>) = 0
  BY <1>2, SharesAreCounts, SumEmpty DEF SumFunction
<1>. QED
  BY <1>1, <1>3 DEF TotalInv, LotsWithinCount

LEMMA TotalStep ==
  ASSUME NEW most \in Nat, CountFits(most)
  PROVE  LotsInv /\ TotalInv(most) /\ [Next]_vars => TotalInv(most)'
<1>. SUFFICES ASSUME LotsInv, TotalInv(most), [Next]_vars PROVE TotalInv(most)'
  OBVIOUS
<1>1. /\ pos.lots \in Seq(TradeLot) /\ bought \in Nat /\ pos.count \in Nat
      /\ Shares(pos.lots) \in Int
      /\ Shares(pos.lots) <= pos.count /\ pos.count <= bought * most
  <2>1. pos.lots \in Seq(TradeLot) /\ bought \in Nat /\ pos.count \in Nat
    BY PositionTradesAssumption DEF LotsInv, IsPosition, Uint
  <2>. QED
    BY <2>1, TradeLotKind, CountsSum, SharesAreCounts DEF TotalInv, LotsWithinCount
<1>2. ASSUME NEW price \in Prices, NEW num \in LotSizes, AddFakeStockPosition(price, num)
      PROVE  TotalInv(most)'
  <2>. DEFINE lot == NewLot(bought + 1, price, num)
  <2>1. /\ pos'.lots = Append(pos.lots, lot) /\ lot \in TradeLot
        /\ pos'.count = (pos.count + num) % UintMod
    BY <1>2, AddLots
  <2>2. num \in Nat /\ num <= most /\ bought' = bought + 1 /\ bought + 1 <= MaxLots
    BY <1>2, PositionTradesAssumption DEF CountFits, AddFakeStockPosition, LotsInv
  <2>3. lot.count = num
    BY DEF NewLot
  <2>. HIDE DEF lot
  <2>4. Shares(pos'.lots) = num + Shares(pos.lots)
    BY <1>1, <2>1, <2>3, TradeLotKind, AppendedSum, SharesAreCounts
  <2>5. pos.count + num <= (bought + 1) * most /\ pos.count + num < UintMod
    <3>1. (bought + 1) * most = bought * most + most /\ bought * most \in Nat
      BY <1>1, ProductGrows
    <3>2. (bought + 1) * most <= MaxLots * most /\ MaxLots * most < UintMod
      BY <1>1, <2>2, PositionTradesAssumption, ProductGrows DEF CountFits
    <3>3. (bought + 1) * most \in Nat /\ MaxLots * most \in Nat /\ UintMod \in Nat
      BY <1>1, PositionTradesAssumption, UintModAssumption
    <3>. DEFINE x == bought * most
                y == (bought + 1) * most
                z == MaxLots * most
    <3>4. pos.count <= x
      BY <1>1
    <3>. HIDE DEF x, y, z
    <3>5. y = x + most /\ x \in Nat /\ y <= z /\ z < UintMod /\ y \in Nat /\ z \in Nat
      BY <3>1, <3>2, <3>3 DEF x, y, z
    <3>6. pos.count + num <= y /\ pos.count + num < UintMod
      BY <1>1, <2>2, <3>3, <3>4, <3>5
    <3>. QED
      BY <3>6 DEF y
  <2>6. pos'.count = pos.count + num
    <3>. DEFINE x == pos.count + num
    <3>1. x \in 0 .. UintMod - 1
      BY <1>1, <2>2, <2>5, UintModAssumption
    <3>. HIDE DEF x
    <3>2. x % UintMod = x
      BY <3>1, UintModAssumption
    <3>. QED
      BY <2>1, <3>2 DEF x
  <2>7. pos'.count <= bought' * most
    BY <2>2, <2>5, <2>6
  <2>8. Shares(pos'.lots) <= pos'.count
    BY <1>1, <2>2, <2>4, <2>6
  <2>. QED
    BY <2>7, <2>8 DEF TotalInv, LotsWithinCount
<1>3. ASSUME NEW n \in Quantities, DelegateSale(n) \/ CancelSale(n) PROVE TotalInv(most)'
  BY <1>3, OtherLots DEF TotalInv, LotsWithinCount
<1>4. ASSUME NEW n \in Quantities, SellDone(n) PROVE TotalInv(most)'
  <2>. DEFINE sorted == SortedLots(pos.lots)
              sold == SellLots(sorted, n)
  <2>1. /\ n \in Nat /\ n <= pos.count
        /\ pos'.lots = ClearedLots(sold) /\ pos'.count = pos.count - n
    BY <1>4, SaleLots
  <2>2. /\ sorted \in Seq(TradeLot) /\ Len(sorted) = Len(pos.lots)
        /\ Shares(sorted) = Shares(pos.lots)
    BY <1>1, TradeLotKind, SortedLotsSorts, SortedLotsSum, SharesAreCounts
  <2>3. sorted # <<>>
    <3>1. Len(pos.lots) # 0
      BY <1>1, <1>4, EmptySeq DEF SellDone
    <3>. HIDE DEF sorted
    <3>. QED
      BY <2>2, <3>1
  <2>. HIDE DEF sorted
  <2>4. sold \in Seq(TradeLot)
    BY <2>1, <2>2, TradeLotKind, SellLotsIs
  <2>5. Shares(sold) <= Shares(sorted) - n
    BY <2>1, <2>2, <2>3, TradeLotKind, SaleTakesShares, SharesAreCounts
  <2>6. Shares(ClearedLots(sold)) = Shares(sold) /\ Shares(sold) \in Int
    BY <2>4, TradeLotKind, ClearedLotsKeeps, CountsSum, SharesAreCounts
  <2>. HIDE DEF sold
  <2>7. Shares(pos'.lots) <= pos'.count
    BY <1>1, <2>1, <2>2, <2>5, <2>6
  <2>8. bought' = bought /\ bought * most \in Nat
    BY <1>1, <1>4 DEF SellDone
  <2>9. pos'.count <= bought' * most
    <3>. DEFINE x == bought * most
    <3>1. pos.count <= x /\ x \in Nat
      BY <1>1, <2>8
    <3>. HIDE DEF x
    <3>2. pos'.count <= x
      BY <1>1, <2>1, <3>1
    <3>. QED
      BY <2>8, <3>2 DEF x
  <2>. QED
    BY <2>7, <2>9 DEF TotalInv, LotsWithinCount
<1>5. CASE UNCHANGED vars
  BY <1>5 DEF vars, TotalInv, LotsWithinCount
<1>. QED
  BY <1>2, <1>3, <1>4, <1>5 DEF Next

(* However many sales of whatever size: the lots never add up to more than  *)
(* the position's total, for the loop of OnOrderDone takes what it is asked *)
(* for from the cheapest lot and nothing negative from any other.  As long  *)
(* as all purchases together fit into 32 bits.                              *)
THEOREM TradesLotsFit == ASSUME TradesFit PROVE Spec => []LotsWithinCount
<1>1. PICK most \in Nat : CountFits(most)
  BY DEF TradesFit, CountFits
<1>2. Init => LotsInv /\ TotalInv(most)
  BY LotsInit, TotalInit
<1>3. LotsInv /\ TotalInv(most) /\ [Next]_vars => (LotsInv /\ TotalInv(most))'
  BY <1>1, LotsStep, TotalStep
<1>4. TotalInv(most) => LotsWithinCount
  BY DEF TotalInv
<1>. QED
  BY <1>2, <1>3, <1>4, PTL DEF Spec
-----------------------------------------------------------------------------
(* The order in which a sale takes shares.                                  *)

(* The count a sale leaves a lot with, also when the clear has removed it.  *)
LEMMA SaleLeaves ==
  ASSUME NEW lots \in Seq(TradeLot), NEW n \in Nat,
         \A i, j \in DOMAIN lots : lots[i].id = lots[j].id => i = j,
         NEW place, SaleOf(lots, n, place), NEW i \in DOMAIN lots
  PROVE  LotNow(ClearedLots(SellLots(SortedLots(lots), n)), lots[i].id)
           = SellLots(SortedLots(lots), n)[place[i]].count
<1>. DEFINE D == DOMAIN lots
            sorted == SortedLots(lots)
            sold == SellLots(sorted, n)
            left == ClearedLots(sold)
            r == place[i]
            id == lots[i].id
<1>1. /\ r \in D /\ sorted[r] = lots[i]
      /\ DOMAIN sold = D
      /\ \A k \in D : sold[k].id = sorted[k].id
      /\ \A k, j \in D : sold[k].id = sold[j].id => k = j
      /\ {left[k] : k \in DOMAIN left} = {lot \in {sold[k] : k \in DOMAIN sold} : HasShares(lot)}
      /\ \A k, j \in DOMAIN left : left[k].id = left[j].id => k = j
  BY DEF SaleOf
<1>2. sold[r].id = id
  BY <1>1
<1>. HIDE DEF left, sold, sorted, r, id, D
<1>3. CASE HasShares(sold[r])
  <2>1. sold[r] \in {left[k] : k \in DOMAIN left}
    BY <1>1, <1>3
  <2>2. PICK k \in DOMAIN left : left[k] = sold[r]
    BY <2>1
  <2>3. LotNow(left, left[k].id) = left[k].count
    BY ONLY <1>1, <2>2, LotNowIs
  <2>. QED
    BY <1>2, <2>2, <2>3 DEF left, sold, sorted, r, id
<1>4. CASE ~HasShares(sold[r])
  <2>. DEFINE same == {k \in DOMAIN left : left[k].id = id}
  <2>1. ASSUME NEW k \in DOMAIN left, left[k].id = id PROVE FALSE
    <3>1. left[k] \in {lot \in {sold[q] : q \in DOMAIN sold} : HasShares(lot)}
      BY <1>1
    <3>2. PICK q \in D : left[k] = sold[q] /\ HasShares(sold[q])
      BY <1>1, <3>1
    <3>3. q = r
      BY <1>1, <1>2, <2>1, <3>2
    <3>. QED
      BY <1>4, <3>2, <3>3
  <2>2. same = {}
    BY <2>1
  <2>3. LotNow(left, id) = IF same = {} THEN 0 ELSE left[CHOOSE k \in same : TRUE].count
    BY DEF LotNow
  <2>4. LotNow(left, id) = 0
    <3>. HIDE DEF same
    <3>. QED
      BY <2>2, <2>3
  <2>. QED
    BY <1>4, <2>4 DEF HasShares, left, sold, sorted, r, id
<1>. QED
  BY <1>3, <1>4

(* A lot that gave shares was visited, and a cheaper one before it: the     *)
(* loop went on because that one was left below zero.                       *)
LEMMA SaleTakesCheapest ==
  ASSUME NEW lots \in Seq(TradeLot), NEW n \in Nat,
         NEW place, SaleOf(lots, n, place),
         NEW i \in DOMAIN lots, NEW j \in DOMAIN lots,
         lots[j].price < lots[i].price,
         SellLots(SortedLots(lots), n)[place[i]].count < lots[i].count
  PROVE  SellLots(SortedLots(lots), n)[place[j]].count <= 0
<1>. DEFINE D == DOMAIN lots
            sorted == SortedLots(lots)
            sold == SellLots(sorted, n)
            m == Demand(sorted, n)
            v == Visited(sorted, n)
            ri == place[i]
            rj == place[j]
<1>1. ri \in D /\ sorted[ri] = lots[i] /\ rj \in D /\ sorted[rj] = lots[j]
  BY DEF SaleOf
<1>2. /\ sorted \in Seq(TradeLot) /\ DOMAIN sorted = D /\ Len(sorted) = Len(lots)
      /\ \A k, q \in D : k < q => ~Cheaper(sorted[q], sorted[k])
  BY TradeLotKind, SortedLotsSorts DEF Sorts
<1>3. /\ lots[i].count \in Int /\ lots[j].count \in Int
      /\ lots[i].price \in Nat /\ lots[j].price \in Nat
  <2>1. lots[i] \in TradeLot /\ lots[j] \in TradeLot
    OBVIOUS
  <2>. QED
    BY <2>1 DEF TradeLot
<1>4. D = 1 .. Len(lots) /\ Len(lots) \in Nat
  BY DomainFinite
<1>. HIDE DEF sorted
<1>5. \A k \in D : sold[k].count = IF k <= v THEN sorted[k].count - m[k] ELSE sorted[k].count
  BY <1>2, TradeLotKind, SellLotsIs
<1>6. v \in 0 .. Len(lots) /\ \A k \in D : k < v => sorted[k].count - m[k] < 0
  BY <1>2, TradeLotKind, VisitedIs
<1>7. sold[ri].count < lots[i].count
  BY DEF sorted
<1>. HIDE DEF D, sold, m, v, ri, rj
<1>8. ri <= v
  BY <1>1, <1>3, <1>4, <1>5, <1>6, <1>7
<1>9. rj < ri
  <2>1. ~(ri < rj)
    BY <1>1, <1>2 DEF Cheaper
  <2>2. ri # rj
    <3>1. lots[i].price # lots[j].price
      BY <1>3
    <3>. QED
      BY <1>1, <3>1
  <2>. QED
    BY <1>1, <1>4, <2>1, <2>2
<1>10. sold[rj].count = sorted[rj].count - m[rj] /\ sorted[rj].count - m[rj] < 0
  BY <1>1, <1>4, <1>5, <1>6, <1>8, <1>9
<1>11. sold[rj].count < 0
  BY <1>10
<1>12. m[rj] \in Int
  <2>1. \A k \in D : m[k] \in Int
    BY <1>2, TradeLotKind, DemandIs DEF m
  <2>. QED
    BY <1>1, <2>1
<1>. QED
  BY <1>1, <1>3, <1>10, <1>12 DEF sold, sorted, rj

(* What a step may do to the lots, as CheapestFirst says it.                *)
TakesCheapestFirst ==
  \A i \in DOMAIN pos.lots, j \in DOMAIN pos.lots :
    (/\ LotNow(pos'.lots, pos.lots[i].id) < pos.lots[i].count
     /\ pos.lots[j].price < pos.lots[i].price)
    => LotNow(pos'.lots, pos.lots[j].id) <= 0

(* A step that leaves the lots it finds as they were takes nothing.         *)
LEMMA LotsKept ==
  ASSUME LotsInv, NEW lots, lots = pos'.lots,
         \A i, j \in DOMAIN lots : lots[i].id = lots[j].id => i = j,
         \A i \in DOMAIN pos.lots : i \in DOMAIN lots /\ lots[i] = pos.lots[i]
  PROVE  TakesCheapestFirst
<1>1. ASSUME NEW i \in DOMAIN pos.lots PROVE LotNow(lots, pos.lots[i].id) = pos.lots[i].count
  <2>1. i \in DOMAIN lots /\ lots[i] = pos.lots[i]
    OBVIOUS
  <2>2. LotNow(lots, lots[i].id) = lots[i].count
    BY <2>1, LotNowIs
  <2>. QED
    BY <2>1, <2>2
<1>2. \A i \in DOMAIN pos.lots : pos.lots[i].count \in Int
  <2>1. \A i \in DOMAIN pos.lots : pos.lots[i] \in TradeLot
    BY DEF LotsInv
  <2>. QED
    BY <2>1 DEF TradeLot
<1>. QED
  BY <1>1, <1>2 DEF TakesCheapestFirst

LEMMA CheapestStep == LotsInv /\ LotsInv' /\ [Next]_vars => TakesCheapestFirst
<1>. SUFFICES ASSUME LotsInv, LotsInv', [Next]_vars PROVE TakesCheapestFirst
  OBVIOUS
<1>1. \A i, j \in DOMAIN pos'.lots : pos'.lots[i].id = pos'.lots[j].id => i = j
  BY DEF LotsInv, Numbered
<1>2. ASSUME NEW price \in Prices, NEW num \in LotSizes, AddFakeStockPosition(price, num)
      PROVE  TakesCheapestFirst
  BY <1>1, <1>2, AddLots, LotsKept
<1>3. ASSUME NEW n \in Quantities, DelegateSale(n) \/ CancelSale(n) PROVE TakesCheapestFirst
  BY <1>1, <1>3, OtherLots, LotsKept
<1>4. ASSUME NEW n \in Quantities, SellDone(n) PROVE TakesCheapestFirst
  <2>. DEFINE lots == pos.lots
              sold == SellLots(SortedLots(lots), n)
  <2>1. n \in Nat /\ pos'.lots = ClearedLots(sold)
    BY <1>4, SaleLots
  <2>2. lots \in Seq(TradeLot) /\ \A i, j \in DOMAIN lots : lots[i].id = lots[j].id => i = j
    BY DEF LotsInv, Numbered
  <2>3. PICK place : SaleOf(lots, n, place)
    BY <2>1, <2>2, SaleIs
  <2>4. \A i \in DOMAIN lots : LotNow(pos'.lots, lots[i].id) = sold[place[i]].count
    BY <2>1, <2>2, <2>3, SaleLeaves
  <2>5. \A i, j \in DOMAIN lots :
          lots[j].price < lots[i].price /\ sold[place[i]].count < lots[i].count
            => sold[place[j]].count <= 0
    BY <2>1, <2>2, <2>3, SaleTakesCheapest
  <2>. HIDE DEF sold
  <2>. QED
    BY <2>4, <2>5 DEF TakesCheapestFirst
<1>5. CASE UNCHANGED vars
  BY <1>1, <1>5, LotsKept DEF vars
<1>. QED
  BY <1>2, <1>3, <1>4, <1>5 DEF Next

(* For any purchases: a sale takes shares from a lot only when every        *)
(* cheaper one has nothing left to give.  OnOrderDone sorts by deal price   *)
(* and its loop goes past a lot only when that lot was asked for more than  *)
(* it had.                                                                 *)
THEOREM TradesCheapestFirst == Spec => CheapestFirst
<1>1. LotsInv /\ LotsInv' /\ [Next]_vars => [TakesCheapestFirst]_vars
  BY CheapestStep
<1>. QED
  BY <1>1, LotsInit, LotsStep, PTL DEF Spec, CheapestFirst, TakesCheapestFirst
=============================================================================
