--------------------------- MODULE PositionTrades ---------------------------
(***************************************************************************)
(* One GroupStockPosition through a sequence of purchases, delegations,     *)
(* cancelled sell orders and sales, as UserInfo calls it, and the profit    *)
(* UserInfo::OnSellOrderDone works out for each sale.  Calls are serialised *)
(* by the account's lock and appear as single steps.                       *)
(***************************************************************************)
EXTENDS StockPosition

CONSTANTS Prices,     \* deal prices of the purchases
          LotSizes,   \* shares of a purchase
          MaxLots,    \* bound: purchases of a behaviour
          MaxSales    \* bound: sales of a behaviour

ASSUME PositionTradesAssumption ==
  /\ Prices \subseteq Nat
  /\ LotSizes \subseteq Nat \ {0}
  /\ MaxLots \in Nat
  /\ MaxSales \in Nat

VARIABLES pos,        \* the position
          bought,     \* purchases so far, as many as holdingIds given out
          sales       \* sales so far

vars == <<pos, bought, sales>>

(* A lot here also carries its holdingId and the deal_num of the order that *)
(* bought it.                                                              *)
NewLot(id, price, num) ==
  [id |-> id, price |-> price, count |-> num, dealNum |-> num]

SumOver(Value(_), seq) == FoldLeft(LAMBDA sum, x : sum + Value(x), 0, seq)

Shares(lots) == SumFunction([i \in DOMAIN lots |-> lots[i].count])

(* The loop of OnSellOrderDone over fp_list.  count() is read as a uint32;  *)
(* a lot that is not empty is charged for the shares it still has.  The     *)
(* amount of the purchase is taken without its fees, so that every share    *)
(* of a lot costs its price.                                               *)
LotCost(lot) ==
  IF lot.count # 0
  THEN lot.price * (lot.count % UintMod)
  ELSE lot.price * lot.dealNum

SaleCost(picked) == SumOver(LotCost, picked)

-----------------------------------------------------------------------------
Init == pos = EmptyPosition /\ bought = 0 /\ sales = 0

(* OnBuyOrderDone: gp->AddFakeStockPosition(fp).                            *)
AddFakeStockPosition(price, num) ==
  /\ bought < MaxLots
  /\ bought' = bought + 1
  /\ pos' = AddLot(pos, NewLot(bought + 1, price, num))
  /\ UNCHANGED sales

(* OnSellOrder: the order is cut down to what is available.                 *)
DelegateSale(n) ==
  /\ pos' = Delegate(pos, IF CanDelegate(pos, n) THEN n ELSE pos.available)
  /\ UNCHANGED <<bought, sales>>

(* OnCancelSellOrder hands back the shares of an order, at most as many as  *)
(* the position holds.                                                     *)
CancelSale(n) ==
  /\ pos.available + n <= pos.count
  /\ pos' = OnOrderCancel(pos, n)
  /\ UNCHANGED <<bought, sales>>

(* OnSellOrderDone: a sale of at most the shares of the position.           *)
SellDone(n) ==
  /\ sales < MaxSales
  /\ pos.lots # <<>>
  /\ n <= pos.count
  /\ pos' = OnSaleDone(pos, n)
  /\ sales' = sales + 1
  /\ UNCHANGED bought

Quantities == 0 .. MaxLots * (CHOOSE n \in LotSizes : \A m \in LotSizes : m <= n)

Next ==
  \/ \E price \in Prices, num \in LotSizes : AddFakeStockPosition(price, num)
  \/ \E n \in Quantities :
       DelegateSale(n) \/ CancelSale(n) \/ SellDone(n)

Spec == Init /\ [][Next]_vars
-----------------------------------------------------------------------------
(* The two counts of the position are unsigned 32-bit values and its lots   *)
(* are numbered by the database.                                           *)
TypeOK ==
  /\ pos.count \in 0 .. UintMod - 1
  /\ pos.available \in 0 .. UintMod - 1
  /\ \A i \in DOMAIN pos.lots :
       /\ pos.lots[i].id \in 1 .. bought
       /\ pos.lots[i].count \in Int \ {0}
  /\ bought \in 0 .. MaxLots

(* The lots never add up to more shares than the position's own total, so   *)
(* no sale can be served from lots the total does not know of.  The loop of *)
(* GroupStockPosition::OnOrderDone may take too much from the lots (it      *)
(* leaves exhausted ones below zero), never too little.                    *)
LotsWithinCount == Shares(pos.lots) <= pos.count

LotNow(lots, id) ==
  LET same == {i \in DOMAIN lots : lots[i].id = id}
  IN  IF same = {} THEN 0 ELSE lots[CHOOSE i \in same : TRUE].count

(* A sale takes shares from a lot only when every cheaper lot has nothing   *)
(* left to give: OnOrderDone sorts the lots by deal price first.  (Another  *)
(* lot of the same price may keep its shares.)                             *)
CheapestFirst ==
  [][ \A i \in DOMAIN pos.lots, j \in DOMAIN pos.lots :
        (/\ LotNow(pos'.lots, pos.lots[i].id) < pos.lots[i].count
         /\ pos.lots[j].price < pos.lots[i].price)
        => LotNow(pos'.lots, pos.lots[j].id) <= 0 ]_vars

(* The cost of the n cheapest shares, lot by lot.                           *)
CheapestShares(lots, n) ==
  LET step(acc, l) ==
        LET k == IF l.count < acc.rest THEN l.count ELSE acc.rest
        IN  [rest |-> acc.rest - k, cost |-> acc.cost + k * l.price]
  IN  FoldLeft(step, [rest |-> n, cost |-> 0], SortedLots(lots)).cost

(* user_info.cc:534 says the loop calculates the profit: the cost it takes  *)
(* off would have to be what the shares sold were bought for.              *)
ProfitIsOfSharesSold ==
  \A n \in 1 .. pos.count :
    pos.lots # <<>> =>
      SaleCost(OnSaleDonePicked(pos, n)) = CheapestShares(pos.lots, n)
=============================================================================
