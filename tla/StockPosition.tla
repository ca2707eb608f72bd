--------------------------- MODULE StockPosition ---------------------------
(***************************************************************************)
(* GroupStockPosition of pub/logic/stock_position.{h,cc}: the shares a user *)
(* holds in one stock group, kept twice -- as a total (count_) and as the   *)
(* list of purchases they came from (fake_stock_position_list_, here `lots')*)
(* -- together with the part of them that may still be delegated to sell    *)
(* orders (available_).                                                    *)
(*                                                                         *)
(* count_ and available_ are uint32, a lot's count_ is int32.  UintMod      *)
(* stands for 2^32.                                                        *)
(***************************************************************************)
EXTENDS Integers, Sequences, SequencesExt

CONSTANT UintMod

ASSUME UintModAssumption == UintMod \in Nat \ {0}

Lot == [price : Nat, count : Int]

Uint == 0 .. UintMod - 1

PositionType == [count : Uint, available : Uint, lots : Seq(Lot)]

(* The two counts are in range, whatever the lots.                          *)
IsPosition(pos) ==
  /\ DOMAIN pos = {"count", "available", "lots"}
  /\ pos.count \in Uint
  /\ pos.available \in Uint

(* GroupStockPosition(user, group, code) and its Data constructor.          *)
EmptyPosition == [count |-> 0, available |-> 0, lots |-> <<>>]

(* Variants: the total, or the lot, is forgotten.                           *)
AddLotUncounted(pos, lot) == [pos EXCEPT !.lots = Append(@, lot)]
AddLotUnlisted(pos, lot) == [pos EXCEPT !.count = (@ + lot.count) % UintMod]

(* AddFakeStockPosition: the new lot and its shares; available_ is left     *)
(* alone.  The duplicate test never fires: the database numbers the lots.   *)
AddLot(pos, lot) ==
  [pos EXCEPT !.lots = Append(@, lot), !.count = (@ + lot.count) % UintMod]

CanDelegate(pos, n) == pos.available >= n

(* Variant: the shares are taken without a look.                            *)
DelegateUnchecked(pos, n) == [pos EXCEPT !.available = @ - n]

Delegate(pos, n) ==
  IF CanDelegate(pos, n) THEN [pos EXCEPT !.available = @ - n] ELSE pos

(* Variant: everything becomes available again.                             *)
OnOrderCancelAll(pos, n) == [pos EXCEPT !.available = pos.count]

OnOrderCancel(pos, n) == [pos EXCEPT !.available = (@ + n) % UintMod]

-----------------------------------------------------------------------------
(* Variant: the dearest lots first.                                         *)
Dearer(l, r) == l.price > r.price

(* FakeStockPosition::comp, the order in which a sale visits the lots.      *)
Cheaper(l, r) == l.price < r.price

(* std::sort promises no order among lots of the same price; any one will   *)
(* do here.                                                                *)
SortedLots(lots) ==
  LET place == CHOOSE p \in Bijection(DOMAIN lots, DOMAIN lots) :
                 \A i, j \in DOMAIN lots : i < j => ~Cheaper(lots[p[j]], lots[p[i]])
  IN  [i \in DOMAIN lots |-> lots[place[i]]]

(* The value of `m' when the loop of OnOrderDone reaches lot i: what the    *)
(* lots before it left unsold.                                             *)
Demand(lots, n) ==
  LET m[i \in DOMAIN lots] == IF i = 1 THEN n ELSE m[i - 1] - lots[i - 1].count
  IN  m

(* How many lots the loop visits: it stops behind the first lot that sell() *)
(* leaves with a count that is not negative.                               *)
Visited(lots, n) ==
  LET m     == Demand(lots, n)
      stops == {i \in DOMAIN lots : lots[i].count - m[i] >= 0}
  IN  IF stops = {} THEN Len(lots)
      ELSE CHOOSE i \in stops : \A j \in stops : i <= j

(* Variant: sell() stops at zero and reports it, which ends the loop.       *)
SellLotsClamped(lots, n) ==
  [i \in DOMAIN lots |->
     IF i = 1 THEN [lots[i] EXCEPT !.count = IF @ < n THEN 0 ELSE @ - n] ELSE lots[i]]

(* FakeStockPosition::sell on every visited lot.  The test for a negative   *)
(* count in sell() has no effect, so a lot may go below zero.              *)
SellLots(lots, n) ==
  [i \in DOMAIN lots |->
     IF i <= Visited(lots, n)
     THEN [lots[i] EXCEPT !.count = @ - Demand(lots, n)[i]]
     ELSE lots[i]]

(* fp_list as the caller sees it: the visited lots, which share their Data  *)
(* with the position and so show the counts the sale left them with.       *)
PickedLots(lots, n) == SubSeq(SellLots(lots, n), 1, Visited(lots, n))

(* Variant: nothing is cleared.                                             *)
KeepLot(lot) == TRUE

(* The test of the final clear.                                             *)
HasShares(lot) == lot.count # 0

(* The final clear: t is pushed what has shares.                            *)
ClearedLots(lots) ==
  LET t[i \in 0 .. Len(lots)] ==
        IF i = 0 THEN <<>>
        ELSE IF HasShares(lots[i]) THEN Append(t[i - 1], lots[i]) ELSE t[i - 1]
  IN  t[Len(lots)]

(* GroupStockPosition::OnOrderDone with its sort and its final clear.       *)
OnSaleDone(pos, n) ==
  [pos EXCEPT !.count = (@ - n) % UintMod,
              !.lots = ClearedLots(SellLots(SortedLots(@), n))]

OnSaleDonePicked(pos, n) == PickedLots(SortedLots(pos.lots), n)
=============================================================================
