----------------------------- MODULE TradeFees -----------------------------
(***************************************************************************)
(* The charges of a trade, translated from the macros of                   *)
(* pub/logic/macros.h and from the way UserInfo::OnBuyOrder adds them up.   *)
(* Money is counted in whole currency units; the double product with 0.003 *)
(* is computed exactly, in thousandths.                                    *)
(***************************************************************************)
EXTENDS Integers

CONSTANT ShanghaiCode    \* IS_SH_CODE(code) of the traded stock

ASSUME ShanghaiCodeAssumption == ShanghaiCode \in BOOLEAN

(* ROUND_COMMISSION(turnover * COMMISSION_RATE): up to a multiple of 5.    *)
RoundCommission(turnover) == (((3 * turnover + 4999) \div 1000) \div 5) * 5

(* TRANSFER_FEE(num), charged on Shanghai codes only.                      *)
TransferFee(num) == IF ShanghaiCode THEN (num + 999) \div 1000 ELSE 0

(* What a purchase costs in all: `need' of OnBuyOrder, with the order price *)
(* the sum frozen, with the price of the deal the amount paid.             *)
BuyCost(price, num) ==
  price * num + RoundCommission(price * num) + TransferFee(num)

(* External (OrderInfo): the duty kept from the turnover of a sale.         *)
StampDuty(turnover) == turnover \div 1000

(* `profit' of OnSellOrderDone before the cost is taken off: what a sale    *)
(* adds to the available capital.                                          *)
SaleProceeds(price, num) ==
  price * num - StampDuty(price * num) - TransferFee(num)
              - RoundCommission(price * num)
=============================================================================
