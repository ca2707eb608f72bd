--------------------------- MODULE CapitalLedger ---------------------------
(***************************************************************************)
(* What an account promises about a user's money: it is free or held for    *)
(* one order; an order is given money once, at most what is free; what is   *)
(* held for it is given back or spent once, never more than was held.       *)
(* Money frozen for an order that the database then refuses stays frozen    *)
(* and belongs to no order.                                                *)
(***************************************************************************)
EXTENDS Integers

CONSTANTS Orders, Deposit

VARIABLES free,      \* what the user may dispose of
          held,      \* what is held for each order
          closed,    \* orders whose money has been given back or spent
          stray      \* frozen, but for no order

ledgerVars == <<free, held, closed, stray>>

LedgerInit ==
  /\ free = Deposit
  /\ held = [o \in Orders |-> 0]
  /\ closed = {}
  /\ stray = 0

Hold(o) ==
  /\ o \notin closed
  /\ held[o] = 0
  /\ 0 <= free' /\ free' < free
  /\ held' = [held EXCEPT ![o] = free - free']
  /\ UNCHANGED <<closed, stray>>

(* The deal or the cancellation of an order.                                *)
Close(o) ==
  /\ o \notin closed
  /\ closed' = closed \cup {o}
  /\ held' = [held EXCEPT ![o] = 0]
  /\ free <= free' /\ free' <= free + held[o]
  /\ UNCHANGED stray

(* The deal of a sale: it holds no money and brings some.                   *)
Credit(o) ==
  /\ o \notin closed
  /\ held[o] = 0
  /\ closed' = closed \cup {o}
  /\ free' >= free
  /\ UNCHANGED <<held, stray>>

Stray ==
  /\ 0 <= free' /\ free' < free
  /\ stray' = stray + (free - free')
  /\ UNCHANGED <<held, closed>>

LedgerNext == Stray \/ \E o \in Orders : Hold(o) \/ Close(o) \/ Credit(o)

LedgerSpec == LedgerInit /\ [][LedgerNext]_ledgerVars
=============================================================================
