--------------------------- MODULE OrderObservers ---------------------------
(***************************************************************************)
(* The addresses of orders: UserInfo keeps its orders by value in           *)
(* order_list_ and hands out pointers to the elements -- to the engine's    *)
(* Subject (InitOrder, SubmitOrder, the automatic order), which keeps them, *)
(* and to the handler OnBuyOrderDone, which goes on using its own after it  *)
(* has pushed the automatic order (pub/logic/user_info.cc, subject.cc).     *)
(*                                                                         *)
(* order_list_ is indexed, so its elements move: push_back of a full vector *)
(* copies them to a new buffer of twice the size, erase moves those behind. *)
(* UserAccount follows the orders by id; here it is the addresses.  The     *)
(* definition of OrderList is not in the repository; it is taken to be the  *)
(* vector that pub/logic/message.h:212 declares under the same name.  The   *)
(* erase alone moves the elements of any list that can be indexed.          *)
(***************************************************************************)
EXTENDS Naturals, Sequences, SequencesExt

CONSTANTS
  MaxListed,    \* bound: orders the database numbers, from 1
  NoHandler     \* no handler runs

VARIABLES
  slots,        \* order_list_, the ids of its elements
  buffer,       \* which memory the vector has now; each is used once
  capacity,
  attached,     \* Subject::m_lst: address and the order it was taken from
  stale,        \* orders that have been dealt or cancelled
  handler,      \* `order' of a running OnBuyOrderDone, or NoHandler
  stored,       \* orders InitOrder has still to read
  numbered      \* ids given out

obsVars == <<slots, buffer, capacity, attached, stale, handler, stored, numbered>>

Entry(address, o) == [address |-> address, order |-> o]

ObserversInit ==
  /\ slots = <<>> /\ buffer = 1 /\ capacity = 0
  /\ attached = <<>> /\ stale = {}
  /\ handler = NoHandler
  /\ stored \in 0 .. MaxListed
  /\ numbered = 0

(* &order_list_[order_list_.size()-1], in the state after the push.         *)
LastAddress == <<buffer', Len(slots')>>

(* What is read through an address: the element there; 0 for freed memory,   *)
(* of which the model does nothing more.                                    *)
Denoted(address) ==
  IF address[1] = buffer /\ address[2] \in DOMAIN slots THEN slots[address[2]] ELSE 0

PushBack(o) ==
  /\ slots' = Append(slots, o)
  /\ numbered' = o
  /\ IF Len(slots) < capacity
     THEN UNCHANGED <<buffer, capacity>>
     ELSE buffer' = buffer + 1 /\ capacity' = IF capacity = 0 THEN 1 ELSE 2 * capacity

(* Subject::Attach through SSEngine::AttachObserver.                        *)
Attach(o) == attached' = Append(attached, Entry(LastAddress, o))

Quiet == handler = NoHandler /\ stored = 0

(* InitOrder: every stored order is pushed, those still pending attached.   *)
InitOrder ==
  /\ stored > 0
  /\ stored' = stored - 1
  /\ PushBack(numbered + 1)
  /\ \/ Attach(numbered + 1) /\ UNCHANGED stale
     \/ stale' = stale \cup {numbered + 1} /\ UNCHANGED attached
  /\ UNCHANGED handler

(* SubmitOrder: the order is dealt at once, through its pointer, or         *)
(* registered.                                                             *)
Submit ==
  /\ Quiet /\ numbered < MaxListed
  /\ PushBack(numbered + 1)
  /\ \/ Attach(numbered + 1) /\ UNCHANGED <<stale, handler>>
     \/ /\ handler' = Entry(LastAddress, numbered + 1)
        /\ stale' = stale \cup {numbered + 1}
        /\ UNCHANGED attached
  /\ UNCHANGED stored

(* Subject::Notify calls Update on what the address denotes, and the order  *)
(* found there is dealt.                                                   *)
NotifyObserver ==
  /\ Quiet
  /\ \E i \in DOMAIN attached :
       /\ Denoted(attached[i].address) \notin stale \cup {0}
       /\ stale' = stale \cup {Denoted(attached[i].address)}
       /\ handler' = Entry(attached[i].address, Denoted(attached[i].address))
  /\ UNCHANGED <<slots, buffer, capacity, attached, stored, numbered>>

(* Subject::Notify drops an observer that says it is stale.                 *)
DropObserver ==
  /\ Quiet
  /\ \E i \in DOMAIN attached :
       /\ Denoted(attached[i].address) \in stale
       /\ attached' = RemoveAt(attached, i)
  /\ UNCHANGED <<slots, buffer, capacity, stale, handler, stored, numbered>>

(* OnBuyOrderDone pushes and attaches the automatic order ...               *)
PushAutoOrder ==
  /\ handler # NoHandler /\ numbered < MaxListed
  /\ PushBack(numbered + 1)
  /\ Attach(numbered + 1)
  /\ UNCHANGED <<stale, handler, stored>>

(* ... and the handler returns.                                             *)
HandlerReturns ==
  /\ handler # NoHandler
  /\ handler' = NoHandler
  /\ UNCHANGED <<slots, buffer, capacity, attached, stale, stored, numbered>>

(* OnCancelOrder: marked, then order_list_.erase(order).                    *)
CancelErases ==
  /\ Quiet
  /\ \E i \in DOMAIN slots :
       /\ stale' = stale \cup {slots[i]}
       /\ slots' = RemoveAt(slots, i)
  /\ UNCHANGED <<buffer, capacity, attached, handler, stored, numbered>>

ObserversNext ==
  \/ InitOrder \/ Submit \/ NotifyObserver \/ DropObserver
  \/ PushAutoOrder \/ HandlerReturns \/ CancelErases

ObserversSpec == ObserversInit /\ [][ObserversNext]_obsVars

-----------------------------------------------------------------------------
IsItsOrder(entry) == Denoted(entry.address) = entry.order

(* user_info.cc:433, "cannot make a deal now, register callback": the       *)
(* callback registered for an order is that order's for as long as the      *)
(* order is pending, and the pointer a deal is handled with is the dealt    *)
(* order's to the end, whatever is pushed, dealt or cancelled meanwhile.    *)
CallbacksAreTheirOrders ==
  /\ \A i \in DOMAIN attached :
       attached[i].order \notin stale => IsItsOrder(attached[i])
  /\ handler # NoHandler => IsItsOrder(handler)
=============================================================================
