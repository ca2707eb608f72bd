------------------------------- MODULE RefCount -------------------------------
(***************************************************************************)
(* The shared data of groups, positions and users: handles that point to a  *)
(* Data with a counter (REFCOUNT_DEFINE of logic/macros.h, Data::AddRef and *)
(* Data::Release).  A handle belongs to one thread; handles of several      *)
(* threads may share a Data.                                               *)
(*                                                                         *)
(* Release counts down atomically and then looks at the counter: two steps, *)
(* and between them other threads may count, or free the Data.  What a      *)
(* thread reads from a freed Data is undefined, and so is a second delete;  *)
(* both are kept as outcomes, the first as either value.                    *)
(***************************************************************************)
EXTENDS Naturals, FiniteSets

CONSTANTS
  Handles,       \* variables of a class with REFCOUNT_DEFINE
  RcThreads,     \* threads
  Owner,         \* the thread each handle belongs to
  Datas,         \* objects of the class Data
  NoData         \* a handle that is not alive

ASSUME RefCountAssumption ==
  /\ IsFiniteSet(Handles) /\ IsFiniteSet(RcThreads)
  /\ Owner \in [Handles -> RcThreads]
  /\ NoData \notin Datas

VARIABLES
  dataOf,       \* data_ of each handle
  refcount,     \* refcount_ of each Data
  alive,        \* Datas made and not deleted
  made,         \* Datas made
  rcStage,      \* what a thread is about to do
  doubleFree    \* a Data has been deleted twice

rcVars == <<dataOf, refcount, alive, made, rcStage, doubleFree>>

(* A thread at rest, or testing the counter of a Data it has counted down,  *)
(* to go on with an assignment to handle `to' if there is one.              *)
Resting == [test |-> NoData]

Testing(d, to, from) == [test |-> d, to |-> to, from |-> from]

RcInit ==
  /\ dataOf = [h \in Handles |-> NoData]
  /\ refcount = [d \in Datas |-> 0]
  /\ alive = {} /\ made = {}
  /\ rcStage = [t \in RcThreads |-> Resting]
  /\ doubleFree = FALSE

MayAct(h) == rcStage[Owner[h]] = Resting

(* A handle is constructed with a Data of its own.                          *)
Construct(h, d) ==
  /\ MayAct(h) /\ dataOf[h] = NoData /\ d \notin made
  /\ dataOf' = [dataOf EXCEPT ![h] = d]
  /\ refcount' = [refcount EXCEPT ![d] = 1]
  /\ alive' = alive \cup {d} /\ made' = made \cup {d}
  /\ UNCHANGED <<rcStage, doubleFree>>

(* Variant: a copy shares the Data and does not count.                      *)
CountsNot(d) == UNCHANGED refcount

AddRef(d) == refcount' = [refcount EXCEPT ![d] = @ + 1]

(* The copy constructor; the handle copied may be another thread's, which   *)
(* keeps it for as long.                                                   *)
Copy(h, other) ==
  /\ MayAct(h) /\ dataOf[h] = NoData
  /\ MayAct(other) /\ dataOf[other] # NoData
  /\ dataOf' = [dataOf EXCEPT ![h] = dataOf[other]]
  /\ AddRef(dataOf[other])
  /\ UNCHANGED <<alive, made, rcStage, doubleFree>>

(* The first half of Release.                                              *)
CountsDown(h) ==
  /\ refcount' = [refcount EXCEPT ![dataOf[h]] = IF @ = 0 THEN 0 ELSE @ - 1]
  /\ dataOf' = [dataOf EXCEPT ![h] = NoData]

(* The destructor.                                                         *)
Destroy(h) ==
  /\ MayAct(h) /\ dataOf[h] # NoData
  /\ CountsDown(h)
  /\ rcStage' = [rcStage EXCEPT ![Owner[h]] = Testing(dataOf[h], h, h)]
  /\ UNCHANGED <<alive, made, doubleFree>>

(* operator=, of two different variables: Release of the old Data first.    *)
(* The old and the new Data may be one, which the other handle keeps alive. *)
Assign(h, other) ==
  /\ h # other /\ Owner[h] = Owner[other]
  /\ MayAct(h) /\ dataOf[h] # NoData /\ dataOf[other] # NoData
  /\ CountsDown(h)
  /\ rcStage' = [rcStage EXCEPT ![Owner[h]] = Testing(dataOf[h], h, other)]
  /\ UNCHANGED <<alive, made, doubleFree>>

(* The second half of Release, `delete this' if the counter reads 0, and    *)
(* the rest of an assignment.                                              *)
TestCount(t) ==
  LET s == rcStage[t] IN
  /\ s # Resting
  /\ \E zero \in IF s.test \in alive THEN {refcount[s.test] = 0} ELSE BOOLEAN :
       /\ alive' = IF zero THEN alive \ {s.test} ELSE alive
       /\ doubleFree' = (doubleFree \/ (zero /\ s.test \notin alive))
  /\ IF s.from = s.to
     THEN UNCHANGED <<dataOf, refcount>>
     ELSE /\ dataOf' = [dataOf EXCEPT ![s.to] = dataOf[s.from]]
          /\ AddRef(dataOf[s.from])
  /\ rcStage' = [rcStage EXCEPT ![t] = Resting]
  /\ UNCHANGED made

RcNext ==
  \/ \E h \in Handles :
       \/ \E d \in Datas : Construct(h, d)
       \/ \E other \in Handles : Copy(h, other) \/ Assign(h, other)
       \/ Destroy(h)
  \/ \E t \in RcThreads : TestCount(t)

RcSpec == RcInit /\ [][RcNext]_rcVars

-----------------------------------------------------------------------------
RcTypeOK ==
  /\ dataOf \in [Handles -> Datas \cup {NoData}]
  /\ refcount \in [Datas -> 0 .. Cardinality(Handles)]
  /\ alive \subseteq made /\ made \subseteq Datas
  /\ rcStage \in [RcThreads ->
       {Resting} \cup [test : Datas, to : Handles, from : Handles]]
  /\ doubleFree \in BOOLEAN

HandlesOf(d) == {h \in Handles : dataOf[h] = d}

(* Although Release reads the counter again after it has counted down, no   *)
(* Data is deleted under a handle, and none outlives its last handle: the   *)
(* thread whose decrement was the last reads zero.  That two threads may    *)
(* both read zero is another matter: doubleFree.                           *)
FreedWithLastHandle ==
  \A d \in made :
    /\ HandlesOf(d) # {} => d \in alive
    /\ HandlesOf(d) = {} /\ (\A t \in RcThreads : rcStage[t].test # d) => d \notin alive
=============================================================================
