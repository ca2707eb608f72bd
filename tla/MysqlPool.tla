------------------------------ MODULE MysqlPool ------------------------------
(***************************************************************************)
(* MYSQL_Pool and AutoMYSQLEngine of pub/storage/mysql_pool with the calls  *)
(* of DataMYSQLEngine that use them.  A thread works on one call at a time: *)
(*                                                                         *)
(*   AutoMYSQLEngine()   DBConnectionPop: the size without the lock, then   *)
(*                       the front of the list with it                     *)
(*   WriteData/ReadData  GetDBEngine reconnects if it has to; SQLExec       *)
(*   ~AutoMYSQLEngine()  DBConnectionPush of whatever there was, also NULL  *)
(***************************************************************************)
EXTENDS Naturals, FiniteSets, Sequences, SequencesExt

CONSTANTS
  MyThreads,     \* server threads
  MyConns,       \* db_conn_num connections
  NullEngine,    \* NULL
  MaxMyDrops     \* bound: how often the server loses a connection

ASSUME MysqlPoolAssumption ==
  /\ IsFiniteSet(MyThreads) /\ IsFiniteSet(MyConns)
  /\ NullEngine \notin MyConns
  /\ MaxMyDrops \in Nat

VARIABLES
  myList,        \* db_conn_pool_
  myStage,       \* where each thread is
  myEngine,      \* engine_ of its AutoMYSQLEngine
  myLost,        \* connections that are down
  myDrops,       \* how often one went down
  myMade,        \* connections made by Init
  myState        \* "new", "open", "closed", or "corrupt": front() of no list

myVars == <<myList, myStage, myEngine, myLost, myDrops, myMade, myState>>

MyEntry == MyConns \cup {NullEngine}

MyInit ==
  /\ myList = <<>>
  /\ myStage = [t \in MyThreads |-> "idle"]
  /\ myEngine = [t \in MyThreads |-> NullEngine]
  /\ myLost = {} /\ myDrops = 0 /\ myMade = {}
  /\ myState = "new"

MyAt(t, stage) == myState = "open" /\ myStage[t] = stage

MyGoto(t, stage) == myStage' = [myStage EXCEPT ![t] = stage]

(* MYSQL_Pool::Init; a connection that cannot be made is an assertion.      *)
InitParam ==
  /\ myState = "new"
  /\ myState' = "open"
  /\ myMade' = MyConns
  /\ myList' \in SetToSeqs(MyConns)
  /\ UNCHANGED <<myStage, myEngine, myLost, myDrops>>

(* DBConnectionPop, the test of the size: NULL from an empty list.          *)
TestSize(t) ==
  /\ MyAt(t, "idle")
  /\ MyGoto(t, IF myList = <<>> THEN "use" ELSE "pop")
  /\ UNCHANGED <<myList, myEngine, myLost, myDrops, myMade, myState>>

(* Variant: the connection is read and not removed.                         *)
PeekFront(t) ==
  /\ myEngine' = [myEngine EXCEPT ![t] = Head(myList)]
  /\ UNCHANGED myList

TakeFront(t) ==
  /\ myEngine' = [myEngine EXCEPT ![t] = Head(myList)]
  /\ myList' = Tail(myList)

(* DBConnectionPop with the lock: front() of a list that another thread has *)
(* emptied since is undefined.                                             *)
PopFront(t) ==
  /\ MyAt(t, "pop")
  /\ IF myList = <<>>
     THEN myState' = "corrupt" /\ UNCHANGED <<myList, myStage, myEngine>>
     ELSE TakeFront(t) /\ MyGoto(t, "use") /\ UNCHANGED myState
  /\ UNCHANGED <<myLost, myDrops, myMade>>

(* GetDBEngine and SQLExec: without a connection, with one that cannot be   *)
(* reached again, or with a statement that fails the call returns false;    *)
(* in no case does the pool change.                                        *)
MyCall(t) ==
  /\ MyAt(t, "use")
  /\ myLost' \in {myLost, myLost \ {myEngine[t]}}
  /\ MyGoto(t, "done")
  /\ UNCHANGED <<myList, myEngine, myDrops, myMade, myState>>

PushBack(t) ==
  /\ myList' = Append(myList, myEngine[t])
  /\ myEngine' = [myEngine EXCEPT ![t] = NullEngine]

(* ~AutoMYSQLEngine.                                                       *)
DBConnectionPush(t) ==
  /\ MyAt(t, "done")
  /\ PushBack(t)
  /\ MyGoto(t, "idle")
  /\ UNCHANGED <<myLost, myDrops, myMade, myState>>

(* The server closes a connection.                                         *)
MyDrop(c) ==
  /\ myState = "open" /\ myDrops < MaxMyDrops
  /\ c \in myMade \ myLost
  /\ myLost' = myLost \cup {c}
  /\ myDrops' = myDrops + 1
  /\ UNCHANGED <<myList, myStage, myEngine, myMade, myState>>

(* DataMYSQLEngine::Release: Dest empties the list and destroys the lock.   *)
MyRelease ==
  /\ myState = "open"
  /\ myList' = <<>>
  /\ myState' = "closed"
  /\ UNCHANGED <<myStage, myEngine, myLost, myDrops, myMade>>

MyNext ==
  \/ InitParam
  \/ \E t \in MyThreads :
       TestSize(t) \/ PopFront(t) \/ MyCall(t) \/ DBConnectionPush(t)
  \/ \E c \in MyConns : MyDrop(c)
  \/ MyRelease

MySpec == MyInit /\ [][MyNext]_myVars

-----------------------------------------------------------------------------
MyTypeOK ==
  /\ myList \in Seq(MyEntry)
  /\ myStage \in [MyThreads -> {"idle", "pop", "use", "done"}]
  /\ myEngine \in [MyThreads -> MyEntry]
  /\ myMade \in {{}, MyConns} /\ myLost \subseteq myMade
  /\ myDrops \in 0 .. MaxMyDrops
  /\ myState \in {"new", "open", "closed", "corrupt"}

(* Entries of the list, and the ones threads hold and will push back.       *)
MySlots == Len(myList) + Cardinality({t \in MyThreads : myStage[t] \in {"use", "done"}})

(* mysql_pool.cc:14 pushes NULL for every call that found no connection:    *)
(* the list still never has more entries than there are connections or      *)
(* threads, for a call finds it empty only while others hold them all.      *)
SlotsBounded ==
  MySlots <= IF Cardinality(MyConns) > Cardinality(MyThreads)
             THEN Cardinality(MyConns) ELSE Cardinality(MyThreads)

(* A connection is opened once and used by one thread, although NULL        *)
(* entries travel through the same list.                                   *)
MysqlConns == INSTANCE ConnectionPool WITH
  Conns <- MyConns, Users <- MyThreads, None <- NullEngine,
  opened <- myMade,
  pooled <- ToSet(myList) \ {NullEngine},
  taken  <- myEngine

KeepsMysqlConns == MysqlConns!PoolSpec
=============================================================================
