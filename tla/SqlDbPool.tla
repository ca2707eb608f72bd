------------------------------ MODULE SqlDbPool ------------------------------
(***************************************************************************)
(* MySqlConnPool, MySqlMultiPool and MultiPoolRaiiMySqlEngine of            *)
(* pub/sqldbpool, set up by DbMysql::Init from the configuration file: a    *)
(* map of numbered pools, each a list of connections under a mutex.  A      *)
(* thread holds at most one connection, by an object of its call:           *)
(*                                                                         *)
(*   constructor  GetEngine: pop with the mutex; then, without it, check    *)
(*                the connection and make it again                         *)
(*   destructor   RecycleEngine: push with the mutex                        *)
(*                                                                         *)
(* The mutex of the map is taken by InitPool and Release only.              *)
(***************************************************************************)
EXTENDS BaseConfig, FiniteSets

CONSTANTS
  SqThreads,     \* threads of the plugins
  SqConns,       \* connections the database can serve
  SqNull,        \* NULL
  ConfigFiles,   \* contents base_config.txt may have
  MaxSqDrops     \* bound: how often the server loses a connection

ASSUME SqlDbPoolAssumption ==
  IsFiniteSet(SqConns) /\ SqNull \notin SqConns /\ MaxSqDrops \in Nat

PoolIds == {1, 2}

PoolSection == <<<<"mysql1">>, <<"mysql2">>>>

VARIABLES
  sqPools,     \* map_mysql_pool_: the list of each pool; <<>> if not there
  sqMap,       \* ids in the map
  sqStage,     \* where each thread is with its object
  sqId,        \* pool_id_ of its object
  sqEngine,    \* engine_pt_ of its object
  sqDown,      \* connections that do not answer
  sqDrops,     \* how often the server lost one
  sqMade,      \* connections made so far
  sqState      \* "new", "open", "closed" or "crashed"

sqVars == <<sqPools, sqMap, sqStage, sqId, sqEngine, sqDown, sqDrops, sqMade, sqState>>

SqInit ==
  /\ sqPools = [p \in PoolIds |-> <<>>] /\ sqMap = {}
  /\ sqStage = [t \in SqThreads |-> "idle"]
  /\ sqId = [t \in SqThreads |-> 1]
  /\ sqEngine = [t \in SqThreads |-> SqNull]
  /\ sqDown = {} /\ sqDrops = 0 /\ sqMade = {}
  /\ sqState = "new"

SqAt(t, stage) == sqState = "open" /\ sqStage[t] = stage

SqGoto(t, stage) == sqStage' = [sqStage EXCEPT ![t] = stage]

-----------------------------------------------------------------------------
PoolSize(config, p) == ReadInt(GetParam(config, PoolSection[p], <<"pool_size">>))

(* A host that is not in the file is "a" or "0": nothing answers there.     *)
HostAnswers(config, p) ==
  GetParam(config, PoolSection[p], <<"host">>) \notin {<<"a">>, <<"0">>}

(* DbMysql::Init with InitPool of both pools.  MySqlConnPool::Init asserts  *)
(* that every connection is made; a pool of size 0 asks for none.           *)
InitPools ==
  /\ sqState = "new"
  /\ \E file \in ConfigFiles, opens \in BOOLEAN :
       LET config == LoadFile(opens, file) IN
       IF \E p \in PoolIds : PoolSize(config, p) > 0 /\ ~HostAnswers(config, p)
       THEN sqState' = "crashed" /\ UNCHANGED <<sqPools, sqMap, sqMade>>
       ELSE /\ \E lists \in [PoolIds -> SetToAllKPermutations(SqConns)] :
                 /\ \A p \in PoolIds : Len(lists[p]) = PoolSize(config, p)
                 /\ ToSet(lists[1]) \cap ToSet(lists[2]) = {}
                 /\ sqPools' = lists
                 /\ sqMade' = ToSet(lists[1]) \cup ToSet(lists[2])
            /\ sqMap' = PoolIds
            /\ sqState' = "open"
  /\ UNCHANGED <<sqStage, sqId, sqEngine, sqDown, sqDrops>>

(* Variant: the front is read and stays.                                    *)
FrontOnly(p) == UNCHANGED sqPools

PopsFront(p) == sqPools' = [sqPools EXCEPT ![p] = Tail(@)]

(* The constructor and PopEngine up to the unlock.  No pool of that number, *)
(* or none left in it: NULL.                                               *)
PopEngine(t, p) ==
  /\ SqAt(t, "idle")
  /\ sqId' = [sqId EXCEPT ![t] = p]
  /\ IF p \in sqMap /\ sqPools[p] # <<>>
     THEN /\ sqEngine' = [sqEngine EXCEPT ![t] = Head(sqPools[p])]
          /\ PopsFront(p)
          /\ SqGoto(t, "check")
     ELSE SqGoto(t, "use") /\ UNCHANGED <<sqEngine, sqPools>>
  /\ UNCHANGED <<sqMap, sqDown, sqDrops, sqMade, sqState>>

(* PopEngine after the unlock.  A connection that cannot be made again is   *)
(* handed out all the same.                                                *)
CheckEngine(t) ==
  /\ SqAt(t, "check")
  /\ sqDown' \in {sqDown, sqDown \ {sqEngine[t]}}
  /\ SqGoto(t, "use")
  /\ UNCHANGED <<sqPools, sqMap, sqId, sqEngine, sqDrops, sqMade, sqState>>

(* SQLExec through the engine; Works says whether it may have succeeded.    *)
UseEngine(t) ==
  /\ SqAt(t, "use")
  /\ SqGoto(t, "done")
  /\ UNCHANGED <<sqPools, sqMap, sqId, sqEngine, sqDown, sqDrops, sqMade, sqState>>

Works(t) == sqEngine[t] # SqNull /\ sqEngine[t] \notin sqDown

(* The destructor: RecycleEngine and PushEngine.  A connection whose pool   *)
(* is not in the map any more is not pushed.                               *)
RecycleEngine(t) ==
  /\ sqState \in {"open", "closed"} /\ sqStage[t] = "done"
  /\ sqPools' = IF sqEngine[t] # SqNull /\ sqId[t] \in sqMap
                THEN [sqPools EXCEPT ![sqId[t]] = Append(@, sqEngine[t])]
                ELSE sqPools
  /\ sqEngine' = [sqEngine EXCEPT ![t] = SqNull]
  /\ SqGoto(t, "idle")
  /\ UNCHANGED <<sqMap, sqId, sqDown, sqDrops, sqMade, sqState>>

(* DbMysql::Dest and MySqlMultiPool::Release: what is in the lists is       *)
(* closed.  Bound: no thread is inside a pool it deletes; one that holds a  *)
(* connection keeps it.                                                    *)
ReleasePools ==
  /\ sqState = "open"
  /\ \A t \in SqThreads : sqStage[t] \in {"idle", "done"}
  /\ sqPools' = [p \in PoolIds |-> <<>>] /\ sqMap' = {}
  /\ sqState' = "closed"
  /\ UNCHANGED <<sqStage, sqId, sqEngine, sqDown, sqDrops, sqMade>>

(* The server closes a connection.                                         *)
SqDrop(c) ==
  /\ sqState = "open" /\ sqDrops < MaxSqDrops
  /\ c \in sqMade \ sqDown
  /\ sqDown' = sqDown \cup {c} /\ sqDrops' = sqDrops + 1
  /\ UNCHANGED <<sqPools, sqMap, sqStage, sqId, sqEngine, sqMade, sqState>>

-----------------------------------------------------------------------------
SqTypeOK ==
  /\ \A p \in PoolIds : ToSet(sqPools[p]) \subseteq sqMade
  /\ sqMap \subseteq PoolIds /\ sqMade \subseteq SqConns /\ sqDown \subseteq sqMade
  /\ sqStage \in [SqThreads -> {"idle", "check", "use", "done"}]
  /\ sqId \in [SqThreads -> PoolIds]
  /\ sqEngine \in [SqThreads -> sqMade \cup {SqNull}]
  /\ sqDrops \in 0 .. MaxSqDrops
  /\ sqState \in {"new", "open", "closed", "crashed"}

(* The two pools together keep the promise of a pool of connections:        *)
(* PopEngine works on the connection after it has let go of the mutex, and  *)
(* a connection that could not be made again is pushed like any other.      *)
SqlConns2 == INSTANCE ConnectionPool WITH
  Conns <- SqConns, Users <- SqThreads, None <- SqNull,
  opened <- sqMade,
  pooled <- ToSet(sqPools[1]) \cup ToSet(sqPools[2]),
  taken  <- sqEngine

KeepsSqlPool == SqlConns2!PoolSpec
=============================================================================
