----------------------------- MODULE StockBasics -----------------------------
(***************************************************************************)
(* The snapshot of stock data of plugins/stockshare: StockshareEngine and   *)
(* StockBasicInfoMgr over the pools of SqlDbPool.  UpdateStockBasic queries *)
(* the table through pool 2 without a lock and swaps the answer in under    *)
(* the write lock; readers copy one element under the read lock.            *)
(***************************************************************************)
EXTENDS SqlDbPool

CONSTANTS
  BasicCodes,     \* codes of the table; rows without a code are passed over
  MaxVersion      \* bound: how often the table changes

ASSUME StockBasicsAssumption == MaxVersion \in Nat

VARIABLES
  basicTable,     \* the table: its version and the codes it has
  basicRows,      \* base_info of each thread's UpdateStockBasic
  basicSwap,      \* threads between the query and the swap
  stockbase,      \* stockbase_: the version of the row of each code
  basicEngine     \* instance_: "none", "starting", "ready"

basicVars == <<sqVars, basicTable, basicRows, basicSwap, stockbase, basicEngine>>

basicOnly == <<basicTable, basicRows, basicSwap, stockbase, basicEngine>>

Snapshots == UNION {[S -> 0 .. MaxVersion] : S \in SUBSET BasicCodes}

NoRows == [c \in {} |-> 0]

BasicInit ==
  /\ SqInit
  /\ basicTable = [version |-> 0, codes |-> BasicCodes]
  /\ basicRows = [t \in SqThreads |-> NoRows]
  /\ basicSwap = {}
  /\ stockbase = NoRows
  /\ basicEngine = "none"

(* GetInstance of the first thread: instance_ is set, then Init works.      *)
GetInstance ==
  /\ sqState = "new" /\ basicEngine = "none"
  /\ basicEngine' = "starting"
  /\ UNCHANGED <<sqVars, basicTable, basicRows, basicSwap, stockbase>>

(* StockshareEngine::Init: the pools, then the manager; the first update is *)
(* one like those of the timer.                                            *)
EngineInit ==
  /\ basicEngine = "starting"
  /\ InitPools
  /\ basicEngine' = "ready"
  /\ UNCHANGED <<basicTable, basicRows, basicSwap, stockbase>>

(* Another thread asks for a stock while the first is in Init: basic_info_  *)
(* is not set.                                                             *)
EarlyReader ==
  /\ basicEngine = "starting" /\ sqState = "new" /\ Cardinality(SqThreads) > 1
  /\ sqState' = "crashed"
  /\ UNCHANGED <<sqPools, sqMap, sqStage, sqId, sqEngine, sqDown, sqDrops, sqMade>>
  /\ UNCHANGED basicOnly

(* UpdateStockBasic up to its connection.                                   *)
UpdateStockBasic(t) ==
  /\ t \notin basicSwap
  /\ PopEngine(t, 2)
  /\ UNCHANGED basicOnly

(* The rows of an answer.  A call that fails has none.                      *)
RowsOf(table) == [c \in table.codes |-> table.version]

(* QueryStockBasics with its connection.                                    *)
QueryStockBasics(t) ==
  /\ UseEngine(t)
  /\ \E rows \in {NoRows} \cup (IF Works(t) THEN {RowsOf(basicTable)} ELSE {}) :
       basicRows' = [basicRows EXCEPT ![t] = rows]
  /\ UNCHANGED <<basicTable, basicSwap, stockbase, basicEngine>>

QueryReturns(t) ==
  /\ RecycleEngine(t)
  /\ basicSwap' = IF basicRows[t] = NoRows THEN basicSwap ELSE basicSwap \cup {t}
  /\ UNCHANGED <<basicTable, basicRows, stockbase, basicEngine>>

(* Variant: new rows replace old ones, a row that is gone stays.            *)
MergedRows(new) ==
  [c \in DOMAIN stockbase \cup DOMAIN new |->
     IF c \in DOMAIN new THEN new[c] ELSE stockbase[c]]

SwappedRows(new) == new

(* The end of UpdateStockBasic, under the write lock.                       *)
SwapStockBase(t) ==
  /\ t \in basicSwap
  /\ stockbase' = SwappedRows(basicRows[t])
  /\ basicRows' = [basicRows EXCEPT ![t] = NoRows]
  /\ basicSwap' = basicSwap \ {t}
  /\ UNCHANGED <<sqVars, basicTable, basicEngine>>

(* The table is changed by others.                                         *)
TableChanges ==
  /\ basicTable.version < MaxVersion
  /\ \E codes \in SUBSET BasicCodes :
       basicTable' = [version |-> basicTable.version + 1, codes |-> codes]
  /\ UNCHANGED <<sqVars, basicRows, basicSwap, stockbase, basicEngine>>

(* GetStockBasicInfo(code), as the quotation plugin calls it.               *)
HasStockBasic(code) == code \in DOMAIN stockbase

BasicNext ==
  \/ GetInstance \/ EngineInit \/ EarlyReader
  \/ \E t \in SqThreads :
       \/ UpdateStockBasic(t)
       \/ CheckEngine(t) /\ UNCHANGED basicOnly
       \/ QueryStockBasics(t) \/ QueryReturns(t) \/ SwapStockBase(t)
  \/ ReleasePools /\ UNCHANGED basicOnly
  \/ \E c \in SqConns : SqDrop(c) /\ UNCHANGED basicOnly
  \/ TableChanges

BasicSpec == BasicInit /\ [][BasicNext]_basicVars

-----------------------------------------------------------------------------
BasicTypeOK ==
  /\ SqTypeOK
  /\ basicTable \in [version : 0 .. MaxVersion, codes : SUBSET BasicCodes]
  /\ basicRows \in [SqThreads -> Snapshots]
  /\ basicSwap \subseteq SqThreads
  /\ stockbase \in Snapshots
  /\ basicEngine \in {"none", "starting", "ready"}

(* Readers between two swaps, also of two threads that update at once, find *)
(* the rows of one query: those of one version of the table, never some of  *)
(* one and some of another; and once there are rows there always are.       *)
SnapshotIsOneQuery ==
  [][/\ \A c, d \in DOMAIN stockbase' : stockbase'[c] = stockbase'[d]
     /\ DOMAIN stockbase # {} => DOMAIN stockbase' # {}]_basicVars
=============================================================================
