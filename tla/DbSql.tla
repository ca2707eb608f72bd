-------------------------------- MODULE DbSql --------------------------------
(***************************************************************************)
(* DbSql of pub/db/db_comm: an object holds a connection of the shared pool *)
(* from its constructor to its destructor, and each query first lets        *)
(* GetEntine look whether the connection is still there.  A thread has at   *)
(* most one object.                                                        *)
(*                                                                         *)
(* The queries come in four kinds, by what they do with the connection:     *)
(*   counting     engine_ = GetEntine(), checked; the count is a local      *)
(*   listing      the same, the count goes to record_num_ for NextRecord    *)
(*   trusting     engine_ = GetEntine(), used without a check               *)
(*   borrowing    a local engine, used without a check; engine_ stays       *)
(* Names, rows and the text of the statements are left out; the pool, of    *)
(* base_db, is external.                                                   *)
(***************************************************************************)
EXTENDS Naturals, FiniteSets

CONSTANTS
  SqlThreads,    \* threads that use the database
  SqlConns,      \* connections of the configuration
  NoEngine,      \* NULL
  MaxRows,       \* bound: rows of an answer
  MaxDbDrops     \* bound: how often the server loses a connection

ASSUME DbSqlAssumption ==
  NoEngine \notin SqlConns /\ MaxRows \in Nat /\ MaxDbDrops \in Nat

VARIABLES
  dbList,      \* connections in the pool
  dbObject,    \* engine_, error_info_, record_num_ of each thread's object
  dbDown,      \* connections the server has lost
  dbDrops,     \* how often it lost one
  dbMade,      \* connections opened by Init
  dbState      \* "new", "open", "closed", or "crashed" by a NULL engine

dbVars == <<dbList, dbObject, dbDown, dbDrops, dbMade, dbState>>

DbErrorInfo == {"none", "CONNECT_ERROR", "SQL_EXEC_ERROR",
                "SQL_NUM_MORE_THAN_ONE", "SQL_NO_USER"}

DbObject == [live : BOOLEAN, engine : SqlConns \cup {NoEngine},
             error : DbErrorInfo, records : 0 .. MaxRows]

NoDbObject == [live |-> FALSE, engine |-> NoEngine, error |-> "none", records |-> 0]

DbInit ==
  /\ dbList = {} /\ dbDown = {} /\ dbMade = {}
  /\ dbObject = [t \in SqlThreads |-> NoDbObject]
  /\ dbDrops = 0
  /\ dbState = "new"

-----------------------------------------------------------------------------
(* DbSql::Init and DbSql::Dest.                                            *)
DbOpen ==
  /\ dbState = "new"
  /\ dbState' = "open" /\ dbList' = SqlConns /\ dbMade' = SqlConns
  /\ UNCHANGED <<dbObject, dbDown, dbDrops>>

DbDest ==
  /\ dbState = "open"
  /\ dbState' = "closed" /\ dbList' = {}
  /\ UNCHANGED <<dbObject, dbDown, dbDrops, dbMade>>

(* Variant: a connection is shared by the objects that ask for it.          *)
SharedConn(c) == dbList

TakenConn(c) == dbList \ {c}

(* DbSql::DbSql.                                                           *)
NewDbSql(t) ==
  /\ dbState = "open" /\ ~dbObject[t].live
  /\ IF dbList = {}
     THEN /\ dbObject' = [dbObject EXCEPT ![t].live = TRUE]
          /\ UNCHANGED dbList
     ELSE \E c \in dbList :
          /\ dbObject' = [dbObject EXCEPT ![t].live = TRUE, ![t].engine = c]
          /\ dbList' = TakenConn(c)
  /\ UNCHANGED <<dbDown, dbDrops, dbMade, dbState>>

(* DbSql::~DbSql.                                                          *)
DeleteDbSql(t) ==
  /\ dbState = "open" /\ dbObject[t].live
  /\ dbList' = dbList \cup ({dbObject[t].engine} \ {NoEngine})
  /\ dbObject' = [dbObject EXCEPT ![t] = NoDbObject]
  /\ UNCHANGED <<dbDown, dbDrops, dbMade, dbState>>

-----------------------------------------------------------------------------
(* Variant: the connection is given up although it was made again.          *)
Hasty(e) == {[engine |-> NoEngine, error |-> "none", down |-> dbDown \ {e}]}

(* One of five attempts succeeds, or none does.                             *)
Reconnect(e) ==
  {[engine |-> e, error |-> "none", down |-> dbDown \ {e}],
   [engine |-> NoEngine, error |-> "CONNECT_ERROR", down |-> dbDown]}

(* What GetEntine may return to the object of a thread.                     *)
GetEntine(t) ==
  LET e == dbObject[t].engine IN
  IF e \in dbDown THEN Reconnect(e)
  ELSE {[engine |-> e, error |-> "none", down |-> dbDown]}

DbUnchanged == UNCHANGED <<dbList, dbDrops, dbMade>>

(* SQLExec and RecordCount through engine e: failed, or a number of rows.   *)
Answers == [ok : {FALSE}, rows : {0}] \cup [ok : {TRUE}, rows : 0 .. MaxRows]

Crash == dbState' = "crashed" /\ UNCHANGED dbObject

Leave(t, object) ==
  dbObject' = [dbObject EXCEPT ![t] = object] /\ UNCHANGED dbState

(* The counting and listing queries.  Keeps tells them apart; OnFailure is  *)
(* "crash" where NULL or an error makes a string of the number 0.           *)
Checked(t, keeps, onFailure) ==
  /\ dbState = "open" /\ dbObject[t].live
  /\ \E g \in GetEntine(t), a \in Answers :
       /\ dbDown' = g.down
       /\ LET object == [dbObject[t] EXCEPT !.engine = g.engine, !.error = g.error] IN
          IF (g.engine = NoEngine \/ ~a.ok) /\ onFailure = "crash" THEN Crash
          ELSE IF g.engine = NoEngine THEN Leave(t, object)
          ELSE IF ~a.ok THEN Leave(t, [object EXCEPT !.error = "SQL_EXEC_ERROR"])
          ELSE Leave(t, IF keeps THEN [object EXCEPT !.records = a.rows] ELSE object)
  /\ DbUnchanged

GetHyGnSubscribeNum(t) == Checked(t, FALSE, "return")
GetCodeSubscribeNum(t) == Checked(t, FALSE, "return")
HyGnIfSubscribe(t)     == Checked(t, FALSE, "return")
CodeIfSubscribe(t)     == Checked(t, FALSE, "return")
GetHyGnCode(t)         == Checked(t, FALSE, "crash")
GetAllNameCode(t)      == Checked(t, TRUE, "return")
GetEvent(t)            == Checked(t, TRUE, "return")
GetHy(t)               == Checked(t, TRUE, "return")
GetGn(t)               == Checked(t, TRUE, "return")

UserCount(rows) ==
  IF rows > 1 THEN "SQL_NUM_MORE_THAN_ONE"
  ELSE IF rows = 0 THEN "SQL_NO_USER" ELSE "none"

(* The trusting queries; CheckUseridIfInSql counts with a local that hides  *)
(* the member.                                                             *)
Trusting(t, keeps) ==
  /\ dbState = "open" /\ dbObject[t].live
  /\ \E g \in GetEntine(t), a \in Answers :
       /\ dbDown' = g.down
       /\ LET object == [dbObject[t] EXCEPT !.engine = g.engine, !.error = "none"] IN
          IF g.engine = NoEngine THEN Crash
          ELSE IF ~a.ok THEN Leave(t, [object EXCEPT !.error = "SQL_EXEC_ERROR"])
          ELSE Leave(t, IF keeps THEN [object EXCEPT !.records = a.rows,
                                                     !.error = UserCount(a.rows)]
                        ELSE object)
  /\ DbUnchanged

GetUserInfo(t)        == Trusting(t, TRUE)
SetUserIfo(t)         == Trusting(t, TRUE)
CheckUseridIfInSql(t) == Trusting(t, FALSE)

(* The borrowing queries: after a failed statement they still ask for the   *)
(* number of rows, 0 then.                                                 *)
Borrowing(t) ==
  /\ dbState = "open" /\ dbObject[t].live
  /\ \E g \in GetEntine(t), ok \in BOOLEAN :
       /\ dbDown' = g.down
       /\ IF g.engine = NoEngine THEN Crash
          ELSE Leave(t, [dbObject[t] EXCEPT
                           !.error = IF ok THEN "none" ELSE "SQL_EXEC_ERROR"])
  /\ DbUnchanged

GetPlatformName(t) == Borrowing(t)
GetUserNameInfo(t) == Borrowing(t)

(* NextRecord: record_num_ may be that of an older query.                   *)
NextRecord(t) ==
  /\ dbState = "open" /\ dbObject[t].live
  /\ dbObject[t].records > 0
  /\ IF dbObject[t].engine = NoEngine THEN Crash
     ELSE Leave(t, [dbObject[t] EXCEPT !.records = @ - 1])
  /\ UNCHANGED dbDown
  /\ DbUnchanged

(* get_record_num asks engine_, which an earlier query may have set to NULL. *)
get_record_num(t) ==
  /\ dbState = "open" /\ dbObject[t].live
  /\ IF dbObject[t].engine = NoEngine THEN Crash ELSE Leave(t, dbObject[t])
  /\ UNCHANGED dbDown
  /\ DbUnchanged

(* The server closes a connection.                                         *)
DbDrop(c) ==
  /\ dbState = "open" /\ dbDrops < MaxDbDrops
  /\ c \in dbMade \ dbDown
  /\ dbDown' = dbDown \cup {c} /\ dbDrops' = dbDrops + 1
  /\ UNCHANGED <<dbList, dbObject, dbMade, dbState>>

DbQuery(t) ==
  \/ GetHyGnSubscribeNum(t) \/ GetCodeSubscribeNum(t)
  \/ HyGnIfSubscribe(t) \/ CodeIfSubscribe(t)
  \/ GetHyGnCode(t)
  \/ GetAllNameCode(t) \/ GetEvent(t) \/ GetHy(t) \/ GetGn(t)
  \/ GetUserInfo(t) \/ SetUserIfo(t) \/ CheckUseridIfInSql(t)
  \/ GetPlatformName(t) \/ GetUserNameInfo(t)
  \/ NextRecord(t) \/ get_record_num(t)

DbNext ==
  \/ DbOpen
  \/ \E t \in SqlThreads : NewDbSql(t) \/ DbQuery(t) \/ DeleteDbSql(t)
  \/ \E c \in SqlConns : DbDrop(c)
  \/ DbDest

DbSpec == DbInit /\ [][DbNext]_dbVars

-----------------------------------------------------------------------------
DbTypeOK ==
  /\ dbList \subseteq dbMade /\ dbDown \subseteq dbMade
  /\ dbMade \in {{}, SqlConns}
  /\ dbObject \in [SqlThreads -> DbObject]
  /\ dbDrops \in 0 .. MaxDbDrops
  /\ dbState \in {"new", "open", "closed", "crashed"}

(* GetEntine's NULL overwrites engine_, and the destructor pushes what is   *)
(* in engine_: a connection may leave pool and objects for good, but only   *)
(* one that the server has lost and five attempts did not bring back.       *)
OnlyUnreachableForgotten ==
  dbState = "open" =>
    \A c \in dbMade \ dbDown :
      c \in dbList \/ \E t \in SqlThreads : dbObject[t].engine = c

(* A connection serves one object at a time and is never made twice.        *)
DbConns == INSTANCE ConnectionPool WITH
  Conns <- SqlConns, Users <- SqlThreads, None <- NoEngine,
  opened <- dbMade, pooled <- dbList,
  taken  <- [t \in SqlThreads |-> dbObject[t].engine]

KeepsDbPool == DbConns!PoolSpec
=============================================================================
