----------------------------- MODULE StockGroups -----------------------------
(***************************************************************************)
(* The stock groups of one user: StockGroup of pub/logic/stock_group and    *)
(* the methods of UserInfo over it.  A group is kept in memory and in two   *)
(* tables of the database, and every operation changes memory first.        *)
(*                                                                         *)
(* stock_list_ and stock_set_ of a group always hold the same codes (both   *)
(* are filled by the same loops, and DelStocks rebuilds the one from what   *)
(* it erased from the other), so `stocks' has one set for both.  Each       *)
(* method runs under the account's write lock and is one action; a crash    *)
(* between its memory and its database half leaves what Restart finds       *)
(* either way.                                                             *)
(*                                                                         *)
(* External: a row of group_stock is unique for its group and code, as the  *)
(* REPLACE of DelStocks needs; a statement of several rows has effect as a  *)
(* whole or not at all.                                                    *)
(***************************************************************************)
EXTENDS Naturals, FiniteSets

CONSTANTS
  GroupIds,        \* ids the database can still give to groups
  GroupNames,      \* names clients choose, DefaultName among them
  DefaultName,     \* "DEFAULT"
  Codes,           \* stock codes
  NoGroup,         \* no id
  MaxGroupErrors   \* bound: failing database calls of a behaviour

ASSUME StockGroupsAssumption ==
  /\ DefaultName \in GroupNames
  /\ NoGroup \notin GroupIds
  /\ IsFiniteSet(GroupIds)
  /\ MaxGroupErrors \in Nat

VARIABLES
  groupInfo,       \* table group_info: name and status of each id
  groupStock,      \* table group_stock: the state of each row, or "none"
  listed,          \* stock_group_list_, the ids of its elements
  stocks,          \* stock_list_ and stock_set_ of each group
  defaultGid,      \* default_gid_
  serving,         \* UserInfo::Init has succeeded
  added,           \* history: pairs a client was told are in, and not since
                   \* that they are out
  unstored,        \* history: those CreateGroup told of though their INSERT
                   \* had failed
  skipped,         \* history: a start has left out a group it could not read
  groupErrors      \* database calls that failed

groupsVars == <<groupInfo, groupStock, listed, stocks, defaultGid, serving,
                added, unstored, skipped, groupErrors>>

NoRow == [status |-> "none"]

GroupStatus == {"VALID", "DEFAULT"}

GroupRow == [name : GroupNames, status : GroupStatus]

RowState == {"none", "valid", "invalid"}

-----------------------------------------------------------------------------
Stored == {g \in GroupIds : groupInfo[g] # NoRow}

FreshGroups == GroupIds \ Stored

GroupError == groupErrors < MaxGroupErrors /\ groupErrors' = groupErrors + 1

NoGroupError == UNCHANGED groupErrors

(* Rows of a group, deleted ones included: GetGroupStockSql does not ask    *)
(* for the status.                                                         *)
StoredStocks(g) == {c \in Codes : groupStock[g][c] # "none"}

(* Replaces or inserts the rows of some codes.                              *)
SetRows(g, codes, state) ==
  groupStock' = [groupStock EXCEPT ![g] =
                   [c \in Codes |-> IF c \in codes THEN state ELSE @[c]]]

(* The INSERT of AddStocks: of no rows it is no statement, and it fails as  *)
(* a whole when one of the rows is there.                                  *)
Insertable(g, codes) == codes # {} /\ codes \cap StoredStocks(g) = {}

GroupsInit ==
  /\ groupInfo = [g \in GroupIds |-> NoRow]
  /\ groupStock = [g \in GroupIds |-> [c \in Codes |-> "none"]]
  /\ listed = {}
  /\ stocks = [g \in GroupIds |-> {}]
  /\ defaultGid = NoGroup
  /\ serving = FALSE
  /\ added = {}
  /\ unstored = {}
  /\ skipped = FALSE
  /\ groupErrors = 0

-----------------------------------------------------------------------------
(* UserInfo::CreateGroup.                                                  *)

(* Variant: names are not compared.                                         *)
AnyName(name) == TRUE

NewName(name) == \A g \in listed : groupInfo[g].name # name

(* proc_CreateStockGroup fails: MYSQL_ERROR.                                *)
CreateGroupFails(name) ==
  /\ serving /\ NewName(name)
  /\ GroupError
  /\ UNCHANGED <<groupInfo, groupStock, listed, stocks, defaultGid, serving,
                 added, unstored, skipped>>

(* The group enters the list with all its codes, whatever became of their   *)
(* INSERT: its result is not looked at, and the client is told SUCCESS and  *)
(* the codes.                                                              *)
CreateGroup(name, codes) ==
  /\ serving /\ NewName(name)
  /\ \E g \in FreshGroups :
       /\ groupInfo' = [groupInfo EXCEPT ![g] = [name |-> name, status |-> "VALID"]]
       /\ listed' = listed \cup {g}
       /\ stocks' = [stocks EXCEPT ![g] = codes]
       /\ added' = added \cup ({g} \X codes)
       /\ \/ /\ Insertable(g, codes)
             /\ SetRows(g, codes, "valid")
             /\ NoGroupError
             /\ UNCHANGED unstored
          \/ /\ IF Insertable(g, codes) THEN GroupError ELSE NoGroupError
             /\ unstored' = unstored \cup ({g} \X codes)
             /\ UNCHANGED groupStock
  /\ UNCHANGED <<defaultGid, serving, skipped>>

-----------------------------------------------------------------------------
(* Request id 0 stands for the default group.                               *)
Target(id) == IF id = NoGroup THEN defaultGid ELSE id

(* Variant: the failing INSERT is logged only.                              *)
AddedWhatever(g, new, ok) == added' = added \cup ({g} \X new)

(* AddStocks leaves in `stocks' of the caller what was new; UserInfo        *)
(* reports it with SUCCESS or MYSQL_ERROR.                                  *)
Report(g, new, ok) == added' = IF ok THEN added \cup ({g} \X new) ELSE added

(* UserInfo::AddStock with StockGroup::AddStocks.  GROUP_NOT_EXIST changes  *)
(* nothing.                                                                *)
AddStock(id, codes) ==
  LET g   == Target(id)
      new == codes \ stocks[g]
  IN
  /\ serving /\ g \in listed
  /\ stocks' = [stocks EXCEPT ![g] = @ \cup new]
  /\ \/ /\ Insertable(g, new)
        /\ SetRows(g, new, "valid")
        /\ Report(g, new, TRUE)
        /\ NoGroupError
     \/ /\ IF Insertable(g, new) THEN GroupError ELSE NoGroupError
        /\ Report(g, new, FALSE)
        /\ UNCHANGED groupStock
  /\ UNCHANGED <<groupInfo, listed, defaultGid, serving, unstored, skipped>>

(* UserInfo::DelStock with StockGroup::DelStocks: the rows are replaced by  *)
(* INVALID ones; a failure is only logged, and an empty REPLACE is one.     *)
DelStock(id, codes) ==
  LET g    == Target(id)
      gone == codes \cap stocks[g]
  IN
  /\ serving /\ g \in listed
  /\ stocks' = [stocks EXCEPT ![g] = @ \ gone]
  /\ added' = added \ ({g} \X gone)
  /\ \/ /\ gone # {}
        /\ SetRows(g, gone, "invalid")
        /\ NoGroupError
     \/ /\ IF gone # {} THEN GroupError ELSE NoGroupError
        /\ UNCHANGED groupStock
  /\ UNCHANGED <<groupInfo, listed, defaultGid, serving, unstored, skipped>>

-----------------------------------------------------------------------------
(* The process starts again, at any time: UserInfo::InitStockGroup.         *)

(* StockGroup::InitStockList.                                              *)
InitStockList(g) == StoredStocks(g)

Load(groups) ==
  stocks' = [g \in GroupIds |-> IF g \in groups THEN InitStockList(g) ELSE {}]

(* A group whose stocks cannot be read is left out, and so is its name.     *)
Skip(lost) ==
  /\ groupErrors + Cardinality(lost) <= MaxGroupErrors
  /\ skipped' = (skipped \/ lost # {})

(* Variant: the default id is taken before the stocks are read.             *)
DefaultRows(groups) == {g \in Stored : groupInfo[g].status = "DEFAULT"}

Defaults(groups) == {g \in groups : groupInfo[g].status = "DEFAULT"}

(* One of the groups read is the default one; of several the last.          *)
Restart ==
  \E lost \in SUBSET Stored :
    LET kept == Stored \ lost IN
    /\ Defaults(kept) # {}
    /\ Skip(lost)
    /\ groupErrors' = groupErrors + Cardinality(lost)
    /\ Load(kept)
    /\ listed' = kept
    /\ defaultGid' \in Defaults(kept)
    /\ serving' = TRUE
    /\ UNCHANGED <<groupInfo, groupStock, added, unstored>>

(* None is: the default group is created.  Bound: an id is left for it.     *)
RestartWithNewDefault ==
  \E lost \in SUBSET Stored, new \in FreshGroups :
    LET kept == Stored \ lost IN
    /\ Defaults(kept) = {}
    /\ Skip(lost)
    /\ groupErrors' = groupErrors + Cardinality(lost)
    /\ groupInfo' = [groupInfo EXCEPT ![new] =
                       [name |-> DefaultName, status |-> "DEFAULT"]]
    /\ Load(kept)
    /\ listed' = kept \cup {new}
    /\ defaultGid' = new
    /\ serving' = TRUE
    /\ UNCHANGED <<groupStock, added, unstored>>

(* Init gives up: the groups cannot be read, or none of those read is the   *)
(* default one and none can be created.                                    *)
RestartFails ==
  /\ GroupError
  /\ listed' = {} /\ stocks' = [g \in GroupIds |-> {}]
  /\ defaultGid' = NoGroup
  /\ serving' = FALSE
  /\ UNCHANGED <<groupInfo, groupStock, added, unstored, skipped>>

-----------------------------------------------------------------------------
GroupsNext ==
  \/ \E name \in GroupNames :
       \/ CreateGroupFails(name)
       \/ \E codes \in SUBSET Codes : CreateGroup(name, codes)
  \/ \E id \in GroupIds \cup {NoGroup}, codes \in SUBSET Codes :
       AddStock(id, codes) \/ DelStock(id, codes)
  \/ Restart
  \/ RestartWithNewDefault
  \/ RestartFails

GroupsSpec == GroupsInit /\ [][GroupsNext]_groupsVars

-----------------------------------------------------------------------------
(* Types; a user who is served has a default group in the list, which       *)
(* request id 0 and SubmitOrder rely on.                                   *)
GroupsTypeOK ==
  /\ groupInfo \in [GroupIds -> GroupRow \cup {NoRow}]
  /\ groupStock \in [GroupIds -> [Codes -> RowState]]
  /\ listed \subseteq Stored
  /\ stocks \in [GroupIds -> SUBSET Codes]
  /\ IF serving THEN defaultGid \in listed ELSE defaultGid = NoGroup /\ listed = {}
  /\ added \subseteq GroupIds \X Codes /\ unstored \subseteq GroupIds \X Codes
  /\ serving \in BOOLEAN /\ skipped \in BOOLEAN
  /\ groupErrors \in 0 .. MaxGroupErrors

(* What a client was told is in a group, by CreateGroup or AddStock, is in  *)
(* it for as long as the group is served, through failing calls and         *)
(* restarts: AddStocks changes memory before the database, and a restart    *)
(* knows only the database.  The one exception is what CreateGroup reports  *)
(* with SUCCESS although AddStocks failed, as long as it has no row.        *)
AddedStocksSurvive ==
  \A pair \in added :
    pair[1] \in listed =>
      \/ pair[2] \in stocks[pair[1]]
      \/ pair \in unstored /\ groupStock[pair[1]][pair[2]] = "none"

(* CreateGroup compares a new name only with the groups in memory: two      *)
(* groups of one name need a start that left a group out.                   *)
GroupNamesDiffer ==
  skipped \/ \A g, h \in listed : g # h => groupInfo[g].name # groupInfo[h].name
=============================================================================
