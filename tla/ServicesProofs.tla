--------------------------- MODULE ServicesProofs ---------------------------
(***************************************************************************)
(* Proofs about components that share no state: RefCount, StockGroups,      *)
(* LogTrace, RealInfo and TradeCalendar.                                    *)
(***************************************************************************)
EXTENDS RefCount, StockGroups, LogTrace, RealInfo, TradeCalendar,
        StockPositionProofs, FiniteSetTheorems, SequenceTheorems, TLAPS

USE RefCountAssumption, StockGroupsAssumption, LogTraceAssumption

(* The counter is the number of handles, whoever counts.                    *)
Counted == \A d \in Datas : refcount[d] = Cardinality(HandlesOf(d))

HeldAlive == \A d \in Datas : HandlesOf(d) # {} => d \in alive

(* A Data whose last handle is gone is still looked at by a thread.         *)
Watched ==
  \A d \in alive : HandlesOf(d) = {} => \E t \in RcThreads : rcStage[t].test = d

(* An assignment that has released the old Data finds both its handles as   *)
(* it left them.                                                           *)
Assigning ==
  \A t \in RcThreads :
    LET s == rcStage[t] IN
    s # Resting /\ s.from # s.to =>
      /\ Owner[s.from] = t /\ Owner[s.to] = t
      /\ dataOf[s.from] # NoData /\ dataOf[s.to] = NoData

StageType == {Resting} \cup [test : Datas, to : Handles, from : Handles]

RcTypes ==
  /\ dataOf \in [Handles -> Datas \cup {NoData}]
  /\ refcount \in [Datas -> Nat]
  /\ alive \subseteq made /\ made \subseteq Datas
  /\ rcStage \in [RcThreads -> StageType]
  /\ doubleFree \in BOOLEAN

RcInv == RcTypes /\ Counted /\ HeldAlive /\ Watched /\ Assigning

-----------------------------------------------------------------------------
LEMMA HandlesFinite ==
  ASSUME NEW d
  PROVE  /\ IsFiniteSet(HandlesOf(d)) /\ Cardinality(HandlesOf(d)) \in Nat
         /\ Cardinality(HandlesOf(d)) <= Cardinality(Handles)
         /\ Cardinality(HandlesOf(d)) = 0 <=> HandlesOf(d) = {}
<1>1. HandlesOf(d) \subseteq Handles BY DEF HandlesOf
<1>2. IsFiniteSet(HandlesOf(d)) /\ Cardinality(HandlesOf(d)) <= Cardinality(Handles)
  BY <1>1, FS_Subset
<1> QED BY <1>2, FS_CardinalityType, FS_EmptySet

(* A handle comes to share a Data: the copy constructor, a construction, or *)
(* the second half of an assignment.                                       *)
LEMMA HandleTakes ==
  ASSUME RcTypes, NEW h \in Handles, dataOf[h] = NoData, NEW d \in Datas,
         dataOf' = [dataOf EXCEPT ![h] = d]
  PROVE  /\ HandlesOf(d)' # {}
         /\ Cardinality(HandlesOf(d)') = Cardinality(HandlesOf(d)) + 1
         /\ \A e \in Datas \ {d} : HandlesOf(e)' = HandlesOf(e)
<1>1. dataOf \in [Handles -> Datas \cup {NoData}] BY DEF RcTypes
<1>2. HandlesOf(d)' = HandlesOf(d) \cup {h} /\ h \notin HandlesOf(d)
  BY <1>1 DEF HandlesOf
<1>3. \A e \in Datas \ {d} : HandlesOf(e)' = HandlesOf(e) BY <1>1 DEF HandlesOf
<1>4. Cardinality(HandlesOf(d) \cup {h}) = Cardinality(HandlesOf(d)) + 1
  BY <1>2, HandlesFinite, FS_AddElement
<1> QED BY <1>2, <1>3, <1>4

LEMMA HandleLeaves ==
  ASSUME RcTypes, NEW h \in Handles, NEW d \in Datas, dataOf[h] = d,
         dataOf' = [dataOf EXCEPT ![h] = NoData]
  PROVE  /\ HandlesOf(d) # {} /\ HandlesOf(d)' \subseteq HandlesOf(d)
         /\ Cardinality(HandlesOf(d)') = Cardinality(HandlesOf(d)) - 1
         /\ \A e \in Datas \ {d} : HandlesOf(e)' = HandlesOf(e)
<1>1. dataOf \in [Handles -> Datas \cup {NoData}] BY DEF RcTypes
<1>2. HandlesOf(d)' = HandlesOf(d) \ {h} /\ h \in HandlesOf(d)
  BY <1>1 DEF HandlesOf
<1>3. \A e \in Datas \ {d} : HandlesOf(e)' = HandlesOf(e) BY <1>1 DEF HandlesOf
<1>4. Cardinality(HandlesOf(d) \ {h}) = Cardinality(HandlesOf(d)) - 1
  BY <1>2, HandlesFinite, FS_RemoveElement
<1> QED BY <1>2, <1>3, <1>4

-----------------------------------------------------------------------------
LEMMA InitInv == RcInit => RcInv
<1> SUFFICES ASSUME RcInit PROVE RcInv OBVIOUS
<1>1. \A d \in Datas : HandlesOf(d) = {} BY DEF RcInit, HandlesOf
<1>2. RcTypes BY DEF RcInit, RcTypes, StageType
<1>3. Counted BY <1>1, FS_EmptySet DEF RcInit, Counted
<1> QED BY <1>1, <1>2, <1>3 DEF RcInit, RcInv, HeldAlive, Watched, Assigning

LEMMA ConstructInv ==
  ASSUME RcInv, NEW h \in Handles, NEW d \in Datas, Construct(h, d)
  PROVE  RcInv'
<1>1. /\ RcTypes /\ dataOf[h] = NoData /\ dataOf' = [dataOf EXCEPT ![h] = d]
      /\ d \notin alive /\ refcount' = [refcount EXCEPT ![d] = 1]
      /\ alive' = alive \cup {d} /\ rcStage' = rcStage
  BY DEF Construct, RcInv, RcTypes
<1>2. /\ HandlesOf(d)' # {}
      /\ Cardinality(HandlesOf(d)') = Cardinality(HandlesOf(d)) + 1
      /\ \A e \in Datas \ {d} : HandlesOf(e)' = HandlesOf(e)
  BY <1>1, HandleTakes
<1>3. Cardinality(HandlesOf(d)) = 0
  BY <1>1, HandlesFinite DEF RcInv, HeldAlive
<1>4. RcTypes' BY DEF Construct, RcInv, RcTypes
<1>5. Counted' BY <1>1, <1>2, <1>3 DEF RcInv, RcTypes, Counted
<1>6. HeldAlive' BY <1>1, <1>2 DEF RcInv, HeldAlive
<1>7. Watched' BY <1>1, <1>2 DEF RcInv, RcTypes, Watched
<1>8. Assigning'
  BY <1>1 DEF RcInv, RcTypes, StageType, Assigning, Construct, MayAct
<1> QED BY <1>4, <1>5, <1>6, <1>7, <1>8 DEF RcInv

LEMMA CopyInv ==
  ASSUME RcInv, NEW h \in Handles, NEW other \in Handles, Copy(h, other)
  PROVE  RcInv'
<1>d. PICK d \in Datas : dataOf[other] = d BY DEF Copy, RcInv, RcTypes
<1>1. /\ RcTypes /\ dataOf[h] = NoData /\ dataOf' = [dataOf EXCEPT ![h] = d]
      /\ refcount' = [refcount EXCEPT ![d] = @ + 1]
      /\ UNCHANGED <<alive, made, rcStage, doubleFree>>
  BY <1>d DEF Copy, AddRef, RcInv
<1>2. other \in HandlesOf(d) BY <1>d DEF HandlesOf
<1>3. /\ HandlesOf(d)' # {}
      /\ Cardinality(HandlesOf(d)') = Cardinality(HandlesOf(d)) + 1
      /\ \A e \in Datas \ {d} : HandlesOf(e)' = HandlesOf(e)
  BY <1>1, HandleTakes
<1>4. RcTypes' BY <1>1 DEF RcTypes
<1>5. Counted' BY <1>1, <1>3 DEF RcInv, RcTypes, Counted
<1>6. HeldAlive' BY <1>1, <1>2, <1>3 DEF RcInv, HeldAlive
<1>7. Watched' BY <1>1, <1>3 DEF RcInv, RcTypes, Watched
<1>8. Assigning'
  BY <1>1 DEF RcInv, RcTypes, StageType, Assigning, Copy, MayAct
<1> QED BY <1>4, <1>5, <1>6, <1>7, <1>8 DEF RcInv

(* The first half of Release, on the way to a destructor or an assignment.  *)
LEMMA CountsDownInv ==
  ASSUME RcInv, NEW h \in Handles, NEW from \in Handles,
         MayAct(h), dataOf[h] # NoData, CountsDown(h),
         rcStage' = [rcStage EXCEPT ![Owner[h]] = Testing(dataOf[h], h, from)],
         from # h => Owner[from] = Owner[h] /\ dataOf[from] # NoData,
         UNCHANGED <<alive, made, doubleFree>>
  PROVE  RcInv'
<1> DEFINE t == Owner[h]
<1>d. PICK d \in Datas : dataOf[h] = d BY DEF RcInv, RcTypes
<1>1. /\ RcTypes /\ dataOf' = [dataOf EXCEPT ![h] = NoData]
      /\ refcount' = [refcount EXCEPT ![d] = IF @ = 0 THEN 0 ELSE @ - 1]
  BY <1>d DEF CountsDown, RcInv
<1>2. /\ HandlesOf(d) # {} /\ HandlesOf(d)' \subseteq HandlesOf(d)
      /\ Cardinality(HandlesOf(d)') = Cardinality(HandlesOf(d)) - 1
      /\ \A e \in Datas \ {d} : HandlesOf(e)' = HandlesOf(e)
  BY <1>1, <1>d, HandleLeaves
<1>3. t \in RcThreads /\ rcStage[t] = Resting BY DEF MayAct
<1>4. Testing(d, h, from) \in StageType /\ Testing(d, h, from).test = d
      /\ Testing(d, h, from).to = h /\ Testing(d, h, from).from = from
  BY DEF Testing, StageType
<1>5. Assigning'
  <2> SUFFICES ASSUME NEW u \in RcThreads, rcStage'[u] # Resting,
                      rcStage'[u].from # rcStage'[u].to
               PROVE  /\ Owner[rcStage'[u].from] = u /\ Owner[rcStage'[u].to] = u
                      /\ dataOf'[rcStage'[u].from] # NoData
                      /\ dataOf'[rcStage'[u].to] = NoData
    BY DEF Assigning
  <2>1. CASE u = t BY <1>1, <1>d, <1>3, <1>4, <2>1 DEF RcTypes
  <2>2. CASE u # t
    <3>1. rcStage'[u] = rcStage[u] BY <1>1, <2>2 DEF RcTypes
    <3>2. rcStage[u].from \in Handles /\ rcStage[u].to \in Handles
      BY <1>1, <3>1 DEF RcTypes, StageType
    <3>3. /\ Owner[rcStage[u].from] = u /\ Owner[rcStage[u].to] = u
          /\ dataOf[rcStage[u].from] # NoData /\ dataOf[rcStage[u].to] = NoData
      BY <3>1 DEF RcInv, Assigning
    <3> QED BY <1>1, <2>2, <3>1, <3>2, <3>3 DEF RcTypes
  <2> QED BY <2>1, <2>2
<1> HIDE DEF t
<1>6. rcStage' = [rcStage EXCEPT ![t] = Testing(d, h, from)] BY <1>d DEF t
<1>7. RcTypes' BY <1>1, <1>3, <1>4, <1>6 DEF RcTypes
<1>8. Counted'
  <2>1. refcount[d] = Cardinality(HandlesOf(d)) BY <1>2 DEF RcInv, Counted
  <2>2. refcount[d] # 0 BY <1>2, <2>1, HandlesFinite
  <2>3. refcount'[d] = Cardinality(HandlesOf(d)')
    BY <1>1, <1>2, <2>1, <2>2 DEF RcTypes
  <2>4. ASSUME NEW e \in Datas \ {d} PROVE refcount'[e] = Cardinality(HandlesOf(e)')
    BY <1>1, <1>2 DEF RcInv, RcTypes, Counted
  <2> QED BY <2>3, <2>4 DEF Counted
<1>9. HeldAlive'
  <2> SUFFICES ASSUME NEW e \in Datas, HandlesOf(e)' # {} PROVE e \in alive
    BY DEF HeldAlive
  <2>1. HandlesOf(e) # {} BY <1>2
  <2> QED BY <2>1 DEF RcInv, HeldAlive
<1>10. Watched'
  <2> SUFFICES ASSUME NEW e \in alive, HandlesOf(e)' = {}
               PROVE  \E u \in RcThreads : rcStage'[u].test = e
    BY DEF Watched
  <2>1. CASE e = d BY <1>1, <1>3, <1>4, <1>6, <2>1 DEF RcTypes
  <2>2. CASE e # d
    <3>1. e \in Datas BY <1>1 DEF RcTypes
    <3>2. PICK u \in RcThreads : rcStage[u].test = e
      BY <1>2, <2>2, <3>1 DEF RcInv, Watched
    <3>3. u # t BY <1>3, <3>1, <3>2 DEF Resting
    <3> QED BY <1>1, <1>6, <3>2, <3>3 DEF RcTypes
  <2> QED BY <2>1, <2>2
<1> QED BY <1>5, <1>7, <1>8, <1>9, <1>10 DEF RcInv

LEMMA TestCountInv ==
  ASSUME RcInv, NEW t \in RcThreads, TestCount(t)
  PROVE  RcInv'
<1> DEFINE s == rcStage[t]
           d == s.test
<1>1. /\ RcTypes /\ d \in Datas /\ s.to \in Handles /\ s.from \in Handles
      /\ rcStage' = [rcStage EXCEPT ![t] = Resting] /\ made' = made
  BY DEF TestCount, RcInv, RcTypes, StageType
<1>2. alive' \in {alive, alive \ {d}} /\ doubleFree' \in BOOLEAN
  BY DEF TestCount, RcInv, RcTypes
<1>3. d \in alive' => HandlesOf(d) # {}
  <2>1. CASE d \in alive
    <3>1. alive' = IF refcount[d] = 0 THEN alive \ {d} ELSE alive
      BY <2>1 DEF TestCount
    <3> QED BY <1>1, <3>1, HandlesFinite DEF RcInv, Counted
  <2>2. CASE d \notin alive BY <1>2, <2>2
  <2> QED BY <2>1, <2>2
<1>4. \A e \in Datas : HandlesOf(e) # {} => e \in alive'
  <2>1. CASE alive' = alive BY <2>1 DEF RcInv, HeldAlive
  <2>2. CASE alive' # alive
    <3>1. d \in alive /\ refcount[d] = 0 BY <2>2 DEF TestCount
    <3>2. HandlesOf(d) = {} BY <1>1, <3>1, HandlesFinite DEF RcInv, Counted
    <3> QED BY <1>2, <3>2 DEF RcInv, HeldAlive
  <2> QED BY <2>1, <2>2
<1>5. \A e \in alive' : HandlesOf(e) = {} => \E u \in RcThreads : rcStage'[u].test = e
  <2> SUFFICES ASSUME NEW e \in alive', HandlesOf(e) = {}
               PROVE  \E u \in RcThreads : rcStage'[u].test = e
    OBVIOUS
  <2>1. PICK u \in RcThreads : rcStage[u].test = e BY <1>2 DEF RcInv, Watched
  <2>2. u # t BY <1>3, <2>1
  <2> QED BY <1>1, <2>1, <2>2 DEF RcTypes
<1>6. CASE s.from = s.to
  <2>1. dataOf' = dataOf /\ refcount' = refcount BY <1>6 DEF TestCount
  <2>2. \A e \in Datas : HandlesOf(e)' = HandlesOf(e) BY <2>1 DEF HandlesOf
  <2>3. RcTypes' BY <1>1, <1>2, <2>1 DEF RcTypes, StageType
  <2>4. Counted' BY <2>1, <2>2 DEF RcInv, Counted
  <2>5. HeldAlive' BY <1>4, <2>2 DEF HeldAlive
  <2>6. Watched' BY <1>5, <2>2, <2>3 DEF Watched, RcTypes
  <2>7. Assigning' BY <1>1, <2>1 DEF RcInv, RcTypes, Assigning
  <2> QED BY <2>3, <2>4, <2>5, <2>6, <2>7 DEF RcInv
<1>7. CASE s.from # s.to
  <2>1. /\ Owner[s.from] = t /\ Owner[s.to] = t
        /\ dataOf[s.from] # NoData /\ dataOf[s.to] = NoData
    BY <1>7 DEF TestCount, RcInv, Assigning
  <2>n. PICK n \in Datas : dataOf[s.from] = n BY <1>1, <2>1 DEF RcTypes
  <2>2. s.from \in HandlesOf(n) BY <1>1, <2>n DEF HandlesOf
  <2>3. dataOf' = [dataOf EXCEPT ![s.to] = n] /\ refcount' = [refcount EXCEPT ![n] = @ + 1]
    BY <1>7, <2>n DEF TestCount, AddRef
  <2>4. /\ HandlesOf(n)' # {}
        /\ Cardinality(HandlesOf(n)') = Cardinality(HandlesOf(n)) + 1
        /\ \A e \in Datas \ {n} : HandlesOf(e)' = HandlesOf(e)
    BY <1>1, <2>1, <2>3, HandleTakes
  <2>5. Assigning'
    <3> SUFFICES ASSUME NEW u \in RcThreads, rcStage'[u] # Resting,
                        rcStage'[u].from # rcStage'[u].to
                 PROVE  /\ Owner[rcStage'[u].from] = u /\ Owner[rcStage'[u].to] = u
                        /\ dataOf'[rcStage'[u].from] # NoData
                        /\ dataOf'[rcStage'[u].to] = NoData
      BY DEF Assigning
    <3>1. u # t /\ rcStage'[u] = rcStage[u] BY <1>1 DEF RcTypes
    <3>2. rcStage[u].from \in Handles /\ rcStage[u].to \in Handles
      BY <1>1, <3>1 DEF RcTypes, StageType
    <3>3. /\ Owner[rcStage[u].from] = u /\ Owner[rcStage[u].to] = u
          /\ dataOf[rcStage[u].from] # NoData /\ dataOf[rcStage[u].to] = NoData
      BY <3>1 DEF RcInv, Assigning
    <3>4. rcStage[u].from # s.to /\ rcStage[u].to # s.to BY <2>1, <3>1, <3>3
    <3> QED BY <1>1, <2>3, <3>1, <3>2, <3>3, <3>4 DEF RcTypes
  <2>6. RcTypes' BY <1>1, <1>2, <2>2, <2>3 DEF RcTypes, StageType
  <2>7. Counted' BY <1>1, <2>2, <2>3, <2>4 DEF RcInv, RcTypes, Counted
  <2>8. HeldAlive' BY <1>4, <2>2, <2>4 DEF HeldAlive
  <2>9. Watched' BY <1>5, <2>4, <2>6 DEF Watched, RcTypes
  <2> QED BY <2>5, <2>6, <2>7, <2>8, <2>9 DEF RcInv
<1> QED BY <1>6, <1>7

LEMMA StepInv == RcInv /\ [RcNext]_rcVars => RcInv'
<1> SUFFICES ASSUME RcInv, [RcNext]_rcVars PROVE RcInv' OBVIOUS
<1>1. ASSUME NEW h \in Handles, NEW d \in Datas, Construct(h, d) PROVE RcInv'
  BY <1>1, ConstructInv
<1>2. ASSUME NEW h \in Handles, NEW other \in Handles, Copy(h, other) PROVE RcInv'
  BY <1>2, CopyInv
<1>3. ASSUME NEW h \in Handles, NEW other \in Handles, Assign(h, other) PROVE RcInv'
  BY <1>3, CountsDownInv DEF Assign
<1>4. ASSUME NEW h \in Handles, Destroy(h) PROVE RcInv'
  BY <1>4, CountsDownInv DEF Destroy
<1>5. ASSUME NEW t \in RcThreads, TestCount(t) PROVE RcInv' BY <1>5, TestCountInv
<1>6. CASE UNCHANGED rcVars
  <2>1. \A d \in Datas : HandlesOf(d)' = HandlesOf(d) BY <1>6 DEF rcVars, HandlesOf
  <2> QED BY <1>6, <2>1
       DEF rcVars, RcInv, RcTypes, Counted, HeldAlive, Watched, Assigning
<1> QED BY <1>1, <1>2, <1>3, <1>4, <1>5, <1>6 DEF RcNext

LEMMA InvImplies == RcInv => RcTypeOK /\ FreedWithLastHandle
<1> SUFFICES ASSUME RcInv PROVE RcTypeOK /\ FreedWithLastHandle OBVIOUS
<1>1. refcount \in [Datas -> 0 .. Cardinality(Handles)]
  <2>1. ASSUME NEW d \in Datas PROVE refcount[d] \in 0 .. Cardinality(Handles)
    BY HandlesFinite, FS_CardinalityType DEF RcInv, Counted
  <2> QED BY <2>1 DEF RcInv, RcTypes
<1>2. RcTypeOK BY <1>1 DEF RcInv, RcTypes, StageType, RcTypeOK
<1>3. FreedWithLastHandle
  BY DEF RcInv, RcTypes, HeldAlive, Watched, FreedWithLastHandle
<1> QED BY <1>2, <1>3

(* Every variable keeps its type; a counter never exceeds the number of     *)
(* handles (AddRef and Release of REFCOUNT_DEFINE's Data).                  *)
THEOREM RcTypesHold == RcSpec => []RcTypeOK
<1>1. RcInit => RcInv BY InitInv
<1>2. RcInv /\ [RcNext]_rcVars => RcInv' BY StepInv
<1>3. RcInv => RcTypeOK BY InvImplies
<1> QED BY <1>1, <1>2, <1>3, PTL DEF RcSpec

(* No Data is deleted under a handle and none outlives its last handle,     *)
(* although Release tests the counter apart from counting it down.          *)
THEOREM RcFreedWithLastHandle == RcSpec => []FreedWithLastHandle
<1>1. RcInit => RcInv BY InitInv
<1>2. RcInv /\ [RcNext]_rcVars => RcInv' BY StepInv
<1>3. RcInv => FreedWithLastHandle BY InvImplies
<1> QED BY <1>1, <1>2, <1>3, PTL DEF RcSpec

-----------------------------------------------------------------------------
(* Rows of the tables: a row is no NoRow, and a group that gets a row joins *)
(* the stored ones.                                                        *)
LEMMA RowIsNotNone ==
  ASSUME NEW row \in GroupRow
  PROVE  row # NoRow
BY DEF GroupRow, GroupStatus, NoRow

LEMMA StoredGrows ==
  ASSUME GroupsTypeOK,
         NEW g \in GroupIds, NEW row \in GroupRow,
         groupInfo' = [groupInfo EXCEPT ![g] = row]
  PROVE  /\ groupInfo' \in [GroupIds -> GroupRow \cup {NoRow}]
         /\ Stored' = Stored \cup {g}
         /\ groupInfo'[g] = row
         /\ \A h \in GroupIds \ {g} : groupInfo'[h] = groupInfo[h]
<1>1. row # NoRow BY RowIsNotNone
<1> QED BY <1>1 DEF GroupsTypeOK, Stored

LEMMA SetRowsType ==
  ASSUME GroupsTypeOK,
         NEW g \in GroupIds, NEW codes \in SUBSET Codes, NEW state \in RowState,
         SetRows(g, codes, state)
  PROVE  /\ groupStock' \in [GroupIds -> [Codes -> RowState]]
         /\ \A h \in GroupIds, c \in Codes :
              groupStock'[h][c] = IF h = g /\ c \in codes THEN state ELSE groupStock[h][c]
BY DEF GroupsTypeOK, SetRows

(* What a start may have left out is a finite set, and the bound holds.     *)
LEMMA SkippedErrors ==
  ASSUME GroupsTypeOK,
         NEW lost \in SUBSET Stored,
         Skip(lost), groupErrors' = groupErrors + Cardinality(lost)
  PROVE  groupErrors' \in 0 .. MaxGroupErrors /\ skipped' \in BOOLEAN
<1>1. IsFiniteSet(lost) BY FS_Subset DEF Stored
<1>2. Cardinality(lost) \in Nat BY <1>1, FS_CardinalityType
<1>3. skipped' \in BOOLEAN BY DEF Skip, GroupsTypeOK
<1> QED BY <1>2, <1>3 DEF GroupsTypeOK, Skip

LEMMA LoadType ==
  ASSUME NEW groups \in SUBSET GroupIds, Load(groups)
  PROVE  /\ stocks' \in [GroupIds -> SUBSET Codes]
         /\ \A g \in groups : stocks'[g] = StoredStocks(g)
BY DEF Load, InitStockList, StoredStocks

(* An error of a call that is counted when it is made.                      *)
LEMMA ErrorsCounted ==
  ASSUME GroupsTypeOK, GroupError \/ NoGroupError
  PROVE  groupErrors' \in 0 .. MaxGroupErrors
BY DEF GroupsTypeOK, GroupError, NoGroupError

-----------------------------------------------------------------------------
(* Types.                                                                  *)
LEMMA InitTypes == GroupsInit => GroupsTypeOK
<1> SUFFICES ASSUME GroupsInit PROVE GroupsTypeOK
  OBVIOUS
<1>1. groupInfo \in [GroupIds -> GroupRow \cup {NoRow}] BY DEF GroupsInit
<1>2. groupStock \in [GroupIds -> [Codes -> RowState]] BY DEF GroupsInit, RowState
<1>3. stocks \in [GroupIds -> SUBSET Codes] BY DEF GroupsInit
<1>4. groupErrors \in 0 .. MaxGroupErrors BY DEF GroupsInit
<1>5. /\ listed \subseteq Stored /\ added \subseteq GroupIds \X Codes
      /\ unstored \subseteq GroupIds \X Codes
  BY DEF GroupsInit
<1>6. ~serving /\ defaultGid = NoGroup /\ listed = {} /\ skipped \in BOOLEAN
  BY DEF GroupsInit
<1>7. serving \in BOOLEAN BY DEF GroupsInit
<1>8. IF serving THEN defaultGid \in listed ELSE defaultGid = NoGroup /\ listed = {}
  BY <1>6
<1> QED BY <1>1, <1>2, <1>3, <1>4, <1>5, <1>6, <1>7, <1>8 DEF GroupsTypeOK

LEMMA CreateGroupTypes ==
  ASSUME GroupsTypeOK, NEW name \in GroupNames, NEW codes \in SUBSET Codes,
         CreateGroup(name, codes)
  PROVE  GroupsTypeOK'
<1>1. PICK g \in FreshGroups :
        /\ groupInfo' = [groupInfo EXCEPT ![g] = [name |-> name, status |-> "VALID"]]
        /\ listed' = listed \cup {g}
        /\ stocks' = [stocks EXCEPT ![g] = codes]
        /\ \/ SetRows(g, codes, "valid") /\ NoGroupError
           \/ (GroupError \/ NoGroupError) /\ UNCHANGED groupStock
  BY DEF CreateGroup
<1>2. g \in GroupIds /\ [name |-> name, status |-> "VALID"] \in GroupRow
  BY DEF FreshGroups, GroupRow, GroupStatus
<1>3. groupInfo' \in [GroupIds -> GroupRow \cup {NoRow}] /\ Stored' = Stored \cup {g}
  BY <1>1, <1>2, StoredGrows
<1>4. groupStock' \in [GroupIds -> [Codes -> RowState]]
  <2>1. CASE SetRows(g, codes, "valid") BY <1>2, <2>1, SetRowsType DEF RowState
  <2>2. CASE UNCHANGED groupStock BY <2>2 DEF GroupsTypeOK
  <2> QED BY <1>1, <2>1, <2>2
<1>5. groupErrors' \in 0 .. MaxGroupErrors BY <1>1, ErrorsCounted
<1>6. /\ added' \subseteq GroupIds \X Codes /\ unstored' \subseteq GroupIds \X Codes
      /\ UNCHANGED <<defaultGid, serving, skipped>>
  BY DEF CreateGroup, FreshGroups, GroupsTypeOK
<1>7. listed' \subseteq Stored' /\ stocks' \in [GroupIds -> SUBSET Codes]
  BY <1>1, <1>2, <1>3 DEF GroupsTypeOK
<1>8. IF serving THEN defaultGid \in listed' ELSE FALSE
  BY <1>1 DEF CreateGroup, GroupsTypeOK
<1> QED BY <1>3, <1>4, <1>5, <1>6, <1>7, <1>8 DEF GroupsTypeOK

LEMMA AddStockTypes ==
  ASSUME GroupsTypeOK, NEW id, NEW codes \in SUBSET Codes, AddStock(id, codes)
  PROVE  GroupsTypeOK'
<1> DEFINE g == Target(id)
           new == codes \ stocks[g]
<1>1. g \in listed /\ g \in GroupIds
  BY DEF AddStock, GroupsTypeOK, Stored
<1>2. new \in SUBSET Codes OBVIOUS
<1>3. stocks' = [stocks EXCEPT ![g] = @ \cup new] BY DEF AddStock
<1>4. groupStock' \in [GroupIds -> [Codes -> RowState]]
  <2>1. CASE SetRows(g, new, "valid")
    <3> HIDE DEF g, new
    <3> QED BY <1>1, <1>2, <2>1, SetRowsType DEF RowState
  <2>2. CASE UNCHANGED groupStock BY <2>2 DEF GroupsTypeOK
  <2> QED BY <2>1, <2>2 DEF AddStock
<1>5. groupErrors' \in 0 .. MaxGroupErrors
  <2>1. GroupError \/ NoGroupError BY DEF AddStock
  <2> QED BY <2>1, ErrorsCounted
<1>6. added' \subseteq GroupIds \X Codes
  BY <1>1, <1>2 DEF AddStock, Report, GroupsTypeOK
<1>7. stocks' \in [GroupIds -> SUBSET Codes]
  BY <1>1, <1>2, <1>3 DEF GroupsTypeOK
<1>8. UNCHANGED <<groupInfo, listed, defaultGid, serving, unstored, skipped>>
  BY DEF AddStock
<1> QED BY <1>4, <1>5, <1>6, <1>7, <1>8 DEF GroupsTypeOK, Stored

LEMMA DelStockTypes ==
  ASSUME GroupsTypeOK, NEW id, NEW codes \in SUBSET Codes, DelStock(id, codes)
  PROVE  GroupsTypeOK'
<1> DEFINE g == Target(id)
           gone == codes \cap stocks[g]
<1>1. g \in listed /\ g \in GroupIds
  BY DEF DelStock, GroupsTypeOK, Stored
<1>2. gone \in SUBSET Codes OBVIOUS
<1>3. stocks' = [stocks EXCEPT ![g] = @ \ gone] BY DEF DelStock
<1>4. groupStock' \in [GroupIds -> [Codes -> RowState]]
  <2>1. CASE SetRows(g, gone, "invalid")
    <3> HIDE DEF g, gone
    <3> QED BY <1>1, <1>2, <2>1, SetRowsType DEF RowState
  <2>2. CASE UNCHANGED groupStock BY <2>2 DEF GroupsTypeOK
  <2> QED BY <2>1, <2>2 DEF DelStock
<1>5. groupErrors' \in 0 .. MaxGroupErrors
  <2>1. GroupError \/ NoGroupError BY DEF DelStock
  <2> QED BY <2>1, ErrorsCounted
<1>6. added' \subseteq GroupIds \X Codes BY DEF DelStock, GroupsTypeOK
<1>7. stocks' \in [GroupIds -> SUBSET Codes] BY <1>1, <1>3 DEF GroupsTypeOK
<1>8. UNCHANGED <<groupInfo, listed, defaultGid, serving, unstored, skipped>>
  BY DEF DelStock
<1> QED BY <1>4, <1>5, <1>6, <1>7, <1>8 DEF GroupsTypeOK, Stored

LEMMA RestartTypes ==
  ASSUME GroupsTypeOK, Restart
  PROVE  GroupsTypeOK'
<1>1. PICK lost \in SUBSET Stored :
        /\ Skip(lost) /\ groupErrors' = groupErrors + Cardinality(lost)
        /\ Load(Stored \ lost) /\ listed' = Stored \ lost
        /\ defaultGid' \in Defaults(Stored \ lost)
        /\ serving' = TRUE
        /\ UNCHANGED <<groupInfo, groupStock, added, unstored>>
  BY DEF Restart
<1>2. groupErrors' \in 0 .. MaxGroupErrors /\ skipped' \in BOOLEAN
  BY <1>1, SkippedErrors
<1>3. stocks' \in [GroupIds -> SUBSET Codes] BY <1>1, LoadType DEF Stored
<1>4. defaultGid' \in listed' BY <1>1 DEF Defaults
<1> QED BY <1>1, <1>2, <1>3, <1>4 DEF GroupsTypeOK, Stored

LEMMA RestartWithNewDefaultTypes ==
  ASSUME GroupsTypeOK, RestartWithNewDefault
  PROVE  GroupsTypeOK'
<1>1. PICK lost \in SUBSET Stored, new \in FreshGroups :
        /\ Skip(lost) /\ groupErrors' = groupErrors + Cardinality(lost)
        /\ groupInfo' = [groupInfo EXCEPT ![new] =
                           [name |-> DefaultName, status |-> "DEFAULT"]]
        /\ Load(Stored \ lost) /\ listed' = (Stored \ lost) \cup {new}
        /\ defaultGid' = new /\ serving' = TRUE
        /\ UNCHANGED <<groupStock, added, unstored>>
  BY DEF RestartWithNewDefault
<1>2. new \in GroupIds /\ [name |-> DefaultName, status |-> "DEFAULT"] \in GroupRow
  BY DEF FreshGroups, GroupRow, GroupStatus
<1>3. groupErrors' \in 0 .. MaxGroupErrors /\ skipped' \in BOOLEAN
  BY <1>1, SkippedErrors
<1>4. stocks' \in [GroupIds -> SUBSET Codes] BY <1>1, LoadType DEF Stored
<1>5. groupInfo' \in [GroupIds -> GroupRow \cup {NoRow}] /\ Stored' = Stored \cup {new}
  BY <1>1, <1>2, StoredGrows
<1> QED BY <1>1, <1>3, <1>4, <1>5 DEF GroupsTypeOK

LEMMA StepTypes == GroupsTypeOK /\ [GroupsNext]_groupsVars => GroupsTypeOK'
<1> SUFFICES ASSUME GroupsTypeOK, [GroupsNext]_groupsVars PROVE GroupsTypeOK'
  OBVIOUS
<1>1. ASSUME NEW name \in GroupNames, CreateGroupFails(name) PROVE GroupsTypeOK'
  <2>1. groupErrors' \in 0 .. MaxGroupErrors BY <1>1, ErrorsCounted DEF CreateGroupFails
  <2> QED BY <1>1, <2>1 DEF CreateGroupFails, GroupsTypeOK, Stored
<1>2. ASSUME RestartFails PROVE GroupsTypeOK'
  <2>1. groupErrors' \in 0 .. MaxGroupErrors BY <1>2, ErrorsCounted DEF RestartFails
  <2> QED BY <1>2, <2>1 DEF RestartFails, GroupsTypeOK, Stored
<1>3. CASE UNCHANGED groupsVars BY <1>3 DEF groupsVars, GroupsTypeOK, Stored
<1> QED
  BY <1>1, <1>2, <1>3, CreateGroupTypes, AddStockTypes, DelStockTypes, RestartTypes,
     RestartWithNewDefaultTypes DEF GroupsNext

(* Types of the groups: a user who is served has a default group in the     *)
(* list, which request id 0 stands for.                                    *)
THEOREM GroupsTypes == GroupsSpec => []GroupsTypeOK
<1> QED BY InitTypes, StepTypes, PTL DEF GroupsSpec

-----------------------------------------------------------------------------
(* AddedStocksSurvive is not inductive: a restart forgets memory.  What a    *)
(* client was told of has a row in the database unless it is recorded as    *)
(* unstored, is in memory if it has one, and the rows of a group that is    *)
(* being created are nobody's yet.                                         *)
HasRow(pair) == groupStock[pair[1]][pair[2]] # "none"

PairKept(pair) ==
  /\ pair[1] \in Stored
  /\ HasRow(pair) \/ pair \in unstored
  /\ pair[1] \in listed /\ HasRow(pair) => pair[2] \in stocks[pair[1]]

AddedInv == GroupsTypeOK /\ \A pair \in added : PairKept(pair)

LEMMA CreateGroupKeepsAdded ==
  ASSUME AddedInv, NEW name \in GroupNames, NEW codes \in SUBSET Codes,
         CreateGroup(name, codes), NEW pair \in added'
  PROVE  PairKept(pair)'
<1>1. PICK g \in FreshGroups :
        /\ groupInfo' = [groupInfo EXCEPT ![g] = [name |-> name, status |-> "VALID"]]
        /\ listed' = listed \cup {g}
        /\ stocks' = [stocks EXCEPT ![g] = codes]
        /\ added' = added \cup ({g} \X codes)
        /\ \/ SetRows(g, codes, "valid") /\ unstored' = unstored
           \/ UNCHANGED groupStock /\ unstored' = unstored \cup ({g} \X codes)
  BY DEF CreateGroup
<1>2. g \in GroupIds /\ [name |-> name, status |-> "VALID"] \in GroupRow
  BY DEF FreshGroups, GroupRow, GroupStatus
<1>3. Stored' = Stored \cup {g} BY <1>1, <1>2, StoredGrows DEF AddedInv
<1>4. stocks'[g] = codes /\ \A h \in GroupIds \ {g} : stocks'[h] = stocks[h]
  BY <1>1, <1>2 DEF AddedInv, GroupsTypeOK
<1>5. CASE pair \in added
  <2>1. PairKept(pair) /\ pair[1] \in GroupIds /\ pair[2] \in Codes
    BY <1>5 DEF AddedInv, GroupsTypeOK
  <2>2. pair[1] # g BY <2>1 DEF PairKept, FreshGroups
  <2>3. groupStock'[pair[1]][pair[2]] = groupStock[pair[1]][pair[2]]
    BY <1>1, <1>2, <2>1, <2>2, SetRowsType DEF AddedInv, RowState
  <2>4. HasRow(pair)' <=> HasRow(pair) BY <2>3 DEF HasRow
  <2> QED BY <1>1, <1>3, <1>4, <2>1, <2>2, <2>4 DEF PairKept
<1>6. CASE pair \in {g} \X codes
  <2>1. pair[1] = g /\ pair[2] \in codes /\ pair[2] \in Codes BY <1>6
  <2>2. CASE SetRows(g, codes, "valid")
    <3>1. groupStock'[g][pair[2]] = "valid"
      BY <1>2, <2>1, <2>2, SetRowsType DEF AddedInv, RowState
    <3> QED BY <1>3, <1>4, <2>1, <3>1 DEF PairKept, HasRow
  <2>3. CASE unstored' = unstored \cup ({g} \X codes)
    BY <1>3, <1>4, <1>6, <2>1, <2>3 DEF PairKept
  <2> QED BY <1>1, <2>2, <2>3
<1> QED BY <1>1, <1>5, <1>6

LEMMA AddStockKeepsAdded ==
  ASSUME AddedInv, NEW id, NEW codes \in SUBSET Codes, AddStock(id, codes),
         NEW pair \in added'
  PROVE  PairKept(pair)'
<1> DEFINE g == Target(id)
           new == codes \ stocks[g]
<1>1. g \in listed /\ g \in GroupIds /\ g \in Stored
  BY DEF AddStock, AddedInv, GroupsTypeOK, Stored
<1>2. /\ stocks' = [stocks EXCEPT ![g] = @ \cup new]
      /\ UNCHANGED <<groupInfo, listed, unstored>>
      /\ \/ SetRows(g, new, "valid") /\ added' = added \cup ({g} \X new)
         \/ UNCHANGED <<groupStock, added>>
  BY DEF AddStock, Report
<1>3. Stored' = Stored BY <1>2 DEF Stored
<1>4. new \in SUBSET Codes OBVIOUS
<1> HIDE DEF g, new
<1>5. /\ stocks'[g] = stocks[g] \cup new
      /\ \A h \in GroupIds \ {g} : stocks'[h] = stocks[h]
  BY <1>1, <1>2 DEF AddedInv, GroupsTypeOK
<1>6. ASSUME pair \in {g} \X new, SetRows(g, new, "valid") PROVE PairKept(pair)'
  <2>1. pair[1] = g /\ pair[2] \in new /\ pair[2] \in Codes BY <1>4, <1>6
  <2>2. groupStock'[g][pair[2]] = "valid"
    BY <1>1, <1>4, <1>6, <2>1, SetRowsType DEF AddedInv, RowState
  <2> QED BY <1>1, <1>3, <1>5, <2>1, <2>2 DEF PairKept, HasRow
<1>7. CASE pair \in added
  <2>1. PairKept(pair) /\ pair[1] \in GroupIds /\ pair[2] \in Codes
    BY <1>7 DEF AddedInv, GroupsTypeOK
  <2>2. CASE groupStock'[pair[1]][pair[2]] = groupStock[pair[1]][pair[2]]
    <3>1. HasRow(pair)' <=> HasRow(pair) BY <2>2 DEF HasRow
    <3>2. pair[2] \in stocks[pair[1]] => pair[2] \in stocks'[pair[1]] BY <1>5, <2>1
    <3> QED BY <1>2, <1>3, <2>1, <3>1, <3>2 DEF PairKept
  <2>3. CASE groupStock'[pair[1]][pair[2]] # groupStock[pair[1]][pair[2]]
    <3>1. SetRows(g, new, "valid") BY <1>2, <2>3
    <3>2. pair[1] = g /\ pair[2] \in new
      BY <1>1, <1>4, <2>1, <2>3, <3>1, SetRowsType DEF AddedInv, RowState
    <3>3. pair = <<pair[1], pair[2]>> BY <1>7 DEF AddedInv, GroupsTypeOK
    <3> QED BY <1>6, <3>1, <3>2, <3>3
  <2> QED BY <2>2, <2>3
<1> QED BY <1>2, <1>6, <1>7

LEMMA DelStockKeepsAdded ==
  ASSUME AddedInv, NEW id, NEW codes \in SUBSET Codes, DelStock(id, codes),
         NEW pair \in added'
  PROVE  PairKept(pair)'
<1> DEFINE g == Target(id)
           gone == codes \cap stocks[g]
<1>1. g \in GroupIds BY DEF DelStock, AddedInv, GroupsTypeOK, Stored
<1>2. /\ stocks' = [stocks EXCEPT ![g] = @ \ gone]
      /\ added' = added \ ({g} \X gone)
      /\ UNCHANGED <<groupInfo, listed, unstored>>
      /\ SetRows(g, gone, "invalid") \/ UNCHANGED groupStock
  BY DEF DelStock
<1>3. Stored' = Stored BY <1>2 DEF Stored
<1>4. gone \in SUBSET Codes OBVIOUS
<1> HIDE DEF g, gone
<1>5. /\ pair \in added /\ pair = <<pair[1], pair[2]>>
      /\ pair[1] \in GroupIds /\ pair[2] \in Codes /\ PairKept(pair)
  BY <1>2 DEF AddedInv, GroupsTypeOK
<1>6. ~(pair[1] = g /\ pair[2] \in gone) BY <1>2, <1>5
<1>7. groupStock'[pair[1]][pair[2]] = groupStock[pair[1]][pair[2]]
  BY <1>1, <1>2, <1>4, <1>5, <1>6, SetRowsType DEF AddedInv, RowState
<1>8. HasRow(pair)' <=> HasRow(pair) BY <1>7 DEF HasRow
<1>9. pair[2] \in stocks[pair[1]] => pair[2] \in stocks'[pair[1]]
  BY <1>1, <1>2, <1>5, <1>6 DEF AddedInv, GroupsTypeOK
<1> QED BY <1>2, <1>3, <1>5, <1>8, <1>9 DEF PairKept

(* A start reads every row of the groups it lists, deleted ones included.   *)
LEMMA LoadingKeepsAdded ==
  ASSUME AddedInv,
         NEW groups \in SUBSET Stored, NEW others,
         Load(groups), listed' = groups \cup others, others \cap Stored = {},
         Stored \subseteq Stored', UNCHANGED <<groupStock, added, unstored>>,
         NEW pair \in added'
  PROVE  PairKept(pair)'
<1>1. PairKept(pair) /\ pair[2] \in Codes BY DEF AddedInv, GroupsTypeOK
<1>2. \A g \in groups : stocks'[g] = StoredStocks(g) BY LoadType DEF Stored
<1>3. pair[1] \in listed' => pair[1] \in groups BY <1>1 DEF PairKept
<1>4. HasRow(pair)' <=> HasRow(pair) BY DEF HasRow
<1> QED BY <1>1, <1>2, <1>3, <1>4 DEF PairKept, HasRow, StoredStocks

LEMMA StepKeepsAdded == AddedInv /\ [GroupsNext]_groupsVars => AddedInv'
<1> SUFFICES ASSUME AddedInv, [GroupsNext]_groupsVars PROVE AddedInv'
  OBVIOUS
<1>1. GroupsTypeOK' BY StepTypes DEF AddedInv
<1>2. SUFFICES ASSUME NEW pair \in added' PROVE PairKept(pair)'
  BY <1>1 DEF AddedInv
<1>3. ASSUME UNCHANGED <<groupInfo, groupStock, listed, stocks, added, unstored>>
      PROVE  PairKept(pair)'
  BY <1>3 DEF AddedInv, PairKept, HasRow, Stored
<1>4. ASSUME NEW name \in GroupNames, CreateGroupFails(name) PROVE PairKept(pair)'
  BY <1>3, <1>4 DEF CreateGroupFails
<1>5. ASSUME Restart PROVE PairKept(pair)'
  <2>1. PICK lost \in SUBSET Stored :
          /\ Load(Stored \ lost) /\ listed' = Stored \ lost
          /\ UNCHANGED <<groupInfo, groupStock, added, unstored>>
    BY <1>5 DEF Restart
  <2>2. Stored' = Stored BY <2>1 DEF Stored
  <2>3. listed' = (Stored \ lost) \cup {} /\ {} \cap Stored = {} BY <2>1
  <2> QED BY <2>1, <2>2, <2>3, LoadingKeepsAdded
<1>6. ASSUME RestartWithNewDefault PROVE PairKept(pair)'
  <2>1. PICK lost \in SUBSET Stored, new \in FreshGroups :
          /\ groupInfo' = [groupInfo EXCEPT ![new] =
                             [name |-> DefaultName, status |-> "DEFAULT"]]
          /\ Load(Stored \ lost) /\ listed' = (Stored \ lost) \cup {new}
          /\ UNCHANGED <<groupStock, added, unstored>>
    BY <1>6 DEF RestartWithNewDefault
  <2>2. new \in GroupIds /\ [name |-> DefaultName, status |-> "DEFAULT"] \in GroupRow
    BY DEF FreshGroups, GroupRow, GroupStatus
  <2>3. Stored' = Stored \cup {new} BY <2>1, <2>2, StoredGrows DEF AddedInv
  <2>4. {new} \cap Stored = {} BY DEF FreshGroups
  <2> QED BY <2>1, <2>3, <2>4, LoadingKeepsAdded
<1>7. ASSUME RestartFails PROVE PairKept(pair)'
  BY <1>7 DEF RestartFails, AddedInv, PairKept, HasRow, Stored
<1>8. CASE UNCHANGED groupsVars BY <1>3, <1>8 DEF groupsVars
<1> QED
  BY <1>4, <1>5, <1>6, <1>7, <1>8, CreateGroupKeepsAdded, AddStockKeepsAdded,
     DelStockKeepsAdded DEF GroupsNext

(* What a client was told is in a group, by CreateGroup or by AddStock, is  *)
(* in it whenever the group is served, however many calls fail and however  *)
(* often the process starts again (StockGroup::AddStocks,                   *)
(* UserInfo::InitStockGroup), except for what CreateGroup reported although *)
(* its INSERT had failed, which a start forgets while it has no row.        *)
THEOREM GroupsAddedSurvive == GroupsSpec => []AddedStocksSurvive
<1>1. GroupsInit => AddedInv
  BY InitTypes DEF GroupsInit, AddedInv
<1>2. AddedInv => AddedStocksSurvive
  BY DEF AddedInv, PairKept, HasRow, AddedStocksSurvive
<1> QED BY <1>1, <1>2, StepKeepsAdded, PTL DEF GroupsSpec

-----------------------------------------------------------------------------
(* GroupNamesDiffer compares listed groups, CreateGroup too; a restart      *)
(* lists what is stored.  While no start has left a group out the two are   *)
(* the same, and the second default group, which is created without looking *)
(* at the names, needs a user without any group.                           *)
NamesApart(groups) ==
  \A g, h \in groups : g # h => groupInfo[g].name # groupInfo[h].name

NamesInv ==
  /\ GroupsTypeOK
  /\ Stored # {} => Defaults(Stored) # {}
  /\ ~skipped => NamesApart(Stored) /\ (serving => listed = Stored)

LEMMA CreateGroupKeepsNames ==
  ASSUME NamesInv, NEW name \in GroupNames, NEW codes, CreateGroup(name, codes),
         GroupsTypeOK'
  PROVE  NamesInv'
<1>1. PICK g \in FreshGroups :
        /\ groupInfo' = [groupInfo EXCEPT ![g] = [name |-> name, status |-> "VALID"]]
        /\ listed' = listed \cup {g}
  BY DEF CreateGroup
<1>2. g \in GroupIds /\ g \notin Stored /\ [name |-> name, status |-> "VALID"] \in GroupRow
  BY DEF FreshGroups, GroupRow, GroupStatus
<1>3. /\ Stored' = Stored \cup {g} /\ groupInfo'[g].name = name
      /\ \A h \in GroupIds \ {g} : groupInfo'[h] = groupInfo[h]
  BY <1>1, <1>2, StoredGrows DEF NamesInv
<1>4. serving /\ serving' = serving /\ skipped' = skipped /\ NewName(name)
  BY DEF CreateGroup
<1>5. Defaults(Stored)' # {}
  <2>1. PICK d \in Stored : groupInfo[d].status = "DEFAULT"
    <3>1. Stored # {} BY <1>4 DEF NamesInv, GroupsTypeOK
    <3> QED BY <3>1 DEF NamesInv, Defaults
  <2>2. d \in Stored' /\ groupInfo'[d].status = "DEFAULT"
    BY <1>2, <1>3, <2>1 DEF Stored
  <2> QED BY <2>2 DEF Defaults
<1>6. ASSUME ~skipped PROVE NamesApart(Stored)' /\ listed' = Stored'
  <2>1. listed = Stored /\ NamesApart(Stored) BY <1>4, <1>6 DEF NamesInv
  <2>2. \A h \in Stored : groupInfo'[h].name = groupInfo[h].name /\ groupInfo[h].name # name
    BY <1>2, <1>3, <1>4, <2>1 DEF NewName, Stored
  <2> QED BY <1>1, <1>2, <1>3, <2>1, <2>2 DEF NamesApart
<1> QED BY <1>4, <1>5, <1>6 DEF NamesInv

LEMMA RestartKeepsNames ==
  ASSUME NamesInv, Restart, GroupsTypeOK'
  PROVE  NamesInv'
<1>1. PICK lost \in SUBSET Stored :
        /\ skipped' = (skipped \/ lost # {})
        /\ listed' = Stored \ lost /\ groupInfo' = groupInfo
  BY DEF Restart, Skip
<1>2. Stored' = Stored /\ Defaults(Stored)' = Defaults(Stored) BY <1>1 DEF Stored, Defaults
<1>3. ~skipped' => ~skipped /\ listed' = Stored BY <1>1
<1> QED BY <1>1, <1>2, <1>3 DEF NamesInv, NamesApart

LEMMA NewDefaultKeepsNames ==
  ASSUME NamesInv, RestartWithNewDefault, GroupsTypeOK'
  PROVE  NamesInv'
<1>1. PICK lost \in SUBSET Stored, new \in FreshGroups :
        /\ Defaults(Stored \ lost) = {}
        /\ skipped' = (skipped \/ lost # {})
        /\ groupInfo' = [groupInfo EXCEPT ![new] =
                           [name |-> DefaultName, status |-> "DEFAULT"]]
        /\ listed' = (Stored \ lost) \cup {new}
  BY DEF RestartWithNewDefault, Skip
<1>2. new \in GroupIds /\ [name |-> DefaultName, status |-> "DEFAULT"] \in GroupRow
  BY DEF FreshGroups, GroupRow, GroupStatus
<1>3. Stored' = Stored \cup {new} /\ groupInfo'[new].status = "DEFAULT"
  BY <1>1, <1>2, StoredGrows DEF NamesInv
<1>4. Defaults(Stored)' # {} BY <1>3 DEF Defaults
<1>5. ASSUME ~skipped' PROVE Stored' = {new} /\ listed' = {new}
  <2>1. lost = {} BY <1>1, <1>5
  <2>2. Defaults(Stored) = {} BY <1>1, <2>1
  <2>3. Stored = {} BY <2>2 DEF NamesInv
  <2> QED BY <1>1, <1>3, <2>3
<1> QED BY <1>4, <1>5 DEF NamesInv, NamesApart

LEMMA StepKeepsNames == NamesInv /\ [GroupsNext]_groupsVars => NamesInv'
<1> SUFFICES ASSUME NamesInv, [GroupsNext]_groupsVars PROVE NamesInv'
  OBVIOUS
<1>1. GroupsTypeOK' BY StepTypes DEF NamesInv
<1>2. ASSUME UNCHANGED <<groupInfo, listed, serving, skipped>> PROVE NamesInv'
  BY <1>1, <1>2 DEF NamesInv, NamesApart, Stored, Defaults
<1>3. ASSUME NEW name \in GroupNames, CreateGroupFails(name) PROVE NamesInv'
  BY <1>2, <1>3 DEF CreateGroupFails
<1>4. ASSUME NEW id, NEW codes, AddStock(id, codes) \/ DelStock(id, codes)
      PROVE NamesInv'
  BY <1>2, <1>4 DEF AddStock, DelStock
<1>5. ASSUME RestartFails PROVE NamesInv'
  BY <1>1, <1>5 DEF RestartFails, NamesInv, NamesApart, Stored, Defaults
<1>6. CASE UNCHANGED groupsVars BY <1>2, <1>6 DEF groupsVars
<1> QED
  BY <1>1, <1>3, <1>4, <1>5, <1>6, CreateGroupKeepsNames, RestartKeepsNames,
     NewDefaultKeepsNames DEF GroupsNext

(* Two groups of one user have one name only behind a start that has left a *)
(* group out, although CreateGroup compares only with the groups in memory  *)
(* and the default group is created without comparing.                     *)
THEOREM GroupsNamesDiffer == GroupsSpec => []GroupNamesDiffer
<1>1. GroupsInit => NamesInv
  <2> SUFFICES ASSUME GroupsInit PROVE NamesInv OBVIOUS
  <2>1. Stored = {} BY DEF GroupsInit, Stored
  <2> QED BY <2>1, InitTypes DEF GroupsInit, NamesInv, NamesApart
<1>2. NamesInv => GroupNamesDiffer
  BY DEF NamesInv, NamesApart, GroupNamesDiffer, GroupsTypeOK
<1> QED BY <1>1, <1>2, StepKeepsNames, PTL DEF GroupsSpec
-----------------------------------------------------------------------------
(* LogTrace.  A message LogMsg has cut off is the last one, and LogMsg has  *)
(* noticed: the next call connects anew.                                   *)
CutNoticed ==
  \A i \in 1 .. Len(logStream) :
    ~logStream[i].whole /\ logStream[i].by = "LogMsg" =>
      i = Len(logStream) /\ logCall = "none" /\ logStatus = "EXCEPTION"

LogInv ==
  /\ LogTypeOK
  /\ logCall = "none" => logSent = 0
  /\ CutNoticed

LogEntry == [by : LogCalls, whole : BOOLEAN]

(* A message behind the others, on a stream where none was cut by LogMsg.   *)
LEMMA LineAdded ==
  ASSUME LogInv, logCall # "none", NEW line \in LogEntry,
         logStream' = Append(logStream, line),
         ~line.whole /\ line.by = "LogMsg" =>
           logCall' = "none" /\ logStatus' = "EXCEPTION"
  PROVE  logStream' \in Seq(LogEntry) /\ CutNoticed'
<1>1. logStream \in Seq(LogEntry) BY DEF LogInv, LogTypeOK, LogEntry
<1>2. /\ logStream' \in Seq(LogEntry)
      /\ Len(logStream) \in Nat /\ Len(logStream') = Len(logStream) + 1
      /\ \A i \in 1 .. Len(logStream) : logStream'[i] = logStream[i]
      /\ logStream'[Len(logStream) + 1] = line
  BY <1>1, AppendProperties, LenProperties
<1>3. \A i \in 1 .. Len(logStream) : logStream[i].whole \/ logStream[i].by # "LogMsg"
  BY DEF LogInv, CutNoticed
<1>4. \A i \in 1 .. Len(logStream) + 1 : i \in 1 .. Len(logStream) \/ i = Len(logStream) + 1
  BY <1>2
<1> QED BY <1>2, <1>3, <1>4 DEF CutNoticed

LEMMA LogInitInv == LogInit => LogInv
<1> SUFFICES ASSUME LogInit PROVE LogInv OBVIOUS
<1>1. Len(<<>>) = 0 /\ <<>> \in Seq(LogEntry) BY EmptySeq
<1>2. LogTypeOK BY <1>1, LogTraceAssumption DEF LogInit, LogTypeOK, LogEntry
<1>3. CutNoticed BY <1>1 DEF LogInit, CutNoticed
<1> QED BY <1>2, <1>3 DEF LogInit, LogInv

(* Init of the logger, or a call that finds it not connected.               *)
LEMMA ReconnectedInv ==
  ASSUME LogInv, Reconnected, logCount' \in 0 .. MaxLogs, UNCHANGED <<logCall, logSent>>
  PROVE  LogInv'
<1>1. Len(<<>>) = 0 /\ <<>> \in Seq(LogEntry) BY EmptySeq
<1>2. LogTypeOK' BY <1>1 DEF Reconnected, LogInv, LogTypeOK, LogEntry
<1>3. CutNoticed' BY <1>1 DEF Reconnected, CutNoticed
<1> QED BY <1>2, <1>3 DEF LogInv

LEMMA SendInv ==
  ASSUME LogInv, Send
  PROVE  LogInv'
<1>1. logCall \in LogCalls /\ logCall # "none" /\ UNCHANGED <<logStatus, logCount>>
  BY DEF Send, LogInv, LogTypeOK
<1>2. PICK n \in 1 .. LogLen - logSent :
        IF logSent + n = LogLen
        THEN /\ logStream' = Append(logStream, [by |-> logCall, whole |-> TRUE])
             /\ logCall' = "none" /\ logSent' = 0
        ELSE logSent' = logSent + n /\ UNCHANGED <<logStream, logCall>>
  BY DEF Send
<1>3. LogLen \in Nat \ {0} /\ logSent \in 0 .. LogLen - 1
  BY LogTraceAssumption DEF LogInv, LogTypeOK
<1>4. CASE logSent + n = LogLen
  <2>1. [by |-> logCall, whole |-> TRUE] \in LogEntry BY <1>1 DEF LogEntry
  <2>2. logStream' \in Seq(LogEntry) /\ CutNoticed' BY <1>1, <1>2, <1>4, <2>1, LineAdded
  <2>3. LogTypeOK' BY <1>1, <1>2, <1>3, <1>4, <2>2 DEF LogInv, LogTypeOK, LogEntry
  <2> QED BY <1>2, <1>4, <2>2, <2>3 DEF LogInv
<1>5. CASE logSent + n # LogLen
  <2>1. logSent' = logSent + n /\ UNCHANGED <<logStream, logCall>> BY <1>2, <1>5
  <2>2. logSent + n \in 0 .. LogLen - 1 BY <1>3, <1>5
  <2>3. LogTypeOK' BY <1>1, <2>1, <2>2 DEF LogInv, LogTypeOK
  <2>4. CutNoticed' BY <1>1, <2>1 DEF LogInv, CutNoticed
  <2> QED BY <1>1, <2>1, <2>3, <2>4 DEF LogInv
<1> QED BY <1>4, <1>5

LEMMA SendFailsInv ==
  ASSUME LogInv, SendFails
  PROVE  LogInv'
<1>1. /\ logCall \in LogCalls /\ logCall # "none"
      /\ logStatus' = IF logCall = "LogMsg" THEN "EXCEPTION" ELSE logStatus
      /\ logCall' = "none" /\ logSent' = 0 /\ logCount' = logCount
      /\ logStream' = IF logSent = 0 THEN logStream
                      ELSE Append(logStream, [by |-> logCall, whole |-> FALSE])
  BY DEF SendFails, NotesFailure, GivesUp, LogInv, LogTypeOK
<1>2. logStream' \in Seq(LogEntry) /\ CutNoticed'
  <2>1. CASE logSent = 0
    BY <1>1, <2>1 DEF LogInv, LogTypeOK, LogEntry, CutNoticed
  <2>2. CASE logSent # 0
    <3>1. [by |-> logCall, whole |-> FALSE] \in LogEntry BY <1>1 DEF LogEntry
    <3> QED BY <1>1, <2>2, <3>1, LineAdded
  <2> QED BY <2>1, <2>2
<1>3. LogTypeOK' BY <1>1, <1>2, LogTraceAssumption DEF LogInv, LogTypeOK, LogEntry
<1> QED BY <1>1, <1>2, <1>3 DEF LogInv

LEMMA LogStepInv == LogInv /\ [LogNext]_logVars => LogInv'
<1> SUFFICES ASSUME LogInv, [LogNext]_logVars PROVE LogInv' OBVIOUS
<1>1. CASE LogTraceInit BY <1>1, ReconnectedInv DEF LogTraceInit, LogInv, LogTypeOK
<1>2. ASSUME NEW call \in LogCalls, LogBegins(call) PROVE LogInv'
  <2>1. /\ logStatus = "NORMAL" /\ logCall' = call /\ logSent' = 0
        /\ logCount' \in 0 .. MaxLogs /\ UNCHANGED <<logStatus, logStream>>
    BY <1>2, LogTraceAssumption DEF LogBegins, LogInv, LogTypeOK
  <2>2. LogTypeOK' BY <2>1, <1>2, LogTraceAssumption DEF LogInv, LogTypeOK
  <2>3. CutNoticed' BY <2>1 DEF LogInv, CutNoticed
  <2> QED BY <2>1, <2>2, <2>3 DEF LogInv
<1>3. CASE LogLost
  <2>1. logCount' \in 0 .. MaxLogs
    BY <1>3, LogTraceAssumption DEF LogLost, LogInv, LogTypeOK
  <2> QED BY <1>3, <2>1, ReconnectedInv DEF LogLost
<1>4. CASE LogSends BY <1>4, SendInv, SendFailsInv DEF LogSends
<1>5. CASE UNCHANGED logVars BY <1>5 DEF logVars, LogInv, LogTypeOK, CutNoticed
<1> QED BY <1>1, <1>2, <1>3, <1>4, <1>5 DEF LogNext

(* LogMsg (log_trace.cc) leaves no line behind one it has cut off, for any  *)
(* length of a message, any partial sends and any mixture with LogMessage:  *)
(* two messages are never read as one because of it.                       *)
THEOREM LogLinesWhole == LogSpec => []WholeLogLines
<1>1. LogInit => LogInv BY LogInitInv
<1>2. LogInv /\ [LogNext]_logVars => LogInv' BY LogStepInv
<1>3. LogInv => WholeLogLines
  <2> SUFFICES ASSUME LogInv PROVE WholeLogLines OBVIOUS
  <2>1. DOMAIN logStream = 1 .. Len(logStream)
    BY LenProperties DEF LogInv, LogTypeOK
  <2> QED BY <2>1 DEF LogInv, CutNoticed, WholeLogLines
<1> QED BY <1>1, <1>2, <1>3, PTL DEF LogSpec
-----------------------------------------------------------------------------
(* RealInfo.  The handler of a socket has answered when it is done, and not *)
(* before, and knows the kind of its request in every stage.                *)
Answer == [status : Int, sell : Nat, buy : Nat, index : Nat]

InfoTypes == InfoTypeOK /\ infoSent \in [Sockets -> Seq(Answer)]

(* What the request of a socket got.                                        *)
NoAnswer(s) ==
  /\ infoPacket[s].kind \in {"null", "other"}
  /\ infoSent[s] = <<>> /\ infoReturn[s] = "HANDLER_GO_ON"

OneAnswer(s) ==
  /\ infoPacket[s].kind \notin {"null", "other"}
  /\ \E a \in Answer :
       /\ infoSent[s] = <<a>>
       /\ \/ infoReturn[s] = "HANDLER_GO_ON" /\ a.status < 0
          \/ /\ infoReturn[s] = "HANDLER_FINISHED"
             /\ \/ infoPacket[s].kind = "garbled" /\ a.status = STRUCT_ERROR
                \/ infoPacket[s].kind = "REALINFO_LATESTN" /\ a.buy = 5
                \/ infoPacket[s].kind = "REALINFO_INDEX" /\ a.index = Len(IndexCodes)

HandlerFits(s) ==
  /\ infoStage[s] # "done" => infoSent[s] = <<>>
  /\ infoStage[s] = "message" => infoPacket[s] \in Packets
  /\ infoStage[s] \in {"quote", "basics"} => infoPacket[s].kind = "REALINFO_LATESTN"
  /\ infoStage[s] = "index" => infoPacket[s].kind = "REALINFO_INDEX"
  /\ infoStage[s] = "done" => NoAnswer(s) \/ OneAnswer(s)

InfoInv == InfoTypes /\ \A s \in Sockets : HandlerFits(s)

LEMMA InfoInitInv == InfoInit => InfoInv
<1> SUFFICES ASSUME InfoInit PROVE InfoInv OBVIOUS
<1>1. Len(IndexCodes) \in Nat BY RealInfoAssumption, LenProperties
<1>2. <<>> \in Seq(Answer) BY EmptySeq
<1>3. InfoTypes
  <2>1. infoStage \in [Sockets -> InfoStages] BY DEF InfoInit, InfoStages
  <2>2. infoPacket \in [Sockets -> Packets \cup {NoPacket}] BY DEF InfoInit
  <2>3. infoIndex \in [Sockets -> 0 .. Len(IndexCodes)]
    <3>1. 0 \in 0 .. Len(IndexCodes) BY <1>1
    <3> QED BY <3>1 DEF InfoInit
  <2>4. infoSent \in [Sockets -> Seq(Answer)] BY <1>2 DEF InfoInit
  <2>5. infoReturn \in [Sockets -> {"none", "HANDLER_FINISHED", "HANDLER_GO_ON"}]
    BY DEF InfoInit
  <2> QED BY <2>1, <2>2, <2>3, <2>4, <2>5 DEF InfoInit, InfoTypes, InfoTypeOK
<1>4. \A s \in Sockets : infoStage[s] = "none" /\ infoSent[s] = <<>> BY DEF InfoInit
<1> QED BY <1>3, <1>4 DEF InfoInv, HandlerFits

(* A step of one handler leaves the others alone.                           *)
LEMMA OneHandler ==
  ASSUME InfoInv, NEW s \in Sockets, InfoTypes', HandlerFits(s)',
         \A u \in Sockets \ {s} :
           /\ infoPacket'[u] = infoPacket[u] /\ infoStage'[u] = infoStage[u]
           /\ infoSent'[u] = infoSent[u] /\ infoReturn'[u] = infoReturn[u]
  PROVE  InfoInv'
<1>1. ASSUME NEW u \in Sockets \ {s} PROVE HandlerFits(u)'
  BY <1>1 DEF InfoInv, HandlerFits, NoAnswer, OneAnswer
<1> QED BY <1>1 DEF InfoInv

(* A handler ends: with its only answer, or without one.                    *)
LEMMA HandlerEnds ==
  ASSUME InfoInv, NEW s \in Sockets, NEW r \in BOOLEAN, Return(s, r),
         infoPacket' = infoPacket, infoIndex' = infoIndex, UNCHANGED InfoEngines,
         infoStage[s] # "done",
         \/ infoSent' = infoSent /\ infoPacket[s].kind \in {"null", "other"} /\ ~r
         \/ /\ infoPacket[s].kind \notin {"null", "other"}
            /\ \E a \in Answer :
                 /\ SendMessageBySize(s, a)
                 /\ IF r
                    THEN \/ infoPacket[s].kind = "garbled" /\ a.status = STRUCT_ERROR
                         \/ infoPacket[s].kind = "REALINFO_LATESTN" /\ a.buy = 5
                         \/ /\ infoPacket[s].kind = "REALINFO_INDEX"
                            /\ a.index = Len(IndexCodes)
                    ELSE a.status < 0
  PROVE  InfoInv'
<1>1. InfoTypes /\ infoSent[s] = <<>> BY DEF InfoInv, HandlerFits
<1>2. /\ infoStage' = [infoStage EXCEPT ![s] = "done"]
      /\ infoReturn' = [infoReturn EXCEPT ![s] =
                          IF r THEN "HANDLER_FINISHED" ELSE "HANDLER_GO_ON"]
  BY DEF Return, Step
<1>3. /\ infoStage' \in [Sockets -> InfoStages]
      /\ infoReturn' \in [Sockets -> {"none", "HANDLER_FINISHED", "HANDLER_GO_ON"}]
      /\ infoStage'[s] = "done"
      /\ infoReturn'[s] = IF r THEN "HANDLER_FINISHED" ELSE "HANDLER_GO_ON"
      /\ \A u \in Sockets \ {s} :
           infoStage'[u] = infoStage[u] /\ infoReturn'[u] = infoReturn[u]
  BY <1>1, <1>2 DEF InfoTypes, InfoTypeOK, InfoStages
<1>4. InfoTypeOK' BY <1>1, <1>3 DEF InfoTypes, InfoTypeOK, InfoEngines
<1>5. CASE infoSent' = infoSent /\ infoPacket[s].kind \in {"null", "other"} /\ ~r
  <2>1. InfoTypes' BY <1>1, <1>4, <1>5 DEF InfoTypes
  <2>2. NoAnswer(s)' BY <1>1, <1>3, <1>5 DEF NoAnswer
  <2>3. HandlerFits(s)' BY <1>3, <2>2 DEF HandlerFits
  <2> QED BY <1>3, <1>5, <2>1, <2>3, OneHandler
<1>6. CASE infoPacket[s].kind \notin {"null", "other"}
  <2>1. PICK a \in Answer :
          /\ SendMessageBySize(s, a)
          /\ IF r
             THEN \/ infoPacket[s].kind = "garbled" /\ a.status = STRUCT_ERROR
                  \/ infoPacket[s].kind = "REALINFO_LATESTN" /\ a.buy = 5
                  \/ /\ infoPacket[s].kind = "REALINFO_INDEX"
                     /\ a.index = Len(IndexCodes)
             ELSE a.status < 0
    BY <1>6
  <2>2. infoSent' = [infoSent EXCEPT ![s] = Append(infoSent[s], a)]
    BY <2>1 DEF SendMessageBySize
  <2>3. Append(<<>>, a) = <<a>> /\ <<a>> \in Seq(Answer) OBVIOUS
  <2>4. /\ infoSent' \in [Sockets -> Seq(Answer)] /\ infoSent'[s] = <<a>>
        /\ \A u \in Sockets \ {s} : infoSent'[u] = infoSent[u]
    BY <1>1, <2>2, <2>3 DEF InfoTypes
  <2>5. InfoTypes' BY <1>4, <2>4 DEF InfoTypes
  <2>6. OneAnswer(s)' BY <1>3, <1>6, <2>1, <2>4 DEF OneAnswer
  <2>7. HandlerFits(s)' BY <1>3, <2>6 DEF HandlerFits
  <2> QED BY <1>3, <2>4, <2>5, <2>7, OneHandler
<1> QED BY <1>5, <1>6

(* A handler goes on to its next stage.                                     *)
LEMMA HandlerGoesOn ==
  ASSUME InfoInv, NEW s \in Sockets, NEW stage \in InfoStages, Step(s, stage),
         UNCHANGED <<infoPacket, infoSent, infoReturn, infoIndex, InfoEngines>>,
         infoStage[s] # "done",
         \/ stage = "quote" /\ infoPacket[s].kind = "REALINFO_LATESTN"
         \/ stage = "basics" /\ infoPacket[s].kind = "REALINFO_LATESTN"
         \/ stage = "index" /\ infoPacket[s].kind = "REALINFO_INDEX"
  PROVE  InfoInv'
<1>1. InfoTypes /\ infoSent[s] = <<>> BY DEF InfoInv, HandlerFits
<1>2. /\ infoStage' \in [Sockets -> InfoStages] /\ infoStage'[s] = stage
      /\ \A u \in Sockets \ {s} : infoStage'[u] = infoStage[u]
  BY <1>1 DEF Step, InfoTypes, InfoTypeOK
<1>3. InfoTypes' BY <1>1, <1>2 DEF InfoTypes, InfoTypeOK, InfoEngines
<1>4. HandlerFits(s)' BY <1>1, <1>2 DEF HandlerFits
<1> QED BY <1>2, <1>3, <1>4, OneHandler

(* SEND_ERROR_INFO with a negative status.                                  *)
LEMMA RefuseInv ==
  ASSUME InfoInv, NEW s \in Sockets, NEW status \in Int, status < 0,
         Refuse(s, status, FALSE), infoStage[s] # "done",
         infoPacket[s].kind \notin {"null", "other"},
         infoPacket' = infoPacket, infoIndex' = infoIndex, UNCHANGED InfoEngines
  PROVE  InfoInv'
<1>1. SendMessageBySize(s, ErrorAnswer(status)) /\ Return(s, FALSE) BY DEF Refuse
<1>2. ErrorAnswer(status) \in Answer /\ ErrorAnswer(status).status < 0
  BY DEF ErrorAnswer, Answer
<1> QED BY <1>1, <1>2, HandlerEnds

LEMMA ArriveInv ==
  ASSUME InfoInv, NEW s \in Sockets, Arrive(s)
  PROVE  InfoInv'
<1>1. InfoTypes /\ infoSent[s] = <<>> BY DEF InfoInv, HandlerFits, Arrive, InStage
<1>2. PICK packet \in Packets : infoPacket' = [infoPacket EXCEPT ![s] = packet]
  BY DEF Arrive
<1>3. /\ infoPacket' \in [Sockets -> Packets \cup {NoPacket}] /\ infoPacket'[s] = packet
      /\ \A u \in Sockets \ {s} : infoPacket'[u] = infoPacket[u]
  BY <1>1, <1>2 DEF InfoTypes, InfoTypeOK
<1>4. /\ infoStage' \in [Sockets -> InfoStages] /\ infoStage'[s] = "message"
      /\ \A u \in Sockets \ {s} : infoStage'[u] = infoStage[u]
      /\ UNCHANGED <<infoSent, infoReturn, infoIndex, InfoEngines>>
  BY <1>1 DEF Arrive, Step, InfoTypes, InfoTypeOK, InfoStages
<1>5. InfoTypes' BY <1>1, <1>3, <1>4 DEF InfoTypes, InfoTypeOK, InfoEngines
<1>6. HandlerFits(s)' BY <1>1, <1>3, <1>4 DEF HandlerFits
<1> QED BY <1>3, <1>4, <1>5, <1>6, OneHandler

LEMMA PacketKinds ==
  ASSUME NEW packet \in Packets
  PROVE  packet.kind \in {"null", "garbled", "other", "REALINFO_INDEX", "REALINFO_LATESTN"}
BY DEF Packets

LEMMA MessageInv ==
  ASSUME InfoInv, NEW s \in Sockets, OnRealInfoMessage(s)
  PROVE  InfoInv'
<1> DEFINE packet == infoPacket[s]
<1>1. /\ infoStage[s] = "message" /\ packet \in Packets
      /\ infoPacket' = infoPacket /\ infoIndex' = infoIndex /\ UNCHANGED InfoEngines
  BY DEF OnRealInfoMessage, InStage, InfoInv, HandlerFits
<1>2. CASE packet.kind \in {"null", "other"}
  <2>1. Return(s, FALSE) /\ UNCHANGED infoSent BY <1>2 DEF OnRealInfoMessage
  <2> QED BY <1>1, <1>2, <2>1, HandlerEnds
<1>3. CASE packet.kind = "garbled"
  <2>1. SendMessageBySize(s, ErrorAnswer(STRUCT_ERROR)) /\ Return(s, TRUE)
    BY <1>3 DEF OnRealInfoMessage, Refuse
  <2>2. ErrorAnswer(STRUCT_ERROR) \in Answer
        /\ ErrorAnswer(STRUCT_ERROR).status = STRUCT_ERROR
    BY DEF ErrorAnswer, Answer, STRUCT_ERROR
  <2> QED BY <1>1, <1>3, <2>1, <2>2, HandlerEnds
<1>4. CASE packet.kind = "REALINFO_INDEX"
  <2>1. Step(s, "index") /\ UNCHANGED <<infoSent, infoReturn>>
    BY <1>4 DEF OnRealInfoMessage
  <2> QED BY <1>1, <1>4, <2>1, HandlerGoesOn DEF InfoStages
<1>5. CASE packet.kind = "REALINFO_LATESTN"
  <2>1. IF packet.code = NoCode THEN Refuse(s, -100, FALSE)
        ELSE Step(s, "quote") /\ UNCHANGED <<infoSent, infoReturn>>
    BY <1>5 DEF OnRealInfoMessage
  <2>2. CASE packet.code = NoCode
    <3>1. Refuse(s, -100, FALSE) BY <2>1, <2>2
    <3>2. -100 \in Int /\ -100 < 0 OBVIOUS
    <3> QED BY <1>1, <1>5, <3>1, <3>2, RefuseInv
  <2>3. CASE packet.code # NoCode
    BY <1>1, <1>5, <2>1, <2>3, HandlerGoesOn DEF InfoStages
  <2> QED BY <2>2, <2>3
<1> QED BY <1>1, <1>2, <1>3, <1>4, <1>5, PacketKinds

LEMMA QuoteInv ==
  ASSUME InfoInv, NEW s \in Sockets, LatestQuote(s)
  PROVE  InfoInv'
<1>1. /\ infoStage[s] = "quote" /\ infoPacket[s].kind = "REALINFO_LATESTN"
      /\ infoPacket' = infoPacket /\ infoIndex' = infoIndex /\ UNCHANGED InfoEngines
  BY DEF LatestQuote, InStage, InfoInv, HandlerFits
<1>2. CASE infoPacket[s].code \in infoMarket
  <2>1. Step(s, "basics") /\ UNCHANGED <<infoSent, infoReturn>> BY <1>2 DEF LatestQuote
  <2> QED BY <1>1, <2>1, HandlerGoesOn DEF InfoStages
<1>3. CASE infoPacket[s].code \notin infoMarket
  <2>1. Refuse(s, -1, FALSE) BY <1>3 DEF LatestQuote
  <2>2. -1 \in Int /\ -1 < 0 OBVIOUS
  <2> QED BY <1>1, <2>1, <2>2, RefuseInv
<1> QED BY <1>2, <1>3

LEMMA LatestRecordsInv ==
  ASSUME InfoInv, NEW s \in Sockets, OnSingleStockLatestRecords(s)
  PROVE  InfoInv'
<1>1. /\ infoStage[s] = "basics" /\ infoPacket[s].kind = "REALINFO_LATESTN"
      /\ infoPacket' = infoPacket /\ infoIndex' = infoIndex /\ UNCHANGED InfoEngines
  BY DEF OnSingleStockLatestRecords, InStage, InfoInv, HandlerFits
<1>2. CASE infoPacket[s].code \in infoBasics
  <2>1. SendMessageBySize(s, LatestAnswer(InitBuyN)) /\ Return(s, TRUE)
    BY <1>2 DEF OnSingleStockLatestRecords, AnswerIfKnown
  <2>2. LatestAnswer(InitBuyN) \in Answer /\ LatestAnswer(InitBuyN).buy = 5
    BY DEF LatestAnswer, InitBuyN, Answer
  <2> QED BY <1>1, <2>1, <2>2, HandlerEnds
<1>3. CASE infoPacket[s].code \notin infoBasics
  <2>1. Refuse(s, -1, FALSE) BY <1>3 DEF OnSingleStockLatestRecords, AnswerIfKnown
  <2>2. -1 \in Int /\ -1 < 0 OBVIOUS
  <2> QED BY <1>1, <2>1, <2>2, RefuseInv
<1> QED BY <1>2, <1>3

LEMMA IndexDataInv ==
  ASSUME InfoInv, NEW s \in Sockets, BuildIndexData(s)
  PROVE  InfoInv'
<1>1. /\ infoStage[s] = "index" /\ infoPacket[s].kind = "REALINFO_INDEX"
      /\ infoIndex[s] < Len(IndexCodes)
      /\ infoPacket' = infoPacket /\ UNCHANGED InfoEngines
  BY DEF BuildIndexData, InStage, InfoInv, HandlerFits
<1>2. CASE IndexCodes[infoIndex[s] + 1] \in infoMarket
  <2>1. /\ infoIndex' = [infoIndex EXCEPT ![s] = infoIndex[s] + 1]
        /\ UNCHANGED <<infoStage, infoSent, infoReturn>>
    BY <1>2 DEF BuildIndexData
  <2>2. Len(IndexCodes) \in Nat BY RealInfoAssumption, LenProperties
  <2>3. infoIndex[s] + 1 \in 0 .. Len(IndexCodes)
    BY <1>1, <2>2 DEF InfoInv, InfoTypes, InfoTypeOK
  <2>4. infoIndex' \in [Sockets -> 0 .. Len(IndexCodes)]
    BY <2>1, <2>3 DEF InfoInv, InfoTypes, InfoTypeOK
  <2>5. InfoTypes' BY <1>1, <2>1, <2>4 DEF InfoInv, InfoTypes, InfoTypeOK, InfoEngines
  <2>6. HandlerFits(s)' BY <1>1, <2>1 DEF InfoInv, HandlerFits
  <2> QED BY <1>1, <2>1, <2>5, <2>6, OneHandler
<1>3. CASE IndexCodes[infoIndex[s] + 1] \notin infoMarket
  <2>1. Refuse(s, -1, FALSE) /\ infoIndex' = infoIndex BY <1>3 DEF BuildIndexData
  <2>2. -1 \in Int /\ -1 < 0 OBVIOUS
  <2> QED BY <1>1, <2>1, <2>2, RefuseInv
<1> QED BY <1>2, <1>3

LEMMA IndexInfoInv ==
  ASSUME InfoInv, NEW s \in Sockets, OnMarketIndexInfo(s)
  PROVE  InfoInv'
<1>1. /\ infoStage[s] = "index" /\ infoPacket[s].kind = "REALINFO_INDEX"
      /\ infoIndex[s] = Len(IndexCodes)
      /\ SendMessageBySize(s, IndexAnswer(Len(IndexCodes))) /\ Return(s, TRUE)
      /\ infoPacket' = infoPacket /\ infoIndex' = infoIndex /\ UNCHANGED InfoEngines
  BY DEF OnMarketIndexInfo, InStage, InfoInv, HandlerFits
<1>2. Len(IndexCodes) \in Nat BY RealInfoAssumption, LenProperties
<1>3. IndexAnswer(Len(IndexCodes)) \in Answer
      /\ IndexAnswer(Len(IndexCodes)).index = Len(IndexCodes)
  BY <1>2 DEF IndexAnswer, Answer
<1> QED BY <1>1, <1>3, HandlerEnds

LEMMA InfoStepInv == InfoInv /\ [InfoNext]_infoVars => InfoInv'
<1> SUFFICES ASSUME InfoInv, [InfoNext]_infoVars PROVE InfoInv' OBVIOUS
<1>1. ASSUME UNCHANGED infoRequest,
             infoMarket' \subseteq Quotes, infoBasics' \subseteq InfoCodes,
             infoTimer' \subseteq {"UPDATE_STOCK"}, infoStarted' \in BOOLEAN
      PROVE  InfoInv'
  <2>1. UNCHANGED <<infoPacket, infoStage, infoSent, infoReturn, infoIndex>>
    BY <1>1 DEF infoRequest
  <2>2. InfoTypes' BY <1>1, <2>1 DEF InfoInv, InfoTypes, InfoTypeOK
  <2>3. \A s \in Sockets : HandlerFits(s)'
    BY <2>1 DEF InfoInv, HandlerFits, NoAnswer, OneAnswer
  <2> QED BY <2>2, <2>3 DEF InfoInv
<1>2. CASE OnRealInfoStart \/ OnIniTimer \/ OnTimeout \/ MarketChanges
  BY <1>1, <1>2 DEF OnRealInfoStart, OnIniTimer, OnTimeout, MarketChanges,
                    InfoInv, InfoTypes, InfoTypeOK
<1>3. CASE UNCHANGED infoVars
  BY <1>1, <1>3 DEF infoVars, InfoInv, InfoTypes, InfoTypeOK
<1> QED BY <1>2, <1>3, ArriveInv, MessageInv, QuoteInv, LatestRecordsInv,
           IndexDataInv, IndexInfoInv DEF InfoNext

(* The handlers of the quotation plugin (real_info_logic.cc) answer a       *)
(* request once, for any number of sockets and stocks and however the       *)
(* market and the snapshot change while they work.                         *)
THEOREM InfoAnsweredOnce == InfoSpec => []AnsweredOnce
<1>1. InfoInit => InfoInv BY InfoInitInv
<1>2. InfoInv /\ [InfoNext]_infoVars => InfoInv' BY InfoStepInv
<1>3. InfoInv => AnsweredOnce
  <2> SUFFICES ASSUME InfoInv, NEW s \in Sockets
               PROVE  /\ Len(infoSent[s]) <= 1
                      /\ infoStage[s] # "done" => infoSent[s] = <<>>
                      /\ infoStage[s] = "done" =>
                           /\ infoSent[s] = <<>> <=> infoPacket[s].kind \in {"null", "other"}
                           /\ infoReturn[s] = "HANDLER_FINISHED" =>
                                \/ infoPacket[s].kind = "garbled" /\ infoSent[s][1].status = STRUCT_ERROR
                                \/ infoPacket[s].kind = "REALINFO_LATESTN" /\ infoSent[s][1].buy = 5
                                \/ infoPacket[s].kind = "REALINFO_INDEX"
                                     /\ infoSent[s][1].index = Len(IndexCodes)
                           /\ infoReturn[s] = "HANDLER_GO_ON" =>
                                \A i \in DOMAIN infoSent[s] : infoSent[s][i].status < 0
    BY DEF AnsweredOnce
  <2>1. HandlerFits(s) BY DEF InfoInv
  <2>2. Len(<<>>) = 0 /\ DOMAIN <<>> = {} BY EmptySeq, LenProperties
  <2>3. CASE infoSent[s] = <<>>
    <3>1. ~OneAnswer(s) BY <2>3 DEF OneAnswer
    <3> QED BY <2>1, <2>2, <2>3, <3>1 DEF HandlerFits, NoAnswer
  <2>4. CASE infoSent[s] # <<>>
    <3>1. infoStage[s] = "done" /\ OneAnswer(s)
      BY <2>1, <2>4 DEF HandlerFits, NoAnswer
    <3>2. PICK a \in Answer :
            /\ infoSent[s] = <<a>>
            /\ \/ infoReturn[s] = "HANDLER_GO_ON" /\ a.status < 0
               \/ /\ infoReturn[s] = "HANDLER_FINISHED"
                  /\ \/ infoPacket[s].kind = "garbled" /\ a.status = STRUCT_ERROR
                     \/ infoPacket[s].kind = "REALINFO_LATESTN" /\ a.buy = 5
                     \/ infoPacket[s].kind = "REALINFO_INDEX" /\ a.index = Len(IndexCodes)
      BY <3>1 DEF OneAnswer
    <3>3. infoPacket[s].kind \notin {"null", "other"} BY <3>1 DEF OneAnswer
    <3>4. Len(<<a>>) = 1 /\ <<a>>[1] = a /\ DOMAIN <<a>> = {1} OBVIOUS
    <3> QED BY <2>4, <3>1, <3>2, <3>3, <3>4
  <2> QED BY <2>3, <2>4
<1> QED BY <1>1, <1>2, <1>3, PTL DEF InfoSpec
-----------------------------------------------------------------------------
(* Dates and their numbers.                                                *)

(* A date read back from its parts.                                        *)
LEMMA DateParts ==
  ASSUME NEW y \in Int, NEW m \in 0 .. 99, NEW d \in 0 .. 99
  PROVE  /\ DateOf(y, m, d) \in Int
         /\ Year(DateOf(y, m, d)) = y /\ Month(DateOf(y, m, d)) = m
         /\ Day(DateOf(y, m, d)) = d
<1>1. ASSUME NEW e \in Int, NEW r \in 0 .. 99
      PROVE  (e * 100 + r) \div 100 = e /\ (e * 100 + r) % 100 = r
  OBVIOUS
<1>2. PICK e \in Int : e = y * 100 + m
  OBVIOUS
<1>3. DateOf(y, m, d) = e * 100 + d /\ e * 100 + d \in Int
  BY <1>2 DEF DateOf
<1>4. (e * 100 + d) \div 100 = e /\ (e * 100 + d) % 100 = d
  BY <1>1
<1>5. e \div 100 = y /\ e % 100 = m
  BY <1>1, <1>2
<1>6. (e * 100 + d) \div 10000 = y
  BY <1>2
<1>. QED
  BY <1>3, <1>4, <1>5, <1>6 DEF Year, Month, Day

(* Every number has the parts of a date.                                   *)
LEMMA DateWhole ==
  ASSUME NEW date \in Int
  PROVE  /\ Year(date) \in Int /\ Month(date) \in 0 .. 99 /\ Day(date) \in 0 .. 99
         /\ date = DateOf(Year(date), Month(date), Day(date))
BY DEF DateOf, Year, Month, Day

(* The first of March of the year y.                                        *)
YearStart(y) == 365 * y + y \div 4 - y \div 100 + y \div 400

(* A year has 365 days or 366.                                             *)
LEMMA YearStartStep ==
  ASSUME NEW y \in Int
  PROVE  YearStart(y) - YearStart(y - 1) = IF leap_year(y) THEN 366 ELSE 365
<1>1. y \div 4 - (y - 1) \div 4 = IF y % 4 = 0 THEN 1 ELSE 0
  OBVIOUS
<1>2. y \div 100 - (y - 1) \div 100 = IF y % 100 = 0 THEN 1 ELSE 0
  OBVIOUS
<1>3. y \div 400 - (y - 1) \div 400 = IF y % 400 = 0 THEN 1 ELSE 0
  OBVIOUS
<1>4. (y % 400 = 0 => y % 100 = 0) /\ (y % 100 = 0 => y % 4 = 0)
  OBVIOUS
<1>. QED
  BY <1>1, <1>2, <1>3, <1>4 DEF YearStart, leap_year

-----------------------------------------------------------------------------
(* The number of a day by the parts of its date.                            *)
NumberOf(y, m, d) ==
  YearStart(IF m <= 2 THEN y - 1 ELSE y) + (153 * ((m + 9) % 12) + 2) \div 5 + d - 1

(* The number of a day from the parts of its date.                         *)
LEMMA NumberOfDate ==
  ASSUME NEW y \in Int, NEW m \in 1 .. 12, NEW d \in 0 .. 99
  PROVE  DayNumber(DateOf(y, m, d)) = NumberOf(y, m, d)
<1>1. m \in 0 .. 99
  OBVIOUS
<1>2. /\ Year(DateOf(y, m, d)) = y /\ Month(DateOf(y, m, d)) = m
      /\ Day(DateOf(y, m, d)) = d
  BY <1>1, DateParts
<1>. QED
  BY <1>2 DEF DayNumber, NumberOf, YearStart

(* The last day of a month, without the table.                              *)
LastDay(y, m) == MONTH_DAY(February(y, 28))[m % 12]

(* Only the second entry of the table depends on what it holds.            *)
LEMMA LastDays ==
  ASSUME NEW y \in Int, NEW m \in 1 .. 12, NEW feb \in {28, 29}
  PROVE  /\ m # 2 => /\ MONTH_DAY(feb)[m % 12] = LastDay(y, m)
                     /\ LastDay(y, m) = IF m \in {4, 6, 9, 11} THEN 30 ELSE 31
         /\ MONTH_DAY(feb)[2] = feb
         /\ LastDay(y, 2) = IF leap_year(y) THEN 29 ELSE 28
<1>1. /\ m % 12 \in 0 .. 11 /\ (m % 12 = 2 <=> m = 2) /\ 2 % 12 = 2
      /\ (m % 12 \in {4, 6, 9, 11} <=> m \in {4, 6, 9, 11})
  OBVIOUS
<1>. QED
  BY <1>1 DEF LastDay, MONTH_DAY, February

(* The first day of a month follows the last one of the month before.      *)
LEMMA MonthStep ==
  ASSUME NEW y \in Int, NEW m \in 1 .. 12
  PROVE  NumberOf(IF m = 12 THEN y + 1 ELSE y, IF m = 12 THEN 1 ELSE m + 1, 1)
           = NumberOf(y, m, LastDay(y, m)) + 1
<1>1. LastDay(y, m) = IF m = 2 THEN IF leap_year(y) THEN 29 ELSE 28
                      ELSE IF m \in {4, 6, 9, 11} THEN 30 ELSE 31
  BY LastDays
<1>2. YearStart(y) - YearStart(y - 1) = IF leap_year(y) THEN 366 ELSE 365
  BY YearStartStep
<1>3. YearStart(y) \in Int /\ YearStart(y - 1) \in Int /\ (y + 1) - 1 = y
  BY DEF YearStart
<1>4. m \in {1, 2, 3, 4, 5, 6, 7, 8, 9, 10, 11, 12}
  OBVIOUS
<1>. QED
  BY <1>1, <1>2, <1>3, <1>4 DEF NumberOf

-----------------------------------------------------------------------------
(* One turn.  The table may have 29 days for any February.                  *)

Named(date) ==
  date \in Int /\ Month(date) \in 1 .. 12
  /\ Day(date) \in 1 .. MONTH_DAY(29)[Month(date) % 12]

(* A 29th of February that the year does not have.                          *)
Ghost(date) == Month(date) = 2 /\ Day(date) = 29 /\ ~leap_year(Year(date))

(* A date named by the table has parts within it.                          *)
LEMMA NamedParts ==
  ASSUME NEW date, Named(date)
  PROVE  \E y \in Int, m \in 1 .. 12, d \in 1 .. 31 :
           /\ date = DateOf(y, m, d)
           /\ y = Year(date) /\ m = Month(date) /\ d = Day(date)
           /\ m = 2 => d <= 29
           /\ m # 2 => d <= LastDay(y, m)
<1>1. /\ Year(date) \in Int /\ Month(date) \in 1 .. 12
      /\ date = DateOf(Year(date), Month(date), Day(date))
  BY DateWhole DEF Named
<1>2. PICK y \in Int, m \in 1 .. 12 : y = Year(date) /\ m = Month(date)
  BY <1>1
<1>3. /\ m # 2 => MONTH_DAY(29)[m % 12] = LastDay(y, m)
      /\ m # 2 => LastDay(y, m) = IF m \in {4, 6, 9, 11} THEN 30 ELSE 31
      /\ MONTH_DAY(29)[2] = 29
  BY LastDays
<1>4. 2 % 12 = 2
  OBVIOUS
<1>5. Day(date) \in 1 .. MONTH_DAY(29)[m % 12]
  BY <1>2 DEF Named
<1>6. PICK d \in 1 .. 31 : d = Day(date) /\ (m = 2 => d <= 29) /\ (m # 2 => d <= LastDay(y, m))
  BY <1>3, <1>4, <1>5
<1>. QED
  BY <1>1, <1>2, <1>6

(* And such parts make a date named by the table.                          *)
LEMMA PartsNamed ==
  ASSUME NEW y \in Int, NEW m \in 1 .. 12, NEW d \in 1 .. 31,
         m = 2 => d <= 29, m # 2 => d <= LastDay(y, m)
  PROVE  /\ Named(DateOf(y, m, d))
         /\ Ghost(DateOf(y, m, d)) <=> m = 2 /\ d = 29 /\ ~leap_year(y)
         /\ DayNumber(DateOf(y, m, d)) = NumberOf(y, m, d)
<1>1. m \in 0 .. 99 /\ d \in 0 .. 99 /\ 2 % 12 = 2
  OBVIOUS
<1>2. /\ DateOf(y, m, d) \in Int
      /\ Year(DateOf(y, m, d)) = y /\ Month(DateOf(y, m, d)) = m
      /\ Day(DateOf(y, m, d)) = d
  BY <1>1, DateParts
<1>3. /\ m # 2 => MONTH_DAY(29)[m % 12] = LastDay(y, m)
      /\ m # 2 => LastDay(y, m) = IF m \in {4, 6, 9, 11} THEN 30 ELSE 31
      /\ MONTH_DAY(29)[2] = 29
  BY LastDays
<1>4. d \in 1 .. MONTH_DAY(29)[m % 12]
  BY <1>1, <1>3
<1>. QED
  BY <1>1, <1>2, <1>4, NumberOfDate DEF Named, Ghost

(* NextDate is the next day; of a ghost it is the first of March, which has *)
(* the ghost's own number.                                                 *)
LEMMA NextDay ==
  ASSUME NEW date, Named(date), NEW feb \in {28, 29}
  PROVE  /\ Named(NextDate(date, feb))
         /\ Ghost(date) => /\ DayNumber(NextDate(date, feb)) = DayNumber(date)
                           /\ ~Ghost(NextDate(date, feb))
         /\ ~Ghost(date) => DayNumber(NextDate(date, feb)) = DayNumber(date) + 1
         /\ Ghost(NextDate(date, feb)) => February(Year(date + 1), feb) = 29
<1>1. PICK y \in Int, m \in 1 .. 12, d \in 1 .. 31 :
        /\ date = DateOf(y, m, d)
        /\ m = 2 => d <= 29
        /\ m # 2 => d <= LastDay(y, m)
  BY NamedParts
<1>. DEFINE F == February(y, feb)
            last == MONTH_DAY(F)[m % 12]
            n == NextDate(date, feb)
<1>2. /\ Ghost(date) <=> m = 2 /\ d = 29 /\ ~leap_year(y)
      /\ DayNumber(date) = NumberOf(y, m, d)
  BY <1>1, PartsNamed
<1>3. F \in {28, 29} /\ (leap_year(y) => F = 29) /\ 2 % 12 = 2
  BY DEF February
<1>4. /\ m # 2 => last = LastDay(y, m) /\ last \in {30, 31}
      /\ m = 2 => last = F
      /\ LastDay(y, 2) = IF leap_year(y) THEN 29 ELSE 28
  BY <1>3, LastDays
<1>5. Year(date + 1) = y /\ Month(date + 1) = m /\ Day(date + 1) = d + 1
  <2>1. PICK e \in 0 .. 99 : e = d + 1
    OBVIOUS
  <2>2. date + 1 = DateOf(y, m, e) /\ m \in 0 .. 99
    BY <1>1, <2>1 DEF DateOf
  <2>3. /\ Year(DateOf(y, m, e)) = y /\ Month(DateOf(y, m, e)) = m
        /\ Day(DateOf(y, m, e)) = e
    BY <2>2, DateParts
  <2>. QED
    BY <2>1, <2>2, <2>3
<1>6. n = IF d + 1 > last
          THEN IF m = 12 THEN DateOf(y + 1, 1, 1) ELSE DateOf(y, m + 1, 1)
          ELSE DateOf(y, m, d + 1)
  BY <1>5 DEF NextDate
<1>. HIDE DEF n, F, last
<1>7. CASE ~(d + 1 > last)
  <2>1. /\ n = DateOf(y, m, d + 1) /\ d + 1 \in 1 .. 31
        /\ m = 2 => d + 1 <= 29
        /\ m # 2 => d + 1 <= LastDay(y, m)
    BY <1>3, <1>4, <1>6, <1>7
  <2>2. Named(n) /\ DayNumber(n) = NumberOf(y, m, d + 1)
    BY <2>1, PartsNamed
  <2>3. NumberOf(y, m, d + 1) = NumberOf(y, m, d) + 1
    BY DEF NumberOf, YearStart
  <2>4. ~Ghost(date)
    BY <1>2, <2>1
  <2>5. Ghost(n) => F = 29
    <3>1. Ghost(n) => m = 2 /\ d + 1 = 29
      BY <2>1, PartsNamed
    <3>. QED
      BY <1>3, <1>4, <1>7, <3>1
  <2>6. February(Year(date + 1), feb) = F
    BY <1>5 DEF F
  <2>. QED
    BY <1>2, <2>2, <2>3, <2>4, <2>5, <2>6 DEF n
<1>8. CASE d + 1 > last
  <2>1. PICK y2 \in Int, m2 \in 1 .. 12 :
          y2 = (IF m = 12 THEN y + 1 ELSE y) /\ m2 = (IF m = 12 THEN 1 ELSE m + 1)
    OBVIOUS
  <2>2. n = DateOf(y2, m2, 1)
    BY <1>6, <1>8, <2>1
  <2>3. NumberOf(y2, m2, 1) = NumberOf(y, m, LastDay(y, m)) + 1
    BY <2>1, MonthStep
  <2>4. 1 <= LastDay(y2, m2) /\ 1 \in 1 .. 31
    BY LastDays
  <2>5. Named(n) /\ ~Ghost(n) /\ DayNumber(n) = NumberOf(y2, m2, 1)
    BY <2>2, <2>4, PartsNamed
  <2>6. /\ ~Ghost(date) => d = LastDay(y, m)
        /\ Ghost(date) => d = LastDay(y, m) + 1
    BY <1>1, <1>2, <1>3, <1>4, <1>8
  <2>7. NumberOf(y, m, LastDay(y, m) + 1) = NumberOf(y, m, LastDay(y, m)) + 1
    BY <1>4 DEF NumberOf, YearStart
  <2>. QED
    BY <1>2, <2>3, <2>5, <2>6, <2>7 DEF n
<1>. QED
  BY <1>7, <1>8

(* PreDate is the day before, or a ghost, from the first of March, if the  *)
(* table still has 29 days.                                                *)
LEMMA PreDay ==
  ASSUME NEW date, Named(date), NEW feb \in {28, 29}
  PROVE  LET pre == PreDate(date, feb) IN
         /\ Named(pre)
         /\ Ghost(pre) => /\ DayNumber(pre) = DayNumber(date) /\ ~Ghost(date)
                          /\ feb = 29 /\ ~leap_year(Year(date))
                          /\ date = DateOf(Year(date), 3, 1)
         /\ ~Ghost(pre) => DayNumber(pre) = DayNumber(date) - 1
<1>1. PICK y \in Int, m \in 1 .. 12, d \in 1 .. 31 :
        /\ date = DateOf(y, m, d) /\ y = Year(date)
        /\ m = 2 => d <= 29
        /\ m # 2 => d <= LastDay(y, m)
  BY NamedParts
<1>. DEFINE F == February(y, feb)
            last == MONTH_DAY(F)[(m - 1) % 12]
            n == PreDate(date, feb)
<1>2. /\ Ghost(date) <=> m = 2 /\ d = 29 /\ ~leap_year(y)
      /\ DayNumber(date) = NumberOf(y, m, d)
  BY <1>1, PartsNamed
<1>3. F \in {28, 29} /\ (leap_year(y) => F = 29) /\ (~leap_year(y) => F = feb)
  BY DEF February
<1>4. Year(date - 1) = y /\ Month(date - 1) = m /\ Day(date - 1) = d - 1
  <2>1. PICK e \in 0 .. 99 : e = d - 1
    OBVIOUS
  <2>2. date - 1 = DateOf(y, m, e) /\ m \in 0 .. 99
    BY <1>1, <2>1 DEF DateOf
  <2>3. /\ Year(DateOf(y, m, e)) = y /\ Month(DateOf(y, m, e)) = m
        /\ Day(DateOf(y, m, e)) = e
    BY <2>2, DateParts
  <2>. QED
    BY <2>1, <2>2, <2>3
<1>5. n = IF d - 1 = 0
          THEN IF m - 1 = 0 THEN DateOf(y - 1, 12, last) ELSE DateOf(y, m - 1, last)
          ELSE DateOf(y, m, d - 1)
  BY <1>4 DEF PreDate
<1>. HIDE DEF n, F
<1>6. CASE d # 1
  <2>1. PICK e \in 1 .. 31 : e = d - 1
    BY <1>6
  <2>2. LastDay(y, m) \in Int
    BY LastDays
  <2>3. n = DateOf(y, m, e) /\ (m = 2 => e <= 28) /\ (m # 2 => e <= LastDay(y, m))
    BY <1>1, <1>5, <1>6, <2>1, <2>2
  <2>4. Named(n) /\ ~Ghost(n) /\ DayNumber(n) = NumberOf(y, m, e)
    BY <2>3, PartsNamed
  <2>5. NumberOf(y, m, d) - 1 = NumberOf(y, m, e)
    BY <2>1 DEF NumberOf, YearStart
  <2>. QED
    BY <1>2, <2>4, <2>5 DEF n
<1>7. CASE d = 1
  <2>1. PICK y1 \in Int, m1 \in 1 .. 12 :
          /\ y1 = (IF m = 1 THEN y - 1 ELSE y) /\ m1 = (IF m = 1 THEN 12 ELSE m - 1)
          /\ m1 % 12 = (m - 1) % 12
          /\ y = (IF m1 = 12 THEN y1 + 1 ELSE y1) /\ m = (IF m1 = 12 THEN 1 ELSE m1 + 1)
    OBVIOUS
  <2>2. /\ m1 # 2 => last = LastDay(y1, m1) /\ last \in {30, 31}
        /\ m1 = 2 => last = F /\ y1 = y /\ m = 3
        /\ LastDay(y1, 2) = IF leap_year(y1) THEN 29 ELSE 28
    <3>1. m1 = 2 => m1 % 12 = 2
      OBVIOUS
    <3>. QED
      BY <1>3, <2>1, <3>1, LastDays
  <2>3. n = DateOf(y1, m1, last)
    BY <1>5, <1>7, <2>1
  <2>. HIDE DEF last
  <2>4. last \in 1 .. 31 /\ (m1 = 2 => last <= 29) /\ (m1 # 2 => last <= LastDay(y1, m1))
    BY <1>3, <2>2
  <2>5. /\ Named(n) /\ DayNumber(n) = NumberOf(y1, m1, last)
        /\ Ghost(n) <=> m1 = 2 /\ last = 29 /\ ~leap_year(y1)
    BY <2>3, <2>4, PartsNamed
  <2>6. DayNumber(date) = NumberOf(y1, m1, LastDay(y1, m1)) + 1
    BY <1>2, <1>7, <2>1, MonthStep
  <2>7. CASE Ghost(n)
    <3>1. /\ last = 29 /\ LastDay(y1, m1) = 28 /\ feb = 29 /\ ~leap_year(y) /\ m1 = 2
          /\ m = 3
      BY <1>3, <2>2, <2>5, <2>7
    <3>2. NumberOf(y1, m1, 29) = NumberOf(y1, m1, 28) + 1
      BY DEF NumberOf, YearStart
    <3>3. ~Ghost(date)
      BY <1>2, <1>7
    <3>. QED
      BY <1>1, <1>7, <2>5, <2>6, <2>7, <3>1, <3>2, <3>3 DEF n
  <2>8. CASE ~Ghost(n)
    <3>1. last = LastDay(y1, m1)
      BY <1>3, <2>2, <2>5, <2>8
    <3>2. NumberOf(y1, m1, last) \in Int
      BY <2>4 DEF NumberOf, YearStart
    <3>. QED
      BY <2>5, <2>6, <2>8, <3>1, <3>2 DEF n
  <2>. QED
    BY <2>7, <2>8
<1>. QED
  BY <1>6, <1>7

-----------------------------------------------------------------------------
(* The walk.                                                               *)

(* The dates and tables a walk can be at.                                   *)
Table == [date : {date \in Int : Named(date)}, feb : {28, 29}]

(* The walks stay among the dates the table names.                         *)
LEMMA TurnNamed ==
  ASSUME NEW by \in {1, -1}, NEW p \in Table
  PROVE  Turn(by, p) \in Table
<1>1. Named(p.date) /\ p.feb \in {28, 29}
  BY DEF Table
<1>2. Named(NextDate(p.date, p.feb)) /\ Named(PreDate(p.date, p.feb))
  BY <1>1, NextDay, PreDay
<1>3. Named(Turn(by, p).date) /\ Turn(by, p).feb \in {28, 29}
  BY <1>1, <1>2 DEF Turn, February
<1>4. Turn(by, p) = [date |-> Turn(by, p).date, feb |-> Turn(by, p).feb]
  BY DEF Turn
<1>. QED
  BY <1>3, <1>4 DEF Table, Named

(* What the turns are, without the recursion.                               *)
AreTurns(after, by, date, feb) ==
  /\ after[0] = [date |-> date, feb |-> feb]
  /\ \A k \in 1 .. Longest : after[k] = Turn(by, after[k - 1])
  /\ \A k \in 0 .. Longest : after[k] \in Table

LEMMA TurnsAre ==
  ASSUME NEW by \in {1, -1}, NEW date, Named(date), NEW feb \in {28, 29}
  PROVE  AreTurns(Turns(by, date, feb), by, date, feb)
<1>. DEFINE D == 0 .. Longest
            first == [date |-> date, feb |-> feb]
            IsTurns(f) == f = [k \in D |-> IF k = 0 THEN first ELSE Turn(by, f[k - 1])]
            g == [q \in Nat \X Table |-> Turn(by, q[2])]
<1>0. Longest \in Nat /\ first \in Table
  BY TradeCalendarAssumption DEF Table, Named
<1>1. g \in [Nat \X Table -> Table]
  <2>1. \A q \in Nat \X Table : Turn(by, q[2]) \in Table
    BY TurnNamed
  <2>. QED
    BY <2>1
<1>. HIDE DEF first
<1>2. PICK h \in [D -> Table] : Computes(h, g, first, Longest)
  <2>. HIDE DEF g
  <2>. QED
    BY <1>0, <1>1, ComputationExists
<1>3. h[0] = first /\ \A k \in 1 .. Longest : h[k] = Turn(by, h[k - 1])
  <2>1. \A k \in 1 .. Longest : k - 1 \in D /\ k \in Nat
    BY <1>0
  <2>2. \A k \in 1 .. Longest : g[<<k, h[k - 1]>>] = Turn(by, h[k - 1])
    BY <2>1
  <2>. QED
    BY <1>2, <2>2 DEF Computes
<1>4. IsTurns(h)
  <2>1. \A k \in D : h[k] = IF k = 0 THEN first ELSE Turn(by, h[k - 1])
    BY <1>0, <1>3
  <2>2. h = [k \in D |-> h[k]]
    OBVIOUS
  <2>. QED
    BY <2>1, <2>2
<1>. DEFINE after == CHOOSE f : IsTurns(f)
<1>5. IsTurns(after) /\ Turns(by, date, feb) = after
  <2>1. IsTurns(after)
    <3>1. \E f : IsTurns(f)
      BY <1>4
    <3>. HIDE DEF IsTurns
    <3>. QED
      BY <3>1
  <2>. QED
    BY <2>1 DEF Turns, first
<1>. HIDE DEF after
<1>6. after[0] = first /\ \A k \in 1 .. Longest : after[k] = Turn(by, after[k - 1])
  <2>1. \A k \in D : after[k] = IF k = 0 THEN first ELSE Turn(by, after[k - 1])
    BY <1>5
  <2>. QED
    BY <1>0, <2>1
<1>7. \A k \in Nat : k \in D => after[k] \in Table
  <2>. DEFINE P == {k \in Nat : k \in D => after[k] \in Table}
  <2>1. 0 \in P
    BY <1>0, <1>6
  <2>2. ASSUME NEW k \in Nat, k \in P PROVE k + 1 \in P
    <3>. SUFFICES ASSUME k + 1 \in D PROVE after[k + 1] \in Table
      OBVIOUS
    <3>1. k \in D /\ k + 1 \in 1 .. Longest /\ (k + 1) - 1 = k
      BY <1>0
    <3>2. after[k + 1] = Turn(by, after[k]) /\ after[k] \in Table
      BY <1>6, <2>2, <3>1
    <3>. QED
      BY <3>2, TurnNamed
  <2>3. Nat \subseteq P
    <3>. HIDE DEF P
    <3>. QED
      BY <2>1, <2>2, CountingUp
  <2>. QED
    BY <2>3
<1>8. \A k \in D : after[k] \in Table
  BY <1>0, <1>7
<1>. QED
  BY <1>5, <1>6, <1>8 DEF AreTurns, first

(* Numbers that rise by one at a turn or stand still, never twice in a row. *)
Rises(n, last) ==
  /\ n[0] = 0
  /\ \A k \in 1 .. last : n[k] \in Int /\ n[k - 1] <= n[k] /\ n[k] <= n[k - 1] + 1
  /\ \A k \in 2 .. last : n[k - 2] < n[k]

(* They come by every number on their way.                                  *)
LEMMA RisingThrough ==
  ASSUME NEW last \in Nat, NEW n, Rises(n, last), NEW k \in 0 .. last
  PROVE  /\ n[k] \in Nat
         /\ \A i \in 1 .. n[k] : \E j \in 1 .. k : n[j] = i
<1>. DEFINE P == {e \in Nat : e <= last =>
                   /\ n[e] \in Nat
                   /\ \A i \in 1 .. n[e] : \E j \in 1 .. e : n[j] = i}
<1>1. 0 \in P
  BY DEF Rises
<1>2. ASSUME NEW e \in Nat, e \in P PROVE e + 1 \in P
  <2>. SUFFICES ASSUME e + 1 <= last
                PROVE  /\ n[e + 1] \in Nat
                       /\ \A i \in 1 .. n[e + 1] : \E j \in 1 .. e + 1 : n[j] = i
    OBVIOUS
  <2>1. e + 1 \in 1 .. last /\ (e + 1) - 1 = e /\ e <= last
    OBVIOUS
  <2>2. n[e] \in Nat /\ \A i \in 1 .. n[e] : \E j \in 1 .. e : n[j] = i
    BY <1>2, <2>1
  <2>3. n[e + 1] \in Int /\ n[e] <= n[e + 1] /\ n[e + 1] <= n[e] + 1
    BY <2>1 DEF Rises
  <2>4. ASSUME NEW i \in 1 .. n[e + 1] PROVE \E j \in 1 .. e + 1 : n[j] = i
    <3>1. CASE i <= n[e]
      <4>1. i \in 1 .. n[e]
        BY <2>2, <2>3, <3>1
      <4>2. PICK j \in 1 .. e : n[j] = i
        BY <2>2, <4>1
      <4>3. j \in 1 .. e + 1
        OBVIOUS
      <4>. QED
        BY <4>2, <4>3
    <3>2. CASE ~(i <= n[e])
      <4>1. i = n[e + 1] /\ e + 1 \in 1 .. e + 1
        BY <2>2, <2>3, <3>2
      <4>. QED
        BY <4>1
    <3>. QED
      BY <3>1, <3>2
  <2>. QED
    BY <2>2, <2>3, <2>4
<1>3. Nat \subseteq P
  <2>. HIDE DEF P
  <2>. QED
    BY <1>1, <1>2, CountingUp
<1>. QED
  BY <1>3

(* In twice as many turns they come as far as any number.                   *)
LEMMA RisingFar ==
  ASSUME NEW last \in Nat, NEW n, Rises(n, last), NEW m \in Nat, 2 * m <= last
  PROVE  n[2 * m] >= m
<1>. DEFINE P == {e \in Nat : 2 * e <= last => n[2 * e] >= e}
<1>1. 0 \in P
  BY DEF Rises
<1>2. ASSUME NEW e \in Nat, e \in P PROVE e + 1 \in P
  <2>. SUFFICES ASSUME 2 * (e + 1) <= last PROVE n[2 * (e + 1)] >= e + 1
    OBVIOUS
  <2>1. PICK k \in 2 .. last : k = 2 * (e + 1) /\ k - 2 = 2 * e
    OBVIOUS
  <2>2. n[k - 2] >= e
    BY <1>2, <2>1
  <2>3. n[k - 2] < n[k]
    BY DEF Rises
  <2>4. n[k - 2] \in Nat /\ n[k] \in Nat
    BY RisingThrough
  <2>. QED
    BY <2>1, <2>2, <2>3, <2>4
<1>3. Nat \subseteq P
  <2>. HIDE DEF P
  <2>. QED
    BY <1>1, <1>2, CountingUp
<1>. QED
  BY <1>3

(* How far the k-th turn has come, in days.                                 *)
Come(by, date, feb) ==
  LET after == Turns(by, date, feb) IN
  [k \in 0 .. Longest |->
     IF by = 1 THEN DayNumber(after[k].date) - DayNumber(date)
     ELSE DayNumber(date) - DayNumber(after[k].date)]

(* Days are numbered.                                                      *)
LEMMA NumberType ==
  ASSUME NEW date, Named(date)
  PROVE  DayNumber(date) \in Int
<1>1. Year(date) \in Int /\ Month(date) \in Int /\ Day(date) \in Int
  BY DateWhole DEF Named
<1>. QED
  BY <1>1 DEF DayNumber

(* A turn leads one day on, except at a ghost.                              *)
LEMMA ComeSteps ==
  ASSUME NEW by \in {1, -1}, NEW date, Named(date), NEW feb \in {28, 29}
  PROVE  LET n == Come(by, date, feb)
             after == Turns(by, date, feb)
         IN
         /\ n[0] = 0
         /\ \A k \in 1 .. Longest :
              /\ n[k] \in Int /\ n[k - 1] \in Int
              /\ n[k - 1] <= n[k] /\ n[k] <= n[k - 1] + 1
              /\ n[k - 1] = n[k] =>
                   IF by = 1 THEN Ghost(after[k - 1].date) /\ ~Ghost(after[k].date)
                   ELSE Ghost(after[k].date) /\ ~Ghost(after[k - 1].date)
<1>. DEFINE after == Turns(by, date, feb)
            n == Come(by, date, feb)
<1>0. Longest \in Nat
  BY TradeCalendarAssumption
<1>. HIDE DEF after
<1>1. /\ after[0] = [date |-> date, feb |-> feb]
      /\ \A k \in 1 .. Longest : after[k] = Turn(by, after[k - 1])
      /\ \A k \in 0 .. Longest : after[k] \in Table
  <2>1. AreTurns(after, by, date, feb)
    BY TurnsAre DEF after
  <2>. QED
    BY <2>1 DEF AreTurns
<1>2. \A k \in 0 .. Longest :
        n[k] = IF by = 1 THEN DayNumber(after[k].date) - DayNumber(date)
               ELSE DayNumber(date) - DayNumber(after[k].date)
  BY DEF Come, after
<1>. HIDE DEF n
<1>3. ASSUME NEW k \in 0 .. Longest
      PROVE  Named(after[k].date) /\ after[k].feb \in {28, 29}
             /\ DayNumber(after[k].date) \in Int /\ DayNumber(date) \in Int
  BY <1>1, NumberType DEF Table
<1>4. n[0] = 0
  <2>1. 0 \in 0 .. Longest /\ after[0].date = date /\ DayNumber(date) \in Int
    BY <1>0, <1>1, NumberType
  <2>. QED
    BY <1>2, <2>1
<1>5. ASSUME NEW k \in 1 .. Longest
      PROVE  /\ n[k] \in Int /\ n[k - 1] \in Int
             /\ n[k - 1] <= n[k] /\ n[k] <= n[k - 1] + 1
             /\ n[k - 1] = n[k] => IF by = 1 THEN Ghost(after[k - 1].date) /\ ~Ghost(after[k].date)
                                   ELSE Ghost(after[k].date) /\ ~Ghost(after[k - 1].date)
  <2>1. k - 1 \in 0 .. Longest /\ k \in 0 .. Longest
    BY <1>0
  <2>2. PICK from, to, f :
          /\ from = after[k - 1].date /\ to = after[k].date /\ f = after[k - 1].feb
          /\ Named(from) /\ Named(to) /\ f \in {28, 29}
          /\ DayNumber(from) \in Int /\ DayNumber(to) \in Int /\ DayNumber(date) \in Int
    BY <1>3, <2>1
  <2>3. to = IF by = 1 THEN NextDate(from, f) ELSE PreDate(from, f)
    <3>1. after[k] = Turn(by, after[k - 1])
      BY <1>1
    <3>2. after[k].date = IF by = 1 THEN NextDate(after[k - 1].date, after[k - 1].feb)
                          ELSE PreDate(after[k - 1].date, after[k - 1].feb)
      BY <3>1 DEF Turn
    <3>. QED
      BY <2>2, <3>2
  <2>4. CASE by = 1
    <3>1. /\ Ghost(from) => DayNumber(to) = DayNumber(from) /\ ~Ghost(to)
          /\ ~Ghost(from) => DayNumber(to) = DayNumber(from) + 1
      BY <2>2, <2>3, <2>4, NextDay
    <3>2. /\ n[k] = DayNumber(to) - DayNumber(date)
          /\ n[k - 1] = DayNumber(from) - DayNumber(date)
      BY <1>2, <2>1, <2>2, <2>4
    <3>. QED
      BY <2>2, <2>4, <3>1, <3>2
  <2>5. CASE by # 1
    <3>1. /\ Ghost(to) => DayNumber(to) = DayNumber(from) /\ ~Ghost(from)
          /\ ~Ghost(to) => DayNumber(to) = DayNumber(from) - 1
      BY <2>2, <2>3, <2>5, PreDay
    <3>2. /\ n[k] = DayNumber(date) - DayNumber(to)
          /\ n[k - 1] = DayNumber(date) - DayNumber(from)
      BY <1>2, <2>1, <2>2, <2>5
    <3>. QED
      BY <2>2, <2>5, <3>1, <3>2
  <2>. QED
    BY <2>4, <2>5
<1>. QED
  BY <1>4, <1>5 DEF n, after

(* So a walk never stands still twice.                                     *)
LEMMA WalkRises ==
  ASSUME NEW by \in {1, -1}, NEW date, Named(date), NEW feb \in {28, 29}
  PROVE  Rises(Come(by, date, feb), Longest)
<1>. DEFINE after == Turns(by, date, feb)
            n == Come(by, date, feb)
<1>. HIDE DEF after, n
<1>0. Longest \in Nat
  BY TradeCalendarAssumption
<1>1. /\ n[0] = 0
      /\ \A k \in 1 .. Longest :
           /\ n[k] \in Int /\ n[k - 1] \in Int
           /\ n[k - 1] <= n[k] /\ n[k] <= n[k - 1] + 1
           /\ n[k - 1] = n[k] =>
                IF by = 1 THEN Ghost(after[k - 1].date) /\ ~Ghost(after[k].date)
                ELSE Ghost(after[k].date) /\ ~Ghost(after[k - 1].date)
  BY ComeSteps DEF after, n
<1>2. ASSUME NEW k \in 2 .. Longest PROVE n[k - 2] < n[k]
  <2>1. k \in 1 .. Longest /\ k - 1 \in 1 .. Longest /\ (k - 1) - 1 = k - 2
    BY <1>0
  <2>2. /\ n[k] \in Int /\ n[k - 1] \in Int /\ n[k - 2] \in Int
        /\ n[k - 1] <= n[k] /\ n[k - 2] <= n[k - 1]
    BY <1>1, <2>1
  <2>3. ~(n[k - 1] = n[k] /\ n[k - 2] = n[k - 1])
    BY <1>1, <2>1
  <2>. QED
    BY <2>2, <2>3
<1>. QED
  BY <1>1, <1>2 DEF Rises, n

(* The loop ends behind its first trading day.                              *)
LEMMA WalkStops ==
  ASSUME NEW by \in {1, -1}, NEW date, NEW feb,
         \E j \in 1 .. Longest : trade_date(Turns(by, date, feb)[j].date)
  PROVE  \E k \in 1 .. Longest :
           /\ Walk(by, date, feb) = Turns(by, date, feb)[k]
           /\ trade_date(Turns(by, date, feb)[k].date)
           /\ \A j \in 1 .. k - 1 : ~trade_date(Turns(by, date, feb)[j].date)
<1>. DEFINE after == Turns(by, date, feb)
            Stop(k) == /\ trade_date(after[k].date)
                       /\ \A j \in 1 .. k - 1 : ~trade_date(after[j].date)
            S == {k \in 1 .. Longest : trade_date(after[k].date)}
<1>0. Longest \in Nat
  BY TradeCalendarAssumption
<1>. HIDE DEF after
<1>1. S # {} /\ S \subseteq Nat
  BY <1>0 DEF after
<1>2. PICK k \in S : \A j \in S : k <= j
  <2>. HIDE DEF S
  <2>. QED
    BY <1>1, FirstOne
<1>3. k \in 1 .. Longest /\ Stop(k)
  <2>1. ASSUME NEW j \in 1 .. k - 1 PROVE ~trade_date(after[j].date)
    <3>1. j \in 1 .. Longest /\ ~(k <= j)
      BY <1>0
    <3>. QED
      BY <1>2, <3>1
  <2>. QED
    BY <2>1
<1>. DEFINE stop == CHOOSE i \in 1 .. Longest : Stop(i)
<1>4. stop \in 1 .. Longest /\ Stop(stop)
  <2>. HIDE DEF Stop
  <2>. QED
    BY <1>3
<1>5. Walk(by, date, feb) = after[stop]
  BY DEF Walk, after
<1>. QED
  BY <1>4, <1>5 DEF after

(* A date of the calendar is in the table and no ghost.                    *)
LEMMA RealDates ==
  ASSUME NEW date, RealDate(date)
  PROVE  Named(date) /\ ~Ghost(date)
<1>1. date \in Int /\ Month(date) \in 1 .. 12 /\ Year(date) \in Int
  BY DateWhole DEF RealDate
<1>2. PICK y \in Int, m \in 1 .. 12 : y = Year(date) /\ m = Month(date)
  BY <1>1
<1>3. Day(date) \in 1 .. LastDay(y, m)
  BY <1>2 DEF RealDate, LastDay
<1>4. /\ m # 2 => MONTH_DAY(29)[m % 12] = LastDay(y, m)
      /\ MONTH_DAY(29)[2] = 29
      /\ LastDay(y, 2) = IF leap_year(y) THEN 29 ELSE 28
  BY LastDays
<1>5. 2 % 12 = 2
  OBVIOUS
<1>6. Day(date) \in 1 .. MONTH_DAY(29)[m % 12] /\ ~(m = 2 /\ Day(date) = 29 /\ ~leap_year(y))
  BY <1>3, <1>4, <1>5
<1>. QED
  BY <1>1, <1>2, <1>6 DEF Named, Ghost

(* And a date in the table that is no ghost is one of the calendar.        *)
LEMMA NamedReal ==
  ASSUME NEW date, Named(date), ~Ghost(date)
  PROVE  RealDate(date)
<1>1. PICK y \in Int, m \in 1 .. 12, d \in 1 .. 31 :
        /\ date = DateOf(y, m, d)
        /\ y = Year(date) /\ m = Month(date) /\ d = Day(date)
        /\ m = 2 => d <= 29
        /\ m # 2 => d <= LastDay(y, m)
  BY NamedParts
<1>2. LastDay(y, 2) = IF leap_year(y) THEN 29 ELSE 28
  BY LastDays
<1>3. LastDay(y, m) \in Int
  BY LastDays
<1>4. ~(m = 2 /\ d = 29 /\ ~leap_year(y))
  BY <1>1 DEF Ghost
<1>5. d \in 1 .. LastDay(y, m)
  BY <1>1, <1>2, <1>3, <1>4
<1>6. date \in Int
  BY DEF Named
<1>. QED
  BY <1>1, <1>5, <1>6 DEF RealDate, LastDay

(* The parts of a ghost.                                                   *)
LEMMA GhostParts ==
  ASSUME NEW date, Named(date), Ghost(date)
  PROVE  ~leap_year(Year(date)) /\ date = DateOf(Year(date), 2, 29)
<1>1. date \in Int
  BY DEF Named
<1>2. date = DateOf(Year(date), Month(date), Day(date))
  BY <1>1, DateWhole
<1>. QED
  BY <1>2 DEF Ghost

(* A ghost is only named with 29 days in the table, and by PreDate only for *)
(* the first of March.                                                     *)
LEMMA TurnGhost ==
  ASSUME NEW by \in {1, -1}, NEW p \in Table, Ghost(Turn(by, p).date)
  PROVE  /\ Turn(by, p).feb = 29
         /\ by = -1 => DayNumber(Turn(by, p).date) = DayNumber(p.date)
<1>1. Named(p.date) /\ p.feb \in {28, 29}
  BY DEF Table
<1>2. CASE by = 1
  <2>1. Turn(by, p).date = NextDate(p.date, p.feb)
        /\ Turn(by, p).feb = February(Year(p.date + 1), p.feb)
    BY <1>2 DEF Turn
  <2>2. Ghost(NextDate(p.date, p.feb)) => February(Year(p.date + 1), p.feb) = 29
    BY <1>1, NextDay
  <2>. QED
    BY <1>2, <2>1, <2>2
<1>3. CASE by = -1
  <2>1. Turn(by, p).date = PreDate(p.date, p.feb)
        /\ Turn(by, p).feb = February(Year(p.date + by), p.feb)
    BY <1>3 DEF Turn
  <2>2. Ghost(PreDate(p.date, p.feb)) =>
          DayNumber(PreDate(p.date, p.feb)) = DayNumber(p.date) /\ p.feb = 29
    BY <1>1, PreDay
  <2>. QED
    BY <2>1, <2>2 DEF February
<1>. QED
  BY <1>2, <1>3

(* The number of the day i days on.                                         *)
Shift(by, date, i) == IF by = 1 THEN DayNumber(date) + i ELSE DayNumber(date) - i

(* Where the k-th turn is, from how far it has come.                       *)
LEMMA ComeShift ==
  ASSUME NEW by \in {1, -1}, NEW date, Named(date), NEW feb \in {28, 29},
         NEW k \in 0 .. Longest
  PROVE  DayNumber(Turns(by, date, feb)[k].date) = Shift(by, date, Come(by, date, feb)[k])
<1>1. Turns(by, date, feb)[k] \in Table
  BY TurnsAre DEF AreTurns
<1>2. /\ DayNumber(Turns(by, date, feb)[k].date) \in Int
      /\ DayNumber(date) \in Int
  BY <1>1, NumberType DEF Table
<1>3. Come(by, date, feb)[k] =
        IF by = 1 THEN DayNumber(Turns(by, date, feb)[k].date) - DayNumber(date)
        ELSE DayNumber(date) - DayNumber(Turns(by, date, feb)[k].date)
  BY DEF Come
<1>. QED
  BY <1>2, <1>3 DEF Shift

(* A walk names the nearest trading day, or, from the first of March of a   *)
(* year with a ghost in the table, that day itself.  It names it by its     *)
(* date of the calendar, or as a ghost: forwards with 29 days in the table, *)
(* backwards only from that first of March.                                *)
LEMMA WalkFinds ==
  ASSUME NEW by \in {1, -1}, NEW date, RealDate(date), TradingNear(date),
         NEW feb \in {28, 29}
  PROVE  LET w == Walk(by, date, feb) IN
         /\ w.feb \in {28, 29}
         /\ TradingDay(DayNumber(w.date))
         /\ \E m \in Nat :
              /\ DayNumber(w.date) = Shift(by, date, m)
              /\ \A i \in 1 .. m - 1 : ~TradingDay(Shift(by, date, i))
              /\ m = 0 => /\ by = -1 /\ feb = 29 /\ ~leap_year(Year(date))
                          /\ date = DateOf(Year(date), 3, 1)
              /\ m = 0 => Ghost(w.date)
              /\ Ghost(w.date) => (by = 1 \/ m = 0) /\ w.feb = 29
         /\ Named(w.date)
<1>. DEFINE after == Turns(by, date, feb)
            n == Come(by, date, feb)
            w == Walk(by, date, feb)
<1>. HIDE DEF after, n, w
<1>0. Longest \in Nat
  BY TradeCalendarAssumption
<1>1. Named(date) /\ ~Ghost(date)
  BY RealDates
<1>2. Rises(n, Longest)
  BY <1>1, WalkRises DEF n
<1>2a. AreTurns(after, by, date, feb)
  BY <1>1, TurnsAre DEF after
<1>3. \A k \in 0 .. Longest : DayNumber(after[k].date) = Shift(by, date, n[k])
  BY <1>1, ComeShift DEF n, after
<1>4. \E j \in 1 .. Longest : trade_date(after[j].date)
  <2>1. PICK m \in 1 .. Longest \div 2 : TradingDay(Shift(by, date, m))
    BY DEF TradingNear, Shift
  <2>2. PICK k \in 0 .. Longest : k = 2 * m /\ m \in Nat
    BY <1>0
  <2>3. n[k] >= m /\ n[k] \in Nat /\ \A i \in 1 .. n[k] : \E j \in 1 .. k : n[j] = i
    <3>1. n[2 * m] >= m
      BY <1>0, <1>2, <2>2, RisingFar
    <3>. QED
      BY <1>0, <1>2, <2>2, <3>1, RisingThrough
  <2>4. PICK j \in 1 .. k : n[j] = m
    BY <2>2, <2>3
  <2>5. j \in 1 .. Longest /\ j \in 0 .. Longest
    BY <1>0
  <2>. QED
    BY <1>3, <2>1, <2>4, <2>5 DEF trade_date
<1>5. PICK k \in 1 .. Longest :
        /\ w = after[k]
        /\ trade_date(after[k].date)
        /\ \A j \in 1 .. k - 1 : ~trade_date(after[j].date)
  BY <1>4, WalkStops DEF after, w
<1>6. k \in 0 .. Longest
  BY <1>0
<1>7. n[k] \in Nat /\ \A i \in 1 .. n[k] : \E j \in 1 .. k : n[j] = i
  BY <1>0, <1>2, <1>6, RisingThrough
<1>8. ASSUME NEW i \in 1 .. n[k] - 1 PROVE ~TradingDay(Shift(by, date, i))
  <2>1. PICK j \in 1 .. k : n[j] = i
    BY <1>7
  <2>2. j # k
    BY <1>7, <2>1
  <2>3. j \in 1 .. k - 1 /\ j \in 0 .. Longest
    BY <1>0, <2>2
  <2>. QED
    BY <1>3, <1>5, <2>1, <2>3 DEF trade_date
<1>9. ASSUME n[k] = 0
      PROVE  /\ by = -1 /\ feb = 29 /\ ~leap_year(Year(date)) /\ date = DateOf(Year(date), 3, 1)
             /\ Ghost(w.date)
  <2>1. k = 1
    <3>. SUFFICES ASSUME k # 1 PROVE FALSE
      OBVIOUS
    <3>1. k \in 2 .. Longest /\ k - 2 \in 0 .. Longest
      BY <1>0
    <3>2. n[k - 2] \in Nat
      BY <1>0, <1>2, <3>1, RisingThrough
    <3>. QED
      BY <1>2, <1>9, <3>1, <3>2 DEF Rises
  <2>2. /\ n[0] = 0
        /\ n[1 - 1] = n[1] =>
             IF by = 1 THEN Ghost(after[1 - 1].date) ELSE Ghost(after[1].date)
    BY <1>1, <2>1, ComeSteps DEF n, after
  <2>3. /\ after[0] = [date |-> date, feb |-> feb]
        /\ after[1] = Turn(by, after[1 - 1])
    BY <1>2a, <2>1 DEF AreTurns
  <2>4. 1 - 1 = 0
    OBVIOUS
  <2>5. IF by = 1 THEN Ghost(date) ELSE Ghost(after[1].date)
    BY <1>9, <2>1, <2>2, <2>3, <2>4
  <2>6. by = -1 /\ Ghost(after[1].date)
    BY <1>1, <2>5
  <2>7. after[1].date = PreDate(date, feb)
    BY <2>3, <2>4, <2>6 DEF Turn
  <2>8. feb = 29 /\ ~leap_year(Year(date)) /\ date = DateOf(Year(date), 3, 1)
    BY <1>1, <2>6, <2>7, PreDay
  <2>. QED
    BY <1>5, <2>1, <2>6, <2>8
<1>10. w.feb \in {28, 29} /\ Named(w.date)
  <2>1. after[k] \in Table
    BY <1>6, <1>2a DEF AreTurns
  <2>. QED
    BY <1>5, <2>1 DEF Table
<1>11. ASSUME Ghost(w.date) PROVE (by = 1 \/ n[k] = 0) /\ w.feb = 29
  <2>1. k - 1 \in 0 .. Longest
    BY <1>0
  <2>2. after[k] = Turn(by, after[k - 1]) /\ after[k - 1] \in Table
    BY <1>2a, <2>1 DEF AreTurns
  <2>3. w.feb = 29 /\ (by = -1 => DayNumber(w.date) = DayNumber(after[k - 1].date))
    BY <1>5, <1>11, <2>2, TurnGhost
  <2>4. ASSUME by = -1 PROVE n[k] = 0
    <3>1. trade_date(after[k - 1].date)
      BY <1>5, <2>3, <2>4 DEF trade_date
    <3>2. ~(k - 1 \in 1 .. k - 1)
      BY <1>5, <3>1
    <3>3. k = 1
      BY <1>0, <3>2
    <3>4. after[0] = [date |-> date, feb |-> feb] /\ k - 1 = 0
      BY <1>2a, <3>3 DEF AreTurns
    <3>5. DayNumber(w.date) = DayNumber(date) /\ DayNumber(date) \in Int
      BY <1>1, <2>3, <2>4, <3>4, NumberType
    <3>6. DayNumber(w.date) = DayNumber(date) - n[k]
      BY <1>3, <1>5, <1>6, <2>4 DEF Shift
    <3>. QED
      BY <1>7, <3>5, <3>6
  <2>. QED
    BY <2>3, <2>4
<1>12. DayNumber(w.date) = Shift(by, date, n[k]) /\ TradingDay(DayNumber(w.date))
  BY <1>3, <1>5, <1>6 DEF trade_date
<1>. QED
  BY <1>7, <1>8, <1>9, <1>10, <1>11, <1>12 DEF w

(* The trading hours end with the market.                                  *)
LEMMA HoursEnd ==
  ASSUME NEW time, time \in TradingHours
  PROVE  time <= 150000
BY DEF TradingHours

(* The table has one of its two values at every question.                   *)
CalInv == february \in {28, 29} /\ TradeDaysInOrder

(* For any set of dates of the calendar asked about in any order:           *)
(* NextTradeDate answers the first trading day after the date, PreTradeDate *)
(* the last one before it, across the ends of months, leap days and         *)
(* holidays, and the answer is a date of the calendar.  Only while an       *)
(* earlier question has left 29 days to February may NextTradeDate write    *)
(* the first of March of a common year as a 29th of February, and           *)
(* PreTradeDate answer so to a first of March.  The trading hours of        *)
(* is_trading_time lie on the trading days of is_trading_day and end by     *)
(* market_close_time.                                                      *)
THEOREM TradingDaysInOrder == CalSpec => []TradeDaysInOrder
<1>1. CalInit => CalInv
  BY DEF CalInit, CalInv, TradeDaysInOrder, NoCall
<1>2. ASSUME CalInv, [CalNext]_calVars PROVE CalInv'
  <2>1. ASSUME NEW date \in AskedDates, AskNext(date) PROVE CalInv'
    <3>. DEFINE w == Walk(1, date, february)
    <3>1. RealDate(date) /\ TradingNear(date) /\ february \in {28, 29}
      BY <1>2, TradeCalendarAssumption DEF CalInv
    <3>. HIDE DEF w
    <3>2. w.feb \in {28, 29} /\ TradingDay(DayNumber(w.date)) /\ Named(w.date)
      BY <3>1, WalkFinds DEF w
    <3>3. PICK m \in Nat :
            /\ DayNumber(w.date) = DayNumber(date) + m
            /\ \A i \in 1 .. m - 1 : ~TradingDay(DayNumber(date) + i)
            /\ m # 0
            /\ Ghost(w.date) => w.feb = 29
      BY <3>1, WalkFinds DEF w, Shift
    <3>4. DayNumber(date) \in Int
      BY <3>1, RealDates, NumberType
    <3>5. ASSUME NEW x \in DayNumber(date) + 1 .. DayNumber(w.date) - 1
          PROVE  ~TradingDay(x)
      <4>1. PICK i \in 1 .. m - 1 : x = DayNumber(date) + i
        <5>1. DayNumber(w.date) = DayNumber(date) + m
          BY <3>3
        <5>2. x - DayNumber(date) \in 1 .. m - 1 /\ x = DayNumber(date) + (x - DayNumber(date))
          BY <3>4, <5>1
        <5>. QED
          BY <5>2
      <4>. QED
        BY <3>3, <4>1
    <3>6. DayNumber(w.date) > DayNumber(date)
      BY <3>3, <3>4
    <3>7. /\ calAsked' = [method |-> "NextTradeDate", date |-> date, feb |-> february]
          /\ calAnswer' = w.date /\ february' = w.feb
      BY <2>1 DEF AskNext, NextTradeDate, w
    <3>8. calAsked'.method = "NextTradeDate" /\ calAsked'.date = date
      BY <3>7
    <3>9. RealDate(w.date) \/ (/\ w.feb = 29 /\ ~leap_year(Year(w.date))
                                 /\ w.date = DateOf(Year(w.date), 2, 29))
      BY <3>2, <3>3, NamedReal, GhostParts
    <3>10. (RealDate(calAnswer) \/ NoSuchDay(calAnswer))'
      BY <3>7, <3>9 DEF NoSuchDay
    <3>. QED
      BY <3>2, <3>5, <3>6, <3>7, <3>8, <3>10 DEF CalInv, TradeDaysInOrder
  <2>2. ASSUME NEW date \in AskedDates, AskPre(date) PROVE CalInv'
    <3>. DEFINE w == Walk(-1, date, february)
    <3>1. RealDate(date) /\ TradingNear(date) /\ february \in {28, 29}
      BY <1>2, TradeCalendarAssumption DEF CalInv
    <3>. HIDE DEF w
    <3>2. w.feb \in {28, 29} /\ TradingDay(DayNumber(w.date)) /\ Named(w.date)
      BY <3>1, WalkFinds DEF w
    <3>3. PICK m \in Nat :
            /\ DayNumber(w.date) = DayNumber(date) - m
            /\ \A i \in 1 .. m - 1 : ~TradingDay(DayNumber(date) - i)
            /\ m = 0 => /\ february = 29 /\ ~leap_year(Year(date))
                        /\ date = DateOf(Year(date), 3, 1)
            /\ m = 0 => Ghost(w.date)
            /\ Ghost(w.date) => m = 0 /\ w.feb = 29
      BY <3>1, WalkFinds DEF w, Shift
    <3>4. DayNumber(date) \in Int
      BY <3>1, RealDates, NumberType
    <3>5. ASSUME NEW x \in DayNumber(w.date) + 1 .. DayNumber(date) - 1
          PROVE  ~TradingDay(x)
      <4>1. PICK i \in 1 .. m - 1 : x = DayNumber(date) - i
        <5>1. DayNumber(w.date) = DayNumber(date) - m
          BY <3>3
        <5>2. DayNumber(date) - x \in 1 .. m - 1 /\ x = DayNumber(date) - (DayNumber(date) - x)
          BY <3>4, <5>1
        <5>. QED
          BY <5>2
      <4>. QED
        BY <3>3, <4>1
    <3>6. m # 0 => DayNumber(w.date) < DayNumber(date)
      BY <3>3, <3>4
    <3>7. /\ calAsked' = [method |-> "PreTradeDate", date |-> date, feb |-> february]
          /\ calAnswer' = w.date /\ february' = w.feb
      BY <2>2 DEF AskPre, PreTradeDate, w
    <3>8. /\ calAsked'.method = "PreTradeDate" /\ calAsked'.date = date
          /\ calAsked'.feb = february
      BY <3>7
    <3>9. m = 0 => /\ StaleMarch' /\ NoSuchDay(calAnswer)'
                   /\ DayNumber(calAnswer') = DayNumber(date)
      <4>. SUFFICES ASSUME m = 0
                    PROVE  /\ StaleMarch' /\ NoSuchDay(calAnswer)'
                           /\ DayNumber(calAnswer') = DayNumber(date)
        OBVIOUS
      <4>1. /\ february = 29 /\ ~leap_year(Year(date))
            /\ date = DateOf(Year(date), 3, 1)
            /\ DayNumber(w.date) = DayNumber(date)
        BY <3>3, <3>4
      <4>2. StaleMarch'
        BY <3>2, <3>8, <4>1 DEF StaleMarch, trade_date
      <4>3. /\ w.feb = 29 /\ ~leap_year(Year(w.date))
            /\ w.date = DateOf(Year(w.date), 2, 29)
        BY <3>2, <3>3, GhostParts
      <4>4. NoSuchDay(calAnswer)'
        BY <3>7, <4>3 DEF NoSuchDay
      <4>. QED
        BY <3>7, <3>8, <4>1, <4>2, <4>4
    <3>10. m # 0 => RealDate(calAnswer')
      BY <3>2, <3>3, <3>7, NamedReal
    <3>. QED
      BY <3>2, <3>5, <3>6, <3>7, <3>8, <3>9, <3>10 DEF CalInv, TradeDaysInOrder
  <2>3. ASSUME NEW date \in AskedDates, NEW time \in Clocks, AskNow(date, time)
        PROVE  CalInv'
    <3>. DEFINE now == [date |-> date, time |-> time]
    <3>1. is_trading_time(now) => is_trading_day(now)
      BY DEF is_trading_time, is_trading_day, trade_date, TradingDay
    <3>2. is_trading_time(now) => now.time <= market_close_time(now)
      <4>. SUFFICES ASSUME is_trading_time(now) PROVE now.time <= 150000
        BY DEF market_close_time
      <4>1. now.time \in TradingHours
        BY DEF is_trading_time
      <4>. QED
        BY <4>1, HoursEnd
    <3>. HIDE DEF now
    <3>3. /\ calAsked'.method = "now" /\ calAsked'.time = now.time
          /\ calAnswer'.trading = is_trading_time(now)
          /\ calAnswer'.day = is_trading_day(now)
          /\ calAnswer'.close = market_close_time(now)
          /\ february' = february
      BY <2>3 DEF AskNow, now
    <3>. QED
      BY <1>2, <3>1, <3>2, <3>3 DEF CalInv, TradeDaysInOrder
  <2>4. CASE Answered
    BY <1>2, <2>4 DEF Answered, NoCall, CalInv, TradeDaysInOrder
  <2>5. CASE UNCHANGED calVars
    BY <1>2, <2>5 DEF calVars, CalInv, TradeDaysInOrder, StaleMarch, NoSuchDay
  <2>. QED
    BY <1>2, <2>1, <2>2, <2>3, <2>4, <2>5 DEF CalNext
<1>3. CalInv => TradeDaysInOrder
  BY DEF CalInv
<1>. QED
  BY <1>1, <1>2, <1>3, PTL DEF CalSpec
=============================================================================
