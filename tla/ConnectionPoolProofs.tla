------------------------ MODULE ConnectionPoolProofs ------------------------
(***************************************************************************)
(* Proofs about the pools of connections: MysqlPool, DbSql, and SqlDbPool   *)
(* under the snapshot of StockBasics, for any number of threads,            *)
(* connections, losses and file contents.  Each of them keeps the promise   *)
(* of ConnectionPool.                                                      *)
(***************************************************************************)
EXTENDS MysqlPool, DbSql, StockBasics, FiniteSetTheorems, SequenceTheorems, TLAPS

USE MysqlPoolAssumption, DbSqlAssumption, SqlDbPoolAssumption

-----------------------------------------------------------------------------
(* Lists.  Nothing is in a list twice.                                      *)
NoTwice(list) == \A i, j \in 1 .. Len(list) : list[i] = list[j] => i = j

(* A list of all the members of a set, each once.                           *)
LEMMA ListOfSet ==
  ASSUME NEW S, IsFiniteSet(S), NEW list \in SetToSeqs(S)
  PROVE  /\ list \in Seq(S) /\ Len(list) = Cardinality(S)
         /\ NoTwice(list) /\ ToSet(list) = S
<1> DEFINE n == Cardinality(S)
<1>1. n \in Nat BY FS_CardinalityType
<1>2. list \in [1 .. n -> S] /\ \A i, j \in 1 .. n : i # j => list[i] # list[j]
  BY DEF SetToSeqs
<1> HIDE DEF n
<1>3. list \in Seq(S) /\ Len(list) = n BY <1>1, <1>2
<1>4. list \in Injection(1 .. n, S) BY <1>2 DEF Injection, IsInjective
<1>5. Cardinality(1 .. n) = n
  BY <1>1, FS_Interval
<1>6. list \in Surjection(1 .. n, S) BY <1>4, <1>5, FS_Injection DEF n
<1>7. \A c \in S : \E i \in 1 .. n : list[i] = c BY <1>6 DEF Surjection
<1>8. DOMAIN list = 1 .. n BY <1>2
<1>9. ToSet(list) = S BY <1>2, <1>7, <1>8 DEF ToSet
<1> QED BY <1>2, <1>3, <1>9 DEF NoTwice, n

(* Taking the front, and pushing to the back.                               *)
LEMMA RestOfList ==
  ASSUME NEW S, NEW list \in Seq(S), list # <<>>
  PROVE  /\ Head(list) \in S /\ Head(list) = list[1]
         /\ Tail(list) \in Seq(S)
         /\ Len(list) \in Nat \ {0} /\ Len(Tail(list)) = Len(list) - 1
         /\ \A i \in 1 .. Len(list) - 1 : Tail(list)[i] = list[i + 1]
         /\ ToSet(list) = ToSet(Tail(list)) \cup {Head(list)}
<1>1. /\ Head(list) \in S /\ Head(list) = list[1]
      /\ Tail(list) \in Seq(S)
      /\ Len(list) \in Nat \ {0} /\ Len(Tail(list)) = Len(list) - 1
      /\ \A i \in 1 .. Len(list) - 1 : Tail(list)[i] = list[i + 1]
  BY HeadTailProperties, EmptySeq
<1>2. DOMAIN list = 1 .. Len(list) /\ DOMAIN Tail(list) = 1 .. Len(list) - 1
  BY <1>1, LenProperties
<1>3. ASSUME NEW i \in 1 .. Len(list)
      PROVE  list[i] \in ToSet(Tail(list)) \cup {Head(list)}
  <2>1. CASE i = 1 BY <1>1, <2>1
  <2>2. CASE i # 1
    <3>1. i - 1 \in 1 .. Len(list) - 1 /\ (i - 1) + 1 = i BY <1>1, <2>2
    <3>2. Tail(list)[i - 1] = list[i] BY <1>1, <3>1
    <3> QED BY <1>2, <3>1, <3>2 DEF ToSet
  <2> QED BY <2>1, <2>2
<1>4. ASSUME NEW i \in 1 .. Len(list) - 1 PROVE Tail(list)[i] \in ToSet(list)
  <2>1. i + 1 \in 1 .. Len(list) BY <1>1
  <2> QED BY <1>1, <1>2, <2>1 DEF ToSet
<1>5. Head(list) \in ToSet(list)
  <2>1. 1 \in 1 .. Len(list) BY <1>1
  <2> QED BY <1>1, <1>2, <2>1 DEF ToSet
<1>6. ToSet(list) \subseteq ToSet(Tail(list)) \cup {Head(list)}
  BY <1>2, <1>3 DEF ToSet
<1>7. ToSet(Tail(list)) \subseteq ToSet(list) BY <1>2, <1>4 DEF ToSet
<1> QED BY <1>1, <1>5, <1>6, <1>7

LEMMA LongerList ==
  ASSUME NEW S, NEW list \in Seq(S), NEW c \in S
  PROVE  /\ Append(list, c) \in Seq(S)
         /\ Len(list) \in Nat /\ Len(Append(list, c)) = Len(list) + 1
         /\ \A i \in 1 .. Len(list) : Append(list, c)[i] = list[i]
         /\ Append(list, c)[Len(list) + 1] = c
         /\ ToSet(Append(list, c)) = ToSet(list) \cup {c}
<1>1. /\ Append(list, c) \in Seq(S)
      /\ Len(list) \in Nat /\ Len(Append(list, c)) = Len(list) + 1
      /\ \A i \in 1 .. Len(list) : Append(list, c)[i] = list[i]
      /\ Append(list, c)[Len(list) + 1] = c
  BY AppendProperties, LenProperties
<1>2. DOMAIN list = 1 .. Len(list) /\ DOMAIN Append(list, c) = 1 .. Len(list) + 1
  BY <1>1, LenProperties
<1>3. \A i \in 1 .. Len(list) + 1 : i \in 1 .. Len(list) \/ i = Len(list) + 1
  BY <1>1
<1>4. 1 .. Len(list) \subseteq 1 .. Len(list) + 1 /\ Len(list) + 1 \in 1 .. Len(list) + 1
  BY <1>1
<1>5. ToSet(Append(list, c)) = ToSet(list) \cup {c}
  BY <1>1, <1>2, <1>3, <1>4 DEF ToSet
<1> QED BY <1>1, <1>5

-----------------------------------------------------------------------------
(* What is true of the list of a pool of any contents.                      *)
Single(list) ==
  \A i, j \in 1 .. Len(list) :
    list[i] = list[j] /\ list[i] # NullEngine => i = j

(* A connection is once in the list or with one thread.                     *)
OwnedOnce ==
  /\ Single(myList)
  /\ \A i \in 1 .. Len(myList), t \in MyThreads :
       myList[i] = myEngine[t] => myEngine[t] = NullEngine
  /\ \A t, u \in MyThreads :
       myEngine[t] = myEngine[u] /\ t # u => myEngine[t] = NullEngine

(* Before Init nothing has happened; only a thread between pop and push has *)
(* a connection.                                                           *)
StagesFit ==
  /\ myMade = IF myState = "new" THEN {} ELSE MyConns
  /\ myState = "new" => myList = <<>> /\ \A t \in MyThreads : myStage[t] = "idle"
  /\ \A t \in MyThreads : myStage[t] \in {"idle", "pop"} => myEngine[t] = NullEngine

MyInv == MyTypeOK /\ StagesFit /\ OwnedOnce

(* The list that Init fills has every connection once.                      *)
LEMMA FilledList ==
  ASSUME NEW list \in SetToSeqs(MyConns)
  PROVE  /\ list \in Seq(MyEntry) /\ Len(list) = Cardinality(MyConns)
         /\ Single(list) /\ ToSet(list) = MyConns
<1>1. /\ list \in Seq(MyConns) /\ Len(list) = Cardinality(MyConns)
      /\ NoTwice(list) /\ ToSet(list) = MyConns
  BY ListOfSet
<1> QED BY <1>1 DEF NoTwice, Single, MyEntry

-----------------------------------------------------------------------------
LEMMA MyInitInv == MyInit => MyInv
<1> SUFFICES ASSUME MyInit PROVE MyInv OBVIOUS
<1>1. <<>> \in Seq(MyEntry) /\ Len(<<>>) = 0 BY EmptySeq
<1>2. MyTypeOK BY <1>1 DEF MyInit, MyTypeOK, MyEntry
<1>3. OwnedOnce BY <1>1 DEF MyInit, OwnedOnce, Single
<1> QED BY <1>2, <1>3 DEF MyInit, MyInv, StagesFit

LEMMA InitParamInv ==
  ASSUME MyInv, InitParam
  PROVE  MyInv'
<1>1. myList' \in SetToSeqs(MyConns) /\ myState = "new" BY DEF InitParam
<1>2. \A t \in MyThreads : myEngine'[t] = NullEngine
  BY <1>1 DEF InitParam, MyInv, StagesFit
<1>3. myList' \in Seq(MyEntry) /\ Single(myList') /\ ToSet(myList') = MyConns
  BY <1>1, FilledList
<1>4. MyTypeOK' BY <1>1, <1>3 DEF InitParam, MyInv, MyTypeOK
<1>5. OwnedOnce' BY <1>2, <1>3 DEF OwnedOnce
<1>6. StagesFit' BY <1>2 DEF InitParam, StagesFit
<1> QED BY <1>4, <1>5, <1>6 DEF MyInv

LEMMA PopFrontInv ==
  ASSUME MyInv, NEW t \in MyThreads, PopFront(t)
  PROVE  MyInv'
<1>1. CASE myList = <<>>
  BY <1>1 DEF PopFront, MyAt, MyInv, MyTypeOK, StagesFit, OwnedOnce, Single
<1>2. CASE myList # <<>>
  <2>1. /\ myState = "open" /\ myStage[t] = "pop"
        /\ myEngine' = [myEngine EXCEPT ![t] = Head(myList)]
        /\ myList' = Tail(myList)
        /\ myStage' = [myStage EXCEPT ![t] = "use"]
        /\ UNCHANGED <<myLost, myDrops, myMade, myState>>
    BY <1>2 DEF PopFront, TakeFront, MyAt, MyGoto
  <2>2. /\ myList \in Seq(MyEntry) /\ myEngine \in [MyThreads -> MyEntry]
        /\ myStage \in [MyThreads -> {"idle", "pop", "use", "done"}]
    BY DEF MyInv, MyTypeOK
  <2>3. /\ Head(myList) \in MyEntry /\ Head(myList) = myList[1]
        /\ myList' \in Seq(MyEntry)
        /\ Len(myList) \in Nat \ {0} /\ Len(myList') = Len(myList) - 1
        /\ \A i \in 1 .. Len(myList') : myList'[i] = myList[i + 1]
    BY <1>2, <2>1, <2>2, RestOfList
  <2>4. \A i \in 1 .. Len(myList') :
          i + 1 \in 1 .. Len(myList) /\ i + 1 # 1 /\ 1 \in 1 .. Len(myList)
    BY <2>3
  <2>5. MyTypeOK' BY <2>1, <2>2, <2>3 DEF MyInv, MyTypeOK
  <2>6. StagesFit' BY <2>1, <2>2 DEF MyInv, StagesFit
  <2>7. Single(myList')
    <3>1. ASSUME NEW i \in 1 .. Len(myList'), NEW j \in 1 .. Len(myList'),
                 myList'[i] = myList'[j], myList'[i] # NullEngine
          PROVE  i = j
      <4>1. i + 1 = j + 1 BY <2>3, <2>4, <3>1 DEF MyInv, OwnedOnce, Single
      <4> QED BY <2>3, <4>1
    <3> QED BY <3>1 DEF Single
  <2>8. ASSUME NEW i \in 1 .. Len(myList'), NEW u \in MyThreads,
               myList'[i] = myEngine'[u]
        PROVE  myEngine'[u] = NullEngine
    <3>1. CASE u = t
      <4>1. myEngine'[u] = myList[1] /\ myList[i + 1] = myList[1]
        BY <2>1, <2>2, <2>3, <2>8, <3>1
      <4> QED BY <2>4, <4>1 DEF MyInv, OwnedOnce, Single
    <3>2. CASE u # t
      <4>1. myEngine'[u] = myEngine[u] /\ myList[i + 1] = myEngine[u]
        BY <2>1, <2>2, <2>3, <2>8, <3>2
      <4> QED BY <2>4, <4>1 DEF MyInv, OwnedOnce
    <3> QED BY <3>1, <3>2
  <2>9. \A u \in MyThreads \ {t} : myEngine[u] = myList[1] => myEngine[u] = NullEngine
    <3>1. 1 \in 1 .. Len(myList) BY <2>3
    <3> QED BY <3>1 DEF MyInv, OwnedOnce
  <2>10. ASSUME NEW u \in MyThreads, NEW w \in MyThreads,
                myEngine'[u] = myEngine'[w], u # w
         PROVE  myEngine'[u] = NullEngine
    BY <2>1, <2>2, <2>3, <2>9, <2>10 DEF MyInv, OwnedOnce
  <2>11. OwnedOnce' BY <2>7, <2>8, <2>10 DEF OwnedOnce
  <2> QED BY <2>5, <2>6, <2>11 DEF MyInv
<1> QED BY <1>1, <1>2

LEMMA PushInv ==
  ASSUME MyInv, NEW t \in MyThreads, DBConnectionPush(t)
  PROVE  MyInv'
<1>1. /\ myState = "open"
      /\ myList' = Append(myList, myEngine[t])
      /\ myEngine' = [myEngine EXCEPT ![t] = NullEngine]
      /\ myStage' = [myStage EXCEPT ![t] = "idle"]
      /\ UNCHANGED <<myLost, myDrops, myMade, myState>>
  BY DEF DBConnectionPush, PushBack, MyAt, MyGoto
<1>2. /\ myList \in Seq(MyEntry) /\ myEngine \in [MyThreads -> MyEntry]
      /\ myStage \in [MyThreads -> {"idle", "pop", "use", "done"}]
  BY DEF MyInv, MyTypeOK
<1>3. /\ myList' \in Seq(MyEntry) /\ Len(myList) \in Nat
      /\ Len(myList') = Len(myList) + 1
      /\ \A i \in 1 .. Len(myList) : myList'[i] = myList[i]
      /\ myList'[Len(myList) + 1] = myEngine[t]
  BY <1>1, <1>2, LongerList
<1>4. \A i \in 1 .. Len(myList') : i \in 1 .. Len(myList) \/ i = Len(myList) + 1
  BY <1>3
<1>5. MyTypeOK' BY <1>1, <1>2, <1>3 DEF MyInv, MyTypeOK, MyEntry
<1>6. StagesFit' BY <1>1, <1>2 DEF MyInv, StagesFit
<1>7. Single(myList')
  BY <1>3, <1>4 DEF MyInv, OwnedOnce, Single
<1>8. ASSUME NEW i \in 1 .. Len(myList'), NEW u \in MyThreads,
             myList'[i] = myEngine'[u]
      PROVE  myEngine'[u] = NullEngine
  BY <1>1, <1>2, <1>3, <1>4, <1>8 DEF MyInv, OwnedOnce
<1>9. ASSUME NEW u \in MyThreads, NEW w \in MyThreads,
             myEngine'[u] = myEngine'[w], u # w
      PROVE  myEngine'[u] = NullEngine
  BY <1>1, <1>2, <1>9 DEF MyInv, OwnedOnce
<1>10. OwnedOnce' BY <1>7, <1>8, <1>9 DEF OwnedOnce
<1> QED BY <1>5, <1>6, <1>10 DEF MyInv

LEMMA MyStepInv == MyInv /\ [MyNext]_myVars => MyInv'
<1> SUFFICES ASSUME MyInv, [MyNext]_myVars PROVE MyInv' OBVIOUS
<1>1. CASE InitParam BY <1>1, InitParamInv
<1>2. ASSUME NEW t \in MyThreads, TestSize(t) PROVE MyInv'
  BY <1>2 DEF TestSize, MyAt, MyGoto, MyInv, MyTypeOK, StagesFit, OwnedOnce, Single
<1>3. ASSUME NEW t \in MyThreads, PopFront(t) PROVE MyInv' BY <1>3, PopFrontInv
<1>4. ASSUME NEW t \in MyThreads, MyCall(t) PROVE MyInv'
  BY <1>4 DEF MyCall, MyAt, MyGoto, MyInv, MyTypeOK, StagesFit, OwnedOnce, Single
<1>5. ASSUME NEW t \in MyThreads, DBConnectionPush(t) PROVE MyInv' BY <1>5, PushInv
<1>6. ASSUME NEW c \in MyConns, MyDrop(c) PROVE MyInv'
  BY <1>6 DEF MyDrop, MyInv, MyTypeOK, StagesFit, OwnedOnce, Single
<1>7. CASE MyRelease
  <2>1. <<>> \in Seq(MyEntry) /\ Len(<<>>) = 0 BY EmptySeq
  <2> QED BY <1>7, <2>1 DEF MyRelease, MyInv, MyTypeOK, StagesFit, OwnedOnce, Single
<1>8. CASE UNCHANGED myVars
  BY <1>8 DEF myVars, MyInv, MyTypeOK, StagesFit, OwnedOnce, Single
<1> QED BY <1>1, <1>2, <1>3, <1>4, <1>5, <1>6, <1>7, <1>8 DEF MyNext

(* Every variable keeps its type, and a connection is once in the list or   *)
(* with one thread (mysql_pool.cc).                                         *)
THEOREM MysqlPoolTypes == MySpec => []MyInv
<1>1. MyInit => MyInv BY MyInitInv
<1>2. MyInv /\ [MyNext]_myVars => MyInv' BY MyStepInv
<1> QED BY <1>1, <1>2, PTL DEF MySpec

-----------------------------------------------------------------------------
(* The size of the list.                                                    *)
Holders == {t \in MyThreads : myStage[t] \in {"use", "done"}}

Bound == IF Cardinality(MyConns) > Cardinality(MyThreads)
         THEN Cardinality(MyConns) ELSE Cardinality(MyThreads)

LEMMA HoldersType ==
  /\ IsFiniteSet(Holders)
  /\ Cardinality(Holders) \in Nat /\ Cardinality(Holders) <= Cardinality(MyThreads)
  /\ Cardinality(MyThreads) \in Nat /\ Cardinality(MyConns) \in Nat
  /\ Bound \in Nat /\ Cardinality(MyThreads) <= Bound /\ Cardinality(MyConns) <= Bound
<1>1. Holders \in SUBSET MyThreads BY DEF Holders
<1>2. /\ Cardinality(MyThreads) \in Nat /\ Cardinality(MyConns) \in Nat
      /\ IsFiniteSet(Holders) /\ Cardinality(Holders) <= Cardinality(MyThreads)
  BY <1>1, FS_Subset, FS_CardinalityType
<1>3. Cardinality(Holders) \in Nat BY <1>2, FS_CardinalityType
<1> QED BY <1>2, <1>3 DEF Bound

(* A thread that begins to hold a slot, and one that ends.                  *)
LEMMA OneMore ==
  ASSUME MyTypeOK, NEW t \in MyThreads, myStage[t] \notin {"use", "done"},
         myStage' = [myStage EXCEPT ![t] = "use"]
  PROVE  Cardinality(Holders') = Cardinality(Holders) + 1
<1>1. Holders' = Holders \cup {t} /\ t \notin Holders BY DEF MyTypeOK, Holders
<1> QED BY <1>1, HoldersType, FS_AddElement

LEMMA OneLess ==
  ASSUME MyTypeOK, NEW t \in MyThreads, myStage[t] = "done",
         myStage' = [myStage EXCEPT ![t] = "idle"]
  PROVE  Cardinality(Holders') = Cardinality(Holders) - 1
<1>1. Holders' = Holders \ {t} /\ t \in Holders BY DEF MyTypeOK, Holders
<1> QED BY <1>1, HoldersType, FS_RemoveElement

LEMMA MyStepSlots == MyInv /\ SlotsBounded /\ [MyNext]_myVars => SlotsBounded'
<1> SUFFICES ASSUME MyInv, SlotsBounded, [MyNext]_myVars PROVE SlotsBounded' OBVIOUS
<1>1. MyTypeOK /\ myList \in Seq(MyEntry) /\ Len(myList) \in Nat
  BY LenProperties DEF MyInv, MyTypeOK
<1>2. Len(myList) + Cardinality(Holders) <= Bound
  BY DEF SlotsBounded, MySlots, Bound, Holders
<1>3. SUFFICES Len(myList') + Cardinality(Holders') <= Bound
  BY DEF SlotsBounded, MySlots, Bound, Holders
<1>4. Cardinality(Holders) \in Nat /\ Bound \in Nat BY HoldersType
<1>5. CASE InitParam
  <2>1. Len(myList') = Cardinality(MyConns) BY <1>5, FilledList DEF InitParam
  <2>2. Holders' = {} BY <1>5 DEF InitParam, Holders, MyInv, StagesFit
  <2>3. Cardinality(Holders') = 0 BY <2>2, FS_EmptySet
  <2> QED BY <2>1, <2>3, HoldersType
<1>6. ASSUME NEW t \in MyThreads, TestSize(t)
      PROVE  Len(myList') + Cardinality(Holders') <= Bound
  <2>1. CASE myList = <<>>
    <3>1. Cardinality(Holders') = Cardinality(Holders) + 1
      BY <1>1, <1>6, <2>1, OneMore DEF TestSize, MyAt, MyGoto
    <3>2. Holders' \in SUBSET MyThreads BY DEF Holders
    <3>3. Cardinality(Holders') <= Cardinality(MyThreads) BY <3>2, FS_Subset
    <3>4. Len(myList') = 0 BY <1>6, <2>1, EmptySeq DEF TestSize
    <3> QED BY <1>4, <3>1, <3>3, <3>4, HoldersType
  <2>2. CASE myList # <<>>
    <3>1. Holders' = Holders
      BY <1>1, <1>6, <2>2 DEF TestSize, MyAt, MyGoto, Holders, MyTypeOK
    <3> QED BY <1>2, <1>6, <3>1 DEF TestSize
  <2> QED BY <2>1, <2>2
<1>7. ASSUME NEW t \in MyThreads, PopFront(t)
      PROVE  Len(myList') + Cardinality(Holders') <= Bound
  <2>1. CASE myList = <<>> BY <1>2, <1>7, <2>1 DEF PopFront, Holders
  <2>2. CASE myList # <<>>
    <3>1. Cardinality(Holders') = Cardinality(Holders) + 1
      BY <1>1, <1>7, <2>2, OneMore DEF PopFront, MyAt, MyGoto
    <3>2. Len(myList') = Len(myList) - 1
      BY <1>1, <1>7, <2>2, RestOfList DEF PopFront, TakeFront
    <3> QED BY <1>1, <1>2, <1>4, <3>1, <3>2
  <2> QED BY <2>1, <2>2
<1>8. ASSUME NEW t \in MyThreads, MyCall(t)
      PROVE  Len(myList') + Cardinality(Holders') <= Bound
  <2>1. Holders' = Holders BY <1>1, <1>8 DEF MyCall, MyAt, MyGoto, Holders, MyTypeOK
  <2> QED BY <1>2, <1>8, <2>1 DEF MyCall
<1>9. ASSUME NEW t \in MyThreads, DBConnectionPush(t)
      PROVE  Len(myList') + Cardinality(Holders') <= Bound
  <2>1. Cardinality(Holders') = Cardinality(Holders) - 1
    BY <1>1, <1>9, OneLess DEF DBConnectionPush, MyAt, MyGoto
  <2>2. myEngine[t] \in MyEntry BY <1>1 DEF MyTypeOK
  <2>3. Len(myList') = Len(myList) + 1
    BY <1>1, <1>9, <2>2, LongerList DEF DBConnectionPush, PushBack
  <2> QED BY <1>1, <1>2, <1>4, <2>1, <2>3
<1>10. ASSUME NEW c \in MyConns, MyDrop(c)
       PROVE  Len(myList') + Cardinality(Holders') <= Bound
  BY <1>2, <1>10 DEF MyDrop, Holders
<1>11. CASE MyRelease
  <2>1. Len(myList') = 0 BY <1>11, EmptySeq DEF MyRelease
  <2>2. Holders' = Holders BY <1>11 DEF MyRelease, Holders
  <2> QED BY <1>1, <1>2, <1>4, <2>1, <2>2
<1>12. CASE UNCHANGED myVars BY <1>2, <1>12 DEF myVars, Holders
<1> QED BY <1>5, <1>6, <1>7, <1>8, <1>9, <1>10, <1>11, <1>12 DEF MyNext

(* Although ~AutoMYSQLEngine pushes NULL (mysql_pool.cc:14), the list has   *)
(* never more entries than there are connections, or threads.               *)
THEOREM MysqlPoolSlots == MySpec => []SlotsBounded
<1>1. ASSUME MyInit PROVE SlotsBounded
  <2>1. Len(myList) = 0 BY <1>1, EmptySeq DEF MyInit
  <2>2. Len(myList) + Cardinality(Holders) <= Bound BY <2>1, HoldersType
  <2> QED BY <2>2 DEF SlotsBounded, MySlots, Bound, Holders
<1>2. MyInv /\ SlotsBounded /\ [MyNext]_myVars => SlotsBounded' BY MyStepSlots
<1>3. MySpec => []MyInv BY MysqlPoolTypes
<1> QED BY <1>1, <1>2, <1>3, PTL DEF MySpec

-----------------------------------------------------------------------------
(* The refinement of ConnectionPool.                                        *)
MyPoolStep == [MysqlConns!PoolNext]_(MysqlConns!poolVars)

LEMMA PopRefines ==
  ASSUME MyInv, NEW t \in MyThreads, PopFront(t)
  PROVE  MyPoolStep
<1>1. CASE myList = <<>>
  BY <1>1 DEF PopFront, MyPoolStep, MysqlConns!poolVars
<1>2. CASE myList # <<>>
  <2>1. /\ myEngine' = [myEngine EXCEPT ![t] = Head(myList)]
        /\ myList' = Tail(myList) /\ myMade' = myMade /\ myEngine[t] = NullEngine
    BY <1>2 DEF PopFront, TakeFront, MyAt, MyInv, StagesFit
  <2>2. myList \in Seq(MyEntry) /\ myEngine \in [MyThreads -> MyEntry]
    BY DEF MyInv, MyTypeOK
  <2>3. PICK c \in MyEntry :
          /\ c = Head(myList) /\ c = myList[1]
          /\ ToSet(myList) = ToSet(myList') \cup {c}
          /\ Len(myList) \in Nat \ {0} /\ Len(myList') = Len(myList) - 1
          /\ \A i \in 1 .. Len(myList') : myList'[i] = myList[i + 1]
          /\ DOMAIN myList' = 1 .. Len(myList')
    <3>1. /\ Tail(myList) \in Seq(MyEntry) /\ Head(myList) \in MyEntry
          /\ Head(myList) = myList[1]
          /\ Len(myList) \in Nat \ {0} /\ Len(Tail(myList)) = Len(myList) - 1
          /\ \A i \in 1 .. Len(myList) - 1 : Tail(myList)[i] = myList[i + 1]
          /\ ToSet(myList) = ToSet(Tail(myList)) \cup {Head(myList)}
      BY <1>2, <2>2, RestOfList
    <3>2. DOMAIN Tail(myList) = 1 .. Len(Tail(myList)) BY <3>1, LenProperties
    <3> QED BY <2>1, <3>1, <3>2
  <2>4. CASE c = NullEngine
    <3>1. myEngine' = myEngine BY <2>1, <2>2, <2>3, <2>4
    <3>2. ToSet(myList') \ {NullEngine} = ToSet(myList) \ {NullEngine} BY <2>3, <2>4
    <3> QED BY <2>1, <3>1, <3>2 DEF MyPoolStep, MysqlConns!poolVars
  <2>5. CASE c # NullEngine
    <3>1. ASSUME c \in ToSet(myList') PROVE FALSE
      <4>1. PICK i \in 1 .. Len(myList') : myList'[i] = c BY <2>3, <3>1 DEF ToSet
      <4>2. myList[i + 1] = myList[1] /\ i + 1 \in 1 .. Len(myList)
            /\ 1 \in 1 .. Len(myList) /\ i + 1 # 1
        BY <2>3, <4>1
      <4> QED BY <2>3, <2>5, <4>2 DEF MyInv, OwnedOnce, Single
    <3>2. ToSet(myList') \ {NullEngine} = (ToSet(myList) \ {NullEngine}) \ {c}
      BY <2>3, <3>1
    <3>3. c \in ToSet(myList) \ {NullEngine} BY <2>3, <2>5
    <3>4. MysqlConns!Take(t) BY <2>1, <2>3, <3>2, <3>3 DEF MysqlConns!Take
    <3> QED BY <3>4 DEF MyPoolStep, MysqlConns!PoolNext
  <2> QED BY <2>4, <2>5
<1> QED BY <1>1, <1>2

LEMMA PushRefines ==
  ASSUME MyInv, NEW t \in MyThreads, DBConnectionPush(t)
  PROVE  MyPoolStep
<1>1. /\ myList' = Append(myList, myEngine[t]) /\ myMade' = myMade
      /\ myEngine' = [myEngine EXCEPT ![t] = NullEngine]
  BY DEF DBConnectionPush, PushBack
<1>2. myList \in Seq(MyEntry) /\ myEngine \in [MyThreads -> MyEntry]
  BY DEF MyInv, MyTypeOK
<1>3. ToSet(myList') = ToSet(myList) \cup {myEngine[t]} BY <1>1, <1>2, LongerList
<1>4. CASE myEngine[t] = NullEngine
  <2>1. myEngine' = myEngine BY <1>1, <1>2, <1>4
  <2>2. ToSet(myList') \ {NullEngine} = ToSet(myList) \ {NullEngine} BY <1>3, <1>4
  <2> QED BY <1>1, <2>1, <2>2 DEF MyPoolStep, MysqlConns!poolVars
<1>5. CASE myEngine[t] # NullEngine
  <2>1. ToSet(myList') \ {NullEngine} = (ToSet(myList) \ {NullEngine}) \cup {myEngine[t]}
    BY <1>3, <1>5
  <2>2. MysqlConns!Give(t) BY <1>1, <1>5, <2>1 DEF MysqlConns!Give
  <2> QED BY <2>2 DEF MyPoolStep, MysqlConns!PoolNext
<1> QED BY <1>4, <1>5

LEMMA MyStepRefines == MyInv /\ [MyNext]_myVars => MyPoolStep
<1> SUFFICES ASSUME MyInv, [MyNext]_myVars PROVE MyPoolStep OBVIOUS
<1>1. ToSet(<<>>) = {}
  <2>1. DOMAIN <<>> = {} BY EmptySeq, LenProperties
  <2> QED BY <2>1 DEF ToSet
<1>2. CASE InitParam
  <2>1. ToSet(myList') = MyConns BY <1>2, FilledList DEF InitParam
  <2>2. /\ myMade = {} /\ myMade' = MyConns /\ myEngine' = myEngine
        /\ ToSet(myList) = {}
    BY <1>1, <1>2 DEF InitParam, MyInv, StagesFit
  <2>3. ToSet(myList') \ {NullEngine} = (ToSet(myList) \ {NullEngine}) \cup MyConns
    BY <2>1, <2>2
  <2>4. MysqlConns!Open(MyConns) BY <2>2, <2>3 DEF MysqlConns!Open
  <2> QED BY <2>4 DEF MyPoolStep, MysqlConns!PoolNext
<1>3. ASSUME NEW t \in MyThreads, PopFront(t) PROVE MyPoolStep BY <1>3, PopRefines
<1>4. ASSUME NEW t \in MyThreads, DBConnectionPush(t) PROVE MyPoolStep
  BY <1>4, PushRefines
<1>5. ASSUME NEW t \in MyThreads, TestSize(t) \/ MyCall(t) PROVE MyPoolStep
  BY <1>5 DEF TestSize, MyCall, MyPoolStep, MysqlConns!poolVars
<1>6. ASSUME NEW c \in MyConns, MyDrop(c) PROVE MyPoolStep
  BY <1>6 DEF MyDrop, MyPoolStep, MysqlConns!poolVars
<1>7. CASE MyRelease
  <2>1. myList' = <<>> /\ myMade' = myMade /\ myEngine' = myEngine
    BY <1>7 DEF MyRelease
  <2>2. ToSet(myList') \ {NullEngine} = {} BY <1>1, <2>1
  <2>3. MysqlConns!Close BY <2>1, <2>2 DEF MysqlConns!Close
  <2> QED BY <2>3 DEF MyPoolStep, MysqlConns!PoolNext
<1>8. CASE UNCHANGED myVars BY <1>8 DEF myVars, MyPoolStep, MysqlConns!poolVars
<1> QED BY <1>2, <1>3, <1>4, <1>5, <1>6, <1>7, <1>8 DEF MyNext

(* MYSQL_Pool keeps the promise of ConnectionPool: whatever threads find    *)
(* in its list, a connection is used by one of them at a time.              *)
THEOREM MysqlPoolImplementsPool == MySpec => KeepsMysqlConns
<1>1. ASSUME MyInit PROVE MysqlConns!PoolInit
  <2>1. DOMAIN <<>> = {} BY EmptySeq, LenProperties
  <2>2. ToSet(myList) \ {NullEngine} = {} BY <1>1, <2>1 DEF MyInit, ToSet
  <2> QED BY <1>1, <2>2 DEF MyInit, MysqlConns!PoolInit
<1>2. MyInv /\ [MyNext]_myVars => [MysqlConns!PoolNext]_(MysqlConns!poolVars)
  BY MyStepRefines DEF MyPoolStep
<1>3. MySpec => []MyInv BY MysqlPoolTypes
<1> QED BY <1>1, <1>2, <1>3, PTL DEF MySpec, KeepsMysqlConns, MysqlConns!PoolSpec

-----------------------------------------------------------------------------
(* An object that is gone holds no connection, and Init opens them all.     *)
DbInv ==
  /\ DbTypeOK
  /\ \A t \in SqlThreads : ~dbObject[t].live => dbObject[t].engine = NoEngine
  /\ dbMade = IF dbState = "new" THEN {} ELSE SqlConns

(* What the fifteen queries have in common: an object keeps its connection  *)
(* or forgets it, the latter only if the connection stays unreachable.      *)
QueryEffect(t) ==
  LET e == dbObject[t].engine IN
  /\ dbState = "open" /\ dbState' \in {"open", "crashed"}
  /\ UNCHANGED <<dbList, dbDrops, dbMade>>
  /\ dbDown' \in {dbDown, dbDown \ {e}}
  /\ \E object \in DbObject :
       /\ object.live
       /\ object.engine \in {e, NoEngine}
       /\ dbObject' = [dbObject EXCEPT ![t] = object]
       /\ dbState' = "open" /\ object.engine # e => e \in dbDown'

LEMMA ObjectType ==
  ASSUME DbTypeOK, NEW t \in SqlThreads
  PROVE  /\ dbObject[t] \in DbObject
         /\ dbObject = [dbObject EXCEPT ![t] = dbObject[t]]
BY DEF DbTypeOK

LEMMA EntineType ==
  ASSUME DbTypeOK, NEW t \in SqlThreads, NEW g \in GetEntine(t)
  PROVE  LET e == dbObject[t].engine IN
         /\ g.engine \in {e, NoEngine} /\ g.error \in DbErrorInfo
         /\ g.down \in {dbDown, dbDown \ {e}}
         /\ g.engine # e => e \in g.down
BY DEF GetEntine, Reconnect, DbErrorInfo

LEMMA AnswerType ==
  ASSUME NEW a \in Answers
  PROVE  a.ok \in BOOLEAN /\ a.rows \in 0 .. MaxRows /\ UserCount(a.rows) \in DbErrorInfo
<1>1. CASE a \in [ok : {FALSE}, rows : {0}]
  <2>1. a.ok = FALSE /\ a.rows = 0 BY <1>1
  <2>2. 0 \in 0 .. MaxRows OBVIOUS
  <2> QED BY <2>1, <2>2 DEF UserCount, DbErrorInfo
<1>2. CASE a \in [ok : {TRUE}, rows : 0 .. MaxRows]
  <2>1. a.ok = TRUE /\ a.rows \in 0 .. MaxRows BY <1>2
  <2> QED BY <2>1 DEF UserCount, DbErrorInfo
<1> QED BY <1>1, <1>2 DEF Answers

(* A call that leaves one of the records GetEntine's answer allows.         *)
LEMMA LeaveEffect ==
  ASSUME DbTypeOK, NEW t \in SqlThreads, dbState = "open", dbObject[t].live,
         NEW g \in GetEntine(t), dbDown' = g.down, DbUnchanged,
         NEW object \in DbObject, object.live,
         object.engine \in {g.engine, dbObject[t].engine},
         Leave(t, object)
  PROVE  QueryEffect(t)
<1> DEFINE e == dbObject[t].engine
<1>1. /\ g.engine \in {e, NoEngine} /\ g.down \in {dbDown, dbDown \ {e}}
      /\ g.engine # e => e \in g.down
  BY EntineType
<1> HIDE DEF e
<1>2. object.engine \in {e, NoEngine} /\ (object.engine # e => e \in dbDown')
  BY <1>1 DEF e
<1> QED BY <1>1, <1>2 DEF QueryEffect, Leave, DbUnchanged, e

LEMMA CrashEffect ==
  ASSUME DbTypeOK, NEW t \in SqlThreads, dbState = "open", dbObject[t].live,
         NEW g \in GetEntine(t), dbDown' = g.down, DbUnchanged, Crash
  PROVE  QueryEffect(t)
<1>1. g.down \in {dbDown, dbDown \ {dbObject[t].engine}} BY EntineType
<1> QED BY <1>1, ObjectType DEF QueryEffect, Crash, DbUnchanged

LEMMA CheckedEffect ==
  ASSUME DbTypeOK, NEW t \in SqlThreads, NEW keeps \in BOOLEAN, NEW onFailure,
         Checked(t, keeps, onFailure)
  PROVE  QueryEffect(t)
<1>1. dbState = "open" /\ dbObject[t].live /\ DbUnchanged BY DEF Checked
<1>2. PICK g \in GetEntine(t), a \in Answers :
        /\ dbDown' = g.down
        /\ LET object == [dbObject[t] EXCEPT !.engine = g.engine, !.error = g.error] IN
           \/ Crash
           \/ Leave(t, object)
           \/ Leave(t, [object EXCEPT !.error = "SQL_EXEC_ERROR"])
           \/ Leave(t, [object EXCEPT !.records = a.rows])
  BY DEF Checked
<1>3. g.engine \in SqlConns \cup {NoEngine} /\ g.error \in DbErrorInfo
  BY EntineType, ObjectType DEF DbObject
<1> DEFINE object == [dbObject[t] EXCEPT !.engine = g.engine, !.error = g.error]
<1>4. /\ object \in DbObject /\ object.live /\ object.engine = g.engine
      /\ \A err \in DbErrorInfo :
           LET changed == [object EXCEPT !.error = err] IN
           changed \in DbObject /\ changed.live /\ changed.engine = g.engine
      /\ \A n \in 0 .. MaxRows :
           LET changed == [object EXCEPT !.records = n] IN
           changed \in DbObject /\ changed.live /\ changed.engine = g.engine
  BY <1>1, <1>3, ObjectType DEF DbObject
<1> HIDE DEF object
<1>5. CASE Crash BY <1>1, <1>2, <1>5, CrashEffect
<1>6. CASE Leave(t, object) BY <1>1, <1>2, <1>4, <1>6, LeaveEffect
<1>7. CASE Leave(t, [object EXCEPT !.error = "SQL_EXEC_ERROR"])
  <2>1. "SQL_EXEC_ERROR" \in DbErrorInfo BY DEF DbErrorInfo
  <2> QED BY <1>1, <1>2, <1>4, <1>7, <2>1, LeaveEffect
<1>8. CASE Leave(t, [object EXCEPT !.records = a.rows])
  BY <1>1, <1>2, <1>4, <1>8, AnswerType, LeaveEffect
<1> QED BY <1>2, <1>5, <1>6, <1>7, <1>8 DEF object

LEMMA TrustingEffect ==
  ASSUME DbTypeOK, NEW t \in SqlThreads, NEW keeps \in BOOLEAN, Trusting(t, keeps)
  PROVE  QueryEffect(t)
<1>1. dbState = "open" /\ dbObject[t].live /\ DbUnchanged BY DEF Trusting
<1>2. PICK g \in GetEntine(t), a \in Answers :
        /\ dbDown' = g.down
        /\ LET object == [dbObject[t] EXCEPT !.engine = g.engine, !.error = "none"] IN
           \/ Crash
           \/ Leave(t, object)
           \/ Leave(t, [object EXCEPT !.error = "SQL_EXEC_ERROR"])
           \/ Leave(t, [object EXCEPT !.records = a.rows, !.error = UserCount(a.rows)])
  BY DEF Trusting
<1>3. g.engine \in SqlConns \cup {NoEngine} BY EntineType, ObjectType DEF DbObject
<1> DEFINE object == [dbObject[t] EXCEPT !.engine = g.engine, !.error = "none"]
<1>4. /\ object \in DbObject /\ object.live /\ object.engine = g.engine
      /\ \A err \in DbErrorInfo :
           LET changed == [object EXCEPT !.error = err] IN
           changed \in DbObject /\ changed.live /\ changed.engine = g.engine
      /\ \A n \in 0 .. MaxRows, err \in DbErrorInfo :
           LET changed == [object EXCEPT !.records = n, !.error = err] IN
           changed \in DbObject /\ changed.live /\ changed.engine = g.engine
  <2>1. "none" \in DbErrorInfo BY DEF DbErrorInfo
  <2> QED BY <1>1, <1>3, <2>1, ObjectType DEF DbObject
<1> HIDE DEF object
<1>5. CASE Crash BY <1>1, <1>2, <1>5, CrashEffect
<1>6. CASE Leave(t, object) BY <1>1, <1>2, <1>4, <1>6, LeaveEffect
<1>7. CASE Leave(t, [object EXCEPT !.error = "SQL_EXEC_ERROR"])
  <2>1. "SQL_EXEC_ERROR" \in DbErrorInfo BY DEF DbErrorInfo
  <2> QED BY <1>1, <1>2, <1>4, <1>7, <2>1, LeaveEffect
<1>8. CASE Leave(t, [object EXCEPT !.records = a.rows, !.error = UserCount(a.rows)])
  BY <1>1, <1>2, <1>4, <1>8, AnswerType, LeaveEffect
<1> QED BY <1>2, <1>5, <1>6, <1>7, <1>8 DEF object

LEMMA BorrowingEffect ==
  ASSUME DbTypeOK, NEW t \in SqlThreads, Borrowing(t)
  PROVE  QueryEffect(t)
<1>1. dbState = "open" /\ dbObject[t].live /\ DbUnchanged BY DEF Borrowing
<1>2. PICK g \in GetEntine(t), err \in {"none", "SQL_EXEC_ERROR"} :
        /\ dbDown' = g.down
        /\ Crash \/ Leave(t, [dbObject[t] EXCEPT !.error = err])
  BY DEF Borrowing
<1> DEFINE object == [dbObject[t] EXCEPT !.error = err]
<1>3. object \in DbObject /\ object.live /\ object.engine = dbObject[t].engine
  BY <1>1, ObjectType DEF DbObject, DbErrorInfo
<1> HIDE DEF object
<1>4. CASE Crash BY <1>1, <1>2, <1>4, CrashEffect
<1>5. CASE Leave(t, object) BY <1>1, <1>2, <1>3, <1>5, LeaveEffect
<1> QED BY <1>2, <1>4, <1>5 DEF object

LEMMA NextRecordEffect ==
  ASSUME DbTypeOK, NEW t \in SqlThreads, NextRecord(t)
  PROVE  QueryEffect(t)
<1>1. CASE Crash BY <1>1, ObjectType DEF NextRecord, QueryEffect, Crash, DbUnchanged
<1>2. CASE Leave(t, [dbObject[t] EXCEPT !.records = @ - 1])
  <2> DEFINE object == [dbObject[t] EXCEPT !.records = @ - 1]
  <2>1. object \in DbObject /\ object.live /\ object.engine = dbObject[t].engine
    BY ObjectType DEF NextRecord, DbObject
  <2> HIDE DEF object
  <2>2. dbObject' = [dbObject EXCEPT ![t] = object] /\ dbState' = dbState
    BY <1>2 DEF Leave, object
  <2> QED BY <2>1, <2>2 DEF NextRecord, QueryEffect, DbUnchanged
<1> QED BY <1>1, <1>2 DEF NextRecord

LEMMA RecordNumEffect ==
  ASSUME DbTypeOK, NEW t \in SqlThreads, get_record_num(t)
  PROVE  QueryEffect(t)
<1>1. CASE Crash
  BY <1>1, ObjectType DEF get_record_num, QueryEffect, Crash, DbUnchanged
<1>2. CASE Leave(t, dbObject[t])
  BY <1>2, ObjectType DEF get_record_num, QueryEffect, Leave, DbUnchanged
<1> QED BY <1>1, <1>2 DEF get_record_num

LEMMA AllQueries ==
  ASSUME DbTypeOK, NEW t \in SqlThreads, DbQuery(t)
  PROVE  QueryEffect(t)
BY CheckedEffect, TrustingEffect, BorrowingEffect, NextRecordEffect,
   RecordNumEffect
   DEF DbQuery, GetHyGnSubscribeNum, GetCodeSubscribeNum, HyGnIfSubscribe,
       CodeIfSubscribe, GetHyGnCode, GetAllNameCode, GetEvent, GetHy, GetGn,
       GetUserInfo, SetUserIfo, CheckUseridIfInSql, GetPlatformName, GetUserNameInfo

-----------------------------------------------------------------------------
LEMMA InitInv == DbInit => DbInv
BY DEF DbInit, DbInv, DbTypeOK, DbObject, NoDbObject, DbErrorInfo

LEMMA QueryInv ==
  ASSUME DbInv, NEW t \in SqlThreads, QueryEffect(t)
  PROVE  DbInv'
<1>1. PICK object \in DbObject : object.live /\ dbObject' = [dbObject EXCEPT ![t] = object]
  BY DEF QueryEffect
<1>2. dbObject' \in [SqlThreads -> DbObject] BY <1>1 DEF DbInv, DbTypeOK
<1>3. \A u \in SqlThreads : ~dbObject'[u].live => dbObject'[u].engine = NoEngine
  BY <1>1 DEF DbInv, DbTypeOK
<1>4. dbDown' \subseteq dbMade BY DEF QueryEffect, DbInv, DbTypeOK
<1> QED BY <1>2, <1>3, <1>4 DEF QueryEffect, DbInv, DbTypeOK

LEMMA NewDbSqlInv ==
  ASSUME DbInv, NEW t \in SqlThreads, NewDbSql(t)
  PROVE  DbInv'
<1>1. PICK e \in SqlConns \cup {NoEngine} :
        /\ dbObject' = [dbObject EXCEPT ![t].live = TRUE, ![t].engine = e]
        /\ dbList' \subseteq dbList
  <2>1. CASE dbList = {}
    <3>1. dbObject[t].engine = NoEngine BY DEF NewDbSql, DbInv
    <3>2. dbObject' = [dbObject EXCEPT ![t].live = TRUE, ![t].engine = NoEngine]
      BY <2>1, <3>1 DEF NewDbSql, DbInv, DbTypeOK, DbObject
    <3> QED BY <2>1, <3>2 DEF NewDbSql
  <2>2. CASE dbList # {}
    <3>1. PICK c \in dbList :
            /\ dbObject' = [dbObject EXCEPT ![t].live = TRUE, ![t].engine = c]
            /\ dbList' = TakenConn(c)
      BY <2>2 DEF NewDbSql
    <3>2. c \in SqlConns BY DEF DbInv, DbTypeOK
    <3> QED BY <3>1, <3>2 DEF TakenConn
  <2> QED BY <2>1, <2>2
<1>2. dbObject' \in [SqlThreads -> DbObject]
  <2> DEFINE object == [dbObject[t] EXCEPT !.live = TRUE, !.engine = e]
  <2>1. dbObject[t] \in DbObject /\ dbObject \in [SqlThreads -> DbObject]
    BY DEF DbInv, DbTypeOK
  <2>2. object \in DbObject BY <2>1 DEF DbObject
  <2>3. dbObject' = [dbObject EXCEPT ![t] = object] BY <1>1, <2>1
  <2> HIDE DEF object
  <2> QED BY <2>1, <2>2, <2>3
<1>3. \A u \in SqlThreads : ~dbObject'[u].live => dbObject'[u].engine = NoEngine
  BY <1>1 DEF DbInv, DbTypeOK, DbObject
<1>4. dbList' \subseteq dbMade BY <1>1 DEF DbInv, DbTypeOK
<1>5. UNCHANGED <<dbDown, dbDrops, dbMade, dbState>> BY DEF NewDbSql
<1> QED BY <1>2, <1>3, <1>4, <1>5 DEF DbInv, DbTypeOK

LEMMA DeleteDbSqlInv ==
  ASSUME DbInv, NEW t \in SqlThreads, DeleteDbSql(t)
  PROVE  DbInv'
<1>1. dbObject' = [dbObject EXCEPT ![t] = NoDbObject] BY DEF DeleteDbSql
<1>2. NoDbObject \in DbObject BY DEF NoDbObject, DbObject, DbErrorInfo
<1>3. dbObject' \in [SqlThreads -> DbObject] BY <1>1, <1>2 DEF DbInv, DbTypeOK
<1>4. \A u \in SqlThreads : ~dbObject'[u].live => dbObject'[u].engine = NoEngine
  BY <1>1 DEF DbInv, DbTypeOK, NoDbObject
<1>5. dbList' \subseteq dbMade
  <2>1. dbObject[t] \in DbObject BY ObjectType DEF DbInv
  <2>2. dbObject[t].engine \in SqlConns \cup {NoEngine} BY <2>1 DEF DbObject
  <2>3. dbMade = SqlConns BY DEF DeleteDbSql, DbInv
  <2> QED BY <2>2, <2>3 DEF DeleteDbSql, DbInv, DbTypeOK
<1>6. UNCHANGED <<dbDown, dbDrops, dbMade, dbState>> BY DEF DeleteDbSql
<1> QED BY <1>3, <1>4, <1>5, <1>6 DEF DbInv, DbTypeOK

LEMMA DropInv ==
  ASSUME DbInv, NEW c \in SqlConns, DbDrop(c)
  PROVE  DbInv'
BY DEF DbDrop, DbInv, DbTypeOK

LEMMA StepInv == DbInv /\ [DbNext]_dbVars => DbInv'
<1> SUFFICES ASSUME DbInv, [DbNext]_dbVars PROVE DbInv' OBVIOUS
<1>1. CASE DbOpen BY <1>1 DEF DbOpen, DbInv, DbTypeOK
<1>2. ASSUME NEW t \in SqlThreads, NewDbSql(t) PROVE DbInv' BY <1>2, NewDbSqlInv
<1>3. ASSUME NEW t \in SqlThreads, DbQuery(t) PROVE DbInv'
  <2>1. QueryEffect(t) BY <1>3, AllQueries DEF DbInv
  <2> QED BY <2>1, QueryInv
<1>4. ASSUME NEW t \in SqlThreads, DeleteDbSql(t) PROVE DbInv' BY <1>4, DeleteDbSqlInv
<1>5. ASSUME NEW c \in SqlConns, DbDrop(c) PROVE DbInv' BY <1>5, DropInv
<1>6. CASE DbDest BY <1>6 DEF DbDest, DbInv, DbTypeOK
<1>7. CASE UNCHANGED dbVars BY <1>7 DEF dbVars, DbInv, DbTypeOK
<1> QED BY <1>1, <1>2, <1>3, <1>4, <1>5, <1>6, <1>7 DEF DbNext

(* Every variable keeps its type, and the invariant of the proofs holds.    *)
THEOREM DbTypes == DbSpec => []DbInv
<1>1. DbInit => DbInv BY InitInv
<1>2. DbInv /\ [DbNext]_dbVars => DbInv' BY StepInv
<1> QED BY <1>1, <1>2, PTL DEF DbSpec

-----------------------------------------------------------------------------
(* What GetEntine and the destructor make of a connection                   *)
(* (db_comm.cc): one that neither the pool nor an object holds is lost to   *)
(* the server.                                                             *)
LEMMA QueryForgets ==
  ASSUME DbInv, NEW t \in SqlThreads, QueryEffect(t), OnlyUnreachableForgotten
  PROVE  OnlyUnreachableForgotten'
<1> SUFFICES ASSUME dbState' = "open", NEW c \in dbMade \ dbDown', c \notin dbList
             PROVE  \E u \in SqlThreads : dbObject'[u].engine = c
  BY DEF OnlyUnreachableForgotten, QueryEffect
<1> DEFINE e == dbObject[t].engine
<1>1. PICK object \in DbObject :
        /\ dbObject' = [dbObject EXCEPT ![t] = object]
        /\ object.engine # e => e \in dbDown'
  BY DEF QueryEffect
<1>2. dbObject \in [SqlThreads -> DbObject] BY DEF DbInv, DbTypeOK
<1>3. CASE c = e BY <1>1, <1>2, <1>3
<1>4. CASE c # e
  <2>1. c \notin dbDown BY <1>4 DEF QueryEffect
  <2>2. PICK u \in SqlThreads : dbObject[u].engine = c
    BY <2>1 DEF OnlyUnreachableForgotten, QueryEffect
  <2>3. u # t BY <1>4, <2>2
  <2> QED BY <1>1, <1>2, <2>2, <2>3
<1> QED BY <1>3, <1>4

LEMMA NewForgets ==
  ASSUME DbInv, NEW t \in SqlThreads, NewDbSql(t), OnlyUnreachableForgotten
  PROVE  OnlyUnreachableForgotten'
<1> SUFFICES ASSUME NEW c \in dbMade \ dbDown, c \notin dbList'
             PROVE  \E u \in SqlThreads : dbObject'[u].engine = c
  BY DEF OnlyUnreachableForgotten, NewDbSql
<1>1. dbObject \in [SqlThreads -> DbObject] BY DEF DbInv, DbTypeOK
<1>2. dbObject[t].engine = NoEngine /\ c \in SqlConns BY DEF NewDbSql, DbInv, DbTypeOK
<1>3. CASE c \in dbList
  <2>1. PICK d \in dbList :
          /\ dbObject' = [dbObject EXCEPT ![t].live = TRUE, ![t].engine = d]
          /\ dbList' = dbList \ {d}
    BY <1>3 DEF NewDbSql, TakenConn
  <2> QED BY <1>1, <1>3, <2>1 DEF DbObject
<1>4. CASE c \notin dbList
  <2>1. PICK u \in SqlThreads : dbObject[u].engine = c
    BY <1>4 DEF OnlyUnreachableForgotten, NewDbSql
  <2>2. u # t BY <1>2, <2>1
  <2>3. dbObject'[u] = dbObject[u] BY <1>1, <2>2 DEF NewDbSql
  <2> QED BY <2>1, <2>3
<1> QED BY <1>3, <1>4

LEMMA DeleteForgets ==
  ASSUME DbInv, NEW t \in SqlThreads, DeleteDbSql(t), OnlyUnreachableForgotten
  PROVE  OnlyUnreachableForgotten'
<1> SUFFICES ASSUME NEW c \in dbMade \ dbDown, c \notin dbList'
             PROVE  \E u \in SqlThreads : dbObject'[u].engine = c
  BY DEF OnlyUnreachableForgotten, DeleteDbSql
<1>1. dbObject \in [SqlThreads -> DbObject] /\ c \in SqlConns
  BY DEF DbInv, DbTypeOK
<1>2. c \notin dbList /\ c # dbObject[t].engine BY <1>1 DEF DeleteDbSql
<1>3. PICK u \in SqlThreads : dbObject[u].engine = c
  BY <1>2 DEF OnlyUnreachableForgotten, DeleteDbSql
<1>4. u # t BY <1>2, <1>3
<1>5. dbObject'[u] = dbObject[u] BY <1>1, <1>4 DEF DeleteDbSql
<1> QED BY <1>3, <1>5

LEMMA StepForgets ==
  DbInv /\ OnlyUnreachableForgotten /\ [DbNext]_dbVars => OnlyUnreachableForgotten'
<1> SUFFICES ASSUME DbInv, OnlyUnreachableForgotten, [DbNext]_dbVars
             PROVE  OnlyUnreachableForgotten'
  OBVIOUS
<1>1. CASE DbOpen BY <1>1 DEF DbOpen, OnlyUnreachableForgotten
<1>2. ASSUME NEW t \in SqlThreads, NewDbSql(t) PROVE OnlyUnreachableForgotten'
  BY <1>2, NewForgets
<1>3. ASSUME NEW t \in SqlThreads, DbQuery(t) PROVE OnlyUnreachableForgotten'
  <2>1. QueryEffect(t) BY <1>3, AllQueries DEF DbInv
  <2> QED BY <2>1, QueryForgets
<1>4. ASSUME NEW t \in SqlThreads, DeleteDbSql(t) PROVE OnlyUnreachableForgotten'
  BY <1>4, DeleteForgets
<1>5. ASSUME NEW c \in SqlConns, DbDrop(c) PROVE OnlyUnreachableForgotten'
  BY <1>5 DEF DbDrop, OnlyUnreachableForgotten
<1>6. CASE DbDest BY <1>6 DEF DbDest, OnlyUnreachableForgotten
<1>7. CASE UNCHANGED dbVars BY <1>7 DEF dbVars, OnlyUnreachableForgotten
<1> QED BY <1>1, <1>2, <1>3, <1>4, <1>5, <1>6, <1>7 DEF DbNext

(* While the server runs, a connection is in the pool, in an object, or     *)
(* lost to the server (GetEntine and ~DbSql, db_comm.cc).                   *)
THEOREM DbForgets == DbSpec => []OnlyUnreachableForgotten
<1>1. DbInit => OnlyUnreachableForgotten BY DEF DbInit, OnlyUnreachableForgotten
<1>2. DbInv /\ OnlyUnreachableForgotten /\ [DbNext]_dbVars => OnlyUnreachableForgotten'
  BY StepForgets
<1>3. DbSpec => []DbInv BY DbTypes
<1> QED BY <1>1, <1>2, <1>3, PTL DEF DbSpec

-----------------------------------------------------------------------------
(* The refinement of ConnectionPool: the connection each thread's object    *)
(* has.                                                                    *)
Taken == [t \in SqlThreads |-> dbObject[t].engine]

PoolStep == [DbConns!PoolNext]_(DbConns!poolVars)

LEMMA QueryRefines ==
  ASSUME DbInv, NEW t \in SqlThreads, QueryEffect(t)
  PROVE  PoolStep
<1>1. PICK object \in DbObject :
        /\ object.engine \in {dbObject[t].engine, NoEngine}
        /\ dbObject' = [dbObject EXCEPT ![t] = object]
  BY DEF QueryEffect
<1>2. dbObject \in [SqlThreads -> DbObject] BY DEF DbInv, DbTypeOK
<1>3. Taken' = [Taken EXCEPT ![t] = object.engine] BY <1>1, <1>2 DEF Taken
<1>4. Taken \in [SqlThreads -> SqlConns \cup {NoEngine}] BY <1>2 DEF Taken, DbObject
<1>5. Taken[t] = dbObject[t].engine BY DEF Taken
<1>6. CASE object.engine = dbObject[t].engine
  <2>1. Taken' = Taken BY <1>3, <1>4, <1>5, <1>6
  <2> QED BY <2>1 DEF PoolStep, QueryEffect, DbConns!poolVars, Taken
<1>7. CASE object.engine = NoEngine /\ dbObject[t].engine # NoEngine
  <2>1. DbConns!Forget(t)
    BY <1>3, <1>5, <1>7 DEF DbConns!Forget, QueryEffect, Taken
  <2> QED BY <2>1 DEF PoolStep, DbConns!PoolNext
<1> QED BY <1>1, <1>6, <1>7

LEMMA NewRefines ==
  ASSUME DbInv, NEW t \in SqlThreads, NewDbSql(t)
  PROVE  PoolStep
<1>1. dbObject \in [SqlThreads -> DbObject] BY DEF DbInv, DbTypeOK
<1>2. Taken[t] = NoEngine BY DEF NewDbSql, DbInv, Taken
<1>3. CASE dbList = {}
  <2>1. dbObject' = [dbObject EXCEPT ![t].live = TRUE] BY <1>3 DEF NewDbSql
  <2>2. Taken' = Taken BY <1>1, <2>1 DEF Taken, DbObject
  <2> QED BY <1>3, <2>2 DEF PoolStep, NewDbSql, DbConns!poolVars, Taken
<1>4. CASE dbList # {}
  <2>1. PICK c \in dbList :
          /\ dbObject' = [dbObject EXCEPT ![t].live = TRUE, ![t].engine = c]
          /\ dbList' = dbList \ {c}
    BY <1>4 DEF NewDbSql, TakenConn
  <2>2. Taken' = [Taken EXCEPT ![t] = c] BY <1>1, <2>1 DEF Taken, DbObject
  <2>3. DbConns!Take(t) BY <1>2, <2>1, <2>2 DEF DbConns!Take, NewDbSql, Taken
  <2> QED BY <2>3 DEF PoolStep, DbConns!PoolNext
<1> QED BY <1>3, <1>4

LEMMA DeleteRefines ==
  ASSUME DbInv, NEW t \in SqlThreads, DeleteDbSql(t)
  PROVE  PoolStep
<1>1. dbObject \in [SqlThreads -> DbObject] BY DEF DbInv, DbTypeOK
<1>2. Taken[t] = dbObject[t].engine BY DEF Taken
<1>3. Taken' = [Taken EXCEPT ![t] = NoEngine]
  BY <1>1 DEF Taken, DeleteDbSql, NoDbObject
<1>4. CASE dbObject[t].engine = NoEngine
  <2>1. Taken' = Taken BY <1>2, <1>3, <1>4 DEF Taken
  <2>2. dbList' = dbList BY <1>4 DEF DeleteDbSql
  <2> QED BY <2>1, <2>2 DEF PoolStep, DeleteDbSql, DbConns!poolVars, Taken
<1>5. CASE dbObject[t].engine # NoEngine
  <2>1. dbList' = dbList \cup {Taken[t]} BY <1>2, <1>5 DEF DeleteDbSql
  <2>2. DbConns!Give(t)
    BY <1>2, <1>3, <1>5, <2>1 DEF DbConns!Give, DeleteDbSql, Taken
  <2> QED BY <2>2 DEF PoolStep, DbConns!PoolNext
<1> QED BY <1>4, <1>5

LEMMA StepRefines == DbInv /\ [DbNext]_dbVars => [DbConns!PoolNext]_(DbConns!poolVars)
<1> SUFFICES ASSUME DbInv, [DbNext]_dbVars PROVE PoolStep BY DEF PoolStep
<1>1. CASE DbOpen
  <2>1. dbMade = {} /\ dbList = {} BY <1>1 DEF DbOpen, DbInv, DbTypeOK
  <2>2. DbConns!Open(SqlConns) BY <1>1, <2>1 DEF DbConns!Open, DbOpen, Taken
  <2> QED BY <2>2 DEF PoolStep, DbConns!PoolNext
<1>2. ASSUME NEW t \in SqlThreads, NewDbSql(t) PROVE PoolStep BY <1>2, NewRefines
<1>3. ASSUME NEW t \in SqlThreads, DbQuery(t) PROVE PoolStep
  <2>1. QueryEffect(t) BY <1>3, AllQueries DEF DbInv
  <2> QED BY <2>1, QueryRefines
<1>4. ASSUME NEW t \in SqlThreads, DeleteDbSql(t) PROVE PoolStep BY <1>4, DeleteRefines
<1>5. ASSUME NEW c \in SqlConns, DbDrop(c) PROVE PoolStep
  BY <1>5 DEF DbDrop, PoolStep, DbConns!poolVars
<1>6. CASE DbDest
  <2>1. DbConns!Close BY <1>6 DEF DbDest, DbConns!Close
  <2> QED BY <2>1 DEF PoolStep, DbConns!PoolNext
<1>7. CASE UNCHANGED dbVars BY <1>7 DEF dbVars, PoolStep, DbConns!poolVars
<1> QED BY <1>1, <1>2, <1>3, <1>4, <1>5, <1>6, <1>7 DEF DbNext

(* The objects and the pool behind them implement ConnectionPool: no        *)
(* connection serves two threads or comes back twice (DbSql, ~DbSql and     *)
(* every query of db_comm.cc).                                             *)
THEOREM DbImplementsPool == DbSpec => KeepsDbPool
<1>1. DbInit => DbConns!PoolInit
  BY DEF DbInit, DbConns!PoolInit, NoDbObject
<1>2. DbInv /\ [DbNext]_dbVars => [DbConns!PoolNext]_(DbConns!poolVars)
  BY StepRefines
<1>3. DbSpec => []DbInv BY DbTypes
<1> QED BY <1>1, <1>2, <1>3, PTL DEF DbSpec, KeepsDbPool, DbConns!PoolSpec
-----------------------------------------------------------------------------
(* The two pools of SqlDbPool: a connection is once in one list, or with    *)
(* one thread.                                                             *)
SqOwned ==
  /\ \A p \in PoolIds : NoTwice(sqPools[p])
  /\ ToSet(sqPools[1]) \cap ToSet(sqPools[2]) = {}
  /\ \A p \in PoolIds, t \in SqThreads : sqEngine[t] \notin ToSet(sqPools[p])
  /\ \A t, u \in SqThreads : sqEngine[t] = sqEngine[u] /\ t # u => sqEngine[t] = SqNull

(* Before Init nothing has happened; an idle thread has no connection.      *)
SqStages ==
  /\ \A t \in SqThreads : sqStage[t] = "idle" => sqEngine[t] = SqNull
  /\ sqState = "new" =>
       /\ sqMade = {} /\ sqPools = [p \in PoolIds |-> <<>>]
       /\ \A t \in SqThreads : sqStage[t] = "idle"

SqInv == sqPools \in [PoolIds -> Seq(SqConns)] /\ SqTypeOK /\ SqOwned /\ SqStages

(* What a step of the snapshot's threads does to the pools.                 *)
SqStep ==
  \/ InitPools
  \/ \E t \in SqThreads :
       \/ \E p \in PoolIds : PopEngine(t, p)
       \/ CheckEngine(t) \/ UseEngine(t) \/ RecycleEngine(t)
  \/ ReleasePools
  \/ \E c \in SqConns : SqDrop(c)
  \/ sqState' = "crashed" /\ sqState = "new"
       /\ UNCHANGED <<sqPools, sqMap, sqStage, sqId, sqEngine, sqDown, sqDrops, sqMade>>
  \/ UNCHANGED sqVars

LEMMA BasicStepsPools == [BasicNext]_basicVars => SqStep
BY DEF BasicNext, GetInstance, EngineInit, EarlyReader, UpdateStockBasic,
       QueryStockBasics, QueryReturns, SwapStockBase, TableChanges, basicVars,
       SqStep, PoolIds

LEMMA NoList ==
  /\ ToSet(<<>>) = {} /\ NoTwice(<<>>) /\ \A S : <<>> \in Seq(S)
<1>1. Len(<<>>) = 0 /\ DOMAIN <<>> = {} BY EmptySeq, LenProperties
<1> QED BY <1>1, EmptySeq DEF ToSet, NoTwice

LEMMA SqInitInv == SqInit => SqInv
<1> SUFFICES ASSUME SqInit PROVE SqInv OBVIOUS
<1>1. sqPools \in [PoolIds -> Seq(SqConns)] BY NoList DEF SqInit
<1>2. \A p \in PoolIds : sqPools[p] = <<>> BY DEF SqInit
<1>3. SqTypeOK BY <1>2, NoList DEF SqInit, SqTypeOK, PoolIds
<1>4. SqOwned BY <1>2, NoList DEF SqInit, SqOwned, PoolIds
<1>5. SqStages BY DEF SqInit, SqStages
<1> QED BY <1>1, <1>3, <1>4, <1>5 DEF SqInv

(* The lists that Init fills.                                               *)
LEMMA InitPoolsLists ==
  ASSUME SqInv, InitPools, sqState' # "crashed"
  PROVE  /\ sqPools' \in [PoolIds -> Seq(SqConns)]
         /\ \A p \in PoolIds : NoTwice(sqPools'[p]) /\ ToSet(sqPools'[p]) \subseteq SqConns
         /\ ToSet(sqPools'[1]) \cap ToSet(sqPools'[2]) = {}
         /\ sqMade' = ToSet(sqPools'[1]) \cup ToSet(sqPools'[2])
         /\ sqMap' = PoolIds /\ sqState' = "open"
<1>1. PICK lists \in [PoolIds -> SetToAllKPermutations(SqConns)] :
        /\ ToSet(lists[1]) \cap ToSet(lists[2]) = {}
        /\ sqPools' = lists
        /\ sqMade' = ToSet(lists[1]) \cup ToSet(lists[2])
  BY DEF InitPools
<1>2. sqMap' = PoolIds /\ sqState' = "open" BY DEF InitPools
<1>3. ASSUME NEW p \in PoolIds
      PROVE  lists[p] \in Seq(SqConns) /\ NoTwice(lists[p]) /\ ToSet(lists[p]) \subseteq SqConns
  <2>1. PICK S \in SUBSET SqConns : lists[p] \in SetToSeqs(S)
    BY <1>1 DEF SetToAllKPermutations
  <2>2. IsFiniteSet(S) BY <2>1, FS_Subset
  <2>3. lists[p] \in Seq(S) /\ NoTwice(lists[p]) /\ ToSet(lists[p]) = S
    BY <2>1, <2>2, ListOfSet
  <2> QED BY <2>1, <2>3
<1> QED BY <1>1, <1>2, <1>3

LEMMA InitPoolsInv ==
  ASSUME SqInv, InitPools
  PROVE  SqInv'
<1>1. CASE sqState' = "crashed"
  <2>1. UNCHANGED <<sqPools, sqMap, sqStage, sqId, sqEngine, sqDown, sqDrops, sqMade>>
    BY <1>1 DEF InitPools
  <2> QED BY <1>1, <2>1 DEF SqInv, SqTypeOK, SqOwned, SqStages
<1>2. CASE sqState' # "crashed"
  <2>1. /\ sqState = "new" /\ UNCHANGED <<sqStage, sqId, sqEngine, sqDown, sqDrops>>
        /\ sqMade = {} /\ \A t \in SqThreads : sqEngine[t] = SqNull
    BY DEF InitPools, SqInv, SqStages
  <2>2. /\ sqPools' \in [PoolIds -> Seq(SqConns)]
        /\ \A p \in PoolIds : NoTwice(sqPools'[p]) /\ ToSet(sqPools'[p]) \subseteq SqConns
        /\ ToSet(sqPools'[1]) \cap ToSet(sqPools'[2]) = {}
        /\ sqMade' = ToSet(sqPools'[1]) \cup ToSet(sqPools'[2])
        /\ sqMap' = PoolIds /\ sqState' = "open"
    BY <1>2, InitPoolsLists
  <2>3. \A p \in PoolIds : SqNull \notin ToSet(sqPools'[p]) BY <2>2
  <2>4. SqTypeOK' BY <2>1, <2>2 DEF SqInv, SqTypeOK, PoolIds
  <2>5. SqOwned' BY <2>1, <2>2, <2>3 DEF SqOwned
  <2>6. SqStages' BY <2>1, <2>2 DEF SqStages
  <2> QED BY <2>2, <2>4, <2>5, <2>6 DEF SqInv
<1> QED BY <1>1, <1>2

(* What PopEngine takes off a list.                                         *)
LEMMA PopEngineTakes ==
  ASSUME SqInv, NEW t \in SqThreads, NEW p \in PoolIds, PopEngine(t, p),
         p \in sqMap, sqPools[p] # <<>>
  PROVE  \E c \in ToSet(sqPools[p]) :
           /\ sqEngine' = [sqEngine EXCEPT ![t] = c]
           /\ sqPools'[p] \in Seq(SqConns) /\ NoTwice(sqPools'[p])
           /\ ToSet(sqPools'[p]) = ToSet(sqPools[p]) \ {c}
           /\ sqPools' = [sqPools EXCEPT ![p] = sqPools'[p]]
<1> DEFINE list == sqPools[p]
<1>1. list \in Seq(SqConns) /\ NoTwice(list) BY DEF SqInv, SqOwned
<1>2. /\ sqPools' = [sqPools EXCEPT ![p] = Tail(list)]
      /\ sqEngine' = [sqEngine EXCEPT ![t] = Head(list)]
  BY DEF PopEngine, PopsFront
<1>3. sqPools'[p] = Tail(list) BY <1>2 DEF SqInv
<1> HIDE DEF list
<1>4. /\ Head(list) = list[1]
      /\ Tail(list) \in Seq(SqConns)
      /\ Len(list) \in Nat \ {0} /\ Len(Tail(list)) = Len(list) - 1
      /\ \A i \in 1 .. Len(list) - 1 : Tail(list)[i] = list[i + 1]
      /\ ToSet(list) = ToSet(Tail(list)) \cup {Head(list)}
  <2>1. list # <<>> BY DEF list
  <2> QED BY <1>1, <2>1, RestOfList
<1>5. NoTwice(Tail(list))
  <2> SUFFICES ASSUME NEW i \in 1 .. Len(Tail(list)), NEW j \in 1 .. Len(Tail(list)),
                      Tail(list)[i] = Tail(list)[j]
               PROVE  i = j
    BY DEF NoTwice
  <2>1. i + 1 \in 1 .. Len(list) /\ j + 1 \in 1 .. Len(list) /\ list[i + 1] = list[j + 1]
    BY <1>4
  <2>2. i + 1 = j + 1 BY <1>1, <2>1 DEF NoTwice
  <2> QED BY <2>2
<1>6. Head(list) \notin ToSet(Tail(list))
  <2> SUFFICES ASSUME Head(list) \in ToSet(Tail(list)) PROVE FALSE OBVIOUS
  <2>1. DOMAIN Tail(list) = 1 .. Len(Tail(list)) BY <1>4, LenProperties
  <2>2. PICK i \in 1 .. Len(list) - 1 : Tail(list)[i] = list[1]
    BY <1>4, <2>1 DEF ToSet
  <2>3. /\ i + 1 \in 1 .. Len(list) /\ 1 \in 1 .. Len(list) /\ i + 1 # 1
        /\ list[i + 1] = list[1]
    BY <1>4, <2>2
  <2> QED BY <1>1, <2>3 DEF NoTwice
<1>7. ToSet(Tail(list)) = ToSet(list) \ {Head(list)} /\ Head(list) \in ToSet(list)
  BY <1>4, <1>6
<1> QED BY <1>2, <1>3, <1>4, <1>5, <1>7 DEF list

LEMMA PopEngineInv ==
  ASSUME SqInv, NEW t \in SqThreads, NEW p \in PoolIds, PopEngine(t, p)
  PROVE  SqInv'
<1>1. /\ sqState = "open" /\ sqStage[t] = "idle" /\ sqEngine[t] = SqNull
      /\ sqId' = [sqId EXCEPT ![t] = p]
      /\ UNCHANGED <<sqMap, sqDown, sqDrops, sqMade, sqState>>
  BY DEF PopEngine, SqAt, SqInv, SqStages
<1>2. CASE p \in sqMap /\ sqPools[p] # <<>>
  <2>1. PICK c \in ToSet(sqPools[p]) :
           /\ sqEngine' = [sqEngine EXCEPT ![t] = c]
           /\ sqPools'[p] \in Seq(SqConns) /\ NoTwice(sqPools'[p])
           /\ ToSet(sqPools'[p]) = ToSet(sqPools[p]) \ {c}
           /\ sqPools' = [sqPools EXCEPT ![p] = sqPools'[p]]
    BY <1>2, PopEngineTakes
  <2>2. sqStage' = [sqStage EXCEPT ![t] = "check"] BY <1>2 DEF PopEngine, SqGoto
  <2>3. sqPools' \in [PoolIds -> Seq(SqConns)] BY <2>1 DEF SqInv
  <2>4. \A q \in PoolIds \ {p} : sqPools'[q] = sqPools[q] BY <2>1 DEF SqInv
  <2>5. c \in sqMade /\ c \in SqConns /\ c # SqNull BY DEF SqInv, SqTypeOK
  <2>6. \A u \in SqThreads : sqEngine'[u] = IF u = t THEN c ELSE sqEngine[u]
    BY <2>1 DEF SqInv, SqTypeOK
  <2>7. SqTypeOK'
    <3>1. \A q \in PoolIds : ToSet(sqPools'[q]) \subseteq sqMade
      BY <2>1, <2>4 DEF SqInv, SqTypeOK
    <3>2. sqEngine' \in [SqThreads -> sqMade \cup {SqNull}]
      BY <2>1, <2>5 DEF SqInv, SqTypeOK
    <3> QED BY <1>1, <2>2, <3>1, <3>2 DEF SqInv, SqTypeOK
  <2>8. SqOwned'
    <3>1. \A q \in PoolIds : NoTwice(sqPools'[q]) BY <2>1, <2>4 DEF SqInv, SqOwned
    <3>2. ToSet(sqPools'[1]) \cap ToSet(sqPools'[2]) = {}
      BY <2>1, <2>4 DEF SqInv, SqOwned, PoolIds
    <3>3. \A q \in PoolIds : c \notin ToSet(sqPools'[q])
      BY <2>1, <2>4 DEF SqInv, SqOwned, PoolIds
    <3>4. \A q \in PoolIds, u \in SqThreads : sqEngine'[u] \notin ToSet(sqPools'[q])
      <4>1. \A q \in PoolIds : ToSet(sqPools'[q]) \subseteq ToSet(sqPools[q])
        BY <2>1, <2>4
      <4>2. \A q \in PoolIds, u \in SqThreads : sqEngine[u] \notin ToSet(sqPools[q])
        BY DEF SqInv, SqOwned
      <4> QED BY <2>6, <3>3, <4>1, <4>2
    <3>5. \A u \in SqThreads : sqEngine[u] # c BY <2>1 DEF SqInv, SqOwned
    <3>6. \A u, v \in SqThreads :
            sqEngine'[u] = sqEngine'[v] /\ u # v => sqEngine'[u] = SqNull
      BY <2>6, <3>5 DEF SqInv, SqOwned
    <3> QED BY <3>1, <3>2, <3>4, <3>6 DEF SqOwned
  <2>9. SqStages' BY <1>1, <2>2, <2>6 DEF SqInv, SqStages, SqTypeOK
  <2> QED BY <2>3, <2>7, <2>8, <2>9 DEF SqInv
<1>3. CASE ~(p \in sqMap /\ sqPools[p] # <<>>)
  <2>1. /\ sqStage' = [sqStage EXCEPT ![t] = "use"]
        /\ UNCHANGED <<sqEngine, sqPools>>
    BY <1>3 DEF PopEngine, SqGoto
  <2>2. SqTypeOK' BY <1>1, <2>1 DEF SqInv, SqTypeOK
  <2>3. SqOwned' BY <2>1 DEF SqInv, SqOwned
  <2>4. SqStages' BY <1>1, <2>1 DEF SqInv, SqStages, SqTypeOK
  <2> QED BY <2>1, <2>2, <2>3, <2>4 DEF SqInv
<1> QED BY <1>2, <1>3
(* What RecycleEngine leaves: the connection is in its list again or, after *)
(* Release, nowhere.                                                       *)
LEMMA RecycledLists ==
  ASSUME SqInv, NEW t \in SqThreads, RecycleEngine(t), sqEngine[t] # SqNull
  PROVE  \E p \in PoolIds :
           /\ p \in sqMap =>
                /\ sqPools' = [sqPools EXCEPT ![p] = sqPools'[p]]
                /\ sqPools'[p] \in Seq(SqConns) /\ NoTwice(sqPools'[p])
                /\ ToSet(sqPools'[p]) = ToSet(sqPools[p]) \cup {sqEngine[t]}
           /\ p \notin sqMap => sqPools' = sqPools
<1> DEFINE p == sqId[t]
           list == sqPools[p]
           c == sqEngine[t]
<1>1. p \in PoolIds BY DEF SqInv, SqTypeOK
<1>2. CASE p \notin sqMap BY <1>1, <1>2 DEF RecycleEngine
<1>3. CASE p \in sqMap
  <2>1. sqPools' = [sqPools EXCEPT ![p] = Append(list, c)]
    BY <1>3 DEF RecycleEngine
  <2>2. sqPools'[p] = Append(list, c) BY <1>1, <2>1 DEF SqInv
  <2>3. c \in SqConns BY DEF SqInv, SqTypeOK
  <2>4. list \in Seq(SqConns) /\ NoTwice(list) /\ c \notin ToSet(list)
    BY <1>1 DEF SqInv, SqOwned
  <2> HIDE DEF list, c
  <2>5. /\ Append(list, c) \in Seq(SqConns)
        /\ Len(list) \in Nat /\ Len(Append(list, c)) = Len(list) + 1
        /\ \A i \in 1 .. Len(list) : Append(list, c)[i] = list[i]
        /\ Append(list, c)[Len(list) + 1] = c
        /\ ToSet(Append(list, c)) = ToSet(list) \cup {c}
    BY <2>3, <2>4, LongerList
  <2>6. NoTwice(Append(list, c))
    <3>1. DOMAIN list = 1 .. Len(list) BY <2>4, LenProperties
    <3>2. \A i \in 1 .. Len(list) : list[i] # c BY <2>4, <3>1 DEF ToSet
    <3>3. \A i \in 1 .. Len(list) + 1 : i \in 1 .. Len(list) \/ i = Len(list) + 1
      BY <2>5
    <3> QED BY <2>4, <2>5, <3>2, <3>3 DEF NoTwice
  <2> QED BY <1>1, <1>3, <2>1, <2>2, <2>5, <2>6 DEF list, c
<1> QED BY <1>2, <1>3

LEMMA RecycleEngineInv ==
  ASSUME SqInv, NEW t \in SqThreads, RecycleEngine(t)
  PROVE  SqInv'
<1>1. /\ sqState \in {"open", "closed"} /\ sqStage[t] = "done"
      /\ sqEngine' = [sqEngine EXCEPT ![t] = SqNull]
      /\ sqStage' = [sqStage EXCEPT ![t] = "idle"]
      /\ UNCHANGED <<sqMap, sqId, sqDown, sqDrops, sqMade, sqState>>
  BY DEF RecycleEngine, SqGoto
<1>2. \A u \in SqThreads : sqEngine'[u] = IF u = t THEN SqNull ELSE sqEngine[u]
  BY <1>1 DEF SqInv, SqTypeOK
<1>3. sqEngine' \in [SqThreads -> sqMade \cup {SqNull}]
  BY <1>1 DEF SqInv, SqTypeOK
<1>4. SqStages' BY <1>1, <1>2 DEF SqInv, SqStages, SqTypeOK
<1>5. \A u, v \in SqThreads :
        sqEngine'[u] = sqEngine'[v] /\ u # v => sqEngine'[u] = SqNull
  BY <1>2 DEF SqInv, SqOwned
<1>6. \A q \in PoolIds, u \in SqThreads : SqNull \notin ToSet(sqPools[q])
  BY DEF SqInv, SqTypeOK
<1>7. CASE sqPools' = sqPools
  <2>1. SqTypeOK' BY <1>1, <1>3, <1>7 DEF SqInv, SqTypeOK
  <2>2. SqOwned' BY <1>2, <1>5, <1>6, <1>7 DEF SqInv, SqOwned
  <2> QED BY <1>4, <1>7, <2>1, <2>2 DEF SqInv
<1>8. CASE sqPools' # sqPools
  <2>1. sqEngine[t] # SqNull BY <1>8 DEF RecycleEngine
  <2>2. PICK p \in PoolIds :
           /\ sqPools' = [sqPools EXCEPT ![p] = sqPools'[p]]
           /\ sqPools'[p] \in Seq(SqConns) /\ NoTwice(sqPools'[p])
           /\ ToSet(sqPools'[p]) = ToSet(sqPools[p]) \cup {sqEngine[t]}
    BY <1>8, <2>1, RecycledLists
  <2>3. sqPools' \in [PoolIds -> Seq(SqConns)] BY <2>2 DEF SqInv
  <2>4. \A q \in PoolIds \ {p} : sqPools'[q] = sqPools[q] BY <2>2 DEF SqInv
  <2>5. sqEngine[t] \in sqMade BY <2>1 DEF SqInv, SqTypeOK
  <2>6. \A q \in PoolIds : sqEngine[t] \notin ToSet(sqPools[q])
    BY DEF SqInv, SqOwned
  <2>7. SqTypeOK'
    <3>1. \A q \in PoolIds : ToSet(sqPools'[q]) \subseteq sqMade
      BY <2>2, <2>4, <2>5 DEF SqInv, SqTypeOK
    <3> QED BY <1>1, <1>3, <3>1 DEF SqInv, SqTypeOK
  <2>8. SqOwned'
    <3>1. \A q \in PoolIds : NoTwice(sqPools'[q]) BY <2>2, <2>4 DEF SqInv, SqOwned
    <3>2. ToSet(sqPools'[1]) \cap ToSet(sqPools'[2]) = {}
      BY <2>2, <2>4, <2>6 DEF SqInv, SqOwned, PoolIds
    <3>3. ASSUME NEW q \in PoolIds, NEW u \in SqThreads
          PROVE  sqEngine'[u] \notin ToSet(sqPools'[q])
      <4>1. ToSet(sqPools'[q]) \subseteq ToSet(sqPools[q]) \cup {sqEngine[t]}
        BY <2>2, <2>4
      <4>2. CASE u = t BY <1>2, <1>6, <2>1, <4>1, <4>2
      <4>3. CASE u # t
        <5>1. sqEngine'[u] = sqEngine[u] BY <1>2, <4>3
        <5>2. sqEngine[u] # sqEngine[t] BY <2>1, <4>3 DEF SqInv, SqOwned
        <5>3. sqEngine[u] \notin ToSet(sqPools[q]) BY DEF SqInv, SqOwned
        <5> QED BY <4>1, <5>1, <5>2, <5>3
      <4> QED BY <4>2, <4>3
    <3> QED BY <1>5, <3>1, <3>2, <3>3 DEF SqOwned
  <2> QED BY <1>4, <2>3, <2>7, <2>8 DEF SqInv
<1> QED BY <1>7, <1>8

LEMMA SqStepInv == SqInv /\ SqStep => SqInv'
<1> SUFFICES ASSUME SqInv, SqStep PROVE SqInv' OBVIOUS
<1>1. CASE InitPools BY <1>1, InitPoolsInv
<1>2. ASSUME NEW t \in SqThreads, NEW p \in PoolIds, PopEngine(t, p) PROVE SqInv'
  BY <1>2, PopEngineInv
<1>3. ASSUME NEW t \in SqThreads, CheckEngine(t) PROVE SqInv'
  <2>1. SqTypeOK' BY <1>3 DEF CheckEngine, SqGoto, SqInv, SqTypeOK
  <2>2. SqOwned' BY <1>3 DEF CheckEngine, SqInv, SqOwned
  <2>3. SqStages' BY <1>3 DEF CheckEngine, SqAt, SqGoto, SqInv, SqStages, SqTypeOK
  <2> QED BY <1>3, <2>1, <2>2, <2>3 DEF CheckEngine, SqInv
<1>4. ASSUME NEW t \in SqThreads, UseEngine(t) PROVE SqInv'
  <2>1. SqTypeOK' BY <1>4 DEF UseEngine, SqGoto, SqInv, SqTypeOK
  <2>2. SqOwned' BY <1>4 DEF UseEngine, SqInv, SqOwned
  <2>3. SqStages' BY <1>4 DEF UseEngine, SqAt, SqGoto, SqInv, SqStages, SqTypeOK
  <2> QED BY <1>4, <2>1, <2>2, <2>3 DEF UseEngine, SqInv
<1>5. ASSUME NEW t \in SqThreads, RecycleEngine(t) PROVE SqInv'
  BY <1>5, RecycleEngineInv
<1>6. CASE ReleasePools
  <2>1. sqPools' = [p \in PoolIds |-> <<>>] BY <1>6 DEF ReleasePools
  <2>2. \A p \in PoolIds : sqPools'[p] = <<>> BY <2>1
  <2>3. sqPools' \in [PoolIds -> Seq(SqConns)] BY <2>1, NoList
  <2>4. SqTypeOK' BY <1>6, <2>2, NoList DEF ReleasePools, SqInv, SqTypeOK
  <2>5. SqOwned' BY <1>6, <2>2, NoList DEF ReleasePools, SqInv, SqOwned, PoolIds
  <2>6. SqStages' BY <1>6 DEF ReleasePools, SqInv, SqStages
  <2> QED BY <2>3, <2>4, <2>5, <2>6 DEF SqInv
<1>7. ASSUME NEW c \in SqConns, SqDrop(c) PROVE SqInv'
  BY <1>7 DEF SqDrop, SqInv, SqTypeOK, SqOwned, SqStages
<1>8. CASE /\ sqState' = "crashed" /\ sqState = "new"
           /\ UNCHANGED <<sqPools, sqMap, sqStage, sqId, sqEngine, sqDown, sqDrops, sqMade>>
  BY <1>8 DEF SqInv, SqTypeOK, SqOwned, SqStages
<1>9. CASE UNCHANGED sqVars
  BY <1>9 DEF sqVars, SqInv, SqTypeOK, SqOwned, SqStages
<1> QED BY <1>1, <1>2, <1>3, <1>4, <1>5, <1>6, <1>7, <1>8, <1>9 DEF SqStep

LEMMA SqInvHolds == BasicSpec => []SqInv
<1>1. BasicInit => SqInv BY SqInitInv DEF BasicInit
<1>2. SqInv /\ [BasicNext]_basicVars => SqInv' BY BasicStepsPools, SqStepInv
<1> QED BY <1>1, <1>2, PTL DEF BasicSpec

-----------------------------------------------------------------------------
(* The refinement: the pooled connections are those of both lists.          *)
Pooled == ToSet(sqPools[1]) \cup ToSet(sqPools[2])

SqPoolStep == [SqlConns2!PoolNext]_(SqlConns2!poolVars)

LEMMA SqInitOpens ==
  ASSUME SqInv, InitPools
  PROVE  SqPoolStep
<1>1. CASE sqState' = "crashed"
  BY <1>1 DEF InitPools, SqPoolStep, SqlConns2!poolVars
<1>2. CASE sqState' # "crashed"
  <2>1. /\ \A p \in PoolIds : ToSet(sqPools'[p]) \subseteq SqConns
        /\ sqMade' = Pooled'
    BY <1>2, InitPoolsLists DEF Pooled
  <2>2. sqMade = {} /\ Pooled = {} /\ sqEngine' = sqEngine
    BY NoList DEF InitPools, SqInv, SqStages, PoolIds, Pooled
  <2>3. sqMade' \in SUBSET SqConns BY <2>1 DEF PoolIds, Pooled
  <2>4. SqlConns2!Open(sqMade') BY <2>1, <2>2 DEF SqlConns2!Open, Pooled
  <2> QED BY <2>3, <2>4 DEF SqPoolStep, SqlConns2!PoolNext
<1> QED BY <1>1, <1>2

LEMMA SqPopTakes ==
  ASSUME SqInv, NEW t \in SqThreads, NEW p \in PoolIds, PopEngine(t, p)
  PROVE  SqPoolStep
<1>1. CASE p \in sqMap /\ sqPools[p] # <<>>
  <2>1. PICK c \in ToSet(sqPools[p]) :
           /\ sqEngine' = [sqEngine EXCEPT ![t] = c]
           /\ ToSet(sqPools'[p]) = ToSet(sqPools[p]) \ {c}
           /\ sqPools' = [sqPools EXCEPT ![p] = sqPools'[p]]
    BY <1>1, PopEngineTakes
  <2>2. \A q \in PoolIds \ {p} : sqPools'[q] = sqPools[q] BY <2>1 DEF SqInv
  <2>3. ToSet(sqPools[1]) \cap ToSet(sqPools[2]) = {} BY DEF SqInv, SqOwned
  <2>4. Pooled' = Pooled \ {c} /\ c \in Pooled
    BY <2>1, <2>2, <2>3 DEF PoolIds, Pooled
  <2>5. sqEngine[t] = SqNull /\ sqMade' = sqMade
    BY DEF PopEngine, SqAt, SqInv, SqStages
  <2>6. SqlConns2!Take(t) BY <2>1, <2>4, <2>5 DEF SqlConns2!Take, Pooled
  <2> QED BY <2>6 DEF SqPoolStep, SqlConns2!PoolNext
<1>2. CASE ~(p \in sqMap /\ sqPools[p] # <<>>)
  BY <1>2 DEF PopEngine, SqPoolStep, SqlConns2!poolVars
<1> QED BY <1>1, <1>2

LEMMA SqRecycleGives ==
  ASSUME SqInv, NEW t \in SqThreads, RecycleEngine(t)
  PROVE  SqPoolStep
<1>1. sqMade' = sqMade /\ sqEngine' = [sqEngine EXCEPT ![t] = SqNull]
  BY DEF RecycleEngine
<1>2. CASE sqEngine[t] = SqNull
  <2>1. sqEngine' = sqEngine BY <1>1, <1>2 DEF SqInv, SqTypeOK
  <2>2. sqPools' = sqPools BY <1>2 DEF RecycleEngine
  <2> QED BY <1>1, <2>1, <2>2 DEF SqPoolStep, SqlConns2!poolVars
<1>3. CASE sqEngine[t] # SqNull
  <2>1. PICK p \in PoolIds :
           /\ p \in sqMap =>
                /\ sqPools' = [sqPools EXCEPT ![p] = sqPools'[p]]
                /\ ToSet(sqPools'[p]) = ToSet(sqPools[p]) \cup {sqEngine[t]}
           /\ p \notin sqMap => sqPools' = sqPools
    BY <1>3, RecycledLists
  <2>2. CASE p \in sqMap
    <3>1. \A q \in PoolIds \ {p} : sqPools'[q] = sqPools[q] BY <2>1, <2>2 DEF SqInv
    <3>2. Pooled' = Pooled \cup {sqEngine[t]} BY <2>1, <2>2, <3>1 DEF PoolIds, Pooled
    <3>3. SqlConns2!Give(t) BY <1>1, <1>3, <3>2 DEF SqlConns2!Give, Pooled
    <3> QED BY <3>3 DEF SqPoolStep, SqlConns2!PoolNext
  <2>3. CASE p \notin sqMap
    <3>1. SqlConns2!Forget(t) BY <1>1, <1>3, <2>1, <2>3 DEF SqlConns2!Forget
    <3> QED BY <3>1 DEF SqPoolStep, SqlConns2!PoolNext
  <2> QED BY <2>2, <2>3
<1> QED BY <1>2, <1>3

LEMMA SqStepRefines == SqInv /\ SqStep => SqPoolStep
<1> SUFFICES ASSUME SqInv, SqStep PROVE SqPoolStep OBVIOUS
<1>1. CASE InitPools BY <1>1, SqInitOpens
<1>2. ASSUME NEW t \in SqThreads, NEW p \in PoolIds, PopEngine(t, p) PROVE SqPoolStep
  BY <1>2, SqPopTakes
<1>3. ASSUME NEW t \in SqThreads, CheckEngine(t) \/ UseEngine(t) PROVE SqPoolStep
  BY <1>3 DEF CheckEngine, UseEngine, SqPoolStep, SqlConns2!poolVars
<1>4. ASSUME NEW t \in SqThreads, RecycleEngine(t) PROVE SqPoolStep
  BY <1>4, SqRecycleGives
<1>5. CASE ReleasePools
  <2>1. Pooled' = {} /\ sqMade' = sqMade /\ sqEngine' = sqEngine
    BY <1>5, NoList DEF ReleasePools, Pooled, PoolIds
  <2>2. SqlConns2!Close BY <2>1 DEF SqlConns2!Close, Pooled
  <2> QED BY <2>2 DEF SqPoolStep, SqlConns2!PoolNext
<1>6. ASSUME NEW c \in SqConns, SqDrop(c) PROVE SqPoolStep
  BY <1>6 DEF SqDrop, SqPoolStep, SqlConns2!poolVars
<1>7. CASE UNCHANGED <<sqPools, sqMap, sqStage, sqId, sqEngine, sqDown, sqDrops, sqMade>>
  BY <1>7 DEF SqPoolStep, SqlConns2!poolVars
<1> QED BY <1>1, <1>2, <1>3, <1>4, <1>5, <1>6, <1>7 DEF SqStep, sqVars

(* The two pools together keep the promise of ConnectionPool, whatever the  *)
(* configuration file says and however many connections the server loses:   *)
(* PopEngine checks a connection after it has let go of the mutex           *)
(* (mysql_db_pool.cc:65), and still no two threads ever have the same one.  *)
THEOREM SqlPoolsImplementPool == BasicSpec => KeepsSqlPool
<1>1. ASSUME BasicInit PROVE SqlConns2!PoolInit
  BY <1>1, NoList DEF BasicInit, SqInit, SqlConns2!PoolInit, PoolIds
<1>2. SqInv /\ [BasicNext]_basicVars => [SqlConns2!PoolNext]_(SqlConns2!poolVars)
  BY BasicStepsPools, SqStepRefines DEF SqPoolStep
<1>3. BasicSpec => []SqInv BY SqInvHolds
<1> QED BY <1>1, <1>2, <1>3, PTL DEF BasicSpec, KeepsSqlPool, SqlConns2!PoolSpec
-----------------------------------------------------------------------------
(* The snapshot of StockBasics.                                             *)
OneVersion(rows) == \A c, d \in DOMAIN rows : rows[c] = rows[d]

(* Rows of one query, in the snapshot and on the way to it; who is about to *)
(* swap has some, and has given its connection back.                       *)
RowsOfQueries ==
  /\ OneVersion(stockbase)
  /\ \A t \in SqThreads : OneVersion(basicRows[t])
  /\ \A t \in basicSwap : basicRows[t] # NoRows /\ sqStage[t] = "idle"

BasicInv == BasicTypeOK /\ RowsOfQueries

LEMMA NoRowsOnly == NoRows \in Snapshots /\ \A rows \in Snapshots : rows # NoRows => DOMAIN rows # {}
<1>1. NoRows \in [{} -> 0 .. MaxVersion] BY DEF NoRows
<1>2. NoRows \in Snapshots
  <2>1. {} \in SUBSET BasicCodes OBVIOUS
  <2> QED BY <1>1, <2>1 DEF Snapshots
<1>3. ASSUME NEW rows \in Snapshots, DOMAIN rows = {} PROVE rows = NoRows
  <2>1. PICK S \in SUBSET BasicCodes : rows \in [S -> 0 .. MaxVersion] BY DEF Snapshots
  <2>2. S = {} BY <1>3, <2>1
  <2> QED BY <2>1, <2>2 DEF NoRows
<1> QED BY <1>2, <1>3

LEMMA RowsOfTable ==
  ASSUME BasicTypeOK
  PROVE  RowsOf(basicTable) \in Snapshots /\ OneVersion(RowsOf(basicTable))
<1>1. basicTable.codes \in SUBSET BasicCodes /\ basicTable.version \in 0 .. MaxVersion
  BY DEF BasicTypeOK
<1>2. RowsOf(basicTable) \in [basicTable.codes -> 0 .. MaxVersion] BY <1>1 DEF RowsOf
<1>3. RowsOf(basicTable) \in Snapshots BY <1>1, <1>2 DEF Snapshots
<1> QED BY <1>3 DEF RowsOf, OneVersion

LEMMA BasicInitInv == BasicInit => BasicInv
<1> USE StockBasicsAssumption
<1> SUFFICES ASSUME BasicInit PROVE BasicInv OBVIOUS
<1>1. SqTypeOK BY SqInitInv DEF BasicInit, SqInv
<1>2. /\ basicTable = [version |-> 0, codes |-> BasicCodes] /\ basicSwap = {}
      /\ basicRows = [t \in SqThreads |-> NoRows] /\ stockbase = NoRows
      /\ basicEngine = "none"
  BY DEF BasicInit
<1>3. BasicTypeOK BY <1>1, <1>2, NoRowsOnly DEF BasicTypeOK
<1>4. OneVersion(NoRows) BY DEF OneVersion, NoRows
<1> QED BY <1>2, <1>3, <1>4 DEF BasicInv, RowsOfQueries

(* A thread that is about to swap stays idle until it has swapped.          *)
LEMMA SwappersRest ==
  ASSUME BasicInv, BasicNext
  PROVE  \A t \in basicSwap : sqStage'[t] = "idle"
<1> SUFFICES ASSUME NEW t \in basicSwap PROVE sqStage'[t] = "idle" OBVIOUS
<1>1. t \in SqThreads /\ sqStage[t] = "idle" /\ sqStage \in [SqThreads -> {"idle", "check", "use", "done"}]
  BY DEF BasicInv, BasicTypeOK, SqTypeOK, RowsOfQueries
<1>2. ASSUME NEW u \in SqThreads, UpdateStockBasic(u) PROVE sqStage'[t] = "idle"
  <2>1. u # t /\ PopEngine(u, 2) BY <1>2 DEF UpdateStockBasic
  <2> QED BY <1>1, <2>1 DEF PopEngine, SqGoto
<1>3. ASSUME NEW u \in SqThreads, CheckEngine(u) \/ QueryStockBasics(u) \/ QueryReturns(u)
      PROVE  sqStage'[t] = "idle"
  <2>1. sqStage[u] # "idle" 
    BY <1>3 DEF CheckEngine, QueryStockBasics, UseEngine, QueryReturns, RecycleEngine, SqAt
  <2>2. u # t BY <1>1, <2>1
  <2> QED 
    BY <1>1, <1>3, <2>2
    DEF CheckEngine, QueryStockBasics, UseEngine, QueryReturns, RecycleEngine, SqGoto
<1>4. CASE sqStage' = sqStage BY <1>1, <1>4
<1>5. CASE GetInstance BY <1>4, <1>5 DEF GetInstance, sqVars
<1>6. CASE EngineInit BY <1>4, <1>6 DEF EngineInit, InitPools
<1>7. CASE EarlyReader BY <1>4, <1>7 DEF EarlyReader
<1>8. ASSUME NEW u \in SqThreads, SwapStockBase(u) PROVE sqStage'[t] = "idle"
  BY <1>4, <1>8 DEF SwapStockBase, sqVars
<1>9. CASE ReleasePools BY <1>4, <1>9 DEF ReleasePools
<1>10. ASSUME NEW c \in SqConns, SqDrop(c) PROVE sqStage'[t] = "idle"
  BY <1>4, <1>10 DEF SqDrop
<1>11. CASE TableChanges BY <1>4, <1>11 DEF TableChanges, sqVars
<1> QED BY <1>2, <1>3, <1>5, <1>6, <1>7, <1>8, <1>9, <1>10, <1>11 DEF BasicNext

(* The rows that QueryStockBasics returns.                                  *)
LEMMA StockQueryInv ==
  ASSUME BasicInv, SqTypeOK', NEW t \in SqThreads, QueryStockBasics(t)
  PROVE  BasicInv'
<1>1. PICK rows \in {NoRows, RowsOf(basicTable)} :
        basicRows' = [basicRows EXCEPT ![t] = rows]
  BY DEF QueryStockBasics
<1>2. /\ sqStage[t] = "use" /\ UNCHANGED <<basicTable, basicSwap, stockbase, basicEngine>>
  BY DEF QueryStockBasics, UseEngine, SqAt
<1>3. BasicTypeOK BY DEF BasicInv
<1>4. rows \in Snapshots /\ OneVersion(rows)
  <2>1. OneVersion(NoRows) BY DEF OneVersion, NoRows
  <2> QED BY <1>3, <2>1, NoRowsOnly, RowsOfTable
<1>5. BasicTypeOK'
  <2>1. basicRows' \in [SqThreads -> Snapshots] BY <1>1, <1>3, <1>4 DEF BasicTypeOK
  <2> QED BY <1>2, <1>3, <2>1 DEF BasicTypeOK
<1>6. \A u \in SqThreads : basicRows'[u] = IF u = t THEN rows ELSE basicRows[u]
  BY <1>1, <1>3 DEF BasicTypeOK
<1>7. t \notin basicSwap BY <1>2 DEF BasicInv, RowsOfQueries
<1>8. \A u \in basicSwap : sqStage'[u] = "idle"
  <2>1. BasicNext BY DEF BasicNext
  <2> QED BY <2>1, SwappersRest
<1>9. RowsOfQueries'
  <2>1. \A u \in SqThreads : OneVersion(basicRows'[u])
    BY <1>4, <1>6 DEF BasicInv, RowsOfQueries
  <2>2. \A u \in basicSwap : basicRows'[u] # NoRows
    BY <1>3, <1>6, <1>7 DEF BasicInv, BasicTypeOK, RowsOfQueries
  <2>3. OneVersion(stockbase') BY <1>2 DEF BasicInv, RowsOfQueries
  <2> QED BY <1>2, <1>8, <2>1, <2>2, <2>3 DEF RowsOfQueries
<1> QED BY <1>5, <1>9 DEF BasicInv

(* The end of a call: with rows it goes on to the swap.                     *)
LEMMA StockReturnInv ==
  ASSUME BasicInv, SqTypeOK', NEW t \in SqThreads, QueryReturns(t)
  PROVE  BasicInv'
<1>1. UNCHANGED <<basicTable, basicRows, stockbase, basicEngine>> BY DEF QueryReturns
<1>2. basicSwap' \subseteq basicSwap \cup {t} /\ (t \in basicSwap' => basicRows[t] # NoRows)
  BY DEF QueryReturns, BasicInv, RowsOfQueries
<1>3. basicSwap' \subseteq SqThreads BY <1>2 DEF BasicInv, BasicTypeOK
<1>4. BasicTypeOK' BY <1>1, <1>3 DEF BasicInv, BasicTypeOK
<1>5. sqStage'[t] = "idle"
  BY DEF QueryReturns, RecycleEngine, SqGoto, BasicInv, BasicTypeOK, SqTypeOK
<1>6. \A u \in basicSwap : sqStage'[u] = "idle"
  <2>1. BasicNext BY DEF BasicNext
  <2> QED BY <2>1, SwappersRest
<1>7. RowsOfQueries' BY <1>1, <1>2, <1>5, <1>6 DEF BasicInv, RowsOfQueries
<1> QED BY <1>4, <1>7 DEF BasicInv

LEMMA SwapInv ==
  ASSUME BasicInv, SqTypeOK', NEW t \in SqThreads, SwapStockBase(t)
  PROVE  BasicInv'
<1>1. /\ t \in basicSwap /\ stockbase' = basicRows[t]
      /\ basicRows' = [basicRows EXCEPT ![t] = NoRows]
      /\ basicSwap' = basicSwap \ {t}
      /\ UNCHANGED <<sqStage, basicTable, basicEngine>>
  BY DEF SwapStockBase, SwappedRows, sqVars
<1>2. basicRows \in [SqThreads -> Snapshots] BY DEF BasicInv, BasicTypeOK
<1>3. \A u \in SqThreads : basicRows'[u] = IF u = t THEN NoRows ELSE basicRows[u]
  BY <1>1, <1>2
<1>4. OneVersion(NoRows) BY DEF OneVersion, NoRows
<1>5. BasicTypeOK'
  <2>1. basicRows' \in [SqThreads -> Snapshots] BY <1>1, <1>2, NoRowsOnly
  <2> QED BY <1>1, <1>2, <2>1 DEF BasicInv, BasicTypeOK
<1>6. RowsOfQueries'
  <2>1. \A u \in SqThreads : OneVersion(basicRows'[u])
    BY <1>3, <1>4 DEF BasicInv, RowsOfQueries
  <2>2. \A u \in basicSwap' : basicRows'[u] # NoRows /\ sqStage'[u] = "idle"
    BY <1>1, <1>3 DEF BasicInv, BasicTypeOK, RowsOfQueries
  <2>3. OneVersion(stockbase') BY <1>1 DEF BasicInv, RowsOfQueries
  <2> QED BY <2>1, <2>2, <2>3 DEF RowsOfQueries
<1> QED BY <1>5, <1>6 DEF BasicInv

LEMMA BasicStepInv == SqInv' /\ BasicInv /\ [BasicNext]_basicVars => BasicInv'
<1> SUFFICES ASSUME SqInv', BasicInv, [BasicNext]_basicVars PROVE BasicInv' OBVIOUS
<1>1. SqTypeOK' BY DEF SqInv
<1>2. CASE UNCHANGED basicVars
  <2>1. sqStage' = sqStage /\ UNCHANGED basicOnly BY <1>2 DEF basicVars, sqVars, basicOnly
  <2>2. BasicTypeOK' BY <1>1, <2>1 DEF basicOnly, BasicInv, BasicTypeOK
  <2>3. RowsOfQueries' BY <2>1 DEF basicOnly, BasicInv, RowsOfQueries
  <2> QED BY <2>2, <2>3 DEF BasicInv
<1>3. ASSUME NEW t \in SqThreads, QueryStockBasics(t) PROVE BasicInv'
  BY <1>1, <1>3, StockQueryInv
<1>4. ASSUME NEW t \in SqThreads, QueryReturns(t) PROVE BasicInv'
  BY <1>1, <1>4, StockReturnInv
<1>5. ASSUME NEW t \in SqThreads, SwapStockBase(t) PROVE BasicInv'
  BY <1>1, <1>5, SwapInv
(* No other step touches the rows.                                         *)
<1>6. CASE /\ BasicNext
           /\ UNCHANGED <<basicRows, basicSwap, stockbase>>
           /\ basicTable' = basicTable \/ TableChanges
           /\ basicEngine' \in {basicEngine, "starting", "ready"}
  <2>1. basicTable' \in [version : 0 .. MaxVersion, codes : SUBSET BasicCodes]
    <3>1. CASE TableChanges
      <4>1. basicTable.version \in 0 .. MaxVersion /\ basicTable.version < MaxVersion
        BY <3>1 DEF TableChanges, BasicInv, BasicTypeOK
      <4>2. basicTable.version + 1 \in 0 .. MaxVersion BY <4>1, StockBasicsAssumption
      <4> QED BY <3>1, <4>2 DEF TableChanges
    <3> QED BY <1>6, <3>1 DEF BasicInv, BasicTypeOK
  <2>2. BasicTypeOK' BY <1>1, <1>6, <2>1 DEF BasicInv, BasicTypeOK
  <2>3. \A t \in basicSwap : sqStage'[t] = "idle" BY <1>6, SwappersRest
  <2>4. RowsOfQueries' BY <1>6, <2>3 DEF BasicInv, RowsOfQueries
  <2> QED BY <2>2, <2>4 DEF BasicInv
<1>7. CASE GetInstance BY <1>6, <1>7 DEF GetInstance, BasicNext
<1>8. CASE EngineInit BY <1>6, <1>8 DEF EngineInit, BasicNext
<1>9. CASE EarlyReader BY <1>6, <1>9 DEF EarlyReader, BasicNext, basicOnly
<1>10. ASSUME NEW t \in SqThreads, UpdateStockBasic(t) PROVE BasicInv'
  BY <1>6, <1>10 DEF UpdateStockBasic, BasicNext, basicOnly
<1>11. ASSUME NEW t \in SqThreads, CheckEngine(t), UNCHANGED basicOnly PROVE BasicInv'
  BY <1>6, <1>11 DEF BasicNext, basicOnly
<1>12. CASE ReleasePools /\ UNCHANGED basicOnly BY <1>6, <1>12 DEF BasicNext, basicOnly
<1>13. ASSUME NEW c \in SqConns, SqDrop(c), UNCHANGED basicOnly PROVE BasicInv'
  BY <1>6, <1>13 DEF BasicNext, basicOnly
<1>14. CASE TableChanges BY <1>6, <1>14 DEF TableChanges, BasicNext
<1> QED BY <1>2, <1>3, <1>4, <1>5, <1>7, <1>8, <1>9, <1>10, <1>11, <1>12, <1>13, <1>14
        DEF BasicNext

LEMMA BasicInvHolds == BasicSpec => []BasicInv
<1>1. BasicInit => BasicInv BY BasicInitInv
<1>2. SqInv' /\ BasicInv /\ [BasicNext]_basicVars => BasicInv' BY BasicStepInv
<1>3. BasicSpec => []SqInv BY SqInvHolds
<1> QED BY <1>1, <1>2, <1>3, PTL DEF BasicSpec

(* The pools of the share engine and its snapshot stay within their types:  *)
(* a list holds only connections that InitPool has made, for PushEngine     *)
(* returns none that PopEngine did not hand out, and never NULL.            *)
THEOREM BasicTypes == BasicSpec => []BasicTypeOK
<1>1. BasicInv => BasicTypeOK BY DEF BasicInv
<1> QED BY <1>1, BasicInvHolds, PTL

(* Readers of stockbase_ (stock_base_info.cc) find the rows of one query,   *)
(* whichever threads update at once and whatever their queries return; once *)
(* there are rows there always are.                                        *)
THEOREM SnapshotsAreOneQuery == BasicSpec => SnapshotIsOneQuery
<1>1. BasicInv /\ BasicInv' /\ [BasicNext]_basicVars =>
        [/\ \A c, d \in DOMAIN stockbase' : stockbase'[c] = stockbase'[d]
         /\ DOMAIN stockbase # {} => DOMAIN stockbase' # {}]_basicVars
  <2> SUFFICES ASSUME BasicInv, BasicInv', BasicNext
               PROVE  /\ \A c, d \in DOMAIN stockbase' : stockbase'[c] = stockbase'[d]
                      /\ DOMAIN stockbase # {} => DOMAIN stockbase' # {}
    OBVIOUS
  <2>1. OneVersion(stockbase') BY DEF BasicInv, RowsOfQueries
  <2>2. CASE stockbase' = stockbase BY <2>1, <2>2 DEF OneVersion
  <2>3. ASSUME NEW t \in SqThreads, SwapStockBase(t) PROVE DOMAIN stockbase' # {}
    <3>1. t \in basicSwap /\ stockbase' = basicRows[t]
      BY <2>3 DEF SwapStockBase, SwappedRows
    <3>2. basicRows[t] \in Snapshots /\ basicRows[t] # NoRows
      BY <3>1 DEF BasicInv, BasicTypeOK, RowsOfQueries
    <3> QED BY <3>1, <3>2, NoRowsOnly
  <2>4. stockbase' = stockbase \/ \E t \in SqThreads : SwapStockBase(t)
    BY DEF BasicNext, GetInstance, EngineInit, EarlyReader, UpdateStockBasic,
           QueryStockBasics, QueryReturns, TableChanges, basicOnly
  <2> QED BY <2>1, <2>2, <2>3, <2>4 DEF OneVersion
<1> QED BY <1>1, BasicInvHolds, PTL DEF BasicSpec, SnapshotIsOneQuery
=============================================================================
