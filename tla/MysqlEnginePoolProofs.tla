----------------------- MODULE MysqlEnginePoolProofs -----------------------
(***************************************************************************)
(* Theorems about MysqlEnginePool for every number of threads, connections, *)
(* jobs, calls and lost connections.                                       *)
(***************************************************************************)
EXTENDS MysqlEnginePool, FiniteSetTheorems, TLAPS

-----------------------------------------------------------------------------
(* Lists of connections: push_back and pop_front.                          *)

LEMMA AppendFacts ==
  ASSUME NEW S, NEW s \in Seq(S), NEW e \in S
  PROVE  /\ Append(s, e) \in Seq(S)
         /\ Range(Append(s, e)) = Range(s) \cup {e}
         /\ IsInjective(s) /\ e \notin Range(s) => IsInjective(Append(s, e))
<1>1. /\ Append(s, e) \in Seq(S)
      /\ DOMAIN Append(s, e) = DOMAIN s \cup {Len(s) + 1}
      /\ \A i \in DOMAIN s : Append(s, e)[i] = s[i]
      /\ Append(s, e)[Len(s) + 1] = e
  OBVIOUS
<1>2. Range(Append(s, e)) = Range(s) \cup {e}
  BY <1>1 DEF Range
<1>3. IsInjective(s) /\ e \notin Range(s) => IsInjective(Append(s, e))
  BY <1>1 DEF Range, IsInjective
<1>. QED
  BY <1>1, <1>2, <1>3

LEMMA TailFacts ==
  ASSUME NEW S, NEW s \in Seq(S), s # <<>>, IsInjective(s)
  PROVE  /\ Head(s) \in Range(s) /\ Head(s) \in S
         /\ Tail(s) \in Seq(S)
         /\ Range(Tail(s)) = Range(s) \ {Head(s)}
         /\ IsInjective(Tail(s))
<1>1. /\ Len(s) \in Nat \ {0} /\ DOMAIN s = 1 .. Len(s)
      /\ Head(s) = s[1] /\ Head(s) \in S
      /\ Tail(s) \in Seq(S) /\ DOMAIN Tail(s) = 1 .. Len(s) - 1
      /\ \A i \in 1 .. Len(s) - 1 : Tail(s)[i] = s[i + 1]
  OBVIOUS
<1>2. Head(s) \in Range(s)
  BY <1>1 DEF Range
<1>3. Range(Tail(s)) \subseteq Range(s) \ {Head(s)}
  BY <1>1 DEF Range, IsInjective
<1>4. ASSUME NEW i \in DOMAIN s, s[i] # Head(s)
      PROVE  s[i] \in Range(Tail(s))
  <2>1. i - 1 \in DOMAIN Tail(s) /\ Tail(s)[i - 1] = s[i]
    BY <1>1, <1>4
  <2>. QED
    BY <2>1 DEF Range
<1>5. Range(s) \ {Head(s)} \subseteq Range(Tail(s))
  BY <1>4 DEF Range
<1>6. IsInjective(Tail(s))
  BY <1>1 DEF IsInjective
<1>. QED
  BY <1>1, <1>2, <1>3, <1>5, <1>6

(* Initialize makes every connection once, and for one of the two pools.    *)
LEMMA CreatedOnce ==
  /\ \A k \in Kinds : /\ Created(k) \in Seq(Engines)
                      /\ IsInjective(Created(k))
                      /\ Range(Created(k)) \subseteq Engines
  /\ \A k, l \in Kinds : k # l => Range(Created(k)) \cap Range(Created(l)) = {}
  /\ NoEngine \notin Engines
<1>. DEFINE R == ReadEngines
            W == WriteEngines
            B == R \o W
<1>1. R \in Seq(Range(R)) /\ W \in Seq(Range(W)) /\ IsInjective(B)
  BY PoolAssumption
<1>2. /\ Len(R) \in Nat /\ DOMAIN R = 1 .. Len(R)
      /\ Len(W) \in Nat /\ DOMAIN W = 1 .. Len(W)
  BY <1>1
<1>3. /\ DOMAIN B = 1 .. Len(R) + Len(W)
      /\ \A i \in 1 .. Len(R) : B[i] = R[i]
      /\ \A i \in 1 .. Len(W) : B[Len(R) + i] = W[i]
  BY <1>1
<1>. HIDE DEF R, W, B
<1>4. IsInjective(R)
  BY <1>1, <1>2, <1>3 DEF IsInjective
<1>5. ASSUME NEW i \in DOMAIN W, NEW j \in DOMAIN W, W[i] = W[j]
      PROVE  i = j
  <2>1. Len(R) + i \in DOMAIN B /\ Len(R) + j \in DOMAIN B
    BY <1>2, <1>3
  <2>2. B[Len(R) + i] = B[Len(R) + j]
    BY <1>2, <1>3, <1>5
  <2>3. Len(R) + i = Len(R) + j
    BY <1>1, <2>1, <2>2 DEF IsInjective
  <2>. QED
    BY <1>2, <2>3
<1>6. IsInjective(W)
  BY <1>5 DEF IsInjective
<1>7. ASSUME NEW i \in DOMAIN R, NEW j \in DOMAIN W
      PROVE  R[i] # W[j]
  <2>1. i \in DOMAIN B /\ Len(R) + j \in DOMAIN B /\ i # Len(R) + j
    BY <1>2, <1>3
  <2>2. B[i] = R[i] /\ B[Len(R) + j] = W[j]
    BY <1>2, <1>3
  <2>. QED
    BY <1>1, <2>1, <2>2 DEF IsInjective
<1>8. Range(R) \cap Range(W) = {}
  BY <1>7 DEF Range
<1>9. R \in Seq(Engines) /\ W \in Seq(Engines)
  BY <1>1 DEF Engines, R, W
<1>10. NoEngine \notin Engines
  <2>1. NoEngine \notin Range(B)
    BY PoolAssumption DEF B, R, W
  <2>2. ASSUME NEW i \in DOMAIN R
        PROVE  R[i] \in Range(B)
    BY <1>2, <1>3 DEF Range
  <2>3. ASSUME NEW i \in DOMAIN W
        PROVE  W[i] \in Range(B)
    <3>1. Len(R) + i \in DOMAIN B /\ B[Len(R) + i] = W[i]
      BY <1>2, <1>3
    <3>. QED
      BY <3>1 DEF Range
  <2>. QED
    BY <2>1, <2>2, <2>3 DEF Engines, Range, R, W
<1>. QED
  BY <1>4, <1>6, <1>8, <1>9, <1>10 DEF Kinds, Created, Engines, R, W

-----------------------------------------------------------------------------
(* Types.                                                                  *)

(* The worker has a job from PopMysqlJob to the end of its round.           *)
WorkerHasJob == pc[Worker] \notin {"wait", "take"} => job \in Jobs

Typed == TypeOK /\ WorkerHasJob

LEMMA TypedInit == Init => Typed
<1>. SUFFICES ASSUME Init PROVE Typed
  OBVIOUS
<1>1. \A k \in Kinds : Created(k) \in Seq(Engines)
  BY CreatedOnce
<1>2. \A k \in Kinds : InitialSem(k) \in Nat
  <2>. SUFFICES ASSUME NEW k \in Kinds PROVE InitialSem(k) \in Nat
    OBVIOUS
  <2>1. Len(Created(k)) \in Nat
    BY <1>1
  <2>. QED
    BY <2>1 DEF InitialSem
<1>3. pc \in [Threads -> Steps] /\ kind \in [Threads -> Kinds]
  BY DEF Init, Steps, Kinds
<1>4. \A t \in Threads : ~Holding(t) /\ engine[t] = NoEngine
  BY DEF Init, Holding
<1>5. /\ calls \in [Clients -> 0 .. MaxCalls] /\ drops \in 0 .. MaxDrops
      /\ engine \in [Threads -> Engines \cup {NoEngine}]
  BY PoolAssumption DEF Init
<1>6. WorkerHasJob
  BY DEF Init, WorkerHasJob, Threads
<1>7. sem \in [Kinds -> Nat] /\ pool \in [Kinds -> Seq(Engines)]
  BY <1>1, <1>2 DEF Init
<1>8. /\ taskQueue \in Seq(Jobs \X Kinds)
      /\ submitted \in Seq(Jobs) /\ finished \in Seq(Jobs)
  BY DEF Init
<1>9. /\ mutex \in Threads \cup {NoThread} /\ taskNum \in Nat
      /\ job \in Jobs \cup {NoJob} /\ alive \subseteq Engines
      /\ corrupt \in BOOLEAN
  BY DEF Init
<1>. QED
  BY <1>3, <1>4, <1>5, <1>6, <1>7, <1>8, <1>9 DEF Typed, TypeOK

LEMMA TypedStep == Typed /\ [Next]_vars => Typed'
<1>. SUFFICES ASSUME Typed, [Next]_vars PROVE Typed'
  OBVIOUS
<1>. USE DEF Typed, TypeOK, WorkerHasJob, At, Goto, Holding
<1>0. Worker \in Threads /\ Worker \notin Clients /\ Clients \subseteq Threads
  BY PoolAssumption DEF Threads
<1>1. ASSUME NEW t \in Clients, NEW k \in Kinds, Call(t, k)
      PROVE  Typed'
  <2>1. calls' \in [Clients -> 0 .. MaxCalls]
    BY <1>1, PoolAssumption DEF Call
  <2>. QED
    BY <1>0, <1>1, <2>1 DEF Call, Steps
<1>2. ASSUME NEW t \in Clients, NEW k \in Kinds, NEW j \in Jobs,
             AddAsyncMysqlJob(t, j, k)
      PROVE  Typed'
  <2>1. taskQueue' \in Seq(Jobs \X Kinds)
    <3>1. <<j, k>> \in Jobs \X Kinds
      OBVIOUS
    <3>2. Append(taskQueue, <<j, k>>) \in Seq(Jobs \X Kinds)
      BY <3>1, AppendFacts
    <3>. QED
      BY <1>2, <3>2 DEF AddAsyncMysqlJob
  <2>2. submitted' \in Seq(Jobs) /\ taskNum' \in Nat
    BY <1>2 DEF AddAsyncMysqlJob, PostTask
  <2>. QED
    BY <1>2, <2>1, <2>2 DEF AddAsyncMysqlJob
<1>3. ASSUME NEW t \in Threads, SemWait(t)
      PROVE  Typed'
  <2>1. sem' \in [Kinds -> Nat]
    BY <1>3 DEF SemWait
  <2>. QED
    BY <1>0, <1>3, <2>1 DEF SemWait, Steps
<1>4. ASSUME NEW t \in Threads, PopEngine(t)
      PROVE  Typed'
  <2>1. CASE pool[kind[t]] = <<>>
    BY <1>4, <2>1 DEF PopEngine
  <2>2. CASE pool[kind[t]] # <<>>
    <3>. DEFINE e == Head(pool[kind[t]])
    <3>1. e \in Engines /\ Tail(pool[kind[t]]) \in Seq(Engines) /\ e # NoEngine
      BY <2>2, CreatedOnce
    <3>2. pool' \in [Kinds -> Seq(Engines)]
      <4>1. pool' = [pool EXCEPT ![kind[t]] = Tail(@)]
        BY <1>4, <2>2 DEF PopEngine, Taken
      <4>. QED
        BY <3>1, <4>1
    <3>3. /\ engine' = [engine EXCEPT ![t] = e]
          /\ pc' \in [Threads -> Steps]
          /\ pc'[t] \in {"exec", "reconnect"}
          /\ \A u \in Threads : u # t => pc'[u] = pc[u]
          /\ mutex' \in Threads \cup {NoThread}
      BY <1>4, <2>2 DEF PopEngine, Steps
    <3>4. \A u \in Threads : Holding(u)' <=> engine'[u] # NoEngine
      BY <3>1, <3>3
    <3>. HIDE DEF e
    <3>5. WorkerHasJob'
      BY <1>0, <1>4, <3>3 DEF PopEngine
    <3>. QED
      BY <1>4, <3>1, <3>2, <3>3, <3>4, <3>5 DEF PopEngine
  <2>. QED
    BY <2>1, <2>2
<1>5. ASSUME NEW t \in Threads, Reconnect(t)
      PROVE  Typed'
  <2>1. engine[t] \in Engines
    BY <1>5 DEF Reconnect
  <2>. QED
    BY <1>0, <1>5, <2>1 DEF Reconnect, Steps
<1>6. ASSUME NEW t \in Threads, Exec(t)
      PROVE  Typed'
  BY <1>0, <1>6 DEF Exec, Steps
<1>7. ASSUME NEW t \in Threads, PushEngine(t)
      PROVE  Typed'
  <2>1. engine[t] \in Engines
    BY <1>7 DEF PushEngine
  <2>2. /\ pool' \in [Kinds -> Seq(Engines)]
        /\ sem' \in [Kinds -> Nat]
    <3>1. Append(pool[kind[t]], engine[t]) \in Seq(Engines)
      BY <2>1, AppendFacts
    <3>. QED
      BY <1>7, <3>1 DEF PushEngine, GivenBack
  <2>3. /\ pc' \in [Threads -> Steps]
        /\ pc'[t] \in {"callback", "wait", "idle"}
        /\ \A u \in Threads : u # t => pc'[u] = pc[u]
    BY <1>7 DEF PushEngine, Steps
  <2>4. \A u \in Threads : Holding(u)' <=> engine'[u] # NoEngine
    BY <1>7, <2>3 DEF PushEngine, Returned
  <2>5. engine' \in [Threads -> Engines \cup {NoEngine}]
    BY <1>7 DEF PushEngine, Returned
  <2>6. /\ job' \in Jobs \cup {NoJob} /\ finished' \in Seq(Jobs)
        /\ WorkerHasJob'
    <3>1. CASE t = Worker
      <4>1. job \in Jobs
        BY <1>7, <3>1 DEF PushEngine
      <4>2. /\ pc'[Worker] = "callback" /\ job' = job /\ finished' = finished
            \/ /\ pc'[Worker] = "wait" /\ job' = NoJob
               /\ finished' = Append(finished, job)
        BY <1>0, <1>7, <3>1 DEF PushEngine
      <4>3. Append(finished, job) \in Seq(Jobs)
        BY <4>1
      <4>. QED
        BY <4>1, <4>2, <4>3
    <3>2. CASE t # Worker
      BY <1>0, <1>7, <2>3, <3>2 DEF PushEngine
    <3>. QED
      BY <3>1, <3>2
  <2>. QED
    BY <1>7, <2>2, <2>3, <2>4, <2>5, <2>6 DEF PushEngine
<1>8. CASE TaskWait
  BY <1>0, <1>8 DEF TaskWait, Steps
<1>9. CASE PopMysqlJob
  <2>1. CASE taskQueue = <<>>
    BY <1>0, <1>9, <2>1 DEF PopMysqlJob, Steps
  <2>2. CASE taskQueue # <<>>
    <3>1. /\ Head(taskQueue) \in Jobs \X Kinds
          /\ Tail(taskQueue) \in Seq(Jobs \X Kinds)
      BY <2>2
    <3>2. /\ taskQueue' \in Seq(Jobs \X Kinds)
          /\ job' \in Jobs
          /\ kind' \in [Threads -> Kinds]
      BY <1>0, <1>9, <2>2, <3>1 DEF PopMysqlJob, NextJob
    <3>. QED
      BY <1>0, <1>9, <2>2, <3>2 DEF PopMysqlJob, Steps
  <2>. QED
    BY <2>1, <2>2
<1>10. CASE Callback
  <2>1. job \in Jobs
    BY <1>10 DEF Callback
  <2>. QED
    BY <1>0, <1>10, <2>1 DEF Callback, Steps
<1>11. ASSUME NEW e \in Engines, Drop(e)
       PROVE  Typed'
  <2>1. drops' \in 0 .. MaxDrops
    BY <1>11, PoolAssumption DEF Drop
  <2>. QED
    BY <1>11, <2>1 DEF Drop
<1>12. CASE UNCHANGED vars
  BY <1>12 DEF vars
<1>. QED
  BY <1>1, <1>2, <1>3, <1>4, <1>5, <1>6, <1>7, <1>8, <1>9, <1>10, <1>11, <1>12
     DEF Next, Use, Serve

(* Every variable keeps its type, and a thread points to a connection from   *)
(* PopEngine to PushEngine and at no other time.                           *)
THEOREM PoolTypes == Spec => []TypeOK
<1>1. Spec => []Typed
  BY TypedInit, TypedStep, PTL DEF Spec
<1>2. Typed => TypeOK
  BY DEF Typed
<1>. QED
  BY <1>1, <1>2, PTL

-----------------------------------------------------------------------------
(* Conservation of connections.                                            *)

(* PushEngine only brings back connections that belong to the pool.         *)
PoolsApart == \A k \in Kinds : Pooled(k) \subseteq Range(Created(k))

PoolInv == Typed /\ PoolsApart /\ EnginesConserved

LEMMA PoolInvInit == Init => PoolInv
<1>. SUFFICES ASSUME Init PROVE PoolInv
  OBVIOUS
<1>1. Typed
  BY TypedInit
<1>2. \A k \in Kinds : pool[k] = Created(k)
  BY DEF Init
<1>3. PoolsApart
  BY <1>2 DEF PoolsApart, Pooled
<1>4. ASSUME NEW k \in Kinds
      PROVE  /\ IsInjective(pool[k])
             /\ \A e \in Range(Created(k)) :
                  e \in Pooled(k) <=> \A t \in Threads : engine[t] # e
  <2>1. \A e \in Range(Created(k)) : e \in Pooled(k) /\ e # NoEngine
    BY <1>2, CreatedOnce DEF Pooled
  <2>2. \A t \in Threads : engine[t] = NoEngine
    BY DEF Init
  <2>. QED
    BY <1>2, <2>1, <2>2, CreatedOnce
<1>5. \A t \in Threads : engine[t] = NoEngine /\ ~Holding(t)
  BY DEF Init, Holding
<1>. QED
  BY <1>1, <1>3, <1>4, <1>5 DEF PoolInv, EnginesConserved

(* A step that leaves the pools and the pointers alone, and the job types    *)
(* of the threads that hold a connection, disturbs nothing.                 *)
LEMMA PoolInvFrame ==
  ASSUME PoolInv, Typed',
         pool' = pool, engine' = engine,
         \A t \in Threads : Holding(t)' => kind'[t] = kind[t]
  PROVE  PoolInv'
<1>1. \A t \in Threads : Holding(t)' <=> Holding(t)
  BY DEF PoolInv, Typed, TypeOK
<1>2. PoolsApart'
  BY DEF PoolInv, PoolsApart, Pooled
<1>3. EnginesConserved'
  BY <1>1 DEF PoolInv, EnginesConserved, Pooled
<1>. QED
  BY <1>2, <1>3 DEF PoolInv

(* PopEngine moves the front of a pool to the thread.                        *)
LEMMA PoolInvPop ==
  ASSUME PoolInv, Typed', NEW t \in Threads, PopEngine(t)
  PROVE  PoolInv'
<1>1. CASE pool[kind[t]] = <<>>
  <2>1. pool' = pool /\ engine' = engine /\ kind' = kind
    BY <1>1 DEF PopEngine
  <2>. QED
    BY <2>1, PoolInvFrame
<1>2. CASE pool[kind[t]] # <<>>
  <2>. DEFINE c == kind[t]
              e == Head(pool[c])
  <2>1. /\ c \in Kinds /\ pool \in [Kinds -> Seq(Engines)]
        /\ engine \in [Threads -> Engines \cup {NoEngine}]
        /\ engine[t] = NoEngine
    BY DEF PoolInv, Typed, TypeOK, PopEngine, At, Holding
  <2>2. /\ pool' = [pool EXCEPT ![c] = Tail(@)]
        /\ engine' = [engine EXCEPT ![t] = e]
        /\ kind' = kind
    BY <1>2 DEF PopEngine, Taken
  <2>3. /\ e \in Pooled(c) /\ e \in Engines
        /\ Range(Tail(pool[c])) = Pooled(c) \ {e}
        /\ IsInjective(Tail(pool[c]))
    <3>1. pool[c] \in Seq(Engines) /\ IsInjective(pool[c])
      BY <2>1 DEF PoolInv, EnginesConserved
    <3>. QED
      BY <1>2, <3>1, TailFacts DEF Pooled
  <2>. HIDE DEF e
  <2>4. /\ Range(pool'[c]) = Pooled(c) \ {e}
        /\ \A k \in Kinds : k # c => Range(pool'[k]) = Pooled(k)
        /\ \A k \in Kinds : IsInjective(pool'[k])
    BY <2>1, <2>2, <2>3 DEF Pooled, PoolInv, EnginesConserved
  <2>5. e \in Range(Created(c)) /\ e # NoEngine
    BY <2>1, <2>3, CreatedOnce DEF PoolInv, PoolsApart
  <2>6. \A u \in Threads : engine[u] # e
    BY <2>1, <2>3, <2>5 DEF PoolInv, EnginesConserved
  <2>7. /\ engine'[t] = e
        /\ \A u \in Threads : u # t => engine'[u] = engine[u]
    BY <2>1, <2>2
  <2>8. PoolsApart'
    BY <2>1, <2>4 DEF PoolInv, PoolsApart, Pooled
  <2>. HIDE DEF c
  <2>9. ASSUME NEW k \in Kinds, NEW f \in Range(Created(k))
        PROVE  f \in Range(pool'[k]) <=> \A u \in Threads : engine'[u] # f
    <3>1. f \in Pooled(k) <=> \A u \in Threads : engine[u] # f
      BY DEF PoolInv, EnginesConserved
    <3>2. CASE f = e
      <4>1. k = c
        BY <2>1, <2>5, <3>2, CreatedOnce
      <4>. QED
        BY <2>4, <2>7, <3>2, <4>1
    <3>3. CASE f # e
      <4>1. f \in Range(pool'[k]) <=> f \in Pooled(k)
        BY <2>4, <3>3
      <4>2. f # NoEngine
        BY CreatedOnce
      <4>. QED
        BY <2>1, <2>7, <3>1, <3>3, <4>1, <4>2
    <3>. QED
      BY <3>2, <3>3
  <2>10. ASSUME NEW u \in Threads, NEW v \in Threads,
                engine'[u] # NoEngine, engine'[u] = engine'[v]
         PROVE  u = v
    BY <2>6, <2>7, <2>10, <2>1 DEF PoolInv, EnginesConserved
  <2>11. ASSUME NEW u \in Threads, Holding(u)'
         PROVE  engine'[u] \in Range(Created(kind'[u]))
    <3>1. CASE u = t
      BY <2>2, <2>5, <2>7, <3>1 DEF c
    <3>2. CASE u # t
      <4>1. engine[u] # NoEngine /\ engine'[u] = engine[u]
        BY <2>7, <2>11, <3>2 DEF Typed, TypeOK
      <4>2. Holding(u) /\ kind[u] \in Kinds
        BY <4>1 DEF PoolInv, Typed, TypeOK
      <4>. QED
        BY <2>2, <4>1, <4>2 DEF PoolInv, EnginesConserved
    <3>. QED
      BY <3>1, <3>2
  <2>12. EnginesConserved'
    BY <2>4, <2>9, <2>10, <2>11 DEF EnginesConserved, Pooled
  <2>. QED
    BY <2>8, <2>12 DEF PoolInv
<1>. QED
  BY <1>1, <1>2

(* PushEngine moves the connection of the thread to the back of its pool.    *)
LEMMA PoolInvPush ==
  ASSUME PoolInv, Typed', NEW t \in Threads, PushEngine(t)
  PROVE  PoolInv'
<1>. DEFINE c == kind[t]
            e == engine[t]
<1>1. /\ c \in Kinds /\ pool \in [Kinds -> Seq(Engines)]
      /\ engine \in [Threads -> Engines \cup {NoEngine}]
      /\ Holding(t) /\ e # NoEngine /\ e \in Engines
  BY DEF PoolInv, Typed, TypeOK, PushEngine, At, Holding
<1>2. /\ pool' = [pool EXCEPT ![c] = Append(@, e)]
      /\ engine' = [engine EXCEPT ![t] = NoEngine]
      /\ kind' = kind
  BY DEF PushEngine, GivenBack, Returned
<1>3. e \in Range(Created(c)) /\ e \notin Pooled(c)
  BY <1>1 DEF PoolInv, EnginesConserved
<1>4. /\ Range(Append(pool[c], e)) = Pooled(c) \cup {e}
      /\ IsInjective(Append(pool[c], e))
  <2>1. pool[c] \in Seq(Engines) /\ IsInjective(pool[c])
    BY <1>1 DEF PoolInv, EnginesConserved
  <2>. QED
    BY <1>1, <1>3, <2>1, AppendFacts DEF Pooled
<1>5. /\ Range(pool'[c]) = Pooled(c) \cup {e}
      /\ \A k \in Kinds : k # c => Range(pool'[k]) = Pooled(k)
      /\ \A k \in Kinds : IsInjective(pool'[k])
  BY <1>1, <1>2, <1>4 DEF Pooled, PoolInv, EnginesConserved
<1>6. /\ engine'[t] = NoEngine
      /\ \A u \in Threads : u # t => engine'[u] = engine[u] /\ engine[u] # e
  BY <1>1, <1>2 DEF PoolInv, EnginesConserved
<1>7. PoolsApart'
  BY <1>1, <1>3, <1>5 DEF PoolInv, PoolsApart, Pooled
<1>. HIDE DEF c, e
<1>8. ASSUME NEW k \in Kinds, NEW f \in Range(Created(k))
      PROVE  f \in Range(pool'[k]) <=> \A u \in Threads : engine'[u] # f
  <2>1. f \in Pooled(k) <=> \A u \in Threads : engine[u] # f
    BY DEF PoolInv, EnginesConserved
  <2>2. f # NoEngine
    BY CreatedOnce
  <2>3. CASE f = e
    <3>1. k = c
      BY <1>1, <1>3, <2>3, CreatedOnce
    <3>. QED
      BY <1>5, <1>6, <2>2, <2>3, <3>1
  <2>4. CASE f # e
    <3>1. f \in Range(pool'[k]) <=> f \in Pooled(k)
      BY <1>5, <2>4
    <3>2. engine[t] # f
      BY <2>4 DEF e
    <3>. QED
      BY <1>6, <2>1, <2>2, <3>1, <3>2
  <2>. QED
    BY <2>3, <2>4
<1>9. ASSUME NEW u \in Threads, NEW v \in Threads,
             engine'[u] # NoEngine, engine'[u] = engine'[v]
      PROVE  u = v
  BY <1>1, <1>6, <1>9 DEF PoolInv, EnginesConserved
<1>10. ASSUME NEW u \in Threads, Holding(u)'
       PROVE  engine'[u] \in Range(Created(kind'[u]))
  <2>1. engine'[u] # NoEngine
    BY <1>10 DEF Typed, TypeOK
  <2>2. engine'[u] = engine[u]
    BY <1>6, <2>1
  <2>3. Holding(u) /\ kind[u] \in Kinds
    BY <2>1, <2>2 DEF PoolInv, Typed, TypeOK
  <2>. QED
    BY <1>2, <2>2, <2>3 DEF PoolInv, EnginesConserved
<1>11. EnginesConserved'
  BY <1>5, <1>8, <1>9, <1>10 DEF EnginesConserved, Pooled
<1>. QED
  BY <1>7, <1>11 DEF PoolInv

LEMMA PoolInvStep == PoolInv /\ [Next]_vars => PoolInv'
<1>. SUFFICES ASSUME PoolInv, [Next]_vars PROVE PoolInv'
  OBVIOUS
<1>1. Typed'
  BY TypedStep DEF PoolInv
<1>2. kind \in [Threads -> Kinds]
  BY DEF PoolInv, Typed, TypeOK
<1>3. ASSUME NEW t \in Clients, NEW k \in Kinds, Call(t, k)
      PROVE  PoolInv'
  <2>1. pool' = pool /\ engine' = engine
    BY <1>3 DEF Call
  <2>2. ~Holding(t)'
    <3>1. ~Holding(t) /\ t \in Threads
      BY <1>3 DEF Call, At, Holding, Threads
    <3>. QED
      BY <1>1, <2>1, <3>1 DEF PoolInv, Typed, TypeOK
  <2>3. \A u \in Threads : Holding(u)' => kind'[u] = kind[u]
    BY <1>2, <1>3, <2>2 DEF Call
  <2>. QED
    BY <1>1, <2>1, <2>3, PoolInvFrame
<1>4. ASSUME NEW t \in Clients, NEW k \in Kinds, NEW j \in Jobs,
             AddAsyncMysqlJob(t, j, k)
      PROVE  PoolInv'
  <2>1. pool' = pool /\ engine' = engine /\ kind' = kind
    BY <1>4 DEF AddAsyncMysqlJob
  <2>. QED
    BY <1>1, <2>1, PoolInvFrame
<1>5. ASSUME NEW t \in Threads, Use(t)
      PROVE  PoolInv'
  <2>1. CASE SemWait(t) \/ Reconnect(t) \/ Exec(t)
    <3>1. pool' = pool /\ engine' = engine /\ kind' = kind
      BY <2>1 DEF SemWait, Reconnect, Exec
    <3>. QED
      BY <1>1, <3>1, PoolInvFrame
  <2>2. CASE PopEngine(t)
    BY <1>1, <2>2, PoolInvPop
  <2>3. CASE PushEngine(t)
    BY <1>1, <2>3, PoolInvPush
  <2>. QED
    BY <1>5, <2>1, <2>2, <2>3 DEF Use
<1>6. CASE PopMysqlJob
  <2>1. pool' = pool /\ engine' = engine
    BY <1>6 DEF PopMysqlJob
  <2>2. ~Holding(Worker)'
    <3>1. ~Holding(Worker) /\ Worker \in Threads
      BY <1>6 DEF PopMysqlJob, At, Holding, Threads
    <3>. QED
      BY <1>1, <2>1, <3>1 DEF PoolInv, Typed, TypeOK
  <2>3. \A u \in Threads : Holding(u)' => kind'[u] = kind[u]
    BY <1>2, <1>6, <2>2 DEF PopMysqlJob
  <2>. QED
    BY <1>1, <2>1, <2>3, PoolInvFrame
<1>7. CASE TaskWait \/ Callback
  <2>1. pool' = pool /\ engine' = engine /\ kind' = kind
    BY <1>7 DEF TaskWait, Callback
  <2>. QED
    BY <1>1, <2>1, PoolInvFrame
<1>8. CASE (\E e \in Engines : Drop(e)) \/ UNCHANGED vars
  <2>1. pool' = pool /\ engine' = engine /\ kind' = kind
    BY <1>8 DEF Drop, vars
  <2>. QED
    BY <1>1, <2>1, PoolInvFrame
<1>. QED
  BY <1>3, <1>4, <1>5, <1>6, <1>7, <1>8 DEF Next, Serve

(* No call, job, failure, lost connection or reconnection loses a connection, *)
(* gives it to two threads or brings it back to the other pool.              *)
THEOREM PoolEnginesConserved == Spec => []EnginesConserved
<1>1. Spec => []PoolInv
  BY PoolInvInit, PoolInvStep, PTL DEF Spec
<1>2. PoolInv => EnginesConserved
  BY DEF PoolInv
<1>. QED
  BY <1>1, <1>2, PTL

-----------------------------------------------------------------------------
(* Asynchronous jobs.                                                      *)

(* The jobs the worker has taken, in order.                                 *)
Handled == IF job = NoJob THEN finished ELSE Append(finished, job)

Idle == pc[Worker] \in {"wait", "take"} => job = NoJob

(* What was submitted is what was taken and then what is queued.            *)
JobsAccounted ==
  /\ Len(submitted) = Len(Handled) + Len(taskQueue)
  /\ \A i \in 1 .. Len(Handled) : submitted[i] = Handled[i]
  /\ \A i \in 1 .. Len(taskQueue) : submitted[Len(Handled) + i] = taskQueue[i][1]

JobInv == Typed /\ Idle /\ TasksAreQueued /\ JobsAccounted

LEMMA JobInvInit == Init => JobInv
<1>. SUFFICES ASSUME Init PROVE JobInv
  OBVIOUS
<1>1. Typed
  BY TypedInit
<1>2. /\ pc[Worker] = "wait" /\ job = NoJob /\ taskNum = 0
      /\ taskQueue = <<>> /\ submitted = <<>> /\ finished = <<>>
  BY DEF Init, Threads
<1>3. Len(<<>>) = 0 /\ 1 .. 0 = {}
  OBVIOUS
<1>. QED
  BY <1>1, <1>2, <1>3 DEF JobInv, Idle, TasksAreQueued, JobsAccounted, Handled

LEMMA HandledType ==
  ASSUME Typed
  PROVE  Handled \in Seq(Jobs) /\ Len(Handled) \in Nat
BY DEF Typed, TypeOK, Handled

(* A step that leaves the worker's round and the jobs alone.                *)
LEMMA JobInvFrame ==
  ASSUME JobInv, Typed', taskNum' = taskNum, taskQueue' = taskQueue,
         job' = job, finished' = finished, submitted' = submitted,
         \/ pc'[Worker] = pc[Worker]
         \/ {pc[Worker], pc'[Worker]} \cap {"wait", "take"} = {}
  PROVE  JobInv'
BY DEF JobInv, Idle, TasksAreQueued, JobsAccounted, Handled

(* AddAsyncMysqlJob adds a job to the end of the queue and posts once.       *)
LEMMA JobInvAdd ==
  ASSUME JobInv, Typed', NEW t \in Clients, NEW k \in Kinds, NEW j \in Jobs,
         AddAsyncMysqlJob(t, j, k)
  PROVE  JobInv'
<1>1. /\ taskQueue' = Append(taskQueue, <<j, k>>)
      /\ submitted' = Append(submitted, j)
      /\ taskNum' = taskNum + 1
      /\ pc' = pc /\ Handled' = Handled /\ job' = job
  BY DEF AddAsyncMysqlJob, PostTask, Handled
<1>2. /\ taskQueue \in Seq(Jobs \X Kinds) /\ submitted \in Seq(Jobs)
      /\ Len(taskQueue) \in Nat /\ taskNum \in Nat
  BY DEF JobInv, Typed, TypeOK
<1>3. /\ Len(taskQueue') = Len(taskQueue) + 1
      /\ taskQueue'[Len(taskQueue) + 1] = <<j, k>>
      /\ \A i \in 1 .. Len(taskQueue) : taskQueue'[i] = taskQueue[i]
  BY <1>1, <1>2
<1>4. /\ Len(submitted') = Len(submitted) + 1
      /\ submitted'[Len(submitted) + 1] = j
      /\ \A i \in 1 .. Len(submitted) : submitted'[i] = submitted[i]
  BY <1>1, <1>2
<1>5. Handled \in Seq(Jobs) /\ Len(Handled) \in Nat
  BY HandledType DEF JobInv
<1>6. TasksAreQueued'
  BY <1>1, <1>2, <1>3 DEF JobInv, TasksAreQueued
<1>7. JobsAccounted'
  <2>1. Len(submitted') = Len(Handled) + Len(taskQueue')
    BY <1>2, <1>3, <1>4, <1>5 DEF JobInv, JobsAccounted
  <2>2. \A i \in 1 .. Len(Handled) : submitted'[i] = Handled[i]
    BY <1>2, <1>4, <1>5 DEF JobInv, JobsAccounted
  <2>3. ASSUME NEW i \in 1 .. Len(taskQueue')
        PROVE  submitted'[Len(Handled) + i] = taskQueue'[i][1]
    <3>1. CASE i = Len(taskQueue) + 1
      BY <1>2, <1>3, <1>4, <1>5, <3>1 DEF JobInv, JobsAccounted
    <3>2. CASE i # Len(taskQueue) + 1
      <4>1. i \in 1 .. Len(taskQueue)
        BY <1>2, <1>3, <3>2
      <4>2. /\ Len(submitted) = Len(Handled) + Len(taskQueue)
            /\ submitted[Len(Handled) + i] = taskQueue[i][1]
        BY <4>1 DEF JobInv, JobsAccounted
      <4>3. Len(Handled) + i \in 1 .. Len(submitted)
        BY <1>2, <1>5, <4>1, <4>2
      <4>. QED
        BY <1>3, <1>4, <4>1, <4>2, <4>3
    <3>. QED
      BY <3>1, <3>2
  <2>. QED
    BY <1>1, <2>1, <2>2, <2>3 DEF JobsAccounted
<1>. QED
  BY <1>1, <1>6, <1>7 DEF JobInv, Idle

(* PopMysqlJob takes the front of the queue and finds it occupied.           *)
LEMMA JobInvPop ==
  ASSUME JobInv, Typed', PopMysqlJob
  PROVE  JobInv'
<1>1. /\ taskQueue \in Seq(Jobs \X Kinds) /\ finished \in Seq(Jobs)
      /\ Len(taskQueue) \in Nat /\ Len(finished) \in Nat /\ taskNum \in Nat
      /\ Worker \in Threads /\ pc \in [Threads -> Steps]
  <2>1. Worker \in Threads
    BY DEF Threads
  <2>2. /\ taskQueue \in Seq(Jobs \X Kinds) /\ finished \in Seq(Jobs)
        /\ taskNum \in Nat /\ pc \in [Threads -> Steps]
    BY DEF JobInv, Typed, TypeOK
  <2>. QED
    BY <2>1, <2>2
<1>2. pc[Worker] = "take" /\ job = NoJob /\ Handled = finished
  BY DEF JobInv, PopMysqlJob, At, Idle, Handled
<1>3. taskNum + 1 = Len(taskQueue) /\ taskQueue # <<>>
  BY <1>1, <1>2 DEF JobInv, TasksAreQueued
<1>4. /\ taskQueue' = Tail(taskQueue) /\ job' = Head(taskQueue)[1]
      /\ pc'[Worker] = "want"
      /\ taskNum' = taskNum /\ finished' = finished /\ submitted' = submitted
  BY <1>1, <1>3 DEF PopMysqlJob, NextJob, Goto
<1>5. job' \in Jobs /\ job' # NoJob
  BY <1>1, <1>3, <1>4, PoolAssumption
<1>6. /\ Len(Tail(taskQueue)) = Len(taskQueue) - 1
      /\ Head(taskQueue) = taskQueue[1]
      /\ \A i \in 1 .. Len(taskQueue) - 1 : Tail(taskQueue)[i] = taskQueue[i + 1]
  BY <1>1, <1>3
<1>7. Handled' = Append(finished, job')
  BY <1>4, <1>5 DEF Handled
<1>8. /\ Len(Handled') = Len(finished) + 1
      /\ Handled'[Len(finished) + 1] = job'
      /\ \A i \in 1 .. Len(finished) : Handled'[i] = finished[i]
  BY <1>1, <1>7
<1>9. TasksAreQueued'
  BY <1>1, <1>3, <1>4, <1>6 DEF TasksAreQueued
<1>10. JobsAccounted'
  <2>1. Len(submitted) = Len(finished) + Len(taskQueue)
    BY <1>2 DEF JobInv, JobsAccounted
  <2>2. \A i \in 1 .. Len(finished) : submitted[i] = finished[i]
    BY <1>2 DEF JobInv, JobsAccounted
  <2>3. \A i \in 1 .. Len(taskQueue) : submitted[Len(finished) + i] = taskQueue[i][1]
    BY <1>2 DEF JobInv, JobsAccounted
  <2>4. Len(submitted') = Len(Handled') + Len(taskQueue')
    <3>1. /\ Len(taskQueue') = Len(taskQueue) - 1
          /\ Len(submitted') = Len(submitted)
      BY <1>4, <1>6
    <3>2. Len(taskQueue) \in Nat /\ Len(finished) \in Nat
      BY <1>1
    <3>3. Len(Handled') = Len(finished) + 1
      BY <1>8
    <3>. QED
      BY <2>1, <3>1, <3>2, <3>3
  <2>5. submitted[Len(finished) + 1] = job'
    BY <1>1, <1>3, <1>4, <1>6, <2>3
  <2>6. \A i \in 1 .. Len(Handled') : submitted'[i] = Handled'[i]
    BY <1>1, <1>4, <1>8, <2>2, <2>5
  <2>7. ASSUME NEW i \in 1 .. Len(taskQueue')
        PROVE  submitted'[Len(Handled') + i] = taskQueue'[i][1]
    <3>1. i + 1 \in 1 .. Len(taskQueue) /\ taskQueue'[i] = taskQueue[i + 1]
      BY <1>1, <1>4, <1>6
    <3>2. Len(Handled') + i = Len(finished) + (i + 1)
      BY <1>1, <1>8
    <3>. QED
      BY <1>4, <2>3, <3>1, <3>2
  <2>. QED
    BY <2>4, <2>6, <2>7 DEF JobsAccounted
<1>. QED
  BY <1>4, <1>9, <1>10 DEF JobInv, Idle

(* The end of the worker's round: the job counts as finished.                *)
LEMMA JobInvFinish ==
  ASSUME JobInv, Typed', job \in Jobs,
         pc[Worker] \notin {"wait", "take"}, pc'[Worker] = "wait",
         job' = NoJob, finished' = Append(finished, job),
         taskQueue' = taskQueue, taskNum' = taskNum, submitted' = submitted
  PROVE  JobInv'
<1>1. Handled' = Handled
  BY PoolAssumption DEF Handled
<1>2. JobsAccounted'
  BY <1>1 DEF JobInv, JobsAccounted
<1>3. TasksAreQueued'
  BY DEF JobInv, TasksAreQueued
<1>. QED
  BY <1>2, <1>3 DEF JobInv, Idle

LEMMA JobInvStep == JobInv /\ [Next]_vars => JobInv'
<1>. SUFFICES ASSUME JobInv, [Next]_vars PROVE JobInv'
  OBVIOUS
<1>1. Typed'
  BY TypedStep DEF JobInv
<1>2. /\ Worker \in Threads /\ Worker \notin Clients
      /\ pc \in [Threads -> Steps] /\ taskNum \in Nat
      /\ Clients \subseteq Threads
  BY PoolAssumption DEF JobInv, Typed, TypeOK, Threads
<1>3. ASSUME NEW t \in Clients, NEW k \in Kinds, Call(t, k)
      PROVE  JobInv'
  <2>1. pc'[Worker] = pc[Worker]
    BY <1>2, <1>3 DEF Call, Goto
  <2>. QED
    BY <1>1, <1>3, <2>1, JobInvFrame DEF Call
<1>4. ASSUME NEW t \in Clients, NEW k \in Kinds, NEW j \in Jobs,
             AddAsyncMysqlJob(t, j, k)
      PROVE  JobInv'
  BY <1>1, <1>4, JobInvAdd
<1>5. ASSUME NEW t \in Threads, SemWait(t) \/ Reconnect(t) \/ Exec(t)
      PROVE  JobInv'
  <2>1. \/ pc'[Worker] = pc[Worker]
        \/ {pc[Worker], pc'[Worker]} \cap {"wait", "take"} = {}
    BY <1>2, <1>5 DEF SemWait, Reconnect, Exec, At, Goto
  <2>2. /\ taskNum' = taskNum /\ taskQueue' = taskQueue /\ job' = job
        /\ finished' = finished /\ submitted' = submitted
    BY <1>5 DEF SemWait, Reconnect, Exec
  <2>. QED
    BY <1>1, <2>1, <2>2, JobInvFrame
<1>6. ASSUME NEW t \in Threads, PopEngine(t)
      PROVE  JobInv'
  <2>1. pc[t] = "pop"
    BY <1>6 DEF PopEngine, At
  <2>2. pc' = pc \/ \E step \in {"exec", "reconnect"} : pc' = [pc EXCEPT ![t] = step]
    BY <1>6 DEF PopEngine, Goto
  <2>3. \/ pc'[Worker] = pc[Worker]
        \/ {pc[Worker], pc'[Worker]} \cap {"wait", "take"} = {}
    BY <1>2, <2>1, <2>2
  <2>4. /\ taskNum' = taskNum /\ taskQueue' = taskQueue /\ job' = job
        /\ finished' = finished /\ submitted' = submitted
    BY <1>6 DEF PopEngine
  <2>. QED
    BY <1>1, <2>3, <2>4, JobInvFrame
<1>7. ASSUME NEW t \in Threads, PushEngine(t)
      PROVE  JobInv'
  <2>1. /\ pc[t] = "push"
        /\ taskNum' = taskNum /\ taskQueue' = taskQueue /\ submitted' = submitted
    BY <1>7 DEF PushEngine, At
  <2>2. CASE t # Worker
    <3>1. pc'[Worker] = pc[Worker] /\ job' = job /\ finished' = finished
      BY <1>2, <1>7, <2>2 DEF PushEngine, Goto
    <3>. QED
      BY <1>1, <2>1, <3>1, JobInvFrame
  <2>3. CASE t = Worker
    <3>1. \/ pc'[Worker] = "callback" /\ job' = job /\ finished' = finished
          \/ /\ pc'[Worker] = "wait" /\ job' = NoJob
             /\ finished' = Append(finished, job)
      BY <1>2, <1>7, <2>3 DEF PushEngine, Goto
    <3>2. job \in Jobs
      BY <2>1, <2>3 DEF JobInv, Typed, WorkerHasJob
    <3>3. CASE pc'[Worker] = "callback"
      BY <1>1, <2>1, <2>3, <3>1, <3>3, JobInvFrame
    <3>4. CASE pc'[Worker] = "wait"
      BY <1>1, <2>1, <2>3, <3>1, <3>2, <3>4, JobInvFinish
    <3>. QED
      BY <3>1, <3>3, <3>4
  <2>. QED
    BY <2>2, <2>3
<1>8. CASE TaskWait
  <2>1. /\ pc[Worker] = "wait" /\ pc'[Worker] = "take"
        /\ taskNum > 0 /\ taskNum' = taskNum - 1
        /\ taskQueue' = taskQueue /\ job' = job
        /\ finished' = finished /\ submitted' = submitted
    BY <1>2, <1>8 DEF TaskWait, At, Goto
  <2>2. TasksAreQueued'
    BY <1>2, <2>1 DEF JobInv, TasksAreQueued
  <2>3. JobsAccounted' /\ Idle'
    BY <2>1 DEF JobInv, JobsAccounted, Handled, Idle
  <2>. QED
    BY <1>1, <2>2, <2>3 DEF JobInv
<1>9. CASE PopMysqlJob
  BY <1>1, <1>9, JobInvPop
<1>10. CASE Callback
  <2>1. pc[Worker] = "callback" /\ pc'[Worker] = "wait"
    BY <1>2, <1>10 DEF Callback, At, Goto
  <2>2. job \in Jobs
    BY <2>1 DEF JobInv, Typed, WorkerHasJob
  <2>. QED
    BY <1>1, <1>10, <2>1, <2>2, JobInvFinish DEF Callback
<1>11. CASE (\E e \in Engines : Drop(e)) \/ UNCHANGED vars
  <2>1. /\ taskNum' = taskNum /\ taskQueue' = taskQueue /\ job' = job
        /\ finished' = finished /\ submitted' = submitted /\ pc' = pc
    BY <1>11 DEF Drop, vars
  <2>. QED
    BY <1>1, <2>1, JobInvFrame
<1>. QED
  BY <1>3, <1>4, <1>5, <1>6, <1>7, <1>8, <1>9, <1>10, <1>11 DEF Next, Use, Serve

(* Each post of the task semaphore is for one queued job: when PopMysqlJob   *)
(* comes through sem_wait the queue is not empty, and when the semaphore is  *)
(* 0 no job is left behind.                                                *)
THEOREM PoolTasksAreQueued == Spec => []TasksAreQueued
<1>1. Spec => []JobInv
  BY JobInvInit, JobInvStep, PTL DEF Spec
<1>2. JobInv => TasksAreQueued
  BY DEF JobInv
<1>. QED
  BY <1>1, <1>2, PTL

LEMMA AccountedInOrder == JobInv => JobsInOrder
<1>. SUFFICES ASSUME JobInv PROVE JobsInOrder
  OBVIOUS
<1>1. /\ submitted \in Seq(Jobs) /\ finished \in Seq(Jobs)
      /\ taskQueue \in Seq(Jobs \X Kinds) /\ job \in Jobs \cup {NoJob}
  BY DEF JobInv, Typed, TypeOK
<1>2. ASSUME NEW s \in Seq(Jobs), Len(s) <= Len(submitted),
             \A i \in 1 .. Len(s) : submitted[i] = s[i]
      PROVE  IsPrefix(s, submitted)
  <2>1. SubSeq(s, 1, Len(s)) = SubSeq(submitted, 1, Len(s))
    BY <1>1, <1>2
  <2>. QED
    BY <1>2, <2>1 DEF IsPrefix
<1>3. /\ Handled \in Seq(Jobs) /\ Len(Handled) <= Len(submitted)
      /\ \A i \in 1 .. Len(Handled) : submitted[i] = Handled[i]
  BY <1>1, HandledType DEF JobInv, JobsAccounted
<1>4. IsPrefix(Handled, submitted)
  BY <1>2, <1>3
<1>5. IsPrefix(finished, submitted)
  <2>1. CASE job = NoJob
    BY <1>4, <2>1 DEF Handled
  <2>2. CASE job # NoJob
    <3>1. /\ Len(Handled) = Len(finished) + 1
          /\ \A i \in 1 .. Len(finished) : Handled[i] = finished[i]
      BY <1>1, <2>2 DEF Handled
    <3>2. /\ Len(finished) <= Len(submitted)
          /\ \A i \in 1 .. Len(finished) : submitted[i] = finished[i]
      BY <1>1, <1>3, <3>1
    <3>. QED
      BY <1>1, <1>2, <3>2
  <2>. QED
    BY <2>1, <2>2
<1>. QED
  BY <1>4, <1>5 DEF JobsInOrder, Handled

(* The worker takes the jobs in the order they were pushed, each once and    *)
(* none twice, whatever fails in between.                                  *)
THEOREM PoolJobsInOrder == Spec => []JobsInOrder
<1>1. Spec => []JobInv
  BY JobInvInit, JobInvStep, PTL DEF Spec
<1>. QED
  BY <1>1, AccountedInOrder, PTL
-----------------------------------------------------------------------------
(* Enough connections.  The semaphores start at twice the number of the     *)
(* connections (PushEngine of Initialize posts them again), so that they    *)
(* do not protect the pools.  What protects them is only that there are not *)
(* more threads than connections of each kind.                             *)
ThreadsFit ==
  /\ IsFiniteSet(Threads)
  /\ \A k \in Kinds : Cardinality(Threads) <= Len(Created(k))

(* An empty pool means that each of its connections is with a thread, and   *)
(* a thread that is about to pop has none.                                 *)
LEMMA RoomInPool ==
  ASSUME ThreadsFit, PoolInv, NEW t \in Threads, pc[t] = "pop"
  PROVE  pool[kind[t]] # <<>>
<1>. SUFFICES ASSUME pool[kind[t]] = <<>> PROVE FALSE
  OBVIOUS
<1>. DEFINE k == kind[t]
            made == Created(k)
            n == Len(made)
<1>1. k \in Kinds /\ Typed /\ EnginesConserved
  BY DEF PoolInv, Typed, TypeOK
<1>2. /\ made \in Seq(Engines) /\ IsInjective(made) /\ n \in Nat
      /\ DOMAIN made = 1 .. n /\ \A i \in 1 .. n : made[i] \in Range(made)
  <2>1. made \in Seq(Engines) /\ IsInjective(made)
    BY <1>1, CreatedOnce
  <2>2. n \in Nat /\ DOMAIN made = 1 .. n
    BY <2>1
  <2>. QED
    BY <2>1, <2>2 DEF Range
<1>3. \A e \in Range(made) : e \notin Pooled(k)
  BY DEF Pooled, Range
<1>. HIDE DEF made, n
<1>4. \A i \in 1 .. n : \E u \in Threads : engine[u] = made[i]
  BY <1>1, <1>2, <1>3 DEF EnginesConserved, made
<1>5. engine[t] = NoEngine
  BY <1>1 DEF Typed, TypeOK, Holding
<1>6. \A i \in 1 .. n : made[i] # NoEngine
  <2>1. NoEngine \notin Engines
    BY CreatedOnce
  <2>. QED
    BY <1>2, <2>1
<1>. DEFINE f == [i \in 1 .. n |-> CHOOSE u \in Threads : engine[u] = made[i]]
<1>7. \A i \in 1 .. n : f[i] \in Threads /\ engine[f[i]] = made[i]
  BY <1>4
<1>. HIDE DEF f
<1>8. f \in [1 .. n -> Threads \ {t}]
  <2>1. \A i \in 1 .. n : f[i] \in Threads \ {t}
    BY <1>5, <1>6, <1>7
  <2>. QED
    BY <2>1 DEF f
<1>9. IsFiniteSet(1 .. n) /\ Cardinality(1 .. n) = n
  BY <1>2, FS_Interval
<1>10. IsFiniteSet(Threads \ {t}) /\ Cardinality(Threads \ {t}) < n
  <2>1. Cardinality(Threads) \in Nat /\ Cardinality(Threads) <= n
    BY <1>1, FS_CardinalityType DEF ThreadsFit, n, made
  <2>2. /\ IsFiniteSet(Threads \ {t})
        /\ Cardinality(Threads \ {t}) = Cardinality(Threads) - 1
    BY FS_RemoveElement DEF ThreadsFit
  <2>. QED
    BY <1>2, <2>1, <2>2
<1>11. PICK i, j \in 1 .. n : i # j /\ f[i] = f[j]
  <2>. DEFINE S == 1 .. n
              T == Threads \ {t}
  <2>1. /\ IsFiniteSet(S) /\ IsFiniteSet(T) /\ f \in [S -> T]
        /\ Cardinality(T) < Cardinality(S)
    BY <1>8, <1>9, <1>10
  <2>. HIDE DEF S, T
  <2>2. \E i, j \in S : i # j /\ f[i] = f[j]
    BY ONLY <2>1, FS_PigeonHole
  <2>. QED
    BY <2>2 DEF S
<1>12. made[i] = made[j]
  BY <1>7, <1>11
<1>. QED
  BY <1>2, <1>11, <1>12 DEF IsInjective

(* mysql_engine.h:54-55 says the semaphores count the connections; they do  *)
(* not, but with at least as many connections of each kind as threads who   *)
(* comes through sem_wait finds one.                                       *)
THEOREM PoolCountsEngines == ASSUME ThreadsFit PROVE Spec => []SemCountsEngines
<1>1. Spec => []PoolInv
  BY PoolInvInit, PoolInvStep, PTL DEF Spec
<1>2. PoolInv => SemCountsEngines
  BY RoomInPool DEF SemCountsEngines
<1>. QED
  BY <1>1, <1>2, PTL

(* Then front() and pop_front() are never called on an empty list.          *)
THEOREM PoolNotOverdrawn == ASSUME ThreadsFit PROVE Spec => []~corrupt
<1>1. Spec => []PoolInv
  BY PoolInvInit, PoolInvStep, PTL DEF Spec
<1>2. Init => ~corrupt
  BY DEF Init
<1>3. PoolInv /\ ~corrupt /\ [Next]_vars => ~corrupt'
  <2>. SUFFICES ASSUME PoolInv, ~corrupt, [Next]_vars PROVE ~corrupt'
    OBVIOUS
  <2>1. ASSUME NEW t \in Threads, PopEngine(t) PROVE corrupt' = corrupt
    <3>1. pc[t] = "pop"
      BY <2>1 DEF PopEngine, At
    <3>2. pool[kind[t]] # <<>>
      BY <3>1, RoomInPool
    <3>. QED
      BY <2>1, <3>2 DEF PopEngine
  <2>2. ASSUME NEW t \in Threads, SemWait(t) \/ Reconnect(t) \/ Exec(t) \/ PushEngine(t)
        PROVE  corrupt' = corrupt
    BY <2>2 DEF SemWait, Reconnect, Exec, PushEngine
  <2>3. CASE Serve
    BY <2>3 DEF Serve, TaskWait, PopMysqlJob, Callback
  <2>4. ASSUME NEW t \in Clients, NEW k \in Kinds,
               Call(t, k) \/ \E j \in Jobs : AddAsyncMysqlJob(t, j, k)
        PROVE  corrupt' = corrupt
    BY <2>4 DEF Call, AddAsyncMysqlJob
  <2>5. CASE (\E e \in Engines : Drop(e)) \/ UNCHANGED vars
    BY <2>5 DEF Drop, vars
  <2>. QED
    BY <2>1, <2>2, <2>3, <2>4, <2>5 DEF Next, Use
<1>. QED
  BY <1>1, <1>2, <1>3, PTL DEF Spec
=============================================================================
