-------------------------- MODULE MysqlEnginePool --------------------------
(***************************************************************************)
(* MysqlEngine of pub/storage/mysql_engine.{h,cc}: a pool of database       *)
(* connections ("engines") for reading and one for writing and stored       *)
(* procedures, each with a counting semaphore; a queue of asynchronous jobs *)
(* with a semaphore and a thread of its own; one mutex for all of it.       *)
(*                                                                         *)
(*   client  idle -> want -> pop [-> reconnect] -> exec -> push -> idle      *)
(*   worker  wait -> take -> want -> ... -> push [-> callback] -> wait        *)
(*                                                                         *)
(* A section under the mutex is one step, except that CheckConnect may keep *)
(* the mutex for as long as the database cannot be reached.                 *)
(***************************************************************************)
EXTENDS Integers, Sequences, SequencesExt

CONSTANTS
  Clients,                     \* threads that call ReadData, WriteData, ...
  Worker,                      \* MysqlThread::Run
  ReadEngines, WriteEngines,   \* the connections made by Initialize, in order
  Jobs,                        \* asynchronous jobs
  MaxCalls,                    \* bound: synchronous calls of a client
  MaxDrops,                    \* bound: lost connections
  NoThread, NoEngine, NoJob

ASSUME PoolAssumption ==
  /\ Worker \notin Clients
  /\ NoThread \notin Clients \cup {Worker}
  /\ ReadEngines \in Seq(Range(ReadEngines))
  /\ WriteEngines \in Seq(Range(WriteEngines))
  /\ IsInjective(ReadEngines \o WriteEngines)
  /\ NoEngine \notin Range(ReadEngines \o WriteEngines)
  /\ NoJob \notin Jobs
  /\ MaxCalls \in Nat /\ MaxDrops \in Nat

VARIABLES
  sem,         \* read_engine_num_ and write_engien_num_
  pool,        \* db_read_pool_ and db_write_pool_
  mutex,       \* the thread in CheckConnect's retry loop, or NoThread
  taskNum,     \* the semaphore task_num_
  taskQueue,   \* task_queue_
  pc, kind, engine,   \* of each thread: its step, job type and connection
  job,         \* the job of the worker
  alive,       \* the connections the database has not dropped
  calls,       \* calls made by each client
  drops,       \* connections dropped so far
  submitted,   \* history: jobs in the order they were pushed
  finished,    \* history: jobs in the order the worker finished with them
  corrupt      \* front() and pop_front() of an empty list: the process ends

vars == <<sem, pool, mutex, taskNum, taskQueue, pc, kind, engine, job, alive,
          calls, drops, submitted, finished, corrupt>>

(* MYSQL_STORAGE shares the pool of MYSQL_WRITE.                            *)
Kinds == {"READ", "WRITE"}

Threads == Clients \cup {Worker}

Created(k) == IF k = "READ" THEN ReadEngines ELSE WriteEngines

Engines == Range(ReadEngines) \cup Range(WriteEngines)

Steps == {"idle", "want", "pop", "reconnect", "exec", "push",
          "wait", "take", "callback"}

(* The semaphores start at the number of connections, and PushEngine posts  *)
(* one more for each connection that is created.                           *)
InitialSem(k) == Len(Created(k)) + Len(Created(k))

Init ==
  /\ sem = [k \in Kinds |-> InitialSem(k)]
  /\ pool = [k \in Kinds |-> Created(k)]
  /\ mutex = NoThread
  /\ taskNum = 0
  /\ taskQueue = <<>>
  /\ pc = [t \in Threads |-> IF t = Worker THEN "wait" ELSE "idle"]
  /\ kind = [t \in Threads |-> "READ"]
  /\ engine = [t \in Threads |-> NoEngine]
  /\ job = NoJob
  /\ alive = Engines
  /\ calls = [t \in Clients |-> 0]
  /\ drops = 0
  /\ submitted = <<>>
  /\ finished = <<>>
  /\ corrupt = FALSE

At(t, step) == ~corrupt /\ pc[t] = step

Goto(t, step) == pc' = [pc EXCEPT ![t] = step]

MutexFree == mutex = NoThread

(* The database drops a connection.                                         *)
Drop(e) ==
  /\ ~corrupt /\ e \in alive
  /\ drops < MaxDrops
  /\ drops' = drops + 1
  /\ alive' = alive \ {e}
  /\ UNCHANGED <<sem, pool, mutex, taskNum, taskQueue, pc, kind, engine, job,
                 calls, submitted, finished, corrupt>>

-----------------------------------------------------------------------------
(* ReadData, ReadDataRows, ExcuteStorage, WriteData.                        *)
Call(t, k) ==
  /\ At(t, "idle")
  /\ calls[t] < MaxCalls
  /\ calls' = [calls EXCEPT ![t] = @ + 1]
  /\ kind' = [kind EXCEPT ![t] = k]
  /\ Goto(t, "want")
  /\ UNCHANGED <<sem, pool, mutex, taskNum, taskQueue, engine, job, alive, drops,
                 submitted, finished, corrupt>>

(* PopEngine: sem_wait.                                                     *)
SemWait(t) ==
  /\ At(t, "want")
  /\ sem[kind[t]] > 0
  /\ sem' = [sem EXCEPT ![kind[t]] = @ - 1]
  /\ Goto(t, "pop")
  /\ UNCHANGED <<pool, mutex, taskNum, taskQueue, kind, engine, job, alive, calls,
                 drops, submitted, finished, corrupt>>

(* Variant: the connection is used but stays in the pool.                   *)
Shared(k) == pool' = pool

Taken(k) == pool' = [pool EXCEPT ![k] = Tail(@)]

(* PopEngine, under the mutex.                                              *)
PopEngine(t) ==
  /\ At(t, "pop") /\ MutexFree
  /\ IF pool[kind[t]] = <<>>
     THEN /\ corrupt' = TRUE
          /\ UNCHANGED <<pool, engine, pc, mutex>>
     ELSE LET e == Head(pool[kind[t]]) IN
          /\ Taken(kind[t])
          /\ engine' = [engine EXCEPT ![t] = e]
          /\ IF e \in alive
             THEN Goto(t, "exec") /\ mutex' = NoThread
             ELSE Goto(t, "reconnect") /\ mutex' = t
          /\ UNCHANGED corrupt
  /\ UNCHANGED <<sem, taskNum, taskQueue, kind, job, alive, calls, drops, submitted,
                 finished>>

(* CheckConnect: the attempt that succeeds.  The ones that fail change      *)
(* nothing: it sleeps, with the mutex, and tries again.                     *)
Reconnect(t) ==
  /\ At(t, "reconnect")
  /\ alive' = alive \cup {engine[t]}
  /\ mutex' = NoThread
  /\ Goto(t, "exec")
  /\ UNCHANGED <<sem, pool, taskNum, taskQueue, kind, engine, job, calls, drops,
                 submitted, finished, corrupt>>

(* SQLExec, done or failed, and the rows: outside the mutex.  A failure     *)
(* only shows in the result.                                               *)
Exec(t) ==
  /\ At(t, "exec")
  /\ Goto(t, "push")
  /\ UNCHANGED <<sem, pool, mutex, taskNum, taskQueue, kind, engine, job, alive, calls,
                 drops, submitted, finished, corrupt>>

(* Variant: the semaphore is not posted.                                    *)
GivenBackSilently(k, e) == pool' = [pool EXCEPT ![k] = Append(@, e)] /\ sem' = sem

(* Variant: MYSQL_STORAGE falls through to the read pool.                   *)
GivenBackToRead(k, e) ==
  /\ pool' = [pool EXCEPT !["READ"] = Append(@, e)]
  /\ sem' = [sem EXCEPT !["READ"] = @ + 1]

GivenBack(k, e) ==
  /\ pool' = [pool EXCEPT ![k] = Append(@, e)]
  /\ sem' = [sem EXCEPT ![k] = @ + 1]

(* Variant: the thread keeps its pointer.                                   *)
Kept(t) == engine' = engine

Returned(t) == engine' = [engine EXCEPT ![t] = NoEngine]

(* PushEngine, under the mutex.  The worker calls back only if the SQL was  *)
(* executed.                                                               *)
PushEngine(t) ==
  /\ At(t, "push") /\ MutexFree
  /\ GivenBack(kind[t], engine[t])
  /\ Returned(t)
  /\ IF t = Worker
     THEN \/ Goto(t, "callback") /\ UNCHANGED <<job, finished>>
          \/ /\ Goto(t, "wait")
             /\ job' = NoJob
             /\ finished' = Append(finished, job)
     ELSE Goto(t, "idle") /\ UNCHANGED <<job, finished>>
  /\ UNCHANGED <<mutex, taskNum, taskQueue, kind, alive, calls, drops, submitted,
                 corrupt>>

-----------------------------------------------------------------------------
(* Variant: the worker is not told.                                         *)
PostNothing == taskNum' = taskNum

PostTask == taskNum' = taskNum + 1

(* AddAsyncMysqlJob: PushMysqlJob, under the mutex.                         *)
AddAsyncMysqlJob(t, j, k) ==
  /\ At(t, "idle") /\ MutexFree
  /\ \A i \in DOMAIN submitted : submitted[i] # j
  /\ taskQueue' = Append(taskQueue, <<j, k>>)
  /\ PostTask
  /\ submitted' = Append(submitted, j)
  /\ UNCHANGED <<sem, pool, mutex, pc, kind, engine, job, alive, calls, drops,
                 finished, corrupt>>

(* PopMysqlJob: sem_wait.                                                   *)
TaskWait ==
  /\ At(Worker, "wait")
  /\ taskNum > 0
  /\ taskNum' = taskNum - 1
  /\ Goto(Worker, "take")
  /\ UNCHANGED <<sem, pool, mutex, taskQueue, kind, engine, job, alive, calls, drops,
                 submitted, finished, corrupt>>

(* Variant: the job stays at the front of the queue.                        *)
PeekedJob == <<Head(taskQueue), taskQueue>>

(* Variant: the newest job first.                                           *)
NewestJob == <<Last(taskQueue), Front(taskQueue)>>

NextJob == <<Head(taskQueue), Tail(taskQueue)>>

(* PopMysqlJob, under the mutex; an empty queue sends Run back to its wait. *)
PopMysqlJob ==
  /\ At(Worker, "take") /\ MutexFree
  /\ IF taskQueue = <<>>
     THEN Goto(Worker, "wait") /\ UNCHANGED <<taskQueue, job, kind>>
     ELSE /\ taskQueue' = NextJob[2]
          /\ job' = NextJob[1][1]
          /\ kind' = [kind EXCEPT ![Worker] = NextJob[1][2]]
          /\ Goto(Worker, "want")
  /\ UNCHANGED <<sem, pool, mutex, taskNum, engine, alive, calls, drops, submitted,
                 finished, corrupt>>

Callback ==
  /\ At(Worker, "callback")
  /\ finished' = Append(finished, job)
  /\ job' = NoJob
  /\ Goto(Worker, "wait")
  /\ UNCHANGED <<sem, pool, mutex, taskNum, taskQueue, kind, engine, alive, calls,
                 drops, submitted, corrupt>>

-----------------------------------------------------------------------------
Use(t) == SemWait(t) \/ PopEngine(t) \/ Reconnect(t) \/ Exec(t) \/ PushEngine(t)

Serve == TaskWait \/ PopMysqlJob \/ Callback

Next ==
  \/ \E t \in Clients, k \in Kinds :
       Call(t, k) \/ \E j \in Jobs : AddAsyncMysqlJob(t, j, k)
  \/ \E t \in Threads : Use(t)
  \/ Serve
  \/ \E e \in Engines : Drop(e)

Spec == Init /\ [][Next]_vars

(* Threads are scheduled, semaphores and the mutex wake their waiters, and  *)
(* the database can be reached again some time.  Clients need not call.     *)
Fairness == (\A t \in Threads : WF_vars(Use(t))) /\ WF_vars(Serve)

FairSpec == Spec /\ Fairness

-----------------------------------------------------------------------------
Holding(t) == pc[t] \in {"reconnect", "exec", "push"}

TypeOK ==
  /\ sem \in [Kinds -> Nat]
  /\ pool \in [Kinds -> Seq(Engines)]
  /\ mutex \in Threads \cup {NoThread}
  /\ taskNum \in Nat
  /\ taskQueue \in Seq(Jobs \X Kinds)
  /\ pc \in [Threads -> Steps]
  /\ kind \in [Threads -> Kinds]
  /\ engine \in [Threads -> Engines \cup {NoEngine}]
  /\ job \in Jobs \cup {NoJob}
  /\ alive \subseteq Engines
  /\ calls \in [Clients -> 0 .. MaxCalls]
  /\ drops \in 0 .. MaxDrops
  /\ submitted \in Seq(Jobs) /\ finished \in Seq(Jobs)
  /\ corrupt \in BOOLEAN
  /\ \A t \in Threads : Holding(t) <=> engine[t] # NoEngine

Pooled(k) == Range(pool[k])

(* PopEngine and PushEngine neither lose nor share a connection: each one   *)
(* is in the pool it was made for, once, or held by one thread that uses it *)
(* for jobs of that kind -- whoever fails, reconnects or waits meanwhile.   *)
EnginesConserved ==
  \A k \in Kinds :
    /\ IsInjective(pool[k])
    /\ \A e \in Range(Created(k)) :
         e \in Pooled(k) <=> \A t \in Threads : engine[t] # e
    /\ \A t, u \in Threads : engine[t] # NoEngine /\ engine[t] = engine[u] => t = u
    /\ \A t \in Threads : Holding(t) /\ kind[t] = k => engine[t] \in Range(Created(k))

(* mysql_engine.h:54-55 call the semaphores the numbers of read and write   *)
(* connections: a thread that has come through sem_wait would find one.     *)
SemCountsEngines ==
  \A t \in Threads : pc[t] = "pop" => pool[kind[t]] # <<>>

(* The task semaphore and the queue agree: the worker never wakes for       *)
(* nothing, and no job stays behind.                                       *)
TasksAreQueued ==
  taskNum + (IF pc[Worker] = "take" THEN 1 ELSE 0) = Len(taskQueue)

(* Jobs are worked off in the order they were pushed, each once.            *)
JobsInOrder ==
  /\ IsPrefix(finished, submitted)
  /\ job # NoJob => IsPrefix(Append(finished, job), submitted)

(* Every call returns and every job is worked off, unless the process ended *)
(* in an empty pool.                                                       *)
CallsReturn ==
  \A t \in Clients : (pc[t] = "want") ~> (pc[t] = "idle" \/ corrupt)

JobsFinish ==
  \A j \in Jobs :
    (\E i \in DOMAIN submitted : submitted[i] = j)
      ~> ((\E i \in DOMAIN finished : finished[i] = j) \/ corrupt)
=============================================================================
