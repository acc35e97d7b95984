----------------------------- MODULE ThreadPool -----------------------------
(***************************************************************************)
(* The thread pool of zbaselib_thread.c on POSIX threads.                  *)
(*                                                                         *)
(* One thread (Main) runs zbaselib_threadpool_create, which starts the     *)
(* workers one by one, waits until each has reported itself ready, frees   *)
(* the argument block the workers read and returns the pool.  From then on *)
(* Clients call addtask and status, running jobs may call addtask on their *)
(* own pool, and Destroyers call destroy, with finish = 1 (drain first) or *)
(* another value (drop what is queued).                                    *)
(*                                                                         *)
(* A critical section is an Acquire step, which takes the mutex, and the   *)
(* step of the section's body, which gives it back (cond_wait gives it     *)
(* back too).  The two condition variables are the sets of the threads     *)
(* asleep in them; a signal wakes one sleeper, a broadcast all of them,    *)
(* and a sleeper may wake with no signal (Spurious).                       *)
(*                                                                         *)
(* A step of a thread that would read or write the pool after its memory   *)
(* was given back sets uaf and ends that thread: what the program does     *)
(* from there on is undefined.                                             *)
(***************************************************************************)
EXTENDS Integers, Sequences, FiniteSets

CONSTANTS
    Size,           \* the argument of zbaselib_threadpool_create
    MaxThreads,     \* ZBASELIB_THREADPOOL_MAX
    Clients,        \* threads outside the pool that call addtask and status
    Destroyers,     \* threads that call zbaselib_threadpool_destroy
    Tasks,          \* the tasks there are; each is offered to addtask once
    Main,           \* the thread that calls zbaselib_threadpool_create
    NoThread, NoTask,
    CreateMayFail,  \* may creating a lock, a list or a thread fail?
    Racing,         \* may calls overlap destroy, or come after it?
    MaxStatus,      \* bound: calls of zbaselib_threadpool_status
    MaxSpurious     \* bound: wake-ups without a signal

PoolSize == IF Size < MaxThreads THEN Size ELSE MaxThreads
Workers  == 0 .. PoolSize - 1
Callers  == Clients \cup Workers
Threads  == Callers \cup Destroyers \cup {Main}

ASSUME SizesAssumption ==
    /\ Size \in Nat /\ MaxThreads \in Nat
    /\ MaxStatus \in Nat /\ MaxSpurious \in Nat
    /\ CreateMayFail \in BOOLEAN /\ Racing \in BOOLEAN

ASSUME ThreadsAssumption ==
    /\ Clients \cap Destroyers = {}
    /\ (Clients \cup Destroyers) \cap Workers = {}
    /\ Main \notin Callers \cup Destroyers
    /\ NoThread \notin Threads
    /\ NoTask \notin Tasks
    /\ IsFiniteSet(Clients) /\ IsFiniteSet(Destroyers) /\ IsFiniteSet(Tasks)

VARIABLES
    pc,              \* where each thread is
    mutex,           \* the thread that holds pool->mutex
    pool,            \* the pool's memory: "none", "alive" or "freed"
    tp_channel,      \* the workers' argument block: "none", "live" or "freed"
    tid,             \* how many threads create has started
    uaf,             \* history: has a thread touched freed memory?
    stop,            \* pool->stop
    task_queue,      \* pool->task_queue
    task_empty,      \* workers asleep in pool->task_empty
    task_not_empty,  \* destroyers asleep in pool->task_not_empty
    th_status,       \* pool->th_status: 1 busy, 0 idle, -1 not ready
    task,            \* the task a worker runs
    started,         \* history: tasks handed to a worker, in order
    finished,        \* history: tasks whose job has returned
    arg,             \* the task a caller passes to addtask
    idle_num,        \* what a status call has counted
    offered,         \* tasks that addtask was called with
    accepted,        \* history: tasks addtask took, in order
    finish,          \* the finish argument of each destroyer
    joined,          \* how many workers a destroyer has joined
    lateFrom,        \* history: Len(started) when stop was set
    statusLeft,      \* what is left of MaxStatus
    spuriousLeft     \* what is left of MaxSpurious

memVars   == <<pool, tp_channel, tid, uaf>>
queueVars == <<stop, task_queue>>
condVars  == <<task_empty, task_not_empty>>
workVars  == <<th_status, task, started, finished>>
callVars  == <<arg, idle_num, offered, accepted>>
endVars   == <<finish, joined, lateFrom>>
budget    == <<statusLeft, spuriousLeft>>
vars == <<pc, mutex, memVars, queueVars, condVars, workVars, callVars,
          endVars, budget>>

-----------------------------------------------------------------------------
(* Where a thread can be.  One that waits for the mutex at a point of      *)
(* Entering holds it at the point Entered gives.                           *)

Entering == {"lock", "woken", "finish", "add", "status", "destroy",
             "drainWoken"}
Inside   == {"locked", "relocked", "finishing", "adding", "counting",
             "counted", "destroying", "draining", "stopping"}
Outside  == {"none", "alloc", "spawn", "returned", "failed", "start", "ready",
             "idle", "waiting", "job", "exited", "drainWaiting", "join",
             "done", "crashed"}

Entered(p) ==
    CASE p = "lock"       -> "locked"
      [] p = "woken"      -> "relocked"
      [] p = "finish"     -> "finishing"
      [] p = "add"        -> "adding"
      [] p = "status"     -> "counting"
      [] p = "destroy"    -> "destroying"
      [] p = "drainWoken" -> "draining"

(* The points at which a thread's next step uses the pool's memory.        *)
Touching == Entering \cup Inside \cup {"ready", "join"}

(* The sets of threads that pthread_cond_signal may wake.                  *)
OneOf(sleepers) == IF sleepers = {} THEN {{}} ELSE {{t} : t \in sleepers}

-----------------------------------------------------------------------------
(* The mutex, the condition variables and the memory *)

Acquire(t) ==
    /\ pc[t] \in Entering
    /\ pool = "alive"
    /\ mutex = NoThread
    /\ mutex' = t
    /\ pc' = [pc EXCEPT ![t] = Entered(pc[t])]
    /\ UNCHANGED <<memVars, queueVars, condVars, workVars, callVars, endVars,
                   budget>>

(* A sleeper returns from pthread_cond_wait though nobody signalled.       *)
SpuriousWorker(w) ==
    /\ spuriousLeft > 0
    /\ w \in task_empty
    /\ task_empty' = task_empty \ {w}
    /\ pc' = [pc EXCEPT ![w] = "woken"]
    /\ spuriousLeft' = spuriousLeft - 1
    /\ UNCHANGED <<mutex, memVars, queueVars, task_not_empty, workVars,
                   callVars, endVars, statusLeft>>

SpuriousDestroyer(d) ==
    /\ spuriousLeft > 0
    /\ d \in task_not_empty
    /\ task_not_empty' = task_not_empty \ {d}
    /\ pc' = [pc EXCEPT ![d] = "drainWoken"]
    /\ spuriousLeft' = spuriousLeft - 1
    /\ UNCHANGED <<mutex, memVars, queueVars, task_empty, workVars, callVars,
                   endVars, statusLeft>>

TouchFreed(t) ==
    /\ \/ pool = "freed" /\ pc[t] \in Touching
       \/ tp_channel = "freed" /\ pc[t] = "start"
    /\ uaf' = TRUE
    /\ pc' = [pc EXCEPT ![t] = "crashed"]
    /\ mutex' = IF mutex = t THEN NoThread ELSE mutex
    /\ UNCHANGED <<pool, tp_channel, tid, queueVars, condVars, workVars,
                   callVars, endVars, budget>>

-----------------------------------------------------------------------------
(* zbaselib_threadpool_create *)

CreateAlloc ==
    /\ pc[Main] = "alloc"
    /\ pool' = "alive"
    /\ tp_channel' = "live"
    /\ pc' = [pc EXCEPT ![Main] = "spawn"]
    /\ UNCHANGED <<mutex, tid, uaf, queueVars, condVars, workVars, callVars,
                   endVars, budget>>

(* The end of the loop that starts the workers.                            *)
MoreThreads == tid < PoolSize

(* What the scan of th_status waits for.                                   *)
LastOnly_AllReady == PoolSize = 0 \/ th_status[PoolSize - 1] # -1
AllReady == \A w \in Workers : th_status[w] # -1

(* One turn of the loop that starts the workers: the entry is marked not   *)
(* ready before its thread exists.                                         *)
CreateThread ==
    /\ pc[Main] = "spawn"
    /\ MoreThreads
    /\ th_status' = [th_status EXCEPT ![tid] = -1]
    /\ pc' = [pc EXCEPT ![tid] = "start"]
    /\ tid' = tid + 1
    /\ UNCHANGED <<mutex, pool, tp_channel, uaf, queueVars, condVars, task,
                   started, finished, callVars, endVars, budget>>

(* ERROR_EXIT, from a failed lock, list or thread: the pool is freed, the  *)
(* threads already started are neither stopped nor joined, and tp_channel  *)
(* is left allocated.                                                      *)
CreateFails ==
    /\ CreateMayFail
    /\ \/ pc[Main] = "alloc"
       \/ pc[Main] = "spawn" /\ MoreThreads
    /\ pool' = "freed"
    /\ pc' = [pc EXCEPT ![Main] = "failed"]
    /\ UNCHANGED <<mutex, tp_channel, tid, uaf, queueVars, condVars, workVars,
                   callVars, endVars, budget>>

(* The scan of th_status that finds every worker ready.  One that finds a  *)
(* -1 sleeps a second and changes nothing.                                 *)
CreateReturns ==
    /\ pc[Main] = "spawn"
    /\ ~MoreThreads
    /\ AllReady
    /\ tp_channel' = "freed"
    /\ pc' = [pc EXCEPT ![Main] = "returned"]
    /\ UNCHANGED <<mutex, pool, tid, uaf, queueVars, condVars, workVars,
                   callVars, endVars, budget>>

-----------------------------------------------------------------------------
(* zbaselib_threadpool_func: a worker *)

(* Copies the argument block, which has to be there still.                 *)
WorkerStart(w) ==
    /\ pc[w] = "start"
    /\ tp_channel = "live"
    /\ pc' = [pc EXCEPT ![w] = "ready"]
    /\ UNCHANGED <<mutex, memVars, queueVars, condVars, workVars, callVars,
                   endVars, budget>>

(* Reports itself ready, without the mutex.                                *)
WorkerReady(w) ==
    /\ pc[w] = "ready"
    /\ pool = "alive"
    /\ th_status' = [th_status EXCEPT ![w] = 0]
    /\ pc' = [pc EXCEPT ![w] = "lock"]
    /\ UNCHANGED <<mutex, memVars, queueVars, condVars, task, started,
                   finished, callVars, endVars, budget>>

(* The first thing a round looks at: a stopped pool ends the worker.       *)
DrainsOn_RoundOver == stop /\ task_queue = <<>>
RoundOver == stop

WorkerStop(w) ==
    /\ pc[w] = "locked"
    /\ pool = "alive"
    /\ RoundOver
    /\ mutex' = NoThread
    /\ pc' = [pc EXCEPT ![w] = "exited"]
    /\ UNCHANGED <<memVars, queueVars, condVars, workVars, callVars, endVars,
                   budget>>

(* The loop around cond_wait: nothing to do, and no stop.                  *)
WorkerSleep(w) ==
    /\ pc[w] \in {"locked", "relocked"}
    /\ pool = "alive"
    /\ ~stop
    /\ task_queue = <<>>
    /\ mutex' = NoThread
    /\ task_empty' = task_empty \cup {w}
    /\ pc' = [pc EXCEPT ![w] = "waiting"]
    /\ UNCHANGED <<memVars, queueVars, task_not_empty, workVars, callVars,
                   endVars, budget>>

(* The queue after zbaselib_list_delhead, and who is signalled then: one   *)
(* destroyer, when the queue has become empty.                             *)
NotRemoved_Rest == task_queue
Rest == Tail(task_queue)

Nobody_DrainWakes == {{}}
DrainWakes == IF Rest = <<>> THEN OneOf(task_not_empty) ELSE {{}}

(* Takes the head of the queue.  A worker that comes out of cond_wait does *)
(* not look at stop again, so it takes a task of a stopped pool too.       *)
WorkerTake(w) ==
    /\ \/ pc[w] = "locked" /\ ~RoundOver
       \/ pc[w] = "relocked"
    /\ pool = "alive"
    /\ task_queue # <<>>
    /\ mutex' = NoThread
    /\ task' = [task EXCEPT ![w] = Head(task_queue)]
    /\ task_queue' = Rest
    /\ started' = Append(started, Head(task_queue))
    /\ th_status' = [th_status EXCEPT ![w] = 1]
    /\ \E woken \in DrainWakes :
          /\ task_not_empty' = task_not_empty \ woken
          /\ pc' = [t \in Threads |-> IF t = w THEN "job"
                                      ELSE IF t \in woken THEN "drainWoken"
                                      ELSE pc[t]]
    /\ UNCHANGED <<memVars, stop, task_empty, finished, callVars, endVars,
                   budget>>

(* Woken by the broadcast of destroy with nothing queued: another round.   *)
WorkerPass(w) ==
    /\ pc[w] = "relocked"
    /\ pool = "alive"
    /\ stop
    /\ task_queue = <<>>
    /\ mutex' = NoThread
    /\ pc' = [pc EXCEPT ![w] = "lock"]
    /\ UNCHANGED <<memVars, queueVars, condVars, workVars, callVars, endVars,
                   budget>>

JobReturns(w) ==
    /\ pc[w] = "job"
    /\ finished' = finished \cup {task[w]}
    /\ task' = [task EXCEPT ![w] = NoTask]
    /\ pc' = [pc EXCEPT ![w] = "finish"]
    /\ UNCHANGED <<mutex, memVars, queueVars, condVars, th_status, started,
                   callVars, endVars, budget>>

WorkerIdle(w) ==
    /\ pc[w] = "finishing"
    /\ pool = "alive"
    /\ th_status' = [th_status EXCEPT ![w] = 0]
    /\ mutex' = NoThread
    /\ pc' = [pc EXCEPT ![w] = "lock"]
    /\ UNCHANGED <<memVars, queueVars, condVars, task, started, finished,
                   callVars, endVars, budget>>

-----------------------------------------------------------------------------
(* zbaselib_threadpool_addtask and zbaselib_threadpool_status *)

(* The pool is handed to its users when create returns.  Unless Racing,    *)
(* they no longer start calls of their own once destroy was called.        *)
MayCall ==
    /\ pc[Main] = "returned"
    /\ Racing \/ \A d \in Destroyers : pc[d] = "idle"

(* A client, or a running job, calls addtask.                              *)
AddCall(t, k) ==
    /\ \/ t \in Clients /\ pc[t] = "idle" /\ MayCall
       \/ t \in Workers /\ pc[t] = "job"
    /\ k \notin offered
    /\ offered' = offered \cup {k}
    /\ arg' = [arg EXCEPT ![t] = k]
    /\ pc' = [pc EXCEPT ![t] = "add"]
    /\ UNCHANGED <<mutex, memVars, queueVars, condVars, workVars, idle_num,
                   accepted, endVars, budget>>

Resume(t) == IF t \in Workers THEN "job" ELSE "idle"

KeepsLock_AddRefused(t) ==
    /\ pc[t] = "adding"
    /\ pool = "alive"
    /\ stop
    /\ arg' = [arg EXCEPT ![t] = NoTask]
    /\ pc' = [pc EXCEPT ![t] = Resume(t)]
    /\ UNCHANGED <<mutex, memVars, queueVars, condVars, workVars, idle_num,
                   offered, accepted, endVars, budget>>

AddRefused(t) ==
    /\ pc[t] = "adding"
    /\ pool = "alive"
    /\ stop
    /\ mutex' = NoThread
    /\ arg' = [arg EXCEPT ![t] = NoTask]
    /\ pc' = [pc EXCEPT ![t] = Resume(t)]
    /\ UNCHANGED <<memVars, queueVars, condVars, workVars, idle_num, offered,
                   accepted, endVars, budget>>

(* Whom addtask signals: one worker, whatever was in the queue.            *)
WhenEmpty_AddWakes == IF task_queue = <<>> THEN OneOf(task_empty) ELSE {{}}
Nobody_AddWakes == {{}}
AddWakes == OneOf(task_empty)

(* Appends the task and wakes one worker.                                  *)
AddTask(t) ==
    /\ pc[t] = "adding"
    /\ pool = "alive"
    /\ ~stop
    /\ mutex' = NoThread
    /\ task_queue' = Append(task_queue, arg[t])
    /\ accepted' = Append(accepted, arg[t])
    /\ arg' = [arg EXCEPT ![t] = NoTask]
    /\ \E woken \in AddWakes :
          /\ task_empty' = task_empty \ woken
          /\ pc' = [u \in Threads |-> IF u = t THEN Resume(t)
                                      ELSE IF u \in woken THEN "woken"
                                      ELSE pc[u]]
    /\ UNCHANGED <<memVars, stop, task_not_empty, workVars, idle_num, offered,
                   endVars, budget>>

StatusCall(c) ==
    /\ pc[c] = "idle"
    /\ MayCall
    /\ statusLeft > 0
    /\ statusLeft' = statusLeft - 1
    /\ pc' = [pc EXCEPT ![c] = "status"]
    /\ UNCHANGED <<mutex, memVars, queueVars, condVars, workVars, callVars,
                   endVars, spuriousLeft>>

Started_IdleWorkers == {w \in Workers : th_status[w] >= 0}
IdleWorkers == {w \in Workers : th_status[w] = 0}

StatusCount(c) ==
    /\ pc[c] = "counting"
    /\ pool = "alive"
    /\ idle_num' = [idle_num EXCEPT ![c] = Cardinality(IdleWorkers)]
    /\ pc' = [pc EXCEPT ![c] = "counted"]
    /\ UNCHANGED <<mutex, memVars, queueVars, condVars, workVars, arg,
                   offered, accepted, endVars, budget>>

StatusReturns(c) ==
    /\ pc[c] = "counted"
    /\ pool = "alive"
    /\ mutex' = NoThread
    /\ idle_num' = [idle_num EXCEPT ![c] = 0]
    /\ pc' = [pc EXCEPT ![c] = "idle"]
    /\ UNCHANGED <<memVars, queueVars, condVars, workVars, arg, offered,
                   accepted, endVars, budget>>

-----------------------------------------------------------------------------
(* zbaselib_threadpool_destroy *)

(* Unless Racing, the owner calls destroy when no other call is under way  *)
(* outside the pool's own jobs, and calls it once.                         *)
DestroyCall(d) ==
    /\ pc[d] = "idle"
    /\ MayCall
    /\ Racing \/ \A c \in Clients : pc[c] = "idle"
    /\ \E f \in BOOLEAN : finish' = [finish EXCEPT ![d] = f]
    /\ pc' = [pc EXCEPT ![d] = "destroy"]
    /\ UNCHANGED <<mutex, memVars, queueVars, condVars, workVars, callVars,
                   joined, lateFrom, budget>>

DestroyAgain(d) ==
    /\ pc[d] = "destroying"
    /\ pool = "alive"
    /\ stop
    /\ mutex' = NoThread
    /\ pc' = [pc EXCEPT ![d] = "done"]
    /\ UNCHANGED <<memVars, queueVars, condVars, workVars, callVars, endVars,
                   budget>>

(* The point after the stop check: on the way in, or back from cond_wait,  *)
(* which looks at the queue only.                                          *)
NoCheck_Draining(d) == pc[d] \in {"destroying", "draining"}
Draining(d) == \/ pc[d] = "destroying" /\ ~stop
               \/ pc[d] = "draining"

(* The loop around cond_wait in destroy, entered if finish is 1.           *)
IfNotWhile_MustWait(d) ==
    finish[d] /\ task_queue # <<>> /\ pc[d] = "destroying"
MustWait(d) == finish[d] /\ task_queue # <<>>

DestroySleep(d) ==
    /\ Draining(d)
    /\ pool = "alive"
    /\ MustWait(d)
    /\ mutex' = NoThread
    /\ task_not_empty' = task_not_empty \cup {d}
    /\ pc' = [pc EXCEPT ![d] = "drainWaiting"]
    /\ UNCHANGED <<memVars, queueVars, task_empty, workVars, callVars,
                   endVars, budget>>

(* Sets stop, wakes every worker, and sleeps with the mutex held.          *)
DestroyStop(d) ==
    /\ Draining(d)
    /\ pool = "alive"
    /\ ~MustWait(d)
    /\ stop' = TRUE
    /\ lateFrom' = IF stop THEN lateFrom ELSE Len(started)
    /\ task_empty' = {}
    /\ pc' = [t \in Threads |-> IF t = d THEN "stopping"
                                ELSE IF t \in task_empty THEN "woken"
                                ELSE pc[t]]
    /\ UNCHANGED <<mutex, memVars, task_queue, task_not_empty, workVars,
                   callVars, finish, joined, budget>>

DestroyUnlock(d) ==
    /\ pc[d] = "stopping"
    /\ pool = "alive"
    /\ mutex' = NoThread
    /\ pc' = [pc EXCEPT ![d] = "join"]
    /\ UNCHANGED <<memVars, queueVars, condVars, workVars, callVars, endVars,
                   budget>>

DestroyJoin(d) ==
    /\ pc[d] = "join"
    /\ pool = "alive"
    /\ joined[d] < PoolSize
    /\ pc[joined[d]] = "exited"
    /\ joined' = [joined EXCEPT ![d] = @ + 1]
    /\ UNCHANGED <<pc, mutex, memVars, queueVars, condVars, workVars,
                   callVars, finish, lateFrom, budget>>

(* Frees the queue with the tasks that are left in it, and the pool.       *)
DestroyFree(d) ==
    /\ pc[d] = "join"
    /\ pool = "alive"
    /\ joined[d] = PoolSize
    /\ pool' = "freed"
    /\ task_queue' = <<>>
    /\ pc' = [pc EXCEPT ![d] = "done"]
    /\ UNCHANGED <<mutex, tp_channel, tid, uaf, stop, condVars, workVars,
                   callVars, endVars, budget>>

-----------------------------------------------------------------------------
Init ==
    /\ pc = [t \in Threads |-> IF t = Main THEN "alloc"
                               ELSE IF t \in Workers THEN "none"
                               ELSE "idle"]
    /\ mutex = NoThread
    /\ pool = "none" /\ tp_channel = "none" /\ tid = 0 /\ uaf = FALSE
    /\ stop = FALSE /\ task_queue = <<>>
    /\ task_empty = {} /\ task_not_empty = {}
    /\ th_status = [w \in Workers |-> 0]
    /\ task = [w \in Workers |-> NoTask]
    /\ started = <<>> /\ finished = {}
    /\ arg = [t \in Callers |-> NoTask]
    /\ idle_num = [c \in Clients |-> 0]
    /\ offered = {} /\ accepted = <<>>
    /\ finish = [d \in Destroyers |-> FALSE]
    /\ joined = [d \in Destroyers |-> 0]
    /\ lateFrom = 0
    /\ statusLeft = MaxStatus /\ spuriousLeft = MaxSpurious

(* What each thread goes on with by itself, in a call it is in.            *)
MainStep == CreateAlloc \/ CreateThread \/ CreateReturns

WorkerStep(w) ==
    \/ WorkerStart(w) \/ WorkerReady(w) \/ WorkerStop(w) \/ WorkerSleep(w)
    \/ WorkerTake(w) \/ WorkerPass(w) \/ JobReturns(w) \/ WorkerIdle(w)

CallStep(t) == AddRefused(t) \/ AddTask(t)

StatusStep(c) == StatusCount(c) \/ StatusReturns(c)

DestroyStep(d) ==
    \/ DestroyAgain(d) \/ DestroySleep(d) \/ DestroyStop(d)
    \/ DestroyUnlock(d) \/ DestroyJoin(d) \/ DestroyFree(d)

(* Everything is over: all that is left is threads that have ended, users  *)
(* that call nothing any more, and what sleeps in memory that is gone.     *)
Terminated ==
    /\ pool = "freed"
    /\ \A t \in Threads : pc[t] \in {"none", "idle", "returned", "failed",
                                     "exited", "done", "crashed", "waiting",
                                     "drainWaiting"}
    /\ UNCHANGED vars

Next ==
    \/ MainStep \/ CreateFails
    \/ \E w \in Workers : WorkerStep(w) \/ SpuriousWorker(w)
    \/ \E t \in Callers : CallStep(t) \/ \E k \in Tasks : AddCall(t, k)
    \/ \E c \in Clients : StatusCall(c) \/ StatusStep(c)
    \/ \E d \in Destroyers :
          DestroyCall(d) \/ DestroyStep(d) \/ SpuriousDestroyer(d)
    \/ \E t \in Threads : Acquire(t) \/ TouchFreed(t)
    \/ Terminated

Spec == Init /\ [][Next]_vars

(* Every thread the system runs makes progress in the call it is in, jobs  *)
(* return, and a free mutex that stays free is taken.  Nobody has to start *)
(* a call.                                                                 *)
Fairness ==
    /\ WF_vars(MainStep)
    /\ \A w \in Workers : WF_vars(WorkerStep(w))
    /\ \A t \in Callers : WF_vars(CallStep(t))
    /\ \A c \in Clients : WF_vars(StatusStep(c))
    /\ \A d \in Destroyers : WF_vars(DestroyStep(d))
    /\ \A t \in Threads : WF_vars(Acquire(t))

FairSpec == Spec /\ Fairness

-----------------------------------------------------------------------------
(* Properties *)

TypeOK ==
    /\ pc \in [Threads -> Entering \cup Inside \cup Outside]
    /\ mutex \in Threads \cup {NoThread}
    /\ pool \in {"none", "alive", "freed"}
    /\ tp_channel \in {"none", "live", "freed"}
    /\ tid \in 0 .. PoolSize
    /\ uaf \in BOOLEAN
    /\ stop \in BOOLEAN
    /\ task_queue \in Seq(Tasks)
    /\ task_empty \in SUBSET Workers
    /\ task_not_empty \in SUBSET Destroyers
    /\ th_status \in [Workers -> {-1, 0, 1}]
    /\ task \in [Workers -> Tasks \cup {NoTask}]
    /\ started \in Seq(Tasks)
    /\ finished \in SUBSET Tasks
    /\ arg \in [Callers -> Tasks \cup {NoTask}]
    /\ idle_num \in [Clients -> 0 .. PoolSize]
    /\ offered \in SUBSET Tasks
    /\ accepted \in Seq(Tasks)
    /\ finish \in [Destroyers -> BOOLEAN]
    /\ joined \in [Destroyers -> 0 .. PoolSize]
    /\ lateFrom \in Nat
    /\ statusLeft \in 0 .. MaxStatus
    /\ spuriousLeft \in 0 .. MaxSpurious

(* A thread is inside a critical section of the pool exactly when it holds *)
(* pool->mutex: every path out, the early returns of addtask and destroy   *)
(* and the stop exit of a worker included, gives the mutex back once.      *)
MutexHeld == \A t \in Threads : (pc[t] \in Inside) <=> (mutex = t)

TaskSet(s) == {s[i] : i \in DOMAIN s}

(* Tasks leave the queue in the order addtask took them, none is lost or   *)
(* duplicated between addtask, the queue and the workers, and what has     *)
(* been started and not finished is exactly what the workers have in hand. *)
TasksConserved ==
    /\ pool = "alive" => accepted = started \o task_queue
    /\ \A i, j \in DOMAIN accepted : accepted[i] = accepted[j] => i = j
    /\ \E n \in 0 .. Len(accepted) : started = SubSeq(accepted, 1, n)
    /\ TaskSet(started) = finished \cup ({task[w] : w \in Workers} \ {NoTask})
    /\ \A w \in Workers : task[w] \notin finished

Available == {w \in Workers : pc[w] \in {"lock", "locked", "woken", "relocked"}}

(* No wake-up is lost: while a worker sleeps in task_empty, at least as    *)
(* many others are awake and on their way to the queue as it has tasks.    *)
(* One signal per addtask has to be enough for that, whoever the signal    *)
(* wakes and whichever worker gets to the queue first.                     *)
WorkConserving ==
    task_empty # {} => Len(task_queue) <= Cardinality(Available)

(* Once stop is set the workers start at most one task each: a worker back *)
(* from cond_wait does not check stop, but its next round does.            *)
LateTasksBounded == stop => Len(started) <= lateFrom + PoolSize

(* destroy with finish = 1, called by an owner whose other calls are over, *)
(* returns after every task addtask ever took has been run, those that     *)
(* running jobs added while it was waiting included.                       *)
DrainedBeforeFree ==
    ~Racing => \A d \in Destroyers :
        pc[d] = "done" /\ finish[d] => finished = TaskSet(accepted)

(* status counts, under the mutex, the workers that have no job in hand: a *)
(* worker is neither counted while it runs a job nor forgotten after it.   *)
StatusExact ==
    \A c \in Clients : pc[c] = "counted" =>
        idle_num[c] = Cardinality({w \in Workers :
            pc[w] \in {"lock", "locked", "woken", "relocked", "waiting",
                       "exited"}})

(* With one owner that calls destroy when its other calls are over, freed  *)
(* memory is touched only after create failed with workers already         *)
(* running: the workers are gone when destroy frees the pool, and all have *)
(* read their argument block when create frees it.                         *)
UseAfterFreeOnlyByFailedCreate ==
    uaf /\ ~Racing => pc[Main] = "failed" /\ tid > 0

(* Two destroyers that do not drain, whenever they come: the stop flag     *)
(* lets only one of them tear the pool down, and nobody is tearing it down *)
(* when it is gone.                                                        *)
OneTeardown ==
    (\A d \in Destroyers : ~finish[d]) =>
        LET down == {d \in Destroyers : pc[d] \in {"stopping", "join"}}
        IN  Cardinality(down) <= IF pool = "freed" THEN 0 ELSE 1

(* The pool implements the task service.                                   *)
Service == INSTANCE TaskService WITH
    Capacity  <- PoolSize,
    pending   <- task_queue,
    running   <- {task[w] : w \in Workers} \ {NoTask},
    done      <- finished,
    discarded <- IF pool = "freed" THEN TaskSet(accepted) \ TaskSet(started)
                 ELSE {},
    open      <- ~stop,
    late      <- IF stop THEN Len(started) - lateFrom ELSE 0

(* What addtask took is run in order, once, PoolSize tasks at a time; a    *)
(* stopped pool starts at most PoolSize tasks more and takes none.         *)
ImplementsService == Service!Spec

(* Under fairness too: the pool starts what it can while it is not         *)
(* stopped, and every task it starts ends.                                 *)
ImplementsFairService == Service!FairSpec

(* create returns: every worker it starts reports itself ready.            *)
CreateTerminates == <>(pc[Main] = "returned")

(* destroy returns, draining or not: a destroyer asleep in task_not_empty  *)
(* is woken though only the worker that empties the queue signals, and     *)
(* every worker it joins gets to its exit.                                 *)
DestroyTerminates ==
    \A d \in Destroyers : (pc[d] = "destroy") ~> (pc[d] = "done")

(* No call waits for ever for a worker that will not come.                 *)
CallsTerminate == CreateTerminates /\ DestroyTerminates

-----------------------------------------------------------------------------
(* What the invariants above rest on, for the induction over steps.        *)

(* A caller on its way into addtask has a task in hand, and so has a       *)
(* worker from taking a task to the return of its job.                     *)
HandsOK ==
    /\ \A t \in Callers : pc[t] \in {"add", "adding"} => arg[t] \in Tasks
    /\ \A w \in Workers : pc[w] \in {"job", "add", "adding"} => task[w] \in Tasks

(* The condition variables hold threads that are asleep.                   *)
SleepersOK ==
    /\ \A w \in task_empty : pc[w] = "waiting"
    /\ \A d \in task_not_empty : pc[d] = "drainWaiting"

(* create has not started the workers from tid on.                         *)
SpawnOK == \A w \in Workers : w >= tid => pc[w] = "none"

(* Before create returns nothing is queued, and nobody has a task in hand. *)
UnpublishedOK ==
    pc[Main] # "returned" =>
        /\ task_queue = <<>>
        /\ \A t \in Callers : pc[t] \notin {"add", "adding", "job"}

(* Nobody sleeps in task_empty once stop is set: setting it wakes all, and *)
(* no worker goes to sleep after that.  A freed pool has no queue.         *)
ClosedOK ==
    /\ stop => task_empty = {}
    /\ pool = "freed" => task_queue = <<>>

CoreInv == TypeOK /\ MutexHeld /\ HandsOK /\ SleepersOK /\ SpawnOK
WakeInv == UnpublishedOK /\ ClosedOK /\ WorkConserving
=============================================================================
