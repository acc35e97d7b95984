-------------------------- MODULE ThreadPoolProofs --------------------------
(* Theorems about the thread pool, for every number of workers, clients,   *)
(* destroyers and tasks.                                                   *)
EXTENDS ThreadPool, TLAPS, FiniteSetTheorems, SequenceTheorems, SequenceFacts

(* create clamps its argument to a number of workers.                      *)
LEMMA SizeType == PoolSize \in Nat
BY SizesAssumption DEF PoolSize

(* A set of workers is finite and counts at most PoolSize.                 *)
LEMMA WorkerCount ==
    ASSUME NEW S \in SUBSET Workers
    PROVE  IsFiniteSet(S) /\ Cardinality(S) \in 0 .. PoolSize
<1>1. /\ IsFiniteSet(Workers)
      /\ Cardinality(Workers) = IF 0 > PoolSize - 1 THEN 0
                                ELSE PoolSize - 1 - 0 + 1
  BY SizeType, FS_Interval DEF Workers
<1>2. IsFiniteSet(S) /\ Cardinality(S) <= Cardinality(Workers)
  BY <1>1, FS_Subset
<1>3. Cardinality(S) \in Nat
  BY SMTT(30), <1>2, FS_CardinalityType
<1> QED
  BY <1>1, <1>2, <1>3, SizeType

(* Every step keeps every variable in its type. *)
LEMMA TypeStep == TypeOK /\ HandsOK /\ [Next]_vars => TypeOK'
<1> SUFFICES ASSUME TypeOK, HandsOK, [Next]_vars PROVE TypeOK'
  OBVIOUS
<1> USE SizeType, ThreadsAssumption
    DEF TypeOK, Threads, Callers, Entering, Inside, Outside, memVars, queueVars,
        condVars, workVars, callVars, endVars, budget
<1>1. CASE CreateAlloc
  BY <1>1 DEF CreateAlloc
<1>2. CASE CreateThread
  BY SMTT(30), <1>2 DEF CreateThread, MoreThreads, Workers
<1>3. CASE CreateReturns
  BY <1>3 DEF CreateReturns
<1>4. CASE CreateFails
  BY <1>4 DEF CreateFails
<1>5. ASSUME NEW w \in Workers, WorkerStart(w) PROVE TypeOK'
  BY <1>5 DEF WorkerStart
<1>6. ASSUME NEW w \in Workers, WorkerReady(w) PROVE TypeOK'
  BY <1>6 DEF WorkerReady
<1>7. ASSUME NEW w \in Workers, WorkerStop(w) PROVE TypeOK'
  BY <1>7 DEF WorkerStop
<1>8. ASSUME NEW w \in Workers, WorkerSleep(w) PROVE TypeOK'
  BY <1>8 DEF WorkerSleep
<1>9. ASSUME NEW w \in Workers, WorkerTake(w) PROVE TypeOK'
  BY SMTT(30), <1>9 DEF WorkerTake, Rest, DrainWakes, OneOf
<1>10. ASSUME NEW w \in Workers, WorkerPass(w) PROVE TypeOK'
  BY <1>10 DEF WorkerPass
<1>11. ASSUME NEW w \in Workers, JobReturns(w) PROVE TypeOK'
  BY <1>11 DEF JobReturns, HandsOK
<1>12. ASSUME NEW w \in Workers, WorkerIdle(w) PROVE TypeOK'
  BY <1>12 DEF WorkerIdle
<1>13. ASSUME NEW w \in Workers, SpuriousWorker(w) PROVE TypeOK'
  BY <1>13, SizesAssumption DEF SpuriousWorker
<1>14. ASSUME NEW t \in Callers, AddRefused(t) PROVE TypeOK'
  BY <1>14 DEF AddRefused, Resume
<1>15. ASSUME NEW t \in Callers, AddTask(t) PROVE TypeOK'
  BY SMTT(30), <1>15 DEF AddTask, AddWakes, Resume, HandsOK, OneOf
<1>16. ASSUME NEW t \in Callers, NEW k \in Tasks, AddCall(t, k) PROVE TypeOK'
  BY <1>16 DEF AddCall
<1>17. ASSUME NEW c \in Clients, StatusCall(c) PROVE TypeOK'
  BY <1>17, SizesAssumption DEF StatusCall
<1>18. ASSUME NEW c \in Clients, StatusCount(c) PROVE TypeOK'
  BY <1>18, WorkerCount DEF StatusCount, IdleWorkers
<1>19. ASSUME NEW c \in Clients, StatusReturns(c) PROVE TypeOK'
  BY <1>19 DEF StatusReturns
<1>20. ASSUME NEW d \in Destroyers, DestroyCall(d) PROVE TypeOK'
  BY <1>20 DEF DestroyCall
<1>21. ASSUME NEW d \in Destroyers, DestroyAgain(d) PROVE TypeOK'
  BY <1>21 DEF DestroyAgain
<1>22. ASSUME NEW d \in Destroyers, DestroySleep(d) PROVE TypeOK'
  BY <1>22 DEF DestroySleep
<1>23. ASSUME NEW d \in Destroyers, DestroyStop(d) PROVE TypeOK'
  BY <1>23 DEF DestroyStop
<1>24. ASSUME NEW d \in Destroyers, DestroyUnlock(d) PROVE TypeOK'
  BY <1>24 DEF DestroyUnlock
<1>25. ASSUME NEW d \in Destroyers, DestroyJoin(d) PROVE TypeOK'
  BY SMTT(30), <1>25 DEF DestroyJoin
<1>26. ASSUME NEW d \in Destroyers, DestroyFree(d) PROVE TypeOK'
  BY <1>26 DEF DestroyFree
<1>27. ASSUME NEW d \in Destroyers, SpuriousDestroyer(d) PROVE TypeOK'
  BY <1>27, SizesAssumption DEF SpuriousDestroyer
<1>28. ASSUME NEW t \in Threads, Acquire(t) PROVE TypeOK'
  BY SMTT(30), <1>28 DEF Acquire, Entered
<1>29. ASSUME NEW t \in Threads, TouchFreed(t) PROVE TypeOK'
  BY <1>29 DEF TouchFreed
<1>30. CASE Terminated \/ UNCHANGED vars
  BY SMTT(30), <1>30 DEF Terminated, vars, budget
<1> QED
  BY Zenon, <1>1, <1>2, <1>3, <1>4, <1>5, <1>6, <1>7, <1>8, <1>9, <1>10, <1>11,
     <1>12, <1>13, <1>14, <1>15, <1>16, <1>17, <1>18, <1>19, <1>20, <1>21,
     <1>22, <1>23, <1>24, <1>25, <1>26, <1>27, <1>28, <1>29, <1>30
  DEF Next, MainStep, WorkerStep, CallStep, StatusStep, DestroyStep

(* Every step takes or gives back the mutex where it enters or leaves *)
(* a critical section.                                                 *)
LEMMA MutexStep == TypeOK /\ SleepersOK /\ SpawnOK /\ MutexHeld /\ [Next]_vars => MutexHeld'
<1> SUFFICES ASSUME TypeOK, SleepersOK, SpawnOK, MutexHeld, [Next]_vars PROVE MutexHeld'
  OBVIOUS
<1> USE SizeType, ThreadsAssumption
    DEF TypeOK, MutexHeld, Threads, Callers, Entering, Inside, Outside,
        memVars, queueVars,
        condVars, workVars, callVars, endVars
<1>1. CASE CreateAlloc
  BY <1>1 DEF CreateAlloc
<1>2. CASE CreateThread
  BY <1>2 DEF CreateThread, MoreThreads, Workers, SpawnOK
<1>3. CASE CreateReturns
  BY <1>3 DEF CreateReturns
<1>4. CASE CreateFails
  BY <1>4 DEF CreateFails
<1>5. ASSUME NEW w \in Workers, WorkerStart(w) PROVE MutexHeld'
  BY <1>5 DEF WorkerStart
<1>6. ASSUME NEW w \in Workers, WorkerReady(w) PROVE MutexHeld'
  BY <1>6 DEF WorkerReady
<1>7. ASSUME NEW w \in Workers, WorkerStop(w) PROVE MutexHeld'
  BY <1>7 DEF WorkerStop
<1>8. ASSUME NEW w \in Workers, WorkerSleep(w) PROVE MutexHeld'
  BY <1>8 DEF WorkerSleep
<1>9. ASSUME NEW w \in Workers, WorkerTake(w) PROVE MutexHeld'
  BY SMTT(30), <1>9 DEF WorkerTake, Rest, DrainWakes, OneOf, SleepersOK
<1>10. ASSUME NEW w \in Workers, WorkerPass(w) PROVE MutexHeld'
  BY <1>10 DEF WorkerPass
<1>11. ASSUME NEW w \in Workers, JobReturns(w) PROVE MutexHeld'
  BY <1>11 DEF JobReturns
<1>12. ASSUME NEW w \in Workers, WorkerIdle(w) PROVE MutexHeld'
  BY <1>12 DEF WorkerIdle
<1>13. ASSUME NEW w \in Workers, SpuriousWorker(w) PROVE MutexHeld'
  BY <1>13 DEF SpuriousWorker, SleepersOK
<1>14. ASSUME NEW t \in Callers, AddRefused(t) PROVE MutexHeld'
  BY <1>14 DEF AddRefused, Resume
<1>15. ASSUME NEW t \in Callers, AddTask(t) PROVE MutexHeld'
  BY <1>15 DEF AddTask, AddWakes, Resume, SleepersOK, OneOf
<1>16. ASSUME NEW t \in Callers, NEW k \in Tasks, AddCall(t, k) PROVE MutexHeld'
  BY <1>16 DEF AddCall
<1>17. ASSUME NEW c \in Clients, StatusCall(c) PROVE MutexHeld'
  BY <1>17 DEF StatusCall
<1>18. ASSUME NEW c \in Clients, StatusCount(c) PROVE MutexHeld'
  BY <1>18 DEF StatusCount, IdleWorkers
<1>19. ASSUME NEW c \in Clients, StatusReturns(c) PROVE MutexHeld'
  BY <1>19 DEF StatusReturns
<1>20. ASSUME NEW d \in Destroyers, DestroyCall(d) PROVE MutexHeld'
  BY <1>20 DEF DestroyCall
<1>21. ASSUME NEW d \in Destroyers, DestroyAgain(d) PROVE MutexHeld'
  BY <1>21 DEF DestroyAgain
<1>22. ASSUME NEW d \in Destroyers, DestroySleep(d) PROVE MutexHeld'
  BY <1>22 DEF DestroySleep, Draining
<1>23. ASSUME NEW d \in Destroyers, DestroyStop(d) PROVE MutexHeld'
  BY <1>23 DEF DestroyStop, SleepersOK, Draining
<1>24. ASSUME NEW d \in Destroyers, DestroyUnlock(d) PROVE MutexHeld'
  BY <1>24 DEF DestroyUnlock
<1>25. ASSUME NEW d \in Destroyers, DestroyJoin(d) PROVE MutexHeld'
  BY <1>25 DEF DestroyJoin
<1>26. ASSUME NEW d \in Destroyers, DestroyFree(d) PROVE MutexHeld'
  BY <1>26 DEF DestroyFree
<1>27. ASSUME NEW d \in Destroyers, SpuriousDestroyer(d) PROVE MutexHeld'
  BY <1>27 DEF SpuriousDestroyer, SleepersOK
<1>28. ASSUME NEW t \in Threads, Acquire(t) PROVE MutexHeld'
  BY <1>28 DEF Acquire, Entered
<1>29. ASSUME NEW t \in Threads, TouchFreed(t) PROVE MutexHeld'
  BY <1>29 DEF TouchFreed
<1>30. CASE Terminated \/ UNCHANGED vars
  BY <1>30 DEF Terminated, vars, budget
<1> QED
  BY <1>1, <1>2, <1>3, <1>4, <1>5, <1>6, <1>7, <1>8, <1>9, <1>10, <1>11,
     <1>12, <1>13, <1>14, <1>15, <1>16, <1>17, <1>18, <1>19, <1>20, <1>21,
     <1>22, <1>23, <1>24, <1>25, <1>26, <1>27, <1>28, <1>29, <1>30
  DEF Next, MainStep, WorkerStep, CallStep, StatusStep, DestroyStep

(* Every step leaves a task in the hands of those that go on to use it. *)
LEMMA HandsStep == TypeOK /\ SleepersOK /\ HandsOK /\ [Next]_vars => HandsOK'
<1> SUFFICES ASSUME TypeOK, SleepersOK, HandsOK, [Next]_vars PROVE HandsOK'
  OBVIOUS
<1> USE SizeType, ThreadsAssumption
    DEF TypeOK, HandsOK, Threads, Callers, Entering, Inside, Outside,
        memVars, queueVars,
        condVars, workVars, callVars, endVars
<1>1. CASE CreateAlloc
  BY <1>1 DEF CreateAlloc
<1>2. CASE CreateThread
  BY <1>2 DEF CreateThread, MoreThreads
<1>3. CASE CreateReturns
  BY <1>3 DEF CreateReturns
<1>4. CASE CreateFails
  BY <1>4 DEF CreateFails
<1>5. ASSUME NEW w \in Workers, WorkerStart(w) PROVE HandsOK'
  BY <1>5 DEF WorkerStart
<1>6. ASSUME NEW w \in Workers, WorkerReady(w) PROVE HandsOK'
  BY <1>6 DEF WorkerReady
<1>7. ASSUME NEW w \in Workers, WorkerStop(w) PROVE HandsOK'
  BY <1>7 DEF WorkerStop
<1>8. ASSUME NEW w \in Workers, WorkerSleep(w) PROVE HandsOK'
  BY <1>8 DEF WorkerSleep
<1>9. ASSUME NEW w \in Workers, WorkerTake(w) PROVE HandsOK'
  BY <1>9 DEF WorkerTake, Rest, DrainWakes, OneOf
<1>10. ASSUME NEW w \in Workers, WorkerPass(w) PROVE HandsOK'
  BY <1>10 DEF WorkerPass
<1>11. ASSUME NEW w \in Workers, JobReturns(w) PROVE HandsOK'
  BY <1>11 DEF JobReturns
<1>12. ASSUME NEW w \in Workers, WorkerIdle(w) PROVE HandsOK'
  BY <1>12 DEF WorkerIdle
<1>13. ASSUME NEW w \in Workers, SpuriousWorker(w) PROVE HandsOK'
  BY <1>13 DEF SpuriousWorker
<1>14. ASSUME NEW t \in Callers, AddRefused(t) PROVE HandsOK'
  BY <1>14 DEF AddRefused, Resume
<1>15. ASSUME NEW t \in Callers, AddTask(t) PROVE HandsOK'
  BY <1>15 DEF AddTask, AddWakes, Resume, SleepersOK, OneOf
<1>16. ASSUME NEW t \in Callers, NEW k \in Tasks, AddCall(t, k) PROVE HandsOK'
  BY <1>16 DEF AddCall
<1>17. ASSUME NEW c \in Clients, StatusCall(c) PROVE HandsOK'
  BY <1>17 DEF StatusCall
<1>18. ASSUME NEW c \in Clients, StatusCount(c) PROVE HandsOK'
  BY <1>18 DEF StatusCount, IdleWorkers
<1>19. ASSUME NEW c \in Clients, StatusReturns(c) PROVE HandsOK'
  BY <1>19 DEF StatusReturns
<1>20. ASSUME NEW d \in Destroyers, DestroyCall(d) PROVE HandsOK'
  BY <1>20 DEF DestroyCall
<1>21. ASSUME NEW d \in Destroyers, DestroyAgain(d) PROVE HandsOK'
  BY <1>21 DEF DestroyAgain
<1>22. ASSUME NEW d \in Destroyers, DestroySleep(d) PROVE HandsOK'
  BY <1>22 DEF DestroySleep
<1>23. ASSUME NEW d \in Destroyers, DestroyStop(d) PROVE HandsOK'
  BY <1>23 DEF DestroyStop
<1>24. ASSUME NEW d \in Destroyers, DestroyUnlock(d) PROVE HandsOK'
  BY <1>24 DEF DestroyUnlock
<1>25. ASSUME NEW d \in Destroyers, DestroyJoin(d) PROVE HandsOK'
  BY <1>25 DEF DestroyJoin
<1>26. ASSUME NEW d \in Destroyers, DestroyFree(d) PROVE HandsOK'
  BY <1>26 DEF DestroyFree
<1>27. ASSUME NEW d \in Destroyers, SpuriousDestroyer(d) PROVE HandsOK'
  BY <1>27 DEF SpuriousDestroyer
<1>28. ASSUME NEW t \in Threads, Acquire(t) PROVE HandsOK'
  BY <1>28 DEF Acquire, Entered
<1>29. ASSUME NEW t \in Threads, TouchFreed(t) PROVE HandsOK'
  BY <1>29 DEF TouchFreed
<1>30. CASE Terminated \/ UNCHANGED vars
  BY <1>30 DEF Terminated, vars, budget
<1> QED
  BY <1>1, <1>2, <1>3, <1>4, <1>5, <1>6, <1>7, <1>8, <1>9, <1>10, <1>11,
     <1>12, <1>13, <1>14, <1>15, <1>16, <1>17, <1>18, <1>19, <1>20, <1>21,
     <1>22, <1>23, <1>24, <1>25, <1>26, <1>27, <1>28, <1>29, <1>30
  DEF Next, MainStep, WorkerStep, CallStep, StatusStep, DestroyStep

(* Every step wakes the threads it takes out of a condition variable. *)
LEMMA SleepersStep == TypeOK /\ SleepersOK /\ SpawnOK /\ [Next]_vars => SleepersOK'
<1> SUFFICES ASSUME TypeOK, SleepersOK, SpawnOK, [Next]_vars PROVE SleepersOK'
  OBVIOUS
<1> USE SizeType, ThreadsAssumption
    DEF TypeOK, SleepersOK, Threads, Callers, Entering, Inside, Outside,
        memVars, queueVars,
        condVars, workVars, callVars, endVars
<1>1. CASE CreateAlloc
  BY <1>1 DEF CreateAlloc
<1>2. CASE CreateThread
  <2>1. tid \in Workers /\ pc[tid] = "none"
    BY <1>2 DEF CreateThread, MoreThreads, SpawnOK, Workers
  <2>2. \A t \in task_empty \cup task_not_empty : t # tid
    BY <2>1
  <2> QED
    BY <1>2, <2>1, <2>2 DEF CreateThread, MoreThreads
<1>3. CASE CreateReturns
  BY <1>3 DEF CreateReturns
<1>4. CASE CreateFails
  BY <1>4 DEF CreateFails
<1>5. ASSUME NEW w \in Workers, WorkerStart(w) PROVE SleepersOK'
  BY <1>5 DEF WorkerStart
<1>6. ASSUME NEW w \in Workers, WorkerReady(w) PROVE SleepersOK'
  BY <1>6 DEF WorkerReady
<1>7. ASSUME NEW w \in Workers, WorkerStop(w) PROVE SleepersOK'
  BY <1>7 DEF WorkerStop
<1>8. ASSUME NEW w \in Workers, WorkerSleep(w) PROVE SleepersOK'
  BY <1>8 DEF WorkerSleep
<1>9. ASSUME NEW w \in Workers, WorkerTake(w) PROVE SleepersOK'
  BY SMTT(30), <1>9 DEF WorkerTake, Rest, DrainWakes, OneOf
<1>10. ASSUME NEW w \in Workers, WorkerPass(w) PROVE SleepersOK'
  BY <1>10 DEF WorkerPass
<1>11. ASSUME NEW w \in Workers, JobReturns(w) PROVE SleepersOK'
  BY <1>11 DEF JobReturns
<1>12. ASSUME NEW w \in Workers, WorkerIdle(w) PROVE SleepersOK'
  BY <1>12 DEF WorkerIdle
<1>13. ASSUME NEW w \in Workers, SpuriousWorker(w) PROVE SleepersOK'
  BY <1>13 DEF SpuriousWorker
<1>14. ASSUME NEW t \in Callers, AddRefused(t) PROVE SleepersOK'
  BY <1>14 DEF AddRefused, Resume
<1>15. ASSUME NEW t \in Callers, AddTask(t) PROVE SleepersOK'
  BY <1>15 DEF AddTask, AddWakes, Resume, OneOf
<1>16. ASSUME NEW t \in Callers, NEW k \in Tasks, AddCall(t, k) PROVE SleepersOK'
  BY <1>16 DEF AddCall
<1>17. ASSUME NEW c \in Clients, StatusCall(c) PROVE SleepersOK'
  BY <1>17 DEF StatusCall
<1>18. ASSUME NEW c \in Clients, StatusCount(c) PROVE SleepersOK'
  BY <1>18 DEF StatusCount, IdleWorkers
<1>19. ASSUME NEW c \in Clients, StatusReturns(c) PROVE SleepersOK'
  BY <1>19 DEF StatusReturns
<1>20. ASSUME NEW d \in Destroyers, DestroyCall(d) PROVE SleepersOK'
  BY <1>20 DEF DestroyCall
<1>21. ASSUME NEW d \in Destroyers, DestroyAgain(d) PROVE SleepersOK'
  BY <1>21 DEF DestroyAgain
<1>22. ASSUME NEW d \in Destroyers, DestroySleep(d) PROVE SleepersOK'
  BY <1>22 DEF DestroySleep, Draining
<1>23. ASSUME NEW d \in Destroyers, DestroyStop(d) PROVE SleepersOK'
  BY <1>23 DEF DestroyStop, Draining
<1>24. ASSUME NEW d \in Destroyers, DestroyUnlock(d) PROVE SleepersOK'
  BY <1>24 DEF DestroyUnlock
<1>25. ASSUME NEW d \in Destroyers, DestroyJoin(d) PROVE SleepersOK'
  BY <1>25 DEF DestroyJoin
<1>26. ASSUME NEW d \in Destroyers, DestroyFree(d) PROVE SleepersOK'
  BY <1>26 DEF DestroyFree
<1>27. ASSUME NEW d \in Destroyers, SpuriousDestroyer(d) PROVE SleepersOK'
  BY <1>27 DEF SpuriousDestroyer
<1>28. ASSUME NEW t \in Threads, Acquire(t) PROVE SleepersOK'
  BY <1>28 DEF Acquire, Entered
<1>29. ASSUME NEW t \in Threads, TouchFreed(t) PROVE SleepersOK'
  BY <1>29 DEF TouchFreed, Touching
<1>30. CASE Terminated \/ UNCHANGED vars
  BY <1>30 DEF Terminated, vars, budget
<1> QED
  BY <1>1, <1>2, <1>3, <1>4, <1>5, <1>6, <1>7, <1>8, <1>9, <1>10, <1>11,
     <1>12, <1>13, <1>14, <1>15, <1>16, <1>17, <1>18, <1>19, <1>20, <1>21,
     <1>22, <1>23, <1>24, <1>25, <1>26, <1>27, <1>28, <1>29, <1>30
  DEF Next, MainStep, WorkerStep, CallStep, StatusStep, DestroyStep

(* No step moves a worker that create has not started.               *)
LEMMA SpawnStep == TypeOK /\ SleepersOK /\ SpawnOK /\ [Next]_vars => SpawnOK'
<1> SUFFICES ASSUME TypeOK, SleepersOK, SpawnOK, [Next]_vars PROVE SpawnOK'
  OBVIOUS
<1> USE SizeType, ThreadsAssumption
    DEF TypeOK, SpawnOK, Threads, Callers, Entering, Inside, Outside,
        memVars, queueVars,
        condVars, workVars, callVars, endVars
<1>1. CASE CreateAlloc
  BY <1>1 DEF CreateAlloc
<1>2. CASE CreateThread
  BY <1>2 DEF CreateThread, MoreThreads, Workers
<1>3. CASE CreateReturns
  BY <1>3 DEF CreateReturns
<1>4. CASE CreateFails
  BY <1>4 DEF CreateFails
<1>5. ASSUME NEW w \in Workers, WorkerStart(w) PROVE SpawnOK'
  BY <1>5 DEF WorkerStart
<1>6. ASSUME NEW w \in Workers, WorkerReady(w) PROVE SpawnOK'
  BY <1>6 DEF WorkerReady
<1>7. ASSUME NEW w \in Workers, WorkerStop(w) PROVE SpawnOK'
  BY <1>7 DEF WorkerStop
<1>8. ASSUME NEW w \in Workers, WorkerSleep(w) PROVE SpawnOK'
  BY <1>8 DEF WorkerSleep
<1>9. ASSUME NEW w \in Workers, WorkerTake(w) PROVE SpawnOK'
  BY <1>9 DEF WorkerTake, Rest, DrainWakes, OneOf, SleepersOK
<1>10. ASSUME NEW w \in Workers, WorkerPass(w) PROVE SpawnOK'
  BY <1>10 DEF WorkerPass
<1>11. ASSUME NEW w \in Workers, JobReturns(w) PROVE SpawnOK'
  BY <1>11 DEF JobReturns
<1>12. ASSUME NEW w \in Workers, WorkerIdle(w) PROVE SpawnOK'
  BY <1>12 DEF WorkerIdle
<1>13. ASSUME NEW w \in Workers, SpuriousWorker(w) PROVE SpawnOK'
  BY <1>13 DEF SpuriousWorker, SleepersOK
<1>14. ASSUME NEW t \in Callers, AddRefused(t) PROVE SpawnOK'
  BY <1>14 DEF AddRefused, Resume
<1>15. ASSUME NEW t \in Callers, AddTask(t) PROVE SpawnOK'
  BY <1>15 DEF AddTask, AddWakes, Resume, SleepersOK, OneOf
<1>16. ASSUME NEW t \in Callers, NEW k \in Tasks, AddCall(t, k) PROVE SpawnOK'
  BY <1>16 DEF AddCall
<1>17. ASSUME NEW c \in Clients, StatusCall(c) PROVE SpawnOK'
  BY <1>17 DEF StatusCall
<1>18. ASSUME NEW c \in Clients, StatusCount(c) PROVE SpawnOK'
  BY <1>18 DEF StatusCount, IdleWorkers
<1>19. ASSUME NEW c \in Clients, StatusReturns(c) PROVE SpawnOK'
  BY <1>19 DEF StatusReturns
<1>20. ASSUME NEW d \in Destroyers, DestroyCall(d) PROVE SpawnOK'
  BY <1>20 DEF DestroyCall
<1>21. ASSUME NEW d \in Destroyers, DestroyAgain(d) PROVE SpawnOK'
  BY <1>21 DEF DestroyAgain
<1>22. ASSUME NEW d \in Destroyers, DestroySleep(d) PROVE SpawnOK'
  BY <1>22 DEF DestroySleep
<1>23. ASSUME NEW d \in Destroyers, DestroyStop(d) PROVE SpawnOK'
  BY <1>23 DEF DestroyStop, SleepersOK
<1>24. ASSUME NEW d \in Destroyers, DestroyUnlock(d) PROVE SpawnOK'
  BY <1>24 DEF DestroyUnlock
<1>25. ASSUME NEW d \in Destroyers, DestroyJoin(d) PROVE SpawnOK'
  BY <1>25 DEF DestroyJoin
<1>26. ASSUME NEW d \in Destroyers, DestroyFree(d) PROVE SpawnOK'
  BY <1>26 DEF DestroyFree
<1>27. ASSUME NEW d \in Destroyers, SpuriousDestroyer(d) PROVE SpawnOK'
  BY <1>27 DEF SpuriousDestroyer, SleepersOK
<1>28. ASSUME NEW t \in Threads, Acquire(t) PROVE SpawnOK'
  BY <1>28 DEF Acquire, Entered
<1>29. ASSUME NEW t \in Threads, TouchFreed(t) PROVE SpawnOK'
  BY <1>29 DEF TouchFreed, Touching
<1>30. CASE Terminated \/ UNCHANGED vars
  BY <1>30 DEF Terminated, vars, budget
<1> QED
  BY <1>1, <1>2, <1>3, <1>4, <1>5, <1>6, <1>7, <1>8, <1>9, <1>10, <1>11,
     <1>12, <1>13, <1>14, <1>15, <1>16, <1>17, <1>18, <1>19, <1>20, <1>21,
     <1>22, <1>23, <1>24, <1>25, <1>26, <1>27, <1>28, <1>29, <1>30
  DEF Next, MainStep, WorkerStep, CallStep, StatusStep, DestroyStep

(* The initial states satisfy the core invariant.                          *)
LEMMA CoreInit == Init => CoreInv
<1> SUFFICES ASSUME Init PROVE CoreInv
  OBVIOUS
<1> USE SizeType, SizesAssumption, ThreadsAssumption DEF Init, Threads, Callers
<1>1. TypeOK
  <2>1. pc \in [Threads -> Entering \cup Inside \cup Outside]
    BY DEF Entering, Inside, Outside
  <2>2. /\ th_status \in [Workers -> {-1, 0, 1}]
        /\ idle_num \in [Clients -> 0 .. PoolSize]
        /\ joined \in [Destroyers -> 0 .. PoolSize]
    OBVIOUS
  <2>3. task_queue \in Seq(Tasks) /\ started \in Seq(Tasks) /\ accepted \in Seq(Tasks)
    OBVIOUS
  <2>4. /\ mutex \in Threads \cup {NoThread}
        /\ pool \in {"none", "alive", "freed"}
        /\ tp_channel \in {"none", "live", "freed"}
        /\ tid \in 0 .. PoolSize
    OBVIOUS
  <2>7. uaf \in BOOLEAN /\ stop \in BOOLEAN
    BY Zenon
  <2>5. /\ task_empty \in SUBSET Workers /\ task_not_empty \in SUBSET Destroyers
        /\ task \in [Workers -> Tasks \cup {NoTask}]
        /\ arg \in [Callers -> Tasks \cup {NoTask}]
        /\ finished \in SUBSET Tasks /\ offered \in SUBSET Tasks
        /\ finish \in [Destroyers -> BOOLEAN]
    OBVIOUS
  <2>6. /\ lateFrom \in Nat
        /\ statusLeft \in 0 .. MaxStatus
        /\ spuriousLeft \in 0 .. MaxSpurious
    OBVIOUS
  <2> QED
    BY <2>1, <2>2, <2>3, <2>4, <2>5, <2>6, <2>7 DEF TypeOK
<1>2. MutexHeld
  BY DEF MutexHeld, Inside
<1>3. HandsOK /\ SleepersOK /\ SpawnOK
  BY DEF HandsOK, SleepersOK, SpawnOK
<1> QED
  BY <1>1, <1>2, <1>3 DEF CoreInv

(* The core invariant is inductive, so it holds in every reachable state.  *)
THEOREM CoreInvariant == Spec => []CoreInv
<1>1. CoreInv /\ [Next]_vars => CoreInv'
  BY TypeStep, MutexStep, HandsStep, SleepersStep, SpawnStep DEF CoreInv
<1> QED
  BY CoreInit, <1>1, PTL DEF Spec

(* Every variable of the pool keeps its type, in every execution.          *)
THEOREM TypeCorrect == Spec => []TypeOK
BY CoreInvariant, PTL DEF CoreInv

(* pool->mutex is held by exactly the thread inside a critical section:    *)
(* no path of create, a worker, addtask, status or destroy keeps it on its *)
(* way out or leaves without it.                                           *)
THEOREM MutualExclusion == Spec => []MutexHeld
BY CoreInvariant, PTL DEF CoreInv

(* Nothing is queued, and nobody has a task, before create returns.      *)
LEMMA UnpublishedStep == CoreInv /\ UnpublishedOK /\ [Next]_vars => UnpublishedOK'
<1> SUFFICES ASSUME CoreInv, UnpublishedOK, [Next]_vars PROVE UnpublishedOK'
  OBVIOUS
<1> USE SizeType, ThreadsAssumption
    DEF CoreInv, TypeOK, UnpublishedOK, Threads, Callers, memVars, queueVars,
        condVars, workVars, callVars, endVars
<1>1. CASE CreateAlloc
  BY <1>1 DEF CreateAlloc
<1>2. CASE CreateThread
  BY <1>2 DEF CreateThread, MoreThreads, Workers
<1>3. CASE CreateReturns
  BY <1>3 DEF CreateReturns
<1>4. CASE CreateFails
  BY <1>4 DEF CreateFails
<1>5. ASSUME NEW w \in Workers, WorkerStart(w) PROVE UnpublishedOK'
  BY <1>5 DEF WorkerStart
<1>6. ASSUME NEW w \in Workers, WorkerReady(w) PROVE UnpublishedOK'
  BY <1>6 DEF WorkerReady
<1>7. ASSUME NEW w \in Workers, WorkerStop(w) PROVE UnpublishedOK'
  BY <1>7 DEF WorkerStop
<1>8. ASSUME NEW w \in Workers, WorkerSleep(w) PROVE UnpublishedOK'
  BY <1>8 DEF WorkerSleep
<1>9. ASSUME NEW w \in Workers, WorkerTake(w) PROVE UnpublishedOK'
  BY <1>9 DEF WorkerTake, Rest, DrainWakes, OneOf, SleepersOK
<1>10. ASSUME NEW w \in Workers, WorkerPass(w) PROVE UnpublishedOK'
  BY <1>10 DEF WorkerPass
<1>11. ASSUME NEW w \in Workers, JobReturns(w) PROVE UnpublishedOK'
  BY <1>11 DEF JobReturns
<1>12. ASSUME NEW w \in Workers, WorkerIdle(w) PROVE UnpublishedOK'
  BY <1>12 DEF WorkerIdle
<1>13. ASSUME NEW w \in Workers, SpuriousWorker(w) PROVE UnpublishedOK'
  BY <1>13 DEF SpuriousWorker
<1>14. ASSUME NEW t \in Callers, AddRefused(t) PROVE UnpublishedOK'
  BY <1>14 DEF AddRefused, Resume
<1>15. ASSUME NEW t \in Callers, AddTask(t) PROVE UnpublishedOK'
  BY <1>15 DEF AddTask, AddWakes, Resume, SleepersOK, OneOf
<1>16. ASSUME NEW t \in Callers, NEW k \in Tasks, AddCall(t, k) PROVE UnpublishedOK'
  BY <1>16 DEF AddCall, MayCall
<1>17. ASSUME NEW c \in Clients, StatusCall(c) PROVE UnpublishedOK'
  BY <1>17 DEF StatusCall, MayCall
<1>18. ASSUME NEW c \in Clients, StatusCount(c) PROVE UnpublishedOK'
  BY <1>18 DEF StatusCount, IdleWorkers
<1>19. ASSUME NEW c \in Clients, StatusReturns(c) PROVE UnpublishedOK'
  BY <1>19 DEF StatusReturns
<1>20. ASSUME NEW d \in Destroyers, DestroyCall(d) PROVE UnpublishedOK'
  BY <1>20 DEF DestroyCall, MayCall
<1>21. ASSUME NEW d \in Destroyers, DestroyAgain(d) PROVE UnpublishedOK'
  BY <1>21 DEF DestroyAgain
<1>22. ASSUME NEW d \in Destroyers, DestroySleep(d) PROVE UnpublishedOK'
  BY <1>22 DEF DestroySleep, Draining
<1>23. ASSUME NEW d \in Destroyers, DestroyStop(d) PROVE UnpublishedOK'
  BY <1>23 DEF DestroyStop, SleepersOK, Draining
<1>24. ASSUME NEW d \in Destroyers, DestroyUnlock(d) PROVE UnpublishedOK'
  BY <1>24 DEF DestroyUnlock
<1>25. ASSUME NEW d \in Destroyers, DestroyJoin(d) PROVE UnpublishedOK'
  BY <1>25 DEF DestroyJoin
<1>26. ASSUME NEW d \in Destroyers, DestroyFree(d) PROVE UnpublishedOK'
  BY <1>26 DEF DestroyFree
<1>27. ASSUME NEW d \in Destroyers, SpuriousDestroyer(d) PROVE UnpublishedOK'
  BY <1>27 DEF SpuriousDestroyer
<1>28. ASSUME NEW t \in Threads, Acquire(t) PROVE UnpublishedOK'
  BY <1>28 DEF Acquire, Entered, Entering, Inside, Outside
<1>29. ASSUME NEW t \in Threads, TouchFreed(t) PROVE UnpublishedOK'
  BY <1>29 DEF TouchFreed, Touching, Entering, Inside
<1>30. CASE Terminated \/ UNCHANGED vars
  BY <1>30 DEF Terminated, vars, budget
<1> QED
  BY <1>1, <1>2, <1>3, <1>4, <1>5, <1>6, <1>7, <1>8, <1>9, <1>10, <1>11,
     <1>12, <1>13, <1>14, <1>15, <1>16, <1>17, <1>18, <1>19, <1>20, <1>21,
     <1>22, <1>23, <1>24, <1>25, <1>26, <1>27, <1>28, <1>29, <1>30
  DEF Next, MainStep, WorkerStep, CallStep, StatusStep, DestroyStep

(* A stopped pool has no worker asleep, and a freed one nothing queued.   *)
LEMMA ClosedStep == CoreInv /\ UnpublishedOK /\ ClosedOK /\ [Next]_vars => ClosedOK'
<1> SUFFICES ASSUME CoreInv, UnpublishedOK, ClosedOK, [Next]_vars PROVE ClosedOK'
  OBVIOUS
<1> USE SizeType, ThreadsAssumption
    DEF CoreInv, TypeOK, ClosedOK, Threads, Callers, memVars, queueVars,
        condVars, workVars, callVars, endVars
<1>1. CASE CreateAlloc
  BY <1>1 DEF CreateAlloc
<1>2. CASE CreateThread
  BY <1>2 DEF CreateThread, MoreThreads
<1>3. CASE CreateReturns
  BY <1>3 DEF CreateReturns
<1>4. CASE CreateFails
  BY <1>4 DEF CreateFails, UnpublishedOK
<1>5. ASSUME NEW w \in Workers, WorkerStart(w) PROVE ClosedOK'
  BY <1>5 DEF WorkerStart
<1>6. ASSUME NEW w \in Workers, WorkerReady(w) PROVE ClosedOK'
  BY <1>6 DEF WorkerReady
<1>7. ASSUME NEW w \in Workers, WorkerStop(w) PROVE ClosedOK'
  BY <1>7 DEF WorkerStop
<1>8. ASSUME NEW w \in Workers, WorkerSleep(w) PROVE ClosedOK'
  BY <1>8 DEF WorkerSleep
<1>9. ASSUME NEW w \in Workers, WorkerTake(w) PROVE ClosedOK'
  BY <1>9 DEF WorkerTake
<1>10. ASSUME NEW w \in Workers, WorkerPass(w) PROVE ClosedOK'
  BY <1>10 DEF WorkerPass
<1>11. ASSUME NEW w \in Workers, JobReturns(w) PROVE ClosedOK'
  BY <1>11 DEF JobReturns
<1>12. ASSUME NEW w \in Workers, WorkerIdle(w) PROVE ClosedOK'
  BY <1>12 DEF WorkerIdle
<1>13. ASSUME NEW w \in Workers, SpuriousWorker(w) PROVE ClosedOK'
  BY <1>13 DEF SpuriousWorker
<1>14. ASSUME NEW t \in Callers, AddRefused(t) PROVE ClosedOK'
  BY <1>14 DEF AddRefused
<1>15. ASSUME NEW t \in Callers, AddTask(t) PROVE ClosedOK'
  BY <1>15 DEF AddTask, AddWakes, OneOf
<1>16. ASSUME NEW t \in Callers, NEW k \in Tasks, AddCall(t, k) PROVE ClosedOK'
  BY <1>16 DEF AddCall
<1>17. ASSUME NEW c \in Clients, StatusCall(c) PROVE ClosedOK'
  BY <1>17 DEF StatusCall
<1>18. ASSUME NEW c \in Clients, StatusCount(c) PROVE ClosedOK'
  BY <1>18 DEF StatusCount, IdleWorkers
<1>19. ASSUME NEW c \in Clients, StatusReturns(c) PROVE ClosedOK'
  BY <1>19 DEF StatusReturns
<1>20. ASSUME NEW d \in Destroyers, DestroyCall(d) PROVE ClosedOK'
  BY <1>20 DEF DestroyCall
<1>21. ASSUME NEW d \in Destroyers, DestroyAgain(d) PROVE ClosedOK'
  BY <1>21 DEF DestroyAgain
<1>22. ASSUME NEW d \in Destroyers, DestroySleep(d) PROVE ClosedOK'
  BY <1>22 DEF DestroySleep
<1>23. ASSUME NEW d \in Destroyers, DestroyStop(d) PROVE ClosedOK'
  BY <1>23 DEF DestroyStop
<1>24. ASSUME NEW d \in Destroyers, DestroyUnlock(d) PROVE ClosedOK'
  BY <1>24 DEF DestroyUnlock
<1>25. ASSUME NEW d \in Destroyers, DestroyJoin(d) PROVE ClosedOK'
  BY <1>25 DEF DestroyJoin
<1>26. ASSUME NEW d \in Destroyers, DestroyFree(d) PROVE ClosedOK'
  BY <1>26 DEF DestroyFree
<1>27. ASSUME NEW d \in Destroyers, SpuriousDestroyer(d) PROVE ClosedOK'
  BY <1>27 DEF SpuriousDestroyer
<1>28. ASSUME NEW t \in Threads, Acquire(t) PROVE ClosedOK'
  BY <1>28 DEF Acquire
<1>29. ASSUME NEW t \in Threads, TouchFreed(t) PROVE ClosedOK'
  BY <1>29 DEF TouchFreed
<1>30. CASE Terminated \/ UNCHANGED vars
  BY <1>30 DEF Terminated, vars, budget
<1> QED
  BY <1>1, <1>2, <1>3, <1>4, <1>5, <1>6, <1>7, <1>8, <1>9, <1>10, <1>11,
     <1>12, <1>13, <1>14, <1>15, <1>16, <1>17, <1>18, <1>19, <1>20, <1>21,
     <1>22, <1>23, <1>24, <1>25, <1>26, <1>27, <1>28, <1>29, <1>30
  DEF Next, MainStep, WorkerStep, CallStep, StatusStep, DestroyStep

(* What a step needs to keep the workers' wake-ups sufficient, when it     *)
(* does not touch the queue: nobody falls asleep, and nobody who is        *)
(* available stops being so.                                               *)
LEMMA QuietWake ==
    ASSUME CoreInv, CoreInv', WorkConserving,
           task_empty' \subseteq task_empty, task_queue' = task_queue,
           Available \subseteq Available'
    PROVE  WorkConserving'
<1>1. Available \in SUBSET Workers /\ Available' \in SUBSET Workers
  BY DEF Available, Workers, PoolSize
<1>2. IsFiniteSet(Available') /\ Cardinality(Available) \in Nat
      /\ Cardinality(Available') \in Nat
  BY <1>1, WorkerCount
<1>3. Cardinality(Available) <= Cardinality(Available')
  BY <1>2, FS_Subset
<1>4. Len(task_queue) \in Nat
  BY DEF CoreInv, TypeOK
<1> QED
  BY <1>2, <1>3, <1>4 DEF WorkConserving

(* An empty queue needs nobody.                                            *)
LEMMA EmptyWake ==
    ASSUME CoreInv, task_queue' = <<>>
    PROVE  WorkConserving'
<1>1. Available' \in SUBSET Workers
  BY DEF Available, Workers, PoolSize
<1> QED
  BY <1>1, WorkerCount DEF WorkConserving

(* The available workers can be counted.                                   *)
LEMMA AvailableCount ==
    /\ Available \in SUBSET Workers
    /\ IsFiniteSet(Available)
    /\ Cardinality(Available) \in Nat
<1>1. Available \in SUBSET Workers
  BY DEF Available
<1>2. IsFiniteSet(Available)
  BY <1>1, WorkerCount
<1> QED
  BY <1>1, <1>2, FS_CardinalityType

(* A worker that takes a task leaves one task and one available worker     *)
(* fewer.                                                                  *)
LEMMA TakeWake ==
    ASSUME CoreInv, WorkConserving, NEW w \in Workers, WorkerTake(w)
    PROVE  WorkConserving'
<1>1. Available' = Available \ {w} /\ w \in Available
  <2>1. \A v \in Workers : v # w => pc'[v] = pc[v]
    BY ThreadsAssumption
       DEF CoreInv, TypeOK, WorkerTake, DrainWakes, OneOf, Threads, Callers
  <2>2. pc'[w] = "job" /\ pc[w] \in {"locked", "relocked"}
    BY DEF WorkerTake, Threads, Callers
  <2> QED
    BY <2>1, <2>2 DEF Available
<1>2. Cardinality(Available') = Cardinality(Available) - 1
  BY <1>1, AvailableCount, FS_RemoveElement
<1>3. Len(task_queue') = Len(task_queue) - 1 /\ Len(task_queue) \in Nat
  BY HeadTailProperties DEF CoreInv, TypeOK, WorkerTake, Rest
<1>4. task_empty' = task_empty
  BY DEF WorkerTake
<1> QED
  BY <1>2, <1>3, <1>4, AvailableCount DEF WorkConserving

(* addtask makes one sleeper available for the task it queues.             *)
LEMMA AddWake ==
    ASSUME CoreInv, WorkConserving, NEW t \in Callers, AddTask(t)
    PROVE  WorkConserving'
<1>1. CASE task_empty = {}
  BY <1>1 DEF AddTask, AddWakes, OneOf, WorkConserving
<1>2. CASE task_empty # {}
  <2>1. PICK woken \in OneOf(task_empty) :
           /\ task_empty' = task_empty \ woken
           /\ pc' = [u \in Threads |-> IF u = t THEN Resume(t)
                                       ELSE IF u \in woken THEN "woken"
                                       ELSE pc[u]]
    BY DEF AddTask, AddWakes
  <2>2. PICK w \in task_empty : woken = {w}
    BY <1>2 DEF OneOf
  <2>3. w \in Workers /\ pc[w] = "waiting" /\ pc[t] = "adding"
    BY DEF AddTask, CoreInv, SleepersOK, TypeOK
  <2>4. /\ pc'[w] = "woken"
        /\ pc'[t] \in {"job", "idle"}
        /\ \A v \in Workers : v # w /\ v # t => pc'[v] = pc[v]
    BY <2>1, <2>2, <2>3 DEF Threads, Callers, Resume
  <2>5. Available' = Available \cup {w} /\ w \notin Available
    BY <2>3, <2>4 DEF Available
  <2>6. Cardinality(Available') = Cardinality(Available) + 1
    BY <2>5, AvailableCount, FS_AddElement
  <2>7. arg[t] \in Tasks
    BY <2>3 DEF CoreInv, HandsOK
  <2>8. Len(task_queue') = Len(task_queue) + 1 /\ Len(task_queue) \in Nat
    BY <2>7 DEF CoreInv, TypeOK, AddTask
  <2> QED
    BY <1>2, <2>6, <2>8, AvailableCount DEF WorkConserving
<1> QED
  BY <1>1, <1>2

(* No wake-up is lost in a step: addtask wakes a sleeper for the task it   *)
(* queues, a worker that takes a task leaves the queue shorter, and a      *)
(* worker falls asleep on an empty queue only.                             *)
LEMMA WakeStep ==
    CoreInv /\ CoreInv' /\ WakeInv /\ [Next]_vars => WorkConserving'
<1> SUFFICES ASSUME CoreInv, CoreInv', WakeInv, [Next]_vars
             PROVE  WorkConserving'
  OBVIOUS
<1> USE ThreadsAssumption
    DEF CoreInv, TypeOK, WakeInv, Threads, Callers, memVars, queueVars,
        condVars, workVars, callVars, endVars
<1>1. CASE CreateAlloc
  BY <1>1, QuietWake DEF CreateAlloc, Available
<1>2. CASE CreateThread
  <2>1. tid \in Workers /\ pc[tid] = "none"
    BY <1>2, SizeType DEF CreateThread, MoreThreads, SpawnOK, Workers
  <2> QED
    BY <1>2, <2>1, QuietWake DEF CreateThread, MoreThreads, Available
<1>3. CASE CreateReturns
  BY <1>3, QuietWake DEF CreateReturns, Available
<1>4. CASE CreateFails
  BY <1>4, QuietWake DEF CreateFails, Available
<1>5. ASSUME NEW w \in Workers, WorkerStart(w) PROVE WorkConserving'
  BY <1>5, QuietWake DEF WorkerStart, Available
<1>6. ASSUME NEW w \in Workers, WorkerReady(w) PROVE WorkConserving'
  BY <1>6, QuietWake DEF WorkerReady, Available
<1>7. ASSUME NEW w \in Workers, WorkerStop(w) PROVE WorkConserving'
  BY <1>7 DEF WorkerStop, RoundOver, ClosedOK, WorkConserving
<1>8. ASSUME NEW w \in Workers, WorkerSleep(w) PROVE WorkConserving'
  BY <1>8, EmptyWake DEF WorkerSleep
<1>9. ASSUME NEW w \in Workers, WorkerTake(w) PROVE WorkConserving'
  BY <1>9, TakeWake
<1>10. ASSUME NEW w \in Workers, WorkerPass(w) PROVE WorkConserving'
  BY <1>10, QuietWake DEF WorkerPass, Available
<1>11. ASSUME NEW w \in Workers, JobReturns(w) PROVE WorkConserving'
  BY <1>11, QuietWake DEF JobReturns, Available
<1>12. ASSUME NEW w \in Workers, WorkerIdle(w) PROVE WorkConserving'
  BY <1>12, QuietWake DEF WorkerIdle, Available
<1>13. ASSUME NEW w \in Workers, SpuriousWorker(w) PROVE WorkConserving'
  BY <1>13, QuietWake DEF SpuriousWorker, Available
<1>14. ASSUME NEW t \in Callers, AddRefused(t) PROVE WorkConserving'
  BY <1>14, QuietWake DEF AddRefused, Resume, Available
<1>15. ASSUME NEW t \in Callers, AddTask(t) PROVE WorkConserving'
  BY <1>15, AddWake
<1>16. ASSUME NEW t \in Callers, NEW k \in Tasks, AddCall(t, k) PROVE WorkConserving'
  BY <1>16, QuietWake DEF AddCall, Available
<1>17. ASSUME NEW c \in Clients, StatusCall(c) PROVE WorkConserving'
  BY <1>17, QuietWake DEF StatusCall, Available
<1>18. ASSUME NEW c \in Clients, StatusCount(c) PROVE WorkConserving'
  BY <1>18, QuietWake DEF StatusCount, Available
<1>19. ASSUME NEW c \in Clients, StatusReturns(c) PROVE WorkConserving'
  BY <1>19, QuietWake DEF StatusReturns, Available
<1>20. ASSUME NEW d \in Destroyers, DestroyCall(d) PROVE WorkConserving'
  BY <1>20, QuietWake DEF DestroyCall, Available
<1>21. ASSUME NEW d \in Destroyers, DestroyAgain(d) PROVE WorkConserving'
  BY <1>21, QuietWake DEF DestroyAgain, Available
<1>22. ASSUME NEW d \in Destroyers, DestroySleep(d) PROVE WorkConserving'
  BY <1>22, QuietWake DEF DestroySleep, Draining, Available
<1>23. ASSUME NEW d \in Destroyers, DestroyStop(d) PROVE WorkConserving'
  BY <1>23, QuietWake DEF DestroyStop, Draining, SleepersOK, Available
<1>24. ASSUME NEW d \in Destroyers, DestroyUnlock(d) PROVE WorkConserving'
  BY <1>24, QuietWake DEF DestroyUnlock, Available
<1>25. ASSUME NEW d \in Destroyers, DestroyJoin(d) PROVE WorkConserving'
  BY <1>25, QuietWake DEF DestroyJoin, Available
<1>26. ASSUME NEW d \in Destroyers, DestroyFree(d) PROVE WorkConserving'
  BY <1>26, EmptyWake DEF DestroyFree
<1>27. ASSUME NEW d \in Destroyers, SpuriousDestroyer(d) PROVE WorkConserving'
  BY <1>27, QuietWake DEF SpuriousDestroyer, SleepersOK, Available
<1>28. ASSUME NEW t \in Threads, Acquire(t) PROVE WorkConserving'
  BY <1>28, QuietWake DEF Acquire, Entered, Entering, Available
<1>29. ASSUME NEW t \in Threads, TouchFreed(t) PROVE WorkConserving'
  <2>1. CASE pool = "freed"
    BY <1>29, <2>1, EmptyWake DEF TouchFreed, ClosedOK
  <2>2. CASE pc[t] = "start"
    BY <1>29, <2>2, QuietWake DEF TouchFreed, Available
  <2> QED
    BY <1>29, <2>1, <2>2 DEF TouchFreed
<1>30. CASE Terminated \/ UNCHANGED vars
  BY <1>30, QuietWake DEF Terminated, vars, Available
<1> QED
  BY <1>1, <1>2, <1>3, <1>4, <1>5, <1>6, <1>7, <1>8, <1>9, <1>10, <1>11,
     <1>12, <1>13, <1>14, <1>15, <1>16, <1>17, <1>18, <1>19, <1>20, <1>21,
     <1>22, <1>23, <1>24, <1>25, <1>26, <1>27, <1>28, <1>29, <1>30
  DEF Next, MainStep, WorkerStep, CallStep, StatusStep, DestroyStep

(* What the wake-ups of addtask rest on holds in every state: nothing is   *)
(* queued before create returns, and nobody sleeps in a stopped pool.      *)
THEOREM WakeInvariant == Spec => []WakeInv
<1>1. Init => WakeInv
  BY SizeType, ThreadsAssumption
     DEF Init, WakeInv, UnpublishedOK, ClosedOK, WorkConserving, Threads, Callers
<1>2. CoreInv /\ CoreInv' /\ WakeInv /\ [Next]_vars => WakeInv'
  BY UnpublishedStep, ClosedStep, WakeStep DEF WakeInv
<1> QED
  BY <1>1, <1>2, CoreInvariant, PTL DEF Spec

(* No wake-up is lost, for any number of workers and tasks: while a worker *)
(* sleeps, at least as many others are awake and without a job as there    *)
(* are tasks queued.                                                       *)
THEOREM NoLostWakeup == Spec => []WorkConserving
BY WakeInvariant, PTL DEF WakeInv

-----------------------------------------------------------------------------
(* What the pool does with the tasks it is given, for every number of      *)
(* tasks: the inductive invariant                                          *)

(* Where a worker can be, and what its entry of th_status says there.      *)
FreshPlaces == {"start", "ready"}
IdlePlaces  == {"lock", "locked", "woken", "relocked", "waiting", "exited"}
JobPlaces   == {"job", "add", "adding"}
BusyPlaces  == JobPlaces \cup {"finish", "finishing"}

(* create goes forward, and the pool's memory with it: the users get the   *)
(* pool when every worker is started, and no user calls before that.       *)
CreateOK ==
    /\ pc[Main] \in {"alloc", "spawn", "returned", "failed"}
    /\ pc[Main] = "alloc" <=> pool = "none"
    /\ pc[Main] = "spawn" => pool = "alive"
    /\ pc[Main] = "failed" => pool = "freed"
    /\ pc[Main] = "returned" => tid = PoolSize
    /\ tp_channel = "freed" => pc[Main] = "returned"
    /\ \A t \in Clients \cup Destroyers : pc[t] # "start"
    /\ pc[Main] # "returned" =>
          /\ accepted = <<>>
          /\ \A t \in Clients \cup Destroyers : pc[t] = "idle"

(* th_status follows what a worker does, a worker has a task exactly while *)
(* it runs a job, and none outlives the pool that destroy frees.           *)
WorkersOK == \A w \in Workers :
    /\ pc[w] \in {"none", "crashed"} \cup FreshPlaces
                                   \cup IdlePlaces \cup BusyPlaces
    /\ w < tid => pc[w] # "none"
    /\ pc[w] = "crashed" => pc[Main] = "failed"
    /\ pc[w] \in FreshPlaces => th_status[w] = -1
    /\ pc[w] \in IdlePlaces => th_status[w] = 0
    /\ pc[w] \in BusyPlaces => th_status[w] = 1
    /\ pc[w] \notin JobPlaces => task[w] = NoTask
    /\ pc[Main] = "returned" => pc[w] \in IdlePlaces \cup BusyPlaces
    /\ pc[Main] = "returned" /\ pool = "freed" => pc[w] = "exited"

(* A destroyer tears the pool down after it has set stop, and has joined   *)
(* workers that have ended.                                                *)
JoinOK == \A d \in Destroyers :
    /\ pc[d] = "idle" => ~finish[d]
    /\ pc[d] \in {"stopping", "join"} => stop
    /\ \A w \in Workers : w < joined[d] => pc[w] = "exited"

(* Once stop is set, the tasks started since and those that may still be   *)
(* started, one by each worker back from cond_wait, are PoolSize at most.  *)
BackFromWait == {w \in Workers : pc[w] \in {"woken", "relocked"}}

LateOK == stop =>
    /\ lateFrom <= Len(started)
    /\ Len(started) + Cardinality(BackFromWait) <= lateFrom + PoolSize

(* A task is offered once, so the tasks on their way into addtask differ   *)
(* from each other and from those it has taken.                            *)
Adding == {t \in Callers : pc[t] \in {"add", "adding"}}

OfferedOK ==
    /\ \A i \in DOMAIN accepted : accepted[i] \in offered
    /\ \A t \in Adding : /\ arg[t] \in offered
                         /\ \A i \in DOMAIN accepted : accepted[i] # arg[t]
    /\ \A t, u \in Adding : arg[t] = arg[u] => t = u
    /\ \A i, j \in DOMAIN accepted : accepted[i] = accepted[j] => i = j

(* The queue is what addtask took and no worker has started.               *)
QueueOK ==
    /\ Len(started) <= Len(accepted)
    /\ \A i \in 1 .. Len(started) : started[i] = accepted[i]
    /\ pool = "alive" => accepted = started \o task_queue

(* What has been started is finished or in the hands of one worker.        *)
HandedOK ==
    /\ \A w \in Workers : task[w] # NoTask =>
          /\ task[w] \notin finished
          /\ \E i \in 1 .. Len(started) : started[i] = task[w]
    /\ \A v, w \in Workers : task[v] = task[w] /\ task[v] # NoTask => v = w
    /\ \A k \in finished : \E i \in 1 .. Len(started) : started[i] = k
    /\ \A i \in 1 .. Len(started) :
          started[i] \in finished \/ \E w \in Workers : task[w] = started[i]

(* One owner, whose other calls are over when it calls destroy.            *)
OwnerOK == ~Racing =>
    /\ \A d, e \in Destroyers : pc[d] # "idle" /\ pc[e] # "idle" => d = e
    /\ \A d \in Destroyers : pc[d] # "idle" =>
          /\ \A c \in Clients : pc[c] = "idle"
          /\ stop <=> pc[d] \in {"stopping", "join", "done"}
          /\ pool = "freed" <=> pc[d] = "done"
          /\ pc[d] \in {"stopping", "join"} /\ finish[d] => task_queue = <<>>
          /\ pc[d] = "done" /\ finish[d] => finished = TaskSet(accepted)
    /\ stop \/ (pc[Main] = "returned" /\ pool = "freed") =>
          \E d \in Destroyers : pc[d] # "idle"
    /\ uaf => pc[Main] = "failed" /\ tid > 0

(* Destroyers that do not drain.                                           *)
TeardownOK == (\A d \in Destroyers : ~finish[d]) =>
    /\ \A d \in Destroyers : pc[d] \notin {"drainWaiting", "drainWoken", "draining"}
    /\ \A d, e \in Destroyers :
          pc[d] \in {"stopping", "join"} /\ pc[e] \in {"stopping", "join"} => d = e
    /\ \A d \in Destroyers : pc[d] \in {"stopping", "join"} => pool = "alive"

-----------------------------------------------------------------------------
(* The steps *)

(* create only goes forward, and nobody uses a pool it has not returned.   *)
LEMMA CreateStep ==
    CoreInv /\ WakeInv /\ CreateOK /\ [Next]_vars => CreateOK'
<1> SUFFICES ASSUME CoreInv, WakeInv, CreateOK, [Next]_vars
             PROVE  CreateOK'
  OBVIOUS
<1> USE SizeType, ThreadsAssumption
    DEF CoreInv, WakeInv, TypeOK, Threads, Callers, memVars, queueVars, condVars,
        workVars, callVars, endVars, budget,
        CreateOK, UnpublishedOK, Entering, Inside, Outside
<1>1. CASE CreateAlloc
  BY <1>1 DEF CreateAlloc
<1>2. CASE CreateThread
  <2>1. tid \in Workers /\ pc' = [pc EXCEPT ![tid] = "start"] /\ pc[Main] = "spawn"
    BY <1>2 DEF CreateThread, MoreThreads, Workers
  <2>2. pc'[Main] = "spawn" /\ \A t \in Clients \cup Destroyers : pc'[t] = pc[t]
    BY <2>1
  <2> QED
    BY <1>2, <2>2 DEF CreateThread
<1>3. CASE CreateReturns
  BY <1>3 DEF CreateReturns, MoreThreads, AllReady
<1>4. CASE CreateFails
  BY <1>4 DEF CreateFails
<1>5. ASSUME NEW w \in Workers, WorkerStart(w) PROVE CreateOK'
  BY <1>5 DEF WorkerStart
<1>6. ASSUME NEW w \in Workers, WorkerReady(w) PROVE CreateOK'
  BY <1>6 DEF WorkerReady
<1>7. ASSUME NEW w \in Workers, WorkerStop(w) PROVE CreateOK'
  BY <1>7 DEF WorkerStop, RoundOver
<1>8. ASSUME NEW w \in Workers, WorkerSleep(w) PROVE CreateOK'
  BY <1>8 DEF WorkerSleep
<1>9. ASSUME NEW w \in Workers, WorkerTake(w) PROVE CreateOK'
  BY <1>9 DEF WorkerTake, Rest, DrainWakes, OneOf
<1>10. ASSUME NEW w \in Workers, WorkerPass(w) PROVE CreateOK'
  BY <1>10 DEF WorkerPass
<1>11. ASSUME NEW w \in Workers, JobReturns(w) PROVE CreateOK'
  BY <1>11 DEF JobReturns
<1>12. ASSUME NEW w \in Workers, WorkerIdle(w) PROVE CreateOK'
  BY <1>12 DEF WorkerIdle
<1>13. ASSUME NEW w \in Workers, SpuriousWorker(w) PROVE CreateOK'
  BY <1>13 DEF SpuriousWorker
<1>14. ASSUME NEW t \in Callers, AddRefused(t) PROVE CreateOK'
  BY <1>14 DEF AddRefused, Resume
<1>15. ASSUME NEW t \in Callers, AddTask(t) PROVE CreateOK'
  BY <1>15 DEF AddTask, AddWakes, OneOf, Resume
<1>16. ASSUME NEW t \in Callers, NEW k \in Tasks, AddCall(t, k) PROVE CreateOK'
  BY <1>16 DEF AddCall, MayCall
<1>17. ASSUME NEW c \in Clients, StatusCall(c) PROVE CreateOK'
  BY <1>17 DEF StatusCall, MayCall
<1>18. ASSUME NEW c \in Clients, StatusCount(c) PROVE CreateOK'
  BY <1>18 DEF StatusCount
<1>19. ASSUME NEW c \in Clients, StatusReturns(c) PROVE CreateOK'
  BY <1>19 DEF StatusReturns
<1>20. ASSUME NEW d \in Destroyers, DestroyCall(d) PROVE CreateOK'
  BY <1>20 DEF DestroyCall, MayCall
<1>21. ASSUME NEW d \in Destroyers, DestroyAgain(d) PROVE CreateOK'
  BY <1>21 DEF DestroyAgain
<1>22. ASSUME NEW d \in Destroyers, DestroySleep(d) PROVE CreateOK'
  BY <1>22 DEF DestroySleep, Draining
<1>23. ASSUME NEW d \in Destroyers, DestroyStop(d) PROVE CreateOK'
  BY <1>23 DEF DestroyStop, Draining
<1>24. ASSUME NEW d \in Destroyers, DestroyUnlock(d) PROVE CreateOK'
  BY <1>24 DEF DestroyUnlock
<1>25. ASSUME NEW d \in Destroyers, DestroyJoin(d) PROVE CreateOK'
  BY <1>25 DEF DestroyJoin
<1>26. ASSUME NEW d \in Destroyers, DestroyFree(d) PROVE CreateOK'
  BY <1>26 DEF DestroyFree
<1>27. ASSUME NEW d \in Destroyers, SpuriousDestroyer(d) PROVE CreateOK'
  BY <1>27 DEF SpuriousDestroyer, SleepersOK
<1>28. ASSUME NEW t \in Threads, Acquire(t) PROVE CreateOK'
  BY <1>28 DEF Acquire, Entered
<1>29. ASSUME NEW t \in Threads, TouchFreed(t) PROVE CreateOK'
  <2>1. t # Main /\ (pc[Main] # "returned" => t \notin Clients \cup Destroyers)
    BY <1>29 DEF TouchFreed, Touching
  <2>2. \A u \in Threads : u # t => pc'[u] = pc[u]
    BY <1>29 DEF TouchFreed
  <2> QED
    BY <1>29, <2>1, <2>2 DEF TouchFreed
<1>30. CASE Terminated \/ UNCHANGED vars
  BY SMTT(30), <1>30 DEF Terminated, vars, budget
<1> QED
  BY <1>1, <1>2, <1>3, <1>4, <1>5, <1>6, <1>7, <1>8, <1>9, <1>10, <1>11,
     <1>12, <1>13, <1>14, <1>15, <1>16, <1>17, <1>18, <1>19, <1>20, <1>21,
     <1>22, <1>23, <1>24, <1>25, <1>26, <1>27, <1>28, <1>29, <1>30
  DEF Next, MainStep, WorkerStep, CallStep, StatusStep, DestroyStep

(* th_status is written where a worker changes what it does, and a worker  *)
(* has ended when destroy has joined it.                                   *)
LEMMA WorkersStep ==
    CoreInv /\ WakeInv /\ CreateOK /\ WorkersOK /\ JoinOK /\ [Next]_vars => WorkersOK'
<1> SUFFICES ASSUME CoreInv, WakeInv, CreateOK, WorkersOK, JoinOK, [Next]_vars
             PROVE  WorkersOK'
  OBVIOUS
<1> USE SizeType, ThreadsAssumption
    DEF CoreInv, WakeInv, TypeOK, Threads, Callers, memVars, queueVars, condVars,
        workVars, callVars, endVars, budget,
        CreateOK, WorkersOK, UnpublishedOK, FreshPlaces, IdlePlaces, BusyPlaces,
        JobPlaces, Entering, Inside, Outside
<1>1. CASE CreateAlloc
  BY <1>1 DEF CreateAlloc
<1>2. CASE CreateThread
  <2>1. /\ tid \in Workers /\ tid # Main /\ pc[Main] = "spawn"
        /\ \A w \in Workers : w < tid + 1 => w < tid \/ w = tid
    BY <1>2 DEF CreateThread, MoreThreads, Workers
  <2>2. pc[tid] = "none"
    BY <2>1 DEF SpawnOK, Workers
  <2>3. /\ pc' = [pc EXCEPT ![tid] = "start"]
        /\ th_status' = [th_status EXCEPT ![tid] = -1]
        /\ tid' = tid + 1 /\ UNCHANGED <<pool, task>>
    BY <1>2 DEF CreateThread
  <2> QED
    BY <2>1, <2>2, <2>3
<1>3. CASE CreateReturns
  <2>1. \A w \in Workers : w < tid /\ th_status[w] # -1
    BY <1>3 DEF CreateReturns, MoreThreads, AllReady, Workers
  <2> QED
    BY <1>3, <2>1 DEF CreateReturns
<1>4. CASE CreateFails
  BY <1>4 DEF CreateFails
<1>5. ASSUME NEW w \in Workers, WorkerStart(w) PROVE WorkersOK'
  BY <1>5 DEF WorkerStart
<1>6. ASSUME NEW w \in Workers, WorkerReady(w) PROVE WorkersOK'
  BY <1>6 DEF WorkerReady
<1>7. ASSUME NEW w \in Workers, WorkerStop(w) PROVE WorkersOK'
  BY <1>7 DEF WorkerStop, RoundOver
<1>8. ASSUME NEW w \in Workers, WorkerSleep(w) PROVE WorkersOK'
  BY <1>8 DEF WorkerSleep
<1>9. ASSUME NEW w \in Workers, WorkerTake(w) PROVE WorkersOK'
  BY SMTT(30), <1>9 DEF WorkerTake, Rest, DrainWakes, OneOf, SleepersOK
<1>10. ASSUME NEW w \in Workers, WorkerPass(w) PROVE WorkersOK'
  BY <1>10 DEF WorkerPass
<1>11. ASSUME NEW w \in Workers, JobReturns(w) PROVE WorkersOK'
  BY <1>11 DEF JobReturns
<1>12. ASSUME NEW w \in Workers, WorkerIdle(w) PROVE WorkersOK'
  BY <1>12 DEF WorkerIdle
<1>13. ASSUME NEW w \in Workers, SpuriousWorker(w) PROVE WorkersOK'
  BY <1>13 DEF SpuriousWorker, SleepersOK
<1>14. ASSUME NEW t \in Callers, AddRefused(t) PROVE WorkersOK'
  BY <1>14 DEF AddRefused, Resume
<1>15. ASSUME NEW t \in Callers, AddTask(t) PROVE WorkersOK'
  BY <1>15 DEF AddTask, AddWakes, OneOf, Resume, SleepersOK
<1>16. ASSUME NEW t \in Callers, NEW k \in Tasks, AddCall(t, k) PROVE WorkersOK'
  BY <1>16 DEF AddCall, MayCall
<1>17. ASSUME NEW c \in Clients, StatusCall(c) PROVE WorkersOK'
  BY <1>17 DEF StatusCall, MayCall
<1>18. ASSUME NEW c \in Clients, StatusCount(c) PROVE WorkersOK'
  BY <1>18 DEF StatusCount
<1>19. ASSUME NEW c \in Clients, StatusReturns(c) PROVE WorkersOK'
  BY <1>19 DEF StatusReturns
<1>20. ASSUME NEW d \in Destroyers, DestroyCall(d) PROVE WorkersOK'
  BY <1>20 DEF DestroyCall, MayCall
<1>21. ASSUME NEW d \in Destroyers, DestroyAgain(d) PROVE WorkersOK'
  BY <1>21 DEF DestroyAgain
<1>22. ASSUME NEW d \in Destroyers, DestroySleep(d) PROVE WorkersOK'
  BY <1>22 DEF DestroySleep, Draining
<1>23. ASSUME NEW d \in Destroyers, DestroyStop(d) PROVE WorkersOK'
  BY <1>23 DEF DestroyStop, Draining, SleepersOK
<1>24. ASSUME NEW d \in Destroyers, DestroyUnlock(d) PROVE WorkersOK'
  BY <1>24 DEF DestroyUnlock
<1>25. ASSUME NEW d \in Destroyers, DestroyJoin(d) PROVE WorkersOK'
  BY <1>25 DEF DestroyJoin
<1>26. ASSUME NEW d \in Destroyers, DestroyFree(d) PROVE WorkersOK'
  BY <1>26 DEF DestroyFree, JoinOK, Workers
<1>27. ASSUME NEW d \in Destroyers, SpuriousDestroyer(d) PROVE WorkersOK'
  BY <1>27 DEF SpuriousDestroyer
<1>28. ASSUME NEW t \in Threads, Acquire(t) PROVE WorkersOK'
  BY <1>28 DEF Acquire, Entered
<1>29. ASSUME NEW t \in Threads, TouchFreed(t) PROVE WorkersOK'
  BY <1>29 DEF TouchFreed, Touching
<1>30. CASE Terminated \/ UNCHANGED vars
  BY <1>30 DEF Terminated, vars, budget
<1> QED
  BY Zenon, <1>1, <1>2, <1>3, <1>4, <1>5, <1>6, <1>7, <1>8, <1>9, <1>10, <1>11,
     <1>12, <1>13, <1>14, <1>15, <1>16, <1>17, <1>18, <1>19, <1>20, <1>21,
     <1>22, <1>23, <1>24, <1>25, <1>26, <1>27, <1>28, <1>29, <1>30
  DEF Next, MainStep, WorkerStep, CallStep, StatusStep, DestroyStep

(* A worker that has ended stays where it is, and stop stays set.          *)
LEMMA JoinStep ==
    CoreInv /\ JoinOK /\ [Next]_vars => JoinOK'
<1> SUFFICES ASSUME CoreInv, JoinOK, [Next]_vars
             PROVE  JoinOK'
  OBVIOUS
<1> USE SizeType, ThreadsAssumption
    DEF CoreInv, WakeInv, TypeOK, Threads, Callers, memVars, queueVars, condVars,
        workVars, callVars, endVars, budget,
        JoinOK, SleepersOK, Entering, Inside, Outside
<1>1. CASE CreateAlloc
  BY <1>1 DEF CreateAlloc
<1>2. CASE CreateThread
  <2>1. tid \in Workers /\ pc[tid] = "none"
    BY <1>2 DEF CreateThread, MoreThreads, SpawnOK, Workers
  <2> QED
    BY <1>2, <2>1 DEF CreateThread
<1>3. CASE CreateReturns
  BY <1>3 DEF CreateReturns, MoreThreads, AllReady
<1>4. CASE CreateFails
  BY <1>4 DEF CreateFails
<1>5. ASSUME NEW w \in Workers, WorkerStart(w) PROVE JoinOK'
  BY <1>5 DEF WorkerStart
<1>6. ASSUME NEW w \in Workers, WorkerReady(w) PROVE JoinOK'
  BY <1>6 DEF WorkerReady
<1>7. ASSUME NEW w \in Workers, WorkerStop(w) PROVE JoinOK'
  BY <1>7 DEF WorkerStop, RoundOver
<1>8. ASSUME NEW w \in Workers, WorkerSleep(w) PROVE JoinOK'
  BY <1>8 DEF WorkerSleep
<1>9. ASSUME NEW w \in Workers, WorkerTake(w) PROVE JoinOK'
  BY <1>9 DEF WorkerTake, Rest, DrainWakes, OneOf
<1>10. ASSUME NEW w \in Workers, WorkerPass(w) PROVE JoinOK'
  BY <1>10 DEF WorkerPass
<1>11. ASSUME NEW w \in Workers, JobReturns(w) PROVE JoinOK'
  BY <1>11 DEF JobReturns
<1>12. ASSUME NEW w \in Workers, WorkerIdle(w) PROVE JoinOK'
  BY <1>12 DEF WorkerIdle
<1>13. ASSUME NEW w \in Workers, SpuriousWorker(w) PROVE JoinOK'
  BY <1>13 DEF SpuriousWorker
<1>14. ASSUME NEW t \in Callers, AddRefused(t) PROVE JoinOK'
  BY <1>14 DEF AddRefused, Resume
<1>15. ASSUME NEW t \in Callers, AddTask(t) PROVE JoinOK'
  BY <1>15 DEF AddTask, AddWakes, OneOf, Resume
<1>16. ASSUME NEW t \in Callers, NEW k \in Tasks, AddCall(t, k) PROVE JoinOK'
  BY <1>16 DEF AddCall, MayCall
<1>17. ASSUME NEW c \in Clients, StatusCall(c) PROVE JoinOK'
  BY <1>17 DEF StatusCall, MayCall
<1>18. ASSUME NEW c \in Clients, StatusCount(c) PROVE JoinOK'
  BY <1>18 DEF StatusCount
<1>19. ASSUME NEW c \in Clients, StatusReturns(c) PROVE JoinOK'
  BY <1>19 DEF StatusReturns
<1>20. ASSUME NEW d \in Destroyers, DestroyCall(d) PROVE JoinOK'
  BY <1>20 DEF DestroyCall, MayCall
<1>21. ASSUME NEW d \in Destroyers, DestroyAgain(d) PROVE JoinOK'
  BY <1>21 DEF DestroyAgain
<1>22. ASSUME NEW d \in Destroyers, DestroySleep(d) PROVE JoinOK'
  BY <1>22 DEF DestroySleep, Draining
<1>23. ASSUME NEW d \in Destroyers, DestroyStop(d) PROVE JoinOK'
  BY <1>23 DEF DestroyStop, Draining
<1>24. ASSUME NEW d \in Destroyers, DestroyUnlock(d) PROVE JoinOK'
  BY <1>24 DEF DestroyUnlock
<1>25. ASSUME NEW d \in Destroyers, DestroyJoin(d) PROVE JoinOK'
  <2>1. \A w \in Workers : w < joined[d] + 1 => w < joined[d] \/ w = joined[d]
    BY DEF Workers
  <2> QED
    BY <1>25, <2>1 DEF DestroyJoin
<1>26. ASSUME NEW d \in Destroyers, DestroyFree(d) PROVE JoinOK'
  BY <1>26 DEF DestroyFree
<1>27. ASSUME NEW d \in Destroyers, SpuriousDestroyer(d) PROVE JoinOK'
  BY <1>27 DEF SpuriousDestroyer
<1>28. ASSUME NEW t \in Threads, Acquire(t) PROVE JoinOK'
  BY <1>28 DEF Acquire, Entered
<1>29. ASSUME NEW t \in Threads, TouchFreed(t) PROVE JoinOK'
  BY <1>29 DEF TouchFreed, Touching
<1>30. CASE Terminated \/ UNCHANGED vars
  BY <1>30 DEF Terminated, vars, budget
<1> QED
  BY <1>1, <1>2, <1>3, <1>4, <1>5, <1>6, <1>7, <1>8, <1>9, <1>10, <1>11,
     <1>12, <1>13, <1>14, <1>15, <1>16, <1>17, <1>18, <1>19, <1>20, <1>21,
     <1>22, <1>23, <1>24, <1>25, <1>26, <1>27, <1>28, <1>29, <1>30
  DEF Next, MainStep, WorkerStep, CallStep, StatusStep, DestroyStep

(* A step in which nothing is started and, if stop is set, nobody comes    *)
(* back from cond_wait.                                                    *)
LEMMA QuietLate ==
    ASSUME CoreInv, LateOK, UNCHANGED <<stop, lateFrom, started>>,
           stop => BackFromWait' \subseteq BackFromWait
    PROVE  LateOK'
<1> SUFFICES ASSUME stop PROVE LateOK'
  BY DEF LateOK
<1>1. BackFromWait \in SUBSET Workers
  BY DEF BackFromWait
<1>2. IsFiniteSet(BackFromWait)
  BY <1>1, WorkerCount
<1>3. /\ Cardinality(BackFromWait') <= Cardinality(BackFromWait)
      /\ Cardinality(BackFromWait') \in Nat /\ Cardinality(BackFromWait) \in Nat
  BY <1>2, FS_Subset, FS_CardinalityType
<1>4. Len(started) \in Nat /\ lateFrom \in Nat
  BY DEF CoreInv, TypeOK
<1> QED
  BY <1>3, <1>4, SizeType DEF LateOK

(* Each of the workers that destroy has woken starts a task at most once:  *)
(* it is no longer back from cond_wait then, and its next round sees stop. *)
LEMMA LateStep ==
    CoreInv /\ WakeInv /\ LateOK /\ [Next]_vars => LateOK'
<1> SUFFICES ASSUME CoreInv, WakeInv, LateOK, [Next]_vars
             PROVE  LateOK'
  OBVIOUS
<1> USE SizeType, ThreadsAssumption
    DEF CoreInv, WakeInv, TypeOK, Threads, Callers, memVars, queueVars, condVars,
        workVars, callVars, endVars, budget,
        ClosedOK, SleepersOK, Entering, Inside, Outside
<1>1. CASE CreateAlloc
  BY <1>1, QuietLate DEF CreateAlloc, BackFromWait
<1>2. CASE CreateThread
  <2>1. tid \in Workers /\ pc[tid] = "none"
    BY <1>2 DEF CreateThread, MoreThreads, SpawnOK, Workers
  <2> QED
    BY <1>2, <2>1, QuietLate DEF CreateThread, BackFromWait
<1>3. CASE CreateReturns
  BY <1>3, QuietLate DEF CreateReturns, MoreThreads, AllReady, BackFromWait
<1>4. CASE CreateFails
  BY <1>4, QuietLate DEF CreateFails, BackFromWait
<1>5. ASSUME NEW w \in Workers, WorkerStart(w) PROVE LateOK'
  BY <1>5, QuietLate DEF WorkerStart, BackFromWait
<1>6. ASSUME NEW w \in Workers, WorkerReady(w) PROVE LateOK'
  BY <1>6, QuietLate DEF WorkerReady, BackFromWait
<1>7. ASSUME NEW w \in Workers, WorkerStop(w) PROVE LateOK'
  BY <1>7, QuietLate DEF WorkerStop, RoundOver, BackFromWait
<1>8. ASSUME NEW w \in Workers, WorkerSleep(w) PROVE LateOK'
  BY <1>8, QuietLate DEF WorkerSleep, BackFromWait
<1>9. ASSUME NEW w \in Workers, WorkerTake(w) PROVE LateOK'
  <2>1. CASE ~stop
    BY <1>9, <2>1 DEF WorkerTake, LateOK
  <2>2. CASE stop
    <3>1. /\ pc[w] = "relocked" /\ pc'[w] = "job"
          /\ \A v \in Workers : v # w => pc'[v] = pc[v]
      BY <1>9, <2>2 DEF WorkerTake, RoundOver, DrainWakes, OneOf
    <3>2. BackFromWait' = BackFromWait \ {w} /\ w \in BackFromWait
      BY <3>1 DEF BackFromWait
    <3>3. BackFromWait \in SUBSET Workers
      BY DEF BackFromWait
    <3>4. IsFiniteSet(BackFromWait) /\ Cardinality(BackFromWait) \in Nat
      BY <3>3, WorkerCount
    <3>5. Cardinality(BackFromWait') = Cardinality(BackFromWait) - 1
      BY <3>2, <3>4, FS_RemoveElement
    <3>6. /\ stop' /\ lateFrom' = lateFrom /\ lateFrom \in Nat
          /\ Len(started') = Len(started) + 1 /\ Len(started) \in Nat
      BY <1>9, <2>2 DEF WorkerTake
    <3> QED
      BY <2>2, <3>4, <3>5, <3>6 DEF LateOK
  <2> QED
    BY <2>1, <2>2
<1>10. ASSUME NEW w \in Workers, WorkerPass(w) PROVE LateOK'
  BY <1>10, QuietLate DEF WorkerPass, BackFromWait
<1>11. ASSUME NEW w \in Workers, JobReturns(w) PROVE LateOK'
  BY <1>11, QuietLate DEF JobReturns, BackFromWait
<1>12. ASSUME NEW w \in Workers, WorkerIdle(w) PROVE LateOK'
  BY <1>12, QuietLate DEF WorkerIdle, BackFromWait
<1>13. ASSUME NEW w \in Workers, SpuriousWorker(w) PROVE LateOK'
  BY <1>13, QuietLate DEF SpuriousWorker, BackFromWait
<1>14. ASSUME NEW t \in Callers, AddRefused(t) PROVE LateOK'
  BY <1>14, QuietLate DEF AddRefused, Resume, BackFromWait
<1>15. ASSUME NEW t \in Callers, AddTask(t) PROVE LateOK'
  BY <1>15, QuietLate DEF AddTask, AddWakes, OneOf, Resume, BackFromWait
<1>16. ASSUME NEW t \in Callers, NEW k \in Tasks, AddCall(t, k) PROVE LateOK'
  BY <1>16, QuietLate DEF AddCall, MayCall, BackFromWait
<1>17. ASSUME NEW c \in Clients, StatusCall(c) PROVE LateOK'
  BY <1>17, QuietLate DEF StatusCall, MayCall, BackFromWait
<1>18. ASSUME NEW c \in Clients, StatusCount(c) PROVE LateOK'
  BY <1>18, QuietLate DEF StatusCount, BackFromWait
<1>19. ASSUME NEW c \in Clients, StatusReturns(c) PROVE LateOK'
  BY <1>19, QuietLate DEF StatusReturns, BackFromWait
<1>20. ASSUME NEW d \in Destroyers, DestroyCall(d) PROVE LateOK'
  BY <1>20, QuietLate DEF DestroyCall, MayCall, BackFromWait
<1>21. ASSUME NEW d \in Destroyers, DestroyAgain(d) PROVE LateOK'
  BY <1>21, QuietLate DEF DestroyAgain, BackFromWait
<1>22. ASSUME NEW d \in Destroyers, DestroySleep(d) PROVE LateOK'
  BY <1>22, QuietLate DEF DestroySleep, Draining, BackFromWait
<1>23. ASSUME NEW d \in Destroyers, DestroyStop(d) PROVE LateOK'
  <2>1. CASE stop
    BY <1>23, <2>1, QuietLate DEF DestroyStop, Draining, BackFromWait
  <2>2. CASE ~stop
    <3>1. lateFrom' = Len(started) /\ started' = started /\ Len(started) \in Nat
      BY <1>23, <2>2 DEF DestroyStop
    <3>2. BackFromWait' \in SUBSET Workers
      BY DEF BackFromWait, Workers, PoolSize
    <3>3. Cardinality(BackFromWait') \in 0 .. PoolSize
      BY <3>2, WorkerCount
    <3> QED
      BY <3>1, <3>3 DEF LateOK
  <2> QED
    BY <2>1, <2>2
<1>24. ASSUME NEW d \in Destroyers, DestroyUnlock(d) PROVE LateOK'
  BY <1>24, QuietLate DEF DestroyUnlock, BackFromWait
<1>25. ASSUME NEW d \in Destroyers, DestroyJoin(d) PROVE LateOK'
  BY <1>25, QuietLate DEF DestroyJoin, BackFromWait
<1>26. ASSUME NEW d \in Destroyers, DestroyFree(d) PROVE LateOK'
  BY <1>26, QuietLate DEF DestroyFree, BackFromWait
<1>27. ASSUME NEW d \in Destroyers, SpuriousDestroyer(d) PROVE LateOK'
  BY <1>27, QuietLate DEF SpuriousDestroyer, BackFromWait
<1>28. ASSUME NEW t \in Threads, Acquire(t) PROVE LateOK'
  BY <1>28, QuietLate DEF Acquire, Entered, BackFromWait
<1>29. ASSUME NEW t \in Threads, TouchFreed(t) PROVE LateOK'
  BY <1>29, QuietLate DEF TouchFreed, Touching, BackFromWait
<1>30. CASE Terminated \/ UNCHANGED vars
  BY <1>30, QuietLate DEF Terminated, vars, budget, BackFromWait
<1> QED
  BY <1>1, <1>2, <1>3, <1>4, <1>5, <1>6, <1>7, <1>8, <1>9, <1>10, <1>11,
     <1>12, <1>13, <1>14, <1>15, <1>16, <1>17, <1>18, <1>19, <1>20, <1>21,
     <1>22, <1>23, <1>24, <1>25, <1>26, <1>27, <1>28, <1>29, <1>30
  DEF Next, MainStep, WorkerStep, CallStep, StatusStep, DestroyStep

(* A step that offers nothing and takes nothing in.                        *)
LEMMA QuietOffered ==
    ASSUME OfferedOK, UNCHANGED <<accepted, offered, arg>>,
           Adding' \subseteq Adding
    PROVE  OfferedOK'
BY DEF OfferedOK

(* A task is new when a call to addtask begins with it, and leaves the     *)
(* hands of the caller when addtask takes it.                              *)
LEMMA OfferedStep ==
    CoreInv /\ OfferedOK /\ [Next]_vars => OfferedOK'
<1> SUFFICES ASSUME CoreInv, OfferedOK, [Next]_vars
             PROVE  OfferedOK'
  OBVIOUS
<1> USE SizeType, ThreadsAssumption
    DEF CoreInv, WakeInv, TypeOK, Threads, Callers, memVars, queueVars, condVars,
        workVars, callVars, endVars, budget,
        SleepersOK, Entering, Inside, Outside
<1>1. CASE CreateAlloc
  BY <1>1, QuietOffered DEF CreateAlloc, Adding
<1>2. CASE CreateThread
  <2>1. tid \in Workers /\ pc[tid] = "none"
    BY <1>2 DEF CreateThread, MoreThreads, SpawnOK, Workers
  <2> QED
    BY <1>2, <2>1, QuietOffered DEF CreateThread, Adding
<1>3. CASE CreateReturns
  BY <1>3, QuietOffered DEF CreateReturns, MoreThreads, AllReady, Adding
<1>4. CASE CreateFails
  BY <1>4, QuietOffered DEF CreateFails, Adding
<1>5. ASSUME NEW w \in Workers, WorkerStart(w) PROVE OfferedOK'
  BY <1>5, QuietOffered DEF WorkerStart, Adding
<1>6. ASSUME NEW w \in Workers, WorkerReady(w) PROVE OfferedOK'
  BY <1>6, QuietOffered DEF WorkerReady, Adding
<1>7. ASSUME NEW w \in Workers, WorkerStop(w) PROVE OfferedOK'
  BY <1>7, QuietOffered DEF WorkerStop, RoundOver, Adding
<1>8. ASSUME NEW w \in Workers, WorkerSleep(w) PROVE OfferedOK'
  BY <1>8, QuietOffered DEF WorkerSleep, Adding
<1>9. ASSUME NEW w \in Workers, WorkerTake(w) PROVE OfferedOK'
  BY <1>9, QuietOffered DEF WorkerTake, Rest, DrainWakes, OneOf, Adding
<1>10. ASSUME NEW w \in Workers, WorkerPass(w) PROVE OfferedOK'
  BY <1>10, QuietOffered DEF WorkerPass, Adding
<1>11. ASSUME NEW w \in Workers, JobReturns(w) PROVE OfferedOK'
  BY <1>11, QuietOffered DEF JobReturns, Adding
<1>12. ASSUME NEW w \in Workers, WorkerIdle(w) PROVE OfferedOK'
  BY <1>12, QuietOffered DEF WorkerIdle, Adding
<1>13. ASSUME NEW w \in Workers, SpuriousWorker(w) PROVE OfferedOK'
  BY <1>13, QuietOffered DEF SpuriousWorker, Adding
<1>14. ASSUME NEW t \in Callers, AddRefused(t) PROVE OfferedOK'
  <2>1. Adding' = Adding \ {t} /\ \A u \in Adding' : arg'[u] = arg[u]
    BY <1>14 DEF AddRefused, Resume, Adding
  <2> QED
    BY <1>14, <2>1 DEF AddRefused, OfferedOK
<1>15. ASSUME NEW t \in Callers, AddTask(t) PROVE OfferedOK'
  <2>1. /\ Adding' = Adding \ {t} /\ t \in Adding
        /\ \A u \in Adding' : arg'[u] = arg[u]
        /\ accepted' = Append(accepted, arg[t]) /\ offered' = offered
    BY <1>15 DEF AddTask, AddWakes, OneOf, Resume, Adding
  <2>2. /\ arg[t] \in offered
        /\ \A i \in DOMAIN accepted : accepted[i] # arg[t]
        /\ \A u \in Adding' : arg[u] # arg[t]
    BY <2>1 DEF OfferedOK
  <2>3. /\ Len(accepted) \in Nat /\ DOMAIN accepted = 1 .. Len(accepted)
        /\ DOMAIN accepted' = 1 .. Len(accepted) + 1
        /\ accepted'[Len(accepted) + 1] = arg[t]
        /\ \A i \in 1 .. Len(accepted) : accepted'[i] = accepted[i]
    BY <2>1
  <2>4. \A i \in DOMAIN accepted' :
           i \in DOMAIN accepted \/ i = Len(accepted) + 1
    BY <2>3
  <2>5. \A i \in DOMAIN accepted' : accepted'[i] \in offered'
    BY <2>1, <2>2, <2>3, <2>4 DEF OfferedOK
  <2>6. \A i, j \in DOMAIN accepted' : accepted'[i] = accepted'[j] => i = j
    BY SMTT(30), <2>2, <2>3, <2>4 DEF OfferedOK
  <2>7. ASSUME NEW u \in Adding'
        PROVE  /\ arg'[u] \in offered'
               /\ \A i \in DOMAIN accepted' : accepted'[i] # arg'[u]
    <3>1. /\ u \in Adding /\ arg'[u] = arg[u] /\ arg[u] # arg[t]
      BY <2>1, <2>2
    <3>2. arg[u] \in offered /\ \A i \in DOMAIN accepted : accepted[i] # arg[u]
      BY <3>1 DEF OfferedOK
    <3> QED
      BY ONLY <2>1, <2>3, <2>4, <3>1, <3>2
  <2>8. \A u, v \in Adding' : arg'[u] = arg'[v] => u = v
    BY <2>1 DEF OfferedOK
  <2> QED
    BY <2>5, <2>6, <2>7, <2>8 DEF OfferedOK
<1>16. ASSUME NEW t \in Callers, NEW k \in Tasks, AddCall(t, k) PROVE OfferedOK'
  <2>1. /\ Adding' = Adding \cup {t} /\ t \notin Adding
        /\ arg'[t] = k /\ \A u \in Adding : arg'[u] = arg[u]
        /\ offered' = offered \cup {k} /\ k \notin offered
        /\ accepted' = accepted
    BY <1>16 DEF AddCall, Adding
  <2>2. /\ \A i \in DOMAIN accepted : accepted[i] \in offered /\ accepted[i] # k
        /\ \A u \in Adding : arg[u] # k
    BY <2>1 DEF OfferedOK
  <2>3. \A u \in Adding' : /\ arg'[u] \in offered'
                           /\ \A i \in DOMAIN accepted : accepted[i] # arg'[u]
    BY SMTT(30), <2>1, <2>2 DEF OfferedOK
  <2>4. \A u, v \in Adding' : arg'[u] = arg'[v] => u = v
    <3>1. \A u, v \in Adding : arg[u] = arg[v] => u = v
      BY DEF OfferedOK
    <3> QED
      BY ONLY <2>1, <2>2, <3>1
  <2> QED
    BY <2>1, <2>2, <2>3, <2>4 DEF OfferedOK
<1>17. ASSUME NEW c \in Clients, StatusCall(c) PROVE OfferedOK'
  BY <1>17, QuietOffered DEF StatusCall, MayCall, Adding
<1>18. ASSUME NEW c \in Clients, StatusCount(c) PROVE OfferedOK'
  BY <1>18, QuietOffered DEF StatusCount, Adding
<1>19. ASSUME NEW c \in Clients, StatusReturns(c) PROVE OfferedOK'
  BY <1>19, QuietOffered DEF StatusReturns, Adding
<1>20. ASSUME NEW d \in Destroyers, DestroyCall(d) PROVE OfferedOK'
  BY <1>20, QuietOffered DEF DestroyCall, MayCall, Adding
<1>21. ASSUME NEW d \in Destroyers, DestroyAgain(d) PROVE OfferedOK'
  BY <1>21, QuietOffered DEF DestroyAgain, Adding
<1>22. ASSUME NEW d \in Destroyers, DestroySleep(d) PROVE OfferedOK'
  BY <1>22, QuietOffered DEF DestroySleep, Draining, Adding
<1>23. ASSUME NEW d \in Destroyers, DestroyStop(d) PROVE OfferedOK'
  BY <1>23, QuietOffered DEF DestroyStop, Draining, Adding
<1>24. ASSUME NEW d \in Destroyers, DestroyUnlock(d) PROVE OfferedOK'
  BY <1>24, QuietOffered DEF DestroyUnlock, Adding
<1>25. ASSUME NEW d \in Destroyers, DestroyJoin(d) PROVE OfferedOK'
  BY <1>25, QuietOffered DEF DestroyJoin, Adding
<1>26. ASSUME NEW d \in Destroyers, DestroyFree(d) PROVE OfferedOK'
  BY <1>26, QuietOffered DEF DestroyFree, Adding
<1>27. ASSUME NEW d \in Destroyers, SpuriousDestroyer(d) PROVE OfferedOK'
  BY <1>27, QuietOffered DEF SpuriousDestroyer, Adding
<1>28. ASSUME NEW t \in Threads, Acquire(t) PROVE OfferedOK'
  BY <1>28, QuietOffered DEF Acquire, Entered, Adding
<1>29. ASSUME NEW t \in Threads, TouchFreed(t) PROVE OfferedOK'
  BY <1>29, QuietOffered DEF TouchFreed, Touching, Adding
<1>30. CASE Terminated \/ UNCHANGED vars
  BY <1>30, QuietOffered DEF Terminated, vars, budget, Adding
<1> QED
  BY <1>1, <1>2, <1>3, <1>4, <1>5, <1>6, <1>7, <1>8, <1>9, <1>10, <1>11,
     <1>12, <1>13, <1>14, <1>15, <1>16, <1>17, <1>18, <1>19, <1>20, <1>21,
     <1>22, <1>23, <1>24, <1>25, <1>26, <1>27, <1>28, <1>29, <1>30
  DEF Next, MainStep, WorkerStep, CallStep, StatusStep, DestroyStep

(* A step that leaves the queue alone.                                     *)
LEMMA QuietQueue ==
    ASSUME QueueOK, UNCHANGED <<accepted, started, task_queue>>,
           pool' = "alive" => pool = "alive"
    PROVE  QueueOK'
BY DEF QueueOK

(* addtask appends to the queue, a worker takes from its head, and destroy *)
(* frees it with the pool.                                                 *)
LEMMA QueueStep ==
    CoreInv /\ WakeInv /\ CreateOK /\ QueueOK /\ [Next]_vars => QueueOK'
<1> SUFFICES ASSUME CoreInv, WakeInv, CreateOK, QueueOK, [Next]_vars
             PROVE  QueueOK'
  OBVIOUS
<1> USE SizeType, ThreadsAssumption
    DEF CoreInv, WakeInv, TypeOK, Threads, Callers, memVars, queueVars, condVars,
        workVars, callVars, endVars, budget
<1>1. CASE CreateAlloc
  <2>1. /\ accepted = <<>> /\ task_queue = <<>>
        /\ UNCHANGED <<accepted, started, task_queue>>
    BY <1>1 DEF CreateAlloc, CreateOK, UnpublishedOK
  <2>2. started = <<>>
    BY <2>1, EmptySeq DEF QueueOK
  <2> QED
    BY <2>1, <2>2, ConcatEmptySeq DEF QueueOK
<1>2. CASE CreateThread
  BY <1>2, QuietQueue DEF CreateThread, MoreThreads, Workers
<1>3. CASE CreateReturns
  BY <1>3, QuietQueue DEF CreateReturns, MoreThreads, AllReady
<1>4. CASE CreateFails
  <2>1. pool' = "freed" /\ UNCHANGED <<accepted, started, task_queue>>
    BY <1>4 DEF CreateFails
  <2> QED
    BY <2>1, QuietQueue
<1>5. ASSUME NEW w \in Workers, WorkerStart(w) PROVE QueueOK'
  BY <1>5, QuietQueue DEF WorkerStart
<1>6. ASSUME NEW w \in Workers, WorkerReady(w) PROVE QueueOK'
  BY <1>6, QuietQueue DEF WorkerReady
<1>7. ASSUME NEW w \in Workers, WorkerStop(w) PROVE QueueOK'
  BY <1>7, QuietQueue DEF WorkerStop, RoundOver
<1>8. ASSUME NEW w \in Workers, WorkerSleep(w) PROVE QueueOK'
  BY <1>8, QuietQueue DEF WorkerSleep
<1>9. ASSUME NEW w \in Workers, WorkerTake(w) PROVE QueueOK'
  <2>1. /\ started' = Append(started, Head(task_queue))
        /\ task_queue' = Tail(task_queue) /\ task_queue # <<>>
        /\ accepted' = accepted /\ accepted = started \o task_queue
    BY <1>9 DEF WorkerTake, Rest, QueueOK
  <2>2. started \in Seq(Tasks) /\ task_queue \in Seq(Tasks)
    OBVIOUS
  <2>3. /\ accepted' = started' \o task_queue'
        /\ Len(started) + 1 <= Len(accepted)
        /\ accepted[Len(started) + 1] = Head(task_queue)
    BY ONLY <2>1, <2>2, MoveHead
  <2>4. /\ Len(started') = Len(started) + 1 /\ Len(started) \in Nat
        /\ started'[Len(started) + 1] = Head(task_queue)
        /\ \A i \in 1 .. Len(started) : started'[i] = started[i]
    BY <2>1, <2>2, AppendProperties, HeadTailProperties, LenProperties
  <2>5. \A i \in 1 .. Len(started) : started[i] = accepted[i]
    BY DEF QueueOK
  <2>6. \A i \in 1 .. Len(started') :
           i \in 1 .. Len(started) \/ i = Len(started) + 1
    BY <2>4
  <2> QED
    BY ONLY <2>1, <2>3, <2>4, <2>5, <2>6 DEF QueueOK
<1>10. ASSUME NEW w \in Workers, WorkerPass(w) PROVE QueueOK'
  BY <1>10, QuietQueue DEF WorkerPass
<1>11. ASSUME NEW w \in Workers, JobReturns(w) PROVE QueueOK'
  BY <1>11, QuietQueue DEF JobReturns
<1>12. ASSUME NEW w \in Workers, WorkerIdle(w) PROVE QueueOK'
  BY <1>12, QuietQueue DEF WorkerIdle
<1>13. ASSUME NEW w \in Workers, SpuriousWorker(w) PROVE QueueOK'
  BY <1>13, QuietQueue DEF SpuriousWorker
<1>14. ASSUME NEW t \in Callers, AddRefused(t) PROVE QueueOK'
  BY <1>14, QuietQueue DEF AddRefused, Resume
<1>15. ASSUME NEW t \in Callers, AddTask(t) PROVE QueueOK'
  <2>1. /\ accepted' = Append(accepted, arg[t]) /\ started' = started
        /\ task_queue' = Append(task_queue, arg[t]) /\ arg[t] \in Tasks
        /\ accepted = started \o task_queue
    BY <1>15 DEF AddTask, HandsOK, QueueOK
  <2>2. started \in Seq(Tasks) /\ task_queue \in Seq(Tasks)
        /\ accepted \in Seq(Tasks)
    OBVIOUS
  <2>3. accepted' = started \o task_queue'
    <3>1. PICK e \in Tasks : e = arg[t]
      BY <2>1
    <3>2. started \o Append(task_queue, e) = Append(started \o task_queue, e)
      BY ONLY <2>2, e \in Tasks, AppendToConcat
    <3> QED
      BY ONLY <2>1, <3>1, <3>2
  <2>4. /\ Len(accepted') = Len(accepted) + 1
        /\ \A i \in 1 .. Len(accepted) : accepted'[i] = accepted[i]
        /\ Len(started) \in Nat /\ Len(accepted) \in Nat
    BY <2>1, <2>2, AppendProperties, LenProperties
  <2>5. /\ Len(started) <= Len(accepted)
        /\ \A i \in 1 .. Len(started) : started[i] = accepted[i]
    BY DEF QueueOK
  <2> QED
    BY ONLY SMTT(30), <2>1, <2>3, <2>4, <2>5 DEF QueueOK
<1>16. ASSUME NEW t \in Callers, NEW k \in Tasks, AddCall(t, k) PROVE QueueOK'
  BY <1>16, QuietQueue DEF AddCall, MayCall
<1>17. ASSUME NEW c \in Clients, StatusCall(c) PROVE QueueOK'
  BY <1>17, QuietQueue DEF StatusCall, MayCall
<1>18. ASSUME NEW c \in Clients, StatusCount(c) PROVE QueueOK'
  BY <1>18, QuietQueue DEF StatusCount
<1>19. ASSUME NEW c \in Clients, StatusReturns(c) PROVE QueueOK'
  BY <1>19, QuietQueue DEF StatusReturns
<1>20. ASSUME NEW d \in Destroyers, DestroyCall(d) PROVE QueueOK'
  BY <1>20, QuietQueue DEF DestroyCall, MayCall
<1>21. ASSUME NEW d \in Destroyers, DestroyAgain(d) PROVE QueueOK'
  BY <1>21, QuietQueue DEF DestroyAgain
<1>22. ASSUME NEW d \in Destroyers, DestroySleep(d) PROVE QueueOK'
  BY <1>22, QuietQueue DEF DestroySleep, Draining
<1>23. ASSUME NEW d \in Destroyers, DestroyStop(d) PROVE QueueOK'
  BY <1>23, QuietQueue DEF DestroyStop, Draining
<1>24. ASSUME NEW d \in Destroyers, DestroyUnlock(d) PROVE QueueOK'
  BY <1>24, QuietQueue DEF DestroyUnlock
<1>25. ASSUME NEW d \in Destroyers, DestroyJoin(d) PROVE QueueOK'
  BY <1>25, QuietQueue DEF DestroyJoin
<1>26. ASSUME NEW d \in Destroyers, DestroyFree(d) PROVE QueueOK'
  <2>1. pool' = "freed" /\ UNCHANGED <<accepted, started>>
    BY <1>26 DEF DestroyFree
  <2> QED
    BY <2>1 DEF QueueOK
<1>27. ASSUME NEW d \in Destroyers, SpuriousDestroyer(d) PROVE QueueOK'
  BY <1>27, QuietQueue DEF SpuriousDestroyer
<1>28. ASSUME NEW t \in Threads, Acquire(t) PROVE QueueOK'
  BY <1>28, QuietQueue DEF Acquire, Entered
<1>29. ASSUME NEW t \in Threads, TouchFreed(t) PROVE QueueOK'
  BY <1>29, QuietQueue DEF TouchFreed, Touching
<1>30. CASE Terminated \/ UNCHANGED vars
  BY <1>30, QuietQueue DEF Terminated, vars
<1> QED
  BY <1>1, <1>2, <1>3, <1>4, <1>5, <1>6, <1>7, <1>8, <1>9, <1>10, <1>11,
     <1>12, <1>13, <1>14, <1>15, <1>16, <1>17, <1>18, <1>19, <1>20, <1>21,
     <1>22, <1>23, <1>24, <1>25, <1>26, <1>27, <1>28, <1>29, <1>30
  DEF Next, MainStep, WorkerStep, CallStep, StatusStep, DestroyStep

(* A step in which no task changes hands.                                  *)
LEMMA QuietHanded ==
    ASSUME HandedOK, UNCHANGED <<task, finished, started>>
    PROVE  HandedOK'
BY DEF HandedOK

(* The task a worker takes has not been started before.                    *)
LEMMA NewlyStarted ==
    ASSUME CoreInv, QueueOK, OfferedOK, NEW w \in Workers, WorkerTake(w)
    PROVE  /\ Head(task_queue) \in Tasks
           /\ started' = Append(started, Head(task_queue))
           /\ Len(started) \in Nat /\ Len(started') = Len(started) + 1
           /\ started'[Len(started) + 1] = Head(task_queue)
           /\ \A i \in 1 .. Len(started) : started'[i] = started[i]
           /\ \A i \in 1 .. Len(started) : started[i] # Head(task_queue)
           /\ \A i \in 1 .. Len(started') :
                 i \in 1 .. Len(started) \/ i = Len(started) + 1
<1>1. /\ started' = Append(started, Head(task_queue)) /\ task_queue # <<>>
      /\ accepted = started \o task_queue
  BY DEF WorkerTake, QueueOK
<1>2. started \in Seq(Tasks) /\ task_queue \in Seq(Tasks) /\ accepted \in Seq(Tasks)
  BY DEF CoreInv, TypeOK
<1>3. /\ Len(started) + 1 <= Len(accepted)
      /\ accepted[Len(started) + 1] = Head(task_queue)
  BY <1>1, <1>2, MoveHead
<1>4. /\ Head(task_queue) \in Tasks
      /\ Len(started') = Len(started) + 1 /\ Len(started) \in Nat
      /\ started'[Len(started) + 1] = Head(task_queue)
      /\ \A i \in 1 .. Len(started) : started'[i] = started[i]
      /\ Len(accepted) \in Nat /\ DOMAIN accepted = 1 .. Len(accepted)
  BY <1>1, <1>2, AppendProperties, HeadTailProperties, LenProperties
<1>5. \A i \in 1 .. Len(started) : started[i] # Head(task_queue)
  <2> SUFFICES ASSUME NEW i \in 1 .. Len(started)
               PROVE  started[i] # Head(task_queue)
    OBVIOUS
  <2>1. /\ i \in DOMAIN accepted /\ Len(started) + 1 \in DOMAIN accepted
        /\ i # Len(started) + 1
    BY <1>3, <1>4
  <2>2. accepted[i] # accepted[Len(started) + 1]
    BY <2>1 DEF OfferedOK
  <2>3. started[i] = accepted[i]
    BY DEF QueueOK
  <2> QED
    BY <1>3, <2>2, <2>3
<1>6. \A i \in 1 .. Len(started') :
         i \in 1 .. Len(started) \/ i = Len(started) + 1
  BY <1>4
<1> QED
  BY <1>1, <1>4, <1>5, <1>6

(* A task goes from the queue into one worker's hands, and from there to   *)
(* those that are finished.                                                *)
LEMMA HandedStep ==
    CoreInv /\ WakeInv /\ WorkersOK /\ OfferedOK /\ QueueOK /\ HandedOK /\ [Next]_vars => HandedOK'
<1> SUFFICES ASSUME CoreInv, WakeInv, WorkersOK, OfferedOK, QueueOK, HandedOK, [Next]_vars
             PROVE  HandedOK'
  OBVIOUS
<1> USE SizeType, ThreadsAssumption
    DEF CoreInv, WakeInv, TypeOK, Threads, Callers, memVars, queueVars, condVars,
        workVars, callVars, endVars, budget
<1>1. CASE CreateAlloc
  BY <1>1, QuietHanded DEF CreateAlloc
<1>2. CASE CreateThread
  BY <1>2, QuietHanded DEF CreateThread, MoreThreads, Workers
<1>3. CASE CreateReturns
  BY <1>3, QuietHanded DEF CreateReturns, MoreThreads, AllReady
<1>4. CASE CreateFails
  BY <1>4, QuietHanded DEF CreateFails
<1>5. ASSUME NEW w \in Workers, WorkerStart(w) PROVE HandedOK'
  BY <1>5, QuietHanded DEF WorkerStart
<1>6. ASSUME NEW w \in Workers, WorkerReady(w) PROVE HandedOK'
  BY <1>6, QuietHanded DEF WorkerReady
<1>7. ASSUME NEW w \in Workers, WorkerStop(w) PROVE HandedOK'
  BY <1>7, QuietHanded DEF WorkerStop, RoundOver
<1>8. ASSUME NEW w \in Workers, WorkerSleep(w) PROVE HandedOK'
  BY <1>8, QuietHanded DEF WorkerSleep
<1>9. ASSUME NEW w \in Workers, WorkerTake(w) PROVE HandedOK'
  <2> DEFINE k == Head(task_queue)
  <2>1. /\ k \in Tasks /\ Len(started) \in Nat /\ Len(started') = Len(started) + 1
        /\ started'[Len(started) + 1] = k
        /\ \A i \in 1 .. Len(started) : started'[i] = started[i]
        /\ \A i \in 1 .. Len(started) : started[i] # k
        /\ \A i \in 1 .. Len(started') :
              i \in 1 .. Len(started) \/ i = Len(started) + 1
    BY <1>9, NewlyStarted
  <2>2. task' = [task EXCEPT ![w] = k] /\ finished' = finished
    BY <1>9 DEF WorkerTake
  <2>3. task[w] = NoTask /\ k # NoTask
    BY <1>9, <2>1 DEF WorkerTake, WorkersOK, JobPlaces
  <2> HIDE DEF k
  <2>4. /\ task'[w] = k /\ (\A v \in Workers : v # w => task'[v] = task[v])
        /\ (\A v \in Workers : task[v] # k)
        /\ k \notin finished
    <3>1. task'[w] = k /\ \A v \in Workers : v # w => task'[v] = task[v]
      BY <2>2
    <3>2. \A v \in Workers : task[v] # NoTask =>
             \E i \in 1 .. Len(started) : started[i] = task[v]
      BY DEF HandedOK
    <3>3. \A j \in finished : \E i \in 1 .. Len(started) : started[i] = j
      BY DEF HandedOK
    <3> QED
      BY ONLY <2>1, <2>3, <3>1, <3>2, <3>3
  <2>5. \A i \in 1 .. Len(started) : i \in 1 .. Len(started')
        /\ Len(started) + 1 \in 1 .. Len(started')
    BY <2>1
  <2>6. ASSUME NEW v \in Workers, task'[v] # NoTask
        PROVE  /\ task'[v] \notin finished'
               /\ \E i \in 1 .. Len(started') : started'[i] = task'[v]
    <3>1. CASE v = w
      BY <2>1, <2>2, <2>4, <3>1
    <3>2. CASE v # w
      <4>1. task'[v] = task[v]
        BY <2>4, <3>2
      <4>2. PICK i \in 1 .. Len(started) : started[i] = task[v]
        BY <2>6, <4>1 DEF HandedOK
      <4>3. task[v] \notin finished
        BY <2>6, <4>1 DEF HandedOK
      <4> QED
        BY <2>1, <2>2, <2>5, <4>1, <4>2, <4>3
    <3> QED
      BY <3>1, <3>2
  <2>7. \A u, v \in Workers : task'[u] = task'[v] /\ task'[u] # NoTask => u = v
    <3>1. \A u, v \in Workers : task[u] = task[v] /\ task[u] # NoTask => u = v
      BY DEF HandedOK
    <3> QED
      BY ONLY <2>4, <3>1
  <2>8. \A j \in finished' : \E i \in 1 .. Len(started') : started'[i] = j
    BY <2>1, <2>2, <2>5 DEF HandedOK
  <2>9. ASSUME NEW i \in 1 .. Len(started')
        PROVE  \/ started'[i] \in finished'
               \/ \E v \in Workers : task'[v] = started'[i]
    <3>1. CASE i = Len(started) + 1
      BY <2>1, <2>4, <3>1
    <3>2. CASE i \in 1 .. Len(started)
      <4>1. started'[i] = started[i] /\ started[i] \in Tasks
        BY <2>1, <3>2
      <4>2. CASE started[i] \in finished
        BY <2>2, <4>1, <4>2
      <4>3. CASE \E v \in Workers : task[v] = started[i]
        <5>1. PICK v \in Workers : task[v] = started[i]
          BY <4>3
        <5>2. task'[v] = task[v]
          BY <2>3, <2>4, <4>1, <5>1
        <5> QED
          BY <4>1, <5>1, <5>2
      <4> QED
        BY <3>2, <4>2, <4>3 DEF HandedOK
    <3> QED
      BY <2>1, <3>1, <3>2
  <2> QED
    BY <2>6, <2>7, <2>8, <2>9 DEF HandedOK
<1>10. ASSUME NEW w \in Workers, WorkerPass(w) PROVE HandedOK'
  BY <1>10, QuietHanded DEF WorkerPass
<1>11. ASSUME NEW w \in Workers, JobReturns(w) PROVE HandedOK'
  <2>1. /\ task' = [task EXCEPT ![w] = NoTask] /\ started' = started
        /\ finished' = finished \cup {task[w]} /\ task[w] \in Tasks
    BY <1>11 DEF JobReturns, HandsOK
  <2>2. /\ task'[w] = NoTask /\ \A v \in Workers : v # w => task'[v] = task[v]
        /\ task[w] # NoTask
        /\ \A v \in Workers : v # w => task[v] # task[w]
    BY <2>1 DEF HandedOK
  <2>3. /\ \A v \in Workers : task'[v] # NoTask =>
              v # w /\ task'[v] = task[v] /\ task'[v] \notin finished'
        /\ \A u, v \in Workers : task'[u] = task'[v] /\ task'[u] # NoTask => u = v
    BY <2>1, <2>2 DEF HandedOK
  <2>4. /\ \A v \in Workers : task'[v] # NoTask =>
              \E i \in 1 .. Len(started') : started'[i] = task'[v]
        /\ \A j \in finished' : \E i \in 1 .. Len(started') : started'[i] = j
    BY <2>1, <2>2, <2>3 DEF HandedOK
  <2>5. \A i \in 1 .. Len(started') :
           started'[i] \in finished' \/ \E v \in Workers : task'[v] = started'[i]
    BY <2>1, <2>2 DEF HandedOK
  <2> QED
    BY <2>3, <2>4, <2>5 DEF HandedOK
<1>12. ASSUME NEW w \in Workers, WorkerIdle(w) PROVE HandedOK'
  BY <1>12, QuietHanded DEF WorkerIdle
<1>13. ASSUME NEW w \in Workers, SpuriousWorker(w) PROVE HandedOK'
  BY <1>13, QuietHanded DEF SpuriousWorker
<1>14. ASSUME NEW t \in Callers, AddRefused(t) PROVE HandedOK'
  BY <1>14, QuietHanded DEF AddRefused, Resume
<1>15. ASSUME NEW t \in Callers, AddTask(t) PROVE HandedOK'
  BY <1>15, QuietHanded DEF AddTask, AddWakes, OneOf, Resume
<1>16. ASSUME NEW t \in Callers, NEW k \in Tasks, AddCall(t, k) PROVE HandedOK'
  BY <1>16, QuietHanded DEF AddCall, MayCall
<1>17. ASSUME NEW c \in Clients, StatusCall(c) PROVE HandedOK'
  BY <1>17, QuietHanded DEF StatusCall, MayCall
<1>18. ASSUME NEW c \in Clients, StatusCount(c) PROVE HandedOK'
  BY <1>18, QuietHanded DEF StatusCount
<1>19. ASSUME NEW c \in Clients, StatusReturns(c) PROVE HandedOK'
  BY <1>19, QuietHanded DEF StatusReturns
<1>20. ASSUME NEW d \in Destroyers, DestroyCall(d) PROVE HandedOK'
  BY <1>20, QuietHanded DEF DestroyCall, MayCall
<1>21. ASSUME NEW d \in Destroyers, DestroyAgain(d) PROVE HandedOK'
  BY <1>21, QuietHanded DEF DestroyAgain
<1>22. ASSUME NEW d \in Destroyers, DestroySleep(d) PROVE HandedOK'
  BY <1>22, QuietHanded DEF DestroySleep, Draining
<1>23. ASSUME NEW d \in Destroyers, DestroyStop(d) PROVE HandedOK'
  BY <1>23, QuietHanded DEF DestroyStop, Draining
<1>24. ASSUME NEW d \in Destroyers, DestroyUnlock(d) PROVE HandedOK'
  BY <1>24, QuietHanded DEF DestroyUnlock
<1>25. ASSUME NEW d \in Destroyers, DestroyJoin(d) PROVE HandedOK'
  BY <1>25, QuietHanded DEF DestroyJoin
<1>26. ASSUME NEW d \in Destroyers, DestroyFree(d) PROVE HandedOK'
  BY <1>26, QuietHanded DEF DestroyFree
<1>27. ASSUME NEW d \in Destroyers, SpuriousDestroyer(d) PROVE HandedOK'
  BY <1>27, QuietHanded DEF SpuriousDestroyer
<1>28. ASSUME NEW t \in Threads, Acquire(t) PROVE HandedOK'
  BY <1>28, QuietHanded DEF Acquire, Entered
<1>29. ASSUME NEW t \in Threads, TouchFreed(t) PROVE HandedOK'
  BY <1>29, QuietHanded DEF TouchFreed, Touching
<1>30. CASE Terminated \/ UNCHANGED vars
  BY <1>30, QuietHanded DEF Terminated, vars
<1> QED
  BY <1>1, <1>2, <1>3, <1>4, <1>5, <1>6, <1>7, <1>8, <1>9, <1>10, <1>11,
     <1>12, <1>13, <1>14, <1>15, <1>16, <1>17, <1>18, <1>19, <1>20, <1>21,
     <1>22, <1>23, <1>24, <1>25, <1>26, <1>27, <1>28, <1>29, <1>30
  DEF Next, MainStep, WorkerStep, CallStep, StatusStep, DestroyStep

(* Tasks that are still to be started, or are in hand, when all workers    *)
(* have ended and the queue is empty: none.                                *)
LEMMA AllFinished ==
    ASSUME CoreInv, WorkersOK, QueueOK, HandedOK,
           pool = "alive", task_queue = <<>>,
           \A w \in Workers : pc[w] = "exited"
    PROVE  finished = TaskSet(accepted)
<1>1. started \in Seq(Tasks) /\ finished \in SUBSET Tasks
  BY DEF CoreInv, TypeOK
<1>2. accepted = started
  BY <1>1, ConcatEmptySeq DEF QueueOK
<1>3. \A w \in Workers : task[w] = NoTask
  BY DEF WorkersOK, JobPlaces
<1>4. /\ DOMAIN started = 1 .. Len(started)
      /\ \A i \in 1 .. Len(started) : started[i] \in Tasks
  BY <1>1, LenProperties, ElementOfSeq
<1>5. \A i \in 1 .. Len(started) : started[i] \in finished
  BY <1>3, <1>4, ThreadsAssumption DEF HandedOK
<1>6. \A k \in finished : \E i \in 1 .. Len(started) : started[i] = k
  BY SMTT(30) DEF HandedOK
<1> QED
  BY <1>2, <1>4, <1>5, <1>6 DEF TaskSet

(* An owner that calls destroy last, and once, finds no other user of the  *)
(* pool, and leaves none behind.                                           *)
LEMMA OwnerStep ==
    CoreInv /\ WakeInv /\ CreateOK /\ WorkersOK /\ JoinOK /\ QueueOK /\ HandedOK /\ OwnerOK /\ [Next]_vars => OwnerOK'
<1> SUFFICES ASSUME CoreInv, WakeInv, CreateOK, WorkersOK, JoinOK, QueueOK, HandedOK, OwnerOK, [Next]_vars
             PROVE  OwnerOK'
  OBVIOUS
<1> USE SizeType, ThreadsAssumption
    DEF CoreInv, WakeInv, TypeOK, Threads, Callers, memVars, queueVars, condVars,
        workVars, callVars, endVars, budget,
        CreateOK, OwnerOK, Entering, Inside, Outside
<1>1. CASE CreateAlloc
  BY <1>1 DEF CreateAlloc
<1>2. CASE CreateThread
  BY <1>2 DEF CreateThread, MoreThreads, Workers
<1>3. CASE CreateReturns
  BY <1>3 DEF CreateReturns, MoreThreads, AllReady
<1>4. CASE CreateFails
  <2>1. /\ pc[Main] \in {"alloc", "spawn"}
        /\ pc' = [pc EXCEPT ![Main] = "failed"] /\ UNCHANGED <<stop, uaf>>
    BY <1>4 DEF CreateFails
  <2>2. /\ \A d \in Destroyers : pc[d] = "idle" /\ pc'[d] = "idle"
        /\ pc'[Main] = "failed"
    BY <2>1
  <2>3. ~Racing => ~stop /\ ~uaf
    BY <2>1, <2>2
  <2> QED
    BY <2>1, <2>2, <2>3
<1>5. ASSUME NEW w \in Workers, WorkerStart(w) PROVE OwnerOK'
  BY <1>5 DEF WorkerStart
<1>6. ASSUME NEW w \in Workers, WorkerReady(w) PROVE OwnerOK'
  BY <1>6 DEF WorkerReady
<1>7. ASSUME NEW w \in Workers, WorkerStop(w) PROVE OwnerOK'
  BY <1>7 DEF WorkerStop, RoundOver
<1>8. ASSUME NEW w \in Workers, WorkerSleep(w) PROVE OwnerOK'
  BY <1>8 DEF WorkerSleep
<1>9. ASSUME NEW w \in Workers, WorkerTake(w) PROVE OwnerOK'
  <2>1. /\ \A d \in Destroyers :
              \/ pc'[d] = pc[d]
              \/ pc[d] = "drainWaiting" /\ pc'[d] = "drainWoken"
        /\ \A c \in Clients : pc'[c] = pc[c]
        /\ pc'[Main] = pc[Main]
    BY <1>9 DEF WorkerTake, DrainWakes, OneOf, SleepersOK
  <2>2. /\ task_queue # <<>> /\ pool = "alive"
        /\ UNCHANGED <<pool, stop, finish, finished, accepted, uaf, tid>>
    BY <1>9 DEF WorkerTake
  <2>3. TaskSet(accepted)' = TaskSet(accepted)
    BY <2>2 DEF TaskSet
  <2>11. ASSUME ~Racing, NEW x \in Destroyers, NEW e \in Destroyers,
                pc'[x] # "idle", pc'[e] # "idle"
         PROVE  x = e
    <3>1. pc[x] # "idle" /\ pc[e] # "idle"
      BY <2>1, <2>11
    <3> QED
      BY <2>11, <3>1
  <2>12. ASSUME ~Racing, NEW x \in Destroyers, pc'[x] # "idle"
         PROVE  /\ \A c \in Clients : pc'[c] = "idle"
                /\ stop' <=> pc'[x] \in {"stopping", "join", "done"}
                /\ pool' = "freed" <=> pc'[x] = "done"
    <3>1. pc[x] # "idle"
      BY <2>1, <2>12
    <3>2. \A c \in Clients : pc[c] = "idle"
      BY <2>12, <3>1
    <3>3. stop <=> pc[x] \in {"stopping", "join", "done"}
      BY <2>12, <3>1
    <3>4. pool = "freed" <=> pc[x] = "done"
      BY <2>12, <3>1
    <3>5. \A c \in Clients : pc'[c] = "idle"
      BY <2>1, <3>2
    <3>6. stop' <=> pc'[x] \in {"stopping", "join", "done"}
      BY <2>1, <2>2, <3>3
    <3>7. pool' = "freed" <=> pc'[x] = "done"
      BY <2>1, <2>2, <3>4
    <3> QED
      BY ONLY <3>5, <3>6, <3>7
  <2>13. ASSUME ~Racing, NEW x \in Destroyers, pc'[x] # "idle"
         PROVE  /\ pc'[x] \in {"stopping", "join"} /\ finish'[x] => task_queue' = <<>>
                /\ pc'[x] = "done" /\ finish'[x] => finished' = TaskSet(accepted)'
    BY <2>13, <2>1, <2>2, <2>3
  <2>14. ASSUME ~Racing, stop' \/ (pc'[Main] = "returned" /\ pool' = "freed")
         PROVE  \E x \in Destroyers : pc'[x] # "idle"
    BY <2>14, <2>1, <2>2, <2>3
  <2>15. ~Racing /\ uaf' => pc'[Main] = "failed" /\ tid' > 0
    BY <2>1, <2>2, <2>3
  <2> QED
    BY <2>11, <2>12, <2>13, <2>14, <2>15
<1>10. ASSUME NEW w \in Workers, WorkerPass(w) PROVE OwnerOK'
  BY <1>10 DEF WorkerPass
<1>11. ASSUME NEW w \in Workers, JobReturns(w) PROVE OwnerOK'
  <2>1. ~(pc[Main] = "returned" /\ pool = "freed")
    BY <1>11 DEF JobReturns, WorkersOK
  <2> QED
    BY <1>11, <2>1 DEF JobReturns
<1>12. ASSUME NEW w \in Workers, WorkerIdle(w) PROVE OwnerOK'
  BY <1>12 DEF WorkerIdle
<1>13. ASSUME NEW w \in Workers, SpuriousWorker(w) PROVE OwnerOK'
  BY <1>13 DEF SpuriousWorker
<1>14. ASSUME NEW t \in Callers, AddRefused(t) PROVE OwnerOK'
  BY <1>14 DEF AddRefused, Resume
<1>15. ASSUME NEW t \in Callers, AddTask(t) PROVE OwnerOK'
  BY SMTT(30), <1>15 DEF AddTask, AddWakes, OneOf, Resume, SleepersOK
<1>16. ASSUME NEW t \in Callers, NEW k \in Tasks, AddCall(t, k) PROVE OwnerOK'
  BY <1>16 DEF AddCall, MayCall
<1>17. ASSUME NEW c \in Clients, StatusCall(c) PROVE OwnerOK'
  BY <1>17 DEF StatusCall, MayCall
<1>18. ASSUME NEW c \in Clients, StatusCount(c) PROVE OwnerOK'
  BY <1>18 DEF StatusCount
<1>19. ASSUME NEW c \in Clients, StatusReturns(c) PROVE OwnerOK'
  BY <1>19 DEF StatusReturns
<1>20. ASSUME NEW d \in Destroyers, DestroyCall(d) PROVE OwnerOK'
  BY <1>20 DEF DestroyCall, MayCall
<1>21. ASSUME NEW d \in Destroyers, DestroyAgain(d) PROVE OwnerOK'
  BY <1>21 DEF DestroyAgain
<1>22. ASSUME NEW d \in Destroyers, DestroySleep(d) PROVE OwnerOK'
  BY <1>22 DEF DestroySleep, Draining
<1>23. ASSUME NEW d \in Destroyers, DestroyStop(d) PROVE OwnerOK'
  <2>1. /\ pc[d] \in {"destroying", "draining"} /\ pool = "alive"
        /\ finish[d] => task_queue = <<>>
        /\ stop' = TRUE
        /\ UNCHANGED <<pool, finish, finished, accepted, uaf, tid, task_queue>>
    BY <1>23 DEF DestroyStop, Draining, MustWait
  <2>2. /\ pc'[d] = "stopping" /\ pc'[Main] = pc[Main]
        /\ \A e \in Destroyers : e # d => pc'[e] = pc[e]
        /\ \A c \in Clients : pc'[c] = pc[c]
    BY <1>23, <2>1 DEF DestroyStop, SleepersOK
  <2>4. TaskSet(accepted)' = TaskSet(accepted)
    BY <2>1 DEF TaskSet
  <2>3. ~Racing => \A e \in Destroyers : e # d => pc[e] = "idle"
    BY <2>1
  <2>11. ASSUME ~Racing, NEW x \in Destroyers, NEW e \in Destroyers,
                pc'[x] # "idle", pc'[e] # "idle"
         PROVE  x = e
    BY <2>11, <2>1, <2>2, <2>3, <2>4
  <2>12. ASSUME ~Racing, NEW x \in Destroyers, pc'[x] # "idle"
         PROVE  /\ \A c \in Clients : pc'[c] = "idle"
                /\ stop' <=> pc'[x] \in {"stopping", "join", "done"}
                /\ pool' = "freed" <=> pc'[x] = "done"
    <3>1. x = d
      BY <2>2, <2>3, <2>12
    <3>2. \A c \in Clients : pc[c] = "idle"
      BY <2>1, <2>12
    <3>3. \A c \in Clients : pc'[c] = "idle"
      BY <2>2, <3>2
    <3>4. pool' # "freed" /\ stop' /\ pc'[x] = "stopping"
      BY <2>1, <2>2, <3>1
    <3> QED
      BY ONLY <3>3, <3>4
  <2>13. ASSUME ~Racing, NEW x \in Destroyers, pc'[x] # "idle"
         PROVE  /\ pc'[x] \in {"stopping", "join"} /\ finish'[x] => task_queue' = <<>>
                /\ pc'[x] = "done" /\ finish'[x] => finished' = TaskSet(accepted)'
    BY <2>13, <2>1, <2>2, <2>3, <2>4
  <2>14. ASSUME ~Racing, stop' \/ (pc'[Main] = "returned" /\ pool' = "freed")
         PROVE  \E x \in Destroyers : pc'[x] # "idle"
    BY <2>14, <2>1, <2>2, <2>3, <2>4
  <2>15. ~Racing /\ uaf' => pc'[Main] = "failed" /\ tid' > 0
    BY <2>1, <2>2, <2>3, <2>4
  <2> QED
    BY <2>11, <2>12, <2>13, <2>14, <2>15
<1>24. ASSUME NEW d \in Destroyers, DestroyUnlock(d) PROVE OwnerOK'
  BY <1>24 DEF DestroyUnlock
<1>25. ASSUME NEW d \in Destroyers, DestroyJoin(d) PROVE OwnerOK'
  BY <1>25 DEF DestroyJoin
<1>26. ASSUME NEW d \in Destroyers, DestroyFree(d) PROVE OwnerOK'
  <2>1. /\ pc[d] = "join" /\ pool = "alive" /\ pool' = "freed"
        /\ pc' = [pc EXCEPT ![d] = "done"]
        /\ UNCHANGED <<uaf, stop, finish, finished, accepted, tid>>
    BY <1>26 DEF DestroyFree
  <2>2. \A w \in Workers : pc[w] = "exited"
    BY <1>26 DEF DestroyFree, JoinOK, Workers
  <2>3. ~Racing /\ finish[d] => finished = TaskSet(accepted)
    BY <2>1, <2>2, AllFinished
  <2>4. pc'[Main] = pc[Main] /\ pc'[d] = "done"
        /\ \A u \in Threads : u # d => pc'[u] = pc[u]
    BY <2>1
  <2>5. TaskSet(accepted)' = TaskSet(accepted)
    BY <2>1 DEF TaskSet
  <2> QED
    BY <2>1, <2>3, <2>4, <2>5
<1>27. ASSUME NEW d \in Destroyers, SpuriousDestroyer(d) PROVE OwnerOK'
  BY <1>27 DEF SpuriousDestroyer, SleepersOK
<1>28. ASSUME NEW t \in Threads, Acquire(t) PROVE OwnerOK'
  BY ZenonT(40), <1>28 DEF Acquire, Entered
<1>29. ASSUME NEW t \in Threads, TouchFreed(t) PROVE OwnerOK'
  <2>1. CASE Racing
    BY <2>1
  <2>2. CASE ~Racing
    <3>1. pc[Main] # "returned"
      <4> SUFFICES ASSUME pc[Main] = "returned" PROVE FALSE
        OBVIOUS
      <4>1. \A w \in Workers : pc[w] # "start"
        BY DEF WorkersOK, IdlePlaces, BusyPlaces, JobPlaces
      <4>2. t # Main /\ pc[t] \notin {"exited", "idle", "done"}
        BY <1>29 DEF TouchFreed, Touching
      <4>3. CASE pool = "freed"
        <5>1. t \notin Workers
          BY <4>2, <4>3 DEF WorkersOK
        <5>2. PICK d \in Destroyers : pc[d] # "idle"
          BY <2>2, <4>3
        <5>3. pc[d] = "done" /\ \A c \in Clients : pc[c] = "idle"
          BY <2>2, <4>3, <5>2
        <5>4. \A e \in Destroyers : pc[e] \in {"idle", "done"}
          BY <2>2, <5>2, <5>3
        <5>5. t \in Clients \cup Destroyers
          BY <4>2, <5>1
        <5>6. CASE t \in Clients
          BY ONLY <4>2, <5>3, <5>6
        <5>7. CASE t \in Destroyers
          BY ONLY <4>2, <5>4, <5>7
        <5> QED
          BY <5>5, <5>6, <5>7, Zenon
      <4>4. CASE tp_channel = "freed" /\ pc[t] = "start"
        BY <4>1, <4>2, <4>4
      <4> QED
        BY <1>29, <4>3, <4>4 DEF TouchFreed
    <3>2. \A u \in Clients \cup Destroyers : pc[u] = "idle"
      BY <3>1
    <3>3. t \in Workers /\ pc[t] # "none" /\ pc[Main] = "failed"
      BY <1>29, <3>1, <3>2 DEF TouchFreed, Touching
    <3>4. tid > 0
      BY <3>3 DEF SpawnOK, Workers
    <3>5. /\ \A d \in Destroyers : pc'[d] = "idle"
          /\ pc'[Main] = "failed" /\ tid' = tid /\ stop' = stop
      BY <1>29, <3>2, <3>3 DEF TouchFreed
    <3> QED
      BY <2>2, <3>2, <3>4, <3>5
  <2> QED
    BY <2>1, <2>2
<1>30. CASE Terminated \/ UNCHANGED vars
  BY <1>30 DEF Terminated, vars, budget
<1> QED
  BY Zenon, <1>1, <1>2, <1>3, <1>4, <1>5, <1>6, <1>7, <1>8, <1>9, <1>10, <1>11,
     <1>12, <1>13, <1>14, <1>15, <1>16, <1>17, <1>18, <1>19, <1>20, <1>21,
     <1>22, <1>23, <1>24, <1>25, <1>26, <1>27, <1>28, <1>29, <1>30
  DEF Next, MainStep, WorkerStep, CallStep, StatusStep, DestroyStep

(* stop lets one destroyer through, unless some of them drain.             *)
LEMMA TeardownStep ==
    CoreInv /\ CreateOK /\ JoinOK /\ TeardownOK /\ [Next]_vars => TeardownOK'
<1> SUFFICES ASSUME CoreInv, CreateOK, JoinOK, TeardownOK, [Next]_vars
             PROVE  TeardownOK'
  OBVIOUS
<1> USE SizeType, ThreadsAssumption
    DEF CoreInv, WakeInv, TypeOK, Threads, Callers, memVars, queueVars, condVars,
        workVars, callVars, endVars, budget,
        CreateOK, JoinOK, TeardownOK, SleepersOK, Entering, Inside, Outside
<1>1. CASE CreateAlloc
  BY <1>1 DEF CreateAlloc
<1>2. CASE CreateThread
  BY <1>2 DEF CreateThread, MoreThreads, Workers
<1>3. CASE CreateReturns
  BY <1>3 DEF CreateReturns, MoreThreads, AllReady
<1>4. CASE CreateFails
  BY <1>4 DEF CreateFails
<1>5. ASSUME NEW w \in Workers, WorkerStart(w) PROVE TeardownOK'
  BY <1>5 DEF WorkerStart
<1>6. ASSUME NEW w \in Workers, WorkerReady(w) PROVE TeardownOK'
  BY <1>6 DEF WorkerReady
<1>7. ASSUME NEW w \in Workers, WorkerStop(w) PROVE TeardownOK'
  BY <1>7 DEF WorkerStop, RoundOver
<1>8. ASSUME NEW w \in Workers, WorkerSleep(w) PROVE TeardownOK'
  BY <1>8 DEF WorkerSleep
<1>9. ASSUME NEW w \in Workers, WorkerTake(w) PROVE TeardownOK'
  BY SMTT(30), <1>9 DEF WorkerTake, Rest, DrainWakes, OneOf
<1>10. ASSUME NEW w \in Workers, WorkerPass(w) PROVE TeardownOK'
  BY <1>10 DEF WorkerPass
<1>11. ASSUME NEW w \in Workers, JobReturns(w) PROVE TeardownOK'
  BY <1>11 DEF JobReturns
<1>12. ASSUME NEW w \in Workers, WorkerIdle(w) PROVE TeardownOK'
  BY <1>12 DEF WorkerIdle
<1>13. ASSUME NEW w \in Workers, SpuriousWorker(w) PROVE TeardownOK'
  BY <1>13 DEF SpuriousWorker
<1>14. ASSUME NEW t \in Callers, AddRefused(t) PROVE TeardownOK'
  BY <1>14 DEF AddRefused, Resume
<1>15. ASSUME NEW t \in Callers, AddTask(t) PROVE TeardownOK'
  BY <1>15 DEF AddTask, AddWakes, OneOf, Resume
<1>16. ASSUME NEW t \in Callers, NEW k \in Tasks, AddCall(t, k) PROVE TeardownOK'
  BY <1>16 DEF AddCall, MayCall
<1>17. ASSUME NEW c \in Clients, StatusCall(c) PROVE TeardownOK'
  BY <1>17 DEF StatusCall, MayCall
<1>18. ASSUME NEW c \in Clients, StatusCount(c) PROVE TeardownOK'
  BY <1>18 DEF StatusCount
<1>19. ASSUME NEW c \in Clients, StatusReturns(c) PROVE TeardownOK'
  BY <1>19 DEF StatusReturns
<1>20. ASSUME NEW d \in Destroyers, DestroyCall(d) PROVE TeardownOK'
  BY <1>20 DEF DestroyCall, MayCall
<1>21. ASSUME NEW d \in Destroyers, DestroyAgain(d) PROVE TeardownOK'
  BY <1>21 DEF DestroyAgain
<1>22. ASSUME NEW d \in Destroyers, DestroySleep(d) PROVE TeardownOK'
  BY <1>22 DEF DestroySleep, Draining, MustWait
<1>23. ASSUME NEW d \in Destroyers, DestroyStop(d) PROVE TeardownOK'
  BY <1>23 DEF DestroyStop, Draining
<1>24. ASSUME NEW d \in Destroyers, DestroyUnlock(d) PROVE TeardownOK'
  BY <1>24 DEF DestroyUnlock
<1>25. ASSUME NEW d \in Destroyers, DestroyJoin(d) PROVE TeardownOK'
  BY <1>25 DEF DestroyJoin
<1>26. ASSUME NEW d \in Destroyers, DestroyFree(d) PROVE TeardownOK'
  BY <1>26 DEF DestroyFree
<1>27. ASSUME NEW d \in Destroyers, SpuriousDestroyer(d) PROVE TeardownOK'
  BY <1>27 DEF SpuriousDestroyer
<1>28. ASSUME NEW t \in Threads, Acquire(t) PROVE TeardownOK'
  BY <1>28 DEF Acquire, Entered
<1>29. ASSUME NEW t \in Threads, TouchFreed(t) PROVE TeardownOK'
  BY <1>29 DEF TouchFreed, Touching
<1>30. CASE Terminated \/ UNCHANGED vars
  BY <1>30 DEF Terminated, vars, budget
<1> QED
  BY <1>1, <1>2, <1>3, <1>4, <1>5, <1>6, <1>7, <1>8, <1>9, <1>10, <1>11,
     <1>12, <1>13, <1>14, <1>15, <1>16, <1>17, <1>18, <1>19, <1>20, <1>21,
     <1>22, <1>23, <1>24, <1>25, <1>26, <1>27, <1>28, <1>29, <1>30
  DEF Next, MainStep, WorkerStep, CallStep, StatusStep, DestroyStep

(* Between the count of a status call and its return no worker takes a     *)
(* task or gives one back: both need the mutex that the call holds.        *)
LEMMA StatusStepExact ==
    CoreInv /\ CreateOK /\ WorkersOK /\ StatusExact /\ [Next]_vars => StatusExact'
<1> SUFFICES ASSUME CoreInv, CreateOK, WorkersOK, StatusExact, [Next]_vars,
                    NEW c \in Clients, pc'[c] = "counted"
             PROVE  idle_num'[c] = Cardinality({w \in Workers : pc'[w] \in IdlePlaces})
  BY DEF StatusExact, IdlePlaces
<1> DEFINE Quiet == /\ pc[c] = "counted" /\ idle_num'[c] = idle_num[c]
                    /\ \A w \in Workers : pc'[w] \in IdlePlaces <=> pc[w] \in IdlePlaces
<1>0. ASSUME pc[c] = "counted"
      PROVE  /\ mutex = c /\ pc[Main] = "returned"
             /\ \A w \in Workers :
                   /\ pc[w] \in {"lock", "woken", "waiting", "exited", "job",
                                 "add", "finish"}
                   /\ pool = "freed" => pc[w] = "exited"
                   /\ w # c
  <2>1. mutex = c /\ pc[Main] = "returned"
    BY <1>0 DEF CoreInv, MutexHeld, Inside, CreateOK, Threads, Callers
  <2>2. ASSUME NEW w \in Workers PROVE w # c /\ pc[w] \notin Inside
    BY <2>1, ThreadsAssumption DEF CoreInv, MutexHeld, Threads, Callers
  <2> QED
    BY <2>1, <2>2 DEF WorkersOK, IdlePlaces, BusyPlaces, JobPlaces, Inside
<1>31. ASSUME Quiet PROVE idle_num'[c] = Cardinality({w \in Workers : pc'[w] \in IdlePlaces})
  <2>1. {w \in Workers : pc'[w] \in IdlePlaces} = {w \in Workers : pc[w] \in IdlePlaces}
    BY <1>31
  <2>2. idle_num[c] = Cardinality({w \in Workers : pc[w] \in IdlePlaces})
    BY <1>31 DEF StatusExact, IdlePlaces
  <2> QED
    BY <1>31, <2>1, <2>2
<1> USE <1>0, ThreadsAssumption
    DEF CoreInv, TypeOK, Threads, Callers, callVars, IdlePlaces, SleepersOK,
        memVars, queueVars, condVars, workVars, endVars, budget
<1>1. ASSUME CreateAlloc PROVE Quiet
  BY <1>1 DEF CreateAlloc
<1>2. ASSUME CreateThread PROVE Quiet
  BY <1>2 DEF CreateThread
<1>3. ASSUME CreateReturns PROVE Quiet
  BY <1>3 DEF CreateReturns
<1>4. ASSUME CreateFails PROVE Quiet
  BY <1>4 DEF CreateFails
<1>5. ASSUME NEW w \in Workers, WorkerStart(w) PROVE Quiet
  BY <1>5 DEF WorkerStart
<1>6. ASSUME NEW w \in Workers, WorkerReady(w) PROVE Quiet
  BY <1>6 DEF WorkerReady
<1>7. ASSUME NEW w \in Workers, WorkerStop(w) PROVE Quiet
  BY <1>7 DEF WorkerStop
<1>8. ASSUME NEW w \in Workers, WorkerSleep(w) PROVE Quiet
  BY <1>8 DEF WorkerSleep
<1>9. ASSUME NEW w \in Workers, WorkerTake(w) PROVE Quiet
  <2>1. pc[w] \in {"locked", "relocked"}
    BY <1>9 DEF WorkerTake
  <2>2. PICK woken : pc' = [t \in Threads |-> IF t = w THEN "job"
                                             ELSE IF t \in woken THEN "drainWoken"
                                             ELSE pc[t]]
    BY ZenonT(40), <1>9 DEF WorkerTake
  <2>3. pc[c] = "counted"
    BY <2>2
  <2> QED
    BY <2>1, <2>3
<1>10. ASSUME NEW w \in Workers, WorkerPass(w) PROVE Quiet
  BY <1>10 DEF WorkerPass
<1>11. ASSUME NEW w \in Workers, JobReturns(w) PROVE Quiet
  BY <1>11 DEF JobReturns
<1>12. ASSUME NEW w \in Workers, WorkerIdle(w) PROVE Quiet
  BY <1>12 DEF WorkerIdle
<1>13. ASSUME NEW w \in Workers, SpuriousWorker(w) PROVE Quiet
  BY <1>13 DEF SpuriousWorker
<1>14. ASSUME NEW t \in Callers, AddRefused(t) PROVE Quiet
  BY <1>14 DEF AddRefused, Resume
<1>15. ASSUME NEW t \in Callers, AddTask(t) PROVE Quiet
  BY <1>15 DEF AddTask, AddWakes, OneOf, Resume
<1>16. ASSUME NEW t \in Callers, NEW k \in Tasks, AddCall(t, k) PROVE Quiet
  BY <1>16 DEF AddCall
<1>17. ASSUME NEW d \in Clients, StatusCall(d) PROVE Quiet
  BY <1>17 DEF StatusCall
<1>18. ASSUME NEW d \in Clients, StatusCount(d) PROVE idle_num'[c] = Cardinality({v \in Workers : pc'[v] \in IdlePlaces})
  <2>1. CASE d # c
    <3>1. mutex = d /\ pc'[c] = pc[c]
      BY <1>18, <2>1 DEF StatusCount, MutexHeld, Inside
    <3> QED
      BY <2>1, <3>1
  <2>2. CASE d = c
    <3>1. idle_num'[c] = Cardinality(IdleWorkers) /\ \A v \in Workers : pc'[v] = pc[v]
      BY <1>18, <2>2 DEF StatusCount
    <3>2. pc[Main] = "returned"
      BY <1>18 DEF StatusCount, CreateOK
    <3>3. IdleWorkers = {v \in Workers : pc'[v] \in IdlePlaces}
      BY <3>1, <3>2 DEF IdleWorkers, WorkersOK, BusyPlaces, JobPlaces
    <3> QED
      BY <3>1, <3>3
  <2> QED
    BY <2>1, <2>2
<1>19. ASSUME NEW d \in Clients, StatusReturns(d) PROVE Quiet
  BY <1>19 DEF StatusReturns
<1>20. ASSUME NEW d \in Destroyers, DestroyCall(d) PROVE Quiet
  BY <1>20 DEF DestroyCall
<1>21. ASSUME NEW d \in Destroyers, DestroyAgain(d) PROVE Quiet
  BY <1>21 DEF DestroyAgain
<1>22. ASSUME NEW d \in Destroyers, DestroySleep(d) PROVE Quiet
  BY <1>22 DEF DestroySleep
<1>23. ASSUME NEW d \in Destroyers, DestroyStop(d) PROVE Quiet
  BY <1>23 DEF DestroyStop
<1>24. ASSUME NEW d \in Destroyers, DestroyUnlock(d) PROVE Quiet
  BY <1>24 DEF DestroyUnlock
<1>25. ASSUME NEW d \in Destroyers, DestroyJoin(d) PROVE Quiet
  BY <1>25 DEF DestroyJoin
<1>26. ASSUME NEW d \in Destroyers, DestroyFree(d) PROVE Quiet
  BY <1>26 DEF DestroyFree
<1>27. ASSUME NEW d \in Destroyers, SpuriousDestroyer(d) PROVE Quiet
  BY <1>27 DEF SpuriousDestroyer
<1>28. ASSUME NEW t \in Threads, Acquire(t) PROVE Quiet
  BY <1>28 DEF Acquire, Entering, Entered
<1>29. ASSUME NEW t \in Threads, TouchFreed(t) PROVE Quiet
  BY <1>29 DEF TouchFreed, Touching, Entering, Inside
<1>30. ASSUME Terminated \/ UNCHANGED vars PROVE Quiet
  BY <1>30 DEF Terminated, vars
<1> QED
  BY <1>1, <1>2, <1>3, <1>4, <1>5, <1>6, <1>7, <1>8, <1>9, <1>10, <1>11,
     <1>12, <1>13, <1>14, <1>15, <1>16, <1>17, <1>18, <1>19, <1>20, <1>21,
     <1>22, <1>23, <1>24, <1>25, <1>26, <1>27, <1>28, <1>29, <1>30, <1>31
  DEF Next, MainStep, WorkerStep, CallStep, StatusStep, DestroyStep

-----------------------------------------------------------------------------
(* The invariant in every state *)

ServiceInv ==
    /\ CreateOK /\ WorkersOK /\ JoinOK /\ LateOK /\ OfferedOK
    /\ QueueOK /\ HandedOK /\ OwnerOK /\ TeardownOK /\ StatusExact

(* Before create runs there are no tasks, and no calls.                    *)
LEMMA ServiceInit == Init => ServiceInv
<1> SUFFICES ASSUME Init PROVE ServiceInv
  OBVIOUS
<1> USE SizeType, ThreadsAssumption DEF Init, Threads, Callers
<1>1. CreateOK
  BY DEF CreateOK
<1>2. WorkersOK
  <2>1. tid = 0 /\ \A w \in Workers : pc[w] = "none" /\ task[w] = NoTask /\ w >= 0
    BY DEF Workers
  <2>2. pc[Main] = "alloc"
    OBVIOUS
  <2> QED
    BY <2>1, <2>2 DEF WorkersOK, FreshPlaces, IdlePlaces, BusyPlaces, JobPlaces, Workers
<1>3. JoinOK
  BY DEF JoinOK, Workers
<1>4. LateOK
  BY DEF LateOK
<1>5. OfferedOK
  BY DEF OfferedOK, Adding, Workers
<1>6. QueueOK
  BY DEF QueueOK
<1>7. HandedOK
  BY DEF HandedOK
<1>8. OwnerOK
  BY DEF OwnerOK
<1>9. TeardownOK
  BY DEF TeardownOK
<1>10. StatusExact
  BY DEF StatusExact
<1> QED
  BY <1>1, <1>2, <1>3, <1>4, <1>5, <1>6, <1>7, <1>8, <1>9, <1>10 DEF ServiceInv

(* Every step keeps it, so it holds in every state of the pool.            *)
THEOREM ServiceInvariant == Spec => []ServiceInv
<1>1. /\ CoreInv /\ CoreInv' /\ WakeInv /\ ServiceInv /\ [Next]_vars
      => ServiceInv'
  BY CreateStep, WorkersStep, JoinStep, LateStep, OfferedStep, QueueStep,
     HandedStep, OwnerStep, TeardownStep, StatusStepExact DEF ServiceInv
<1> QED
  BY <1>1, ServiceInit, CoreInvariant, WakeInvariant, PTL DEF Spec

-----------------------------------------------------------------------------
(* The properties that the runs check *)

(* No task is lost, duplicated or overtaken between addtask, the queue and *)
(* the workers, however many of each there are.                            *)
THEOREM TasksCorrect == Spec => []TasksConserved
<1>1. CoreInv /\ ServiceInv => TasksConserved
  <2> SUFFICES ASSUME CoreInv, ServiceInv PROVE TasksConserved
    OBVIOUS
  <2>1. /\ started \in Seq(Tasks) /\ accepted \in Seq(Tasks)
        /\ finished \in SUBSET Tasks
        /\ \A w \in Workers : task[w] \in Tasks \cup {NoTask}
    BY DEF CoreInv, TypeOK
  <2>2. Len(started) \in 0 .. Len(accepted) /\ Len(started) \in Nat
        /\ DOMAIN started = 1 .. Len(started)
    BY <2>1, LenProperties DEF ServiceInv, QueueOK
  <2>3. started = SubSeq(accepted, 1, Len(started))
    <3>1. /\ SubSeq(accepted, 1, Len(started)) \in Seq(Tasks)
          /\ Len(SubSeq(accepted, 1, Len(started))) = Len(started)
          /\ \A i \in 1 .. Len(started) :
                SubSeq(accepted, 1, Len(started))[i] = accepted[i]
      BY <2>1, <2>2, TakeAndKeep
    <3>2. \A i \in 1 .. Len(started) : started[i] = accepted[i]
      BY DEF ServiceInv, QueueOK
    <3> QED
      BY ONLY <2>1, <3>1, <3>2, SeqEqual, Zenon
  <2>4. \A w \in Workers : task[w] \notin finished
    BY <2>1, ThreadsAssumption DEF ServiceInv, HandedOK
  <2>5. TaskSet(started) = finished \cup ({task[w] : w \in Workers} \ {NoTask})
    <3>1. ASSUME NEW k \in TaskSet(started)
          PROVE  k \in finished \cup ({task[w] : w \in Workers} \ {NoTask})
      <4>1. PICK i \in 1 .. Len(started) : started[i] = k
        BY <2>2 DEF TaskSet
      <4>2. k \in Tasks /\ k # NoTask
        BY <2>1, <4>1, ElementOfSeq, ThreadsAssumption
      <4> QED
        BY <4>1, <4>2 DEF ServiceInv, HandedOK
    <3>2. ASSUME NEW k \in finished \cup ({task[w] : w \in Workers} \ {NoTask})
          PROVE  k \in TaskSet(started)
      BY <2>2 DEF TaskSet, ServiceInv, HandedOK
    <3> QED
      BY <3>1, <3>2
  <2>6. /\ pool = "alive" => accepted = started \o task_queue
        /\ \A i, j \in DOMAIN accepted : accepted[i] = accepted[j] => i = j
    BY DEF ServiceInv, QueueOK, OfferedOK
  <2> QED
    BY Zenon, <2>2, <2>3, <2>4, <2>5, <2>6 DEF TasksConserved
<1> QED
  BY <1>1, CoreInvariant, ServiceInvariant, PTL

(* A worker starts at most one task of a stopped pool, because a round     *)
(* begins with a look at stop: PoolSize tasks at most are started late.    *)
THEOREM LateTasksCorrect == Spec => []LateTasksBounded
<1>1. CoreInv /\ ServiceInv => LateTasksBounded
  <2>1. BackFromWait \in SUBSET Workers
    BY DEF BackFromWait
  <2>2. Cardinality(BackFromWait) \in 0 .. PoolSize
    BY <2>1, WorkerCount
  <2> QED
    BY <2>2, SizeType, LenProperties
       DEF CoreInv, TypeOK, ServiceInv, LateOK, LateTasksBounded
<1> QED
  BY <1>1, CoreInvariant, ServiceInvariant, PTL

(* When destroy with finish = 1 returns to the owner of the pool, all the  *)
(* tasks that addtask ever took are finished.                              *)
THEOREM DrainCorrect == Spec => []DrainedBeforeFree
<1>1. ServiceInv => DrainedBeforeFree
  BY DEF ServiceInv, OwnerOK, DrainedBeforeFree
<1> QED
  BY <1>1, ServiceInvariant, PTL

(* status reports the number of workers that have no job in hand.          *)
THEOREM StatusCorrect == Spec => []StatusExact
<1>1. ServiceInv => StatusExact
  BY DEF ServiceInv
<1> QED
  BY <1>1, ServiceInvariant, PTL

(* No thread touches the memory of a pool that destroy has freed, nor the  *)
(* argument block that create has freed, if the pool has one owner.        *)
THEOREM FreedMemoryCorrect == Spec => []UseAfterFreeOnlyByFailedCreate
<1>1. ServiceInv => UseAfterFreeOnlyByFailedCreate
  BY DEF ServiceInv, OwnerOK, UseAfterFreeOnlyByFailedCreate
<1> QED
  BY <1>1, ServiceInvariant, PTL

(* Of any number of destroyers that do not drain, one tears the pool down. *)
THEOREM TeardownCorrect == Spec => []OneTeardown
<1>1. ServiceInv => OneTeardown
  <2> SUFFICES ASSUME ServiceInv, \A d \in Destroyers : ~finish[d]
               PROVE  Cardinality({d \in Destroyers : pc[d] \in {"stopping", "join"}})
                      <= IF pool = "freed" THEN 0 ELSE 1
    BY DEF OneTeardown
  <2> DEFINE down == {d \in Destroyers : pc[d] \in {"stopping", "join"}}
  <2>1. CASE down = {}
    <3>1. Cardinality(down) = 0
      BY <2>1, FS_EmptySet
    <3> QED
      BY <3>1
  <2>2. CASE down # {}
    <3>1. PICK d : d \in down
      BY <2>2
    <3>2. \A e \in down : e = d
      BY <3>1 DEF ServiceInv, TeardownOK
    <3>3. down = {d}
      BY <3>1, <3>2
    <3>4. Cardinality(down) = 1
      BY <3>3, FS_Singleton
    <3>5. pool = "alive"
      BY <3>1 DEF ServiceInv, TeardownOK
    <3> QED
      BY <3>4, <3>5
  <2> QED
    BY <2>1, <2>2
<1> QED
  BY <1>1, ServiceInvariant, PTL

-----------------------------------------------------------------------------
(* The pool implements the task service *)

Running   == {task[w] : w \in Workers} \ {NoTask}
Discarded == IF pool = "freed" THEN TaskSet(accepted) \ TaskSet(started) ELSE {}
Late      == IF stop THEN Len(started) - lateFrom ELSE 0

(* The service counts what runs as the pool does.                          *)
LEMMA ServiceCounts == \A S : Service!Cardinality(S) = Cardinality(S)
BY DEF Service!Cardinality, Cardinality

(* A step that neither queues, starts, finishes nor drops a task is        *)
(* nothing to the service.                                                 *)
LEMMA ServiceStutters ==
    ASSUME UNCHANGED <<task_queue, task, finished, accepted, started, stop,
                       lateFrom>>,
           pool' = "freed" <=> pool = "freed"
    PROVE  UNCHANGED Service!vars
<1>1. TaskSet(accepted)' = TaskSet(accepted) /\ TaskSet(started)' = TaskSet(started)
  BY DEF TaskSet
<1> QED
  BY <1>1 DEF Service!vars

(* addtask submits a task that the service does not know.                  *)
LEMMA AddSubmits ==
    ASSUME CoreInv, ServiceInv, NEW t \in Callers, AddTask(t)
    PROVE  Service!Next
<1> DEFINE k == arg[t]
<1>1. /\ pc[t] = "adding" /\ pool = "alive" /\ ~stop /\ stop' = stop
      /\ task_queue' = Append(task_queue, k)
      /\ UNCHANGED <<task, finished, started, lateFrom, pool>>
  BY DEF AddTask, memVars, workVars, endVars
<1>2. k \in Tasks
  BY <1>1 DEF CoreInv, HandsOK
<1>3. \A i \in DOMAIN accepted : accepted[i] # k
  BY <1>1 DEF ServiceInv, OfferedOK, Adding
<1>4. /\ accepted = started \o task_queue
      /\ accepted \in Seq(Tasks) /\ started \in Seq(Tasks) /\ task_queue \in Seq(Tasks)
  BY <1>1 DEF ServiceInv, QueueOK, CoreInv, TypeOK
<1>5. /\ DOMAIN accepted = 1 .. Len(started) + Len(task_queue)
      /\ DOMAIN task_queue = 1 .. Len(task_queue)
      /\ Len(started) \in Nat /\ Len(task_queue) \in Nat
      /\ \A i \in 1 .. Len(started) : accepted[i] = started[i]
      /\ \A i \in 1 .. Len(task_queue) : accepted[i + Len(started)] = task_queue[i]
  BY <1>4, ConcatProperties, LenProperties
<1>6. k \notin Service!Pending
  <2> SUFFICES ASSUME NEW i \in 1 .. Len(task_queue), task_queue[i] = k PROVE FALSE
    BY <1>5 DEF Service!Pending
  <2>1. i + Len(started) \in DOMAIN accepted
    BY <1>5
  <2> QED
    BY <1>3, <1>5, <2>1
<1>7. k \notin finished /\ k \notin Running
  <2>1. \A i \in 1 .. Len(started) : started[i] # k
    BY <1>3, <1>5
  <2> QED
    BY <2>1 DEF ServiceInv, HandedOK, Running
<1> HIDE DEF k
<1>8. Service!Submit(k)
  BY <1>1, <1>6, <1>7 DEF Service!Submit, Running
<1> QED
  BY <1>2, <1>8 DEF Service!Next

(* A worker that takes a task starts the oldest, has no other in hand, and *)
(* is late at most once.                                                   *)
LEMMA TakeStarts ==
    ASSUME CoreInv, ServiceInv, NEW w \in Workers, WorkerTake(w)
    PROVE  Service!Next
<1>1. /\ (pc[w] = "locked" /\ ~stop) \/ pc[w] = "relocked"
      /\ pool = "alive" /\ pool' = "alive" /\ stop' = stop
      /\ task_queue # <<>> /\ task_queue' = Tail(task_queue)
      /\ task' = [task EXCEPT ![w] = Head(task_queue)]
      /\ started' = Append(started, Head(task_queue))
      /\ UNCHANGED <<finished, lateFrom>>
  BY DEF WorkerTake, RoundOver, Rest, memVars, endVars
<1>2. /\ task_queue \in Seq(Tasks) /\ started \in Seq(Tasks)
      /\ task \in [Workers -> Tasks \cup {NoTask}]
      /\ lateFrom \in Nat /\ stop \in BOOLEAN
  BY DEF CoreInv, TypeOK
<1>3. Head(task_queue) \in Tasks /\ Head(task_queue) # NoTask
  BY <1>1, <1>2, HeadTailProperties, ThreadsAssumption
<1>4. task[w] = NoTask
  BY <1>1 DEF ServiceInv, WorkersOK, JobPlaces
<1>5. Running' = Running \cup {Head(task_queue)}
  BY <1>1, <1>2, <1>3, <1>4 DEF Running
<1>6. Cardinality(Running) < PoolSize
  <2> DEFINE Others == Workers \ {w}
             Hands  == {task[v] : v \in Others}
  <2>1. IsFiniteSet(Workers) /\ Cardinality(Workers) \in 0 .. PoolSize
    BY WorkerCount
  <2>2. IsFiniteSet(Others) /\ Cardinality(Others) = Cardinality(Workers) - 1
    BY <2>1, FS_RemoveElement
  <2>3. IsFiniteSet(Hands) /\ Cardinality(Hands) <= Cardinality(Others)
    <3> DEFINE f == [v \in Others |-> task[v]]
    <3>1. f \in Surjection(Others, Hands)
      BY DEF Surjection
    <3> QED
      BY ONLY <2>2, <3>1, FS_Surjection
  <2>4. Running \subseteq Hands
    BY <1>4 DEF Running
  <2>5. IsFiniteSet(Running) /\ Cardinality(Running) <= Cardinality(Hands)
    BY <2>3, <2>4, FS_Subset
  <2>6. Cardinality(Running) \in Nat /\ Cardinality(Hands) \in Nat
        /\ Cardinality(Others) \in Nat
    BY <2>2, <2>3, <2>5, FS_CardinalityType
  <2> QED
    BY <2>1, <2>2, <2>3, <2>5, <2>6, SizeType
<1>7. ~stop \/ Len(started) - lateFrom < PoolSize
  <2> SUFFICES ASSUME stop PROVE Len(started) - lateFrom < PoolSize
    BY <1>2
  <2>1. w \in BackFromWait /\ BackFromWait \in SUBSET Workers
    BY <1>1 DEF BackFromWait
  <2>2. IsFiniteSet(BackFromWait) /\ Cardinality(BackFromWait) \in 0 .. PoolSize
    BY <2>1, WorkerCount
  <2>3. Cardinality(BackFromWait) # 0
    BY <2>1, <2>2, FS_EmptySet
  <2> QED
    BY <1>2, <2>2, <2>3, SizeType, LenProperties DEF ServiceInv, LateOK
<1>8. Late' = IF ~stop THEN 0 ELSE Late + 1
  <2>1. Len(started)' = Len(started) + 1 /\ Len(started) \in Nat
    BY <1>1, <1>2, <1>3, AppendProperties, LenProperties
  <2> QED
    BY <1>1, <1>2, <2>1 DEF Late
<1>9. Discarded = {} /\ Discarded' = {}
  BY <1>1 DEF Discarded
<1>10. Service!Start
  <2>1. task_queue # <<>> /\ task_queue' = Tail(task_queue)
    BY <1>1
  <2>2. ~stop \/ (IF stop THEN Len(started) - lateFrom ELSE 0) < PoolSize
    BY <1>7
  <2>3. finished' = finished /\ (~stop)' = ~stop
    BY <1>1
  <2>4. Service!Cardinality({task[v] : v \in Workers} \ {NoTask}) < PoolSize
    BY <1>6, ServiceCounts DEF Running
  <2>5. ({task[v] : v \in Workers} \ {NoTask})'
        = ({task[v] : v \in Workers} \ {NoTask}) \cup {Head(task_queue)}
    BY <1>5 DEF Running
  <2>6. (IF stop THEN Len(started) - lateFrom ELSE 0)'
        = IF ~stop THEN 0 ELSE (IF stop THEN Len(started) - lateFrom ELSE 0) + 1
    BY <1>8 DEF Late
  <2>7. (IF pool = "freed" THEN TaskSet(accepted) \ TaskSet(started) ELSE {})'
        = IF pool = "freed" THEN TaskSet(accepted) \ TaskSet(started) ELSE {}
    BY <1>9 DEF Discarded
  <2> QED
    BY ONLY <2>1, <2>2, <2>3, <2>4, <2>5, <2>6, <2>7, Zenon DEF Service!Start
<1> QED
  BY <1>10 DEF Service!Next

(* A job that returns ends the task its worker, and no other, has in hand. *)
LEMMA ReturnFinishes ==
    ASSUME CoreInv, ServiceInv, NEW w \in Workers, JobReturns(w)
    PROVE  Service!Next
<1>1. PICK k \in Tasks : k = task[w]
  BY DEF JobReturns, CoreInv, HandsOK
<1>2. /\ finished' = finished \cup {k}
      /\ task' = [task EXCEPT ![w] = NoTask]
      /\ UNCHANGED <<pool, task_queue, stop, started, accepted, lateFrom>>
  BY <1>1 DEF JobReturns, memVars, queueVars, callVars, endVars
<1>3. k # NoTask /\ task \in [Workers -> Tasks \cup {NoTask}]
  BY ThreadsAssumption DEF CoreInv, TypeOK
<1>4. \A v \in Workers : task[v] = k => v = w
  BY <1>1, <1>3 DEF ServiceInv, HandedOK
<1>5. k \in Running /\ Running' = Running \ {k}
  BY <1>1, <1>2, <1>3, <1>4 DEF Running
<1>6. Discarded' = Discarded /\ Late' = Late
  BY <1>2 DEF Discarded, Late, TaskSet
<1>7. Service!Finish(k)
  BY <1>2, <1>5, <1>6 DEF Service!Finish, Running, Discarded, Late
<1> QED
  BY <1>7 DEF Service!Next

(* The destroyer that sets stop closes the service; one that drained while *)
(* another set it changes nothing.                                         *)
LEMMA StopCloses ==
    ASSUME CoreInv, NEW d \in Destroyers, DestroyStop(d)
    PROVE  Service!Next \/ UNCHANGED Service!vars
<1>1. /\ stop' = TRUE /\ lateFrom' = IF stop THEN lateFrom ELSE Len(started)
      /\ UNCHANGED <<pool, task_queue, task, finished, started, accepted>>
  BY DEF DestroyStop, memVars, workVars, callVars
<1>2. stop \in BOOLEAN /\ started \in Seq(Tasks)
  BY DEF CoreInv, TypeOK
<1>3. CASE stop
  BY <1>1, <1>3, ServiceStutters
<1>4. CASE ~stop
  <2>1. Len(started) \in Nat
    BY <1>2, LenProperties
  <2>2. Late = 0 /\ Late' = 0
    BY <1>1, <1>4, <2>1 DEF Late
  <2>3. Discarded' = Discarded /\ Running' = Running
    BY <1>1 DEF Discarded, TaskSet, Running
  <2>4. Service!Close
    BY <1>1, <1>4, <2>2, <2>3 DEF Service!Close, Late, Discarded, Running
  <2> QED
    BY <2>4 DEF Service!Next
<1> QED
  BY <1>2, <1>3, <1>4

(* destroy frees the queue with all that was taken and never started, when *)
(* no worker runs anything.                                                *)
LEMMA FreeDiscards ==
    ASSUME CoreInv, ServiceInv, NEW d \in Destroyers, DestroyFree(d)
    PROVE  Service!Next
<1>1. /\ pc[d] = "join" /\ pool = "alive" /\ joined[d] = PoolSize
      /\ pool' = "freed" /\ task_queue' = <<>>
      /\ UNCHANGED <<stop, task, finished, started, accepted, lateFrom>>
  BY DEF DestroyFree, workVars, callVars, endVars
<1>2. stop
  BY <1>1 DEF ServiceInv, JoinOK
<1>3. \A w \in Workers : task[w] = NoTask
  <2>1. \A w \in Workers : w < joined[d]
    BY <1>1, SizeType DEF Workers
  <2>2. \A w \in Workers : pc[w] = "exited"
    BY <2>1 DEF ServiceInv, JoinOK
  <2> QED
    BY <2>2 DEF ServiceInv, WorkersOK, JobPlaces
<1>4. Running = {} /\ Running' = Running
  BY <1>1, <1>3 DEF Running
<1>5. /\ accepted = started \o task_queue
      /\ accepted \in Seq(Tasks) /\ started \in Seq(Tasks) /\ task_queue \in Seq(Tasks)
  BY <1>1 DEF ServiceInv, QueueOK, CoreInv, TypeOK
<1>6. /\ DOMAIN accepted = 1 .. Len(started) + Len(task_queue)
      /\ DOMAIN task_queue = 1 .. Len(task_queue)
      /\ DOMAIN started = 1 .. Len(started)
      /\ Len(started) \in Nat /\ Len(task_queue) \in Nat
      /\ \A i \in 1 .. Len(started) : accepted[i] = started[i]
      /\ \A i \in 1 .. Len(task_queue) : accepted[i + Len(started)] = task_queue[i]
  BY <1>5, ConcatProperties, LenProperties
<1>7. TaskSet(accepted) \ TaskSet(started) = TaskSet(task_queue)
  <2>1. ASSUME NEW i \in DOMAIN accepted, accepted[i] \notin TaskSet(started)
        PROVE  accepted[i] \in TaskSet(task_queue)
    <3>1. i \in Nat /\ i > Len(started) /\ i <= Len(started) + Len(task_queue)
      BY <1>6, <2>1 DEF TaskSet
    <3>2. i - Len(started) \in 1 .. Len(task_queue)
          /\ (i - Len(started)) + Len(started) = i
      BY <1>6, <3>1
    <3>3. accepted[i] = task_queue[i - Len(started)]
      BY <1>6, <3>2
    <3> QED
      BY <1>6, <3>2, <3>3 DEF TaskSet
  <2>2. ASSUME NEW i \in 1 .. Len(task_queue)
        PROVE  task_queue[i] \in TaskSet(accepted) /\ task_queue[i] \notin TaskSet(started)
    <3>1. i + Len(started) \in DOMAIN accepted /\ i + Len(started) \notin 1 .. Len(started)
      BY <1>6
    <3>2. accepted[i + Len(started)] = task_queue[i]
      BY <1>6
    <3>3. \A j \in 1 .. Len(started) : j \in DOMAIN accepted /\ accepted[j] # task_queue[i]
      BY <1>6, <3>1, <3>2 DEF ServiceInv, OfferedOK
    <3> QED
      BY <1>6, <3>1, <3>2, <3>3 DEF TaskSet
  <2> QED
    BY <1>6, <2>1, <2>2 DEF TaskSet
<1>8. Discarded = {} /\ Discarded' = TaskSet(task_queue)
  <2>1. TaskSet(accepted)' = TaskSet(accepted) /\ TaskSet(started)' = TaskSet(started)
    BY <1>1 DEF TaskSet
  <2> QED
    BY <1>1, <1>7, <2>1 DEF Discarded
<1>9. Service!Pending = TaskSet(task_queue) /\ Late' = Late
  BY <1>1 DEF Service!Pending, TaskSet, Late
<1>10. Service!Discard
  BY <1>1, <1>2, <1>4, <1>8, <1>9 DEF Service!Discard, Running, Discarded, Late
<1> QED
  BY <1>10 DEF Service!Next

(* Every step of the pool is a step of the service, or nothing to it.      *)
LEMMA ServiceStep ==
    CoreInv /\ ServiceInv /\ [Next]_vars => [Service!Next]_Service!vars
<1> SUFFICES ASSUME CoreInv, ServiceInv, [Next]_vars
             PROVE  Service!Next \/ UNCHANGED Service!vars
  OBVIOUS
<1> USE DEF memVars, queueVars, condVars, workVars, callVars, endVars, budget
<1>1. CASE CreateAlloc
  <2>1. pool = "none" /\ pool' = "alive"
    BY <1>1 DEF CreateAlloc, ServiceInv, CreateOK
  <2> QED
    BY <1>1, <2>1, ServiceStutters DEF CreateAlloc
<1>2. CASE CreateThread
  BY <1>2, ServiceStutters DEF CreateThread
<1>3. CASE CreateReturns
  BY <1>3, ServiceStutters DEF CreateReturns
<1>4. CASE CreateFails
  <2>1. /\ pc[Main] \in {"alloc", "spawn"}
        /\ UNCHANGED <<task_queue, task, finished, accepted, started, stop, lateFrom>>
    BY <1>4 DEF CreateFails
  <2>2. accepted = <<>>
    BY <2>1 DEF ServiceInv, CreateOK
  <2>3. TaskSet(accepted) = {} /\ TaskSet(accepted)' = {}
    BY <2>1, <2>2 DEF TaskSet
  <2>4. Discarded = {} /\ Discarded' = {}
    BY <2>3 DEF Discarded
  <2> QED
    BY <2>1, <2>4 DEF Service!vars, Discarded
<1>5. ASSUME NEW w \in Workers, WorkerStart(w)
      PROVE  Service!Next \/ UNCHANGED Service!vars
  BY <1>5, ServiceStutters DEF WorkerStart
<1>6. ASSUME NEW w \in Workers, WorkerReady(w)
      PROVE  Service!Next \/ UNCHANGED Service!vars
  BY <1>6, ServiceStutters DEF WorkerReady
<1>7. ASSUME NEW w \in Workers, WorkerStop(w)
      PROVE  Service!Next \/ UNCHANGED Service!vars
  BY <1>7, ServiceStutters DEF WorkerStop
<1>8. ASSUME NEW w \in Workers, WorkerSleep(w)
      PROVE  Service!Next \/ UNCHANGED Service!vars
  BY <1>8, ServiceStutters DEF WorkerSleep
<1>9. ASSUME NEW w \in Workers, WorkerTake(w)
      PROVE  Service!Next \/ UNCHANGED Service!vars
  BY <1>9, TakeStarts
<1>10. ASSUME NEW w \in Workers, WorkerPass(w)
      PROVE  Service!Next \/ UNCHANGED Service!vars
  BY <1>10, ServiceStutters DEF WorkerPass
<1>11. ASSUME NEW w \in Workers, JobReturns(w)
      PROVE  Service!Next \/ UNCHANGED Service!vars
  BY <1>11, ReturnFinishes
<1>12. ASSUME NEW w \in Workers, WorkerIdle(w)
      PROVE  Service!Next \/ UNCHANGED Service!vars
  BY <1>12, ServiceStutters DEF WorkerIdle
<1>13. ASSUME NEW w \in Workers, SpuriousWorker(w)
      PROVE  Service!Next \/ UNCHANGED Service!vars
  BY <1>13, ServiceStutters DEF SpuriousWorker
<1>14. ASSUME NEW t \in Callers, AddRefused(t)
      PROVE  Service!Next \/ UNCHANGED Service!vars
  BY <1>14, ServiceStutters DEF AddRefused
<1>15. ASSUME NEW t \in Callers, AddTask(t)
      PROVE  Service!Next \/ UNCHANGED Service!vars
  BY <1>15, AddSubmits
<1>16. ASSUME NEW t \in Callers, NEW k \in Tasks, AddCall(t, k)
      PROVE  Service!Next \/ UNCHANGED Service!vars
  BY <1>16, ServiceStutters DEF AddCall
<1>17. ASSUME NEW d \in Clients, StatusCall(d)
      PROVE  Service!Next \/ UNCHANGED Service!vars
  BY <1>17, ServiceStutters DEF StatusCall
<1>18. ASSUME NEW d \in Clients, StatusCount(d)
      PROVE  Service!Next \/ UNCHANGED Service!vars
  BY <1>18, ServiceStutters DEF StatusCount
<1>19. ASSUME NEW d \in Clients, StatusReturns(d)
      PROVE  Service!Next \/ UNCHANGED Service!vars
  BY <1>19, ServiceStutters DEF StatusReturns
<1>20. ASSUME NEW d \in Destroyers, DestroyCall(d)
      PROVE  Service!Next \/ UNCHANGED Service!vars
  BY <1>20, ServiceStutters DEF DestroyCall
<1>21. ASSUME NEW d \in Destroyers, DestroyAgain(d)
      PROVE  Service!Next \/ UNCHANGED Service!vars
  BY <1>21, ServiceStutters DEF DestroyAgain
<1>22. ASSUME NEW d \in Destroyers, DestroySleep(d)
      PROVE  Service!Next \/ UNCHANGED Service!vars
  BY <1>22, ServiceStutters DEF DestroySleep
<1>23. ASSUME NEW d \in Destroyers, DestroyStop(d)
      PROVE  Service!Next \/ UNCHANGED Service!vars
  BY <1>23, StopCloses
<1>24. ASSUME NEW d \in Destroyers, DestroyUnlock(d)
      PROVE  Service!Next \/ UNCHANGED Service!vars
  BY <1>24, ServiceStutters DEF DestroyUnlock
<1>25. ASSUME NEW d \in Destroyers, DestroyJoin(d)
      PROVE  Service!Next \/ UNCHANGED Service!vars
  BY <1>25, ServiceStutters DEF DestroyJoin
<1>26. ASSUME NEW d \in Destroyers, DestroyFree(d)
      PROVE  Service!Next \/ UNCHANGED Service!vars
  BY <1>26, FreeDiscards
<1>27. ASSUME NEW d \in Destroyers, SpuriousDestroyer(d)
      PROVE  Service!Next \/ UNCHANGED Service!vars
  BY <1>27, ServiceStutters DEF SpuriousDestroyer
<1>28. ASSUME NEW t \in Threads, Acquire(t)
      PROVE  Service!Next \/ UNCHANGED Service!vars
  BY <1>28, ServiceStutters DEF Acquire
<1>29. ASSUME NEW t \in Threads, TouchFreed(t)
      PROVE  Service!Next \/ UNCHANGED Service!vars
  BY <1>29, ServiceStutters DEF TouchFreed
<1>30. CASE Terminated \/ UNCHANGED vars
  BY <1>30, ServiceStutters DEF Terminated, vars
<1> QED
  BY <1>1, <1>2, <1>3, <1>4, <1>5, <1>6, <1>7, <1>8, <1>9, <1>10, <1>11,
     <1>12, <1>13, <1>14, <1>15, <1>16, <1>17, <1>18, <1>19, <1>20, <1>21,
     <1>22, <1>23, <1>24, <1>25, <1>26, <1>27, <1>28, <1>29, <1>30
  DEF Next, MainStep, WorkerStep, CallStep, StatusStep, DestroyStep

(* The pool is a first-in first-out service that runs every task it took   *)
(* once, PoolSize of them at a time, and when stopped takes none, starts   *)
(* PoolSize more at most and drops the rest when nothing runs.             *)
THEOREM PoolImplementsService == Spec => ImplementsService
<1>1. Init => Service!Init
  <2> SUFFICES ASSUME Init PROVE Service!Init
    OBVIOUS
  <2>1. /\ task_queue = <<>> /\ finished = {} /\ pool = "none" /\ stop = FALSE
        /\ \A w \in Workers : task[w] = NoTask
    BY DEF Init
  <2> QED
    BY <2>1 DEF Service!Init
<1>2. CoreInv /\ ServiceInv /\ [Next]_vars => [Service!Next]_Service!vars
  BY ServiceStep
<1> QED
  BY <1>1, <1>2, CoreInvariant, ServiceInvariant, PTL
  DEF Spec, ImplementsService, Service!Spec

=============================================================================
