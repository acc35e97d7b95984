----------------------------- MODULE Win32Cond ------------------------------
(***************************************************************************)
(* The condition variable that zbaselib_thread.c builds for Windows from a *)
(* manual-reset event, a critical section of its own (cond->lock) and      *)
(* three counters.                                                         *)
(*                                                                         *)
(* Threads lock a mutex, wait on the condition with or without a timeout,  *)
(* and signal or broadcast it, holding the mutex or not.  What the code    *)
(* does under cond->lock is one step, as nothing blocks there.  The event  *)
(* wakes nobody by itself: it lets WaitForSingleObject return, and the     *)
(* counters decide which of the returning threads goes on.                 *)
(***************************************************************************)
EXTENDS Integers, FiniteSets

CONSTANTS
    Threads,
    NoThread,
    MaxSignals,   \* bound: calls of zbaselib_cond_signal
    MaxWaits      \* bound: calls of zbaselib_cond_wait

ASSUME CondAssumption ==
    /\ NoThread \notin Threads /\ IsFiniteSet(Threads)
    /\ MaxSignals \in Nat /\ MaxWaits \in Nat

VARIABLES
    pc,          \* where each thread is
    lock,        \* who holds the mutex the callers use
    event,       \* cond->event: is it set?
    n_waiting, n_to_wake, generation,
    start,       \* generation_at_start of each waiting thread
    timed,       \* did the thread pass a timeout?
    expired,     \* did WaitForSingleObject return WAIT_TIMEOUT?
    called,      \* history: threads that a broadcast found waiting and that
                 \* still wait
    disturbed,   \* history: a single signal since, while called was not empty?
    waits        \* calls of wait so far

condVars == <<event, n_waiting, n_to_wake, generation>>
ghosts   == <<called, disturbed>>
vars == <<pc, lock, condVars, start, timed, expired, ghosts, waits>>

Points == {"out", "in", "registered", "asleep", "back", "released", "locked"}

(* Threads inside wait that n_waiting stands for.                          *)
Waiting == {t \in Threads : pc[t] \in {"registered", "asleep", "back"}}

(* Those of them a token of n_to_wake may release.                         *)
Eligible == {t \in Waiting : start[t] # generation}

-----------------------------------------------------------------------------
Lock(t) ==
    /\ pc[t] = "out"
    /\ lock = NoThread
    /\ lock' = t
    /\ pc' = [pc EXCEPT ![t] = "in"]
    /\ UNCHANGED <<condVars, start, timed, expired, ghosts, waits>>

Unlock(t) ==
    /\ pc[t] = "in"
    /\ lock' = NoThread
    /\ pc' = [pc EXCEPT ![t] = "out"]
    /\ UNCHANGED <<condVars, start, timed, expired, ghosts, waits>>

-----------------------------------------------------------------------------
(* zbaselib_cond_signal *)

Stale_Tokens(broadcast) ==
    IF broadcast THEN n_to_wake ELSE n_to_wake + 1
Tokens(broadcast) ==
    IF broadcast THEN n_waiting ELSE n_to_wake + 1

Signal(t, broadcast) ==
    /\ pc[t] \in {"out", "in"}
    /\ generation < MaxSignals
    /\ n_to_wake' = Tokens(broadcast)
    /\ generation' = generation + 1
    /\ event' = TRUE
    /\ called' = IF broadcast THEN Waiting ELSE called
    /\ disturbed' = (~broadcast /\ called # {})
    /\ UNCHANGED <<pc, lock, n_waiting, start, timed, expired, waits>>

-----------------------------------------------------------------------------
(* zbaselib_cond_wait *)

(* Registers with the condition, the caller's mutex still held.            *)
Register(t, withTimeout) ==
    /\ pc[t] = "in"
    /\ waits < MaxWaits
    /\ waits' = waits + 1
    /\ n_waiting' = n_waiting + 1
    /\ start' = [start EXCEPT ![t] = generation]
    /\ timed' = [timed EXCEPT ![t] = withTimeout]
    /\ pc' = [pc EXCEPT ![t] = "registered"]
    /\ UNCHANGED <<lock, event, n_to_wake, generation, expired,
                   ghosts>>

Release(t) ==
    /\ pc[t] = "registered"
    /\ lock' = NoThread
    /\ pc' = [pc EXCEPT ![t] = "asleep"]
    /\ UNCHANGED <<condVars, start, timed, expired, ghosts, waits>>

(* WaitForSingleObject returns: the event is set, or time is up.           *)
Return(t) ==
    /\ pc[t] = "asleep"
    /\ \/ event /\ expired' = [expired EXCEPT ![t] = FALSE]
       \/ timed[t] /\ expired' = [expired EXCEPT ![t] = TRUE]
    /\ pc' = [pc EXCEPT ![t] = "back"]
    /\ UNCHANGED <<lock, condVars, start, timed, ghosts, waits>>

(* n_waiting after a thread has left the loop of wait.                     *)
Forgetful_StillWaiting == n_waiting
StillWaiting == n_waiting - 1

(* The thread leaves the loop of wait, and its locals behind.              *)
Leave(t) ==
    /\ n_waiting' = StillWaiting
    /\ start' = [start EXCEPT ![t] = 0]
    /\ timed' = [timed EXCEPT ![t] = FALSE]
    /\ expired' = [expired EXCEPT ![t] = FALSE]
    /\ called' = called \ {t}
    /\ pc' = [pc EXCEPT ![t] = "released"]
    /\ UNCHANGED <<lock, event, generation, disturbed, waits>>

(* A token, issued since the thread began to wait: wait returns 0.         *)
Released(t) == n_to_wake # 0 /\ start[t] # generation

TakeToken(t) ==
    /\ pc[t] = "back"
    /\ Released(t)
    /\ n_to_wake' = n_to_wake - 1
    /\ Leave(t)

(* No token, and time is up: WaitForSingleObject said so, or the clock     *)
(* does, as it may after a wake-up for others.  wait returns 1.            *)
TimeOut(t) ==
    /\ pc[t] = "back"
    /\ ~Released(t)
    /\ timed[t]
    /\ Leave(t)
    /\ UNCHANGED n_to_wake

(* The event after a thread found that it has to go on waiting: reset if   *)
(* no token is left for anybody.                                           *)
EventAfterCheck == event /\ n_to_wake # 0

WaitOn(t) ==
    /\ pc[t] = "back"
    /\ ~Released(t)
    /\ ~expired[t]
    /\ event' = EventAfterCheck
    /\ pc' = [pc EXCEPT ![t] = "asleep"]
    /\ UNCHANGED <<lock, n_waiting, n_to_wake, generation, start, timed,
                   expired, ghosts, waits>>

Relock(t) ==
    /\ pc[t] = "released"
    /\ lock = NoThread
    /\ lock' = t
    /\ pc' = [pc EXCEPT ![t] = "locked"]
    /\ UNCHANGED <<condVars, start, timed, expired, ghosts, waits>>

(* The event when wait returns: reset if no thread waits any more.         *)
Always_EventAfterWait == FALSE
EventAfterWait == event /\ n_waiting # 0

Finish(t) ==
    /\ pc[t] = "locked"
    /\ event' = EventAfterWait
    /\ pc' = [pc EXCEPT ![t] = "in"]
    /\ UNCHANGED <<lock, n_waiting, n_to_wake, generation, start, timed,
                   expired, ghosts, waits>>

-----------------------------------------------------------------------------
Init ==
    /\ pc = [t \in Threads |-> "out"]
    /\ lock = NoThread
    /\ event = FALSE
    /\ n_waiting = 0 /\ n_to_wake = 0 /\ generation = 0
    /\ start = [t \in Threads |-> 0]
    /\ timed = [t \in Threads |-> FALSE]
    /\ expired = [t \in Threads |-> FALSE]
    /\ called = {} /\ disturbed = FALSE
    /\ waits = 0

(* What a thread does by itself once it is inside a call.                  *)
WaitStep(t) ==
    \/ Release(t) \/ Return(t) \/ TakeToken(t) \/ TimeOut(t) \/ WaitOn(t)
    \/ Relock(t) \/ Finish(t)

Next ==
    \E t \in Threads :
        \/ Lock(t) \/ Unlock(t)
        \/ \E b \in BOOLEAN : Signal(t, b) \/ Register(t, b)
        \/ WaitStep(t)

Spec == Init /\ [][Next]_vars

(* Threads go on inside wait, and give the mutex back in the end.  At most *)
(* one of these steps can be taken by a thread at a time.                  *)
Fairness == \A t \in Threads : WF_vars(WaitStep(t) \/ Unlock(t))

FairSpec == Spec /\ Fairness

-----------------------------------------------------------------------------
(* Properties *)

TypeOK ==
    /\ pc \in [Threads -> Points]
    /\ lock \in Threads \cup {NoThread}
    /\ event \in BOOLEAN
    /\ n_waiting \in Nat /\ n_to_wake \in Nat
    /\ generation \in 0 .. MaxSignals
    /\ start \in [Threads -> 0 .. generation]
    /\ timed \in [Threads -> BOOLEAN]
    /\ expired \in [Threads -> BOOLEAN]
    /\ called \in SUBSET Threads
    /\ disturbed \in BOOLEAN
    /\ waits \in 0 .. MaxWaits

(* n_waiting counts the threads inside wait, whichever way they leave it:  *)
(* with a token, by a timeout, or by a timeout that finds a token.         *)
CountsExact == TypeOK /\ n_waiting = Cardinality(Waiting)

(* As long as a token is left that a waiting thread may take, the event is *)
(* set and lets that thread find it: neither of the two places that reset  *)
(* the event does so too early.                                            *)
EventCoversTokens == n_to_wake > 0 /\ Eligible # {} => event

(* A broadcast issues a token for every thread that waits, and none of     *)
(* them can be lost to threads that start to wait after it, or be used up  *)
(* by the timeout of another, until somebody signals again: the threads    *)
(* that may take a token are those the broadcast found and that still      *)
(* wait, and there is a token for each of them.                            *)
BroadcastTokensKept ==
    ~disturbed /\ called # {} =>
        Eligible = called /\ Cardinality(called) <= n_to_wake

(* No token is lost: what was signalled can be found by those it is for.   *)
TokensKept == EventCoversTokens /\ BroadcastTokensKept

(* A broadcast releases every thread that waits, unless another signal     *)
(* comes before they have all been released.                               *)
BroadcastReleases == called # {} ~> called = {} \/ disturbed

(* "There is nobody else who should wake up": when the event is reset, no  *)
(* thread is left in wait that a broadcast found there.                    *)
NobodyElseShouldWake == [][event /\ ~event' => called' = {}]_vars
=============================================================================
