---------------------------- MODULE TaskService -----------------------------
(***************************************************************************)
(* What the thread pool promises: a first-in first-out service that runs   *)
(* every submitted task once, at most Capacity of them at a time, until it *)
(* is closed.  A closed service takes nothing more, starts at most         *)
(* Capacity tasks more, and discards the rest once nothing runs.           *)
(***************************************************************************)
EXTENDS Integers, Sequences, FiniteSets

CONSTANTS Tasks, Capacity

VARIABLES pending,    \* submitted and not started, oldest first
          running,    \* being run
          done,       \* have been run
          discarded,  \* submitted and never run
          open,       \* does the service take tasks?
          late        \* how many tasks it has started since it was closed

vars == <<pending, running, done, discarded, open, late>>

Pending == {pending[i] : i \in DOMAIN pending}

Init ==
    /\ pending = <<>> /\ running = {} /\ done = {} /\ discarded = {}
    /\ open = TRUE /\ late = 0

Submit(k) ==
    /\ open
    /\ k \notin Pending \cup running \cup done \cup discarded
    /\ pending' = Append(pending, k)
    /\ UNCHANGED <<running, done, discarded, open, late>>

Start ==
    /\ pending # <<>>
    /\ Cardinality(running) < Capacity
    /\ open \/ late < Capacity
    /\ pending' = Tail(pending)
    /\ running' = running \cup {Head(pending)}
    /\ late' = IF open THEN 0 ELSE late + 1
    /\ UNCHANGED <<done, discarded, open>>

Finish(k) ==
    /\ k \in running
    /\ running' = running \ {k}
    /\ done' = done \cup {k}
    /\ UNCHANGED <<pending, discarded, open, late>>

Close ==
    /\ open
    /\ open' = FALSE
    /\ UNCHANGED <<pending, running, done, discarded, late>>

Discard ==
    /\ ~open
    /\ running = {}
    /\ pending' = <<>>
    /\ discarded' = discarded \cup Pending
    /\ UNCHANGED <<running, done, open, late>>

Next == \/ Start \/ Close \/ Discard
        \/ \E k \in Tasks : Submit(k) \/ Finish(k)

Spec == Init /\ [][Next]_vars

(* An open service starts what it can, and every task it runs ends.        *)
FairSpec ==
    /\ Spec
    /\ WF_vars(open /\ Start)
    /\ \A k \in Tasks : WF_vars(Finish(k))
=============================================================================
