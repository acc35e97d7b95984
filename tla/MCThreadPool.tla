---------------------------- MODULE MCThreadPool ----------------------------
(* Small instances of ThreadPool for TLC. *)
EXTENDS ThreadPool, TLC

(* Clients and tasks are interchangeable; the workers are not, create      *)
(* starts and destroy joins them in order.                                 *)
Symmetric == Permutations(Clients) \cup Permutations(Tasks)

=============================================================================
