------------------------------ MODULE MCBuffer ------------------------------
(* Small instances of Buffer for TLC. *)
EXTENDS Buffer, TLC

CONSTANTS a, b   \* the two threads

(* Both threads call every operation. *)
AllOps == [t \in {a, b} |-> {"write", "read", "skip", "get", "clear"}]

(* zbuffer_test.c: one thread reads, the other writes. *)
TestOps == (a :> {"read"}) @@ (b :> {"write"})

Symmetric == Permutations(Threads)

=============================================================================
