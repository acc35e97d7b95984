---------------------------- MODULE MCWin32Cond -----------------------------
(* Small instances of Win32Cond for TLC. *)
EXTENDS Win32Cond, TLC

Symmetric == Permutations(Threads)

=============================================================================
