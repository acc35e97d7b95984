----------------------------- MODULE MCSkBuffer -----------------------------
(* Small instances of SkBuffer for TLC. *)
EXTENDS SkBuffer, TLC

Symmetric == Permutations(Threads)
=============================================================================
