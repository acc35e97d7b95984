------------------------------- MODULE MCList -------------------------------
(* Small instances of List for TLC. *)
EXTENDS List, TLC

Symmetric == Permutations(Nodes) \cup Permutations(Data)
=============================================================================
