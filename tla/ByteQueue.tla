----------------------------- MODULE ByteQueue ------------------------------
(***************************************************************************)
(* What zbaselib_buffer promises its callers: a bounded first-in first-out *)
(* queue of bytes whose operations take effect one at a time, each moving  *)
(* all of its bytes or none.                                               *)
(***************************************************************************)
EXTENDS Integers, Sequences

CONSTANTS Bytes, Capacity

VARIABLES content,  \* the bytes in the queue, oldest first
          reply     \* the bytes the last operation returned

vars == <<content, reply>>

Init == content = <<>> /\ reply = <<>>

Put(bytes) ==
    /\ Len(content) + Len(bytes) <= Capacity
    /\ content' = content \o bytes
    /\ reply' = <<>>

Oldest(n) == SubSeq(content, 1, n)
Newer(n)  == SubSeq(content, n + 1, Len(content))

Take(n) == content' = Newer(n) /\ reply' = Oldest(n)
Drop(n) == content' = Newer(n) /\ reply' = <<>>
Peek(n) == content' = content  /\ reply' = Oldest(n)
Clear   == content' = <<>>     /\ reply' = <<>>

Next == \/ \E n \in 1 .. Capacity : \E bytes \in [1 .. n -> Bytes] : Put(bytes)
        \/ \E n \in 1 .. Len(content) : Take(n) \/ Drop(n) \/ Peek(n)
        \/ Clear

Spec == Init /\ [][Next]_vars
=============================================================================
