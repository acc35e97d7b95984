---------------------------- MODULE PriorityBag ----------------------------
(***************************************************************************)
(* What the red-black tree promises: a bag of keys that gives back its     *)
(* smallest one, and deletes any.                                          *)
(***************************************************************************)
EXTENDS Integers

CONSTANTS Keys,
          Nothing  \* no answer

VARIABLES content,  \* how often the bag holds each key
          reply     \* the key the last call gave back, if it was the smallest

vars == <<content, reply>>

Held  == {k \in Keys : content[k] > 0}
Least == CHOOSE k \in Held : \A j \in Held : k <= j

Init == content = [k \in Keys |-> 0] /\ reply = Nothing

Add(k) == content' = [content EXCEPT ![k] = @ + 1] /\ reply' = Nothing

Take(k) == content' = [content EXCEPT ![k] = @ - 1]

PopMin == Held # {} /\ Take(Least) /\ reply' = Least
Delete(k) == k \in Held /\ Take(k) /\ reply' = Nothing

Next == PopMin \/ \E k \in Keys : Add(k) \/ Delete(k)

Spec == Init /\ [][Next]_vars
=============================================================================
