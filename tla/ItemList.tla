------------------------------ MODULE ItemList ------------------------------
(***************************************************************************)
(* What the list, the queue and the stack promise: a sequence of items.  A *)
(* list may change it anywhere; a queue adds at the end and a stack at the *)
(* beginning, and both remove at the beginning only.                       *)
(***************************************************************************)
EXTENDS Integers, Sequences

CONSTANTS Items, Nothing

VARIABLES kind,     \* "list", "queue" or "stack"
          content,
          reply     \* the item the last call returned, or Nothing

vars == <<kind, content, reply>>

Kinds == {"list", "queue", "stack"}

Init == kind \in Kinds /\ content = <<>> /\ reply = Nothing

Positions == DOMAIN content

Without(i) == SubSeq(content, 1, i - 1) \o SubSeq(content, i + 1, Len(content))

Insert(i, item) ==
    /\ kind = "queue" => i = Len(content) + 1
    /\ kind = "stack" => i = 1
    /\ content' = SubSeq(content, 1, i - 1) \o <<item>>
                  \o SubSeq(content, i, Len(content))
    /\ reply' = Nothing

Remove(i) ==
    /\ kind # "list" => i = 1
    /\ content' = Without(i)
    /\ reply' \in {content[i], Nothing}

Replace(i, item) ==
    /\ kind = "list"
    /\ content' = [content EXCEPT ![i] = item]
    /\ reply' = Nothing

Look == content' = content /\ reply' \in {content[i] : i \in Positions} \cup {Nothing}

Empty == content' = <<>> /\ reply' = Nothing

Next ==
    \/ /\ kind' = kind
       /\ \/ \E i \in 1 .. Len(content) + 1, item \in Items : Insert(i, item)
          \/ \E i \in Positions : Remove(i) \/ \E item \in Items : Replace(i, item)
          \/ Look
    \/ kind' \in Kinds /\ Empty

Spec == Init /\ [][Next]_vars
=============================================================================
