---------------------------- MODULE ElementArray ----------------------------
(***************************************************************************)
(* What zbaselib_array promises: elements numbered from 1 (index 0 of the  *)
(* code) without gaps.  There is one exception, an insertion for which     *)
(* there is no memory: it reports success and does nothing.                *)
(***************************************************************************)
EXTENDS Integers, Sequences, FiniteSets

CONSTANTS Elements

VARIABLES content,
          reply     \* what get or find returned; <<>> for any other call

vars == <<content, reply>>

Init == content = <<>> /\ reply = <<>>

Positions == DOMAIN content

Insert(i, e) ==
    /\ content' = SubSeq(content, 1, i - 1) \o <<e>>
                  \o SubSeq(content, i, Len(content))
    /\ reply' = <<>>

Remove(i) ==
    /\ content' = SubSeq(content, 1, i - 1)
                  \o SubSeq(content, i + 1, Len(content))
    /\ reply' = <<>>

Replace(i, e) == content' = [content EXCEPT ![i] = e] /\ reply' = <<>>

Get(i) == content' = content /\ reply' = <<content[i]>>

(* The position of the first element that is equal to e, or 0.             *)
Find(e) ==
    /\ content' = content
    /\ \E i \in Positions \cup {0} :
          /\ i # 0 => content[i] = e
          /\ \A j \in Positions : content[j] = e => i # 0 /\ i <= j
          /\ reply' = <<i>>

Occurrences(s, e) == Cardinality({i \in DOMAIN s : s[i] = e})

Sort ==
    /\ content' \in [Positions -> Elements]
    /\ \A i, j \in Positions : i < j => content'[i] <= content'[j]
    /\ \A e \in Elements : Occurrences(content', e) = Occurrences(content, e)
    /\ reply' = <<>>

Nothing == content' = content /\ reply' = <<>>

Empty == content' = <<>> /\ reply' = <<>>

Next == \/ \E e \in Elements : \/ \E i \in 1 .. Len(content) + 1 : Insert(i, e)
                               \/ \E i \in Positions : Replace(i, e)
                               \/ Find(e)
        \/ \E i \in Positions : Remove(i) \/ Get(i)
        \/ Sort \/ Nothing \/ Empty

Spec == Init /\ [][Next]_vars
=============================================================================
