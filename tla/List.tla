-------------------------------- MODULE List --------------------------------
(***************************************************************************)
(* The doubly linked list of zbaselib_list.c with its iterator, and the    *)
(* queue and the stack that zbaselib_queue.c and zbaselib_stack.c make of  *)
(* it.  A ring of cells around a head that holds no data.                  *)
(*                                                                         *)
(* One caller uses one of the three at a time; the library takes no lock   *)
(* here.  The data are pointers, each in the list once at most, as the     *)
(* header asks; with ddfunc the list owns what is put into it and frees it *)
(* when it is removed.  Cells and data may be allocated again after they   *)
(* were freed.                                                             *)
(***************************************************************************)
EXTENDS Integers, Sequences, FiniteSets

CONSTANTS
    Nodes,   \* the cells calloc can return: a bound on the length
    Root,    \* thiz->head
    Null, Data

ASSUME ListAssumption ==
    /\ Root \notin Nodes /\ Null \notin Nodes \cup {Root} \cup Data
    /\ IsFiniteSet(Nodes) /\ IsFiniteSet(Data)

VARIABLES
    kind,        \* "list", "queue" or "stack"
    exists,      \* between create and destroy
    ddfunc,      \* was it created with a ddfunc?
    next, prev, data,
    live,        \* the nodes that are allocated
    cursor, match,  \* where del_use_cond is, and what its cmp accepts
    iter,        \* iterater->node
    visited,     \* history: the data the iterator returned since first
    clean,       \* history: nothing was added or removed since first
    given,       \* history: data the caller put into a list with ddfunc
    freed,       \* data that ddfunc was called with
    reply        \* the data the last call returned

linkVars == <<next, prev, data, live>>
scanVars == <<cursor, match>>
iterVars == <<iter, visited, clean>>
ownVars  == <<given, freed>>
vars == <<kind, exists, ddfunc, linkVars, scanVars, iterVars, ownVars, reply>>

Cells == Nodes \cup {Root}
Size  == Cardinality(live)

(* The cell k links behind the head, and the node at an index: Null if the *)
(* walk comes back to the head before.                                     *)
Walk[k \in 0 .. Cardinality(Nodes) + 1] ==
    IF k = 0 THEN Root ELSE next[Walk[k - 1]]

NodeAt(i) ==
    IF \A k \in 1 .. i + 1 : Walk[k] # Root THEN Walk[i + 1] ELSE Null

Indices == 0 .. Cardinality(Nodes)
IsEmpty == next[Root] = Root

Length  == CHOOSE n \in Indices : NodeAt(n) = Null /\ \A k \in 0 .. n - 1 : NodeAt(k) # Null
Content == [i \in 1 .. Length |-> data[NodeAt(i - 1)]]
Listed  == {data[n] : n \in live}

Ready == exists /\ cursor = Null

-----------------------------------------------------------------------------
(* Links *)

(* zlist_create_node and zlist_add_node between the cells p and q.         *)
OneWay_PrevAfterAdd(n, p, q) == [prev EXCEPT ![n] = p]
PrevAfterAdd(n, p, q) == [prev EXCEPT ![n] = p, ![q] = n]

AddBetween(d, p, q) ==
    /\ d \notin Listed /\ d \notin freed
    /\ \E n \in Nodes \ live :
          /\ next' = [next EXCEPT ![p] = n, ![n] = q]
          /\ prev' = PrevAfterAdd(n, p, q)
          /\ data' = [data EXCEPT ![n] = d]
          /\ live' = live \cup {n}
    /\ given' = IF ddfunc THEN given \cup {d} ELSE given
    /\ reply' = Null
    /\ clean' = FALSE
    /\ UNCHANGED <<kind, exists, ddfunc, scanVars, iter, visited, freed>>

(* What zlist_destroy_node and the set functions free.                     *)
FreedWith(d) == IF ddfunc THEN freed \cup {d} ELSE freed

(* zlist_del_node and zlist_destroy_node.                                  *)
Delete(n) ==
    /\ next' = [next EXCEPT ![prev[n]] = next[n], ![n] = Null]
    /\ prev' = [prev EXCEPT ![next[n]] = prev[n], ![n] = Null]
    /\ data' = [data EXCEPT ![n] = Null]
    /\ live' = live \ {n}
    /\ freed' = FreedWith(data[n])
    /\ clean' = FALSE
    /\ UNCHANGED <<kind, exists, ddfunc, iter, visited, given>>

-----------------------------------------------------------------------------
(* The functions of the list *)

AddHead(d) == Ready /\ AddBetween(d, Root, next[Root])
AddTail(d) == Ready /\ AddBetween(d, prev[Root], Root)

(* zbaselib_list_add: an empty list at 0, the end, or before a node.       *)
Add(d, index) ==
    \/ IsEmpty /\ index = 0 /\ AddHead(d)
    \/ ~(IsEmpty /\ index = 0) /\ index = Length /\ AddTail(d)
    \/ /\ Ready /\ index # Length
       /\ NodeAt(index) # Null
       /\ AddBetween(d, prev[NodeAt(index)], NodeAt(index))

DelHead == Ready /\ ~IsEmpty /\ Delete(next[Root]) /\ reply' = Null
           /\ UNCHANGED scanVars
DelTail == Ready /\ ~IsEmpty /\ Delete(prev[Root]) /\ reply' = Null
           /\ UNCHANGED scanVars

Del(index) ==
    /\ Ready /\ ~IsEmpty
    /\ NodeAt(index) # Null
    /\ Delete(NodeAt(index))
    /\ reply' = Null
    /\ UNCHANGED scanVars

(* sethead, settail and set call ddfunc without a check: a list without it *)
(* must not use them.                                                      *)
SetData(n, d) ==
    /\ Ready /\ ddfunc
    /\ d \notin Listed /\ d \notin freed
    /\ data' = [data EXCEPT ![n] = d]
    /\ freed' = FreedWith(data[n])
    /\ given' = given \cup {d}
    /\ reply' = Null
    /\ clean' = FALSE
    /\ UNCHANGED <<kind, exists, ddfunc, next, prev, live, scanVars, iter, visited>>

SetHead(d) == ~IsEmpty /\ SetData(next[Root], d)
SetTail(d) == ~IsEmpty /\ SetData(prev[Root], d)
Set(d, index) == NodeAt(index) # Null /\ SetData(NodeAt(index), d)

Answer(d) ==
    /\ Ready
    /\ reply' = d
    /\ UNCHANGED <<kind, exists, ddfunc, linkVars, scanVars, iterVars, ownVars>>

GetHead == Answer(IF IsEmpty THEN Null ELSE data[next[Root]])
GetTail == Answer(IF IsEmpty THEN Null ELSE data[prev[Root]])
Get(index) == Answer(IF NodeAt(index) = Null THEN Null ELSE data[NodeAt(index)])

(* zbaselib_list_find, which returns the index of the first match.         *)
Find(accepted) ==
    LET found == {i \in DOMAIN Content : Content[i] \in accepted}
    IN  Answer(IF found = {} THEN Null
               ELSE Content[CHOOSE i \in found : \A j \in found : i <= j])

(* zbaselib_list_del_use_cond: a loop over the cursor, one turn a step.    *)
ScanStart(accepted) ==
    /\ Ready /\ ~IsEmpty
    /\ cursor' = Root /\ match' = accepted
    /\ UNCHANGED <<kind, exists, ddfunc, linkVars, iterVars, ownVars, reply>>

ScanKeep ==
    /\ cursor # Null /\ next[cursor] # Root
    /\ data[next[cursor]] \notin match
    /\ cursor' = next[cursor]
    /\ UNCHANGED <<kind, exists, ddfunc, linkVars, match, iterVars, ownVars, reply>>

Skips_AfterDelete(n) == next[n]
AfterDelete(n) == prev[n]

ScanDelete ==
    /\ cursor # Null /\ next[cursor] # Root
    /\ data[next[cursor]] \in match
    /\ cursor' = AfterDelete(next[cursor])
    /\ Delete(next[cursor])
    /\ reply' = Null
    /\ UNCHANGED match

ScanEnd ==
    /\ cursor # Null /\ next[cursor] = Root
    /\ cursor' = Null /\ match' = {}
    /\ UNCHANGED <<kind, exists, ddfunc, linkVars, iterVars, ownVars, reply>>

-----------------------------------------------------------------------------
(* Clear, destroy and create *)

Unlinked == [c \in Cells |-> IF c = Root THEN Root ELSE Null]

RemoveAll ==
    /\ next' = Unlinked /\ prev' = Unlinked
    /\ data' = [c \in Cells |-> Null]
    /\ live' = {}
    /\ reply' = Null
    /\ clean' = FALSE
    /\ UNCHANGED <<kind, ddfunc, scanVars, visited>>

Clear ==
    /\ Ready
    /\ RemoveAll
    /\ freed' = IF ddfunc THEN freed \cup Listed ELSE freed
    /\ UNCHANGED <<exists, iter, given>>

(* destroy; an iterator over the list has to go with it.                   *)
Destroy ==
    /\ Ready
    /\ RemoveAll
    /\ freed' = IF ddfunc THEN freed \cup Listed ELSE freed
    /\ exists' = FALSE
    /\ iter' = Null
    /\ UNCHANGED given

(* queue_destroy1 and stack_destroy1 of one created without ddfunc.        *)
Destroy1 ==
    /\ Ready /\ kind # "list" /\ ~ddfunc
    /\ RemoveAll
    /\ freed' = freed \cup Listed
    /\ exists' = FALSE
    /\ iter' = Null
    /\ UNCHANGED given

Create ==
    /\ ~exists
    /\ exists' = TRUE
    /\ kind' \in {"list", "queue", "stack"}
    /\ ddfunc' \in BOOLEAN
    /\ given' = freed
    /\ visited' = <<>>
    /\ UNCHANGED <<linkVars, scanVars, iter, clean, freed, reply>>

(* The caller allocates data at an address that was freed.                 *)
Malloc(d) ==
    /\ d \in freed
    /\ freed' = freed \ {d} /\ given' = given \ {d}
    /\ UNCHANGED <<kind, exists, ddfunc, linkVars, scanVars, iterVars, reply>>

-----------------------------------------------------------------------------
(* The iterator, and the caller's loop over it *)

(* first and last return NULL and leave the iterator alone if the list is  *)
(* empty.                                                                  *)
IterStart(n, order) ==
    /\ Ready /\ ~IsEmpty
    /\ iter' = n
    /\ visited' = <<data[n]>>
    /\ clean' = order
    /\ reply' = data[n]
    /\ UNCHANGED <<kind, exists, ddfunc, linkVars, scanVars, ownVars>>

IterFirst == IterStart(next[Root], TRUE)
IterLast  == IterStart(prev[Root], FALSE)
IterEmpty == IsEmpty /\ Answer(Null)

Following(n) == next[n]

(* The caller must not go on from a node it has deleted.                   *)
IterNext ==
    /\ Ready /\ iter \in live
    /\ iter' = Following(iter)
    /\ visited' = IF ~clean \/ iter' = Root THEN visited
                  ELSE Append(visited, data[iter'])
    /\ reply' = data[iter']
    /\ UNCHANGED <<kind, exists, ddfunc, linkVars, scanVars, clean, ownVars>>

(* zlist_isend: before the first and behind the last node next stays.      *)
IterAtEnd == iter \in {Null, Root} /\ Answer(Null)

-----------------------------------------------------------------------------
(* The queue and the stack.  pop1 returns the data it removes: only one    *)
(* created without ddfunc can be used so.                                  *)

Tail_Push(d) == AddTail(d)
Push(d) == \/ kind = "queue" /\ AddTail(d)
           \/ kind = "stack" /\ AddHead(d)

Pop1 ==
    /\ Ready /\ ~IsEmpty /\ ~ddfunc
    /\ Delete(next[Root])
    /\ reply' = data[next[Root]]
    /\ UNCHANGED scanVars

-----------------------------------------------------------------------------
Init ==
    /\ kind \in {"list", "queue", "stack"} /\ ddfunc \in BOOLEAN
    /\ exists = TRUE
    /\ next = Unlinked /\ prev = Unlinked
    /\ data = [c \in Cells |-> Null]
    /\ live = {}
    /\ cursor = Null /\ match = {}
    /\ iter = Null /\ visited = <<>> /\ clean = FALSE
    /\ given = {} /\ freed = {}
    /\ reply = Null

ListStep ==
    /\ kind = "list"
    /\ \/ \E d \in Data :
             \/ AddHead(d) \/ AddTail(d) \/ SetHead(d) \/ SetTail(d)
             \/ \E i \in Indices : Add(d, i) \/ Set(d, i)
       \/ DelHead \/ DelTail \/ GetHead \/ GetTail \/ Clear
       \/ \E i \in Indices : Del(i) \/ Get(i)
       \/ \E accepted \in SUBSET Data : Find(accepted) \/ ScanStart(accepted)
       \/ ScanKeep \/ ScanDelete \/ ScanEnd

QueueStackStep ==
    /\ kind # "list"
    /\ \/ \E d \in Data : Push(d)
       \/ DelHead \/ GetHead \/ Pop1 \/ Destroy1

Next ==
    \/ ListStep \/ QueueStackStep
    \/ IterFirst \/ IterLast \/ IterEmpty \/ IterNext \/ IterAtEnd
    \/ Destroy \/ Create \/ \E d \in Data : Malloc(d)

Spec == Init /\ [][Next]_vars

-----------------------------------------------------------------------------
(* Properties *)

TypeOK ==
    /\ kind \in {"list", "queue", "stack"}
    /\ exists \in BOOLEAN /\ ddfunc \in BOOLEAN /\ clean \in BOOLEAN
    /\ next \in [Cells -> Cells \cup {Null}]
    /\ prev \in [Cells -> Cells \cup {Null}]
    /\ data \in [Cells -> Data \cup {Null}]
    /\ live \in SUBSET Nodes
    /\ cursor \in Cells \cup {Null} /\ match \in SUBSET Data
    /\ iter \in Cells \cup {Null}
    /\ visited \in Seq(Data)
    /\ given \in SUBSET Data /\ freed \in SUBSET Data
    /\ reply \in Data \cup {Null}

(* A list with ddfunc owns what it was given: all of it is either in the   *)
(* list or freed, never both, so nothing leaks, is freed twice or is still *)
(* reachable after it was freed.                                           *)
Owned == ddfunc => given = Listed \cup freed /\ Listed \cap freed = {}

(* The allocated nodes and the head form one ring, the same in both        *)
(* directions, whichever end or middle an operation worked on; a walk that *)
(* starts at the head meets every node once, and with them what the list   *)
(* owns.                                                                   *)
Ring ==
    /\ TypeOK /\ Owned
    /\ \A c \in live \cup {Root} :
          /\ next[c] \in live \cup {Root} /\ prev[next[c]] = c
          /\ prev[c] \in live \cup {Root} /\ next[prev[c]] = c
    /\ {Walk[k] : k \in 1 .. Size} = live

(* del_use_cond deletes every match: behind its cursor none is left, and   *)
(* the cursor is never on a node that it has freed.                        *)
ScanDeletesAll ==
    cursor # Null =>
        /\ cursor \in live \cup {Root}
        /\ next[cursor] = Root => Listed \cap match = {}

(* An iteration from first to the end over a list that is left alone sees  *)
(* every element once, in order.                                           *)
IterationComplete == clean /\ iter = Root => visited = Content

(* Neither of the two walks over the list misses a node.                   *)
WalksComplete == ScanDeletesAll /\ IterationComplete

Sequence == INSTANCE ItemList WITH
    Items <- Data, Nothing <- Null, content <- Content

(* The linked cells implement a sequence: every step of a list inserts,    *)
(* removes or replaces one item and leaves the others in their order, a    *)
(* queue is first-in first-out, and a stack is last-in first-out.          *)
ImplementsSequence == Sequence!Spec
=============================================================================
