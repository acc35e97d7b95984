------------------------------- MODULE Array --------------------------------
(***************************************************************************)
(* The dynamic array of zbaselib_array.c.  Its elements are the first size *)
(* cells of a block of memory with room for capacity of them.  A full      *)
(* block grows by half and ZBASELIB_ARRAY_MIN_NUM, one that is less than   *)
(* half full shrinks to half more than it holds.                           *)
(*                                                                         *)
(* realloc may fail and leaves the block alone then.  A realloc to 0 bytes *)
(* also returns NULL with some libraries (glibc, Microsoft's), but has     *)
(* freed the block; with others it returns a block without room.  Both are *)
(* modelled, and what happens when freed memory is used is not: the run    *)
(* ends there, with block = "misused".                                     *)
(*                                                                         *)
(* Positions are those of TLA+ sequences: position 1 is index 0.  A call   *)
(* with an index outside of the array, or with a NULL pointer, returns     *)
(* early and changes nothing; such calls are left out.                     *)
(***************************************************************************)
EXTENDS Integers, Sequences, FiniteSets

CONSTANTS
    Elements,
    Unset,        \* what malloc and realloc leave in new memory
    MinNum,       \* ZBASELIB_ARRAY_MIN_NUM, 10 in the code
    ElemNums,     \* the values of elemNum that create is called with
    MaxSize       \* bound: elements in the array

ASSUME ArrayAssumption ==
    /\ Elements \subseteq Int /\ Unset \notin Elements
    /\ MinNum \in Nat \ {0} /\ ElemNums \subseteq Int /\ MaxSize \in Nat

VARIABLES
    block,        \* "none", "held", "freed" or "misused"
    cells,        \* what is in the block, as long as it is held
    size, capacity,
    found         \* history: what the last get or find returned

arrayVars == <<block, cells, size, capacity, found>>

NoBlock == <<>>

-----------------------------------------------------------------------------
(* Memory *)

NewCells(n) == [i \in 1 .. n |-> Unset]

(* The loop of insert: the cells from i on move up by one.                 *)
Placed(memory, i, e) ==
    [k \in DOMAIN memory |-> IF k < i THEN memory[k]
                             ELSE IF k = i THEN e
                             ELSE IF k <= size + 1 THEN memory[k - 1]
                             ELSE memory[k]]

(* The loop of delete: the cells behind i move down by one.                *)
ClosedUp(memory, i) ==
    [k \in DOMAIN memory |-> IF k >= i /\ k < size THEN memory[k + 1]
                             ELSE memory[k]]

-----------------------------------------------------------------------------
(* zbaselib_array_expand *)

OffByOne_Fits == size <= capacity
Fits == size + 1 <= capacity

ExpandedCapacity == capacity + capacity \div 2 + MinNum

Expanded == cells \o NewCells(ExpandedCapacity - capacity)

(* zbaselib_array_reduce, for an array that has n elements left.           *)
Reduces(n) == n < capacity \div 2 /\ capacity > MinNum

ReducedCapacity(n) == n + n \div 2

Reduce(memory, n) ==
    \/ /\ ~Reduces(n) \/ ReducedCapacity(n) > 0
       /\ cells' = memory
       /\ UNCHANGED <<block, capacity>>
    \/ /\ Reduces(n)
       /\ cells' = SubSeq(memory, 1, ReducedCapacity(n))
       /\ capacity' = ReducedCapacity(n)
       /\ UNCHANGED block
    \/ /\ Reduces(n) /\ ReducedCapacity(n) = 0
       /\ cells' = NoBlock
       /\ block' = "freed"
       /\ UNCHANGED capacity

-----------------------------------------------------------------------------
(* The operations *)

ArrayCreate(elemNum) ==
    /\ block = "none"
    /\ block' = "held"
    /\ capacity' = IF elemNum < MinNum THEN MinNum ELSE elemNum
    /\ cells' = NewCells(capacity')
    /\ size' = 0
    /\ found' = <<>>

(* insert; prepend and append are i = 1 and i = size + 1.                  *)
ArrayInsert(e, i) ==
    /\ block = "held" /\ size < MaxSize
    /\ \/ Fits /\ cells' = Placed(cells, i, e) /\ UNCHANGED capacity
       \/ /\ ~Fits
          /\ cells' = Placed(Expanded, i, e)
          /\ capacity' = ExpandedCapacity
    /\ size' = size + 1
    /\ found' = <<>>
    /\ UNCHANGED block

(* expand gets no memory.  insert returns 0 nevertheless.                  *)
ArrayInsertDropped ==
    /\ block = "held"
    /\ ~Fits
    /\ found' = <<>>
    /\ UNCHANGED <<block, cells, size, capacity>>

ArrayDelete(i) ==
    /\ block = "held"
    /\ Reduce(ClosedUp(cells, i), size - 1)
    /\ size' = size - 1
    /\ found' = <<>>

ArraySet(e, i) ==
    /\ block = "held"
    /\ cells' = [cells EXCEPT ![i] = e]
    /\ found' = <<>>
    /\ UNCHANGED <<block, size, capacity>>

ArrayGet(i) ==
    /\ block = "held"
    /\ found' = <<cells[i]>>
    /\ UNCHANGED <<block, cells, size, capacity>>

(* The first cell for which cmp returns 0; 0 stands for -1.                *)
Matches(e) == {i \in 1 .. size : cells[i] = e}

Last_FirstMatch(e) ==
    IF Matches(e) = {} THEN 0
    ELSE CHOOSE i \in Matches(e) : \A j \in Matches(e) : j <= i
FirstMatch(e) ==
    IF Matches(e) = {} THEN 0
    ELSE CHOOSE i \in Matches(e) : \A j \in Matches(e) : i <= j

ArrayFind(e) ==
    /\ block = "held"
    /\ found' = <<FirstMatch(e)>>
    /\ UNCHANGED <<block, cells, size, capacity>>

(* sort is a function of the caller's; it is given the used cells.         *)
IsSorted(s) == \A i, j \in DOMAIN s : i < j => s[i] <= s[j]

SameElements(s, t) ==
    \A e \in Elements : Cardinality({i \in DOMAIN s : s[i] = e})
                       = Cardinality({i \in DOMAIN t : t[i] = e})

ArraySort ==
    /\ block = "held"
    /\ \E s \in [1 .. size -> Elements] :
          /\ IsSorted(s) /\ SameElements(SubSeq(cells, 1, size), s)
          /\ cells' = s \o SubSeq(cells, size + 1, capacity)
    /\ found' = <<>>
    /\ UNCHANGED <<block, size, capacity>>

ArrayDestroy ==
    /\ block = "held"
    /\ block' = "none"
    /\ cells' = NoBlock
    /\ size' = 0 /\ capacity' = 0
    /\ found' = <<>>

(* The pointer to a freed block is kept: insert writes through it, and     *)
(* destroy frees it again.                                                 *)
ArrayMisuse ==
    /\ block = "freed"
    /\ block' = "misused"
    /\ found' = <<>>
    /\ UNCHANGED <<cells, size, capacity>>

-----------------------------------------------------------------------------
ArrayInit ==
    /\ block = "none"
    /\ cells = NoBlock
    /\ size = 0 /\ capacity = 0
    /\ found = <<>>

ArrayNext ==
    \/ \E n \in ElemNums : ArrayCreate(n)
    \/ \E e \in Elements : \/ \E i \in 1 .. size + 1 : ArrayInsert(e, i)
                           \/ \E i \in 1 .. size : ArraySet(e, i)
                           \/ ArrayFind(e)
    \/ \E i \in 1 .. size : ArrayDelete(i) \/ ArrayGet(i)
    \/ ArrayInsertDropped \/ ArraySort \/ ArrayDestroy \/ ArrayMisuse

ArraySpec == ArrayInit /\ [][ArrayNext]_arrayVars

-----------------------------------------------------------------------------
(* Properties *)

ArrayTypeOK ==
    /\ block \in {"none", "held", "freed", "misused"}
    /\ cells \in Seq(Elements \cup {Unset})
    /\ size \in Nat /\ capacity \in Nat
    /\ found \in Seq(Elements \cup Nat)

(* However often the array grew and shrank, and whichever of the calls to  *)
(* realloc failed, capacity is what the block has room for, the elements   *)
(* are in it, and none of them is unset memory.  The block is lost in one  *)
(* case only: the last element of an array with room for more than         *)
(* ZBASELIB_ARRAY_MIN_NUM was deleted.                                     *)
ArrayBlockHolds ==
    /\ ArrayTypeOK
    /\ block = "held" => /\ Len(cells) = capacity
                         /\ size <= capacity
                         /\ \A i \in 1 .. size : cells[i] # Unset
    /\ block \in {"freed", "misused"} => size = 0 /\ capacity > MinNum

Contents == SubSeq(cells, 1, size)

Abstract == INSTANCE ElementArray WITH content <- Contents, reply <- found

(* The block implements a sequence of elements: shifting, growing and      *)
(* shrinking move every element to its new position and lose none.         *)
ArrayImplementsSequence == Abstract!Spec
=============================================================================
