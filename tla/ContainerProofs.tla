-------------------------- MODULE ContainerProofs ---------------------------
(***************************************************************************)
(* Proofs about the dynamic array and about the linked list, the queue and *)
(* the stack, for every set of elements and of data, every number of nodes *)
(* and every length.  The array keeps its elements in memory it holds; the *)
(* nodes of the list are one ring, whose walks miss none of them; and all  *)
(* four are sequences that each call changes at one place.                 *)
(***************************************************************************)
EXTENDS Array, List, SequenceFacts, FiniteSetTheorems

Stored == Elements \cup {Unset}

(* The loop of insert fills cell i and moves the cells from i to size up.  *)
LEMMA PlacedIs ==
    ASSUME NEW memory \in Seq(Stored), size \in Nat, size + 1 <= Len(memory),
           NEW i \in 1 .. size + 1, NEW e \in Elements
    PROVE  /\ Placed(memory, i, e) \in Seq(Stored)
           /\ Len(Placed(memory, i, e)) = Len(memory)
           /\ \A k \in 1 .. size + 1 :
                 Placed(memory, i, e)[k] =
                     IF k < i THEN memory[k] ELSE IF k = i THEN e ELSE memory[k - 1]
<1>1. PICK L : L = Len(memory)
  OBVIOUS
<1>2. /\ L \in Nat /\ DOMAIN memory = 1 .. L /\ size + 1 <= L
      /\ \A k \in 1 .. L : memory[k] \in Stored
  BY <1>1, LenProperties, ElementOfSeq
<1>3. PICK p : p = Placed(memory, i, e)
  OBVIOUS
<1>4. p = [k \in 1 .. L |-> IF k < i THEN memory[k]
                            ELSE IF k = i THEN e
                            ELSE IF k <= size + 1 THEN memory[k - 1]
                            ELSE memory[k]]
  BY <1>2, <1>3 DEF Placed
<1>5. ASSUME NEW k \in 1 .. L PROVE p[k] \in Stored
  <2>1. e \in Stored
    BY DEF Stored
  <2>2. k > i => k - 1 \in 1 .. L
    BY <1>2
  <2> QED
    BY <1>2, <1>4, <2>1, <2>2
<1>6. p \in [1 .. L -> Stored]
  BY <1>4, <1>5
<1>7. p \in Seq(Stored) /\ Len(p) = L
  BY <1>2, <1>6, FunctionIsSeq
<1>8. \A k \in 1 .. size + 1 :
         p[k] = IF k < i THEN memory[k] ELSE IF k = i THEN e ELSE memory[k - 1]
  BY <1>2, <1>4
<1> QED
  BY <1>1, <1>3, <1>7, <1>8

(* The loop of delete moves the cells behind i down.                       *)
LEMMA ClosedUpIs ==
    ASSUME NEW memory \in Seq(Stored), size \in Nat, size <= Len(memory),
           NEW i \in 1 .. size
    PROVE  /\ ClosedUp(memory, i) \in Seq(Stored)
           /\ Len(ClosedUp(memory, i)) = Len(memory)
           /\ \A k \in 1 .. size - 1 :
                 ClosedUp(memory, i)[k] = IF k < i THEN memory[k] ELSE memory[k + 1]
<1>1. PICK L : L = Len(memory)
  OBVIOUS
<1>2. /\ L \in Nat /\ DOMAIN memory = 1 .. L /\ size <= L
      /\ \A k \in 1 .. L : memory[k] \in Stored
  BY <1>1, LenProperties, ElementOfSeq
<1>3. PICK p : p = ClosedUp(memory, i)
  OBVIOUS
<1>4. p = [k \in 1 .. L |-> IF k >= i /\ k < size THEN memory[k + 1] ELSE memory[k]]
  BY <1>2, <1>3 DEF ClosedUp
<1>5. \A k \in 1 .. L : p[k] \in Stored
  BY <1>2, <1>4
<1>6. p \in [1 .. L -> Stored]
  BY <1>4, <1>5
<1>7. p \in Seq(Stored) /\ Len(p) = L
  BY <1>2, <1>6, FunctionIsSeq
<1>8. \A k \in 1 .. size - 1 : p[k] = IF k < i THEN memory[k] ELSE memory[k + 1]
  BY <1>2, <1>4
<1> QED
  BY <1>1, <1>3, <1>7, <1>8

(* New memory, and a block that grew.                                      *)
LEMMA NewCellsAre ==
    ASSUME NEW n \in Nat
    PROVE  NewCells(n) \in Seq(Stored) /\ Len(NewCells(n)) = n
BY FunctionIsSeq DEF NewCells, Stored

(* expand makes room for one element more and keeps what is there.         *)
LEMMA ExpandedIs ==
    ASSUME cells \in Seq(Stored), capacity \in Nat, Len(cells) = capacity
    PROVE  /\ ExpandedCapacity \in Nat /\ ExpandedCapacity >= capacity + 1
           /\ Expanded \in Seq(Stored) /\ Len(Expanded) = ExpandedCapacity
           /\ \A k \in 1 .. capacity : Expanded[k] = cells[k]
<1>1. ExpandedCapacity \in Nat /\ ExpandedCapacity >= capacity + 1
  BY ArrayAssumption DEF ExpandedCapacity
<1>2. PICK n \in Nat : n = ExpandedCapacity - capacity
  BY <1>1
<1>3. PICK new : new = NewCells(n)
  OBVIOUS
<1>4. new \in Seq(Stored) /\ Len(new) = n
  BY <1>3, NewCellsAre
<1>5. PICK x : x = cells \o new
  OBVIOUS
<1>6. /\ x \in Seq(Stored) /\ Len(x) = Len(cells) + Len(new)
      /\ \A k \in 1 .. Len(cells) + Len(new) :
            x[k] = IF k <= Len(cells) THEN cells[k] ELSE new[k - Len(cells)]
  BY ONLY <1>4, <1>5, cells \in Seq(Stored), ConcatProperties
<1>7. /\ x \in Seq(Stored) /\ Len(x) = ExpandedCapacity
      /\ \A k \in 1 .. capacity : x[k] = cells[k]
  BY <1>1, <1>2, <1>4, <1>6
<1>8. Expanded = x
  BY <1>2, <1>3, <1>5 DEF Expanded
<1> QED
  BY <1>1, <1>7, <1>8

(* The elements are the used cells.                                        *)
LEMMA ContentsAre ==
    ASSUME NEW c \in Seq(Stored), NEW n \in Nat, n <= Len(c),
           \A i \in 1 .. n : c[i] # Unset
    PROVE  /\ SubSeq(c, 1, n) \in Seq(Elements) /\ Len(SubSeq(c, 1, n)) = n
           /\ DOMAIN SubSeq(c, 1, n) = 1 .. n
           /\ \A i \in 1 .. n : SubSeq(c, 1, n)[i] = c[i] /\ c[i] \in Elements
<1>1. ASSUME NEW i \in 1 .. n PROVE c[i] \in Elements
  <2>1. i \in 1 .. Len(c)
    BY LenProperties
  <2>2. c[i] \in Stored
    BY <2>1, ElementOfSeq
  <2> QED
    BY <2>2 DEF Stored
<1>2. /\ SubSeq(c, 1, n) \in Seq(Elements)
      /\ Len(SubSeq(c, 1, n)) = IF 1 <= n THEN n - 1 + 1 ELSE 0
      /\ \A i \in 1 .. n - 1 + 1 : SubSeq(c, 1, n)[i] = c[1 + i - 1]
  <2>1. 1 \in Int /\ n \in Int
    OBVIOUS
  <2> QED
    BY ONLY <1>1, <2>1, SubSeqProperties
<1>3. PICK s : s = SubSeq(c, 1, n)
  OBVIOUS
<1>4. s \in Seq(Elements) /\ Len(s) = n /\ \A i \in 1 .. n : s[i] = c[i]
  BY <1>2, <1>3
<1>5. DOMAIN s = 1 .. n
  BY <1>4, LenProperties
<1> QED
  BY <1>1, <1>3, <1>4, <1>5

-----------------------------------------------------------------------------
(* What is known of an array that holds its block, before a call.          *)
LEMMA HeldIs ==
    ASSUME ArrayBlockHolds, block = "held"
    PROVE  /\ cells \in Seq(Stored) /\ size \in Nat /\ capacity \in Nat
           /\ Len(cells) = capacity /\ size <= capacity
           /\ \A i \in 1 .. size : cells[i] # Unset
           /\ Contents \in Seq(Elements) /\ Len(Contents) = size
           /\ DOMAIN Contents = 1 .. size
           /\ \A i \in 1 .. size : Contents[i] = cells[i] /\ cells[i] \in Elements
<1>1. /\ cells \in Seq(Stored) /\ size \in Nat /\ capacity \in Nat
      /\ Len(cells) = capacity /\ size <= capacity
      /\ \A i \in 1 .. size : cells[i] # Unset
  BY DEF ArrayBlockHolds, ArrayTypeOK, Stored
<1>2. size <= Len(cells)
  BY <1>1
<1> QED
  BY <1>1, <1>2, ContentsAre DEF Contents

(* What has to be shown of it after the call.                              *)
LEMMA StillHeld ==
    ASSUME block' = "held", found' \in Seq(Elements \cup Nat),
           NEW c, c = cells', c \in Seq(Stored),
           NEW m, m = size', m \in Nat,
           NEW p, p = capacity', p \in Nat,
           Len(c) = p, m <= p, \A i \in 1 .. m : c[i] # Unset
    PROVE  /\ ArrayBlockHolds'
           /\ Contents' \in Seq(Elements) /\ Len(Contents') = m
           /\ DOMAIN Contents' = 1 .. m
           /\ \A i \in 1 .. m : Contents'[i] = c[i] /\ c[i] \in Elements
<1>1. ArrayTypeOK'
  BY DEF ArrayTypeOK, Stored
<1>2. ArrayBlockHolds'
  BY <1>1 DEF ArrayBlockHolds
<1>3. m <= Len(c) /\ Contents' = SubSeq(c, 1, m)
  BY DEF Contents
<1> QED
  BY ZenonT(40), <1>2, <1>3, ContentsAre

(* A step of the array, and the one it makes of the abstract sequence.     *)
Goes == ArrayBlockHolds' /\ [Abstract!Next]_<<Contents, found>>

(* What found is between two calls of the array.                           *)
LEMMA NoReply == <<>> \in Seq(Elements \cup Nat)
BY EmptySeq

(* zbaselib_array_create: an empty array, or none if an allocation fails.  *)
LEMMA CreateGoes ==
    ASSUME ArrayBlockHolds, NEW n \in ElemNums, ArrayCreate(n)
    PROVE  Goes
<1>1. /\ block' = "held" /\ found' = <<>> /\ size' = 0
      /\ capacity' = IF n < MinNum THEN MinNum ELSE n
      /\ cells' = NewCells(capacity')
  BY DEF ArrayCreate
<1>2. n \in Int /\ MinNum \in Nat
  BY ArrayAssumption
<1>3. PICK p \in Nat : p = capacity'
  BY <1>1, <1>2
<1>4. PICK c : c = cells'
  OBVIOUS
<1>5. c \in Seq(Stored) /\ Len(c) = p
  BY <1>1, <1>3, <1>4, NewCellsAre
<1>6. PICK m \in Nat : m = size' /\ m = 0
  BY <1>1
<1>7. m <= p /\ \A i \in 1 .. m : c[i] # Unset
  BY <1>3, <1>6
<1>8. ArrayBlockHolds' /\ Contents' \in Seq(Elements) /\ Len(Contents') = 0
  BY ONLY <1>1, <1>3, <1>4, <1>5, <1>6, <1>7, NoReply, StillHeld
<1>9. Contents' = <<>>
  BY ONLY <1>8, EmptySeq
<1>10. Abstract!Empty
  BY <1>1, <1>9 DEF Abstract!Empty
<1> QED
  BY <1>8, <1>10 DEF Goes, Abstract!Next

(* Where insert finds room, or makes it.                                   *)
LEMMA InsertGoes ==
    ASSUME ArrayBlockHolds, NEW e \in Elements, NEW i \in 1 .. size + 1,
           ArrayInsert(e, i)
    PROVE  Goes
<1>1. block = "held" /\ block' = "held" /\ found' = <<>> /\ size' = size + 1
  BY DEF ArrayInsert
<1>2. /\ cells \in Seq(Stored) /\ size \in Nat /\ capacity \in Nat
      /\ Len(cells) = capacity /\ size <= capacity
      /\ \A k \in 1 .. size : cells[k] # Unset
      /\ Contents \in Seq(Elements) /\ Len(Contents) = size
      /\ \A k \in 1 .. size : Contents[k] = cells[k] /\ cells[k] \in Elements
  BY <1>1, HeldIs
<1>3. PICK x : x = IF Fits THEN cells ELSE Expanded
  OBVIOUS
<1>4. PICK p : p = IF Fits THEN capacity ELSE ExpandedCapacity
  OBVIOUS
<1>5. cells' = Placed(x, i, e) /\ capacity' = p
  BY <1>3, <1>4 DEF ArrayInsert
<1>6. /\ p \in Nat /\ size + 1 <= p /\ x \in Seq(Stored) /\ Len(x) = p
      /\ \A k \in 1 .. size : x[k] = cells[k]
  <2>1. CASE Fits
    BY <1>2, <1>3, <1>4, <2>1 DEF Fits
  <2>2. CASE ~Fits
    <3>1. /\ ExpandedCapacity \in Nat /\ ExpandedCapacity >= capacity + 1
          /\ Expanded \in Seq(Stored) /\ Len(Expanded) = ExpandedCapacity
          /\ \A k \in 1 .. capacity : Expanded[k] = cells[k]
      BY <1>2, ExpandedIs
    <3>2. p = ExpandedCapacity /\ x = Expanded
      BY <1>3, <1>4, <2>2
    <3> QED
      BY ONLY <1>2, <3>1, <3>2
  <2> QED
    BY <2>1, <2>2
<1>7. PICK c : c = cells'
  OBVIOUS
<1>8. PICK m \in Nat : m = size' /\ m = size + 1
  BY <1>1, <1>2
<1>9. /\ c \in Seq(Stored) /\ Len(c) = p
      /\ \A k \in 1 .. m : c[k] = IF k < i THEN x[k] ELSE IF k = i THEN e ELSE x[k - 1]
  <2>1. x \in Seq(Stored) /\ size \in Nat /\ size + 1 <= Len(x)
    BY <1>2, <1>6
  <2>2. /\ Placed(x, i, e) \in Seq(Stored)
        /\ Len(Placed(x, i, e)) = Len(x)
        /\ \A k \in 1 .. size + 1 :
              Placed(x, i, e)[k] = IF k < i THEN x[k] ELSE IF k = i THEN e ELSE x[k - 1]
    BY <2>1, PlacedIs
  <2>3. Placed(x, i, e) = c /\ Len(x) = p /\ size + 1 = m
    BY <1>5, <1>6, <1>7, <1>8
  <2> QED
    BY ONLY <2>2, <2>3, Zenon
<1>10. ASSUME NEW k \in 1 .. m
       PROVE  c[k] = IF k < i THEN Contents[k] ELSE IF k = i THEN e ELSE Contents[k - 1]
  <2>1. (k < i => k \in 1 .. size) /\ (k > i => k - 1 \in 1 .. size)
    BY <1>2, <1>8
  <2> QED
    BY <1>2, <1>6, <1>8, <1>9, <2>1
<1>11. \A k \in 1 .. m : c[k] # Unset
  <2> SUFFICES ASSUME NEW k \in 1 .. m PROVE c[k] # Unset
    OBVIOUS
  <2>1. (k < i => k \in 1 .. size) /\ (k > i => k - 1 \in 1 .. size)
    BY <1>2, <1>8
  <2> QED
    BY <1>2, <1>8, <1>10, <2>1, ArrayAssumption
<1>12. /\ ArrayBlockHolds' /\ Contents' \in Seq(Elements) /\ Len(Contents') = m
       /\ \A k \in 1 .. m : Contents'[k] = c[k]
  <2>1. m <= p
    BY <1>6, <1>8
  <2> QED
    BY ONLY <1>1, <1>5, <1>6, <1>7, <1>8, <1>9, <1>11, <2>1, NoReply, StillHeld
<1>13. PICK s : s = Contents
  OBVIOUS
<1>14. PICK r : r = WithAt(s, i, e)
  OBVIOUS
<1>15. /\ s \in Seq(Elements) /\ i \in 1 .. Len(s) + 1
  BY <1>2, <1>13
<1>16. /\ r \in Seq(Elements) /\ Len(r) = Len(s) + 1
       /\ \A k \in 1 .. Len(s) + 1 :
             r[k] = IF k < i THEN s[k] ELSE IF k = i THEN e ELSE s[k - 1]
  <2>1. e \in Elements
    OBVIOUS
  <2>2. /\ WithAt(s, i, e) \in Seq(Elements)
        /\ Len(WithAt(s, i, e)) = Len(s) + 1
        /\ \A k \in 1 .. Len(s) + 1 :
              WithAt(s, i, e)[k] = ElementWith(s, i, e, k)
    BY ONLY <1>15, <2>1, InsertedAt
  <2> QED
    BY ONLY <1>14, <2>2 DEF ElementWith
<1>17. Contents' = r
  <2>1. Len(r) = m /\ \A k \in 1 .. m : Contents'[k] = r[k]
    BY <1>2, <1>8, <1>10, <1>12, <1>13, <1>16
  <2> QED
    BY ONLY <1>12, <1>16, <2>1, SeqEqual
<1>18. Abstract!Insert(i, e) /\ i \in 1 .. Len(Contents) + 1
  BY <1>1, <1>13, <1>14, <1>15, <1>17 DEF Abstract!Insert, WithAt
<1> QED
  BY <1>12, <1>18 DEF Goes, Abstract!Next

(* delete, with what reduce does to the block.                             *)
LEMMA DeleteGoes ==
    ASSUME ArrayBlockHolds, NEW i \in 1 .. size, ArrayDelete(i)
    PROVE  Goes
<1>1. block = "held" /\ found' = <<>> /\ size' = size - 1
      /\ Reduce(ClosedUp(cells, i), size - 1)
  BY DEF ArrayDelete
<1>2. /\ cells \in Seq(Stored) /\ size \in Nat /\ capacity \in Nat
      /\ Len(cells) = capacity /\ size <= capacity
      /\ Contents \in Seq(Elements) /\ Len(Contents) = size
      /\ \A k \in 1 .. size : Contents[k] = cells[k] /\ cells[k] \in Elements
  BY <1>1, HeldIs
<1>3. PICK s : s = Contents
  OBVIOUS
<1>4. PICK r : r = WithoutAt(s, i)
  OBVIOUS
<1>5. s \in Seq(Elements) /\ i \in 1 .. Len(s)
  BY <1>2, <1>3
<1>6. /\ r \in Seq(Elements) /\ Len(r) = Len(s) - 1
      /\ \A k \in 1 .. Len(s) - 1 : r[k] = IF k < i THEN s[k] ELSE s[k + 1]
  BY ONLY <1>4, <1>5, RemovedAt, Zenon
<1>7. PICK m \in Nat : m = size' /\ m = size - 1
  BY <1>1, <1>2
<1>8. PICK x : x = ClosedUp(cells, i)
  OBVIOUS
<1>9. /\ x \in Seq(Stored) /\ Len(x) = capacity
      /\ \A k \in 1 .. m : x[k] = IF k < i THEN cells[k] ELSE cells[k + 1]
  <2>1. /\ cells \in Seq(Stored) /\ size \in Nat /\ size <= Len(cells)
        /\ i \in 1 .. size
    BY <1>2
  <2>2. /\ ClosedUp(cells, i) \in Seq(Stored)
        /\ Len(ClosedUp(cells, i)) = Len(cells)
        /\ \A k \in 1 .. size - 1 :
              ClosedUp(cells, i)[k] = IF k < i THEN cells[k] ELSE cells[k + 1]
    BY ONLY <2>1, ClosedUpIs
  <2> QED
    BY ONLY <1>2, <1>7, <1>8, <2>2
<1>10. ASSUME NEW k \in 1 .. m PROVE x[k] = r[k] /\ x[k] # Unset
  <2>1. k \in 1 .. size /\ k + 1 \in 1 .. size /\ m = Len(s) - 1
    BY <1>2, <1>3, <1>7
  <2>2. x[k] \in Elements
    BY <1>2, <1>9, <2>1
  <2> QED
    BY <1>2, <1>3, <1>6, <1>9, <2>1, <2>2, ArrayAssumption
<1>11. ArrayBlockHolds' /\ Contents' = r
  <2>1. CASE (~Reduces(m) \/ ReducedCapacity(m) > 0)
             /\ cells' = x /\ UNCHANGED <<block, capacity>>
    <3>1. /\ ArrayBlockHolds' /\ Contents' \in Seq(Elements) /\ Len(Contents') = m
          /\ \A k \in 1 .. m : Contents'[k] = x[k]
      <4>1. m <= capacity /\ block' = "held" /\ capacity' = capacity /\ cells' = x
        BY <1>1, <1>2, <1>7, <2>1
      <4> QED
        BY ONLY <1>1, <1>2, <1>7, <1>9, <1>10, <4>1, NoReply, StillHeld
    <3> QED
      BY ONLY <1>2, <1>3, <1>6, <1>7, <1>10, <3>1, SeqEqual
  <2>2. CASE /\ Reduces(m) /\ cells' = SubSeq(x, 1, ReducedCapacity(m))
             /\ capacity' = ReducedCapacity(m) /\ UNCHANGED block
    <3>1. PICK p : p = ReducedCapacity(m)
      OBVIOUS
    <3>2. p \in 0 .. capacity /\ m <= p
      BY <1>2, <1>7, <2>2, <3>1 DEF Reduces, ReducedCapacity
    <3>3. PICK c : c = cells'
      OBVIOUS
    <3>4. /\ c \in Seq(Stored) /\ Len(c) = p /\ \A k \in 1 .. p : c[k] = x[k]
      <4>1. p \in 0 .. Len(x) /\ c = SubSeq(x, 1, p)
        BY <1>9, <2>2, <3>1, <3>2, <3>3
      <4> QED
        BY ONLY <1>9, <4>1, TakeAndKeep
    <3>5. \A k \in 1 .. m : c[k] = x[k] /\ c[k] # Unset
      BY <1>10, <3>2, <3>4
    <3>6. /\ ArrayBlockHolds' /\ Contents' \in Seq(Elements) /\ Len(Contents') = m
          /\ \A k \in 1 .. m : Contents'[k] = c[k]
      <4>1. block' = "held" /\ capacity' = p /\ p \in Nat
        BY <1>1, <2>2, <3>1, <3>2
      <4> QED
        BY ONLY <1>1, <1>7, <3>2, <3>3, <3>4, <3>5, <4>1, NoReply, StillHeld
    <3>7. Len(r) = m /\ \A k \in 1 .. m : Contents'[k] = r[k]
      BY <1>2, <1>3, <1>6, <1>7, <1>10, <3>5, <3>6
    <3> QED
      BY ONLY <1>6, <3>6, <3>7, SeqEqual
  <2>3. CASE /\ Reduces(m) /\ ReducedCapacity(m) = 0
             /\ cells' = NoBlock /\ block' = "freed" /\ UNCHANGED capacity
    <3>1. m = 0 /\ capacity > MinNum
      <4>1. m + m \div 2 = 0 /\ m \in Nat
        BY <1>7, <2>3 DEF ReducedCapacity
      <4>2. m \div 2 \in Nat
        BY ONLY <4>1
      <4>3. m = 0
        BY ONLY <4>1, <4>2
      <4> QED
        BY <2>3, <4>3 DEF Reduces
    <3>2. <<>> \in Seq(Stored) /\ <<>> \in Seq(Elements \cup Nat)
      BY EmptySeq
    <3>3. ArrayBlockHolds'
      BY <1>1, <1>2, <1>7, <2>3, <3>1, <3>2
         DEF ArrayBlockHolds, ArrayTypeOK, Stored, NoBlock
    <3>4. Contents' = <<>>
      <4>1. Contents' = SubSeq(cells', 1, 0)
        BY <1>7, <3>1 DEF Contents
      <4>2. 1 \in Int /\ 0 \in Int /\ 0 < 1
        OBVIOUS
      <4> QED
        BY ONLY <4>1, <4>2, SubSeqEmpty
    <3>5. r = <<>>
      <4>1. Len(r) = 0
        BY <1>2, <1>3, <1>6, <1>7, <3>1
      <4> QED
        BY ONLY <1>6, <4>1, EmptySeq
    <3> QED
      BY <3>3, <3>4, <3>5
  <2>4. Reduce(x, m)
    BY <1>1, <1>2, <1>7, <1>8
  <2> HIDE DEF ArrayBlockHolds, Contents, Reduces, ReducedCapacity
  <2> QED
    BY <2>1, <2>2, <2>3, <2>4 DEF Reduce
<1>12. Abstract!Remove(i) /\ i \in DOMAIN Contents
  <2>1. DOMAIN Contents = 1 .. size
    BY <1>1, HeldIs
  <2> QED
    BY <1>1, <1>3, <1>4, <1>11, <2>1 DEF Abstract!Remove, WithoutAt
<1> QED
  BY <1>11, <1>12 DEF Goes, Abstract!Next, Abstract!Positions

(* set replaces the cell at the position.                                  *)
LEMMA SetGoes ==
    ASSUME ArrayBlockHolds, NEW e \in Elements, NEW i \in 1 .. size, ArraySet(e, i)
    PROVE  Goes
<1>1. /\ block = "held" /\ block' = "held" /\ found' = <<>>
      /\ size' = size /\ capacity' = capacity /\ cells' = [cells EXCEPT ![i] = e]
  BY DEF ArraySet
<1>2. /\ cells \in Seq(Stored) /\ size \in Nat /\ capacity \in Nat
      /\ Len(cells) = capacity /\ size <= capacity
      /\ \A k \in 1 .. size : cells[k] # Unset
      /\ Contents \in Seq(Elements) /\ Len(Contents) = size
      /\ DOMAIN Contents = 1 .. size
      /\ \A k \in 1 .. size : Contents[k] = cells[k] /\ cells[k] \in Elements
  BY <1>1, HeldIs
<1>3. PICK c : c = cells'
  OBVIOUS
<1>4. /\ c \in Seq(Stored) /\ Len(c) = capacity
      /\ \A k \in 1 .. capacity : c[k] = IF k = i THEN e ELSE cells[k]
  <2>1. e \in Stored /\ i \in 1 .. Len(cells) /\ c = [cells EXCEPT ![i] = e]
    BY <1>1, <1>2, <1>3 DEF Stored
  <2> QED
    BY ONLY <1>2, <2>1, ExceptSeq
<1>5. \A k \in 1 .. size : c[k] # Unset
  BY <1>2, <1>4, ArrayAssumption
<1>6. /\ ArrayBlockHolds' /\ Contents' \in Seq(Elements) /\ Len(Contents') = size
      /\ \A k \in 1 .. size : Contents'[k] = c[k]
  BY ONLY ZenonT(40), <1>1, <1>2, <1>3, <1>4, <1>5, NoReply, StillHeld
<1>7. PICK s : s = Contents
  OBVIOUS
<1>8. PICK r : r = [s EXCEPT ![i] = e]
  OBVIOUS
<1>9. /\ r \in Seq(Elements) /\ Len(r) = Len(s)
      /\ \A k \in 1 .. Len(s) : r[k] = IF k = i THEN e ELSE s[k]
  <2>1. e \in Elements /\ s \in Seq(Elements) /\ i \in 1 .. Len(s)
    BY <1>2, <1>7
  <2> QED
    BY ONLY <1>8, <2>1, ExceptSeq
<1>10. Contents' = r
  <2>1. Len(r) = size /\ \A k \in 1 .. size : Contents'[k] = r[k]
    <3>1. /\ Len(s) = size /\ \A k \in 1 .. size : k \in 1 .. capacity /\ s[k] = cells[k]
      BY ONLY <1>2, <1>7
    <3>2. \A k \in 1 .. size : c[k] = IF k = i THEN e ELSE s[k]
      BY ONLY <1>4, <3>1
    <3> QED
      BY ONLY <1>6, <1>9, <3>1, <3>2
  <2> QED
    BY ONLY <1>6, <1>9, <2>1, SeqEqual
<1>11. Abstract!Replace(i, e) /\ i \in DOMAIN Contents
  BY <1>1, <1>2, <1>7, <1>8, <1>10 DEF Abstract!Replace
<1> QED
  BY <1>6, <1>11 DEF Goes, Abstract!Next, Abstract!Positions

(* A call that only answers leaves the block as it is.                     *)
LEMMA AnswerHeld ==
    ASSUME ArrayBlockHolds, UNCHANGED <<block, cells, size, capacity>>,
           found' \in Seq(Elements \cup Nat)
    PROVE  ArrayBlockHolds' /\ Contents' = Contents
BY DEF ArrayBlockHolds, ArrayTypeOK, Contents

(* zbaselib_array_get, with an index inside the array or not.              *)
LEMMA GetGoes ==
    ASSUME ArrayBlockHolds, NEW i \in 1 .. size, ArrayGet(i)
    PROVE  Goes
<1>1. /\ block = "held" /\ found' = <<cells[i]>>
      /\ UNCHANGED <<block, cells, size, capacity>>
  BY DEF ArrayGet
<1>2. /\ DOMAIN Contents = 1 .. size
      /\ Contents[i] = cells[i] /\ cells[i] \in Elements
  BY <1>1, HeldIs
<1>3. found' \in Seq(Elements \cup Nat)
  BY <1>1, <1>2
<1>4. ArrayBlockHolds' /\ Contents' = Contents
  BY <1>1, <1>3, AnswerHeld
<1>5. Abstract!Get(i) /\ i \in DOMAIN Contents
  BY <1>1, <1>2, <1>4 DEF Abstract!Get
<1> QED
  BY <1>4, <1>5 DEF Goes, Abstract!Next, Abstract!Positions

(* find returns the first of the cells that match: there is one if any     *)
(* does.                                                                   *)
LEMMA FindGoes ==
    ASSUME ArrayBlockHolds, NEW e \in Elements, ArrayFind(e)
    PROVE  Goes
<1>1. /\ block = "held" /\ found' = <<FirstMatch(e)>>
      /\ UNCHANGED <<block, cells, size, capacity>>
  BY DEF ArrayFind
<1>2. /\ size \in Nat /\ DOMAIN Contents = 1 .. size
      /\ \A i \in 1 .. size : Contents[i] = cells[i]
  BY <1>1, HeldIs
<1>3. PICK M : M = Matches(e)
  OBVIOUS
<1>4. M = {i \in 1 .. size : cells[i] = e} /\ M \subseteq Nat
  BY <1>2, <1>3 DEF Matches
<1>5. PICK f : f = FirstMatch(e)
  OBVIOUS
<1>6. IF M = {} THEN f = 0 ELSE f \in M /\ \A j \in M : f <= j
  <2>1. CASE M = {}
    BY <1>3, <1>5, <2>1 DEF FirstMatch
  <2>2. CASE M # {}
    <3>1. \E h \in M : \A j \in M : h <= j
      BY ONLY <1>4, <2>2, LeastElement
    <3>2. f = CHOOSE h \in M : \A j \in M : h <= j
      BY <1>3, <1>5, <2>2 DEF FirstMatch
    <3> QED
      BY ONLY <2>2, <3>1, <3>2
  <2> QED
    BY <2>1, <2>2
<1>7. f \in Nat /\ found' \in Seq(Elements \cup Nat)
  BY <1>1, <1>4, <1>5, <1>6
<1>8. ArrayBlockHolds' /\ Contents' = Contents
  BY <1>1, <1>7, AnswerHeld
<1>9. Abstract!Find(e)
  <2>1. f \in DOMAIN Contents \cup {0}
    BY <1>2, <1>4, <1>6
  <2>2. f # 0 => Contents[f] = e
    BY <1>2, <1>4, <1>6
  <2>3. \A j \in DOMAIN Contents : Contents[j] = e => f # 0 /\ f <= j
    BY <1>2, <1>4, <1>6
  <2> QED
    BY <1>1, <1>5, <1>8, <2>1, <2>2, <2>3 DEF Abstract!Find, Abstract!Positions
<1> QED
  BY <1>8, <1>9 DEF Goes, Abstract!Next

(* sort is given the used cells, and only they are rearranged.             *)
LEMMA SortGoes ==
    ASSUME ArrayBlockHolds, ArraySort
    PROVE  Goes
<1>1. /\ block = "held" /\ block' = "held" /\ found' = <<>>
      /\ size' = size /\ capacity' = capacity
  BY DEF ArraySort
<1>2. /\ cells \in Seq(Stored) /\ size \in Nat /\ capacity \in Nat
      /\ Len(cells) = capacity /\ size <= capacity
      /\ DOMAIN Contents = 1 .. size
  BY <1>1, HeldIs
<1>3. PICK s \in [1 .. size -> Elements] :
         /\ IsSorted(s) /\ SameElements(Contents, s)
         /\ cells' = s \o SubSeq(cells, size + 1, capacity)
  BY DEF ArraySort, Contents
<1>4. PICK t : t = SubSeq(cells, size + 1, Len(cells))
  OBVIOUS
<1>5. t \in Seq(Stored) /\ Len(t) = capacity - size
  <2>1. size \in 0 .. Len(cells)
    BY <1>2
  <2>2. t \in Seq(Stored) /\ Len(t) = Len(cells) - size
    BY ONLY <1>2, <1>4, <2>1, TakeAndKeep
  <2> QED
    BY <1>2, <2>2
<1>6. s \in Seq(Stored) /\ s \in Seq(Elements) /\ Len(s) = size
  <2>1. s \in [1 .. size -> Stored]
    BY DEF Stored
  <2> QED
    BY <1>2, <2>1, FunctionIsSeq
<1>7. PICK c : c = cells' /\ c = s \o t
  BY <1>2, <1>3, <1>4
<1>8. /\ c \in Seq(Stored) /\ Len(c) = capacity
      /\ \A k \in 1 .. size : c[k] = s[k]
  <2>1. /\ c \in Seq(Stored) /\ Len(c) = Len(s) + Len(t)
        /\ \A k \in 1 .. Len(s) + Len(t) :
              c[k] = IF k <= Len(s) THEN s[k] ELSE t[k - Len(s)]
    BY ONLY <1>5, <1>6, <1>7, ConcatProperties
  <2> QED
    BY <1>2, <1>5, <1>6, <2>1
<1>9. \A k \in 1 .. size : c[k] # Unset
  BY <1>8, ArrayAssumption
<1>10. /\ ArrayBlockHolds' /\ Contents' \in Seq(Elements) /\ Len(Contents') = size
       /\ \A k \in 1 .. size : Contents'[k] = c[k]
  BY ONLY <1>1, <1>2, <1>7, <1>8, <1>9, NoReply, StillHeld
<1>11. Contents' = s
  BY ONLY <1>6, <1>8, <1>10, SeqEqual
<1>12. Abstract!Sort
  <2>1. Contents' \in [DOMAIN Contents -> Elements]
    BY <1>2, <1>11
  <2>2. \A i, j \in DOMAIN Contents : i < j => Contents'[i] <= Contents'[j]
    BY <1>2, <1>3, <1>11 DEF IsSorted
  <2>3. \A e \in Elements : Abstract!Occurrences(Contents', e)
                            = Abstract!Occurrences(Contents, e)
    <3>1. \A e \in Elements : Cardinality({i \in DOMAIN Contents : Contents[i] = e})
                              = Cardinality({i \in DOMAIN s : s[i] = e})
      BY <1>3 DEF SameElements
    <3>2. \A S : Abstract!Cardinality(S) = Cardinality(S)
      BY DEF Abstract!Cardinality, Cardinality
    <3> QED
      BY ONLY <1>11, <3>1, <3>2 DEF Abstract!Occurrences
  <2> QED
    BY <1>1, <2>1, <2>2, <2>3 DEF Abstract!Sort, Abstract!Positions
<1> QED
  BY <1>10, <1>12 DEF Goes, Abstract!Next

(* The insertion that is dropped, the end of the array, and the call that  *)
(* uses freed memory.                                                      *)
LEMMA OthersGo ==
    ASSUME ArrayBlockHolds, ArrayInsertDropped \/ ArrayDestroy \/ ArrayMisuse
    PROVE  Goes
<1>1. CASE ArrayInsertDropped
  <2>1. ArrayBlockHolds' /\ Contents' = Contents /\ found' = <<>>
    BY <1>1, NoReply, AnswerHeld DEF ArrayInsertDropped
  <2> QED
    BY <2>1 DEF Goes, Abstract!Next, Abstract!Nothing
<1>2. CASE ArrayDestroy
  <2>1. ArrayBlockHolds'
    <3>1. <<>> \in Seq(Elements \cup {Unset})
      BY EmptySeq
    <3> QED
      BY <1>2, <3>1, NoReply DEF ArrayDestroy, ArrayBlockHolds, ArrayTypeOK, NoBlock
  <2>2. Contents' = SubSeq(cells', 1, 0) /\ found' = <<>>
    BY <1>2 DEF ArrayDestroy, Contents
  <2>3. 1 \in Int /\ 0 \in Int /\ 0 < 1
    OBVIOUS
  <2>4. Contents' = <<>>
    BY ONLY <2>2, <2>3, SubSeqEmpty
  <2> QED
    BY <2>1, <2>2, <2>4 DEF Goes, Abstract!Next, Abstract!Empty
<1>3. CASE ArrayMisuse
  <2>1. ArrayBlockHolds' /\ Contents' = Contents /\ found' = <<>>
    BY <1>3, NoReply DEF ArrayMisuse, ArrayBlockHolds, ArrayTypeOK, Contents
  <2> QED
    BY <2>1 DEF Goes, Abstract!Next, Abstract!Nothing
<1> QED
  BY <1>1, <1>2, <1>3

(* The steps of the array together.                                        *)
LEMMA ArrayGoes == ArrayBlockHolds /\ [ArrayNext]_arrayVars => Goes
<1> SUFFICES ASSUME ArrayBlockHolds, [ArrayNext]_arrayVars PROVE Goes
  OBVIOUS
<1>1. CASE UNCHANGED arrayVars
  <2>1. ArrayBlockHolds' /\ Contents' = Contents /\ found' = found
    BY <1>1 DEF arrayVars, ArrayBlockHolds, ArrayTypeOK, Contents
  <2> QED
    BY <2>1 DEF Goes
<1>2. CASE ArrayNext
  BY ONLY <1>2, ArrayBlockHolds, CreateGoes, InsertGoes, DeleteGoes, SetGoes, GetGoes,
          FindGoes, SortGoes, OthersGo, Zenon DEF ArrayNext
<1> QED
  BY <1>1, <1>2

(* Before the first create there is no block, and no element.              *)
LEMMA ArrayStarts == ArrayInit => ArrayBlockHolds /\ Abstract!Init
<1> SUFFICES ASSUME ArrayInit PROVE ArrayBlockHolds /\ Abstract!Init
  OBVIOUS
<1>1. <<>> \in Seq(Elements \cup {Unset}) /\ <<>> \in Seq(Elements \cup Nat)
  BY EmptySeq
<1>2. 1 \in Int /\ 0 \in Int /\ 0 < 1
  OBVIOUS
<1>3. SubSeq(cells, 1, 0) = <<>>
  BY ONLY <1>2, SubSeqEmpty
<1> QED
  BY <1>1, <1>3 DEF ArrayInit, NoBlock, ArrayBlockHolds, ArrayTypeOK, Contents,
                    Abstract!Init

(* However often the array grows and shrinks, and whichever realloc fails, *)
(* its elements are in memory it holds, and none is unset; the block is    *)
(* lost only when the last element of an array that grew is deleted.  The  *)
(* invariant is inductive as it stands.                                    *)
THEOREM ArrayBlockCorrect == ArraySpec => []ArrayBlockHolds
<1>1. ArrayInit => ArrayBlockHolds
  BY ArrayStarts
<1>2. ArrayBlockHolds /\ [ArrayNext]_arrayVars => ArrayBlockHolds'
  BY ArrayGoes DEF Goes
<1> QED
  BY <1>1, <1>2, PTL DEF ArraySpec

(* The array is a sequence: insert, delete, set, get, find and sort do to  *)
(* its elements what they do to a sequence's, wherever realloc puts them.  *)
THEOREM ArrayIsSequence == ArraySpec => ArrayImplementsSequence
<1>1. ArrayInit => Abstract!Init
  BY ArrayStarts
<1>2. ArrayBlockHolds /\ [ArrayNext]_arrayVars => [Abstract!Next]_Abstract!vars
  BY ArrayGoes DEF Goes, Abstract!vars
<1> QED
  BY <1>1, <1>2, ArrayBlockCorrect, PTL
     DEF ArraySpec, ArrayImplementsSequence, Abstract!Spec

-----------------------------------------------------------------------------
(* The list.  Its cells are threaded like a sequence s of nodes, with the  *)
(* head before the first and behind the last: next leads from each to the  *)
(* one behind it, and prev back.                                           *)
At(s, k) == IF k \in 1 .. Len(s) THEN s[k] ELSE Root

Threads(s, nx, pv, lv) ==
    /\ s \in Seq(Nodes)
    /\ lv = {s[i] : i \in 1 .. Len(s)}
    /\ \A i, j \in 1 .. Len(s) : s[i] = s[j] => i = j
    /\ \A k \in 0 .. Len(s) : nx[At(s, k)] = At(s, k + 1) /\ pv[At(s, k + 1)] = At(s, k)

(* Each place but one, before the first or behind the last, has a cell of  *)
(* its own.                                                                *)
LEMMA Places ==
    ASSUME NEW s \in Seq(Nodes), \A i, j \in 1 .. Len(s) : s[i] = s[j] => i = j
    PROVE  /\ Len(s) \in Nat
           /\ \A k \in 1 .. Len(s) : At(s, k) = s[k] /\ s[k] \in Nodes /\ s[k] # Root
           /\ At(s, 0) = Root /\ At(s, Len(s) + 1) = Root
           /\ \A k \in 0 .. Len(s) + 1 : At(s, k) \in Nodes \cup {Root}
           /\ \A j, k \in 0 .. Len(s) : At(s, j) = At(s, k) => j = k
           /\ \A j, k \in 1 .. Len(s) + 1 : At(s, j) = At(s, k) => j = k
<1>1. Len(s) \in Nat
  BY LenProperties
<1>2. \A k \in 1 .. Len(s) : s[k] \in Nodes
  BY ElementOfSeq
<1>3. PICK n \in Nat : n = Len(s)
  BY <1>1
<1>4. \A k \in 1 .. n : At(s, k) = s[k] /\ s[k] \in Nodes /\ s[k] # Root
  BY <1>2, <1>3, ListAssumption DEF At
<1>5. At(s, 0) = Root /\ At(s, n + 1) = Root
  BY <1>3 DEF At
<1>6. \A k \in 0 .. n + 1 : k = 0 \/ k = n + 1 \/ k \in 1 .. n
  OBVIOUS
<1>7. \A i, j \in 1 .. n : s[i] = s[j] => i = j
  BY <1>3
<1>8. \A k \in 0 .. n + 1 : At(s, k) \in Nodes \cup {Root}
  BY ONLY <1>4, <1>5, <1>6
<1>9. ASSUME NEW j \in 0 .. n, NEW k \in 0 .. n, At(s, j) = At(s, k) PROVE j = k
  <2>1. (j = 0 \/ j \in 1 .. n) /\ (k = 0 \/ k \in 1 .. n)
    OBVIOUS
  <2> QED
    BY ONLY <1>4, <1>5, <1>7, <1>9, <2>1
<1>10. ASSUME NEW j \in 1 .. n + 1, NEW k \in 1 .. n + 1, At(s, j) = At(s, k) PROVE j = k
  <2>1. (j = n + 1 \/ j \in 1 .. n) /\ (k = n + 1 \/ k \in 1 .. n)
    OBVIOUS
  <2> QED
    BY ONLY <1>4, <1>5, <1>7, <1>10, <2>1
<1> QED
  BY <1>1, <1>3, <1>4, <1>5, <1>8, <1>9, <1>10

(* The links with a node m between the cells p and q, and without it.      *)
NextWith(nx, p, m, q) == [nx EXCEPT ![p] = m, ![m] = q]
PrevWith(pv, p, m, q) == [pv EXCEPT ![m] = p, ![q] = m]

NextWithout(nx, pv, m) == [nx EXCEPT ![pv[m]] = nx[m], ![m] = Null]
PrevWithout(nx, pv, m) == [pv EXCEPT ![nx[m]] = pv[m], ![m] = Null]

(* zlist_add_node puts a node that was free between two neighbours.        *)
LEMMA AddThreads ==
    ASSUME NEW s, NEW nx \in [Cells -> Cells \cup {Null}],
           NEW pv \in [Cells -> Cells \cup {Null}], NEW lv, Threads(s, nx, pv, lv),
           NEW i \in 1 .. Len(s) + 1, NEW m \in Nodes \ lv,
           NEW p, p = At(s, i - 1), NEW q, q = At(s, i)
    PROVE  /\ Threads(WithAt(s, i, m), NextWith(nx, p, m, q), PrevWith(pv, p, m, q),
                      lv \cup {m})
           /\ p \in Cells /\ q \in Cells
<1>a. PICK nx2 : nx2 = NextWith(nx, p, m, q)
  OBVIOUS
<1>b. PICK pv2 : pv2 = PrevWith(pv, p, m, q)
  OBVIOUS
<1>1. PICK t : t = WithAt(s, i, m)
  OBVIOUS
<1>2. /\ s \in Seq(Nodes) /\ lv = {s[k] : k \in 1 .. Len(s)}
      /\ \A j, k \in 1 .. Len(s) : s[j] = s[k] => j = k
      /\ \A k \in 0 .. Len(s) : nx[At(s, k)] = At(s, k + 1) /\ pv[At(s, k + 1)] = At(s, k)
  BY DEF Threads
<1>3. PICK n \in Nat : n = Len(s)
  BY <1>2, LenProperties
<1>4. /\ \A k \in 1 .. n : At(s, k) = s[k] /\ s[k] \in Nodes /\ s[k] # Root
      /\ At(s, 0) = Root /\ At(s, n + 1) = Root
      /\ \A k \in 0 .. n + 1 : At(s, k) \in Nodes \cup {Root}
      /\ \A j, k \in 0 .. n : At(s, j) = At(s, k) => j = k
      /\ \A j, k \in 1 .. n + 1 : At(s, j) = At(s, k) => j = k
  BY SMTT(30), <1>2, <1>3, Places
<1>5. /\ t \in Seq(Nodes) /\ Len(t) = n + 1
      /\ \A k \in 1 .. n + 1 : t[k] = IF k < i THEN s[k] ELSE IF k = i THEN m ELSE s[k - 1]
  <2>1. s \in Seq(Nodes) /\ i \in 1 .. Len(s) + 1 /\ m \in Nodes
    BY <1>2
  <2>2. /\ WithAt(s, i, m) \in Seq(Nodes) /\ Len(WithAt(s, i, m)) = Len(s) + 1
        /\ \A k \in 1 .. Len(s) + 1 :
              WithAt(s, i, m)[k] = ElementWith(s, i, m, k)
    BY ONLY <2>1, InsertedAt
  <2> QED
    BY ONLY <1>1, <1>3, <2>2 DEF ElementWith
<1>6. i \in 1 .. n + 1
  BY <1>3
<1>7. m \in Nodes /\ m # Root /\ \A k \in 0 .. n + 1 : At(s, k) # m
  <2>1. m \in Nodes /\ m # Root /\ \A k \in 1 .. n : s[k] # m
    BY <1>2, <1>3, ListAssumption
  <2> QED
    BY <1>3, <2>1 DEF At
<1>8. \A k \in 0 .. n + 2 :
         At(t, k) = IF k < i THEN At(s, k) ELSE IF k = i THEN m ELSE At(s, k - 1)
  <2> SUFFICES ASSUME NEW k \in 0 .. n + 2
               PROVE  At(t, k) = IF k < i THEN At(s, k) ELSE IF k = i THEN m
                                 ELSE At(s, k - 1)
    OBVIOUS
  <2>1. CASE k = 0
    BY <1>3, <1>5, <1>6, <2>1 DEF At
  <2>2. CASE k = n + 2
    BY <1>3, <1>5, <1>6, <2>2 DEF At
  <2>3. CASE k \in 1 .. n + 1
    <3>1. At(t, k) = t[k]
      BY <1>5, <2>3 DEF At
    <3>2. CASE k < i
      <4>1. k \in 1 .. n
        BY <1>6, <2>3, <3>2
      <4> QED
        BY <1>4, <1>5, <2>3, <3>1, <3>2, <4>1
    <3>3. CASE k = i
      BY <1>5, <1>6, <2>3, <3>1, <3>3
    <3>4. CASE k > i
      <4>1. k - 1 \in 1 .. n /\ ~(k < i) /\ k # i
        BY <1>6, <2>3, <3>4
      <4> QED
        BY <1>4, <1>5, <2>3, <3>1, <4>1
    <3> QED
      BY <1>6, <2>3, <3>2, <3>3, <3>4
  <2> QED
    BY <2>1, <2>2, <2>3
<1>9. p \in Cells /\ q \in Cells /\ m \in Cells /\ p # m /\ q # m
  <2>1. i - 1 \in 0 .. n + 1 /\ i \in 0 .. n + 1
    BY <1>6
  <2> QED
    BY <1>4, <1>7, <2>1 DEF Cells
<1>10. \A c \in Cells : /\ nx2[c] = IF c = m THEN q ELSE IF c = p THEN m ELSE nx[c]
                        /\ pv2[c] = IF c = q THEN m ELSE IF c = m THEN p ELSE pv[c]
  BY <1>9, <1>a, <1>b DEF NextWith, PrevWith
<1>11. lv \cup {m} = {t[k] : k \in 1 .. n + 1}
  <2>1. ASSUME NEW k \in 1 .. n + 1 PROVE t[k] \in lv \cup {m}
    <3>1. (k < i => k \in 1 .. n) /\ (k > i => k - 1 \in 1 .. n)
      BY <1>6
    <3> QED
      BY <1>2, <1>3, <1>5, <1>6, <3>1
  <2>2. ASSUME NEW k \in 1 .. n PROVE s[k] \in {t[j] : j \in 1 .. n + 1}
    <3>1. CASE k < i
      <4>1. k \in 1 .. n + 1 /\ t[k] = s[k]
        BY <1>5, <3>1
      <4> QED
        BY <4>1
    <3>2. CASE ~(k < i)
      <4>1. k + 1 \in 1 .. n + 1 /\ k + 1 > i /\ k + 1 - 1 = k
        BY <1>6, <3>2
      <4>2. t[k + 1] = s[k]
        BY <1>5, <1>6, <4>1
      <4> QED
        BY <4>1, <4>2
    <3> QED
      BY <3>1, <3>2
  <2>3. m \in {t[j] : j \in 1 .. n + 1}
    BY <1>5, <1>6
  <2>4. lv = {s[k] : k \in 1 .. n}
    BY <1>2, <1>3
  <2> QED
    BY SMTT(30), <2>1, <2>2, <2>3, <2>4
<1>12. ASSUME NEW j \in 1 .. n + 1, NEW k \in 1 .. n + 1, t[j] = t[k] PROVE j = k
  <2>1. At(t, j) = t[j] /\ At(t, k) = t[k]
    BY <1>5 DEF At
  <2>2. /\ At(t, j) = IF j < i THEN At(s, j) ELSE IF j = i THEN m ELSE At(s, j - 1)
        /\ At(t, k) = IF k < i THEN At(s, k) ELSE IF k = i THEN m ELSE At(s, k - 1)
    BY <1>8
  <2>3. /\ j \in 1 .. n + 1 /\ j - 1 \in 0 .. n + 1 /\ (j < i => j \in 0 .. n)
        /\ (j > i => j - 1 \in 0 .. n)
        /\ k \in 1 .. n + 1 /\ k - 1 \in 0 .. n + 1 /\ (k < i => k \in 0 .. n)
        /\ (k > i => k - 1 \in 0 .. n)
    BY <1>6
  <2>4. PICK x : x = IF j < i THEN j ELSE j - 1
    OBVIOUS
  <2>5. PICK y : y = IF k < i THEN k ELSE k - 1
    OBVIOUS
  <2>6. CASE j # i /\ k # i
    <3>1. x \in 0 .. n /\ y \in 0 .. n /\ At(s, x) = At(s, y)
      BY <1>6, <1>12, <2>1, <2>2, <2>3, <2>4, <2>5, <2>6
    <3>2. x = y
      BY <1>4, <3>1
    <3> QED
      BY <1>6, <2>3, <2>4, <2>5, <2>6, <3>2
  <2>7. CASE j = i /\ k # i
    BY <1>6, <1>7, <1>12, <2>1, <2>2, <2>3, <2>7
  <2>8. CASE j # i /\ k = i
    BY <1>6, <1>7, <1>12, <2>1, <2>2, <2>3, <2>8
  <2> QED
    BY <2>6, <2>7, <2>8
<1>13. ASSUME NEW k \in 0 .. n + 1
       PROVE  nx2[At(t, k)] = At(t, k + 1) /\ pv2[At(t, k + 1)] = At(t, k)
  <2>1. /\ At(t, k) = IF k < i THEN At(s, k) ELSE IF k = i THEN m ELSE At(s, k - 1)
        /\ At(t, k + 1) = IF k + 1 < i THEN At(s, k + 1) ELSE IF k + 1 = i THEN m
                          ELSE At(s, k)
    <3>1. k \in 0 .. n + 2 /\ k + 1 \in 0 .. n + 2 /\ k + 1 - 1 = k
      OBVIOUS
    <3> QED
      BY <1>8, <3>1
  <2>2. \A j \in 0 .. n : nx[At(s, j)] = At(s, j + 1) /\ pv[At(s, j + 1)] = At(s, j)
    BY <1>2, <1>3
  <2>3. CASE k + 1 < i
    <3>1. /\ k \in 0 .. n /\ k + 1 \in 1 .. n + 1 /\ k < i
          /\ i - 1 \in 0 .. n /\ k # i - 1 /\ k + 1 # i
      BY <1>6, <2>3
    <3>2. At(t, k) = At(s, k) /\ At(t, k + 1) = At(s, k + 1)
      BY <2>1, <2>3, <3>1
    <3>3. At(s, k) # p /\ At(s, k + 1) # q /\ At(s, k) # m /\ At(s, k + 1) # m
          /\ At(s, k) \in Cells /\ At(s, k + 1) \in Cells
      BY <1>4, <1>6, <1>7, <3>1 DEF Cells
    <3> QED
      BY <1>10, <2>2, <3>1, <3>2, <3>3
  <2>4. CASE k + 1 = i
    <3>1. At(t, k) = p /\ At(t, k + 1) = m
      <4>1. k < i /\ k = i - 1 /\ ~(k + 1 < i)
        BY <1>6, <2>4
      <4> QED
        BY <2>1, <2>4, <4>1
    <3> QED
      BY <1>9, <1>10, <3>1
  <2>5. CASE k = i
    <3>1. At(t, k) = m /\ At(t, k + 1) = q
      <4>1. ~(k < i) /\ ~(k + 1 < i) /\ k + 1 # i
        BY <1>6, <2>5
      <4> QED
        BY <2>1, <2>5, <4>1
    <3> QED
      BY <1>9, <1>10, <3>1
  <2>6. CASE k > i
    <3>1. PICK j : j = k - 1
      OBVIOUS
    <3>2. /\ j \in 0 .. n /\ k = j + 1 /\ k \in 1 .. n + 1 /\ i - 1 \in 0 .. n
          /\ j # i - 1 /\ k # i /\ ~(k < i) /\ ~(k + 1 < i) /\ k + 1 # i
      BY <1>6, <2>6, <3>1
    <3>3. At(t, k) = At(s, j) /\ At(t, k + 1) = At(s, j + 1)
      BY <2>1, <3>1, <3>2
    <3>4. At(s, j) # p /\ At(s, j + 1) # q /\ At(s, j) # m /\ At(s, j + 1) # m
          /\ At(s, j) \in Cells /\ At(s, j + 1) \in Cells
      BY <1>4, <1>6, <1>7, <3>2 DEF Cells
    <3> QED
      BY <1>10, <2>2, <3>2, <3>3, <3>4
  <2> QED
    BY <1>6, <2>3, <2>4, <2>5, <2>6
<1>14. Threads(t, nx2, pv2, lv \cup {m})
  BY <1>5, <1>11, <1>12, <1>13 DEF Threads
<1> QED
  BY <1>1, <1>9, <1>14, <1>a, <1>b

(* zlist_del_node makes the neighbours of a node neighbours.               *)
LEMMA DelThreads ==
    ASSUME NEW s, NEW nx \in [Cells -> Cells \cup {Null}],
           NEW pv \in [Cells -> Cells \cup {Null}], NEW lv, Threads(s, nx, pv, lv),
           NEW i \in 1 .. Len(s), NEW m, m = s[i]
    PROVE  /\ Threads(WithoutAt(s, i), NextWithout(nx, pv, m), PrevWithout(nx, pv, m),
                      lv \ {m})
           /\ m \in lv /\ m \in Nodes /\ nx[m] \in Cells /\ pv[m] \in Cells
<1>a. PICK nx2 : nx2 = NextWithout(nx, pv, m)
  OBVIOUS
<1>b. PICK pv2 : pv2 = PrevWithout(nx, pv, m)
  OBVIOUS
<1>1. PICK t : t = WithoutAt(s, i)
  OBVIOUS
<1>2. /\ s \in Seq(Nodes) /\ lv = {s[k] : k \in 1 .. Len(s)}
      /\ \A j, k \in 1 .. Len(s) : s[j] = s[k] => j = k
      /\ \A k \in 0 .. Len(s) : nx[At(s, k)] = At(s, k + 1) /\ pv[At(s, k + 1)] = At(s, k)
  BY DEF Threads
<1>3. PICK n \in Nat : n = Len(s)
  BY <1>2, LenProperties
<1>4. /\ \A k \in 1 .. n : At(s, k) = s[k] /\ s[k] \in Nodes /\ s[k] # Root
      /\ At(s, 0) = Root /\ At(s, n + 1) = Root
      /\ \A k \in 0 .. n + 1 : At(s, k) \in Nodes \cup {Root}
      /\ \A j, k \in 0 .. n : At(s, j) = At(s, k) => j = k
      /\ \A j, k \in 1 .. n + 1 : At(s, j) = At(s, k) => j = k
  BY <1>2, <1>3, Places
<1>5. /\ t \in Seq(Nodes) /\ Len(t) = n - 1
      /\ \A k \in 1 .. n - 1 : t[k] = IF k < i THEN s[k] ELSE s[k + 1]
  <2>1. i \in 1 .. Len(s)
    OBVIOUS
  <2>2. /\ WithoutAt(s, i) \in Seq(Nodes) /\ Len(WithoutAt(s, i)) = Len(s) - 1
        /\ \A k \in 1 .. Len(s) - 1 :
              WithoutAt(s, i)[k] = IF k < i THEN s[k] ELSE s[k + 1]
    BY ONLY <1>2, <2>1, RemovedAt, Zenon
  <2> QED
    BY ONLY <1>1, <1>3, <2>2
<1>6. i \in 1 .. n /\ i - 1 \in 0 .. n /\ i + 1 \in 1 .. n + 1 /\ i - 1 + 1 = i
  BY <1>3
<1>7. PICK p : p = At(s, i - 1)
  OBVIOUS
<1>8. PICK q : q = At(s, i + 1)
  OBVIOUS
<1>9. m = At(s, i) /\ nx[m] = q /\ pv[m] = p /\ m \in lv /\ m \in Nodes /\ m # Root
  <2>1. \A k \in 0 .. n : nx[At(s, k)] = At(s, k + 1) /\ pv[At(s, k + 1)] = At(s, k)
    BY <1>2, <1>3
  <2>2. i \in 0 .. n
    BY <1>6
  <2> QED
    BY <1>2, <1>3, <1>4, <1>6, <1>7, <1>8, <2>1, <2>2
<1>10. p \in Cells /\ q \in Cells /\ m \in Cells /\ p # m /\ q # m
  <2>1. i - 1 \in 0 .. n + 1 /\ i + 1 \in 0 .. n + 1 /\ i \in 0 .. n /\ i # i - 1
        /\ i \in 1 .. n + 1 /\ i # i + 1
    BY <1>6
  <2> QED
    BY <1>4, <1>6, <1>7, <1>8, <1>9, <2>1 DEF Cells
<1>11. \A c \in Cells : /\ nx2[c] = IF c = m THEN Null ELSE IF c = p THEN q ELSE nx[c]
                        /\ pv2[c] = IF c = m THEN Null ELSE IF c = q THEN p ELSE pv[c]
  BY <1>9, <1>10, <1>a, <1>b DEF NextWithout, PrevWithout
<1>12. \A k \in 0 .. n : At(t, k) = IF k < i THEN At(s, k) ELSE At(s, k + 1)
  <2> SUFFICES ASSUME NEW k \in 0 .. n
               PROVE  At(t, k) = IF k < i THEN At(s, k) ELSE At(s, k + 1)
    OBVIOUS
  <2>1. CASE k = 0
    <3>1. At(t, k) = Root /\ k < i
      BY <1>5, <1>6, <2>1 DEF At
    <3> QED
      BY <1>4, <2>1, <3>1
  <2>2. CASE k = n /\ k # 0
    <3>1. At(t, k) = Root /\ ~(k < i)
      BY <1>5, <1>6, <2>2 DEF At
    <3> QED
      BY <1>4, <2>2, <3>1
  <2>3. CASE k \in 1 .. n - 1
    <3>1. At(t, k) = t[k] /\ k \in 1 .. n /\ k + 1 \in 1 .. n
      BY <1>5, <2>3 DEF At
    <3> QED
      BY <1>4, <1>5, <2>3, <3>1
  <2> QED
    BY <2>1, <2>2, <2>3
<1>13. lv \ {m} = {t[k] : k \in 1 .. n - 1}
  <2>1. ASSUME NEW k \in 1 .. n - 1 PROVE t[k] \in lv \ {m}
    <3>1. CASE k < i
      <4>1. k \in 1 .. n /\ k # i /\ t[k] = s[k]
        BY <1>5, <1>6, <3>1
      <4> QED
        BY <1>2, <1>3, <1>6, <4>1
    <3>2. CASE ~(k < i)
      <4>1. k + 1 \in 1 .. n /\ k + 1 # i /\ t[k] = s[k + 1]
        BY <1>5, <1>6, <3>2
      <4> QED
        BY <1>2, <1>3, <1>6, <4>1
    <3> QED
      BY <3>1, <3>2
  <2>2. ASSUME NEW k \in 1 .. n, k # i PROVE s[k] \in {t[j] : j \in 1 .. n - 1}
    <3>1. CASE k < i
      <4>1. k \in 1 .. n - 1 /\ t[k] = s[k]
        BY <1>5, <1>6, <3>1
      <4> QED
        BY <4>1
    <3>2. CASE k > i
      <4>1. k - 1 \in 1 .. n - 1 /\ ~(k - 1 < i) /\ k - 1 + 1 = k
        BY <1>6, <3>2
      <4>2. t[k - 1] = s[k]
        BY <1>5, <4>1
      <4> QED
        BY <4>1, <4>2
    <3> QED
      BY <1>6, <2>2, <3>1, <3>2
  <2>3. lv = {s[k] : k \in 1 .. n} /\ m = s[i]
    BY <1>2, <1>3
  <2> QED
    BY <2>1, <2>2, <2>3
<1>14. ASSUME NEW j \in 1 .. n - 1, NEW k \in 1 .. n - 1, t[j] = t[k] PROVE j = k
  <2>1. PICK x : x = IF j < i THEN j ELSE j + 1
    OBVIOUS
  <2>2. PICK y : y = IF k < i THEN k ELSE k + 1
    OBVIOUS
  <2>3. x \in 1 .. n /\ y \in 1 .. n
    BY <2>1, <2>2
  <2>4. t[j] = s[x] /\ t[k] = s[y]
    BY <1>5, <2>1, <2>2
  <2>5. x = y
    BY <1>2, <1>3, <1>14, <2>3, <2>4
  <2> QED
    BY <1>6, <2>1, <2>2, <2>5
<1>15. ASSUME NEW k \in 0 .. n - 1
       PROVE  nx2[At(t, k)] = At(t, k + 1) /\ pv2[At(t, k + 1)] = At(t, k)
  <2>1. /\ At(t, k) = IF k < i THEN At(s, k) ELSE At(s, k + 1)
        /\ At(t, k + 1) = IF k + 1 < i THEN At(s, k + 1) ELSE At(s, k + 2)
    <3>1. k \in 0 .. n /\ k + 1 \in 0 .. n /\ k + 1 + 1 = k + 2
      OBVIOUS
    <3> QED
      BY <1>12, <3>1
  <2>2. \A j \in 0 .. n : nx[At(s, j)] = At(s, j + 1) /\ pv[At(s, j + 1)] = At(s, j)
    BY <1>2, <1>3
  <2>3. CASE k + 1 < i
    <3>1. /\ k \in 0 .. n /\ k + 1 \in 1 .. n + 1 /\ k + 1 \in 0 .. n + 1 /\ k < i
          /\ k # i - 1 /\ k # i /\ k + 1 # i /\ k + 1 # i + 1 /\ k \in 0 .. n + 1
          /\ i \in 0 .. n /\ i \in 1 .. n + 1
      BY <1>6, <2>3
    <3>2. At(t, k) = At(s, k) /\ At(t, k + 1) = At(s, k + 1)
      BY <2>1, <2>3, <3>1
    <3>3. At(s, k) # p /\ At(s, k + 1) # q /\ At(s, k) # m /\ At(s, k + 1) # m
          /\ At(s, k) \in Cells /\ At(s, k + 1) \in Cells
      BY <1>4, <1>6, <1>7, <1>8, <1>9, <3>1 DEF Cells
    <3> QED
      BY <1>11, <2>2, <3>1, <3>2, <3>3
  <2>4. CASE k + 1 = i
    <3>1. At(t, k) = p /\ At(t, k + 1) = q
      <4>1. k < i /\ k = i - 1 /\ ~(k + 1 < i) /\ k + 2 = i + 1
        BY <1>6, <2>4
      <4> QED
        BY <1>7, <1>8, <2>1, <4>1
    <3> QED
      BY <1>10, <1>11, <3>1
  <2>5. CASE k + 1 > i
    <3>1. PICK j : j = k + 1
      OBVIOUS
    <3>2. /\ j \in 0 .. n /\ j + 1 = k + 2 /\ j + 1 \in 1 .. n + 1 /\ j + 1 \in 0 .. n + 1
          /\ j # i - 1 /\ j # i /\ j + 1 # i /\ j + 1 # i + 1 /\ j \in 0 .. n + 1
          /\ ~(k < i) /\ ~(k + 1 < i) /\ i \in 0 .. n /\ i \in 1 .. n + 1
      BY <1>6, <2>5, <3>1
    <3>3. At(t, k) = At(s, j) /\ At(t, k + 1) = At(s, j + 1)
      BY <2>1, <3>1, <3>2
    <3>4. At(s, j) # p /\ At(s, j + 1) # q /\ At(s, j) # m /\ At(s, j + 1) # m
          /\ At(s, j) \in Cells /\ At(s, j + 1) \in Cells
      BY <1>4, <1>6, <1>7, <1>8, <1>9, <3>2 DEF Cells
    <3> QED
      BY SMTT(30), <1>11, <2>2, <3>2, <3>3, <3>4
  <2> QED
    BY <1>6, <2>3, <2>4, <2>5
<1>16. Threads(t, nx2, pv2, lv \ {m})
  BY <1>5, <1>13, <1>14, <1>15 DEF Threads
<1> QED
  BY <1>1, <1>9, <1>10, <1>16, <1>a, <1>b

(* The links of an empty list.                                             *)
LEMMA NoThreads == Threads(<<>>, Unlinked, Unlinked, {})
<1>1. <<>> \in Seq(Nodes) /\ Len(<<>>) = 0
  BY EmptySeq
<1>2. At(<<>>, 0) = Root /\ At(<<>>, 0 + 1) = Root
  BY <1>1 DEF At
<1>3. Unlinked[Root] = Root
  BY DEF Unlinked, Cells
<1> QED
  BY <1>1, <1>2, <1>3 DEF Threads

-----------------------------------------------------------------------------
(* The walk along next is defined by recursion; that there is such a       *)
(* function, and where it leads, follows from the least number for which   *)
(* it would not be so.                                                     *)
IsWalk(f, m, nx) == f = [k \in 0 .. m |-> IF k = 0 THEN Root ELSE nx[f[k - 1]]]

(* There is a walk of every length along any links next.                   *)
LEMMA WalksExist == \A nx : \A m \in Nat : \E f : IsWalk(f, m, nx)
<1> SUFFICES ASSUME NEW nx PROVE \A m \in Nat : \E f : IsWalk(f, m, nx)
  OBVIOUS
<1>1. PICK B : B = {m \in Nat : ~ \E f : IsWalk(f, m, nx)}
  OBVIOUS
<1>2. CASE B = {}
  BY <1>1, <1>2
<1>3. CASE B # {}
  <2>1. B \subseteq Nat
    BY <1>1
  <2>2. PICK h \in B : \A k \in B : h <= k
    BY ONLY <1>3, <2>1, LeastElement
  <2>3. h \in Nat
    BY <2>1, <2>2
  <2>4. CASE h = 0
    <3>1. PICK f : f = [k \in 0 .. h |-> Root]
      OBVIOUS
    <3>2. \A k \in 0 .. h : k = 0
      BY <2>4
    <3>3. IsWalk(f, h, nx)
      BY <3>1, <3>2 DEF IsWalk
    <3> QED
      BY <1>1, <2>2, <3>3
  <2>5. CASE h # 0
    <3>1. h - 1 \in Nat /\ ~(h <= h - 1)
      BY <2>3, <2>5
    <3>2. PICK f : IsWalk(f, h - 1, nx)
      BY <1>1, <2>2, <3>1
    <3>3. PICK g : g = [k \in 0 .. h |-> IF k = 0 THEN Root ELSE nx[f[k - 1]]]
      OBVIOUS
    <3>4. \A k \in 0 .. h - 1 : f[k] = IF k = 0 THEN Root ELSE nx[f[k - 1]]
      BY <3>2 DEF IsWalk
    <3>5. \A k \in 0 .. h - 1 : g[k] = f[k]
      <4>1. \A k \in 0 .. h - 1 : k \in 0 .. h
        BY <2>3
      <4>2. \A k \in 0 .. h - 1 : g[k] = IF k = 0 THEN Root ELSE nx[f[k - 1]]
        BY ONLY <3>3, <4>1, Zenon
      <4> QED
        BY ONLY <3>4, <4>2, Zenon
    <3>6. \A k \in 0 .. h : k # 0 => k - 1 \in 0 .. h - 1
      BY <2>3
    <3>7. \A k \in 0 .. h : k # 0 => g[k - 1] = f[k - 1]
      BY <3>5, <3>6
    <3>8. g = [k \in 0 .. h |-> IF k = 0 THEN Root ELSE nx[g[k - 1]]]
      BY <3>3, <3>7
    <3> QED
      BY <1>1, <2>2, <3>8 DEF IsWalk
  <2> QED
    BY <2>4, <2>5
<1> QED
  BY <1>2, <1>3

(* So Walk begins at the head and follows next from cell to cell.          *)
LEMMA WalkIs ==
    /\ Walk[0] = Root
    /\ \A k \in 1 .. Cardinality(Nodes) + 1 : Walk[k] = next[Walk[k - 1]]
<1>1. PICK N \in Nat : N = Cardinality(Nodes) + 1
  BY ListAssumption, FS_CardinalityType
<1>2. \E f : IsWalk(f, N, next)
  BY <1>1, WalksExist
<1>3. \E f : f = [k \in 0 .. Cardinality(Nodes) + 1 |->
                     IF k = 0 THEN Root ELSE next[f[k - 1]]]
  BY <1>1, <1>2 DEF IsWalk
<1>4. Walk = [k \in 0 .. Cardinality(Nodes) + 1 |->
                 IF k = 0 THEN Root ELSE next[Walk[k - 1]]]
  BY <1>3 DEF Walk
<1>5. \A k \in 0 .. N : Walk[k] = IF k = 0 THEN Root ELSE next[Walk[k - 1]]
  BY <1>1, <1>4
<1> QED
  BY <1>1, <1>5

-----------------------------------------------------------------------------
(* What the walks over the list find, if it is threaded like s.            *)
Items(s, d) == [i \in 1 .. Len(s) |-> d[s[i]]]

(* A threaded list has as many places as nodes.                            *)
LEMMA ThreadsCount ==
    ASSUME NEW s, Threads(s, next, prev, live)
    PROVE  /\ Len(s) \in Nat /\ Len(s) <= Cardinality(Nodes)
           /\ Cardinality(Nodes) \in Nat /\ Size = Len(s)
<1>1. /\ s \in Seq(Nodes) /\ live = {s[k] : k \in 1 .. Len(s)}
      /\ \A j, k \in 1 .. Len(s) : s[j] = s[k] => j = k
  BY DEF Threads
<1>2. PICK n \in Nat : n = Len(s)
  BY <1>1, LenProperties
<1>3. s \in [1 .. n -> Nodes] /\ \A k \in 1 .. n : s[k] \in live /\ s[k] \in Nodes
  BY <1>1, <1>2, LenProperties, ElementOfSeq
<1>4. s \in [1 .. n -> live]
  BY <1>3
<1>5. s \in Bijection(1 .. n, live)
  BY <1>1, <1>2, <1>4 DEF Bijection, Injection, Surjection, IsInjective
<1>6. ExistsBijection(1 .. n, live)
  BY <1>5 DEF ExistsBijection
<1>7. Cardinality(live) = n
  BY <1>6, FS_CountingElements
<1>8. live \in SUBSET Nodes
  BY <1>1, <1>2, <1>3
<1>9. Cardinality(live) <= Cardinality(Nodes) /\ Cardinality(Nodes) \in Nat
  BY <1>8, ListAssumption, FS_Subset, FS_CardinalityType
<1> QED
  BY <1>2, <1>7, <1>9 DEF Size

(* The loops of zbaselib_list.c that follow next from the head pass the    *)
(* nodes in the order of the thread, and come back to the head.            *)
LEMMA ThreadsWalk ==
    ASSUME NEW s, Threads(s, next, prev, live)
    PROVE  \A k \in 0 .. Len(s) + 1 : Walk[k] = At(s, k)
<1>1. PICK n \in Nat : n = Len(s) /\ n <= Cardinality(Nodes) /\ Cardinality(Nodes) \in Nat
  BY ThreadsCount
<1>2. PICK B : B = {k \in 0 .. n + 1 : Walk[k] # At(s, k)}
  OBVIOUS
<1>3. CASE B = {}
  BY <1>1, <1>2, <1>3
<1>4. CASE B # {}
  <2>1. B \subseteq Nat
    BY <1>2
  <2>2. PICK h \in B : \A k \in B : h <= k
    BY ONLY <1>4, <2>1, LeastElement
  <2>3. h \in 0 .. n + 1 /\ Walk[h] # At(s, h)
    BY <1>2, <2>2
  <2>4. h # 0
    BY <1>1, <2>3, WalkIs DEF At
  <2>5. PICK j : j = h - 1
    OBVIOUS
  <2>6. j \in 0 .. n /\ j \in 0 .. n + 1 /\ ~(h <= j) /\ h = j + 1
        /\ h \in 1 .. Cardinality(Nodes) + 1
    BY <1>1, <2>3, <2>4, <2>5
  <2>7. Walk[j] = At(s, j)
    BY <1>2, <2>2, <2>6
  <2>8. Walk[h] = next[Walk[j]]
    BY <2>5, <2>6, WalkIs
  <2>9. next[At(s, j)] = At(s, j + 1)
    BY <1>1, <2>6 DEF Threads
  <2> QED
    BY <2>3, <2>6, <2>7, <2>8, <2>9
<1> QED
  BY <1>3, <1>4

(* The node that the functions with an index work on.                      *)
LEMMA ThreadsNodes ==
    ASSUME NEW s, Threads(s, next, prev, live), NEW i \in Indices
    PROVE  NodeAt(i) = IF i < Len(s) THEN s[i + 1] ELSE Null
<1>1. PICK n \in Nat : n = Len(s) /\ n <= Cardinality(Nodes) /\ Cardinality(Nodes) \in Nat
  BY ThreadsCount
<1>2. \A k \in 0 .. n + 1 : Walk[k] = At(s, k)
  BY <1>1, ThreadsWalk
<1>3. /\ \A k \in 1 .. n : At(s, k) = s[k] /\ s[k] # Root
      /\ At(s, n + 1) = Root
  BY <1>1, Places DEF Threads
<1>4. i \in Nat
  BY <1>1 DEF Indices
<1>5. CASE i < n
  <2>1. \A k \in 1 .. i + 1 : k \in 1 .. n /\ k \in 0 .. n + 1
    BY <1>4, <1>5
  <2>2. \A k \in 1 .. i + 1 : Walk[k] # Root
    BY <1>2, <1>3, <2>1
  <2>3. i + 1 \in 1 .. n /\ i + 1 \in 0 .. n + 1
    BY <1>4, <1>5
  <2>4. Walk[i + 1] = s[i + 1]
    BY <1>2, <1>3, <2>3
  <2> QED
    BY <1>1, <1>5, <2>2, <2>4 DEF NodeAt
<1>6. CASE ~(i < n)
  <2>1. n + 1 \in 1 .. i + 1 /\ n + 1 \in 0 .. n + 1
    BY <1>4, <1>6
  <2>2. Walk[n + 1] = Root
    BY <1>2, <1>3, <2>1
  <2> QED
    BY <1>1, <1>6, <2>1, <2>2 DEF NodeAt
<1> QED
  BY <1>5, <1>6

(* What the loop over the whole list counts and reads, and when next of the*)
(* head is the head.                                                       *)
LEMMA ThreadsContent ==
    ASSUME NEW s, Threads(s, next, prev, live)
    PROVE  /\ Length = Len(s) /\ Content = Items(s, data)
           /\ IsEmpty <=> Len(s) = 0
           /\ {Walk[k] : k \in 1 .. Size} = live
<1>1. PICK n \in Nat : n = Len(s) /\ n <= Cardinality(Nodes) /\ Cardinality(Nodes) \in Nat
                       /\ Size = n
  BY ThreadsCount
<1>2. \A k \in 0 .. n + 1 : Walk[k] = At(s, k)
  BY <1>1, ThreadsWalk
<1>3. /\ \A k \in 1 .. n : At(s, k) = s[k] /\ s[k] # Root /\ s[k] \in Nodes
      /\ At(s, 0) = Root /\ At(s, n + 1) = Root
  BY <1>1, Places DEF Threads
<1>4. \A i \in Indices : NodeAt(i) = IF i < n THEN s[i + 1] ELSE Null
  BY <1>1, ThreadsNodes
<1>5. Indices = 0 .. Cardinality(Nodes)
  BY DEF Indices
<1>6. PICK C : C = {m \in Indices : NodeAt(m) = Null /\ \A k \in 0 .. m - 1 : NodeAt(k) # Null}
  OBVIOUS
<1>7. n \in C
  <2>1. n \in Indices /\ NodeAt(n) = Null
    BY <1>1, <1>4, <1>5
  <2>2. ASSUME NEW k \in 0 .. n - 1 PROVE NodeAt(k) # Null
    <3>1. k \in Indices /\ k < n /\ k + 1 \in 1 .. n
      BY <1>1, <1>5
    <3> QED
      BY <1>3, <1>4, <3>1, ListAssumption
  <2> QED
    BY <1>6, <2>1, <2>2
<1>8. ASSUME NEW m \in C PROVE m = n
  <2>1. m \in Nat /\ m \in Indices /\ NodeAt(m) = Null
        /\ \A k \in 0 .. m - 1 : NodeAt(k) # Null
    BY <1>5, <1>6
  <2>2. ~(m < n)
    <3> SUFFICES ASSUME m < n PROVE FALSE
      OBVIOUS
    <3>1. m + 1 \in 1 .. n
      BY <2>1
    <3> QED
      BY <1>3, <1>4, <2>1, <3>1, ListAssumption
  <2>3. ~(n < m)
    <3> SUFFICES ASSUME n < m PROVE FALSE
      OBVIOUS
    <3>1. n \in 0 .. m - 1 /\ n \in Indices
      BY <1>1, <1>5, <2>1
    <3> QED
      BY <1>4, <2>1, <3>1
  <2> QED
    BY <2>1, <2>2, <2>3
<1>9. Length = n
  <2>1. Length = CHOOSE m \in C : TRUE
    BY <1>6 DEF Length
  <2> QED
    BY <1>7, <1>8, <2>1
<1>10. Content = Items(s, data)
  <2>1. Content = [i \in 1 .. n |-> data[NodeAt(i - 1)]]
    BY <1>9 DEF Content
  <2>2. ASSUME NEW i \in 1 .. n PROVE NodeAt(i - 1) = s[i]
    <3>1. i - 1 \in Indices /\ i - 1 < n /\ i - 1 + 1 = i
      BY <1>1, <1>5
    <3> QED
      BY <1>4, <3>1
  <2> QED
    BY <1>1, <2>1, <2>2 DEF Items
<1>11. IsEmpty <=> n = 0
  <2>1. next[Root] = At(s, 1)
    <3>1. 0 \in 0 .. Len(s) /\ 0 + 1 = 1
      BY <1>1
    <3> QED
      BY <1>3, <3>1 DEF Threads
  <2>2. CASE n = 0
    BY <1>3, <2>1, <2>2 DEF IsEmpty
  <2>3. CASE n # 0
    <3>1. 1 \in 1 .. n
      BY <2>3
    <3> QED
      BY <1>3, <2>1, <2>3, <3>1 DEF IsEmpty
  <2> QED
    BY <2>2, <2>3
<1>12. {Walk[k] : k \in 1 .. Size} = live
  <2>1. live = {s[k] : k \in 1 .. n}
    BY <1>1 DEF Threads
  <2>2. \A k \in 1 .. n : Walk[k] = s[k]
    BY <1>2, <1>3
  <2> QED
    BY <1>1, <2>1, <2>2
<1> QED
  BY <1>1, <1>9, <1>10, <1>11, <1>12

(* The same of the list after a step.                                      *)
LEMMA NewContent == \A s : Threads(s, next', prev', live') => Content' = Items(s, data')
<1>1. \A s : Threads(s, next, prev, live) => Content = Items(s, data)
  BY ThreadsContent
<1>2. (\A s : Threads(s, next, prev, live) => Content = Items(s, data))'
  BY <1>1, PTL
<1> QED
  BY <1>2

-----------------------------------------------------------------------------
(* The inductive invariant.  No two nodes have the same data; a scan has   *)
(* no match behind its cursor; an iteration that was not disturbed has     *)
(* returned what is up to its node; and nothing is left of a list that was *)
(* destroyed.                                                              *)
Apart(d, lv) ==
    /\ d[Root] = Null
    /\ \A n \in lv : d[n] \in Data
    /\ \A m, n \in lv : d[m] = d[n] => m = n

Behind(s, d, c, mt) ==
    c # Null => \E k \in 0 .. Len(s) : c = At(s, k) /\ \A j \in 1 .. k : d[s[j]] \notin mt

Seen(s, d, it, vs, cl) ==
    cl => \E k \in 1 .. Len(s) + 1 :
             /\ it = At(s, k)
             /\ Len(vs) = IF k <= Len(s) THEN k ELSE Len(s)
             /\ \A j \in 1 .. Len(vs) : vs[j] = d[s[j]]

Gone == ~exists => live = {} /\ clean = FALSE /\ reply = Null

ListInv ==
    /\ TypeOK /\ Owned /\ Apart(data, live) /\ Gone
    /\ \E s : /\ Threads(s, next, prev, live)
              /\ Behind(s, data, cursor, match)
              /\ Seen(s, data, iter, visited, clean)

(* A step of the list, and the one it makes of the abstract sequence.      *)
ListGoes == ListInv' /\ [Sequence!Next]_<<kind, Content, reply>>

Holds(d, lv) == {d[n] : n \in lv}
DataWith(d1, m, d) == [d1 EXCEPT ![m] = d]

(* What the list holds after data were put into a new node, after a node   *)
(* was deleted, and after data were replaced.                              *)
LEMMA HeldAfterAdd ==
    ASSUME NEW d1 \in [Cells -> Data \cup {Null}], NEW lv \in SUBSET Nodes, Apart(d1, lv),
           NEW m \in Nodes \ lv, NEW d \in Data, d \notin Holds(d1, lv)
    PROVE  /\ DataWith(d1, m, d) \in [Cells -> Data \cup {Null}]
           /\ Apart(DataWith(d1, m, d), lv \cup {m})
           /\ \A x : x \in Holds(DataWith(d1, m, d), lv \cup {m})
                     <=> x \in Holds(d1, lv) \/ x = d
<1> DEFINE d2 == DataWith(d1, m, d)
<1>1. m \in Cells /\ Root \in Cells /\ m # Root /\ \A n \in lv : n \in Cells /\ n # m
  BY ListAssumption DEF Cells
<1>2. d2[m] = d /\ d2[Root] = d1[Root] /\ \A n \in lv : d2[n] = d1[n]
  BY <1>1 DEF DataWith
<1>3. d2 \in [Cells -> Data \cup {Null}]
  BY <1>1 DEF DataWith
<1>4. Apart(d2, lv \cup {m})
  BY <1>2 DEF Apart, Holds
<1> QED
  BY <1>2, <1>3, <1>4 DEF Holds

(* zlist_destroy_node takes the data of its node out of the list.          *)
LEMMA HeldAfterDel ==
    ASSUME NEW d1 \in [Cells -> Data \cup {Null}], NEW lv \in SUBSET Nodes, Apart(d1, lv),
           NEW m \in lv
    PROVE  /\ DataWith(d1, m, Null) \in [Cells -> Data \cup {Null}]
           /\ Apart(DataWith(d1, m, Null), lv \ {m})
           /\ d1[m] \in Data
           /\ \A x : x \in Holds(DataWith(d1, m, Null), lv \ {m})
                     <=> x \in Holds(d1, lv) /\ x # d1[m]
<1> DEFINE d2 == DataWith(d1, m, Null)
<1>1. m \in Cells /\ Root \in Cells /\ m # Root /\ \A n \in lv : n \in Cells
  BY ListAssumption DEF Cells
<1>2. d2[Root] = d1[Root] /\ \A n \in lv \ {m} : d2[n] = d1[n]
  BY <1>1 DEF DataWith
<1>3. d2 \in [Cells -> Data \cup {Null}]
  BY <1>1 DEF DataWith
<1>4. d1[m] \in Data /\ \A n \in lv : d1[n] = d1[m] => n = m
  BY DEF Apart
<1>5. Apart(d2, lv \ {m})
  BY <1>2 DEF Apart, Holds
<1> QED
  BY <1>2, <1>3, <1>4, <1>5 DEF Holds

(* set replaces the data of its node.                                      *)
LEMMA HeldAfterSet ==
    ASSUME NEW d1 \in [Cells -> Data \cup {Null}], NEW lv \in SUBSET Nodes, Apart(d1, lv),
           NEW m \in lv, NEW d \in Data, d \notin Holds(d1, lv)
    PROVE  /\ DataWith(d1, m, d) \in [Cells -> Data \cup {Null}]
           /\ Apart(DataWith(d1, m, d), lv)
           /\ d1[m] \in Data
           /\ \A x : x \in Holds(DataWith(d1, m, d), lv)
                     <=> (x \in Holds(d1, lv) /\ x # d1[m]) \/ x = d
<1> DEFINE d2 == DataWith(d1, m, d)
<1>1. m \in Cells /\ Root \in Cells /\ m # Root /\ \A n \in lv : n \in Cells
  BY ListAssumption DEF Cells
<1>2. d2[m] = d /\ d2[Root] = d1[Root] /\ \A n \in lv : n # m => d2[n] = d1[n]
  BY <1>1 DEF DataWith
<1>3. d2 \in [Cells -> Data \cup {Null}]
  BY <1>1 DEF DataWith
<1>4. d1[m] \in Data /\ \A n \in lv : d1[n] = d1[m] => n = m
  BY DEF Apart
<1>5. Apart(d2, lv)
  BY <1>2 DEF Apart, Holds
<1> QED
  BY <1>2, <1>3, <1>4, <1>5 DEF Holds

(* The data of a threaded list, as a sequence.                             *)
LEMMA ItemsAre ==
    ASSUME NEW s \in Seq(Nodes), NEW d, \A k \in 1 .. Len(s) : d[s[k]] \in Data
    PROVE  /\ Items(s, d) \in Seq(Data) /\ Len(Items(s, d)) = Len(s)
           /\ DOMAIN Items(s, d) = 1 .. Len(s)
           /\ \A k \in 1 .. Len(s) : Items(s, d)[k] = d[s[k]]
<1>1. PICK n \in Nat : n = Len(s)
  BY LenProperties
<1>2. PICK x : x = Items(s, d)
  OBVIOUS
<1>3. x = [k \in 1 .. n |-> d[s[k]]] /\ \A k \in 1 .. n : d[s[k]] \in Data
  BY <1>1, <1>2 DEF Items
<1>4. x \in [1 .. n -> Data] /\ \A k \in 1 .. n : x[k] = d[s[k]]
  BY <1>3
<1>5. x \in Seq(Data) /\ Len(x) = n
  BY <1>4, FunctionIsSeq
<1> QED
  BY <1>1, <1>2, <1>4, <1>5

(* zlist_add_node with new data, anywhere.                                 *)
LEMMA AddGoes ==
    ASSUME ListInv, NEW s, Threads(s, next, prev, live), Ready,
           NEW i \in 1 .. Len(s) + 1, NEW d \in Data,
           AddBetween(d, At(s, i - 1), At(s, i)),
           kind = "queue" => i = Len(s) + 1, kind = "stack" => i = 1
    PROVE  ListGoes
<1>1. PICK m \in Nodes \ live :
         /\ next' = [next EXCEPT ![At(s, i - 1)] = m, ![m] = At(s, i)]
         /\ prev' = [prev EXCEPT ![m] = At(s, i - 1), ![At(s, i)] = m]
         /\ data' = [data EXCEPT ![m] = d]
         /\ live' = live \cup {m}
  BY DEF AddBetween, PrevAfterAdd
<1>2. /\ d \notin Listed /\ d \notin freed
      /\ given' = IF ddfunc THEN given \cup {d} ELSE given
      /\ reply' = Null /\ clean' = FALSE
      /\ UNCHANGED <<kind, exists, ddfunc, scanVars, iter, visited, freed>>
  BY DEF AddBetween
<1>3. /\ TypeOK /\ Owned /\ Apart(data, live)
      /\ exists = TRUE /\ cursor = Null
  BY DEF ListInv, Ready, TypeOK
<1>4. /\ next \in [Cells -> Cells \cup {Null}] /\ prev \in [Cells -> Cells \cup {Null}]
      /\ data \in [Cells -> Data \cup {Null}] /\ live \in SUBSET Nodes
      /\ given \in SUBSET Data /\ freed \in SUBSET Data
      /\ kind \in {"list", "queue", "stack"} /\ exists \in BOOLEAN /\ ddfunc \in BOOLEAN
      /\ match \in SUBSET Data /\ iter \in Cells \cup {Null} /\ visited \in Seq(Data)
  BY <1>3 DEF TypeOK
<1>5. PICK t : t = WithAt(s, i, m)
  OBVIOUS
<1>6. PICK p : p = At(s, i - 1)
  OBVIOUS
<1>7. PICK q : q = At(s, i)
  OBVIOUS
<1>8. Threads(t, next', prev', live') /\ p \in Cells /\ q \in Cells
  <2>1. i \in 1 .. Len(s) + 1 /\ Threads(s, next, prev, live) /\ m \in Nodes \ live
    OBVIOUS
  <2>2. /\ Threads(WithAt(s, i, m), NextWith(next, p, m, q), PrevWith(prev, p, m, q),
                   live \cup {m})
        /\ p \in Cells /\ q \in Cells
    BY ONLY SMTT(30), <1>4, <1>6, <1>7, <2>1, AddThreads
  <2>3. next' = NextWith(next, p, m, q) /\ prev' = PrevWith(prev, p, m, q)
    BY <1>1, <1>6, <1>7 DEF NextWith, PrevWith
  <2> QED
    BY <1>1, <1>5, <2>2, <2>3
<1>9. /\ data' \in [Cells -> Data \cup {Null}] /\ Apart(data', live')
      /\ Holds(data', live') = Holds(data, live) \cup {d}
  <2>1. d \notin Holds(data, live) /\ d \in Data
    BY <1>2 DEF Listed, Holds
  <2>2. m \in Nodes \ live
    OBVIOUS
  <2>3. /\ DataWith(data, m, d) \in [Cells -> Data \cup {Null}]
        /\ Apart(DataWith(data, m, d), live \cup {m})
        /\ \A x : x \in Holds(DataWith(data, m, d), live \cup {m})
                  <=> x \in Holds(data, live) \/ x = d
    <3>1. /\ data \in [Cells -> Data \cup {Null}] /\ live \in SUBSET Nodes
          /\ Apart(data, live)
      BY ONLY <1>3, <1>4
    <3> QED
      BY ONLY <2>1, <2>2, <3>1, HeldAfterAdd, Zenon
  <2>4. data' = DataWith(data, m, d) /\ live' = live \cup {m}
    BY <1>1 DEF DataWith
  <2> QED
    BY ONLY <2>3, <2>4
<1>10. Listed' = Listed \cup {d}
  BY <1>9 DEF Listed, Holds
<1>11. TypeOK'
  <2>1. next' \in [Cells -> Cells \cup {Null}] /\ prev' \in [Cells -> Cells \cup {Null}]
        /\ live' \in SUBSET Nodes
    BY <1>1, <1>4, <1>6, <1>7, <1>8 DEF Cells
  <2>2. given' \in SUBSET Data /\ freed' \in SUBSET Data
    BY <1>2, <1>4
  <2>3. /\ kind' = kind /\ exists' = exists /\ ddfunc' = ddfunc /\ cursor' = Null
        /\ match' = match /\ iter' = iter /\ visited' = visited /\ clean' = FALSE
        /\ reply' = Null
    BY <1>2, <1>3 DEF scanVars
  <2> QED
    BY ONLY <1>4, <1>9, <2>1, <2>2, <2>3 DEF TypeOK
<1>12. Owned'
  <2>1. ddfunc' = ddfunc /\ freed' = freed
    BY <1>2
  <2> QED
    BY ONLY <1>2, <1>3, <1>10, <2>1 DEF Owned
<1>13. ListInv'
  <2>1. Gone' /\ cursor' = Null /\ clean' = FALSE
    BY <1>2, <1>3 DEF Gone, scanVars
  <2>2. Behind(t, data', cursor', match') /\ Seen(t, data', iter', visited', clean')
    BY <2>1 DEF Behind, Seen
  <2> QED
    BY <1>8, <1>9, <1>11, <1>12, <2>1, <2>2 DEF ListInv
<1>14. /\ s \in Seq(Nodes) /\ live = {s[k] : k \in 1 .. Len(s)}
       /\ t \in Seq(Nodes) /\ live' = {t[k] : k \in 1 .. Len(t)}
  BY <1>8 DEF Threads
<1>15. PICK x : x = Content
  OBVIOUS
<1>16. PICK y : y = Content'
  OBVIOUS
<1>17. x = Items(s, data) /\ y = Items(t, data')
  BY <1>8, <1>15, <1>16, ThreadsContent, NewContent
<1>18. PICK n \in Nat : n = Len(s)
  BY <1>14, LenProperties
<1>19. /\ x \in Seq(Data) /\ Len(x) = n /\ \A k \in 1 .. n : x[k] = data[s[k]]
  <2>1. \A k \in 1 .. Len(s) : data[s[k]] \in Data
    BY <1>3, <1>14 DEF Apart
  <2> QED
    BY ONLY <1>14, <1>17, <1>18, <2>1, ItemsAre
<1>20. /\ y \in Seq(Data) /\ Len(y) = Len(t) /\ \A k \in 1 .. Len(t) : y[k] = data'[t[k]]
  <2>1. \A k \in 1 .. Len(t) : data'[t[k]] \in Data
    BY <1>9, <1>14 DEF Apart
  <2> QED
    BY ONLY ZenonT(40), <1>14, <1>17, <2>1, ItemsAre
<1>21. /\ Len(t) = n + 1
       /\ \A k \in 1 .. n + 1 : t[k] = IF k < i THEN s[k] ELSE IF k = i THEN m ELSE s[k - 1]
  <2>1. s \in Seq(Nodes) /\ i \in 1 .. Len(s) + 1 /\ m \in Nodes
    BY <1>14
  <2>2. /\ Len(WithAt(s, i, m)) = Len(s) + 1
        /\ \A k \in 1 .. Len(s) + 1 :
              WithAt(s, i, m)[k] = ElementWith(s, i, m, k)
    BY ONLY <2>1, InsertedAt
  <2> QED
    BY ONLY <1>5, <1>18, <2>2 DEF ElementWith
<1>22. PICK z : z = WithAt(x, i, d)
  OBVIOUS
<1>23. /\ z \in Seq(Data) /\ Len(z) = n + 1
       /\ \A k \in 1 .. n + 1 : z[k] = IF k < i THEN x[k] ELSE IF k = i THEN d ELSE x[k - 1]
  <2>1. i \in 1 .. Len(x) + 1 /\ d \in Data /\ x \in Seq(Data)
    BY <1>18, <1>19
  <2>2. /\ WithAt(x, i, d) \in Seq(Data) /\ Len(WithAt(x, i, d)) = Len(x) + 1
        /\ \A k \in 1 .. Len(x) + 1 :
              WithAt(x, i, d)[k] = ElementWith(x, i, d, k)
    BY ONLY <2>1, InsertedAt
  <2> QED
    BY ONLY <1>19, <1>22, <2>2 DEF ElementWith
<1>24. \A k \in 1 .. n : data'[s[k]] = data[s[k]]
  <2>1. m \in Cells /\ data' = [data EXCEPT ![m] = d] /\ \A k \in 1 .. n : s[k] \in live
    BY <1>1, <1>14, <1>18 DEF Cells
  <2>2. \A k \in 1 .. n : s[k] \in Cells /\ s[k] # m
    BY <1>1, <1>4, <2>1 DEF Cells
  <2> QED
    BY <1>4, <2>1, <2>2
<1>25. data'[m] = d
  BY <1>1, <1>4 DEF Cells
<1>26. y = z
  <2>1. ASSUME NEW k \in 1 .. n + 1 PROVE y[k] = z[k]
    <3>1. (k < i => k \in 1 .. n) /\ (k > i => k - 1 \in 1 .. n) /\ i \in 1 .. n + 1
      BY <1>18
    <3>2. /\ y[k] = data'[t[k]]
          /\ t[k] = IF k < i THEN s[k] ELSE IF k = i THEN m ELSE s[k - 1]
          /\ z[k] = IF k < i THEN x[k] ELSE IF k = i THEN d ELSE x[k - 1]
      BY <1>20, <1>21, <1>23
    <3>3. \A j \in 1 .. n : data'[s[j]] = x[j]
      BY <1>19, <1>24
    <3>4. CASE k < i
      BY ONLY <3>1, <3>2, <3>3, <3>4
    <3>5. CASE k = i
      BY ONLY <1>25, <3>1, <3>2, <3>5
    <3>6. CASE k > i
      <4>1. ~(k < i) /\ k # i
        BY <3>1, <3>6
      <4> QED
        BY ONLY <3>1, <3>2, <3>3, <3>6, <4>1
    <3> QED
      BY <3>1, <3>4, <3>5, <3>6
  <2> QED
    BY ONLY <1>20, <1>21, <1>23, <2>1, SeqEqual
<1>27. Sequence!Insert(i, d)
  <2>1. Len(x) = Len(s)
    BY <1>18, <1>19
  <2> QED
    BY <1>2, <1>15, <1>16, <1>22, <1>26, <2>1 DEF Sequence!Insert, WithAt
<1>28. i \in 1 .. Len(Content) + 1 /\ kind' = kind
  BY <1>2, <1>15, <1>18, <1>19
<1> QED
  BY <1>13, <1>27, <1>28 DEF ListGoes, Sequence!Next

(* zlist_del_node and zlist_destroy_node, of any node; where a scan is     *)
(* then is for the caller to say.                                          *)
LEMMA DelGoes ==
    ASSUME ListInv, NEW s, Threads(s, next, prev, live),
           NEW i \in 1 .. Len(s), Delete(s[i]), kind # "list" => i = 1,
           reply' \in {data[s[i]], Null}, match' \in SUBSET Data,
           cursor' \in Cells \cup {Null},
           Behind(WithoutAt(s, i), data', cursor', match')
    PROVE  ListGoes
<1>1. PICK m : m = s[i]
  OBVIOUS
<1>2. /\ next' = NextWithout(next, prev, m) /\ prev' = PrevWithout(next, prev, m)
      /\ data' = DataWith(data, m, Null) /\ live' = live \ {m}
      /\ freed' = IF ddfunc THEN freed \cup {data[m]} ELSE freed
      /\ clean' = FALSE
      /\ UNCHANGED <<kind, exists, ddfunc, iter, visited, given>>
  BY <1>1 DEF Delete, FreedWith, NextWithout, PrevWithout, DataWith
<1>3. TypeOK /\ Owned /\ Apart(data, live) /\ Gone
  BY DEF ListInv
<1>4. /\ next \in [Cells -> Cells \cup {Null}] /\ prev \in [Cells -> Cells \cup {Null}]
      /\ data \in [Cells -> Data \cup {Null}] /\ live \in SUBSET Nodes
      /\ given \in SUBSET Data /\ freed \in SUBSET Data
      /\ kind \in {"list", "queue", "stack"} /\ exists \in BOOLEAN /\ ddfunc \in BOOLEAN
      /\ iter \in Cells \cup {Null} /\ visited \in Seq(Data)
  BY <1>3 DEF TypeOK
<1>5. PICK t : t = WithoutAt(s, i)
  OBVIOUS
<1>6. /\ Threads(t, next', prev', live')
      /\ m \in live /\ m \in Nodes /\ next[m] \in Cells /\ prev[m] \in Cells
  <2>1. i \in 1 .. Len(s) /\ Threads(s, next, prev, live)
    OBVIOUS
  <2>3. next \in [Cells -> Cells \cup {Null}] /\ prev \in [Cells -> Cells \cup {Null}]
    BY ONLY <1>4
  <2>2. /\ Threads(WithoutAt(s, i), NextWithout(next, prev, m), PrevWithout(next, prev, m),
                   live \ {m})
        /\ m \in live /\ m \in Nodes /\ next[m] \in Cells /\ prev[m] \in Cells
    BY ONLY <1>1, <2>1, <2>3, DelThreads, ZenonT(40)
  <2> QED
    BY <1>2, <1>5, <2>2
<1>7. /\ data' \in [Cells -> Data \cup {Null}] /\ Apart(data', live') /\ data[m] \in Data
      /\ Holds(data', live') = Holds(data, live) \ {data[m]}
  <2>1. /\ data \in [Cells -> Data \cup {Null}] /\ live \in SUBSET Nodes
        /\ Apart(data, live)
    BY ONLY <1>3, <1>4
  <2>2. /\ DataWith(data, m, Null) \in [Cells -> Data \cup {Null}]
        /\ Apart(DataWith(data, m, Null), live \ {m})
        /\ data[m] \in Data
        /\ \A x : x \in Holds(DataWith(data, m, Null), live \ {m})
                  <=> x \in Holds(data, live) /\ x # data[m]
    BY ONLY <1>6, <2>1, HeldAfterDel, Zenon
  <2>3. data' = DataWith(data, m, Null) /\ live' = live \ {m}
    BY <1>2
  <2> QED
    BY ONLY <2>2, <2>3
<1>8. Listed' = Listed \ {data[m]} /\ data[m] \in Listed
  BY <1>6, <1>7 DEF Listed, Holds
<1>9. exists = TRUE
  BY <1>3, <1>4, <1>6 DEF Gone
<1>10. TypeOK'
  <2>1. next' \in [Cells -> Cells \cup {Null}] /\ prev' \in [Cells -> Cells \cup {Null}]
        /\ live' \in SUBSET Nodes
    BY <1>2, <1>4, <1>6 DEF NextWithout, PrevWithout
  <2>2. freed' \in SUBSET Data /\ reply' \in Data \cup {Null}
    BY <1>1, <1>2, <1>4, <1>7
  <2>3. /\ kind' = kind /\ exists' = exists /\ ddfunc' = ddfunc /\ given' = given
        /\ iter' = iter /\ visited' = visited /\ clean' = FALSE
    BY <1>2
  <2>4. match' \in SUBSET Data /\ cursor' \in Cells \cup {Null}
    OBVIOUS
  <2> QED
    BY ONLY <1>4, <1>7, <2>1, <2>2, <2>3, <2>4 DEF TypeOK
<1>11. Owned'
  <2>1. ddfunc' = ddfunc /\ given' = given
    BY <1>2
  <2> QED
    BY ONLY <1>2, <1>3, <1>8, <2>1 DEF Owned
<1>12. ListInv'
  <2>1. Gone' /\ clean' = FALSE
    BY <1>2, <1>9 DEF Gone
  <2>2. Behind(t, data', cursor', match') /\ Seen(t, data', iter', visited', clean')
    BY <1>5, <2>1 DEF Seen
  <2> QED
    BY <1>6, <1>7, <1>10, <1>11, <2>1, <2>2 DEF ListInv
<1>13. /\ s \in Seq(Nodes) /\ live = {s[k] : k \in 1 .. Len(s)}
       /\ \A j, k \in 1 .. Len(s) : s[j] = s[k] => j = k
       /\ t \in Seq(Nodes) /\ live' = {t[k] : k \in 1 .. Len(t)}
  BY <1>6 DEF Threads
<1>14. PICK x : x = Content
  OBVIOUS
<1>15. PICK y : y = Content'
  OBVIOUS
<1>16. x = Items(s, data) /\ y = Items(t, data')
  BY <1>6, <1>14, <1>15, ThreadsContent, NewContent
<1>17. PICK n \in Nat : n = Len(s)
  BY <1>13, LenProperties
<1>18. /\ x \in Seq(Data) /\ Len(x) = n /\ DOMAIN x = 1 .. n
       /\ \A k \in 1 .. n : x[k] = data[s[k]]
  <2>1. \A k \in 1 .. Len(s) : data[s[k]] \in Data
    BY <1>3, <1>13 DEF Apart
  <2> QED
    BY ONLY <1>13, <1>16, <1>17, <2>1, ItemsAre
<1>19. /\ y \in Seq(Data) /\ Len(y) = Len(t) /\ \A k \in 1 .. Len(t) : y[k] = data'[t[k]]
  <2>1. \A k \in 1 .. Len(t) : data'[t[k]] \in Data
    BY <1>7, <1>13 DEF Apart
  <2> QED
    BY ONLY <1>13, <1>16, <2>1, ItemsAre
<1>20. /\ Len(t) = n - 1
       /\ \A k \in 1 .. n - 1 : t[k] = IF k < i THEN s[k] ELSE s[k + 1]
  <2>1. i \in 1 .. Len(s)
    OBVIOUS
  <2>2. /\ Len(WithoutAt(s, i)) = Len(s) - 1
        /\ \A k \in 1 .. Len(s) - 1 :
              WithoutAt(s, i)[k] = IF k < i THEN s[k] ELSE s[k + 1]
    BY ONLY <1>13, <2>1, RemovedAt, Zenon
  <2> QED
    BY ONLY <1>5, <1>17, <2>2
<1>21. PICK z : z = WithoutAt(x, i)
  OBVIOUS
<1>22. /\ z \in Seq(Data) /\ Len(z) = n - 1
       /\ \A k \in 1 .. n - 1 : z[k] = IF k < i THEN x[k] ELSE x[k + 1]
  <2>1. i \in 1 .. Len(x) /\ x \in Seq(Data)
    BY <1>17, <1>18
  <2>2. /\ WithoutAt(x, i) \in Seq(Data) /\ Len(WithoutAt(x, i)) = Len(x) - 1
        /\ \A k \in 1 .. Len(x) - 1 :
              WithoutAt(x, i)[k] = IF k < i THEN x[k] ELSE x[k + 1]
    BY ONLY <2>1, RemovedAt, Zenon
  <2> QED
    BY ONLY <1>18, <1>21, <2>2
<1>23. \A k \in 1 .. n : k # i => data'[s[k]] = x[k]
  <2>1. \A k \in 1 .. n : s[k] \in Cells /\ (k # i => s[k] # m)
    BY <1>1, <1>4, <1>13, <1>17 DEF Cells
  <2>2. \A c \in Cells : c # m => data'[c] = data[c]
    BY <1>2, <1>4, <1>6 DEF DataWith
  <2> QED
    BY <1>18, <2>1, <2>2
<1>24. y = z
  <2>1. ASSUME NEW k \in 1 .. n - 1 PROVE y[k] = z[k]
    <3>1. k \in 1 .. n /\ k + 1 \in 1 .. n /\ i \in 1 .. n
      BY <1>17
    <3>2. /\ y[k] = data'[t[k]] /\ t[k] = IF k < i THEN s[k] ELSE s[k + 1]
          /\ z[k] = IF k < i THEN x[k] ELSE x[k + 1]
      BY <1>19, <1>20, <1>22
    <3>3. CASE k < i
      <4>1. k # i
        BY <3>1, <3>3
      <4> QED
        BY ONLY <1>23, <3>1, <3>2, <3>3, <4>1
    <3>4. CASE ~(k < i)
      <4>1. k + 1 # i
        BY <3>1, <3>4
      <4> QED
        BY ONLY <1>23, <3>1, <3>2, <3>4, <4>1
    <3> QED
      BY <3>3, <3>4
  <2> QED
    BY ONLY <1>19, <1>20, <1>22, <2>1, SeqEqual
<1>25. Sequence!Remove(i)
  <2>1. x[i] = data[m]
    BY <1>1, <1>17, <1>18
  <2>2. Content' = SubSeq(Content, 1, i - 1) \o SubSeq(Content, i + 1, Len(Content))
    BY <1>14, <1>15, <1>21, <1>24 DEF WithoutAt
  <2> QED
    BY <1>1, <1>14, <2>1, <2>2 DEF Sequence!Remove, Sequence!Without
<1>26. i \in DOMAIN Content /\ kind' = kind
  BY <1>2, <1>14, <1>17, <1>18
<1> QED
  BY <1>12, <1>25, <1>26 DEF ListGoes, Sequence!Next, Sequence!Positions

(* sethead, settail and set, for any node.                                 *)
LEMMA SetGoesOn ==
    ASSUME ListInv, NEW s, Threads(s, next, prev, live),
           NEW i \in 1 .. Len(s), NEW d \in Data, SetData(s[i], d), kind = "list"
    PROVE  ListGoes
<1>1. PICK m : m = s[i]
  OBVIOUS
<1>2. /\ exists /\ cursor = Null /\ ddfunc /\ d \notin Listed /\ d \notin freed
      /\ data' = DataWith(data, m, d)
      /\ freed' = freed \cup {data[m]} /\ given' = given \cup {d}
      /\ reply' = Null /\ clean' = FALSE
      /\ UNCHANGED <<kind, exists, ddfunc, next, prev, live, scanVars, iter, visited>>
  BY <1>1 DEF SetData, FreedWith, DataWith, Ready
<1>3. TypeOK /\ Owned /\ Apart(data, live)
  BY DEF ListInv
<1>4. /\ next \in [Cells -> Cells \cup {Null}] /\ prev \in [Cells -> Cells \cup {Null}]
      /\ data \in [Cells -> Data \cup {Null}] /\ live \in SUBSET Nodes
      /\ given \in SUBSET Data /\ freed \in SUBSET Data
      /\ kind \in {"list", "queue", "stack"} /\ exists \in BOOLEAN /\ ddfunc \in BOOLEAN
      /\ match \in SUBSET Data /\ iter \in Cells \cup {Null} /\ visited \in Seq(Data)
  BY <1>3 DEF TypeOK
<1>5. /\ s \in Seq(Nodes) /\ live = {s[k] : k \in 1 .. Len(s)}
      /\ \A j, k \in 1 .. Len(s) : s[j] = s[k] => j = k
  BY DEF Threads
<1>6. m \in live
  BY <1>1, <1>5
<1>7. /\ data' \in [Cells -> Data \cup {Null}] /\ Apart(data', live') /\ data[m] \in Data
      /\ Holds(data', live') = (Holds(data, live) \ {data[m]}) \cup {d}
  <2>1. /\ data \in [Cells -> Data \cup {Null}] /\ live \in SUBSET Nodes
        /\ Apart(data, live) /\ d \notin Holds(data, live) /\ d \in Data
    BY <1>2, <1>3, <1>4 DEF Holds, Listed
  <2>2. /\ DataWith(data, m, d) \in [Cells -> Data \cup {Null}]
        /\ Apart(DataWith(data, m, d), live)
        /\ data[m] \in Data
        /\ \A x : x \in Holds(DataWith(data, m, d), live)
                  <=> (x \in Holds(data, live) /\ x # data[m]) \/ x = d
    BY ONLY <1>6, <2>1, HeldAfterSet, Zenon
  <2>3. data' = DataWith(data, m, d) /\ live' = live
    BY <1>2
  <2> QED
    BY ONLY <2>2, <2>3
<1>8. Listed' = (Listed \ {data[m]}) \cup {d} /\ data[m] \in Listed
  BY <1>6, <1>7 DEF Listed, Holds
<1>9. TypeOK'
  <2>1. freed' \in SUBSET Data /\ given' \in SUBSET Data
    BY <1>2, <1>4, <1>7
  <2>2. /\ kind' = kind /\ exists' = exists /\ ddfunc' = ddfunc /\ next' = next
        /\ prev' = prev /\ live' = live /\ cursor' = Null /\ match' = match
        /\ iter' = iter /\ visited' = visited /\ clean' = FALSE /\ reply' = Null
    BY <1>2 DEF scanVars
  <2> QED
    BY ONLY <1>4, <1>7, <2>1, <2>2 DEF TypeOK
<1>10. Owned'
  <2>1. ddfunc /\ (d \notin Listed /\ d \notin freed)
    BY <1>2
  <2> QED
    BY ONLY <1>2, <1>3, <1>8, <2>1 DEF Owned
<1>11. Threads(s, next', prev', live')
  BY <1>2
<1>12. ListInv'
  <2>1. Gone' /\ clean' = FALSE /\ cursor' = Null
    BY <1>2 DEF Gone, scanVars
  <2>2. Behind(s, data', cursor', match') /\ Seen(s, data', iter', visited', clean')
    BY <2>1 DEF Seen, Behind
  <2> QED
    BY <1>7, <1>9, <1>10, <1>11, <2>1, <2>2 DEF ListInv
<1>13. PICK x : x = Content
  OBVIOUS
<1>14. PICK y : y = Content'
  OBVIOUS
<1>15. x = Items(s, data) /\ y = Items(s, data')
  BY <1>11, <1>13, <1>14, ThreadsContent, NewContent
<1>16. PICK n \in Nat : n = Len(s)
  BY <1>5, LenProperties
<1>17. /\ x \in Seq(Data) /\ Len(x) = n /\ DOMAIN x = 1 .. n
       /\ \A k \in 1 .. n : x[k] = data[s[k]]
  <2>1. \A k \in 1 .. Len(s) : data[s[k]] \in Data
    BY <1>3, <1>5 DEF Apart
  <2> QED
    BY ONLY <1>5, <1>15, <1>16, <2>1, ItemsAre
<1>18. /\ y \in Seq(Data) /\ Len(y) = n /\ \A k \in 1 .. n : y[k] = data'[s[k]]
  <2>1. live' = live
    BY <1>2
  <2>2. \A k \in 1 .. Len(s) : data'[s[k]] \in Data
    BY ONLY <1>5, <1>7, <2>1 DEF Apart
  <2> QED
    BY ONLY <1>5, <1>15, <1>16, <2>2, ItemsAre
<1>19. PICK z : z = [x EXCEPT ![i] = d]
  OBVIOUS
<1>20. /\ z \in Seq(Data) /\ Len(z) = n
       /\ \A k \in 1 .. n : z[k] = IF k = i THEN d ELSE x[k]
  <2>1. i \in 1 .. Len(x) /\ x \in Seq(Data) /\ d \in Data
    BY <1>16, <1>17
  <2> QED
    BY ONLY <1>17, <1>19, <2>1, ExceptSeq
<1>21. \A k \in 1 .. n : data'[s[k]] = IF k = i THEN d ELSE x[k]
  <2>1. \A k \in 1 .. n : s[k] \in Cells /\ (k # i => s[k] # m) /\ (k = i => s[k] = m)
    BY <1>1, <1>4, <1>5, <1>16 DEF Cells
  <2>2. /\ \A c \in Cells : c # m => data'[c] = data[c]
        /\ data'[m] = d
    BY <1>2, <1>4, <1>6 DEF DataWith, Cells
  <2> QED
    BY <1>17, <2>1, <2>2
<1>22. y = z
  <2>1. \A k \in 1 .. n : y[k] = z[k]
    BY <1>18, <1>20, <1>21
  <2> QED
    BY ONLY <1>18, <1>20, <2>1, SeqEqual
<1>23. Sequence!Replace(i, d)
  BY <1>2, <1>13, <1>14, <1>19, <1>22 DEF Sequence!Replace
<1>24. i \in DOMAIN Content /\ kind' = kind
  BY <1>2, <1>13, <1>16, <1>17
<1> QED
  BY <1>12, <1>23, <1>24 DEF ListGoes, Sequence!Next, Sequence!Positions

-----------------------------------------------------------------------------
(* What the steps read of a threaded list: its ends, and the cells to both *)
(* sides of each.                                                          *)
LEMMA Reads ==
    ASSUME NEW s, Threads(s, next, prev, live)
    PROVE  /\ s \in Seq(Nodes) /\ Len(s) \in Nat /\ Len(s) <= Cardinality(Nodes)
           /\ Cardinality(Nodes) \in Nat
           /\ live = {s[k] : k \in 1 .. Len(s)}
           /\ \A k \in 1 .. Len(s) : At(s, k) = s[k] /\ s[k] \in live /\ s[k] \in Nodes
                                     /\ s[k] # Root
           /\ At(s, 0) = Root /\ At(s, Len(s) + 1) = Root
           /\ \A k \in 0 .. Len(s) : next[At(s, k)] = At(s, k + 1)
                                     /\ prev[At(s, k + 1)] = At(s, k)
           /\ \A k \in 0 .. Len(s) + 1 : At(s, k) \in Cells
           /\ IsEmpty <=> Len(s) = 0
           /\ next[Root] = At(s, 1) /\ prev[Root] = At(s, Len(s))
<1>1. /\ s \in Seq(Nodes) /\ live = {s[k] : k \in 1 .. Len(s)}
      /\ \A j, k \in 1 .. Len(s) : s[j] = s[k] => j = k
      /\ \A k \in 0 .. Len(s) : next[At(s, k)] = At(s, k + 1)
                                /\ prev[At(s, k + 1)] = At(s, k)
  BY DEF Threads
<1>2. PICK n \in Nat : n = Len(s)
  BY <1>1, LenProperties
<1>3. /\ \A k \in 1 .. n : At(s, k) = s[k] /\ s[k] \in Nodes /\ s[k] # Root
      /\ At(s, 0) = Root /\ At(s, n + 1) = Root
      /\ \A k \in 0 .. n + 1 : At(s, k) \in Nodes \cup {Root}
  BY <1>1, <1>2, Places
<1>4. next[Root] = At(s, 1) /\ prev[Root] = At(s, n)
  <2>1. 0 \in 0 .. n /\ n \in 0 .. n /\ 0 + 1 = 1
    OBVIOUS
  <2>2. next[At(s, 0)] = At(s, 0 + 1) /\ prev[At(s, n + 1)] = At(s, n)
    BY <1>1, <1>2, <2>1
  <2> QED
    BY <1>3, <2>1, <2>2
<1>5. (IsEmpty <=> n = 0) /\ n <= Cardinality(Nodes) /\ Cardinality(Nodes) \in Nat
  BY <1>2, ThreadsContent, ThreadsCount
<1>6. \A k \in 1 .. n : s[k] \in live
  BY <1>1, <1>2
<1> QED
  BY <1>1, <1>2, <1>3, <1>4, <1>5, <1>6 DEF Cells

(* A step that leaves the links and what the list holds as they are.       *)
LEMMA LookGoes ==
    ASSUME ListInv, NEW s, Threads(s, next, prev, live),
           UNCHANGED <<kind, exists, ddfunc, linkVars, ownVars>>,
           reply' = reply \/ reply' \in Listed \cup {Null},
           cursor' \in Cells \cup {Null}, match' \in SUBSET Data,
           iter' \in Cells \cup {Null}, visited' \in Seq(Data), clean' \in BOOLEAN,
           exists \/ (clean' = clean /\ reply' = reply),
           Behind(s, data, cursor', match'), Seen(s, data, iter', visited', clean')
    PROVE  ListGoes
<1>1. TypeOK /\ Owned /\ Apart(data, live) /\ Gone
  BY DEF ListInv
<1>2. /\ next' = next /\ prev' = prev /\ data' = data /\ live' = live
      /\ kind' = kind /\ exists' = exists /\ ddfunc' = ddfunc
      /\ given' = given /\ freed' = freed
  BY DEF linkVars, ownVars
<1>3. Listed' = Listed
  BY <1>2 DEF Listed
<1>4. reply' \in Data \cup {Null}
  <2>1. reply \in Data \cup {Null}
    BY <1>1 DEF TypeOK
  <2>2. Listed \subseteq Data
    BY <1>1 DEF Listed, Apart
  <2> QED
    BY <2>1, <2>2
<1>5. TypeOK'
  BY <1>1, <1>2, <1>4 DEF TypeOK, Cells
<1>6. Owned' /\ Gone' /\ Apart(data', live')
  BY <1>1, <1>2, <1>3 DEF Owned, Gone
<1>7. Threads(s, next', prev', live')
  BY <1>2
<1>8. ListInv'
  BY <1>2, <1>5, <1>6, <1>7 DEF ListInv
<1>9. Content' = Content
  <2>1. Content = Items(s, data) /\ Content' = Items(s, data')
    BY <1>7, ThreadsContent, NewContent
  <2> QED
    BY <1>2, <2>1
<1>10. CASE reply' = reply
  BY <1>2, <1>8, <1>9, <1>10 DEF ListGoes
<1>11. CASE reply' \in Listed \cup {Null}
  <2>1. s \in Seq(Nodes) /\ live = {s[k] : k \in 1 .. Len(s)}
    BY DEF Threads
  <2>2. \A k \in 1 .. Len(s) : data[s[k]] \in Data
    BY <1>1, <2>1 DEF Apart
  <2>3. PICK x : x = Content
    OBVIOUS
  <2>4. DOMAIN x = 1 .. Len(s) /\ \A k \in 1 .. Len(s) : x[k] = data[s[k]]
    <3>1. x = Items(s, data)
      BY <2>3, ThreadsContent
    <3> QED
      BY ONLY <2>1, <2>2, <3>1, ItemsAre
  <2>5. ASSUME NEW e \in Listed PROVE e \in {x[i] : i \in DOMAIN x}
    BY <2>1, <2>4 DEF Listed
  <2>6. Sequence!Look
    BY <1>9, <1>11, <2>3, <2>5 DEF Sequence!Look, Sequence!Positions
  <2> QED
    BY <1>2, <1>8, <2>6 DEF ListGoes, Sequence!Next
<1> QED
  BY <1>10, <1>11

(* The calls that only return something leave the walks where they are.    *)
LEMMA AnswerGoes ==
    ASSUME ListInv, NEW d \in Listed \cup {Null}, Answer(d)
    PROVE  ListGoes
<1>1. PICK s : /\ Threads(s, next, prev, live)
               /\ Behind(s, data, cursor, match)
               /\ Seen(s, data, iter, visited, clean)
  BY DEF ListInv
<1>2. /\ UNCHANGED <<kind, exists, ddfunc, linkVars, scanVars, iterVars, ownVars>>
      /\ reply' \in Listed \cup {Null} /\ exists
  BY DEF Answer, Ready
<1>3. /\ cursor' = cursor /\ match' = match /\ iter' = iter /\ visited' = visited
      /\ clean' = clean
  BY <1>2 DEF scanVars, iterVars
<1>4. /\ cursor \in Cells \cup {Null} /\ match \in SUBSET Data
      /\ iter \in Cells \cup {Null} /\ visited \in Seq(Data) /\ clean \in BOOLEAN
  BY DEF ListInv, TypeOK
<1> QED
  BY <1>1, <1>2, <1>3, <1>4, LookGoes

(* The head, the tail and the data at an index are data the list holds.    *)
LEMMA GetsGo ==
    ASSUME ListInv,
           GetHead \/ GetTail \/ (\E i \in Indices : Get(i)) \/ IterEmpty \/ IterAtEnd
    PROVE  ListGoes
<1>1. PICK s : Threads(s, next, prev, live)
  BY DEF ListInv
<1>2. PICK n \in Nat : n = Len(s)
  BY <1>1, Reads
<1>3. /\ \A k \in 1 .. n : At(s, k) = s[k] /\ s[k] \in live
      /\ next[Root] = At(s, 1) /\ prev[Root] = At(s, n)
      /\ IsEmpty <=> n = 0
      /\ n <= Cardinality(Nodes) /\ Cardinality(Nodes) \in Nat
  BY <1>1, <1>2, Reads
<1>4. \A k \in live : data[k] \in Listed
  BY DEF Listed
<1>5. ASSUME GetHead PROVE ListGoes
  <2>1. ~IsEmpty => data[next[Root]] \in Listed
    BY <1>2, <1>3, <1>4
  <2>2. (IF IsEmpty THEN Null ELSE data[next[Root]]) \in Listed \cup {Null}
    BY <2>1
  <2> QED
    BY <1>5, <2>2, AnswerGoes DEF GetHead
<1>6. ASSUME GetTail PROVE ListGoes
  <2>1. ~IsEmpty => data[prev[Root]] \in Listed
    BY <1>2, <1>3, <1>4
  <2>2. (IF IsEmpty THEN Null ELSE data[prev[Root]]) \in Listed \cup {Null}
    BY <2>1
  <2> QED
    BY <1>6, <2>2, AnswerGoes DEF GetTail
<1>7. ASSUME NEW i \in Indices, Get(i) PROVE ListGoes
  <2>1. NodeAt(i) = IF i < n THEN s[i + 1] ELSE Null
    BY <1>1, <1>2, ThreadsNodes
  <2>2. i < n => i + 1 \in 1 .. n
    BY <1>3 DEF Indices
  <2>3. NodeAt(i) # Null => NodeAt(i) \in live
    BY <1>3, <2>1, <2>2
  <2>4. (IF NodeAt(i) = Null THEN Null ELSE data[NodeAt(i)]) \in Listed \cup {Null}
    BY <1>4, <2>3
  <2> QED
    BY <1>7, <2>4, AnswerGoes DEF Get
<1>8. ASSUME IterEmpty \/ IterAtEnd PROVE ListGoes
  <2>1. Answer(Null)
    BY <1>8 DEF IterEmpty, IterAtEnd
  <2> QED
    BY <2>1, AnswerGoes
<1> QED
  BY <1>5, <1>6, <1>7, <1>8

(* find returns the first match: there is one, if there is any.            *)
LEMMA ListFindGoes ==
    ASSUME ListInv, NEW accepted \in SUBSET Data, Find(accepted)
    PROVE  ListGoes
<1>1. PICK s : Threads(s, next, prev, live)
  BY DEF ListInv
<1>2. PICK x : x = Content
  OBVIOUS
<1>3. s \in Seq(Nodes) /\ live = {s[k] : k \in 1 .. Len(s)}
  BY <1>1 DEF Threads
<1>4. \A k \in 1 .. Len(s) : data[s[k]] \in Data
  BY <1>3 DEF ListInv, Apart
<1>5. DOMAIN x = 1 .. Len(s) /\ \A k \in 1 .. Len(s) : x[k] = data[s[k]]
  <2>1. x = Items(s, data)
    BY <1>1, <1>2, ThreadsContent
  <2> QED
    BY ONLY <1>3, <1>4, <2>1, ItemsAre
<1>6. PICK matches : matches = {i \in DOMAIN x : x[i] \in accepted}
  OBVIOUS
<1>7. Answer(IF matches = {} THEN Null
             ELSE x[CHOOSE i \in matches : \A j \in matches : i <= j])
  BY <1>2, <1>6 DEF Find
<1>8. CASE matches = {}
  BY <1>7, <1>8, AnswerGoes
<1>9. CASE matches # {}
  <2>1. matches \subseteq Nat
    BY <1>5, <1>6
  <2>2. \E i \in matches : \A j \in matches : i <= j
    BY ONLY <1>9, <2>1, LeastElement
  <2>3. PICK i : i = CHOOSE k \in matches : \A j \in matches : k <= j
    OBVIOUS
  <2>4. i \in matches
    BY <2>2, <2>3
  <2>5. x[i] \in Listed
    BY <1>3, <1>5, <1>6, <2>4 DEF Listed
  <2>6. Answer(x[i])
    BY <1>7, <1>9, <2>3
  <2> QED
    BY <2>5, <2>6, AnswerGoes
<1> QED
  BY <1>8, <1>9
-----------------------------------------------------------------------------
(* The functions that put a node in: in each case between two neighbours.  *)
LEMMA AddStepsGo ==
    ASSUME ListInv, NEW d \in Data,
           \/ kind # "queue" /\ AddHead(d)
           \/ kind # "stack" /\ AddTail(d)
           \/ kind = "list" /\ \E index \in Indices : Add(d, index)
    PROVE  ListGoes
<1>1. PICK s : Threads(s, next, prev, live)
  BY DEF ListInv
<1>2. PICK n \in Nat : n = Len(s)
  BY <1>1, Reads
<1>3. /\ At(s, 0) = Root /\ At(s, n + 1) = Root
      /\ \A k \in 1 .. n : At(s, k) = s[k]
      /\ \A k \in 0 .. n : next[At(s, k)] = At(s, k + 1) /\ prev[At(s, k + 1)] = At(s, k)
      /\ next[Root] = At(s, 1) /\ prev[Root] = At(s, n)
      /\ n <= Cardinality(Nodes) /\ Cardinality(Nodes) \in Nat
      /\ IsEmpty <=> n = 0
  BY <1>1, <1>2, Reads
<1>4. ASSUME kind # "queue", AddHead(d) PROVE ListGoes
  <2>1. Ready /\ AddBetween(d, At(s, 0), At(s, 1))
    BY <1>3, <1>4 DEF AddHead
  <2>2. PICK i : i = 1
    OBVIOUS
  <2>3. i \in 1 .. Len(s) + 1 /\ i - 1 = 0
    BY <1>2, <2>2
  <2>4. AddBetween(d, At(s, i - 1), At(s, i))
    BY <2>1, <2>2, <2>3
  <2> QED
    BY <1>1, <1>4, <2>1, <2>2, <2>3, <2>4, AddGoes
<1>5. ASSUME kind # "stack", AddTail(d) PROVE ListGoes
  <2>1. Ready /\ AddBetween(d, At(s, n), At(s, n + 1))
    BY <1>3, <1>5 DEF AddTail
  <2>2. PICK i : i = n + 1
    OBVIOUS
  <2>3. i \in 1 .. Len(s) + 1 /\ i - 1 = n
    BY <1>2, <2>2
  <2>4. AddBetween(d, At(s, i - 1), At(s, i))
    BY <2>1, <2>2, <2>3
  <2>5. i = Len(s) + 1
    BY <1>2, <2>2
  <2> QED
    BY <1>1, <1>5, <2>1, <2>3, <2>4, <2>5, AddGoes
<1>6. ASSUME kind = "list", NEW index \in Indices, Add(d, index) PROVE ListGoes
  <2>1. CASE AddHead(d) \/ AddTail(d)
    BY <1>4, <1>5, <1>6, <2>1
  <2>2. CASE Ready /\ NodeAt(index) # Null
             /\ AddBetween(d, prev[NodeAt(index)], NodeAt(index))
    <3>1. NodeAt(index) = IF index < n THEN s[index + 1] ELSE Null
      BY <1>1, <1>2, ThreadsNodes
    <3>2. index \in Nat /\ index < n
      BY <1>3, <2>2, <3>1 DEF Indices
    <3>3. PICK i : i = index + 1
      OBVIOUS
    <3>4. i \in 1 .. Len(s) + 1 /\ i - 1 = index /\ i \in 1 .. n /\ index \in 0 .. n
      BY <1>2, <3>2, <3>3
    <3>5. NodeAt(index) = At(s, i) /\ prev[NodeAt(index)] = At(s, i - 1)
      <4>1. NodeAt(index) = At(s, i)
        BY <1>3, <3>1, <3>2, <3>3, <3>4
      <4>2. prev[At(s, index + 1)] = At(s, index)
        BY <1>3, <3>4
      <4> QED
        BY <3>3, <3>4, <4>1, <4>2
    <3>6. AddBetween(d, At(s, i - 1), At(s, i))
      BY <2>2, <3>5
    <3> QED
      BY <1>1, <1>6, <2>2, <3>4, <3>6, AddGoes
  <2> QED
    BY <1>6, <2>1, <2>2 DEF Add
<1> QED
  BY <1>4, <1>5, <1>6

(* The node of the head, of the tail and of an index is a node of the list.*)
LEMMA Picked ==
    ASSUME NEW s, Threads(s, next, prev, live)
    PROVE  /\ ~IsEmpty => /\ 1 \in 1 .. Len(s) /\ next[Root] = s[1]
                          /\ Len(s) \in 1 .. Len(s) /\ prev[Root] = s[Len(s)]
           /\ \A index \in Indices : NodeAt(index) # Null =>
                  index + 1 \in 1 .. Len(s) /\ NodeAt(index) = s[index + 1]
<1>1. PICK n \in Nat : n = Len(s)
  BY Reads
<1>2. /\ \A k \in 1 .. n : At(s, k) = s[k]
      /\ next[Root] = At(s, 1) /\ prev[Root] = At(s, n)
      /\ Cardinality(Nodes) \in Nat
      /\ IsEmpty <=> n = 0
  BY <1>1, Reads
<1>3. ASSUME ~IsEmpty
      PROVE  1 \in 1 .. n /\ next[Root] = s[1] /\ n \in 1 .. n /\ prev[Root] = s[n]
  <2>1. 1 \in 1 .. n /\ n \in 1 .. n
    BY <1>2, <1>3
  <2> QED
    BY <1>2, <2>1
<1>4. ASSUME NEW index \in Indices, NodeAt(index) # Null
      PROVE  index + 1 \in 1 .. n /\ NodeAt(index) = s[index + 1]
  <2>1. NodeAt(index) = IF index < n THEN s[index + 1] ELSE Null
    BY <1>1, ThreadsNodes
  <2> QED
    BY <1>2, <1>4, <2>1 DEF Indices
<1> QED
  BY <1>1, <1>3, <1>4

(* The functions that take a node out, while no scan is under way.         *)
LEMMA DelStepsGo ==
    ASSUME ListInv, DelHead \/ Pop1 \/ (kind = "list" /\ DelTail)
                    \/ (kind = "list" /\ \E index \in Indices : Del(index))
    PROVE  ListGoes
<1>1. PICK s : Threads(s, next, prev, live)
  BY DEF ListInv
<1>2. ASSUME NEW i \in 1 .. Len(s), Ready, Delete(s[i]), kind # "list" => i = 1,
             reply' \in {data[s[i]], Null}, UNCHANGED scanVars
      PROVE  ListGoes
  <2>1. cursor' = Null /\ match' = match /\ match \in SUBSET Data
    BY <1>2 DEF Ready, scanVars, ListInv, TypeOK
  <2>2. Behind(WithoutAt(s, i), data', cursor', match')
    BY <2>1 DEF Behind
  <2> QED
    BY <1>1, <1>2, <2>1, <2>2, DelGoes
<1>3. ASSUME DelHead \/ Pop1 PROVE ListGoes
  <2>1. /\ Ready /\ ~IsEmpty /\ Delete(next[Root]) /\ UNCHANGED scanVars
        /\ reply' \in {data[next[Root]], Null}
    BY <1>3 DEF DelHead, Pop1
  <2>2. 1 \in 1 .. Len(s) /\ next[Root] = s[1]
    BY <1>1, <2>1, Picked
  <2> QED
    BY <1>2, <2>1, <2>2
<1>4. ASSUME kind = "list", DelTail PROVE ListGoes
  <2>1. /\ Ready /\ ~IsEmpty /\ Delete(prev[Root]) /\ UNCHANGED scanVars
        /\ reply' = Null
    BY <1>4 DEF DelTail
  <2>2. Len(s) \in 1 .. Len(s) /\ prev[Root] = s[Len(s)]
    BY <1>1, <2>1, Picked
  <2> QED
    BY <1>2, <1>4, <2>1, <2>2
<1>5. ASSUME kind = "list", NEW index \in Indices, Del(index) PROVE ListGoes
  <2>1. /\ Ready /\ NodeAt(index) # Null /\ Delete(NodeAt(index)) /\ UNCHANGED scanVars
        /\ reply' = Null
    BY <1>5 DEF Del
  <2>2. index + 1 \in 1 .. Len(s) /\ NodeAt(index) = s[index + 1]
    BY <1>1, <2>1, Picked
  <2> QED
    BY <1>2, <1>5, <2>1, <2>2
<1> QED
  BY <1>3, <1>4, <1>5

(* The functions that replace data.                                        *)
LEMMA SetStepsGo ==
    ASSUME ListInv, kind = "list", NEW d \in Data,
           SetHead(d) \/ SetTail(d) \/ \E index \in Indices : Set(d, index)
    PROVE  ListGoes
<1>1. PICK s : Threads(s, next, prev, live)
  BY DEF ListInv
<1>2. ASSUME SetHead(d) PROVE ListGoes
  <2>1. ~IsEmpty /\ SetData(next[Root], d)
    BY <1>2 DEF SetHead
  <2>2. 1 \in 1 .. Len(s) /\ next[Root] = s[1]
    BY <1>1, <2>1, Picked
  <2> QED
    BY <1>1, <2>1, <2>2, SetGoesOn
<1>3. ASSUME SetTail(d) PROVE ListGoes
  <2>1. ~IsEmpty /\ SetData(prev[Root], d)
    BY <1>3 DEF SetTail
  <2>2. Len(s) \in 1 .. Len(s) /\ prev[Root] = s[Len(s)]
    BY <1>1, <2>1, Picked
  <2> QED
    BY <1>1, <2>1, <2>2, SetGoesOn
<1>4. ASSUME NEW index \in Indices, Set(d, index) PROVE ListGoes
  <2>1. NodeAt(index) # Null /\ SetData(NodeAt(index), d)
    BY <1>4 DEF Set
  <2>2. index + 1 \in 1 .. Len(s) /\ NodeAt(index) = s[index + 1]
    BY <1>1, <2>1, Picked
  <2> QED
    BY <1>1, <2>1, <2>2, SetGoesOn
<1> QED
  BY <1>2, <1>3, <1>4

(* A turn of the loop in zbaselib_list_del_use_cond: what the cursor has   *)
(* passed has no match, and a deletion leaves it in front of the next node.*)
LEMMA ScanGoes ==
    ASSUME ListInv, kind = "list",
           (\E accepted \in SUBSET Data : ScanStart(accepted))
           \/ ScanKeep \/ ScanDelete \/ ScanEnd
    PROVE  ListGoes
<1>1. PICK s : /\ Threads(s, next, prev, live)
               /\ Behind(s, data, cursor, match)
               /\ Seen(s, data, iter, visited, clean)
  BY DEF ListInv
<1>2. PICK n \in Nat : n = Len(s)
  BY <1>1, Reads
<1>3. /\ \A k \in 1 .. n : At(s, k) = s[k] /\ s[k] # Root
      /\ At(s, 0) = Root /\ At(s, n + 1) = Root
      /\ \A k \in 0 .. n : next[At(s, k)] = At(s, k + 1) /\ prev[At(s, k + 1)] = At(s, k)
      /\ \A k \in 0 .. n + 1 : At(s, k) \in Cells
      /\ s \in Seq(Nodes)
  BY <1>1, <1>2, Reads
<1>4. /\ iter \in Cells \cup {Null} /\ visited \in Seq(Data) /\ clean \in BOOLEAN
      /\ cursor \in Cells \cup {Null} /\ match \in SUBSET Data
      /\ next \in [Cells -> Cells \cup {Null}] /\ Gone /\ exists \in BOOLEAN
      /\ data \in [Cells -> Data \cup {Null}] /\ live \in SUBSET Nodes
  BY DEF ListInv, TypeOK
<1>5. ASSUME UNCHANGED <<kind, exists, ddfunc, linkVars, iterVars, ownVars, reply>>,
             cursor' \in Cells \cup {Null}, match' \in SUBSET Data,
             Behind(s, data, cursor', match')
      PROVE  ListGoes
  <2>1. /\ iter' = iter /\ visited' = visited /\ clean' = clean /\ reply' = reply
        /\ UNCHANGED <<kind, exists, ddfunc, linkVars, ownVars>>
    BY <1>5 DEF iterVars
  <2>2. Seen(s, data, iter', visited', clean')
    BY <1>1, <2>1
  <2>3. /\ iter' \in Cells \cup {Null} /\ visited' \in Seq(Data) /\ clean' \in BOOLEAN
    BY <1>4, <2>1
  <2> QED
    BY <1>1, <1>5, <2>1, <2>2, <2>3, LookGoes
<1>6. ASSUME NEW accepted \in SUBSET Data, ScanStart(accepted) PROVE ListGoes
  <2>1. /\ UNCHANGED <<kind, exists, ddfunc, linkVars, iterVars, ownVars, reply>>
        /\ cursor' = Root /\ match' = accepted
    BY <1>6 DEF ScanStart
  <2>2. Behind(s, data, cursor', match')
    <3>1. 0 \in 0 .. Len(s) /\ cursor' = At(s, 0) /\ 1 .. 0 = {}
      BY <1>2, <1>3, <2>1
    <3> QED
      BY <3>1 DEF Behind
  <2>3. cursor' \in Cells \cup {Null}
    BY <2>1 DEF Cells
  <2> QED
    BY <1>5, <2>1, <2>2, <2>3
<1>7. ASSUME ScanKeep \/ ScanDelete
      PROVE  \E k \in 0 .. n : /\ k + 1 \in 1 .. n /\ cursor = At(s, k)
                               /\ next[cursor] = s[k + 1] /\ prev[s[k + 1]] = At(s, k)
                               /\ \A j \in 1 .. k : data[s[j]] \notin match
  <2>1. cursor # Null /\ next[cursor] # Root
    BY <1>7 DEF ScanKeep, ScanDelete
  <2>2. PICK k \in 0 .. n : cursor = At(s, k) /\ \A j \in 1 .. k : data[s[j]] \notin match
    BY <1>1, <1>2, <2>1 DEF Behind
  <2>3. next[cursor] = At(s, k + 1) /\ prev[At(s, k + 1)] = At(s, k)
    BY <1>3, <2>2
  <2>4. k + 1 \in 1 .. n
    <3>1. k # n
      BY <1>3, <2>1, <2>3
    <3> QED
      BY <3>1
  <2> QED
    BY <1>3, <2>2, <2>3, <2>4
<1>8. ASSUME ScanKeep PROVE ListGoes
  <2>1. /\ UNCHANGED <<kind, exists, ddfunc, linkVars, match, iterVars, ownVars, reply>>
        /\ cursor' = next[cursor] /\ data[next[cursor]] \notin match
    BY <1>8 DEF ScanKeep
  <2>2. PICK k \in 0 .. n : /\ k + 1 \in 1 .. n /\ next[cursor] = s[k + 1]
                            /\ \A j \in 1 .. k : data[s[j]] \notin match
    BY <1>7, <1>8
  <2>3. cursor' = At(s, k + 1) /\ cursor' \in Cells /\ match' = match
    <3>1. k + 1 \in 0 .. n + 1
      OBVIOUS
    <3>2. cursor' = At(s, k + 1) /\ match' = match
      BY <1>3, <2>1, <2>2
    <3> QED
      BY <1>3, <3>1, <3>2
  <2>4. \A j \in 1 .. k + 1 : data[s[j]] \notin match'
    <3>1. \A j \in 1 .. k + 1 : j \in 1 .. k \/ j = k + 1
      OBVIOUS
    <3> QED
      BY <2>1, <2>2, <2>3, <3>1
  <2>5. k + 1 \in 0 .. Len(s)
    BY <1>2, <2>2
  <2>6. Behind(s, data, cursor', match')
    BY <2>3, <2>4, <2>5 DEF Behind
  <2>7. UNCHANGED <<kind, exists, ddfunc, linkVars, iterVars, ownVars, reply>>
    BY <2>1
  <2> QED
    BY <1>4, <1>5, <2>3, <2>6, <2>7
<1>9. ASSUME ScanEnd PROVE ListGoes
  <2>1. /\ UNCHANGED <<kind, exists, ddfunc, linkVars, iterVars, ownVars, reply>>
        /\ cursor' = Null /\ match' = {}
    BY <1>9 DEF ScanEnd
  <2>2. Behind(s, data, cursor', match')
    BY <2>1 DEF Behind
  <2> QED
    BY <1>5, <2>1, <2>2
<1>10. ASSUME ScanDelete PROVE ListGoes
  <2>1. /\ cursor # Null
        /\ cursor' = prev[next[cursor]] /\ match' = match /\ reply' = Null
        /\ Delete(next[cursor])
    BY <1>10 DEF ScanDelete, AfterDelete
  <2>2. PICK k \in 0 .. n : /\ k + 1 \in 1 .. n /\ cursor = At(s, k)
                            /\ next[cursor] = s[k + 1] /\ prev[s[k + 1]] = At(s, k)
                            /\ \A j \in 1 .. k : data[s[j]] \notin match
    BY <1>7, <1>10
  <2>3. PICK i : i = k + 1
    OBVIOUS
  <2>4. /\ i \in 1 .. Len(s) /\ i \in 1 .. n /\ Delete(s[i]) /\ cursor' = At(s, k)
        /\ cursor' = cursor
    BY <1>2, <2>1, <2>2, <2>3
  <2>5. PICK t : t = WithoutAt(s, i)
    OBVIOUS
  <2>6. Len(t) = n - 1 /\ \A j \in 1 .. n - 1 : t[j] = IF j < i THEN s[j] ELSE s[j + 1]
    <3>1. /\ Len(WithoutAt(s, i)) = Len(s) - 1
          /\ \A j \in 1 .. Len(s) - 1 :
                WithoutAt(s, i)[j] = IF j < i THEN s[j] ELSE s[j + 1]
      BY ONLY <1>3, <2>4, RemovedAt, Zenon
    <3> QED
      BY ONLY <1>2, <2>5, <3>1
  <2>7. \A j \in 1 .. k : t[j] = s[j] /\ j \in 1 .. n /\ j # i
    BY <2>2, <2>3, <2>6
  <2>8. cursor' = At(t, k)
    <3>1. CASE k = 0
      <4>1. At(s, k) = Root /\ At(t, k) = Root
        BY <3>1 DEF At
      <4> QED
        BY <2>4, <4>1
    <3>2. CASE k \in 1 .. n
      <4>1. k \in 1 .. n - 1
        BY <2>2, <3>2
      <4>2. At(t, k) = t[k] /\ At(s, k) = s[k]
        BY <1>2, <2>6, <3>2, <4>1 DEF At
      <4>3. k \in 1 .. k
        BY <3>2
      <4>4. t[k] = s[k]
        BY ONLY <2>7, <4>3
      <4> QED
        BY ONLY <2>4, <4>2, <4>4
    <3>3. k = 0 \/ k \in 1 .. n
      OBVIOUS
    <3> QED
      BY ONLY <3>1, <3>2, <3>3
  <2>9. \A j \in 1 .. k : data'[t[j]] = data[s[j]]
    <3>1. \A j \in 1 .. k : s[j] \in Cells /\ s[j] # s[i]
      <4>1. \A j, l \in 1 .. n : s[j] = s[l] => j = l
        BY <1>1, <1>2 DEF Threads
      <4>2. \A j \in 1 .. n : s[j] \in Nodes
        BY <1>1, <1>2, Reads
      <4> QED
        BY <2>4, <2>7, <4>1, <4>2 DEF Cells
    <3>2. data' = [data EXCEPT ![s[i]] = Null]
      BY <2>4 DEF Delete
    <3> QED
      BY <1>4, <2>7, <3>1, <3>2
  <2>10. Behind(WithoutAt(s, i), data', cursor', match')
    <3>1. k \in 0 .. Len(t)
      BY <2>2, <2>6
    <3>2. \A j \in 1 .. k : data'[t[j]] \notin match'
      BY <2>1, <2>2, <2>9
    <3> QED
      BY <2>5, <2>8, <3>1, <3>2 DEF Behind
  <2>11. match' \in SUBSET Data /\ cursor' \in Cells \cup {Null}
    BY <1>4, <2>1, <2>4
  <2> QED
    BY <1>1, <2>1, <2>4, <2>10, <2>11, DelGoes
<1> QED
  BY <1>6, <1>8, <1>9, <1>10
-----------------------------------------------------------------------------
(* The iterator: first and last start it, and next takes it to the next    *)
(* node or, behind the last one, to the head.                              *)
LEMMA IterGoes ==
    ASSUME ListInv, IterFirst \/ IterLast \/ IterNext
    PROVE  ListGoes
<1>1. PICK s : /\ Threads(s, next, prev, live)
               /\ Behind(s, data, cursor, match)
               /\ Seen(s, data, iter, visited, clean)
  BY DEF ListInv
<1>2. PICK n \in Nat : n = Len(s)
  BY <1>1, Reads
<1>3. /\ \A k \in 1 .. n : At(s, k) = s[k] /\ s[k] # Root /\ s[k] \in live
      /\ At(s, 0) = Root /\ At(s, n + 1) = Root
      /\ \A k \in 0 .. n : next[At(s, k)] = At(s, k + 1) /\ prev[At(s, k + 1)] = At(s, k)
      /\ \A k \in 0 .. n + 1 : At(s, k) \in Cells
      /\ live = {s[k] : k \in 1 .. n}
  BY <1>1, <1>2, Reads
<1>4. /\ iter \in Cells \cup {Null} /\ visited \in Seq(Data) /\ clean \in BOOLEAN
      /\ cursor \in Cells \cup {Null} /\ match \in SUBSET Data
      /\ data \in [Cells -> Data \cup {Null}] /\ live \in SUBSET Nodes
      /\ Apart(data, live)
  BY DEF ListInv, TypeOK
<1>5. \A k \in 1 .. n : data[s[k]] \in Data /\ data[s[k]] \in Listed
  BY <1>3, <1>4 DEF Apart, Listed
<1>6. ASSUME UNCHANGED <<kind, exists, ddfunc, linkVars, scanVars, ownVars>>, exists,
             reply' \in Listed \cup {Null}, iter' \in Cells \cup {Null},
             visited' \in Seq(Data), clean' \in BOOLEAN,
             Seen(s, data, iter', visited', clean')
      PROVE  ListGoes
  <2>1. cursor' = cursor /\ match' = match
    BY <1>6 DEF scanVars
  <2>2. Behind(s, data, cursor', match') /\ cursor' \in Cells \cup {Null}
        /\ match' \in SUBSET Data
    BY <1>1, <1>4, <2>1
  <2> QED
    BY <1>1, <1>6, <2>2, LookGoes
<1>7. ASSUME NEW i \in 1 .. n, NEW order \in BOOLEAN, IterStart(s[i], order),
             order => i = 1
      PROVE  ListGoes
  <2>1. /\ UNCHANGED <<kind, exists, ddfunc, linkVars, scanVars, ownVars>> /\ exists
        /\ iter' = s[i] /\ visited' = <<data[s[i]]>> /\ clean' = order
        /\ reply' = data[s[i]]
    BY <1>7 DEF IterStart, Ready
  <2>2. /\ data[s[i]] \in Data /\ data[s[i]] \in Listed /\ s[i] \in Cells
        /\ At(s, i) = s[i]
    BY <1>3, <1>4, <1>5 DEF Cells
  <2>3. visited' \in Seq(Data) /\ Len(visited') = 1 /\ visited'[1] = data[s[i]]
    BY <2>1, <2>2
  <2>4. Seen(s, data, iter', visited', clean')
    <3>1. CASE order
      <4>1. i = 1 /\ i \in 1 .. Len(s) + 1 /\ i <= Len(s) /\ iter' = At(s, i)
        BY <1>2, <1>7, <2>1, <2>2, <3>1
      <4>2. \A j \in 1 .. Len(visited') : j = 1
        BY <2>3
      <4> QED
        BY <2>3, <4>1, <4>2 DEF Seen
    <3>2. CASE ~order
      BY <2>1, <3>2 DEF Seen
    <3> QED
      BY <3>1, <3>2
  <2> QED
    BY <1>6, <2>1, <2>2, <2>3, <2>4
<1>8. ASSUME IterFirst PROVE ListGoes
  <2>1. ~IsEmpty /\ IterStart(next[Root], TRUE)
    BY <1>8 DEF IterFirst, IterStart
  <2>2. PICK i : i = 1
    OBVIOUS
  <2>3. i \in 1 .. n /\ next[Root] = s[i]
    BY <1>1, <1>2, <2>1, <2>2, Picked
  <2> QED
    BY <1>7, <2>1, <2>2, <2>3
<1>9. ASSUME IterLast PROVE ListGoes
  <2>1. ~IsEmpty /\ IterStart(prev[Root], FALSE)
    BY <1>9 DEF IterLast, IterStart
  <2>2. n \in 1 .. n /\ prev[Root] = s[n]
    BY <1>1, <1>2, <2>1, Picked
  <2> QED
    BY <1>7, <2>1, <2>2
<1>10. ASSUME IterNext PROVE ListGoes
  <2>1. /\ UNCHANGED <<kind, exists, ddfunc, linkVars, scanVars, ownVars>> /\ exists
        /\ iter \in live /\ iter' = next[iter] /\ clean' = clean
        /\ visited' = IF ~clean \/ iter' = Root THEN visited
                      ELSE Append(visited, data[iter'])
        /\ reply' = data[iter']
    BY <1>10 DEF IterNext, Ready, Following
  <2>2. PICK k \in 1 .. n :
           /\ iter = s[k]
           /\ clean => /\ Len(visited) = k
                       /\ \A j \in 1 .. Len(visited) : visited[j] = data[s[j]]
    <3>1. CASE clean
      <4>1. PICK k \in 1 .. n + 1 :
              /\ iter = At(s, k)
              /\ Len(visited) = IF k <= n THEN k ELSE n
              /\ \A j \in 1 .. Len(visited) : visited[j] = data[s[j]]
        BY <1>1, <1>2, <3>1 DEF Seen
      <4>2. k # n + 1
        BY <1>3, <1>4, <2>1, <4>1, ListAssumption
      <4>3. k \in 1 .. n
        BY <4>2
      <4> QED
        BY <1>3, <4>1, <4>3
    <3>2. CASE ~clean
      BY <1>3, <2>1, <3>2
    <3> QED
      BY <3>1, <3>2
  <2>3. iter' = At(s, k + 1) /\ k + 1 \in 1 .. n + 1
    <3>1. k \in 0 .. n /\ k + 1 \in 1 .. n + 1
      OBVIOUS
    <3> QED
      BY <1>3, <2>1, <2>2, <3>1
  <2>4. CASE k = n
    <3>1. iter' = Root
      BY <1>3, <2>3, <2>4
    <3>2. visited' = visited /\ reply' = Null
      BY <1>4, <2>1, <3>1 DEF Apart
    <3>3. Seen(s, data, iter', visited', clean')
      <4>1. ~(k + 1 <= Len(s)) /\ k + 1 \in 1 .. Len(s) + 1 /\ k = Len(s)
        BY <1>2, <2>3, <2>4
      <4> QED
        BY <2>1, <2>2, <2>3, <3>2, <4>1 DEF Seen
    <3>4. iter' \in Cells
      BY <3>1 DEF Cells
    <3> QED
      BY <1>4, <1>6, <2>1, <3>2, <3>3, <3>4
  <2>5. CASE k # n
    <3>1. k + 1 \in 1 .. n
      BY <2>5
    <3>2. /\ iter' = s[k + 1] /\ iter' # Root /\ data[iter'] \in Data
          /\ data[iter'] \in Listed /\ iter' \in Cells
      BY <1>3, <1>4, <1>5, <2>3, <3>1 DEF Cells
    <3>3. CASE clean
      <4>1. visited' = Append(visited, data[iter'])
        BY <2>1, <3>2, <3>3
      <4>2. /\ visited' \in Seq(Data) /\ Len(visited') = k + 1
            /\ visited'[k + 1] = data[iter']
            /\ \A j \in 1 .. k : visited'[j] = visited[j]
        BY <1>4, <2>2, <3>2, <3>3, <4>1, AppendProperties
      <4>3. \A j \in 1 .. k + 1 : visited'[j] = data[s[j]]
        <5>1. \A j \in 1 .. k + 1 : j \in 1 .. k \/ j = k + 1
          OBVIOUS
        <5> QED
          BY <2>2, <3>2, <3>3, <4>2, <5>1
      <4>4. Seen(s, data, iter', visited', clean')
        <5>1. k + 1 \in 1 .. Len(s) + 1 /\ k + 1 <= Len(s)
          BY <1>2, <3>1
        <5> QED
          BY <2>3, <4>2, <4>3, <5>1 DEF Seen
      <4> QED
        BY <1>4, <1>6, <2>1, <3>2, <4>2, <4>4
    <3>4. CASE ~clean
      <4>1. visited' = visited /\ Seen(s, data, iter', visited', clean')
        BY <2>1, <3>4 DEF Seen
      <4> QED
        BY <1>4, <1>6, <2>1, <3>2, <4>1
    <3> QED
      BY <3>3, <3>4
  <2> QED
    BY <2>4, <2>5
<1> QED
  BY <1>8, <1>9, <1>10

(* The links of an empty list.                                             *)
LEMMA NoThreadsAre ==
    /\ Threads(<<>>, Unlinked, Unlinked, {})
    /\ Unlinked \in [Cells -> Cells \cup {Null}]
    /\ \A d : Items(<<>>, d) = <<>>
<1>1. Threads(<<>>, Unlinked, Unlinked, {})
  BY NoThreads
<1>2. Unlinked \in [Cells -> Cells \cup {Null}]
  BY DEF Unlinked, Cells
<1>3. ASSUME NEW d PROVE Items(<<>>, d) = <<>>
  BY DEF Items
<1> QED
  BY <1>1, <1>2, <1>3

(* clear and the destroy functions free what the list holds, and leave no  *)
(* node.                                                                   *)
LEMMA EmptyGoes ==
    ASSUME ListInv, Clear \/ Destroy \/ Destroy1
    PROVE  ListGoes
<1>1. /\ RemoveAll /\ cursor = Null
      /\ given' = given /\ exists' \in BOOLEAN /\ iter' \in {iter, Null}
      /\ freed' \in {freed, freed \cup Listed} /\ (ddfunc => freed' = freed \cup Listed)
  BY DEF Clear, Destroy, Destroy1, Ready, ListInv, TypeOK
<1>2. /\ next' = Unlinked /\ prev' = Unlinked /\ data' = [c \in Cells |-> Null]
      /\ live' = {} /\ reply' = Null /\ clean' = FALSE
      /\ kind' = kind /\ ddfunc' = ddfunc /\ cursor' = cursor /\ match' = match
      /\ visited' = visited
  BY <1>1 DEF RemoveAll, scanVars
<1>3. TypeOK /\ Owned /\ Apart(data, live)
  BY DEF ListInv
<1>4. Listed \subseteq Data
  BY <1>3 DEF Listed, Apart
<1>5. /\ Threads(<<>>, next', prev', live') /\ next' \in [Cells -> Cells \cup {Null}]
      /\ prev' \in [Cells -> Cells \cup {Null}]
  BY <1>2, NoThreadsAre
<1>6. TypeOK'
  BY <1>1, <1>2, <1>3, <1>4, <1>5 DEF TypeOK, Cells
<1>7. Listed' = {}
  BY <1>2 DEF Listed
<1>8. Owned'
  BY <1>1, <1>2, <1>3, <1>7 DEF Owned
<1>9. Apart(data', live') /\ Gone'
  BY <1>2 DEF Apart, Gone, Cells
<1>10. Behind(<<>>, data', cursor', match') /\ Seen(<<>>, data', iter', visited', clean')
  BY <1>1, <1>2 DEF Behind, Seen
<1>11. Content' = <<>>
  BY <1>5, NewContent, NoThreadsAre
<1>12. kind' \in {"list", "queue", "stack"}
  BY <1>2, <1>3 DEF TypeOK
<1> QED
  BY <1>2, <1>5, <1>6, <1>8, <1>9, <1>10, <1>11, <1>12
     DEF ListInv, ListGoes, Sequence!Next, Sequence!Empty, Sequence!Kinds

(* create, after a destroy: the new list starts out empty.                 *)
LEMMA CreateListGoes ==
    ASSUME ListInv, Create
    PROVE  ListGoes
<1>1. /\ ~exists /\ exists' = TRUE /\ kind' \in {"list", "queue", "stack"}
      /\ ddfunc' \in BOOLEAN /\ given' = freed /\ visited' = <<>>
      /\ next' = next /\ prev' = prev /\ data' = data /\ live' = live
      /\ cursor' = cursor /\ match' = match /\ iter' = iter /\ clean' = clean
      /\ freed' = freed /\ reply' = reply
  BY DEF Create, linkVars, scanVars
<1>2. TypeOK /\ Apart(data, live) /\ Gone
  BY DEF ListInv
<1>3. live = {} /\ clean = FALSE /\ reply = Null
  BY <1>1, <1>2 DEF Gone
<1>4. PICK s : Threads(s, next, prev, live) /\ Behind(s, data, cursor, match)
  BY DEF ListInv
<1>5. Threads(s, next', prev', live')
  BY <1>1, <1>4
<1>6. /\ Behind(s, data', cursor', match') /\ Seen(s, data', iter', visited', clean')
  BY <1>1, <1>3, <1>4 DEF Seen
<1>7. TypeOK'
  BY <1>1, <1>2 DEF TypeOK, Cells
<1>8. Owned'
  <2>1. Listed' = {}
    BY <1>1, <1>3 DEF Listed
  <2> QED
    BY <1>1, <2>1 DEF Owned
<1>9. Gone' /\ Apart(data', live')
  BY <1>1, <1>2 DEF Gone
<1>10. Content' = <<>>
  <2>1. Content' = Items(s, data')
    BY <1>5, NewContent
  <2>2. Len(s) = 0
    <3>1. Len(s) \in Nat /\ \A k \in 1 .. Len(s) : s[k] \in live
      BY <1>4, Reads
    <3>2. Len(s) # 0 => 1 \in 1 .. Len(s)
      BY <3>1
    <3> QED
      BY <1>3, <3>1, <3>2
  <2> QED
    BY <2>1, <2>2 DEF Items
<1> QED
  BY <1>1, <1>3, <1>5, <1>6, <1>7, <1>8, <1>9, <1>10
     DEF ListInv, ListGoes, Sequence!Next, Sequence!Empty, Sequence!Kinds

(* The caller's malloc: what it returns was freed, so the list has not got *)
(* it.                                                                     *)
LEMMA MallocGoes ==
    ASSUME ListInv, NEW d \in Data, Malloc(d)
    PROVE  ListGoes
<1>1. /\ d \in freed /\ freed' = freed \ {d} /\ given' = given \ {d}
      /\ kind' = kind /\ exists' = exists /\ ddfunc' = ddfunc
      /\ next' = next /\ prev' = prev /\ data' = data /\ live' = live
      /\ cursor' = cursor /\ match' = match /\ iter' = iter /\ visited' = visited
      /\ clean' = clean /\ reply' = reply
  BY DEF Malloc, linkVars, scanVars, iterVars
<1>2. TypeOK /\ Owned /\ Apart(data, live) /\ Gone
  BY DEF ListInv
<1>3. PICK s : /\ Threads(s, next, prev, live)
               /\ Behind(s, data, cursor, match)
               /\ Seen(s, data, iter, visited, clean)
  BY DEF ListInv
<1>4. TypeOK'
  BY <1>1, <1>2 DEF TypeOK, Cells
<1>5. Owned'
  <2>1. Listed' = Listed
    BY <1>1 DEF Listed
  <2> QED
    BY <1>1, <1>2, <2>1 DEF Owned
<1>6. Threads(s, next', prev', live')
  BY <1>1, <1>3
<1>7. /\ Behind(s, data', cursor', match')
      /\ Seen(s, data', iter', visited', clean')
      /\ Gone' /\ Apart(data', live')
  BY <1>1, <1>2, <1>3 DEF Gone
<1>8. Content' = Content
  <2>1. Content = Items(s, data) /\ Content' = Items(s, data')
    BY <1>3, <1>6, ThreadsContent, NewContent
  <2> QED
    BY <1>1, <2>1
<1> QED
  BY <1>1, <1>4, <1>5, <1>6, <1>7, <1>8 DEF ListInv, ListGoes

-----------------------------------------------------------------------------
(* The steps together.                                                     *)
LEMMA ListStarts == Init => ListInv /\ Sequence!Init
<1> SUFFICES ASSUME Init PROVE ListInv /\ Sequence!Init
  OBVIOUS
<1>1. /\ Threads(<<>>, next, prev, live) /\ next \in [Cells -> Cells \cup {Null}]
      /\ prev \in [Cells -> Cells \cup {Null}]
  BY NoThreadsAre DEF Init
<1>2. Behind(<<>>, data, cursor, match) /\ Seen(<<>>, data, iter, visited, clean)
  BY DEF Init, Behind, Seen
<1>3. TypeOK
  <2>1. visited \in Seq(Data) /\ data \in [Cells -> Data \cup {Null}]
    BY EmptySeq DEF Init
  <2> QED
    BY <1>1, <2>1 DEF Init, TypeOK, Cells
<1>4. Owned /\ Gone /\ Apart(data, live)
  BY DEF Init, Owned, Listed, Gone, Apart, Cells
<1>5. Content = <<>>
  BY <1>1, ThreadsContent, NoThreadsAre
<1> QED
  BY <1>1, <1>2, <1>3, <1>4, <1>5 DEF Init, ListInv, Sequence!Init, Sequence!Kinds

(* Nothing changes.                                                        *)
LEMMA ListStutters == ListInv /\ UNCHANGED vars => ListGoes
<1> SUFFICES ASSUME ListInv, UNCHANGED vars PROVE ListGoes
  OBVIOUS
<1>1. /\ kind' = kind /\ exists' = exists /\ ddfunc' = ddfunc /\ reply' = reply
      /\ UNCHANGED <<linkVars, ownVars>>
      /\ cursor' = cursor /\ match' = match /\ iter' = iter /\ visited' = visited
      /\ clean' = clean
  BY DEF vars, scanVars, iterVars
<1>2. PICK s : /\ Threads(s, next, prev, live)
               /\ Behind(s, data, cursor, match)
               /\ Seen(s, data, iter, visited, clean)
  BY DEF ListInv
<1>3. /\ cursor \in Cells \cup {Null} /\ match \in SUBSET Data
      /\ iter \in Cells \cup {Null} /\ visited \in Seq(Data) /\ clean \in BOOLEAN
  BY DEF ListInv, TypeOK
<1>4. UNCHANGED <<kind, exists, ddfunc, linkVars, ownVars>>
  BY <1>1
<1> QED
  BY <1>1, <1>2, <1>3, <1>4, LookGoes

(* The steps of the list, the queue and the stack together.                *)
LEMMA ListSteps == ListInv /\ [Next]_vars => ListGoes
<1> SUFFICES ASSUME ListInv, [Next]_vars PROVE ListGoes
  OBVIOUS
<1>1. ASSUME ListStep PROVE ListGoes
  <2>1. kind = "list"
    BY <1>1 DEF ListStep
  <2>2. \/ \E d \in Data : AddHead(d) \/ AddTail(d) \/ \E i \in Indices : Add(d, i)
        \/ \E d \in Data : SetHead(d) \/ SetTail(d) \/ \E i \in Indices : Set(d, i)
        \/ DelHead \/ DelTail \/ \E i \in Indices : Del(i)
        \/ GetHead \/ GetTail \/ \E i \in Indices : Get(i)
        \/ Clear
        \/ \E accepted \in SUBSET Data : Find(accepted)
        \/ \E accepted \in SUBSET Data : ScanStart(accepted)
        \/ ScanKeep \/ ScanDelete \/ ScanEnd
    BY <1>1 DEF ListStep
  <2> QED
    BY <2>1, <2>2, AddStepsGo, SetStepsGo, DelStepsGo, GetsGo, EmptyGoes, ListFindGoes, ScanGoes
<1>2. ASSUME QueueStackStep PROVE ListGoes
  <2>1. \/ \E d \in Data : (kind = "queue" /\ AddTail(d)) \/ (kind = "stack" /\ AddHead(d))
        \/ DelHead \/ GetHead \/ Pop1 \/ Destroy1
    BY <1>2 DEF QueueStackStep, Push
  <2> QED
    BY <2>1, AddStepsGo, DelStepsGo, GetsGo, EmptyGoes
<1>3. ASSUME IterFirst \/ IterLast \/ IterEmpty \/ IterNext \/ IterAtEnd PROVE ListGoes
  BY <1>3, IterGoes, GetsGo
<1>4. ASSUME Destroy \/ Create \/ \E d \in Data : Malloc(d) PROVE ListGoes
  BY <1>4, EmptyGoes, CreateListGoes, MallocGoes
<1>5. CASE UNCHANGED vars
  BY <1>5, ListStutters
<1>6. CASE Next
  BY <1>1, <1>2, <1>3, <1>4, <1>6 DEF Next
<1> QED
  BY <1>5, <1>6

(* The invariant holds in every state of the three containers.             *)
LEMMA ListInvCorrect == Spec => []ListInv
<1>1. Init => ListInv
  BY ListStarts
<1>2. ListInv /\ [Next]_vars => ListInv'
  BY ListSteps DEF ListGoes
<1> QED
  BY <1>1, <1>2, PTL DEF Spec

(* The nodes and the head are one ring in both directions, whichever       *)
(* functions of the list, the queue and the stack were called, and what a  *)
(* list with ddfunc was given is in the list or freed, never both.         *)
THEOREM RingCorrect == Spec => []Ring
<1>1. ListInv => Ring
  <2> SUFFICES ASSUME ListInv PROVE Ring
    OBVIOUS
  <2>1. PICK s : Threads(s, next, prev, live)
    BY DEF ListInv
  <2>2. PICK n \in Nat : n = Len(s)
    BY <2>1, Reads
  <2>3. /\ \A k \in 1 .. n : At(s, k) = s[k] /\ s[k] \in live
        /\ At(s, 0) = Root /\ At(s, n + 1) = Root
        /\ \A k \in 0 .. n : next[At(s, k)] = At(s, k + 1) /\ prev[At(s, k + 1)] = At(s, k)
        /\ live = {s[k] : k \in 1 .. n}
    BY <2>1, <2>2, Reads
  <2>4. \A k \in 0 .. n + 1 : At(s, k) \in live \cup {Root}
    <3>1. \A k \in 0 .. n + 1 : k = 0 \/ k = n + 1 \/ k \in 1 .. n
      OBVIOUS
    <3> QED
      BY ONLY <2>3, <3>1
  <2>5. ASSUME NEW c \in live \cup {Root}
        PROVE  /\ next[c] \in live \cup {Root} /\ prev[next[c]] = c
               /\ prev[c] \in live \cup {Root} /\ next[prev[c]] = c
    <3>1. PICK k \in 0 .. n : c = At(s, k)
      <4>1. 0 \in 0 .. n /\ \A k \in 1 .. n : k \in 0 .. n
        OBVIOUS
      <4> QED
        BY <2>3, <4>1
    <3>2. next[c] = At(s, k + 1) /\ prev[At(s, k + 1)] = c /\ k + 1 \in 0 .. n + 1
      BY <2>3, <3>1
    <3>3. PICK j \in 0 .. n : c = At(s, j + 1)
      <4>1. n \in 0 .. n /\ \A i \in 1 .. n : i - 1 \in 0 .. n /\ (i - 1) + 1 = i
        OBVIOUS
      <4>2. CASE c = Root
        BY <2>3, <4>1, <4>2
      <4>3. CASE c \in live
        <5>1. PICK i \in 1 .. n : c = At(s, i)
          BY <2>3, <4>3
        <5> QED
          BY <4>1, <5>1
      <4> QED
        BY <4>2, <4>3
    <3>4. prev[c] = At(s, j) /\ next[At(s, j)] = c /\ j \in 0 .. n + 1
      BY <2>3, <3>3
    <3> QED
      BY <2>4, <3>2, <3>4
  <2>6. {Walk[k] : k \in 1 .. Size} = live
    BY <2>1, ThreadsContent
  <2> QED
    BY <2>5, <2>6 DEF Ring, ListInv
<1> QED
  BY <1>1, ListInvCorrect, PTL

(* zbaselib_list_del_use_cond leaves no match when it ends, and is never   *)
(* on a node it has freed; an iteration from first to the end over a list  *)
(* that is left alone returns all that it holds, in order.                 *)
THEOREM WalksCorrect == Spec => []WalksComplete
<1>1. ListInv => WalksComplete
  <2> SUFFICES ASSUME ListInv PROVE WalksComplete
    OBVIOUS
  <2>1. PICK s : /\ Threads(s, next, prev, live)
                 /\ Behind(s, data, cursor, match)
                 /\ Seen(s, data, iter, visited, clean)
    BY DEF ListInv
  <2>2. PICK n \in Nat : n = Len(s)
    BY <2>1, Reads
  <2>3. /\ \A k \in 1 .. n : At(s, k) = s[k] /\ s[k] \in live /\ s[k] # Root
        /\ At(s, 0) = Root /\ At(s, n + 1) = Root
        /\ \A k \in 0 .. n : next[At(s, k)] = At(s, k + 1)
        /\ live = {s[k] : k \in 1 .. n}
        /\ s \in Seq(Nodes)
    BY <2>1, <2>2, Reads
  <2>4. ASSUME cursor # Null
        PROVE  cursor \in live \cup {Root} /\ (next[cursor] = Root => Listed \cap match = {})
    <3>1. PICK k \in 0 .. n : cursor = At(s, k) /\ \A j \in 1 .. k : data[s[j]] \notin match
      BY <2>1, <2>2, <2>4 DEF Behind
    <3>2. cursor \in live \cup {Root}
      <4>1. k = 0 \/ k \in 1 .. n
        OBVIOUS
      <4> QED
        BY <2>3, <3>1, <4>1
    <3>3. ASSUME next[cursor] = Root PROVE Listed \cap match = {}
      <4>1. At(s, k + 1) = Root
        BY <2>3, <3>1, <3>3
      <4>2. k = n
        <5>1. k + 1 \in 1 .. n \/ k = n
          OBVIOUS
        <5> QED
          BY <2>3, <4>1, <5>1
      <4> QED
        BY <2>3, <3>1, <4>2 DEF Listed
    <3> QED
      BY <3>2, <3>3
  <2>5. ASSUME clean, iter = Root PROVE visited = Content
    <3>1. PICK k \in 1 .. n + 1 : /\ iter = At(s, k)
                                  /\ Len(visited) = IF k <= n THEN k ELSE n
                                  /\ \A j \in 1 .. Len(visited) : visited[j] = data[s[j]]
      BY <2>1, <2>2, <2>5 DEF Seen
    <3>2. k = n + 1
      <4>1. k \in 1 .. n \/ k = n + 1
        OBVIOUS
      <4> QED
        BY ZenonT(40), <2>3, <2>5, <3>1, <4>1
    <3>3. Len(visited) = n /\ \A j \in 1 .. n : visited[j] = data[s[j]]
      BY <3>1, <3>2
    <3>4. visited \in Seq(Data) /\ \A j \in 1 .. Len(s) : data[s[j]] \in Data
      BY <2>2, <2>3 DEF ListInv, TypeOK, Apart
    <3>5. PICK x : x = Content
      OBVIOUS
    <3>6. x \in Seq(Data) /\ Len(x) = n /\ \A j \in 1 .. n : x[j] = data[s[j]]
      <4>1. x = Items(s, data)
        BY <2>1, <3>5, ThreadsContent
      <4>2. s \in Seq(Nodes) /\ \A j \in 1 .. Len(s) : data[s[j]] \in Data
        BY <2>3, <3>4
      <4> QED
        BY ONLY <2>2, <4>1, <4>2, ItemsAre
    <3>7. \A j \in 1 .. n : visited[j] = x[j]
      BY <3>3, <3>6
    <3>8. visited = x
      BY ONLY <3>3, <3>4, <3>6, <3>7, SeqEqual
    <3> QED
      BY <3>5, <3>8
  <2> QED
    BY <2>4, <2>5 DEF WalksComplete, ScanDeletesAll, IterationComplete
<1> QED
  BY <1>1, ListInvCorrect, PTL

(* The list is a sequence that its functions change at one place, the      *)
(* queue is first-in first-out and the stack last-in first-out, whatever   *)
(* the nodes and the order of the calls.                                   *)
THEOREM ListIsSequence == Spec => ImplementsSequence
<1>1. Init => Sequence!Init
  BY ListStarts
<1>2. ListInv /\ [Next]_vars => [Sequence!Next]_Sequence!vars
  BY ListSteps DEF ListGoes, Sequence!vars
<1> QED
  BY <1>1, <1>2, ListInvCorrect, PTL DEF Spec, ImplementsSequence, Sequence!Spec

=============================================================================
