--------------------------- MODULE SequenceFacts ----------------------------
(* Facts about sequences, and one about numbers, that proofs share.        *)
EXTENDS Integers, Sequences, TLAPS, SequenceTheorems, WellFoundedInduction

(* A function on 1 .. n, as the models describe the bytes that a call      *)
(* copies, is a sequence of length n.                                      *)
LEMMA FunctionIsSeq ==
    ASSUME NEW S, NEW n \in Nat, NEW f \in [1 .. n -> S]
    PROVE  f \in Seq(S) /\ Len(f) = n
<1>1. f \in Seq(S)
  BY SeqDef
<1>2. DOMAIN f = 1 .. n /\ DOMAIN f = 1 .. Len(f) /\ Len(f) \in Nat
  BY <1>1, LenProperties
<1>3. Len(f) = n
  BY <1>2
<1> QED
  BY <1>1, <1>3

(* The n elements behind the first a, as a read position and a data size   *)
(* delimit them: a sequence over the set S they are in.                    *)
LEMMA Slice ==
    ASSUME NEW S, NEW s, NEW a \in Nat, NEW n \in Nat,
           \A i \in 1 .. n : s[a + i] \in S
    PROVE  /\ SubSeq(s, a + 1, a + n) \in Seq(S)
           /\ Len(SubSeq(s, a + 1, a + n)) = n
           /\ \A i \in 1 .. n : SubSeq(s, a + 1, a + n)[i] = s[a + i]
<1> DEFINE lo == a + 1
           hi == a + n
<1>1. lo \in Int /\ hi \in Int
  OBVIOUS
<1>2. \A i \in lo .. hi : s[i] \in S
  <2> SUFFICES ASSUME NEW i \in lo .. hi PROVE s[i] \in S
    OBVIOUS
  <2>1. i - a \in 1 .. n /\ a + (i - a) = i
    OBVIOUS
  <2> QED
    BY <2>1
<1> HIDE DEF lo, hi
<1>3. /\ SubSeq(s, lo, hi) \in Seq(S)
      /\ Len(SubSeq(s, lo, hi)) = IF lo <= hi THEN hi - lo + 1 ELSE 0
      /\ \A i \in 1 .. hi - lo + 1 : SubSeq(s, lo, hi)[i] = s[lo + i - 1]
  BY ONLY <1>1, <1>2, SubSeqProperties
<1>4. Len(SubSeq(s, lo, hi)) = n
  BY <1>3 DEF lo, hi
<1>5. ASSUME NEW i \in 1 .. n PROVE SubSeq(s, lo, hi)[i] = s[a + i]
  <2>1. i \in 1 .. hi - lo + 1 /\ lo + i - 1 = a + i
    BY DEF lo, hi
  <2> QED
    BY <1>3, <2>1
<1> QED
  BY <1>3, <1>4, <1>5 DEF lo, hi

(* What a queue of bytes gives out, and what it keeps, when n are taken.   *)
LEMMA TakeAndKeep ==
    ASSUME NEW S, NEW s \in Seq(S), NEW n \in 0 .. Len(s)
    PROVE  /\ SubSeq(s, 1, n) \in Seq(S) /\ Len(SubSeq(s, 1, n)) = n
           /\ \A i \in 1 .. n : SubSeq(s, 1, n)[i] = s[i]
           /\ SubSeq(s, n + 1, Len(s)) \in Seq(S)
           /\ Len(SubSeq(s, n + 1, Len(s))) = Len(s) - n
           /\ \A i \in 1 .. Len(s) - n :
                 SubSeq(s, n + 1, Len(s))[i] = s[n + i]
<1> DEFINE L == Len(s)
<1>1. L \in Nat /\ n \in Nat /\ n <= L /\ \A i \in 1 .. L : s[i] \in S
  BY LenProperties, ElementOfSeq
<1> HIDE DEF L
<1>2. /\ SubSeq(s, 0 + 1, 0 + n) \in Seq(S)
      /\ Len(SubSeq(s, 0 + 1, 0 + n)) = n
      /\ \A i \in 1 .. n : SubSeq(s, 0 + 1, 0 + n)[i] = s[0 + i]
  <2>1. 0 \in Nat /\ \A i \in 1 .. n : s[0 + i] \in S
    BY <1>1
  <2> QED
    BY ONLY <1>1, <2>1, Slice
<1>3. /\ SubSeq(s, n + 1, n + (L - n)) \in Seq(S)
      /\ Len(SubSeq(s, n + 1, n + (L - n))) = L - n
      /\ \A i \in 1 .. L - n : SubSeq(s, n + 1, n + (L - n))[i] = s[n + i]
  <2>1. L - n \in Nat /\ \A i \in 1 .. L - n : s[n + i] \in S
    BY <1>1
  <2> QED
    BY ONLY <1>1, <2>1, Slice
<1>4. 0 + 1 = 1 /\ 0 + n = n /\ n + (L - n) = L /\ \A i \in 1 .. n : 0 + i = i
  BY <1>1
<1> QED
  BY Zenon, <1>2, <1>3, <1>4 DEF L

(* A task that addtask appends to the queue is appended to all it took.    *)
LEMMA AppendToConcat ==
    ASSUME NEW S, NEW s \in Seq(S), NEW q \in Seq(S), NEW e \in S
    PROVE  s \o Append(q, e) = Append(s \o q, e)
<1>1. s \o q \in Seq(S) /\ <<e>> \in Seq(S)
  BY ConcatProperties
<1>2. Append(s \o q, e) = (s \o q) \o <<e>> /\ Append(q, e) = q \o <<e>>
  BY <1>1, AppendIsConcat
<1>3. (s \o q) \o <<e>> = s \o (q \o <<e>>)
  BY <1>1, ConcatAssociative
<1> QED
  BY <1>2, <1>3

(* A worker that takes the head of the queue moves it to those started.    *)
LEMMA MoveHead ==
    ASSUME NEW S, NEW s \in Seq(S), NEW q \in Seq(S), q # <<>>
    PROVE  /\ Append(s, Head(q)) \o Tail(q) = s \o q
           /\ Len(s) + 1 <= Len(s \o q)
           /\ (s \o q)[Len(s) + 1] = Head(q)
<1> DEFINE h == Head(q)
           r == Tail(q)
<1>1. h \in S /\ r \in Seq(S) /\ <<h>> \in Seq(S)
  BY HeadTailProperties
<1>2. q = <<h>> \o r
  BY HeadTailProperties, ConcatProperties, SeqEqual
<1> HIDE DEF h, r
<1>3. Append(s, h) = s \o <<h>>
  BY <1>1, AppendIsConcat
<1>4. (s \o <<h>>) \o r = s \o (<<h>> \o r)
  BY <1>1, ConcatAssociative
<1>5. Append(s, h) \o r = s \o q
  BY <1>2, <1>3, <1>4
<1>6. Len(s) \in Nat /\ Len(q) \in Nat /\ Len(q) > 0 /\ q[1] = h
  BY EmptySeq, LenProperties DEF h
<1>7. /\ Len(s \o q) = Len(s) + Len(q)
      /\ (s \o q)[Len(s) + 1] = q[1]
  BY <1>6, ConcatProperties
<1> QED
  BY SMTT(30), <1>5, <1>6, <1>7 DEF h, r

(* A sequence in which an element is put before position i, and one        *)
(* without the element at position i, as the array and the list make them. *)
WithAt(s, i, e) == SubSeq(s, 1, i - 1) \o <<e>> \o SubSeq(s, i, Len(s))

WithoutAt(s, i) == SubSeq(s, 1, i - 1) \o SubSeq(s, i + 1, Len(s))

(* The element at position k of the first of them.                         *)
ElementWith(s, i, e, k) == IF k < i THEN s[k] ELSE IF k = i THEN e ELSE s[k - 1]

(* The elements behind the new one are one place further on.               *)
LEMMA InsertedAt ==
    ASSUME NEW S, NEW s \in Seq(S), NEW e \in S, NEW i \in 1 .. Len(s) + 1
    PROVE  /\ WithAt(s, i, e) \in Seq(S) /\ Len(WithAt(s, i, e)) = Len(s) + 1
           /\ \A k \in 1 .. Len(s) + 1 :
                 WithAt(s, i, e)[k] = ElementWith(s, i, e, k)
<1>0. PICK r : r = WithAt(s, i, e)
  OBVIOUS
<1>1. PICK L : L = Len(s)
  OBVIOUS
<1>2. L \in Nat /\ i \in 1 .. L + 1
  BY <1>1, LenProperties
<1>3. PICK n : n = i - 1
  OBVIOUS
<1>4. n \in 0 .. L /\ n + 1 = i
  BY <1>2, <1>3
<1>5. /\ SubSeq(s, 1, n) \in Seq(S) /\ Len(SubSeq(s, 1, n)) = n
      /\ \A k \in 1 .. n : SubSeq(s, 1, n)[k] = s[k]
      /\ SubSeq(s, n + 1, L) \in Seq(S)
      /\ Len(SubSeq(s, n + 1, L)) = L - n
      /\ \A k \in 1 .. L - n : SubSeq(s, n + 1, L)[k] = s[n + k]
  BY <1>1, <1>4, TakeAndKeep
<1>6. PICK a : a = SubSeq(s, 1, n)
  OBVIOUS
<1>7. PICK b : b = SubSeq(s, n + 1, L)
  OBVIOUS
<1>8. PICK m : m = <<e>>
  OBVIOUS
<1>9. m \in Seq(S) /\ Len(m) = 1 /\ m[1] = e
  BY <1>8
<1>10. PICK c : c = a \o m
  OBVIOUS
<1>11. r = c \o b
  BY <1>0, <1>1, <1>3, <1>4, <1>6, <1>7, <1>8, <1>10 DEF WithAt
<1>12. /\ a \in Seq(S) /\ Len(a) = n /\ \A k \in 1 .. n : a[k] = s[k]
       /\ b \in Seq(S) /\ Len(b) = L - n /\ \A k \in 1 .. L - n : b[k] = s[n + k]
  BY <1>5, <1>6, <1>7
<1>13. /\ c \in Seq(S) /\ Len(c) = n + 1
       /\ \A k \in 1 .. n + 1 : c[k] = IF k <= n THEN a[k] ELSE m[k - n]
  <2>1. /\ c \in Seq(S) /\ Len(c) = Len(a) + Len(m)
        /\ \A k \in 1 .. Len(a) + Len(m) :
              c[k] = IF k <= Len(a) THEN a[k] ELSE m[k - Len(a)]
    BY ONLY ZenonT(40), <1>9, <1>10, <1>12, ConcatProperties
  <2> QED
    BY ONLY <1>9, <1>12, <2>1
<1>14. /\ r \in Seq(S) /\ Len(r) = L + 1
       /\ \A k \in 1 .. L + 1 : r[k] = IF k <= i THEN c[k] ELSE b[k - i]
  <2>0. c \in Seq(S) /\ b \in Seq(S)
    BY <1>12, <1>13
  <2>1. /\ r \in Seq(S) /\ Len(r) = Len(c) + Len(b)
        /\ \A k \in 1 .. Len(c) + Len(b) :
              r[k] = IF k <= Len(c) THEN c[k] ELSE b[k - Len(c)]
    BY ONLY <1>11, <2>0, ConcatProperties
  <2>2. Len(c) = i /\ Len(c) + Len(b) = L + 1
    BY <1>2, <1>4, <1>12, <1>13
  <2> QED
    BY ONLY <2>1, <2>2
<1>15. ASSUME NEW k \in 1 .. L + 1
       PROVE  r[k] = IF k < i THEN s[k] ELSE IF k = i THEN e ELSE s[k - 1]
  <2>1. k \in Int /\ n \in Int /\ i = n + 1 /\ r[k] = IF k <= i THEN c[k] ELSE b[k - i]
    BY <1>4, <1>14
  <2>2. CASE k < i
    <3>1. k \in 1 .. n /\ k \in 1 .. n + 1 /\ k <= n /\ k <= i
      BY <2>1, <2>2
    <3> QED
      BY ONLY <1>12, <1>13, <2>1, <2>2, <3>1
  <2>3. CASE k = i
    <3>1. k \in 1 .. n + 1 /\ ~(k <= n) /\ k <= i /\ k - n = 1 /\ ~(k < i)
      BY <1>4, <2>1, <2>3
    <3> QED
      BY ONLY <1>9, <1>13, <2>1, <2>3, <3>1
  <2>4. CASE k > i
    <3>1. PICK j : j = k - i
      OBVIOUS
    <3>2. ~(k <= i) /\ j \in 1 .. L - n /\ n + j = k - 1 /\ ~(k < i) /\ k # i
      BY <1>2, <1>4, <2>1, <2>4, <3>1
    <3>3. r[k] = b[j] /\ b[j] = s[n + j]
      BY ONLY <1>12, <2>1, <3>1, <3>2
    <3> QED
      BY ONLY <3>2, <3>3
  <2>5. k < i \/ k = i \/ k > i
    BY <2>1
  <2> QED
    BY ONLY <2>2, <2>3, <2>4, <2>5
<1> QED
  BY <1>0, <1>1, <1>14, <1>15 DEF ElementWith

(* The elements behind the one that is gone are one place further up.      *)
LEMMA RemovedAt ==
    ASSUME NEW S, NEW s \in Seq(S), NEW i \in 1 .. Len(s)
    PROVE  /\ WithoutAt(s, i) \in Seq(S) /\ Len(WithoutAt(s, i)) = Len(s) - 1
           /\ \A k \in 1 .. Len(s) - 1 :
                 WithoutAt(s, i)[k] = IF k < i THEN s[k] ELSE s[k + 1]
<1>0. PICK r : r = WithoutAt(s, i)
  OBVIOUS
<1>1. PICK L : L = Len(s)
  OBVIOUS
<1>2. L \in Nat /\ i \in 1 .. L
  BY <1>1, LenProperties
<1>3. PICK n : n = i - 1
  OBVIOUS
<1>4. n \in 0 .. L /\ n + 1 = i /\ i \in 0 .. L
  BY <1>2, <1>3
<1>5. /\ SubSeq(s, 1, n) \in Seq(S) /\ Len(SubSeq(s, 1, n)) = n
      /\ \A k \in 1 .. n : SubSeq(s, 1, n)[k] = s[k]
      /\ SubSeq(s, i + 1, L) \in Seq(S)
      /\ Len(SubSeq(s, i + 1, L)) = L - i
      /\ \A k \in 1 .. L - i : SubSeq(s, i + 1, L)[k] = s[i + k]
  BY <1>1, <1>4, TakeAndKeep
<1>6. PICK a : a = SubSeq(s, 1, n)
  OBVIOUS
<1>7. PICK b : b = SubSeq(s, i + 1, L)
  OBVIOUS
<1>8. /\ a \in Seq(S) /\ Len(a) = n /\ \A k \in 1 .. n : a[k] = s[k]
      /\ b \in Seq(S) /\ Len(b) = L - i /\ \A k \in 1 .. L - i : b[k] = s[i + k]
      /\ r = a \o b
  BY <1>0, <1>1, <1>3, <1>5, <1>6, <1>7 DEF WithoutAt
<1>9. /\ r \in Seq(S) /\ Len(r) = n + (L - i)
      /\ \A k \in 1 .. n + (L - i) : r[k] = IF k <= n THEN a[k] ELSE b[k - n]
  <2>1. /\ a \in Seq(S) /\ b \in Seq(S) /\ r = a \o b
        /\ Len(a) = n /\ Len(b) = L - i
    BY ONLY <1>8
  <2>2. /\ r \in Seq(S) /\ Len(r) = Len(a) + Len(b)
        /\ \A k \in 1 .. Len(a) + Len(b) :
              r[k] = IF k <= Len(a) THEN a[k] ELSE b[k - Len(a)]
    BY ONLY <2>1, ConcatProperties
  <2> QED
    BY ONLY <2>1, <2>2
<1>10. n + (L - i) = L - 1
  BY <1>2, <1>4
<1>11. ASSUME NEW k \in 1 .. L - 1 PROVE r[k] = IF k < i THEN s[k] ELSE s[k + 1]
  <2>1. k \in Int /\ n \in Int /\ i = n + 1
    BY <1>4
  <2>2. CASE k < i
    <3>1. k \in 1 .. n /\ k <= n
      BY <2>1, <2>2
    <3> QED
      BY <1>8, <1>9, <1>10, <2>2, <3>1
  <2>3. CASE ~(k < i)
    <3>1. ~(k <= n) /\ k - n \in 1 .. L - i /\ i + (k - n) = k + 1
      BY <1>2, <1>4, <2>1, <2>3
    <3> QED
      BY <1>8, <1>9, <1>10, <2>3, <3>1
  <2> QED
    BY <2>2, <2>3
<1> QED
  BY <1>0, <1>1, <1>9, <1>10, <1>11

(* What the models write as a choice of the smallest exists: a set of      *)
(* numbers that is not empty has a least element.                          *)
LEMMA LeastElement ==
    ASSUME NEW S, S \subseteq Nat, S # {}
    PROVE  \E h \in S : \A k \in S : h <= k
<1> DEFINE Below == OpToRel(<, Nat)
<1>1. /\ IsWellFoundedOn(Below, Nat)
      /\ \A h, k \in Nat : <<k, h>> \in Below <=> k < h
  BY NatLessThanWellFounded DEF OpToRel
<1> HIDE DEF Below
<1>2. PICK h \in S : \A k \in S : ~(<<k, h>> \in Below)
  BY ONLY <1>1, S \subseteq Nat, S # {}, WFMin
<1>3. ASSUME NEW k \in S PROVE h <= k
  <2>1. k \in Nat /\ h \in Nat /\ ~(<<k, h>> \in Below)
    BY <1>2
  <2>2. ~(k < h)
    BY ONLY <1>1, <2>1, Zenon
  <2> QED
    BY ONLY <2>1, <2>2
<1> QED
  BY <1>3

(* Induction, as a fact about sets of numbers.                             *)
LEMMA Induct ==
    ASSUME NEW P, 0 \in P, \A i \in Nat : i \in P => i + 1 \in P
    PROVE  \A i \in Nat : i \in P
<1> DEFINE Missing == {i \in Nat : i \notin P}
<1>1. ASSUME Missing # {} PROVE FALSE
  <2>1. Missing \subseteq Nat
    OBVIOUS
  <2>2. PICK h \in Missing : \A k \in Missing : h <= k
    BY ONLY <1>1, <2>1, LeastElement
  <2>3. h \in Nat /\ h \notin P /\ h # 0
    OBVIOUS
  <2>4. h - 1 \in Nat /\ h - 1 \notin Missing
    BY <2>2, <2>3
  <2>5. h - 1 \in P /\ (h - 1) + 1 = h
    BY <2>3, <2>4
  <2> QED
    BY <2>3, <2>4, <2>5
<1> QED
  BY <1>1

(* A walk that takes n steps from a place, each to where a function leads. *)
CanWalk(S, g, x, n) ==
    \E f \in [0 .. n -> S] : f[0] = x /\ \A i \in 1 .. n : f[i] = g[f[i - 1]]

LEMMA WalkExists ==
    ASSUME NEW S, NEW g \in [S -> S], NEW x \in S, NEW n \in Nat
    PROVE  CanWalk(S, g, x, n)
<1> DEFINE P == {k \in Nat : \E f \in [0 .. k -> S] :
                                f[0] = x /\ \A i \in 1 .. k : f[i] = g[f[i - 1]]}
<1>1. 0 \in P
  <2>1. PICK f : f = [i \in 0 .. 0 |-> x]
    OBVIOUS
  <2>2. f \in [0 .. 0 -> S] /\ f[0] = x /\ \A i \in 1 .. 0 : f[i] = g[f[i - 1]]
    BY <2>1
  <2> QED
    BY <2>2
<1>2. ASSUME NEW k \in Nat, k \in P PROVE k + 1 \in P
  <2>1. PICK f \in [0 .. k -> S] : f[0] = x /\ \A i \in 1 .. k : f[i] = g[f[i - 1]]
    BY <1>2
  <2>2. PICK e : e = [i \in 0 .. k + 1 |-> IF i = k + 1 THEN g[f[k]] ELSE f[i]]
    OBVIOUS
  <2>3. e \in [0 .. k + 1 -> S] /\ e[0] = x
    BY <2>1, <2>2
  <2>4. ASSUME NEW i \in 1 .. k + 1 PROVE e[i] = g[e[i - 1]]
    <3>1. i - 1 \in 0 .. k /\ i \in 0 .. k + 1 /\ i - 1 \in 0 .. k + 1 /\ i - 1 # k + 1
      OBVIOUS
    <3>2. e[i - 1] = f[i - 1]
      BY <2>2, <3>1
    <3>3. CASE i = k + 1
      BY <2>2, <3>1, <3>2, <3>3
    <3>4. CASE i # k + 1
      <4>1. i \in 1 .. k /\ e[i] = f[i]
        BY <2>2, <3>1, <3>4
      <4> QED
        BY <2>1, <3>2, <4>1
    <3> QED
      BY <3>3, <3>4
  <2>5. k + 1 \in Nat
    OBVIOUS
  <2> QED
    BY <2>3, <2>4, <2>5
<1> HIDE DEF P
<1>3. \A k \in Nat : k \in P
  BY ONLY <1>1, <1>2, Induct
<1> QED
  BY <1>3 DEF P, CanWalk

(* A walk does not leave a set that no step leaves.                        *)
LEMMA WalkStays ==
    ASSUME NEW S, NEW n \in Nat, NEW f, f[0] \in S,
           \A i \in 1 .. n : f[i - 1] \in S => f[i] \in S
    PROVE  \A i \in 0 .. n : f[i] \in S
<1> DEFINE P == {i \in Nat : i \in 0 .. n => f[i] \in S}
<1>1. 0 \in P
  OBVIOUS
<1>2. ASSUME NEW i \in Nat, i \in P PROVE i + 1 \in P
  <2>1. CASE i + 1 \in 0 .. n
    <3>1. i \in 0 .. n /\ i + 1 \in 1 .. n /\ (i + 1) - 1 = i
      BY <2>1
    <3> QED
      BY <1>2, <3>1
  <2>2. CASE i + 1 \notin 0 .. n
    BY <2>2
  <2> QED
    BY <2>1, <2>2
<1> HIDE DEF P
<1>3. \A i \in Nat : i \in P
  BY ONLY <1>1, <1>2, Induct
<1> QED
  BY <1>3 DEF P

=============================================================================
