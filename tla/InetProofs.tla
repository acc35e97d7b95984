----------------------------- MODULE InetProofs -----------------------------
(* Theorems about inet_ntop and inet_pton: for every address, the text of  *)
(* the one is read back by the other.                                      *)
(*                                                                         *)
(* A loop is a function of the number of turns, so that what holds after   *)
(* so many of them is shown by induction on that number.  The proof for    *)
(* IPv6 is in four parts: the scan of inet_ntop6 finds the first of the    *)
(* longest runs of zero words; its other loop then writes a text of a few  *)
(* forms, where the place of every token is known; inet_pton6 reads a text *)
(* of these forms back word by word; the same places tell how long the     *)
(* text is and where :: stands in it.                                      *)
EXTENDS Inet, SequenceFacts, FiniteSetTheorems

(* The loop of inet_pton4, turn by turn.                                   *)
LEMMA Reading4Is ==
    ASSUME NEW chars, NEW n \in Nat, Len(chars) = n
    PROVE  /\ Reading4(chars)[0] = Pton4Start
           /\ \A i \in 1 .. n : Reading4(chars)[i] = Pton4Step(Reading4(chars)[i - 1], chars[i])
<1> DEFINE Turns(f, k) == /\ f = [i \in 0 .. k |-> f[i]] /\ f[0] = Pton4Start
                         /\ \A i \in 1 .. k : f[i] = Pton4Step(f[i - 1], chars[i])
           Has(k) == \E f : Turns(f, k)
           P == {k \in Nat : Has(k)}
<1>1. 0 \in P
  <2>1. PICK f : f = [i \in 0 .. 0 |-> Pton4Start]
    OBVIOUS
  <2>2. Turns(f, 0)
    BY <2>1
  <2> QED
    BY <2>2
<1>2. ASSUME NEW k \in Nat, k \in P PROVE k + 1 \in P
  <2>1. PICK f : Turns(f, k)
    BY <1>2
  <2>2. PICK z : z = Pton4Step(f[k], chars[k + 1])
    OBVIOUS
  <2>3. PICK e : e = [i \in 0 .. k + 1 |-> IF i = k + 1 THEN z ELSE f[i]]
    OBVIOUS
  <2>4. e = [i \in 0 .. k + 1 |-> e[i]] /\ e[0] = Pton4Start
    <3>1. 0 \in 0 .. k + 1 /\ 0 # k + 1
      OBVIOUS
    <3> QED
      BY ONLY <2>1, <2>3, <3>1
  <2>5. ASSUME NEW i \in 1 .. k + 1 PROVE e[i] = Pton4Step(e[i - 1], chars[i])
    <3>1. CASE i = k + 1
      <4>1. i - 1 = k /\ k \in 0 .. k + 1 /\ k # k + 1 /\ k + 1 \in 0 .. k + 1
        BY <3>1
      <4>2. e[i - 1] = f[k] /\ e[i] = z
        BY ONLY <2>3, <3>1, <4>1
      <4> QED
        BY ONLY <2>2, <3>1, <4>2
    <3>2. CASE i # k + 1
      <4>1. i \in 1 .. k /\ i - 1 \in 0 .. k + 1 /\ i \in 0 .. k + 1 /\ i - 1 # k + 1
        BY <3>2
      <4>2. e[i] = f[i] /\ e[i - 1] = f[i - 1]
        BY ONLY <2>3, <3>2, <4>1
      <4>3. f[i] = Pton4Step(f[i - 1], chars[i])
        BY ONLY <2>1, <4>1
      <4> QED
        BY ONLY <4>2, <4>3
    <3> QED
      BY <3>1, <3>2
  <2>6. Turns(e, k + 1)
    BY ONLY <2>4, <2>5
  <2> HIDE DEF Turns
  <2> QED
    BY <2>6
<1>3. \A k \in Nat : k \in P
  <2> HIDE DEF P
  <2> QED
    BY ONLY <1>1, <1>2, Induct
<1>4. PICK f : Turns(f, n)
  <2>1. n \in Nat /\ (n \in P => Has(n))
    OBVIOUS
  <2> HIDE DEF P
  <2>2. n \in P
    BY ONLY <1>3, <2>1
  <2>3. Has(n)
    BY ONLY <2>1, <2>2
  <2> QED
    BY ONLY <2>3, Zenon
<1>5. f = [i \in 0 .. n |-> IF i = 0 THEN Pton4Start ELSE Pton4Step(f[i - 1], chars[i])]
  <2>1. /\ f = [i \in 0 .. n |-> f[i]] /\ f[0] = Pton4Start
        /\ \A i \in 1 .. n : f[i] = Pton4Step(f[i - 1], chars[i])
    BY ONLY <1>4
  <2>2. \A i \in 0 .. n : i = 0 \/ i \in 1 .. n
    OBVIOUS
  <2> HIDE DEF Turns
  <2>3. \A i \in 0 .. n : f[i] = IF i = 0 THEN Pton4Start ELSE Pton4Step(f[i - 1], chars[i])
    BY ONLY <2>1, <2>2, Zenon
  <2>4. PICK g : g = [i \in 0 .. n |-> IF i = 0 THEN Pton4Start ELSE Pton4Step(f[i - 1], chars[i])]
    OBVIOUS
  <2>5. [i \in 0 .. n |-> f[i]] = g
    BY ONLY <2>3, <2>4
  <2> QED
    BY ONLY <2>1, <2>4, <2>5, Zenon
<1>6. PICK h : /\ h = [i \in 0 .. n |-> IF i = 0 THEN Pton4Start ELSE Pton4Step(h[i - 1], chars[i])]
               /\ Reading4(chars) = h
  BY ONLY <1>5, Len(chars) = n, Zenon DEF Reading4
<1>7. h[0] = Pton4Start /\ \A i \in 1 .. n : h[i] = Pton4Step(h[i - 1], chars[i])
  <2>1. 0 \in 0 .. n /\ \A i \in 1 .. n : i \in 0 .. n /\ i # 0
    OBVIOUS
  <2> QED
    BY ONLY <1>6, <2>1
<1> QED
  BY ONLY <1>6, <1>7

(* The loop of inet_ntop6 that looks for runs of zero words.               *)
LEMMA ScanningIs ==
    ASSUME NEW words
    PROVE  /\ Scanning(words)[0] = [best |-> NoRun, cur |-> NoRun]
           /\ \A i \in 1 .. 8 : Scanning(words)[i] = RunStep(words, Scanning(words)[i - 1], i)
<1> DEFINE Turns(f, k) == /\ f = [i \in 0 .. k |-> f[i]] /\ f[0] = [best |-> NoRun, cur |-> NoRun]
                         /\ \A i \in 1 .. k : f[i] = RunStep(words, f[i - 1], i)
           Has(k) == \E f : Turns(f, k)
           P == {k \in Nat : Has(k)}
<1>1. 0 \in P
  <2>1. PICK f : f = [i \in 0 .. 0 |-> [best |-> NoRun, cur |-> NoRun]]
    OBVIOUS
  <2>2. Turns(f, 0)
    BY <2>1
  <2> QED
    BY <2>2
<1>2. ASSUME NEW k \in Nat, k \in P PROVE k + 1 \in P
  <2>1. PICK f : Turns(f, k)
    BY <1>2
  <2>2. PICK z : z = RunStep(words, f[k], k + 1)
    OBVIOUS
  <2>3. PICK e : e = [i \in 0 .. k + 1 |-> IF i = k + 1 THEN z ELSE f[i]]
    OBVIOUS
  <2>4. e = [i \in 0 .. k + 1 |-> e[i]] /\ e[0] = [best |-> NoRun, cur |-> NoRun]
    <3>1. 0 \in 0 .. k + 1 /\ 0 # k + 1
      OBVIOUS
    <3> QED
      BY ONLY <2>1, <2>3, <3>1
  <2>5. ASSUME NEW i \in 1 .. k + 1 PROVE e[i] = RunStep(words, e[i - 1], i)
    <3>1. CASE i = k + 1
      <4>1. i - 1 = k /\ k \in 0 .. k + 1 /\ k # k + 1 /\ k + 1 \in 0 .. k + 1
        BY <3>1
      <4>2. e[i - 1] = f[k] /\ e[i] = z
        BY ONLY <2>3, <3>1, <4>1
      <4> QED
        BY ONLY <2>2, <3>1, <4>2
    <3>2. CASE i # k + 1
      <4>1. i \in 1 .. k /\ i - 1 \in 0 .. k + 1 /\ i \in 0 .. k + 1 /\ i - 1 # k + 1
        BY <3>2
      <4>2. e[i] = f[i] /\ e[i - 1] = f[i - 1]
        BY ONLY <2>3, <3>2, <4>1
      <4>3. f[i] = RunStep(words, f[i - 1], i)
        BY ONLY <2>1, <4>1
      <4> QED
        BY ONLY <4>2, <4>3
    <3> QED
      BY <3>1, <3>2
  <2>6. Turns(e, k + 1)
    BY ONLY <2>4, <2>5
  <2> HIDE DEF Turns
  <2> QED
    BY <2>6
<1>3. \A k \in Nat : k \in P
  <2> HIDE DEF P
  <2> QED
    BY ONLY <1>1, <1>2, Induct
<1>4. PICK f : Turns(f, 8)
  <2>1. 8 \in Nat /\ (8 \in P => Has(8))
    OBVIOUS
  <2> HIDE DEF P
  <2>2. 8 \in P
    BY ONLY <1>3, <2>1
  <2>3. Has(8)
    BY ONLY <2>1, <2>2
  <2> QED
    BY ONLY <2>3, Zenon
<1>5. f = [i \in 0 .. 8 |-> IF i = 0 THEN [best |-> NoRun, cur |-> NoRun] ELSE RunStep(words, f[i - 1], i)]
  <2>1. /\ f = [i \in 0 .. 8 |-> f[i]] /\ f[0] = [best |-> NoRun, cur |-> NoRun]
        /\ \A i \in 1 .. 8 : f[i] = RunStep(words, f[i - 1], i)
    BY ONLY <1>4
  <2>2. \A i \in 0 .. 8 : i = 0 \/ i \in 1 .. 8
    OBVIOUS
  <2> HIDE DEF Turns
  <2>3. \A i \in 0 .. 8 : f[i] = IF i = 0 THEN [best |-> NoRun, cur |-> NoRun] ELSE RunStep(words, f[i - 1], i)
    BY ONLY <2>1, <2>2, Zenon
  <2>4. PICK g : g = [i \in 0 .. 8 |-> IF i = 0 THEN [best |-> NoRun, cur |-> NoRun] ELSE RunStep(words, f[i - 1], i)]
    OBVIOUS
  <2>5. [i \in 0 .. 8 |-> f[i]] = g
    BY ONLY <2>3, <2>4
  <2> QED
    BY ONLY <2>1, <2>4, <2>5, Zenon
<1>6. PICK h : /\ h = [i \in 0 .. 8 |-> IF i = 0 THEN [best |-> NoRun, cur |-> NoRun] ELSE RunStep(words, h[i - 1], i)]
               /\ Scanning(words) = h
  BY ONLY <1>5, Zenon DEF Scanning
<1>7. h[0] = [best |-> NoRun, cur |-> NoRun] /\ \A i \in 1 .. 8 : h[i] = RunStep(words, h[i - 1], i)
  <2>1. 0 \in 0 .. 8 /\ \A i \in 1 .. 8 : i \in 0 .. 8 /\ i # 0
    OBVIOUS
  <2> QED
    BY ONLY <1>6, <2>1
<1> QED
  BY ONLY <1>6, <1>7

(* The loop of inet_ntop6 that writes.                                     *)
LEMMA Writing6Is ==
    ASSUME NEW words, NEW best
    PROVE  /\ Writing6(words, best)[0] = [text |-> <<>>, done |-> FALSE]
           /\ \A i \in 1 .. 8 : Writing6(words, best)[i] = TextStep(words, best, Writing6(words, best)[i - 1], i)
<1> DEFINE Turns(f, k) == /\ f = [i \in 0 .. k |-> f[i]] /\ f[0] = [text |-> <<>>, done |-> FALSE]
                         /\ \A i \in 1 .. k : f[i] = TextStep(words, best, f[i - 1], i)
           Has(k) == \E f : Turns(f, k)
           P == {k \in Nat : Has(k)}
<1>1. 0 \in P
  <2>1. PICK f : f = [i \in 0 .. 0 |-> [text |-> <<>>, done |-> FALSE]]
    OBVIOUS
  <2>2. Turns(f, 0)
    BY <2>1
  <2> QED
    BY <2>2
<1>2. ASSUME NEW k \in Nat, k \in P PROVE k + 1 \in P
  <2>1. PICK f : Turns(f, k)
    BY <1>2
  <2>2. PICK z : z = TextStep(words, best, f[k], k + 1)
    OBVIOUS
  <2>3. PICK e : e = [i \in 0 .. k + 1 |-> IF i = k + 1 THEN z ELSE f[i]]
    OBVIOUS
  <2>4. e = [i \in 0 .. k + 1 |-> e[i]] /\ e[0] = [text |-> <<>>, done |-> FALSE]
    <3>1. 0 \in 0 .. k + 1 /\ 0 # k + 1
      OBVIOUS
    <3> QED
      BY ONLY <2>1, <2>3, <3>1
  <2>5. ASSUME NEW i \in 1 .. k + 1 PROVE e[i] = TextStep(words, best, e[i - 1], i)
    <3>1. CASE i = k + 1
      <4>1. i - 1 = k /\ k \in 0 .. k + 1 /\ k # k + 1 /\ k + 1 \in 0 .. k + 1
        BY <3>1
      <4>2. e[i - 1] = f[k] /\ e[i] = z
        BY ONLY <2>3, <3>1, <4>1
      <4> QED
        BY ONLY <2>2, <3>1, <4>2
    <3>2. CASE i # k + 1
      <4>1. i \in 1 .. k /\ i - 1 \in 0 .. k + 1 /\ i \in 0 .. k + 1 /\ i - 1 # k + 1
        BY <3>2
      <4>2. e[i] = f[i] /\ e[i - 1] = f[i - 1]
        BY ONLY <2>3, <3>2, <4>1
      <4>3. f[i] = TextStep(words, best, f[i - 1], i)
        BY ONLY <2>1, <4>1
      <4> QED
        BY ONLY <4>2, <4>3
    <3> QED
      BY <3>1, <3>2
  <2>6. Turns(e, k + 1)
    BY ONLY <2>4, <2>5
  <2> HIDE DEF Turns
  <2> QED
    BY <2>6
<1>3. \A k \in Nat : k \in P
  <2> HIDE DEF P
  <2> QED
    BY ONLY <1>1, <1>2, Induct
<1>4. PICK f : Turns(f, 8)
  <2>1. 8 \in Nat /\ (8 \in P => Has(8))
    OBVIOUS
  <2> HIDE DEF P
  <2>2. 8 \in P
    BY ONLY <1>3, <2>1
  <2>3. Has(8)
    BY ONLY <2>1, <2>2
  <2> QED
    BY ONLY <2>3, Zenon
<1>5. f = [i \in 0 .. 8 |-> IF i = 0 THEN [text |-> <<>>, done |-> FALSE] ELSE TextStep(words, best, f[i - 1], i)]
  <2>1. /\ f = [i \in 0 .. 8 |-> f[i]] /\ f[0] = [text |-> <<>>, done |-> FALSE]
        /\ \A i \in 1 .. 8 : f[i] = TextStep(words, best, f[i - 1], i)
    BY ONLY <1>4
  <2>2. \A i \in 0 .. 8 : i = 0 \/ i \in 1 .. 8
    OBVIOUS
  <2> HIDE DEF Turns
  <2>3. \A i \in 0 .. 8 : f[i] = IF i = 0 THEN [text |-> <<>>, done |-> FALSE] ELSE TextStep(words, best, f[i - 1], i)
    BY ONLY <2>1, <2>2, Zenon
  <2>4. PICK g : g = [i \in 0 .. 8 |-> IF i = 0 THEN [text |-> <<>>, done |-> FALSE] ELSE TextStep(words, best, f[i - 1], i)]
    OBVIOUS
  <2>5. [i \in 0 .. 8 |-> f[i]] = g
    BY ONLY <2>3, <2>4
  <2> QED
    BY ONLY <2>1, <2>4, <2>5, Zenon
<1>6. PICK h : /\ h = [i \in 0 .. 8 |-> IF i = 0 THEN [text |-> <<>>, done |-> FALSE] ELSE TextStep(words, best, h[i - 1], i)]
               /\ Writing6(words, best) = h
  BY ONLY <1>5, Zenon DEF Writing6
<1>7. h[0] = [text |-> <<>>, done |-> FALSE] /\ \A i \in 1 .. 8 : h[i] = TextStep(words, best, h[i - 1], i)
  <2>1. 0 \in 0 .. 8 /\ \A i \in 1 .. 8 : i \in 0 .. 8 /\ i # 0
    OBVIOUS
  <2> QED
    BY ONLY <1>6, <2>1
<1> QED
  BY ONLY <1>6, <1>7

(* The loop of inet_pton6.                                                 *)
LEMMA Reading6Is ==
    ASSUME NEW tokens, NEW n \in Nat, Len(tokens) = n
    PROVE  /\ Reading6(tokens)[0] = Pton6Start
           /\ \A i \in 1 .. n : Reading6(tokens)[i] = Pton6Step(tokens, Reading6(tokens)[i - 1], i)
<1> DEFINE Turns(f, k) == /\ f = [i \in 0 .. k |-> f[i]] /\ f[0] = Pton6Start
                         /\ \A i \in 1 .. k : f[i] = Pton6Step(tokens, f[i - 1], i)
           Has(k) == \E f : Turns(f, k)
           P == {k \in Nat : Has(k)}
<1>1. 0 \in P
  <2>1. PICK f : f = [i \in 0 .. 0 |-> Pton6Start]
    OBVIOUS
  <2>2. Turns(f, 0)
    BY <2>1
  <2> QED
    BY <2>2
<1>2. ASSUME NEW k \in Nat, k \in P PROVE k + 1 \in P
  <2>1. PICK f : Turns(f, k)
    BY <1>2
  <2>2. PICK z : z = Pton6Step(tokens, f[k], k + 1)
    OBVIOUS
  <2>3. PICK e : e = [i \in 0 .. k + 1 |-> IF i = k + 1 THEN z ELSE f[i]]
    OBVIOUS
  <2>4. e = [i \in 0 .. k + 1 |-> e[i]] /\ e[0] = Pton6Start
    <3>1. 0 \in 0 .. k + 1 /\ 0 # k + 1
      OBVIOUS
    <3> QED
      BY ONLY <2>1, <2>3, <3>1
  <2>5. ASSUME NEW i \in 1 .. k + 1 PROVE e[i] = Pton6Step(tokens, e[i - 1], i)
    <3>1. CASE i = k + 1
      <4>1. i - 1 = k /\ k \in 0 .. k + 1 /\ k # k + 1 /\ k + 1 \in 0 .. k + 1
        BY <3>1
      <4>2. e[i - 1] = f[k] /\ e[i] = z
        BY ONLY <2>3, <3>1, <4>1
      <4> QED
        BY ONLY <2>2, <3>1, <4>2
    <3>2. CASE i # k + 1
      <4>1. i \in 1 .. k /\ i - 1 \in 0 .. k + 1 /\ i \in 0 .. k + 1 /\ i - 1 # k + 1
        BY <3>2
      <4>2. e[i] = f[i] /\ e[i - 1] = f[i - 1]
        BY ONLY <2>3, <3>2, <4>1
      <4>3. f[i] = Pton6Step(tokens, f[i - 1], i)
        BY ONLY <2>1, <4>1
      <4> QED
        BY ONLY <4>2, <4>3
    <3> QED
      BY <3>1, <3>2
  <2>6. Turns(e, k + 1)
    BY ONLY <2>4, <2>5
  <2> HIDE DEF Turns
  <2> QED
    BY <2>6
<1>3. \A k \in Nat : k \in P
  <2> HIDE DEF P
  <2> QED
    BY ONLY <1>1, <1>2, Induct
<1>4. PICK f : Turns(f, n)
  <2>1. n \in Nat /\ (n \in P => Has(n))
    OBVIOUS
  <2> HIDE DEF P
  <2>2. n \in P
    BY ONLY <1>3, <2>1
  <2>3. Has(n)
    BY ONLY <2>1, <2>2
  <2> QED
    BY ONLY <2>3, Zenon
<1>5. f = [i \in 0 .. n |-> IF i = 0 THEN Pton6Start ELSE Pton6Step(tokens, f[i - 1], i)]
  <2>1. /\ f = [i \in 0 .. n |-> f[i]] /\ f[0] = Pton6Start
        /\ \A i \in 1 .. n : f[i] = Pton6Step(tokens, f[i - 1], i)
    BY ONLY <1>4
  <2>2. \A i \in 0 .. n : i = 0 \/ i \in 1 .. n
    OBVIOUS
  <2> HIDE DEF Turns
  <2>3. \A i \in 0 .. n : f[i] = IF i = 0 THEN Pton6Start ELSE Pton6Step(tokens, f[i - 1], i)
    BY ONLY <2>1, <2>2, Zenon
  <2>4. PICK g : g = [i \in 0 .. n |-> IF i = 0 THEN Pton6Start ELSE Pton6Step(tokens, f[i - 1], i)]
    OBVIOUS
  <2>5. [i \in 0 .. n |-> f[i]] = g
    BY ONLY <2>3, <2>4
  <2> QED
    BY ONLY <2>1, <2>4, <2>5, Zenon
<1>6. PICK h : /\ h = [i \in 0 .. n |-> IF i = 0 THEN Pton6Start ELSE Pton6Step(tokens, h[i - 1], i)]
               /\ Reading6(tokens) = h
  BY ONLY <1>5, Len(tokens) = n, Zenon DEF Reading6
<1>7. h[0] = Pton6Start /\ \A i \in 1 .. n : h[i] = Pton6Step(tokens, h[i - 1], i)
  <2>1. 0 \in 0 .. n /\ \A i \in 1 .. n : i \in 0 .. n /\ i # 0
    OBVIOUS
  <2> QED
    BY ONLY <1>6, <2>1
<1> QED
  BY ONLY <1>6, <1>7

(* The length of a text.                                                   *)
LEMMA LengthsIs ==
    ASSUME NEW tokens, NEW n \in Nat, Len(tokens) = n
    PROVE  /\ Lengths(tokens)[0] = 0
           /\ \A i \in 1 .. n : Lengths(tokens)[i] = Lengths(tokens)[i - 1] + tokens[i].len
<1> DEFINE Turns(f, k) == /\ f = [i \in 0 .. k |-> f[i]] /\ f[0] = 0
                         /\ \A i \in 1 .. k : f[i] = f[i - 1] + tokens[i].len
           Has(k) == \E f : Turns(f, k)
           P == {k \in Nat : Has(k)}
<1>1. 0 \in P
  <2>1. PICK f : f = [i \in 0 .. 0 |-> 0]
    OBVIOUS
  <2>2. Turns(f, 0)
    BY <2>1
  <2> QED
    BY <2>2
<1>2. ASSUME NEW k \in Nat, k \in P PROVE k + 1 \in P
  <2>1. PICK f : Turns(f, k)
    BY <1>2
  <2>2. PICK z : z = f[k] + tokens[k + 1].len
    OBVIOUS
  <2>3. PICK e : e = [i \in 0 .. k + 1 |-> IF i = k + 1 THEN z ELSE f[i]]
    OBVIOUS
  <2>4. e = [i \in 0 .. k + 1 |-> e[i]] /\ e[0] = 0
    <3>1. 0 \in 0 .. k + 1 /\ 0 # k + 1
      OBVIOUS
    <3> QED
      BY ONLY <2>1, <2>3, <3>1
  <2>5. ASSUME NEW i \in 1 .. k + 1 PROVE e[i] = e[i - 1] + tokens[i].len
    <3>1. CASE i = k + 1
      <4>1. i - 1 = k /\ k \in 0 .. k + 1 /\ k # k + 1 /\ k + 1 \in 0 .. k + 1
        BY <3>1
      <4>2. e[i - 1] = f[k] /\ e[i] = z
        BY ONLY <2>3, <3>1, <4>1
      <4> QED
        BY ONLY <2>2, <3>1, <4>2
    <3>2. CASE i # k + 1
      <4>1. i \in 1 .. k /\ i - 1 \in 0 .. k + 1 /\ i \in 0 .. k + 1 /\ i - 1 # k + 1
        BY <3>2
      <4>2. e[i] = f[i] /\ e[i - 1] = f[i - 1]
        BY ONLY <2>3, <3>2, <4>1
      <4>3. f[i] = f[i - 1] + tokens[i].len
        BY ONLY <2>1, <4>1
      <4> QED
        BY ONLY <4>2, <4>3
    <3> QED
      BY <3>1, <3>2
  <2>6. Turns(e, k + 1)
    BY ONLY <2>4, <2>5
  <2> HIDE DEF Turns
  <2> QED
    BY <2>6
<1>3. \A k \in Nat : k \in P
  <2> HIDE DEF P
  <2> QED
    BY ONLY <1>1, <1>2, Induct
<1>4. PICK f : Turns(f, n)
  <2>1. n \in Nat /\ (n \in P => Has(n))
    OBVIOUS
  <2> HIDE DEF P
  <2>2. n \in P
    BY ONLY <1>3, <2>1
  <2>3. Has(n)
    BY ONLY <2>1, <2>2
  <2> QED
    BY ONLY <2>3, Zenon
<1>5. f = [i \in 0 .. n |-> IF i = 0 THEN 0 ELSE f[i - 1] + tokens[i].len]
  <2>1. /\ f = [i \in 0 .. n |-> f[i]] /\ f[0] = 0
        /\ \A i \in 1 .. n : f[i] = f[i - 1] + tokens[i].len
    BY ONLY <1>4
  <2>2. \A i \in 0 .. n : i = 0 \/ i \in 1 .. n
    OBVIOUS
  <2> HIDE DEF Turns
  <2>3. \A i \in 0 .. n : f[i] = IF i = 0 THEN 0 ELSE f[i - 1] + tokens[i].len
    BY ONLY <2>1, <2>2, Zenon
  <2>4. PICK g : g = [i \in 0 .. n |-> IF i = 0 THEN 0 ELSE f[i - 1] + tokens[i].len]
    OBVIOUS
  <2>5. [i \in 0 .. n |-> f[i]] = g
    BY ONLY <2>3, <2>4
  <2> QED
    BY ONLY <2>1, <2>4, <2>5, Zenon
<1>6. PICK h : /\ h = [i \in 0 .. n |-> IF i = 0 THEN 0 ELSE h[i - 1] + tokens[i].len]
               /\ Lengths(tokens) = h
  BY ONLY <1>5, Len(tokens) = n, Zenon DEF Lengths
<1>7. h[0] = 0 /\ \A i \in 1 .. n : h[i] = h[i - 1] + tokens[i].len
  <2>1. 0 \in 0 .. n /\ \A i \in 1 .. n : i \in 0 .. n /\ i # 0
    OBVIOUS
  <2> QED
    BY ONLY <1>6, <2>1
<1> QED
  BY ONLY <1>6, <1>7

(* The sequence d is part of s, behind its first p elements.               *)
StandsAt(d, s, p) == \A i \in 1 .. Len(d) : s[p + i] = d[i]

(* In a concatenation the second part stands behind the first, which stays. *)
LEMMA Appended ==
    ASSUME NEW S, NEW s \in Seq(S), NEW t \in Seq(S)
    PROVE  /\ s \o t \in Seq(S) /\ Len(s \o t) = Len(s) + Len(t)
           /\ StandsAt(t, s \o t, Len(s))
           /\ \A d, p : p \in Nat /\ Len(d) \in Nat /\ p + Len(d) <= Len(s) /\ StandsAt(d, s, p)
                 => StandsAt(d, s \o t, p)
<1>1. /\ s \o t \in Seq(S) /\ Len(s \o t) = Len(s) + Len(t)
      /\ \A i \in 1 .. Len(s) + Len(t) :
            (s \o t)[i] = IF i <= Len(s) THEN s[i] ELSE t[i - Len(s)]
  BY ConcatProperties
<1>2. PICK u, m, n : u = s \o t /\ m = Len(s) /\ n = Len(t)
  OBVIOUS
<1>3. m \in Nat /\ n \in Nat
  BY <1>2, LenProperties
<1>4. \A i \in 1 .. m + n : u[i] = IF i <= m THEN s[i] ELSE t[i - m]
  BY ONLY <1>1, <1>2
<1>5. \A i \in 1 .. n : u[m + i] = t[i]
  <2> SUFFICES ASSUME NEW i \in 1 .. n PROVE u[m + i] = t[i]
    OBVIOUS
  <2>1. m + i \in 1 .. m + n /\ ~(m + i <= m) /\ (m + i) - m = i
    BY <1>3
  <2> QED
    BY ONLY <1>4, <2>1
<1>6. ASSUME NEW d, NEW p \in Nat, Len(d) \in Nat, p + Len(d) <= m, StandsAt(d, s, p)
      PROVE  StandsAt(d, u, p)
  <2> SUFFICES ASSUME NEW i \in 1 .. Len(d) PROVE u[p + i] = d[i]
    BY DEF StandsAt
  <2>1. PICK k : k = Len(d)
    OBVIOUS
  <2>2. p + i \in 1 .. m + n /\ p + i <= m
    BY ONLY <1>3, <1>6, <2>1, i \in 1 .. Len(d)
  <2>3. u[p + i] = s[p + i]
    BY ONLY <1>4, <2>2
  <2> QED
    BY <2>3, <1>6 DEF StandsAt
<1> QED
  BY <1>1, <1>2, <1>5, <1>6 DEF StandsAt

-----------------------------------------------------------------------------
(* IPv4 *)

(* A number as it is written: its digits, and what they make one by one.   *)
Digits(d, l, n) ==
    \/ n \in 0 .. 9 /\ l = 1 /\ d[1] = n
    \/ l = 2 /\ d[1] \in 1 .. 9 /\ d[2] \in 0 .. 9 /\ d[1] * 10 + d[2] = n
    \/ /\ l = 3 /\ d[1] \in 1 .. 9 /\ d[2] \in 0 .. 9 /\ d[3] \in 0 .. 9
       /\ d[1] * 10 + d[2] \in 1 .. 255 /\ (d[1] * 10 + d[2]) * 10 + d[3] = n

(* A byte has one to three digits, the first of them not 0 unless alone.   *)
LEMMA DecimalIs ==
    ASSUME NEW n \in 0 .. 255
    PROVE  /\ Decimal(n) \in Seq(0 .. 10) /\ Len(Decimal(n)) \in 1 .. 3
           /\ Digits(Decimal(n), Len(Decimal(n)), n)
<1>1. CASE n < 10
  <2>1. n \in 0 .. 10 /\ Decimal(n) = <<n>>
    BY <1>1 DEF Decimal
  <2> QED
    BY ONLY <2>1, <1>1, n \in 0 .. 255 DEF Digits
<1>2. CASE n >= 10 /\ n < 100
  <2>1. PICK a, b : a = n \div 10 /\ b = n % 10
    OBVIOUS
  <2>2. Decimal(n) = <<a, b>>
    BY <1>2, <2>1 DEF Decimal
  <2>3. a \in 1 .. 9 /\ b \in 0 .. 9 /\ a * 10 + b = n
    BY <1>2, <2>1
  <2> QED
    BY ONLY <2>2, <2>3, <1>2 DEF Digits
<1>3. CASE n >= 100
  <2>1. PICK a, b, c : a = n \div 100 /\ b = (n \div 10) % 10 /\ c = n % 10
    OBVIOUS
  <2>2. Decimal(n) = <<a, b, c>>
    BY <1>3, <2>1 DEF Decimal
  <2>3. a \in 1 .. 9 /\ b \in 0 .. 9 /\ c \in 0 .. 9
    BY <1>3, <2>1
  <2>4. a * 10 + b = n \div 10
    BY <1>3, <2>1
  <2>5. n \div 10 \in 1 .. 255 /\ (n \div 10) * 10 + c = n
    BY <1>3, <2>1
  <2>6. a * 10 + b \in 1 .. 255 /\ (a * 10 + b) * 10 + c = n
    BY ONLY <2>4, <2>5
  <2>7. a \in 0 .. 10 /\ b \in 0 .. 10 /\ c \in 0 .. 10
    BY <2>3
  <2> QED
    BY ONLY <2>2, <2>3, <2>6, <2>7 DEF Digits
<1> QED
  BY <1>1, <1>2, <1>3

(* The state of the loop while it reads an address.                        *)
State4(bytes, octets, saw) ==
    [bytes |-> bytes, octets |-> octets, saw_digit |-> saw, ok |-> TRUE]

(* Before the first digit of a number, and after it.                       *)
Between4(bytes, octets) == State4(bytes, octets, FALSE)
Within4(bytes, octets)  == State4(bytes, octets, TRUE)

(* inet_pton4 takes a digit to the number it is reading.                   *)
LEMMA DigitRead ==
    ASSUME NEW c \in Seq(0 .. 255), NEW x \in 0 .. 255, NEW o \in 0 .. 4, NEW saw \in BOOLEAN,
           NEW ch \in 0 .. 9, x * 10 + ch <= 255, ~(saw /\ x = 0), saw \/ o < 4
    PROVE  Pton4Step(State4(Append(c, x), o, saw), ch)
               = State4(Append(c, x * 10 + ch), IF saw THEN o ELSE o + 1, TRUE)
<1>1. PICK b : b = Append(c, x)
  OBVIOUS
<1>2. Len(b) = Len(c) + 1 /\ b[Len(b)] = x /\ Len(c) \in Nat
  BY <1>1
<1>3. PICK nw, e : nw = x * 10 + ch /\ e = [b EXCEPT ![Len(b)] = nw]
  OBVIOUS
<1>4. e = Append(c, nw)
  <2>1. nw \in 0 .. 255 /\ b \in Seq(0 .. 255)
    BY <1>1, <1>3
  <2>2. PICK m : m = Len(b)
    OBVIOUS
  <2>3. m \in 1 .. m /\ m \in Nat
    BY <1>2, <2>2
  <2>4. /\ e \in Seq(0 .. 255) /\ Len(e) = m
        /\ \A j \in 1 .. m : e[j] = IF j = m THEN nw ELSE b[j]
    BY ONLY <1>3, <2>1, <2>2, <2>3, ExceptSeq
  <2>5. /\ Append(c, nw) \in Seq(0 .. 255) /\ Len(Append(c, nw)) = m
        /\ \A j \in 1 .. m : Append(c, nw)[j] = IF j = m THEN nw ELSE b[j]
    BY <1>1, <1>2, <2>1, <2>2
  <2> QED
    BY ONLY <2>4, <2>5, SeqEqual
<1>5. PICK s : s = State4(b, o, saw)
  OBVIOUS
<1>6. s.bytes = b /\ s.octets = o /\ s.saw_digit = saw /\ s.ok = TRUE
  BY ONLY <1>5 DEF State4
<1>7. Pton4Step(s, ch) = Pton4Digit(s, ch)
  BY <1>6 DEF Pton4Step
<1>8. LastOf(s.bytes) = x
  BY ONLY <1>2, <1>6 DEF LastOf
<1>9. PICK oo : oo = IF saw THEN o ELSE o + 1
  OBVIOUS
<1>10. PICK r : r = [s EXCEPT !.bytes[Len(s.bytes)] = nw, !.octets = oo,
                              !.saw_digit = TRUE, !.ok = TRUE]
  OBVIOUS
<1>11. Pton4Digit(s, ch) = r
  <2>1. ~(s.saw_digit /\ LastOf(s.bytes) = 0) /\ nw <= 255 /\ (s.saw_digit \/ s.octets < 4)
    BY <1>3, <1>6, <1>8
  <2> QED
    BY <1>3, <1>6, <1>8, <1>9, <1>10, <2>1 DEF Pton4Digit
<1>12. r = State4(e, oo, TRUE)
  <2>1. r = [s EXCEPT !.bytes[Len(b)] = nw, !.octets = oo, !.saw_digit = TRUE, !.ok = TRUE]
    BY ONLY <1>6, <1>10
  <2> QED
    BY ONLY <1>3, <1>5, <2>1 DEF State4
<1> QED
  BY ONLY <1>1, <1>3, <1>4, <1>5, <1>7, <1>9, <1>11, <1>12

(* inet_pton4 takes a dot behind a number that is not the fourth.          *)
LEMMA DotRead ==
    ASSUME NEW b \in Seq(0 .. 255), NEW o \in 0 .. 3
    PROVE  Pton4Step(State4(b, o, TRUE), Dot) = State4(Append(b, 0), o, FALSE)
<1>1. PICK s, e : s = State4(b, o, TRUE) /\ e = Append(b, 0)
  OBVIOUS
<1>2. s.bytes = b /\ s.octets = o /\ s.saw_digit = TRUE /\ s.ok = TRUE
  BY ONLY <1>1 DEF State4
<1>3. Pton4Step(s, Dot) = Pton4Dot(s)
  BY ONLY <1>2 DEF Pton4Step, Dot
<1>4. (s.saw_digit /\ s.octets # 4) = TRUE
  BY <1>2
<1>5. PICK r : r = [s EXCEPT !.ok = TRUE, !.bytes = e, !.saw_digit = FALSE]
  OBVIOUS
<1>6. Pton4Dot(s) = r
  BY ONLY <1>1, <1>2, <1>4, <1>5 DEF Pton4Dot
<1>7. r = State4(e, o, FALSE)
  BY ONLY <1>1, <1>5 DEF State4
<1> QED
  BY ONLY <1>1, <1>3, <1>6, <1>7

(* A number is read digit by digit.                                        *)
NumberNext(chars, n, v, p, l, c, o) ==
    /\ n \in Nat /\ Len(chars) = n /\ v \in 0 .. 255 /\ p \in Nat
    /\ l = Len(Decimal(v)) /\ p + l <= n /\ StandsAt(Decimal(v), chars, p)
    /\ c \in Seq(0 .. 255) /\ o \in 0 .. 3
    /\ Reading4(chars)[p] = Between4(Append(c, 0), o)

(* It reads the digits of a byte as the byte.                              *)
LEMMA DecimalRead ==
    ASSUME NEW chars, NEW n, NEW v, NEW p, NEW l, NEW c, NEW o,
           NumberNext(chars, n, v, p, l, c, o)
    PROVE  Reading4(chars)[p + l] = Within4(Append(c, v), o + 1)
<1>0. /\ n \in Nat /\ Len(chars) = n /\ v \in 0 .. 255 /\ p \in Nat
      /\ l = Len(Decimal(v)) /\ p + l <= n /\ StandsAt(Decimal(v), chars, p)
      /\ c \in Seq(0 .. 255) /\ o \in 0 .. 3
      /\ Reading4(chars)[p] = Between4(Append(c, 0), o)
  BY ONLY NumberNext(chars, n, v, p, l, c, o) DEF NumberNext
<1>1. PICK d, f : d = Decimal(v) /\ f = Reading4(chars)
  OBVIOUS
<1>2. \A i \in 1 .. n : f[i] = Pton4Step(f[i - 1], chars[i])
  BY ONLY <1>0, <1>1, Reading4Is
<1>3. f[p] = State4(Append(c, 0), o, FALSE)
  BY ONLY <1>0, <1>1 DEF Between4
<1>4. l \in 1 .. 3 /\ Digits(d, l, v)
  BY ONLY Zenon, <1>0, <1>1, DecimalIs
<1>5. /\ f[p + 1] = Pton4Step(f[p], d[1])
      /\ l >= 2 => f[p + 2] = Pton4Step(f[p + 1], d[2])
      /\ l >= 3 => f[p + 3] = Pton4Step(f[p + 2], d[3])
  <2>1. \A i \in 1 .. l : chars[p + i] = d[i]
    BY ONLY <1>0, <1>1 DEF StandsAt
  <2>2. PICK q, r, s : q = p + 1 /\ r = p + 2 /\ s = p + 3
    OBVIOUS
  <2>3. /\ 1 \in 1 .. l /\ q \in 1 .. n /\ q - 1 = p
        /\ l >= 2 => 2 \in 1 .. l /\ r \in 1 .. n /\ r - 1 = q
        /\ l >= 3 => 3 \in 1 .. l /\ s \in 1 .. n /\ s - 1 = r
    BY ONLY <1>0, <1>4, <2>2
  <2>4. /\ chars[q] = d[1]
        /\ l >= 2 => chars[r] = d[2]
        /\ l >= 3 => chars[s] = d[3]
    BY ONLY <2>1, <2>2, <2>3
  <2>5. /\ f[q] = Pton4Step(f[p], d[1])
        /\ l >= 2 => f[r] = Pton4Step(f[q], d[2])
        /\ l >= 3 => f[s] = Pton4Step(f[r], d[3])
    BY ONLY <1>2, <2>3, <2>4
  <2> QED
    BY ONLY <2>2, <2>5
<1>6. \A ch \in 0 .. 9 : Pton4Step(f[p], ch) = State4(Append(c, ch), o + 1, TRUE)
  <2> SUFFICES ASSUME NEW ch \in 0 .. 9
               PROVE  Pton4Step(f[p], ch) = State4(Append(c, ch), o + 1, TRUE)
    OBVIOUS
  <2>1. /\ 0 \in 0 .. 255 /\ o \in 0 .. 4 /\ FALSE \in BOOLEAN /\ 0 * 10 + ch <= 255
        /\ ~(FALSE /\ 0 = 0) /\ (FALSE \/ o < 4) /\ 0 * 10 + ch = ch
    <3>1. o \in 0 .. 3
      BY <1>0
    <3> QED
      BY ONLY <3>1, ch \in 0 .. 9
  <2>2. Pton4Step(State4(Append(c, 0), o, FALSE), ch)
            = State4(Append(c, 0 * 10 + ch), IF FALSE THEN o ELSE o + 1, TRUE)
    BY ONLY ZenonT(40), <1>0, <2>1, ch \in 0 .. 9, DigitRead
  <2> QED
    BY ONLY <1>3, <2>1, <2>2
<1>7. \A x \in 1 .. 255, ch \in 0 .. 9 :
          x * 10 + ch <= 255 => Pton4Step(State4(Append(c, x), o + 1, TRUE), ch)
                                    = State4(Append(c, x * 10 + ch), o + 1, TRUE)
  <2> SUFFICES ASSUME NEW x \in 1 .. 255, NEW ch \in 0 .. 9, x * 10 + ch <= 255
               PROVE  Pton4Step(State4(Append(c, x), o + 1, TRUE), ch)
                          = State4(Append(c, x * 10 + ch), o + 1, TRUE)
    OBVIOUS
  <2>1. x \in 0 .. 255 /\ o + 1 \in 0 .. 4 /\ TRUE \in BOOLEAN /\ ~(TRUE /\ x = 0)
        /\ (TRUE \/ o + 1 < 4)
    <3>1. o \in 0 .. 3
      BY <1>0
    <3> QED
      BY ONLY <3>1, x \in 1 .. 255
  <2>2. Pton4Step(State4(Append(c, x), o + 1, TRUE), ch)
            = State4(Append(c, x * 10 + ch), IF TRUE THEN o + 1 ELSE (o + 1) + 1, TRUE)
    BY ONLY ZenonT(40), <1>0, <2>1, ch \in 0 .. 9, x * 10 + ch <= 255, DigitRead
  <2> QED
    BY ONLY <2>2
<1>8. CASE v \in 0 .. 9 /\ l = 1 /\ d[1] = v
  BY ONLY <1>1, <1>5, <1>6, <1>8 DEF Within4
<1>9. CASE l = 2 /\ d[1] \in 1 .. 9 /\ d[2] \in 0 .. 9 /\ d[1] * 10 + d[2] = v
  <2>0. PICK x, y, w : x = d[1] /\ y = d[2] /\ w = d[1] * 10 + d[2]
    OBVIOUS
  <2>1. d[1] \in 0 .. 9 /\ d[1] \in 1 .. 255 /\ d[1] * 10 + d[2] <= 255 /\ l >= 2
    <3>1. x \in 1 .. 9 /\ l = 2 /\ w = v
      BY ONLY <1>9, <2>0
    <3>2. x \in 0 .. 9 /\ x \in 1 .. 255 /\ w <= 255 /\ l >= 2
      BY ONLY <1>0, <3>1
    <3> QED
      BY ONLY <2>0, <3>2
  <2>2. f[p + 1] = State4(Append(c, d[1]), o + 1, TRUE)
    BY ONLY <1>5, <1>6, <2>1
  <2>3. f[p + 2] = State4(Append(c, d[1] * 10 + d[2]), o + 1, TRUE)
    BY ONLY <1>5, <1>7, <1>9, <2>1, <2>2
  <2> QED
    BY ONLY <1>1, <1>9, <2>3 DEF Within4
<1>10. CASE /\ l = 3 /\ d[1] \in 1 .. 9 /\ d[2] \in 0 .. 9 /\ d[3] \in 0 .. 9
            /\ d[1] * 10 + d[2] \in 1 .. 255 /\ (d[1] * 10 + d[2]) * 10 + d[3] = v
  <2>0. PICK x, w, u : /\ x = d[1] /\ w = d[1] * 10 + d[2]
                       /\ u = (d[1] * 10 + d[2]) * 10 + d[3]
    OBVIOUS
  <2>1. /\ d[1] \in 0 .. 9 /\ d[1] \in 1 .. 255 /\ d[1] * 10 + d[2] <= 255
        /\ (d[1] * 10 + d[2]) * 10 + d[3] <= 255 /\ l >= 2 /\ l >= 3
    <3>1. x \in 1 .. 9 /\ l = 3 /\ w \in 1 .. 255 /\ u = v
      BY ONLY <1>10, <2>0
    <3>2. x \in 0 .. 9 /\ x \in 1 .. 255 /\ w <= 255 /\ u <= 255 /\ l >= 2 /\ l >= 3
      BY ONLY SMTT(30), <1>0, <3>1
    <3> QED
      BY ONLY <2>0, <3>2
  <2>2. f[p + 1] = State4(Append(c, d[1]), o + 1, TRUE)
    BY ONLY <1>5, <1>6, <2>1
  <2>3. f[p + 2] = State4(Append(c, d[1] * 10 + d[2]), o + 1, TRUE)
    BY ONLY ZenonT(40), <1>5, <1>7, <1>10, <2>1, <2>2
  <2>4. f[p + 3] = State4(Append(c, (d[1] * 10 + d[2]) * 10 + d[3]), o + 1, TRUE)
    BY ONLY ZenonT(40), <1>5, <1>7, <1>10, <2>1, <2>3
  <2> QED
    BY ONLY <1>1, <1>10, <2>4 DEF Within4
<1> QED
  BY ONLY <1>4, <1>8, <1>9, <1>10 DEF Digits

(* The dot behind it makes room for the next one.                          *)
LEMMA PointRead ==
    ASSUME NEW chars, NEW n \in Nat, Len(chars) = n, NEW p \in Nat, p + 1 <= n,
           chars[p + 1] = Dot, NEW b \in Seq(0 .. 255), NEW o \in 0 .. 3,
           Reading4(chars)[p] = Within4(b, o)
    PROVE  Reading4(chars)[p + 1] = Between4(Append(b, 0), o)
<1>1. \A i \in 1 .. n : Reading4(chars)[i] = Pton4Step(Reading4(chars)[i - 1], chars[i])
  BY ONLY n \in Nat, Len(chars) = n, Reading4Is
<1>2. PICK q : q = p + 1
  OBVIOUS
<1>3. q \in 1 .. n /\ q - 1 = p
  BY <1>2
<1>4. Reading4(chars)[q] = Pton4Step(State4(b, o, TRUE), Dot)
  BY ONLY <1>1, <1>2, <1>3, chars[p + 1] = Dot, Reading4(chars)[p] = Within4(b, o) DEF Within4
<1> QED
  BY ONLY <1>2, <1>4, b \in Seq(0 .. 255), o \in 0 .. 3, DotRead DEF Between4

(* Seven sequences put behind each other stand where their lengths say.    *)
SevenBehind(S, x1, x2, x3, x4, x5, x6, x7, p2, p3, p4, p5, p6, p7, n, s) ==
    /\ x1 \in Seq(S) /\ x2 \in Seq(S) /\ x3 \in Seq(S) /\ x4 \in Seq(S) /\ x5 \in Seq(S)
    /\ x6 \in Seq(S) /\ x7 \in Seq(S)
    /\ p2 = Len(x1) /\ p3 = p2 + Len(x2) /\ p4 = p3 + Len(x3) /\ p5 = p4 + Len(x4)
    /\ p6 = p5 + Len(x5) /\ p7 = p6 + Len(x6) /\ n = p7 + Len(x7)
    /\ s = x1 \o x2 \o x3 \o x4 \o x5 \o x6 \o x7

(* Where the parts of the text begin: four numbers and three dots.         *)
LEMMA SevenParts ==
    ASSUME NEW S, NEW x1, NEW x2, NEW x3, NEW x4, NEW x5, NEW x6, NEW x7,
           NEW p2, NEW p3, NEW p4, NEW p5, NEW p6, NEW p7, NEW n, NEW s,
           SevenBehind(S, x1, x2, x3, x4, x5, x6, x7, p2, p3, p4, p5, p6, p7, n, s)
    PROVE  /\ s \in Seq(S) /\ Len(s) = n
           /\ StandsAt(x1, s, 0) /\ StandsAt(x2, s, p2) /\ StandsAt(x3, s, p3)
           /\ StandsAt(x4, s, p4) /\ StandsAt(x5, s, p5) /\ StandsAt(x6, s, p6)
           /\ StandsAt(x7, s, p7)
<1>0. /\ x1 \in Seq(S) /\ x2 \in Seq(S) /\ x3 \in Seq(S) /\ x4 \in Seq(S) /\ x5 \in Seq(S)
      /\ x6 \in Seq(S) /\ x7 \in Seq(S)
      /\ p2 = Len(x1) /\ p3 = p2 + Len(x2) /\ p4 = p3 + Len(x3) /\ p5 = p4 + Len(x4)
      /\ p6 = p5 + Len(x5) /\ p7 = p6 + Len(x6) /\ n = p7 + Len(x7)
      /\ s = x1 \o x2 \o x3 \o x4 \o x5 \o x6 \o x7
  BY DEF SevenBehind
<1>1. PICK s2, s3, s4, s5, s6 : /\ s2 = x1 \o x2 /\ s3 = s2 \o x3 /\ s4 = s3 \o x4
                                /\ s5 = s4 \o x5 /\ s6 = s5 \o x6
  OBVIOUS
<1>2. s = s6 \o x7
  BY ONLY <1>0, <1>1
<1>3. PICK m1, m2, m3, m4, m5, m6, m7 :
          /\ m1 = Len(x1) /\ m2 = Len(x2) /\ m3 = Len(x3) /\ m4 = Len(x4) /\ m5 = Len(x5)
          /\ m6 = Len(x6) /\ m7 = Len(x7)
  OBVIOUS
<1>4. /\ p2 \in Nat /\ p3 \in Nat /\ p4 \in Nat /\ p5 \in Nat /\ p6 \in Nat /\ p7 \in Nat
      /\ 0 \in Nat
      /\ m1 \in Nat /\ m2 \in Nat /\ m3 \in Nat /\ m4 \in Nat /\ m5 \in Nat /\ m6 \in Nat
      /\ m7 \in Nat
      /\ p2 = m1 /\ p3 = p2 + m2 /\ p4 = p3 + m3 /\ p5 = p4 + m4 /\ p6 = p5 + m5
      /\ p7 = p6 + m6 /\ n = p7 + m7
  <2>1. /\ m1 \in Nat /\ m2 \in Nat /\ m3 \in Nat /\ m4 \in Nat /\ m5 \in Nat /\ m6 \in Nat
        /\ m7 \in Nat
    BY ONLY <1>0, <1>3, LenProperties
  <2>2. /\ p2 = m1 /\ p3 = p2 + m2 /\ p4 = p3 + m3 /\ p5 = p4 + m4 /\ p6 = p5 + m5
        /\ p7 = p6 + m6 /\ n = p7 + m7
    BY ONLY <1>0, <1>3
  <2> QED
    BY ONLY <2>1, <2>2
<1>5. StandsAt(x1, x1, 0)
  <2>1. \A i \in 1 .. Len(x1) : 0 + i = i
    BY <1>3, <1>4
  <2> QED
    BY ONLY <2>1 DEF StandsAt
<1>6. /\ s2 \in Seq(S) /\ Len(s2) = p3
      /\ StandsAt(x1, s2, 0) /\ StandsAt(x2, s2, p2)
  <2>1. x1 \in Seq(S) /\ Len(x1) = p2
    BY <1>0, <1>5
  <2>2. /\ x1 \o x2 \in Seq(S) /\ Len(x1 \o x2) = Len(x1) + Len(x2)
        /\ StandsAt(x2, x1 \o x2, Len(x1))
        /\ \A d, p : p \in Nat /\ Len(d) \in Nat /\ p + Len(d) <= Len(x1) /\ StandsAt(d, x1, p)
              => StandsAt(d, x1 \o x2, p)
    BY ONLY <1>0, <2>1, Appended
  <2>3. s2 = x1 \o x2
    BY ONLY <1>1
  <2>4. /\ 0 + m1 <= p2
    BY ONLY <1>4
  <2> QED
    BY ONLY <1>0, <1>3, <1>4, <1>5, <2>1, <2>2, <2>3, <2>4
<1>7. /\ s3 \in Seq(S) /\ Len(s3) = p4
      /\ StandsAt(x1, s3, 0) /\ StandsAt(x2, s3, p2) /\ StandsAt(x3, s3, p3)
  <2>1. s2 \in Seq(S) /\ Len(s2) = p3
    BY <1>6
  <2>2. /\ s2 \o x3 \in Seq(S) /\ Len(s2 \o x3) = Len(s2) + Len(x3)
        /\ StandsAt(x3, s2 \o x3, Len(s2))
        /\ \A d, p : p \in Nat /\ Len(d) \in Nat /\ p + Len(d) <= Len(s2) /\ StandsAt(d, s2, p)
              => StandsAt(d, s2 \o x3, p)
    BY ONLY <1>0, <2>1, Appended
  <2>3. s3 = s2 \o x3
    BY ONLY <1>1
  <2>4. /\ 0 + m1 <= p3
        /\ p2 + m2 <= p3
    BY ONLY <1>4
  <2> QED
    BY ONLY <1>0, <1>3, <1>4, <1>6, <2>1, <2>2, <2>3, <2>4
<1>8. /\ s4 \in Seq(S) /\ Len(s4) = p5
      /\ StandsAt(x1, s4, 0) /\ StandsAt(x2, s4, p2) /\ StandsAt(x3, s4, p3)
      /\ StandsAt(x4, s4, p4)
  <2>1. s3 \in Seq(S) /\ Len(s3) = p4
    BY <1>7
  <2>2. /\ s3 \o x4 \in Seq(S) /\ Len(s3 \o x4) = Len(s3) + Len(x4)
        /\ StandsAt(x4, s3 \o x4, Len(s3))
        /\ \A d, p : p \in Nat /\ Len(d) \in Nat /\ p + Len(d) <= Len(s3) /\ StandsAt(d, s3, p)
              => StandsAt(d, s3 \o x4, p)
    BY ONLY <1>0, <2>1, Appended
  <2>3. s4 = s3 \o x4
    BY ONLY <1>1
  <2>4. /\ 0 + m1 <= p4
        /\ p2 + m2 <= p4
        /\ p3 + m3 <= p4
    BY ONLY <1>4
  <2> QED
    BY ONLY <1>0, <1>3, <1>4, <1>7, <2>1, <2>2, <2>3, <2>4
<1>9. /\ s5 \in Seq(S) /\ Len(s5) = p6
      /\ StandsAt(x1, s5, 0) /\ StandsAt(x2, s5, p2) /\ StandsAt(x3, s5, p3)
      /\ StandsAt(x4, s5, p4) /\ StandsAt(x5, s5, p5)
  <2>1. s4 \in Seq(S) /\ Len(s4) = p5
    BY <1>8
  <2>2. /\ s4 \o x5 \in Seq(S) /\ Len(s4 \o x5) = Len(s4) + Len(x5)
        /\ StandsAt(x5, s4 \o x5, Len(s4))
        /\ \A d, p : p \in Nat /\ Len(d) \in Nat /\ p + Len(d) <= Len(s4) /\ StandsAt(d, s4, p)
              => StandsAt(d, s4 \o x5, p)
    BY ONLY <1>0, <2>1, Appended
  <2>3. s5 = s4 \o x5
    BY ONLY <1>1
  <2>4. /\ 0 + m1 <= p5
        /\ p2 + m2 <= p5
        /\ p3 + m3 <= p5
        /\ p4 + m4 <= p5
    BY ONLY <1>4
  <2> QED
    BY ONLY <1>0, <1>3, <1>4, <1>8, <2>1, <2>2, <2>3, <2>4
<1>10. /\ s6 \in Seq(S) /\ Len(s6) = p7
      /\ StandsAt(x1, s6, 0) /\ StandsAt(x2, s6, p2) /\ StandsAt(x3, s6, p3)
      /\ StandsAt(x4, s6, p4) /\ StandsAt(x5, s6, p5) /\ StandsAt(x6, s6, p6)
  <2>1. s5 \in Seq(S) /\ Len(s5) = p6
    BY <1>9
  <2>2. /\ s5 \o x6 \in Seq(S) /\ Len(s5 \o x6) = Len(s5) + Len(x6)
        /\ StandsAt(x6, s5 \o x6, Len(s5))
        /\ \A d, p : p \in Nat /\ Len(d) \in Nat /\ p + Len(d) <= Len(s5) /\ StandsAt(d, s5, p)
              => StandsAt(d, s5 \o x6, p)
    BY ONLY <1>0, <2>1, Appended
  <2>3. s6 = s5 \o x6
    BY ONLY <1>1
  <2>4. /\ 0 + m1 <= p6
        /\ p2 + m2 <= p6
        /\ p3 + m3 <= p6
        /\ p4 + m4 <= p6
        /\ p5 + m5 <= p6
    BY ONLY <1>4
  <2> QED
    BY ONLY <1>0, <1>3, <1>4, <1>9, <2>1, <2>2, <2>3, <2>4
<1>11. /\ s \in Seq(S) /\ Len(s) = n
      /\ StandsAt(x1, s, 0) /\ StandsAt(x2, s, p2) /\ StandsAt(x3, s, p3)
      /\ StandsAt(x4, s, p4) /\ StandsAt(x5, s, p5) /\ StandsAt(x6, s, p6)
      /\ StandsAt(x7, s, p7)
  <2>1. s6 \in Seq(S) /\ Len(s6) = p7
    BY <1>10
  <2>2. /\ s6 \o x7 \in Seq(S) /\ Len(s6 \o x7) = Len(s6) + Len(x7)
        /\ StandsAt(x7, s6 \o x7, Len(s6))
        /\ \A d, p : p \in Nat /\ Len(d) \in Nat /\ p + Len(d) <= Len(s6) /\ StandsAt(d, s6, p)
              => StandsAt(d, s6 \o x7, p)
    BY ONLY <1>0, <2>1, Appended
  <2>3. s = s6 \o x7
    BY ONLY <1>2
  <2>4. /\ 0 + m1 <= p7
        /\ p2 + m2 <= p7
        /\ p3 + m3 <= p7
        /\ p4 + m4 <= p7
        /\ p5 + m5 <= p7
        /\ p6 + m6 <= p7
    BY ONLY <1>4
  <2> QED
    BY ONLY <1>0, <1>3, <1>4, <1>10, <2>1, <2>2, <2>3, <2>4
<1> QED
  BY ONLY <1>11

(* What inet_ntop4 writes: it fits, and its numbers and dots are met one    *)
(* after the other.                                                        *)
Places4(a, s, l1, l2, l3, l4, p2, p3, p4, n) ==
    /\ a \in [1 .. 4 -> 0 .. 255] /\ s = Ntop4(a)
    /\ l1 = Len(Decimal(a[1])) /\ l2 = Len(Decimal(a[2])) /\ l3 = Len(Decimal(a[3]))
    /\ l4 = Len(Decimal(a[4])) /\ p2 = l1 + 1 /\ p3 = p2 + l2 + 1 /\ p4 = p3 + l3 + 1
    /\ n = p4 + l4

(* The text of an IPv4 address, character by character.                    *)
LEMMA Ntop4Is ==
    ASSUME NEW a, NEW s, NEW l1, NEW l2, NEW l3, NEW l4, NEW p2, NEW p3, NEW p4, NEW n,
           Places4(a, s, l1, l2, l3, l4, p2, p3, p4, n)
    PROVE  /\ s \in Seq(0 .. 10) /\ Len(s) = n /\ n \in 7 .. 15
           /\ l1 \in 1 .. 3 /\ l2 \in 1 .. 3 /\ l3 \in 1 .. 3 /\ l4 \in 1 .. 3
           /\ StandsAt(Decimal(a[1]), s, 0) /\ StandsAt(Decimal(a[2]), s, p2)
           /\ StandsAt(Decimal(a[3]), s, p3) /\ StandsAt(Decimal(a[4]), s, p4)
           /\ s[l1 + 1] = Dot /\ s[p2 + l2 + 1] = Dot /\ s[p3 + l3 + 1] = Dot
<1>0. /\ a \in [1 .. 4 -> 0 .. 255] /\ s = Ntop4(a)
      /\ l1 = Len(Decimal(a[1])) /\ l2 = Len(Decimal(a[2])) /\ l3 = Len(Decimal(a[3]))
      /\ l4 = Len(Decimal(a[4])) /\ p2 = l1 + 1 /\ p3 = p2 + l2 + 1 /\ p4 = p3 + l3 + 1
      /\ n = p4 + l4
  BY DEF Places4
<1>1. PICK d1, d2, d3, d4, t : /\ d1 = Decimal(a[1]) /\ d2 = Decimal(a[2]) /\ d3 = Decimal(a[3])
                               /\ d4 = Decimal(a[4]) /\ t = <<Dot>>
  OBVIOUS
<1>2. a[1] \in 0 .. 255 /\ a[2] \in 0 .. 255 /\ a[3] \in 0 .. 255 /\ a[4] \in 0 .. 255
  BY <1>0
<1>3. /\ d1 \in Seq(0 .. 10) /\ d2 \in Seq(0 .. 10) /\ d3 \in Seq(0 .. 10) /\ d4 \in Seq(0 .. 10)
      /\ l1 \in 1 .. 3 /\ l2 \in 1 .. 3 /\ l3 \in 1 .. 3 /\ l4 \in 1 .. 3
  BY ONLY ZenonT(40), <1>0, <1>1, <1>2, DecimalIs
<1>4. t \in Seq(0 .. 10) /\ Len(t) = 1 /\ t[1] = Dot
  BY ONLY <1>1 DEF Dot
<1>5. PICK q2, q3, q4, q5, q6, q7, m :
          /\ q2 = Len(d1) /\ q3 = q2 + Len(t) /\ q4 = q3 + Len(d2) /\ q5 = q4 + Len(t)
          /\ q6 = q5 + Len(d3) /\ q7 = q6 + Len(t) /\ m = q7 + Len(d4)
  OBVIOUS
<1>6. s = d1 \o t \o d2 \o t \o d3 \o t \o d4
  BY ONLY <1>0, <1>1 DEF Ntop4
<1>7. /\ s \in Seq(0 .. 10) /\ Len(s) = m
      /\ StandsAt(d1, s, 0) /\ StandsAt(t, s, q2) /\ StandsAt(d2, s, q3)
      /\ StandsAt(t, s, q4) /\ StandsAt(d3, s, q5) /\ StandsAt(t, s, q6)
      /\ StandsAt(d4, s, q7)
  <2>1. SevenBehind(0 .. 10, d1, t, d2, t, d3, t, d4, q2, q3, q4, q5, q6, q7, m, s)
    BY ONLY <1>3, <1>4, <1>5, <1>6 DEF SevenBehind
  <2> QED
    BY ONLY <2>1, SevenParts
<1>8. /\ q2 = l1 /\ q3 = p2 /\ q4 = p2 + l2 /\ q5 = p3 /\ q6 = p3 + l3 /\ q7 = p4 /\ m = n
      /\ n \in 7 .. 15
  <2>1. Len(d1) = l1 /\ Len(d2) = l2 /\ Len(d3) = l3 /\ Len(d4) = l4 /\ Len(t) = 1
    BY ONLY <1>0, <1>1, <1>4
  <2>2. /\ q2 = l1 /\ q3 = q2 + 1 /\ q4 = q3 + l2 /\ q5 = q4 + 1
        /\ q6 = q5 + l3 /\ q7 = q6 + 1 /\ m = q7 + l4
    BY ONLY <1>5, <2>1
  <2>3. l1 \in 1 .. 3 /\ l2 \in 1 .. 3 /\ l3 \in 1 .. 3 /\ l4 \in 1 .. 3
    BY <1>3
  <2>4. p2 = l1 + 1 /\ p3 = p2 + l2 + 1 /\ p4 = p3 + l3 + 1 /\ n = p4 + l4
    BY <1>0
  <2> QED
    BY ONLY <2>2, <2>3, <2>4
<1>9. \A q : StandsAt(t, s, q) => s[q + 1] = Dot
  <2>1. 1 \in 1 .. Len(t)
    BY <1>4
  <2> QED
    BY ONLY <1>4, <2>1 DEF StandsAt
<1> QED
  BY ONLY <1>1, <1>3, <1>7, <1>8, <1>9

(* It is read back by inet_pton4.                                          *)
LEMMA Inet4RoundTrip ==
    ASSUME NEW a \in [1 .. 4 -> 0 .. 255]
    PROVE  /\ Pton4(Ntop4(a)) = a /\ Len(Ntop4(a)) < AddrStrLen4 /\ Len(Ntop4(a)) \in 1 .. 15
<1>1. PICK s, l1, l2, l3, l4 :
          /\ s = Ntop4(a) /\ l1 = Len(Decimal(a[1])) /\ l2 = Len(Decimal(a[2]))
          /\ l3 = Len(Decimal(a[3])) /\ l4 = Len(Decimal(a[4]))
  OBVIOUS
<1>2. PICK p1, p2, p3, p4, n : p1 = 0 /\ p2 = l1 + 1 /\ p3 = p2 + l2 + 1 /\ p4 = p3 + l3 + 1 /\ n = p4 + l4
  OBVIOUS
<1>3. /\ s \in Seq(0 .. 10) /\ Len(s) = n /\ n \in 7 .. 15
      /\ l1 \in 1 .. 3 /\ l2 \in 1 .. 3 /\ l3 \in 1 .. 3 /\ l4 \in 1 .. 3
      /\ StandsAt(Decimal(a[1]), s, 0) /\ StandsAt(Decimal(a[2]), s, p2)
      /\ StandsAt(Decimal(a[3]), s, p3) /\ StandsAt(Decimal(a[4]), s, p4)
      /\ s[l1 + 1] = Dot /\ s[p2 + l2 + 1] = Dot /\ s[p3 + l3 + 1] = Dot
  <2>1. Places4(a, s, l1, l2, l3, l4, p2, p3, p4, n)
    BY ONLY <1>1, <1>2, a \in [1 .. 4 -> 0 .. 255] DEF Places4
  <2> QED
    BY ONLY <2>1, Ntop4Is
<1>4. a[1] \in 0 .. 255 /\ a[2] \in 0 .. 255 /\ a[3] \in 0 .. 255 /\ a[4] \in 0 .. 255
  OBVIOUS
<1>5. PICK f : f = Reading4(s)
  OBVIOUS
<1>6. /\ n \in Nat /\ p1 \in Nat /\ p2 \in Nat /\ p3 \in Nat /\ p4 \in Nat
      /\ p1 + l1 \in Nat /\ p2 + l2 \in Nat /\ p3 + l3 \in Nat /\ p1 + l1 = l1
      /\ p1 + l1 <= n /\ p1 + l1 + 1 <= n /\ p2 + l2 <= n /\ p2 + l2 + 1 <= n
      /\ p3 + l3 <= n /\ p3 + l3 + 1 <= n /\ p4 + l4 <= n
      /\ 0 + 1 = 1 /\ 1 + 1 = 2 /\ 2 + 1 = 3 /\ 3 + 1 = 4
      /\ 0 \in 0 .. 3 /\ 1 \in 0 .. 3 /\ 2 \in 0 .. 3 /\ 3 \in 0 .. 3
  <2>1. l1 \in 1 .. 3 /\ l2 \in 1 .. 3 /\ l3 \in 1 .. 3 /\ l4 \in 1 .. 3
    BY <1>3
  <2> QED
    BY ONLY <1>2, <2>1
<1>7. PICK b0, b1, b2, b3, b4 : /\ b0 = <<>> /\ b1 = Append(b0, a[1]) /\ b2 = Append(b1, a[2])
                            /\ b3 = Append(b2, a[3]) /\ b4 = Append(b3, a[4])
  OBVIOUS
<1>8. /\ b0 \in Seq(0 .. 255) /\ b1 \in Seq(0 .. 255) /\ b2 \in Seq(0 .. 255)
      /\ b3 \in Seq(0 .. 255) /\ b4 \in Seq(0 .. 255) /\ Len(b4) = 4
      /\ b4[1] = a[1] /\ b4[2] = a[2] /\ b4[3] = a[3] /\ b4[4] = a[4]
  <2>1. b0 \in Seq(0 .. 255) /\ Len(b0) = 0
    BY ONLY <1>7
  <2>2. b1 \in Seq(0 .. 255) /\ Len(b1) = 1 /\ b1[1] = a[1]
    BY ONLY <1>4, <1>7, <2>1
  <2>3. b2 \in Seq(0 .. 255) /\ Len(b2) = 2 /\ b2[1] = a[1] /\ b2[2] = a[2]
    BY ONLY SMTT(30), <1>4, <1>7, <2>2
  <2>4. b3 \in Seq(0 .. 255) /\ Len(b3) = 3 /\ b3[1] = a[1] /\ b3[2] = a[2] /\ b3[3] = a[3]
    BY ONLY SMTT(30), <1>4, <1>7, <2>3
  <2>5. /\ b4 \in Seq(0 .. 255) /\ Len(b4) = 4
        /\ b4[1] = a[1] /\ b4[2] = a[2] /\ b4[3] = a[3] /\ b4[4] = a[4]
    BY ONLY <1>4, <1>7, <2>4
  <2> QED
    BY ONLY <2>1, <2>2, <2>3, <2>4, <2>5
<1>9. f[p1] = Between4(Append(b0, 0), 0)
  <2>1. f[0] = Pton4Start
    BY ONLY <1>3, <1>5, <1>6, Reading4Is
  <2>2. Pton4Start = State4(<<0>>, 0, FALSE)
    BY DEF Pton4Start, State4
  <2>3. Append(b0, 0) = <<0>>
    BY <1>7
  <2> QED
    BY ONLY <1>2, <2>1, <2>2, <2>3 DEF Between4
<1>10. f[p1 + l1] = Within4(b1, 1)
  <2>1. NumberNext(s, n, a[1], p1, l1, b0, 0)
    BY ONLY <1>1, <1>3, <1>4, <1>5, <1>6, <1>8, <1>9 DEF NumberNext
  <2>2. Reading4(s)[p1 + l1] = Within4(Append(b0, a[1]), 0 + 1)
    BY ONLY <2>1, DecimalRead
  <2> QED
    BY ONLY <1>5, <1>6, <1>7, <2>2
<1>11. f[p2] = Between4(Append(b1, 0), 1)
  <2>1. /\ n \in Nat /\ Len(s) = n /\ p1 + l1 \in Nat /\ p1 + l1 + 1 <= n
        /\ s[p1 + l1 + 1] = Dot /\ b1 \in Seq(0 .. 255) /\ 1 \in 0 .. 3
        /\ Reading4(s)[p1 + l1] = Within4(b1, 1)
    BY ONLY <1>3, <1>5, <1>6, <1>8, <1>10
  <2>2. Reading4(s)[p1 + l1 + 1] = Between4(Append(b1, 0), 1)
    BY ONLY <2>1, PointRead
  <2> QED
    BY ONLY <1>2, <1>5, <1>6, <2>2
<1>12. f[p2 + l2] = Within4(b2, 2)
  <2>1. NumberNext(s, n, a[2], p2, l2, b1, 1)
    BY ONLY <1>1, <1>3, <1>4, <1>5, <1>6, <1>8, <1>11 DEF NumberNext
  <2>2. Reading4(s)[p2 + l2] = Within4(Append(b1, a[2]), 1 + 1)
    BY ONLY <2>1, DecimalRead
  <2> QED
    BY ONLY <1>5, <1>6, <1>7, <2>2
<1>13. f[p3] = Between4(Append(b2, 0), 2)
  <2>1. /\ n \in Nat /\ Len(s) = n /\ p2 + l2 \in Nat /\ p2 + l2 + 1 <= n
        /\ s[p2 + l2 + 1] = Dot /\ b2 \in Seq(0 .. 255) /\ 2 \in 0 .. 3
        /\ Reading4(s)[p2 + l2] = Within4(b2, 2)
    BY ONLY <1>3, <1>5, <1>6, <1>8, <1>12
  <2>2. Reading4(s)[p2 + l2 + 1] = Between4(Append(b2, 0), 2)
    BY ONLY <2>1, PointRead
  <2> QED
    BY ONLY <1>2, <1>5, <1>6, <2>2
<1>14. f[p3 + l3] = Within4(b3, 3)
  <2>1. NumberNext(s, n, a[3], p3, l3, b2, 2)
    BY ONLY <1>1, <1>3, <1>4, <1>5, <1>6, <1>8, <1>13 DEF NumberNext
  <2>2. Reading4(s)[p3 + l3] = Within4(Append(b2, a[3]), 2 + 1)
    BY ONLY <2>1, DecimalRead
  <2> QED
    BY ONLY <1>5, <1>6, <1>7, <2>2
<1>15. f[p4] = Between4(Append(b3, 0), 3)
  <2>1. /\ n \in Nat /\ Len(s) = n /\ p3 + l3 \in Nat /\ p3 + l3 + 1 <= n
        /\ s[p3 + l3 + 1] = Dot /\ b3 \in Seq(0 .. 255) /\ 3 \in 0 .. 3
        /\ Reading4(s)[p3 + l3] = Within4(b3, 3)
    BY ONLY <1>3, <1>5, <1>6, <1>8, <1>14
  <2>2. Reading4(s)[p3 + l3 + 1] = Between4(Append(b3, 0), 3)
    BY ONLY <2>1, PointRead
  <2> QED
    BY ONLY <1>2, <1>5, <1>6, <2>2
<1>16. f[p4 + l4] = Within4(b4, 4)
  <2>1. NumberNext(s, n, a[4], p4, l4, b3, 3)
    BY ONLY <1>1, <1>3, <1>4, <1>5, <1>6, <1>8, <1>15 DEF NumberNext
  <2>2. Reading4(s)[p4 + l4] = Within4(Append(b3, a[4]), 3 + 1)
    BY ONLY <2>1, DecimalRead
  <2> QED
    BY ONLY <1>5, <1>6, <1>7, <2>2
<1>17. f[Len(s)] = Within4(b4, 4)
  BY ONLY <1>2, <1>3, <1>16
<1>18. Pton4(s) = SubSeq(b4, 1, 4)
  <2>1. PICK st : st = f[Len(s)]
    OBVIOUS
  <2>2. st.ok = TRUE /\ st.octets = 4 /\ st.bytes = b4
    BY ONLY <1>17, <2>1 DEF State4, Within4
  <2> QED
    BY ONLY <1>5, <2>1, <2>2 DEF Pton4
<1>19. SubSeq(b4, 1, 4) = a
  <2>1. \A i \in 1 .. 4 : i = 1 \/ i = 2 \/ i = 3 \/ i = 4
    OBVIOUS
  <2>2. PICK z : z = SubSeq(b4, 1, 4)
    OBVIOUS
  <2>3. z = [i \in 1 .. 4 |-> b4[i]]
    BY ONLY <1>8, <2>2
  <2>4. \A i \in 1 .. 4 : b4[i] = a[i]
    BY ONLY <1>8, <2>1
  <2>5. a = [i \in 1 .. 4 |-> a[i]]
    OBVIOUS
  <2> QED
    BY ONLY <2>2, <2>3, <2>4, <2>5
<1> QED
  <2>1. n \in 1 .. 15 /\ n < AddrStrLen4
    BY ONLY <1>3 DEF AddrStrLen4
  <2> QED
    BY ONLY <1>1, <1>3, <1>18, <1>19, <2>1

-----------------------------------------------------------------------------
(* IPv6: what inet_pton6 makes of the tokens one by one. *)

(* Between two groups, behind the digits of one, and behind a dotted form. *)
BetweenWords(b, gap) == [words |-> b, gap |-> gap, seen |-> 0, val |-> 0, done |-> FALSE, ok |-> TRUE]
Pending(b, gap, w) ==
    [words |-> b, gap |-> gap, seen |-> HexLen(w), val |-> w, done |-> FALSE, ok |-> TRUE]
Ended(b, gap) == [words |-> b, gap |-> gap, seen |-> 0, val |-> 0, done |-> TRUE, ok |-> TRUE]

(* A word is a number of 16 bits.                                          *)
LEMMA WordIs ==
    ASSUME NEW w \in Word
    PROVE  w \in Nat /\ w \in Int /\ 0 <= w /\ w <= 65535
<1>1. MaxWord \in Nat /\ MaxWord = 65535
  BY DEF MaxWord
<1>2. w \in 0 .. MaxWord
  BY DEF Word
<1>3. w \in Nat /\ w \in Int /\ 0 <= w /\ w <= MaxWord
  <2>1. MaxWord \in Nat
    BY <1>1
  <2> QED
    BY ONLY <1>2, <2>1
<1> QED
  BY ONLY <1>1, <1>3

(* The token of a word: one to four digits.                                *)
LEMMA HexIs ==
    ASSUME NEW w \in Word
    PROVE  /\ HexLen(w) \in 1 .. 4 /\ Hex(w).kind = "hex" /\ Hex(w).len = HexLen(w)
           /\ Hex(w).words[1] = w
<1>1. w \in Nat /\ w <= 65535
  BY ONLY w \in Word, WordIs
<1>2. PICK n, ws : n = HexLen(w) /\ ws = <<w>>
  OBVIOUS
<1>3. n \in 1 .. 4
  BY ONLY <1>1, <1>2 DEF HexLen
<1>4. PICK t : t = [kind |-> "hex", words |-> ws, len |-> n, first |-> n]
  OBVIOUS
<1>5. Hex(w) = t
  BY ONLY <1>2, <1>4 DEF Hex, Token
<1>6. t.kind = "hex" /\ t.len = n /\ t.words = ws
  BY ONLY <1>4
<1>7. ws[1] = w
  BY ONLY <1>2
<1> QED
  BY ONLY <1>2, <1>3, <1>5, <1>6, <1>7

(* Digits behind a colon: their value is the word.                         *)
LEMMA HexMet ==
    ASSUME NEW tokens, NEW i, NEW b, NEW gap, NEW w \in Word, tokens[i] = Hex(w)
    PROVE  Pton6Step(tokens, BetweenWords(b, gap), i) = Pending(b, gap, w)
<1>1. PICK s, n : s = BetweenWords(b, gap) /\ n = HexLen(w)
  OBVIOUS
<1>0. s = BetweenWords(b, gap)
  BY <1>1
<1>2. s.seen = 0 /\ s.val = 0 /\ s.done = FALSE /\ s.ok = TRUE
  BY ONLY <1>0 DEF BetweenWords
<1>3. n \in 1 .. 4 /\ Hex(w).kind = "hex" /\ Hex(w).len = n /\ Hex(w).words[1] = w
  BY ONLY <1>1, w \in Word, HexIs
<1>4. Pton6Step(tokens, s, i) = Pton6Hex(s, Hex(w))
  BY ONLY <1>2, <1>3, tokens[i] = Hex(w) DEF Pton6Step
<1>5. PICK r : r = [s EXCEPT !.val = w, !.seen = n]
  OBVIOUS
<1>6. Pton6Hex(s, Hex(w)) = r
  <2>1. 0 * Shift[n] + w = w
    <3>1. n = 1 \/ n = 2 \/ n = 3 \/ n = 4
      BY <1>3
    <3>2. Shift[n] \in Nat
      BY ONLY <3>1 DEF Shift
    <3>3. w \in Nat
      BY ONLY w \in Word, WordIs
    <3> QED
      BY ONLY <3>2, <3>3
  <2>2. ~(0 + n > 4) /\ 0 + n = n
    BY <1>3
  <2> QED
    BY ONLY <1>2, <1>3, <1>5, <2>1, <2>2 DEF Pton6Hex
<1>7. r = Pending(b, gap, w)
  BY ONLY <1>1, <1>5 DEF BetweenWords, Pending
<1> QED
  BY ONLY <1>1, <1>4, <1>6, <1>7

(* What Stored6 does with the digits of a group.                           *)
LEMMA StoredIs ==
    ASSUME NEW b, NEW gap, NEW w, Len(b) < 8
    PROVE  Stored6(Pending(b, gap, w)) = BetweenWords(Append(b, w), gap)
<1>1. PICK s, e : s = Pending(b, gap, w) /\ e = Append(b, w)
  OBVIOUS
<1>2. s.words = b /\ s.val = w
  BY ONLY <1>1 DEF Pending
<1>3. (Len(b) < 8) = TRUE
  OBVIOUS
<1>4. PICK r : r = [s EXCEPT !.words = e, !.seen = 0, !.val = 0, !.ok = TRUE]
  OBVIOUS
<1>5. Stored6(s) = r
  BY ONLY <1>1, <1>2, <1>3, <1>4 DEF Stored6
<1>6. r = BetweenWords(e, gap)
  BY ONLY <1>1, <1>4 DEF Pending, BetweenWords
<1> QED
  BY ONLY <1>1, <1>5, <1>6

(* A colon is one character.                                               *)
LEMMA ColonIs == Colon.kind = "colon" /\ Colon.len = 1
  BY DEF Colon, Token

(* A colon behind a group stores it, if more follows.                      *)
LEMMA ColonStores ==
    ASSUME NEW tokens, NEW i, NEW b, NEW gap, NEW w \in Word, tokens[i] = Colon,
           i # Len(tokens), Len(b) < 8
    PROVE  Pton6Step(tokens, Pending(b, gap, w), i) = BetweenWords(Append(b, w), gap)
<1>1. PICK s : s = Pending(b, gap, w)
  OBVIOUS
<1>2. s.seen = HexLen(w) /\ s.done = FALSE /\ s.ok = TRUE
  <2>1. PICK n : n = HexLen(w)
    OBVIOUS
  <2>2. s = [words |-> b, gap |-> gap, seen |-> n, val |-> w, done |-> FALSE, ok |-> TRUE]
    BY ONLY <1>1, <2>1 DEF Pending
  <2>3. s.seen = n /\ s.done = FALSE /\ s.ok = TRUE
    BY ONLY <2>2
  <2> QED
    BY ONLY <2>1, <2>3
<1>3. s.seen # 0
  BY <1>2, HexIs
<1>4. (i = Len(tokens)) = FALSE
  OBVIOUS
<1>5. Pton6Step(tokens, s, i) = Pton6Colon(s, i = Len(tokens))
  BY ONLY <1>2, tokens[i] = Colon, ColonIs DEF Pton6Step
<1>6. Pton6Colon(s, i = Len(tokens)) = Stored6(s)
  BY ONLY <1>3, <1>4 DEF Pton6Colon
<1>7. Stored6(Pending(b, gap, w)) = BetweenWords(Append(b, w), gap)
  BY StoredIs
<1> QED
  BY ONLY <1>1, <1>5, <1>6, <1>7

(* A colon behind another one marks the gap.                               *)
LEMMA ColonMarks ==
    ASSUME NEW tokens, NEW i, NEW b, tokens[i] = Colon
    PROVE  Pton6Step(tokens, BetweenWords(b, NoGap), i) = BetweenWords(b, Len(b))
<1>1. PICK s, m : s = BetweenWords(b, NoGap) /\ m = Len(b)
  OBVIOUS
<1>2. s.words = b /\ s.gap = NoGap /\ s.seen = 0 /\ s.done = FALSE /\ s.ok = TRUE
  BY ONLY <1>1 DEF BetweenWords
<1>3. Pton6Step(tokens, s, i) = Pton6Colon(s, i = Len(tokens))
  BY ONLY <1>2, tokens[i] = Colon, ColonIs DEF Pton6Step
<1>4. PICK r : r = [s EXCEPT !.gap = m]
  OBVIOUS
<1>5. Pton6Colon(s, i = Len(tokens)) = r
  BY ONLY <1>1, <1>2, <1>4 DEF Pton6Colon
<1>6. r = BetweenWords(b, m)
  BY ONLY <1>1, <1>4 DEF BetweenWords
<1> QED
  BY ONLY <1>1, <1>3, <1>5, <1>6

(* The token of a dotted form: fifteen characters at most.                 *)
LEMMA QuadIs ==
    ASSUME NEW h \in Word, NEW l \in Word
    PROVE  /\ Quad(h, l).kind = "quad" /\ Quad(h, l).words = <<h, l>>
           /\ Quad(h, l).first \in 1 .. 3 /\ Quad(h, l).len \in 1 .. 15
<1>1. PICK a : a = Bytes(h, l)
  OBVIOUS
<1>2. PICK x, y, z, u : x = h \div 256 /\ y = h % 256 /\ z = l \div 256 /\ u = l % 256
  OBVIOUS
<1>3. x \in 0 .. 255 /\ y \in 0 .. 255 /\ z \in 0 .. 255 /\ u \in 0 .. 255
  <2>0. h \in Int /\ 0 <= h /\ h <= 65535 /\ l \in Int /\ 0 <= l /\ l <= 65535
    BY ONLY h \in Word, l \in Word, WordIs
  <2>1. h \div 256 \in 0 .. 255
    BY ONLY <2>0
  <2>2. h % 256 \in 0 .. 255
    BY ONLY <2>0
  <2>3. l \div 256 \in 0 .. 255
    BY ONLY <2>0
  <2>4. l % 256 \in 0 .. 255
    BY ONLY <2>0
  <2> QED
    BY ONLY <1>2, <2>1, <2>2, <2>3, <2>4
<1>4. a \in [1 .. 4 -> 0 .. 255]
  <2>1. a = <<x, y, z, u>>
    BY ONLY <1>1, <1>2 DEF Bytes
  <2> QED
    BY ONLY <1>3, <2>1
<1>5. Len(Ntop4(a)) \in 1 .. 15
  BY ONLY <1>4, Inet4RoundTrip
<1>6. Len(Decimal(h \div 256)) \in 1 .. 3
  BY ONLY ZenonT(40), <1>2, <1>3, DecimalIs
<1>7. PICK n, m, ws : /\ n = Len(Ntop4(Bytes(h, l))) /\ m = Len(Decimal(h \div 256))
                     /\ ws = <<h, l>>
  OBVIOUS
<1>8. PICK t : t = [kind |-> "quad", words |-> ws, len |-> n, first |-> m]
  OBVIOUS
<1>9. Quad(h, l) = t
  BY ONLY <1>7, <1>8 DEF Quad, Token
<1>10. n \in 1 .. 15 /\ m \in 1 .. 3
  BY ONLY <1>1, <1>5, <1>6, <1>7
<1>11. t.kind = "quad" /\ t.words = ws /\ t.first = m /\ t.len = n
  BY ONLY <1>8
<1> QED
  <2>1. t.kind = "quad" /\ t.words = <<h, l>>
    BY ONLY <1>7, <1>11
  <2>2. t.first \in 1 .. 3 /\ t.len \in 1 .. 15
    BY ONLY <1>10, <1>11
  <2> QED
    BY ONLY <1>9, <2>1, <2>2

(* A dotted form at the end adds its two words.                            *)
LEMMA QuadMet ==
    ASSUME NEW tokens, NEW i, NEW b, NEW gap, NEW h \in Word, NEW l \in Word,
           tokens[i] = Quad(h, l), i = Len(tokens), Len(b) <= 6
    PROVE  Pton6Step(tokens, BetweenWords(b, gap), i) = Ended(b \o <<h, l>>, gap)
<1>1. PICK s, e, t : s = BetweenWords(b, gap) /\ e = b \o <<h, l>> /\ t = Quad(h, l)
  OBVIOUS
<1>2. s.words = b /\ s.seen = 0 /\ s.done = FALSE /\ s.ok = TRUE
  BY ONLY <1>1 DEF BetweenWords
<1>3. t.kind = "quad" /\ t.words = <<h, l>> /\ t.first \in 1 .. 3
  BY ONLY <1>1, h \in Word, l \in Word, QuadIs
<1>4. (i = Len(tokens)) = TRUE
  OBVIOUS
<1>5. Pton6Step(tokens, s, i) = Pton6Quad(s, t, i = Len(tokens))
  BY ONLY <1>1, <1>2, <1>3, tokens[i] = Quad(h, l) DEF Pton6Step
<1>6. PICK r : r = [s EXCEPT !.words = e, !.seen = 0, !.done = TRUE]
  OBVIOUS
<1>7. Pton6Quad(s, t, i = Len(tokens)) = r
  <2>1. 0 + t.first <= 4
    BY <1>3
  <2> QED
    BY ONLY <1>1, <1>2, <1>3, <1>4, <1>6, <2>1, Len(b) <= 6 DEF Pton6Quad
<1>8. r = Ended(e, gap)
  BY ONLY <1>1, <1>6 DEF BetweenWords, Ended
<1> QED
  BY ONLY <1>1, <1>5, <1>7, <1>8

Address6 == [1 .. 8 -> Word]

(* The words outside the run of l zero words behind the first g.           *)
KeptAt(words, g, l, j) == IF j <= g THEN words[j] ELSE words[l + j]
StoredWords(b, words, g, l, m) ==
    /\ b \in Seq(Word) /\ Len(b) = m
    /\ \A j \in 1 .. m : b[j] = KeptAt(words, g, l, j)

(* A word is stored behind those of before.                                *)
LEMMA StoredMore ==
    ASSUME NEW words, NEW g, NEW l, NEW m \in Nat, NEW b, NEW w \in Word,
           StoredWords(b, words, g, l, m), w = KeptAt(words, g, l, m + 1)
    PROVE  StoredWords(Append(b, w), words, g, l, m + 1)
<1>1. b \in Seq(Word) /\ Len(b) = m /\ \A j \in 1 .. m : b[j] = KeptAt(words, g, l, j)
  BY ONLY StoredWords(b, words, g, l, m) DEF StoredWords
<1>2. PICK e : e = Append(b, w)
  OBVIOUS
<1>3. /\ e \in Seq(Word) /\ Len(e) = m + 1
      /\ \A j \in 1 .. m + 1 : e[j] = IF j = m + 1 THEN w ELSE b[j]
  <2>1. /\ Append(b, w) \in Seq(Word) /\ Len(Append(b, w)) = Len(b) + 1
        /\ \A j \in 1 .. Len(b) : Append(b, w)[j] = b[j]
        /\ Append(b, w)[Len(b) + 1] = w
    BY ONLY <1>1, w \in Word, AppendProperties
  <2>2. \A j \in 1 .. m + 1 : j = m + 1 \/ (j \in 1 .. m /\ j # m + 1)
    OBVIOUS
  <2> QED
    BY ONLY <1>1, <1>2, <2>1, <2>2
<1>4. \A j \in 1 .. m + 1 : e[j] = KeptAt(words, g, l, j)
  <2>1. \A j \in 1 .. m + 1 : j = m + 1 \/ (j \in 1 .. m /\ j # m + 1)
    OBVIOUS
  <2> QED
    BY ONLY <1>1, <1>3, <2>1, w = KeptAt(words, g, l, m + 1)
<1> QED
  BY ONLY <1>2, <1>3, <1>4 DEF StoredWords

(* Two tokens for each of them: in front of the gap a group and the colon  *)
(* behind it, behind the gap a colon and the group.                        *)
PairAt(u, words, g, l, q) ==
    IF q <= g THEN u[2 * q - 1] = Hex(words[q]) /\ u[2 * q] = Colon
    ELSE u[2 * q - 1] = Colon /\ u[2 * q] = Hex(words[l + q])

(* The first m of them are in u, with more behind them in front of the gap. *)
ShowsPairs(u, n, words, g, l, m) ==
    /\ n \in Nat /\ Len(u) = n /\ words \in Address6
    /\ g \in Nat /\ l \in Nat /\ m \in Nat /\ g <= 8 /\ l + m <= 8 /\ m <= 7
    /\ IF m <= g THEN 2 * m < n ELSE 2 * m <= n
    /\ \A q \in 1 .. m : PairAt(u, words, g, l, q)

ReadTo(f, words, g, l, q) ==
    IF q <= g THEN \E b : StoredWords(b, words, g, l, q) /\ f[2 * q] = BetweenWords(b, NoGap)
    ELSE \E b : StoredWords(b, words, g, l, q - 1) /\ f[2 * q] = Pending(b, g, words[l + q])

(* A colon that comes where a group could begin.                           *)
LEMMA GapRead ==
    ASSUME NEW u, NEW n, NEW words, NEW g, NEW l, NEW m, NEW q, NEW i,
           ShowsPairs(u, n, words, g, l, m), q \in Nat, q <= m, g <= q, i = 2 * q + 1,
           i <= n, u[i] = Colon, q = g \/ i # n, ReadTo(Reading6(u), words, g, l, q)
    PROVE  \E b : StoredWords(b, words, g, l, q) /\ Reading6(u)[i] = BetweenWords(b, g)
<1>1. /\ n \in Nat /\ Len(u) = n /\ words \in Address6
      /\ g \in Nat /\ l \in Nat /\ m \in Nat /\ g <= 8 /\ l + m <= 8 /\ m <= 7
  BY ONLY ShowsPairs(u, n, words, g, l, m) DEF ShowsPairs
<1>2. PICK f, k : f = Reading6(u) /\ k = 2 * q
  OBVIOUS
<1>3. \A h \in 1 .. n : f[h] = Pton6Step(u, f[h - 1], h)
  BY ONLY <1>1, <1>2, Reading6Is
<1>4. i \in 1 .. n /\ i - 1 = k
  BY ONLY <1>1, <1>2, q \in Nat, i = 2 * q + 1, i <= n
<1>5. f[i] = Pton6Step(u, f[k], i)
  BY ONLY <1>3, <1>4
<1>6. IF q <= g THEN \E b : StoredWords(b, words, g, l, q) /\ f[k] = BetweenWords(b, NoGap)
      ELSE \E b : StoredWords(b, words, g, l, q - 1) /\ f[k] = Pending(b, g, words[l + q])
  BY ONLY <1>2, ReadTo(Reading6(u), words, g, l, q) DEF ReadTo
<1>7. CASE q <= g
  <2>1. PICK b : StoredWords(b, words, g, l, q) /\ f[k] = BetweenWords(b, NoGap)
    BY ONLY <1>6, <1>7
  <2>2. q = g
    BY ONLY <1>1, <1>7, q \in Nat, g <= q
  <2>3. Len(b) = g
    BY ONLY <2>1, <2>2 DEF StoredWords
  <2>4. f[i] = BetweenWords(b, Len(b))
    BY ONLY <1>5, <2>1, u[i] = Colon, ColonMarks
  <2> QED
    BY ONLY <1>2, <2>1, <2>3, <2>4
<1>8. CASE ~(q <= g)
  <2>1. PICK b : StoredWords(b, words, g, l, q - 1) /\ f[k] = Pending(b, g, words[l + q])
    BY ONLY <1>6, <1>8
  <2>2. PICK r, w : r = q - 1 /\ w = words[l + q]
    OBVIOUS
  <2>3. r \in Nat /\ r + 1 = q /\ l + q \in 1 .. 8 /\ r < 8
    BY ONLY <1>1, <1>8, <2>2, q \in Nat, q <= m
  <2>4. w \in Word
    BY ONLY <1>1, <2>2, <2>3 DEF Address6
  <2>5. Len(b) < 8
    BY ONLY <2>1, <2>2, <2>3 DEF StoredWords
  <2>6. i # Len(u)
    BY ONLY <1>1, <1>8, q = g \/ i # n
  <2>7. f[i] = BetweenWords(Append(b, w), g)
    BY ONLY <1>5, <2>1, <2>2, <2>4, <2>5, <2>6, u[i] = Colon, ColonStores
  <2>8. w = KeptAt(words, g, l, r + 1)
    BY ONLY <1>8, <2>2, <2>3 DEF KeptAt
  <2>9. StoredWords(Append(b, w), words, g, l, r + 1)
    BY ONLY <2>1, <2>2, <2>3, <2>4, <2>8, StoredMore
  <2> QED
    BY ONLY <1>2, <2>3, <2>7, <2>9
<1> QED
  BY ONLY <1>7, <1>8

(* What reading a group and its colon does.                                *)
LEMMA PairRead ==
    ASSUME NEW u, NEW n, NEW words, NEW g, NEW l, NEW m, NEW q,
           ShowsPairs(u, n, words, g, l, m), q \in Nat, q < m,
           ReadTo(Reading6(u), words, g, l, q)
    PROVE  ReadTo(Reading6(u), words, g, l, q + 1)
<1>1. /\ n \in Nat /\ Len(u) = n /\ words \in Address6
      /\ g \in Nat /\ l \in Nat /\ m \in Nat /\ g <= 8 /\ l + m <= 8 /\ m <= 7
      /\ IF m <= g THEN 2 * m < n ELSE 2 * m <= n
      /\ \A k \in 1 .. m : PairAt(u, words, g, l, k)
  BY ONLY ShowsPairs(u, n, words, g, l, m) DEF ShowsPairs
<1>2. PICK f : f = Reading6(u)
  OBVIOUS
<1>3. \A i \in 1 .. n : f[i] = Pton6Step(u, f[i - 1], i)
  BY ONLY <1>1, <1>2, Reading6Is
<1>4. PICK p, k, i, j : p = q + 1 /\ k = 2 * q /\ i = k + 1 /\ j = k + 2
  OBVIOUS
<1>5. /\ p \in 1 .. m /\ 2 * p = j /\ 2 * p - 1 = i /\ i - 1 = k /\ j - 1 = i
      /\ i \in 1 .. n /\ j \in 1 .. n /\ i # n /\ p - 1 = q
      /\ p <= g => j # n
  BY ONLY <1>1, <1>4, q \in Nat, q < m
<1>6. f[i] = Pton6Step(u, f[k], i) /\ f[j] = Pton6Step(u, f[i], j)
  BY ONLY <1>3, <1>5
<1>7. IF p <= g THEN u[i] = Hex(words[p]) /\ u[j] = Colon
      ELSE u[i] = Colon /\ u[j] = Hex(words[l + p])
  <2>1. PairAt(u, words, g, l, p)
    BY ONLY <1>1, <1>5
  <2> QED
    BY ONLY <1>5, <2>1 DEF PairAt
<1>8. IF q <= g THEN \E b : StoredWords(b, words, g, l, q) /\ f[k] = BetweenWords(b, NoGap)
      ELSE \E b : StoredWords(b, words, g, l, q - 1) /\ f[k] = Pending(b, g, words[l + q])
  BY ONLY <1>2, <1>4, ReadTo(Reading6(u), words, g, l, q) DEF ReadTo
<1>9. CASE p <= g
  <2>1. q <= g /\ q < 8 /\ p \in 1 .. 8
    BY ONLY <1>1, <1>4, <1>5, <1>9, q \in Nat
  <2>2. PICK b : StoredWords(b, words, g, l, q) /\ f[k] = BetweenWords(b, NoGap)
    BY ONLY <1>8, <2>1
  <2>3. words[p] \in Word
    BY ONLY <1>1, <2>1 DEF Address6
  <2>4. u[i] = Hex(words[p]) /\ u[j] = Colon
    BY ONLY <1>7, <1>9
  <2>5. f[i] = Pending(b, NoGap, words[p])
    BY ONLY <1>6, <2>2, <2>3, <2>4, HexMet
  <2>6. Len(b) < 8
    BY ONLY <2>1, <2>2 DEF StoredWords
  <2>7. j # Len(u)
    BY ONLY <1>1, <1>5, <1>9
  <2>8. f[j] = BetweenWords(Append(b, words[p]), NoGap)
    BY ONLY <1>6, <2>3, <2>4, <2>5, <2>6, <2>7, ColonStores
  <2>9. words[p] = KeptAt(words, g, l, q + 1)
    BY ONLY <1>4, <1>9 DEF KeptAt
  <2>10. StoredWords(Append(b, words[p]), words, g, l, q + 1)
    BY ONLY <2>2, <2>3, <2>9, q \in Nat, StoredMore
  <2>11. q + 1 <= g /\ 2 * (q + 1) = j
    BY ONLY <1>4, <1>5, <1>9
  <2> QED
    BY ONLY <1>2, <2>8, <2>10, <2>11 DEF ReadTo
<1>10. CASE ~(p <= g)
  <2>1. u[i] = Colon /\ u[j] = Hex(words[l + p])
    BY ONLY <1>7, <1>10
  <2>2. l + p \in 1 .. 8
    BY ONLY <1>1, <1>5
  <2>3. words[l + p] \in Word
    BY ONLY <1>1, <2>2 DEF Address6
  <2>4. \E b : StoredWords(b, words, g, l, q) /\ f[i] = BetweenWords(b, g)
    <3>1. q <= m /\ g <= q /\ i = 2 * q + 1 /\ i <= n /\ (q = g \/ i # n)
      BY ONLY <1>1, <1>4, <1>5, <1>10, q \in Nat, q < m
    <3> QED
      BY ONLY <1>2, <2>1, <3>1, q \in Nat, ShowsPairs(u, n, words, g, l, m),
              ReadTo(Reading6(u), words, g, l, q), GapRead
  <2>5. PICK b : StoredWords(b, words, g, l, q) /\ f[i] = BetweenWords(b, g)
    BY ONLY <2>4
  <2>6. f[j] = Pending(b, g, words[l + p])
    BY ONLY <1>6, <2>1, <2>3, <2>5, HexMet
  <2>7. ~(p <= g) /\ 2 * p = j /\ p - 1 = q
    BY ONLY <1>5, <1>10
  <2>8. ReadTo(f, words, g, l, p)
    BY ONLY <2>5, <2>6, <2>7 DEF ReadTo
  <2> QED
    BY ONLY <1>2, <1>4, <2>8
<1> QED
  BY ONLY <1>9, <1>10

(* So all the groups with their colons are read, one after the other.      *)
LEMMA PairsRead ==
    ASSUME NEW u, NEW n, NEW words, NEW g, NEW l, NEW m, ShowsPairs(u, n, words, g, l, m)
    PROVE  ReadTo(Reading6(u), words, g, l, m)
<1> DEFINE P == {q \in Nat : q <= m => ReadTo(Reading6(u), words, g, l, q)}
<1>1. n \in Nat /\ Len(u) = n /\ m \in Nat /\ g \in Nat
  BY ONLY ShowsPairs(u, n, words, g, l, m) DEF ShowsPairs
<1>2. 0 \in P
  <2>1. Reading6(u)[0] = Pton6Start
    BY ONLY <1>1, Reading6Is
  <2>2. PICK b : b = <<>>
    OBVIOUS
  <2>3. Pton6Start = BetweenWords(b, NoGap)
    BY ONLY <2>2 DEF Pton6Start, BetweenWords
  <2>4. StoredWords(b, words, g, l, 0)
    BY ONLY <2>2 DEF StoredWords
  <2>5. 0 <= g /\ 2 * 0 = 0
    BY <1>1
  <2>6. ReadTo(Reading6(u), words, g, l, 0)
    BY ONLY <2>1, <2>3, <2>4, <2>5 DEF ReadTo
  <2> QED
    BY <2>6
<1>3. ASSUME NEW q \in Nat, q \in P PROVE q + 1 \in P
  <2> SUFFICES ASSUME q + 1 <= m PROVE ReadTo(Reading6(u), words, g, l, q + 1)
    OBVIOUS
  <2>1. q < m /\ q <= m
    BY <1>1
  <2>2. ReadTo(Reading6(u), words, g, l, q)
    BY <1>3, <2>1
  <2> QED
    BY ONLY <2>1, <2>2, q \in Nat, ShowsPairs(u, n, words, g, l, m), PairRead
<1>4. \A q \in Nat : q \in P
  <2> HIDE DEF P
  <2> QED
    BY ONLY <1>2, <1>3, Induct
<1>5. m <= m
  BY <1>1
<1> QED
  BY <1>1, <1>4, <1>5
(* The texts that inet_ntop6 writes, without a colon in front of ::, and   *)
(* the dotted form of an address without zeros.                            *)
IsPlain(u, words, g, l) ==
    /\ g = 8 /\ l = 0 /\ ShowsPairs(u, 15, words, 8, 0, 7) /\ u[15] = Hex(words[8])

IsDottedText(u, words, g, l) ==
    /\ g = 8 /\ l = 0 /\ ShowsPairs(u, 13, words, 8, 0, 6)
    /\ u[13] = Quad(words[7], words[8])

(* The run may be in front of other words, at the end, or in front of a    *)
(* dotted form.                                                            *)
IsInner(u, words, g, l, c) ==
    g < c /\ ShowsPairs(u, 2 * c, words, g, l, c)
IsAtEnd(u, words, g, l, c) ==
    g = c /\ ShowsPairs(u, 2 * c + 1, words, g, l, c) /\ u[2 * c + 1] = Colon
IsEncapsulated(u, words, g, l, c) ==
    /\ g = 0 /\ (c = 2 \/ c = 3) /\ ShowsPairs(u, 2 * c - 2, words, g, l, c - 2)
    /\ u[2 * c - 3] = Colon /\ u[2 * c - 2] = Quad(words[7], words[8])

IsShortened(u, words, g, l) ==
    /\ l \in Nat /\ l >= 2 /\ \A j \in 1 .. l : words[g + j] = 0
    /\ \E c \in Nat : /\ c + l = 8 /\ g <= c
                      /\ \/ IsInner(u, words, g, l, c)
                         \/ IsAtEnd(u, words, g, l, c)
                         \/ IsEncapsulated(u, words, g, l, c)

Displays(u, words, g, l) ==
    \/ IsPlain(u, words, g, l)
    \/ IsDottedText(u, words, g, l)
    \/ IsShortened(u, words, g, l)

(* What inet_pton6 has stored at the end of the text, or is about to.      *)
EndsWith(s, b, gap) ==
    \/ s = BetweenWords(b, gap) \/ s = Ended(b, gap)
    \/ \E e, w : s = Pending(e, gap, w) /\ w \in Word /\ Len(e) < 8 /\ b = Append(e, w)

(* A text without :: is read to eight words.                               *)
LEMMA PlainRead ==
    ASSUME NEW u, NEW words, IsPlain(u, words, 8, 0)
    PROVE  \E b : StoredWords(b, words, 8, 0, 8) /\ EndsWith(Reading6(u)[Len(u)], b, NoGap)
<1>1. ShowsPairs(u, 15, words, 8, 0, 7) /\ u[15] = Hex(words[8])
  BY ONLY IsPlain(u, words, 8, 0) DEF IsPlain
<1>2. Len(u) = 15 /\ words \in Address6
  BY ONLY <1>1 DEF ShowsPairs
<1>3. PICK f, w : f = Reading6(u) /\ w = words[8]
  OBVIOUS
<1>4. ReadTo(f, words, 8, 0, 7)
  BY ONLY <1>1, <1>3, PairsRead
<1>5. 7 <= 8 /\ 2 * 7 = 14 /\ 15 \in Nat /\ 15 \in 1 .. 15 /\ 15 - 1 = 14 /\ 7 < 8 /\ 7 \in Nat
      /\ 7 + 1 = 8 /\ 8 <= 8 /\ 8 \in 1 .. 8
  OBVIOUS
<1>6. PICK e : StoredWords(e, words, 8, 0, 7) /\ f[14] = BetweenWords(e, NoGap)
  BY ONLY <1>4, <1>5 DEF ReadTo
<1>7. w \in Word
  BY ONLY <1>2, <1>3, <1>5 DEF Address6
<1>8. f[15] = Pton6Step(u, f[14], 15)
  BY ONLY <1>2, <1>3, <1>5, Reading6Is
<1>9. f[15] = Pending(e, NoGap, w)
  BY ONLY <1>1, <1>3, <1>6, <1>7, <1>8, HexMet
<1>10. w = KeptAt(words, 8, 0, 7 + 1)
  BY ONLY <1>3, <1>5 DEF KeptAt
<1>11. StoredWords(Append(e, w), words, 8, 0, 7 + 1)
  BY ONLY <1>5, <1>6, <1>7, <1>10, StoredMore
<1>12. Len(e) < 8
  BY ONLY <1>5, <1>6 DEF StoredWords
<1> QED
  BY ONLY <1>2, <1>3, <1>5, <1>7, <1>9, <1>11, <1>12 DEF EndsWith

(* The two words of a dotted form are stored.                              *)
LEMMA HoldsTwo ==
    ASSUME NEW words, NEW g, NEW l, NEW m \in Nat, NEW b, NEW v \in Word, NEW w \in Word,
           StoredWords(b, words, g, l, m), v = KeptAt(words, g, l, m + 1),
           w = KeptAt(words, g, l, m + 2)
    PROVE  StoredWords(b \o <<v, w>>, words, g, l, m + 2)
<1>1. b \in Seq(Word) /\ Len(b) = m /\ \A j \in 1 .. m : b[j] = KeptAt(words, g, l, j)
  BY ONLY StoredWords(b, words, g, l, m) DEF StoredWords
<1>2. PICK t, e : t = <<v, w>> /\ e = b \o t
  OBVIOUS
<1>3. t \in Seq(Word) /\ Len(t) = 2 /\ t[1] = v /\ t[2] = w
  BY ONLY <1>2, v \in Word, w \in Word
<1>4. /\ e \in Seq(Word) /\ Len(e) = m + 2
      /\ \A i \in 1 .. m + 2 : e[i] = IF i <= m THEN b[i] ELSE t[i - m]
  BY ONLY <1>1, <1>2, <1>3, ConcatProperties
<1>5. \A j \in 1 .. m + 2 : e[j] = KeptAt(words, g, l, j)
  <2>1. PICK p, q : p = m + 1 /\ q = m + 2
    OBVIOUS
  <2>2. /\ p \in 1 .. m + 2 /\ q \in 1 .. m + 2 /\ ~(p <= m) /\ ~(q <= m)
        /\ p - m = 1 /\ q - m = 2
    BY <2>1
  <2>3. e[p] = v /\ e[q] = w
    BY ONLY <1>3, <1>4, <2>2
  <2>4. \A j \in 1 .. m + 2 : j = p \/ j = q \/ (j \in 1 .. m /\ j <= m)
    BY <2>1
  <2> QED
    BY ONLY <1>1, <1>4, <2>1, <2>3, <2>4, v = KeptAt(words, g, l, m + 1),
            w = KeptAt(words, g, l, m + 2)
<1> QED
  BY ONLY <1>2, <1>4, <1>5 DEF StoredWords

(* A text that ends with a dotted form, without ::.                        *)
LEMMA DottedRead ==
    ASSUME NEW u, NEW words, IsDottedText(u, words, 8, 0)
    PROVE  \E b : StoredWords(b, words, 8, 0, 8) /\ EndsWith(Reading6(u)[Len(u)], b, NoGap)
<1>1. ShowsPairs(u, 13, words, 8, 0, 6) /\ u[13] = Quad(words[7], words[8])
  BY ONLY IsDottedText(u, words, 8, 0) DEF IsDottedText
<1>2. Len(u) = 13 /\ words \in Address6
  BY ONLY <1>1 DEF ShowsPairs
<1>3. PICK f, v, w : f = Reading6(u) /\ v = words[7] /\ w = words[8]
  OBVIOUS
<1>4. ReadTo(f, words, 8, 0, 6)
  BY ONLY <1>1, <1>3, PairsRead
<1>5. 6 <= 8 /\ 2 * 6 = 12 /\ 13 \in Nat /\ 13 \in 1 .. 13 /\ 13 - 1 = 12 /\ 6 <= 6 /\ 6 \in Nat
      /\ 6 + 1 = 7 /\ 6 + 2 = 8 /\ 7 <= 8 /\ 8 <= 8 /\ 7 \in 1 .. 8 /\ 8 \in 1 .. 8
  OBVIOUS
<1>6. PICK b : StoredWords(b, words, 8, 0, 6) /\ f[12] = BetweenWords(b, NoGap)
  BY ONLY <1>4, <1>5 DEF ReadTo
<1>7. v \in Word /\ w \in Word
  BY ONLY <1>2, <1>3, <1>5 DEF Address6
<1>8. f[13] = Pton6Step(u, f[12], 13)
  BY ONLY <1>2, <1>3, <1>5, Reading6Is
<1>9. Len(b) <= 6
  BY ONLY <1>5, <1>6 DEF StoredWords
<1>10. f[13] = Ended(b \o <<v, w>>, NoGap)
  <2>0. PICK i, gap : i = 13 /\ gap = NoGap
    OBVIOUS
  <2>1. v \in Word /\ w \in Word /\ u[i] = Quad(v, w) /\ i = Len(u) /\ Len(b) <= 6
    BY ONLY <1>1, <1>2, <1>3, <1>7, <1>9, <2>0
  <2>2. Pton6Step(u, BetweenWords(b, gap), i) = Ended(b \o <<v, w>>, gap)
    BY ONLY <2>1, QuadMet
  <2> QED
    BY ONLY <1>6, <1>8, <2>0, <2>2
<1>11. v = KeptAt(words, 8, 0, 6 + 1) /\ w = KeptAt(words, 8, 0, 6 + 2)
  <2>1. v = KeptAt(words, 8, 0, 7)
    BY <1>3 DEF KeptAt
  <2>2. w = KeptAt(words, 8, 0, 8)
    BY <1>3 DEF KeptAt
  <2> QED
    BY ONLY <2>1, <2>2, <1>5
<1>12. StoredWords(b \o <<v, w>>, words, 8, 0, 6 + 2)
  BY ONLY <1>5, <1>6, <1>7, <1>11, HoldsTwo
<1> QED
  BY ONLY <1>2, <1>3, <1>5, <1>10, <1>12 DEF EndsWith

(* A text with :: and more groups behind it.                               *)
LEMMA InnerRead ==
    ASSUME NEW u, NEW words, NEW g, NEW l, NEW c, IsInner(u, words, g, l, c), c + l = 8,
           l >= 2
    PROVE  \E b : StoredWords(b, words, g, l, c) /\ EndsWith(Reading6(u)[Len(u)], b, g)
<1>1. g < c /\ ShowsPairs(u, 2 * c, words, g, l, c)
  BY ONLY IsInner(u, words, g, l, c) DEF IsInner
<1>2. /\ Len(u) = 2 * c /\ words \in Address6 /\ g \in Nat /\ l \in Nat /\ c \in Nat
  BY ONLY <1>1 DEF ShowsPairs
<1>3. PICK f, w, r : f = Reading6(u) /\ w = words[l + c] /\ r = c - 1
  OBVIOUS
<1>4. ReadTo(f, words, g, l, c)
  BY ONLY <1>1, <1>3, PairsRead
<1>5. ~(c <= g) /\ r \in Nat /\ r + 1 = c /\ l + c \in 1 .. 8 /\ r < 8
  BY ONLY <1>1, <1>2, <1>3, c + l = 8
<1>6. PICK e : StoredWords(e, words, g, l, r) /\ f[2 * c] = Pending(e, g, w)
  BY ONLY <1>3, <1>4, <1>5 DEF ReadTo
<1>7. w \in Word
  BY ONLY <1>2, <1>3, <1>5 DEF Address6
<1>8. w = KeptAt(words, g, l, r + 1)
  BY ONLY <1>3, <1>5 DEF KeptAt
<1>9. StoredWords(Append(e, w), words, g, l, r + 1)
  BY ONLY <1>5, <1>6, <1>7, <1>8, StoredMore
<1>10. Len(e) < 8
  BY ONLY <1>5, <1>6 DEF StoredWords
<1> QED
  BY ONLY <1>2, <1>3, <1>5, <1>6, <1>7, <1>9, <1>10 DEF EndsWith

(* A text that ends with ::.                                               *)
LEMMA AtEndRead ==
    ASSUME NEW u, NEW words, NEW g, NEW l, NEW c, IsAtEnd(u, words, g, l, c), c + l = 8,
           l >= 2
    PROVE  \E b : StoredWords(b, words, g, l, c) /\ EndsWith(Reading6(u)[Len(u)], b, g)
<1>1. g = c /\ ShowsPairs(u, 2 * c + 1, words, g, l, c) /\ u[2 * c + 1] = Colon
  BY ONLY IsAtEnd(u, words, g, l, c) DEF IsAtEnd
<1>2. PICK i : i = 2 * c + 1
  OBVIOUS
<1>3. /\ Len(u) = i /\ words \in Address6 /\ g \in Nat /\ l \in Nat /\ c \in Nat
  BY ONLY <1>1, <1>2 DEF ShowsPairs
<1>4. ReadTo(Reading6(u), words, g, l, c)
  BY ONLY <1>1, PairsRead
<1>5. /\ c <= c /\ g <= c /\ i <= i
  BY ONLY <1>1, <1>2, <1>3
<1>6. PICK b : StoredWords(b, words, g, l, c) /\ Reading6(u)[i] = BetweenWords(b, g)
  BY ONLY <1>1, <1>2, <1>3, <1>4, <1>5, GapRead
<1> QED
  BY ONLY <1>3, <1>6 DEF EndsWith

(* A text with :: in front and a dotted form at the end.                   *)
LEMMA EncapsulatedRead ==
    ASSUME NEW u, NEW words, NEW g, NEW l, NEW c, IsEncapsulated(u, words, g, l, c),
           c + l = 8, l >= 2
    PROVE  \E b : StoredWords(b, words, g, l, c) /\ EndsWith(Reading6(u)[Len(u)], b, g)
<1>1. PICK n, m, i : n = 2 * c - 2 /\ m = c - 2 /\ i = 2 * c - 3
  OBVIOUS
<1>2. /\ g = 0 /\ (c = 2 \/ c = 3) /\ ShowsPairs(u, n, words, g, l, m)
      /\ u[i] = Colon /\ u[n] = Quad(words[7], words[8])
  BY ONLY <1>1, IsEncapsulated(u, words, g, l, c) DEF IsEncapsulated
<1>3. /\ Len(u) = n /\ words \in Address6 /\ l \in Nat
  BY ONLY <1>2 DEF ShowsPairs
<1>4. /\ m \in Nat /\ m <= m /\ g <= m /\ i = 2 * m + 1 /\ i <= n /\ i # n /\ n \in Nat
      /\ n \in 1 .. n /\ n - 1 = i /\ m <= 6 /\ m + 2 = c
      /\ l + (m + 1) = 7 /\ l + (m + 2) = 8 /\ ~(m + 1 <= g) /\ ~(m + 2 <= g)
      /\ 7 \in 1 .. 8 /\ 8 \in 1 .. 8
  <2>1. CASE c = 2
    BY ONLY <1>1, <1>2, <1>3, <2>1, c + l = 8
  <2>2. CASE c = 3
    BY ONLY <1>1, <1>2, <1>3, <2>2, c + l = 8
  <2> QED
    BY ONLY <1>2, <2>1, <2>2
<1>5. ReadTo(Reading6(u), words, g, l, m)
  BY ONLY <1>2, PairsRead
<1>6. PICK b : StoredWords(b, words, g, l, m) /\ Reading6(u)[i] = BetweenWords(b, g)
  BY ONLY <1>2, <1>4, <1>5, GapRead
<1>7. PICK v, w : v = words[7] /\ w = words[8]
  OBVIOUS
<1>8. v \in Word /\ w \in Word
  BY ONLY <1>3, <1>4, <1>7 DEF Address6
<1>9. Reading6(u)[n] = Pton6Step(u, Reading6(u)[i], n)
  BY ONLY <1>3, <1>4, Reading6Is
<1>10. Len(b) <= 6
  BY ONLY <1>4, <1>6 DEF StoredWords
<1>11. Reading6(u)[n] = Ended(b \o <<v, w>>, g)
  BY ONLY <1>2, <1>3, <1>6, <1>7, <1>8, <1>9, <1>10, QuadMet
<1>12. v = KeptAt(words, g, l, m + 1) /\ w = KeptAt(words, g, l, m + 2)
  BY ONLY <1>4, <1>7 DEF KeptAt
<1>13. StoredWords(b \o <<v, w>>, words, g, l, m + 2)
  BY ONLY <1>4, <1>6, <1>8, <1>12, HoldsTwo
<1> QED
  BY ONLY <1>3, <1>4, <1>11, <1>13 DEF EndsWith

LastStored(s) == IF s.ok /\ s.seen # 0 THEN Stored6(s) ELSE s

(* A group that is pending at the end of the text is stored.               *)
LEMMA LastIs ==
    ASSUME NEW s, NEW b, NEW gap, EndsWith(s, b, gap)
    PROVE  LastStored(s).ok = TRUE /\ LastStored(s).words = b /\ LastStored(s).gap = gap
<1>0. PICK last : last = LastStored(s)
  OBVIOUS
<1>1. CASE s = BetweenWords(b, gap)
  <2>1. s.ok = TRUE /\ s.seen = 0 /\ s.words = b /\ s.gap = gap
    BY ONLY <1>1 DEF BetweenWords
  <2> QED
    BY ONLY <2>1 DEF LastStored
<1>2. CASE s = Ended(b, gap)
  <2>1. s.ok = TRUE /\ s.seen = 0 /\ s.words = b /\ s.gap = gap
    BY ONLY <1>2 DEF Ended
  <2> QED
    BY ONLY <2>1 DEF LastStored
<1>3. CASE \E e, w : s = Pending(e, gap, w) /\ w \in Word /\ Len(e) < 8 /\ b = Append(e, w)
  <2>1. PICK e, w : s = Pending(e, gap, w) /\ w \in Word /\ Len(e) < 8 /\ b = Append(e, w)
    BY <1>3
  <2>2. PICK n : n = HexLen(w)
    OBVIOUS
  <2>3. s.ok = TRUE /\ s.seen = n
    <3>1. s = [words |-> e, gap |-> gap, seen |-> n, val |-> w, done |-> FALSE, ok |-> TRUE]
      BY ONLY <2>1, <2>2 DEF Pending
    <3> QED
      BY ONLY <3>1
  <2>4. n # 0
    <3>1. n \in 1 .. 4
      BY ONLY <2>1, <2>2, HexIs
    <3> QED
      BY <3>1
  <2>5. last = Stored6(s)
    BY ONLY <1>0, <2>3, <2>4 DEF LastStored
  <2>6. last = BetweenWords(b, gap)
    BY ONLY <2>1, <2>5, StoredIs
  <2> QED
    BY ONLY <1>0, <2>6 DEF BetweenWords
<1> QED
  BY ONLY <1>1, <1>2, <1>3, EndsWith(s, b, gap) DEF EndsWith

(* Without a run all words have been stored.                               *)
LEMMA WholeIs ==
    ASSUME NEW words \in Address6, NEW b, StoredWords(b, words, 8, 0, 8)
    PROVE  b = words /\ Len(b) = 8
<1>1. b \in Seq(Word) /\ Len(b) = 8 /\ \A j \in 1 .. 8 : b[j] = KeptAt(words, 8, 0, j)
  BY ONLY StoredWords(b, words, 8, 0, 8) DEF StoredWords
<1>2. \A j \in 1 .. 8 : KeptAt(words, 8, 0, j) = words[j]
  BY DEF KeptAt
<1>3. PICK m : m = 8
  OBVIOUS
<1>4. words \in [1 .. m -> Word]
  BY ONLY <1>3, words \in Address6 DEF Address6
<1>5. words \in Seq(Word) /\ Len(words) = m
  BY ONLY <1>3, <1>4, FunctionIsSeq
<1>6. \A j \in 1 .. m : b[j] = words[j]
  BY ONLY <1>1, <1>2, <1>3
<1> QED
  BY ONLY <1>1, <1>3, <1>5, <1>6, SeqEqual

(* With one, the zeros in the gap make up the rest.                        *)
LEMMA RefilledIs ==
    ASSUME NEW words \in Address6, NEW b, NEW g, NEW l, NEW c, g \in Nat, l \in Nat,
           c \in Nat, c + l = 8, g <= c, StoredWords(b, words, g, l, c),
           \A j \in 1 .. l : words[g + j] = 0
    PROVE  /\ SubSeq(b, 1, g) \o Zeros(8 - c) \o SubSeq(b, g + 1, c) = words
           /\ Len(b) = c
<1>1. b \in Seq(Word) /\ Len(b) = c /\ \A j \in 1 .. c : b[j] = KeptAt(words, g, l, j)
  BY ONLY StoredWords(b, words, g, l, c) DEF StoredWords
<1>2. PICK x, y, z : x = SubSeq(b, 1, g) /\ y = Zeros(8 - c) /\ z = SubSeq(b, g + 1, c)
  OBVIOUS
<1>3. /\ x \in Seq(Word) /\ Len(x) = g /\ \A i \in 1 .. g : x[i] = b[i]
      /\ z \in Seq(Word) /\ Len(z) = c - g /\ \A i \in 1 .. c - g : z[i] = b[g + i]
  <2>1. g \in 0 .. Len(b)
    BY ONLY <1>1, g \in Nat, c \in Nat, g <= c
  <2>2. /\ SubSeq(b, 1, g) \in Seq(Word) /\ Len(SubSeq(b, 1, g)) = g
        /\ \A i \in 1 .. g : SubSeq(b, 1, g)[i] = b[i]
        /\ SubSeq(b, g + 1, Len(b)) \in Seq(Word)
        /\ Len(SubSeq(b, g + 1, Len(b))) = Len(b) - g
        /\ \A i \in 1 .. Len(b) - g : SubSeq(b, g + 1, Len(b))[i] = b[g + i]
    BY ONLY <1>1, <2>1, TakeAndKeep
  <2> QED
    BY ONLY <1>1, <1>2, <2>2
<1>4. y \in Seq(Word) /\ Len(y) = l /\ \A i \in 1 .. l : y[i] = 0
  <2>1. 8 - c = l
    BY ONLY c + l = 8, c \in Nat, l \in Nat
  <2>2. y = [i \in 1 .. l |-> 0]
    BY ONLY <1>2, <2>1 DEF Zeros
  <2>3. 0 \in Word
    <3>1. MaxWord \in Nat
      BY DEF MaxWord
    <3> QED
      BY ONLY <3>1 DEF Word
  <2>4. y \in [1 .. l -> Word] /\ \A i \in 1 .. l : y[i] = 0
    BY ONLY <2>2, <2>3
  <2> QED
    BY ONLY <2>4, l \in Nat, FunctionIsSeq
<1>5. PICK s, t : s = x \o y /\ t = s \o z
  OBVIOUS
<1>6. PICK d : d = c - g
  OBVIOUS
<1>7. d \in Nat /\ g + l + d = 8 /\ g + l \in Nat
  BY ONLY <1>6, g \in Nat, l \in Nat, c \in Nat, c + l = 8, g <= c
<1>8. /\ s \in Seq(Word) /\ Len(s) = g + l
      /\ \A i \in 1 .. g + l : s[i] = IF i <= g THEN x[i] ELSE y[i - g]
  BY ONLY SMTT(30), <1>3, <1>4, <1>5, ConcatProperties
<1>9. /\ t \in Seq(Word) /\ Len(t) = 8
      /\ \A i \in 1 .. 8 : t[i] = IF i <= g + l THEN s[i] ELSE z[i - (g + l)]
  <2>1. PICK p : p = g + l
    OBVIOUS
  <2>2. p + d = 8 /\ Len(s) = p /\ Len(z) = d
    BY ONLY <1>3, <1>6, <1>7, <1>8, <2>1
  <2>3. /\ t \in Seq(Word) /\ Len(t) = p + d
        /\ \A i \in 1 .. p + d : t[i] = IF i <= p THEN s[i] ELSE z[i - p]
    <3>1. s \in Seq(Word) /\ z \in Seq(Word) /\ Len(s) = p /\ Len(z) = d /\ t = s \o z
      BY ONLY <1>3, <1>5, <1>8, <2>2
    <3> QED
      BY ONLY <3>1, ConcatProperties
  <2> QED
    BY ONLY <2>1, <2>2, <2>3
<1>10. PICK m : m = 8
  OBVIOUS
<1>11. words \in Seq(Word) /\ Len(words) = m
  <2>1. words \in [1 .. m -> Word]
    BY ONLY <1>10, words \in Address6 DEF Address6
  <2> QED
    BY ONLY <1>10, <2>1, FunctionIsSeq
<1>12. ASSUME NEW i \in 1 .. m PROVE t[i] = words[i]
  <2>0. i \in 1 .. 8
    BY <1>10
  <2>1. CASE i <= g
    <3>1. i <= g + l /\ i \in 1 .. g + l /\ i \in 1 .. g /\ i \in 1 .. c
      BY ONLY <1>7, <2>0, <2>1, g \in Nat, l \in Nat, c \in Nat, g <= c
    <3>2. t[i] = b[i]
      BY ONLY <1>3, <1>8, <1>9, <2>0, <2>1, <3>1
    <3>3. b[i] = words[i]
      BY ONLY <1>1, <2>1, <3>1 DEF KeptAt
    <3> QED
      BY ONLY <3>2, <3>3
  <2>2. CASE ~(i <= g) /\ i <= g + l
    <3>1. PICK j : j = i - g
      OBVIOUS
    <3>2. i \in 1 .. g + l /\ j \in 1 .. l /\ g + j = i
      BY ONLY <1>7, <2>0, <2>2, <3>1, g \in Nat, l \in Nat
    <3>3. t[i] = 0
      BY ONLY <1>4, <1>8, <1>9, <2>0, <2>2, <3>1, <3>2
    <3>4. words[i] = 0
      BY ONLY <3>2, \A k \in 1 .. l : words[g + k] = 0
    <3> QED
      BY ONLY <3>3, <3>4
  <2>3. CASE ~(i <= g + l)
    <3>1. PICK j, k : j = i - (g + l) /\ k = g + j
      OBVIOUS
    <3>2. j \in 1 .. c - g /\ k \in 1 .. c /\ ~(k <= g) /\ l + k = i
      BY ONLY <1>6, <1>7, <2>0, <2>3, <3>1, g \in Nat, l \in Nat, c \in Nat, g <= c
    <3>3. t[i] = b[k]
      BY ONLY <1>3, <1>9, <2>0, <2>3, <3>1, <3>2
    <3>4. b[k] = words[l + k]
      BY ONLY <1>1, <3>2 DEF KeptAt
    <3> QED
      BY ONLY <3>2, <3>3, <3>4
  <2> QED
    BY ONLY <2>1, <2>2, <2>3
<1>13. t = words
  BY ONLY <1>9, <1>10, <1>11, <1>12, SeqEqual
<1> QED
  BY ONLY <1>1, <1>2, <1>5, <1>13

(* What inet_pton6 gives for what is behind a leading colon, or all of it. *)
Result6(u) ==
    LET last == LastStored(Reading6(u)[Len(u)])
    IN  IF ~last.ok \/ Len(Widened(last)) # 8 THEN Failed ELSE Widened(last)

(* Whatever the form, the words move to where they were in the address.    *)
LEMMA DisplayRead ==
    ASSUME NEW u, NEW words, NEW g, NEW l, Displays(u, words, g, l)
    PROVE  Result6(u) = words
<1>1. PICK s, last : s = Reading6(u)[Len(u)] /\ last = LastStored(s)
  OBVIOUS
<1>2. last.ok = TRUE /\ Widened(last) = words /\ Len(words) = 8
  <2>1. CASE IsPlain(u, words, g, l) \/ IsDottedText(u, words, g, l)
    <3>1. g = 8 /\ l = 0 /\ words \in Address6
      BY ONLY <2>1 DEF IsPlain, IsDottedText, ShowsPairs
    <3>2. PICK b : StoredWords(b, words, 8, 0, 8) /\ EndsWith(s, b, NoGap)
      <4>1. CASE IsPlain(u, words, g, l)
        BY ONLY <1>1, <3>1, <4>1, PlainRead
      <4>2. CASE IsDottedText(u, words, g, l)
        BY ONLY <1>1, <3>1, <4>2, DottedRead
      <4> QED
        BY ONLY <2>1, <4>1, <4>2
    <3>3. last.ok = TRUE /\ last.words = b /\ last.gap = NoGap
      BY ONLY <1>1, <3>2, LastIs
    <3>4. b = words /\ Len(b) = 8
      BY ONLY <3>1, <3>2, WholeIs
    <3> QED
      BY ONLY <3>3, <3>4 DEF Widened
  <2>2. CASE IsShortened(u, words, g, l)
    <3>1. l \in Nat /\ l >= 2 /\ \A j \in 1 .. l : words[g + j] = 0
      BY ONLY <2>2 DEF IsShortened
    <3>2. PICK c \in Nat : /\ c + l = 8 /\ g <= c
                           /\ \/ IsInner(u, words, g, l, c)
                              \/ IsAtEnd(u, words, g, l, c)
                              \/ IsEncapsulated(u, words, g, l, c)
      BY ONLY <2>2 DEF IsShortened
    <3>3. words \in Address6 /\ g \in Nat
      BY ONLY <3>2 DEF IsInner, IsAtEnd, IsEncapsulated, ShowsPairs
    <3>4. PICK b : StoredWords(b, words, g, l, c) /\ EndsWith(s, b, g)
      <4>1. CASE IsInner(u, words, g, l, c)
        BY ONLY <1>1, <3>1, <3>2, <4>1, InnerRead
      <4>2. CASE IsAtEnd(u, words, g, l, c)
        BY ONLY <1>1, <3>1, <3>2, <4>2, AtEndRead
      <4>3. CASE IsEncapsulated(u, words, g, l, c)
        BY ONLY <1>1, <3>1, <3>2, <4>3, EncapsulatedRead
      <4> QED
        BY ONLY <3>2, <4>1, <4>2, <4>3
    <3>5. last.ok = TRUE /\ last.words = b /\ last.gap = g
      BY ONLY <1>1, <3>4, LastIs
    <3>6. /\ SubSeq(b, 1, g) \o Zeros(8 - c) \o SubSeq(b, g + 1, c) = words
          /\ Len(b) = c
      BY ONLY <3>1, <3>2, <3>3, <3>4, RefilledIs
    <3>7. g # NoGap /\ c # 8
      BY ONLY <3>1, <3>2, <3>3 DEF NoGap
    <3>8. Widened(last) = words
      BY ONLY <3>5, <3>6, <3>7 DEF Widened
    <3>9. PICK m : m = 8
      OBVIOUS
    <3>10. words \in [1 .. m -> Word]
      BY ONLY <3>3, <3>9 DEF Address6
    <3>11. Len(words) = m
      BY ONLY <3>9, <3>10, FunctionIsSeq
    <3> QED
      BY ONLY <3>5, <3>8, <3>9, <3>11
  <2> QED
    BY ONLY <2>1, <2>2, Displays(u, words, g, l) DEF Displays
<1>3. Result6(u) = IF ~last.ok \/ Len(Widened(last)) # 8 THEN Failed ELSE Widened(last)
  BY ONLY <1>1 DEF Result6
<1> QED
  BY ONLY <1>2, <1>3

(* A leading colon is skipped if a second one follows.                     *)
LEMMA Pton6Is ==
    ASSUME NEW chars, NEW u, NEW words,
           \/ chars = u /\ chars # <<>> /\ chars[1] # Colon
           \/ chars # <<>> /\ chars[1] = Colon /\ u = Tail(chars) /\ u # <<>> /\ u[1] = Colon,
           Result6(u) = words
    PROVE  Pton6(chars) = words
<1>1. CASE chars = u /\ chars # <<>> /\ chars[1] # Colon
  BY ONLY <1>1, Result6(u) = words DEF Pton6, Result6, LastStored
<1>2. CASE chars # <<>> /\ chars[1] = Colon /\ u = Tail(chars) /\ u # <<>> /\ u[1] = Colon
  BY ONLY <1>2, Result6(u) = words DEF Pton6, Result6, LastStored
<1> QED
  BY ONLY <1>1, <1>2, \/ chars = u /\ chars # <<>> /\ chars[1] # Colon
                      \/ /\ chars # <<>> /\ chars[1] = Colon /\ u = Tail(chars)
                         /\ u # <<>> /\ u[1] = Colon

-----------------------------------------------------------------------------
(* The loop of inet_ntop6 that looks for runs: best is at x with length y, *)
(* cur at c with length k, where 0 is no place. *)
Scan(x, y, c, k) ==
    [best |-> [base |-> x, len |-> y], cur |-> [base |-> c, len |-> k]]

ZerosAt(words, a, n) == \A j \in Nat : a <= j /\ j < a + n => words[j] = 0

(* A run of n zero words at a, among the first i words.                    *)
RunWithin(words, i, a, n) == a >= 1 /\ n >= 1 /\ a + n <= i + 1 /\ ZerosAt(words, a, n)

(* No longer than the one of length y at x, and behind it if as long.      *)
Beaten(x, y, a, n) == x # 0 /\ (n < y \/ (n = y /\ a >= x))

Scanned(words, i, x, y, c, k) ==
    /\ x \in Nat /\ y \in Nat /\ c \in Nat /\ k \in Nat
    /\ x = 0 => y = 0
    /\ x # 0 => RunWithin(words, i, x, y)
    /\ c = 0 => i = 0 \/ words[i] # 0
    /\ c # 0 => /\ RunWithin(words, i, c, k) /\ c + k = i + 1 /\ x + y <= c
                /\ c = 1 \/ words[c - 1] # 0
    /\ \A a, n \in Nat :
          RunWithin(words, i, a, n) => Beaten(x, y, a, n) \/ (c # 0 /\ a >= c)

(* The scan meets a zero word: the current run gets longer, or starts.     *)
LEMMA ZeroMet ==
    ASSUME NEW words, NEW x, NEW y, NEW c, NEW k, NEW i, words[i] = 0
    PROVE  RunStep(words, Scan(x, y, c, k), i) =
               IF c = 0 THEN Scan(x, y, i, 1) ELSE Scan(x, y, c, k + 1)
<1>1. PICK s, b, d : s = Scan(x, y, c, k) /\ b = [base |-> x, len |-> y] /\ d = [base |-> c, len |-> k]
  OBVIOUS
<1>2. s.cur = d /\ s = [best |-> b, cur |-> d] /\ d.base = c
  BY ONLY <1>1 DEF Scan
<1>3. RunStep(words, s, i) =
         [s EXCEPT !.cur = IF s.cur.base = 0 THEN [base |-> i, len |-> 1]
                           ELSE [s.cur EXCEPT !.len = @ + 1]]
  BY ONLY words[i] = 0 DEF RunStep
<1>4. CASE c = 0
  <2>1. PICK e : e = [base |-> i, len |-> 1]
    OBVIOUS
  <2>2. RunStep(words, s, i) = [s EXCEPT !.cur = e]
    BY ONLY <1>2, <1>3, <1>4, <2>1
  <2>3. [s EXCEPT !.cur = e] = [best |-> b, cur |-> e]
    BY ONLY <1>2
  <2> QED
    BY ONLY <1>1, <1>4, <2>1, <2>2, <2>3 DEF Scan
<1>5. CASE c # 0
  <2>1. PICK e, h : e = [d EXCEPT !.len = @ + 1] /\ h = k + 1
    OBVIOUS
  <2>2. RunStep(words, s, i) = [s EXCEPT !.cur = e]
    <3>1. (s.cur.base = 0) = FALSE
      BY ONLY <1>2, <1>5
    <3>2. e = [s.cur EXCEPT !.len = @ + 1]
      BY ONLY <1>2, <2>1
    <3> QED
      BY ONLY <1>3, <3>1, <3>2
  <2>3. e = [base |-> c, len |-> h]
    BY ONLY <1>1, <2>1
  <2>4. [s EXCEPT !.cur = e] = [best |-> b, cur |-> e]
    BY ONLY <1>2
  <2> QED
    BY ONLY <1>1, <1>5, <2>1, <2>2, <2>3, <2>4 DEF Scan
<1> QED
  BY ONLY <1>4, <1>5

(* It meets another word: the current run ends, and the better one stays.  *)
LEMMA OtherMet ==
    ASSUME NEW words, NEW x, NEW y, NEW c, NEW k, NEW i, words[i] # 0
    PROVE  RunStep(words, Scan(x, y, c, k), i) =
               IF c # 0 /\ (x = 0 \/ k > y) THEN Scan(c, k, 0, k) ELSE Scan(x, y, 0, k)
<1>1. PICK s, b, d : s = Scan(x, y, c, k) /\ b = [base |-> x, len |-> y] /\ d = [base |-> c, len |-> k]
  OBVIOUS
<1>2. s.cur = d /\ s.best = b /\ d.base = c /\ d.len = k /\ b.base = x /\ b.len = y
  BY ONLY <1>1 DEF Scan
<1>3. RunStep(words, s, i) =
         [best |-> IF s.cur.base # 0 /\ BetterRun(s.best, s.cur) THEN s.cur ELSE s.best,
          cur |-> [s.cur EXCEPT !.base = 0]]
  BY ONLY words[i] # 0 DEF RunStep
<1>4. [s.cur EXCEPT !.base = 0] = [base |-> 0, len |-> k]
  <2>1. [d EXCEPT !.base = 0] = [base |-> 0, len |-> k]
    BY ONLY <1>1
  <2> QED
    BY ONLY <1>2, <2>1
<1>5. BetterRun(s.best, s.cur) <=> x = 0 \/ k > y
  BY ONLY <1>2 DEF BetterRun
<1>6. CASE c # 0 /\ (x = 0 \/ k > y)
  <2>1. RunStep(words, s, i) = [best |-> d, cur |-> [base |-> 0, len |-> k]]
    BY ONLY <1>2, <1>3, <1>4, <1>5, <1>6
  <2> QED
    BY ONLY <1>1, <1>6, <2>1 DEF Scan
<1>7. CASE ~(c # 0 /\ (x = 0 \/ k > y))
  <2>1. RunStep(words, s, i) = [best |-> b, cur |-> [base |-> 0, len |-> k]]
    BY ONLY <1>2, <1>3, <1>4, <1>5, <1>7
  <2> QED
    BY ONLY <1>1, <1>7, <2>1 DEF Scan
<1> QED
  BY ONLY <1>6, <1>7

(* A zero word starts a run or makes the current one longer.               *)
LEMMA ScannedZero ==
    ASSUME NEW words, NEW i \in Nat, NEW j, NEW x, NEW y, NEW c, NEW k, j = i + 1,
           Scanned(words, i, x, y, c, k), words[j] = 0
    PROVE  IF c = 0 THEN Scanned(words, j, x, y, j, 1) ELSE Scanned(words, j, x, y, c, k + 1)
<1>1. /\ x \in Nat /\ y \in Nat /\ c \in Nat /\ k \in Nat
      /\ x = 0 => y = 0
      /\ x # 0 => RunWithin(words, i, x, y)
      /\ c = 0 => i = 0 \/ words[i] # 0
      /\ c # 0 => /\ RunWithin(words, i, c, k) /\ c + k = i + 1 /\ x + y <= c
                  /\ c = 1 \/ words[c - 1] # 0
      /\ \A a, n \in Nat :
            RunWithin(words, i, a, n) => Beaten(x, y, a, n) \/ (c # 0 /\ a >= c)
  BY ONLY Scanned(words, i, x, y, c, k) DEF Scanned
<1>2. x # 0 => RunWithin(words, j, x, y) /\ x + y <= j
  BY ONLY <1>1, j = i + 1, i \in Nat DEF RunWithin
<1>3. x + y <= j
  BY ONLY <1>1, <1>2, j = i + 1, i \in Nat
<1>4. CASE c = 0
  <2>1. RunWithin(words, j, j, 1) /\ j + 1 = j + 1 /\ j \in Nat /\ j # 0 /\ 1 \in Nat
    <3>1. ZerosAt(words, j, 1)
      BY ONLY j = i + 1, i \in Nat, words[j] = 0 DEF ZerosAt
    <3> QED
      BY ONLY <3>1, j = i + 1, i \in Nat DEF RunWithin
  <2>2. j = 1 \/ words[j - 1] # 0
    <3>1. j - 1 = i
      BY ONLY j = i + 1, i \in Nat
    <3> QED
      BY ONLY <1>1, <1>4, <3>1, j = i + 1, i \in Nat
  <2>3. ASSUME NEW a \in Nat, NEW n \in Nat, RunWithin(words, j, a, n)
        PROVE  Beaten(x, y, a, n) \/ (j # 0 /\ a >= j)
    <3>1. a >= 1 /\ n >= 1 /\ a + n <= j + 1 /\ ZerosAt(words, a, n)
      BY ONLY <2>3 DEF RunWithin
    <3>2. CASE a + n <= i + 1
      <4>1. RunWithin(words, i, a, n)
        BY ONLY <3>1, <3>2 DEF RunWithin
      <4> QED
        BY ONLY <1>1, <1>4, <4>1, a \in Nat, n \in Nat
    <3>3. CASE ~(a + n <= i + 1) /\ n = 1
      BY ONLY <2>1, <3>1, <3>3, a \in Nat, n \in Nat, j = i + 1, i \in Nat
    <3>4. CASE ~(a + n <= i + 1) /\ n # 1
      <4>1. a <= i /\ i < a + n /\ i # 0
        BY ONLY <3>1, <3>4, a \in Nat, n \in Nat, j = i + 1, i \in Nat
      <4>2. words[i] = 0
        BY ONLY <3>1, <4>1, i \in Nat DEF ZerosAt
      <4> QED
        BY ONLY <1>1, <1>4, <4>1, <4>2
    <3> QED
      BY ONLY <3>2, <3>3, <3>4
  <2>4. Scanned(words, j, x, y, j, 1)
    BY ONLY <1>1, <1>2, <1>3, <2>1, <2>2, <2>3 DEF Scanned
  <2> QED
    BY ONLY <1>4, <2>4
<1>5. CASE c # 0
  <2>1. PICK h : h = k + 1
    OBVIOUS
  <2>2. c >= 1 /\ k >= 1 /\ c + k = j /\ ZerosAt(words, c, k) /\ x + y <= c
    BY ONLY <1>1, <1>5, j = i + 1, i \in Nat DEF RunWithin
  <2>3. RunWithin(words, j, c, h) /\ c + h = j + 1 /\ h \in Nat
    <3>1. ZerosAt(words, c, h)
      <4>1. ASSUME NEW m \in Nat, c <= m, m < c + h PROVE words[m] = 0
        <5>1. m = j \/ m < c + k
          BY ONLY <1>1, <2>1, <2>2, <4>1
        <5> QED
          BY ONLY <2>2, <4>1, <5>1, words[j] = 0 DEF ZerosAt
      <4> QED
        BY ONLY <4>1 DEF ZerosAt
    <3> QED
      BY ONLY <1>1, <2>1, <2>2, <3>1 DEF RunWithin
  <2>4. ASSUME NEW a \in Nat, NEW n \in Nat, RunWithin(words, j, a, n)
        PROVE  Beaten(x, y, a, n) \/ (c # 0 /\ a >= c)
    <3>1. a >= 1 /\ n >= 1 /\ a + n <= j + 1 /\ ZerosAt(words, a, n)
      BY ONLY <2>4 DEF RunWithin
    <3>2. CASE a + n <= i + 1
      <4>1. RunWithin(words, i, a, n)
        BY ONLY <3>1, <3>2 DEF RunWithin
      <4> QED
        BY ONLY <1>1, <4>1, a \in Nat, n \in Nat
    <3>3. CASE ~(a + n <= i + 1) /\ ~(a >= c)
      <4>1. PICK m : m = c - 1
        OBVIOUS
      <4>2. m \in Nat /\ a <= m /\ m < a + n /\ c # 1
        BY ONLY <1>1, <2>2, <3>1, <3>3, <4>1, a \in Nat, n \in Nat, j = i + 1, i \in Nat
      <4>3. words[m] = 0
        BY ONLY <3>1, <4>2 DEF ZerosAt
      <4> QED
        BY ONLY <1>1, <1>5, <4>1, <4>2, <4>3
    <3> QED
      BY ONLY <1>5, <3>2, <3>3
  <2>5. Scanned(words, j, x, y, c, h)
    BY ONLY <1>1, <1>2, <1>5, <2>2, <2>3, <2>4 DEF Scanned
  <2> QED
    BY ONLY <1>5, <2>1, <2>5
<1> QED
  BY ONLY <1>4, <1>5

(* Of the current run and the best one so far the one that is kept beats   *)
(* all runs up to here.                                                    *)
LEMMA BetterIs ==
    ASSUME NEW words, NEW i \in Nat, NEW x, NEW y, NEW c, NEW k,
           Scanned(words, i, x, y, c, k), NEW a \in Nat, NEW n \in Nat,
           RunWithin(words, i, a, n)
    PROVE  IF c # 0 /\ (x = 0 \/ k > y) THEN Beaten(c, k, a, n) ELSE Beaten(x, y, a, n)
<1>1. /\ x \in Nat /\ y \in Nat /\ c \in Nat /\ k \in Nat
      /\ x # 0 => RunWithin(words, i, x, y)
      /\ c # 0 => RunWithin(words, i, c, k) /\ c + k = i + 1 /\ x + y <= c
      /\ Beaten(x, y, a, n) \/ (c # 0 /\ a >= c)
  BY ONLY Scanned(words, i, x, y, c, k), RunWithin(words, i, a, n), a \in Nat, n \in Nat DEF Scanned
<1>2. a >= 1 /\ n >= 1 /\ a + n <= i + 1
  BY ONLY RunWithin(words, i, a, n) DEF RunWithin
<1>3. c # 0 => c >= 1 /\ k >= 1
  BY ONLY <1>1 DEF RunWithin
<1>4. CASE Beaten(x, y, a, n)
  <2>1. x # 0 /\ (n < y \/ (n = y /\ a >= x))
    BY ONLY <1>4 DEF Beaten
  <2> QED
    BY ONLY <1>1, <1>4, <2>1, a \in Nat, n \in Nat DEF Beaten
<1>5. CASE c # 0 /\ a >= c
  <2>1. n < k \/ n = k
    BY ONLY <1>1, <1>2, <1>3, <1>5, a \in Nat, n \in Nat, i \in Nat
  <2>2. Beaten(c, k, a, n)
    BY ONLY <1>5, <2>1 DEF Beaten
  <2>3. CASE ~(x = 0 \/ k > y)
    <3>1. x # 0 /\ (n < y \/ n = y) /\ a >= x
      BY ONLY <1>1, <1>5, <2>1, <2>3, a \in Nat, n \in Nat
    <3>2. Beaten(x, y, a, n)
      BY ONLY <3>1 DEF Beaten
    <3> QED
      BY ONLY <2>3, <3>2
  <2> QED
    BY ONLY <1>5, <2>2, <2>3
<1> QED
  BY ONLY <1>1, <1>4, <1>5

(* The scan stays right over a word that is not zero.                      *)
LEMMA ScannedOther ==
    ASSUME NEW words, NEW i \in Nat, NEW j, NEW x, NEW y, NEW c, NEW k, j = i + 1,
           Scanned(words, i, x, y, c, k), words[j] # 0
    PROVE  IF c # 0 /\ (x = 0 \/ k > y) THEN Scanned(words, j, c, k, 0, k)
           ELSE Scanned(words, j, x, y, 0, k)
<1>1. /\ x \in Nat /\ y \in Nat /\ c \in Nat /\ k \in Nat
      /\ x = 0 => y = 0
      /\ x # 0 => RunWithin(words, i, x, y)
      /\ c # 0 => RunWithin(words, i, c, k)
  BY ONLY Scanned(words, i, x, y, c, k) DEF Scanned
<1>2. \A a, n \in Nat : RunWithin(words, i, a, n) => RunWithin(words, j, a, n)
  BY ONLY j = i + 1, i \in Nat DEF RunWithin
<1>3. \A a, n \in Nat : RunWithin(words, j, a, n) => RunWithin(words, i, a, n)
  <2> SUFFICES ASSUME NEW a \in Nat, NEW n \in Nat, RunWithin(words, j, a, n)
               PROVE  RunWithin(words, i, a, n)
    OBVIOUS
  <2>1. a >= 1 /\ n >= 1 /\ a + n <= j + 1 /\ ZerosAt(words, a, n)
    BY DEF RunWithin
  <2>2. CASE a + n = j + 1
    <3>1. j \in Nat /\ a <= j /\ j < a + n
      BY ONLY <2>1, <2>2, a \in Nat, n \in Nat, j = i + 1, i \in Nat
    <3>2. words[j] = 0
      BY ONLY <2>1, <3>1 DEF ZerosAt
    <3> QED
      BY <3>2
  <2>3. CASE a + n # j + 1
    <3>1. a + n <= i + 1
      BY ONLY <2>1, <2>3, a \in Nat, n \in Nat, j = i + 1, i \in Nat
    <3> QED
      BY ONLY <2>1, <3>1 DEF RunWithin
  <2> QED
    BY <2>2, <2>3
<1>4. CASE c # 0 /\ (x = 0 \/ k > y)
  <2>1. \A a, n \in Nat : RunWithin(words, j, a, n) => Beaten(c, k, a, n)
    <3> SUFFICES ASSUME NEW a \in Nat, NEW n \in Nat, RunWithin(words, j, a, n)
                 PROVE  Beaten(c, k, a, n)
      OBVIOUS
    <3>1. RunWithin(words, i, a, n)
      BY <1>3
    <3>2. IF c # 0 /\ (x = 0 \/ k > y) THEN Beaten(c, k, a, n) ELSE Beaten(x, y, a, n)
      BY <3>1, BetterIs
    <3> QED
      BY ONLY <1>4, <3>2
  <2>2. Scanned(words, j, c, k, 0, k)
    BY ONLY <1>1, <1>2, <1>4, <2>1, words[j] # 0 DEF Scanned
  <2> QED
    BY ONLY <1>4, <2>2
<1>5. CASE ~(c # 0 /\ (x = 0 \/ k > y))
  <2>1. \A a, n \in Nat : RunWithin(words, j, a, n) => Beaten(x, y, a, n)
    <3> SUFFICES ASSUME NEW a \in Nat, NEW n \in Nat, RunWithin(words, j, a, n)
                 PROVE  Beaten(x, y, a, n)
      OBVIOUS
    <3>1. RunWithin(words, i, a, n)
      BY <1>3
    <3>2. IF c # 0 /\ (x = 0 \/ k > y) THEN Beaten(c, k, a, n) ELSE Beaten(x, y, a, n)
      BY <3>1, BetterIs
    <3> QED
      BY ONLY <1>5, <3>2
  <2>2. Scanned(words, j, x, y, 0, k)
    BY ONLY <1>1, <1>2, <2>1, words[j] # 0 DEF Scanned
  <2> QED
    BY ONLY <1>5, <2>2
<1> QED
  BY ONLY <1>4, <1>5

HasScanned(words, i) ==
    \E x, y, c, k : /\ Scanning(words)[i] = Scan(x, y, c, k)
                    /\ Scanned(words, i, x, y, c, k)

(* What the scan knows after all eight words.                              *)
LEMMA ScanningDone == ASSUME NEW words PROVE HasScanned(words, 8)
<1>0. PICK f : f = Scanning(words)
  OBVIOUS
<1>1. /\ f[0] = [best |-> NoRun, cur |-> NoRun]
      /\ \A i \in 1 .. 8 : f[i] = RunStep(words, f[i - 1], i)
  BY ONLY <1>0, ScanningIs
<1> DEFINE P == {i \in Nat : i <= 8 => HasScanned(words, i)}
<1>2. 0 \in P
  <2>1. f[0] = Scan(0, 0, 0, 0)
    BY ONLY <1>1 DEF Scan, NoRun
  <2>2. ~(\E a, n \in Nat : RunWithin(words, 0, a, n))
    BY DEF RunWithin
  <2>3. Scanned(words, 0, 0, 0, 0, 0)
    BY ONLY <2>2 DEF Scanned
  <2>4. HasScanned(words, 0)
    BY ONLY <1>0, <2>1, <2>3 DEF HasScanned
  <2> QED
    BY <2>4
<1>3. ASSUME NEW i \in Nat, i \in P PROVE i + 1 \in P
  <2>1. PICK j : j = i + 1
    OBVIOUS
  <2>2. ASSUME j <= 8 PROVE HasScanned(words, j)
    <3>1. i <= 8 /\ j \in 1 .. 8 /\ j - 1 = i
      BY ONLY <2>1, <2>2, i \in Nat
    <3>2. PICK x, y, c, k : f[i] = Scan(x, y, c, k) /\ Scanned(words, i, x, y, c, k)
      <4>1. HasScanned(words, i)
        BY <1>3, <3>1
      <4> QED
        BY ONLY <1>0, <4>1 DEF HasScanned
    <3>3. f[j] = RunStep(words, Scan(x, y, c, k), j)
      BY ONLY <1>1, <3>1, <3>2
    <3>4. CASE words[j] = 0
      <4>1. f[j] = IF c = 0 THEN Scan(x, y, j, 1) ELSE Scan(x, y, c, k + 1)
        BY ONLY <3>3, <3>4, ZeroMet
      <4>2. IF c = 0 THEN Scanned(words, j, x, y, j, 1) ELSE Scanned(words, j, x, y, c, k + 1)
        BY ONLY <2>1, <3>2, <3>4, i \in Nat, ScannedZero
      <4> QED
        BY ONLY <1>0, <4>1, <4>2 DEF HasScanned
    <3>5. CASE words[j] # 0
      <4>1. f[j] = IF c # 0 /\ (x = 0 \/ k > y) THEN Scan(c, k, 0, k) ELSE Scan(x, y, 0, k)
        BY ONLY <3>3, <3>5, OtherMet
      <4>2. IF c # 0 /\ (x = 0 \/ k > y) THEN Scanned(words, j, c, k, 0, k)
            ELSE Scanned(words, j, x, y, 0, k)
        BY ONLY <2>1, <3>2, <3>5, i \in Nat, ScannedOther
      <4> QED
        BY ONLY <1>0, <4>1, <4>2 DEF HasScanned
    <3> QED
      BY ONLY <3>4, <3>5
  <2> QED
    BY <2>1, <2>2
<1>4. \A i \in Nat : i \in P
  <2> HIDE DEF P
  <2> QED
    BY ONLY <1>2, <1>3, Induct
<1> QED
  BY <1>4

(* The run that :: stands for is the first of the longest, or there is no  *)
(* run of two words.                                                       *)
IsBest(words, best) ==
    \/ best = NoRun /\ \A a, n \in Nat : RunWithin(words, 8, a, n) => n < 2
    \/ \E x, y \in Nat :
          /\ best = [base |-> x, len |-> y] /\ y >= 2 /\ RunWithin(words, 8, x, y)
          /\ \A a, n \in Nat : RunWithin(words, 8, a, n) => Beaten(x, y, a, n)

(* The run that is found is the first of the longest, if longer than 1.    *)
LEMMA BestRunIs == ASSUME NEW words PROVE IsBest(words, BestRun(words))
<1>1. PICK x, y, c, k : /\ Scanning(words)[8] = Scan(x, y, c, k)
                        /\ Scanned(words, 8, x, y, c, k)
  BY ONLY ScanningDone DEF HasScanned
<1>2. PICK b, d : b = [base |-> x, len |-> y] /\ d = [base |-> c, len |-> k]
  OBVIOUS
<1>3. Scanning(words)[8].best = b /\ Scanning(words)[8].cur = d
  BY ONLY <1>1, <1>2 DEF Scan
<1>4. b.base = x /\ b.len = y /\ d.base = c /\ d.len = k
  BY ONLY <1>2
<1>5. PICK r : r = IF c # 0 /\ (x = 0 \/ k > y) THEN d ELSE b
  OBVIOUS
<1>6. BestRun(words) = IF r.len < 2 THEN NoRun ELSE r
  BY ONLY <1>3, <1>4, <1>5 DEF BestRun, BetterRun
<1>7. \E p, q \in Nat : /\ r = [base |-> p, len |-> q] /\ (p # 0 => RunWithin(words, 8, p, q))
                        /\ p = 0 => q = 0
                        /\ \A a, n \in Nat : RunWithin(words, 8, a, n) => Beaten(p, q, a, n)
  <2>1. /\ x \in Nat /\ y \in Nat /\ c \in Nat /\ k \in Nat
        /\ x = 0 => y = 0
        /\ x # 0 => RunWithin(words, 8, x, y)
        /\ c # 0 => RunWithin(words, 8, c, k)
    BY ONLY <1>1 DEF Scanned
  <2>2. \A a, n \in Nat : RunWithin(words, 8, a, n) =>
           IF c # 0 /\ (x = 0 \/ k > y) THEN Beaten(c, k, a, n) ELSE Beaten(x, y, a, n)
    <3>1. 8 \in Nat
      OBVIOUS
    <3> QED
      BY ONLY <1>1, <3>1, BetterIs
  <2>3. CASE c # 0 /\ (x = 0 \/ k > y)
    BY ONLY <1>2, <1>5, <2>1, <2>2, <2>3
  <2>4. CASE ~(c # 0 /\ (x = 0 \/ k > y))
    BY ONLY <1>2, <1>5, <2>1, <2>2, <2>4
  <2> QED
    BY ONLY <2>3, <2>4
<1>8. PICK p \in Nat, q \in Nat :
         /\ r = [base |-> p, len |-> q] /\ (p # 0 => RunWithin(words, 8, p, q))
         /\ p = 0 => q = 0
         /\ \A a, n \in Nat : RunWithin(words, 8, a, n) => Beaten(p, q, a, n)
  BY ONLY <1>7
<1>9. r.len = q
  BY ONLY <1>8
<1>10. CASE q < 2
  <2>1. BestRun(words) = NoRun
    BY ONLY <1>6, <1>9, <1>10
  <2>2. \A a, n \in Nat : RunWithin(words, 8, a, n) => n < 2
    <3>1. \A a, n \in Nat : Beaten(p, q, a, n) => n < 2
      BY ONLY <1>8, <1>10 DEF Beaten
    <3> QED
      BY ONLY <1>8, <3>1
  <2> QED
    BY ONLY <2>1, <2>2 DEF IsBest
<1>11. CASE ~(q < 2)
  <2>1. BestRun(words) = r
    BY ONLY <1>6, <1>9, <1>11
  <2>2. q >= 2 /\ p # 0
    BY ONLY <1>8, <1>11
  <2> QED
    BY ONLY <1>8, <2>1, <2>2 DEF IsBest
<1> QED
  BY ONLY <1>10, <1>11

-----------------------------------------------------------------------------
(* The loop of inet_ntop6 that writes. *)
Tokens6 == {Colon} \cup {Hex(w) : w \in Word} \cup {Quad(p[1], p[2]) : p \in Word \X Word}

(* Colons, groups and dotted forms are tokens of a text.                   *)
LEMMA TokensAre ==
    /\ Colon \in Tokens6 /\ \A w \in Word : Hex(w) \in Tokens6
    /\ \A h, w \in Word : Quad(h, w) \in Tokens6
<1>1. ASSUME NEW h \in Word, NEW w \in Word PROVE Quad(h, w) \in Tokens6
  <2>1. PICK p : p = <<h, w>>
    OBVIOUS
  <2>2. p \in Word \X Word /\ p[1] = h /\ p[2] = w
    BY ONLY <2>1, h \in Word, w \in Word
  <2> QED
    BY ONLY <2>2 DEF Tokens6
<1> QED
  BY ONLY <1>1 DEF Tokens6

(* What stands at place k of the text, with the run of l zero words behind *)
(* the first g words, and with lead colons in front of a run at the start. *)
Planned(e, k, words, g, l, lead) ==
    /\ lead = 1 /\ k = 1 => e = Colon
    /\ \A q \in Nat : q >= 1 =>
          /\ k = lead + 2 * q - 1 => e = IF q <= g THEN Hex(words[q]) ELSE Colon
          /\ k = lead + 2 * q     => e = IF q <= g THEN Colon ELSE Hex(words[l + q])

Follows(t, m, words, g, l, lead) ==
    /\ t \in Seq(Tokens6) /\ m \in Nat /\ m <= Len(t)
    /\ \A k \in 1 .. m : Planned(t[k], k, words, g, l, lead)

(* A run at the start leaves a colon in front.                             *)
LEMMA PlannedFirst ==
    ASSUME NEW words, NEW g, NEW l
    PROVE  Planned(Colon, 1, words, g, l, 1)
  BY DEF Planned

(* The first of the two tokens of a place, as planned.                     *)
LEMMA PlannedOdd ==
    ASSUME NEW words, NEW g \in Nat, NEW l \in Nat, NEW lead, NEW q \in Nat, q >= 1,
           lead = 0 \/ lead = 1, NEW k, NEW e, k = lead + 2 * q - 1,
           e = IF q <= g THEN Hex(words[q]) ELSE Colon
    PROVE  Planned(e, k, words, g, l, lead)
<1>1. ~(lead = 1 /\ k = 1)
  BY ONLY q \in Nat, q >= 1, k = lead + 2 * q - 1
<1>2. \A p \in Nat : /\ k = lead + 2 * p - 1 => p = q
                     /\ k # lead + 2 * p
  BY ONLY q \in Nat, lead = 0 \/ lead = 1, k = lead + 2 * q - 1
<1> QED
  BY ONLY <1>1, <1>2, e = IF q <= g THEN Hex(words[q]) ELSE Colon DEF Planned

(* The second of them.                                                     *)
LEMMA PlannedEven ==
    ASSUME NEW words, NEW g \in Nat, NEW l \in Nat, NEW lead, NEW q \in Nat, q >= 1,
           lead = 0 \/ lead = 1, NEW k, NEW e, k = lead + 2 * q,
           e = IF q <= g THEN Colon ELSE Hex(words[l + q])
    PROVE  Planned(e, k, words, g, l, lead)
<1>1. ~(lead = 1 /\ k = 1)
  BY ONLY q \in Nat, q >= 1, k = lead + 2 * q
<1>2. \A p \in Nat : /\ k = lead + 2 * p => p = q
                     /\ k # lead + 2 * p - 1
  BY ONLY q \in Nat, lead = 0 \/ lead = 1, k = lead + 2 * q
<1> QED
  BY ONLY <1>1, <1>2, e = IF q <= g THEN Colon ELSE Hex(words[l + q]) DEF Planned

(* One more token as planned.                                              *)
LEMMA FollowsMore ==
    ASSUME NEW words, NEW g, NEW l, NEW lead, NEW t, NEW m \in Nat, NEW e \in Tokens6,
           Follows(t, m, words, g, l, lead), Len(t) = m,
           Planned(e, m + 1, words, g, l, lead)
    PROVE  Follows(Append(t, e), m + 1, words, g, l, lead) /\ Len(Append(t, e)) = m + 1
<1>1. t \in Seq(Tokens6) /\ \A k \in 1 .. m : Planned(t[k], k, words, g, l, lead)
  BY ONLY Follows(t, m, words, g, l, lead) DEF Follows
<1>2. PICK v : v = Append(t, e)
  OBVIOUS
<1>3. /\ v \in Seq(Tokens6) /\ Len(v) = m + 1
      /\ \A k \in 1 .. m : v[k] = t[k]
      /\ v[m + 1] = e
  <2>1. /\ Append(t, e) \in Seq(Tokens6) /\ Len(Append(t, e)) = Len(t) + 1
        /\ \A k \in 1 .. Len(t) : Append(t, e)[k] = t[k]
        /\ Append(t, e)[Len(t) + 1] = e
    BY ONLY <1>1, e \in Tokens6, AppendProperties
  <2> QED
    BY ONLY <1>2, <2>1, Len(t) = m
<1>4. \A k \in 1 .. m + 1 : k \in 1 .. m \/ k = m + 1
  BY ONLY m \in Nat
<1>5. \A k \in 1 .. m + 1 : Planned(v[k], k, words, g, l, lead)
  BY ONLY <1>1, <1>3, <1>4, Planned(e, m + 1, words, g, l, lead)
<1>6. m + 1 \in Nat /\ m + 1 <= m + 1
  BY ONLY m \in Nat
<1> QED
  BY ONLY <1>2, <1>3, <1>5, <1>6 DEF Follows

(* What is appended behind a colon.                                        *)
LEMMA AppendedTwo ==
    ASSUME NEW t \in Seq(Tokens6), NEW e \in Tokens6
    PROVE  /\ t \o <<Colon>> \o <<e>> = Append(Append(t, Colon), e)
           /\ t \o <<>> \o <<e>> = Append(t, e)
<1>1. Colon \in Tokens6
  BY ONLY TokensAre
<1>2. Append(t, Colon) = t \o <<Colon>> /\ Append(t, Colon) \in Seq(Tokens6)
  BY ONLY <1>1, t \in Seq(Tokens6), AppendIsConcat, AppendProperties
<1>3. Append(Append(t, Colon), e) = Append(t, Colon) \o <<e>>
  BY ONLY <1>2, e \in Tokens6, AppendIsConcat
<1>4. t \o <<>> = t
  BY ONLY t \in Seq(Tokens6), ConcatEmptySeq
<1>5. Append(t, e) = t \o <<e>>
  BY ONLY t \in Seq(Tokens6), e \in Tokens6, AppendIsConcat
<1> QED
  BY ONLY <1>2, <1>3, <1>4, <1>5

OpenText(t) == [text |-> t, done |-> FALSE]
DoneText(t) == [text |-> t, done |-> TRUE]

(* One turn of the loop.                                                   *)
LEMMA TurnIs ==
    ASSUME NEW words \in Address6, NEW best, NEW t \in Seq(Tokens6), NEW i \in 1 .. 8
    PROVE  /\ TextStep(words, best, DoneText(t), i) = DoneText(t)
           /\ InRun(best, i) =>
                 TextStep(words, best, OpenText(t), i) =
                     OpenText(IF i = best.base THEN Append(t, Colon) ELSE t)
           /\ ~InRun(best, i) /\ IsQuad(words, best, i) =>
                 TextStep(words, best, OpenText(t), i) =
                     DoneText(Append(Append(t, Colon), Quad(words[7], words[8])))
           /\ ~InRun(best, i) /\ ~IsQuad(words, best, i) =>
                 TextStep(words, best, OpenText(t), i) =
                     OpenText(IF i = 1 THEN Append(t, Hex(words[i]))
                          ELSE Append(Append(t, Colon), Hex(words[i])))
<1>1. PICK s, z : s = OpenText(t) /\ z = DoneText(t)
  OBVIOUS
<1>2. s.text = t /\ s.done = FALSE /\ z.done = TRUE /\ s = [text |-> t, done |-> FALSE]
  BY ONLY <1>1 DEF OpenText, DoneText
<1>3. TextStep(words, best, z, i) = z
  BY ONLY <1>2 DEF TextStep
<1>4. ASSUME NEW v PROVE [s EXCEPT !.text = v] = OpenText(v)
  <2>1. PICK r : r = [s EXCEPT !.text = v]
    OBVIOUS
  <2>2. s = [text |-> t, done |-> FALSE]
    BY ONLY <1>2
  <2>3. r = [text |-> v, done |-> FALSE]
    BY ONLY <2>1, <2>2
  <2> QED
    BY ONLY <2>1, <2>3 DEF OpenText, DoneText
<1>5. ASSUME InRun(best, i)
      PROVE  TextStep(words, best, s, i) =
                 OpenText(IF i = best.base THEN Append(t, Colon) ELSE t)
  <2>1. PICK v : v = IF i = best.base THEN Append(t, Colon) ELSE t
    OBVIOUS
  <2>2. TextStep(words, best, s, i) = [s EXCEPT !.text = v]
    BY ONLY <1>2, <1>5, <2>1 DEF TextStep
  <2> QED
    BY ONLY <1>4, <2>1, <2>2
<1>6. words[i] \in Word /\ words[7] \in Word /\ words[8] \in Word
  <2>1. 7 \in 1 .. 8 /\ 8 \in 1 .. 8
    OBVIOUS
  <2> QED
    BY ONLY <2>1, i \in 1 .. 8, words \in Address6 DEF Address6
<1>7. PICK e, h : e = Quad(words[7], words[8]) /\ h = Hex(words[i])
  OBVIOUS
<1>8. e \in Tokens6 /\ h \in Tokens6
  BY ONLY <1>6, <1>7, TokensAre
<1>9. ASSUME ~InRun(best, i), IsQuad(words, best, i)
      PROVE  TextStep(words, best, s, i) = DoneText(Append(Append(t, Colon), e))
  <2>1. i # 1
    BY ONLY IsQuad(words, best, i) DEF IsQuad
  <2>2. TextStep(words, best, s, i) = [text |-> t \o <<Colon>> \o <<e>>, done |-> TRUE]
    BY ONLY <1>2, <1>7, <1>9, <2>1 DEF TextStep
  <2>3. t \o <<Colon>> \o <<e>> = Append(Append(t, Colon), e)
    BY ONLY <1>8, t \in Seq(Tokens6), AppendedTwo
  <2> QED
    BY ONLY <2>2, <2>3 DEF OpenText, DoneText
<1>10. ASSUME ~InRun(best, i), ~IsQuad(words, best, i)
       PROVE  TextStep(words, best, s, i) =
                  OpenText(IF i = 1 THEN Append(t, h) ELSE Append(Append(t, Colon), h))
  <2>1. CASE i = 1
    <3>1. PICK v : v = t \o <<>> \o <<h>>
      OBVIOUS
    <3>2. TextStep(words, best, s, i) = [s EXCEPT !.text = v]
      BY ONLY <1>2, <1>7, <1>10, <2>1, <3>1 DEF TextStep
    <3>3. v = Append(t, h)
      BY ONLY <1>8, <3>1, t \in Seq(Tokens6), AppendedTwo
    <3> QED
      BY ONLY <1>4, <2>1, <3>2, <3>3
  <2>2. CASE i # 1
    <3>1. PICK v : v = t \o <<Colon>> \o <<h>>
      OBVIOUS
    <3>2. TextStep(words, best, s, i) = [s EXCEPT !.text = v]
      BY ONLY <1>2, <1>7, <1>10, <2>2, <3>1 DEF TextStep
    <3>3. v = Append(Append(t, Colon), h)
      BY ONLY <1>8, <3>1, t \in Seq(Tokens6), AppendedTwo
    <3> QED
      BY ONLY <1>4, <2>2, <3>2, <3>3
  <2> QED
    BY ONLY <2>1, <2>2
<1> QED
  BY ONLY <1>1, <1>3, <1>5, <1>7, <1>9, <1>10

(* The run that was found, as the words behind the first g.                *)
Splits(words, best, g, l, lead) ==
    /\ words \in Address6 /\ g \in Nat /\ l \in Nat /\ g <= 8 /\ (lead = 0 \/ lead = 1)
    /\ \/ best = NoRun /\ g = 8 /\ l = 0 /\ lead = 0
       \/ /\ best = [base |-> g + 1, len |-> l] /\ l >= 2 /\ g + l <= 8
          /\ g = 0 <=> lead = 1

(* The length of the text after i turns.                                   *)
LengthAt(i, g, l, lead) ==
    IF i = 0 THEN 0 ELSE IF i <= g THEN 2 * i - 1
    ELSE IF i <= g + l THEN lead + 2 * g ELSE lead + 2 * (i - l)

WrittenTo(s, i, words, g, l, lead) ==
    \E t, n : /\ s = OpenText(t) /\ n = LengthAt(i, g, l, lead)
              /\ Follows(t, n, words, g, l, lead) /\ Len(t) = n

(* The text ends with a dotted form.                                       *)
EndsDotted(t, n, words, g, l, lead) ==
    /\ g = 0 /\ (l = 5 \/ l = 6) /\ lead = 1 /\ n = 2 * (8 - l) - 1
    /\ Follows(t, n - 1, words, g, l, lead) /\ Len(t) = n
    /\ t[n] = Quad(words[7], words[8])

WrittenAll(s, i, words, g, l, lead) ==
    \E t, n : s = DoneText(t) /\ i >= 7 /\ EndsDotted(t, n, words, g, l, lead)

(* Which words are in the run, and where a dotted form may stand.          *)
LEMMA SplitIs ==
    ASSUME NEW words, NEW best, NEW g, NEW l, NEW lead, Splits(words, best, g, l, lead),
           NEW i \in Nat
    PROVE  /\ InRun(best, i) <=> l >= 2 /\ g + 1 <= i /\ i <= g + l
           /\ InRun(best, i) => best.base = g + 1
           /\ IsQuad(words, best, i) => i = 7 /\ g = 0 /\ (l = 5 \/ l = 6 \/ l = 7) /\ lead = 1
<1>1. /\ words \in Address6 /\ g \in Nat /\ l \in Nat /\ g <= 8 /\ (lead = 0 \/ lead = 1)
      /\ \/ best = NoRun /\ g = 8 /\ l = 0 /\ lead = 0
         \/ /\ best = [base |-> g + 1, len |-> l] /\ l >= 2 /\ g + l <= 8
            /\ g = 0 <=> lead = 1
  BY ONLY Splits(words, best, g, l, lead) DEF Splits
<1>2. CASE best = NoRun /\ g = 8 /\ l = 0 /\ lead = 0
  <2>1. best.base = 0
    BY ONLY <1>2 DEF NoRun
  <2> QED
    BY ONLY <1>2, <2>1 DEF InRun, IsQuad
<1>3. CASE /\ best = [base |-> g + 1, len |-> l] /\ l >= 2 /\ g + l <= 8
           /\ g = 0 <=> lead = 1
  <2>1. PICK x : x = g + 1
    OBVIOUS
  <2>2. best.base = x /\ best.len = l
    BY ONLY <1>3, <2>1
  <2>3. InRun(best, i) <=> l >= 2 /\ g + 1 <= i /\ i <= g + l
    BY ONLY <1>1, <1>3, <2>1, <2>2, i \in Nat DEF InRun
  <2>4. IsQuad(words, best, i) => i = 7 /\ g = 0 /\ (l = 5 \/ l = 6 \/ l = 7) /\ lead = 1
    BY ONLY <1>1, <1>3, <2>1, <2>2 DEF IsQuad
  <2> QED
    BY ONLY <2>1, <2>2, <2>3, <2>4
<1> QED
  BY ONLY <1>1, <1>2, <1>3

(* A word outside the run.                                                 *)
LEMMA WordWritten ==
    ASSUME NEW words, NEW best, NEW g, NEW l, NEW lead, Splits(words, best, g, l, lead),
           NEW i \in Nat, i < 8, NEW j, j = i + 1, NEW t, NEW n,
           n = LengthAt(i, g, l, lead), Follows(t, n, words, g, l, lead), Len(t) = n,
           ~InRun(best, j)
    PROVE  \E v, m :
              /\ v = IF j = 1 THEN Append(t, Hex(words[j]))
                     ELSE Append(Append(t, Colon), Hex(words[j]))
              /\ m = LengthAt(j, g, l, lead) /\ Follows(v, m, words, g, l, lead) /\ Len(v) = m
<1>1. /\ words \in Address6 /\ g \in Nat /\ l \in Nat /\ g <= 8 /\ (lead = 0 \/ lead = 1)
      /\ (g = 8 /\ l = 0 /\ lead = 0) \/ (l >= 2 /\ g + l <= 8 /\ (g = 0 <=> lead = 1))
  BY ONLY Splits(words, best, g, l, lead) DEF Splits
<1>2. j \in Nat /\ j \in 1 .. 8 /\ j >= 1
  BY ONLY i \in Nat, i < 8, j = i + 1
<1>3. ~(l >= 2 /\ g + 1 <= j /\ j <= g + l)
  BY ONLY <1>2, ~InRun(best, j), Splits(words, best, g, l, lead), SplitIs
<1>4. Colon \in Tokens6 /\ Hex(words[j]) \in Tokens6
  <2>1. words[j] \in Word
    BY ONLY <1>1, <1>2 DEF Address6
  <2> QED
    BY ONLY <2>1, TokensAre
<1>5. CASE j = 1
  <2>1. g >= 1 /\ lead = 0
    BY ONLY <1>1, <1>3, <1>5
  <2>2. n = 0 /\ LengthAt(j, g, l, lead) = 1
    BY ONLY <1>1, <1>5, <2>1, n = LengthAt(i, g, l, lead), j = i + 1, i \in Nat DEF LengthAt
  <2>3. PICK e : e = Hex(words[j])
    OBVIOUS
  <2>4. PICK q : q = 1
    OBVIOUS
  <2>5. q \in Nat /\ q >= 1 /\ n + 1 = lead + 2 * q - 1 /\ e = IF q <= g THEN Hex(words[q]) ELSE Colon
    BY ONLY <1>5, <2>1, <2>2, <2>3, <2>4
  <2>6. Planned(e, n + 1, words, g, l, lead)
    BY ONLY <1>1, <2>5, PlannedOdd
  <2>7. n \in Nat /\ e \in Tokens6
    BY ONLY <1>4, <2>2, <2>3
  <2>8. Follows(Append(t, e), n + 1, words, g, l, lead) /\ Len(Append(t, e)) = n + 1
    BY ONLY <2>6, <2>7, Follows(t, n, words, g, l, lead), Len(t) = n, FollowsMore
  <2>9. n + 1 = 1
    BY ONLY <2>2
  <2> QED
    BY ONLY <1>5, <2>2, <2>3, <2>8, <2>9
<1>6. CASE j # 1
  <2>1. PICK q : q = IF j <= g THEN i ELSE j - l
    OBVIOUS
  <2>2. PICK p : p = IF j <= g THEN j ELSE q
    OBVIOUS
  <2>3. /\ q \in Nat /\ q >= 1 /\ p \in Nat /\ p >= 1 /\ n \in Nat
        /\ IF j <= g THEN n + 1 = lead + 2 * q /\ n + 2 = lead + 2 * p - 1 /\ lead = 0 /\ q <= g
           ELSE n + 1 = lead + 2 * q - 1 /\ n + 2 = lead + 2 * p /\ l + p = j /\ ~(q <= g)
        /\ LengthAt(j, g, l, lead) = n + 2
    <3>1. CASE j <= g
      <4>1. lead = 0 /\ i <= g /\ i # 0 /\ q = i /\ p = j
        BY ONLY <1>1, <1>2, <1>6, <2>1, <2>2, <3>1, j = i + 1, i \in Nat
      <4>2. n = 2 * i - 1 /\ LengthAt(j, g, l, lead) = 2 * j - 1
        BY ONLY <1>2, <3>1, <4>1, n = LengthAt(i, g, l, lead) DEF LengthAt
      <4> QED
        BY ONLY <1>1, <1>2, <3>1, <4>1, <4>2, j = i + 1, i \in Nat
    <3>2. CASE ~(j <= g)
      <4>1. l >= 2 /\ g + l <= 8 /\ j > g + l /\ q = j - l /\ p = q /\ i >= g + l
        BY ONLY <1>1, <1>2, <1>3, <2>1, <2>2, <3>2, j = i + 1, i \in Nat
      <4>2. LengthAt(j, g, l, lead) = lead + 2 * (j - l)
        BY ONLY <1>1, <1>2, <4>1 DEF LengthAt
      <4>3. n = lead + 2 * (i - l)
        <5>1. i # 0 /\ ~(i <= g)
          BY ONLY <1>1, <4>1, i \in Nat
        <5>2. n = IF i <= g + l THEN lead + 2 * g ELSE lead + 2 * (i - l)
          BY ONLY <5>1, n = LengthAt(i, g, l, lead) DEF LengthAt
        <5>3. CASE i <= g + l
          <6>1. i - l = g
            BY ONLY <1>1, <4>1, <5>3, i \in Nat
          <6> QED
            BY ONLY <5>2, <5>3, <6>1
        <5> QED
          BY ONLY <5>2, <5>3
      <4> QED
        BY ONLY <1>1, <1>2, <3>2, <4>1, <4>2, <4>3, j = i + 1, i \in Nat
    <3> QED
      BY ONLY <3>1, <3>2
  <2>4. PICK e, k, m : e = Hex(words[j]) /\ k = n + 1 /\ m = n + 2
    OBVIOUS
  <2>5. k \in Nat /\ k + 1 = m /\ e \in Tokens6 /\ m = LengthAt(j, g, l, lead)
    BY ONLY <1>4, <2>3, <2>4
  <2>6. Planned(Colon, k, words, g, l, lead)
    <3>1. CASE j <= g
      <4>1. k = lead + 2 * q /\ Colon = IF q <= g THEN Colon ELSE Hex(words[l + q])
        BY ONLY <2>3, <2>4, <3>1
      <4> QED
        BY ONLY <1>1, <2>3, <4>1, PlannedEven
    <3>2. CASE ~(j <= g)
      <4>1. k = lead + 2 * q - 1 /\ Colon = IF q <= g THEN Hex(words[q]) ELSE Colon
        BY ONLY <2>3, <2>4, <3>2
      <4> QED
        BY ONLY <1>1, <2>3, <4>1, PlannedOdd
    <3> QED
      BY ONLY <3>1, <3>2
  <2>7. Planned(e, m, words, g, l, lead)
    <3>1. CASE j <= g
      <4>1. m = lead + 2 * p - 1 /\ e = IF p <= g THEN Hex(words[p]) ELSE Colon
        BY ONLY <2>2, <2>3, <2>4, <3>1
      <4> QED
        BY ONLY <1>1, <2>3, <4>1, PlannedOdd
    <3>2. CASE ~(j <= g)
      <4>1. m = lead + 2 * p /\ e = IF p <= g THEN Colon ELSE Hex(words[l + p])
        BY ONLY <2>2, <2>3, <2>4, <3>2
      <4> QED
        BY ONLY <1>1, <2>3, <4>1, PlannedEven
    <3> QED
      BY ONLY <3>1, <3>2
  <2>8. PICK z : z = Append(t, Colon)
    OBVIOUS
  <2>9. Follows(z, k, words, g, l, lead) /\ Len(z) = k
    BY ONLY <1>4, <2>3, <2>4, <2>6, <2>8, Follows(t, n, words, g, l, lead), Len(t) = n, FollowsMore
  <2>10. Follows(Append(z, e), m, words, g, l, lead) /\ Len(Append(z, e)) = m
    BY ONLY <2>5, <2>7, <2>9, FollowsMore
  <2> QED
    BY ONLY <1>6, <2>4, <2>5, <2>8, <2>10
<1> QED
  BY ONLY <1>5, <1>6

(* A word inside it.                                                       *)
LEMMA RunWritten ==
    ASSUME NEW words, NEW best, NEW g, NEW l, NEW lead, Splits(words, best, g, l, lead),
           NEW i \in Nat, i < 8, NEW j, j = i + 1, NEW t, NEW n,
           n = LengthAt(i, g, l, lead), Follows(t, n, words, g, l, lead), Len(t) = n,
           InRun(best, j)
    PROVE  \E v, m :
              /\ v = IF j = best.base THEN Append(t, Colon) ELSE t
              /\ m = LengthAt(j, g, l, lead) /\ Follows(v, m, words, g, l, lead) /\ Len(v) = m
<1>1. /\ words \in Address6 /\ g \in Nat /\ l \in Nat /\ g <= 8 /\ (lead = 0 \/ lead = 1)
      /\ (g = 8 /\ l = 0 /\ lead = 0) \/ (l >= 2 /\ g + l <= 8 /\ (g = 0 <=> lead = 1))
  BY ONLY Splits(words, best, g, l, lead) DEF Splits
<1>2. j \in Nat /\ j >= 1
  BY ONLY i \in Nat, j = i + 1
<1>3. l >= 2 /\ g + 1 <= j /\ j <= g + l /\ best.base = g + 1 /\ (g = 0 <=> lead = 1)
  BY ONLY <1>1, <1>2, InRun(best, j), Splits(words, best, g, l, lead), SplitIs
<1>4. LengthAt(j, g, l, lead) = lead + 2 * g
  BY ONLY <1>1, <1>2, <1>3 DEF LengthAt
<1>5. CASE j = g + 1
  <2>1. n + 1 = lead + 2 * g /\ n \in Nat
    <3>1. i = g
      BY ONLY <1>1, <1>5, j = i + 1, i \in Nat
    <3>2. CASE g = 0
      BY ONLY <1>3, <3>1, <3>2, n = LengthAt(i, g, l, lead) DEF LengthAt
    <3>3. CASE g # 0
      <4>1. n = 2 * g - 1 /\ lead = 0
        BY ONLY <1>1, <1>3, <3>1, <3>3, n = LengthAt(i, g, l, lead) DEF LengthAt
      <4> QED
        BY ONLY <1>1, <3>3, <4>1
    <3> QED
      BY ONLY <3>2, <3>3
  <2>2. Planned(Colon, n + 1, words, g, l, lead)
    <3>1. CASE g = 0
      <4>1. n + 1 = 1 /\ lead = 1
        BY ONLY <1>3, <2>1, <3>1
      <4> QED
        BY ONLY <4>1, PlannedFirst
    <3>2. CASE g # 0
      <4>1. g >= 1 /\ n + 1 = lead + 2 * g /\ Colon = IF g <= g THEN Colon ELSE Hex(words[l + g])
        BY ONLY <1>1, <2>1, <3>2
      <4> QED
        BY ONLY <1>1, <4>1, PlannedEven
    <3> QED
      BY ONLY <3>1, <3>2
  <2>3. Colon \in Tokens6
    BY ONLY TokensAre
  <2>4. Follows(Append(t, Colon), n + 1, words, g, l, lead) /\ Len(Append(t, Colon)) = n + 1
    BY ONLY <2>1, <2>2, <2>3, Follows(t, n, words, g, l, lead), Len(t) = n, FollowsMore
  <2> QED
    BY ONLY <1>3, <1>4, <1>5, <2>1, <2>4
<1>6. CASE j # g + 1
  <2>1. i # 0 /\ ~(i <= g) /\ i <= g + l
    BY ONLY <1>1, <1>3, <1>6, j = i + 1, i \in Nat
  <2>2. n = lead + 2 * g
    BY ONLY <2>1, n = LengthAt(i, g, l, lead) DEF LengthAt
  <2> QED
    BY ONLY <1>3, <1>4, <1>6, <2>2, Follows(t, n, words, g, l, lead), Len(t) = n
<1> QED
  BY ONLY <1>5, <1>6

(* The last two words in dotted form.                                      *)
LEMMA QuadWritten ==
    ASSUME NEW words, NEW best, NEW g, NEW l, NEW lead, Splits(words, best, g, l, lead),
           NEW t, NEW n, n = LengthAt(6, g, l, lead), Follows(t, n, words, g, l, lead),
           Len(t) = n, ~InRun(best, 7), IsQuad(words, best, 7)
    PROVE  \E m : EndsDotted(Append(Append(t, Colon), Quad(words[7], words[8])), m,
                             words, g, l, lead)
<1>1. words \in Address6 /\ g \in Nat /\ l \in Nat
  BY ONLY Splits(words, best, g, l, lead) DEF Splits
<1>2. g = 0 /\ (l = 5 \/ l = 6) /\ lead = 1
  <2>1. 7 \in Nat
    OBVIOUS
  <2>2. /\ ~(l >= 2 /\ g + 1 <= 7 /\ 7 <= g + l)
        /\ g = 0 /\ (l = 5 \/ l = 6 \/ l = 7) /\ lead = 1
    BY ONLY <2>1, ~InRun(best, 7), IsQuad(words, best, 7), Splits(words, best, g, l, lead), SplitIs
  <2> QED
    BY ONLY <2>2
<1>3. n = 2 * (8 - l) - 3 /\ n \in Nat
  BY ONLY <1>2, n = LengthAt(6, g, l, lead) DEF LengthAt
<1>4. PICK e, k, m, q : e = Quad(words[7], words[8]) /\ k = n + 1 /\ m = n + 2 /\ q = 7 - l
  OBVIOUS
<1>5. e \in Tokens6 /\ Colon \in Tokens6
  <2>1. 7 \in 1 .. 8 /\ 8 \in 1 .. 8
    OBVIOUS
  <2>2. words[7] \in Word /\ words[8] \in Word
    BY ONLY <1>1, <2>1 DEF Address6
  <2> QED
    BY ONLY <1>4, <2>2, TokensAre
<1>6. /\ q \in Nat /\ q >= 1 /\ k = lead + 2 * q - 1 /\ ~(q <= g) /\ k \in Nat
      /\ m = 2 * (8 - l) - 1 /\ k = m - 1 /\ m \in Nat /\ m = k + 1
  <2>1. CASE l = 5
    <3>1. n = 3
      BY ONLY <1>3, <2>1
    <3>2. k = 4 /\ m = 5 /\ q = 2
      BY ONLY <1>4, <2>1, <3>1
    <3> QED
      BY ONLY <1>2, <2>1, <3>2
  <2>2. CASE l = 6
    <3>1. n = 1
      BY ONLY <1>3, <2>2
    <3>2. k = 2 /\ m = 3 /\ q = 1
      BY ONLY <1>4, <2>2, <3>1
    <3> QED
      BY ONLY <1>2, <2>2, <3>2
  <2> QED
    BY ONLY <1>2, <2>1, <2>2
<1>7. Planned(Colon, k, words, g, l, lead)
  <2>1. Colon = IF q <= g THEN Hex(words[q]) ELSE Colon
    BY ONLY <1>6
  <2>2. lead = 0 \/ lead = 1
    BY <1>2
  <2> QED
    BY ONLY <1>1, <1>6, <2>1, <2>2, PlannedOdd
<1>8. PICK z, v : z = Append(t, Colon) /\ v = Append(z, e)
  OBVIOUS
<1>9. Follows(z, k, words, g, l, lead) /\ Len(z) = k
  BY ONLY SMTT(30), <1>3, <1>4, <1>5, <1>7, <1>8, Follows(t, n, words, g, l, lead), Len(t) = n, FollowsMore
<1>10. z \in Seq(Tokens6) /\ \A h \in 1 .. k : Planned(z[h], h, words, g, l, lead)
  BY ONLY <1>9 DEF Follows
<1>11. /\ v \in Seq(Tokens6) /\ Len(v) = m /\ v[m] = e
       /\ \A h \in 1 .. k : v[h] = z[h]
  <2>1. /\ Append(z, e) \in Seq(Tokens6) /\ Len(Append(z, e)) = Len(z) + 1
        /\ \A h \in 1 .. Len(z) : Append(z, e)[h] = z[h]
        /\ Append(z, e)[Len(z) + 1] = e
    BY ONLY <1>5, <1>10, AppendProperties
  <2> QED
    BY ONLY <1>6, <1>8, <1>9, <2>1
<1>12. Follows(v, m - 1, words, g, l, lead)
  <2>1. \A h \in 1 .. k : Planned(v[h], h, words, g, l, lead)
    BY ONLY <1>10, <1>11
  <2>2. k <= Len(v)
    BY ONLY <1>6, <1>11
  <2>3. Follows(v, k, words, g, l, lead)
    BY ONLY <1>6, <1>11, <2>1, <2>2 DEF Follows
  <2> QED
    BY ONLY <1>6, <2>3
<1> QED
  BY ONLY <1>2, <1>4, <1>6, <1>8, <1>11, <1>12 DEF EndsDotted

(* Every turn of the loop writes what is planned, or the dotted form.      *)
LEMMA TurnWritten ==
    ASSUME NEW words, NEW best, NEW g, NEW l, NEW lead, Splits(words, best, g, l, lead),
           NEW s, NEW i \in Nat, i < 8, NEW j, j = i + 1,
           \/ WrittenTo(s, i, words, g, l, lead)
           \/ WrittenAll(s, i, words, g, l, lead)
    PROVE  \/ WrittenTo(TextStep(words, best, s, j), j, words, g, l, lead)
           \/ WrittenAll(TextStep(words, best, s, j), j, words, g, l, lead)
<1>1. words \in Address6 /\ j \in 1 .. 8
  BY ONLY Splits(words, best, g, l, lead), i \in Nat, i < 8, j = i + 1 DEF Splits
<1>2. CASE WrittenAll(s, i, words, g, l, lead)
  <2>1. PICK t, n : s = DoneText(t) /\ i >= 7 /\ EndsDotted(t, n, words, g, l, lead)
    BY ONLY <1>2 DEF WrittenAll
  <2>2. t \in Seq(Tokens6)
    BY ONLY <2>1 DEF EndsDotted, Follows
  <2>3. TextStep(words, best, DoneText(t), j) = DoneText(t)
    BY ONLY <1>1, <2>2, TurnIs
  <2>4. j >= 7
    BY ONLY <2>1, j = i + 1, i \in Nat
  <2> QED
    BY ONLY <2>1, <2>3, <2>4 DEF WrittenAll
<1>3. CASE WrittenTo(s, i, words, g, l, lead)
  <2>1. PICK t, n : /\ s = OpenText(t) /\ n = LengthAt(i, g, l, lead)
                    /\ Follows(t, n, words, g, l, lead) /\ Len(t) = n
    BY ONLY <1>3 DEF WrittenTo
  <2>2. t \in Seq(Tokens6)
    BY ONLY <2>1 DEF Follows
  <2>0. PICK z : z = OpenText(t)
    OBVIOUS
  <2>6. /\ InRun(best, j) =>
              TextStep(words, best, OpenText(t), j) =
                  OpenText(IF j = best.base THEN Append(t, Colon) ELSE t)
        /\ ~InRun(best, j) /\ IsQuad(words, best, j) =>
              TextStep(words, best, OpenText(t), j) =
                  DoneText(Append(Append(t, Colon), Quad(words[7], words[8])))
        /\ ~InRun(best, j) /\ ~IsQuad(words, best, j) =>
              TextStep(words, best, OpenText(t), j) =
                  OpenText(IF j = 1 THEN Append(t, Hex(words[j]))
                       ELSE Append(Append(t, Colon), Hex(words[j])))
    BY ONLY <1>1, <2>2, TurnIs
  <2>3. CASE InRun(best, j)
    <3>1. TextStep(words, best, s, j) =
             OpenText(IF j = best.base THEN Append(t, Colon) ELSE t)
      BY ONLY <2>1, <2>6, <2>3
    <3>2. \E v, m : /\ v = IF j = best.base THEN Append(t, Colon) ELSE t
                    /\ m = LengthAt(j, g, l, lead)
                    /\ Follows(v, m, words, g, l, lead) /\ Len(v) = m
      BY ONLY <2>1, <2>3, Splits(words, best, g, l, lead), i \in Nat, i < 8, j = i + 1, RunWritten
    <3> QED
      BY ONLY <3>1, <3>2 DEF WrittenTo
  <2>4. CASE ~InRun(best, j) /\ IsQuad(words, best, j)
    <3>1. TextStep(words, best, s, j) =
             DoneText(Append(Append(t, Colon), Quad(words[7], words[8])))
      BY ONLY <2>1, <2>6, <2>4
    <3>2. j = 7 /\ i = 6 /\ j >= 7
      BY ONLY <2>4, j = i + 1, i \in Nat DEF IsQuad
    <3>3. \E m : EndsDotted(Append(Append(t, Colon), Quad(words[7], words[8])), m,
                            words, g, l, lead)
      BY ONLY <2>1, <2>4, <3>2, Splits(words, best, g, l, lead), QuadWritten
    <3> QED
      BY ONLY <3>1, <3>2, <3>3 DEF WrittenAll
  <2>5. CASE ~InRun(best, j) /\ ~IsQuad(words, best, j)
    <3>1. TextStep(words, best, s, j) =
             OpenText(IF j = 1 THEN Append(t, Hex(words[j]))
                  ELSE Append(Append(t, Colon), Hex(words[j])))
      BY ONLY <2>1, <2>6, <2>5
    <3>2. \E v, m : /\ v = IF j = 1 THEN Append(t, Hex(words[j]))
                           ELSE Append(Append(t, Colon), Hex(words[j]))
                    /\ m = LengthAt(j, g, l, lead)
                    /\ Follows(v, m, words, g, l, lead) /\ Len(v) = m
      BY ONLY <2>1, <2>5, Splits(words, best, g, l, lead), i \in Nat, i < 8, j = i + 1, WordWritten
    <3> QED
      BY ONLY <3>1, <3>2 DEF WrittenTo
  <2> QED
    BY ONLY <2>3, <2>4, <2>5
<1> QED
  BY ONLY <1>2, <1>3, \/ WrittenTo(s, i, words, g, l, lead)
                      \/ WrittenAll(s, i, words, g, l, lead)

HasWritten(words, best, g, l, lead, i) ==
    \/ WrittenTo(Writing6(words, best)[i], i, words, g, l, lead)
    \/ WrittenAll(Writing6(words, best)[i], i, words, g, l, lead)

(* So do all turns together.                                               *)
LEMMA WritingDone ==
    ASSUME NEW words, NEW best, NEW g, NEW l, NEW lead, Splits(words, best, g, l, lead)
    PROVE  HasWritten(words, best, g, l, lead, 8)
<1>0. PICK f : f = Writing6(words, best)
  OBVIOUS
<1>1. /\ f[0] = [text |-> <<>>, done |-> FALSE]
      /\ \A i \in 1 .. 8 : f[i] = TextStep(words, best, f[i - 1], i)
  BY ONLY <1>0, Writing6Is
<1> DEFINE P == {i \in Nat : i <= 8 => HasWritten(words, best, g, l, lead, i)}
<1>2. 0 \in P
  <2>1. PICK t, n : t = <<>> /\ n = 0
    OBVIOUS
  <2>2. f[0] = OpenText(t)
    BY ONLY <1>1, <2>1 DEF OpenText
  <2>3. n = LengthAt(0, g, l, lead)
    BY ONLY <2>1 DEF LengthAt
  <2>4. Follows(t, n, words, g, l, lead) /\ Len(t) = n
    BY ONLY <2>1 DEF Follows
  <2>5. HasWritten(words, best, g, l, lead, 0)
    BY ONLY <1>0, <2>2, <2>3, <2>4 DEF HasWritten, WrittenTo
  <2> QED
    BY <2>5
<1>3. ASSUME NEW i \in Nat, i \in P PROVE i + 1 \in P
  <2>1. PICK j : j = i + 1
    OBVIOUS
  <2>2. ASSUME j <= 8 PROVE HasWritten(words, best, g, l, lead, j)
    <3>1. i <= 8 /\ i < 8 /\ j \in 1 .. 8 /\ j - 1 = i
      BY ONLY <2>1, <2>2, i \in Nat
    <3>2. PICK s : s = f[i]
      OBVIOUS
    <3>3. WrittenTo(s, i, words, g, l, lead) \/ WrittenAll(s, i, words, g, l, lead)
      <4>1. HasWritten(words, best, g, l, lead, i)
        BY <1>3, <3>1
      <4> QED
        BY ONLY <1>0, <3>2, <4>1 DEF HasWritten
    <3>4. f[j] = TextStep(words, best, s, j)
      BY ONLY <1>1, <3>1, <3>2
    <3>5. \/ WrittenTo(TextStep(words, best, s, j), j, words, g, l, lead)
          \/ WrittenAll(TextStep(words, best, s, j), j, words, g, l, lead)
      BY ONLY <2>1, <3>1, <3>3, Splits(words, best, g, l, lead), i \in Nat, TurnWritten
    <3> QED
      BY ONLY <1>0, <3>4, <3>5 DEF HasWritten
  <2> QED
    BY <2>1, <2>2
<1>4. \A i \in Nat : i \in P
  <2> HIDE DEF P
  <2> QED
    BY ONLY <1>2, <1>3, Induct
<1> QED
  BY <1>4

(* What inet_ntop6 has written: all words, or two colons for the run.      *)
PlainText(t, n, words, g, l, lead) ==
    g = 8 /\ l = 0 /\ lead = 0 /\ n = 15 /\ Follows(t, n, words, g, l, lead)
ShortText(t, n, words, g, l, lead) ==
    /\ l >= 2 /\ ZerosAt(words, g + 1, l) /\ (g = 0 <=> lead = 1)
    /\ \E c \in Nat :
          /\ c + l = 8 /\ g <= c
          /\ \/ g < c /\ n = lead + 2 * c /\ Follows(t, n, words, g, l, lead)
             \/ g = c /\ n = lead + 2 * c + 1 /\ Follows(t, n, words, g, l, lead)
             \/ EndsDotted(t, n, words, g, l, lead)
Wrote(t, n, words, g, l, lead) ==
    /\ words \in Address6 /\ g \in Nat /\ l \in Nat /\ g <= 8 /\ (lead = 0 \/ lead = 1)
    /\ n \in Nat /\ Len(t) = n /\ t \in Seq(Tokens6)
    /\ PlainText(t, n, words, g, l, lead) \/ ShortText(t, n, words, g, l, lead)

(* inet_ntop6 writes one of the forms, around the run that was found.      *)
LEMMA AllWritten ==
    ASSUME NEW words \in Address6
    PROVE  \E g, l, lead, n :
              /\ Wrote(Ntop6(words), n, words, g, l, lead)
              /\ Splits(words, BestRun(words), g, l, lead)
<1>1. PICK best, s : best = BestRun(words) /\ s = Writing6(words, best)[8]
  OBVIOUS
<1>2. IsBest(words, best)
  BY ONLY <1>1, BestRunIs
<1>3. PICK g, l, lead : /\ Splits(words, best, g, l, lead)
                        /\ best = NoRun \/ ZerosAt(words, g + 1, l)
  <2>1. CASE best = NoRun
    <3>1. PICK g, l, lead : g = 8 /\ l = 0 /\ lead = 0
      OBVIOUS
    <3>2. Splits(words, best, g, l, lead)
      BY ONLY <2>1, <3>1, words \in Address6 DEF Splits
    <3> QED
      BY <2>1, <3>2
  <2>2. CASE \E x, y \in Nat :
                best = [base |-> x, len |-> y] /\ y >= 2 /\ RunWithin(words, 8, x, y)
    <3>1. PICK x \in Nat, y \in Nat :
                best = [base |-> x, len |-> y] /\ y >= 2 /\ RunWithin(words, 8, x, y)
      BY <2>2
    <3>2. x >= 1 /\ x + y <= 9 /\ ZerosAt(words, x, y)
      BY ONLY <3>1, x \in Nat, y \in Nat DEF RunWithin
    <3>3. PICK g, lead : g = x - 1 /\ lead = IF x = 1 THEN 1 ELSE 0
      OBVIOUS
    <3>4. g + 1 = x /\ g \in Nat /\ g <= 8 /\ (lead = 0 \/ lead = 1) /\ g + y <= 8
          /\ (g = 0 <=> lead = 1)
      BY ONLY <3>1, <3>2, <3>3, x \in Nat, y \in Nat
    <3>5. Splits(words, best, g, y, lead)
      BY ONLY <3>1, <3>4, y \in Nat, words \in Address6 DEF Splits
    <3> QED
      BY ONLY <3>2, <3>4, <3>5
  <2>3. best = NoRun \/ \E x, y \in Nat :
                best = [base |-> x, len |-> y] /\ y >= 2 /\ RunWithin(words, 8, x, y)
    BY ONLY <1>2 DEF IsBest
  <2> QED
    BY ONLY <2>1, <2>2, <2>3
<1>4. /\ g \in Nat /\ l \in Nat /\ g <= 8 /\ (lead = 0 \/ lead = 1)
      /\ \/ best = NoRun /\ g = 8 /\ l = 0 /\ lead = 0
         \/ /\ best = [base |-> g + 1, len |-> l] /\ l >= 2 /\ g + l <= 8
            /\ g = 0 <=> lead = 1
  BY ONLY <1>3 DEF Splits
<1>5. Ntop6(words) = IF best.base # 0 /\ best.base + best.len = 9
                     THEN Append(s.text, Colon) ELSE s.text
  BY ONLY <1>1 DEF Ntop6
<1>6. WrittenTo(s, 8, words, g, l, lead) \/ WrittenAll(s, 8, words, g, l, lead)
  BY ONLY <1>1, <1>3, WritingDone DEF HasWritten
<1>7. CASE best = NoRun
  <2>1. g = 8 /\ l = 0 /\ lead = 0
    <3>1. best.base = 0
      BY ONLY <1>7 DEF NoRun
    <3>2. ~(best = [base |-> g + 1, len |-> l])
      <4>1. PICK x : x = g + 1
        OBVIOUS
      <4>2. x # 0
        BY ONLY <1>4, <4>1
      <4> QED
        BY ONLY <3>1, <4>1, <4>2
    <3> QED
      BY ONLY <1>4, <3>2
  <2>2. WrittenTo(s, 8, words, g, l, lead)
    BY ONLY <1>6, <2>1 DEF WrittenAll, EndsDotted
  <2>3. PICK t, n : /\ s = OpenText(t) /\ n = LengthAt(8, g, l, lead)
                    /\ Follows(t, n, words, g, l, lead) /\ Len(t) = n
    BY ONLY <2>2 DEF WrittenTo
  <2>4. n = 15
    BY ONLY <2>1, <2>3 DEF LengthAt
  <2>5. s.text = t /\ best.base = 0
    BY ONLY <1>7, <2>3 DEF OpenText, NoRun
  <2>6. Ntop6(words) = t
    BY ONLY <1>5, <2>5
  <2>7. n \in Nat /\ t \in Seq(Tokens6)
    BY ONLY <2>3 DEF Follows
  <2>8. Wrote(t, n, words, g, l, lead)
    BY ONLY <1>4, <2>1, <2>3, <2>4, <2>7, words \in Address6 DEF Wrote, PlainText
  <2> QED
    BY ONLY <1>1, <1>3, <2>6, <2>8
<1>8. CASE best # NoRun
  <2>1. /\ best = [base |-> g + 1, len |-> l] /\ l >= 2 /\ g + l <= 8
        /\ g = 0 <=> lead = 1
    BY ONLY <1>4, <1>8
  <2>2. ZerosAt(words, g + 1, l)
    BY ONLY <1>3, <1>8
  <2>3. PICK x, c : x = g + 1 /\ c = 8 - l
    OBVIOUS
  <2>4. best.base = x /\ best.len = l
    BY ONLY <2>1, <2>3
  <2>5. c \in Nat /\ c + l = 8 /\ g <= c /\ x # 0 /\ (x + l = 9 <=> g = c)
    BY ONLY <1>4, <2>1, <2>3
  <2>6. Ntop6(words) = IF g = c THEN Append(s.text, Colon) ELSE s.text
    BY ONLY <1>5, <2>4, <2>5
  <2>7. CASE WrittenAll(s, 8, words, g, l, lead)
    <3>1. PICK t, n : s = DoneText(t) /\ EndsDotted(t, n, words, g, l, lead)
      BY ONLY <2>7 DEF WrittenAll
    <3>2. /\ g = 0 /\ (l = 5 \/ l = 6) /\ n = 2 * (8 - l) - 1 /\ Len(t) = n
          /\ t \in Seq(Tokens6)
      BY ONLY <3>1 DEF EndsDotted, Follows
    <3>3. g # c /\ n \in Nat
      BY ONLY <2>5, <3>2
    <3>4. s.text = t
      BY ONLY <3>1 DEF DoneText
    <3>5. Ntop6(words) = t
      BY ONLY <2>6, <3>3, <3>4
    <3>6. ShortText(t, n, words, g, l, lead)
      BY ONLY <2>1, <2>2, <2>5, <3>1 DEF ShortText
    <3>7. Wrote(t, n, words, g, l, lead)
      BY ONLY <1>4, <3>2, <3>3, <3>6, words \in Address6 DEF Wrote
    <3> QED
      BY ONLY <1>1, <1>3, <3>5, <3>7
  <2>8. CASE WrittenTo(s, 8, words, g, l, lead)
    <3>1. PICK t, n : /\ s = OpenText(t) /\ n = LengthAt(8, g, l, lead)
                      /\ Follows(t, n, words, g, l, lead) /\ Len(t) = n
      BY ONLY <2>8 DEF WrittenTo
    <3>2. s.text = t
      BY ONLY <3>1 DEF OpenText
    <3>3. n = lead + 2 * c /\ n \in Nat
      <4>1. ~(8 <= g) /\ 8 - l = c
        BY ONLY <1>4, <2>1, <2>3, <2>5
      <4>2. CASE 8 <= g + l
        <5>1. g = c
          BY ONLY <1>4, <2>1, <2>5, <4>2
        <5> QED
          BY ONLY <1>4, <3>1, <4>1, <4>2, <5>1 DEF LengthAt
      <4>3. CASE ~(8 <= g + l)
        BY ONLY <1>4, <2>5, <3>1, <4>1, <4>3 DEF LengthAt
      <4> QED
        BY ONLY <4>2, <4>3
    <3>4. t \in Seq(Tokens6)
      BY ONLY <3>1 DEF Follows
    <3>5. CASE g # c
      <4>1. Ntop6(words) = t
        BY ONLY <2>6, <3>2, <3>5
      <4>2. g < c
        BY ONLY <1>4, <2>5, <3>5
      <4>3. ShortText(t, n, words, g, l, lead)
        BY ONLY <2>1, <2>2, <2>5, <3>1, <3>3, <4>2 DEF ShortText
      <4>4. Wrote(t, n, words, g, l, lead)
        BY ONLY <1>4, <3>1, <3>3, <3>4, <4>3, words \in Address6 DEF Wrote
      <4> QED
        BY ONLY <1>1, <1>3, <4>1, <4>4
    <3>6. CASE g = c
      <4>1. PICK v, m, q : v = Append(t, Colon) /\ m = n + 1 /\ q = g + 1
        OBVIOUS
      <4>2. /\ m \in Nat /\ m = lead + 2 * c + 1 /\ q \in Nat /\ q >= 1 /\ ~(q <= g)
            /\ n + 1 = lead + 2 * q - 1
        BY ONLY <1>4, <2>5, <3>3, <3>6, <4>1
      <4>3. Planned(Colon, n + 1, words, g, l, lead)
        <5>1. Colon = IF q <= g THEN Hex(words[q]) ELSE Colon
          BY ONLY <4>2
        <5> QED
          BY ONLY <1>4, <4>2, <5>1, PlannedOdd
      <4>4. Colon \in Tokens6
        BY ONLY TokensAre
      <4>5. Follows(v, m, words, g, l, lead) /\ Len(v) = m
        BY ONLY <3>1, <3>3, <4>1, <4>3, <4>4, FollowsMore
      <4>6. v \in Seq(Tokens6)
        BY ONLY <4>5 DEF Follows
      <4>7. Ntop6(words) = v
        BY ONLY <2>6, <3>2, <3>6, <4>1
      <4>8. ShortText(v, m, words, g, l, lead)
        BY ONLY <2>1, <2>2, <2>5, <3>6, <4>2, <4>5 DEF ShortText
      <4>9. Wrote(v, m, words, g, l, lead)
        BY ONLY <1>4, <4>2, <4>5, <4>6, <4>8, words \in Address6 DEF Wrote
      <4> QED
        BY ONLY <1>1, <1>3, <4>7, <4>9
    <3> QED
      BY ONLY <3>5, <3>6
  <2> QED
    BY ONLY <1>6, <2>7, <2>8
<1> QED
  BY ONLY <1>7, <1>8

(* What stands at a place of a text that was written as planned.           *)
LEMMA OddPlace ==
    ASSUME NEW t, NEW m, NEW words, NEW g, NEW l, NEW lead, Follows(t, m, words, g, l, lead),
           lead = 0 \/ lead = 1, NEW q \in Nat, q >= 1, NEW k, k = lead + 2 * q - 1, k <= m
    PROVE  t[k] = IF q <= g THEN Hex(words[q]) ELSE Colon
<1>1. m \in Nat /\ \A i \in 1 .. m : Planned(t[i], i, words, g, l, lead)
  BY ONLY Follows(t, m, words, g, l, lead) DEF Follows
<1>2. k \in 1 .. m
  BY ONLY <1>1, lead = 0 \/ lead = 1, q \in Nat, q >= 1, k = lead + 2 * q - 1, k <= m
<1>3. Planned(t[k], k, words, g, l, lead)
  BY ONLY <1>1, <1>2
<1> QED
  BY ONLY <1>3, q \in Nat, q >= 1, k = lead + 2 * q - 1 DEF Planned

(* What stands at an even place behind the lead.                           *)
LEMMA EvenPlace ==
    ASSUME NEW t, NEW m, NEW words, NEW g, NEW l, NEW lead, Follows(t, m, words, g, l, lead),
           lead = 0 \/ lead = 1, NEW q \in Nat, q >= 1, NEW k, k = lead + 2 * q, k <= m
    PROVE  t[k] = IF q <= g THEN Colon ELSE Hex(words[l + q])
<1>1. m \in Nat /\ \A i \in 1 .. m : Planned(t[i], i, words, g, l, lead)
  BY ONLY Follows(t, m, words, g, l, lead) DEF Follows
<1>2. k \in 1 .. m
  BY ONLY <1>1, lead = 0 \/ lead = 1, q \in Nat, q >= 1, k = lead + 2 * q, k <= m
<1>3. Planned(t[k], k, words, g, l, lead)
  BY ONLY <1>1, <1>2
<1> QED
  BY ONLY <1>3, q \in Nat, q >= 1, k = lead + 2 * q DEF Planned

(* The lead is a colon.                                                    *)
LEMMA FirstPlace ==
    ASSUME NEW t, NEW m, NEW words, NEW g, NEW l, Follows(t, m, words, g, l, 1), m >= 1
    PROVE  t[1] = Colon
<1>1. m \in Nat /\ \A i \in 1 .. m : Planned(t[i], i, words, g, l, 1)
  BY ONLY Follows(t, m, words, g, l, 1) DEF Follows
<1>2. 1 \in 1 .. m
  BY ONLY <1>1, m >= 1
<1> QED
  BY ONLY <1>1, <1>2 DEF Planned

(* What inet_pton6 reads behind a leading colon.                           *)
BehindLead(t, lead) == IF lead = 1 THEN Tail(t) ELSE t

Leads(t, n, lead, m) ==
    /\ t \in Seq(Tokens6) /\ n \in Nat /\ Len(t) = n /\ n >= 2 /\ (lead = 0 \/ lead = 1)
    /\ m = n - lead
IsBehind(u, t, lead, m) == Len(u) = m /\ \A i \in 1 .. m : u[i] = t[lead + i]

(* What inet_pton6 sees of the text: all but the leading colon.            *)
LEMMA BehindIs ==
    ASSUME NEW t, NEW n, NEW lead, NEW m, Leads(t, n, lead, m)
    PROVE  IsBehind(BehindLead(t, lead), t, lead, m)
<1>0. /\ t \in Seq(Tokens6) /\ n \in Nat /\ Len(t) = n /\ n >= 2 /\ (lead = 0 \/ lead = 1)
      /\ m = n - lead
  BY ONLY Leads(t, n, lead, m) DEF Leads
<1>1. CASE lead = 0
  <2>1. BehindLead(t, lead) = t
    BY ONLY <1>1 DEF BehindLead
  <2>2. m = n /\ \A i \in 1 .. n : lead + i = i
    BY ONLY <1>0, <1>1
  <2> QED
    BY ONLY <1>0, <2>1, <2>2 DEF IsBehind
<1>2. CASE lead = 1
  <2>1. BehindLead(t, lead) = Tail(t)
    BY ONLY <1>2 DEF BehindLead
  <2>2. t # <<>>
    BY ONLY <1>0
  <2>3. Len(Tail(t)) = Len(t) - 1 /\ \A i \in 1 .. Len(Tail(t)) : Tail(t)[i] = t[i + 1]
    BY ONLY <1>0, <2>2, HeadTailProperties
  <2>4. m = n - 1 /\ \A i \in 1 .. m : lead + i = i + 1
    BY ONLY <1>0, <1>2
  <2> QED
    BY ONLY <1>0, <2>1, <2>3, <2>4 DEF IsBehind
<1> QED
  BY ONLY <1>0, <1>1, <1>2

(* Its first 2 * m tokens stand for m words.                               *)
Stands(t, k, words, g, l, lead, u, n, m) ==
    /\ Follows(t, k, words, g, l, lead) /\ (lead = 0 \/ lead = 1) /\ IsBehind(u, t, lead, n)
    /\ m \in Nat /\ n \in Nat /\ lead + 2 * m <= k /\ 2 * m <= n

(* The planned places are the groups and colons that reading meets.        *)
LEMMA PairsShown ==
    ASSUME NEW t, NEW k, NEW words, NEW g, NEW l, NEW lead, NEW u, NEW n, NEW m,
           Stands(t, k, words, g, l, lead, u, n, m)
    PROVE  \A q \in 1 .. m : PairAt(u, words, g, l, q)
<1>0. /\ Follows(t, k, words, g, l, lead) /\ (lead = 0 \/ lead = 1)
      /\ m \in Nat /\ n \in Nat /\ lead + 2 * m <= k /\ 2 * m <= n /\ k \in Nat
      /\ \A i \in 1 .. n : u[i] = t[lead + i]
  BY ONLY Stands(t, k, words, g, l, lead, u, n, m) DEF Stands, IsBehind, Follows
<1> SUFFICES ASSUME NEW q \in 1 .. m PROVE PairAt(u, words, g, l, q)
  OBVIOUS
<1>1. PICK i, j, a, b : i = 2 * q - 1 /\ j = 2 * q /\ a = lead + 2 * q - 1 /\ b = lead + 2 * q
  OBVIOUS
<1>3. /\ q \in Nat /\ q >= 1 /\ a <= k /\ b <= k /\ lead + i = a /\ lead + j = b
      /\ i \in 1 .. n /\ j \in 1 .. n
  BY <1>0, <1>1
<1>4. t[a] = IF q <= g THEN Hex(words[q]) ELSE Colon
  BY ONLY <1>0, <1>1, <1>3, OddPlace
<1>5. t[b] = IF q <= g THEN Colon ELSE Hex(words[l + q])
  BY ONLY <1>0, <1>1, <1>3, EvenPlace
<1>6. u[i] = t[a] /\ u[j] = t[b]
  BY ONLY <1>0, <1>3
<1> QED
  BY ONLY <1>1, <1>4, <1>5, <1>6 DEF PairAt

(* The text that was written is one that inet_pton6 reads as the address.  *)
LEMMA WroteDisplays ==
    ASSUME NEW t, NEW n, NEW words, NEW g, NEW l, NEW lead, Wrote(t, n, words, g, l, lead)
    PROVE  Displays(BehindLead(t, lead), words, g, l) /\ n >= 2
<1>1. /\ words \in Address6 /\ g \in Nat /\ l \in Nat /\ g <= 8 /\ (lead = 0 \/ lead = 1)
      /\ n \in Nat /\ Len(t) = n /\ t \in Seq(Tokens6)
      /\ PlainText(t, n, words, g, l, lead) \/ ShortText(t, n, words, g, l, lead)
  BY ONLY Wrote(t, n, words, g, l, lead) DEF Wrote
<1>2. PICK u : u = BehindLead(t, lead)
  OBVIOUS
<1>3. CASE PlainText(t, n, words, g, l, lead)
  <2>1. g = 8 /\ l = 0 /\ lead = 0 /\ n = 15 /\ Follows(t, 15, words, g, l, lead)
    BY ONLY <1>3 DEF PlainText
  <2>2. n >= 2 /\ n - lead = 15
    BY ONLY <2>1
  <2>8. IsBehind(u, t, lead, 15)
    <3>1. Leads(t, n, lead, 15)
      BY ONLY <1>1, <2>2 DEF Leads
    <3> QED
      BY ONLY <1>2, <3>1, BehindIs
  <2>3. Len(u) = 15 /\ \A i \in 1 .. 15 : u[i] = t[lead + i]
    BY ONLY <2>8 DEF IsBehind
  <2>4. \A q \in 1 .. 7 : PairAt(u, words, g, l, q)
    <3>1. 7 \in Nat /\ 15 \in Nat /\ lead + 2 * 7 <= 15 /\ 2 * 7 <= 15
      BY ONLY <2>1
    <3>2. Stands(t, 15, words, g, l, lead, u, 15, 7)
      BY ONLY <1>1, <2>1, <2>8, <3>1 DEF Stands
    <3> QED
      BY ONLY <3>2, PairsShown
  <2>5. u[15] = Hex(words[8])
    <3>1. PICK q, k : q = 8 /\ k = 15
      OBVIOUS
    <3>2. q \in Nat /\ q >= 1 /\ k = lead + 2 * q - 1 /\ k <= 15 /\ q <= g /\ lead + 15 = k
          /\ 15 \in 1 .. 15
      BY ONLY <2>1, <3>1
    <3>3. t[k] = IF q <= g THEN Hex(words[q]) ELSE Colon
      BY ONLY <1>1, <2>1, <3>2, OddPlace
    <3> QED
      BY ONLY <2>3, <3>1, <3>2, <3>3
  <2>6. ShowsPairs(u, 15, words, 8, 0, 7)
    <3>1. 15 \in Nat /\ 8 \in Nat /\ 0 \in Nat /\ 7 \in Nat /\ 8 <= 8 /\ 0 + 7 <= 8 /\ 7 <= 7
          /\ 7 <= 8 /\ 2 * 7 < 15
      OBVIOUS
    <3> QED
      BY ONLY <1>1, <2>1, <2>3, <2>4, <3>1 DEF ShowsPairs
  <2> QED
    BY ONLY <1>2, <2>1, <2>2, <2>5, <2>6 DEF Displays, IsPlain
<1>4. CASE ShortText(t, n, words, g, l, lead)
  <2>1. l >= 2 /\ ZerosAt(words, g + 1, l) /\ (g = 0 <=> lead = 1)
    BY ONLY <1>4 DEF ShortText
  <2>2. PICK c \in Nat :
           /\ c + l = 8 /\ g <= c
           /\ \/ g < c /\ n = lead + 2 * c /\ Follows(t, n, words, g, l, lead)
              \/ g = c /\ n = lead + 2 * c + 1 /\ Follows(t, n, words, g, l, lead)
              \/ EndsDotted(t, n, words, g, l, lead)
    BY ONLY <1>4 DEF ShortText
  <2>3. \A j \in 1 .. l : words[g + j] = 0
    <3>1. ASSUME NEW j \in 1 .. l PROVE words[g + j] = 0
      <4>1. PICK i : i = g + j
        OBVIOUS
      <4>2. i \in Nat /\ g + 1 <= i /\ i < g + 1 + l
        BY ONLY <1>1, <4>1, j \in 1 .. l
      <4> QED
        BY ONLY <2>1, <4>1, <4>2 DEF ZerosAt
    <3> QED
      BY ONLY <3>1
  <2>4. c <= 6 /\ c <= 7 /\ l + c <= 8
    BY ONLY <1>1, <2>1, <2>2
  <2>5. CASE g < c /\ n = lead + 2 * c /\ Follows(t, n, words, g, l, lead)
    <3>1. PICK m : m = 2 * c
      OBVIOUS
    <3>2. n >= 2 /\ n - lead = m /\ m \in Nat /\ lead + 2 * c <= n /\ 2 * c <= m /\ ~(c <= g)
      BY ONLY <1>1, <2>2, <2>5, <3>1
    <3>8. IsBehind(u, t, lead, m)
      <4>1. Leads(t, n, lead, m)
        BY ONLY <1>1, <3>2 DEF Leads
      <4> QED
        BY ONLY <1>2, <4>1, BehindIs
    <3>3. Len(u) = m /\ \A i \in 1 .. m : u[i] = t[lead + i]
      BY ONLY <3>8 DEF IsBehind
    <3>4. \A i \in 1 .. c : PairAt(u, words, g, l, i)
      <4>1. Stands(t, n, words, g, l, lead, u, m, c)
        BY ONLY <1>1, <2>5, <3>2, <3>8, c \in Nat DEF Stands
      <4> QED
        BY ONLY <4>1, PairsShown
    <3>5. ShowsPairs(u, m, words, g, l, c)
      BY ONLY <1>1, <2>4, <3>2, <3>3, <3>4, c \in Nat DEF ShowsPairs
    <3>6. IsInner(u, words, g, l, c)
      BY ONLY <2>5, <3>1, <3>5 DEF IsInner
    <3> QED
      BY ONLY <1>1, <1>2, <2>1, <2>2, <2>3, <3>2, <3>6 DEF Displays, IsShortened
  <2>6. CASE g = c /\ n = lead + 2 * c + 1 /\ Follows(t, n, words, g, l, lead)
    <3>1. PICK m, k, q : m = 2 * c + 1 /\ k = n /\ q = c + 1
      OBVIOUS
    <3>2. /\ n >= 2 /\ n - lead = m /\ m \in Nat /\ lead + 2 * c <= n /\ 2 * c <= m /\ c <= g
          /\ 2 * c < m /\ q \in Nat /\ q >= 1 /\ k = lead + 2 * q - 1 /\ k <= n /\ ~(q <= g)
          /\ lead + m = k /\ m \in 1 .. m
      <4>1. c = 0 => lead = 1
        BY ONLY <2>1, <2>6
      <4> QED
        BY ONLY <1>1, <2>2, <2>6, <3>1, <4>1
    <3>8. IsBehind(u, t, lead, m)
      <4>1. Leads(t, n, lead, m)
        BY ONLY <1>1, <3>2 DEF Leads
      <4> QED
        BY ONLY <1>2, <4>1, BehindIs
    <3>3. Len(u) = m /\ \A i \in 1 .. m : u[i] = t[lead + i]
      BY ONLY <3>8 DEF IsBehind
    <3>4. \A i \in 1 .. c : PairAt(u, words, g, l, i)
      <4>1. Stands(t, n, words, g, l, lead, u, m, c)
        BY ONLY <1>1, <2>6, <3>2, <3>8, c \in Nat DEF Stands
      <4> QED
        BY ONLY <4>1, PairsShown
    <3>5. ShowsPairs(u, m, words, g, l, c)
      BY ONLY <1>1, <2>4, <3>2, <3>3, <3>4, c \in Nat DEF ShowsPairs
    <3>6. u[m] = Colon
      <4>0. /\ Follows(t, n, words, g, l, lead) /\ (lead = 0 \/ lead = 1)
            /\ q \in Nat /\ q >= 1 /\ k = lead + 2 * q - 1 /\ k <= n
        BY ONLY <1>1, <2>6, <3>2
      <4>1. t[k] = IF q <= g THEN Hex(words[q]) ELSE Colon
        BY ONLY <4>0, OddPlace
      <4> QED
        BY ONLY <3>2, <3>3, <4>1
    <3>7. IsAtEnd(u, words, g, l, c)
      BY ONLY <2>6, <3>1, <3>5, <3>6 DEF IsAtEnd
    <3> QED
      BY ONLY <1>1, <1>2, <2>1, <2>2, <2>3, <3>2, <3>7 DEF Displays, IsShortened
  <2>7. CASE EndsDotted(t, n, words, g, l, lead)
    <3>1. /\ g = 0 /\ (l = 5 \/ l = 6) /\ lead = 1 /\ n = 2 * (8 - l) - 1
          /\ Follows(t, n - 1, words, g, l, lead) /\ Len(t) = n
          /\ t[n] = Quad(words[7], words[8])
      BY ONLY <2>7 DEF EndsDotted
    <3>2. PICK k, m, d, i, q : k = n - 1 /\ m = 2 * c - 2 /\ d = c - 2 /\ i = 2 * c - 3 /\ q = c - 1
      OBVIOUS
    <3>3. c = 2 \/ c = 3
      BY ONLY <2>2, <3>1
    <3>4. /\ n >= 2 /\ n - lead = m /\ m \in Nat /\ d \in Nat /\ lead + 2 * d <= k /\ 2 * d <= m
          /\ lead + m = n /\ lead + i = k /\ k = lead + 2 * q - 1 /\ q \in Nat /\ q >= 1
          /\ ~(q <= g) /\ i \in 1 .. m /\ m \in 1 .. m /\ l + d <= 8 /\ d <= 7 /\ k <= k
          /\ (d <= g => 2 * d < m) /\ g <= 8
      <4>1. CASE c = 2
        <5>1. l = 6 /\ n = 3
          BY ONLY <2>2, <3>1, <4>1
        <5>2. k = 2 /\ m = 2 /\ d = 0 /\ i = 1 /\ q = 1
          BY ONLY <3>2, <4>1, <5>1
        <5> QED
          BY ONLY <3>1, <5>1, <5>2
      <4>2. CASE c = 3
        <5>1. l = 5 /\ n = 5
          BY ONLY <2>2, <3>1, <4>2
        <5>2. k = 4 /\ m = 4 /\ d = 1 /\ i = 3 /\ q = 2
          BY ONLY <3>2, <4>2, <5>1
        <5> QED
          BY ONLY <3>1, <5>1, <5>2
      <4> QED
        BY ONLY <3>3, <4>1, <4>2
    <3>12. IsBehind(u, t, lead, m)
      <4>1. Leads(t, n, lead, m)
        BY ONLY <1>1, <3>4 DEF Leads
      <4> QED
        BY ONLY <1>2, <4>1, BehindIs
    <3>5. Len(u) = m /\ \A h \in 1 .. m : u[h] = t[lead + h]
      BY ONLY <3>12 DEF IsBehind
    <3>6. Follows(t, k, words, g, l, lead)
      BY ONLY <3>1, <3>2
    <3>7. \A h \in 1 .. d : PairAt(u, words, g, l, h)
      <4>1. Stands(t, k, words, g, l, lead, u, m, d)
        BY ONLY <1>1, <3>4, <3>6, <3>12 DEF Stands
      <4> QED
        BY ONLY <4>1, PairsShown
    <3>8. ShowsPairs(u, m, words, g, l, d)
      BY ONLY <1>1, <3>4, <3>5, <3>7 DEF ShowsPairs
    <3>9. u[i] = Colon
      <4>0. /\ Follows(t, k, words, g, l, lead) /\ (lead = 0 \/ lead = 1)
            /\ q \in Nat /\ q >= 1 /\ k = lead + 2 * q - 1 /\ k <= k
        BY ONLY <1>1, <3>4, <3>6
      <4>1. t[k] = IF q <= g THEN Hex(words[q]) ELSE Colon
        BY ONLY <4>0, OddPlace
      <4> QED
        BY ONLY <3>4, <3>5, <4>1
    <3>10. u[m] = Quad(words[7], words[8])
      BY ONLY <3>1, <3>4, <3>5
    <3>11. IsEncapsulated(u, words, g, l, c)
      BY ONLY <3>1, <3>2, <3>3, <3>8, <3>9, <3>10 DEF IsEncapsulated
    <3> QED
      BY ONLY <1>1, <1>2, <2>1, <2>2, <2>3, <3>4, <3>11 DEF Displays, IsShortened
  <2> QED
    BY ONLY <2>2, <2>5, <2>6, <2>7
<1> QED
  BY ONLY <1>1, <1>3, <1>4

(* The first places, that inet_pton6 looks at for a leading colon.         *)
LEMMA LeadIs ==
    ASSUME NEW t, NEW n, NEW words, NEW g, NEW l, NEW lead, Wrote(t, n, words, g, l, lead)
    PROVE  IF lead = 1 THEN t[1] = Colon /\ t[2] = Colon ELSE t[1] = Hex(words[1])
<1>1. /\ words \in Address6 /\ g \in Nat /\ l \in Nat /\ g <= 8 /\ (lead = 0 \/ lead = 1)
      /\ n \in Nat
      /\ PlainText(t, n, words, g, l, lead) \/ ShortText(t, n, words, g, l, lead)
  BY ONLY Wrote(t, n, words, g, l, lead) DEF Wrote
<1>2. \E m \in Nat : Follows(t, m, words, g, l, lead) /\ m >= lead + 1 /\ (g = 0 <=> lead = 1)
  <2>1. CASE PlainText(t, n, words, g, l, lead)
    <3>1. Follows(t, n, words, g, l, lead) /\ n = 15 /\ g = 8 /\ lead = 0
      BY ONLY <2>1 DEF PlainText
    <3> QED
      BY ONLY <1>1, <3>1
  <2>2. CASE ShortText(t, n, words, g, l, lead)
    <3>1. PICK c \in Nat :
             /\ c + l = 8 /\ g <= c
             /\ \/ g < c /\ n = lead + 2 * c /\ Follows(t, n, words, g, l, lead)
                \/ g = c /\ n = lead + 2 * c + 1 /\ Follows(t, n, words, g, l, lead)
                \/ EndsDotted(t, n, words, g, l, lead)
      BY ONLY <2>2 DEF ShortText
    <3>2. g = 0 <=> lead = 1
      BY ONLY <2>2 DEF ShortText
    <3>3. CASE EndsDotted(t, n, words, g, l, lead)
      <4>1. Follows(t, n - 1, words, g, l, lead) /\ (n = 3 \/ n = 5) /\ lead = 1
        <5>1. /\ (l = 5 \/ l = 6) /\ lead = 1 /\ n = 2 * (8 - l) - 1
              /\ Follows(t, n - 1, words, g, l, lead)
          BY ONLY <3>3 DEF EndsDotted
        <5> QED
          BY ONLY <5>1
      <4>2. n - 1 \in Nat /\ n - 1 >= lead + 1
        BY ONLY <4>1
      <4> QED
        BY ONLY <3>2, <4>1, <4>2
    <3>4. CASE g < c /\ n = lead + 2 * c /\ Follows(t, n, words, g, l, lead)
      <4>1. n >= lead + 1
        BY ONLY <1>1, <3>1, <3>4
      <4> QED
        BY ONLY <1>1, <3>2, <3>4, <4>1
    <3>5. CASE g = c /\ n = lead + 2 * c + 1 /\ Follows(t, n, words, g, l, lead)
      <4>1. n >= lead + 1
        BY ONLY <1>1, <3>1, <3>5
      <4> QED
        BY ONLY <1>1, <3>2, <3>5, <4>1
    <3> QED
      BY ONLY <3>1, <3>3, <3>4, <3>5
  <2> QED
    BY ONLY <1>1, <2>1, <2>2
<1>3. PICK m \in Nat : Follows(t, m, words, g, l, lead) /\ m >= lead + 1 /\ (g = 0 <=> lead = 1)
  BY ONLY <1>2
<1>4. PICK q, k : q = 1 /\ k = lead + 1
  OBVIOUS
<1>5. q \in Nat /\ q >= 1 /\ k = lead + 2 * q - 1 /\ k <= m
  BY ONLY <1>1, <1>3, <1>4
<1>6. t[k] = IF q <= g THEN Hex(words[q]) ELSE Colon
  BY ONLY <1>1, <1>3, <1>5, OddPlace
<1>7. CASE lead = 1
  <2>1. k = 2 /\ ~(q <= g) /\ m >= 1
    BY ONLY <1>3, <1>4, <1>7
  <2>2. t[1] = Colon
    BY ONLY <1>3, <1>7, <2>1, FirstPlace
  <2> QED
    BY ONLY <1>6, <1>7, <2>1, <2>2
<1>8. CASE lead # 1
  <2>1. k = 1 /\ q <= g /\ q = 1
    BY ONLY <1>1, <1>3, <1>4, <1>8
  <2> QED
    BY ONLY <1>6, <1>8, <2>1
<1> QED
  BY ONLY <1>7, <1>8

(* inet_pton6 reads what inet_ntop6 wrote as the same address.             *)
LEMMA WroteReads ==
    ASSUME NEW t, NEW n, NEW words, NEW g, NEW l, NEW lead, Wrote(t, n, words, g, l, lead)
    PROVE  Pton6(t) = words
<1>1. /\ words \in Address6 /\ (lead = 0 \/ lead = 1) /\ n \in Nat /\ Len(t) = n
      /\ t \in Seq(Tokens6)
  BY ONLY Wrote(t, n, words, g, l, lead) DEF Wrote
<1>2. PICK u : u = BehindLead(t, lead)
  OBVIOUS
<1>3. Displays(u, words, g, l) /\ n >= 2
  BY ONLY <1>2, Wrote(t, n, words, g, l, lead), WroteDisplays
<1>4. Result6(u) = words
  BY ONLY <1>3, DisplayRead
<1>10. PICK m : m = n - lead
  OBVIOUS
<1>11. Leads(t, n, lead, m)
  BY ONLY <1>1, <1>3, <1>10 DEF Leads
<1>5. Len(u) = m /\ \A i \in 1 .. m : u[i] = t[lead + i]
  BY ONLY <1>2, <1>11, BehindIs DEF IsBehind
<1>6. IF lead = 1 THEN t[1] = Colon /\ t[2] = Colon ELSE t[1] = Hex(words[1])
  BY ONLY Wrote(t, n, words, g, l, lead), LeadIs
<1>7. t # <<>>
  BY ONLY <1>1, <1>3
<1>8. CASE lead = 1
  <2>1. u = Tail(t)
    BY ONLY <1>2, <1>8 DEF BehindLead
  <2>2. 1 \in 1 .. m /\ lead + 1 = 2 /\ m # 0
    BY ONLY <1>1, <1>3, <1>8, <1>10
  <2>3. u[1] = Colon /\ u # <<>> /\ t[1] = Colon
    BY ONLY <1>5, <1>6, <1>8, <2>2
  <2> QED
    BY ONLY <1>4, <1>7, <2>1, <2>3, Pton6Is
<1>9. CASE lead # 1
  <2>1. u = t
    BY ONLY <1>2, <1>9 DEF BehindLead
  <2>2. t[1] # Colon
    <3>1. 1 \in 1 .. 8
      OBVIOUS
    <3>2. words[1] \in Word
      BY ONLY <1>1, <3>1 DEF Address6
    <3>3. Hex(words[1]).kind = "hex" /\ Colon.kind = "colon"
      BY ONLY <3>2, HexIs, ColonIs
    <3> QED
      BY ONLY <1>6, <1>9, <3>3
  <2> QED
    BY ONLY <1>4, <1>7, <2>1, <2>2, Pton6Is
<1> QED
  BY ONLY <1>8, <1>9

(* Digits are of their own kind.                                           *)
LEMMA HexKind == ASSUME NEW w PROVE Hex(w).kind = "hex"
<1>1. PICK n, ws : n = HexLen(w) /\ ws = <<w>>
  OBVIOUS
<1>2. Hex(w) = [kind |-> "hex", words |-> ws, len |-> n, first |-> n]
  BY ONLY <1>1 DEF Hex, Token
<1> QED
  BY ONLY <1>2

(* A token is a colon, at most four digits, or at most fifteen characters. *)
LEMMA KindsAre ==
    ASSUME NEW e \in Tokens6
    PROVE  \/ e = Colon \/ (e.kind = "hex" /\ e.len \in 1 .. 4)
           \/ (e.kind = "quad" /\ e.len \in 1 .. 15)
<1>1. CASE e = Colon
  BY <1>1
<1>2. CASE \E w \in Word : e = Hex(w)
  <2>1. PICK w \in Word : e = Hex(w)
    BY <1>2
  <2>2. e.kind = "hex" /\ e.len \in 1 .. 4
    BY ONLY <2>1, w \in Word, HexIs
  <2> QED
    BY ONLY <2>2
<1>3. CASE \E p \in Word \X Word : e = Quad(p[1], p[2])
  <2>1. PICK p \in Word \X Word : e = Quad(p[1], p[2])
    BY <1>3
  <2>2. PICK h, w : h = p[1] /\ w = p[2]
    OBVIOUS
  <2>3. h \in Word /\ w \in Word /\ e = Quad(h, w)
    BY ONLY <2>1, <2>2, p \in Word \X Word
  <2>4. e.kind = "quad" /\ e.len \in 1 .. 15
    BY ONLY <2>3, QuadIs
  <2> QED
    BY ONLY <2>4
<1> QED
  BY ONLY <1>1, <1>2, <1>3, e \in Tokens6 DEF Tokens6

(* No zone is written.                                                     *)
LEMMA NoZone ==
    ASSUME NEW t \in Seq(Tokens6)
    PROVE  Zones(t) = {} /\ InetPton("inet6", t) = Pton6(t)
<1>1. ASSUME NEW i \in DOMAIN t PROVE t[i] # Percent
  <2>1. PICK n : n = Len(t)
    OBVIOUS
  <2>2. n \in Nat /\ DOMAIN t = 1 .. n
    BY ONLY <2>1, t \in Seq(Tokens6), LenProperties
  <2>3. t[i] \in Tokens6
    BY ONLY <2>1, <2>2, t \in Seq(Tokens6), i \in DOMAIN t, ElementOfSeq
  <2>4. PICK e : e = t[i]
    OBVIOUS
  <2>5. e = Colon \/ e.kind = "hex" \/ e.kind = "quad"
    BY ONLY <2>3, <2>4, KindsAre
  <2>6. Percent.kind = "percent" /\ Colon.kind = "colon"
    BY DEF Percent, Colon, Token
  <2> QED
    BY ONLY <2>4, <2>5, <2>6
<1>2. Zones(t) = {}
  BY <1>1 DEF Zones
<1>3. BeforeZone(t) = t
  BY ONLY <1>2 DEF BeforeZone
<1> QED
  BY ONLY <1>2, <1>3 DEF InetPton

(* The length of a text: five characters for a group and the colon.        *)
LEMMA PairLength ==
    ASSUME NEW t, NEW m, NEW words, NEW g, NEW l, NEW lead, Follows(t, m, words, g, l, lead),
           lead = 0 \/ lead = 1, NEW q \in Nat, q >= 1, NEW k, k = lead + 2 * q - 1
    PROVE  /\ k <= m => t[k].len \in 1 .. 4
           /\ k + 1 <= m => t[k].len + t[k + 1].len \in 1 .. 5
<1>1. t \in Seq(Tokens6) /\ m \in Nat /\ m <= Len(t) /\ Len(t) \in Nat
  BY ONLY Follows(t, m, words, g, l, lead), LenProperties DEF Follows
<1>2. PICK j : j = k + 1
  OBVIOUS
<1>3. k \in Nat /\ k >= 1 /\ j = lead + 2 * q
  BY ONLY <1>2, lead = 0 \/ lead = 1, q \in Nat, q >= 1, k = lead + 2 * q - 1
<1>4. Colon.len = 1
  BY ONLY ColonIs
<1>5. ASSUME NEW i \in 1 .. m, NEW w, t[i] = Hex(w) PROVE t[i].len \in 1 .. 4
  <2>1. i \in 1 .. Len(t)
    BY ONLY <1>1, i \in 1 .. m
  <2>2. t[i] \in Tokens6
    BY ONLY <1>1, <2>1, ElementOfSeq
  <2>3. PICK e : e = t[i]
    OBVIOUS
  <2>4. e.kind = "hex" /\ Colon.kind = "colon"
    BY ONLY <1>5, <2>3, HexKind, ColonIs
  <2>5. e.len \in 1 .. 4
    BY ONLY <2>2, <2>3, <2>4, KindsAre
  <2> QED
    BY ONLY <2>3, <2>5
<1>6. ASSUME k <= m
      PROVE  t[k].len \in 1 .. 4 /\ (~(q <= g) => t[k].len = 1)
  <2>1. k \in 1 .. m
    BY ONLY <1>1, <1>3, <1>6
  <2>2. t[k] = IF q <= g THEN Hex(words[q]) ELSE Colon
    BY ONLY <1>6, Follows(t, m, words, g, l, lead), lead = 0 \/ lead = 1, q \in Nat, q >= 1,
            k = lead + 2 * q - 1, OddPlace
  <2>3. CASE q <= g
    <3>1. PICK w : t[k] = Hex(w)
      BY ONLY <2>2, <2>3
    <3> QED
      BY ONLY <1>5, <2>1, <2>3, <3>1
  <2>4. CASE ~(q <= g)
    BY ONLY <1>4, <2>2, <2>4
  <2> QED
    BY ONLY <2>3, <2>4
<1>7. ASSUME j <= m
      PROVE  t[j].len \in 1 .. 4 /\ (q <= g => t[j].len = 1)
  <2>1. j \in 1 .. m
    BY ONLY <1>1, <1>2, <1>3, <1>7
  <2>2. t[j] = IF q <= g THEN Colon ELSE Hex(words[l + q])
    BY ONLY <1>3, <1>7, Follows(t, m, words, g, l, lead), lead = 0 \/ lead = 1, q \in Nat,
            q >= 1, EvenPlace
  <2>3. CASE ~(q <= g)
    <3>1. PICK w : t[j] = Hex(w)
      BY ONLY <2>2, <2>3
    <3> QED
      BY ONLY <1>5, <2>1, <2>3, <3>1
  <2>4. CASE q <= g
    BY ONLY <1>4, <2>2, <2>4
  <2> QED
    BY ONLY <2>3, <2>4
<1>8. ASSUME j <= m PROVE t[k].len + t[j].len \in 1 .. 5
  <2>1. k <= m
    BY ONLY <1>1, <1>2, <1>3, <1>8
  <2>2. PICK x, y : x = t[k].len /\ y = t[j].len
    OBVIOUS
  <2>3. x \in 1 .. 4 /\ y \in 1 .. 4 /\ (x = 1 \/ y = 1)
    BY ONLY <1>6, <1>7, <1>8, <2>1, <2>2
  <2>4. x + y \in 1 .. 5
    BY ONLY <2>3
  <2> QED
    BY ONLY <2>2, <2>4
<1> QED
  BY ONLY <1>2, <1>6, <1>8

WideTo(t, m, lead, q) ==
    lead + 2 * q <= m => /\ Lengths(t)[lead + 2 * q] \in Nat
                         /\ Lengths(t)[lead + 2 * q] <= lead + 5 * q

(* Two places take five characters at most.                                *)
LEMMA PairsWide ==
    ASSUME NEW t, NEW m, NEW words, NEW g, NEW l, NEW lead, Follows(t, m, words, g, l, lead),
           lead = 0 \/ lead = 1
    PROVE  \A q \in Nat : WideTo(t, m, lead, q)
<1>1. t \in Seq(Tokens6) /\ m \in Nat /\ m <= Len(t) /\ Len(t) \in Nat
  BY ONLY Follows(t, m, words, g, l, lead), LenProperties DEF Follows
<1>2. PICK f, n : f = Lengths(t) /\ n = Len(t)
  OBVIOUS
<1>3. f[0] = 0 /\ \A i \in 1 .. n : f[i] = f[i - 1] + t[i].len
  BY ONLY <1>1, <1>2, LengthsIs
<1> DEFINE P == {q \in Nat : WideTo(t, m, lead, q)}
<1>4. 0 \in P
  <2>1. ASSUME lead <= m PROVE f[lead] \in Nat /\ f[lead] <= lead
    <3>1. CASE lead = 0
      BY ONLY <1>3, <3>1
    <3>2. CASE lead = 1
      <4>1. m >= 1 /\ 1 \in 1 .. n /\ 1 - 1 = 0
        BY ONLY <1>1, <1>2, <2>1, <3>2
      <4>2. t[1] = Colon
        BY ONLY <3>2, <4>1, Follows(t, m, words, g, l, lead), FirstPlace
      <4>3. Colon.len = 1
        BY ONLY ColonIs
      <4>4. f[1] = 0 + 1
        BY ONLY <1>3, <4>1, <4>2, <4>3
      <4> QED
        BY ONLY <3>2, <4>4
    <3> QED
      BY ONLY <3>1, <3>2, lead = 0 \/ lead = 1
  <2>2. lead + 2 * 0 = lead /\ lead + 5 * 0 = lead
    OBVIOUS
  <2>3. WideTo(t, m, lead, 0)
    BY ONLY <1>2, <2>1, <2>2 DEF WideTo
  <2> QED
    BY <2>3
<1>5. ASSUME NEW q \in Nat, q \in P PROVE q + 1 \in P
  <2>1. PICK p, i, k, j : p = q + 1 /\ i = lead + 2 * q /\ k = lead + 2 * p - 1 /\ j = lead + 2 * p
    OBVIOUS
  <2>2. ASSUME j <= m PROVE f[j] \in Nat /\ f[j] <= lead + 5 * p
    <3>1. /\ p \in Nat /\ p >= 1 /\ i <= m /\ k - 1 = i /\ j - 1 = k /\ k + 1 = j
          /\ k \in 1 .. n /\ j \in 1 .. n
      BY ONLY SMTT(30), <1>1, <1>2, <2>1, <2>2, lead = 0 \/ lead = 1, q \in Nat
    <3>2. f[i] \in Nat /\ f[i] <= lead + 5 * q
      <4>1. WideTo(t, m, lead, q)
        BY <1>5
      <4> QED
        BY ONLY <1>2, <2>1, <3>1, <4>1 DEF WideTo
    <3>3. /\ k <= m => t[k].len \in 1 .. 4
          /\ k + 1 <= m => t[k].len + t[k + 1].len \in 1 .. 5
      BY ONLY <2>1, <3>1, Follows(t, m, words, g, l, lead), lead = 0 \/ lead = 1, PairLength
    <3>4. PICK x, y : x = t[k].len /\ y = t[j].len
      OBVIOUS
    <3>5. x + y \in 1 .. 5 /\ x \in 1 .. 4
      <4>1. k <= m
        BY ONLY <1>1, <1>2, <2>2, <3>1
      <4> QED
        BY ONLY <2>2, <3>1, <3>3, <3>4, <4>1
    <3>6. f[k] = f[i] + x /\ f[j] = f[k] + y
      BY ONLY <1>3, <3>1, <3>4
    <3>7. y \in Int
      <4>1. t[j] \in Tokens6
        BY ONLY <1>1, <1>2, <3>1, ElementOfSeq
      <4>2. PICK e : e = t[j]
        OBVIOUS
      <4>3. e = Colon \/ e.len \in 1 .. 4 \/ e.len \in 1 .. 15
        BY ONLY <4>1, <4>2, KindsAre
      <4>4. Colon.len = 1
        BY ONLY ColonIs
      <4> QED
        BY ONLY <3>4, <4>2, <4>3, <4>4
    <3>8. PICK d : d = f[i]
      OBVIOUS
    <3>9. f[j] = d + x + y /\ d \in Nat /\ d <= lead + 5 * q
      BY ONLY <3>2, <3>6, <3>8
    <3> QED
      BY ONLY <2>1, <3>5, <3>7, <3>9, lead = 0 \/ lead = 1, q \in Nat
  <2>3. WideTo(t, m, lead, p)
    BY ONLY <1>2, <2>1, <2>2 DEF WideTo
  <2>4. p \in Nat
    BY <2>1
  <2> QED
    BY <2>1, <2>3, <2>4
<1>6. \A q \in Nat : q \in P
  <2> HIDE DEF P
  <2> QED
    BY ONLY <1>4, <1>5, Induct
<1> QED
  BY <1>6

(* Every text fits into the buffer on the stack of inet_ntop6.             *)
LEMMA WroteFits ==
    ASSUME NEW t, NEW n, NEW words, NEW g, NEW l, NEW lead, Wrote(t, n, words, g, l, lead)
    PROVE  CharLen(t) < AddrStrLen6
<1>1. /\ words \in Address6 /\ g \in Nat /\ l \in Nat /\ g <= 8 /\ (lead = 0 \/ lead = 1)
      /\ n \in Nat /\ Len(t) = n /\ t \in Seq(Tokens6)
      /\ PlainText(t, n, words, g, l, lead) \/ ShortText(t, n, words, g, l, lead)
  BY ONLY Wrote(t, n, words, g, l, lead) DEF Wrote
<1>2. PICK f : f = Lengths(t)
  OBVIOUS
<1>3. f[0] = 0 /\ \A i \in 1 .. n : f[i] = f[i - 1] + t[i].len
  BY ONLY <1>1, <1>2, LengthsIs
<1>4. CharLen(t) = f[n]
  BY ONLY <1>1, <1>2 DEF CharLen
(* An even number of tokens behind the lead, or one more.                  *)
<1>5. ASSUME NEW m \in Nat, Follows(t, m, words, g, l, lead), NEW q \in Nat
      PROVE  /\ m = lead + 2 * q => f[m] \in Nat /\ f[m] <= lead + 5 * q
             /\ m = lead + 2 * q + 1 => f[m] \in Nat /\ f[m] <= lead + 5 * q + 4
  <2>1. WideTo(t, m, lead, q)
    BY ONLY <1>1, <1>5, q \in Nat, PairsWide
  <2>2. m <= n
    BY ONLY <1>1, <1>5 DEF Follows
  <2>3. ASSUME m = lead + 2 * q PROVE f[m] \in Nat /\ f[m] <= lead + 5 * q
    <3>1. m <= m
      BY ONLY m \in Nat
    <3> QED
      BY ONLY <1>2, <2>1, <2>3, <3>1 DEF WideTo
  <2>4. ASSUME m = lead + 2 * q + 1 PROVE f[m] \in Nat /\ f[m] <= lead + 5 * q + 4
    <3>1. PICK i, p : i = lead + 2 * q /\ p = q + 1
      OBVIOUS
    <3>2. i <= m /\ m \in 1 .. n /\ m - 1 = i /\ p \in Nat /\ p >= 1 /\ m = lead + 2 * p - 1
          /\ m <= m
      BY ONLY <1>1, <2>2, <2>4, <3>1, m \in Nat, q \in Nat
    <3>3. f[i] \in Nat /\ f[i] <= lead + 5 * q
      BY ONLY <1>2, <2>1, <3>1, <3>2 DEF WideTo
    <3>4. PICK x : x = t[m].len
      OBVIOUS
    <3>5. x \in 1 .. 4
      BY ONLY <1>1, <1>5, <3>2, <3>4, PairLength
    <3>6. f[m] = f[i] + x
      BY ONLY <1>3, <3>2, <3>4
    <3>7. PICK d : d = f[i]
      OBVIOUS
    <3> QED
      BY ONLY SMTT(30), <1>1, <3>3, <3>5, <3>6, <3>7, q \in Nat
  <2> QED
    BY ONLY <2>3, <2>4
<1>6. CASE PlainText(t, n, words, g, l, lead)
  <2>1. lead = 0 /\ n = 15 /\ Follows(t, n, words, g, l, lead)
    BY ONLY <1>6 DEF PlainText
  <2>2. PICK q : q = 7
    OBVIOUS
  <2>3. q \in Nat /\ n = lead + 2 * q + 1
    BY ONLY <2>1, <2>2
  <2>4. f[n] \in Nat /\ f[n] <= lead + 5 * q + 4
    BY ONLY <1>1, <1>5, <2>1, <2>3
  <2> QED
    BY ONLY <1>4, <2>1, <2>2, <2>4 DEF AddrStrLen6
<1>7. CASE ShortText(t, n, words, g, l, lead)
  <2>1. l >= 2
    BY ONLY <1>7 DEF ShortText
  <2>2. PICK c \in Nat :
           /\ c + l = 8 /\ g <= c
           /\ \/ g < c /\ n = lead + 2 * c /\ Follows(t, n, words, g, l, lead)
              \/ g = c /\ n = lead + 2 * c + 1 /\ Follows(t, n, words, g, l, lead)
              \/ EndsDotted(t, n, words, g, l, lead)
    BY ONLY <1>7 DEF ShortText
  <2>3. c <= 6
    BY ONLY <1>1, <2>1, <2>2
  <2>4. CASE n = lead + 2 * c /\ Follows(t, n, words, g, l, lead)
    <3>1. f[n] \in Nat /\ f[n] <= lead + 5 * c
      BY ONLY <1>1, <1>5, <2>4, c \in Nat
    <3> QED
      BY ONLY <1>1, <1>4, <2>3, <3>1, c \in Nat DEF AddrStrLen6
  <2>5. CASE n = lead + 2 * c + 1 /\ Follows(t, n, words, g, l, lead)
    <3>1. f[n] \in Nat /\ f[n] <= lead + 5 * c + 4
      BY ONLY <1>1, <1>5, <2>5, c \in Nat
    <3> QED
      BY ONLY <1>1, <1>4, <2>3, <3>1, c \in Nat DEF AddrStrLen6
  <2>6. CASE EndsDotted(t, n, words, g, l, lead)
    <3>1. /\ g = 0 /\ (l = 5 \/ l = 6) /\ lead = 1 /\ n = 2 * (8 - l) - 1
          /\ Follows(t, n - 1, words, g, l, lead)
          /\ t[n] = Quad(words[7], words[8])
      BY ONLY <2>6 DEF EndsDotted
    <3>2. PICK m, q : m = n - 1 /\ q = 6 - l
      OBVIOUS
    <3>3. m \in Nat /\ q \in Nat /\ q <= 1 /\ m = lead + 2 * q + 1 /\ n \in 1 .. n
      BY ONLY <1>1, <3>1, <3>2
    <3>4. f[m] \in Nat /\ f[m] <= lead + 5 * q + 4
      BY ONLY <1>5, <3>1, <3>2, <3>3
    <3>5. PICK x : x = t[n].len
      OBVIOUS
    <3>6. x \in 1 .. 15
      <4>1. 7 \in 1 .. 8 /\ 8 \in 1 .. 8
        OBVIOUS
      <4>2. words[7] \in Word /\ words[8] \in Word
        BY ONLY <1>1, <4>1 DEF Address6
      <4> QED
        BY ONLY <3>1, <3>5, <4>2, QuadIs
    <3>7. f[n] = f[m] + x
      BY ONLY <1>3, <3>2, <3>3, <3>5
    <3>8. PICK d : d = f[m]
      OBVIOUS
    <3> QED
      BY ONLY <1>4, <3>1, <3>3, <3>4, <3>6, <3>7, <3>8 DEF AddrStrLen6
  <2> QED
    BY ONLY <2>2, <2>4, <2>5, <2>6
<1> QED
  BY ONLY <1>1, <1>6, <1>7

-----------------------------------------------------------------------------
(* The runs, and where :: stands. *)
LEMMA RunsAre ==
    ASSUME NEW words
    PROVE  /\ \A q \in Runs(words) :
                 q[1] \in Nat /\ q[2] \in Nat /\ q[2] >= 2 /\ RunWithin(words, 8, q[1], q[2])
           /\ \A a, n \in Nat : RunWithin(words, 8, a, n) /\ n >= 2 => <<a, n>> \in Runs(words)
<1>1. PICK A, B : A = 1 .. 8 /\ B = 2 .. 8
  OBVIOUS
<1>2. Runs(words) = {r \in A \X B : r[1] + r[2] <= 9 /\ \A i \in r[1] .. r[1] + r[2] - 1 : words[i] = 0}
  BY ONLY <1>1 DEF Runs
<1>3. ASSUME NEW q \in Runs(words)
      PROVE  q[1] \in Nat /\ q[2] \in Nat /\ q[2] >= 2 /\ RunWithin(words, 8, q[1], q[2])
  <2>1. PICK a, n : a = q[1] /\ n = q[2]
    OBVIOUS
  <2>2. a \in A /\ n \in B /\ a + n <= 9 /\ \A i \in a .. a + n - 1 : words[i] = 0
    BY ONLY <1>2, <2>1, q \in Runs(words)
  <2>3. a \in Nat /\ n \in Nat /\ n >= 2 /\ a >= 1 /\ n >= 1 /\ a + n <= 8 + 1
    BY ONLY <1>1, <2>2
  <2>4. ZerosAt(words, a, n)
    <3>1. ASSUME NEW j \in Nat, a <= j, j < a + n PROVE words[j] = 0
      <4>1. j \in a .. a + n - 1
        BY ONLY <2>3, <3>1, j \in Nat
      <4> QED
        BY ONLY <2>2, <4>1
    <3> QED
      BY ONLY <3>1 DEF ZerosAt
  <2> QED
    BY ONLY <2>1, <2>3, <2>4 DEF RunWithin
<1>4. ASSUME NEW a \in Nat, NEW n \in Nat, RunWithin(words, 8, a, n), n >= 2
      PROVE  <<a, n>> \in Runs(words)
  <2>1. a >= 1 /\ a + n <= 8 + 1 /\ ZerosAt(words, a, n)
    BY ONLY <1>4 DEF RunWithin
  <2>2. a \in A /\ n \in B /\ a + n <= 9
    BY ONLY <1>1, <1>4, <2>1, a \in Nat, n \in Nat
  <2>3. ASSUME NEW i \in a .. a + n - 1 PROVE words[i] = 0
    <3>1. i \in Nat /\ a <= i /\ i < a + n
      BY ONLY a \in Nat, n \in Nat, i \in a .. a + n - 1
    <3> QED
      BY ONLY <2>1, <3>1 DEF ZerosAt
  <2>4. PICK r : r = <<a, n>>
    OBVIOUS
  <2>5. r \in A \X B /\ r[1] = a /\ r[2] = n
    BY ONLY <2>2, <2>4
  <2>6. r[1] + r[2] <= 9 /\ \A i \in r[1] .. r[1] + r[2] - 1 : words[i] = 0
    BY ONLY <2>2, <2>3, <2>5
  <2> QED
    BY ONLY <1>2, <2>4, <2>5, <2>6
<1> QED
  BY ONLY <1>3, <1>4

(* Every second place.                                                     *)
LEMMA SecondPlaces ==
    ASSUME NEW a \in Int, NEW m \in Nat, NEW S,
           \A i : i \in S <=> \E q \in 1 .. m : i = a + 2 * q
    PROVE  Cardinality(S) = m
<1>1. PICK f : f = [q \in 1 .. m |-> a + 2 * q]
  OBVIOUS
<1>2. ASSUME NEW q \in 1 .. m PROVE f[q] \in S /\ f[q] = a + 2 * q
  <2>1. f[q] = a + 2 * q
    BY ONLY <1>1, q \in 1 .. m
  <2> QED
    BY ONLY <2>1, q \in 1 .. m, \A i : i \in S <=> \E p \in 1 .. m : i = a + 2 * p
<1>3. f \in [1 .. m -> S]
  BY <1>1, <1>2
<1>4. \A p, q \in 1 .. m : f[p] = f[q] => p = q
  BY ONLY <1>2, a \in Int, m \in Nat
<1>5. \A i \in S : \E q \in 1 .. m : f[q] = i
  BY ONLY <1>2, \A i : i \in S <=> \E p \in 1 .. m : i = a + 2 * p
<1>6. f \in Bijection(1 .. m, S)
  BY ONLY <1>3, <1>4, <1>5 DEF Bijection, Injection, Surjection, IsInjective
<1>7. ExistsBijection(1 .. m, S)
  BY ONLY <1>6 DEF ExistsBijection
<1> QED
  BY ONLY <1>7, m \in Nat, FS_CountingElements

(* The kinds of the tokens at the places of the text.                      *)
AtPair(t, m, words, g, l, lead, q, k) ==
    /\ Follows(t, m, words, g, l, lead) /\ (lead = 0 \/ lead = 1)
    /\ q \in Nat /\ q >= 1 /\ k = lead + 2 * q - 1

KindsAt(t, m, g, q, k) ==
    /\ k <= m => IF q <= g THEN t[k].kind = "hex" /\ t[k] # Colon
                 ELSE t[k].kind = "colon" /\ t[k] = Colon
    /\ k + 1 <= m => IF q <= g THEN t[k + 1].kind = "colon" /\ t[k + 1] = Colon
                     ELSE t[k + 1].kind = "hex" /\ t[k + 1] # Colon

(* A group and a colon in front of the run, a colon and a group behind it. *)
LEMMA PlaceKinds ==
    ASSUME NEW t, NEW m, NEW words, NEW g, NEW l, NEW lead, NEW q, NEW k,
           AtPair(t, m, words, g, l, lead, q, k)
    PROVE  KindsAt(t, m, g, q, k)
<1> /\ Follows(t, m, words, g, l, lead) /\ (lead = 0 \/ lead = 1)
    /\ q \in Nat /\ q >= 1 /\ k = lead + 2 * q - 1
  BY DEF AtPair
<1> SUFFICES
           /\ k <= m => IF q <= g THEN t[k].kind = "hex" /\ t[k] # Colon
                        ELSE t[k].kind = "colon" /\ t[k] = Colon
           /\ k + 1 <= m => IF q <= g THEN t[k + 1].kind = "colon" /\ t[k + 1] = Colon
                            ELSE t[k + 1].kind = "hex" /\ t[k + 1] # Colon
  BY DEF KindsAt
<1>1. PICK j : j = k + 1
  OBVIOUS
<1>2. j = lead + 2 * q
  BY ONLY <1>1, lead = 0 \/ lead = 1, q \in Nat, k = lead + 2 * q - 1
<1>3. Colon.kind = "colon" /\ \A w : Hex(w).kind = "hex" /\ Hex(w) # Colon
  <2>1. Colon.kind = "colon"
    BY ONLY ColonIs
  <2>2. ASSUME NEW w PROVE Hex(w).kind = "hex" /\ Hex(w) # Colon
    BY ONLY <2>1, HexKind
  <2> QED
    BY ONLY <2>1, <2>2
<1>4. k <= m => IF q <= g THEN t[k].kind = "hex" /\ t[k] # Colon
                ELSE t[k].kind = "colon" /\ t[k] = Colon
  <2> SUFFICES ASSUME k <= m
               PROVE  IF q <= g THEN t[k].kind = "hex" /\ t[k] # Colon
                      ELSE t[k].kind = "colon" /\ t[k] = Colon
    OBVIOUS
  <2>1. t[k] = IF q <= g THEN Hex(words[q]) ELSE Colon
    BY OddPlace
  <2> QED
    BY ONLY <1>3, <2>1
<1>5. j <= m => IF q <= g THEN t[j].kind = "colon" /\ t[j] = Colon
                ELSE t[j].kind = "hex" /\ t[j] # Colon
  <2> SUFFICES ASSUME j <= m
               PROVE  IF q <= g THEN t[j].kind = "colon" /\ t[j] = Colon
                      ELSE t[j].kind = "hex" /\ t[j] # Colon
    OBVIOUS
  <2>1. t[j] = IF q <= g THEN Colon ELSE Hex(words[l + q])
    BY <1>2, EvenPlace
  <2> QED
    BY ONLY <1>3, <2>1
<1> QED
  BY ONLY <1>1, <1>4, <1>5

(* Every place is one or the other.                                        *)
LEMMA PlaceIs ==
    ASSUME NEW i \in Nat, i >= 1, NEW lead, lead = 0 \/ lead = 1
    PROVE  \/ lead = 1 /\ i = 1
           \/ \E q \in Nat : q >= 1 /\ (i = lead + 2 * q - 1 \/ i = lead + 2 * q)
<1>1. PICK d : d = i - lead
  OBVIOUS
<1>2. CASE d = 0
  BY <1>1, <1>2
<1>3. CASE d # 0
  <2>1. d \in Nat /\ d >= 1
    BY <1>1, <1>3
  <2>2. PICK q : q = (d + 1) \div 2
    OBVIOUS
  <2>3. q \in Nat /\ q >= 1 /\ (d = 2 * q - 1 \/ d = 2 * q)
    BY ONLY <2>1, <2>2
  <2>4. i = lead + 2 * q - 1 \/ i = lead + 2 * q
    BY <1>1, <2>3
  <2> QED
    BY <2>3, <2>4
<1> QED
  BY <1>2, <1>3

(* Two colons meet only behind the words in front of the run.              *)
HasOpening(t, m, words, g, l, lead) ==
    /\ Follows(t, m, words, g, l, lead) /\ (lead = 0 \/ lead = 1)
    /\ g \in Nat /\ (g = 0 <=> lead = 1)

(* Two colons in a row stand where the run was and nowhere else.           *)
LEMMA CutIs ==
    ASSUME NEW t, NEW m, NEW words, NEW g, NEW l, NEW lead, HasOpening(t, m, words, g, l, lead),
           NEW i \in Nat, i >= 1, i + 1 <= m
    PROVE  (t[i] = Colon /\ t[i + 1] = Colon) <=> i = lead + 2 * g
<1> /\ Follows(t, m, words, g, l, lead) /\ (lead = 0 \/ lead = 1)
    /\ g \in Nat /\ (g = 0 <=> lead = 1)
  BY DEF HasOpening
<1>0. m \in Nat
  BY ONLY Follows(t, m, words, g, l, lead) DEF Follows
<1>1. CASE lead = 1 /\ i = 1
  <2>1. m >= 1 /\ g = 0 /\ i + 1 = 2 /\ i = lead + 2 * g
    BY ONLY <1>0, <1>1, i + 1 <= m, g = 0 <=> lead = 1
  <2>2. t[1] = Colon
    BY ONLY <1>1, <2>1, Follows(t, m, words, g, l, lead), FirstPlace
  <2>3. PICK q, k : q = 1 /\ k = 2
    OBVIOUS
  <2>4. q \in Nat /\ q >= 1 /\ k = lead + 2 * q - 1 /\ k <= m /\ ~(q <= g)
    BY ONLY <1>0, <1>1, <2>1, <2>3, i + 1 <= m
  <2>5. t[k] = Colon
    <3>1. AtPair(t, m, words, g, l, lead, q, k)
      BY ONLY <2>4,
              Follows(t, m, words, g, l, lead), lead = 0 \/ lead = 1 DEF AtPair
    <3>2. KindsAt(t, m, g, q, k)
      BY ONLY <3>1, PlaceKinds
    <3> QED
      BY ONLY <2>4, <3>2 DEF KindsAt
  <2> QED
    BY ONLY <1>1, <2>1, <2>2, <2>3, <2>5
<1>2. ASSUME NEW q \in Nat, q >= 1, i = lead + 2 * q - 1
      PROVE  (t[i] = Colon /\ t[i + 1] = Colon) <=> i = lead + 2 * g
  <2>1. i # lead + 2 * g /\ i <= m
    BY ONLY <1>0, <1>2, q \in Nat, g \in Nat, lead = 0 \/ lead = 1, i \in Nat, i + 1 <= m
  <2>2. IF q <= g THEN t[i] # Colon ELSE t[i + 1] # Colon
    <3>1. AtPair(t, m, words, g, l, lead, q, i)
      BY ONLY <1>2, q \in Nat,
              Follows(t, m, words, g, l, lead), lead = 0 \/ lead = 1 DEF AtPair
    <3>2. KindsAt(t, m, g, q, i)
      BY ONLY <3>1, PlaceKinds
    <3> QED
      BY ONLY <2>1, i + 1 <= m, <3>2 DEF KindsAt
  <2> QED
    BY ONLY <2>1, <2>2
<1>3. ASSUME NEW q \in Nat, q >= 1, i = lead + 2 * q
      PROVE  (t[i] = Colon /\ t[i + 1] = Colon) <=> i = lead + 2 * g
  <2>1. PICK p, k, j : p = q + 1 /\ k = i - 1 /\ j = i + 1
    OBVIOUS
  <2>2. /\ p \in Nat /\ p >= 1 /\ k = lead + 2 * q - 1 /\ j = lead + 2 * p - 1 /\ j <= m
        /\ k + 1 <= m /\ k + 1 = i
    BY ONLY <1>0, <1>3, <2>1, q \in Nat, lead = 0 \/ lead = 1, i \in Nat, i + 1 <= m
  <2>3. IF q <= g THEN t[i] = Colon ELSE t[i] # Colon
    <3>1. IF q <= g THEN t[k + 1] = Colon ELSE t[k + 1] # Colon
      <4>1. AtPair(t, m, words, g, l, lead, q, k)
        BY ONLY <1>3, <2>2, q \in Nat,
                Follows(t, m, words, g, l, lead), lead = 0 \/ lead = 1 DEF AtPair
      <4>2. KindsAt(t, m, g, q, k)
        BY ONLY <4>1, PlaceKinds
      <4> QED
        BY ONLY <2>2, <4>2 DEF KindsAt
    <3> QED
      BY ONLY <2>2, <3>1
  <2>4. IF p <= g THEN t[j] # Colon ELSE t[j] = Colon
    <3>1. AtPair(t, m, words, g, l, lead, p, j)
      BY ONLY <2>2,
              Follows(t, m, words, g, l, lead), lead = 0 \/ lead = 1 DEF AtPair
    <3>2. KindsAt(t, m, g, p, j)
      BY ONLY <3>1, PlaceKinds
    <3> QED
      BY ONLY <2>2, <3>2 DEF KindsAt
  <2>5. (q <= g /\ ~(p <= g)) <=> q = g
    BY ONLY <2>1, q \in Nat, g \in Nat
  <2>6. i = lead + 2 * g <=> q = g
    BY ONLY <1>3, q \in Nat, g \in Nat, lead = 0 \/ lead = 1
  <2> QED
    BY ONLY <2>1, <2>3, <2>4, <2>5, <2>6
<1> QED
  BY ONLY <1>1, <1>2, <1>3, i \in Nat, i >= 1, lead = 0 \/ lead = 1, PlaceIs

(* The places of the groups of digits.                                     *)
HexPlace(i, g, lead) ==
    \E q \in Nat : q >= 1 /\ IF q <= g THEN i = lead + 2 * q - 1 ELSE i = lead + 2 * q

(* A place has digits, or a colon.                                         *)
LEMMA KindAt ==
    ASSUME NEW t, NEW m, NEW words, NEW g \in Nat, NEW l, NEW lead,
           Follows(t, m, words, g, l, lead), lead = 0 \/ lead = 1,
           NEW i \in Nat, i >= 1, i <= m
    PROVE  /\ t[i].kind # "quad"
           /\ t[i].kind = "hex" <=> HexPlace(i, g, lead)
<1>0. m \in Nat
  BY ONLY Follows(t, m, words, g, l, lead) DEF Follows
<1>1. CASE lead = 1 /\ i = 1
  <2>1. m >= 1
    BY ONLY <1>0, <1>1, i <= m
  <2>2. t[i] = Colon
    BY ONLY <1>1, <2>1, Follows(t, m, words, g, l, lead), FirstPlace
  <2>3. t[i].kind = "colon"
    BY ONLY <2>2, ColonIs
  <2>4. ~HexPlace(i, g, lead)
    BY ONLY <1>1 DEF HexPlace
  <2> QED
    BY ONLY <2>3, <2>4
<1>2. ASSUME NEW q \in Nat, q >= 1, i = lead + 2 * q - 1
      PROVE  /\ t[i].kind # "quad"
             /\ t[i].kind = "hex" <=> HexPlace(i, g, lead)
  <2>1. IF q <= g THEN t[i].kind = "hex" ELSE t[i].kind = "colon"
    <3>1. AtPair(t, m, words, g, l, lead, q, i)
      BY ONLY <1>2, q \in Nat,
              Follows(t, m, words, g, l, lead), lead = 0 \/ lead = 1 DEF AtPair
    <3>2. KindsAt(t, m, g, q, i)
      BY ONLY <3>1, PlaceKinds
    <3> QED
      BY ONLY i <= m, <3>2 DEF KindsAt
  <2>2. \A p \in Nat : /\ i # lead + 2 * p
                       /\ i = lead + 2 * p - 1 => p = q
    BY ONLY <1>2, q \in Nat, lead = 0 \/ lead = 1
  <2>3. HexPlace(i, g, lead) <=> q <= g
    BY ONLY <1>2, <2>2, q \in Nat DEF HexPlace
  <2> QED
    BY ONLY <2>1, <2>3
<1>3. ASSUME NEW q \in Nat, q >= 1, i = lead + 2 * q
      PROVE  /\ t[i].kind # "quad"
             /\ t[i].kind = "hex" <=> HexPlace(i, g, lead)
  <2>0. PICK k : k = i - 1
    OBVIOUS
  <2>4. k = lead + 2 * q - 1 /\ k + 1 <= m /\ k + 1 = i
    BY ONLY <1>0, <1>3, <2>0, q \in Nat, i \in Nat, i <= m, lead = 0 \/ lead = 1
  <2>1. IF q <= g THEN t[i].kind = "colon" ELSE t[i].kind = "hex"
    <3>1. IF q <= g THEN t[k + 1].kind = "colon" ELSE t[k + 1].kind = "hex"
      <4>1. AtPair(t, m, words, g, l, lead, q, k)
        BY ONLY <1>3, <2>4, q \in Nat,
                Follows(t, m, words, g, l, lead), lead = 0 \/ lead = 1 DEF AtPair
      <4>2. KindsAt(t, m, g, q, k)
        BY ONLY <4>1, PlaceKinds
      <4> QED
        BY ONLY <2>4, <4>2 DEF KindsAt
    <3> QED
      BY ONLY <2>4, <3>1
  <2>2. \A p \in Nat : /\ i # lead + 2 * p - 1
                       /\ i = lead + 2 * p => p = q
    BY ONLY <1>3, q \in Nat, lead = 0 \/ lead = 1
  <2>3. HexPlace(i, g, lead) <=> ~(q <= g)
    BY ONLY <1>3, <2>2, q \in Nat DEF HexPlace
  <2> QED
    BY ONLY <2>1, <2>3
<1> QED
  BY ONLY <1>1, <1>2, <1>3, i \in Nat, i >= 1, lead = 0 \/ lead = 1, PlaceIs

(* The words on the left of :: and on its right.                           *)
LEMMA LeftWords ==
    ASSUME NEW t, NEW m, NEW words, NEW g \in Nat, NEW l, NEW lead,
           Follows(t, m, words, g, l, lead), lead = 0 \/ lead = 1, g = 0 <=> lead = 1,
           NEW cut, cut = lead + 2 * g, cut <= m
    PROVE  WordsAt(t, 1 .. cut - 1) = g
<1>0. m \in Nat /\ cut \in Nat /\ cut >= 1
  BY ONLY Follows(t, m, words, g, l, lead), g \in Nat, lead = 0 \/ lead = 1,
          g = 0 <=> lead = 1, cut = lead + 2 * g DEF Follows
<1>1. PICK H, Q : /\ H = {i \in 1 .. cut - 1 : t[i].kind = "hex"}
                  /\ Q = {i \in 1 .. cut - 1 : t[i].kind = "quad"}
  OBVIOUS
<1>2. \A i \in 1 .. cut - 1 : i \in Nat /\ i >= 1 /\ i <= m /\ i < cut
  BY ONLY <1>0, cut <= m
<1>3. Q = {}
  <2>1. \A i \in 1 .. cut - 1 : t[i].kind # "quad"
    BY ONLY <1>2, g \in Nat, Follows(t, m, words, g, l, lead), lead = 0 \/ lead = 1, KindAt
  <2> QED
    BY ONLY <1>1, <2>1
<1>4. PICK a : a = lead - 1
  OBVIOUS
<1>5. ASSUME NEW i PROVE i \in H <=> \E q \in 1 .. g : i = a + 2 * q
  <2>1. ASSUME i \in H PROVE \E q \in 1 .. g : i = a + 2 * q
    <3>1. i \in 1 .. cut - 1 /\ t[i].kind = "hex"
      BY ONLY <1>1, <2>1
    <3>2. i \in Nat /\ i >= 1 /\ i <= m /\ i < cut
      BY ONLY <1>2, <3>1
    <3>3. PICK q \in Nat : q >= 1 /\ IF q <= g THEN i = lead + 2 * q - 1 ELSE i = lead + 2 * q
      <4>1. t[i].kind = "hex" <=> HexPlace(i, g, lead)
        BY ONLY <3>2, g \in Nat, Follows(t, m, words, g, l, lead), lead = 0 \/ lead = 1, KindAt
      <4> QED
        BY ONLY <3>1, <4>1 DEF HexPlace
    <3>4. q <= g
      BY ONLY <3>2, <3>3, cut = lead + 2 * g, g \in Nat, lead = 0 \/ lead = 1, q \in Nat
    <3>5. q \in 1 .. g /\ i = a + 2 * q
      BY ONLY <1>4, <3>3, <3>4, g \in Nat, lead = 0 \/ lead = 1, q \in Nat
    <3> QED
      BY ONLY <3>5
  <2>2. ASSUME NEW q \in 1 .. g, i = a + 2 * q PROVE i \in H
    <3>1. q \in Nat /\ q >= 1 /\ q <= g /\ i = lead + 2 * q - 1 /\ lead = 0
      BY ONLY <1>4, <2>2, q \in 1 .. g, g \in Nat, lead = 0 \/ lead = 1, g = 0 <=> lead = 1
    <3>2. i \in 1 .. cut - 1 /\ i \in Nat /\ i >= 1 /\ i <= m
      BY ONLY <1>0, <3>1, cut = lead + 2 * g, g \in Nat, cut <= m
    <3>3. t[i].kind = "hex"
      <4>1. AtPair(t, m, words, g, l, lead, q, i)
        BY ONLY <3>1,
                Follows(t, m, words, g, l, lead), lead = 0 \/ lead = 1 DEF AtPair
      <4>2. KindsAt(t, m, g, q, i)
        BY ONLY <4>1, PlaceKinds
      <4> QED
        BY ONLY <3>1, <3>2, <4>2 DEF KindsAt
    <3> QED
      BY ONLY <1>1, <3>2, <3>3
  <2> QED
    BY ONLY <2>1, <2>2
<1>6. Cardinality(H) = g
  <2>1. a \in Int
    BY ONLY <1>4, lead = 0 \/ lead = 1
  <2> QED
    BY ONLY <1>5, <2>1, g \in Nat, SecondPlaces
<1>7. Cardinality(Q) = 0
  BY ONLY <1>3, FS_EmptySet
<1>8. WordsAt(t, 1 .. cut - 1) = Cardinality(H) + 2 * Cardinality(Q)
  BY ONLY <1>1 DEF WordsAt
<1> QED
  BY ONLY <1>6, <1>7, <1>8, g \in Nat

(* What is behind the planned places may be a dotted form.                 *)
BehindPlan(t, m, n) == n = m \/ (n = m + 1 /\ t[n].kind = "quad")

HasRight(t, m, words, g, l, lead, cut, n, d) ==
    /\ Follows(t, m, words, g, l, lead) /\ (lead = 0 \/ lead = 1) /\ g \in Nat
    /\ cut = lead + 2 * g /\ cut + 1 <= m /\ BehindPlan(t, m, n)
    /\ d \in Nat /\ g <= d /\ (m = lead + 2 * d \/ m = lead + 2 * d + 1)

(* As many words are behind :: as are behind the run.                      *)
LEMMA RightWords ==
    ASSUME NEW t, NEW m, NEW words, NEW g, NEW l, NEW lead, NEW cut, NEW n, NEW d,
           HasRight(t, m, words, g, l, lead, cut, n, d)
    PROVE  WordsAt(t, cut + 2 .. n) = (d - g) + IF n = m THEN 0 ELSE 2
<1> /\ Follows(t, m, words, g, l, lead) /\ (lead = 0 \/ lead = 1) /\ g \in Nat
    /\ cut = lead + 2 * g /\ cut + 1 <= m /\ BehindPlan(t, m, n)
    /\ d \in Nat /\ g <= d /\ (m = lead + 2 * d \/ m = lead + 2 * d + 1)
  BY DEF HasRight
<1>0. m \in Nat /\ cut \in Nat /\ (n = m \/ (n = m + 1 /\ t[n].kind = "quad"))
  BY ONLY Follows(t, m, words, g, l, lead), g \in Nat, lead = 0 \/ lead = 1,
          cut = lead + 2 * g, BehindPlan(t, m, n) DEF Follows, BehindPlan
<1>1. PICK H, Q, R : /\ H = {i \in R : t[i].kind = "hex"}
                     /\ Q = {i \in R : t[i].kind = "quad"}
                     /\ R = cut + 2 .. n
  <2>1. PICK R : R = cut + 2 .. n
    OBVIOUS
  <2> QED
    BY ONLY <2>1
<1>2. \A i \in R : i \in Nat /\ i >= 1 /\ i >= cut + 2 /\ (i <= m \/ (i = n /\ n = m + 1))
  BY ONLY <1>0, <1>1
<1>3. \A i \in R : i <= m => t[i].kind # "quad"
  BY ONLY <1>2, g \in Nat, Follows(t, m, words, g, l, lead), lead = 0 \/ lead = 1, KindAt
<1>4. Cardinality(Q) = IF n = m THEN 0 ELSE 1
  <2>1. CASE n = m
    <3>1. Q = {}
      <4>1. \A i \in R : i <= m
        BY ONLY <1>0, <1>2, <2>1
      <4> QED
        BY ONLY <1>1, <1>3, <4>1
    <3> QED
      BY ONLY <2>1, <3>1, FS_EmptySet
  <2>2. CASE n # m
    <3>1. n = m + 1 /\ t[n].kind = "quad" /\ n \in R
      BY ONLY <1>0, <1>1, <2>2, cut + 1 <= m
    <3>2. Q = {n}
      BY ONLY <1>1, <1>2, <1>3, <3>1
    <3> QED
      BY ONLY <2>2, <3>2, FS_Singleton
  <2> QED
    BY ONLY <2>1, <2>2
<1>5. PICK e : e = d - g
  OBVIOUS
<1>6. ASSUME NEW i PROVE i \in H <=> \E q \in 1 .. e : i = cut + 2 * q
  <2>1. ASSUME i \in H PROVE \E q \in 1 .. e : i = cut + 2 * q
    <3>1. i \in R /\ t[i].kind = "hex"
      BY ONLY <1>1, <2>1
    <3>2. i \in Nat /\ i >= 1 /\ i >= cut + 2 /\ i <= m
      <4>1. i \in Nat /\ i >= 1 /\ i >= cut + 2 /\ (i <= m \/ (i = n /\ n = m + 1))
        BY ONLY <1>2, <3>1
      <4>2. ~(i = n /\ n = m + 1)
        <5>1. n = m + 1 => t[n].kind = "quad"
          BY ONLY <1>0
        <5> QED
          BY ONLY <3>1, <5>1
      <4> QED
        BY ONLY <4>1, <4>2
    <3>3. PICK q \in Nat : q >= 1 /\ IF q <= g THEN i = lead + 2 * q - 1 ELSE i = lead + 2 * q
      <4>1. t[i].kind = "hex" <=> HexPlace(i, g, lead)
        BY ONLY <3>2, g \in Nat, Follows(t, m, words, g, l, lead), lead = 0 \/ lead = 1, KindAt
      <4> QED
        BY ONLY <3>1, <4>1 DEF HexPlace
    <3>4. ~(q <= g) /\ i = lead + 2 * q
      BY ONLY <3>2, <3>3, cut = lead + 2 * g, g \in Nat, lead = 0 \/ lead = 1, q \in Nat
    <3>5. PICK p : p = q - g
      OBVIOUS
    <3>6. p \in 1 .. e /\ i = cut + 2 * p
      BY ONLY <1>0, <1>5, <3>2, <3>4, <3>5, cut = lead + 2 * g, g \in Nat, lead = 0 \/ lead = 1,
              q \in Nat, d \in Nat, m = lead + 2 * d \/ m = lead + 2 * d + 1
    <3> QED
      BY ONLY <3>6
  <2>2. ASSUME NEW q \in 1 .. e, i = cut + 2 * q PROVE i \in H
    <3>1. PICK p, k : p = g + q /\ k = i - 1
      OBVIOUS
    <3>2. /\ p \in Nat /\ p >= 1 /\ ~(p <= g) /\ k = lead + 2 * p - 1 /\ k + 1 <= m /\ k + 1 = i
          /\ i \in Nat /\ i >= cut + 2 /\ i <= n
      BY ONLY <1>0, <1>5, <2>2, <3>1, q \in 1 .. e, cut = lead + 2 * g, g \in Nat,
              lead = 0 \/ lead = 1, d \in Nat, g <= d, m = lead + 2 * d \/ m = lead + 2 * d + 1
    <3>3. t[k + 1].kind = "hex"
      <4>1. AtPair(t, m, words, g, l, lead, p, k)
        BY ONLY <3>2,
                Follows(t, m, words, g, l, lead), lead = 0 \/ lead = 1 DEF AtPair
      <4>2. KindsAt(t, m, g, p, k)
        BY ONLY <4>1, PlaceKinds
      <4> QED
        BY ONLY <3>2, <4>2 DEF KindsAt
    <3>4. i \in R
      BY ONLY <1>0, <1>1, <3>2
    <3> QED
      BY ONLY <1>1, <3>2, <3>3, <3>4
  <2> QED
    BY ONLY <2>1, <2>2
<1>7. Cardinality(H) = e
  <2>1. cut \in Int /\ e \in Nat
    BY ONLY <1>0, <1>5, d \in Nat, g \in Nat, g <= d
  <2> QED
    BY ONLY <1>6, <2>1, SecondPlaces
<1>8. WordsAt(t, cut + 2 .. n) = Cardinality(H) + 2 * Cardinality(Q)
  BY ONLY <1>1 DEF WordsAt
<1>9. e \in Nat
  BY ONLY <1>5, d \in Nat, g \in Nat, g <= d
<1>10. CASE n = m
  <2>1. Cardinality(Q) = 0
    BY ONLY <1>4, <1>10
  <2> QED
    BY ONLY <1>5, <1>7, <1>8, <1>9, <1>10, <2>1
<1>11. CASE n # m
  <2>1. Cardinality(Q) = 1
    BY ONLY <1>4, <1>11
  <2> QED
    BY ONLY <1>5, <1>7, <1>8, <1>9, <1>11, <2>1
<1> QED
  BY ONLY <1>10, <1>11

(* The m tokens that were planned, and what may be behind them.            *)
Shape(t, n, m, words, g, l, lead) ==
    /\ HasOpening(t, m, words, g, l, lead)
    /\ m \in Nat /\ n \in Nat /\ Len(t) = n /\ BehindPlan(t, m, n)

(* There is one :: if the run is not empty, and none otherwise.            *)
LEMMA CutsAre ==
    ASSUME NEW t, NEW n, NEW m, NEW words, NEW g, NEW l, NEW lead,
           Shape(t, n, m, words, g, l, lead)
    PROVE  \A i : i \in Cuts(t) <=> i = lead + 2 * g /\ i + 1 <= m
<1>0. /\ Follows(t, m, words, g, l, lead) /\ (lead = 0 \/ lead = 1) /\ g \in Nat
      /\ (g = 0 <=> lead = 1)
      /\ m \in Nat /\ n \in Nat /\ Len(t) = n /\ (n = m \/ (n = m + 1 /\ t[n].kind = "quad"))
  BY ONLY Shape(t, n, m, words, g, l, lead) DEF Shape, BehindPlan, HasOpening
<1>00. HasOpening(t, m, words, g, l, lead)
  BY ONLY Shape(t, n, m, words, g, l, lead) DEF Shape
<1>1. Cuts(t) = {i \in 1 .. n - 1 : t[i] = Colon /\ t[i + 1] = Colon}
  BY ONLY <1>0 DEF Cuts
<1>2. ASSUME NEW i \in Cuts(t) PROVE i = lead + 2 * g /\ i + 1 <= m
  <2>1. i \in 1 .. n - 1 /\ t[i] = Colon /\ t[i + 1] = Colon
    BY ONLY <1>1, i \in Cuts(t)
  <2>2. PICK j : j = i + 1
    OBVIOUS
  <2>3. i \in Nat /\ i >= 1 /\ j <= n /\ j \in Nat
    BY ONLY <1>0, <2>1, <2>2
  <2>4. t[j].kind = "colon"
    BY ONLY <2>1, <2>2, ColonIs
  <2>5. ~(n = m + 1 /\ j = n)
    BY ONLY <1>0, <2>4
  <2>6. i + 1 <= m
    BY ONLY <1>0, <2>2, <2>3, <2>5
  <2>7. i = lead + 2 * g
    <3>1. (t[i] = Colon /\ t[i + 1] = Colon) <=> i = lead + 2 * g
      BY ONLY <1>00, <2>3, <2>6, CutIs
    <3> QED
      BY ONLY <2>1, <3>1
  <2> QED
    BY ONLY <2>6, <2>7
<1>3. ASSUME NEW i, i = lead + 2 * g, i + 1 <= m PROVE i \in Cuts(t)
  <2>1. i \in Nat /\ i >= 1 /\ i \in 1 .. n - 1
    <3>1. i \in Nat /\ i >= 1
      <4>1. g \in Nat /\ (lead = 1 \/ (lead = 0 /\ g # 0))
        BY ONLY <1>0
      <4> QED
        BY ONLY <1>3, <4>1
    <3>2. m \in Nat /\ n \in Nat /\ m <= n
      BY ONLY <1>0
    <3> QED
      BY ONLY <1>3, <3>1, <3>2
  <2>2. (t[i] = Colon /\ t[i + 1] = Colon) <=> i = lead + 2 * g
    BY ONLY <1>00, <1>3, <2>1, CutIs
  <2> QED
    BY ONLY <1>1, <1>3, <2>1, <2>2
<1> QED
  BY ONLY <1>2, <1>3

(* Without a run, and without two colons in a row.                         *)
LEMMA PlainCompressed ==
    ASSUME NEW words, NEW t, Cuts(t) = {},
           \A a, n \in Nat : RunWithin(words, 8, a, n) => n < 2
    PROVE  Compressed(words, t)
<1>1. ASSUME NEW q \in Runs(words) PROVE FALSE
  <2>1. q[1] \in Nat /\ q[2] \in Nat /\ q[2] >= 2 /\ RunWithin(words, 8, q[1], q[2])
    BY ONLY q \in Runs(words), RunsAre
  <2>2. q[2] < 2
    BY ONLY <2>1, \A a, n \in Nat : RunWithin(words, 8, a, n) => n < 2
  <2> QED
    BY ONLY <2>1, <2>2
<1>2. Runs(words) = {}
  BY ONLY <1>1
<1> QED
  BY ONLY <1>2, Cuts(t) = {} DEF Compressed

(* The right of :: : all words that are behind the run.                    *)
LEMMA ShortShape ==
    ASSUME NEW t, NEW n, NEW words, NEW g, NEW l, NEW lead,
           Wrote(t, n, words, g, l, lead), ShortText(t, n, words, g, l, lead)
    PROVE  \E m, d \in Nat :
              /\ Shape(t, n, m, words, g, l, lead) /\ lead + 2 * g + 1 <= m
              /\ g <= d /\ (m = lead + 2 * d \/ m = lead + 2 * d + 1)
              /\ (d - g) + (IF n = m THEN 0 ELSE 2) = 8 - l - g
<1>0. /\ g \in Nat /\ l \in Nat /\ (lead = 0 \/ lead = 1) /\ n \in Nat /\ Len(t) = n
      /\ (g = 0 <=> lead = 1)
  BY ONLY Wrote(t, n, words, g, l, lead), ShortText(t, n, words, g, l, lead) DEF Wrote, ShortText
<1>1. PICK c \in Nat : /\ c + l = 8 /\ g <= c
                       /\ \/ g < c /\ n = lead + 2 * c /\ Follows(t, n, words, g, l, lead)
                          \/ g = c /\ n = lead + 2 * c + 1 /\ Follows(t, n, words, g, l, lead)
                          \/ EndsDotted(t, n, words, g, l, lead)
  BY ONLY ShortText(t, n, words, g, l, lead) DEF ShortText
<1>2. CASE g < c /\ n = lead + 2 * c /\ Follows(t, n, words, g, l, lead)
  <2>1. Shape(t, n, n, words, g, l, lead)
    BY ONLY <1>0, <1>2 DEF Shape, BehindPlan, HasOpening
  <2>2. /\ lead + 2 * g + 1 <= n /\ g <= c /\ (n = lead + 2 * c \/ n = lead + 2 * c + 1)
        /\ (c - g) + (IF n = n THEN 0 ELSE 2) = 8 - l - g
    BY ONLY <1>0, <1>1, <1>2
  <2> QED
    BY ONLY <1>0, <2>1, <2>2, c \in Nat
<1>3. CASE g = c /\ n = lead + 2 * c + 1 /\ Follows(t, n, words, g, l, lead)
  <2>1. Shape(t, n, n, words, g, l, lead)
    BY ONLY <1>0, <1>3 DEF Shape, BehindPlan, HasOpening
  <2>2. /\ lead + 2 * g + 1 <= n /\ g <= c /\ (n = lead + 2 * c \/ n = lead + 2 * c + 1)
        /\ (c - g) + (IF n = n THEN 0 ELSE 2) = 8 - l - g
    BY ONLY <1>0, <1>1, <1>3
  <2> QED
    BY ONLY <1>0, <2>1, <2>2, c \in Nat
<1>4. CASE EndsDotted(t, n, words, g, l, lead)
  <2>1. PICK m : m = n - 1
    OBVIOUS
  <2>2. /\ g = 0 /\ (l = 5 \/ l = 6) /\ lead = 1 /\ n = 2 * (8 - l) - 1
        /\ Follows(t, m, words, g, l, lead) /\ t[n] = Quad(words[7], words[8])
    BY ONLY <1>4, <2>1 DEF EndsDotted
  <2>3. t[n].kind = "quad"
    BY ONLY <2>2 DEF Quad, Token
  <2>4. m \in Nat /\ n = m + 1
    BY ONLY <1>0, <2>1, <2>2
  <2>5. Shape(t, n, m, words, g, l, lead)
    BY ONLY <1>0, <2>2, <2>3, <2>4 DEF Shape, BehindPlan, HasOpening
  <2>6. PICK d : d = 6 - l
    OBVIOUS
  <2>7. /\ d \in Nat /\ lead + 2 * g + 1 <= m /\ g <= d
        /\ (m = lead + 2 * d \/ m = lead + 2 * d + 1)
        /\ (d - g) + (IF n = m THEN 0 ELSE 2) = 8 - l - g
    <3>1. CASE l = 5
      BY ONLY <2>1, <2>2, <2>6, <3>1
    <3>2. CASE l = 6
      BY ONLY <2>1, <2>2, <2>6, <3>2
    <3> QED
      BY ONLY <2>2, <3>1, <3>2
  <2> QED
    BY ONLY <2>4, <2>5, <2>7
<1> QED
  BY ONLY <1>1, <1>2, <1>3, <1>4

(* The text has :: for the first of the longest runs.                      *)
LEMMA WroteCompressed ==
    ASSUME NEW t, NEW n, NEW words, NEW g, NEW l, NEW lead, Wrote(t, n, words, g, l, lead),
           Splits(words, BestRun(words), g, l, lead)
    PROVE  Compressed(words, t)
<1>0. /\ g \in Nat /\ l \in Nat /\ g <= 8 /\ (lead = 0 \/ lead = 1) /\ n \in Nat /\ Len(t) = n
      /\ PlainText(t, n, words, g, l, lead) \/ ShortText(t, n, words, g, l, lead)
  BY ONLY Wrote(t, n, words, g, l, lead) DEF Wrote
<1>1. PICK best : best = BestRun(words)
  OBVIOUS
<1>2. \/ best = NoRun /\ l = 0
      \/ best = [base |-> g + 1, len |-> l] /\ l >= 2 /\ g + l <= 8
  BY ONLY <1>1, Splits(words, BestRun(words), g, l, lead) DEF Splits
<1>3. \/ best = NoRun /\ \A a, m \in Nat : RunWithin(words, 8, a, m) => m < 2
      \/ \E x, y \in Nat :
            /\ best = [base |-> x, len |-> y] /\ y >= 2 /\ RunWithin(words, 8, x, y)
            /\ \A a, m \in Nat : RunWithin(words, 8, a, m) => Beaten(x, y, a, m)
  BY ONLY <1>1, BestRunIs DEF IsBest
<1>4. CASE PlainText(t, n, words, g, l, lead)
  <2>1. g = 8 /\ l = 0 /\ lead = 0 /\ n = 15 /\ Follows(t, n, words, g, l, lead)
    BY ONLY <1>4 DEF PlainText
  <2>2. Shape(t, n, n, words, g, l, lead)
    BY ONLY <1>0, <2>1 DEF Shape, BehindPlan, HasOpening
  <2>3. Cuts(t) = {}
    <3>1. \A i : i \in Cuts(t) <=> i = lead + 2 * g /\ i + 1 <= n
      BY ONLY <2>2, CutsAre
    <3>2. ~(lead + 2 * g + 1 <= n)
      BY ONLY <2>1
    <3> QED
      BY ONLY <3>1, <3>2
  <2>4. best = NoRun /\ NoRun.len = 0
    BY ONLY <1>2, <2>1 DEF NoRun
  <2>5. \A a, m \in Nat : RunWithin(words, 8, a, m) => m < 2
    <3>1. ASSUME NEW x \in Nat, NEW y \in Nat, best = [base |-> x, len |-> y], y >= 2 PROVE FALSE
      BY ONLY <2>4, <3>1
    <3> QED
      BY ONLY <1>3, <3>1
  <2> QED
    BY ONLY <2>3, <2>5, PlainCompressed
<1>5. CASE ShortText(t, n, words, g, l, lead)
  <2>1. PICK x, b : x = g + 1 /\ b = [base |-> x, len |-> l]
    OBVIOUS
  <2>2. l >= 2
    BY ONLY <1>5 DEF ShortText
  <2>3. best = b /\ g + l <= 8 /\ x \in Nat
    BY ONLY <1>0, <1>2, <2>1, <2>2
  <2>4. RunWithin(words, 8, x, l) /\ \A a, m \in Nat : RunWithin(words, 8, a, m) => Beaten(x, l, a, m)
    <3>1. ASSUME NEW p \in Nat, NEW y \in Nat, best = [base |-> p, len |-> y] PROVE p = x /\ y = l
      BY ONLY <2>1, <2>3, <3>1
    <3>2. best # NoRun
      BY ONLY <2>1, <2>2, <2>3 DEF NoRun
    <3> QED
      BY ONLY <1>3, <3>1, <3>2
  <2>5. PICK r : r = <<x, l>>
    OBVIOUS
  <2>6. r \in Runs(words) /\ r[1] = x /\ r[2] = l
    <3>1. <<x, l>> \in Runs(words)
      BY ONLY <1>0, <2>2, <2>3, <2>4, RunsAre
    <3> QED
      BY ONLY <2>5, <3>1
  <2>7. \A q \in Runs(words) : q[2] < r[2] \/ (q[2] = r[2] /\ q[1] >= r[1])
    <3>1. ASSUME NEW q \in Runs(words) PROVE q[2] < l \/ (q[2] = l /\ q[1] >= x)
      <4>1. q[1] \in Nat /\ q[2] \in Nat /\ RunWithin(words, 8, q[1], q[2])
        BY ONLY q \in Runs(words), RunsAre
      <4>2. Beaten(x, l, q[1], q[2])
        BY ONLY <2>4, <4>1
      <4> QED
        BY ONLY <4>2 DEF Beaten
    <3> QED
      BY ONLY <2>6, <3>1
  <2>8. PICK m, d \in Nat :
              /\ Shape(t, n, m, words, g, l, lead) /\ lead + 2 * g + 1 <= m
              /\ g <= d /\ (m = lead + 2 * d \/ m = lead + 2 * d + 1)
              /\ (d - g) + (IF n = m THEN 0 ELSE 2) = 8 - l - g
    BY ONLY <1>5, Wrote(t, n, words, g, l, lead), ShortShape
  <2>9. PICK cut : cut = lead + 2 * g
    OBVIOUS
  <2>10. /\ Follows(t, m, words, g, l, lead) /\ (g = 0 <=> lead = 1) /\ BehindPlan(t, m, n)
         /\ cut + 1 <= m /\ cut <= m /\ m \in Nat
    BY ONLY <1>0, <2>8, <2>9 DEF Shape, HasOpening
  <2>11. Cuts(t) = {cut}
    <3>1. \A i : i \in Cuts(t) <=> i = lead + 2 * g /\ i + 1 <= m
      BY ONLY <2>8, CutsAre
    <3> QED
      BY ONLY <2>9, <2>10, <3>1
  <2>12. WordsAt(t, 1 .. cut - 1) = r[1] - 1
    <3>1. WordsAt(t, 1 .. cut - 1) = g
      BY ONLY <1>0, <2>9, <2>10, LeftWords
    <3> QED
      BY ONLY <1>0, <2>1, <2>6, <3>1
  <2>13. WordsAt(t, cut + 2 .. Len(t)) = 9 - r[1] - r[2]
    <3>1. WordsAt(t, cut + 2 .. n) = (d - g) + IF n = m THEN 0 ELSE 2
      <4>1. HasRight(t, m, words, g, l, lead, cut, n, d)
        BY ONLY <1>0, <2>8, <2>9, <2>10 DEF HasRight
      <4> QED
        BY ONLY <4>1, RightWords
    <3>2. 8 - l - g = 9 - r[1] - r[2]
      BY ONLY <1>0, <2>1, <2>6
    <3> QED
      BY ONLY <1>0, <2>8, <3>1, <3>2
  <2>14. Runs(words) # {}
    BY ONLY <2>6
  <2> QED
    BY ONLY <2>6, <2>7, <2>11, <2>12, <2>13, <2>14 DEF Compressed
<1> QED
  BY ONLY <1>0, <1>4, <1>5

-----------------------------------------------------------------------------
(* The same address with its last two words dotted.                        *)
NoZeroWord(words) == \A i \in 1 .. 8 : words[i] # 0
DottedOf(words) == SubSeq(Ntop6(words), 1, 12) \o <<Quad(words[7], words[8])>>

(* Without a zero word there is no run.                                    *)
LEMMA NoRunThere ==
    ASSUME NEW words, NoZeroWord(words)
    PROVE  \A a, n \in Nat : ~RunWithin(words, 8, a, n)
<1>1. PICK A : A = 1 .. 8
  OBVIOUS
<1>2. \A i \in A : words[i] # 0
  BY ONLY <1>1, NoZeroWord(words) DEF NoZeroWord
<1> SUFFICES ASSUME NEW a \in Nat, NEW n \in Nat, RunWithin(words, 8, a, n) PROVE FALSE
  OBVIOUS
<1>3. a >= 1 /\ n >= 1 /\ a + n <= 9 /\ ZerosAt(words, a, n)
  BY DEF RunWithin
<1>4. a <= a /\ a < a + n /\ a \in A
  BY <1>1, <1>3
<1>5. words[a] = 0
  BY <1>3, <1>4 DEF ZerosAt
<1> QED
  BY <1>2, <1>4, <1>5

(* A text without zero words has no ::.                                    *)
LEMMA NonzeroPlain ==
    ASSUME NEW t, NEW n, NEW words, NEW g, NEW l, NEW lead, Wrote(t, n, words, g, l, lead),
           NoZeroWord(words)
    PROVE  n = 15 /\ Follows(t, n, words, 8, 0, 0)
<1>1. /\ g \in Nat /\ l \in Nat /\ words \in Address6
      /\ PlainText(t, n, words, g, l, lead) \/ ShortText(t, n, words, g, l, lead)
  BY ONLY Wrote(t, n, words, g, l, lead) DEF Wrote
<1>2. ~ShortText(t, n, words, g, l, lead)
  <2> SUFFICES ASSUME ShortText(t, n, words, g, l, lead) PROVE FALSE
    OBVIOUS
  <2>1. l >= 2 /\ ZerosAt(words, g + 1, l) /\ \E c \in Nat : c + l = 8 /\ g <= c
    BY DEF ShortText
  <2>2. PICK a : a = g + 1
    OBVIOUS
  <2>3. a \in Nat /\ a >= 1 /\ a + l <= 8 + 1 /\ l >= 1
    BY <1>1, <2>1, <2>2
  <2>4. RunWithin(words, 8, a, l)
    BY <2>1, <2>2, <2>3 DEF RunWithin
  <2> QED
    BY <1>1, <2>3, <2>4, NoRunThere
<1>3. PlainText(t, n, words, g, l, lead)
  BY ONLY <1>1, <1>2
<1> QED
  BY ONLY <1>3 DEF PlainText

(* The dotted form: the first six words as they were.                      *)
HasForm(u, words) ==
    /\ u \in Seq(Tokens6) /\ Len(u) = 13 /\ words \in Address6
    /\ Follows(u, 12, words, 8, 0, 0) /\ u[13] = Quad(words[7], words[8])

(* The dotted form has the places of the first six words.                  *)
LEMMA DottedIs ==
    ASSUME NEW words \in Address6, NoZeroWord(words)
    PROVE  /\ HasForm(DottedOf(words), words)
           /\ SubSeq(DottedOf(words), 1, 12) = SubSeq(Ntop6(words), 1, 12)
<1>1. PICK t, u, e : t = Ntop6(words) /\ u = DottedOf(words) /\ e = Quad(words[7], words[8])
  OBVIOUS
<1>2. PICK g, l, lead, n : Wrote(t, n, words, g, l, lead)
  BY ONLY <1>1, words \in Address6, AllWritten
<1>3. Len(t) = n /\ t \in Seq(Tokens6)
  BY ONLY <1>2 DEF Wrote
<1>4. n = 15 /\ Follows(t, n, words, 8, 0, 0)
  BY ONLY <1>2, NoZeroWord(words), NonzeroPlain
<1>5. PICK p, T, c : p = SubSeq(t, 1, c) /\ T = Tokens6 /\ c = 12
  OBVIOUS
<1>6. p \in Seq(T) /\ Len(p) = c /\ \A k \in 1 .. c : p[k] = t[k]
  <2>1. c \in 0 .. Len(t) /\ t \in Seq(T)
    BY ONLY <1>3, <1>4, <1>5
  <2> QED
    BY ONLY SMTT(30), <1>5, <2>1, TakeAndKeep
<1>7. e \in Tokens6
  <2>1. 7 \in 1 .. 8 /\ 8 \in 1 .. 8
    OBVIOUS
  <2>2. words[7] \in Word /\ words[8] \in Word
    BY ONLY <2>1, words \in Address6 DEF Address6
  <2> QED
    BY ONLY <1>1, <2>2, TokensAre
<1>8. u = Append(p, e)
  <2>1. u = p \o <<e>>
    BY ONLY <1>1, <1>5 DEF DottedOf
  <2> QED
    BY ONLY <1>5, <1>6, <1>7, <2>1, AppendIsConcat
<1>9. /\ u \in Seq(T) /\ Len(u) = c + 1 /\ u[c + 1] = e
      /\ \A k \in 1 .. c : u[k] = p[k]
  BY ONLY <1>5, <1>6, <1>7, <1>8, AppendProperties
<1>10. /\ u \in Seq(T) /\ Len(u) = 13 /\ u[13] = e
       /\ \A k \in 1 .. 12 : u[k] = t[k]
  BY ONLY <1>5, <1>6, <1>9
<1>11. SubSeq(u, 1, c) = p
  <2>1. PICK r : r = SubSeq(u, 1, c)
    OBVIOUS
  <2>2. c \in 0 .. Len(u)
    BY ONLY <1>5, <1>9
  <2>3. r \in Seq(T) /\ Len(r) = c /\ \A k \in 1 .. c : r[k] = u[k]
    BY ONLY <1>9, <2>1, <2>2, TakeAndKeep
  <2>4. \A k \in 1 .. c : r[k] = p[k]
    BY ONLY <1>9, <2>3
  <2>5. r = p
    BY ONLY <1>6, <2>3, <2>4, SeqEqual
  <2> QED
    BY ONLY <2>1, <2>5
<1>12. Follows(u, 12, words, 8, 0, 0)
  <2>1. \A k \in 1 .. 15 : Planned(t[k], k, words, 8, 0, 0)
    BY ONLY <1>4 DEF Follows
  <2>2. \A k \in 1 .. 12 : u[k] = t[k] /\ k \in 1 .. 15
    BY ONLY <1>10
  <2>3. \A k \in 1 .. 12 : Planned(u[k], k, words, 8, 0, 0)
    BY ONLY <2>1, <2>2
  <2>4. 12 \in Nat /\ 12 <= 13
    OBVIOUS
  <2> QED
    BY ONLY <1>5, <1>10, <2>3, <2>4 DEF Follows
<1> QED
  BY ONLY <1>1, <1>5, <1>10, <1>11, <1>12, words \in Address6 DEF HasForm

(* It reads back as the address.                                           *)
LEMMA DottedReads ==
    ASSUME NEW u, NEW words, HasForm(u, words)
    PROVE  Pton6(u) = words
<1>1. /\ u \in Seq(Tokens6) /\ Len(u) = 13 /\ words \in Address6
      /\ Follows(u, 12, words, 8, 0, 0) /\ u[13] = Quad(words[7], words[8])
  BY ONLY HasForm(u, words) DEF HasForm
<1>2. \A q \in 1 .. 6 : PairAt(u, words, 8, 0, q)
  <2>1. IsBehind(u, u, 0, 13)
    <3>1. \A i \in 1 .. 13 : 0 + i = i
      OBVIOUS
    <3> QED
      BY ONLY <1>1, <3>1 DEF IsBehind
  <2>2. 6 \in Nat /\ 13 \in Nat /\ 0 + 2 * 6 <= 12 /\ 2 * 6 <= 13
    OBVIOUS
  <2>3. Stands(u, 12, words, 8, 0, 0, u, 13, 6)
    BY ONLY <1>1, <2>1, <2>2 DEF Stands
  <2> QED
    BY ONLY <2>3, PairsShown
<1>3. ShowsPairs(u, 13, words, 8, 0, 6)
  <2>1. /\ 13 \in Nat /\ 8 \in Nat /\ 0 \in Nat /\ 6 \in Nat /\ 8 <= 8 /\ 0 + 6 <= 8 /\ 6 <= 7
        /\ IF 6 <= 8 THEN 2 * 6 < 13 ELSE 2 * 6 <= 13
    OBVIOUS
  <2> QED
    BY ONLY <1>1, <1>2, <2>1 DEF ShowsPairs
<1>4. Displays(u, words, 8, 0)
  <2>1. IsDottedText(u, words, 8, 0)
    BY ONLY <1>1, <1>3 DEF IsDottedText
  <2> QED
    BY ONLY <2>1 DEF Displays
<1>5. Result6(u) = words
  BY ONLY <1>4, DisplayRead
<1>6. u # <<>>
  <2>1. PICK n : n = Len(u)
    OBVIOUS
  <2>2. n # 0
    BY ONLY <1>1, <2>1
  <2> QED
    BY ONLY <2>1, <2>2
<1>7. u[1] # Colon
  <2>1. u[1] = Hex(words[1])
    <3>1. PICK q, k : q = 1 /\ k = 1
      OBVIOUS
    <3>2. q \in Nat /\ q >= 1 /\ k = 0 + 2 * q - 1 /\ k <= 12 /\ q <= 8 /\ (0 = 0 \/ 0 = 1)
      BY ONLY <3>1
    <3>3. u[k] = IF q <= 8 THEN Hex(words[q]) ELSE Colon
      BY ONLY SMTT(30), <1>1, <3>2, OddPlace
    <3> QED
      BY ONLY <3>1, <3>2, <3>3
  <2>2. Hex(words[1]).kind = "hex" /\ Colon.kind = "colon"
    BY ONLY HexKind, ColonIs
  <2> QED
    BY ONLY <2>1, <2>2
<1> QED
  BY ONLY <1>5, <1>6, <1>7, Pton6Is

(* It fits, 30 characters for the first six words and 15 for the rest.     *)
LEMMA DottedFits ==
    ASSUME NEW u, NEW words, HasForm(u, words)
    PROVE  CharLen(u) < AddrStrLen6
<1>1. /\ u \in Seq(Tokens6) /\ Len(u) = 13 /\ words \in Address6
      /\ Follows(u, 12, words, 8, 0, 0) /\ u[13] = Quad(words[7], words[8])
  BY ONLY HasForm(u, words) DEF HasForm
<1>2. PICK f : f = Lengths(u)
  OBVIOUS
<1>3. \A i \in 1 .. Len(u) : f[i] = f[i - 1] + u[i].len
  <2>1. PICK n : n = Len(u)
    OBVIOUS
  <2>2. n \in Nat
    BY ONLY <1>1, <2>1
  <2>3. \A i \in 1 .. n : f[i] = f[i - 1] + u[i].len
    BY ONLY <1>2, <2>1, <2>2, LengthsIs
  <2> QED
    BY ONLY <2>1, <2>3
<1>4. PICK q, lead : q = 6 /\ lead = 0
  OBVIOUS
<1>5. q \in Nat /\ (lead = 0 \/ lead = 1) /\ lead + 2 * q = 12 /\ lead + 2 * q <= 12 /\ lead + 5 * q = 30
  BY ONLY <1>4
<1>6. WideTo(u, 12, lead, q)
  BY ONLY <1>1, <1>4, <1>5, PairsWide
<1>7. f[12] \in Nat /\ f[12] <= 30
  BY ONLY <1>2, <1>5, <1>6 DEF WideTo
<1>8. PICK x : x = u[13].len
  OBVIOUS
<1>9. x \in 1 .. 15
  <2>1. 7 \in 1 .. 8 /\ 8 \in 1 .. 8
    OBVIOUS
  <2>2. words[7] \in Word /\ words[8] \in Word
    BY ONLY <1>1, <2>1 DEF Address6
  <2> QED
    BY ONLY <1>1, <1>8, <2>2, QuadIs
<1>10. f[13] = f[12] + x
  <2>1. 13 \in 1 .. Len(u) /\ 13 - 1 = 12
    BY ONLY <1>1
  <2> QED
    BY ONLY <1>3, <1>8, <2>1
<1>11. CharLen(u) = f[13]
  BY ONLY <1>1, <1>2 DEF CharLen
<1>12. PICK y : y = f[12]
  OBVIOUS
<1> QED
  BY ONLY <1>7, <1>9, <1>10, <1>11, <1>12 DEF AddrStrLen6

(* It has no :: either, as no word is zero.                                *)
LEMMA DottedCompressed ==
    ASSUME NEW u, NEW words, HasForm(u, words), NoZeroWord(words)
    PROVE  Compressed(words, u)
<1>1. /\ u \in Seq(Tokens6) /\ Len(u) = 13
      /\ Follows(u, 12, words, 8, 0, 0) /\ u[13] = Quad(words[7], words[8])
  BY ONLY HasForm(u, words) DEF HasForm
<1>2. u[13].kind = "quad"
  BY ONLY <1>1 DEF Quad, Token
<1>3. PICK n, m, g, lead : n = 13 /\ m = 12 /\ g = 8 /\ lead = 0
  OBVIOUS
<1>4. Shape(u, n, m, words, g, 0, lead)
  <2>1. /\ n \in Nat /\ m \in Nat /\ g \in Nat /\ (lead = 0 \/ lead = 1) /\ (g = 0 <=> lead = 1)
        /\ n = m + 1
    BY ONLY <1>3
  <2> QED
    BY ONLY <1>1, <1>2, <1>3, <2>1 DEF Shape, HasOpening, BehindPlan
<1>5. Cuts(u) = {}
  <2>1. \A i : i \in Cuts(u) <=> i = lead + 2 * g /\ i + 1 <= m
    BY ONLY <1>4, CutsAre
  <2>2. ~(lead + 2 * g + 1 <= m)
    BY ONLY <1>3
  <2> QED
    BY ONLY <2>1, <2>2
<1>6. \A a, k \in Nat : RunWithin(words, 8, a, k) => k < 2
  BY ONLY NoZeroWord(words), NoRunThere
<1> QED
  BY ONLY <1>5, <1>6, PlainCompressed

-----------------------------------------------------------------------------
(* A text that nobody changed is one of the two forms of its address.      *)
Made6(words, t) == t = Ntop6(words) \/ (NoZeroWord(words) /\ t = DottedOf(words))

InetInv ==
    /\ edits \in Nat
    /\ family = "none" => edits = 0
    /\ family \in {"none", "inet", "inet6"}
    /\ family = "inet" /\ edits = 0 =>
          addr \in [1 .. 4 -> 0 .. 255] /\ text = Ntop4(addr)
    /\ family = "inet6" /\ edits = 0 =>
          addr \in Address6 /\ Made6(addr, text)

(* Both forms read back, fit and have :: where it belongs.                 *)
LEMMA MadeReads ==
    ASSUME NEW words \in Address6, NEW t, Made6(words, t)
    PROVE  InetPton("inet6", t) = words /\ CharLen(t) < AddrStrLen6 /\ Compressed(words, t)
<1>1. CASE t = Ntop6(words)
  <2>1. PICK g, l, lead, n : /\ Wrote(t, n, words, g, l, lead)
                             /\ Splits(words, BestRun(words), g, l, lead)
    BY ONLY <1>1, words \in Address6, AllWritten
  <2>2. t \in Seq(Tokens6)
    BY ONLY <2>1 DEF Wrote
  <2>3. Pton6(t) = words
    BY ONLY <2>1, WroteReads
  <2>4. CharLen(t) < AddrStrLen6
    BY ONLY <2>1, WroteFits
  <2>5. Compressed(words, t)
    BY ONLY <2>1, WroteCompressed
  <2>6. InetPton("inet6", t) = Pton6(t)
    BY ONLY <2>2, NoZone
  <2> QED
    BY ONLY <2>3, <2>4, <2>5, <2>6
<1>2. CASE NoZeroWord(words) /\ t = DottedOf(words)
  <2>1. HasForm(t, words)
    BY ONLY <1>2, words \in Address6, DottedIs
  <2>2. t \in Seq(Tokens6)
    BY ONLY <2>1 DEF HasForm
  <2>3. Pton6(t) = words
    BY ONLY <2>1, DottedReads
  <2>4. CharLen(t) < AddrStrLen6
    BY ONLY <2>1, DottedFits
  <2>5. Compressed(words, t)
    BY ONLY <1>2, <2>1, DottedCompressed
  <2>6. InetPton("inet6", t) = Pton6(t)
    BY ONLY <2>2, NoZone
  <2> QED
    BY ONLY <2>3, <2>4, <2>5, <2>6
<1> QED
  BY ONLY <1>1, <1>2, Made6(words, t) DEF Made6

(* The dotted form of a text is the same of either form.                   *)
LEMMA MadeDotted ==
    ASSUME NEW words \in Address6, NEW t, Made6(words, t), NoZeroWord(words),
           NEW u, u = SubSeq(t, 1, 12) \o <<Quad(words[7], words[8])>>
    PROVE  Made6(words, u)
<1>1. SubSeq(t, 1, 12) = SubSeq(Ntop6(words), 1, 12)
  <2>1. SubSeq(DottedOf(words), 1, 12) = SubSeq(Ntop6(words), 1, 12)
    BY ONLY words \in Address6, NoZeroWord(words), DottedIs
  <2> QED
    BY ONLY <2>1, Made6(words, t) DEF Made6
<1>2. u = DottedOf(words)
  BY ONLY <1>1, u = SubSeq(t, 1, 12) \o <<Quad(words[7], words[8])>> DEF DottedOf
<1> QED
  BY ONLY <1>2, NoZeroWord(words) DEF Made6

(* Formatting makes the first form, Dotted the second; an edit counts.     *)
LEMMA InetStep ==
    ASSUME InetInv, [InetNext]_inetVars
    PROVE  InetInv'
<1>0. /\ Words \subseteq Word /\ Edited6 \subseteq Address6
      /\ Octets \subseteq 0 .. 255 /\ Edited4 \subseteq [1 .. 4 -> 0 .. 255]
  BY ONLY InetAssumption DEF InetAssumption, Address6
<1>00. /\ edits \in Nat /\ (family = "none" => edits = 0)
       /\ family \in {"none", "inet", "inet6"}
       /\ family = "inet" /\ edits = 0 =>
             addr \in [1 .. 4 -> 0 .. 255] /\ text = Ntop4(addr)
       /\ family = "inet6" /\ edits = 0 => addr \in Address6 /\ Made6(addr, text)
  BY DEF InetInv
<1>1. ASSUME NEW b \in [1 .. 4 -> Octets] \cup Edited4, Format("inet", b)
      PROVE  InetInv'
  <2>1. b \in [1 .. 4 -> 0 .. 255]
    <3>1. PICK A, B : A = 1 .. 4 /\ B = 0 .. 255
      OBVIOUS
    <3>2. Octets \subseteq B /\ Edited4 \subseteq [A -> B] /\ b \in [A -> Octets] \cup Edited4
      BY ONLY <1>0, <3>1, b \in [1 .. 4 -> Octets] \cup Edited4
    <3>3. b \in [A -> B]
      BY ONLY <3>2
    <3> QED
      BY ONLY <3>1, <3>3
  <2>2. /\ family = "none" /\ family' = "inet" /\ addr' = b /\ text' = Ntop4(b)
        /\ edits' = edits
    BY ONLY <1>1 DEF Format
  <2>3. edits' \in Nat /\ (family' = "none" => edits' = 0) /\ family' \in {"none", "inet", "inet6"}
    BY ONLY <1>00, <2>2
  <2>4. addr' \in [1 .. 4 -> 0 .. 255] /\ text' = Ntop4(addr')
    BY ONLY <2>1, <2>2
  <2>5. family' # "inet6"
    BY ONLY <2>2
  <2> QED
    BY ONLY <2>3, <2>4, <2>5 DEF InetInv
<1>2. ASSUME NEW w \in [1 .. 8 -> Words] \cup Edited6, Format("inet6", w)
      PROVE  InetInv'
  <2>1. w \in Address6
    <3>1. PICK A : A = 1 .. 8
      OBVIOUS
    <3>2. Edited6 \subseteq [A -> Word] /\ w \in [A -> Words] \cup Edited6 /\ Words \subseteq Word
      BY ONLY <1>0, <3>1, w \in [1 .. 8 -> Words] \cup Edited6 DEF Address6
    <3>3. w \in [A -> Word]
      BY ONLY <3>2
    <3> QED
      BY ONLY <3>1, <3>3 DEF Address6
  <2>2. /\ family = "none" /\ family' = "inet6" /\ addr' = w /\ text' = Ntop6(w)
        /\ edits' = edits
    BY ONLY <1>2 DEF Format
  <2>3. edits' \in Nat /\ (family' = "none" => edits' = 0) /\ family' \in {"none", "inet", "inet6"}
    BY ONLY <1>00, <2>2
  <2>4. addr' \in Address6 /\ text' = Ntop6(addr')
    BY ONLY <2>1, <2>2
  <2>5. Made6(addr', text')
    BY ONLY <2>4 DEF Made6
  <2>6. family' # "inet"
    BY ONLY <2>2
  <2> QED
    BY ONLY <2>3, <2>4, <2>5, <2>6 DEF InetInv
<1>3. ASSUME Dotted PROVE InetInv'
  <2>1. /\ family = "inet6" /\ edits = 0 /\ family' = family /\ addr' = addr /\ edits' = edits
        /\ NoZeroWord(addr)
        /\ text' = SubSeq(text, 1, 12) \o <<Quad(addr[7], addr[8])>>
    BY ONLY <1>3 DEF Dotted, NoZeroWord
  <2>2. addr \in Address6 /\ Made6(addr, text)
    BY ONLY <1>00, <2>1
  <2>3. Made6(addr, text')
    BY ONLY <2>1, <2>2, MadeDotted
  <2>4. addr' \in Address6 /\ Made6(addr', text')
    BY ONLY <2>1, <2>2, <2>3
  <2> QED
    BY ONLY <1>00, <2>1, <2>4 DEF InetInv
<1>4. ASSUME Edit PROVE InetInv'
  <2>1. family # "none" /\ family' = family /\ edits' = edits + 1
    BY ONLY <1>4 DEF Edit
  <2>2. edits' \in Nat /\ edits' # 0
    BY ONLY <1>00, <2>1
  <2> QED
    BY ONLY <1>00, <2>1, <2>2 DEF InetInv
<1>5. ASSUME UNCHANGED inetVars PROVE InetInv'
  <2>1. family' = family /\ addr' = addr /\ text' = text /\ edits' = edits
    BY ONLY <1>5 DEF inetVars
  <2> QED
    BY ONLY <1>00, <2>1 DEF InetInv
<1> QED
  BY ONLY <1>1, <1>2, <1>3, <1>4, <1>5, [InetNext]_inetVars DEF InetNext

(* An unchanged text is of an address whose two forms read back.           *)
LEMMA InetInvImplies == InetInv => InetRoundTrip
<1> SUFFICES ASSUME InetInv, edits = 0, family # "none"
             PROVE  /\ InetPton(family, text) = addr
                    /\ IF family = "inet" THEN Len(text) < AddrStrLen4
                       ELSE CharLen(text) < AddrStrLen6 /\ Compressed(addr, text)
  BY DEF InetRoundTrip
<1>0. /\ family \in {"none", "inet", "inet6"}
      /\ family = "inet" /\ edits = 0 =>
            addr \in [1 .. 4 -> 0 .. 255] /\ text = Ntop4(addr)
      /\ family = "inet6" /\ edits = 0 => addr \in Address6 /\ Made6(addr, text)
  BY DEF InetInv
<1>1. CASE family = "inet"
  <2>1. addr \in [1 .. 4 -> 0 .. 255] /\ text = Ntop4(addr)
    BY ONLY <1>0, <1>1, edits = 0
  <2>2. Pton4(Ntop4(addr)) = addr /\ Len(Ntop4(addr)) < AddrStrLen4
    BY ONLY <2>1, Inet4RoundTrip
  <2>3. InetPton(family, text) = Pton4(text)
    BY ONLY <1>1 DEF InetPton
  <2> QED
    BY ONLY <1>1, <2>1, <2>2, <2>3
<1>2. CASE family = "inet6"
  <2>1. addr \in Address6 /\ Made6(addr, text)
    BY ONLY <1>0, <1>2, edits = 0
  <2>2. /\ InetPton("inet6", text) = addr /\ CharLen(text) < AddrStrLen6
        /\ Compressed(addr, text)
    BY ONLY <2>1, MadeReads
  <2>3. family # "inet"
    BY ONLY <1>2
  <2> QED
    BY ONLY <1>2, <2>2, <2>3
<1> QED
  BY <1>0, <1>1, <1>2

(* The text that inet_ntop makes of any address, and its other form, reads *)
(* back through inet_pton as that address, fits into the buffers on the    *)
(* stack, and has :: for the first of the longest runs of zero words.      *)
THEOREM InetRoundTripCorrect == InetSpec => []InetRoundTrip
<1>1. InetInit => InetInv
  <2>1. ASSUME InetInit PROVE InetInv
    <3>1. family = "none" /\ edits = 0
      BY ONLY <2>1 DEF InetInit
    <3> QED
      BY ONLY <3>1 DEF InetInv
  <2> QED
    BY ONLY <2>1
<1>2. InetInv /\ [InetNext]_inetVars => InetInv'
  BY InetStep
<1>3. InetInv => InetRoundTrip
  BY InetInvImplies
<1> QED
  BY <1>1, <1>2, <1>3, PTL DEF InetSpec
=============================================================================
