--------------------------- MODULE SkBufferProofs ---------------------------
(* Theorems about the socket buffer, for every set of threads and bytes    *)
(* and every size of the buffer, the socket's send buffer and the calls.   *)
EXTENDS SkBuffer, TLAPS, SequenceFacts

(* The bytes between the two positions were stored by write, recv or       *)
(* udp_recv: none of them is what calloc or realloc left there.            *)
DataInv == \A i \in 1 .. data_size : buf[rpos + i] \in Bytes

(* While sendn is under way, it has sent the oldest bytes, and they and    *)
(* those left are what it was asked to send.                               *)
SendInv ==
    /\ \A t \in Threads : pc[t] = "sending" =>
          /\ data_size > 0
          /\ Len(sent) + nleft = ToSend
          /\ \A i \in 1 .. Len(sent) : sent[i] = buf[rpos + i]
    /\ (\A t \in Threads : pc[t] # "sending") => nleft = 0 /\ sent = <<>>

SkBufferInv ==
    /\ TypeOK /\ PositionsAgree /\ LockedInSocket /\ RoomToReceive
    /\ GrowthBounded /\ DataInv /\ SendInv

Stored_in == Bytes \cup {Junk}

(* Nobody is inside recv, udp_recv or send when the mutex is free, and one *)
(* thread is when it is not.                                               *)
LEMMA WhoIsInside ==
    ASSUME LockedInSocket
    PROVE  /\ mutex = NoThread => \A u \in Threads : pc[u] = "idle"
           /\ \A t \in Threads : pc[t] # "idle" =>
                mutex = t /\ \A u \in Threads \ {t} : pc[u] = "idle"
BY SkBufferAssumption DEF LockedInSocket

(* A call that holds the mutex for one step meets nobody inside another,   *)
(* and leaves nobody inside.                                               *)
LEMMA ShortCall ==
    ASSUME SkBufferInv, mutex = NoThread, UNCHANGED <<mutex, pc, sockVars>>
    PROVE  LockedInSocket' /\ RoomToReceive' /\ SendInv'
<1>1. \A u \in Threads : pc[u] = "idle" /\ pc'[u] = "idle"
  BY WhoIsInside DEF SkBufferInv
<1> QED
  BY <1>1, SkBufferAssumption
  DEF SkBufferInv, LockedInSocket, RoomToReceive, SendInv, sockVars

(* What the positions and the size of the memory are.                      *)
LEMMA Sizes ==
    ASSUME PositionsAgree
    PROVE  /\ buf \in Seq(Stored_in) /\ buf_size \in Nat /\ Len(buf) = buf_size
           /\ data_size \in Nat /\ rpos \in Nat /\ wpos \in Nat
           /\ wpos = rpos + data_size /\ wpos <= buf_size
           /\ \A i \in 1 .. buf_size : buf[i] \in Stored_in
<1>1. buf \in Seq(Stored_in)
  BY DEF PositionsAgree, TypeOK, Stored_in
<1>2. buf_size \in Nat /\ \A i \in 1 .. buf_size : buf[i] \in Stored_in
  BY <1>1, LenProperties, ElementOfSeq DEF buf_size
<1> QED
  BY <1>1, <1>2 DEF PositionsAgree, TypeOK, buf_size

(* memmove brings the data to the beginning of the same memory.            *)
LEMMA MovedIs ==
    ASSUME PositionsAgree
    PROVE  /\ Moved \in Seq(Stored_in) /\ Len(Moved) = buf_size
           /\ \A i \in 1 .. data_size : Moved[i] = buf[rpos + i]
<1> USE Sizes
<1>1. \A i \in 1 .. buf_size : i <= data_size =>
          rpos + i \in 1 .. buf_size
  OBVIOUS
<1>2. Moved \in [1 .. buf_size -> Stored_in]
  BY <1>1 DEF Moved
<1>3. Moved \in Seq(Stored_in) /\ Len(Moved) = buf_size
  BY <1>2, FunctionIsSeq
<1>4. \A i \in 1 .. data_size : Moved[i] = buf[rpos + i]
  BY DEF Moved
<1> QED
  BY <1>3, <1>4

(* realloc keeps what was there and appends what it did not initialize.    *)
LEMMA GrownIs ==
    ASSUME NEW memory \in Seq(Stored_in), NEW more \in Nat
    PROVE  /\ Grown(memory, more) \in Seq(Stored_in)
           /\ Len(Grown(memory, more)) =
                Len(memory) + (Len(memory) \div 2 + more)
           /\ \A i \in 1 .. Len(memory) : Grown(memory, more)[i] = memory[i]
<1> DEFINE n == Len(memory) \div 2 + more
           tail == [i \in 1 .. n |-> Junk]
<1>1. Len(memory) \in Nat
  BY LenProperties
<1>2. n \in Nat
  BY <1>1
<1>3. tail \in [1 .. n -> Stored_in]
  BY DEF Stored_in
<1> HIDE DEF n
<1>4. tail \in Seq(Stored_in) /\ Len(tail) = n
  BY <1>2, <1>3, FunctionIsSeq, Zenon
<1>5. Grown(memory, more) = memory \o tail
  BY DEF Grown, n
<1> HIDE DEF tail
<1>6. /\ memory \o tail \in Seq(Stored_in)
      /\ Len(memory \o tail) = Len(memory) + Len(tail)
      /\ \A i \in 1 .. Len(memory) + Len(tail) : (memory \o tail)[i] =
            IF i <= Len(memory) THEN memory[i] ELSE tail[i - Len(memory)]
  BY ONLY <1>4, memory \in Seq(Stored_in), ConcatProperties
<1>7. \A i \in 1 .. Len(memory) : (memory \o tail)[i] = memory[i]
  BY <1>1, <1>2, <1>4, <1>6
<1> QED
  BY <1>4, <1>5, <1>6, <1>7 DEF n

(* memcpy of bytes to a position replaces what was there and nothing else. *)
LEMMA StoredIs ==
    ASSUME NEW memory \in Seq(Stored_in), NEW pos \in Nat,
           NEW bytes \in Seq(Bytes), pos + Len(bytes) <= Len(memory)
    PROVE  /\ Stored(memory, pos, bytes) \in Seq(Stored_in)
           /\ Len(Stored(memory, pos, bytes)) = Len(memory)
           /\ \A i \in 1 .. pos : Stored(memory, pos, bytes)[i] = memory[i]
           /\ \A i \in 1 .. Len(bytes) :
                Stored(memory, pos, bytes)[pos + i] = bytes[i]
<1> DEFINE new == Stored(memory, pos, bytes)
<1>1. /\ Len(memory) \in Nat /\ Len(bytes) \in Nat
      /\ \A i \in 1 .. Len(memory) : memory[i] \in Stored_in
      /\ \A i \in 1 .. Len(bytes) : bytes[i] \in Stored_in
  BY LenProperties, ElementOfSeq DEF Stored_in
<1>2. \A i \in 1 .. Len(memory) : i > pos /\ i <= pos + Len(bytes) =>
          i - pos \in 1 .. Len(bytes)
  BY <1>1
<1>3. new \in [1 .. Len(memory) -> Stored_in]
  BY <1>1, <1>2 DEF Stored
<1>4. new \in Seq(Stored_in) /\ Len(new) = Len(memory)
  BY <1>1, <1>3, FunctionIsSeq
<1>5. ASSUME NEW i \in 1 .. pos
      PROVE  new[i] = memory[i]
  BY <1>1 DEF Stored
<1>6. ASSUME NEW i \in 1 .. Len(bytes)
      PROVE  new[pos + i] = bytes[i]
  <2>1. /\ pos + i \in 1 .. Len(memory) /\ pos + i > pos
        /\ pos + i <= pos + Len(bytes) /\ (pos + i) - pos = i
    BY <1>1
  <2> QED
    BY <2>1 DEF Stored
<1> QED
  BY <1>4, <1>5, <1>6

(* The bytes between the positions are Content.                            *)
LEMMA ContentIs ==
    ASSUME PositionsAgree, DataInv
    PROVE  /\ Content \in Seq(Bytes) /\ Len(Content) = data_size
           /\ \A i \in 1 .. data_size : Content[i] = buf[rpos + i]
<1>1. rpos \in Nat /\ data_size \in Nat
      /\ \A i \in 1 .. data_size : buf[rpos + i] \in Bytes
  BY Sizes DEF DataInv
<1> QED
  BY ONLY <1>1, Slice DEF Content

(* The same of the data that a step leaves: n bytes behind the first r of  *)
(* the memory b.                                                           *)
LEMMA ContentAfter ==
    ASSUME NEW b, NEW r \in Nat, NEW n \in Nat,
           buf' = b, rpos' = r, data_size' = n,
           \A i \in 1 .. n : b[r + i] \in Bytes
    PROVE  /\ DataInv'
           /\ Content' \in Seq(Bytes) /\ Len(Content') = n
           /\ \A i \in 1 .. n : Content'[i] = b[r + i]
<1>1. DataInv'
  BY DEF DataInv
<1>2. /\ SubSeq(b, r + 1, r + n) \in Seq(Bytes)
      /\ Len(SubSeq(b, r + 1, r + n)) = n
      /\ \A i \in 1 .. n : SubSeq(b, r + 1, r + n)[i] = b[r + i]
  BY ONLY r \in Nat, n \in Nat, \A i \in 1 .. n : b[r + i] \in Bytes, Slice
<1>3. Content' = SubSeq(b, r + 1, r + n)
  BY DEF Content
<1> QED
  BY ONLY <1>1, <1>2, <1>3

(* Storing bytes behind the data, in whatever memory it was moved or       *)
(* copied to, appends them to Content.                                     *)
LEMMA Appended ==
    ASSUME PositionsAgree, DataInv,
           NEW memory \in Seq(Stored_in), NEW r \in Nat,
           NEW bytes \in Seq(Bytes),
           r + data_size + Len(bytes) <= Len(memory),
           \A i \in 1 .. data_size : memory[r + i] = buf[rpos + i],
           buf' = Stored(memory, r + data_size, bytes),
           rpos' = r, data_size' = data_size + Len(bytes)
    PROVE  /\ buf' \in Seq(Stored_in) /\ Len(buf') = Len(memory)
           /\ DataInv' /\ Content' = Content \o bytes
<1>1. /\ data_size \in Nat /\ Len(bytes) \in Nat
      /\ \A i \in 1 .. Len(bytes) : bytes[i] \in Bytes
  BY Sizes, LenProperties, ElementOfSeq
<1>2. /\ buf' \in Seq(Stored_in) /\ Len(buf') = Len(memory)
      /\ \A i \in 1 .. r + data_size : buf'[i] = memory[i]
      /\ \A i \in 1 .. Len(bytes) : buf'[(r + data_size) + i] = bytes[i]
  <2>1. r + data_size \in Nat
    BY <1>1
  <2> QED
    BY <2>1, StoredIs
<1>3. /\ Content \in Seq(Bytes) /\ Len(Content) = data_size
      /\ \A i \in 1 .. data_size : Content[i] = buf[rpos + i]
  BY ContentIs
<1>4. /\ Content \o bytes \in Seq(Bytes)
      /\ Len(Content \o bytes) = Len(Content) + Len(bytes)
      /\ \A i \in 1 .. Len(Content) + Len(bytes) : (Content \o bytes)[i] =
            IF i <= Len(Content) THEN Content[i] ELSE bytes[i - Len(Content)]
  BY ONLY <1>3, bytes \in Seq(Bytes), ConcatProperties
<1>5. ASSUME NEW i \in 1 .. data_size + Len(bytes)
      PROVE  /\ buf'[r + i] = (Content \o bytes)[i]
             /\ buf'[r + i] \in Bytes
  <2>1. CASE i <= data_size
    <3>1. r + i \in 1 .. r + data_size /\ i \in 1 .. data_size
      BY <1>1, <2>1
    <3>2. buf'[r + i] = buf[rpos + i]
      BY <1>2, <3>1
    <3>3. (Content \o bytes)[i] = Content[i]
      BY <1>1, <1>3, <1>4, <2>1, <3>1
    <3>4. Content[i] = buf[rpos + i] /\ buf[rpos + i] \in Bytes
      BY <1>3, <3>1 DEF DataInv
    <3> QED
      BY ONLY <3>2, <3>3, <3>4
  <2>2. CASE i > data_size
    <3>1. i - data_size \in 1 .. Len(bytes)
          /\ (r + data_size) + (i - data_size) = r + i
      BY <1>1, <2>2
    <3>2. buf'[r + i] = bytes[i - data_size] /\ bytes[i - data_size] \in Bytes
      BY <1>1, <1>2, <3>1
    <3>3. (Content \o bytes)[i] = bytes[i - data_size]
      BY <1>1, <1>3, <1>4, <2>2
    <3> QED
      BY ONLY <3>2, <3>3, Zenon
  <2>3. i <= data_size \/ i > data_size
    BY <1>1
  <2> QED
    BY ONLY <2>1, <2>2, <2>3, Zenon
<1>6. DataInv'
  BY <1>5 DEF DataInv
<1>7. /\ Content' \in Seq(Bytes) /\ Len(Content') = data_size + Len(bytes)
      /\ \A i \in 1 .. data_size + Len(bytes) : Content'[i] = buf'[r + i]
  <2> DEFINE n == data_size + Len(bytes)
  <2>1. n \in Nat /\ \A i \in 1 .. n : buf'[r + i] \in Bytes
    BY <1>1, <1>5
  <2>2. PICK b, a, k : b = buf' /\ a = r /\ k = n
    OBVIOUS
  <2>3. /\ a \in Nat /\ k \in Nat
        /\ buf' = b /\ rpos' = a /\ data_size' = k
        /\ \A i \in 1 .. k : b[a + i] \in Bytes
    BY <2>1, <2>2
  <2>4. /\ DataInv' /\ Content' \in Seq(Bytes) /\ Len(Content') = k
        /\ \A i \in 1 .. k : Content'[i] = b[a + i]
    BY ONLY <2>3, ContentAfter
  <2> QED
    BY ONLY <2>2, <2>4 DEF n
<1>8. Content' = Content \o bytes
  <2>1. Len(Content') = Len(Content \o bytes)
    BY <1>3, <1>4, <1>7
  <2>2. \A i \in 1 .. Len(Content') : Content'[i] = (Content \o bytes)[i]
    BY <1>5, <1>7
  <2> QED
    BY <1>4, <1>7, <2>1, <2>2, SeqEqual, Zenon
<1> QED
  BY <1>2, <1>6, <1>8

(* Consuming the oldest n bytes leaves the others, whether or not the      *)
(* positions go back to the beginning.                                     *)
LEMMA Consumed ==
    ASSUME PositionsAgree, DataInv, NEW n \in 1 .. data_size, Consume(n),
           buf' = buf
    PROVE  /\ rpos' \in Nat /\ wpos' \in Nat /\ data_size' \in Nat
           /\ wpos' = rpos' + data_size' /\ wpos' <= buf_size
           /\ DataInv'
           /\ Content' = SubSeq(Content, n + 1, Len(Content))
<1> USE Sizes
<1>1. /\ data_size' = data_size - n
      /\ \/ data_size = n /\ rpos' = 0 /\ wpos' = 0
         \/ data_size # n /\ rpos' = rpos + n /\ wpos' = wpos
  BY DEF Consume
<1>2. /\ rpos' \in Nat /\ wpos' \in Nat /\ data_size' \in Nat
      /\ wpos' = rpos' + data_size' /\ wpos' <= buf_size
  <2>1. /\ buf_size \in Nat /\ data_size \in Nat /\ rpos \in Nat
        /\ wpos \in Nat /\ wpos = rpos + data_size /\ wpos <= buf_size
    OBVIOUS
  <2> QED
    BY ONLY <1>1, <2>1, n \in 1 .. data_size
<1>3. /\ Content \in Seq(Bytes) /\ Len(Content) = data_size
      /\ \A i \in 1 .. data_size : Content[i] = buf[rpos + i]
  BY ContentIs
<1>4. /\ SubSeq(Content, n + 1, Len(Content)) \in Seq(Bytes)
      /\ Len(SubSeq(Content, n + 1, Len(Content))) = Len(Content) - n
      /\ \A i \in 1 .. Len(Content) - n :
            SubSeq(Content, n + 1, Len(Content))[i] = Content[n + i]
  <2>1. Content \in Seq(Bytes) /\ n \in 0 .. Len(Content)
    BY <1>3
  <2> QED
    BY ONLY <2>1, TakeAndKeep
<1>5. ASSUME NEW i \in 1 .. data_size'
      PROVE  /\ buf'[rpos' + i] = SubSeq(Content, n + 1, Len(Content))[i]
             /\ buf'[rpos' + i] \in Bytes
  <2>1. /\ rpos' = rpos + n /\ n + i \in 1 .. data_size
        /\ rpos' + i = rpos + (n + i) /\ i \in 1 .. Len(Content) - n
    BY <1>1, <1>3
  <2> QED
    BY <1>3, <1>4, <2>1 DEF DataInv
<1>6. DataInv'
  BY <1>5 DEF DataInv
<1>7. /\ Content' \in Seq(Bytes) /\ Len(Content') = data_size'
      /\ \A i \in 1 .. data_size' : Content'[i] = buf'[rpos' + i]
  <2>1. /\ rpos' \in Nat /\ data_size' \in Nat
        /\ \A i \in 1 .. data_size' : buf'[rpos' + i] \in Bytes
    BY <1>2, <1>5
  <2>2. PICK b, a, k : b = buf' /\ a = rpos' /\ k = data_size'
    OBVIOUS
  <2>3. /\ a \in Nat /\ k \in Nat
        /\ buf' = b /\ rpos' = a /\ data_size' = k
        /\ \A i \in 1 .. k : b[a + i] \in Bytes
    BY <2>1, <2>2
  <2>4. /\ DataInv' /\ Content' \in Seq(Bytes) /\ Len(Content') = k
        /\ \A i \in 1 .. k : Content'[i] = b[a + i]
    BY ONLY <2>3, ContentAfter
  <2> QED
    BY ONLY <2>2, <2>4
<1>8. Content' = SubSeq(Content, n + 1, Len(Content))
  <2>1. Len(Content') = Len(SubSeq(Content, n + 1, Len(Content)))
    BY <1>1, <1>3, <1>4, <1>7
  <2>2. \A i \in 1 .. Len(Content') :
            Content'[i] = SubSeq(Content, n + 1, Len(Content))[i]
    BY <1>5, <1>7
  <2> QED
    BY <1>4, <1>7, <2>1, <2>2, SeqEqual, Zenon
<1> QED
  BY <1>2, <1>6, <1>8

(* Moving the data, and growing the memory behind it, leaves Content.      *)
LEMMA Carried ==
    ASSUME PositionsAgree, DataInv, NEW r \in Nat,
           rpos' = r, data_size' = data_size, buf' \in Seq(Stored_in),
           \A i \in 1 .. data_size : buf'[r + i] = buf[rpos + i]
    PROVE  DataInv' /\ Content' = Content
<1>1. /\ Content \in Seq(Bytes) /\ Len(Content) = data_size
      /\ \A i \in 1 .. data_size : Content[i] = buf[rpos + i]
  BY ContentIs
<1>2. DataInv'
  BY DEF DataInv
<1>3. /\ Content' \in Seq(Bytes) /\ Len(Content') = data_size
      /\ \A i \in 1 .. data_size : Content'[i] = buf'[r + i]
  <2>1. /\ data_size \in Nat /\ r \in Nat
        /\ \A i \in 1 .. data_size : buf'[r + i] \in Bytes
    BY Sizes DEF DataInv
  <2>2. PICK b, a, k : b = buf' /\ a = r /\ k = data_size
    OBVIOUS
  <2>3. /\ a \in Nat /\ k \in Nat
        /\ buf' = b /\ rpos' = a /\ data_size' = k
        /\ \A i \in 1 .. k : b[a + i] \in Bytes
    BY <2>1, <2>2
  <2>4. /\ DataInv' /\ Content' \in Seq(Bytes) /\ Len(Content') = k
        /\ \A i \in 1 .. k : Content'[i] = b[a + i]
    BY ONLY <2>3, ContentAfter
  <2> QED
    BY ONLY <2>2, <2>4
<1>4. \A i \in 1 .. Len(Content') : Content'[i] = Content[i]
  BY <1>1, <1>3
<1> QED
  BY <1>1, <1>2, <1>3, <1>4, SeqEqual, Zenon

-----------------------------------------------------------------------------
(* write *)

(* The memory that write stores its bytes in, and recv receives in: moved  *)
(* when that is enough, and grown when it is not.                          *)
RoomFor(n) ==
    LET memory == IF MovesFor(n) THEN Moved ELSE buf
    IN  IF TooSmallFor(n) THEN Grown(memory, n) ELSE memory

(* A buffer that may still grow is at most buf_max_size large, and grows   *)
(* to Largest at most.                                                     *)
LEMMA GrowthIsBounded ==
    ASSUME PositionsAgree
    PROVE  /\ Largest \in Nat /\ MaxLen <= Largest
           /\ MayGrow => \A n \in Nat : n <= MaxLen \/ n = MinNum =>
                buf_size + (buf_size \div 2 + n) <= Largest
<1> DEFINE b == buf_max_size
           l == Larger(MaxLen, MinNum)
<1>1. b \in Nat
  BY SkBufferAssumption DEF buf_max_size
<1>2. /\ l \in Nat /\ MaxLen \in Nat /\ MinNum \in Nat
      /\ MaxLen <= l /\ MinNum <= l
  BY SkBufferAssumption DEF Larger
<1>3. Largest = b + b \div 2 + l
  BY DEF Largest
<1> HIDE DEF b, l
<1>4. Largest \in Nat /\ MaxLen <= Largest
  BY <1>1, <1>2, <1>3
<1>5. buf_size \in Nat
  BY Sizes
<1>6. ASSUME buf_size <= b, NEW n \in Nat, n <= l
      PROVE  buf_size + (buf_size \div 2 + n) <= Largest
  <2> HIDE DEF buf_size
  <2>1. buf_size \div 2 <= b \div 2 /\ buf_size \div 2 \in Nat /\ b \div 2 \in Nat
    BY <1>1, <1>5, <1>6
  <2> QED
    BY <1>1, <1>2, <1>3, <1>5, <1>6, <2>1
<1>7. ASSUME MayGrow, NEW n \in Nat, n <= MaxLen \/ n = MinNum
      PROVE  buf_size + (buf_size \div 2 + n) <= Largest
  <2>1. buf_size <= b /\ n <= l
    BY <1>2, <1>7 DEF MayGrow, b
  <2> QED
    BY <1>6, <2>1
<1> QED
  BY <1>4, <1>7

(* What write has before it stores: the same data, with room behind it.    *)
LEMMA RoomIs ==
    ASSUME PositionsAgree, GrowthBounded, NEW n \in 1 .. MaxLen,
           TooSmallFor(n) => MayGrow
    PROVE  /\ RoomFor(n) \in Seq(Stored_in)
           /\ Begin(n) \in Nat /\ End(n) = Begin(n) + data_size
           /\ End(n) + n <= Len(RoomFor(n)) /\ Len(RoomFor(n)) <= Largest
           /\ \A i \in 1 .. data_size : RoomFor(n)[Begin(n) + i] = buf[rpos + i]
<1> DEFINE memory == IF MovesFor(n) THEN Moved ELSE buf
<1>1. /\ memory \in Seq(Stored_in) /\ Len(memory) = buf_size
      /\ \A i \in 1 .. data_size : memory[Begin(n) + i] = buf[rpos + i]
  <2>1. CASE MovesFor(n)
    <3>1. memory = Moved /\ Begin(n) = 0 /\ \A i \in 1 .. data_size : 0 + i = i
      BY <2>1, Sizes DEF Begin
    <3> HIDE DEF memory
    <3> QED
      BY <3>1, MovedIs
  <2>2. CASE ~MovesFor(n)
    BY <2>2, Sizes DEF Begin
  <2> QED
    BY <2>1, <2>2
<1>2. /\ n \in Nat /\ n <= MaxLen
      /\ buf_size \in Nat /\ data_size \in Nat /\ rpos \in Nat /\ wpos \in Nat
      /\ wpos = rpos + data_size /\ wpos <= buf_size
  BY Sizes, SkBufferAssumption
<1>3. /\ Begin(n) \in Nat /\ End(n) = Begin(n) + data_size
      /\ End(n) \in Nat /\ End(n) <= buf_size
  BY <1>2 DEF Begin, End
<1>4. RoomFor(n) = IF TooSmallFor(n) THEN Grown(memory, n) ELSE memory
  BY DEF RoomFor
<1> HIDE DEF memory
<1>5. CASE TooSmallFor(n)
  <2>1. /\ Grown(memory, n) \in Seq(Stored_in)
        /\ Len(Grown(memory, n)) = buf_size + (buf_size \div 2 + n)
        /\ \A i \in 1 .. buf_size : Grown(memory, n)[i] = memory[i]
    BY <1>1, <1>2, GrownIs
  <2>2. buf_size + (buf_size \div 2 + n) <= Largest
    BY <1>2, <1>5, GrowthIsBounded
  <2>3. \A i \in 1 .. data_size : Begin(n) + i \in 1 .. buf_size
    BY <1>2, <1>3
  <2>4. End(n) + n <= buf_size + (buf_size \div 2 + n)
    <3> HIDE DEF buf_size
    <3>1. buf_size \div 2 \in Nat
      BY <1>2
    <3> QED
      BY <1>2, <1>3, <3>1
  <2> QED
    BY <1>1, <1>3, <1>4, <1>5, <2>1, <2>2, <2>3, <2>4
<1>6. CASE ~TooSmallFor(n)
  <2>1. End(n) + n <= buf_size /\ buf_size <= Largest
    BY <1>2, <1>3, <1>6 DEF TooSmallFor, GrowthBounded
  <2> QED
    BY <1>1, <1>3, <1>4, <1>6, <2>1
<1> QED
  BY <1>5, <1>6

(* What the queue sees of a step.                                          *)
QueueStep == Queue!Next \/ UNCHANGED <<Content, reply>>

(* write appends its bytes, wherever the data lay before.                  *)
LEMMA WriteStep ==
    ASSUME SkBufferInv, NEW t \in Threads, NEW n \in 1 .. MaxLen,
           NEW bytes \in [1 .. n -> Bytes], Write(t, bytes)
    PROVE  SkBufferInv' /\ QueueStep
<1> USE DEF SkBufferInv
<1>1. /\ bytes \in Seq(Bytes) /\ Len(bytes) = n
      /\ n \in Nat /\ MaxLen \in Nat /\ n <= MaxLen
  BY FunctionIsSeq, SkBufferAssumption
<1>2. /\ TooSmallFor(n) => MayGrow
      /\ buf' = Stored(RoomFor(n), End(n), bytes)
      /\ rpos' = Begin(n) /\ wpos' = End(n) + n /\ data_size' = data_size + n
      /\ reply' = <<>> /\ mutex = NoThread
      /\ UNCHANGED <<mutex, pc, sockVars>>
  BY <1>1 DEF Write, RoomFor
<1>3. /\ RoomFor(n) \in Seq(Stored_in)
      /\ Begin(n) \in Nat /\ End(n) = Begin(n) + data_size
      /\ End(n) + n <= Len(RoomFor(n)) /\ Len(RoomFor(n)) <= Largest
      /\ \A i \in 1 .. data_size : RoomFor(n)[Begin(n) + i] = buf[rpos + i]
  BY <1>2, RoomIs
<1>4. LockedInSocket' /\ RoomToReceive' /\ SendInv'
  BY <1>2, ShortCall
<1>5. /\ buf' \in Seq(Stored_in) /\ Len(buf') = Len(RoomFor(n))
      /\ DataInv' /\ Content' = Content \o bytes
  <2>1. /\ PositionsAgree /\ DataInv
        /\ Begin(n) + data_size + Len(bytes) <= Len(RoomFor(n))
        /\ buf' = Stored(RoomFor(n), Begin(n) + data_size, bytes)
        /\ rpos' = Begin(n) /\ data_size' = data_size + Len(bytes)
    BY <1>1, <1>2, <1>3
  <2> QED
    BY ONLY <1>1, <1>3, <2>1, Appended
<1>6. data_size \in Nat /\ Len(RoomFor(n)) \in Nat
  BY <1>3, Sizes, LenProperties
<1>7. /\ rpos' \in Nat /\ wpos' \in Nat /\ data_size' \in Nat
      /\ wpos' = rpos' + data_size' /\ wpos' <= Len(buf') /\ Len(buf') <= Largest
  BY <1>1, <1>2, <1>3, <1>5, <1>6
<1>8. TypeOK'
  BY <1>2, <1>5, <1>7 DEF TypeOK, sockVars, Stored_in
<1>9. PositionsAgree' /\ GrowthBounded'
  BY <1>7, <1>8 DEF PositionsAgree, GrowthBounded, buf_size, Largest
<1>10. Queue!Put(bytes) /\ n \in 1 .. Largest
  <2>1. Len(Content) = data_size
    BY ContentIs
  <2>2. data_size + n <= Largest /\ n \in 1 .. Largest
    BY SMTT(30), <1>1, <1>2, <1>3, <1>6, <1>7, GrowthIsBounded
  <2> QED
    BY <1>1, <1>2, <1>5, <2>1, <2>2 DEF Queue!Put
<1>11. QueueStep
  BY <1>10 DEF QueueStep, Queue!Next
<1> QED
  BY <1>4, <1>5, <1>8, <1>9, <1>11

(* A refused write may have moved the data, and changes nothing else.      *)
LEMMA WriteRefusedStep ==
    ASSUME SkBufferInv, NEW t \in Threads, NEW n \in 1 .. MaxLen,
           WriteRefused(t, n)
    PROVE  SkBufferInv' /\ QueueStep
<1> USE DEF SkBufferInv
<1>1. /\ buf' = IF MovesFor(n) THEN Moved ELSE buf
      /\ rpos' = Begin(n) /\ wpos' = End(n) /\ data_size' = data_size
      /\ reply' = reply /\ mutex = NoThread
      /\ UNCHANGED <<mutex, pc, sockVars>>
  BY DEF WriteRefused
<1>2. LockedInSocket' /\ RoomToReceive' /\ SendInv'
  BY <1>1, ShortCall
<1>3. /\ buf_size \in Nat /\ data_size \in Nat /\ rpos \in Nat /\ wpos \in Nat
      /\ wpos = rpos + data_size /\ wpos <= buf_size
  BY Sizes
<1>4. /\ Begin(n) \in Nat /\ End(n) \in Nat
      /\ End(n) = Begin(n) + data_size /\ End(n) <= buf_size
  BY <1>3 DEF Begin, End
<1>5. /\ buf' \in Seq(Stored_in) /\ Len(buf') = buf_size
      /\ \A i \in 1 .. data_size : buf'[Begin(n) + i] = buf[rpos + i]
  <2>1. CASE MovesFor(n)
    <3>1. buf' = Moved /\ Begin(n) = 0 /\ \A i \in 1 .. data_size : 0 + i = i
      BY <1>1, <2>1, Sizes DEF Begin
    <3> QED
      BY <3>1, MovedIs
  <2>2. CASE ~MovesFor(n)
    BY <1>1, <2>2, Sizes DEF Begin
  <2> QED
    BY <2>1, <2>2
<1>6. DataInv' /\ Content' = Content
  BY <1>1, <1>4, <1>5, Carried
<1>7. TypeOK'
  BY <1>1, <1>3, <1>4, <1>5 DEF TypeOK, sockVars, Stored_in
<1>8. PositionsAgree' /\ GrowthBounded'
  BY <1>1, <1>4, <1>5, <1>7 DEF PositionsAgree, GrowthBounded, buf_size, Largest
<1> QED
  BY <1>1, <1>2, <1>6, <1>7, <1>8 DEF QueueStep

-----------------------------------------------------------------------------
(* read, get, skip, clear, and the end of send *)

(* A call takes or looks at some of the bytes, never at none or at more    *)
(* than there are.                                                         *)
LEMMA SmallerIs ==
    ASSUME PositionsAgree, data_size > 0, NEW n \in 1 .. MaxLen
    PROVE  Smaller(n, data_size) \in 1 .. data_size
BY Sizes, SkBufferAssumption DEF Smaller

(* The oldest bytes, as the queue gives them out.                          *)
LEMMA OldestIs ==
    ASSUME PositionsAgree, DataInv, NEW n \in 1 .. data_size
    PROVE  /\ SubSeq(Content, 1, n) \in Seq(Bytes)
           /\ n \in 1 .. Len(Content)
<1>1. Content \in Seq(Bytes) /\ Len(Content) = data_size /\ data_size \in Nat
  BY ContentIs, Sizes
<1>2. n \in 0 .. Len(Content) /\ n \in 1 .. Len(Content)
  BY <1>1
<1> QED
  BY ONLY <1>1, <1>2, TakeAndKeep

(* What consuming bytes leaves of the invariant.                           *)
LEMMA ConsumedInv ==
    ASSUME SkBufferInv, NEW n \in 1 .. data_size, Consume(n), buf' = buf
    PROVE  /\ rpos' \in Nat /\ wpos' \in Nat /\ data_size' \in Nat
           /\ wpos' = rpos' + data_size' /\ wpos' <= Len(buf')
           /\ DataInv' /\ GrowthBounded'
           /\ Content' = SubSeq(Content, n + 1, Len(Content))
<1>1. PositionsAgree /\ DataInv /\ GrowthBounded
  BY DEF SkBufferInv
<1>2. GrowthBounded'
  BY <1>1 DEF GrowthBounded, buf_size, Largest
<1> QED
  BY <1>1, <1>2, Consumed DEF buf_size

(* read takes the oldest bytes.                                            *)
LEMMA ReadStep ==
    ASSUME SkBufferInv, NEW t \in Threads, NEW n \in 1 .. MaxLen, Read(t, n)
    PROVE  SkBufferInv' /\ QueueStep
<1> USE DEF SkBufferInv
<1> DEFINE k == Smaller(n, data_size)
<1>1. /\ data_size > 0 /\ reply' = SubSeq(Content, 1, k) /\ Consume(k)
      /\ buf' = buf /\ mutex = NoThread /\ UNCHANGED <<mutex, pc, sockVars>>
  BY DEF Read
<1>2. k \in 1 .. data_size
  BY <1>1, SmallerIs
<1> HIDE DEF k
<1>3. LockedInSocket' /\ RoomToReceive' /\ SendInv'
  BY <1>1, ShortCall
<1>4. SubSeq(Content, 1, k) \in Seq(Bytes) /\ k \in 1 .. Len(Content)
  BY <1>2, OldestIs
<1>5. /\ rpos' \in Nat /\ wpos' \in Nat /\ data_size' \in Nat
      /\ wpos' = rpos' + data_size' /\ wpos' <= Len(buf')
      /\ DataInv' /\ GrowthBounded'
      /\ Content' = SubSeq(Content, k + 1, Len(Content))
  BY <1>1, <1>2, ConsumedInv
<1>6. TypeOK'
  BY <1>1, <1>4, <1>5 DEF TypeOK, sockVars
<1>7. PositionsAgree'
  BY <1>5, <1>6 DEF PositionsAgree, buf_size
<1>8. Queue!Take(k)
  BY <1>1, <1>5 DEF Queue!Take, Queue!Newer, Queue!Oldest
<1> QED
  BY <1>3, <1>4, <1>5, <1>6, <1>7, <1>8 DEF QueueStep, Queue!Next

(* skip drops the oldest bytes.                                            *)
LEMMA SkipStep ==
    ASSUME SkBufferInv, NEW t \in Threads, NEW n \in 1 .. MaxLen, Skip(t, n)
    PROVE  SkBufferInv' /\ QueueStep
<1> USE DEF SkBufferInv
<1> DEFINE k == Smaller(n, data_size)
<1>1. /\ data_size > 0 /\ reply' = <<>> /\ Consume(k)
      /\ buf' = buf /\ mutex = NoThread /\ UNCHANGED <<mutex, pc, sockVars>>
  BY DEF Skip
<1>2. k \in 1 .. data_size
  BY <1>1, SmallerIs
<1> HIDE DEF k
<1>3. LockedInSocket' /\ RoomToReceive' /\ SendInv'
  BY <1>1, ShortCall
<1>4. k \in 1 .. Len(Content)
  BY <1>2, OldestIs
<1>5. /\ rpos' \in Nat /\ wpos' \in Nat /\ data_size' \in Nat
      /\ wpos' = rpos' + data_size' /\ wpos' <= Len(buf')
      /\ DataInv' /\ GrowthBounded'
      /\ Content' = SubSeq(Content, k + 1, Len(Content))
  BY <1>1, <1>2, ConsumedInv
<1>6. TypeOK'
  BY <1>1, <1>5, EmptySeq DEF TypeOK, sockVars
<1>7. PositionsAgree'
  BY <1>5, <1>6 DEF PositionsAgree, buf_size
<1>8. Queue!Drop(k)
  BY <1>1, <1>5 DEF Queue!Drop, Queue!Newer
<1> QED
  BY <1>3, <1>4, <1>5, <1>6, <1>7, <1>8 DEF QueueStep, Queue!Next

(* get looks at the oldest bytes, and leaves them.                         *)
LEMMA GetStep ==
    ASSUME SkBufferInv, NEW t \in Threads, NEW n \in 1 .. MaxLen, Get(t, n)
    PROVE  SkBufferInv' /\ QueueStep
<1> USE DEF SkBufferInv
<1> DEFINE k == Smaller(n, data_size)
<1>1. /\ data_size > 0 /\ reply' = SubSeq(Content, 1, k)
      /\ mutex = NoThread /\ UNCHANGED <<buf, posVars>>
      /\ UNCHANGED <<mutex, pc, sockVars>>
  BY DEF Get
<1>2. k \in 1 .. data_size
  BY <1>1, SmallerIs
<1> HIDE DEF k
<1>3. LockedInSocket' /\ RoomToReceive' /\ SendInv'
  BY <1>1, ShortCall
<1>4. SubSeq(Content, 1, k) \in Seq(Bytes) /\ k \in 1 .. Len(Content)
  BY <1>2, OldestIs
<1>5. Content' = Content
  BY <1>1 DEF Content, posVars
<1>6. TypeOK' /\ PositionsAgree' /\ GrowthBounded' /\ DataInv'
  BY <1>1, <1>4
  DEF TypeOK, PositionsAgree, GrowthBounded, DataInv, buf_size, Largest,
      posVars, sockVars
<1>7. Queue!Peek(k)
  BY <1>1, <1>5 DEF Queue!Peek, Queue!Oldest
<1> QED
  BY <1>3, <1>4, <1>6, <1>7 DEF QueueStep, Queue!Next

(* clear empties the buffer, and both positions go back to the beginning.  *)
LEMMA ClearStep ==
    ASSUME SkBufferInv, NEW t \in Threads, Clear(t)
    PROVE  SkBufferInv' /\ QueueStep
<1> USE DEF SkBufferInv
<1>1. /\ rpos' = 0 /\ wpos' = 0 /\ data_size' = 0 /\ reply' = <<>>
      /\ buf' = buf /\ mutex = NoThread /\ UNCHANGED <<mutex, pc, sockVars>>
  BY DEF Clear
<1>2. LockedInSocket' /\ RoomToReceive' /\ SendInv'
  BY <1>1, ShortCall
<1>3. TypeOK'
  BY <1>1 DEF TypeOK, sockVars
<1>4. PositionsAgree' /\ GrowthBounded' /\ DataInv'
  BY <1>1, <1>3, Sizes
  DEF PositionsAgree, GrowthBounded, DataInv, buf_size, Largest
<1>5. Content' = <<>>
  <2>1. Content' \in Seq(Bytes) /\ Len(Content') = 0
    BY <1>1, ContentAfter
  <2> QED
    BY <2>1, EmptySeq
<1> QED
  BY <1>1, <1>2, <1>3, <1>4, <1>5 DEF QueueStep, Queue!Next, Queue!Clear

-----------------------------------------------------------------------------
(* recv and udp_recv *)

(* The thread that is inside the socket has the mutex, and is alone.       *)
LEMMA Alone ==
    ASSUME SkBufferInv, NEW t \in Threads, pc[t] # "idle"
    PROVE  mutex = t /\ \A u \in Threads \ {t} : pc[u] = "idle"
BY WhoIsInside DEF SkBufferInv

(* A call that is over leaves nobody inside and the mutex free.            *)
LEMMA Leaves ==
    ASSUME SkBufferInv, NEW t \in Threads, pc[t] # "idle", Over(t)
    PROVE  /\ pc' \in [Threads -> {"idle", "room", "receiving", "sending"}]
           /\ \A u \in Threads : pc'[u] = "idle"
           /\ mutex' = NoThread
           /\ LockedInSocket' /\ RoomToReceive'
           /\ sent' = <<>> /\ nleft' = 0 => SendInv'
<1>1. pc \in [Threads -> {"idle", "room", "receiving", "sending"}]
  BY DEF SkBufferInv, TypeOK
<1>2. \A u \in Threads \ {t} : pc[u] = "idle"
  BY Alone
<1>3. mutex' = NoThread /\ pc' = [pc EXCEPT ![t] = "idle"]
  BY DEF Over
<1>4. /\ pc' \in [Threads -> {"idle", "room", "receiving", "sending"}]
      /\ \A u \in Threads : pc'[u] = "idle"
  BY <1>1, <1>2, <1>3
<1>5. LockedInSocket' /\ RoomToReceive'
  BY <1>3, <1>4, SkBufferAssumption DEF LockedInSocket, RoomToReceive
<1> QED
  BY <1>3, <1>4, <1>5 DEF SendInv

(* A thread that goes on inside the socket keeps the mutex.                *)
LEMMA GoesOn ==
    ASSUME SkBufferInv, NEW t \in Threads, pc[t] # "idle",
           NEW where \in {"room", "receiving", "sending"},
           pc' = [pc EXCEPT ![t] = where], mutex' = mutex
    PROVE  /\ pc' \in [Threads -> {"idle", "room", "receiving", "sending"}]
           /\ pc'[t] = where /\ \A u \in Threads \ {t} : pc'[u] = "idle"
           /\ LockedInSocket'
<1>1. pc \in [Threads -> {"idle", "room", "receiving", "sending"}]
  BY DEF SkBufferInv, TypeOK
<1>2. mutex = t /\ \A u \in Threads \ {t} : pc[u] = "idle"
  BY Alone
<1>3. /\ pc' \in [Threads -> {"idle", "room", "receiving", "sending"}]
      /\ pc'[t] = where /\ \A u \in Threads \ {t} : pc'[u] = "idle"
  BY <1>1, <1>2
<1> QED
  BY <1>2, <1>3 DEF LockedInSocket

(* Nothing is being sent while no thread is inside send.                   *)
LEMMA NotSending ==
    ASSUME SkBufferInv, NEW t \in Threads, pc[t] # "sending",
           mutex = NoThread \/ pc[t] # "idle"
    PROVE  sent = <<>> /\ nleft = 0
<1>1. \A u \in Threads : pc[u] # "sending"
  BY WhoIsInside DEF SkBufferInv
<1> QED
  BY <1>1 DEF SkBufferInv, SendInv

(* A step that leaves the memory and the positions alone.                  *)
LEMMA DataKept ==
    ASSUME SkBufferInv, UNCHANGED <<buf, posVars>>
    PROVE  /\ GrowthBounded' /\ DataInv' /\ Content' = Content
           /\ TypeOK' => PositionsAgree'
BY DEF SkBufferInv, PositionsAgree, GrowthBounded, DataInv, Content, posVars,
       buf_size, Largest

(* recv and udp_recv take the mutex.                                       *)
LEMMA RecvCallStep ==
    ASSUME SkBufferInv, NEW t \in Threads, NEW isUdp \in BOOLEAN,
           RecvCall(t, isUdp)
    PROVE  SkBufferInv' /\ QueueStep
<1> USE DEF SkBufferInv
<1>1. /\ pc[t] = "idle" /\ mutex = NoThread /\ mutex' = t /\ udp' = isUdp
      /\ pc' = [pc EXCEPT ![t] = "room"]
      /\ UNCHANGED <<buf, posVars>> /\ UNCHANGED <<nleft, sent, reply>>
  BY DEF RecvCall
<1>2. \A u \in Threads : pc[u] = "idle"
  BY <1>1, WhoIsInside
<1>3. GrowthBounded' /\ DataInv' /\ Content' = Content
      /\ (TypeOK' => PositionsAgree')
  BY <1>1, DataKept
<1>4. TypeOK'
  BY <1>1 DEF TypeOK, posVars
<1>5. /\ pc'[t] = "room" /\ \A u \in Threads \ {t} : pc'[u] = "idle"
  BY <1>1, <1>2 DEF TypeOK
<1>6. LockedInSocket' /\ RoomToReceive'
  BY <1>1, <1>5, SkBufferAssumption DEF LockedInSocket, RoomToReceive
<1>7. sent = <<>> /\ nleft = 0
  BY <1>1, NotSending
<1>8. SendInv'
  BY <1>1, <1>5, <1>7 DEF SendInv
<1> QED
  BY <1>1, <1>3, <1>4, <1>6, <1>8 DEF QueueStep

(* A receive begins with room behind the data: it was there, or the data   *)
(* was moved, or the memory has grown by at least MinNum bytes.            *)
LEMMA MakeRoomStep ==
    ASSUME SkBufferInv, NEW t \in Threads, MakeRoom(t)
    PROVE  SkBufferInv' /\ QueueStep
<1> USE DEF SkBufferInv
<1>1. /\ pc[t] = "room" /\ pc' = [pc EXCEPT ![t] = "receiving"]
      /\ data_size' = data_size /\ mutex' = mutex /\ reply' = reply
      /\ UNCHANGED sockVars
  BY DEF MakeRoom
<1>2. /\ buf_size \in Nat /\ data_size \in Nat /\ rpos \in Nat /\ wpos \in Nat
      /\ wpos = rpos + data_size /\ wpos <= buf_size
  BY Sizes
<1>3. /\ buf' \in Seq(Stored_in) /\ rpos' \in Nat
      /\ wpos' = rpos' + data_size /\ wpos' < Len(buf') /\ Len(buf') <= Largest
      /\ \A i \in 1 .. data_size : buf'[rpos' + i] = buf[rpos + i]
  <2>1. CASE ~Full /\ UNCHANGED <<buf, rpos, wpos>>
    BY <1>2, <2>1, Sizes DEF Full, GrowthBounded
  <2>2. CASE Full /\ rpos > 0 /\ buf' = Moved /\ rpos' = 0 /\ wpos' = wpos - rpos
    <3>1. /\ Moved \in Seq(Stored_in) /\ Len(Moved) = buf_size
          /\ \A i \in 1 .. data_size : Moved[i] = buf[rpos + i]
      BY MovedIs
    <3>2. \A i \in 1 .. data_size : 0 + i = i
      BY <1>2
    <3> QED
      BY <1>2, <2>2, <3>1, <3>2 DEF GrowthBounded
  <2>3. CASE /\ Full /\ rpos = 0 /\ MayGrow
             /\ buf' = Grown(buf, MinNum) /\ UNCHANGED <<rpos, wpos>>
    <3>1. MinNum \in Nat /\ MinNum > 0
      BY SkBufferAssumption
    <3>2. /\ Grown(buf, MinNum) \in Seq(Stored_in)
          /\ Len(Grown(buf, MinNum)) = buf_size + (buf_size \div 2 + MinNum)
          /\ \A i \in 1 .. buf_size : Grown(buf, MinNum)[i] = buf[i]
      BY ZenonT(40), <3>1, Sizes, GrownIs
    <3>3. buf_size + (buf_size \div 2 + MinNum) <= Largest
      BY <2>3, <3>1, GrowthIsBounded
    <3>4. wpos < buf_size + (buf_size \div 2 + MinNum)
      <4> HIDE DEF buf_size
      <4>1. buf_size \div 2 \in Nat
        BY <1>2
      <4> QED
        BY <1>2, <3>1, <4>1
    <3>5. \A i \in 1 .. data_size : rpos + i \in 1 .. buf_size
      BY <1>2
    <3> QED
      BY <1>2, <2>3, <3>2, <3>3, <3>4, <3>5
  <2> QED
    BY <2>1, <2>2, <2>3 DEF MakeRoom
<1>4. DataInv' /\ Content' = Content
  <2>1. PICK r \in Nat : r = rpos'
    BY <1>3
  <2> QED
    BY <1>1, <1>3, <2>1, Carried
<1>5. /\ pc' \in [Threads -> {"idle", "room", "receiving", "sending"}]
      /\ pc'[t] = "receiving" /\ \A u \in Threads \ {t} : pc'[u] = "idle"
      /\ LockedInSocket'
  BY <1>1, GoesOn
<1>6. wpos' \in Nat /\ Len(buf') \in Nat
  <2>1. Len(buf') \in Nat
    BY <1>3, LenProperties
  <2>2. PICK r, d \in Nat : wpos' = r + d
    BY <1>2, <1>3
  <2>3. r + d \in Nat
    OBVIOUS
  <2> QED
    BY ONLY <2>1, <2>2, <2>3
<1>7. RoomToReceive'
  BY <1>3, <1>5, <1>6 DEF RoomToReceive, buf_size
<1>8. sent = <<>> /\ nleft = 0
  BY <1>1, NotSending
<1>9. SendInv'
  BY <1>1, <1>5, <1>8 DEF SendInv, sockVars
<1>10. TypeOK'
  BY <1>1, <1>3, <1>5, <1>6 DEF TypeOK, sockVars, Stored_in
<1>11. PositionsAgree' /\ GrowthBounded'
  BY <1>1, <1>3, <1>6, <1>10 DEF PositionsAgree, GrowthBounded, buf_size, Largest
<1> QED
  BY <1>1, <1>4, <1>5, <1>7, <1>9, <1>10, <1>11 DEF QueueStep

(* recv that is refused, or that receives nothing, leaves the data and     *)
(* gives the mutex back.                                                   *)
LEMMA RecvOverStep ==
    ASSUME SkBufferInv, NEW t \in Threads, RecvRefused(t) \/ RecvEnds(t)
    PROVE  SkBufferInv' /\ QueueStep
<1> USE DEF SkBufferInv
<1>1. /\ pc[t] # "idle" /\ pc[t] # "sending" /\ Over(t) /\ udp' = FALSE
      /\ UNCHANGED <<buf, posVars>> /\ UNCHANGED <<nleft, sent, reply>>
  BY DEF RecvRefused, RecvEnds
<1>2. sent' = <<>> /\ nleft' = 0
  BY <1>1, NotSending
<1>3. /\ pc' \in [Threads -> {"idle", "room", "receiving", "sending"}]
      /\ mutex' = NoThread /\ LockedInSocket' /\ RoomToReceive' /\ SendInv'
  BY <1>1, <1>2, Leaves
<1>4. GrowthBounded' /\ DataInv' /\ Content' = Content
      /\ (TypeOK' => PositionsAgree')
  BY <1>1, DataKept
<1>5. TypeOK'
  BY <1>1, <1>3 DEF TypeOK, posVars
<1> QED
  BY <1>1, <1>3, <1>4, <1>5 DEF QueueStep

(* The bytes that the socket returns are appended.                         *)
LEMMA RecvBytesStep ==
    ASSUME SkBufferInv, NEW t \in Threads, NEW n \in 1 .. MaxLen,
           NEW bytes \in [1 .. n -> Bytes], RecvBytes(t, bytes)
    PROVE  SkBufferInv' /\ QueueStep
<1> USE DEF SkBufferInv
<1>1. /\ bytes \in Seq(Bytes) /\ Len(bytes) = n
      /\ n \in Nat /\ MaxLen \in Nat /\ n <= MaxLen
  BY FunctionIsSeq, SkBufferAssumption
<1>2. /\ pc[t] = "receiving" /\ n <= buf_size - wpos
      /\ buf' = Stored(buf, wpos, bytes)
      /\ wpos' = wpos + n /\ data_size' = data_size + n /\ rpos' = rpos
      /\ reply' = <<>> /\ UNCHANGED sockVars
      /\ IF udp THEN pc' = [pc EXCEPT ![t] = "room"] /\ UNCHANGED mutex
                ELSE Over(t)
  BY <1>1 DEF RecvBytes
<1>3. /\ buf_size \in Nat /\ data_size \in Nat /\ rpos \in Nat /\ wpos \in Nat
      /\ wpos = rpos + data_size /\ wpos <= buf_size
  BY Sizes
<1>4. /\ buf' \in Seq(Stored_in) /\ Len(buf') = buf_size
      /\ DataInv' /\ Content' = Content \o bytes
  <2>1. /\ PositionsAgree /\ DataInv
        /\ buf \in Seq(Stored_in) /\ rpos \in Nat
        /\ \A i \in 1 .. data_size : buf[rpos + i] = buf[rpos + i]
        /\ buf' = Stored(buf, rpos + data_size, bytes)
        /\ rpos' = rpos /\ data_size' = data_size + Len(bytes)
    BY <1>1, <1>2, <1>3, Sizes
  <2>2. rpos + data_size + Len(bytes) <= Len(buf)
    BY <1>1, <1>2, <1>3 DEF buf_size
  <2>3. PICK m, r : m = buf /\ r = rpos
    OBVIOUS
  <2>4. /\ m \in Seq(Stored_in) /\ r \in Nat
        /\ \A i \in 1 .. data_size : m[r + i] = buf[rpos + i]
        /\ buf' = Stored(m, r + data_size, bytes)
        /\ rpos' = r /\ r + data_size + Len(bytes) <= Len(m)
    BY ONLY <2>1, <2>2, <2>3
  <2>5. /\ buf' \in Seq(Stored_in) /\ Len(buf') = Len(m)
        /\ DataInv' /\ Content' = Content \o bytes
    BY ONLY <1>1, <2>1, <2>4, Appended
  <2> QED
    BY <2>3, <2>5 DEF buf_size
<1>5. sent = <<>> /\ nleft = 0
  BY <1>2, NotSending
<1>6. /\ pc' \in [Threads -> {"idle", "room", "receiving", "sending"}]
      /\ mutex' \in Threads \cup {NoThread}
      /\ LockedInSocket' /\ RoomToReceive' /\ SendInv'
  <2>1. CASE udp
    <3>1. /\ pc' \in [Threads -> {"idle", "room", "receiving", "sending"}]
          /\ pc'[t] = "room" /\ \A u \in Threads \ {t} : pc'[u] = "idle"
          /\ LockedInSocket'
      BY <1>2, <2>1, GoesOn
    <3> QED
      BY <1>2, <1>5, <2>1, <3>1 DEF TypeOK, RoomToReceive, SendInv, sockVars
  <2>2. CASE ~udp
    BY <1>2, <1>5, <2>2, Leaves DEF sockVars
  <2> QED
    BY <2>1, <2>2
<1>7. /\ rpos' \in Nat /\ wpos' \in Nat /\ data_size' \in Nat
      /\ wpos' = rpos' + data_size' /\ wpos' <= Len(buf')
      /\ Len(buf') <= Largest
  <2> HIDE DEF buf_size
  <2>1. buf_size <= Largest
    BY DEF GrowthBounded
  <2> QED
    BY <1>1, <1>2, <1>3, <1>4, <2>1
<1>8. TypeOK'
  BY <1>2, <1>4, <1>6, <1>7, EmptySeq DEF TypeOK, sockVars, Stored_in
<1>9. PositionsAgree' /\ GrowthBounded'
  BY <1>7, <1>8 DEF PositionsAgree, GrowthBounded, buf_size, Largest
<1>10. Queue!Put(bytes) /\ n \in 1 .. Largest
  <2>1. Len(Content) = data_size
    BY ContentIs
  <2>2. /\ Largest \in Nat /\ MaxLen <= Largest
        /\ data_size' <= Largest
    <3>1. Len(buf') \in Nat
      BY <1>4, LenProperties
    <3> QED
      BY <1>7, <3>1, GrowthIsBounded
  <2>3. data_size + n <= Largest /\ n \in 1 .. Largest
    BY <1>1, <1>2, <1>3, <2>2
  <2> QED
    BY <1>1, <1>2, <1>4, <2>1, <2>3 DEF Queue!Put
<1> QED
  BY <1>4, <1>6, <1>8, <1>9, <1>10 DEF QueueStep, Queue!Next

-----------------------------------------------------------------------------
(* send *)

(* send takes the mutex and fixes what sendn is to send, never nothing.    *)
LEMMA SendCallStep ==
    ASSUME SkBufferInv, NEW t \in Threads, SendCall(t)
    PROVE  SkBufferInv' /\ QueueStep
<1> USE DEF SkBufferInv
<1>1. /\ pc[t] = "idle" /\ mutex = NoThread /\ mutex' = t
      /\ data_size > 0 /\ nleft' = ToSend
      /\ pc' = [pc EXCEPT ![t] = "sending"]
      /\ UNCHANGED <<buf, posVars>> /\ UNCHANGED <<udp, sent, reply>>
  BY DEF SendCall
<1>2. \A u \in Threads : pc[u] = "idle"
  BY <1>1, WhoIsInside
<1>3. GrowthBounded' /\ DataInv' /\ Content' = Content
      /\ (TypeOK' => PositionsAgree')
  BY <1>1, DataKept
<1>4. ToSend \in 0 .. SndBuf
  BY Sizes, SkBufferAssumption DEF ToSend, Smaller
<1>5. TypeOK'
  BY <1>1, <1>4 DEF TypeOK, posVars
<1>6. /\ pc'[t] = "sending" /\ \A u \in Threads \ {t} : pc'[u] = "idle"
  BY <1>1, <1>2 DEF TypeOK
<1>7. LockedInSocket' /\ RoomToReceive'
  BY <1>1, <1>6, SkBufferAssumption DEF LockedInSocket, RoomToReceive
<1>8. sent' = <<>> /\ Len(sent') = 0
  BY <1>1, NotSending, EmptySeq
<1>9. SendInv'
  <2>1. data_size' = data_size /\ ToSend' = ToSend
    BY <1>1 DEF posVars, ToSend
  <2>2. data_size' > 0 /\ Len(sent') + nleft' = ToSend'
    BY <1>1, <1>4, <1>8, <2>1
  <2> QED
    BY <1>6, <1>8, <2>2 DEF SendInv
<1> QED
  BY <1>1, <1>3, <1>5, <1>7, <1>9 DEF QueueStep

(* What is known while a thread is inside send.                            *)
LEMMA Sending ==
    ASSUME SkBufferInv, NEW t \in Threads, pc[t] = "sending"
    PROVE  /\ data_size > 0 /\ Len(sent) \in Nat /\ nleft \in Nat
           /\ Len(sent) + nleft = ToSend
           /\ Len(sent) + nleft <= data_size /\ Len(sent) + nleft <= SndBuf
           /\ Len(sent) + nleft > 0
           /\ \A i \in 1 .. Len(sent) : sent[i] = buf[rpos + i]
<1>1. /\ data_size > 0 /\ Len(sent) + nleft = ToSend
      /\ \A i \in 1 .. Len(sent) : sent[i] = buf[rpos + i]
  BY DEF SkBufferInv, SendInv
<1>2. sent \in Seq(Bytes) /\ nleft \in Nat
  BY SkBufferAssumption DEF SkBufferInv, TypeOK
<1>3. Len(sent) \in Nat
  BY <1>2, LenProperties
<1>4. ToSend > 0 /\ ToSend <= data_size /\ ToSend <= SndBuf
  BY <1>1, Sizes, SkBufferAssumption DEF ToSend, Smaller, SkBufferInv
<1> QED
  BY ONLY <1>1, <1>2, <1>3, <1>4

(* A turn of sendn sends the bytes that follow those already sent: nothing *)
(* has moved them while the mutex was held.                                *)
LEMMA SendSomeStep ==
    ASSUME SkBufferInv, NEW t \in Threads, NEW n \in 1 .. SndBuf, SendSome(t, n)
    PROVE  SkBufferInv' /\ QueueStep
<1> USE DEF SkBufferInv
<1> DEFINE new == SubSeq(buf, rpos + Len(sent) + 1, rpos + Len(sent) + n)
<1>1. /\ pc[t] = "sending" /\ n <= nleft /\ n \in Nat /\ n > 0
      /\ sent' = sent \o new /\ nleft' = nleft - n
      /\ UNCHANGED <<buf, posVars>> /\ UNCHANGED <<mutex, pc, udp, reply>>
  BY SkBufferAssumption DEF SendSome
<1>2. /\ data_size > 0 /\ Len(sent) \in Nat /\ nleft \in Nat
      /\ Len(sent) + nleft = ToSend
      /\ Len(sent) + nleft <= data_size /\ Len(sent) + nleft <= SndBuf
      /\ \A i \in 1 .. Len(sent) : sent[i] = buf[rpos + i]
  BY <1>1, Sending
<1>3. data_size \in Nat /\ rpos \in Nat
  BY Sizes
<1>4. GrowthBounded' /\ DataInv' /\ Content' = Content
      /\ (TypeOK' => PositionsAgree')
  BY <1>1, DataKept
<1>5. /\ new \in Seq(Bytes) /\ Len(new) = n
      /\ \A i \in 1 .. n : new[i] = buf[rpos + (Len(sent) + i)]
  <2>1. PICK a \in Nat : a = rpos + Len(sent)
    BY <1>2, <1>3
  <2>2. \A i \in 1 .. n : buf[a + i] \in Bytes
    <3>1. \A i \in 1 .. n : /\ Len(sent) + i \in 1 .. data_size
                            /\ a + i = rpos + (Len(sent) + i)
      BY <1>1, <1>2, <1>3, <2>1
    <3> QED
      BY <3>1 DEF DataInv
  <2>3. n \in Nat
    BY <1>1
  <2>4. /\ SubSeq(buf, a + 1, a + n) \in Seq(Bytes)
        /\ Len(SubSeq(buf, a + 1, a + n)) = n
        /\ \A i \in 1 .. n : SubSeq(buf, a + 1, a + n)[i] = buf[a + i]
    BY ONLY a \in Nat, <2>2, <2>3, Slice
  <2>5. new = SubSeq(buf, a + 1, a + n)
    BY <2>1
  <2>6. \A i \in 1 .. n : a + i = rpos + (Len(sent) + i)
    BY <1>2, <1>3, <2>1
  <2> HIDE DEF new
  <2> QED
    BY ONLY <2>5, <2>6, <2>4
<1> HIDE DEF new
<1>6. sent \in Seq(Bytes)
  BY DEF TypeOK
<1>7. /\ sent \o new \in Seq(Bytes)
      /\ Len(sent \o new) = Len(sent) + Len(new)
      /\ \A i \in 1 .. Len(sent) + Len(new) : (sent \o new)[i] =
            IF i <= Len(sent) THEN sent[i] ELSE new[i - Len(sent)]
  BY ONLY <1>5, <1>6, ConcatProperties
<1>8. ASSUME NEW i \in 1 .. Len(sent) + n
      PROVE  (sent \o new)[i] = buf[rpos + i]
  <2>1. CASE i <= Len(sent)
    BY <1>2, <1>5, <1>7, <2>1
  <2>2. CASE i > Len(sent)
    <3>1. /\ i - Len(sent) \in 1 .. n
          /\ Len(sent) + (i - Len(sent)) = i
          /\ (sent \o new)[i] = new[i - Len(sent)]
      BY <1>1, <1>2, <1>5, <1>7, <2>2
    <3>2. new[i - Len(sent)] = buf[rpos + (Len(sent) + (i - Len(sent)))]
      BY <1>5, <3>1
    <3> QED
      BY ONLY <3>1, <3>2
  <2>3. i <= Len(sent) \/ i > Len(sent)
    BY <1>1, <1>2
  <2> QED
    BY ONLY <2>1, <2>2, <2>3, Zenon
<1>9. SendInv'
  <2>1. /\ data_size' = data_size /\ rpos' = rpos /\ buf' = buf
        /\ pc' = pc /\ ToSend' = ToSend
    BY <1>1 DEF posVars, ToSend
  <2>2. sent' = sent \o new /\ Len(sent') = Len(sent) + n
    BY <1>1, <1>5, <1>7
  <2>3. data_size' > 0 /\ Len(sent') + nleft' = ToSend'
    BY <1>1, <1>2, <2>1, <2>2
  <2>4. \A i \in 1 .. Len(sent') : sent'[i] = buf'[rpos' + i]
    BY <1>8, <2>1, <2>2
  <2>5. pc'[t] = "sending"
    BY <1>1
  <2> QED
    BY <2>3, <2>4, <2>5 DEF SendInv
<1>10. LockedInSocket' /\ RoomToReceive'
  BY <1>1 DEF LockedInSocket, RoomToReceive, buf_size, posVars
<1>11. TypeOK'
  <2>1. nleft' \in 0 .. SndBuf /\ sent' \in Seq(Bytes)
    BY <1>1, <1>7, SkBufferAssumption DEF TypeOK
  <2> QED
    BY <1>1, <2>1 DEF TypeOK, posVars
<1> QED
  BY <1>1, <1>4, <1>9, <1>10, <1>11 DEF QueueStep

(* When all was sent, the bytes taken out are those that were sent.        *)
LEMMA SendDoneStep ==
    ASSUME SkBufferInv, NEW t \in Threads, SendDone(t)
    PROVE  SkBufferInv' /\ QueueStep
<1> USE DEF SkBufferInv
<1> DEFINE k == Len(sent)
<1>1. /\ pc[t] = "sending" /\ nleft = 0 /\ Consume(k) /\ reply' = sent
      /\ sent' = <<>> /\ Over(t) /\ UNCHANGED <<buf, udp, nleft>>
  BY DEF SendDone
<1>2. /\ k \in 1 .. data_size
      /\ \A i \in 1 .. k : sent[i] = buf[rpos + i]
  <2>1. data_size \in Nat
    BY Sizes
  <2> QED
    BY <1>1, <2>1, Sending
<1>3. sent \in Seq(Bytes) /\ Len(sent) = k
  BY DEF TypeOK
<1> HIDE DEF k
<1>4. sent = SubSeq(Content, 1, k) /\ k \in 1 .. Len(Content)
  <2>1. /\ Content \in Seq(Bytes) /\ Len(Content) = data_size
        /\ \A i \in 1 .. data_size : Content[i] = buf[rpos + i]
        /\ data_size \in Nat
    BY ContentIs, Sizes
  <2>2. k \in 0 .. Len(Content) /\ k \in 1 .. Len(Content)
    BY <1>2, <2>1
  <2>3. /\ SubSeq(Content, 1, k) \in Seq(Bytes)
        /\ Len(SubSeq(Content, 1, k)) = k
        /\ \A i \in 1 .. k : SubSeq(Content, 1, k)[i] = Content[i]
    BY ONLY <2>1, <2>2, TakeAndKeep
  <2>4. \A i \in 1 .. k : sent[i] = SubSeq(Content, 1, k)[i]
    BY <1>2, <2>1, <2>3
  <2>5. sent = SubSeq(Content, 1, k)
    BY <1>3, <2>3, <2>4, SeqEqual, Zenon
  <2> QED
    BY <2>2, <2>5
<1>5. /\ rpos' \in Nat /\ wpos' \in Nat /\ data_size' \in Nat
      /\ wpos' = rpos' + data_size' /\ wpos' <= Len(buf')
      /\ DataInv' /\ GrowthBounded'
      /\ Content' = SubSeq(Content, k + 1, Len(Content))
  BY <1>1, <1>2, ConsumedInv
<1>6. /\ pc' \in [Threads -> {"idle", "room", "receiving", "sending"}]
      /\ mutex' = NoThread /\ LockedInSocket' /\ RoomToReceive' /\ SendInv'
  BY <1>1, Leaves
<1>7. TypeOK'
  BY <1>1, <1>3, <1>5, <1>6, EmptySeq DEF TypeOK
<1>8. PositionsAgree'
  BY <1>5, <1>7 DEF PositionsAgree, buf_size
<1>9. Queue!Take(k)
  BY <1>1, <1>4, <1>5 DEF Queue!Take, Queue!Newer, Queue!Oldest
<1> QED
  BY <1>4, <1>5, <1>6, <1>7, <1>8, <1>9 DEF QueueStep, Queue!Next

(* When the socket fails, the bytes sent so far stay in the buffer.        *)
LEMMA SendFailsStep ==
    ASSUME SkBufferInv, NEW t \in Threads, SendFails(t)
    PROVE  SkBufferInv' /\ QueueStep
<1> USE DEF SkBufferInv
<1>1. /\ pc[t] = "sending" /\ nleft' = 0 /\ sent' = <<>> /\ Over(t)
      /\ UNCHANGED <<buf, posVars>> /\ UNCHANGED <<udp, reply>>
  BY DEF SendFails
<1>2. /\ pc' \in [Threads -> {"idle", "room", "receiving", "sending"}]
      /\ mutex' = NoThread /\ LockedInSocket' /\ RoomToReceive' /\ SendInv'
  BY <1>1, Leaves
<1>3. GrowthBounded' /\ DataInv' /\ Content' = Content
      /\ (TypeOK' => PositionsAgree')
  BY <1>1, DataKept
<1>4. TypeOK'
  BY <1>1, <1>2, EmptySeq, SkBufferAssumption DEF TypeOK, posVars
<1> QED
  BY <1>1, <1>2, <1>3, <1>4 DEF QueueStep

-----------------------------------------------------------------------------
(* The theorems *)

(* create gives an empty buffer of buf_size bytes that nobody is inside.   *)
LEMMA InitInv == Init => SkBufferInv /\ Queue!Init
<1> SUFFICES ASSUME Init PROVE SkBufferInv /\ Queue!Init
  OBVIOUS
<1>1. /\ BufSize \in Nat /\ BufMaxSize \in Nat /\ MaxLen \in Nat
      /\ MinNum \in Nat /\ SndBuf \in Nat
  BY SkBufferAssumption
<1>2. buf \in Seq(Stored_in) /\ buf_size = BufSize
  <2>1. buf \in [1 .. BufSize -> Stored_in]
    BY DEF Init, Stored_in
  <2> QED
    BY <1>1, <2>1, FunctionIsSeq DEF buf_size
<1>3. TypeOK
  <2>1. <<>> \in Seq(Bytes) /\ 0 \in 0 .. SndBuf
    BY <1>1, EmptySeq
  <2> QED
    BY <1>2, <2>1, SkBufferAssumption DEF Init, TypeOK, Stored_in
<1>4. PositionsAgree
  BY <1>1, <1>2, <1>3 DEF Init, PositionsAgree
<1>5. GrowthBounded
  <2>1. Larger(MaxLen, MinNum) \in Nat
    BY <1>1 DEF Larger
  <2>2. buf_max_size \in Nat /\ BufSize <= buf_max_size
    BY <1>1 DEF buf_max_size
  <2>3. buf_max_size \div 2 \in Nat
    <3> HIDE DEF buf_max_size
    <3> QED
      BY <2>2
  <2> QED
    BY <1>1, <1>2, <2>1, <2>2, <2>3 DEF GrowthBounded, Largest
<1>6. DataInv
  BY <1>1 DEF Init, DataInv
<1>7. LockedInSocket /\ RoomToReceive /\ SendInv
  BY SkBufferAssumption DEF Init, LockedInSocket, RoomToReceive, SendInv
<1>8. Content = <<>>
  <2>1. Content \in Seq(Bytes) /\ Len(Content) = 0
    BY <1>4, <1>6, ContentIs DEF Init
  <2> QED
    BY <2>1, EmptySeq
<1> QED
  BY <1>3, <1>4, <1>5, <1>6, <1>7, <1>8 DEF SkBufferInv, Init, Queue!Init

(* Every step keeps the invariant, and is a step of the queue or leaves    *)
(* the queue as it is.                                                     *)
LEMMA EveryStep ==
    ASSUME SkBufferInv, [Next]_vars
    PROVE  SkBufferInv' /\ QueueStep
<1>1. CASE UNCHANGED vars
  <2>1. UNCHANGED <<buf, posVars>> /\ UNCHANGED <<mutex, pc, sockVars, reply>>
    BY <1>1 DEF vars
  <2>2. GrowthBounded' /\ DataInv' /\ Content' = Content
        /\ (TypeOK' => PositionsAgree')
    BY <2>1, DataKept
  <2>3. TypeOK' /\ LockedInSocket' /\ RoomToReceive' /\ SendInv'
    BY <2>1
    DEF SkBufferInv, TypeOK, LockedInSocket, RoomToReceive, SendInv, ToSend,
        buf_size, posVars, sockVars
  <2> QED
    BY <2>1, <2>2, <2>3 DEF SkBufferInv, QueueStep
<1>2. ASSUME NEW t \in Threads, NEW n \in 1 .. MaxLen,
             \/ \E bytes \in [1 .. n -> Bytes] :
                   Write(t, bytes) \/ RecvBytes(t, bytes)
             \/ WriteRefused(t, n) \/ Read(t, n) \/ Get(t, n) \/ Skip(t, n)
      PROVE  SkBufferInv' /\ QueueStep
  BY <1>2, WriteStep, RecvBytesStep, WriteRefusedStep, ReadStep, GetStep, SkipStep
<1>3. ASSUME NEW t \in Threads,
             \/ Clear(t) \/ MakeRoom(t) \/ RecvRefused(t) \/ RecvEnds(t)
             \/ \E isUdp \in BOOLEAN : RecvCall(t, isUdp)
      PROVE  SkBufferInv' /\ QueueStep
  BY <1>3, ClearStep, MakeRoomStep, RecvOverStep, RecvCallStep
<1>4. ASSUME NEW t \in Threads,
             \/ SendCall(t) \/ SendDone(t) \/ SendFails(t)
             \/ \E n \in 1 .. SndBuf : SendSome(t, n)
      PROVE  SkBufferInv' /\ QueueStep
  BY <1>4, SendCallStep, SendDoneStep, SendFailsStep, SendSomeStep
<1> QED
  BY <1>1, <1>2, <1>3, <1>4 DEF Next

(* The invariant holds in every state.                                     *)
THEOREM InvCorrect == Spec => []SkBufferInv
<1>1. Init => SkBufferInv
  BY InitInv
<1>2. SkBufferInv /\ [Next]_vars => SkBufferInv'
  BY EveryStep
<1> QED
  BY <1>1, <1>2, PTL DEF Spec

(* For every number of threads, every size of the buffer and every length  *)
(* of the calls: the data lies between the two positions inside the        *)
(* memory, and the memory never exceeds Largest, however zbaselib_skbuffer *)
(* moves and grows it.                                                     *)
THEOREM MemoryCorrect == Spec => []MemoryFits
<1>1. SkBufferInv => MemoryFits
  BY DEF SkBufferInv, MemoryFits
<1> QED
  BY <1>1, InvCorrect, PTL

(* A thread is inside recv or send of the socket exactly while it has the  *)
(* mutex, and never calls recv with a length of 0.                         *)
THEOREM SocketCallsSafe == Spec => []SafeInSocket
<1>1. SkBufferInv => SafeInSocket
  BY DEF SkBufferInv, SafeInSocket
<1> QED
  BY <1>1, InvCorrect, PTL

(* The socket buffer implements the queue of bytes: read, send and skip    *)
(* take what write, recv and udp_recv stored, in order, and no byte that   *)
(* realloc left uninitialized is ever taken.                               *)
THEOREM SkBufferImplementsQueue == Spec => ImplementsByteQueue
<1>1. Init => Queue!Init
  BY InitInv
<1>2. SkBufferInv /\ [Next]_vars => [Queue!Next]_(Queue!vars)
  BY EveryStep DEF QueueStep, Queue!vars
<1> QED
  BY <1>1, <1>2, InvCorrect, PTL DEF Spec, ImplementsByteQueue, Queue!Spec

=============================================================================
