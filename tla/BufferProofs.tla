---------------------------- MODULE BufferProofs ----------------------------
(* Theorems about the ring buffer, for every size, every set of threads    *)
(* and bytes, and every choice of the operations they call.                *)
EXTENDS Buffer, TLAPS, SequenceFacts

(* Operations exclude each other if the buffer locks, or if one thread     *)
(* alone uses it.                                                          *)
Exclusive == islock \/ \A t, u \in Threads : t = u

(* A locking buffer's mutex is held by the thread inside an operation.     *)
LockInv == \A t \in Threads : pc[t] # "idle" /\ islock => mutex = t

Updates(t) == pc[t] \in {"load", "store"}

(* What a thread inside an operation has in its locals.                    *)
CallInv ==
    \A t \in Threads :
        /\ pc[t] # "idle" =>
              call[t].op # "none" /\ call[t].len \in 1 .. buffer_size
        /\ pc[t] # "idle" /\ call[t].op = "write" =>
              data[t] \in [1 .. call[t].len -> Bytes]
        /\ Updates(t) /\ call[t].op = "read" =>
              data[t] \in [1 .. call[t].len -> Bytes]
        /\ Updates(t) /\ call[t].op = "skip" => data[t] = <<>>
        /\ Updates(t) => call[t].op # "get"
        /\ pc[t] = "store" => loaded[t] = busy_num

Behind(pos, n) == IF pos >= n THEN pos - n ELSE pos - n + buffer_size

(* A thread that has copied bytes in: they are behind the busy ones, and   *)
(* wpos is behind them.                                                    *)
WriteInv ==
    \A t \in Threads : Updates(t) /\ call[t].op = "write" =>
        LET len == call[t].len
        IN  /\ busy_num + len <= buffer_size
            /\ wpos = Ahead(rpos, busy_num + len)
            /\ \A i \in 1 .. len :
                  buffer[Ahead(rpos, busy_num + i - 1)] = data[t][i]

(* A thread that has copied bytes out: they were the oldest busy ones, and *)
(* rpos is behind them.                                                    *)
ReadInv ==
    \A t \in Threads : Updates(t) /\ call[t].op # "write" =>
        LET len == call[t].len
        IN  /\ len <= busy_num
            /\ wpos = Ahead(rpos, busy_num - len)
            /\ call[t].op = "read" => \A i \in 1 .. len :
                  data[t][i] = buffer[Ahead(Behind(rpos, len), i - 1)]

(* Nobody between moving a position and updating busy_num: the positions   *)
(* are busy_num apart.                                                     *)
RestInv ==
    (\A t \in Threads : ~Updates(t)) => wpos = Ahead(rpos, busy_num)

BufferInv ==
    TypeOK /\ LockInv /\ CallInv /\ WriteInv /\ ReadInv /\ RestInv

(* The remainders that sums and differences of positions need.             *)
LEMMA Remainder ==
    ASSUME NEW m \in Nat \ {0}, NEW a \in Int, -m <= a, a < 2 * m
    PROVE  a % m = IF a < 0 THEN a + m ELSE IF a < m THEN a ELSE a - m
<1>1. CASE a < 0
  BY <1>1
<1>2. CASE 0 <= a /\ a < m
  BY <1>2
<1>3. CASE m <= a
  BY <1>3
<1> QED
  BY <1>1, <1>2, <1>3

(* No sum or difference of the buffer overflows an unsigned int.           *)
LEMMA NoOverflow == \A a \in 0 .. 2 * buffer_size - 1 : a % Modulus = a
<1> SUFFICES ASSUME NEW a \in 0 .. 2 * buffer_size - 1
             PROVE  a % Modulus = a
  OBVIOUS
<1>1. Modulus \in Nat \ {0} /\ a \in Int /\ 0 <= a /\ a < Modulus
  BY BufferAssumption
<1> QED
  BY <1>1

(* The sum of a position and a length, and what is past the end.           *)
LEMMA SumIsPlus ==
    ASSUME NEW pos \in Slots, NEW len \in 0 .. buffer_size
    PROVE  /\ Sum(pos, len) = pos + len /\ Sum(len, pos) = pos + len
           /\ pos + len >= buffer_size =>
                Diff(pos + len, buffer_size) = (pos + len) - buffer_size
<1>1. /\ pos + len \in 0 .. 2 * buffer_size - 1 /\ len + pos = pos + len
      /\ pos + len >= buffer_size =>
           (pos + len) - buffer_size \in 0 .. 2 * buffer_size - 1
  BY BufferAssumption DEF Slots
<1>2. (pos + len) % Modulus = pos + len
  BY <1>1, NoOverflow
<1>3. (len + pos) % Modulus = pos + len
  BY <1>1, <1>2
<1>4. Sum(pos, len) = pos + len /\ Sum(len, pos) = pos + len
  BY <1>2, <1>3, Zenon DEF Sum
<1>5. ASSUME pos + len >= buffer_size
      PROVE  Diff(pos + len, buffer_size) = (pos + len) - buffer_size
  <2>1. ((pos + len) - buffer_size) % Modulus = (pos + len) - buffer_size
    BY <1>1, <1>5, NoOverflow
  <2> QED
    BY <2>1, Zenon DEF Diff
<1> QED
  BY <1>4, <1>5

(* write, read and skip move a position as many bytes on as they copy,     *)
(* and no sum of theirs overflows an unsigned int.                         *)
LEMMA AdvanceIsAhead ==
    ASSUME NEW pos \in Slots, NEW len \in 1 .. buffer_size
    PROVE  Advance(pos, len) = Ahead(pos, len) /\ Ahead(pos, len) \in Slots
BY SumIsPlus, BufferAssumption DEF Advance, Fits, Ahead, Slots

(* The i-th byte that write, read and get copy is i - 1 slots ahead of     *)
(* their position.                                                         *)
LEMMA SlotIsAhead ==
    ASSUME NEW pos \in Slots, NEW len \in 1 .. buffer_size, NEW i \in 1 .. len
    PROVE  SlotOf(pos, len, i) = Ahead(pos, i - 1) /\ Ahead(pos, i - 1) \in Slots
BY SumIsPlus, BufferAssumption DEF SlotOf, Fits, Ahead, Slots

(* Two bytes less than buffer_size apart are in different slots.           *)
LEMMA AheadInjective ==
    ASSUME NEW pos \in Slots, NEW i \in 0 .. buffer_size - 1,
           NEW j \in 0 .. buffer_size - 1, Ahead(pos, i) = Ahead(pos, j)
    PROVE  i = j
BY BufferAssumption DEF Ahead, Slots

(* Going ahead twice, and back.                                            *)
LEMMA AheadAhead ==
    ASSUME NEW pos \in Slots, NEW i \in 0 .. buffer_size,
           NEW j \in 0 .. buffer_size, i + j <= buffer_size
    PROVE  /\ Ahead(pos, i) \in Slots
           /\ Ahead(Ahead(pos, i), j) = Ahead(pos, i + j)
           /\ Behind(Ahead(pos, i), i) = pos
           /\ Behind(pos, i) \in Slots
           /\ Ahead(Behind(pos, i), i) = pos
BY BufferAssumption DEF Ahead, Behind, Slots

(* What write and read find: the room and the bytes busy_num tells.        *)
LEMMA RefusedMeans ==
    ASSUME TypeOK, NEW t \in Threads
    PROVE  Refused(t) <=> IF call[t].op = "write"
                          THEN busy_num + call[t].len > buffer_size
                          ELSE busy_num < call[t].len
<1>1. Diff(buffer_size, busy_num) = buffer_size - busy_num
  <2>1. buffer_size - busy_num \in 0 .. 2 * buffer_size - 1
    BY BufferAssumption DEF TypeOK
  <2> QED
    BY <2>1, NoOverflow DEF Diff
<1>2. call[t].len \in 0 .. buffer_size
  BY DEF TypeOK
<1> QED
  BY <1>1, <1>2, BufferAssumption DEF Refused, TooMuch, TypeOK

(* Strings of up to buffer_size bytes.                                     *)
LEMMA BytesSeqType ==
    /\ <<>> \in BytesSeq
    /\ \A n \in 0 .. buffer_size : [1 .. n -> Bytes] \subseteq BytesSeq
<1>1. ASSUME NEW n \in 0 .. buffer_size
      PROVE  [1 .. n -> Bytes] \subseteq BytesSeq
  BY DEF BytesSeq
<1>2. <<>> \in [1 .. 0 -> Bytes] /\ 0 \in 0 .. buffer_size
  BY BufferAssumption
<1>3. <<>> \in BytesSeq
  BY <1>1, <1>2
<1> QED
  BY <1>1, <1>3

(* Of the threads, one at a time is inside an operation.                   *)
LEMMA OneInside ==
    ASSUME Exclusive, LockInv, NEW t \in Threads
    PROVE  /\ pc[t] # "idle" => \A u \in Threads \ {t} : pc[u] = "idle"
           /\ pc[t] = "idle" /\ (islock => mutex = NoThread) =>
                \A u \in Threads : pc[u] = "idle"
<1>1. ASSUME pc[t] # "idle", NEW u \in Threads \ {t}
      PROVE  pc[u] = "idle"
  BY <1>1 DEF Exclusive, LockInv
<1>2. ASSUME pc[t] = "idle", islock => mutex = NoThread, NEW u \in Threads
      PROVE  pc[u] = "idle"
  BY <1>2, BufferAssumption DEF Exclusive, LockInv
<1> QED
  BY <1>1, <1>2

(* ZBUFFER_LOCK at the beginning of an operation and ZBUFFER_UNLOCK at     *)
(* every return: the mutex is that of the thread inside.                   *)
LEMMA LockStep ==
    ASSUME Exclusive, TypeOK, LockInv, [Next]_vars
    PROVE  LockInv'
<1> USE BufferAssumption DEF TypeOK
<1>1. ASSUME NEW t \in Threads, EnterWrite(t) \/ EnterRead(t)
      PROVE  LockInv'
  BY <1>1, OneInside DEF EnterWrite, EnterRead, Enter, TakeLock, LockInv
<1>2. ASSUME NEW t \in Threads, Refuse(t) \/ StoreBusy(t) \/ Get(t)
      PROVE  LockInv'
  <2>1. \A u \in Threads \ {t} : pc[u] = "idle"
    BY <1>2, OneInside DEF Refuse, StoreBusy, Get
  <2>2. pc' = [pc EXCEPT ![t] = "idle"]
    BY <1>2 DEF Refuse, StoreBusy, Get, Leave
  <2> QED
    BY <2>1, <2>2 DEF LockInv
<1>3. ASSUME NEW t \in Threads, CopyIn(t) \/ CopyOut(t) \/ LoadBusy(t)
      PROVE  LockInv'
  <2>1. /\ pc[t] # "idle" /\ mutex' = mutex
        /\ \E p \in {"load", "store"} : pc' = [pc EXCEPT ![t] = p]
    BY <1>3 DEF CopyIn, CopyOut, LoadBusy
  <2> QED
    BY <2>1 DEF LockInv
<1>4. ASSUME NEW t \in Threads, Clear(t)
      PROVE  LockInv'
  BY <1>4 DEF Clear, LockInv
<1>5. CASE UNCHANGED vars
  BY <1>5 DEF vars, LockInv
<1> QED
  BY <1>1, <1>2, <1>3, <1>4, <1>5 DEF Next

(* busy_num += data_len and busy_num -= data_len, with what was loaded     *)
(* still the value, give the count that the positions tell.                *)
LEMMA NewBusy ==
    ASSUME BufferInv, NEW t \in Threads, StoreBusy(t)
    PROVE  /\ busy_num' \in 0 .. buffer_size
           /\ busy_num' = IF call[t].op = "write" THEN busy_num + call[t].len
                          ELSE busy_num - call[t].len
<1> DEFINE len == call[t].len
<1>1. /\ loaded[t] = busy_num /\ busy_num \in 0 .. buffer_size
      /\ len \in 1 .. buffer_size
  BY DEF StoreBusy, BufferInv, TypeOK, CallInv
<1>2. CASE call[t].op = "write"
  <2>1. busy_num + len <= buffer_size
    BY <1>2 DEF StoreBusy, BufferInv, WriteInv, Updates
  <2>2. busy_num + len \in 0 .. 2 * buffer_size - 1
    BY <1>1, <2>1, BufferAssumption
  <2>3. (busy_num + len) % Modulus = busy_num + len
    BY <2>2, NoOverflow
  <2>4. busy_num' = busy_num + len
    BY <1>1, <1>2, <2>3 DEF StoreBusy, Sum
  <2>5. busy_num + len \in 0 .. buffer_size
    BY <1>1, <2>1, BufferAssumption
  <2> QED
    BY <1>2, <2>4, <2>5
<1>3. CASE call[t].op # "write"
  <2>1. len <= busy_num
    BY <1>3 DEF StoreBusy, BufferInv, ReadInv, Updates
  <2>2. busy_num - len \in 0 .. 2 * buffer_size - 1
    BY <1>1, <2>1, BufferAssumption
  <2>3. (busy_num - len) % Modulus = busy_num - len
    BY <2>2, NoOverflow
  <2>4. busy_num' = busy_num - len
    BY <1>1, <1>3, <2>3 DEF StoreBusy, Diff
  <2>5. busy_num - len \in 0 .. buffer_size
    BY <1>1, <2>1, BufferAssumption
  <2> QED
    BY <1>3, <2>4, <2>5
<1> QED
  BY <1>2, <1>3

(* Every step keeps every variable in its type, and the locals of the      *)
(* thread inside an operation what the operation needs.                    *)
LEMMA CallStep ==
    ASSUME Exclusive, BufferInv, [Next]_vars
    PROVE  TypeOK' /\ CallInv'
<1> USE BufferAssumption, BytesSeqType
    DEF BufferInv, TypeOK, CallInv, Updates, NoCall
<1>1. ASSUME NEW t \in Threads, EnterWrite(t)
      PROVE  TypeOK' /\ CallInv'
  <2>0. PICK len \in 1 .. buffer_size : \E bytes \in [1 .. len -> Bytes] :
             Enter(t, "write", bytes, len)
    BY <1>1 DEF EnterWrite
  <2>1. PICK bytes \in [1 .. len -> Bytes] : Enter(t, "write", bytes, len)
    BY <2>0
  <2>2. bytes \in BytesSeq /\ mutex' \in Threads \cup {NoThread}
    BY <2>1 DEF Enter, TakeLock
  <2>3. TypeOK'
    BY <2>1, <2>2 DEF Enter
  <2>4. CallInv'
    BY <2>1 DEF Enter
  <2> QED
    BY <2>3, <2>4
<1>2. ASSUME NEW t \in Threads, EnterRead(t)
      PROVE  TypeOK' /\ CallInv'
  <2>1. PICK op \in {"read", "skip", "get"}, len \in 1 .. buffer_size :
             Enter(t, op, <<>>, len)
    BY <1>2 DEF EnterRead
  <2>2. mutex' \in Threads \cup {NoThread}
    BY <2>1 DEF Enter, TakeLock
  <2>3. TypeOK'
    BY <2>1, <2>2 DEF Enter
  <2>4. CallInv'
    BY <2>1 DEF Enter
  <2> QED
    BY <2>3, <2>4
<1>3. ASSUME NEW t \in Threads, Refuse(t)
      PROVE  TypeOK' /\ CallInv'
  BY <1>3 DEF Refuse, GiveLock
<1>4. ASSUME NEW t \in Threads, CopyIn(t)
      PROVE  TypeOK' /\ CallInv'
  <2>1. /\ call[t].op = "write" /\ call[t].len \in 1 .. buffer_size
        /\ data[t] \in [1 .. call[t].len -> Bytes]
    BY <1>4 DEF CopyIn
  <2>2. buffer' \in [Slots -> Bytes]
    BY <1>4, <2>1 DEF CopyIn
  <2>3. wpos' \in Slots
    BY <1>4, <2>1, AdvanceIsAhead DEF CopyIn
  <2>4. TypeOK'
    BY <1>4, <2>2, <2>3 DEF CopyIn
  <2>5. CallInv'
    BY <1>4, <2>1 DEF CopyIn
  <2> QED
    BY <2>4, <2>5
<1>5. ASSUME NEW t \in Threads, CopyOut(t)
      PROVE  TypeOK' /\ CallInv'
  <2>1. call[t].op \in {"read", "skip"} /\ call[t].len \in 1 .. buffer_size
    BY <1>5 DEF CopyOut
  <2>2. [i \in 1 .. call[t].len |-> buffer[SlotOf(rpos, call[t].len, i)]]
            \in [1 .. call[t].len -> Bytes]
    BY <2>1, SlotIsAhead
  <2>3. data'[t] \in BytesSeq
        /\ (call[t].op = "read" => data'[t] \in [1 .. call[t].len -> Bytes])
        /\ (call[t].op = "skip" => data'[t] = <<>>)
    BY <1>5, <2>1, <2>2 DEF CopyOut
  <2>4. /\ data' \in [Threads -> BytesSeq]
        /\ \A u \in Threads \ {t} : data'[u] = data[u]
    BY <1>5, <2>3 DEF CopyOut
  <2>5. rpos' \in Slots
    BY <1>5, <2>1, AdvanceIsAhead DEF CopyOut
  <2>6. TypeOK'
    BY <1>5, <2>4, <2>5 DEF CopyOut
  <2>7. CallInv'
    BY <1>5, <2>1, <2>3, <2>4 DEF CopyOut
  <2> QED
    BY <2>6, <2>7
<1>6. ASSUME NEW t \in Threads, LoadBusy(t)
      PROVE  TypeOK' /\ CallInv'
  BY <1>6 DEF LoadBusy
<1>7. ASSUME NEW t \in Threads, StoreBusy(t)
      PROVE  TypeOK' /\ CallInv'
  <2>1. \A u \in Threads \ {t} : pc[u] = "idle"
    BY <1>7, OneInside DEF StoreBusy
  <2>2. busy_num' \in 0 .. buffer_size
    BY <1>7, NewBusy
  <2>3. reply' \in BytesSeq
    BY <1>7 DEF StoreBusy, Leave
  <2>4. TypeOK'
    BY <1>7, <2>2, <2>3 DEF StoreBusy, Leave, GiveLock
  <2>5. CallInv'
    BY <1>7, <2>1 DEF StoreBusy, Leave
  <2> QED
    BY <2>4, <2>5
<1>8. ASSUME NEW t \in Threads, Get(t)
      PROVE  TypeOK' /\ CallInv'
  <2>1. [i \in 1 .. call[t].len |-> buffer[SlotOf(rpos, call[t].len, i)]]
            \in BytesSeq
    <3>1. call[t].len \in 1 .. buffer_size
      BY <1>8 DEF Get
    <3>2. [i \in 1 .. call[t].len |-> buffer[SlotOf(rpos, call[t].len, i)]]
              \in [1 .. call[t].len -> Bytes]
      BY <3>1, SlotIsAhead
    <3> QED
      BY <3>1, <3>2
  <2>2. TypeOK'
    BY <1>8, <2>1 DEF Get, Leave, GiveLock
  <2>3. CallInv'
    BY <1>8 DEF Get, Leave
  <2> QED
    BY <2>2, <2>3
<1>9. ASSUME NEW t \in Threads, Clear(t)
      PROVE  TypeOK' /\ CallInv'
  <2>1. \A u \in Threads : pc[u] = "idle"
    BY <1>9, OneInside DEF Clear
  <2> QED
    BY <1>9, <2>1 DEF Clear, Slots
<1>10. CASE UNCHANGED vars
  BY <1>10 DEF vars
<1> QED
  BY <1>1, <1>2, <1>3, <1>4, <1>5, <1>6, <1>7, <1>8, <1>9, <1>10 DEF Next

(* The positions, busy_num and the bytes between them stay in step through *)
(* the two halves of write, read and skip.                                 *)
LEMMA PositionStep ==
    ASSUME Exclusive, BufferInv, [Next]_vars
    PROVE  WriteInv' /\ ReadInv' /\ RestInv'
<1> USE BufferAssumption DEF BufferInv, Updates
<1>1. ASSUME NEW t \in Threads,
             EnterWrite(t) \/ EnterRead(t) \/ Refuse(t) \/ Get(t)
      PROVE  WriteInv' /\ ReadInv' /\ RestInv'
  <2>1. /\ \A u \in Threads : ~Updates(u) /\ ~Updates(u)'
        /\ UNCHANGED <<wpos, rpos, busy_num>>
    <3>1. \A u \in Threads \ {t} : pc[u] = "idle"
      BY <1>1, OneInside
      DEF EnterWrite, EnterRead, Enter, TakeLock, Refuse, Get
    <3>2. /\ pc[t] \in {"idle", "check"}
          /\ \E p \in {"idle", "check"} : pc' = [pc EXCEPT ![t] = p]
          /\ UNCHANGED <<wpos, rpos, busy_num>>
      BY <1>1 DEF EnterWrite, EnterRead, Enter, Refuse, Get, Leave
    <3> QED
      BY <3>1, <3>2 DEF TypeOK
  <2> QED
    BY <2>1 DEF WriteInv, ReadInv, RestInv, Ahead
<1>2. ASSUME NEW t \in Threads, CopyIn(t)
      PROVE  WriteInv' /\ ReadInv' /\ RestInv'
  <2> DEFINE len == call[t].len
  <2>1. /\ call[t].op = "write" /\ len \in 1 .. buffer_size
        /\ data[t] \in [1 .. len -> Bytes]
        /\ pc' = [pc EXCEPT ![t] = "load"]
        /\ UNCHANGED <<rpos, busy_num, call, data>>
    BY <1>2 DEF CopyIn, CallInv
  <2>2. \A u \in Threads \ {t} : pc[u] = "idle" /\ pc'[u] = "idle"
    BY <1>2, <2>1, OneInside DEF CopyIn, TypeOK
  <2>3. wpos = Ahead(rpos, busy_num) /\ rpos \in Slots /\ wpos \in Slots
        /\ busy_num \in 0 .. buffer_size
    BY <1>2, <2>2 DEF RestInv, CopyIn, TypeOK
  <2>4. busy_num + len <= buffer_size
    BY <1>2, <2>1, RefusedMeans DEF CopyIn, TypeOK
  <2>5. wpos' = Ahead(wpos, len)
    BY <1>2, <2>1, <2>3, AdvanceIsAhead DEF CopyIn
  <2>6. wpos' = Ahead(rpos, busy_num + len)
    BY <2>1, <2>3, <2>4, <2>5, AheadAhead
  <2>7. ASSUME NEW i \in 1 .. len
        PROVE  buffer'[Ahead(rpos, busy_num + i - 1)] = data[t][i]
    <3>1. SlotOf(wpos, len, i) = Ahead(wpos, i - 1)
          /\ SlotOf(wpos, len, i) \in Slots
      BY <2>1, <2>3, SlotIsAhead
    <3>2. \A j \in 1 .. len : SlotOf(wpos, len, j) = SlotOf(wpos, len, i) => j = i
      <4> SUFFICES ASSUME NEW j \in 1 .. len,
                          SlotOf(wpos, len, j) = SlotOf(wpos, len, i)
                   PROVE  j = i
        OBVIOUS
      <4>1. SlotOf(wpos, len, j) = Ahead(wpos, j - 1)
        BY <2>1, <2>3, SlotIsAhead
      <4>2. i - 1 \in 0 .. buffer_size - 1 /\ j - 1 \in 0 .. buffer_size - 1
        BY <2>1
      <4>3. i - 1 = j - 1
        BY <2>3, <3>1, <4>1, <4>2, AheadInjective
      <4> QED
        BY <2>1, <4>3
    <3>3. (CHOOSE j \in 1 .. len : SlotOf(wpos, len, j) = SlotOf(wpos, len, i)) = i
      BY <3>2
    <3>4. buffer'[SlotOf(wpos, len, i)] = data[t][i]
      BY <1>2, <3>1, <3>3 DEF CopyIn
    <3>5. Ahead(wpos, i - 1) = Ahead(rpos, busy_num + i - 1)
      <4>1. i - 1 \in 0 .. buffer_size /\ busy_num + (i - 1) <= buffer_size
        BY SMTT(30), <2>1, <2>3, <2>4
      <4> QED
        BY <2>3, <4>1, AheadAhead
    <3> QED
      BY <3>1, <3>4, <3>5
  <2>8. WriteInv'
    BY <2>1, <2>2, <2>4, <2>6, <2>7 DEF WriteInv, Ahead, TypeOK
  <2>9. ReadInv' /\ RestInv'
    BY <2>1, <2>2 DEF ReadInv, RestInv, TypeOK
  <2> QED
    BY <2>8, <2>9
<1>3. ASSUME NEW t \in Threads, CopyOut(t)
      PROVE  WriteInv' /\ ReadInv' /\ RestInv'
  <2> DEFINE len == call[t].len
  <2>1. /\ call[t].op \in {"read", "skip"} /\ len \in 1 .. buffer_size
        /\ pc' = [pc EXCEPT ![t] = "load"]
        /\ UNCHANGED <<wpos, busy_num, call, buffer>>
    BY <1>3 DEF CopyOut, CallInv
  <2>2. \A u \in Threads \ {t} : pc[u] = "idle" /\ pc'[u] = "idle"
    BY <1>3, <2>1, OneInside DEF CopyOut, TypeOK
  <2>3. wpos = Ahead(rpos, busy_num) /\ rpos \in Slots
        /\ busy_num \in 0 .. buffer_size
    BY <1>3, <2>2 DEF RestInv, CopyOut, TypeOK
  <2>4. len <= busy_num
    BY <1>3, <2>1, <2>3, RefusedMeans DEF CopyOut
  <2>5. rpos' = Ahead(rpos, len)
    BY <1>3, <2>1, <2>3, AdvanceIsAhead DEF CopyOut
  <2>6. wpos = Ahead(rpos', busy_num - len) /\ Behind(rpos', len) = rpos
    BY <2>1, <2>3, <2>4, <2>5 DEF Ahead, Behind, Slots
  <2>7. ASSUME call[t].op = "read", NEW i \in 1 .. len
        PROVE  data'[t][i] = buffer[Ahead(rpos, i - 1)]
    <3>1. data'[t] = [j \in 1 .. len |-> buffer[SlotOf(rpos, len, j)]]
      BY <1>3, <2>7 DEF CopyOut, TypeOK
    <3> QED
      BY <2>1, <2>3, <3>1, SlotIsAhead
  <2>8. ReadInv'
    BY <2>1, <2>2, <2>4, <2>6, <2>7 DEF ReadInv, Ahead, TypeOK
  <2>9. WriteInv' /\ RestInv'
    BY <2>1, <2>2 DEF WriteInv, RestInv, TypeOK
  <2> QED
    BY <2>8, <2>9
<1>4. ASSUME NEW t \in Threads, LoadBusy(t)
      PROVE  WriteInv' /\ ReadInv' /\ RestInv'
  <2>1. \A u \in Threads : Updates(u)' <=> Updates(u)
    BY <1>4 DEF LoadBusy, TypeOK
  <2> QED
    BY <1>4, <2>1 DEF LoadBusy, WriteInv, ReadInv, RestInv, Ahead, Behind
<1>5. ASSUME NEW t \in Threads, StoreBusy(t)
      PROVE  WriteInv' /\ ReadInv' /\ RestInv'
  <2>1. \A u \in Threads : ~Updates(u)'
    BY ZenonT(40), <1>5, OneInside DEF StoreBusy, Leave, TypeOK
  <2>2. wpos = Ahead(rpos, busy_num') /\ UNCHANGED <<wpos, rpos>>
    BY <1>5, NewBusy DEF StoreBusy, WriteInv, ReadInv
  <2> QED
    BY <2>1, <2>2 DEF WriteInv, ReadInv, RestInv, Ahead
<1>6. ASSUME NEW t \in Threads, Clear(t)
      PROVE  WriteInv' /\ ReadInv' /\ RestInv'
  <2>1. \A u \in Threads : pc[u] = "idle"
    BY <1>6, OneInside DEF Clear
  <2> QED
    BY <1>6, <2>1 DEF Clear, WriteInv, ReadInv, RestInv, Ahead
<1>7. CASE UNCHANGED vars
  BY <1>7 DEF vars, WriteInv, ReadInv, RestInv, Ahead, Behind
<1> QED
  BY <1>1, <1>2, <1>3, <1>4, <1>5, <1>6, <1>7 DEF Next

(* Whatever the size and whoever calls, if operations exclude each other   *)
(* the write position is where the read position and busy_num put it       *)
(* whenever no operation is under way.                                     *)
LEMMA InvCorrect ==
    ASSUME Exclusive
    PROVE  Spec => []BufferInv
<1>1. Init => BufferInv
  BY BufferAssumption, BytesSeqType
  DEF Init, BufferInv, TypeOK, LockInv, CallInv, WriteInv, ReadInv, RestInv,
      Updates, Ahead, Slots, NoCall
<1>2. BufferInv /\ [Next]_vars => BufferInv'
  BY LockStep, CallStep, PositionStep DEF BufferInv
<1> QED
  BY <1>1, <1>2, PTL DEF Spec

(* With islock, or one thread, wpos, rpos and busy_num agree after every   *)
(* sequence of write, read, skip, get and clear.                           *)
THEOREM PositionsCorrect ==
    ASSUME Exclusive
    PROVE  Spec => []PositionsAgree
<1>1. BufferInv => PositionsAgree
  BY DEF BufferInv, PositionsAgree, RestInv, Updates
<1> QED
  BY <1>1, InvCorrect, PTL


-----------------------------------------------------------------------------
(* The buffer implements the queue of bytes *)

(* Content as a window of the ring: from rpos on, or, between the two      *)
(* halves of read and skip, from where rpos was.                           *)
ContentInv ==
    /\ Content \in Seq(Bytes) /\ Len(Content) = busy_num
    /\ ~Updating({"read", "skip"}) => \A i \in 1 .. busy_num :
          Content[i] = buffer[Ahead(rpos, i - 1)]
    /\ \A t \in Threads : Updates(t) /\ call[t].op \in {"read", "skip"} =>
          \A i \in 1 .. busy_num :
              Content[i] = buffer[Ahead(Behind(rpos, call[t].len), i - 1)]

(* The modulo arithmetic of Content goes round the ring as Ahead does.     *)
LEMMA ContentIs == BufferInv => ContentInv
<1> SUFFICES ASSUME BufferInv PROVE ContentInv
  OBVIOUS
<1> DEFINE first == IF Updating({"read", "skip"}) THEN wpos - busy_num ELSE rpos
           slot(i) == (first + i - 1) % buffer_size
<1>1. /\ buffer \in [Slots -> Bytes] /\ wpos \in Slots /\ rpos \in Slots
      /\ busy_num \in 0 .. buffer_size /\ buffer_size \in Nat \ {0}
  BY BufferAssumption DEF BufferInv, TypeOK
<1>2. Content = [i \in 1 .. busy_num |-> buffer[slot(i)]]
  BY DEF Content
<1>3. ASSUME NEW i \in 1 .. busy_num
      PROVE  slot(i) = (IF first + (i - 1) < 0 THEN first + (i - 1) + buffer_size
                        ELSE Ahead(first, i - 1))
             /\ slot(i) \in Slots
  <2> DEFINE a == first + (i - 1)
  <2>1. a \in Int /\ -buffer_size <= a /\ a < 2 * buffer_size
    BY <1>1 DEF Slots
  <2> HIDE DEF first, a
  <2>2. a % buffer_size = IF a < 0 THEN a + buffer_size
                          ELSE IF a < buffer_size THEN a ELSE a - buffer_size
    BY <1>1, <2>1, Remainder
  <2>3. slot(i) = a % buffer_size
    BY DEF a
  <2>4. slot(i) \in Slots
    BY <1>1, <2>1, <2>2, <2>3 DEF Slots
  <2>5. first \in Int
    BY <1>1 DEF first, Slots
  <2> QED
    BY <1>1, <2>1, <2>2, <2>3, <2>4, <2>5 DEF a, Ahead
<1> HIDE DEF slot
<1>4. Content \in [1 .. busy_num -> Bytes]
  BY <1>1, <1>2, <1>3
<1>5. Content \in Seq(Bytes) /\ Len(Content) = busy_num
  BY <1>1, <1>4, SeqDef, LenProperties
<1>6. ASSUME ~Updating({"read", "skip"}), NEW i \in 1 .. busy_num
      PROVE  Content[i] = buffer[Ahead(rpos, i - 1)]
  BY <1>1, <1>2, <1>3, <1>6 DEF Slots
<1>7. ASSUME NEW t \in Threads, Updates(t), call[t].op \in {"read", "skip"},
             NEW i \in 1 .. busy_num
      PROVE  Content[i] = buffer[Ahead(Behind(rpos, call[t].len), i - 1)]
  <2>1. Updating({"read", "skip"})
    BY <1>7 DEF Updating, Updates
  <2>2. /\ call[t].len \in 1 .. busy_num
        /\ wpos = Ahead(rpos, busy_num - call[t].len)
    BY <1>1, <1>7 DEF BufferInv, ReadInv, CallInv, Updates
  <2>3. slot(i) = Ahead(Behind(rpos, call[t].len), i - 1)
    <3> DEFINE r == Behind(rpos, call[t].len)
    <3>1. r \in Slots /\ wpos = Ahead(r, busy_num)
      <4>1. /\ call[t].len \in 0 .. buffer_size
            /\ busy_num - call[t].len \in 0 .. buffer_size
            /\ call[t].len + (busy_num - call[t].len) = busy_num
        BY <1>1, <2>2
      <4>2. r \in Slots /\ Ahead(r, call[t].len) = rpos
        BY <1>1, <4>1, AheadAhead
      <4>3. Ahead(Ahead(r, call[t].len), busy_num - call[t].len) = Ahead(r, busy_num)
        <5> HIDE DEF r
        <5> QED
          BY <1>1, <4>1, <4>2, AheadAhead
      <4> QED
        BY <2>2, <4>2, <4>3
    <3>2. first = wpos - busy_num
      BY <2>1
    <3> HIDE DEF r, first
    <3>3. slot(i) = IF first + (i - 1) < 0 THEN first + (i - 1) + buffer_size
                    ELSE Ahead(first, i - 1)
      BY <1>3
    <3>4. slot(i) = Ahead(r, i - 1)
      BY <1>1, <3>1, <3>2, <3>3 DEF Ahead, Slots
    <3> QED
      BY <3>4 DEF r
  <2> QED
    BY <1>2, <2>3
<1> QED
  BY <1>5, <1>6, <1>7 DEF ContentInv

(* A step that leaves the bytes and the window alone leaves Content alone. *)
LEMMA ContentKept ==
    ASSUME Updating({"read", "skip"})' <=> Updating({"read", "skip"}),
           UNCHANGED <<buffer, wpos, rpos, busy_num>>
    PROVE  Content' = Content
BY DEF Content

(* The oldest bytes of the queue and the rest of them.                     *)
LEMMA QueueParts ==
    ASSUME Content \in Seq(Bytes), Len(Content) = busy_num,
           NEW n \in 1 .. busy_num
    PROVE  /\ Queue!Newer(n) \in Seq(Bytes)
           /\ Len(Queue!Newer(n)) = busy_num - n
           /\ \A i \in 1 .. busy_num - n : Queue!Newer(n)[i] = Content[n + i]
           /\ Queue!Oldest(n) \in Seq(Bytes)
           /\ Len(Queue!Oldest(n)) = n
           /\ \A i \in 1 .. n : Queue!Oldest(n)[i] = Content[i]
<1>1. n \in 0 .. Len(Content)
  BY LenProperties
<1> QED
  BY <1>1, TakeAndKeep DEF Queue!Newer, Queue!Oldest

(* Every step of the buffer is a step of the queue, or none: write puts    *)
(* all of its bytes when busy_num is updated, read and skip take all of    *)
(* theirs, get looks at them, and a refused call does nothing.             *)
LEMMA QueueStep ==
    ASSUME Exclusive, BufferInv, BufferInv', [Next]_vars
    PROVE  [Queue!Next]_(Queue!vars)
<1> USE BufferAssumption DEF Queue!vars
<1>i. ContentInv /\ ContentInv'
  BY ContentIs, PTL
<1>c. /\ Content \in Seq(Bytes) /\ Len(Content) = busy_num
      /\ ~Updating({"read", "skip"}) => \A i \in 1 .. busy_num :
            Content[i] = buffer[Ahead(rpos, i - 1)]
  BY <1>i DEF ContentInv
<1>d. /\ Content' \in Seq(Bytes) /\ Len(Content') = busy_num'
      /\ ~Updating({"read", "skip"})' => \A i \in 1 .. busy_num' :
            Content'[i] = buffer'[Ahead(rpos', i - 1)]
  BY <1>i DEF ContentInv, Ahead
<1>1. ASSUME NEW t \in Threads, EnterWrite(t) \/ EnterRead(t) \/ Refuse(t)
      PROVE  UNCHANGED Queue!vars
  <2>1. \A u \in Threads \ {t} : pc[u] = "idle"
    BY <1>1, OneInside
    DEF EnterWrite, EnterRead, Enter, TakeLock, Refuse, BufferInv
  <2>2. /\ pc[t] \in {"idle", "check"}
        /\ \E p \in {"idle", "check"} : pc' = [pc EXCEPT ![t] = p]
        /\ UNCHANGED <<buffer, wpos, rpos, busy_num, reply>>
    BY <1>1 DEF EnterWrite, EnterRead, Enter, Refuse
  <2>3. ~Updating({"read", "skip"}) /\ ~Updating({"read", "skip"})'
    BY <2>1, <2>2 DEF Updating, BufferInv, TypeOK
  <2> QED
    BY <2>2, <2>3, ContentKept
<1>2. ASSUME NEW t \in Threads, CopyIn(t)
      PROVE  UNCHANGED Queue!vars
  <2> DEFINE len == call[t].len
  <2>1. /\ pc[t] = "check" /\ call[t].op = "write" /\ len \in 1 .. buffer_size
        /\ pc' = [pc EXCEPT ![t] = "load"]
        /\ UNCHANGED <<rpos, busy_num, call, reply>>
    BY <1>2 DEF CopyIn, BufferInv, CallInv
  <2>2. \A u \in Threads \ {t} : pc[u] = "idle" /\ pc'[u] = "idle"
    BY <2>1, OneInside DEF BufferInv, TypeOK
  <2>3. /\ ~Updating({"read", "skip"}) /\ ~Updating({"read", "skip"})'
        /\ \A u \in Threads : ~Updates(u)
    BY <2>1, <2>2 DEF Updating, Updates, BufferInv, TypeOK
  <2>4. /\ wpos = Ahead(rpos, busy_num) /\ rpos \in Slots /\ wpos \in Slots
        /\ busy_num \in 0 .. buffer_size /\ busy_num + len <= buffer_size
    BY <1>2, <2>1, <2>3, RefusedMeans DEF CopyIn, BufferInv, RestInv, TypeOK
  <2>5. ASSUME NEW i \in 1 .. busy_num
        PROVE  buffer'[Ahead(rpos, i - 1)] = buffer[Ahead(rpos, i - 1)]
    <3>1. ASSUME NEW j \in 1 .. len
          PROVE  SlotOf(wpos, len, j) # Ahead(rpos, i - 1)
      <4>1. /\ j - 1 \in 0 .. buffer_size
            /\ busy_num + (j - 1) \in 0 .. buffer_size - 1
            /\ i - 1 \in 0 .. buffer_size - 1
            /\ busy_num + (j - 1) # i - 1
        BY <2>1, <2>4
      <4>2. SlotOf(wpos, len, j) = Ahead(wpos, j - 1)
        BY <2>1, <2>4, SlotIsAhead
      <4>3. Ahead(wpos, j - 1) = Ahead(rpos, busy_num + (j - 1))
        BY <2>4, <4>1, AheadAhead
      <4> QED
        BY <2>4, <4>1, <4>2, <4>3, AheadInjective
    <3>2. Ahead(rpos, i - 1) \in Slots
      BY <2>4 DEF Ahead, Slots
    <3> QED
      BY <1>2, <3>1, <3>2 DEF CopyIn
  <2>6. \A i \in 1 .. busy_num : Content'[i] = Content[i]
    BY <1>c, <1>d, <2>1, <2>3, <2>5
  <2>7. Content' = Content
    BY <1>c, <1>d, <2>1, <2>6, SeqEqual
  <2> QED
    BY <2>1, <2>7
<1>3. ASSUME NEW t \in Threads, CopyOut(t)
      PROVE  UNCHANGED Queue!vars
  <2> DEFINE len == call[t].len
  <2>1. /\ pc[t] = "check" /\ call[t].op \in {"read", "skip"}
        /\ len \in 1 .. buffer_size
        /\ pc' = [pc EXCEPT ![t] = "load"]
        /\ UNCHANGED <<buffer, wpos, busy_num, call, reply>>
    BY <1>3 DEF CopyOut, BufferInv, CallInv
  <2>2. \A u \in Threads \ {t} : pc[u] = "idle"
    BY <2>1, OneInside DEF BufferInv
  <2>3. ~Updating({"read", "skip"}) /\ Updates(t)'
    BY <2>1, <2>2 DEF Updating, Updates, BufferInv, TypeOK
  <2>4. Behind(rpos', len) = rpos
    BY <1>3, <2>1, AdvanceIsAhead, AheadAhead DEF CopyOut, BufferInv, TypeOK
  <2>5. \A i \in 1 .. busy_num' : Content'[i] =
            buffer'[Ahead(Behind(rpos', call'[t].len), i - 1)]
    BY <1>i, <2>1, <2>3 DEF ContentInv, Ahead, Behind
  <2>6. \A i \in 1 .. busy_num : Content'[i] = buffer[Ahead(rpos, i - 1)]
    BY <2>1, <2>4, <2>5
  <2>7. Content' = Content
    BY SMTT(30), <1>c, <1>d, <2>1, <2>3, <2>6, SeqEqual
  <2> QED
    BY <2>1, <2>7
<1>4. ASSUME NEW t \in Threads, LoadBusy(t)
      PROVE  UNCHANGED Queue!vars
  <2>1. Updating({"read", "skip"})' <=> Updating({"read", "skip"})
    BY <1>4 DEF LoadBusy, Updating, BufferInv, TypeOK
  <2> QED
    BY <1>4, <2>1, ContentKept DEF LoadBusy
<1>5. ASSUME NEW t \in Threads, StoreBusy(t), call[t].op = "write"
      PROVE  Queue!Next
  <2> DEFINE len == call[t].len
  <2>1. /\ len \in 1 .. buffer_size /\ data[t] \in [1 .. len -> Bytes]
        /\ busy_num + len <= buffer_size /\ busy_num \in 0 .. buffer_size
        /\ \A i \in 1 .. len :
              buffer[Ahead(rpos, busy_num + i - 1)] = data[t][i]
        /\ busy_num' = busy_num + len
        /\ UNCHANGED <<buffer, rpos>>
        /\ reply' = <<>>
    BY <1>5, NewBusy
    DEF StoreBusy, Leave, BufferInv, TypeOK, CallInv, WriteInv, Updates
  <2>2. \A u \in Threads : pc[u] # "idle" => u = t
    BY <1>5, OneInside DEF StoreBusy, BufferInv
  <2>3. ~Updating({"read", "skip"}) /\ ~Updating({"read", "skip"})'
    BY ZenonT(40), <1>5, <2>2 DEF StoreBusy, Leave, Updating, BufferInv, TypeOK
  <2>4. data[t] \in Seq(Bytes) /\ Len(data[t]) = len
    <3>1. len \in Nat
      BY <2>1
    <3> QED
      BY <2>1, <3>1, FunctionIsSeq, Zenon
  <2>5. /\ Content \o data[t] \in Seq(Bytes)
        /\ Len(Content \o data[t]) = busy_num + len
        /\ \A i \in 1 .. busy_num + len : (Content \o data[t])[i] =
              IF i <= busy_num THEN Content[i] ELSE data[t][i - busy_num]
    <3>1. /\ Content \o data[t] \in Seq(Bytes)
          /\ Len(Content \o data[t]) = Len(Content) + Len(data[t])
          /\ \A i \in 1 .. Len(Content) + Len(data[t]) : (Content \o data[t])[i] =
                IF i <= Len(Content) THEN Content[i] ELSE data[t][i - Len(Content)]
      <4>1. Content \in Seq(Bytes) /\ data[t] \in Seq(Bytes)
        BY <1>c, <2>4
      <4> QED
        BY ONLY <4>1, ConcatProperties
    <3> QED
      BY <1>c, <2>4, <3>1
  <2>6. ASSUME NEW i \in 1 .. busy_num + len
        PROVE  Content'[i] = (Content \o data[t])[i]
    <3>1. Content'[i] = buffer[Ahead(rpos, i - 1)]
      BY <1>d, <2>1, <2>3
    <3>2. CASE i <= busy_num
      BY <1>c, <2>1, <2>3, <2>5, <3>1, <3>2
    <3>3. CASE i > busy_num
      <4>1. i - busy_num \in 1 .. len /\ busy_num + ((i - busy_num) - 1) = i - 1
        BY <2>1, <3>3
      <4>2. buffer[Ahead(rpos, busy_num + ((i - busy_num) - 1))] = data[t][i - busy_num]
        BY <2>1, <4>1
      <4> QED
        BY SMTT(30), <2>1, <2>5, <3>1, <3>3, <4>1, <4>2
    <3>4. i <= busy_num \/ i > busy_num
      BY <2>1
    <3> QED
      BY <3>2, <3>3, <3>4
  <2>7. Content' = Content \o data[t]
    BY <1>d, <2>1, <2>5, <2>6, SeqEqual
  <2>8. Queue!Put(data[t])
    BY <1>c, <2>1, <2>4, <2>7 DEF Queue!Put
  <2> QED
    BY <2>1, <2>8 DEF Queue!Next
<1>6. ASSUME NEW t \in Threads, StoreBusy(t), call[t].op # "write"
      PROVE  Queue!Next
  <2> DEFINE len == call[t].len
  <2>1. /\ call[t].op \in {"read", "skip"} /\ Updates(t)
        /\ len \in 1 .. busy_num /\ busy_num \in 0 .. buffer_size
        /\ len \in 1 .. buffer_size /\ rpos \in Slots
        /\ busy_num' = busy_num - len
        /\ UNCHANGED <<buffer, rpos>>
        /\ reply' = data[t]
        /\ call[t].op = "skip" => data[t] = <<>>
        /\ call[t].op = "read" =>
              /\ data[t] \in [1 .. len -> Bytes]
              /\ \A i \in 1 .. len :
                    data[t][i] = buffer[Ahead(Behind(rpos, len), i - 1)]
    <3>1. /\ call[t].op \in {"read", "skip"} /\ Updates(t)
          /\ busy_num \in 0 .. buffer_size
          /\ len \in 1 .. buffer_size /\ rpos \in Slots
      BY <1>6 DEF StoreBusy, BufferInv, TypeOK, CallInv, Updates
    <3>2. /\ busy_num' = busy_num - len
          /\ UNCHANGED <<buffer, rpos>>
          /\ reply' = data[t]
      BY <1>6, NewBusy DEF StoreBusy, Leave
    <3>3. /\ call[t].op = "skip" => data[t] = <<>>
          /\ call[t].op = "read" => data[t] \in [1 .. len -> Bytes]
      BY <3>1 DEF BufferInv, CallInv
    <3>4. /\ len <= busy_num
          /\ call[t].op = "read" => \A i \in 1 .. len :
                data[t][i] = buffer[Ahead(Behind(rpos, len), i - 1)]
      BY <3>1 DEF BufferInv, ReadInv
    <3> QED
      BY <3>1, <3>2, <3>3, <3>4
  <2>2. \A u \in Threads : pc[u] # "idle" => u = t
    BY <1>6, OneInside DEF StoreBusy, BufferInv
  <2>3. ~Updating({"read", "skip"})'
    BY <1>6, <2>2 DEF StoreBusy, Leave, Updating, BufferInv, TypeOK
  <2>4. \A i \in 1 .. busy_num :
            Content[i] = buffer[Ahead(Behind(rpos, len), i - 1)]
    BY <1>i, <2>1 DEF ContentInv
  <2>5. /\ Queue!Newer(len) \in Seq(Bytes)
        /\ Len(Queue!Newer(len)) = busy_num - len
        /\ \A i \in 1 .. busy_num - len : Queue!Newer(len)[i] = Content[len + i]
        /\ Queue!Oldest(len) \in Seq(Bytes)
        /\ Len(Queue!Oldest(len)) = len
        /\ \A i \in 1 .. len : Queue!Oldest(len)[i] = Content[i]
    BY <1>c, <2>1, QueueParts
  <2>7. ASSUME NEW i \in 1 .. busy_num - len
        PROVE  Content'[i] = Queue!Newer(len)[i]
    <3>1. Content'[i] = buffer[Ahead(rpos, i - 1)]
      BY <1>d, <2>1, <2>3, <2>7
    <3>2. len + i \in 1 .. busy_num /\ (len + i) - 1 = len + (i - 1)
      BY SMTT(30), <2>1, <2>7
    <3>3. Content[len + i] = buffer[Ahead(Behind(rpos, len), len + (i - 1))]
      BY <2>4, <3>2
    <3>4. Ahead(Behind(rpos, len), len + (i - 1)) = Ahead(rpos, i - 1)
      <4>1. /\ len \in 0 .. buffer_size /\ i - 1 \in 0 .. buffer_size
            /\ len + (i - 1) <= buffer_size
        BY <2>1, <2>7
      <4>2. Behind(rpos, len) \in Slots /\ Ahead(Behind(rpos, len), len) = rpos
        BY <2>1, <4>1, AheadAhead
      <4> QED
        BY <4>1, <4>2, AheadAhead
    <3> QED
      BY <2>5, <2>7, <3>1, <3>3, <3>4
  <2>8. Content' = Queue!Newer(len)
    <3>1. Len(Content') = Len(Queue!Newer(len))
      BY <1>d, <2>1, <2>5
    <3>2. \A i \in 1 .. Len(Content') : Content'[i] = Queue!Newer(len)[i]
      BY <1>d, <2>1, <2>7
    <3> QED
      BY <1>d, <2>5, <3>1, <3>2, SeqEqual, Zenon
  <2>9. CASE call[t].op = "skip"
    <3>1. Queue!Drop(len)
      BY <2>1, <2>8, <2>9 DEF Queue!Drop
    <3> QED
      BY <1>c, <2>1, <3>1 DEF Queue!Next
  <2>10. CASE call[t].op = "read"
    <3>1. data[t] \in Seq(Bytes) /\ Len(data[t]) = len
      <4>1. len \in Nat /\ data[t] \in [1 .. len -> Bytes]
        BY <2>1, <2>10
      <4> QED
        BY <4>1, FunctionIsSeq, Zenon
    <3>2. \A i \in 1 .. len : data[t][i] = Queue!Oldest(len)[i]
      BY <2>1, <2>4, <2>5, <2>10
    <3>3. data[t] = Queue!Oldest(len)
      BY ZenonT(40), <2>5, <3>1, <3>2, SeqEqual
    <3>4. Queue!Take(len)
      BY <2>1, <2>8, <3>3 DEF Queue!Take
    <3> QED
      BY <1>c, <2>1, <3>4 DEF Queue!Next
  <2> QED
    BY <2>1, <2>9, <2>10
<1>7. ASSUME NEW t \in Threads, Get(t)
      PROVE  Queue!Next
  <2> DEFINE len == call[t].len
             bytes == [i \in 1 .. len |-> buffer[SlotOf(rpos, len, i)]]
  <2>1. /\ call[t].op = "get" /\ pc[t] = "check" /\ len \in 1 .. busy_num
        /\ busy_num \in 0 .. buffer_size /\ len \in 1 .. buffer_size
        /\ rpos \in Slots /\ buffer \in [Slots -> Bytes]
        /\ UNCHANGED <<buffer, wpos, rpos, busy_num>>
        /\ reply' = bytes
        /\ pc' = [pc EXCEPT ![t] = "idle"]
    BY <1>7, RefusedMeans DEF Get, Leave, BufferInv, TypeOK, CallInv
  <2>2. \A u \in Threads \ {t} : pc[u] = "idle"
    BY <2>1, OneInside DEF BufferInv
  <2>3. ~Updating({"read", "skip"}) /\ ~Updating({"read", "skip"})'
    BY <2>1, <2>2 DEF Updating, BufferInv, TypeOK
  <2>4. Content' = Content
    BY <2>1, <2>3, ContentKept
  <2>5. \A i \in 1 .. len :
            bytes[i] = buffer[Ahead(rpos, i - 1)] /\ bytes[i] \in Bytes
    BY <2>1, SlotIsAhead
  <2>6. bytes \in Seq(Bytes) /\ Len(bytes) = len
    <3>1. bytes \in [1 .. len -> Bytes]
      BY <2>5
    <3>2. len \in Nat
      BY <2>1
    <3> QED
      BY <3>1, <3>2, FunctionIsSeq, ZenonT(40)
  <2>7. /\ Queue!Oldest(len) \in Seq(Bytes)
        /\ Len(Queue!Oldest(len)) = len
        /\ \A i \in 1 .. len : Queue!Oldest(len)[i] = Content[i]
    BY <1>c, <2>1, QueueParts
  <2>8. ASSUME NEW i \in 1 .. len
        PROVE  bytes[i] = Queue!Oldest(len)[i]
    <3>1. i \in 1 .. busy_num
      BY <2>1
    <3>2. Content[i] = buffer[Ahead(rpos, i - 1)]
      BY <1>c, <2>3, <3>1
    <3> QED
      BY <2>5, <2>7, <3>2
  <2>9. bytes = Queue!Oldest(len)
    BY <2>6, <2>7, <2>8, SeqEqual
  <2>10. Queue!Peek(len)
    BY <2>1, <2>4, <2>9 DEF Queue!Peek
  <2> QED
    BY <1>c, <2>1, <2>10 DEF Queue!Next
<1>8. ASSUME NEW t \in Threads, Clear(t)
      PROVE  Queue!Next
  <2>1. Content' = <<>>
    BY <1>8, <1>d, EmptySeq DEF Clear
  <2> QED
    BY <1>8, <2>1 DEF Clear, Queue!Clear, Queue!Next
<1>9. CASE UNCHANGED vars
  <2>1. Updating({"read", "skip"})' <=> Updating({"read", "skip"})
    BY <1>9 DEF vars, Updating
  <2> QED
    BY <1>9, <2>1, ContentKept DEF vars
<1> QED
  BY <1>1, <1>2, <1>3, <1>4, <1>5, <1>6, <1>7, <1>8, <1>9 DEF Next

(* The ring buffer implements the first-in first-out queue of bytes: with  *)
(* islock, or one thread, what is read is what was written, in order, and  *)
(* each call moves all of its bytes or none.                               *)
THEOREM BufferImplementsQueue ==
    ASSUME Exclusive
    PROVE  Spec => ImplementsByteQueue
<1>1. Init => Queue!Init
  <2> SUFFICES ASSUME Init PROVE Queue!Init
    OBVIOUS
  <2>1. Content = <<>>
    BY DEF Init, Content
  <2> QED
    BY <2>1 DEF Init, Queue!Init
<1>2. BufferInv /\ BufferInv' /\ [Next]_vars => [Queue!Next]_(Queue!vars)
  BY QueueStep
<1> QED
  BY <1>1, <1>2, InvCorrect, PTL DEF Spec, ImplementsByteQueue, Queue!Spec

=============================================================================
