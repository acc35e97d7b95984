------------------------------- MODULE Buffer -------------------------------
(***************************************************************************)
(* The ring buffer of zbaselib_buffer.c.                                   *)
(*                                                                         *)
(* Threads write, read, skip, get (read without consuming) and clear.  The *)
(* buffer locks every operation if it was created with islock # 0; without *)
(* it, the steps of operations of different threads may interleave.  An    *)
(* operation checks that the bytes fit or are there, copies them and moves *)
(* its position, and then updates busy_num, a load and a store.            *)
(*                                                                         *)
(* Sums of unsigned ints are taken modulo Modulus, 2^32 in the code.       *)
(***************************************************************************)
EXTENDS Integers, Sequences

CONSTANTS
    Threads, NoThread,
    Bytes,          \* what the buffer stores
    buffer_size,
    islock,
    Modulus,        \* 2^32: unsigned int
    Ops             \* which operations each thread calls

ASSUME BufferAssumption ==
    /\ NoThread \notin Threads
    /\ buffer_size \in Nat \ {0} /\ Modulus \in Nat
    /\ 2 * buffer_size <= Modulus
    /\ islock \in BOOLEAN
    /\ Ops \in [Threads -> SUBSET {"write", "read", "skip", "get", "clear"}]

VARIABLES
    buffer, wpos, rpos, busy_num,
    mutex,
    pc,      \* where each thread is
    call,    \* the operation each thread is in: its name and data_len
    data,    \* the bytes to write, or the bytes read
    loaded,  \* the busy_num a thread has loaded to update it
    reply    \* history: the bytes the last finished operation returned

vars == <<buffer, wpos, rpos, busy_num, mutex, pc, call, data, loaded, reply>>

Slots   == 0 .. buffer_size - 1
Sum(a, b)  == (a + b) % Modulus
Diff(a, b) == (a - b) % Modulus
NoCall  == [op |-> "none", len |-> 0]

(* ZBUFFER_LOCK and ZBUFFER_UNLOCK. *)
TakeLock(t) == IF islock THEN mutex = NoThread /\ mutex' = t
                         ELSE UNCHANGED mutex
GiveLock    == mutex' = IF islock THEN NoThread ELSE mutex

(* The two cases of each operation: len bytes from pos on end at the end   *)
(* of the buffer or before, or wrap around.                                *)
Fits(pos, len) == Sum(pos, len) <= buffer_size

ToStart_Advance(pos, len) ==
    IF Sum(pos, len) < buffer_size THEN Sum(pos, len) ELSE 0
Advance(pos, len) ==
    IF Fits(pos, len)
    THEN IF Sum(pos, len) = buffer_size THEN 0 ELSE Sum(pos, len)
    ELSE Diff(Sum(len, pos), buffer_size)

(* The slot of the i-th byte, 1 <= i <= len: those that do not fit behind  *)
(* pos go to, or come from, the beginning of the buffer.                   *)
SlotOf(pos, len, i) ==
    IF Fits(pos, len) \/ i <= buffer_size - pos
    THEN pos + i - 1
    ELSE i - 1 - (buffer_size - pos)

-----------------------------------------------------------------------------
Enter(t, op, bytes, len) ==
    /\ pc[t] = "idle"
    /\ TakeLock(t)
    /\ call' = [call EXCEPT ![t] = [op |-> op, len |-> len]]
    /\ data' = [data EXCEPT ![t] = bytes]
    /\ pc' = [pc EXCEPT ![t] = "check"]
    /\ UNCHANGED <<buffer, wpos, rpos, busy_num, loaded, reply>>

(* Calls with data_len = 0 return -1 before they lock.                     *)
EnterWrite(t) ==
    /\ "write" \in Ops[t]
    /\ \E len \in 1 .. buffer_size : \E bytes \in [1 .. len -> Bytes] :
          Enter(t, "write", bytes, len)

EnterRead(t) ==
    \E op \in Ops[t] \cap {"read", "skip", "get"}, len \in 1 .. buffer_size :
        Enter(t, op, <<>>, len)

(* The operation ends: the mutex is given back, the caller has its result. *)
Leave(t, bytes) ==
    /\ GiveLock
    /\ reply' = bytes
    /\ call' = [call EXCEPT ![t] = NoCall]
    /\ data' = [data EXCEPT ![t] = <<>>]
    /\ loaded' = [loaded EXCEPT ![t] = 0]
    /\ pc' = [pc EXCEPT ![t] = "idle"]

(* What write finds free, and what it takes for too much.                  *)
OffByOne_TooMuch(len) == len > Diff(buffer_size, busy_num) + 1
TooMuch(len) == len > Diff(buffer_size, busy_num)

Refused(t) ==
    IF call[t].op = "write" THEN TooMuch(call[t].len)
                            ELSE busy_num < call[t].len

(* Returns -2.                                                             *)
Refuse(t) ==
    /\ pc[t] = "check"
    /\ Refused(t)
    /\ GiveLock
    /\ call' = [call EXCEPT ![t] = NoCall]
    /\ data' = [data EXCEPT ![t] = <<>>]
    /\ pc' = [pc EXCEPT ![t] = "idle"]
    /\ UNCHANGED <<buffer, wpos, rpos, busy_num, loaded, reply>>

CopyIn(t) ==
    /\ pc[t] = "check"
    /\ ~Refused(t)
    /\ call[t].op = "write"
    /\ LET len == call[t].len
       IN  /\ buffer' = [s \in Slots |->
                 IF \E i \in 1 .. len : SlotOf(wpos, len, i) = s
                 THEN data[t][CHOOSE i \in 1 .. len : SlotOf(wpos, len, i) = s]
                 ELSE buffer[s]]
           /\ wpos' = Advance(wpos, len)
    /\ pc' = [pc EXCEPT ![t] = "load"]
    /\ UNCHANGED <<rpos, busy_num, mutex, call, data, loaded, reply>>

CopyOut(t) ==
    /\ pc[t] = "check"
    /\ ~Refused(t)
    /\ call[t].op \in {"read", "skip"}
    /\ LET len == call[t].len
       IN  /\ data' = [data EXCEPT ![t] =
                 IF call[t].op = "skip" THEN <<>>
                 ELSE [i \in 1 .. len |-> buffer[SlotOf(rpos, len, i)]]]
           /\ rpos' = Advance(rpos, len)
    /\ pc' = [pc EXCEPT ![t] = "load"]
    /\ UNCHANGED <<buffer, wpos, busy_num, mutex, call, loaded, reply>>

(* busy_num += data_len, or -= data_len.                                   *)
LoadBusy(t) ==
    /\ pc[t] = "load"
    /\ loaded' = [loaded EXCEPT ![t] = busy_num]
    /\ pc' = [pc EXCEPT ![t] = "store"]
    /\ UNCHANGED <<buffer, wpos, rpos, busy_num, mutex, call, data, reply>>

StoreBusy(t) ==
    /\ pc[t] = "store"
    /\ busy_num' = IF call[t].op = "write" THEN Sum(loaded[t], call[t].len)
                   ELSE Diff(loaded[t], call[t].len)
    /\ Leave(t, IF call[t].op = "write" THEN <<>> ELSE data[t])
    /\ UNCHANGED <<buffer, wpos, rpos>>

Get(t) ==
    /\ pc[t] = "check"
    /\ ~Refused(t)
    /\ call[t].op = "get"
    /\ LET len == call[t].len
       IN  Leave(t, [i \in 1 .. len |-> buffer[SlotOf(rpos, len, i)]])
    /\ UNCHANGED <<buffer, wpos, rpos, busy_num>>

(* zbaselib_buffer_clear: one step with the lock.                          *)
Clear(t) ==
    /\ "clear" \in Ops[t]
    /\ pc[t] = "idle"
    /\ islock => mutex = NoThread
    /\ wpos' = 0 /\ rpos' = 0 /\ busy_num' = 0
    /\ reply' = <<>>
    /\ UNCHANGED <<buffer, mutex, pc, call, data, loaded>>

-----------------------------------------------------------------------------
Init ==
    /\ \E b \in Bytes : buffer = [s \in Slots |-> b]
    /\ wpos = 0 /\ rpos = 0 /\ busy_num = 0
    /\ mutex = NoThread
    /\ pc = [t \in Threads |-> "idle"]
    /\ call = [t \in Threads |-> NoCall]
    /\ data = [t \in Threads |-> <<>>]
    /\ loaded = [t \in Threads |-> 0]
    /\ reply = <<>>

Next == \E t \in Threads :
    \/ EnterWrite(t) \/ EnterRead(t) \/ Refuse(t) \/ CopyIn(t) \/ CopyOut(t)
    \/ LoadBusy(t) \/ StoreBusy(t) \/ Get(t) \/ Clear(t)

Spec == Init /\ [][Next]_vars

-----------------------------------------------------------------------------
(* Properties *)

BytesSeq == UNION {[1 .. n -> Bytes] : n \in 0 .. buffer_size}

TypeOK ==
    /\ buffer \in [Slots -> Bytes]
    /\ wpos \in Slots /\ rpos \in Slots
    /\ busy_num \in 0 .. buffer_size
    /\ mutex \in Threads \cup {NoThread}
    /\ pc \in [Threads -> {"idle", "check", "load", "store"}]
    /\ call \in [Threads -> [op : {"none", "write", "read", "skip", "get"},
                             len : 0 .. buffer_size]]
    /\ data \in [Threads -> BytesSeq]
    /\ loaded \in [Threads -> 0 .. buffer_size]
    /\ reply \in BytesSeq

(* The slot n bytes ahead of pos around the buffer.                        *)
Ahead(pos, n) ==
    IF pos + n < buffer_size THEN pos + n ELSE pos + n - buffer_size

(* Whenever no operation is under way, the write position is busy_num      *)
(* bytes ahead of the read position around the buffer.  The two positions  *)
(* alone cannot tell an empty buffer from a full one, so the three have to *)
(* agree after any sequence of operations.                                 *)
PositionsAgree ==
    /\ TypeOK
    /\ (\A t \in Threads : pc[t] = "idle") => wpos = Ahead(rpos, busy_num)

Updating(op) == \E t \in Threads : pc[t] \in {"load", "store"} /\ call[t].op \in op

(* The bytes in the buffer: busy_num of them from rpos on, or, when a read *)
(* has moved rpos and not yet busy_num, busy_num of them up to wpos.       *)
Content ==
    LET first == IF Updating({"read", "skip"}) THEN wpos - busy_num ELSE rpos
    IN  [i \in 1 .. busy_num |-> buffer[(first + i - 1) % buffer_size]]

Queue == INSTANCE ByteQueue WITH
    Capacity <- buffer_size, content <- Content, reply <- reply

(* With islock, or one thread, the buffer is a first-in first-out queue of *)
(* bytes: reads return the oldest bytes that were written and not consumed *)
(* yet, in order, across the wrap-around, and nothing that is refused or   *)
(* interleaved moves a part of its bytes.                                  *)
ImplementsByteQueue == Queue!Spec
=============================================================================
