------------------------------ MODULE SkBuffer ------------------------------
(***************************************************************************)
(* The growing socket buffer zbaselib_skbuffer of zbaselib_socket.c, in    *)
(* front of a socket, shared by threads under its mutex (lock # 0).        *)
(*                                                                         *)
(* write, read, get, skip and clear hold the mutex for one step.  recv,    *)
(* udp_recv and send hold it while they are inside recv and send of the    *)
(* socket, that is for as long as the peer lets them, and other threads    *)
(* cannot start a call meanwhile.                                          *)
(*                                                                         *)
(* The buffer is linear: data_size bytes from rpos to wpos.  What is in    *)
(* front of rpos is regained by moving the data to the beginning; a buffer *)
(* that is still too small grows by half of its size and what is needed,   *)
(* unless it has become larger than buf_max_size.                          *)
(***************************************************************************)
EXTENDS Integers, Sequences

CONSTANTS
    Threads, NoThread,
    Bytes,
    Junk,        \* what calloc and realloc leave in new memory
    BufSize,     \* the arguments buf_size and buf_max_size of create
    BufMaxSize,
    SndBuf,      \* sock_snd_buf_size
    MinNum,      \* ZBASELIB_SKBUFFER_MIN_NUM
    MaxLen       \* bound: bytes that one call asks for

ASSUME SkBufferAssumption ==
    /\ NoThread \notin Threads /\ Junk \notin Bytes
    /\ BufSize \in Nat \ {0} /\ BufMaxSize \in Nat
    /\ SndBuf \in Nat \ {0} /\ MinNum \in Nat \ {0} /\ MaxLen \in Nat \ {0}

VARIABLES
    buf,         \* the memory; its length is buf_size
    data_size, rpos, wpos,
    mutex,
    pc,          \* where each thread is
    udp,         \* is the recv under way that of udp_recv?
    nleft,       \* what the sendn under way has still to send
    sent,        \* history: the bytes it has put on the wire
    reply        \* history: the bytes the last call took or looked at

posVars  == <<data_size, rpos, wpos>>
sockVars == <<udp, nleft, sent>>
vars == <<buf, posVars, mutex, pc, sockVars, reply>>

buf_size == Len(buf)
buf_max_size == IF BufMaxSize > BufSize THEN BufMaxSize ELSE 4 * BufSize

Smaller(a, b) == IF a < b THEN a ELSE b
Larger(a, b)  == IF a > b THEN a ELSE b

(* The largest size a buffer that may still grow can grow to.              *)
Largest == buf_max_size + buf_max_size \div 2 + Larger(MaxLen, MinNum)

Content == SubSeq(buf, rpos + 1, rpos + data_size)

-----------------------------------------------------------------------------
(* The memory *)

(* memmove of the data to the beginning.                                   *)
NotMoved_Moved == buf
Moved == [i \in 1 .. buf_size |->
             IF i <= data_size THEN buf[rpos + i] ELSE buf[i]]

(* realloc: the new bytes are indeterminate.                               *)
Grown(memory, more) ==
    memory \o [i \in 1 .. (Len(memory) \div 2 + more) |-> Junk]

Stored(memory, pos, bytes) ==
    [i \in 1 .. Len(memory) |->
        IF i > pos /\ i <= pos + Len(bytes) THEN bytes[i - pos] ELSE memory[i]]

MayGrow == buf_size <= buf_max_size

(* The positions after n bytes were consumed: both go back to the          *)
(* beginning when the buffer has become empty.                             *)
NoReset_Consume(n) ==
    /\ data_size' = data_size - n
    /\ rpos' = IF data_size = n THEN 0 ELSE rpos + n
    /\ wpos' = wpos
Consume(n) ==
    /\ data_size' = data_size - n
    /\ IF data_size = n /\ rpos + n = wpos
       THEN rpos' = 0 /\ wpos' = 0
       ELSE rpos' = rpos + n /\ wpos' = wpos

-----------------------------------------------------------------------------
(* write *)

(* Free space in front of the data is used first.                          *)
MovesFor(n) == wpos + n > buf_size /\ rpos > 0

Begin(n) == IF MovesFor(n) THEN 0 ELSE rpos
End(n)   == IF MovesFor(n) THEN wpos - rpos ELSE wpos

TooSmallFor(n) == End(n) + n > buf_size

Write(t, bytes) ==
    /\ pc[t] = "idle" /\ mutex = NoThread
    /\ LET n      == Len(bytes)
           memory == IF MovesFor(n) THEN Moved ELSE buf
           room   == IF TooSmallFor(n) THEN Grown(memory, n) ELSE memory
       IN  /\ TooSmallFor(n) => MayGrow
           /\ buf' = Stored(room, End(n), bytes)
           /\ rpos' = Begin(n)
           /\ wpos' = End(n) + n
           /\ data_size' = data_size + n
    /\ reply' = <<>>
    /\ UNCHANGED <<mutex, pc, sockVars>>

(* Returns -2; the data may have been moved.                               *)
WriteRefused(t, n) ==
    /\ pc[t] = "idle" /\ mutex = NoThread
    /\ TooSmallFor(n) /\ ~MayGrow
    /\ buf' = IF MovesFor(n) THEN Moved ELSE buf
    /\ rpos' = Begin(n)
    /\ wpos' = End(n)
    /\ UNCHANGED <<data_size, mutex, pc, sockVars, reply>>

-----------------------------------------------------------------------------
(* read, get, skip, clear *)

Read(t, size) ==
    /\ pc[t] = "idle" /\ mutex = NoThread
    /\ data_size > 0
    /\ reply' = SubSeq(Content, 1, Smaller(size, data_size))
    /\ Consume(Smaller(size, data_size))
    /\ UNCHANGED <<buf, mutex, pc, sockVars>>

Get(t, size) ==
    /\ pc[t] = "idle" /\ mutex = NoThread
    /\ data_size > 0
    /\ reply' = SubSeq(Content, 1, Smaller(size, data_size))
    /\ UNCHANGED <<buf, posVars, mutex, pc, sockVars>>

Skip(t, size) ==
    /\ pc[t] = "idle" /\ mutex = NoThread
    /\ data_size > 0
    /\ reply' = <<>>
    /\ Consume(Smaller(size, data_size))
    /\ UNCHANGED <<buf, mutex, pc, sockVars>>

Clear(t) ==
    /\ pc[t] = "idle" /\ mutex = NoThread
    /\ rpos' = 0 /\ wpos' = 0 /\ data_size' = 0
    /\ reply' = <<>>
    /\ UNCHANGED <<buf, mutex, pc, sockVars>>

-----------------------------------------------------------------------------
(* recv and udp_recv *)

RecvCall(t, isUdp) ==
    /\ pc[t] = "idle" /\ mutex = NoThread
    /\ mutex' = t
    /\ udp' = isUdp
    /\ pc' = [pc EXCEPT ![t] = "room"]
    /\ UNCHANGED <<buf, posVars, nleft, sent, reply>>

Full == wpos >= buf_size

(* Makes room if the write position has reached the end.                   *)
MakeRoom(t) ==
    /\ pc[t] = "room"
    /\ \/ ~Full /\ UNCHANGED <<buf, rpos, wpos>>
       \/ Full /\ rpos > 0 /\ buf' = Moved /\ rpos' = 0 /\ wpos' = wpos - rpos
       \/ /\ Full /\ rpos = 0 /\ MayGrow
          /\ buf' = Grown(buf, MinNum)
          /\ UNCHANGED <<rpos, wpos>>
    /\ pc' = [pc EXCEPT ![t] = "receiving"]
    /\ UNCHANGED <<data_size, mutex, sockVars, reply>>

(* The call is over: a thread gives the mutex back.                        *)
KeepsLock_Over(t) == mutex' = mutex /\ pc' = [pc EXCEPT ![t] = "idle"]
Over(t) == mutex' = NoThread /\ pc' = [pc EXCEPT ![t] = "idle"]

(* Returns -3; udp_recv leaves what it has received before.                *)
RecvRefused(t) ==
    /\ pc[t] = "room"
    /\ Full /\ rpos = 0 /\ ~MayGrow
    /\ Over(t)
    /\ udp' = FALSE
    /\ UNCHANGED <<buf, posVars, nleft, sent, reply>>

(* The socket returns bytes: recv is done with them, udp_recv goes on.     *)
RecvBytes(t, bytes) ==
    /\ pc[t] = "receiving"
    /\ Len(bytes) <= buf_size - wpos
    /\ buf' = Stored(buf, wpos, bytes)
    /\ wpos' = wpos + Len(bytes)
    /\ data_size' = data_size + Len(bytes)
    /\ IF udp THEN pc' = [pc EXCEPT ![t] = "room"] /\ UNCHANGED mutex
              ELSE Over(t)
    /\ reply' = <<>>
    /\ UNCHANGED <<rpos, sockVars>>

(* The socket has nothing to read, is closed by the peer or has failed.    *)
RecvEnds(t) ==
    /\ pc[t] = "receiving"
    /\ Over(t)
    /\ udp' = FALSE
    /\ UNCHANGED <<buf, posVars, nleft, sent, reply>>

-----------------------------------------------------------------------------
(* send *)

(* One send offers the socket at most its send buffer size.                *)
ToSend == Smaller(data_size, SndBuf)

SendCall(t) ==
    /\ pc[t] = "idle" /\ mutex = NoThread
    /\ data_size > 0
    /\ mutex' = t
    /\ nleft' = ToSend
    /\ pc' = [pc EXCEPT ![t] = "sending"]
    /\ UNCHANGED <<buf, posVars, udp, sent, reply>>

(* One turn of the loop of sendn: the socket takes n bytes of those left.  *)
(* A turn in which it takes none for now sleeps and changes nothing.       *)
SendSome(t, n) ==
    /\ pc[t] = "sending"
    /\ n <= nleft
    /\ sent' = sent \o SubSeq(buf, rpos + Len(sent) + 1, rpos + Len(sent) + n)
    /\ nleft' = nleft - n
    /\ UNCHANGED <<buf, posVars, mutex, pc, udp, reply>>

SendDone(t) ==
    /\ pc[t] = "sending"
    /\ nleft = 0
    /\ Consume(Len(sent))
    /\ reply' = sent
    /\ sent' = <<>>
    /\ Over(t)
    /\ UNCHANGED <<buf, udp, nleft>>

(* The socket fails: -1, and the bytes sent so far stay in the buffer.     *)
SendFails(t) ==
    /\ pc[t] = "sending"
    /\ nleft > 0
    /\ nleft' = 0
    /\ sent' = <<>>
    /\ Over(t)
    /\ UNCHANGED <<buf, posVars, udp, reply>>

-----------------------------------------------------------------------------
Init ==
    /\ buf = [i \in 1 .. BufSize |-> Junk]
    /\ data_size = 0 /\ rpos = 0 /\ wpos = 0
    /\ mutex = NoThread
    /\ pc = [t \in Threads |-> "idle"]
    /\ udp = FALSE /\ nleft = 0 /\ sent = <<>>
    /\ reply = <<>>

Next == \E t \in Threads :
    \/ \E n \in 1 .. MaxLen :
          \/ \E bytes \in [1 .. n -> Bytes] : Write(t, bytes)
          \/ WriteRefused(t, n) \/ Read(t, n) \/ Get(t, n) \/ Skip(t, n)
    \/ Clear(t)
    \/ \E isUdp \in BOOLEAN : RecvCall(t, isUdp)
    \/ MakeRoom(t) \/ RecvRefused(t) \/ RecvEnds(t)
    \/ \E n \in 1 .. MaxLen : \E bytes \in [1 .. n -> Bytes] : RecvBytes(t, bytes)
    \/ SendCall(t) \/ SendDone(t) \/ SendFails(t)
    \/ \E n \in 1 .. SndBuf : SendSome(t, n)

Spec == Init /\ [][Next]_vars

-----------------------------------------------------------------------------
(* Properties *)

TypeOK ==
    /\ buf \in Seq(Bytes \cup {Junk})
    /\ data_size \in Nat /\ rpos \in Nat /\ wpos \in Nat
    /\ mutex \in Threads \cup {NoThread}
    /\ pc \in [Threads -> {"idle", "room", "receiving", "sending"}]
    /\ udp \in BOOLEAN
    /\ nleft \in 0 .. SndBuf
    /\ sent \in Seq(Bytes)
    /\ reply \in Seq(Bytes)

(* The mutex is held by the thread that is inside the socket, and given    *)
(* back on every way out of recv, udp_recv and send.                       *)
LockedInSocket == \A t \in Threads : pc[t] # "idle" <=> mutex = t

(* Moving, growing, consuming and clearing keep the data between the two   *)
(* positions, inside the memory.                                           *)
PositionsAgree == TypeOK /\ wpos = rpos + data_size /\ wpos <= buf_size

(* recv is never called with a length of 0, whose return value 0 would be  *)
(* taken for a peer that has closed the connection.                        *)
RoomToReceive ==
    \A t \in Threads : pc[t] = "receiving" => buf_size - wpos > 0

(* A call that is inside the socket has the mutex and a place to receive.  *)
SafeInSocket == LockedInSocket /\ RoomToReceive

(* The buffer outgrows buf_max_size once at most, by a growth that began   *)
(* below it: no sequence of calls makes it larger than Largest.            *)
GrowthBounded == buf_size <= Largest

(* The memory is large enough for the data, and no larger than it may be.  *)
MemoryFits == PositionsAgree /\ GrowthBounded

Queue == INSTANCE ByteQueue WITH
    Capacity <- Largest, content <- Content, reply <- reply

(* The buffer is a first-in first-out queue of bytes: what read and send   *)
(* take is what write and recv stored, in order, however the data was      *)
(* moved, the memory grown or the calls of other threads interleaved while *)
(* sendn was sending from the buffer.                                      *)
ImplementsByteQueue == Queue!Spec

(* zbaselib_socket.h on buf_max_size: when the space has reached it, it is *)
(* not enlarged any more.                                                  *)
NoGrowthAtMax ==
    [][buf_size >= buf_max_size => Len(buf') = buf_size]_vars
=============================================================================
