----------------------------- MODULE Connection -----------------------------
(***************************************************************************)
(* A socket from its connection on: waitforconnect, the three loops that   *)
(* send, sendn, sendn_retry and udp_sendn, and recv, of zbaselib_socket.c, *)
(* with the kernel and a peer.                                             *)
(*                                                                         *)
(* The bytes to send are numbered.  A caller waits until it is told that   *)
(* it is connected, and then sends them by one call after the other: the   *)
(* next call begins behind what the last one has returned.  The kernel     *)
(* takes as many bytes as it has room for, or fewer, and the peer takes    *)
(* them from there.  A connection is used in one direction: the peer reads *)
(* all the time, it has stopped to read, or it writes.                     *)
(***************************************************************************)
EXTENDS Integers, Sequences, FiniteSets

CONSTANTS
    Total,        \* bytes to send, and to receive
    Sizes,        \* of the buffers that the calls are given
    Retries,      \* values of retry
    Room,         \* bytes the kernel takes before the peer has to read
    MaxInterrupts \* bound: signals that interrupt a call

ASSUME ConnectionAssumption ==
    /\ Total \in Nat /\ Sizes \subseteq 1 .. Total /\ Retries \subseteq Int
    /\ Room \in Nat \ {0} /\ MaxInterrupts \in Nat

VARIABLES
    os,           \* "posix" or "windows"
    peer,         \* "reads", has "stopped" to read, or "writes"
    link,         \* "connecting", "connected", "refused" or "broken" of TCP,
                  \* "udp"
    soError,      \* whether an error of the socket has not been fetched yet
    wait,         \* waitforconnect
    sending,      \* the call that sends
    sent,         \* how many bytes were sent, as the caller knows
    wire, taken,  \* the bytes in the kernel, and those the peer has read
    coming, got,  \* bytes from the peer, and how many recv has returned
    closed,       \* whether the peer has closed its end
    over,         \* whether recv has returned -1
    interrupts

connectionVars == <<os, peer, link, soError, wait, sending, sent, wire, taken,
                    coming, got, closed, over, interrupts>>

kernelVars  == <<link, soError>>
sendVars    == <<sending, sent, wire>>
receiveVars == <<coming, got, closed, over>>

Least(a, b) == IF a <= b THEN a ELSE b

-----------------------------------------------------------------------------
(* The connection, as the kernel sees it *)

Establish ==
    /\ link = "connecting" /\ link' = "connected"
    /\ UNCHANGED <<os, peer, soError, wait, sendVars, taken, receiveVars, interrupts>>

Refuse ==
    /\ link = "connecting" /\ link' = "refused" /\ soError' = TRUE
    /\ UNCHANGED <<os, peer, wait, sendVars, taken, receiveVars, interrupts>>

Break ==
    /\ link = "connected" /\ link' = "broken" /\ soError' = TRUE
    /\ UNCHANGED <<os, peer, wait, sendVars, taken, receiveVars, interrupts>>

(* select reports a socket as writable that is connected or has failed; on *)
(* Windows one that could not connect is reported in another set.          *)
Writable ==
    \/ link \in {"connected", "broken"}
    \/ link = "refused" /\ os = "posix"

-----------------------------------------------------------------------------
(* zbaselib_socket_waitforconnect: select, and on POSIX systems then       *)
(* SO_ERROR, which is cleared when it is fetched.                          *)

NotWaiting == [step |-> "idle", ready |-> FALSE, result |-> -1,
               linked |-> FALSE,     \* history: whether there was a connection
               swallowed |-> FALSE]  \* history: whether a call that failed has
                                     \* fetched the error

Wait ==
    /\ link # "udp" /\ wait.step = "idle" /\ wait.result = -1
    /\ \E ready \in {Writable, FALSE} :     \* FALSE: a signal, or a timeout
          wait' = IF os = "posix" THEN [wait EXCEPT !.step = "error", !.ready = ready]
                  ELSE [wait EXCEPT !.result = IF ready THEN 0 ELSE -1,
                                    !.linked = link \in {"connected", "broken"}]
    /\ UNCHANGED <<os, peer, kernelVars, sendVars, taken, receiveVars, interrupts>>

Ignored_Accepts(ready, error) == ready
Accepts(ready, error) == ready /\ ~error

FetchError ==
    /\ wait.step = "error"
    /\ soError' = FALSE
    /\ wait' = [wait EXCEPT !.step = "idle",
                            !.result = IF Accepts(wait.ready, soError) THEN 0 ELSE -1,
                            !.linked = link \in {"connected", "broken"},
                            !.swallowed = @ \/ (soError /\ ~Accepts(wait.ready, soError))]
    /\ UNCHANGED <<os, peer, link, sendVars, taken, receiveVars, interrupts>>

-----------------------------------------------------------------------------
(* The loops that send *)

NotSending == [call |-> "none", size |-> 0, nleft |-> 0, retry |-> 0]

Dead == -1        \* sent, after a call has returned -1

Ready == (link = "udp" \/ (wait.step = "idle" /\ wait.result = 0)) /\ sent # Dead

Calls == IF link = "udp" THEN {"udp_sendn"} ELSE {"sendn", "sendn_retry"}

Send(call, size, retry) ==
    /\ Ready /\ sending = NotSending /\ peer # "writes"
    /\ call \in Calls /\ sent + size <= Total
    /\ call = "sendn_retry" \/ retry = 0
    /\ sending' = [call |-> call, size |-> size, nleft |-> size, retry |-> retry]
    /\ UNCHANGED <<os, peer, kernelVars, wait, sent, wire, taken, receiveVars, interrupts>>

SendReturns(s, r) ==
    sending' = NotSending /\ sent' = IF r < 0 THEN Dead ELSE s + r

(* send and sendto: a datagram goes whole or not at all.                   *)
Amounts ==
    LET room == Room - Len(wire)
    IN  IF link = "connected" THEN 1 .. Least(sending.nleft, room)
        ELSE IF link = "udp" /\ sending.nleft <= room THEN {sending.nleft}
        ELSE {}

Stuck_NextByte == sent + 1
NextByte == sent + (sending.size - sending.nleft) + 1

Written(n) == [i \in 1 .. n |-> NextByte + i - 1]

Write ==
    /\ sending # NotSending
    /\ \E n \in Amounts :
          /\ wire' = wire \o Written(n)
          /\ IF n = sending.nleft THEN SendReturns(sent, sending.size)
             ELSE sending' = [sending EXCEPT !.nleft = @ - n] /\ UNCHANGED sent
    /\ UNCHANGED <<os, peer, kernelVars, wait, taken, receiveVars, interrupts>>

(* No room, or a signal: rw_wouldblock.  sendn and udp_sendn try again;    *)
(* that is a step only of the signal.                                      *)
Forgives_Counted(retry) == retry
Counted(retry) == retry - 1

TryAgain ==
    IF sending.call # "sendn_retry" THEN UNCHANGED <<sending, sent>>
    ELSE IF Counted(sending.retry) <= 0
    THEN SendReturns(sent, sending.size - sending.nleft)
    ELSE sending' = [sending EXCEPT !.retry = Counted(@)] /\ UNCHANGED sent

WouldBlock ==
    /\ sending # NotSending /\ link \in {"connected", "udp"}
    /\ \/ Amounts = {} /\ UNCHANGED interrupts
       \/ interrupts < MaxInterrupts /\ interrupts' = interrupts + 1
    /\ TryAgain
    /\ UNCHANGED <<os, peer, kernelVars, wait, wire, taken, receiveVars>>

(* The connection is gone, or a datagram is too large.                     *)
SendError ==
    /\ sending # NotSending
    /\ \/ link \in {"broken", "refused"}
       \/ link = "udp" /\ sending.nleft > Room
    /\ SendReturns(sent, -1)
    /\ UNCHANGED <<os, peer, kernelVars, wait, wire, taken, receiveVars, interrupts>>

Turn == Write \/ WouldBlock \/ SendError

(* The peer reads the next byte.                                           *)
PeerReads ==
    /\ peer = "reads" /\ wire # <<>>
    /\ taken' = Append(taken, Head(wire)) /\ wire' = Tail(wire)
    /\ UNCHANGED <<os, peer, kernelVars, wait, sending, sent, receiveVars, interrupts>>

-----------------------------------------------------------------------------
(* zbaselib_socket_recv *)

PeerWrites ==
    /\ peer = "writes" /\ link = "connected" /\ ~closed
    /\ \/ coming + got < Total /\ coming' = coming + 1 /\ UNCHANGED closed
       \/ closed' = TRUE /\ UNCHANGED coming
    /\ UNCHANGED <<os, peer, kernelVars, wait, sendVars, taken, got, over, interrupts>>

(* What the kernel's recv returns: bytes, 0 at the end, -1 if it would     *)
(* block or was interrupted, and -2 stands for -1 with any other error.    *)
Received(size) ==
    IF link \in {"broken", "refused"} THEN {-2}
    ELSE IF coming > 0 THEN 1 .. Least(size, coming)
    ELSE IF closed THEN {0}
    ELSE {-1}

IsOver(n) == n \in {0, -2}

Recv(size) ==
    /\ Ready /\ peer = "writes" /\ ~over
    /\ \E n \in Received(size) \cup IF interrupts < MaxInterrupts THEN {-1} ELSE {} :
          /\ over' = IsOver(n)
          /\ got' = IF n > 0 THEN got + n ELSE got
          /\ coming' = IF n > 0 THEN coming - n ELSE coming
          /\ interrupts' = IF n = -1 THEN Least(interrupts + 1, MaxInterrupts) ELSE interrupts
    /\ UNCHANGED <<os, peer, kernelVars, wait, sendVars, taken, closed>>

-----------------------------------------------------------------------------
ConnectionInit ==
    /\ os \in {"posix", "windows"}
    /\ peer \in {"reads", "stopped", "writes"}
    /\ link \in {"connecting", "udp"} /\ (peer = "writes" => link = "connecting")
    /\ soError = FALSE /\ wait = NotWaiting
    /\ sending = NotSending /\ sent = 0
    /\ wire = <<>> /\ taken = <<>>
    /\ coming = 0 /\ got = 0 /\ closed = FALSE /\ over = FALSE
    /\ interrupts = 0

ConnectionNext ==
    \/ Establish \/ Refuse \/ Break
    \/ Wait \/ FetchError
    \/ \E size \in Sizes :
          \/ \E call \in Calls, retry \in Retries \cup {0} : Send(call, size, retry)
          \/ Recv(size)
    \/ Turn
    \/ PeerReads \/ PeerWrites

ConnectionSpec == ConnectionInit /\ [][ConnectionNext]_connectionVars

(* The sender runs, and a peer that reads goes on reading.                 *)
ConnectionFairness ==
    /\ WF_connectionVars(Turn)
    /\ WF_connectionVars(PeerReads)

-----------------------------------------------------------------------------
(* Properties *)

Numbers(n) == [i \in 1 .. n |-> i]

(* What the peer has read and what is on the way are the first bytes of    *)
(* the message, none twice and none missing, whatever amounts the kernel   *)
(* took, however often a call was tried again or gave up, and whichever    *)
(* call follows another; between two calls they are as many as the calls   *)
(* have returned.  recv ends a connection only when the peer has closed it *)
(* and all was read, or when it is broken.                                 *)
StreamExact ==
    /\ taken \o wire = Numbers(Len(taken) + Len(wire))
    /\ sending = NotSending /\ sent # Dead => Len(taken) + Len(wire) = sent
    /\ over => (closed /\ coming = 0) \/ link \in {"broken", "refused"}

(* waitforconnect returns 0 only for a socket that was connected; but on   *)
(* POSIX systems also after an earlier call has returned -1 and has taken  *)
(* the error of the socket with it.                                        *)
WaitTruthful ==
    wait.result = 0 => wait.linked \/ (os = "posix" /\ wait.swallowed)

(* A call that sends returns, with all that was to be sent, with less or   *)
(* with an error; sendn_retry also if the peer has stopped to read, the    *)
(* others do not wait for anything but the peer.                           *)
SendsReturn ==
    sending # NotSending ~>
        sending = NotSending \/ (peer = "stopped" /\ sending.call # "sendn_retry")
=============================================================================
