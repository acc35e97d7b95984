---------------------------- MODULE Descriptors ----------------------------
(***************************************************************************)
(* The calls of zbaselib_socket.c and zbaselib_filemap.c that open         *)
(* descriptors, made by threads of one process.  The threads share the     *)
(* process's table of descriptors, in which a number is given out again as *)
(* soon as it was closed: a call that closes a number twice may close what *)
(* another thread has opened in between.                                   *)
(*                                                                         *)
(* A call is a sequence of system calls, each a step.  One that fails goes *)
(* to the place where the call closes what it has opened, "tidy".  System  *)
(* calls in a row that change nothing here are one step, and calls with    *)
(* the same steps are one: "open" is create_tcpclient, create_tcpserver    *)
(* and also a request that is done with its socket or file at once.        *)
(*                                                                         *)
(* What follows once a thread has closed somebody else's descriptor is not *)
(* modelled: the behaviour ends there.                                     *)
(***************************************************************************)
EXTENDS Integers, Sequences

CONSTANTS
    Openers,      \* the threads that open and close descriptors
    Handles,      \* the numbers of the table
    MaxPending    \* connections that wait to be accepted, at most

ASSUME DescriptorsAssumption ==
    /\ Handles \subseteq Nat /\ 0 \in Handles
    /\ MaxPending \in Nat \ {0}
    /\ "nobody" \notin Openers

VARIABLES
    platform,     \* "posix" or "windows"
    table,        \* what a number stands for: the thread and its variable
    run,          \* the call that a thread is in, and its variables
    stray,        \* history: the variable by which a thread closed what
                  \* another one had opened, or "none"
    flags         \* of the network interface that nic_up and nic_down change

descriptorVars == <<platform, table, run, stray, flags>>

Nics   == {"nic_up", "nic_down"}

None   == -1
Roles  == <<"listener", "connector", "acceptor", "sock", "file">>
RoleSet == {Roles[i] : i \in DOMAIN Roles}
Closed == <<>>

Idle == [call    |-> "none",
         step    |-> "none",
         slot    |-> [r \in RoleSet |-> None],
         pending |-> <<>>,     \* who waits to be accepted by the listener
         peer    |-> "nobody", \* who was accepted
         seen    |-> {},       \* ifr_flags
         before  |-> {},       \* history: the flags when the call began
         alone   |-> TRUE,     \* history: nobody else changed them since then
         done    |-> FALSE]    \* whether the call succeeded

Free   == {h \in Handles : table[h] = Closed}
Lowest == CHOOSE h \in Free : \A k \in Free : h <= k

At(t, call, step) ==
    stray = "none" /\ run[t].call = call /\ run[t].step = step

Goes(t, step) == run' = [run EXCEPT ![t].step = step]
Proceeds(t, step) == Goes(t, step) /\ UNCHANGED <<platform, table, stray, flags>>
Fails(t) ==
    /\ run' = [run EXCEPT ![t].step = "tidy", ![t].pending = <<>>,
                          ![t].peer = "nobody", ![t].seen = {}]
    /\ UNCHANGED <<platform, table, stray, flags>>

(* A new descriptor, kept in the variable role; there may be none left.    *)
Opens(t, role, step) ==
    /\ Free # {}
    /\ table' = [table EXCEPT ![Lowest] = <<t, role>>]
    /\ run' = [run EXCEPT ![t].slot[role] = Lowest, ![t].step = step]
    /\ UNCHANGED <<platform, stray, flags>>

(* The same at the beginning of a call.  If it fails, the call returns and *)
(* has changed nothing.                                                    *)
BeforeOf(call) == IF call \in Nics THEN flags ELSE {}

Begins(t, call, role, step) ==
    /\ Free # {}
    /\ table' = [table EXCEPT ![Lowest] = <<t, role>>]
    /\ run' = [run EXCEPT ![t] = [Idle EXCEPT !.call = call, !.slot[role] = Lowest,
                                              !.step = step, !.before = BeforeOf(call)]]
    /\ UNCHANGED <<platform, stray, flags>>

(* close with the number in the variable role, whatever it stands for now. *)
Closes(t, role) ==
    LET h == run[t].slot[role]
    IN  /\ table' = [table EXCEPT ![h] = Closed]
        /\ stray' = IF table[h] # Closed /\ table[h][1] # t THEN role ELSE stray

-----------------------------------------------------------------------------
(* Begin and end of a call *)

CallsOf(os) ==
    {"pair", "open"} \cup IF os = "posix" THEN {"nic_up", "nic_down", "map"} ELSE {}

Holds(t) == {r \in RoleSet : run[t].slot[r] # None}

(* A caller that holds no descriptor may call.                             *)
MayCall(t, call) ==
    /\ stray = "none" /\ run[t].call = "none" /\ Holds(t) = {}
    /\ call \in CallsOf(platform)

(* The caller has what is in the variables kept, and the others are gone.  *)
Returns(t, kept) ==
    run' = [run EXCEPT ![t] =
               [Idle EXCEPT !.slot = [r \in RoleSet |->
                                         IF r \in kept THEN run[t].slot[r] ELSE None],
                            !.peer = IF kept = {} THEN "nobody" ELSE run[t].peer]]

(* The end of every call that does not hand out what it has opened: the    *)
(* variables that hold a descriptor are closed, in order.                  *)
KeepsAcceptor_ToClose(t) == Holds(t) \ {"acceptor"}
ToClose(t) == Holds(t)

FirstToClose(t) ==
    Roles[CHOOSE i \in DOMAIN Roles :
             /\ Roles[i] \in ToClose(t)
             /\ \A j \in 1 .. i - 1 : Roles[j] \notin ToClose(t)]

Tidy(t) ==
    /\ stray = "none" /\ run[t].step = "tidy"
    /\ IF ToClose(t) # {}
       THEN /\ Closes(t, FirstToClose(t))
            /\ run' = [run EXCEPT ![t].slot[FirstToClose(t)] = None]
       ELSE Returns(t, {}) /\ UNCHANGED <<table, stray>>
    /\ UNCHANGED <<platform, flags>>

(* zbaselib_socket_close on a descriptor that a call has handed out.       *)
CloseHeld(t) ==
    /\ stray = "none" /\ run[t].call = "none"
    /\ \E r \in Holds(t) :
          /\ Closes(t, r)
          /\ run' = [run EXCEPT ![t].slot[r] = None, ![t].peer = "nobody"]
    /\ UNCHANGED <<platform, flags>>

-----------------------------------------------------------------------------
(* zbaselib_socket_pair.  On Windows a connection to a listener of its own *)
(* makes the pair.                                                         *)

OpenListener(t) ==
    /\ platform = "windows" /\ MayCall(t, "pair")
    /\ Begins(t, "pair", "listener", "listen")

Listen(t) ==
    /\ At(t, "pair", "listen")
    /\ Proceeds(t, "second") \/ Fails(t)

OpenConnector(t) ==
    /\ At(t, "pair", "second")
    /\ Opens(t, "connector", "connect") \/ Fails(t)

Listening(t) ==
    At(t, "pair", "second") \/ At(t, "pair", "connect") \/ At(t, "pair", "accept")

Queues(t, who) ==
    /\ Len(run[t].pending) < MaxPending
    /\ run' = [run EXCEPT ![t].pending = Append(@, who),
                          ![t].step = IF who = "self" THEN "accept" ELSE @]
    /\ UNCHANGED <<platform, table, stray, flags>>

Connect(t) ==
    /\ At(t, "pair", "connect")
    /\ Queues(t, "self") \/ Fails(t)

(* Another process connects to the port the kernel has chosen.             *)
Stranger(t) == Listening(t) /\ Queues(t, "stranger")

(* When the address that accept stores has another size, the call fails    *)
(* with the acceptor open.                                                 *)
Accept(t) ==
    /\ At(t, "pair", "accept")
    /\ \/ /\ Free # {} /\ run[t].pending # <<>>
          /\ table' = [table EXCEPT ![Lowest] = <<t, "acceptor">>]
          /\ \E next \in {"unlisten", "tidy"} :
                run' = [run EXCEPT ![t].slot["acceptor"] = Lowest,
                                   ![t].peer = Head(run[t].pending),
                                   ![t].pending = <<>>,
                                   ![t].step = next]
          /\ UNCHANGED <<platform, stray, flags>>
       \/ Fails(t)

(* zbaselib_socket_close sets its own copy of the number to INVALID_SOCKET *)
(* and leaves the variable listener as it is.                              *)
Unlisten(t) ==
    /\ At(t, "pair", "unlisten")
    /\ Closes(t, "listener") /\ Goes(t, "check")
    /\ UNCHANGED <<platform, flags>>

(* The addresses of the two ends are compared.                             *)
NoCheck_TalksToItself(t) == TRUE
TalksToItself(t) == run[t].peer = "self"

Check(t) ==
    /\ At(t, "pair", "check")
    /\ \/ /\ TalksToItself(t)
          /\ Returns(t, {"connector", "acceptor"})
          /\ UNCHANGED <<platform, table, stray, flags>>
       \/ Fails(t)

(* On POSIX systems the kernel makes the pair.                             *)
Socketpair(t) ==
    /\ platform = "posix" /\ MayCall(t, "pair")
    /\ \E h, k \in Free :
          /\ h < k /\ \A l \in Free : l >= k \/ l = h
          /\ table' = [table EXCEPT ![h] = <<t, "connector">>, ![k] = <<t, "acceptor">>]
          /\ run' = [run EXCEPT ![t] = [Idle EXCEPT !.slot["connector"] = h,
                                                    !.slot["acceptor"] = k,
                                                    !.peer = "self"]]
    /\ UNCHANGED <<platform, stray, flags>>

-----------------------------------------------------------------------------
(* Calls with one descriptor *)

OpenOne(t) ==
    \E call \in {"open"} \cup Nics :
        MayCall(t, call) /\ Begins(t, call, "sock", "setup")

(* create_tcpclient and create_tcpserver: nonblocking, connect and the     *)
(* others, one after the other until one fails.  A request ends in Fails   *)
(* as well when it was answered.                                           *)
SetUp(t) ==
    /\ At(t, "open", "setup")
    /\ \/ /\ Returns(t, {"sock"})
          /\ UNCHANGED <<platform, table, stray, flags>>
       \/ Fails(t)

-----------------------------------------------------------------------------
(* inet_set_flag and inet_clr_flag: the flags are read, changed and        *)
(* written back.                                                           *)

Bits == {"up", "running", "promisc"}

Asked(call, old) == IF call = "nic_up" THEN old \cup {"up", "running"} ELSE old \ {"up"}

Overwrites_NewFlags(call, old) == IF call = "nic_up" THEN {"up", "running"} ELSE old \ {"up"}
NewFlags(call, old) == IF call = "nic_up" THEN old \cup {"up", "running"} ELSE old \ {"up"}

GetFlags(t) ==
    /\ At(t, "nic_up", "setup") \/ At(t, "nic_down", "setup")
    /\ \/ /\ run' = [run EXCEPT ![t].seen = flags, ![t].step = "write"]
          /\ UNCHANGED <<platform, table, stray, flags>>
       \/ Fails(t)

(* The flags change: calls of others that are under way are not alone.     *)
Disturbs(who) == [r \in Openers |->
    IF r = who THEN [run[r] EXCEPT !.done = TRUE, !.step = "tidy", !.seen = {}]
    ELSE IF run[r].call \in Nics THEN [run[r] EXCEPT !.alone = FALSE, !.before = {}]
    ELSE run[r]]

SetFlags(t) ==
    /\ At(t, "nic_up", "write") \/ At(t, "nic_down", "write")
    /\ \/ /\ flags' = NewFlags(run[t].call, run[t].seen)
          /\ run' = Disturbs(t)
          /\ UNCHANGED <<platform, table, stray>>
       \/ Fails(t)

(* Another process switches promiscuous mode on or off.                    *)
OtherProcess ==
    /\ stray = "none" /\ platform = "posix"
    /\ flags' = IF "promisc" \in flags THEN flags \ {"promisc"} ELSE flags \cup {"promisc"}
    /\ run' = Disturbs("nobody")
    /\ UNCHANGED <<platform, table, stray>>

-----------------------------------------------------------------------------
(* zbaselib_filemap_create.  Only a number above 0 is taken for an open    *)
(* file, is mapped and closed.                                             *)

IsOpen(fd) == fd > 0

OpenFile(t) ==
    /\ MayCall(t, "map") /\ Free # {}
    /\ table' = [table EXCEPT ![Lowest] = <<t, "file">>]
    /\ run' = [run EXCEPT ![t] = [Idle EXCEPT
                   !.call = "map", !.step = "tidy",
                   !.slot["file"] = IF IsOpen(Lowest) THEN Lowest ELSE None]]
    /\ UNCHANGED <<platform, stray, flags>>

-----------------------------------------------------------------------------
(* A process may have been started with descriptor 0 closed.               *)
Stdin == <<"process", "stdin">>

DescriptorsInit ==
    /\ platform \in {"posix", "windows"}
    /\ table \in {[h \in Handles |-> Closed],
                  [h \in Handles |-> IF h = 0 THEN Stdin ELSE Closed]}
    /\ run = [t \in Openers |-> Idle]
    /\ stray = "none" /\ flags = {}

SocketPair(t) ==
    \/ OpenListener(t) \/ Listen(t) \/ OpenConnector(t) \/ Connect(t) \/ Stranger(t)
    \/ Accept(t) \/ Unlisten(t) \/ Check(t) \/ Socketpair(t)

DescriptorsNext ==
    \/ \E t \in Openers :
          \/ SocketPair(t)
          \/ OpenOne(t) \/ SetUp(t)
          \/ GetFlags(t) \/ SetFlags(t)
          \/ OpenFile(t)
          \/ Tidy(t) \/ CloseHeld(t)
    \/ OtherProcess

DescriptorsSpec == DescriptorsInit /\ [][DescriptorsNext]_descriptorVars

-----------------------------------------------------------------------------
(* Properties *)

(* Every descriptor that is open is in the variable of its thread, whether *)
(* the call is under way, has failed at any point or has handed it to the  *)
(* caller; but filemap_create loses number 0.  A number in a variable      *)
(* stands for what the thread has opened, but for the listener of          *)
(* socket_pair after line 145.  This is the only number by which a thread  *)
(* may close a descriptor of another thread.                               *)
DescriptorsOwned ==
    IF stray # "none" THEN platform = "windows" /\ stray = "listener"
    ELSE /\ \A h \in Handles : \A t \in Openers, r \in RoleSet :
               table[h] = <<t, r>> =>
                   run[t].slot[r] = h \/ (h = 0 /\ r = "file")
         /\ \A t \in Openers : \A r \in Holds(t) :
               \/ table[run[t].slot[r]] = <<t, r>>
               \/ r = "listener" /\ run[t].step \in {"check", "tidy"}

(* What socket_pair hands out are the two ends of one connection, whoever  *)
(* else connects to the port of the listener while it is open.             *)
PairConnected ==
    \A t \in Openers :
        run[t].call = "none" /\ {"connector", "acceptor"} \subseteq Holds(t) =>
            run[t].peer = "self"

(* nic_up and nic_down, when they are done and nobody else has changed the *)
(* flags since they began, have changed what they were asked to and left   *)
(* the other flags as they were; if they failed, they changed nothing.     *)
FlagsExact ==
    \A t \in Openers :
        run[t].call \in Nics /\ run[t].step = "tidy" /\ run[t].alone =>
            flags = IF run[t].done THEN Asked(run[t].call, run[t].before)
                    ELSE run[t].before
=============================================================================
