----------------------------- MODULE Interfaces -----------------------------
(***************************************************************************)
(* uv_interface_addresses of zbaselib_socket.c: the addresses of the       *)
(* network interfaces, from the list that the system makes of them.  The   *)
(* list is walked twice, to count the addresses and to fill in as many     *)
(* entries of a new block.  On Windows the caller brings the memory for    *)
(* the list, and asks again when there are more interfaces than it has     *)
(* room for; they may change meanwhile.                                    *)
(*                                                                         *)
(* On POSIX systems an element of the list is one address of an interface: *)
(* an "inet" one, IPv4 or IPv6, a "packet" one, the physical address, or   *)
(* "none".  On Windows it is an interface with the number of its unicast   *)
(* addresses and of its prefixes, and may have a physical address.         *)
(***************************************************************************)
EXTENDS Integers, Sequences, FiniteSets

CONSTANTS
    PosixLists,    \* what getifaddrs may find
    WindowsLists,  \* what GetAdaptersAddresses may find
    MaxChanges     \* bound: changes of the interfaces

(* No two addresses of a list are the same: on POSIX systems they differ in *)
(* the interface or in the number, which begins with 1, and on Windows the *)
(* interfaces have names of their own.                                     *)
ASSUME InterfacesAssumption ==
    /\ MaxChanges \in Nat
    /\ \A list \in PosixLists :
          /\ list \in Seq([name : STRING, number : Nat, up : BOOLEAN,
                           family : {"inet", "packet", "none"}])
          /\ \A i, j \in DOMAIN list :
                list[i].family = "inet" /\ list[j].family = "inet" =>
                    /\ list[i].number # 0
                    /\ list[i].name = list[j].name /\ list[i].number = list[j].number => i = j
    /\ \A list \in WindowsLists :
          /\ list \in Seq([name : STRING, addresses : Nat, prefixes : Nat, up : BOOLEAN,
                           physical : BOOLEAN])
          /\ \A i, j \in DOMAIN list : list[i].name = list[j].name => i = j

VARIABLES
    onWindows,
    interfaces,    \* the interfaces of the system, as it would list them now
    changes,
    query          \* the call

interfacesVars == <<onWindows, interfaces, changes, query>>

NotFilled == [name |-> "unset", number |-> 0, physical |-> "unset"]

NoQuery == [step    |-> "idle",
            room    |-> 0,      \* interfaces that the memory has room for
            list    |-> <<>>,   \* what the system has returned
            count   |-> 0,
            entries |-> <<>>,
            memory  |-> {},     \* of "list" and "result", the blocks not freed
            result  |-> -1]

Continue(q) == query' = q /\ UNCHANGED <<onWindows, interfaces, changes>>
GiveUp(q) == Continue([q EXCEPT !.step = "over", !.result = -1])

-----------------------------------------------------------------------------
(* Interfaces come and go.  A call on a POSIX system asks for them once, so *)
(* that a change comes before it or does not matter to it.                 *)
Change ==
    /\ onWindows /\ changes < MaxChanges
    /\ changes' = changes + 1
    /\ interfaces' \in WindowsLists
    /\ UNCHANGED <<onWindows, query>>

-----------------------------------------------------------------------------
(* The loops over the list.  The first counts width[i] entries for element  *)
(* i, the second fills in parts[i]; each goes on where it was after the    *)
(* element before, at Ends[i - 1].                                         *)
Ends(list, width) ==
    LET ends[i \in 0 .. Len(list)] == IF i = 0 THEN 0 ELSE ends[i - 1] + width[i]
    IN  ends

AllOf(list, width) == Ends(list, width)[Len(list)]

NewBlock(q, n) ==
    [q EXCEPT !.count = n, !.entries = [k \in 1 .. n |-> NotFilled],
              !.memory = @ \cup {"result"}, !.step = "fill"]

Filled(q, parts) ==
    LET ends  == Ends(q.list, [i \in DOMAIN q.list |-> Len(parts[i])])
        At(k) == CHOOSE i \in DOMAIN q.list : ends[i - 1] < k /\ k <= ends[i]
    IN  [k \in DOMAIN q.entries |->
            IF k > ends[Len(q.list)] THEN q.entries[k]
            ELSE parts[At(k)][k - ends[At(k) - 1]]]

-----------------------------------------------------------------------------
(* POSIX *)

Getifaddrs ==
    /\ query.step = "idle" /\ ~onWindows
    /\ \/ Continue([query EXCEPT !.step = "count", !.list = interfaces, !.memory = {"list"}])
       \/ GiveUp(query)

(* The conditions of the two loops; the code writes them twice.            *)
AlsoRaw_CountsIn(ent) == ent.up /\ ent.family # "none"
CountsIn(ent) == ent.up /\ ent.family # "none" /\ ent.family # "packet"
Taken(ent)    == ent.up /\ ent.family # "none" /\ ent.family # "packet"

PosixCount(list) == AllOf(list, [i \in DOMAIN list |-> IF CountsIn(list[i]) THEN 1 ELSE 0])

PosixEntry(ent) == [NotFilled EXCEPT !.name = ent.name, !.number = ent.number]

PosixParts(list) ==
    [i \in DOMAIN list |-> IF Taken(list[i]) THEN <<PosixEntry(list[i])>> ELSE <<>>]

(* Without memory the list is not given back.  malloc(0) may return NULL.  *)
CountPosix ==
    /\ query.step = "count" /\ ~onWindows
    /\ \/ Continue(NewBlock(query, PosixCount(query.list)))
       \/ GiveUp([query EXCEPT !.count = PosixCount(query.list)])

FillPosix ==
    /\ query.step = "fill" /\ ~onWindows
    /\ Continue([query EXCEPT !.step = "physical",
                              !.entries = Filled(query, PosixParts(query.list))])

(* Every entry with the name of a packet address gets it.                  *)
HasPacket(list, name) ==
    \E i \in DOMAIN list : list[i].up /\ list[i].family = "packet" /\ list[i].name = name

WithPhysical(entries, list) ==
    [k \in DOMAIN entries |->
        IF HasPacket(list, entries[k].name)
        THEN [entries[k] EXCEPT !.physical = entries[k].name]
        ELSE entries[k]]

Physical ==
    /\ query.step = "physical"
    /\ Continue([query EXCEPT !.step = "over", !.result = 0, !.memory = @ \ {"list"},
                              !.entries = WithPhysical(@, query.list)])

-----------------------------------------------------------------------------
(* Windows *)

(* The memory that was too small is freed before there is a new one.       *)
GetAdapters ==
    /\ query.step = "idle" /\ onWindows
    /\ \/ /\ interfaces # <<>> /\ query.room >= Len(interfaces)
          /\ Continue([query EXCEPT !.step = "count", !.list = interfaces])
       \/ /\ query.room < Len(interfaces)
          /\ \/ Continue([query EXCEPT !.room = Len(interfaces), !.memory = {"list"}])
             \/ GiveUp([query EXCEPT !.memory = {}])
       \/ /\ interfaces = <<>>
          /\ Continue([query EXCEPT !.step = "over", !.result = 0, !.memory = {"result"}])
       \/ GiveUp([query EXCEPT !.memory = {}])

Shows(adapter) == adapter.up /\ adapter.addresses > 0

WindowsCount(list) ==
    AllOf(list, [i \in DOMAIN list |-> IF Shows(list[i]) THEN list[i].addresses ELSE 0])

(* A name that cannot be converted, or no memory.                          *)
CountWindows ==
    /\ query.step = "count" /\ onWindows
    /\ \/ Continue(NewBlock(query, WindowsCount(query.list)))
       \/ GiveUp([query EXCEPT !.memory = {}])

(* The prefixes are walked in step with the addresses.                     *)
Walked(adapter) ==
    IF ~Shows(adapter) THEN 0
    ELSE IF adapter.addresses <= adapter.prefixes THEN adapter.addresses ELSE adapter.prefixes

WindowsEntry(adapter, m) ==
    [name     |-> adapter.name,
     number   |-> m,
     physical |-> IF adapter.physical THEN adapter.name ELSE "unset"]

WindowsParts(list) ==
    [i \in DOMAIN list |-> [m \in 1 .. Walked(list[i]) |-> WindowsEntry(list[i], m)]]

FillWindows ==
    /\ query.step = "fill" /\ onWindows
    /\ \/ Continue([query EXCEPT !.step = "over", !.result = 0, !.memory = {"result"},
                                 !.entries = Filled(query, WindowsParts(query.list))])
       \/ /\ query.count > 0
          /\ GiveUp([query EXCEPT !.memory = {}])

-----------------------------------------------------------------------------
(* uv_free_interface_addresses, and the next call.                         *)
FreeAddresses ==
    /\ query.step = "over"
    /\ Continue(NoQuery)

InterfacesInit ==
    /\ onWindows \in BOOLEAN
    /\ interfaces \in IF onWindows THEN WindowsLists ELSE PosixLists
    /\ changes = 0 /\ query = NoQuery

InterfacesNext ==
    \/ Change
    \/ Getifaddrs \/ CountPosix \/ FillPosix \/ Physical
    \/ GetAdapters \/ CountWindows \/ FillWindows
    \/ FreeAddresses

InterfacesSpec == InterfacesInit /\ [][InterfacesNext]_interfacesVars

-----------------------------------------------------------------------------
(* Properties *)

(* What a list says of the interfaces that are up.                         *)
UpIn(list) == {list[i] : i \in {j \in DOMAIN list : list[j].up}}

Address(n, k, hasPhysical) ==
    [name |-> n, number |-> k, physical |-> IF hasPhysical THEN n ELSE "unset"]

Expected(list) ==
    IF onWindows
    THEN UNION {{Address(a.name, k, a.physical)
                 : k \in {n \in 1 .. a.addresses : n <= a.prefixes}} : a \in UpIn(list)}
    ELSE {Address(e.name, e.number,
                  \E p \in UpIn(list) : p.family = "packet" /\ p.name = e.name)
          : e \in {u \in UpIn(list) : u.family = "inet"}}

FilledIn == {i \in DOMAIN query.entries : query.entries[i] # NotFilled}

EnoughPrefixes == onWindows => \A a \in UpIn(query.list) : a.addresses <= a.prefixes

(* A call that succeeds reports every address of the interfaces that are   *)
(* up once, with the physical address wherever there is one, in as many    *)
(* entries as it says, however the interfaces changed while it was asking; *)
(* but on Windows the addresses that have no prefix are counted and not    *)
(* filled in.  Every block is given back, except the system's list when    *)
(* getifaddrs was successful and malloc was not.                           *)
AddressesReported ==
    query.step = "over" =>
        IF query.result = 0
        THEN /\ Len(query.entries) = query.count
             /\ {query.entries[i] : i \in FilledIn} = Expected(query.list)
             /\ Cardinality(FilledIn) = Cardinality(Expected(query.list))
             /\ EnoughPrefixes => FilledIn = DOMAIN query.entries
             /\ query.memory = {"result"}
        ELSE query.memory \subseteq IF onWindows THEN {} ELSE {"list"}
=============================================================================
