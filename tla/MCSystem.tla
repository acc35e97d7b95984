------------------------------ MODULE MCSystem ------------------------------
(***************************************************************************)
(* The components around the operating system's descriptors, connections   *)
(* and directories.  They share no state here, and each behaviour is of    *)
(* one of them while the others stay in their initial states, so that the  *)
(* states add up and do not multiply.                                      *)
(***************************************************************************)
EXTENDS Descriptors, CreateDir, DirListing, Interfaces, Connection

VARIABLE component    \* the one that is used

vars == <<descriptorVars, createDirVars, listingVars, interfacesVars, connectionVars,
          component>>

-----------------------------------------------------------------------------
(* Paths of which one is above the other, and two that part.               *)
Paths == { <<"a">>, <<"a", "b">>, <<"a", "b", "c">>, <<"a", "d">> }

(* An empty directory has two entries; the root of a disk may have none.   *)
Found == { <<>>, <<".", "..">>, <<".", "..", "x">>, <<"x">> }

(* Two interfaces with addresses of their own, on POSIX systems one an     *)
(* element: up and down, without an address and with the physical one.     *)
Element(name, number, family, up) ==
    [name |-> name, number |-> number, family |-> family, up |-> up]

IfElements == {
    Element("eth", 0, "packet", TRUE), Element("eth", 1, "inet", TRUE),
    Element("eth", 2, "inet", TRUE), Element("lo", 0, "none", TRUE),
    Element("lo", 1, "inet", TRUE), Element("lo", 2, "inet", FALSE) }

Ifaddrs == UNION {{s \in [1 .. n -> IfElements] : \A i, j \in 1 .. n : s[i] = s[j] => i = j}
                  : n \in 0 .. 3}

Adapter(name, addresses, prefixes, up) ==
    [name |-> name, addresses |-> addresses, prefixes |-> prefixes, up |-> up,
     physical |-> name = "eth"]

Adapters == { <<>> }
    \cup {<<Adapter("lo", a, 1, TRUE)>> : a \in 0 .. 1}
    \cup {<<Adapter("eth", a, p, u), Adapter("lo", 1, 2, TRUE)>>
          : a \in 0 .. 2, p \in 0 .. 2, u \in BOOLEAN}

-----------------------------------------------------------------------------
Init ==
    /\ component \in {"descriptors", "createdir", "listing", "interfaces", "connection"}
    /\ DescriptorsInit /\ CreateDirInit /\ ListingInit
    /\ InterfacesInit /\ ConnectionInit
    \* Of a component that is not used, one initial state is enough.
    /\ component # "descriptors" => platform = "posix" /\ Free = Handles
    /\ component # "createdir" => dirs \cup files = {}
    /\ component # "interfaces" => ~onWindows /\ interfaces = <<>>
    /\ component # "connection" => os = "posix" /\ peer = "reads" /\ link = "udp"

Next ==
    \/ /\ component = "descriptors" /\ DescriptorsNext
       /\ UNCHANGED <<createDirVars, listingVars, interfacesVars, connectionVars, component>>
    \/ /\ component = "createdir" /\ CreateDirNext
       /\ UNCHANGED <<descriptorVars, listingVars, interfacesVars, connectionVars, component>>
    \/ /\ component = "listing" /\ ListingNext
       /\ UNCHANGED <<descriptorVars, createDirVars, interfacesVars, connectionVars,
                      component>>
    \/ /\ component = "connection" /\ ConnectionNext
       /\ UNCHANGED <<descriptorVars, createDirVars, listingVars, interfacesVars, component>>
    \/ /\ component = "interfaces" /\ InterfacesNext
       /\ UNCHANGED <<descriptorVars, createDirVars, listingVars, connectionVars, component>>

Spec == Init /\ [][Next]_vars

FairSpec == Spec /\ ConnectionFairness
=============================================================================
