---------------------------- MODULE MCSequential ----------------------------
(***************************************************************************)
(* The components that one caller uses by itself: the red-black tree, the  *)
(* array, the addresses and MD5.  They share no state, and each behaviour  *)
(* is of one of them while the others stay in their initial states, so     *)
(* that the states add up and do not multiply.                             *)
(***************************************************************************)
EXTENDS RbTree, Array, Inet, Md5

VARIABLE component    \* the one that is used

vars == <<treeVars, arrayVars, inetVars, md5Vars, component>>

-----------------------------------------------------------------------------
(* The addresses whose texts are edited: without a zero word, with two     *)
(* runs of them that are as long, with a run at the beginning, at the end  *)
(* and alone, with single zero words and with an IPv4 address.             *)
EditedWords == {
    <<65535, 65535, 65535, 65535, 65535, 65535, 65535, 65535>>,
    <<0, 0, 0, 0, 0, 0, 0, 0>>, <<0, 0, 0, 0, 0, 65535, 258, 772>>,
    <<0, 0, 1, 0, 0, 0, 1, 1>>, <<1, 0, 0, 2, 0, 0, 3, 0>>,
    <<0, 0, 0, 0, 0, 0, 0, 1>>, <<1, 0, 0, 0, 0, 0, 0, 0>>,
    <<0, 1, 1, 1, 1, 1, 1, 0>> }
EditedOctets == { <<0, 1, 25, 255>>, <<192, 0, 2, 1>> }

-----------------------------------------------------------------------------
(* The test suite of RFC 1321, and messages that end around the end of a   *)
(* block and around the place of the length.                               *)
Known(m, d) == [message |-> m, digest |-> d]
Letters(before) == [i \in 1 .. 26 |-> before + i]

TestSuite == {
    Known(<< >>,
          <<\hd4, \h1d, \h8c, \hd9, \h8f, \h00, \hb2, \h04,
            \he9, \h80, \h09, \h98, \hec, \hf8, \h42, \h7e>>),
    Known(<<97>>,
          <<\h0c, \hc1, \h75, \hb9, \hc0, \hf1, \hb6, \ha8,
            \h31, \hc3, \h99, \he2, \h69, \h77, \h26, \h61>>),
    Known(<<97, 98, 99>>,
          <<\h90, \h01, \h50, \h98, \h3c, \hd2, \h4f, \hb0,
            \hd6, \h96, \h3f, \h7d, \h28, \he1, \h7f, \h72>>),
    Known(<<109, 101, 115, 115, 97, 103, 101, 32, 100, 105, 103, 101, 115, 116>>,
          <<\hf9, \h6b, \h69, \h7d, \h7c, \hb7, \h93, \h8d,
            \h52, \h5a, \h2f, \h31, \haa, \hf1, \h61, \hd0>>),
    Known(Letters(96),
          <<\hc3, \hfc, \hd3, \hd7, \h61, \h92, \he4, \h00,
            \h7d, \hfb, \h49, \h6c, \hca, \h67, \he1, \h3b>>),
    Known(Letters(64) \o Letters(96) \o [i \in 1 .. 10 |-> 47 + i],
          <<\hd1, \h74, \hab, \h98, \hd2, \h77, \hd9, \hf5,
            \ha5, \h61, \h1c, \h2c, \h9f, \h41, \h9d, \h9f>>),
    Known([i \in 1 .. 80 |-> 48 + (i % 10)],
          <<\h57, \hed, \hf4, \ha2, \h2b, \he3, \hc9, \h55,
            \hac, \h49, \hda, \h2e, \h21, \h07, \hb6, \h7a>>) }

AroundABlock == {[i \in 1 .. n |-> i] : n \in {55, 56, 63, 64, 119, 120, 128}}

Digested == AroundABlock \cup {known.message : known \in TestSuite}

-----------------------------------------------------------------------------
Init ==
    /\ component \in {"tree", "array", "inet", "md5"}
    /\ TreeInit /\ ArrayInit /\ InetInit /\ Md5Init

(* Only the tree is never at an end: a repair that cannot go on would be a *)
(* deadlock.                                                               *)
AtAnEnd == component # "tree" /\ UNCHANGED vars

Next ==
    \/ /\ component = "tree" /\ TreeNext
       /\ UNCHANGED <<arrayVars, inetVars, md5Vars, component>>
    \/ /\ component = "array" /\ ArrayNext
       /\ UNCHANGED <<treeVars, inetVars, md5Vars, component>>
    \/ /\ component = "inet" /\ InetNext
       /\ UNCHANGED <<treeVars, arrayVars, md5Vars, component>>
    \/ /\ component = "md5" /\ Md5Next
       /\ UNCHANGED <<treeVars, arrayVars, inetVars, component>>
    \/ AtAnEnd

Spec == Init /\ [][Next]_vars
=============================================================================
