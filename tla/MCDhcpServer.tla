---------------------------- MODULE MCDhcpServer ----------------------------
(* Instances of DhcpServer for TLC: words of four bits, pools at the edges. *)
EXTENDS DhcpServer, TLC

CONSTANTS c1, c2, c3

TwoClients == {c1, c2}
ThreeClients == {c1, c2, c3}
Server == {1}
InPool == {3}
Swap == Permutations(TwoClients)
LowPool == 2 .. 4
MidPool == 5 .. 7
FifthWord == 16 .. 18

(* The networks, and the bounds for a prompt one and one that delays        *)
Prompt == {FALSE}
Either == {FALSE, TRUE}
Once == [d \in BOOLEAN |-> 1]
Tries == [d \in BOOLEAN |-> IF d THEN 2 ELSE 3]
Packets3 == [d \in BOOLEAN |-> 3]
Packets8 == [d \in BOOLEAN |-> IF d THEN 3 ELSE 8]
=============================================================================
