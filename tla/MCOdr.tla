------------------------------- MODULE MCOdr -------------------------------
(* An instance of Odr for TLC: a line of three nodes, the middle one on both *)
(* LANs, and a client on two of the nodes.                                   *)
EXTENDS Odr, TLC

CONSTANTS n1, n2, n3, c1, c2

LineNeighbours == (n1 :> {n2}) @@ (n2 :> {n1, n3}) @@ (n3 :> {n2})
LineIps == (n1 :> <<<<n1, 1>>>>) @@ (n2 :> <<<<n2, 1>>, <<n2, 2>>>>) @@ (n3 :> <<<<n3, 1>>>>)
LineVm == [n \in Nodes |-> <<n, 1>>]
FirstAndMiddle == (c1 :> n1) @@ (c2 :> n2)
FirstAndLast == (c1 :> n1) @@ (c2 :> n3)
AskLast == (c1 :> {n3}) @@ (c2 :> {n3})
AskOther == (c1 :> {n3}) @@ (c2 :> {n1})
=============================================================================
