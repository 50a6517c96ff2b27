---------------------------- MODULE MCHandshake ----------------------------
(* Instances of Handshake for TLC. *)
EXTENDS Handshake, TLC

CONSTANTS c1, c2, f1, f2

TwoFiles == (c1 :> f1) @@ (c2 :> f2)

(* A loopback interface, a wide network and a narrow one inside it. *)
ThreeIfaces == <<[ip |-> 0, mask |-> 2], [ip |-> 4, mask |-> 2], [ip |-> 5, mask |-> 1]>>

(* In no network, on the same host, in both networks, in the wide one only. *)
FewAddrs == {(c1 :> a) @@ (c2 :> 4) : a \in {2, 1, 4, 6}}
=============================================================================
