------------------------------- MODULE MCArp -------------------------------
(* Instances of Arp for TLC. *)
EXTENDS Arp, TLC

(* Nodes are interchangeable: the code never compares two addresses except   *)
(* for equality.                                                             *)
NodeSymmetry == Permutations(Nodes)
=============================================================================
