------------------------------- MODULE MCTour -------------------------------
(* Instances of Tour for TLC. *)
EXTENDS Tour, TLC

CONSTANTS n1, n2, n3

(* Two nodes are reached twice, one of them from different nodes and one from  *)
(* the same, and the route ends where it began.                                *)
ThereAndBack == <<n1, n2, n3, n2, n3, n1>>
=============================================================================
