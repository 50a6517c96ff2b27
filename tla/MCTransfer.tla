---------------------------- MODULE MCTransfer ----------------------------
(* Small instances of Transfer. *)
EXTENDS Transfer

CONSTANTS w1, w2, w3, w4, w5, w6

Words3 == <<w1, w2, w3>>
Words4 == <<w1, w2, w3, w4>>
Words6 == <<w1, w2, w3, w4, w5, w6>>
=============================================================================
