---------------------------- MODULE MCEchoServer ----------------------------
(* Instances of EchoServer for TLC. *)
EXTENDS EchoServer, TLC

CONSTANTS e1, e2, t1

FewLines == (e1 :> 2) @@ (e2 :> 0)
=============================================================================
