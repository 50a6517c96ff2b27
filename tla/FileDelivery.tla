--------------------------- MODULE FileDelivery ---------------------------
(***************************************************************************)
(* What a transfer promises, with no protocol in sight.  The client takes  *)
(* in the words of the file and the end mark one by one, shows them in     *)
(* that order and each once, and ends only when it has them all; the       *)
(* server reports success only when the client has them all.               *)
(***************************************************************************)
EXTENDS Naturals, Sequences

CONSTANT Whole      \* the words of the file and the end mark

VARIABLES
    accepted,       \* how many of them the client has taken in
    out,            \* what it has shown
    closed,         \* the client has ended
    reported        \* the server has reported success

vars == <<accepted, out, closed, reported>>

Init == accepted = 0 /\ out = <<>> /\ closed = FALSE /\ reported = FALSE

Accept ==
    /\ ~closed /\ accepted < Len(Whole)
    /\ accepted' = accepted + 1
    /\ UNCHANGED <<out, closed, reported>>

Show ==
    /\ ~closed /\ Len(out) < accepted
    /\ out' = Append(out, Whole[Len(out) + 1])
    /\ UNCHANGED <<accepted, closed, reported>>

Close ==
    /\ accepted = Len(Whole)
    /\ closed' = TRUE
    /\ UNCHANGED <<accepted, out, reported>>

Report ==
    /\ accepted = Len(Whole)
    /\ reported' = TRUE
    /\ UNCHANGED <<accepted, out, closed>>

Next == Accept \/ Show \/ Close \/ Report

Spec == Init /\ [][Next]_vars
=============================================================================
