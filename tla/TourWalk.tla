----------------------------- MODULE TourWalk -----------------------------
(***************************************************************************)
(* What a tour promises, with no packets in sight: it goes from each stop  *)
(* of the route to the next, skips none and comes to none again, and the   *)
(* group is told of the end when the tour is at the last stop.  It may     *)
(* stop on the way.                                                        *)
(***************************************************************************)
EXTENDS Naturals, Sequences

CONSTANTS Nodes, Route

VARIABLES
    last,       \* the number of the stop at which the tour was last at a node
    told        \* the group was told of the end

vars == <<last, told>>

Init == last = [n \in Nodes |-> 0] /\ told = FALSE

(* The tour is at stop i. *)
At(i) == last[Route[i]] = i /\ \A n \in Nodes : last[n] <= i

Begin ==
    /\ \A n \in Nodes : last[n] = 0
    /\ last' = [last EXCEPT ![Route[1]] = 1]
    /\ UNCHANGED told

Go(i) ==
    /\ At(i) /\ ~told
    /\ last' = [last EXCEPT ![Route[i + 1]] = i + 1]
    /\ UNCHANGED told

Tell ==
    /\ At(Len(Route)) /\ ~told
    /\ told' = TRUE
    /\ UNCHANGED last

Next == Begin \/ Tell \/ \E i \in 1..(Len(Route) - 1) : Go(i)

Spec == Init /\ [][Next]_vars
=============================================================================
