---------------------------- MODULE FileService ----------------------------
(***************************************************************************)
(* What the set-up of hw2 promises its clients: the transfer that is begun   *)
(* for a client is one of the file it asked for, and there is only one.      *)
(***************************************************************************)
CONSTANTS Clients, FileNames, NoFile

VARIABLES wanted, served

Init == wanted = [c \in Clients |-> NoFile] /\ served = wanted

Ask(c, f) ==
    /\ wanted[c] = NoFile
    /\ wanted' = [wanted EXCEPT ![c] = f]
    /\ UNCHANGED served

Serve(c) ==
    /\ wanted[c] # NoFile /\ served[c] = NoFile
    /\ served' = [served EXCEPT ![c] = wanted[c]]
    /\ UNCHANGED wanted

Next == \E c \in Clients : Serve(c) \/ \E f \in FileNames : Ask(c, f)

Spec == Init /\ [][Next]_<<wanted, served>>
=============================================================================
