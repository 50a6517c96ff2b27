------------------------------- MODULE Udp -------------------------------
(***************************************************************************)
(* The two directions of the UDP association between a client and the      *)
(* server child that serves it, as hw2 uses them through send_udp_data and *)
(* recv_udp_data.  Each direction is the queue of datagrams that were sent *)
(* and not yet read.  UDP promises nothing: Faults says which of its       *)
(* misbehaviours an instance explores and MaxFaults how many of them.      *)
(***************************************************************************)
EXTENDS Integers, Sequences, SequencesExt

CONSTANTS
    NoWord,     \* the contents of an empty buf
    ChanCap,    \* datagrams a socket's receive buffer holds
    Faults,     \* misbehaviours of the network and of the timing explored
    MaxFaults   \* bound on how many times the network misbehaves

VARIABLES
    toClient,   \* datagrams sent by the server child
    toServer,   \* acknowledgements sent by the client
    faults      \* misbehaviours so far

udpVars == <<toClient, toServer, faults>>

FaultKinds == {"lose_data", "duplicate_data", "reorder_data",
               "lose_ack", "duplicate_ack", "reorder_ack",
               "early_timeout", "racing_timeout", "stray_alarm"}

ASSUME UdpAssumption ==
    /\ ChanCap \in Nat \ {0}
    /\ Faults \subseteq FaultKinds
    /\ MaxFaults \in Nat

UdpInit == toClient = <<>> /\ toServer = <<>> /\ faults = 0

(* A datagram that finds the receive buffer full is discarded by the kernel. *)
Put(ch, m) == IF Len(ch) < ChanCap THEN Append(ch, m) ELSE ch

Swap(ch, i) == [ch EXCEPT ![i] = ch[i + 1], ![i + 1] = ch[i]]

Misbehave(kind) ==
    /\ kind \in Faults
    /\ faults < MaxFaults
    /\ faults' = faults + 1

LoseIn(ch) == \E i \in 1..Len(ch) : ch' = RemoveAt(ch, i)
DuplicateIn(ch) == \E i \in 1..Len(ch) : ch' = Put(ch, ch[i])
ReorderIn(ch) == \E i \in 1..(Len(ch) - 1) : ch' = Swap(ch, i)

LoseData == Misbehave("lose_data") /\ LoseIn(toClient) /\ UNCHANGED toServer
LoseAck == Misbehave("lose_ack") /\ LoseIn(toServer) /\ UNCHANGED toClient

DuplicateData ==
    Misbehave("duplicate_data") /\ DuplicateIn(toClient) /\ UNCHANGED toServer
DuplicateAck ==
    Misbehave("duplicate_ack") /\ DuplicateIn(toServer) /\ UNCHANGED toClient

ReorderData ==
    Misbehave("reorder_data") /\ ReorderIn(toClient) /\ UNCHANGED toServer
ReorderAck ==
    Misbehave("reorder_ack") /\ ReorderIn(toServer) /\ UNCHANGED toClient

UdpNext ==
    \/ LoseData \/ LoseAck \/ DuplicateData \/ DuplicateAck
    \/ ReorderData \/ ReorderAck
=============================================================================
