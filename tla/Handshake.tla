----------------------------- MODULE Handshake -----------------------------
(***************************************************************************)
(* The connection set-up of hw2, before the transfer that Transfer.tla       *)
(* models: a client names a file to the server's well-known port, the server *)
(* acknowledges and forks a child, the child tells the client a new port,    *)
(* and the first datagram to come to that port names the child's peer.       *)
(* Nothing of this is ever sent twice by the programs.                       *)
(***************************************************************************)
EXTENDS Integers, FiniteSets, Sequences

CONSTANTS
    Clients,
    FileOf,        \* the file name in a client's client.in
    NoFile,
    Ifaces,        \* the server's interfaces: address and mask length
    AddrBits,      \* width of an address
    Addrs,         \* which addresses the clients may have together
    Localhost,     \* 127.0.0.1
    MaxChildren,   \* children, and so ports, of the server
    MaxFaults      \* datagrams lost, duplicated or reordered and failed forks

VARIABLES
    addr,          \* the address of a client
    client, port,  \* control of a client, and new_port_number
    file_name,     \* serv_config.file_name of the server's first process
    local,         \* what check_addr_local returned for a client
    child,         \* the forked processes
    listenq, clientq, portq,   \* datagrams on the way
    faults

vars == <<addr, client, port, file_name, local, child, listenq, clientq, portq, faults>>

FileNames == {FileOf[c] : c \in Clients}
Children == 1..MaxChildren
NoPort == 0
Unknown == -1
Addresses == 0..(2^AddrBits - 1)

ASSUME HandshakeAssumption ==
    /\ NoFile \notin FileNames
    /\ AddrBits \in Nat /\ MaxChildren \in Nat /\ MaxFaults \in Nat
    /\ Addrs \subseteq [Clients -> Addresses]
    /\ Ifaces \in Seq([ip : Addresses, mask : 0..AddrBits])

NoChild == [pc |-> "none"]

Init ==
    /\ addr \in Addrs
    /\ client = [c \in Clients |-> "start"]
    /\ port = [c \in Clients |-> NoPort]
    /\ file_name = NoFile
    /\ local = [c \in Clients |-> Unknown]
    /\ child = [k \in Children |-> NoChild]
    /\ listenq = <<>>
    /\ clientq = [c \in Clients |-> <<>>] /\ portq = [k \in Children |-> <<>>]
    /\ faults = 0

---------------------------------------------------------------------------
(* check_addr_local: interfaces are counted from 0, and masks that are        *)
(* contiguous compare as their lengths do.                                   *)

Iface(i) == Ifaces[i + 1]
Matches(a, i) ==
    LET host == 2^(AddrBits - Iface(i).mask)
    IN  a \div host = Iface(i).ip \div host

(* Mutant: the last interface that matches is taken. *)
LastMatch(a, i, found) ==
    IF Matches(a, i) THEN [local |-> i, maxMask |-> Iface(i).mask] ELSE found

(* Mutant: interfaces are counted from 1 here and from 0 by the callers. *)
CountFromOne(a, i, found) ==
    IF Matches(a, i) THEN [local |-> i + 1, maxMask |-> Iface(i).mask] ELSE found

CheckAddr(a, i, found) ==
    IF ~Matches(a, i) THEN found
    ELSE IF Iface(i).mask > found.maxMask THEN [local |-> i, maxMask |-> Iface(i).mask]
    ELSE IF found.local = 0 THEN [found EXCEPT !.local = i]
    ELSE found

(* local and maxMask after the first i interfaces. *)
LocalScan(a) ==
    LET f[i \in 0..Len(Ifaces)] ==
          IF i = 0 THEN [local |-> 0, maxMask |-> 0] ELSE CheckAddr(a, i - 1, f[i - 1])
    IN  f

check_addr_local(a) == IF a = Localhost THEN 1 ELSE LocalScan(a)[Len(Ifaces)].local

---------------------------------------------------------------------------
(* The client. *)

WriteName(c) ==
    /\ client[c] = "start"
    /\ listenq' = Append(listenq, c)
    /\ client' = [client EXCEPT ![c] = "ack"]
    /\ UNCHANGED <<addr, port, file_name, local, child, clientq, portq, faults>>

(* Anything but an acknowledgement is thrown away, the port number too. *)
AwaitAck(c) ==
    /\ client[c] = "ack" /\ clientq[c] # <<>>
    /\ clientq' = [clientq EXCEPT ![c] = Tail(@)]
    /\ client' = IF Head(clientq[c]).type = "ack"
                 THEN [client EXCEPT ![c] = "port"] ELSE client
    /\ UNCHANGED <<addr, port, file_name, local, child, listenq, portq, faults>>

(* Mutant: the client goes on reading its first socket and follows every port *)
(* number it is told.                                                         *)
AwaitPorts(c) ==
    LET m == Head(clientq[c])
    IN  /\ client[c] \in {"port", "transfer"} /\ clientq[c] # <<>>
        /\ clientq' = [clientq EXCEPT ![c] = Tail(@)]
        /\ IF m.type = "data"
           THEN /\ client' = [client EXCEPT ![c] = "strtol"]
                /\ port' = [port EXCEPT ![c] = m.port]
           ELSE UNCHANGED <<client, port>>
        /\ UNCHANGED <<addr, file_name, local, child, listenq, portq, faults>>

AwaitPort(c) ==
    LET m == Head(clientq[c])
    IN  /\ client[c] = "port" /\ clientq[c] # <<>>
        /\ clientq' = [clientq EXCEPT ![c] = Tail(@)]
        /\ IF m.type = "data"
           THEN /\ client' = [client EXCEPT ![c] = "strtol"]
                /\ port' = [port EXCEPT ![c] = m.port]
           ELSE UNCHANGED <<client, port>>
        /\ UNCHANGED <<addr, file_name, local, child, listenq, portq, faults>>

(* strtol stores through a pointer nobody set: the process may end. *)
Strtol(c) ==
    /\ client[c] = "strtol"
    /\ \E outcome \in {"connect", "crashed"} :
          client' = [client EXCEPT ![c] = outcome]
    /\ UNCHANGED <<addr, port, file_name, local, child, listenq, clientq, portq, faults>>

create_new_connection(c) ==
    /\ client[c] = "connect"
    /\ portq' = [portq EXCEPT ![port[c]] = Append(@, c)]
    /\ client' = [client EXCEPT ![c] = "transfer"]
    /\ UNCHANGED <<addr, port, file_name, local, child, listenq, clientq, faults>>

---------------------------------------------------------------------------
(* The server. *)

Unforked == {k \in Children : child[k].pc = "none"}
NextChild == CHOOSE k \in Unforked : TRUE

Acked(c) == [clientq EXCEPT ![c] = Append(@, [type |-> "ack"])]

(* One round of the loop for one of the sockets: requests that came to        *)
(* different interfaces are taken in any order.                              *)
TakeRequest(i) ==
    LET c == listenq[i]
    IN  /\ listenq' = SubSeq(listenq, 1, i - 1) \o SubSeq(listenq, i + 1, Len(listenq))
        /\ file_name' = FileOf[c]
        /\ local' = [local EXCEPT ![c] = check_addr_local(addr[c])]
        /\ clientq' = Acked(c)

(* The child has a copy of the memory of its parent. *)
Request(i) ==
    /\ TakeRequest(i) /\ Unforked # {}
    /\ child' = [child EXCEPT ![NextChild] =
                   [pc |-> "forked", asker |-> listenq[i], cliaddr |-> listenq[i],
                    file |-> FileOf[listenq[i]]]]
    /\ UNCHANGED <<addr, client, port, portq, faults>>

(* fork returns -1, which the loop does not notice. *)
RequestForkFails(i) ==
    /\ TakeRequest(i) /\ faults < MaxFaults
    /\ faults' = faults + 1
    /\ UNCHANGED <<addr, client, port, child, portq>>

(* Mutant: the children bind one port. *)
OnePort(k) == 1

(* bind with port 0: each child has a port of its own. *)
BoundPort(k) == k

(* Mutant: the port number is not marked as data. *)
PortAsAck(k) == [type |-> "ack", port |-> BoundPort(k)]

PortMessage(k) == [type |-> "data", port |-> BoundPort(k)]

SendPort(k) ==
    /\ child[k].pc = "forked"
    /\ clientq' = [clientq EXCEPT ![child[k].cliaddr] = Append(@, PortMessage(k))]
    /\ child' = [child EXCEPT ![k].pc = "waiting"]
    /\ UNCHANGED <<addr, client, port, file_name, local, listenq, portq, faults>>

(* Mutant: the name is read from memory shared with the parent. *)
SharedName(k) == file_name

OwnName(k) == child[k].file

(* The peer is whoever sent the first datagram; then send_file_data opens the *)
(* file.                                                                      *)
FirstDatagram(k) ==
    /\ child[k].pc = "waiting" /\ portq[k] # <<>>
    /\ portq' = [portq EXCEPT ![k] = Tail(@)]
    /\ child' = [child EXCEPT ![k].pc = "transfer", ![k].cliaddr = Head(portq[k]),
                              ![k].file = OwnName(k)]
    /\ UNCHANGED <<addr, client, port, file_name, local, listenq, clientq, faults>>

---------------------------------------------------------------------------
(* The network.  Once a child has its peer, what comes to its port belongs to *)
(* the transfer.                                                             *)

(* What may become of a queue: a datagram lost, doubled or overtaken. *)
Drop(q) == {SubSeq(q, 1, i - 1) \o SubSeq(q, i + 1, Len(q)) : i \in DOMAIN q}
Double(q) == {Append(q, q[i]) : i \in DOMAIN q}
Swap(q) == {[q EXCEPT ![i] = q[i + 1], ![i + 1] = q[i]] : i \in 1..(Len(q) - 1)}
Disturbed(q) == Drop(q) \union Double(q) \union Swap(q)

Fault ==
    /\ faults < MaxFaults /\ faults' = faults + 1
    /\ \/ /\ listenq' \in Disturbed(listenq)
          /\ UNCHANGED <<clientq, portq>>
       \/ \E c \in Clients : \E q \in Disturbed(clientq[c]) :
             clientq' = [clientq EXCEPT ![c] = q] /\ UNCHANGED <<listenq, portq>>
       \/ \E k \in Children : \E q \in Disturbed(portq[k]) :
             portq' = [portq EXCEPT ![k] = q] /\ UNCHANGED <<listenq, clientq>>
    /\ UNCHANGED <<addr, client, port, file_name, local, child>>

Client(c) == WriteName(c) \/ AwaitAck(c) \/ AwaitPort(c) \/ Strtol(c) \/ create_new_connection(c)
Server == \E i \in DOMAIN listenq : Request(i)
Child(k) == SendPort(k) \/ FirstDatagram(k)

Next ==
    \/ \E c \in Clients : Client(c)
    \/ Server
    \/ \E i \in DOMAIN listenq : RequestForkFails(i)
    \/ \E k \in Children : Child(k)
    \/ Fault

Spec == Init /\ [][Next]_vars

(* Processes run on; no datagram waits in a socket for ever. *)
FairSpec ==
    /\ Spec /\ WF_vars(Server)
    /\ \A c \in Clients : WF_vars(Client(c))
    /\ \A k \in Children : WF_vars(Child(k))
---------------------------------------------------------------------------
(* Properties. *)

(* Types of the state. *)
TypeOK ==
    /\ client \in [Clients -> {"start", "ack", "port", "strtol", "connect", "transfer",
                              "crashed"}]
    /\ port \in [Clients -> Children \union {NoPort}]
    /\ file_name \in FileNames \union {NoFile}
    /\ local \in [Clients -> {Unknown} \union (0..(Len(Ifaces) - 1))]
    /\ \A k \in Children :
          child[k] = NoChild \/
          child[k] \in [pc : {"forked", "waiting", "transfer"}, asker : Clients,
                       cliaddr : Clients, file : FileNames]
    /\ faults \in 0..MaxFaults

(* The child takes the sender of the first datagram for its peer without a     *)
(* look at it: that is sound because a client only learns the port of a child  *)
(* that was forked for its own request, repeated requests included.           *)
PortForItsClient ==
    /\ \A c \in Clients : port[c] # NoPort => child[port[c]].pc # "none" /\ child[port[c]].asker = c
    /\ \A k \in Children : child[k].pc = "transfer" => child[k].cliaddr = child[k].asker

Begun(c) == {k \in Children : child[k].pc = "transfer" /\ child[k].cliaddr = c}

Service == INSTANCE FileService WITH
    wanted <- [c \in Clients |-> IF client[c] = "start" THEN NoFile ELSE FileOf[c]],
    served <- [c \in Clients |->
                 IF Begun(c) = {} THEN NoFile ELSE child[CHOOSE k \in Begun(c) : TRUE].file]

(* The set-up implements FileService: whatever is lost, doubled or overtaken,  *)
(* and although the file name passes through one global of the server, the     *)
(* transfer begun for a client is of the file it asked for.                    *)
ImplementsService == Service!Spec

(* No client gets two transfers, even when its datagrams are doubled and more  *)
(* than one child is forked for it.                                            *)
OneTransfer == \A c \in Clients : Cardinality(Begun(c)) <= 1

(* check_addr_local finds the interface with the longest matching mask, unless *)
(* the first one matches as well: its index also means that none does.         *)
LocalIsLongest ==
    \A c \in Clients : (local[c] # Unknown /\ addr[c] # Localhost /\ ~Matches(addr[c], 0)) =>
        LET M == {i \in 0..(Len(Ifaces) - 1) : Matches(addr[c], i)}
        IN  IF M = {} THEN local[c] = 0
            ELSE local[c] \in M /\ \A i \in M : Iface(i).mask <= Iface(local[c]).mask

(* With no datagram disturbed, no failed fork and no crash in strtol every     *)
(* client gets its transfer.  With one of these a client may wait for ever:    *)
(* nobody sends anything again.                                                *)
Connects ==
    <>(\/ faults > 0 \/ \E c \in Clients : client[c] = "crashed"
      \/ \A c \in Clients : Begun(c) # {})
=============================================================================
