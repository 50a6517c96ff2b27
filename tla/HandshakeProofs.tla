-------------------------- MODULE HandshakeProofs --------------------------
(***************************************************************************)
(* Proofs about Handshake.tla, for any number of clients, children and       *)
(* faults: the port a client is told belongs to a child of its own, no       *)
(* client gets two transfers, the set-up implements FileService, and         *)
(* check_addr_local finds the longest match in every list of interfaces.     *)
(***************************************************************************)
EXTENDS Handshake, FiniteSetTheorems, SequenceTheorems, WellFoundedInduction, TLAPS

ChildProcess == [pc : {"forked", "waiting", "transfer"}, asker : Clients, cliaddr : Clients,
                 file : FileNames]

(* The clients that named their file, the children forked for a client, the    *)
(* datagrams that may come to it, and the clients that use a child's port.     *)
Asked == {c \in Clients : client[c] # "start"}
Forked(c) == {k \in Children : child[k].pc # "none" /\ child[k].asker = c}
Message(c) == {[type |-> "ack"]} \union {[type |-> "data", port |-> k] : k \in Forked(c)}
Users(k) == {c \in Clients : port[c] = k}

ControlTypes ==
    /\ client \in [Clients -> {"start", "ack", "port", "strtol", "connect", "transfer",
                              "crashed"}]
    /\ port \in [Clients -> Children \union {NoPort}]
    /\ child \in [Children -> {NoChild} \union ChildProcess]

QueueInv ==
    /\ listenq \in Seq(Asked)
    /\ clientq = [c \in Clients |-> clientq[c]]
    /\ \A c \in Clients : clientq[c] \in Seq(Message(c))
    /\ portq = [k \in Children |-> portq[k]]
    /\ \A k \in Children : portq[k] \in Seq(Users(k))

(* A client is told one port, of a child that was forked for it. *)
ClientInv(c) ==
    /\ client[c] \in {"start", "ack", "port"} => port[c] = NoPort
    /\ client[c] \in {"strtol", "connect", "transfer"} => port[c] # NoPort
    /\ port[c] # NoPort => port[c] \in Forked(c)

(* The first datagram to a child's port is from the client it was forked for. *)
ChildInv(k) ==
    child[k].pc # "none" => /\ child[k].cliaddr = child[k].asker /\ child[k].asker \in Asked
                            /\ child[k].file = FileOf[child[k].asker]
                            /\ child[k].pc = "transfer" => port[child[k].asker] = k

ControlInv == (\A c \in Clients : ClientInv(c)) /\ (\A k \in Children : ChildInv(k))
SetupInv == ControlTypes /\ QueueInv /\ ControlInv

(* What is known of clients and children is never unlearned. *)
Grows == /\ Asked \subseteq Asked'
         /\ \A c \in Clients : Forked(c) \subseteq Forked(c)'
         /\ \A k \in Children : Users(k) \subseteq Users(k)'

---------------------------------------------------------------------------
(* Queues. *)

LEMMA SeqOfMore ==
    ASSUME NEW S, NEW T, S \subseteq T, NEW q \in Seq(S)
    PROVE  q \in Seq(T)
BY SeqMonotonic, ElementOfSeq, Zenon

LEMMA Removed ==
    ASSUME NEW S, NEW q \in Seq(S), NEW i \in DOMAIN q
    PROVE  SubSeq(q, 1, i - 1) \o SubSeq(q, i + 1, Len(q)) \in Seq(S)
<1>1. i \in 1..Len(q) /\ Len(q) \in Nat /\ \A j \in 1..Len(q) : q[j] \in S
  BY LenProperties, ElementOfSeq, Zenon
<1>2. \A j \in 1..(i - 1) : q[j] \in S
  BY <1>1
<1>3. \A j \in (i + 1)..Len(q) : q[j] \in S
  BY <1>1
<1>4. SubSeq(q, 1, i - 1) \in Seq(S)
  BY <1>1, <1>2, SubSeqProperties
<1>5. SubSeq(q, i + 1, Len(q)) \in Seq(S)
  BY <1>1, <1>3, SubSeqProperties
<1>. QED  BY <1>4, <1>5, ConcatProperties, Zenon

LEMMA DisturbedSeq ==
    ASSUME NEW S, NEW q \in Seq(S), NEW r \in Disturbed(q)
    PROVE  r \in Seq(S)
<1>1. CASE r \in Drop(q)
  <2>1. PICK i \in DOMAIN q : r = SubSeq(q, 1, i - 1) \o SubSeq(q, i + 1, Len(q))
    BY <1>1, Zenon DEF Drop
  <2>. QED  BY <2>1, Removed, Zenon
<1>2. CASE r \in Double(q)
  <2>1. PICK i \in DOMAIN q : r = Append(q, q[i])
    BY <1>2, Zenon DEF Double
  <2>2. q[i] \in S
    BY <2>1, LenProperties, ElementOfSeq, Zenon
  <2>. QED  BY <2>1, <2>2, AppendProperties, Zenon
<1>3. CASE r \in Swap(q)
  <2>1. PICK i \in 1..(Len(q) - 1) : r = [q EXCEPT ![i] = q[i + 1], ![i + 1] = q[i]]
    BY <1>3, Zenon DEF Swap
  <2>2. Len(q) \in Nat /\ i \in 1..Len(q) /\ i + 1 \in 1..Len(q)
    BY <2>1, LenProperties
  <2>3. q[i] \in S /\ q[i + 1] \in S
    BY <2>2, ElementOfSeq, Zenon
  <2>4. [q EXCEPT ![i] = q[i + 1]] \in Seq(S) /\ Len([q EXCEPT ![i] = q[i + 1]]) = Len(q)
    BY <2>2, <2>3, ExceptSeq
  <2>5. [[q EXCEPT ![i] = q[i + 1]] EXCEPT ![i + 1] = q[i]] \in Seq(S)
    BY <2>2, <2>3, <2>4, ExceptSeq, Zenon
  <2>. QED  BY <2>1, <2>5, Zenon
<1>. QED  BY <1>1, <1>2, <1>3, Zenon DEF Disturbed

(* What may be in a queue now may be in it later. *)
LEMMA QueuesGrow ==
    ASSUME Grows, listenq' \in Seq(Asked) \union Seq(Asked'),
           clientq' = [c \in Clients |-> clientq'[c]],
           \A c \in Clients : clientq'[c] \in Seq(Message(c)) \union Seq(Message(c)'),
           portq' = [k \in Children |-> portq'[k]],
           \A k \in Children : portq'[k] \in Seq(Users(k)) \union Seq(Users(k)')
    PROVE  QueueInv'
<1>1. \A c \in Clients : Message(c) \subseteq Message(c)'
  BY Zenon DEF Grows, Message
<1>2. listenq' \in Seq(Asked')
  BY SeqOfMore, Zenon DEF Grows
<1>3. \A c \in Clients : clientq'[c] \in Seq(Message(c)')
  BY <1>1, SeqOfMore, Zenon
<1>4. \A k \in Children : portq'[k] \in Seq(Users(k)')
  BY SeqOfMore, Zenon DEF Grows
<1>. QED  BY <1>2, <1>3, <1>4, Zenon DEF QueueInv

LEMMA ClientqTail ==
    ASSUME QueueInv, NEW c \in Clients, clientq[c] # <<>>,
           clientq' = [clientq EXCEPT ![c] = Tail(@)]
    PROVE  /\ Head(clientq[c]) \in Message(c)
           /\ clientq' = [d \in Clients |-> clientq'[d]]
           /\ \A d \in Clients : clientq'[d] \in Seq(Message(d))
<1>1. clientq[c] \in Seq(Message(c))
  BY Zenon DEF QueueInv
<1>2. Head(clientq[c]) \in Message(c) /\ Tail(clientq[c]) \in Seq(Message(c))
  BY <1>1, HeadTailProperties, Zenon
<1>. QED  BY <1>2, Zenon DEF QueueInv

LEMMA ClientqAppend ==
    ASSUME QueueInv, NEW c \in Clients, NEW m \in Message(c),
           clientq' = [clientq EXCEPT ![c] = Append(@, m)]
    PROVE  /\ clientq' = [d \in Clients |-> clientq'[d]]
           /\ \A d \in Clients : clientq'[d] \in Seq(Message(d))
<1>1. Append(clientq[c], m) \in Seq(Message(c))
  BY AppendProperties, Zenon DEF QueueInv
<1>. QED  BY <1>1, Zenon DEF QueueInv

---------------------------------------------------------------------------
(* The invariant is inductive: one lemma per action.  Quiet steps are steps   *)
(* that FileService does not see.                                             *)

Quiet == Asked' = Asked /\ \A c \in Clients : Begun(c)' = Begun(c)

LEMMA PortFacts == NoPort \notin Children /\ Children \subseteq Nat
BY HandshakeAssumption DEF NoPort, Children

LEMMA InitInv == Init => SetupInv
<1>1. SUFFICES ASSUME Init PROVE SetupInv
  BY Zenon
<1>2. ControlTypes
  BY <1>1, Zenon DEF Init, ControlTypes
<1>3. QueueInv
  BY <1>1, EmptySeq, Zenon DEF Init, QueueInv
<1>4. ControlInv
  BY <1>1, Zenon DEF Init, ControlInv, ClientInv, ChildInv, NoChild
<1>. QED  BY <1>2, <1>3, <1>4, Zenon DEF SetupInv

(* Steps that change no port and no child, but perhaps where a client is. *)
LEMMA ClientMoves ==
    ASSUME SetupInv, UNCHANGED <<port, child>>, ControlTypes',
           \A c \in Clients : \/ client'[c] = client[c]
                              \/ client[c] = "start" /\ client'[c] = "ack"
                              \/ client[c] = "ack" /\ client'[c] = "port"
                              \/ client[c] = "strtol" /\ client'[c] \in {"connect", "crashed"}
                              \/ client[c] = "connect" /\ client'[c] = "transfer"
    PROVE  Grows /\ ControlInv' /\ \A c \in Clients : Begun(c)' = Begun(c)
<1>1. Asked \subseteq Asked'
  BY Zenon DEF Asked
<1>2. (\A c \in Clients : Forked(c)' = Forked(c)) /\ (\A k \in Children : Users(k)' = Users(k))
  BY Zenon DEF Forked, Users
<1>3. \A c \in Clients : Begun(c)' = Begun(c)
  BY Zenon DEF Begun
<1>4. ASSUME NEW c \in Clients PROVE ClientInv(c)'
  <2>1. ClientInv(c)
    BY Zenon DEF SetupInv, ControlInv
  <2>2. port'[c] # NoPort => port'[c] \in Forked(c)'
    BY <1>2, <2>1, Zenon DEF ClientInv
  <2>. QED  BY <2>1, <2>2, Zenon DEF ClientInv
<1>5. ASSUME NEW k \in Children PROVE ChildInv(k)'
  <2>1. ChildInv(k)
    BY Zenon DEF SetupInv, ControlInv
  <2>. QED  BY <1>1, <2>1, Zenon DEF ChildInv
<1>. QED  BY <1>1, <1>2, <1>3, <1>4, <1>5, Zenon DEF Grows, ControlInv

LEMMA WriteNameInv ==
    ASSUME SetupInv, NEW c \in Clients, WriteName(c)
    PROVE  /\ SetupInv' /\ Asked' = Asked \union {c} /\ c \notin Asked
           /\ \A d \in Clients : Begun(d)' = Begun(d)
<1>1. /\ client[c] = "start" /\ listenq' = Append(listenq, c)
      /\ client' = [client EXCEPT ![c] = "ack"] /\ UNCHANGED <<port, child, clientq, portq>>
  BY Zenon DEF WriteName
<1>2. ControlTypes'
  BY <1>1, Zenon DEF SetupInv, ControlTypes
<1>3. Grows /\ ControlInv' /\ \A d \in Clients : Begun(d)' = Begun(d)
  BY <1>1, <1>2, ClientMoves, Zenon DEF SetupInv, ControlTypes
<1>4. Asked' = Asked \union {c} /\ c \notin Asked
  BY <1>1, Zenon DEF SetupInv, ControlTypes, Asked
<1>5. listenq' \in Seq(Asked')
  <2>1. listenq \in Seq(Asked')
    BY <1>4, SeqOfMore, Zenon DEF SetupInv, QueueInv
  <2>. QED  BY <1>1, <1>4, <2>1, AppendProperties, Zenon
<1>6. QueueInv'
  BY <1>1, <1>3, <1>5, QueuesGrow, Zenon DEF SetupInv, QueueInv
<1>. QED  BY <1>2, <1>3, <1>4, <1>6, Zenon DEF SetupInv

LEMMA AwaitAckInv ==
    ASSUME SetupInv, NEW c \in Clients, AwaitAck(c)
    PROVE  SetupInv' /\ Quiet
<1>1. /\ client[c] = "ack" /\ clientq[c] # <<>> /\ clientq' = [clientq EXCEPT ![c] = Tail(@)]
      /\ UNCHANGED <<port, child, listenq, portq>>
      /\ client' = client \/ client' = [client EXCEPT ![c] = "port"]
  BY Zenon DEF AwaitAck
<1>2. ControlTypes' /\ Asked' = Asked
  BY <1>1, Zenon DEF SetupInv, ControlTypes, Asked
<1>3. Grows /\ ControlInv' /\ \A d \in Clients : Begun(d)' = Begun(d)
  BY <1>1, <1>2, ClientMoves, Zenon DEF SetupInv, ControlTypes
<1>4. /\ clientq' = [d \in Clients |-> clientq'[d]]
      /\ \A d \in Clients : clientq'[d] \in Seq(Message(d))
  BY <1>1, ClientqTail, Zenon DEF SetupInv
<1>5. QueueInv'
  BY <1>1, <1>3, <1>4, QueuesGrow, Zenon DEF SetupInv, QueueInv
<1>. QED  BY <1>2, <1>3, <1>5, Zenon DEF SetupInv, Quiet

LEMMA StrtolInv ==
    ASSUME SetupInv, NEW c \in Clients, Strtol(c)
    PROVE  SetupInv' /\ Quiet
<1>1. PICK outcome \in {"connect", "crashed"} : client' = [client EXCEPT ![c] = outcome]
  BY Zenon DEF Strtol
<1>2. client[c] = "strtol" /\ UNCHANGED <<port, child, listenq, clientq, portq>>
  BY Zenon DEF Strtol
<1>3. ControlTypes' /\ Asked' = Asked
  BY <1>1, <1>2, Zenon DEF SetupInv, ControlTypes, Asked
<1>4. Grows /\ ControlInv' /\ \A d \in Clients : Begun(d)' = Begun(d)
  BY <1>1, <1>2, <1>3, ClientMoves, Zenon DEF SetupInv, ControlTypes
<1>5. QueueInv'
  BY <1>2, <1>4, QueuesGrow, Zenon DEF SetupInv, QueueInv
<1>. QED  BY <1>3, <1>4, <1>5, Zenon DEF SetupInv, Quiet

LEMMA CreateNewConnectionInv ==
    ASSUME SetupInv, NEW c \in Clients, create_new_connection(c)
    PROVE  SetupInv' /\ Quiet
<1>1. /\ client[c] = "connect" /\ portq' = [portq EXCEPT ![port[c]] = Append(@, c)]
      /\ client' = [client EXCEPT ![c] = "transfer"]
      /\ UNCHANGED <<port, child, listenq, clientq>>
  BY Zenon DEF create_new_connection
<1>2. ControlTypes' /\ Asked' = Asked
  BY <1>1, Zenon DEF SetupInv, ControlTypes, Asked
<1>3. Grows /\ ControlInv' /\ \A d \in Clients : Begun(d)' = Begun(d)
  BY <1>1, <1>2, ClientMoves, Zenon DEF SetupInv, ControlTypes
<1>4. port[c] \in Children
  BY <1>1, Zenon DEF SetupInv, ControlTypes, ControlInv, ClientInv
<1>5. /\ portq' = [k \in Children |-> portq'[k]]
      /\ \A k \in Children : portq'[k] \in Seq(Users(k))
  <2>1. c \in Users(port[c])
    BY Zenon DEF Users
  <2>2. Append(portq[port[c]], c) \in Seq(Users(port[c]))
    BY <1>4, <2>1, AppendProperties, Zenon DEF SetupInv, QueueInv
  <2>. QED  BY <1>1, <1>4, <2>2, Zenon DEF SetupInv, QueueInv
<1>6. QueueInv'
  BY <1>1, <1>3, <1>5, QueuesGrow, Zenon DEF SetupInv, QueueInv
<1>. QED  BY <1>2, <1>3, <1>6, Zenon DEF SetupInv, Quiet

LEMMA AwaitPortInv ==
    ASSUME SetupInv, NEW c \in Clients, AwaitPort(c)
    PROVE  SetupInv' /\ Quiet
<1>. DEFINE m == Head(clientq[c])
<1>1. /\ client[c] = "port" /\ clientq[c] # <<>> /\ clientq' = [clientq EXCEPT ![c] = Tail(@)]
      /\ UNCHANGED <<child, listenq, portq>>
  BY Zenon DEF AwaitPort
<1>2. /\ m \in Message(c) /\ clientq' = [d \in Clients |-> clientq'[d]]
      /\ \A d \in Clients : clientq'[d] \in Seq(Message(d))
  BY <1>1, ClientqTail, Zenon DEF SetupInv
<1>3. \A d \in Clients : Begun(d)' = Begun(d) /\ Forked(d)' = Forked(d)
  BY <1>1, Zenon DEF Begun, Forked
<1>4. CASE m.type = "data"
  <2>1. PICK k \in Forked(c) : m.port = k
    BY <1>2, <1>4 DEF Message
  <2>2. client' = [client EXCEPT ![c] = "strtol"] /\ port' = [port EXCEPT ![c] = k]
    BY <1>4, <2>1, Zenon DEF AwaitPort
  <2>3. k \in Children /\ port[c] = NoPort
    BY <1>1, Zenon DEF Forked, SetupInv, ControlInv, ClientInv
  <2>4. ControlTypes' /\ Asked' = Asked
    BY <1>1, <2>2, <2>3, Zenon DEF SetupInv, ControlTypes, Asked
  <2>5. Grows
    <3>1. \A j \in Children : Users(j) \subseteq Users(j)'
      BY <2>2, <2>3, PortFacts, Zenon DEF Users, SetupInv, ControlTypes
    <3>. QED  BY <1>3, <2>4, <3>1, Zenon DEF Grows
  <2>6. ASSUME NEW d \in Clients PROVE ClientInv(d)'
    <3>1. ClientInv(d)
      BY Zenon DEF SetupInv, ControlInv
    <3>2. CASE d = c
      <4>1. client'[d] = "strtol" /\ port'[d] = k /\ k # NoPort
        BY <2>2, <2>3, <3>2, PortFacts, Zenon DEF SetupInv, ControlTypes
      <4>. QED  BY <1>3, <2>1, <3>2, <4>1, Zenon DEF ClientInv
    <3>3. CASE d # c
      <4>1. client'[d] = client[d] /\ port'[d] = port[d]
        BY <2>2, <3>3, Zenon DEF SetupInv, ControlTypes
      <4>. QED  BY <1>3, <3>1, <4>1, Zenon DEF ClientInv
    <3>. QED  BY <3>2, <3>3, Zenon
  <2>7. ASSUME NEW j \in Children PROVE ChildInv(j)'
    <3>1. ChildInv(j)
      BY Zenon DEF SetupInv, ControlInv
    <3>2. child[j].pc = "transfer" => child[j].asker # c
      BY <2>3, <3>1, PortFacts, Zenon DEF ChildInv
    <3>3. child[j].pc = "transfer" => port'[child[j].asker] = j
      BY <2>2, <3>1, <3>2, Zenon DEF ChildInv, SetupInv, ControlTypes, Asked
    <3>. QED  BY <1>1, <2>4, <3>1, <3>3, Zenon DEF ChildInv
  <2>8. QueueInv'
    BY <1>1, <1>2, <2>5, QueuesGrow, Zenon DEF SetupInv, QueueInv
  <2>. QED  BY <1>3, <2>4, <2>6, <2>7, <2>8, Zenon DEF SetupInv, ControlInv, Quiet
<1>5. CASE m.type # "data"
  <2>1. UNCHANGED <<client, port>>
    BY <1>5, Zenon DEF AwaitPort
  <2>2. ControlTypes' /\ Asked' = Asked
    BY <1>1, <2>1, Zenon DEF SetupInv, ControlTypes, Asked
  <2>3. Grows /\ ControlInv'
    BY <1>1, <2>1, <2>2, ClientMoves, Zenon
  <2>4. QueueInv'
    BY <1>1, <1>2, <2>3, QueuesGrow, Zenon DEF SetupInv, QueueInv
  <2>. QED  BY <1>3, <2>2, <2>3, <2>4, Zenon DEF SetupInv, Quiet
<1>. QED  BY <1>4, <1>5, Zenon

LEMMA TakeRequestQueues ==
    ASSUME SetupInv, NEW i \in DOMAIN listenq, TakeRequest(i)
    PROVE  /\ listenq[i] \in Asked /\ listenq' \in Seq(Asked)
           /\ clientq' = [d \in Clients |-> clientq'[d]]
           /\ \A d \in Clients : clientq'[d] \in Seq(Message(d))
<1>1. listenq \in Seq(Asked)
  BY Zenon DEF SetupInv, QueueInv
<1>2. listenq[i] \in Asked
  BY <1>1, LenProperties, ElementOfSeq, Zenon
<1>3. listenq' \in Seq(Asked)
  BY <1>1, Removed, Zenon DEF TakeRequest
<1>4. PICK c \in Clients : c = listenq[i]
  BY <1>2, Zenon DEF Asked
<1>5. clientq' = [clientq EXCEPT ![c] = Append(@, [type |-> "ack"])]
  BY <1>4, Zenon DEF TakeRequest, Acked
<1>6. [type |-> "ack"] \in Message(c)
  BY Zenon DEF Message
<1>. QED  BY <1>2, <1>3, <1>5, <1>6, ClientqAppend, Zenon DEF SetupInv

LEMMA RequestForkFailsInv ==
    ASSUME SetupInv, NEW i \in DOMAIN listenq, RequestForkFails(i)
    PROVE  SetupInv' /\ Quiet
<1>1. UNCHANGED <<client, port, child, portq>> /\ TakeRequest(i)
  BY Zenon DEF RequestForkFails
<1>2. ControlTypes' /\ Asked' = Asked
  BY <1>1, Zenon DEF SetupInv, ControlTypes, Asked
<1>3. Grows /\ ControlInv' /\ \A d \in Clients : Begun(d)' = Begun(d)
  BY <1>1, <1>2, ClientMoves, Zenon
<1>4. QueueInv'
  BY <1>1, <1>3, TakeRequestQueues, QueuesGrow, Zenon DEF SetupInv, QueueInv
<1>. QED  BY <1>2, <1>3, <1>4, Zenon DEF SetupInv, Quiet

(* A step of one child that does not begin a transfer. *)
LEMMA ChildMoves ==
    ASSUME SetupInv, NEW k \in Children, NEW e \in ChildProcess, UNCHANGED <<client, port>>,
           child' = [child EXCEPT ![k] = e], e.pc # "transfer", e.cliaddr = e.asker,
           e.asker \in Asked, e.file = FileOf[e.asker], child[k].pc # "transfer",
           child[k].pc # "none" => child[k].asker = e.asker
    PROVE  ControlTypes' /\ ControlInv' /\ Grows /\ Quiet
<1>1. /\ child'[k] = e /\ \A j \in Children : j # k => child'[j] = child[j]
      /\ child' \in [Children -> {NoChild} \union ChildProcess]
      /\ e.pc # "none"
  BY Zenon DEF SetupInv, ControlTypes, ChildProcess
<1>2. ControlTypes' /\ Asked' = Asked /\ \A j \in Children : Users(j)' = Users(j)
  BY <1>1, Zenon DEF SetupInv, ControlTypes, Asked, Users
<1>3. \A c \in Clients : Forked(c) \subseteq Forked(c)'
  BY <1>1, Zenon DEF Forked
<1>4. \A c \in Clients : Begun(c)' = Begun(c)
  BY <1>1, Zenon DEF Begun
<1>5. \A c \in Clients : ClientInv(c)'
  BY <1>3, Zenon DEF SetupInv, ControlInv, ClientInv
<1>6. ASSUME NEW j \in Children PROVE ChildInv(j)'
  <2>1. CASE j = k
    BY <1>1, <1>2, <2>1, Zenon DEF ChildInv
  <2>2. CASE j # k
    <3>1. ChildInv(j) /\ child'[j] = child[j]
      BY <1>1, <2>2, Zenon DEF SetupInv, ControlInv
    <3>. QED  BY <1>2, <3>1 DEF ChildInv
  <2>. QED  BY <2>1, <2>2, Zenon
<1>. QED  BY <1>2, <1>3, <1>4, <1>5, <1>6, Zenon DEF Grows, ControlInv, Quiet

LEMMA RequestInv ==
    ASSUME SetupInv, NEW i \in DOMAIN listenq, Request(i)
    PROVE  SetupInv' /\ Quiet
<1>1. TakeRequest(i) /\ UNCHANGED <<client, port, portq>>
  BY Zenon DEF Request
<1>2. PICK c \in Asked : c = listenq[i]
  BY <1>1, TakeRequestQueues, Zenon
<1>. DEFINE e == [pc |-> "forked", asker |-> c, cliaddr |-> c, file |-> FileOf[c]]
<1>3. c \in Clients /\ FileOf[c] \in FileNames
  BY <1>2, Zenon DEF Asked, FileNames
<1>4. e \in ChildProcess /\ e.pc = "forked" /\ e.asker = c /\ e.cliaddr = c /\ e.file = FileOf[c]
  BY <1>3, Zenon DEF ChildProcess
<1>5. PICK k \in Children : k = NextChild /\ child[k].pc = "none"
  <2>1. Unforked # {}
    BY Zenon DEF Request
  <2>2. NextChild \in Unforked
    BY <2>1, Zenon DEF NextChild
  <2>. QED  BY <2>2, Zenon DEF Unforked
<1>6. child' = [child EXCEPT ![k] = e]
  BY <1>2, <1>5, Zenon DEF Request
<1>. HIDE DEF e
<1>7. ControlTypes' /\ ControlInv' /\ Grows /\ Quiet
  BY <1>1, <1>2, <1>4, <1>5, <1>6, ChildMoves, Zenon
<1>8. QueueInv'
  BY <1>1, <1>7, TakeRequestQueues, QueuesGrow, Zenon DEF SetupInv, QueueInv
<1>. QED  BY <1>7, <1>8, Zenon DEF SetupInv

LEMMA SendPortInv ==
    ASSUME SetupInv, NEW k \in Children, SendPort(k)
    PROVE  SetupInv' /\ Quiet
<1>. DEFINE e == [child[k] EXCEPT !.pc = "waiting"]
<1>1. /\ child[k].pc = "forked" /\ child' = [child EXCEPT ![k] = e]
      /\ clientq' = [clientq EXCEPT ![child[k].cliaddr] = Append(@, PortMessage(k))]
      /\ UNCHANGED <<client, port, listenq, portq>>
  BY Zenon DEF SendPort
<1>2. child[k] \in ChildProcess /\ ChildInv(k)
  BY <1>1 DEF SetupInv, ControlTypes, ControlInv, NoChild
<1>3. /\ e \in ChildProcess /\ e.pc = "waiting" /\ e.asker = child[k].asker
      /\ e.cliaddr = child[k].cliaddr /\ e.file = child[k].file
  BY <1>2, Zenon DEF ChildProcess
<1>. HIDE DEF e
<1>4. ControlTypes' /\ ControlInv' /\ Grows /\ Quiet
  BY <1>1, <1>2, <1>3, ChildMoves, Zenon DEF ChildInv
<1>5. PICK c \in Clients : c = child[k].cliaddr /\ c = child[k].asker
  BY <1>1, <1>2, Zenon DEF ChildInv, ChildProcess
<1>6. PortMessage(k) \in Message(c)
  BY <1>1, <1>5, Zenon DEF PortMessage, BoundPort, Message, Forked
<1>7. /\ clientq' = [d \in Clients |-> clientq'[d]]
      /\ \A d \in Clients : clientq'[d] \in Seq(Message(d))
  BY <1>1, <1>5, <1>6, ClientqAppend, Zenon DEF SetupInv
<1>8. QueueInv'
  BY <1>1, <1>4, <1>7, QueuesGrow, Zenon DEF SetupInv, QueueInv
<1>. QED  BY <1>4, <1>8, Zenon DEF SetupInv

(* A transfer begins, the first one of the client the child was forked for. *)
LEMMA FirstDatagramInv ==
    ASSUME SetupInv, NEW k \in Children, FirstDatagram(k)
    PROVE  /\ SetupInv' /\ Asked' = Asked
           /\ \E c \in Asked : /\ Begun(c) = {} /\ Begun(c)' = {k}
                               /\ \A d \in Clients : d # c => Begun(d)' = Begun(d)
<1>1. /\ child[k].pc = "waiting" /\ portq[k] # <<>> /\ portq' = [portq EXCEPT ![k] = Tail(@)]
      /\ child' = [child EXCEPT ![k].pc = "transfer", ![k].cliaddr = Head(portq[k]),
                                ![k].file = OwnName(k)]
      /\ UNCHANGED <<client, port, listenq, clientq>>
  BY Zenon DEF FirstDatagram
<1>2. child[k] \in ChildProcess /\ ChildInv(k)
  BY <1>1 DEF SetupInv, ControlTypes, ControlInv, NoChild
<1>3. Head(portq[k]) \in Users(k) /\ Tail(portq[k]) \in Seq(Users(k))
  BY <1>1, HeadTailProperties, Zenon DEF SetupInv, QueueInv
<1>4. PICK c \in Clients : c = Head(portq[k]) /\ port[c] = k
  BY <1>3, Zenon DEF Users
<1>5. child[k].asker = c /\ c \in Asked
  <2>1. k \in Forked(c)
    BY <1>4, PortFacts, Zenon DEF SetupInv, ControlInv, ClientInv
  <2>. QED  BY <1>1, <1>2, <2>1, Zenon DEF Forked, ChildInv
<1>. DEFINE e == [child[k] EXCEPT !.pc = "transfer", !.cliaddr = c, !.file = child[k].file]
<1>6. /\ e \in ChildProcess /\ e.pc = "transfer" /\ e.asker = c /\ e.cliaddr = c
      /\ e.file = FileOf[c]
  BY <1>1, <1>2, <1>5, Zenon DEF ChildProcess, ChildInv
<1>7. child' = [child EXCEPT ![k] = e]
  BY <1>1, <1>4, Zenon DEF OwnName
<1>. HIDE DEF e
<1>8. /\ child'[k] = e /\ \A j \in Children : j # k => child'[j] = child[j]
      /\ child' \in [Children -> {NoChild} \union ChildProcess]
  BY <1>6, <1>7, Zenon DEF SetupInv, ControlTypes
<1>9. ControlTypes' /\ Asked' = Asked /\ \A j \in Children : Users(j)' = Users(j)
  BY <1>1, <1>8, Zenon DEF SetupInv, ControlTypes, Asked, Users
<1>10. \A d \in Clients : Forked(d)' = Forked(d)
  BY <1>1, <1>5, <1>6, <1>8 DEF Forked
<1>11. Grows
  BY <1>9, <1>10, Zenon DEF Grows
<1>12. \A d \in Clients : ClientInv(d)'
  BY <1>1, <1>10, Zenon DEF SetupInv, ControlInv, ClientInv
<1>13. ASSUME NEW j \in Children PROVE ChildInv(j)'
  <2>1. port' = port
    BY <1>1, Zenon
  <2>2. CASE j = k
    <3>1. child'[j] = e /\ port'[c] = j
      BY <1>4, <1>8, <2>1, <2>2, Zenon
    <3>. QED  BY <1>5, <1>6, <1>9, <3>1, Zenon DEF ChildInv
  <2>3. CASE j # k
    <3>1. ChildInv(j) /\ child'[j] = child[j]
      BY <1>8, <2>3, Zenon DEF SetupInv, ControlInv
    <3>. QED  BY <1>9, <2>1, <3>1, Zenon DEF ChildInv
  <2>. QED  BY <2>2, <2>3, Zenon
<1>14. QueueInv'
  <2>1. /\ portq' = [j \in Children |-> portq'[j]]
        /\ \A j \in Children : portq'[j] \in Seq(Users(j))
    BY <1>1, <1>3, Zenon DEF SetupInv, QueueInv
  <2>. QED  BY <1>1, <1>11, <2>1, QueuesGrow, Zenon DEF SetupInv, QueueInv
<1>15. Begun(c) = {}
  <2>1. \A j \in Begun(c) : j = k
    BY <1>4, Zenon DEF Begun, SetupInv, ControlInv, ChildInv
  <2>2. k \notin Begun(c)
    BY <1>1, Zenon DEF Begun
  <2>. QED  BY <2>1, <2>2, Zenon
<1>16. Begun(c)' = {k}
  <2>1. \A j \in Children : j # k => ~(child'[j].pc = "transfer" /\ child'[j].cliaddr = c)
    BY <1>8, <1>15, Zenon DEF Begun
  <2>. QED  BY <1>6, <1>8, <2>1, Zenon DEF Begun
<1>17. \A d \in Clients : d # c => Begun(d)' = Begun(d)
  <2>1. \A d \in Clients : d # c => k \notin Begun(d) /\ k \notin Begun(d)'
    BY <1>1, <1>6, <1>8, Zenon DEF Begun
  <2>. QED  BY <1>8, <2>1, Zenon DEF Begun
<1>. QED  BY <1>5, <1>9, <1>12, <1>13, <1>14, <1>15, <1>16, <1>17, Zenon
             DEF SetupInv, ControlInv

LEMMA FaultInv ==
    ASSUME SetupInv, Fault
    PROVE  SetupInv' /\ Quiet
<1>1. UNCHANGED <<client, port, child>>
  BY Zenon DEF Fault
<1>2. ControlTypes' /\ Asked' = Asked
  BY <1>1, Zenon DEF SetupInv, ControlTypes, Asked
<1>3. Grows /\ ControlInv' /\ \A d \in Clients : Begun(d)' = Begun(d)
  BY <1>1, <1>2, ClientMoves, Zenon
<1>4. QueueInv'
  <2>1. CASE listenq' \in Disturbed(listenq) /\ UNCHANGED <<clientq, portq>>
    <3>1. listenq' \in Seq(Asked)
      BY <2>1, DisturbedSeq, Zenon DEF SetupInv, QueueInv
    <3>. QED  BY <1>3, <2>1, <3>1, QueuesGrow, Zenon DEF SetupInv, QueueInv
  <2>2. CASE \E c \in Clients : \E q \in Disturbed(clientq[c]) :
                clientq' = [clientq EXCEPT ![c] = q] /\ UNCHANGED <<listenq, portq>>
    <3>1. PICK c \in Clients : \E q \in Disturbed(clientq[c]) :
                clientq' = [clientq EXCEPT ![c] = q] /\ UNCHANGED <<listenq, portq>>
      BY <2>2, Zenon
    <3>2. PICK q \in Disturbed(clientq[c]) :
                clientq' = [clientq EXCEPT ![c] = q] /\ UNCHANGED <<listenq, portq>>
      BY <3>1, Zenon
    <3>3. q \in Seq(Message(c))
      BY DisturbedSeq, Zenon DEF SetupInv, QueueInv
    <3>4. /\ clientq' = [d \in Clients |-> clientq'[d]]
          /\ \A d \in Clients : clientq'[d] \in Seq(Message(d))
      BY <3>2, <3>3, Zenon DEF SetupInv, QueueInv
    <3>. QED  BY <1>3, <3>2, <3>4, QueuesGrow, Zenon DEF SetupInv, QueueInv
  <2>3. CASE \E k \in Children : \E q \in Disturbed(portq[k]) :
                portq' = [portq EXCEPT ![k] = q] /\ UNCHANGED <<listenq, clientq>>
    <3>1. PICK k \in Children : \E q \in Disturbed(portq[k]) :
                portq' = [portq EXCEPT ![k] = q] /\ UNCHANGED <<listenq, clientq>>
      BY <2>3, Zenon
    <3>2. PICK q \in Disturbed(portq[k]) :
                portq' = [portq EXCEPT ![k] = q] /\ UNCHANGED <<listenq, clientq>>
      BY <3>1, Zenon
    <3>3. q \in Seq(Users(k))
      BY DisturbedSeq, Zenon DEF SetupInv, QueueInv
    <3>4. /\ portq' = [j \in Children |-> portq'[j]]
          /\ \A j \in Children : portq'[j] \in Seq(Users(j))
      BY <3>2, <3>3, Zenon DEF SetupInv, QueueInv
    <3>. QED  BY <1>3, <3>2, <3>4, QueuesGrow, Zenon DEF SetupInv, QueueInv
  <2>. QED  BY <2>1, <2>2, <2>3, Zenon DEF Fault
<1>. QED  BY <1>2, <1>3, <1>4, Zenon DEF SetupInv, Quiet

LEMMA StutterInv ==
    ASSUME SetupInv, UNCHANGED vars
    PROVE  SetupInv' /\ Quiet
BY DEF vars, SetupInv, ControlTypes, QueueInv, ControlInv, ClientInv, ChildInv, Asked, Forked,
       Message, Users, Quiet, Begun

---------------------------------------------------------------------------
(* Theorems. *)

(* What FileService sees of a step: nothing, a client that asks, or a transfer *)
(* that begins.                                                                *)
LEMMA StepInv ==
    ASSUME SetupInv, [Next]_vars
    PROVE  /\ SetupInv'
           /\ \/ Quiet
              \/ \E c \in Clients : WriteName(c)
              \/ \E k \in Children : FirstDatagram(k)
<1>1. CASE \E c \in Clients : Client(c)
  BY <1>1, WriteNameInv, AwaitAckInv, AwaitPortInv, StrtolInv, CreateNewConnectionInv, Zenon
     DEF Client
<1>2. CASE \E i \in DOMAIN listenq : Request(i) \/ RequestForkFails(i)
  BY <1>2, RequestInv, RequestForkFailsInv, Zenon
<1>3. CASE \E k \in Children : Child(k)
  BY <1>3, SendPortInv, FirstDatagramInv, Zenon DEF Child
<1>4. CASE Fault
  BY <1>4, FaultInv, Zenon
<1>5. CASE UNCHANGED vars
  BY <1>5, StutterInv, Zenon
<1>. QED  BY <1>1, <1>2, <1>3, <1>4, <1>5, Zenon DEF Next, Server

(* The inductive invariant: every port number under way and every datagram to  *)
(* a child's port belong to the client the child was forked for.               *)
THEOREM SetupInvariant == Spec => []SetupInv
<1>1. Init => SetupInv
  BY InitInv, Zenon
<1>2. SetupInv /\ [Next]_vars => SetupInv'
  BY StepInv, Zenon
<1>. QED  BY <1>1, <1>2, PTL DEF Spec

(* A client only learns the port of a child of its own, and a child's peer is  *)
(* the client it was forked for.                                               *)
THEOREM PortsBelong == Spec => []PortForItsClient
<1>1. SetupInv => PortForItsClient
  BY Zenon DEF SetupInv, ControlInv, ClientInv, ChildInv, Forked, PortForItsClient
<1>. QED  BY <1>1, SetupInvariant, PTL

LEMMA BegunIsPort ==
    ASSUME SetupInv, NEW c \in Clients, NEW k \in Begun(c)
    PROVE  k = port[c] /\ child[k].file = FileOf[c]
BY Zenon DEF Begun, SetupInv, ControlInv, ChildInv

(* No client gets two transfers, however many children were forked for it. *)
THEOREM OneTransferEach == Spec => []OneTransfer
<1>1. ASSUME SetupInv, NEW c \in Clients PROVE Cardinality(Begun(c)) <= 1
  <2>1. CASE Begun(c) = {}
    BY <2>1, FS_EmptySet
  <2>2. CASE Begun(c) # {}
    <3>1. PICK x : Begun(c) = {x}
      BY <1>1, <2>2, BegunIsPort
    <3>2. Cardinality({x}) = 1
      BY FS_Singleton, Zenon
    <3>. QED  BY <3>1, <3>2
  <2>. QED  BY <2>1, <2>2, Zenon
<1>2. SetupInv => OneTransfer
  BY <1>1, Zenon DEF OneTransfer
<1>. QED  BY <1>2, SetupInvariant, PTL

(* The state of FileService under the refinement mapping. *)
WantedNow == [c \in Clients |-> IF client[c] = "start" THEN NoFile ELSE FileOf[c]]
ServedNow == [c \in Clients |->
                IF Begun(c) = {} THEN NoFile ELSE child[CHOOSE k \in Begun(c) : TRUE].file]

(* What it is in the states of the invariant. *)
Mapped ==
    /\ WantedNow = [c \in Clients |-> IF c \in Asked THEN FileOf[c] ELSE NoFile]
    /\ ServedNow = [c \in Clients |-> IF Begun(c) = {} THEN NoFile ELSE FileOf[c]]

LEMMA MappedInv == SetupInv => Mapped
<1>1. WantedNow = [c \in Clients |-> IF c \in Asked THEN FileOf[c] ELSE NoFile]
  BY Zenon DEF WantedNow, Asked
<1>2. ASSUME SetupInv, NEW c \in Clients, Begun(c) # {}
      PROVE  child[CHOOSE k \in Begun(c) : TRUE].file = FileOf[c]
  <2>1. (CHOOSE k \in Begun(c) : TRUE) \in Begun(c)
    BY <1>2, Zenon
  <2>. QED  BY <1>2, <2>1, BegunIsPort, Zenon
<1>. QED  BY <1>1, <1>2, Zenon DEF ServedNow, Mapped

(* The set-up implements FileService: the first datagram of a child is the     *)
(* step Serve, and the file it opens is the one its client asked for.          *)
THEOREM SetupImplementsService == Spec => ImplementsService
<1>1. Init => Service!Init
  <2>1. SUFFICES ASSUME Init PROVE Service!Init
    BY Zenon
  <2>2. \A c \in Clients : client[c] = "start" /\ Begun(c) = {}
    BY <2>1, Zenon DEF Init, Begun, NoChild
  <2>3. WantedNow = [c \in Clients |-> NoFile] /\ ServedNow = [c \in Clients |-> NoFile]
    BY <2>2, Zenon DEF WantedNow, ServedNow
  <2>. QED  BY <2>3, Zenon DEF Service!Init, WantedNow, ServedNow
<1>2. SetupInv => Mapped
  BY MappedInv, Zenon
<1>3. SetupInv' => Mapped'
  BY <1>2, PTL
<1>4. SetupInv /\ [Next]_vars => [Service!Next]_<<WantedNow, ServedNow>>
  <2>1. SUFFICES ASSUME SetupInv, [Next]_vars
                 PROVE  Service!Next \/ (WantedNow' = WantedNow /\ ServedNow' = ServedNow)
    BY Zenon
  <2>2. /\ SetupInv'
        /\ Quiet \/ (\E c \in Clients : WriteName(c)) \/ (\E k \in Children : FirstDatagram(k))
    BY <2>1, StepInv, Zenon
  <2>3. /\ ServedNow = [c \in Clients |-> IF Begun(c) = {} THEN NoFile ELSE FileOf[c]]
        /\ ServedNow' = [c \in Clients |-> IF Begun(c)' = {} THEN NoFile ELSE FileOf[c]]
    BY <1>2, <1>3, <2>1, <2>2, Zenon DEF Mapped
  <2>4. /\ WantedNow = [c \in Clients |-> IF c \in Asked THEN FileOf[c] ELSE NoFile]
        /\ WantedNow' = [c \in Clients |-> IF c \in Asked' THEN FileOf[c] ELSE NoFile]
    BY <1>2, <1>3, <2>1, <2>2, Zenon DEF Mapped
  <2>5. \A c \in Clients : FileOf[c] # NoFile /\ FileOf[c] \in FileNames
    BY HandshakeAssumption, Zenon DEF FileNames
  <2>6. CASE Quiet
    BY <2>3, <2>4, <2>6, Zenon DEF Quiet
  <2>7. ASSUME NEW c \in Clients, WriteName(c) PROVE Service!Next
    <3>1. Asked' = Asked \union {c} /\ c \notin Asked /\ \A d \in Clients : Begun(d)' = Begun(d)
      BY <2>1, <2>7, WriteNameInv, Zenon
    <3>2. ServedNow' = ServedNow
      BY <2>3, <3>1, Zenon
    <3>3. WantedNow[c] = NoFile /\ WantedNow' = [WantedNow EXCEPT ![c] = FileOf[c]]
      BY <2>4, <3>1, Zenon
    <3>4. Service!Ask(c, FileOf[c])
      BY <3>2, <3>3, Zenon DEF Service!Ask, WantedNow, ServedNow
    <3>. QED  BY <2>5, <3>4, Zenon DEF Service!Next
  <2>8. ASSUME NEW k \in Children, FirstDatagram(k) PROVE Service!Next
    <3>1. PICK c \in Asked : /\ Begun(c) = {} /\ Begun(c)' = {k} /\ Asked' = Asked
                             /\ \A d \in Clients : d # c => Begun(d)' = Begun(d)
      BY <2>1, <2>8, FirstDatagramInv, Zenon
    <3>2. c \in Clients
      BY Zenon DEF Asked
    <3>3. WantedNow' = WantedNow /\ WantedNow[c] = FileOf[c]
      BY <2>4, <3>1, <3>2, Zenon
    <3>4. ServedNow[c] = NoFile /\ ServedNow' = [ServedNow EXCEPT ![c] = FileOf[c]]
      BY <2>3, <3>1, <3>2, Zenon
    <3>5. Service!Serve(c)
      BY <2>5, <3>2, <3>3, <3>4, Zenon DEF Service!Serve, WantedNow, ServedNow
    <3>. QED  BY <3>2, <3>5, Zenon DEF Service!Next
  <2>. QED  BY <2>2, <2>6, <2>7, <2>8, Zenon
<1>. QED  BY <1>1, <1>4, SetupInvariant, PTL
          DEF ImplementsService, Spec, Service!Spec, WantedNow, ServedNow

---------------------------------------------------------------------------
(* check_addr_local: what its loop computes, for every list of interfaces.     *)

(* A non-empty set of natural numbers has a least element. *)
LEMMA LeastNumber ==
    ASSUME NEW T, T \subseteq Nat, T # {}
    PROVE  \E x \in T : \A y \in T : x <= y
<1>1. PICK x \in T : \A y \in T : ~(<<y, x>> \in OpToRel(<, Nat))
  BY WFMin, NatLessThanWellFounded, Zenon
<1>2. \A y \in T : ~(y < x)
  BY <1>1, Zenon DEF OpToRel
<1>. QED  BY <1>2

IfaceCount == Len(Ifaces)
NoneFound == [local |-> 0, maxMask |-> 0]

(* g holds local and maxMask after each of the first n interfaces. *)
ScanUpTo(g, a, n) ==
    g = [i \in 0..n |-> IF i = 0 THEN NoneFound ELSE CheckAddr(a, i - 1, g[i - 1])]

LEMMA IfaceFacts ==
    /\ IfaceCount \in Nat
    /\ \A i \in 0..(IfaceCount - 1) : Iface(i).mask \in Nat
<1>1. Ifaces \in Seq([ip : Addresses, mask : 0..AddrBits]) /\ AddrBits \in Nat
  BY HandshakeAssumption, Zenon
<1>2. IfaceCount \in Nat
  BY <1>1, LenProperties, Zenon DEF IfaceCount
<1>3. ASSUME NEW i \in 0..(IfaceCount - 1) PROVE Iface(i).mask \in Nat
  <2>1. i + 1 \in 1..Len(Ifaces)
    BY <1>2 DEF IfaceCount
  <2>2. Ifaces[i + 1] \in [ip : Addresses, mask : 0..AddrBits]
    BY <1>1, <2>1, ElementOfSeq, Zenon
  <2>. QED  BY <1>1, <2>2 DEF Iface
<1>. QED  BY <1>2, <1>3, Zenon

(* The loop has a result after any number of interfaces. *)
LEMMA ScanExists == \A a : \A n \in Nat : \E g : ScanUpTo(g, a, n)
<1>. SUFFICES ASSUME NEW a PROVE \A n \in Nat : \E g : ScanUpTo(g, a, n)
  BY Zenon
<1>. DEFINE T == {n \in Nat : ~\E g : ScanUpTo(g, a, n)}
<1>1. SUFFICES ASSUME T # {} PROVE FALSE
  BY Zenon
<1>2. PICK n \in T : \A m \in T : n <= m
  BY <1>1, LeastNumber, Zenon
<1>3. n \in Nat /\ ~\E g : ScanUpTo(g, a, n)
  BY <1>2, Zenon
<1>4. CASE n = 0
  <2>. DEFINE g == [i \in 0..0 |-> NoneFound]
  <2>1. g = [i \in 0..0 |-> IF i = 0 THEN NoneFound ELSE CheckAddr(a, i - 1, g[i - 1])]
    OBVIOUS
  <2>2. ScanUpTo(g, a, 0)
    BY <2>1, Zenon DEF ScanUpTo
  <2>. QED  BY <1>3, <1>4, <2>2, Zenon
<1>5. CASE n # 0
  <2>1. n - 1 \in Nat /\ n - 1 \notin T
    BY <1>2, <1>3, <1>5
  <2>2. PICK g : ScanUpTo(g, a, n - 1)
    BY <2>1, Zenon
  <2>3. g = [i \in 0..(n - 1) |-> IF i = 0 THEN NoneFound ELSE CheckAddr(a, i - 1, g[i - 1])]
    BY <2>2, Zenon DEF ScanUpTo
  <2>. DEFINE h == [i \in 0..n |-> IF i = n THEN CheckAddr(a, n - 1, g[n - 1]) ELSE g[i]]
              k == [i \in 0..n |-> IF i = 0 THEN NoneFound ELSE CheckAddr(a, i - 1, h[i - 1])]
  <2>4. \A i \in 0..n : h[i] = k[i]
    <3>. SUFFICES ASSUME NEW i \in 0..n PROVE h[i] = k[i]
      BY Zenon
    <3>1. CASE i = 0
      <4>1. h[i] = g[0] /\ g[0] = NoneFound
        BY <1>3, <1>5, <2>3, <3>1
      <4>. QED  BY <3>1, <4>1, Zenon
    <3>2. CASE i = n
      <4>1. h[n - 1] = g[n - 1] /\ n - 1 # n
        BY <1>3, <1>5
      <4>. QED  BY <1>3, <1>5, <3>2, <4>1, Zenon
    <3>3. CASE i # 0 /\ i # n
      <4>1. i - 1 \in 0..n /\ i - 1 # n /\ i \in 0..(n - 1)
        BY <1>3, <3>3
      <4>2. h[i - 1] = g[i - 1] /\ h[i] = g[i]
        BY <3>3, <4>1, Zenon
      <4>3. g[i] = CheckAddr(a, i - 1, g[i - 1])
        BY <2>3, <3>3, <4>1, Zenon
      <4>4. k[i] = CheckAddr(a, i - 1, h[i - 1])
        BY <3>3, Zenon
      <4>. QED  BY <4>2, <4>3, <4>4, Zenon
    <3>. QED  BY <3>1, <3>2, <3>3, Zenon
  <2>5. h = k
    BY <2>4, Zenon
  <2>6. ScanUpTo(h, a, n)
    BY <2>5, Zenon DEF ScanUpTo
  <2>. QED  BY <1>3, <2>6, Zenon
<1>. QED  BY <1>4, <1>5, Zenon

(* So the recursive function is what its equation says. *)
LEMMA ScanEquation == \A a : ScanUpTo(LocalScan(a), a, IfaceCount)
<1>. SUFFICES ASSUME NEW a PROVE ScanUpTo(LocalScan(a), a, IfaceCount)
  BY Zenon
<1>1. \E g : ScanUpTo(g, a, IfaceCount)
  BY ScanExists, IfaceFacts, Zenon
<1>2. \E g : g = [i \in 0..Len(Ifaces) |-> IF i = 0 THEN [local |-> 0, maxMask |-> 0]
                                          ELSE CheckAddr(a, i - 1, g[i - 1])]
  BY <1>1, Zenon DEF ScanUpTo, IfaceCount, NoneFound
<1>. QED  BY <1>2, Zenon DEF LocalScan, ScanUpTo, IfaceCount, NoneFound

LEMMA ScanSteps ==
    ASSUME NEW a
    PROVE  /\ LocalScan(a)[0] = NoneFound
           /\ \A i \in 1..IfaceCount :
                 LocalScan(a)[i] = CheckAddr(a, i - 1, LocalScan(a)[i - 1])
<1>. DEFINE g == LocalScan(a)
<1>1. g = [i \in 0..IfaceCount |-> IF i = 0 THEN NoneFound ELSE CheckAddr(a, i - 1, g[i - 1])]
  BY ScanEquation, Zenon DEF ScanUpTo
<1>. HIDE DEF g
<1>2. IfaceCount \in Nat
  BY IfaceFacts, Zenon
<1>3. g[0] = NoneFound
  BY <1>1, <1>2
<1>4. ASSUME NEW i \in 1..IfaceCount PROVE g[i] = CheckAddr(a, i - 1, g[i - 1])
  <2>1. i \in 0..IfaceCount /\ i # 0
    BY <1>2
  <2>. QED  BY <1>1, <2>1, Zenon
<1>. QED  BY <1>3, <1>4, Zenon DEF g

(* The interfaces among the first n that match. *)
MatchesUpTo(a, n) == {i \in 0..(n - 1) : Matches(a, i)}

(* What is known after n interfaces: an index of one of them, and, unless the  *)
(* first one matches, the longest mask of those that do.                       *)
ScanType(a, n) ==
    LET found == LocalScan(a)[n]
    IN  /\ found = [local |-> found.local, maxMask |-> found.maxMask]
        /\ found.local \in Nat /\ found.maxMask \in Nat
        /\ found.local = 0 \/ found.local < n

ScanLongest(a, n) ==
    LET found == LocalScan(a)[n]
        M == MatchesUpTo(a, n)
    IN  IF M = {} THEN found = NoneFound
        ELSE /\ found.local \in M /\ found.maxMask = Iface(found.local).mask
             /\ \A i \in M : Iface(i).mask <= found.maxMask

ScanOK(a, n) == ScanType(a, n) /\ (~Matches(a, 0) => ScanLongest(a, n))

(* One round of the loop (common.c 86-95). *)
LEMMA ScanRound ==
    ASSUME NEW a, NEW n \in 1..IfaceCount, ScanOK(a, n - 1)
    PROVE  ScanOK(a, n)
<1>. DEFINE f == LocalScan(a)[n - 1]
            g == LocalScan(a)[n]
            M == MatchesUpTo(a, n - 1)
            N == MatchesUpTo(a, n)
<1>1. g = CheckAddr(a, n - 1, f)
  BY ScanSteps, Zenon
<1>2. /\ f = [local |-> f.local, maxMask |-> f.maxMask] /\ f.local \in Nat /\ f.maxMask \in Nat
      /\ f.local = 0 \/ f.local < n - 1
  BY Zenon DEF ScanOK, ScanType
<1>3. /\ n - 1 \in 0..(IfaceCount - 1) /\ IfaceCount \in Nat /\ Iface(n - 1).mask \in Nat
      /\ \A i \in 0..(n - 1) : Iface(i).mask \in Nat
  BY IfaceFacts
<1>4. N = IF Matches(a, n - 1) THEN M \union {n - 1} ELSE M
  BY <1>3 DEF MatchesUpTo
<1>5. M \subseteq 0..(n - 2)
  BY <1>3 DEF MatchesUpTo
<1>6. ~Matches(a, 0) => ScanLongest(a, n - 1)
  BY Zenon DEF ScanOK
<1>7. ASSUME ~Matches(a, 0)
      PROVE  /\ M = {} => f = NoneFound
             /\ M # {} => /\ f.local \in M /\ f.maxMask = Iface(f.local).mask
                          /\ \A i \in M : Iface(i).mask <= f.maxMask
             /\ 0 \notin M
  BY <1>6, <1>7, Zenon DEF ScanLongest, MatchesUpTo
<1>. DEFINE Longest(r, S) == IF S = {} THEN r = NoneFound
                             ELSE /\ r.local \in S /\ r.maxMask = Iface(r.local).mask
                                  /\ \A i \in S : Iface(i).mask <= r.maxMask
<1>8. SUFFICES /\ g = [local |-> g.local, maxMask |-> g.maxMask]
               /\ g.local \in Nat /\ g.maxMask \in Nat /\ (g.local = 0 \/ g.local < n)
               /\ ~Matches(a, 0) => Longest(g, N)
  BY Zenon DEF ScanOK, ScanType, ScanLongest
<1>. HIDE DEF f, g, M, N
<1>9. CASE ~Matches(a, n - 1)
  <2>1. g = f /\ N = M
    BY <1>1, <1>4, <1>9, Zenon DEF CheckAddr
  <2>. QED  BY <1>2, <1>3, <1>7, <2>1
<1>10. CASE Matches(a, n - 1) /\ Iface(n - 1).mask > f.maxMask
  <2>1. g = [local |-> n - 1, maxMask |-> Iface(n - 1).mask] /\ N = M \union {n - 1}
    BY <1>1, <1>4, <1>10, Zenon DEF CheckAddr
  <2>2. ASSUME ~Matches(a, 0) PROVE \A i \in M : Iface(i).mask <= Iface(n - 1).mask
    <3>. SUFFICES ASSUME NEW i \in M PROVE Iface(i).mask <= Iface(n - 1).mask
      BY Zenon
    <3>1. Iface(i).mask <= f.maxMask /\ Iface(i).mask \in Nat
      BY <1>3, <1>5, <1>7, <2>2
    <3>. QED  BY <1>2, <1>3, <1>10, <3>1
  <2>. QED  BY <1>3, <2>1, <2>2
<1>11. CASE Matches(a, n - 1) /\ ~(Iface(n - 1).mask > f.maxMask) /\ f.local = 0
  <2>1. g = [f EXCEPT !.local = n - 1] /\ N = M \union {n - 1}
    BY <1>1, <1>4, <1>11, Zenon DEF CheckAddr
  <2>2. g = [local |-> n - 1, maxMask |-> f.maxMask]
    BY <1>2, <2>1, Zenon
  <2>3. ASSUME ~Matches(a, 0) PROVE M = {} /\ f.maxMask = 0 /\ Iface(n - 1).mask = 0
    <3>1. M = {}
      BY <1>7, <1>11, <2>3, Zenon
    <3>2. f.maxMask = 0
      BY <1>7, <2>3, <3>1 DEF NoneFound
    <3>. QED  BY <1>3, <1>11, <3>1, <3>2
  <2>. QED  BY <1>2, <1>3, <2>1, <2>2, <2>3
<1>12. CASE Matches(a, n - 1) /\ ~(Iface(n - 1).mask > f.maxMask) /\ f.local # 0
  <2>1. g = f /\ N = M \union {n - 1}
    BY <1>1, <1>4, <1>12, Zenon DEF CheckAddr
  <2>2. ASSUME ~Matches(a, 0) PROVE M # {} /\ Iface(n - 1).mask <= f.maxMask
    <3>1. M # {}
      BY <1>7, <1>12, <2>2 DEF NoneFound
    <3>. QED  BY <1>2, <1>3, <1>12, <3>1
  <2>. QED  BY <1>2, <1>3, <1>7, <2>1, <2>2
<1>. QED  BY <1>9, <1>10, <1>11, <1>12, Zenon

(* The whole loop, by the least number of interfaces after which it would be   *)
(* wrong.                                                                      *)
LEMMA ScanCorrect == \A a : \A n \in 0..IfaceCount : ScanOK(a, n)
<1>. SUFFICES ASSUME NEW a PROVE \A n \in 0..IfaceCount : ScanOK(a, n)
  BY Zenon
<1>. DEFINE T == {n \in 0..IfaceCount : ~ScanOK(a, n)}
<1>1. SUFFICES ASSUME T # {} PROVE FALSE
  BY Zenon
<1>2. PICK n \in T : \A m \in T : n <= m
  <2>1. T \subseteq Nat
    OBVIOUS
  <2>. HIDE DEF T
  <2>. QED  BY <1>1, <2>1, LeastNumber, Zenon
<1>3. n \in 0..IfaceCount /\ ~ScanOK(a, n) /\ IfaceCount \in Nat
  BY <1>2, IfaceFacts, Zenon
<1>4. CASE n = 0
  <2>1. LocalScan(a)[0] = NoneFound
    BY ScanSteps, Zenon
  <2>2. MatchesUpTo(a, 0) = {}
    BY DEF MatchesUpTo
  <2>3. ScanType(a, 0)
    BY <2>1 DEF ScanType, NoneFound
  <2>4. ScanLongest(a, 0)
    BY <2>1, <2>2, Zenon DEF ScanLongest
  <2>. QED  BY <1>3, <1>4, <2>3, <2>4, Zenon DEF ScanOK
<1>5. CASE n # 0
  <2>1. n \in 1..IfaceCount /\ n - 1 \in 0..IfaceCount /\ n - 1 \notin T
    BY <1>2, <1>3, <1>5
  <2>2. ScanOK(a, n - 1)
    BY <2>1, Zenon
  <2>. QED  BY <1>3, <2>1, <2>2, ScanRound, Zenon
<1>. QED  BY <1>4, <1>5, Zenon

---------------------------------------------------------------------------
(* What the server remembers of the clients. *)

LocalInv ==
    /\ addr \in Addrs
    /\ file_name \in FileNames \union {NoFile}
    /\ local = [c \in Clients |-> local[c]]
    /\ \A c \in Clients : local[c] \in {Unknown, check_addr_local(addr[c])}
    /\ faults \in 0..MaxFaults

LEMMA NextLocalInv == SetupInv /\ LocalInv /\ [Next]_vars => LocalInv'
<1>. SUFFICES ASSUME SetupInv, LocalInv, [Next]_vars PROVE LocalInv'
  BY Zenon
<1>1. ASSUME NEW i \in DOMAIN listenq, TakeRequest(i), addr' = addr, faults' \in 0..MaxFaults
      PROVE  LocalInv'
  <2>. DEFINE c == listenq[i]
  <2>1. c \in Clients
    <3>1. listenq \in Seq(Asked)
      BY Zenon DEF SetupInv, QueueInv
    <3>2. listenq[i] \in Asked
      BY <3>1, ElementOfSeq, LenProperties, Zenon
    <3>. QED  BY <3>2, Zenon DEF Asked
  <2>2. file_name' = FileOf[c] /\ local' = [local EXCEPT ![c] = check_addr_local(addr[c])]
    BY <1>1, Zenon DEF TakeRequest
  <2>3. file_name' \in FileNames
    BY <2>1, <2>2, Zenon DEF FileNames
  <2>4. local' = [d \in Clients |-> local'[d]]
        /\ \A d \in Clients : local'[d] \in {local[d], check_addr_local(addr[d])}
    BY <2>1, <2>2, Zenon DEF LocalInv
  <2>. QED  BY <1>1, <2>3, <2>4, Zenon DEF LocalInv
<1>2. faults \in 0..MaxFaults /\ (faults < MaxFaults => faults + 1 \in 0..MaxFaults)
  BY HandshakeAssumption DEF LocalInv
<1>3. CASE Server
  BY <1>1, <1>2, <1>3, Zenon DEF Server, Request
<1>4. CASE \E i \in DOMAIN listenq : RequestForkFails(i)
  BY <1>1, <1>2, <1>4, Zenon DEF RequestForkFails
<1>5. CASE Fault
  BY <1>2, <1>5, Zenon DEF Fault, LocalInv
<1>6. CASE (\E c \in Clients : Client(c)) \/ (\E k \in Children : Child(k)) \/ UNCHANGED vars
  <2>1. UNCHANGED <<addr, file_name, local, faults>>
    BY <1>6, Zenon DEF Client, WriteName, AwaitAck, AwaitPort, Strtol, create_new_connection,
                Child, SendPort, FirstDatagram, vars
  <2>. QED  BY <2>1, Zenon DEF LocalInv
<1>. QED  BY <1>3, <1>4, <1>5, <1>6, Zenon DEF Next

(* The inductive invariant of the server's first process. *)
THEOREM LocalInvariant == Spec => []LocalInv
<1>1. Init => LocalInv
  BY HandshakeAssumption DEF Init, LocalInv
<1>. QED  BY <1>1, SetupInvariant, NextLocalInv, PTL DEF Spec

(* For every list of interfaces and every address check_addr_local finds the   *)
(* interface with the longest matching mask, unless the first one matches.     *)
THEOREM FindsLongest == Spec => []LocalIsLongest
<1>1. LocalInv => LocalIsLongest
  <2>. SUFFICES ASSUME LocalInv, NEW c \in Clients, local[c] # Unknown,
                       addr[c] # Localhost, ~Matches(addr[c], 0)
                PROVE  LET M == {i \in 0..(Len(Ifaces) - 1) : Matches(addr[c], i)}
                       IN  IF M = {} THEN local[c] = 0
                           ELSE local[c] \in M /\ \A i \in M : Iface(i).mask <= Iface(local[c]).mask
    BY Zenon DEF LocalIsLongest
  <2>1. local[c] = LocalScan(addr[c])[IfaceCount].local
    BY Zenon DEF LocalInv, check_addr_local, IfaceCount
  <2>2. ScanLongest(addr[c], IfaceCount)
    BY ScanCorrect, IfaceFacts DEF ScanOK
  <2>3. MatchesUpTo(addr[c], IfaceCount) = {i \in 0..(Len(Ifaces) - 1) : Matches(addr[c], i)}
    BY Zenon DEF MatchesUpTo, IfaceCount
  <2>. QED  BY <2>1, <2>2, <2>3 DEF ScanLongest, NoneFound
<1>. QED  BY <1>1, LocalInvariant, PTL

(* Types, and with them that the index with which the server reads its array   *)
(* of interfaces (server.c 123) is inside it: on a host that has an interface, *)
(* and has two when a client can come from 127.0.0.1, for which                *)
(* check_addr_local returns 1 without a look at the interfaces.                *)
THEOREM TypeCorrect ==
    ASSUME Len(Ifaces) > 0,
           \A f \in Addrs : \A c \in Clients : f[c] = Localhost => Len(Ifaces) > 1
    PROVE  Spec => []TypeOK
<1>1. SetupInv /\ LocalInv => TypeOK
  <2>. SUFFICES ASSUME SetupInv, LocalInv PROVE TypeOK
    BY Zenon
  <2>1. ASSUME NEW c \in Clients
        PROVE  local[c] \in {Unknown} \union (0..(Len(Ifaces) - 1))
    <3>1. Len(Ifaces) \in Nat
      BY IfaceFacts, Zenon DEF IfaceCount
    <3>2. CASE addr[c] = Localhost
      <4>1. Len(Ifaces) > 1
        BY <3>2, Zenon DEF LocalInv
      <4>. QED  BY <3>1, <3>2, <4>1 DEF LocalInv, check_addr_local
    <3>3. CASE addr[c] # Localhost
      <4>1. check_addr_local(addr[c]) = LocalScan(addr[c])[IfaceCount].local
        BY <3>3, Zenon DEF check_addr_local, IfaceCount
      <4>2. ScanType(addr[c], IfaceCount)
        BY ScanCorrect, IfaceFacts DEF ScanOK
      <4>3. check_addr_local(addr[c]) \in 0..(Len(Ifaces) - 1)
        BY <3>1, <4>1, <4>2 DEF ScanType, IfaceCount
      <4>. QED  BY <4>3, Zenon DEF LocalInv
    <3>. QED  BY <3>2, <3>3, Zenon
  <2>2. local \in [Clients -> {Unknown} \union (0..(Len(Ifaces) - 1))]
    BY <2>1, Zenon DEF LocalInv
  <2>. QED
    BY <2>2, Zenon DEF SetupInv, ControlTypes, LocalInv, TypeOK, ChildProcess
<1>. QED  BY <1>1, SetupInvariant, LocalInvariant, PTL
=============================================================================
