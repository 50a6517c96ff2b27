-------------------------------- MODULE Odr --------------------------------
(***************************************************************************)
(* The on-demand routing of hw3: on every node a routing daemon (odr.c with *)
(* the tables of common.c) and a time server (server.c), and time clients   *)
(* (client.c) that ask a server of any node through the daemons.            *)
(*                                                                          *)
(* Two nodes share at most one LAN.  So the hardware address a frame comes  *)
(* from stands for the node that sent it, and a frame sent out on every     *)
(* interface reaches a node at most once.                                   *)
(***************************************************************************)
EXTENDS Integers, FiniteSets, Sequences

CONSTANTS
    Nodes,
    Neighbours,    \* the nodes that share a LAN with a node
    ServIps,       \* serv[]: the addresses of a node, one per interface
    VmIp,          \* set_ip: the address a client uses for a node
    Clients, ClientAt,
    Wanted,        \* the nodes the user of a client asks for
    NoHop,         \* the hardware address in a zeroed row
    NoIp, NoPort,  \* "srcip" and "srcport"
    GetMeTime,     \* the message of a request
    BufSize,       \* entries of buffer[], 100 in the code
    MaxAsk,        \* requests per client and node
    MaxFaults      \* timeouts, stale tables and lost frames, together

VARIABLES
    pc,            \* of the daemon: "select", "server", "undefined"
    table,         \* routing table
    broadcast_id,
    buffer,        \* requests that wait for an answer
    header,        \* the payload request whose answer is awaited from the server
    inbox,         \* frames on the way to a node
    odrq, srvq, cliq,   \* local datagrams to the daemon, the server, a client
    client,        \* what a client waits for
    asked, got,    \* requests sent and answers received, per client and node
    cleared,       \* nodes that emptied their routing table
    mistaken,      \* some daemon took a request for the answer of its server
    faults         \* timeouts, stale tables and lost frames so far

odrVars == <<pc, table, broadcast_id, buffer, header>>
netVars == <<inbox, odrq, srvq, cliq>>
histVars == <<asked, got, cleared, mistaken, faults>>
vars == <<odrVars, netVars, client, histVars>>

MyIps(n) == {ServIps[n][i] : i \in DOMAIN ServIps[n]}
Ips == UNION {MyIps(n) : n \in Nodes}
Targets == Ips \union {NoIp}

ASSUME OdrAssumption ==
    /\ NoHop \notin Nodes /\ NoIp \notin Ips /\ NoPort \notin Clients
    /\ GetMeTime \notin Nodes
    /\ Neighbours \in [Nodes -> SUBSET Nodes]
    /\ \A n \in Nodes : /\ ServIps[n] # <<>> /\ ServIps[n] \in Seq(MyIps(n))
                        /\ VmIp[n] \in MyIps(n)
                        /\ n \notin Neighbours[n]
    /\ \A m, n \in Nodes : m # n => MyIps(m) \intersect MyIps(n) = {}
    /\ \A m, n \in Nodes : m \in Neighbours[n] => n \in Neighbours[m]
    /\ ClientAt \in [Clients -> Nodes] /\ Wanted \in [Clients -> SUBSET Nodes]
    /\ BufSize \in Nat \ {0}
    /\ MaxAsk \in Nat /\ MaxFaults \in Nat

Messages == Nodes \union {GetMeTime}   \* a node: a time its server told
Types == {"rreq", "rrep", "payload_req", "payload_resp"}
Frame == [type : Types, src : Ips, dest : Targets, hop_count : Nat, bc_id : Nat,
          force_flag : {0, 1}, msg : Messages, from : Nodes]
Row == [next_hop : Nodes \union {NoHop}, hop_count : Nat, broadcast_id : Nat]
Datagram == [port : Clients \union {NoPort}, dest : Targets, msg : Messages,
             flag : {0, 1}]
EmptyRow == [next_hop |-> NoHop, hop_count |-> 0, broadcast_id |-> 0]
NoTable == [ip \in Targets |-> EmptyRow]
FreeEntry == [port |-> NoPort, dest |-> NoIp, count |-> 0]
NoHeader == [src |-> NoIp, dest |-> NoIp]
Menu == NoHop

Init ==
    /\ pc = [n \in Nodes |-> "select"]
    /\ table = [n \in Nodes |-> NoTable]
    /\ broadcast_id = [n \in Nodes |-> 1]
    /\ buffer = [n \in Nodes |-> [i \in 1..BufSize |-> FreeEntry]]
    /\ header = [n \in Nodes |-> NoHeader]
    /\ inbox = [n \in Nodes |-> <<>>]
    /\ odrq = [n \in Nodes |-> <<>>] /\ srvq = [n \in Nodes |-> <<>>]
    /\ cliq = [c \in Clients |-> <<>>]
    /\ client = [c \in Clients |-> Menu]
    /\ asked = [c \in Clients |-> [d \in Nodes |-> 0]] /\ got = asked
    /\ cleared = {} /\ mistaken = FALSE /\ faults = 0

---------------------------------------------------------------------------
(* The routing table: one row per address, none for the node's own. *)

HasRow(t, ip) == t[ip].next_hop # NoHop

(* Mutant: frames about the node's own addresses are entered as well. *)
UpdatesForAll(n, h) ==
    /\ h.type \in {"rreq", "rrep"}
    /\ \/ ~HasRow(table[n], h.src)
       \/ h.bc_id > table[n][h.src].broadcast_id
       \/ table[n][h.src].hop_count > h.hop_count

(* should_update_rt, and the conditions process_frame puts around it. *)
Updates(n, h) ==
    /\ h.type \in {"rreq", "rrep"}
    /\ h.src \notin MyIps(n)
    /\ \/ ~HasRow(table[n], h.src)
       \/ h.bc_id > table[n][h.src].broadcast_id
       \/ table[n][h.src].hop_count > h.hop_count

(* Mutant: the row holds the address the frame came from first. *)
RowBySource(t, h) ==
    [t EXCEPT ![h.src] = [next_hop |-> h.src, hop_count |-> h.hop_count,
                          broadcast_id |-> h.bc_id]]

(* A row that exists keeps its next hop; a newer broadcast id leaves even the *)
(* hop count alone.                                                          *)
update_routing_table(t, h) ==
    IF ~HasRow(t, h.src)
    THEN [t EXCEPT ![h.src] = [next_hop |-> h.from, hop_count |-> h.hop_count,
                               broadcast_id |-> h.bc_id]]
    ELSE IF h.bc_id > t[h.src].broadcast_id
         THEN [t EXCEPT ![h.src].broadcast_id = h.bc_id]
         ELSE [t EXCEPT ![h.src].hop_count = h.hop_count]

---------------------------------------------------------------------------
(* What the daemon sends: the nodes that hear it and the headers they get. *)

NodeOf(ip) == CHOOSE d \in Nodes : ip \in MyIps(d)

(* Mutant: the frame keeps the hardware address of its first sender. *)
FromSource(n, type, src, dest, hops, bid, flag, msg) ==
    [type |-> type, src |-> src, dest |-> dest, hop_count |-> hops, bc_id |-> bid,
     force_flag |-> flag, msg |-> msg, from |-> NodeOf(src)]

populate_frame_header(n, type, src, dest, hops, bid, flag, msg) ==
    [type |-> type, src |-> src, dest |-> dest, hop_count |-> hops, bc_id |-> bid,
     force_flag |-> flag, msg |-> msg, from |-> n]

Send(to, headers) == [to |-> to, headers |-> headers]
Silence == Send({}, <<>>)

(* A frame to the zeroed address of row -1 reaches nobody: that memory holds  *)
(* other static variables of the daemon, none of them a neighbour's address. *)
NextHop(n, t, dest) ==
    {t[dest].next_hop} \intersect Neighbours[n]

send_rreq(n, bid, hops, src, dest, flag) ==
    Send(Neighbours[n],
         <<populate_frame_header(n, "rreq", src, dest, hops, bid, flag, GetMeTime)>>)

send_rrep(n, t, bid, hops, dest, src) ==
    Send(NextHop(n, t, dest),
         <<populate_frame_header(n, "rrep", src, dest, hops, bid, 0, GetMeTime)>>)

(* With no route the payload is forgotten, and a request for a route goes out *)
(* for every address of the node.                                            *)
send_payload(n, t, bid, src, dest, type, msg, flag) ==
    IF HasRow(t, dest)
    THEN Send(NextHop(n, t, dest),
              <<populate_frame_header(n, type, src, dest, t[dest].hop_count, bid,
                                      flag, msg)>>)
    ELSE Send(Neighbours[n],
              [i \in DOMAIN ServIps[n] |->
                 populate_frame_header(n, "rreq", ServIps[n][i], dest, 1, bid, flag,
                                       GetMeTime)])

Posted(q, s) == [m \in Nodes |-> IF m \in s.to THEN q[m] \o s.headers ELSE q[m]]

---------------------------------------------------------------------------
(* process_frame *)

(* A request for a route is passed on once; whoever knows a route answers it. *)
ReplyToRreq(n, t, h) ==
    IF h.dest \in MyIps(n) \/ HasRow(t, h.dest)
    THEN send_rrep(n, t, h.bc_id, 1, h.src, h.dest)
    ELSE IF Updates(n, h)
         THEN send_rreq(n, h.bc_id, h.hop_count + 1, h.src, h.dest, h.force_flag)
         ELSE Silence

ReplyToRrep(n, t, h) ==
    IF h.dest \in MyIps(n)
    THEN send_payload(n, t, broadcast_id[n], h.dest, h.src, "payload_req", GetMeTime, 0)
    ELSE send_rrep(n, t, h.bc_id, h.hop_count + 1, h.dest, h.src)

ForwardPayload(n, h) ==
    IF h.dest \notin MyIps(n) /\ HasRow(table[n], h.dest)
    THEN send_payload(n, table[n], broadcast_id[n], h.src, h.dest, h.type, h.msg, 0)
    ELSE Silence

(* The entries that wait for an answer from the sender of h. *)
Waits(n, h) == {i \in 1..BufSize : buffer[n][i].dest = h.src /\ buffer[n][i].count # 0}
First(S) == CHOOSE i \in S : \A j \in S : i <= j

(* Mutant: the entry that was answered stays in the buffer. *)
KeepWaiting(n, h) ==
    LET e == buffer[n][First(Waits(n, h))]
        d == NodeOf(e.dest)
    IN  /\ cliq' = [cliq EXCEPT ![e.port] = Append(@, [msg |-> h.msg, node |-> d])]
        /\ got' = [got EXCEPT ![e.port][d] = @ + 1]
        /\ UNCHANGED buffer

(* The first of them gets the answer. *)
AnswerClient(n, h) ==
    LET i == First(Waits(n, h))
        e == buffer[n][i]
        d == NodeOf(e.dest)
    IN  /\ cliq' = [cliq EXCEPT ![e.port] = Append(@, [msg |-> h.msg, node |-> d])]
        /\ got' = [got EXCEPT ![e.port][d] = @ + 1]
        /\ buffer' = [buffer EXCEPT ![n][i].count = 0]

ProcessRoute(n, h) ==
    LET t == IF Updates(n, h) THEN update_routing_table(table[n], h) ELSE table[n]
        s == IF h.type = "rreq" THEN ReplyToRreq(n, t, h) ELSE ReplyToRrep(n, t, h)
    IN  /\ h.type \in {"rreq", "rrep"}
        /\ table' = [table EXCEPT ![n] = t]
        /\ inbox' = Posted([inbox EXCEPT ![n] = Tail(@)], s)
        /\ UNCHANGED <<pc, header, buffer, srvq, cliq, got>>

(* get_data_from_server sends the request on and blocks for the answer. *)
ProcessPayloadReq(n, h) ==
    /\ h.type = "payload_req"
    /\ inbox' = Posted([inbox EXCEPT ![n] = Tail(@)], ForwardPayload(n, h))
    /\ IF h.dest \in MyIps(n)
       THEN /\ srvq' = [srvq EXCEPT ![n] = Append(@, GetMeTime)]
            /\ header' = [header EXCEPT ![n] = [src |-> h.src, dest |-> h.dest]]
            /\ pc' = [pc EXCEPT ![n] = "server"]
       ELSE UNCHANGED <<srvq, header, pc>>
    /\ UNCHANGED <<table, buffer, cliq, got>>

ProcessPayloadResp(n, h) ==
    /\ h.type = "payload_resp"
    /\ inbox' = Posted([inbox EXCEPT ![n] = Tail(@)], ForwardPayload(n, h))
    /\ IF h.dest \in MyIps(n) /\ Waits(n, h) # {}
       THEN AnswerClient(n, h)
       ELSE UNCHANGED <<cliq, got, buffer>>
    /\ UNCHANGED <<pc, table, header, srvq>>

process_frame(n) ==
    /\ pc[n] = "select" /\ inbox[n] # <<>>
    /\ \/ ProcessRoute(n, Head(inbox[n]))
       \/ ProcessPayloadReq(n, Head(inbox[n]))
       \/ ProcessPayloadResp(n, Head(inbox[n]))
    /\ UNCHANGED <<broadcast_id, odrq, client, asked, cleared, mistaken, faults>>

(* Mutant: the daemon waits until the next datagram is one of its server. *)
ServerAnswerOnly(n) ==
    LET m == Head(odrq[n])
        h == header[n]
        s == send_payload(n, table[n], broadcast_id[n], h.dest, h.src,
                          "payload_resp", m.msg, 0)
    IN  /\ pc[n] = "server" /\ odrq[n] # <<>> /\ m.port = NoPort
        /\ odrq' = [odrq EXCEPT ![n] = Tail(@)]
        /\ inbox' = Posted(inbox, s)
        /\ pc' = [pc EXCEPT ![n] = "select"]
        /\ header' = [header EXCEPT ![n] = NoHeader]
        /\ UNCHANGED <<table, broadcast_id, buffer, srvq, cliq, client, asked, got,
                       cleared, mistaken, faults>>

(* The rest of get_data_from_server and of its caller: whatever datagram comes *)
(* first to the daemon's socket is taken for the server's answer.              *)
ServerAnswer(n) ==
    LET m == Head(odrq[n])
        h == header[n]
        s == send_payload(n, table[n], broadcast_id[n], h.dest, h.src,
                          "payload_resp", m.msg, 0)
    IN  /\ pc[n] = "server" /\ odrq[n] # <<>>
        /\ odrq' = [odrq EXCEPT ![n] = Tail(@)]
        /\ inbox' = Posted(inbox, s)
        /\ pc' = [pc EXCEPT ![n] = "select"]
        /\ header' = [header EXCEPT ![n] = NoHeader]
        /\ mistaken' = (mistaken \/ m.port # NoPort)
        /\ UNCHANGED <<table, broadcast_id, buffer, srvq, cliq, client, asked, got,
                       cleared, faults>>

---------------------------------------------------------------------------
(* The rest of the daemon's loop. *)

FreeEntries(n) == {i \in 1..BufSize : buffer[n][i].count = 0}

(* push_data_to_buf writes behind the array when no entry is free. *)
push_data_to_buf(n, m) ==
    IF FreeEntries(n) = {}
    THEN /\ pc' = [pc EXCEPT ![n] = "undefined"]
         /\ UNCHANGED buffer
    ELSE /\ buffer' = [buffer EXCEPT ![n][First(FreeEntries(n))] =
                         [port |-> m.port, dest |-> m.dest, count |-> 1]]
         /\ UNCHANGED pc

(* send_payload for every interface: as many payloads, or as many times the   *)
(* requests for a route.                                                     *)
SendRequest(n, t, m) ==
    LET L == Len(ServIps[n])
        s(src) == send_payload(n, t, broadcast_id[n] + 1, src, m.dest, "payload_req",
                               GetMeTime, m.flag)
    IN  IF HasRow(t, m.dest)
        THEN Send(NextHop(n, t, m.dest), [i \in 1..L |-> s(ServIps[n][i]).headers[1]])
        ELSE Send(Neighbours[n],
                  [k \in 1..(L * L) |->
                     s(ServIps[n][((k - 1) \div L) + 1]).headers[((k - 1) % L) + 1]])

ClientRequest(n) ==
    LET m == Head(odrq[n])
        t == IF m.flag = 1 THEN NoTable ELSE table[n]
    IN  /\ pc[n] = "select" /\ odrq[n] # <<>>
        /\ odrq' = [odrq EXCEPT ![n] = Tail(@)]
        /\ broadcast_id' = [broadcast_id EXCEPT ![n] = @ + 1]
        /\ push_data_to_buf(n, m)
        /\ table' = [table EXCEPT ![n] = t]
        /\ cleared' = IF m.flag = 1 THEN cleared \union {n} ELSE cleared
        /\ inbox' = Posted(inbox, SendRequest(n, t, m))
        /\ UNCHANGED <<header, srvq, cliq, client, asked, got, mistaken, faults>>

(* No frame and no datagram for the staleness time: whole seconds, so none is  *)
(* on its way to the daemon either.                                            *)
Stale(n) ==
    /\ pc[n] = "select" /\ inbox[n] = <<>> /\ odrq[n] = <<>>
    /\ table[n] # NoTable /\ faults < MaxFaults
    /\ table' = [table EXCEPT ![n] = NoTable]
    /\ cleared' = cleared \union {n}
    /\ faults' = faults + 1
    /\ UNCHANGED <<pc, broadcast_id, buffer, header, netVars, client, asked, got,
                   mistaken>>

---------------------------------------------------------------------------
(* The server, the clients and the network. *)

respond(n) ==
    /\ srvq[n] # <<>>
    /\ srvq' = [srvq EXCEPT ![n] = Tail(@)]
    /\ odrq' = [odrq EXCEPT ![n] = Append(@, [port |-> NoPort, dest |-> NoIp,
                                              msg |-> n, flag |-> 0])]
    /\ UNCHANGED <<odrVars, inbox, cliq, client, histVars>>

msg_send(c, d, flag) ==
    /\ odrq' = [odrq EXCEPT ![ClientAt[c]] =
                  Append(@, [port |-> c, dest |-> VmIp[d], msg |-> GetMeTime,
                             flag |-> flag])]
    /\ asked' = [asked EXCEPT ![c][d] = @ + 1]

Ask(c, d) ==
    /\ client[c] = Menu
    /\ d \in Wanted[c] /\ asked[c][d] < MaxAsk
    /\ msg_send(c, d, 0)
    /\ client' = [client EXCEPT ![c] = d]
    /\ UNCHANGED <<odrVars, inbox, srvq, cliq, got, cleared, mistaken, faults>>

(* The answer is printed as one of the node asked last. *)
Receive(c) ==
    /\ client[c] # Menu /\ cliq[c] # <<>>
    /\ cliq' = [cliq EXCEPT ![c] = Tail(@)]
    /\ client' = [client EXCEPT ![c] = Menu]
    /\ UNCHANGED <<odrVars, inbox, odrq, srvq, histVars>>

(* After two seconds the request is repeated with the force flag, and the      *)
(* client does not wait for its answer.                                        *)
Timeout(c) ==
    /\ client[c] # Menu /\ cliq[c] = <<>> /\ faults < MaxFaults
    /\ msg_send(c, client[c], 1)
    /\ client' = [client EXCEPT ![c] = Menu]
    /\ faults' = faults + 1
    /\ UNCHANGED <<odrVars, inbox, srvq, cliq, got, cleared, mistaken>>

LoseFrame(n) ==
    /\ inbox[n] # <<>> /\ faults < MaxFaults
    /\ inbox' = [inbox EXCEPT ![n] = Tail(@)]
    /\ faults' = faults + 1
    /\ UNCHANGED <<odrVars, odrq, srvq, cliq, client, asked, got, cleared, mistaken>>

Daemon(n) == process_frame(n) \/ ServerAnswer(n) \/ ClientRequest(n)

Next ==
    \/ \E n \in Nodes : Daemon(n) \/ respond(n) \/ Stale(n) \/ LoseFrame(n)
    \/ \E c \in Clients : Receive(c) \/ Timeout(c) \/ \E d \in Nodes : Ask(c, d)

Spec == Init /\ [][Next]_vars

(* The daemons and the servers loop for ever; people and timers may be slow. *)
FairSpec == Spec /\ \A n \in Nodes : WF_vars(Daemon(n)) /\ WF_vars(respond(n))

---------------------------------------------------------------------------
(* Properties. *)

(* Types of the state. *)
TypeOK ==
    /\ pc \in [Nodes -> {"select", "server", "undefined"}]
    /\ table \in [Nodes -> [Targets -> Row]]
    /\ broadcast_id \in [Nodes -> Nat]
    /\ inbox \in [Nodes -> Seq(Frame)]
    /\ odrq \in [Nodes -> Seq(Datagram)]
    /\ cleared \subseteq Nodes

(* A row's next hop is a neighbour, and it is the destination or has a row     *)
(* for it, unless it emptied its table: the routes update_routing_table enters *)
(* lead somewhere, although no frame ever confirms that they still do.         *)
RoutesContinue ==
    \A n \in Nodes, ip \in Ips :
        LET m == table[n][ip].next_hop
        IN  m # NoHop => /\ ip \notin MyIps(n)
                         /\ m \in Neighbours[n]
                         /\ ip \in MyIps(m) \/ HasRow(table[m], ip) \/ m \in cleared

(* No payload can go round for ever: following next hops never stays among     *)
(* nodes that kept their tables.  Frames carry no time to live, so this is all *)
(* that stops them.                                                            *)
NoLoops ==
    \A ip \in Ips : \A S \in SUBSET (Nodes \ cleared) :
        S # {} => \E n \in S : table[n][ip].next_hop \notin S

(* A client gets no more answers from a node than the requests, repeated ones  *)
(* included, that it made for it, although route replies and interfaces        *)
(* multiply the payloads.                                                      *)
AnswersAsked == \A c \in Clients, d \in Nodes : got[c][d] <= asked[c][d]

(* The frames die out unless some node emptied its table: floods, forwarded    *)
(* replies and payloads come to an end.                                        *)
Drains == (cleared = {}) ~>
    (cleared # {} \/ \A n \in Nodes : inbox[n] = <<>> \/ pc[n] = "undefined")

(* A request the daemon put into its buffer is answered, when no frame is     *)
(* lost, no client loses patience, no table is emptied and no datagram is     *)
(* taken for the server's.  It need not be: the node asked drops its answer   *)
(* when a node in between answered the route request for it, so that it never *)
(* learned a way back.                                                        *)
Pending(c, d) ==
    \E i \in 1..BufSize : buffer[ClientAt[c]][i] = [port |-> c, dest |-> VmIp[d], count |-> 1]

Disturbed == faults > 0 \/ mistaken \/ \E n \in Nodes : pc[n] = "undefined"

Answered == \A c \in Clients : \A d \in Nodes \ {ClientAt[c]} :
    Pending(c, d) ~> (Disturbed \/ ~Pending(c, d))
=============================================================================
