----------------------------- MODULE OdrProofs -----------------------------
(***************************************************************************)
(* Proofs about Odr for any network, any number of clients and requests, any *)
(* size of the buffer and any number of faults: the rows of the routing      *)
(* tables lead on and never in a circle, and a client gets no more answers   *)
(* than it asked for.                                                        *)
(***************************************************************************)
EXTENDS Odr, TLAPS, SequenceTheorems, FiniteSetTheorems, WellFoundedInduction

(* What is true of a node once it has sent a frame about an address, for ever. *)
Knows(m, ip) == ip \in MyIps(m) \/ HasRow(table[m], ip) \/ m \in cleared

(* The frames a node may find in its inbox: a neighbour that sends one about   *)
(* the way to src knows such a way.                                            *)
GoodFrames(n) ==
    {f \in Frame : f.type \in {"rreq", "rrep"} => f.from \in Neighbours[n] /\ Knows(f.from, f.src)}

RowLeads(n, ip) ==
    HasRow(table[n], ip) => /\ ip \in Ips /\ ip \notin MyIps(n)
                            /\ table[n][ip].next_hop \in Neighbours[n]
                            /\ Knows(table[n][ip].next_hop, ip)
RowsLead == \A n \in Nodes, ip \in Targets : RowLeads(n, ip)

OdrTypes ==
    /\ pc \in [Nodes -> {"select", "server", "undefined"}]
    /\ table \in [Nodes -> [Targets -> Row]]
    /\ broadcast_id \in [Nodes -> Nat]
    /\ header \in [Nodes -> [src : Targets, dest : Targets]]
    /\ \A n \in Nodes : pc[n] = "server" => header[n].src \in Ips /\ header[n].dest \in Ips
    /\ odrq \in [Nodes -> Seq(Datagram)]
    /\ client \in [Clients -> Nodes \union {NoHop}]
    /\ cleared \subseteq Nodes

InboxesGood ==
    /\ DOMAIN inbox = Nodes /\ inbox = [n \in Nodes |-> inbox[n]]
    /\ \A n \in Nodes : inbox[n] \in Seq(GoodFrames(n))

(* The inductive invariant. *)
OdrInv == OdrTypes /\ InboxesGood /\ RowsLead /\ NoLoops

---------------------------------------------------------------------------
(* What a daemon sends. *)

(* The frames a node with table t may send. *)
SentBy(n, t) ==
    {f \in Frame : f.from = n /\ (f.type \in {"rreq", "rrep"} =>
                                    f.src \in MyIps(n) \/ HasRow(t, f.src))}
GoodSend(n, t, s) == s.to \subseteq Neighbours[n] /\ s.headers \in Seq(SentBy(n, t))

LEMMA Addresses ==
    ASSUME NEW n \in Nodes
    PROVE  /\ MyIps(n) \subseteq Ips /\ Ips \subseteq Targets /\ NoIp \in Targets
           /\ \A i \in DOMAIN ServIps[n] : ServIps[n][i] \in MyIps(n)
           /\ DOMAIN ServIps[n] = 1..Len(ServIps[n]) /\ Len(ServIps[n]) \in Nat \ {0}
           /\ Neighbours[n] \subseteq Nodes /\ n \notin Neighbours[n]
           /\ NoHop \notin Neighbours[n]
           /\ \A m \in Neighbours[n] : n \in Neighbours[m]
<1>1. ServIps[n] \in Seq(MyIps(n)) /\ ServIps[n] # <<>> /\ n \notin Neighbours[n]
  BY OdrAssumption, Zenon
<1>2. Neighbours[n] \subseteq Nodes /\ NoHop \notin Nodes
  BY OdrAssumption, Zenon
<1>3. \A m \in Neighbours[n] : n \in Neighbours[m]
  BY <1>2, OdrAssumption, Zenon
<1>4. MyIps(n) \subseteq Ips /\ Ips \subseteq Targets /\ NoIp \in Targets
  BY Zenon DEF Ips, Targets
<1>5. DOMAIN ServIps[n] = 1..Len(ServIps[n]) /\ Len(ServIps[n]) \in Nat \ {0}
  BY <1>1
<1>6. \A i \in DOMAIN ServIps[n] : ServIps[n][i] \in MyIps(n)
  BY Zenon DEF MyIps
<1>. QED  BY <1>1, <1>2, <1>3, <1>4, <1>5, <1>6, Zenon

LEMMA HeaderSent ==
    ASSUME NEW n \in Nodes, NEW t, NEW type \in Types, NEW src \in Ips, NEW dest \in Targets,
           NEW hops \in Nat, NEW bid \in Nat, NEW flag \in {0, 1}, NEW msg \in Messages,
           type \in {"rreq", "rrep"} => src \in MyIps(n) \/ HasRow(t, src)
    PROVE  populate_frame_header(n, type, src, dest, hops, bid, flag, msg) \in SentBy(n, t)
<1>. DEFINE f == populate_frame_header(n, type, src, dest, hops, bid, flag, msg)
<1>1. f \in Frame /\ f.from = n /\ f.type = type /\ f.src = src
  BY Zenon DEF populate_frame_header, Frame
<1>. HIDE DEF f
<1>. QED  BY <1>1, Zenon DEF SentBy, f

LEMMA NextHopIsNeighbour ==
    ASSUME NEW n \in Nodes, NEW t, NEW dest
    PROVE  NextHop(n, t, dest) \subseteq Neighbours[n]
BY Zenon DEF NextHop

LEMMA RreqSent ==
    ASSUME NEW n \in Nodes, NEW t, NEW bid \in Nat, NEW hops \in Nat, NEW src \in Ips,
           NEW dest \in Targets, NEW flag \in {0, 1}, src \in MyIps(n) \/ HasRow(t, src)
    PROVE  GoodSend(n, t, send_rreq(n, bid, hops, src, dest, flag))
<1>. DEFINE f == populate_frame_header(n, "rreq", src, dest, hops, bid, flag, GetMeTime)
<1>1. f \in SentBy(n, t)
  BY HeaderSent, Zenon DEF Types, Messages
<1>. HIDE DEF f
<1>2. <<f>> \in Seq(SentBy(n, t))
  BY <1>1
<1>. QED  BY <1>2, Zenon DEF GoodSend, send_rreq, Send, f

LEMMA RrepSent ==
    ASSUME NEW n \in Nodes, NEW t, NEW bid \in Nat, NEW hops \in Nat, NEW src \in Ips,
           NEW dest \in Targets, src \in MyIps(n) \/ HasRow(t, src)
    PROVE  GoodSend(n, t, send_rrep(n, t, bid, hops, dest, src))
<1>. DEFINE f == populate_frame_header(n, "rrep", src, dest, hops, bid, 0, GetMeTime)
<1>1. f \in SentBy(n, t)
  BY HeaderSent, Zenon DEF Types, Messages
<1>. HIDE DEF f
<1>2. <<f>> \in Seq(SentBy(n, t))
  BY <1>1
<1>. QED  BY <1>2, NextHopIsNeighbour, Zenon DEF GoodSend, send_rrep, Send, f

(* A payload, or a route request for every address of the node. *)
LEMMA PayloadSent ==
    ASSUME NEW n \in Nodes, NEW t \in [Targets -> Row], NEW bid \in Nat, NEW src \in Ips,
           NEW dest \in Targets, NEW type \in {"payload_req", "payload_resp"},
           NEW msg \in Messages, NEW flag \in {0, 1}
    PROVE  /\ GoodSend(n, t, send_payload(n, t, bid, src, dest, type, msg, flag))
           /\ HasRow(t, dest) =>
                Len(send_payload(n, t, bid, src, dest, type, msg, flag).headers) = 1
           /\ ~HasRow(t, dest) =>
                Len(send_payload(n, t, bid, src, dest, type, msg, flag).headers) = Len(ServIps[n])
<1>1. CASE HasRow(t, dest)
  <2>. DEFINE f == populate_frame_header(n, type, src, dest, t[dest].hop_count, bid, flag, msg)
  <2>1. t[dest].hop_count \in Nat
    BY Zenon DEF Row
  <2>2. f \in SentBy(n, t)
    BY <2>1, HeaderSent, Zenon DEF Types
  <2>. HIDE DEF f
  <2>3. <<f>> \in Seq(SentBy(n, t)) /\ Len(<<f>>) = 1
    BY <2>2
  <2>4. send_payload(n, t, bid, src, dest, type, msg, flag) = Send(NextHop(n, t, dest), <<f>>)
    BY <1>1, Zenon DEF send_payload, f
  <2>. QED  BY <1>1, <2>3, <2>4, NextHopIsNeighbour DEF GoodSend, Send
<1>2. CASE ~HasRow(t, dest)
  <2>. DEFINE f(i) == populate_frame_header(n, "rreq", ServIps[n][i], dest, 1, bid, flag, GetMeTime)
              fs == [i \in DOMAIN ServIps[n] |-> f(i)]
  <2>1. \A i \in DOMAIN ServIps[n] : f(i) \in SentBy(n, t)
    <3>1. SUFFICES ASSUME NEW i \in DOMAIN ServIps[n] PROVE f(i) \in SentBy(n, t)
      BY Zenon
    <3>2. ServIps[n][i] \in MyIps(n) /\ ServIps[n][i] \in Ips
      BY Addresses, Zenon
    <3>. QED  BY <3>2, HeaderSent, Zenon DEF Types, Messages
  <2>. HIDE DEF f
  <2>2. fs \in Seq(SentBy(n, t)) /\ Len(fs) = Len(ServIps[n])
    BY <2>1, Addresses
  <2>3. send_payload(n, t, bid, src, dest, type, msg, flag) = Send(Neighbours[n], fs)
    BY <1>2, Zenon DEF send_payload, f
  <2>. QED  BY <1>2, <2>2, <2>3 DEF GoodSend, Send
<1>. QED  BY <1>1, <1>2, Zenon

LEMMA Squares ==
    ASSUME NEW L \in Nat \ {0}, NEW k \in 1..(L * L)
    PROVE  ((k - 1) \div L) + 1 \in 1..L /\ ((k - 1) % L) + 1 \in 1..L
<1>1. ((k - 1) % L) + 1 \in 1..L
  OBVIOUS
<1>2. ((k - 1) \div L) + 1 \in 1..L
  OBVIOUS
<1>. QED  BY <1>1, <1>2, Zenon

LEMMA RequestSent ==
    ASSUME NEW n \in Nodes, NEW t \in [Targets -> Row], NEW m \in Datagram,
           broadcast_id[n] \in Nat
    PROVE  GoodSend(n, t, SendRequest(n, t, m))
<1>. DEFINE L == Len(ServIps[n])
            s(src) == send_payload(n, t, broadcast_id[n] + 1, src, m.dest, "payload_req",
                                   GetMeTime, m.flag)
<1>1. m.dest \in Targets /\ m.flag \in {0, 1} /\ broadcast_id[n] + 1 \in Nat
      /\ GetMeTime \in Messages
  BY DEF Datagram, Messages
<1>2. L \in Nat \ {0} /\ \A i \in 1..L : ServIps[n][i] \in Ips
  BY Addresses, Zenon
<1>3. \A i \in 1..L : /\ s(ServIps[n][i]).headers \in Seq(SentBy(n, t))
                      /\ HasRow(t, m.dest) => Len(s(ServIps[n][i]).headers) = 1
                      /\ ~HasRow(t, m.dest) => Len(s(ServIps[n][i]).headers) = L
  <2>1. SUFFICES ASSUME NEW i \in 1..L
                 PROVE  /\ s(ServIps[n][i]).headers \in Seq(SentBy(n, t))
                        /\ HasRow(t, m.dest) => Len(s(ServIps[n][i]).headers) = 1
                        /\ ~HasRow(t, m.dest) => Len(s(ServIps[n][i]).headers) = L
    BY Zenon
  <2>2. ServIps[n][i] \in Ips
    BY <1>2, Zenon
  <2>3. /\ GoodSend(n, t, s(ServIps[n][i]))
        /\ HasRow(t, m.dest) => Len(s(ServIps[n][i]).headers) = 1
        /\ ~HasRow(t, m.dest) => Len(s(ServIps[n][i]).headers) = L
    BY <1>1, <2>2, PayloadSent
  <2>. QED  BY <2>3, Zenon DEF GoodSend
<1>4. CASE HasRow(t, m.dest)
  <2>. DEFINE fs == [i \in 1..L |-> s(ServIps[n][i]).headers[1]]
  <2>1. SendRequest(n, t, m) = Send(NextHop(n, t, m.dest), fs)
    BY <1>4, Zenon DEF SendRequest
  <2>. HIDE DEF s, L
  <2>2. \A i \in 1..L : s(ServIps[n][i]).headers[1] \in SentBy(n, t)
    BY <1>3, <1>4
  <2>3. fs \in Seq(SentBy(n, t))
    BY <1>2, <2>2
  <2>. HIDE DEF fs
  <2>. QED  BY <2>1, <2>3, NextHopIsNeighbour DEF GoodSend, Send
<1>5. CASE ~HasRow(t, m.dest)
  <2>. DEFINE f(k) == s(ServIps[n][((k - 1) \div L) + 1]).headers[((k - 1) % L) + 1]
              fs == [k \in 1..(L * L) |-> f(k)]
  <2>1. SendRequest(n, t, m) = Send(Neighbours[n], fs)
    BY <1>5, Zenon DEF SendRequest
  <2>. HIDE DEF s, L
  <2>2. \A k \in 1..(L * L) : f(k) \in SentBy(n, t)
    <3>1. SUFFICES ASSUME NEW k \in 1..(L * L) PROVE f(k) \in SentBy(n, t)
      BY Zenon
    <3>. DEFINE i == ((k - 1) \div L) + 1
                j == ((k - 1) % L) + 1
    <3>2. i \in 1..L /\ j \in 1..L
      BY <1>2, Squares, Zenon
    <3>. HIDE DEF i, j
    <3>3. s(ServIps[n][i]).headers[j] \in SentBy(n, t)
      BY <1>3, <1>5, <3>2
    <3>. QED  BY <3>3, Zenon DEF i, j
  <2>. HIDE DEF f
  <2>3. L * L \in Nat
    BY <1>2
  <2>4. fs \in Seq(SentBy(n, t))
    BY <2>2, <2>3
  <2>. HIDE DEF fs
  <2>. QED  BY <2>1, <2>4 DEF GoodSend, Send
<1>. QED  BY <1>4, <1>5, Zenon

LEMMA SilenceSent == ASSUME NEW n \in Nodes, NEW t PROVE GoodSend(n, t, Silence)
BY DEF GoodSend, Silence, Send

---------------------------------------------------------------------------
(* What process_frame does to the table and what it sends. *)

LEMMA FrameFields ==
    ASSUME NEW h \in Frame
    PROVE  /\ h.type \in Types /\ h.src \in Ips /\ h.dest \in Targets /\ h.hop_count \in Nat
           /\ h.bc_id \in Nat /\ h.force_flag \in {0, 1} /\ h.msg \in Messages
           /\ h.from \in Nodes
BY Zenon DEF Frame

(* A row that exists keeps its next hop; a new one leads to the sender. *)
LEMMA UpdatedTable ==
    ASSUME NEW t \in [Targets -> Row], NEW h \in Frame
    PROVE  LET u == update_routing_table(t, h)
           IN  /\ u \in [Targets -> Row] /\ HasRow(u, h.src)
               /\ \A ip \in Targets : ip # h.src => u[ip] = t[ip]
               /\ HasRow(t, h.src) => u[h.src].next_hop = t[h.src].next_hop
               /\ ~HasRow(t, h.src) => u[h.src].next_hop = h.from
<1>. DEFINE u == update_routing_table(t, h)
            r == [next_hop |-> h.from, hop_count |-> h.hop_count, broadcast_id |-> h.bc_id]
<1>1. h.src \in Targets /\ h.hop_count \in Nat /\ h.bc_id \in Nat /\ h.from \in Nodes
  BY FrameFields, Zenon DEF Targets
<1>2. h.from # NoHop
  BY <1>1, OdrAssumption, Zenon
<1>3. t[h.src] \in Row
  BY <1>1, Zenon
<1>4. CASE ~HasRow(t, h.src)
  <2>1. u = [t EXCEPT ![h.src] = r]
    BY <1>4, Zenon DEF update_routing_table
  <2>2. r \in Row
    BY <1>1, Zenon DEF Row
  <2>. QED  BY <1>1, <1>2, <1>4, <2>1, <2>2 DEF HasRow
<1>5. CASE HasRow(t, h.src) /\ h.bc_id > t[h.src].broadcast_id
  <2>1. u = [t EXCEPT ![h.src].broadcast_id = h.bc_id]
    BY <1>5, Zenon DEF update_routing_table
  <2>. QED  BY <1>1, <1>3, <1>5, <2>1 DEF HasRow, Row
<1>6. CASE HasRow(t, h.src) /\ ~(h.bc_id > t[h.src].broadcast_id)
  <2>1. u = [t EXCEPT ![h.src].hop_count = h.hop_count]
    BY <1>6, Zenon DEF update_routing_table
  <2>. QED  BY <1>1, <1>3, <1>6, <2>1 DEF HasRow, Row
<1>. QED  BY <1>4, <1>5, <1>6, Zenon

(* The table process_frame uses for its answer. *)
TableAfter(n, h) == IF Updates(n, h) THEN update_routing_table(table[n], h) ELSE table[n]

(* After a route frame the node has a row for its source, or is the source. *)
LEMMA AfterRoute ==
    ASSUME NEW n \in Nodes, NEW h \in Frame, h.type \in {"rreq", "rrep"},
           table[n] \in [Targets -> Row]
    PROVE  /\ TableAfter(n, h) \in [Targets -> Row]
           /\ h.src \in MyIps(n) \/ HasRow(TableAfter(n, h), h.src)
           /\ Updates(n, h) => HasRow(TableAfter(n, h), h.src)
           /\ \A ip \in Targets : HasRow(table[n], ip) =>
                TableAfter(n, h)[ip].next_hop = table[n][ip].next_hop
           /\ \A ip \in Targets : (~HasRow(table[n], ip) /\ HasRow(TableAfter(n, h), ip)) =>
                ip = h.src /\ ip \notin MyIps(n) /\ TableAfter(n, h)[ip].next_hop = h.from
<1>1. CASE Updates(n, h)
  <2>. DEFINE u == update_routing_table(table[n], h)
  <2>1. TableAfter(n, h) = u
    BY <1>1, Zenon DEF TableAfter
  <2>2. /\ u \in [Targets -> Row] /\ HasRow(u, h.src)
        /\ \A ip \in Targets : ip # h.src => u[ip] = table[n][ip]
        /\ HasRow(table[n], h.src) => u[h.src].next_hop = table[n][h.src].next_hop
        /\ ~HasRow(table[n], h.src) => u[h.src].next_hop = h.from
    BY UpdatedTable, Zenon
  <2>3. h.src \notin MyIps(n)
    BY <1>1, Zenon DEF Updates
  <2>. HIDE DEF u
  <2>4. \A ip \in Targets : HasRow(table[n], ip) => u[ip].next_hop = table[n][ip].next_hop
    BY <2>2, Zenon
  <2>5. \A ip \in Targets : (~HasRow(table[n], ip) /\ HasRow(u, ip)) =>
           ip = h.src /\ ip \notin MyIps(n) /\ u[ip].next_hop = h.from
    BY <2>2, <2>3, Zenon DEF HasRow
  <2>. QED  BY <2>1, <2>2, <2>4, <2>5, Zenon
<1>2. CASE ~Updates(n, h)
  BY <1>2, Zenon DEF TableAfter, Updates
<1>. QED  BY <1>1, <1>2, Zenon

LEMMA RreqAnswered ==
    ASSUME NEW n \in Nodes, NEW h \in Frame, h.type = "rreq", NEW t, t = TableAfter(n, h),
           table[n] \in [Targets -> Row], \A ip \in Targets : HasRow(t, ip) => ip \in Ips
    PROVE  GoodSend(n, t, ReplyToRreq(n, t, h))
<1>1. /\ h.src \in Ips /\ h.src \in Targets /\ h.dest \in Targets /\ h.hop_count + 1 \in Nat
      /\ h.bc_id \in Nat /\ h.force_flag \in {0, 1}
  BY FrameFields DEF Targets
<1>2. Updates(n, h) => HasRow(t, h.src)
  BY AfterRoute, Zenon
<1>3. CASE h.dest \in MyIps(n) \/ HasRow(t, h.dest)
  <2>1. h.dest \in Ips
    BY <1>1, <1>3, Addresses, Zenon
  <2>2. GoodSend(n, t, send_rrep(n, t, h.bc_id, 1, h.src, h.dest))
    BY <1>1, <1>3, <2>1, RrepSent, Zenon
  <2>. QED  BY <1>3, <2>2, Zenon DEF ReplyToRreq
<1>4. CASE ~(h.dest \in MyIps(n) \/ HasRow(t, h.dest)) /\ Updates(n, h)
  <2>1. GoodSend(n, t, send_rreq(n, h.bc_id, h.hop_count + 1, h.src, h.dest, h.force_flag))
    BY <1>1, <1>2, <1>4, RreqSent, Zenon
  <2>. QED  BY <1>4, <2>1, Zenon DEF ReplyToRreq
<1>5. CASE ~(h.dest \in MyIps(n) \/ HasRow(t, h.dest)) /\ ~Updates(n, h)
  BY <1>5, SilenceSent, Zenon DEF ReplyToRreq
<1>. QED  BY <1>3, <1>4, <1>5, Zenon

LEMMA RrepAnswered ==
    ASSUME NEW n \in Nodes, NEW h \in Frame, h.type = "rrep", NEW t, t = TableAfter(n, h),
           table[n] \in [Targets -> Row], broadcast_id[n] \in Nat
    PROVE  GoodSend(n, t, ReplyToRrep(n, t, h))
<1>1. /\ h.src \in Ips /\ h.src \in Targets /\ h.dest \in Targets /\ h.hop_count + 1 \in Nat
      /\ h.bc_id \in Nat /\ GetMeTime \in Messages
  BY FrameFields DEF Targets, Messages
<1>2. (h.src \in MyIps(n) \/ HasRow(t, h.src)) /\ t \in [Targets -> Row]
  BY AfterRoute, Zenon
<1>3. CASE h.dest \in MyIps(n)
  <2>1. h.dest \in Ips
    BY <1>3, Addresses, Zenon
  <2>2. GoodSend(n, t, send_payload(n, t, broadcast_id[n], h.dest, h.src, "payload_req",
                                    GetMeTime, 0))
    BY <1>1, <1>2, <2>1, PayloadSent, Zenon
  <2>. QED  BY <1>3, <2>2, Zenon DEF ReplyToRrep
<1>4. CASE h.dest \notin MyIps(n)
  <2>1. GoodSend(n, t, send_rrep(n, t, h.bc_id, h.hop_count + 1, h.dest, h.src))
    BY <1>1, <1>2, RrepSent, Zenon
  <2>. QED  BY <1>4, <2>1, Zenon DEF ReplyToRrep
<1>. QED  BY <1>3, <1>4, Zenon

LEMMA PayloadForwarded ==
    ASSUME NEW n \in Nodes, NEW h \in Frame, h.type \in {"payload_req", "payload_resp"},
           table[n] \in [Targets -> Row], broadcast_id[n] \in Nat
    PROVE  GoodSend(n, table[n], ForwardPayload(n, h))
<1>1. h.src \in Ips /\ h.dest \in Targets /\ h.msg \in Messages
  BY FrameFields, Zenon
<1>2. GoodSend(n, table[n], send_payload(n, table[n], broadcast_id[n], h.src, h.dest, h.type,
                                         h.msg, 0))
  BY <1>1, PayloadSent, Zenon
<1>. QED  BY <1>2, SilenceSent, Zenon DEF ForwardPayload

---------------------------------------------------------------------------
(* The tables.  What a node knows it knows for ever, rows lead on, and a new   *)
(* row closes no circle: the node that makes it had none, so by RowsLead no    *)
(* node that kept its table leads to it.                                       *)

KnownForEver == \A m \in Nodes, ip \in Targets : Knows(m, ip) => Knows(m, ip)'
TablesSound == KnownForEver /\ RowsLead' /\ NoLoops'

(* A row whose next hop is a neighbour that knew the way leads on. *)
LEMMA LeadsOn ==
    ASSUME KnownForEver, NEW x \in Nodes, NEW ip \in Ips, ip \notin MyIps(x),
           NEW y \in Neighbours[x], Knows(y, ip), table'[x][ip].next_hop = y
    PROVE  RowLeads(x, ip)'
<1>1. y \in Nodes /\ ip \in Targets
  BY Addresses, Zenon
<1>2. Knows(y, ip)'
  BY <1>1, Zenon DEF KnownForEver
<1>. QED  BY <1>2, Zenon DEF RowLeads, Knows

LEMMA OldRow ==
    ASSUME OdrInv, KnownForEver, NEW x \in Nodes, NEW ip \in Targets, HasRow(table[x], ip),
           table'[x][ip].next_hop = table[x][ip].next_hop
    PROVE  RowLeads(x, ip)'
<1>1. /\ ip \in Ips /\ ip \notin MyIps(x) /\ table[x][ip].next_hop \in Neighbours[x]
      /\ Knows(table[x][ip].next_hop, ip)
  BY Zenon DEF OdrInv, RowsLead, RowLeads
<1>. QED  BY <1>1, LeadsOn, Zenon

LEMMA TablesKept ==
    ASSUME OdrInv, UNCHANGED <<table, cleared>>
    PROVE  TablesSound
BY Zenon DEF OdrInv, TablesSound, KnownForEver, RowsLead, RowLeads, NoLoops, Knows, HasRow

LEMMA TablesAfterRoute ==
    ASSUME OdrInv, NEW n \in Nodes, NEW h \in GoodFrames(n), h.type \in {"rreq", "rrep"},
           table' = [table EXCEPT ![n] = TableAfter(n, h)], cleared' = cleared
    PROVE  TablesSound
<1>. DEFINE u == TableAfter(n, h)
<1>1. h \in Frame /\ h.from \in Neighbours[n] /\ Knows(h.from, h.src) /\ h.src \in Ips
      /\ h.src \in Targets /\ table \in [Nodes -> [Targets -> Row]]
  BY FrameFields, Zenon DEF GoodFrames, OdrInv, OdrTypes, Targets
<1>2. \A x \in Nodes : table'[x] = IF x = n THEN u ELSE table[x]
  BY <1>1, Zenon
<1>3. \A ip \in Targets : HasRow(table[n], ip) => u[ip].next_hop = table[n][ip].next_hop
  BY <1>1, AfterRoute, Zenon
<1>4. \A ip \in Targets : (~HasRow(table[n], ip) /\ HasRow(u, ip)) =>
          ip = h.src /\ ip \notin MyIps(n) /\ u[ip].next_hop = h.from
  BY <1>1, AfterRoute, Zenon
<1>. HIDE DEF u
<1>5. KnownForEver
  BY <1>2, <1>3, Zenon DEF KnownForEver, Knows, HasRow
<1>6. RowsLead'
  <2>1. SUFFICES ASSUME NEW x \in Nodes, NEW ip \in Targets PROVE RowLeads(x, ip)'
    BY Zenon DEF RowsLead
  <2>2. CASE HasRow(table[x], ip)
    <3>1. table'[x][ip].next_hop = table[x][ip].next_hop
      BY <1>2, <1>3, <2>2, Zenon
    <3>. QED  BY <1>5, <2>2, <3>1, OldRow, Zenon
  <2>3. CASE ~HasRow(table[x], ip) /\ HasRow(table'[x], ip)
    <3>1. x = n /\ HasRow(u, ip)
      BY <1>2, <2>3, Zenon
    <3>2. ip = h.src /\ ip \notin MyIps(n) /\ table'[n][ip].next_hop = h.from
      BY <1>2, <1>4, <2>3, <3>1, Zenon
    <3>. QED  BY <1>1, <1>5, <3>1, <3>2, LeadsOn, Zenon
  <2>4. CASE ~HasRow(table'[x], ip)
    BY <2>4, Zenon DEF RowLeads, HasRow
  <2>. QED  BY <2>2, <2>3, <2>4, Zenon
<1>7. NoLoops'
  <2>1. SUFFICES ASSUME NEW ip \in Ips, NEW S \in SUBSET (Nodes \ cleared), S # {},
                        \A x \in S : table'[x][ip].next_hop \in S
                 PROVE  FALSE
    BY Zenon DEF NoLoops
  <2>2. ip \in Targets
    BY Zenon DEF Targets
  <2>3. n \in S /\ ~HasRow(table[n], ip)
    <3>1. SUFFICES ASSUME n \notin S \/ HasRow(table[n], ip) PROVE FALSE
      BY Zenon
    <3>2. \A x \in S : table'[x][ip].next_hop = table[x][ip].next_hop
      BY <1>2, <1>3, <2>2, <3>1, Zenon
    <3>. QED  BY <2>1, <3>2, Zenon DEF OdrInv, NoLoops
  <2>4. HasRow(u, ip)
    <3>1. table'[n][ip].next_hop \in Nodes
      BY <2>1, <2>3, Zenon
    <3>2. NoHop \notin Nodes
      BY OdrAssumption, Zenon
    <3>. QED  BY <1>2, <3>1, <3>2, Zenon DEF HasRow
  <2>5. ip = h.src /\ ip \notin MyIps(n) /\ table'[n][ip].next_hop = h.from
    BY <1>2, <1>4, <2>2, <2>3, <2>4, Zenon
  <2>6. S \ {n} # {}
    <3>1. h.from # n
      BY <1>1, Addresses, Zenon
    <3>. QED  BY <2>1, <2>3, <2>5, <3>1, Zenon
  <2>7. PICK x \in S \ {n} : table[x][ip].next_hop \notin S \ {n}
    BY <2>1, <2>6, Zenon DEF OdrInv, NoLoops
  <2>8. table[x][ip].next_hop = n
    <3>1. table'[x][ip].next_hop = table[x][ip].next_hop
      BY <1>2, <2>7, Zenon
    <3>. QED  BY <2>1, <2>7, <3>1, Zenon
  <2>9. HasRow(table[x], ip)
    <3>1. NoHop # n
      BY OdrAssumption, Zenon
    <3>. QED  BY <2>8, <3>1, Zenon DEF HasRow
  <2>10. Knows(n, ip)
    BY <2>2, <2>7, <2>8, <2>9, Zenon DEF OdrInv, RowsLead, RowLeads
  <2>. QED  BY <2>1, <2>3, <2>5, <2>10, Zenon DEF Knows
<1>. QED  BY <1>5, <1>6, <1>7, Zenon DEF TablesSound

LEMMA TablesEmptied ==
    ASSUME OdrInv, NEW n \in Nodes, table' = [table EXCEPT ![n] = NoTable],
           cleared' = cleared \union {n}
    PROVE  TablesSound
<1>1. table \in [Nodes -> [Targets -> Row]] /\ cleared \subseteq Nodes
  BY Zenon DEF OdrInv, OdrTypes
<1>2. \A x \in Nodes : table'[x] = IF x = n THEN NoTable ELSE table[x]
  BY <1>1, Zenon
<1>3. \A ip \in Targets : ~HasRow(NoTable, ip)
  BY Zenon DEF HasRow, NoTable, EmptyRow
<1>4. KnownForEver
  BY <1>2, Zenon DEF KnownForEver, Knows
<1>5. RowsLead'
  <2>1. SUFFICES ASSUME NEW x \in Nodes, NEW ip \in Targets PROVE RowLeads(x, ip)'
    BY Zenon DEF RowsLead
  <2>2. CASE HasRow(table'[x], ip)
    <3>1. table'[x] = table[x] /\ HasRow(table[x], ip)
      BY <1>2, <1>3, <2>2, Zenon
    <3>. QED  BY <1>4, <3>1, OldRow, Zenon
  <2>3. CASE ~HasRow(table'[x], ip)
    BY <2>3, Zenon DEF RowLeads, HasRow
  <2>. QED  BY <2>2, <2>3, Zenon
<1>6. NoLoops'
  <2>1. SUFFICES ASSUME NEW ip \in Ips, NEW S \in SUBSET (Nodes \ cleared'), S # {}
                 PROVE  \E x \in S : table'[x][ip].next_hop \notin S
    BY Zenon DEF NoLoops
  <2>2. S \in SUBSET (Nodes \ cleared) /\ \A x \in S : table'[x] = table[x]
    BY <1>2, Zenon
  <2>. QED  BY <2>1, <2>2, Zenon DEF OdrInv, NoLoops
<1>. QED  BY <1>4, <1>5, <1>6, Zenon DEF TablesSound

---------------------------------------------------------------------------
(* The inboxes. *)

LEMMA SeqOfMore ==
    ASSUME NEW A, NEW B, A \subseteq B
    PROVE  Seq(A) \subseteq Seq(B)
OBVIOUS

LEMMA StillGood ==
    ASSUME KnownForEver, NEW n \in Nodes
    PROVE  GoodFrames(n) \subseteq GoodFrames(n)'
<1>1. SUFFICES ASSUME NEW f \in Frame, f.type \in {"rreq", "rrep"},
                      f.from \in Neighbours[n], Knows(f.from, f.src)
               PROVE  Knows(f.from, f.src)'
  BY Zenon DEF GoodFrames, Knows
<1>2. f.from \in Nodes /\ f.src \in Targets
  BY FrameFields, Zenon DEF Targets
<1>. QED  BY <1>1, <1>2, Zenon DEF KnownForEver

(* What a node sends is good for those who hear it. *)
LEMMA SentIsGood ==
    ASSUME NEW n \in Nodes, NEW m \in Neighbours[n]
    PROVE  SentBy(n, table'[n]) \subseteq GoodFrames(m)'
<1>1. n \in Neighbours[m]
  BY Addresses, Zenon
<1>. QED  BY <1>1, Zenon DEF SentBy, GoodFrames, Knows

(* Posting leaves the inboxes good. *)
LEMMA PostedGood ==
    ASSUME KnownForEver, NEW n \in Nodes, NEW s, GoodSend(n, table'[n], s), NEW q,
           \A m \in Nodes : q[m] \in Seq(GoodFrames(m)), inbox' = Posted(q, s)
    PROVE  InboxesGood'
<1>1. inbox' = [m \in Nodes |-> IF m \in s.to THEN q[m] \o s.headers ELSE q[m]]
  BY Zenon DEF Posted
<1>2. ASSUME NEW m \in Nodes PROVE inbox'[m] \in Seq(GoodFrames(m)')
  <2>1. q[m] \in Seq(GoodFrames(m)')
    BY StillGood, SeqOfMore, Zenon
  <2>2. CASE m \in s.to
    <3>1. m \in Neighbours[n] /\ s.headers \in Seq(SentBy(n, table'[n]))
      BY <2>2, Zenon DEF GoodSend
    <3>2. s.headers \in Seq(GoodFrames(m)')
      BY <3>1, SentIsGood, SeqOfMore, Zenon
    <3>3. q[m] \o s.headers \in Seq(GoodFrames(m)')
      BY <2>1, <3>2
    <3>. QED  BY <1>1, <2>2, <3>3, Zenon
  <2>3. CASE m \notin s.to
    BY <1>1, <2>1, <2>3, Zenon
  <2>. QED  BY <2>2, <2>3, Zenon
<1>3. DOMAIN inbox' = Nodes /\ inbox' = [m \in Nodes |-> inbox'[m]]
  BY <1>1, Zenon
<1>. QED  BY <1>2, <1>3, Zenon DEF InboxesGood

(* An inbox without its first frame. *)
LEMMA Taken ==
    ASSUME InboxesGood, NEW n \in Nodes, inbox[n] # <<>>
    PROVE  /\ Head(inbox[n]) \in GoodFrames(n)
           /\ \A m \in Nodes : [inbox EXCEPT ![n] = Tail(@)][m] \in Seq(GoodFrames(m))
<1>1. inbox[n] \in Seq(GoodFrames(n)) /\ DOMAIN inbox = Nodes
  BY Zenon DEF InboxesGood
<1>2. Head(inbox[n]) \in GoodFrames(n) /\ Tail(inbox[n]) \in Seq(GoodFrames(n))
  BY <1>1
<1>3. \A m \in Nodes : [inbox EXCEPT ![n] = Tail(@)][m] =
                         IF m = n THEN Tail(inbox[n]) ELSE inbox[m]
  BY <1>1, Zenon DEF InboxesGood
<1>. QED  BY <1>2, <1>3, Zenon DEF InboxesGood

LEMMA InboxesKept ==
    ASSUME InboxesGood, KnownForEver, inbox' = inbox
    PROVE  InboxesGood'
<1>1. \A m \in Nodes : inbox[m] \in Seq(GoodFrames(m)')
  BY StillGood, SeqOfMore, Zenon DEF InboxesGood
<1>. QED  BY <1>1, Zenon DEF InboxesGood

---------------------------------------------------------------------------
(* The invariant is inductive: one lemma per action. *)

LEMMA InitInv == Init => OdrInv
<1>1. SUFFICES ASSUME Init PROVE OdrInv
  BY Zenon
<1>2. \A n \in Nodes : table[n] = NoTable
  BY <1>1, Zenon DEF Init
<1>3. NoTable \in [Targets -> Row] /\ \A ip \in Targets : NoTable[ip].next_hop = NoHop
  BY Zenon DEF NoTable, EmptyRow, Row
<1>4. OdrTypes
  <2>1. NoHeader \in [src : Targets, dest : Targets]
    BY Zenon DEF NoHeader, Targets
  <2>2. <<>> \in Seq(Datagram)
    OBVIOUS
  <2>. QED  BY <1>1, <1>3, <2>1, <2>2, Zenon DEF Init, OdrTypes, Menu
<1>5. InboxesGood
  BY <1>1 DEF Init, InboxesGood
<1>6. RowsLead
  BY <1>2, <1>3, Zenon DEF RowsLead, RowLeads, HasRow
<1>7. NoLoops
  <2>1. NoHop \notin Nodes
    BY OdrAssumption, Zenon
  <2>2. \A n \in Nodes, ip \in Ips : table[n][ip].next_hop = NoHop
    BY <1>2, <1>3, Zenon DEF Targets
  <2>3. SUFFICES ASSUME NEW ip \in Ips, NEW S \in SUBSET (Nodes \ cleared), S # {}
                 PROVE  \E n \in S : table[n][ip].next_hop \notin S
    BY Zenon DEF NoLoops
  <2>4. PICK n \in S : TRUE
    BY <2>3, Zenon
  <2>5. n \in Nodes /\ NoHop \notin S
    BY <2>1, <2>4, Zenon
  <2>6. table[n][ip].next_hop \notin S
    BY <2>2, <2>5, Zenon
  <2>. QED  BY <2>4, <2>6, Zenon
<1>. QED  BY <1>4, <1>5, <1>6, <1>7, Zenon DEF OdrInv

LEMMA ProcessRouteInv ==
    ASSUME OdrInv, NEW n \in Nodes, inbox[n] # <<>>, ProcessRoute(n, Head(inbox[n])),
           UNCHANGED <<broadcast_id, odrq, client, cleared>>
    PROVE  OdrInv'
<1>. DEFINE h == Head(inbox[n])
            t == TableAfter(n, h)
            s == IF h.type = "rreq" THEN ReplyToRreq(n, t, h) ELSE ReplyToRrep(n, t, h)
            q == [inbox EXCEPT ![n] = Tail(@)]
<1>1. h \in GoodFrames(n) /\ \A m \in Nodes : q[m] \in Seq(GoodFrames(m))
  BY Taken, Zenon DEF OdrInv
<1>2. /\ h.type \in {"rreq", "rrep"} /\ table' = [table EXCEPT ![n] = t]
      /\ inbox' = Posted(q, s) /\ UNCHANGED <<pc, header>>
  BY Zenon DEF ProcessRoute, TableAfter
<1>. HIDE DEF h, q
<1>3. h \in Frame /\ table \in [Nodes -> [Targets -> Row]] /\ broadcast_id[n] \in Nat
  BY <1>1, Zenon DEF GoodFrames, OdrInv, OdrTypes
<1>4. t \in [Targets -> Row]
  BY <1>2, <1>3, AfterRoute, Zenon
<1>5. TablesSound
  BY <1>1, <1>2, TablesAfterRoute, Zenon
<1>6. table'[n] = t
  BY <1>2, <1>3, Zenon
<1>7. \A ip \in Targets : HasRow(t, ip) => ip \in Ips
  <2>1. SUFFICES ASSUME NEW ip \in Targets, HasRow(table'[n], ip) PROVE ip \in Ips
    BY <1>6, Zenon
  <2>2. RowLeads(n, ip)'
    BY <1>5, Zenon DEF TablesSound, RowsLead
  <2>. QED  BY <2>1, <2>2, Zenon DEF RowLeads
<1>. HIDE DEF t
<1>8. GoodSend(n, t, s)
  <2>1. t = TableAfter(n, h)
    BY Zenon DEF t
  <2>2. CASE h.type = "rreq"
    BY <1>3, <1>7, <2>1, <2>2, RreqAnswered, Zenon
  <2>3. CASE h.type = "rrep"
    BY <1>3, <2>1, <2>3, RrepAnswered, Zenon
  <2>. QED  BY <1>2, <2>2, <2>3, Zenon
<1>. HIDE DEF s
<1>9. InboxesGood'
  BY <1>1, <1>2, <1>5, <1>6, <1>8, PostedGood, Zenon DEF TablesSound
<1>10. OdrTypes'
  BY <1>2, <1>3, <1>4, Zenon DEF OdrInv, OdrTypes
<1>. QED  BY <1>5, <1>9, <1>10, Zenon DEF OdrInv, TablesSound

LEMMA PayloadInboxes ==
    ASSUME OdrInv, NEW n \in Nodes, inbox[n] # <<>>, UNCHANGED <<table, cleared>>,
           Head(inbox[n]).type \in {"payload_req", "payload_resp"},
           inbox' = Posted([inbox EXCEPT ![n] = Tail(@)], ForwardPayload(n, Head(inbox[n])))
    PROVE  InboxesGood' /\ RowsLead' /\ NoLoops'
<1>. DEFINE h == Head(inbox[n])
            s == ForwardPayload(n, h)
            q == [inbox EXCEPT ![n] = Tail(@)]
<1>1. h \in GoodFrames(n) /\ \A m \in Nodes : q[m] \in Seq(GoodFrames(m))
  BY Taken, Zenon DEF OdrInv
<1>2. h.type \in {"payload_req", "payload_resp"} /\ inbox' = Posted(q, s)
  BY Zenon
<1>. HIDE DEF h, q
<1>3. h \in Frame /\ table[n] \in [Targets -> Row] /\ broadcast_id[n] \in Nat
  BY <1>1, Zenon DEF GoodFrames, OdrInv, OdrTypes
<1>4. GoodSend(n, table[n], s)
  BY <1>2, <1>3, PayloadForwarded, Zenon
<1>. HIDE DEF s
<1>5. TablesSound /\ table'[n] = table[n]
  BY TablesKept, Zenon
<1>. QED  BY <1>1, <1>2, <1>4, <1>5, PostedGood, Zenon DEF TablesSound

LEMMA ProcessPayloadReqInv ==
    ASSUME OdrInv, NEW n \in Nodes, inbox[n] # <<>>, ProcessPayloadReq(n, Head(inbox[n])),
           UNCHANGED <<broadcast_id, odrq, client, cleared>>
    PROVE  OdrInv'
<1>1. InboxesGood' /\ RowsLead' /\ NoLoops'
  BY PayloadInboxes, Zenon DEF ProcessPayloadReq
<1>. DEFINE h == Head(inbox[n])
<1>2. h \in Frame
  BY Taken, Zenon DEF OdrInv, GoodFrames
<1>3. h.src \in Ips /\ h.dest \in Targets /\ h.src \in Targets
  BY <1>2, FrameFields, Zenon DEF Targets
<1>4. OdrTypes'
  <2>1. UNCHANGED <<table, broadcast_id, odrq, client, cleared>>
    BY Zenon DEF ProcessPayloadReq
  <2>2. CASE h.dest \in MyIps(n)
    <3>. DEFINE e == [src |-> h.src, dest |-> h.dest]
    <3>1. header' = [header EXCEPT ![n] = e] /\ pc' = [pc EXCEPT ![n] = "server"]
      BY <2>2, Zenon DEF ProcessPayloadReq
    <3>. HIDE DEF h
    <3>2. e \in [src : Targets, dest : Targets] /\ e.src \in Ips /\ e.dest \in Ips
      BY <1>3, <2>2, Addresses, Zenon
    <3>. HIDE DEF e
    <3>3. /\ pc \in [Nodes -> {"select", "server", "undefined"}]
          /\ header \in [Nodes -> [src : Targets, dest : Targets]]
          /\ \A m \in Nodes : pc[m] = "server" => header[m].src \in Ips /\ header[m].dest \in Ips
      BY Zenon DEF OdrInv, OdrTypes
    <3>4. /\ pc' \in [Nodes -> {"select", "server", "undefined"}]
          /\ header' \in [Nodes -> [src : Targets, dest : Targets]]
      BY <3>1, <3>2, <3>3, Zenon
    <3>5. \A m \in Nodes : pc'[m] = "server" => header'[m].src \in Ips /\ header'[m].dest \in Ips
      BY <3>1, <3>2, <3>3, Zenon
    <3>. QED  BY <2>1, <3>4, <3>5, Zenon DEF OdrInv, OdrTypes
  <2>3. CASE h.dest \notin MyIps(n)
    <3>1. UNCHANGED <<header, pc>>
      BY <2>3, Zenon DEF ProcessPayloadReq
    <3>. QED  BY <2>1, <3>1, Zenon DEF OdrInv, OdrTypes
  <2>. QED  BY <2>2, <2>3, Zenon
<1>. QED  BY <1>1, <1>4, Zenon DEF OdrInv

LEMMA ProcessPayloadRespInv ==
    ASSUME OdrInv, NEW n \in Nodes, inbox[n] # <<>>, ProcessPayloadResp(n, Head(inbox[n])),
           UNCHANGED <<broadcast_id, odrq, client, cleared>>
    PROVE  OdrInv'
<1>1. InboxesGood' /\ RowsLead' /\ NoLoops'
  BY PayloadInboxes, Zenon DEF ProcessPayloadResp
<1>2. OdrTypes'
  BY Zenon DEF ProcessPayloadResp, OdrInv, OdrTypes
<1>. QED  BY <1>1, <1>2, Zenon DEF OdrInv

LEMMA ProcessFrameInv ==
    ASSUME OdrInv, NEW n \in Nodes, process_frame(n)
    PROVE  OdrInv'
BY ProcessRouteInv, ProcessPayloadReqInv, ProcessPayloadRespInv, Zenon DEF process_frame

LEMMA ServerAnswerInv ==
    ASSUME OdrInv, NEW n \in Nodes, ServerAnswer(n)
    PROVE  OdrInv'
<1>. DEFINE m == Head(odrq[n])
            h == header[n]
            s == send_payload(n, table[n], broadcast_id[n], h.dest, h.src, "payload_resp",
                              m.msg, 0)
<1>1. /\ pc[n] = "server" /\ odrq[n] # <<>> /\ odrq' = [odrq EXCEPT ![n] = Tail(@)]
      /\ inbox' = Posted(inbox, s) /\ pc' = [pc EXCEPT ![n] = "select"]
      /\ header' = [header EXCEPT ![n] = NoHeader]
      /\ UNCHANGED <<table, broadcast_id, client, cleared>>
  BY Zenon DEF ServerAnswer
<1>2. odrq[n] \in Seq(Datagram) /\ h.src \in Ips /\ h.dest \in Ips
      /\ table[n] \in [Targets -> Row] /\ broadcast_id[n] \in Nat
  BY <1>1, Zenon DEF OdrInv, OdrTypes
<1>3. m \in Datagram /\ Tail(odrq[n]) \in Seq(Datagram)
  BY <1>1, <1>2
<1>4. m.msg \in Messages
  BY <1>3, Zenon DEF Datagram
<1>. HIDE DEF m
<1>5. GoodSend(n, table[n], s)
  <2>1. h.src \in Targets
    BY <1>2, Zenon DEF Targets
  <2>. HIDE DEF h
  <2>. QED  BY <1>2, <1>4, <2>1, PayloadSent, Zenon
<1>. HIDE DEF s
<1>6. TablesSound /\ table'[n] = table[n]
  BY <1>1, TablesKept, Zenon
<1>7. InboxesGood'
  BY <1>1, <1>5, <1>6, PostedGood, Zenon DEF TablesSound, OdrInv, InboxesGood
<1>8. OdrTypes'
  <2>1. NoHeader \in [src : Targets, dest : Targets]
    BY Zenon DEF NoHeader, Targets
  <2>2. /\ pc \in [Nodes -> {"select", "server", "undefined"}]
        /\ header \in [Nodes -> [src : Targets, dest : Targets]]
        /\ odrq \in [Nodes -> Seq(Datagram)]
        /\ \A x \in Nodes : pc[x] = "server" => header[x].src \in Ips /\ header[x].dest \in Ips
    BY Zenon DEF OdrInv, OdrTypes
  <2>3. /\ pc' \in [Nodes -> {"select", "server", "undefined"}]
        /\ header' \in [Nodes -> [src : Targets, dest : Targets]]
        /\ odrq' \in [Nodes -> Seq(Datagram)]
    BY <1>1, <1>3, <2>1, <2>2, Zenon
  <2>4. \A x \in Nodes : pc'[x] = "server" => header'[x].src \in Ips /\ header'[x].dest \in Ips
    BY <1>1, <2>2, Zenon
  <2>. QED  BY <1>1, <2>3, <2>4, Zenon DEF OdrInv, OdrTypes
<1>. QED  BY <1>6, <1>7, <1>8, Zenon DEF OdrInv, TablesSound

LEMMA ClientRequestInv ==
    ASSUME OdrInv, NEW n \in Nodes, ClientRequest(n)
    PROVE  OdrInv'
<1>. DEFINE m == Head(odrq[n])
            t == IF m.flag = 1 THEN NoTable ELSE table[n]
            s == SendRequest(n, t, m)
<1>1. /\ pc[n] = "select" /\ odrq[n] # <<>> /\ odrq' = [odrq EXCEPT ![n] = Tail(@)]
      /\ broadcast_id' = [broadcast_id EXCEPT ![n] = @ + 1]
      /\ table' = [table EXCEPT ![n] = t]
      /\ cleared' = IF m.flag = 1 THEN cleared \union {n} ELSE cleared
      /\ inbox' = Posted(inbox, s) /\ UNCHANGED <<header, client>>
  BY Zenon DEF ClientRequest
<1>2. pc' = pc \/ pc' = [pc EXCEPT ![n] = "undefined"]
  BY Zenon DEF ClientRequest, push_data_to_buf
<1>3. odrq[n] \in Seq(Datagram) /\ table \in [Nodes -> [Targets -> Row]]
      /\ broadcast_id[n] \in Nat
  BY Zenon DEF OdrInv, OdrTypes
<1>4. m \in Datagram /\ Tail(odrq[n]) \in Seq(Datagram)
  BY <1>1, <1>3
<1>5. t \in [Targets -> Row]
  <2>1. NoTable \in [Targets -> Row]
    BY Zenon DEF NoTable, EmptyRow, Row
  <2>. QED  BY <1>3, <2>1, Zenon
<1>. HIDE DEF m
<1>6. TablesSound
  <2>1. CASE m.flag = 1
    BY <1>1, <2>1, TablesEmptied, Zenon
  <2>2. CASE m.flag # 1
    <3>1. table' = table /\ cleared' = cleared
      BY <1>1, <1>3, <2>2, Zenon
    <3>. QED  BY <3>1, TablesKept, Zenon
  <2>. QED  BY <2>1, <2>2, Zenon
<1>. HIDE DEF t
<1>7. GoodSend(n, t, s) /\ table'[n] = t
  BY <1>1, <1>3, <1>4, <1>5, RequestSent, Zenon
<1>. HIDE DEF s
<1>8. InboxesGood'
  <2>1. inbox' = Posted(inbox, s)
    BY <1>1, Zenon
  <2>2. KnownForEver /\ \A x \in Nodes : inbox[x] \in Seq(GoodFrames(x))
    BY <1>6, Zenon DEF TablesSound, OdrInv, InboxesGood
  <2>. QED  BY <1>7, <2>1, <2>2, PostedGood, Zenon
<1>9. OdrTypes'
  <2>1. /\ pc \in [Nodes -> {"select", "server", "undefined"}]
        /\ broadcast_id \in [Nodes -> Nat] /\ odrq \in [Nodes -> Seq(Datagram)]
        /\ cleared \subseteq Nodes
        /\ \A x \in Nodes : pc[x] = "server" => header[x].src \in Ips /\ header[x].dest \in Ips
    BY Zenon DEF OdrInv, OdrTypes
  <2>2. /\ pc' \in [Nodes -> {"select", "server", "undefined"}]
        /\ \A x \in Nodes : pc'[x] = "server" => pc[x] = "server"
    BY <1>2, <2>1, Zenon
  <2>3. broadcast_id' \in [Nodes -> Nat]
    BY <1>1, <2>1
  <2>4. odrq' \in [Nodes -> Seq(Datagram)] /\ table' \in [Nodes -> [Targets -> Row]]
        /\ cleared' \subseteq Nodes
    BY <1>1, <1>3, <1>4, <1>5, <2>1, Zenon
  <2>5. \A x \in Nodes : pc'[x] = "server" => header'[x].src \in Ips /\ header'[x].dest \in Ips
    BY <1>1, <2>1, <2>2, Zenon
  <2>. QED  BY <1>1, <2>2, <2>3, <2>4, <2>5, Zenon DEF OdrInv, OdrTypes
<1>. QED  BY <1>6, <1>8, <1>9, Zenon DEF OdrInv, TablesSound

LEMMA StaleInv ==
    ASSUME OdrInv, NEW n \in Nodes, Stale(n)
    PROVE  OdrInv'
<1>1. table' = [table EXCEPT ![n] = NoTable] /\ cleared' = cleared \union {n}
      /\ UNCHANGED <<pc, broadcast_id, header, inbox, odrq, client>>
  BY Zenon DEF Stale, netVars
<1>2. TablesSound
  BY <1>1, TablesEmptied, Zenon
<1>3. NoTable \in [Targets -> Row]
  BY Zenon DEF NoTable, EmptyRow, Row
<1>4. OdrTypes'
  BY <1>1, <1>3, Zenon DEF OdrInv, OdrTypes
<1>5. InboxesGood'
  BY <1>1, <1>2, InboxesKept, Zenon DEF OdrInv, TablesSound
<1>. QED  BY <1>2, <1>4, <1>5, Zenon DEF OdrInv, TablesSound

(* Steps that leave the daemons and the frames alone. *)
LEMMA OutsideInv ==
    ASSUME OdrInv, UNCHANGED <<pc, table, broadcast_id, header, inbox, cleared>>,
           odrq' \in [Nodes -> Seq(Datagram)], client' \in [Clients -> Nodes \union {NoHop}]
    PROVE  OdrInv'
<1>1. TablesSound
  BY TablesKept, Zenon
<1>2. InboxesGood'
  BY <1>1, InboxesKept, Zenon DEF OdrInv, TablesSound
<1>3. OdrTypes'
  BY Zenon DEF OdrInv, OdrTypes
<1>. QED  BY <1>1, <1>2, <1>3, Zenon DEF OdrInv, TablesSound

LEMMA Queued ==
    ASSUME OdrInv, NEW n \in Nodes, NEW d \in Datagram,
           odrq' = [odrq EXCEPT ![n] = Append(@, d)]
    PROVE  odrq' \in [Nodes -> Seq(Datagram)]
<1>1. odrq \in [Nodes -> Seq(Datagram)]
  BY Zenon DEF OdrInv, OdrTypes
<1>2. Append(odrq[n], d) \in Seq(Datagram)
  BY <1>1
<1>. QED  BY <1>1, <1>2, Zenon

LEMMA RespondInv ==
    ASSUME OdrInv, NEW n \in Nodes, respond(n)
    PROVE  OdrInv'
<1>. DEFINE d == [port |-> NoPort, dest |-> NoIp, msg |-> n, flag |-> 0]
<1>1. d \in Datagram
  BY Zenon DEF Datagram, Targets, Messages
<1>2. odrq' = [odrq EXCEPT ![n] = Append(@, d)]
      /\ UNCHANGED <<pc, table, broadcast_id, header, inbox, cleared, client>>
  BY Zenon DEF respond, odrVars, histVars
<1>. HIDE DEF d
<1>3. odrq' \in [Nodes -> Seq(Datagram)]
  BY <1>1, <1>2, Queued, Zenon
<1>4. client' \in [Clients -> Nodes \union {NoHop}]
  BY <1>2, Zenon DEF OdrInv, OdrTypes
<1>. QED  BY <1>2, <1>3, <1>4, OutsideInv, Zenon

LEMMA MsgSendInv ==
    ASSUME OdrInv, NEW c \in Clients, NEW d \in Nodes, NEW flag \in {0, 1},
           msg_send(c, d, flag)
    PROVE  odrq' \in [Nodes -> Seq(Datagram)]
<1>. DEFINE m == [port |-> c, dest |-> VmIp[d], msg |-> GetMeTime, flag |-> flag]
<1>1. VmIp[d] \in Ips /\ ClientAt[c] \in Nodes
  BY Addresses, OdrAssumption, Zenon
<1>2. m \in Datagram
  BY <1>1, Zenon DEF Datagram, Targets, Messages
<1>3. odrq' = [odrq EXCEPT ![ClientAt[c]] = Append(@, m)]
  BY Zenon DEF msg_send
<1>. HIDE DEF m
<1>. QED  BY <1>1, <1>2, <1>3, Queued, Zenon

LEMMA AskInv ==
    ASSUME OdrInv, NEW c \in Clients, NEW d \in Nodes, Ask(c, d)
    PROVE  OdrInv'
<1>1. odrq' \in [Nodes -> Seq(Datagram)]
  BY MsgSendInv, Zenon DEF Ask
<1>2. client' \in [Clients -> Nodes \union {NoHop}]
  BY Zenon DEF Ask, OdrInv, OdrTypes
<1>. QED  BY <1>1, <1>2, OutsideInv, Zenon DEF Ask, odrVars

LEMMA ReceiveInv ==
    ASSUME OdrInv, NEW c \in Clients, Receive(c)
    PROVE  OdrInv'
<1>1. client' \in [Clients -> Nodes \union {NoHop}] /\ odrq' \in [Nodes -> Seq(Datagram)]
  BY Zenon DEF Receive, OdrInv, OdrTypes, Menu
<1>. QED  BY <1>1, OutsideInv, Zenon DEF Receive, odrVars, histVars

LEMMA TimeoutInv ==
    ASSUME OdrInv, NEW c \in Clients, Timeout(c)
    PROVE  OdrInv'
<1>1. client[c] \in Nodes
  BY Zenon DEF Timeout, OdrInv, OdrTypes, Menu
<1>2. odrq' \in [Nodes -> Seq(Datagram)]
  BY <1>1, MsgSendInv, Zenon DEF Timeout
<1>3. client' \in [Clients -> Nodes \union {NoHop}]
  BY Zenon DEF Timeout, OdrInv, OdrTypes, Menu
<1>. QED  BY <1>2, <1>3, OutsideInv, Zenon DEF Timeout, odrVars

LEMMA LoseFrameInv ==
    ASSUME OdrInv, NEW n \in Nodes, LoseFrame(n)
    PROVE  OdrInv'
<1>1. inbox[n] # <<>> /\ inbox' = [inbox EXCEPT ![n] = Tail(@)]
      /\ UNCHANGED <<pc, table, broadcast_id, header, odrq, client, cleared>>
  BY Zenon DEF LoseFrame, odrVars
<1>2. TablesSound
  BY <1>1, TablesKept, Zenon
<1>3. \A m \in Nodes : inbox'[m] \in Seq(GoodFrames(m))
  BY <1>1, Taken, Zenon DEF OdrInv
<1>4. \A m \in Nodes : inbox'[m] \in Seq(GoodFrames(m)')
  BY <1>2, <1>3, StillGood, SeqOfMore, Zenon DEF TablesSound
<1>5. DOMAIN inbox' = Nodes /\ inbox' = [m \in Nodes |-> inbox'[m]]
  BY <1>1, Zenon DEF OdrInv, InboxesGood
<1>6. OdrTypes'
  BY <1>1, Zenon DEF OdrInv, OdrTypes
<1>. QED  BY <1>2, <1>4, <1>5, <1>6, Zenon DEF OdrInv, InboxesGood, TablesSound

---------------------------------------------------------------------------
(* Theorems. *)

(* The inductive invariant: what a node tells about a way to an address it     *)
(* knows, every row leads on, and no circle of rows closes.                    *)
THEOREM OdrInvariant == Spec => []OdrInv
<1>1. Init => OdrInv
  BY InitInv, Zenon
<1>2. OdrInv /\ [Next]_vars => OdrInv'
  <2>1. SUFFICES ASSUME OdrInv, [Next]_vars PROVE OdrInv'
    BY Zenon
  <2>2. CASE \E n \in Nodes : Daemon(n) \/ respond(n) \/ Stale(n) \/ LoseFrame(n)
    BY <2>1, <2>2, ProcessFrameInv, ServerAnswerInv, ClientRequestInv, RespondInv, StaleInv,
       LoseFrameInv, Zenon DEF Daemon
  <2>3. CASE \E c \in Clients : Receive(c) \/ Timeout(c) \/ \E d \in Nodes : Ask(c, d)
    BY <2>1, <2>3, ReceiveInv, TimeoutInv, AskInv, Zenon
  <2>4. CASE UNCHANGED vars
    <3>1. odrq' \in [Nodes -> Seq(Datagram)] /\ client' \in [Clients -> Nodes \union {NoHop}]
      BY <2>1, <2>4, Zenon DEF vars, netVars, OdrInv, OdrTypes
    <3>. QED  BY <2>1, <2>4, <3>1, OutsideInv, Zenon DEF vars, odrVars, netVars, histVars
  <2>. QED  BY <2>1, <2>2, <2>3, <2>4, Zenon DEF Next
<1>. QED  BY <1>1, <1>2, PTL DEF Spec

(* The tables, queues and frames keep their types. *)
THEOREM OdrTypeCorrect == Spec => []TypeOK
<1>1. OdrInv => TypeOK
  <2>1. SUFFICES ASSUME OdrInv PROVE TypeOK
    BY Zenon
  <2>2. \A n \in Nodes : inbox[n] \in Seq(Frame)
    <3>1. \A n \in Nodes : GoodFrames(n) \subseteq Frame
      BY Zenon DEF GoodFrames
    <3>. QED  BY <2>1, <3>1, SeqOfMore, Zenon DEF OdrInv, InboxesGood
  <2>3. inbox \in [Nodes -> Seq(Frame)]
    BY <2>1, <2>2, Zenon DEF OdrInv, InboxesGood
  <2>. QED  BY <2>1, <2>3, Zenon DEF OdrInv, OdrTypes, TypeOK
<1>. QED  BY <1>1, OdrInvariant, PTL

(* A row's next hop is a neighbour and is the destination, has a row for it or *)
(* emptied its table: on every network, whatever is lost or repeated.          *)
THEOREM RowsLeadOn == Spec => []RoutesContinue
<1>1. OdrInv => RoutesContinue
  <2>1. SUFFICES ASSUME OdrInv, NEW n \in Nodes, NEW ip \in Ips,
                        table[n][ip].next_hop # NoHop
                 PROVE  LET m == table[n][ip].next_hop
                        IN  /\ ip \notin MyIps(n) /\ m \in Neighbours[n]
                            /\ ip \in MyIps(m) \/ HasRow(table[m], ip) \/ m \in cleared
    BY Zenon DEF RoutesContinue
  <2>2. ip \in Targets /\ HasRow(table[n], ip)
    BY <2>1, Zenon DEF Targets, HasRow
  <2>3. RowLeads(n, ip)
    BY <2>1, <2>2, Zenon DEF OdrInv, RowsLead
  <2>. QED  BY <2>2, <2>3, Zenon DEF RowLeads, Knows
<1>. QED  BY <1>1, OdrInvariant, PTL

(* No set of nodes that kept their tables passes a payload round for ever.     *)
THEOREM RowsNeverCircle == Spec => []NoLoops
<1>1. OdrInv => NoLoops
  BY Zenon DEF OdrInv
<1>. QED  BY <1>1, OdrInvariant, PTL

---------------------------------------------------------------------------
(* Requests and answers.  Every request a client ever made is on its way to    *)
(* the daemon, waits in the daemon's buffer, was answered, or was dropped.     *)

(* Who may ask for an address through the daemon of a node: a client of that   *)
(* node, and only for the address it uses for a node.  The server's datagrams  *)
(* name no address.                                                            *)
AskedHere(n, port, dest) ==
    dest # NoIp => /\ port \in Clients /\ ClientAt[port] = n
                   /\ \E d \in Nodes : dest = VmIp[d]
AskedAt(n) == {m \in Datagram : AskedHere(n, m.port, m.dest)}
Entry == [port : Clients \union {NoPort}, dest : Targets, count : {0, 1}]

RequestFor(c, d) == {m \in Datagram : m.port = c /\ m.dest = VmIp[d]}
Matching(q, P) == {i \in 1..Len(q) : q[i] \in P}
QueuedFor(c, d) == Matching(odrq[ClientAt[c]], RequestFor(c, d))

IsFor(e, c, d) == e.port = c /\ e.dest = VmIp[d] /\ e.count # 0
WaitingFor(c, d) == {i \in 1..BufSize : IsFor(buffer[ClientAt[c]][i], c, d)}

RequestTypes ==
    /\ \A n \in Nodes : odrq[n] \in Seq(AskedAt(n))
    /\ buffer \in [Nodes -> [1..BufSize -> Entry]]
    /\ \A n \in Nodes : \A i \in 1..BufSize :
          buffer[n][i].count # 0 => AskedHere(n, buffer[n][i].port, buffer[n][i].dest)
    /\ got \in [Clients -> [Nodes -> Nat]] /\ asked \in [Clients -> [Nodes -> Nat]]

CountOK(c, d) ==
    got[c][d] + Cardinality(WaitingFor(c, d)) + Cardinality(QueuedFor(c, d)) <= asked[c][d]

(* The inductive invariant. *)
RequestInv == RequestTypes /\ \A c \in Clients, d \in Nodes : CountOK(c, d)

(* The members of a queue that satisfy P are counted one by one. *)
LEMMA MatchingFinite ==
    ASSUME NEW S, NEW q \in Seq(S), NEW P
    PROVE  IsFiniteSet(Matching(q, P)) /\ Cardinality(Matching(q, P)) \in Nat
<1>1. Len(q) \in Nat
  BY LenProperties, Zenon
<1>2. IsFiniteSet(1..Len(q))
  BY <1>1, FS_Interval
<1>3. Matching(q, P) \in SUBSET (1..Len(q))
  BY Zenon DEF Matching
<1>. QED  BY <1>2, <1>3, FS_Subset, FS_CardinalityType, Zenon

LEMMA MatchingAppend ==
    ASSUME NEW S, NEW q \in Seq(S), NEW m \in S, NEW P
    PROVE  Cardinality(Matching(Append(q, m), P)) =
               Cardinality(Matching(q, P)) + (IF m \in P THEN 1 ELSE 0)
<1>1. PICK k \in Nat : k = Len(q)
  BY LenProperties, Zenon
<1>2. /\ Append(q, m) \in Seq(S) /\ Len(Append(q, m)) = k + 1
      /\ \A i \in 1..k : Append(q, m)[i] = q[i]
      /\ Append(q, m)[k + 1] = m
  BY <1>1, AppendProperties
<1>. DEFINE r == Append(q, m)
<1>. HIDE DEF r
<1>3. Len(r) = k + 1 /\ (\A i \in 1..k : r[i] = q[i]) /\ r[k + 1] = m
  BY <1>2, Zenon DEF r
<1>4. CASE m \in P
  <2>1. Matching(r, P) = Matching(q, P) \union {k + 1} /\ k + 1 \notin Matching(q, P)
    BY <1>1, <1>3, <1>4 DEF Matching
  <2>2. Cardinality(Matching(q, P) \union {k + 1}) = Cardinality(Matching(q, P)) + 1
    BY <2>1, MatchingFinite, FS_AddElement, Zenon
  <2>. QED  BY <1>4, <2>1, <2>2, Zenon DEF r
<1>5. CASE m \notin P
  <2>1. Matching(r, P) = Matching(q, P)
    BY <1>1, <1>3, <1>5 DEF Matching
  <2>. QED  BY <1>5, <2>1, MatchingFinite DEF r
<1>. QED  BY <1>4, <1>5, Zenon

LEMMA MatchingTail ==
    ASSUME NEW S, NEW q \in Seq(S), q # <<>>, NEW P
    PROVE  Cardinality(Matching(Tail(q), P)) + (IF Head(q) \in P THEN 1 ELSE 0)
               <= Cardinality(Matching(q, P))
<1>1. PICK k \in Nat \ {0} : k = Len(q)
  BY EmptySeq, Zenon
<1>. DEFINE r == Tail(q)
<1>2. /\ r \in Seq(S) /\ Len(r) = k - 1 /\ Head(q) = q[1]
      /\ \A i \in 1..(k - 1) : r[i] = q[i + 1]
  BY <1>1, HeadTailProperties
<1>. HIDE DEF r
<1>. DEFINE A == Matching(r, P)
            B == Matching(q, P) \ {1}
            f == [i \in A |-> i + 1]
<1>3. f \in Injection(A, B)
  <2>1. \A i \in A : i \in Nat /\ i + 1 \in B
    BY <1>1, <1>2 DEF Matching
  <2>2. f \in [A -> B] /\ \A i, j \in A : f[i] = f[j] => i = j
    BY <2>1
  <2>. HIDE DEF f, A, B
  <2>. QED  BY <2>2, Zenon DEF Injection, IsInjective
<1>4. /\ IsFiniteSet(B)
      /\ Cardinality(B) = IF 1 \in Matching(q, P) THEN Cardinality(Matching(q, P)) - 1
                          ELSE Cardinality(Matching(q, P))
  BY MatchingFinite, FS_RemoveElement, Zenon
<1>5. Cardinality(A) <= Cardinality(B)
  <2>. HIDE DEF A, B, f
  <2>. QED  BY <1>3, <1>4, FS_Injection, Zenon
<1>6. 1 \in Matching(q, P) <=> Head(q) \in P
  BY <1>1, <1>2 DEF Matching
<1>7. Cardinality(A) \in Nat /\ Cardinality(Matching(q, P)) \in Nat
  BY <1>2, MatchingFinite, Zenon
<1>. HIDE DEF B
<1>8. Cardinality(A) + (IF Head(q) \in P THEN 1 ELSE 0) <= Cardinality(Matching(q, P))
  BY <1>4, <1>5, <1>6, <1>7
<1>. QED  BY <1>8, Zenon DEF r

LEMMA BufferFinite ==
    ASSUME NEW W, W \subseteq 1..BufSize
    PROVE  IsFiniteSet(W) /\ Cardinality(W) \in Nat
<1>1. IsFiniteSet(1..BufSize)
  BY OdrAssumption, FS_Interval
<1>. QED  BY <1>1, FS_Subset, FS_CardinalityType, Zenon

LEMMA FirstIn ==
    ASSUME NEW W, W \subseteq 1..BufSize, W # {}
    PROVE  First(W) \in W
<1>1. W \subseteq Nat
  BY OdrAssumption
<1>2. PICK x \in W : \A y \in W : ~(<<y, x>> \in OpToRel(<, Nat))
  BY <1>1, WFMin, NatLessThanWellFounded, Zenon
<1>3. \A y \in W : ~(y < x)
  BY <1>1, <1>2, Zenon DEF OpToRel
<1>4. \A y \in W : x <= y
  BY <1>1, <1>3
<1>. QED  BY <1>4, Zenon DEF First

(* An address belongs to one node. *)
LEMMA VmIpOf ==
    ASSUME NEW d \in Nodes
    PROVE  VmIp[d] \in Ips /\ VmIp[d] # NoIp /\ NodeOf(VmIp[d]) = d
           /\ \A x \in Nodes : VmIp[x] = VmIp[d] => x = d
<1>1. VmIp[d] \in MyIps(d) /\ VmIp[d] \in Ips /\ VmIp[d] # NoIp
  BY Addresses, OdrAssumption
<1>2. \A x \in Nodes : VmIp[d] \in MyIps(x) => x = d
  BY <1>1, OdrAssumption, Zenon
<1>3. NodeOf(VmIp[d]) = d
  BY <1>1, <1>2, Zenon DEF NodeOf
<1>4. \A x \in Nodes : VmIp[x] \in MyIps(x)
  BY OdrAssumption, Zenon
<1>. QED  BY <1>1, <1>2, <1>3, <1>4, Zenon

LEMMA CountTypes ==
    ASSUME RequestTypes, NEW c \in Clients, NEW d \in Nodes
    PROVE  /\ ClientAt[c] \in Nodes
           /\ got[c][d] \in Nat /\ asked[c][d] \in Nat
           /\ IsFiniteSet(WaitingFor(c, d)) /\ Cardinality(WaitingFor(c, d)) \in Nat
           /\ Cardinality(QueuedFor(c, d)) \in Nat
<1>1. ClientAt[c] \in Nodes
  BY OdrAssumption, Zenon
<1>2. odrq[ClientAt[c]] \in Seq(AskedAt(ClientAt[c]))
  BY <1>1, Zenon DEF RequestTypes
<1>3. WaitingFor(c, d) \subseteq 1..BufSize
  BY Zenon DEF WaitingFor
<1>. QED  BY <1>1, <1>2, <1>3, MatchingFinite, BufferFinite, Zenon DEF QueuedFor, RequestTypes

(* A step that touches no request. *)
LEMMA RequestsKept ==
    ASSUME RequestInv, UNCHANGED <<odrq, buffer, got, asked>>
    PROVE  RequestInv'
BY Zenon DEF RequestInv, RequestTypes, CountOK, WaitingFor, QueuedFor

(* A datagram put into the queue of a daemon. *)
LEMMA QueueAppended ==
    ASSUME OdrInv, RequestInv, NEW n \in Nodes, NEW m \in AskedAt(n),
           odrq' = [odrq EXCEPT ![n] = Append(@, m)], UNCHANGED <<buffer, got>>,
           asked' \in [Clients -> [Nodes -> Nat]],
           \A c \in Clients, d \in Nodes :
              asked[c][d] + (IF m \in RequestFor(c, d) THEN 1 ELSE 0) <= asked'[c][d]
    PROVE  RequestInv'
<1>1. odrq \in [Nodes -> Seq(Datagram)]
  BY Zenon DEF OdrInv, OdrTypes
<1>2. \A x \in Nodes : odrq'[x] = IF x = n THEN Append(odrq[n], m) ELSE odrq[x]
  BY <1>1, Zenon
<1>3. RequestTypes'
  <2>1. \A x \in Nodes : odrq[x] \in Seq(AskedAt(x))
    BY Zenon DEF RequestInv, RequestTypes
  <2>2. Append(odrq[n], m) \in Seq(AskedAt(n))
    BY <2>1, AppendProperties, Zenon
  <2>3. \A x \in Nodes : odrq'[x] \in Seq(AskedAt(x))
    BY <1>2, <2>1, <2>2, Zenon
  <2>. QED  BY <2>3, Zenon DEF RequestInv, RequestTypes
<1>4. ASSUME NEW c \in Clients, NEW d \in Nodes PROVE CountOK(c, d)'
  <2>. DEFINE h == ClientAt[c]
              P == RequestFor(c, d)
  <2>1. /\ h \in Nodes /\ got[c][d] \in Nat /\ asked[c][d] \in Nat
        /\ Cardinality(WaitingFor(c, d)) \in Nat /\ Cardinality(QueuedFor(c, d)) \in Nat
    BY CountTypes, Zenon DEF RequestInv
  <2>2. WaitingFor(c, d)' = WaitingFor(c, d) /\ asked'[c][d] \in Nat
    BY Zenon DEF WaitingFor
  <2>3. Cardinality(QueuedFor(c, d)') <=
            Cardinality(QueuedFor(c, d)) + (IF m \in P THEN 1 ELSE 0)
    <3>1. QueuedFor(c, d) = Matching(odrq[h], P) /\ QueuedFor(c, d)' = Matching(odrq'[h], P)
      BY Zenon DEF QueuedFor
    <3>2. CASE h = n
      <4>1. Cardinality(Matching(Append(odrq[n], m), P)) =
                Cardinality(Matching(odrq[n], P)) + (IF m \in P THEN 1 ELSE 0)
        <5>1. odrq[n] \in Seq(AskedAt(n))
          BY Zenon DEF RequestInv, RequestTypes
        <5>. QED  BY <5>1, MatchingAppend
      <4>. HIDE DEF P
      <4>. QED  BY <1>2, <2>1, <3>1, <3>2, <4>1
    <3>3. CASE h # n
      <4>1. odrq'[h] = odrq[h]
        BY <1>2, <2>1, <3>3, Zenon
      <4>2. QueuedFor(c, d)' = QueuedFor(c, d)
        BY <3>1, <4>1, Zenon
      <4>. HIDE DEF P
      <4>. QED  BY <2>1, <4>2
    <3>. QED  BY <3>2, <3>3, Zenon
  <2>4. asked[c][d] + (IF m \in P THEN 1 ELSE 0) <= asked'[c][d]
    BY Zenon
  <2>5. got[c][d] + Cardinality(WaitingFor(c, d)) + Cardinality(QueuedFor(c, d)) <= asked[c][d]
    BY Zenon DEF RequestInv, CountOK
  <2>6. Cardinality(QueuedFor(c, d)') \in Nat
    <3>1. odrq'[h] \in Seq(AskedAt(h))
      BY <1>3, <2>1, Zenon DEF RequestTypes
    <3>2. Cardinality(Matching(odrq'[h], P)) \in Nat
      BY <3>1, MatchingFinite, Zenon
    <3>. QED  BY <3>2, Zenon DEF QueuedFor
  <2>. HIDE DEF P
  <2>7. PICK g \in Nat, w \in Nat, q \in Nat, a \in Nat, r \in Nat, b \in Nat, k \in {0, 1} :
           /\ g = got[c][d] /\ w = Cardinality(WaitingFor(c, d)) /\ q = Cardinality(QueuedFor(c, d))
           /\ a = asked[c][d] /\ r = Cardinality(QueuedFor(c, d)') /\ b = asked'[c][d]
           /\ k = IF m \in P THEN 1 ELSE 0
    BY <2>1, <2>2, <2>6, Zenon
  <2>8. r <= q + k /\ a + k <= b /\ g + w + q <= a
    BY <2>3, <2>4, <2>5, <2>7, Zenon
  <2>9. g + w + r <= b
    BY <2>8
  <2>. QED  BY <2>2, <2>7, <2>9, Zenon DEF CountOK
<1>. QED  BY <1>3, <1>4, Zenon DEF RequestInv

(* A datagram taken from the queue of a daemon: it is dropped, or the buffer    *)
(* grows by an entry for it.                                                    *)
LEMMA QueueTaken ==
    ASSUME OdrInv, RequestInv, NEW n \in Nodes, odrq[n] # <<>>,
           odrq' = [odrq EXCEPT ![n] = Tail(@)], UNCHANGED <<got, asked>>,
           buffer' \in [Nodes -> [1..BufSize -> Entry]],
           \A x \in Nodes : \A i \in 1..BufSize :
              buffer'[x][i].count # 0 => AskedHere(x, buffer'[x][i].port, buffer'[x][i].dest),
           \A c \in Clients, d \in Nodes :
              Cardinality(WaitingFor(c, d)') <= Cardinality(WaitingFor(c, d))
                  + (IF ClientAt[c] = n /\ Head(odrq[n]) \in RequestFor(c, d) THEN 1 ELSE 0)
    PROVE  RequestInv'
<1>1. odrq \in [Nodes -> Seq(Datagram)] /\ odrq[n] \in Seq(AskedAt(n))
  BY Zenon DEF OdrInv, OdrTypes, RequestInv, RequestTypes
<1>2. \A x \in Nodes : odrq'[x] = IF x = n THEN Tail(odrq[n]) ELSE odrq[x]
  BY <1>1, Zenon
<1>3. RequestTypes'
  <2>1. Tail(odrq[n]) \in Seq(AskedAt(n))
    BY <1>1, HeadTailProperties, Zenon
  <2>2. \A x \in Nodes : odrq'[x] \in Seq(AskedAt(x))
    BY <1>2, <2>1, Zenon DEF RequestInv, RequestTypes
  <2>. QED  BY <2>2, Zenon DEF RequestInv, RequestTypes
<1>4. ASSUME NEW c \in Clients, NEW d \in Nodes PROVE CountOK(c, d)'
  <2>. DEFINE h == ClientAt[c]
              P == RequestFor(c, d)
              one == IF h = n /\ Head(odrq[n]) \in P THEN 1 ELSE 0
  <2>1. /\ h \in Nodes /\ got[c][d] \in Nat /\ asked[c][d] \in Nat
        /\ Cardinality(WaitingFor(c, d)) \in Nat /\ Cardinality(QueuedFor(c, d)) \in Nat
    BY CountTypes, Zenon DEF RequestInv
  <2>2. Cardinality(QueuedFor(c, d)') \in Nat
    <3>1. odrq'[h] \in Seq(AskedAt(h))
      BY <1>3, <2>1, Zenon DEF RequestTypes
    <3>2. Cardinality(Matching(odrq'[h], P)) \in Nat
      BY <3>1, MatchingFinite, Zenon
    <3>. QED  BY <3>2, Zenon DEF QueuedFor
  <2>3. Cardinality(WaitingFor(c, d)') \in Nat
    <3>1. WaitingFor(c, d)' \subseteq 1..BufSize
      BY Zenon DEF WaitingFor
    <3>. QED  BY <3>1, BufferFinite, Zenon
  <2>4. one \in {0, 1}
    BY Zenon
  <2>5. Cardinality(QueuedFor(c, d)') + one <= Cardinality(QueuedFor(c, d))
    <3>1. QueuedFor(c, d) = Matching(odrq[h], P) /\ QueuedFor(c, d)' = Matching(odrq'[h], P)
      BY Zenon DEF QueuedFor
    <3>2. CASE h = n
      <4>1. Cardinality(Matching(Tail(odrq[n]), P)) + (IF Head(odrq[n]) \in P THEN 1 ELSE 0)
                <= Cardinality(Matching(odrq[n], P))
        BY <1>1, MatchingTail, Zenon
      <4>. HIDE DEF P
      <4>. QED  BY <1>2, <2>1, <3>1, <3>2, <4>1, Zenon
    <3>3. CASE h # n
      <4>1. odrq'[h] = odrq[h]
        BY <1>2, <2>1, <3>3, Zenon
      <4>2. one = 0
        BY <3>3, Zenon
      <4>3. PICK q \in Nat : q = Cardinality(QueuedFor(c, d))
        BY <2>1, Zenon
      <4>4. Cardinality(QueuedFor(c, d)') = q
        BY <3>1, <4>1, <4>3, Zenon
      <4>. HIDE DEF one
      <4>5. q + one <= q
        BY <4>2
      <4>. QED  BY <4>3, <4>4, <4>5, Zenon
    <3>. QED  BY <3>2, <3>3, Zenon
  <2>6. Cardinality(WaitingFor(c, d)') <= Cardinality(WaitingFor(c, d)) + one
    BY Zenon
  <2>7. got[c][d] + Cardinality(WaitingFor(c, d)) + Cardinality(QueuedFor(c, d)) <= asked[c][d]
    BY Zenon DEF RequestInv, CountOK
  <2>8. got'[c][d] = got[c][d] /\ asked'[c][d] = asked[c][d]
    BY Zenon
  <2>. HIDE DEF one
  <2>9. got'[c][d] + Cardinality(WaitingFor(c, d)') + Cardinality(QueuedFor(c, d)') <= asked'[c][d]
    <3>1. PICK w \in Nat : w = Cardinality(WaitingFor(c, d))
      BY <2>1, Zenon
    <3>2. PICK q \in Nat : q = Cardinality(QueuedFor(c, d))
      BY <2>1, Zenon
    <3>3. PICK v \in Nat : v = Cardinality(WaitingFor(c, d)')
      BY <2>3, Zenon
    <3>4. PICK p \in Nat : p = Cardinality(QueuedFor(c, d)')
      BY <2>2, Zenon
    <3>5. PICK g \in Nat : g = got[c][d]
      BY <2>1, Zenon
    <3>6. PICK a \in Nat : a = asked[c][d]
      BY <2>1, Zenon
    <3>7. p + one <= q /\ v <= w + one /\ g + w + q <= a
      BY <2>5, <2>6, <2>7, <3>1, <3>2, <3>3, <3>4, <3>5, <3>6, Zenon
    <3>8. g + v + p <= a
      BY <2>4, <3>7
    <3>. QED  BY <2>8, <3>3, <3>4, <3>5, <3>6, <3>8, Zenon
  <2>. QED  BY <2>9, Zenon DEF CountOK
<1>. QED  BY <1>3, <1>4, Zenon DEF RequestInv

(* push_data_to_buf (common.c) fills one entry that nobody waits in. *)
LEMMA ClientRequestRequests ==
    ASSUME OdrInv, RequestInv, NEW n \in Nodes, ClientRequest(n)
    PROVE  RequestInv'
<1>. DEFINE m == Head(odrq[n])
            i == First(FreeEntries(n))
            e == [port |-> m.port, dest |-> m.dest, count |-> 1]
<1>1. /\ odrq[n] # <<>> /\ odrq' = [odrq EXCEPT ![n] = Tail(@)] /\ UNCHANGED <<got, asked>>
      /\ push_data_to_buf(n, m)
  BY Zenon DEF ClientRequest
<1>2. /\ buffer \in [Nodes -> [1..BufSize -> Entry]] /\ odrq[n] \in Seq(AskedAt(n))
      /\ \A x \in Nodes : \A j \in 1..BufSize :
           buffer[x][j].count # 0 => AskedHere(x, buffer[x][j].port, buffer[x][j].dest)
  BY Zenon DEF RequestInv, RequestTypes
<1>3. m \in AskedAt(n)
  BY <1>1, <1>2, HeadTailProperties, Zenon
<1>4. m \in Datagram /\ AskedHere(n, m.port, m.dest)
  BY <1>3, Zenon DEF AskedAt
<1>5. e \in Entry
  BY <1>4, Zenon DEF Entry, Datagram
<1>6. CASE FreeEntries(n) = {}
  <2>1. buffer' = buffer
    BY <1>1, <1>6, Zenon DEF push_data_to_buf
  <2>2. \A c \in Clients, d \in Nodes :
           WaitingFor(c, d)' = WaitingFor(c, d) /\ Cardinality(WaitingFor(c, d)) \in Nat
    BY <2>1, CountTypes, Zenon DEF WaitingFor, RequestInv
  <2>. HIDE DEF m
  <2>3. \A c \in Clients, d \in Nodes :
           Cardinality(WaitingFor(c, d)') <= Cardinality(WaitingFor(c, d))
               + (IF ClientAt[c] = n /\ Head(odrq[n]) \in RequestFor(c, d) THEN 1 ELSE 0)
    BY <2>2
  <2>. QED  BY <1>1, <1>2, <2>1, <2>3, QueueTaken, Zenon
<1>7. CASE FreeEntries(n) # {}
  <2>1. i \in FreeEntries(n)
    <3>1. FreeEntries(n) \subseteq 1..BufSize
      BY Zenon DEF FreeEntries
    <3>. QED  BY <1>7, <3>1, FirstIn, Zenon
  <2>2. i \in 1..BufSize /\ buffer[n][i].count = 0
    BY <2>1, Zenon DEF FreeEntries
  <2>3. buffer' = [buffer EXCEPT ![n][i] = e]
    BY <1>1, <1>7, Zenon DEF push_data_to_buf
  <2>. HIDE DEF i, e
  <2>4. buffer' \in [Nodes -> [1..BufSize -> Entry]]
    BY <1>2, <1>5, <2>2, <2>3, Zenon
  <2>5. \A x \in Nodes : \A j \in 1..BufSize :
           buffer'[x][j] = IF x = n /\ j = i THEN e ELSE buffer[x][j]
    BY <1>2, <2>2, <2>3, Zenon
  <2>6. \A x \in Nodes : \A j \in 1..BufSize :
           buffer'[x][j].count # 0 => AskedHere(x, buffer'[x][j].port, buffer'[x][j].dest)
    <3>1. AskedHere(n, e.port, e.dest)
      BY <1>4, Zenon DEF e
    <3>. HIDE DEF m
    <3>. QED  BY <1>2, <2>5, <3>1, Zenon
  <2>7. ASSUME NEW c \in Clients, NEW d \in Nodes
        PROVE  Cardinality(WaitingFor(c, d)') <= Cardinality(WaitingFor(c, d))
                  + (IF ClientAt[c] = n /\ Head(odrq[n]) \in RequestFor(c, d) THEN 1 ELSE 0)
    <3>1. /\ ClientAt[c] \in Nodes /\ IsFiniteSet(WaitingFor(c, d))
          /\ Cardinality(WaitingFor(c, d)) \in Nat
      BY CountTypes, Zenon DEF RequestInv
    <3>2. IsFor(e, c, d) <=> m \in RequestFor(c, d)
      BY <1>4 DEF IsFor, RequestFor, e
    <3>. HIDE DEF m
    <3>3. CASE ClientAt[c] = n /\ IsFor(e, c, d)
      <4>1. i \notin WaitingFor(c, d)
        BY <2>2, <3>3, Zenon DEF WaitingFor, IsFor
      <4>2. WaitingFor(c, d)' = WaitingFor(c, d) \union {i}
        BY <2>2, <2>5, <3>1, <3>3 DEF WaitingFor
      <4>3. Cardinality(WaitingFor(c, d)') = Cardinality(WaitingFor(c, d)) + 1
        BY <3>1, <4>1, <4>2, FS_AddElement, Zenon
      <4>. QED  BY <3>1, <3>2, <3>3, <4>3 DEF m
    <3>4. CASE ~(ClientAt[c] = n /\ IsFor(e, c, d))
      <4>1. WaitingFor(c, d)' = WaitingFor(c, d)
        <5>1. \A j \in 1..BufSize : IsFor(buffer'[ClientAt[c]][j], c, d) <=>
                                    IsFor(buffer[ClientAt[c]][j], c, d)
          <6>1. ~IsFor(buffer[n][i], c, d)
            BY <2>2, Zenon DEF IsFor
          <6>. QED  BY <2>2, <2>5, <3>1, <3>4, <6>1, Zenon
        <5>. QED  BY <5>1, Zenon DEF WaitingFor
      <4>. QED  BY <3>1, <4>1
    <3>. QED  BY <3>3, <3>4, Zenon
  <2>. QED  BY <1>1, <2>4, <2>6, <2>7, QueueTaken, Zenon
<1>. QED  BY <1>6, <1>7, Zenon

(* A datagram taken for the server's answer is lost to whoever sent it. *)
LEMMA ServerAnswerRequests ==
    ASSUME OdrInv, RequestInv, NEW n \in Nodes, ServerAnswer(n)
    PROVE  RequestInv'
<1>1. /\ odrq[n] # <<>> /\ odrq' = [odrq EXCEPT ![n] = Tail(@)]
      /\ UNCHANGED <<buffer, got, asked>>
  BY Zenon DEF ServerAnswer
<1>2. /\ buffer' \in [Nodes -> [1..BufSize -> Entry]]
      /\ \A x \in Nodes : \A j \in 1..BufSize :
           buffer'[x][j].count # 0 => AskedHere(x, buffer'[x][j].port, buffer'[x][j].dest)
  BY <1>1, Zenon DEF RequestInv, RequestTypes
<1>3. ASSUME NEW c \in Clients, NEW d \in Nodes
      PROVE  Cardinality(WaitingFor(c, d)') <= Cardinality(WaitingFor(c, d))
                 + (IF ClientAt[c] = n /\ Head(odrq[n]) \in RequestFor(c, d) THEN 1 ELSE 0)
  <2>1. WaitingFor(c, d)' = WaitingFor(c, d) /\ Cardinality(WaitingFor(c, d)) \in Nat
    BY <1>1, CountTypes, Zenon DEF WaitingFor, RequestInv
  <2>. QED  BY <2>1
<1>. QED  BY <1>1, <1>2, <1>3, QueueTaken, Zenon

(* An answer uses up the entry that waited for it. *)
LEMMA AnswerClientRequests ==
    ASSUME OdrInv, RequestInv, NEW n \in Nodes, NEW h \in Frame, Waits(n, h) # {},
           AnswerClient(n, h), UNCHANGED <<odrq, asked>>
    PROVE  RequestInv'
<1>. DEFINE i == First(Waits(n, h))
            e == buffer[n][i]
<1>1. i \in Waits(n, h)
  <2>1. Waits(n, h) \subseteq 1..BufSize
    BY Zenon DEF Waits
  <2>. QED  BY <2>1, FirstIn, Zenon
<1>2. /\ got' = [got EXCEPT ![e.port][NodeOf(e.dest)] = @ + 1]
      /\ buffer' = [buffer EXCEPT ![n][i].count = 0]
  BY Zenon DEF AnswerClient
<1>. HIDE DEF i
<1>3. /\ buffer \in [Nodes -> [1..BufSize -> Entry]]
      /\ got \in [Clients -> [Nodes -> Nat]]
      /\ \A x \in Nodes : \A j \in 1..BufSize :
           buffer[x][j].count # 0 => AskedHere(x, buffer[x][j].port, buffer[x][j].dest)
  BY Zenon DEF RequestInv, RequestTypes
<1>4. i \in 1..BufSize /\ e.dest = h.src /\ e.count # 0
  BY <1>1, Zenon DEF Waits
<1>5. e.dest # NoIp
  <2>1. h.src \in Ips
    BY FrameFields, Zenon
  <2>2. NoIp \notin Ips
    BY OdrAssumption, Zenon
  <2>. QED  BY <1>4, <2>1, <2>2, Zenon
<1>6. e.port \in Clients /\ ClientAt[e.port] = n /\ \E d \in Nodes : e.dest = VmIp[d]
  BY <1>3, <1>4, <1>5, Zenon DEF AskedHere
<1>7. PICK d0 \in Nodes : e.dest = VmIp[d0]
  BY <1>6, Zenon
<1>8. NodeOf(e.dest) = d0 /\ \A d \in Nodes : VmIp[d] = e.dest => d = d0
  BY <1>7, VmIpOf, Zenon
<1>9. PICK c0 \in Clients : c0 = e.port
  BY <1>6, Zenon
<1>10. /\ e \in Entry /\ e.port = c0 /\ ClientAt[c0] = n
       /\ got' = [got EXCEPT ![c0][d0] = @ + 1]
  <2>1. e \in Entry
    BY <1>3, <1>4, Zenon
  <2>. HIDE DEF e
  <2>. QED  BY <1>2, <1>6, <1>8, <1>9, <2>1, Zenon
<1>11. \A x \in Nodes : \A j \in 1..BufSize :
          buffer'[x][j] = IF x = n /\ j = i THEN [e EXCEPT !.count = 0] ELSE buffer[x][j]
  BY <1>2, <1>3, <1>4, Zenon
<1>12. [e EXCEPT !.count = 0] \in Entry /\ [e EXCEPT !.count = 0].count = 0
  BY <1>10, Zenon DEF Entry
<1>13. buffer' \in [Nodes -> [1..BufSize -> Entry]]
  BY <1>2, <1>3, <1>4, <1>12, Zenon
<1>14. \A c \in Clients, d \in Nodes : got'[c][d] = got[c][d] + (IF c = c0 /\ d = d0 THEN 1 ELSE 0)
  BY <1>3, <1>10
<1>15. got' \in [Clients -> [Nodes -> Nat]]
  BY <1>3, <1>10
<1>16. IsFor(e, c0, d0) /\ \A c \in Clients, d \in Nodes : IsFor(e, c, d) => c = c0 /\ d = d0
  BY <1>4, <1>7, <1>8, <1>10, Zenon DEF IsFor
<1>17. \A c \in Clients, d \in Nodes : ~IsFor([e EXCEPT !.count = 0], c, d)
  BY <1>12, Zenon DEF IsFor
<1>18. RequestTypes'
  <2>1. \A x \in Nodes : \A j \in 1..BufSize :
           buffer'[x][j].count # 0 => AskedHere(x, buffer'[x][j].port, buffer'[x][j].dest)
    BY <1>3, <1>11, <1>12, Zenon
  <2>. QED  BY <1>13, <1>15, <2>1, Zenon DEF RequestInv, RequestTypes
<1>19. ASSUME NEW c \in Clients, NEW d \in Nodes PROVE CountOK(c, d)'
  <2>. DEFINE w == Cardinality(WaitingFor(c, d))
  <2>1. /\ ClientAt[c] \in Nodes /\ got[c][d] \in Nat /\ asked[c][d] \in Nat
        /\ IsFiniteSet(WaitingFor(c, d)) /\ w \in Nat /\ Cardinality(QueuedFor(c, d)) \in Nat
    BY CountTypes, Zenon DEF RequestInv
  <2>2. QueuedFor(c, d)' = QueuedFor(c, d) /\ asked' = asked
    BY Zenon DEF QueuedFor
  <2>3. got[c][d] + w + Cardinality(QueuedFor(c, d)) <= asked[c][d]
    BY Zenon DEF RequestInv, CountOK
  <2>4. CASE c = c0 /\ d = d0
    <3>1. i \in WaitingFor(c, d)
      BY <1>4, <1>10, <1>16, <2>4, Zenon DEF WaitingFor
    <3>2. WaitingFor(c, d)' = WaitingFor(c, d) \ {i}
      BY <1>4, <1>10, <1>11, <1>17, <2>1, <2>4 DEF WaitingFor
    <3>3. Cardinality(WaitingFor(c, d)') = w - 1
      BY <2>1, <3>1, <3>2, FS_RemoveElement, Zenon
    <3>4. got'[c][d] = got[c][d] + 1
      BY <1>14, <2>4, Zenon
    <3>. HIDE DEF w
    <3>. QED  BY <2>1, <2>2, <2>3, <3>3, <3>4 DEF CountOK
  <2>5. CASE ~(c = c0 /\ d = d0)
    <3>1. \A j \in 1..BufSize : IsFor(buffer'[ClientAt[c]][j], c, d) <=>
                                IsFor(buffer[ClientAt[c]][j], c, d)
      BY <1>11, <1>16, <1>17, <2>1, <2>5
    <3>2. WaitingFor(c, d)' = WaitingFor(c, d)
      BY <3>1, Zenon DEF WaitingFor
    <3>3. got'[c][d] = got[c][d]
      <4>1. got'[c][d] = got[c][d] + 0
        BY <1>14, <2>5, Zenon
      <4>2. PICK g \in Nat : g = got[c][d]
        BY <2>1, Zenon
      <4>3. g + 0 = g
        OBVIOUS
      <4>. QED  BY <4>1, <4>2, <4>3, Zenon
    <3>. QED  BY <2>2, <2>3, <3>2, <3>3, Zenon DEF CountOK
  <2>. QED  BY <2>4, <2>5, Zenon
<1>. QED  BY <1>18, <1>19, Zenon DEF RequestInv

(* Of the frames only an answer to this node touches a request. *)
LEMMA ProcessFrameRequests ==
    ASSUME OdrInv, RequestInv, NEW n \in Nodes, process_frame(n)
    PROVE  RequestInv'
<1>. DEFINE h == Head(inbox[n])
<1>1. h \in Frame /\ UNCHANGED <<odrq, asked>>
  BY Taken, Zenon DEF process_frame, OdrInv, GoodFrames
<1>2. CASE ProcessRoute(n, h) \/ ProcessPayloadReq(n, h)
  BY <1>1, <1>2, RequestsKept, Zenon DEF ProcessRoute, ProcessPayloadReq
<1>3. CASE ProcessPayloadResp(n, h)
  <2>1. CASE h.dest \in MyIps(n) /\ Waits(n, h) # {}
    <3>1. AnswerClient(n, h) /\ Waits(n, h) # {}
      BY <1>3, <2>1, Zenon DEF ProcessPayloadResp
    <3>. HIDE DEF h
    <3>. QED  BY <1>1, <3>1, AnswerClientRequests, Zenon
  <2>2. CASE ~(h.dest \in MyIps(n) /\ Waits(n, h) # {})
    <3>1. UNCHANGED <<got, buffer>>
      BY <1>3, <2>2, Zenon DEF ProcessPayloadResp
    <3>. QED  BY <1>1, <3>1, RequestsKept, Zenon
  <2>. QED  BY <2>1, <2>2, Zenon
<1>. QED  BY <1>2, <1>3, Zenon DEF process_frame

LEMMA RespondRequests ==
    ASSUME OdrInv, RequestInv, NEW n \in Nodes, respond(n)
    PROVE  RequestInv'
<1>. DEFINE m == [port |-> NoPort, dest |-> NoIp, msg |-> n, flag |-> 0]
<1>1. m \in AskedAt(n)
  BY Zenon DEF AskedAt, AskedHere, Datagram, Targets, Messages
<1>2. odrq' = [odrq EXCEPT ![n] = Append(@, m)] /\ UNCHANGED <<buffer, got, asked>>
  BY Zenon DEF respond, odrVars, histVars
<1>3. \A c \in Clients, d \in Nodes : m \notin RequestFor(c, d)
  BY OdrAssumption, Zenon DEF RequestFor
<1>4. asked \in [Clients -> [Nodes -> Nat]]
  BY Zenon DEF RequestInv, RequestTypes
<1>. HIDE DEF m
<1>5. \A c \in Clients, d \in Nodes :
         asked[c][d] + (IF m \in RequestFor(c, d) THEN 1 ELSE 0) <= asked'[c][d]
  BY <1>2, <1>3, <1>4
<1>. QED  BY <1>1, <1>2, <1>4, <1>5, QueueAppended, Zenon

LEMMA MsgSendRequests ==
    ASSUME OdrInv, RequestInv, NEW c \in Clients, NEW d \in Nodes, NEW flag \in {0, 1},
           msg_send(c, d, flag), UNCHANGED <<buffer, got>>
    PROVE  RequestInv'
<1>. DEFINE m == [port |-> c, dest |-> VmIp[d], msg |-> GetMeTime, flag |-> flag]
            n == ClientAt[c]
<1>1. n \in Nodes /\ VmIp[d] \in Targets
  BY VmIpOf, OdrAssumption, Zenon DEF Targets
<1>2. m \in AskedAt(n)
  BY <1>1, Zenon DEF AskedAt, AskedHere, Datagram, Messages
<1>3. odrq' = [odrq EXCEPT ![n] = Append(@, m)] /\ asked' = [asked EXCEPT ![c][d] = @ + 1]
  BY Zenon DEF msg_send
<1>4. \A x \in Clients, y \in Nodes : m \in RequestFor(x, y) => x = c /\ y = d
  BY VmIpOf, Zenon DEF RequestFor
<1>5. asked \in [Clients -> [Nodes -> Nat]]
  BY Zenon DEF RequestInv, RequestTypes
<1>. HIDE DEF m, n
<1>6. asked' \in [Clients -> [Nodes -> Nat]]
  BY <1>3, <1>5
<1>7. \A x \in Clients, y \in Nodes :
         asked'[x][y] = asked[x][y] + (IF x = c /\ y = d THEN 1 ELSE 0)
  BY <1>3, <1>5
<1>8. \A x \in Clients, y \in Nodes :
         asked[x][y] + (IF m \in RequestFor(x, y) THEN 1 ELSE 0) <= asked'[x][y]
  BY <1>4, <1>5, <1>7
<1>. QED  BY <1>1, <1>2, <1>3, <1>6, <1>8, QueueAppended, Zenon

LEMMA NextRequests == OdrInv /\ RequestInv /\ [Next]_vars => RequestInv'
<1>. SUFFICES ASSUME OdrInv, RequestInv, [Next]_vars PROVE RequestInv'
  BY Zenon
<1>1. ASSUME NEW n \in Nodes, Daemon(n) \/ respond(n) PROVE RequestInv'
  BY <1>1, ProcessFrameRequests, ServerAnswerRequests, ClientRequestRequests, RespondRequests,
     Zenon
     DEF Daemon
<1>2. ASSUME NEW n \in Nodes, Stale(n) \/ LoseFrame(n) PROVE RequestInv'
  BY <1>2, RequestsKept, Zenon DEF Stale, LoseFrame, netVars, odrVars
<1>3. ASSUME NEW c \in Clients, Receive(c) PROVE RequestInv'
  BY <1>3, RequestsKept, Zenon DEF Receive, odrVars, histVars
<1>4. ASSUME NEW c \in Clients, Timeout(c) PROVE RequestInv'
  <2>1. client[c] \in Nodes
    BY <1>4, Zenon DEF Timeout, OdrInv, OdrTypes, Menu
  <2>. QED  BY <1>4, <2>1, MsgSendRequests, Zenon DEF Timeout, odrVars
<1>5. ASSUME NEW c \in Clients, NEW d \in Nodes, Ask(c, d) PROVE RequestInv'
  BY <1>5, MsgSendRequests, Zenon DEF Ask, odrVars
<1>6. CASE UNCHANGED vars
  BY <1>6, RequestsKept, Zenon DEF vars, odrVars, netVars, histVars
<1>. QED  BY <1>1, <1>2, <1>3, <1>4, <1>5, <1>6, Zenon DEF Next

LEMMA InitRequests == Init => RequestInv
<1>. SUFFICES ASSUME Init PROVE RequestInv
  BY Zenon
<1>1. FreeEntry \in Entry /\ FreeEntry.count = 0
  BY Zenon DEF FreeEntry, Entry, Targets
<1>2. \A n \in Nodes : odrq[n] = <<>> /\ buffer[n] = [i \in 1..BufSize |-> FreeEntry]
  BY Zenon DEF Init
<1>3. \A c \in Clients, d \in Nodes : got[c][d] = 0 /\ asked[c][d] = 0
  BY Zenon DEF Init
<1>4. RequestTypes
  BY <1>1, <1>2 DEF Init, RequestTypes
<1>5. ASSUME NEW c \in Clients, NEW d \in Nodes PROVE CountOK(c, d)
  <2>1. ClientAt[c] \in Nodes
    BY OdrAssumption, Zenon
  <2>2. WaitingFor(c, d) = {}
    BY <1>1, <1>2, <2>1, Zenon DEF WaitingFor, IsFor
  <2>3. QueuedFor(c, d) = {}
    <3>1. odrq[ClientAt[c]] = <<>>
      BY <1>2, <2>1, Zenon
    <3>2. Matching(<<>>, RequestFor(c, d)) = {}
      BY DEF Matching
    <3>. QED  BY <3>1, <3>2, Zenon DEF QueuedFor
  <2>4. Cardinality(WaitingFor(c, d)) = 0 /\ Cardinality(QueuedFor(c, d)) = 0
    BY <2>2, <2>3, FS_EmptySet, Zenon
  <2>5. got[c][d] = 0 /\ asked[c][d] = 0
    BY <1>3, Zenon
  <2>. QED  BY <2>4, <2>5 DEF CountOK
<1>. QED  BY <1>4, <1>5, Zenon DEF RequestInv

(* The inductive invariant of requests and answers. *)
THEOREM RequestInvariant == Spec => []RequestInv
<1>. QED  BY OdrInvariant, InitRequests, NextRequests, PTL DEF Spec

(* On every network, for any number of clients and requests and whatever is    *)
(* lost, no client gets more answers from a node than it asked for: the buffer *)
(* of the daemon absorbs the payloads that every route reply and every         *)
(* interface multiplies.                                                       *)
THEOREM NoMoreAnswersThanAsked == Spec => []AnswersAsked
<1>1. RequestInv => AnswersAsked
  <2>. SUFFICES ASSUME RequestInv, NEW c \in Clients, NEW d \in Nodes
                PROVE  got[c][d] <= asked[c][d]
    BY Zenon DEF AnswersAsked
  <2>1. /\ got[c][d] \in Nat /\ asked[c][d] \in Nat
        /\ Cardinality(WaitingFor(c, d)) \in Nat /\ Cardinality(QueuedFor(c, d)) \in Nat
    BY CountTypes, Zenon DEF RequestInv
  <2>2. CountOK(c, d)
    BY Zenon DEF RequestInv
  <2>. QED  BY <2>1, <2>2 DEF CountOK
<1>. QED  BY <1>1, RequestInvariant, PTL
=============================================================================
