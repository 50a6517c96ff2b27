----------------------------- MODULE TourProofs -----------------------------
(***************************************************************************)
(* Proofs about Tour.tla, for every group of nodes, every route (the same   *)
(* node may come up again and again, even twice in a row) and any number of *)
(* lost packets.                                                            *)
(***************************************************************************)
EXTENDS Tour, TLAPS

Packet == [index : 1..(total_size - 1), from : Nodes]

(* What may be on the way to a node: at most one route packet. *)
Loads == {<<>>} \union {<<p>> : p \in Packet}

(* The node has the route: its main thread is between two calls of select. *)
Holder(n) == main[n] \in {"start", "received", "sleep"}
Busy(n) == rtq[n] # <<>> \/ Holder(n)

(* The first j hops of the route were made, and no more than j addresses were *)
(* entered into any list.                                                     *)
Covered(j) == \A i \in 1..j : Route[i] \in Listed(Route[i + 1]) \union {Route[i + 1]}
Upto(j) == Covered(j) /\ \A m \in Nodes : next_ip[m] <= j

(* The slots that add_ip_to_ping has filled. *)
Written(n) == IF adding[n] = Nobody THEN next_ip[n] ELSE next_ip[n] - 1

MainTypes ==
    /\ main \in [Nodes -> {"start", "select", "received", "sleep", "done", "crashed"}]
    /\ index \in [Nodes -> 0..total_size]
    /\ adding \in [Nodes -> Nodes \union {Nobody}]
    /\ ips \in [Nodes -> [Slots -> Nodes \union {Unwritten}]]
    /\ next_ip \in [Nodes -> 0..(total_size - 1)]
    /\ rtq \in [Nodes -> Loads]

PingTypes ==
    /\ keep_pinging \in [Nodes -> BOOLEAN]
    /\ ping \in [Nodes -> {"top", "areq", "send", "done", "crashed"}]
    /\ pass \in [Nodes -> 0..total_size] /\ k \in [Nodes -> 0..total_size]
    /\ next_ping \in [Nodes -> 0..total_size]

NetTypes == mcq \in [Nodes -> BOOLEAN] /\ ended \in BOOLEAN

(* One packet or one node that has the route, and none after the end. *)
OneInv ==
    /\ \A m, n \in Nodes : Busy(m) /\ Busy(n) => m = n
    /\ \A n \in Nodes : ~(rtq[n] # <<>> /\ Holder(n))
    /\ ended => \A n \in Nodes : ~Busy(n)

(* The place of the route's holder, and that the lists are up to it. *)
PacketPlaced(n) ==
    rtq[n] # <<>> => /\ Route[rtq[n][1].index + 1] = n
                     /\ Route[rtq[n][1].index] = rtq[n][1].from
                     /\ Upto(rtq[n][1].index - 1)
HolderPlaced(n) ==
    /\ main[n] = "start" => n = Source /\ Upto(0)
    /\ main[n] = "received" => /\ index[n] \in 2..total_size /\ Route[index[n]] = n
                               /\ Upto(index[n] - 1)
    /\ main[n] = "sleep" => Upto(total_size - 1)
PlaceInv ==
    /\ \A n \in Nodes : PacketPlaced(n) /\ HolderPlaced(n)
    /\ ended => Upto(total_size - 1)

(* The list of a node: filled slots, perhaps one that is being filled, and     *)
(* slots never written.                                                        *)
ListInv(n) ==
    /\ adding[n] # Nobody => /\ main[n] \in {"received", "crashed"} /\ next_ip[n] >= 1
                             /\ adding[n] \in Predecessors(n)
    /\ \A s \in 0..(Written(n) - 1) : ips[n][s] \in Predecessors(n) /\ ips[n][s] # adding[n]
    /\ \A s, r \in 0..(Written(n) - 1) : ips[n][s] = ips[n][r] => s = r
    /\ \A s \in Slots : s >= Written(n) => ips[n][s] = Unwritten

(* The slots announced stay ahead of the slot that is pinged. *)
PingInv(n) ==
    /\ next_ping[n] <= next_ip[n]
    /\ ping[n] = "areq" => k[n] < pass[n] /\ pass[n] <= next_ip[n] /\ k[n] <= next_ping[n]
    /\ ping[n] = "send" => k[n] < pass[n] /\ pass[n] <= next_ip[n] /\ k[n] < next_ping[n]

Lists == \A n \in Nodes : ListInv(n)
Pings == \A n \in Nodes : PingInv(n)
TourInv == MainTypes /\ PingTypes /\ NetTypes /\ OneInv /\ PlaceInv /\ Lists /\ Pings

---------------------------------------------------------------------------
(* The route. *)

LEMMA RouteFacts ==
    /\ total_size \in Nat /\ total_size > 1
    /\ \A i \in 1..total_size : Route[i] \in Nodes
    /\ Source \in Nodes /\ Nobody \notin Nodes /\ Nobody = Unwritten
BY TourAssumption DEF total_size, Source, Nobody

LEMMA PredecessorsAreNodes ==
    ASSUME NEW n \in Nodes
    PROVE  Predecessors(n) \subseteq Nodes
<1>1. \A i \in 1..(total_size - 1) : Route[i] \in Nodes
  BY RouteFacts
<1>. QED  BY <1>1 DEF Predecessors

LEMMA PredecessorAt ==
    ASSUME NEW i \in 1..(total_size - 1)
    PROVE  Route[i] \in Predecessors(Route[i + 1])
BY DEF Predecessors

LEMMA OnePacket ==
    ASSUME NEW q \in Loads, q # <<>>
    PROVE  q[1] \in Packet /\ Head(q) = q[1] /\ Tail(q) = <<>>
<1>1. PICK p \in Packet : q = <<p>>
  BY DEF Loads
<1>2. Tail(<<p>>) = <<>> /\ Head(<<p>>) = p /\ <<p>>[1] = p
  OBVIOUS
<1>. QED  BY <1>1, <1>2

LEMMA PacketFields ==
    ASSUME NEW p \in Packet
    PROVE  p.index \in 1..(total_size - 1) /\ p.from \in Nodes
BY DEF Packet

LEMMA EmptyLoad == <<>> \in Loads
BY DEF Loads

(* What send_rt puts on the way when nothing is. *)
LEMMA RouteSent ==
    ASSUME NEW n \in Nodes, NEW i \in 1..(total_size - 1), rtq \in [Nodes -> Loads],
           \A m \in Nodes : rtq[m] = <<>>, NEW q, q = send_rt(n, i, rtq),
           NEW d, d = Route[i + 1]
    PROVE  /\ q \in [Nodes -> Loads] /\ d \in Nodes
           /\ \A m \in Nodes : q[m] # <<>> => m = d
           /\ q[d] # <<>> /\ q[d][1].index = i /\ q[d][1].from = n
<1>. DEFINE p == [index |-> i, from |-> n]
<1>1. d \in Nodes
  BY RouteFacts
<1>2. p \in Packet /\ p.index = i /\ p.from = n
  BY DEF Packet
<1>3. q = [rtq EXCEPT ![d] = Append(@, p)]
  BY DEF send_rt
<1>. HIDE DEF p
<1>4. Append(<<>>, p) = <<p>> /\ <<p>> \in Loads /\ <<p>>[1] = p /\ <<p>> # <<>>
  BY <1>2 DEF Loads
<1>5. q = [rtq EXCEPT ![d] = <<p>>]
  BY <1>1, <1>3, <1>4, Zenon
<1>6. q \in [Nodes -> Loads] /\ q[d] = <<p>> /\ \A m \in Nodes : q[m] # <<>> => m = d
  BY <1>1, <1>4, <1>5
<1>. QED  BY <1>1, <1>2, <1>4, <1>6

---------------------------------------------------------------------------
(* What was covered stays covered. *)

LEMMA UptoKept ==
    ASSUME NEW j \in 0..(total_size - 1), Upto(j),
           \A n \in Nodes, x \in Nodes : x \in Listed(n) => x \in Listed(n)',
           \A m \in Nodes : next_ip'[m] <= j
    PROVE  Upto(j)'
<1>1. ASSUME NEW i \in 1..j
      PROVE  Route[i] \in Listed(Route[i + 1])' \union {Route[i + 1]}
  <2>1. Route[i] \in Nodes /\ Route[i + 1] \in Nodes
    BY RouteFacts
  <2>2. Route[i] \in Listed(Route[i + 1]) \union {Route[i + 1]}
    BY DEF Upto, Covered
  <2>. QED  BY <2>1, <2>2
<1>. QED  BY <1>1 DEF Upto, Covered

LEMMA SameLists ==
    ASSUME UNCHANGED <<ips, next_ip, adding>>, NEW j, Upto(j)
    PROVE  Upto(j)'
BY DEF Upto, Covered, Listed

(* Steps that move the route nowhere: they may lose it with its packet or its *)
(* process, end a thread, or be of the other thread.                          *)
LEMMA RouteStays ==
    ASSUME TourInv, UNCHANGED <<index, adding, ips, next_ip, ended>>,
           \A m \in Nodes : rtq'[m] = rtq[m] \/ rtq'[m] = <<>>,
           \A m \in Nodes : \/ main'[m] = main[m] \/ main'[m] = "crashed"
                            \/ main[m] = "select" /\ main'[m] = "done"
    PROVE  OneInv' /\ PlaceInv' /\ Lists'
<1>1. \A m \in Nodes : (Holder(m)' => Holder(m)) /\ (Busy(m)' => Busy(m))
  BY DEF Holder, Busy
<1>2. OneInv'
  <2>1. \A m, n \in Nodes : Busy(m)' /\ Busy(n)' => m = n
    BY <1>1 DEF TourInv, OneInv
  <2>2. \A n \in Nodes : ~(rtq'[n] # <<>> /\ Holder(n)')
    BY <1>1 DEF TourInv, OneInv
  <2>3. ended' => \A n \in Nodes : ~Busy(n)'
    BY <1>1 DEF TourInv, OneInv
  <2>. QED  BY <2>1, <2>2, <2>3 DEF OneInv
<1>3. PlaceInv'
  <2>1. ASSUME NEW n \in Nodes PROVE PacketPlaced(n)'
    <3>1. CASE rtq'[n] = <<>>
      BY <3>1 DEF PacketPlaced
    <3>2. CASE rtq'[n] = rtq[n] /\ rtq[n] # <<>>
      <4>. DEFINE j == rtq[n][1].index
      <4>1. Route[j + 1] = n /\ Route[j] = rtq[n][1].from /\ Upto(j - 1)
        BY <3>2 DEF TourInv, PlaceInv, PacketPlaced
      <4>2. rtq'[n][1].index = j /\ rtq'[n][1].from = rtq[n][1].from
        BY <3>2
      <4>. QED  BY <4>1, <4>2 DEF PacketPlaced, Upto, Covered, Listed
    <3>. QED  BY <3>1, <3>2
  <2>2. ASSUME NEW n \in Nodes PROVE HolderPlaced(n)'
    <3>1. HolderPlaced(n)
      BY DEF TourInv, PlaceInv
    <3>. QED  BY <3>1 DEF HolderPlaced, Upto, Covered, Listed
  <2>3. ended' => Upto(total_size - 1)'
    BY SameLists DEF TourInv, PlaceInv
  <2>. QED  BY <2>1, <2>2, <2>3 DEF PlaceInv
<1>4. Lists'
  <2>1. SUFFICES ASSUME NEW n \in Nodes PROVE ListInv(n)'
    BY DEF Lists
  <2>2. ListInv(n)
    BY DEF TourInv, Lists
  <2>3. adding'[n] # Nobody => main'[n] \in {"received", "crashed"}
    BY <2>2 DEF ListInv
  <2>. QED  BY <2>2, <2>3 DEF ListInv, Written
<1>. QED  BY <1>2, <1>3, <1>4

LEMMA PingsStay ==
    ASSUME TourInv, UNCHANGED <<next_ip, next_ping, ping, k, pass>>
    PROVE  Pings'
BY DEF TourInv, Pings, PingInv

(* A list that grows does no harm to the other thread. *)
LEMMA PingsGrow ==
    ASSUME TourInv, MainTypes', UNCHANGED <<next_ping, ping, k, pass>>,
           \A m \in Nodes : next_ip[m] <= next_ip'[m]
    PROVE  Pings'
<1>1. SUFFICES ASSUME NEW n \in Nodes PROVE PingInv(n)'
  BY DEF Pings
<1>2. PingInv(n) /\ next_ip[n] <= next_ip'[n]
  BY DEF TourInv, Pings
<1>3. next_ip[n] \in Nat /\ next_ip'[n] \in Nat /\ next_ping[n] \in Nat /\ pass[n] \in Nat
      /\ k[n] \in Nat
  BY RouteFacts DEF TourInv, MainTypes, PingTypes
<1>. QED  BY <1>2, <1>3 DEF PingInv

---------------------------------------------------------------------------
(* The invariant is inductive: one lemma per action. *)

LEMMA InitInv == Init => TourInv
<1>1. SUFFICES ASSUME Init PROVE TourInv
  OBVIOUS
<1>2. MainTypes /\ PingTypes /\ NetTypes
  <2>1. 0 \in 0..total_size /\ 0 \in 0..(total_size - 1)
    BY RouteFacts
  <2>2. MainTypes
    BY <1>1, <2>1, EmptyLoad DEF Init, MainTypes
  <2>3. PingTypes
    BY <1>1, <2>1 DEF Init, PingTypes
  <2>. QED  BY <1>1, <2>2, <2>3, Zenon DEF Init, NetTypes
<1>3. OneInv
  <2>1. \A n \in Nodes : rtq[n] = <<>> /\ (Holder(n) => n = Source)
    BY <1>1, Zenon DEF Init, Holder
  <2>. QED  BY <1>1, <2>1 DEF Init, OneInv, Busy
<1>4. PlaceInv
  <2>1. Upto(0)
    BY <1>1 DEF Init, Upto, Covered
  <2>2. \A n \in Nodes : PacketPlaced(n)
    BY <1>1 DEF Init, PacketPlaced
  <2>3. \A n \in Nodes : HolderPlaced(n)
    BY <1>1, <2>1, Zenon DEF Init, HolderPlaced
  <2>. QED  BY <1>1, <2>2, <2>3 DEF Init, PlaceInv
<1>5. Lists
  <2>1. SUFFICES ASSUME NEW n \in Nodes PROVE ListInv(n)
    BY Zenon DEF Lists
  <2>2. adding[n] = Nobody /\ next_ip[n] = 0 /\ \A s \in Slots : ips[n][s] = Unwritten
    BY <1>1 DEF Init
  <2>3. Written(n) = 0 /\ 0..(0 - 1) = {}
    BY <2>2 DEF Written
  <2>. QED  BY <2>2, <2>3 DEF ListInv
<1>6. Pings
  <2>1. SUFFICES ASSUME NEW n \in Nodes PROVE PingInv(n)
    BY Zenon DEF Pings
  <2>2. ping[n] = "top" /\ next_ip[n] = 0 /\ next_ping[n] = 0
    BY <1>1 DEF Init
  <2>. QED  BY <2>2 DEF PingInv
<1>. QED  BY <1>2, <1>3, <1>4, <1>5, <1>6 DEF TourInv

LEMMA PopulateRouteInv ==
    ASSUME TourInv, NEW n \in Nodes, populate_route(n)
    PROVE  TourInv'
<1>1. /\ main[n] = "start" /\ index' = [index EXCEPT ![n] = 1]
      /\ rtq' = send_rt(n, 1, rtq) /\ main' = [main EXCEPT ![n] = "select"]
      /\ UNCHANGED <<adding, ips, next_ip, keep_pinging, ping, pass, k, next_ping, mcq, ended>>
  BY DEF populate_route, listVars, pingVars
<1>2. /\ Holder(n) /\ ~ended /\ \A m \in Nodes : Busy(m) => m = n
      /\ \A m \in Nodes : rtq[m] = <<>>
  BY <1>1 DEF TourInv, OneInv, Busy, Holder
<1>3. n = Source /\ Upto(0)
  BY <1>1 DEF TourInv, PlaceInv, HolderPlaced
<1>4. 1 \in 1..(total_size - 1)
  BY RouteFacts
<1>5. /\ rtq' \in [Nodes -> Loads] /\ Route[2] \in Nodes
      /\ \A m \in Nodes : rtq'[m] # <<>> => m = Route[2]
      /\ rtq'[Route[2]][1].index = 1 /\ rtq'[Route[2]][1].from = n
  <2>1. 1 + 1 = 2
    OBVIOUS
  <2>. QED  BY <1>1, <1>2, <1>4, <2>1, RouteSent DEF TourInv, MainTypes
<1>6. MainTypes'
  BY <1>1, <1>5, RouteFacts DEF TourInv, MainTypes
<1>7. \A m \in Nodes : ~Holder(m)'
  BY <1>1, <1>2 DEF Holder, Busy, TourInv, MainTypes
<1>8. OneInv'
  BY <1>1, <1>2, <1>5, <1>7 DEF OneInv, Busy
<1>9. PlaceInv'
  <2>1. Upto(0)'
    BY <1>1, <1>3, SameLists
  <2>2. \A m \in Nodes : PacketPlaced(m)'
    BY <1>3, <1>5, <2>1 DEF PacketPlaced, Source
  <2>3. \A m \in Nodes : HolderPlaced(m)'
    BY <1>7 DEF HolderPlaced, Holder
  <2>. QED  BY <1>1, <1>2, <2>2, <2>3 DEF PlaceInv
<1>10. Lists'
  <2>1. SUFFICES ASSUME NEW m \in Nodes PROVE ListInv(m)'
    BY DEF Lists
  <2>2. ListInv(m) /\ ListInv(n)
    BY DEF TourInv, Lists
  <2>3. adding'[m] # Nobody => main'[m] \in {"received", "crashed"}
    BY <1>1, <2>2 DEF ListInv, TourInv, MainTypes
  <2>. QED  BY <1>1, <2>2, <2>3 DEF ListInv, Written
<1>11. Pings'
  BY <1>1, PingsStay
<1>. QED  BY <1>1, <1>6, <1>8, <1>9, <1>10, <1>11 DEF TourInv, PingTypes, NetTypes

LEMMA SendMulticastInv ==
    ASSUME TourInv, NEW n \in Nodes, send_multicast(n)
    PROVE  TourInv'
<1>1. /\ main[n] = "sleep" /\ mcq' = [m \in Nodes |-> main[m] # "crashed"] /\ ended' = TRUE
      /\ main' = [main EXCEPT ![n] = "select"]
      /\ UNCHANGED <<index, adding, ips, next_ip, keep_pinging, ping, pass, k, next_ping, rtq>>
  BY DEF send_multicast, listVars, pingVars
<1>2. /\ Holder(n) /\ \A m \in Nodes : Busy(m) => m = n
      /\ \A m \in Nodes : rtq[m] = <<>>
  BY <1>1 DEF TourInv, OneInv, Busy, Holder
<1>3. MainTypes' /\ NetTypes'
  BY <1>1 DEF TourInv, MainTypes, NetTypes
<1>4. \A m \in Nodes : ~Holder(m)' /\ ~Busy(m)'
  BY <1>1, <1>2 DEF Holder, Busy, TourInv, MainTypes
<1>5. OneInv'
  BY <1>4 DEF OneInv, Busy
<1>6. PlaceInv'
  <2>1. Upto(total_size - 1)
    BY <1>1 DEF TourInv, PlaceInv, HolderPlaced
  <2>2. Upto(total_size - 1)'
    BY <1>1, <2>1, SameLists
  <2>3. \A m \in Nodes : PacketPlaced(m)' /\ HolderPlaced(m)'
    BY <1>4 DEF PacketPlaced, HolderPlaced, Holder, Busy
  <2>. QED  BY <2>2, <2>3 DEF PlaceInv
<1>7. Lists'
  <2>1. SUFFICES ASSUME NEW m \in Nodes PROVE ListInv(m)'
    BY DEF Lists
  <2>2. ListInv(m) /\ ListInv(n)
    BY DEF TourInv, Lists
  <2>3. adding'[m] # Nobody => main'[m] \in {"received", "crashed"}
    BY <1>1, <2>2 DEF ListInv, TourInv, MainTypes
  <2>. QED  BY <1>1, <2>2, <2>3 DEF ListInv, Written
<1>8. Pings'
  BY <1>1, PingsStay
<1>. QED  BY <1>1, <1>3, <1>5, <1>6, <1>7, <1>8 DEF TourInv, PingTypes

(* add_ip_to_ping up to the strcpy. *)
LEMMA Entering ==
    ASSUME TourInv, NEW n \in Nodes, main[n] = "select", main' = [main EXCEPT ![n] = "received"],
           ips' = ips, NEW x \in Predecessors(n), Adds(n, x),
           next_ip' = [next_ip EXCEPT ![n] = @ + 1], adding' = [adding EXCEPT ![n] = x]
    PROVE  /\ \A m, y \in Nodes : y \in Listed(m) => y \in Listed(m)'
           /\ x \in Listed(n)' /\ Lists'
<1>1. /\ \A m \in Nodes : ListInv(m) /\ next_ip[m] \in Nat
      /\ next_ip \in [Nodes -> Nat] /\ DOMAIN adding = Nodes /\ DOMAIN main = Nodes
  BY RouteFacts DEF TourInv, Lists, MainTypes
<1>2. adding[n] = Nobody /\ Written(n) = next_ip[n] /\ x # Nobody
  BY <1>1, RouteFacts, PredecessorsAreNodes DEF ListInv, Written
<1>3. /\ next_ip'[n] = next_ip[n] + 1 /\ adding'[n] = x /\ main'[n] = "received"
      /\ \A m \in Nodes \ {n} : next_ip'[m] = next_ip[m] /\ adding'[m] = adding[m]
                                /\ main'[m] = main[m]
  BY <1>1
<1>4. \A m, y \in Nodes : y \in Listed(m) => y \in Listed(m)'
  <2>1. SUFFICES ASSUME NEW m \in Nodes, NEW y \in Nodes, y \in Listed(m)
                 PROVE  y \in Listed(m)'
    OBVIOUS
  <2>2. CASE m = n
    <3>1. PICK s \in 0..(next_ip[n] - 1) : y = ips[n][s]
      BY <1>2, <2>1, <2>2, RouteFacts DEF Listed
    <3>2. s \in 0..(next_ip'[n] - 1)
      BY <1>1, <1>3, <3>1
    <3>. QED  BY <2>2, <3>1, <3>2 DEF Listed
  <2>3. CASE m # n
    BY <1>3, <2>1, <2>3 DEF Listed
  <2>. QED  BY <2>2, <2>3
<1>5. x \in Listed(n)'
  BY <1>3 DEF Listed
<1>6. Lists'
  <2>1. SUFFICES ASSUME NEW m \in Nodes PROVE ListInv(m)'
    BY DEF Lists
  <2>2. CASE m = n
    <3>1. Written(n)' = next_ip[n]
      BY <1>1, <1>2, <1>3 DEF Written
    <3>2. \A s \in 0..(next_ip[n] - 1) : ips[n][s] # x
      BY DEF Adds
    <3>3. ListInv(n)
      BY <1>1
    <3>. QED  BY <1>1, <1>2, <1>3, <2>2, <3>1, <3>2, <3>3 DEF ListInv
  <2>3. CASE m # n
    <3>1. ListInv(m) /\ Written(m)' = Written(m)
      BY <1>1, <1>3, <2>3 DEF Written
    <3>. QED  BY <1>3, <2>3, <3>1 DEF ListInv
  <2>. QED  BY <2>2, <2>3
<1>. QED  BY <1>4, <1>5, <1>6

LEMMA ReceiveRouteInv ==
    ASSUME TourInv, NEW n \in Nodes, ReceiveRoute(n)
    PROVE  TourInv'
<1>. DEFINE p == Head(rtq[n])
<1>1. /\ rtq \in [Nodes -> Loads] /\ next_ip \in [Nodes -> 0..(total_size - 1)]
      /\ main \in [Nodes -> {"start", "select", "received", "sleep", "done", "crashed"}]
      /\ index \in [Nodes -> 0..total_size] /\ adding \in [Nodes -> Nodes \union {Nobody}]
  BY DEF TourInv, MainTypes
<1>2. p \in Packet /\ p = rtq[n][1] /\ Tail(rtq[n]) = <<>> /\ rtq[n] # <<>>
  BY <1>1, OnePacket DEF ReceiveRoute
<1>3. PICK i \in 1..(total_size - 1), x \in Nodes : i = p.index /\ x = p.from
  BY <1>2, PacketFields
<1>4. /\ main[n] = "select" /\ rtq' = [rtq EXCEPT ![n] = Tail(@)]
      /\ index' = [index EXCEPT ![n] = i + 1] /\ main' = [main EXCEPT ![n] = "received"]
      /\ IF Adds(n, x)
         THEN /\ next_ip' = [next_ip EXCEPT ![n] = @ + 1]
              /\ adding' = [adding EXCEPT ![n] = x]
         ELSE next_ip' = next_ip /\ adding' = adding
      /\ UNCHANGED <<ips, keep_pinging, ping, pass, k, next_ping, mcq, ended>>
  BY <1>3 DEF ReceiveRoute, recv_rt, pingVars
<1>5. Route[i + 1] = n /\ Route[i] = x /\ Upto(i - 1)
  <2>1. rtq[n][1].index = i /\ rtq[n][1].from = x
    BY <1>2, <1>3
  <2>. QED  BY <1>2, <2>1 DEF TourInv, PlaceInv, PacketPlaced
<1>. HIDE DEF p
<1>6. x \in Predecessors(n)
  BY <1>5, <1>3, PredecessorAt
<1>7. /\ \A m \in Nodes : Busy(m) => m = n
      /\ ~ended /\ rtq'[n] = <<>> /\ \A m \in Nodes : rtq'[m] = <<>>
  <2>1. \A m \in Nodes : Busy(m) => m = n
    BY <1>2 DEF TourInv, OneInv, Busy
  <2>2. ~ended
    BY <1>2 DEF TourInv, OneInv, Busy
  <2>3. \A m \in Nodes : m # n => rtq[m] = <<>>
    BY <2>1 DEF Busy
  <2>. QED  BY <1>4, <1>1, <1>2, <2>1, <2>2, <2>3
<1>8. \A m \in Nodes : Holder(m)' <=> m = n
  <2>1. \A m \in Nodes : main[m] \in {"start", "received", "sleep"} => m = n
    BY <1>7 DEF Busy, Holder
  <2>. QED  BY <1>4, <1>1, <2>1 DEF Holder
<1>9. \A m \in Nodes : /\ next_ip'[m] \in 0..i /\ next_ip[m] <= next_ip'[m]
  <2>1. \A m \in Nodes : next_ip[m] <= i - 1
    BY <1>5, Zenon DEF Upto
  <2>2. \A m \in Nodes : next_ip'[m] = next_ip[m] \/ next_ip'[m] = next_ip[m] + 1
    BY <1>4, <1>1
  <2>3. SUFFICES ASSUME NEW m \in Nodes
                 PROVE  next_ip'[m] \in 0..i /\ next_ip[m] <= next_ip'[m]
    OBVIOUS
  <2>4. i \in Nat /\ next_ip[m] <= i - 1 /\ next_ip[m] \in Nat
    BY <1>1, <2>1, RouteFacts
  <2>. QED  BY <2>2, <2>4
<1>10. /\ \A m, y \in Nodes : y \in Listed(m) => y \in Listed(m)'
       /\ x \in Listed(n)' \union {n} /\ Lists'
  <2>1. CASE Adds(n, x)
    BY <1>4, <1>6, <2>1, Entering, Zenon
  <2>2. CASE ~Adds(n, x)
    <3>1. UNCHANGED <<ips, next_ip, adding>>
      BY <1>4, <2>2
    <3>2. x \in Listed(n) \union {n}
      BY <2>2 DEF Adds, Listed
    <3>3. Lists'
      <4>1. SUFFICES ASSUME NEW m \in Nodes PROVE ListInv(m)'
        BY DEF Lists
      <4>2. ListInv(m)
        BY DEF TourInv, Lists
      <4>3. adding'[m] # Nobody => main'[m] \in {"received", "crashed"}
        BY <1>4, <1>1, <3>1, <4>2 DEF ListInv
      <4>. QED  BY <3>1, <4>2, <4>3 DEF ListInv, Written
    <3>. QED  BY <3>1, <3>2, <3>3 DEF Listed
  <2>. QED  BY <2>1, <2>2
<1>11. MainTypes'
  <2>1. next_ip' \in [Nodes -> 0..(total_size - 1)]
    <3>1. DOMAIN next_ip' = Nodes /\ next_ip' = [m \in Nodes |-> next_ip'[m]]
      BY <1>4, <1>1
    <3>. QED  BY <1>3, <1>9, <3>1, RouteFacts
  <2>2. index' \in [Nodes -> 0..total_size]
    BY <1>4, <1>1, <1>3, RouteFacts
  <2>3. adding' \in [Nodes -> Nodes \union {Nobody}] /\ rtq' \in [Nodes -> Loads]
    BY <1>4, <1>1, <1>2, <1>3, EmptyLoad, Zenon
  <2>4. main' \in [Nodes -> {"start", "select", "received", "sleep", "done", "crashed"}]
    BY <1>4, <1>1
  <2>. QED  BY <1>4, <2>1, <2>2, <2>3, <2>4 DEF TourInv, MainTypes
<1>12. OneInv'
  BY <1>4, <1>7, <1>8 DEF OneInv, Busy
<1>13. PlaceInv'
  <2>1. Upto(i)'
    <3>1. Covered(i - 1)
      BY <1>5 DEF Upto
    <3>2. ASSUME NEW j \in 1..i
          PROVE  Route[j] \in Listed(Route[j + 1])' \union {Route[j + 1]}
      <4>1. CASE j = i
        BY <1>5, <1>10, <4>1
      <4>2. CASE j # i
        <5>1. j \in 1..(i - 1) /\ Route[j] \in Nodes /\ Route[j + 1] \in Nodes
          BY <1>3, <4>2, RouteFacts
        <5>2. Route[j] \in Listed(Route[j + 1]) \union {Route[j + 1]}
          BY <3>1, <5>1 DEF Covered
        <5>. QED  BY <1>10, <5>1, <5>2
      <4>. QED  BY <4>1, <4>2
    <3>3. \A m \in Nodes : next_ip'[m] <= i
      BY <1>3, <1>9
    <3>. QED  BY <3>2, <3>3 DEF Upto, Covered
  <2>2. index'[n] = i + 1 /\ i + 1 \in 2..total_size /\ (i + 1) - 1 = i
    <3>1. index'[n] = i + 1
      BY <1>1, <1>4
    <3>2. i + 1 \in 2..total_size /\ (i + 1) - 1 = i
      BY RouteFacts
    <3>. QED  BY <3>1, <3>2
  <2>3. ASSUME NEW m \in Nodes PROVE HolderPlaced(m)'
    <3>1. CASE m = n
      <4>1. main'[n] = "received"
        BY <1>4, <1>1
      <4>. QED  BY <1>5, <2>1, <2>2, <3>1, <4>1 DEF HolderPlaced
    <3>2. CASE m # n
      BY <1>8, <3>2 DEF Holder, HolderPlaced
    <3>. QED  BY <3>1, <3>2
  <2>4. \A m \in Nodes : PacketPlaced(m)'
    BY <1>7 DEF PacketPlaced
  <2>. QED  BY <1>4, <1>7, <2>3, <2>4 DEF PlaceInv
<1>14. Pings'
  BY <1>4, <1>9, <1>11, PingsGrow
<1>. QED  BY <1>4, <1>10, <1>11, <1>12, <1>13, <1>14 DEF TourInv, PingTypes, NetTypes

(* The strcpy of add_ip_to_ping: the address goes from adding into its slot. *)
LEMMA Entered ==
    ASSUME TourInv, NEW n \in Nodes, next_ip' = next_ip,
           ips' = IF adding[n] # Nobody
                  THEN [ips EXCEPT ![n][next_ip[n] - 1] = adding[n]] ELSE ips,
           adding' = [adding EXCEPT ![n] = Nobody],
           \A m \in Nodes : m # n => main'[m] = main[m]
    PROVE  /\ \A m, y \in Nodes : y \in Listed(m) => y \in Listed(m)'
           /\ Lists' /\ ips' \in [Nodes -> [Slots -> Nodes \union {Unwritten}]]
<1>1. /\ \A m \in Nodes : ListInv(m)
      /\ next_ip \in [Nodes -> 0..(total_size - 1)]
      /\ adding \in [Nodes -> Nodes \union {Nobody}]
      /\ ips \in [Nodes -> [Slots -> Nodes \union {Unwritten}]]
  BY DEF TourInv, Lists, MainTypes
<1>2. adding'[n] = Nobody /\ \A m \in Nodes : m # n => adding'[m] = adding[m]
  BY <1>1
<1>3. Written(n)' = next_ip[n] /\ next_ip[n] \in Nat /\ next_ip[n] < total_size
  BY <1>1, <1>2, RouteFacts DEF Written
<1>4. ASSUME NEW m \in Nodes, ips'[m] = ips[m], adding'[m] = adding[m],
             adding[m] # Nobody => main'[m] = main[m]
      PROVE  ListInv(m)' /\ \A y \in Nodes : y \in Listed(m) => y \in Listed(m)'
  <2>1. ListInv(m) /\ Written(m)' = Written(m)
    BY <1>1, <1>4 DEF Written
  <2>. QED  BY <1>4, <2>1 DEF ListInv, Listed
<1>5. CASE adding[n] = Nobody
  <2>1. ips' = ips /\ adding'[n] = adding[n]
    BY <1>2, <1>5
  <2>. QED  BY <1>1, <1>2, <1>4, <1>5, <2>1, Zenon DEF Lists
<1>6. CASE adding[n] # Nobody
  <2>. DEFINE w == next_ip[n] - 1
              a == adding[n]
  <2>1. ListInv(n) /\ a \in Predecessors(n) /\ a \in Nodes /\ Written(n) = w
        /\ next_ip[n] >= 1
    BY <1>1, <1>6 DEF ListInv, Written
  <2>2. w \in Slots /\ w \in 0..(next_ip[n] - 1)
    BY <1>3, <2>1, RouteFacts DEF Slots
  <2>3. ips' = [ips EXCEPT ![n] = [ips[n] EXCEPT ![w] = a]]
    BY <1>6
  <2>. HIDE DEF a
  <2>4. /\ ips' \in [Nodes -> [Slots -> Nodes \union {Unwritten}]]
        /\ ips'[n][w] = a /\ \A s \in Slots : s # w => ips'[n][s] = ips[n][s]
        /\ \A m \in Nodes : m # n => ips'[m] = ips[m]
    <3>1. [ips[n] EXCEPT ![w] = a] \in [Slots -> Nodes \union {Unwritten}]
      BY <1>1, <2>1, <2>2
    <3>2. [ips[n] EXCEPT ![w] = a][w] = a
          /\ \A s \in Slots : s # w => [ips[n] EXCEPT ![w] = a][s] = ips[n][s]
      BY <1>1, <2>2
    <3>3. ips'[n] = [ips[n] EXCEPT ![w] = a] /\ \A m \in Nodes : m # n => ips'[m] = ips[m]
      BY <1>1, <2>3, Zenon
    <3>4. ips' \in [Nodes -> [Slots -> Nodes \union {Unwritten}]]
      BY <1>1, <2>3, <3>1
    <3>. QED  BY <3>2, <3>3, <3>4
  <2>5. /\ \A s \in 0..(w - 1) : /\ s \in Slots /\ s # w /\ ips[n][s] \in Predecessors(n)
                                 /\ ips[n][s] # a
        /\ \A s, r \in 0..(w - 1) : ips[n][s] = ips[n][r] => s = r
        /\ \A s \in Slots : s >= w => ips[n][s] = Unwritten
    <3>1. \A s \in 0..(w - 1) : s \in Slots /\ s # w
      BY <1>3, RouteFacts DEF Slots
    <3>. QED  BY <2>1, <3>1 DEF ListInv, a
  <2>6. \A s \in 0..(next_ip[n] - 1) : s \in 0..(w - 1) \/ s = w
    BY <1>3
  <2>7. ListInv(n)'
    <3>1. \A s \in 0..(next_ip[n] - 1) : ips'[n][s] \in Predecessors(n)
      BY <2>1, <2>4, <2>5, <2>6
    <3>2. \A s, r \in 0..(next_ip[n] - 1) : ips'[n][s] = ips'[n][r] => s = r
      <4>1. SUFFICES ASSUME NEW s \in 0..(next_ip[n] - 1), NEW r \in 0..(next_ip[n] - 1),
                            ips'[n][s] = ips'[n][r]
                     PROVE  s = r
        OBVIOUS
      <4>2. CASE s = w /\ r = w
        BY <4>2
      <4>3. CASE s = w /\ r \in 0..(w - 1)
        BY <2>4, <2>5, <4>1, <4>3
      <4>4. CASE s \in 0..(w - 1) /\ r = w
        BY <2>4, <2>5, <4>1, <4>4
      <4>5. CASE s \in 0..(w - 1) /\ r \in 0..(w - 1)
        BY <2>4, <2>5, <4>1, <4>5
      <4>. QED  BY <2>6, <4>2, <4>3, <4>4, <4>5
    <3>3. \A s \in Slots : s >= next_ip[n] => ips'[n][s] = Unwritten
      <4>1. \A s \in Slots : s >= next_ip[n] => s # w /\ s >= w
        BY <1>3 DEF Slots
      <4>. QED  BY <2>4, <2>5, <4>1
    <3>4. \A s \in 0..(next_ip[n] - 1) : ips'[n][s] # Nobody
      BY <3>1, PredecessorsAreNodes, RouteFacts
    <3>. HIDE DEF w
    <3>. QED  BY <1>2, <1>3, <3>1, <3>2, <3>3, <3>4 DEF ListInv
  <2>8. \A y \in Nodes : y \in Listed(n) => y \in Listed(n)'
    <3>1. SUFFICES ASSUME NEW y \in Nodes, y \in Listed(n) PROVE y \in Listed(n)'
      OBVIOUS
    <3>2. CASE y = a
      BY <2>2, <2>4, <3>2 DEF Listed
    <3>3. CASE \E s \in 0..(next_ip[n] - 1) : y = ips[n][s]
      <4>1. PICK s \in 0..(next_ip[n] - 1) : y = ips[n][s]
        BY <3>3
      <4>2. s # w
        BY <2>2, <2>5, <3>1, <4>1, RouteFacts
      <4>3. ips'[n][s] = y
        BY <2>4, <2>5, <2>6, <4>1, <4>2
      <4>. QED  BY <4>1, <4>3 DEF Listed
    <3>. QED  BY <3>1, <3>2, <3>3 DEF Listed, a
  <2>9. \A m \in Nodes : m # n => ListInv(m)' /\ \A y \in Nodes : y \in Listed(m) => y \in Listed(m)'
    BY <1>2, <1>4, <2>4
  <2>. QED  BY <2>4, <2>7, <2>8, <2>9 DEF Lists
<1>. QED  BY <1>5, <1>6

LEMMA PassOnInv ==
    ASSUME TourInv, NEW n \in Nodes, PassOn(n)
    PROVE  TourInv'
<1>1. /\ rtq \in [Nodes -> Loads] /\ index \in [Nodes -> 0..total_size]
      /\ main \in [Nodes -> {"start", "select", "received", "sleep", "done", "crashed"}]
      /\ adding \in [Nodes -> Nodes \union {Nobody}]
  BY DEF TourInv, MainTypes
<1>2. main[n] = "received" /\ UNCHANGED <<index, next_ip, keep_pinging, ping, pass, k,
                                          next_ping, mcq, ended>>
  BY DEF PassOn, pingVars
<1>3. PICK i \in 2..total_size : i = index[n] /\ Route[i] = n /\ Upto(i - 1)
  BY <1>2 DEF TourInv, PlaceInv, HolderPlaced
<1>4. i - 1 \in 0..(total_size - 1)
  BY RouteFacts
<1>5. /\ main' \in [Nodes -> {"start", "select", "received", "sleep", "done", "crashed"}]
      /\ main'[n] \in {"select", "sleep"} /\ \A m \in Nodes : m # n => main'[m] = main[m]
      /\ adding' \in [Nodes -> Nodes \union {Nobody}]
  <2>1. /\ \/ main' = [main EXCEPT ![n] = "sleep"]
           \/ main' = [main EXCEPT ![n] = "select"]
        /\ adding' = [adding EXCEPT ![n] = Nobody]
    BY DEF PassOn
  <2>. QED  BY <1>1, <2>1
<1>6. /\ \A m, y \in Nodes : y \in Listed(m) => y \in Listed(m)'
      /\ Lists' /\ ips' \in [Nodes -> [Slots -> Nodes \union {Unwritten}]]
  BY <1>2, <1>5, Entered, Zenon DEF PassOn
<1>7. Upto(i - 1)'
  <2>1. PICK j \in 0..(total_size - 1) : j = i - 1
    BY <1>4
  <2>2. Upto(j) /\ \A m \in Nodes : next_ip'[m] <= j
    BY <1>2, <1>3, <2>1 DEF Upto
  <2>3. Upto(j)'
    BY <1>6, <2>2, UptoKept
  <2>. QED  BY <2>1, <2>3
<1>8. /\ \A m \in Nodes : Busy(m) => m = n
      /\ ~ended /\ \A m \in Nodes : rtq[m] = <<>>
  <2>1. Holder(n) /\ Busy(n)
    BY <1>2 DEF Holder, Busy
  <2>. QED  BY <2>1 DEF TourInv, OneInv, Busy
<1>9. \A m \in Nodes : m # n => ~Holder(m)'
  BY <1>5, <1>8 DEF Holder, Busy
<1>10. Pings'
  BY <1>2, PingsStay
<1>11. CASE AtEnd(n)
  <2>1. rtq' = rtq /\ main'[n] = "sleep"
    BY <1>1, <1>11 DEF PassOn
  <2>2. i = total_size
    BY <1>3, <1>11, RouteFacts DEF AtEnd
  <2>3. MainTypes'
    BY <1>2, <1>5, <1>6, <2>1 DEF TourInv, MainTypes
  <2>4. OneInv'
    BY <1>2, <1>8, <1>9, <2>1 DEF OneInv, Busy
  <2>5. HolderPlaced(n)'
    BY <1>7, <2>1, <2>2 DEF HolderPlaced
  <2>6. \A m \in Nodes : m # n => HolderPlaced(m)'
    BY <1>9 DEF HolderPlaced, Holder
  <2>7. \A m \in Nodes : PacketPlaced(m)'
    BY <1>8, <2>1 DEF PacketPlaced
  <2>8. PlaceInv'
    BY <1>2, <1>8, <2>5, <2>6, <2>7 DEF PlaceInv
  <2>. QED  BY <1>2, <1>6, <1>10, <2>3, <2>4, <2>8 DEF TourInv, PingTypes, NetTypes
<1>12. CASE ~AtEnd(n)
  <2>1. rtq' = send_rt(n, i, rtq) /\ main'[n] = "select"
    BY <1>1, <1>3, <1>12 DEF PassOn
  <2>2. i \in 1..(total_size - 1)
    BY <1>3, <1>12, RouteFacts DEF AtEnd
  <2>3. PICK d \in Nodes : d = Route[i + 1]
    BY <2>2, RouteFacts
  <2>4. /\ rtq' \in [Nodes -> Loads] /\ \A m \in Nodes : rtq'[m] # <<>> => m = d
        /\ rtq'[d] # <<>> /\ rtq'[d][1].index = i /\ rtq'[d][1].from = n
    BY <1>1, <1>8, <2>1, <2>2, <2>3, RouteSent
  <2>5. MainTypes'
    BY <1>2, <1>5, <1>6, <2>4 DEF TourInv, MainTypes
  <2>6. \A m \in Nodes : ~Holder(m)'
    BY <1>9, <2>1 DEF Holder
  <2>7. OneInv'
    BY <1>2, <1>8, <2>4, <2>6 DEF OneInv, Busy
  <2>8. PacketPlaced(d)'
    BY <1>3, <1>7, <2>3, <2>4 DEF PacketPlaced
  <2>9. \A m \in Nodes : PacketPlaced(m)'
    <3>1. \A m \in Nodes : m # d => PacketPlaced(m)'
      BY <2>4 DEF PacketPlaced
    <3>. QED  BY <2>8, <3>1
  <2>10. \A m \in Nodes : HolderPlaced(m)'
    BY <2>6 DEF HolderPlaced, Holder
  <2>11. PlaceInv'
    BY <1>2, <1>8, <2>9, <2>10 DEF PlaceInv
  <2>. QED  BY <1>2, <1>6, <1>10, <2>5, <2>7, <2>11 DEF TourInv, PingTypes, NetTypes
<1>. QED  BY <1>11, <1>12

LEMMA ReceiveMulticastInv ==
    ASSUME TourInv, NEW n \in Nodes, ReceiveMulticast(n)
    PROVE  TourInv'
<1>1. /\ main[n] = "select" /\ mcq' = [mcq EXCEPT ![n] = FALSE]
      /\ keep_pinging' = [keep_pinging EXCEPT ![n] = FALSE]
      /\ main' = [main EXCEPT ![n] = "done"]
      /\ UNCHANGED <<index, adding, ips, next_ip, ping, pass, k, next_ping, rtq, ended>>
  BY DEF ReceiveMulticast, listVars, pingVars
<1>2. MainTypes' /\ PingTypes' /\ NetTypes'
  BY <1>1 DEF TourInv, MainTypes, PingTypes, NetTypes
<1>3. OneInv' /\ PlaceInv' /\ Lists'
  BY <1>1, RouteStays DEF TourInv, MainTypes
<1>4. Pings'
  BY <1>1, PingsStay
<1>. QED  BY <1>2, <1>3, <1>4 DEF TourInv

LEMMA CrashInv ==
    ASSUME TourInv, NEW n \in Nodes, Crash(n)
    PROVE  TourInv'
<1>1. /\ ping' = [ping EXCEPT ![n] = "crashed"] /\ main' = [main EXCEPT ![n] = "crashed"]
      /\ mcq' = [mcq EXCEPT ![n] = FALSE] /\ rtq' = [rtq EXCEPT ![n] = <<>>]
      /\ UNCHANGED <<index, adding, ips, next_ip, keep_pinging, pass, k, next_ping, ended>>
  BY DEF Crash, listVars
<1>2. MainTypes' /\ PingTypes' /\ NetTypes'
  BY <1>1, EmptyLoad DEF TourInv, MainTypes, PingTypes, NetTypes
<1>3. OneInv' /\ PlaceInv' /\ Lists'
  BY <1>1, RouteStays DEF TourInv, MainTypes
<1>4. Pings'
  BY <1>1 DEF TourInv, PingTypes, Pings, PingInv
<1>. QED  BY <1>2, <1>3, <1>4 DEF TourInv

LEMMA LoseRouteInv ==
    ASSUME TourInv, NEW n \in Nodes, LoseRoute(n)
    PROVE  TourInv'
<1>1. /\ rtq[n] # <<>> /\ rtq' = [rtq EXCEPT ![n] = Tail(@)]
      /\ UNCHANGED <<main, index, adding, ips, next_ip, keep_pinging, ping, pass, k,
                     next_ping, mcq, ended>>
  BY DEF LoseRoute, mainVars, listVars, pingVars
<1>2. Tail(rtq[n]) = <<>>
  BY <1>1, OnePacket DEF TourInv, MainTypes
<1>3. MainTypes' /\ PingTypes' /\ NetTypes'
  BY <1>1, <1>2, EmptyLoad, Zenon DEF TourInv, MainTypes, PingTypes, NetTypes
<1>4. OneInv' /\ PlaceInv' /\ Lists'
  BY <1>1, <1>2, RouteStays DEF TourInv, MainTypes
<1>5. Pings'
  BY <1>1, PingsStay
<1>. QED  BY <1>3, <1>4, <1>5 DEF TourInv

(* Steps that touch neither the main thread's state nor the lists nor packets. *)
LEMMA OtherThreadInv ==
    ASSUME TourInv, UNCHANGED <<main, index, adding, ips, next_ip, rtq, ended>>,
           PingTypes', NetTypes', Pings'
    PROVE  TourInv'
<1>1. MainTypes'
  BY DEF TourInv, MainTypes
<1>2. OneInv' /\ PlaceInv' /\ Lists'
  BY RouteStays
<1>. QED  BY <1>1, <1>2 DEF TourInv

LEMMA LoseMulticastInv ==
    ASSUME TourInv, NEW n \in Nodes, LoseMulticast(n)
    PROVE  TourInv'
<1>1. /\ mcq' = [mcq EXCEPT ![n] = FALSE]
      /\ UNCHANGED <<main, index, adding, ips, next_ip, keep_pinging, ping, pass, k,
                     next_ping, rtq, ended>>
  BY DEF LoseMulticast, mainVars, listVars, pingVars
<1>2. PingTypes' /\ NetTypes' /\ Pings'
  BY <1>1, PingsStay DEF TourInv, PingTypes, NetTypes
<1>. QED  BY <1>1, <1>2, OtherThreadInv

LEMMA StartPassInv ==
    ASSUME TourInv, NEW n \in Nodes, StartPass(n)
    PROVE  TourInv'
<1>1. UNCHANGED <<main, index, adding, ips, next_ip, keep_pinging, next_ping, rtq, mcq, ended>>
  BY DEF StartPass, mainVars, listVars, netVars
<1>2. PingTypes /\ next_ip \in [Nodes -> 0..(total_size - 1)] /\ Pings
  BY DEF TourInv, MainTypes
<1>3. /\ next_ip[n] \in 0..total_size /\ 0 \in 0..total_size /\ next_ip[n] \in Nat
      /\ next_ping[n] \in Nat
  BY <1>2, RouteFacts DEF PingTypes
<1>4. /\ \A m \in Nodes : m # n => pass'[m] = pass[m] /\ k'[m] = k[m] /\ ping'[m] = ping[m]
      /\ PingTypes'
      /\ ping'[n] # "send"
      /\ ping'[n] = "areq" => next_ip[n] # 0 /\ pass'[n] = next_ip[n] /\ k'[n] = 0
  BY <1>1, <1>2, <1>3 DEF StartPass, PingTypes
<1>5. PingInv(n)'
  <2>1. PingInv(n)
    BY <1>2 DEF Pings
  <2>. QED  BY <1>1, <1>3, <1>4, <2>1 DEF PingInv
<1>6. Pings'
  BY <1>1, <1>2, <1>4, <1>5 DEF Pings, PingInv
<1>7. NetTypes'
  BY <1>1 DEF TourInv, NetTypes
<1>. QED  BY <1>1, <1>4, <1>6, <1>7, OtherThreadInv

LEMMA AnnounceInv ==
    ASSUME TourInv, NEW n \in Nodes, Announce(n)
    PROVE  TourInv'
<1>1. /\ ping[n] = "areq" /\ ping' = [ping EXCEPT ![n] = "send"]
      /\ UNCHANGED <<main, index, adding, ips, next_ip, keep_pinging, pass, k, rtq, mcq, ended>>
  BY DEF Announce, mainVars, listVars, netVars
<1>2. PingTypes /\ next_ip \in [Nodes -> 0..(total_size - 1)] /\ Pings
  BY DEF TourInv, MainTypes
<1>3. /\ next_ip[n] \in Nat /\ next_ip[n] <= total_size - 1 /\ next_ping[n] \in Nat
      /\ k[n] \in Nat /\ pass[n] \in Nat /\ PingInv(n)
  BY <1>2, RouteFacts DEF PingTypes, Pings
<1>4. /\ \A m \in Nodes : m # n => next_ping'[m] = next_ping[m] /\ ping'[m] = ping[m]
      /\ ping'[n] = "send"
      /\ next_ping'[n] = IF next_ping[n] < next_ip[n] THEN next_ping[n] + 1 ELSE next_ping[n]
  BY <1>1, <1>2 DEF Announce, PingTypes
<1>5. PingInv(n)'
  BY <1>1, <1>3, <1>4 DEF PingInv
<1>6. PingTypes'
  <2>1. next_ping' \in [Nodes -> 0..total_size]
    <3>1. CASE next_ping[n] < next_ip[n]
      <4>1. next_ping[n] + 1 \in 0..total_size
        BY <1>3, <3>1, RouteFacts
      <4>. QED  BY <1>2, <3>1, <4>1 DEF Announce, PingTypes
    <3>2. CASE ~(next_ping[n] < next_ip[n])
      BY <1>2, <3>2 DEF Announce, PingTypes
    <3>. QED  BY <3>1, <3>2
  <2>. QED  BY <1>1, <1>2, <2>1 DEF PingTypes
<1>7. Pings'
  BY <1>1, <1>2, <1>4, <1>5 DEF Pings, PingInv
<1>8. NetTypes'
  BY <1>1 DEF TourInv, NetTypes
<1>. QED  BY <1>1, <1>6, <1>7, <1>8, OtherThreadInv

LEMMA SendPingRequestInv ==
    ASSUME TourInv, NEW n \in Nodes, send_ping_request(n)
    PROVE  TourInv'
<1>1. /\ ping[n] = "send" /\ k' = [k EXCEPT ![n] = @ + 1]
      /\ ping' = [ping EXCEPT ![n] = IF k[n] + 1 < pass[n] THEN "areq" ELSE "top"]
      /\ UNCHANGED <<main, index, adding, ips, next_ip, keep_pinging, pass, next_ping, rtq, mcq,
                     ended>>
  BY DEF send_ping_request, mainVars, listVars, netVars
<1>2. PingTypes /\ Pings /\ next_ip[n] \in Nat
  BY RouteFacts DEF TourInv, MainTypes
<1>3. k[n] \in Nat /\ pass[n] \in 0..total_size /\ next_ping[n] \in Nat /\ PingInv(n)
  BY <1>2, RouteFacts DEF PingTypes, Pings
<1>4. /\ \A m \in Nodes : m # n => k'[m] = k[m] /\ ping'[m] = ping[m]
      /\ k'[n] = k[n] + 1 /\ ping'[n] = IF k[n] + 1 < pass[n] THEN "areq" ELSE "top"
  BY <1>1, <1>2 DEF PingTypes
<1>5. PingInv(n)'
  BY <1>1, <1>3, <1>4 DEF PingInv
<1>6. PingTypes'
  <2>1. k[n] < pass[n]
    BY <1>1, <1>3 DEF PingInv
  <2>2. k[n] + 1 \in 0..total_size
    <3>1. k[n] \in Nat /\ pass[n] \in Nat /\ pass[n] <= total_size /\ total_size \in Nat
      BY <1>3, RouteFacts
    <3>. QED  BY <2>1, <3>1
  <2>. QED  BY <1>1, <1>2, <2>2 DEF PingTypes
<1>7. Pings'
  BY <1>1, <1>2, <1>4, <1>5 DEF Pings, PingInv
<1>8. NetTypes'
  BY <1>1 DEF TourInv, NetTypes
<1>. QED  BY <1>1, <1>6, <1>7, <1>8, OtherThreadInv

---------------------------------------------------------------------------
(* Theorems. *)

(* The inductive invariant: where the route is, how far the lists are, and how *)
(* far send_ping is behind them.                                               *)
THEOREM TourInvariant == Spec => []TourInv
<1>1. Init => TourInv
  BY InitInv
<1>2. TourInv /\ [Next]_vars => TourInv'
  <2>1. SUFFICES ASSUME TourInv, [Next]_vars PROVE TourInv'
    OBVIOUS
  <2>2. CASE \E n \in Nodes : Main(n)
    BY <2>1, <2>2, PopulateRouteInv, ReceiveRouteInv, PassOnInv, SendMulticastInv,
       ReceiveMulticastInv DEF Main
  <2>3. CASE \E n \in Nodes : Pinger(n)
    BY <2>1, <2>3, StartPassInv, AnnounceInv, CrashInv, SendPingRequestInv DEF Pinger
  <2>4. CASE \E n \in Nodes : LoseRoute(n) \/ LoseMulticast(n)
    BY <2>1, <2>4, LoseRouteInv, LoseMulticastInv
  <2>5. CASE UNCHANGED vars
    <3>1. UNCHANGED <<main, index, adding, ips, next_ip, rtq, ended, keep_pinging, ping, pass,
                      k, next_ping, mcq>>
      BY <2>5 DEF vars, mainVars, listVars, pingVars, netVars
    <3>2. PingTypes' /\ NetTypes' /\ Pings'
      BY <2>1, <3>1, PingsStay DEF TourInv, PingTypes, NetTypes
    <3>. QED  BY <2>1, <3>1, <3>2, OtherThreadInv
  <2>. QED  BY <2>1, <2>2, <2>3, <2>4, <2>5 DEF Next
<1>. QED  BY <1>1, <1>2, PTL DEF Spec

(* The list's length never passes the end of ips_to_ping's slots. *)
THEOREM TourTypeCorrect == Spec => []TypeOK
<1>1. TourInv => TypeOK
  <2>1. 0..(total_size - 1) \subseteq 0..total_size
    BY RouteFacts
  <2>. QED  BY <2>1 DEF TourInv, MainTypes, PingTypes, NetTypes, TypeOK
<1>. QED  BY <1>1, TourInvariant, PTL

(* One packet or one holder of the route, at the place the route says. *)
THEOREM OneRoute == Spec => []OneTraveller
<1>1. ASSUME TourInv PROVE OneTraveller
  <2>1. \A n \in Nodes : rtq[n] \in Loads
    BY <1>1 DEF TourInv, MainTypes
  <2>2. ASSUME NEW n \in Nodes, NEW i \in DOMAIN rtq[n]
        PROVE  i = 1 /\ rtq[n] # <<>>
    BY <2>1, <2>2 DEF Loads
  <2>3. \A m, n \in Nodes : \A i \in DOMAIN rtq[m], j \in DOMAIN rtq[n] : m = n /\ i = j
    BY <1>1, <2>2 DEF TourInv, OneInv, Busy
  <2>4. ASSUME NEW n \in Nodes, rtq[n] # <<>>
        PROVE  /\ ~ \E m \in Nodes : main[m] \in {"start", "received", "sleep"}
               /\ rtq[n][1].index \in 1..(total_size - 1)
               /\ Route[rtq[n][1].index + 1] = n /\ Route[rtq[n][1].index] = rtq[n][1].from
    <3>1. \A m \in Nodes : ~Holder(m)
      BY <1>1, <2>4, Zenon DEF TourInv, OneInv, Busy
    <3>2. rtq[n][1].index \in 1..(total_size - 1)
      BY <2>1, <2>4, OnePacket, PacketFields
    <3>3. Route[rtq[n][1].index + 1] = n /\ Route[rtq[n][1].index] = rtq[n][1].from
      BY <1>1, <2>4 DEF TourInv, PlaceInv, PacketPlaced
    <3>. QED  BY <3>1, <3>2, <3>3 DEF Holder
  <2>. QED  BY <2>3, <2>4 DEF OneTraveller
<1>. QED  BY <1>1, TourInvariant, PTL

(* No list names a node twice or a node the route did not come from. *)
THEOREM ListsOfPredecessors == Spec => []ListOfPredecessors
<1>1. TourInv => ListOfPredecessors
  BY DEF TourInv, Lists, ListInv, Written, ListOfPredecessors
<1>. QED  BY <1>1, TourInvariant, PTL

(* No slot is pinged before it is announced. *)
THEOREM AnnouncesFirst == Spec => []AnnouncedFirst
<1>1. TourInv => AnnouncedFirst
  BY Zenon DEF TourInv, Pings, PingInv, AnnouncedFirst
<1>. QED  BY <1>1, TourInvariant, PTL

(* The end is announced when every hop of the route has been made. *)
THEOREM TourEndsLast == Spec => []EndsLast
<1>1. TourInv => EndsLast
  BY DEF TourInv, PlaceInv, Upto, Covered, EndsLast
<1>. QED  BY <1>1, TourInvariant, PTL
---------------------------------------------------------------------------
(* The tour as TourWalk sees it. *)

(* No node was visited later than at stop i, and the node there was. *)
Reached(i) == index[Route[i]] = i /\ \A m \in Nodes : index[m] <= i

(* Who has the route knows the stop that was reached last. *)
WalkedTo(n) ==
    /\ rtq[n] # <<>> => Reached(rtq[n][1].index)
    /\ main[n] = "start" => \A m \in Nodes : index[m] = 0
    /\ main[n] = "received" => Reached(index[n])
    /\ main[n] = "sleep" => Reached(total_size)
WalkInv == \A n \in Nodes : WalkedTo(n)

WalkStep == [Walk!Next]_<<index, ended>>

LEMMA InitWalk == ASSUME Init PROVE WalkInv /\ Walk!Init
<1>1. \A n \in Nodes : rtq[n] = <<>> /\ index[n] = 0 /\ main[n] \in {"start", "select"}
  BY Zenon DEF Init
<1>2. WalkInv
  BY <1>1, Zenon DEF WalkInv, WalkedTo
<1>3. Walk!Init
  BY DEF Init, Walk!Init
<1>. QED  BY <1>2, <1>3

(* Steps that do not bring the route anywhere. *)
LEMMA WalkStays ==
    ASSUME WalkInv, index' = index,
           \A m \in Nodes : rtq'[m] = rtq[m] \/ rtq'[m] = <<>>,
           \A m \in Nodes : \/ main'[m] = main[m]
                            \/ main'[m] \in {"select", "done", "crashed"}
    PROVE  WalkInv'
<1>1. ASSUME NEW n \in Nodes PROVE WalkedTo(n)'
  <2>1. WalkedTo(n)
    BY DEF WalkInv
  <2>2. (rtq[n] # <<>> => Reached(rtq[n][1].index))'
    <3>1. CASE rtq'[n] = <<>>
      BY <3>1
    <3>2. CASE rtq'[n] = rtq[n]
      BY <2>1, <3>2 DEF WalkedTo, Reached
    <3>. QED  BY <3>1, <3>2
  <2>3. /\ main'[n] = "start" => \A m \in Nodes : index'[m] = 0
        /\ main'[n] = "received" => Reached(index[n])'
        /\ main'[n] = "sleep" => Reached(total_size)'
    <3>1. CASE main'[n] = main[n]
      BY <2>1, <3>1 DEF WalkedTo, Reached
    <3>2. CASE main'[n] \in {"select", "done", "crashed"}
      BY <3>2
    <3>. QED  BY <3>1, <3>2
  <2>. QED  BY <2>2, <2>3 DEF WalkedTo
<1>. QED  BY <1>1 DEF WalkInv

LEMMA PopulateRouteWalk ==
    ASSUME TourInv, WalkInv, NEW n \in Nodes, populate_route(n)
    PROVE  WalkInv' /\ WalkStep
<1>1. /\ main[n] = "start" /\ index' = [index EXCEPT ![n] = 1] /\ ended' = ended
      /\ rtq' = send_rt(n, 1, rtq) /\ main' = [main EXCEPT ![n] = "select"]
  BY DEF populate_route
<1>2. /\ index \in [Nodes -> 0..total_size] /\ rtq \in [Nodes -> Loads]
      /\ DOMAIN main = Nodes
  BY DEF TourInv, MainTypes
<1>3. (\A m \in Nodes : rtq[m] = <<>>) /\ \A m \in Nodes : Holder(m) => m = n
  BY <1>1 DEF TourInv, OneInv, Busy, Holder
<1>4. n = Route[1] /\ \A m \in Nodes : index[m] = 0
  BY <1>1 DEF TourInv, PlaceInv, HolderPlaced, Source, WalkInv, WalkedTo
<1>5. PICK d \in Nodes : /\ \A m \in Nodes : rtq'[m] # <<>> => m = d
                         /\ rtq'[d][1].index = 1
  <2>1. 1 \in 1..(total_size - 1)
    BY RouteFacts
  <2>. QED  BY <1>1, <1>2, <1>3, <2>1, RouteSent
<1>6. Reached(1)'
  <2>1. index'[n] = 1 /\ \A m \in Nodes : index'[m] \in {0, 1}
    BY <1>1, <1>2, <1>4
  <2>2. \A m \in Nodes : index'[m] <= 1
    BY <2>1
  <2>. QED  BY <1>4, <2>1, <2>2 DEF Reached
<1>7. \A m \in Nodes : main'[m] \notin {"start", "received", "sleep"}
  BY <1>1, <1>2, <1>3 DEF Holder
<1>8. WalkInv'
  BY <1>5, <1>6, <1>7 DEF WalkInv, WalkedTo
<1>9. Walk!Begin
  BY <1>1, <1>4 DEF Walk!Begin
<1>. QED  BY <1>8, <1>9 DEF WalkStep, Walk!Next

LEMMA ReceiveRouteWalk ==
    ASSUME TourInv, WalkInv, NEW n \in Nodes, ReceiveRoute(n)
    PROVE  WalkInv' /\ WalkStep
<1>1. /\ index \in [Nodes -> 0..total_size] /\ rtq \in [Nodes -> Loads]
      /\ DOMAIN main = Nodes /\ rtq[n] # <<>>
  BY DEF TourInv, MainTypes, ReceiveRoute
<1>2. Head(rtq[n]) = rtq[n][1] /\ Tail(rtq[n]) = <<>> /\ rtq[n][1] \in Packet
  BY <1>1, OnePacket
<1>3. PICK i \in 1..(total_size - 1) : i = rtq[n][1].index
  BY <1>2, PacketFields
<1>4. /\ index' = [index EXCEPT ![n] = i + 1] /\ ended' = ended
      /\ rtq' = [rtq EXCEPT ![n] = <<>>] /\ main' = [main EXCEPT ![n] = "received"]
  BY <1>2, <1>3, Zenon DEF ReceiveRoute, recv_rt
<1>5. Route[i + 1] = n /\ Reached(i)
  BY <1>1, <1>3, Zenon DEF TourInv, PlaceInv, PacketPlaced, WalkInv, WalkedTo
<1>6. /\ ~ended /\ \A m \in Nodes : m # n => rtq[m] = <<>> /\ ~Holder(m)
  BY <1>1 DEF TourInv, OneInv, Busy
<1>7. index'[n] = i + 1 /\ Reached(i + 1)'
  <2>1. index'[n] = i + 1 /\ \A m \in Nodes : m # n => index'[m] = index[m]
    BY <1>1, <1>4
  <2>2. \A m \in Nodes : index[m] <= i /\ index[m] \in 0..total_size
    BY <1>1, <1>5, Zenon DEF Reached
  <2>3. i \in Int
    BY <1>3
  <2>4. \A m \in Nodes : index'[m] <= i + 1
    <3>1. TAKE m \in Nodes
    <3>2. CASE m = n
      BY <2>1, <2>3, <3>2
    <3>3. CASE m # n
      BY <2>1, <2>2, <2>3, <3>3, RouteFacts
    <3>. QED  BY <3>2, <3>3
  <2>. QED  BY <1>5, <2>1, <2>4 DEF Reached
<1>8. \A m \in Nodes : /\ rtq'[m] = <<>>
                       /\ IF m = n THEN main'[m] = "received"
                                   ELSE main'[m] \notin {"start", "received", "sleep"}
  BY <1>1, <1>4, <1>6 DEF Holder
<1>9. WalkInv'
  BY <1>7, <1>8 DEF WalkInv, WalkedTo
<1>10. Walk!Go(i)
  BY <1>4, <1>5, <1>6 DEF Walk!Go, Walk!At, Reached
<1>. QED  BY <1>3, <1>9, <1>10 DEF WalkStep, Walk!Next, total_size

LEMMA PassOnWalk ==
    ASSUME TourInv, WalkInv, NEW n \in Nodes, PassOn(n)
    PROVE  WalkInv' /\ WalkStep
<1>1. main[n] = "received" /\ index' = index /\ ended' = ended
  BY DEF PassOn
<1>2. rtq \in [Nodes -> Loads] /\ DOMAIN main = Nodes
  BY DEF TourInv, MainTypes
<1>3. PICK i \in 2..total_size : i = index[n] /\ Reached(i)
  BY <1>1 DEF TourInv, PlaceInv, HolderPlaced, WalkInv, WalkedTo
<1>4. (\A m \in Nodes : rtq[m] = <<>>) /\ \A m \in Nodes : m # n => ~Holder(m)
  BY <1>1 DEF TourInv, OneInv, Busy, Holder
<1>5. Reached(i)'
  BY <1>1, <1>3 DEF Reached
<1>6. CASE AtEnd(n)
  <2>1. main' = [main EXCEPT ![n] = "sleep"] /\ rtq' = rtq
    BY <1>6 DEF PassOn
  <2>2. i = total_size
    BY <1>3, <1>6, RouteFacts DEF AtEnd
  <2>3. \A m \in Nodes : /\ rtq'[m] = <<>>
                         /\ IF m = n THEN main'[m] = "sleep"
                                     ELSE main'[m] \notin {"start", "received", "sleep"}
    BY <1>2, <1>4, <2>1 DEF Holder
  <2>4. WalkInv'
    BY <1>5, <2>2, <2>3 DEF WalkInv, WalkedTo
  <2>. QED  BY <1>1, <2>4 DEF WalkStep
<1>7. CASE ~AtEnd(n)
  <2>1. main' = [main EXCEPT ![n] = "select"] /\ rtq' = send_rt(n, i, rtq)
    BY <1>3, <1>7 DEF PassOn
  <2>2. i \in 1..(total_size - 1)
    BY <1>3, <1>7, RouteFacts DEF AtEnd
  <2>3. PICK d \in Nodes : /\ \A m \in Nodes : rtq'[m] # <<>> => m = d
                           /\ rtq'[d][1].index = i
    BY <1>2, <1>4, <2>1, <2>2, RouteSent
  <2>4. \A m \in Nodes : main'[m] \notin {"start", "received", "sleep"}
    BY <1>2, <1>4, <2>1 DEF Holder
  <2>5. WalkInv'
    BY <1>5, <2>3, <2>4 DEF WalkInv, WalkedTo
  <2>. QED  BY <1>1, <2>5 DEF WalkStep
<1>. QED  BY <1>6, <1>7

LEMMA SendMulticastWalk ==
    ASSUME TourInv, WalkInv, NEW n \in Nodes, send_multicast(n)
    PROVE  WalkInv' /\ WalkStep
<1>1. /\ main[n] = "sleep" /\ main' = [main EXCEPT ![n] = "select"] /\ ended' = TRUE
      /\ UNCHANGED <<index, rtq>>
  BY DEF send_multicast
<1>2. DOMAIN main = Nodes /\ ~ended
  BY <1>1 DEF TourInv, MainTypes, OneInv, Busy, Holder
<1>3. Reached(total_size)
  BY <1>1 DEF WalkInv, WalkedTo
<1>4. WalkInv'
  BY <1>1, <1>2, WalkStays
<1>5. Walk!Tell
  BY <1>1, <1>2, <1>3 DEF Walk!Tell, Walk!At, Reached, total_size
<1>. QED  BY <1>4, <1>5 DEF WalkStep, Walk!Next

(* The other steps do not show in the walk. *)
LEMMA OtherWalk ==
    ASSUME TourInv, WalkInv, NEW n \in Nodes,
           ReceiveMulticast(n) \/ Pinger(n) \/ LoseRoute(n) \/ LoseMulticast(n)
    PROVE  WalkInv' /\ WalkStep
<1>1. rtq \in [Nodes -> Loads] /\ DOMAIN main = Nodes
  BY DEF TourInv, MainTypes
<1>2. rtq[n] # <<>> => Tail(rtq[n]) = <<>>
  BY <1>1, OnePacket
<1>3. UNCHANGED <<index, ended>>
  BY DEF ReceiveMulticast, Pinger, StartPass, Announce, Crash, send_ping_request,
         LoseRoute, LoseMulticast, mainVars, netVars
<1>4. \/ rtq' = rtq
      \/ rtq' = [rtq EXCEPT ![n] = <<>>]
      \/ rtq[n] # <<>> /\ rtq' = [rtq EXCEPT ![n] = Tail(@)]
  BY DEF ReceiveMulticast, Pinger, StartPass, Announce, Crash, send_ping_request,
         LoseRoute, LoseMulticast, mainVars, netVars
<1>5. main' = main \/ main' = [main EXCEPT ![n] = "done"]
      \/ main' = [main EXCEPT ![n] = "crashed"]
  BY DEF ReceiveMulticast, Pinger, StartPass, Announce, Crash, send_ping_request,
         LoseRoute, LoseMulticast, mainVars, netVars
<1>6. \A m \in Nodes : rtq'[m] = rtq[m] \/ rtq'[m] = <<>>
  BY <1>1, <1>2, <1>4, Zenon
<1>7. \A m \in Nodes : main'[m] = main[m] \/ main'[m] \in {"select", "done", "crashed"}
  BY <1>1, <1>5, Zenon
<1>. QED  BY <1>3, <1>6, <1>7, WalkStays DEF WalkStep

LEMMA NextWalk ==
    ASSUME TourInv, WalkInv, [Next]_vars
    PROVE  WalkInv' /\ WalkStep
<1>1. CASE UNCHANGED vars
  <2>1. UNCHANGED <<main, index, rtq, ended>>
    BY <1>1 DEF vars, mainVars, netVars
  <2>. QED  BY <2>1, WalkStays DEF WalkStep
<1>2. ASSUME NEW n \in Nodes, Main(n) PROVE WalkInv' /\ WalkStep
  BY <1>2, PopulateRouteWalk, ReceiveRouteWalk, PassOnWalk, SendMulticastWalk, OtherWalk
     DEF Main
<1>3. ASSUME NEW n \in Nodes, Pinger(n) \/ LoseRoute(n) \/ LoseMulticast(n)
      PROVE  WalkInv' /\ WalkStep
  BY <1>3, OtherWalk
<1>. QED  BY <1>1, <1>2, <1>3 DEF Next

(* The processes implement the walk: the route is followed stop by stop, and *)
(* the end is announced once, at the last stop.                              *)
THEOREM TourImplementsWalk == Spec => ImplementsWalk
<1>1. Init => WalkInv /\ Walk!Init
  BY InitWalk
<1>2. TourInv /\ WalkInv /\ [Next]_vars => WalkInv' /\ [Walk!Next]_(Walk!vars)
  <2>1. WalkStep => [Walk!Next]_(Walk!vars)
    BY DEF WalkStep, Walk!vars
  <2>. QED  BY <2>1, NextWalk
<1>. QED  BY <1>1, <1>2, TourInvariant, PTL DEF Spec, ImplementsWalk, Walk!Spec
=============================================================================
