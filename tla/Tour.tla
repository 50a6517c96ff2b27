-------------------------------- MODULE Tour --------------------------------
(***************************************************************************)
(* The tour of hw4 (tour.c).  On every node of the group a process with two *)
(* threads: main passes the route on from node to node and waits for the    *)
(* multicast that ends the tour, and send_ping pings the nodes the route    *)
(* came from.  The threads share the list ips_to_ping and its length; only  *)
(* send_ping's read of the length takes the lock.                           *)
(*                                                                          *)
(* areq is a call that takes time; Arp.tla says what it answers.  Echo      *)
(* replies are only printed and are left out.                               *)
(***************************************************************************)
EXTENDS Integers, Sequences

CONSTANTS
    Nodes,
    Route,         \* route_el.ip_addr: the source and then its arguments
    Unwritten,     \* what malloc left in a slot of ips_to_ping
    MaxLost        \* datagrams the network may lose

VARIABLES
    main,          \* control of the main thread
    index,         \* route_el.index of a node
    adding,        \* the address add_ip_to_ping is writing, if any
    ips,           \* ips_to_ping
    next_ip,       \* next_ip_index: the slots in use
    keep_pinging,
    ping,          \* control of send_ping
    pass, k,       \* its locals idx and k
    next_ping,     \* next_ip_to_ping_index: the slots announced
    pinged,        \* addresses pinged
    rtq,           \* route packets on the way to a node
    mcq,           \* whether the multicast is on the way to a node
    ended,         \* the multicast was sent
    lost           \* counter for the bound

mainVars == <<main, index, adding>>
listVars == <<ips, next_ip>>
pingVars == <<ping, pass, k, next_ping, pinged>>
netVars == <<rtq, mcq, ended, lost>>
vars == <<mainVars, listVars, keep_pinging, pingVars, netVars>>

total_size == Len(Route)
Source == Route[1]

ASSUME TourAssumption ==
    /\ Unwritten \notin Nodes
    /\ Route \in Seq(Nodes) /\ Len(Route) > 1
    /\ MaxLost \in Nat

Slots == 0..(total_size - 1)
Nobody == Unwritten

(* Every process has joined the multicast group and waits in select, except   *)
(* that of the source, which is about to read its arguments.                 *)
Init ==
    /\ main = [n \in Nodes |-> IF n = Source THEN "start" ELSE "select"]
    /\ index = [n \in Nodes |-> 0]
    /\ adding = [n \in Nodes |-> Nobody]
    /\ ips = [n \in Nodes |-> [s \in Slots |-> Unwritten]]
    /\ next_ip = [n \in Nodes |-> 0]
    /\ keep_pinging = [n \in Nodes |-> TRUE]
    /\ ping = [n \in Nodes |-> "top"]
    /\ pass = [n \in Nodes |-> 0] /\ k = [n \in Nodes |-> 0]
    /\ next_ping = [n \in Nodes |-> 0]
    /\ pinged = [n \in Nodes |-> {}]
    /\ rtq = [n \in Nodes |-> <<>>]
    /\ mcq = [n \in Nodes |-> FALSE]
    /\ ended = FALSE /\ lost = 0

---------------------------------------------------------------------------
(* The main thread. *)

(* Mutant: the place on the route is counted up by the sender as well. *)
CountedTwice(n, i, q) ==
    [q EXCEPT ![Route[i + 1]] = Append(@, [index |-> i + 1, from |-> n])]

(* The packet goes to the node at route_el.index, counted from 0. *)
send_rt(n, i, q) ==
    [q EXCEPT ![Route[i + 1]] = Append(@, [index |-> i, from |-> n])]

populate_route(n) ==
    /\ main[n] = "start"
    /\ index' = [index EXCEPT ![n] = 1]
    /\ rtq' = send_rt(n, 1, rtq)
    /\ main' = [main EXCEPT ![n] = "select"]
    /\ UNCHANGED <<adding, listVars, keep_pinging, pingVars, mcq, ended, lost>>

(* Mutant: the list is not searched. *)
AddsAlways(n, ip) == TRUE

(* add_ip_to_ping: the node's own address is only noticed when the list is not *)
(* empty.                                                                      *)
Adds(n, ip) ==
    ~ \E j \in 0..(next_ip[n] - 1) : ips[n][j] = ip \/ ip = n

recv_rt(p) == p.index + 1

(* recv_rt, and add_ip_to_ping up to the strcpy: the length is counted up       *)
(* before the address is in the slot.                                           *)
ReceiveRoute(n) ==
    LET p == Head(rtq[n])
    IN  /\ main[n] = "select" /\ rtq[n] # <<>>
        /\ rtq' = [rtq EXCEPT ![n] = Tail(@)]
        /\ index' = [index EXCEPT ![n] = recv_rt(p)]
        /\ IF Adds(n, p.from)
           THEN /\ next_ip' = [next_ip EXCEPT ![n] = @ + 1]
                /\ adding' = [adding EXCEPT ![n] = p.from]
           ELSE UNCHANGED <<next_ip, adding>>
        /\ main' = [main EXCEPT ![n] = "received"]
        /\ UNCHANGED <<ips, keep_pinging, pingVars, mcq, ended, lost>>

(* Mutant: the last node but one is taken for the last. *)
AtEndEarly(n) == index[n] + 1 >= total_size

AtEnd(n) == index[n] >= total_size

(* The strcpy, and the packet for the next node; the last node sleeps instead. *)
PassOn(n) ==
    /\ main[n] = "received"
    /\ ips' = IF adding[n] # Nobody
              THEN [ips EXCEPT ![n][next_ip[n] - 1] = adding[n]] ELSE ips
    /\ adding' = [adding EXCEPT ![n] = Nobody]
    /\ IF AtEnd(n)
       THEN /\ main' = [main EXCEPT ![n] = "sleep"]
            /\ UNCHANGED rtq
       ELSE /\ main' = [main EXCEPT ![n] = "select"]
            /\ rtq' = send_rt(n, index[n], rtq)
    /\ UNCHANGED <<index, next_ip, keep_pinging, pingVars, mcq, ended, lost>>

(* After three seconds the group, this node included, is told of the end. *)
send_multicast(n) ==
    /\ main[n] = "sleep"
    /\ mcq' = [m \in Nodes |-> main[m] # "crashed"]
    /\ ended' = TRUE
    /\ main' = [main EXCEPT ![n] = "select"]
    /\ UNCHANGED <<index, adding, listVars, keep_pinging, pingVars, rtq, lost>>

(* Mutant: the flag the other thread looks at is not cleared. *)
LeavePinging(n) ==
    /\ main[n] = "select" /\ mcq[n]
    /\ mcq' = [mcq EXCEPT ![n] = FALSE]
    /\ main' = [main EXCEPT ![n] = "done"]
    /\ UNCHANGED <<index, adding, listVars, keep_pinging, pingVars, rtq, ended, lost>>

(* The thread ends; the process lives on until send_ping ends too. *)
ReceiveMulticast(n) ==
    /\ main[n] = "select" /\ mcq[n]
    /\ mcq' = [mcq EXCEPT ![n] = FALSE]
    /\ keep_pinging' = [keep_pinging EXCEPT ![n] = FALSE]
    /\ main' = [main EXCEPT ![n] = "done"]
    /\ UNCHANGED <<index, adding, listVars, pingVars, rtq, ended, lost>>

---------------------------------------------------------------------------
(* The thread send_ping. *)

StartPass(n) ==
    /\ ping[n] = "top"
    /\ IF keep_pinging[n]
       THEN /\ pass' = [pass EXCEPT ![n] = next_ip[n]]
            /\ k' = [k EXCEPT ![n] = 0]
            /\ ping' = [ping EXCEPT ![n] = IF next_ip[n] = 0 THEN "top" ELSE "areq"]
       ELSE /\ ping' = [ping EXCEPT ![n] = "done"]
            /\ UNCHANGED <<pass, k>>
    /\ UNCHANGED <<mainVars, listVars, keep_pinging, next_ping, pinged, netVars>>

(* Mutant: the address that is announced is the one pinged next. *)
AnnounceLater(n) ==
    /\ ping[n] = "areq"
    /\ next_ping' = IF next_ping[n] < k[n]
                    THEN [next_ping EXCEPT ![n] = @ + 1] ELSE next_ping
    /\ ping' = [ping EXCEPT ![n] = "send"]
    /\ UNCHANGED <<mainVars, listVars, keep_pinging, pass, k, pinged, netVars>>

(* Mutant: an address is announced whenever one is pinged. *)
AnnounceAgain(n) ==
    /\ ping[n] = "areq"
    /\ next_ping' = [next_ping EXCEPT ![n] = @ + 1]
    /\ ping' = [ping EXCEPT ![n] = "send"]
    /\ UNCHANGED <<mainVars, listVars, keep_pinging, pass, k, pinged, netVars>>

(* The two calls of areq, whose results are not looked at, and the line PING   *)
(* for a slot not announced yet, which need not be the slot pinged now.        *)
Announce(n) ==
    /\ ping[n] = "areq"
    /\ next_ping' = IF next_ping[n] < next_ip[n]
                    THEN [next_ping EXCEPT ![n] = @ + 1] ELSE next_ping
    /\ ping' = [ping EXCEPT ![n] = "send"]
    /\ UNCHANGED <<mainVars, listVars, keep_pinging, pass, k, pinged, netVars>>

(* No host has the address in an unwritten slot, and the result of              *)
(* gethostbyaddr is not checked: the process ends.                              *)
Crash(n) ==
    /\ ping[n] = "areq" /\ next_ping[n] < next_ip[n]
    /\ ips[n][next_ping[n]] = Unwritten
    /\ ping' = [ping EXCEPT ![n] = "crashed"]
    /\ main' = [main EXCEPT ![n] = "crashed"]
    /\ mcq' = [mcq EXCEPT ![n] = FALSE]
    /\ rtq' = [rtq EXCEPT ![n] = <<>>]
    /\ UNCHANGED <<index, adding, listVars, keep_pinging, pass, k, next_ping, pinged,
                   ended, lost>>

send_ping_request(n) ==
    /\ ping[n] = "send"
    /\ pinged' = [pinged EXCEPT ![n] = @ \union {ips[n][k[n]]}]
    /\ k' = [k EXCEPT ![n] = @ + 1]
    /\ ping' = [ping EXCEPT ![n] = IF k[n] + 1 < pass[n] THEN "areq" ELSE "top"]
    /\ UNCHANGED <<mainVars, listVars, keep_pinging, pass, next_ping, netVars>>

---------------------------------------------------------------------------
(* The network. *)

LoseRoute(n) ==
    /\ rtq[n] # <<>> /\ lost < MaxLost
    /\ rtq' = [rtq EXCEPT ![n] = Tail(@)] /\ lost' = lost + 1
    /\ UNCHANGED <<mainVars, listVars, keep_pinging, pingVars, mcq, ended>>

LoseMulticast(n) ==
    /\ mcq[n] /\ lost < MaxLost
    /\ mcq' = [mcq EXCEPT ![n] = FALSE] /\ lost' = lost + 1
    /\ UNCHANGED <<mainVars, listVars, keep_pinging, pingVars, rtq, ended>>

Main(n) == \/ populate_route(n) \/ ReceiveRoute(n) \/ PassOn(n)
           \/ send_multicast(n) \/ ReceiveMulticast(n)
Pinger(n) == StartPass(n) \/ Announce(n) \/ Crash(n) \/ send_ping_request(n)

Next == \E n \in Nodes : Main(n) \/ Pinger(n) \/ LoseRoute(n) \/ LoseMulticast(n)

Spec == Init /\ [][Next]_vars

(* Threads of a process are scheduled fairly; select and sleep return. *)
FairSpec == Spec /\ \A n \in Nodes : WF_vars(Main(n)) /\ WF_vars(Pinger(n))
---------------------------------------------------------------------------
(* Properties. *)

Predecessors(n) == {Route[i] : i \in {j \in 1..(total_size - 1) : Route[j + 1] = n}}
Listed(n) == {ips[n][s] : s \in 0..(next_ip[n] - 1)} \union {adding[n]}

(* Types of the state. *)
TypeOK ==
    /\ main \in [Nodes -> {"start", "select", "received", "sleep", "done", "crashed"}]
    /\ index \in [Nodes -> 0..total_size]
    /\ adding \in [Nodes -> Nodes \union {Nobody}]
    /\ ips \in [Nodes -> [Slots -> Nodes \union {Unwritten}]]
    /\ next_ip \in [Nodes -> 0..total_size]
    /\ keep_pinging \in [Nodes -> BOOLEAN]
    /\ ping \in [Nodes -> {"top", "areq", "send", "done", "crashed"}]
    /\ pass \in [Nodes -> 0..total_size] /\ k \in [Nodes -> 0..total_size]
    /\ next_ping \in [Nodes -> 0..total_size]
    /\ mcq \in [Nodes -> BOOLEAN] /\ ended \in BOOLEAN

(* There is one route packet or one node that has it, and the packet is where  *)
(* the route says: recv_rt and send_rt count the place on the route together.  *)
OneTraveller ==
    /\ \A m, n \in Nodes : \A i \in DOMAIN rtq[m], j \in DOMAIN rtq[n] :
          m = n /\ i = j
    /\ \A n \in Nodes : rtq[n] # <<>> =>
          /\ ~ \E m \in Nodes : main[m] \in {"start", "received", "sleep"}
          /\ rtq[n][1].index \in 1..(total_size - 1)
          /\ Route[rtq[n][1].index + 1] = n /\ Route[rtq[n][1].index] = rtq[n][1].from

(* The list of a node never names a node twice, and names only nodes that come *)
(* right before it on the route (Readme: "It sends ping to previous IP",       *)
(* "Duplicate pings are not sent"), once add_ip_to_ping is through.            *)
ListOfPredecessors ==
    \A n \in Nodes : adding[n] = Nobody =>
        /\ \A s \in 0..(next_ip[n] - 1) : ips[n][s] \in Predecessors(n)
        /\ \A s, r \in 0..(next_ip[n] - 1) : ips[n][s] = ips[n][r] => s = r

(* A slot is announced before its first ping (the comment in send_ping),       *)
(* although the slot announced in a round need not be the one pinged in it and *)
(* the list grows meanwhile.                                                   *)
AnnouncedFirst ==
    \A n \in Nodes : /\ next_ping[n] <= next_ip[n]
                      /\ ping[n] = "send" => k[n] < next_ping[n]

(* The end of the tour is only announced when every node of the route has been *)
(* reached and has the nodes before it on its list.                            *)
EndsLast ==
    ended => \A i \in 1..(total_size - 1) :
                Route[i] \in Listed(Route[i + 1]) \union {Route[i + 1]}

Walk == INSTANCE TourWalk WITH last <- index, told <- ended

(* The processes, each with a copy of the route and of its place in it,        *)
(* implement TourWalk: whatever is lost and whichever processes die, the route *)
(* is followed stop by stop, and the end is announced at the last one only.    *)
ImplementsWalk == Walk!Spec

(* When nothing is lost and no process dies, the tour ends everywhere: every   *)
(* node gets the multicast and its send_ping stops, in the middle of a list or *)
(* not.  A node that got it stops pinging even if others did not get it.       *)
Ends ==
    /\ <>(\/ lost > 0 \/ \E n \in Nodes : main[n] = "crashed"
          \/ \A n \in Nodes : main[n] = "done" /\ ping[n] = "done")
    /\ \A n \in Nodes : (main[n] = "done") ~> (ping[n] \in {"done", "crashed"})

(* Only nodes the route came from are pinged (Readme: "It sends ping to        *)
(* previous IP").  It need not be so: next_ip_index is counted up before the   *)
(* address is in its slot, and send_ping may use the slot in between.          *)
PingsPredecessors == \A n \in Nodes : pinged[n] \subseteq Predecessors(n)
=============================================================================
