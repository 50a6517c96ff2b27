-------------------------------- MODULE Arp --------------------------------
(***************************************************************************)
(* The address resolution of hw4: on every node a daemon (arp.c) with a     *)
(* cache, a packet socket and a local stream socket, and a caller of areq   *)
(* (common.c), the ping thread of tour.  A node stands for its IP and for   *)
(* its hardware address.                                                    *)
(***************************************************************************)
EXTENDS Integers, FiniteSets, Sequences

CONSTANTS
    Nodes,
    Absent,        \* IPs somebody may ask for and nobody has
    NoMac,         \* the zeroed hardware address of an incomplete entry
    NumEntries,    \* NUM_CACHE_ENTRIES
    MaxCalls,      \* calls of areq per node, and so descriptors in use
    MaxLost        \* frames the network may lose

VARIABLES
    daemon,        \* "up", or "undefined" once it wrote past arp_cache
    cache,         \* the filled prefix of arp_cache
    frames,        \* frames on their way to a node
    conn,          \* what the caller behind an open descriptor asked for
    backlog,       \* connections not yet accepted, with the IP written to them
    call,          \* the caller of areq
    calls, lost    \* counters for the bounds

arpVars == <<daemon, cache, frames, conn>>
vars == <<arpVars, backlog, call, calls, lost>>

ASSUME ArpAssumption ==
    /\ NoMac \notin Nodes /\ "closed" \notin Nodes \union Absent
    /\ Nodes \intersect Absent = {}
    /\ IsFiniteSet(Nodes) /\ IsFiniteSet(Absent)
    /\ NumEntries \in Nat /\ MaxCalls \in Nat /\ MaxLost \in Nat

Ips == Nodes \union Absent
NoFd == 0
Fds == 1..MaxCalls
Closed == "closed"

Entry == [ip : Ips, mac : Nodes \union {NoMac}, fd : Fds \union {NoFd}]
Frame == [op : {"request", "reply"}, sender_ip : Nodes, sender_eth : Nodes,
          target_ip : Ips]

Idle == [pc |-> "idle"]
CallState ==
    {Idle} \union [pc : {"connecting"}, ip : Ips]
    \union [pc : {"waiting"}, ip : Ips, fd : Fds]
    \union [pc : {"answered"}, ip : Ips, mac : Nodes \union {NoMac}]

(* boot_cache enters the node itself. *)
Init ==
    /\ daemon = [n \in Nodes |-> "up"]
    /\ cache = [n \in Nodes |-> <<[ip |-> n, mac |-> n, fd |-> NoFd]>>]
    /\ frames = [n \in Nodes |-> <<>>]
    /\ conn = [n \in Nodes |-> [f \in Fds |-> Closed]]
    /\ backlog = [n \in Nodes |-> <<>>]
    /\ call = [n \in Nodes |-> Idle]
    /\ calls = [n \in Nodes |-> 0] /\ lost = 0

---------------------------------------------------------------------------
(* The cache. *)

Known(c, ip) == \E i \in DOMAIN c : c[i].ip = ip

(* Mutant: the search stops one entry early. *)
EarlierEntry(c, ip) ==
    LET i == CHOOSE i \in DOMAIN c :
                c[i].ip = ip /\ \A j \in 1..(i - 1) : c[j].ip # ip
    IN  IF i = 1 THEN 1 ELSE i - 1

(* The first entry for ip. *)
EntryOf(c, ip) ==
    CHOOSE i \in DOMAIN c : c[i].ip = ip /\ \A j \in 1..(i - 1) : c[j].ip # ip

(* Mutant: the entries are not compared with the new one. *)
append_to_cache(n, ip, mac, fd) ==
    /\ cache' = [cache EXCEPT ![n] = Append(@, [ip |-> ip, mac |-> mac, fd |-> fd])]
    /\ daemon' = IF Len(cache[n]) = NumEntries
                 THEN [daemon EXCEPT ![n] = "undefined"] ELSE daemon

(* The entry for ip is overwritten, its waiting descriptor included; a new    *)
(* entry goes behind the last one, also behind the end of the array.         *)
insert_into_cache(n, ip, mac, fd) ==
    LET e == [ip |-> ip, mac |-> mac, fd |-> fd]
    IN  IF Known(cache[n], ip)
        THEN /\ cache' = [cache EXCEPT ![n][EntryOf(cache[n], ip)] = e]
             /\ UNCHANGED daemon
        ELSE /\ cache' = [cache EXCEPT ![n] = Append(@, e)]
             /\ daemon' = IF Len(cache[n]) = NumEntries
                          THEN [daemon EXCEPT ![n] = "undefined"] ELSE daemon

(* Mutant: the address of the reply is not stored. *)
NotCompleted(c, ip, mac) == c

(* update_response_in_cache: only an entry that exists is completed. *)
Completed(c, ip, mac) ==
    IF Known(c, ip) THEN [c EXCEPT ![EntryOf(c, ip)].mac = mac] ELSE c

---------------------------------------------------------------------------
(* Frames. *)

(* Mutant: the sender's hardware address is not filled in. *)
AnonymousRequest(n, ip) ==
    [op |-> "request", sender_ip |-> n, sender_eth |-> NoMac, target_ip |-> ip]

Request(n, ip) ==
    [op |-> "request", sender_ip |-> n, sender_eth |-> n, target_ip |-> ip]

(* Mutant: the two IPs of the request are not swapped. *)
EchoOf(n, f) == [f EXCEPT !.op = "reply", !.sender_eth = n]

ReplyTo(n, f) ==
    [op |-> "reply", sender_ip |-> f.target_ip, sender_eth |-> n,
     target_ip |-> f.sender_ip]

Broadcast(n, f) == [m \in Nodes |-> IF m = n THEN frames[m] ELSE Append(frames[m], f)]

---------------------------------------------------------------------------
(* send_reply for the entry at i of cache c: the descriptor waiting in the    *)
(* entry is closed and forgotten.  Its write is seen by a caller that still   *)
(* waits on the descriptor written to, and by nobody if that is descriptor 0. *)

(* Mutant: the entry keeps the number of the descriptor it closed. *)
KeepWaiter(c, i) == c

(* Mutant: the whole entry is cleared. *)
ForgetEntry(c, i) == [c EXCEPT ![i].fd = NoFd, ![i].mac = NoMac]

ForgetWaiter(c, i) == [c EXCEPT ![i].fd = NoFd]

CloseWaiter(open, fd) == IF fd = NoFd THEN open ELSE [open EXCEPT ![fd] = Closed]

send_reply(n, c, i, open) ==
    /\ cache' = [cache EXCEPT ![n] = ForgetWaiter(c, i)]
    /\ conn' = [conn EXCEPT ![n] = CloseWaiter(open, c[i].fd)]

Answered(n, fd, mac) ==
    IF call[n].pc = "waiting" /\ call[n].fd = fd
    THEN [pc |-> "answered", ip |-> call[n].ip, mac |-> mac]
    ELSE call[n]

(* The daemon's main loop: a frame. *)

Take(n) == [frames EXCEPT ![n] = Tail(@)]

handle_response(n, f) ==
    LET c == Completed(cache[n], f.sender_ip, f.sender_eth)
        i == EntryOf(c, f.sender_ip)
    IN  /\ f.op = "reply"
        /\ frames' = Take(n)
        /\ IF Known(c, f.sender_ip)
           THEN /\ send_reply(n, c, i, conn[n])
                /\ call' = [call EXCEPT ![n] = Answered(n, c[i].fd, c[i].mac)]
           ELSE UNCHANGED <<cache, conn, call>>
        /\ UNCHANGED daemon

handle_request(n, f) ==
    /\ f.op = "request"
    /\ IF f.target_ip = n
       THEN /\ insert_into_cache(n, f.sender_ip, f.sender_eth, NoFd)
            /\ frames' = [Take(n) EXCEPT ![f.sender_eth] = Append(@, ReplyTo(n, f))]
       ELSE /\ cache' = [cache EXCEPT ![n] = Completed(@, f.sender_ip, f.sender_eth)]
            /\ frames' = Take(n)
            /\ UNCHANGED daemon
    /\ UNCHANGED <<conn, call>>

process_frame(n) ==
    /\ daemon[n] = "up" /\ frames[n] # <<>>
    /\ LET f == Head(frames[n]) IN handle_request(n, f) \/ handle_response(n, f)
    /\ UNCHANGED <<backlog, calls, lost>>

(* The daemon's main loop: a connection.  accept takes the lowest descriptor; *)
(* the one served from the cache stays open.  With at most MaxCalls calls a   *)
(* descriptor is always free.                                                *)
Lowest(open) == CHOOSE f \in Fds : open[f] = Closed /\ \A g \in 1..(f - 1) : open[g] # Closed

Accept(n) ==
    LET ip == Head(backlog[n])
        fd == Lowest(conn[n])
        open == [conn[n] EXCEPT ![fd] = ip]
        live == call[n].pc = "connecting" /\ Len(backlog[n]) = 1
        i == EntryOf(cache[n], ip)
    IN  /\ daemon[n] = "up" /\ backlog[n] # <<>>
        /\ \E f \in Fds : conn[n][f] = Closed
        /\ backlog' = [backlog EXCEPT ![n] = Tail(@)]
        /\ IF Known(cache[n], ip)
           THEN /\ send_reply(n, cache[n], i, open)
                /\ call' = IF live
                           THEN [call EXCEPT ![n] = [pc |-> "answered", ip |-> @.ip,
                                                     mac |-> cache[n][i].mac]]
                           ELSE call
                /\ UNCHANGED <<daemon, frames>>
           ELSE /\ insert_into_cache(n, ip, NoMac, fd)
                /\ frames' = Broadcast(n, Request(n, ip))
                /\ conn' = [conn EXCEPT ![n] = open]
                /\ call' = IF live
                           THEN [call EXCEPT ![n] = [pc |-> "waiting", ip |-> @.ip, fd |-> fd]]
                           ELSE call
        /\ UNCHANGED <<calls, lost>>

---------------------------------------------------------------------------
(* areq: connect, write the IP, wait for a second, return.  The descriptor of *)
(* a call that timed out is never closed by the caller.                      *)
Areq(n, ip) ==
    /\ call[n].pc = "idle" /\ calls[n] < MaxCalls
    /\ calls' = [calls EXCEPT ![n] = @ + 1]
    /\ backlog' = [backlog EXCEPT ![n] = Append(@, ip)]
    /\ call' = [call EXCEPT ![n] = [pc |-> "connecting", ip |-> ip]]
    /\ UNCHANGED <<arpVars, lost>>

AreqTimeout(n) ==
    /\ call[n].pc \in {"connecting", "waiting"}
    /\ call' = [call EXCEPT ![n] = Idle]
    /\ UNCHANGED <<arpVars, backlog, calls, lost>>

AreqReturn(n) ==
    /\ call[n].pc = "answered"
    /\ call' = [call EXCEPT ![n] = Idle]
    /\ UNCHANGED <<arpVars, backlog, calls, lost>>

LoseFrame(n) ==
    /\ frames[n] # <<>> /\ lost < MaxLost
    /\ frames' = Take(n) /\ lost' = lost + 1
    /\ UNCHANGED <<daemon, cache, conn, backlog, call, calls>>

Daemon(n) == process_frame(n) \/ Accept(n)

Next ==
    \E n \in Nodes :
        \/ Daemon(n) \/ AreqTimeout(n) \/ AreqReturn(n) \/ LoseFrame(n)
        \/ \E ip \in Ips : Areq(n, ip)

Spec == Init /\ [][Next]_vars

(* A daemon with something to read reads it. *)
FairSpec == Spec /\ \A n \in Nodes : WF_vars(Daemon(n))

---------------------------------------------------------------------------
(* Properties. *)

(* The states of the daemons and the callers are what arp.h and areq declare. *)
TypeOK ==
    /\ daemon \in [Nodes -> {"up", "undefined"}]
    /\ cache \in [Nodes -> Seq(Entry)]
    /\ frames \in [Nodes -> Seq(Frame)]
    /\ conn \in [Nodes -> [Fds -> Ips \union {Closed}]]
    /\ backlog \in [Nodes -> Seq(Ips)]
    /\ call \in [Nodes -> CallState]

(* A hardware address in any cache is still unknown or the right one,         *)
(* whatever requests, replies and overheard broadcasts cross.                *)
CacheSound ==
    \A n \in Nodes : \A i \in DOMAIN cache[n] :
        cache[n][i].mac \in {NoMac, cache[n][i].ip}

(* insert_into_cache never writes behind arp_cache as long as there are no    *)
(* more IPs than entries: no IP ever takes two entries.                      *)
NeverOverruns ==
    Cardinality(Ips) <= NumEntries =>
        \A n \in Nodes : daemon[n] = "up" /\ Len(cache[n]) <= NumEntries

(* The descriptor an entry holds for its waiting caller is open, and the      *)
(* caller behind it asked for the IP of that entry: descriptors are closed,   *)
(* leaked and reused without a reply reaching the wrong caller.              *)
WaiterAsked ==
    \A n \in Nodes : \A i \in DOMAIN cache[n] :
        cache[n][i].fd # NoFd => conn[n][cache[n][i].fd] = cache[n][i].ip

(* areq never returns another node's hardware address. *)
AnswersMatch ==
    \A n \in Nodes : call[n].pc = "answered" => call[n].mac \in {NoMac, call[n].ip}

Learned(c, ip) == \E i \in DOMAIN c : c[i].ip = ip /\ c[i].mac = ip

(* What a daemon has learned it knows for good, whatever requests, replies and *)
(* overheard broadcasts overwrite the entry, and every areq that is answered   *)
(* from then on is answered with it and never with zeros.                      *)
LearnedForGood ==
    [][\A n, ip \in Nodes : Learned(cache[n], ip) =>
          /\ Learned(cache'[n], ip)
          /\ call'[n] # call[n] /\ call'[n].pc = "answered" /\ call'[n].ip = ip =>
                call'[n].mac = ip]_vars

IncompleteFor(n, ip) ==
    \E i \in DOMAIN cache[n] : cache[n][i].ip = ip /\ cache[n][i].mac = NoMac

(* An incomplete entry for a node that exists is completed if no frame is    *)
(* lost, also when its waiting caller has given up or been overwritten.      *)
Resolves ==
    \A n, ip \in Nodes : IncompleteFor(n, ip) ~> (lost > 0 \/ ~IncompleteFor(n, ip))

(* areq only returns the zeroed address of an incomplete entry when the same  *)
(* node has asked before: the first question is answered by a reply or not at *)
(* all, and send_reply serves an incomplete entry only to a later one.       *)
ZeroOnlyRepeated ==
    \A n \in Nodes : call[n].pc = "answered" /\ call[n].mac = NoMac => calls[n] > 1

(* arp.c:18 calls it wrong that an entry is overwritten while a descriptor   *)
(* waits in it: a caller that waits can be found through its entry.          *)
WaiterRecorded ==
    \A n \in Nodes : call[n].pc = "waiting" =>
        \E i \in DOMAIN cache[n] :
            cache[n][i].ip = call[n].ip /\ cache[n][i].fd = call[n].fd

---------------------------------------------------------------------------
(* The inductive invariant of the safety properties. *)

NoTwins(c) == \A i, j \in DOMAIN c : c[i].ip = c[j].ip => i = j

(* What a daemon knows: every frame carries its sender's own address, no IP  *)
(* has two entries, and only an overlong cache has made behaviour undefined. *)
DaemonInv ==
    /\ CacheSound /\ WaiterAsked
    /\ \A n \in Nodes :
          /\ \A k \in DOMAIN frames[n] :
                frames[n][k].sender_eth = frames[n][k].sender_ip
          /\ NoTwins(cache[n])
          /\ daemon[n] = "undefined" => Len(cache[n]) > NumEntries

(* What a caller of areq relies on: its connection is the last of the        *)
(* backlog, then an open descriptor that asked for its IP.                   *)
CallInv ==
    /\ AnswersMatch
    /\ \A n \in Nodes :
          /\ call[n].pc = "connecting" =>
                /\ backlog[n] # <<>>
                /\ backlog[n][Len(backlog[n])] = call[n].ip
          /\ call[n].pc = "waiting" =>
                /\ backlog[n] = <<>>
                /\ conn[n][call[n].fd] = call[n].ip

ArpInv == TypeOK /\ DaemonInv /\ CallInv

Incomplete(c) == \E i \in DOMAIN c : c[i].mac = NoMac

(* What makes a zeroed answer one of a repeated question: only calls fill the *)
(* backlog and start incomplete entries, and a caller that is connecting and  *)
(* finds either of another call is not the first.                            *)
RepeatOK(n) ==
    /\ calls[n] \in Nat
    /\ call[n].pc # "idle" \/ backlog[n] # <<>> \/ Incomplete(cache[n]) => calls[n] > 0
    /\ call[n].pc = "connecting" /\ (Len(backlog[n]) > 1 \/ Incomplete(cache[n])) =>
          calls[n] > 1
    /\ call[n].pc = "answered" /\ call[n].mac = NoMac => calls[n] > 1

RepeatInv == calls = [n \in Nodes |-> calls[n]] /\ \A n \in Nodes : RepeatOK(n)
=============================================================================
