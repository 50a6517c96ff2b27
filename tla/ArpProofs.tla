----------------------------- MODULE ArpProofs -----------------------------
(***************************************************************************)
(* Proofs about Arp for any number of nodes, absent IPs, cache entries,      *)
(* calls and lost frames.                                                   *)
(***************************************************************************)
EXTENDS Arp, TLAPS, SequenceTheorems, FiniteSetTheorems, WellFoundedInduction

(* What ArpInv says of one cache and one table of descriptors. *)
CacheOK(c, open) ==
    /\ c \in Seq(Entry) /\ NoTwins(c)
    /\ \A i \in DOMAIN c : c[i].mac \in {NoMac, c[i].ip}
    /\ \A i \in DOMAIN c : c[i].fd # NoFd => open[c[i].fd] = c[i].ip

(* An index holds an entry. *)
LEMMA EntryAt ==
    ASSUME NEW c \in Seq(Entry), NEW i \in DOMAIN c
    PROVE  /\ c[i] \in Entry /\ i \in 1..Len(c) /\ c[i].ip \in Ips
           /\ c[i].mac \in Nodes \union {NoMac} /\ c[i].fd \in Fds \union {NoFd}
<1>1. i \in 1..Len(c) /\ c[i] \in Entry
  OBVIOUS
<1>. QED  BY <1>1, Zenon DEF Entry

(* Without twins the search of the cache finds the entry of a known IP. *)
LEMMA EntryOfKnown ==
    ASSUME NEW c \in Seq(Entry), NoTwins(c), NEW ip, Known(c, ip)
    PROVE  EntryOf(c, ip) \in DOMAIN c /\ c[EntryOf(c, ip)].ip = ip
<1>1. PICK i \in DOMAIN c : c[i].ip = ip
  BY Zenon DEF Known
<1>2. i \in 1..Len(c)
  OBVIOUS
<1>3. \A j \in 1..(i - 1) : c[j].ip # ip
  BY <1>1, <1>2 DEF NoTwins
<1>. QED  BY <1>1, <1>3, Zenon DEF EntryOf

(* Overwriting the entry of an IP, or appending one for an unknown IP. *)
LEMMA InsertOK ==
    ASSUME NEW c, NEW open, CacheOK(c, open), NEW e \in Entry,
           e.mac \in {NoMac, e.ip}, e.fd # NoFd => open[e.fd] = e.ip
    PROVE  /\ Known(c, e.ip) => CacheOK([c EXCEPT ![EntryOf(c, e.ip)] = e], open)
           /\ ~Known(c, e.ip) => CacheOK(Append(c, e), open)
<1>1. c \in Seq(Entry) /\ NoTwins(c)
  BY Zenon DEF CacheOK
<1>2. ASSUME Known(c, e.ip) PROVE CacheOK([c EXCEPT ![EntryOf(c, e.ip)] = e], open)
  <2>. DEFINE k == EntryOf(c, e.ip)
              d == [c EXCEPT ![k] = e]
  <2>1. k \in DOMAIN c /\ c[k].ip = e.ip
    BY <1>1, <1>2, EntryOfKnown, Zenon
  <2>. HIDE DEF k
  <2>2. d \in Seq(Entry) /\ DOMAIN d = DOMAIN c
    BY <1>1, <2>1
  <2>3. \A i \in DOMAIN c : d[i] = IF i = k THEN e ELSE c[i]
    BY <1>1, Zenon
  <2>. HIDE DEF d
  <2>4. \A i \in DOMAIN c : d[i].ip = c[i].ip
    BY <2>1, <2>3, Zenon
  <2>5. NoTwins(d)
    BY <1>1, <2>2, <2>4, Zenon DEF NoTwins
  <2>6. CacheOK(d, open)
    BY <2>2, <2>3, <2>5, Zenon DEF CacheOK
  <2>. QED  BY <2>6, Zenon DEF d, k
<1>3. ASSUME ~Known(c, e.ip) PROVE CacheOK(Append(c, e), open)
  <2>. DEFINE d == Append(c, e)
  <2>1. d \in Seq(Entry) /\ DOMAIN d = 1..(Len(c) + 1) /\ DOMAIN c = 1..Len(c)
        /\ Len(c) \in Nat
    BY <1>1
  <2>2. \A i \in DOMAIN d : d[i] = IF i = Len(c) + 1 THEN e ELSE c[i]
    BY <1>1
  <2>3. \A i \in DOMAIN d : i # Len(c) + 1 => i \in DOMAIN c
    BY <2>1
  <2>. HIDE DEF d
  <2>4. NoTwins(d)
    <3>1. SUFFICES ASSUME NEW i \in DOMAIN d, NEW j \in DOMAIN d, d[i].ip = d[j].ip
                   PROVE  i = j
      BY Zenon DEF NoTwins
    <3>2. \A x \in DOMAIN c : c[x].ip # e.ip
      BY <1>3, Zenon DEF Known
    <3>. QED  BY <1>1, <2>2, <2>3, <3>1, <3>2, Zenon DEF NoTwins
  <2>5. CacheOK(d, open)
    BY <2>1, <2>2, <2>3, <2>4, Zenon DEF CacheOK
  <2>. QED  BY <2>5, Zenon DEF d
<1>. QED  BY <1>2, <1>3, Zenon

(* Completing an entry with the right hardware address. *)
LEMMA CompletedOK ==
    ASSUME NEW c, NEW open, CacheOK(c, open), NEW m \in Nodes
    PROVE  /\ CacheOK(Completed(c, m, m), open) /\ Len(Completed(c, m, m)) = Len(c)
           /\ Known(Completed(c, m, m), m) <=> Known(c, m)
<1>1. c \in Seq(Entry) /\ NoTwins(c)
  BY Zenon DEF CacheOK
<1>2. CASE ~Known(c, m)
  BY <1>2, Zenon DEF Completed
<1>3. CASE Known(c, m)
  <2>. DEFINE k == EntryOf(c, m)
              d == [c EXCEPT ![k].mac = m]
  <2>1. k \in DOMAIN c /\ c[k].ip = m
    BY <1>1, <1>3, EntryOfKnown, Zenon
  <2>2. c[k] \in Entry
    BY <1>1, <2>1, EntryAt, Zenon
  <2>. HIDE DEF k
  <2>3. [c[k] EXCEPT !.mac = m] \in Entry
    BY <2>2, Zenon DEF Entry
  <2>4. d \in Seq(Entry) /\ DOMAIN d = DOMAIN c /\ Len(d) = Len(c)
    BY <1>1, <2>1, <2>3
  <2>5. \A i \in DOMAIN c : d[i] = IF i = k THEN [c[k] EXCEPT !.mac = m] ELSE c[i]
    BY <1>1, Zenon
  <2>. HIDE DEF d
  <2>6. \A i \in DOMAIN c : d[i].ip = c[i].ip /\ d[i].fd = c[i].fd
    BY <2>2, <2>5, Zenon DEF Entry
  <2>7. \A i \in DOMAIN c : d[i].mac = IF i = k THEN m ELSE c[i].mac
    BY <2>2, <2>5, Zenon DEF Entry
  <2>8. NoTwins(d) /\ Known(d, m)
    BY <1>1, <2>1, <2>4, <2>6, Zenon DEF NoTwins, Known
  <2>9. CacheOK(d, open)
    BY <2>1, <2>4, <2>6, <2>7, <2>8, Zenon DEF CacheOK
  <2>10. Completed(c, m, m) = d
    BY <1>3, Zenon DEF Completed, d, k
  <2>. QED  BY <1>3, <2>4, <2>8, <2>9, <2>10, Zenon
<1>. QED  BY <1>2, <1>3, Zenon

(* Closing the waiting descriptor of an entry and forgetting it touches no   *)
(* other entry: two entries never wait on one descriptor.                    *)
LEMMA ForgetOK ==
    ASSUME NEW c, NEW open \in [Fds -> Ips \union {Closed}], CacheOK(c, open),
           NEW k \in DOMAIN c
    PROVE  /\ CacheOK(ForgetWaiter(c, k), CloseWaiter(open, c[k].fd))
           /\ Len(ForgetWaiter(c, k)) = Len(c)
           /\ CloseWaiter(open, c[k].fd) \in [Fds -> Ips \union {Closed}]
<1>. DEFINE d == ForgetWaiter(c, k)
            o == CloseWaiter(open, c[k].fd)
<1>1. c \in Seq(Entry) /\ NoTwins(c)
  BY Zenon DEF CacheOK
<1>2. c[k] \in Entry /\ c[k].fd \in Fds \union {NoFd}
  BY <1>1, EntryAt, Zenon
<1>3. [c[k] EXCEPT !.fd = NoFd] \in Entry
  BY <1>2, Zenon DEF Entry
<1>4. d \in Seq(Entry) /\ DOMAIN d = DOMAIN c /\ Len(d) = Len(c)
  BY <1>1, <1>3 DEF ForgetWaiter
<1>5. \A i \in DOMAIN c : d[i] = IF i = k THEN [c[k] EXCEPT !.fd = NoFd] ELSE c[i]
  BY <1>1, Zenon DEF ForgetWaiter
<1>6. \A i \in DOMAIN c : /\ d[i].ip = c[i].ip /\ d[i].mac = c[i].mac
                          /\ d[i].fd = IF i = k THEN NoFd ELSE c[i].fd
  BY <1>2, <1>5, Zenon DEF Entry
<1>7. o \in [Fds -> Ips \union {Closed}]
      /\ \A f \in Fds : f # c[k].fd => o[f] = open[f]
  BY <1>2, Zenon DEF CloseWaiter
<1>. HIDE DEF d, o
<1>8. NoTwins(d)
  BY <1>1, <1>4, <1>6, Zenon DEF NoTwins
<1>9. ASSUME NEW i \in DOMAIN c, d[i].fd # NoFd PROVE o[d[i].fd] = d[i].ip
  <2>1. i # k /\ d[i].fd = c[i].fd /\ d[i].ip = c[i].ip
    BY <1>6, <1>9, Zenon
  <2>2. open[c[i].fd] = c[i].ip
    BY <1>9, <2>1, Zenon DEF CacheOK
  <2>3. c[i].fd \in Fds
    BY <1>1, <1>9, <2>1, EntryAt, Zenon
  <2>4. c[i].fd # c[k].fd
    <3>1. SUFFICES ASSUME c[i].fd = c[k].fd PROVE FALSE
      BY Zenon
    <3>2. open[c[k].fd] = c[k].ip
      BY <1>9, <2>1, <3>1, Zenon DEF CacheOK
    <3>. QED  BY <1>1, <2>1, <2>2, <3>1, <3>2, Zenon DEF NoTwins
  <2>. QED  BY <1>7, <2>1, <2>2, <2>3, <2>4, Zenon
<1>10. CacheOK(d, o)
  BY <1>4, <1>6, <1>8, <1>9, Zenon DEF CacheOK
<1>. QED  BY <1>4, <1>7, <1>10, Zenon DEF d, o

---------------------------------------------------------------------------
(* ArpInv, said node by node. *)

SoundFrame == {f \in Frame : f.sender_eth = f.sender_ip}
Table == [Fds -> Ips \union {Closed}]

CallOK(cl, queue, open) ==
    /\ cl \in CallState
    /\ cl.pc = "answered" => cl.mac \in {NoMac, cl.ip}
    /\ cl.pc = "connecting" => queue # <<>> /\ queue[Len(queue)] = cl.ip
    /\ cl.pc = "waiting" => queue = <<>> /\ open[cl.fd] = cl.ip

NodeOK(n) ==
    /\ daemon[n] \in {"up", "undefined"}
    /\ frames[n] \in Seq(SoundFrame)
    /\ conn[n] \in Table
    /\ backlog[n] \in Seq(Ips)
    /\ CacheOK(cache[n], conn[n])
    /\ CallOK(call[n], backlog[n], conn[n])
    /\ daemon[n] = "undefined" => Len(cache[n]) > NumEntries

OnNodes(f) == f = [n \in Nodes |-> f[n]]

Families ==
    /\ OnNodes(daemon) /\ OnNodes(cache) /\ OnNodes(frames) /\ OnNodes(conn)
    /\ OnNodes(backlog) /\ OnNodes(call)

(* The frames of a queue carry their sender's own address exactly if the     *)
(* queue is one of sound frames.                                             *)
LEMMA SoundQueue ==
    ASSUME NEW q
    PROVE  q \in Seq(SoundFrame) <=>
              /\ q \in Seq(Frame)
              /\ \A k \in DOMAIN q : q[k].sender_eth = q[k].sender_ip
<1>1. ASSUME q \in Seq(SoundFrame)
      PROVE  q \in Seq(Frame) /\ \A k \in DOMAIN q : q[k].sender_eth = q[k].sender_ip
  <2>1. Len(q) \in Nat /\ DOMAIN q = 1..Len(q) /\ \A k \in 1..Len(q) : q[k] \in SoundFrame
    BY <1>1
  <2>2. q = [k \in 1..Len(q) |-> q[k]]
    BY <1>1
  <2>3. q \in [1..Len(q) -> Frame]
    BY <2>1, <2>2, Zenon DEF SoundFrame
  <2>4. q \in Seq(Frame)
    BY <2>1, <2>3, SeqDef, Zenon
  <2>. QED  BY <2>1, <2>4, Zenon DEF SoundFrame
<1>2. ASSUME q \in Seq(Frame), \A k \in DOMAIN q : q[k].sender_eth = q[k].sender_ip
      PROVE  q \in Seq(SoundFrame)
  <2>1. Len(q) \in Nat /\ DOMAIN q = 1..Len(q) /\ \A k \in 1..Len(q) : q[k] \in Frame
    BY <1>2
  <2>2. q = [k \in 1..Len(q) |-> q[k]]
    BY <1>2
  <2>3. q \in [1..Len(q) -> SoundFrame]
    BY <1>2, <2>1, <2>2, Zenon DEF SoundFrame
  <2>. QED  BY <2>1, <2>3, SeqDef, Zenon
<1>. QED  BY <1>1, <1>2, Zenon

(* The two forms of the invariant agree. *)
LEMMA NodeByNode == ArpInv <=> Families /\ \A n \in Nodes : NodeOK(n)
<1>1. ASSUME ArpInv PROVE Families /\ \A n \in Nodes : NodeOK(n)
  <2>1. Families
    BY <1>1, Zenon DEF ArpInv, TypeOK, Families, OnNodes
  <2>2. ASSUME NEW n \in Nodes PROVE NodeOK(n)
    <3>1. CacheOK(cache[n], conn[n])
      BY <1>1, Zenon DEF ArpInv, TypeOK, DaemonInv, CacheSound, WaiterAsked, CacheOK
    <3>2. CallOK(call[n], backlog[n], conn[n])
      BY <1>1, Zenon DEF ArpInv, TypeOK, CallInv, AnswersMatch, CallOK
    <3>3. frames[n] \in Seq(SoundFrame)
      BY <1>1, SoundQueue, Zenon DEF ArpInv, TypeOK, DaemonInv
    <3>. QED  BY <1>1, <3>1, <3>2, <3>3, Zenon DEF ArpInv, TypeOK, DaemonInv, NodeOK, Table
  <2>. QED  BY <2>1, <2>2, Zenon
<1>2. ASSUME Families, \A n \in Nodes : NodeOK(n) PROVE ArpInv
  <2>1. \A n \in Nodes : frames[n] \in Seq(Frame)
          /\ \A k \in DOMAIN frames[n] : frames[n][k].sender_eth = frames[n][k].sender_ip
    BY <1>2, SoundQueue, Zenon DEF NodeOK
  <2>2. daemon \in [Nodes -> {"up", "undefined"}]
    BY <1>2, Zenon DEF Families, OnNodes, NodeOK
  <2>3. cache \in [Nodes -> Seq(Entry)]
    BY <1>2, Zenon DEF Families, OnNodes, NodeOK, CacheOK
  <2>4. frames \in [Nodes -> Seq(Frame)]
    BY <1>2, <2>1, Zenon DEF Families, OnNodes
  <2>5. conn \in [Nodes -> [Fds -> Ips \union {Closed}]] /\ backlog \in [Nodes -> Seq(Ips)]
    BY <1>2, Zenon DEF Families, OnNodes, NodeOK, Table
  <2>6. call \in [Nodes -> CallState]
    BY <1>2, Zenon DEF Families, OnNodes, NodeOK, CallOK
  <2>7. TypeOK
    BY <2>2, <2>3, <2>4, <2>5, <2>6, Zenon DEF TypeOK
  <2>8. DaemonInv
    BY <1>2, <2>1, Zenon DEF DaemonInv, CacheSound, WaiterAsked, NodeOK, CacheOK
  <2>9. CallInv
    BY <1>2, Zenon DEF CallInv, AnswersMatch, NodeOK, CallOK
  <2>. QED  BY <2>7, <2>8, <2>9, Zenon DEF ArpInv
<1>. QED  BY <1>1, <1>2, Zenon

(* A node whose own state a step leaves alone stays as it should, also when  *)
(* a frame has been put into its queue.                                      *)
LEMMA OtherNode ==
    ASSUME NEW m \in Nodes, NodeOK(m), frames'[m] \in Seq(SoundFrame),
           daemon'[m] = daemon[m], cache'[m] = cache[m], conn'[m] = conn[m],
           backlog'[m] = backlog[m], call'[m] = call[m]
    PROVE  NodeOK(m)'
BY Zenon DEF NodeOK, CacheOK, CallOK, NoTwins

(* The lowest free descriptor is free. *)
LEMMA LowestFree ==
    ASSUME NEW open \in Table, \E f \in Fds : open[f] = Closed
    PROVE  Lowest(open) \in Fds /\ open[Lowest(open)] = Closed
<1>. DEFINE T == {f \in Fds : open[f] = Closed}
<1>1. T \subseteq Nat /\ T # {}
  BY ArpAssumption DEF Fds
<1>2. PICK x \in T : \A y \in T : ~(<<y, x>> \in OpToRel(<, Nat))
  BY <1>1, WFMin, NatLessThanWellFounded, Zenon
<1>3. \A y \in T : ~(y < x)
  BY <1>1, <1>2, Zenon DEF OpToRel
<1>4. \A g \in 1..(x - 1) : g \in Fds /\ g < x
  BY <1>1, ArpAssumption DEF Fds
<1>5. \A g \in 1..(x - 1) : open[g] # Closed
  BY <1>3, <1>4, Zenon
<1>. QED  BY <1>5, Zenon DEF Lowest

---------------------------------------------------------------------------
(* Each step preserves the invariant. *)

Sound == Families /\ \A n \in Nodes : NodeOK(n)

(* Facts about a frame a daemon is about to read. *)
LEMMA HeadFrame ==
    ASSUME NEW q \in Seq(SoundFrame), q # <<>>
    PROVE  /\ Tail(q) \in Seq(SoundFrame)
           /\ Head(q).sender_ip \in Nodes /\ Head(q).target_ip \in Ips
           /\ Head(q).sender_eth = Head(q).sender_ip
<1>1. Tail(q) \in Seq(SoundFrame) /\ Head(q) \in SoundFrame
  OBVIOUS
<1>. QED  BY <1>1, Zenon DEF SoundFrame, Frame

(* insert_into_cache keeps a cache that is as it should be, if the new entry  *)
(* is, and notes when it leaves the array.                                   *)
LEMMA InsertStep ==
    ASSUME Sound, NEW n \in Nodes, NEW ip \in Ips, NEW mac \in Nodes \union {NoMac},
           NEW fd \in Fds \union {NoFd}, NEW open, CacheOK(cache[n], open),
           mac \in {NoMac, ip}, fd # NoFd => open[fd] = ip,
           insert_into_cache(n, ip, mac, fd)
    PROVE  /\ CacheOK(cache'[n], open) /\ OnNodes(cache)' /\ OnNodes(daemon)'
           /\ daemon'[n] \in {"up", "undefined"}
           /\ daemon'[n] = "undefined" => Len(cache'[n]) > NumEntries
           /\ \A m \in Nodes \ {n} : cache'[m] = cache[m] /\ daemon'[m] = daemon[m]
<1>. DEFINE e == [ip |-> ip, mac |-> mac, fd |-> fd]
            c == cache[n]
<1>1. e \in Entry /\ e.ip = ip /\ e.mac = mac /\ e.fd = fd
  BY Zenon DEF Entry
<1>2. /\ Known(c, e.ip) => CacheOK([c EXCEPT ![EntryOf(c, e.ip)] = e], open)
      /\ ~Known(c, e.ip) => CacheOK(Append(c, e), open)
  BY <1>1, InsertOK, Zenon
<1>3. /\ OnNodes(cache) /\ OnNodes(daemon) /\ NodeOK(n)
  BY Zenon DEF Sound, Families
<1>4. c \in Seq(Entry) /\ Len(c) \in Nat
  BY DEF CacheOK
<1>5. CASE Known(c, ip)
  <2>1. cache' = [cache EXCEPT ![n][EntryOf(c, ip)] = e] /\ daemon' = daemon
    BY <1>5, Zenon DEF insert_into_cache
  <2>2. cache'[n] = [c EXCEPT ![EntryOf(c, ip)] = e]
    BY <1>3, <2>1, Zenon DEF OnNodes
  <2>3. OnNodes(cache)' /\ \A m \in Nodes \ {n} : cache'[m] = cache[m]
    BY <1>3, <2>1, Zenon DEF OnNodes
  <2>4. Len([c EXCEPT ![EntryOf(c, ip)] = e]) = Len(c)
    <3>. DEFINE k == EntryOf(c, ip)
    <3>1. k \in DOMAIN c
      BY <1>4, <1>5, EntryOfKnown, Zenon DEF CacheOK
    <3>. HIDE DEF k, e, c
    <3>2. Len([c EXCEPT ![k] = e]) = Len(c)
      BY <1>1, <1>4, <3>1
    <3>. QED  BY <3>2, Zenon DEF k
  <2>. QED  BY <1>1, <1>2, <1>3, <1>5, <2>1, <2>2, <2>3, <2>4, Zenon DEF OnNodes, NodeOK
<1>6. CASE ~Known(c, ip)
  <2>1. /\ cache' = [cache EXCEPT ![n] = Append(@, e)]
        /\ daemon' = IF Len(c) = NumEntries
                     THEN [daemon EXCEPT ![n] = "undefined"] ELSE daemon
    BY <1>6, Zenon DEF insert_into_cache
  <2>2. cache'[n] = Append(c, e)
    BY <1>3, <2>1, Zenon DEF OnNodes
  <2>3. OnNodes(cache)' /\ OnNodes(daemon)'
        /\ \A m \in Nodes \ {n} : cache'[m] = cache[m] /\ daemon'[m] = daemon[m]
    BY <1>3, <2>1, Zenon DEF OnNodes
  <2>4. Len(Append(c, e)) = Len(c) + 1
    BY <1>1, <1>4
  <2>5. daemon'[n] = IF Len(c) = NumEntries THEN "undefined" ELSE daemon[n]
    BY <1>3, <2>1, Zenon DEF OnNodes
  <2>. QED
    BY <1>1, <1>2, <1>3, <1>4, <1>6, <2>2, <2>3, <2>4, <2>5, ArpAssumption DEF NodeOK
<1>. QED  BY <1>5, <1>6, Zenon

(* A request is answered or only overheard. *)
LEMMA RequestStep ==
    ASSUME Sound, NEW n \in Nodes, frames[n] # <<>>,
           handle_request(n, Head(frames[n])), UNCHANGED backlog
    PROVE  Sound'
<1>. DEFINE f == Head(frames[n])
            s == f.sender_ip
<1>1. /\ Tail(frames[n]) \in Seq(SoundFrame)
      /\ s \in Nodes /\ f.target_ip \in Ips /\ f.sender_eth = s
  BY HeadFrame, Zenon DEF Sound, NodeOK
<1>2. NodeOK(n) /\ Families /\ CacheOK(cache[n], conn[n])
  BY Zenon DEF Sound, NodeOK
<1>3. f.op = "request" /\ UNCHANGED <<conn, call, backlog>>
  BY Zenon DEF handle_request
<1>4. OnNodes(Take(n)) /\ \A m \in Nodes : Take(n)[m] \in Seq(SoundFrame)
  BY <1>1, Zenon DEF Take, Sound, Families, OnNodes, NodeOK
<1>5. CASE f.target_ip = n
  <2>. DEFINE r == ReplyTo(n, f)
  <2>1. /\ insert_into_cache(n, s, s, NoFd)
        /\ frames' = [Take(n) EXCEPT ![s] = Append(@, r)]
    BY <1>1, <1>5, Zenon DEF handle_request
  <2>2. r \in SoundFrame
    BY <1>1, <1>5, Zenon DEF ReplyTo, SoundFrame, Frame, Ips
  <2>. HIDE DEF r
  <2>3. OnNodes(frames)' /\ \A m \in Nodes : frames'[m] \in Seq(SoundFrame)
    <3>. DEFINE q == Take(n)
    <3>. HIDE DEF q, s
    <3>1. frames' = [q EXCEPT ![s] = Append(@, r)] /\ s \in Nodes
      BY <1>1, <2>1, Zenon DEF q
    <3>2. OnNodes(q) /\ \A m \in Nodes : q[m] \in Seq(SoundFrame)
      BY <1>4, Zenon DEF q
    <3>3. \A m \in Nodes : frames'[m] = IF m = s THEN Append(q[m], r) ELSE q[m]
      BY <3>1, <3>2, Zenon DEF OnNodes
    <3>4. OnNodes(frames)'
      BY <3>1, <3>2, Zenon DEF OnNodes
    <3>5. \A m \in Nodes : Append(q[m], r) \in Seq(SoundFrame)
      BY <2>2, <3>2
    <3>. QED  BY <3>2, <3>3, <3>4, <3>5, Zenon
  <2>4. /\ CacheOK(cache'[n], conn[n]) /\ OnNodes(cache)' /\ OnNodes(daemon)'
        /\ daemon'[n] \in {"up", "undefined"}
        /\ daemon'[n] = "undefined" => Len(cache'[n]) > NumEntries
        /\ \A m \in Nodes \ {n} : cache'[m] = cache[m] /\ daemon'[m] = daemon[m]
    <3>1. s \in Ips /\ s \in Nodes \union {NoMac} /\ s \in {NoMac, s}
      BY <1>1, Zenon DEF Ips
    <3>. HIDE DEF s
    <3>. QED  BY <1>2, <2>1, <3>1, InsertStep, Zenon
  <2>5. NodeOK(n)'
    <3>1. CacheOK(cache[n], conn[n])'
      BY <1>3, <2>4, Zenon DEF CacheOK, NoTwins
    <3>2. CallOK(call[n], backlog[n], conn[n])'
      BY <1>2, <1>3, Zenon DEF NodeOK, CallOK
    <3>. QED  BY <1>2, <1>3, <2>3, <2>4, <3>1, <3>2, Zenon DEF NodeOK
  <2>6. ASSUME NEW m \in Nodes, m # n PROVE NodeOK(m)'
    BY <1>3, <2>3, <2>4, <2>6, OtherNode, Zenon DEF Sound
  <2>7. Families'
    BY <1>2, <1>3, <2>3, <2>4, Zenon DEF Families, OnNodes
  <2>. QED  BY <2>5, <2>6, <2>7, Zenon DEF Sound
<1>6. CASE f.target_ip # n
  <2>1. /\ cache' = [cache EXCEPT ![n] = Completed(@, s, s)]
        /\ frames' = Take(n) /\ daemon' = daemon
    BY <1>1, <1>6, Zenon DEF handle_request
  <2>2. /\ CacheOK(Completed(cache[n], s, s), conn[n])
        /\ Len(Completed(cache[n], s, s)) = Len(cache[n])
    BY <1>1, <1>2, CompletedOK, Zenon
  <2>3. /\ cache'[n] = Completed(cache[n], s, s) /\ OnNodes(cache)'
        /\ \A m \in Nodes \ {n} : cache'[m] = cache[m]
    BY <1>2, <2>1, Zenon DEF Families, OnNodes
  <2>4. NodeOK(n)'
    <3>1. CacheOK(cache[n], conn[n])'
      BY <1>3, <2>2, <2>3, Zenon DEF CacheOK, NoTwins
    <3>2. CallOK(call[n], backlog[n], conn[n])'
      BY <1>2, <1>3, Zenon DEF NodeOK, CallOK
    <3>3. Len(cache'[n]) = Len(cache[n])
      BY <2>2, <2>3, Zenon
    <3>. QED  BY <1>2, <1>3, <1>4, <2>1, <3>1, <3>2, <3>3, Zenon DEF NodeOK
  <2>5. ASSUME NEW m \in Nodes, m # n PROVE NodeOK(m)'
    BY <1>3, <1>4, <2>1, <2>3, <2>5, OtherNode, Zenon DEF Sound
  <2>6. Families'
    BY <1>2, <1>3, <1>4, <2>1, <2>3, Zenon DEF Families, OnNodes
  <2>. QED  BY <2>4, <2>5, <2>6, Zenon DEF Sound
<1>. QED  BY <1>5, <1>6, Zenon

(* The fields a caller has at each of its places. *)
LEMMA CallFields ==
    ASSUME NEW cl \in CallState
    PROVE  /\ cl.pc \in {"idle", "connecting", "waiting", "answered"}
           /\ cl.pc \in {"connecting", "waiting"} => cl.ip \in Ips
           /\ cl.pc = "waiting" => cl.fd \in Fds
BY DEF CallState, Idle

(* Descriptor 0 is none of the connections. *)
LEMMA NoFdIsNone == NoFd \notin Fds
BY ArpAssumption DEF NoFd, Fds

(* A reply completes its entry, and only the caller that waits in it is told. *)
LEMMA ResponseStep ==
    ASSUME Sound, NEW n \in Nodes, frames[n] # <<>>,
           handle_response(n, Head(frames[n])), UNCHANGED backlog
    PROVE  Sound'
<1>. DEFINE f == Head(frames[n])
            s == f.sender_ip
            c == Completed(cache[n], s, s)
            i == EntryOf(c, s)
            o == CloseWaiter(conn[n], c[i].fd)
<1>1. /\ Tail(frames[n]) \in Seq(SoundFrame)
      /\ s \in Nodes /\ f.sender_eth = s
  BY HeadFrame, Zenon DEF Sound, NodeOK
<1>2. NodeOK(n) /\ Families /\ CacheOK(cache[n], conn[n])
  BY Zenon DEF Sound, NodeOK
<1>3. frames' = Take(n) /\ UNCHANGED <<daemon, backlog>>
  BY Zenon DEF handle_response
<1>4. OnNodes(frames)' /\ \A m \in Nodes : frames'[m] \in Seq(SoundFrame)
  BY <1>1, <1>3, Zenon DEF Take, Sound, Families, OnNodes, NodeOK
<1>5. CacheOK(c, conn[n]) /\ Len(c) = Len(cache[n])
  BY <1>1, <1>2, CompletedOK, Zenon
<1>6. CASE ~Known(c, s)
  <2>1. UNCHANGED <<cache, conn, call>>
    BY <1>1, <1>6, Zenon DEF handle_response
  <2>2. \A m \in Nodes : NodeOK(m)'
    BY <1>3, <1>4, <2>1, OtherNode, Zenon DEF Sound
  <2>. QED  BY <1>2, <1>3, <1>4, <2>1, <2>2, Zenon DEF Sound, Families, OnNodes
<1>7. CASE Known(c, s)
  <2>1. i \in DOMAIN c /\ c[i].ip = s
    BY <1>5, <1>7, EntryOfKnown, Zenon DEF CacheOK
  <2>2. /\ send_reply(n, c, i, conn[n])
        /\ call' = [call EXCEPT ![n] = Answered(n, c[i].fd, c[i].mac)]
    BY <1>1, <1>7, Zenon DEF handle_response
  <2>. HIDE DEF i, c, s, f
  <2>3. conn[n] \in [Fds -> Ips \union {Closed}]
    BY <1>2, Zenon DEF NodeOK, Table
  <2>4. /\ CacheOK(ForgetWaiter(c, i), o) /\ Len(ForgetWaiter(c, i)) = Len(cache[n])
        /\ o \in [Fds -> Ips \union {Closed}]
    BY <1>5, <2>1, <2>3, ForgetOK, Zenon
  <2>5. /\ cache'[n] = ForgetWaiter(c, i) /\ OnNodes(cache)'
        /\ \A m \in Nodes \ {n} : cache'[m] = cache[m]
    BY <1>2, <2>2, Zenon DEF send_reply, Families, OnNodes
  <2>6. /\ conn'[n] = o /\ OnNodes(conn)'
        /\ \A m \in Nodes \ {n} : conn'[m] = conn[m]
    BY <1>2, <2>2, Zenon DEF send_reply, Families, OnNodes
  <2>8. /\ call'[n] = Answered(n, c[i].fd, c[i].mac) /\ OnNodes(call)'
        /\ \A m \in Nodes \ {n} : call'[m] = call[m]
    BY <1>2, <2>2, Zenon DEF Families, OnNodes
  <2>9. c[i] \in Entry /\ c[i].mac \in Nodes \union {NoMac} /\ c[i].fd \in Fds \union {NoFd}
    BY <1>5, <2>1, EntryAt, Zenon DEF CacheOK
  <2>10. CallOK(call[n], backlog[n], conn[n])
    BY <1>2, Zenon DEF NodeOK
  <2>11. CallOK(Answered(n, c[i].fd, c[i].mac), backlog[n], o)
    <3>1. call[n] \in CallState
      BY <2>10, Zenon DEF CallOK
    <3>2. CASE call[n].pc = "waiting" /\ call[n].fd = c[i].fd
      <4>1. call[n].fd \in Fds /\ call[n].ip \in Ips /\ conn[n][call[n].fd] = call[n].ip
        BY <2>10, <3>1, <3>2, CallFields, Zenon DEF CallOK
      <4>2. conn[n][c[i].fd] = c[i].ip
        BY <1>5, <2>1, <3>2, <4>1, NoFdIsNone, Zenon DEF CacheOK
      <4>3. c[i].mac \in {NoMac, call[n].ip}
        BY <1>5, <2>1, <3>2, <4>1, <4>2, Zenon DEF CacheOK
      <4>4. Answered(n, c[i].fd, c[i].mac)
              = [pc |-> "answered", ip |-> call[n].ip, mac |-> c[i].mac]
        BY <3>2, Zenon DEF Answered
      <4>5. [pc |-> "answered", ip |-> call[n].ip, mac |-> c[i].mac] \in CallState
        BY <2>9, <4>1, Zenon DEF CallState
      <4>. QED  BY <4>3, <4>4, <4>5 DEF CallOK
    <3>3. CASE ~(call[n].pc = "waiting" /\ call[n].fd = c[i].fd)
      <4>1. Answered(n, c[i].fd, c[i].mac) = call[n]
        BY <3>3, Zenon DEF Answered
      <4>2. ASSUME call[n].pc = "waiting" PROVE o[call[n].fd] = conn[n][call[n].fd]
        BY <2>3, <2>9, <3>1, <3>3, <4>2, CallFields, Zenon DEF CloseWaiter
      <4>. QED  BY <2>10, <4>1, <4>2, Zenon DEF CallOK
    <3>. QED  BY <3>2, <3>3, Zenon
  <2>. HIDE DEF o
  <2>12. NodeOK(n)'
    <3>1. CacheOK(cache[n], conn[n])'
      BY <2>4, <2>5, <2>6, Zenon DEF CacheOK, NoTwins
    <3>2. CallOK(call[n], backlog[n], conn[n])'
      BY <1>3, <2>6, <2>8, <2>11, Zenon DEF CallOK
    <3>3. Len(cache'[n]) = Len(cache[n]) /\ conn'[n] \in Table
      BY <2>4, <2>5, <2>6, Zenon DEF Table
    <3>. QED  BY <1>2, <1>3, <1>4, <3>1, <3>2, <3>3, Zenon DEF NodeOK
  <2>13. ASSUME NEW m \in Nodes, m # n PROVE NodeOK(m)'
    BY <1>3, <1>4, <2>5, <2>6, <2>8, <2>13, OtherNode, Zenon DEF Sound
  <2>14. Families'
    BY <1>2, <1>3, <1>4, <2>5, <2>6, <2>8, Zenon DEF Families, OnNodes
  <2>. QED  BY <2>12, <2>13, <2>14, Zenon DEF Sound
<1>. QED  BY <1>6, <1>7, Zenon

(* accept takes a descriptor no entry and no caller waits on. *)
LEMMA OpenOK ==
    ASSUME NEW c, NEW table, CacheOK(c, table), NEW fd \in Fds, table[fd] = Closed,
           NEW open, \A g \in Fds : g # fd => open[g] = table[g]
    PROVE  CacheOK(c, open)
<1>1. ASSUME NEW i \in DOMAIN c, c[i].fd # NoFd PROVE open[c[i].fd] = c[i].ip
  <2>1. c[i].fd \in Fds /\ c[i].ip \in Ips
    BY <1>1, EntryAt, Zenon DEF CacheOK
  <2>2. table[c[i].fd] = c[i].ip
    BY <1>1, Zenon DEF CacheOK
  <2>3. c[i].fd # fd
    BY <2>1, <2>2, ArpAssumption, Zenon DEF Ips, Closed
  <2>. QED  BY <2>1, <2>2, <2>3, Zenon
<1>. QED  BY <1>1, Zenon DEF CacheOK

(* A connection taken from the backlog leaves the caller's own at its end. *)
LEMMA TailLast ==
    ASSUME NEW q \in Seq(Ips), q # <<>>
    PROVE  /\ Tail(q) \in Seq(Ips) /\ Head(q) \in Ips
           /\ Len(q) = 1 => Tail(q) = <<>> /\ Head(q) = q[Len(q)]
           /\ Len(q) # 1 => Tail(q) # <<>> /\ Tail(q)[Len(Tail(q))] = q[Len(q)]
<1>. DEFINE t == Tail(q)
<1>1. Head(q) \in Ips /\ t \in Seq(Ips) /\ Len(t) = Len(q) - 1
      /\ \A k \in 1..Len(t) : t[k] = q[k + 1]
  BY HeadTailProperties, Zenon
<1>2. Head(q) = q[1] /\ Len(q) \in Nat
  OBVIOUS
<1>. HIDE DEF t
<1>3. Len(t) \in Nat
  BY <1>1
<1>4. CASE Len(q) = 1
  <2>1. Len(t) = 0
    BY <1>1, <1>4
  <2>2. t = <<>>
    BY <1>1, <2>1, EmptySeq, Zenon
  <2>. QED  BY <1>1, <1>2, <1>4, <2>2, Zenon DEF t
<1>5. CASE Len(q) # 1
  <2>1. Len(t) # 0
    BY <1>1, <1>2, <1>5
  <2>2. Len(t) \in 1..Len(t) /\ Len(t) + 1 = Len(q)
    BY <1>1, <1>2, <1>3, <2>1
  <2>3. t # <<>>
    BY <2>1, EmptySeq, Zenon
  <2>. QED  BY <1>1, <1>5, <2>2, <2>3, Zenon DEF t
<1>. QED  BY <1>4, <1>5, Zenon

(* A connection is served from the cache, or waits in a new entry. *)
LEMMA AcceptStep ==
    ASSUME Sound, NEW n \in Nodes, Accept(n)
    PROVE  Sound'
<1>. DEFINE ip == Head(backlog[n])
            fd == Lowest(conn[n])
            open == [conn[n] EXCEPT ![fd] = ip]
            live == call[n].pc = "connecting" /\ Len(backlog[n]) = 1
            i == EntryOf(cache[n], ip)
            q == Tail(backlog[n])
<1>1. NodeOK(n) /\ Families /\ CacheOK(cache[n], conn[n]) /\ conn[n] \in Table
      /\ backlog[n] \in Seq(Ips) /\ CallOK(call[n], backlog[n], conn[n])
  BY Zenon DEF Sound, NodeOK
<1>2. backlog[n] # <<>> /\ backlog' = [backlog EXCEPT ![n] = q]
  BY Zenon DEF Accept
<1>3. q \in Seq(Ips) /\ ip \in Ips
  BY <1>1, <1>2, TailLast, Zenon
<1>4. fd \in Fds /\ conn[n][fd] = Closed
  BY <1>1, LowestFree, Zenon DEF Accept
<1>5. CacheOK(cache[n], open) /\ open \in Table /\ open[fd] = ip
  <2>. HIDE DEF fd, ip
  <2>1. open \in Table /\ open[fd] = ip
    BY <1>1, <1>3, <1>4, Zenon DEF Table
  <2>2. \A g \in Fds : g # fd => open[g] = conn[n][g]
    BY <1>1, Zenon DEF Table
  <2>. HIDE DEF open
  <2>. QED  BY <1>1, <1>4, <2>1, <2>2, OpenOK
<1>6. /\ backlog'[n] = q /\ OnNodes(backlog)'
      /\ \A m \in Nodes \ {n} : backlog'[m] = backlog[m]
  BY <1>1, <1>2, Zenon DEF Families, OnNodes
<1>7. call[n] \in CallState /\ call[n].pc # "waiting"
  BY <1>1, <1>2, Zenon DEF CallOK
<1>8. call[n].pc = "connecting" => call[n].ip \in Ips /\ call[n].ip = backlog[n][Len(backlog[n])]
  BY <1>1, <1>7, CallFields, Zenon DEF CallOK
<1>9. live => q = <<>> /\ ip = call[n].ip
  BY <1>1, <1>2, <1>8, TailLast, Zenon
<1>10. ~live => \A o : CallOK(call[n], q, o)
  BY <1>1, <1>2, <1>7, TailLast, Zenon DEF CallOK
<1>11. CASE Known(cache[n], ip)
  <2>1. /\ send_reply(n, cache[n], i, open)
        /\ call' = IF live
                   THEN [call EXCEPT ![n] = [pc |-> "answered", ip |-> @.ip,
                                             mac |-> cache[n][i].mac]]
                   ELSE call
        /\ UNCHANGED <<daemon, frames>>
    BY <1>11, Zenon DEF Accept
  <2>2. i \in DOMAIN cache[n] /\ cache[n][i].ip = ip
    BY <1>1, <1>11, EntryOfKnown, Zenon DEF CacheOK
  <2>3. cache[n][i].mac \in Nodes \union {NoMac} /\ cache[n][i].mac \in {NoMac, ip}
    BY <1>1, <2>2, EntryAt, Zenon DEF CacheOK
  <2>. DEFINE o == CloseWaiter(open, cache[n][i].fd)
              d == ForgetWaiter(cache[n], i)
  <2>. HIDE DEF i, open, live, ip, fd, q
  <2>4. CacheOK(d, o) /\ Len(d) = Len(cache[n]) /\ o \in Table
    BY <1>5, <2>2, ForgetOK, Zenon DEF Table
  <2>5. /\ cache'[n] = d /\ OnNodes(cache)'
        /\ \A m \in Nodes \ {n} : cache'[m] = cache[m]
    BY <1>1, <2>1, Zenon DEF send_reply, Families, OnNodes
  <2>6. /\ conn'[n] = o /\ OnNodes(conn)'
        /\ \A m \in Nodes \ {n} : conn'[m] = conn[m]
    BY <1>1, <2>1, Zenon DEF send_reply, Families, OnNodes
  <2>8. OnNodes(call)' /\ (\A m \in Nodes \ {n} : call'[m] = call[m])
        /\ call'[n] = IF live THEN [pc |-> "answered", ip |-> call[n].ip,
                                    mac |-> cache[n][i].mac]
                      ELSE call[n]
    BY <1>1, <2>1, Zenon DEF Families, OnNodes
  <2>9. CallOK(call'[n], q, o)
    <3>1. CASE live
      <4>1. call[n].ip \in Ips /\ ip = call[n].ip
        BY <1>8, <1>9, <3>1, Zenon DEF live
      <4>2. [pc |-> "answered", ip |-> call[n].ip, mac |-> cache[n][i].mac] \in CallState
        BY <2>3, <4>1, Zenon DEF CallState
      <4>. QED  BY <2>3, <2>8, <3>1, <4>1, <4>2 DEF CallOK
    <3>2. CASE ~live
      BY <1>10, <2>8, <3>2, Zenon
    <3>. QED  BY <3>1, <3>2, Zenon
  <2>. HIDE DEF o, d
  <2>10. NodeOK(n)'
    <3>1. CacheOK(cache[n], conn[n])'
      BY <2>4, <2>5, <2>6, Zenon DEF CacheOK, NoTwins
    <3>2. CallOK(call[n], backlog[n], conn[n])'
      BY <1>6, <2>6, <2>9, Zenon DEF CallOK
    <3>3. Len(cache'[n]) = Len(cache[n]) /\ conn'[n] \in Table /\ backlog'[n] \in Seq(Ips)
      BY <1>3, <1>6, <2>4, <2>5, <2>6, Zenon
    <3>. QED  BY <1>1, <2>1, <3>1, <3>2, <3>3, Zenon DEF NodeOK
  <2>11. ASSUME NEW m \in Nodes, m # n PROVE NodeOK(m)'
    <3>1. NodeOK(m) /\ frames[m] \in Seq(SoundFrame)
      BY Zenon DEF Sound, NodeOK
    <3>. QED  BY <1>6, <2>1, <2>5, <2>6, <2>8, <2>11, <3>1, OtherNode, Zenon
  <2>12. Families'
    BY <1>1, <1>6, <2>1, <2>5, <2>6, <2>8, Zenon DEF Families, OnNodes
  <2>. QED  BY <2>10, <2>11, <2>12, Zenon DEF Sound
<1>12. CASE ~Known(cache[n], ip)
  <2>1. /\ insert_into_cache(n, ip, NoMac, fd)
        /\ frames' = Broadcast(n, Request(n, ip))
        /\ conn' = [conn EXCEPT ![n] = open]
        /\ call' = IF live
                   THEN [call EXCEPT ![n] = [pc |-> "waiting", ip |-> @.ip, fd |-> fd]]
                   ELSE call
    BY <1>12, Zenon DEF Accept
  <2>2. Request(n, ip) \in SoundFrame
    BY <1>3, Zenon DEF Request, SoundFrame, Frame
  <2>3. OnNodes(frames)' /\ \A m \in Nodes : frames'[m] \in Seq(SoundFrame)
    <3>. DEFINE r == Request(n, ip)
    <3>. HIDE DEF r, ip
    <3>1. frames' = [m \in Nodes |-> IF m = n THEN frames[m] ELSE Append(frames[m], r)]
      BY <2>1, Zenon DEF Broadcast, r
    <3>2. \A m \in Nodes : frames[m] \in Seq(SoundFrame)
      BY Zenon DEF Sound, NodeOK
    <3>3. \A m \in Nodes : Append(frames[m], r) \in Seq(SoundFrame)
      BY <2>2, <3>2 DEF r
    <3>. QED  BY <3>1, <3>2, <3>3, Zenon DEF OnNodes
  <2>. HIDE DEF open, live, ip, fd, q
  <2>4. /\ CacheOK(cache'[n], open) /\ OnNodes(cache)' /\ OnNodes(daemon)'
        /\ daemon'[n] \in {"up", "undefined"}
        /\ daemon'[n] = "undefined" => Len(cache'[n]) > NumEntries
        /\ \A m \in Nodes \ {n} : cache'[m] = cache[m] /\ daemon'[m] = daemon[m]
    BY <1>3, <1>4, <1>5, <2>1, InsertStep, Zenon
  <2>5. /\ conn'[n] = open /\ OnNodes(conn)'
        /\ \A m \in Nodes \ {n} : conn'[m] = conn[m]
    BY <1>1, <2>1, Zenon DEF Families, OnNodes
  <2>6. OnNodes(call)' /\ (\A m \in Nodes \ {n} : call'[m] = call[m])
        /\ call'[n] = IF live THEN [pc |-> "waiting", ip |-> call[n].ip, fd |-> fd]
                      ELSE call[n]
    BY <1>1, <2>1, Zenon DEF Families, OnNodes
  <2>7. CallOK(call'[n], q, open)
    <3>1. CASE live
      <4>1. call[n].ip \in Ips /\ ip = call[n].ip /\ q = <<>>
        BY <1>8, <1>9, <3>1, Zenon DEF live
      <4>2. [pc |-> "waiting", ip |-> call[n].ip, fd |-> fd] \in CallState
        BY <1>4, <4>1, Zenon DEF CallState
      <4>. QED  BY <1>5, <2>6, <3>1, <4>1, <4>2 DEF CallOK
    <3>2. CASE ~live
      BY <1>10, <2>6, <3>2, Zenon
    <3>. QED  BY <3>1, <3>2, Zenon
  <2>8. NodeOK(n)'
    <3>1. CacheOK(cache[n], conn[n])'
      BY <2>4, <2>5, Zenon DEF CacheOK, NoTwins
    <3>2. CallOK(call[n], backlog[n], conn[n])'
      BY <1>6, <2>5, <2>7, Zenon DEF CallOK
    <3>3. conn'[n] \in Table /\ backlog'[n] \in Seq(Ips)
      BY <1>3, <1>5, <1>6, <2>5, Zenon
    <3>. QED  BY <1>1, <2>1, <2>3, <2>4, <3>1, <3>2, <3>3, Zenon DEF NodeOK
  <2>9. ASSUME NEW m \in Nodes, m # n PROVE NodeOK(m)'
    BY <1>6, <2>1, <2>3, <2>4, <2>5, <2>6, <2>9, OtherNode, Zenon DEF Sound
  <2>10. Families'
    BY <1>1, <1>6, <2>1, <2>3, <2>4, <2>5, <2>6, Zenon DEF Families, OnNodes
  <2>. QED  BY <2>8, <2>9, <2>10, Zenon DEF Sound
<1>. QED  BY <1>11, <1>12, Zenon

(* A caller that calls, gives up or returns touches only its own place and    *)
(* the backlog.                                                              *)
LEMMA CallerStep ==
    ASSUME Sound, NEW n \in Nodes,
           (\E ip \in Ips : Areq(n, ip)) \/ AreqTimeout(n) \/ AreqReturn(n)
    PROVE  Sound'
<1>1. NodeOK(n) /\ Families /\ backlog[n] \in Seq(Ips) /\ UNCHANGED arpVars
  BY Zenon DEF Sound, NodeOK, Areq, AreqTimeout, AreqReturn
<1>2. /\ OnNodes(call)' /\ OnNodes(backlog)'
      /\ \A m \in Nodes \ {n} : call'[m] = call[m] /\ backlog'[m] = backlog[m]
  BY <1>1, Zenon DEF Areq, AreqTimeout, AreqReturn, Families, OnNodes
<1>3. backlog'[n] \in Seq(Ips) /\ \A o : CallOK(call'[n], backlog'[n], o)
  <2>1. CASE AreqTimeout(n) \/ AreqReturn(n)
    <3>1. call'[n] = Idle /\ backlog'[n] = backlog[n]
      BY <1>1, <2>1, Zenon DEF AreqTimeout, AreqReturn, Families, OnNodes
    <3>. QED  BY <1>1, <3>1 DEF CallOK, CallState, Idle
  <2>2. ASSUME NEW ip \in Ips, Areq(n, ip)
        PROVE  backlog'[n] \in Seq(Ips) /\ \A o : CallOK(call'[n], backlog'[n], o)
    <3>. DEFINE q == Append(backlog[n], ip)
                cl == [pc |-> "connecting", ip |-> ip]
    <3>1. call'[n] = cl /\ backlog'[n] = q
      BY <1>1, <2>2, Zenon DEF Areq, Families, OnNodes
    <3>2. q \in Seq(Ips) /\ q # <<>> /\ q[Len(q)] = ip
      BY <1>1
    <3>3. cl \in CallState /\ cl.pc = "connecting" /\ cl.ip = ip
      BY Zenon DEF CallState
    <3>. HIDE DEF q, cl
    <3>. QED  BY <3>1, <3>2, <3>3, Zenon DEF CallOK
  <2>. QED  BY <2>1, <2>2, Zenon
<1>4. NodeOK(n)'
  <2>1. CacheOK(cache[n], conn[n])'
    BY <1>1, Zenon DEF NodeOK, CacheOK, NoTwins, arpVars
  <2>2. CallOK(call[n], backlog[n], conn[n])'
    BY <1>3, Zenon DEF CallOK
  <2>. QED  BY <1>1, <1>3, <2>1, <2>2, Zenon DEF NodeOK, arpVars
<1>5. ASSUME NEW m \in Nodes, m # n PROVE NodeOK(m)'
  <2>1. NodeOK(m) /\ frames[m] \in Seq(SoundFrame)
    BY Zenon DEF Sound, NodeOK
  <2>. QED  BY <1>1, <1>2, <1>5, <2>1, OtherNode, Zenon DEF arpVars
<1>6. Families'
  BY <1>1, <1>2, Zenon DEF Families, OnNodes, arpVars
<1>. QED  BY <1>4, <1>5, <1>6, Zenon DEF Sound

(* A lost frame is the only thing a loss changes. *)
LEMMA LoseStep ==
    ASSUME Sound, NEW n \in Nodes, LoseFrame(n)
    PROVE  Sound'
<1>1. OnNodes(frames)' /\ \A m \in Nodes : frames'[m] \in Seq(SoundFrame)
  <2>1. OnNodes(frames) /\ \A m \in Nodes : frames[m] \in Seq(SoundFrame)
    BY Zenon DEF Sound, Families, NodeOK
  <2>2. Tail(frames[n]) \in Seq(SoundFrame)
    BY <2>1, HeadFrame, Zenon DEF LoseFrame
  <2>3. frames' = [frames EXCEPT ![n] = Tail(frames[n])]
    BY Zenon DEF LoseFrame, Take
  <2>. QED  BY <2>1, <2>2, <2>3, Zenon DEF OnNodes
<1>2. \A m \in Nodes : NodeOK(m)'
  BY <1>1, OtherNode, Zenon DEF LoseFrame, Sound
<1>. QED  BY <1>1, <1>2, Zenon DEF Sound, Families, OnNodes, LoseFrame

(* boot leaves the daemons and the callers as the invariant says. *)
LEMMA InitSound == ASSUME Init PROVE Sound
<1>1. Families
  BY Zenon DEF Init, Families, OnNodes
<1>2. ASSUME NEW n \in Nodes PROVE NodeOK(n)
  <2>. DEFINE e == [ip |-> n, mac |-> n, fd |-> NoFd]
  <2>1. e \in Entry /\ e.ip = n /\ e.mac = n /\ e.fd = NoFd
    BY Zenon DEF Entry, Ips
  <2>2. cache[n] = <<e>>
    BY Zenon DEF Init
  <2>. HIDE DEF e
  <2>3. <<e>> \in Seq(Entry) /\ DOMAIN <<e>> = {1} /\ <<e>>[1] = e
    BY <2>1
  <2>4. CacheOK(cache[n], conn[n])
    BY <2>1, <2>2, <2>3 DEF CacheOK, NoTwins
  <2>5. CallOK(call[n], backlog[n], conn[n])
    BY Zenon DEF Init, CallOK, CallState, Idle
  <2>6. conn[n] \in Table
    BY Zenon DEF Init, Table
  <2>. QED  BY <2>4, <2>5, <2>6 DEF Init, NodeOK
<1>. QED  BY <1>1, <1>2, Zenon DEF Sound

(* Every step preserves the invariant. *)
LEMMA NextSound == ASSUME Sound, [Next]_vars PROVE Sound'
<1>1. CASE UNCHANGED vars
  <2>1. ASSUME NEW m \in Nodes PROVE NodeOK(m)'
    <3>1. NodeOK(m) /\ frames[m] \in Seq(SoundFrame)
      BY Zenon DEF Sound, NodeOK
    <3>. QED  BY <1>1, <3>1, OtherNode, Zenon DEF vars, arpVars
  <2>. QED  BY <1>1, <2>1, Zenon DEF Sound, Families, OnNodes, vars, arpVars
<1>2. ASSUME NEW n \in Nodes, process_frame(n) PROVE Sound'
  BY <1>2, RequestStep, ResponseStep, Zenon DEF process_frame
<1>3. ASSUME NEW n \in Nodes, Accept(n) PROVE Sound'
  BY <1>3, AcceptStep, Zenon
<1>4. ASSUME NEW n \in Nodes, LoseFrame(n) PROVE Sound'
  BY <1>4, LoseStep, Zenon
<1>5. ASSUME NEW n \in Nodes,
             (\E ip \in Ips : Areq(n, ip)) \/ AreqTimeout(n) \/ AreqReturn(n)
      PROVE  Sound'
  BY <1>5, CallerStep, Zenon
<1>. QED  BY <1>1, <1>2, <1>3, <1>4, <1>5, Zenon DEF Next, Daemon

---------------------------------------------------------------------------
(* The theorems. *)

(* The inductive invariant of the daemons and their callers holds of every   *)
(* behaviour of arp.c and areq, with any frames lost.                        *)
THEOREM ArpInvariant == Spec => []ArpInv
<1>1. Init => ArpInv
  BY InitSound, NodeByNode, Zenon DEF Sound
<1>2. ArpInv /\ [Next]_vars => ArpInv'
  <2>1. SUFFICES ASSUME ArpInv, [Next]_vars PROVE ArpInv'
    BY Zenon
  <2>2. Sound
    BY <2>1, NodeByNode, Zenon DEF Sound
  <2>3. Sound'
    BY <2>1, <2>2, NextSound, Zenon
  <2>4. (ArpInv <=> Sound)'
    BY NodeByNode, PTL DEF Sound
  <2>. QED  BY <2>3, <2>4, Zenon
<1>. QED  BY <1>1, <1>2, PTL DEF Spec

(* The state of the daemons and their callers keeps its type. *)
THEOREM ArpTypeCorrect == Spec => []TypeOK
<1>1. ArpInv => TypeOK
  BY Zenon DEF ArpInv
<1>. QED  BY <1>1, ArpInvariant, PTL

(* No cache ever holds a wrong hardware address, for any number of nodes.    *)
THEOREM CachesAreSound == Spec => []CacheSound
<1>1. ArpInv => CacheSound
  BY Zenon DEF ArpInv, DaemonInv
<1>. QED  BY <1>1, ArpInvariant, PTL

(* A descriptor waiting in an entry is open and asked for that entry's IP,   *)
(* whatever the order in which descriptors are leaked, closed and reused.    *)
THEOREM WaitersAsked == Spec => []WaiterAsked
<1>1. ArpInv => WaiterAsked
  BY Zenon DEF ArpInv, DaemonInv
<1>. QED  BY <1>1, ArpInvariant, PTL

(* areq never returns the hardware address of another node. *)
THEOREM AnswersAreForTheQuestion == Spec => []AnswersMatch
<1>1. ArpInv => AnswersMatch
  BY Zenon DEF ArpInv, CallInv
<1>. QED  BY <1>1, ArpInvariant, PTL

(* A cache without twins has no more entries than there are IPs. *)
LEMMA FewEntries ==
    ASSUME NEW c \in Seq(Entry), NoTwins(c)
    PROVE  Len(c) <= Cardinality(Ips) /\ Cardinality(Ips) \in Nat
<1>. DEFINE g == [i \in 1..Len(c) |-> c[i].ip]
<1>1. IsFiniteSet(Ips)
  BY ArpAssumption, FS_Union, Zenon DEF Ips
<1>2. DOMAIN c = 1..Len(c) /\ Len(c) \in Nat
  OBVIOUS
<1>3. g \in [1..Len(c) -> Ips]
  BY <1>2, EntryAt, Zenon
<1>4. \A i, j \in 1..Len(c) : g[i] = g[j] => i = j
  BY <1>2, Zenon DEF NoTwins
<1>5. g \in Injection(1..Len(c), Ips)
  BY <1>3, <1>4, Zenon DEF Injection, IsInjective
<1>6. Cardinality(1..Len(c)) <= Cardinality(Ips)
  BY <1>1, <1>5, FS_Injection, Zenon
<1>7. Cardinality(1..Len(c)) = Len(c)
  BY <1>2, FS_Interval
<1>8. Cardinality(Ips) \in Nat
  BY <1>1, FS_CardinalityType, Zenon
<1>. QED  BY <1>6, <1>7, <1>8, Zenon

(* With at most NUM_CACHE_ENTRIES IPs the daemon never writes behind         *)
(* arp_cache.                                                                *)
THEOREM CacheNeverOverruns == Spec => []NeverOverruns
<1>1. ArpInv => NeverOverruns
  <2>1. SUFFICES ASSUME ArpInv, Cardinality(Ips) <= NumEntries, NEW n \in Nodes
                 PROVE  daemon[n] = "up" /\ Len(cache[n]) <= NumEntries
    BY Zenon DEF NeverOverruns
  <2>2. cache[n] \in Seq(Entry) /\ NoTwins(cache[n])
    BY <2>1, Zenon DEF ArpInv, TypeOK, DaemonInv
  <2>3. Len(cache[n]) <= Cardinality(Ips) /\ Cardinality(Ips) \in Nat
    BY <2>2, FewEntries, Zenon
  <2>4. Len(cache[n]) \in Nat
    BY <2>2
  <2>5. Len(cache[n]) <= NumEntries
    BY <2>1, <2>3, <2>4, ArpAssumption
  <2>6. ~(Len(cache[n]) > NumEntries)
    BY <2>4, <2>5, ArpAssumption
  <2>7. daemon[n] \in {"up", "undefined"}
    BY <2>1, Zenon DEF ArpInv, TypeOK
  <2>. QED  BY <2>1, <2>5, <2>6, <2>7, Zenon DEF ArpInv, DaemonInv
<1>. QED  BY <1>1, ArpInvariant, PTL

---------------------------------------------------------------------------
(* Zeroed answers. *)

(* An entry that is complete does not make a cache incomplete. *)
LEMMA InsertComplete ==
    ASSUME NEW c \in Seq(Entry), NEW e \in Entry, e.mac # NoMac
    PROVE  /\ \A k \in DOMAIN c : Incomplete([c EXCEPT ![k] = e]) => Incomplete(c)
           /\ Incomplete(Append(c, e)) => Incomplete(c)
<1>1. ASSUME NEW k \in DOMAIN c, Incomplete([c EXCEPT ![k] = e]) PROVE Incomplete(c)
  <2>. DEFINE d == [c EXCEPT ![k] = e]
  <2>1. DOMAIN d = DOMAIN c /\ \A i \in DOMAIN c : d[i] = IF i = k THEN e ELSE c[i]
    BY Zenon
  <2>. HIDE DEF d
  <2>2. PICK i \in DOMAIN d : d[i].mac = NoMac
    BY <1>1, Zenon DEF Incomplete, d
  <2>. QED  BY <2>1, <2>2, Zenon DEF Incomplete
<1>2. ASSUME Incomplete(Append(c, e)) PROVE Incomplete(c)
  <2>. DEFINE d == Append(c, e)
  <2>1. DOMAIN d = 1..(Len(c) + 1) /\ DOMAIN c = 1..Len(c) /\ Len(c) \in Nat
        /\ \A i \in DOMAIN d : d[i] = IF i = Len(c) + 1 THEN e ELSE c[i]
    OBVIOUS
  <2>. HIDE DEF d
  <2>2. PICK i \in DOMAIN d : d[i].mac = NoMac
    BY <1>2, Zenon DEF Incomplete, d
  <2>3. i # Len(c) + 1
    BY <2>1, <2>2, Zenon
  <2>4. i \in DOMAIN c
    BY <2>1, <2>3
  <2>. QED  BY <2>1, <2>2, <2>3, <2>4, Zenon DEF Incomplete
<1>. QED  BY <1>1, <1>2, Zenon

(* Completing an entry with a node's address leaves no zero in it. *)
LEMMA CompletedComplete ==
    ASSUME NEW c \in Seq(Entry), NoTwins(c), NEW m \in Nodes
    PROVE  /\ Incomplete(Completed(c, m, m)) => Incomplete(c)
           /\ Known(c, m) => Completed(c, m, m)[EntryOf(Completed(c, m, m), m)].mac = m
<1>1. CASE ~Known(c, m)
  BY <1>1, Zenon DEF Completed
<1>2. CASE Known(c, m)
  <2>. DEFINE k == EntryOf(c, m)
              d == [c EXCEPT ![k].mac = m]
  <2>1. k \in DOMAIN c /\ c[k].ip = m
    BY <1>2, EntryOfKnown, Zenon
  <2>2. c[k] \in Entry
    BY <2>1, EntryAt, Zenon
  <2>. HIDE DEF k
  <2>3. [c[k] EXCEPT !.mac = m] \in Entry
    BY <2>2, Zenon DEF Entry
  <2>4. d \in Seq(Entry) /\ DOMAIN d = DOMAIN c
    BY <2>1, <2>3
  <2>5. \A i \in DOMAIN c : d[i] = IF i = k THEN [c[k] EXCEPT !.mac = m] ELSE c[i]
    BY Zenon
  <2>. HIDE DEF d
  <2>6. \A i \in DOMAIN c : d[i].ip = c[i].ip /\ d[i].mac = IF i = k THEN m ELSE c[i].mac
    BY <2>2, <2>5, Zenon DEF Entry
  <2>7. Incomplete(d) => Incomplete(c)
    <3>1. SUFFICES ASSUME NEW i \in DOMAIN d, d[i].mac = NoMac PROVE Incomplete(c)
      BY Zenon DEF Incomplete
    <3>2. i \in DOMAIN c /\ i # k
      BY <2>4, <2>6, <3>1, ArpAssumption, Zenon
    <3>3. c[i].mac = NoMac
      BY <2>6, <3>1, <3>2, Zenon
    <3>. QED  BY <3>2, <3>3, Zenon DEF Incomplete
  <2>8. NoTwins(d) /\ Known(d, m)
    BY <2>1, <2>4, <2>6, Zenon DEF NoTwins, Known
  <2>9. EntryOf(d, m) \in DOMAIN d /\ d[EntryOf(d, m)].ip = m
    BY <2>4, <2>8, EntryOfKnown, Zenon
  <2>10. EntryOf(d, m) = k
    BY <2>1, <2>4, <2>6, <2>9, Zenon DEF NoTwins
  <2>11. Completed(c, m, m) = d
    BY <1>2, Zenon DEF Completed, d, k
  <2>. QED  BY <2>1, <2>6, <2>7, <2>10, <2>11, Zenon
<1>. QED  BY <1>1, <1>2, Zenon

(* Forgetting who waits changes no hardware address. *)
LEMMA ForgetComplete ==
    ASSUME NEW c \in Seq(Entry), NEW k \in DOMAIN c
    PROVE  Incomplete(ForgetWaiter(c, k)) => Incomplete(c)
<1>. DEFINE d == ForgetWaiter(c, k)
<1>1. c[k] \in Entry
  BY EntryAt, Zenon
<1>2. DOMAIN d = DOMAIN c
      /\ \A i \in DOMAIN c : d[i] = IF i = k THEN [c[k] EXCEPT !.fd = NoFd] ELSE c[i]
  BY Zenon DEF ForgetWaiter
<1>. HIDE DEF d
<1>3. \A i \in DOMAIN c : d[i].mac = c[i].mac
  BY <1>1, <1>2, Zenon DEF Entry
<1>4. Incomplete(d) => Incomplete(c)
  BY <1>2, <1>3, Zenon DEF Incomplete
<1>. QED  BY <1>4, Zenon DEF d

(* A node that a step does not concern, or whose cache only gained addresses. *)
LEMMA RepeatKept ==
    ASSUME NEW m \in Nodes, RepeatOK(m), Incomplete(cache'[m]) => Incomplete(cache[m]),
           calls'[m] = calls[m], backlog'[m] = backlog[m], call'[m] = call[m]
    PROVE  RepeatOK(m)'
BY Zenon DEF RepeatOK, Incomplete

(* insert_into_cache at one node: another entry can only be complete. *)
LEMMA InsertRepeat ==
    ASSUME Sound, NEW n \in Nodes, NEW ip \in Ips, NEW mac \in Nodes,
           insert_into_cache(n, ip, mac, NoFd)
    PROVE  Incomplete(cache'[n]) => Incomplete(cache[n])
<1>. DEFINE e == [ip |-> ip, mac |-> mac, fd |-> NoFd]
            c == cache[n]
<1>1. e \in Entry /\ e.mac # NoMac
  BY ArpAssumption, Zenon DEF Entry
<1>2. c \in Seq(Entry) /\ NoTwins(c) /\ OnNodes(cache)
  BY Zenon DEF Sound, NodeOK, CacheOK, Families
<1>3. CASE Known(c, ip)
  <2>1. EntryOf(c, ip) \in DOMAIN c
    BY <1>2, <1>3, EntryOfKnown, Zenon
  <2>2. cache'[n] = [c EXCEPT ![EntryOf(c, ip)] = e]
    BY <1>2, <1>3, Zenon DEF insert_into_cache, OnNodes
  <2>. HIDE DEF e, c
  <2>3. PICK k \in DOMAIN c : k = EntryOf(c, ip)
    BY <2>1, Zenon
  <2>. QED  BY <1>1, <1>2, <2>2, <2>3, InsertComplete, Zenon DEF c
<1>4. CASE ~Known(c, ip)
  <2>1. cache'[n] = Append(c, e)
    BY <1>2, <1>4, Zenon DEF insert_into_cache, OnNodes
  <2>. HIDE DEF e, c
  <2>. QED  BY <1>1, <1>2, <2>1, InsertComplete, Zenon DEF c
<1>. QED  BY <1>3, <1>4, Zenon

LEMMA RequestRepeat ==
    ASSUME Sound, NEW n \in Nodes, frames[n] # <<>>, \A m \in Nodes : RepeatOK(m),
           handle_request(n, Head(frames[n])), UNCHANGED <<backlog, calls>>
    PROVE  \A m \in Nodes : RepeatOK(m)'
<1>. DEFINE f == Head(frames[n])
            s == f.sender_ip
<1>1. s \in Nodes /\ s \in Ips /\ f.sender_eth = s
  BY HeadFrame, Zenon DEF Sound, NodeOK, Ips
<1>2. cache[n] \in Seq(Entry) /\ NoTwins(cache[n]) /\ OnNodes(cache)
  BY Zenon DEF Sound, NodeOK, CacheOK, Families
<1>3. UNCHANGED call
  BY Zenon DEF handle_request
<1>4. Incomplete(cache'[n]) => Incomplete(cache[n])
  <2>1. CASE f.target_ip = n
    <3>1. insert_into_cache(n, s, s, NoFd)
      BY <1>1, <2>1, Zenon DEF handle_request
    <3>. HIDE DEF s
    <3>. QED  BY <1>1, <3>1, InsertRepeat, Zenon
  <2>2. CASE f.target_ip # n
    <3>1. cache' = [cache EXCEPT ![n] = Completed(@, s, s)]
      BY <1>1, <2>2, Zenon DEF handle_request
    <3>2. cache'[n] = Completed(cache[n], s, s)
      BY <1>2, <3>1, Zenon DEF OnNodes
    <3>. HIDE DEF s
    <3>. QED  BY <1>1, <1>2, <3>2, CompletedComplete
  <2>. QED  BY <2>1, <2>2, Zenon
<1>5. \A m \in Nodes \ {n} : cache'[m] = cache[m]
  BY <1>2, Zenon DEF handle_request, insert_into_cache, OnNodes
<1>6. \A m \in Nodes : Incomplete(cache'[m]) => Incomplete(cache[m])
  BY <1>4, <1>5, Zenon
<1>. QED  BY <1>3, <1>6, RepeatKept, Zenon

LEMMA ResponseRepeat ==
    ASSUME Sound, NEW n \in Nodes, frames[n] # <<>>, \A m \in Nodes : RepeatOK(m),
           handle_response(n, Head(frames[n])), UNCHANGED <<backlog, calls>>
    PROVE  \A m \in Nodes : RepeatOK(m)'
<1>. DEFINE f == Head(frames[n])
            s == f.sender_ip
            c == Completed(cache[n], s, s)
            i == EntryOf(c, s)
<1>1. s \in Nodes /\ f.sender_eth = s
  BY HeadFrame, Zenon DEF Sound, NodeOK
<1>2. CacheOK(cache[n], conn[n]) /\ OnNodes(cache) /\ OnNodes(call)
  BY Zenon DEF Sound, NodeOK, Families
<1>3. CacheOK(c, conn[n]) /\ (Known(c, s) <=> Known(cache[n], s))
  BY <1>1, <1>2, CompletedOK, Zenon
<1>4. /\ Incomplete(c) => Incomplete(cache[n])
      /\ Known(cache[n], s) => c[i].mac = s
  BY <1>1, <1>2, CompletedComplete, Zenon DEF CacheOK
<1>5. CASE ~Known(c, s)
  <2>1. UNCHANGED <<cache, call>>
    BY <1>1, <1>5, Zenon DEF handle_response
  <2>. QED  BY <2>1, RepeatKept, Zenon
<1>6. CASE Known(c, s)
  <2>1. i \in DOMAIN c
    BY <1>3, <1>6, EntryOfKnown, Zenon DEF CacheOK
  <2>2. /\ send_reply(n, c, i, conn[n])
        /\ call' = [call EXCEPT ![n] = Answered(n, c[i].fd, c[i].mac)]
    BY <1>1, <1>6, Zenon DEF handle_response
  <2>3. c[i].mac = s /\ s # NoMac
    BY <1>1, <1>3, <1>4, <1>6, ArpAssumption, Zenon
  <2>. HIDE DEF i, c, s, f
  <2>4. cache'[n] = ForgetWaiter(c, i) /\ \A m \in Nodes \ {n} : cache'[m] = cache[m]
    BY <1>2, <2>2, Zenon DEF send_reply, OnNodes
  <2>5. Incomplete(cache'[n]) => Incomplete(cache[n])
    BY <1>3, <1>4, <2>1, <2>4, ForgetComplete DEF CacheOK
  <2>6. call'[n] = Answered(n, c[i].fd, c[i].mac) /\ \A m \in Nodes \ {n} : call'[m] = call[m]
    BY <1>2, <2>2, Zenon DEF OnNodes
  <2>7. \/ call'[n] = call[n]
        \/ call[n].pc = "waiting" /\ call'[n].pc = "answered" /\ call'[n].mac # NoMac
    <3>1. CASE call[n].pc = "waiting" /\ call[n].fd = c[i].fd
      <4>1. call'[n] = [pc |-> "answered", ip |-> call[n].ip, mac |-> c[i].mac]
        BY <2>6, <3>1, Zenon DEF Answered
      <4>. QED  BY <2>3, <3>1, <4>1
    <3>2. CASE ~(call[n].pc = "waiting" /\ call[n].fd = c[i].fd)
      BY <2>6, <3>2, Zenon DEF Answered
    <3>. QED  BY <3>1, <3>2, Zenon
  <2>8. RepeatOK(n)'
    <3>1. CASE call'[n] = call[n]
      BY <2>5, <3>1, RepeatKept, Zenon
    <3>2. CASE call[n].pc = "waiting" /\ call'[n].pc = "answered" /\ call'[n].mac # NoMac
      <4>1. calls[n] \in Nat /\ calls[n] > 0
        BY <3>2, Zenon DEF RepeatOK
      <4>. QED  BY <3>2, <4>1, Zenon DEF RepeatOK
    <3>. QED  BY <2>7, <3>1, <3>2, Zenon
  <2>9. ASSUME NEW m \in Nodes, m # n PROVE RepeatOK(m)'
    BY <2>4, <2>6, <2>9, RepeatKept, Zenon
  <2>. QED  BY <2>8, <2>9, Zenon
<1>. QED  BY <1>5, <1>6, Zenon

(* A connection served from an incomplete entry, or that starts one. *)
LEMMA AcceptRepeat ==
    ASSUME Sound, NEW n \in Nodes, \A m \in Nodes : RepeatOK(m), Accept(n)
    PROVE  \A m \in Nodes : RepeatOK(m)'
<1>. DEFINE ip == Head(backlog[n])
            fd == Lowest(conn[n])
            open == [conn[n] EXCEPT ![fd] = ip]
            live == call[n].pc = "connecting" /\ Len(backlog[n]) = 1
            i == EntryOf(cache[n], ip)
            q == Tail(backlog[n])
<1>1. /\ CacheOK(cache[n], conn[n]) /\ OnNodes(cache) /\ OnNodes(call) /\ OnNodes(backlog)
      /\ backlog[n] \in Seq(Ips) /\ backlog[n] # <<>> /\ UNCHANGED calls /\ RepeatOK(n)
  BY Zenon DEF Sound, NodeOK, Families, Accept
<1>2. backlog'[n] = q /\ \A m \in Nodes \ {n} : backlog'[m] = backlog[m]
  BY <1>1, Zenon DEF Accept, OnNodes
<1>3. /\ Len(q) = Len(backlog[n]) - 1 /\ Len(q) \in Nat /\ Len(backlog[n]) \in Nat
      /\ (q # <<>> => Len(backlog[n]) > 1)
  <2>1. q \in Seq(Ips) /\ Len(q) = Len(backlog[n]) - 1
    BY <1>1, HeadTailProperties, Zenon
  <2>. HIDE DEF q
  <2>2. Len(q) \in Nat /\ Len(backlog[n]) \in Nat
    BY <1>1, <2>1
  <2>3. q # <<>> => Len(q) # 0
    BY <2>1, EmptySeq, Zenon
  <2>. QED  BY <2>1, <2>2, <2>3
<1>4. calls[n] \in Nat /\ calls[n] > 0 /\ call[n].pc # "waiting"
  BY <1>1, Zenon DEF RepeatOK, Sound, NodeOK, CallOK
<1>5. call[n].pc = "connecting" /\ ~live => calls[n] > 1
  <2>1. PICK k \in Nat \ {0} : k = Len(backlog[n])
    BY <1>1, EmptySeq, Zenon
  <2>2. k # 1 => k > 1
    OBVIOUS
  <2>. QED  BY <1>1, <2>1, <2>2, Zenon DEF RepeatOK
<1>6. \A m \in Nodes \ {n} : cache'[m] = cache[m] /\ call'[m] = call[m]
  BY <1>1, Zenon DEF Accept, send_reply, insert_into_cache, OnNodes
<1>7. RepeatOK(n)'
  <2>1. CASE Known(cache[n], ip)
    <3>1. /\ send_reply(n, cache[n], i, open)
          /\ call' = IF live
                     THEN [call EXCEPT ![n] = [pc |-> "answered", ip |-> @.ip,
                                               mac |-> cache[n][i].mac]]
                     ELSE call
      BY <2>1, Zenon DEF Accept
    <3>2. i \in DOMAIN cache[n]
      BY <1>1, <2>1, EntryOfKnown, Zenon DEF CacheOK
    <3>. HIDE DEF i, open, live
    <3>3. cache'[n] = ForgetWaiter(cache[n], i)
      BY <1>1, <3>1, Zenon DEF send_reply, OnNodes
    <3>4. Incomplete(cache'[n]) => Incomplete(cache[n])
      BY <1>1, <3>2, <3>3, ForgetComplete, Zenon DEF CacheOK
    <3>5. call'[n] = IF live THEN [pc |-> "answered", ip |-> call[n].ip,
                                   mac |-> cache[n][i].mac]
                     ELSE call[n]
      BY <1>1, <3>1, Zenon DEF OnNodes
    <3>6. live /\ cache[n][i].mac = NoMac => calls[n] > 1
      BY <1>1, <3>2, Zenon DEF RepeatOK, Incomplete, live
    <3>7. CASE live
      <4>1. /\ call'[n].pc = "answered" /\ (call'[n].mac = NoMac => calls[n] > 1)
        BY <3>5, <3>6, <3>7
      <4>. QED  BY <1>1, <1>4, <4>1, Zenon DEF RepeatOK
    <3>8. CASE ~live
      <4>1. call'[n] = call[n]
        BY <3>5, <3>8, Zenon
      <4>. QED  BY <1>1, <1>4, <1>5, <3>8, <4>1, Zenon DEF RepeatOK
    <3>. QED  BY <3>7, <3>8, Zenon
  <2>2. CASE ~Known(cache[n], ip)
    <3>1. call' = IF live
                  THEN [call EXCEPT ![n] = [pc |-> "waiting", ip |-> @.ip, fd |-> fd]]
                  ELSE call
      BY <2>2, Zenon DEF Accept
    <3>. HIDE DEF live, fd
    <3>2. call'[n] = IF live THEN [pc |-> "waiting", ip |-> call[n].ip, fd |-> fd]
                     ELSE call[n]
      BY <1>1, <3>1, Zenon DEF OnNodes
    <3>3. CASE live
      <4>1. call'[n].pc = "waiting"
        BY <3>2, <3>3
      <4>. QED  BY <1>1, <1>4, <4>1, Zenon DEF RepeatOK
    <3>4. CASE ~live
      <4>1. call'[n] = call[n]
        BY <3>2, <3>4, Zenon
      <4>. QED  BY <1>1, <1>4, <1>5, <3>4, <4>1, Zenon DEF RepeatOK
    <3>. QED  BY <3>3, <3>4, Zenon
  <2>. QED  BY <2>1, <2>2, Zenon
<1>8. ASSUME NEW m \in Nodes, m # n PROVE RepeatOK(m)'
  BY <1>1, <1>2, <1>6, <1>8, RepeatKept, Zenon
<1>. QED  BY <1>7, <1>8, Zenon

(* A call that finds something of an earlier call is not the first. *)
LEMMA CallerRepeat ==
    ASSUME Sound, NEW n \in Nodes, \A m \in Nodes : RepeatOK(m),
           calls = [m \in Nodes |-> calls[m]],
           (\E ip \in Ips : Areq(n, ip)) \/ AreqTimeout(n) \/ AreqReturn(n)
    PROVE  \A m \in Nodes : RepeatOK(m)'
<1>1. /\ OnNodes(call) /\ OnNodes(backlog) /\ RepeatOK(n) /\ UNCHANGED cache
      /\ backlog[n] \in Seq(Ips)
  BY Zenon DEF Sound, Families, NodeOK, Areq, AreqTimeout, AreqReturn, arpVars
<1>2. \A m \in Nodes \ {n} :
         call'[m] = call[m] /\ backlog'[m] = backlog[m] /\ calls'[m] = calls[m]
  BY <1>1, Zenon DEF Areq, AreqTimeout, AreqReturn, OnNodes
<1>3. RepeatOK(n)'
  <2>1. CASE AreqTimeout(n) \/ AreqReturn(n)
    <3>1. call'[n] = Idle /\ call[n].pc # "idle" /\ UNCHANGED <<backlog, calls>>
      BY <1>1, <2>1, Zenon DEF AreqTimeout, AreqReturn, OnNodes
    <3>2. calls[n] \in Nat /\ calls[n] > 0 /\ Idle.pc = "idle"
      BY <1>1, <3>1, Zenon DEF RepeatOK, Idle
    <3>. QED  BY <3>1, <3>2, Zenon DEF RepeatOK
  <2>2. ASSUME NEW ip \in Ips, Areq(n, ip) PROVE RepeatOK(n)'
    <3>1. /\ call[n].pc = "idle" /\ call'[n].pc = "connecting"
          /\ backlog'[n] = Append(backlog[n], ip) /\ calls'[n] = calls[n] + 1
      BY <1>1, <2>2, Zenon DEF Areq, OnNodes
    <3>2. Len(backlog'[n]) > 1 => backlog[n] # <<>>
      BY <1>1, <3>1
    <3>3. calls[n] \in Nat /\ (backlog[n] # <<>> \/ Incomplete(cache[n]) => calls[n] > 0)
      BY <1>1, Zenon DEF RepeatOK
    <3>4. calls'[n] \in Nat /\ calls'[n] > 0
          /\ (backlog[n] # <<>> \/ Incomplete(cache[n]) => calls'[n] > 1)
      BY <3>1, <3>3
    <3>5. Incomplete(cache'[n]) <=> Incomplete(cache[n])
      BY <1>1, Zenon
    <3>. QED  BY <3>1, <3>2, <3>4, <3>5, Zenon DEF RepeatOK
  <2>. QED  BY <2>1, <2>2, Zenon
<1>4. ASSUME NEW m \in Nodes, m # n PROVE RepeatOK(m)'
  BY <1>1, <1>2, <1>4, RepeatKept, Zenon
<1>. QED  BY <1>3, <1>4, Zenon

(* Every step keeps the calls counted. *)
LEMMA NextRepeat == ASSUME Sound, RepeatInv, [Next]_vars PROVE RepeatInv'
<1>1. calls' = [m \in Nodes |-> calls'[m]]
  BY Zenon DEF RepeatInv, Next, Daemon, process_frame, Accept, Areq, AreqTimeout, AreqReturn,
         LoseFrame, vars
<1>2. CASE UNCHANGED vars
  BY <1>1, <1>2, RepeatKept, Zenon DEF RepeatInv, vars, arpVars
<1>3. ASSUME NEW n \in Nodes, process_frame(n) PROVE \A m \in Nodes : RepeatOK(m)'
  BY <1>3, RequestRepeat, ResponseRepeat, Zenon DEF process_frame, RepeatInv
<1>4. ASSUME NEW n \in Nodes, Accept(n) PROVE \A m \in Nodes : RepeatOK(m)'
  BY <1>4, AcceptRepeat, Zenon DEF RepeatInv
<1>5. ASSUME NEW n \in Nodes, LoseFrame(n) PROVE \A m \in Nodes : RepeatOK(m)'
  BY <1>5, RepeatKept, Zenon DEF LoseFrame, RepeatInv
<1>6. ASSUME NEW n \in Nodes,
             (\E ip \in Ips : Areq(n, ip)) \/ AreqTimeout(n) \/ AreqReturn(n)
      PROVE  \A m \in Nodes : RepeatOK(m)'
  BY <1>6, CallerRepeat, Zenon DEF RepeatInv
<1>. QED  BY <1>1, <1>2, <1>3, <1>4, <1>5, <1>6, Zenon DEF Next, Daemon, RepeatInv

(* Nobody has called at first, and no entry is incomplete. *)
LEMMA InitRepeat == ASSUME Init PROVE RepeatInv
<1>1. calls = [m \in Nodes |-> calls[m]]
  BY Zenon DEF Init
<1>2. ASSUME NEW n \in Nodes PROVE RepeatOK(n)
  <2>. DEFINE e == [ip |-> n, mac |-> n, fd |-> NoFd]
  <2>1. cache[n] = <<e>> /\ e.mac # NoMac
    BY ArpAssumption, Zenon DEF Init
  <2>. HIDE DEF e
  <2>2. DOMAIN <<e>> = {1} /\ <<e>>[1] = e
    OBVIOUS
  <2>3. ~Incomplete(cache[n])
    BY <2>1, <2>2, Zenon DEF Incomplete
  <2>4. calls[n] = 0 /\ call[n].pc = "idle" /\ backlog[n] = <<>>
    BY Zenon DEF Init, Idle
  <2>. QED  BY <2>3, <2>4 DEF RepeatOK
<1>. QED  BY <1>1, <1>2, Zenon DEF RepeatInv

(* areq returns the zeroed address of an incomplete entry only to a node that *)
(* called it before, however connections wait in the backlog, time out and    *)
(* are accepted late.                                                         *)
THEOREM ZeroesOnlyRepeated == Spec => []ZeroOnlyRepeated
<1>1. Init => RepeatInv
  BY InitRepeat, Zenon
<1>2. ArpInv /\ RepeatInv /\ [Next]_vars => RepeatInv'
  BY NodeByNode, NextRepeat, Zenon DEF Sound
<1>3. RepeatInv => ZeroOnlyRepeated
  BY Zenon DEF RepeatInv, RepeatOK, ZeroOnlyRepeated
<1>. QED  BY <1>1, <1>2, <1>3, ArpInvariant, PTL DEF Spec
---------------------------------------------------------------------------
(* What was learned. *)

(* Overwriting the entry of an IP with its address. *)
LEMMA OverwriteLearned ==
    ASSUME NEW c \in Seq(Entry), NEW k \in DOMAIN c, NEW e, c[k].ip = e.ip, e.mac = e.ip,
           NEW ip, Learned(c, ip)
    PROVE  Learned([c EXCEPT ![k] = e], ip)
<1>. DEFINE d == [c EXCEPT ![k] = e]
<1>1. PICK i \in DOMAIN c : c[i].ip = ip /\ c[i].mac = ip
  BY Zenon DEF Learned
<1>2. DOMAIN d = DOMAIN c /\ \A j \in DOMAIN c : d[j] = IF j = k THEN e ELSE c[j]
  BY Zenon
<1>. HIDE DEF d
<1>3. d[i].ip = ip /\ d[i].mac = ip
  BY <1>1, <1>2, Zenon
<1>. QED  BY <1>1, <1>2, <1>3, Zenon DEF Learned, d

(* Appending any entry. *)
LEMMA AppendLearned ==
    ASSUME NEW c \in Seq(Entry), NEW e, NEW ip, Learned(c, ip)
    PROVE  Learned(Append(c, e), ip)
<1>. DEFINE d == Append(c, e)
<1>1. PICK i \in DOMAIN c : c[i].ip = ip /\ c[i].mac = ip
  BY Zenon DEF Learned
<1>2. i \in DOMAIN d /\ d[i] = c[i]
  OBVIOUS
<1>. HIDE DEF d
<1>. QED  BY <1>1, <1>2, Zenon DEF Learned, d

(* Completing an entry with a node's address. *)
LEMMA CompletedLearned ==
    ASSUME NEW c \in Seq(Entry), NoTwins(c), NEW m \in Nodes, NEW ip, Learned(c, ip)
    PROVE  Learned(Completed(c, m, m), ip)
<1>1. CASE ~Known(c, m)
  BY <1>1, Zenon DEF Completed
<1>2. CASE Known(c, m)
  <2>. DEFINE k == EntryOf(c, m)
              e == [c[k] EXCEPT !.mac = m]
  <2>1. k \in DOMAIN c /\ c[k].ip = m
    BY <1>2, EntryOfKnown, Zenon
  <2>2. c[k] \in Entry
    BY <2>1, EntryAt, Zenon
  <2>. HIDE DEF k
  <2>3. e.ip = m /\ e.mac = m
    BY <2>1, <2>2, Zenon DEF Entry
  <2>4. Completed(c, m, m) = [c EXCEPT ![k] = e]
    BY <1>2, Zenon DEF Completed, k
  <2>. HIDE DEF e
  <2>5. c[k].ip = e.ip /\ e.mac = e.ip
    BY <2>1, <2>3, Zenon
  <2>6. Learned([c EXCEPT ![k] = e], ip)
    BY <2>1, <2>5, OverwriteLearned, Zenon
  <2>. QED  BY <2>4, <2>6, Zenon
<1>. QED  BY <1>1, <1>2, Zenon

(* Forgetting who waits. *)
LEMMA ForgetLearned ==
    ASSUME NEW c \in Seq(Entry), NEW k \in DOMAIN c, NEW ip, Learned(c, ip)
    PROVE  Learned(ForgetWaiter(c, k), ip)
<1>. DEFINE d == ForgetWaiter(c, k)
<1>1. c[k] \in Entry
  BY EntryAt, Zenon
<1>2. DOMAIN d = DOMAIN c
      /\ \A i \in DOMAIN c : d[i] = IF i = k THEN [c[k] EXCEPT !.fd = NoFd] ELSE c[i]
  BY Zenon DEF ForgetWaiter
<1>. HIDE DEF d
<1>3. \A i \in DOMAIN c : d[i].ip = c[i].ip /\ d[i].mac = c[i].mac
  BY <1>1, <1>2, Zenon DEF Entry
<1>4. Learned(d, ip)
  BY <1>2, <1>3, Zenon DEF Learned
<1>. QED  BY <1>4, Zenon DEF d

(* What a step may do to a node that has learned an address. *)
Keeps(n) ==
    \A ip \in Nodes : Learned(cache[n], ip) =>
        /\ Learned(cache'[n], ip)
        /\ call'[n] # call[n] /\ call'[n].pc = "answered" /\ call'[n].ip = ip =>
              call'[n].mac = ip

LEMMA KeepsSilent ==
    ASSUME NEW m, cache'[m] = cache[m], call'[m] = call[m] \/ call'[m].pc # "answered"
    PROVE  Keeps(m)
BY Zenon DEF Keeps

LEMMA RequestKeeps ==
    ASSUME Sound, NEW n \in Nodes, frames[n] # <<>>,
           handle_request(n, Head(frames[n]))
    PROVE  \A m \in Nodes : Keeps(m)
<1>. DEFINE f == Head(frames[n])
            s == f.sender_ip
            c == cache[n]
<1>1. s \in Nodes /\ f.sender_eth = s
  BY HeadFrame, Zenon DEF Sound, NodeOK
<1>2. c \in Seq(Entry) /\ NoTwins(c) /\ OnNodes(cache)
  BY Zenon DEF Sound, NodeOK, CacheOK, Families
<1>3. UNCHANGED call
  BY Zenon DEF handle_request
<1>4. \A m \in Nodes \ {n} : cache'[m] = cache[m]
  BY <1>2, Zenon DEF handle_request, insert_into_cache, OnNodes
<1>5. ASSUME NEW ip, Learned(c, ip) PROVE Learned(cache'[n], ip)
  <2>1. CASE f.target_ip = n
    <3>. DEFINE e == [ip |-> s, mac |-> s, fd |-> NoFd]
    <3>1. insert_into_cache(n, s, s, NoFd)
      BY <1>1, <2>1, Zenon DEF handle_request
    <3>. HIDE DEF s
    <3>2. e.ip = s /\ e.mac = s
      BY Zenon
    <3>3. CASE Known(c, s)
      <4>1. PICK k \in DOMAIN c : k = EntryOf(c, s) /\ c[k].ip = s
        BY <1>2, <3>3, EntryOfKnown, Zenon
      <4>2. cache'[n] = [c EXCEPT ![k] = e]
        BY <1>2, <3>1, <3>3, <4>1, Zenon DEF insert_into_cache, OnNodes
      <4>. HIDE DEF e, c
      <4>3. c[k].ip = e.ip /\ e.mac = e.ip
        BY <3>2, <4>1, Zenon
      <4>4. Learned([c EXCEPT ![k] = e], ip)
        BY <1>2, <1>5, <4>1, <4>3, OverwriteLearned, Zenon
      <4>. QED  BY <4>2, <4>4, Zenon
    <3>4. CASE ~Known(c, s)
      <4>1. cache'[n] = Append(c, e)
        BY <1>2, <3>1, <3>4, Zenon DEF insert_into_cache, OnNodes
      <4>. HIDE DEF e, c
      <4>. QED  BY <1>2, <1>5, <4>1, AppendLearned, Zenon
    <3>. QED  BY <3>3, <3>4, Zenon
  <2>2. CASE f.target_ip # n
    <3>1. cache' = [cache EXCEPT ![n] = Completed(@, s, s)]
      BY <1>1, <2>2, Zenon DEF handle_request
    <3>2. cache'[n] = Completed(c, s, s)
      BY <1>2, <3>1, Zenon DEF OnNodes
    <3>. HIDE DEF s, c
    <3>. QED  BY <1>1, <1>2, <1>5, <3>2, CompletedLearned, Zenon
  <2>. QED  BY <2>1, <2>2, Zenon
<1>6. Keeps(n)
  BY <1>3, <1>5, Zenon DEF Keeps
<1>7. ASSUME NEW m \in Nodes, m # n PROVE Keeps(m)
  BY <1>3, <1>4, <1>7, KeepsSilent, Zenon
<1>. QED  BY <1>6, <1>7, Zenon

(* A reply: the answer given is the one just completed. *)
LEMMA ResponseKeeps ==
    ASSUME Sound, Sound', NEW n \in Nodes, frames[n] # <<>>,
           handle_response(n, Head(frames[n]))
    PROVE  \A m \in Nodes : Keeps(m)
<1>. DEFINE f == Head(frames[n])
            s == f.sender_ip
            c == Completed(cache[n], s, s)
            i == EntryOf(c, s)
<1>1. s \in Nodes /\ f.sender_eth = s
  BY HeadFrame, Zenon DEF Sound, NodeOK
<1>2. CacheOK(cache[n], conn[n]) /\ OnNodes(cache) /\ OnNodes(call)
  BY Zenon DEF Sound, NodeOK, Families
<1>3. CacheOK(c, conn[n]) /\ (Known(c, s) <=> Known(cache[n], s))
  BY <1>1, <1>2, CompletedOK, Zenon
<1>4. Known(cache[n], s) => c[i].mac = s
  BY <1>1, <1>2, CompletedComplete, Zenon DEF CacheOK
<1>5. CASE ~Known(c, s)
  <2>1. UNCHANGED <<cache, call>>
    BY <1>1, <1>5, Zenon DEF handle_response
  <2>. QED  BY <2>1, KeepsSilent, Zenon
<1>6. CASE Known(c, s)
  <2>1. i \in DOMAIN c
    BY <1>3, <1>6, EntryOfKnown, Zenon DEF CacheOK
  <2>2. /\ send_reply(n, c, i, conn[n])
        /\ call' = [call EXCEPT ![n] = Answered(n, c[i].fd, c[i].mac)]
    BY <1>1, <1>6, Zenon DEF handle_response
  <2>3. c[i].mac = s /\ s # NoMac
    BY <1>1, <1>3, <1>4, <1>6, ArpAssumption, Zenon
  <2>4. ASSUME NEW ip, Learned(cache[n], ip) PROVE Learned(c, ip)
    BY <1>1, <1>2, <2>4, CompletedLearned, Zenon DEF CacheOK
  <2>. HIDE DEF i, c, s, f
  <2>5. cache'[n] = ForgetWaiter(c, i) /\ \A m \in Nodes \ {n} : cache'[m] = cache[m]
    BY <1>2, <2>2, Zenon DEF send_reply, OnNodes
  <2>6. ASSUME NEW ip, Learned(cache[n], ip) PROVE Learned(cache'[n], ip)
    BY <1>3, <2>1, <2>4, <2>5, <2>6, ForgetLearned, Zenon DEF CacheOK
  <2>7. call'[n] = Answered(n, c[i].fd, c[i].mac) /\ \A m \in Nodes \ {n} : call'[m] = call[m]
    BY <1>2, <2>2, Zenon DEF OnNodes
  <2>8. call'[n] = call[n] \/ (call'[n].pc = "answered" /\ call'[n].mac = s)
    <3>1. CASE call[n].pc = "waiting" /\ call[n].fd = c[i].fd
      <4>1. call'[n] = [pc |-> "answered", ip |-> call[n].ip, mac |-> c[i].mac]
        BY <2>7, <3>1, Zenon DEF Answered
      <4>. QED  BY <2>3, <4>1
    <3>2. CASE ~(call[n].pc = "waiting" /\ call[n].fd = c[i].fd)
      BY <2>7, <3>2, Zenon DEF Answered
    <3>. QED  BY <3>1, <3>2, Zenon
  <2>9. call'[n].pc = "answered" => call'[n].mac \in {NoMac, call'[n].ip}
    BY Zenon DEF Sound, NodeOK, CallOK
  <2>10. Keeps(n)
    BY <2>3, <2>6, <2>8, <2>9, Zenon DEF Keeps
  <2>11. ASSUME NEW m \in Nodes, m # n PROVE Keeps(m)
    BY <2>5, <2>7, <2>11, KeepsSilent, Zenon
  <2>. QED  BY <2>10, <2>11, Zenon
<1>. QED  BY <1>5, <1>6, Zenon

(* A connection is answered from the one entry its IP has. *)
LEMMA AcceptKeeps ==
    ASSUME Sound, NEW n \in Nodes, Accept(n)
    PROVE  \A m \in Nodes : Keeps(m)
<1>. DEFINE ip == Head(backlog[n])
            fd == Lowest(conn[n])
            open == [conn[n] EXCEPT ![fd] = ip]
            live == call[n].pc = "connecting" /\ Len(backlog[n]) = 1
            i == EntryOf(cache[n], ip)
            c == cache[n]
<1>1. /\ c \in Seq(Entry) /\ NoTwins(c) /\ OnNodes(cache) /\ OnNodes(call)
      /\ backlog[n] \in Seq(Ips) /\ backlog[n] # <<>>
      /\ CallOK(call[n], backlog[n], conn[n])
  BY Zenon DEF Sound, NodeOK, CacheOK, Families, Accept
<1>2. \A m \in Nodes \ {n} : cache'[m] = cache[m] /\ call'[m] = call[m]
  BY <1>1, Zenon DEF Accept, send_reply, insert_into_cache, OnNodes
<1>3. live => ip = call[n].ip
  BY <1>1, TailLast, Zenon DEF CallOK
<1>4. Keeps(n)
  <2>1. CASE Known(c, ip)
    <3>1. /\ send_reply(n, c, i, open)
          /\ call' = IF live
                     THEN [call EXCEPT ![n] = [pc |-> "answered", ip |-> @.ip,
                                               mac |-> c[i].mac]]
                     ELSE call
      BY <2>1, Zenon DEF Accept
    <3>2. i \in DOMAIN c /\ c[i].ip = ip
      BY <1>1, <2>1, EntryOfKnown, Zenon
    <3>. HIDE DEF i, open, live, ip
    <3>3. cache'[n] = ForgetWaiter(c, i)
      BY <1>1, <3>1, Zenon DEF send_reply, OnNodes
    <3>4. call'[n] = IF live THEN [pc |-> "answered", ip |-> call[n].ip, mac |-> c[i].mac]
                     ELSE call[n]
      BY <1>1, <3>1, Zenon DEF OnNodes
    <3>5. ASSUME NEW x, Learned(c, x) PROVE Learned(cache'[n], x)
      BY <1>1, <3>2, <3>3, <3>5, ForgetLearned, Zenon
    <3>6. ASSUME NEW x, Learned(c, x), x = ip PROVE c[i].mac = x
      BY <1>1, <3>2, <3>6, Zenon DEF Learned, NoTwins
    <3>7. live => call'[n].ip = ip /\ call'[n].mac = c[i].mac
      BY <1>3, <3>4
    <3>8. ~live => call'[n] = call[n]
      BY <3>4, Zenon
    <3>. QED  BY <3>5, <3>6, <3>7, <3>8, Zenon DEF Keeps
  <2>2. CASE ~Known(c, ip)
    <3>. DEFINE e == [ip |-> ip, mac |-> NoMac, fd |-> fd]
    <3>1. /\ insert_into_cache(n, ip, NoMac, fd)
          /\ call' = IF live
                     THEN [call EXCEPT ![n] = [pc |-> "waiting", ip |-> @.ip, fd |-> fd]]
                     ELSE call
      BY <2>2, Zenon DEF Accept
    <3>. HIDE DEF live, fd, ip
    <3>2. cache'[n] = Append(c, e)
      BY <1>1, <2>2, <3>1, Zenon DEF insert_into_cache, OnNodes
    <3>3. call'[n] = call[n] \/ call'[n].pc = "waiting"
      BY <1>1, <3>1, Zenon DEF OnNodes
    <3>. HIDE DEF e, c
    <3>4. ASSUME NEW x, Learned(c, x) PROVE Learned(cache'[n], x)
      BY <1>1, <3>2, <3>4, AppendLearned, Zenon
    <3>. QED  BY <3>3, <3>4, Zenon DEF Keeps, c
  <2>. QED  BY <2>1, <2>2, Zenon
<1>5. ASSUME NEW m \in Nodes, m # n PROVE Keeps(m)
  BY <1>2, <1>5, KeepsSilent, Zenon
<1>. QED  BY <1>4, <1>5, Zenon

(* Every step. *)
LEMMA NextKeeps ==
    ASSUME Sound, Sound', [Next]_vars
    PROVE  \A m \in Nodes : Keeps(m)
<1>1. CASE UNCHANGED vars
  BY <1>1, KeepsSilent, Zenon DEF vars, arpVars
<1>2. ASSUME NEW n \in Nodes, process_frame(n) PROVE \A m \in Nodes : Keeps(m)
  BY <1>2, RequestKeeps, ResponseKeeps, Zenon DEF process_frame
<1>3. ASSUME NEW n \in Nodes, Accept(n) PROVE \A m \in Nodes : Keeps(m)
  BY <1>3, AcceptKeeps, Zenon
<1>4. ASSUME NEW n \in Nodes, LoseFrame(n) PROVE \A m \in Nodes : Keeps(m)
  BY <1>4, KeepsSilent, Zenon DEF LoseFrame
<1>5. ASSUME NEW n \in Nodes,
             (\E ip \in Ips : Areq(n, ip)) \/ AreqTimeout(n) \/ AreqReturn(n)
      PROVE  \A m \in Nodes : Keeps(m)
  <2>1. OnNodes(call) /\ UNCHANGED cache
    BY <1>5, Zenon DEF Sound, Families, Areq, AreqTimeout, AreqReturn, arpVars
  <2>2. \A m \in Nodes : call'[m] = call[m] \/ call'[m].pc # "answered"
    BY <1>5, <2>1 DEF Areq, AreqTimeout, AreqReturn, OnNodes, Idle
  <2>. QED  BY <2>1, <2>2, KeepsSilent, Zenon
<1>. QED  BY <1>1, <1>2, <1>3, <1>4, <1>5, Zenon DEF Next, Daemon

(* A daemon that has learned a node's hardware address never loses it, and   *)
(* from then on answers every areq for that node with it.                    *)
THEOREM LearnsForGood == Spec => LearnedForGood
<1>1. ArpInv /\ ArpInv' /\ [Next]_vars =>
        [\A n, ip \in Nodes : Learned(cache[n], ip) =>
            /\ Learned(cache'[n], ip)
            /\ call'[n] # call[n] /\ call'[n].pc = "answered" /\ call'[n].ip = ip =>
                  call'[n].mac = ip]_vars
  <2>1. SUFFICES ASSUME ArpInv, ArpInv', [Next]_vars PROVE \A n \in Nodes : Keeps(n)
    BY Zenon DEF Keeps
  <2>2. Sound
    BY <2>1, NodeByNode, Zenon DEF Sound
  <2>3. (ArpInv <=> Sound)'
    BY NodeByNode, PTL DEF Sound
  <2>. QED  BY <2>1, <2>2, <2>3, NextKeeps, Zenon
<1>. QED  BY <1>1, ArpInvariant, PTL DEF Spec, LearnedForGood
=============================================================================
