----------------------------- MODULE EchoProofs -----------------------------
(***************************************************************************)
(* Proofs about EchoServer.tla, for any number of clients, descriptors and   *)
(* lines: as long as no thread found another connection in connfd than its   *)
(* own, every open descriptor is served or was leaked, and a client gets     *)
(* back what it wrote.                                                       *)
(***************************************************************************)
EXTENDS EchoServer, TLAPS, SequenceTheorems, WellFoundedInduction

Control == {"none", "created", "loop", "write", "done"}
ThreadState == [pc : Control, fd : Fds \union {NoFd}, line : Nat]

TableTypes ==
    /\ server \in {"select", "time", "echo", "exited"} /\ rset \subseteq Listeners
    /\ connfd \in [Listeners -> Fds \union {NoFd}]
    /\ backlog \in [Listeners -> Seq(Clients)]
    /\ fdtab \in [Fds -> Clients \union {Free}]
    /\ thread \in [Clients -> ThreadState]
    /\ client \in [Clients -> {"start", "open", "closed", "reset"}]
    /\ broken \subseteq Clients /\ leaked \subseteq Fds /\ mistaken \in BOOLEAN

LineTypes ==
    /\ toServer \in [Clients -> Seq(Nat)] /\ toClient \in [Clients -> Seq(Nat)]
    /\ read_buf \in [Clients -> Seq(Nat)] /\ awaited \in [Clients -> Seq(Nat)]
    /\ stdin \in [Clients -> Seq(Nat \union {Eof})] /\ typed \in [Clients -> Nat]

(* A connection waits once, in the right queue and without a thread. *)
BacklogOK(l) ==
    /\ l \in rset => backlog[l] # <<>>
    /\ \A i \in 1..Len(backlog[l]) :
          LET c == backlog[l][i]
          IN  ListenerOf(c) = l /\ thread[c].pc = "none" /\ client[c] # "start"
    /\ \A i, j \in 1..Len(backlog[l]) : backlog[l][i] = backlog[l][j] => i = j

ClientOK(c) ==
    /\ client[c] = "start" => /\ thread[c].pc = "none" /\ toServer[c] = <<>>
                              /\ toClient[c] = <<>> /\ awaited[c] = <<>>
    /\ client[c] # "open" => toClient[c] = <<>>
    /\ c \in broken => client[c] \notin {"start", "open"}
    /\ c \in TimeClients => thread[c].pc # "write"

(* Only connections have descriptors. *)
Connected == \A f \in Fds : fdtab[f] # Free => client[fdtab[f]] # "start"

ControlInv ==
    (\A l \in Listeners : BacklogOK(l)) /\ (\A c \in Clients : ClientOK(c)) /\ Connected

(* A thread at work has a descriptor of its client; a descriptor has its thread. *)
ThreadsInv == \A t \in Clients : Working(t) => thread[t].fd \in Fds /\ fdtab[thread[t].fd] = t
TableInv ==
    \A f \in Fds : fdtab[f] # Free /\ f \notin leaked =>
        Working(fdtab[f]) /\ thread[fdtab[f]].fd = f

(* What a client wrote and has not read back is on its way to it, in the      *)
(* thread's buffer, or on its way to the server.                             *)
InThread(c) == IF thread[c].pc = "write" THEN <<thread[c].line>> ELSE <<>>
Pending(c) == InThread(c) \o toServer[c]
FlowOK(c) ==
    client[c] = "open" => \E r \in Seq(Nat) : /\ awaited[c] = toClient[c] \o r
                                              /\ server # "exited" => r = Pending(c)
FlowInv == \A c \in EchoClients : FlowOK(c)

Sound == ThreadsInv /\ TableInv /\ FlowInv

(* The inductive invariant. *)
EchoInv == TableTypes /\ LineTypes /\ ControlInv /\ (mistaken \/ Sound)

---------------------------------------------------------------------------
(* Sequences. *)

LEMMA AppendRest ==
    ASSUME NEW a \in Seq(Nat), NEW r \in Seq(Nat), NEW x \in Nat
    PROVE  Append(a \o r, x) = a \o Append(r, x) /\ Append(r, x) \in Seq(Nat)
<1>1. a \o r \in Seq(Nat) /\ <<x>> \in Seq(Nat)
  OBVIOUS
<1>2. Append(a \o r, x) = (a \o r) \o <<x>> /\ Append(r, x) = r \o <<x>>
  BY <1>1, AppendIsConcat, Zenon
<1>3. (a \o r) \o <<x>> = a \o (r \o <<x>>)
  BY <1>1, ConcatAssociative
<1>. QED  BY <1>1, <1>2, <1>3, ConcatProperties, Zenon

LEMMA MoveHead ==
    ASSUME NEW a \in Seq(Nat), NEW r \in Seq(Nat), NEW x \in Nat
    PROVE  a \o (<<x>> \o r) = Append(a, x) \o r
<1>1. <<x>> \in Seq(Nat)
  OBVIOUS
<1>2. Append(a, x) = a \o <<x>>
  BY AppendIsConcat, Zenon
<1>3. (a \o <<x>>) \o r = a \o (<<x>> \o r)
  BY <1>1, ConcatAssociative
<1>. QED  BY <1>2, <1>3, Zenon

LEMMA HeadAndTail ==
    ASSUME NEW q \in Seq(Nat), q # <<>>
    PROVE  <<Head(q)>> \o Tail(q) = q /\ Head(q) \in Nat /\ Tail(q) \in Seq(Nat)
OBVIOUS

LEMMA DropSome ==
    ASSUME NEW a \in Seq(Nat), NEW r \in Seq(Nat), NEW k \in 1..Len(a)
    PROVE  /\ SubSeq(a, k + 1, Len(a)) \in Seq(Nat)
           /\ SubSeq(a, 2, k) \in Seq(Nat)
           /\ SubSeq(a \o r, k + 1, Len(a \o r)) = SubSeq(a, k + 1, Len(a)) \o r
<1>. DEFINE u == SubSeq(a, k + 1, Len(a))
            v == SubSeq(a \o r, k + 1, Len(a \o r))
<1>1. /\ a \o r \in Seq(Nat) /\ Len(a \o r) = Len(a) + Len(r)
      /\ \A i \in 1..(Len(a) + Len(r)) :
            (a \o r)[i] = IF i <= Len(a) THEN a[i] ELSE r[i - Len(a)]
  BY ConcatProperties, Zenon
<1>2. SubSeq(a, 2, k) \in Seq(Nat)
  BY SubSeqProperties
<1>3. /\ u \in Seq(Nat) /\ Len(u) = Len(a) - k
      /\ \A i \in 1..(Len(a) - k) : u[i] = a[k + i]
  <2>1. \A i \in (k + 1)..Len(a) : a[i] \in Nat
    OBVIOUS
  <2>2. /\ u \in Seq(Nat)
        /\ Len(u) = IF k + 1 <= Len(a) THEN Len(a) - (k + 1) + 1 ELSE 0
        /\ \A i \in 1..(Len(a) - (k + 1) + 1) : u[i] = a[k + 1 + i - 1]
    BY <2>1, SubSeqProperties
  <2>. HIDE DEF u
  <2>. QED  BY <2>2
<1>4. /\ v \in Seq(Nat) /\ Len(v) = Len(a) + Len(r) - k
      /\ \A i \in 1..(Len(a) + Len(r) - k) : v[i] = (a \o r)[k + i]
  <2>1. \A i \in (k + 1)..Len(a \o r) : (a \o r)[i] \in Nat
    BY <1>1, ElementOfSeq
  <2>2. /\ v \in Seq(Nat)
        /\ Len(v) = IF k + 1 <= Len(a \o r) THEN Len(a \o r) - (k + 1) + 1 ELSE 0
        /\ \A i \in 1..(Len(a \o r) - (k + 1) + 1) : v[i] = (a \o r)[k + 1 + i - 1]
    BY <1>1, <2>1, SubSeqProperties
  <2>. HIDE DEF v
  <2>3. Len(v) = Len(a) + Len(r) - k
    BY <1>1, <2>2
  <2>4. ASSUME NEW i \in 1..(Len(a) + Len(r) - k)
        PROVE  v[i] = (a \o r)[k + i]
    <3>1. i \in 1..(Len(a \o r) - (k + 1) + 1) /\ k + 1 + i - 1 = k + i
      BY <1>1
    <3>2. v[i] = (a \o r)[k + 1 + i - 1]
      BY <3>1, <2>2, Zenon
    <3>. QED  BY <3>1, <3>2, Zenon
  <2>. QED  BY <2>2, <2>3, <2>4, Zenon
<1>. HIDE DEF u, v
<1>5. /\ u \o r \in Seq(Nat) /\ Len(u \o r) = Len(u) + Len(r)
      /\ \A i \in 1..(Len(u) + Len(r)) :
            (u \o r)[i] = IF i <= Len(u) THEN u[i] ELSE r[i - Len(u)]
  BY <1>3, ConcatProperties, Zenon
<1>6. Len(v) = Len(u \o r)
  BY <1>3, <1>4, <1>5
<1>7. ASSUME NEW i \in 1..Len(v) PROVE v[i] = (u \o r)[i]
  <2>1. v[i] = IF k + i <= Len(a) THEN a[k + i] ELSE r[k + i - Len(a)]
    <3>1. i \in 1..(Len(a) + Len(r) - k) /\ k + i \in 1..(Len(a) + Len(r))
      BY <1>4
    <3>. QED  BY <3>1, <1>1, <1>4
  <2>2. (u \o r)[i] = IF i <= Len(a) - k THEN u[i] ELSE r[i - (Len(a) - k)]
    <3>1. i \in 1..(Len(u) + Len(r))
      BY <1>3, <1>4
    <3>2. (u \o r)[i] = IF i <= Len(u) THEN u[i] ELSE r[i - Len(u)]
      BY <3>1, <1>5, Zenon
    <3>. QED  BY <3>2, <1>3, Zenon
  <2>3. i <= Len(a) - k => u[i] = a[k + i]
    BY <1>3, <1>4
  <2>. QED  BY <1>4, <2>1, <2>2, <2>3
<1>8. v = u \o r
  BY <1>4, <1>5, <1>6, <1>7, SeqEqual, Zenon
<1>. QED  BY <1>2, <1>3, <1>8, Zenon DEF u, v

LEMMA PrefixOfConcat ==
    ASSUME NEW a \in Seq(Nat), NEW r \in Seq(Nat)
    PROVE  IsPrefix(a, a \o r)
BY DEF IsPrefix

---------------------------------------------------------------------------
(* The initial states. *)

LEMMA InitEchoInv == Init => EchoInv
<1>. SUFFICES ASSUME Init PROVE EchoInv
  BY Zenon
<1>. USE EchoAssumption
<1>1. TableTypes
  <2>1. NoThread \in ThreadState
    BY Zenon DEF ThreadState, Control, NoThread, NoFd, Time
  <2>2. thread \in [Clients -> ThreadState]
    BY <2>1, Zenon DEF Init
  <2>3. /\ connfd \in [Listeners -> Fds \union {NoFd}] /\ fdtab \in [Fds -> Clients \union {Free}]
        /\ backlog \in [Listeners -> Seq(Clients)]
        /\ client \in [Clients -> {"start", "open", "closed", "reset"}]
    BY DEF Init
  <2>. QED  BY <2>2, <2>3, Zenon DEF Init, TableTypes
<1>2. LineTypes
  BY DEF Init, LineTypes, Clients
<1>3. ControlInv
  BY DEF Init, ControlInv, Connected, BacklogOK, ClientOK, NoThread
<1>4. ThreadsInv /\ TableInv
  BY Zenon DEF Init, ThreadsInv, TableInv, Working, NoThread, Clients
<1>5. FlowInv
  <2>. SUFFICES ASSUME NEW c \in EchoClients, client[c] = "open" PROVE FALSE
    BY Zenon DEF FlowInv, FlowOK
  <2>. QED  BY Zenon DEF Init, Clients
<1>. QED  BY <1>1, <1>2, <1>3, <1>4, <1>5, Zenon DEF EchoInv, Sound

(* Main without an accept: only server, rset and connfd change. *)
LEMMA MainLoopInv ==
    ASSUME EchoInv, server' \in {"select", "time", "echo"}, server # "exited",
           connfd' \in [Listeners -> Fds \union {NoFd}],
           \A l \in rset' : l \in Listeners /\ backlog[l] # <<>>,
           UNCHANGED <<backlog, fdtab, thread, cliVars, tcpVars, mistaken, leaked>>
    PROVE  EchoInv'
<1>. USE DEF EchoInv, cliVars, tcpVars, ttyVars
<1>1. TableTypes'
  BY Zenon DEF TableTypes
<1>2. LineTypes'
  BY Zenon DEF LineTypes
<1>3. ControlInv'
  <2>1. \A l \in Listeners : BacklogOK(l)'
    BY Zenon DEF ControlInv, BacklogOK
  <2>2. \A c \in Clients : ClientOK(c)'
    BY Zenon DEF ControlInv, ClientOK
  <2>3. Connected'
    BY Zenon DEF ControlInv, Connected
  <2>. QED  BY <2>1, <2>2, <2>3, Zenon DEF ControlInv
<1>4. ASSUME Sound PROVE Sound'
  <2>1. ThreadsInv' /\ TableInv'
    BY <1>4, Zenon DEF Sound, ThreadsInv, TableInv, Working
  <2>2. ASSUME NEW c \in EchoClients PROVE FlowOK(c)'
    <3>1. FlowOK(c)
      BY <1>4, Zenon DEF Sound, FlowInv
    <3>. QED  BY <3>1, Zenon DEF FlowOK, Pending, InThread
  <2>. QED  BY <2>1, <2>2, Zenon DEF Sound, FlowInv
<1>. QED  BY <1>1, <1>2, <1>3, <1>4, Zenon

LEMMA SelectInv == EchoInv /\ Select => EchoInv'
<1>. SUFFICES ASSUME EchoInv, Select PROVE EchoInv'
  BY Zenon
<1>1. connfd' \in [Listeners -> Fds \union {NoFd}]
  BY Zenon DEF EchoInv, TableTypes, Select
<1>. QED  BY <1>1, MainLoopInv, Zenon DEF Select

LEMMA NotReadyInv ==
    ASSUME EchoInv, NEW l \in Listeners, NotReady(l) PROVE EchoInv'
<1>1. /\ connfd' \in [Listeners -> Fds \union {NoFd}]
      /\ server # "exited" /\ server' \in {"select", "time", "echo"}
  BY Zenon DEF EchoInv, TableTypes, NotReady, AfterListener, Listeners
<1>2. \A k \in rset' : k \in Listeners /\ backlog[k] # <<>>
  BY Zenon DEF EchoInv, TableTypes, ControlInv, BacklogOK, NotReady
<1>. QED  BY <1>1, <1>2, MainLoopInv, Zenon DEF NotReady

LEMMA AcceptFailsInv ==
    ASSUME EchoInv, NEW l \in Listeners, AcceptFails(l) PROVE EchoInv'
<1>1. /\ connfd' \in [Listeners -> Fds \union {NoFd}]
      /\ server # "exited" /\ server' \in {"select", "time", "echo"}
  BY Zenon DEF EchoInv, TableTypes, AcceptFails, Listeners
<1>. QED  BY <1>1, MainLoopInv, Zenon DEF AcceptFails

---------------------------------------------------------------------------
(* Accept. *)

(* A descriptor that is free and has no free one below it. *)
LEMMA LowestFdFree ==
    ASSUME EchoInv, \E f \in Fds : fdtab[f] = Free
    PROVE  LowestFd \in Fds /\ fdtab[LowestFd] = Free
<1>. DEFINE T == {f \in Fds : fdtab[f] = Free}
<1>1. T # {} /\ T \subseteq Nat
  BY EchoAssumption DEF Fds
<1>2. PICK x \in T : \A y \in T : ~(<<y, x>> \in OpToRel(<, Nat))
  BY <1>1, WFMin, NatLessThanWellFounded, Zenon
<1>3. \A y \in T : ~(y < x)
  BY <1>1, <1>2, Zenon DEF OpToRel
<1>4. x \in Fds /\ fdtab[x] = Free /\ \A g \in 1..(x - 1) : fdtab[g] # Free
  <2>. SUFFICES ASSUME NEW g \in 1..(x - 1), fdtab[g] = Free PROVE FALSE
    BY <1>2, Zenon
  <2>1. x \in 1..MaxFds
    BY <1>2, Zenon DEF Fds
  <2>2. g \in Fds /\ g < x
    BY <2>1, EchoAssumption DEF Fds
  <2>. QED  BY <2>2, <1>3, Zenon
<1>. QED  BY <1>4, Zenon DEF LowestFd

LEMMA TailOfOnce ==
    ASSUME NEW q \in Seq(Clients), q # <<>>,
           \A i, j \in 1..Len(q) : q[i] = q[j] => i = j
    PROVE  /\ Head(q) = q[1] /\ 1 \in 1..Len(q)
           /\ Tail(q) \in Seq(Clients)
           /\ \A i \in 1..Len(Tail(q)) : /\ Tail(q)[i] = q[i + 1] /\ i + 1 \in 1..Len(q)
                                         /\ Tail(q)[i] # Head(q)
           /\ \A i, j \in 1..Len(Tail(q)) : Tail(q)[i] = Tail(q)[j] => i = j
<1>1. Len(q) \in Nat \ {0} /\ Len(Tail(q)) = Len(q) - 1 /\ Head(q) = q[1]
  OBVIOUS
<1>2. \A i \in 1..Len(Tail(q)) : Tail(q)[i] = q[i + 1]
  OBVIOUS
<1>3. \A i \in 1..Len(Tail(q)) : i + 1 \in 1..Len(q) /\ i + 1 # 1
  BY <1>1
<1>4. Tail(q) \in Seq(Clients)
  OBVIOUS
<1>5. ASSUME NEW i \in 1..Len(Tail(q)), NEW j \in 1..Len(Tail(q)), Tail(q)[i] = Tail(q)[j]
      PROVE  i = j
  BY <1>1, <1>2, <1>3, <1>5
<1>. QED  BY <1>1, <1>2, <1>3, <1>4, <1>5

LEMMA AcceptInv ==
    ASSUME EchoInv, NEW l \in Listeners, Accept(l) PROVE EchoInv'
<1>. DEFINE q == backlog[l]
            c == Head(q)
            f == LowestFd
            new == [pc |-> "created", fd |-> f, line |-> Time]
<1>. USE EchoAssumption
<1>0. TableTypes /\ LineTypes /\ ControlInv /\ (mistaken \/ Sound)
  BY Zenon DEF EchoInv
<1>1. /\ server \in {"time", "echo"} /\ l \in rset
      /\ backlog' = [backlog EXCEPT ![l] = Tail(q)]
      /\ fdtab' = [fdtab EXCEPT ![f] = c]
      /\ connfd' = [connfd EXCEPT ![SlotOf(l)] = f]
      /\ thread' = [thread EXCEPT ![c] = new]
      /\ server' \in {"select", "time", "echo"} /\ rset' = rset \ {l}
      /\ UNCHANGED <<client, typed, stdin, read_buf, awaited, seen, confused, toServer,
                     toClient, broken, mistaken, leaked>>
  BY Zenon DEF Accept, cliVars, tcpVars, ttyVars, AfterListener, Listeners
<1>2. f \in Fds /\ fdtab[f] = Free
  BY LowestFdFree, Zenon DEF Accept
<1>3. /\ q \in Seq(Clients) /\ q # <<>>
      /\ \A i, j \in 1..Len(q) : q[i] = q[j] => i = j
      /\ \A i \in 1..Len(q) : ListenerOf(q[i]) = l /\ thread[q[i]].pc = "none" /\ client[q[i]] # "start"
  BY <1>0, <1>1, Zenon DEF TableTypes, ControlInv, BacklogOK
<1>4. /\ c = q[1] /\ 1 \in 1..Len(q) /\ Tail(q) \in Seq(Clients)
      /\ \A i \in 1..Len(Tail(q)) : Tail(q)[i] = q[i + 1] /\ i + 1 \in 1..Len(q) /\ Tail(q)[i] # c
      /\ \A i, j \in 1..Len(Tail(q)) : Tail(q)[i] = Tail(q)[j] => i = j
  BY <1>3, TailOfOnce, Zenon
<1>5. c \in Clients /\ c # Free /\ ListenerOf(c) = l /\ thread[c].pc = "none" /\ client[c] # "start"
  BY <1>3, <1>4, ElementOfSeq
<1>6. new \in ThreadState /\ SlotOf(l) \in Listeners
  BY <1>2, Zenon DEF ThreadState, Control, Time, SlotOf, Listeners
<1>. HIDE DEF q, c, f
<1>7. /\ thread'[c] = new
      /\ \A u \in Clients : u # c => thread'[u] = thread[u]
      /\ fdtab'[f] = c /\ \A g \in Fds : g # f => fdtab'[g] = fdtab[g]
      /\ backlog'[l] = Tail(q) /\ \A k \in Listeners : k # l => backlog'[k] = backlog[k]
  BY <1>0, <1>1, <1>2, <1>5, Zenon DEF TableTypes
<1>8. TableTypes'
  <2>1. thread' \in [Clients -> ThreadState]
    BY <1>0, <1>1, <1>5, <1>6, Zenon DEF TableTypes
  <2>2. backlog' \in [Listeners -> Seq(Clients)]
    BY <1>0, <1>1, <1>4, Zenon DEF TableTypes
  <2>3. fdtab' \in [Fds -> Clients \union {Free}] /\ connfd' \in [Listeners -> Fds \union {NoFd}]
    BY <1>0, <1>1, <1>2, <1>5, <1>6, Zenon DEF TableTypes
  <2>. QED  BY <2>1, <2>2, <2>3, <1>0, <1>1, Zenon DEF TableTypes
<1>9. LineTypes'
  BY <1>0, <1>1, Zenon DEF LineTypes
<1>10. ControlInv'
  <2>1. ASSUME NEW k \in Listeners PROVE BacklogOK(k)'
    <3>1. CASE k = l
      <4>1. /\ backlog'[k] = Tail(q) /\ k \notin rset'
            /\ \A u \in Clients : u # c => thread'[u] = thread[u]
        BY <3>1, <1>1, <1>7, Zenon
      <4>2. ASSUME NEW i \in 1..Len(Tail(q))
            PROVE  LET d == Tail(q)[i]
                   IN  ListenerOf(d) = k /\ thread'[d].pc = "none" /\ client'[d] # "start"
        <5>1. PICK d : d = q[i + 1] /\ d = Tail(q)[i]
          BY <1>4, Zenon
        <5>2. d \in Clients /\ d # c
          BY <5>1, <1>4, ElementOfSeq
        <5>3. ListenerOf(d) = l /\ thread[d].pc = "none" /\ client[d] # "start"
          BY <5>1, <1>3, <1>4
        <5>. QED  BY <5>1, <5>2, <5>3, <4>1, <1>1, <3>1
      <4>. QED  BY <4>1, <4>2, <1>4, Zenon DEF BacklogOK
    <3>2. CASE k # l
      <4>1. BacklogOK(k) /\ backlog[k] \in Seq(Clients)
        BY <1>0, Zenon DEF ControlInv, TableTypes
      <4>2. \A i \in 1..Len(backlog[k]) : backlog[k][i] \in Clients /\ backlog[k][i] # c
        BY <4>1, <3>2, <1>5, ElementOfSeq, Zenon DEF BacklogOK
      <4>. QED  BY <4>1, <4>2, <3>2, <1>1, <1>7 DEF BacklogOK
    <3>. QED  BY <3>1, <3>2, Zenon
  <2>2. ASSUME NEW u \in Clients PROVE ClientOK(u)'
    <3>1. ClientOK(u)
      BY <1>0, Zenon DEF ControlInv
    <3>. QED  BY <3>1, <1>1, <1>5, <1>7 DEF ClientOK
  <2>3. Connected'
    BY <1>0, <1>1, <1>5, <1>7 DEF ControlInv, Connected
  <2>. QED  BY <2>1, <2>2, <2>3, Zenon DEF ControlInv
<1>11. ASSUME Sound PROVE Sound'
  <2>1. ThreadsInv'
    <3>. SUFFICES ASSUME NEW t \in Clients, Working(t)'
                  PROVE  thread'[t].fd \in Fds /\ fdtab'[thread'[t].fd] = t
      BY Zenon DEF ThreadsInv
    <3>1. CASE t = c
      BY <3>1, <1>2, <1>7
    <3>2. CASE t # c
      BY <3>2, <1>2, <1>7, <1>11 DEF Sound, ThreadsInv, Working, Clients
    <3>. QED  BY <3>1, <3>2, Zenon
  <2>2. TableInv'
    <3>. SUFFICES ASSUME NEW g \in Fds, fdtab'[g] # Free, g \notin leaked
                  PROVE  /\ thread'[fdtab'[g]].pc \in {"created", "loop", "write"}
                         /\ thread'[fdtab'[g]].fd = g
      BY <1>1, Zenon DEF TableInv, Working
    <3>1. CASE g = f
      BY <3>1, <1>7
    <3>2. CASE g # f
      <4>1. fdtab'[g] = fdtab[g] /\ Working(fdtab[g]) /\ thread[fdtab[g]].fd = g
        BY <3>2, <1>7, <1>11, Zenon DEF Sound, TableInv
      <4>2. fdtab[g] \in Clients /\ fdtab[g] # c
        BY <4>1, <1>0, <1>5, Zenon DEF TableTypes, Working
      <4>. QED  BY <4>1, <4>2, <1>7, Zenon DEF Working
    <3>. QED  BY <3>1, <3>2, Zenon
  <2>3. ASSUME NEW u \in EchoClients PROVE FlowOK(u)'
    <3>1. FlowOK(u) /\ u \in Clients
      BY <1>11, Zenon DEF Sound, FlowInv, Clients
    <3>2. InThread(u)' = InThread(u)
      BY <3>1, <1>5, <1>7 DEF InThread
    <3>. QED  BY <3>1, <3>2, <1>1, Zenon DEF FlowOK, Pending
  <2>. QED  BY <2>1, <2>2, <2>3, Zenon DEF Sound, FlowInv
<1>. QED  BY <1>0, <1>1, <1>8, <1>9, <1>10, <1>11, Zenon DEF EchoInv

---------------------------------------------------------------------------
(* The threads. *)

(* A thread that has not been misled serves its own client. *)
LEMMA OwnPeer ==
    ASSUME EchoInv, Sound, NEW t \in Clients, Working(t)
    PROVE  Peer(t) = t /\ thread[t].fd \in Fds /\ fdtab[thread[t].fd] = t /\ t # Free
BY EchoAssumption, Zenon DEF Sound, ThreadsInv, Peer

(* Only clients have open descriptors. *)
LEMMA PeerType ==
    ASSUME EchoInv, NEW t \in Clients
    PROVE  /\ Peer(t) \in Clients \union {Free}
           /\ Peer(t) # Free => /\ Peer(t) \in Clients /\ thread[t].fd \in Fds
                                /\ client[Peer(t)] # "start"
BY Zenon DEF EchoInv, TableTypes, ControlInv, Connected, Peer

(* What a step of thread t may change keeps the part of the invariant that    *)
(* does not depend on which connections the threads found.                   *)
LEMMA ThreadStep ==
    ASSUME EchoInv, NEW t \in Clients, NEW s \in ThreadState,
           Working(t), s.pc # "none", t \in TimeClients => s.pc # "write",
           thread' = [thread EXCEPT ![t] = s],
           fdtab' \in [Fds -> Clients \union {Free}], leaked' \subseteq Fds,
           \A f \in Fds : fdtab'[f] \in {fdtab[f], Free},
           mistaken' \in BOOLEAN, broken' \subseteq Clients,
           \A c \in broken' \ broken : client[c] \notin {"start", "open"},
           toServer' \in [Clients -> Seq(Nat)], toClient' \in [Clients -> Seq(Nat)],
           \A c \in Clients : toServer[c] = <<>> => toServer'[c] = <<>>,
           \A c \in Clients : client[c] # "open" => toClient'[c] = <<>>,
           UNCHANGED <<mainVars, backlog, cliVars>>
    PROVE  TableTypes' /\ LineTypes' /\ ControlInv'
<1>0. TableTypes /\ LineTypes /\ ControlInv
  BY Zenon DEF EchoInv
<1>1. UNCHANGED <<server, rset, same_slot, connfd, client, typed, stdin, read_buf, awaited, seen,
                  confused, backlog>>
  BY Zenon DEF mainVars, cliVars, ttyVars
<1>2. thread'[t] = s /\ \A u \in Clients : u # t => thread'[u] = thread[u]
  BY <1>0, Zenon DEF TableTypes
<1>3. TableTypes'
  <2>1. thread' \in [Clients -> ThreadState]
    BY <1>0, Zenon DEF TableTypes
  <2>. QED  BY <2>1, <1>0, <1>1, Zenon DEF TableTypes
<1>4. LineTypes'
  BY <1>0, <1>1, Zenon DEF LineTypes
<1>5. ASSUME NEW l \in Listeners PROVE BacklogOK(l)'
  <2>1. BacklogOK(l) /\ backlog[l] \in Seq(Clients)
    BY <1>0, Zenon DEF ControlInv, TableTypes
  <2>2. \A i \in 1..Len(backlog[l]) : backlog[l][i] \in Clients /\ backlog[l][i] # t
    BY <2>1, ElementOfSeq, Zenon DEF BacklogOK, Working
  <2>. QED  BY <2>1, <2>2, <1>1, <1>2 DEF BacklogOK
<1>6. ASSUME NEW c \in Clients PROVE ClientOK(c)'
  <2>1. ClientOK(c) /\ ClientOK(t)
    BY <1>0, Zenon DEF ControlInv
  <2>2. client[t] # "start"
    BY <2>1, Zenon DEF ClientOK, Working
  <2>3. c \in TimeClients => thread'[c].pc # "write"
    BY <2>1, <1>2, Zenon DEF ClientOK
  <2>4. client[c] = "start" => thread'[c].pc = "none" /\ toServer'[c] = <<>>
    BY <2>1, <2>2, <1>2, Zenon DEF ClientOK
  <2>5. c \in broken' => client[c] \notin {"start", "open"}
    BY <2>1, Zenon DEF ClientOK
  <2>. QED  BY <2>1, <2>3, <2>4, <2>5, <1>1, Zenon DEF ClientOK
<1>7. Connected'
  BY <1>0, <1>1, Zenon DEF ControlInv, Connected
<1>. QED  BY <1>3, <1>4, <1>5, <1>6, <1>7, Zenon DEF ControlInv

(* A thread that goes on keeps its descriptor. *)
LEMMA GoesOn ==
    ASSUME EchoInv, Sound, NEW t \in Clients, NEW s \in ThreadState,
           Working(t), s.fd = thread[t].fd, s.pc \in {"created", "loop", "write"},
           thread' = [thread EXCEPT ![t] = s], UNCHANGED <<fdtab, leaked>>
    PROVE  ThreadsInv' /\ TableInv'
<1>1. thread'[t] = s /\ \A u \in Clients : u # t => thread'[u] = thread[u]
  BY Zenon DEF EchoInv, TableTypes
<1>2. \A u \in Clients : thread'[u].fd = thread[u].fd /\ (Working(u)' <=> Working(u))
  BY <1>1, Zenon DEF Working
<1>3. ThreadsInv'
  BY <1>2, Zenon DEF Sound, ThreadsInv
<1>4. TableInv'
  <2>. SUFFICES ASSUME NEW f \in Fds, fdtab[f] # Free, f \notin leaked
                PROVE  Working(fdtab[f])' /\ thread'[fdtab[f]].fd = f
    BY Zenon DEF TableInv, Working
  <2>1. Working(fdtab[f]) /\ thread[fdtab[f]].fd = f
    BY Zenon DEF Sound, TableInv
  <2>2. PICK u \in Clients : u = fdtab[f]
    BY Zenon DEF EchoInv, TableTypes
  <2>3. Working(u)' /\ thread'[u].fd = f
    BY <2>1, <2>2, <1>2, Zenon
  <2>. QED  BY <2>2, <2>3, Zenon DEF Working
<1>. QED  BY <1>3, <1>4, Zenon

(* A thread that ends closes or leaks its descriptor and no other. *)
LEMMA Ends ==
    ASSUME EchoInv, Sound, NEW t \in Clients, NEW s \in ThreadState,
           Working(t), s.pc = "done", thread' = [thread EXCEPT ![t] = s],
           \A f \in Fds : f # thread[t].fd =>
               fdtab'[f] = fdtab[f] /\ (f \in leaked' <=> f \in leaked),
           fdtab'[thread[t].fd] = Free \/ thread[t].fd \in leaked'
    PROVE  ThreadsInv' /\ TableInv'
<1>1. thread'[t] = s /\ \A u \in Clients : u # t => thread'[u] = thread[u]
  BY Zenon DEF EchoInv, TableTypes
<1>2. thread[t].fd \in Fds /\ fdtab[thread[t].fd] = t
  BY OwnPeer, Zenon
<1>3. ThreadsInv'
  <2>. SUFFICES ASSUME NEW u \in Clients, Working(u)'
                PROVE  thread'[u].fd \in Fds /\ fdtab'[thread'[u].fd] = u
    BY Zenon DEF ThreadsInv
  <2>1. u # t /\ Working(u) /\ thread'[u] = thread[u]
    BY <1>1, Zenon DEF Working
  <2>2. thread[u].fd \in Fds /\ fdtab[thread[u].fd] = u /\ thread[u].fd # thread[t].fd
    BY <2>1, <1>2, Zenon DEF Sound, ThreadsInv
  <2>. QED  BY <2>1, <2>2, Zenon
<1>4. TableInv'
  <2>. SUFFICES ASSUME NEW f \in Fds, fdtab'[f] # Free, f \notin leaked'
                PROVE  /\ thread'[fdtab'[f]].pc \in {"created", "loop", "write"}
                       /\ thread'[fdtab'[f]].fd = f
    BY Zenon DEF TableInv, Working
  <2>1. f # thread[t].fd /\ fdtab'[f] = fdtab[f] /\ f \notin leaked
    BY Zenon
  <2>2. PICK u \in Clients : u = fdtab[f]
    BY <2>1, Zenon DEF EchoInv, TableTypes
  <2>3. Working(u) /\ thread[u].fd = f /\ u # t
    BY <2>1, <2>2, Zenon DEF Sound, TableInv
  <2>. QED  BY <2>1, <2>2, <2>3, <1>1, Zenon DEF Working
<1>. QED  BY <1>3, <1>4, Zenon

LEMMA SameFlow ==
    ASSUME NEW u \in EchoClients, FlowOK(u), client' = client, awaited' = awaited, server' = server,
           toClient'[u] = toClient[u], toServer'[u] = toServer[u], InThread(u)' = InThread(u)
    PROVE  FlowOK(u)'
BY Zenon DEF FlowOK, Pending

LEMMA StartThreadInv ==
    ASSUME EchoInv, NEW t \in Clients, StartThread(t) PROVE EchoInv'
<1>. DEFINE fd == connfd[SlotOf(ListenerOf(t))]
            s == [thread[t] EXCEPT !.pc = "loop", !.fd = fd]
<1>0. TableTypes /\ LineTypes /\ ControlInv /\ (mistaken \/ Sound)
  BY Zenon DEF EchoInv
<1>1. /\ thread' = [thread EXCEPT ![t] = s] /\ mistaken' = (mistaken \/ fd # thread[t].fd)
      /\ thread[t].pc = "created" /\ Working(t)
      /\ UNCHANGED <<mainVars, backlog, cliVars, fdtab, leaked, toServer, toClient, broken>>
  BY Zenon DEF StartThread, Alive, Working, tcpVars
<1>2. fd \in Fds \union {NoFd} /\ thread[t] \in ThreadState
  <2>1. SlotOf(ListenerOf(t)) \in Listeners
    BY Zenon DEF SlotOf, ListenerOf, Listeners
  <2>. QED  BY <2>1, <1>0, Zenon DEF TableTypes
<1>3. s \in ThreadState /\ s.pc = "loop" /\ s.fd = fd
  BY <1>2, Zenon DEF ThreadState, Control
<1>. HIDE DEF fd, s
<1>4. TableTypes' /\ LineTypes' /\ ControlInv'
  <2>1. \A c \in Clients : client[c] # "open" => toClient[c] = <<>>
    BY <1>0, Zenon DEF ControlInv, ClientOK
  <2>2. /\ fdtab' \in [Fds -> Clients \union {Free}] /\ fdtab' = fdtab
        /\ leaked' \subseteq Fds /\ mistaken' \in BOOLEAN
        /\ broken' \subseteq Clients
        /\ toServer' \in [Clients -> Seq(Nat)] /\ toClient' \in [Clients -> Seq(Nat)]
    BY <1>0, <1>1, Zenon DEF TableTypes, LineTypes
  <2>. QED  BY <2>1, <2>2, <1>1, <1>3, ThreadStep, Zenon
<1>5. ASSUME ~mistaken' PROVE Sound'
  <2>1. Sound /\ s.fd = thread[t].fd
    BY <1>0, <1>1, <1>3, <1>5, Zenon
  <2>2. ThreadsInv' /\ TableInv'
    BY <2>1, <1>1, <1>3, GoesOn, Zenon
  <2>3. ASSUME NEW u \in EchoClients PROVE FlowOK(u)'
    <3>1. FlowOK(u) /\ u \in Clients
      BY <2>1, Zenon DEF Sound, FlowInv, Clients
    <3>2. InThread(u)' = InThread(u)
      BY <3>1, <1>0, <1>1, <1>3, Zenon DEF InThread, TableTypes
    <3>. QED  BY <3>1, <3>2, <1>1, SameFlow, Zenon DEF mainVars, cliVars
  <2>. QED  BY <2>2, <2>3, Zenon DEF Sound, FlowInv
<1>. QED  BY <1>4, <1>5, Zenon DEF EchoInv

LEMMA ReadLineInv ==
    ASSUME EchoInv, NEW t \in Clients, ReadLine(t) PROVE EchoInv'
<1>. DEFINE c == Peer(t)
            s == [thread[t] EXCEPT !.pc = "write", !.line = Head(toServer[c])]
<1>0. TableTypes /\ LineTypes /\ ControlInv /\ (mistaken \/ Sound)
  BY Zenon DEF EchoInv
<1>1. /\ thread' = [thread EXCEPT ![t] = s] /\ toServer' = [toServer EXCEPT ![c] = Tail(toServer[c])]
      /\ thread[t].pc = "loop" /\ Working(t) /\ t \in EchoClients
      /\ c # Free /\ toServer[c] # <<>>
      /\ UNCHANGED <<mainVars, backlog, cliVars, fdtab, leaked, toClient, broken, mistaken>>
  BY Zenon DEF ReadLine, Alive, Working
<1>2. c \in Clients /\ toServer[c] \in Seq(Nat) /\ thread[t] \in ThreadState
  BY <1>0, <1>1, PeerType, Zenon DEF TableTypes, LineTypes
<1>3. /\ <<Head(toServer[c])>> \o Tail(toServer[c]) = toServer[c]
      /\ Head(toServer[c]) \in Nat /\ Tail(toServer[c]) \in Seq(Nat)
  BY <1>1, <1>2, HeadAndTail, Zenon
<1>4. /\ s \in ThreadState /\ s.pc = "write" /\ s.fd = thread[t].fd /\ s.line = Head(toServer[c])
      /\ t \notin TimeClients
  BY <1>1, <1>2, <1>3, EchoAssumption, Zenon DEF ThreadState, Control
<1>. HIDE DEF c, s
<1>5. TableTypes' /\ LineTypes' /\ ControlInv'
  <2>1. \A u \in Clients : client[u] # "open" => toClient[u] = <<>>
    BY <1>0, Zenon DEF ControlInv, ClientOK
  <2>2. /\ fdtab' \in [Fds -> Clients \union {Free}] /\ fdtab' = fdtab
        /\ leaked' \subseteq Fds /\ mistaken' \in BOOLEAN
        /\ broken' \subseteq Clients /\ toClient' \in [Clients -> Seq(Nat)]
    BY <1>0, <1>1, Zenon DEF TableTypes, LineTypes
  <2>3. /\ toServer' \in [Clients -> Seq(Nat)]
        /\ \A u \in Clients : toServer[u] = <<>> => toServer'[u] = <<>>
    BY <1>0, <1>1, <1>2, <1>3, Zenon DEF LineTypes
  <2>. QED  BY <2>1, <2>2, <2>3, <1>1, <1>4, ThreadStep, Zenon
<1>6. ASSUME ~mistaken' PROVE Sound'
  <2>1. Sound /\ c = t
    BY <1>0, <1>1, <1>6, OwnPeer, Zenon DEF c
  <2>2. ThreadsInv' /\ TableInv'
    BY <2>1, <1>1, <1>4, GoesOn, Zenon
  <2>3. ASSUME NEW u \in EchoClients PROVE FlowOK(u)'
    <3>1. FlowOK(u) /\ u \in Clients
      BY <2>1, Zenon DEF Sound, FlowInv, Clients
    <3>2. CASE u # t
      <4>1. InThread(u)' = InThread(u) /\ toServer'[u] = toServer[u]
        BY <3>1, <3>2, <2>1, <1>0, <1>1, Zenon DEF InThread, TableTypes, LineTypes
      <4>. QED  BY <3>1, <4>1, <1>1, SameFlow, Zenon DEF mainVars, cliVars
    <3>3. CASE u = t
      <4>1. thread'[t] = s /\ toServer'[t] = Tail(toServer[t])
        BY <2>1, <1>0, <1>1, Zenon DEF TableTypes, LineTypes
      <4>2. Pending(t)' = <<Head(toServer[t])>> \o Tail(toServer[t])
        BY <4>1, <2>1, <1>4, Zenon DEF Pending, InThread
      <4>3. Pending(t) = <<>> \o toServer[t]
        BY <1>1, Zenon DEF Pending, InThread
      <4>4. Pending(t)' = Pending(t)
        BY <4>2, <4>3, <2>1, <1>2, <1>3, ConcatEmptySeq
      <4>. QED  BY <4>4, <3>1, <3>3, <1>1, Zenon DEF FlowOK, mainVars, cliVars
    <3>. QED  BY <3>2, <3>3, Zenon
  <2>. QED  BY <2>2, <2>3, Zenon DEF Sound, FlowInv
<1>. QED  BY <1>5, <1>6, Zenon DEF EchoInv

(* A write changes what is on the way to one client, if that is still there. *)
LEMMA DeliveredTo ==
    ASSUME EchoInv, NEW c \in Clients \union {Free}, NEW line \in Nat,
           NEW q \in {toClient, Delivered(c, line)}
    PROVE  /\ q \in [Clients -> Seq(Nat)]
           /\ \A u \in Clients : client[u] # "open" => q[u] = <<>>
           /\ \A u \in Clients : u # c => q[u] = toClient[u]
<1>1. toClient \in [Clients -> Seq(Nat)] /\ \A u \in Clients : client[u] # "open" => toClient[u] = <<>>
  BY Zenon DEF EchoInv, LineTypes, ControlInv, ClientOK
<1>2. CASE q = toClient
  BY <1>1, <1>2, Zenon
<1>3. CASE q # toClient
  <2>1. c \in Clients /\ client[c] = "open" /\ q = [toClient EXCEPT ![c] = Append(toClient[c], line)]
    BY <1>3, Zenon DEF Delivered
  <2>2. Append(toClient[c], line) \in Seq(Nat)
    BY <2>1, <1>1
  <2>. QED  BY <1>1, <2>1, <2>2, Zenon
<1>. QED  BY <1>2, <1>3, Zenon

LEMMA BreaksGone ==
    ASSUME EchoInv, NEW c \in Clients \union {Free}, c = Free \/ client[c] # "start"
    PROVE  /\ Breaks(c) \subseteq Clients
           /\ \A u \in Breaks(c) \ broken : client[u] \notin {"start", "open"}
BY Zenon DEF EchoInv, TableTypes, Breaks

LEMMA WriteLineInv ==
    ASSUME EchoInv, NEW t \in Clients, WriteLine(t) PROVE EchoInv'
<1>. DEFINE c == Peer(t)
            s == [thread[t] EXCEPT !.pc = "loop", !.line = Time]
            q == Delivered(c, thread[t].line)
<1>0. TableTypes /\ LineTypes /\ ControlInv /\ (mistaken \/ Sound)
  BY Zenon DEF EchoInv
<1>1. /\ thread' = [thread EXCEPT ![t] = s] /\ toClient' = q /\ broken' = Breaks(c)
      /\ thread[t].pc = "write" /\ Working(t)
      /\ UNCHANGED <<mainVars, backlog, cliVars, fdtab, leaked, toServer, mistaken>>
  BY Zenon DEF WriteLine, Alive, Working, EchoTo
<1>2. c \in Clients \union {Free} /\ thread[t] \in ThreadState /\ thread[t].line \in Nat
  BY <1>0, PeerType, Zenon DEF TableTypes, ThreadState
<1>3. s \in ThreadState /\ s.pc = "loop" /\ s.fd = thread[t].fd
  BY <1>2, Zenon DEF ThreadState, Control, Time
<1>4. /\ q \in [Clients -> Seq(Nat)]
      /\ \A u \in Clients : client[u] # "open" => q[u] = <<>>
      /\ \A u \in Clients : u # c => q[u] = toClient[u]
  BY <1>2, DeliveredTo, Zenon
<1>5. Breaks(c) \subseteq Clients /\ \A u \in Breaks(c) \ broken : client[u] \notin {"start", "open"}
  BY <1>2, PeerType, BreaksGone, Zenon
<1>6. client[t] = "open" /\ c = t /\ t # Free => q[t] = Append(toClient[t], thread[t].line)
  BY <1>0, Zenon DEF Delivered, LineTypes
<1>. HIDE DEF c, s, q
<1>7. TableTypes' /\ LineTypes' /\ ControlInv'
  <2>2. /\ fdtab' \in [Fds -> Clients \union {Free}] /\ fdtab' = fdtab
        /\ leaked' \subseteq Fds /\ mistaken' \in BOOLEAN
        /\ toServer' \in [Clients -> Seq(Nat)]
    BY <1>0, <1>1, Zenon DEF TableTypes, LineTypes
  <2>. QED  BY <2>2, <1>1, <1>3, <1>4, <1>5, ThreadStep, Zenon
<1>8. ASSUME ~mistaken' PROVE Sound'
  <2>1. Sound /\ c = t /\ t # Free
    BY <1>0, <1>1, <1>8, OwnPeer, Zenon DEF c
  <2>2. ThreadsInv' /\ TableInv'
    BY <2>1, <1>1, <1>3, GoesOn, Zenon
  <2>3. ASSUME NEW u \in EchoClients PROVE FlowOK(u)'
    <3>1. FlowOK(u) /\ u \in Clients
      BY <2>1, Zenon DEF Sound, FlowInv, Clients
    <3>2. CASE u # t
      <4>1. InThread(u)' = InThread(u) /\ toClient'[u] = toClient[u]
        BY <3>1, <3>2, <2>1, <1>0, <1>1, <1>4 DEF InThread, TableTypes
      <4>. QED  BY <3>1, <4>1, <1>1, SameFlow, Zenon DEF mainVars, cliVars
    <3>3. CASE u = t /\ client[t] = "open"
      <4>1. server # "exited" /\ thread'[t] = s /\ toClient'[t] = Append(toClient[t], thread[t].line)
        BY <3>3, <2>1, <1>0, <1>1, <1>6, Zenon DEF TableTypes, WriteLine, Alive
      <4>2. awaited[t] = toClient[t] \o (<<thread[t].line>> \o toServer[t])
        BY <4>1, <3>1, <3>3, <1>1, Zenon DEF FlowOK, Pending, InThread
      <4>3. toClient[t] \in Seq(Nat) /\ toServer[t] \in Seq(Nat)
        BY <1>0, Zenon DEF LineTypes
      <4>4. awaited'[t] = toClient'[t] \o toServer[t]
        <5>1. toClient[t] \o (<<thread[t].line>> \o toServer[t])
                = Append(toClient[t], thread[t].line) \o toServer[t]
          BY <4>3, <1>2, MoveHead, Zenon
        <5>2. awaited' = awaited
          BY <1>1, Zenon DEF cliVars
        <5>. QED  BY <5>1, <5>2, <4>1, <4>2, Zenon
      <4>5. Pending(t)' = <<>> \o toServer[t]
        BY <4>1, <1>1, <1>3, Zenon DEF Pending, InThread
      <4>6. Pending(t)' = toServer[t]
        BY <4>3, <4>5, ConcatEmptySeq, Zenon
      <4>. QED  BY <4>3, <4>4, <4>6, <3>3, Zenon DEF FlowOK
    <3>4. CASE u = t /\ client[t] # "open"
      BY <3>4, <1>1, Zenon DEF FlowOK, cliVars
    <3>. QED  BY <3>2, <3>3, <3>4, Zenon
  <2>. QED  BY <2>2, <2>3, Zenon DEF Sound, FlowInv
<1>. QED  BY <1>7, <1>8, Zenon DEF EchoInv

LEMMA WriteTimeInv ==
    ASSUME EchoInv, NEW t \in Clients, WriteTime(t) PROVE EchoInv'
<1>. DEFINE c == Peer(t)
<1>0. TableTypes /\ LineTypes /\ ControlInv /\ (mistaken \/ Sound)
  BY Zenon DEF EchoInv
<1>1. /\ toClient' \in {toClient, Delivered(c, Time)} /\ broken' = Breaks(c)
      /\ thread[t].pc = "loop" /\ Working(t) /\ t \in TimeClients
      /\ c # Free /\ client[c] # "start"
      /\ UNCHANGED <<mainVars, backlog, cliVars, fdtab, thread, leaked, toServer, mistaken>>
  BY Zenon DEF WriteTime, Alive, Working
<1>2. c \in Clients \union {Free} /\ thread[t] \in ThreadState
  BY <1>0, PeerType, Zenon DEF TableTypes
<1>3. /\ toClient' \in [Clients -> Seq(Nat)]
      /\ \A u \in Clients : client[u] # "open" => toClient'[u] = <<>>
      /\ \A u \in Clients : u # c => toClient'[u] = toClient[u]
  <2>1. Time \in Nat
    BY Zenon DEF Time
  <2>2. PICK d \in Clients \union {Free} : d = c
    BY <1>2, Zenon
  <2>3. PICK q \in {toClient, Delivered(d, Time)} : q = toClient'
    BY <1>1, <2>2, Zenon
  <2>4. /\ q \in [Clients -> Seq(Nat)]
        /\ \A u \in Clients : client[u] # "open" => q[u] = <<>>
        /\ \A u \in Clients : u # d => q[u] = toClient[u]
    BY <2>1, DeliveredTo, Zenon
  <2>. QED  BY <2>2, <2>3, <2>4, Zenon
<1>4. Breaks(c) \subseteq Clients /\ \A u \in Breaks(c) \ broken : client[u] \notin {"start", "open"}
  BY <1>1, <1>2, BreaksGone, Zenon
<1>5. thread' = [thread EXCEPT ![t] = thread[t]]
  BY <1>0, <1>1, Zenon DEF TableTypes
<1>. HIDE DEF c
<1>6. TableTypes' /\ LineTypes' /\ ControlInv'
  <2>2. /\ fdtab' \in [Fds -> Clients \union {Free}] /\ fdtab' = fdtab
        /\ leaked' \subseteq Fds /\ mistaken' \in BOOLEAN
        /\ toServer' \in [Clients -> Seq(Nat)]
    BY <1>0, <1>1, Zenon DEF TableTypes, LineTypes
  <2>. QED  BY <2>2, <1>1, <1>2, <1>3, <1>4, <1>5, ThreadStep, Zenon
<1>7. ASSUME ~mistaken' PROVE Sound'
  <2>1. Sound /\ c = t
    BY <1>0, <1>1, <1>7, OwnPeer, Zenon DEF c
  <2>2. ThreadsInv' /\ TableInv'
    BY <2>1, <1>1, Zenon DEF Sound, ThreadsInv, TableInv, Working
  <2>3. ASSUME NEW u \in EchoClients PROVE FlowOK(u)'
    <3>1. FlowOK(u) /\ u \in Clients /\ u # t
      BY <2>1, <1>1, EchoAssumption, Zenon DEF Sound, FlowInv, Clients
    <3>2. InThread(u)' = InThread(u) /\ toClient'[u] = toClient[u]
      BY <3>1, <2>1, <1>1, <1>3, Zenon DEF InThread
    <3>. QED  BY <3>1, <3>2, <1>1, SameFlow, Zenon DEF mainVars, cliVars
  <2>. QED  BY <2>2, <2>3, Zenon DEF Sound, FlowInv
<1>. QED  BY <1>6, <1>7, Zenon DEF EchoInv

(* A thread ends when its client has gone, or is a daytime thread. *)
LEMMA EndInv ==
    ASSUME EchoInv, NEW t \in Clients, NEW fds, Working(t), End(t, fds),
           fds \in [Fds -> Clients \union {Free}], \A f \in Fds : fds[f] \in {fdtab[f], Free},
           leaked' \subseteq Fds,
           Sound => /\ t \in TimeClients \/ client[t] # "open"
                    /\ \A f \in Fds : f # thread[t].fd => fds[f] = fdtab[f] /\ (f \in leaked' <=> f \in leaked)
                    /\ fds[thread[t].fd] = Free \/ thread[t].fd \in leaked'
    PROVE  EchoInv'
<1>. DEFINE s == [NoThread EXCEPT !.pc = "done"]
<1>0. TableTypes /\ LineTypes /\ ControlInv /\ (mistaken \/ Sound)
  BY Zenon DEF EchoInv
<1>1. /\ thread' = [thread EXCEPT ![t] = s] /\ fdtab' = fds
      /\ UNCHANGED <<mainVars, backlog, cliVars, toServer, toClient, broken, mistaken>>
  BY Zenon DEF End, tcpVars
<1>2. s \in ThreadState /\ s.pc = "done"
  BY Zenon DEF NoThread, ThreadState, Control, Time, NoFd
<1>. HIDE DEF s
<1>3. TableTypes' /\ LineTypes' /\ ControlInv'
  <2>1. \A u \in Clients : client[u] # "open" => toClient[u] = <<>>
    BY <1>0, Zenon DEF ControlInv, ClientOK
  <2>2. /\ mistaken' \in BOOLEAN /\ broken' \subseteq Clients
        /\ toServer' \in [Clients -> Seq(Nat)] /\ toClient' \in [Clients -> Seq(Nat)]
    BY <1>0, <1>1, Zenon DEF TableTypes, LineTypes
  <2>. QED  BY <2>1, <2>2, <1>1, <1>2, ThreadStep, Zenon
<1>4. ASSUME Sound PROVE Sound'
  <2>1. ThreadsInv' /\ TableInv'
    BY <1>1, <1>2, <1>4, Ends, Zenon
  <2>2. ASSUME NEW u \in EchoClients PROVE FlowOK(u)'
    <3>1. FlowOK(u) /\ u \in Clients
      BY <1>4, Zenon DEF Sound, FlowInv, Clients
    <3>2. CASE u # t
      <4>1. InThread(u)' = InThread(u)
        BY <3>1, <3>2, <1>0, <1>1, Zenon DEF InThread, TableTypes
      <4>. QED  BY <3>1, <4>1, <1>1, SameFlow, Zenon DEF mainVars, cliVars
    <3>3. CASE u = t
      <4>1. client[t] # "open"
        BY <3>3, <1>4, EchoAssumption, Zenon
      <4>. QED  BY <4>1, <3>3, <1>1, Zenon DEF FlowOK, cliVars
    <3>. QED  BY <3>2, <3>3, Zenon
  <2>. QED  BY <2>1, <2>2, Zenon DEF Sound, FlowInv
<1>. QED  BY <1>0, <1>1, <1>3, <1>4, Zenon DEF EchoInv

LEMMA ClosedType ==
    ASSUME EchoInv, NEW fd
    PROVE  /\ Closed(fd) \in [Fds -> Clients \union {Free}]
           /\ \A f \in Fds : Closed(fd)[f] \in {fdtab[f], Free}
           /\ \A f \in Fds : f # fd => Closed(fd)[f] = fdtab[f]
           /\ fd \in Fds => Closed(fd)[fd] = Free
BY Zenon DEF EchoInv, TableTypes, Closed

LEMMA ReadEofInv ==
    ASSUME EchoInv, NEW t \in Clients, ReadEof(t) PROVE EchoInv'
<1>1. Working(t) /\ End(t, Closed(thread[t].fd)) /\ leaked' = leaked
  BY Zenon DEF ReadEof, Alive, Working
<1>2. Sound => client[t] # "open" /\ thread[t].fd \in Fds
  <2>. SUFFICES ASSUME Sound PROVE client[t] # "open" /\ thread[t].fd \in Fds
    BY Zenon
  <2>1. Peer(t) = t /\ thread[t].fd \in Fds
    BY <1>1, OwnPeer, Zenon
  <2>2. ClientOK(t)
    BY Zenon DEF EchoInv, ControlInv
  <2>. QED  BY <2>1, <2>2, Zenon DEF ReadEof, ClientOK
<1>3. leaked' \subseteq Fds
  BY <1>1, Zenon DEF EchoInv, TableTypes
<1>4. PICK fds : fds = Closed(thread[t].fd)
  BY Zenon
<1>5. /\ fds \in [Fds -> Clients \union {Free}]
      /\ \A f \in Fds : fds[f] \in {fdtab[f], Free}
      /\ \A f \in Fds : f # thread[t].fd => fds[f] = fdtab[f]
      /\ thread[t].fd \in Fds => fds[thread[t].fd] = Free
  BY <1>4, ClosedType, Zenon
<1>. QED  BY <1>1, <1>2, <1>3, <1>4, <1>5, EndInv, Zenon

LEMMA SigPipeInv ==
    ASSUME EchoInv, NEW t \in Clients, SigPipe(t) PROVE EchoInv'
<1>1. Working(t) /\ End(t, fdtab) /\ leaked' = leaked \union {thread[t].fd} /\ Peer(t) \in broken
  BY Zenon DEF SigPipe, Alive, Working
<1>2. Sound => client[t] # "open"
  <2>. SUFFICES ASSUME Sound PROVE client[t] # "open"
    BY Zenon
  <2>1. Peer(t) = t
    BY <1>1, OwnPeer, Zenon
  <2>2. ClientOK(t)
    BY Zenon DEF EchoInv, ControlInv
  <2>. QED  BY <1>1, <2>1, <2>2, Zenon DEF ClientOK
<1>3. fdtab \in [Fds -> Clients \union {Free}] /\ leaked \subseteq Fds /\ broken \subseteq Clients
  BY Zenon DEF EchoInv, TableTypes
<1>4. leaked' \subseteq Fds
  BY <1>1, <1>3, PeerType, EchoAssumption, Zenon
<1>. QED  BY <1>1, <1>2, <1>3, <1>4, EndInv, Zenon

LEMMA WriteFailsInv ==
    ASSUME EchoInv, NEW t \in Clients, WriteFails(t) PROVE EchoInv'
<1>1. Working(t) /\ End(t, Closed(thread[t].fd)) /\ leaked' = leaked /\ t \in TimeClients
  BY Zenon DEF WriteFails, Alive, Working
<1>2. Sound => thread[t].fd \in Fds
  BY <1>1, OwnPeer, Zenon
<1>3. leaked' \subseteq Fds
  BY <1>1, Zenon DEF EchoInv, TableTypes
<1>4. PICK fds : fds = Closed(thread[t].fd)
  BY Zenon
<1>5. /\ fds \in [Fds -> Clients \union {Free}]
      /\ \A f \in Fds : fds[f] \in {fdtab[f], Free}
      /\ \A f \in Fds : f # thread[t].fd => fds[f] = fdtab[f]
      /\ thread[t].fd \in Fds => fds[thread[t].fd] = Free
  BY <1>4, ClosedType, Zenon
<1>. QED  BY <1>1, <1>2, <1>3, <1>4, <1>5, EndInv

(* The end of the process: what is on its way to a client still comes. *)
LEMMA ReadErrorInv ==
    ASSUME EchoInv, NEW t \in Clients, ReadError(t) PROVE EchoInv'
<1>0. TableTypes /\ LineTypes /\ ControlInv /\ (mistaken \/ Sound)
  BY Zenon DEF EchoInv
<1>1. /\ server' = "exited" /\ rset' = {}
      /\ connfd' = [l \in Listeners |-> NoFd] /\ backlog' = [l \in Listeners |-> <<>>]
      /\ fdtab' = [f \in Fds |-> Free] /\ leaked' = {}
      /\ thread' = [u \in Clients |-> NoThread]
      /\ UNCHANGED <<client, typed, stdin, read_buf, awaited, seen, confused, toServer, toClient,
                     broken, mistaken>>
  BY Zenon DEF ReadError, cliVars, ttyVars, tcpVars
<1>2. NoThread \in ThreadState /\ NoThread.pc = "none"
  BY Zenon DEF NoThread, ThreadState, Control, Time, NoFd
<1>3. TableTypes'
  <2>1. thread' \in [Clients -> ThreadState]
    BY <1>1, <1>2, Zenon
  <2>2. /\ connfd' \in [Listeners -> Fds \union {NoFd}]
        /\ backlog' \in [Listeners -> Seq(Clients)] /\ fdtab' \in [Fds -> Clients \union {Free}]
    BY <1>1
  <2>. QED  BY <2>1, <2>2, <1>0, <1>1, Zenon DEF TableTypes
<1>4. LineTypes'
  BY <1>0, <1>1, Zenon DEF LineTypes
<1>5. ControlInv'
  <2>1. \A l \in Listeners : BacklogOK(l)'
    BY <1>1 DEF BacklogOK
  <2>2. \A c \in Clients : ClientOK(c)'
    BY <1>0, <1>1, <1>2, Zenon DEF ControlInv, ClientOK
  <2>3. Connected'
    BY <1>1, Zenon DEF Connected
  <2>. QED  BY <2>1, <2>2, <2>3, Zenon DEF ControlInv
<1>6. ASSUME Sound PROVE Sound'
  <2>1. ThreadsInv' /\ TableInv'
    BY <1>1, <1>2, Zenon DEF ThreadsInv, TableInv, Working
  <2>2. ASSUME NEW u \in EchoClients PROVE FlowOK(u)'
    <3>1. FlowOK(u)
      BY <1>6, Zenon DEF Sound, FlowInv
    <3>. QED  BY <3>1, <1>1, Zenon DEF FlowOK
  <2>. QED  BY <2>1, <2>2, Zenon DEF Sound, FlowInv
<1>. QED  BY <1>0, <1>1, <1>3, <1>4, <1>5, <1>6 DEF EchoInv

---------------------------------------------------------------------------
(* The clients. *)

(* What an open client does concerns its own lines. *)
LEMMA ClientStep ==
    ASSUME EchoInv, NEW c \in Clients, client[c] = "open", NEW v \in {"open", "closed", "reset"},
           client' = [client EXCEPT ![c] = v], LineTypes',
           \A u \in Clients : u # c => /\ toServer'[u] = toServer[u] /\ toClient'[u] = toClient[u]
                                       /\ awaited'[u] = awaited[u],
           v # "open" => toClient'[c] = <<>>,
           v = "open" /\ c \in EchoClients /\ FlowOK(c) =>
               \E r \in Seq(Nat) : /\ awaited'[c] = toClient'[c] \o r
                                   /\ server # "exited" => r = InThread(c) \o toServer'[c],
           UNCHANGED <<mainVars, backlog, fdtab, thread, broken, mistaken, leaked>>
    PROVE  EchoInv'
<1>0. TableTypes /\ LineTypes /\ ControlInv /\ (mistaken \/ Sound)
  BY Zenon DEF EchoInv
<1>1. UNCHANGED <<server, rset, connfd, backlog, fdtab, thread, broken, mistaken, leaked>>
  BY Zenon DEF mainVars
<1>2. client'[c] = v /\ \A u \in Clients : u # c => client'[u] = client[u]
  BY <1>0, Zenon DEF TableTypes
<1>3. \A u \in Clients : client'[u] = "start" <=> client[u] = "start"
  BY <1>2, Zenon
<1>4. TableTypes'
  BY <1>0, <1>1, Zenon DEF TableTypes
<1>5. ASSUME NEW l \in Listeners PROVE BacklogOK(l)'
  <2>1. BacklogOK(l) /\ backlog[l] \in Seq(Clients)
    BY <1>0, Zenon DEF ControlInv, TableTypes
  <2>2. \A i \in 1..Len(backlog[l]) : backlog[l][i] \in Clients
    BY <2>1, ElementOfSeq, Zenon
  <2>3. \A i \in 1..Len(backlog[l]) : client'[backlog[l][i]] # "start"
    BY <2>1, <2>2, <1>3, Zenon DEF BacklogOK
  <2>. QED  BY <2>1, <2>3, <1>1, Zenon DEF BacklogOK
<1>6. ASSUME NEW u \in Clients PROVE ClientOK(u)'
  <2>1. ClientOK(u)
    BY <1>0, Zenon DEF ControlInv
  <2>2. CASE u = c
    BY <2>1, <2>2, <1>1, <1>2, Zenon DEF ClientOK
  <2>3. CASE u # c
    BY <2>1, <2>3, <1>1, <1>2, Zenon DEF ClientOK
  <2>. QED  BY <2>2, <2>3, Zenon
<1>7. Connected'
  <2>1. \A f \in Fds : fdtab[f] # Free => fdtab[f] \in Clients /\ client[fdtab[f]] # "start"
    BY <1>0, Zenon DEF ControlInv, TableTypes, Connected
  <2>. QED  BY <2>1, <1>1, <1>3 DEF Connected
<1>8. ASSUME Sound PROVE Sound'
  <2>1. ThreadsInv' /\ TableInv'
    BY <1>1, <1>8 DEF Sound, ThreadsInv, TableInv, Working
  <2>2. ASSUME NEW u \in EchoClients PROVE FlowOK(u)'
    <3>1. FlowOK(u) /\ u \in Clients /\ InThread(u)' = InThread(u)
      BY <1>1, <1>8, Zenon DEF Sound, FlowInv, Clients, InThread
    <3>2. CASE u = c
      BY <3>1, <3>2, <1>1, <1>2, Zenon DEF FlowOK, Pending
    <3>3. CASE u # c
      BY <3>1, <3>3, <1>1, <1>2, Zenon DEF FlowOK, Pending
    <3>. QED  BY <3>2, <3>3, Zenon
  <2>. QED  BY <2>1, <2>2, Zenon DEF Sound, FlowInv
<1>. QED  BY <1>0, <1>1, <1>4, <1>5, <1>6, <1>7, <1>8 DEF EchoInv, ControlInv

(* Steps that leave all three queues of a client alone. *)
LEMMA TerminalStep ==
    ASSUME EchoInv, NEW c \in Clients, client[c] = "open", LineTypes',
           UNCHANGED <<mainVars, backlog, fdtab, thread, client, broken, mistaken, leaked,
                       toServer, toClient, awaited>>
    PROVE  EchoInv'
<1>1. client' = [client EXCEPT ![c] = "open"]
  BY Zenon DEF EchoInv, TableTypes
<1>2. FlowOK(c) => \E r \in Seq(Nat) : /\ awaited'[c] = toClient'[c] \o r
                                       /\ server # "exited" => r = InThread(c) \o toServer'[c]
  BY Zenon DEF FlowOK, Pending
<1>. QED  BY <1>1, <1>2, ClientStep, Zenon

LEMMA TypeLineInv ==
    ASSUME EchoInv, NEW c \in Clients, TypeLine(c) PROVE EchoInv'
<1>1. LineTypes'
  <2>1. LineTypes
    BY Zenon DEF EchoInv
  <2>2. typed[c] + 1 \in Nat /\ Append(stdin[c], typed[c] + 1) \in Seq(Nat \union {Eof})
    BY <2>1, AppendProperties DEF LineTypes
  <2>. QED  BY <2>1, <2>2, Zenon DEF LineTypes, TypeLine, tcpVars
<1>. QED  BY <1>1, TerminalStep, Zenon DEF TypeLine, tcpVars

LEMMA TypeEofInv ==
    ASSUME EchoInv, NEW c \in Clients, TypeEof(c) PROVE EchoInv'
<1>1. LineTypes'
  <2>1. LineTypes
    BY Zenon DEF EchoInv
  <2>2. Append(stdin[c], Eof) \in Seq(Nat \union {Eof})
    BY <2>1, AppendProperties, Zenon DEF LineTypes
  <2>. QED  BY <2>1, <2>2, Zenon DEF LineTypes, TypeEof, tcpVars
<1>. QED  BY <1>1, TerminalStep, Zenon DEF TypeEof, tcpVars

LEMMA ReadStdinInv ==
    ASSUME EchoInv, NEW c \in Clients, ReadStdin(c) PROVE EchoInv'
<1>0. LineTypes /\ TableTypes
  BY Zenon DEF EchoInv
<1>1. /\ client[c] = "open"
      /\ UNCHANGED <<mainVars, backlog, fdtab, thread, client, typed, toClient, broken, mistaken, leaked>>
  BY Zenon DEF ReadStdin
<1>2. PICK line \in Nat : /\ SendLine(c, line) /\ stdin' \in [Clients -> Seq(Nat \union {Eof})]
                          /\ read_buf' \in [Clients -> Seq(Nat)]
  <2>1. CASE read_buf[c] = <<>> /\ Head(stdin[c]) # Eof /\ SendLine(c, Head(stdin[c]))
               /\ stdin' = [stdin EXCEPT ![c] = Tail(@)] /\ read_buf' = read_buf /\ stdin[c] # <<>>
    <3>1. stdin[c] \in Seq(Nat \union {Eof}) /\ stdin[c] # <<>>
      BY <1>0, <2>1, Zenon DEF LineTypes
    <3>2. Head(stdin[c]) \in Nat \union {Eof} /\ Tail(stdin[c]) \in Seq(Nat \union {Eof})
      BY <3>1
    <3>. QED  BY <3>2, <2>1, <1>0, Zenon DEF LineTypes
  <2>2. CASE read_buf[c] # <<>> /\ SendLine(c, Head(read_buf[c]))
               /\ read_buf' = [read_buf EXCEPT ![c] = Tail(@)] /\ stdin' = stdin
    <3>1. Head(read_buf[c]) \in Nat /\ Tail(read_buf[c]) \in Seq(Nat)
      BY <1>0, <2>2, HeadAndTail, Zenon DEF LineTypes
    <3>. QED  BY <3>1, <2>2, <1>0, Zenon DEF LineTypes
  <2>. QED  BY <2>1, <2>2, Zenon DEF ReadStdin
<1>3. /\ toServer[c] \in Seq(Nat) /\ toClient[c] \in Seq(Nat) /\ awaited[c] \in Seq(Nat)
      /\ Append(toServer[c], line) \in Seq(Nat) /\ Append(awaited[c], line) \in Seq(Nat)
  BY <1>0, AppendProperties, Zenon DEF LineTypes
<1>4. /\ toServer'[c] = Append(toServer[c], line) /\ awaited'[c] = Append(awaited[c], line)
      /\ \A u \in Clients : u # c => toServer'[u] = toServer[u] /\ awaited'[u] = awaited[u]
  BY <1>0, <1>2, Zenon DEF LineTypes, SendLine
<1>5. LineTypes'
  BY <1>0, <1>1, <1>2, <1>3, Zenon DEF LineTypes, SendLine
<1>6. client' = [client EXCEPT ![c] = "open"]
  BY <1>0, <1>1, Zenon DEF TableTypes
<1>7. FlowOK(c) => \E r \in Seq(Nat) : /\ awaited'[c] = toClient'[c] \o r
                                       /\ server # "exited" => r = InThread(c) \o toServer'[c]
  <2>. SUFFICES ASSUME FlowOK(c)
                PROVE  \E r \in Seq(Nat) : /\ awaited'[c] = toClient'[c] \o r
                                           /\ server # "exited" => r = InThread(c) \o toServer'[c]
    BY Zenon
  <2>1. PICK r \in Seq(Nat) : /\ awaited[c] = toClient[c] \o r
                              /\ server # "exited" => r = InThread(c) \o toServer[c]
    BY <1>1, Zenon DEF FlowOK, Pending
  <2>2. Append(r, line) \in Seq(Nat) /\ awaited'[c] = toClient'[c] \o Append(r, line)
    <3>1. Append(toClient[c] \o r, line) = toClient[c] \o Append(r, line) /\ Append(r, line) \in Seq(Nat)
      BY <1>3, AppendRest, Zenon
    <3>. QED  BY <3>1, <2>1, <1>1, <1>4, Zenon
  <2>3. InThread(c) \in Seq(Nat)
    BY <1>0 DEF InThread, TableTypes, ThreadState
  <2>4. server # "exited" => Append(r, line) = InThread(c) \o toServer'[c]
    <3>1. Append(InThread(c) \o toServer[c], line) = InThread(c) \o Append(toServer[c], line)
      BY <2>3, <1>3, AppendRest, Zenon
    <3>. QED  BY <3>1, <2>1, <1>4, Zenon
  <2>. QED  BY <2>2, <2>4, Zenon
<1>. QED  BY <1>1, <1>4, <1>5, <1>6, <1>7, ClientStep, Zenon

LEMMA EchoReplyInv ==
    ASSUME EchoInv, NEW c \in Clients, EchoReply(c) PROVE EchoInv'
<1>0. LineTypes /\ TableTypes
  BY Zenon DEF EchoInv
<1>1. /\ client[c] = "open" /\ toClient[c] # <<>>
      /\ UNCHANGED <<mainVars, backlog, fdtab, thread, client, typed, stdin, toServer, broken,
                     mistaken, leaked>>
  BY Zenon DEF EchoReply, ttyVars
<1>2. CASE read_buf[c] # <<>> /\ read_buf' = [read_buf EXCEPT ![c] = Tail(@)]
             /\ UNCHANGED <<toClient, awaited>>
  <2>1. Tail(read_buf[c]) \in Seq(Nat)
    BY <1>0, <1>2, HeadAndTail, Zenon DEF LineTypes
  <2>2. LineTypes'
    BY <2>1, <1>0, <1>1, <1>2, Zenon DEF LineTypes
  <2>. QED  BY <2>2, <1>1, <1>2, TerminalStep, Zenon
<1>3. ASSUME NEW k \in 1..Len(toClient[c]),
             read_buf' = [read_buf EXCEPT ![c] = SubSeq(toClient[c], 2, k)],
             toClient' = [toClient EXCEPT ![c] = SubSeq(@, k + 1, Len(@))],
             awaited' = [awaited EXCEPT ![c] = SubSeq(@, k + 1, Len(@))]
      PROVE  EchoInv'
  <2>1. toClient[c] \in Seq(Nat) /\ awaited[c] \in Seq(Nat) /\ k \in Nat
    BY <1>0 DEF LineTypes
  <2>2. /\ SubSeq(toClient[c], 2, k) \in Seq(Nat)
        /\ SubSeq(toClient[c], k + 1, Len(toClient[c])) \in Seq(Nat)
        /\ SubSeq(awaited[c], k + 1, Len(awaited[c])) \in Seq(Nat)
    <3>1. <<>> \in Seq(Nat)
      OBVIOUS
    <3>2. /\ SubSeq(toClient[c], 2, k) \in Seq(Nat)
          /\ SubSeq(toClient[c], k + 1, Len(toClient[c])) \in Seq(Nat)
      BY <2>1, <3>1, DropSome, Zenon
    <3>3. \A i \in (k + 1)..Len(awaited[c]) : awaited[c][i] \in Nat
      BY <2>1, ElementOfSeq
    <3>4. k + 1 \in Int /\ Len(awaited[c]) \in Int
      BY <2>1
    <3>5. SubSeq(awaited[c], k + 1, Len(awaited[c])) \in Seq(Nat)
      BY <3>3, <3>4, SubSeqProperties, Zenon
    <3>. QED  BY <3>2, <3>5, Zenon
  <2>3. LineTypes'
    BY <2>2, <1>0, <1>1, <1>3, Zenon DEF LineTypes
  <2>4. /\ toClient'[c] = SubSeq(toClient[c], k + 1, Len(toClient[c]))
        /\ awaited'[c] = SubSeq(awaited[c], k + 1, Len(awaited[c]))
        /\ \A u \in Clients : u # c => toClient'[u] = toClient[u] /\ awaited'[u] = awaited[u]
    BY <1>0, <1>3, Zenon DEF LineTypes
  <2>5. FlowOK(c) => \E r \in Seq(Nat) : /\ awaited'[c] = toClient'[c] \o r
                                         /\ server # "exited" => r = InThread(c) \o toServer'[c]
    <3>. SUFFICES ASSUME FlowOK(c)
                  PROVE  \E r \in Seq(Nat) : /\ awaited'[c] = toClient'[c] \o r
                                             /\ server # "exited" => r = InThread(c) \o toServer'[c]
      BY Zenon
    <3>1. PICK r \in Seq(Nat) : /\ awaited[c] = toClient[c] \o r
                                /\ server # "exited" => r = InThread(c) \o toServer[c]
      BY <1>1, Zenon DEF FlowOK, Pending
    <3>2. SubSeq(toClient[c] \o r, k + 1, Len(toClient[c] \o r))
            = SubSeq(toClient[c], k + 1, Len(toClient[c])) \o r
      BY <2>1, DropSome, Zenon
    <3>3. awaited'[c] = toClient'[c] \o r
      BY <3>1, <3>2, <2>4, Zenon
    <3>. QED  BY <3>1, <3>3, <1>1, Zenon
  <2>6. client' = [client EXCEPT ![c] = "open"]
    BY <1>0, <1>1, Zenon DEF TableTypes
  <2>. QED  BY <2>3, <2>4, <2>5, <2>6, <1>1, ClientStep, Zenon
<1>. QED  BY <1>2, <1>3, Zenon DEF EchoReply, Rest

LEMMA TimeReplyInv ==
    ASSUME EchoInv, NEW c \in Clients, TimeReply(c) PROVE EchoInv'
<1>0. LineTypes /\ TableTypes
  BY Zenon DEF EchoInv
<1>1. /\ client[c] = "open" /\ toClient[c] # <<>> /\ c \notin EchoClients
      /\ toClient' = [toClient EXCEPT ![c] = Tail(@)]
      /\ UNCHANGED <<mainVars, backlog, fdtab, thread, client, typed, stdin, read_buf, awaited,
                     toServer, broken, mistaken, leaked>>
  BY EchoAssumption, Zenon DEF TimeReply, ttyVars
<1>2. Tail(toClient[c]) \in Seq(Nat)
  BY <1>0, <1>1, HeadAndTail, Zenon DEF LineTypes
<1>3. LineTypes'
  BY <1>0, <1>1, <1>2, Zenon DEF LineTypes
<1>4. /\ client' = [client EXCEPT ![c] = "open"]
      /\ \A u \in Clients : u # c => toClient'[u] = toClient[u]
  BY <1>0, <1>1, Zenon DEF TableTypes, LineTypes
<1>. QED  BY <1>1, <1>3, <1>4, ClientStep, Zenon

LEMMA QuitInv ==
    ASSUME EchoInv, NEW c \in Clients, Quit(c) PROVE EchoInv'
<1>0. LineTypes /\ TableTypes
  BY Zenon DEF EchoInv
<1>1. /\ client[c] = "open" /\ UNCHANGED <<mainVars, backlog, fdtab, thread, typed, broken, mistaken, leaked>>
      /\ stdin' = [stdin EXCEPT ![c] = <<>>] /\ read_buf' = [read_buf EXCEPT ![c] = <<>>]
      /\ awaited' = [awaited EXCEPT ![c] = <<>>]
  BY Zenon DEF Quit
<1>2. <<>> \in Seq(Nat) /\ <<>> \in Seq(Nat \union {Eof})
  OBVIOUS
<1>3. PICK v \in {"closed", "reset"} :
        /\ client' = [client EXCEPT ![c] = v]
        /\ toClient' \in {toClient, [toClient EXCEPT ![c] = <<>>]} /\ toClient'[c] = <<>>
        /\ toServer' \in {toServer, [toServer EXCEPT ![c] = <<>>]}
  BY <1>0, Zenon DEF Quit, LineTypes
<1>4. LineTypes'
  BY <1>0, <1>1, <1>2, <1>3, Zenon DEF LineTypes
<1>5. \A u \in Clients : u # c => /\ toServer'[u] = toServer[u] /\ toClient'[u] = toClient[u]
                                  /\ awaited'[u] = awaited[u]
  BY <1>0, <1>1, <1>3, Zenon DEF LineTypes
<1>. QED  BY <1>1, <1>3, <1>4, <1>5, ClientStep, Zenon

LEMMA ConnectInv ==
    ASSUME EchoInv, NEW c \in Clients, Connect(c) PROVE EchoInv'
<1>. DEFINE m == ListenerOf(c)
<1>0. TableTypes /\ LineTypes /\ ControlInv /\ (mistaken \/ Sound)
  BY Zenon DEF EchoInv
<1>1. /\ client[c] = "start" /\ server # "exited" /\ m \in Listeners
      /\ client' = [client EXCEPT ![c] = "open"] /\ backlog' = [backlog EXCEPT ![m] = Append(@, c)]
      /\ UNCHANGED <<server, rset, connfd, fdtab, thread, typed, stdin, read_buf, awaited, toServer,
                     toClient, broken, mistaken, leaked>>
  BY Zenon DEF Connect, mainVars, ttyVars, tcpVars, ListenerOf, Listeners
<1>2. client'[c] = "open" /\ \A u \in Clients : u # c => client'[u] = client[u]
  BY <1>0, <1>1, Zenon DEF TableTypes
<1>3. backlog[m] \in Seq(Clients) /\ Append(backlog[m], c) \in Seq(Clients)
  BY <1>0, <1>1, AppendProperties, Zenon DEF TableTypes
<1>4. TableTypes'
  BY <1>0, <1>1, <1>3, Zenon DEF TableTypes
<1>5. LineTypes'
  BY <1>0, <1>1, Zenon DEF LineTypes
<1>6. ClientOK(c) /\ thread[c].pc = "none" /\ toServer[c] = <<>> /\ toClient[c] = <<>> /\ awaited[c] = <<>>
  BY <1>0, <1>1, Zenon DEF ControlInv, ClientOK
<1>7. ASSUME NEW l \in Listeners PROVE BacklogOK(l)'
  <2>0. PICK q \in Seq(Clients) : q = backlog[l]
    BY <1>0, Zenon DEF TableTypes
  <2>1. /\ \A i \in 1..Len(q) : /\ ListenerOf(q[i]) = l
                                /\ thread[q[i]].pc = "none" /\ client[q[i]] # "start"
        /\ \A i, j \in 1..Len(q) : q[i] = q[j] => i = j
        /\ l \in rset => q # <<>>
    BY <1>0, <2>0, Zenon DEF ControlInv, BacklogOK
  <2>2. \A i \in 1..Len(q) : q[i] \in Clients
    BY ElementOfSeq, Zenon
  <2>3. \A i \in 1..Len(q) : q[i] # c /\ client'[q[i]] # "start" /\ thread'[q[i]].pc = "none"
    BY <2>1, <2>2, <1>1, <1>2, Zenon
  <2>4. CASE l # m
    <3>1. backlog'[l] = q
      BY <2>0, <2>4, <1>0, <1>1, Zenon DEF TableTypes
    <3>. QED  BY <3>1, <2>1, <2>3, <1>1 DEF BacklogOK
  <2>5. CASE l = m
    <3>1. backlog'[l] = Append(q, c)
      BY <2>0, <2>5, <1>0, <1>1 DEF TableTypes
    <3>2. PICK p : p = Append(q, c)
      BY Zenon
    <3>3. /\ Len(p) = Len(q) + 1 /\ p # <<>> /\ p[Len(q) + 1] = c
          /\ \A i \in 1..Len(q) : p[i] = q[i]
      BY <3>2, AppendProperties
    <3>4. \A i \in 1..Len(p) : i \in 1..Len(q) \/ i = Len(q) + 1
      BY <3>3
    <3>5. ListenerOf(c) = l /\ thread'[c].pc = "none" /\ client'[c] # "start"
      BY <2>5, <1>1, <1>2, <1>6, Zenon
    <3>6. \A i \in 1..Len(p) :
             ListenerOf(p[i]) = l /\ thread'[p[i]].pc = "none" /\ client'[p[i]] # "start"
      BY <3>3, <3>4, <3>5, <2>1, <2>3
    <3>7. \A i, j \in 1..Len(p) : p[i] = p[j] => i = j
      BY <3>3, <3>4, <2>1, <2>3
    <3>8. backlog'[l] = p
      BY <3>1, <3>2, Zenon
    <3>. QED  BY <3>3, <3>6, <3>7, <3>8 DEF BacklogOK
  <2>. QED  BY <2>4, <2>5, Zenon
<1>8. ASSUME NEW u \in Clients PROVE ClientOK(u)'
  <2>1. ClientOK(u)
    BY <1>0, Zenon DEF ControlInv
  <2>. QED  BY <2>1, <1>1, <1>2, <1>6, Zenon DEF ClientOK
<1>9. Connected'
  BY <1>0, <1>1, <1>2, Zenon DEF ControlInv, TableTypes, Connected
<1>10. ASSUME Sound PROVE Sound'
  <2>1. ThreadsInv' /\ TableInv'
    BY <1>1, <1>10, Zenon DEF Sound, ThreadsInv, TableInv, Working
  <2>2. ASSUME NEW u \in EchoClients PROVE FlowOK(u)'
    <3>1. FlowOK(u) /\ u \in Clients
      BY <1>10, Zenon DEF Sound, FlowInv, Clients
    <3>2. CASE u = c
      <4>1. Pending(u)' = <<>> \o <<>> /\ awaited'[u] = <<>> /\ toClient'[u] = <<>>
        BY <3>2, <1>1, <1>6, Zenon DEF Pending, InThread
      <4>2. <<>> \o <<>> = <<>> /\ <<>> \in Seq(Nat)
        BY ConcatEmptySeq, EmptySeq, Zenon
      <4>. QED  BY <4>1, <4>2, Zenon DEF FlowOK
    <3>3. CASE u # c
      BY <3>1, <3>3, <1>1, <1>2, Zenon DEF FlowOK, Pending, InThread
    <3>. QED  BY <3>2, <3>3, Zenon
  <2>. QED  BY <2>1, <2>2, Zenon DEF Sound, FlowInv
<1>. QED  BY <1>0, <1>1, <1>4, <1>5, <1>7, <1>8, <1>9, <1>10 DEF EchoInv, ControlInv

---------------------------------------------------------------------------
(* The theorems. *)

LEMMA NextInv == EchoInv /\ [Next]_vars => EchoInv'
<1>. SUFFICES ASSUME EchoInv, [Next]_vars PROVE EchoInv'
  BY Zenon
<1>1. CASE UNCHANGED vars
  <2>. USE <1>1 DEF vars, mainVars, cliVars, ttyVars, tcpVars
  <2>1. TableTypes' /\ LineTypes'
    BY Zenon DEF EchoInv, TableTypes, LineTypes
  <2>2. ControlInv'
    BY Zenon DEF EchoInv, ControlInv, BacklogOK, ClientOK, Connected
  <2>3. Sound => Sound'
    BY Zenon DEF Sound, ThreadsInv, TableInv, Working, FlowInv, FlowOK, Pending, InThread
  <2>. QED  BY <2>1, <2>2, <2>3, Zenon DEF EchoInv
<1>2. CASE Main
  BY <1>2, SelectInv, NotReadyInv, AcceptInv, AcceptFailsInv, Zenon DEF Main
<1>3. ASSUME NEW t \in Clients, Thread(t) PROVE EchoInv'
  BY <1>3, StartThreadInv, ReadLineInv, WriteLineInv, ReadEofInv, ReadErrorInv, WriteTimeInv,
     SigPipeInv, WriteFailsInv DEF Thread
<1>4. ASSUME NEW c \in Clients, Client(c) PROVE EchoInv'
  BY <1>4, ConnectInv, TypeLineInv, TypeEofInv, ReadStdinInv, EchoReplyInv, TimeReplyInv, QuitInv
     DEF Client, Reads
<1>. QED  BY <1>1, <1>2, <1>3, <1>4, Zenon DEF Next

(* EchoInv holds throughout: main, the threads and the clients keep it. *)
THEOREM EchoInvariant == Spec => []EchoInv
BY InitEchoInv, NextInv, PTL DEF Spec

(* The types of the server's and the clients' state, whatever connections the *)
(* threads find in connfd.                                                   *)
THEOREM EchoTypeCorrect == Spec => []TypeOK
<1>1. EchoInv => TypeOK
  BY Zenon DEF EchoInv, TableTypes, TypeOK, ThreadState, Control
<1>. QED  BY <1>1, EchoInvariant, PTL

(* Unless a thread found another connection in connfd, every descriptor that  *)
(* is open and was not leaked by SIGPIPE has exactly one thread.             *)
THEOREM DescriptorsServed == Spec => []FdsServed
<1>1. EchoInv => FdsServed
  <2>. SUFFICES ASSUME EchoInv, Sound, NEW f \in Fds, fdtab[f] # Free, f \notin leaked
                PROVE  \E t \in Clients : /\ fdtab[f] = t /\ Working(t) /\ thread[t].fd = f
                                          /\ \A u \in Clients : Working(u) /\ thread[u].fd = f => u = t
    BY Zenon DEF EchoInv, FdsServed
  <2>1. PICK t \in Clients : t = fdtab[f]
    BY Zenon DEF EchoInv, TableTypes
  <2>2. Working(t) /\ thread[t].fd = f
    BY <2>1, Zenon DEF Sound, TableInv
  <2>3. \A u \in Clients : Working(u) /\ thread[u].fd = f => u = t
    BY <2>1, Zenon DEF Sound, ThreadsInv
  <2>. QED  BY <2>1, <2>2, <2>3, Zenon
<1>. QED  BY <1>1, EchoInvariant, PTL

(* Unless a thread found another connection in connfd, what is on its way to a *)
(* client is what that client wrote, in that order.                          *)
THEOREM EchoesExactly == Spec => []EchoExact
<1>1. EchoInv => EchoExact
  <2>. SUFFICES ASSUME EchoInv, Sound, NEW c \in EchoClients
                PROVE  IsPrefix(toClient[c], awaited[c])
    BY Zenon DEF EchoInv, EchoExact
  <2>1. c \in Clients /\ toClient[c] \in Seq(Nat) /\ awaited[c] \in Seq(Nat)
    BY Zenon DEF EchoInv, LineTypes, Clients
  <2>2. \E r \in Seq(Nat) : awaited[c] = toClient[c] \o r
    <3>1. CASE client[c] = "open"
      BY <3>1, Zenon DEF Sound, FlowInv, FlowOK
    <3>2. CASE client[c] # "open"
      <4>1. toClient[c] = <<>>
        BY <3>2, <2>1, Zenon DEF EchoInv, ControlInv, ClientOK
      <4>. QED  BY <4>1, <2>1, ConcatEmptySeq, Zenon
    <3>. QED  BY <3>1, <3>2, Zenon
  <2>. QED  BY <2>1, <2>2, PrefixOfConcat, Zenon
<1>. QED  BY <1>1, EchoInvariant, PTL
=============================================================================
