---------------------------- MODULE EchoServer ----------------------------
(***************************************************************************)
(* The echo and daytime server of Assignment1 (tcpechotimesrv.c) and its     *)
(* clients (echo_cli.c, time_cli.c).  Main accepts connections on two        *)
(* listening sockets and starts a thread for each, to which it passes the    *)
(* address of its own variable connfd.                                       *)
(*                                                                          *)
(* TCP is reliable.  A client that quits resets the connection when there is *)
(* something it has not read, and closes it otherwise.                      *)
(*                                                                          *)
(* The server is linked with the readline of Stevens' threads directory,     *)
(* which has a buffer per thread; echo_cli with the one of lib/readline.c,   *)
(* whose one buffer serves the terminal and the socket alike.                *)
(***************************************************************************)
EXTENDS Integers, FiniteSets, Sequences, SequencesExt

CONSTANTS
    EchoClients, TimeClients,
    Free,          \* what an unused descriptor or thread stands for
    MaxFds,        \* descriptors the server may have open for connections
    Lines          \* how many lines the user of an echo client types

VARIABLES
    server,        \* where main is in its loop: "select", "time", "echo", "exited"
    rset,          \* what select found ready and the round has yet to serve
    same_slot,     \* whether the two variables connfd share their memory
    connfd,        \* main's variables
    backlog,       \* connections not yet accepted
    fdtab,         \* the client behind a descriptor
    thread,        \* the thread started for a client's connection
    client,        \* "start", "open", "closed", "reset"
    typed, stdin,  \* lines the user of an echo client typed; what is not yet read of it
    read_buf,      \* what readline has in its buffer, in an echo client
    awaited,       \* lines an echo client wrote and has not read back
    toServer, toClient,   \* lines on the way, or not yet read
    seen,          \* what a client printed
    broken,        \* clients whose connection a write found closed or reset
    confused,      \* echo clients that sent a line of the socket as if it were typed
    mistaken,      \* some thread found another connection in connfd than its own
    leaked         \* descriptors of threads that SIGPIPE ended

mainVars == <<server, rset, same_slot, connfd>>
ttyVars == <<typed, stdin>>
cliVars == <<client, ttyVars, read_buf, awaited, seen, confused>>
tcpVars == <<toServer, toClient, broken>>
vars == <<mainVars, backlog, fdtab, thread, cliVars, tcpVars, mistaken, leaked>>

Clients == EchoClients \union TimeClients
Fds == 1..MaxFds
NoFd == 0
Listeners == {"time", "echo"}

ASSUME EchoAssumption ==
    /\ EchoClients \intersect TimeClients = {} /\ Free \notin Clients
    /\ MaxFds \in Nat /\ Lines \in [EchoClients -> Nat]

ListenerOf(c) == IF c \in EchoClients THEN "echo" ELSE "time"
SlotOf(l) == IF same_slot THEN "time" ELSE l
Time == 0          \* the line a daytime thread writes
Eof == -1          \* ^D
NoThread == [pc |-> "none", fd |-> NoFd, line |-> Time]

(* The two variables are in blocks of their own: the compiler may give them    *)
(* one place on the stack.                                                     *)
Init ==
    /\ server = "select" /\ rset = {} /\ same_slot \in BOOLEAN
    /\ connfd = [l \in Listeners |-> NoFd]
    /\ backlog = [l \in Listeners |-> <<>>]
    /\ fdtab = [f \in Fds |-> Free]
    /\ thread = [c \in Clients |-> NoThread]
    /\ client = [c \in Clients |-> "start"]
    /\ typed = [c \in Clients |-> 0]
    /\ toServer = [c \in Clients |-> <<>>] /\ toClient = toServer /\ seen = toServer
    /\ stdin = toServer /\ read_buf = toServer /\ awaited = toServer
    /\ broken = {} /\ confused = {}
    /\ mistaken = FALSE /\ leaked = {}

---------------------------------------------------------------------------
(* Main. *)

Select ==
    /\ server = "select" /\ \E l \in Listeners : backlog[l] # <<>>
    /\ rset' = {l \in Listeners : backlog[l] # <<>>}
    /\ server' = "time"
    /\ UNCHANGED <<same_slot, connfd, backlog, fdtab, thread, cliVars, tcpVars, mistaken,
                   leaked>>

AfterListener(l) == IF l = "time" THEN "echo" ELSE "select"
LowestFd == CHOOSE f \in Fds : fdtab[f] = Free /\ \A g \in 1..(f - 1) : fdtab[g] # Free

NotReady(l) ==
    /\ server = l /\ l \notin rset
    /\ server' = AfterListener(l)
    /\ UNCHANGED <<rset, same_slot, connfd, backlog, fdtab, thread, cliVars, tcpVars,
                   mistaken, leaked>>

(* accept and pthread_create: the thread gets the place of connfd. *)
Accept(l) ==
    LET c == Head(backlog[l])
    IN  /\ server = l /\ l \in rset /\ \E f \in Fds : fdtab[f] = Free
        /\ backlog' = [backlog EXCEPT ![l] = Tail(@)]
        /\ fdtab' = [fdtab EXCEPT ![LowestFd] = c]
        /\ connfd' = [connfd EXCEPT ![SlotOf(l)] = LowestFd]
        /\ thread' = [thread EXCEPT ![c] = [pc |-> "created", fd |-> LowestFd, line |-> Time]]
        /\ server' = AfterListener(l) /\ rset' = rset \ {l}
        /\ UNCHANGED <<same_slot, cliVars, tcpVars, mistaken, leaked>>

(* No descriptor left: connfd is -1 now, and the rest of the round is skipped. *)
AcceptFails(l) ==
    /\ server = l /\ l \in rset /\ \A f \in Fds : fdtab[f] # Free
    /\ connfd' = [connfd EXCEPT ![SlotOf(l)] = NoFd]
    /\ server' = "select" /\ rset' = {}
    /\ UNCHANGED <<same_slot, backlog, fdtab, thread, cliVars, tcpVars, mistaken,
                   leaked>>

---------------------------------------------------------------------------
(* The threads.  A thread is named for the client it was started for. *)

Alive(t, pc) == server # "exited" /\ thread[t].pc = pc
Peer(t) == IF thread[t].fd \in Fds THEN fdtab[thread[t].fd] ELSE Free

(* The first thing a thread does is to read main's variable. *)
StartThread(t) ==
    LET fd == connfd[SlotOf(ListenerOf(t))]
    IN  /\ Alive(t, "created")
        /\ thread' = [thread EXCEPT ![t].pc = "loop", ![t].fd = fd]
        /\ mistaken' = (mistaken \/ fd # thread[t].fd)
        /\ UNCHANGED <<mainVars, backlog, fdtab, cliVars, tcpVars, leaked>>

End(t, fds) ==
    /\ thread' = [thread EXCEPT ![t] = [NoThread EXCEPT !.pc = "done"]]
    /\ fdtab' = fds
    /\ UNCHANGED <<mainVars, backlog, cliVars, tcpVars, mistaken>>

(* Mutant: the descriptor is not closed. *)
KeepOpen(fd) == fdtab

Closed(fd) == IF fd \in Fds THEN [fdtab EXCEPT ![fd] = Free] ELSE fdtab

(* Readline returns a line. *)
ReadLine(t) ==
    LET c == Peer(t)
    IN  /\ Alive(t, "loop") /\ t \in EchoClients
        /\ c # Free /\ toServer[c] # <<>>
        /\ thread' = [thread EXCEPT ![t].pc = "write", ![t].line = Head(toServer[c])]
        /\ toServer' = [toServer EXCEPT ![c] = Tail(@)]
        /\ UNCHANGED <<mainVars, backlog, fdtab, cliVars, toClient, broken, mistaken, leaked>>

(* What is written to a client that has gone is lost. *)
Delivered(c, line) ==
    IF c # Free /\ client[c] = "open"
    THEN [toClient EXCEPT ![c] = Append(@, line)] ELSE toClient

(* Mutant: the thread uses the descriptor in main's variable throughout. *)
EchoThroughArg(t) ==
    LET fd == connfd[SlotOf("echo")]
    IN  Delivered(IF fd \in Fds THEN fdtab[fd] ELSE Free, thread[t].line)

(* Mutant: a line is dropped when the client has not read the one before. *)
EchoWhenRead(t) ==
    IF Peer(t) # Free /\ toClient[Peer(t)] # <<>> THEN toClient
    ELSE Delivered(Peer(t), thread[t].line)

EchoTo(t) == Delivered(Peer(t), thread[t].line)

(* Mutant: a descriptor that is not open counts as a broken connection. *)
BreaksClosed(c) == IF c = Free \/ client[c] # "open" THEN broken \union {c} ELSE broken

(* A write to a connection that the client closed or reset breaks it; the     *)
(* result of this one is not looked at, and the buffer is zeroed after it.    *)
Breaks(c) == IF c # Free /\ client[c] # "open" THEN broken \union {c} ELSE broken

WriteLine(t) ==
    /\ Alive(t, "write") /\ Peer(t) \notin broken
    /\ toClient' = EchoTo(t)
    /\ broken' = Breaks(Peer(t))
    /\ thread' = [thread EXCEPT ![t].pc = "loop", ![t].line = Time]
    /\ UNCHANGED <<mainVars, backlog, fdtab, cliVars, toServer, mistaken, leaked>>

(* Readline returns 0. *)
ReadEof(t) ==
    LET c == Peer(t)
    IN  /\ Alive(t, "loop") /\ t \in EchoClients
        /\ c # Free /\ toServer[c] = <<>>
        /\ client[c] = "closed" \/ c \in broken
        /\ End(t, Closed(thread[t].fd)) /\ UNCHANGED leaked

(* Readline fails and ends the process, not just the thread: a connection     *)
(* that was reset, or a descriptor another thread closed.                     *)
ReadError(t) ==
    LET c == Peer(t)
    IN  /\ Alive(t, "loop") /\ t \in EchoClients
        /\ c # Free => client[c] = "reset" /\ toServer[c] = <<>> /\ c \notin broken
        /\ server' = "exited" /\ rset' = {}
        /\ connfd' = [l \in Listeners |-> NoFd] /\ backlog' = [l \in Listeners |-> <<>>]
        /\ fdtab' = [f \in Fds |-> Free] /\ leaked' = {}
        /\ thread' = [u \in Clients |-> NoThread]
        /\ UNCHANGED <<same_slot, cliVars, tcpVars, mistaken>>

(* A daytime thread writes every five seconds.  A write after the client      *)
(* closed the connection still succeeds and breaks it.                        *)
WriteTime(t) ==
    LET c == Peer(t)
    IN  /\ Alive(t, "loop") /\ t \in TimeClients
        /\ c # Free /\ client[c] \in {"open", "closed"} /\ c \notin broken
        /\ toClient' = IF toClient[c] = <<>> THEN Delivered(c, Time) ELSE toClient
        /\ broken' = Breaks(c)
        /\ UNCHANGED <<mainVars, backlog, fdtab, thread, cliVars, toServer, mistaken, leaked>>

(* The next write raises SIGPIPE, and sig_pipe ends the thread: a close        *)
(* behind the loop is not reached.                                            *)
SigPipe(t) ==
    /\ Alive(t, IF t \in EchoClients THEN "write" ELSE "loop") /\ Peer(t) \in broken
    /\ End(t, fdtab) /\ leaked' = leaked \union {thread[t].fd}

(* The write of a daytime thread fails without a signal. *)
WriteFails(t) ==
    LET c == Peer(t)
    IN  /\ Alive(t, "loop") /\ t \in TimeClients
        /\ c # Free => client[c] = "reset" /\ c \notin broken
        /\ End(t, Closed(thread[t].fd)) /\ UNCHANGED leaked

---------------------------------------------------------------------------
(* The clients. *)

Connect(c) ==
    /\ client[c] = "start" /\ server # "exited"
    /\ client' = [client EXCEPT ![c] = "open"]
    /\ backlog' = [backlog EXCEPT ![ListenerOf(c)] = Append(@, c)]
    /\ UNCHANGED <<mainVars, fdtab, thread, ttyVars, read_buf, awaited, seen, confused, tcpVars,
                   mistaken, leaked>>

(* The terminal: the user types lines and, after the last, perhaps ^D. *)
TypeLine(c) ==
    /\ c \in EchoClients /\ client[c] = "open" /\ typed[c] < Lines[c]
    /\ typed' = [typed EXCEPT ![c] = @ + 1]
    /\ stdin' = [stdin EXCEPT ![c] = Append(@, typed[c] + 1)]
    /\ UNCHANGED <<mainVars, backlog, fdtab, thread, client, read_buf, awaited, seen, confused,
                   tcpVars, mistaken, leaked>>

TypeEof(c) ==
    /\ c \in EchoClients /\ client[c] = "open" /\ 0 < typed[c] /\ typed[c] = Lines[c]
    /\ ~Contains(stdin[c], Eof)
    /\ stdin' = [stdin EXCEPT ![c] = Append(@, Eof)]
    /\ UNCHANGED <<mainVars, backlog, fdtab, thread, client, typed, read_buf, awaited, seen,
                   confused, tcpVars, mistaken, leaked>>

SendLine(c, line) ==
    /\ toServer' = [toServer EXCEPT ![c] = Append(@, line)]
    /\ awaited' = [awaited EXCEPT ![c] = Append(@, line)]

(* select found the terminal ready, which hands out one line at a time; but   *)
(* readline looks into its buffer first.  At ^D the client quits (Quit).      *)
ReadStdin(c) ==
    /\ client[c] = "open" /\ stdin[c] # <<>>
    /\ \/ /\ read_buf[c] = <<>> /\ Head(stdin[c]) # Eof
          /\ SendLine(c, Head(stdin[c]))
          /\ stdin' = [stdin EXCEPT ![c] = Tail(@)]
          /\ UNCHANGED <<read_buf, confused>>
       \/ /\ read_buf[c] # <<>>
          /\ SendLine(c, Head(read_buf[c]))
          /\ read_buf' = [read_buf EXCEPT ![c] = Tail(@)]
          /\ confused' = confused \union {c}
          /\ UNCHANGED stdin
    /\ UNCHANGED <<mainVars, backlog, fdtab, thread, client, typed, seen, toClient, broken,
                   mistaken, leaked>>

(* An echo client may be sent the time, by a daytime thread that found its      *)
(* connection in connfd.  It comes again and again; once is enough here.        *)
Known(q, line) == line = Time /\ \E i \in DOMAIN q : q[i] = Time
Shown(c, line) == [seen EXCEPT ![c] = IF Known(@, line) THEN @ ELSE Append(@, line)]

(* Mutant: what comes after the line is thrown away. *)
Discarded(c, k) == <<>>

(* What stays in the buffer when readline has read k lines and returns one. *)
Rest(c, k) == SubSeq(toClient[c], 2, k)

(* select found the socket ready: one line is printed.  With an empty buffer  *)
(* readline reads what the socket has, or the first part of it.              *)
EchoReply(c) ==
    /\ c \in EchoClients /\ client[c] = "open" /\ toClient[c] # <<>>
    /\ \/ /\ read_buf[c] # <<>>
          /\ seen' = Shown(c, Head(read_buf[c]))
          /\ read_buf' = [read_buf EXCEPT ![c] = Tail(@)]
          /\ UNCHANGED <<toClient, awaited>>
       \/ /\ read_buf[c] = <<>>
          /\ seen' = Shown(c, Head(toClient[c]))
          /\ \E k \in 1..Len(toClient[c]) :
                /\ read_buf' = [read_buf EXCEPT ![c] = Rest(c, k)]
                /\ toClient' = [toClient EXCEPT ![c] = SubSeq(@, k + 1, Len(@))]
                /\ awaited' = [awaited EXCEPT ![c] = SubSeq(@, k + 1, Len(@))]
    /\ UNCHANGED <<mainVars, backlog, fdtab, thread, client, ttyVars, confused, toServer, broken,
                   mistaken, leaked>>

(* A daytime client prints what it reads; the last of it is kept here. *)
TimeReply(c) ==
    /\ c \in TimeClients /\ client[c] = "open" /\ toClient[c] # <<>>
    /\ seen' = [seen EXCEPT ![c] = <<Head(toClient[c])>>]
    /\ toClient' = [toClient EXCEPT ![c] = Tail(@)]
    /\ UNCHANGED <<mainVars, backlog, fdtab, thread, client, ttyVars, read_buf, awaited, confused,
                   toServer, broken, mistaken, leaked>>

(* ^C, ^D or the end of the server's process.  A reset may overtake lines that *)
(* the server has not read.  What the client's memory held is gone.           *)
Quit(c) ==
    /\ client[c] = "open"
    /\ \/ /\ toClient[c] = <<>>
          /\ client' = [client EXCEPT ![c] = "closed"]
          /\ UNCHANGED <<toClient, toServer>>
       \/ /\ toClient[c] # <<>>
          /\ client' = [client EXCEPT ![c] = "reset"]
          /\ toClient' = [toClient EXCEPT ![c] = <<>>]
          /\ toServer' \in {toServer, [toServer EXCEPT ![c] = <<>>]}
    /\ stdin' = [stdin EXCEPT ![c] = <<>>]
    /\ read_buf' = [read_buf EXCEPT ![c] = <<>>]
    /\ awaited' = [awaited EXCEPT ![c] = <<>>]
    /\ UNCHANGED <<mainVars, backlog, fdtab, thread, typed, seen, confused, broken, mistaken,
                   leaked>>

Main == Select \/ \E l \in Listeners : NotReady(l) \/ Accept(l) \/ AcceptFails(l)
Thread(t) ==
    \/ StartThread(t) \/ ReadLine(t) \/ WriteLine(t) \/ ReadEof(t) \/ ReadError(t)
    \/ WriteTime(t) \/ SigPipe(t) \/ WriteFails(t)
Reads(c) == ReadStdin(c) \/ EchoReply(c) \/ TimeReply(c)
Client(c) == Connect(c) \/ TypeLine(c) \/ TypeEof(c) \/ Reads(c) \/ Quit(c)

Next == Main \/ \E c \in Clients : Thread(c) \/ Client(c)

Spec == Init /\ [][Next]_vars

(* Main and the threads are scheduled fairly, and a client that has something *)
(* to read reads it; users need not do anything.                             *)
FairSpec ==
    /\ Spec /\ WF_vars(Main)
    /\ \A c \in Clients : WF_vars(Thread(c)) /\ WF_vars(Reads(c))
---------------------------------------------------------------------------
(* Properties. *)

(* Types of the state. *)
TypeOK ==
    /\ server \in {"select", "time", "echo", "exited"} /\ rset \subseteq Listeners
    /\ connfd \in [Listeners -> Fds \union {NoFd}]
    /\ fdtab \in [Fds -> Clients \union {Free}]
    /\ thread \in [Clients -> [pc : {"none", "created", "loop", "write", "done"},
                              fd : Fds \union {NoFd}, line : Nat]]
    /\ client \in [Clients -> {"start", "open", "closed", "reset"}]
    /\ broken \subseteq Clients /\ leaked \subseteq Fds

BeforeEof(q) == IF Contains(q, Eof) THEN Front(q) ELSE q
AllLines(c) == seen[c] \o read_buf[c] \o awaited[c] \o BeforeEof(stdin[c])

(* The server returns to a client what it wrote, in that order (Readme: "The  *)
(* server will send the exact same response back to the client"), as long as  *)
(* no thread found another connection in connfd: descriptors that are closed   *)
(* and used again for another client do not mix two conversations.            *)
EchoExact == mistaken \/ \A c \in EchoClients : IsPrefix(toClient[c], awaited[c])

(* No line is lost or printed twice, even by a client that took lines of the   *)
(* socket for typed ones and sent them again; a client that never did prints  *)
(* its lines in the order they were typed.                                    *)
EachLineOnce ==
    mistaken \/ \A c \in EchoClients : client[c] = "open" =>
        /\ Len(AllLines(c)) = typed[c] /\ ToSet(AllLines(c)) = 1..typed[c]
        /\ c \notin confused => IsPrefix(seen[c], [i \in 1..typed[c] |-> i])

Working(t) == thread[t].pc \in {"created", "loop", "write"}

(* Every open descriptor has one thread at work on it, except the ones SIGPIPE *)
(* leaves behind: those are never closed.                                      *)
FdsServed ==
    mistaken \/ \A f \in Fds : (fdtab[f] # Free /\ f \notin leaked) =>
        \E t \in Clients : /\ fdtab[f] = t /\ Working(t) /\ thread[t].fd = f
                           /\ \A u \in Clients : Working(u) /\ thread[u].fd = f => u = t

Excused(c) == mistaken \/ server = "exited" \/ client[c] # "open"

(* A line typed into an accepted connection is printed or in the buffer of     *)
(* readline, where select does not see it, and an accepted daytime client is   *)
(* told the time, unless the client quits, the process ends or a thread went   *)
(* for the wrong connection.                                                  *)
Responds ==
    /\ \A c \in EchoClients : (thread[c].pc # "none" /\ typed[c] > Len(seen[c])) ~>
          (Excused(c) \/ Len(seen[c]) + Len(read_buf[c]) = typed[c])
    /\ \A c \in TimeClients : (thread[c].pc # "none") ~> (Excused(c) \/ seen[c] # <<>>)
=============================================================================
