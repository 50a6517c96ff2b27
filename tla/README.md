# A TLA+ model of NetworkProgramming

The repository holds the four programs of a network programming course and the
library they are built with. This directory models all four: every component is
model-checked on a small instance, and its main safety properties are proved for
every value of the constants.

## The system

| part | source | what it does | module |
|---|---|---|---|
| transfer, server | `hw2/server.c` | sends a file word by word over UDP: window, congestion window, timer, fast retransmit, probes | `Sender` |
| transfer, client | `hw2/client.c` | stores datagrams in a ring, acknowledges, prints from a second thread, drops at random | `Receiver` |
| connection set-up | `hw2/server.c`, `hw2/client.c` | request, forked child, new port; local or remote client | `Handshake` |
| on-demand routing | `hw3/odr.c`, `hw3/common.c` | floods route requests, keeps a routing table, forwards payloads | `Odr` |
| time client and server | `hw3/client.c`, `hw3/server.c` | request with a timeout and one forced repetition | `Odr` |
| address resolution | `hw4/arp.c`, `hw4/common.c` | a daemon per node with a cache; `areq` asks it over a local socket | `Arp` |
| tour | `hw4/tour.c` | passes a route along, pings the previous nodes, ends by multicast | `Tour` |
| echo and daytime | `Assignment1/code` | a thread per connection; clients at a terminal | `EchoServer` |
| library | `unpv13e` | Stevens' socket wrappers and book examples | its two `readline`s in `EchoServer`, otherwise external |

Each component `M` has `MCM` (its instance for TLC) and proofs in a module of its
own. `FileDelivery`, `FileService` and `TourWalk` are abstract specifications: what a
transfer, a set-up and a tour promise. In all modules a message, an address or a word of a
file is a model value; durations are not modelled, so a timer may fire whenever
it is armed; printing and the layout of packets are left out.

## The modules

### hw2: the transfer (`Udp`, `Sender`, `Receiver`, `Transfer`, `FileDelivery`)

* **`Udp`** is the network: a bounded queue per direction that loses, duplicates
  and reorders. `Faults` selects the kinds, `MaxFaults` how many.
* **`Sender`** is the child that `server.c` forks: `send_file_data` and
  `receive_ack`. `config` holds the fields of `th_config`, `fp` counts the words
  read, `packet_count` the burst. `Retransmit`, `SendNext`, `AwaitAck` and
  `EndTransfer` are the branches of the loop; `ReceiveAck`, `Timeout` and
  `FastRetransmit` are the ways out of a wait. The alarm is asynchronous: it may
  be early (`EarlyTimeout`), interrupt the code between `recvmsg` and the
  assignments behind it (`TimeoutInAck`), or fire in the next burst, because the
  timer is never disarmed, and jump into a dead frame (`StrayAlarm`:
  `server = "undefined"`). `cwnd` is an `int`: `Grow` and `Half` wrap around at
  `IntMax`, and a window that became negative stops the bursts until a timeout.
* **`Receiver`** is the client: `text_buffer` is the ring of `Rwnd` slots, `mutex`
  the lock, `slot` the scan under way. `Receive` is main's handling of a datagram
  with the acknowledgement it sends, `Drop` the simulated loss, `ReaderLock`,
  `ReaderPrint`, `ReaderUnlock` the reader thread, `MainPrint` and `Exit` the last
  scan.
* **`Transfer`** composes them; **`FileDelivery`** is the promise: the client takes
  in the words in order, shows each once and ends with all of them, and the server
  reports success only then.

### hw2: the set-up (`Handshake`, `FileService`)

`WriteName`, `AwaitAck`, `AwaitPort`, `Strtol`, `create_new_connection` are the client
up to its second socket; `Request` is the first process, which stores the file
name in one global, runs `check_addr_local` (`LocalScan`, the recursive function that
iterates `CheckAddr` over the interfaces) and forks, `RequestForkFails` its failing fork; `SendPort` and
`FirstDatagram` are the child. `Fault` loses, doubles or swaps any datagram. The
programs send nothing twice here, so one lost datagram leaves a client waiting.
`Strtol` crashes or not: the pointer it gets for the end of the number is
uninitialised (`client.c:175`). `FileService` promises that the one transfer begun
for a client is of the file it asked for.

### hw3: routing (`Odr`)

Per node the daemon and the time server, and clients. `table` is the routing table,
`buffer` the requests that wait for an answer, `header` the payload request whose
answer the daemon awaits from its server. `process_frame` takes a frame of one of
the four types (`ProcessRoute`, `ProcessPayloadReq`, `ProcessPayloadResp`) with the
update of the table and everything sent in turn; `ClientRequest` takes a request of
a local client; `ServerAnswer` is the blocking read after a payload request, which
may get a client's request instead (`mistaken`); `Stale` empties a table. `Ask`,
`Receive`, `Timeout` are the client, `respond` the server, `LoseFrame` the network.
Writing behind the end of `buffer` makes a daemon "undefined". Two nodes
share at most one LAN.

### hw4: address resolution (`Arp`)

Per node the daemon and one caller of `areq` (the ping thread of tour, which calls
sequentially). `cache` is the filled prefix of `arp_cache`, `frames` the packet
socket, `conn` the open descriptors with the IP asked for, `backlog` and `call` the
local socket and the caller. `process_frame` (requests and replies) and `Accept` are
the branches of the daemon's loop; `Areq`, `AreqTimeout`, `AreqReturn` the caller. `accept`
returns the lowest free descriptor, so numbers are reused. An insertion
behind the last entry of a full array makes the daemon "undefined".

### hw4: the tour (`Tour`, `TourWalk`)

Per node the two threads of `tour.c`. Main: `populate_route`, `ReceiveRoute`,
`PassOn`, `send_multicast`, `ReceiveMulticast`; the address is appended to `ips_to_ping`
in two steps (the counter, then the bytes), as in `strcpy(ips_to_ping[i++], ...)`.
`send_ping`: `StartPass`, `Announce`, `send_ping_request` and `Crash` (the result of
`gethostbyaddr` for a slot nobody wrote is used unchecked). `areq` is a call that takes
time; `Arp` says what it answers. `TourWalk` knows no packets, only the stop at which each
node was last visited (`route_el.index` in the code): the tour goes from each stop to
the next, may end anywhere, and tells the group of its end at the last stop only.

### Assignment1 (`EchoServer`)

`Select`, `NotReady`, `Accept`, `AcceptFails` are main's loop over its two listeners.
A thread gets the address of main's variable `connfd` and reads it first
(`StartThread`): if main accepted again in between, it finds another connection
than its own (`mistaken`). `ReadLine`, `WriteLine`, `ReadEof`, `ReadError`, `WriteTime`,
`SigPipe` and `WriteFails` are the threads; a failing read ends the whole process, a
SIGPIPE ends the thread and leaks its descriptor (`leaked`). The compiler may give
the two `connfd` one place on the stack (`same_slot`). The echo client's `readline` has
one buffer for the terminal and the socket (`unpv13e/lib/readline.c`), so `ReadStdin`
may find a line of the socket and send it again, and a line may wait in the buffer
where `select` does not see it.

## Runs

| run | instance | states | shows |
|---|---|---|---|
| `transfer_faults` | 3 words, ring 2, any 3 of 9 kinds of fault | 1,346,507 | print order, ring contents, right words, what follows the last word, no early success |
| `transfer_live` | 6 words, ring 4, 2 faults on data | 728,007 | goes back only within the file; implements `FileDelivery`; both ends terminate with the whole file |
| `handshake` | 2 clients, 4 children, 2 faults | 326,536 | ports belong to their clients, one transfer each, longest match; implements `FileService`; without faults everybody is served |
| `odr` | line of 3 nodes, 2 clients, 2 faults | 160,277 | no loops, rows lead on, no surplus answers, floods die out |
| `arp` | 2 nodes, 1 absent IP, 2 calls each, 2 losses | 47,031 | caches, answers and descriptors are right, no overrun, zero answers only to repeated calls, nothing learned is lost; incomplete entries are completed |
| `tour` | route n1 n2 n3 n2 n3 n1, 1 loss | 185,302 | one packet, lists of predecessors, announced before pinged, ends last; implements `TourWalk`; everybody stops |
| `echo` | 2 echo and 1 daytime client, 2 descriptors | 357,155 | exact echo, each line once, descriptors served or leaked; lines are answered |

Each property has a mutant of the code that violates it under the same run.

These runs find what the repository says and the code does not do:

| run | statement | what happens |
|---|---|---|
| `transfer_lastword` | `hw2/README:29` | with two acknowledgements lost the last word is sent and printed twice |
| `transfer_exit` | `hw2/README:29` | the last scan does not wrap around: the end of the file is not printed |
| `odr_answered` | `hw3/Readme:29-30` | a destination that has no row for the asking node forgets its answer |
| `arp_waiter` | `hw4/arp.c:18` | a crossing request overwrites a waiting caller |
| `tour_ping` | `hw4/Readme:17` | a slot is pinged before its address is written |

Behaviours the models contain and no run is devoted to:

* hw2: the server resends the eof for ever when the last acknowledgement is lost
  (against `README:27`); it may give up on a client that just answered
  (`server.c:354`); `isEOF` is read before it is assigned (`server.c:193`; constant
  `UninitEOF`); datagrams out of order are not saved (`client.c:331`, against
  `README:20`); the timer is never disarmed (`server.c:407`); a `cwnd` that
  overflowed stalls the transfer until a timeout;
* hw4: a second `areq` for an address that is still being resolved is answered with
  zeros (`Readme:13`); a reply for an entry without a waiting descriptor is
  written to descriptor 0 (`arp.c:195`, against `arp.h:8`);
* Assignment1: two connections accepted in quick succession may share a thread's
  descriptor (`mistaken`), which the properties other than the type invariant
  excuse; a client may print its lines out of order (`confused`).

**Bounds.** A ring of 2 to 4 slots with a longer file makes the ring wrap around,
the window close and the probes start; two repeated acknowledgements replace three
in the smallest run. `IntMax = 7` lets `cwnd` overflow within one file; the two runs
about printing use 127, where it does not. Three faults combine a loss, a late
acknowledgement and an alarm. Four children are enough for both clients'
requests to be doubled. A line of three nodes has a node in between that answers
for another, two clients let requests cross. Two ARP nodes suffice for crossing
requests, two calls for a descriptor that is closed, reused and still remembered,
and for a repeated question. The route of the tour visits two nodes twice, one from
the same predecessor and one from different ones. Two descriptors for three
connections make `accept` fail, and numbers are reused; two lines are needed for a
second line to stay in the buffer. The proofs have none of these bounds. `arp_waiter`
declares the nodes symmetric: the code only compares addresses for equality.

**Deadlock** is not checked: transfers, tours and clients end, and daemons wait.

**Fairness.** Processes and threads run when they can; faults, timeouts, users and
impatient callers owe nothing.
* `Transfer`: weak fairness of the server, the reader and main; strong fairness for
  `Receive`, because the reader sleeps between two scans with the mutex free.
  `transfer_live` disturbs only data: a lost last acknowledgement makes the server
  resend for ever. `RTT_MAXNREXMT` is 12 as in the code.
* `Handshake`, `Odr`, `Arp`, `Tour`: weak fairness of each process or thread. `Connects`,
  `Resolves`, `Ends` excuse behaviours with a fault, as nothing is sent again.
  `Drains` excuses nodes that emptied their table: frames have no time to live.
* `EchoServer`: weak fairness of main, of each thread and of a client's reads. The
  user need not type.

## Proofs

They hold for every value of the constants that satisfies the module's assumption.
Each proves an inductive invariant, one lemma per action, and derives the
properties from it. The invariants were checked with TLC first, in a form it can
evaluate.

| module | invariant | theorems |
|---|---|---|
| `TransferProofs` | `AckInv`, `RingInv` | `TypeOK`, `DoneMeansReceived`, `PrintedInOrder`, `RingHoldsUnprinted` |
| `DeliveryProofs` | `WordInv`, `TailInv`, `EndInv` | `PrintedWords`, `PrintedTail`; `ImplementsDelivery` and `PrintedIsPrefix`, if `GoesBackToFile` always holds |
| `HandshakeProofs` | `SetupInv`, `LocalInv` | `TypeOK`, `PortForItsClient`, `OneTransfer`, `LocalIsLongest`, `ImplementsService` |
| `OdrProofs` | `OdrInv`, `RequestInv` | `TypeOK`, `RoutesContinue`, `NoLoops`, `AnswersAsked` |
| `ArpProofs` | `ArpInv`, `RepeatInv` | `TypeOK`, `CacheSound`, `WaiterAsked`, `AnswersMatch`, `NeverOverruns`, `ZeroOnlyRepeated`, `LearnedForGood` |
| `TourProofs` | `TourInv`, `WalkInv` | `TypeOK`, `OneTraveller`, `ListOfPredecessors`, `AnnouncedFirst`, `EndsLast`, `ImplementsWalk` |
| `EchoProofs` | `EchoInv` | `TypeOK`, `EchoExact`, `FdsServed` |
| `EchoLineProofs` | `LinesInv` | `EachLineOnce` |

A leaf that needs no arithmetic names the first-order prover, `Zenon`; the others go to
the SMT solver. A long module checks much faster that way.

* `AckInv`: a late acknowledgement carries a number that the server compares with its
  present state. Every acknowledgement under way, the last one remembered and every
  number in the ring are bounded by what the client expects, which never falls; so
  no old acknowledgement ends the transfer early. It assumes `UninitEOF = {0}`: the
  uninitialised field happens to be 0, without which the property is false.
* `RingInv`: the ring holds exactly the numbers from the first unprinted one to the
  expected one, number `s` in slot `s % Rwnd`, and a scan under way stands at the oldest
  or has nothing left before the end of the array.
* `WordInv`: the file is read exactly as far as the numbers were sent, going back
  included (`fp = Reopened(seq_num)`), so every datagram, slot and printed line with a
  number below the end of the file carries that word, and no eof has such a number.
* `TailInv`: under a number after the words of the file the server sends the last word
  (it reread the file past its end), an empty buffer or the eof. The line that shows the
  end mark has the highest number taken in, because the client leaves its loop in the
  step that stores it. So `PrintedTail` says of every behaviour what the client can
  print where `PrintedIsPrefix` fails.
* `EndInv`: the eof has the number after the last word, and a client that left its loop
  has it. It is not invariant in general: `transfer_lastword` shows the server going
  back to a number it never sent and sending the last word under it. `GoesBackToFile`
  says that this does not happen, and is the condition of these two
  theorems; the network and the timers may do anything. With `AckInv`, `RingInv`
  and `WordInv` it gives the step simulation of `FileDelivery`: a datagram stored is
  `Accept`, a slot printed is `Show`, `Exit` is `Close`, `EndTransfer` is `Report`, and the
  rest stutters. Where acknowledgements are undisturbed, `transfer_live` checks the
  condition.
* `SetupInv`: every port on its way to a client is that of a child forked for it, a
  client uses one port, a child's file is its client's, and all that comes to a port
  comes from the client that was told it. `ImplementsService` is a step simulation:
  the child that takes its first datagram serves, `WriteName` asks, everything else
  stutters.
* `LocalInv`: what the server remembers of a client is what `check_addr_local` finds for
  its address. That the loop finds the longest match (`LocalIsLongest`) is an induction
  over the list of interfaces, done with a least counterexample, since the library's
  induction theorems cannot be instantiated; it excludes addresses that the first
  interface matches, whose index 0 also stands for none. `TypeOK` needs two facts about the lists:
  there is an interface, and where a client's address is the loopback there is a second
  one, because the code then reports entry 1 unseen.
* `OdrInv`: a neighbour that sent a frame about the way to an address knows such a
  way: the address is its own, it has a row for it, or it has emptied its table. Rows
  are only entered from such frames, so each leads on, and a node that first gets
  a row for an address cannot be on another node's way to it: no loop can close.
* `RequestInv`: the answers a client got from a node, plus its requests to that node
  queued at the daemon or waiting in its buffer, are at most the requests it made. A
  payload response is passed on only by clearing a waiting request, so the copies that
  a flood makes find nothing to clear.
* `ArpInv`: frames carry their sender's own address, no IP has two entries, and a
  waiting caller's descriptor is open for its IP. `NeverOverruns` follows by counting.
* `LearnedForGood` is an action property, proved from `ArpInv`: a complete entry is only
  overwritten with the address of its own IP, a waiter is dropped without its entry, and
  the one entry of an IP is what its callers are answered from.
* `RepeatInv`: a node with an incomplete entry, or with a call on its way to the daemon,
  has called; a call on its way that would find an incomplete entry is not its first.
* `TourInv`: where the packet is, how far the lists of the nodes behind it are
  filled, and how far each `send_ping` has got in its list.
* `WalkInv`: the packet, or the node that has the route, carries the number of the stop
  visited last, and no node has a higher one. `ImplementsWalk` is then a step simulation:
  `populate_route` is `Begin`, `ReceiveRoute` is `Go`, `send_multicast` is `Tell`, and passing
  the packet on, losing it and everything `send_ping` does stutter.
* `EchoInv`: types and control hold always; unless `mistaken`, each thread at work and
  each descriptor not leaked belong to each other (`ThreadsInv`, `TableInv`), and what
  a client awaits is what is on its way to it, in its thread's buffer and on its way
  to the server, in this order (`FlowInv`).
* `LinesInv`: the lines printed, in `readline`'s buffer, awaited and still in the terminal
  are together as many as were typed and contain each of them, and stand in this order
  as long as the client never took a line of the socket for a typed one.

Only model-checked: all liveness properties (`Completes`, `Connects`, `Drains`,
`Resolves`, `Ends`, `Responds`), which are out of the prover's reach; and
`GoesBackToFile`, which the code does not guarantee and which is false for some values
of the constants. It holds in `transfer_live` because acknowledgements arrive there and
timers do not fire early; with `ChanCap = 2`, where the queue has no room for some
acknowledgements, TLC finds it violated.

## Not modelled

* `unpv13e` apart from `readline`: some 30,000 lines, the vendored code of a
  book. Its wrappers make one system call each and exit on failure, which the
  actions that use them say; the example programs are not built or run by anything
  in the repository. It is most of the repository's lines, which is why the models
  map only a small share of them (about half of the repository's own code).
* `hw4/submit_files`: the C sources of `hw4` once more. `hw3/kdhw3`: an earlier
  prototype that the Makefile does not build.
* Discovery of interfaces and hardware addresses (`hw2/get_ifi_info_plus.c`,
  `hw3/get_hw_addrs.c`, `hw4/get_hw_addrs.c`): `ioctl` calls on the kernel's list. Their
  result is a constant of the models (`Ifaces`, `ServIps`).
* `hw2/rtt.c`: the estimate of the round-trip time. The models have no durations;
  any timeout may come at any time.
* `Assignment1`'s menu (`tcpechotimecli.c`): sequential, with one child at a time; its
  comparison takes an empty line for the first command (`tcpechotimecli.c:65`).
* Echo replies of `tour.c` (`proc_v4`), which are only printed.
* Limits that the instances do not reach: the descriptors of the ARP daemon (it
  leaks one per cached answer), the hundred rows of a routing table, the size of
  `ips_to_ping` on a node that is not on the route.
