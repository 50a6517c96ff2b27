----------------------------- MODULE Transfer -----------------------------
(***************************************************************************)
(* One file transfer of hw2: the server child (Sender), the client         *)
(* (Receiver) and the network between them (Udp).                          *)
(***************************************************************************)
EXTENDS Sender, Receiver

vars == <<sndVars, rcvVars, udpVars>>

Init == UdpInit /\ SenderInit /\ ReceiverInit

SenderStep == SenderNext /\ UNCHANGED rcvVars
ReceiverStep == ReceiverNext /\ UNCHANGED sndVars
NetworkStep == UdpNext /\ UNCHANGED <<sndVars, rcvVars>>

(* Nobody reads the socket of a process that has ended. *)
ToClosedSocket ==
    /\ client = "exited" /\ toClient # <<>>
    /\ toClient' = <<>>
    /\ UNCHANGED <<sndVars, rcvVars, toServer, faults>>

Next == SenderStep \/ ReceiverStep \/ NetworkStep \/ ToClosedSocket

Spec == Init /\ [][Next]_vars

(* The processes run whenever they can, an armed timer fires, and a slow    *)
(* reader sleeps between two scans, so main gets the mutex.  The network and *)
(* the racing alarms owe nothing.                                            *)
ServerProgress ==
    /\ \/ Retransmit \/ SendNext \/ AwaitAck \/ EndTransfer
       \/ ReceiveAck \/ Timeout \/ FastRetransmit
    /\ UNCHANGED rcvVars
ReaderProgress ==
    (ReaderLock \/ ReaderPrint \/ ReaderUnlock) /\ UNCHANGED sndVars
MainProgress == (MainPrint \/ Exit) /\ UNCHANGED sndVars
ReceiveStep == Receive /\ UNCHANGED sndVars

FairSpec ==
    /\ Spec
    /\ WF_vars(ServerProgress) /\ WF_vars(ReaderProgress)
    /\ WF_vars(MainProgress) /\ SF_vars(ReceiveStep) /\ WF_vars(ToClosedSocket)

---------------------------------------------------------------------------
Line == [seq : Nat, data : Word \union {EofMark}]

SenderOK ==
    /\ server \in {"sending", "waiting", "done", "gaveup", "undefined"}
    /\ seq_num \in SeqNo /\ fp \in 0..Len(File) /\ packet_count \in Nat
    /\ config \in Config
    /\ prev_seq_num \in SeqNo /\ fast_retransmit \in 0..DupAcks
    /\ timer \in BOOLEAN

ReceiverOK ==
    /\ client \in {"receiving", "draining", "exited"}
    /\ mutex \in {"free", "main", "reader"}
    /\ slot \in 0..Rwnd
    /\ expected_seq_num \in Nat
    /\ text_buffer \in [Slots -> Line \union {Vacant}]
    /\ printed \in Seq(Line)

UdpOK ==
    /\ toClient \in Seq(Datagram) /\ toServer \in Seq(Ack)
    /\ faults \in 0..MaxFaults

(* Every variable has its type. *)
TypeOK == SenderOK /\ ReceiverOK /\ UdpOK

(* Safety. *)

(* The lines printed carry the sequence numbers 0, 1, 2, ...: whatever the   *)
(* network and the timers do, the client prints nothing twice, skips nothing *)
(* and keeps the order (client.c 185-192 and 354-361).                       *)
PrintedInOrder == \A k \in 1..Len(printed) : printed[k].seq = k - 1

(* The ring holds exactly the numbers that were acknowledged and not yet     *)
(* printed, so an acknowledged word stays in the ring until it is printed.   *)
RingHoldsUnprinted ==
    \A s \in 0..(expected_seq_num + Rwnd) :
        ispresent(text_buffer, s) <=> Len(printed) <= s /\ s < expected_seq_num

(* Line k shows word k of the file, even after the file was reopened to go   *)
(* back (server.c 238-251).                                                  *)
PrintedWords ==
    \A k \in 1..Len(printed) : k <= Len(File) => printed[k].data = File[k]

TailWords == IF File = <<>> THEN {NoWord} ELSE {File[Len(File)], NoWord}

(* What is printed after the words of the file, when the server went back    *)
(* past the end, is its last word again or an empty line; the end mark comes *)
(* last, and nothing is taken in after it (server.c 238-281, client.c        *)
(* 313-337).                                                                 *)
PrintedTail ==
    \A k \in (Len(File) + 1)..Len(printed) :
        \/ printed[k].data \in TailWords
        \/ /\ printed[k].data = EofMark
           /\ k = Len(printed) /\ k = expected_seq_num /\ client # "receiving"

(* The server reports success only after the client has stored the eof:      *)
(* no stale, duplicated or reordered acknowledgement ends the transfer early *)
(* (server.c 391-395).                                                       *)
DoneMeansReceived ==
    server = "done" =>
        /\ config.last_pack_seq_no # -1
        /\ expected_seq_num > config.last_pack_seq_no

(* The invariant from which DoneMeansReceived follows: the client asks for   *)
(* no more than it stored, everything the server knows of the client is      *)
(* older than that, and isEOF is set by such knowledge only.                 *)
AckInv ==
    /\ TypeOK
    /\ toServer \in Seq([seq : 0..expected_seq_num, rwnd : Nat])
    /\ prev_seq_num <= expected_seq_num
    /\ \A i \in Slots : text_buffer[i].seq < expected_seq_num
    /\ config.isEOF = 1 => BeyondLast(config, expected_seq_num)
    /\ server = "done" => config.isEOF = 1

(* The ring holds the numbers from n to e - 1, each s in slot s % Rwnd. *)
RingHolds(ring, n, e) ==
    /\ \A s \in n..(e - 1) : ring[s % Rwnd].seq = s
    /\ \A i \in Slots : Filled(ring, i) =>
          ring[i].seq \in n..(e - 1) /\ ring[i].seq % Rwnd = i

(* The invariant from which PrintedInOrder and RingHoldsUnprinted follow: a   *)
(* scan of the ring under way stands at the oldest line, or has nothing left  *)
(* to print before the end of the array.                                     *)
RingInv ==
    /\ PrintedInOrder
    /\ expected_seq_num \in Len(printed)..(Len(printed) + Rwnd)
    /\ RingHolds(text_buffer, Len(printed), expected_seq_num)
    /\ client # "receiving" => mutex = "main"
    /\ \/ mutex = "free" \/ slot = Rwnd
       \/ slot = Len(printed) % Rwnd \/ Len(printed) = expected_seq_num

(* Datagrams and lines that carry the word their number stands for; what is  *)
(* marked eof is numbered after the last word.                               *)
TrueDatagram ==
    {m \in Datagram :
        /\ m.type = "data" /\ m.seq < Len(File) => m.buf = File[m.seq + 1]
        /\ m.type = "eof" => m.seq >= Len(File)}

TrueLine(line) ==
    line.seq \in 0..(Len(File) - 1) => line.data = File[line.seq + 1]

(* The invariant from which PrintedWords follows: the file is read exactly as *)
(* far as the numbers were sent, and every datagram in flight, slot of the   *)
(* ring and line printed shows the word of its number.                       *)
WordInv ==
    /\ fp = Reopened(seq_num)
    /\ config.last_pack_seq_no = -1 \/ config.last_pack_seq_no >= Len(File)
    /\ toClient \in Seq(TrueDatagram)
    /\ \A i \in Slots : TrueLine(text_buffer[i])
    /\ \A k \in 1..Len(printed) : TrueLine(printed[k])

(* Datagrams and lines numbered after the words of the file. *)
TailDatagram ==
    {m \in Datagram : m.type = "data" /\ m.seq >= Len(File) => m.buf \in TailWords}

TailLine(line) ==
    line.seq >= Len(File) =>
        \/ line.data \in TailWords
        \/ /\ line.data = EofMark
           /\ line.seq + 1 = expected_seq_num /\ client # "receiving"

(* The invariant from which PrintedTail follows: so do the datagrams in      *)
(* flight and the ring, and the end mark is the last line taken in.          *)
TailInv ==
    /\ toClient \in Seq(TailDatagram)
    /\ \A i \in Slots : TailLine(text_buffer[i])
    /\ \A k \in 1..Len(printed) : TailLine(printed[k])

Output == [k \in 1..Len(printed) |-> printed[k].data]
Whole == File \o <<EofMark>>

Delivery == INSTANCE FileDelivery WITH
    accepted <- expected_seq_num,
    out <- Output,
    closed <- client = "exited",
    reported <- server = "done"

(* While no acknowledgement is lost, not even for want of room in the queue,  *)
(* and no timer fires early, the server goes back to a word of the file or    *)
(* knows the number of the eof.  Otherwise it would read past the end of the  *)
(* file and send the last word again under a number of its own (server.c      *)
(* 238-251).                                                                  *)
GoesBackToFile ==
    config.last_unacked_seq < Len(File) \/ config.last_pack_seq_no # -1

(* The protocol implements FileDelivery while no acknowledgement is lost and *)
(* no timer fires early.                                                     *)
ImplementsDelivery == Delivery!Spec

(* Liveness: with finitely many data datagrams lost, the client gets the     *)
(* file and both ends terminate normally.                                    *)
Completes == <>(client = "exited" /\ server = "done")

---------------------------------------------------------------------------
(* What the repository says and the code does not do. *)

(* README 29: the content of the file is what is printed as FileData. *)
PrintedIsPrefix == IsPrefix(Output, Whole)

(* README 29, at the end of the client: all of it has been printed. *)
AllPrintedAtExit == client = "exited" => Output = Whole
=============================================================================
