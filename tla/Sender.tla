------------------------------ MODULE Sender ------------------------------
(***************************************************************************)
(* The server child of hw2 once the client has announced its address:      *)
(* send_file_data, which sends a burst of min(cwnd, rwnd) datagrams, and   *)
(* receive_ack, which waits for the acknowledgement of the last one under  *)
(* a timer (server.c).  Sequence numbers count the words of the file; the  *)
(* number after the last word is that of the eof datagram.                 *)
(***************************************************************************)
EXTENDS Udp

CONSTANTS
    File,              \* the words fscanf("%s") yields, in order
    ServRwnd,          \* the window read from server.in
    RTT_MAXNREXMT,     \* timeouts in a row before the server gives up
    DupAcks,           \* repeated acknowledgements that trigger a resend (3)
    IntMax,            \* the largest int (2^31 - 1)
    UninitEOF          \* what config.isEOF may hold: nothing initialises it

VARIABLES
    server,            \* "sending", "waiting", "done", "gaveup", "undefined"
    seq_num,           \* sequence number of the last datagram sent
    fp,                \* words read from the file so far
    packet_count,      \* datagrams sent in this burst
    config,            \* the fields of th_config that control the transfer
    prev_seq_num,      \* last sequence number the client asked for
    fast_retransmit,   \* times it was asked for again
    timer              \* ITIMER_REAL is armed

sndVars == <<server, seq_num, fp, packet_count, config,
             prev_seq_num, fast_retransmit, timer>>

ASSUME SenderAssumption ==
    /\ File \in Seq(Range(File)) /\ NoWord \notin Range(File)
    /\ ServRwnd \in Nat \ {0}
    /\ RTT_MAXNREXMT \in Nat /\ DupAcks \in Nat \ {0} /\ IntMax \in Nat \ {0}
    /\ UninitEOF \subseteq {0, 1}

Word == Range(File) \union {NoWord}

SeqNo == Nat \union {-1}
CInt == -(IntMax + 1)..IntMax

Datagram == [type : {"data", "eof"}, seq : Nat, buf : Word]
            \union [type : {"ping"}, seq : SeqNo, buf : {NoWord}]
Ack == [seq : Nat, rwnd : Nat]

Config == [last_unacked_seq : SeqNo, last_pack_seq_no : SeqNo,
           ssthresh : CInt, rwnd : Nat, cwnd : CInt,
           isEOF : {0, 1}, nrexmt : Nat]

Lesser(a, b) == IF a < b THEN a ELSE b

SenderInit ==
    /\ server = "sending"
    /\ seq_num = -1 /\ fp = 0 /\ packet_count = 0
    /\ \E garbage \in UninitEOF :
         config = [last_unacked_seq |-> -1, last_pack_seq_no |-> -1,
                   ssthresh |-> -1, rwnd |-> ServRwnd, cwnd |-> 1,
                   isEOF |-> garbage, nrexmt |-> 0]
    /\ prev_seq_num = -1 /\ fast_retransmit = 0
    /\ timer = FALSE

---------------------------------------------------------------------------
(* send_file_data *)

(* Mutant: the read after the loop is missing. *)
ReadUpToPrevious(s) == IF s = 0 THEN NoWord ELSE File[Lesser(s, Len(File))]

(* Mutant: reads that hit the end of the file are counted too. *)
CountReads(s) == s + 1

(* Words read from the file once it was reopened and read up to number s. *)
Reopened(s) == Lesser(s + 1, Len(File))

(* buf once the file was reopened and read up to sequence number s.  A read *)
(* past the end leaves in buf the word that was read before it.             *)
ReadUpTo(s) ==
    IF s < Len(File) THEN File[s + 1]
    ELSE IF File = <<>> THEN NoWord ELSE File[Len(File)]

InBurst ==
    /\ server = "sending"
    /\ packet_count < Lesser(config.cwnd, config.rwnd)
    /\ config.isEOF # 1

(* The common end of an iteration: from the last packet on the type is eof  *)
(* and seq_num stays there; rtt_newpack clears the retransmission count.    *)
Transmit(s, buf, cfg) ==
    LET last == cfg.last_pack_seq_no # -1 /\ s >= cfg.last_pack_seq_no
        seq == IF last THEN cfg.last_pack_seq_no ELSE s
        type == IF last THEN "eof" ELSE "data"
    IN  /\ seq_num' = seq
        /\ config' = [cfg EXCEPT !.nrexmt = 0]
        /\ toClient' = Put(toClient, [type |-> type, seq |-> seq, buf |-> buf])
        /\ packet_count' = packet_count + 1
        /\ UNCHANGED <<server, prev_seq_num, fast_retransmit, timer,
                       toServer, faults>>

Retransmit ==
    /\ InBurst
    /\ config.last_unacked_seq # -1
    /\ fp' = Reopened(config.last_unacked_seq)
    /\ Transmit(config.last_unacked_seq, ReadUpTo(config.last_unacked_seq),
                [config EXCEPT !.last_unacked_seq = -1])

(* Mutant: the end of the file is met and its number not kept. *)
SendNextForgetful ==
    /\ InBurst
    /\ config.last_unacked_seq = -1
    /\ fp' = Lesser(fp + 1, Len(File))
    /\ Transmit(seq_num + 1, IF fp < Len(File) THEN File[fp + 1] ELSE NoWord, config)

SendNext ==
    /\ InBurst
    /\ config.last_unacked_seq = -1
    /\ IF fp < Len(File)
       THEN /\ fp' = fp + 1
            /\ Transmit(seq_num + 1, File[fp + 1], config)
       ELSE /\ fp' = fp
            /\ Transmit(seq_num + 1, NoWord,
                        IF config.last_pack_seq_no = -1
                        THEN [config EXCEPT !.last_pack_seq_no = seq_num + 1]
                        ELSE config)

(* Mutant: a closed window is not probed. *)
NoProbe == toClient

Probe ==
    IF config.rwnd = 0
    THEN Put(toClient, [type |-> "ping", seq |-> seq_num, buf |-> NoWord])
    ELSE toClient

(* The burst is over: a closed window is probed with a ping, then           *)
(* receive_ack starts, which arms the timer.                                *)
AwaitAck ==
    /\ server = "sending"
    /\ packet_count >= Lesser(config.cwnd, config.rwnd)
    /\ config.isEOF # 1
    /\ toClient' = Probe
    /\ server' = "waiting"
    /\ timer' = TRUE
    /\ prev_seq_num' = -1 /\ fast_retransmit' = 0
    /\ UNCHANGED <<seq_num, fp, packet_count, config, toServer, faults>>

EndTransfer ==
    /\ server = "sending"
    /\ config.isEOF = 1
    /\ server' = "done"
    /\ UNCHANGED <<seq_num, fp, packet_count, config, prev_seq_num,
                   fast_retransmit, timer, udpVars>>

---------------------------------------------------------------------------
(* receive_ack *)

(* Mutant: the acknowledgement that asks for the eof counts as its receipt. *)
AtOrBeyondLast(cfg, s) ==
    cfg.last_pack_seq_no # -1 /\ s >= cfg.last_pack_seq_no

(* The client asks for more than the eof: it has everything. *)
BeyondLast(cfg, s) == cfg.last_pack_seq_no # -1 /\ s > cfg.last_pack_seq_no

(* int arithmetic: a sum of two ints wraps around, as the compiled addition  *)
(* does; division rounds towards zero.                                      *)
Wrap(x) == IF x > IntMax THEN x - 2 * (IntMax + 1)
           ELSE IF x < -(IntMax + 1) THEN x + 2 * (IntMax + 1) ELSE x
Half(x) == IF x < 0 THEN -((-x) \div 2) ELSE x \div 2

(* cwnd after an acknowledgement.  Nothing bounds it: while no timeout has   *)
(* set ssthresh it doubles until it is negative and then 0, and the next     *)
(* bursts are empty.                                                        *)
Grow(cfg) ==
    Wrap(IF cfg.ssthresh # -1 /\ cfg.cwnd >= cfg.ssthresh
         THEN cfg.cwnd + 1 ELSE cfg.cwnd * 2)

(* Back in send_file_data, at the top of its loop. *)
ReturnToBurst ==
    /\ server' = "sending"
    /\ packet_count' = 0
    /\ prev_seq_num' = -1 /\ fast_retransmit' = 0

(* An acknowledgement beyond the last packet ends the transfer; the one      *)
(* awaited ends the wait; any other is remembered as what the client wants.  *)
(* Leaving the loop clears the timer's struct and leaves the timer armed.    *)
ReceiveAck ==
    /\ server = "waiting" /\ fast_retransmit # DupAcks
    /\ toServer # <<>>
    /\ toServer' = Tail(toServer)
    /\ LET ack == Head(toServer)
           cfg == [config EXCEPT !.cwnd = Grow(config)]
       IN  IF BeyondLast(config, ack.seq)
           THEN /\ config' = [cfg EXCEPT !.isEOF = 1, !.last_unacked_seq = -1]
                /\ ReturnToBurst
           ELSE IF ack.seq = seq_num + 1
           THEN /\ config' = [cfg EXCEPT !.rwnd = ack.rwnd,
                                         !.last_unacked_seq = -1]
                /\ ReturnToBurst
           ELSE /\ config' = [cfg EXCEPT !.rwnd = ack.rwnd]
                /\ prev_seq_num' = ack.seq
                /\ fast_retransmit' = IF prev_seq_num = ack.seq
                                      THEN fast_retransmit + 1 ELSE 0
                /\ UNCHANGED <<server, packet_count>>
    /\ UNCHANGED <<seq_num, fp, timer, toClient, faults>>

(* What a timeout and a fast retransmission do: give up, or halve ssthresh,  *)
(* fall back to one packet and resend what the client asked for, if it did.  *)
(* The branch that ends the transfer here instead (prev beyond the last      *)
(* packet) is kept although ReceiveAck never leaves such a value.            *)
Backoff(cfg, prev) ==
    IF BeyondLast(cfg, prev)
    THEN /\ config' = [cfg EXCEPT !.isEOF = 1]
         /\ ReturnToBurst
    ELSE IF cfg.nrexmt + 1 > RTT_MAXNREXMT
    THEN /\ config' = [cfg EXCEPT !.nrexmt = @ + 1]
         /\ server' = "gaveup"
         /\ prev_seq_num' = prev
         /\ UNCHANGED <<packet_count, fast_retransmit>>
    ELSE /\ config' = [cfg EXCEPT !.nrexmt = @ + 1,
                                  !.ssthresh = Half(cfg.cwnd),
                                  !.cwnd = 1,
                                  !.last_unacked_seq =
                                      IF prev # -1 THEN prev ELSE @]
         /\ ReturnToBurst

(* SIGALRM while recvmsg waits. *)
Alarm ==
    /\ server = "waiting" /\ timer
    /\ timer' = FALSE
    /\ Backoff(config, prev_seq_num)
    /\ UNCHANGED <<seq_num, fp, toClient, toServer>>

(* The timeout is at least a second: what was in flight has arrived, unless  *)
(* the network is slower than that.                                          *)
Timeout == Alarm /\ toClient = <<>> /\ toServer = <<>> /\ UNCHANGED faults

EarlyTimeout == Alarm /\ Misbehave("early_timeout")

(* What receive_ack may have done with ack when SIGALRM cuts it short: the   *)
(* locals keep the values they had or have the ones just assigned.           *)
PartOfReceive(ack) ==
    LET grown == [config EXCEPT !.cwnd = Grow(config)]
        opened == [grown EXCEPT !.rwnd = ack.rwnd]
    IN  {<<config, prev_seq_num>>, <<grown, prev_seq_num>>} \union
        IF BeyondLast(config, ack.seq)
        THEN {<<[grown EXCEPT !.isEOF = 1], prev_seq_num>>}
        ELSE {<<opened, prev_seq_num>>, <<opened, ack.seq>>}

(* SIGALRM between the return of recvmsg and the return of receive_ack. *)
TimeoutInAck ==
    /\ server = "waiting" /\ timer /\ fast_retransmit # DupAcks
    /\ Misbehave("racing_timeout")
    /\ toServer # <<>>
    /\ toServer' = Tail(toServer)
    /\ timer' = FALSE
    /\ \E part \in PartOfReceive(Head(toServer)) : Backoff(part[1], part[2])
    /\ UNCHANGED <<seq_num, fp, toClient>>

(* The same code is reached at the top of the loop, with the timer running. *)
FastRetransmit ==
    /\ server = "waiting"
    /\ fast_retransmit = DupAcks
    /\ Backoff(config, prev_seq_num)
    /\ UNCHANGED <<seq_num, fp, timer, udpVars>>

(* SIGALRM from a wait that is over, while the next burst is being sent:     *)
(* siglongjmp enters a frame that no longer exists, and what the process     *)
(* does from then on is undefined.                                           *)
StrayAlarm ==
    /\ server = "sending" /\ timer
    /\ "stray_alarm" \in Faults
    /\ server' = "undefined" /\ timer' = FALSE
    /\ UNCHANGED <<seq_num, fp, packet_count, config, prev_seq_num,
                   fast_retransmit, udpVars>>

SenderNext ==
    \/ Retransmit \/ SendNext \/ AwaitAck \/ EndTransfer
    \/ ReceiveAck \/ Timeout \/ EarlyTimeout \/ TimeoutInAck
    \/ FastRetransmit \/ StrayAlarm
=============================================================================
