-------------------------- MODULE TransferProofs --------------------------
(***************************************************************************)
(* Proofs about Transfer for every file, window, buffer size and any       *)
(* number of misbehaviours of the network and of the timers: the server    *)
(* reports no success too early, nothing that was acknowledged is lost     *)
(* before it is printed, and it is printed once and in order.              *)
(***************************************************************************)
EXTENDS Transfer, TLAPS, SequenceTheorems, FiniteSetTheorems,
        WellFoundedInduction

---------------------------------------------------------------------------
(* Channels: what the network and the sockets do to a queue keeps every      *)
(* element in the set it came from.                                          *)

(* send_udp_data puts a datagram of the right kind into the queue. *)
LEMMA PutType ==
    ASSUME NEW S, NEW ch \in Seq(S), NEW m \in S
    PROVE  Put(ch, m) \in Seq(S)
BY UdpAssumption DEF Put

(* Losing a datagram leaves a queue of the same kind. *)
LEMMA RemoveType ==
    ASSUME NEW S, NEW ch \in Seq(S), NEW i \in 1..Len(ch)
    PROVE  RemoveAt(ch, i) \in Seq(S)
<1>1. SubSeq(ch, 1, i - 1) \in Seq(S)
  OBVIOUS
<1>2. SubSeq(ch, i + 1, Len(ch)) \in Seq(S)
  OBVIOUS
<1>. QED  BY <1>1, <1>2 DEF RemoveAt

(* Exchanging two neighbours leaves a queue of the same kind. *)
LEMMA SwapType ==
    ASSUME NEW S, NEW ch \in Seq(S), NEW i \in 1..(Len(ch) - 1)
    PROVE  Swap(ch, i) \in Seq(S)
BY DEF Swap

(* Reading a datagram leaves a queue of the same kind. *)
LEMMA TailType ==
    ASSUME NEW S, NEW ch \in Seq(S), ch # <<>>
    PROVE  Head(ch) \in S /\ Tail(ch) \in Seq(S)
OBVIOUS

(* A queue of elements of S is a queue of elements of any larger set. *)
LEMMA SeqMonotone ==
    ASSUME NEW S, NEW T, S \subseteq T, NEW ch \in Seq(S)
    PROVE  ch \in Seq(T)
BY SeqDef

---------------------------------------------------------------------------
(* Each kind of step preserves AckInv. *)

(* A datagram lost, duplicated or overtaken in one direction stays a          *)
(* datagram of that direction.                                               *)
LEMMA UdpStepType ==
    ASSUME NEW S, NEW T, toClient \in Seq(S), toServer \in Seq(T),
           faults \in 0..MaxFaults, UdpNext
    PROVE  toClient' \in Seq(S) /\ toServer' \in Seq(T) /\ faults' \in 0..MaxFaults
<1>1. faults' \in 0..MaxFaults
  BY UdpAssumption DEF UdpNext, LoseData, LoseAck, DuplicateData, DuplicateAck,
     ReorderData, ReorderAck, Misbehave
<1>2. CASE LoseData
  BY <1>1, <1>2, RemoveType, Zenon DEF LoseData, LoseIn
<1>3. CASE LoseAck
  BY <1>1, <1>3, RemoveType, Zenon DEF LoseAck, LoseIn
<1>4. CASE DuplicateData
  <2>1. PICK i \in 1..Len(toClient) : toClient' = Put(toClient, toClient[i])
    BY <1>4, Zenon DEF DuplicateData, DuplicateIn
  <2>. QED  BY <1>1, <1>4, <2>1, PutType DEF DuplicateData
<1>5. CASE DuplicateAck
  <2>1. PICK i \in 1..Len(toServer) : toServer' = Put(toServer, toServer[i])
    BY <1>5, Zenon DEF DuplicateAck, DuplicateIn
  <2>. QED  BY <1>1, <1>5, <2>1, PutType DEF DuplicateAck
<1>6. CASE ReorderData
  BY <1>1, <1>6, SwapType, Zenon DEF ReorderData, ReorderIn
<1>7. CASE ReorderAck
  BY <1>1, <1>7, SwapType, Zenon DEF ReorderAck, ReorderIn
<1>. QED  BY <1>2, <1>3, <1>4, <1>5, <1>6, <1>7, Zenon DEF UdpNext

(* The network alone. *)
LEMMA NetworkAckInv == AckInv /\ NetworkStep => AckInv'
<1>. SUFFICES ASSUME AckInv, NetworkStep PROVE AckInv'
  BY Zenon
<1>1. UNCHANGED <<sndVars, rcvVars>> /\ UdpNext
  BY Zenon DEF NetworkStep
<1>2. SenderOK' /\ ReceiverOK'
  BY <1>1, Zenon DEF AckInv, TypeOK, SenderOK, ReceiverOK, sndVars, rcvVars
<1>3. UdpOK'
  BY <1>1, UdpStepType, Zenon DEF AckInv, TypeOK, UdpOK
<1>4. toServer' \in Seq([seq : 0..expected_seq_num, rwnd : Nat])
  BY <1>1, UdpStepType, Zenon DEF AckInv, TypeOK, UdpOK
<1>. QED
  BY <1>1, <1>2, <1>3, <1>4, Zenon DEF AckInv, TypeOK, sndVars, rcvVars, BeyondLast

---------------------------------------------------------------------------
(* What of AckInv the sender's variables decide, and what a step of the       *)
(* sender leaves to show.                                                    *)
SenderInv ==
    /\ SenderOK
    /\ prev_seq_num <= expected_seq_num
    /\ config.isEOF = 1 => BeyondLast(config, expected_seq_num)
    /\ server = "done" => config.isEOF = 1

(* The words read back from the file are words of the file (server.c 241). *)
LEMMA ReadUpToType == \A s \in Nat : ReadUpTo(s) \in Word
<1>1. File \in Seq(Range(File)) /\ DOMAIN File = 1..Len(File) /\ Len(File) \in Nat
  BY SenderAssumption
<1>2. File # <<>> => Len(File) \in DOMAIN File
  BY <1>1
<1>. QED  BY <1>1, <1>2 DEF ReadUpTo, Word

(* Sending one datagram of a burst. *)
LEMMA TransmitInv ==
    ASSUME AckInv, UNCHANGED rcvVars, NEW s \in Nat, NEW buf \in Word,
           NEW cfg \in Config, cfg.isEOF # 1, config.isEOF # 1,
           server = "sending", fp' \in 0..Len(File), Transmit(s, buf, cfg)
    PROVE  SenderInv' /\ UdpOK' /\ toServer' = toServer
<1>. DEFINE last == cfg.last_pack_seq_no # -1 /\ s >= cfg.last_pack_seq_no
            seq == IF last THEN cfg.last_pack_seq_no ELSE s
            m == [type |-> IF last THEN "eof" ELSE "data", seq |-> seq, buf |-> buf]
<1>1. seq \in Nat
  BY Zenon DEF Config, SeqNo
<1>2. m \in Datagram
  BY <1>1, Zenon DEF Datagram
<1>3. toClient' \in Seq(Datagram)
  BY <1>2, PutType, Zenon DEF Transmit, AckInv, TypeOK, UdpOK
<1>4. config' \in Config /\ config'.isEOF # 1
  BY Zenon DEF Transmit, Config
<1>5. UdpOK' /\ toServer' = toServer
  BY <1>3, Zenon DEF Transmit, AckInv, TypeOK, UdpOK
<1>6. seq_num' \in SeqNo /\ packet_count' \in Nat
  BY <1>1 DEF Transmit, AckInv, TypeOK, SenderOK, SeqNo
<1>. QED
  BY <1>4, <1>5, <1>6, Zenon DEF Transmit, AckInv, TypeOK, SenderOK, SenderInv, rcvVars

(* Going back to what the client asked for. *)
LEMMA RetransmitInv ==
    AckInv /\ Retransmit /\ UNCHANGED rcvVars => SenderInv' /\ UdpOK' /\ toServer' = toServer
<1>. SUFFICES ASSUME AckInv, Retransmit, UNCHANGED rcvVars
              PROVE  SenderInv' /\ UdpOK' /\ toServer' = toServer
  BY Zenon
<1>. DEFINE s == config.last_unacked_seq
            cfg == [config EXCEPT !.last_unacked_seq = -1]
<1>1. s \in Nat /\ config \in Config /\ config.isEOF # 1 /\ server = "sending"
  BY Zenon DEF Retransmit, InBurst, AckInv, TypeOK, SenderOK, Config, SeqNo
<1>2. cfg \in Config /\ cfg.isEOF # 1
  BY <1>1, Zenon DEF Config, SeqNo
<1>3. Len(File) \in Nat
  BY SenderAssumption
<1>4. fp' \in 0..Len(File)
  BY <1>1, <1>3 DEF Retransmit, Reopened, Lesser
<1>5. Transmit(s, ReadUpTo(s), cfg) /\ ReadUpTo(s) \in Word
  BY <1>1, ReadUpToType, Zenon DEF Retransmit
<1>. QED  BY <1>1, <1>2, <1>4, <1>5, TransmitInv, Zenon

(* Sending the next word, or the eof. *)
LEMMA SendNextInv ==
    AckInv /\ SendNext /\ UNCHANGED rcvVars => SenderInv' /\ UdpOK' /\ toServer' = toServer
<1>. SUFFICES ASSUME AckInv, SendNext, UNCHANGED rcvVars
              PROVE  SenderInv' /\ UdpOK' /\ toServer' = toServer
  BY Zenon
<1>1. seq_num + 1 \in Nat /\ config \in Config /\ config.isEOF # 1
      /\ server = "sending" /\ fp \in 0..Len(File) /\ Len(File) \in Nat
  <2>1. seq_num \in SeqNo /\ config \in Config /\ fp \in 0..Len(File)
    BY Zenon DEF AckInv, TypeOK, SenderOK
  <2>2. config.isEOF # 1 /\ server = "sending"
    BY Zenon DEF SendNext, InBurst
  <2>3. Len(File) \in Nat
    BY SenderAssumption
  <2>4. seq_num + 1 \in Nat
    BY <2>1 DEF SeqNo
  <2>. QED  BY <2>1, <2>2, <2>3, <2>4, Zenon
<1>2. CASE fp < Len(File)
  <2>1. File[fp + 1] \in Word
    BY <1>1, <1>2, SenderAssumption DEF Word
  <2>2. fp' \in 0..Len(File) /\ Transmit(seq_num + 1, File[fp + 1], config)
    BY <1>1, <1>2 DEF SendNext
  <2>. QED  BY <1>1, <2>1, <2>2, TransmitInv, Zenon
<1>3. CASE ~(fp < Len(File))
  <2>. DEFINE cfg == IF config.last_pack_seq_no = -1
                     THEN [config EXCEPT !.last_pack_seq_no = seq_num + 1]
                     ELSE config
  <2>1. cfg \in Config /\ cfg.isEOF # 1
    BY <1>1, Zenon DEF Config, SeqNo
  <2>2. fp' \in 0..Len(File) /\ Transmit(seq_num + 1, NoWord, cfg)
    BY <1>1, <1>3, Zenon DEF SendNext
  <2>3. NoWord \in Word
    BY Zenon DEF Word
  <2>. QED  BY <1>1, <2>1, <2>2, <2>3, TransmitInv, Zenon
<1>. QED  BY <1>2, <1>3, Zenon

(* Closing a burst, with a ping when the window is closed. *)
LEMMA AwaitAckInv ==
    AckInv /\ AwaitAck /\ UNCHANGED rcvVars => SenderInv' /\ UdpOK' /\ toServer' = toServer
<1>. SUFFICES ASSUME AckInv, AwaitAck, UNCHANGED rcvVars
              PROVE  SenderInv' /\ UdpOK' /\ toServer' = toServer
  BY Zenon
<1>. DEFINE m == [type |-> "ping", seq |-> seq_num, buf |-> NoWord]
<1>1. m \in Datagram
  BY Zenon DEF Datagram, AckInv, TypeOK, SenderOK
<1>2. toClient' \in Seq(Datagram)
  BY <1>1, PutType, Zenon DEF AwaitAck, Probe, AckInv, TypeOK, UdpOK
<1>3. SenderOK'
  BY SenderAssumption DEF AwaitAck, AckInv, TypeOK, SenderOK, SeqNo
<1>. QED
  BY <1>2, <1>3 DEF AwaitAck, AckInv, TypeOK, UdpOK, ReceiverOK, SenderInv, rcvVars

(* cwnd stays an int when it grows, and so does half of it. *)
LEMMA WrapType ==
    \A x \in Int : -2 * (IntMax + 1) <= x /\ x <= 2 * IntMax + 1 => Wrap(x) \in CInt
BY SenderAssumption DEF Wrap, CInt

LEMMA GrowType == \A cfg \in Config : Grow(cfg) \in CInt
<1>. TAKE cfg \in Config
<1>1. PICK w \in CInt, x \in Int :
         /\ w = cfg.cwnd /\ x \in {w + 1, w * 2} /\ Grow(cfg) = Wrap(x)
  <2>1. cfg.cwnd \in CInt /\ cfg.cwnd \in Int
    BY SenderAssumption DEF Config, CInt
  <2>2. Grow(cfg) \in {Wrap(cfg.cwnd + 1), Wrap(cfg.cwnd * 2)}
    BY Zenon DEF Grow
  <2>3. cfg.cwnd + 1 \in Int /\ cfg.cwnd * 2 \in Int
    BY <2>1
  <2>. QED  BY <2>1, <2>2, <2>3, Zenon
<1>2. -2 * (IntMax + 1) <= x /\ x <= 2 * IntMax + 1
  <2>1. PICK n \in Nat : n = IntMax
    BY SenderAssumption, Zenon
  <2>2. w \in -(n + 1)..n
    BY <2>1, Zenon DEF CInt
  <2>. QED  BY <1>1, <2>1, <2>2
<1>. QED  BY <1>1, <1>2, WrapType, Zenon

LEMMA HalfType == \A x \in CInt : Half(x) \in CInt
BY SenderAssumption DEF Half, CInt

(* receive_ack returns with its locals reset. *)
LEMMA ReturnType ==
    ReturnToBurst => /\ server' = "sending" /\ packet_count' \in Nat
                     /\ prev_seq_num' = -1 /\ prev_seq_num' \in SeqNo
                     /\ fast_retransmit' \in 0..DupAcks
BY SenderAssumption DEF ReturnToBurst, SeqNo

(* An acknowledgement: it sets isEOF only beyond the last packet. *)
LEMMA ReceiveAckInv ==
    AckInv /\ ReceiveAck /\ UNCHANGED rcvVars
        => SenderInv' /\ toServer' \in Seq([seq : 0..expected_seq_num, rwnd : Nat])
           /\ UNCHANGED <<toClient, faults>>
<1>. SUFFICES ASSUME AckInv, ReceiveAck, UNCHANGED rcvVars
              PROVE  SenderInv' /\ toServer' \in Seq([seq : 0..expected_seq_num, rwnd : Nat])
                     /\ UNCHANGED <<toClient, faults>>
  BY Zenon
<1>. DEFINE ack == Head(toServer)
            cfg == [config EXCEPT !.cwnd = Grow(config)]
<1>1. ack \in [seq : 0..expected_seq_num, rwnd : Nat]
      /\ Tail(toServer) \in Seq([seq : 0..expected_seq_num, rwnd : Nat])
  BY TailType, Zenon DEF ReceiveAck, AckInv
<1>2. config \in Config /\ cfg \in Config
  BY GrowType, Zenon DEF AckInv, TypeOK, SenderOK, Config
<1>3. expected_seq_num \in Nat /\ expected_seq_num' = expected_seq_num
  BY Zenon DEF AckInv, TypeOK, ReceiverOK, rcvVars
<1>4. CASE BeyondLast(config, ack.seq)
  <2>1. config' = [cfg EXCEPT !.isEOF = 1, !.last_unacked_seq = -1] /\ ReturnToBurst
    BY <1>4, Zenon DEF ReceiveAck
  <2>2. BeyondLast(config', expected_seq_num)
    <3>1. config'.last_pack_seq_no = config.last_pack_seq_no
      BY <1>2, <2>1, Zenon DEF Config
    <3>2. config.last_pack_seq_no \in SeqNo
      BY <1>2, Zenon DEF Config
    <3>3. ack.seq \in 0..expected_seq_num
      BY <1>1, Zenon
    <3>. HIDE DEF ack, cfg
    <3>. QED  BY <1>3, <1>4, <3>1, <3>2, <3>3 DEF BeyondLast, SeqNo
  <2>3. config' \in Config
    BY <1>2, <2>1, Zenon DEF Config, SeqNo
  <2>. QED
    BY <1>1, <1>3, <2>1, <2>2, <2>3, ReturnType
       DEF ReceiveAck, AckInv, TypeOK, SenderOK, SenderInv
<1>5. CASE ~BeyondLast(config, ack.seq) /\ ack.seq = seq_num + 1
  <2>1. config' = [cfg EXCEPT !.rwnd = ack.rwnd, !.last_unacked_seq = -1] /\ ReturnToBurst
    BY <1>5, Zenon DEF ReceiveAck
  <2>2. config' \in Config /\ config'.isEOF = config.isEOF
        /\ config'.last_pack_seq_no = config.last_pack_seq_no
    BY <1>1, <1>2, <2>1, Zenon DEF Config, SeqNo
  <2>. QED
    BY <1>1, <1>3, <2>1, <2>2, ReturnType
       DEF ReceiveAck, AckInv, TypeOK, SenderOK, SenderInv, BeyondLast
<1>6. CASE ~BeyondLast(config, ack.seq) /\ ack.seq # seq_num + 1
  <2>1. /\ config' = [cfg EXCEPT !.rwnd = ack.rwnd]
        /\ prev_seq_num' = ack.seq
        /\ fast_retransmit' = IF prev_seq_num = ack.seq THEN fast_retransmit + 1 ELSE 0
        /\ UNCHANGED <<server, packet_count>>
    BY <1>6, Zenon DEF ReceiveAck
  <2>2. config' \in Config /\ config'.isEOF = config.isEOF
        /\ config'.last_pack_seq_no = config.last_pack_seq_no
    BY <1>1, <1>2, <2>1, Zenon DEF Config, SeqNo
  <2>3. fast_retransmit' \in 0..DupAcks
    <3>1. fast_retransmit \in 0..DupAcks
      BY Zenon DEF AckInv, TypeOK, SenderOK
    <3>2. fast_retransmit # DupAcks
      BY Zenon DEF ReceiveAck
    <3>3. fast_retransmit' \in {0, fast_retransmit, fast_retransmit + 1}
      BY <2>1, Zenon
    <3>. HIDE DEF ack, cfg
    <3>. QED  BY <3>1, <3>2, <3>3, SenderAssumption
  <2>4. prev_seq_num' \in SeqNo /\ prev_seq_num' <= expected_seq_num
    BY <1>1, <1>3, <2>1 DEF SeqNo
  <2>. QED
    BY <1>1, <1>3, <2>1, <2>2, <2>3, <2>4
       DEF ReceiveAck, AckInv, TypeOK, SenderOK, SenderInv, SeqNo, BeyondLast
<1>. QED  BY <1>4, <1>5, <1>6, Zenon

(* A timeout or a fast retransmission, from any state receive_ack may have    *)
(* left config and prev_seq_num in.                                          *)
LEMMA BackoffInv ==
    ASSUME AckInv, UNCHANGED rcvVars, NEW cfg \in Config, NEW prev \in SeqNo,
           prev <= expected_seq_num,
           cfg.isEOF = 1 => BeyondLast(cfg, expected_seq_num),
           server = "waiting", UNCHANGED <<seq_num, fp>>, timer' \in BOOLEAN,
           Backoff(cfg, prev)
    PROVE  SenderInv'
<1>1. expected_seq_num \in Nat /\ expected_seq_num' = expected_seq_num
  BY Zenon DEF AckInv, TypeOK, ReceiverOK, rcvVars
<1>2. CASE BeyondLast(cfg, prev)
  <2>1. config' = [cfg EXCEPT !.isEOF = 1] /\ ReturnToBurst
    BY <1>2, Zenon DEF Backoff
  <2>2. config' \in Config
    BY <2>1, Zenon DEF Config
  <2>3. BeyondLast(config', expected_seq_num')
    BY <1>1, <1>2, <2>1 DEF BeyondLast, Config, SeqNo
  <2>. QED
    BY <1>1, <2>1, <2>2, <2>3, ReturnType
       DEF AckInv, TypeOK, SenderOK, SenderInv
<1>3. CASE ~BeyondLast(cfg, prev) /\ cfg.nrexmt + 1 > RTT_MAXNREXMT
  <2>1. /\ config' = [cfg EXCEPT !.nrexmt = @ + 1]
        /\ server' = "gaveup"
        /\ prev_seq_num' = prev
        /\ UNCHANGED <<packet_count, fast_retransmit>>
    BY <1>3, Zenon DEF Backoff
  <2>2. config' \in Config /\ config'.isEOF = cfg.isEOF
        /\ config'.last_pack_seq_no = cfg.last_pack_seq_no
    BY <2>1 DEF Config
  <2>. QED
    BY <1>1, <2>1, <2>2, Zenon DEF AckInv, TypeOK, SenderOK, SenderInv, BeyondLast
<1>4. CASE ~BeyondLast(cfg, prev) /\ ~(cfg.nrexmt + 1 > RTT_MAXNREXMT)
  <2>1. /\ config' = [cfg EXCEPT !.nrexmt = @ + 1, !.ssthresh = Half(cfg.cwnd),
                                 !.cwnd = 1,
                                 !.last_unacked_seq = IF prev # -1 THEN prev ELSE @]
        /\ ReturnToBurst
    BY <1>4, Zenon DEF Backoff
  <2>2. /\ Half(cfg.cwnd) \in CInt /\ 1 \in CInt
        /\ cfg.nrexmt + 1 \in Nat
        /\ (IF prev # -1 THEN prev ELSE cfg.last_unacked_seq) \in SeqNo
    <3>1. cfg.cwnd \in CInt /\ cfg.nrexmt \in Nat /\ cfg.last_unacked_seq \in SeqNo
      BY Zenon DEF Config
    <3>2. Half(cfg.cwnd) \in CInt
      BY <3>1, HalfType, Zenon
    <3>3. 1 \in CInt
      BY SenderAssumption DEF CInt
    <3>. QED  BY <3>1, <3>2, <3>3
  <2>3. config' \in Config /\ config'.isEOF = cfg.isEOF
        /\ config'.last_pack_seq_no = cfg.last_pack_seq_no
    BY <2>1, <2>2, Zenon DEF Config
  <2>. QED
    BY <1>1, <2>1, <2>3, ReturnType
       DEF AckInv, TypeOK, SenderOK, SenderInv, BeyondLast
<1>. QED  BY <1>2, <1>3, <1>4, Zenon

(* An alarm that cuts receive_ack short finds part of its work done. *)
LEMMA PartOfReceiveInv ==
    ASSUME AckInv, NEW ack \in [seq : 0..expected_seq_num, rwnd : Nat],
           NEW part \in PartOfReceive(ack)
    PROVE  /\ part[1] \in Config /\ part[2] \in SeqNo /\ part[2] <= expected_seq_num
           /\ part[1].isEOF = 1 => BeyondLast(part[1], expected_seq_num)
<1>. DEFINE grown == [config EXCEPT !.cwnd = Grow(config)]
            opened == [grown EXCEPT !.rwnd = ack.rwnd]
            ended == [grown EXCEPT !.isEOF = 1]
<1>1. /\ config \in Config /\ expected_seq_num \in Nat
      /\ prev_seq_num \in SeqNo /\ prev_seq_num <= expected_seq_num
      /\ ack.seq \in SeqNo /\ ack.seq <= expected_seq_num
      /\ config.isEOF = 1 => BeyondLast(config, expected_seq_num)
  BY DEF AckInv, TypeOK, SenderOK, ReceiverOK, SeqNo
<1>2. /\ grown \in Config /\ grown.isEOF = config.isEOF
      /\ grown.last_pack_seq_no = config.last_pack_seq_no
  BY <1>1, GrowType, Zenon DEF Config
<1>3. /\ opened \in Config /\ opened.isEOF = config.isEOF
      /\ opened.last_pack_seq_no = config.last_pack_seq_no
  BY <1>2, Zenon DEF Config
<1>4. ended \in Config /\ ended.last_pack_seq_no = config.last_pack_seq_no
  BY <1>2, Zenon DEF Config
<1>5. BeyondLast(config, ack.seq) => BeyondLast(ended, expected_seq_num)
  BY <1>1, <1>4 DEF BeyondLast, Config, SeqNo
<1>6. \/ part = <<config, prev_seq_num>> \/ part = <<grown, prev_seq_num>>
      \/ part = <<ended, prev_seq_num>> /\ BeyondLast(config, ack.seq)
      \/ part = <<opened, prev_seq_num>> \/ part = <<opened, ack.seq>>
  BY Zenon DEF PartOfReceive
<1>7. BeyondLast(config, expected_seq_num) =>
          BeyondLast(grown, expected_seq_num) /\ BeyondLast(opened, expected_seq_num)
  BY <1>2, <1>3, Zenon DEF BeyondLast
<1>. HIDE DEF grown, opened, ended
<1>. QED  BY <1>1, <1>2, <1>3, <1>4, <1>5, <1>6, <1>7

(* The sender preserves AckInv. *)
LEMMA SenderAckInv == AckInv /\ SenderStep => AckInv'
<1>. SUFFICES ASSUME AckInv, SenderStep PROVE AckInv'
  BY Zenon
<1>1. SenderNext /\ UNCHANGED rcvVars
  BY Zenon DEF SenderStep
<1>2. ReceiverOK' /\ expected_seq_num' = expected_seq_num /\ text_buffer' = text_buffer
  BY <1>1, Zenon DEF AckInv, TypeOK, ReceiverOK, rcvVars
<1>3. SUFFICES SenderInv' /\ UdpOK'
               /\ toServer' \in Seq([seq : 0..expected_seq_num, rwnd : Nat])
  BY <1>2, Zenon DEF AckInv, TypeOK, SenderInv
<1>4. \A q \in Seq([seq : 0..expected_seq_num, rwnd : Nat]) : q \in Seq(Ack)
  <2>1. [seq : 0..expected_seq_num, rwnd : Nat] \subseteq Ack
    BY DEF Ack
  <2>. QED  BY <2>1, SeqMonotone, Zenon
<1>5. CASE Retransmit \/ SendNext \/ AwaitAck
  BY <1>1, <1>5, RetransmitInv, SendNextInv, AwaitAckInv, Zenon DEF AckInv
<1>6. CASE EndTransfer
  BY <1>1, <1>2, <1>6, Zenon
     DEF EndTransfer, AckInv, TypeOK, SenderOK, UdpOK, SenderInv, udpVars
<1>7. CASE ReceiveAck
  BY <1>1, <1>4, <1>7, ReceiveAckInv, Zenon DEF AckInv, TypeOK, UdpOK
<1>8. CASE Timeout
  BY <1>1, <1>8, BackoffInv, Zenon
     DEF Timeout, Alarm, AckInv, TypeOK, SenderOK, UdpOK
<1>9. CASE EarlyTimeout
  <2>1. faults' \in 0..MaxFaults
    BY <1>9, UdpAssumption DEF EarlyTimeout, Misbehave, AckInv, TypeOK, UdpOK
  <2>. QED
    BY <1>1, <1>9, <2>1, BackoffInv, Zenon
       DEF EarlyTimeout, Alarm, AckInv, TypeOK, SenderOK, UdpOK
<1>10. CASE TimeoutInAck
  <2>1. faults' \in 0..MaxFaults
    BY <1>10, UdpAssumption DEF TimeoutInAck, Misbehave, AckInv, TypeOK, UdpOK
  <2>2. Head(toServer) \in [seq : 0..expected_seq_num, rwnd : Nat]
        /\ toServer' \in Seq([seq : 0..expected_seq_num, rwnd : Nat])
    BY <1>10, TailType, Zenon DEF TimeoutInAck, AckInv
  <2>3. PICK part \in PartOfReceive(Head(toServer)) : Backoff(part[1], part[2])
    BY <1>10, Zenon DEF TimeoutInAck
  <2>4. SenderInv'
    BY <1>1, <1>10, <2>2, <2>3, PartOfReceiveInv, BackoffInv, Zenon DEF TimeoutInAck
  <2>. QED
    BY <1>4, <1>10, <2>1, <2>2, <2>4, Zenon DEF TimeoutInAck, AckInv, TypeOK, UdpOK
<1>11. CASE FastRetransmit
  BY <1>1, <1>11, BackoffInv, Zenon
     DEF FastRetransmit, AckInv, TypeOK, SenderOK, UdpOK, udpVars
<1>12. CASE StrayAlarm
  BY <1>1, <1>2, <1>12, Zenon
     DEF StrayAlarm, AckInv, TypeOK, SenderOK, UdpOK, SenderInv, udpVars
<1>. QED
  BY <1>1, <1>5, <1>6, <1>7, <1>8, <1>9, <1>10, <1>11, <1>12, Zenon DEF SenderNext

---------------------------------------------------------------------------
(* The receiver. *)

(* A non-empty set of natural numbers has a least element. *)
LEMMA LeastNatural ==
    ASSUME NEW T, T \subseteq Nat, T # {}
    PROVE  \E x \in T : \A y \in T : x <= y
<1>1. PICK x \in T : \A y \in T : ~(<<y, x>> \in OpToRel(<, Nat))
  BY WFMin, NatLessThanWellFounded, Zenon
<1>2. \A y \in T : ~(y < x)
  BY <1>1, Zenon DEF OpToRel
<1>. QED  BY <1>2

Ring == [Slots -> Line \union {Vacant}]

(* The scan of the ring starts at one of its slots (client.c 212). *)
LEMMA MinSeqType == \A ring \in Ring : min_seq_num(ring) \in Slots
<1>. SUFFICES ASSUME NEW ring \in Ring PROVE min_seq_num(ring) \in Slots
  BY Zenon
<1>1. CASE \E i \in Slots : Filled(ring, i)
  <2>. DEFINE T == {ring[i].seq : i \in {j \in Slots : Filled(ring, j)}}
  <2>1. T # {} /\ T \subseteq Nat
    BY <1>1 DEF Ring, Line, Vacant, Filled
  <2>2. PICK x \in T : \A y \in T : x <= y
    BY <2>1, LeastNatural, Zenon
  <2>3. PICK i \in Slots : Filled(ring, i) /\ ring[i].seq = x
    BY <2>2, Zenon
  <2>4. \E k \in Slots : /\ Filled(ring, k)
                        /\ \A j \in Slots : Filled(ring, j) => ring[k].seq <= ring[j].seq
    BY <2>2, <2>3, Zenon
  <2>. QED  BY <1>1, <2>4, Zenon DEF min_seq_num
<1>2. CASE ~\E i \in Slots : Filled(ring, i)
  BY <1>2, ReceiverAssumption DEF min_seq_num, Slots
<1>. QED  BY <1>1, <1>2, Zenon

(* The window advertised is a number. *)
LEMMA WindowType == \A ring : get_window_size(ring) \in Nat
<1>. SUFFICES ASSUME NEW ring PROVE get_window_size(ring) \in Nat
  BY Zenon
<1>1. IsFiniteSet(Slots)
  BY FS_Interval, ReceiverAssumption DEF Slots
<1>2. IsFiniteSet({i \in Slots : ~Filled(ring, i)})
  BY <1>1, FS_Subset, Zenon
<1>. QED  BY <1>2, FS_CardinalityType, Zenon DEF get_window_size

(* push_data_to_buffer stores the number expected, or nothing. *)
LEMMA PushRing ==
    ASSUME AckInv, NEW data \in Word \union {EofMark}, NEW seq \in Nat
    PROVE  LET ring == push_data_to_buffer(text_buffer, data, seq)
           IN  /\ ring \in Ring
               /\ \/ ring = text_buffer
                  \/ /\ ring = [text_buffer EXCEPT ![seq % Rwnd] = [seq |-> seq, data |-> data]]
                     /\ seq = expected_seq_num /\ seq % Rwnd \in Slots
<1>1. seq % Rwnd \in Slots
  BY ReceiverAssumption DEF Slots
<1>2. [seq |-> seq, data |-> data] \in Line
  BY Zenon DEF Line
<1>3. text_buffer \in Ring
  BY Zenon DEF AckInv, TypeOK, ReceiverOK, Ring
<1>4. [text_buffer EXCEPT ![seq % Rwnd] = [seq |-> seq, data |-> data]] \in Ring
  BY <1>1, <1>2, <1>3, Zenon DEF Ring
<1>. QED  BY <1>1, <1>3, <1>4, Zenon DEF push_data_to_buffer

(* With nothing beyond s in the ring, the expected number moves by one, past  *)
(* s, if s is in the ring and else stays.                                    *)
LEMMA UpdateExpected ==
    ASSUME NEW ring \in Ring, NEW s \in Nat, \A i \in Slots : ring[i].seq <= s
    PROVE  update_expected_seq_num(ring, s) =
               IF ispresent(ring, s) THEN s + 1 ELSE s
<1>1. ~ispresent(ring, s + 1)
  BY DEF ispresent, Ring, Line, Vacant
<1>. DEFINE OK(e) == ~ispresent(ring, e) /\ \A k \in s..(e - 1) : ispresent(ring, k)
<1>2. CASE ispresent(ring, s)
  <2>1. s + 1 \in s..(s + Rwnd) /\ OK(s + 1)
    BY <1>1, <1>2, ReceiverAssumption
  <2>2. \A e \in s..(s + Rwnd) : OK(e) => e = s + 1
    <3>. SUFFICES ASSUME NEW e \in s..(s + Rwnd), OK(e) PROVE e = s + 1
      BY Zenon
    <3>1. e # s
      BY <1>2, Zenon
    <3>2. e > s + 1 => s + 1 \in s..(e - 1)
      BY ReceiverAssumption
    <3>. QED  BY <1>1, <3>1, <3>2, ReceiverAssumption
  <2>. QED  BY <1>2, <2>1, <2>2, Zenon DEF update_expected_seq_num
<1>3. CASE ~ispresent(ring, s)
  <2>1. s \in s..(s + Rwnd) /\ OK(s)
    BY <1>3, ReceiverAssumption
  <2>2. \A e \in s..(s + Rwnd) : OK(e) => e = s
    <3>. SUFFICES ASSUME NEW e \in s..(s + Rwnd), OK(e) PROVE e = s
      BY Zenon
    <3>1. e > s => s \in s..(e - 1)
      BY ReceiverAssumption
    <3>. QED  BY <1>3, <3>1, ReceiverAssumption
  <2>. QED  BY <1>3, <2>1, <2>2, Zenon DEF update_expected_seq_num
<1>. QED  BY <1>2, <1>3, Zenon

---------------------------------------------------------------------------
(* The steps of the client. *)

(* A step of the client that receives nothing: it only has to keep its own    *)
(* types, the numbers in the ring below the one expected, and the kind of the *)
(* datagrams on their way.                                                   *)
LEMMA ClientAckInv ==
    ASSUME AckInv, UNCHANGED <<sndVars, toServer, expected_seq_num>>,
           client' \in {"receiving", "draining", "exited"},
           mutex' \in {"free", "main", "reader"}, slot' \in 0..Rwnd,
           text_buffer' \in Ring, printed' \in Seq(Line),
           toClient' \in Seq(Datagram), faults' \in 0..MaxFaults,
           \A i \in Slots : text_buffer'[i].seq < expected_seq_num
    PROVE  AckInv'
<1>1. SenderOK' /\ ReceiverOK' /\ UdpOK'
  BY Zenon DEF AckInv, TypeOK, SenderOK, ReceiverOK, UdpOK, sndVars, Ring
<1>. QED  BY <1>1, Zenon DEF AckInv, TypeOK, sndVars, BeyondLast

(* One line of the ring printed. *)
LEMMA PrintSlotAckInv == AckInv /\ PrintSlot /\ UNCHANGED sndVars => AckInv'
<1>. SUFFICES ASSUME AckInv, PrintSlot, UNCHANGED sndVars PROVE AckInv'
  BY Zenon
<1>1. slot \in Slots /\ slot' \in 0..Rwnd
  BY ReceiverAssumption DEF PrintSlot, AckInv, TypeOK, ReceiverOK, Slots
<1>2. text_buffer \in Ring /\ printed \in Seq(Line) /\ expected_seq_num \in Nat
  BY Zenon DEF AckInv, TypeOK, ReceiverOK, Ring
<1>3. text_buffer' \in Ring
  BY <1>1, <1>2, Zenon DEF PrintSlot, Ring
<1>4. Filled(text_buffer, slot) => text_buffer[slot] \in Line
  BY <1>1, <1>2 DEF Ring, Filled, Vacant
<1>5. printed' \in Seq(Line)
  BY <1>2, <1>4 DEF PrintSlot
<1>6. \A i \in Slots : text_buffer'[i].seq < expected_seq_num
  BY <1>1, <1>2 DEF PrintSlot, AckInv, Ring, Vacant
<1>7. UNCHANGED <<client, mutex, expected_seq_num, toClient, toServer, faults>>
  BY Zenon DEF PrintSlot, udpVars
<1>8. /\ client' \in {"receiving", "draining", "exited"}
      /\ mutex' \in {"free", "main", "reader"}
      /\ toClient' \in Seq(Datagram) /\ faults' \in 0..MaxFaults
  BY <1>7, Zenon DEF AckInv, TypeOK, ReceiverOK, UdpOK
<1>. QED  BY <1>1, <1>3, <1>5, <1>6, <1>7, <1>8, ClientAckInv, Zenon

(* A datagram received: the ring, the number expected and the ack agree. *)
LEMMA ReceiveAckInvClient == AckInv /\ Receive /\ UNCHANGED sndVars => AckInv'
<1>. SUFFICES ASSUME AckInv, Receive, UNCHANGED sndVars PROVE AckInv'
  BY Zenon
<1>. DEFINE m == Head(toClient)
            e == expected_seq_num
            ack == [seq |-> expected_seq_num', rwnd |-> get_window_size(text_buffer')]
<1>1. toClient \in Seq(Datagram) /\ toServer \in Seq(Ack) /\ toClient # <<>>
  BY Zenon DEF AckInv, TypeOK, UdpOK, Receive
<1>2. m \in Datagram /\ toClient' \in Seq(Datagram)
  BY <1>1, TailType, Zenon DEF Receive
<1>3. /\ m.type \in {"data", "eof", "ping"}
      /\ m.type # "ping" => m.seq \in Nat /\ m.buf \in Word
  BY <1>2, Zenon DEF Datagram
<1>4. text_buffer \in Ring /\ e \in Nat /\ \A i \in Slots : text_buffer[i].seq < e
  BY Zenon DEF AckInv, TypeOK, ReceiverOK, Ring
<1>5. /\ text_buffer' \in Ring
      /\ \/ text_buffer' = text_buffer
         \/ \E d : /\ text_buffer' = [text_buffer EXCEPT ![e % Rwnd] = [seq |-> e, data |-> d]]
                  /\ e % Rwnd \in Slots
  <2>1. CASE m.type = "data"
    <3>1. text_buffer' = push_data_to_buffer(text_buffer, m.buf, m.seq)
      BY <2>1, Zenon DEF Receive
    <3>2. m.seq \in Nat /\ m.buf \in Word
      BY <1>3, <2>1, Zenon
    <3>. QED  BY <3>1, <3>2, PushRing, Zenon
  <2>2. CASE m.type = "eof"
    <3>1. text_buffer' = push_data_to_buffer(text_buffer, EofMark, m.seq)
      BY <2>2, Zenon DEF Receive
    <3>2. m.seq \in Nat /\ EofMark \in Word \union {EofMark}
      BY <1>3, <2>2, Zenon
    <3>. QED  BY <3>1, <3>2, PushRing, Zenon
  <2>3. CASE m.type = "ping"
    BY <1>4, <2>3, Zenon DEF Receive
  <2>. QED  BY <1>3, <2>1, <2>2, <2>3, Zenon
<1>6. \A i \in Slots : text_buffer'[i].seq <= e
  <2>1. CASE text_buffer' = text_buffer
    BY <1>4, <2>1 DEF Ring, Line, Vacant
  <2>2. ASSUME NEW d, e % Rwnd \in Slots,
               text_buffer' = [text_buffer EXCEPT ![e % Rwnd] = [seq |-> e, data |-> d]]
        PROVE  \A i \in Slots : text_buffer'[i].seq <= e
    BY <1>4, <2>2 DEF Ring, Line, Vacant
  <2>. QED  BY <1>5, <2>1, <2>2, Zenon
<1>7. expected_seq_num' = update_expected_seq_num(text_buffer', e)
  BY Zenon DEF Receive
<1>8. expected_seq_num' = IF ispresent(text_buffer', e) THEN e + 1 ELSE e
  BY <1>4, <1>5, <1>6, <1>7, UpdateExpected, Zenon
<1>9. \A i \in Slots : text_buffer'[i].seq < expected_seq_num'
  <2>1. CASE ispresent(text_buffer', e)
    BY <1>4, <1>5, <1>6, <1>8, <2>1 DEF Ring, Line, Vacant
  <2>2. CASE ~ispresent(text_buffer', e)
    <3>1. \A i \in Slots : text_buffer'[i].seq # e
      BY <1>4, <2>2 DEF ispresent, Filled
    <3>. QED  BY <1>4, <1>5, <1>6, <1>8, <2>2, <3>1 DEF Ring, Line, Vacant
  <2>. QED  BY <2>1, <2>2, Zenon
<1>10. expected_seq_num' \in Nat /\ e <= expected_seq_num'
  BY <1>4, <1>8
<1>11. toServer' = Put(toServer, ack)
  BY Zenon DEF Receive
<1>12. toServer' \in Seq([seq : 0..expected_seq_num', rwnd : Nat])
  <2>. DEFINE S == [seq : 0..e, rwnd : Nat]
              T == [seq : 0..expected_seq_num', rwnd : Nat]
  <2>1. toServer \in Seq(S)
    BY Zenon DEF AckInv
  <2>2. S \subseteq T
    BY <1>4, <1>10, SMT
  <2>3. toServer \in Seq(T)
    BY <2>1, <2>2, SeqMonotone, Zenon
  <2>4. ack \in T
    BY <1>10, WindowType
  <2>. HIDE DEF T, ack
  <2>5. Put(toServer, ack) \in Seq(T)
    BY <2>3, <2>4, PutType, Zenon
  <2>. QED  BY <1>11, <2>5, Zenon DEF T
<1>13. UdpOK'
  <2>1. ack \in Ack
    BY <1>10, WindowType, Zenon DEF Ack
  <2>. HIDE DEF ack
  <2>2. toServer' \in Seq(Ack)
    BY <1>1, <1>11, <2>1, PutType, Zenon
  <2>. QED  BY <1>2, <2>2, Zenon DEF Receive, AckInv, TypeOK, UdpOK
<1>14. ReceiverOK'
  <2>1. slot' \in 0..Rwnd
    <3>1. slot' \in {slot, min_seq_num(text_buffer')}
      BY Zenon DEF Receive
    <3>. QED
      BY <1>5, <3>1, MinSeqType, ReceiverAssumption DEF AckInv, TypeOK, ReceiverOK, Slots
  <2>2. /\ client' \in {"receiving", "draining", "exited"}
        /\ mutex' \in {"free", "main", "reader"} /\ printed' = printed
    BY Zenon DEF Receive, AckInv, TypeOK, ReceiverOK
  <2>. QED  BY <1>5, <1>10, <2>1, <2>2, Zenon DEF AckInv, TypeOK, ReceiverOK, Ring
<1>15. SenderInv'
  <2>1. UNCHANGED <<server, seq_num, fp, packet_count, config, prev_seq_num, fast_retransmit, timer>>
    BY Zenon DEF sndVars
  <2>2. SenderOK'
    BY <2>1, Zenon DEF AckInv, TypeOK, SenderOK
  <2>3. prev_seq_num' <= expected_seq_num'
    BY <1>4, <1>10, <2>1 DEF AckInv, TypeOK, SenderOK, SeqNo
  <2>4. config'.isEOF = 1 => BeyondLast(config', expected_seq_num')
    BY <1>4, <1>10, <2>1 DEF AckInv, TypeOK, SenderOK, BeyondLast, Config, SeqNo
  <2>. QED  BY <2>1, <2>2, <2>3, <2>4, Zenon DEF SenderInv, AckInv, BeyondLast
<1>. QED
  BY <1>9, <1>12, <1>13, <1>14, <1>15, Zenon DEF AckInv, TypeOK, SenderInv

(* The client as a whole, and the datagrams nobody reads any more. *)
LEMMA ReceiverAckInv ==
    AckInv /\ (ReceiverStep \/ ToClosedSocket) => AckInv'
<1>. SUFFICES ASSUME AckInv, ReceiverStep \/ ToClosedSocket PROVE AckInv'
  BY Zenon
<1>1. /\ client \in {"receiving", "draining", "exited"}
      /\ mutex \in {"free", "main", "reader"} /\ slot \in 0..Rwnd
      /\ text_buffer \in Ring /\ printed \in Seq(Line)
      /\ toClient \in Seq(Datagram) /\ faults \in 0..MaxFaults
      /\ \A i \in Slots : text_buffer[i].seq < expected_seq_num
  BY Zenon DEF AckInv, TypeOK, ReceiverOK, UdpOK, Ring
<1>2. CASE ToClosedSocket
  BY <1>1, <1>2, ClientAckInv DEF ToClosedSocket, rcvVars
<1>3. CASE ReceiverStep
  <2>. USE <1>3 DEF ReceiverStep
  <2>1. CASE Receive
    BY <2>1, ReceiveAckInvClient, Zenon
  <2>2. CASE Drop
    <3>1. toClient' \in Seq(Datagram) /\ faults' \in 0..MaxFaults
      BY <1>1, <2>2, TailType, UdpAssumption DEF Drop
    <3>. QED  BY <1>1, <2>2, <3>1, ClientAckInv, Zenon DEF Drop, rcvVars
  <2>3. CASE ReaderLock
    <3>1. slot' \in 0..Rwnd
      BY <1>1, <2>3, MinSeqType, ReceiverAssumption DEF ReaderLock, Slots
    <3>. QED  BY <1>1, <2>3, <3>1, ClientAckInv, Zenon DEF ReaderLock, udpVars
  <2>4. CASE ReaderPrint
    BY <2>4, PrintSlotAckInv, Zenon DEF ReaderPrint
  <2>5. CASE ReaderUnlock
    <3>1. slot' \in 0..Rwnd
      BY <2>5, ReceiverAssumption DEF ReaderUnlock
    <3>. QED  BY <1>1, <2>5, <3>1, ClientAckInv, Zenon DEF ReaderUnlock, udpVars
  <2>6. CASE MainPrint
    BY <2>6, PrintSlotAckInv, Zenon DEF MainPrint
  <2>7. CASE Exit
    BY <1>1, <2>7, ClientAckInv, Zenon DEF Exit, udpVars
  <2>. QED
    BY <2>1, <2>2, <2>3, <2>4, <2>5, <2>6, <2>7 DEF ReceiverNext
<1>. QED  BY <1>2, <1>3, Zenon

(* A transfer begins with nothing sent, stored or known. *)
LEMMA InitAckInv == ASSUME UninitEOF = {0} PROVE Init => AckInv
<1>. SUFFICES ASSUME Init PROVE AckInv
  BY Zenon
<1>1. config \in Config /\ config.isEOF = 0
  BY SenderAssumption DEF Init, SenderInit, Config, SeqNo, CInt
<1>2. SenderOK
  <2>1. fp \in 0..Len(File)
    <3>1. Len(File) \in Nat
      BY SenderAssumption
    <3>. QED  BY <3>1 DEF Init, SenderInit
  <2>2. fast_retransmit \in 0..DupAcks
    BY SenderAssumption DEF Init, SenderInit
  <2>. QED  BY <1>1, <2>1, <2>2, Zenon DEF Init, SenderInit, SenderOK, SeqNo
<1>3. ReceiverOK
  BY ReceiverAssumption DEF Init, ReceiverInit, ReceiverOK, Slots
<1>4. UdpOK /\ toServer = <<>>
  BY UdpAssumption DEF Init, UdpInit, UdpOK
<1>5. toServer \in Seq([seq : 0..expected_seq_num, rwnd : Nat])
  BY <1>4
<1>6. \A i \in Slots : text_buffer[i].seq < expected_seq_num
  BY DEF Init, ReceiverInit, Vacant
<1>7. prev_seq_num <= expected_seq_num /\ server # "done"
  BY DEF Init, SenderInit, ReceiverInit
<1>. QED  BY <1>1, <1>2, <1>3, <1>4, <1>5, <1>6, <1>7 DEF AckInv, TypeOK

(* No step of the server, the client, the network or the timers breaks it. *)
LEMMA NextAckInv == AckInv /\ [Next]_vars => AckInv'
<1>. SUFFICES ASSUME AckInv, [Next]_vars PROVE AckInv'
  BY Zenon
<1>1. CASE SenderStep
  BY <1>1, SenderAckInv, Zenon DEF SenderStep
<1>2. CASE ReceiverStep \/ ToClosedSocket
  BY <1>2, ReceiverAckInv, Zenon
<1>3. CASE NetworkStep
  BY <1>3, NetworkAckInv, Zenon
<1>4. CASE UNCHANGED vars
  BY <1>4, Zenon DEF vars, sndVars, rcvVars, udpVars, AckInv, TypeOK, SenderOK,
     ReceiverOK, UdpOK, BeyondLast
<1>. QED  BY <1>1, <1>2, <1>3, <1>4, Zenon DEF Next

(* The inductive invariant of a transfer whose server starts with isEOF 0. *)
THEOREM AckInvariant == ASSUME UninitEOF = {0} PROVE Spec => []AckInv
<1>1. Init => AckInv
  BY InitAckInv, Zenon
<1>. QED  BY <1>1, NextAckInv, PTL DEF Spec

(* Every variable keeps its type: in particular no step leaves the ring, the  *)
(* window or the congestion window outside its bounds.                       *)
THEOREM TypeCorrect == ASSUME UninitEOF = {0} PROVE Spec => []TypeOK
<1>1. AckInv => TypeOK
  BY Zenon DEF AckInv
<1>. QED  BY <1>1, AckInvariant, PTL

(* "File transfer successful" (server.c 134) is never reported before the     *)
(* client has stored the eof, whatever is lost, duplicated, reordered or      *)
(* fires at the wrong moment, provided isEOF starts as 0.                    *)
THEOREM ServerEndsAfterClient == ASSUME UninitEOF = {0} PROVE Spec => []DoneMeansReceived
<1>1. AckInv => DoneMeansReceived
  BY Zenon DEF AckInv, DoneMeansReceived, BeyondLast, TypeOK, SenderOK, ReceiverOK, Config, SeqNo
<1>. QED  BY <1>1, AckInvariant, PTL

---------------------------------------------------------------------------
(* Arithmetic of the slot index seq % Rwnd. *)

(* A number determines its remainder. *)
LEMMA RemainderUnique ==
    ASSUME NEW r \in Nat, r > 0, NEW a \in Nat, NEW b \in Nat,
           NEW p \in 0..(r - 1), NEW q \in 0..(r - 1), r * a + p = r * b + q
    PROVE  p = q
<1>1. r * a - r * b = q - p
  BY SMT
<1>2. CASE a = b
  BY <1>1, <1>2
<1>3. CASE a > b
  <2>1. r * (a - b) >= r
    BY <1>3, SMT
  <2>2. r * (a - b) = r * a - r * b
    BY SMT
  <2>. QED  BY <1>1, <2>1, <2>2
<1>4. CASE a < b
  <2>1. r * (b - a) >= r
    BY <1>4, SMT
  <2>2. r * (b - a) = r * b - r * a
    BY SMT
  <2>. QED  BY <1>1, <2>1, <2>2
<1>. QED  BY <1>2, <1>3, <1>4

(* What % and \div mean. *)
LEMMA Division ==
    ASSUME NEW x \in Nat, NEW r \in Nat, r > 0
    PROVE  /\ x % r \in 0..(r - 1) /\ x \div r \in Nat
           /\ x = r * (x \div r) + (x % r)
<1>1. x % r \in 0..(r - 1)
  OBVIOUS
<1>2. x \div r \in Nat
  OBVIOUS
<1>3. x = r * (x \div r) + (x % r)
  OBVIOUS
<1>. QED  BY <1>1, <1>2, <1>3, Zenon

(* Numbers a whole window apart share a slot. *)
LEMMA SameSlot ==
    ASSUME NEW n \in Nat, NEW r \in Nat, r > 0
    PROVE  (n + r) % r = n % r
<1>. DEFINE a == (n + r) \div r
            b == n \div r
            p == (n + r) % r
            q == n % r
<1>1. p \in 0..(r - 1) /\ a \in Nat /\ n + r = r * a + p
  BY Division
<1>2. q \in 0..(r - 1) /\ b \in Nat /\ n = r * b + q
  BY Division, Zenon
<1>. HIDE DEF a, b, p, q
<1>3. r * (b + 1) = r * b + r
  BY <1>2, SMT
<1>4. r * a + p = r * (b + 1) + q
  BY <1>1, <1>2, <1>3, SMT
<1>5. p = q
  BY <1>1, <1>2, <1>4, RemainderUnique
<1>. QED  BY <1>5, Zenon DEF p, q

(* The slot after n's, unless the array ends there, is that of n + 1. *)
LEMMA NextSlot ==
    ASSUME NEW n \in Nat, NEW r \in Nat, r > 0, (n % r) + 1 < r
    PROVE  (n + 1) % r = (n % r) + 1
<1>. DEFINE a == (n + 1) \div r
            b == n \div r
            p == (n + 1) % r
            q == n % r
<1>1. p \in 0..(r - 1) /\ a \in Nat /\ n + 1 = r * a + p
  BY Division
<1>2. q \in 0..(r - 1) /\ b \in Nat /\ n = r * b + q /\ q + 1 < r
  BY Division, Zenon
<1>. HIDE DEF a, b, p, q
<1>3. r * a + p = r * b + (q + 1) /\ q + 1 \in 0..(r - 1)
  BY <1>1, <1>2, SMT
<1>4. p = q + 1
  BY <1>1, <1>2, <1>3, RemainderUnique, Zenon
<1>. QED  BY <1>4, Zenon DEF p, q

---------------------------------------------------------------------------
(* Every step preserves RingInv. *)

(* The scan starts at the oldest line (client.c 212). *)
LEMMA MinSeqOldest ==
    ASSUME NEW ring \in Ring, NEW n \in Nat, NEW e \in Nat, n < e,
           RingHolds(ring, n, e)
    PROVE  min_seq_num(ring) = n % Rwnd
<1>1. n % Rwnd \in Slots /\ ring[n % Rwnd].seq = n /\ n \in n..(e - 1)
  BY ReceiverAssumption DEF RingHolds, Slots
<1>2. Filled(ring, n % Rwnd)
  BY <1>1 DEF Filled
<1>3. \A j \in Slots : Filled(ring, j) => ring[n % Rwnd].seq <= ring[j].seq
  BY <1>1 DEF RingHolds
<1>4. ASSUME NEW i \in Slots, Filled(ring, i), ring[i].seq <= ring[n % Rwnd].seq
      PROVE  i = n % Rwnd
  <2>1. ring[i].seq \in n..(e - 1) /\ ring[i].seq % Rwnd = i
    BY <1>4, Zenon DEF RingHolds
  <2>. QED  BY <1>1, <1>4, <2>1
<1>. QED  BY <1>1, <1>2, <1>3, <1>4, Zenon DEF min_seq_num

(* One iteration of a scan prints the oldest line or finds a vacant slot. *)
LEMMA PrintSlotRing ==
    ASSUME AckInv, RingInv, mutex # "free", PrintSlot
    PROVE  RingInv'
<1>. DEFINE n == Len(printed)
            e == expected_seq_num
<1>1. /\ slot \in Slots /\ text_buffer \in Ring /\ printed \in Seq(Line)
      /\ n \in Nat /\ e \in Nat /\ Rwnd \in Nat /\ Rwnd > 0
  BY ReceiverAssumption DEF PrintSlot, AckInv, TypeOK, ReceiverOK, Slots, Ring
<1>2. /\ UNCHANGED <<client, mutex, expected_seq_num>> /\ slot' = slot + 1
      /\ text_buffer' = [text_buffer EXCEPT ![slot] = Vacant]
      /\ printed' = IF Filled(text_buffer, slot)
                    THEN Append(printed, text_buffer[slot]) ELSE printed
  BY Zenon DEF PrintSlot
<1>3. CASE n = e
  <2>1. ~Filled(text_buffer, slot)
    BY <1>1, <1>3 DEF RingInv, RingHolds
  <2>2. text_buffer[slot] = Vacant
    BY <1>1, <2>1 DEF Filled, Ring, Line, Vacant
  <2>3. text_buffer' = text_buffer /\ printed' = printed
    BY <1>1, <1>2, <2>1, <2>2, Zenon DEF Ring
  <2>4. PrintedInOrder' /\ RingHolds(text_buffer, n, e)'
    BY <1>2, <2>3, Zenon DEF RingInv, PrintedInOrder, RingHolds, Filled
  <2>5. (client # "receiving" => mutex = "main")'
    BY <1>2, Zenon DEF RingInv
  <2>6. Len(printed') = n /\ expected_seq_num' = e
    BY <1>2, <2>3, Zenon
  <2>7. expected_seq_num' \in Len(printed')..(Len(printed') + Rwnd)
    BY <1>1, <1>3, <2>6
  <2>. QED  BY <1>3, <2>4, <2>5, <2>6, <2>7, Zenon DEF RingInv
<1>4. CASE n # e
  <2>1. n < e /\ slot = n % Rwnd /\ e <= n + Rwnd
    BY <1>1, <1>4 DEF RingInv, Slots
  <2>2. text_buffer[slot].seq = n
    <3>1. RingHolds(text_buffer, n, e)
      BY Zenon DEF RingInv
    <3>2. n \in n..(e - 1)
      BY <1>1, <2>1
    <3>3. text_buffer[n % Rwnd].seq = n
      BY <3>1, <3>2, Zenon DEF RingHolds
    <3>. QED  BY <2>1, <3>3, Zenon
  <2>3. Filled(text_buffer, slot) /\ text_buffer[slot] \in Line
    BY <1>1, <2>2 DEF Filled, Ring, Vacant
  <2>4. printed' = Append(printed, text_buffer[slot])
    BY <1>2, <2>3, Zenon
  <2>5. Len(printed') = n + 1 /\ PrintedInOrder'
    BY <1>1, <2>2, <2>3, <2>4 DEF RingInv, PrintedInOrder
  <2>6. \A s \in (n + 1)..(e - 1) : text_buffer'[s % Rwnd].seq = s
    <3>. SUFFICES ASSUME NEW s \in (n + 1)..(e - 1) PROVE text_buffer'[s % Rwnd].seq = s
      BY Zenon
    <3>1. text_buffer[s % Rwnd].seq = s /\ s % Rwnd \in Slots
      BY <1>1 DEF RingInv, RingHolds, Slots
    <3>2. s % Rwnd # slot
      BY <1>1, <2>2, <3>1
    <3>. QED  BY <1>1, <1>2, <3>1, <3>2 DEF Ring
  <2>7. \A i \in Slots : Filled(text_buffer', i) =>
          text_buffer'[i].seq \in (n + 1)..(e - 1) /\ text_buffer'[i].seq % Rwnd = i
    <3>. SUFFICES ASSUME NEW i \in Slots, Filled(text_buffer', i)
                  PROVE  text_buffer'[i].seq \in (n + 1)..(e - 1) /\ text_buffer'[i].seq % Rwnd = i
      BY Zenon
    <3>1. i # slot /\ text_buffer'[i] = text_buffer[i]
      BY <1>1, <1>2, Zenon DEF Ring, Filled, Vacant
    <3>2. text_buffer[i].seq \in n..(e - 1) /\ text_buffer[i].seq % Rwnd = i
      BY <3>1, Zenon DEF RingInv, RingHolds, Filled
    <3>3. text_buffer[i].seq # n
      BY <2>1, <3>1, <3>2, Zenon
    <3>. QED  BY <1>1, <3>1, <3>2, <3>3
  <2>8. slot' = Rwnd \/ slot' = (n + 1) % Rwnd
    <3>1. CASE slot + 1 = Rwnd
      BY <1>2, <3>1, Zenon
    <3>2. CASE slot + 1 # Rwnd
      <4>1. (n % Rwnd) + 1 < Rwnd
        BY <1>1, <2>1, <3>2 DEF Slots
      <4>. QED  BY <1>1, <1>2, <2>1, <4>1, NextSlot, Zenon
    <3>. QED  BY <3>1, <3>2, Zenon
  <2>9. e \in (n + 1)..(n + 1 + Rwnd)
    BY <1>1, <2>1
  <2>. QED
    BY <1>2, <2>5, <2>6, <2>7, <2>8, <2>9, Zenon DEF RingInv, RingHolds
<1>. QED  BY <1>3, <1>4, Zenon

(* A datagram received goes into the one vacant slot that is its own. *)
LEMMA ReceiveRing ==
    ASSUME AckInv, RingInv, Receive
    PROVE  RingInv'
<1>. DEFINE n == Len(printed)
            e == expected_seq_num
            m == Head(toClient)
<1>1. /\ text_buffer \in Ring /\ printed \in Seq(Line)
      /\ n \in Nat /\ e \in Nat /\ Rwnd \in Nat /\ Rwnd > 0
      /\ \A i \in Slots : text_buffer[i].seq < e
  BY ReceiverAssumption DEF AckInv, TypeOK, ReceiverOK, Ring
<1>2. n <= e /\ e <= n + Rwnd /\ RingHolds(text_buffer, n, e)
  BY <1>1 DEF RingInv
<1>3. \/ text_buffer' = text_buffer
      \/ \E d \in Word \union {EofMark} :
            /\ ~Filled(text_buffer, e % Rwnd)
            /\ text_buffer' = [text_buffer EXCEPT ![e % Rwnd] = [seq |-> e, data |-> d]]
  <2>1. m \in Datagram
    BY TailType, Zenon DEF AckInv, TypeOK, UdpOK, Receive
  <2>2. m.type \in {"data", "eof", "ping"} /\ (m.type = "data" => m.buf \in Word)
    BY <2>1, Zenon DEF Datagram
  <2>. QED  BY <2>2, Zenon DEF Receive, push_data_to_buffer
<1>4. expected_seq_num' = update_expected_seq_num(text_buffer', e)
  BY Zenon DEF Receive
<1>5. /\ text_buffer' \in Ring
      /\ expected_seq_num' \in n..(n + Rwnd)
      /\ RingHolds(text_buffer', n, expected_seq_num')
  <2>1. CASE text_buffer' = text_buffer
    <3>1. ~ispresent(text_buffer, e) /\ \A i \in Slots : text_buffer[i].seq <= e
      BY <1>1 DEF ispresent, Ring, Line, Vacant
    <3>2. expected_seq_num' = e
      BY <1>1, <1>4, <2>1, <3>1, UpdateExpected, Zenon
    <3>. QED  BY <1>1, <1>2, <2>1, <3>2
  <2>2. ASSUME NEW d \in Word \union {EofMark}, ~Filled(text_buffer, e % Rwnd),
               text_buffer' = [text_buffer EXCEPT ![e % Rwnd] = [seq |-> e, data |-> d]]
        PROVE  /\ text_buffer' \in Ring
               /\ expected_seq_num' \in n..(n + Rwnd)
               /\ RingHolds(text_buffer', n, expected_seq_num')
    <3>1. e % Rwnd \in Slots /\ n % Rwnd \in Slots
      BY <1>1 DEF Slots
    <3>2. text_buffer' \in Ring
      BY <1>1, <2>2, <3>1, Zenon DEF Ring, Line
    <3>3. e < n + Rwnd
      <4>. SUFFICES ASSUME e = n + Rwnd PROVE FALSE
        BY <1>1, <1>2
      <4>1. e % Rwnd = n % Rwnd
        BY <1>1, SameSlot, Zenon
      <4>2. text_buffer[n % Rwnd].seq = n
        BY <1>1, <1>2 DEF RingHolds
      <4>. QED  BY <1>1, <2>2, <4>1, <4>2 DEF Filled
    <3>4. ispresent(text_buffer', e)
      BY <1>1, <2>2, <3>1 DEF ispresent, Filled, Ring
    <3>5. \A i \in Slots : text_buffer'[i].seq <= e
      BY <1>1, <2>2, <3>1 DEF Ring, Line, Vacant
    <3>6. expected_seq_num' = e + 1
      BY <1>1, <1>4, <3>2, <3>4, <3>5, UpdateExpected
    <3>7. \A s \in n..e : text_buffer'[s % Rwnd].seq = s
      <4>. SUFFICES ASSUME NEW s \in n..e PROVE text_buffer'[s % Rwnd].seq = s
        BY Zenon
      <4>1. CASE s = e
        BY <1>1, <2>2, <3>1, <4>1 DEF Ring
      <4>2. CASE s # e
        <5>1. s % Rwnd \in Slots /\ text_buffer[s % Rwnd].seq = s
          BY <1>1, <1>2, <4>2 DEF RingHolds, Slots
        <5>2. s % Rwnd # e % Rwnd
          BY <1>1, <2>2, <5>1 DEF Filled
        <5>. QED  BY <1>1, <2>2, <5>1, <5>2 DEF Ring
      <4>. QED  BY <4>1, <4>2, Zenon
    <3>8. \A i \in Slots : Filled(text_buffer', i) =>
            text_buffer'[i].seq \in n..e /\ text_buffer'[i].seq % Rwnd = i
      <4>. SUFFICES ASSUME NEW i \in Slots, Filled(text_buffer', i)
                    PROVE  text_buffer'[i].seq \in n..e /\ text_buffer'[i].seq % Rwnd = i
        BY Zenon
      <4>1. CASE i = e % Rwnd
        BY <1>1, <1>2, <2>2, <3>1, <4>1 DEF Ring
      <4>2. CASE i # e % Rwnd
        <5>1. text_buffer'[i] = text_buffer[i]
          BY <1>1, <2>2, <4>2, Zenon DEF Ring
        <5>. QED  BY <1>1, <1>2, <5>1 DEF RingHolds, Filled
      <4>. QED  BY <4>1, <4>2, Zenon
    <3>9. (e + 1) - 1 = e /\ e + 1 \in n..(n + Rwnd)
      BY <1>1, <1>2, <3>3
    <3>. QED  BY <3>2, <3>6, <3>7, <3>8, <3>9 DEF RingHolds
  <2>. QED  BY <1>3, <2>1, <2>2, Zenon
<1>6. printed' = printed /\ PrintedInOrder'
  BY Zenon DEF Receive, RingInv, PrintedInOrder
<1>7. \/ UNCHANGED <<client, mutex>> /\ mutex' = "free"
      \/ /\ client' = "draining" /\ mutex' = "main"
         /\ slot' = min_seq_num(text_buffer')
  BY Zenon DEF Receive
<1>8. (client # "receiving" => mutex = "main")'
  BY <1>7, Zenon DEF RingInv
<1>9. (mutex = "free" \/ slot = n % Rwnd \/ n = e)'
  <2>1. n' = n /\ expected_seq_num' \in Nat
    BY <1>1, <1>5, <1>6
  <2>2. n < expected_seq_num' => min_seq_num(text_buffer') = n % Rwnd
    BY <1>1, <1>5, <2>1, MinSeqOldest, Zenon
  <2>. QED  BY <1>1, <1>5, <1>7, <2>1, <2>2
<1>. QED  BY <1>5, <1>6, <1>8, <1>9, Zenon DEF RingInv

(* Nothing but the client's own steps touches what RingInv is about. *)
LEMMA UnchangedRing == RingInv /\ UNCHANGED rcvVars => RingInv'
BY Zenon DEF RingInv, PrintedInOrder, RingHolds, Filled, rcvVars

(* No step breaks RingInv. *)
LEMMA NextRingInv == AckInv /\ RingInv /\ [Next]_vars => RingInv'
<1>. SUFFICES ASSUME AckInv, RingInv, [Next]_vars PROVE RingInv'
  BY Zenon
<1>1. CASE SenderStep \/ NetworkStep \/ ToClosedSocket \/ UNCHANGED vars
  BY <1>1, UnchangedRing, Zenon DEF SenderStep, NetworkStep, ToClosedSocket, vars
<1>2. CASE ReceiverStep
  <2>1. CASE Receive
    BY <2>1, ReceiveRing, Zenon
  <2>2. CASE Drop
    BY <2>2, UnchangedRing, Zenon DEF Drop
  <2>3. CASE ReaderLock
    <3>. DEFINE n == Len(printed)
    <3>1. /\ text_buffer \in Ring /\ n \in Nat /\ expected_seq_num \in Nat
          /\ n <= expected_seq_num /\ RingHolds(text_buffer, n, expected_seq_num)
      BY ReceiverAssumption DEF AckInv, TypeOK, ReceiverOK, Ring, RingInv
    <3>2. slot' = min_seq_num(text_buffer)
      BY <2>3, Zenon DEF ReaderLock
    <3>3. slot' = n % Rwnd \/ n = expected_seq_num
      BY <3>1, <3>2, MinSeqOldest
    <3>4. client = "receiving"
      BY <2>3, Zenon DEF ReaderLock, RingInv
    <3>. QED
      BY <2>3, <3>3, <3>4, Zenon DEF ReaderLock, RingInv, PrintedInOrder, RingHolds, Filled
  <2>4. CASE ReaderPrint
    BY <2>4, PrintSlotRing, Zenon DEF ReaderPrint
  <2>5. CASE ReaderUnlock
    <3>1. client = "receiving"
      BY <2>5, Zenon DEF ReaderUnlock, RingInv
    <3>. QED
      BY <2>5, <3>1, Zenon DEF ReaderUnlock, RingInv, PrintedInOrder, RingHolds, Filled
  <2>6. CASE MainPrint
    BY <2>6, PrintSlotRing, Zenon DEF MainPrint, RingInv
  <2>7. CASE Exit
    BY <2>7, Zenon DEF Exit, RingInv, PrintedInOrder, RingHolds, Filled
  <2>. QED
    BY <1>2, <2>1, <2>2, <2>3, <2>4, <2>5, <2>6, <2>7 DEF ReceiverStep, ReceiverNext
<1>. QED  BY <1>1, <1>2, Zenon DEF Next

(* The client starts with an empty ring and nothing printed. *)
LEMMA InitRingInv == Init => RingInv
<1>. SUFFICES ASSUME Init PROVE RingInv
  BY Zenon
<1>1. /\ Len(printed) = 0 /\ expected_seq_num = 0 /\ client = "receiving"
      /\ mutex = "free" /\ \A i \in Slots : ~Filled(text_buffer, i)
  BY Zenon DEF Init, ReceiverInit, Filled, Vacant
<1>2. PrintedInOrder /\ RingHolds(text_buffer, 0, 0)
  BY <1>1 DEF PrintedInOrder, RingHolds
<1>. QED  BY <1>1, <1>2, ReceiverAssumption DEF RingInv

(* Both invariants hold throughout a transfer. *)
THEOREM RingInvariant == ASSUME UninitEOF = {0} PROVE Spec => []RingInv
<1>. QED  BY AckInvariant, InitRingInv, NextRingInv, PTL DEF Spec

(* For every window, file and misbehaviour of network and timers the client   *)
(* prints the lines 0, 1, 2, ... without a repetition or a gap (client.c      *)
(* 185-192 and 354-361).                                                     *)
THEOREM PrintsInOrder == ASSUME UninitEOF = {0} PROVE Spec => []PrintedInOrder
<1>1. RingInv => PrintedInOrder
  BY Zenon DEF RingInv
<1>. QED  BY <1>1, RingInvariant, PTL

(* No word that was acknowledged is overwritten or dropped before it is       *)
(* printed: the guard of push_data_to_buffer (client.c 331) suffices for      *)
(* every window, though the window advertised may be stale.                  *)
THEOREM NothingAckedIsLost ==
    ASSUME UninitEOF = {0} PROVE Spec => []RingHoldsUnprinted
<1>1. AckInv /\ RingInv => RingHoldsUnprinted
  <2>. SUFFICES ASSUME AckInv, RingInv, NEW s \in 0..(expected_seq_num + Rwnd)
                PROVE  ispresent(text_buffer, s) <=>
                           Len(printed) <= s /\ s < expected_seq_num
    BY Zenon DEF RingHoldsUnprinted
  <2>1. /\ Len(printed) \in Nat /\ expected_seq_num \in Nat
        /\ Rwnd \in Nat /\ Rwnd > 0 /\ s \in Nat
    BY ReceiverAssumption DEF AckInv, TypeOK, ReceiverOK
  <2>2. ASSUME ispresent(text_buffer, s)
        PROVE  Len(printed) <= s /\ s < expected_seq_num
    BY <2>1, <2>2 DEF ispresent, RingInv, RingHolds
  <2>3. ASSUME Len(printed) <= s, s < expected_seq_num
        PROVE  ispresent(text_buffer, s)
    <3>1. text_buffer[s % Rwnd].seq = s /\ s % Rwnd \in Slots
      BY <2>1, <2>3 DEF RingInv, RingHolds, Slots
    <3>. QED  BY <2>1, <3>1 DEF ispresent, Filled
  <2>. QED  BY <2>2, <2>3, Zenon
<1>. QED  BY <1>1, AckInvariant, RingInvariant, PTL
=============================================================================
