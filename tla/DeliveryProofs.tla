--------------------------- MODULE DeliveryProofs ---------------------------
(***************************************************************************)
(* Proofs about what the client prints, whatever the network and the timers *)
(* do: line k is word k of the file; and in every behaviour in which the     *)
(* server never goes back past the file before it has met its end, the       *)
(* transfer keeps the promise of FileDelivery.                              *)
(***************************************************************************)
EXTENDS TransferProofs

---------------------------------------------------------------------------
(* Every step preserves WordInv. *)

(* Any step of the server but the sending of a datagram: the file stays where *)
(* it is, the last packet keeps its number, and at most a ping is sent.       *)
SendsNoWord ==
    /\ UNCHANGED <<seq_num, fp, text_buffer, printed>>
    /\ config'.last_pack_seq_no = config.last_pack_seq_no
    /\ toClient' \in Seq(TrueDatagram)

LEMMA SendsNoWordInv == WordInv /\ SendsNoWord => WordInv'
BY Zenon DEF WordInv, SendsNoWord, TrueLine, Reopened

(* One datagram of a burst (server.c 262-287): it carries the word of its     *)
(* number, or is numbered after the last word.                               *)
LEMMA TransmitWords ==
    ASSUME WordInv, NEW s \in Nat, NEW buf \in Word, NEW cfg \in Config,
           cfg.last_pack_seq_no = -1 \/ cfg.last_pack_seq_no >= Len(File),
           s < Len(File) => buf = File[s + 1], fp' = Reopened(s),
           Transmit(s, buf, cfg), UNCHANGED rcvVars
    PROVE  WordInv'
<1>. DEFINE last == cfg.last_pack_seq_no # -1 /\ s >= cfg.last_pack_seq_no
            seq == IF last THEN cfg.last_pack_seq_no ELSE s
            m == [type |-> IF last THEN "eof" ELSE "data", seq |-> seq, buf |-> buf]
<1>1. Len(File) \in Nat /\ cfg.last_pack_seq_no \in SeqNo
  BY SenderAssumption DEF Config
<1>2. seq \in Nat /\ (last => seq >= Len(File) /\ s >= Len(File)) /\ (~last => seq = s)
  BY <1>1 DEF SeqNo
<1>3. m \in TrueDatagram
  <2>1. m \in Datagram
    BY <1>2, Zenon DEF Datagram
  <2>. QED  BY <1>2, <2>1, Zenon DEF TrueDatagram
<1>4. Reopened(s) = Reopened(seq)
  BY <1>1, <1>2 DEF Reopened, Lesser
<1>5. /\ seq_num' = seq /\ config' = [cfg EXCEPT !.nrexmt = 0]
      /\ toClient' = Put(toClient, m)
  BY Zenon DEF Transmit
<1>6. config'.last_pack_seq_no = cfg.last_pack_seq_no
  BY <1>5, Zenon DEF Config
<1>. HIDE DEF m, seq, last
<1>7. toClient' \in Seq(TrueDatagram)
  BY <1>3, <1>5, PutType, Zenon DEF WordInv
<1>8. fp' = Reopened(seq_num')
  BY <1>4, <1>5, Zenon
<1>. QED  BY <1>6, <1>7, <1>8, Zenon DEF WordInv, TrueLine, rcvVars

(* Going back reads the file again from its start (server.c 238-251). *)
LEMMA RetransmitWords ==
    AckInv /\ WordInv /\ Retransmit /\ UNCHANGED rcvVars => WordInv'
<1>. SUFFICES ASSUME AckInv, WordInv, Retransmit, UNCHANGED rcvVars PROVE WordInv'
  BY Zenon
<1>. DEFINE s == config.last_unacked_seq
            cfg == [config EXCEPT !.last_unacked_seq = -1]
<1>1. s \in Nat /\ config \in Config
  BY Zenon DEF Retransmit, AckInv, TypeOK, SenderOK, Config, SeqNo
<1>2. cfg \in Config /\ cfg.last_pack_seq_no = config.last_pack_seq_no
  BY <1>1, Zenon DEF Config, SeqNo
<1>3. ReadUpTo(s) \in Word /\ (s < Len(File) => ReadUpTo(s) = File[s + 1])
  BY <1>1, ReadUpToType, Zenon DEF ReadUpTo
<1>4. fp' = Reopened(s) /\ Transmit(s, ReadUpTo(s), cfg)
  BY Zenon DEF Retransmit
<1>5. cfg.last_pack_seq_no = -1 \/ cfg.last_pack_seq_no >= Len(File)
  BY <1>2, Zenon DEF WordInv
<1>. HIDE DEF s, cfg
<1>. QED  BY <1>1, <1>2, <1>3, <1>4, <1>5, TransmitWords, Zenon

(* The next word read is the one the next number stands for. *)
LEMMA SendNextWords ==
    AckInv /\ WordInv /\ SendNext /\ UNCHANGED rcvVars => WordInv'
<1>. SUFFICES ASSUME AckInv, WordInv, SendNext, UNCHANGED rcvVars PROVE WordInv'
  BY Zenon
<1>1. /\ seq_num \in SeqNo /\ seq_num + 1 \in Nat /\ config \in Config
      /\ fp \in 0..Len(File) /\ Len(File) \in Nat /\ fp = Lesser(seq_num + 1, Len(File))
  BY SenderAssumption DEF AckInv, TypeOK, SenderOK, SeqNo, WordInv, Reopened
<1>2. CASE fp < Len(File)
  <2>1. fp = seq_num + 1
    BY <1>1, <1>2 DEF Lesser
  <2>2. File[fp + 1] \in Word
    BY <1>1, <1>2, SenderAssumption DEF Word
  <2>3. fp' = fp + 1 /\ Transmit(seq_num + 1, File[fp + 1], config)
    BY <1>2, Zenon DEF SendNext
  <2>4. fp' = Reopened(seq_num + 1)
    BY <1>1, <1>2, <2>1, <2>3 DEF Reopened, Lesser
  <2>. QED  BY <1>1, <2>1, <2>2, <2>3, <2>4, TransmitWords, Zenon DEF WordInv
<1>3. CASE ~(fp < Len(File))
  <2>. DEFINE cfg == IF config.last_pack_seq_no = -1
                     THEN [config EXCEPT !.last_pack_seq_no = seq_num + 1]
                     ELSE config
  <2>1. seq_num + 1 >= Len(File) /\ fp = Len(File)
    BY <1>1, <1>3 DEF Lesser
  <2>2. cfg \in Config
    BY <1>1, Zenon DEF Config, SeqNo
  <2>3. cfg.last_pack_seq_no = -1 \/ cfg.last_pack_seq_no >= Len(File)
    BY <1>1, <2>1, Zenon DEF WordInv, Config
  <2>4. fp' = fp /\ Transmit(seq_num + 1, NoWord, cfg)
    BY <1>3, Zenon DEF SendNext
  <2>5. fp' = Reopened(seq_num + 1)
    BY <1>1, <2>1, <2>4 DEF Reopened, Lesser
  <2>6. NoWord \in Word /\ ~(seq_num + 1 < Len(File))
    BY <1>1, <2>1 DEF Word
  <2>. HIDE DEF cfg
  <2>. QED  BY <1>1, <2>2, <2>3, <2>4, <2>5, <2>6, TransmitWords, Zenon
<1>. QED  BY <1>2, <1>3, Zenon

(* Neither a timeout nor a fast retransmission moves the last packet. *)
LEMMA BackoffKeepsLast ==
    ASSUME NEW cfg \in Config, NEW prev, Backoff(cfg, prev)
    PROVE  config'.last_pack_seq_no = cfg.last_pack_seq_no
BY Zenon DEF Backoff, Config

(* Whatever receive_ack has done when the alarm goes off, it did not touch    *)
(* the number of the last packet.                                            *)
LEMMA PartKeepsLast ==
    ASSUME config \in Config, NEW ack \in Ack, NEW part \in PartOfReceive(ack)
    PROVE  part[1] \in Config /\ part[1].last_pack_seq_no = config.last_pack_seq_no
<1>. DEFINE grown == [config EXCEPT !.cwnd = Grow(config)]
            opened == [grown EXCEPT !.rwnd = ack.rwnd]
            ended == [grown EXCEPT !.isEOF = 1]
<1>1. grown \in Config /\ grown.last_pack_seq_no = config.last_pack_seq_no
  BY GrowType, Zenon DEF Config
<1>2. /\ opened \in Config /\ opened.last_pack_seq_no = config.last_pack_seq_no
      /\ ended \in Config /\ ended.last_pack_seq_no = config.last_pack_seq_no
  BY <1>1, Zenon DEF Config, Ack
<1>3. part[1] \in {config, grown, opened, ended}
  BY DEF PartOfReceive
<1>. HIDE DEF grown, opened, ended
<1>. QED  BY <1>1, <1>2, <1>3, Zenon

(* The server preserves WordInv. *)
LEMMA SenderWords == AckInv /\ WordInv /\ SenderStep => WordInv'
<1>. SUFFICES ASSUME AckInv, WordInv, SenderStep PROVE WordInv'
  BY Zenon
<1>1. SenderNext /\ UNCHANGED rcvVars /\ UNCHANGED <<text_buffer, printed>>
  BY Zenon DEF SenderStep, rcvVars
<1>2. config \in Config /\ seq_num \in SeqNo /\ toClient \in Seq(TrueDatagram)
  BY Zenon DEF AckInv, TypeOK, SenderOK, WordInv
<1>3. CASE Retransmit \/ SendNext
  BY <1>1, <1>3, RetransmitWords, SendNextWords, Zenon
<1>4. CASE AwaitAck
  <2>. DEFINE m == [type |-> "ping", seq |-> seq_num, buf |-> NoWord]
  <2>1. m \in TrueDatagram
    BY <1>2, Zenon DEF TrueDatagram, Datagram
  <2>2. toClient' \in {toClient, Put(toClient, m)}
    BY <1>4, Zenon DEF AwaitAck, Probe
  <2>. HIDE DEF m
  <2>3. toClient' \in Seq(TrueDatagram)
    BY <1>2, <2>1, <2>2, PutType, Zenon
  <2>. QED  BY <1>1, <1>4, <2>3, SendsNoWordInv, Zenon DEF AwaitAck, SendsNoWord
<1>5. CASE EndTransfer \/ StrayAlarm
  BY <1>1, <1>2, <1>5, SendsNoWordInv, Zenon DEF EndTransfer, StrayAlarm, SendsNoWord, udpVars
<1>6. CASE ReceiveAck
  <2>1. config'.last_pack_seq_no = config.last_pack_seq_no
    BY <1>2, <1>6, Zenon DEF ReceiveAck, Config
  <2>. QED  BY <1>1, <1>2, <1>6, <2>1, SendsNoWordInv, Zenon DEF ReceiveAck, SendsNoWord
<1>7. CASE Timeout \/ EarlyTimeout \/ FastRetransmit
  <2>1. Backoff(config, prev_seq_num) /\ UNCHANGED <<seq_num, fp, toClient>>
    BY <1>7, Zenon DEF Timeout, EarlyTimeout, Alarm, FastRetransmit, udpVars
  <2>. QED  BY <1>1, <1>2, <2>1, BackoffKeepsLast, SendsNoWordInv, Zenon DEF SendsNoWord
<1>8. CASE TimeoutInAck
  <2>1. Head(toServer) \in Ack
    BY <1>8, TailType, Zenon DEF TimeoutInAck, AckInv, TypeOK, UdpOK
  <2>2. PICK part \in PartOfReceive(Head(toServer)) : Backoff(part[1], part[2])
    BY <1>8, Zenon DEF TimeoutInAck
  <2>3. config'.last_pack_seq_no = config.last_pack_seq_no
    BY <1>2, <2>1, <2>2, PartKeepsLast, BackoffKeepsLast
  <2>. QED  BY <1>1, <1>2, <1>8, <2>3, SendsNoWordInv, Zenon DEF TimeoutInAck, SendsNoWord
<1>. QED
  BY <1>1, <1>3, <1>4, <1>5, <1>6, <1>7, <1>8, Zenon DEF SenderNext

(* A datagram stored keeps its word; an eof takes no word's place. *)
LEMMA ReceiveWords ==
    ASSUME AckInv, WordInv, Receive, UNCHANGED sndVars
    PROVE  WordInv'
<1>. DEFINE m == Head(toClient)
<1>1. toClient \in Seq(TrueDatagram) /\ toClient # <<>> /\ toClient' = Tail(toClient)
  BY Zenon DEF WordInv, Receive
<1>2. m \in TrueDatagram /\ toClient' \in Seq(TrueDatagram)
  BY <1>1, TailType, Zenon
<1>3. text_buffer \in Ring /\ Len(File) \in Nat /\ Rwnd \in Nat /\ Rwnd > 0
  BY SenderAssumption, ReceiverAssumption DEF AckInv, TypeOK, ReceiverOK, Ring
<1>4. m.type \in {"data", "eof", "ping"} /\ (m.type # "ping" => m.seq \in Nat)
  BY <1>2, Zenon DEF TrueDatagram, Datagram
<1>5. \/ text_buffer' = text_buffer
      \/ \E d : /\ text_buffer' = [text_buffer EXCEPT ![m.seq % Rwnd] = [seq |-> m.seq, data |-> d]]
                /\ m.seq \in Nat /\ (m.seq < Len(File) => d = File[m.seq + 1])
  <2>1. CASE m.type = "data"
    <3>1. m.seq < Len(File) => m.buf = File[m.seq + 1]
      BY <1>2, <2>1, Zenon DEF TrueDatagram
    <3>2. text_buffer' = push_data_to_buffer(text_buffer, m.buf, m.seq)
      BY <2>1, Zenon DEF Receive
    <3>. QED  BY <1>4, <2>1, <3>1, <3>2, Zenon DEF push_data_to_buffer
  <2>2. CASE m.type = "eof"
    <3>1. ~(m.seq < Len(File))
      BY <1>2, <1>3, <1>4, <2>2 DEF TrueDatagram
    <3>2. text_buffer' = push_data_to_buffer(text_buffer, EofMark, m.seq)
      BY <2>2, Zenon DEF Receive
    <3>. QED  BY <1>4, <2>2, <3>1, <3>2, Zenon DEF push_data_to_buffer
  <2>3. CASE m.type = "ping"
    BY <2>3, Zenon DEF Receive
  <2>. QED  BY <1>4, <2>1, <2>2, <2>3, Zenon
<1>6. \A i \in Slots : TrueLine(text_buffer'[i])
  <2>1. CASE text_buffer' = text_buffer
    BY <2>1, Zenon DEF WordInv
  <2>2. ASSUME NEW d, m.seq \in Nat, m.seq < Len(File) => d = File[m.seq + 1],
               text_buffer' = [text_buffer EXCEPT ![m.seq % Rwnd] = [seq |-> m.seq, data |-> d]]
        PROVE  \A i \in Slots : TrueLine(text_buffer'[i])
    <3>. DEFINE line == [seq |-> m.seq, data |-> d]
    <3>1. TrueLine(line)
      BY <1>3, <2>2 DEF TrueLine
    <3>2. \A i \in Slots : text_buffer'[i] \in {line, text_buffer[i]}
      BY <1>3, <2>2, Zenon DEF Ring
    <3>. HIDE DEF line
    <3>. QED  BY <3>1, <3>2, Zenon DEF WordInv
  <2>. QED  BY <1>5, <2>1, <2>2, Zenon
<1>7. printed' = printed
  BY Zenon DEF Receive
<1>. QED  BY <1>2, <1>6, <1>7, Zenon DEF WordInv, sndVars, Reopened

(* A line printed shows the word of its slot. *)
LEMMA PrintSlotWords ==
    ASSUME AckInv, WordInv, PrintSlot, UNCHANGED sndVars
    PROVE  WordInv'
<1>1. /\ slot \in Slots /\ text_buffer \in Ring /\ printed \in Seq(Line)
  BY ReceiverAssumption DEF PrintSlot, AckInv, TypeOK, ReceiverOK, Slots, Ring
<1>2. TrueLine(Vacant)
  <2>1. ~(Vacant.seq \in 0..(Len(File) - 1))
    BY SenderAssumption DEF Vacant
  <2>. QED  BY <2>1, Zenon DEF TrueLine
<1>3. \A i \in Slots : text_buffer'[i] \in {text_buffer[i], Vacant}
  BY <1>1, Zenon DEF PrintSlot, Ring
<1>4. \A i \in Slots : TrueLine(text_buffer'[i])
  BY <1>2, <1>3, Zenon DEF WordInv
<1>5. \A k \in 1..Len(printed') : TrueLine(printed'[k])
  <2>1. CASE printed' = printed
    BY <2>1, Zenon DEF WordInv
  <2>2. CASE printed' # printed
    <3>1. printed' = Append(printed, text_buffer[slot]) /\ text_buffer[slot] \in Line
      BY <1>1, <2>2 DEF PrintSlot, Filled, Ring, Vacant
    <3>2. \A k \in 1..Len(printed') : printed'[k] \in {text_buffer[slot], printed[k]}
            /\ (k \notin 1..Len(printed) => printed'[k] = text_buffer[slot])
      BY <1>1, <3>1
    <3>. QED  BY <1>1, <3>2, Zenon DEF WordInv
  <2>. QED  BY <2>1, <2>2, Zenon
<1>6. toClient' = toClient
  BY Zenon DEF PrintSlot, udpVars
<1>. QED  BY <1>4, <1>5, <1>6, Zenon DEF WordInv, sndVars, Reopened

(* No step breaks WordInv. *)
LEMMA NextWordInv == AckInv /\ WordInv /\ [Next]_vars => WordInv'
<1>. SUFFICES ASSUME AckInv, WordInv, [Next]_vars PROVE WordInv'
  BY Zenon
<1>1. toClient \in Seq(TrueDatagram) /\ toServer \in Seq(Ack) /\ faults \in 0..MaxFaults
  BY Zenon DEF AckInv, TypeOK, UdpOK, WordInv
<1>2. CASE SenderStep
  BY <1>2, SenderWords, Zenon
<1>3. CASE NetworkStep
  <2>1. toClient' \in Seq(TrueDatagram)
    BY <1>1, <1>3, UdpStepType, Zenon DEF NetworkStep
  <2>. QED
    BY <1>3, <2>1, SendsNoWordInv, Zenon DEF NetworkStep, SendsNoWord, sndVars, rcvVars
<1>4. CASE ToClosedSocket
  <2>1. toClient' \in Seq(TrueDatagram)
    BY <1>4 DEF ToClosedSocket
  <2>. QED
    BY <1>4, <2>1, SendsNoWordInv, Zenon DEF ToClosedSocket, SendsNoWord, sndVars, rcvVars
<1>5. CASE ReceiverStep
  <2>. USE <1>5 DEF ReceiverStep
  <2>1. CASE Receive
    BY <2>1, ReceiveWords, Zenon
  <2>2. CASE Drop
    <3>1. toClient' \in Seq(TrueDatagram)
      BY <1>1, <2>2, TailType, Zenon DEF Drop
    <3>. QED  BY <2>2, <3>1, SendsNoWordInv, Zenon DEF Drop, SendsNoWord, sndVars, rcvVars
  <2>3. CASE ReaderLock \/ ReaderUnlock \/ Exit
    BY <1>1, <2>3, SendsNoWordInv, Zenon
       DEF ReaderLock, ReaderUnlock, Exit, SendsNoWord, sndVars, udpVars
  <2>4. CASE ReaderPrint \/ MainPrint
    BY <2>4, PrintSlotWords, Zenon DEF ReaderPrint, MainPrint
  <2>. QED  BY <2>1, <2>2, <2>3, <2>4 DEF ReceiverNext
<1>6. CASE UNCHANGED vars
  BY <1>1, <1>6, SendsNoWordInv, Zenon DEF vars, SendsNoWord, sndVars, rcvVars, udpVars
<1>. QED  BY <1>2, <1>3, <1>4, <1>5, <1>6, Zenon DEF Next

(* Nothing read, sent, stored or printed. *)
LEMMA InitWordInv == Init => WordInv
<1>. SUFFICES ASSUME Init PROVE WordInv
  BY Zenon
<1>1. Len(File) \in Nat
  BY SenderAssumption
<1>2. fp = Reopened(seq_num)
  BY <1>1 DEF Init, SenderInit, Reopened, Lesser
<1>3. config.last_pack_seq_no = -1
  BY DEF Init, SenderInit
<1>4. toClient \in Seq(TrueDatagram)
  BY DEF Init, UdpInit
<1>5. \A i \in Slots : TrueLine(text_buffer[i])
  BY <1>1 DEF Init, ReceiverInit, TrueLine, Vacant
<1>6. \A k \in 1..Len(printed) : TrueLine(printed[k])
  BY DEF Init, ReceiverInit
<1>. QED  BY <1>2, <1>3, <1>4, <1>5, <1>6, Zenon DEF WordInv

(* For every file, window and misbehaviour of network and timers, line k of   *)
(* the client's output is word k of the file: going back to an earlier word   *)
(* by reopening and rereading the file (server.c 238-251) never sends a word  *)
(* under another word's number, and no eof replaces a word.                  *)
THEOREM PrintsTheFile == ASSUME UninitEOF = {0} PROVE Spec => []PrintedWords
<1>1. AckInv /\ RingInv /\ WordInv => PrintedWords
  <2>. SUFFICES ASSUME AckInv, RingInv, WordInv, NEW k \in 1..Len(printed), k <= Len(File)
                PROVE  printed[k].data = File[k]
    BY Zenon DEF PrintedWords
  <2>1. Len(File) \in Nat /\ Len(printed) \in Nat
    BY SenderAssumption DEF AckInv, TypeOK, ReceiverOK
  <2>2. printed[k].seq = k - 1 /\ TrueLine(printed[k])
    BY Zenon DEF RingInv, PrintedInOrder, WordInv
  <2>3. k - 1 \in 0..(Len(File) - 1) /\ (k - 1) + 1 = k
    BY <2>1
  <2>. QED  BY <2>2, <2>3, Zenon DEF TrueLine
<1>. QED
  BY <1>1, AckInvariant, RingInvariant, InitWordInv, NextWordInv, PTL DEF Spec

---------------------------------------------------------------------------
(* The end of the file. *)

(* Words are numbered below Len(File), and the eof is number Len(File). *)
FileDatagram ==
    {m \in Datagram : /\ m.type = "data" => m.seq < Len(File)
                      /\ m.type = "eof" => m.seq = Len(File)}

EofLine(line) == line.seq = Len(File) => line.data = EofMark

(* The inductive invariant: what is sent, stored and expected ends with the   *)
(* eof, and a client that has left its loop has all of it.                    *)
EndInv ==
    /\ \/ config.last_pack_seq_no = Len(File)
       \/ config.last_pack_seq_no = -1 /\ seq_num < Len(File)
    /\ toClient \in Seq(FileDatagram)
    /\ \A i \in Slots : EofLine(text_buffer[i])
    /\ \A k \in 1..Len(printed) : EofLine(printed[k])
    /\ expected_seq_num <= Len(File) + 1
    /\ client # "receiving" => expected_seq_num = Len(File) + 1

---------------------------------------------------------------------------
(* Every step preserves EndInv. *)

(* Neither the last packet nor what the client has moves. *)
SendsNothingNew ==
    /\ UNCHANGED <<seq_num, text_buffer, printed, expected_seq_num>>
    /\ config'.last_pack_seq_no = config.last_pack_seq_no
    /\ toClient' \in Seq(FileDatagram)
    /\ client' # "receiving" => client # "receiving"

LEMMA SendsNothingNewInv == EndInv /\ SendsNothingNew => EndInv'
BY Zenon DEF EndInv, SendsNothingNew, EofLine

(* One datagram of a burst: a word, or the eof. *)
LEMMA TransmitEnd ==
    ASSUME EndInv, NEW s \in Nat, NEW buf \in Word, NEW cfg \in Config,
           cfg.last_pack_seq_no = Len(File) \/ (cfg.last_pack_seq_no = -1 /\ s < Len(File)),
           Transmit(s, buf, cfg), UNCHANGED rcvVars
    PROVE  EndInv'
<1>. DEFINE last == cfg.last_pack_seq_no # -1 /\ s >= cfg.last_pack_seq_no
            seq == IF last THEN cfg.last_pack_seq_no ELSE s
            m == [type |-> IF last THEN "eof" ELSE "data", seq |-> seq, buf |-> buf]
<1>1. Len(File) \in Nat
  BY SenderAssumption
<1>2. seq \in Nat /\ (last => seq = Len(File)) /\ (~last => seq = s /\ s < Len(File))
  BY <1>1
<1>3. m \in FileDatagram
  <2>1. m \in Datagram
    BY <1>2, Zenon DEF Datagram
  <2>. QED  BY <1>2, <2>1, Zenon DEF FileDatagram
<1>4. /\ seq_num' = seq /\ config' = [cfg EXCEPT !.nrexmt = 0]
      /\ toClient' = Put(toClient, m)
  BY Zenon DEF Transmit
<1>5. config'.last_pack_seq_no = cfg.last_pack_seq_no
  BY <1>4, Zenon DEF Config
<1>6. cfg.last_pack_seq_no = -1 => seq < Len(File)
  BY <1>1, <1>2, Zenon
<1>. HIDE DEF m, seq, last
<1>7. toClient' \in Seq(FileDatagram)
  BY <1>3, <1>4, PutType, Zenon DEF EndInv
<1>. QED  BY <1>4, <1>5, <1>6, <1>7, Zenon DEF EndInv, EofLine, rcvVars

LEMMA RetransmitEnd ==
    ASSUME AckInv, EndInv, GoesBackToFile, Retransmit, UNCHANGED rcvVars PROVE EndInv'
<1>. DEFINE s == config.last_unacked_seq
            cfg == [config EXCEPT !.last_unacked_seq = -1]
<1>1. s \in Nat /\ config \in Config
  BY Zenon DEF Retransmit, AckInv, TypeOK, SenderOK, Config, SeqNo
<1>2. cfg \in Config /\ cfg.last_pack_seq_no = config.last_pack_seq_no
  BY <1>1, Zenon DEF Config, SeqNo
<1>3. ReadUpTo(s) \in Word
  BY <1>1, ReadUpToType, Zenon
<1>4. Transmit(s, ReadUpTo(s), cfg)
  BY Zenon DEF Retransmit
<1>5. cfg.last_pack_seq_no = Len(File) \/ (cfg.last_pack_seq_no = -1 /\ s < Len(File))
  BY <1>2, Zenon DEF EndInv, GoesBackToFile
<1>. HIDE DEF s, cfg
<1>. QED  BY <1>1, <1>2, <1>3, <1>4, <1>5, TransmitEnd

(* The end of the file is met right after its last word. *)
LEMMA SendNextEnd ==
    ASSUME AckInv, WordInv, EndInv, SendNext, UNCHANGED rcvVars PROVE EndInv'
<1>1. /\ seq_num \in SeqNo /\ seq_num + 1 \in Nat /\ config \in Config
      /\ fp \in 0..Len(File) /\ Len(File) \in Nat /\ fp = Lesser(seq_num + 1, Len(File))
  BY SenderAssumption DEF AckInv, TypeOK, SenderOK, SeqNo, WordInv, Reopened
<1>2. CASE fp < Len(File)
  <2>1. fp = seq_num + 1
    BY <1>1, <1>2 DEF Lesser
  <2>2. File[fp + 1] \in Word
    BY <1>1, <1>2, SenderAssumption DEF Word
  <2>3. Transmit(seq_num + 1, File[fp + 1], config)
    BY <1>2, Zenon DEF SendNext
  <2>4. config.last_pack_seq_no = Len(File)
        \/ (config.last_pack_seq_no = -1 /\ seq_num + 1 < Len(File))
    BY <1>2, <2>1, Zenon DEF EndInv
  <2>. QED  BY <1>1, <2>2, <2>3, <2>4, TransmitEnd, Zenon
<1>3. CASE ~(fp < Len(File))
  <2>. DEFINE cfg == IF config.last_pack_seq_no = -1
                     THEN [config EXCEPT !.last_pack_seq_no = seq_num + 1]
                     ELSE config
  <2>1. seq_num + 1 >= Len(File)
    BY <1>1, <1>3 DEF Lesser
  <2>2. cfg \in Config
    BY <1>1, Zenon DEF Config, SeqNo
  <2>3. cfg.last_pack_seq_no = Len(File)
    <3>1. CASE config.last_pack_seq_no = -1
      <4>1. seq_num < Len(File)
        BY <1>1, <3>1 DEF EndInv
      <4>2. seq_num + 1 = Len(File)
        BY <1>1, <2>1, <4>1 DEF SeqNo
      <4>. QED  BY <1>1, <3>1, <4>2, Zenon DEF Config
    <3>2. CASE config.last_pack_seq_no # -1
      BY <3>2, Zenon DEF EndInv
    <3>. QED  BY <3>1, <3>2, Zenon
  <2>4. Transmit(seq_num + 1, NoWord, cfg) /\ NoWord \in Word
    BY <1>3, Zenon DEF SendNext, Word
  <2>. HIDE DEF cfg
  <2>. QED  BY <1>1, <2>2, <2>3, <2>4, TransmitEnd
<1>. QED  BY <1>2, <1>3, Zenon

LEMMA SenderEnd ==
    ASSUME AckInv, WordInv, EndInv, GoesBackToFile, SenderStep PROVE EndInv'
<1>1. SenderNext /\ UNCHANGED rcvVars /\ UNCHANGED <<text_buffer, printed, expected_seq_num, client>>
  BY Zenon DEF SenderStep, rcvVars
<1>2. config \in Config /\ seq_num \in SeqNo /\ toClient \in Seq(FileDatagram)
  BY Zenon DEF AckInv, TypeOK, SenderOK, EndInv
<1>3. CASE Retransmit \/ SendNext
  BY <1>1, <1>3, RetransmitEnd, SendNextEnd
<1>4. CASE AwaitAck
  <2>. DEFINE m == [type |-> "ping", seq |-> seq_num, buf |-> NoWord]
  <2>1. m \in FileDatagram
    BY <1>2, Zenon DEF FileDatagram, Datagram
  <2>2. toClient' \in {toClient, Put(toClient, m)}
    BY <1>4, Zenon DEF AwaitAck, Probe
  <2>. HIDE DEF m
  <2>3. toClient' \in Seq(FileDatagram)
    BY <1>2, <2>1, <2>2, PutType, Zenon
  <2>. QED  BY <1>1, <1>4, <2>3, SendsNothingNewInv DEF AwaitAck, SendsNothingNew
<1>5. CASE EndTransfer \/ StrayAlarm
  BY <1>1, <1>2, <1>5, SendsNothingNewInv, Zenon
     DEF EndTransfer, StrayAlarm, SendsNothingNew, udpVars
<1>6. CASE ReceiveAck
  <2>1. config'.last_pack_seq_no = config.last_pack_seq_no
    BY <1>2, <1>6, Zenon DEF ReceiveAck, Config
  <2>. QED  BY <1>1, <1>2, <1>6, <2>1, SendsNothingNewInv DEF ReceiveAck, SendsNothingNew
<1>7. CASE Timeout \/ EarlyTimeout \/ FastRetransmit
  <2>1. Backoff(config, prev_seq_num) /\ UNCHANGED <<seq_num, toClient>>
    BY <1>7, Zenon DEF Timeout, EarlyTimeout, Alarm, FastRetransmit, udpVars
  <2>. QED  BY <1>1, <1>2, <2>1, BackoffKeepsLast, SendsNothingNewInv DEF SendsNothingNew
<1>8. CASE TimeoutInAck
  <2>1. Head(toServer) \in Ack
    BY <1>8, TailType, Zenon DEF TimeoutInAck, AckInv, TypeOK, UdpOK
  <2>2. PICK part \in PartOfReceive(Head(toServer)) : Backoff(part[1], part[2])
    BY <1>8, Zenon DEF TimeoutInAck
  <2>3. config'.last_pack_seq_no = config.last_pack_seq_no
    BY <1>2, <2>1, <2>2, PartKeepsLast, BackoffKeepsLast
  <2>. QED  BY <1>1, <1>2, <1>8, <2>3, SendsNothingNewInv DEF TimeoutInAck, SendsNothingNew
<1>. QED
  BY <1>1, <1>3, <1>4, <1>5, <1>6, <1>7, <1>8 DEF SenderNext

---------------------------------------------------------------------------
(* The client. *)

(* The client stores the line that it expects. *)
Stores(d) ==
    text_buffer' = [text_buffer EXCEPT ![expected_seq_num % Rwnd] =
                        [seq |-> expected_seq_num, data |-> d]]

(* A datagram stored is the one expected, and only then is there another to    *)
(* expect.                                                                     *)
LEMMA ReceiveOne ==
    ASSUME AckInv, Receive
    PROVE  /\ Head(toClient) \in Datagram
           /\ \/ /\ text_buffer' = text_buffer /\ expected_seq_num' = expected_seq_num
              \/ /\ Head(toClient).type \in {"data", "eof"}
                 /\ Head(toClient).seq = expected_seq_num
                 /\ expected_seq_num' = expected_seq_num + 1
                 /\ \E d \in Word \union {EofMark} :
                       /\ Stores(d) /\ (Head(toClient).type = "eof" => d = EofMark)
                       /\ Head(toClient).type = "data" => d = Head(toClient).buf
<1>. DEFINE m == Head(toClient)
            e == expected_seq_num
<1>1. /\ toClient \in Seq(Datagram) /\ toClient # <<>> /\ text_buffer \in Ring /\ e \in Nat
      /\ Rwnd \in Nat /\ Rwnd > 0 /\ \A i \in Slots : text_buffer[i].seq < e
  BY ReceiverAssumption DEF AckInv, TypeOK, UdpOK, ReceiverOK, Ring, Receive
<1>2. m \in Datagram
  BY <1>1, TailType, Zenon
<1>3. /\ m.type \in {"data", "eof", "ping"}
      /\ m.type # "ping" => m.seq \in Nat /\ m.buf \in Word
  BY <1>2, Zenon DEF Datagram
<1>4. expected_seq_num' = update_expected_seq_num(text_buffer', e)
  BY Zenon DEF Receive
<1>5. \/ text_buffer' = text_buffer
      \/ \E d \in Word \union {EofMark} :
            /\ Stores(d) /\ (m.type = "eof" => d = EofMark) /\ m.seq = e /\ m.type # "ping"
            /\ m.type = "data" => d = m.buf
  <2>1. CASE m.type = "data"
    <3>1. text_buffer' = push_data_to_buffer(text_buffer, m.buf, m.seq)
      BY <2>1, Zenon DEF Receive
    <3>. QED  BY <1>3, <2>1, <3>1, Zenon DEF push_data_to_buffer, Stores
  <2>2. CASE m.type = "eof"
    <3>1. text_buffer' = push_data_to_buffer(text_buffer, EofMark, m.seq)
      BY <2>2, Zenon DEF Receive
    <3>. QED  BY <1>3, <2>2, <3>1, Zenon DEF push_data_to_buffer, Stores
  <2>3. CASE m.type = "ping"
    BY <2>3, Zenon DEF Receive
  <2>. QED  BY <1>3, <2>1, <2>2, <2>3, Zenon
<1>6. CASE text_buffer' = text_buffer
  <2>1. ~ispresent(text_buffer, e)
    BY <1>1 DEF ispresent
  <2>2. \A i \in Slots : text_buffer[i].seq <= e
    BY <1>1 DEF Ring, Line, Vacant
  <2>3. expected_seq_num' = e
    BY <1>1, <1>4, <1>6, <2>1, <2>2, UpdateExpected
  <2>. QED  BY <1>2, <1>6, <2>3, Zenon
<1>7. ASSUME NEW d \in Word \union {EofMark}, m.type = "eof" => d = EofMark,
             m.seq = e, m.type # "ping", Stores(d)
      PROVE  expected_seq_num' = e + 1
  <2>. USE DEF Stores
  <2>1. e % Rwnd \in Slots
    BY <1>1 DEF Slots
  <2>2. [seq |-> e, data |-> d] \in Line
    BY <1>1, Zenon DEF Line
  <2>3. text_buffer' \in Ring
    BY <1>1, <1>7, <2>1, <2>2, Zenon DEF Ring
  <2>4. text_buffer'[e % Rwnd].seq = e
    BY <1>1, <1>7, <2>1, Zenon DEF Ring
  <2>5. ispresent(text_buffer', e)
    BY <1>1, <2>1, <2>4 DEF ispresent, Filled
  <2>6. \A i \in Slots : text_buffer'[i].seq <= e
    BY <1>1, <1>7, <2>1 DEF Ring, Line, Vacant
  <2>. QED  BY <1>1, <1>4, <2>3, <2>5, <2>6, UpdateExpected
<1>. QED  BY <1>2, <1>3, <1>5, <1>6, <1>7

LEMMA ReceiveEnd ==
    ASSUME AckInv, EndInv, Receive, UNCHANGED sndVars PROVE EndInv'
<1>. DEFINE m == Head(toClient)
            e == expected_seq_num
<1>1. toClient \in Seq(FileDatagram) /\ toClient # <<>> /\ toClient' = Tail(toClient)
  BY Zenon DEF EndInv, Receive
<1>2. m \in FileDatagram /\ toClient' \in Seq(FileDatagram)
  BY <1>1, TailType, Zenon
<1>3. /\ text_buffer \in Ring /\ e \in Nat /\ Len(File) \in Nat /\ Rwnd \in Nat /\ Rwnd > 0
      /\ client = "receiving" /\ e <= Len(File) + 1
  BY SenderAssumption, ReceiverAssumption DEF AckInv, TypeOK, ReceiverOK, Ring, Receive, EndInv
<1>4. UNCHANGED <<config, seq_num, printed>>
  BY Zenon DEF sndVars, Receive
<1>5. client' = IF m.type = "eof" /\ m.seq + 1 = expected_seq_num' THEN "draining" ELSE client
  BY Zenon DEF Receive, EofStored
<1>6. m.type = "eof" => m.seq = Len(File)
  BY <1>2, Zenon DEF FileDatagram
<1>7. client' # "receiving" => expected_seq_num' = Len(File) + 1
  BY <1>3, <1>5, <1>6, Zenon
<1>8. CASE text_buffer' = text_buffer /\ expected_seq_num' = e
  BY <1>2, <1>3, <1>4, <1>7, <1>8, Zenon DEF EndInv, EofLine
<1>9. ASSUME NEW d \in Word \union {EofMark}, m.type \in {"data", "eof"}, m.seq = e, expected_seq_num' = e + 1,
             m.type = "eof" => d = EofMark, Stores(d)
      PROVE  EndInv'
  <2>. DEFINE line == [seq |-> e, data |-> d]
  <2>1. e <= Len(File) /\ (m.type = "data" => e < Len(File))
    BY <1>2, <1>3, <1>9 DEF FileDatagram
  <2>2. EofLine(line)
    BY <1>3, <1>9, <2>1 DEF EofLine
  <2>3. \A i \in Slots : text_buffer'[i] \in {line, text_buffer[i]}
    BY <1>3, <1>9, Zenon DEF Ring, Stores
  <2>. HIDE DEF line
  <2>4. \A i \in Slots : EofLine(text_buffer'[i])
    BY <2>2, <2>3, Zenon DEF EndInv
  <2>5. expected_seq_num' <= Len(File) + 1
    BY <1>3, <1>9, <2>1
  <2>. QED  BY <1>2, <1>4, <1>7, <2>4, <2>5 DEF EndInv
<1>. QED  BY <1>8, <1>9, ReceiveOne, Zenon

LEMMA PrintSlotEnd ==
    ASSUME AckInv, EndInv, PrintSlot, UNCHANGED sndVars PROVE EndInv'
<1>1. /\ slot \in Slots /\ text_buffer \in Ring /\ printed \in Seq(Line)
      /\ Len(File) \in Nat
  BY SenderAssumption, ReceiverAssumption
     DEF PrintSlot, AckInv, TypeOK, ReceiverOK, Slots, Ring
<1>2. EofLine(Vacant)
  BY <1>1 DEF EofLine, Vacant
<1>3. \A i \in Slots : text_buffer'[i] \in {text_buffer[i], Vacant}
  BY <1>1, Zenon DEF PrintSlot, Ring
<1>4. \A i \in Slots : EofLine(text_buffer'[i])
  BY <1>2, <1>3, Zenon DEF EndInv
<1>5. UNCHANGED <<toClient, client, expected_seq_num, config, seq_num>>
  BY Zenon DEF PrintSlot, udpVars, sndVars
<1>6. \A k \in 1..Len(printed') : EofLine(printed'[k])
  <2>1. CASE printed' = printed
    BY <2>1, Zenon DEF EndInv
  <2>2. CASE printed' # printed
    <3>1. printed' = Append(printed, text_buffer[slot]) /\ text_buffer[slot] \in Line
      BY <1>1, <2>2 DEF PrintSlot, Filled, Ring, Vacant
    <3>2. \A k \in 1..Len(printed') : printed'[k] \in {text_buffer[slot], printed[k]}
            /\ (k \notin 1..Len(printed) => printed'[k] = text_buffer[slot])
      BY <1>1, <3>1
    <3>. QED  BY <1>1, <3>2, Zenon DEF EndInv
  <2>. QED  BY <2>1, <2>2, Zenon
<1>. QED  BY <1>4, <1>5, <1>6, Zenon DEF EndInv

LEMMA NextEndInv ==
    AckInv /\ WordInv /\ EndInv /\ GoesBackToFile /\ [Next]_vars => EndInv'
<1>. SUFFICES ASSUME AckInv, WordInv, EndInv, GoesBackToFile, [Next]_vars PROVE EndInv'
  BY Zenon
<1>1. toClient \in Seq(FileDatagram) /\ toServer \in Seq(Ack) /\ faults \in 0..MaxFaults
  BY Zenon DEF AckInv, TypeOK, UdpOK, EndInv
<1>2. CASE SenderStep
  BY <1>2, SenderEnd, Zenon
<1>3. CASE NetworkStep
  <2>1. toClient' \in Seq(FileDatagram)
    BY <1>1, <1>3, UdpStepType, Zenon DEF NetworkStep
  <2>. QED
    BY <1>3, <2>1, SendsNothingNewInv, Zenon DEF NetworkStep, SendsNothingNew, sndVars, rcvVars
<1>4. CASE ToClosedSocket
  <2>1. toClient' \in Seq(FileDatagram)
    BY <1>4 DEF ToClosedSocket
  <2>. QED
    BY <1>4, <2>1, SendsNothingNewInv, Zenon
       DEF ToClosedSocket, SendsNothingNew, sndVars, rcvVars
<1>5. CASE ReceiverStep
  <2>. USE <1>5 DEF ReceiverStep
  <2>1. CASE Receive
    BY <2>1, ReceiveEnd, Zenon
  <2>2. CASE Drop
    <3>1. toClient' \in Seq(FileDatagram)
      BY <1>1, <2>2, TailType, Zenon DEF Drop
    <3>. QED  BY <2>2, <3>1, SendsNothingNewInv, Zenon
                 DEF Drop, SendsNothingNew, sndVars, rcvVars
  <2>3. CASE ReaderLock \/ ReaderUnlock \/ Exit
    BY <1>1, <2>3, SendsNothingNewInv, Zenon
       DEF ReaderLock, ReaderUnlock, Exit, SendsNothingNew, sndVars, udpVars
  <2>4. CASE ReaderPrint \/ MainPrint
    BY <2>4, PrintSlotEnd, Zenon DEF ReaderPrint, MainPrint
  <2>. QED  BY <2>1, <2>2, <2>3, <2>4, Zenon DEF ReceiverNext
<1>6. CASE UNCHANGED vars
  BY <1>1, <1>6, SendsNothingNewInv, Zenon DEF vars, SendsNothingNew, sndVars, rcvVars, udpVars
<1>. QED  BY <1>2, <1>3, <1>4, <1>5, <1>6, Zenon DEF Next

LEMMA InitEndInv == Init => EndInv
<1>. SUFFICES ASSUME Init PROVE EndInv
  BY Zenon
<1>1. Len(File) \in Nat
  BY SenderAssumption
<1>2. config.last_pack_seq_no = -1 /\ seq_num < Len(File)
  BY <1>1 DEF Init, SenderInit
<1>3. \A i \in Slots : EofLine(text_buffer[i])
  BY <1>1 DEF Init, ReceiverInit, EofLine, Vacant
<1>. QED  BY <1>1, <1>2, <1>3 DEF Init, UdpInit, ReceiverInit, EndInv

---------------------------------------------------------------------------
(* Every step of the transfer is a step of FileDelivery, or none. *)

LEMMA WholeIs ==
    /\ Len(File) \in Nat /\ Len(Whole) = Len(File) + 1
    /\ \A k \in 1..Len(File) : Whole[k] = File[k]
    /\ Whole[Len(File) + 1] = EofMark
<1>1. PICK n \in Nat : n = Len(File)
  BY SenderAssumption
<1>2. /\ Len(Whole) = n + 1 /\ \A k \in 1..n : Whole[k] = File[k]
      /\ Whole[n + 1] = EofMark
  BY <1>1, SenderAssumption DEF Whole
<1>. QED  BY <1>1, <1>2, Zenon

(* Line k of the output is element k of the whole. *)
LEMMA OutputIsWhole ==
    ASSUME AckInv, RingInv, WordInv, EndInv
    PROVE  /\ Len(printed) \in Nat /\ Len(printed) <= Len(Whole)
           /\ \A k \in 1..Len(printed) : printed[k].data = Whole[k]
<1>1. /\ Len(File) \in Nat /\ Len(printed) \in Nat /\ expected_seq_num \in Nat
      /\ Len(printed) <= expected_seq_num /\ expected_seq_num <= Len(File) + 1
  BY WholeIs, ReceiverAssumption DEF AckInv, TypeOK, ReceiverOK, RingInv, EndInv
<1>2. ASSUME NEW k \in 1..Len(printed) PROVE printed[k].data = Whole[k]
  <2>1. /\ printed[k].seq = k - 1 /\ TrueLine(printed[k]) /\ EofLine(printed[k])
    BY Zenon DEF RingInv, PrintedInOrder, WordInv, EndInv
  <2>2. CASE k <= Len(File)
    <3>1. k - 1 \in 0..(Len(File) - 1) /\ (k - 1) + 1 = k /\ k \in 1..Len(File)
      BY <1>1, <2>2
    <3>. QED  BY <2>1, <3>1, WholeIs, Zenon DEF TrueLine
  <2>3. CASE ~(k <= Len(File))
    <3>1. k = Len(File) + 1 /\ k - 1 = Len(File)
      BY <1>1, <2>3
    <3>. QED  BY <2>1, <3>1, WholeIs, Zenon DEF EofLine
  <2>. QED  BY <2>2, <2>3, Zenon
<1>. QED  BY <1>1, <1>2, WholeIs

LEMMA OutputIsWholeNext ==
    AckInv' /\ RingInv' /\ WordInv' /\ EndInv' =>
        \A k \in 1..Len(printed') : printed'[k].data = Whole[k]
<1>. DEFINE Shown == \A k \in 1..Len(printed) : printed[k].data = Whole[k]
<1>1. AckInv /\ RingInv /\ WordInv /\ EndInv => Shown
  BY OutputIsWhole, Zenon
<1>. HIDE DEF Shown
<1>2. AckInv' /\ RingInv' /\ WordInv' /\ EndInv' => Shown'
  BY <1>1, PTL
<1>. QED  BY <1>2, Zenon DEF Shown

(* A step that FileDelivery does not see. *)
Unseen == UNCHANGED <<expected_seq_num, printed, client = "exited", server = "done">>

(* The four steps it sees. *)
Stored == /\ expected_seq_num' = expected_seq_num + 1 /\ client # "exited"
          /\ UNCHANGED <<printed, client = "exited", server = "done">>

Prints == /\ \E line \in Line : printed' = Append(printed, line)
          /\ client # "exited" /\ UNCHANGED <<expected_seq_num, client, server>>

Ends == /\ client = "draining" /\ client' = "exited"
        /\ UNCHANGED <<expected_seq_num, printed, server>>

Reports == /\ server' = "done" /\ config.isEOF = 1
           /\ UNCHANGED <<expected_seq_num, printed, client, config>>

LEMMA SenderSeen == ASSUME SenderStep PROVE Unseen \/ Reports
<1>1. SenderNext /\ UNCHANGED <<expected_seq_num, printed, client>>
  BY Zenon DEF SenderStep, rcvVars
<1>2. CASE EndTransfer
  BY <1>1, <1>2, Zenon DEF EndTransfer, Reports
<1>3. CASE ~EndTransfer
  <2>. SUFFICES server # "done" /\ server' # "done"
    BY <1>1, Zenon DEF Unseen
  <2>1. CASE Retransmit \/ SendNext
    BY <2>1, Zenon DEF Retransmit, SendNext, InBurst, Transmit
  <2>2. CASE AwaitAck \/ StrayAlarm
    BY <2>2, Zenon DEF AwaitAck, StrayAlarm
  <2>3. CASE ReceiveAck
    BY <2>3, Zenon DEF ReceiveAck, ReturnToBurst
  <2>4. CASE Timeout \/ EarlyTimeout \/ FastRetransmit \/ TimeoutInAck
    <3>1. server = "waiting" /\ \E cfg, prev : Backoff(cfg, prev)
      BY <2>4, Zenon DEF Timeout, EarlyTimeout, Alarm, FastRetransmit, TimeoutInAck
    <3>. QED  BY <3>1, Zenon DEF Backoff, ReturnToBurst
  <2>. QED  BY <1>1, <1>3, <2>1, <2>2, <2>3, <2>4 DEF SenderNext
<1>. QED  BY <1>2, <1>3, Zenon

LEMMA ReceiverSeen ==
    ASSUME AckInv, RingInv, ReceiverStep PROVE Unseen \/ Stored \/ Prints \/ Ends
<1>1. ReceiverNext /\ server' = server
  BY Zenon DEF ReceiverStep, sndVars
<1>2. CASE Receive
  <2>1. client = "receiving" /\ client' # "exited" /\ printed' = printed
    BY <1>2, Zenon DEF Receive
  <2>2. expected_seq_num' \in {expected_seq_num, expected_seq_num + 1}
    BY <1>2, ReceiveOne, Zenon
  <2>. QED  BY <1>1, <2>1, <2>2, Zenon DEF Unseen, Stored
<1>3. CASE Drop \/ ReaderLock \/ ReaderUnlock
  BY <1>1, <1>3, Zenon DEF Drop, ReaderLock, ReaderUnlock, Unseen, rcvVars
<1>4. CASE ReaderPrint \/ MainPrint
  <2>1. PrintSlot /\ client # "exited"
    BY <1>4, Zenon DEF ReaderPrint, MainPrint, RingInv
  <2>2. slot \in Slots /\ text_buffer \in Ring
    BY <2>1, ReceiverAssumption DEF PrintSlot, AckInv, TypeOK, ReceiverOK, Slots, Ring
  <2>3. printed' = printed \/ \E line \in Line : printed' = Append(printed, line)
    <3>1. CASE Filled(text_buffer, slot)
      <4>1. text_buffer[slot] \in Line
        BY <2>2, <3>1 DEF Filled, Ring, Vacant
      <4>. QED  BY <2>1, <3>1, <4>1, Zenon DEF PrintSlot
    <3>2. CASE ~Filled(text_buffer, slot)
      BY <2>1, <3>2, Zenon DEF PrintSlot
    <3>. QED  BY <3>1, <3>2, Zenon
  <2>. QED  BY <1>1, <2>1, <2>3, Zenon DEF PrintSlot, Unseen, Prints
<1>5. CASE Exit
  BY <1>1, <1>5, Zenon DEF Exit, Ends
<1>. QED  BY <1>1, <1>2, <1>3, <1>4, <1>5 DEF ReceiverNext

LEMMA StepSeen ==
    ASSUME AckInv, RingInv, [Next]_vars
    PROVE  Unseen \/ Stored \/ Prints \/ Ends \/ Reports
<1>1. CASE SenderStep
  BY <1>1, SenderSeen, Zenon
<1>2. CASE ReceiverStep
  BY <1>2, ReceiverSeen, Zenon
<1>3. CASE NetworkStep \/ ToClosedSocket
  BY <1>3, Zenon DEF NetworkStep, ToClosedSocket, sndVars, rcvVars, Unseen
<1>4. CASE UNCHANGED vars
  BY <1>4, Zenon DEF vars, sndVars, rcvVars, Unseen
<1>. QED  BY <1>1, <1>2, <1>3, <1>4, Zenon DEF Next

(* The line printed is the next one of the whole. *)
LEMMA PrintsShows ==
    ASSUME AckInv, RingInv, WordInv, EndInv, RingInv', AckInv', WordInv', EndInv', Prints
    PROVE  Delivery!Show
<1>1. PICK line \in Line : printed' = Append(printed, line)
  BY Zenon DEF Prints
<1>2. PICK n \in Nat : n = Len(printed)
  BY DEF AckInv, TypeOK, ReceiverOK
<1>3. /\ Len(printed') = n + 1 /\ printed'[n + 1] = line
      /\ \A k \in 1..n : printed'[k] = printed[k]
  BY <1>1, <1>2 DEF AckInv, TypeOK, ReceiverOK
<1>4. \A k \in 1..Len(printed') : printed'[k].data = Whole[k]
  BY OutputIsWholeNext, Zenon
<1>5. line.data = Whole[n + 1]
  BY <1>3, <1>4
<1>6. n < expected_seq_num
  <2>1. expected_seq_num' = expected_seq_num /\ n + 1 <= expected_seq_num'
    BY <1>2, <1>3, ReceiverAssumption DEF Prints, RingInv, AckInv, TypeOK, ReceiverOK
  <2>. QED  BY <1>2, <2>1 DEF AckInv, TypeOK, ReceiverOK
<1>7. /\ Output = [k \in 1..n |-> printed[k].data]
      /\ Output' = [k \in 1..(n + 1) |-> printed'[k].data]
  BY <1>2, <1>3, Zenon DEF Output
<1>8. Len(Output) = n
  BY <1>2, <1>7
<1>9. Output' = Append(Output, Whole[n + 1])
  BY <1>2, <1>3, <1>5, <1>7
<1>. QED  BY <1>6, <1>8, <1>9, Zenon DEF Delivery!Show, Prints

LEMMA StepImplements ==
    ASSUME AckInv, RingInv, WordInv, EndInv, AckInv', RingInv', WordInv', EndInv', [Next]_vars
    PROVE  Delivery!Next \/ UNCHANGED Delivery!vars
<1>1. /\ Len(File) \in Nat /\ Len(Whole) = Len(File) + 1 /\ expected_seq_num \in Nat
      /\ expected_seq_num <= Len(File) + 1
  BY WholeIs, Zenon DEF EndInv, AckInv, TypeOK, ReceiverOK
<1>2. printed' = printed => Output' = Output
  BY Zenon DEF Output
<1>3. CASE Unseen
  BY <1>2, <1>3, Zenon DEF Unseen, Delivery!vars
<1>4. CASE Stored
  <2>1. expected_seq_num < Len(Whole)
    BY <1>1, <1>4 DEF Stored, EndInv
  <2>. QED  BY <1>2, <1>4, <2>1, Zenon DEF Stored, Delivery!Next, Delivery!Accept
<1>5. CASE Prints
  BY <1>5, PrintsShows, Zenon DEF Delivery!Next
<1>6. CASE Ends
  BY <1>1, <1>2, <1>6, Zenon DEF Ends, EndInv, Delivery!Next, Delivery!Close
<1>7. CASE Reports
  <2>1. expected_seq_num = Len(Whole)
    BY <1>1, <1>7 DEF Reports, AckInv, BeyondLast, EndInv
  <2>. QED  BY <1>2, <1>7, <2>1, Zenon DEF Reports, Delivery!Next, Delivery!Report
<1>. QED  BY <1>3, <1>4, <1>5, <1>6, <1>7, StepSeen, Zenon

(* For every file, window and misbehaviour of network and timers, a transfer  *)
(* implements FileDelivery: the client takes in the words and then the eof    *)
(* in order and each once, prints them so, ends only when it has them all,    *)
(* and the server reports success only then.  The one condition is on the     *)
(* server itself: that it never goes back past the last word before it knows  *)
(* the number of the eof (server.c 238-251).                                  *)
THEOREM TransferDelivers ==
    ASSUME UninitEOF = {0}
    PROVE  Spec /\ []GoesBackToFile => ImplementsDelivery
<1>1. Init => Delivery!Init
  BY DEF Init, ReceiverInit, SenderInit, Output, Delivery!Init
<1>2. AckInv /\ RingInv /\ WordInv /\ EndInv /\ GoesBackToFile /\ [Next]_vars
        => [Delivery!Next]_(Delivery!vars)
  BY StepImplements, NextAckInv, NextRingInv, NextWordInv, NextEndInv, Zenon
<1>. QED
  BY <1>1, <1>2, AckInvariant, RingInvariant, InitWordInv, NextWordInv, InitEndInv,
     NextEndInv, PTL DEF ImplementsDelivery, Spec, Delivery!Spec

(* README 29, under the same condition: what the client prints is at every    *)
(* moment a prefix of the file and its end mark, which without the condition  *)
(* it is not.                                                                 *)
THEOREM PrintsPrefix ==
    ASSUME UninitEOF = {0}
    PROVE  Spec /\ []GoesBackToFile => []PrintedIsPrefix
<1>1. AckInv /\ RingInv /\ WordInv /\ EndInv => PrintedIsPrefix
  <2>. SUFFICES ASSUME AckInv, RingInv, WordInv, EndInv PROVE PrintedIsPrefix
    BY Zenon
  <2>1. PICK n \in Nat : n = Len(printed)
    BY OutputIsWhole, Zenon
  <2>2. n <= Len(Whole) /\ \A k \in 1..n : printed[k].data = Whole[k]
    BY <2>1, OutputIsWhole, Zenon
  <2>3. Output = [k \in 1..n |-> Whole[k]]
    BY <2>1, <2>2, Zenon DEF Output
  <2>4. Len(Output) = n /\ SubSeq(Output, 1, n) = SubSeq(Whole, 1, n)
    BY <2>3
  <2>. QED  BY <2>2, <2>4, Zenon DEF PrintedIsPrefix, IsPrefix
<1>. QED
  BY <1>1, AckInvariant, RingInvariant, InitWordInv, NextWordInv, InitEndInv,
     NextEndInv, PTL DEF Spec
---------------------------------------------------------------------------
(* What comes after the words of the file. *)

(* Any step that sends and takes in no line. *)
LEMMA TailStays ==
    ASSUME TailInv, toClient' \in Seq(TailDatagram),
           UNCHANGED <<text_buffer, printed, expected_seq_num>>,
           client # "receiving" => client' # "receiving"
    PROVE  TailInv'
BY Zenon DEF TailInv, TailLine

LEMMA TransmitTail ==
    ASSUME TailInv, NEW s \in Nat, NEW buf \in Word, NEW cfg \in Config,
           s >= Len(File) => buf \in TailWords,
           Transmit(s, buf, cfg), UNCHANGED rcvVars
    PROVE  TailInv'
<1>. DEFINE last == cfg.last_pack_seq_no # -1 /\ s >= cfg.last_pack_seq_no
            seq == IF last THEN cfg.last_pack_seq_no ELSE s
            m == [type |-> IF last THEN "eof" ELSE "data", seq |-> seq, buf |-> buf]
<1>1. cfg.last_pack_seq_no \in SeqNo
  BY Zenon DEF Config
<1>2. seq \in Nat /\ (~last => seq = s)
  BY <1>1, Zenon DEF SeqNo
<1>3. m \in TailDatagram
  <2>1. m \in Datagram
    BY <1>2, Zenon DEF Datagram
  <2>. QED  BY <1>2, <2>1, Zenon DEF TailDatagram
<1>4. toClient' = Put(toClient, m)
  BY Zenon DEF Transmit
<1>. HIDE DEF m, seq, last
<1>5. toClient' \in Seq(TailDatagram)
  BY <1>3, <1>4, PutType, Zenon DEF TailInv
<1>. QED  BY <1>5, TailStays, Zenon DEF rcvVars

(* Rereading the file past its end leaves its last word in buf. *)
LEMMA RetransmitTail ==
    ASSUME AckInv, TailInv, Retransmit, UNCHANGED rcvVars PROVE TailInv'
<1>. DEFINE s == config.last_unacked_seq
            cfg == [config EXCEPT !.last_unacked_seq = -1]
<1>1. s \in Nat /\ config \in Config /\ Len(File) \in Nat
  BY SenderAssumption DEF Retransmit, AckInv, TypeOK, SenderOK, Config, SeqNo
<1>2. cfg \in Config
  BY <1>1, Zenon DEF Config, SeqNo
<1>3. Transmit(s, ReadUpTo(s), cfg)
  BY Zenon DEF Retransmit
<1>. HIDE DEF s, cfg
<1>4. ReadUpTo(s) \in Word /\ (s >= Len(File) => ReadUpTo(s) \in TailWords)
  BY <1>1, ReadUpToType DEF ReadUpTo, TailWords
<1>. QED  BY <1>1, <1>2, <1>3, <1>4, TransmitTail

(* Reading on at the end of the file leaves buf empty. *)
LEMMA SendNextTail ==
    ASSUME AckInv, WordInv, TailInv, SendNext, UNCHANGED rcvVars PROVE TailInv'
<1>1. /\ seq_num \in SeqNo /\ seq_num + 1 \in Nat /\ config \in Config
      /\ fp \in 0..Len(File) /\ Len(File) \in Nat /\ fp = Lesser(seq_num + 1, Len(File))
  BY SenderAssumption DEF AckInv, TypeOK, SenderOK, SeqNo, WordInv, Reopened
<1>2. CASE fp < Len(File)
  <2>1. ~(seq_num + 1 >= Len(File))
    BY <1>1, <1>2 DEF Lesser
  <2>2. File[fp + 1] \in Word
    BY <1>1, <1>2, SenderAssumption DEF Word
  <2>3. Transmit(seq_num + 1, File[fp + 1], config)
    BY <1>2, Zenon DEF SendNext
  <2>. QED  BY <1>1, <2>1, <2>2, <2>3, TransmitTail, Zenon
<1>3. CASE ~(fp < Len(File))
  <2>. DEFINE cfg == IF config.last_pack_seq_no = -1
                     THEN [config EXCEPT !.last_pack_seq_no = seq_num + 1]
                     ELSE config
  <2>1. cfg \in Config
    BY <1>1, Zenon DEF Config, SeqNo
  <2>2. Transmit(seq_num + 1, NoWord, cfg) /\ NoWord \in Word /\ NoWord \in TailWords
    BY <1>3, Zenon DEF SendNext, Word, TailWords
  <2>. HIDE DEF cfg
  <2>. QED  BY <1>1, <2>1, <2>2, TransmitTail
<1>. QED  BY <1>2, <1>3, Zenon

LEMMA SenderTail ==
    ASSUME AckInv, WordInv, TailInv, SenderStep PROVE TailInv'
<1>1. /\ SenderNext /\ UNCHANGED rcvVars
      /\ UNCHANGED <<text_buffer, printed, expected_seq_num, client>>
  BY Zenon DEF SenderStep, rcvVars
<1>2. seq_num \in SeqNo /\ toClient \in Seq(TailDatagram)
  BY Zenon DEF AckInv, TypeOK, SenderOK, TailInv
<1>3. CASE Retransmit \/ SendNext
  BY <1>1, <1>3, RetransmitTail, SendNextTail, Zenon
<1>4. CASE AwaitAck
  <2>. DEFINE m == [type |-> "ping", seq |-> seq_num, buf |-> NoWord]
  <2>1. m \in TailDatagram
    BY <1>2, Zenon DEF TailDatagram, Datagram
  <2>2. toClient' \in {toClient, Put(toClient, m)}
    BY <1>4, Zenon DEF AwaitAck, Probe
  <2>. HIDE DEF m
  <2>3. toClient' \in Seq(TailDatagram)
    BY <1>2, <2>1, <2>2, PutType, Zenon
  <2>. QED  BY <1>1, <2>3, TailStays, Zenon
<1>5. CASE ~(Retransmit \/ SendNext \/ AwaitAck)
  <2>1. toClient' = toClient
    BY <1>1, <1>5, Zenon
       DEF SenderNext, EndTransfer, StrayAlarm, ReceiveAck, Timeout, EarlyTimeout,
       Alarm, FastRetransmit, TimeoutInAck, udpVars
  <2>. QED  BY <1>1, <1>2, <2>1, TailStays, Zenon
<1>. QED  BY <1>3, <1>4, <1>5, Zenon

(* While the client receives, no line shows the end mark; the line that does  *)
(* is the last one that it takes in.                                          *)
LEMMA ReceiveTail ==
    ASSUME AckInv, TailInv, Receive PROVE TailInv'
<1>. DEFINE m == Head(toClient)
            e == expected_seq_num
            Tails(line) == line.seq >= Len(File) => line.data \in TailWords
<1>1. toClient \in Seq(TailDatagram) /\ toClient # <<>> /\ toClient' = Tail(toClient)
  BY Zenon DEF TailInv, Receive
<1>2. m \in TailDatagram /\ toClient' \in Seq(TailDatagram)
  BY <1>1, TailType, Zenon
<1>3. /\ text_buffer \in Ring /\ e \in Nat /\ Len(File) \in Nat /\ Rwnd \in Nat /\ Rwnd > 0
      /\ client = "receiving" /\ printed' = printed
  BY SenderAssumption, ReceiverAssumption DEF AckInv, TypeOK, ReceiverOK, Ring, Receive
<1>4. /\ \A i \in Slots : Tails(text_buffer[i])
      /\ \A k \in 1..Len(printed) : Tails(printed[k])
  BY <1>3, Zenon DEF TailInv, TailLine
<1>5. \A k \in 1..Len(printed') : TailLine(printed[k])'
  BY <1>3, <1>4, Zenon DEF TailLine
<1>6. CASE text_buffer' = text_buffer
  <2>1. \A i \in Slots : TailLine(text_buffer[i])'
    BY <1>4, <1>6, Zenon DEF TailLine
  <2>. QED  BY <1>2, <1>5, <2>1, Zenon DEF TailInv
<1>7. ASSUME NEW d, m.type \in {"data", "eof"}, m.seq = e, expected_seq_num' = e + 1,
             m.type = "eof" => d = EofMark, m.type = "data" => d = m.buf, Stores(d)
      PROVE  TailInv'
  <2>1. PICK x \in Nat : x = e
    BY <1>3, Zenon
  <2>. DEFINE line == [seq |-> x, data |-> d]
  <2>2. TailLine(line)'
    <3>1. CASE m.type = "data"
      <4>1. x >= Len(File) => d \in TailWords
        BY <1>2, <1>7, <2>1, <3>1 DEF TailDatagram
      <4>. QED  BY <4>1, Zenon DEF TailLine
    <3>2. CASE m.type = "eof"
      <4>1. client' = "draining"
        BY <1>7, <3>2, Zenon DEF Receive, EofStored
      <4>. QED  BY <1>7, <2>1, <3>2, <4>1 DEF TailLine
    <3>. QED  BY <1>7, <3>1, <3>2, Zenon
  <2>3. \A i \in Slots : text_buffer'[i] \in {line, text_buffer[i]}
    BY <1>3, <1>7, <2>1, Zenon DEF Ring, Stores
  <2>. HIDE DEF line
  <2>4. ASSUME NEW i \in Slots PROVE TailLine(text_buffer[i])'
    <3>1. CASE text_buffer'[i] = line
      BY <2>2, <3>1, Zenon DEF TailLine
    <3>2. CASE text_buffer'[i] = text_buffer[i]
      BY <1>4, <3>2, Zenon DEF TailLine
    <3>. QED  BY <2>3, <3>1, <3>2, Zenon
  <2>. QED  BY <1>2, <1>5, <2>4, Zenon DEF TailInv
<1>. QED  BY <1>6, <1>7, ReceiveOne

LEMMA PrintSlotTail ==
    ASSUME AckInv, TailInv, PrintSlot PROVE TailInv'
<1>1. /\ slot \in Slots /\ text_buffer \in Ring /\ printed \in Seq(Line)
      /\ Len(File) \in Nat
  BY SenderAssumption, ReceiverAssumption
     DEF PrintSlot, AckInv, TypeOK, ReceiverOK, Slots, Ring
<1>2. UNCHANGED <<toClient, client, expected_seq_num>>
  BY Zenon DEF PrintSlot, udpVars
<1>3. \A i \in Slots : text_buffer'[i] \in {text_buffer[i], Vacant}
  BY <1>1, Zenon DEF PrintSlot, Ring
<1>4. ASSUME NEW i \in Slots PROVE TailLine(text_buffer[i])'
  <2>1. CASE text_buffer'[i] = text_buffer[i]
    BY <1>2, <2>1, Zenon DEF TailInv, TailLine
  <2>2. CASE text_buffer'[i] = Vacant
    <3>1. ~(text_buffer'[i].seq >= Len(File))
      BY <1>1, <2>2 DEF Vacant
    <3>. QED  BY <3>1, Zenon DEF TailLine
  <2>. QED  BY <1>3, <2>1, <2>2, Zenon
<1>5. \A k \in 1..Len(printed') : TailLine(printed[k])'
  <2>1. CASE printed' = printed
    BY <1>2, <2>1, Zenon DEF TailInv, TailLine
  <2>2. CASE printed' # printed
    <3>1. printed' = Append(printed, text_buffer[slot]) /\ text_buffer[slot] \in Line
      BY <1>1, <2>2 DEF PrintSlot, Filled, Ring, Vacant
    <3>2. \A k \in 1..Len(printed') :
            \/ printed'[k] = text_buffer[slot]
            \/ k \in 1..Len(printed) /\ printed'[k] = printed[k]
      BY <1>1, <3>1
    <3>. QED  BY <1>1, <1>2, <3>2, Zenon DEF TailInv, TailLine
  <2>. QED  BY <2>1, <2>2, Zenon
<1>. QED  BY <1>2, <1>4, <1>5, Zenon DEF TailInv

LEMMA NextTailInv == AckInv /\ WordInv /\ TailInv /\ [Next]_vars => TailInv'
<1>. SUFFICES ASSUME AckInv, WordInv, TailInv, [Next]_vars PROVE TailInv'
  BY Zenon
<1>1. toClient \in Seq(TailDatagram) /\ toServer \in Seq(Ack) /\ faults \in 0..MaxFaults
  BY Zenon DEF AckInv, TypeOK, UdpOK, TailInv
<1>2. CASE SenderStep
  BY <1>2, SenderTail, Zenon
<1>3. CASE NetworkStep
  <2>1. toClient' \in Seq(TailDatagram)
    BY <1>1, <1>3, UdpStepType, Zenon DEF NetworkStep
  <2>. QED  BY <1>3, <2>1, TailStays, Zenon DEF NetworkStep, rcvVars
<1>4. CASE ToClosedSocket
  <2>1. toClient' \in Seq(TailDatagram)
    BY <1>4 DEF ToClosedSocket
  <2>. QED  BY <1>4, <2>1, TailStays, Zenon DEF ToClosedSocket, rcvVars
<1>5. CASE ReceiverStep
  <2>. USE <1>5 DEF ReceiverStep
  <2>1. CASE Receive
    BY <2>1, ReceiveTail, Zenon
  <2>2. CASE Drop
    <3>1. toClient' \in Seq(TailDatagram)
      BY <1>1, <2>2, TailType, Zenon DEF Drop
    <3>. QED  BY <2>2, <3>1, TailStays, Zenon DEF Drop, rcvVars
  <2>3. CASE ReaderLock \/ ReaderUnlock \/ Exit
    BY <1>1, <2>3, TailStays, Zenon DEF ReaderLock, ReaderUnlock, Exit, udpVars
  <2>4. CASE ReaderPrint \/ MainPrint
    BY <2>4, PrintSlotTail, Zenon DEF ReaderPrint, MainPrint
  <2>. QED  BY <2>1, <2>2, <2>3, <2>4 DEF ReceiverNext
<1>6. CASE UNCHANGED vars
  BY <1>1, <1>6, TailStays, Zenon DEF vars, rcvVars, udpVars
<1>. QED  BY <1>2, <1>3, <1>4, <1>5, <1>6, Zenon DEF Next

LEMMA InitTailInv == Init => TailInv
<1>. SUFFICES ASSUME Init PROVE TailInv
  BY Zenon
<1>1. Len(File) \in Nat
  BY SenderAssumption
<1>2. \A i \in Slots : TailLine(text_buffer[i])
  BY <1>1 DEF Init, ReceiverInit, TailLine, Vacant
<1>. QED  BY <1>2 DEF Init, UdpInit, ReceiverInit, TailInv

(* For every file, window and misbehaviour of network and timers, what the    *)
(* client prints after the words of the file repeats the last word or is      *)
(* empty, until the end mark, after which it takes in and prints no more      *)
(* (server.c 238-281, client.c 313-337).                                      *)
THEOREM TailPrinted == ASSUME UninitEOF = {0} PROVE Spec => []PrintedTail
<1>1. AckInv /\ RingInv /\ TailInv => PrintedTail
  <2>. SUFFICES ASSUME AckInv, RingInv, TailInv, NEW k \in (Len(File) + 1)..Len(printed)
                PROVE  \/ printed[k].data \in TailWords
                       \/ /\ printed[k].data = EofMark
                          /\ k = Len(printed) /\ k = expected_seq_num
                          /\ client # "receiving"
    BY Zenon DEF PrintedTail
  <2>1. PICK n \in Nat, p \in Nat, e \in Nat :
            n = Len(File) /\ p = Len(printed) /\ e = expected_seq_num
    BY SenderAssumption DEF AckInv, TypeOK, ReceiverOK
  <2>2. k \in 1..p /\ k - 1 >= n /\ p <= e /\ (k - 1) + 1 = k
    BY <2>1, ReceiverAssumption DEF RingInv
  <2>3. printed[k].seq = k - 1 /\ TailLine(printed[k])
    BY <2>1, <2>2, Zenon DEF RingInv, PrintedInOrder, TailInv
  <2>4. printed[k].data \in TailWords
        \/ (printed[k].data = EofMark /\ k = e /\ client # "receiving")
    BY <2>1, <2>2, <2>3, Zenon DEF TailLine
  <2>. QED  BY <2>1, <2>2, <2>4
<1>. QED
  BY <1>1, AckInvariant, RingInvariant, InitWordInv, NextWordInv, InitTailInv,
     NextTailInv, PTL DEF Spec
=============================================================================
