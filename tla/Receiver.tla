----------------------------- MODULE Receiver -----------------------------
(***************************************************************************)
(* The client of hw2 after create_new_connection has announced itself      *)
(* (client.c): the main thread stores in-order datagrams in a ring of Rwnd *)
(* slots and acknowledges every one it keeps or refuses; the reader thread *)
(* prints the ring.  Both hold the mutex while they touch the ring.  On    *)
(* eof main leaves its loop without unlocking, prints the ring once and    *)
(* ends the process.                                                       *)
(***************************************************************************)
EXTENDS Udp

CONSTANTS
    Rwnd,        \* slots of text_buffer, from client.in
    EofMark      \* "End of File!", stored for the eof datagram

VARIABLES
    client,             \* "receiving", "draining", "exited"
    mutex,              \* "free", "main" or "reader"
    slot,               \* loop index of whoever prints the ring
    expected_seq_num,   \* next sequence number wanted
    text_buffer,        \* the ring
    printed             \* the "FileData" lines written so far

rcvVars == <<client, mutex, slot, expected_seq_num, text_buffer, printed>>

ASSUME ReceiverAssumption == Rwnd \in Nat \ {0}

Slots == 0..(Rwnd - 1)

(* seq is -1 where is_filled is. *)
Vacant == [seq |-> -1, data |-> NoWord]

Filled(ring, i) == ring[i].seq # -1

ReceiverInit ==
    /\ client = "receiving" /\ mutex = "free" /\ slot = 0
    /\ expected_seq_num = 0
    /\ text_buffer = [i \in Slots |-> Vacant]
    /\ printed = <<>>

---------------------------------------------------------------------------
ispresent(ring, s) == \E i \in Slots : Filled(ring, i) /\ ring[i].seq = s

(* Mutant: the scan starts at the beginning of the array. *)
first_slot(ring) == 0

(* The slot that holds the smallest sequence number, 0 if all are vacant. *)
min_seq_num(ring) ==
    IF \E i \in Slots : Filled(ring, i)
    THEN CHOOSE i \in Slots :
            /\ Filled(ring, i)
            /\ \A j \in Slots : Filled(ring, j) => ring[i].seq <= ring[j].seq
    ELSE 0

get_window_size(ring) == Cardinality({i \in Slots : ~Filled(ring, i)})

(* Mutant: a slot not yet printed is overwritten. *)
push_over(ring, data, seq) ==
    IF seq = expected_seq_num
    THEN [ring EXCEPT ![seq % Rwnd] = [seq |-> seq, data |-> data]]
    ELSE ring

(* Only the datagram expected next is stored, and only in a vacant slot. *)
push_data_to_buffer(ring, data, seq) ==
    IF ~Filled(ring, seq % Rwnd) /\ seq = expected_seq_num
    THEN [ring EXCEPT ![seq % Rwnd] = [seq |-> seq, data |-> data]]
    ELSE ring

(* The first number from s on that is not in the ring. *)
update_expected_seq_num(ring, s) ==
    CHOOSE e \in s..(s + Rwnd) :
        ~ispresent(ring, e) /\ \A k \in s..(e - 1) : ispresent(ring, k)

(* Mutant: any eof ends the client, stored or not. *)
EofSeen(m, expected) == m.type = "eof"

(* Mutant: the number of the eof is compared before it is counted. *)
EofCounted(m, expected) == m.type = "eof" /\ m.seq = expected

EofStored(m, expected) == m.type = "eof" /\ m.seq + 1 = expected

(* drop_packet simulates the loss of a datagram. *)
Drop ==
    /\ client = "receiving"
    /\ "lose_data" \in Faults /\ faults < MaxFaults
    /\ toClient # <<>>
    /\ toClient' = Tail(toClient)
    /\ faults' = faults + 1
    /\ UNCHANGED <<toServer, rcvVars>>

Receive ==
    /\ client = "receiving" /\ mutex = "free"
    /\ toClient # <<>>
    /\ toClient' = Tail(toClient)
    /\ LET m == Head(toClient)
           ring == CASE m.type = "data" -> push_data_to_buffer(text_buffer, m.buf, m.seq)
                     [] m.type = "eof" -> push_data_to_buffer(text_buffer, EofMark, m.seq)
                     [] m.type = "ping" -> text_buffer
           expected == update_expected_seq_num(ring, expected_seq_num)
           over == EofStored(m, expected)
       IN  /\ text_buffer' = ring
           /\ expected_seq_num' = expected
           /\ toServer' = Put(toServer, [seq |-> expected,
                                         rwnd |-> get_window_size(ring)])
           /\ client' = IF over THEN "draining" ELSE client
           /\ mutex' = IF over THEN "main" ELSE mutex
           /\ slot' = IF over THEN min_seq_num(ring) ELSE slot
    /\ UNCHANGED <<printed, faults>>

(* One iteration of the loop that prints the ring from the oldest slot to    *)
(* the end of the array; it does not go on at index 0.                       *)
PrintSlot ==
    /\ slot < Rwnd
    /\ printed' = IF Filled(text_buffer, slot)
                  THEN Append(printed, text_buffer[slot]) ELSE printed
    /\ text_buffer' = [text_buffer EXCEPT ![slot] = Vacant]
    /\ slot' = slot + 1
    /\ UNCHANGED <<client, mutex, expected_seq_num, udpVars>>

ReaderLock ==
    /\ client # "exited" /\ mutex = "free"
    /\ mutex' = "reader"
    /\ slot' = min_seq_num(text_buffer)
    /\ UNCHANGED <<client, expected_seq_num, text_buffer, printed, udpVars>>

ReaderPrint == mutex = "reader" /\ PrintSlot

(* is_EOF is still 0 here: it is set while main holds the mutex for good. *)
ReaderUnlock ==
    /\ mutex = "reader" /\ slot = Rwnd
    /\ mutex' = "free" /\ slot' = 0
    /\ UNCHANGED <<client, expected_seq_num, text_buffer, printed, udpVars>>

MainPrint == client = "draining" /\ PrintSlot

Exit ==
    /\ client = "draining" /\ slot = Rwnd
    /\ client' = "exited"
    /\ UNCHANGED <<mutex, slot, expected_seq_num, text_buffer, printed, udpVars>>

ReceiverNext ==
    \/ Receive \/ Drop \/ ReaderLock \/ ReaderPrint \/ ReaderUnlock
    \/ MainPrint \/ Exit
=============================================================================
