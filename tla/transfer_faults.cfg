SPECIFICATION Spec
CONSTANTS
  w1 = w1  w2 = w2  w3 = w3  w4 = w4  w5 = w5  w6 = w6
  NoWord = NoWord  EofMark = EofMark
  File <- Words3
  ServRwnd = 2  Rwnd = 2  IntMax = 7  ChanCap = 3
  DupAcks = 2  RTT_MAXNREXMT = 2  UninitEOF = {0}
  Faults = {"lose_data", "duplicate_data", "reorder_data", "lose_ack", "duplicate_ack", "reorder_ack", "early_timeout", "racing_timeout", "stray_alarm"}
  MaxFaults = 3
INVARIANTS TypeOK PrintedInOrder RingHoldsUnprinted PrintedWords PrintedTail DoneMeansReceived
CHECK_DEADLOCK FALSE
