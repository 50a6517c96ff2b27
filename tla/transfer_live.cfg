SPECIFICATION FairSpec
CONSTANTS
  w1 = w1  w2 = w2  w3 = w3  w4 = w4  w5 = w5  w6 = w6
  NoWord = NoWord  EofMark = EofMark
  File <- Words6
  ServRwnd = 4  Rwnd = 4  IntMax = 7  ChanCap = 6
  DupAcks = 3  RTT_MAXNREXMT = 12  UninitEOF = {0}
  Faults = {"lose_data", "duplicate_data", "reorder_data"}
  MaxFaults = 2
INVARIANT GoesBackToFile
PROPERTIES ImplementsDelivery Completes
CHECK_DEADLOCK FALSE
