SPECIFICATION Spec
CONSTANTS
  w1 = w1  w2 = w2  w3 = w3  w4 = w4  w5 = w5  w6 = w6
  NoWord = NoWord  EofMark = EofMark
  File <- Words4
  ServRwnd = 3  Rwnd = 3  IntMax = 127  ChanCap = 3
  DupAcks = 3  RTT_MAXNREXMT = 12  UninitEOF = {0}
  Faults = {}
  MaxFaults = 0
INVARIANT AllPrintedAtExit
CHECK_DEADLOCK FALSE
