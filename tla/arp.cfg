SPECIFICATION FairSpec
CONSTANTS
    n1 = n1
    n2 = n2
    x1 = x1
    Nodes = {n1, n2}
    Absent = {x1}
    NoMac = NoMac
    NumEntries = 3
    MaxCalls = 2
    MaxLost = 2
INVARIANTS TypeOK CacheSound NeverOverruns WaiterAsked AnswersMatch ZeroOnlyRepeated
PROPERTIES LearnedForGood Resolves
CHECK_DEADLOCK FALSE
