CONSTANTS
    Numbers <- MCNumbers
    Conversions <- MCConversions
    Threads = {"t1", "t2"}
    Depth = 2
    MaxLines = 2
    MaxBytes = 1
SPECIFICATION FairSpec
INVARIANTS SecureLinesWhole
PROPERTIES LossNeedsOvertaking PrintkReturns
CHECK_DEADLOCK FALSE
