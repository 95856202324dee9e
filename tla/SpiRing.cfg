SPECIFICATION FairSpec
CHECK_DEADLOCK FALSE
CONSTANTS
    RxBuffSize = 3
    RxThres = 2
    FifoDepth = 3
    MaxBytes = 6
INVARIANTS
    TypeOK
    NoUnderflow
    BytesInOrder
PROPERTIES
    RingIsQueue
    FullFifoDrained
