SPECIFICATION FairSpec
CONSTANTS
    N = 2
    PQ_QUEUE_SIZE = 2
    Mbox = 1
    Pbufs <- MCEnough
    Null = 0
    MaxFrames = 5
INVARIANTS
    TypeOK
    RingConsistent
    PbufsOwnedOnce
    FramesInOrder
    NoPacketStranded
PROPERTIES
    QueueDrains
CHECK_DEADLOCK FALSE
