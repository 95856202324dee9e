SPECIFICATION Spec
CONSTANTS
    Timers <- MCTimers
    Times <- MCTimes
INVARIANTS
    TypeOK
    NeverEarly
PROPERTIES
    RefusalKeepsPeriod
