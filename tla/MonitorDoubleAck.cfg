CONSTANTS
    Secure = {43, 81}
    NonSecure = {54, 70}
    Prio <- ZedboardPrio
    Calls = {}
    Versions = {1, 2}
    Vals <- MCVals
    RegFiles <- MCRegFiles
    Scratch = Scratch
    Mmio0 <- MCMmio0
SPECIFICATION Spec
INVARIANTS SecureInterruptsCompleted
