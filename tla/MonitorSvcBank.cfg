CONSTANTS
    Secure = {70}
    NonSecure = {82}
    Prio <- TickPrio
    Calls = {}
    Versions = {1, 2}
    Vals <- MCVals
    RegFiles <- MCRegFiles
    Scratch = Scratch
    Mmio0 <- MCMmio0
SPECIFICATION Spec
INVARIANTS SecureSvcBankIsOwn
