CONSTANTS
    Secure = {43, 81}
    NonSecure = {54}
    Prio <- EqualPrio
    Calls = {"read"}
    Versions = {1, 2}
    Vals <- MCVals
    RegFiles <- MCRegFiles
    Scratch = Scratch
    Mmio0 <- MCMmio0
SPECIFICATION FairTick
INVARIANTS TypeOK StackBalanced MonitorConsistent DispatchIsCurrent EoiInOrder SecureInterruptsCompleted
PROPERTIES WorldsIsolated SecureResumes NonSecureResumes
