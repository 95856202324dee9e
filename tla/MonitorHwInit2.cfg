CONSTANTS
    Secure = {43}
    NonSecure = {69}
    Prio <- HwInit2Prio
    Calls = {"read", "write", "other", "unknown"}
    Versions = {1, 2}
    Vals <- MCVals
    RegFiles <- MCRegFiles
    Scratch = Scratch
    Mmio0 <- MCMmio0
SPECIFICATION Spec
PROPERTIES WorldsIsolated
CHECK_DEADLOCK FALSE
