SPECIFICATION Spec
CONSTANTS
    Ints <- MCInts
    Boots <- MCBoots
    LaterCalls <- MCLaterCalls
    NsInts <- MCNsInts
    Prios = {14, 896}
INVARIANTS
    SecureInterruptsReady
    SettledBelowSecure
