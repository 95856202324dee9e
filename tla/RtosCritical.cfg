SPECIFICATION FairSpec
CONSTANTS
    Tasks = {"main_thrd", "heartbeat"}
    NoTask = NoTask
    Tick = "ttc1_2"
    Irqs = {"ttc1_2", "emac0"}
    Requested <- MCMaskable
    MaxApi = 10
    MaxDepth = 2
INVARIANTS
    TypeOK
    KernelDataExclusive
    TickFindsUnmasked
    NestingKept
    MaskFollowsNesting
PROPERTIES
    SwitchLeavesNoHandler
    SwitchHappens
