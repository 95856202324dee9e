SPECIFICATION Spec
CONSTANTS
    Tasks = {"main_thrd", "heartbeat"}
    NoTask = NoTask
    Tick = "ttc1_2"
    Irqs = {"ttc1_2", "emac0"}
    Requested <- MCProgrammed
    MaxApi = 10
    MaxDepth = 1
INVARIANTS
    KernelDataExclusive
