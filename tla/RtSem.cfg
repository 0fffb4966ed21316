SPECIFICATION FairSpec
CONSTANTS
    hi = hi
    a = a
    b = b
    idle = idle
    Threads <- MCThreads
    Idle = idle
    Prios <- MCPrios
    BasePrio <- MCBasePrio
    InitValues <- MCInitValues
    IpcFlags = {"FIFO", "PRIO"}
    ValueWrap = 3
    Destroys = TRUE
INVARIANT TokensConserved
INVARIANT WaitersMeanZero
INVARIANT ServedInOrder
INVARIANT UrgentRuns
INVARIANT ListsSound
PROPERTY TimedWaitEnds
