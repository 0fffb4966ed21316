SPECIFICATION Spec
CONSTANTS
    hi = hi
    mid = mid
    lo = lo
    idle = idle
    None = None
    Threads <- ThreeThreads
    Idle = idle
    Users = {hi, mid, lo}
    Prios <- MCPrios
    BasePrio <- ThreePrios
    IpcFlags = {"FIFO", "PRIO"}
    Mutexes = {x}
    MaxHold = 2
    Destroys = TRUE
INVARIANT HoldersOwn
INVARIANT Inheritance
INVARIANT PriorityRestored
INVARIANT UrgentRuns
INVARIANT ListsSound
