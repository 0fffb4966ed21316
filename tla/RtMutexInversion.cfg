SPECIFICATION FairSpec
CONSTANTS
    hi = hi
    mid = mid
    lo = lo
    idle = idle
    None = None
    Threads <- ThreeThreads
    Idle = idle
    Users = {hi, lo}
    Prios <- MCPrios
    BasePrio <- ThreePrios
    IpcFlags = {"PRIO"}
    Mutexes = {x}
    MaxHold = 1
    Destroys = FALSE
PROPERTY InversionBounded
