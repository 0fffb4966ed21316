SPECIFICATION Spec
CONSTANTS
    hi = hi
    mid = mid
    lo = lo
    idle = idle
    None = None
    Threads <- TwoThreads
    Idle = idle
    Users = {hi, lo}
    Prios <- MCPrios
    BasePrio <- TwoPrios
    IpcFlags = {"PRIO"}
    Mutexes = {x, y}
    MaxHold = 1
    Destroys = FALSE
INVARIANT PriorityRestored
