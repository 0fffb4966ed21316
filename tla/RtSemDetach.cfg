SPECIFICATION Spec
CONSTANTS
    hi = hi
    a = a
    b = b
    idle = idle
    Threads <- MCThreads
    Idle = idle
    Prios <- MCPrios
    BasePrio <- MCBasePrio
    InitValues <- MCInitValues
    IpcFlags = {"PRIO"}
    ValueWrap = 3
    Destroys = TRUE
INVARIANT ResumesThreads
