SPECIFICATION Spec
CONSTANTS
    hi = hi
    a = a
    idle = idle
    NoMsg = NoMsg
    Threads <- TwoThreads
    Idle = idle
    Prios <- MCPrios
    BasePrio <- TwoPrios
    IpcFlags = {"FIFO"}
    Msgs = {m1, m2, u}
    Urgent = {u}
    Size = 2
    Destroys = TRUE
PROPERTY IsUrgentQueue
INVARIANT NodesOnce
INVARIANT NoLostWakeup
