SPECIFICATION Spec
CONSTANTS
    hi = hi
    a = a
    idle = idle
    Threads <- TwoThreads
    Idle = idle
    Prios <- MCPrios
    BasePrio <- TwoPrios
    IpcFlags = {"FIFO"}
    Flags = {f, g}
    Destroys = TRUE
INVARIANT NoneSatisfiedWaits
INVARIANT AnswersRequest
PROPERTY ClearedOnce
