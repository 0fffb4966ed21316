SPECIFICATION Spec
CONSTANTS
    hi = hi
    a = a
    idle = idle
    NoMail = NoMail
    Threads <- TwoThreads
    Idle = idle
    Prios <- MCPrios
    BasePrio <- TwoPrios
    IpcFlags = {"FIFO"}
    Mails = {m1, m2}
    Size = 2
    Destroys = TRUE
PROPERTY IsFifo
INVARIANT NoLostWakeup
