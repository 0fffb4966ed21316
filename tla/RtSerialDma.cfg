SPECIFICATION Spec
CONSTANTS
    a = a
    b = b
    idle = idle
    Threads <- MCThreads
    Idle = idle
    Prios <- MCPrios
    BasePrio <- MCBase
    IpcFlags = {"FIFO"}
    Size = 2
    Lwm = 1
    IndexMod = 4
    Uses = {"serial", "plain"}
INVARIANT NoLostWakeup
INVARIANT SentInTurn
INVARIANT NeverStalls
INVARIANT ListsSound
PROPERTY OverrunByWrap
PROPERTY WriterGoesOn
