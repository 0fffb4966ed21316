SPECIFICATION Spec
CONSTANTS
    a = a
    b = b
    NoFrame = NoFrame
    Frames <- MCFrames
    Packets = 2
    Sessions = {{"frames"}, {"scripts"}}
    Polls = {"main", "script"}
INVARIANT DumpWhole
INVARIANT WriterOwns
INVARIANT ScriptWhole
INVARIANT Stoppable
CHECK_DEADLOCK FALSE
PROPERTY PreviewSpec
PROPERTY OrphanedByJump
PROPERTY LinkComesBack
PROPERTY UploadRuns
PROPERTY EndIsTold
