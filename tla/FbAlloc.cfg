SPECIFICATION FbFairSpec
CONSTANTS
    Words = 7
    OverlayWords = 2
    Base = 16
    Sizes <- MCSizes
    WordWrap <- MCWordWrap
    AllHints <- MCBothHints
    AllWhenFull = FALSE
    HardJumps = TRUE
    MaxOverlay = 3
INVARIANT StackTiled
INVARIANT OverlayBalanced
PROPERTY PermanentKept
PROPERTY BracketRestores
PROPERTY PopLoopEnds
