SPECIFICATION FbSpec
CONSTANTS
    Words = 9
    OverlayWords = 3
    Base = 16
    Sizes <- MCSizes
    WordWrap <- MCWordWrap
    AllHints <- MCBothHints
    AllWhenFull = TRUE
    HardJumps = FALSE
    MaxOverlay = 5
INVARIANT AllocHasRoom
