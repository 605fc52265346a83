SPECIFICATION FairSpec
CONSTANTS
    LineCount = 2
    MaxModes = 2
    MaxFrames = 2
    MaxSurfaces = 3
INVARIANTS NoLostLine
PROPERTIES Repainted
\* The emulator may stop sending frames and the view then has nothing to do.
CHECK_DEADLOCK FALSE
