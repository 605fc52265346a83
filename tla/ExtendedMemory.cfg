SPECIFICATION Spec
CONSTANTS
    LastPage = 4
    XmsHandles = 2
    EmsHandles = 1
    Frames = {1}
    PerEmsPage = 2
    SystemPages = 1
    MaxLocks = 1
    XmsSizes = {0, 1, 2}
    EmsSizes = {0, 1, 2}
    MaxKept = 1
INVARIANTS ChainsApart XmsConsecutive WindowShowsTable
PROPERTIES ExitOnlyEmpty
\* After E_Exit, or once the allocator's data is past describing, nothing follows.
CHECK_DEADLOCK FALSE
