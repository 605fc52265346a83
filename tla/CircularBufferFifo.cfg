SPECIFICATION Spec
CONSTANTS
    Capacity = 2
    MaxPuts = 4
    Racing = TRUE
    InOrderStores = TRUE
    MayReload = FALSE
INVARIANTS Fifo
\* The user stops touching the screen after MaxPuts events.
CHECK_DEADLOCK FALSE
