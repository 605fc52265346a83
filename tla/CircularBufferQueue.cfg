SPECIFICATION Spec
CONSTANTS
    Capacity = 3
    MaxPuts = 8
    Racing = FALSE
    InOrderStores = TRUE
    MayReload = TRUE
PROPERTIES IsFifoQueue
\* The user stops touching the screen after MaxPuts events.
CHECK_DEADLOCK FALSE
