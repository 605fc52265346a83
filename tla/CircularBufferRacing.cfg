SPECIFICATION FairSpec
CONSTANTS
    Capacity = 2
    MaxPuts = 4
    Racing = TRUE
    InOrderStores = FALSE
    MayReload = TRUE
INVARIANTS TypeOK IndicesInStep NoSurplus NeverStale
PROPERTIES Consumed DrainEnds
\* The user stops touching the screen after MaxPuts events.
CHECK_DEADLOCK FALSE
