SPECIFICATION FairSpec
CONSTANTS
    CycleMax = 3
    QueueSize = 3
    CycleHack = 1
    Stretch = 2
    Delays = {1, 4}
    MaxRemain = 1
    MaxBehind = 2
    MaxPrograms = 1
INVARIANTS TypeOK NoneLate TimerArmed NotFasterThanHost
PROPERTIES TimeForward EventsServed
