SPECIFICATION Spec
CONSTANTS
    GapSize = 1
    LockSize = 1
    LowSize = 4
    CoverSize = 1
    UmbSize = 2
    EnvSize = 1
    Needs <- MCNeeds
    Sizes = {0, 1, 2}
    Settable <- MCSettable
    MaxDepth = 2
    MaxResident = 1
    MaxHeaders = 8
INVARIANTS ChainsWhole NothingLeaks PrefixKept ExecNeverExits
PROPERTIES ArenaSpec
