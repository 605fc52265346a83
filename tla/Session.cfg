SPECIFICATION FairSpec
CONSTANTS
    MaxActivities = 2
    Sound = TRUE
INVARIANTS NoVideoAfterShutdown CrashOnlyAtExit
PROPERTIES ExitKills PauseSuspends
\* The process ends.
CHECK_DEADLOCK FALSE
