SPECIFICATION Spec
CONSTANTS
    MaxActivities = 2
    Sound = FALSE
INVARIANTS NoProcessReuse
\* The process ends.
CHECK_DEADLOCK FALSE
