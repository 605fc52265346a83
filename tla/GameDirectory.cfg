SPECIFICATION Spec
CONSTANTS
    CkitExe = CkitExe
    f1 = f1
    heirs = heirs
    hos1 = hos1
    Ckit = CkitExe
    DiskFiles <- MCDiskFiles
    Designs <- MCDesigns
    First = heirs
    Bundled <- MCBundled
    Replaces <- MCReplaces
    MaxTasks = 4
    MaxCrashes = 1
    MaxSpared = 1
    Manual = TRUE
    Faults = TRUE
    MaxOverlap = 2
INVARIANTS RestoredExact DefaultPristine InstallAllOrNothing
\* The user may stop starting tasks.
CHECK_DEADLOCK FALSE
