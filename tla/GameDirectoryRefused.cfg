SPECIFICATION Spec
CONSTANTS
    CkitExe = CkitExe
    f1 = f1
    heirs = heirs
    hos1 = hos1
    Ckit = CkitExe
    DiskFiles <- MCDiskFiles
    Designs <- MCDesigns
    First = heirs
    Bundled <- MCBundled
    Replaces <- MCReplaces
    MaxTasks = 1
    MaxCrashes = 0
    MaxSpared = 0
    Manual = TRUE
    Faults = FALSE
    MaxOverlap = 0
PROPERTIES RefusedKeepsFiles
\* The user may stop starting tasks.
CHECK_DEADLOCK FALSE
