--------------------------- MODULE GameDirectory ----------------------------
(***************************************************************************)
(* The FRUA directory and the background tasks that change it: InstallTask *)
(* (unpack, validate, apply a first design, add modules), SwitchModuleTask *)
(* (keep the original files in default.dsn, put them back, put a design's  *)
(* files over them) and AddModuleTask.  A task can be cancelled with Back, *)
(* fail on a write, or die with the process; a file it was writing is then *)
(* torn.  The file system and the AsyncTask executor are Android's.        *)
(***************************************************************************)
EXTENDS Naturals, FiniteSets

CONSTANTS Ckit,         \* ckit.exe, which is copied first
          DiskFiles,    \* the files of disk1, disk2 and disk3 a design may replace
          Designs,      \* the .dsn directories other than default.dsn
          First,        \* HEIRS.DSN, which is in the archive
          Bundled,      \* modules InstallTask adds
          Replaces,     \* for each design, the files it has a version of
          MaxTasks,     \* bound: tasks the user starts
          MaxCrashes,   \* bound: how often the process dies
          MaxSpared,    \* bound: entries one clean-up cannot delete
          Manual,       \* the directory may hold a copy of FRUA installed by other means
          Faults,       \* a read, a write or a deletion may fail
          MaxOverlap    \* bound: tasks that may start while a cancelled one still runs are
                        \* the first MaxOverlap ones

ASSUME FilesAssumption == Ckit \notin DiskFiles /\ IsFiniteSet(DiskFiles)
ASSUME DesignsAssumption == First \in Designs /\ Bundled \subseteq Designs \ {First}
ASSUME NamesAssumption ==
    /\ (DiskFiles \cup {Ckit}) \cap Designs = {}
    /\ (DiskFiles \cup {Ckit} \cup Designs)
           \cap {"nothing", "none", "absent", "torn", "orig", "settings", "default", "start"} = {}
ASSUME ReplacesAssumption == Replaces \in [Designs -> SUBSET (DiskFiles \cup {Ckit})]
ASSUME BoundsAssumption == {MaxTasks, MaxCrashes, MaxSpared, MaxOverlap} \subseteq Nat
ASSUME FlagsAssumption == {Manual, Faults} \subseteq BOOLEAN

Files    == DiskFiles \cup {Ckit}
Tasks    == 1 .. MaxTasks
Contents == {"absent", "torn", "orig"} \cup Designs

VARIABLES
    disk,          \* ckit.exe and the files of the disks
    default,       \* the copies in default.dsn (panic.xxx is that of ckit.exe)
    module,        \* the .dsn directories: "absent", "partial" or "whole"
    start,         \* the design start.dat names, "absent" without start.dat and start.bat
    installed,     \* the flag that enables the module list and the "add" entry
    pc, kind, arg, \* each task: place, what it is, the design it applies or adds
    todo, writing, \* ... what it still has to write or delete; the file it is writing
    cancelled,     \* ... the user pressed Back: its thread is interrupted
    started,       \* tasks started so far
    active,        \* the design the last install or switch reported as applied, until the next
    refused,       \* the last task is an install that refused a directory that is not empty
    crashes,
    spared,        \* what the clean-up of the last install could not delete
    alone,         \* history: no other thread in the directory since the last install or switch began
    orderly        \* history: since the directory was last empty every task was alone in it,
                   \* none was killed, and no clean-up failed

dir  == <<disk, default, module, start>>
task == <<kind, arg, cancelled, started, crashes, spared, alone>>
vars == <<dir, installed, pc, task, todo, writing, active, refused, orderly>>

Ended   == {"done", "failed"}
Copying == {"unpack", "backup", "restore", "override"}
Running == Copying \cup {"check", "validate", "apply", "applied", "unzip"}
Places  == Ended \cup Running \cup {"clean"}
Items   == Files \cup Designs \cup {"default", "start"}

TypeOK ==
    /\ disk \in [Files -> Contents] /\ default \in [Files -> Contents]
    /\ module \in [Designs -> {"absent", "partial", "whole"}]
    /\ start \in {"absent", "settings", "default"} \cup Designs /\ installed \in BOOLEAN
    /\ pc \in [Tasks -> Places] /\ kind \in [Tasks -> {"none", "install", "switch", "add"}]
    /\ arg \in [Tasks -> {"none", "default"} \cup Designs]
    /\ todo \in [Tasks -> SUBSET Items]
    /\ writing \in [Tasks -> {"nothing"} \cup Files \cup Designs]
    /\ cancelled \in [Tasks -> BOOLEAN]
    /\ started \in 0 .. MaxTasks /\ crashes \in 0 .. MaxCrashes
    /\ active \in {"none", "default"} \cup Designs
    /\ refused \in BOOLEAN /\ spared \subseteq Items
    /\ alone \in BOOLEAN /\ orderly \in BOOLEAN

Empty == /\ disk = [f \in Files |-> "absent"] /\ default = [f \in Files |-> "absent"]
         /\ module = [d \in Designs |-> "absent"] /\ start = "absent"

Present   == {f \in Files : disk[f] # "absent"}
Kept      == {f \in Files : default[f] # "absent"}
NoDefault == \A f \in Files : default[f] = "absent"

\* A directory that was filled by hand has no default.dsn yet, and any modules.
FilledByHand == /\ disk = [f \in Files |-> "orig"] /\ default = [f \in Files |-> "absent"]
                /\ module \in [Designs -> {"absent", "whole"}]
                /\ module[First] = "whole" /\ start = First

Init ==
    /\ Empty \/ (Manual /\ FilledByHand)
    /\ installed = (start # "absent")
    /\ pc = [t \in Tasks |-> "done"] /\ kind = [t \in Tasks |-> "none"]
    /\ arg = [t \in Tasks |-> "none"]
    /\ todo = [t \in Tasks |-> {}] /\ writing = [t \in Tasks |-> "nothing"]
    /\ cancelled = [t \in Tasks |-> FALSE]
    /\ started = 0 /\ active = "none" /\ refused = FALSE /\ crashes = 0
    /\ spared = {} /\ alone = TRUE /\ orderly = Empty

-----------------------------------------------------------------------------
(* The user and the system *)

\* A running task shows a dialog that covers everything; Back cancels the task and
\* closes the dialog, the task's thread runs on (targetSdkVersion 11: tasks run in parallel).
NobodyIn == \A t \in Tasks : pc[t] \in Ended
MayStart == NobodyIn \/ (started < MaxOverlap /\ \A t \in Tasks : pc[t] \in Ended \/ cancelled[t])

\* The next task is new, and those that have ended are forgotten.
Fresh(v, new, ended) ==
    [t \in Tasks |-> IF t = started + 1 THEN new ELSE IF pc[t] \in Ended THEN ended ELSE v[t]]

Start(k, d) ==
    /\ MayStart /\ started < MaxTasks
    /\ started' = started + 1
    /\ kind' = Fresh(kind, k, "none") /\ arg' = Fresh(arg, d, "none")
    /\ pc' = Fresh(pc, IF k = "switch" THEN "apply" ELSE "check", "done")
    /\ cancelled' = Fresh(cancelled, FALSE, FALSE)
    /\ active' = IF k = "add" THEN active ELSE "none"
    /\ refused' = FALSE /\ spared' = {}
    /\ alone' = (NobodyIn /\ (k = "add" => alone)) /\ orderly' = (orderly /\ NobodyIn)
    /\ UNCHANGED <<dir, installed, todo, writing, crashes>>

StartInstall == Start("install", First)
StartSwitch ==
    /\ installed
    /\ \/ \E d \in Designs : module[d] # "absent" /\ Start("switch", d)
       \/ ~NoDefault /\ Start("switch", "default")
StartAdd == installed /\ \E d \in Designs \ {First} : Start("add", d)

\* AsyncTask.cancel(true) interrupts the thread, which notices at its next check.
Back(t) ==
    /\ pc[t] \notin Ended /\ ~cancelled[t]
    /\ cancelled' = [cancelled EXCEPT ![t] = TRUE]
    /\ UNCHANGED <<dir, installed, pc, kind, arg, todo, writing, started, active, refused, crashes,
                   spared, alone, orderly>>

\* onResume, or the options menu, looks for start.bat.
UpdateInstalledState ==
    /\ installed # (start # "absent")
    /\ installed' = (start # "absent")
    /\ UNCHANGED <<dir, pc, task, todo, writing, active, refused, orderly>>

Crash ==
    /\ crashes < MaxCrashes
    /\ crashes' = crashes + 1
    /\ pc' = [t \in Tasks |-> IF pc[t] \in Ended THEN pc[t] ELSE "failed"]
    /\ todo' = [t \in Tasks |-> {}] /\ writing' = [t \in Tasks |-> "nothing"]
    /\ installed' = (start # "absent") /\ refused' = FALSE
    /\ spared' = IF NobodyIn THEN spared ELSE Items
    /\ orderly' = (orderly /\ NobodyIn)
    /\ UNCHANGED <<dir, kind, arg, cancelled, started, active, alone>>

-----------------------------------------------------------------------------
(* What stops a task *)

\* A copy in default.dsn and that of panic.xxx begin without a look at the interrupt flag.
Unchecked(t) == \/ pc[t] = "backup" /\ todo[t] # {}
                \/ pc[t] = "restore" /\ Ckit \in todo[t]

\* Between two files a loop checks the flag; a copy through a FileChannel is closed by it,
\* a table and a module check it at every line and entry; an unpacked file is finished first.
InterruptSeen(t) ==
    cancelled[t] /\ IF writing[t] = "nothing" THEN ~Unchecked(t) ELSE pc[t] # "unpack"

Valid == start # "absent" /\ \A f \in Files : disk[f] = "orig"

\* A copy back or over needs its source and an existing target; start.dat is only rewritten.
Source(t) == IF pc[t] = "restore" THEN {f \in Files : default[f] # "absent"}
             ELSE IF module[arg[t]] = "absent" THEN {} ELSE Files
Replaceable(t, f) == f \in Source(t) /\ disk[f] # "absent"
Nameable  == start # "absent"
Exists(a) == IF a = "default" THEN ~NoDefault ELSE module[a] # "absent"

\* A look at the directory that ends in an exception.
Obstacle(t) ==
    \/ pc[t] = "check" /\ kind[t] = "install" /\ Empty   \* an archive of an unknown source
    \/ pc[t] = "check" /\ kind[t] = "add" /\ module[arg[t]] # "absent"
    \/ pc[t] = "validate" /\ ~Valid
    \/ pc[t] = "apply" /\ (disk[Ckit] = "absent" \/ ~Exists(arg[t]))
    \/ pc[t] = "backup" /\ \E f \in todo[t] : disk[f] = "absent"
    \/ pc[t] \in {"restore", "override"} /\ \E f \in todo[t] : ~Replaceable(t, f)
    \/ pc[t] \in {"restore", "override"} /\ todo[t] = {} /\ ~Nameable
    \/ pc[t] \in {"override", "applied"} /\ ~Exists(arg[t])   \* listFiles, checkSaveDir
    \/ pc[t] = "unzip" /\ writing[t] = "nothing" /\ \E d \in todo[t] : module[d] # "absent"

\* Only an install cleans up; a module added in part stays.
AfterThrowKeeps(t) == "failed"   \* mutant: no clean()
AfterThrow(t) == IF kind[t] = "install" THEN "clean" ELSE "failed"
Entries == Present \cup {d \in Designs : module[d] # "absent"}
             \cup (IF NoDefault THEN {} ELSE {"default"})
             \cup (IF start # "absent" THEN {"start"} ELSE {})

Catch(t) ==
    /\ pc' = [pc EXCEPT ![t] = AfterThrow(t)]
    /\ todo' = [todo EXCEPT ![t] = IF AfterThrow(t) = "clean" THEN Entries ELSE {}]
    /\ writing' = [writing EXCEPT ![t] = "nothing"]
    /\ UNCHANGED <<dir, installed, task, active, orderly>>

Throw(t) ==
    /\ pc[t] \in Running
    /\ InterruptSeen(t) \/ Obstacle(t) \/ Faults
    /\ Catch(t) /\ UNCHANGED refused

\* "Target directory is not empty": install() throws as it does for any other error.
Refuse(t) ==
    /\ pc[t] = "check" /\ kind[t] = "install" /\ ~Empty
    /\ Catch(t) /\ refused' = TRUE

\* cleanDirectory deletes what the directory held when it began, a directory file by file.
Delete(e) ==
    /\ disk' = IF e \in Files THEN [disk EXCEPT ![e] = "absent"] ELSE disk
    /\ module' = IF e \in Designs THEN [module EXCEPT ![e] = "absent"] ELSE module
    /\ default' = IF e = "default" THEN [f \in Files |-> "absent"] ELSE default
    /\ start' = IF e = "start" THEN "absent" ELSE start

DeletePart(e) ==
    /\ \/ /\ e \in Designs /\ module[e] = "whole"
          /\ module' = [module EXCEPT ![e] = "partial"] /\ UNCHANGED default
       \/ /\ e = "default" /\ \E f \in Kept : default' = [default EXCEPT ![f] = "absent"]
          /\ UNCHANGED module
    /\ UNCHANGED <<disk, start>>

Clean(t) ==
    /\ pc[t] = "clean"
    /\ \E e \in todo[t] : \/ Delete(e) /\ todo' = [todo EXCEPT ![t] = @ \ {e}]
                          \/ DeletePart(e) /\ UNCHANGED todo
    /\ UNCHANGED <<installed, pc, task, writing, active, refused, orderly>>

\* It goes on after what it cannot delete; clean() logs that, and the task fails as it would have.
Cleaned(t) ==
    /\ pc[t] = "clean"
    /\ todo[t] = {} \/ (Faults /\ Cardinality(todo[t]) <= MaxSpared)
    /\ pc' = [pc EXCEPT ![t] = "failed"]
    /\ todo' = [todo EXCEPT ![t] = {}]
    /\ spared' = todo[t] /\ orderly' = (alone /\ Empty)
    /\ UNCHANGED <<dir, installed, kind, arg, cancelled, started, crashes, alone, writing, active, refused>>

-----------------------------------------------------------------------------
(* Writing files *)

Goto(t, place, things) ==
    /\ pc' = [pc EXCEPT ![t] = place]
    /\ todo' = [todo EXCEPT ![t] = things]
    /\ UNCHANGED <<task, writing, refused, orderly>>

\* The order within a disk is that of the names; ckit.exe comes before all of them.
NextFiles(t) == IF Ckit \in todo[t] /\ pc[t] # "unpack" THEN {Ckit} ELSE todo[t]

\* What a finished copy holds: a partial module may hold a part of the file.
Copied(t, f) ==
    CASE pc[t] = "unpack"  -> {"orig"}
      [] pc[t] = "backup"  -> {disk[f]}
      [] pc[t] = "restore" -> {default[f]}
      [] pc[t] = "override" ->
           IF f = Ckit /\ default[Ckit] # "orig" THEN {"torn"}
           ELSE IF module[arg[t]] = "whole" THEN {arg[t]} ELSE {arg[t], "torn"}

Put(t, f, c) ==
    /\ disk' = IF pc[t] = "backup" THEN disk ELSE [disk EXCEPT ![f] = c]
    /\ default' = IF pc[t] = "backup" THEN [default EXCEPT ![f] = c] ELSE default
    /\ UNCHANGED <<module, start, installed, pc, task, active, refused, orderly>>

BeginCopy(t) ==
    /\ pc[t] \in Copying /\ writing[t] = "nothing"
    /\ ~cancelled[t] \/ Unchecked(t)
    /\ \E f \in NextFiles(t) :
         /\ pc[t] = "backup" => disk[f] # "absent"
         /\ pc[t] \in {"restore", "override"} => Replaceable(t, f)
         /\ writing' = [writing EXCEPT ![t] = f]
         /\ Put(t, f, "torn")
    /\ UNCHANGED todo

EndCopy(t) ==
    /\ pc[t] \in Copying /\ writing[t] \in Files
    /\ \E c \in Copied(t, writing[t]) : Put(t, writing[t], c)
    /\ todo' = [todo EXCEPT ![t] = @ \ {writing[t]}]
    /\ writing' = [writing EXCEPT ![t] = "nothing"]

BeginUnzip(t) ==
    /\ pc[t] = "unzip" /\ writing[t] = "nothing" /\ ~cancelled[t]
    /\ \E d \in todo[t] :
         /\ module[d] = "absent"
         /\ module' = [module EXCEPT ![d] = "partial"]
         /\ writing' = [writing EXCEPT ![t] = d]
    /\ UNCHANGED <<disk, default, start, installed, pc, task, todo, active, refused, orderly>>

EndUnzip(t) ==
    /\ pc[t] = "unzip" /\ writing[t] \in Designs
    /\ module' = [module EXCEPT ![writing[t]] = "whole"]
    /\ todo' = [todo EXCEPT ![t] = @ \ {writing[t]}]
    /\ writing' = [writing EXCEPT ![t] = "nothing"]
    /\ UNCHANGED <<disk, default, start, installed, pc, task, active, refused, orderly>>

-----------------------------------------------------------------------------
(* Installer.install *)

Unpack(t) ==
    /\ pc[t] = "check" /\ kind[t] = "install" /\ Empty
    /\ Goto(t, "unpack", Files) /\ UNCHANGED <<dir, installed, active>>

\* The patches are part of the unpacked files, HEIRS.DSN too; no design can be chosen
\* before the settings bring start.dat and start.bat.
SettingsStart == "settings"
Settings(t) ==
    /\ pc[t] = "unpack" /\ todo[t] = {} /\ ~cancelled[t]
    /\ start' = SettingsStart
    /\ module' = [module EXCEPT ![First] = "whole"]
    /\ Goto(t, "validate", {})
    /\ UNCHANGED <<disk, default, installed, active>>

ValidateInstall(t) ==
    /\ pc[t] = "validate" /\ ~cancelled[t] /\ Valid
    /\ Goto(t, "apply", {}) /\ UNCHANGED <<dir, installed, active>>

ToAdd == Bundled

\* Once HEIRS is applied the bundled modules are added.
AddBundled(t) ==
    /\ pc[t] = "applied" /\ kind[t] = "install" /\ ~cancelled[t]
    /\ Goto(t, "unzip", ToAdd) /\ UNCHANGED <<dir, installed, active>>

-----------------------------------------------------------------------------
(* Switcher.applyDesign *)

\* default.dsn is made once, and applied before any design.
FirstStageAgain == "backup"   \* mutant: default.dsn is made at every switch
FirstStage == IF NoDefault THEN "backup" ELSE "restore"
StageFilesNoPanic(stage) ==   \* mutant: panic.xxx is not copied back
    IF stage = "backup" THEN Present ELSE Kept \ {Ckit}
StageFiles(stage) == CASE stage = "backup"  -> Present
                       [] stage = "restore" -> Kept \cup {Ckit}

ApplyDesign(t) ==
    /\ pc[t] = "apply" /\ disk[Ckit] # "absent"
    /\ Exists(arg[t])
    /\ Goto(t, FirstStage, StageFiles(FirstStage)) /\ UNCHANGED <<dir, installed, active>>

DefaultMade(t) ==
    /\ pc[t] = "backup" /\ todo[t] = {} /\ writing[t] = "nothing" /\ ~cancelled[t]
    /\ Goto(t, "restore", StageFiles("restore")) /\ UNCHANGED <<dir, installed, active>>

\* A design in part has only some of its files.
Versions(d) == IF module[d] = "whole" THEN {Replaces[d]} ELSE SUBSET Replaces[d]

DefaultApplied(t) ==
    /\ pc[t] = "restore" /\ todo[t] = {} /\ writing[t] = "nothing" /\ Nameable
    /\ start' = "default"
    /\ IF arg[t] = "default" THEN Goto(t, "applied", {})
       ELSE \E files \in Versions(arg[t]) : Goto(t, "override", files)
    /\ UNCHANGED <<disk, default, module, installed, active>>

DesignApplied(t) ==
    /\ pc[t] = "override" /\ todo[t] = {} /\ writing[t] = "nothing" /\ Nameable
    /\ start' = arg[t]
    /\ Goto(t, "applied", {})
    /\ UNCHANGED <<disk, default, module, installed, active>>

-----------------------------------------------------------------------------
(* The ends of the tasks *)

\* onPostExecute tells the user; a task cancelled too late to notice ends silently.
Reported(t) == IF cancelled[t] THEN active ELSE arg[t]

SwitchDone(t) ==
    /\ pc[t] = "applied" /\ kind[t] = "switch"
    /\ active' = Reported(t)
    /\ Goto(t, "done", {}) /\ UNCHANGED <<dir, installed>>

InstallDone(t) ==
    /\ pc[t] = "unzip" /\ kind[t] = "install" /\ todo[t] = {} /\ writing[t] = "nothing"
    /\ active' = Reported(t) /\ installed' = (start # "absent")
    /\ Goto(t, "done", {}) /\ UNCHANGED dir

AddModule(t) ==
    /\ pc[t] = "check" /\ kind[t] = "add" /\ module[arg[t]] = "absent"
    /\ Goto(t, "unzip", {arg[t]}) /\ UNCHANGED <<dir, installed, active>>

AddDone(t) ==
    /\ pc[t] = "unzip" /\ kind[t] = "add" /\ todo[t] = {} /\ writing[t] = "nothing"
    /\ installed' = (start # "absent")
    /\ Goto(t, "done", {}) /\ UNCHANGED <<dir, active>>

-----------------------------------------------------------------------------
Step(t) ==
    \/ Throw(t) \/ Refuse(t) \/ Clean(t) \/ Cleaned(t)
    \/ BeginCopy(t) \/ EndCopy(t) \/ BeginUnzip(t) \/ EndUnzip(t)
    \/ Unpack(t) \/ Settings(t) \/ ValidateInstall(t) \/ AddBundled(t)
    \/ ApplyDesign(t) \/ DefaultMade(t) \/ DefaultApplied(t) \/ DesignApplied(t)
    \/ SwitchDone(t) \/ InstallDone(t) \/ AddModule(t) \/ AddDone(t)

Next == \/ StartInstall \/ StartSwitch \/ StartAdd
        \/ UpdateInstalledState \/ Crash
        \/ \E t \in Tasks : Back(t) \/ Step(t)

Spec == Init /\ [][Next]_vars

-----------------------------------------------------------------------------
Expected(f) == IF active \in Designs /\ f \in Replaces[active] THEN active ELSE "orig"
Applied == active # "none" /\ (active \in Designs => module[active] = "whole")

\* Once a design was reported as applied, start.dat names it and every file that default.dsn
\* has a good copy of is that design's version, or the original where the design has none
\* ("apply default first"), whatever was interrupted before, whoever filled the directory and
\* whatever a clean-up left in it; unless another task's thread was in the directory too.
RestoredExact ==
    alone /\ Applied =>
        start = active /\ \A f \in Files : default[f] = "orig" => disk[f] = Expected(f)

\* In a directory that InstallTask filled, whatever was cancelled or failed since, default.dsn
\* is absent or a full copy of the originals whenever nobody is making or deleting it: as long
\* as no process died in a task, no clean-up failed to delete something, and no two tasks'
\* threads were at work at once, since the directory was last empty.
DefaultPristine ==
    orderly /\ (\A t \in Tasks : pc[t] \notin {"backup", "clean"})
        => NoDefault \/ \A f \in Files : default[f] = "orig"

\* An install that has failed leaves nothing behind but what its clean-up could not delete, so
\* that the next one finds an empty directory; one that told the user so ("FRUA was successfully
\* installed into directory") has installed every file, HEIRS and the bundled modules.  A thread
\* of an older, cancelled task may undo both, and a process that dies leaves what there was.
InstallAllOrNothing ==
    started > 0 /\ kind[started] = "install" /\ alone =>
        /\ pc[started] = "failed" => Entries \subseteq spared
        /\ pc[started] = "done" /\ ~cancelled[started] =>
              /\ start = First /\ \A f \in Files : disk[f] = Expected(f) /\ default[f] = "orig"
              /\ installed /\ \A d \in Bundled \cup {First} : module[d] = "whole"

\* An install that refuses a directory because it is not empty leaves it as it is.
RefusedKeepsFiles == [][refused => UNCHANGED dir]_vars
=============================================================================
