------------------------ MODULE GameDirectoryProofs -------------------------
(***************************************************************************)
(* Proofs about GameDirectory for every set of files and designs and any   *)
(* number of tasks, cancellations, failures and crashes: what the program  *)
(* reported as applied is what the directory holds, default.dsn keeps the  *)
(* originals, and an install leaves all or nothing.  Threads may overlap:  *)
(* the argument holds while a task is alone, and begins anew with the next *)
(* install or switch that is.                                              *)
(***************************************************************************)
EXTENDS GameDirectory, TLAPS

-----------------------------------------------------------------------------
(* The inductive invariant *)

\* While a task is alone it is the one started last.
OneTask == \A t \in Tasks : /\ kind[t] # "none" => t = started
                            /\ pc[t] \notin Ended => kind[t] # "none"

\* What a task is at each place: its kind, what it still has to do, and the file it writes.
ShapeOf(t) ==
    /\ kind[t] # "none" => t <= started
    /\ pc[t] \notin Ended => kind[t] # "none"
    /\ writing[t] # "nothing" => writing[t] \in todo[t] /\ pc[t] \in Copying \cup {"unzip"}
    /\ pc[t] \in Copying => todo[t] \subseteq Files
    /\ pc[t] = "unzip" => todo[t] \subseteq Designs
    /\ pc[t] \in {"unpack", "validate", "clean"} => kind[t] = "install"
    /\ pc[t] \in {"apply", "backup", "restore", "override", "applied"} =>
           kind[t] \in {"install", "switch"}
    /\ pc[t] = "unzip" => kind[t] \in {"install", "add"}
    /\ kind[t] = "install" => arg[t] = First
    /\ kind[t] = "switch" => arg[t] \in Designs \cup {"default"}
    /\ kind[t] = "add" => arg[t] \in Designs
    /\ pc[t] = "override" => arg[t] \in Designs
TaskShape == \A t \in Tasks : ShapeOf(t)

\* What was reported as applied stays as it is: only an added module may be on its way.
ActiveFrozen == active # "none" => \A t \in Tasks : pc[t] \notin Ended => kind[t] = "add"

Whole(a) == a \in Designs => module[a] = "whole"
There(a) == a \in Designs => module[a] # "absent"
Version(a, f) == IF a \in Designs /\ f \in Replaces[a] THEN a ELSE "orig"
Exact(a) ==
    /\ start = a
    /\ There(a)
    /\ Whole(a) => \A f \in Files : default[f] = "orig" => disk[f] = Version(a, f)

\* default.dsn comes first, then the design's own files.
StagesOf(t) ==
    /\ pc[t] \in {"backup", "restore", "override"} => There(arg[t])
    /\ pc[t] = "restore" =>
           \A f \in Files : default[f] = "orig" => f \in todo[t] \/ disk[f] = "orig"
    /\ pc[t] = "override" /\ Whole(arg[t]) =>
           \A f \in Files : default[f] = "orig" =>
               f \in todo[t] \/ disk[f] = Version(arg[t], f)
    /\ pc[t] = "override" => todo[t] \subseteq Replaces[arg[t]]
    /\ pc[t] = "applied" \/ (pc[t] = "unzip" /\ kind[t] = "install") => Exact(arg[t])
    /\ writing[t] \in Designs => writing[t] # active /\ (kind[t] = "install" => writing[t] # First)
Stages == \A t \in Tasks : StagesOf(t)

\* What was reported as applied is what the directory holds.
ActiveExact == active # "none" => Exact(active)

Bare      == NoDefault /\ (\A f \in Files : disk[f] = "absent") /\ start = "absent"
Furnished == \A f \in Files : default[f] = "orig" /\ disk[f] # "absent"
Original  == \A f \in Files : disk[f] = "orig"

\* An install fills an empty directory, and default.dsn before it copies anything over.
InstallOf(t) ==
    kind[t] = "install" =>
       /\ pc[t] = "unpack" => NoDefault
       /\ pc[t] \in {"validate", "apply"} => NoDefault /\ module[First] = "whole"
       /\ pc[t] \in {"apply", "backup"} => Original
       /\ pc[t] = "backup" =>
              module[First] = "whole" /\ \A f \in Files \ todo[t] : default[f] = "orig"
       /\ pc[t] \in {"restore", "override", "applied", "unzip"} =>
              Furnished /\ module[First] = "whole"
       /\ pc[t] = "unzip" => \A d \in Bundled \ todo[t] : module[d] = "whole"
       /\ pc[t] = "clean" => Entries \subseteq todo[t]
       /\ pc[t] = "failed" => Entries \subseteq spared
       /\ pc[t] = "done" /\ ~cancelled[t] =>
              /\ active = First /\ Furnished /\ installed
              /\ \A d \in Bundled \cup {First} : module[d] = "whole"
InstallStages == \A t \in Tasks : InstallOf(t)

\* While no install is at work, a directory it filled is bare or holds all of default.dsn.
Settled == \A t \in Tasks : pc[t] \notin Ended \cup {"check"} => kind[t] # "install"
OrderlyStages ==
    orderly =>
       /\ Settled => Bare \/ Furnished
       /\ \A t \in Tasks : /\ pc[t] = "backup" => kind[t] = "install"
                           /\ pc[t] \in {"restore", "override", "applied"} => Furnished

Rest == ActiveFrozen /\ Stages /\ ActiveExact /\ InstallStages /\ OrderlyStages

GameInv == /\ TypeOK /\ TaskShape
           /\ orderly => alone
           /\ alone => OneTask /\ Rest

-----------------------------------------------------------------------------
(* Types in three parts *)

DirTyped ==
    /\ disk \in [Files -> Contents] /\ default \in [Files -> Contents]
    /\ module \in [Designs -> {"absent", "partial", "whole"}]
    /\ start \in {"absent", "settings", "default"} \cup Designs
    /\ active \in {"none", "default"} \cup Designs

TaskTyped ==
    /\ pc \in [Tasks -> Places] /\ kind \in [Tasks -> {"none", "install", "switch", "add"}]
    /\ arg \in [Tasks -> {"none", "default"} \cup Designs]
    /\ todo \in [Tasks -> SUBSET Items]
    /\ writing \in [Tasks -> {"nothing"} \cup Files \cup Designs]
    /\ cancelled \in [Tasks -> BOOLEAN]

FlagsTyped ==
    /\ installed \in BOOLEAN /\ refused \in BOOLEAN /\ alone \in BOOLEAN /\ orderly \in BOOLEAN
    /\ spared \in SUBSET Items
    /\ started \in 0 .. MaxTasks /\ crashes \in 0 .. MaxCrashes

LEMMA TypeParts == TypeOK <=> DirTyped /\ TaskTyped /\ FlagsTyped
BY DEF TypeOK, DirTyped, TaskTyped, FlagsTyped

LEMMA Names ==
    /\ "nothing" \notin Files /\ "nothing" \notin Designs /\ "none" \notin Designs
    /\ "default" \notin Designs /\ "default" \notin Files /\ "start" \notin Designs
    /\ "start" \notin Files /\ "absent" \notin Designs /\ "torn" \notin Designs
    /\ "orig" \notin Designs /\ "settings" \notin Designs
    /\ Ckit \in Files /\ First \in Designs /\ Bundled \subseteq Designs /\ First \notin Bundled
    /\ \A f \in Files : f \notin Designs
BY NamesAssumption, DesignsAssumption DEF Files

-----------------------------------------------------------------------------
(* Only one task changes at a step *)

Local(t) ==
    /\ UNCHANGED <<kind, arg, cancelled, started>>
    /\ \A u \in Tasks : u # t =>
           pc'[u] = pc[u] /\ todo'[u] = todo[u] /\ writing'[u] = writing[u]

LEMMA Moved ==
    ASSUME TaskTyped, NEW t \in Tasks, NEW place, NEW things, Goto(t, place, things)
    PROVE  /\ Local(t)
           /\ pc'[t] = place /\ todo'[t] = things
           /\ UNCHANGED <<kind, arg, cancelled, started, crashes, writing, refused, spared, alone, orderly>>
<1>1. /\ pc' = [pc EXCEPT ![t] = place] /\ todo' = [todo EXCEPT ![t] = things]
      /\ UNCHANGED <<kind, arg, cancelled, started, crashes, writing, refused, spared, alone, orderly>>
    BY DEF Goto, task
<1>2. DOMAIN pc = Tasks /\ DOMAIN todo = Tasks
    BY DEF TaskTyped
<1> QED BY <1>1, <1>2 DEF Local

LEMMA Caught ==
    ASSUME TaskTyped, NEW t \in Tasks, Catch(t)
    PROVE  /\ Local(t)
           /\ pc'[t] = AfterThrow(t) /\ writing'[t] = "nothing"
           /\ todo'[t] = IF AfterThrow(t) = "clean" THEN Entries ELSE {}
           /\ UNCHANGED <<disk, default, module, start, installed, crashes, active, spared, alone, orderly>>
<1>1. /\ pc' = [pc EXCEPT ![t] = AfterThrow(t)]
      /\ todo' = [todo EXCEPT ![t] = IF AfterThrow(t) = "clean" THEN Entries ELSE {}]
      /\ writing' = [writing EXCEPT ![t] = "nothing"]
      /\ UNCHANGED <<disk, default, module, start, installed, crashes, active, spared, alone, orderly>>
      /\ UNCHANGED <<kind, arg, cancelled, started>>
    BY DEF Catch, dir, task
<1>2. DOMAIN pc = Tasks /\ DOMAIN todo = Tasks /\ DOMAIN writing = Tasks
    BY DEF TaskTyped
<1> QED BY <1>1, <1>2 DEF Local

\* One file is begun, or finished: the shape of BeginCopy, EndCopy, BeginUnzip and EndUnzip.
LEMMA Wrote ==
    ASSUME TaskTyped, NEW t \in Tasks, NEW w, NEW rest,
           writing' = [writing EXCEPT ![t] = w], todo' = [todo EXCEPT ![t] = rest],
           UNCHANGED <<pc, kind, arg, cancelled, started>>
    PROVE  Local(t) /\ writing'[t] = w /\ todo'[t] = rest
<1>1. DOMAIN todo = Tasks /\ DOMAIN writing = Tasks
    BY DEF TaskTyped
<1> QED BY <1>1 DEF Local

LEMMA Begun ==
    ASSUME TaskTyped, NEW t \in Tasks, NEW w, writing' = [writing EXCEPT ![t] = w],
           UNCHANGED <<pc, todo, kind, arg, cancelled, started>>
    PROVE  Local(t) /\ writing'[t] = w /\ todo'[t] = todo[t]
<1>1. DOMAIN writing = Tasks
    BY DEF TaskTyped
<1> QED BY <1>1 DEF Local

Moves(t) == \/ Unpack(t) \/ Settings(t) \/ ValidateInstall(t) \/ AddBundled(t) \/ ApplyDesign(t)
            \/ DefaultMade(t) \/ DefaultApplied(t) \/ DesignApplied(t) \/ SwitchDone(t)
            \/ InstallDone(t) \/ AddModule(t) \/ AddDone(t)


LEMMA StepLocal ==
    ASSUME TaskTyped, NEW t \in Tasks, Step(t)
    PROVE  Local(t) /\ pc[t] \notin Ended
<1>1. CASE Throw(t) \/ Refuse(t)
    <2>1. Catch(t)
        BY <1>1 DEF Throw, Refuse
    <2> QED BY <1>1, <2>1, Caught DEF Throw, Refuse, Running, Copying, Ended
<1>2. CASE Clean(t) \/ Cleaned(t)
    <2>1. DOMAIN pc = Tasks /\ DOMAIN todo = Tasks
        BY DEF TaskTyped
    <2> QED BY <1>2, <2>1 DEF Clean, Cleaned, Local, Ended, task
<1>3. CASE BeginCopy(t) \/ BeginUnzip(t)
    <2>1. PICK w : writing' = [writing EXCEPT ![t] = w]
        BY <1>3 DEF BeginCopy, BeginUnzip
    <2>2. UNCHANGED <<pc, todo, kind, arg, cancelled, started>> /\ pc[t] \notin Ended
        BY <1>3 DEF BeginCopy, BeginUnzip, Put, Copying, Ended, task
    <2> QED BY <2>1, <2>2, Begun
<1>4. CASE EndCopy(t) \/ EndUnzip(t)
    <2>1. /\ writing' = [writing EXCEPT ![t] = "nothing"]
          /\ todo' = [todo EXCEPT ![t] = todo[t] \ {writing[t]}]
        BY <1>4 DEF EndCopy, EndUnzip
    <2>2. UNCHANGED <<pc, kind, arg, cancelled, started>> /\ pc[t] \notin Ended
        BY <1>4 DEF EndCopy, EndUnzip, Put, Copying, Ended, task
    <2> QED BY <2>1, <2>2, Wrote
<1>5. CASE Unpack(t) \/ Settings(t) \/ ValidateInstall(t) \/ AddBundled(t) \/ ApplyDesign(t) \/ DefaultMade(t)
    <2>1. (\E place, things : Goto(t, place, things)) /\ pc[t] \notin Ended
        BY <1>5 DEF Unpack, Settings, ValidateInstall, AddBundled, ApplyDesign, DefaultMade, Ended
    <2> QED BY <2>1, Moved
<1>6. CASE DefaultApplied(t) \/ DesignApplied(t) \/ SwitchDone(t) \/ InstallDone(t) \/ AddModule(t) \/ AddDone(t)
    <2>1. (\E place, things : Goto(t, place, things)) /\ pc[t] \notin Ended
        BY <1>6 DEF DefaultApplied, DesignApplied, SwitchDone, InstallDone, AddModule, AddDone, Ended
    <2> QED BY <2>1, Moved
<1> QED BY <1>1, <1>2, <1>3, <1>4, <1>5, <1>6 DEF Step

\* The tasks but the one at work have ended and stay as they are.
LEMMA OthersQuiet ==
    ASSUME OneTask, TaskShape, NEW t \in Tasks, pc[t] \notin Ended, NEW u \in Tasks, u # t
    PROVE  pc[u] \in Ended /\ kind[u] = "none" /\ writing[u] = "nothing"
<1>1. t = started
    BY DEF OneTask
<1>2. kind[u] = "none" /\ pc[u] \in Ended
    BY <1>1 DEF OneTask
<1>3. writing[u] = "nothing"
    BY <1>2 DEF TaskShape, ShapeOf, Ended, Copying
<1> QED BY <1>2, <1>3

LEMMA OthersShaped ==
    ASSUME TaskShape, NEW t \in Tasks, Local(t), NEW u \in Tasks, u # t
    PROVE  ShapeOf(u)'
BY DEF Local, TaskShape, ShapeOf

LEMMA OthersKept ==
    ASSUME OneTask, TaskShape, NEW t \in Tasks, pc[t] \notin Ended, Local(t), NEW u \in Tasks, u # t
    PROVE  /\ pc'[u] \in Ended /\ kind'[u] = "none" /\ writing'[u] = "nothing"
           /\ StagesOf(u)' /\ InstallOf(u)'
<1>1. pc'[u] \in Ended /\ kind'[u] = "none" /\ writing'[u] = "nothing"
    BY OthersQuiet DEF Local
<1>2. StagesOf(u)'
    BY <1>1, Names DEF StagesOf, Ended
<1>3. InstallOf(u)'
    BY <1>1 DEF InstallOf
<1> QED BY <1>1, <1>2, <1>3

LEMMA Begins ==
    ASSUME TaskTyped, NobodyIn, NEW k, NEW d, Start(k, d), NEW u \in Tasks
    PROVE  /\ u = started + 1 =>
                kind'[u] = k /\ arg'[u] = d /\ pc'[u] = (IF k = "switch" THEN "apply" ELSE "check")
           /\ u # started + 1 => kind'[u] = "none" /\ arg'[u] = "none" /\ pc'[u] = "done"
           /\ started' = started + 1 /\ active' = (IF k = "add" THEN active ELSE "none")
           /\ UNCHANGED <<disk, default, module, start, installed, todo, writing>>
BY DEF NobodyIn, Start, Fresh, dir

-----------------------------------------------------------------------------
(* Types are kept *)

LEMMA InitTyped == Init => TypeOK
<1> SUFFICES ASSUME Init PROVE TypeOK
    OBVIOUS
<1>1. DirTyped
    BY Names, DesignsAssumption DEF Init, Empty, FilledByHand, DirTyped, Contents
<1>2. TaskTyped
    BY DEF Init, TaskTyped, Places, Ended
<1>3. FlagsTyped
    <2>1. installed = (start # "absent") /\ orderly = Empty /\ refused = FALSE
        BY Zenon DEF Init
    <2>2. installed \in BOOLEAN /\ orderly \in BOOLEAN /\ refused \in BOOLEAN
        <3>1. Empty \in BOOLEAN
            BY DEF Empty
        <3>2. (start # "absent") \in BOOLEAN
            OBVIOUS
        <3> QED BY <2>1, <3>1, <3>2, Zenon
    <2>3. started \in 0 .. MaxTasks /\ crashes \in 0 .. MaxCrashes
        BY BoundsAssumption DEF Init
    <2>4. alone \in BOOLEAN /\ spared \in SUBSET Items
        BY DEF Init
    <2> QED BY <2>2, <2>3, <2>4 DEF FlagsTyped
<1> QED BY <1>1, <1>2, <1>3, TypeParts

LEMMA GoTyped ==
    ASSUME TaskTyped, NEW t \in Tasks, NEW place \in Places, NEW things \in SUBSET Items,
           Goto(t, place, things)
    PROVE  TaskTyped'
<1>1. /\ pc' = [pc EXCEPT ![t] = place] /\ todo' = [todo EXCEPT ![t] = things]
      /\ UNCHANGED <<kind, arg, cancelled, writing>>
    BY DEF Goto, task
<1>2. pc' \in [Tasks -> Places]
    BY <1>1 DEF TaskTyped
<1>3. todo' \in [Tasks -> SUBSET Items]
    BY <1>1 DEF TaskTyped
<1> QED BY <1>1, <1>2, <1>3 DEF TaskTyped

LEMMA WriteTyped ==
    ASSUME TaskTyped, NEW t \in Tasks, NEW w \in {"nothing"} \cup Files \cup Designs,
           NEW rest \in SUBSET Items, writing' = [writing EXCEPT ![t] = w],
           todo' = [todo EXCEPT ![t] = rest], UNCHANGED <<pc, kind, arg, cancelled>>
    PROVE  TaskTyped'
<1>1. writing' \in [Tasks -> {"nothing"} \cup Files \cup Designs]
    BY DEF TaskTyped
<1>2. todo' \in [Tasks -> SUBSET Items]
    BY DEF TaskTyped
<1> QED BY <1>1, <1>2 DEF TaskTyped

LEMMA CatchTyped ==
    ASSUME TaskTyped, NEW t \in Tasks, Catch(t)
    PROVE  TaskTyped'
<1>1. /\ pc' = [pc EXCEPT ![t] = AfterThrow(t)]
      /\ todo' = [todo EXCEPT ![t] = IF AfterThrow(t) = "clean" THEN Entries ELSE {}]
      /\ writing' = [writing EXCEPT ![t] = "nothing"]
      /\ UNCHANGED <<kind, arg, cancelled>>
    BY DEF Catch, task
<1>2. AfterThrow(t) \in Places
    BY DEF AfterThrow, Places, Ended
<1>3. Entries \in SUBSET Items
    BY DEF Entries, Present, Items
<1>4. pc' \in [Tasks -> Places]
    BY <1>1, <1>2 DEF TaskTyped
<1>5. todo' \in [Tasks -> SUBSET Items]
    BY <1>1, <1>3 DEF TaskTyped
<1>6. writing' \in [Tasks -> {"nothing"} \cup Files \cup Designs]
    BY <1>1 DEF TaskTyped
<1> QED BY <1>1, <1>4, <1>5, <1>6 DEF TaskTyped

\* The files a step of the switcher is to copy, and the designs it takes them from.
LEMMA Staged ==
    /\ StageFiles("backup") = Present /\ StageFiles("restore") = Kept \cup {Ckit}
    /\ Present \subseteq Files /\ Kept \cup {Ckit} \subseteq Files
    /\ FirstStage \in {"backup", "restore"}
BY Names DEF StageFiles, Present, Kept, FirstStage

LEMMA VersionsReplace ==
    ASSUME NEW d \in Designs, NEW files \in Versions(d)
    PROVE  files \subseteq Replaces[d] /\ Replaces[d] \subseteq Files
BY ReplacesAssumption DEF Versions, Files

LEMMA StepTaskTyped ==
    ASSUME TaskTyped, NEW t \in Tasks, ShapeOf(t), Step(t)
    PROVE  TaskTyped'
<1>a. /\ "unpack" \in Places /\ "validate" \in Places /\ "unzip" \in Places /\ "apply" \in Places
      /\ "backup" \in Places /\ "restore" \in Places /\ "override" \in Places
      /\ "applied" \in Places /\ "done" \in Places /\ "failed" \in Places
    BY DEF Places, Running, Copying, Ended
<1>b. Files \subseteq Items /\ Designs \subseteq Items
    BY DEF Items
<1>1. CASE Throw(t) \/ Refuse(t)
    BY <1>1, CatchTyped DEF Throw, Refuse
<1>2. CASE Clean(t)
    <2>1. UNCHANGED todo \/ \E e : todo' = [todo EXCEPT ![t] = todo[t] \ {e}]
        BY <1>2 DEF Clean
    <2>2. UNCHANGED <<pc, kind, arg, cancelled, writing>>
        BY <1>2 DEF Clean, task
    <2>3. \A e : todo[t] \ {e} \in SUBSET Items
        BY DEF TaskTyped
    <2>4. todo' \in [Tasks -> SUBSET Items]
        BY <2>1, <2>3 DEF TaskTyped
    <2> QED BY <2>2, <2>4 DEF TaskTyped
<1>3. CASE Cleaned(t)
    <2>1. /\ pc' = [pc EXCEPT ![t] = "failed"] /\ todo' = [todo EXCEPT ![t] = {}]
          /\ UNCHANGED <<kind, arg, cancelled, writing>>
        BY <1>3 DEF Cleaned
    <2>2. pc' \in [Tasks -> Places]
        BY <2>1, <1>a DEF TaskTyped
    <2>3. todo' \in [Tasks -> SUBSET Items]
        BY <2>1 DEF TaskTyped
    <2> QED BY <2>1, <2>2, <2>3 DEF TaskTyped
<1>4. CASE BeginCopy(t) \/ BeginUnzip(t)
    <2>1. \E w \in Files \cup Designs : writing' = [writing EXCEPT ![t] = w]
        <3>1. CASE BeginCopy(t)
            <4>1. todo[t] \subseteq Files
                BY <3>1 DEF BeginCopy, ShapeOf
            <4>2. NextFiles(t) \subseteq Files
                BY <4>1 DEF NextFiles
            <4> QED BY <3>1, <4>2 DEF BeginCopy
        <3>2. CASE BeginUnzip(t)
            <4>1. todo[t] \subseteq Designs
                BY <3>2 DEF BeginUnzip, ShapeOf
            <4> QED BY <3>2, <4>1 DEF BeginUnzip
        <3> QED BY <1>4, <3>1, <3>2
    <2>2. UNCHANGED <<pc, kind, arg, cancelled, todo>>
        BY <1>4 DEF BeginCopy, BeginUnzip, Put, task
    <2>3. writing' \in [Tasks -> {"nothing"} \cup Files \cup Designs]
        BY <2>1 DEF TaskTyped
    <2> QED BY <2>2, <2>3 DEF TaskTyped
<1>5. CASE EndCopy(t) \/ EndUnzip(t)
    <2>1. /\ writing' = [writing EXCEPT ![t] = "nothing"]
          /\ todo' = [todo EXCEPT ![t] = todo[t] \ {writing[t]}]
        BY <1>5 DEF EndCopy, EndUnzip
    <2>2. UNCHANGED <<pc, kind, arg, cancelled>>
        BY <1>5 DEF EndCopy, EndUnzip, Put, task
    <2>3. todo[t] \ {writing[t]} \in SUBSET Items
        BY DEF TaskTyped
    <2> QED BY <2>1, <2>2, <2>3, WriteTyped
<1>6. CASE Unpack(t) \/ Settings(t) \/ ValidateInstall(t) \/ SwitchDone(t) \/ InstallDone(t) \/ AddDone(t)
    <2>1. \E place \in {"unpack", "validate", "apply", "done"}, things \in {{}, Files} : Goto(t, place, things)
        BY <1>6 DEF Unpack, Settings, ValidateInstall, SwitchDone, InstallDone, AddDone
    <2> QED BY <2>1, <1>a, <1>b, GoTyped
<1>7. CASE AddBundled(t) \/ AddModule(t)
    <2>1. CASE AddBundled(t)
        BY <2>1, <1>a, <1>b, Names, GoTyped DEF AddBundled, ToAdd
    <2>2. CASE AddModule(t)
        <3>1. arg[t] \in Designs
            BY <2>2 DEF AddModule, ShapeOf
        <3> QED BY <2>2, <3>1, <1>a, <1>b, GoTyped DEF AddModule
    <2> QED BY <1>7, <2>1, <2>2
<1>8. CASE ApplyDesign(t) \/ DefaultMade(t)
    <2>1. \E stage \in {"backup", "restore"} : Goto(t, stage, StageFiles(stage))
        BY <1>8, Staged DEF ApplyDesign, DefaultMade
    <2> QED BY <2>1, <1>a, <1>b, Staged, GoTyped
<1>9. CASE DefaultApplied(t) \/ DesignApplied(t)
    <2>1. CASE Goto(t, "applied", {})
        BY <2>1, <1>a, <1>b, GoTyped
    <2>2. CASE ~Goto(t, "applied", {})
        <3>1. arg[t] \in Designs
            BY <1>9, <2>2, Names DEF DefaultApplied, DesignApplied, ShapeOf
        <3>2. PICK files \in Versions(arg[t]) : Goto(t, "override", files)
            BY <1>9, <2>2 DEF DefaultApplied, DesignApplied
        <3> QED BY <3>1, <3>2, <1>a, <1>b, VersionsReplace, GoTyped
    <2> QED BY <2>1, <2>2
<1> QED BY <1>1, <1>2, <1>3, <1>4, <1>5, <1>6, <1>7, <1>8, <1>9 DEF Step

\* What a copy leaves in a file is a version of the file, or torn.
LEMMA CopiedTyped ==
    ASSUME DirTyped, NEW t \in Tasks, ShapeOf(t), NEW f \in Files, NEW c \in Copied(t, f),
           pc[t] \in Copying
    PROVE  c \in Contents
<1>1. disk[f] \in Contents /\ default[f] \in Contents /\ "orig" \in Contents /\ "torn" \in Contents
    BY DEF DirTyped, Contents
<1>2. pc[t] = "override" => arg[t] \in Contents
    BY DEF ShapeOf, Contents
<1>3. CASE pc[t] = "override"
    <2>1. Copied(t, f) \subseteq {"torn", arg[t]}
        BY <1>3 DEF Copied
    <2> QED BY <1>1, <1>2, <1>3, <2>1
<1>4. CASE pc[t] # "override"
    <2>1. Copied(t, f) \subseteq {"orig", disk[f], default[f]}
        BY <1>4 DEF Copied, Copying
    <2> QED BY <1>1, <2>1
<1> QED BY <1>3, <1>4

LEMMA PutTyped ==
    ASSUME DirTyped, NEW t \in Tasks, NEW f \in Files, NEW c \in Contents, Put(t, f, c)
    PROVE  DirTyped'
<1>1. [disk EXCEPT ![f] = c] \in [Files -> Contents] /\ [default EXCEPT ![f] = c] \in [Files -> Contents]
    BY DEF DirTyped
<1> QED BY <1>1 DEF Put, DirTyped

LEMMA DeleteTyped ==
    ASSUME DirTyped, UNCHANGED active, NEW e, Delete(e) \/ DeletePart(e)
    PROVE  DirTyped'
<1>a. "absent" \in Contents
    BY DEF Contents
<1>1. disk' \in [Files -> Contents] /\ start' \in {"absent", "settings", "default"} \cup Designs
    BY <1>a DEF Delete, DeletePart, DirTyped
<1>2. default' \in [Files -> Contents]
    BY <1>a DEF Delete, DeletePart, DirTyped
<1>3. module' \in [Designs -> {"absent", "partial", "whole"}]
    BY DEF Delete, DeletePart, DirTyped
<1> QED BY <1>1, <1>2, <1>3 DEF DirTyped

LEMMA StepDirTyped ==
    ASSUME DirTyped, TaskTyped, NEW t \in Tasks, ShapeOf(t), Step(t)
    PROVE  DirTyped'
<1>1. CASE Throw(t) \/ Refuse(t)
    <2>1. Catch(t)
        BY <1>1 DEF Throw, Refuse
    <2> QED BY <2>1 DEF Catch, dir, DirTyped
<1>2. CASE Clean(t)
    <2>1. UNCHANGED active /\ \E e : Delete(e) \/ DeletePart(e)
        BY <1>2 DEF Clean
    <2> QED BY <2>1, DeleteTyped
<1>3. CASE Cleaned(t)
    BY <1>3 DEF Cleaned, dir, DirTyped
<1>4. CASE BeginCopy(t)
    <2>1. NextFiles(t) \subseteq Files
        BY <1>4 DEF BeginCopy, ShapeOf, NextFiles
    <2>2. "torn" \in Contents
        BY DEF Contents
    <2> QED BY <1>4, <2>1, <2>2, PutTyped DEF BeginCopy
<1>5. CASE EndCopy(t)
    <2>1. PICK c \in Copied(t, writing[t]) : Put(t, writing[t], c)
        BY <1>5 DEF EndCopy
    <2>2. writing[t] \in Files /\ pc[t] \in Copying
        BY <1>5 DEF EndCopy
    <2> QED BY <2>1, <2>2, CopiedTyped, PutTyped
<1>6. CASE BeginUnzip(t) \/ EndUnzip(t)
    <2>1. PICK d \in Designs, s \in {"partial", "whole"} : module' = [module EXCEPT ![d] = s]
        BY <1>6 DEF BeginUnzip, EndUnzip, ShapeOf
    <2>2. module' \in [Designs -> {"absent", "partial", "whole"}]
        BY <2>1 DEF DirTyped
    <2> QED BY <1>6, <2>2 DEF BeginUnzip, EndUnzip, DirTyped
<1>7. CASE Settings(t)
    <2>1. module' = [module EXCEPT ![First] = "whole"] /\ start' = "settings"
          /\ UNCHANGED <<disk, default, active>>
        BY <1>7 DEF Settings, SettingsStart
    <2>2. module' \in [Designs -> {"absent", "partial", "whole"}]
        BY <2>1 DEF DirTyped
    <2> QED BY <2>1, <2>2 DEF DirTyped
<1>8. CASE Unpack(t) \/ ValidateInstall(t) \/ AddBundled(t) \/ ApplyDesign(t) \/ DefaultMade(t)
           \/ AddModule(t) \/ AddDone(t)
    BY <1>8 DEF Unpack, ValidateInstall, AddBundled, ApplyDesign, DefaultMade, AddModule, AddDone, dir, DirTyped
<1>9. CASE DefaultApplied(t) \/ DesignApplied(t)
    <2>1. UNCHANGED <<disk, default, module, active>> /\ start' \in {"default"} \cup Designs
        BY <1>9 DEF DefaultApplied, DesignApplied, ShapeOf
    <2> QED BY <2>1 DEF DirTyped
<1>10. CASE SwitchDone(t) \/ InstallDone(t)
    <2>1. arg[t] \in {"none", "default"} \cup Designs
        BY DEF TaskTyped
    <2>2. UNCHANGED <<disk, default, module, start>> /\ active' \in {"none", "default"} \cup Designs
        BY <1>10, <2>1 DEF SwitchDone, InstallDone, Reported, dir, DirTyped
    <2> QED BY <2>2 DEF DirTyped
<1> QED BY <1>1, <1>2, <1>3, <1>4, <1>5, <1>6, <1>7, <1>8, <1>9, <1>10 DEF Step

LEMMA StepFlagsTyped ==
    ASSUME FlagsTyped, TaskTyped, NEW t \in Tasks, Step(t)
    PROVE  FlagsTyped'
<1>a. UNCHANGED <<started, crashes, alone>>
    BY DEF Step, Throw, Refuse, Clean, Cleaned, BeginCopy, EndCopy, BeginUnzip, EndUnzip, Unpack,
           Settings, ValidateInstall, AddBundled, ApplyDesign, DefaultMade, DefaultApplied,
           DesignApplied, SwitchDone, InstallDone, AddModule, AddDone, Catch, Goto, Put, task
<1>b. installed' \in BOOLEAN
    <2>1. UNCHANGED installed \/ installed' = (start # "absent")
        BY DEF Step, Throw, Refuse, Clean, Cleaned, BeginCopy, EndCopy, BeginUnzip, EndUnzip, Unpack,
           Settings, ValidateInstall, AddBundled, ApplyDesign, DefaultMade, DefaultApplied,
           DesignApplied, SwitchDone, InstallDone, AddModule, AddDone, Catch, Put
    <2> QED BY <2>1, Zenon DEF FlagsTyped
<1>c. refused' \in BOOLEAN
    <2>1. UNCHANGED refused \/ refused' = TRUE
        BY DEF Step, Throw, Refuse, Clean, Cleaned, BeginCopy, EndCopy, BeginUnzip, EndUnzip, Unpack,
           Settings, ValidateInstall, AddBundled, ApplyDesign, DefaultMade, DefaultApplied,
           DesignApplied, SwitchDone, InstallDone, AddModule, AddDone, Goto, Put
    <2> QED BY <2>1, Zenon DEF FlagsTyped
<1>d. orderly' \in BOOLEAN
    <2>1. UNCHANGED orderly \/ orderly' = (alone /\ Empty)
        BY DEF Step, Throw, Refuse, Clean, Cleaned, BeginCopy, EndCopy, BeginUnzip, EndUnzip, Unpack,
           Settings, ValidateInstall, AddBundled, ApplyDesign, DefaultMade, DefaultApplied,
           DesignApplied, SwitchDone, InstallDone, AddModule, AddDone, Catch, Goto, Put
    <2> QED BY <2>1, Zenon DEF FlagsTyped
<1>e. spared' \in SUBSET Items
    <2>1. UNCHANGED spared \/ spared' = todo[t]
        BY DEF Step, Throw, Refuse, Clean, Cleaned, BeginCopy, EndCopy, BeginUnzip, EndUnzip, Unpack,
           Settings, ValidateInstall, AddBundled, ApplyDesign, DefaultMade, DefaultApplied,
           DesignApplied, SwitchDone, InstallDone, AddModule, AddDone, Catch, Goto, Put, task
    <2> QED BY <2>1 DEF FlagsTyped, TaskTyped
<1> QED BY <1>a, <1>b, <1>c, <1>d, <1>e DEF FlagsTyped

LEMMA FreshTyped ==
    ASSUME NEW S, NEW f \in [Tasks -> S], NEW new \in S, NEW ended \in S
    PROVE  Fresh(f, new, ended) \in [Tasks -> S]
BY DEF Fresh

LEMMA OutsideTyped ==
    ASSUME TypeOK,
           StartInstall \/ StartSwitch \/ StartAdd \/ UpdateInstalledState \/ Crash
           \/ (\E t \in Tasks : Back(t)) \/ UNCHANGED vars
    PROVE  TypeOK'
<1>a. DirTyped /\ TaskTyped /\ FlagsTyped
    BY TypeParts
<1>b. (DirTyped /\ TaskTyped /\ FlagsTyped => TypeOK)'
    BY TypeParts, PTL
<1>1. ASSUME NEW k \in {"install", "switch", "add"}, NEW d \in Designs \cup {"default"}, Start(k, d)
      PROVE  TypeOK'
    <2>1. DirTyped'
        BY <1>1, <1>a DEF Start, dir, DirTyped
    <2>2. /\ kind' = Fresh(kind, k, "none") /\ arg' = Fresh(arg, d, "none")
          /\ pc' = Fresh(pc, IF k = "switch" THEN "apply" ELSE "check", "done")
          /\ cancelled' = Fresh(cancelled, FALSE, FALSE)
          /\ UNCHANGED <<todo, writing>>
        BY <1>1 DEF Start
    <2>3. pc' \in [Tasks -> Places]
        <3>1. "apply" \in Places /\ "check" \in Places /\ "done" \in Places
            BY DEF Places, Running, Ended
        <3>2. (IF k = "switch" THEN "apply" ELSE "check") \in Places
            BY <3>1
        <3> QED BY <2>2, <3>1, <3>2, <1>a, FreshTyped DEF TaskTyped
    <2>4. kind' \in [Tasks -> {"none", "install", "switch", "add"}]
        BY <2>2, <1>1, <1>a, FreshTyped DEF TaskTyped
    <2>5. arg' \in [Tasks -> {"none", "default"} \cup Designs]
        BY <2>2, <1>1, <1>a, FreshTyped DEF TaskTyped
    <2>6. cancelled' \in [Tasks -> BOOLEAN]
        <3>1. cancelled \in [Tasks -> BOOLEAN]
            BY <1>a DEF TaskTyped
        <3> QED BY <2>2, <3>1, FreshTyped, Zenon
    <2>7. TaskTyped'
        BY <2>2, <2>3, <2>4, <2>5, <2>6, <1>a DEF TaskTyped
    <2>8. FlagsTyped'
        <3>1. started + 1 \in 0 .. MaxTasks
            BY <1>1, <1>a, BoundsAssumption DEF Start, FlagsTyped
        <3>2. /\ started' = started + 1 /\ refused' = FALSE /\ UNCHANGED <<installed, crashes>>
              /\ spared' = {} /\ alone' = (NobodyIn /\ (k = "add" => alone))
              /\ orderly' = (orderly /\ NobodyIn)
            BY <1>1 DEF Start
        <3>3. alone' \in BOOLEAN /\ orderly' \in BOOLEAN
            BY <3>2, Zenon
        <3>4. spared' \in SUBSET Items
            BY <3>2
        <3> QED BY <3>1, <3>2, <3>3, <3>4, <1>a, Zenon DEF FlagsTyped
    <2> QED BY <2>1, <2>7, <2>8, <1>b
<1>2. CASE StartInstall \/ StartSwitch \/ StartAdd
    <2>1. \E k \in {"install", "switch", "add"}, d \in Designs \cup {"default"} : Start(k, d)
        BY <1>2, Names DEF StartInstall, StartSwitch, StartAdd
    <2> QED BY <2>1, <1>1
<1>3. CASE UpdateInstalledState
    <2>1. installed' \in BOOLEAN
        BY <1>3, Zenon DEF UpdateInstalledState
    <2>2. DirTyped'
        BY <1>3, <1>a DEF UpdateInstalledState, DirTyped, dir
    <2>3. TaskTyped'
        BY <1>3, <1>a DEF UpdateInstalledState, TaskTyped, task
    <2>4. FlagsTyped'
        BY <1>3, <1>a, <2>1, Zenon DEF UpdateInstalledState, FlagsTyped, task
    <2> QED BY <2>2, <2>3, <2>4, <1>b
<1>4. CASE Crash
    <2>1. DirTyped'
        BY <1>4, <1>a DEF Crash, DirTyped, dir
    <2>2. pc' \in [Tasks -> Places]
        BY <1>4, <1>a DEF Crash, TaskTyped, Places, Ended
    <2>3. TaskTyped'
        BY <1>4, <2>2, <1>a DEF Crash, TaskTyped
    <2>4. crashes' \in 0 .. MaxCrashes
        <3>1. crashes \in 0 .. MaxCrashes /\ crashes < MaxCrashes /\ crashes' = crashes + 1
            BY <1>4, <1>a DEF Crash, FlagsTyped
        <3> QED BY <3>1, BoundsAssumption
    <2>5. installed' \in BOOLEAN /\ refused' \in BOOLEAN /\ orderly' \in BOOLEAN
        BY <1>4, <1>a, Zenon DEF Crash, FlagsTyped
    <2>6. FlagsTyped'
        <3>1. UNCHANGED <<started, alone>> /\ spared' = (IF NobodyIn THEN spared ELSE Items)
            BY <1>4 DEF Crash
        <3>2. spared' \in SUBSET Items
            BY <3>1, <1>a DEF FlagsTyped
        <3> QED BY <2>4, <2>5, <3>1, <3>2, <1>a, Zenon DEF FlagsTyped
    <2> QED BY <2>1, <2>3, <2>6, <1>b
<1>5. ASSUME NEW t \in Tasks, Back(t) PROVE TypeOK'
    <2>1. cancelled' \in [Tasks -> BOOLEAN]
        <3>1. cancelled \in [Tasks -> BOOLEAN] /\ cancelled' = [cancelled EXCEPT ![t] = TRUE]
            BY <1>5, <1>a DEF Back, TaskTyped
        <3> QED BY <3>1
    <2>2. DirTyped'
        BY <1>5, <1>a DEF Back, DirTyped, dir
    <2>3. TaskTyped'
        BY <1>5, <1>a, <2>1 DEF Back, TaskTyped
    <2>4. FlagsTyped'
        BY <1>5, <1>a DEF Back, FlagsTyped
    <2> QED BY <2>2, <2>3, <2>4, <1>b
<1>6. CASE UNCHANGED vars
    <2>1. DirTyped'
        BY <1>6, <1>a DEF vars, DirTyped, dir
    <2>2. TaskTyped'
        BY <1>6, <1>a DEF vars, TaskTyped, task
    <2>3. FlagsTyped'
        BY <1>6, <1>a DEF vars, FlagsTyped, task
    <2> QED BY <2>1, <2>2, <2>3, <1>b
<1> QED BY <1>2, <1>3, <1>4, <1>5, <1>6

LEMMA TypeStep == TypeOK /\ TaskShape /\ [Next]_vars => TypeOK'
<1> SUFFICES ASSUME TypeOK, TaskShape, [Next]_vars PROVE TypeOK'
    OBVIOUS
<1>1. ASSUME NEW t \in Tasks, Step(t) PROVE TypeOK'
    <2>1. DirTyped /\ TaskTyped /\ FlagsTyped /\ ShapeOf(t)
        BY TypeParts DEF TaskShape
    <2>2. DirTyped' /\ TaskTyped' /\ FlagsTyped'
        BY <1>1, <2>1, StepDirTyped, StepTaskTyped, StepFlagsTyped
    <2>3. (DirTyped /\ TaskTyped /\ FlagsTyped => TypeOK)'
        BY TypeParts, PTL
    <2> QED BY <2>2, <2>3
<1> QED BY <1>1, OutsideTyped DEF Next

-----------------------------------------------------------------------------
(* The task at work *)

LEMMA StepOneTask ==
    ASSUME TypeOK, OneTask, NEW t \in Tasks, Step(t)
    PROVE  OneTask'
<1>1. Local(t) /\ pc[t] \notin Ended
    BY TypeParts, StepLocal
<1>2. kind[t] # "none"
    BY <1>1 DEF OneTask
<1> QED BY <1>1, <1>2 DEF OneTask, Local

LEMMA StepShape ==
    ASSUME TypeOK, TaskShape, NEW t \in Tasks, Step(t)
    PROVE  TaskShape'
<1>a. TaskTyped /\ ShapeOf(t) /\ Local(t) /\ pc[t] \notin Ended
    BY TypeParts, StepLocal DEF TaskShape
<1> SUFFICES ShapeOf(t)'
    BY <1>a, OthersShaped DEF TaskShape
<1>b. UNCHANGED <<kind, arg, started>>
    BY <1>a DEF Local
<1> USE DEF ShapeOf
<1>1. CASE Throw(t) \/ Refuse(t)
    <2>1. pc'[t] = AfterThrow(t) /\ writing'[t] = "nothing"
        BY <1>1, <1>a, Caught DEF Throw, Refuse
    <2> QED BY <2>1, <1>a, <1>b DEF AfterThrow, Copying
<1>2. CASE Clean(t)
    <2>1. pc'[t] = pc[t] /\ writing'[t] = writing[t] /\ pc[t] = "clean"
        BY <1>2 DEF Clean
    <2> QED BY <2>1, <1>a, <1>b DEF Copying
<1>3. CASE Cleaned(t)
    <2>1. pc'[t] = "failed" /\ writing'[t] = writing[t] /\ pc[t] = "clean"
        BY <1>3, <1>a DEF Cleaned, TaskTyped
    <2> QED BY <2>1, <1>a, <1>b DEF Copying
<1>4. CASE BeginCopy(t) \/ BeginUnzip(t)
    <2>1. UNCHANGED <<pc, todo>> /\ pc[t] \in Copying \cup {"unzip"}
        BY <1>4 DEF BeginCopy, BeginUnzip, Put
    <2>2. \E w \in todo[t] : writing' = [writing EXCEPT ![t] = w]
        BY <1>4 DEF BeginCopy, BeginUnzip, NextFiles
    <2>3. writing'[t] \in todo[t]
        BY <2>2, <1>a DEF TaskTyped
    <2> QED BY <2>1, <2>3, <1>a, <1>b
<1>5. CASE EndCopy(t) \/ EndUnzip(t)
    <2>1. UNCHANGED pc
        BY <1>5 DEF EndCopy, EndUnzip, Put
    <2>2. writing' = [writing EXCEPT ![t] = "nothing"] /\ todo' = [todo EXCEPT ![t] = todo[t] \ {writing[t]}]
        BY <1>5 DEF EndCopy, EndUnzip
    <2>3. writing'[t] = "nothing" /\ todo'[t] \subseteq todo[t]
        BY <2>2, <1>a DEF TaskTyped
    <2> QED BY <2>1, <2>3, <1>a, <1>b
<1>6. CASE Unpack(t) \/ Settings(t) \/ ValidateInstall(t) \/ AddBundled(t)
    <2>1. kind[t] = "install" /\ pc[t] \in {"check", "unpack", "validate", "applied"}
        BY <1>6, <1>a DEF Unpack, Settings, ValidateInstall, AddBundled
    <2>2. writing[t] = "nothing"
        BY <1>6, <2>1, <1>a DEF Copying, Unpack, Settings, ValidateInstall, AddBundled
    <2>a. PICK place \in {"unpack", "validate", "apply", "unzip"} :
              \E things : /\ Goto(t, place, things)
                          /\ place = "unpack" => things = Files
                          /\ place = "unzip" => things \subseteq Designs
        BY <1>6, Names DEF Unpack, Settings, ValidateInstall, AddBundled, ToAdd
    <2>3. PICK things : /\ Goto(t, place, things)
                        /\ place = "unpack" => things = Files
                        /\ place = "unzip" => things \subseteq Designs
        BY <2>a
    <2>4. pc'[t] = place /\ todo'[t] = things /\ writing'[t] = "nothing"
        BY <2>2, <2>3, <1>a, Moved
    <2> QED BY <2>1, <2>3, <2>4, <1>a, <1>b DEF Copying
<1>7. CASE ApplyDesign(t) \/ DefaultMade(t)
    <2>1. kind[t] \in {"install", "switch"} /\ writing[t] = "nothing"
        BY <1>7, <1>a DEF ApplyDesign, DefaultMade, Copying
    <2>2. PICK stage \in {"backup", "restore"} : Goto(t, stage, StageFiles(stage))
        BY <1>7, Staged DEF ApplyDesign, DefaultMade
    <2>3. pc'[t] = stage /\ todo'[t] \subseteq Files /\ writing'[t] = "nothing"
        BY <2>1, <2>2, <1>a, Moved, Staged
    <2> QED BY <2>1, <2>3, <1>a, <1>b
<1>8. CASE DefaultApplied(t) \/ DesignApplied(t)
    <2>1. kind[t] \in {"install", "switch"} /\ writing[t] = "nothing"
        BY <1>8, <1>a DEF DefaultApplied, DesignApplied
    <2>2. CASE Goto(t, "applied", {})
        <3>1. pc'[t] = "applied" /\ writing'[t] = "nothing"
            BY <2>1, <2>2, <1>a, Moved
        <3> QED BY <2>1, <3>1, <1>a, <1>b DEF Copying
    <2>3. CASE ~Goto(t, "applied", {})
        <3>1. arg[t] \in Designs
            BY <1>8, <2>1, <2>3, <1>a, Names DEF DefaultApplied, DesignApplied
        <3>2. PICK files \in Versions(arg[t]) : Goto(t, "override", files)
            BY <1>8, <2>3 DEF DefaultApplied, DesignApplied
        <3>3. pc'[t] = "override" /\ todo'[t] = files /\ writing'[t] = "nothing"
            BY <2>1, <3>2, <1>a, Moved
        <3>4. files \subseteq Files
            BY <3>1, VersionsReplace
        <3> QED BY <2>1, <3>1, <3>3, <3>4, <1>a, <1>b
    <2> QED BY <2>2, <2>3
<1>9. CASE SwitchDone(t) \/ InstallDone(t) \/ AddDone(t)
    <2>1. writing[t] = "nothing"
        BY <1>9, <1>a DEF SwitchDone, InstallDone, AddDone, Copying
    <2>2. pc'[t] = "done" /\ writing'[t] = "nothing"
        BY <1>9, <2>1, <1>a, Moved DEF SwitchDone, InstallDone, AddDone
    <2> QED BY <2>2, <1>a, <1>b DEF Copying
<1>10. CASE AddModule(t)
    <2>1. kind[t] = "add" /\ writing[t] = "nothing"
        BY <1>10, <1>a DEF AddModule, Copying
    <2>2. pc'[t] = "unzip" /\ todo'[t] = {arg[t]} /\ writing'[t] = "nothing"
        BY <1>10, <2>1, <1>a, Moved DEF AddModule
    <2> QED BY <2>1, <2>2, <1>a, <1>b DEF Copying
<1> QED BY <1>1, <1>2, <1>3, <1>4, <1>5, <1>6, <1>7, <1>8, <1>9, <1>10 DEF Step

\* Only the end of an install or of a switch reports something.
LEMMA StepReports ==
    ASSUME NEW t \in Tasks, Step(t), ~SwitchDone(t), ~InstallDone(t)
    PROVE  UNCHANGED active
BY DEF Step, Throw, Refuse, Clean, Cleaned, BeginCopy, EndCopy, BeginUnzip, EndUnzip, Unpack,
       Settings, ValidateInstall, AddBundled, ApplyDesign, DefaultMade, DefaultApplied,
       DesignApplied, AddModule, AddDone, Catch, Put

LEMMA StepActiveFrozen ==
    ASSUME TypeOK, OneTask, TaskShape, ActiveFrozen, NEW t \in Tasks, Step(t)
    PROVE  ActiveFrozen'
<1>a. TaskTyped /\ Local(t) /\ pc[t] \notin Ended
    BY TypeParts, StepLocal
<1>b. \A u \in Tasks : u # t => pc'[u] \in Ended
    BY <1>a, OthersKept
<1>1. CASE SwitchDone(t) \/ InstallDone(t)
    <2>1. pc'[t] = "done"
        BY <1>1, <1>a, Moved DEF SwitchDone, InstallDone
    <2> QED BY <1>b, <2>1 DEF ActiveFrozen, Ended
<1>2. CASE ~SwitchDone(t) /\ ~InstallDone(t)
    <2>1. UNCHANGED <<active, kind>>
        BY <1>2, <1>a, StepReports DEF Local
    <2> QED BY <1>a, <1>b, <2>1 DEF ActiveFrozen
<1> QED BY <1>1, <1>2

-----------------------------------------------------------------------------
(* What is applied *)

\* A module that is unpacked is another one.
LEMMA UnzipKeepsExact ==
    ASSUME DirTyped, NEW a, Exact(a), NEW d \in Designs, d # a, NEW s,
           module' = [module EXCEPT ![d] = s], UNCHANGED <<disk, default, start>>
    PROVE  Exact(a)'
<1>1. a \in Designs => module'[a] = module[a]
    BY DEF DirTyped
<1> QED BY <1>1 DEF Exact, There, Whole, Version

LEMMA AbsentIsOther ==
    ASSUME NEW a, There(a), NEW d \in Designs, module[d] = "absent"
    PROVE  d # a
BY DEF There

LEMMA StepActiveExact ==
    ASSUME TypeOK, OneTask, TaskShape, ActiveFrozen, ActiveExact, Stages, NEW t \in Tasks, Step(t)
    PROVE  ActiveExact'
<1>a. DirTyped /\ TaskTyped /\ ShapeOf(t) /\ StagesOf(t) /\ pc[t] \notin Ended
    BY TypeParts, StepLocal DEF TaskShape, Stages
<1> SUFFICES ASSUME active' # "none" PROVE Exact(active)'
    BY DEF ActiveExact
<1>1. CASE SwitchDone(t) \/ InstallDone(t)
    <2>a. active = "none"
        BY <1>1, <1>a DEF SwitchDone, InstallDone, ActiveFrozen
    <2>1. active' = arg[t] /\ UNCHANGED <<disk, default, module, start>>
        BY <1>1, <2>a DEF SwitchDone, InstallDone, Reported, dir
    <2>2. Exact(arg[t])
        BY <1>1, <1>a DEF SwitchDone, InstallDone, StagesOf
    <2> QED BY <2>1, <2>2 DEF Exact, There, Whole, Version
<1>2. CASE ~SwitchDone(t) /\ ~InstallDone(t)
    <2>1. UNCHANGED active /\ Exact(active)
        BY <1>2, StepReports DEF ActiveExact
    <2>2. kind[t] = "add"
        BY <1>a, <2>1 DEF ActiveFrozen
    <2>3. Throw(t) \/ BeginUnzip(t) \/ EndUnzip(t) \/ AddModule(t) \/ AddDone(t)
        BY <1>2, <1>a, <2>2 DEF Step, ShapeOf, Refuse, Clean, Cleaned, BeginCopy, EndCopy, Copying, Unpack,
           Settings, ValidateInstall, AddBundled, ApplyDesign, DefaultMade, DefaultApplied, DesignApplied
    <2>4. CASE Throw(t) \/ AddModule(t) \/ AddDone(t)
        <3>1. UNCHANGED <<disk, default, module, start>>
            BY <2>4 DEF Throw, Catch, AddModule, AddDone, dir
        <3> QED BY <2>1, <3>1 DEF Exact, There, Whole, Version
    <2>5. CASE BeginUnzip(t)
        <3>1. PICK d \in Designs : module[d] = "absent" /\ module' = [module EXCEPT ![d] = "partial"]
            BY <2>5, <1>a DEF BeginUnzip, ShapeOf
        <3>2. d # active
            BY <2>1, <3>1, AbsentIsOther DEF Exact
        <3>3. UNCHANGED <<disk, default, start>>
            BY <2>5 DEF BeginUnzip
        <3>4. active \in Designs => module'[active] = module[active]
            BY <1>a, <3>1, <3>2 DEF DirTyped
        <3> QED BY <2>1, <3>3, <3>4 DEF Exact, There, Whole, Version
    <2>6. CASE EndUnzip(t)
        <3>1. writing[t] \in Designs /\ writing[t] # active
            BY <2>6, <1>a DEF EndUnzip, StagesOf
        <3>2. module' = [module EXCEPT ![writing[t]] = "whole"] /\ UNCHANGED <<disk, default, start>>
            BY <2>6 DEF EndUnzip
        <3>3. active \in Designs => module'[active] = module[active]
            BY <1>a, <3>1, <3>2 DEF DirTyped
        <3> QED BY <2>1, <3>2, <3>3 DEF Exact, There, Whole, Version
    <2> QED BY <2>3, <2>4, <2>5, <2>6
<1> QED BY <1>1, <1>2

LEMMA StepStages ==
    ASSUME TypeOK, OneTask, TaskShape, ActiveFrozen, ActiveExact, Stages, NEW t \in Tasks, Step(t)
    PROVE  Stages'
<1>a. DirTyped /\ TaskTyped /\ ShapeOf(t) /\ StagesOf(t) /\ Local(t) /\ pc[t] \notin Ended
    BY TypeParts, StepLocal DEF TaskShape, Stages
<1> SUFFICES StagesOf(t)'
    BY <1>a, OthersKept DEF Stages
<1>b. UNCHANGED <<kind, arg>>
    BY <1>a DEF Local
<1>1. CASE Throw(t) \/ Refuse(t) \/ Clean(t) \/ Cleaned(t)
    <2>1. pc'[t] \in {"clean", "failed"} /\ writing'[t] = "nothing"
        <3>1. CASE Throw(t) \/ Refuse(t)
            BY <3>1, <1>a, Caught DEF Throw, Refuse, AfterThrow
        <3>2. CASE Clean(t) \/ Cleaned(t)
            <4>1. writing[t] = "nothing" /\ UNCHANGED writing
                BY <3>2, <1>a DEF Clean, Cleaned, ShapeOf, Copying
            <4> QED BY <3>2, <1>a, <4>1 DEF Clean, Cleaned, TaskTyped
        <3> QED BY <1>1, <3>1, <3>2
    <2> QED BY <2>1, Names DEF StagesOf
<1>2. CASE BeginCopy(t)
    <2>1. PICK f \in todo[t] : writing' = [writing EXCEPT ![t] = f] /\ Put(t, f, "torn")
        BY <1>2 DEF BeginCopy, NextFiles
    <2>2. f \in Files /\ UNCHANGED <<pc, todo, module, start, active>> /\ pc[t] \in Copying
        BY <1>2, <1>a, <2>1 DEF BeginCopy, ShapeOf, Put
    <2>3. writing'[t] \notin Designs
        BY <1>a, <2>1, <2>2, Names DEF TaskTyped
    <2>4. pc[t] # "backup" => UNCHANGED default /\ \A g \in Files : g # f => disk'[g] = disk[g]
        BY <1>a, <2>1, <2>2 DEF Put, DirTyped
    <2> QED BY <1>a, <1>b, <2>1, <2>2, <2>3, <2>4 DEF StagesOf, Copying, Whole, There, Version
<1>3. CASE EndCopy(t)
    <2> DEFINE f == writing[t]
    <2>1. PICK c \in Copied(t, f) : Put(t, f, c)
        BY <1>3 DEF EndCopy
    <2>2. f \in Files /\ f \in todo[t] /\ UNCHANGED <<pc, module, start, active>> /\ pc[t] \in Copying
        BY <1>3, <1>a, <2>1, Names DEF EndCopy, ShapeOf, Put
    <2>3. writing'[t] = "nothing" /\ todo'[t] = todo[t] \ {f}
        BY <1>3, <1>a DEF EndCopy, TaskTyped
    <2>4. pc[t] # "backup" =>
              UNCHANGED default /\ disk'[f] = c /\ \A g \in Files : g # f => disk'[g] = disk[g]
        BY <1>a, <2>1, <2>2 DEF Put, DirTyped
    <2>a. pc'[t] \in {"backup", "restore", "override"} => There(arg[t])'
        BY <1>a, <1>b, <2>2 DEF StagesOf, There
    <2>5. CASE pc[t] \in {"unpack", "backup"}
        BY <2>2, <2>3, <2>5, <2>a, Names DEF StagesOf
    <2>6. CASE pc[t] = "restore"
        <3>1. c = default[f]
            BY <2>1, <2>6 DEF Copied
        <3> QED BY <1>a, <2>2, <2>3, <2>4, <2>6, <2>a, <3>1, Names DEF StagesOf
    <2>7. CASE pc[t] = "override"
        <3>1. arg[t] \in Designs /\ f \in Replaces[arg[t]]
            BY <1>a, <2>2, <2>7 DEF ShapeOf, StagesOf
        <3>2. Whole(arg[t]) /\ default[f] = "orig" => c = arg[t]
            BY <2>1, <2>7, <3>1 DEF Copied, Whole
        <3>3. Version(arg[t], f) = arg[t]
            BY <3>1 DEF Version
        <3>4. UNCHANGED default /\ UNCHANGED arg /\ UNCHANGED module
            BY <2>2, <2>4, <2>7, <1>b
        <3> QED BY <1>a, <2>2, <2>3, <2>4, <2>7, <2>a, <3>2, <3>3, <3>4, Names DEF StagesOf, Whole, Version
    <2> QED BY <2>2, <2>5, <2>6, <2>7 DEF Copying
<1>4. CASE BeginUnzip(t)
    <2>1. PICK d \in Designs : /\ module[d] = "absent" /\ module' = [module EXCEPT ![d] = "partial"]
                               /\ writing' = [writing EXCEPT ![t] = d]
        BY <1>4, <1>a DEF BeginUnzip, ShapeOf
    <2>2. UNCHANGED <<pc, disk, default, start, active>> /\ pc[t] = "unzip" /\ writing'[t] = d
        BY <1>4, <1>a, <2>1 DEF BeginUnzip, TaskTyped
    <2>3. d # active
        BY <2>1, Names, AbsentIsOther DEF ActiveExact, Exact
    <2>4. CASE kind[t] = "install"
        <3>1. arg[t] = First /\ Exact(First)
            BY <1>a, <2>2, <2>4 DEF ShapeOf, StagesOf
        <3>2. d # First
            BY <2>1, <3>1, AbsentIsOther DEF Exact
        <3>3. Exact(First)'
            BY <1>a, <2>1, <2>2, <3>1, <3>2, UnzipKeepsExact
        <3> QED BY <1>b, <2>2, <2>3, <3>1, <3>2, <3>3 DEF StagesOf
    <2> QED BY <1>b, <2>2, <2>3, <2>4 DEF StagesOf
<1>5. CASE EndUnzip(t)
    <2>1. UNCHANGED <<pc, disk, default, start, active>> /\ pc[t] = "unzip" /\ writing'[t] = "nothing"
          /\ module' = [module EXCEPT ![writing[t]] = "whole"] /\ writing[t] \in Designs
        BY <1>5, <1>a DEF EndUnzip, TaskTyped
    <2>2. CASE kind[t] = "install"
        <3>1. arg[t] = First /\ Exact(First) /\ writing[t] # First
            BY <1>a, <2>1, <2>2 DEF ShapeOf, StagesOf
        <3>2. Exact(First)'
            BY <1>a, <2>1, <3>1, UnzipKeepsExact
        <3> QED BY <1>b, <2>1, <3>1, <3>2, Names DEF StagesOf
    <2> QED BY <1>b, <2>1, <2>2, Names DEF StagesOf
<1>6. CASE Unpack(t) \/ Settings(t) \/ ValidateInstall(t) \/ SwitchDone(t) \/ InstallDone(t) \/ AddDone(t)
    <2>1. writing[t] = "nothing"
        BY <1>6, <1>a DEF ShapeOf, Unpack, Settings, ValidateInstall, SwitchDone, InstallDone, AddDone, Copying
    <2>2. \E place \in {"unpack", "validate", "apply", "done"} : \E things : Goto(t, place, things)
        BY <1>6 DEF Unpack, Settings, ValidateInstall, SwitchDone, InstallDone, AddDone
    <2>3. pc'[t] \in {"unpack", "validate", "apply", "done"} /\ writing'[t] = "nothing"
        BY <1>a, <2>1, <2>2, Moved
    <2> QED BY <2>3, Names DEF StagesOf
<1>7. CASE AddBundled(t) \/ AddModule(t)
    <2>1. writing[t] = "nothing" /\ UNCHANGED <<disk, default, module, start>>
        BY <1>7, <1>a DEF ShapeOf, AddBundled, AddModule, Copying, dir
    <2>2. pc'[t] = "unzip" /\ writing'[t] = "nothing"
        BY <1>7, <1>a, <2>1, Moved DEF AddBundled, AddModule
    <2>3. kind[t] = "install" => Exact(arg[t])
        BY <1>7, <1>a DEF StagesOf, AddBundled, AddModule
    <2> QED BY <1>b, <2>1, <2>2, <2>3, Names DEF StagesOf, Exact, There, Whole, Version
<1>8. CASE ApplyDesign(t) \/ DefaultMade(t)
    <2>1. writing[t] = "nothing" /\ UNCHANGED default
        BY <1>8, <1>a DEF ShapeOf, ApplyDesign, DefaultMade, Copying, dir
    <2>2. PICK stage \in {"backup", "restore"} : Goto(t, stage, StageFiles(stage))
        BY <1>8, Staged DEF ApplyDesign, DefaultMade
    <2>3. pc'[t] = stage /\ todo'[t] = StageFiles(stage) /\ writing'[t] = "nothing"
        BY <1>a, <2>1, <2>2, Moved
    <2>4. \A f \in Files : default[f] = "orig" => f \in Kept
        BY DEF Kept
    <2>5. There(arg[t])
        BY <1>8, <1>a, Names DEF ApplyDesign, DefaultMade, Exists, There, StagesOf
    <2>6. UNCHANGED module
        BY <1>8 DEF ApplyDesign, DefaultMade, dir
    <2>7. There(arg[t])'
        BY <1>b, <2>5, <2>6 DEF There
    <2> QED BY <2>1, <2>2, <2>3, <2>4, <2>7, Staged, Names DEF StagesOf
<1>9. CASE DefaultApplied(t)
    <2>1. /\ writing[t] = "nothing" /\ pc[t] = "restore" /\ todo[t] = {} /\ start' = "default"
          /\ UNCHANGED <<disk, default, module>>
        BY <1>9 DEF DefaultApplied
    <2>2. \A f \in Files : default[f] = "orig" => disk[f] = "orig"
        BY <1>a, <2>1 DEF StagesOf
    <2>3. CASE arg[t] = "default"
        <3>1. pc'[t] = "applied" /\ writing'[t] = "nothing"
            BY <1>9, <1>a, <2>1, <2>3, Moved DEF DefaultApplied
        <3>2. Exact(arg[t])'
            BY <1>b, <2>1, <2>2, <2>3, Names DEF Exact, There, Whole, Version
        <3> QED BY <3>1, <3>2, Names DEF StagesOf
    <2>4. CASE arg[t] # "default"
        <3>1. PICK files \in Versions(arg[t]) : Goto(t, "override", files)
            BY <1>9, <2>4 DEF DefaultApplied
        <3>2. arg[t] \in Designs
            BY <1>a, <2>1, <2>4, Names DEF ShapeOf
        <3>3. pc'[t] = "override" /\ todo'[t] = files /\ writing'[t] = "nothing"
            BY <1>a, <2>1, <3>1, Moved
        <3>4. files \subseteq Replaces[arg[t]]
            BY <3>2, VersionsReplace
        <3>5. Whole(arg[t]) => files = Replaces[arg[t]]
            BY <3>2 DEF Whole, Versions
        <3>6. Whole(arg[t]) => \A f \in Files : default[f] = "orig" =>
                  f \in files \/ disk[f] = Version(arg[t], f)
            BY <2>2, <3>5 DEF Version
        <3>7. UNCHANGED <<arg, module, disk, default>>
            BY <1>b, <2>1
        <3>8. There(arg[t])'
            BY <1>a, <2>1, <3>7 DEF StagesOf, There
        <3> QED BY <3>3, <3>4, <3>6, <3>7, <3>8, Names DEF StagesOf, Whole, Version
    <2> QED BY <2>3, <2>4
<1>10. CASE DesignApplied(t)
    <2>1. /\ writing[t] = "nothing" /\ pc[t] = "override" /\ todo[t] = {} /\ start' = arg[t]
          /\ UNCHANGED <<disk, default, module>> /\ There(arg[t])
        BY <1>10, <1>a DEF DesignApplied, StagesOf
    <2>2. pc'[t] = "applied" /\ writing'[t] = "nothing"
        BY <1>10, <1>a, <2>1, Moved DEF DesignApplied
    <2>3. Whole(arg[t]) => \A f \in Files : default[f] = "orig" => disk[f] = Version(arg[t], f)
        BY <1>a, <2>1 DEF StagesOf
    <2>4. Exact(arg[t])'
        BY <1>b, <2>1, <2>3 DEF Exact, There, Whole, Version
    <2> QED BY <2>2, <2>4, Names DEF StagesOf
<1> QED BY <1>1, <1>2, <1>3, <1>4, <1>5, <1>6, <1>7, <1>8, <1>9, <1>10 DEF Step

-----------------------------------------------------------------------------
(* The stages of an install, and of a directory an install filled *)

LEMMA DeletedIsGone ==
    ASSUME DirTyped, NEW e, Delete(e)
    PROVE  Entries' \subseteq Entries \ {e}
<1>1. Present' \subseteq Present \ {e}
    BY DEF Present, Delete, DirTyped
<1>2. {d \in Designs : module'[d] # "absent"} \subseteq {d \in Designs : module[d] # "absent"} \ {e}
    BY DEF Delete, DirTyped
<1>3. ~NoDefault' => ~NoDefault /\ e # "default"
    BY DEF NoDefault, Delete
<1>4. start' # "absent" => start # "absent" /\ e # "start"
    BY DEF Delete
<1>5. \A x \in Entries' : x \in Entries /\ x # e
    BY <1>1, <1>2, <1>3, <1>4 DEF Entries
<1> QED BY <1>5

LEMMA PartIsNoMore ==
    ASSUME DirTyped, NEW e, DeletePart(e)
    PROVE  Entries' \subseteq Entries
<1>1. UNCHANGED <<disk, start>> /\ Present' = Present
    BY DEF DeletePart, Present
<1>2. \A d \in Designs : module'[d] # "absent" => module[d] # "absent"
    BY DEF DeletePart, DirTyped
<1>3. ~NoDefault' => ~NoDefault
    BY DEF NoDefault, DeletePart, DirTyped
<1> QED BY <1>1, <1>2, <1>3 DEF Entries

LEMMA StepInstall ==
    ASSUME TypeOK, OneTask, TaskShape, Stages, InstallStages, NEW t \in Tasks, Step(t)
    PROVE  InstallStages'
<1>a. DirTyped /\ TaskTyped /\ ShapeOf(t) /\ StagesOf(t) /\ InstallOf(t) /\ Local(t) /\ pc[t] \notin Ended
    BY TypeParts, StepLocal DEF TaskShape, Stages, InstallStages
<1> SUFFICES ASSUME kind[t] = "install" PROVE InstallOf(t)'
    <2>1. kind[t] # "install" => InstallOf(t)'
        BY <1>a DEF Local, InstallOf
    <2> QED BY <1>a, <2>1, OthersKept DEF InstallStages
<1>b. UNCHANGED <<kind, arg, cancelled>> /\ arg[t] = First
    BY <1>a DEF Local, ShapeOf
<1>1. CASE Throw(t) \/ Refuse(t)
    <2>1. pc'[t] = "clean" /\ todo'[t] = Entries /\ UNCHANGED <<disk, default, module, start>>
        BY <1>1, <1>a, Caught DEF Throw, Refuse, AfterThrow
    <2>2. Entries' = Entries
        BY <2>1 DEF Entries, Present, NoDefault
    <2> QED BY <2>1, <2>2 DEF InstallOf
<1>2. CASE Clean(t)
    <2>1. PICK e \in todo[t] : \/ Delete(e) /\ todo' = [todo EXCEPT ![t] = todo[t] \ {e}]
                               \/ DeletePart(e) /\ UNCHANGED todo
        BY <1>2 DEF Clean
    <2>2. pc'[t] = "clean" /\ pc[t] = "clean" /\ Entries \subseteq todo[t]
        BY <1>2, <1>a DEF Clean, InstallOf
    <2>3. CASE Delete(e) /\ todo' = [todo EXCEPT ![t] = todo[t] \ {e}]
        <3>1. todo'[t] = todo[t] \ {e}
            BY <1>a, <2>3 DEF TaskTyped
        <3>2. Entries' \subseteq Entries \ {e}
            BY <1>a, <2>3, DeletedIsGone
        <3> QED BY <2>2, <3>1, <3>2 DEF InstallOf
    <2>4. CASE DeletePart(e) /\ UNCHANGED todo
        <3>1. Entries' \subseteq Entries
            BY <1>a, <2>4, PartIsNoMore
        <3> QED BY <2>2, <2>4, <3>1 DEF InstallOf
    <2> QED BY <2>1, <2>3, <2>4
<1>3. CASE Cleaned(t)
    <2>1. pc'[t] = "failed" /\ pc[t] = "clean" /\ spared' = todo[t]
          /\ UNCHANGED <<disk, default, module, start>>
        BY <1>3, <1>a DEF Cleaned, TaskTyped, dir
    <2>2. Entries' = Entries /\ Entries \subseteq todo[t]
        BY <1>a, <2>1 DEF InstallOf, Entries, Present, NoDefault
    <2> QED BY <2>1, <2>2 DEF InstallOf
<1>4. CASE BeginCopy(t)
    <2>1. PICK f \in todo[t] : Put(t, f, "torn")
        BY <1>4 DEF BeginCopy, NextFiles
    <2>2. f \in Files /\ UNCHANGED <<pc, todo, module>> /\ pc[t] \in Copying
        BY <1>4, <1>a, <2>1 DEF BeginCopy, ShapeOf, Put
    <2>3. CASE pc[t] = "backup"
        <3>1. UNCHANGED disk /\ \A g \in Files : g # f => default'[g] = default[g]
            BY <1>a, <2>1, <2>2, <2>3 DEF Put, DirTyped
        <3> QED BY <1>a, <2>1, <2>2, <2>3, <3>1 DEF InstallOf, Original
    <2>4. CASE pc[t] # "backup"
        <3>1. UNCHANGED default /\ disk'[f] = "torn" /\ \A g \in Files : g # f => disk'[g] = disk[g]
            BY <1>a, <2>1, <2>2, <2>4 DEF Put, DirTyped
        <3> QED BY <1>a, <2>1, <2>2, <2>4, <3>1 DEF InstallOf, NoDefault, Furnished, Copying
    <2> QED BY <2>3, <2>4
<1>5. CASE EndCopy(t)
    <2> DEFINE f == writing[t]
    <2>1. PICK c \in Copied(t, f) : Put(t, f, c)
        BY <1>5 DEF EndCopy
    <2>2. f \in Files /\ UNCHANGED <<pc, module>> /\ pc[t] \in Copying /\ todo'[t] = todo[t] \ {f}
        BY <1>5, <1>a, <2>1 DEF EndCopy, Put, TaskTyped
    <2>3. CASE pc[t] = "backup"
        <3>1. c = disk[f]
            BY <2>1, <2>3 DEF Copied
        <3>2. UNCHANGED disk /\ default'[f] = c /\ \A g \in Files : g # f => default'[g] = default[g]
            BY <1>a, <2>1, <2>2, <2>3 DEF Put, DirTyped
        <3> QED BY <1>a, <2>2, <2>3, <3>1, <3>2 DEF InstallOf, Original
    <2>4. CASE pc[t] = "unpack"
        <3>1. UNCHANGED default
            BY <2>1, <2>4 DEF Put
        <3> QED BY <1>a, <2>2, <2>4, <3>1 DEF InstallOf, NoDefault
    <2>5. CASE pc[t] \in {"restore", "override"}
        <3>1. UNCHANGED default /\ disk'[f] = c /\ \A g \in Files : g # f => disk'[g] = disk[g]
            BY <1>a, <2>1, <2>2, <2>5 DEF Put, DirTyped
        <3>2. Furnished /\ module[First] = "whole"
            BY <1>a, <2>5 DEF InstallOf
        <3>3. c # "absent"
            BY <1>b, <2>1, <2>2, <2>5, <3>2, Names DEF Copied, Furnished
        <3>4. Furnished'
            BY <2>2, <3>1, <3>2, <3>3 DEF Furnished
        <3> QED BY <2>2, <2>5, <3>2, <3>4 DEF InstallOf
    <2> QED BY <2>2, <2>3, <2>4, <2>5 DEF Copying
<1>6. CASE BeginUnzip(t) \/ EndUnzip(t)
    <2>1. UNCHANGED <<pc, disk, default>> /\ pc[t] = "unzip"
        BY <1>6 DEF BeginUnzip, EndUnzip
    <2>2. Furnished /\ module[First] = "whole" /\ \A d \in Bundled \ todo[t] : module[d] = "whole"
        BY <1>a, <2>1 DEF InstallOf
    <2>3. CASE BeginUnzip(t)
        <3>1. PICK d \in todo[t] : module[d] = "absent" /\ module' = [module EXCEPT ![d] = "partial"]
            BY <2>3 DEF BeginUnzip
        <3>2. UNCHANGED todo /\ d # First
            BY <2>2, <2>3, <3>1 DEF BeginUnzip
        <3>3. module'[First] = "whole" /\ \A b \in Bundled \ todo[t] : module'[b] = "whole"
            BY <1>a, <2>2, <3>1, <3>2, Names DEF DirTyped
        <3> QED BY <2>1, <2>2, <3>2, <3>3 DEF InstallOf, Furnished
    <2>4. CASE EndUnzip(t)
        <3>1. module' = [module EXCEPT ![writing[t]] = "whole"] /\ todo'[t] = todo[t] \ {writing[t]}
            BY <1>a, <2>4 DEF EndUnzip, TaskTyped
        <3>2. module'[First] = "whole" /\ \A b \in Bundled \ todo'[t] : module'[b] = "whole"
            BY <1>a, <2>2, <3>1, Names DEF DirTyped
        <3> QED BY <2>1, <2>2, <3>2 DEF InstallOf, Furnished
    <2> QED BY <1>6, <2>3, <2>4
<1>7. CASE Unpack(t)
    <2>1. pc'[t] = "unpack" /\ UNCHANGED default /\ Empty
        BY <1>7, <1>a, Moved DEF Unpack, dir
    <2> QED BY <2>1 DEF InstallOf, Empty, NoDefault
<1>8. CASE Settings(t)
    <2>1. pc'[t] = "validate" /\ pc[t] = "unpack" /\ UNCHANGED default
          /\ module' = [module EXCEPT ![First] = "whole"]
        BY <1>8, <1>a, Moved DEF Settings
    <2>2. module'[First] = "whole"
        BY <1>a, <2>1, Names DEF DirTyped
    <2> QED BY <1>a, <2>1, <2>2 DEF InstallOf, NoDefault
<1>9. CASE ValidateInstall(t)
    <2>1. pc'[t] = "apply" /\ pc[t] = "validate" /\ UNCHANGED <<disk, default, module>> /\ Original
        BY <1>9, <1>a, Moved DEF ValidateInstall, Valid, Original, dir
    <2> QED BY <1>a, <2>1 DEF InstallOf, NoDefault, Original
<1>10. CASE AddBundled(t)
    <2>1. pc'[t] = "unzip" /\ todo'[t] = Bundled /\ pc[t] = "applied" /\ UNCHANGED <<disk, default, module>>
        BY <1>10, <1>a, Moved DEF AddBundled, ToAdd, dir
    <2> QED BY <1>a, <2>1 DEF InstallOf, Furnished
<1>11. CASE ApplyDesign(t)
    <2>1. pc[t] = "apply" /\ UNCHANGED <<disk, default, module>>
        BY <1>11 DEF ApplyDesign, dir
    <2>2. NoDefault /\ Original /\ module[First] = "whole"
        BY <1>a, <2>1 DEF InstallOf
    <2>3. FirstStage = "backup" /\ Present = Files
        BY <2>2 DEF FirstStage, Present, Original
    <2>4. pc'[t] = "backup" /\ todo'[t] = Files
        BY <1>11, <1>a, <2>3, Moved, Staged DEF ApplyDesign
    <2> QED BY <2>1, <2>2, <2>4 DEF InstallOf, Original
<1>12. CASE DefaultMade(t)
    <2>1. pc[t] = "backup" /\ todo[t] = {} /\ UNCHANGED <<disk, default, module>>
        BY <1>12 DEF DefaultMade, dir
    <2>2. pc'[t] = "restore"
        BY <1>12, <1>a, Moved DEF DefaultMade
    <2>3. Furnished /\ module[First] = "whole"
        BY <1>a, <2>1 DEF InstallOf, Original, Furnished
    <2> QED BY <2>1, <2>2, <2>3 DEF InstallOf, Furnished
<1>13. CASE DefaultApplied(t) \/ DesignApplied(t)
    <2>1. pc[t] \in {"restore", "override"} /\ UNCHANGED <<disk, default, module>>
        BY <1>13 DEF DefaultApplied, DesignApplied
    <2>2. \E place \in {"applied", "override"} : \E things : Goto(t, place, things)
        BY <1>13 DEF DefaultApplied, DesignApplied
    <2>3. pc'[t] \in {"applied", "override"}
        BY <1>a, <2>2, Moved
    <2> QED BY <1>a, <2>1, <2>3 DEF InstallOf, Furnished
<1>14. CASE InstallDone(t)
    <2>1. pc'[t] = "done" /\ pc[t] = "unzip" /\ todo[t] = {} /\ UNCHANGED <<disk, default, module, start>>
        BY <1>14, <1>a, Moved DEF InstallDone, dir
    <2>2. start = First
        BY <1>a, <1>b, <2>1 DEF StagesOf, Exact
    <2>3. installed' = (start # "absent") /\ (~cancelled[t] => active' = First)
        BY <1>14, <1>b DEF InstallDone, Reported
    <2>4. installed'
        BY <2>2, <2>3, Names
    <2>5. Furnished /\ module[First] = "whole" /\ \A d \in Bundled : module[d] = "whole"
        BY <1>a, <2>1 DEF InstallOf
    <2> QED BY <1>b, <2>1, <2>3, <2>4, <2>5 DEF InstallOf, Furnished
<1>15. CASE SwitchDone(t) \/ AddModule(t) \/ AddDone(t)
    BY <1>15 DEF SwitchDone, AddModule, AddDone
<1> QED BY <1>1, <1>2, <1>3, <1>4, <1>5, <1>6, <1>7, <1>8, <1>9, <1>10, <1>11, <1>12, <1>13,
           <1>14, <1>15 DEF Step

LEMMA StepOrderly ==
    ASSUME TypeOK, OneTask, TaskShape, Stages, InstallStages, OrderlyStages, NEW t \in Tasks, Step(t)
    PROVE  OrderlyStages'
<1>a. DirTyped /\ TaskTyped /\ ShapeOf(t) /\ InstallOf(t) /\ Local(t) /\ pc[t] \notin Ended
    BY TypeParts, StepLocal DEF TaskShape, InstallStages
<1>b. UNCHANGED kind
    BY <1>a DEF Local
<1>c. \A u \in Tasks : u # t => pc[u] \in Ended /\ pc'[u] \in Ended /\ kind'[u] = "none"
    BY <1>a, OthersQuiet, OthersKept
<1>d. InstallOf(t)'
    BY StepInstall DEF InstallStages
<1> SUFFICES ASSUME orderly'
             PROVE  /\ Settled' => Bare' \/ Furnished'
                    /\ pc'[t] = "backup" => kind'[t] = "install"
                    /\ pc'[t] \in {"restore", "override", "applied"} => Furnished'
    BY <1>c DEF OrderlyStages, Ended
<1>1. CASE kind[t] = "install"
    <2>1. pc'[t] \in {"restore", "override", "applied"} => Furnished'
        BY <1>b, <1>d, <1>1 DEF InstallOf
    <2>2. ASSUME Settled' PROVE Bare' \/ Furnished'
        <3>1. pc'[t] \in Ended \cup {"check"}
            BY <1>b, <1>1, <2>2 DEF Settled
        <3>2. Cleaned(t) \/ InstallDone(t)
            <4>1. CASE Throw(t) \/ Refuse(t)
                BY <1>1, <1>a, <3>1, <4>1, Caught DEF Throw, Refuse, AfterThrow, Ended
            <4>2. CASE Clean(t) \/ BeginCopy(t) \/ EndCopy(t) \/ BeginUnzip(t) \/ EndUnzip(t)
                BY <3>1, <4>2 DEF Clean, BeginCopy, EndCopy, BeginUnzip, EndUnzip, Put, Copying, Ended
            <4>3. CASE SwitchDone(t) \/ AddModule(t) \/ AddDone(t)
                BY <1>1, <4>3 DEF SwitchDone, AddModule, AddDone
            <4>4. CASE Unpack(t) \/ Settings(t) \/ ValidateInstall(t) \/ AddBundled(t) \/ ApplyDesign(t)
                       \/ DefaultMade(t) \/ DefaultApplied(t) \/ DesignApplied(t)
                <5>1. \E place \in {"unpack", "validate", "apply", "unzip", "backup", "restore",
                                     "applied", "override"} :
                         \E things : Goto(t, place, things)
                    BY <4>4, Staged DEF Unpack, Settings, ValidateInstall, AddBundled, ApplyDesign, DefaultMade,
                                        DefaultApplied, DesignApplied
                <5> QED BY <1>a, <3>1, <5>1, Moved DEF Ended
            <4> QED BY <4>1, <4>2, <4>3, <4>4 DEF Step
        <3>3. CASE Cleaned(t)
            <4>1. Empty /\ UNCHANGED <<disk, default, start>>
                BY <3>3 DEF Cleaned, dir
            <4> QED BY <4>1 DEF Empty, Bare, NoDefault
        <3>4. CASE InstallDone(t)
            BY <1>a, <1>1, <3>4 DEF InstallDone, InstallOf, Furnished, dir
        <3> QED BY <3>2, <3>3, <3>4
    <2> QED BY <1>b, <1>1, <2>1, <2>2
<1>2. CASE kind[t] # "install"
    <2>1. ~Cleaned(t) /\ UNCHANGED orderly
        BY <1>a, <1>2 DEF Step, ShapeOf, Throw, Refuse, Clean, Cleaned, BeginCopy, EndCopy, BeginUnzip,
           EndUnzip, Unpack, Settings, ValidateInstall, AddBundled, ApplyDesign, DefaultMade, DefaultApplied,
           DesignApplied, SwitchDone, InstallDone, AddModule, AddDone, Catch, Goto, Put
    <2>2. Settled
        BY <1>c, <1>2 DEF Settled
    <2>3. /\ Bare \/ Furnished
          /\ pc[t] # "backup" /\ (pc[t] \in {"restore", "override", "applied"} => Furnished)
        BY <1>2, <2>1, <2>2 DEF OrderlyStages
    <2>4. CASE Throw(t)
        <3>1. pc'[t] = "failed" /\ UNCHANGED <<disk, default, start>>
            BY <1>2, <1>a, <2>4, Caught DEF Throw, AfterThrow
        <3> QED BY <2>3, <3>1 DEF Bare, Furnished, NoDefault
    <2>5. CASE BeginCopy(t) \/ EndCopy(t)
        <3>a. PICK f \in Files : \E c \in {"torn", default[f], arg[t]} : Put(t, f, c)
            <4>1. CASE BeginCopy(t)
                BY <1>a, <4>1 DEF BeginCopy, NextFiles, ShapeOf
            <4>2. CASE EndCopy(t)
                <5>1. pc[t] \in {"restore", "override"} /\ writing[t] \in Files
                    BY <1>a, <1>2, <2>3, <4>2 DEF EndCopy, Copying, ShapeOf
                <5>2. Copied(t, writing[t]) \subseteq {"torn", default[writing[t]], arg[t]}
                    BY <5>1 DEF Copied
                <5> QED BY <4>2, <5>1, <5>2 DEF EndCopy
            <4> QED BY <2>5, <4>1, <4>2
        <3>1. PICK c \in {"torn", default[f], arg[t]} : Put(t, f, c)
            BY <3>a
        <3>2. pc[t] \in {"restore", "override"} /\ UNCHANGED pc
            BY <1>a, <1>2, <2>3, <2>5 DEF BeginCopy, EndCopy, Copying, ShapeOf, Put
        <3>3. Furnished
            BY <2>3, <3>2
        <3>4. arg[t] # "absent"
            BY <1>a, Names DEF TaskTyped
        <3>5. c # "absent"
            BY <3>1, <3>3, <3>4 DEF Furnished
        <3>6. UNCHANGED default /\ disk'[f] = c /\ \A g \in Files : g # f => disk'[g] = disk[g]
            BY <1>a, <3>1, <3>2 DEF Put, DirTyped
        <3>7. Furnished'
            BY <3>1, <3>3, <3>5, <3>6 DEF Furnished
        <3> QED BY <3>2, <3>7
    <2>6. CASE BeginUnzip(t) \/ EndUnzip(t)
        <3>1. pc[t] = "unzip" /\ UNCHANGED <<pc, disk, default, start>>
            BY <2>6 DEF BeginUnzip, EndUnzip
        <3> QED BY <2>3, <3>1 DEF Bare, Furnished, NoDefault
    <2>7. CASE ApplyDesign(t)
        <3>1. disk[Ckit] # "absent" /\ UNCHANGED <<disk, default, start>>
            BY <2>7 DEF ApplyDesign, dir
        <3>2. Furnished
            BY <2>3, <3>1, Names DEF Bare
        <3>3. FirstStage = "restore"
            BY <3>2, Names DEF FirstStage, NoDefault, Furnished
        <3>4. pc'[t] = "restore"
            BY <1>a, <2>7, <3>3, Moved DEF ApplyDesign
        <3> QED BY <3>1, <3>2, <3>4 DEF Furnished
    <2>8. CASE DefaultApplied(t) \/ DesignApplied(t)
        <3>1. \E place \in {"applied", "override"} : \E things : Goto(t, place, things)
            BY <2>8 DEF DefaultApplied, DesignApplied
        <3>2. pc'[t] \in {"applied", "override"}
            BY <1>a, <3>1, Moved
        <3>3. Furnished /\ UNCHANGED <<disk, default>>
            BY <2>3, <2>8 DEF DefaultApplied, DesignApplied
        <3> QED BY <3>2, <3>3 DEF Furnished
    <2>9. CASE SwitchDone(t) \/ AddModule(t) \/ AddDone(t)
        <3>1. UNCHANGED <<disk, default, start>>
            BY <2>9 DEF SwitchDone, AddModule, AddDone, dir
        <3>2. \E place \in {"done", "unzip"} : \E things : Goto(t, place, things)
            BY <2>9 DEF SwitchDone, AddModule, AddDone
        <3>3. pc'[t] \in {"done", "unzip"}
            BY <1>a, <3>2, Moved
        <3> QED BY <2>3, <3>1, <3>3 DEF Bare, Furnished, NoDefault
    <2>10. Throw(t) \/ BeginCopy(t) \/ EndCopy(t) \/ BeginUnzip(t) \/ EndUnzip(t) \/ ApplyDesign(t)
           \/ DefaultApplied(t) \/ DesignApplied(t) \/ SwitchDone(t) \/ AddModule(t) \/ AddDone(t)
        BY <1>a, <1>2, <2>1, <2>3 DEF Step, ShapeOf, Refuse, Clean, Unpack, Settings, ValidateInstall,
           AddBundled, DefaultMade, InstallDone
    <2> QED BY <2>4, <2>5, <2>6, <2>7, <2>8, <2>9, <2>10
<1> QED BY <1>1, <1>2

-----------------------------------------------------------------------------
(* The user, the system and a crash *)

\* A task that starts takes the place of one that has ended.
LEMMA StartsShaped ==
    ASSUME TypeOK, TaskShape,
           NEW k \in {"install", "switch", "add"}, NEW d \in Designs \cup {"default"}, Start(k, d),
           k = "install" => d = First, k = "add" => d \in Designs
    PROVE  TaskShape'
<1> SUFFICES ASSUME NEW u \in Tasks PROVE ShapeOf(u)'
    BY DEF TaskShape
<1>a. started \in Nat /\ started' = started + 1 /\ UNCHANGED <<todo, writing>> /\ u \in Nat
    BY TypeParts, BoundsAssumption DEF FlagsTyped, Start, Tasks
<1>b. ShapeOf(u)
    BY DEF TaskShape
<1>1. CASE u = started + 1
    <2>1. kind[u] = "none" /\ pc[u] \in Ended
        BY <1>a, <1>b, <1>1 DEF ShapeOf
    <2>2. writing'[u] = "nothing"
        BY <1>a, <1>b, <2>1 DEF ShapeOf, Copying, Ended
    <2>3. kind'[u] = k /\ arg'[u] = d /\ pc'[u] \in {"apply", "check"} /\ (pc'[u] = "apply" => k = "switch")
        BY <1>1 DEF Start, Fresh
    <2> QED BY <1>a, <1>1, <2>2, <2>3 DEF ShapeOf, Copying, Ended
<1>2. CASE u # started + 1 /\ pc[u] \in Ended
    <2>1. writing'[u] = "nothing"
        BY <1>a, <1>b, <1>2 DEF ShapeOf, Copying, Ended
    <2>2. kind'[u] = "none" /\ pc'[u] = "done"
        BY <1>2 DEF Start, Fresh
    <2> QED BY <2>1, <2>2 DEF ShapeOf, Copying, Ended
<1>3. CASE u # started + 1 /\ pc[u] \notin Ended
    <2>1. kind'[u] = kind[u] /\ arg'[u] = arg[u] /\ pc'[u] = pc[u]
        BY <1>3 DEF Start, Fresh
    <2>2. kind'[u] # "none" => u <= started'
        BY <1>a, <1>b, <2>1 DEF ShapeOf
    <2> QED BY <1>a, <1>b, <2>1, <2>2 DEF ShapeOf
<1> QED BY <1>1, <1>2, <1>3

\* An install or a switch that starts alone does not depend on what went before.
LEMMA StartsKeep ==
    ASSUME TypeOK, TaskShape, NobodyIn,
           NEW k \in {"install", "switch", "add"}, NEW d \in Designs \cup {"default"}, Start(k, d),
           k = "add" => OneTask /\ Rest, orderly => OneTask /\ Rest
    PROVE  OneTask' /\ Rest'
<1>a. TaskTyped
    BY TypeParts
<1>1. /\ \A u \in Tasks : pc[u] \in Ended
      /\ \A u \in Tasks : u = started + 1 =>
             kind'[u] = k /\ arg'[u] = d /\ pc'[u] = (IF k = "switch" THEN "apply" ELSE "check")
      /\ \A u \in Tasks : u # started + 1 => kind'[u] = "none" /\ pc'[u] = "done"
    BY <1>a, Begins DEF NobodyIn
<1>2. /\ started' = started + 1 /\ active' = (IF k = "add" THEN active ELSE "none")
      /\ UNCHANGED <<disk, default, module, start, installed, todo, writing>>
      /\ orderly' => orderly
    BY DEF Start, dir
<1>3. \A u \in Tasks : writing[u] = "nothing"
    BY <1>1 DEF TaskShape, ShapeOf, Copying, Ended
<1>4. OneTask'
    BY <1>1, <1>2 DEF OneTask, Ended
<1>6. ActiveFrozen'
    BY <1>1, <1>2 DEF ActiveFrozen, Ended
<1>7. ActiveExact'
    BY <1>2 DEF Rest, ActiveExact, Exact, There, Whole, Version
<1>8. Stages'
    BY <1>1, <1>2, <1>3, Names DEF Stages, StagesOf
<1>9. InstallStages'
    BY <1>1 DEF InstallStages, InstallOf
<1>10. OrderlyStages'
    <2>1. Settled
        BY <1>1 DEF Settled
    <2>2. orderly => Bare \/ Furnished
        BY <2>1 DEF Rest, OrderlyStages
    <2> QED BY <1>1, <1>2, <2>2 DEF OrderlyStages, Bare, Furnished, NoDefault
<1> QED BY <1>4, <1>6, <1>7, <1>8, <1>9, <1>10 DEF Rest

LEMMA CrashShaped ==
    ASSUME TaskShape, Crash
    PROVE  TaskShape'
<1>1. \A u \in Tasks : pc'[u] \in Ended /\ writing'[u] = "nothing"
    BY DEF Crash, Ended
<1>2. UNCHANGED <<kind, arg, started>>
    BY DEF Crash
<1> QED BY <1>1, <1>2 DEF TaskShape, ShapeOf, Copying, Ended

LEMMA CrashKeeps ==
    ASSUME TypeOK, OneTask, TaskShape, Rest, Crash
    PROVE  OneTask' /\ Rest'
<1>1. \A u \in Tasks : /\ pc'[u] = (IF pc[u] \in Ended THEN pc[u] ELSE "failed") /\ pc'[u] \in Ended
                       /\ writing'[u] = "nothing"
    BY DEF Crash, Ended
<1>2. /\ UNCHANGED <<disk, default, module, start, kind, arg, cancelled, started, active>>
      /\ installed' = (start # "absent")
    BY DEF Crash, dir
<1>3. orderly' => orderly /\ \A u \in Tasks : pc[u] \in Ended
    BY DEF Crash, NobodyIn
<1>4. OneTask'
    BY <1>1, <1>2 DEF OneTask
<1>6. ActiveFrozen'
    BY <1>1 DEF ActiveFrozen
<1>7. ActiveExact'
    BY <1>2 DEF Rest, ActiveExact, Exact, There, Whole, Version
<1>8. Stages'
    BY <1>1, Names DEF Stages, StagesOf, Ended
<1>9. InstallStages'
    <2> SUFFICES ASSUME NEW u \in Tasks, kind[u] = "install" PROVE InstallOf(u)'
        BY <1>2 DEF InstallStages, InstallOf
    <2>1. pc'[u] = "failed" => Entries' \subseteq spared'
        <3>1. Entries' = Entries /\ Entries \subseteq Items
            BY <1>2 DEF Entries, Present, NoDefault, Items
        <3>2. CASE NobodyIn
            <4>1. UNCHANGED spared /\ pc'[u] = pc[u]
                BY <1>1, <3>2 DEF Crash, NobodyIn
            <4> QED BY <3>1, <4>1 DEF Rest, InstallStages, InstallOf
        <3>3. CASE ~NobodyIn
            BY <3>1, <3>3 DEF Crash
        <3> QED BY <3>2, <3>3
    <2>2. ASSUME pc'[u] = "done", ~cancelled'[u]
          PROVE  /\ active' = First /\ Furnished' /\ installed'
                 /\ \A d \in Bundled \cup {First} : module'[d] = "whole"
        <3>1. pc[u] = "done"
            BY <1>1, <2>2
        <3>2. active = First /\ Furnished /\ \A d \in Bundled \cup {First} : module[d] = "whole"
            BY <1>2, <2>2, <3>1 DEF Rest, InstallStages, InstallOf
        <3>3. start = First
            BY <3>2, Names DEF Rest, ActiveExact, Exact
        <3>4. installed'
            BY <1>2, <3>3, Names
        <3> QED BY <1>2, <3>2, <3>4 DEF Furnished
    <2> QED BY <1>1, <2>1, <2>2 DEF InstallOf, Ended
<1>10. OrderlyStages'
    <2>1. orderly' => Settled
        BY <1>3 DEF Settled
    <2>2. orderly' => Bare \/ Furnished
        BY <1>3, <2>1 DEF Rest, OrderlyStages
    <2> QED BY <1>1, <1>2, <2>2 DEF OrderlyStages, Bare, Furnished, NoDefault, Ended
<1> QED BY <1>4, <1>6, <1>7, <1>8, <1>9, <1>10 DEF Rest

LEMMA BackShaped ==
    ASSUME TaskShape, UpdateInstalledState \/ (\E t \in Tasks : Back(t)) \/ UNCHANGED vars
    PROVE  TaskShape' /\ UNCHANGED <<alone, orderly>>
<1>1. UNCHANGED <<pc, kind, arg, todo, writing, started, alone, orderly>>
    BY DEF UpdateInstalledState, Back, vars, task
<1> QED BY <1>1 DEF TaskShape, ShapeOf

LEMMA BackKeeps ==
    ASSUME TypeOK, OneTask, Rest,
           UpdateInstalledState \/ (\E t \in Tasks : Back(t)) \/ UNCHANGED vars
    PROVE  OneTask' /\ Rest'
<1>1. /\ UNCHANGED <<disk, default, module, start, pc, kind, arg, todo, writing, started, active, orderly>>
      /\ UNCHANGED spared
      /\ UNCHANGED installed \/ installed' = (start # "absent")
    BY DEF UpdateInstalledState, Back, vars, dir, task
<1>2. \A u \in Tasks : pc[u] \in Ended => cancelled'[u] = cancelled[u]
    <2>1. CASE UNCHANGED cancelled
        BY <2>1
    <2>2. ASSUME NEW t \in Tasks, Back(t) PROVE \A u \in Tasks : pc[u] \in Ended => cancelled'[u] = cancelled[u]
        <3>1. cancelled' = [cancelled EXCEPT ![t] = TRUE] /\ pc[t] \notin Ended
            BY <2>2 DEF Back
        <3>2. DOMAIN cancelled = Tasks
            BY DEF TypeOK
        <3> QED BY <3>1, <3>2
    <2> QED BY <2>1, <2>2 DEF UpdateInstalledState, vars, task
<1>3. OneTask' /\ ActiveFrozen' /\ ActiveExact' /\ Stages'
    BY <1>1 DEF Rest, OneTask, ActiveFrozen, ActiveExact, Stages, StagesOf,
                Exact, There, Whole, Version
<1>4. InstallStages'
    <2> SUFFICES ASSUME NEW u \in Tasks, kind[u] = "install" PROVE InstallOf(u)'
        BY <1>1 DEF InstallStages, InstallOf
    <2>1. InstallOf(u)
        BY DEF Rest, InstallStages
    <2>2. ASSUME pc[u] = "done", ~cancelled'[u]
          PROVE  /\ active = First /\ Furnished /\ installed'
                 /\ \A d \in Bundled \cup {First} : module[d] = "whole"
        <3>1. /\ active = First /\ Furnished /\ installed
              /\ \A d \in Bundled \cup {First} : module[d] = "whole"
            BY <1>2, <2>1, <2>2 DEF InstallOf, Ended
        <3>2. start = First
            BY <3>1, Names DEF Rest, ActiveExact, Exact
        <3>3. installed'
            BY <1>1, <3>1, <3>2, Names
        <3> QED BY <3>1, <3>3
    <2>3. Entries' = Entries
        BY <1>1 DEF Entries, Present, NoDefault
    <2> QED BY <1>1, <2>1, <2>2, <2>3 DEF InstallOf, NoDefault, Original, Furnished
<1>5. OrderlyStages'
    BY <1>1 DEF Rest, OrderlyStages, Settled, Bare, Furnished, NoDefault
<1> QED BY <1>3, <1>4, <1>5 DEF Rest

-----------------------------------------------------------------------------
(* The theorems *)

LEMMA GameInvInit == Init => GameInv
<1> SUFFICES ASSUME Init PROVE GameInv
    OBVIOUS
<1>1. \A t \in Tasks : pc[t] = "done" /\ kind[t] = "none" /\ writing[t] = "nothing"
    BY DEF Init
<1>2. active = "none" /\ orderly = Empty
    BY DEF Init
<1>3. OneTask /\ TaskShape /\ ActiveFrozen /\ ActiveExact
    BY <1>1, <1>2 DEF OneTask, TaskShape, ShapeOf, ActiveFrozen, ActiveExact, Ended, Copying
<1>4. Stages
    BY <1>1, Names DEF Stages, StagesOf
<1>5. InstallStages
    BY <1>1 DEF InstallStages, InstallOf
<1>6. OrderlyStages
    BY <1>1, <1>2, ZenonT(60) DEF OrderlyStages, Bare, Empty, NoDefault
<1>7. alone = TRUE
    BY DEF Init
<1> QED BY <1>3, <1>4, <1>5, <1>6, <1>7, InitTyped DEF GameInv, Rest

\* Only a start changes alone; an orderly directory stays one while its tasks are alone.
LEMMA AloneKept ==
    ASSUME NEW t \in Tasks, Step(t), orderly => alone
    PROVE  UNCHANGED alone /\ (orderly' => alone')
<1>1. UNCHANGED alone
    BY DEF Step, Throw, Refuse, Clean, Cleaned, BeginCopy, EndCopy, BeginUnzip, EndUnzip, Unpack,
           Settings, ValidateInstall, AddBundled, ApplyDesign, DefaultMade, DefaultApplied,
           DesignApplied, SwitchDone, InstallDone, AddModule, AddDone, Catch, Goto, Put, task
<1>2. UNCHANGED orderly \/ orderly' = (alone /\ Empty)
    BY DEF Step, Throw, Refuse, Clean, Cleaned, BeginCopy, EndCopy, BeginUnzip, EndUnzip, Unpack,
           Settings, ValidateInstall, AddBundled, ApplyDesign, DefaultMade, DefaultApplied,
           DesignApplied, SwitchDone, InstallDone, AddModule, AddDone, Catch, Goto, Put
<1>3. CASE UNCHANGED orderly
    BY <1>1, <1>3, Zenon
<1>4. CASE orderly' = (alone /\ Empty)
    <2>1. orderly' => alone
        BY <1>4, Zenon
    <2> QED BY <1>1, <2>1, Zenon
<1> QED BY <1>2, <1>3, <1>4

LEMMA GameInvStep == GameInv /\ [Next]_vars => GameInv'
<1> SUFFICES ASSUME GameInv, [Next]_vars PROVE GameInv'
    OBVIOUS
<1>a. TypeOK /\ TaskShape /\ (orderly => alone) /\ (alone => OneTask /\ Rest)
    BY DEF GameInv
<1>b. TypeOK'
    BY <1>a, TypeStep
<1> SUFFICES TaskShape' /\ (orderly' => alone') /\ (alone' => OneTask' /\ Rest')
    BY <1>b DEF GameInv
<1>1. ASSUME NEW t \in Tasks, Step(t)
      PROVE  TaskShape' /\ (orderly' => alone') /\ (alone' => OneTask' /\ Rest')
    <2>1. TaskShape' /\ UNCHANGED alone /\ (orderly' => alone')
        BY <1>1, <1>a, StepShape, AloneKept
    <2>2. ASSUME OneTask, Rest PROVE OneTask' /\ Rest'
        BY <1>1, <1>a, <2>2, StepOneTask, StepActiveFrozen, StepActiveExact, StepStages, StepInstall,
           StepOrderly DEF Rest
    <2> QED BY <1>a, <2>1, <2>2
<1>2. CASE StartInstall \/ StartSwitch \/ StartAdd
    <2>1. PICK k \in {"install", "switch", "add"}, d \in Designs \cup {"default"} :
              Start(k, d) /\ (k = "install" => d = First) /\ (k = "add" => d \in Designs)
        BY <1>2, Names DEF StartInstall, StartSwitch, StartAdd
    <2>2. TaskShape'
        BY <1>a, <2>1, StartsShaped
    <2>3. alone' = (NobodyIn /\ (k = "add" => alone)) /\ orderly' = (orderly /\ NobodyIn)
        BY <2>1 DEF Start
    <2>4. alone' => OneTask' /\ Rest'
        BY <1>a, <2>1, <2>3, StartsKeep
    <2> QED BY <1>a, <2>2, <2>3, <2>4
<1>3. CASE Crash
    <2>1. UNCHANGED alone /\ (orderly' => orderly)
        BY <1>3 DEF Crash
    <2> QED BY <1>3, <1>a, <2>1, CrashShaped, CrashKeeps
<1>4. CASE UpdateInstalledState \/ (\E t \in Tasks : Back(t)) \/ UNCHANGED vars
    BY <1>4, <1>a, BackShaped, BackKeeps
<1> QED BY <1>1, <1>2, <1>3, <1>4 DEF Next

\* Every step of a task that is alone, its cancellation, failure or death preserves all of it;
\* whatever overlapping threads do, the next install or switch that is alone restores it.
THEOREM GameInvariant == Spec => []GameInv
<1>1. GameInv /\ [Next]_vars => GameInv'
    BY GameInvStep
<1> QED BY <1>1, GameInvInit, PTL DEF Spec

\* The files, the places of the tasks and what they still have to do stay in their types.
THEOREM GameTypes == Spec => []TypeOK
<1>1. GameInv => TypeOK
    BY DEF GameInv
<1> QED BY <1>1, GameInvariant, PTL

\* Once a design was reported as applied (Switcher.applyDesign), start.dat names it and
\* every file of which default.dsn has a good copy is that design's version or the original,
\* unless another task's thread has been in the directory since the last install or switch began.
THEOREM AppliedIsExact == Spec => []RestoredExact
<1>1. GameInv => RestoredExact
    <2> SUFFICES ASSUME GameInv, alone, Applied
                 PROVE  start = active /\ \A f \in Files : default[f] = "orig" => disk[f] = Expected(f)
        BY DEF RestoredExact
    <2>1. active # "none" /\ Whole(active)
        BY DEF Applied, Whole
    <2>2. Exact(active)
        BY <2>1 DEF GameInv, Rest, ActiveExact
    <2> QED BY <2>1, <2>2 DEF Exact, Version, Expected
<1> QED BY <1>1, GameInvariant, PTL

\* In a directory that InstallTask filled default.dsn is absent or a full copy of the
\* originals (Switcher.createDefaultDsn), whatever was cancelled or failed, as long as no process
\* died, no clean-up failed and no two threads were at work at once since it was last empty.
THEOREM DefaultIsPristine == Spec => []DefaultPristine
<1>1. GameInv => DefaultPristine
    <2> SUFFICES ASSUME GameInv, orderly, \A t \in Tasks : pc[t] \notin {"backup", "clean"}
                 PROVE  NoDefault \/ \A f \in Files : default[f] = "orig"
        BY DEF DefaultPristine
    <2>a. TaskTyped /\ OneTask /\ TaskShape /\ InstallStages /\ OrderlyStages
        BY TypeParts DEF GameInv, Rest
    <2>1. CASE Settled
        BY <2>a, <2>1 DEF OrderlyStages, Bare, Furnished
    <2>2. CASE ~Settled
        <3>1. PICK t \in Tasks : pc[t] \notin Ended \cup {"check"} /\ kind[t] = "install"
            BY <2>2 DEF Settled
        <3>2. pc[t] \in {"unpack", "validate", "apply", "restore", "override", "applied", "unzip"}
            BY <2>a, <3>1 DEF TaskTyped, Places, Running, Copying
        <3> QED BY <2>a, <3>1, <3>2 DEF InstallStages, InstallOf, Furnished
    <2> QED BY <2>1, <2>2
<1> QED BY <1>1, GameInvariant, PTL

\* An install that was alone and failed leaves nothing but what clean() could not delete, one that
\* was alone and reported success leaves a complete directory (InstallTask, Installer.install).
THEOREM InstallsAllOrNothing == Spec => []InstallAllOrNothing
<1>1. GameInv => InstallAllOrNothing
    <2> SUFFICES ASSUME GameInv, started > 0, kind[started] = "install", alone
                 PROVE  /\ pc[started] = "failed" => Entries \subseteq spared
                        /\ pc[started] = "done" /\ ~cancelled[started] =>
                              /\ start = First /\ \A f \in Files : disk[f] = Expected(f) /\ default[f] = "orig"
                              /\ installed /\ \A d \in Bundled \cup {First} : module[d] = "whole"
        BY DEF InstallAllOrNothing
    <2>1. started \in Tasks
        <3>1. started \in 0 .. MaxTasks
            BY TypeParts DEF GameInv, FlagsTyped
        <3> QED BY <3>1, BoundsAssumption DEF Tasks
    <2>2. InstallOf(started) /\ ActiveExact
        BY <2>1 DEF GameInv, Rest, InstallStages
    <2>3. ASSUME pc[started] = "done", ~cancelled[started]
          PROVE  /\ start = First /\ \A f \in Files : disk[f] = Expected(f) /\ default[f] = "orig"
                 /\ installed /\ \A d \in Bundled \cup {First} : module[d] = "whole"
        <3>1. /\ active = First /\ Furnished /\ installed
              /\ \A d \in Bundled \cup {First} : module[d] = "whole"
            BY <2>2, <2>3 DEF InstallOf
        <3>2. Exact(First)
            BY <2>2, <3>1, Names DEF ActiveExact
        <3>3. Whole(First)
            BY <3>1 DEF Whole
        <3> QED BY <3>1, <3>2, <3>3 DEF Exact, Version, Expected, Furnished
    <2> QED BY <2>2, <2>3 DEF InstallOf
<1> QED BY <1>1, GameInvariant, PTL
=============================================================================
