---------------------------- MODULE ScreenUpdate ----------------------------
(***************************************************************************)
(* How a frame of the emulator reaches the screen.  The emulator's thread  *)
(* changes lines of a bitmap and announces the range it changed            *)
(* (externalRedraw); the video thread draws what was announced; the UI     *)
(* thread draws everything when the surface changes.  Both draw with       *)
(* videoRedraw, whose locks and unguarded fields are modelled one by one.  *)
(* The surface, its lockCanvas and its callbacks are Android's.            *)
(***************************************************************************)
EXTENDS Naturals, FiniteSets, FiniteSetsExt

CONSTANTS LineCount,     \* lines of a bitmap
          MaxModes,      \* bound: how often the emulator sets a video mode
          MaxFrames,     \* bound: how many frames it begins
          MaxSurfaces    \* bound: how often a surface is created or resized

ASSUME LineCountAssumption == LineCount \in Nat \ {0}
ASSUME BoundsAssumption == MaxModes \in Nat /\ MaxFrames \in Nat /\ MaxSurfaces \in Nat

Lines    == 0 .. LineCount - 1
Painters == {"video", "ui"}

VARIABLES
    srcMode, bitmapMode,          \* the modes srcWidth/srcHeight and bitmap belong to
    dirty, startLine, endLine,    \* what was announced and not yet drawn
    dirtyCount,                   \* full redraws made since the last setDirty
    dirtyLock, holderLock,        \* who holds dirtyLock, surfaceHolderLock
    canvasLock,                   \* who is between lockCanvas and unlockCanvasAndPost
    surface, running, resized,    \* Android's surface; the view's flag; surfaceChanged is due
    pc, job, seen, drawn,         \* each painter: place, arguments, dirtyCount read, lines drawn
    nPc, written, whole,          \* emulator: place, lines of this frame, all lines are due
    unannounced,                  \* lines in the bitmap that no announcement covers yet
    stale,                        \* lines the screen shows otherwise than the bitmap has them
    skewed,                       \* the UI thread drew with the size of an older mode
    crashed,                      \* a painter used the null that lockCanvas returned
    modes, frames, surfaces       \* counters for the bounds

fields  == <<srcMode, bitmapMode, dirty, startLine, endLine, dirtyCount>>
view    == <<surface, running, resized>>
painter == <<pc, job, seen>>
emu     == <<nPc, written, whole, unannounced, modes, frames>>
vars    == <<fields, dirtyLock, holderLock, canvasLock, view, painter, drawn, emu,
             stale, skewed, crashed, surfaces>>

NoJob == [mode |-> 0, from |-> 0, to |-> 0]
Covered(from, to) == {l \in Lines : from <= l /\ l < to}

Places == {"idle", "check", "enter", "count", "lock", "draw", "post", "done"}
Jobs   == [mode : 0 .. MaxModes, from : Lines, to : 0 .. LineCount]

TypeOK ==
    /\ srcMode \in 0 .. MaxModes /\ bitmapMode \in 0 .. MaxModes
    /\ dirty \in BOOLEAN /\ startLine \in Lines /\ endLine \in 0 .. LineCount
    /\ dirtyCount \in 0 .. 3 /\ seen \in [Painters -> 0 .. 2]
    /\ dirtyLock \in {"free", "video"}
    /\ holderLock \in {"free"} \cup Painters /\ canvasLock \in {"free"} \cup Painters
    /\ surface \in {"none", "up"} /\ running \in BOOLEAN /\ resized \in BOOLEAN
    /\ pc \in [Painters -> Places] /\ job \in [Painters -> Jobs]
    /\ drawn \in [Painters -> SUBSET Lines]
    /\ nPc \in {"idle", "frame", "size set", "reset"}
    /\ written \subseteq Lines /\ unannounced \subseteq Lines /\ stale \subseteq Lines
    /\ whole \in BOOLEAN /\ skewed \in BOOLEAN /\ crashed \in BOOLEAN
    /\ modes \in 0 .. MaxModes /\ frames \in 0 .. MaxFrames /\ surfaces \in 0 .. MaxSurfaces

Init ==
    /\ srcMode = 0 /\ bitmapMode = 0
    /\ dirty = FALSE /\ startLine = 0 /\ endLine = 0 /\ dirtyCount = 0
    /\ dirtyLock = "free" /\ holderLock = "free" /\ canvasLock = "free"
    /\ surface = "none" /\ running = FALSE /\ resized = FALSE
    /\ pc = [p \in Painters |-> "idle"] /\ job = [p \in Painters |-> NoJob]
    /\ seen = [p \in Painters |-> 0] /\ drawn = [p \in Painters |-> {}]
    /\ nPc = "idle" /\ written = {} /\ whole = FALSE
    /\ unannounced = Lines /\ stale = Lines
    /\ skewed = FALSE /\ crashed = FALSE
    /\ modes = 0 /\ frames = 0 /\ surfaces = 0

-----------------------------------------------------------------------------
(* The emulator's thread *)

\* setMode stores the new size, calls setDirty, and then replaces the bitmap.
SetSize ==
    /\ ~crashed /\ nPc = "idle" /\ modes < MaxModes
    /\ modes' = modes + 1
    /\ srcMode' = modes + 1
    /\ nPc' = "size set"
    /\ UNCHANGED <<bitmapMode, dirty, startLine, endLine, dirtyCount, dirtyLock, holderLock,
                   canvasLock, view, painter, drawn, written, whole, unannounced, frames,
                   stale, skewed, crashed, surfaces>>

SetModeDirty ==
    /\ ~crashed /\ nPc = "size set"
    /\ dirtyCount' = 0
    /\ nPc' = "reset"
    /\ UNCHANGED <<srcMode, bitmapMode, dirty, startLine, endLine, dirtyLock, holderLock,
                   canvasLock, view, painter, drawn, written, whole, unannounced, modes, frames,
                   stale, skewed, crashed, surfaces>>

\* RENDER_Reset has the next frame draw every line of the new bitmap.
NewBitmap ==
    /\ ~crashed /\ nPc = "reset"
    /\ bitmapMode' = srcMode
    /\ unannounced' = Lines /\ stale' = Lines
    /\ drawn' = [p \in Painters |-> {}]
    /\ whole' = TRUE
    /\ nPc' = "idle"
    /\ UNCHANGED <<srcMode, dirty, startLine, endLine, dirtyCount, dirtyLock, holderLock,
                   canvasLock, view, painter, written, modes, frames, skewed, crashed, surfaces>>

\* RENDER_StartUpdate
StartFrame ==
    /\ ~crashed /\ nPc = "idle" /\ bitmapMode # 0 /\ frames < MaxFrames
    /\ frames' = frames + 1
    /\ written' = {}
    /\ nPc' = "frame"
    /\ UNCHANGED <<fields, dirtyLock, holderLock, canvasLock, view, painter, drawn, whole,
                   unannounced, modes, stale, skewed, crashed, surfaces>>

\* A line handler finds a line changed; lines come from the top.
DrawLine ==
    /\ ~crashed /\ nPc = "frame"
    /\ \E l \in Lines :
          /\ \A w \in written : w < l
          /\ whole => l = Cardinality(written)
          /\ written' = written \cup {l}
          /\ unannounced' = unannounced \cup {l}
          /\ stale' = stale \cup {l}
          /\ drawn' = [p \in Painters |-> drawn[p] \ {l}]
    /\ UNCHANGED <<fields, dirtyLock, holderLock, canvasLock, view, painter, nPc, whole,
                   modes, frames, skewed, crashed, surfaces>>

\* externalRedraw waits for dirtyLock and merges with what is still pending.
MayAnnounceUnlocked == TRUE        \* mutant: externalRedraw does not take dirtyLock
MayAnnounce == dirtyLock = "free"
MergedStart(s) == IF dirty /\ startLine < s THEN startLine ELSE s
MergedEnd(e) == IF dirty /\ endLine > e THEN endLine ELSE e

\* GFX_EndUpdate announces from the first changed line to the end of the last one.
EndFrame ==
    /\ ~crashed /\ nPc = "frame" /\ (whole => written = Lines)
    /\ IF written = {}
       THEN UNCHANGED <<dirty, startLine, endLine, unannounced>>
       ELSE /\ MayAnnounce
            /\ dirty' = TRUE
            /\ startLine' = MergedStart(Min(written))
            /\ endLine' = MergedEnd(Max(written) + 1)
            /\ unannounced' = unannounced \ Covered(Min(written), Max(written) + 1)
    /\ whole' = FALSE
    /\ nPc' = "idle"
    /\ written' = {}
    /\ UNCHANGED <<srcMode, bitmapMode, dirtyCount, dirtyLock, holderLock, canvasLock, view,
                   painter, drawn, modes, frames, stale, skewed, crashed, surfaces>>

\* RENDER_EndUpdate(true): the lines are in the bitmap and nobody is told.
AbortFrame ==
    /\ ~crashed /\ nPc = "frame"
    /\ whole' = FALSE
    /\ nPc' = "idle"
    /\ written' = {}
    /\ UNCHANGED <<fields, dirtyLock, holderLock, canvasLock, view, painter, drawn,
                   unannounced, modes, frames, stale, skewed, crashed, surfaces>>

Emulator == SetSize \/ SetModeDirty \/ NewBitmap \/ StartFrame \/ DrawLine
            \/ EndFrame \/ AbortFrame

-----------------------------------------------------------------------------
(* videoRedraw, run by either painter *)

At(p, from) == ~crashed /\ pc[p] = from
Goto(p, to) == pc' = [pc EXCEPT ![p] = to]

\* run: the video thread takes dirtyLock and finds something to draw.
VideoWakes ==
    /\ At("video", "idle") /\ running /\ dirtyLock = "free" /\ dirty
    /\ dirtyLock' = "video"
    /\ job' = [job EXCEPT !["video"] = [mode |-> srcMode, from |-> startLine, to |-> endLine]]
    /\ Goto("video", "check")
    /\ UNCHANGED <<fields, holderLock, canvasLock, view, seen, drawn, emu, stale, skewed,
                   crashed, surfaces>>

\* The early return: no view, or no mode yet.
CheckView(p) ==
    /\ At(p, "check")
    /\ Goto(p, IF running /\ job[p].mode # 0 THEN "enter" ELSE "done")
    /\ UNCHANGED <<fields, dirtyLock, holderLock, canvasLock, view, job, seen, drawn, emu,
                   stale, skewed, crashed, surfaces>>

\* surfaceHolderLock is taken and dirtyCount read.
FullRedraw == dirtyCount < 3
Enter(p) ==
    /\ At(p, "enter") /\ holderLock = "free"
    /\ holderLock' = p
    /\ IF FullRedraw
       THEN seen' = [seen EXCEPT ![p] = dirtyCount] /\ Goto(p, "count")
       ELSE UNCHANGED seen /\ Goto(p, "lock")
    /\ UNCHANGED <<fields, dirtyLock, canvasLock, view, job, drawn, emu, stale, skewed,
                   crashed, surfaces>>

\* dirtyCount++ ends, and the whole surface will be drawn; a setDirty made since is lost.
Count(p) ==
    /\ At(p, "count")
    /\ dirtyCount' = seen[p] + 1
    /\ job' = [job EXCEPT ![p] = [mode |-> job[p].mode, from |-> 0, to |-> LineCount]]
    /\ Goto(p, "lock")
    /\ UNCHANGED <<srcMode, bitmapMode, dirty, startLine, endLine, dirtyLock, holderLock,
                   canvasLock, view, seen, drawn, emu, stale, skewed, crashed, surfaces>>

\* lockCanvas waits for the canvas; without a surface it returns null.
LockCanvas(p) ==
    /\ At(p, "lock") /\ canvasLock = "free"
    /\ IF surface = "up"
       THEN canvasLock' = p /\ Goto(p, "draw") /\ UNCHANGED crashed
       ELSE crashed' = TRUE /\ UNCHANGED <<canvasLock, pc>>
    /\ UNCHANGED <<fields, dirtyLock, holderLock, view, job, seen, drawn, emu, stale, skewed,
                   surfaces>>

\* drawBitmap copies the lines; with the size of another mode it shows none of them right.
DrawBitmap(p) ==
    /\ At(p, "draw")
    /\ LET right == job[p].mode = bitmapMode IN
       /\ drawn' = [drawn EXCEPT ![p] = IF right THEN Covered(job[p].from, job[p].to) ELSE {}]
       /\ skewed' = IF right /\ drawn'[p] = Lines THEN FALSE ELSE skewed \/ (p = "ui" /\ ~right)
    /\ holderLock' = "free"
    /\ Goto(p, "post")
    /\ UNCHANGED <<fields, dirtyLock, canvasLock, view, job, seen, emu, stale, crashed, surfaces>>

\* unlockCanvasAndPost, outside surfaceHolderLock
CanvasKept == canvasLock           \* mutant: the canvas is not unlocked
CanvasReturned == "free"
Post(p) ==
    /\ At(p, "post")
    /\ stale' = (stale \cup Covered(job[p].from, job[p].to)) \ drawn[p]
    /\ drawn' = [drawn EXCEPT ![p] = {}]
    /\ canvasLock' = CanvasReturned
    /\ Goto(p, "done")
    /\ UNCHANGED <<fields, dirtyLock, holderLock, view, job, seen, emu, skewed, crashed, surfaces>>

\* run: nothing is pending any more, drawn or not, and dirtyLock is released.
VideoDone ==
    /\ At("video", "done")
    /\ dirty' = FALSE
    /\ dirtyLock' = "free"
    /\ job' = [job EXCEPT !["video"] = NoJob]
    /\ Goto("video", "idle")
    /\ UNCHANGED <<srcMode, bitmapMode, startLine, endLine, dirtyCount, holderLock, canvasLock,
                   view, seen, drawn, emu, stale, skewed, crashed, surfaces>>

Redraw(p) == CheckView(p) \/ Enter(p) \/ Count(p) \/ LockCanvas(p) \/ DrawBitmap(p) \/ Post(p)

-----------------------------------------------------------------------------
(* The UI thread *)

\* The system makes a surface, empty, and calls surfaceCreated.
SurfaceCreated ==
    /\ At("ui", "idle") /\ surface = "none" /\ ~running /\ surfaces < MaxSurfaces
    /\ surfaces' = surfaces + 1
    /\ surface' = "up" /\ running' = TRUE /\ resized' = TRUE
    /\ stale' = Lines
    /\ UNCHANGED <<fields, dirtyLock, holderLock, canvasLock, painter, drawn, emu, skewed, crashed>>

\* The system resizes the surface, which is then empty.
SurfaceResized ==
    /\ At("ui", "idle") /\ surface = "up" /\ ~resized /\ canvasLock = "free"
    /\ surfaces < MaxSurfaces
    /\ surfaces' = surfaces + 1
    /\ resized' = TRUE
    /\ stale' = Lines
    /\ UNCHANGED <<fields, dirtyLock, holderLock, canvasLock, surface, running, painter, drawn,
                   emu, skewed, crashed>>

\* surfaceChanged calls resetScreen(true): setDirty, then a redraw of everything.
SurfaceChanged ==
    /\ At("ui", "idle") /\ resized
    /\ resized' = FALSE
    /\ dirtyCount' = 0
    /\ job' = [job EXCEPT !["ui"] = [mode |-> srcMode, from |-> 0, to |-> LineCount]]
    /\ Goto("ui", "check")
    /\ UNCHANGED <<srcMode, bitmapMode, dirty, startLine, endLine, dirtyLock, holderLock,
                   canvasLock, surface, running, seen, drawn, emu, stale, skewed, crashed, surfaces>>

UIDone ==
    /\ At("ui", "done")
    /\ job' = [job EXCEPT !["ui"] = NoJob]
    /\ Goto("ui", "idle")
    /\ UNCHANGED <<fields, dirtyLock, holderLock, canvasLock, view, seen, drawn, emu, stale,
                   skewed, crashed, surfaces>>

\* The system takes the surface away, under the canvas lock, and only then calls back.
SurfaceGone ==
    /\ At("ui", "idle") /\ surface = "up" /\ ~resized /\ canvasLock = "free"
    /\ surface' = "none"
    /\ UNCHANGED <<fields, dirtyLock, holderLock, canvasLock, running, resized, painter, drawn,
                   emu, stale, skewed, crashed, surfaces>>

SurfaceDestroyed ==
    /\ At("ui", "idle") /\ surface = "none" /\ running
    /\ running' = FALSE
    /\ UNCHANGED <<fields, dirtyLock, holderLock, canvasLock, surface, resized, painter, drawn,
                   emu, stale, skewed, crashed, surfaces>>

UI == SurfaceCreated \/ SurfaceResized \/ SurfaceChanged \/ UIDone \/ SurfaceGone \/ SurfaceDestroyed

Next == Emulator \/ UI \/ VideoWakes \/ VideoDone \/ \E p \in Painters : Redraw(p)

Spec == Init /\ [][Next]_vars

\* The painters run on; a lock that keeps being free is taken (the video thread sleeps
\* between its rounds); surfaceChanged follows a change.  The emulator and the system
\* need do nothing.
FairSpec ==
    /\ Spec
    /\ WF_vars(VideoWakes) /\ WF_vars(VideoDone) /\ WF_vars(SurfaceChanged) /\ WF_vars(UIDone)
    /\ \A p \in Painters :
          SF_vars(Enter(p)) /\ SF_vars(LockCanvas(p))
          /\ WF_vars(CheckView(p) \/ Count(p) \/ DrawBitmap(p) \/ Post(p))

-----------------------------------------------------------------------------
(* Properties *)

\* A line is still to be drawn: it is pending, or a redraw is on its way to it.
Awaited(l) ==
    \/ dirty /\ startLine <= l /\ l < endLine
    \/ resized
    \/ pc["ui"] \in {"check", "enter", "count", "lock", "draw"}
    \/ \E p \in Painters : pc[p] = "post" /\ l \in drawn[p]

\* No change is lost: a line that was announced and that the screen does not show as
\* it is (externalRedraw, videoRedraw, surfaceChanged in any order) is still awaited.
\* (While setMode runs, the bitmap is about to be thrown away; a surfaceChanged that read
\* the size before setMode and drew after it is the exception.)
SettingMode == nPc \in {"size set", "reset"}
NoLostLine ==
    \A l \in stale \ unannounced :
        surface = "none" \/ SettingMode \/ skewed \/ crashed \/ Awaited(l)

\* Such a line is eventually drawn, as long as there is a surface to draw it on.
Repainted ==
    \A l \in Lines :
        (l \in stale \ unannounced)
            ~> (l \notin stale \ unannounced \/ surface = "none" \/ SettingMode
                \/ skewed \/ crashed)

=============================================================================
