------------------------- MODULE ScreenUpdateProofs -------------------------
(***************************************************************************)
(* Proofs about ScreenUpdate for every number of lines and every bound:    *)
(* the types, and that no announced change is forgotten.                   *)
(***************************************************************************)
EXTENDS ScreenUpdate, WellFoundedInduction, TLAPS

-----------------------------------------------------------------------------
(* The first and the last line of a frame *)

LEMMA LessWellFounded == IsWellFoundedOn({p \in Nat \X Nat : p[1] < p[2]}, Nat)
BY NatLessThanWellFounded DEF OpToRel

LEMMA FirstLine ==
    ASSUME NEW S, S \subseteq Lines, S # {}
    PROVE  Min(S) \in S
<1> DEFINE less == {p \in Nat \X Nat : p[1] < p[2]}
<1>1. S \subseteq Nat
    BY DEF Lines
<1>2. IsWellFoundedOn(less, Nat)
    BY LessWellFounded
<1> HIDE DEF less
<1>3. PICK x \in S : \A y \in S : <<y, x>> \notin less
    BY <1>1, <1>2, WFMin
<1> USE DEF less
<1>4. \A y \in S : ~(y < x)
    BY <1>1, <1>3
<1>5. \A y \in S : x <= y
    BY <1>1, <1>4
<1> QED BY <1>5 DEF Min

LEMMA LastLine ==
    ASSUME NEW S, S \subseteq Lines, S # {}
    PROVE  Max(S) \in S
<1> DEFINE less == {p \in Nat \X Nat : p[1] < p[2]}
           below == {LineCount - y : y \in S}
<1>a. \A y \in S : y \in Nat /\ LineCount - y \in Nat
    BY LineCountAssumption DEF Lines
<1>1. below \subseteq Nat /\ below # {} /\ LineCount \in Nat
    BY <1>a, LineCountAssumption
<1>2. IsWellFoundedOn(less, Nat)
    BY LessWellFounded
<1> HIDE DEF less, below
<1>3. PICK d \in below : \A e \in below : <<e, d>> \notin less
    BY <1>1, <1>2, WFMin
<1> USE DEF less, below
<1>4. PICK x \in S : d = LineCount - x
    BY <1>3
<1>5. \A y \in S : LineCount - y \in Nat /\ ~(LineCount - y < d)
    BY <1>a, <1>1, <1>3
<1>6. \A y \in S : x >= y
    BY <1>a, <1>1, <1>4, <1>5
<1> QED BY <1>6 DEF Max

-----------------------------------------------------------------------------
(* Types *)

\* The types in four parts, each with few actions that touch it.
FieldsTyped ==
    /\ srcMode \in 0 .. MaxModes /\ bitmapMode \in 0 .. MaxModes /\ modes \in 0 .. MaxModes
    /\ dirty \in BOOLEAN /\ startLine \in Lines /\ endLine \in 0 .. LineCount
    /\ dirtyCount \in 0 .. 3 /\ seen \in [Painters -> 0 .. 2]

FlagsTyped ==
    /\ dirtyLock \in {"free", "video"}
    /\ holderLock \in {"free"} \cup Painters /\ canvasLock \in {"free"} \cup Painters
    /\ surface \in {"none", "up"} /\ running \in BOOLEAN /\ resized \in BOOLEAN
    /\ nPc \in {"idle", "frame", "size set", "reset"}
    /\ whole \in BOOLEAN /\ skewed \in BOOLEAN /\ crashed \in BOOLEAN
    /\ frames \in 0 .. MaxFrames /\ surfaces \in 0 .. MaxSurfaces

PaintersTyped == pc \in [Painters -> Places] /\ job \in [Painters -> Jobs]

LinesTyped ==
    /\ written \subseteq Lines /\ unannounced \subseteq Lines /\ stale \subseteq Lines
    /\ drawn \in [Painters -> SUBSET Lines]

LEMMA TypeParts == TypeOK <=> FieldsTyped /\ FlagsTyped /\ PaintersTyped /\ LinesTyped
BY DEF TypeOK, FieldsTyped, FlagsTyped, PaintersTyped, LinesTyped

LEMMA ScreenTypeInit == Init => TypeOK
<1> SUFFICES ASSUME Init PROVE TypeOK
    OBVIOUS
<1>1. NoJob \in Jobs
    BY LineCountAssumption, BoundsAssumption DEF Jobs, NoJob, Lines
<1>a. /\ 0 \in 0 .. MaxModes /\ 0 \in Lines /\ 0 \in 0 .. LineCount /\ 0 \in 0 .. 2 /\ 0 \in 0 .. 3
      /\ 0 \in 0 .. MaxFrames /\ 0 \in 0 .. MaxSurfaces
    BY LineCountAssumption, BoundsAssumption DEF Lines
<1>2. FieldsTyped
    BY <1>a, Zenon DEF Init, FieldsTyped
<1>3. FlagsTyped
    BY <1>a, Zenon DEF Init, FlagsTyped
<1>4. PaintersTyped
    BY <1>1 DEF Init, PaintersTyped, Places
<1>5. LinesTyped
    BY DEF Init, LinesTyped
<1> QED BY <1>2, <1>3, <1>4, <1>5, TypeParts

LEMMA OneMore ==
    ASSUME NEW N \in Nat, NEW n \in 0 .. N, n < N
    PROVE  n + 1 \in 0 .. N
OBVIOUS

LEMMA FieldsTypeStep == TypeOK /\ [Next]_vars => FieldsTyped'
<1> SUFFICES ASSUME FieldsTyped, LinesTyped, [Next]_vars PROVE FieldsTyped'
    BY TypeParts
<1> USE LineCountAssumption, BoundsAssumption DEF FieldsTyped
<1>1. CASE SetSize
    <2>a. modes \in 0 .. MaxModes /\ modes < MaxModes
        BY <1>1, Zenon DEF SetSize
    <2>1. modes + 1 \in 0 .. MaxModes
        BY <2>a, OneMore
    <2>2. /\ srcMode' = modes + 1 /\ modes' = modes + 1
          /\ UNCHANGED <<bitmapMode, dirty, startLine, endLine, dirtyCount, seen>>
        BY <1>1 DEF SetSize, painter
    <2> QED BY <2>1, <2>2, Zenon
<1>2. CASE SetModeDirty \/ NewBitmap
    <2>1. CASE SetModeDirty
        <3>1. dirtyCount' = 0
            BY <2>1, Zenon DEF SetModeDirty
        <3>2. UNCHANGED <<srcMode, bitmapMode, modes, dirty, startLine, endLine, seen>>
            BY <2>1 DEF SetModeDirty, painter
        <3>3. 0 \in 0 .. 3
            OBVIOUS
        <3> QED BY <3>1, <3>2, <3>3, Zenon
    <2>2. CASE NewBitmap
        BY <2>2, Zenon DEF NewBitmap, painter
    <2> QED BY <1>2, <2>1, <2>2
<1>3. CASE StartFrame \/ DrawLine \/ AbortFrame
    BY <1>3 DEF StartFrame, DrawLine, AbortFrame, fields, painter
<1>4. CASE EndFrame
    <2>1. CASE written = {}
        BY <1>4, <2>1 DEF EndFrame, painter
    <2>2. CASE written # {}
        <3>1. Min(written) \in Lines /\ Max(written) \in Lines
            BY <2>2, FirstLine, LastLine DEF LinesTyped
        <3>2. MergedStart(Min(written)) \in Lines /\ MergedEnd(Max(written) + 1) \in 0 .. LineCount
            BY <3>1 DEF MergedStart, MergedEnd, Lines
        <3> QED BY <1>4, <2>2, <3>2 DEF EndFrame, painter
    <2> QED BY <2>1, <2>2
<1>5. CASE VideoWakes \/ VideoDone
    BY <1>5 DEF VideoWakes, VideoDone, fields, emu
<1>6. ASSUME NEW p \in Painters, Redraw(p) PROVE FieldsTyped'
    <2>1. CASE CheckView(p) \/ LockCanvas(p) \/ DrawBitmap(p) \/ Post(p)
        BY <2>1 DEF CheckView, LockCanvas, DrawBitmap, Post, fields, emu
    <2>2. CASE Enter(p)
        BY <2>2 DEF Enter, FullRedraw, fields, emu
    <2>3. CASE Count(p)
        BY <2>3 DEF Count, emu
    <2> QED BY <1>6, <2>1, <2>2, <2>3 DEF Redraw
<1>7. CASE SurfaceCreated \/ SurfaceResized \/ UIDone \/ SurfaceGone \/ SurfaceDestroyed
    BY <1>7 DEF SurfaceCreated, SurfaceResized, UIDone, SurfaceGone, SurfaceDestroyed, fields,
                painter, emu
<1>8. CASE SurfaceChanged
    BY <1>8 DEF SurfaceChanged, emu
<1>9. CASE UNCHANGED vars
    BY <1>9 DEF vars, fields, painter, emu
<1> QED BY <1>1, <1>2, <1>3, <1>4, <1>5, <1>6, <1>7, <1>8, <1>9 DEF Next, Emulator, UI

LEMMA FlagsTypeStep == TypeOK /\ [Next]_vars => FlagsTyped'
<1> SUFFICES ASSUME FlagsTyped, [Next]_vars PROVE FlagsTyped'
    BY TypeParts
<1> USE BoundsAssumption DEF FlagsTyped
<1>1. CASE SetSize \/ SetModeDirty \/ NewBitmap
    BY <1>1 DEF SetSize, SetModeDirty, NewBitmap, view
<1>2. CASE StartFrame
    <2>a. frames \in 0 .. MaxFrames /\ frames < MaxFrames
        BY <1>2, Zenon DEF StartFrame
    <2>1. frames + 1 \in 0 .. MaxFrames
        BY <2>a, OneMore
    <2> QED BY <1>2, <2>1 DEF StartFrame, view
<1>9. CASE DrawLine \/ AbortFrame
    BY <1>9 DEF DrawLine, AbortFrame, view
<1>3. CASE EndFrame
    BY <1>3 DEF EndFrame, view
<1>4. CASE VideoWakes \/ VideoDone
    BY <1>4 DEF VideoWakes, VideoDone, view, emu
<1>5. ASSUME NEW p \in Painters, Redraw(p) PROVE FlagsTyped'
    <2>1. CASE CheckView(p) \/ Enter(p) \/ Count(p)
        BY <2>1, ZenonT(60) DEF CheckView, Enter, Count, view, emu
    <2>2. CASE LockCanvas(p)
        BY <2>2 DEF LockCanvas, view, emu
    <2>3. CASE DrawBitmap(p)
        <3>1. skewed' \in BOOLEAN
            BY <2>3, Zenon DEF DrawBitmap
        <3> QED BY <2>3, <3>1 DEF DrawBitmap, view, emu
    <2>4. CASE Post(p)
        BY <2>4 DEF Post, CanvasReturned, view, emu
    <2> QED BY <1>5, <2>1, <2>2, <2>3, <2>4 DEF Redraw
<1>6. CASE SurfaceCreated \/ SurfaceResized
    <2>a. surfaces \in 0 .. MaxSurfaces /\ surfaces < MaxSurfaces
        BY <1>6, Zenon DEF SurfaceCreated, SurfaceResized
    <2>1. surfaces + 1 \in 0 .. MaxSurfaces
        BY <2>a, OneMore
    <2>2. CASE SurfaceCreated
        <3>1. surfaces' \in 0 .. MaxSurfaces
            BY <2>1, <2>2 DEF SurfaceCreated
        <3> QED BY <2>2, <3>1, Zenon DEF SurfaceCreated, emu
    <2>3. CASE SurfaceResized
        <3>1. surfaces' \in 0 .. MaxSurfaces
            BY <2>1, <2>3 DEF SurfaceResized
        <3> QED BY <2>3, <3>1, Zenon DEF SurfaceResized, emu
    <2> QED BY <1>6, <2>2, <2>3
<1>10. CASE SurfaceChanged
    BY <1>10 DEF SurfaceChanged, emu
<1>7. CASE UIDone \/ SurfaceGone \/ SurfaceDestroyed
    BY <1>7 DEF UIDone, SurfaceGone, SurfaceDestroyed, view, emu
<1>8. CASE UNCHANGED vars
    BY <1>8 DEF vars, view, emu
<1> QED BY <1>1, <1>2, <1>3, <1>4, <1>5, <1>6, <1>7, <1>8, <1>9, <1>10 DEF Next, Emulator, UI

LEMMA PaintersTypeStep == TypeOK /\ [Next]_vars => PaintersTyped'
<1> SUFFICES ASSUME TypeOK, [Next]_vars PROVE PaintersTyped'
    OBVIOUS
<1>a. pc \in [Painters -> Places] /\ job \in [Painters -> Jobs]
    BY DEF TypeOK
<1>b. \A p \in Painters, x \in Places : [pc EXCEPT ![p] = x] \in [Painters -> Places]
    BY <1>a
<1>c. \A p \in Painters, j \in Jobs : [job EXCEPT ![p] = j] \in [Painters -> Jobs]
    BY <1>a
<1>d. /\ NoJob \in Jobs
      /\ \A m \in 0 .. MaxModes, f \in Lines, t \in 0 .. LineCount :
             [mode |-> m, from |-> f, to |-> t] \in Jobs
      /\ 0 \in Lines /\ LineCount \in 0 .. LineCount
    BY LineCountAssumption, BoundsAssumption DEF Jobs, NoJob, Lines
<1>e. /\ srcMode \in 0 .. MaxModes /\ startLine \in Lines /\ endLine \in 0 .. LineCount
      /\ "video" \in Painters /\ "ui" \in Painters
    BY DEF TypeOK, Painters
<1>f. {"idle", "check", "enter", "count", "lock", "draw", "post", "done"} = Places
    BY DEF Places
<1> USE DEF PaintersTyped
<1>1. CASE Emulator \/ SurfaceCreated \/ SurfaceResized \/ SurfaceGone \/ SurfaceDestroyed
    BY <1>1, <1>a DEF Emulator, SetSize, SetModeDirty, NewBitmap, StartFrame, DrawLine, EndFrame,
                AbortFrame, SurfaceCreated, SurfaceResized, SurfaceGone, SurfaceDestroyed, painter
<1>2. CASE VideoWakes
    BY <1>2, <1>b, <1>c, <1>d, <1>e, <1>f DEF VideoWakes, Goto
<1>3. CASE VideoDone
    BY <1>3, <1>b, <1>c, <1>d, <1>e, <1>f DEF VideoDone, Goto
<1>4. ASSUME NEW p \in Painters, Redraw(p) PROVE PaintersTyped'
    <2>1. CASE CheckView(p)
        BY <2>1, <1>a, <1>b, <1>f DEF CheckView, Goto
    <2>2. CASE Enter(p)
        BY <2>2, <1>a, <1>b, <1>f DEF Enter, Goto
    <2>3. CASE Count(p)
        <3>1. job' = [job EXCEPT ![p] = [mode |-> job[p].mode, from |-> 0, to |-> LineCount]]
            BY <2>3 DEF Count
        <3>2. job[p].mode \in 0 .. MaxModes
            BY <1>a DEF Jobs
        <3> QED BY <2>3, <3>1, <3>2, <1>b, <1>c, <1>d, <1>f DEF Count, Goto
    <2>4. CASE LockCanvas(p)
        BY <2>4, <1>a, <1>b, <1>f DEF LockCanvas, Goto
    <2>5. CASE DrawBitmap(p) \/ Post(p)
        BY <2>5, <1>a, <1>b, <1>f DEF DrawBitmap, Post, Goto
    <2> QED BY <1>4, <2>1, <2>2, <2>3, <2>4, <2>5 DEF Redraw
<1>5. CASE SurfaceChanged
    BY <1>5, <1>b, <1>c, <1>d, <1>e, <1>f DEF SurfaceChanged, Goto
<1>6. CASE UIDone
    BY <1>6, <1>b, <1>c, <1>d, <1>e, <1>f DEF UIDone, Goto
<1>7. CASE UNCHANGED vars
    BY <1>7, <1>a DEF vars, painter
<1> QED BY <1>1, <1>2, <1>3, <1>4, <1>5, <1>6, <1>7 DEF Next, UI

LEMMA LinesTypeStep == TypeOK /\ [Next]_vars => LinesTyped'
<1> SUFFICES ASSUME LinesTyped, [Next]_vars PROVE LinesTyped'
    BY TypeParts
<1> USE DEF LinesTyped
<1>1. CASE SetSize \/ SetModeDirty \/ StartFrame \/ AbortFrame
    BY <1>1 DEF SetSize, SetModeDirty, StartFrame, AbortFrame
<1>2. CASE NewBitmap
    BY <1>2 DEF NewBitmap
<1>3. CASE DrawLine
    BY <1>3 DEF DrawLine
<1>4. CASE EndFrame
    BY <1>4 DEF EndFrame
<1>5. CASE VideoWakes \/ VideoDone
    BY <1>5 DEF VideoWakes, VideoDone, emu
<1>6. ASSUME NEW p \in Painters, Redraw(p) PROVE LinesTyped'
    <2>1. CASE CheckView(p) \/ Enter(p) \/ Count(p) \/ LockCanvas(p)
        BY <2>1 DEF CheckView, Enter, Count, LockCanvas, emu
    <2>2. CASE DrawBitmap(p)
        BY <2>2 DEF DrawBitmap, Covered, emu
    <2>3. CASE Post(p)
        BY <2>3 DEF Post, Covered, emu
    <2> QED BY <1>6, <2>1, <2>2, <2>3 DEF Redraw
<1>7. CASE UI
    BY <1>7 DEF UI, SurfaceCreated, SurfaceResized, SurfaceChanged, UIDone, SurfaceGone,
                SurfaceDestroyed, emu
<1>8. CASE UNCHANGED vars
    BY <1>8 DEF vars, emu
<1> QED BY <1>1, <1>2, <1>3, <1>4, <1>5, <1>6, <1>7, <1>8 DEF Next, Emulator

LEMMA ScreenTypeStep == TypeOK /\ [Next]_vars => TypeOK'
<1>1. (FieldsTyped /\ FlagsTyped /\ PaintersTyped /\ LinesTyped => TypeOK)'
    BY TypeParts, PTL
<1> QED BY <1>1, FieldsTypeStep, FlagsTypeStep, PaintersTypeStep, LinesTypeStep

\* The locks, the painters' places and arguments and the sets of lines stay in their types.
THEOREM ScreenTypes == Spec => []TypeOK
BY ScreenTypeInit, ScreenTypeStep, PTL DEF Spec

-----------------------------------------------------------------------------
(* The inductive invariant *)

Drawing == {"check", "enter", "count", "lock", "draw"}

\* The video thread holds dirtyLock exactly during its round; meanwhile what was
\* announced stays announced, and the round covers it.
RoundHolds ==
    pc["video"] # "idle" =>
        /\ dirtyLock = "video"
        /\ dirty
        /\ job["video"].mode # 0
        /\ job["video"].from <= startLine /\ endLine <= job["video"].to

\* The sizes in use are known, and the bitmap has the emulator's but while setMode runs;
\* before the first setMode everything is still to be announced.
ModesKnown ==
    /\ dirtyLock = "video" => pc["video"] # "idle"
    /\ dirty => srcMode # 0
    /\ bitmapMode # 0 => srcMode # 0
    /\ nPc = "frame" => bitmapMode # 0
    /\ ~SettingMode => srcMode = bitmapMode
    /\ srcMode = 0 => unannounced = Lines

\* What Android and surfaceCreated say of the surface agrees while the UI thread draws.
ViewUp ==
    /\ running \/ surface = "none"
    /\ resized => surface = "up"
    /\ pc["ui"] # "idle" => running /\ surface = "up" /\ job["ui"].from = 0 /\ job["ui"].to = LineCount
    /\ pc["ui"] \in Drawing \ {"check"} => job["ui"].mode # 0

\* Who draws or posts has the canvas, so the painters draw one after the other.
CanvasHeld == \A p \in Painters : pc[p] \in {"draw", "post"} => canvasLock = p

\* A round with the size of an older mode draws nothing, but then the new bitmap has not
\* announced anything either.
OldMode ==
    pc["video"] # "idle" /\ job["video"].mode # bitmapMode => SettingMode \/ unannounced = Lines

\* An announced line waits for a redraw that has not drawn yet; the property's exceptions.
Pending(l) == dirty /\ startLine <= l /\ l < endLine /\ pc["video"] \notin {"post", "done"}
Excused == SettingMode \/ skewed \/ crashed

Waits(l) ==
    \/ Pending(l)
    \/ resized
    \/ pc["ui"] \in Drawing /\ job["ui"].mode # 0
    \/ \E p \in Painters : pc[p] = "post" /\ l \in drawn[p]

\* No line is forgotten; the others say what a painter that posts leaves behind.
NothingForgotten == \A l \in stale \ unannounced : surface = "none" \/ Excused \/ Waits(l)

VideoPosts ==
    pc["video"] = "post" =>
        \A l \in Covered(job["video"].from, job["video"].to) :
            l \in drawn["video"] \/ l \in unannounced \/ SettingMode

UiPosts ==
    pc["ui"] = "post" =>
        \A l \in Lines : l \in drawn["ui"] \/ l \in unannounced \/ Excused \/ Pending(l)

ScreenInv ==
    /\ TypeOK
    /\ RoundHolds /\ ModesKnown /\ ViewUp /\ CanvasHeld /\ OldMode
    /\ NothingForgotten /\ VideoPosts /\ UiPosts

\* What a step to another place does to the places.
LEMMA Gone ==
    ASSUME TypeOK, NEW p \in Painters, NEW x, Goto(p, x)
    PROVE  pc'[p] = x /\ \A q \in Painters : q # p => pc'[q] = pc[q]
<1>1. pc \in [Painters -> Places]
    BY DEF TypeOK
<1> QED BY <1>1 DEF Goto

LEMMA NewJob ==
    ASSUME TypeOK, NEW p \in Painters, NEW j, job' = [job EXCEPT ![p] = j]
    PROVE  job'[p] = j /\ \A q \in Painters : q # p => job'[q] = job[q]
<1>1. job \in [Painters -> Jobs]
    BY DEF TypeOK
<1> QED BY <1>1

LEMMA TwoPainters == "video" \in Painters /\ "ui" \in Painters /\ \A p \in Painters : p = "video" \/ p = "ui"
BY DEF Painters

\* What the other two threads leave of the video thread, and of the UI thread.
VideoLeft == pc'["video"] = pc["video"] /\ job'["video"] = job["video"]
UiLeft    == pc'["ui"] = pc["ui"] /\ job'["ui"] = job["ui"]

LEMMA UiKeepsVideo == TypeOK /\ (UI \/ Redraw("ui")) => VideoLeft
<1> SUFFICES ASSUME TypeOK, UI \/ Redraw("ui") PROVE VideoLeft
    OBVIOUS
<1> USE TwoPainters DEF VideoLeft
<1>1. CASE SurfaceCreated \/ SurfaceResized \/ SurfaceGone \/ SurfaceDestroyed
    BY <1>1 DEF SurfaceCreated, SurfaceResized, SurfaceGone, SurfaceDestroyed, painter
<1>2. CASE SurfaceChanged \/ UIDone
    BY <1>2, Gone, NewJob DEF SurfaceChanged, UIDone
<1>3. CASE CheckView("ui") \/ Enter("ui") \/ LockCanvas("ui") \/ DrawBitmap("ui") \/ Post("ui")
    BY <1>3, Gone DEF CheckView, Enter, LockCanvas, DrawBitmap, Post
<1>4. CASE Count("ui")
    BY <1>4, Gone, NewJob DEF Count
<1> QED BY <1>1, <1>2, <1>3, <1>4 DEF UI, Redraw

LEMMA VideoKeepsUi == TypeOK /\ (VideoWakes \/ VideoDone \/ Redraw("video")) => UiLeft
<1> SUFFICES ASSUME TypeOK, VideoWakes \/ VideoDone \/ Redraw("video") PROVE UiLeft
    OBVIOUS
<1> USE TwoPainters DEF UiLeft
<1>1. CASE VideoWakes
    BY <1>1, Gone, NewJob DEF VideoWakes
<1>2. CASE VideoDone
    BY <1>2, Gone, NewJob DEF VideoDone
<1>3. CASE CheckView("video") \/ Enter("video") \/ LockCanvas("video") \/ DrawBitmap("video") \/ Post("video")
    BY <1>3, Gone DEF CheckView, Enter, LockCanvas, DrawBitmap, Post
<1>4. CASE Count("video")
    BY <1>4, Gone, NewJob DEF Count
<1> QED BY <1>1, <1>2, <1>3, <1>4 DEF Redraw

LEMMA EmulatorKeepsPainters == Emulator => UNCHANGED <<pc, job>>
BY DEF Emulator, SetSize, SetModeDirty, NewBitmap, StartFrame, DrawLine, EndFrame, AbortFrame, painter


LEMMA ScreenInvInit == Init => ScreenInv
<1> SUFFICES ASSUME Init PROVE ScreenInv
    OBVIOUS
<1>1. TypeOK
    BY ScreenTypeInit
<1>2. \A p \in Painters : pc[p] = "idle"
    BY DEF Init
<1>3. unannounced = Lines /\ stale = Lines /\ nPc = "idle"
    BY DEF Init
<1>4. RoundHolds /\ CanvasHeld /\ OldMode /\ NothingForgotten /\ VideoPosts /\ UiPosts
    BY <1>2, <1>3, TwoPainters
       DEF RoundHolds, CanvasHeld, OldMode, NothingForgotten, VideoPosts, UiPosts
<1>5. ModesKnown
    BY DEF Init, ModesKnown, SettingMode
<1>6. ViewUp
    BY <1>2, TwoPainters DEF Init, ViewUp, Drawing
<1> QED BY <1>1, <1>4, <1>5, <1>6 DEF ScreenInv

LEMMA RoundHoldsStep == ScreenInv /\ [Next]_vars => RoundHolds'
<1> SUFFICES ASSUME ScreenInv, [Next]_vars PROVE RoundHolds'
    OBVIOUS
<1>a. TypeOK /\ RoundHolds /\ ModesKnown
    BY DEF ScreenInv
<1>b. /\ startLine \in Lines /\ endLine \in 0 .. LineCount
    BY <1>a DEF TypeOK
<1> USE TwoPainters
<1>1. CASE Emulator
    <2>1. UNCHANGED <<pc, job>>
        BY <1>1, EmulatorKeepsPainters
    <2>2. CASE EndFrame
        <3>1. CASE written = {}
            BY <2>1, <2>2, <3>1, <1>a DEF EndFrame, RoundHolds
        <3>2. CASE written # {}
            BY <2>1, <2>2, <3>2, <1>a DEF EndFrame, MayAnnounce, RoundHolds
        <3> QED BY <3>1, <3>2
    <2>3. CASE Emulator /\ ~EndFrame
        <3>1. UNCHANGED <<dirtyLock, dirty, startLine, endLine>>
            BY <2>3 DEF Emulator, SetSize, SetModeDirty, NewBitmap, StartFrame, DrawLine, AbortFrame, fields
        <3> QED BY <2>1, <3>1, <1>a DEF RoundHolds
    <2> QED BY <1>1, <2>2, <2>3
<1>2. CASE UI \/ Redraw("ui")
    <2>1. VideoLeft
        BY <1>2, <1>a, UiKeepsVideo
    <2>2. UNCHANGED <<dirtyLock, dirty, startLine, endLine>>
        BY <1>2 DEF UI, SurfaceCreated, SurfaceResized, SurfaceChanged, UIDone, SurfaceGone,
                    SurfaceDestroyed, Redraw, CheckView, Enter, Count, LockCanvas, DrawBitmap, Post, fields
    <2> QED BY <2>1, <2>2, <1>a DEF VideoLeft, RoundHolds
<1>3. CASE VideoWakes
    <2>1. pc'["video"] = "check" /\ job'["video"] = [mode |-> srcMode, from |-> startLine, to |-> endLine]
        BY <1>3, <1>a, Gone, NewJob, ZenonT(60) DEF VideoWakes
    <2>2. dirtyLock' = "video" /\ dirty /\ UNCHANGED <<dirty, startLine, endLine>> /\ srcMode # 0
        BY <1>3, <1>a DEF VideoWakes, fields, ModesKnown
    <2>3. startLine <= startLine /\ endLine <= endLine
        BY <1>b DEF Lines
    <2> QED BY <2>1, <2>2, <2>3 DEF RoundHolds
<1>4. CASE VideoDone
    BY <1>4, <1>a, Gone DEF VideoDone, RoundHolds
<1>5. CASE CheckView("video") \/ Enter("video") \/ LockCanvas("video") \/ DrawBitmap("video") \/ Post("video")
    <2>1. pc["video"] # "idle" /\ UNCHANGED <<dirtyLock, dirty, startLine, endLine, job>>
        BY <1>5 DEF CheckView, Enter, LockCanvas, DrawBitmap, Post, At, fields
    <2> QED BY <2>1, <1>a DEF RoundHolds
<1>6. CASE Count("video")
    <2>1. pc["video"] # "idle" /\ UNCHANGED <<dirtyLock, dirty, startLine, endLine>>
        BY <1>6 DEF Count, At
    <2>2. job'["video"] = [mode |-> job["video"].mode, from |-> 0, to |-> LineCount]
        BY <1>6, <1>a, NewJob DEF Count
    <2>3. 0 <= startLine /\ endLine <= LineCount
        BY <1>b, LineCountAssumption DEF Lines
    <2> QED BY <2>1, <2>2, <2>3, <1>a DEF RoundHolds
<1>7. CASE UNCHANGED vars
    BY <1>7, <1>a DEF vars, fields, painter, RoundHolds
<1> QED BY <1>1, <1>2, <1>3, <1>4, <1>5, <1>6, <1>7 DEF Next, Redraw

LEMMA ModesKnownStep == ScreenInv /\ [Next]_vars => ModesKnown'
<1> SUFFICES ASSUME ScreenInv, [Next]_vars PROVE ModesKnown'
    OBVIOUS
<1>a. TypeOK /\ RoundHolds /\ ModesKnown
    BY DEF ScreenInv
<1>b. modes \in Nat /\ unannounced \subseteq Lines /\ modes + 1 # 0
    <2>1. FieldsTyped /\ LinesTyped
        BY <1>a, TypeParts
    <2>2. modes \in 0 .. MaxModes /\ unannounced \subseteq Lines
        BY <2>1 DEF FieldsTyped, LinesTyped
    <2> QED BY <2>2, BoundsAssumption
<1> USE <1>a, TwoPainters DEF ModesKnown
<1>1. CASE SetSize
    <2>1. srcMode' # 0 /\ nPc' = "size set" /\ UNCHANGED <<dirtyLock, pc>>
        BY <1>1, <1>b DEF SetSize, painter
    <2> QED BY <2>1 DEF SettingMode
<1>2. CASE SetModeDirty
    BY <1>2 DEF SetModeDirty, painter, SettingMode
<1>3. CASE NewBitmap
    BY <1>3 DEF NewBitmap, painter, SettingMode
<1>4. CASE StartFrame \/ AbortFrame
    BY <1>4 DEF StartFrame, AbortFrame, painter, fields, SettingMode
<1>5. CASE DrawLine
    BY <1>5 DEF DrawLine, painter, fields, SettingMode
<1>6. CASE EndFrame
    <2>1. srcMode # 0 /\ nPc' = "idle" /\ ~SettingMode /\ UNCHANGED <<srcMode, bitmapMode, dirtyLock, pc>>
        BY <1>6 DEF EndFrame, painter, SettingMode
    <2> QED BY <2>1 DEF SettingMode
<1>7. CASE UI \/ Redraw("ui")
    <2>1. VideoLeft
        BY <1>7, UiKeepsVideo
    <2>2. UNCHANGED <<dirtyLock, dirty, srcMode, bitmapMode, nPc, unannounced>>
        BY <1>7 DEF UI, SurfaceCreated, SurfaceResized, SurfaceChanged, UIDone, SurfaceGone,
                    SurfaceDestroyed, Redraw, CheckView, Enter, Count, LockCanvas, DrawBitmap, Post, fields, emu
    <2> QED BY <2>1, <2>2 DEF VideoLeft, SettingMode
<1>8. CASE VideoWakes
    <2>1. pc'["video"] = "check"
        BY <1>8, Gone DEF VideoWakes
    <2>2. UNCHANGED <<dirty, srcMode, bitmapMode, nPc, unannounced>>
        BY <1>8 DEF VideoWakes, fields, emu
    <2> QED BY <2>1, <2>2 DEF SettingMode
<1>9. CASE VideoDone
    BY <1>9, Gone DEF VideoDone, emu, SettingMode
<1>10. CASE Redraw("video")
    <2>1. pc'["video"] # "idle"
        <3>1. CASE LockCanvas("video")
            BY <3>1, Gone DEF LockCanvas, At
        <3>2. CASE CheckView("video") \/ Enter("video") \/ Count("video") \/ DrawBitmap("video") \/ Post("video")
            <4>1. PICK x \in {"enter", "done", "count", "lock", "post"} : Goto("video", x)
                BY <3>2 DEF CheckView, Enter, Count, DrawBitmap, Post
            <4> QED BY <4>1, Gone
        <3> QED BY <1>10, <3>1, <3>2 DEF Redraw
    <2>2. UNCHANGED <<dirty, srcMode, bitmapMode, nPc, unannounced>>
        BY <1>10 DEF Redraw, CheckView, Enter, Count, LockCanvas, DrawBitmap, Post, fields, emu
    <2> QED BY <2>1, <2>2 DEF SettingMode
<1>11. CASE UNCHANGED vars
    BY <1>11 DEF vars, fields, painter, emu, SettingMode
<1> QED BY <1>1, <1>2, <1>3, <1>4, <1>5, <1>6, <1>7, <1>8, <1>9, <1>10, <1>11 DEF Next, Emulator

LEMMA CanvasHeldStep == ScreenInv /\ [Next]_vars => CanvasHeld'
<1> SUFFICES ASSUME ScreenInv, [Next]_vars PROVE CanvasHeld'
    OBVIOUS
<1>a. TypeOK /\ CanvasHeld
    BY DEF ScreenInv
<1> USE <1>a, TwoPainters DEF CanvasHeld
<1>1. CASE Emulator
    <2>1. UNCHANGED <<canvasLock, pc>>
        BY <1>1 DEF Emulator, SetSize, SetModeDirty, NewBitmap, StartFrame, DrawLine, EndFrame,
                    AbortFrame, painter
    <2> QED BY <2>1
<1>2. CASE SurfaceCreated \/ SurfaceResized \/ SurfaceGone \/ SurfaceDestroyed
    BY <1>2 DEF SurfaceCreated, SurfaceResized, SurfaceGone, SurfaceDestroyed, painter
<1>3. CASE SurfaceChanged \/ UIDone
    BY <1>3, Gone DEF SurfaceChanged, UIDone
<1>4. CASE VideoWakes \/ VideoDone
    BY <1>4, Gone DEF VideoWakes, VideoDone
<1>5. ASSUME NEW p \in Painters, Redraw(p) PROVE CanvasHeld'
    <2>1. CASE CheckView(p) \/ Enter(p) \/ Count(p)
        BY <2>1, Gone DEF CheckView, Enter, Count
    <2>2. CASE LockCanvas(p)
        BY <2>2, Gone DEF LockCanvas
    <2>3. CASE DrawBitmap(p)
        BY <2>3, Gone DEF DrawBitmap, At
    <2>4. CASE Post(p)
        BY <2>4, Gone DEF Post, At
    <2> QED BY <1>5, <2>1, <2>2, <2>3, <2>4 DEF Redraw
<1>6. CASE UNCHANGED vars
    BY <1>6 DEF vars, painter
<1> QED BY <1>1, <1>2, <1>3, <1>4, <1>5, <1>6 DEF Next, UI


LEMMA ViewUpStep == ScreenInv /\ [Next]_vars => ViewUp'
<1> SUFFICES ASSUME ScreenInv, [Next]_vars PROVE ViewUp'
    OBVIOUS
<1>a. TypeOK /\ ViewUp
    BY DEF ScreenInv
<1> USE <1>a, TwoPainters DEF ViewUp, Drawing
<1>1. CASE Emulator
    <2>1. UNCHANGED <<running, surface, resized, pc, job>>
        BY <1>1 DEF Emulator, SetSize, SetModeDirty, NewBitmap, StartFrame, DrawLine, EndFrame,
                    AbortFrame, painter, view
    <2> QED BY <2>1
<1>2. CASE VideoWakes \/ VideoDone \/ Redraw("video")
    <2>1. UiLeft
        BY <1>2, VideoKeepsUi
    <2>2. UNCHANGED <<running, surface, resized>>
        BY <1>2 DEF VideoWakes, VideoDone, Redraw, CheckView, Enter, Count, LockCanvas, DrawBitmap, Post, view
    <2> QED BY <2>1, <2>2 DEF UiLeft
<1>3. CASE SurfaceCreated \/ SurfaceResized
    BY <1>3 DEF SurfaceCreated, SurfaceResized, painter, At
<1>4. CASE SurfaceGone \/ SurfaceDestroyed
    BY <1>4 DEF SurfaceGone, SurfaceDestroyed, painter, At
<1>5. CASE SurfaceChanged
    <2>1. pc'["ui"] = "check" /\ job'["ui"] = [mode |-> srcMode, from |-> 0, to |-> LineCount]
        BY <1>5, Gone, NewJob, ZenonT(60) DEF SurfaceChanged
    <2>2. resized /\ resized' = FALSE /\ UNCHANGED <<running, surface>>
        BY <1>5 DEF SurfaceChanged
    <2>3. surface = "up" /\ running
        BY <2>2
    <2> QED BY <2>1, <2>2, <2>3
<1>6. CASE UIDone
    BY <1>6, Gone DEF UIDone, view
<1>7. CASE Count("ui")
    <2>1. pc["ui"] = "count" /\ pc'["ui"] = "lock" /\ UNCHANGED <<running, surface, resized>>
        BY <1>7, Gone DEF Count, At, view
    <2>2. job'["ui"] = [mode |-> job["ui"].mode, from |-> 0, to |-> LineCount]
        BY <1>7, NewJob DEF Count
    <2> QED BY <2>1, <2>2
<1>8. CASE CheckView("ui")
    <2>1. pc["ui"] = "check" /\ UNCHANGED <<running, surface, resized, job>>
        BY <1>8 DEF CheckView, At, view
    <2>2. pc'["ui"] = "enter" => job["ui"].mode # 0
        BY <1>8, Gone DEF CheckView
    <2>3. pc'["ui"] \in {"enter", "done"}
        BY <1>8, Gone DEF CheckView
    <2> QED BY <2>1, <2>2, <2>3
<1>9. CASE Enter("ui") \/ LockCanvas("ui") \/ DrawBitmap("ui") \/ Post("ui")
    <2>1. pc["ui"] \in {"enter", "lock", "draw", "post"} /\ UNCHANGED <<running, surface, resized, job>>
        BY <1>9 DEF Enter, LockCanvas, DrawBitmap, Post, At, view
    <2>2. CASE Post("ui")
        BY <2>1, <2>2, Gone DEF Post
    <2>3. CASE ~Post("ui")
        <3>1. pc["ui"] # "post"
            BY <1>9, <2>3 DEF Enter, LockCanvas, DrawBitmap, At
        <3> QED BY <2>1, <3>1
    <2> QED BY <2>2, <2>3
<1>10. CASE UNCHANGED vars
    BY <1>10 DEF vars, view, painter
<1> QED BY <1>1, <1>2, <1>3, <1>4, <1>5, <1>6, <1>7, <1>8, <1>9, <1>10 DEF Next, UI, Redraw

LEMMA OldModeStep == ScreenInv /\ [Next]_vars => OldMode'
<1> SUFFICES ASSUME ScreenInv, [Next]_vars PROVE OldMode'
    OBVIOUS
<1>a. TypeOK /\ OldMode /\ ModesKnown /\ RoundHolds
    BY DEF ScreenInv
<1>b. unannounced \subseteq Lines
    BY <1>a DEF TypeOK
<1> USE <1>a, TwoPainters DEF OldMode
<1>1. CASE SetSize \/ SetModeDirty
    BY <1>1 DEF SetSize, SetModeDirty, SettingMode
<1>2. CASE NewBitmap
    BY <1>2 DEF NewBitmap
<1>3. CASE StartFrame \/ AbortFrame
    BY <1>3 DEF StartFrame, AbortFrame, painter, fields, SettingMode
<1>4. CASE DrawLine
    <2>1. unannounced \subseteq unannounced' /\ unannounced' \subseteq Lines
        BY <1>4, <1>b DEF DrawLine
    <2>2. UNCHANGED <<pc, job, bitmapMode, nPc>>
        BY <1>4 DEF DrawLine, painter, fields
    <2> QED BY <2>1, <2>2 DEF SettingMode
<1>5. CASE EndFrame
    <2>1. UNCHANGED <<pc, job, bitmapMode>> /\ nPc = "frame"
        BY <1>5 DEF EndFrame, painter
    <2>2. pc["video"] # "idle" => unannounced' = unannounced
        BY <1>5 DEF EndFrame, MayAnnounce, RoundHolds
    <2> QED BY <2>1, <2>2 DEF SettingMode
<1>6. CASE UI \/ Redraw("ui")
    <2>1. VideoLeft
        BY <1>6, UiKeepsVideo
    <2>2. UNCHANGED <<bitmapMode, nPc, unannounced>>
        BY <1>6 DEF UI, SurfaceCreated, SurfaceResized, SurfaceChanged, UIDone, SurfaceGone,
                    SurfaceDestroyed, Redraw, CheckView, Enter, Count, LockCanvas, DrawBitmap, Post, fields, emu
    <2> QED BY <2>1, <2>2 DEF VideoLeft, SettingMode
<1>7. CASE VideoWakes
    <2>a. job'["video"] = [mode |-> srcMode, from |-> startLine, to |-> endLine]
        BY <1>7, NewJob DEF VideoWakes
    <2>1. job'["video"].mode = srcMode
        BY <2>a
    <2>2. UNCHANGED <<bitmapMode, nPc, unannounced>>
        BY <1>7 DEF VideoWakes, fields, emu
    <2> QED BY <2>1, <2>2 DEF SettingMode, ModesKnown
<1>8. CASE VideoDone
    BY <1>8, Gone DEF VideoDone
<1>9. CASE Redraw("video")
    <2>1. pc["video"] # "idle" /\ UNCHANGED <<bitmapMode, nPc, unannounced>>
        BY <1>9 DEF Redraw, CheckView, Enter, Count, LockCanvas, DrawBitmap, Post, At, fields, emu
    <2>2. job'["video"].mode = job["video"].mode
        <3>1. CASE Count("video")
            BY <3>1, NewJob DEF Count
        <3>2. CASE ~Count("video")
            BY <1>9, <3>2 DEF Redraw, CheckView, Enter, LockCanvas, DrawBitmap, Post
        <3> QED BY <3>1, <3>2
    <2> QED BY <2>1, <2>2 DEF SettingMode
<1>10. CASE UNCHANGED vars
    BY <1>10 DEF vars, fields, painter, emu, SettingMode
<1> QED BY <1>1, <1>2, <1>3, <1>4, <1>5, <1>6, <1>7, <1>8, <1>9, <1>10 DEF Next, Emulator

LEMMA VideoPostsStep == ScreenInv /\ [Next]_vars => VideoPosts'
<1> SUFFICES ASSUME ScreenInv, [Next]_vars, pc'["video"] = "post",
                    NEW l \in Covered(job'["video"].from, job'["video"].to),
                    l \notin unannounced', ~SettingMode'
             PROVE  l \in drawn'["video"]
    BY Zenon DEF VideoPosts
<1>a. TypeOK /\ OldMode /\ RoundHolds /\ VideoPosts /\ CanvasHeld
    BY DEF ScreenInv
<1>b. drawn \in [Painters -> SUBSET Lines] /\ l \in Lines
    BY <1>a DEF TypeOK, Covered
<1> USE <1>a, TwoPainters
<1>1. CASE SetSize \/ SetModeDirty
    BY <1>1 DEF SetSize, SetModeDirty, SettingMode
<1>2. CASE NewBitmap
    BY <1>2, <1>b DEF NewBitmap
<1>3. CASE StartFrame \/ AbortFrame \/ UNCHANGED vars
    BY <1>3 DEF StartFrame, AbortFrame, vars, painter, fields, emu, SettingMode, VideoPosts
<1>4. CASE DrawLine
    <2>1. PICK k \in Lines : unannounced' = unannounced \cup {k} /\ drawn' = [p \in Painters |-> drawn[p] \ {k}]
        BY <1>4 DEF DrawLine
    <2>2. UNCHANGED <<pc, job, nPc>>
        BY <1>4 DEF DrawLine, painter
    <2> QED BY <2>1, <2>2 DEF SettingMode, VideoPosts
<1>5. CASE EndFrame
    <2>1. UNCHANGED <<pc, job, drawn>> /\ nPc = "frame"
        BY <1>5 DEF EndFrame, painter
    <2>2. pc["video"] # "idle" => unannounced' = unannounced
        BY <1>5 DEF EndFrame, MayAnnounce, RoundHolds
    <2> QED BY <2>1, <2>2 DEF SettingMode, VideoPosts
<1>6. CASE UI \/ Redraw("ui")
    <2>1. VideoLeft
        BY <1>6, UiKeepsVideo
    <2>2. UNCHANGED <<nPc, unannounced>>
        BY <1>6 DEF UI, SurfaceCreated, SurfaceResized, SurfaceChanged, UIDone, SurfaceGone,
                    SurfaceDestroyed, Redraw, CheckView, Enter, Count, LockCanvas, DrawBitmap, Post, emu
    <2>3. drawn'["video"] = drawn["video"]
        <3>1. CASE DrawBitmap("ui")
            BY <3>1, <1>b DEF DrawBitmap
        <3>2. CASE Post("ui")
            BY <3>2, <1>b DEF Post
        <3>3. CASE ~DrawBitmap("ui") /\ ~Post("ui")
            BY <1>6, <3>3 DEF UI, SurfaceCreated, SurfaceResized, SurfaceChanged, UIDone, SurfaceGone,
                    SurfaceDestroyed, Redraw, CheckView, Enter, Count, LockCanvas
        <3> QED BY <3>1, <3>2, <3>3
    <2> QED BY <2>1, <2>2, <2>3 DEF VideoLeft, SettingMode, VideoPosts
<1>7. CASE VideoWakes \/ VideoDone
    BY <1>7, Gone DEF VideoWakes, VideoDone
<1>8. CASE DrawBitmap("video")
    <2>1. UNCHANGED <<job, nPc, unannounced, bitmapMode>> /\ pc["video"] # "idle"
        BY <1>8 DEF DrawBitmap, emu, fields, At
    <2>2. job["video"].mode = bitmapMode
        BY <2>1, <1>b DEF OldMode, SettingMode
    <2>3. drawn'["video"] = Covered(job["video"].from, job["video"].to)
        BY <1>8, <1>b, <2>2 DEF DrawBitmap
    <2> QED BY <2>1, <2>3
<1>9. CASE CheckView("video") \/ Enter("video") \/ Count("video") \/ Post("video")
    <2>1. PICK x \in {"enter", "done", "count", "lock"} : Goto("video", x)
        BY <1>9 DEF CheckView, Enter, Count, Post
    <2> QED BY <2>1, Gone
<1>10. CASE LockCanvas("video")
    BY <1>10, Gone DEF LockCanvas, At
<1> QED BY <1>1, <1>2, <1>3, <1>4, <1>5, <1>6, <1>7, <1>8, <1>9, <1>10 DEF Next, Emulator, Redraw


\* EndFrame keeps what is pending, and what it announces is pending from then on.
LEMMA Announced ==
    ASSUME ScreenInv, EndFrame, NEW l \in Lines
    PROVE  /\ Pending(l) => Pending(l)'
           /\ l \notin unannounced' => l \notin unannounced \/ Pending(l)'
<1>a. TypeOK /\ RoundHolds
    BY DEF ScreenInv
<1>b. /\ dirty \in BOOLEAN /\ startLine \in Lines /\ endLine \in 0 .. LineCount
      /\ written \subseteq Lines
    BY <1>a DEF TypeOK
<1>c. UNCHANGED pc
    BY DEF EndFrame, painter
<1>1. CASE written = {}
    BY <1>1, <1>c DEF EndFrame, Pending
<1>2. CASE written # {}
    <2>1. /\ Min(written) \in Lines /\ Max(written) \in Lines
        BY <1>2, <1>b, FirstLine, LastLine
    <2>2. pc["video"] = "idle"
        BY <1>2, <1>a DEF EndFrame, MayAnnounce, RoundHolds
    <2>3. /\ dirty' = TRUE
          /\ startLine' = MergedStart(Min(written)) /\ endLine' = MergedEnd(Max(written) + 1)
          /\ unannounced' = unannounced \ Covered(Min(written), Max(written) + 1)
        BY <1>2 DEF EndFrame
    <2>4. /\ startLine' <= Min(written) /\ Max(written) + 1 <= endLine'
          /\ dirty => startLine' <= startLine /\ endLine <= endLine'
        BY <2>1, <2>3, <1>b, LineCountAssumption DEF MergedStart, MergedEnd, Lines
    <2>5. startLine' \in Nat /\ endLine' \in Nat
        BY <2>1, <2>3, <1>b, LineCountAssumption DEF MergedStart, MergedEnd, Lines
    <2>6. Pending(l) => Pending(l)'
        BY <2>2, <2>3, <2>4, <2>5, <1>b, <1>c, LineCountAssumption DEF Pending, Lines
    <2>7. l \in Covered(Min(written), Max(written) + 1) => Pending(l)'
        BY <2>1, <2>2, <2>3, <2>4, <2>5, <1>c, LineCountAssumption DEF Pending, Covered, Lines
    <2> QED BY <2>3, <2>6, <2>7
<1> QED BY <1>1, <1>2

\* The video thread's steps that keep what is pending: all but its drawing and posting.
LEMMA PendingKept ==
    ASSUME ScreenInv, NEW l \in Lines, surface # "none",
           CheckView("video") \/ Enter("video") \/ Count("video") \/ LockCanvas("video")
    PROVE  Pending(l) => Pending(l)'
<1>a. TypeOK /\ RoundHolds /\ ViewUp
    BY DEF ScreenInv
<1>b. UNCHANGED <<dirty, startLine, endLine>>
    BY DEF CheckView, Enter, Count, LockCanvas, fields
<1>1. pc'["video"] \notin {"post", "done"} 
    <2>1. CASE CheckView("video")
        <3>1. running /\ job["video"].mode # 0
            BY <2>1, <1>a DEF CheckView, At, RoundHolds, ViewUp
        <3> QED BY <2>1, <3>1, <1>a, Gone, TwoPainters DEF CheckView
    <2>2. CASE Enter("video") \/ Count("video")
        <3>1. Goto("video", "count") \/ Goto("video", "lock")
            BY <2>2 DEF Enter, Count
        <3> QED BY <3>1, <1>a, Gone, TwoPainters
    <2>3. CASE LockCanvas("video")
        BY <2>3, <1>a, Gone, TwoPainters DEF LockCanvas, At
    <2> QED BY <2>1, <2>2, <2>3
<1> QED BY <1>1, <1>b DEF Pending

LEMMA UiPostsStep == ScreenInv /\ [Next]_vars => UiPosts'
<1> SUFFICES ASSUME ScreenInv, [Next]_vars, pc'["ui"] = "post",
                    NEW l \in Lines, l \notin unannounced', ~Excused'
             PROVE  l \in drawn'["ui"] \/ Pending(l)'
    BY Zenon DEF UiPosts
<1>a. TypeOK /\ OldMode /\ RoundHolds /\ UiPosts /\ CanvasHeld /\ ViewUp
    BY DEF ScreenInv
<1>b. drawn \in [Painters -> SUBSET Lines]
    BY <1>a DEF TypeOK
<1> USE <1>a, TwoPainters
<1>1. CASE SetSize \/ SetModeDirty
    BY <1>1 DEF SetSize, SetModeDirty, SettingMode, Excused
<1>2. CASE NewBitmap
    BY <1>2, <1>b DEF NewBitmap
<1>3. CASE StartFrame \/ AbortFrame \/ UNCHANGED vars
    <2>1. UNCHANGED <<pc, job, drawn, dirty, startLine, endLine, unannounced, skewed, crashed>>
        BY <1>3 DEF StartFrame, AbortFrame, vars, painter, fields, emu
    <2>2. SettingMode => SettingMode'
        BY <1>3 DEF StartFrame, AbortFrame, vars, emu, SettingMode
    <2> QED BY <2>1, <2>2 DEF Excused, UiPosts, Pending
<1>4. CASE DrawLine
    <2>1. PICK k \in Lines : unannounced' = unannounced \cup {k} /\ drawn' = [p \in Painters |-> drawn[p] \ {k}]
        BY <1>4 DEF DrawLine
    <2>2. UNCHANGED <<pc, job, nPc, dirty, startLine, endLine, skewed, crashed>>
        BY <1>4 DEF DrawLine, painter, fields
    <2> QED BY <2>1, <2>2 DEF SettingMode, Excused, UiPosts, Pending
<1>5. CASE EndFrame
    <2>1. UNCHANGED <<pc, drawn, skewed, crashed>> /\ ~SettingMode
        BY <1>5 DEF EndFrame, painter, SettingMode
    <2>2. l \in drawn["ui"] \/ l \in unannounced \/ Pending(l)
        BY <2>1 DEF UiPosts, Excused
    <2> QED BY <1>5, <2>1, <2>2, Announced
<1>6. CASE VideoWakes
    <2>1. pc'["video"] = "check" /\ pc'["ui"] = pc["ui"]
        BY <1>6, Gone DEF VideoWakes
    <2>2. UNCHANGED <<drawn, nPc, unannounced, dirty, startLine, endLine, skewed, crashed>>
        BY <1>6 DEF VideoWakes, emu, fields
    <2> QED BY <2>1, <2>2 DEF SettingMode, Excused, UiPosts, Pending
<1>7. CASE VideoDone
    <2>1. pc["video"] = "done" /\ pc'["ui"] = pc["ui"]
        BY <1>7, Gone DEF VideoDone, At
    <2>2. UNCHANGED <<drawn, nPc, unannounced, skewed, crashed>>
        BY <1>7 DEF VideoDone, emu
    <2> QED BY <2>1, <2>2 DEF SettingMode, Excused, UiPosts, Pending
<1>8. CASE CheckView("video") \/ Enter("video") \/ Count("video") \/ LockCanvas("video")
    <2>1. pc'["ui"] = pc["ui"]
        BY <1>8, VideoKeepsUi DEF Redraw, UiLeft
    <2>2. UNCHANGED <<drawn, nPc, unannounced, skewed>> /\ (crashed => crashed')
        BY <1>8 DEF CheckView, Enter, Count, LockCanvas, emu, At
    <2>3. surface # "none"
        BY <2>1 DEF ViewUp
    <2> QED BY <1>8, <2>1, <2>2, <2>3, PendingKept DEF SettingMode, Excused, UiPosts
<1>9. CASE DrawBitmap("video") \/ Post("video")
    <2>1. pc'["ui"] = pc["ui"] /\ pc["video"] \in {"draw", "post"}
        BY <1>9, VideoKeepsUi DEF Redraw, UiLeft, DrawBitmap, Post, At
    <2> QED BY <2>1 DEF CanvasHeld
<1>10. CASE DrawBitmap("ui")
    <2>1. job["ui"].from = 0 /\ job["ui"].to = LineCount
        BY <1>10 DEF ViewUp, DrawBitmap, At
    <2>2. Covered(0, LineCount) = Lines
        BY LineCountAssumption DEF Covered, Lines
    <2>3. CASE job["ui"].mode = bitmapMode
        BY <1>10, <1>b, <2>1, <2>2, <2>3 DEF DrawBitmap
    <2>4. CASE job["ui"].mode # bitmapMode
        BY <1>10, <2>4 DEF DrawBitmap, Excused
    <2> QED BY <2>3, <2>4
<1>11. CASE UI \/ CheckView("ui") \/ Enter("ui") \/ Count("ui") \/ LockCanvas("ui") \/ Post("ui")
    <2>1. CASE SurfaceCreated \/ SurfaceResized \/ SurfaceGone \/ SurfaceDestroyed
        BY <2>1 DEF SurfaceCreated, SurfaceResized, SurfaceGone, SurfaceDestroyed, painter, At
    <2>2. CASE LockCanvas("ui")
        BY <2>2, Gone DEF LockCanvas, At
    <2>3. CASE SurfaceChanged \/ UIDone \/ CheckView("ui") \/ Enter("ui") \/ Count("ui") \/ Post("ui")
        <3>1. PICK x \in {"check", "idle", "enter", "done", "count", "lock"} : Goto("ui", x)
            BY <2>3 DEF SurfaceChanged, UIDone, CheckView, Enter, Count, Post
        <3> QED BY <3>1, Gone
    <2> QED BY <1>11, <2>1, <2>2, <2>3 DEF UI
<1> QED BY <1>1, <1>2, <1>3, <1>4, <1>5, <1>6, <1>7, <1>8, <1>9, <1>10, <1>11 DEF Next, Emulator, Redraw


LEMMA NothingForgottenStep == ScreenInv /\ [Next]_vars => NothingForgotten'
<1> SUFFICES ASSUME ScreenInv, [Next]_vars, NEW l \in stale', l \notin unannounced',
                    surface' # "none", ~Excused'
             PROVE  Waits(l)'
    BY Zenon DEF NothingForgotten
<1>a. TypeOK /\ OldMode /\ RoundHolds /\ ModesKnown /\ CanvasHeld /\ ViewUp
      /\ NothingForgotten /\ VideoPosts /\ UiPosts
    BY DEF ScreenInv
<1>b. /\ drawn \in [Painters -> SUBSET Lines] /\ stale \subseteq Lines /\ unannounced \subseteq Lines
      /\ surface \in {"none", "up"}
    BY <1>a DEF TypeOK
<1>c. l \in Lines
    <2>1. LinesTyped'
        BY <1>a, LinesTypeStep
    <2> QED BY <2>1 DEF LinesTyped
<1> USE <1>a, TwoPainters
<1>1. CASE SetSize \/ SetModeDirty
    BY <1>1 DEF SetSize, SetModeDirty, SettingMode, Excused
<1>2. CASE NewBitmap
    BY <1>2, <1>c DEF NewBitmap
<1>3. CASE StartFrame \/ AbortFrame \/ UNCHANGED vars
    <2>1. /\ UNCHANGED <<pc, job, drawn, dirty, startLine, endLine, unannounced, skewed, crashed>>
          /\ UNCHANGED <<stale, surface, resized>>
        BY <1>3 DEF StartFrame, AbortFrame, vars, painter, fields, emu, view
    <2>2. SettingMode => SettingMode'
        BY <1>3 DEF StartFrame, AbortFrame, vars, emu, SettingMode
    <2>3. Waits(l)
        BY <2>1, <2>2 DEF Excused, NothingForgotten
    <2> QED BY <2>1, <2>3 DEF Waits, Pending
<1>4. CASE DrawLine
    <2>1. PICK k \in Lines : /\ unannounced' = unannounced \cup {k} /\ stale' = stale \cup {k}
                             /\ drawn' = [p \in Painters |-> drawn[p] \ {k}]
        BY <1>4 DEF DrawLine
    <2>2. UNCHANGED <<pc, job, nPc, dirty, startLine, endLine, skewed, crashed, surface, resized>>
        BY <1>4 DEF DrawLine, painter, fields, view
    <2>3. l # k /\ Waits(l)
        BY <2>1, <2>2 DEF SettingMode, Excused, NothingForgotten
    <2> QED BY <2>1, <2>2, <2>3 DEF Waits, Pending
<1>5. CASE EndFrame
    <2>1. UNCHANGED <<pc, job, drawn, skewed, crashed, stale, surface, resized>> /\ ~SettingMode
        BY <1>5 DEF EndFrame, painter, view, SettingMode
    <2>2. l \in unannounced \/ Waits(l)
        BY <2>1 DEF Excused, NothingForgotten
    <2>3. (Pending(l) => Pending(l)') /\ (l \notin unannounced \/ Pending(l)')
        BY <1>5, <1>c, Announced
    <2> QED BY <2>1, <2>2, <2>3 DEF Waits
<1>6. CASE VideoWakes
    <2>1. pc["video"] = "idle" /\ pc'["video"] = "check" /\ UiLeft
        BY <1>6, Gone, VideoKeepsUi DEF VideoWakes, At
    <2>2. /\ UNCHANGED <<drawn, nPc, unannounced, dirty, startLine, endLine, skewed, crashed>>
          /\ UNCHANGED <<stale, surface, resized>>
        BY <1>6 DEF VideoWakes, emu, fields, view
    <2>3. Waits(l)
        BY <2>2 DEF SettingMode, Excused, NothingForgotten
    <2> QED BY <2>1, <2>2, <2>3 DEF Waits, Pending, UiLeft
<1>7. CASE VideoDone
    <2>1. pc["video"] = "done" /\ UiLeft
        BY <1>7, VideoKeepsUi DEF VideoDone, At
    <2>2. UNCHANGED <<drawn, nPc, unannounced, skewed, crashed, stale, surface, resized>>
        BY <1>7 DEF VideoDone, emu, view
    <2>3. Waits(l) /\ ~Pending(l)
        BY <2>1, <2>2 DEF SettingMode, Excused, NothingForgotten, Pending
    <2> QED BY <2>1, <2>2, <2>3 DEF Waits, UiLeft
<1>8. CASE CheckView("video") \/ Enter("video") \/ Count("video") \/ LockCanvas("video")
    <2>1. UiLeft /\ pc["video"] # "post"
        BY <1>8, VideoKeepsUi DEF Redraw, CheckView, Enter, Count, LockCanvas, At
    <2>2. UNCHANGED <<drawn, nPc, unannounced, skewed, stale, surface, resized>> /\ (crashed => crashed')
        BY <1>8 DEF CheckView, Enter, Count, LockCanvas, emu, At, view
    <2>3. Waits(l)
        BY <2>2 DEF SettingMode, Excused, NothingForgotten
    <2>4. Pending(l) => Pending(l)'
        BY <1>8, <1>c, <2>2, PendingKept
    <2> QED BY <2>1, <2>2, <2>3, <2>4 DEF Waits, UiLeft
<1>9. CASE DrawBitmap("video")
    <2>1. pc["video"] = "draw" /\ pc'["video"] = "post" /\ UiLeft
        BY <1>9, Gone, VideoKeepsUi DEF Redraw, DrawBitmap, At
    <2>2. /\ UNCHANGED <<job, nPc, bitmapMode, unannounced, crashed, stale, surface, resized>>
          /\ UNCHANGED <<dirty, startLine, endLine>>
        BY <1>9 DEF DrawBitmap, emu, fields, view
    <2>3. job["video"].mode = bitmapMode
        BY <1>c, <2>1, <2>2 DEF OldMode, Excused, SettingMode
    <2>4. drawn'["video"] = Covered(job["video"].from, job["video"].to)
        BY <1>9, <1>b, <2>3 DEF DrawBitmap
    <2>5. pc["ui"] # "post"
        BY <2>1 DEF CanvasHeld
    <2>6. CASE drawn'["video"] = Lines
        BY <1>c, <2>1, <2>6 DEF Waits
    <2>7. CASE drawn'["video"] # Lines
        <3>1. ~skewed
            <4>1. ~skewed'
                BY DEF Excused
            <4>2. skewed' = (skewed \/ ("video" = "ui" /\ ~(job["video"].mode = bitmapMode)))
                BY <1>9, <2>7, Zenon DEF DrawBitmap
            <4> QED BY <4>1, <4>2, Zenon
        <3>2. Waits(l)
            BY <2>2, <3>1 DEF SettingMode, Excused, NothingForgotten
        <3>3. Pending(l) => l \in Covered(job["video"].from, job["video"].to)
            <4>1. /\ job["video"].from <= startLine /\ endLine <= job["video"].to
                BY <2>1 DEF RoundHolds
            <4>2. job["video"] \in Jobs /\ startLine \in Lines /\ endLine \in 0 .. LineCount
                BY DEF TypeOK
            <4>3. /\ job["video"].from \in Lines /\ job["video"].to \in 0 .. LineCount
                BY <4>2 DEF Jobs
            <4> QED BY <1>c, <4>1, <4>2, <4>3, LineCountAssumption DEF Pending, Covered, Lines
        <3> QED BY <2>1, <2>2, <2>4, <2>5, <3>2, <3>3 DEF Waits, UiLeft
    <2> QED BY <2>6, <2>7
<1>10. CASE Post("video")
    <2>1. pc["video"] = "post" /\ UiLeft
        BY <1>10, VideoKeepsUi DEF Redraw, Post, At
    <2>2. UNCHANGED <<nPc, unannounced, skewed, crashed, surface, resized>>
        BY <1>10 DEF Post, emu, view
    <2>3. pc["ui"] # "post"
        BY <2>1 DEF CanvasHeld
    <2>4. stale' = (stale \cup Covered(job["video"].from, job["video"].to)) \ drawn["video"]
        BY <1>10 DEF Post
    <2>5. l \in stale
        BY <2>1, <2>2, <2>4 DEF VideoPosts, Excused, SettingMode
    <2>6. Waits(l) /\ ~Pending(l) /\ l \notin drawn["video"]
        BY <2>1, <2>2, <2>4, <2>5 DEF SettingMode, Excused, NothingForgotten, Pending
    <2> QED BY <2>1, <2>2, <2>3, <2>6 DEF Waits, UiLeft
<1>11. CASE DrawBitmap("ui")
    <2>1. job["ui"].from = 0 /\ job["ui"].to = LineCount /\ pc'["ui"] = "post"
        BY <1>11, Gone DEF ViewUp, DrawBitmap, At
    <2>2. Covered(0, LineCount) = Lines
        BY LineCountAssumption DEF Covered, Lines
    <2>3. CASE job["ui"].mode = bitmapMode
        <3>1. drawn'["ui"] = Lines
            BY <1>11, <1>b, <2>1, <2>2, <2>3 DEF DrawBitmap
        <3> QED BY <1>c, <2>1, <3>1 DEF Waits
    <2>4. CASE job["ui"].mode # bitmapMode
        BY <1>11, <2>4 DEF DrawBitmap, Excused
    <2> QED BY <2>3, <2>4
<1>12. CASE Post("ui")
    <2>1. pc["ui"] = "post" /\ VideoLeft
        BY <1>12, UiKeepsVideo DEF Redraw, Post, At
    <2>2. UNCHANGED <<nPc, unannounced, skewed, crashed, dirty, startLine, endLine>>
        BY <1>12 DEF Post, emu, fields
    <2>3. l \notin drawn["ui"]
        BY <1>12 DEF Post
    <2>4. Pending(l)
        BY <1>c, <2>1, <2>2, <2>3 DEF UiPosts, Excused, SettingMode
    <2> QED BY <2>1, <2>2, <2>4 DEF Waits, Pending, VideoLeft
<1>13. CASE CheckView("ui") \/ Enter("ui") \/ Count("ui") \/ LockCanvas("ui")
    <2>1. VideoLeft
        BY <1>13, UiKeepsVideo DEF Redraw
    <2>2. /\ UNCHANGED <<drawn, nPc, unannounced, skewed, stale, surface, resized>> /\ (crashed => crashed')
          /\ pc["ui"] \in Drawing
        BY <1>13 DEF CheckView, Enter, Count, LockCanvas, emu, At, view, Drawing
    <2>3. Waits(l)
        BY <2>2 DEF SettingMode, Excused, NothingForgotten
    <2>4. Pending(l) => Pending(l)'
        <3>1. CASE Count("ui")
            BY <2>1, <3>1 DEF Count, VideoLeft, Pending
        <3>2. CASE CheckView("ui") \/ Enter("ui") \/ LockCanvas("ui")
            BY <2>1, <3>2 DEF CheckView, Enter, LockCanvas, VideoLeft, Pending, fields
        <3> QED BY <1>13, <3>1, <3>2
    <2>5. job["ui"].mode # 0 => pc'["ui"] \in Drawing /\ job'["ui"].mode # 0
        <3>1. CASE CheckView("ui")
            <4>1. running /\ UNCHANGED job
                BY <2>2, <3>1 DEF ViewUp, CheckView, Drawing
            <4> QED BY <3>1, <4>1, Gone DEF CheckView, Drawing
        <3>2. CASE Enter("ui")
            <4>1. (Goto("ui", "count") \/ Goto("ui", "lock")) /\ UNCHANGED job
                BY <3>2 DEF Enter
            <4> QED BY <4>1, Gone DEF Drawing
        <3>3. CASE Count("ui")
            <4>1. job'["ui"] = [mode |-> job["ui"].mode, from |-> 0, to |-> LineCount]
                BY <3>3, NewJob DEF Count
            <4>2. pc'["ui"] = "lock"
                BY <3>3, Gone DEF Count
            <4> QED BY <4>1, <4>2 DEF Drawing
        <3>4. CASE LockCanvas("ui")
            BY <3>4, Gone DEF LockCanvas, Excused, Drawing
        <3> QED BY <1>13, <3>1, <3>2, <3>3, <3>4
    <2>6. pc["ui"] # "post" /\ pc'["video"] = pc["video"]
        BY <2>1, <2>2 DEF Drawing, VideoLeft
    <2> QED BY <2>2, <2>3, <2>4, <2>5, <2>6 DEF Waits
<1>14. CASE SurfaceCreated \/ SurfaceResized
    BY <1>14 DEF SurfaceCreated, SurfaceResized, Waits
<1>15. CASE SurfaceChanged
    <2>1. /\ pc'["ui"] = "check"
          /\ job'["ui"] = [mode |-> srcMode, from |-> 0, to |-> LineCount]
        BY <1>15, Gone, NewJob, ZenonT(60) DEF SurfaceChanged
    <2>2. srcMode # 0
        BY <1>15, <1>c DEF SurfaceChanged, ModesKnown, emu
    <2>3. job'["ui"].mode # 0
        BY <2>1, <2>2
    <2> QED BY <2>1, <2>3 DEF Waits, Drawing
<1>16. CASE UIDone
    <2>1. pc["ui"] = "done" /\ VideoLeft
        BY <1>16, UiKeepsVideo DEF UI, UIDone, At
    <2>2. /\ UNCHANGED <<drawn, nPc, unannounced, dirty, startLine, endLine, skewed, crashed>>
          /\ UNCHANGED <<stale, surface, resized>>
        BY <1>16 DEF UIDone, emu, fields, view
    <2>3. Waits(l)
        BY <2>2 DEF SettingMode, Excused, NothingForgotten
    <2> QED BY <2>1, <2>2, <2>3 DEF Waits, Pending, VideoLeft, Drawing
<1>17. CASE SurfaceGone
    BY <1>17 DEF SurfaceGone
<1>18. CASE SurfaceDestroyed
    <2>1. /\ UNCHANGED <<pc, job, drawn, nPc, unannounced, dirty, startLine, endLine, skewed, crashed>>
          /\ UNCHANGED <<stale, surface, resized>>
        BY <1>18 DEF SurfaceDestroyed, painter, emu, fields
    <2>2. Waits(l)
        BY <2>1 DEF SettingMode, Excused, NothingForgotten
    <2> QED BY <2>1, <2>2 DEF Waits, Pending
<1> QED BY <1>1, <1>2, <1>3, <1>4, <1>5, <1>6, <1>7, <1>8, <1>9, <1>10, <1>11, <1>12, <1>13,
           <1>14, <1>15, <1>16, <1>17, <1>18 DEF Next, Emulator, Redraw, UI

LEMMA ScreenInvStep == ScreenInv /\ [Next]_vars => ScreenInv'
BY ScreenTypeStep, RoundHoldsStep, ModesKnownStep, ViewUpStep, CanvasHeldStep, OldModeStep,
   NothingForgottenStep, VideoPostsStep, UiPostsStep DEF ScreenInv

\* The accesses of emulator, painters and surface callbacks preserve all of it together.
THEOREM ScreenInvariant == Spec => []ScreenInv
BY ScreenInvInit, ScreenInvStep, PTL DEF Spec

\* A line that was announced and that the screen shows otherwise than the bitmap has it
\* (externalRedraw, videoRedraw, surfaceChanged in any order) is always still to be drawn.
THEOREM NoLineLost == Spec => []NoLostLine
<1>1. ScreenInv => NoLostLine
    <2> SUFFICES ASSUME ScreenInv, NEW l \in stale \ unannounced
                 PROVE  surface = "none" \/ SettingMode \/ skewed \/ crashed \/ Awaited(l)
        BY DEF NoLostLine
    <2>1. surface = "none" \/ Excused \/ Waits(l)
        BY DEF ScreenInv, NothingForgotten
    <2> QED BY <2>1 DEF Excused, Waits, Pending, Awaited, Drawing
<1> QED BY <1>1, ScreenInvariant, PTL

=============================================================================
