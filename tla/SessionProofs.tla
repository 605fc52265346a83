--------------------------- MODULE SessionProofs ----------------------------
(***************************************************************************)
(* Proofs about Session for every number of activities, with sound and     *)
(* without: the types, that no bitmap is given up while it is drawn, and   *)
(* where the UI thread may crash.                                          *)
(***************************************************************************)
EXTENDS Session, TLAPS

LEMMA FirstActivity == 1 \in Activities
BY MaxActivitiesAssumption DEF Activities

LEMMA Later == \A a, c \in Activities : ~(c > c) /\ (a > c + 1 \/ a = c + 1 => a > c)
BY MaxActivitiesAssumption DEF Activities

-----------------------------------------------------------------------------
(* Types *)

LEMMA SessionTypeInit == Init => TypeOK
<1> SUFFICES ASSUME Init PROVE TypeOK
    OBVIOUS
<1>1. ASSUME NEW S, NEW v \in S PROVE All(v) \in [Activities -> S]
    BY DEF All
<1>2. "unborn" \in Booting \cup Emulating \cup Leaving \cup {"audio init", "audio open", "shell", "dead"}
    BY DEF Booting
<1>3. nPc \in [Activities -> Booting \cup Emulating \cup Leaving
                              \cup {"audio init", "audio open", "shell", "dead"}]
    BY <1>1, <1>2 DEF Init
<1>4. vPc \in [Activities -> {"new", "started", "loop", "dead"}]
    BY DEF Init, All
<1>5. vRun \in [Activities -> BOOLEAN] /\ video \in [Activities -> BOOLEAN]
      /\ stopLost \in [Activities -> BOOLEAN]
    BY DEF Init, All
<1>6. audio \in [Activities -> {"null", "opening", "ready"}]
    BY DEF Init, All
<1>7. /\ process \in {"alive", "killed", "crashed"}
      /\ current \in Activities /\ lifecycle \in {"starting", "resumed", "paused"}
      /\ uiPc \in {"init", "start video", "idle", "pause audio"}
    BY FirstActivity DEF Init
<1>8. pause \in BOOLEAN /\ destroyed \in BOOLEAN /\ audioFailed \in BOOLEAN
    BY DEF Init
<1>9. abort \in 0 .. 3
    BY DEF Init
<1> QED BY <1>3, <1>4, <1>5, <1>6, <1>7, <1>8, <1>9 DEF TypeOK

LEMMA SessionTypeStep == TypeOK /\ [Next]_vars => TypeOK'
<1> SUFFICES ASSUME TypeOK, [Next]_vars PROVE TypeOK'
    OBVIOUS
<1> DEFINE Places == Booting \cup Emulating \cup Leaving \cup {"audio init", "audio open", "shell", "dead"}
<1>a. /\ {"boot", "config", "audio init", "audio open", "emulate", "events", "suspended", "check"} \subseteq Places
      /\ {"shell", "drain", "exit", "join", "shutdown", "release", "kill", "dead"} \subseteq Places
    BY DEF Booting, Emulating, Leaving
<1>b. nPc \in [Activities -> Places]
    BY DEF TypeOK
<1>c. ASSUME NEW a \in Activities, NEW from, NEW to \in Places, Native(a, from, to)
      PROVE nPc' \in [Activities -> Places]
    BY <1>b, <1>c DEF Native
<1>d. Booting \cup Emulating \cup Leaving \cup {"audio init", "audio open", "shell", "dead"} = Places
    OBVIOUS
<1> HIDE DEF Places
<1>1. CASE UI
    <2>1. CASE StartNative
        BY <2>1, <1>a, <1>b, <1>d DEF TypeOK, StartNative, dosbox, java
    <2>2. CASE StartVideo
        BY <2>2 DEF TypeOK, StartVideo, dosbox, java, Crash
    <2>3. CASE OnResume
        BY <2>3 DEF TypeOK, OnResume, java
    <2>4. CASE OnPause
        BY <2>4 DEF TypeOK, OnPause, java, PauseChecksAudio
    <2>5. CASE OnPauseAudio
        BY <2>5 DEF TypeOK, OnPauseAudio, dosbox, java, Crash
    <2>6. CASE ViewCallback
        BY <2>6 DEF TypeOK, ViewCallback, dosbox, java, Crash
    <2>7. CASE Recreate
        <3>1. current + 1 \in Activities
            <4>1. current \in 1 .. MaxActivities /\ current < MaxActivities /\ MaxActivities \in Nat
                BY <2>7, MaxActivitiesAssumption DEF Recreate, TypeOK, Activities
            <4> QED BY <4>1 DEF Activities
        <3> QED BY <2>7, <3>1 DEF TypeOK, Recreate, dosbox, java
    <2> QED BY <1>1, <2>1, <2>2, <2>3, <2>4, <2>5, <2>6, <2>7 DEF UI
<1>2. ASSUME NEW a \in Activities, NativeSteps(a) \/ Program(a) PROVE TypeOK'
    <2>1. nPc' \in [Activities -> Places]
        <3>1. CASE Boot(a) \/ Config(a) \/ AudioNew(a) \/ AudioOpened(a)
            BY <3>1, <1>a, <1>c DEF Boot, Config, AudioNew, AudioOpened
        <3>2. CASE Idle(a) \/ Events(a) \/ PauseEnds(a) \/ Check(a) \/ ShellEnds(a) \/ Drain(a)
            BY <3>2, <1>a, <1>c DEF Idle, Events, PauseEnds, Check, ShellEnds, Drain
        <3>3. CASE ExitStopsVideo(a) \/ JoinVideo(a) \/ ShutdownView(a) \/ ReleaseAudio(a) \/ KillProcess(a)
            BY <3>3, <1>a, <1>c DEF ExitStopsVideo, JoinVideo, ShutdownView, ReleaseAudio, KillProcess
        <3>4. CASE CallbackFails(a) \/ GameQuits(a) \/ ShellNext(a)
            BY <3>4, <1>a, <1>b, <1>c DEF CallbackFails, GameQuits, ShellNext
        <3> QED BY <1>2, <3>1, <3>2, <3>3, <3>4 DEF NativeSteps, Program
    <2>2. process' \in {"alive", "killed", "crashed"} /\ UNCHANGED <<UI_Vars, vPc, stopLost>>
        BY <1>2 DEF TypeOK, NativeSteps, Program, Boot, Config, AudioNew, AudioOpened, Idle, Events,
            PauseEnds, Check, ShellEnds, Drain, ExitStopsVideo, JoinVideo, ShutdownView, ReleaseAudio,
            KillProcess, CallbackFails, GameQuits, ShellNext, dosbox, java, UI_Vars
    <2>5. pause' \in BOOLEAN /\ destroyed' \in BOOLEAN
        BY <1>2 DEF TypeOK, NativeSteps, Program, Boot, Config, AudioNew, AudioOpened, Idle, Events,
            PauseEnds, Check, ShellEnds, Drain, ExitStopsVideo, JoinVideo, ShutdownView, ReleaseAudio,
            KillProcess, CallbackFails, GameQuits, ShellNext, dosbox, java, UI_Vars
    <2>7. abort' \in {abort, 0, 1, 2, 3}
        BY <1>2 DEF TypeOK, NativeSteps, Program, Boot, Config, AudioNew, AudioOpened, Idle, Events,
            PauseEnds, Check, ShellEnds, Drain, ExitStopsVideo, JoinVideo, ShutdownView, ReleaseAudio,
            KillProcess, CallbackFails, GameQuits, ShellNext, dosbox, java, UI_Vars
    <2>6. abort' \in 0 .. 3
        <3>1. abort \in 0 .. 3
            BY DEF TypeOK
        <3> QED BY <2>7, <3>1
    <2>3. vRun' \in [Activities -> BOOLEAN] /\ video' \in [Activities -> BOOLEAN]
        BY <1>2 DEF TypeOK, NativeSteps, Program, Boot, Config, AudioNew, AudioOpened, Idle, Events,
            PauseEnds, Check, ShellEnds, Drain, ExitStopsVideo, StopVideo, JoinVideo, ShutdownView,
            ReleaseAudio, KillProcess, CallbackFails, GameQuits, ShellNext, dosbox, java
    <2>4. audio' \in [Activities -> {"null", "opening", "ready"}] /\ audioFailed' \in BOOLEAN
        <3>1. CASE AudioOpened(a)
            <4>1. PICK result \in AudioResult : audio' = [audio EXCEPT ![a] = result]
                                               /\ audioFailed' = (audioFailed \/ result = "null")
                BY <3>1 DEF AudioOpened
            <4>2. audio' \in [Activities -> {"null", "opening", "ready"}]
                BY <4>1 DEF TypeOK, AudioResult
            <4>3. audioFailed' \in BOOLEAN
                BY <4>1
            <4> QED BY <4>2, <4>3
        <3> QED BY <1>2, <3>1 DEF TypeOK, NativeSteps, Program, Boot, Config, AudioNew, Idle, Events,
            PauseEnds, Check, ShellEnds, Drain, ExitStopsVideo, JoinVideo, ShutdownView,
            ReleaseAudio, KillProcess, CallbackFails, GameQuits, ShellNext, dosbox, java
    <2> QED BY <2>1, <2>2, <2>3, <2>4, <2>5, <2>6, <1>d DEF TypeOK, UI_Vars
<1>3. ASSUME NEW a \in Activities, Video(a) PROVE TypeOK'
    <2>1. CASE VideoRun(a)
        <3> DEFINE late == nPc[a] \in {"join", "shutdown", "release", "kill"}
        <3>1. late \in BOOLEAN
            OBVIOUS
        <3>0. stopLost' = [stopLost EXCEPT ![a] = late]
            BY <2>1, Zenon DEF VideoRun
        <3> HIDE DEF late
        <3>2. stopLost' \in [Activities -> BOOLEAN]
            BY <3>0, <3>1 DEF TypeOK
        <3> QED BY <2>1, <3>2 DEF TypeOK, VideoRun, dosbox, java, UI_Vars
    <2>2. CASE VideoEnds(a)
        BY <2>2 DEF TypeOK, VideoEnds, dosbox, java, UI_Vars
    <2> QED BY <1>3, <2>1, <2>2 DEF Video
<1>4. CASE UNCHANGED vars
    BY <1>4 DEF TypeOK, vars, dosbox, java
<1> QED BY <1>1, <1>2, <1>3, <1>4 DEF Next

\* Every part keeps its type: the threads of each activity are at places the code has.
THEOREM SessionTypes == Spec => []TypeOK
<1> QED BY SessionTypeInit, SessionTypeStep, PTL DEF Spec

-----------------------------------------------------------------------------
(* The end of an activity *)

\* What makes the two invariants inductive: an activity in front that has yet to start its
\* threads, and those after it, have none; an activity whose view has been shut down is
\* past that place; and while the UI thread is about to use the audio device it is there,
\* or never came, or is being released.
SessionInv ==
    /\ TypeOK
    /\ \A a \in Activities : a > current \/ (a = current /\ uiPc = "init") => nPc[a] = "unborn"
    /\ \A a \in Activities : ~video[a] =>
           nPc[a] \in {"release", "kill"} \/ (nPc[a] = "dead" /\ process # "alive")
    /\ \A a \in Activities :
           nPc[a] \in {"shutdown", "release", "kill"} \/ ~video[a] => stopLost[a] \/ vPc[a] # "loop"
    /\ process = "alive" /\ uiPc = "pause audio" =>
           audio[current] # "null" \/ audioFailed \/ nPc[current] = "kill"
    /\ CrashOnlyAtExit

LEMMA SessionInit == Init => SessionInv
<1> SUFFICES ASSUME Init PROVE SessionInv
    OBVIOUS
<1>1. \A a \in Activities : nPc[a] = "unborn" /\ video[a] = TRUE /\ vPc[a] = "new" /\ stopLost[a] = FALSE
    BY DEF Init, All
<1> QED BY <1>1, SessionTypeInit DEF Init, SessionInv, CrashOnlyAtExit

\* A step of the UI thread.
LEMMA SessionUI == SessionInv /\ TypeOK' /\ UI => SessionInv'
<1> SUFFICES ASSUME SessionInv, TypeOK', UI PROVE SessionInv'
    OBVIOUS
<1> USE DEF SessionInv
<1>a. current \in Activities /\ process = "alive" /\ UNCHANGED <<video, audio, audioFailed, stopLost>>
    BY DEF UI, TypeOK, StartNative, StartVideo, OnResume, OnPause, OnPauseAudio, ViewCallback, Recreate,
           UIAt, Running, java
<1>1. CASE StartNative
    <2>1. uiPc = "init" /\ nPc[current] = "unborn" /\ video[current]
        BY <1>1, <1>a DEF StartNative, UIAt
    <2>2. /\ nPc' = [nPc EXCEPT ![current] = "boot"] /\ uiPc' = "start video"
          /\ UNCHANGED <<process, current, vPc>>
        BY <1>1 DEF StartNative
    <2>3. \A a \in Activities : nPc'[a] = IF a = current THEN "boot" ELSE nPc[a]
        BY <2>2 DEF TypeOK
    <2>4. CrashOnlyAtExit'
        BY <1>a, <2>2 DEF CrashOnlyAtExit
    <2>5. \A a \in Activities : a > current \/ (a = current /\ uiPc' = "init") => nPc'[a] = "unborn"
        <3>1. ~(current > current)
            BY <1>a, Later
        <3> QED BY <2>2, <2>3, <3>1
    <2>6. \A a \in Activities : ~video'[a] =>
              nPc'[a] \in {"release", "kill"} \/ (nPc'[a] = "dead" /\ process' # "alive")
        BY <1>a, <2>1, <2>2, <2>3
    <2>7. \A a \in Activities :
              nPc'[a] \in {"shutdown", "release", "kill"} \/ ~video'[a] => stopLost'[a] \/ vPc'[a] # "loop"
        <3> TAKE a \in Activities
        <3>1. CASE a = current
            <4>1. nPc'[a] = "boot" /\ video'[a]
                BY <1>a, <2>1, <2>3, <3>1
            <4> QED BY <4>1
        <3>2. CASE a # current
            <4>1. nPc'[a] = nPc[a]
                BY <2>3, <3>2
            <4> QED BY <1>a, <2>2, <4>1
        <3> QED BY <3>1, <3>2
    <2> QED BY <1>a, <2>2, <2>4, <2>5, <2>6, <2>7
<1>2. CASE StartVideo
    <2>1. uiPc = "start video" /\ uiPc' = "idle" /\ UNCHANGED <<current, nPc>>
        BY <1>2 DEF StartVideo, UIAt
    <2>2. CASE video[current]
        <3>1. UNCHANGED process /\ vPc' = [vPc EXCEPT ![current] = "started"]
            BY <1>2, <2>2 DEF StartVideo
        <3>2. \A a \in Activities : vPc'[a] = "loop" => vPc[a] = "loop"
            BY <3>1, <1>a DEF TypeOK
        <3> QED BY <1>a, <2>1, <3>1, <3>2 DEF CrashOnlyAtExit
    <2>3. CASE ~video[current]
        <3>1. process' = "crashed" /\ UNCHANGED vPc
            BY <1>2, <2>3 DEF StartVideo, Crash
        <3>2. nPc[current] \in Leaving
            BY <2>3, <1>a DEF Leaving
        <3> QED BY <1>a, <2>1, <3>1, <3>2 DEF CrashOnlyAtExit
    <2> QED BY <2>2, <2>3
<1>3. CASE OnResume
    BY <1>3, <1>a DEF OnResume, UIAt, CrashOnlyAtExit
<1>4. CASE OnPause
    BY <1>4, <1>a DEF OnPause, PauseChecksAudio, UIAt, CrashOnlyAtExit
<1>5. CASE OnPauseAudio
    <2>1. uiPc = "pause audio" /\ uiPc' = "idle" /\ UNCHANGED <<current, nPc, vPc>>
        BY <1>5 DEF OnPauseAudio, UIAt, dosbox
    <2>2. CASE audio[current] = "null"
        <3>1. process' = "crashed"
            BY <1>5, <2>2 DEF OnPauseAudio, Crash
        <3>2. audioFailed \/ nPc[current] \in Leaving
            BY <2>1, <2>2, <1>a DEF Leaving
        <3> QED BY <1>a, <2>1, <3>1, <3>2 DEF CrashOnlyAtExit
    <2>3. CASE audio[current] # "null"
        BY <1>5, <1>a, <2>1, <2>3 DEF OnPauseAudio, CrashOnlyAtExit
    <2> QED BY <2>2, <2>3
<1>6. CASE ViewCallback
    <2>1. nPc[current] \in Leaving
        BY <1>6, <1>a DEF ViewCallback, Leaving
    <2> QED BY <1>6, <1>a, <2>1 DEF ViewCallback, Crash, UIAt, CrashOnlyAtExit
<1>7. CASE Recreate
    <2>1. current' = current + 1 /\ uiPc' = "init" /\ UNCHANGED <<process, nPc, vPc>>
        BY <1>7 DEF Recreate
    <2>2. \A a \in Activities : a > current' \/ (a = current' /\ uiPc' = "init") => a > current
        BY <2>1, <1>a, Later
    <2> QED BY <1>a, <2>1, <2>2 DEF CrashOnlyAtExit
<1> QED BY <1>1, <1>2, <1>3, <1>4, <1>5, <1>6, <1>7 DEF UI

\* A step of a video thread.
LEMMA SessionVideo ==
    ASSUME SessionInv, TypeOK', NEW a \in Activities, Video(a)
    PROVE  SessionInv'
<1> USE DEF SessionInv
<1>a. process = "alive" /\ UNCHANGED <<process, current, uiPc, nPc, video, audio, audioFailed>>
    BY DEF Video, VideoRun, VideoEnds, Running, UI_Vars, java
<1>b. CrashOnlyAtExit'
    BY <1>a DEF CrashOnlyAtExit
<1>1. CASE VideoRun(a)
    <2> DEFINE late == nPc[a] \in {"join", "shutdown", "release", "kill"}
    <2>1. vPc' = [vPc EXCEPT ![a] = "loop"]
        BY <1>1 DEF VideoRun
    <2>2. stopLost' = [stopLost EXCEPT ![a] = late]
        BY <1>1, Zenon DEF VideoRun
    <2>3. ASSUME nPc[a] \in {"shutdown", "release", "kill"} \/ ~video[a] PROVE late
        BY <1>a, <2>3
    <2> HIDE DEF late
    <2>0. vPc \in [Activities -> {"new", "started", "loop", "dead"}]
          /\ stopLost \in [Activities -> BOOLEAN]
        BY DEF TypeOK
    <2>4. \A b \in Activities : b # a => vPc'[b] = vPc[b]
        BY <2>0, <2>1
    <2>7. \A b \in Activities : b # a => stopLost'[b] = stopLost[b]
        BY <2>0, <2>2, Zenon
    <2>5. stopLost'[a] = late
        BY <2>0, <2>2, Zenon
    <2>6. \A b \in Activities :
              nPc'[b] \in {"shutdown", "release", "kill"} \/ ~video'[b] => stopLost'[b] \/ vPc'[b] # "loop"
        BY <1>a, <2>3, <2>4, <2>5, <2>7
    <2> QED BY <1>a, <1>b, <2>6
<1>2. CASE VideoEnds(a)
    <2>1. \A b \in Activities : vPc'[b] = "loop" => vPc[b] = "loop"
        BY <1>2 DEF VideoEnds, TypeOK
    <2>2. UNCHANGED stopLost
        BY <1>2 DEF VideoEnds
    <2>3. \A b \in Activities :
              nPc'[b] \in {"shutdown", "release", "kill"} \/ ~video'[b] => stopLost'[b] \/ vPc'[b] # "loop"
        BY <1>a, <2>1, <2>2
    <2> QED BY <1>a, <1>b, <2>3
<1> QED BY <1>1, <1>2 DEF Video

\* A step of a background thread before it waits for the video thread: the view is there.
LEMMA EarlyStep ==
    ASSUME SessionInv, TypeOK', NEW a \in Activities,
           NEW from, NEW to, Native(a, from, to),
           from \notin {"unborn", "shutdown", "release", "kill", "dead"},
           to \notin {"shutdown", "release", "kill"},
           UNCHANGED <<process, current, uiPc, video, vPc, stopLost>>,
           audioFailed => audioFailed',
           \A b \in Activities : audio'[b] = "null" => audio[b] = "null" \/ audioFailed'
    PROVE  SessionInv'
<1> USE DEF SessionInv
<1>1. process = "alive" /\ nPc[a] = from /\ nPc' = [nPc EXCEPT ![a] = to]
    BY DEF Native, NativeAt, Running
<1>2. \A b \in Activities : nPc'[b] = IF b = a THEN to ELSE nPc[b]
    BY <1>1 DEF TypeOK
<1>3. video[a]
    BY <1>1
<1>4. current \in Activities
    BY DEF TypeOK
<1>5. \A b \in Activities : b > current' \/ (b = current' /\ uiPc' = "init") => nPc'[b] = "unborn"
    BY <1>1, <1>2
<1>6. \A b \in Activities : ~video'[b] =>
          nPc'[b] \in {"release", "kill"} \/ (nPc'[b] = "dead" /\ process' # "alive")
    <2> TAKE b \in Activities
    <2>1. CASE b = a
        BY <1>3, <2>1
    <2>2. CASE b # a
        BY <1>2, <2>2
    <2> QED BY <2>1, <2>2
<1>7. \A b \in Activities :
          nPc'[b] \in {"shutdown", "release", "kill"} \/ ~video'[b] => stopLost'[b] \/ vPc'[b] # "loop"
    <2> TAKE b \in Activities
    <2>1. CASE b = a
        BY <1>2, <1>3, <2>1
    <2>2. CASE b # a
        BY <1>2, <2>2
    <2> QED BY <2>1, <2>2
<1>8. process' = "alive" /\ uiPc' = "pause audio" =>
          audio'[current'] # "null" \/ audioFailed' \/ nPc'[current'] = "kill"
    BY <1>1, <1>2, <1>4
<1>9. CrashOnlyAtExit'
    BY <1>1 DEF CrashOnlyAtExit
<1> QED BY <1>5, <1>6, <1>7, <1>8, <1>9

\* The other steps of a background thread.
LEMMA SessionNative ==
    ASSUME SessionInv, TypeOK', NEW a \in Activities, NativeSteps(a) \/ Program(a)
    PROVE  SessionInv'
<1>a. \A b \in Activities : audio'[b] = audio[b] => (audio'[b] = "null" => audio[b] = "null" \/ audioFailed')
    OBVIOUS
<1>1. CASE Boot(a)
    <2>1. CASE Native(a, "boot", "config")
        BY <1>1, <2>1, EarlyStep DEF Boot, UI_Vars, java
    <2>2. CASE Native(a, "boot", "dead")
        BY <1>1, <2>2, EarlyStep DEF Boot, UI_Vars, java
    <2> QED BY <1>1, <2>1, <2>2 DEF Boot
<1>0. CASE Config(a)
    <2>1. PICK to \in {"audio init", "emulate"} : Native(a, "config", to)
        BY <1>0 DEF Config
    <2> QED BY <1>0, <2>1, EarlyStep DEF Config, UI_Vars, java
<1>2. CASE AudioNew(a)
    <2>1. \A b \in Activities : audio'[b] = "null" => audio[b] = "null"
        BY <1>2, ZenonT(60) DEF AudioNew, SessionInv, TypeOK
    <2> QED BY <1>2, <2>1, EarlyStep DEF AudioNew, UI_Vars
<1>3. CASE AudioOpened(a)
    <2>1. PICK result \in AudioResult : /\ audio' = [audio EXCEPT ![a] = result]
                                        /\ audioFailed' = (audioFailed \/ result = "null")
        BY <1>3 DEF AudioOpened
    <2>2. \A b \in Activities : audio'[b] = "null" => audio[b] = "null" \/ audioFailed'
        BY <2>1, ZenonT(60) DEF SessionInv, TypeOK
    <2>3. audioFailed => audioFailed'
        BY <2>1
    <2> QED BY <1>3, <2>2, <2>3, EarlyStep DEF AudioOpened, UI_Vars
<1>4. CASE Idle(a) \/ Events(a) \/ PauseEnds(a) \/ ShellEnds(a) \/ Drain(a)
    BY <1>4, EarlyStep DEF Idle, Events, PauseEnds, ShellEnds, Drain, UI_Vars, java
<1>5. CASE Check(a)
    <2>1. PICK to \in {"shell", "emulate"} : Native(a, "check", to)
        BY <1>5 DEF Check
    <2> QED BY <1>5, <2>1, EarlyStep DEF Check, UI_Vars, java
<1>6. CASE ExitStopsVideo(a)
    BY <1>6, EarlyStep DEF ExitStopsVideo, UI_Vars, java
<1>7. CASE GameQuits(a) \/ ShellNext(a)
    BY <1>7, EarlyStep DEF GameQuits, ShellNext, UI_Vars, java
<1>8. CASE CallbackFails(a)
    BY <1>8 DEF CallbackFails, SessionInv, CrashOnlyAtExit, UI_Vars, java
<1> USE DEF SessionInv
<1>b. current \in Activities
    BY DEF TypeOK
<1>9. CASE JoinVideo(a)
    <2>1. process = "alive" /\ nPc[a] = "join" /\ nPc' = [nPc EXCEPT ![a] = "shutdown"]
          /\ vPc[a] # "loop"
          /\ UNCHANGED <<process, current, uiPc, video, audio, audioFailed, vPc, stopLost>>
        BY <1>9 DEF JoinVideo, Joined, Native, NativeAt, Running, UI_Vars, java
    <2>2. \A b \in Activities : nPc'[b] = IF b = a THEN "shutdown" ELSE nPc[b]
        BY <2>1, ZenonT(60) DEF TypeOK
    <2>3. CrashOnlyAtExit'
        BY <2>1 DEF CrashOnlyAtExit
    <2> QED BY <1>b, <2>1, <2>2, <2>3
<1>10. CASE ShutdownView(a)
    <2>1. process = "alive" /\ nPc[a] = "shutdown" /\ nPc' = [nPc EXCEPT ![a] = "release"]
          /\ video' = [video EXCEPT ![a] = FALSE]
          /\ UNCHANGED <<process, current, uiPc, audio, audioFailed, vPc, stopLost>>
        BY <1>10 DEF ShutdownView, Native, NativeAt, Running, UI_Vars
    <2>2. \A b \in Activities : nPc'[b] = IF b = a THEN "release" ELSE nPc[b]
        BY <2>1, ZenonT(60) DEF TypeOK
    <2>v. video \in [Activities -> BOOLEAN]
        BY DEF TypeOK
    <2>3. \A b \in Activities : b # a => video'[b] = video[b]
        BY <2>1, <2>v, Zenon
    <2>4. CrashOnlyAtExit'
        BY <2>1 DEF CrashOnlyAtExit
    <2>5. stopLost[a] \/ vPc[a] # "loop"
        BY <2>1
    <2>6. \A b \in Activities : ~video'[b] =>
              nPc'[b] \in {"release", "kill"} \/ (nPc'[b] = "dead" /\ process' # "alive")
        BY <2>1, <2>2, <2>3
    <2>7. \A b \in Activities :
              nPc'[b] \in {"shutdown", "release", "kill"} \/ ~video'[b] => stopLost'[b] \/ vPc'[b] # "loop"
        BY <2>1, <2>2, <2>3, <2>5
    <2>8. \A b \in Activities : b > current' \/ (b = current' /\ uiPc' = "init") => nPc'[b] = "unborn"
        BY <2>1, <2>2
    <2>9. process' = "alive" /\ uiPc' = "pause audio" =>
              audio'[current'] # "null" \/ audioFailed' \/ nPc'[current'] = "kill"
        BY <1>b, <2>1, <2>2
    <2> QED BY <2>4, <2>6, <2>7, <2>8, <2>9
<1>11. CASE ReleaseAudio(a)
    <2>1. process = "alive" /\ nPc[a] = "release" /\ nPc' = [nPc EXCEPT ![a] = "kill"]
          /\ audio' = [audio EXCEPT ![a] = "null"]
          /\ UNCHANGED <<process, current, uiPc, video, audioFailed, vPc, stopLost>>
        BY <1>11 DEF ReleaseAudio, Native, NativeAt, Running, UI_Vars
    <2>n. DOMAIN nPc = Activities /\ DOMAIN audio = Activities
        BY Zenon DEF TypeOK
    <2>k. nPc' = [b \in Activities |-> IF b = a THEN "kill" ELSE nPc[b]]
        BY <2>1, <2>n
    <2>2. \A b \in Activities : nPc'[b] = IF b = a THEN "kill" ELSE nPc[b]
        BY <2>k, Zenon
    <2>m. audio' = [b \in Activities |-> IF b = a THEN "null" ELSE audio[b]]
        BY <2>1, <2>n
    <2>3. \A b \in Activities : b # a => audio'[b] = audio[b]
        BY <2>m, Zenon
    <2>4. CrashOnlyAtExit'
        BY <2>1 DEF CrashOnlyAtExit
    <2>5. process' = "alive" /\ uiPc' = "pause audio" =>
              audio'[current'] # "null" \/ audioFailed' \/ nPc'[current'] = "kill"
        BY <1>b, <2>1, <2>2, <2>3
    <2> QED BY <2>1, <2>2, <2>4, <2>5
<1>12. CASE KillProcess(a)
    <2>1. process' = "killed" /\ nPc[a] = "kill" /\ nPc' = [nPc EXCEPT ![a] = "dead"]
          /\ UNCHANGED <<current, uiPc, video, vPc, stopLost>>
        BY <1>12 DEF KillProcess, Native, NativeAt, UI_Vars, java
    <2>2. \A b \in Activities : nPc'[b] = IF b = a THEN "dead" ELSE nPc[b]
        BY <2>1, ZenonT(60) DEF TypeOK
    <2>3. CrashOnlyAtExit'
        BY <2>1 DEF CrashOnlyAtExit
    <2> QED BY <2>1, <2>2, <2>3
<1> QED
    BY <1>0, <1>1, <1>2, <1>3, <1>4, <1>5, <1>6, <1>7, <1>8, <1>9, <1>10, <1>11, <1>12
    DEF NativeSteps, Program

LEMMA SessionStep == SessionInv /\ [Next]_vars => SessionInv'
<1> SUFFICES ASSUME SessionInv, [Next]_vars PROVE SessionInv'
    OBVIOUS
<1>1. TypeOK'
    BY SessionTypeStep DEF SessionInv
<1>2. CASE UNCHANGED vars
    BY <1>1, <1>2 DEF vars, java, dosbox, SessionInv, CrashOnlyAtExit
<1> QED BY <1>1, <1>2, SessionUI, SessionNative, SessionVideo DEF Next

\* However many activities the system creates, whenever it pauses and resumes them and
\* whatever the threads' speeds: once the view's bitmap has been given up no video thread
\* draws it, unless its run() began after stopVideo and undid it.
THEOREM NoDrawingAfterShutdown == Spec => []NoVideoAfterShutdown
<1>1. SessionInv => NoVideoAfterShutdown
    BY DEF SessionInv, NoVideoAfterShutdown
<1> QED BY <1>1, SessionInit, SessionStep, PTL DEF Spec

\* The UI thread crashes on a null view or audio device only while callbackExit takes the
\* activity down, or after the sound could not be opened.
THEOREM CrashesAtExitOnly == Spec => []CrashOnlyAtExit
<1>1. SessionInv => CrashOnlyAtExit
    BY DEF SessionInv
<1> QED BY <1>1, SessionInit, SessionStep, PTL DEF Spec
=============================================================================
