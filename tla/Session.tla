------------------------------ MODULE Session -------------------------------
(***************************************************************************)
(* The life of a DosBoxLauncher activity: the Android UI thread that runs  *)
(* its callbacks, the background thread inside nativeStart and the video   *)
(* thread, from onCreate to killProcess.  The emulator's globals pause and *)
(* abort belong to the process; a new activity (the system recreates it,   *)
(* for example on rotation) starts two more threads in the same process.   *)
(***************************************************************************)
EXTENDS Naturals, FiniteSets

CONSTANTS MaxActivities,   \* bound: how many activities the system creates
          Sound            \* the setting that adds the mixer to DOSBox

ASSUME MaxActivitiesAssumption == MaxActivities \in Nat \ {0}
ASSUME SoundAssumption == Sound \in BOOLEAN

Activities == 1 .. MaxActivities

VARIABLES
    process,     \* "alive", "killed" by callbackExit, "crashed" by an exception
    current,     \* the activity in front; older ones get no callbacks
    lifecycle,   \* of the current activity: "starting", "resumed", "paused"
    uiPc,        \* where the UI thread is
    pause, abort, destroyed,   \* dosbox_config.pause, .abort; dosbox_android's latch
    nPc,         \* each activity's background thread
    vPc, vRun,   \* each activity's video thread and its field running
    video,       \* does the view still have its video thread and input handler?
    audio,       \* audioDevice: "null", "opening", "ready"
    audioFailed, \* history: callbackAudioInit took audioDevice back to null
    stopLost     \* history: run() began only after stopVideo

dosbox == <<pause, abort, destroyed>>
java   == <<video, audio, audioFailed>>
vars   == <<process, current, lifecycle, uiPc, dosbox, nPc, vPc, vRun, java, stopLost>>

All(v) == [a \in Activities |-> v]

Init ==
    /\ process = "alive" /\ current = 1 /\ lifecycle = "starting" /\ uiPc = "init"
    /\ pause = FALSE /\ abort = 0 /\ destroyed = FALSE
    /\ nPc = All("unborn") /\ vPc = All("new") /\ vRun = All(FALSE)
    /\ video = All(TRUE) /\ audio = All("null")
    /\ audioFailed = FALSE /\ stopLost = All(FALSE)

Booting   == {"unborn", "boot", "config"}
Emulating == {"emulate", "events", "suspended", "check"}
Leaving   == {"drain", "exit", "join", "shutdown", "release", "kill"}

\* DosBoxLauncher.java:125 "dosbox does not tolerate process reuse": no two threads
\* of a process are ever inside the emulator.
NoProcessReuse ==
    Cardinality({a \in Activities : nPc[a] \notin Booting \cup {"dead"}}) <= 1

\* Two threads inside the emulator share its globals and the JNIEnv of one of them:
\* what they then do is undefined, and is not followed any further.
Running == process = "alive" /\ NoProcessReuse

-----------------------------------------------------------------------------
(* UI thread *)

UIAt(pc) == Running /\ uiPc = pc
Crash == process' = "crashed"

\* init: start the background thread, then the video thread.
StartNative ==
    /\ UIAt("init")
    /\ nPc' = [nPc EXCEPT ![current] = "boot"]
    /\ uiPc' = "start video"
    /\ UNCHANGED <<process, current, lifecycle, dosbox, vPc, vRun, java, stopLost>>

StartVideo ==
    /\ UIAt("start video")
    /\ uiPc' = "idle"
    /\ IF video[current]
       THEN vPc' = [vPc EXCEPT ![current] = "started"] /\ UNCHANGED process
       ELSE Crash /\ UNCHANGED vPc
    /\ UNCHANGED <<current, lifecycle, dosbox, nPc, vRun, java, stopLost>>

OnResume ==
    /\ UIAt("idle") /\ lifecycle # "resumed"
    /\ lifecycle' = "resumed"
    /\ pause' = FALSE
    /\ UNCHANGED <<process, current, uiPc, abort, destroyed, nPc, vPc, vRun, java, stopLost>>

\* nativePause, then the test of audioDevice ...
PauseChecksAudioNever == "pause audio"     \* mutant: the test is left out
PauseChecksAudio == IF audio[current] = "null" THEN "idle" ELSE "pause audio"
OnPause ==
    /\ UIAt("idle") /\ lifecycle = "resumed"
    /\ lifecycle' = "paused"
    /\ pause' = TRUE
    /\ uiPc' = PauseChecksAudio
    /\ UNCHANGED <<process, current, abort, destroyed, nPc, vPc, vRun, java, stopLost>>

\* ... and its use, which other threads' writes may precede.
OnPauseAudio ==
    /\ UIAt("pause audio")
    /\ uiPc' = "idle"
    /\ IF audio[current] = "null" THEN Crash ELSE UNCHANGED process
    /\ UNCHANGED <<current, lifecycle, dosbox, nPc, vPc, vRun, java, stopLost>>

\* A touch, a key or surfaceChanged reaches a view that has been shut down.
ViewCallback ==
    /\ UIAt("idle") /\ ~video[current]
    /\ Crash
    /\ UNCHANGED <<current, lifecycle, uiPc, dosbox, nPc, vPc, vRun, java, stopLost>>

\* The system destroys a paused activity and creates it anew; onDestroy is not
\* overridden, so the old threads live on.
Recreate ==
    /\ UIAt("idle") /\ lifecycle = "paused" /\ current < MaxActivities
    /\ current' = current + 1
    /\ lifecycle' = "starting"
    /\ uiPc' = "init"
    /\ UNCHANGED <<process, dosbox, nPc, vPc, vRun, java, stopLost>>

UI == StartNative \/ StartVideo \/ OnResume \/ OnPause \/ OnPauseAudio
      \/ ViewCallback \/ Recreate

-----------------------------------------------------------------------------
(* Background thread: nativeStart *)

NativeAt(a, pc) == Running /\ nPc[a] = pc
Native(a, from, to) == NativeAt(a, from) /\ nPc' = [nPc EXCEPT ![a] = to]
UI_Vars == <<current, lifecycle, uiPc>>

\* jni_context_init may fail, and the thread ends without callbackExit.
Boot(a) ==
    /\ Native(a, "boot", "config") \/ Native(a, "boot", "dead")
    /\ UNCHANGED <<process, UI_Vars, dosbox, vPc, vRun, java, stopLost>>

\* dosbox_init: a pause requested before it is forgotten.
Config(a) ==
    /\ Native(a, "config", IF Sound THEN "audio init" ELSE "emulate")
    /\ abort' = 0
    /\ pause' = FALSE
    /\ UNCHANGED <<process, UI_Vars, destroyed, vPc, vRun, java, stopLost>>

\* callbackAudioInit: audioDevice is set before it is known to work.
AudioNew(a) ==
    /\ Native(a, "audio init", "audio open")
    /\ audio' = [audio EXCEPT ![a] = "opening"]
    /\ UNCHANGED <<process, UI_Vars, dosbox, vPc, vRun, video, audioFailed, stopLost>>

AudioResult == {"ready", "null"}
AudioOpened(a) ==
    /\ Native(a, "audio open", "emulate")
    /\ \E result \in AudioResult : /\ audio' = [audio EXCEPT ![a] = result]
                                  /\ audioFailed' = (audioFailed \/ result = "null")
    /\ UNCHANGED <<process, UI_Vars, dosbox, vPc, vRun, video, stopLost>>

\* Normal_Loop: the cycles of this tick are used up, GFX_Events is called.
Idle(a) ==
    /\ Native(a, "emulate", "events")
    /\ UNCHANGED <<process, UI_Vars, dosbox, vPc, vRun, java, stopLost>>

\* A callback into Java failed: fail() asks for a stop, once.
CallbackFails(a) ==
    /\ NativeAt(a, "emulate") /\ ~destroyed
    /\ destroyed' = TRUE
    /\ abort' = 1
    /\ UNCHANGED <<process, UI_Vars, pause, nPc, vPc, vRun, java, stopLost>>

\* The program ends by itself and the shell takes over.
GameQuits(a) ==
    /\ Native(a, "emulate", "shell")
    /\ UNCHANGED <<process, UI_Vars, dosbox, vPc, vRun, java, stopLost>>

\* GFX_Events: type "exit" if the loop was aborted, else sleep while paused, else
\* take the input events.
MustSuspendNever == FALSE                  \* mutant: the test of pause is left out
MustSuspend == abort # 2 /\ pause
Events(a) ==
    /\ Native(a, "events", IF MustSuspend THEN "suspended" ELSE "check")
    /\ UNCHANGED <<process, UI_Vars, dosbox, vPc, vRun, java, stopLost>>

PauseEnds(a) ==
    /\ ~pause
    /\ Native(a, "suspended", "check")
    /\ UNCHANGED <<process, UI_Vars, dosbox, vPc, vRun, java, stopLost>>

\* Normal_Loop again: an abort ends the program.
Check(a) ==
    /\ IF abort = 1
       THEN Native(a, "check", "shell") /\ abort' = 2
       ELSE Native(a, "check", "emulate") /\ UNCHANGED abort
    /\ UNCHANGED <<process, UI_Vars, pause, destroyed, vPc, vRun, java, stopLost>>

\* DOS_Shell::Run: the next line of the batch file runs a program, or there is none
\* and the shell ends instead of prompting.
ShellNext(a) ==
    /\ Native(a, "shell", "emulate")
    /\ UNCHANGED <<process, UI_Vars, dosbox, vPc, vRun, java, stopLost>>

ShellEnds(a) ==
    /\ Native(a, "shell", "drain")
    /\ abort' = 3
    /\ UNCHANGED <<process, UI_Vars, pause, destroyed, vPc, vRun, java, stopLost>>

\* nativeStart: dosbox_start has returned; user_input_destroy, then callbackExit.
Drain(a) ==
    /\ Native(a, "drain", "exit")
    /\ UNCHANGED <<process, UI_Vars, dosbox, vPc, vRun, java, stopLost>>

\* destroy: interrupt and join the background thread, that is this one: the join is
\* interrupted at once.  Then dosBoxView.stop.
StopVideoForgotten(a) == vRun              \* mutant: stop is not called
StopVideo(a) == [vRun EXCEPT ![a] = FALSE]
ExitStopsVideo(a) ==
    /\ Native(a, "exit", "join")
    /\ vRun' = StopVideo(a)
    /\ UNCHANGED <<process, UI_Vars, dosbox, vPc, java, stopLost>>

JoinedAlways(a) == TRUE                    \* mutant: the join is left out
Joined(a) == vPc[a] \in {"new", "dead"}
JoinVideo(a) ==
    /\ Joined(a)
    /\ Native(a, "join", "shutdown")
    /\ UNCHANGED <<process, UI_Vars, dosbox, vPc, vRun, java, stopLost>>

ShutdownView(a) ==
    /\ Native(a, "shutdown", "release")
    /\ video' = [video EXCEPT ![a] = FALSE]
    /\ UNCHANGED <<process, UI_Vars, dosbox, vPc, vRun, audio, audioFailed, stopLost>>

ReleaseAudio(a) ==
    /\ Native(a, "release", "kill")
    /\ audio' = [audio EXCEPT ![a] = "null"]
    /\ UNCHANGED <<process, UI_Vars, dosbox, vPc, vRun, video, audioFailed, stopLost>>

KillProcess(a) ==
    /\ Native(a, "kill", "dead")
    /\ process' = "killed"
    /\ UNCHANGED <<UI_Vars, dosbox, vPc, vRun, java, stopLost>>

NativeSteps(a) ==
    \/ Boot(a) \/ Config(a) \/ AudioNew(a) \/ AudioOpened(a)
    \/ Idle(a) \/ Events(a) \/ PauseEnds(a) \/ Check(a) \/ ShellEnds(a)
    \/ Drain(a) \/ ExitStopsVideo(a) \/ JoinVideo(a)
    \/ ShutdownView(a) \/ ReleaseAudio(a) \/ KillProcess(a)

\* What depends on the emulated program or on luck is never owed.
Program(a) == CallbackFails(a) \/ GameQuits(a) \/ ShellNext(a)

-----------------------------------------------------------------------------
(* Video thread: run sets running, and loops while it is set *)

VideoRun(a) ==
    /\ Running
    /\ vPc[a] = "started"
    /\ vPc' = [vPc EXCEPT ![a] = "loop"]
    /\ vRun' = [vRun EXCEPT ![a] = TRUE]
    /\ stopLost' = [stopLost EXCEPT ![a] = nPc[a] \in {"join", "shutdown", "release", "kill"}]
    /\ UNCHANGED <<process, UI_Vars, dosbox, nPc, java>>

VideoEnds(a) ==
    /\ Running
    /\ vPc[a] = "loop" /\ ~vRun[a]
    /\ vPc' = [vPc EXCEPT ![a] = "dead"]
    /\ UNCHANGED <<process, UI_Vars, dosbox, nPc, vRun, java, stopLost>>

Video(a) == VideoRun(a) \/ VideoEnds(a)

-----------------------------------------------------------------------------
Next == UI \/ \E a \in Activities : NativeSteps(a) \/ Program(a) \/ Video(a)

Spec == Init /\ [][Next]_vars

\* Each thread is scheduled; the user and the emulated program owe nothing.
Fairness ==
    /\ WF_vars(StartNative \/ StartVideo \/ OnPauseAudio)
    /\ \A a \in Activities : WF_vars(NativeSteps(a)) /\ WF_vars(Video(a))
FairSpec == Spec /\ Fairness

-----------------------------------------------------------------------------
(* Properties *)

TypeOK ==
    /\ process \in {"alive", "killed", "crashed"}
    /\ current \in Activities /\ lifecycle \in {"starting", "resumed", "paused"}
    /\ uiPc \in {"init", "start video", "idle", "pause audio"}
    /\ pause \in BOOLEAN /\ abort \in 0 .. 3 /\ destroyed \in BOOLEAN
    /\ nPc \in [Activities -> Booting \cup Emulating \cup Leaving
                               \cup {"audio init", "audio open", "shell", "dead"}]
    /\ vPc \in [Activities -> {"new", "started", "loop", "dead"}]
    /\ vRun \in [Activities -> BOOLEAN] /\ video \in [Activities -> BOOLEAN]
    /\ audio \in [Activities -> {"null", "opening", "ready"}]
    /\ audioFailed \in BOOLEAN /\ stopLost \in [Activities -> BOOLEAN]

\* The bitmap is given up (DosBoxVideoThread.shutdown) only when the video thread no
\* longer draws it, whether it was running, starting or never started.
NoVideoAfterShutdown ==
    \A a \in Activities : ~video[a] /\ ~stopLost[a] => vPc[a] # "loop"

\* The UI thread meets a null view or audio device only while callbackExit tears the
\* activity down, or after the audio could not be opened: not in normal play.
CrashOnlyAtExit ==
    process = "crashed" => audioFailed \/ \E a \in Activities : nPc[a] \in Leaving

\* Once the emulator has returned the process is gone in the end, although callbackExit
\* joins its own thread and waits for the video thread; the one exception is a
\* video thread whose run() began after stopVideo and undid it.
ExitKills ==
    \A a \in Activities : (nPc[a] = "exit") ~> (~Running \/ stopLost[a])

\* A pause that reaches a running emulator suspends it, unless it is lifted, or
\* the emulator is on its way out.
PauseSuspends ==
    \A a \in Activities :
        (nPc[a] \in Emulating /\ pause /\ abort = 0)
            ~> (nPc[a] \in {"suspended", "shell"} \/ ~pause \/ abort # 0 \/ ~Running)

=============================================================================
