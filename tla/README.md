# A verification development of frua-box

frua-box runs *Unlimited Adventures* (FRUA, a DOS game) on Android. It is a
DOSBox 0.74 whose SDL layer was replaced by a thin native library and a few Java
classes, with an installer that unpacks FRUA and its modules and switches between
them. This directory holds TLA+ models of its concurrent and its failure-prone
parts, the TLC configurations that check them, and proofs for TLAPS.

| part of `src/` | what it is |
|---|---|
| `frua-android/` | the application: settings screen, choosers, background tasks |
| `frua-tools/` | installer, switcher, patcher (plain Java) |
| `frua-dosbox/` | the activity, view and threads around the emulator |
| `frua-dosbox-native/jni/android/` | the native library: input buffer, JNI bridge |
| `frua-dosbox-native/jni/dosbox/src/android/` | what replaces SDL in DOSBox |
| `frua-dosbox-native/jni/dosbox/` (the rest) | vendored DOSBox, more than 100 thousand lines |

The project's own code is about five thousand lines. Of DOSBox the modules take
what runs whatever the game does: the interrupt controller, the devices of keyboard
and mouse with their BIOS handlers, the event queue with the timer and the pacing of
the loop, and the memory managers (DOS's chain of blocks with the programs that
own them, XMS and EMS).

## 1. Inventory

### Who runs

* The **UI thread** of the process: callbacks of the activity, of the view and
  of its surface, touches and keys.
* The **background thread** of a `DosBoxLauncher`: it is inside `nativeStart`
  for the whole life of the emulator and runs DOSBox.
* The **video thread** of a `DosBoxLauncher`: it draws what the emulator
  announced.
* One thread for each **`AsyncTask`** of the settings screen (install, switch,
  add a module). With the manifest's `targetSdkVersion` 11 they run in parallel.

The settings screen and the emulator meet only in the directory: the former
prepares it, the latter runs `start.bat` in it.

Inside the emulator there is one thread, and still much that runs in every order: the
guest's program, the interrupts that break into it, the handlers of the BIOS
that enable interrupts in their middle, the timed events of the devices, the host's
input between two slices.

### Components

| component | state | operations | talks to |
|---|---|---|---|
| Input event buffer: `circular_buffer.h`, `user_input.c` | a ring of event structs, `ind_put`, `ind_get` | `CBUF_PUT` (touch, key), `poll_event`, `user_input_init`, `user_input_destroy` | the UI thread puts, the emulator polls; no lock |
| Session: `DosBoxLauncher`, `DosBoxView`, `nativeStart`, the loop of `dosbox.cpp`, `GFX_Events` | `pause`, `abort`, the `destroyed` latch, the threads, the view's parts, `audioDevice` | `onCreate`, `onResume`, `onPause`, `nativeStart`, `callbackAudioInit`, `callbackExit` | UI thread, background thread and video thread share all of it |
| Screen update: `DosBoxVideoThread`, `DosBoxView`, `GFX_StartUpdate`, `GFX_EndUpdate` | the bitmap, the announced range, `dirtyCount`, two locks, the surface | `setMode`, `externalRedraw`, `run`, `resetScreen`, surface callbacks | the emulator announces; the video thread and the UI thread draw |
| Game directory: `Installer`, `Switcher`, `InstallTask`, `SwitchModuleTask`, `AddModuleTask` | FRUA's files, `default.dsn`, the modules, `start.dat` | install, switch, add a module, clean up, cancel | tasks share the directory; the emulator reads it later |
| Native bridge: `jni_context.c`, `dosbox_android.c` | cached `JNIEnv` and ids, a global reference to the bitmap | `callback_*`, `fail` | emulator to Java |
| Sound: `mixer.cpp`, `missing.cpp`, `Audio.java` | `mixer.done`, `needed`, the ring of samples | `MIXER_Mix`, `MIXER_MixData`, `MIXER_CallBack`, `SDL_OpenAudio` | timer ticks fill, the callback drains |
| Input translation: `InputHandler`, `mouse_event`, `keyboard_event` | delayed releases, modifiers | `handleKey`, `handleTouch`, `sendKey` | UI thread to the input event buffer to the emulated keyboard |
| Screen geometry: the rectangles of `videoRedraw` | none | the announced lines to rows of the view | part of a redraw |
| Interrupt controller: `pic.cpp` | request, mask and service flags of two 8259s, `PIC_IRQCheck`, `PIC_IRQActive` | `PIC_ActivateIRQ`, `PIC_SetIRQMask`, the ports 20h, 21h, a0h, a1h, `PIC_runIRQs` | devices request, handlers end, the guest masks |
| Keyboard: `keyboard.cpp`, `bios_keyboard.cpp` | 32 codes, port 60h, the scheduled transfer, the repeat; the BIOS's prefixes, modifiers and ring of keystrokes | `KEYBOARD_AddKey`, `KEYBOARD_TransferBuffer`, `read_p60`, `write_p60`, `write_p64`, `IRQ1_Handler` | IRQ 1, the event queue, the guest's INT 16 |
| Mouse driver: `mouse.cpp` | a queue of 32 events, `timer_in_progress`, the guest's subroutine | `Mouse_AddEvent`, `MOUSE_Limit_Events`, `INT74_Handler`, INT 33 | IRQ 12, the event queue, the guest |
| Event queue, timer, pacing: `pic.cpp`, `timer.cpp`, `Normal_Loop` | a sorted list of 512 entries, `CPU_Cycles`, `CPU_CycleLeft`, `ticksRemain`, counter 0 | `PIC_AddEvent`, `PIC_RemoveEvents`, `PIC_RunQueue`, `TIMER_AddTick`, `write_latch`, `write_p43` | every device of DOSBox, the host's clock |
| Extended and expanded memory: `memory.cpp`, `xms.cpp`, `ems.cpp` | an array of links between pages, the handles, the frames of the window | `MEM_AllocatePages` and its kin, the calls of XMS and EMS | the guest's calls; XMS and EMS share the pages |
| DOS's memory and programs: `dos_memory.cpp`, `dos_execute.cpp` | two chains of headers in the guest's memory, the strategy, the link, the running program | allocate, free, resize, execute, terminate, stay resident, LOADHIGH, XMS's upper memory | the guest's calls |
| Rendering: `render.cpp`, `vga_draw.cpp` | source cache, scalers | `RENDER_StartUpdate`, line handlers, `RENDER_EndUpdate` | calls `GFX_StartUpdate`, `GFX_EndUpdate` |
| Patch tables and archives: `Patcher`, `Stripper`, `ArchiveUtils` | none between calls | rewrite of a file by a table | called by the installer |
| Settings screen: `SettingsActivity`, choosers | the installed flag, preferences | menu entries, starting a task | starts the tasks |

### Which behaviours are hard, and what makes a component correct

* **Input event buffer.** Two threads move the read index (the consumer on a
  read, the producer on an overwrite) with a compare-and-swap, and everything
  else is a plain access. Correct: the indices never pass each other; an event
  is not invented, not stale, not lost but for the oldest of a full buffer; it
  is eventually consumed; the shutdown's drain ends.
* **Session.** `callbackExit` is run by the thread it joins, then waits for
  another thread whose start may come after its stop, then takes fields away that
  the UI thread reads without a lock. Pause and abort are plain globals.
  Correct: the process is gone in the end, the bitmap is given up only when
  nobody draws it, the UI thread does not meet a null in normal play, a pause
  suspends, one emulator runs in a process.
* **Screen update.** Two painters, two locks of the program and one of Android
  around the canvas, fields read outside the locks, a surface that goes away
  before the callback says so. Correct: a change that was announced is never
  forgotten, and is shown in the end.
* **Game directory.** A task is interrupted, fails or dies between any two
  writes and leaves a file torn; a deletion fails and is only logged; the thread of a
  cancelled task runs on under the next one. Correct: a switch that
  is reported as done gives exactly the design's files, the originals are never
  lost, a failed install leaves nothing but what it could not delete, a successful one
  is complete.
* **Native bridge.** One exception in a callback must stop every later one.
* **Sound.** Ring arithmetic with two consumers. Correct: `done` and `needed`
  stay in the ring, a position is mixed before it is played.
* **Input translation.** A press must be followed by its release.
* **Screen geometry.** Every row that shows an announced line is redrawn.
* **Interrupts.** The cached `PIC_IRQCheck` agrees with the flags through every write to
  a mask; what is in service agrees with the guest's stack of handlers, although an
  EOI names nobody.
* **Keyboard and mouse.** A code or an event waits for something that comes: a
  timed event, an interrupt, a reader. Correct: every code is decoded once and in order,
  a prefix stays with its key, a click with its release, and no device stops.
* **Event queue and timer.** Time is counted in the cycles that are left of a slice that an
  instruction may cut short. Correct: no event is late, none is passed over, the timer has
  exactly one, emulated time does not overtake the host's.
* **Memory managers.** Linked lists kept by hand under every sequence of calls. Correct: no
  page and no block has two owners or none, a program that ended leaves nothing, the
  tests before an allocation are enough to keep the emulator from exiting.

`PROJECT.json` lists forty hazards at their lines, with the properties that cover
each; what is known and has no property is in section 6.

## 2. What is modelled

### `EventQueue` and `CircularBuffer`

`EventQueue` is what the header comment of `circular_buffer.h` promises: a FIFO of
bounded size that forgets its oldest element when full. `CircularBuffer` is the
code: one action per access to the shared structure.

| code | action |
|---|---|
| `CBUF_PUT`: `wnext`, `rcur`, test for full | `PutBegin` |
| ... its compare-and-swap | `PutOverwrite` |
| ... `body[ind_put] = val`, word by word | `PutStore("kind")`, `PutStore("payload")` |
| ... `ind_put = wnext` | `PutPublish` |
| `poll_event`: `CBUF_IS_EMPTY` | `CheckBegin`, `CheckEmpty` |
| `CBUF_GET`: its own test, the copy, the compare-and-swap | `GetCheck`, `GetKind`, `GetPayload`, `GetAdvance` |
| `user_input_destroy` | `UserInputDestroy`, then the same polls with `draining` |
| `GFX_Events` meets the user's pause or abort, and does not poll; the user resumes | `LeaveOrResume` (`away`) |

The data race is undefined behaviour. The model gives it the outcomes that a build
can produce, under three mode constants:

* `MayReload`: a field that the source names again is either loaded again or
  taken from a register (`Reread`).
* `InOrderStores`: FALSE lets the halves of the element and the index become
  visible in any order, as on a machine with several cores and no barrier.
* `Racing`: TRUE is the program. FALSE is a producer that does not overwrite
  in the middle of a poll; it is there to say *how far* the code is a queue.

The event with number *n* holds *n* in both of its halves, so a torn copy, a
repeated one and a stale one are told apart. History variables: `head` and `tail`
count how often each index advanced, `base` is `head` at the start of the poll,
`reordered` says that an index was seen before its element, `delivered` is what
`poll_event` returned.

### `Session`

One activity after another in one process, each with its background thread
(`nPc`) and video thread (`vPc`, `vRun`), and the UI thread (`uiPc`).

| code | action |
|---|---|
| `init`: two `Thread.start` | `StartNative`, `StartVideo` |
| `onResume`, `onPause`, its test of `audioDevice`, its use | `OnResume`, `OnPause`, `OnPauseAudio` |
| touch, key, `surfaceChanged` on a view that was shut down | `ViewCallback` |
| the system recreates the activity | `Recreate` |
| `nativeStart` up to the emulator | `Boot`, `Config`, `AudioNew`, `AudioOpened` |
| `Normal_Loop`, `GFX_Events`, `PauseDOSBox` | `Idle`, `Events`, `PauseEnds`, `Check` |
| `fail` in a callback | `CallbackFails` |
| `DOS_Shell::Run` | `GameQuits`, `ShellNext`, `ShellEnds` |
| `user_input_destroy`, `callbackExit`, `destroy` | `Drain`, `ExitStopsVideo`, `JoinVideo`, `ShutdownView`, `ReleaseAudio`, `KillProcess` |
| `DosBoxVideoThread.run` | `VideoRun`, `VideoEnds` |

A state in which two threads are inside the emulator is the last of its
behaviour (`Running`): what two DOSBoxes over the same globals do is undefined.

### `ScreenUpdate`

The lines of the bitmap are the data: `unannounced` are changed and not yet
announced, `stale` are shown otherwise than they are. The UI thread and the
video thread run the same `videoRedraw` (`CheckView`, `Enter`, `Count`,
`LockCanvas`, `DrawBitmap`, `Post`), whose accesses to `dirtyCount`, locks and canvas are
steps of their own. The emulator's `setMode` is three steps (`SetSize`,
`SetModeDirty`, `NewBitmap`) because it writes its fields without a lock; a frame
is `StartFrame`, `DrawLine`, `EndFrame` or `AbortFrame`. The surface and its
callbacks are Android's and marked external. Scaling is not modelled: a line is
drawn or not, and a draw with the size of another mode draws none of them.

### `GameDirectory`

The files of the three disks, their copies in `default.dsn`, the modules and
`start.dat`. A file's content is `orig`, the design it belongs to, `torn` or
`absent`. A copy is two steps (`BeginCopy` leaves the file torn, `EndCopy` makes it
whole), so that a cancelled task, a failed write (`Throw`) and a dead process
(`Crash`) leave what they leave on a disk. `ckit.exe` is a file of its own, because
its copy in `default.dsn` (`panic.xxx`) is treated apart by the code.

The stages of a task are the places of `pc`: an install goes through `check`,
`unpack`, `validate`, `apply`, `backup` or `restore`, `override`, `applied`, `unzip`;
a switch starts at `apply`; adding a module is `check` and `unzip`. `InterruptSeen` says
at which places the code notices an interrupt: between two files, at once in
a copy through a `FileChannel`, after the file while unpacking, and not at all where
the code starts a copy without looking (`Unchecked`).

The clean-up of an install that failed deletes what the directory held when it began, one
entry after another, a directory file by file (`Clean`, with `Delete` and `DeletePart`). It
may end with entries left over (`Cleaned`): `cleanDirectory` goes on after a deletion that
failed and throws at the end, and `InstallTask.clean` only logs that. Back closes the dialog at
once and the cancelled task's thread runs on, so the next task may start beside it: the first
`MaxOverlap` tasks do not wait for it. History variables tell how far the properties go:

* `spared`: the entries that the last install's clean-up left, or everything if the process
  died under it;
* `alone`: no other thread was in the directory since the last install or switch began;
* `orderly`: since the directory was last empty every task was alone in it, no process
  died in a task, and every clean-up deleted all it had to.

### `Pic`, `Keyboard`, `Mouse` and `Machine`

`Pic` has the state of the two 8259s in one record, an operator for each function of
`pic.cpp`, and a small specification of its own (`PicSpec`): devices raise and lower
lines, the guest writes masks, initialisation words and the special mode, the
processor enters a handler (`Interrupt`), which may enable interrupts, sends its EOI
(`EndOfInterrupt`) and returns (`Return`). `handlers` is the guest's stack of handlers;
`plain` remembers that nobody used the special mask or automatic EOI.
`Nesting` is the set of lines whose handlers enable interrupts. Whether the special mode
is on is computed as `pic.cpp:98` does it, from the chip that is written and the second one.

What `sti`, an EOI and `iret` do (`SetFlag`, `WriteEOI`, `PopFrame`) is kept apart from when they
may be done. The actions of `PicSpec` add the guards: one EOI to a handler, then its
return, and `sti` in the middle only of one that nests. `Machine` uses the bare effects at the
instructions where the BIOS's code has them, so that a handler that sends a second EOI, or
none, takes a step that `PicSpec` does not have instead of stopping.

`Keyboard` and `Mouse` are operators on a record each; `Machine` has the variables and
composes all three.

| code | action of `Machine` |
|---|---|
| `KEYBOARD_AddKey` for a press, a release, the typematic repeat | `Press`, `Release`, `Repeat` |
| `Mouse_CursorMoved`, `Mouse_ButtonPressed`, `Mouse_ButtonReleased` | `HostMouse` |
| `KEYBOARD_TransferBuffer`, `MOUSE_Limit_Events` (timed events) | `Transfer`, `Limit` |
| `PIC_runIRQs`, `PIC_startIRQ` | `Enter` |
| CB_IRQ1: `in al,60h`, the callback, the idling in Pause, EOI, `iret` | `In60`, `Decode`, `Idle`, `Resume`, `Eoi`, `Iret` |
| CB_IRQ12: `sti`, `INT74_Handler`, the guest's subroutine, `cli`, EOI, `iret` | `Sti`, `Int74`, `UserReturns`, `Ret`, `Eoi`, `Iret` |
| INT 16 function 0; `read_p60`, `write_p60`, `write_p64`; `cli`, `sti` and masks | `GetKey`, `Poll60`, `Send60`, `Send64`, `Flags` |
| INT 33: reset, new subroutine, save, load; a new video mode, or one that the driver does not know | `ResetDriver`, `SetSubroutine`, `SaveDriver`, `LoadDriver`, `SetVideoMode` |

The guest acts in its main program and in its mouse subroutine. A code of the host's
carries its number and the shift state it was made with, so that a code lost, doubled
or taken apart from its prefix shows. When a timed event is served is left open: it may
be any later moment, which covers every delay. `forgot` remembers that the guest's subroutine
has reset the driver from within, which clears the flag that says it runs.

### `EventClock`

One action per place of `Normal_Loop`: `RunQueue` with `ServePit` or `ServeDevice` for each
event that is due, `Slice` (what `PIC_RunQueue` hands to the processor), instructions
(`Executes`: `Plain`, `AddDevice`, `RemoveDevice`, `ControlWord`, `FirstHalf`, `SecondHalf`),
`SliceOver`, `AddTick`, and `IncreaseTicks` with the host's clock. Times are cycles since
the tick began, as `PIC_TickIndex` counts them, and the queue is the list itself; `Cut` is
what an added event does to the slice that runs. Where the loop calls `GFX_Events` the user may
have paused (`Pause`), and `PauseDOSBox` sleeps until `Resume`. `slack` is a history
variable: the milliseconds of the host's clock that no tick has used, forgotten beyond
`Burst`, so a tick made without one makes it negative.

### `PageChains` and `ExtendedMemory`

`PageChains` has `mhandles` and the allocator as operators: best match, scattered
and consecutive allocation, release, growing in place, moving, shrinking.
`ExtendedMemory` has the handles of XMS and EMS, the table of the window, the maps that a
handle keeps, and an action for every call that changes them. Where the code itself says that a
program must not go on, or where its data is past describing, the behaviour ends with
a `status` of its own: `exited` (`E_Exit`), `corrupt` (a page that a zero-sized XMS block
remembered was somebody else's), `stale` (a map refers to a page that was given back).
The cell behind the array that a scattered allocation may read is taken as zero or not
(`Strayed`): undefined behaviour.

### `DosMemory`, `DosProcess` and `DosArena`

`DosMemory` has the chains as a function from a header's place to owner, size and "is it the
last", and the functions of `dos_memory.cpp` as operators. `DosProcess` has the calls:
`Allocate`, `Release`, `Resize`, `SetStrategy`, `SetLink`, `XmsAllocateUmb`, `Execute`,
`LoadHigh`, `Terminate`, `StayResident`. `DosArena` is what DOS promises a program: disjoint extents
with owners, and every step changes those of one program only. `DosProcess` implements it
with `held` being the blocks in use.

## 3. The runs

| run | configuration | expected | distinct states |
|---|---|---|---|
| `cbuf_racing` | `CircularBufferRacing.cfg` | pass | about 175 000 |
| `cbuf_queue` | `CircularBufferQueue.cfg` | pass | about 82 000 |
| `cbuf_fifo` | `CircularBufferFifo.cfg` | `Fifo` violated | |
| `session` | `Session.cfg` | pass | about 12 000 |
| `session_reuse` | `SessionReuse.cfg` | `NoProcessReuse` violated | |
| `screen` | `ScreenUpdate.cfg` | pass | about 240 000 |
| `directory` | `GameDirectory.cfg` | pass | about 4 000 000 |
| `directory_refused` | `GameDirectoryRefused.cfg` | `RefusedKeepsFiles` violated | |
| `machine` | `Machine.cfg` | pass | about 700 000 |
| `clock` | `EventClock.cfg` | pass | about 1 300 000 |
| `extmem` | `ExtendedMemory.cfg` | pass | about 1 000 000 |
| `dosmem` | `DosProcess.cfg` | pass | about 220 000 |

### What the passing runs show

`cbuf_racing`, with every freedom of the race:

* `IndicesInStep`: neither index passes the other although both threads move one.
* `NoSurplus`: an element may be handed out twice, but never do more come out
  than have left the buffer.
* `NeverStale`: as long as the stores were seen in order, what is returned may be torn
  or too new but is never older than the poll.
* `Consumed`, `DrainEnds`: every event leaves the buffer unless `GFX_Events` stops polling (a
  user who pauses need not resume) or the emulator has shut down; and the shutdown's drain
  ends, paused or not.

`cbuf_queue`: `IsFifoQueue`, the code implements `EventQueue` under the mapping
`queue <- Queue`, `accepted <- 1 .. tail`, as long as no put overwrites in the middle
of a poll.

`session`, with two activities and sound:

* `NoVideoAfterShutdown`: the bitmap is given up only when the video thread does
  not draw, with the one exception below.
* `CrashOnlyAtExit`: the UI thread meets a null only while the activity is torn
  down or after the audio device could not be opened.
* `ExitKills`: the process ends although `callbackExit` joins its own thread. The
  exception is a video thread whose `run` began after `stopVideo` and set
  `running` again: `callbackExit` then waits for ever (`stopLost`).
* `PauseSuspends`: a pause that reaches a running emulator suspends it.

`screen`: `NoLostLine` (a line that was announced and not shown is still awaited by
somebody) and `Repainted` (it is shown in the end, while there is a surface). The
exceptions are named in the properties and real: a `surfaceChanged` that read the
size before a `setMode` and drew after it (`skewed`), a null canvas (`crashed`), the
lines of an aborted frame (`unannounced`).

`directory`, with four tasks, each cancelled or failing anywhere, clean-ups that leave something,
threads of cancelled tasks that run on, and one death of the process:

* `RestoredExact`: a switch is exact for every file that `default.dsn` has a good copy of,
  whatever happened to the tasks before it, if it was alone in the directory.
* `DefaultPristine`: `default.dsn` is absent or complete as long as the directory is `orderly`.
  Without one of its three conditions this is false, and TLC shows it: an install that fails
  in the middle of the copies and cannot delete one of them leaves a part of `default.dsn`,
  as does a process that dies there, or the clean-up of an older install.
* `InstallAllOrNothing`: a failed install leaves at most what its clean-up could not delete, and
  one that is reported as successful is complete, if it was alone in the directory. Otherwise
  the clean-up of a cancelled install takes away the files of the next one.

`machine`, with three inputs of host and guest, every order of timed events, interrupts
and handler steps, and the guest masking what it likes:

* `CheckCoherent`: `PIC_IRQCheck` is what the flags say, so no request is overlooked.
* `ServiceIsStack`: the lines in service are the handlers that have not sent their EOI,
  innermost first, as long as no handler of lines 3 to 7 enables interrupts. With one that
  does, the second EOI of the BIOS's IRQ 12 (the cascade is never in service in
  this emulator) ends the handler below.
* `ExactlyOnce`, `RightStrokes`: the BIOS decodes every code once and in order, and a
  keystroke in the ring is a key that was pressed with the shift state of that moment.
  Both hold until a code is dropped or a program meddles with port 60h; that is not
  caution: a program that polls port 60h leaves IRQ 1 active, and the handler then decodes
  the next code twice; command d0 types its byte.
* `KeyboardMoves`, `MouseMoves`: the devices never stand still with something to deliver. The
  exception is a saved driver state: loading it restores `timer_in_progress` without
  the event that would clear it, and the mouse stops until the next video mode.
* `ClicksPaired`, `OneSubroutine`: presses and releases alternate up to the guest, its
  subroutine is not entered while it runs, and the driver's flag says when it runs, unless the
  subroutine has reset the driver or the guest has loaded a state with another flag.
* `PicSpec`: each handler of the BIOS sends its EOI once and before its return, and enables
  interrupts only where its line nests, however the handlers break into each other.

`clock`, with a timer that is reprogrammed, a device, and the host's clock:

* `NoneLate`: no instruction runs past the time of an event, but for what the cycle hack
  adds at the end of a tick.
* `TimerArmed`: counter 0 has exactly one event, or none while it waits for a count. An event that
  finds the queue full is dropped, and if it is the timer's own, IRQ 0 stops: `dropped`.
* `TimeForward`: `PIC_FullIndex` goes back only at the start of a tick, by what the
  last one ran over, and by the cycles that a control word leaves to the slice.
* `NotFasterThanHost`: the loop makes no tick for which the host's clock has not run, and after
  a stall or a pause it catches up by at most `Burst` of them.
* `EventsServed`: unless the user leaves the emulator paused for ever, every event is served or
  removed. A one-shot can be put off for ever by writing its count again.

`extmem`: `ChainsApart` (types; no page has two owners and none is lost), `XmsConsecutive` (XMS
blocks are consecutive), `WindowShowsTable` (the window shows what the table says),
`ExitOnlyEmpty` (the emulator exits only in the one way that `ems.cpp:279` leaves open: a
reallocation of a handle without pages to none or to more than there are).

`dosmem`: `ChainsWhole` (types; both walks meet every header and end exactly), `NothingLeaks` (a
program that ended or could not start leaves no block), `PrefixKept`, `ExecNeverExits`
(what a start found is still there when it allocates) and `ArenaSpec`.

### Where the code and its texts disagree

* `cbuf_fifo`: `CBUF_GET` copies the element before its compare-and-swap and ignores
  the result, so a put that overwrites meanwhile makes it return a torn or a
  newer element, which comes out again in its turn. The header calls it a FIFO.
* `session_reuse`: an activity that the system recreates starts a second emulator in
  the same process; `DosBoxLauncher.java:125` says that DOSBox does not tolerate this.
* `directory_refused`: an install into a directory that is not empty is refused with a
  message, and then `InstallTask` deletes everything in that directory.

Two more that no text of the repository contradicts, found with the same model. Without
the condition `alone`, `InstallAllOrNothing` and `RestoredExact` are violated in `GameDirectory.cfg`:
an install reports success, and the thread of one that was cancelled before it cleans its files up.
And a first switch that is cancelled leaves a part of `default.dsn`, which is never made
again, so that later switches apply torn or missing originals (`RestoredExact` is about the
files that have a good copy, `DefaultPristine` about directories that the installer filled,
where a first switch finds `default.dsn` made).

### Bounds, and why they are enough

* `CircularBuffer`: `Capacity` 2 and `MaxPuts` 4 let both indices wrap, the buffer
  fill, and a put overwrite twice during one poll; the actions depend on indices only
  modulo the size. `Capacity` 3 and 8 puts do the same for the refinement.
  `Capacity` 1 would leave no difference between oldest and newest. For all
  other values the proofs of section 5 take over, but for liveness.
* `Session`: two activities are enough for a second one to meet the first; `Sound`
  TRUE has all the steps of the audio device.
* `ScreenUpdate`: two lines distinguish a range from all lines and let ranges merge;
  two modes let one be replaced in use; two frames let one be announced while
  the other is drawn; three surfaces let one go, another come and be resized.
* `GameDirectory`: `ckit.exe` and one more file, which both designs replace; `ckit.exe` is
  replaced by one of them. So a file goes from the original to a design's version, to
  another's, and back. Four tasks are install, switch, switch and one more; failures leave
  their traces within two of them. `MaxSpared` 1: one entry left over is what makes a
  directory not empty, and which one it is stays open. `MaxOverlap` 2: the second task may
  start beside the first one, cancelled, and two more come after them.
* `Machine`: two keys (one with a prefix), shift and Pause; a buffer of three codes is
  overrun by one key with a prefix after another, a ring of two by three keys, a mouse queue of
  two by three events. Three inputs are enough for a code, something that disturbs it, and the
  next; what needs more than that is in the proofs, which hold for every number.
  `MaxNest` 3 is a subroutine interrupted twice.
* `EventClock`: three cycles to a tick make an event due at its start, in its middle and at its
  end; delays 1 and 4 are within a tick and beyond it; a queue of three is filled by two
  devices and the timer. `MaxRemain` 1 and `MaxBehind` 2 let the host's clock be behind,
  on time, and ahead by more than the loop catches up.
* `ExtendedMemory`: four free pages of which two make an EMS page; two XMS handles and one of EMS
  besides the system's give every neighbourhood of three blocks; sizes 0, 1 and 2.
* `DosProcess`: four paragraphs of low and two of upper memory, programs that need two or take
  everything, two of them nested, one resident. `LowSize` 5 passed as well.

Bounds stop the environment (the user, the system, the emulated program), never a
thread of the program, so `CHECK_DEADLOCK FALSE` in the configurations only allows for
a user who has stopped, or an emulator that has exited. `clock` and `dosmem` check deadlock.

### Fairness, and what justifies it

* `CircularBuffer`: weak fairness of a poll, which is possible only while `GFX_Events` is not kept
  from polling (`Normal_Loop` calls it for ever), and of a put in progress (a thread that runs
  is scheduled). The end of a pause is never owed, and neither is a new put, so the drain's
  end is shown for a user who stops.
* `Session`: weak fairness of each thread of the program and of the UI
  thread between two statements of one callback. The user's resume, the end of
  the game and a failure of a callback are never owed.
* `ScreenUpdate`: weak fairness of the painters and of `surfaceChanged` (Android calls it
  after a change). Taking `surfaceHolderLock` or the canvas is strongly fair: the
  other painter may take it again and again, but the video thread sleeps between its
  rounds, so a lock that keeps being free is got.
* `EventClock`: weak fairness of `NormalLoop`: the emulator's thread is scheduled, and waits
  only in `SDL_Delay`, which ends, and in `PauseDOSBox`, where none of its steps is possible. The
  user's resume is never owed, nor which instruction runs.

## 4. Assumptions of the models

* One UI thread runs the callbacks of all activities one after another.
* A compare-and-swap builtin is atomic; ints are not torn; structs are.
* Android's surface returns a null canvas when it is gone and lets one thread at a
  time draw; a resized surface is empty until it is drawn.
* A read, a write or a deletion may fail anywhere. `start.dat` and `start.bat` are deleted together,
  and a directory that a clean-up could not delete has something left in it: one that is empty
  and stays is not told from one that is gone.
* `start.dat` and `HEIRS.DSN` come into being in one step of an install: nothing
  looks at them before the step that follows.
* The hashes of the patched files recognise an original.
* The handlers of IRQ 1 and IRQ 12 are the BIOS's own; a program that hooks them is a
  guest that polls port 60h or calls the driver.
* An instruction takes one cycle. Programs resize and free their own blocks only.

## 5. What is proved

Every theorem holds for every value of the module's constants under the assumptions that
the module states about them.

| theorem | module | statement |
|---|---|---|
| `TypeCorrect` | `CircularBufferProofs` | `Spec => []TypeOK` |
| `IndicesStayInStep` | `CircularBufferProofs` | `Spec => []IndicesInStep` |
| `NeverSurplus` | `CircularBufferProofs` | `Spec => []NoSurplus` |
| `NothingStale` | `CircularBufferProofs` | `Spec => []NeverStale` |
| `QueueImplemented` | `CircularBufferProofs` | `Spec => IsFifoQueue`, if `~Racing` and `InOrderStores` |
| `SessionTypes` | `SessionProofs` | `Spec => []TypeOK` |
| `NoDrawingAfterShutdown` | `SessionProofs` | `Spec => []NoVideoAfterShutdown` |
| `CrashesAtExitOnly` | `SessionProofs` | `Spec => []CrashOnlyAtExit` |
| `ScreenTypes` | `ScreenUpdateProofs` | `Spec => []TypeOK` |
| `NoLineLost` | `ScreenUpdateProofs` | `Spec => []NoLostLine` |
| `GameTypes` | `GameDirectoryProofs` | `Spec => []TypeOK` |
| `AppliedIsExact` | `GameDirectoryProofs` | `Spec => []RestoredExact` |
| `DefaultIsPristine` | `GameDirectoryProofs` | `Spec => []DefaultPristine` |
| `InstallsAllOrNothing` | `GameDirectoryProofs` | `Spec => []InstallAllOrNothing` |
| `PicTypeCorrect` | `MachineProofs` | `PicSpec => []PicTypeOK` |
| `CheckStaysCoherent` | `MachineProofs` | `PicSpec => []CheckCoherent` |
| `StackInService` | `MachineProofs` | `PicSpec => []ServiceIsStack`, if `NestsAboveCascade` |
| `MachineImplementsPic` | `MachineProofs` | `Spec => PicSpec` |
| `MachineCheckCoherent` | `MachineProofs` | `Spec => []CheckCoherent` |
| `MachineServiceIsStack` | `MachineProofs` | `Spec => []ServiceIsStack`, if `NestsAboveCascade` |
| `KeyboardKeepsMoving` | `MachineProofs` | `Spec => []KeyboardMoves` |
| `MouseKeepsMoving` | `MachineProofs` | `Spec => []MouseMoves` |
| `MachineTypes` | `MachineProofs` | `Spec => []TypeOK` |
| `SubroutineRunsOnce` | `MachineProofs` | `Spec => []OneSubroutine`, if `NestsAboveCascade` |
| `ButtonsInOrder` | `MachineProofs` | `Spec => []ClicksPaired` |
| `CodesExactlyOnce` | `MachineProofs` | `Spec => []ExactlyOnce` |
| `KeystrokesRight` | `MachineProofs` | `Spec => []RightStrokes` |
| `ClockTypes` | `EventClockProofs` | `Spec => []TypeOK` |
| `NoEventLate` | `EventClockProofs` | `Spec => []NoneLate` |
| `TimerKeepsArmed` | `EventClockProofs` | `Spec => []TimerArmed` |
| `NeverFasterThanHost` | `EventClockProofs` | `Spec => []NotFasterThanHost` |
| `TimeGoesForward` | `EventClockProofs` | `Spec => TimeForward` |
| `ChainsStayApart` | `ExtendedMemoryProofs` | `Spec => []ChainsApart` |
| `XmsStaysConsecutive` | `ExtendedMemoryProofs` | `Spec => []XmsConsecutive` |
| `WindowIsTable` | `ExtendedMemoryProofs` | `Spec => []WindowShowsTable` |
| `ExitsOnlyEmpty` | `ExtendedMemoryProofs` | `Spec => ExitOnlyEmpty` |
| `ChainsStayWhole` | `DosProcessProofs` | `Spec => []ChainsWhole` |
| `NothingIsLeft` | `DosProcessProofs` | `Spec => []NothingLeaks` |
| `PrefixesKept` | `DosProcessProofs` | `Spec => []PrefixKept` |
| `StartNeverExits` | `DosProcessProofs` | `Spec => []ExecNeverExits` |
| `ArenaImplemented` | `DosProcessProofs` | `Spec => ArenaSpec` |

The assumptions are what the code's constants satisfy (a ring has at least two slots, a buffer at
least one) and, in `GameDirectory`, that the names of files, of designs and of the
model's own values differ (`NamesAssumption`).

### The input event buffer

`IndicesInStep` is not inductive. `PutPublish` advances `tail`, and that preserves
it only if the buffer is not full at that moment; the producer tested this steps
earlier, and meanwhile either thread may have moved `indGet`. `Inv` adds what the
threads know in between:

* until it publishes, the producer's `slot` is `indPut` and there is room for one
  more: the consumer only makes room. Before its compare-and-swap `rcur` is the
  slot after `indPut`, so the swap succeeds exactly if the buffer is still full;
* a consumer that has seen two different indices is in front of a buffer that is
  not empty: an overwrite happens only when the buffer is full, and leaves at
  least one element since `Capacity` is at least two. A compare-and-swap on a
  value that may be *any* re-read is safe because of this.

`Distance` translates between the two views: equal indices are an empty
buffer, and a write index one behind the read index is a full one. `AdvanceHead` and
`AdvanceTail` say what one advance of an index does to the distance.

`NoSurplus` is not inductive either, because `GetAdvance` returns an element also when its
compare-and-swap fails. `SurplusInv` says that in the middle of a poll either the register
still is the read index, so the swap succeeds, or the read index has advanced since the
poll began and that advance makes up for the element.

`NeverStale` needs what the slots hold. `PutInv` (the *n*-th put stores *n*, so a slot
only gets newer), `Content` (as long as stores are in order, the slot that is *k* ahead
of the read index holds event `head + k + 1`; `Ahead` counts without a modulus) and `Fresh`
(a slot that a poll has in its register is newer than the poll, and can only get
newer still) are inductive together with `Inv` and `SurplusInv`.

`QueueImplemented` adds `CalmInv`: with no overwrite in the middle of a poll the read index
stays where the poll found it and the result is the oldest event. `QueueIsNumbers` turns the
mapped queue into the sequence of the events `head + 1 .. tail`, so that every step
of the code is an `Append`, a `Tail` or nothing on such sequences (`NumbersAppend`,
`NumbersTail`).

### The session

`NoVideoAfterShutdown` and `CrashOnlyAtExit` are about what other threads wrote earlier.
`SessionInv` says what each thread may count on: a thread that is past `joinVideo` has seen
its video thread dead or never started (`stopLost` aside); the view and the audio device of
an activity are there until its own background thread has come to `shutdown`; an
activity that has not been created has started no thread; and while the UI thread is between the
test of `audioDevice` and its use, the device is there unless it failed to open or its
thread is on its way out. Each step of the background thread before the join preserves it for
the same reasons, which `EarlyStep` states once.

### The screen

`NoLostLine` is not inductive: a round of the video thread ends by clearing `dirty`, and
nothing in the property says that this round drew the lines. `ScreenInv` says

* what the round holds (`RoundHolds`): while the video thread is in it, `dirtyLock` is its own
  and what was announced stays announced and is within what the round covers, so no
  announcement can slip in before the clear;
* whose size is in use (`ModesKnown`, `OldMode`): a painter whose size is that of an earlier mode
  draws nothing, but then `setMode` is still running or the new bitmap has announced nothing yet;
* that a painter which posts has drawn, or leaves pending, every line it was there for
  (`VideoPosts`, `UiPosts`), with the canvas in its own hands (`CanvasHeld`);
* that a view that draws has a surface (`ViewUp`).

`NothingForgotten` is the property in terms of these: a line is pending, or a resize is owed,
or the UI thread is about to draw everything, or it is drawn and about to be posted.
`FirstLine` and `LastLine` show that the `CHOOSE` behind the range of a frame has a witness for
every number of lines.

### The game directory

A task is a chain of stages, and what it reports at its end is only as true as what each stage
left. `GameInv` says of every task, whoever else is at work, which kind of task is at a place and
what may be left to do there (`TaskShape`). The rest it says of a task that is `alone`: there is
then only one (`OneTask`), and a second thread takes nothing more than `alone` and `orderly`
away. The next install or switch that finds nobody in the directory begins with them anew:
nothing that came before it is needed, since the report was withdrawn and its first
stages establish what the later ones need.

* `Stages`: during `restore` a file that `default.dsn` has a good copy of is either still to
  be copied or an original again; during `override` it is still to be copied or the design's
  version; from `applied` on the directory is `Exact`. This is why the originals have to come
  first, and why a design's files need not include those of the design before;
* `ActiveFrozen`, `ActiveExact`: what was reported as applied stays, because the only tasks that
  may run without withdrawing the report add another module;
* `InstallStages`: an install has an empty directory until it unpacks, an original one until
  `default.dsn` is whole; in `clean` everything that is there is still to be deleted, and once it
  has failed everything that is there was spared;
* `OrderlyStages`: between the tasks of an orderly directory it is bare or holds all of
  `default.dsn`. So a switch never makes a copy out of modified files.

`RestoredExact` does not need the last two, which is why it survives crashes, clean-ups that
failed and directories filled by hand; `DefaultPristine` and `InstallAllOrNothing` do.

### The interrupt controller and the machine

`PicTypeOK` and `CheckCoherent` are inductive together. The lemmas about `First`, `FirstOrNone`
and `Rechecked` carry the argument: a line that did not change its mask keeps its bit, and
all lines of the second chip are looked at again when the cascade's mask changes.

`ServiceIsStack` is not inductive. `ServiceInv` adds that the ranks of the handlers on the
stack rise from the innermost out (a handler is entered only by a line that comes before
the one in service), that a handler below the top is one whose line nests, and that nobody
has left the plain mode. `NestsAboveCascade` (no handler of lines 3 to 7 enables
interrupts) is needed for the second EOI of IRQ 12, which ends the first line in service
on the first chip: then there is none, or it is one that is allowed to end. TLC shows
the violation with line 7 in `Nesting`.

`MachineImplementsPic` says that the composed handlers keep the rules under which `Pic` was proved
right, so that what holds of `Pic` holds in the machine, whatever the keyboard and the mouse
do. That is not seen from the step alone: `Eoi` and `Iret` follow a program counter, `PicSpec`
a history of the stack. `SubroutineInv` relates the two for every handler on the stack
(`PlaceOf`): places of the keyboard's code belong to line 1 and places of the mouse's to line 12,
and a handler has sent its EOI exactly if it idles in Pause or is in front of its `iret`. A
second EOI, a return before it, or interrupts enabled at another place break one of them.

`KeyboardInv` and `MouseInv` are the devices' own invariants; the former has
to say which step of which handler will still read port 60h, the latter that the mouse's flag
and its timed event agree (until the guest loads a saved state). What `MachineTypes` states falls
out of the two.

`SubroutineRunsOnce` needs the controller's invariant and the places together (`Stacks`): INT 74's
handler enables interrupts, but it and the guest's subroutine that it calls run before its EOI,
and while line 12 is in service the controller enters no handler of it. The driver's flag then
has one handler to follow from its call to its return.

`ButtonsInOrder` counts positions: `ClickInv` says of each button's event in the queue that the
one before it is of the other kind, the first of them compared with the last one taken, so an
append, a take from the front, and the merging of two movements keep presses and releases
alternating.

`CodesExactlyOnce` and `KeystrokesRight` follow a code from the host to the BIOS. `FlightInv`
says of the codes in flight (in the innermost handler's register, on port 60, in the
buffer) that the host's among them are those sent and not yet decoded, in order (`InOrder`),
and that decoding them would be right (`Faithful`): a prefix is in front of its key, and
a shift flag that runs over them from the BIOS's value ends at the host's and agrees with
every keystroke on the way (`ShiftRuns`). It needs `ReaderInv` (from its start to the end
of its callback the keyboard's handler is the innermost, so no second one overtakes it with a
later code) and `PortServed` (while a code is on port 60 no transfer is scheduled that would
overwrite it, and IRQ 1 or its handler is going to read it). The keyboard's acknowledgements
come in anywhere; they change neither.

### Time

`TimeInv` adds to the types what each place of `Normal_Loop` knows of the slice. The
property `NoneLate` is about every instruction, but an instruction only counts `cycles`
down; what has to hold is about the slice: `SliceEnds` says that its end (`CycleMax - left`)
is not after the first event, or that the first event belongs to the next tick and the
end is within the cycle hack. `Cut` restores it for an event that is added, a removal only makes the
first event later, and a stretched slice keeps its end. `ArmedInv` states `TimerArmed` by
positions in the queue, so that the lemmas on `Insert` and `Removed` (where each event
goes, that order and length are kept) carry it. `Insert` and `Removed` choose places;
`KthPlace` shows that the place exists.

`NotFasterThanHost` is about ticks, while the loop grants them earlier, in `IncreaseTicks`.
`CreditInv` says that what the host had and no tick has used covers the ticks still owed and
those that the clock will grant at the next look, of which there are at most `MaxRemain` each;
so nothing that is needed is forgotten beyond `Burst`.

### Extended and expanded memory

The three invariants speak of chains as the code's loops visit them (`Chain`, a recursive
function). The proofs first replace the loop by its result: `IsChain` says of a sequence of pages
that each links to the next, the last one ends it and none comes twice, and `ChainIs` and
`HandleAtIs` show that the loops then visit just this sequence (two functions that follow the same links
are equal, by the least place where they would differ). `Inv` has three parts:

* `Apart`: each owner's first page starts a chain as long as its size, two owners' chains have no
  page in common, every page that is not free is in one of them, and the pages of an XMS
  block follow each other;
* `MapsHold`: a map in force or kept refers to pages that its handle has;
* `WindowHolds`: each frame shows the pages of the chain that the table names for it.

`ChainsApart` and `WindowShowsTable` are not inductive alone: a restore brings back a kept map, about
which the window says nothing, and only `MapsHold` says that its pages still exist.
Each function of the allocator is described by `Changed`: which pages were given back, which
chain was made of free ones and of them, and that nothing else was touched. What the allocators find is
free by `BestMatchIs` (a run of that length) and `ScatteredIs` (the k-th page by the length of
its run: `KthRank` shows that there is one). `OwnerStep` then turns a
`Changed` of one owner's pages into `Apart` afterwards, once for all calls. A resize of a block of size zero
needs lemmas of its own (`ReAllocateFree`), since it starts from a page that nobody owns.
`EnoughIs` is the reason of `ExitsOnlyEmpty`: a scattered allocation fails only if the pages
are too few, and the driver's division by the pages of an EMS page errs on the safe side.
`TypeOK` allows an EMS handle no pages whatever sizes a guest asks for: a released handle 0 has none.

### The memory of DOS

The properties speak of walks along the chain (`Walk`), of the blocks a program owns and of what the
calls return; none of them is inductive. `Inv` has three parts:

* `Tiled`: each block is followed by a block or ends its part of memory, none lies inside
  another, upper memory starts at `UmbStart` with a block of DOS, and the marks of the last blocks
  agree with the link. `Walks` derives from it that a walk ends and meets exactly the blocks
  of low memory, or all of them: the addresses of a walk grow, so the walk is no
  longer than memory (an induction by the least counterexample, on a recursive function);
* `Owners`: every extent in use belongs to the system or to a program that runs or stays, and
  each program has the extent of its prefix. So a new program's prefix cannot be an old
  program's, and freeing by owner frees what is the program's and nothing else;
* the stack of programs and the settings that each start saves.

`Held` is the set of extents (address, size and owner) in use. Every operator is described by what it does
to `Tiled` and `Held`: joining free blocks and linking change nothing, an allocation adds one extent
that was free, a resize replaces one, a free takes one away. The invariant then has to be
shown for sets of extents only, and the arena of `DosArena` is this set: `OneOwner` and `Moves`
give a step of the arena for each step of the code, and `TiledDisjoint` says that what it gives out
overlaps nothing.

`StartNeverExits` is about two calls in a row: a start asks for the largest block and takes it later, after it
has allocated the environment. `LargestCanBeHad` says that the size the failed call reports
can be had by the next one under the same strategy and link, since `CompressMemory`, run a second time,
finds nothing to join.

### What is only model-checked

The liveness properties `Consumed`, `DrainEnds`, `ExitKills`, `PauseSuspends`, `Repainted` and
`EventsServed`, because the prover has no rules for liveness under fairness. That `EventQueue` is
implemented under `Racing` is not claimed: it is false (`cbuf_fifo`).

## 6. What is not modelled, and why

* The CPU cores, files and drives, the sound and video devices, the shell's commands:
  vendored, and out of reach as a whole. The processor is an environment that makes
  calls, enters handlers and takes cycles.
* Scalers, caches and VGA timing; palettes and pixel formats; the geometry of the view.
* The mixer's arithmetic of sample positions; the bridge's cached ids and references.
* Key tables, layout, preferences, directory choosers: data or user interface.
* The parsing of patch tables, archives and hashes: `GameDirectory` has only what it does
  to the directory.
* Of the modelled parts: `machine=pcjr`, vectors and reading of the controller's registers;
  Num Lock and the Alt-number token; positions, cursor drawing and PS/2 callback of the
  mouse; counters 1 and 2 and the automatic choice of `CPU_CycleMax`; the branch of
  `dosbox.cpp:156` for `ticksLocked`, which nothing sets here (`MAPPER_AddHandler` is an empty
  stub, `missing.cpp:198`); segment mappings,
  VCPI and moves of data in EMS and XMS; overlays, file tables and LOADFIX (its
  last `DOS_FreeMemory` may free a block that `LOADFIX -D` had already freed).
* `locnet_loader.c` is commented out; build files and SDL headers hold no behaviour.

What was seen in the code and has no property, because nothing in the repository promises
otherwise or because the data is not in the models:

* `DosBoxVideoThread`: a `surfaceChanged` that read the size before a `setMode` scales the new
  picture by the old one (`skewed`); a lost reset of `dirtyCount` may leave the border of
  the old picture; lines of an aborted frame stay off the screen until they change again.
* `missing.cpp:101`: `SDL_OpenAudio` takes the 0 of a successful `callback_audio_init` for a failure, so
  an opened device runs beside a mixer without sound. `jni_context.c:77`: an
  exception in `videoSetMode` leaves a deleted reference.
* A module whose unzip was cancelled stays in part and cannot be added again; `start.bat`
  alone makes a directory count as installed. What a clean-up could not delete stays without a
  word to the user, and the next install refuses the directory and cleans it again.
* `memory.cpp:305` looks past the end of `mhandles`; `xms.cpp:146` gives a block of size zero a
  free page it does not own; a resize to one page succeeds without reserving one; a locked
  XMS block may be freed; releasing or shrinking an EMS handle leaves its frames mapped
  (`ems.cpp:373`), and releasing handle 0 frees pages that VCPI still uses although the
  comment at `ems.cpp:387` says the handle is never deallocated.
* `dos_memory.cpp:160`: with "high memory first", best and last fit go on into low memory, and
  low memory wins. Free neighbours in upper memory that is not linked are not joined
  (`dos_memory.cpp:35`). A resize makes the block the property of whoever runs, even when it fails
  (`dos_memory.cpp:268`). INT 27 stays resident only if its resize succeeds, function 31 always.
* `pic.cpp:186`: in single mode without ICW4 the controller still waits for an ICW4.

## 7. Plan

In this order; what is done is marked.

1. `EventQueue`, `CircularBuffer`, and their proofs (done).
2. `Session`, `ScreenUpdate`, `GameDirectory` and their proofs (done).
3. `Pic`, `Keyboard`, `Mouse`, `Machine` and their proofs (done).
4. `EventClock`, `ExtendedMemory`, `DosProcess` with `DosArena`, and their proofs (done).
5. The machine's timed events served by `EventClock` instead of at any later moment.
6. The mixer's ring (`done`, `needed` and the position, under `MIXER_Mix` and `MIXER_CallBack`) and
   the rows that `videoRedraw` computes from the announced lines.
