------------------------------ MODULE HostThreads ------------------------------
(***************************************************************************)
(* The Android host of the emulator: the UI thread (EmulatorActivity.java),*)
(* the loader thread that runs DSInit and exits, the emulation thread      *)
(* MainCycle (main.cpp), the sound threads (sndsdl.cpp, SPU.cpp) and the   *)
(* GL thread that copies the screen (render, main.cpp).  They share plain  *)
(* volatile flags and one mutex.  One action is what a thread does between *)
(* two accesses to state that another thread uses.                         *)
(*                                                                         *)
(* A session is one call of entry() and all it starts.  Bounds: Sessions,  *)
(* the states loaded (Loads), and a new session is entered only after the  *)
(* emulation thread of the one before has ended.                           *)
(***************************************************************************)
EXTENDS Naturals, FiniteSets

CONSTANTS Sessions, Loads
ASSUME SessionsAssumption == Sessions \in Nat \ {0} /\ Loads \in Nat

\* DSInit calls SNDSDLInit twice, for ChangeSoundCore and after NDS_Reset; every
\* state that is loaded resets once more
SndThread == 1 .. 2 * Sessions + Loads

VARIABLES
  ui, dialog,               \* what the UI thread shows; the "Loading..." dialog
  uiPc,                     \* where it is in a native call
  first, activityPaused,    \* fields of EmulatorActivity
  initPc, cyclePc, renderPc, sndPc,
  execute, paused, romloaded, doterminate, isFinishedInit,  \* main.cpp
  sndStop, sndTerminated,   \* doterminate and terminated of sndsdl.cpp
  SNDCore, SPU_core, SPU_user, audioTrack, emu,   \* which of them exist
  javaEnv,                  \* the thread the global JNIEnv belongs to
  DsExec, initWhileHeld,    \* the mutex; did pthread_mutex_init hit a held one
  pauseGap,                 \* history: what the pause in force did not stop
  sessions, loads

uiVars == <<ui, uiPc, dialog, first, activityPaused, sessions, loads>>
flags == <<execute, paused, romloaded, doterminate, isFinishedInit>>
sound == <<sndPc, sndStop, sndTerminated, SNDCore, SPU_core, SPU_user, audioTrack>>
mutex == <<DsExec, initWhileHeld>>
vars == <<uiVars, initPc, cyclePc, renderPc, flags, pauseGap, sound, emu, javaEnv, mutex>>

Init ==
  /\ ui = "none" /\ uiPc = "idle" /\ dialog = FALSE
  /\ first = TRUE /\ activityPaused = FALSE
  /\ initPc = "done" /\ cyclePc = "done" /\ renderPc = "idle"
  /\ sndPc = [k \in SndThread |-> "none"]
  /\ execute = FALSE /\ paused = FALSE /\ romloaded = FALSE
  /\ doterminate = FALSE /\ isFinishedInit = FALSE
  /\ sndStop = FALSE /\ sndTerminated = FALSE
  /\ SNDCore = "null" /\ SPU_core = FALSE /\ SPU_user = FALSE /\ audioTrack = FALSE
  /\ emu = FALSE /\ javaEnv = "none" /\ DsExec = "free" /\ initWhileHeld = FALSE
  /\ pauseGap = "none" /\ sessions = 0 /\ loads = 0

--------------------------------------------------------------------------------
(* The loader thread: initialize_thread, DSInit, CreateMainThread *)

InitGoto(from, to) == initPc = from /\ initPc' = to

InitAttach ==
  /\ InitGoto("attach", "ndsinit")
  /\ javaEnv' = "init"
  /\ UNCHANGED <<uiVars, cyclePc, renderPc, flags, pauseGap, sound, emu, mutex>>

\* NDS_Init, with SPU_Init(SNDCORE_DUMMY)
NdsInit ==
  /\ InitGoto("ndsinit", "sound")
  /\ emu' = TRUE
  /\ SNDCore' = "dummy" /\ SPU_core' = TRUE
  /\ UNCHANGED <<uiVars, cyclePc, renderPc, flags, pauseGap, sndPc, sndStop, sndTerminated,
                 SPU_user, audioTrack, javaEnv, mutex>>

\* SNDSDLInit: the AudioTrack, both flags, and a new sound thread
SndInitKeepFlag ==   \* mutant: terminated is left from the thread before
  LET k == Cardinality({j \in SndThread : sndPc[j] # "none"}) + 1
  IN /\ audioTrack' = TRUE
     /\ sndStop' = FALSE /\ UNCHANGED sndTerminated
     /\ sndPc' = [sndPc EXCEPT ![k] = "loop"]
     /\ UNCHANGED <<SNDCore, SPU_core, SPU_user>>

SndInit ==
  LET k == Cardinality({j \in SndThread : sndPc[j] # "none"}) + 1
  IN /\ audioTrack' = TRUE
     /\ sndStop' = FALSE /\ sndTerminated' = FALSE
     /\ sndPc' = [sndPc EXCEPT ![k] = "loop"]
     /\ UNCHANGED <<SNDCore, SPU_core, SPU_user>>

\* SPU_ChangeSoundCore(SNDCORE_SDL), called by DSInit and, with a new SPU_core, by
\* SPU_ReInit: the core is chosen before SNDSDLInit makes its AudioTrack
ChangeSoundCore ==
  /\ SNDCore' = "sdl" /\ SPU_core' = TRUE
  /\ UNCHANGED <<sndPc, sndStop, sndTerminated, SPU_user, audioTrack>>

\* SPU_SetSynchMode then makes SPU_user
SetSynchMode ==
  /\ SPU_user' = TRUE
  /\ UNCHANGED <<sndPc, sndStop, sndTerminated, SNDCore, SPU_core, audioTrack>>

InitSound ==
  /\ \/ InitGoto("sound", "open") /\ ChangeSoundCore
     \/ InitGoto("open", "user") /\ SndInit
     \/ InitGoto("user", "load") /\ SetSynchMode
     \/ InitGoto("resound", "reopen") /\ ChangeSoundCore
     \/ InitGoto("reopen", "reuser") /\ SndInit
     \/ InitGoto("reuser", "run") /\ SetSynchMode
  /\ UNCHANGED <<uiVars, cyclePc, renderPc, flags, pauseGap, emu, javaEnv, mutex>>

\* NDS_LoadROM: a failure is printed and ignored, a success ends in NDS_Reset
LoadROMGiveUp ==   \* mutant: the loader returns when the ROM cannot be loaded
  /\ InitGoto("load", "stop") \/ InitGoto("load", "failed")
  /\ UNCHANGED <<uiVars, cyclePc, renderPc, flags, pauseGap, sound, emu, javaEnv, mutex>>

LoadROM ==
  /\ InitGoto("load", "stop") \/ InitGoto("load", "run")
  /\ UNCHANGED <<uiVars, cyclePc, renderPc, flags, pauseGap, sound, emu, javaEnv, mutex>>

SetExecute ==
  /\ InitGoto("run", "go")
  /\ romloaded' = TRUE
  /\ execute' = TRUE
  /\ pauseGap' = IF paused THEN "flag" ELSE pauseGap
  /\ UNCHANGED <<uiVars, cyclePc, renderPc, paused, doterminate, isFinishedInit,
                 sound, emu, javaEnv, mutex>>

SetRunning ==
  /\ InitGoto("go", "create")
  /\ doterminate' = FALSE
  /\ UNCHANGED <<uiVars, cyclePc, renderPc, execute, paused, romloaded,
                 isFinishedInit, pauseGap, sound, emu, javaEnv, mutex>>

CreateMainThread ==
  /\ InitGoto("create", "done")
  /\ isFinishedInit' = TRUE
  /\ cyclePc' = "attach"
  /\ UNCHANGED <<uiVars, renderPc, execute, paused, romloaded, doterminate,
                 pauseGap, sound, emu, javaEnv, mutex>>

--------------------------------------------------------------------------------
(* SPU_DeInit, called in NDS_Reset by the loader and by the UI thread, and by   *)
(* MainCycle in NDS_DeInit                                                      *)

\* SNDSDLDeInit asks the sound thread to stop ...
SndStop ==
  /\ sndStop' = TRUE
  /\ UNCHANGED <<sndPc, sndTerminated, SNDCore, SPU_core, SPU_user, audioTrack>>

\* ... waits for it, and releases the AudioTrack through the global javaEnv
SndReleaseNoWait ==   \* mutant: the spin on `terminated' dropped
  /\ audioTrack' = FALSE
  /\ UNCHANGED <<sndPc, sndStop, sndTerminated, SNDCore, SPU_core, SPU_user>>

SndRelease ==
  /\ sndTerminated
  /\ audioTrack' = FALSE
  /\ UNCHANGED <<sndPc, sndStop, sndTerminated, SNDCore, SPU_core, SPU_user>>

\* SPU_DeInit then drops the core and both SPUs
SpuDrop ==
  /\ SNDCore' = "null" /\ SPU_core' = FALSE /\ SPU_user' = FALSE
  /\ UNCHANGED <<sndPc, sndStop, sndTerminated, audioTrack>>

InitDeInitSound ==
  /\ \/ InitGoto("stop", "wait") /\ SndStop
     \/ InitGoto("wait", "drop") /\ SndRelease
     \/ InitGoto("drop", "resound") /\ SpuDrop
  /\ UNCHANGED <<uiVars, cyclePc, renderPc, flags, pauseGap, emu, javaEnv, mutex>>

InitThread ==
  \/ InitAttach \/ NdsInit \/ InitSound \/ LoadROM \/ InitDeInitSound
  \/ SetExecute \/ SetRunning \/ CreateMainThread

--------------------------------------------------------------------------------
(* The emulation thread: MainCycle *)

CycleGoto(from, to) == cyclePc = from /\ cyclePc' = to

CycleAttachNot ==   \* mutant: MainCycle keeps the JNIEnv of the loader
  /\ CycleGoto("attach", "mutex")
  /\ UNCHANGED <<uiVars, initPc, renderPc, flags, pauseGap, sound, emu, javaEnv, mutex>>

CycleAttach ==
  /\ CycleGoto("attach", "mutex")
  /\ javaEnv' = "cycle"
  /\ UNCHANGED <<uiVars, initPc, renderPc, flags, pauseGap, sound, emu, mutex>>

\* pthread_mutex_init, whoever holds the mutex
CycleMutexInit ==
  /\ CycleGoto("mutex", "top")
  /\ DsExec' = "free"
  /\ initWhileHeld' = (initWhileHeld \/ DsExec # "free")
  /\ UNCHANGED <<uiVars, initPc, renderPc, flags, pauseGap, sound, emu, javaEnv>>

\* while (!doterminate) if (execute) ...; with execute false it spins
CycleTop ==
  /\ \/ doterminate /\ CycleGoto("top", "stop")
     \/ ~doterminate /\ execute /\ CycleGoto("top", "lock")
  /\ UNCHANGED <<uiVars, initPc, renderPc, flags, pauseGap, sound, emu, javaEnv, mutex>>

CycleLock ==
  /\ CycleGoto("lock", "exec")
  /\ DsExec = "free"
  /\ DsExec' = "held"
  /\ UNCHANGED <<uiVars, initPc, renderPc, flags, pauseGap, sound, emu, javaEnv, initWhileHeld>>

\* the end of NDS_exec: a frame done, or `execute' seen false
CycleUnlock ==
  /\ CycleGoto("exec", "top")
  /\ DsExec' = "free"
  /\ pauseGap' = IF pauseGap = "frame" THEN "none" ELSE pauseGap
  /\ UNCHANGED <<uiVars, initPc, renderPc, flags, sound, emu, javaEnv, initWhileHeld>>

\* NDS_DeInit: SPU_DeInit, then the screen and the MMU
CycleDeInit ==
  /\ \/ CycleGoto("stop", "wait") /\ SndStop /\ UNCHANGED emu
     \/ CycleGoto("wait", "drop") /\ SndRelease /\ UNCHANGED emu
     \/ CycleGoto("drop", "deinit") /\ SpuDrop /\ UNCHANGED emu
     \/ CycleGoto("deinit", "end") /\ emu' = FALSE /\ UNCHANGED sound
  /\ UNCHANGED <<uiVars, initPc, renderPc, flags, pauseGap, javaEnv, mutex>>

CycleEnd ==
  /\ CycleGoto("end", "done")
  /\ isFinishedInit' = FALSE
  /\ UNCHANGED <<uiVars, initPc, renderPc, execute, paused, romloaded, doterminate,
                 pauseGap, sound, emu, javaEnv, mutex>>

CycleThread ==
  CycleAttach \/ CycleMutexInit \/ CycleTop \/ CycleLock \/ CycleUnlock
    \/ CycleDeInit \/ CycleEnd

--------------------------------------------------------------------------------
(* Sound threads: SNDXBOXThread; the GL thread: render *)

SndGoto(k, from, to) == sndPc[k] = from /\ sndPc' = [sndPc EXCEPT ![k] = to]

SndTop(k) ==
  /\ \/ sndStop /\ SndGoto(k, "loop", "exit")
     \/ ~sndStop /\ execute /\ SndGoto(k, "loop", "mix")
  /\ UNCHANGED <<sndStop, sndTerminated, SNDCore, SPU_core, SPU_user, audioTrack>>

\* SPU_Emulate_user returns at once without a core or a user SPU
SndMix(k) ==
  /\ \/ SNDCore # "null" /\ SPU_user /\ SndGoto(k, "mix", "play")
     \/ ~(SNDCore # "null" /\ SPU_user) /\ SndGoto(k, "mix", "loop")
     \/ SndGoto(k, "play", "loop")
  /\ UNCHANGED <<sndStop, sndTerminated, SNDCore, SPU_core, SPU_user, audioTrack>>

SndExitSilent(k) ==   \* mutant: the thread ends without saying so
  /\ SndGoto(k, "exit", "done")
  /\ UNCHANGED <<sndStop, sndTerminated, SNDCore, SPU_core, SPU_user, audioTrack>>

SndExit(k) ==
  /\ SndGoto(k, "exit", "done")
  /\ sndTerminated' = TRUE
  /\ UNCHANGED <<sndStop, SNDCore, SPU_core, SPU_user, audioTrack>>

SndStep(k) ==
  /\ SndTop(k) \/ SndMix(k) \/ SndExit(k)
  /\ UNCHANGED <<uiVars, initPc, cyclePc, renderPc, flags, pauseGap, emu, javaEnv, mutex>>

\* The surface draws while the activity is in front, also during the loading.
RenderLockNot ==   \* mutant: the copy is not protected
  /\ ui \in {"shown", "menu", "saving"}
  /\ renderPc = "idle" /\ renderPc' = "copy"
  /\ UNCHANGED <<uiVars, initPc, cyclePc, flags, pauseGap, sound, emu, javaEnv, mutex>>

RenderLock ==
  /\ ui \in {"shown", "menu", "saving"}
  /\ renderPc = "idle" /\ renderPc' = "copy"
  /\ DsExec = "free"
  /\ DsExec' = "held"
  /\ UNCHANGED <<uiVars, initPc, cyclePc, flags, pauseGap, sound, emu, javaEnv, initWhileHeld>>

RenderUnlock ==
  /\ renderPc = "copy" /\ renderPc' = "idle"
  /\ DsExec' = "free"
  /\ UNCHANGED <<uiVars, initPc, cyclePc, flags, pauseGap, sound, emu, javaEnv, initWhileHeld>>

--------------------------------------------------------------------------------
(* The UI thread.  The loading dialog is modal and cannot be cancelled: until it *)
(* is dismissed the menu and the back key do not reach the activity.  A native   *)
(* call is synchronous: nothing else runs on this thread until uiPc is "idle".   *)

others == <<initPc, cyclePc, renderPc, sound, emu, javaEnv, mutex>>

PauseNoHalt ==   \* mutant: NDS_Pause without emu_halt
  IF paused THEN UNCHANGED <<execute, paused, pauseGap, uiPc>>
  ELSE /\ UNCHANGED execute /\ paused' = TRUE /\ uiPc' = "mute"
       /\ pauseGap' = IF cyclePc \in {"lock", "exec"} THEN "frame" ELSE "none"

\* NDS_Pause: emu_halt asks the emulation thread to stop, and nobody waits for it;
\* SPU_Pause(1) follows
Pause ==
  IF paused THEN UNCHANGED <<execute, paused, pauseGap, uiPc>>
  ELSE /\ execute' = FALSE /\ paused' = TRUE /\ uiPc' = "mute"
       /\ pauseGap' = IF cyclePc \in {"lock", "exec"} THEN "frame" ELSE "none"

\* NDS_UnPause; SPU_Pause(0) follows
UnPause ==
  IF romloaded /\ paused
  THEN execute' = TRUE /\ paused' = FALSE /\ uiPc' = "mute" /\ pauseGap' = "none"
  ELSE UNCHANGED <<execute, paused, pauseGap, uiPc>>

\* SPU_Pause: SNDSDLMuteAudio and SNDSDLUnMuteAudio call into the AudioTrack with the
\* global javaEnv, the dummy core does nothing
SpuPause ==
  /\ \/ uiPc = "mute" /\ uiPc' = (IF SNDCore = "sdl" THEN "call" ELSE "idle")
     \/ uiPc = "call" /\ uiPc' = "idle"
  /\ UNCHANGED <<ui, dialog, first, activityPaused, sessions, loads, flags, pauseGap, others>>

Open ==
  /\ ui = "none" /\ uiPc = "idle"
  /\ IF first
     THEN /\ sessions < Sessions
          /\ initPc = "done" /\ cyclePc = "done"
          /\ initPc' = "attach" /\ sessions' = sessions + 1
     ELSE UNCHANGED <<initPc, sessions>>
  /\ first' = FALSE /\ activityPaused' = FALSE
  /\ ui' = "shown" /\ dialog' = TRUE
  /\ UNCHANGED <<uiPc, loads, cyclePc, renderPc, flags, pauseGap, sound, emu, javaEnv, mutex>>

\* the AsyncTask polls isFinishedInit; the UI thread then dismisses the dialog
DialogDoneUnchecked ==   \* mutant: the dialog goes away before the load is over
  /\ dialog /\ uiPc = "idle"
  /\ dialog' = FALSE
  /\ UNCHANGED <<ui, uiPc, first, activityPaused, sessions, loads, flags, pauseGap, others>>

DialogDone ==
  /\ dialog /\ uiPc = "idle"
  /\ isFinishedInit
  /\ dialog' = FALSE
  /\ UNCHANGED <<ui, uiPc, first, activityPaused, sessions, loads, flags, pauseGap, others>>

\* onCreateOptionsMenu, onPrepareOptionsMenu
OpenMenu ==
  /\ ui = "shown" /\ uiPc = "idle" /\ ~dialog
  /\ ui' = "menu"
  /\ Pause
  /\ UNCHANGED <<dialog, first, activityPaused, sessions, loads, romloaded, doterminate,
                 isFinishedInit, others>>

\* the handler that would unpause is commented out
CloseMenu ==
  /\ ui = "menu" /\ uiPc = "idle"
  /\ ui' = "shown"
  /\ UNCHANGED <<uiPc, dialog, first, activityPaused, sessions, loads, flags, pauseGap, others>>

\* saveState; and loadState of no file, of a bad one or without a ROM, which resets nothing
SaveState ==
  /\ ui = "menu" /\ uiPc = "idle"
  /\ ui' = "saving" /\ uiPc' = "state"
  /\ UNCHANGED <<dialog, first, activityPaused, sessions, loads, flags, pauseGap, others>>

\* loadState: savestate_load begins with NDS_Reset, on the UI thread
LoadState ==
  /\ ui = "menu" /\ uiPc = "idle" /\ loads < Loads
  /\ ui' = "saving" /\ uiPc' = "stop"
  /\ loads' = loads + 1
  /\ UNCHANGED <<dialog, first, activityPaused, sessions, flags, pauseGap, others>>

UiGoto(from, to) == uiPc = from /\ uiPc' = to

ResetNoWait ==   \* mutant: the reset does not wait for the sound thread to end
  /\ \/ UiGoto("stop", "drop") /\ SndStop
     \/ UiGoto("drop", "resound") /\ SpuDrop
     \/ UiGoto("resound", "reopen") /\ ChangeSoundCore
     \/ UiGoto("reopen", "reuser") /\ SndInit
     \/ UiGoto("reuser", "state") /\ SetSynchMode
  /\ UNCHANGED <<ui, dialog, first, activityPaused, sessions, loads, initPc, cyclePc, renderPc,
                 flags, pauseGap, emu, javaEnv, mutex>>

\* SPU_DeInit and SPU_ReInit of NDS_Reset
UiReset ==
  /\ \/ UiGoto("stop", "wait") /\ SndStop
     \/ UiGoto("wait", "drop") /\ SndRelease
     \/ UiGoto("drop", "resound") /\ SpuDrop
     \/ UiGoto("resound", "reopen") /\ ChangeSoundCore
     \/ UiGoto("reopen", "reuser") /\ SndInit
     \/ UiGoto("reuser", "state") /\ SetSynchMode
  /\ UNCHANGED <<ui, dialog, first, activityPaused, sessions, loads, initPc, cyclePc, renderPc,
                 flags, pauseGap, emu, javaEnv, mutex>>

\* the emulator's state has been read or written, and it is resumed
SaveOrLoadDone ==
  /\ UiGoto("state", "idle")
  /\ ui' = "shown"
  /\ execute' = TRUE
  /\ paused' = FALSE /\ pauseGap' = "none"
  /\ UNCHANGED <<dialog, first, activityPaused, sessions, loads, romloaded, doterminate,
                 isFinishedInit, others>>

\* onPause
OnPause ==
  /\ IF activityPaused THEN UNCHANGED <<execute, paused, pauseGap, uiPc>> ELSE Pause
  /\ activityPaused' = TRUE
  /\ UNCHANGED <<dialog, romloaded, isFinishedInit, sessions, loads, others>>

Background ==
  /\ ui \in {"shown", "menu"} /\ uiPc = "idle"
  /\ ui' = "hidden"
  /\ OnPause
  /\ UNCHANGED <<first, doterminate>>

\* onResume
Foreground ==
  /\ ui = "hidden" /\ uiPc = "idle"
  /\ ui' = "shown"
  /\ IF activityPaused THEN UnPause ELSE UNCHANGED <<execute, paused, pauseGap, uiPc>>
  /\ activityPaused' = FALSE
  /\ UNCHANGED <<dialog, first, sessions, loads, romloaded, doterminate, isFinishedInit, others>>

\* the system destroys a hidden activity; its process, and the emulator, stay
Destroy ==
  /\ ui = "hidden" /\ uiPc = "idle"
  /\ ui' = "none"
  /\ UNCHANGED <<uiPc, dialog, first, activityPaused, sessions, loads, flags, pauseGap, others>>

\* onBackPressed, with deInitNDS; the activity then goes through onPause
Back ==
  /\ ui = "shown" /\ uiPc = "idle" /\ ~dialog
  /\ ui' = "leaving"
  /\ doterminate' = TRUE
  /\ first' = TRUE
  /\ UNCHANGED <<uiPc, dialog, activityPaused, sessions, loads, execute, paused, romloaded,
                 isFinishedInit, pauseGap, others>>

Leave ==
  /\ ui = "leaving" /\ uiPc = "idle"
  /\ ui' = "none"
  /\ OnPause
  /\ UNCHANGED <<first, doterminate>>

\* what the UI thread does inside a native call
UiCall == SpuPause \/ UiReset \/ SaveOrLoadDone

UiThread ==
  \/ Open \/ DialogDone \/ OpenMenu \/ CloseMenu \/ SaveState \/ LoadState \/ UiCall
  \/ Background \/ Foreground \/ Destroy \/ Back \/ Leave

Next ==
  \/ UiThread \/ InitThread \/ CycleThread
  \/ RenderLock \/ RenderUnlock
  \/ \E k \in SndThread : SndStep(k)

Spec == Init /\ [][Next]_vars

\* Every native thread is scheduled, and so is a native call of the UI thread; the end of
\* the AsyncTask, queued to the UI thread, gets its turn between the calls; the emulation
\* thread, which the GL thread cannot overtake for ever, gets the mutex.  What the user
\* does is not owed.
Fairness ==
  /\ WF_vars(InitThread)
  /\ WF_vars(CycleThread)
  /\ SF_vars(CycleLock)
  /\ WF_vars(RenderUnlock)
  /\ SF_vars(DialogDone)
  /\ WF_vars(UiCall)
  /\ \A k \in SndThread : WF_vars(SndStep(k))

FairSpec == Spec /\ Fairness

--------------------------------------------------------------------------------
(* Properties *)

TypeOK ==
  /\ ui \in {"none", "shown", "menu", "saving", "hidden", "leaving"}
  /\ uiPc \in {"idle", "mute", "call", "stop", "wait", "drop", "resound", "reopen", "reuser",
              "state"}
  /\ {dialog, first, activityPaused} \subseteq BOOLEAN
  /\ initPc \in {"attach", "ndsinit", "sound", "open", "user", "load", "stop", "wait", "drop",
                 "resound", "reopen", "reuser", "run", "go", "create", "done"}
  /\ cyclePc \in {"attach", "mutex", "top", "lock", "exec", "stop", "wait", "drop",
                  "deinit", "end", "done"}
  /\ renderPc \in {"idle", "copy"}
  /\ sndPc \in [SndThread -> {"none", "loop", "mix", "play", "exit", "done"}]
  /\ {execute, paused, romloaded, doterminate, isFinishedInit} \subseteq BOOLEAN
  /\ {sndStop, sndTerminated, SPU_core, SPU_user, audioTrack} \subseteq BOOLEAN
  /\ {emu, initWhileHeld} \subseteq BOOLEAN
  /\ SNDCore \in {"null", "dummy", "sdl"}
  /\ javaEnv \in {"none", "init", "cycle"}
  /\ DsExec \in {"free", "held"}
  /\ pauseGap \in {"none", "frame", "flag"}
  /\ sessions \in 0 .. Sessions /\ loads \in 0 .. Loads

\* SPU_DeInit, which three threads call, deletes SPU_user and releases the AudioTrack
\* that the sound thread plays from, under no lock; the two volatile flags keep a
\* playing thread safe.
SoundSafe ==
  \A k \in SndThread :
    sndPc[k] = "play" => SPU_user /\ audioTrack /\ SNDCore = "sdl"

\* doterminate and terminated are one pair for all sound threads; a session starts two
\* and every load of a state another: no two of them ever run, else one flag would stop
\* the wrong one.
OneSoundThread ==
  Cardinality({k \in SndThread : sndPc[k] \in {"loop", "mix", "play", "exit"}}) <= 1

\* No two threads are in SPU_DeInit or SPU_ReInit at once: the reset of a load, on the
\* UI thread, never meets that of the loader or the end of MainCycle.
OneSoundReset ==
  LET resets == {"stop", "wait", "drop", "resound", "reopen", "reuser"}
  IN /\ uiPc \in resets => initPc = "done" /\ cyclePc \notin resets \cup {"deinit", "end", "done"}
     /\ initPc \in resets => cyclePc = "done"

\* A JNIEnv is valid only on its own thread.  The loader and MainCycle call the sound
\* interface with the one they attached.  The UI thread calls it with the same global,
\* so never with its own; the most that holds is that the thread it belongs to is
\* still attached, unless the session is being left, or MainCycle, already announced by
\* isFinishedInit, has not attached yet.
EnvAttached ==
  \/ javaEnv = "init" /\ initPc \notin {"attach", "done"}
  \/ javaEnv = "cycle" /\ cyclePc \notin {"attach", "done"}
OwnJavaEnv ==
  /\ initPc \in {"open", "wait", "reopen"} => javaEnv = "init"
  /\ cyclePc = "wait" => javaEnv = "cycle"
  /\ uiPc \in {"call", "wait", "reopen"} =>
       EnvAttached \/ first \/ cyclePc = "attach"

\* The UI thread mutes and unmutes an AudioTrack that is there, and so does the reset of
\* a load; only while the session loads may the core be chosen and the track not made
\* yet, and only then or while the session is left may another thread have released it
\* since SPU_Pause looked at SNDCore.
UiSoundSafe ==
  uiPc \in {"call", "wait"} => audioTrack \/ dialog \/ first

\* The screen is not copied in the middle of a frame, unless the GL thread held
\* DsExec when MainCycle initialised it: that is the only way to lose exclusion.
FrameExclusion ==
  initWhileHeld \/ ~(cyclePc = "exec" /\ renderPc = "copy")

\* NDS_Pause does not wait for the frame in progress, and does nothing when `paused' is
\* left over from before the loader set `execute'.  These are the only ways in which a
\* state is saved or loaded, and the emulator reset, in the middle of a frame.
StateExclusion ==
  ui = "saving" /\ cyclePc = "exec" => pauseGap # "none"

\* The emulator that runs a frame, or that a savestate reads, exists: its life is ended
\* by one thread, used by two and made by a fourth.  A frame finds its SPU_core too,
\* outside of the resets above.
EmulatorAlive ==
  /\ cyclePc = "exec" \/ ui = "saving" => emu
  /\ cyclePc = "exec" => SPU_core \/ pauseGap # "none"

\* After the back key everything the session started ends, whatever the
\* interleaving: no thread waits for a flag nobody will set.
ShutdownCompletes ==
  ui = "leaving" ~>
    /\ cyclePc = "done" /\ ~emu
    /\ \A k \in SndThread : sndPc[k] \in {"none", "done"}

\* The loading dialog goes away, also when the ROM cannot be loaded and when the
\* activity is created anew on a running emulator; and the UI thread, which waits for
\* the sound thread when it loads a state, comes back.
LoadingEnds ==
  /\ dialog ~> ~dialog
  /\ uiPc # "idle" ~> uiPc = "idle"

\* A session is safe: nobody uses the sound core, the JNIEnv or the emulator outside of
\* its life, but for the gaps that are named, and no frame is drawn while its screen is
\* copied (main.cpp, sndsdl.cpp).
SessionSafe ==
  /\ TypeOK /\ SoundSafe /\ OneSoundThread /\ OneSoundReset /\ OwnJavaEnv /\ UiSoundSafe
  /\ FrameExclusion /\ StateExclusion /\ EmulatorAlive
================================================================================
