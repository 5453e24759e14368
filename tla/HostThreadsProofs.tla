--------------------------- MODULE HostThreadsProofs ---------------------------
(***************************************************************************)
(* Proofs about HostThreads for every number of sessions: its types, that  *)
(* sound threads are started one after the other and never two at once,    *)
(* whether the loader or a load of a state resets the sound system, that a *)
(* playing thread, the JNIEnv and the emulator are used within their life   *)
(* but for the gaps that are named, and that a frame is not drawn while its *)
(* screen is copied.                                                        *)
(***************************************************************************)
EXTENDS HostThreads, FiniteSetTheorems, TLAPS

Running(k) == sndPc[k] \in {"loop", "mix", "play", "exit"}
Silent == \A k \in SndThread : ~Running(k)

\* The type invariant in three parts.
Places ==
  /\ ui \in {"none", "shown", "menu", "saving", "hidden", "leaving"}
  /\ uiPc \in {"idle", "mute", "call", "stop", "wait", "drop", "resound", "reopen", "reuser",
              "state"}
  /\ initPc \in {"attach", "ndsinit", "sound", "open", "user", "load", "stop", "wait", "drop",
                 "resound", "reopen", "reuser", "run", "go", "create", "done"}
  /\ cyclePc \in {"attach", "mutex", "top", "lock", "exec", "stop", "wait", "drop",
                  "deinit", "end", "done"}
  /\ renderPc \in {"idle", "copy"}
  /\ sndPc \in [SndThread -> {"none", "loop", "mix", "play", "exit", "done"}]
Handles ==
  /\ SNDCore \in {"null", "dummy", "sdl"}
  /\ javaEnv \in {"none", "init", "cycle"}
  /\ DsExec \in {"free", "held"}
  /\ pauseGap \in {"none", "frame", "flag"}
  /\ SPU_core \in BOOLEAN /\ SPU_user \in BOOLEAN /\ audioTrack \in BOOLEAN
  /\ emu \in BOOLEAN /\ initWhileHeld \in BOOLEAN
Flags ==
  /\ dialog \in BOOLEAN /\ first \in BOOLEAN /\ activityPaused \in BOOLEAN
  /\ execute \in BOOLEAN /\ paused \in BOOLEAN /\ romloaded \in BOOLEAN
  /\ doterminate \in BOOLEAN /\ isFinishedInit \in BOOLEAN
  /\ sndStop \in BOOLEAN /\ sndTerminated \in BOOLEAN
Counts == sessions \in 0 .. Sessions /\ loads \in 0 .. Loads
Types == Places /\ Handles /\ Flags /\ Counts

\* The emulation thread between its start and the back key.
Up == {"attach", "mutex", "top", "lock", "exec"}

\* The loader and the emulation thread take turns, and isFinishedInit says whose it
\* is; the dialog stands for as long as the loader works.
TurnsTaken ==
  /\ initPc # "done" => cyclePc = "done" /\ ~first /\ dialog
  /\ isFinishedInit <=> (initPc = "done" /\ cyclePc # "done")

\* Until the back key, nothing ends the emulation thread of a session.
StaysUp ==
  /\ ui \in {"shown", "menu", "saving", "hidden"} => ~first
  /\ ui = "leaving" => first
  /\ ui \in {"menu", "saving"} => ~dialog
  /\ initPc = "create" => ~doterminate
  /\ initPc = "done" /\ ~first => ~doterminate /\ cyclePc \in Up

\* The UI thread is in savestate code while the menu is "saving".
CallsPlaced == (ui = "saving") <=> (uiPc \notin {"idle", "mute", "call"})

\* What a pause leaves running, and that the menu is open under a pause only.
PausesHold ==
  /\ ui \in {"menu", "saving"} => paused
  /\ paused /\ execute => pauseGap = "flag"
  /\ cyclePc \in {"lock", "exec"} => execute \/ pauseGap = "frame"

\* The emulator exists from NDS_Init to NDS_DeInit, its SPU_core but for the resets.
EmulatorsLife ==
  /\ initPc \notin {"attach", "ndsinit", "done"} => emu
  /\ cyclePc \notin {"end", "done"} => emu
  /\ initPc \notin {"attach", "ndsinit", "resound", "done"} => SPU_core
  /\ cyclePc \in Up /\ uiPc # "resound" => SPU_core

\* The JNIEnv is the loader's, then the emulation thread's; SPU_Pause finds no core to
\* call between two sessions.
EnvsLife ==
  /\ initPc \notin {"attach", "done"} => javaEnv = "init"
  /\ cyclePc \notin {"attach", "done"} => javaEnv = "cycle"
  /\ initPc = "attach" => uiPc # "call"
  /\ initPc \in {"attach", "done"} /\ cyclePc \in {"deinit", "end", "done"} => SNDCore = "null"

\* The AudioTrack exists from SNDSDLInit to SNDSDLDeInit, and the core is chosen first.
TracksLife ==
  /\ initPc \in {"user", "load", "stop", "wait", "reuser", "run", "go", "create"} => audioTrack
  /\ cyclePc \in Up /\ uiPc \notin {"drop", "resound", "reopen"} => audioTrack
  /\ initPc \in {"open", "reopen"} \/ uiPc = "reopen" => SNDCore = "sdl"

\* Sound threads are numbered in the order in which they start, at most two to a
\* session and one to a load: n of them have been started, and there is room for
\* those that are still to come.
LoaderOwes ==
  CASE initPc \in {"attach", "ndsinit", "sound", "open"} -> 2
    [] initPc \in {"user", "load", "stop", "wait", "drop", "resound", "reopen"} -> 1
    [] OTHER -> 0
UiOwes == IF uiPc \in {"stop", "wait", "drop", "resound", "reopen"} THEN 1 ELSE 0
Room == 2 * sessions + loads - LoaderOwes - UiOwes
Numbered(n) ==
  /\ n <= Room
  /\ \A k \in SndThread : sndPc[k] # "none" <=> k <= n
ThreadsNumbered == \E n \in Nat : Numbered(n)

\* At most one sound thread runs; none does once one has said that it is through,
\* nor between the stop of one and the start of the next, nor between sessions.
OneRuns == \A j, k \in SndThread : Running(j) /\ Running(k) => j = k
QuietTimes ==
  \/ sndTerminated
  \/ initPc \in {"attach", "ndsinit", "sound", "open", "drop", "resound", "reopen"}
  \/ uiPc \in {"drop", "resound", "reopen"}
  \/ cyclePc \in {"drop", "deinit", "end"}
  \/ initPc = "done" /\ cyclePc = "done"
QuietIsSilent == QuietTimes => Silent

\* What a sound thread works with outlives it.
SoundsLife ==
  \A k \in SndThread :
    /\ Running(k) => SNDCore = "sdl" /\ audioTrack
    /\ sndPc[k] = "play" => SPU_user

\* The mutex is held by who is inside, once it was initialised free.
MutexHeld ==
  \/ initWhileHeld
  \/ /\ cyclePc = "exec" \/ renderPc = "copy" => DsExec = "held"
     /\ ~(cyclePc = "exec" /\ renderPc = "copy")

Lives == EmulatorsLife /\ EnvsLife /\ TracksLife /\ MutexHeld
Control == Types /\ TurnsTaken /\ StaysUp /\ CallsPlaced /\ PausesHold /\ Lives
Sound == ThreadsNumbered /\ OneRuns /\ QuietIsSilent /\ SoundsLife
Inv == Control /\ Sound

USE SessionsAssumption DEF SndThread, Up

--------------------------------------------------------------------------------
(* Who works when *)

\* Nothing has been started yet.
LEMMA InitInv == Init => Inv
<1> SUFFICES ASSUME Init PROVE Inv OBVIOUS
<1>0. Types
  <2>1. sndPc \in [SndThread -> {"none", "loop", "mix", "play", "exit", "done"}]
    BY DEF Init
  <2>2. Places BY <2>1, Zenon DEF Init, Places
  <2>3. Handles /\ Flags BY DEF Init, Handles, Flags
  <2>4. Counts BY DEF Init, Counts
  <2> QED BY <2>2, <2>3, <2>4 DEF Types
<1>1. TurnsTaken /\ StaysUp /\ CallsPlaced /\ PausesHold
  BY DEF Init, TurnsTaken, StaysUp, CallsPlaced, PausesHold
<1>2. EmulatorsLife /\ EnvsLife /\ TracksLife /\ MutexHeld
  BY DEF Init, EmulatorsLife, EnvsLife, TracksLife, MutexHeld
<1>3. Numbered(0) BY DEF Init, Numbered, Room, LoaderOwes, UiOwes
<1>4. ThreadsNumbered BY <1>3 DEF ThreadsNumbered
<1>5. OneRuns /\ QuietIsSilent /\ SoundsLife
  BY DEF Init, OneRuns, QuietIsSilent, Silent, Running, SoundsLife
<1> QED BY <1>0, <1>1, <1>2, <1>4, <1>5 DEF Inv, Control, Lives, Sound

\* A step of the loader keeps the turns, the lives and the mutex as they should be.
LEMMA LoaderControl == ASSUME Inv, InitThread PROVE Control'
<1> USE DEF Inv, Control, Types, Places, Handles, Flags, Counts, Lives, uiVars, flags, sound, mutex, InitGoto
<1>1. CASE InitAttach
  <2>1. Types'
    <3>1. Places' BY <1>1 DEF InitAttach
    <3>2. Handles' BY <1>1 DEF InitAttach
    <3>3. Flags' BY <1>1 DEF InitAttach
    <3>4. Counts' BY <1>1 DEF InitAttach
    <3> QED BY <3>1, <3>2, <3>3, <3>4
  <2>2. (TurnsTaken /\ StaysUp)' BY <1>1 DEF InitAttach, TurnsTaken, StaysUp, CallsPlaced
  <2>3. (CallsPlaced /\ PausesHold)' BY <1>1 DEF InitAttach, TurnsTaken, StaysUp, CallsPlaced, PausesHold
  <2>4. (EmulatorsLife /\ EnvsLife)' BY <1>1 DEF InitAttach, TurnsTaken, StaysUp, CallsPlaced, EmulatorsLife, EnvsLife
  <2>5. (TracksLife /\ MutexHeld)' BY <1>1 DEF InitAttach, TurnsTaken, StaysUp, CallsPlaced, TracksLife, MutexHeld
  <2> QED BY <2>1, <2>2, <2>3, <2>4, <2>5
<1>2. CASE NdsInit
  <2>1. Types'
    <3>1. Places' BY <1>2 DEF NdsInit
    <3>2. Handles' BY <1>2 DEF NdsInit
    <3>3. Flags' BY <1>2 DEF NdsInit
    <3>4. Counts' BY <1>2 DEF NdsInit
    <3> QED BY <3>1, <3>2, <3>3, <3>4
  <2>2. (TurnsTaken /\ StaysUp)' BY <1>2 DEF NdsInit, TurnsTaken, StaysUp, CallsPlaced
  <2>3. (CallsPlaced /\ PausesHold)' BY <1>2 DEF NdsInit, TurnsTaken, StaysUp, CallsPlaced, PausesHold
  <2>4. (EmulatorsLife /\ EnvsLife)' BY <1>2 DEF NdsInit, TurnsTaken, StaysUp, CallsPlaced, EmulatorsLife, EnvsLife
  <2>5. (TracksLife /\ MutexHeld)' BY <1>2 DEF NdsInit, TurnsTaken, StaysUp, CallsPlaced, TracksLife, MutexHeld
  <2> QED BY <2>1, <2>2, <2>3, <2>4, <2>5
<1>3. CASE InitSound
  <2>1. Types'
    <3>1. Places' BY <1>3 DEF InitSound, ChangeSoundCore, SetSynchMode, SndInit
    <3>2. Handles' BY <1>3 DEF InitSound, ChangeSoundCore, SetSynchMode, SndInit
    <3>3. Flags' BY <1>3 DEF InitSound, ChangeSoundCore, SetSynchMode, SndInit
    <3>4. Counts' BY <1>3 DEF InitSound, ChangeSoundCore, SetSynchMode, SndInit
    <3> QED BY <3>1, <3>2, <3>3, <3>4
  <2>2. (TurnsTaken /\ StaysUp)' BY <1>3 DEF InitSound, ChangeSoundCore, SetSynchMode, SndInit, TurnsTaken, StaysUp, CallsPlaced
  <2>3. (CallsPlaced /\ PausesHold)' BY <1>3 DEF InitSound, ChangeSoundCore, SetSynchMode, SndInit, TurnsTaken, StaysUp, CallsPlaced, PausesHold
  <2>4. (EmulatorsLife /\ EnvsLife)' BY <1>3 DEF InitSound, ChangeSoundCore, SetSynchMode, SndInit, TurnsTaken, StaysUp, CallsPlaced, EmulatorsLife, EnvsLife
  <2>5. (TracksLife /\ MutexHeld)' BY <1>3 DEF InitSound, ChangeSoundCore, SetSynchMode, SndInit, TurnsTaken, StaysUp, CallsPlaced, TracksLife, MutexHeld
  <2> QED BY <2>1, <2>2, <2>3, <2>4, <2>5
<1>4. CASE LoadROM
  <2>1. Types'
    <3>1. Places' BY <1>4 DEF LoadROM
    <3>2. Handles' BY <1>4 DEF LoadROM
    <3>3. Flags' BY <1>4 DEF LoadROM
    <3>4. Counts' BY <1>4 DEF LoadROM
    <3> QED BY <3>1, <3>2, <3>3, <3>4
  <2>2. (TurnsTaken /\ StaysUp)' BY <1>4 DEF LoadROM, TurnsTaken, StaysUp, CallsPlaced
  <2>3. (CallsPlaced /\ PausesHold)' BY <1>4 DEF LoadROM, TurnsTaken, StaysUp, CallsPlaced, PausesHold
  <2>4. (EmulatorsLife /\ EnvsLife)' BY <1>4 DEF LoadROM, TurnsTaken, StaysUp, CallsPlaced, EmulatorsLife, EnvsLife
  <2>5. (TracksLife /\ MutexHeld)' BY <1>4 DEF LoadROM, TurnsTaken, StaysUp, CallsPlaced, TracksLife, MutexHeld
  <2> QED BY <2>1, <2>2, <2>3, <2>4, <2>5
<1>5. CASE InitDeInitSound
  <2>1. Types'
    <3>1. Places' BY <1>5 DEF InitDeInitSound, SndStop, SndRelease, SpuDrop
    <3>2. Handles' BY <1>5 DEF InitDeInitSound, SndStop, SndRelease, SpuDrop
    <3>3. Flags' BY <1>5 DEF InitDeInitSound, SndStop, SndRelease, SpuDrop
    <3>4. Counts' BY <1>5 DEF InitDeInitSound, SndStop, SndRelease, SpuDrop
    <3> QED BY <3>1, <3>2, <3>3, <3>4
  <2>2. (TurnsTaken /\ StaysUp)' BY <1>5 DEF InitDeInitSound, SndStop, SndRelease, SpuDrop, TurnsTaken, StaysUp, CallsPlaced
  <2>3. (CallsPlaced /\ PausesHold)' BY <1>5 DEF InitDeInitSound, SndStop, SndRelease, SpuDrop, TurnsTaken, StaysUp, CallsPlaced, PausesHold
  <2>4. (EmulatorsLife /\ EnvsLife)' BY <1>5 DEF InitDeInitSound, SndStop, SndRelease, SpuDrop, TurnsTaken, StaysUp, CallsPlaced, EmulatorsLife, EnvsLife
  <2>5. (TracksLife /\ MutexHeld)' BY <1>5 DEF InitDeInitSound, SndStop, SndRelease, SpuDrop, TurnsTaken, StaysUp, CallsPlaced, TracksLife, MutexHeld
  <2> QED BY <2>1, <2>2, <2>3, <2>4, <2>5
<1>6. CASE SetExecute
  <2>1. Types'
    <3>1. Places' BY <1>6 DEF SetExecute
    <3>2. Handles' BY <1>6 DEF SetExecute
    <3>3. Flags' BY <1>6 DEF SetExecute
    <3>4. Counts' BY <1>6 DEF SetExecute
    <3> QED BY <3>1, <3>2, <3>3, <3>4
  <2>2. (TurnsTaken /\ StaysUp)' BY <1>6 DEF SetExecute, TurnsTaken, StaysUp, CallsPlaced
  <2>3. (CallsPlaced /\ PausesHold)' BY <1>6 DEF SetExecute, TurnsTaken, StaysUp, CallsPlaced, PausesHold
  <2>4. (EmulatorsLife /\ EnvsLife)' BY <1>6 DEF SetExecute, TurnsTaken, StaysUp, CallsPlaced, EmulatorsLife, EnvsLife
  <2>5. (TracksLife /\ MutexHeld)' BY <1>6 DEF SetExecute, TurnsTaken, StaysUp, CallsPlaced, TracksLife, MutexHeld
  <2> QED BY <2>1, <2>2, <2>3, <2>4, <2>5
<1>7. CASE SetRunning
  <2>1. Types'
    <3>1. Places' BY <1>7 DEF SetRunning
    <3>2. Handles' BY <1>7 DEF SetRunning
    <3>3. Flags' BY <1>7 DEF SetRunning
    <3>4. Counts' BY <1>7 DEF SetRunning
    <3> QED BY <3>1, <3>2, <3>3, <3>4
  <2>2. (TurnsTaken /\ StaysUp)' BY <1>7 DEF SetRunning, TurnsTaken, StaysUp, CallsPlaced
  <2>3. (CallsPlaced /\ PausesHold)' BY <1>7 DEF SetRunning, TurnsTaken, StaysUp, CallsPlaced, PausesHold
  <2>4. (EmulatorsLife /\ EnvsLife)' BY <1>7 DEF SetRunning, TurnsTaken, StaysUp, CallsPlaced, EmulatorsLife, EnvsLife
  <2>5. (TracksLife /\ MutexHeld)' BY <1>7 DEF SetRunning, TurnsTaken, StaysUp, CallsPlaced, TracksLife, MutexHeld
  <2> QED BY <2>1, <2>2, <2>3, <2>4, <2>5
<1>8. CASE CreateMainThread
  <2>1. Types'
    <3>1. Places' BY <1>8 DEF CreateMainThread
    <3>2. Handles' BY <1>8 DEF CreateMainThread
    <3>3. Flags' BY <1>8 DEF CreateMainThread
    <3>4. Counts' BY <1>8 DEF CreateMainThread
    <3> QED BY <3>1, <3>2, <3>3, <3>4
  <2>2. (TurnsTaken /\ StaysUp)' BY <1>8 DEF CreateMainThread, TurnsTaken, StaysUp, CallsPlaced
  <2>3. (CallsPlaced /\ PausesHold)' BY <1>8 DEF CreateMainThread, TurnsTaken, StaysUp, CallsPlaced, PausesHold
  <2>4. (EmulatorsLife /\ EnvsLife)' BY <1>8 DEF CreateMainThread, TurnsTaken, StaysUp, CallsPlaced, EmulatorsLife, EnvsLife
  <2>5. (TracksLife /\ MutexHeld)' BY <1>8 DEF CreateMainThread, TurnsTaken, StaysUp, CallsPlaced, TracksLife, MutexHeld
  <2> QED BY <2>1, <2>2, <2>3, <2>4, <2>5
<1> QED BY <1>1, <1>2, <1>3, <1>4, <1>5, <1>6, <1>7, <1>8 DEF InitThread

\* So does a step of the emulation thread.
LEMMA CycleControl == ASSUME Inv, CycleThread PROVE Control'
<1> USE DEF Inv, Control, Types, Places, Handles, Flags, Counts, Lives, uiVars, flags, sound, mutex, CycleGoto
<1>1. CASE CycleAttach
  <2>1. Types'
    <3>1. Places' BY <1>1 DEF CycleAttach
    <3>2. Handles' BY <1>1 DEF CycleAttach
    <3>3. Flags' BY <1>1 DEF CycleAttach
    <3>4. Counts' BY <1>1 DEF CycleAttach
    <3> QED BY <3>1, <3>2, <3>3, <3>4
  <2>2. (TurnsTaken /\ StaysUp)' BY <1>1 DEF CycleAttach, TurnsTaken, StaysUp, CallsPlaced
  <2>3. (CallsPlaced /\ PausesHold)' BY <1>1 DEF CycleAttach, TurnsTaken, StaysUp, CallsPlaced, PausesHold
  <2>4. (EmulatorsLife /\ EnvsLife)' BY <1>1 DEF CycleAttach, TurnsTaken, StaysUp, CallsPlaced, EmulatorsLife, EnvsLife
  <2>5. (TracksLife /\ MutexHeld)' BY <1>1 DEF CycleAttach, TurnsTaken, StaysUp, CallsPlaced, TracksLife, MutexHeld
  <2> QED BY <2>1, <2>2, <2>3, <2>4, <2>5
<1>2. CASE CycleMutexInit
  <2>1. Types'
    <3>1. Places' BY <1>2 DEF CycleMutexInit
    <3>2. Handles' BY <1>2 DEF CycleMutexInit
    <3>3. Flags' BY <1>2 DEF CycleMutexInit
    <3>4. Counts' BY <1>2 DEF CycleMutexInit
    <3> QED BY <3>1, <3>2, <3>3, <3>4
  <2>2. (TurnsTaken /\ StaysUp)' BY <1>2 DEF CycleMutexInit, TurnsTaken, StaysUp, CallsPlaced
  <2>3. (CallsPlaced /\ PausesHold)' BY <1>2 DEF CycleMutexInit, TurnsTaken, StaysUp, CallsPlaced, PausesHold
  <2>4. (EmulatorsLife /\ EnvsLife)' BY <1>2 DEF CycleMutexInit, TurnsTaken, StaysUp, CallsPlaced, EmulatorsLife, EnvsLife
  <2>5. (TracksLife /\ MutexHeld)' BY <1>2 DEF CycleMutexInit, TurnsTaken, StaysUp, CallsPlaced, TracksLife, MutexHeld
  <2> QED BY <2>1, <2>2, <2>3, <2>4, <2>5
<1>3. CASE CycleTop
  <2>1. Types'
    <3>1. Places' BY <1>3 DEF CycleTop
    <3>2. Handles' BY <1>3 DEF CycleTop
    <3>3. Flags' BY <1>3 DEF CycleTop
    <3>4. Counts' BY <1>3 DEF CycleTop
    <3> QED BY <3>1, <3>2, <3>3, <3>4
  <2>2. (TurnsTaken /\ StaysUp)' BY <1>3 DEF CycleTop, TurnsTaken, StaysUp, CallsPlaced
  <2>3. (CallsPlaced /\ PausesHold)' BY <1>3 DEF CycleTop, TurnsTaken, StaysUp, CallsPlaced, PausesHold
  <2>4. (EmulatorsLife /\ EnvsLife)' BY <1>3 DEF CycleTop, TurnsTaken, StaysUp, CallsPlaced, EmulatorsLife, EnvsLife
  <2>5. (TracksLife /\ MutexHeld)' BY <1>3 DEF CycleTop, TurnsTaken, StaysUp, CallsPlaced, TracksLife, MutexHeld
  <2> QED BY <2>1, <2>2, <2>3, <2>4, <2>5
<1>4. CASE CycleLock
  <2>1. Types'
    <3>1. Places' BY <1>4 DEF CycleLock
    <3>2. Handles' BY <1>4 DEF CycleLock
    <3>3. Flags' BY <1>4 DEF CycleLock
    <3>4. Counts' BY <1>4 DEF CycleLock
    <3> QED BY <3>1, <3>2, <3>3, <3>4
  <2>2. (TurnsTaken /\ StaysUp)' BY <1>4 DEF CycleLock, TurnsTaken, StaysUp, CallsPlaced
  <2>3. (CallsPlaced /\ PausesHold)' BY <1>4 DEF CycleLock, TurnsTaken, StaysUp, CallsPlaced, PausesHold
  <2>4. (EmulatorsLife /\ EnvsLife)' BY <1>4 DEF CycleLock, TurnsTaken, StaysUp, CallsPlaced, EmulatorsLife, EnvsLife
  <2>5. (TracksLife /\ MutexHeld)' BY <1>4 DEF CycleLock, TurnsTaken, StaysUp, CallsPlaced, TracksLife, MutexHeld
  <2> QED BY <2>1, <2>2, <2>3, <2>4, <2>5
<1>5. CASE CycleUnlock
  <2>1. Types'
    <3>1. Places' BY <1>5 DEF CycleUnlock
    <3>2. Handles' BY <1>5 DEF CycleUnlock
    <3>3. Flags' BY <1>5 DEF CycleUnlock
    <3>4. Counts' BY <1>5 DEF CycleUnlock
    <3> QED BY <3>1, <3>2, <3>3, <3>4
  <2>2. (TurnsTaken /\ StaysUp)' BY <1>5 DEF CycleUnlock, TurnsTaken, StaysUp, CallsPlaced
  <2>3. (CallsPlaced /\ PausesHold)' BY <1>5 DEF CycleUnlock, TurnsTaken, StaysUp, CallsPlaced, PausesHold
  <2>4. (EmulatorsLife /\ EnvsLife)' BY <1>5 DEF CycleUnlock, TurnsTaken, StaysUp, CallsPlaced, EmulatorsLife, EnvsLife
  <2>5. (TracksLife /\ MutexHeld)' BY <1>5 DEF CycleUnlock, TurnsTaken, StaysUp, CallsPlaced, TracksLife, MutexHeld
  <2> QED BY <2>1, <2>2, <2>3, <2>4, <2>5
<1>6. CASE CycleDeInit
  <2>1. Types'
    <3>1. Places' BY <1>6 DEF CycleDeInit, SndStop, SndRelease, SpuDrop
    <3>2. Handles' BY <1>6 DEF CycleDeInit, SndStop, SndRelease, SpuDrop
    <3>3. Flags' BY <1>6 DEF CycleDeInit, SndStop, SndRelease, SpuDrop
    <3>4. Counts' BY <1>6 DEF CycleDeInit, SndStop, SndRelease, SpuDrop
    <3> QED BY <3>1, <3>2, <3>3, <3>4
  <2>2. (TurnsTaken /\ StaysUp)' BY <1>6 DEF CycleDeInit, SndStop, SndRelease, SpuDrop, TurnsTaken, StaysUp, CallsPlaced
  <2>3. (CallsPlaced /\ PausesHold)' BY <1>6 DEF CycleDeInit, SndStop, SndRelease, SpuDrop, TurnsTaken, StaysUp, CallsPlaced, PausesHold
  <2>4. (EmulatorsLife /\ EnvsLife)' BY <1>6 DEF CycleDeInit, SndStop, SndRelease, SpuDrop, TurnsTaken, StaysUp, CallsPlaced, EmulatorsLife, EnvsLife
  <2>5. (TracksLife /\ MutexHeld)' BY <1>6 DEF CycleDeInit, SndStop, SndRelease, SpuDrop, TurnsTaken, StaysUp, CallsPlaced, TracksLife, MutexHeld
  <2> QED BY <2>1, <2>2, <2>3, <2>4, <2>5
<1>7. CASE CycleEnd
  <2>1. Types'
    <3>1. Places' BY <1>7 DEF CycleEnd
    <3>2. Handles' BY <1>7 DEF CycleEnd
    <3>3. Flags' BY <1>7 DEF CycleEnd
    <3>4. Counts' BY <1>7 DEF CycleEnd
    <3> QED BY <3>1, <3>2, <3>3, <3>4
  <2>2. (TurnsTaken /\ StaysUp)' BY <1>7 DEF CycleEnd, TurnsTaken, StaysUp, CallsPlaced
  <2>3. (CallsPlaced /\ PausesHold)' BY <1>7 DEF CycleEnd, TurnsTaken, StaysUp, CallsPlaced, PausesHold
  <2>4. (EmulatorsLife /\ EnvsLife)' BY <1>7 DEF CycleEnd, TurnsTaken, StaysUp, CallsPlaced, EmulatorsLife, EnvsLife
  <2>5. (TracksLife /\ MutexHeld)' BY <1>7 DEF CycleEnd, TurnsTaken, StaysUp, CallsPlaced, TracksLife, MutexHeld
  <2> QED BY <2>1, <2>2, <2>3, <2>4, <2>5
<1> QED BY <1>1, <1>2, <1>3, <1>4, <1>5, <1>6, <1>7 DEF CycleThread

\* So does a step of a sound thread, or of the GL thread.
LEMMA ServantControl ==
  ASSUME Inv, RenderLock \/ RenderUnlock \/ \E k \in SndThread : SndStep(k)
  PROVE  Control'
<1> USE DEF Inv, Control, Types, Places, Handles, Flags, Counts, Lives, uiVars, flags, sound, mutex, SndGoto
<1>1. CASE RenderLock
  <2>1. Types'
    <3>1. Places' BY <1>1 DEF RenderLock
    <3>2. Handles' BY <1>1 DEF RenderLock
    <3>3. Flags' BY <1>1 DEF RenderLock
    <3>4. Counts' BY <1>1 DEF RenderLock
    <3> QED BY <3>1, <3>2, <3>3, <3>4
  <2>2. (TurnsTaken /\ StaysUp)' BY <1>1 DEF RenderLock, TurnsTaken, StaysUp, CallsPlaced
  <2>3. (CallsPlaced /\ PausesHold)' BY <1>1 DEF RenderLock, TurnsTaken, StaysUp, CallsPlaced, PausesHold
  <2>4. (EmulatorsLife /\ EnvsLife)' BY <1>1 DEF RenderLock, TurnsTaken, StaysUp, CallsPlaced, EmulatorsLife, EnvsLife
  <2>5. (TracksLife /\ MutexHeld)' BY <1>1 DEF RenderLock, TurnsTaken, StaysUp, CallsPlaced, TracksLife, MutexHeld
  <2> QED BY <2>1, <2>2, <2>3, <2>4, <2>5
<1>2. CASE RenderUnlock
  <2>1. Types'
    <3>1. Places' BY <1>2 DEF RenderUnlock
    <3>2. Handles' BY <1>2 DEF RenderUnlock
    <3>3. Flags' BY <1>2 DEF RenderUnlock
    <3>4. Counts' BY <1>2 DEF RenderUnlock
    <3> QED BY <3>1, <3>2, <3>3, <3>4
  <2>2. (TurnsTaken /\ StaysUp)' BY <1>2 DEF RenderUnlock, TurnsTaken, StaysUp, CallsPlaced
  <2>3. (CallsPlaced /\ PausesHold)' BY <1>2 DEF RenderUnlock, TurnsTaken, StaysUp, CallsPlaced, PausesHold
  <2>4. (EmulatorsLife /\ EnvsLife)' BY <1>2 DEF RenderUnlock, TurnsTaken, StaysUp, CallsPlaced, EmulatorsLife, EnvsLife
  <2>5. (TracksLife /\ MutexHeld)' BY <1>2 DEF RenderUnlock, TurnsTaken, StaysUp, CallsPlaced, TracksLife, MutexHeld
  <2> QED BY <2>1, <2>2, <2>3, <2>4, <2>5
<1>3. ASSUME NEW k \in SndThread, SndStep(k) PROVE Control'
  <2> USE DEF TurnsTaken, StaysUp, CallsPlaced, PausesHold, EmulatorsLife, EnvsLife, TracksLife, MutexHeld
  <2>1. CASE SndTop(k) BY <1>3, <2>1 DEF SndStep, SndTop
  <2>2. CASE SndMix(k) BY <1>3, <2>2 DEF SndStep, SndMix
  <2>3. CASE SndExit(k) BY <1>3, <2>3 DEF SndStep, SndExit
  <2> QED BY <1>3, <2>1, <2>2, <2>3 DEF SndStep
<1> QED BY <1>1, <1>2, <1>3

\* So does a step of the UI thread.
LEMMA UiControl == ASSUME Inv, UiThread PROVE Control'
<1> USE DEF Inv, Control, Types, Places, Handles, Flags, Counts, Lives, uiVars, flags, sound, mutex, others, UiGoto
<1>1. CASE Open
  <2>1. Types'
    <3>1. Places' BY <1>1 DEF Open
    <3>2. Handles' BY <1>1 DEF Open
    <3>3. Flags' BY <1>1 DEF Open
    <3>4. Counts' BY <1>1 DEF Open
    <3> QED BY <3>1, <3>2, <3>3, <3>4
  <2>2. (TurnsTaken /\ StaysUp)' BY <1>1 DEF Open, TurnsTaken, StaysUp, CallsPlaced
  <2>3. (CallsPlaced /\ PausesHold)' BY <1>1 DEF Open, TurnsTaken, StaysUp, CallsPlaced, PausesHold
  <2>4. (EmulatorsLife /\ EnvsLife)' BY <1>1 DEF Open, TurnsTaken, StaysUp, CallsPlaced, EmulatorsLife, EnvsLife
  <2>5. (TracksLife /\ MutexHeld)' BY <1>1 DEF Open, TurnsTaken, StaysUp, CallsPlaced, TracksLife, MutexHeld
  <2> QED BY <2>1, <2>2, <2>3, <2>4, <2>5
<1>2. CASE DialogDone
  <2>1. Types'
    <3>1. Places' BY <1>2 DEF DialogDone
    <3>2. Handles' BY <1>2 DEF DialogDone
    <3>3. Flags' BY <1>2 DEF DialogDone
    <3>4. Counts' BY <1>2 DEF DialogDone
    <3> QED BY <3>1, <3>2, <3>3, <3>4
  <2>2. (TurnsTaken /\ StaysUp)' BY <1>2 DEF DialogDone, TurnsTaken, StaysUp, CallsPlaced
  <2>3. (CallsPlaced /\ PausesHold)' BY <1>2 DEF DialogDone, TurnsTaken, StaysUp, CallsPlaced, PausesHold
  <2>4. (EmulatorsLife /\ EnvsLife)' BY <1>2 DEF DialogDone, TurnsTaken, StaysUp, CallsPlaced, EmulatorsLife, EnvsLife
  <2>5. (TracksLife /\ MutexHeld)' BY <1>2 DEF DialogDone, TurnsTaken, StaysUp, CallsPlaced, TracksLife, MutexHeld
  <2> QED BY <2>1, <2>2, <2>3, <2>4, <2>5
<1>3. CASE OpenMenu
  <2>1. Types'
    <3>1. Places' BY <1>3 DEF OpenMenu, Pause
    <3>2. Handles' BY <1>3 DEF OpenMenu, Pause
    <3>3. Flags' BY <1>3 DEF OpenMenu, Pause
    <3>4. Counts' BY <1>3 DEF OpenMenu, Pause
    <3> QED BY <3>1, <3>2, <3>3, <3>4
  <2>2. (TurnsTaken /\ StaysUp)' BY <1>3 DEF OpenMenu, Pause, TurnsTaken, StaysUp, CallsPlaced
  <2>3. (CallsPlaced /\ PausesHold)' BY <1>3 DEF OpenMenu, Pause, TurnsTaken, StaysUp, CallsPlaced, PausesHold
  <2>4. (EmulatorsLife /\ EnvsLife)' BY <1>3 DEF OpenMenu, Pause, TurnsTaken, StaysUp, CallsPlaced, EmulatorsLife, EnvsLife
  <2>5. (TracksLife /\ MutexHeld)' BY <1>3 DEF OpenMenu, Pause, TurnsTaken, StaysUp, CallsPlaced, TracksLife, MutexHeld
  <2> QED BY <2>1, <2>2, <2>3, <2>4, <2>5
<1>4. CASE CloseMenu
  <2>1. Types'
    <3>1. Places' BY <1>4 DEF CloseMenu
    <3>2. Handles' BY <1>4 DEF CloseMenu
    <3>3. Flags' BY <1>4 DEF CloseMenu
    <3>4. Counts' BY <1>4 DEF CloseMenu
    <3> QED BY <3>1, <3>2, <3>3, <3>4
  <2>2. (TurnsTaken /\ StaysUp)' BY <1>4 DEF CloseMenu, TurnsTaken, StaysUp, CallsPlaced
  <2>3. (CallsPlaced /\ PausesHold)' BY <1>4 DEF CloseMenu, TurnsTaken, StaysUp, CallsPlaced, PausesHold
  <2>4. (EmulatorsLife /\ EnvsLife)' BY <1>4 DEF CloseMenu, TurnsTaken, StaysUp, CallsPlaced, EmulatorsLife, EnvsLife
  <2>5. (TracksLife /\ MutexHeld)' BY <1>4 DEF CloseMenu, TurnsTaken, StaysUp, CallsPlaced, TracksLife, MutexHeld
  <2> QED BY <2>1, <2>2, <2>3, <2>4, <2>5
<1>5. CASE SaveState
  <2>1. Types'
    <3>1. Places' BY <1>5 DEF SaveState
    <3>2. Handles' BY <1>5 DEF SaveState
    <3>3. Flags' BY <1>5 DEF SaveState
    <3>4. Counts' BY <1>5 DEF SaveState
    <3> QED BY <3>1, <3>2, <3>3, <3>4
  <2>2. (TurnsTaken /\ StaysUp)' BY <1>5 DEF SaveState, TurnsTaken, StaysUp, CallsPlaced
  <2>3. (CallsPlaced /\ PausesHold)' BY <1>5 DEF SaveState, TurnsTaken, StaysUp, CallsPlaced, PausesHold
  <2>4. (EmulatorsLife /\ EnvsLife)' BY <1>5 DEF SaveState, TurnsTaken, StaysUp, CallsPlaced, EmulatorsLife, EnvsLife
  <2>5. (TracksLife /\ MutexHeld)' BY <1>5 DEF SaveState, TurnsTaken, StaysUp, CallsPlaced, TracksLife, MutexHeld
  <2> QED BY <2>1, <2>2, <2>3, <2>4, <2>5
<1>6. CASE LoadState
  <2>1. Types'
    <3>1. Places' BY <1>6 DEF LoadState
    <3>2. Handles' BY <1>6 DEF LoadState
    <3>3. Flags' BY <1>6 DEF LoadState
    <3>4. Counts' BY <1>6 DEF LoadState
    <3> QED BY <3>1, <3>2, <3>3, <3>4
  <2>2. (TurnsTaken /\ StaysUp)' BY <1>6 DEF LoadState, TurnsTaken, StaysUp, CallsPlaced
  <2>3. (CallsPlaced /\ PausesHold)' BY <1>6 DEF LoadState, TurnsTaken, StaysUp, CallsPlaced, PausesHold
  <2>4. (EmulatorsLife /\ EnvsLife)' BY <1>6 DEF LoadState, TurnsTaken, StaysUp, CallsPlaced, EmulatorsLife, EnvsLife
  <2>5. (TracksLife /\ MutexHeld)' BY <1>6 DEF LoadState, TurnsTaken, StaysUp, CallsPlaced, TracksLife, MutexHeld
  <2> QED BY <2>1, <2>2, <2>3, <2>4, <2>5
<1>7. CASE SpuPause
  <2>1. Types'
    <3>1. Places' BY <1>7 DEF SpuPause
    <3>2. Handles' BY <1>7 DEF SpuPause
    <3>3. Flags' BY <1>7 DEF SpuPause
    <3>4. Counts' BY <1>7 DEF SpuPause
    <3> QED BY <3>1, <3>2, <3>3, <3>4
  <2>2. (TurnsTaken /\ StaysUp)' BY <1>7 DEF SpuPause, TurnsTaken, StaysUp, CallsPlaced
  <2>3. (CallsPlaced /\ PausesHold)' BY <1>7 DEF SpuPause, TurnsTaken, StaysUp, CallsPlaced, PausesHold
  <2>4. (EmulatorsLife /\ EnvsLife)' BY <1>7 DEF SpuPause, TurnsTaken, StaysUp, CallsPlaced, EmulatorsLife, EnvsLife
  <2>5. (TracksLife /\ MutexHeld)' BY <1>7 DEF SpuPause, TurnsTaken, StaysUp, CallsPlaced, TracksLife, MutexHeld
  <2> QED BY <2>1, <2>2, <2>3, <2>4, <2>5
<1>8. CASE UiReset
  <2>1. Types'
    <3>1. Places' BY <1>8 DEF UiReset, SndStop, SndRelease, SpuDrop, ChangeSoundCore, SetSynchMode, SndInit
    <3>2. Handles'
      <4>1. CASE SndStop BY <1>8, <4>1 DEF UiReset, SndStop
      <4>2. CASE SndRelease BY <1>8, <4>2 DEF UiReset, SndRelease
      <4>3. CASE SpuDrop BY <1>8, <4>3 DEF UiReset, SpuDrop
      <4>4. CASE ChangeSoundCore BY <1>8, <4>4 DEF UiReset, ChangeSoundCore
      <4>5. CASE SndInit BY <1>8, <4>5 DEF UiReset, SndInit
      <4>6. CASE SetSynchMode BY <1>8, <4>6 DEF UiReset, SetSynchMode
      <4> QED BY <1>8, <4>1, <4>2, <4>3, <4>4, <4>5, <4>6 DEF UiReset
    <3>3. Flags' BY <1>8 DEF UiReset, SndStop, SndRelease, SpuDrop, ChangeSoundCore, SetSynchMode, SndInit
    <3>4. Counts' BY <1>8 DEF UiReset, SndStop, SndRelease, SpuDrop, ChangeSoundCore, SetSynchMode, SndInit
    <3> QED BY <3>1, <3>2, <3>3, <3>4
  <2>2. (TurnsTaken /\ StaysUp)' BY <1>8 DEF UiReset, SndStop, SndRelease, SpuDrop, ChangeSoundCore, SetSynchMode, SndInit, TurnsTaken, StaysUp, CallsPlaced
  <2>3. (CallsPlaced /\ PausesHold)' BY <1>8 DEF UiReset, SndStop, SndRelease, SpuDrop, ChangeSoundCore, SetSynchMode, SndInit, TurnsTaken, StaysUp, CallsPlaced, PausesHold
  <2>4. (EmulatorsLife /\ EnvsLife)' BY <1>8 DEF UiReset, SndStop, SndRelease, SpuDrop, ChangeSoundCore, SetSynchMode, SndInit, TurnsTaken, StaysUp, CallsPlaced, EmulatorsLife, EnvsLife
  <2>5. (TracksLife /\ MutexHeld)' BY <1>8 DEF UiReset, SndStop, SndRelease, SpuDrop, ChangeSoundCore, SetSynchMode, SndInit, TurnsTaken, StaysUp, CallsPlaced, TracksLife, MutexHeld
  <2> QED BY <2>1, <2>2, <2>3, <2>4, <2>5
<1>9. CASE SaveOrLoadDone
  <2>1. Types'
    <3>1. Places' BY <1>9 DEF SaveOrLoadDone
    <3>2. Handles' BY <1>9 DEF SaveOrLoadDone
    <3>3. Flags' BY <1>9 DEF SaveOrLoadDone
    <3>4. Counts' BY <1>9 DEF SaveOrLoadDone
    <3> QED BY <3>1, <3>2, <3>3, <3>4
  <2>2. (TurnsTaken /\ StaysUp)' BY <1>9 DEF SaveOrLoadDone, TurnsTaken, StaysUp, CallsPlaced
  <2>3. (CallsPlaced /\ PausesHold)' BY <1>9 DEF SaveOrLoadDone, TurnsTaken, StaysUp, CallsPlaced, PausesHold
  <2>4. (EmulatorsLife /\ EnvsLife)' BY <1>9 DEF SaveOrLoadDone, TurnsTaken, StaysUp, CallsPlaced, EmulatorsLife, EnvsLife
  <2>5. (TracksLife /\ MutexHeld)' BY <1>9 DEF SaveOrLoadDone, TurnsTaken, StaysUp, CallsPlaced, TracksLife, MutexHeld
  <2> QED BY <2>1, <2>2, <2>3, <2>4, <2>5
<1>10. CASE Background
  <2>1. Types'
    <3>1. Places' BY <1>10 DEF Background, OnPause, Pause
    <3>2. Handles' BY <1>10 DEF Background, OnPause, Pause
    <3>3. Flags' BY <1>10 DEF Background, OnPause, Pause
    <3>4. Counts' BY <1>10 DEF Background, OnPause, Pause
    <3> QED BY <3>1, <3>2, <3>3, <3>4
  <2>2. (TurnsTaken /\ StaysUp)' BY <1>10 DEF Background, OnPause, Pause, TurnsTaken, StaysUp, CallsPlaced
  <2>3. (CallsPlaced /\ PausesHold)' BY <1>10 DEF Background, OnPause, Pause, TurnsTaken, StaysUp, CallsPlaced, PausesHold
  <2>4. (EmulatorsLife /\ EnvsLife)' BY <1>10 DEF Background, OnPause, Pause, TurnsTaken, StaysUp, CallsPlaced, EmulatorsLife, EnvsLife
  <2>5. (TracksLife /\ MutexHeld)' BY <1>10 DEF Background, OnPause, Pause, TurnsTaken, StaysUp, CallsPlaced, TracksLife, MutexHeld
  <2> QED BY <2>1, <2>2, <2>3, <2>4, <2>5
<1>11. CASE Foreground
  <2>1. Types'
    <3>1. Places' BY <1>11 DEF Foreground, UnPause
    <3>2. Handles' BY <1>11 DEF Foreground, UnPause
    <3>3. Flags' BY <1>11 DEF Foreground, UnPause
    <3>4. Counts' BY <1>11 DEF Foreground, UnPause
    <3> QED BY <3>1, <3>2, <3>3, <3>4
  <2>2. (TurnsTaken /\ StaysUp)' BY <1>11 DEF Foreground, UnPause, TurnsTaken, StaysUp, CallsPlaced
  <2>3. (CallsPlaced /\ PausesHold)' BY <1>11 DEF Foreground, UnPause, TurnsTaken, StaysUp, CallsPlaced, PausesHold
  <2>4. (EmulatorsLife /\ EnvsLife)' BY <1>11 DEF Foreground, UnPause, TurnsTaken, StaysUp, CallsPlaced, EmulatorsLife, EnvsLife
  <2>5. (TracksLife /\ MutexHeld)' BY <1>11 DEF Foreground, UnPause, TurnsTaken, StaysUp, CallsPlaced, TracksLife, MutexHeld
  <2> QED BY <2>1, <2>2, <2>3, <2>4, <2>5
<1>12. CASE Destroy
  <2>1. Types'
    <3>1. Places' BY <1>12 DEF Destroy
    <3>2. Handles' BY <1>12 DEF Destroy
    <3>3. Flags' BY <1>12 DEF Destroy
    <3>4. Counts' BY <1>12 DEF Destroy
    <3> QED BY <3>1, <3>2, <3>3, <3>4
  <2>2. (TurnsTaken /\ StaysUp)' BY <1>12 DEF Destroy, TurnsTaken, StaysUp, CallsPlaced
  <2>3. (CallsPlaced /\ PausesHold)' BY <1>12 DEF Destroy, TurnsTaken, StaysUp, CallsPlaced, PausesHold
  <2>4. (EmulatorsLife /\ EnvsLife)' BY <1>12 DEF Destroy, TurnsTaken, StaysUp, CallsPlaced, EmulatorsLife, EnvsLife
  <2>5. (TracksLife /\ MutexHeld)' BY <1>12 DEF Destroy, TurnsTaken, StaysUp, CallsPlaced, TracksLife, MutexHeld
  <2> QED BY <2>1, <2>2, <2>3, <2>4, <2>5
<1>13. CASE Back
  <2>1. Types'
    <3>1. Places' BY <1>13 DEF Back
    <3>2. Handles' BY <1>13 DEF Back
    <3>3. Flags' BY <1>13 DEF Back
    <3>4. Counts' BY <1>13 DEF Back
    <3> QED BY <3>1, <3>2, <3>3, <3>4
  <2>2. (TurnsTaken /\ StaysUp)' BY <1>13 DEF Back, TurnsTaken, StaysUp, CallsPlaced
  <2>3. (CallsPlaced /\ PausesHold)' BY <1>13 DEF Back, TurnsTaken, StaysUp, CallsPlaced, PausesHold
  <2>4. (EmulatorsLife /\ EnvsLife)' BY <1>13 DEF Back, TurnsTaken, StaysUp, CallsPlaced, EmulatorsLife, EnvsLife
  <2>5. (TracksLife /\ MutexHeld)' BY <1>13 DEF Back, TurnsTaken, StaysUp, CallsPlaced, TracksLife, MutexHeld
  <2> QED BY <2>1, <2>2, <2>3, <2>4, <2>5
<1>14. CASE Leave
  <2>1. Types'
    <3>1. Places' BY <1>14 DEF Leave, OnPause, Pause
    <3>2. Handles' BY <1>14 DEF Leave, OnPause, Pause
    <3>3. Flags' BY <1>14 DEF Leave, OnPause, Pause
    <3>4. Counts' BY <1>14 DEF Leave, OnPause, Pause
    <3> QED BY <3>1, <3>2, <3>3, <3>4
  <2>2. (TurnsTaken /\ StaysUp)' BY <1>14 DEF Leave, OnPause, Pause, TurnsTaken, StaysUp, CallsPlaced
  <2>3. (CallsPlaced /\ PausesHold)' BY <1>14 DEF Leave, OnPause, Pause, TurnsTaken, StaysUp, CallsPlaced, PausesHold
  <2>4. (EmulatorsLife /\ EnvsLife)' BY <1>14 DEF Leave, OnPause, Pause, TurnsTaken, StaysUp, CallsPlaced, EmulatorsLife, EnvsLife
  <2>5. (TracksLife /\ MutexHeld)' BY <1>14 DEF Leave, OnPause, Pause, TurnsTaken, StaysUp, CallsPlaced, TracksLife, MutexHeld
  <2> QED BY <2>1, <2>2, <2>3, <2>4, <2>5
<1> QED BY <1>1, <1>2, <1>3, <1>4, <1>5, <1>6, <1>7, <1>8, <1>9, <1>10, <1>11, <1>12, <1>13, <1>14 DEF UiThread, UiCall

--------------------------------------------------------------------------------
(* Sound threads *)

\* There is a number of threads that may still be started, and it changes only with
\* the steps of the loader and of the UI thread.
LEMMA RoomIsNumber == ASSUME Types PROVE Room \in Int /\ LoaderOwes \in 0 .. 2 /\ UiOwes \in 0 .. 1
<1>1. LoaderOwes \in 0 .. 2 BY DEF LoaderOwes
<1>2. UiOwes \in 0 .. 1 BY DEF UiOwes
<1>3. sessions \in Nat /\ loads \in Nat BY DEF Types, Places, Handles, Flags, Counts
<1> QED BY <1>1, <1>2, <1>3 DEF Room

LEMMA RoomKept ==
  ASSUME UNCHANGED <<initPc, uiPc, sessions, loads>>
  PROVE  Room' = Room
BY DEF Room, LoaderOwes, UiOwes

\* n threads started means that the next is number n + 1, which SndThread still has
\* when somebody is about to start one.
LEMMA NextThread ==
  ASSUME Types, NEW n \in Nat, Numbered(n), LoaderOwes > 0 \/ UiOwes > 0
  PROVE  /\ Cardinality({j \in SndThread : sndPc[j] # "none"}) = n
         /\ n + 1 \in SndThread /\ sndPc[n + 1] = "none"
<1>1. n + 1 \in SndThread BY RoomIsNumber DEF Types, Places, Handles, Flags, Counts, Numbered, Room
<1>2. {j \in SndThread : sndPc[j] # "none"} = 1 .. n BY <1>1 DEF Numbered
<1>3. Cardinality(1 .. n) = n BY FS_Interval
<1>4. sndPc[n + 1] = "none" BY <1>1 DEF Numbered
<1> QED BY <1>1, <1>2, <1>3, <1>4

\* Where no thread is started, the count stays right if there is no less room than
\* before.
LEMMA CountKept ==
  ASSUME Types, Types', ThreadsNumbered, Room' >= Room,
         \A k \in SndThread : (sndPc'[k] # "none") <=> (sndPc[k] # "none")
  PROVE  ThreadsNumbered'
<1>1. PICK n \in Nat : Numbered(n) BY DEF ThreadsNumbered
<1>2. Room \in Int BY RoomIsNumber
<1>3. Room' \in Int
  <2>1. LoaderOwes' \in 0 .. 2 BY DEF LoaderOwes
  <2>2. UiOwes' \in 0 .. 1 BY DEF UiOwes
  <2>3. sessions' \in Nat /\ loads' \in Nat BY DEF Types, Places, Handles, Flags, Counts
  <2> QED BY <2>1, <2>2, <2>3 DEF Room
<1>4. n <= Room' BY <1>1, <1>2, <1>3 DEF Numbered
<1>5. \A k \in SndThread : (sndPc'[k] # "none") <=> (k <= n) BY <1>1 DEF Numbered
<1>6. Numbered(n)' BY <1>4, <1>5 DEF Numbered
<1> QED BY <1>6 DEF ThreadsNumbered

\* A step that starts and moves no sound thread, and that takes what such a thread
\* works with only at a quiet time.
LEMMA SoundKept ==
  ASSUME Inv, Types', UNCHANGED sndPc, Room' >= Room, QuietTimes' => QuietTimes,
         Silent \/ (UNCHANGED <<SNDCore, audioTrack>> /\ (SPU_user => SPU_user'))
  PROVE  Sound'
<1>1. ThreadsNumbered' BY CountKept DEF Inv, Sound, Control
<1>2. OneRuns' BY DEF Inv, Sound, OneRuns, Running
<1>3. QuietIsSilent' BY DEF Inv, Sound, QuietIsSilent, Silent, Running
<1>4. SoundsLife' BY DEF Inv, Sound, SoundsLife, Silent, Running
<1> QED BY <1>1, <1>2, <1>3, <1>4 DEF Sound

\* SNDSDLInit, whoever calls it, starts a thread when none runs.
LEMMA SoundStarted ==
  ASSUME Inv, SndInit, Silent, SNDCore = "sdl", LoaderOwes > 0 \/ UiOwes > 0,
         Room' = Room + 1, ~QuietTimes'
  PROVE  Sound'
<1>1. PICK n \in Nat : Numbered(n) BY DEF Inv, Sound, ThreadsNumbered
<1>2. /\ Cardinality({j \in SndThread : sndPc[j] # "none"}) = n
      /\ n + 1 \in SndThread /\ sndPc[n + 1] = "none"
  BY <1>1, NextThread DEF Inv, Control
<1>3. /\ sndPc' = [sndPc EXCEPT ![n + 1] = "loop"]
      /\ SNDCore' = "sdl" /\ audioTrack' = TRUE
  BY <1>2 DEF SndInit
<1>4. sndPc \in [SndThread -> {"none", "loop", "mix", "play", "exit", "done"}]
  BY DEF Inv, Control, Types, Places, Handles, Flags, Counts
<1>5. ThreadsNumbered'
  <2>1. n + 1 <= Room'
    <3>1. n <= Room BY <1>1 DEF Numbered
    <3>2. Room \in Int BY RoomIsNumber DEF Inv, Control
    <3> QED BY <3>1, <3>2
  <2>2. \A k \in SndThread : (sndPc'[k] # "none") <=> (k <= n + 1)
    BY <1>1, <1>2, <1>3, <1>4 DEF Numbered
  <2>3. Numbered(n + 1)' BY <2>1, <2>2 DEF Numbered
  <2> QED BY <2>3 DEF ThreadsNumbered
<1>6. \A k \in SndThread : Running(k)' <=> k = n + 1
  BY <1>2, <1>3, <1>4 DEF Silent, Running
<1>7. OneRuns' BY <1>6 DEF OneRuns
<1>8. SoundsLife'
  <2>1. \A k \in SndThread : sndPc'[k] # "play"
    BY <1>2, <1>3, <1>4 DEF Silent, Running
  <2> QED BY <1>3, <2>1 DEF SoundsLife
<1> QED BY <1>5, <1>7, <1>8 DEF Sound, QuietIsSilent

\* A step of the loader keeps the sound threads in order.
LEMMA LoaderSound == ASSUME Inv, Types', InitThread PROVE Sound'
<1> USE DEF InitGoto, uiVars, sound
<1>t. sessions \in Nat /\ loads \in Nat /\ UiOwes \in 0 .. 1 BY RoomIsNumber DEF Inv, Control, Types, Places, Handles, Flags, Counts
<1>u. UNCHANGED uiPc => UiOwes' = UiOwes BY DEF UiOwes
<1>1. CASE InitAttach
  BY <1>1, <1>t, <1>u, SoundKept DEF InitAttach, Room, LoaderOwes, QuietTimes
<1>2. CASE NdsInit
  BY <1>2, <1>t, <1>u, SoundKept
  DEF NdsInit, Room, LoaderOwes, QuietTimes, Inv, Sound, QuietIsSilent
<1>3. CASE InitSound
  <2>1. CASE InitGoto("sound", "open") /\ ChangeSoundCore
    BY <1>3, <1>t, <1>u, <2>1, SoundKept
    DEF InitSound, ChangeSoundCore, Room, LoaderOwes, QuietTimes, Inv, Sound, QuietIsSilent
  <2>2. CASE InitGoto("resound", "reopen") /\ ChangeSoundCore
    BY <1>3, <1>t, <1>u, <2>2, SoundKept
    DEF InitSound, ChangeSoundCore, Room, LoaderOwes, QuietTimes, Inv, Sound, QuietIsSilent
  <2>3. CASE SndInit /\ (InitGoto("open", "user") \/ InitGoto("reopen", "reuser"))
    <3>1. Silent /\ SNDCore = "sdl"
      BY <2>3 DEF Inv, Sound, QuietIsSilent, QuietTimes, Control, Lives, TracksLife
    <3>2. LoaderOwes > 0 /\ Room' = Room + 1
      BY <1>3, <1>t, <1>u, <2>3 DEF InitSound, Room, LoaderOwes
    <3>3. cyclePc = "done" /\ uiPc \notin {"drop", "resound", "reopen"}
      BY <2>3 DEF Inv, Control, TurnsTaken, StaysUp, CallsPlaced
    <3>4. ~QuietTimes' BY <1>3, <2>3, <3>3 DEF InitSound, SndInit, QuietTimes
    <3> QED BY <2>3, <3>1, <3>2, <3>4, SoundStarted
  <2>4. CASE SetSynchMode /\ (InitGoto("user", "load") \/ InitGoto("reuser", "run"))
    BY <1>3, <1>t, <1>u, <2>4, SoundKept DEF InitSound, SetSynchMode, Room, LoaderOwes, QuietTimes
  <2> QED BY <1>3, <2>1, <2>2, <2>3, <2>4 DEF InitSound
<1>4. CASE LoadROM
  BY <1>4, <1>t, <1>u, SoundKept DEF LoadROM, Room, LoaderOwes, QuietTimes
<1>5. CASE InitDeInitSound
  <2>1. CASE InitGoto("stop", "wait") /\ SndStop
    BY <1>5, <1>t, <1>u, <2>1, SoundKept DEF InitDeInitSound, SndStop, Room, LoaderOwes, QuietTimes
  <2>2. CASE InitGoto("wait", "drop") /\ SndRelease
    BY <1>5, <1>t, <1>u, <2>2, SoundKept
    DEF InitDeInitSound, SndRelease, Room, LoaderOwes, QuietTimes, Inv, Sound, QuietIsSilent
  <2>3. CASE InitGoto("drop", "resound") /\ SpuDrop
    BY <1>5, <1>t, <1>u, <2>3, SoundKept
    DEF InitDeInitSound, SpuDrop, Room, LoaderOwes, QuietTimes, Inv, Sound, QuietIsSilent
  <2> QED BY <1>5, <2>1, <2>2, <2>3 DEF InitDeInitSound
<1>6. CASE SetExecute
  BY <1>6, <1>t, <1>u, SoundKept DEF SetExecute, Room, LoaderOwes, QuietTimes
<1>7. CASE SetRunning
  BY <1>7, <1>t, <1>u, SoundKept DEF SetRunning, Room, LoaderOwes, QuietTimes
<1>8. CASE CreateMainThread
  BY <1>8, <1>t, <1>u, SoundKept DEF CreateMainThread, Room, LoaderOwes, QuietTimes
<1> QED BY <1>1, <1>2, <1>3, <1>4, <1>5, <1>6, <1>7, <1>8 DEF InitThread

\* So does a step of the emulation thread, which stops the last one.
LEMMA CycleSound == ASSUME Inv, Types', CycleThread PROVE Sound'
<1> USE DEF CycleGoto, uiVars, flags, sound, QuietTimes
<1>1. Room' >= Room
  <2>1. UNCHANGED <<initPc, uiPc, sessions, loads>>
    BY DEF CycleThread, CycleAttach, CycleMutexInit, CycleTop, CycleLock, CycleUnlock,
           CycleDeInit, CycleEnd
  <2> QED BY <2>1, RoomKept, RoomIsNumber DEF Inv, Control
<1>2. CASE CycleAttach \/ CycleMutexInit \/ CycleTop \/ CycleLock \/ CycleUnlock
  BY <1>1, <1>2, SoundKept
  DEF CycleAttach, CycleMutexInit, CycleTop, CycleLock, CycleUnlock
<1>3. CASE CycleDeInit
  <2>1. CASE CycleGoto("stop", "wait") /\ SndStop
    BY <1>1, <1>3, <2>1, SoundKept DEF CycleDeInit, SndStop
  <2>2. CASE CycleGoto("wait", "drop") /\ SndRelease
    BY <1>1, <1>3, <2>2, SoundKept DEF CycleDeInit, SndRelease, Inv, Sound, QuietIsSilent
  <2>3. CASE CycleGoto("drop", "deinit") /\ SpuDrop
    BY <1>1, <1>3, <2>3, SoundKept DEF CycleDeInit, SpuDrop, Inv, Sound, QuietIsSilent
  <2>4. CASE CycleGoto("deinit", "end") /\ UNCHANGED sound
    BY <1>1, <1>3, <2>4, SoundKept DEF CycleDeInit
  <2> QED BY <1>3, <2>1, <2>2, <2>3, <2>4 DEF CycleDeInit
<1>4. CASE CycleEnd
  BY <1>1, <1>4, SoundKept DEF CycleEnd
<1> QED BY <1>2, <1>3, <1>4 DEF CycleThread

\* So does a step of a sound thread: it plays only what is there, and the one that
\* ends was the only one.
LEMMA ServantSound ==
  ASSUME Inv, Types', RenderLock \/ RenderUnlock \/ \E k \in SndThread : SndStep(k)
  PROVE  Sound'
<1> USE DEF uiVars, flags, sound, QuietTimes
<1>1. Room' >= Room
  <2>1. UNCHANGED <<initPc, uiPc, sessions, loads>> BY DEF RenderLock, RenderUnlock, SndStep
  <2> QED BY <2>1, RoomKept, RoomIsNumber DEF Inv, Control
<1>2. CASE RenderLock \/ RenderUnlock
  BY <1>1, <1>2, SoundKept DEF RenderLock, RenderUnlock
<1>3. ASSUME NEW k \in SndThread, SndStep(k) PROVE Sound'
  <2>0. sndPc \in [SndThread -> {"none", "loop", "mix", "play", "exit", "done"}]
    BY DEF Inv, Control, Types, Places, Handles, Flags, Counts
  <2>1. /\ UNCHANGED <<initPc, cyclePc, uiPc, sessions, SNDCore, SPU_user, audioTrack>>
        /\ Running(k) /\ sndPc'[k] \in {"loop", "mix", "play", "exit", "done"}
        /\ \A j \in SndThread : j # k => sndPc'[j] = sndPc[j]
        /\ sndPc'[k] = "play" => SPU_user
        /\ sndTerminated' # sndTerminated => sndPc'[k] = "done"
    <3>1. CASE SndTop(k) BY <1>3, <2>0, <3>1 DEF SndStep, SndTop, SndGoto, Running
    <3>2. CASE SndMix(k) BY <1>3, <2>0, <3>2 DEF SndStep, SndMix, SndGoto, Running
    <3>3. CASE SndExit(k) BY <1>3, <2>0, <3>3 DEF SndStep, SndExit, SndGoto, Running
    <3> QED BY <1>3, <3>1, <3>2, <3>3 DEF SndStep
  <2>2. ThreadsNumbered'
    <3>1. \A j \in SndThread : (sndPc'[j] # "none") <=> (sndPc[j] # "none")
      BY <2>0, <2>1 DEF Running
    <3> QED BY <1>1, <3>1, CountKept DEF Inv, Control, Sound
  <2>3. \A j \in SndThread : Running(j)' => Running(j) BY <2>1 DEF Running
  <2>4. OneRuns' BY <2>3 DEF OneRuns, Inv, Sound
  <2>5. QuietIsSilent'
    <3>1. CASE sndTerminated' = sndTerminated
      BY <2>1, <2>3, <3>1 DEF QuietIsSilent, Silent, Inv, Sound
    <3>2. CASE sndTerminated' # sndTerminated
      BY <2>1, <2>3, <3>2 DEF QuietIsSilent, Silent, OneRuns, Running, Inv, Sound
    <3> QED BY <3>1, <3>2
  <2>6. SoundsLife' BY <2>1, <2>3 DEF SoundsLife, Running, Inv, Sound
  <2> QED BY <2>2, <2>4, <2>5, <2>6 DEF Sound
<1> QED BY <1>2, <1>3

\* So does a step of the UI thread, which may begin a session, and which stops a sound
\* thread and starts another when it loads a state.
LEMMA UiSound == ASSUME Inv, Types', UiThread PROVE Sound'
<1> USE DEF uiVars, flags, sound, others, QuietTimes
<1>t. sessions \in Nat /\ loads \in Nat /\ LoaderOwes \in 0 .. 2 /\ UiOwes \in 0 .. 1
  BY RoomIsNumber DEF Inv, Control, Types, Places, Handles, Flags, Counts
<1>u. /\ UNCHANGED initPc => LoaderOwes' = LoaderOwes
      /\ UNCHANGED uiPc => UiOwes' = UiOwes
  BY DEF LoaderOwes, UiOwes
<1>1. CASE Open
  <2>1. CASE ~first
    BY <1>1, <1>t, <1>u, <2>1, SoundKept DEF Open, Room
  <2>2. CASE first
    <3>1. /\ initPc = "done" /\ cyclePc = "done" /\ initPc' = "attach"
          /\ sessions' = sessions + 1 /\ UNCHANGED <<sound, uiPc, loads, cyclePc>>
      BY <1>1, <2>2 DEF Open
    <3>2. Room' = Room BY <1>t, <1>u, <3>1 DEF Room, LoaderOwes
    <3>3. Silent BY <3>1 DEF Inv, Sound, QuietIsSilent
    <3> QED BY <3>1, <3>2, <3>3, <1>t, RoomIsNumber, SoundKept DEF Inv, Control
  <2> QED BY <2>1, <2>2 DEF Inv, Control, Types, Places, Handles, Flags, Counts
<1>2. CASE LoadState
  <2>1. /\ uiPc = "idle" /\ uiPc' = "stop" /\ loads' = loads + 1
        /\ UNCHANGED <<sessions, initPc, cyclePc, sound>>
    BY <1>2 DEF LoadState
  <2>2. Room' = Room BY <1>t, <1>u, <2>1 DEF Room, UiOwes
  <2> QED BY <2>1, <2>2, RoomIsNumber, SoundKept DEF Inv, Control
<1>3. CASE UiReset
  <2> USE DEF UiGoto
  <2>0. initPc = "done" /\ cyclePc \in Up
    BY <1>3 DEF UiReset, Inv, Control, CallsPlaced, StaysUp, TurnsTaken
  <2>1. CASE UiGoto("stop", "wait") /\ SndStop
    BY <1>3, <1>t, <1>u, <2>1, SoundKept DEF UiReset, SndStop, Room, UiOwes
  <2>2. CASE UiGoto("wait", "drop") /\ SndRelease
    BY <1>3, <1>t, <1>u, <2>2, SoundKept
    DEF UiReset, SndRelease, Room, UiOwes, Inv, Sound, QuietIsSilent
  <2>3. CASE UiGoto("drop", "resound") /\ SpuDrop
    BY <1>3, <1>t, <1>u, <2>3, SoundKept
    DEF UiReset, SpuDrop, Room, UiOwes, Inv, Sound, QuietIsSilent
  <2>4. CASE UiGoto("resound", "reopen") /\ ChangeSoundCore
    BY <1>3, <1>t, <1>u, <2>4, SoundKept
    DEF UiReset, ChangeSoundCore, Room, UiOwes, Inv, Sound, QuietIsSilent
  <2>5. CASE UiGoto("reopen", "reuser") /\ SndInit
    <3>1. Silent /\ SNDCore = "sdl"
      BY <2>5 DEF Inv, Sound, QuietIsSilent, Control, Lives, TracksLife
    <3>2. UiOwes > 0 /\ Room' = Room + 1
      BY <1>3, <1>t, <1>u, <2>5 DEF UiReset, Room, UiOwes
    <3>3. ~QuietTimes' BY <1>3, <2>0, <2>5 DEF UiReset, SndInit
    <3> QED BY <2>5, <3>1, <3>2, <3>3, SoundStarted
  <2>6. CASE UiGoto("reuser", "state") /\ SetSynchMode
    BY <1>3, <1>t, <1>u, <2>6, SoundKept DEF UiReset, SetSynchMode, Room, UiOwes
  <2> QED BY <1>3, <2>1, <2>2, <2>3, <2>4, <2>5, <2>6 DEF UiReset
<1>4. CASE SpuPause \/ SaveOrLoadDone \/ SaveState
  BY <1>4, <1>t, <1>u, SoundKept DEF SpuPause, SaveOrLoadDone, SaveState, UiGoto, Room, UiOwes
<1>5. CASE DialogDone \/ CloseMenu \/ Destroy \/ Back
  BY <1>5, <1>t, <1>u, SoundKept DEF DialogDone, CloseMenu, Destroy, Back, Room
<1>6. CASE OpenMenu \/ Background \/ Foreground \/ Leave
  <2>1. /\ UNCHANGED <<initPc, cyclePc, sessions, loads, sound>>
        /\ uiPc = "idle" /\ uiPc' \in {"idle", "mute"}
    BY <1>6 DEF OpenMenu, Background, Foreground, Leave, OnPause, Pause, UnPause
  <2>2. Room' = Room BY <1>t, <1>u, <2>1 DEF Room, UiOwes
  <2> QED BY <2>1, <2>2, RoomIsNumber, SoundKept DEF Inv, Control
<1> QED BY <1>1, <1>2, <1>3, <1>4, <1>5, <1>6 DEF UiThread, UiCall

--------------------------------------------------------------------------------
(* The invariant and what it says *)

\* The invariant holds at all times, whatever the interleaving, however many sessions
\* follow each other in one process and however many states they load.
THEOREM Invariance == Spec => []Inv
<1>1. ASSUME Inv, Next PROVE Inv'
  <2>0. Control' => Types' BY DEF Control
  <2>1. CASE UiThread BY <1>1, <2>0, <2>1, UiControl, UiSound DEF Inv
  <2>2. CASE InitThread BY <1>1, <2>0, <2>2, LoaderControl, LoaderSound DEF Inv
  <2>3. CASE CycleThread BY <1>1, <2>0, <2>3, CycleControl, CycleSound DEF Inv
  <2>4. CASE RenderLock \/ RenderUnlock \/ \E k \in SndThread : SndStep(k)
    BY <1>1, <2>0, <2>4, ServantControl, ServantSound DEF Inv
  <2> QED BY <1>1, <2>1, <2>2, <2>3, <2>4 DEF Next
<1>2. ASSUME Inv, UNCHANGED vars PROVE Inv'
  <2> USE <1>2 DEF vars, uiVars, flags, sound, mutex
  <2>1. Types' BY DEF Inv, Control, Types, Places, Handles, Flags, Counts
  <2>2. (TurnsTaken /\ StaysUp /\ CallsPlaced /\ PausesHold)'
    BY DEF Inv, Control, TurnsTaken, StaysUp, CallsPlaced, PausesHold
  <2>3. Lives' BY DEF Inv, Control, Lives, EmulatorsLife, EnvsLife, TracksLife, MutexHeld
  <2>4. Room' >= Room BY RoomKept, RoomIsNumber DEF Inv, Control
  <2>5. Sound' BY <2>1, <2>4, SoundKept DEF QuietTimes
  <2> QED BY <2>1, <2>2, <2>3, <2>5 DEF Inv, Control
<1> QED BY InitInv, <1>1, <1>2, PTL DEF Spec

\* The flags, program counters and handles have their types.
THEOREM TypesAreKept == Spec => []TypeOK
<1>1. Inv => TypeOK BY DEF Inv, Control, Types, Places, Handles, Flags, Counts, TypeOK
<1> QED BY <1>1, Invariance, PTL

\* A playing sound thread has its user SPU, its core and its AudioTrack: SPU_DeInit,
\* of the loader, of MainCycle or of a load, never takes them from under it.
THEOREM SoundIsSafe == Spec => []SoundSafe
<1>1. Inv => SoundSafe BY DEF Inv, Sound, SoundsLife, SoundSafe, Running
<1> QED BY <1>1, Invariance, PTL

\* The one pair of flags that stops a sound thread never meets two of them.
THEOREM OneSoundThreadRuns == Spec => []OneSoundThread
<1>1. ASSUME Inv PROVE OneSoundThread
  <2> DEFINE R == {k \in SndThread : sndPc[k] \in {"loop", "mix", "play", "exit"}}
  <2>1. CASE R = {} BY <2>1, FS_EmptySet DEF OneSoundThread
  <2>2. CASE R # {}
    <3>1. PICK k \in SndThread : Running(k) BY <2>2 DEF Running
    <3>2. R = {k} BY <1>1, <3>1 DEF Inv, Sound, OneRuns, Running
    <3>3. Cardinality(R) = 1 BY <3>2, FS_Singleton
    <3> QED BY <3>3 DEF OneSoundThread
  <2> QED BY <2>1, <2>2
<1> QED BY <1>1, Invariance, PTL

\* The sound system is reset by one thread at a time.
THEOREM ResetsExclude == Spec => []OneSoundReset
<1>1. Inv => OneSoundReset
  BY DEF Inv, Control, Types, Places, TurnsTaken, StaysUp, CallsPlaced, OneSoundReset
<1> QED BY <1>1, Invariance, PTL

\* SNDSDLInit and SNDSDLDeInit use the JNIEnv of the thread they run on; the UI thread,
\* which uses another's, uses one that is attached, outside of the two named gaps.
THEOREM JavaEnvIsOwn == Spec => []OwnJavaEnv
<1>1. Inv => OwnJavaEnv
  BY DEF Inv, Control, Lives, Types, Places, TurnsTaken, StaysUp, CallsPlaced, EnvsLife,
         OwnJavaEnv, EnvAttached
<1> QED BY <1>1, Invariance, PTL

\* Between the loading of a session and its end, the UI thread mutes, unmutes and
\* releases an AudioTrack that exists.
THEOREM UiSoundIsSafe == Spec => []UiSoundSafe
<1>1. Inv => UiSoundSafe
  BY DEF Inv, Control, Lives, Types, Places, TurnsTaken, StaysUp, TracksLife, UiSoundSafe
<1> QED BY <1>1, Invariance, PTL

\* No frame is drawn while render copies the screen, unless MainCycle initialised the
\* mutex while render held it.
THEOREM FramesExcludeCopies == Spec => []FrameExclusion
<1>1. Inv => FrameExclusion BY DEF Inv, Control, Lives, MutexHeld, FrameExclusion
<1> QED BY <1>1, Invariance, PTL

\* A state is saved or loaded in the middle of a frame only where the pause left one.
THEOREM StatesExcludeFrames == Spec => []StateExclusion
<1>1. Inv => StateExclusion BY DEF Inv, Control, PausesHold, StateExclusion
<1> QED BY <1>1, Invariance, PTL

\* The emulation thread runs frames, and the menu saves and loads states, of an
\* emulator that exists, and a frame finds its SPU_core unless a load came upon it.
THEOREM EmulatorIsAlive == Spec => []EmulatorAlive
<1>1. Inv => EmulatorAlive
  BY DEF Inv, Control, Lives, Types, Places, EmulatorsLife, StaysUp, TurnsTaken, CallsPlaced,
         PausesHold, EmulatorAlive
<1> QED BY <1>1, Invariance, PTL

\* What the run host_threads checks for two sessions and two loads, for any number of
\* them.
THEOREM SessionsAreSafe == Spec => []SessionSafe
BY TypesAreKept, SoundIsSafe, OneSoundThreadRuns, ResetsExclude, JavaEnvIsOwn, UiSoundIsSafe,
   FramesExcludeCopies, StatesExcludeFrames, EmulatorIsAlive, PTL DEF SessionSafe

================================================================================
