----------------------------- MODULE SaveStates -----------------------------
(***************************************************************************)
(* The state of the whole machine written to the file of slot 0 and read   *)
(* back (saves.cpp, with the savestate and loadstate of every part), the   *)
(* reset in between (NDS_Reset), and what a file cut short, an older file  *)
(* or a session without a game makes of it.                                *)
(*                                                                         *)
(* A file is a row of sections of entries; of each the model keeps what is *)
(* told apart.  The value of an entry is whose it is and of which moment   *)
(* of the game; the registers of SystemControl are kept as they are.       *)
(***************************************************************************)
EXTENDS SystemControl, Sequences

CONSTANTS Moments,   \* moments of the game
          Cuts,      \* how long files cut short are: whole sections, and entries of the next
          OldFiles   \* files of earlier versions: the version of section 61, whether the size of
                     \* the backup memory is one it knows, and entries it has not

\* mach: the value of each part; file: what is in slot 0; kept: what it was written from (history);
\* rom: a game is loaded; said: how the last call ended; wrecked: a load has failed half way (history).
VARIABLES mach, file, kept, rom, said, wrecked
saveVars == <<sys, mach, file, kept, rom, said, wrecked>>

-----------------------------------------------------------------------------
\* The tables SF_.. and the savestate procedures, entries that share a fate as one. "vectors" is
\* intVector, LDTBit, waitIRQ and halt_IE_and_IF; "wait9" and "wait7" are intrWaitARM_state.
Arm9Entries == {"arm9", "vectors", "wait9"}
Arm7Entries == {"arm7", "wait7"}
CoprocessorEntries == {"cp15", "access"}
MemoryEntries == {"memory", "registers"}
ConsoleEntries == {"console"}
SequencerEntries == {"sequencer"}
InputEntries == {"input"}
NdsEntries == SequencerEntries \cup InputEntries
MmuEntries == {"mmu", "copies"}
VersionEntries == {"heading", "version"}  \* the type of the section, and its first word
BackupEntries == {"backup"}
GxstatEntries == {"gxstat"}
DmaEntries == {"dma"}
TimingEntries == {"timing"}
MathEntries == {"math"}
TouchEntries == {"touch"}
DeviceEntries ==
  BackupEntries \cup GxstatEntries \cup DmaEntries \cup TimingEntries \cup MathEntries \cup TouchEntries
ScreenEntries == {"screens"}
SoundEntries == {"sound"}
EngineEntries == {"engine"}
ListEntries == {"lists", "stacks", "lights"}
FrameEntries == {"frames"}
WifiEntries == {"wifi"}
ClockEntries == {"clock"}

\* writechunks: section 51 is the sequencer and the input, 61 a version and the devices; what has
\* nothing to keep, the microphone (81) and a movie that does not run (101), is left out.
Sections ==
  <<Arm9Entries, Arm7Entries, CoprocessorEntries, MemoryEntries, ConsoleEntries,
    NdsEntries, MmuEntries, VersionEntries \cup DeviceEntries, ScreenEntries,
    SoundEntries, EngineEntries, ListEntries, FrameEntries, WifiEntries, ClockEntries>>
Entries == UNION {Sections[k] : k \in DOMAIN Sections}
ASSUME CutsAssumption == \A cut \in Cuts : cut.sections \in -1 .. Len(Sections)
Mmu61 == 8  \* the section mmu_savestate writes
\* Section 61 of an earlier version ends before these.
Since == [version |-> 0, backup |-> 0, gxstat |-> 3, dma |-> 3, timing |-> 3, math |-> 4, touch |-> 6]

\* Kept in SystemControl's variable; in no section at all: the mode of the card and its command,
\* and the banks of video memory as the registers map them.
InSystem == {"vectors", "cp15", "access", "copies"}
Parts == (Entries \ (InSystem \cup VersionEntries)) \cup {"card", "banks"}
Value(i, g) == <<i, g>>
Zeros == <<"zeros", 0>>
Of(g) == [i \in Parts |-> Value(i, g)]

-----------------------------------------------------------------------------
\* NDS_Reset by the functions it calls, unless there is no game. No setting of the application names
\* an external BIOS or firmware, so that the machine starts in the game.
ResetMemories ==  \* MMU_Reset, and the BIOS written in its place
  {"memory", "registers", "mmu", "banks", "card", "backup", "gxstat", "dma", "timing", "math", "touch", "clock"}
ResetProcessors == {"arm9", "wait9", "arm7", "wait7"}  \* armcpu_init
ResetDevices == {"console", "input", "screens", "sequencer", "sound", "engine", "lists", "stacks", "frames"}
\* Left are the wireless (WIFI_Reset is empty) and the lights, which gfx3d_reset does not touch.
AfterReset ==
  [i \in Parts |-> IF rom /\ i \in ResetMemories \cup ResetProcessors \cup ResetDevices
                    THEN Value(i, 0) ELSE mach[i]]
SystemAfterReset == IF rom THEN PowerOn ELSE sys
Booted(loaded) == IF loaded THEN PowerOn ELSE Unloaded

\* savestate_save, writechunks, SubWrite: "9iws" of SF_ARM9 names the variable of the ARM7.
Written(i) == IF i = "wait9" THEN mach["wait7"] ELSE mach[i]
Whole == [sections |-> Len(Sections) + 1, part |-> {}]  \* the last one is the terminator
NewFile(cut) ==
  [cut |-> cut, version |-> 6, sized |-> TRUE, lacks |-> {},
   mach |-> [i \in Parts |-> Written(i)], sys |-> sys, wrecked |-> wrecked]
\* An earlier version wrote all that SystemControl keeps.
OldFile(o) ==
  [cut |-> Whole, version |-> o.version, sized |-> o.sized, lacks |-> o.lacks \ InSystem,
   mach |-> [Of(-1) EXCEPT !["wait9"] = Value("wait7", -1)], sys |-> PowerOn, wrecked |-> FALSE]
\* No file, one without a whole header or of an unknown version.
NoFile == [OldFile([version |-> 6, sized |-> TRUE, lacks |-> {}]) EXCEPT !.cut = [sections |-> -1, part |-> {}]]
Refused(f) == f.cut.sections < 0

\* An entry of the body is on the disk; the rest of the body reads as zeros.
Present(f, i) ==
  \E k \in DOMAIN Sections :
    i \in Sections[k] /\ (k <= f.cut.sections \/ (k = f.cut.sections + 1 /\ i \in f.cut.part))

\* mmu_loadstate: without its version word section 61 reads as version 0, which has a size of the
\* backup memory next; a size not known makes it fail, but version 0 permits a silent failure.
VersionRead(f) == IF Present(f, "version") THEN f.version ELSE 0
MmuLoads(f) == VersionRead(f) \in {0, 1} => Present(f, "version") /\ f.sized
SilentFailLoud(f) == FALSE  \* mutant: version 0 fails as all others
SilentFail(f) == Present(f, "heading") /\ VersionRead(f) = 0

\* ReadStateChunks ends at the first section that fails, and the type read where the file was cut
\* is no section. Entries of a table that the program does not know, or knows with another size,
\* are skipped (CheckS).
Restored(f, i) ==
  /\ Present(f, i) /\ i \notin f.lacks
  /\ i \in DOMAIN Since => Since[i] <= VersionRead(f)
  /\ MmuLoads(f) \/ \E k \in 1 .. Mmu61 - 1 : i \in Sections[k]
ReadsAll(f) == f.cut.sections > Len(Sections) /\ MmuLoads(f)

\* What is in the section where the file was cut is overwritten with zeros or left as it is.
CutIn(f, i) == f.cut.sections + 1 \in DOMAIN Sections /\ i \in Sections[f.cut.sections + 1]
\* "9iws" of SF_ARM9 is read into the variable of the ARM7.
Before(f, i) == IF i = "wait7" /\ Restored(f, "wait9") THEN f.mach["wait9"] ELSE AfterReset[i]
Loaded(f, i, left) ==
  IF Restored(f, i) THEN f.mach[i] ELSE IF CutIn(f, i) /\ left = "zeros" THEN Zeros ELSE Before(f, i)

\* loadstate: the maps of video memory are written again from the registers as loaded.
Regenerated(m) == [m EXCEPT !["banks"] = Value("banks", m["registers"][2])]

Unsaved == {"card", "banks", "wait9"}
ReadChunks(f, left) == [i \in Parts |-> IF i \in Unsaved THEN AfterReset[i] ELSE Loaded(f, i, left)]

\* cp15_loadstate and the entries of SF_ARM9 and SF_MMU that copy the registers. What the section
\* of the coprocessor has left unread is zero.
ZeroRegisters ==
  [SystemAfterReset EXCEPT !.ctrl = {}, !.access = [k \in Kinds |-> [r \in Regions |-> Addresses]]]
SystemSource(f, i, left) ==
  IF Restored(f, i) THEN f.sys ELSE IF CutIn(f, i) /\ left = "zeros" THEN ZeroRegisters ELSE SystemAfterReset
ReadSystemEarly(f, left) ==  \* mutant: the copies in MMU are not in the file
  LET c == SystemSource(f, "cp15", left) a == SystemSource(f, "access", left) v == SystemSource(f, "vectors", left)
  IN [c EXCEPT !.access = a.access, !.high = v.high, !.ldt = v.ldt, !.waits = v.waits,
               !.rwMode = SystemAfterReset.rwMode, !.mmuDtcm = SystemAfterReset.mmuDtcm]
ReadSystem(f, left) ==
  LET c == SystemSource(f, "cp15", left) a == SystemSource(f, "access", left)
      v == SystemSource(f, "vectors", left) m == SystemSource(f, "copies", left)
  IN [c EXCEPT !.access = a.access, !.high = v.high, !.ldt = v.ldt, !.waits = v.waits,
               !.rwMode = m.rwMode, !.mmuDtcm = m.mmuDtcm]

-----------------------------------------------------------------------------
SaveInit ==
  /\ rom \in BOOLEAN /\ sys = Booted(rom) /\ mach = Of(0) /\ said = "none" /\ wrecked = FALSE
  /\ file \in {NoFile} \cup {OldFile(o) : o \in OldFiles}
  /\ kept = [mach |-> Of(-1), sys |-> file.sys]

\* The game runs on, and writes to its coprocessor; without a game the processors run as well.
Play == (\E g \in Moments : mach' = Of(g)) /\ said' = "none" /\ UNCHANGED <<sys, file, kept, rom, wrecked>>
Mcr == SystemNext /\ said' = "none" /\ UNCHANGED <<mach, file, kept, rom, wrecked>>

\* savestate_slot, savestate_save: the file is opened for writing, which empties it, and written in
\* one piece. A full disk leaves the front of it.
SaveFails == said' = "notSaved" /\ UNCHANGED <<sys, mach, file, kept, rom, wrecked>>
SavedTo(cut) ==
  /\ file' = NewFile(cut) /\ kept' = [mach |-> mach, sys |-> sys]
  /\ said' = IF cut = Whole THEN "saved" ELSE "notSaved"
  /\ UNCHANGED <<sys, mach, rom, wrecked>>
Save == SaveFails \/ \E cut \in Cuts \cup {Whole} : SavedTo(cut)

\* savestate_load: what it refuses it refuses before the reset.
LoadRefusedLate ==  \* mutant: the reset comes first
  /\ Refused(file) /\ said' = "refused"
  /\ mach' = AfterReset /\ sys' = SystemAfterReset /\ UNCHANGED <<file, kept, rom, wrecked>>
LoadRefused == Refused(file) /\ said' = "refused" /\ UNCHANGED <<sys, mach, file, kept, rom, wrecked>>
LoadFails(left) ==
  /\ ~Refused(file) /\ ~ReadsAll(file) /\ ~SilentFail(file)
  /\ mach' = ReadChunks(file, left) /\ sys' = ReadSystem(file, left)
  /\ said' = "failed" /\ wrecked' = TRUE /\ UNCHANGED <<file, kept, rom>>
LoadStale(left) ==  \* mutant: the maps are not written again
  /\ ~Refused(file) /\ (ReadsAll(file) \/ SilentFail(file))
  /\ mach' = ReadChunks(file, left) /\ sys' = ReadSystem(file, left)
  /\ said' = "loaded" /\ wrecked' = file.wrecked /\ UNCHANGED <<file, kept, rom>>
LoadSucceeds(left) ==
  /\ ~Refused(file) /\ (ReadsAll(file) \/ SilentFail(file))
  /\ mach' = Regenerated(ReadChunks(file, left)) /\ sys' = ReadSystem(file, left)
  /\ said' = "loaded" /\ wrecked' = file.wrecked /\ UNCHANGED <<file, kept, rom>>
\* loadstate_slot; that all translations are dropped afterwards is in Dynarec.
Load == LoadRefused \/ \E left \in {"zeros", "reset"} : LoadFails(left) \/ LoadSucceeds(left)

\* The application is left or killed, also while it writes; then NDS_LoadROM opens the game again.
\* A file that cannot be opened, is shorter than a header or is no ROM is printed and ignored.
Openings == {"opened", "unreadable", "short", "notRead", "notARom"}
Started == mach' = Of(0) /\ sys' = Booted(rom') /\ said' = "none" /\ wrecked' = FALSE
Reopen == (\E o \in Openings : rom' = (o = "opened")) /\ Started /\ UNCHANGED <<file, kept>>
Killed ==
  /\ \E cut \in Cuts : file' = NewFile(cut)
  /\ kept' = [mach |-> mach, sys |-> sys]
  /\ UNCHANGED rom /\ Started

SaveNext == Play \/ Mcr \/ Save \/ Load \/ Reopen \/ Killed
SaveSpec == SaveInit /\ [][SaveNext]_saveVars

-----------------------------------------------------------------------------
\* Unless a load has failed half way ("your current game session is wrecked", saves.cpp:1142), also
\* in the session the file was written in, the registers of the coprocessor, their copies in MMU and
\* the processor, and the masks agree: after each MCR, each reset and each load.
ControlApplied == ~wrecked => Applied(sys)

\* A load that is said to have succeeded has restored every entry the file holds, the coprocessor
\* and its copies, and regenerates the maps of video memory from the registers. The exception is
\* section 61 of a file of version 0, or of one cut between its heading and its version: it fails
\* silently, and restores only the sections before it. A load fails only for a file cut short or a
\* version 1 of unknown size, and what is refused changes nothing.
\* (The state of IntrWait of the ARM9 is in no file, though SF_ARM9 has an entry named for it.)
Complete(f) == f.cut = Whole /\ (f.version = 0 => f.sized)
Early(i) == \E k \in 1 .. Mmu61 - 1 : i \in Sections[k]
Holds(f, i) ==
  /\ i \notin Unsaved \cup f.lacks /\ (i \in DOMAIN Since => Since[i] <= f.version)
  /\ Early(i) \/ Complete(f)
Restores ==
  /\ \A i \in Parts : Holds(file, i) => mach'[i] = kept.mach[i]
  /\ mach'["banks"] = Value("banks", mach'["registers"][2])
  /\ sys' = kept.sys
LoadStep ==
  /\ said' = "loaded" => Restores /\ (Complete(file) \/ file.version = 0 \/ file.cut.sections = Mmu61 - 1)
  /\ said' = "failed" => file.cut # Whole \/ (file.version = 1 /\ ~file.sized)
  /\ said' = "refused" => UNCHANGED <<mach, sys>>
LoadRestores == [][LoadStep]_saveVars
=============================================================================
