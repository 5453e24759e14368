------------------------------ MODULE BackupDevice ------------------------------
(***************************************************************************)
(* The backup memory of a game card (mc.cpp, class BackupDevice) and the    *)
(* save file behind it: the SPI commands of the game, the detection of the  *)
(* address size, the two deferred flushes, loading, and savestates.         *)
(*                                                                          *)
(* A vector that resize() extends with kUninitializedSaveDataValue, written *)
(* to a file that flush() pads with the same value, is a function on Addr   *)
(* that is Erased where nothing was stored.  data_autodetect is its length. *)
(* Manual backup types, imports of raw files, movie mode and the motion     *)
(* commands are left out: nothing in the application selects them.          *)
(***************************************************************************)
EXTENDS Naturals

CONSTANTS Byte, Erased,   \* values of a byte, and kUninitializedSaveDataValue
          Base, Mask,     \* 256 and 512: one address byte; the range of small EEPROMs
          Top,            \* bound: the game uses addresses below Top
          MaxAuto,        \* bound: bytes sent before the first reset of the chip
          Opens,          \* outcomes of opening the save file for writing
          Images          \* memories found in savestates of the same game

Addr == 0 .. Top - 1

ASSUME BackupAssumption ==
  /\ Byte \subseteq Nat /\ Erased \in Byte
  /\ Base \in Nat \ {0} /\ Mask \in Nat \ {0} /\ Top \in Nat \ {0} /\ MaxAuto \in Nat
  /\ Opens \subseteq BOOLEAN /\ Images \subseteq [Addr -> Byte]

VARIABLES state, com, addr, addr_counter, addr_size, write_enable,
          data, data_autodetect, flushPending, lazyFlushPending,
          file,         \* the .dsv file: absent, or data and addr_size of its footer
          outdated      \* history: the file lags for a reason outside the commands,
                        \* a savestate was loaded or the file could not be opened

device == <<com, addr, addr_counter, write_enable>>
vars == <<state, device, addr_size, data, data_autodetect, flushPending,
          lazyFlushPending, file, outdated>>

Blank == [a \in Addr |-> Erased]
NoFile == [exists |-> FALSE, data |-> Blank, addr_size |-> 0]
File == [exists : BOOLEAN, data : [Addr -> Byte], addr_size : 0 .. 3]

TypeOK ==
  /\ state \in {"DETECTING", "RUNNING"}
  /\ com \in {"none", "READSTATUS", "READLOW", "WRITELOW"}
  /\ addr \in Nat /\ addr_counter \in 0 .. 3 /\ addr_size \in 0 .. 3
  /\ write_enable \in BOOLEAN
  /\ data \in [Addr -> Byte] /\ data_autodetect \in 0 .. MaxAuto
  /\ flushPending \in BOOLEAN /\ lazyFlushPending \in BOOLEAN
  /\ file \in File /\ outdated \in BOOLEAN

--------------------------------------------------------------------------------
(* Loading and saving *)

\* reset_hardware
ResetHardware ==
  /\ write_enable' = FALSE /\ com' = "none" /\ addr' = 0 /\ addr_counter' = 0
  /\ flushPending' = FALSE /\ lazyFlushPending' = FALSE

\* loadfile: a file with the footer replaces detection by what was detected before
LoadFile ==
  /\ data' = file.data
  /\ state' = IF file.exists THEN "RUNNING" ELSE "DETECTING"
  /\ addr_size' = file.addr_size

\* NDS_LoadROM, NDS_Reset and MMU_Reset: load_rom with the name kept from before.
\* Nothing is flushed first: close_rom has no caller.
LoadRom ==
  /\ ResetHardware /\ LoadFile
  /\ data_autodetect' = 0
  /\ outdated' = FALSE
  /\ UNCHANGED file

\* flush: the file is opened with truncation and written with its footer
Flush(size) ==
  \E open \in Opens :
    /\ file' = IF open THEN [exists |-> TRUE, data |-> data, addr_size |-> size] ELSE file
    /\ outdated' = ~open

LazyFlushReads ==   \* mutant: looks at the flag of reads only
  /\ lazyFlushPending
  /\ flushPending' = FALSE /\ lazyFlushPending' = FALSE
  /\ Flush(addr_size)
  /\ UNCHANGED <<state, device, addr_size, data, data_autodetect>>

\* lazy_flush, from every 64th frame of NDS_exec, whatever the chip is doing
LazyFlush ==
  /\ flushPending \/ lazyFlushPending
  /\ flushPending' = FALSE /\ lazyFlushPending' = FALSE
  /\ Flush(addr_size)
  /\ UNCHANGED <<state, device, addr_size, data, data_autodetect>>

\* savestate_load: NDS_Reset, then load_state, from a state saved between commands
LoadState(image, size) ==
  /\ ResetHardware
  /\ state' = "RUNNING" /\ data' = image /\ addr_size' = size
  /\ data_autodetect' = 0
  /\ outdated' = TRUE
  /\ UNCHANGED file

--------------------------------------------------------------------------------
(* AUXSPICNT = 0: the chip is deselected *)

\* reset_command: the address size meant by the bytes sent since the last reset.  Four
\* bytes mean 3, or 2 for the signature of one game.
DetectedSizes(n) == CASE n = 1 -> {1}
                      [] n = 2 -> {1}
                      [] n = 3 -> {2}
                      [] n = 4 -> {2, 3}
                      [] OTHER -> {n % 4}

FlushPage ==
  IF flushPending
    THEN Flush(addr_size) /\ flushPending' = FALSE /\ lazyFlushPending' = FALSE
    ELSE UNCHANGED <<file, outdated, flushPending, lazyFlushPending>>

DetectUnsaved ==   \* mutant: the flush after a detection is missing
  /\ \E size \in DetectedSizes(data_autodetect) : addr_size' = size
  /\ state' = "RUNNING" /\ data_autodetect' = 0
  /\ UNCHANGED <<flushPending, lazyFlushPending, file, outdated>>

Detect ==
  /\ \E size \in DetectedSizes(data_autodetect) : addr_size' = size /\ Flush(size)
  /\ state' = "RUNNING" /\ data_autodetect' = 0
  /\ UNCHANGED <<flushPending, lazyFlushPending>>

\* A device that detects has nothing pending, so that one flush at most takes place.
ResetCommand ==
  /\ \/ state = "DETECTING" /\ data_autodetect > 0 /\ Detect
     \/ /\ ~(state = "DETECTING" /\ data_autodetect > 0)
        /\ FlushPage
        /\ UNCHANGED <<state, addr_size, data_autodetect>>
  /\ com' = "none"
  /\ UNCHANGED <<addr, addr_counter, write_enable, data>>

--------------------------------------------------------------------------------
(* data_command: a byte written to AUXSPIDATA *)

Low == com \in {"READLOW", "WRITELOW"}

\* a byte while the address size is unknown: kept until the chip is deselected
DetectByte ==
  /\ Low /\ state = "DETECTING" /\ data_autodetect < MaxAuto
  /\ data_autodetect' = data_autodetect + 1
  /\ UNCHANGED <<state, device, addr_size, data, flushPending, lazyFlushPending, file, outdated>>

AddressByteLate(val) ==   \* mutant: takes one address byte too many
  /\ Low /\ state = "RUNNING" /\ addr_counter <= addr_size
  /\ addr' = addr * Base + val
  /\ addr_counter' = addr_counter + 1
  /\ UNCHANGED <<state, com, write_enable, addr_size, data, data_autodetect,
                 flushPending, lazyFlushPending, file, outdated>>

AddressByte(val) ==
  /\ Low /\ state = "RUNNING" /\ addr_counter < addr_size
  /\ addr' = addr * Base + val
  /\ addr_counter' = addr_counter + 1
  /\ UNCHANGED <<state, com, write_enable, addr_size, data, data_autodetect,
                 flushPending, lazyFlushPending, file, outdated>>

\* the address a data byte goes to: small EEPROMs wrap
Wrapped == IF addr_size = 1 THEN addr % Mask ELSE addr

Accessing == Low /\ state = "RUNNING" /\ addr_counter >= addr_size /\ Wrapped < Top

ReadByte ==
  /\ Accessing /\ com = "READLOW"
  /\ lazyFlushPending' = TRUE
  /\ addr' = Wrapped + 1
  /\ UNCHANGED <<state, com, addr_counter, write_enable, addr_size, data, data_autodetect,
                 flushPending, file, outdated>>

StoreUnmarked(val) ==   \* mutant: a write leaves the flush to later reads
  IF write_enable THEN data' = [data EXCEPT ![Wrapped] = val] /\ UNCHANGED flushPending
                  ELSE UNCHANGED <<data, flushPending>>

Store(val) ==
  IF write_enable THEN data' = [data EXCEPT ![Wrapped] = val] /\ flushPending' = TRUE
                  ELSE UNCHANGED <<data, flushPending>>

WriteByte(val) ==
  /\ Accessing /\ com = "WRITELOW"
  /\ Store(val)
  /\ addr' = Wrapped + 1
  /\ UNCHANGED <<state, com, addr_counter, write_enable, addr_size, data_autodetect,
                 lazyFlushPending, file, outdated>>

Select(c, first) ==
  /\ com' = c /\ addr' = first /\ addr_counter' = 0
  /\ UNCHANGED write_enable

\* a byte that begins a command
Command ==
  /\ com = "none"
  /\ \/ \E c \in {"READLOW", "WRITELOW"} :
          \/ Select(c, 0)
          \/ Select(c, IF addr_size = 1 THEN 1 ELSE 0)    \* READHIGH, WRITEHIGH
     \/ com' = "READSTATUS" /\ UNCHANGED <<addr, addr_counter, write_enable>>
     \/ \E enable \in BOOLEAN : write_enable' = enable /\ UNCHANGED <<com, addr, addr_counter>>
  /\ UNCHANGED <<state, addr_size, data, data_autodetect, flushPending, lazyFlushPending,
                 file, outdated>>

--------------------------------------------------------------------------------
\* NDS_LoadROM on a game with no save file
Init ==
  /\ state = "DETECTING" /\ com = "none" /\ addr = 0 /\ addr_counter = 0 /\ addr_size = 0
  /\ write_enable = FALSE /\ data = Blank /\ data_autodetect = 0
  /\ flushPending = FALSE /\ lazyFlushPending = FALSE
  /\ file = NoFile /\ outdated = FALSE

Next ==
  \/ Command \/ DetectByte \/ ReadByte \/ ResetCommand \/ LazyFlush \/ LoadRom
  \/ \E val \in Byte : AddressByte(val) \/ WriteByte(val)
  \/ \E image \in Images, size \in 1 .. 3 : LoadState(image, size)

Spec == Init /\ [][Next]_vars

\* NDS_exec calls lazy_flush again and again; the game owes nothing.
FairSpec == Spec /\ WF_vars(LazyFlush)

--------------------------------------------------------------------------------
(* Properties *)

\* The two flags cover every way the memory can differ from the file: bytes a game has
\* written are on disk, or a flush of them is pending, in every state of a command
\* (data_command, reset_command, lazy_flush).
DirtyIsPending ==
  data # file.data => flushPending \/ lazyFlushPending \/ outdated

\* The footer on disk tells the next session the address size this one uses, from the
\* moment it is detected: a reload neither detects again nor addresses differently.
FooterMatches ==
  ~outdated => /\ file.exists = (state = "RUNNING")
               /\ addr_size = file.addr_size

\* What the game has written reaches the file even if the chip is never deselected
\* again, unless the machine is reset or restored first.
DirtyReachesFile == (data # file.data) ~> (data = file.data \/ outdated)

\* Flags and footer are true to what memory and file hold (mc.cpp).
PendingTruthful == TypeOK /\ DirtyIsPending /\ FooterMatches
================================================================================
