------------------------------- MODULE UnitsProofs ------------------------------
(***************************************************************************)
(* Proofs about the units that work on their own between two register       *)
(* writes, for every value of their constants: of the backup memory, no     *)
(* write is forgotten, and the footer on disk describes the device in use;  *)
(* of the game card, who polls it is owed a word, and the words are those   *)
(* the command asked for; of the matrix stacks, position and direction      *)
(* matrices never part, and a pop gives back what its push took; of the     *)
(* polygon lists, every polygon the game described is in the list with its  *)
(* vertices, and the list is drawn completely and in order; of the sound    *)
(* channels, ADPCM is decoded in order whatever the game writes meanwhile;   *)
(* of the geometry commands, the engine is called with what was packed and   *)
(* with all its parameters; of the serial bus, the firmware, the power       *)
(* management and the touch screen answer as their chips would.              *)
(***************************************************************************)
EXTENDS BackupDevice, GameCard, MatrixStacks, PolygonLists, SoundChannel,
        GeometryCommands, SerialBus, FiniteSetTheorems, SequenceTheorems, WellFoundedInduction, TLAPS

-----------------------------------------------------------------------------
(* The backup memory: invariant *)

\* A device whose address size is unknown has stored nothing, so nothing is pending:
\* no flush can write a footer before reset_command has detected the size.
DetectingIsClean == state = "DETECTING" => ~flushPending /\ ~lazyFlushPending

Inv == TypeOK /\ DirtyIsPending /\ FooterMatches /\ DetectingIsClean

--------------------------------------------------------------------------------
(* The backup memory: arithmetic *)

\* Detection yields an address size of at most three bytes (reset_command).
LEMMA DetectedRange ==
  ASSUME NEW n \in Nat, NEW size \in DetectedSizes(n)
  PROVE  size \in 0 .. 3
<1>1. n % 4 \in 0 .. 3
  OBVIOUS
<1>2. QED
  BY <1>1 DEF DetectedSizes

\* The address of a data byte is a number, wrapped or not (data_command).
LEMMA WrappedNat ==
  ASSUME addr \in Nat
  PROVE  Wrapped \in Nat
<1>1. addr % Mask \in Nat
  BY BackupAssumption
<1>2. QED
  BY <1>1 DEF Wrapped

\* Appending an address byte yields a number (data_command).
LEMMA ShiftNat ==
  ASSUME addr \in Nat, NEW val \in Byte
  PROVE  addr * Base + val \in Nat
BY BackupAssumption

\* An empty memory and an absent file are values of their types (resize, loadfile).
LEMMA BlankType == Blank \in [Addr -> Byte] /\ NoFile \in File
BY BackupAssumption DEF Blank, NoFile, File

\* A flush writes a file of the format, and it makes file and memory agree unless the
\* file cannot be opened (flush).
LEMMA FlushEffect ==
  ASSUME TypeOK, NEW size \in 0 .. 3, Flush(size)
  PROVE  /\ file' \in File /\ outdated' \in BOOLEAN
         /\ ~outdated' => file' = [exists |-> TRUE, data |-> data, addr_size |-> size]
<1>1. PICK open \in Opens :
        /\ file' = IF open THEN [exists |-> TRUE, data |-> data, addr_size |-> size] ELSE file
        /\ outdated' = ~open
  BY DEF Flush
<1>2. open \in BOOLEAN
  BY BackupAssumption
<1>3. [exists |-> TRUE, data |-> data, addr_size |-> size] \in File
  BY DEF File, TypeOK
<1>4. file \in File
  BY DEF TypeOK
<1>5. CASE open
  BY <1>1, <1>3, <1>5
<1>6. CASE ~open
  BY <1>1, <1>4, <1>6
<1>7. QED
  BY <1>2, <1>5, <1>6

--------------------------------------------------------------------------------
(* The backup memory: one lemma for each operation *)

\* A device loaded without a save file satisfies the invariant.
LEMMA InitInv == Init => Inv
<1> SUFFICES ASSUME Init PROVE Inv
  OBVIOUS
<1>1. TypeOK
  <2>1. data \in [Addr -> Byte] /\ file \in File
    BY BlankType DEF Init
  <2>2. data_autodetect \in 0 .. MaxAuto
    BY BackupAssumption DEF Init
  <2>3. addr \in Nat /\ addr_counter \in 0 .. 3 /\ addr_size \in 0 .. 3
    BY DEF Init
  <2>4. /\ write_enable \in BOOLEAN /\ outdated \in BOOLEAN
        /\ flushPending \in BOOLEAN /\ lazyFlushPending \in BOOLEAN
    BY DEF Init
  <2>5. /\ state \in {"DETECTING", "RUNNING"}
        /\ com \in {"none", "READSTATUS", "READLOW", "WRITELOW"}
    BY DEF Init
  <2>6. QED
    BY <2>1, <2>2, <2>3, <2>4, <2>5 DEF TypeOK
<1>2. DirtyIsPending /\ FooterMatches /\ DetectingIsClean
  BY DEF Init, DirtyIsPending, FooterMatches, DetectingIsClean, NoFile
<1>3. QED
  BY <1>1, <1>2 DEF Inv

\* What reset_hardware leaves behind is of the right types.
LEMMA ResetTypes ==
  ASSUME ResetHardware
  PROVE  /\ write_enable' \in BOOLEAN /\ com' \in {"none", "READSTATUS", "READLOW", "WRITELOW"}
         /\ addr' \in Nat /\ addr_counter' \in 0 .. 3
         /\ flushPending' \in BOOLEAN /\ lazyFlushPending' \in BOOLEAN
<1>1. /\ write_enable' \in BOOLEAN
      /\ flushPending' \in BOOLEAN /\ lazyFlushPending' \in BOOLEAN
  BY DEF ResetHardware
<1>2. com' \in {"none", "READSTATUS", "READLOW", "WRITELOW"}
  BY DEF ResetHardware
<1>3. addr' \in Nat /\ addr_counter' \in 0 .. 3
  BY DEF ResetHardware
<1>4. QED
  BY <1>1, <1>2, <1>3

\* Loading the file makes memory and footer agree with it (load_rom, loadfile).
LEMMA LoadRomInv == Inv /\ LoadRom => Inv'
<1> SUFFICES ASSUME Inv, LoadRom PROVE Inv'
  OBVIOUS
<1>1. TypeOK'
  <2>1. data' \in [Addr -> Byte] /\ addr_size' \in 0 .. 3 /\ file' \in File
    BY DEF Inv, TypeOK, File, LoadRom, LoadFile
  <2>2. state' \in {"DETECTING", "RUNNING"}
    BY DEF LoadRom, LoadFile
  <2>3. data_autodetect' \in 0 .. MaxAuto
    BY BackupAssumption DEF LoadRom
  <2>4. QED
    BY <2>1, <2>2, <2>3, ResetTypes DEF TypeOK, LoadRom
<1>2. DirtyIsPending' /\ DetectingIsClean'
  BY DEF LoadRom, LoadFile, ResetHardware, DirtyIsPending, DetectingIsClean
<1>3. FooterMatches'
  <2>1. file.exists \in BOOLEAN
    BY DEF Inv, TypeOK, File
  <2>2. QED
    BY <2>1 DEF LoadRom, LoadFile, FooterMatches
<1>4. QED
  BY <1>1, <1>2, <1>3 DEF Inv

\* A savestate sets outdated, and leaves nothing pending (load_state).
LEMMA LoadStateInv ==
  ASSUME Inv, NEW image \in Images, NEW size \in 1 .. 3, LoadState(image, size)
  PROVE  Inv'
<1>1. TypeOK'
  <2>1. image \in [Addr -> Byte] /\ size \in 0 .. 3
    BY BackupAssumption
  <2>2. data_autodetect' \in 0 .. MaxAuto
    BY BackupAssumption DEF LoadState
  <2>3. file' \in File
    BY DEF Inv, TypeOK, LoadState
  <2>4. QED
    BY <2>1, <2>2, <2>3, ResetTypes DEF TypeOK, LoadState
<1>2. DirtyIsPending' /\ FooterMatches' /\ DetectingIsClean'
  BY DEF LoadState, ResetHardware, DirtyIsPending, FooterMatches, DetectingIsClean
<1>3. QED
  BY <1>1, <1>2 DEF Inv

\* A step that keeps the memory and its address and writes file and flags of their types
\* keeps all types (lazy_flush, reset_command).
LEMMA FlushTypes ==
  ASSUME TypeOK,
         flushPending' \in BOOLEAN /\ lazyFlushPending' \in BOOLEAN,
         file' \in File /\ outdated' \in BOOLEAN,
         /\ com' \in {"none", "READSTATUS", "READLOW", "WRITELOW"}
         /\ state' \in {"DETECTING", "RUNNING"},
         addr_size' \in 0 .. 3 /\ data_autodetect' \in 0 .. MaxAuto,
         UNCHANGED <<addr, addr_counter, write_enable, data>>
  PROVE  TypeOK'
BY DEF TypeOK

\* A running device whose file has just been written, or could not be, needs no flags.
LEMMA FlushSettles ==
  ASSUME state' = "RUNNING",
         ~outdated' => file' = [exists |-> TRUE, data |-> data', addr_size |-> addr_size']
  PROVE  DirtyIsPending' /\ FooterMatches' /\ DetectingIsClean'
<1>1. DetectingIsClean'
  BY DEF DetectingIsClean
<1>2. CASE outdated'
  BY <1>1, <1>2 DEF DirtyIsPending, FooterMatches
<1>3. CASE ~outdated'
  <2>1. file'.exists = TRUE /\ file'.data = data' /\ file'.addr_size = addr_size'
    BY <1>3
  <2>2. DirtyIsPending'
    BY <2>1 DEF DirtyIsPending
  <2>3. FooterMatches'
    BY <2>1 DEF FooterMatches
  <2>4. QED
    BY <1>1, <2>2, <2>3
<1>4. QED
  BY <1>2, <1>3

\* The periodic flush, in whatever state of a command it falls (lazy_flush).
LEMMA LazyFlushInv == Inv /\ LazyFlush => Inv'
<1> SUFFICES ASSUME Inv, LazyFlush PROVE Inv'
  OBVIOUS
<1>1. /\ file' \in File /\ outdated' \in BOOLEAN
      /\ ~outdated' => file' = [exists |-> TRUE, data |-> data, addr_size |-> addr_size]
  <2>1. TypeOK /\ addr_size \in 0 .. 3 /\ Flush(addr_size)
    BY DEF Inv, TypeOK, LazyFlush
  <2>2. QED
    BY <2>1, FlushEffect
<1>2. state = "RUNNING"
  BY DEF Inv, TypeOK, DetectingIsClean, LazyFlush
<1>3. TypeOK'
  <2>1. flushPending' \in BOOLEAN /\ lazyFlushPending' \in BOOLEAN
    BY DEF LazyFlush
  <2>2. file' \in File /\ outdated' \in BOOLEAN
    BY <1>1
  <2>3. UNCHANGED <<state, com, addr, addr_counter, write_enable, addr_size, data,
                    data_autodetect>>
    BY DEF LazyFlush, device
  <2>4. /\ com' \in {"none", "READSTATUS", "READLOW", "WRITELOW"}
        /\ state' \in {"DETECTING", "RUNNING"}
    BY <2>3 DEF Inv, TypeOK
  <2>5. addr_size' \in 0 .. 3 /\ data_autodetect' \in 0 .. MaxAuto
    BY <2>3 DEF Inv, TypeOK
  <2>6. TypeOK
    BY DEF Inv
  <2>7. QED
    BY <2>1, <2>2, <2>3, <2>4, <2>5, <2>6, FlushTypes
<1>4. DirtyIsPending' /\ FooterMatches' /\ DetectingIsClean'
  <2>1. UNCHANGED <<state, addr_size, data>>
    BY DEF LazyFlush
  <2>2. QED
    BY <1>1, <1>2, <2>1, FlushSettles
<1>5. QED
  BY <1>3, <1>4 DEF Inv

\* Deselecting the chip: a detection, a flush of a page, or neither (reset_command).
LEMMA ResetCommandInv == Inv /\ ResetCommand => Inv'
<1> SUFFICES ASSUME Inv, ResetCommand PROVE Inv'
  OBVIOUS
<1>1. com' = "none" /\ UNCHANGED <<addr, addr_counter, write_enable, data>>
  BY DEF ResetCommand
<1>2. CASE Detect
  <2>1. PICK size \in DetectedSizes(data_autodetect) : addr_size' = size /\ Flush(size)
    BY <1>2 DEF Detect
  <2>2. size \in 0 .. 3
    <3>1. data_autodetect \in Nat
      BY BackupAssumption DEF Inv, TypeOK
    <3>2. QED
      BY <2>1, <3>1, DetectedRange
  <2>3. /\ file' \in File /\ outdated' \in BOOLEAN
        /\ ~outdated' => file' = [exists |-> TRUE, data |-> data, addr_size |-> size]
    BY <2>1, <2>2, FlushEffect DEF Inv
  <2>4. /\ state' = "RUNNING" /\ data_autodetect' = 0
        /\ UNCHANGED <<flushPending, lazyFlushPending>>
    BY <1>2 DEF Detect
  <2>5. TypeOK'
    <3>1. addr_size' \in 0 .. 3 /\ data_autodetect' \in 0 .. MaxAuto
      BY <2>1, <2>2, <2>4, BackupAssumption
    <3>2. /\ com' \in {"none", "READSTATUS", "READLOW", "WRITELOW"}
          /\ state' \in {"DETECTING", "RUNNING"}
      BY <1>1, <2>4
    <3>3. file' \in File /\ outdated' \in BOOLEAN
      BY <2>3
    <3>4. flushPending' \in BOOLEAN /\ lazyFlushPending' \in BOOLEAN
      BY <2>4 DEF Inv, TypeOK
    <3>5. TypeOK
      BY DEF Inv
    <3>6. QED
      BY <1>1, <3>1, <3>2, <3>3, <3>4, <3>5, FlushTypes
  <2>6. DirtyIsPending' /\ FooterMatches' /\ DetectingIsClean'
    BY <1>1, <2>1, <2>3, <2>4, FlushSettles
  <2>7. QED
    BY <2>5, <2>6 DEF Inv
<1>3. CASE FlushPage /\ flushPending /\ UNCHANGED <<state, addr_size, data_autodetect>>
  <2>1. /\ file' \in File /\ outdated' \in BOOLEAN
        /\ ~outdated' => file' = [exists |-> TRUE, data |-> data, addr_size |-> addr_size]
    <3>1. TypeOK /\ addr_size \in 0 .. 3 /\ Flush(addr_size)
      BY <1>3 DEF Inv, TypeOK, FlushPage
    <3>2. QED
      BY <3>1, FlushEffect
  <2>2. state = "RUNNING"
    BY <1>3 DEF Inv, TypeOK, DetectingIsClean
  <2>3. flushPending' = FALSE /\ lazyFlushPending' = FALSE
    BY <1>3 DEF FlushPage
  <2>4. TypeOK'
    <3>1. flushPending' \in BOOLEAN /\ lazyFlushPending' \in BOOLEAN
      BY <2>3
    <3>2. file' \in File /\ outdated' \in BOOLEAN
      BY <2>1
    <3>3. /\ com' \in {"none", "READSTATUS", "READLOW", "WRITELOW"}
          /\ state' \in {"DETECTING", "RUNNING"}
      BY <1>1, <1>3 DEF Inv, TypeOK
    <3>4. addr_size' \in 0 .. 3 /\ data_autodetect' \in 0 .. MaxAuto
      BY <1>3 DEF Inv, TypeOK
    <3>5. TypeOK
      BY DEF Inv
    <3>6. QED
      BY <1>1, <3>1, <3>2, <3>3, <3>4, <3>5, FlushTypes
  <2>5. DirtyIsPending' /\ FooterMatches' /\ DetectingIsClean'
    BY <1>1, <1>3, <2>1, <2>2, FlushSettles
  <2>6. QED
    BY <2>4, <2>5 DEF Inv
<1>4. CASE FlushPage /\ ~flushPending /\ UNCHANGED <<state, addr_size, data_autodetect>>
  <2>1. UNCHANGED <<file, outdated, flushPending, lazyFlushPending>>
    BY <1>4 DEF FlushPage
  <2>2. QED
    BY <1>1, <1>4, <2>1
       DEF Inv, TypeOK, DirtyIsPending, FooterMatches, DetectingIsClean
<1>5. QED
  BY <1>2, <1>3, <1>4 DEF ResetCommand

\* Bytes that store nothing leave memory, file and flags of writes alone.
LEMMA QuietInv ==
  ASSUME Inv, DetectByte \/ ReadByte \/ Command \/ \E val \in Byte : AddressByte(val)
  PROVE  Inv'
<1>1. CASE DetectByte
  <2>1. data_autodetect' \in 0 .. MaxAuto
    BY <1>1, BackupAssumption DEF DetectByte, Inv, TypeOK
  <2>2. QED
    BY <1>1, <2>1 DEF DetectByte, device, Inv, TypeOK, DirtyIsPending, FooterMatches,
                      DetectingIsClean
<1>2. CASE ReadByte
  <2>1. addr' \in Nat
    BY <1>2, WrappedNat DEF ReadByte, Inv, TypeOK
  <2>2. QED
    BY <1>2, <2>1 DEF ReadByte, Accessing, Inv, TypeOK, DirtyIsPending, FooterMatches,
                      DetectingIsClean
<1>3. CASE Command
  <2>1. /\ com' \in {"none", "READSTATUS", "READLOW", "WRITELOW"}
        /\ addr' \in Nat /\ addr_counter' \in 0 .. 3 /\ write_enable' \in BOOLEAN
    BY <1>3 DEF Command, Select, Inv, TypeOK
  <2>2. QED
    BY <1>3, <2>1 DEF Command, Inv, TypeOK, DirtyIsPending, FooterMatches, DetectingIsClean
<1>4. ASSUME NEW val \in Byte, AddressByte(val) PROVE Inv'
  <2>1. addr' \in Nat
    BY <1>4, ShiftNat DEF AddressByte, Inv, TypeOK
  <2>2. addr_counter' \in 0 .. 3
    BY <1>4 DEF AddressByte, Inv, TypeOK
  <2>3. QED
    BY <1>4, <2>1, <2>2 DEF AddressByte, Inv, TypeOK, DirtyIsPending, FooterMatches,
                            DetectingIsClean
<1>5. QED
  BY <1>1, <1>2, <1>3, <1>4

\* A byte that is stored marks the memory as dirty in the same step (data_command).
LEMMA WriteByteInv ==
  ASSUME Inv, NEW val \in Byte, WriteByte(val)
  PROVE  Inv'
<1>1. addr' \in Nat
  BY WrappedNat DEF WriteByte, Inv, TypeOK
<1>2. state = "RUNNING"
  BY DEF WriteByte, Accessing
<1>3. /\ data' \in [Addr -> Byte]
      /\ \/ flushPending' = TRUE
         \/ UNCHANGED <<data, flushPending>>
  BY DEF WriteByte, Store, Inv, TypeOK
<1>4. TypeOK'
  BY <1>1, <1>3 DEF WriteByte, Inv, TypeOK
<1>5. DirtyIsPending' /\ FooterMatches' /\ DetectingIsClean'
  BY <1>2, <1>3 DEF WriteByte, Inv, DirtyIsPending, FooterMatches, DetectingIsClean
<1>6. QED
  BY <1>4, <1>5 DEF Inv

--------------------------------------------------------------------------------
(* The backup memory: theorems *)

\* Every step keeps the invariant.
LEMMA StepInv == Inv /\ [Next]_vars => Inv'
<1> SUFFICES ASSUME Inv, [Next]_vars PROVE Inv'
  OBVIOUS
<1>1. CASE DetectByte \/ ReadByte \/ Command \/ \E val \in Byte : AddressByte(val)
  BY <1>1, QuietInv
<1>2. CASE ResetCommand
  BY <1>2, ResetCommandInv
<1>3. CASE LazyFlush
  BY <1>3, LazyFlushInv
<1>4. CASE LoadRom
  BY <1>4, LoadRomInv
<1>5. CASE \E val \in Byte : WriteByte(val)
  BY <1>5, WriteByteInv
<1>6. CASE \E image \in Images, size \in 1 .. 3 : LoadState(image, size)
  BY <1>6, LoadStateInv
<1>7. CASE UNCHANGED vars
  BY <1>7 DEF vars, device, Inv, TypeOK, DirtyIsPending, FooterMatches, DetectingIsClean
<1>8. QED
  BY <1>1, <1>2, <1>3, <1>4, <1>5, <1>6, <1>7 DEF Next

\* The invariant holds throughout.
LEMMA InvariantHolds == Spec => []Inv
BY InitInv, StepInv, PTL DEF Spec

\* Types, for every memory: no command sequence makes the device count past three
\* address bytes or store outside its memory (data_command).
THEOREM TypeCorrect == Spec => []TypeOK
BY InvariantHolds, PTL DEF Inv

\* No write of a game is forgotten: memory that differs from the save file always has a
\* flush pending, but after a savestate or a file that would not open (data_command).
THEOREM WritesArePending == Spec => []DirtyIsPending
BY InvariantHolds, PTL DEF Inv

\* The save file and the device agree on whether and how the memory is addressed
\* (reset_command, flush, loadfile).
THEOREM FooterIsRight == Spec => []FooterMatches
BY InvariantHolds, PTL DEF Inv

\* Flags and footer are true to what memory and file hold (mc.cpp).
THEOREM PendingIsTruthful == Spec => []PendingTruthful
<1>1. TypeOK /\ DirtyIsPending /\ FooterMatches => PendingTruthful
  BY DEF PendingTruthful
<1> QED
  BY <1>1, TypeCorrect, WritesArePending, FooterIsRight, PTL

-----------------------------------------------------------------------------
(* The game card *)

CardCommandType == [op : Ops, adr : Nat]
CardType == [command : CardCommandType, address : Nat, count : Nat, mode : {"normal", "key1"}]
ControlType == [start : BOOLEAN, ready : BOOLEAN, size : DOMAIN Sizes, command : CardCommandType]
BlockType == [cmd : CardCommandType, asked : Nat, got : Nat, told : BOOLEAN, changed : BOOLEAN]

\* What card, control word and the game's block have to do with each other, now or in a
\* savestate: the words left are those owed, and a data read is at the word to come.
Owed(c, k, b) ==
  /\ c \in CardType /\ k \in ControlType /\ b \in BlockType
  /\ b.got + c.count = b.asked
  /\ k.ready <=> c.count > 0
  /\ ~b.changed => (k.start <=> k.ready)
  /\ c.count = 0 => b.told
  /\ b.asked > 0 => c.command = b.cmd \/ c.command = Zero
  /\ b.asked > 0 /\ b.cmd.op \in {"read0", "read"} => c.address = b.cmd.adr + b.got

\* What the last step gave belongs to the block it was given for.
HeardRight ==
  /\ heard.dma => \E q \in CardProcs : control[q].ready
  /\ \A p \in CardProcs : heard.by = p =>
       /\ \/ heard.word = Expected(block[p].cmd, block[p].got - 1)
          \/ Reloaded(p) /\ (block[p].cmd.op \notin {"read", "read0"} \/ (block[p].cmd.adr + block[p].got - 1) % CardMask < Secure)
       /\ heard.irq => card[p].count = 0 /\ block[p].asked > 0

CardInv ==
  /\ card = [p \in CardProcs |-> card[p]] /\ control = [p \in CardProcs |-> control[p]]
  /\ block = [p \in CardProcs |-> block[p]]
  /\ \A p \in CardProcs : Owed(card[p], control[p], block[p])
  /\ savedCard.state # Fresh =>
       /\ savedCard.state.control = [p \in CardProcs |-> savedCard.state.control[p]]
       /\ \A p \in CardProcs : Owed(savedCard.state.card[p], savedCard.state.control[p], savedCard.block[p])
  /\ savedCard = [state |-> savedCard.state, block |-> savedCard.block, left |-> savedCard.left]
  /\ HeardRight

\* After a step that gives nothing, nothing is claimed of it.
LEMMA NothingHeard ==
  ASSUME heard' = Nothing
  PROVE  HeardRight'
<1>1. heard'.dma = FALSE /\ heard'.by = 0
  BY DEF Nothing
<1>2. 0 \notin CardProcs
  BY CardAssumption
<1>3. QED
  BY <1>1, <1>2 DEF HeardRight

\* The invariant says what a game may count on.
LEMMA CardInvMeans == CardInv => CardTrue
<1>1. SUFFICES ASSUME CardInv PROVE CardTrue
  OBVIOUS
<1>2. ASSUME NEW p \in CardProcs
      PROVE  /\ control[p].ready <=> card[p].count > 0
             /\ ~block[p].changed => control[p].start = control[p].ready
             /\ block[p].got + card[p].count = block[p].asked
             /\ card[p].count = 0 => block[p].told
  <2>1. Owed(card[p], control[p], block[p])
    BY <1>1 DEF CardInv
  <2>2. control[p].start \in BOOLEAN /\ control[p].ready \in BOOLEAN
    BY <2>1 DEF Owed, ControlType
  <2>3. ~block[p].changed => (control[p].start <=> control[p].ready)
    BY <2>1 DEF Owed
  <2>4. ~block[p].changed => control[p].start = control[p].ready
    BY <2>2, <2>3
  <2>5. QED
    BY <2>1, <2>4 DEF Owed
<1>3. HeardRight
  BY <1>1 DEF CardInv
<1>4. PollingTruthful
  BY <1>2, <1>3 DEF PollingTruthful, HeardRight
<1>5. WordsInOrder
  BY <1>2, <1>3 DEF WordsInOrder, HeardRight
<1>6. EndsTold
  BY <1>2, <1>3 DEF EndsTold, HeardRight
<1>7. QED
  BY <1>4, <1>5, <1>6 DEF CardTrue

\* A cleared command is a command, and nothing is owed for a cleared card (MMU_Reset).
LEMMA FreshOwed ==
  ASSUME NEW p \in CardProcs
  PROVE  /\ Zero \in CardCommandType /\ NoBlock \in BlockType
         /\ Fresh.card[p] \in CardType /\ Fresh.control[p] \in ControlType
         /\ Owed(Fresh.card[p], Fresh.control[p], NoBlock)
<1>1. Zero \in CardCommandType
  BY DEF Zero, CardCommandType, Ops
<1>2. NoBlock \in BlockType
  <2>1. 0 \in Nat /\ TRUE \in BOOLEAN /\ FALSE \in BOOLEAN
    OBVIOUS
  <2>2. QED
    BY <1>1, <2>1, Zenon DEF NoBlock, BlockType
<1>3. /\ Fresh.card[p] = [command |-> Zero, address |-> 0, count |-> 0, mode |-> "normal"]
      /\ Fresh.control[p] = [start |-> FALSE, ready |-> FALSE, size |-> 0, command |-> Zero]
  BY DEF Fresh
<1>4. Fresh.card[p] \in CardType /\ Fresh.control[p] \in ControlType
  <2>1. 0 \in DOMAIN Sizes /\ 0 \in Nat
    BY CardAssumption
  <2>2. [command |-> Zero, address |-> 0, count |-> 0, mode |-> "normal"] \in CardType
    BY <1>1 DEF CardType
  <2>3. [start |-> FALSE, ready |-> FALSE, size |-> 0, command |-> Zero] \in ControlType
    BY <1>1, <2>1 DEF ControlType
  <2>4. QED
    BY <1>3, <2>2, <2>3
<1>5. Owed(Fresh.card[p], Fresh.control[p], NoBlock)
  BY <1>2, <1>3, <1>4 DEF Owed, NoBlock
<1>6. QED
  BY <1>1, <1>2, <1>4, <1>5

\* The card begins cleared, with no block asked for (MMU_Reset).
LEMMA CardBegins == CardInit => CardInv
<1>1. SUFFICES ASSUME CardInit PROVE CardInv
  OBVIOUS
<1>2. card = [p \in CardProcs |-> card[p]] /\ control = [p \in CardProcs |-> control[p]] /\ block = [p \in CardProcs |-> block[p]]
  BY <1>1 DEF CardInit, Fresh
<1>3. \A p \in CardProcs : Owed(card[p], control[p], block[p])
  BY <1>1, FreshOwed DEF CardInit
<1>4. savedCard.state = Fresh /\ savedCard = [state |-> savedCard.state, block |-> savedCard.block, left |-> savedCard.left]
  BY <1>1 DEF CardInit
<1>5. heard.dma = FALSE /\ heard.by = 0
  BY <1>1 DEF CardInit, Nothing
<1>6. HeardRight
  BY <1>5, CardAssumption DEF HeardRight
<1>7. QED
  BY <1>2, <1>3, <1>4, <1>6 DEF CardInv

\* A card that is moved keeps its command.
LEMMA PositionedCard ==
  ASSUME NEW c \in CardType, NEW a \in Nat, NEW n \in Nat
  PROVE  /\ Positioned(c, a, n) \in CardType
         /\ Positioned(c, a, n).command = c.command
         /\ Positioned(c, a, n).address = a
         /\ Positioned(c, a, n).count = n
BY DEF CardType, Positioned

\* What a command makes of the card: a data read begins at its address, and what is counted is
\* a number of words (MMU_writeToGCControl, write32_GCROMCTRL).
LEMMA StartedCard ==
  ASSUME NEW c \in CardType, NEW size \in DOMAIN Sizes
  PROVE  /\ Started(c, size) \in CardType /\ Started(c, size).command = c.command
         /\ Started(c, size).count > 0 /\ c.command.op \in {"read0", "read"} =>
              Started(c, size).address = c.command.adr
<1> DEFINE asked == [c EXCEPT !.count = Sizes[size]]
<1>1. Sizes[size] \in Nat /\ Block \in Nat /\ DummyBlock \in Nat /\ 0 \in Nat /\ 1 \in Nat
  BY CardAssumption
<1>2. asked \in CardType /\ asked.command = c.command /\ asked.mode = c.mode /\ c.command.adr \in Nat
  BY <1>1 DEF CardType, CardCommandType
<1>a. asked \in CardType
  BY <1>2
<1>b. Block \in Nat /\ DummyBlock \in Nat
  BY <1>1
<1>c. c.command.adr \in Nat
  BY <1>2
<1> HIDE DEF asked
<1>3. CASE c.mode = "key1"
  <2>1. Started(c, size) = Positioned(asked, 0, 0)
    BY <1>3 DEF Started, asked
  <2>2. QED
    BY <2>1, <1>2, PositionedCard
<1>4. CASE c.mode # "key1" /\ c.command.op = "dummy"
  <2>1. Started(c, size) = Positioned(asked, 0, DummyBlock)
    BY <1>4 DEF Started, asked
  <2>2. /\ Positioned(asked, 0, DummyBlock) \in CardType
        /\ Positioned(asked, 0, DummyBlock).command = asked.command
    BY <1>a, <1>b, PositionedCard
  <2>3. Started(c, size) \in CardType /\ Started(c, size).command = c.command
    BY <2>1, <2>2, <1>2
  <2>4. QED
    BY <2>3, <1>4
<1>5. CASE c.mode # "key1" /\ c.command.op = "key1"
  <2>1. Started(c, size) = [asked EXCEPT !.mode = "key1"]
    BY <1>5 DEF Started, asked
  <2>2. Started(c, size) \in CardType
    BY <2>1, <1>2 DEF CardType
  <2>3. Started(c, size).command = c.command
    BY <2>1, <1>2 DEF CardType
  <2>4. QED
    BY <2>2, <2>3, <1>5
<1>6. CASE c.mode # "key1" /\ c.command.op \notin {"dummy", "key1"}
  <2>1. Started(c, size) = CardCommand(asked)
    BY <1>6 DEF Started, asked
  <2>2. CASE c.command.op \in {"read0", "read"}
    <3>1. CardCommand(asked) = Positioned(asked, c.command.adr, Block)
      BY <1>2, <2>2 DEF CardCommand
    <3>2. /\ Positioned(asked, c.command.adr, Block) \in CardType
          /\ Positioned(asked, c.command.adr, Block).command = asked.command
          /\ Positioned(asked, c.command.adr, Block).address = c.command.adr
      <4>1. ASSUME NEW a \in Nat
            PROVE  /\ Positioned(asked, a, Block) \in CardType
                   /\ Positioned(asked, a, Block).command = asked.command
                   /\ Positioned(asked, a, Block).address = a
        BY <1>a, <1>b, PositionedCard
      <4>2. QED
        BY <1>c, <4>1
    <3>3. QED
      BY <2>1, <3>1, <3>2, <1>2
  <2>3. CASE c.command.op = "chipId"
    <3>1. CardCommand(asked) = Positioned(asked, 0, 1)
      BY <1>2, <2>3 DEF CardCommand
    <3>2. Positioned(asked, 0, 1) \in CardType /\ Positioned(asked, 0, 1).command = asked.command
      BY <1>a, PositionedCard
    <3>3. Started(c, size) \in CardType /\ Started(c, size).command = c.command
      BY <2>1, <3>1, <3>2, <1>2
    <3>4. QED
      BY <3>3, <2>3
  <2>4. CASE c.command.op \notin {"read0", "read", "chipId"}
    <3>1. CardCommand(asked) = Positioned(asked, 0, 0)
      BY <1>2, <2>4 DEF CardCommand
    <3>2. Positioned(asked, 0, 0) \in CardType /\ Positioned(asked, 0, 0).command = asked.command
      BY <1>a, PositionedCard
    <3>3. Started(c, size) \in CardType /\ Started(c, size).command = c.command
      BY <2>1, <3>1, <3>2, <1>2
    <3>4. QED
      BY <3>3, <2>4
  <2>5. QED
    BY <2>2, <2>3, <2>4
<1>7. QED
  BY <1>3, <1>4, <1>5, <1>6

\* Beside the card and the control word of one processor, those of the others stay.
LEMMA OthersOwed ==
  ASSUME CardInv, NEW p \in CardProcs,
         card' = [q \in CardProcs |-> card'[q]], control' = [q \in CardProcs |-> control'[q]],
         block' = [q \in CardProcs |-> block'[q]],
         \A q \in CardProcs : q # p => card'[q] = card[q] /\ control'[q] = control[q] /\ block'[q] = block[q],
         Owed(card'[p], control'[p], block'[p]), HeardRight',
         savedCard' = savedCard \/ savedCard' = [savedCard EXCEPT !.left = @ - 1]
  PROVE  CardInv'
<1>1. \A q \in CardProcs : Owed(card'[q], control'[q], block'[q])
  <2>1. TAKE q \in CardProcs
  <2>2. CASE q = p
    BY <2>2
  <2>3. CASE q # p
    <3>1. Owed(card[q], control[q], block[q])
      BY DEF CardInv
    <3>2. QED
      BY <2>3, <3>1
  <2>4. QED
    BY <2>2, <2>3
<1>2. savedCard = [state |-> savedCard.state, block |-> savedCard.block, left |-> savedCard.left]
  BY DEF CardInv
<1>3. /\ savedCard' = [state |-> savedCard'.state, block |-> savedCard'.block, left |-> savedCard'.left]
      /\ savedCard'.state = savedCard.state /\ savedCard'.block = savedCard.block
  <2>1. CASE savedCard' = savedCard
    BY <1>2, <2>1
  <2>2. CASE savedCard' = [savedCard EXCEPT !.left = @ - 1]
    <3>1. savedCard' = [state |-> savedCard.state, block |-> savedCard.block, left |-> savedCard.left - 1]
      BY <1>2, <2>2
    <3>2. QED
      BY <3>1
  <2>3. QED
    BY <2>1, <2>2
<1>4. QED
  BY <1>1, <1>3 DEF CardInv

\* The command bytes wait in the page for the next write of the control word.
LEMMA SetCommandKeeps ==
  ASSUME CardInv, NEW p \in CardProcs, SetCommand(p)
  PROVE  CardInv'
<1>1. PICK c \in GameCommands : control' = [control EXCEPT ![p].command = c]
  BY DEF SetCommand
<1>2. heard' = Nothing /\ UNCHANGED <<card, auxIrq, block, savedCard>>
  BY DEF SetCommand
<1>3. c \in CardCommandType
  BY CardAssumption DEF CardCommandType
<1>4. Owed(card[p], control[p], block[p]) /\ control = [q \in CardProcs |-> control[q]]
  BY DEF CardInv
<1>5. control[p] \in ControlType
  BY <1>4 DEF Owed
<1>6. /\ control' = [q \in CardProcs |-> control'[q]] /\ control'[p] = [control[p] EXCEPT !.command = c]
      /\ \A q \in CardProcs : q # p => control'[q] = control[q]
  BY <1>1, <1>4
<1>7. control'[p] \in ControlType /\ control'[p].start = control[p].start /\ control'[p].ready = control[p].ready
  BY <1>3, <1>5, <1>6 DEF ControlType
<1>8. Owed(card'[p], control'[p], block'[p])
  BY <1>2, <1>4, <1>7 DEF Owed
<1>9. card' = [q \in CardProcs |-> card'[q]] /\ block' = [q \in CardProcs |-> block'[q]]
  BY <1>2 DEF CardInv
<1>10. HeardRight'
  BY <1>2, NothingHeard
<1>11. QED
  BY <1>2, <1>6, <1>8, <1>9, <1>10, OthersOwed

\* A write of the control word begins a block of the words the card counts, or gives it up
\* (MMU_writeToGCControl).
LEMMA WriteToGCControlOwed ==
  ASSUME CardInv, NEW p \in CardProcs, NEW start \in BOOLEAN, NEW size \in DOMAIN Sizes,
         WriteToGCControl(p, start, size)
  PROVE  /\ card' = [q \in CardProcs |-> card'[q]] /\ control' = [q \in CardProcs |-> control'[q]]
         /\ block' = [q \in CardProcs |-> block'[q]]
         /\ \A q \in CardProcs : q # p => card'[q] = card[q] /\ control'[q] = control[q] /\ block'[q] = block[q]
         /\ Owed(card'[p], control'[p], block'[p]) /\ HeardRight'
<1> DEFINE c == Latched(p)
           next == IF start THEN Started(c, size) ELSE Positioned(c, 0, 0)
<1>1. /\ WriteControl(p, start, size, next)
      /\ block' = [block EXCEPT ![p] = IF start THEN [cmd |-> c.command, asked |-> next.count, got |-> 0,
                                                      told |-> next.count = 0, changed |-> FALSE]
                                       ELSE NoBlock]
  BY DEF WriteToGCControl
<1>2. /\ Owed(card[p], control[p], block[p]) /\ card = [q \in CardProcs |-> card[q]]
      /\ control = [q \in CardProcs |-> control[q]] /\ block = [q \in CardProcs |-> block[q]]
  BY DEF CardInv
<1>3. card[p] \in CardType /\ control[p] \in ControlType
  BY <1>2 DEF Owed
<1>4. c \in CardType
  <2>1. control[p].command \in CardCommandType
    BY <1>3 DEF ControlType
  <2>2. QED
    BY <1>3, <2>1 DEF CardType, Latched
<1> HIDE DEF c
<1>5. /\ next \in CardType
      /\ start => next.command = c.command
      /\ start /\ next.count > 0 /\ c.command.op \in {"read0", "read"} => next.address = c.command.adr
      /\ ~start => next.count = 0
  <2>1. CASE start
    BY <2>1, <1>4, StartedCard
  <2>2. CASE ~start
    <3>1. Positioned(c, 0, 0) \in CardType /\ Positioned(c, 0, 0).count = 0
      BY <1>4, PositionedCard
    <3>2. QED
      BY <2>2, <3>1
  <2>3. QED
    BY <2>1, <2>2
<1> HIDE DEF next
<1>6. next.count \in Nat /\ c.command \in CardCommandType /\ c.command.adr \in Nat
  BY <1>4, <1>5 DEF CardType, CardCommandType
<1>7. PICK ready \in BOOLEAN : ready <=> start /\ next.count > 0
  OBVIOUS
<1>8. /\ card' = [card EXCEPT ![p] = next]
      /\ control' = [control EXCEPT ![p].start = ready, ![p].size = size, ![p].ready = ready]
      /\ heard' = [Nothing EXCEPT !.dma = ready]
  <2>1. ready = (start /\ next.count > 0)
    BY <1>7
  <2>2. QED
    BY <1>1, <2>1 DEF WriteControl
<1>9. card' = [q \in CardProcs |-> card'[q]] /\ card'[p] = next /\ \A q \in CardProcs : q # p => card'[q] = card[q]
  BY <1>2, <1>8
<1>10. /\ control' = [q \in CardProcs |-> control'[q]]
       /\ \A q \in CardProcs : q # p => control'[q] = control[q]
  BY <1>2, <1>8
<1>11. control'[p] = [start |-> ready, ready |-> ready, size |-> size, command |-> control[p].command]
  BY <1>2, <1>3, <1>8 DEF ControlType
<1>12. control'[p] \in ControlType /\ control'[p].start = ready /\ control'[p].ready = ready
  BY <1>3, <1>11 DEF ControlType
<1>13. /\ block' = [q \in CardProcs |-> block'[q]]
       /\ \A q \in CardProcs : q # p => block'[q] = block[q]
       /\ block'[p] = IF start THEN [cmd |-> c.command, asked |-> next.count, got |-> 0,
                                     told |-> next.count = 0, changed |-> FALSE]
                      ELSE NoBlock
  BY <1>1, <1>2
<1>14. Owed(next, control'[p], block'[p])
  <2>1. CASE start
    <3>1. PICK told \in BOOLEAN : told <=> next.count = 0
      OBVIOUS
    <3>2. told = (next.count = 0)
      BY <3>1
    <3>3. block'[p] = [cmd |-> c.command, asked |-> next.count, got |-> 0, told |-> told, changed |-> FALSE]
      BY <1>13, <2>1, <3>2
    <3>4. block'[p] \in BlockType
      BY <3>3, <1>6 DEF BlockType
    <3>5. 0 + next.count = next.count /\ c.command.adr + 0 = c.command.adr
      BY <1>6
    <3>6. QED
      BY <1>5, <1>6, <1>7, <1>12, <2>1, <3>1, <3>3, <3>4, <3>5 DEF Owed
  <2>2. CASE ~start
    <3>1. block'[p] = NoBlock /\ NoBlock \in BlockType
      BY <1>13, <2>2, FreshOwed
    <3>2. next.count = 0 /\ ~ready
      BY <1>5, <1>7, <2>2
    <3>3. QED
      BY <1>5, <1>12, <3>1, <3>2 DEF Owed, NoBlock
  <2>3. QED
    BY <2>1, <2>2
<1>15. HeardRight'
  <2>1. heard'.by = 0 /\ heard'.dma = ready
    BY <1>8 DEF Nothing
  <2>2. QED
    BY <1>12, <2>1, CardAssumption DEF HeardRight
<1>16. QED
  BY <1>9, <1>10, <1>13, <1>14, <1>15

\* Writes of the control word, whole or in halves (_MMU_ARM9_write32, _MMU_ARM9_write16).
LEMMA SetControlKeeps ==
  ASSUME CardInv, NEW p \in CardProcs, SetControl(p) \/ SetControlLow(p)
  PROVE  CardInv'
<1>1. PICK start \in BOOLEAN, size \in DOMAIN Sizes :
        WriteToGCControl(p, start, size) /\ savedCard' = [savedCard EXCEPT !.left = @ - 1]
  <2>1. CASE SetControl(p)
    BY <2>1 DEF SetControl
  <2>2. CASE SetControlLow(p)
    <3>1. control[p].start \in BOOLEAN /\ control[p].size \in DOMAIN Sizes
      BY DEF CardInv, Owed, ControlType
    <3>2. QED
      BY <2>2, <3>1 DEF SetControlLow
  <2>3. QED
    BY <2>1, <2>2
<1>2. QED
  BY <1>1, WriteToGCControlOwed, OthersOwed

\* A write of the upper byte alone changes what the page says, and the game knows it.
LEMMA SetControlByteKeeps ==
  ASSUME CardInv, NEW p \in CardProcs, SetControlByte(p)
  PROVE  CardInv'
<1>1. PICK start \in BOOLEAN, size \in DOMAIN Sizes :
        control' = [control EXCEPT ![p].start = start, ![p].size = size]
  BY DEF SetControlByte
<1>2. /\ block' = [block EXCEPT ![p].changed = TRUE] /\ savedCard' = [savedCard EXCEPT !.left = @ - 1]
      /\ heard' = Nothing /\ card' = card
  BY DEF SetControlByte
<1>3. /\ Owed(card[p], control[p], block[p]) /\ card = [q \in CardProcs |-> card[q]]
      /\ control = [q \in CardProcs |-> control[q]] /\ block = [q \in CardProcs |-> block[q]]
  BY DEF CardInv
<1>4. control[p] \in ControlType /\ block[p] \in BlockType
  BY <1>3 DEF Owed
<1>5. control'[p] = [start |-> start, ready |-> control[p].ready, size |-> size, command |-> control[p].command]
  BY <1>1, <1>3, <1>4 DEF ControlType
<1>6. control'[p] \in ControlType /\ control'[p].ready = control[p].ready
  BY <1>4, <1>5 DEF ControlType
<1>7. block'[p] = [block[p] EXCEPT !.changed = TRUE]
  BY <1>2, <1>3
<1>8. /\ block'[p] \in BlockType /\ block'[p].cmd = block[p].cmd /\ block'[p].asked = block[p].asked
      /\ block'[p].got = block[p].got /\ block'[p].told = block[p].told /\ block'[p].changed
  BY <1>4, <1>7 DEF BlockType
<1>9. Owed(card'[p], control'[p], block'[p])
  BY <1>2, <1>3, <1>6, <1>8 DEF Owed
<1>10. /\ control' = [q \in CardProcs |-> control'[q]] /\ block' = [q \in CardProcs |-> block'[q]]
       /\ card' = [q \in CardProcs |-> card'[q]]
       /\ \A q \in CardProcs : q # p => card'[q] = card[q] /\ control'[q] = control[q] /\ block'[q] = block[q]
  BY <1>1, <1>2, <1>3
<1>11. HeardRight'
  BY <1>2, NothingHeard
<1>12. QED
  BY <1>2, <1>9, <1>10, <1>11, OthersOwed

\* A read gives the word that the block is owed next, and tells of the last (MMU_readFromGC).
LEMMA ReadKeeps ==
  ASSUME CardInv, NEW p \in CardProcs, Read(p)
  PROVE  CardInv'
<1> DEFINE c == card[p]
           b == block[p]
           left == c.count - 1
<1>1. /\ c.count > 0
      /\ card' = [card EXCEPT ![p] = Positioned(c, c.address + 1, left)]
      /\ control' = IF left > 0 THEN control ELSE [control EXCEPT ![p].start = FALSE, ![p].ready = FALSE]
      /\ heard' = [word |-> ReadWord(c), by |-> p, irq |-> left = 0 /\ auxIrq, dma |-> FALSE]
      /\ block' = [block EXCEPT ![p].got = @ + 1, ![p].told = (left = 0)]
      /\ savedCard' = savedCard
  BY DEF Read, ReadFromGC
<1>2. /\ Owed(c, control[p], b) /\ card = [q \in CardProcs |-> card[q]]
      /\ control = [q \in CardProcs |-> control[q]] /\ block = [q \in CardProcs |-> block[q]]
  BY DEF CardInv
<1>3. c \in CardType /\ control[p] \in ControlType /\ b \in BlockType
  BY <1>2 DEF Owed
<1>4. c.count \in Nat /\ c.address \in Nat
  BY <1>3 DEF CardType
<1>5. b.got \in Nat /\ b.asked \in Nat /\ b.cmd \in CardCommandType
  BY <1>3 DEF BlockType
<1>6. b.cmd.adr \in Nat
  BY <1>5 DEF CardCommandType
<1>7. c.command \in CardCommandType
  BY <1>3 DEF CardType
<1>8. left \in Nat /\ c.address + 1 \in Nat /\ b.got + c.count = b.asked /\ b.asked > 0
  BY <1>1, <1>2, <1>4, <1>5 DEF Owed
<1> HIDE DEF left
<1>9. /\ card' = [q \in CardProcs |-> card'[q]] /\ \A q \in CardProcs : q # p => card'[q] = card[q]
      /\ card'[p] = Positioned(c, c.address + 1, left)
  BY <1>1, <1>2
<1>10. card'[p] \in CardType /\ card'[p].command = c.command /\ card'[p].address = c.address + 1 /\ card'[p].count = left
  <2>1. ASSUME NEW a \in Nat, NEW n \in Nat
        PROVE  /\ Positioned(c, a, n) \in CardType /\ Positioned(c, a, n).command = c.command
               /\ Positioned(c, a, n).address = a /\ Positioned(c, a, n).count = n
    <3>1. c \in CardType
      BY <1>3
    <3> HIDE DEF c
    <3>2. QED
      BY <3>1, PositionedCard
  <2>2. PICK a \in Nat : a = c.address + 1
    BY <1>8
  <2>3. /\ Positioned(c, a, left) \in CardType /\ Positioned(c, a, left).command = c.command
        /\ Positioned(c, a, left).address = a /\ Positioned(c, a, left).count = left
    BY <1>8, <2>1
  <2>4. QED
    BY <1>9, <2>2, <2>3
<1>11. PICK told \in BOOLEAN : told <=> left = 0
  OBVIOUS
<1>12. told = (left = 0)
  BY <1>11
<1>13. /\ block' = [q \in CardProcs |-> block'[q]] /\ \A q \in CardProcs : q # p => block'[q] = block[q]
       /\ block'[p] = [b EXCEPT !.got = b.got + 1, !.told = told]
  BY <1>1, <1>2, <1>12
<1>14. block'[p] = [cmd |-> b.cmd, asked |-> b.asked, got |-> b.got + 1, told |-> told, changed |-> b.changed]
  BY <1>3, <1>13 DEF BlockType
<1>15. block'[p] \in BlockType
  BY <1>3, <1>5, <1>14 DEF BlockType
<1>16. /\ control' = [q \in CardProcs |-> control'[q]] /\ \A q \in CardProcs : q # p => control'[q] = control[q]
       /\ control'[p] \in ControlType
       /\ left > 0 => control'[p] = control[p]
       /\ left = 0 => ~control'[p].start /\ ~control'[p].ready
  <2>1. CASE left > 0
    BY <1>1, <1>2, <1>3, <2>1
  <2>2. CASE left = 0
    <3>1. control' = [control EXCEPT ![p].start = FALSE, ![p].ready = FALSE]
      BY <1>1, <2>2
    <3>2. control'[p] = [start |-> FALSE, ready |-> FALSE, size |-> control[p].size, command |-> control[p].command]
      BY <1>2, <1>3, <3>1 DEF ControlType
    <3>3. control'[p] \in ControlType
      BY <1>3, <3>2 DEF ControlType
    <3>4. QED
      BY <1>2, <2>2, <3>1, <3>2, <3>3
  <2>3. QED
    BY <1>8, <2>1, <2>2
<1>17. Owed(card'[p], control'[p], block'[p])
  <2>1. b.got + 1 + left = b.asked
    BY <1>4, <1>5, <1>8 DEF left
  <2>2. control'[p].ready <=> left > 0
    BY <1>1, <1>2, <1>8, <1>16 DEF Owed
  <2>3. ~b.changed => (control'[p].start <=> control'[p].ready)
    BY <1>2, <1>8, <1>16 DEF Owed
  <2>4. b.cmd.op \in {"read0", "read"} => c.address + 1 = b.cmd.adr + (b.got + 1)
    BY <1>2, <1>4, <1>5, <1>6, <1>8 DEF Owed
  <2>5. c.command = b.cmd \/ c.command = Zero
    BY <1>2, <1>8 DEF Owed
  <2>6. block'[p].changed = b.changed
    BY <1>14
  <2>7. QED
    BY <1>10, <1>11, <1>14, <1>15, <1>16, <2>1, <2>2, <2>3, <2>4, <2>5, <2>6 DEF Owed
<1>18. HeardRight'
  <2>1. heard'.dma = FALSE /\ heard'.by = p /\ heard'.word = ReadWord(c) /\ (heard'.irq => left = 0)
    BY <1>1
  <2>2. block'[p].cmd = b.cmd /\ block'[p].got - 1 = b.got /\ block'[p].asked = b.asked
    BY <1>5, <1>14
  <2>3. block'[p].cmd.adr + block'[p].got - 1 = b.cmd.adr + b.got
    BY <1>5, <1>6, <1>14
  <2>4. CASE c.command = b.cmd
    <3>1. CASE b.cmd.op \in {"read0", "read"}
      <4>1. c.address = b.cmd.adr + b.got
        BY <1>2, <1>8, <3>1 DEF Owed
      <4>2. ReadWord(c) = Expected(b.cmd, b.got)
        BY <2>4, <3>1, <4>1 DEF ReadWord, CardWord, Expected
      <4>3. QED
        BY <1>8, <1>10, <1>14, <2>1, <2>2, <4>2 DEF HeardRight
    <3>2. CASE b.cmd.op \notin {"read0", "read"}
      <4>1. ReadWord(c) = Expected(b.cmd, b.got)
        BY <2>4, <3>2 DEF ReadWord, CardWord, Expected
      <4>2. QED
        BY <1>8, <1>10, <1>14, <2>1, <2>2, <4>1 DEF HeardRight
    <3>3. QED
      BY <3>1, <3>2
  <2>5. CASE c.command # b.cmd
    <3>1. c.command = Zero /\ Zero.op = "read0"
      BY <1>2, <1>8, <2>5 DEF Owed, Zero
    <3>2. Reloaded(p)'
      BY <1>10, <2>2, <2>5 DEF Reloaded
    <3>3. CASE b.cmd.op \in {"read0", "read"}
      <4>1. c.address = b.cmd.adr + b.got
        BY <1>2, <1>8, <3>3 DEF Owed
      <4>2. \/ ReadWord(c) = Expected(b.cmd, b.got)
            \/ (b.cmd.adr + b.got) % CardMask < Secure
        BY <3>1, <3>3, <4>1 DEF ReadWord, CardWord, Expected, Redirected
      <4>3. QED
        BY <1>8, <1>10, <1>14, <2>1, <2>2, <2>3, <3>2, <4>2 DEF HeardRight
    <3>4. CASE b.cmd.op \notin {"read0", "read"}
      BY <1>8, <1>10, <1>14, <2>1, <2>2, <3>2, <3>4 DEF HeardRight
    <3>5. QED
      BY <3>3, <3>4
  <2>6. QED
    BY <2>4, <2>5
<1>19. QED
  BY <1>1, <1>9, <1>13, <1>16, <1>17, <1>18, OthersOwed

\* A savestate has address and words of the card, and the page; what they have to do with each
\* other goes with it (saves.cpp).
LEMMA SaveCardKeeps ==
  ASSUME CardInv, SaveCard
  PROVE  CardInv'
<1>1. /\ heard' = Nothing /\ UNCHANGED <<card, control, auxIrq, block>>
      /\ savedCard' = [savedCard EXCEPT !.state = [card |-> card, control |-> control, aux |-> auxIrq], !.block = block]
  BY DEF SaveCard
<1>2. savedCard = [state |-> savedCard.state, block |-> savedCard.block, left |-> savedCard.left]
  BY DEF CardInv
<1>3. savedCard' = [state |-> [card |-> card, control |-> control, aux |-> auxIrq], block |-> block, left |-> savedCard.left]
  BY <1>1, <1>2, Zenon
<1>4. /\ savedCard'.state.card = card /\ savedCard'.state.control = control /\ savedCard'.block = block
      /\ savedCard' = [state |-> savedCard'.state, block |-> savedCard'.block, left |-> savedCard'.left]
  BY <1>3
<1>5. HeardRight'
  BY <1>1, NothingHeard
<1>6. QED
  BY <1>1, <1>4, <1>5 DEF CardInv

\* The command is not in the savestate: the card goes on with a cleared one, at the address and
\* with the words that were left (saves.cpp).
LEMMA LoadCardKeeps ==
  ASSUME CardInv, LoadCard
  PROVE  CardInv'
<1>1. /\ savedCard.state # Fresh
      /\ card' = [p \in CardProcs |-> RestoredCard(p)]
      /\ control' = savedCard.state.control
      /\ block' = [p \in CardProcs |-> [savedCard.block[p] EXCEPT !.changed = @ \/ savedCard.state.card[p].mode # "normal"]]
      /\ savedCard' = [savedCard EXCEPT !.state = Fresh, !.left = 0]
      /\ heard' = Nothing
  BY DEF LoadCard
<1>2. ASSUME NEW p \in CardProcs
      PROVE  Owed(card'[p], control'[p], block'[p])
  <2> DEFINE c == savedCard.state.card[p]
             b == savedCard.block[p]
  <2>1. Owed(c, savedCard.state.control[p], b)
    BY <1>1 DEF CardInv
  <2>2. c \in CardType /\ b \in BlockType
    BY <2>1 DEF Owed
  <2>3. c.address \in Nat /\ c.count \in Nat
    BY <2>2 DEF CardType
  <2>4. card'[p] = Positioned(Fresh.card[p], c.address, c.count)
    BY <1>1 DEF RestoredCard
  <2>5. Fresh.card[p] \in CardType /\ Fresh.card[p].command = Zero
    BY FreshOwed DEF Fresh
  <2>6. card'[p] \in CardType /\ card'[p].command = Zero /\ card'[p].address = c.address /\ card'[p].count = c.count
    <3> HIDE DEF c
    <3>1. ASSUME NEW a \in Nat, NEW n \in Nat
          PROVE  /\ Positioned(Fresh.card[p], a, n) \in CardType
                 /\ Positioned(Fresh.card[p], a, n).command = Zero
                 /\ Positioned(Fresh.card[p], a, n).address = a /\ Positioned(Fresh.card[p], a, n).count = n
      BY <2>5, PositionedCard
    <3>2. QED
      BY <2>3, <2>4, <3>1
  <2>7. PICK changed \in BOOLEAN : changed <=> b.changed \/ c.mode # "normal"
    OBVIOUS
  <2>8. block'[p] = [b EXCEPT !.changed = changed]
    <3>1. block'[p] = [b EXCEPT !.changed = b.changed \/ c.mode # "normal"]
      BY <1>1
    <3>2. b.changed \in BOOLEAN
      BY <2>2 DEF BlockType
    <3>3. changed = (b.changed \/ c.mode # "normal")
      BY <2>7, <3>2
    <3>4. QED
      BY <3>1, <3>3
  <2>9. /\ block'[p] \in BlockType /\ block'[p].cmd = b.cmd /\ block'[p].asked = b.asked /\ block'[p].got = b.got
        /\ block'[p].told = b.told /\ block'[p].changed = changed
    BY <2>2, <2>8 DEF BlockType
  <2>10. control'[p] = savedCard.state.control[p]
    BY <1>1
  <2>11. QED
    BY <2>1, <2>6, <2>7, <2>9, <2>10 DEF Owed
<1>3. savedCard = [state |-> savedCard.state, block |-> savedCard.block, left |-> savedCard.left]
  BY DEF CardInv
<1>4. savedCard' = [state |-> Fresh, block |-> savedCard.block, left |-> 0]
  BY <1>1, <1>3
<1>5. savedCard'.state = Fresh /\ savedCard' = [state |-> savedCard'.state, block |-> savedCard'.block, left |-> savedCard'.left]
  BY <1>4
<1>6. /\ card' = [p \in CardProcs |-> card'[p]] /\ control' = [p \in CardProcs |-> control'[p]]
      /\ block' = [p \in CardProcs |-> block'[p]]
  BY <1>1 DEF CardInv
<1>7. HeardRight'
  BY <1>1, NothingHeard
<1>8. QED
  BY <1>2, <1>5, <1>6, <1>7 DEF CardInv

\* Every step of game and card leaves the invariant.
LEMMA CardStep ==
  ASSUME CardInv, [CardNext]_cardVars
  PROVE  CardInv'
<1>1. CASE SetAux
  <2>1. heard' = Nothing /\ UNCHANGED <<card, control, block, savedCard>>
    BY <1>1 DEF SetAux
  <2>2. HeardRight'
    BY <2>1, NothingHeard
  <2>3. QED
    BY <2>1, <2>2 DEF CardInv
<1>2. CASE UNCHANGED cardVars
  BY <1>2 DEF cardVars, CardInv, HeardRight, Reloaded
<1>3. QED
  BY <1>1, <1>2, SetCommandKeeps, SetControlKeeps, SetControlByteKeeps, ReadKeeps, SaveCardKeeps, LoadCardKeeps
  DEF CardNext

\* Who polls the card is owed a word for as long as one is announced, the words of a block are
\* those its command asked for, in their order, and its end is told: for every set of commands,
\* sizes and processors, across savestates (MMU_writeToGCControl, MMU_readFromGC).
THEOREM CardIsTrue == CardSpec => []CardTrue
<1>1. CardInit => CardInv
  BY CardBegins
<1>2. CardInv /\ [CardNext]_cardVars => CardInv'
  BY CardStep
<1>3. CardInv => CardTrue
  BY CardInvMeans
<1>4. QED
  BY <1>1, <1>2, <1>3, PTL DEF CardSpec

-----------------------------------------------------------------------------
(* Matrix stacks *)

Slot(m) == [position : 0 .. Size(m), matrix : [0 .. Size(m) -> 0 .. Order - 1]]
MatrixPair == (0 .. Order - 1) \X (0 .. Order - 1)

\* What the types say of a stack (MatrixStack).
LEMMA SlotOf ==
  ASSUME MatricesTypeOK, NEW m \in 0 .. 3
  PROVE  /\ Size(m) \in Nat \ {0} /\ stack[m] \in Slot(m) /\ current[m] \in 0 .. Order - 1
         /\ stack[m].position \in 0 .. Size(m) /\ stack[m].position \in Int
         /\ stack[m].matrix \in [0 .. Size(m) -> 0 .. Order - 1]
         /\ m \in {1, 2} => Size(m) = Deepest
<1>1. Size(m) \in Nat \ {0} /\ (m \in {1, 2} => Size(m) = Deepest)
  BY StacksAssumption DEF Size
<1>2. stack[m] \in Slot(m) /\ current[m] \in 0 .. Order - 1
  BY DEF MatricesTypeOK, Slot
<1>3. stack[m].position \in 0 .. Size(m) /\ stack[m].matrix \in [0 .. Size(m) -> 0 .. Order - 1]
  BY <1>2 DEF Slot
<1>4. stack[m].position \in Int
  BY <1>1, <1>3
<1>5. QED
  BY <1>1, <1>2, <1>3, <1>4

\* Positions stay in the stack, and move by what was asked for unless the error flag tells
\* otherwise (MatrixStackSetStackPosition).
LEMMA MovedPosition ==
  ASSUME MatricesTypeOK, NEW m \in 0 .. 3, NEW c \in Int
  PROVE  /\ Moved(m, c) \in 0 .. Size(m)
         /\ ~LeavesRange(m, c) => Moved(m, c) = stack[m].position + c
<1>1. stack[m].position \in Int /\ Size(m) \in Nat \ {0}
  BY SlotOf
<1>2. \A a, n \in Int : n > 0 => a % n \in 0 .. n - 1
  OBVIOUS
<1>3. \A a, n \in Int : n > 0 /\ a \in 0 .. n - 1 => a % n = a
  OBVIOUS
<1>4. stack[m].position + c \in Int /\ Size(m) + 1 \in Int /\ Size(m) + 1 > 0
  BY <1>1
<1>5. Moved(m, c) \in 0 .. Size(m)
  BY <1>1, <1>2, <1>4 DEF Moved
<1>6. ASSUME ~LeavesRange(m, c)
      PROVE  Moved(m, c) = stack[m].position + c
  <2>1. stack[m].position + c \in 0 .. Size(m)
    BY <1>6 DEF LeavesRange
  <2>2. stack[m].position + c \in 0 .. ((Size(m) + 1) - 1)
    BY <1>1, <2>1
  <2>3. QED
    BY <1>3, <1>4, <2>2 DEF Moved
<1>7. QED
  BY <1>5, <1>6

\* Position and vector stack are moved together or not at all (gfx3d_glPushMatrix,
\* gfx3d_glPopMatrix: mymode).
LEMMA AffectedTogether ==
  ASSUME mode \in 0 .. 3
  PROVE  Affected \subseteq 0 .. 3 /\ (1 \in Affected <=> mode \in {1, 2}) /\ (2 \in Affected <=> mode \in {1, 2})
BY DEF Affected

\* The engine begins with empty stacks (gfx3d_reset).
LEMMA MatricesBegin == MatricesInit => StacksPaired
<1>1. SUFFICES ASSUME MatricesInit PROVE StacksPaired
  OBVIOUS
<1>2. Identity \in 0 .. Order - 1
  BY StacksAssumption DEF Identity
<1>3. ASSUME NEW m \in 0 .. 3
      PROVE  stack[m] \in Slot(m)
  <2>1. Size(m) \in Nat \ {0}
    BY StacksAssumption DEF Size
  <2>2. stack[m] = [position |-> 0, matrix |-> [i \in 0 .. Size(m) |-> Identity]]
    BY <1>1 DEF MatricesInit
  <2>3. [i \in 0 .. Size(m) |-> Identity] \in [0 .. Size(m) -> 0 .. Order - 1]
    BY <1>2
  <2>4. 0 \in 0 .. Size(m)
    BY <2>1
  <2>5. QED
    BY <2>2, <2>3, <2>4 DEF Slot
<1>4. current \in [0 .. 3 -> 0 .. Order - 1] /\ stack = [m \in 0 .. 3 |-> stack[m]]
  BY <1>1, <1>2 DEF MatricesInit
<1>5. saved = << >> /\ saved \in Seq(MatrixPair) /\ Len(saved) = 0
  BY <1>1 DEF MatricesInit
<1>6. MatricesTypeOK
  <2>1. mode \in 0 .. 3 /\ se \in BOOLEAN /\ edits \in 0 .. MaxEdits /\ Len(saved) <= Deepest
    <3>1. mode = 0 /\ edits = 0
      BY <1>1 DEF MatricesInit
    <3>2. MaxEdits \in Nat /\ Deepest \in Nat
      BY StacksAssumption
    <3>3. Len(saved) <= Deepest
      BY <1>5, <3>2
    <3>4. se \in BOOLEAN
      BY <1>1 DEF MatricesInit
    <3>5. mode \in 0 .. 3 /\ edits \in 0 .. MaxEdits
      BY <3>1, <3>2
    <3>6. QED
      BY <3>3, <3>4, <3>5
  <2>2. QED
    BY <1>3, <1>4, <1>5, <2>1 DEF MatricesTypeOK, Slot, MatrixPair
<1>7. stack[1].position = 0 /\ stack[2].position = 0
  BY <1>1 DEF MatricesInit
<1>8. StackHoldsPairs /\ StacksInStep
  BY <1>5, <1>7 DEF StackHoldsPairs, StacksInStep
<1>9. QED
  BY <1>6, <1>8 DEF StacksPaired

\* A push puts the current pair behind the others, and moves both stacks (gfx3d_glPushMatrix).
LEMMA PushKeeps ==
  ASSUME StacksPaired, gfx3d_glPushMatrix
  PROVE  StacksPaired'
<1>1. MatricesTypeOK /\ mode' = mode /\ current' = current /\ edits' = edits
  BY DEF StacksPaired, gfx3d_glPushMatrix
<1>2. Affected \subseteq 0 .. 3 /\ (1 \in Affected <=> mode \in {1, 2}) /\ (2 \in Affected <=> mode \in {1, 2})
  BY <1>1, AffectedTogether DEF MatricesTypeOK
<1>3. ASSUME NEW m \in 0 .. 3, m \notin Affected
      PROVE  stack'[m] = stack[m]
  BY <1>3 DEF gfx3d_glPushMatrix
<1>4. ASSUME NEW m \in 0 .. 3, m \in Affected
      PROVE  stack'[m] = [position |-> Moved(m, 1),
                          matrix |-> [stack[m].matrix EXCEPT ![Entry(m, stack[m].position)] = current[m]]]
  BY <1>4 DEF gfx3d_glPushMatrix
<1>5. ASSUME NEW m \in 0 .. 3
      PROVE  stack'[m] \in Slot(m)
  <2>1. CASE m \notin Affected
    BY <2>1, <1>1, <1>3, SlotOf
  <2>2. CASE m \in Affected
    <3>1. Moved(m, 1) \in 0 .. Size(m)
      BY <1>1, MovedPosition
    <3>2. [stack[m].matrix EXCEPT ![Entry(m, stack[m].position)] = current[m]]
            \in [0 .. Size(m) -> 0 .. Order - 1]
      BY <1>1, SlotOf
    <3>3. stack'[m] = [position |-> Moved(m, 1),
                       matrix |-> [stack[m].matrix EXCEPT ![Entry(m, stack[m].position)] = current[m]]]
      BY <2>2, <1>4
    <3>4. QED
      BY <3>1, <3>2, <3>3 DEF Slot
  <2>3. QED
    BY <2>1, <2>2
<1>6. saved \in Seq(MatrixPair) /\ Len(saved) \in Nat /\ Len(saved) <= Deepest
  BY <1>1 DEF MatricesTypeOK, MatrixPair
<1>7. CASE mode \in {1, 2}
  <2>1. <<current[1], current[2]>> \in MatrixPair
    BY <1>1 DEF MatricesTypeOK, MatrixPair
  <2>2. saved' = IF Len(saved) = Deepest THEN << >> ELSE Append(saved, <<current[1], current[2]>>)
    BY <1>7 DEF gfx3d_glPushMatrix
  <2>3. saved' \in Seq(MatrixPair) /\ Len(saved') <= Deepest
    BY <1>6, <2>1, <2>2, StacksAssumption
  <2>4. MatricesTypeOK'
    <3>1. stack' = [m \in 0 .. 3 |-> stack'[m]] /\ se' \in BOOLEAN
      BY DEF gfx3d_glPushMatrix
    <3>2. QED
      BY <1>1, <1>5, <2>3, <3>1 DEF MatricesTypeOK, Slot, MatrixPair, Size
  <2>5. stack'[1].position = stack'[2].position
    <3>1. stack'[1].position = Moved(1, 1) /\ stack'[2].position = Moved(2, 1)
      BY <1>2, <1>4, <1>7
    <3>2. QED
      BY <3>1 DEF Moved, Size, StacksPaired, StacksInStep
  <2>6. ASSUME ~se', NEW m \in {1, 2}
        PROVE  stack'[m].position = Len(saved') /\ \A k \in 1 .. Len(saved') : stack'[m].matrix[k - 1] = saved'[k][m]
    <3>1. ~se /\ ~LeavesRange(m, 1) /\ m \in 0 .. 3 /\ m \in Affected
      BY <2>6, <1>2, <1>7 DEF gfx3d_glPushMatrix
    <3>2. stack[m].position = Len(saved) /\ \A k \in 1 .. Len(saved) : stack[m].matrix[k - 1] = saved[k][m]
      BY <3>1, <2>6 DEF StacksPaired, StackHoldsPairs
    <3>3. Moved(m, 1) = Len(saved) + 1 /\ Moved(m, 1) \in 0 .. Deepest
      <4>1. Moved(m, 1) = stack[m].position + 1 /\ Moved(m, 1) \in 0 .. Size(m)
        BY <1>1, <3>1, MovedPosition
      <4>2. Size(m) = Deepest
        BY <1>1, <3>1, <2>6, SlotOf
      <4>3. QED
        BY <4>1, <4>2, <3>2
    <3>4. saved' = Append(saved, <<current[1], current[2]>>) /\ Len(saved') = Len(saved) + 1
      BY <1>6, <2>2, <3>3, StacksAssumption
    <3>5. /\ stack'[m].position = Moved(m, 1)
          /\ stack'[m].matrix = [stack[m].matrix EXCEPT ![Len(saved)] = current[m]]
      BY <3>1, <3>2, <1>4, <2>6 DEF Entry
    <3>6. stack[m].matrix \in [0 .. Deepest -> 0 .. Order - 1]
      BY <3>1, <2>6, <1>1, SlotOf
    <3>7. ASSUME NEW k \in 1 .. Len(saved')
          PROVE  stack'[m].matrix[k - 1] = saved'[k][m]
      <4>1. CASE k = Len(saved) + 1
        <5>1. saved'[k] = <<current[1], current[2]>>
          BY <4>1, <3>4, <1>6
        <5>2. k - 1 = Len(saved) /\ Len(saved) \in 0 .. Deepest
          BY <4>1, <1>6, StacksAssumption
        <5>3. [stack[m].matrix EXCEPT ![Len(saved)] = current[m]][Len(saved)] = current[m]
          BY <5>2, <3>6
        <5>4. stack'[m].matrix[k - 1] = current[m]
          BY <5>2, <5>3, <3>5
        <5>5. QED
          BY <5>1, <5>4, <2>6
      <4>2. CASE k # Len(saved) + 1
        <5>1. k \in 1 .. Len(saved) /\ k - 1 # Len(saved) /\ k - 1 \in 0 .. Deepest
          BY <4>2, <3>7, <3>4, <1>6, StacksAssumption
        <5>2. saved'[k] = saved[k]
          BY <5>1, <3>4, <1>6
        <5>3. stack'[m].matrix[k - 1] = stack[m].matrix[k - 1]
          BY <5>1, <3>5, <3>6
        <5>4. QED
          BY <5>1, <5>2, <5>3, <3>2
      <4>3. QED
        BY <4>1, <4>2
    <3>8. QED
      BY <3>3, <3>4, <3>5, <3>7
  <2>7. QED
    BY <2>4, <2>5, <2>6 DEF StacksPaired, StackHoldsPairs, StacksInStep
<1>8. CASE mode \notin {1, 2}
  <2>1. saved' = saved /\ stack'[1] = stack[1] /\ stack'[2] = stack[2]
    BY <1>8, <1>2, <1>3 DEF gfx3d_glPushMatrix
  <2>2. (se => se') /\ se' \in BOOLEAN /\ stack' = [m \in 0 .. 3 |-> stack'[m]]
    BY DEF gfx3d_glPushMatrix
  <2>3. MatricesTypeOK'
    BY <1>1, <1>5, <2>1, <2>2 DEF MatricesTypeOK, Slot, Size
  <2>4. StackHoldsPairs' /\ StacksInStep'
    BY <2>1, <2>2 DEF StacksPaired, StackHoldsPairs, StacksInStep
  <2>5. QED
    BY <2>3, <2>4 DEF StacksPaired
<1>9. QED
  BY <1>7, <1>8

\* A pop gives back the pair it reaches, whatever it is given (gfx3d_glPopMatrix,
\* MatrixStackPopMatrix), and takes it from both stacks.
LEMMA PopKeeps ==
  ASSUME StacksPaired, gfx3d_glPopMatrix
  PROVE  StacksPaired' /\ PopRestores
<1>1. MatricesTypeOK /\ mode' = mode /\ edits' = edits
  BY DEF StacksPaired, gfx3d_glPopMatrix
<1>2. Affected \subseteq 0 .. 3 /\ (1 \in Affected <=> mode \in {1, 2}) /\ (2 \in Affected <=> mode \in {1, 2})
  BY <1>1, AffectedTogether DEF MatricesTypeOK
<1>3. PICK i \in Int :
        /\ stack' = [m \in 0 .. 3 |->
                       IF m \in Affected THEN [stack[m] EXCEPT !.position = Moved(m, -i)] ELSE stack[m]]
        /\ current' = [m \in 0 .. 3 |->
                         IF m \in Affected THEN stack'[m].matrix[Entry(m, stack'[m].position)] ELSE current[m]]
        /\ se' = (se \/ \E m \in Affected : LeavesRange(m, -i))
        /\ saved' = IF mode \in {1, 2} THEN LeftBy(i) ELSE saved
  <2>1. PICK offset \in Offsets :
          LET i == IF mode = 0 THEN 1 ELSE offset IN
          /\ stack' = [m \in 0 .. 3 |->
                         IF m \in Affected THEN [stack[m] EXCEPT !.position = Moved(m, -i)] ELSE stack[m]]
          /\ current' = [m \in 0 .. 3 |->
                           IF m \in Affected THEN stack'[m].matrix[Entry(m, stack'[m].position)] ELSE current[m]]
          /\ se' = (se \/ \E m \in Affected : LeavesRange(m, -i))
          /\ saved' = IF mode \in {1, 2} THEN LeftBy(i) ELSE saved
    BY DEF gfx3d_glPopMatrix
  <2>2. (IF mode = 0 THEN 1 ELSE offset) \in Int
    BY StacksAssumption
  <2>3. QED
    BY <2>1, <2>2
<1>4. ASSUME NEW m \in 0 .. 3
      PROVE  /\ stack'[m] \in Slot(m) /\ stack'[m].matrix = stack[m].matrix
             /\ m \notin Affected => stack'[m] = stack[m] /\ current'[m] = current[m]
             /\ m \in Affected => /\ stack'[m].position = Moved(m, -i)
                                  /\ current'[m] = stack'[m].matrix[Entry(m, Moved(m, -i))]
             /\ current'[m] \in 0 .. Order - 1
  <2>1. stack[m] \in Slot(m) /\ current[m] \in 0 .. Order - 1
    BY <1>1, SlotOf
  <2>2. CASE m \notin Affected
    <3>1. stack'[m] = stack[m] /\ current'[m] = current[m]
      BY <1>3, <2>2
    <3>2. QED
      BY <2>1, <2>2, <3>1
  <2>3. CASE m \in Affected
    <3>1. stack'[m] = [stack[m] EXCEPT !.position = Moved(m, -i)]
      BY <1>3, <2>3
    <3>2. Moved(m, -i) \in 0 .. Size(m) /\ Size(m) \in Nat \ {0}
      <4>1. -i \in Int
        OBVIOUS
      <4>2. QED
        BY <1>1, <4>1, MovedPosition, SlotOf
    <3>3. stack'[m] \in Slot(m) /\ stack'[m].matrix = stack[m].matrix /\ stack'[m].position = Moved(m, -i)
      BY <2>1, <3>1, <3>2 DEF Slot
    <3>4. current'[m] = stack'[m].matrix[Entry(m, Moved(m, -i))]
      BY <1>3, <2>3, <3>3
    <3>5. Entry(m, Moved(m, -i)) \in 0 .. Size(m)
      BY <3>2 DEF Entry
    <3>6. stack'[m].matrix \in [0 .. Size(m) -> 0 .. Order - 1]
      BY <3>3 DEF Slot
    <3>7. QED
      BY <2>3, <3>3, <3>4, <3>5, <3>6
  <2>4. QED
    BY <2>2, <2>3
<1>5. current' \in [0 .. 3 -> 0 .. Order - 1] /\ stack' = [m \in 0 .. 3 |-> stack'[m]] /\ se' \in BOOLEAN
  <2>1. \A m \in 0 .. 3 : current'[m] \in 0 .. Order - 1
    BY <1>4
  <2>2. current' = [m \in 0 .. 3 |-> current'[m]] /\ stack' = [m \in 0 .. 3 |-> stack'[m]] /\ se' \in BOOLEAN
    BY <1>3
  <2>3. QED
    BY <2>1, <2>2
<1>6. saved \in Seq(MatrixPair) /\ Len(saved) \in Nat /\ Len(saved) <= Deepest
  BY <1>1 DEF MatricesTypeOK, MatrixPair
<1>7. Deepest \in Nat
  BY StacksAssumption
<1>8. CASE mode \in {1, 2}
  <2> DEFINE n == Len(saved) - i
  <2>1. n \in Int
    BY <1>6
  <2>2. ASSUME n \in 0 .. Deepest
        PROVE  /\ saved' = [k \in 1 .. n |-> IF k <= Len(saved) THEN saved[k] ELSE PairAt(k - 1)]
               /\ saved' \in Seq(MatrixPair) /\ Len(saved') = n
    <3>1. saved' = [k \in 1 .. n |-> IF k <= Len(saved) THEN saved[k] ELSE PairAt(k - 1)]
      BY <1>3, <1>8, <2>2 DEF LeftBy
    <3>2. ASSUME NEW k \in 1 .. n
          PROVE  (IF k <= Len(saved) THEN saved[k] ELSE PairAt(k - 1)) \in MatrixPair
      <4>1. k \in Nat /\ k - 1 \in 0 .. Deepest
        BY <2>1, <2>2, <1>7
      <4>2. CASE k <= Len(saved)
        <5>1. k \in 1 .. Len(saved)
          BY <4>1, <4>2, <1>6
        <5>2. saved[k] \in MatrixPair
          BY <5>1, <1>6
        <5>3. QED
          BY <4>2, <5>2
      <4>3. CASE ~(k <= Len(saved))
        <5>1. /\ stack[1].matrix \in [0 .. Deepest -> 0 .. Order - 1]
              /\ stack[2].matrix \in [0 .. Deepest -> 0 .. Order - 1]
          <6>1. 1 \in 0 .. 3 /\ 2 \in 0 .. 3 /\ Size(1) = Deepest /\ Size(2) = Deepest
            BY DEF Size
          <6>2. QED
            BY <6>1, <1>1, SlotOf
        <5>2. PairAt(k - 1) \in MatrixPair
          BY <4>1, <5>1 DEF PairAt, MatrixPair
        <5>3. QED
          BY <4>3, <5>2
      <4>4. QED
        BY <4>2, <4>3
    <3>3. n \in Nat
      BY <2>2, <1>7
    <3>4. QED
      BY <3>1, <3>2, <3>3
  <2>3. ASSUME n \notin 0 .. Deepest
        PROVE  saved' = << >>
    BY <1>3, <1>8, <2>3 DEF LeftBy
  <2>4. saved' \in Seq(MatrixPair) /\ Len(saved') <= Deepest
    <3>1. CASE n \in 0 .. Deepest
      BY <1>7, <2>1, <2>2, <3>1
    <3>2. CASE n \notin 0 .. Deepest
      BY <2>3, <3>2, <1>7
    <3>3. QED
      BY <3>1, <3>2
  <2>5. MatricesTypeOK'
    BY <1>1, <1>4, <1>5, <2>4 DEF MatricesTypeOK, Slot, MatrixPair, Size
  <2>6. stack'[1].position = stack'[2].position
    <3>1. stack'[1].position = Moved(1, -i) /\ stack'[2].position = Moved(2, -i)
      BY <1>2, <1>4, <1>8
    <3>2. QED
      BY <3>1 DEF Moved, Size, StacksPaired, StacksInStep
  <2>7. ASSUME ~se', NEW m \in {1, 2}
        PROVE  /\ n \in 0 .. Deepest /\ stack'[m].position = n
               /\ \A k \in 1 .. Len(saved) : stack[m].matrix[k - 1] = saved[k][m]
               /\ current'[m] = stack[m].matrix[n]
    <3>1. ~se /\ ~LeavesRange(m, -i) /\ m \in 0 .. 3 /\ m \in Affected
      BY <2>7, <1>2, <1>3, <1>8
    <3>2. stack[m].position = Len(saved) /\ \A k \in 1 .. Len(saved) : stack[m].matrix[k - 1] = saved[k][m]
      BY <3>1, <2>7 DEF StacksPaired, StackHoldsPairs
    <3>3. Moved(m, -i) = stack[m].position + (-i) /\ Moved(m, -i) \in 0 .. Size(m) /\ Size(m) = Deepest
      <4>1. -i \in Int
        OBVIOUS
      <4>2. QED
        BY <1>1, <2>7, <3>1, <4>1, MovedPosition, SlotOf
    <3>4. Moved(m, -i) = n
      BY <3>2, <3>3, <1>6
    <3>5. QED
      BY <1>4, <2>7, <3>1, <3>2, <3>3, <3>4 DEF Entry
  <2>8. ASSUME ~se', NEW m \in {1, 2}, NEW k \in 1 .. Len(saved')
        PROVE  stack'[m].matrix[k - 1] = saved'[k][m]
    <3>1. k \in 1 .. n /\ k \in Nat /\ stack'[m].matrix = stack[m].matrix
      BY <2>1, <2>2, <2>7, <2>8, <1>4
    <3>2. saved'[k] = IF k <= Len(saved) THEN saved[k] ELSE PairAt(k - 1)
      BY <2>2, <2>7, <2>8, <3>1
    <3>3. CASE k <= Len(saved)
      <4>1. k \in 1 .. Len(saved)
        BY <3>1, <3>3, <1>6
      <4>2. QED
        BY <2>7, <2>8, <3>1, <3>2, <3>3, <4>1
    <3>4. CASE ~(k <= Len(saved))
      BY <2>8, <3>1, <3>2, <3>4 DEF PairAt
    <3>5. QED
      BY <3>3, <3>4
  <2>9. StackHoldsPairs'
    <3>1. ASSUME ~se', NEW m \in {1, 2}
          PROVE  stack'[m].position = Len(saved')
      BY <3>1, <2>2, <2>7
    <3>2. QED
      BY <3>1, <2>8 DEF StackHoldsPairs
  <2>10. PopRestores
    <3>1. SUFFICES ASSUME ~se', Len(saved') < Len(saved)
                   PROVE  <<current'[1], current'[2]>> = saved[Len(saved') + 1]
      BY DEF PopRestores
    <3>2. n \in 0 .. Deepest /\ Len(saved') = n /\ current'[1] = stack[1].matrix[n] /\ current'[2] = stack[2].matrix[n]
      BY <3>1, <2>2, <2>7
    <3>3. n + 1 \in 1 .. Len(saved) /\ (n + 1) - 1 = n
      BY <3>1, <3>2, <2>1, <1>6, <1>7
    <3>4. stack[1].matrix[n] = saved[n + 1][1] /\ stack[2].matrix[n] = saved[n + 1][2]
      BY <3>1, <3>3, <2>7
    <3>5. saved[n + 1] \in MatrixPair
      BY <3>3, <1>6
    <3>6. saved[n + 1] = <<saved[n + 1][1], saved[n + 1][2]>>
      BY <3>5 DEF MatrixPair
    <3>7. QED
      BY <3>2, <3>4, <3>6
  <2>11. QED
    BY <2>5, <2>6, <2>9, <2>10 DEF StacksPaired, StacksInStep
<1>9. CASE mode \notin {1, 2}
  <2>1. saved' = saved /\ stack'[1] = stack[1] /\ stack'[2] = stack[2] /\ (se => se')
    <3>1. se => se'
      BY <1>3
    <3>2. 1 \in 0 .. 3 /\ 2 \in 0 .. 3 /\ 1 \notin Affected /\ 2 \notin Affected
      BY <1>2, <1>9
    <3>3. stack'[1] = stack[1] /\ stack'[2] = stack[2]
      BY <1>4, <3>2
    <3>4. saved' = saved
      BY <1>3, <1>9
    <3>5. QED
      BY <3>1, <3>3, <3>4
  <2>2. MatricesTypeOK'
    BY <1>1, <1>4, <1>5, <2>1 DEF MatricesTypeOK, Slot, Size
  <2>3. StackHoldsPairs' /\ StacksInStep' /\ PopRestores
    BY <2>1, <1>9 DEF StacksPaired, StackHoldsPairs, StacksInStep, PopRestores
  <2>4. QED
    BY <2>2, <2>3 DEF StacksPaired
<1>10. QED
  BY <1>8, <1>9

\* Of what lies above the pairs a game may store any entry; the pairs stay
\* (gfx3d_glStoreMatrix).
LEMMA StoreKeeps ==
  ASSUME StacksPaired, gfx3d_glStoreMatrix
  PROVE  StacksPaired'
<1>1. MatricesTypeOK /\ mode' = mode /\ current' = current /\ edits' = edits /\ saved' = saved
  BY DEF StacksPaired, gfx3d_glStoreMatrix
<1>2. PICK v \in 0 .. Deepest, at \in Int :
        /\ at = IF mode \in {0, 3} THEN 0 ELSE v
        /\ mode \in {1, 2} => at >= Len(saved)
        /\ stack' = [m \in 0 .. 3 |-> IF m \in Affected THEN [stack[m] EXCEPT !.matrix[at] = current[m]]
                                      ELSE stack[m]]
        /\ se' = (se \/ at = Deepest)
  <2>1. PICK v \in 0 .. Deepest :
          LET at == IF mode \in {0, 3} THEN 0 ELSE v IN
          /\ mode \in {1, 2} => at >= Len(saved)
          /\ stack' = [m \in 0 .. 3 |-> IF m \in Affected THEN [stack[m] EXCEPT !.matrix[at] = current[m]]
                                        ELSE stack[m]]
          /\ se' = (se \/ at = Deepest)
    BY DEF gfx3d_glStoreMatrix
  <2>2. (IF mode \in {0, 3} THEN 0 ELSE v) \in Int
    OBVIOUS
  <2>3. QED
    BY <2>1, <2>2
<1>3. Affected \subseteq 0 .. 3 /\ (1 \in Affected <=> mode \in {1, 2}) /\ (2 \in Affected <=> mode \in {1, 2})
  BY <1>1, AffectedTogether DEF MatricesTypeOK
<1>4. ASSUME NEW m \in 0 .. 3
      PROVE  /\ stack'[m] \in Slot(m) /\ stack'[m].position = stack[m].position
             /\ m \notin Affected => stack'[m] = stack[m]
             /\ \A k \in 0 .. Size(m) : k # at => stack'[m].matrix[k] = stack[m].matrix[k]
  <2>1. stack[m] \in Slot(m) /\ current[m] \in 0 .. Order - 1
    BY <1>1, SlotOf
  <2>2. stack'[m] = IF m \in Affected THEN [stack[m] EXCEPT !.matrix[at] = current[m]] ELSE stack[m]
    BY <1>2
  <2>3. [stack[m].matrix EXCEPT ![at] = current[m]] \in [0 .. Size(m) -> 0 .. Order - 1]
    BY <2>1 DEF Slot
  <2>4. CASE m \in Affected
    <3>1. stack'[m] = [stack[m] EXCEPT !.matrix = [stack[m].matrix EXCEPT ![at] = current[m]]]
      BY <2>2, <2>4
    <3>2. stack'[m] = [position |-> stack[m].position, matrix |-> [stack[m].matrix EXCEPT ![at] = current[m]]]
      BY <2>1, <3>1 DEF Slot
    <3>3. QED
      BY <2>1, <2>3, <2>4, <3>2 DEF Slot
  <2>5. CASE m \notin Affected
    BY <2>1, <2>2, <2>5
  <2>6. QED
    BY <2>4, <2>5
<1>5. MatricesTypeOK'
  <2>1. stack' = [m \in 0 .. 3 |-> stack'[m]]
    BY <1>2
  <2>2. se' \in BOOLEAN
    BY <1>2
  <2>3. QED
    BY <1>1, <1>4, <2>1, <2>2 DEF MatricesTypeOK, Slot, Size
<1>6. StacksInStep'
  BY <1>4 DEF StacksPaired, StacksInStep
<1>7. ASSUME ~se', NEW m \in {1, 2}
      PROVE  stack'[m].position = Len(saved) /\ \A k \in 1 .. Len(saved) : stack'[m].matrix[k - 1] = saved[k][m]
  <2>1. ~se /\ m \in 0 .. 3
    <3>1. ~se
      BY <1>2, <1>7
    <3>2. QED
      BY <1>7, <3>1
  <2>2. stack[m].position = Len(saved) /\ \A k \in 1 .. Len(saved) : stack[m].matrix[k - 1] = saved[k][m]
    BY <2>1, <1>7 DEF StacksPaired, StackHoldsPairs
  <2>3. Len(saved) \in Nat /\ Len(saved) <= Deepest /\ Deepest \in Nat
    BY <1>1, StacksAssumption DEF MatricesTypeOK
  <2>4. ASSUME NEW k \in 1 .. Len(saved)
        PROVE  stack'[m].matrix[k - 1] = stack[m].matrix[k - 1]
    <3>1. CASE mode \in {1, 2}
      <4>1. k - 1 \in 0 .. Deepest /\ k - 1 # at
        BY <3>1, <2>3, <1>2
      <4>2. Size(m) = Deepest
        BY <1>7 DEF Size
      <4>3. QED
        BY <4>1, <4>2, <2>1, <1>4
    <3>2. CASE mode \notin {1, 2}
      <4>1. m \notin Affected
        BY <3>2, <1>3, <1>7
      <4>2. QED
        BY <4>1, <2>1, <1>4
    <3>3. QED
      BY <3>1, <3>2
  <2>5. stack'[m].position = stack[m].position
    BY <2>1, <1>4
  <2>6. QED
    BY <2>2, <2>4, <2>5
<1>8. QED
  BY <1>1, <1>5, <1>6, <1>7 DEF StacksPaired, StackHoldsPairs

\* An action that leaves the stacks alone, and what the game keeps of them, leaves the
\* properties: those that set the mode or change the current matrix.
LEMMA CurrentKeeps ==
  ASSUME StacksPaired, UNCHANGED <<stack, saved>>, mode' \in 0 .. 3, se' \in BOOLEAN, se => se',
         edits' \in 0 .. MaxEdits, current' = [m \in 0 .. 3 |-> current'[m]],
         \A m \in 0 .. 3 : current'[m] \in 0 .. Order - 1
  PROVE  StacksPaired'
<1>1. current' \in [0 .. 3 -> 0 .. Order - 1]
  OBVIOUS
<1>2. MatricesTypeOK'
  BY <1>1 DEF StacksPaired, MatricesTypeOK, Size
<1>3. QED
  BY <1>2 DEF StacksPaired, StackHoldsPairs, StacksInStep

\* A product of matrices is a matrix (MatrixMultiply).
LEMMA ProductRange ==
  ASSUME NEW a \in 0 .. Order - 1, NEW b \in 0 .. Order - 1
  PROVE  Product(a, b) \in 0 .. Order - 1
<1>1. Order \in Nat \ {0} /\ a + b \in Int
  BY StacksAssumption
<1>2. \A x, n \in Int : n > 0 => x % n \in 0 .. n - 1
  OBVIOUS
<1>3. QED
  BY <1>1, <1>2 DEF Product

\* Restoring takes an entry the game names and moves nothing (gfx3d_glRestoreMatrix).
LEMMA RestoreKeeps ==
  ASSUME StacksPaired, gfx3d_glRestoreMatrix
  PROVE  StacksPaired'
<1>1. MatricesTypeOK /\ mode \in 0 .. 3 /\ edits \in 0 .. MaxEdits /\ se \in BOOLEAN
  BY DEF StacksPaired, MatricesTypeOK
<1>2. PICK v \in 0 .. Deepest, at \in Int :
        /\ at = IF mode \in {0, 3} THEN 0 ELSE v
        /\ current' = [m \in 0 .. 3 |-> IF m \in Affected THEN stack[m].matrix[at] ELSE current[m]]
        /\ se' = (se \/ at = Deepest)
  BY DEF gfx3d_glRestoreMatrix
<1>3. ASSUME NEW m \in 0 .. 3
      PROVE  current'[m] \in 0 .. Order - 1
  <2>1. /\ stack[m].matrix \in [0 .. Size(m) -> 0 .. Order - 1] /\ current[m] \in 0 .. Order - 1
        /\ Size(m) \in Nat \ {0} /\ (m \in {1, 2} => Size(m) = Deepest)
    BY <1>1, SlotOf
  <2>2. current'[m] = IF m \in Affected THEN stack[m].matrix[at] ELSE current[m]
    BY <1>2
  <2>3. ASSUME m \in Affected
        PROVE  at \in 0 .. Size(m)
    <3>1. CASE mode \in {0, 3}
      BY <3>1, <2>1, <1>2
    <3>2. CASE mode \in {1, 2}
      BY <3>2, <2>1, <2>3, <1>2 DEF Affected
    <3>3. QED
      BY <3>1, <3>2, <1>1
  <2>4. QED
    BY <2>1, <2>2, <2>3
<1>4. se' \in BOOLEAN /\ (se => se')
  BY <1>2
<1>5. UNCHANGED <<mode, stack, edits, saved>> /\ current' = [m \in 0 .. 3 |-> current'[m]]
  BY <1>2 DEF gfx3d_glRestoreMatrix
<1>6. QED
  BY <1>1, <1>3, <1>4, <1>5, CurrentKeeps

\* The error flag is cleared together with what the game believed; it starts over from the
\* entries below the position (TGXSTAT::write32).
LEMMA ClearKeeps ==
  ASSUME StacksPaired, ClearError
  PROVE  StacksPaired'
<1>1. MatricesTypeOK /\ mode' = mode /\ current' = current /\ edits' = edits /\ se' = FALSE
  BY DEF StacksPaired, ClearError
<1>2. stack' = [stack EXCEPT ![0].position = 0]
  BY DEF ClearError
<1>3. ASSUME NEW m \in 0 .. 3
      PROVE  stack'[m] \in Slot(m) /\ (m # 0 => stack'[m] = stack[m])
  <2>1. stack = [k \in 0 .. 3 |-> stack[k]] /\ stack[m] \in Slot(m) /\ Size(m) \in Nat \ {0}
    BY <1>1, SlotOf DEF MatricesTypeOK
  <2>2. CASE m = 0
    <3>1. stack'[m] = [stack[m] EXCEPT !.position = 0]
      BY <1>2, <2>1, <2>2
    <3>2. QED
      BY <2>1, <2>2, <3>1 DEF Slot
  <2>3. CASE m # 0
    BY <1>2, <2>1, <2>3
  <2>4. QED
    BY <2>2, <2>3
<1>4. stack' = [m \in 0 .. 3 |-> stack'[m]]
  <2>1. stack = [k \in 0 .. 3 |-> stack[k]]
    BY <1>1 DEF MatricesTypeOK
  <2>2. QED
    BY <1>2, <2>1
<1>5. Deepest \in Nat /\ Size(1) = Deepest /\ Size(2) = Deepest /\ 1 \in 0 .. 3 /\ 2 \in 0 .. 3
  BY StacksAssumption DEF Size
<1>6. /\ stack'[1] = stack[1] /\ stack'[2] = stack[2] /\ stack[1].position = stack[2].position
      /\ stack[2].position \in 0 .. Deepest
      /\ stack[1].matrix \in [0 .. Deepest -> 0 .. Order - 1]
      /\ stack[2].matrix \in [0 .. Deepest -> 0 .. Order - 1]
  <2>1. stack'[1] = stack[1] /\ stack'[2] = stack[2]
    BY <1>3, <1>5
  <2>2. /\ stack[1].matrix \in [0 .. Size(1) -> 0 .. Order - 1]
        /\ stack[2].position \in 0 .. Size(2) /\ stack[2].matrix \in [0 .. Size(2) -> 0 .. Order - 1]
    BY <1>1, <1>5, SlotOf
  <2>3. stack[1].position = stack[2].position
    BY DEF StacksPaired, StacksInStep
  <2>4. QED
    BY <1>5, <2>1, <2>2, <2>3
<1>7. /\ saved' \in Seq(MatrixPair) /\ Len(saved') <= Deepest
      /\ \A m \in {1, 2} : /\ stack[m].position = Len(saved')
                           /\ \A k \in 1 .. Len(saved') : stack[m].matrix[k - 1] = saved'[k][m]
  <2>1. CASE se
    <3> DEFINE n == stack[2].position
    <3>1. saved' = [k \in 1 .. n |-> PairAt(k - 1)]
      BY <2>1 DEF ClearError
    <3>2. n \in Nat /\ n <= Deepest
      BY <1>5, <1>6
    <3>3. ASSUME NEW k \in 1 .. n
          PROVE  PairAt(k - 1) \in MatrixPair
      <4>1. k - 1 \in 0 .. Deepest
        BY <3>2, <1>5
      <4>2. QED
        BY <4>1, <1>6 DEF PairAt, MatrixPair
    <3>4. saved' \in Seq(MatrixPair) /\ Len(saved') = n
      BY <3>1, <3>2, <3>3
    <3>5. ASSUME NEW m \in {1, 2}, NEW k \in 1 .. n
          PROVE  stack[m].matrix[k - 1] = saved'[k][m]
      BY <3>1, <3>5 DEF PairAt
    <3>6. QED
      BY <3>2, <3>4, <3>5, <1>6
  <2>2. CASE ~se
    <3>1. saved' = saved
      BY <2>2 DEF ClearError
    <3>2. QED
      BY <3>1, <2>2, <1>1 DEF StacksPaired, StackHoldsPairs, MatricesTypeOK, MatrixPair
  <2>3. QED
    BY <2>1, <2>2
<1>8. MatricesTypeOK'
  BY <1>1, <1>3, <1>4, <1>7 DEF MatricesTypeOK, Slot, Size, MatrixPair
<1>9. QED
  BY <1>6, <1>7, <1>8 DEF StacksPaired, StackHoldsPairs, StacksInStep

\* Every step of the engine leaves the stacks paired (gfx3d_execute).
LEMMA MatricesStep ==
  ASSUME StacksPaired, [MatricesNext]_matrixVars
  PROVE  StacksPaired'
<1>1. /\ mode \in 0 .. 3 /\ se \in BOOLEAN /\ edits \in 0 .. MaxEdits
      /\ current \in [0 .. 3 -> 0 .. Order - 1]
  BY DEF StacksPaired, MatricesTypeOK
<1>2. ASSUME Edited
      PROVE  edits' \in 0 .. MaxEdits
  <2>1. edits < MaxEdits /\ edits' = edits + 1 /\ MaxEdits \in Nat
    BY <1>2, StacksAssumption DEF Edited
  <2>2. QED
    BY <1>1, <2>1
<1>3. CASE gfx3d_glMatrixMode
  <2>1. mode' \in 0 .. 3
    BY <1>3, StacksAssumption DEF gfx3d_glMatrixMode
  <2>2. UNCHANGED <<current, stack, se, edits, saved>>
    BY <1>3 DEF gfx3d_glMatrixMode
  <2>3. QED
    BY <1>1, <2>1, <2>2, CurrentKeeps
<1>4. CASE LoadMatrix
  <2>1. PICK v \in 0 .. Order - 1 :
          current' = [m \in 0 .. 3 |-> IF m \in Transformed THEN v ELSE current[m]]
    BY <1>4 DEF LoadMatrix
  <2>2. Edited /\ UNCHANGED <<mode, stack, se, saved>>
    BY <1>4 DEF LoadMatrix
  <2>3. \A m \in 0 .. 3 : current'[m] \in 0 .. Order - 1
    BY <1>1, <2>1
  <2>4. current' = [m \in 0 .. 3 |-> current'[m]]
    BY <2>1
  <2>5. QED
    BY <1>1, <1>2, <2>2, <2>3, <2>4, CurrentKeeps
<1>5. CASE MultMatrix
  <2>1. PICK v \in NonTrivial :
          current' = [m \in 0 .. 3 |-> IF m \in Transformed THEN Product(current[m], v) ELSE current[m]]
    BY <1>5 DEF MultMatrix
  <2>2. Edited /\ UNCHANGED <<mode, stack, se, saved>>
    BY <1>5 DEF MultMatrix
  <2>3. v \in 0 .. Order - 1
    BY StacksAssumption DEF NonTrivial
  <2>4. \A m \in 0 .. 3 : current'[m] \in 0 .. Order - 1
    BY <1>1, <2>1, <2>3, ProductRange
  <2>5. current' = [m \in 0 .. 3 |-> current'[m]]
    BY <2>1
  <2>6. QED
    BY <1>1, <1>2, <2>2, <2>4, <2>5, CurrentKeeps
<1>6. CASE gfx3d_glScale
  <2>1. PICK v \in NonTrivial, m \in 0 .. 3 : current' = [current EXCEPT ![m] = Product(@, v)]
    <3>1. PICK v \in NonTrivial :
            LET m == IF mode = 2 THEN 1 ELSE mode IN current' = [current EXCEPT ![m] = Product(@, v)]
      BY <1>6 DEF gfx3d_glScale
    <3>2. (IF mode = 2 THEN 1 ELSE mode) \in 0 .. 3
      BY <1>1
    <3>3. QED
      BY <3>1, <3>2
  <2>2. Edited /\ UNCHANGED <<mode, stack, se, saved>>
    BY <1>6 DEF gfx3d_glScale
  <2>3. v \in 0 .. Order - 1
    BY StacksAssumption DEF NonTrivial
  <2>4. current[m] \in 0 .. Order - 1
    BY <1>1
  <2>5. Product(current[m], v) \in 0 .. Order - 1
    BY <2>3, <2>4, ProductRange
  <2>6. current' \in [0 .. 3 -> 0 .. Order - 1]
    BY <1>1, <2>1, <2>5
  <2>7. (\A k \in 0 .. 3 : current'[k] \in 0 .. Order - 1) /\ current' = [k \in 0 .. 3 |-> current'[k]]
    BY <2>6
  <2>8. QED
    BY <1>1, <1>2, <2>2, <2>7, CurrentKeeps
<1>7. CASE UNCHANGED matrixVars
  BY <1>7 DEF matrixVars, StacksPaired, MatricesTypeOK, StackHoldsPairs, StacksInStep
<1>8. QED
  BY <1>3, <1>4, <1>5, <1>6, <1>7, PushKeeps, PopKeeps, StoreKeeps, RestoreKeeps, ClearKeeps DEF MatricesNext

\* Without an error, the stacks hold the pairs of matrices the game pushed, for every size of the
\* stacks, every number of matrices and every set of offsets; they never part
\* (gfx3d_glPushMatrix, gfx3d_glPopMatrix, matrix.cpp).
THEOREM StacksStayPaired == MatricesSpec => []StacksPaired
<1>1. QED
  BY MatricesBegin, MatricesStep, PTL DEF MatricesSpec

\* Every pop gives back what its push took, also when other modes were set in between
\* (gfx3d_glPopMatrix).
THEOREM PopsGiveBack == MatricesSpec => PopsRestore
<1>1. ASSUME StacksPaired, [MatricesNext]_matrixVars
      PROVE  [PopRestores]_matrixVars
  <2>1. CASE gfx3d_glPopMatrix
    BY <1>1, <2>1, PopKeeps
  <2>2. CASE ~gfx3d_glPopMatrix
    BY <2>2 DEF PopRestores
  <2>3. QED
    BY <2>1, <2>2
<1>2. QED
  BY <1>1, StacksStayPaired, PTL DEF MatricesSpec, PopsRestore

-----------------------------------------------------------------------------
(* The polygon lists: the order of drawing *)

\* The numbers of the polygons in the list that is built.
Polys == 1 .. Len(built.polys)

\* The smallest and the largest height of a polygon are numbers (gfx3d_doFlush).
LEMMA BoundsAreNumbers ==
  ASSUME NEW S, S # {}, S \subseteq 0 .. 2
  PROVE  MinOf(S) \in 0 .. 2 /\ MaxOf(S) \in 0 .. 2
<1>0. /\ \A x \in S : x = 0 \/ x = 1 \/ x = 2
      /\ 0 \in S \/ 1 \in S \/ 2 \in S
  <2>1. \A x \in 0 .. 2 : x = 0 \/ x = 1 \/ x = 2
    OBVIOUS
  <2>2. PICK x \in S : TRUE
    OBVIOUS
  <2>3. QED
    BY <2>1, <2>2
<1>1. \E x \in S : \A y \in S : x <= y
  <2>1. CASE 0 \in S
    BY <1>0, <2>1
  <2>2. CASE 0 \notin S /\ 1 \in S
    BY <1>0, <2>2
  <2>3. CASE 0 \notin S /\ 1 \notin S
    BY <1>0, <2>3
  <2>4. QED
    BY <2>1, <2>2, <2>3
<1>2. \E x \in S : \A y \in S : x >= y
  <2>1. CASE 2 \in S
    BY <1>0, <2>1
  <2>2. CASE 2 \notin S /\ 1 \in S
    BY <1>0, <2>2
  <2>3. CASE 2 \notin S /\ 1 \notin S
    BY <1>0, <2>3
  <2>4. QED
    BY <2>1, <2>2, <2>3
<1>3. MinOf(S) \in S
  BY <1>1, Zenon DEF MinOf
<1>4. MaxOf(S) \in S
  BY <1>2, Zenon DEF MaxOf
<1>5. QED
  BY <1>3, <1>4

\* The polygons of the list that is built have corners in it (SetVertex).
LEMMA BuiltPolygons ==
  ASSUME PolygonsTypeOK
  PROVE  /\ Len(built.polys) \in Nat
         /\ \A k \in Polys : built.polys[k] \in Polygon /\ built.polys[k].polyAttr \in BOOLEAN
         /\ built.verts \in [0 .. VERTLIST_SIZE - 1 -> Nat] /\ built.count \in Nat
         /\ built.polys \in Seq(Polygon) /\ built.spoiled \in BOOLEAN
<1>1. built \in [verts : [0 .. VERTLIST_SIZE - 1 -> Nat], count : 0 .. VERTLIST_SIZE,
                 polys : Seq(Polygon), spoiled : BOOLEAN]
  BY DEF PolygonsTypeOK, built, Lists
<1>2. /\ built.verts \in [0 .. VERTLIST_SIZE - 1 -> Nat] /\ built.count \in 0 .. VERTLIST_SIZE
      /\ built.polys \in Seq(Polygon) /\ built.spoiled \in BOOLEAN
  BY <1>1
<1>3. Len(built.polys) \in Nat /\ \A k \in Polys : built.polys[k] \in Polygon
  BY <1>2 DEF Polys
<1>4. \A p \in Polygon : p.polyAttr \in BOOLEAN
  BY DEF Polygon
<1>5. built.count \in Nat
  BY <1>2
<1>6. QED
  BY <1>2, <1>3, <1>4, <1>5

\* The heights of a polygon have bounds (gfx3d_doFlush).
LEMMA HeightsBounded ==
  ASSUME PolygonsTypeOK, NEW k \in Polys
  PROVE  /\ MinOf(Heights(built.polys[k])) \in 0 .. 2
         /\ MaxOf(Heights(built.polys[k])) \in 0 .. 2
<1> DEFINE v == built.polys[k].vertIndexes
<1>1. v \in [1 .. 3 -> 0 .. IndexRange - 1] \cup [1 .. 4 -> 0 .. IndexRange - 1]
  BY BuiltPolygons DEF Polygon
<1>2. IndexRange \in Nat /\ IndexRange <= VERTLIST_SIZE /\ VERTLIST_SIZE \in Nat
  BY PolygonsAssumption
<1>3. 1 \in DOMAIN v /\ \A i \in DOMAIN v : v[i] \in 0 .. IndexRange - 1
  BY <1>1
<1> HIDE DEF v
<1>4. \A i \in DOMAIN v : v[i] \in 0 .. VERTLIST_SIZE - 1
  BY <1>2, <1>3
<1>5. \A i \in DOMAIN v : built.verts[v[i]] \in Nat
  BY <1>4, BuiltPolygons
<1>6. \A n \in Nat : n % 3 \in 0 .. 2
  OBVIOUS
<1>7. Heights(built.polys[k]) = {built.verts[v[i]] % 3 : i \in DOMAIN v}
  BY DEF Heights, Height, v
<1>8. Heights(built.polys[k]) # {} /\ Heights(built.polys[k]) \subseteq 0 .. 2
  BY <1>3, <1>5, <1>6, <1>7
<1>9. QED
  BY <1>8, BoundsAreNumbers

\* Drawing has a strict and total order (gfx3d_ysort_compare and the two loops of gfx3d_doFlush).
LEMMA DrawnBeforeIsOrder ==
  ASSUME PolygonsTypeOK
  PROVE  /\ \A i \in Polys : ~DrawnBefore(i, i)
         /\ \A i, j \in Polys : i # j => DrawnBefore(i, j) \/ DrawnBefore(j, i)
         /\ \A i, j, k \in Polys : DrawnBefore(i, j) /\ DrawnBefore(j, k) => DrawnBefore(i, k)
<1> DEFINE lo(i) == MinOf(Heights(built.polys[i]))
           hi(i) == MaxOf(Heights(built.polys[i]))
           t(i) == built.polys[i].polyAttr
           less(i, j) == \/ hi(i) < hi(j)
                         \/ hi(i) = hi(j) /\ lo(i) < lo(j)
                         \/ hi(i) = hi(j) /\ lo(i) = lo(j) /\ i < j
<1>1. \A i \in Polys : lo(i) \in Int /\ hi(i) \in Int /\ i \in Int
  BY HeightsBounded, BuiltPolygons DEF Polys
<1>2. \A i, j \in Polys : ysort_compare(i, j) <=> less(i, j)
  BY DEF ysort_compare
<1>3. \A i, j \in Polys : DrawnBefore(i, j) <=>
        \/ ~t(i) /\ t(j)
        \/ ~t(i) /\ ~t(j) /\ less(i, j)
        \/ t(i) /\ t(j) /\ IF flushCommand.active THEN i < j ELSE less(i, j)
  BY <1>2 DEF DrawnBefore, Opaque, Translucent
<1> HIDE DEF lo, hi, t
<1>4. \A i \in Polys : ~less(i, i)
  BY <1>1
<1>5. \A i, j \in Polys : i # j => less(i, j) \/ less(j, i)
  BY <1>1
<1>6. \A i, j, k \in Polys : less(i, j) /\ less(j, k) => less(i, k)
  BY <1>1
<1> HIDE DEF less
<1>7. \A i, j \in Polys : i # j => (i < j \/ j < i)
  BY <1>1
<1>8. \A i, j, k \in Polys : i < j /\ j < k => i < k
  BY <1>1
<1>9. \A i \in Polys : ~(i < i)
  BY <1>1
<1>10. \A i \in Polys : ~DrawnBefore(i, i)
  BY <1>3, <1>4, <1>9
<1>11. \A i, j \in Polys : i # j => DrawnBefore(i, j) \/ DrawnBefore(j, i)
  BY <1>3, <1>5, <1>7
<1>12. \A i, j, k \in Polys : DrawnBefore(i, j) /\ DrawnBefore(j, k) => DrawnBefore(i, k)
  BY <1>3, <1>6, <1>8
<1>13. QED
  BY <1>10, <1>11, <1>12

\* The polygons drawn before one are fewer than those drawn before a later one.
LEMMA RankOrders ==
  ASSUME PolygonsTypeOK
  PROVE  /\ \A i \in Polys : Rank(i) \in 0 .. Len(built.polys) - 1
         /\ \A i, j \in Polys : DrawnBefore(i, j) => Rank(i) < Rank(j)
<1> DEFINE before(i) == {j \in Polys : DrawnBefore(j, i)}
<1>1. IsFiniteSet(Polys) /\ Cardinality(Polys) = Len(built.polys)
  <2>1. \A n \in Nat : IsFiniteSet(1 .. n) /\ Cardinality(1 .. n) = n
    BY FS_Interval
  <2>2. QED
    BY <2>1, BuiltPolygons DEF Polys
<1>2. \A i : Rank(i) = Cardinality(before(i))
  BY DEF Rank, Polys
<1>3. \A i : before(i) \in SUBSET Polys
  OBVIOUS
<1>4. ASSUME NEW i
      PROVE  IsFiniteSet(before(i)) /\ Cardinality(before(i)) \in Nat
  <2>1. before(i) \in SUBSET Polys
    OBVIOUS
  <2> HIDE DEF before
  <2>2. IsFiniteSet(before(i))
    BY <1>1, <2>1, FS_Subset
  <2>3. QED
    BY <2>2, FS_CardinalityType
<1>5. ASSUME NEW i \in Polys
      PROVE  Rank(i) \in 0 .. Len(built.polys) - 1
  <2>1. i \notin before(i)
    BY DrawnBeforeIsOrder
  <2>2. Cardinality(before(i)) <= Cardinality(Polys) /\ Cardinality(before(i)) # Cardinality(Polys)
    BY <1>1, <1>3, <2>1, FS_Subset
  <2> HIDE DEF before
  <2>3. Rank(i) \in Nat /\ Rank(i) < Len(built.polys) /\ Len(built.polys) \in Nat
    <3>1. Rank(i) = Cardinality(before(i)) /\ Cardinality(before(i)) \in Nat /\ Len(built.polys) \in Nat
      BY <1>2, <1>4, BuiltPolygons
    <3>2. QED
      BY <1>1, <2>2, <3>1
  <2>4. QED
    BY <2>3
<1>6. ASSUME NEW i \in Polys, NEW j \in Polys, DrawnBefore(i, j)
      PROVE  Rank(i) < Rank(j)
  <2>1. before(i) \in SUBSET before(j)
    BY <1>6, DrawnBeforeIsOrder
  <2>2. i \in before(j) /\ i \notin before(i)
    BY <1>6, DrawnBeforeIsOrder
  <2> HIDE DEF before
  <2>3. Cardinality(before(i)) <= Cardinality(before(j)) /\ Cardinality(before(i)) # Cardinality(before(j))
    BY <1>4, <2>1, <2>2, FS_Subset
  <2>4. QED
    BY <1>2, <1>4, <2>3
<1>7. QED
  BY <1>5, <1>6

\* Sorting leaves out no polygon and puts those to be drawn first before the others (gfx3d_doFlush).
LEMMA SortedIsRight ==
  ASSUME PolygonsTypeOK
  PROVE  /\ DOMAIN Sorted = Polys /\ Sorted \in [Polys -> Polys]
         /\ \A i \in Polys : \E k \in Polys : Sorted[k] = i
         /\ \A a, b \in Polys : a < b => DrawnBefore(Sorted[a], Sorted[b])
<1> DEFINE n == Len(built.polys)
           rank == [i \in Polys |-> Rank(i)]
           ranks == 0 .. n - 1
<1>1. n \in Nat /\ Polys = 1 .. n
  BY BuiltPolygons DEF Polys
<1>2. rank \in [Polys -> ranks]
  BY RankOrders
<1>3. \A i, j \in Polys : i # j => Rank(i) < Rank(j) \/ Rank(j) < Rank(i)
  BY RankOrders, DrawnBeforeIsOrder
<1>4. \A i \in Polys : Rank(i) \in Int
  BY RankOrders
<1>5. \A i, j \in Polys : Rank(i) = Rank(j) => i = j
  BY <1>3, <1>4
<1>6. rank \in Injection(Polys, ranks)
  <2>1. \A i, j \in Polys : rank[i] = rank[j] => i = j
    BY <1>5
  <2>2. QED
    BY <1>2, <2>1, Zenon DEF Injection, IsInjective
<1>7. IsFiniteSet(ranks) /\ Cardinality(ranks) = n /\ Cardinality(Polys) = n
  <2>1. 0 \in Int /\ n - 1 \in Int /\ 1 \in Int /\ n \in Int
    BY <1>1
  <2>2. IsFiniteSet(ranks) /\ Cardinality(ranks) = IF 0 > n - 1 THEN 0 ELSE (n - 1) - 0 + 1
    BY <2>1, FS_Interval
  <2>3. Cardinality(1 .. n) = IF 1 > n THEN 0 ELSE n - 1 + 1
    BY <2>1, FS_Interval
  <2>4. QED
    BY <1>1, <2>2, <2>3
<1>8. rank \in Surjection(Polys, ranks)
  BY <1>6, <1>7, FS_Injection
<1>9. \A r \in ranks : \E i \in Polys : Rank(i) = r
  BY <1>8 DEF Surjection
<1> HIDE DEF rank
<1>10. \A k \in Polys : k - 1 \in ranks /\ k \in Int
  BY <1>1
<1>11. DOMAIN Sorted = Polys /\ \A k \in Polys : Sorted[k] = CHOOSE i \in Polys : Rank(i) = k - 1
  BY DEF Sorted, Polys
<1>12. \A k \in Polys : Sorted[k] \in Polys /\ Rank(Sorted[k]) = k - 1
  <2>1. ASSUME NEW k \in Polys PROVE \E i \in Polys : Rank(i) = k - 1
    BY <1>9, <1>10
  <2>2. QED
    BY <1>11, <2>1, Zenon
<1>13. Sorted \in [Polys -> Polys]
  <2>1. Sorted = [k \in Polys |-> Sorted[k]]
    BY DEF Sorted, Polys
  <2>2. QED
    BY <2>1, <1>12
<1>14. ASSUME NEW i \in Polys PROVE \E k \in Polys : Sorted[k] = i
  <2>1. Rank(i) \in 0 .. n - 1
    BY RankOrders
  <2>2. Rank(i) + 1 \in Polys /\ (Rank(i) + 1) - 1 = Rank(i)
    BY <1>1, <2>1
  <2>3. Rank(Sorted[Rank(i) + 1]) = Rank(i) /\ Sorted[Rank(i) + 1] \in Polys
    BY <1>12, <2>2
  <2>4. QED
    BY <1>5, <2>2, <2>3
<1>15. ASSUME NEW a \in Polys, NEW b \in Polys, a < b
       PROVE  DrawnBefore(Sorted[a], Sorted[b])
  <2>1. Rank(Sorted[a]) < Rank(Sorted[b])
    BY <1>10, <1>12, <1>15
  <2>2. Sorted[a] \in Polys /\ Sorted[b] \in Polys
    BY <1>12
  <2>3. Sorted[a] # Sorted[b] /\ ~DrawnBefore(Sorted[b], Sorted[a])
    BY <1>4, <2>1, <2>2, RankOrders
  <2>4. QED
    BY <2>2, <2>3, DrawnBeforeIsOrder
<1>16. QED
  BY <1>11, <1>13, <1>14, <1>15

(* The polygon lists: the sequence of vertices *)

\* Which vertex of the sequence a corner of the unfinished polygon is.
Origin(j) ==
  IF vtxFormat = GL_TRIANGLE_STRIP /\ ~temp.first /\ triStripToggle = 1 THEN Len(sent) + 1 - j
  ELSE Len(sent) - Count + j

\* How many vertices wait depends on how many the game sent, and each of them is in the list, in
\* front of the next.
SequenceHeld ==
  /\ Count < Corners
  /\ clean =>
     /\ Continuation <= Count
     /\ ~Strip => Count = Len(sent) % Corners
     /\ Strip /\ temp.first => Count = Len(sent)
     /\ vtxFormat = GL_TRIANGLE_STRIP =>
          IF temp.first THEN triStripToggle = 0
          ELSE Count = 2 /\ Len(sent) >= 3 /\ triStripToggle = Len(sent) % 2
     /\ vtxFormat = GL_QUAD_STRIP =>
          /\ ~temp.first => Count = 2 + (Len(sent) % 2) /\ Len(sent) >= 4
          /\ Count = 3 => temp.map[3] = built.count + 2 - Continuation
     /\ \A j \in 1 .. Count :
          temp.map[j] \in 0 .. VertIndex - 1 /\ built.verts[temp.map[j]] = sent[Origin(j)]

\* The vertices of a polygon are counted ones, and those that were meant.
PolygonHeld(l, p) ==
  p.clean => (\A i \in DOMAIN p.vertIndexes : p.vertIndexes[i] < list[l].count) /\ Faithful(l, p)

ListHeld(l) ==
  /\ list[l].count <= 4 * Len(list[l].polys)
  /\ ~list[l].spoiled /\ list[l].count <= IndexRange =>
       \A k \in 1 .. Len(list[l].polys) : PolygonHeld(l, list[l].polys[k])

\* Indices number vertices of the lists, polygons are drawn from counted vertices only, and the
\* unfinished polygon is the end of the sequence.
PolygonsInv ==
  PolygonsTypeOK /\ SequenceHeld /\ (\A l \in Lists : ListHeld(l)) /\ DrawnOnce

\* The waiting vertices, as numbers (tmpVertInfo).
LEMMA Waiting ==
  ASSUME PolygonsTypeOK, SequenceHeld
  PROVE  /\ temp.map \in Seq(Int) /\ temp.first \in BOOLEAN /\ sent \in Seq(Nat) /\ Len(sent) \in Nat
         /\ Count \in 0 .. 3 /\ Count < Corners /\ Corners \in {3, 4} /\ Continuation \in {0, 2}
         /\ (Corners = 3 <=> vtxFormat \in {GL_TRIANGLES, GL_TRIANGLE_STRIP})
         /\ VertIndex \in Int /\ VertIndex = built.count + Count - Continuation /\ built.count \in Nat
         /\ clean \in BOOLEAN /\ triStripToggle \in {0, 1} /\ vtxFormat \in 0 .. 3
<1>1. temp \in [map : Seq(Int), first : BOOLEAN] /\ Len(temp.map) <= 3 /\ sent \in Seq(Nat)
  BY DEF PolygonsTypeOK
<1>2. temp.map \in Seq(Int) /\ temp.first \in BOOLEAN /\ Len(sent) \in Nat
  BY <1>1
<1>3. Count \in 0 .. 3
  <2>1. Len(temp.map) \in Nat
    BY <1>2
  <2>2. Len(temp.map) <= 3
    BY DEF PolygonsTypeOK
  <2>3. \A n \in Nat : n <= 3 => n \in 0 .. 3
    OBVIOUS
  <2>4. QED
    BY <2>1, <2>2, <2>3 DEF Count
<1>4. Corners \in {3, 4} /\ Continuation \in {0, 2} /\ Count < Corners
      /\ (Corners = 3 <=> vtxFormat \in {GL_TRIANGLES, GL_TRIANGLE_STRIP})
  BY DEF Corners, Continuation, SequenceHeld
<1>5. built.count \in Nat
  BY BuiltPolygons
<1>6. VertIndex \in Int /\ VertIndex = built.count + Count - Continuation
  BY <1>3, <1>4, <1>5 DEF VertIndex
<1>7. clean \in BOOLEAN /\ triStripToggle \in {0, 1} /\ vtxFormat \in 0 .. 3
  BY DEF PolygonsTypeOK
<1>8. QED
  BY <1>1, <1>2, <1>3, <1>4, <1>5, <1>6, <1>7

\* A vertex that waits was sent.
LEMMA OriginInSent ==
  ASSUME PolygonsTypeOK, SequenceHeld, clean, NEW j \in 1 .. Count
  PROVE  Origin(j) \in 1 .. Len(sent) /\ j \in Nat
<1>1. Len(sent) \in Nat /\ Count \in 0 .. 3 /\ Corners \in {3, 4} /\ vtxFormat \in 0 .. 3 /\ j \in 1 .. 3 /\ j <= Count
  BY Waiting
<1>2. \A a \in Nat : a % 3 <= a /\ a % 4 <= a
  OBVIOUS
<1>3. CASE ~Strip
  <2>1. Count <= Len(sent)
    BY <1>1, <1>2, <1>3 DEF SequenceHeld
  <2>2. QED
    BY <1>1, <1>3, <2>1 DEF Origin, Strip
<1>4. CASE Strip /\ temp.first
  BY <1>1, <1>4 DEF SequenceHeld, Origin
<1>5. CASE vtxFormat = GL_TRIANGLE_STRIP /\ ~temp.first
  <2>1. Count = 2 /\ Len(sent) >= 3
    BY <1>5 DEF SequenceHeld
  <2>2. QED
    BY <1>1, <2>1 DEF Origin
<1>6. CASE vtxFormat = GL_QUAD_STRIP /\ ~temp.first
  <2>1. Len(sent) >= 4
    BY <1>6 DEF SequenceHeld
  <2>2. QED
    BY <1>1, <1>6, <2>1 DEF Origin, GL_QUAD_STRIP, GL_TRIANGLE_STRIP
<1>7. QED
  BY <1>3, <1>4, <1>5, <1>6 DEF Strip

\* A new vertex is behind those that wait, and in the list: four for each polygon are enough
\* (SetVertex).
LEMMA InList ==
  ASSUME PolygonsInv, ~Refused
  PROVE  /\ VertIndex <= 4 * Len(built.polys) + 3 /\ VertIndex < VERTLIST_SIZE
         /\ ~Overlaps => VertIndex \in 0 .. VERTLIST_SIZE - 1 /\ built.count <= VertIndex
         /\ Len(built.polys) < POLYLIST_SIZE
<1> DEFINE n == Len(built.polys)
<1>1. n \in Nat /\ listTwiddle \in Lists
  BY BuiltPolygons DEF PolygonsInv, PolygonsTypeOK
<1>2. built.count <= 4 * n
  BY <1>1 DEF PolygonsInv, ListHeld, built
<1>3. n < POLYLIST_SIZE /\ POLYLIST_SIZE \in Nat
  BY <1>1, PolygonsAssumption DEF Refused
<1>4. Count \in 0 .. 3 /\ Continuation \in {0, 2} /\ built.count \in Nat
      /\ VertIndex = built.count + Count - Continuation
  BY Waiting DEF PolygonsInv
<1>5. ~Overlaps => Count >= Continuation
  BY <1>4 DEF Overlaps
<1> HIDE DEF n
<1>6. VERTLIST_SIZE = 4 * POLYLIST_SIZE
  BY PolygonsAssumption
<1>7. VertIndex <= 4 * n + 3 /\ VertIndex < VERTLIST_SIZE /\ (~Overlaps => VertIndex >= built.count)
  BY <1>1, <1>2, <1>3, <1>4, <1>5, <1>6
<1>8. ~Overlaps => VertIndex \in 0 .. VERTLIST_SIZE - 1
  BY <1>3, <1>4, <1>6, <1>7
<1>9. QED
  BY <1>3, <1>7, <1>8 DEF n

\* The newest vertices of the sequence.
LEMMA NewestIs ==
  ASSUME NEW s \in Seq(Nat), NEW k \in Nat, k <= Len(s), sent' = s
  PROVE  /\ Newest(k) \in Seq(Nat) /\ Len(Newest(k)) = k
         /\ \A i \in 1 .. k : Newest(k)[i] = s[Len(s) - k + i]
<1> DEFINE m == Len(s) - k + 1
           n == Len(s)
<1>1. m \in Int /\ n \in Int /\ (\A i \in m .. n : s[i] \in Nat)
  <2>1. n \in Nat
    OBVIOUS
  <2>2. \A i \in m .. n : i \in 1 .. n
    BY <2>1
  <2>3. QED
    BY <2>1, <2>2, ElementOfSeq
<1>2. Newest(k) = SubSeq(s, m, n)
  BY DEF Newest
<1>3. (IF m <= n THEN n - m + 1 ELSE 0) = k
  BY <1>1
<1>4. \A i \in 1 .. k : i \in 1 .. n - m + 1 /\ m + i - 1 = Len(s) - k + i
  BY <1>1
<1> HIDE DEF m, n
<1>5. /\ SubSeq(s, m, n) \in Seq(Nat) /\ Len(SubSeq(s, m, n)) = k
      /\ \A i \in 1 .. n - m + 1 : SubSeq(s, m, n)[i] = s[m + i - 1]
  BY <1>1, <1>3, SubSeqProperties
<1>6. QED
  BY <1>2, <1>4, <1>5

\* What is meant by a sequence of vertices.
MeantBy(s) ==
  LET n == Len(s) IN
  /\ vtxFormat = GL_TRIANGLES => n % 3 = 0 /\ Len(Meant) = 3 /\ \A i \in 1 .. 3 : Meant[i] = s[n - 3 + i]
  /\ vtxFormat = GL_QUADS => n % 4 = 0 /\ Len(Meant) = 4 /\ \A i \in 1 .. 4 : Meant[i] = s[n - 4 + i]
  /\ vtxFormat = GL_TRIANGLE_STRIP =>
       /\ n >= 3 /\ Len(Meant) = 3
       /\ n % 2 = 1 => \A i \in 1 .. 3 : Meant[i] = s[n - 3 + i]
       /\ n % 2 # 1 => Meant[1] = s[n - 1] /\ Meant[2] = s[n - 2] /\ Meant[3] = s[n]
  /\ vtxFormat = GL_QUAD_STRIP =>
       /\ n >= 4 /\ n % 2 = 0 /\ Len(Meant) = 4
       /\ Meant[1] = s[n - 3] /\ Meant[2] = s[n - 2] /\ Meant[3] = s[n] /\ Meant[4] = s[n - 1]

\* What is meant by a sequence is a sequence of its vertices.
LEMMA MeantIs ==
  ASSUME NEW s \in Seq(Nat), Len(s) > 0, sent' = s, vtxFormat \in 0 .. 3
  PROVE  Meant \in Seq(Nat) /\ (Meant # <<>> => MeantBy(s))
<1> DEFINE n == Len(s)
           three == Newest(3)
           four == Newest(4)
<1>1. n \in Nat /\ n > 0
  OBVIOUS
<1>2. \A a \in Nat : (a > 0 /\ a % 3 = 0 => a >= 3) /\ (a > 0 /\ a % 4 = 0 => a >= 4)
  OBVIOUS
<1>3. n >= 3 => three \in Seq(Nat) /\ Len(three) = 3 /\ \A i \in 1 .. 3 : three[i] = s[n - 3 + i]
  BY NewestIs
<1>4. n >= 4 => four \in Seq(Nat) /\ Len(four) = 4 /\ \A i \in 1 .. 4 : four[i] = s[n - 4 + i]
  BY NewestIs
<1> HIDE DEF three, four
<1>5. <<>> \in Seq(Nat)
  OBVIOUS
<1>6. CASE vtxFormat = GL_TRIANGLES
  <2>1. Meant = IF n % 3 = 0 THEN three ELSE <<>>
    BY <1>6 DEF Meant, three, GL_TRIANGLES, GL_QUADS, GL_TRIANGLE_STRIP, GL_QUAD_STRIP
  <2>2. n % 3 = 0 => n >= 3
    BY <1>1, <1>2
  <2>3. QED
    BY <1>3, <1>5, <1>6, <2>1, <2>2 DEF MeantBy, GL_TRIANGLES, GL_QUADS, GL_TRIANGLE_STRIP, GL_QUAD_STRIP
<1>7. CASE vtxFormat = GL_QUADS
  <2>1. Meant = IF n % 4 = 0 THEN four ELSE <<>>
    BY <1>7 DEF Meant, four, GL_TRIANGLES, GL_QUADS, GL_TRIANGLE_STRIP, GL_QUAD_STRIP
  <2>2. n % 4 = 0 => n >= 4
    BY <1>1, <1>2
  <2>3. QED
    BY <1>4, <1>5, <1>7, <2>1, <2>2 DEF MeantBy, GL_TRIANGLES, GL_QUADS, GL_TRIANGLE_STRIP, GL_QUAD_STRIP
<1>8. CASE vtxFormat = GL_TRIANGLE_STRIP
  <2> DEFINE t == Arranged(three, <<2, 1, 3>>)
  <2>1. Meant = IF n < 3 THEN <<>> ELSE IF n % 2 = 1 THEN three ELSE t
    BY <1>8 DEF Meant, three, GL_TRIANGLES, GL_QUADS, GL_TRIANGLE_STRIP
  <2>2. t = [i \in 1 .. 3 |-> three[<<2, 1, 3>>[i]]]
    BY DEF Arranged
  <2>3. n >= 3 => /\ t \in Seq(Nat) /\ Len(t) = 3 /\ t[1] = three[2] /\ t[2] = three[1] /\ t[3] = three[3]
    <3>1. t[1] = three[2] /\ t[2] = three[1] /\ t[3] = three[3]
      BY <2>2
    <3>2. n >= 3 => three[1] \in Nat /\ three[2] \in Nat /\ three[3] \in Nat
      BY <1>3
    <3>3. n >= 3 => \A i \in 1 .. 3 : t[i] \in Nat
      BY <3>1, <3>2
    <3>4. t = [i \in 1 .. 3 |-> t[i]]
      BY <2>2
    <3> HIDE DEF t
    <3>5. QED
      BY <3>1, <3>3, <3>4
  <2> HIDE DEF t
  <2>4. n >= 3 => /\ n - 3 + 1 = n - 2 /\ n - 3 + 2 = n - 1 /\ n - 3 + 3 = n
    BY <1>1
  <2>5. n >= 3 => t[1] = s[n - 1] /\ t[2] = s[n - 2] /\ t[3] = s[n]
    BY <1>3, <2>3, <2>4
  <2>6. n < 3 \/ n >= 3
    BY <1>1
  <2>7. Meant \in Seq(Nat)
    BY <1>3, <1>5, <2>1, <2>3, <2>6
  <2>8. ASSUME Meant # <<>>
        PROVE  /\ n >= 3 /\ Len(Meant) = 3
               /\ n % 2 = 1 => \A i \in 1 .. 3 : Meant[i] = s[n - 3 + i]
               /\ n % 2 # 1 => Meant[1] = s[n - 1] /\ Meant[2] = s[n - 2] /\ Meant[3] = s[n]
    BY <1>3, <2>1, <2>3, <2>5, <2>6, <2>8
  <2>9. QED
    BY <1>8, <2>7, <2>8 DEF MeantBy, GL_TRIANGLES, GL_QUADS, GL_TRIANGLE_STRIP, GL_QUAD_STRIP
<1>9. CASE vtxFormat = GL_QUAD_STRIP
  <2> DEFINE t == Arranged(four, <<1, 2, 4, 3>>)
  <2>1. Meant = IF n >= 4 /\ n % 2 = 0 THEN t ELSE <<>>
    BY <1>9 DEF Meant, four, GL_TRIANGLES, GL_QUADS, GL_TRIANGLE_STRIP, GL_QUAD_STRIP
  <2>2. t = [i \in 1 .. 4 |-> four[<<1, 2, 4, 3>>[i]]]
    BY DEF Arranged
  <2>3. n >= 4 => /\ t \in Seq(Nat) /\ Len(t) = 4
                  /\ t[1] = four[1] /\ t[2] = four[2] /\ t[3] = four[4] /\ t[4] = four[3]
    <3>1. t[1] = four[1] /\ t[2] = four[2] /\ t[3] = four[4] /\ t[4] = four[3]
      BY <2>2
    <3>2. n >= 4 => four[1] \in Nat /\ four[2] \in Nat /\ four[3] \in Nat /\ four[4] \in Nat
      <4>1. ASSUME n >= 4
            PROVE  \A i \in 1 .. 4 : four[i] \in Nat
        BY <1>4, <4>1, ElementOfSeq
      <4>2. QED
        BY <4>1
    <3>3. n >= 4 => \A i \in 1 .. 4 : t[i] \in Nat
      BY <3>1, <3>2
    <3>4. t = [i \in 1 .. 4 |-> t[i]]
      BY <2>2
    <3> HIDE DEF t
    <3>5. QED
      BY <3>1, <3>3, <3>4
  <2> HIDE DEF t
  <2>4. n >= 4 => n - 4 + 1 = n - 3 /\ n - 4 + 2 = n - 2 /\ n - 4 + 3 = n - 1 /\ n - 4 + 4 = n
    BY <1>1
  <2>5. n >= 4 => t[1] = s[n - 3] /\ t[2] = s[n - 2] /\ t[3] = s[n] /\ t[4] = s[n - 1]
    BY <1>4, <2>3, <2>4
  <2>6. Meant \in Seq(Nat)
    BY <1>5, <2>1, <2>3
  <2>7. ASSUME Meant # <<>>
        PROVE  /\ n >= 4 /\ n % 2 = 0 /\ Len(Meant) = 4
               /\ Meant[1] = s[n - 3] /\ Meant[2] = s[n - 2] /\ Meant[3] = s[n] /\ Meant[4] = s[n - 1]
    BY <2>1, <2>3, <2>5, <2>7
  <2>8. QED
    BY <1>9, <2>6, <2>7 DEF MeantBy, GL_TRIANGLES, GL_QUADS, GL_TRIANGLE_STRIP, GL_QUAD_STRIP
<1>10. QED
  BY <1>6, <1>7, <1>8, <1>9 DEF GL_TRIANGLES, GL_QUADS, GL_TRIANGLE_STRIP, GL_QUAD_STRIP

\* What the vertices and the list are when one comes (SetVertex).
Grown == Append(temp.map, VertIndex)
Written(v) == [i \in 0 .. VERTLIST_SIZE - 1 |-> IF i = VertIndex THEN v ELSE built.verts[i]]

\* The waiting vertices and the new one, as numbers (SetVertex).
LEMMA GrownIs ==
  ASSUME PolygonsTypeOK, SequenceHeld
  PROVE  /\ Grown \in Seq(Int) /\ Len(Grown) = Count + 1 /\ Grown[Count + 1] = VertIndex
         /\ \A j \in 1 .. Count : Grown[j] = temp.map[j]
<1>1. temp.map \in Seq(Int) /\ VertIndex \in Int
  BY Waiting
<1>2. Count = Len(temp.map)
  BY DEF Count
<1>3. QED
  BY <1>1, <1>2, AppendProperties DEF Grown

\* Each vertex of the unfinished polygon is in the list, at its place in the sequence
\* (SetVertex).
LEMMA GrownMeans ==
  ASSUME PolygonsInv, ~Refused, ~Overlaps, clean, NEW v \in Nat, NEW s, s = Append(sent, v)
  PROVE  /\ s \in Seq(Nat) /\ Len(s) = Len(sent) + 1 /\ s[Len(s)] = v
         /\ Written(v)[VertIndex] = v
         /\ \A j \in 1 .. Count :
              /\ Grown[j] \in 0 .. VertIndex - 1 /\ Origin(j) \in 1 .. Len(sent)
              /\ Written(v)[Grown[j]] = s[Origin(j)]
<1>1. PolygonsTypeOK /\ SequenceHeld
  BY DEF PolygonsInv
<1>2. sent \in Seq(Nat) /\ Len(sent) \in Nat /\ VertIndex \in Int
  BY <1>1, Waiting
<1>3. s \in Seq(Nat) /\ Len(s) = Len(sent) + 1 /\ s[Len(s)] = v /\ \A i \in 1 .. Len(sent) : s[i] = sent[i]
  BY <1>2, AppendProperties
<1>4. VertIndex \in 0 .. VERTLIST_SIZE - 1 /\ VERTLIST_SIZE \in Nat
  BY InList, PolygonsAssumption
<1>5. Written(v)[VertIndex] = v
  BY <1>4 DEF Written
<1>6. ASSUME NEW j \in 1 .. Count
      PROVE  /\ Grown[j] \in 0 .. VertIndex - 1 /\ Origin(j) \in 1 .. Len(sent)
             /\ Written(v)[Grown[j]] = s[Origin(j)]
  <2>1. Grown[j] = temp.map[j]
    BY <1>1, GrownIs
  <2>2. temp.map[j] \in 0 .. VertIndex - 1 /\ built.verts[temp.map[j]] = sent[Origin(j)]
    BY <1>1 DEF SequenceHeld
  <2>3. Origin(j) \in 1 .. Len(sent)
    BY <1>1, OriginInSent
  <2>4. Grown[j] \in 0 .. VERTLIST_SIZE - 1 /\ Grown[j] # VertIndex
    BY <1>2, <1>4, <2>1, <2>2
  <2>5. Written(v)[Grown[j]] = built.verts[Grown[j]]
    BY <2>4 DEF Written
  <2>6. QED
    BY <1>3, <2>1, <2>2, <2>3, <2>5
<1>7. QED
  BY <1>3, <1>5, <1>6

\* A completed polygon is a polygon (SetVertex).
LEMMA CompletedIs ==
  ASSUME PolygonsTypeOK, SequenceHeld, Count + 1 = Corners, NEW s \in Seq(Nat), Len(s) > 0, sent' = s
  PROVE  /\ Completed(Grown) \in Polygon
         /\ Completed(Grown).clean <=> (clean /\ Meant # <<>>)
         /\ Completed(Grown).meant = Meant
         /\ Completed(Grown).vertIndexes =
              [i \in 1 .. Corners |-> Grown[IF vtxFormat = GL_QUAD_STRIP THEN <<1, 2, 4, 3>>[i] ELSE i] % IndexRange]
<1>1. Grown \in Seq(Int) /\ Len(Grown) = Corners /\ Corners \in {3, 4} /\ clean \in BOOLEAN
      /\ (Corners = 3 <=> vtxFormat \in {GL_TRIANGLES, GL_TRIANGLE_STRIP}) /\ vtxFormat \in 0 .. 3
  BY GrownIs, Waiting
<1> DEFINE at(i) == IF vtxFormat = GL_QUAD_STRIP THEN <<1, 2, 4, 3>>[i] ELSE i
           indexes == [i \in 1 .. Corners |-> Grown[at(i)] % IndexRange]
<1>2. \A a, n \in Int : n > 0 => a % n \in 0 .. n - 1
  OBVIOUS
<1>3. IndexRange \in Int /\ IndexRange > 0
  BY PolygonsAssumption
<1>4. \A i \in 1 .. Corners : at(i) \in 1 .. Corners
  <2>1. CASE vtxFormat = GL_QUAD_STRIP
    <3>1. Corners = 4
      BY <1>1, <2>1 DEF GL_QUAD_STRIP, GL_TRIANGLES, GL_TRIANGLE_STRIP
    <3>2. \A i \in 1 .. 4 : i = 1 \/ i = 2 \/ i = 3 \/ i = 4
      OBVIOUS
    <3>3. \A i \in 1 .. 4 : <<1, 2, 4, 3>>[i] \in 1 .. 4
      BY <3>2
    <3>4. QED
      BY <2>1, <3>1, <3>3
  <2>2. CASE vtxFormat # GL_QUAD_STRIP
    BY <2>2
  <2>3. QED
    BY <2>1, <2>2
<1> HIDE DEF at
<1>5. \A i \in 1 .. Corners : Grown[at(i)] \in Int
  BY <1>1, <1>4, ElementOfSeq
<1>6. indexes \in [1 .. Corners -> 0 .. IndexRange - 1]
  BY <1>2, <1>3, <1>5
<1> HIDE DEF indexes
<1>7. Meant \in Seq(Nat)
  BY <1>1, MeantIs
<1>8. Completed(Grown) = [vertIndexes |-> indexes, polyAttr |-> polyAttr, meant |-> Meant, clean |-> clean /\ Meant # <<>>]
  BY DEF Completed, indexes, at
<1>9. polyAttr \in BOOLEAN /\ (clean /\ Meant # <<>>) \in BOOLEAN
  BY <1>1 DEF PolygonsTypeOK
<1>10. indexes \in [1 .. 3 -> 0 .. IndexRange - 1] \cup [1 .. 4 -> 0 .. IndexRange - 1]
  BY <1>1, <1>6
<1> HIDE DEF Grown
<1>11. Completed(Grown) \in Polygon
  BY <1>7, <1>8, <1>9, <1>10 DEF Polygon
<1>12. Completed(Grown).vertIndexes = indexes /\ Completed(Grown).meant = Meant
       /\ Completed(Grown).clean = (clean /\ Meant # <<>>)
  BY <1>8
<1>13. QED
  BY <1>11, <1>12 DEF indexes, at

\* Every other vertex of a strip is an even one.
LEMMA Parity ==
  ASSUME NEW a \in Nat, NEW m, m = a + 1
  PROVE  /\ m % 2 = 1 => a % 2 = 0
         /\ m % 2 # 1 => a % 2 = 1 /\ a # 2
OBVIOUS

\* The vertices of a completed polygon are counted ones and those that were meant (SetVertex).
LEMMA CompletedMeans ==
  ASSUME PolygonsInv, ~Refused, ~Overlaps, clean, Count + 1 = Corners,
         NEW v \in Nat, sent' = Append(sent, v), Meant # <<>>,
         built.count + Corners - Continuation <= IndexRange
  PROVE  /\ \A i \in DOMAIN Completed(Grown).vertIndexes :
              Completed(Grown).vertIndexes[i] < built.count + Corners - Continuation
         /\ [i \in DOMAIN Completed(Grown).vertIndexes |-> Written(v)[Completed(Grown).vertIndexes[i]]]
              = Completed(Grown).meant
<1> DEFINE s == Append(sent, v)
           n == Len(s)
           w == Written(v)
           top == built.count + Corners - Continuation
           at(i) == IF vtxFormat = GL_QUAD_STRIP THEN <<1, 2, 4, 3>>[i] ELSE i
           indexes == Completed(Grown).vertIndexes
           from(j) == IF j = Corners THEN n ELSE Origin(j)
<1>1. PolygonsTypeOK /\ SequenceHeld
  BY DEF PolygonsInv
<1>2. /\ s \in Seq(Nat) /\ n = Len(sent) + 1 /\ s[n] = v /\ w[VertIndex] = v /\ sent' = s
      /\ \A j \in 1 .. Count :
           Grown[j] \in 0 .. VertIndex - 1 /\ Origin(j) \in 1 .. Len(sent) /\ w[Grown[j]] = s[Origin(j)]
  BY GrownMeans
<1>3. /\ Corners \in {3, 4} /\ Count = Corners - 1 /\ VertIndex = top - 1 /\ top \in Int /\ top <= IndexRange
      /\ vtxFormat \in 0 .. 3 /\ Len(sent) \in Nat
      /\ (Corners = 3 <=> vtxFormat \in {GL_TRIANGLES, GL_TRIANGLE_STRIP})
  BY <1>1, Waiting
<1>4. n > 0 /\ n \in Nat
  BY <1>2, <1>3
<1>5. /\ indexes = [i \in 1 .. Corners |-> Grown[at(i)] % IndexRange]
      /\ Completed(Grown).meant = Meant
  BY <1>1, <1>2, <1>3, <1>4, CompletedIs
<1>6. MeantBy(s) /\ Meant \in Seq(Nat)
  BY <1>2, <1>3, <1>4, MeantIs
<1>7. \A j \in 1 .. Corners : Grown[j] \in 0 .. top - 1 /\ w[Grown[j]] = s[from(j)]
  <2>1. Grown[Corners] = VertIndex
    BY <1>1, <1>3, GrownIs
  <2>2. VertIndex \in 0 .. top - 1
    BY <1>3, InList
  <2>3. ASSUME NEW j \in 1 .. Count PROVE Grown[j] \in 0 .. top - 1
    BY <1>2, <1>3
  <2>4. \A j \in 1 .. Corners : j = Corners \/ (j \in 1 .. Count /\ j # Corners)
    BY <1>3
  <2>5. QED
    BY <1>2, <2>1, <2>2, <2>3, <2>4
<1> HIDE DEF s, w, from, indexes, n
<1>8. \A a, m \in Int : m > 0 /\ a \in 0 .. m - 1 => a % m = a
  OBVIOUS
<1>9. IndexRange \in Int /\ IndexRange > 0
  BY PolygonsAssumption
<1>10. \A j \in 1 .. Corners : Grown[j] % IndexRange = Grown[j]
  BY <1>3, <1>7, <1>8, <1>9
<1>11. \A i \in 1 .. Corners : at(i) \in 1 .. Corners
  <2>1. CASE vtxFormat = GL_QUAD_STRIP
    <3>1. Corners = 4
      BY <1>3, <2>1 DEF GL_QUAD_STRIP, GL_TRIANGLES, GL_TRIANGLE_STRIP
    <3>2. \A i \in 1 .. 4 : i = 1 \/ i = 2 \/ i = 3 \/ i = 4
      OBVIOUS
    <3>3. \A i \in 1 .. 4 : <<1, 2, 4, 3>>[i] \in 1 .. 4
      BY <3>2
    <3>4. QED
      BY <2>1, <3>1, <3>3
  <2>2. CASE vtxFormat # GL_QUAD_STRIP
    BY <2>2
  <2>3. QED
    BY <2>1, <2>2
<1>12. DOMAIN indexes = 1 .. Corners /\ \A i \in 1 .. Corners : indexes[i] = Grown[at(i)]
  BY <1>5, <1>10, <1>11
<1>13. \A i \in 1 .. Corners : indexes[i] \in 0 .. top - 1 /\ w[indexes[i]] = s[from(at(i))]
  BY <1>7, <1>11, <1>12
<1>14. Len(Meant) = Corners /\ \A i \in 1 .. Corners : Meant[i] = s[from(at(i))]
  <2>1. /\ \A i \in 1 .. 3 : i = 1 \/ i = 2 \/ i = 3
        /\ \A i \in 1 .. 4 : i = 1 \/ i = 2 \/ i = 3 \/ i = 4
    OBVIOUS
  <2>2. CASE vtxFormat = GL_TRIANGLES
    <3>1. Corners = 3 /\ Count = 2
      BY <1>3, <2>2
    <3>2. from(1) = n - 2 /\ from(2) = n - 1 /\ from(3) = n
      BY <1>2, <1>3, <2>2, <3>1 DEF from, Origin, GL_TRIANGLES, GL_TRIANGLE_STRIP
    <3>3. Len(Meant) = 3 /\ Meant[1] = s[n - 3 + 1] /\ Meant[2] = s[n - 3 + 2] /\ Meant[3] = s[n - 3 + 3]
      BY <1>6, <2>2 DEF MeantBy, n
    <3>4. n - 3 + 1 = n - 2 /\ n - 3 + 2 = n - 1 /\ n - 3 + 3 = n
      BY <1>4
    <3>5. \A i \in 1 .. 3 : at(i) = i
      BY <2>2 DEF GL_TRIANGLES, GL_QUAD_STRIP
    <3>6. QED
      BY <2>1, <3>1, <3>2, <3>3, <3>4, <3>5
  <2>3. CASE vtxFormat = GL_QUADS
    <3>1. Corners = 4 /\ Count = 3
      BY <1>3, <2>3 DEF GL_QUADS, GL_TRIANGLES, GL_TRIANGLE_STRIP
    <3>2. from(1) = n - 3 /\ from(2) = n - 2 /\ from(3) = n - 1 /\ from(4) = n
      BY <1>2, <1>3, <2>3, <3>1 DEF from, Origin, GL_QUADS, GL_TRIANGLE_STRIP
    <3>3. Len(Meant) = 4 /\ Meant[1] = s[n - 4 + 1] /\ Meant[2] = s[n - 4 + 2] /\ Meant[3] = s[n - 4 + 3]
          /\ Meant[4] = s[n - 4 + 4]
      BY <1>6, <2>3 DEF MeantBy, n
    <3>4. n - 4 + 1 = n - 3 /\ n - 4 + 2 = n - 2 /\ n - 4 + 3 = n - 1 /\ n - 4 + 4 = n
      BY <1>4
    <3>5. \A i \in 1 .. 4 : at(i) = i
      BY <2>3 DEF GL_QUADS, GL_QUAD_STRIP
    <3>6. QED
      BY <2>1, <3>1, <3>2, <3>3, <3>4, <3>5
  <2>4. CASE vtxFormat = GL_TRIANGLE_STRIP
    <3>1. Corners = 3 /\ Count = 2 /\ Strip
      BY <1>3, <2>4 DEF Strip
    <3>2. \A i \in 1 .. 3 : at(i) = i
      BY <2>4 DEF GL_TRIANGLE_STRIP, GL_QUAD_STRIP
    <3>3. n - 3 + 1 = n - 2 /\ n - 3 + 2 = n - 1 /\ n - 3 + 3 = n
      BY <1>4
    <3>9. /\ n % 2 = 1 => Len(sent) % 2 = 0
          /\ n % 2 # 1 => Len(sent) % 2 = 1 /\ Len(sent) # 2
      <4>1. n = Len(sent) + 1 /\ Len(sent) \in Nat
        BY <1>2, <1>3
      <4>2. QED
        BY <4>1, Parity
    <3>4. from(3) = n
      BY <3>1 DEF from
    <3>5. CASE n % 2 = 1
      <4>1. temp.first \/ triStripToggle = 0
        <5>1. CASE ~temp.first
          <6>1. triStripToggle = Len(sent) % 2
            BY <1>1, <2>4, <5>1 DEF SequenceHeld
          <6>2. QED
            BY <3>5, <3>9, <6>1
        <5>2. QED
          BY <5>1
      <4>2. from(1) = n - 2 /\ from(2) = n - 1
        BY <1>2, <1>3, <3>1, <4>1 DEF from, Origin
      <4>3. Len(Meant) = 3 /\ Meant[1] = s[n - 3 + 1] /\ Meant[2] = s[n - 3 + 2] /\ Meant[3] = s[n - 3 + 3]
        BY <1>6, <2>4, <3>5 DEF MeantBy, n
      <4>4. QED
        BY <2>1, <3>1, <3>2, <3>3, <3>4, <4>2, <4>3
    <3>6. CASE n % 2 # 1
      <4>1. ~temp.first
        <5>1. ASSUME temp.first PROVE Count = Len(sent)
          BY <1>1, <3>1, <5>1 DEF SequenceHeld
        <5>2. QED
          BY <3>1, <3>6, <3>9, <5>1
      <4>2. triStripToggle = 1
        <5>1. triStripToggle = Len(sent) % 2
          BY <1>1, <2>4, <4>1 DEF SequenceHeld
        <5>2. QED
          BY <3>6, <3>9, <5>1
      <4>3. from(1) = n - 1 /\ from(2) = n - 2
        BY <1>2, <1>3, <2>4, <3>1, <4>1, <4>2 DEF from, Origin
      <4>4. Len(Meant) = 3 /\ Meant[1] = s[n - 1] /\ Meant[2] = s[n - 2] /\ Meant[3] = s[n]
        BY <1>6, <2>4, <3>6 DEF MeantBy, n
      <4>5. QED
        BY <2>1, <3>1, <3>2, <3>4, <4>3, <4>4
    <3>7. QED
      BY <3>5, <3>6
  <2>5. CASE vtxFormat = GL_QUAD_STRIP
    <3>1. Corners = 4 /\ Count = 3
      BY <1>3, <2>5 DEF GL_QUAD_STRIP, GL_TRIANGLES, GL_TRIANGLE_STRIP
    <3>2. from(1) = n - 3 /\ from(2) = n - 2 /\ from(3) = n - 1 /\ from(4) = n
      BY <1>2, <1>3, <2>5, <3>1 DEF from, Origin, GL_QUAD_STRIP, GL_TRIANGLE_STRIP
    <3>3. Len(Meant) = 4 /\ Meant[1] = s[n - 3] /\ Meant[2] = s[n - 2] /\ Meant[3] = s[n] /\ Meant[4] = s[n - 1]
      BY <1>6, <2>5 DEF MeantBy, n
    <3>4. at(1) = 1 /\ at(2) = 2 /\ at(3) = 4 /\ at(4) = 3
      BY <2>5
    <3>5. QED
      BY <2>1, <3>1, <3>2, <3>3, <3>4
  <2>6. QED
    BY <1>3, <2>2, <2>3, <2>4, <2>5 DEF GL_TRIANGLES, GL_QUADS, GL_TRIANGLE_STRIP, GL_QUAD_STRIP
<1>15. Meant = [i \in 1 .. Corners |-> Meant[i]]
  BY <1>6, <1>14
<1>16. [i \in DOMAIN indexes |-> w[indexes[i]]] = Meant
  BY <1>12, <1>13, <1>14, <1>15
<1>17. \A i \in DOMAIN indexes : indexes[i] < top
  BY <1>3, <1>12, <1>13
<1>18. QED
  BY <1>5, <1>16, <1>17 DEF indexes, w

\* The polygon lists without the bound on their length (POLYLIST, VERTLIST).
ListType == [verts : [0 .. VERTLIST_SIZE - 1 -> Nat], count : 0 .. VERTLIST_SIZE,
             polys : Seq(Polygon), spoiled : BOOLEAN]

\* What the list that is built becomes with a vertex, alone or with the polygon it completes
\* (SetVertex).
LEMMA ExtendedIs ==
  ASSUME PolygonsInv, ~Refused, listTwiddle' = listTwiddle, NEW v \in Nat, NEW n \in Nat,
         NEW ps \in Seq(Polygon), Len(ps) <= 1, n <= 4 * Len(ps),
         list' = [list EXCEPT ![listTwiddle] = Extended(v, n, ps)]
  PROVE  /\ built' \in ListType /\ built'.verts = Written(v) /\ built'.count = built.count + n
         /\ built'.polys = built.polys \o ps /\ built'.spoiled = (built.spoiled \/ Overlaps)
         /\ Len(built'.polys) = Len(built.polys) + Len(ps) /\ Len(built'.polys) <= POLYLIST_SIZE
         /\ built'.count <= 4 * Len(built'.polys)
         /\ list' \in [Lists -> ListType] /\ \A l \in Lists : l # listTwiddle => list'[l] = list[l]
<1>1. PolygonsTypeOK /\ SequenceHeld /\ listTwiddle \in Lists /\ list \in [Lists -> ListType]
  BY DEF PolygonsInv, PolygonsTypeOK, ListType
<1>2. built' = Extended(v, n, ps) /\ \A l \in Lists : l # listTwiddle => list'[l] = list[l]
  BY <1>1 DEF built
<1>3. /\ Extended(v, n, ps).verts = Written(v) /\ Extended(v, n, ps).count = built.count + n
      /\ Extended(v, n, ps).polys = built.polys \o ps
  BY DEF Extended, Written
<1>4. Extended(v, n, ps).spoiled = (built.spoiled \/ Overlaps)
  BY DEF Extended
<1>5. /\ Len(built.polys) \in Nat /\ Len(built.polys) < POLYLIST_SIZE /\ built.polys \in Seq(Polygon)
      /\ built.verts \in [0 .. VERTLIST_SIZE - 1 -> Nat] /\ built.count \in Nat /\ built.spoiled \in BOOLEAN
  BY <1>1, BuiltPolygons, InList
<1>6. built.polys \o ps \in Seq(Polygon) /\ Len(built.polys \o ps) = Len(built.polys) + Len(ps)
  BY <1>5, ConcatProperties
<1>7. built.count <= 4 * Len(built.polys)
  BY <1>1 DEF PolygonsInv, ListHeld, built
<1>8. Len(ps) \in Nat /\ POLYLIST_SIZE \in Nat /\ VERTLIST_SIZE = 4 * POLYLIST_SIZE
  BY PolygonsAssumption
<1>9. /\ Len(built.polys) + Len(ps) <= POLYLIST_SIZE
      /\ built.count + n <= 4 * (Len(built.polys) + Len(ps)) /\ built.count + n \in 0 .. VERTLIST_SIZE
  <2> DEFINE a == Len(built.polys)
             b == Len(ps)
             c == built.count
  <2>1. /\ a \in Nat /\ b \in Nat /\ c \in Nat /\ b <= 1 /\ a < POLYLIST_SIZE /\ POLYLIST_SIZE \in Nat
        /\ c <= 4 * a /\ n <= 4 * b /\ VERTLIST_SIZE = 4 * POLYLIST_SIZE
    BY <1>5, <1>7, <1>8
  <2> HIDE DEF a, b, c
  <2>2. a + b <= POLYLIST_SIZE /\ c + n <= 4 * (a + b)
    BY <2>1
  <2>3. c + n \in 0 .. VERTLIST_SIZE
    BY <2>1, <2>2
  <2>4. QED
    BY <2>2, <2>3 DEF a, b, c
<1>10. Written(v) \in [0 .. VERTLIST_SIZE - 1 -> Nat]
  BY <1>5 DEF Written
<1>11. (built.spoiled \/ Overlaps) \in BOOLEAN
  BY <1>5 DEF Overlaps
<1>12. Extended(v, n, ps) =
         [verts |-> Written(v), count |-> built.count + n, polys |-> built.polys \o ps,
          spoiled |-> (built.spoiled \/ Overlaps)]
  BY DEF Extended, Written
<1>13. built' \in ListType
  BY <1>2, <1>6, <1>9, <1>10, <1>11, <1>12 DEF ListType
<1>14. list' \in [Lists -> ListType]
  BY <1>1, <1>2, <1>13
<1>15. QED
  BY <1>2, <1>3, <1>4, <1>6, <1>9, <1>13, <1>14

\* What comes later never overwrites the vertices of a polygon (SetVertex).
LEMMA ExtendedHolds ==
  ASSUME PolygonsInv, ~Refused, listTwiddle' = listTwiddle, NEW v \in Nat, NEW n \in Nat,
         NEW ps \in Seq(Polygon), Len(ps) <= 1, n <= 4 * Len(ps),
         list' = [list EXCEPT ![listTwiddle] = Extended(v, n, ps)],
         \A k \in 1 .. Len(ps) :
           ~Overlaps /\ built.count + n <= IndexRange /\ ps[k].clean =>
             /\ \A i \in DOMAIN ps[k].vertIndexes : ps[k].vertIndexes[i] < built.count + n
             /\ [i \in DOMAIN ps[k].vertIndexes |-> Written(v)[ps[k].vertIndexes[i]]] = ps[k].meant
  PROVE  \A l \in Lists : ListHeld(l)'
<1>1. PolygonsTypeOK /\ SequenceHeld /\ listTwiddle \in Lists /\ \A l \in Lists : ListHeld(l)
  BY DEF PolygonsInv, PolygonsTypeOK
<1>2. /\ built'.verts = Written(v) /\ built'.count = built.count + n
      /\ built'.polys = built.polys \o ps /\ built'.spoiled = (built.spoiled \/ Overlaps)
      /\ Len(built'.polys) = Len(built.polys) + Len(ps) /\ built'.count <= 4 * Len(built'.polys)
      /\ \A l \in Lists : l # listTwiddle => list'[l] = list[l]
  BY ExtendedIs
<1>3. ASSUME NEW l \in Lists, l # listTwiddle
      PROVE  ListHeld(l)'
  <2>1. list'[l] = list[l] /\ ListHeld(l)
    BY <1>1, <1>2, <1>3
  <2>2. QED
    BY <2>1 DEF ListHeld, PolygonHeld, Faithful
<1>4. ASSUME NEW l \in Lists, l = listTwiddle
      PROVE  ListHeld(l)'
  <2>1. list[l] = built /\ list'[l] = built'
    BY <1>4 DEF built
  <2>2. ASSUME ~built'.spoiled, built'.count <= IndexRange, NEW k \in 1 .. Len(built'.polys), built'.polys[k].clean
        PROVE  /\ \A i \in DOMAIN built'.polys[k].vertIndexes : built'.polys[k].vertIndexes[i] < built'.count
               /\ [i \in DOMAIN built'.polys[k].vertIndexes |-> built'.verts[built'.polys[k].vertIndexes[i]]]
                    = built'.polys[k].meant
    <3>1. ~built.spoiled /\ ~Overlaps
      BY <1>2, <2>2
    <3>2. Len(built.polys) \in Nat /\ Len(ps) \in Nat /\ built.polys \in Seq(Polygon) /\ built.count \in Nat
      BY <1>1, BuiltPolygons
    <3>3. IndexRange \in Nat /\ IndexRange <= VERTLIST_SIZE /\ VERTLIST_SIZE \in Nat
      BY PolygonsAssumption
    <3>4. CASE k \in 1 .. Len(built.polys)
      <4> DEFINE p == built.polys[k]
      <4>1. built'.polys[k] = p
        BY <1>2, <3>2, <3>4, ConcatProperties
      <4>2. built.count <= IndexRange
        BY <1>2, <2>2, <3>2, <3>3
      <4>3. PolygonHeld(l, p) /\ p.clean
        BY <1>1, <2>1, <2>2, <3>1, <3>4, <4>1, <4>2 DEF ListHeld
      <4>4. (\A i \in DOMAIN p.vertIndexes : p.vertIndexes[i] < built.count)
            /\ [i \in DOMAIN p.vertIndexes |-> built.verts[p.vertIndexes[i]]] = p.meant
        BY <2>1, <4>3 DEF PolygonHeld, Faithful
      <4>5. p.vertIndexes \in [1 .. 3 -> 0 .. IndexRange - 1] \cup [1 .. 4 -> 0 .. IndexRange - 1]
        BY <1>1, <3>4, BuiltPolygons DEF Polygon, Polys
      <4>6. \A i \in DOMAIN p.vertIndexes : p.vertIndexes[i] \in 0 .. IndexRange - 1
        BY <4>5
      <4> HIDE DEF p
      <4>7. VertIndex \in Int /\ built.count <= VertIndex
        BY <1>1, <3>1, InList, Waiting
      <4>8. ASSUME NEW i \in DOMAIN p.vertIndexes
            PROVE  /\ p.vertIndexes[i] < built'.count
                   /\ built'.verts[p.vertIndexes[i]] = built.verts[p.vertIndexes[i]]
        <5>1. p.vertIndexes[i] \in 0 .. VERTLIST_SIZE - 1 /\ p.vertIndexes[i] < built.count
          BY <3>3, <4>4, <4>6
        <5>2. p.vertIndexes[i] # VertIndex /\ p.vertIndexes[i] < built.count + n
          BY <3>2, <4>7, <5>1
        <5>3. QED
          BY <1>2, <5>1, <5>2 DEF Written
      <4>9. [i \in DOMAIN p.vertIndexes |-> built'.verts[p.vertIndexes[i]]]
              = [i \in DOMAIN p.vertIndexes |-> built.verts[p.vertIndexes[i]]]
        BY <4>8
      <4>10. QED
        BY <4>1, <4>4, <4>8, <4>9
    <3>5. CASE k \notin 1 .. Len(built.polys)
      <4>1. k = Len(built.polys) + 1 /\ Len(ps) = 1
        <5>1. Len(built'.polys) = Len(built.polys) + Len(ps)
          BY <1>2
        <5>2. k \in Int /\ 1 <= k /\ k <= Len(built.polys) + Len(ps)
          BY <2>2, <3>2, <5>1
        <5> DEFINE a == Len(built.polys)
                   b == Len(ps)
        <5>3. a \in Nat /\ b \in Nat /\ b <= 1 /\ ~(k \in 1 .. a) /\ k <= a + b
          BY <3>2, <3>5, <5>2
        <5> HIDE DEF a, b
        <5>4. k = a + 1 /\ b = 1
          BY <5>2, <5>3
        <5>5. QED
          BY <5>4 DEF a, b
      <4>2. built'.polys[k] = ps[1]
        <5>1. k \in 1 .. Len(built.polys) + Len(ps) /\ ~(k <= Len(built.polys)) /\ k - Len(built.polys) = 1
          BY <3>2, <4>1
        <5>2. QED
          BY <1>2, <3>2, <5>1, ConcatProperties
      <4>3. QED
        BY <1>2, <2>2, <3>1, <4>1, <4>2
    <3>6. QED
      BY <3>4, <3>5
  <2>3. list'[l].count <= 4 * Len(list'[l].polys)
    BY <1>2, <2>1
  <2>4. ~list'[l].spoiled /\ list'[l].count <= IndexRange =>
          \A k \in 1 .. Len(list'[l].polys) : PolygonHeld(l, list[l].polys[k])'
    BY <2>1, <2>2 DEF PolygonHeld, Faithful
  <2>5. QED
    BY <2>3, <2>4 DEF ListHeld
<1>5. QED
  BY <1>3, <1>4

\* What is to be drawn stays what it is for as long as only the other list changes.
LEMMA StillDrawn ==
  ASSUME PolygonsTypeOK, DrawnOnce, UNCHANGED <<drawPending, shown, listTwiddle, indexlist>>,
         \A l \in Lists : l # listTwiddle => list'[l] = list[l]
  PROVE  DrawnOnce'
<1>1. shown \in Lists
  BY DEF PolygonsTypeOK
<1>2. drawPending => shown # listTwiddle /\ list'[shown] = list[shown]
  BY <1>1 DEF DrawnOnce
<1>3. QED
  BY <1>2 DEF DrawnOnce

\* How many vertices wait when one comes to a sequence without strips.
LEMMA NextInTurn ==
  ASSUME NEW a \in Nat, NEW m, m = a + 1, NEW c \in {3, 4}
  PROVE  /\ (a % c) + 1 # c => m % c = (a % c) + 1
         /\ (a % c) + 1 = c => m % c = 0
<1>1. CASE c = 3
  BY <1>1
<1>2. CASE c = 4
  BY <1>2
<1>3. QED
  BY <1>1, <1>2

\* Parity of the sequence of a strip.
LEMMA NextParity ==
  ASSUME NEW a \in Nat, NEW m, m = a + 1
  PROVE  a % 2 \in {0, 1} /\ m % 2 = 1 - (a % 2)
OBVIOUS

\* A strip that was long enough stays so.
LEMMA NextLength ==
  ASSUME NEW a \in Nat, NEW m, m = a + 1
  PROVE  (a = 2 => m >= 3) /\ (a >= 3 => m >= 3) /\ (a = 3 => m >= 4) /\ (a >= 4 => m >= 4)
OBVIOUS

\* A vertex that completes nothing waits behind the others (SetVertex).
LEMMA GoesOn ==
  ASSUME PolygonsInv, ~Refused, NEW v \in Nat, sent' = Append(sent, v), clean' = (clean /\ ~Overlaps),
         Count + 1 # Corners, built'.verts = Written(v), built'.count = built.count,
         temp' = [map |-> Grown, first |-> temp.first], UNCHANGED <<vtxFormat, triStripToggle>>
  PROVE  SequenceHeld'
<1>1. PolygonsTypeOK /\ SequenceHeld
  BY DEF PolygonsInv
<1>2. /\ Count \in 0 .. 3 /\ Count < Corners /\ Corners \in {3, 4} /\ Continuation \in {0, 2} /\ vtxFormat \in 0 .. 3
      /\ (Corners = 3 <=> vtxFormat \in {GL_TRIANGLES, GL_TRIANGLE_STRIP}) /\ Len(sent) \in Nat
      /\ VertIndex \in Int /\ VertIndex = built.count + Count - Continuation /\ built.count \in Nat
      /\ temp.first \in BOOLEAN /\ clean \in BOOLEAN
  BY <1>1, Waiting
<1>3. /\ Len(Grown) = Count + 1 /\ Grown[Count + 1] = VertIndex /\ \A j \in 1 .. Count : Grown[j] = temp.map[j]
  BY <1>1, GrownIs
<1>4. temp'.map = Grown /\ temp'.first = temp.first
  OBVIOUS
<1>5. Corners' = Corners /\ (Strip' <=> Strip) /\ Continuation' = Continuation /\ Count' = Count + 1
  BY <1>3, <1>4 DEF Corners, Strip, Continuation, Count
<1>6. VertIndex' = VertIndex + 1
  <2>1. VertIndex' = built'.count + Count' - Continuation'
    BY DEF VertIndex
  <2>2. QED
    BY <1>2, <1>5, <2>1
<1>7. Count' < Corners'
  BY <1>2, <1>5
<1>8. ASSUME clean'
      PROVE  /\ Continuation' <= Count'
             /\ ~Strip' => Count' = Len(sent') % Corners'
             /\ Strip' /\ temp'.first => Count' = Len(sent')
             /\ vtxFormat' = GL_TRIANGLE_STRIP =>
                  IF temp'.first THEN triStripToggle' = 0
                  ELSE Count' = 2 /\ Len(sent') >= 3 /\ triStripToggle' = Len(sent') % 2
             /\ vtxFormat' = GL_QUAD_STRIP =>
                  /\ ~temp'.first => Count' = 2 + (Len(sent') % 2) /\ Len(sent') >= 4
                  /\ Count' = 3 => temp'.map[3] = built'.count + 2 - Continuation'
             /\ \A j \in 1 .. Count' :
                  temp'.map[j] \in 0 .. VertIndex' - 1 /\ built'.verts[temp'.map[j]] = sent'[Origin(j)']
  <2>1. clean /\ ~Overlaps
    BY <1>8
  <2>2. /\ Len(sent') = Len(sent) + 1 /\ sent'[Len(sent')] = v /\ Written(v)[VertIndex] = v
        /\ \A j \in 1 .. Count :
             Grown[j] \in 0 .. VertIndex - 1 /\ Origin(j) \in 1 .. Len(sent) /\ Written(v)[Grown[j]] = sent'[Origin(j)]
    BY <2>1, GrownMeans
  <2>3. Continuation <= Count
    BY <1>1, <2>1 DEF SequenceHeld
  <2>4. ASSUME ~Strip PROVE Count + 1 = Len(sent') % Corners
    <3>1. Count = Len(sent) % Corners
      BY <1>1, <2>1, <2>4 DEF SequenceHeld
    <3>2. Len(sent') = Len(sent) + 1 /\ Len(sent) \in Nat /\ Corners \in {3, 4}
      BY <1>2, <2>2
    <3>3. (Len(sent) % Corners) + 1 # Corners
      BY <3>1
    <3>4. QED
      BY <3>1, <3>2, <3>3, NextInTurn
  <2>5. ASSUME Strip, temp.first PROVE Count + 1 = Len(sent')
    <3>1. Count = Len(sent)
      BY <1>1, <2>1, <2>5 DEF SequenceHeld
    <3>2. QED
      BY <2>2, <3>1
  <2>6. ASSUME vtxFormat = GL_TRIANGLE_STRIP PROVE temp.first /\ triStripToggle = 0
    <3>1. Corners = 3
      BY <1>2, <2>6
    <3>2. temp.first
      BY <1>1, <1>2, <2>1, <2>6, <3>1 DEF SequenceHeld
    <3>3. QED
      BY <1>1, <2>1, <2>6, <3>2 DEF SequenceHeld
  <2>7. ASSUME vtxFormat = GL_QUAD_STRIP
        PROVE  /\ ~temp.first => Count + 1 = 2 + (Len(sent') % 2) /\ Len(sent') >= 4
               /\ Count + 1 = 3 => Grown[3] = built.count + 2 - Continuation
    <3>1. Corners = 4
      BY <1>2, <2>7 DEF GL_QUAD_STRIP, GL_TRIANGLES, GL_TRIANGLE_STRIP
    <3>2. ASSUME ~temp.first PROVE Count + 1 = 2 + (Len(sent') % 2) /\ Len(sent') >= 4
      <4>1. Count = 2 + (Len(sent) % 2) /\ Len(sent) >= 4
        BY <1>1, <2>1, <2>7, <3>2 DEF SequenceHeld
      <4>2. Len(sent) % 2 \in {0, 1} /\ Len(sent') % 2 = 1 - (Len(sent) % 2)
        BY <1>2, <2>2, NextParity
      <4>3. Len(sent) % 2 = 0
        BY <3>1, <4>1, <4>2
      <4>4. Len(sent') >= 4
        BY <1>2, <2>2, <4>1
      <4>5. QED
        BY <4>1, <4>2, <4>3, <4>4
    <3>3. ASSUME Count + 1 = 3 PROVE Grown[3] = built.count + 2 - Continuation
      BY <1>2, <1>3, <3>3
    <3>4. QED
      BY <3>2, <3>3
  <2>8. ASSUME NEW j \in 1 .. Count + 1
        PROVE  Grown[j] \in 0 .. VertIndex /\ Written(v)[Grown[j]] = sent'[Origin(j)']
    <3>1. Origin(j)' = Len(sent) - Count + j
      <4>1. Origin(j)' = Len(sent') - Count' + j
        BY <1>4, <2>6 DEF Origin
      <4>2. QED
        BY <1>2, <1>5, <2>2, <4>1
    <3>2. VertIndex \in 0 .. VertIndex
      BY <1>2, <2>1, InList
    <3>3. CASE j = Count + 1
      <4>1. Origin(j)' = Len(sent')
        BY <1>2, <2>2, <3>1, <3>3
      <4>2. QED
        BY <1>3, <2>2, <3>2, <3>3, <4>1
    <3>4. CASE j # Count + 1
      <4>1. j \in 1 .. Count
        BY <1>2, <3>4
      <4>2. Origin(j) = Len(sent) - Count + j
        BY <2>6 DEF Origin
      <4>3. Grown[j] \in 0 .. VertIndex
        BY <1>2, <2>2, <4>1
      <4>4. QED
        BY <2>2, <3>1, <4>1, <4>2, <4>3
    <3>5. QED
      BY <3>3, <3>4
  <2>9. Continuation' <= Count'
    BY <1>2, <1>5, <2>3
  <2>10. VertIndex' - 1 = VertIndex
    BY <1>2, <1>6
  <2>11. QED
    BY <1>4, <1>5, <2>4, <2>5, <2>6, <2>7, <2>8, <2>9, <2>10
<1>9. QED
  BY <1>7, <1>8 DEF SequenceHeld

\* A vertex that completes a polygon leaves waiting what the strip goes on with (SetVertex).
LEMMA Completes ==
  ASSUME PolygonsInv, ~Refused, NEW v \in Nat, sent' = Append(sent, v), clean' = (clean /\ ~Overlaps),
         Count + 1 = Corners, built'.verts = Written(v), built'.count = built.count + (Corners - Continuation),
         temp' = [map |-> Kept(Grown), first |-> temp.first /\ ~Strip], vtxFormat' = vtxFormat,
         triStripToggle' = IF vtxFormat = GL_TRIANGLE_STRIP THEN 1 - triStripToggle ELSE triStripToggle
  PROVE  SequenceHeld'
<1>1. PolygonsTypeOK /\ SequenceHeld
  BY DEF PolygonsInv
<1>2. /\ Count \in 0 .. 3 /\ Corners \in {3, 4} /\ Continuation \in {0, 2} /\ vtxFormat \in 0 .. 3
      /\ (Corners = 3 <=> vtxFormat \in {GL_TRIANGLES, GL_TRIANGLE_STRIP}) /\ Len(sent) \in Nat
      /\ VertIndex \in Int /\ VertIndex = built.count + Count - Continuation /\ built.count \in Nat
      /\ temp.first \in BOOLEAN /\ clean \in BOOLEAN /\ triStripToggle \in {0, 1}
  BY <1>1, Waiting
<1>3. Grown[Count + 1] = VertIndex /\ \A j \in 1 .. Count : Grown[j] = temp.map[j]
  BY <1>1, GrownIs
<1>4. temp'.map = Kept(Grown) /\ temp'.first = (temp.first /\ ~Strip)
  OBVIOUS
<1>5. Corners' = Corners /\ (Strip' <=> Strip) /\ Count' = Len(Kept(Grown)) /\ Continuation' = IF Strip THEN 2 ELSE 0
  BY <1>4 DEF Corners, Strip, Continuation, Count
<1>6. VertIndex' = built'.count + Count' - Continuation' /\ VertIndex = built'.count - 1
      /\ built'.count \in Int
  <2>1. VertIndex' = built'.count + Count' - Continuation'
    BY DEF VertIndex
  <2>2. built'.count \in Int
    BY <1>2
  <2>3. VertIndex = built'.count - 1
    <3>1. Count \in Int /\ Corners \in Int /\ Continuation \in Int /\ built.count \in Int
      BY <1>2
    <3>2. QED
      BY <1>2, <3>1
  <2>4. QED
    BY <2>1, <2>2, <2>3
<1>7. ASSUME clean'
      PROVE  /\ clean /\ ~Overlaps
             /\ Len(sent') = Len(sent) + 1 /\ sent'[Len(sent')] = v /\ Written(v)[VertIndex] = v
             /\ \A j \in 1 .. Count :
                  /\ Grown[j] \in 0 .. VertIndex - 1 /\ Origin(j) \in 1 .. Len(sent)
                  /\ Written(v)[Grown[j]] = sent'[Origin(j)]
             /\ VertIndex \in 0 .. VertIndex
  <2>1. clean /\ ~Overlaps
    BY <1>7
  <2>2. VertIndex \in 0 .. VertIndex
    BY <1>2, <2>1, InList
  <2>3. QED
    BY <2>1, <2>2, GrownMeans
<1>8. CASE ~Strip
  <2>1. Kept(Grown) = <<>>
    BY <1>8 DEF Kept, Strip
  <2>2. Count' = 0 /\ Continuation' = 0 /\ ~Strip'
    BY <1>5, <1>8, <2>1
  <2>3. ASSUME clean' PROVE Count' = Len(sent') % Corners'
    <3>1. Count = Len(sent) % Corners
      BY <1>1, <1>7, <1>8, <2>3 DEF SequenceHeld
    <3>2. Len(sent') = Len(sent) + 1 /\ Len(sent) \in Nat /\ Corners \in {3, 4}
      BY <1>2, <1>7, <2>3
    <3>3. (Len(sent) % Corners) + 1 = Corners
      BY <3>1
    <3>4. QED
      BY <1>5, <2>2, <3>2, <3>3, NextInTurn
  <2>4. Count' < Corners' /\ Continuation' <= Count'
    BY <1>2, <1>5, <2>2
  <2>5. ~(vtxFormat' = GL_TRIANGLE_STRIP) /\ ~(vtxFormat' = GL_QUAD_STRIP)
    BY <1>8 DEF Strip
  <2>6. \A j \in 1 .. Count' : FALSE
    BY <2>2
  <2>7. QED
    BY <2>2, <2>3, <2>4, <2>5, <2>6 DEF SequenceHeld
<1>9. CASE vtxFormat = GL_TRIANGLE_STRIP
  <2>1. Corners = 3 /\ Count = 2 /\ Strip /\ Strip'
    BY <1>2, <1>5, <1>9 DEF Strip
  <2>2. Kept(Grown) = IF triStripToggle = 1 THEN <<Grown[1], VertIndex>> ELSE <<VertIndex, Grown[2]>>
    <3>1. built.count - Continuation + 2 = VertIndex
      BY <1>2, <1>6, <2>1
    <3>2. QED
      BY <1>9, <3>1 DEF Kept, GL_TRIANGLE_STRIP, GL_QUAD_STRIP
  <2>3. Count' = 2 /\ Continuation' = 2 /\ ~temp'.first /\ VertIndex' = VertIndex + 1
    <3>1. Len(Kept(Grown)) = 2
      BY <2>2
    <3>2. Count' = 2 /\ Continuation' = 2 /\ ~temp'.first
      BY <1>4, <1>5, <2>1, <3>1
    <3>3. QED
      BY <1>2, <1>6, <3>2
  <2>4. ASSUME clean'
        PROVE  /\ Len(sent') >= 3 /\ triStripToggle' = Len(sent') % 2
               /\ \A j \in 1 .. 2 :
                    Kept(Grown)[j] \in 0 .. VertIndex /\ Written(v)[Kept(Grown)[j]] = sent'[Origin(j)']
    <3>1. /\ temp.first => Len(sent) = 2 /\ triStripToggle = 0
          /\ ~temp.first => Len(sent) >= 3 /\ triStripToggle = Len(sent) % 2
      <4>1. ASSUME temp.first PROVE Len(sent) = 2 /\ triStripToggle = 0
        BY <1>1, <1>7, <1>9, <2>1, <2>4, <4>1 DEF SequenceHeld
      <4>2. ASSUME ~temp.first PROVE Len(sent) >= 3 /\ triStripToggle = Len(sent) % 2
        BY <1>1, <1>7, <1>9, <2>4, <4>2 DEF SequenceHeld
      <4>3. QED
        BY <4>1, <4>2
    <3>2. Len(sent') = Len(sent) + 1
      BY <1>7, <2>4
    <3>3. Len(sent) % 2 \in {0, 1} /\ Len(sent') % 2 = 1 - (Len(sent) % 2)
      BY <1>2, <3>2, NextParity
    <3>4. Len(sent') >= 3
      BY <1>2, <3>1, <3>2, NextLength
    <3>5. triStripToggle = Len(sent) % 2
      <4>1. 2 % 2 = 0
        OBVIOUS
      <4>2. CASE temp.first
        BY <3>1, <4>1, <4>2
      <4>3. CASE ~temp.first
        BY <3>1, <4>3
      <4>4. QED
        BY <4>2, <4>3
    <3>6. triStripToggle' = 1 - triStripToggle /\ triStripToggle' = Len(sent') % 2
      BY <1>9, <3>3, <3>5
    <3>7. \A j : Origin(j)' = IF triStripToggle' = 1 THEN Len(sent') + 1 - j ELSE Len(sent') - 2 + j
      BY <1>9, <2>3 DEF Origin
    <3>8. Grown[1] \in 0 .. VertIndex - 1 /\ Grown[2] \in 0 .. VertIndex - 1 /\ 1 \in 1 .. Count /\ 2 \in 1 .. Count
      BY <1>7, <2>1, <2>4
    <3>9. CASE triStripToggle = 1
      <4>1. ~temp.first /\ triStripToggle' = 0
        BY <3>1, <3>6, <3>9
      <4>2. Origin(1) = Len(sent) + 1 - 1
        BY <1>9, <3>9, <4>1 DEF Origin
      <4>3. Origin(1)' = Len(sent') - 2 + 1 /\ Origin(2)' = Len(sent') - 2 + 2
        BY <3>7, <4>1
      <4>4. Origin(1)' = Origin(1) /\ Origin(2)' = Len(sent')
        BY <1>2, <3>2, <4>2, <4>3
      <4>5. Kept(Grown)[1] = Grown[1] /\ Kept(Grown)[2] = VertIndex
        BY <2>2, <3>9
      <4>6. Written(v)[Grown[1]] = sent'[Origin(1)] /\ Written(v)[VertIndex] = sent'[Len(sent')]
        BY <1>7, <2>4, <3>8
      <4>7. Grown[1] \in 0 .. VertIndex /\ VertIndex \in 0 .. VertIndex
        BY <1>2, <1>7, <2>4, <3>8
      <4>8. \A j \in 1 .. 2 : j = 1 \/ j = 2
        OBVIOUS
      <4>9. QED
        BY <3>4, <3>6, <4>4, <4>5, <4>6, <4>7, <4>8
    <3>10. CASE triStripToggle = 0
      <4>1. triStripToggle' = 1
        BY <3>6, <3>10
      <4>2. Origin(2) = Len(sent) - 2 + 2
        BY <2>1, <3>10 DEF Origin
      <4>3. Origin(1)' = Len(sent') + 1 - 1 /\ Origin(2)' = Len(sent') + 1 - 2
        BY <3>7, <4>1
      <4>4. Origin(2)' = Origin(2) /\ Origin(1)' = Len(sent')
        BY <1>2, <3>2, <4>2, <4>3
      <4>5. Kept(Grown)[1] = VertIndex /\ Kept(Grown)[2] = Grown[2]
        BY <2>2, <3>10
      <4>6. Written(v)[Grown[2]] = sent'[Origin(2)] /\ Written(v)[VertIndex] = sent'[Len(sent')]
        BY <1>7, <2>4, <3>8
      <4>7. Grown[2] \in 0 .. VertIndex /\ VertIndex \in 0 .. VertIndex
        BY <1>2, <1>7, <2>4, <3>8
      <4>8. \A j \in 1 .. 2 : j = 1 \/ j = 2
        OBVIOUS
      <4>9. QED
        BY <3>4, <3>6, <4>4, <4>5, <4>6, <4>7, <4>8
    <3>11. QED
      BY <1>2, <3>9, <3>10
  <2>5. vtxFormat' # GL_QUAD_STRIP
    BY <1>9 DEF GL_TRIANGLE_STRIP, GL_QUAD_STRIP
  <2>6. VertIndex' - 1 = VertIndex
    BY <1>2, <2>3
  <2>7. Count' < Corners' /\ Continuation' <= Count'
    BY <1>5, <2>1, <2>3
  <2>8. ASSUME clean'
        PROVE  \A j \in 1 .. Count' :
                 temp'.map[j] \in 0 .. VertIndex' - 1 /\ built'.verts[temp'.map[j]] = sent'[Origin(j)']
    BY <1>4, <2>3, <2>4, <2>6, <2>8
  <2>9. QED
    BY <2>1, <2>3, <2>4, <2>5, <2>7, <2>8 DEF SequenceHeld
<1>10. CASE vtxFormat = GL_QUAD_STRIP
  <2>1. Corners = 4 /\ Count = 3 /\ Strip /\ Strip'
    BY <1>2, <1>5, <1>10 DEF Strip, GL_QUAD_STRIP, GL_TRIANGLES, GL_TRIANGLE_STRIP
  <2>2. Kept(Grown) = <<VertIndex - 1, VertIndex>>
    <3>1. built.count - Continuation + 2 = VertIndex - 1 /\ built.count - Continuation + 3 = VertIndex
      BY <1>2, <2>1
    <3>2. QED
      BY <1>10, <3>1 DEF Kept, GL_TRIANGLE_STRIP, GL_QUAD_STRIP
  <2>3. Count' = 2 /\ Continuation' = 2 /\ ~temp'.first /\ VertIndex' = VertIndex + 1
    <3>1. Len(Kept(Grown)) = 2
      BY <2>2
    <3>2. Count' = 2 /\ Continuation' = 2 /\ ~temp'.first
      BY <1>4, <1>5, <2>1, <3>1
    <3>3. QED
      BY <1>2, <1>6, <3>2
  <2>4. ASSUME clean'
        PROVE  /\ Len(sent') >= 4 /\ Len(sent') % 2 = 0
               /\ \A j \in 1 .. 2 :
                    Kept(Grown)[j] \in 0 .. VertIndex /\ Written(v)[Kept(Grown)[j]] = sent'[Origin(j)']
    <3>1. /\ temp.first => Len(sent) = 3
          /\ ~temp.first => Len(sent) >= 4 /\ 3 = 2 + (Len(sent) % 2)
          /\ Grown[3] = VertIndex - 1
      <4>1. ASSUME temp.first PROVE Len(sent) = 3
        BY <1>1, <1>7, <2>1, <2>4, <4>1 DEF SequenceHeld
      <4>2. ASSUME ~temp.first PROVE Len(sent) >= 4 /\ 3 = 2 + (Len(sent) % 2)
        BY <1>1, <1>7, <1>10, <2>1, <2>4, <4>2 DEF SequenceHeld
      <4>3. temp.map[3] = built.count + 2 - Continuation
        BY <1>1, <1>7, <1>10, <2>1, <2>4 DEF SequenceHeld
      <4>4. Grown[3] = temp.map[3]
        BY <1>3, <2>1
      <4>5. built.count + 2 - Continuation = VertIndex - 1
        BY <1>2, <2>1
      <4>6. QED
        BY <4>1, <4>2, <4>3, <4>4, <4>5
    <3>2. Len(sent') = Len(sent) + 1
      BY <1>7, <2>4
    <3>3. Len(sent) % 2 \in {0, 1} /\ Len(sent') % 2 = 1 - (Len(sent) % 2)
      BY <1>2, <3>2, NextParity
    <3>4. Len(sent') >= 4
      BY <1>2, <3>1, <3>2, NextLength
    <3>5. Len(sent) % 2 = 1
      <4>1. 3 % 2 = 1
        OBVIOUS
      <4>2. CASE temp.first
        BY <3>1, <4>1, <4>2
      <4>3. CASE ~temp.first
        BY <3>1, <3>3, <4>3
      <4>4. QED
        BY <4>2, <4>3
    <3>6. Len(sent') % 2 = 0
      BY <3>3, <3>5
    <3>7. Origin(1)' = Len(sent') - 2 + 1 /\ Origin(2)' = Len(sent') - 2 + 2 /\ Origin(3) = Len(sent) - 3 + 3
      BY <1>10, <2>1, <2>3 DEF Origin, GL_QUAD_STRIP, GL_TRIANGLE_STRIP
    <3>8. Origin(1)' = Origin(3) /\ Origin(2)' = Len(sent')
      BY <1>2, <3>2, <3>7
    <3>9. /\ Grown[3] \in 0 .. VertIndex - 1 /\ Written(v)[Grown[3]] = sent'[Origin(3)]
          /\ Written(v)[VertIndex] = sent'[Len(sent')] /\ VertIndex \in 0 .. VertIndex
      BY <1>7, <2>1, <2>4
    <3>10. Grown[3] \in 0 .. VertIndex
      BY <1>2, <3>9
    <3>11. Kept(Grown)[1] = Grown[3] /\ Kept(Grown)[2] = VertIndex
      BY <2>2, <3>1
    <3>12. \A j \in 1 .. 2 : j = 1 \/ j = 2
      OBVIOUS
    <3>13. QED
      BY <3>4, <3>6, <3>8, <3>9, <3>10, <3>11, <3>12
  <2>5. vtxFormat' # GL_TRIANGLE_STRIP
    BY <1>10 DEF GL_TRIANGLE_STRIP, GL_QUAD_STRIP
  <2>6. VertIndex' - 1 = VertIndex
    BY <1>2, <2>3
  <2>7. Count' < Corners' /\ Continuation' <= Count' /\ Count' # 3
    BY <1>5, <2>1, <2>3
  <2>8. ASSUME clean'
        PROVE  \A j \in 1 .. Count' :
                 temp'.map[j] \in 0 .. VertIndex' - 1 /\ built'.verts[temp'.map[j]] = sent'[Origin(j)']
    BY <1>4, <2>3, <2>4, <2>6, <2>8
  <2>9. ASSUME clean' PROVE Count' = 2 + (Len(sent') % 2)
    BY <2>3, <2>4, <2>9
  <2>10. QED
    BY <2>1, <2>3, <2>4, <2>5, <2>7, <2>8, <2>9 DEF SequenceHeld
<1>11. QED
  BY <1>8, <1>9, <1>10 DEF Strip

\* An empty list is a list, and holds (twiddleLists).
LEMMA EmptyHolds ==
  /\ EmptyList \in ListType /\ EmptyList.count = 0 /\ EmptyList.polys = <<>> /\ Len(EmptyList.polys) = 0
  /\ EmptyList.spoiled = FALSE
<1>1. VERTLIST_SIZE \in Nat
  BY PolygonsAssumption
<1>2. [i \in 0 .. VERTLIST_SIZE - 1 |-> NoVertex] \in [0 .. VERTLIST_SIZE - 1 -> Nat]
  BY DEF NoVertex
<1>3. <<>> \in Seq(Polygon) /\ Len(<<>>) = 0 /\ 0 \in 0 .. VERTLIST_SIZE
  BY <1>1
<1>4. QED
  BY <1>2, <1>3 DEF EmptyList, ListType

\* A list that is taken for another one, or is empty, holds like it.
LEMMA ListCopied ==
  ASSUME NEW l \in Lists, NEW k \in Lists,
         list'[k] = EmptyList \/ (ListHeld(l) /\ list'[k] = list[l])
  PROVE  ListHeld(k)'
<1>1. CASE list'[k] = EmptyList
  <2>1. list'[k].count = 0 /\ Len(list'[k].polys) = 0
    BY <1>1, EmptyHolds
  <2>2. \A i \in 1 .. Len(list'[k].polys) : FALSE
    BY <2>1
  <2>3. list'[k].count <= 4 * Len(list'[k].polys)
    BY <2>1
  <2>4. QED
    BY <2>2, <2>3 DEF ListHeld
<1>2. CASE ListHeld(l) /\ list'[k] = list[l]
  BY <1>2 DEF ListHeld, PolygonHeld, Faithful
<1>3. QED
  BY <1>1, <1>2

\* Nothing waits, and a new sequence begins (gfx3d_reset, gfx3d_glBegin).
LEMMA NothingWaits ==
  ASSUME temp'.map = <<>>, temp'.first \in BOOLEAN, vtxFormat' \in 0 .. 3, sent' \in Seq(Nat),
         clean' => /\ Strip' => temp'.first
                   /\ Strip' => Len(sent') = 0
                   /\ ~Strip' => Len(sent') % Corners' = 0
                   /\ vtxFormat' = GL_TRIANGLE_STRIP => triStripToggle' = 0
  PROVE  SequenceHeld'
<1>1. Count' = 0
  BY DEF Count
<1>2. Corners' \in {3, 4}
  BY DEF Corners
<1>3. clean' => Continuation' = 0
  BY DEF Continuation
<1>4. Count' < Corners' /\ \A j \in 1 .. Count' : FALSE
  BY <1>1, <1>2
<1>5. vtxFormat' \in {GL_TRIANGLE_STRIP, GL_QUAD_STRIP} => Strip'
  BY DEF Strip
<1>6. QED
  BY <1>1, <1>3, <1>4, <1>5 DEF SequenceHeld

\* Lists and pictures stay what they are for as long as no list changes.
LEMMA ListsStay ==
  ASSUME PolygonsInv, UNCHANGED <<list, listTwiddle, shown, indexlist, drawPending>>
  PROVE  (\A l \in Lists : ListHeld(l)') /\ DrawnOnce'
<1>1. \A l \in Lists : ListHeld(l)'
  BY ListCopied DEF PolygonsInv
<1>2. DrawnOnce'
  BY StillDrawn DEF PolygonsInv
<1>3. QED
  BY <1>1, <1>2

\* At reset, nothing is listed (gfx3d_reset).
LEMMA PolygonsBegin == PolygonsInit => PolygonsInv
<1> SUFFICES ASSUME PolygonsInit PROVE PolygonsInv
  OBVIOUS
<1>1. PolygonsTypeOK
  <2>1. /\ temp \in [map : Seq(Int), first : BOOLEAN] /\ Len(temp.map) <= 3
        /\ indexlist \in Seq(Nat) /\ sent \in Seq(Nat)
    BY DEF PolygonsInit
  <2>2. /\ vtxFormat \in 0 .. 3 /\ triStripToggle \in {0, 1} /\ {polyAttr, polyAttrPending} \subseteq BOOLEAN
        /\ listTwiddle \in Lists /\ shown \in Lists /\ {isSwapBuffers, drawPending, clean} \subseteq BOOLEAN
        /\ flushCommand \in [pending : BOOLEAN, active : BOOLEAN] /\ born \in 0 .. MaxVertices
    <3>1. 0 \in 0 .. MaxVertices
      BY PolygonsAssumption
    <3>2. flushCommand \in [pending : BOOLEAN, active : BOOLEAN]
      BY DEF PolygonsInit
    <3>3. QED
      BY <3>1, <3>2 DEF PolygonsInit, Lists
  <2>3. list \in [Lists -> ListType]
    BY EmptyHolds DEF PolygonsInit
  <2>4. \A l \in Lists : Len(list[l].polys) <= POLYLIST_SIZE
    BY EmptyHolds, PolygonsAssumption DEF PolygonsInit
  <2>5. QED
    BY <2>1, <2>2, <2>3, <2>4 DEF PolygonsTypeOK, ListType
<1>2. SequenceHeld
  BY DEF PolygonsInit, SequenceHeld, Count, Corners
<1>3. ASSUME NEW l \in Lists PROVE ListHeld(l)
  <2>1. list[l] = EmptyList
    BY DEF PolygonsInit
  <2>2. list[l].count = 0 /\ Len(list[l].polys) = 0
    BY <2>1, EmptyHolds
  <2>3. (\A k \in 1 .. Len(list[l].polys) : FALSE) /\ list[l].count <= 4 * Len(list[l].polys)
    BY <2>2
  <2>4. QED
    BY <2>3 DEF ListHeld
<1>4. DrawnOnce
  BY DEF PolygonsInit, DrawnOnce
<1>5. QED
  BY <1>1, <1>2, <1>3, <1>4 DEF PolygonsInv

\* SetVertex leaves the invariant.
LEMMA SetVertexKeeps ==
  ASSUME PolygonsInv, SetVertex
  PROVE  PolygonsInv'
<1>1. PolygonsTypeOK /\ SequenceHeld /\ DrawnOnce /\ \A l \in Lists : ListHeld(l)
  BY DEF PolygonsInv
<1>2. /\ UNCHANGED <<vtxFormat, polyAttr, polyAttrPending, listTwiddle, shown, indexlist, isSwapBuffers,
                     drawPending, flushCommand>>
      /\ born' = born + 1 /\ born < MaxVertices /\ born \in 0 .. MaxVertices /\ MaxVertices \in Nat
  BY <1>1, PolygonsAssumption DEF SetVertex, showing, PolygonsTypeOK
<1>3. born' \in Nat /\ born' \in 0 .. MaxVertices
  BY <1>2
<1>4. CASE Refused
  <2>1. clean' = FALSE /\ UNCHANGED <<sent, list, temp, triStripToggle>>
    BY <1>4 DEF SetVertex
  <2>2. PolygonsTypeOK'
    BY <1>1, <1>2, <1>3, <2>1 DEF PolygonsTypeOK
  <2>3. SequenceHeld'
    BY <1>1, <1>2, <2>1 DEF SequenceHeld, Count, Corners
  <2>4. QED
    BY <1>2, <2>1, <2>2, <2>3, ListsStay DEF PolygonsInv
<1>5. CASE ~Refused
  <2>1. sent' = Append(sent, born') /\ clean' = (clean /\ ~Overlaps)
    BY <1>5 DEF SetVertex
  <2>2. sent \in Seq(Nat) /\ sent' \in Seq(Nat) /\ Len(sent') > 0 /\ clean' \in BOOLEAN
    <3>1. sent \in Seq(Nat) /\ clean \in BOOLEAN
      BY <1>1, Waiting
    <3>2. sent' \in Seq(Nat) /\ Len(sent') = Len(sent) + 1 /\ Len(sent) \in Nat
      BY <1>3, <2>1, <3>1, AppendProperties
    <3>3. clean' \in BOOLEAN
      BY <2>1, <3>1 DEF Overlaps
    <3>4. QED
      BY <3>1, <3>2, <3>3
  <2>3. /\ Grown \in Seq(Int) /\ Len(Grown) = Count + 1 /\ Count \in 0 .. 3 /\ Count < Corners
        /\ Corners \in {3, 4} /\ Continuation \in {0, 2} /\ temp.first \in BOOLEAN /\ triStripToggle \in {0, 1}
        /\ built.count \in Nat
    BY <1>1, GrownIs, Waiting
  <2>4. CASE Len(Grown) # Corners
    <3>1. /\ list' = [list EXCEPT ![listTwiddle] = Extended(born', 0, <<>>)]
          /\ temp' = [map |-> Grown, first |-> temp.first] /\ triStripToggle' = triStripToggle
      BY <1>5, <2>4 DEF SetVertex, Grown
    <3>2. <<>> \in Seq(Polygon) /\ Len(<<>>) = 0 /\ 0 \in Nat /\ 0 <= 4 * Len(<<>>) /\ Len(<<>>) <= 1
      OBVIOUS
    <3>3. /\ built'.verts = Written(born') /\ built'.count = built.count + 0
          /\ Len(built'.polys) <= POLYLIST_SIZE /\ list' \in [Lists -> ListType]
          /\ \A l \in Lists : l # listTwiddle => list'[l] = list[l]
      BY <1>2, <1>3, <1>5, <3>1, <3>2, ExtendedIs
    <3>4. \A l \in Lists : ListHeld(l)'
      <4>1. \A k \in 1 .. Len(<<>>) : FALSE
        OBVIOUS
      <4>2. QED
        BY <1>2, <1>3, <1>5, <3>1, <3>2, <4>1, ExtendedHolds
    <3>5. built'.count = built.count /\ Count + 1 # Corners
      BY <2>3, <2>4, <3>3
    <3>6. SequenceHeld'
      BY <1>2, <1>3, <1>5, <2>1, <3>1, <3>3, <3>5, GoesOn
    <3>7. DrawnOnce'
      BY <1>1, <1>2, <3>3, StillDrawn
    <3>8. temp' \in [map : Seq(Int), first : BOOLEAN] /\ Len(temp'.map) <= 3
      BY <2>3, <2>4, <3>1
    <3>9. \A l \in Lists : Len(list'[l].polys) <= POLYLIST_SIZE
      BY <1>1, <1>2, <3>3 DEF PolygonsTypeOK, built
    <3>10. PolygonsTypeOK'
      BY <1>1, <1>2, <1>3, <2>2, <3>1, <3>3, <3>8, <3>9 DEF PolygonsTypeOK, ListType
    <3>11. QED
      BY <3>4, <3>6, <3>7, <3>10 DEF PolygonsInv
  <2>5. CASE Len(Grown) = Corners
    <3> DEFINE n == Corners - Continuation
               ps == <<Completed(Grown)>>
    <3>1. /\ list' = [list EXCEPT ![listTwiddle] = Extended(born', n, ps)]
          /\ temp' = [map |-> Kept(Grown), first |-> temp.first /\ ~Strip]
          /\ triStripToggle' = IF vtxFormat = GL_TRIANGLE_STRIP THEN 1 - triStripToggle ELSE triStripToggle
      BY <1>5, <2>5 DEF SetVertex, Grown
    <3>2. Count + 1 = Corners
      BY <2>3, <2>5
    <3>3. /\ Completed(Grown) \in Polygon /\ (Completed(Grown).clean <=> (clean /\ Meant # <<>>))
      BY <1>1, <2>2, <3>2, CompletedIs
    <3>4. ps \in Seq(Polygon) /\ Len(ps) = 1 /\ Len(ps) <= 1 /\ n \in Nat /\ n <= 4 * Len(ps) /\ ps[1] = Completed(Grown)
      BY <2>3, <3>3
    <3>5. ASSUME ~Overlaps, built.count + n <= IndexRange, Completed(Grown).clean
          PROVE  /\ \A i \in DOMAIN Completed(Grown).vertIndexes : Completed(Grown).vertIndexes[i] < built.count + n
                 /\ [i \in DOMAIN Completed(Grown).vertIndexes |-> Written(born')[Completed(Grown).vertIndexes[i]]]
                      = Completed(Grown).meant
      <4>1. built.count + Corners - Continuation = built.count + n
        BY <2>3
      <4>2. clean /\ Meant # <<>>
        BY <3>3, <3>5
      <4>3. built.count + Corners - Continuation <= IndexRange
        BY <3>5, <4>1
      <4> HIDE DEF n
      <4>4. QED
        BY <1>3, <1>5, <2>1, <3>2, <3>5, <4>1, <4>2, <4>3, CompletedMeans
    <3> HIDE DEF n
    <3>6. \A k \in 1 .. Len(ps) :
            ~Overlaps /\ built.count + n <= IndexRange /\ ps[k].clean =>
              /\ \A i \in DOMAIN ps[k].vertIndexes : ps[k].vertIndexes[i] < built.count + n
              /\ [i \in DOMAIN ps[k].vertIndexes |-> Written(born')[ps[k].vertIndexes[i]]] = ps[k].meant
      <4>1. \A k \in 1 .. Len(ps) : ps[k] = Completed(Grown)
        BY <3>4
      <4> HIDE DEF ps
      <4>2. QED
        BY <3>5, <4>1
    <3> HIDE DEF ps
    <3>7. /\ built'.verts = Written(born') /\ built'.count = built.count + n
          /\ Len(built'.polys) <= POLYLIST_SIZE /\ list' \in [Lists -> ListType]
          /\ \A l \in Lists : l # listTwiddle => list'[l] = list[l]
      BY <1>2, <1>3, <1>5, <3>1, <3>4, ExtendedIs
    <3>8. \A l \in Lists : ListHeld(l)'
      BY <1>2, <1>3, <1>5, <3>1, <3>4, <3>6, ExtendedHolds
    <3>9. built'.count = built.count + (Corners - Continuation)
      BY <3>7 DEF n
    <3>10. SequenceHeld'
      BY <1>2, <1>3, <1>5, <2>1, <3>1, <3>2, <3>7, <3>9, Completes
    <3>11. DrawnOnce'
      BY <1>1, <1>2, <3>7, StillDrawn
    <3>12. Kept(Grown) \in Seq(Int) /\ Len(Kept(Grown)) <= 3
      <4>1. ASSUME vtxFormat = GL_TRIANGLE_STRIP PROVE Grown[1] \in Int /\ Grown[2] \in Int
        BY <2>3, <2>5, ElementOfSeq
      <4>2. built.count - Continuation + 2 \in Int /\ built.count - Continuation + 3 \in Int
        BY <2>3
      <4>3. QED
        BY <4>1, <4>2 DEF Kept, GL_TRIANGLE_STRIP, GL_QUAD_STRIP
    <3>13. (temp.first /\ ~Strip) \in BOOLEAN /\ triStripToggle' \in {0, 1}
      BY <2>3, <3>1 DEF Strip
    <3>14. temp' \in [map : Seq(Int), first : BOOLEAN] /\ Len(temp'.map) <= 3
      BY <3>1, <3>12, <3>13
    <3>15. \A l \in Lists : Len(list'[l].polys) <= POLYLIST_SIZE
      BY <1>1, <1>2, <3>7 DEF PolygonsTypeOK, built
    <3>16. PolygonsTypeOK'
      BY <1>1, <1>2, <1>3, <2>2, <3>7, <3>13, <3>14, <3>15 DEF PolygonsTypeOK, ListType
    <3>17. QED
      BY <3>8, <3>10, <3>11, <3>16 DEF PolygonsInv
  <2>6. QED
    BY <2>4, <2>5
<1>6. QED
  BY <1>4, <1>5

\* An empty list has room.
LEMMA EmptyFits == Len(EmptyList.polys) <= POLYLIST_SIZE
<1>1. Len(EmptyList.polys) = 0 /\ POLYLIST_SIZE \in Nat
  BY EmptyHolds, PolygonsAssumption
<1>2. QED
  BY <1>1

\* Begin and End leave the invariant (gfx3d_glBegin, gfx3d_glEnd).
LEMMA BeginEndKeep ==
  ASSUME PolygonsInv, gfx3d_glBegin \/ gfx3d_glEnd
  PROVE  PolygonsInv'
<1>1. PolygonsTypeOK /\ SequenceHeld
  BY DEF PolygonsInv
<1>2. UNCHANGED <<polyAttrPending, list, showing, born>> /\ sent' = <<>> /\ temp'.map = <<>>
  BY DEF gfx3d_glBegin, gfx3d_glEnd
<1>3. UNCHANGED <<list, listTwiddle, shown, indexlist, drawPending, isSwapBuffers, flushCommand>>
  BY <1>2 DEF showing
<1>4. sent' \in Seq(Nat) /\ Len(sent') = 0 /\ 0 % 3 = 0 /\ 0 % 4 = 0
  BY <1>2
<1>5. Corners' \in {3, 4}
  BY DEF Corners
<1>6. Len(sent') % Corners' = 0
  BY <1>4, <1>5
<1>7. /\ temp' = [map |-> <<>>, first |-> temp'.first] /\ temp'.first \in BOOLEAN /\ vtxFormat' \in 0 .. 3
      /\ polyAttr' \in BOOLEAN /\ triStripToggle' \in {0, 1} /\ clean' \in BOOLEAN
      /\ clean' => /\ Strip' => temp'.first
                   /\ vtxFormat' = GL_TRIANGLE_STRIP => triStripToggle' = 0
  <2>1. CASE gfx3d_glBegin
    <3>1. PICK format \in Formats :
            /\ vtxFormat' = format /\ polyAttr' = polyAttrPending /\ triStripToggle' = 0
            /\ temp' = [map |-> <<>>, first |-> TRUE] /\ clean' = TRUE
      BY <2>1 DEF gfx3d_glBegin
    <3>2. format \in 0 .. 3
      BY PolygonsAssumption
    <3>3. polyAttrPending \in BOOLEAN
      BY <1>1 DEF PolygonsTypeOK
    <3>4. QED
      BY <3>1, <3>2, <3>3
  <2>2. CASE gfx3d_glEnd
    <3>1. /\ temp' = [map |-> <<>>, first |-> temp.first] /\ clean' = (clean /\ (sent = <<>> \/ ~Strip))
          /\ UNCHANGED <<vtxFormat, polyAttr, triStripToggle>>
      BY <2>2 DEF gfx3d_glEnd
    <3>2. temp.first \in BOOLEAN /\ clean \in BOOLEAN /\ vtxFormat \in 0 .. 3 /\ triStripToggle \in {0, 1}
      BY <1>1, Waiting
    <3>3. polyAttr \in BOOLEAN /\ (Strip' <=> Strip) /\ clean' \in BOOLEAN
      BY <1>1, <3>1, <3>2 DEF PolygonsTypeOK, Strip
    <3>4. ASSUME clean', Strip PROVE temp.first
      <4>1. clean /\ Len(sent) = 0
        BY <3>1, <3>4
      <4>2. CASE ~temp.first
        <5>1. Len(sent) >= 3 \/ Len(sent) >= 4
          BY <1>1, <3>4, <4>1, <4>2 DEF SequenceHeld, Strip
        <5>2. QED
          BY <4>1, <5>1
      <4>3. QED
        BY <3>2, <4>2
    <3>5. ASSUME clean', vtxFormat = GL_TRIANGLE_STRIP PROVE triStripToggle = 0
      <4>1. clean /\ temp.first
        BY <3>1, <3>4, <3>5 DEF Strip
      <4>2. QED
        BY <1>1, <3>5, <4>1 DEF SequenceHeld
    <3>6. QED
      BY <3>1, <3>2, <3>3, <3>4, <3>5
  <2>3. QED
    BY <2>1, <2>2
<1>8. SequenceHeld'
  BY <1>2, <1>4, <1>6, <1>7, NothingWaits
<1>9. temp' \in [map : Seq(Int), first : BOOLEAN] /\ Len(temp'.map) <= 3
  <2>1. <<>> \in Seq(Int) /\ Len(<<>>) <= 3
    OBVIOUS
  <2>2. QED
    BY <1>2, <1>7, <2>1
<1>10. PolygonsTypeOK'
  BY <1>1, <1>2, <1>3, <1>4, <1>7, <1>9 DEF PolygonsTypeOK
<1>11. QED
  BY <1>3, <1>8, <1>10, ListsStay DEF PolygonsInv

\* Attributes and SWAP_BUFFERS leave the invariant (gfx3d_glPolygonAttrib, gfx3d_glFlush).
LEMMA CommandsKeep ==
  ASSUME PolygonsInv, gfx3d_glPolygonAttrib \/ gfx3d_glFlush
  PROVE  PolygonsInv'
<1>1. PolygonsTypeOK /\ SequenceHeld
  BY DEF PolygonsInv
<1>2. UNCHANGED <<list, listTwiddle, shown, indexlist, drawPending, vtxFormat, polyAttr, temp, triStripToggle,
                  sent, clean, born>>
  BY DEF gfx3d_glPolygonAttrib, gfx3d_glFlush, showing, history, building
<1>3. polyAttrPending' \in BOOLEAN /\ isSwapBuffers' \in BOOLEAN /\ flushCommand' \in [pending : BOOLEAN, active : BOOLEAN]
  <2>1. polyAttrPending \in BOOLEAN /\ isSwapBuffers \in BOOLEAN /\ flushCommand \in [pending : BOOLEAN, active : BOOLEAN]
    BY <1>1 DEF PolygonsTypeOK
  <2>2. CASE gfx3d_glPolygonAttrib
    BY <2>1, <2>2 DEF gfx3d_glPolygonAttrib, showing
  <2>3. CASE gfx3d_glFlush
    BY <2>1, <2>3 DEF gfx3d_glFlush, building
  <2>4. QED
    BY <2>2, <2>3
<1>4. PolygonsTypeOK'
  BY <1>1, <1>2, <1>3 DEF PolygonsTypeOK
<1>5. SequenceHeld'
  BY <1>1, <1>2 DEF SequenceHeld, Count, Corners, Continuation, Strip, VertIndex, Origin, built
<1>6. QED
  BY <1>2, <1>4, <1>5, ListsStay DEF PolygonsInv

\* The list that is handed over is drawn completely and in order (gfx3d_doFlush).
LEMMA SwapKeeps ==
  ASSUME PolygonsInv, gfx3d_VBlankSignal
  PROVE  PolygonsInv' /\ ManualOrderKept
<1>1. PolygonsTypeOK /\ SequenceHeld /\ \A l \in Lists : ListHeld(l)
  BY DEF PolygonsInv
<1>2. /\ shown' = listTwiddle /\ listTwiddle' = 1 - listTwiddle /\ indexlist' = Sorted /\ drawPending' = TRUE
      /\ flushCommand' = [pending |-> flushCommand.pending, active |-> flushCommand.pending]
      /\ list' = [list EXCEPT ![1 - listTwiddle] = EmptyList] /\ isSwapBuffers' = FALSE
      /\ clean' = (clean /\ Count = 0)
      /\ UNCHANGED <<vtxFormat, polyAttr, polyAttrPending, triStripToggle, temp, sent, born>>
  BY DEF gfx3d_VBlankSignal, doFlush, building
<1>3. listTwiddle \in {0, 1} /\ list \in [Lists -> ListType] /\ Lists = {0, 1}
  BY <1>1 DEF PolygonsTypeOK, Lists, ListType
<1>4. /\ list'[listTwiddle] = list[listTwiddle] /\ list'[1 - listTwiddle] = EmptyList
      /\ listTwiddle' \in Lists /\ listTwiddle' # listTwiddle /\ list' \in [Lists -> ListType]
      /\ \A l \in Lists : list'[l] = list[l] \/ list'[l] = EmptyList
  BY <1>2, <1>3, EmptyHolds
<1>5. list'[shown'].polys = built.polys /\ shown' # listTwiddle'
  BY <1>2, <1>4 DEF built
<1>6. /\ DOMAIN Sorted = Polys /\ Sorted \in [Polys -> Polys]
      /\ \A i \in Polys : \E k \in Polys : Sorted[k] = i
      /\ \A a, b \in Polys : a < b => DrawnBefore(Sorted[a], Sorted[b])
  BY <1>1, SortedIsRight
<1>7. /\ Len(built.polys) \in Nat /\ Polys = 1 .. Len(built.polys)
      /\ \A k \in Polys : built.polys[k].polyAttr \in BOOLEAN
  BY <1>1, BuiltPolygons DEF Polys
<1>8. Sorted \in Seq(Nat) /\ Len(Sorted) = Len(built.polys)
  <2> DEFINE n == Len(built.polys)
  <2>1. ASSUME NEW k \in Polys
        PROVE  Sorted[k] \in Nat
    <3>1. Sorted[k] \in Polys
      BY <1>6
    <3>2. \A i \in Polys : i \in Nat
      BY <1>7
    <3>3. QED
      BY <3>1, <3>2
  <2>2. Sorted = [k \in 1 .. n |-> Sorted[k]] /\ n \in Nat /\ \A k \in 1 .. n : Sorted[k] \in Nat
    BY <1>6, <1>7, <2>1
  <2> HIDE DEF n
  <2>3. Sorted \in Seq(Nat) /\ Len(Sorted) = n
    BY <2>2
  <2>4. QED
    BY <2>3 DEF n
<1>9. ASSUME NEW i \in Polys, NEW j \in Polys,
             built.polys[Sorted[i]].polyAttr, ~built.polys[Sorted[j]].polyAttr
      PROVE  j < i
  <2>1. ~DrawnBefore(Sorted[i], Sorted[j])
    BY <1>9 DEF DrawnBefore, Opaque, Translucent
  <2>2. ~(i < j) /\ i # j
    BY <1>6, <1>9, <2>1
  <2>3. i \in Int /\ j \in Int
    BY <1>7
  <2>4. QED
    BY <2>2, <2>3
<1>10. {Sorted[i] : i \in Polys} = Polys
  BY <1>6
<1>11. DrawnOnce'
  <2>1. shown' # listTwiddle'
    BY <1>5
  <2>2. {indexlist'[i] : i \in 1 .. Len(list'[shown'].polys)} = 1 .. Len(list'[shown'].polys)
    BY <1>2, <1>5, <1>7, <1>10
  <2>3. \A i, j \in 1 .. Len(list'[shown'].polys) :
          list'[shown'].polys[indexlist'[i]].polyAttr /\ ~list'[shown'].polys[indexlist'[j]].polyAttr => j < i
    BY <1>2, <1>5, <1>7, <1>9
  <2>4. QED
    BY <2>1, <2>2, <2>3 DEF DrawnOnce
<1>12. ManualOrderKept
  <2>1. ASSUME flushCommand.active, NEW i \in Polys, NEW j \in Polys, i < j,
               built.polys[Sorted[i]].polyAttr, built.polys[Sorted[j]].polyAttr
        PROVE  Sorted[i] < Sorted[j]
    BY <1>6, <2>1 DEF DrawnBefore, Opaque, Translucent
  <2>2. QED
    BY <1>2, <1>5, <1>7, <1>8, <2>1 DEF ManualOrderKept
<1>13. \A l \in Lists : ListHeld(l)'
  BY <1>1, <1>4, ListCopied
<1>14. SequenceHeld'
  <2>1. Count' = Count /\ Corners' = Corners /\ (Strip' <=> Strip) /\ Continuation' = Continuation
    BY <1>2 DEF Count, Corners, Strip, Continuation
  <2>2. Count' < Corners'
    BY <1>1, <2>1 DEF SequenceHeld
  <2>3. CASE clean'
    <3>1. clean /\ Count = 0
      BY <1>2, <2>3
    <3>2. temp.map = <<>>
      <4>1. temp.map \in Seq(Int) /\ Len(temp.map) = 0
        BY <1>1, <3>1, Waiting DEF Count
      <4>2. QED
        BY <4>1
    <3>3. Continuation = 0
      BY <1>1, <3>1, Waiting DEF SequenceHeld
    <3>4. Strip => temp.first /\ Len(sent) = 0
      BY <1>1, <3>1, <3>3 DEF SequenceHeld, Continuation
    <3>5. ~Strip => Len(sent) % Corners = 0
      BY <1>1, <3>1 DEF SequenceHeld
    <3>6. vtxFormat = GL_TRIANGLE_STRIP => triStripToggle = 0
      BY <1>1, <3>1, <3>4 DEF SequenceHeld, Strip
    <3>7. temp.first \in BOOLEAN /\ vtxFormat \in 0 .. 3 /\ sent \in Seq(Nat)
      BY <1>1, Waiting
    <3>8. QED
      BY <1>2, <2>1, <3>2, <3>4, <3>5, <3>6, <3>7, NothingWaits
  <2>4. CASE ~clean'
    BY <2>2, <2>4 DEF SequenceHeld
  <2>5. QED
    BY <2>3, <2>4
<1>15. PolygonsTypeOK'
  <2>1. flushCommand' \in [pending : BOOLEAN, active : BOOLEAN] /\ clean' \in BOOLEAN
    <3>1. flushCommand.pending \in BOOLEAN /\ clean \in BOOLEAN
      BY <1>1 DEF PolygonsTypeOK
    <3>2. (clean /\ Count = 0) \in BOOLEAN
      BY <3>1
    <3>3. QED
      BY <1>2, <3>1, <3>2
  <2>2. \A l \in Lists : Len(list'[l].polys) <= POLYLIST_SIZE
    BY <1>1, <1>4, EmptyFits DEF PolygonsTypeOK
  <2>3. indexlist' \in Seq(Nat) /\ shown' \in Lists /\ drawPending' \in BOOLEAN /\ isSwapBuffers' \in BOOLEAN
    BY <1>2, <1>3, <1>8
  <2>4. QED
    BY <1>1, <1>2, <1>4, <2>1, <2>2, <2>3 DEF PolygonsTypeOK, ListType
<1>16. QED
  BY <1>11, <1>12, <1>13, <1>14, <1>15 DEF PolygonsInv

\* Drawing a list leaves the other one as it is (gfx3d_VBlankEndSignal).
LEMMA DrawKeeps ==
  ASSUME PolygonsInv, gfx3d_VBlankEndSignal
  PROVE  PolygonsInv'
<1>1. PolygonsTypeOK /\ SequenceHeld /\ DrawnOnce /\ \A l \in Lists : ListHeld(l)
  BY DEF PolygonsInv
<1>2. /\ drawPending /\ drawPending' = FALSE /\ list' = [list EXCEPT ![shown] = EmptyList] /\ indexlist' = <<>>
      /\ UNCHANGED <<vtxFormat, polyAttr, polyAttrPending, triStripToggle, temp, listTwiddle, shown,
                     isSwapBuffers, flushCommand, sent, clean, born>>
  BY DEF gfx3d_VBlankEndSignal, building, history
<1>3. shown # listTwiddle /\ list \in [Lists -> ListType] /\ listTwiddle \in Lists /\ shown \in Lists
  BY <1>1, <1>2 DEF DrawnOnce, PolygonsTypeOK, ListType
<1>4. /\ list'[listTwiddle] = list[listTwiddle] /\ list' \in [Lists -> ListType]
      /\ \A l \in Lists : list'[l] = list[l] \/ list'[l] = EmptyList
  BY <1>2, <1>3, EmptyHolds
<1>5. built' = built
  BY <1>2, <1>4 DEF built
<1>6. SequenceHeld'
  BY <1>1, <1>2, <1>5 DEF SequenceHeld, Count, Corners, Continuation, Strip, VertIndex, Origin
<1>7. \A l \in Lists : ListHeld(l)'
  BY <1>1, <1>4, ListCopied
<1>8. DrawnOnce'
  BY <1>2 DEF DrawnOnce
<1>9. \A l \in Lists : Len(list'[l].polys) <= POLYLIST_SIZE
  BY <1>1, <1>4, EmptyFits DEF PolygonsTypeOK
<1>10. indexlist' \in Seq(Nat)
  BY <1>2
<1>11. PolygonsTypeOK'
  BY <1>1, <1>2, <1>4, <1>9, <1>10 DEF PolygonsTypeOK, ListType
<1>12. QED
  BY <1>6, <1>7, <1>8, <1>11 DEF PolygonsInv

\* A savestate brings back the polygons with their vertices (gfx3d_loadstate).
LEMMA LoadKeeps ==
  ASSUME PolygonsInv, gfx3d_loadstate
  PROVE  PolygonsInv'
<1> DEFINE kept == [verts |-> [i \in 0 .. VERTLIST_SIZE - 1 |-> IF i < built.count THEN built.verts[i] ELSE NoVertex],
                    count |-> built.count, polys |-> built.polys, spoiled |-> built.spoiled]
<1>1. PolygonsTypeOK /\ SequenceHeld /\ \A l \in Lists : ListHeld(l)
  BY DEF PolygonsInv
<1>2. /\ listTwiddle' = 0 /\ shown' = 1 /\ list' = [l \in Lists |-> IF l = 1 THEN EmptyList ELSE kept]
      /\ clean' = (clean /\ Count = Continuation)
      /\ UNCHANGED <<vtxFormat, polyAttr, polyAttrPending, triStripToggle, temp, indexlist, isSwapBuffers,
                     drawPending, flushCommand, sent, born>>
  BY DEF gfx3d_loadstate, building
<1>3. list'[0] = kept /\ list'[1] = EmptyList /\ built' = kept /\ Lists = {0, 1}
  BY <1>2 DEF Lists, built
<1>4. /\ built.verts \in [0 .. VERTLIST_SIZE - 1 -> Nat] /\ built.count \in 0 .. VERTLIST_SIZE
      /\ built.polys \in Seq(Polygon) /\ built.spoiled \in BOOLEAN /\ built.count \in Nat
      /\ listTwiddle \in Lists /\ Len(built.polys) <= POLYLIST_SIZE
  <2>1. listTwiddle \in Lists /\ list \in [Lists -> ListType]
    BY <1>1 DEF PolygonsTypeOK, ListType
  <2>2. built \in ListType
    BY <2>1 DEF built
  <2>3. Len(built.polys) <= POLYLIST_SIZE
    BY <1>1, <2>1 DEF PolygonsTypeOK, built
  <2>4. QED
    BY <1>1, <2>1, <2>2, <2>3, BuiltPolygons DEF ListType
<1>5. [i \in 0 .. VERTLIST_SIZE - 1 |-> IF i < built.count THEN built.verts[i] ELSE NoVertex]
        \in [0 .. VERTLIST_SIZE - 1 -> Nat]
  BY <1>4 DEF NoVertex
<1>6. kept \in ListType
  BY <1>4, <1>5 DEF ListType
<1>7. /\ kept.count = built.count /\ kept.polys = built.polys /\ kept.spoiled = built.spoiled
      /\ \A i \in 0 .. VERTLIST_SIZE - 1 : i < built.count => kept.verts[i] = built.verts[i]
  OBVIOUS
<1> HIDE DEF kept
<1>8. list' \in [Lists -> ListType]
  BY <1>2, <1>6, EmptyHolds
<1>9. ListHeld(1)'
  BY <1>3, <1>4, ListCopied
<1>10. ListHeld(0)'
  <2>1. ListHeld(listTwiddle)
    BY <1>1, <1>4
  <2>2. built.count <= 4 * Len(built.polys)
    BY <2>1 DEF ListHeld, built
  <2>3. ASSUME ~kept.spoiled, kept.count <= IndexRange, NEW k \in 1 .. Len(kept.polys), kept.polys[k].clean
        PROVE  /\ \A i \in DOMAIN kept.polys[k].vertIndexes : kept.polys[k].vertIndexes[i] < kept.count
               /\ [i \in DOMAIN kept.polys[k].vertIndexes |-> kept.verts[kept.polys[k].vertIndexes[i]]]
                    = kept.polys[k].meant
    <3> DEFINE p == built.polys[k]
    <3>1. k \in 1 .. Len(built.polys) /\ kept.polys[k] = p /\ p.clean
      BY <1>7, <2>3
    <3>2. PolygonHeld(listTwiddle, p)
      BY <1>7, <2>1, <2>3, <3>1 DEF ListHeld, built
    <3>3. /\ \A i \in DOMAIN p.vertIndexes : p.vertIndexes[i] < built.count
          /\ [i \in DOMAIN p.vertIndexes |-> built.verts[p.vertIndexes[i]]] = p.meant
      BY <3>1, <3>2 DEF PolygonHeld, Faithful, built
    <3>4. p.vertIndexes \in [1 .. 3 -> 0 .. IndexRange - 1] \cup [1 .. 4 -> 0 .. IndexRange - 1]
      <4>1. built.polys[k] \in Polygon
        BY <1>1, <3>1, BuiltPolygons DEF Polys
      <4>2. QED
        BY <4>1 DEF Polygon
    <3>5. \A i \in DOMAIN p.vertIndexes : p.vertIndexes[i] \in 0 .. IndexRange - 1
      BY <3>4
    <3> HIDE DEF p
    <3>6. IndexRange \in Nat /\ IndexRange <= VERTLIST_SIZE /\ VERTLIST_SIZE \in Nat
      BY PolygonsAssumption
    <3>7. ASSUME NEW i \in DOMAIN p.vertIndexes
          PROVE  kept.verts[p.vertIndexes[i]] = built.verts[p.vertIndexes[i]]
      <4>1. p.vertIndexes[i] \in 0 .. VERTLIST_SIZE - 1
        BY <3>5, <3>6
      <4>2. QED
        BY <1>7, <3>3, <4>1
    <3>8. [i \in DOMAIN p.vertIndexes |-> kept.verts[p.vertIndexes[i]]]
            = [i \in DOMAIN p.vertIndexes |-> built.verts[p.vertIndexes[i]]]
      BY <3>7
    <3>9. QED
      BY <1>7, <3>1, <3>3, <3>8
  <2>4. list'[0].count <= 4 * Len(list'[0].polys)
    BY <1>3, <1>7, <2>2
  <2>5. ~list'[0].spoiled /\ list'[0].count <= IndexRange =>
          \A k \in 1 .. Len(list'[0].polys) : PolygonHeld(0, list[0].polys[k])'
    BY <1>3, <2>3 DEF PolygonHeld, Faithful
  <2>6. QED
    BY <2>4, <2>5 DEF ListHeld
<1>11. DrawnOnce'
  <2>1. shown' # listTwiddle' /\ Len(list'[shown'].polys) = 0
    BY <1>2, <1>3, EmptyHolds
  <2>2. /\ 1 .. Len(list'[shown'].polys) = {}
        /\ {indexlist'[i] : i \in 1 .. Len(list'[shown'].polys)} = {}
    BY <2>1
  <2>3. QED
    BY <2>1, <2>2 DEF DrawnOnce
<1>12. SequenceHeld'
  <2>1. Count' = Count /\ Corners' = Corners /\ (Strip' <=> Strip) /\ Continuation' = Continuation
    BY <1>2 DEF Count, Corners, Strip, Continuation
  <2>2. VertIndex' = VertIndex /\ \A j : Origin(j)' = Origin(j)
    BY <1>2, <1>3, <1>7, <2>1 DEF VertIndex, Origin
  <2>3. Count' < Corners'
    BY <1>1, <2>1 DEF SequenceHeld
  <2>4. CASE clean'
    <3>1. clean /\ Count = Continuation
      BY <1>2, <2>4
    <3>2. VertIndex = built.count /\ built.count <= VERTLIST_SIZE /\ VERTLIST_SIZE \in Nat /\ Count # 3
      BY <1>1, <1>4, <3>1, Waiting, PolygonsAssumption
    <3>3. ASSUME NEW j \in 1 .. Count
          PROVE  temp.map[j] \in 0 .. VertIndex - 1 /\ built'.verts[temp.map[j]] = sent[Origin(j)]
      <4>1. temp.map[j] \in 0 .. VertIndex - 1 /\ built.verts[temp.map[j]] = sent[Origin(j)]
        BY <1>1, <3>1 DEF SequenceHeld
      <4>2. temp.map[j] \in 0 .. VERTLIST_SIZE - 1 /\ temp.map[j] < built.count
        BY <1>4, <3>2, <4>1
      <4>3. QED
        BY <1>3, <1>7, <4>1, <4>2
    <3>4. /\ Continuation <= Count
          /\ ~Strip => Count = Len(sent) % Corners
          /\ Strip /\ temp.first => Count = Len(sent)
          /\ vtxFormat = GL_TRIANGLE_STRIP =>
               IF temp.first THEN triStripToggle = 0
               ELSE Count = 2 /\ Len(sent) >= 3 /\ triStripToggle = Len(sent) % 2
          /\ vtxFormat = GL_QUAD_STRIP /\ ~temp.first => Count = 2 + (Len(sent) % 2) /\ Len(sent) >= 4
      BY <1>1, <3>1 DEF SequenceHeld
    <3>5. QED
      BY <1>2, <2>1, <2>2, <2>3, <3>2, <3>3, <3>4 DEF SequenceHeld
  <2>5. CASE ~clean'
    BY <2>3, <2>5 DEF SequenceHeld
  <2>6. QED
    BY <2>4, <2>5
<1>13. PolygonsTypeOK'
  <2>1. clean' \in BOOLEAN
    <3>1. clean \in BOOLEAN
      BY <1>1 DEF PolygonsTypeOK
    <3>2. (clean /\ Count = Continuation) \in BOOLEAN
      BY <3>1
    <3>3. QED
      BY <1>2, <3>2
  <2>2. \A l \in Lists : Len(list'[l].polys) <= POLYLIST_SIZE
    BY <1>3, <1>4, <1>7, EmptyHolds, PolygonsAssumption
  <2>3. listTwiddle' \in Lists /\ shown' \in Lists
    BY <1>2 DEF Lists
  <2>4. QED
    BY <1>1, <1>2, <1>8, <2>1, <2>2, <2>3 DEF PolygonsTypeOK, ListType
<1>14. \A l \in Lists : ListHeld(l)'
  BY <1>3, <1>9, <1>10
<1>15. QED
  BY <1>11, <1>12, <1>13, <1>14 DEF PolygonsInv

\* Every step of game, engine and renderer leaves the invariant.
LEMMA PolygonsStep ==
  ASSUME PolygonsInv, [PolygonsNext]_polygonVars
  PROVE  PolygonsInv'
<1>1. CASE UNCHANGED polygonVars
  <2>1. UNCHANGED <<vtxFormat, polyAttr, polyAttrPending, triStripToggle, temp, list, listTwiddle, shown,
                    indexlist, isSwapBuffers, drawPending, flushCommand, sent, clean, born>>
    BY <1>1 DEF polygonVars, building, showing, history
  <2>2. PolygonsTypeOK'
    BY <2>1 DEF PolygonsInv, PolygonsTypeOK
  <2>3. SequenceHeld'
    BY <2>1 DEF PolygonsInv, SequenceHeld, Count, Corners, Continuation, Strip, VertIndex, Origin, built
  <2>4. QED
    BY <2>1, <2>2, <2>3, ListsStay DEF PolygonsInv
<1>2. QED
  BY <1>1, SetVertexKeeps, BeginEndKeep, CommandsKeep, SwapKeeps, DrawKeeps, LoadKeeps DEF PolygonsNext

\* The vertices of a polygon are those the game's sequence means, none is written outside its list,
\* and what is drawn is complete and has every polygon once: for every size of the lists and of
\* the index, and every sequence of vertices (SetVertex, gfx3d_doFlush).
THEOREM ListsAreComplete == PolygonsSpec => []ListsComplete
<1>1. PolygonsInit => PolygonsInv
  BY PolygonsBegin
<1>2. PolygonsInv /\ [PolygonsNext]_polygonVars => PolygonsInv'
  BY PolygonsStep
<1>3. PolygonsInv => ListsComplete
  <2> SUFFICES ASSUME PolygonsInv PROVE ListsComplete
    OBVIOUS
  <2>1. VerticesMatch
    BY DEF PolygonsInv, VerticesMatch, ListHeld, PolygonHeld
  <2>2. WritesInList
    <3>1. SUFFICES ASSUME ~Refused, ~Overlaps PROVE VertIndex \in 0 .. 4 * (Len(built.polys) + 1) - 1
      BY DEF WritesInList
    <3>2. VertIndex <= 4 * Len(built.polys) + 3 /\ VertIndex \in 0 .. VERTLIST_SIZE - 1
      BY <3>1, InList
    <3>3. Len(built.polys) \in Nat /\ VERTLIST_SIZE \in Nat
      BY BuiltPolygons, PolygonsAssumption DEF PolygonsInv
    <3>4. QED
      BY <3>2, <3>3
  <2>3. QED
    BY <2>1, <2>2 DEF PolygonsInv, ListsComplete
<1>4. QED
  BY <1>1, <1>2, <1>3, PTL DEF PolygonsSpec

\* A list for manual sorting keeps its translucent polygons as they came (gfx3d_doFlush).
THEOREM ManualOrderIsKept == PolygonsSpec => ManualOrderStays
<1>1. PolygonsInit => PolygonsInv
  BY PolygonsBegin
<1>2. PolygonsInv /\ [PolygonsNext]_polygonVars => PolygonsInv'
  BY PolygonsStep
<1>3. PolygonsInv /\ [PolygonsNext]_polygonVars => [ManualOrderKept]_polygonVars
  <2>1. PolygonsInv /\ gfx3d_VBlankSignal => ManualOrderKept
    BY SwapKeeps
  <2>2. ~gfx3d_VBlankSignal => ManualOrderKept
    BY DEF ManualOrderKept
  <2>3. QED
    BY <2>1, <2>2
<1>4. QED
  BY <1>1, <1>2, <1>3, PTL DEF PolygonsSpec, ManualOrderStays

-----------------------------------------------------------------------------
(* Sound *)

Registers ==
  [format : SoundFormats, repeat : BOOLEAN, keyon : BOOLEAN, length : Nat, loopstart : Nat,
   inc : Nat, masteren : BOOLEAN]
Channels ==
  [status : {STOPPED, PLAY}, total : Int, sampcnt : Int, last : Int, pcm : Int, loop : Int,
   touched : BOOLEAN, oversnagged : BOOLEAN, spins : BOOLEAN]

\* The decoder holds the sample it counts, which is not ahead of the position, and remembers
\* the start of the loop only when it has passed it.
Decodes(c, r) ==
  /\ c.pcm = c.last
  /\ c.last = Header \/ 2 * c.last <= c.sampcnt
  /\ c.last >= Header
  /\ c.loop = RECOVERY \/ (c.loop = 8 * r.loopstart /\ c.loop <= c.last /\ c.loop > Header)

\* A channel that plays the registers r, none of which the game has changed since its key-on.
Plays(c, r) ==
  /\ ~c.oversnagged
  /\ c.total = Halves(r.length + r.loopstart, r.format)
  /\ c.spins => r.length = 0
  /\ ~c.spins /\ r.format # "psg" => c.sampcnt <= c.total
  /\ r.format = "adpcm" => Decodes(c, r)

\* Only a channel that plays hangs.
Steady(c, r) ==
  /\ c.spins => c.status = PLAY
  /\ c.status = PLAY /\ ~c.touched => Plays(c, r)

SoundInv ==
  /\ reg \in Registers
  /\ \A s \in Mixers : chan[s] \in Channels /\ Steady(chan[s], reg)
  /\ chan = [s \in Mixers |-> chan[s]]

\* The size of a word in halves of a sample (format_shift).
LEMMA HalvesAre ==
  ASSUME NEW w \in Nat
  PROVE  /\ Halves(w, "pcm8") = 8 * w /\ Halves(w, "pcm16") = 4 * w
         /\ Halves(w, "adpcm") = 16 * w /\ Halves(w, "psg") = 2 * w
BY DEF Halves, PerWord

LEMMA HalvesNat ==
  ASSUME NEW w \in Nat, NEW f \in SoundFormats
  PROVE  Halves(w, f) \in Nat
BY HalvesAre DEF SoundFormats

\* A key-on starts a steady sound.
LEMMA KeyOnSteady ==
  ASSUME NEW r \in Registers, NEW c \in Channels, ~c.spins
  PROVE  KeyOn(c, r) \in Channels /\ Steady(KeyOn(c, r), r) /\ ~KeyOn(c, r).spins
<1> DEFINE total == Halves(r.length + r.loopstart, r.format)
<1>1. r.length + r.loopstart \in Nat /\ r.format \in SoundFormats /\ total \in Nat
  BY HalvesNat DEF Registers
<1>2. KeyOff(c) \in Channels /\ Steady(KeyOff(c), r) /\ ~KeyOff(c).spins
  BY DEF KeyOff, Silent, Channels, Steady, STOPPED, PLAY
<1> HIDE DEF total
<1>3. ASSUME r.format = "adpcm"
      PROVE  KeyOn(c, r) \in Channels /\ Steady(KeyOn(c, r), r) /\ ~KeyOn(c, r).spins
  <2> DEFINE d == [c EXCEPT !.status = PLAY, !.total = total, !.sampcnt = -6, !.touched = FALSE,
                           !.oversnagged = FALSE, !.pcm = Header, !.last = Header, !.loop = RECOVERY]
  <2>1. KeyOn(c, r) = IF total = 0 THEN KeyOff(c) ELSE d
    BY <1>3, Zenon DEF KeyOn, total
  <2>2. d \in Channels
    <3>1. total \in Int /\ -6 \in Int /\ Header \in Int /\ RECOVERY \in Int
      BY <1>1 DEF Header, RECOVERY
    <3>2. \A start \in Int :
            [c EXCEPT !.status = PLAY, !.total = total, !.sampcnt = start, !.touched = FALSE,
                      !.oversnagged = FALSE] \in Channels
      BY <3>1 DEF Channels
    <3>3. \A b \in Channels, held, loop \in Int :
            [b EXCEPT !.pcm = held, !.last = held, !.loop = loop] \in Channels
      BY DEF Channels
    <3> QED BY <3>1, <3>2, <3>3
  <2>3. /\ d.status = PLAY /\ d.total = total /\ d.sampcnt = -6 /\ ~d.oversnagged /\ ~d.spins
        /\ d.pcm = Header /\ d.last = Header /\ d.loop = RECOVERY
    BY DEF Channels
  <2> HIDE DEF d
  <2>4. Plays(d, r)
    BY <1>1, <2>3 DEF Plays, Decodes, total, Header
  <2> QED BY <1>2, <2>1, <2>2, <2>3, <2>4 DEF Steady
<1>4. ASSUME r.format # "adpcm"
      PROVE  KeyOn(c, r) \in Channels /\ Steady(KeyOn(c, r), r) /\ ~KeyOn(c, r).spins
  <2> DEFINE at == IF r.format = "psg" THEN -2 ELSE -6
             d == [c EXCEPT !.status = PLAY, !.total = total, !.sampcnt = at, !.touched = FALSE,
                            !.oversnagged = FALSE]
  <2>1. KeyOn(c, r) = IF total = 0 /\ r.format # "psg" THEN KeyOff(c) ELSE d
    BY <1>4, Zenon DEF KeyOn, total
  <2>2. d \in Channels
    <3>1. at \in Int /\ total \in Int BY <1>1
    <3> HIDE DEF at
    <3> QED BY <3>1 DEF Channels
  <2>3. /\ d.status = PLAY /\ d.total = total /\ d.sampcnt = at /\ ~d.oversnagged /\ ~d.spins
    BY DEF Channels
  <2> HIDE DEF d
  <2>4. Plays(d, r)
    BY <1>1, <1>4, <2>3 DEF Plays, total
  <2> QED BY <1>2, <2>1, <2>2, <2>3, <2>4 DEF Steady
<1> QED BY <1>3, <1>4

\* A probe of the key starts, stops or leaves a channel (KeyProbe).
LEMMA ProbeSteady ==
  ASSUME NEW r \in Registers, NEW c \in Channels, ~c.spins, Steady(c, r)
  PROVE  KeyProbe(c, r) \in Channels /\ Steady(KeyProbe(c, r), r)
BY KeyOnSteady DEF KeyProbe, KeyOff, Silent, Channels, Steady, STOPPED, PLAY

\* Fetching decodes up to the position, and snags the start of the loop at most once.
LEMMA FetchSteady ==
  ASSUME NEW r \in Registers, NEW c \in Channels, Steady(c, r), r.format = "adpcm"
  PROVE  /\ FetchADPCM(c, r) \in Channels /\ Steady(FetchADPCM(c, r), r)
         /\ FetchADPCM(c, r).spins = c.spins /\ FetchADPCM(c, r).status = c.status
         /\ FetchADPCM(c, r).touched = c.touched
<1> DEFINE now == c.sampcnt \div 2
           d == FetchADPCM(c, r)
<1>1. c.sampcnt \in Int /\ now \in Int /\ 2 * now <= c.sampcnt /\ c.sampcnt <= 2 * now + 1
  BY DEF Channels
<1>2. r.loopstart \in Nat /\ c.last \in Int /\ c.pcm \in Int /\ c.loop \in Int
  BY DEF Channels, Registers
<1>3. CASE c.sampcnt < 16 \/ c.last = now
  BY <1>3 DEF FetchADPCM, Trunc
<1>4. CASE ~(c.sampcnt < 16 \/ c.last = now)
  <2> DEFINE at == 8 * r.loopstart
             snags == at \in c.last + 1 .. now
  <2>1. d = [c EXCEPT !.pcm = IF now > c.last THEN (IF c.pcm = c.last THEN now ELSE Garbled) ELSE @,
                      !.last = now,
                      !.loop = IF ~snags THEN @ ELSE IF c.pcm = c.last THEN at ELSE Garbled,
                      !.oversnagged = @ \/ (snags /\ c.loop # RECOVERY)]
    BY <1>4 DEF FetchADPCM, Trunc
  <2>2. d \in Channels /\ d.spins = c.spins /\ d.status = c.status /\ d.touched = c.touched
    <3> DEFINE pcm == IF now > c.last THEN (IF c.pcm = c.last THEN now ELSE Garbled) ELSE c.pcm
               loop == IF ~snags THEN c.loop ELSE IF c.pcm = c.last THEN at ELSE Garbled
               over == c.oversnagged \/ (snags /\ c.loop # RECOVERY)
    <3>1. pcm \in Int /\ now \in Int /\ loop \in Int /\ over \in BOOLEAN
      BY <1>1, <1>2 DEF Garbled, Channels
    <3>2. d = [c EXCEPT !.pcm = pcm, !.last = now, !.loop = loop, !.oversnagged = over]
      BY <2>1
    <3> HIDE DEF pcm, now, loop, over, d
    <3> QED BY <3>1, <3>2 DEF Channels
  <2>3. ASSUME c.status = PLAY, ~c.touched
        PROVE  Plays(d, r)
    <3>1. Plays(c, r) /\ Decodes(c, r) BY <2>3 DEF Steady, Plays
    <3>2. now >= 8 BY <1>1, <1>4
    <3>3. now > c.last BY <1>1, <1>2, <1>4, <3>1, <3>2 DEF Decodes, Header
    <3>4. snags => c.loop = RECOVERY BY <3>1, <1>1, <1>2 DEF Decodes
    <3>5. d.pcm = now /\ d.last = now /\ d.sampcnt = c.sampcnt /\ d.total = c.total
      BY <2>1, <3>1, <3>3 DEF Channels, Decodes
    <3>6. d.loop = IF snags THEN at ELSE c.loop
      BY <2>1, <3>1 DEF Channels, Decodes
    <3>7. d.oversnagged = c.oversnagged
      BY <2>1, <3>4 DEF Channels
    <3>8. Decodes(d, r)
      BY <3>1, <3>2, <3>3, <3>5, <3>6, <1>1, <1>2 DEF Decodes, Header
    <3> QED BY <3>1, <3>5, <3>7, <3>8, <2>2 DEF Plays
  <2> QED BY <2>2, <2>3 DEF Steady
<1> QED BY <1>3, <1>4

\* The loop ends inside the part that repeats, or the part is empty (TestForLoop).
LEMMA LoopedInside ==
  ASSUME NEW r \in Registers, NEW c \in Channels, c.sampcnt > c.total
  PROVE  LET d == Looped(c, r) IN
         /\ d \in Channels
         /\ d = [c EXCEPT !.spins = d.spins, !.sampcnt = d.sampcnt]
         /\ c.spins => d.spins
         /\ d.spins => (c.spins \/ Loop(c, r) <= 0) /\ (~c.spins => d.sampcnt = c.sampcnt)
         /\ ~d.spins => d.sampcnt <= c.total /\ d.sampcnt > c.total - Loop(c, r)
<1> DEFINE part == Loop(c, r)
           rest == (c.sampcnt - c.total - 1) % part
<1>1. part \in Int
  BY HalvesNat DEF Loop, Registers, Channels
<1>2. c.sampcnt - c.total - 1 \in Nat
  BY DEF Channels
<1>3. CASE part <= 0
  <2>1. Looped(c, r) = [c EXCEPT !.spins = TRUE] BY <1>3 DEF Looped
  <2> QED BY <2>1, <1>3 DEF Channels
<1>4. CASE part > 0
  <2>1. rest \in 0 .. part - 1
    <3>1. \A a \in Nat, b \in Nat \ {0} : a % b \in 0 .. b - 1 OBVIOUS
    <3> QED BY <3>1, <1>1, <1>2, <1>4
  <2> HIDE DEF rest
  <2>2. Looped(c, r) = [c EXCEPT !.sampcnt = c.total - part + 1 + rest]
    BY <1>4, <1>1 DEF Looped, rest
  <2> DEFINE d == Looped(c, r)
  <2>3. rest \in Int /\ c.total \in Int /\ c.total - part + 1 + rest \in Int
    BY <2>1, <1>1 DEF Channels
  <2>4. d \in Channels /\ d.spins = c.spins /\ d.sampcnt = c.total - part + 1 + rest
    BY <2>2, <2>3 DEF Channels
  <2>5. d = [c EXCEPT !.spins = d.spins, !.sampcnt = d.sampcnt]
    BY <2>2, <2>4 DEF Channels
  <2>6. d.sampcnt <= c.total /\ d.sampcnt > c.total - part
    BY <2>1, <2>3, <2>4, <1>1
  <2> QED BY <2>4, <2>5, <2>6
<1> QED BY <1>1, <1>3, <1>4

\* One more sample: a sound that is over ends or goes on where its loop starts, with the decoder
\* as it was there (TestForLoop, TestForLoop2).
LEMMA LoopSteady ==
  ASSUME NEW r \in Registers, NEW c \in Channels, Steady(c, r), c.status = PLAY, ~c.spins
  PROVE  TestForLoop(c, r) \in Channels /\ Steady(TestForLoop(c, r), r)
<1> DEFINE next == [c EXCEPT !.sampcnt = @ + r.inc]
           t == TestForLoop(c, r)
           looped == Looped(next, r)
<1>1. /\ c.sampcnt \in Int /\ r.inc \in Nat /\ r.loopstart \in Nat /\ c.total \in Int /\ c.last \in Int
      /\ c.pcm \in Int /\ c.loop \in Int /\ r.length \in Nat /\ r.format \in SoundFormats
  BY DEF Channels, Registers
<1>2. /\ next \in Channels /\ next.sampcnt = c.sampcnt + r.inc /\ next.status = PLAY /\ ~next.spins
      /\ next.total = c.total /\ next.touched = c.touched /\ next.oversnagged = c.oversnagged
      /\ next.pcm = c.pcm /\ next.last = c.last /\ next.loop = c.loop
  BY <1>1 DEF Channels
<1> HIDE DEF next
<1>3. CASE r.format = "psg"
  <2>1. \A at \in Int :
          LET d == [next EXCEPT !.sampcnt = at] IN
          /\ d \in Channels /\ d.status = PLAY /\ ~d.spins /\ d.oversnagged = c.oversnagged
          /\ d.total = c.total /\ d.touched = c.touched
    BY <1>2 DEF Channels
  <2>2. \E at \in Int : t = [next EXCEPT !.sampcnt = at]
    <3>1. t = [next EXCEPT !.sampcnt = IF @ > MaxPsg THEN MaxPsg ELSE @]
      BY <1>3, Zenon DEF TestForLoop, next
    <3>2. t = [next EXCEPT !.sampcnt = IF next.sampcnt > MaxPsg THEN MaxPsg ELSE next.sampcnt]
      BY <3>1, <1>2 DEF Channels
    <3>3. (IF next.sampcnt > MaxPsg THEN MaxPsg ELSE next.sampcnt) \in Int
      BY <1>1, <1>2, SoundsAssumption
    <3> QED BY <3>2, <3>3
  <2> QED BY <2>1, <2>2, <1>3 DEF Steady, Plays
<1>4. CASE r.format # "psg" /\ ~(next.sampcnt > next.total)
  <2>1. t = next BY <1>4 DEF TestForLoop, next
  <2>2. ASSUME ~c.touched PROVE Plays(next, r)
    BY <2>2, <1>1, <1>2, <1>4 DEF Steady, Plays, Decodes
  <2> QED BY <2>1, <2>2, <1>2 DEF Steady
<1>5. CASE r.format # "psg" /\ next.sampcnt > next.total /\ ~r.repeat
  <2>1. t = Silent BY <1>5 DEF TestForLoop, KeyOff, next
  <2> QED BY <2>1 DEF Silent, Channels, Steady, STOPPED, PLAY
<1>6. CASE r.format # "psg" /\ next.sampcnt > next.total /\ r.repeat
  <2>1. /\ looped \in Channels
        /\ looped = [next EXCEPT !.spins = looped.spins, !.sampcnt = looped.sampcnt]
        /\ looped.spins => Loop(next, r) <= 0 /\ looped.sampcnt = next.sampcnt
        /\ ~looped.spins => looped.sampcnt <= next.total /\ looped.sampcnt > next.total - Loop(next, r)
    BY <1>2, <1>6, LoopedInside
  <2> HIDE DEF looped
  <2>2. /\ looped.status = PLAY /\ looped.total = c.total /\ looped.touched = c.touched
        /\ looped.oversnagged = c.oversnagged /\ looped.pcm = c.pcm /\ looped.last = c.last
        /\ looped.loop = c.loop /\ looped.sampcnt \in Int
    BY <2>1, <1>2 DEF Channels
  <2>3. t = IF looped.spins \/ r.format # "adpcm" THEN looped ELSE Rewound(looped, r)
    BY <1>6, Zenon DEF TestForLoop, next, looped
  <2>4. ASSUME ~c.touched
        PROVE  /\ Loop(next, r) = c.total - Halves(r.loopstart, r.format)
               /\ Loop(next, r) <= 0 => r.length = 0
               /\ c.total = Halves(r.length + r.loopstart, r.format)
    <3>1. c.total = Halves(r.length + r.loopstart, r.format)
      BY <2>4 DEF Steady, Plays
    <3>2. r.length + r.loopstart \in Nat BY <1>1
    <3>3. Loop(next, r) = c.total - Halves(r.loopstart, r.format)
      BY <1>2 DEF Loop
    <3> QED BY <3>1, <3>2, <3>3, <1>1, HalvesAre DEF SoundFormats
  <2>5. CASE looped.spins \/ r.format # "adpcm"
    <3>1. ASSUME ~c.touched PROVE Plays(looped, r)
      <4>1. Plays(c, r) BY <3>1 DEF Steady
      <4>2. r.format = "adpcm" => Decodes(looped, r)
        BY <2>1, <2>2, <2>5, <1>1, <1>2, <4>1 DEF Plays, Decodes
      <4> QED BY <2>1, <2>2, <2>4, <3>1, <4>1, <4>2, <1>2 DEF Plays
    <3> QED BY <2>1, <2>2, <2>3, <2>5, <3>1 DEF Steady
  <2>6. CASE ~looped.spins /\ r.format = "adpcm"
    <3> DEFINE d == Rewound(looped, r)
    <3>1. /\ d \in Channels /\ d.status = PLAY /\ ~d.spins /\ d.total = c.total /\ d.touched = c.touched
          /\ d.oversnagged = c.oversnagged /\ d.sampcnt = looped.sampcnt /\ d.loop = c.loop
          /\ d.pcm = IF c.loop = RECOVERY THEN Header ELSE c.loop
          /\ d.last = IF c.loop = RECOVERY THEN Header ELSE 8 * r.loopstart
      <4>1. CASE c.loop = RECOVERY
        <5>1. d = [looped EXCEPT !.pcm = Header, !.last = Header]
          BY <2>2, <4>1 DEF Rewound
        <5>2. Header \in Int BY DEF Header
        <5> QED BY <2>1, <2>2, <2>6, <4>1, <5>1, <5>2 DEF Channels
      <4>2. CASE c.loop # RECOVERY
        <5>1. d = [looped EXCEPT !.pcm = c.loop, !.last = 8 * r.loopstart]
          BY <2>2, <4>2 DEF Rewound
        <5>2. c.loop \in Int /\ 8 * r.loopstart \in Int BY <1>1
        <5> QED BY <2>1, <2>2, <2>6, <4>2, <5>1, <5>2 DEF Channels
      <4> QED BY <4>1, <4>2
    <3> HIDE DEF d
    <3>2. ASSUME ~c.touched PROVE Plays(d, r)
      <4>1. Plays(c, r) /\ Decodes(c, r) BY <3>2, <2>6 DEF Steady, Plays
      <4>2. looped.sampcnt > 16 * r.loopstart /\ looped.sampcnt <= c.total
        BY <2>1, <2>2, <2>4, <2>6, <3>2, <1>1, <1>2, HalvesAre
      <4>3. Decodes(d, r)
        BY <3>1, <4>1, <4>2, <1>1, <2>2 DEF Decodes, Header, RECOVERY
      <4> QED BY <3>1, <4>1, <4>2, <4>3, <2>4 DEF Plays
    <3> QED BY <2>3, <2>6, <3>1, <3>2 DEF Steady, d
  <2> QED BY <2>5, <2>6
<1> QED BY <1>3, <1>4, <1>5, <1>6

\* Either mixer, one sample (_SPU_ChanUpdate).
LEMMA UpdateSteady ==
  ASSUME NEW s \in Mixers, NEW r \in Registers, NEW c \in Channels, Steady(c, r)
  PROVE  ChanUpdate(s, c, r) \in Channels /\ Steady(ChanUpdate(s, c, r), r)
<1>1. CASE c.status = STOPPED \/ c.spins
  BY <1>1 DEF ChanUpdate
<1>2. CASE c.status = PLAY /\ ~c.spins
  <2> DEFINE d == IF s = "user" /\ r.format = "adpcm" THEN FetchADPCM(c, r) ELSE c
  <2>1. d \in Channels /\ Steady(d, r) /\ d.status = PLAY /\ ~d.spins
    BY <1>2, FetchSteady
  <2>2. ChanUpdate(s, c, r) = TestForLoop(d, r)
    BY <1>2, Zenon DEF ChanUpdate, STOPPED, PLAY
  <2> HIDE DEF d
  <2> QED BY <2>1, <2>2, LoopSteady
<1> QED BY <1>1, <1>2 DEF Channels

\* A set of numbers that is not empty has a least element.
LEMMA LeastElement ==
  ASSUME NEW S, S \subseteq Nat, S # {}
  PROVE  \E m \in S : \A k \in S : m <= k
<1>1. PICK m \in S : \A k \in S : <<k, m>> \notin OpToRel(<, Nat)
  BY WFMin, NatLessThanWellFounded, Zenon
<1>2. \A k \in S : ~(k < m) BY <1>1, Zenon DEF OpToRel
<1>3. \A k \in S : m <= k BY <1>2
<1> QED BY <1>3

\* Any number of samples (SPU_MixAudio).  The function that counts them exists and stays steady:
\* the first count of which one or the other fails would have a predecessor.
LEMMA MixSteady ==
  ASSUME SoundInv, NEW s \in Mixers, NEW n \in Nat, MixAudio(s, n)
  PROVE  SoundInv'
<1> DEFINE Good == {c \in Channels : Steady(c, reg)}
           At(g, i) == IF i = 0 THEN chan[s] ELSE ChanUpdate(s, g[i - 1], reg)
           F(g) == [i \in 0 .. n |-> At(g, i)]
           after == CHOOSE g : g = F(g)
           Runs(g, m) == g \in [0 .. m -> Good] /\ \A i \in 0 .. m : g[i] = At(g, i)
<1>1. chan' = [chan EXCEPT ![s] = after[n]] /\ reg' = reg
  BY Zenon DEF MixAudio
<1>2. reg \in Registers /\ chan[s] \in Good
  BY DEF SoundInv
<1>3. \A c \in Good : ChanUpdate(s, c, reg) \in Good
  BY <1>2, UpdateSteady
<1> HIDE DEF Good
<1>4. \A m \in 0 .. n : \E g : Runs(g, m)
  <2> DEFINE Fails(m) == ~ \E g : Runs(g, m)
             Bad == {m \in 0 .. n : Fails(m)}
  <2>0. Bad \subseteq Nat /\ \A m : m \in Bad <=> m \in 0 .. n /\ Fails(m)
    <3> HIDE DEF Fails
    <3> QED OBVIOUS
  <2> HIDE DEF Bad
  <2>1. ASSUME Bad # {} PROVE FALSE
    <3>1. PICK m \in Bad : \A k \in Bad : m <= k
      <4> HIDE DEF Fails
      <4> QED BY <2>0, <2>1, LeastElement
    <3>2. CASE m = 0
      <4>1. Runs([i \in 0 .. 0 |-> chan[s]], 0) BY <1>2
      <4> QED BY <2>0, <3>1, <3>2, <4>1
    <3>3. CASE m # 0
      <4>1. m \in 0 .. n /\ m - 1 \in 0 .. n /\ m - 1 \notin Bad
        <5> HIDE DEF Fails
        <5> QED BY <2>0, <3>1, <3>3
      <4>2. PICK g : Runs(g, m - 1)
        <5>1. ~Fails(m - 1)
          <6> HIDE DEF Fails
          <6> QED BY <2>0, <4>1
        <5> QED BY <5>1
      <4> DEFINE h == [i \in 0 .. m |-> IF i = m THEN ChanUpdate(s, g[m - 1], reg) ELSE g[i]]
      <4>3. h \in [0 .. m -> Good] BY <4>1, <4>2, <1>3, <3>3
      <4>4. \A i \in 0 .. m : h[i] = At(h, i) BY <4>1, <4>2, <3>3
      <4>5. Runs(h, m) BY <4>3, <4>4
      <4> QED BY <2>0, <3>1, <4>5
    <3> QED BY <3>2, <3>3
  <2> QED BY <2>0, <2>1
<1>5. PICK g : Runs(g, n) BY <1>4
<1>6. g = F(g) BY <1>5
<1>7. after = F(after)
  <2> HIDE DEF F
  <2> QED BY <1>6, Zenon
<1> HIDE DEF after
<1>8. \A i \in 0 .. n : after[i] \in Good
  <2> DEFINE Bad == {i \in 0 .. n : after[i] \notin Good}
  <2>0. Bad \subseteq Nat /\ \A i : i \in Bad <=> i \in 0 .. n /\ after[i] \notin Good
    OBVIOUS
  <2> HIDE DEF Bad
  <2>1. ASSUME Bad # {} PROVE FALSE
    <3>1. PICK m \in Bad : \A k \in Bad : m <= k
      BY <2>0, <2>1, LeastElement
    <3>2. m \in 0 .. n /\ after[m] \notin Good
      BY <2>0, <3>1
    <3>3. after[m] = At(after, m)
      BY <1>7, <3>2
    <3>4. CASE m = 0
      BY <3>2, <3>3, <3>4, <1>2
    <3>5. CASE m # 0
      <4>1. m - 1 \in 0 .. n /\ m - 1 \notin Bad
        BY <2>0, <3>1, <3>2, <3>5
      <4>2. after[m - 1] \in Good
        BY <2>0, <4>1
      <4> QED BY <3>2, <3>3, <3>5, <4>2, <1>3
    <3> QED BY <3>4, <3>5
  <2> QED BY <2>0, <2>1
<1>9. after[n] \in Good BY <1>8
<1> QED BY <1>1, <1>2, <1>9 DEF SoundInv, Good

\* Every register write, every sample of a mixer, a savestate and a reset keep the sounds steady.
LEMMA SoundStep ==
  ASSUME SoundInv, [SoundNext]_soundVars
  PROVE  SoundInv'
<1> USE DEF SoundInv
<1>1. ASSUME \A m \in Mixers : ~chan[m].spins, WriteSound PROVE SoundInv'
  <2>1. PICK sound \in Sounds, repeat \in BOOLEAN, keyon \in BOOLEAN :
          /\ reg' = [format |-> sound.format, length |-> sound.length, loopstart |-> sound.loopstart,
                     inc |-> sound.inc, repeat |-> repeat, keyon |-> keyon, masteren |-> reg.masteren]
          /\ chan' = [s \in Mixers |-> KeyProbe(IF Disturbs(sound) THEN Touch(chan[s]) ELSE chan[s], reg')]
    BY <1>1, Zenon DEF WriteSound
  <2>2. reg' \in Registers
    BY <2>1, SoundsAssumption DEF Registers
  <2>3. reg'.format = sound.format /\ reg'.length = sound.length /\ reg'.loopstart = sound.loopstart
    BY <2>1
  <2>4. ASSUME NEW s \in Mixers
        PROVE  LET c == IF Disturbs(sound) THEN Touch(chan[s]) ELSE chan[s] IN
               c \in Channels /\ ~c.spins /\ Steady(c, reg')
    <3>1. Garbled \in Int BY DEF Garbled
    <3>2. /\ Touch(chan[s]) \in Channels /\ ~Touch(chan[s]).spins
          /\ Touch(chan[s]).status = PLAY => Touch(chan[s]).touched
      BY <1>1, <3>1 DEF Touch, Channels
    <3>3. ~Disturbs(sound) => Steady(chan[s], reg')
      BY <1>1, <2>3 DEF Disturbs, Steady, Plays, Decodes
    <3> QED BY <1>1, <3>2, <3>3 DEF Steady
  <2> QED BY <2>1, <2>2, <2>4, ProbeSteady
<1>2. ASSUME \A m \in Mixers : ~chan[m].spins, WriteCnt \/ WriteMaster PROVE SoundInv'
  <2>1. /\ reg' \in Registers
        /\ reg'.format = reg.format /\ reg'.length = reg.length /\ reg'.loopstart = reg.loopstart
    BY <1>2 DEF WriteCnt, WriteMaster, Registers
  <2>2. chan' = [s \in Mixers |-> KeyProbe(chan[s], reg')]
    BY <1>2, Zenon DEF WriteCnt, WriteMaster
  <2>3. \A s \in Mixers : Steady(chan[s], reg')
    BY <1>2, <2>1 DEF Steady, Plays, Decodes
  <2> QED BY <1>2, <2>1, <2>2, <2>3, ProbeSteady
<1>3. CASE SPU_Emulate_core
  BY <1>3, MixSteady, SoundsAssumption DEF SPU_Emulate_core, Mixers
<1>4. CASE SPU_Emulate_user
  BY <1>4, MixSteady, SoundsAssumption DEF SPU_Emulate_user, Mixers
<1>5. CASE spu_loadstate
  <2> DEFINE c == chan["core"]
             d == Resumed(c, reg)
             total == Halves(reg.length + reg.loopstart, reg.format)
  <2>1. "core" \in Mixers /\ c \in Channels /\ Steady(c, reg) /\ ~c.spins
    BY <1>5 DEF spu_loadstate, Mixers
  <2>2. total \in Int /\ RECOVERY \in Int
    <3>1. reg.length + reg.loopstart \in Nat /\ reg.format \in SoundFormats
      BY DEF Registers
    <3> QED BY <3>1, HalvesNat DEF RECOVERY
  <2>3. d = [c EXCEPT !.total = total, !.loop = RECOVERY]
    BY DEF Resumed
  <2>4. chan' = [s \in Mixers |-> d] /\ reg' = reg
    BY <1>5 DEF spu_loadstate
  <2> HIDE DEF total, c, d
  <2>5. /\ d \in Channels /\ d.status = c.status /\ d.touched = c.touched /\ ~d.spins /\ d.pcm = c.pcm
        /\ d.last = c.last /\ d.sampcnt = c.sampcnt /\ d.oversnagged = c.oversnagged
        /\ d.total = total /\ d.loop = RECOVERY
    BY <2>1, <2>2, <2>3 DEF Channels
  <2>6. Steady(d, reg)
    BY <2>1, <2>5 DEF Steady, Plays, Decodes, total
  <2> QED BY <2>4, <2>5, <2>6
<1>6. CASE SPU_Reset
  BY <1>6 DEF SPU_Reset, SilentRegisters, Registers, SoundFormats, Silent, Channels, Steady, STOPPED, PLAY
<1>7. CASE UNCHANGED soundVars
  BY <1>7 DEF soundVars
<1> QED BY <1>1, <1>2, <1>3, <1>4, <1>5, <1>6, <1>7 DEF SoundNext, Writes

\* For all sounds, whatever the game writes while they play and however the two mixers advance:
\* ADPCM is decoded in order, loops included.
THEOREM SoundIsRight == SoundSpec => []SoundRight
<1>1. SoundInit => SoundInv
  BY DEF SoundInit, SoundInv, SilentRegisters, Registers, SoundFormats, Silent, Channels, Steady, STOPPED, PLAY
<1>2. SoundInv /\ [SoundNext]_soundVars => SoundInv'
  BY SoundStep
<1>3. SoundInv => SoundRight
  BY DEF SoundInv, SoundRight, DecodedInOrder, SnagsOnce, StaysInSound, HangsOnlyWithoutLoop, Undisturbed,
         Steady, Plays, Decodes
<1> QED BY <1>1, <1>2, <1>3, PTL DEF SoundSpec


-----------------------------------------------------------------------------
(* Geometry commands: invariant *)

\* The index of a handler that has j of its parameters; three columns leave out every fourth.
At(c, j) ==
  CASE c \in {"load4x3", "mult4x3", "mult3x3"} -> j + (j \div 3)
    [] c = "shininess" -> 4 * j
    [] c \in {"boxtest", "postest"} -> 2 * j
    [] OTHER -> j

\* The engine has j parameters of command c and is at the start of every other one.
EngineAt(e, interrupted, c, j) ==
  /\ DOMAIN e = {"ind", "tb", "tr", "placed", "whole"}
  /\ e.ind \in [Collecting -> 0 .. 127]
  /\ \A d \in Collecting : \/ e.ind[d] = IF d = c THEN At(c, j) ELSE 0
                           \/ d = "shininess" /\ interrupted
  /\ e.tb \in BOOLEAN /\ (e.tb <=> c \in {"boxtest", "postest"} /\ j > 0)
  /\ e.tr \in BOOLEAN
  /\ e.placed = IF c \in Matrices THEN {At(c, i) : i \in 0 .. j - 1} ELSE {}
  /\ e.whole \in BOOLEAN /\ e.whole
Idle(e, interrupted) == EngineAt(e, interrupted, "nop", 0)

Meaningful == {c \in Commands : Known(c)}

Items(commands) == [i \in 1 .. Len(commands) |-> Item(commands[i])]

\* What the unpacker keeps of a command that is owed k parameters, and of those behind it.
Stored(c, k, rest) == <<[command |-> c, countdown |-> k]>> \o Items(rest)

\* k parameters of c are owed, and the commands of "rest" wait behind it.
Lacking(p, e, d, interrupted, c, k, rest) ==
  /\ ~NeedsNone(c) /\ k <= commandTypes[c]
  /\ Len(rest) <= 3
  /\ \/ p = <<>> /\ rest = <<>>
     \/ p = Stored(c, k, rest)
  /\ d = Copies(c, k) \o Expand(rest)
  /\ EngineAt(e, interrupted, c, commandTypes[c] - k)

Fitting(p, e, d, ordered, beyond, interrupted) ==
  /\ p \in Seq([command : Commands, countdown : 0 .. 32]) /\ Len(p) <= 4
  /\ d \in Seq(Commands)
  /\ ordered \in BOOLEAN /\ beyond \in BOOLEAN /\ interrupted \in BOOLEAN
  /\ \/ p = <<>> /\ d = <<>> /\ Idle(e, interrupted) /\ (ordered \/ beyond)
     \/ /\ ~beyond /\ ordered
        /\ \E c \in Meaningful, k \in 1 .. 32, rest \in Seq(Meaningful) :
              Lacking(p, e, d, interrupted, c, k, rest)
CommandsInv == Fitting(pending, engine, due, inOrder, stray, cut)

-----------------------------------------------------------------------------
(* Geometry commands: the handlers *)

\* What gfx3d_commandTypes says, of each command and of those that collect.
LEMMA Counted ==
  /\ \A c \in Meaningful : commandTypes[c] \in 0 .. 32 /\ c \in Commands
  /\ Collecting \subseteq Meaningful /\ Matrices \subseteq Collecting
  /\ commandTypes["load4x4"] = 16 /\ commandTypes["load4x3"] = 12
  /\ commandTypes["mult4x4"] = 16 /\ commandTypes["mult4x3"] = 12
  /\ commandTypes["mult3x3"] = 9 /\ commandTypes["scale"] = 3 /\ commandTypes["translate"] = 3
  /\ commandTypes["vertex16"] = 2 /\ commandTypes["shininess"] = 32
  /\ commandTypes["boxtest"] = 3 /\ commandTypes["postest"] = 2
  /\ \A c \in Meaningful \ Collecting : commandTypes[c] \in {0, 1}
<1>1. Commands = {"nop", "unused", "mode", "push", "pop", "store", "restore", "identity", "load4x4", "load4x3",
                  "mult4x4", "mult4x3", "mult3x3", "scale", "translate", "color", "normal", "texcoord",
                  "vertex16", "vertex10", "vertexXY", "vertexXZ", "vertexYZ", "vertexRel", "polyattr",
                  "teximage", "texpalette", "material0", "material1", "lightvector", "lightcolor",
                  "shininess", "begin", "end", "swap", "viewport", "boxtest", "postest", "vectest"}
  BY DEF Commands, commandTypes
<1>2. /\ commandTypes["load4x4"] = 16 /\ commandTypes["load4x3"] = 12
      /\ commandTypes["mult4x4"] = 16 /\ commandTypes["mult4x3"] = 12
      /\ commandTypes["mult3x3"] = 9 /\ commandTypes["scale"] = 3 /\ commandTypes["translate"] = 3
      /\ commandTypes["vertex16"] = 2 /\ commandTypes["shininess"] = 32
      /\ commandTypes["boxtest"] = 3 /\ commandTypes["postest"] = 2
      /\ commandTypes["nop"] = 255 /\ commandTypes["unused"] = 204
  BY DEF commandTypes, INVALID, UNDEFINED
<1>3. \A c \in Commands \ (Collecting \cup {"nop", "unused"}) : commandTypes[c] \in {0, 1}
  BY <1>1 DEF Collecting, commandTypes, NOARG
<1>4. Meaningful \subseteq Commands \ {"nop", "unused"}
  BY <1>2 DEF Meaningful, Known, INVALID, UNDEFINED
<1>5. Collecting \subseteq Commands /\ Matrices \subseteq Collecting
  BY <1>1 DEF Collecting, Matrices
<1>6. \A c \in Collecting : commandTypes[c] \in 0 .. 32
  BY <1>2 DEF Collecting
<1>7. \A c \in Meaningful : commandTypes[c] \in 0 .. 32 /\ c \in Commands
  BY <1>3, <1>4, <1>6
<1>8. Collecting \subseteq Meaningful
  BY <1>5, <1>6 DEF Meaningful, Known, INVALID, UNDEFINED
<1>9. \A c \in Meaningful \ Collecting : commandTypes[c] \in {0, 1}
  BY <1>3, <1>4
<1>10. QED
  BY <1>2, <1>5, <1>7, <1>8, <1>9

\* A command with a meaning has a number of parameters.
LEMMA CountRange ==
  ASSUME NEW c \in Meaningful
  PROVE  commandTypes[c] \in 0 .. 32 /\ c \in Commands
BY Counted

\* The index of a three-column matrix passes over the fourth column.
LEMMA ThreeColumns ==
  \A j \in 0 .. 11 : /\ j + (j \div 3) \in 0 .. 14
                     /\ NextElement(j + (j \div 3)) = IF j = 11 THEN 16 ELSE (j + 1) + ((j + 1) \div 3)
                     /\ j < 8 => (j + 1) + ((j + 1) \div 3) < 12
                     /\ j = 8 => (j + 1) + ((j + 1) \div 3) = 12
                     /\ j < 11 => (j + 1) + ((j + 1) \div 3) < 16
BY DEF NextElement

\* A handler's index moves on, and is at its start again after the last parameter.
LEMMA Advances ==
  ASSUME NEW c \in Collecting, NEW j \in 0 .. commandTypes[c] - 1
  PROVE  /\ At(c, j) \in 0 .. 127
         /\ Advance(c, At(c, j)) = IF j + 1 < commandTypes[c] THEN At(c, j + 1) ELSE 0
         /\ At(c, 0) = 0
         /\ c \in Matrices => At(c, j) \in 0 .. 15
         /\ j + 1 < commandTypes[c] => At(c, j + 1) > 0
<1>0. commandTypes[c] \in 0 .. 32 /\ j \in Nat
  BY Counted
<1>1. CASE c \in {"load4x4", "mult4x4"}
  BY <1>0, <1>1, Counted DEF At, Advance, Matrices
<1>2. CASE c \in {"load4x3", "mult4x3"}
  <2>1. commandTypes[c] = 12 /\ j \in 0 .. 11 /\ j + 1 \in Nat
    BY <1>0, <1>2, Counted
  <2>2. \A k \in Nat : At(c, k) = k + (k \div 3)
    BY <1>2 DEF At
  <2>3. \A k \in Int : Advance(c, k) = NextElement(k) % 16
    BY <1>2 DEF Advance
  <2>4. Advance(c, At(c, j)) = IF j + 1 < 12 THEN At(c, j + 1) ELSE 0
    <3>1. CASE j = 11
      BY <2>1, <2>2, <2>3, <3>1, ThreeColumns
    <3>2. CASE j < 11
      <4>1. (j + 1) + ((j + 1) \div 3) \in 0 .. 15
        BY <2>1, <3>2, ThreeColumns
      <4>0. At(c, j + 1) = (j + 1) + ((j + 1) \div 3)
        BY <2>1, <2>2
      <4>2. At(c, j) = j + (j \div 3) /\ j + (j \div 3) \in Int
        BY <1>0, <2>2
      <4>5. NextElement(At(c, j)) = At(c, j + 1)
        BY <2>1, <3>2, <4>0, <4>2, ThreeColumns
      <4>6. Advance(c, At(c, j)) = At(c, j + 1) % 16
        BY <2>3, <4>2, <4>5
      <4>3. \A x \in 0 .. 15 : x % 16 = x
        OBVIOUS
      <4>4. QED
        BY <2>1, <3>2, <4>0, <4>1, <4>3, <4>6
    <3>3. QED
      BY <2>1, <3>1, <3>2
  <2>5. QED
    BY <2>1, <2>2, <2>4, ThreeColumns
<1>3. CASE c = "mult3x3"
  <2>1. commandTypes[c] = 9 /\ j \in 0 .. 8 /\ j + 1 \in Nat
    BY <1>0, <1>3, Counted
  <2>2. \A k \in Nat : At(c, k) = k + (k \div 3)
    BY <1>3 DEF At
  <2>3. \A k \in Int : Advance(c, k) = NextElement(k) % 12
    BY <1>3 DEF Advance
  <2>4. Advance(c, At(c, j)) = IF j + 1 < 9 THEN At(c, j + 1) ELSE 0
    <3>1. CASE j = 8
      BY <2>1, <2>2, <2>3, <3>1, ThreeColumns
    <3>2. CASE j < 8
      <4>1. (j + 1) + ((j + 1) \div 3) \in 0 .. 11
        BY <2>1, <3>2, ThreeColumns
      <4>0. At(c, j + 1) = (j + 1) + ((j + 1) \div 3)
        BY <2>1, <2>2
      <4>2. At(c, j) = j + (j \div 3) /\ j + (j \div 3) \in Int
        BY <1>0, <2>2
      <4>5. NextElement(At(c, j)) = At(c, j + 1)
        BY <2>1, <3>2, <4>0, <4>2, ThreeColumns
      <4>6. Advance(c, At(c, j)) = At(c, j + 1) % 12
        BY <2>3, <4>2, <4>5
      <4>3. \A x \in 0 .. 11 : x % 12 = x
        OBVIOUS
      <4>4. QED
        BY <2>1, <3>2, <4>0, <4>1, <4>3, <4>6
    <3>3. QED
      BY <2>1, <3>1, <3>2
  <2>5. QED
    BY <2>1, <2>2, <2>4, ThreeColumns
<1>4. CASE c \in {"scale", "translate"}
  BY <1>0, <1>4, Counted DEF At, Advance, Matrices
<1>5. CASE c = "vertex16"
  BY <1>0, <1>5, Counted DEF At, Advance, Matrices, gfx3d_glVertex16b
<1>6. CASE c = "shininess"
  BY <1>0, <1>6, Counted DEF At, Advance, Matrices, gfx3d_glShininess
<1>7. CASE c \in {"boxtest", "postest"}
  BY <1>0, <1>7, Counted DEF At, Advance, Matrices
<1>8. QED
  BY <1>1, <1>2, <1>3, <1>4, <1>5, <1>6, <1>7 DEF Collecting

\* The parameters of a matrix and what is filled in are all its elements.
LEMMA Filled ==
  ASSUME NEW c \in Matrices
  PROVE  {At(c, i) : i \in 0 .. commandTypes[c] - 1} \cup FilledIn(c) = 0 .. 15
<1>1. CASE c \in {"load4x4", "mult4x4"}
  <2>1. \A i \in 0 .. 15 : At(c, i) = i
    BY <1>1 DEF At
  <2>2. FilledIn(c) = {} /\ commandTypes[c] - 1 = 15
    BY <1>1, Counted DEF FilledIn
  <2>3. QED
    BY <2>1, <2>2
<1>2. CASE c \in {"load4x3", "mult4x3"}
  <2>1. \A x \in 0 .. 15 : \/ x \in {3, 7, 11, 15}
                           \/ /\ x - (x \div 4) \in 0 .. 11
                              /\ x = (x - (x \div 4)) + ((x - (x \div 4)) \div 3)
    OBVIOUS
  <2>2. \A i \in 0 .. 11 : At(c, i) = i + (i \div 3) /\ At(c, i) \in 0 .. 15
    BY <1>2, ThreeColumns DEF At
  <2>3. FilledIn(c) = {3, 7, 11, 15} /\ commandTypes[c] - 1 = 11
    BY <1>2, Counted DEF FilledIn
  <2>4. QED
    BY <2>1, <2>2, <2>3
<1>3. CASE c = "mult3x3"
  <2>1. \A x \in 0 .. 15 : \/ x \in {3, 7, 11, 15, 12, 13, 14}
                           \/ /\ x - (x \div 4) \in 0 .. 8
                              /\ x = (x - (x \div 4)) + ((x - (x \div 4)) \div 3)
    OBVIOUS
  <2>2. \A i \in 0 .. 8 : At(c, i) = i + (i \div 3) /\ At(c, i) \in 0 .. 15
    BY <1>3, ThreeColumns DEF At
  <2>3. FilledIn(c) = {3, 7, 11, 15, 12, 13, 14} /\ commandTypes[c] - 1 = 8
    BY <1>3, Counted DEF FilledIn
  <2>4. QED
    BY <2>1, <2>2, <2>3
<1>4. QED
  BY <1>1, <1>2, <1>3 DEF Matrices

\* Executing a command that collects takes one parameter, and the engine is idle after the last.
LEMMA Collected ==
  ASSUME NEW e, NEW b \in BOOLEAN, NEW c \in Collecting, NEW j \in 0 .. commandTypes[c] - 1,
         EngineAt(e, b, c, j)
  PROVE  IF j + 1 < commandTypes[c] THEN EngineAt(Execute(e, c), b, c, j + 1)
         ELSE Idle(Execute(e, c), b)
<1> DEFINE n == commandTypes[c]
           i == e.ind[c]
           next == Advance(c, i)
           collected == [e EXCEPT !.ind[c] = next]
           here == IF j + 1 < n THEN At(c, j + 1) ELSE 0
<1>1. /\ n \in 0 .. 32 /\ j \in Nat /\ j < n
      /\ c \in Meaningful
  BY Counted
<1>2. /\ DOMAIN e = {"ind", "tb", "tr", "placed", "whole"}
      /\ e.ind \in [Collecting -> 0 .. 127]
      /\ e.tb \in BOOLEAN /\ e.tr \in BOOLEAN /\ e.whole \in BOOLEAN /\ e.whole
      /\ \A d \in Collecting \ {c} : e.ind[d] = 0 \/ (d = "shininess" /\ b)
      /\ i = At(c, j) \/ (c = "shininess" /\ b)
      /\ i \in 0 .. 127
  BY DEF EngineAt
<1>3. next \in 0 .. 127 /\ (next = here \/ (c = "shininess" /\ b))
  <2>1. CASE c = "shininess" /\ b
    BY <1>2, <2>1 DEF Advance, gfx3d_glShininess
  <2>2. CASE ~(c = "shininess" /\ b)
    <3>1. i = At(c, j) /\ next = here
      BY <1>2, <2>2, Advances
    <3>2. CASE j + 1 < n
      <4>1. j + 1 \in 0 .. n - 1
        BY <1>1, <3>2
      <4>2. At(c, j + 1) \in 0 .. 127
        BY <4>1, Advances
      <4>3. QED
        BY <3>1, <3>2, <4>2
    <3>3. QED
      BY <3>1, <3>2
  <2>3. QED
    BY <2>1, <2>2
<1>4. c # "shininess" => (next = 0 <=> ~(j + 1 < n))
  <2>1. j + 1 < n => here > 0
    BY Advances
  <2>2. QED
    BY <1>3, <2>1
<1>5. /\ DOMAIN collected = {"ind", "tb", "tr", "placed", "whole"}
      /\ collected.ind = [e.ind EXCEPT ![c] = next]
      /\ collected.tb = e.tb /\ collected.tr = e.tr /\ collected.placed = e.placed
      /\ collected.whole = e.whole
  BY <1>2
<1>6. /\ collected.ind \in [Collecting -> 0 .. 127]
      /\ \A d \in Collecting : \/ collected.ind[d] = IF d = c THEN here ELSE 0
                               \/ d = "shininess" /\ b
  BY <1>2, <1>3, <1>5
<1> DEFINE after == Execute(e, c)
           done == IF j + 1 < n THEN j + 1 ELSE 0
           of == IF j + 1 < n THEN c ELSE "nop"
<1>7. ASSUME /\ DOMAIN after = {"ind", "tb", "tr", "placed", "whole"}
             /\ after.ind = collected.ind
             /\ after.tb \in BOOLEAN /\ (after.tb <=> c \in {"boxtest", "postest"} /\ j + 1 < n)
             /\ after.tr \in BOOLEAN
             /\ after.placed = IF c \in Matrices /\ j + 1 < n THEN {At(c, x) : x \in 0 .. j} ELSE {}
             /\ after.whole \in BOOLEAN /\ after.whole
      PROVE  EngineAt(after, b, of, done)
  <2>1. CASE j + 1 < n
    <3>1. j + 1 > 0 /\ (j + 1) - 1 = j
      BY <1>1
    <3>2. after.placed = IF c \in Matrices THEN {At(c, x) : x \in 0 .. (j + 1) - 1} ELSE {}
      <4>1. {At(c, x) : x \in 0 .. (j + 1) - 1} = {At(c, x) : x \in 0 .. j}
        BY ONLY <3>1
      <4>2. QED
        BY <1>7, <2>1, <4>1
    <3>3. \A d \in Collecting : \/ after.ind[d] = IF d = c THEN At(c, j + 1) ELSE 0
                                \/ d = "shininess" /\ b
      BY <1>6, <1>7, <2>1
    <3>4. done = j + 1 /\ of = c
      BY <2>1
    <3>5. EngineAt(after, b, c, j + 1)
      BY <1>6, <1>7, <2>1, <3>1, <3>2, <3>3 DEF EngineAt
    <3>6. QED
      BY <3>4, <3>5
  <2>2. CASE ~(j + 1 < n)
    <3>1. "nop" \notin Collecting /\ "nop" \notin Matrices
      BY DEF Collecting, Matrices
    <3>2. QED
      BY <1>6, <1>7, <2>2, <3>1 DEF EngineAt
  <2>3. QED
    BY <2>1, <2>2
<1>8. CASE c \in Matrices
  <2> DEFINE placed == e.placed \cup {i}
             allOf == placed \cup FilledIn(c) = 0 .. 15
             newPlaced == IF next = 0 THEN {} ELSE placed
             newWhole == IF next = 0 THEN allOf ELSE collected.whole
  <2>0. after = Place(collected, c, i, next)
    BY <1>8 DEF Execute, Matrices
  <2>1. after = [collected EXCEPT !.placed = newPlaced, !.whole = newWhole]
    BY <1>5, <2>0 DEF Place
  <2>2. c # "shininess" /\ c \notin {"boxtest", "postest"}
    BY <1>8 DEF Matrices
  <2>3. placed = {At(c, x) : x \in 0 .. j}
    <3>1. e.placed = {At(c, x) : x \in 0 .. j - 1} /\ i = At(c, j)
      BY <1>2, <1>8, <2>2 DEF EngineAt
    <3>2. \A x \in 0 .. j : x \in 0 .. j - 1 \/ x = j
      BY <1>1
    <3>3. j \in 0 .. j /\ \A x \in 0 .. j - 1 : x \in 0 .. j
      BY <1>1
    <3>4. QED
      BY <3>1, <3>2, <3>3
  <2>4. ~(j + 1 < n) => allOf
    <3>1. ~(j + 1 < n) => j = commandTypes[c] - 1
      BY <1>1
    <3>2. QED
      BY <1>8, <2>3, <3>1, Filled
  <2>5. newWhole \in BOOLEAN /\ newWhole
    BY <1>2, <1>4, <1>5, <2>2, <2>4
  <2>6. newPlaced = IF c \in Matrices /\ j + 1 < n THEN {At(c, x) : x \in 0 .. j} ELSE {}
    BY <1>4, <1>8, <2>2, <2>3
  <2>7. e.tb = FALSE
    BY <1>2, <2>2 DEF EngineAt
  <2> HIDE DEF newPlaced, newWhole, collected, after
  <2>8. /\ DOMAIN after = {"ind", "tb", "tr", "placed", "whole"}
        /\ after.ind = collected.ind /\ after.tb = collected.tb /\ after.tr = collected.tr
        /\ after.placed = newPlaced /\ after.whole = newWhole
    BY <1>5, <2>1
  <2>9. QED
    BY <1>2, <1>5, <1>7, <2>2, <2>5, <2>6, <2>7, <2>8 DEF Idle, after
<1>9. CASE c = "boxtest"
  <2> DEFINE busy == next # 0
  <2>1. after = gfx3d_glBoxTest(collected, next)
    BY <1>9 DEF Execute, Matrices
  <2>2. after = [collected EXCEPT !.tb = busy, !.tr = FALSE]
    BY <2>1 DEF gfx3d_glBoxTest
  <2>3. busy \in BOOLEAN /\ (busy <=> j + 1 < n) /\ c \notin Matrices
    BY <1>4, <1>9 DEF Matrices
  <2>4. e.placed = {}
    BY <2>3 DEF EngineAt
  <2> HIDE DEF busy, collected, after
  <2>5. /\ DOMAIN after = {"ind", "tb", "tr", "placed", "whole"}
        /\ after.ind = collected.ind /\ after.tb = busy /\ after.tr = FALSE
        /\ after.placed = collected.placed /\ after.whole = collected.whole
    BY <1>5, <2>2
  <2>6. QED
    BY <1>2, <1>5, <1>7, <1>9, <2>3, <2>4, <2>5 DEF Idle, after
<1>10. CASE c = "postest"
  <2> DEFINE busy == next # 0
  <2>1. after = gfx3d_glPosTest(collected, next)
    BY <1>10 DEF Execute, Matrices
  <2>2. after = [collected EXCEPT !.tb = busy]
    BY <2>1 DEF gfx3d_glPosTest
  <2>3. busy \in BOOLEAN /\ (busy <=> j + 1 < n) /\ c \notin Matrices
    BY <1>4, <1>10 DEF Matrices
  <2>4. e.placed = {}
    BY <2>3 DEF EngineAt
  <2> HIDE DEF busy, collected, after
  <2>5. /\ DOMAIN after = {"ind", "tb", "tr", "placed", "whole"}
        /\ after.ind = collected.ind /\ after.tb = busy /\ after.tr = collected.tr
        /\ after.placed = collected.placed /\ after.whole = collected.whole
    BY <1>5, <2>2
  <2>6. QED
    BY <1>2, <1>5, <1>7, <1>10, <2>3, <2>4, <2>5 DEF Idle, after
<1>11. CASE c \in {"scale", "translate", "vertex16", "shininess"}
  <2>1. after = collected
    BY <1>11 DEF Execute, Matrices
  <2>2. c \notin Matrices /\ c \notin {"boxtest", "postest"}
    BY <1>11 DEF Matrices
  <2>3. e.placed = {} /\ e.tb = FALSE
    BY <2>2 DEF EngineAt
  <2> HIDE DEF collected, after
  <2>4. QED
    BY <1>2, <1>5, <1>7, <2>1, <2>2, <2>3 DEF Idle, after
<1>12. c \in Matrices \/ c \in {"boxtest", "postest", "scale", "translate", "vertex16", "shininess"}
  BY DEF Collecting, Matrices
<1>13. QED
  BY <1>8, <1>9, <1>10, <1>11, <1>12

\* A command that collects nothing leaves the engine idle.
LEMMA NotCollected ==
  ASSUME NEW e, NEW b \in BOOLEAN, NEW c, c \notin Collecting, Idle(e, b)
  PROVE  Idle(Execute(e, c), b)
<1>1. Execute(e, c) = IF c = "vectest" THEN gfx3d_glVecTest(e) ELSE e
  BY DEF Execute, Collecting, Matrices
<1>2. CASE c = "vectest"
  <2>1. gfx3d_glVecTest(e) = [e EXCEPT !.tb = FALSE]
    BY DEF gfx3d_glVecTest
  <2> DEFINE after == gfx3d_glVecTest(e)
  <2> HIDE DEF after
  <2>2. /\ DOMAIN after = {"ind", "tb", "tr", "placed", "whole"}
        /\ after.ind = e.ind /\ after.tb = FALSE /\ after.tr = e.tr
        /\ after.placed = e.placed /\ after.whole = e.whole
    BY <2>1 DEF Idle, EngineAt, after
  <2>3. Idle(after, b)
    BY <2>2 DEF Idle, EngineAt
  <2>4. QED
    BY <1>1, <1>2, <2>3 DEF after
<1>3. QED
  BY <1>1, <1>2

\* A parameterless command changes nothing that the handlers count.
LEMMA FreeChangesNothing ==
  ASSUME NEW e, NEW c \in Commands, NeedsNone(c)
  PROVE  Execute(e, c) = e
<1>1. c \notin Collecting /\ c # "vectest"
  BY Counted DEF NeedsNone, NOARG, Collecting, commandTypes
<1>2. QED
  BY <1>1 DEF Execute, Collecting, Matrices

-----------------------------------------------------------------------------
(* Geometry commands: words and what they ask for *)

\* A sequence of at most five entries behind whose first one nothing needs a parameter.
LEMMA OnlyFirstCounts ==
  ASSUME NEW e, NEW entries \in Seq(Commands), Len(entries) \in 1 .. 5,
         \A i \in 2 .. Len(entries) : NeedsNone(entries[i])
  PROVE  Executed(e, entries) = Execute(e, entries[1])
<1>1. \A f : \A i \in 2 .. 5 : After(f, entries, i) = f
  BY FreeChangesNothing DEF After
<1>2. After(e, entries, 1) = Execute(e, entries[1])
  BY DEF After
<1>3. QED
  BY <1>1, <1>2 DEF Executed

\* A single entry.
LEMMA OneCounts ==
  ASSUME NEW e, NEW c \in Commands
  PROVE  Executed(e, <<c>>) = Execute(e, c)
<1>1. <<c>> \in Seq(Commands)
  OBVIOUS
<1>2. PICK w \in Seq(Commands) : w = <<c>>
  BY <1>1
<1>3. Len(w) = 1 /\ w[1] = c
  BY <1>2
<1>4. Len(w) \in 1 .. 5 /\ \A i \in 2 .. Len(w) : FALSE
  BY <1>3
<1>5. Executed(e, w) = Execute(e, w[1])
  BY <1>4, OnlyFirstCounts
<1>6. QED
  BY <1>2, <1>3, <1>5

\* Nothing happens when no entry needs a parameter.
LEMMA NoneCounts ==
  ASSUME NEW e, NEW entries \in Seq(Commands), Len(entries) <= 5,
         \A i \in 1 .. Len(entries) : NeedsNone(entries[i])
  PROVE  Executed(e, entries) = e
<1>1. \A f : \A i \in 1 .. 5 : After(f, entries, i) = f
  BY FreeChangesNothing DEF After
<1>2. QED
  BY <1>1 DEF Executed

\* An entry is asked for as often as it has parameters, or once.
Times(c) == IF NeedsNone(c) THEN 1 ELSE commandTypes[c]

\* Every command is asked for at least once.
LEMMA TimesRange ==
  ASSUME NEW c \in Meaningful
  PROVE  Times(c) \in Nat \ {0}
<1>1. commandTypes[c] \in 0 .. 32
  BY CountRange
<1>2. NeedsNone(c) <=> commandTypes[c] = 0
  BY DEF NeedsNone, NOARG
<1>3. QED
  BY <1>1, <1>2 DEF Times

\* Once is a list of one.
LEMMA Once ==
  ASSUME NEW c
  PROVE  Copies(c, 1) = <<c>>
BY DEF Copies

\* Lists of commands are joined in any order.
LEMMA Joined ==
  \A x, y, z \in Seq(Commands) : (x \o y) \o z = x \o (y \o z)
BY ConcatAssociative

\* Repeating a command.
LEMMA Repeated ==
  ASSUME NEW c \in Commands, NEW k \in Nat \ {0}
  PROVE  /\ Copies(c, k) \in Seq(Commands) /\ Len(Copies(c, k)) = k
         /\ k > 1 => Copies(c, k) = <<c>> \o Copies(c, k - 1)
         /\ Copies(c, 1) = <<c>>
<1>1. Copies(c, k) \in Seq(Commands) /\ Len(Copies(c, k)) = k
  BY DEF Copies
<1>2. Copies(c, 1) = <<c>>
  BY DEF Copies
<1>3. ASSUME k > 1
      PROVE  Copies(c, k) = <<c>> \o Copies(c, k - 1)
  <2>1. Copies(c, k - 1) \in Seq(Commands) /\ Len(Copies(c, k - 1)) = k - 1
        /\ \A i \in 1 .. k - 1 : Copies(c, k - 1)[i] = c
    BY <1>3 DEF Copies
  <2>2. \A i \in 1 .. k : Copies(c, k)[i] = c
    BY DEF Copies
  <2>3. <<c>> \o Copies(c, k - 1) \in Seq(Commands) /\ Len(<<c>> \o Copies(c, k - 1)) = k
    BY <1>3, <2>1
  <2>4. \A i \in 1 .. k : (<<c>> \o Copies(c, k - 1))[i] = c
    BY <1>3, <2>1
  <2>5. QED
    BY <1>1, <2>2, <2>3, <2>4, SeqEqual
<1>4. QED
  BY <1>1, <1>2, <1>3

\* What the first command of a list asks for comes before what the others ask for.
LEMMA ExpandFirst ==
  ASSUME NEW s \in Seq(Meaningful), Len(s) <= 4
  PROVE  /\ Expand(s) \in Seq(Commands)
         /\ s = <<>> => Expand(s) = <<>>
         /\ s # <<>> => Expand(s) = Copies(s[1], Times(s[1])) \o Expand(Tail(s))
<1>1. ASSUME NEW t \in Seq(Meaningful), NEW i \in Nat \ {0}
      PROVE  /\ Calls(t, i) \in Seq(Commands)
             /\ i > Len(t) => Calls(t, i) = <<>>
             /\ i <= Len(t) => Calls(t, i) = Copies(t[i], Times(t[i]))
  <2>1. CASE i > Len(t)
    BY <2>1 DEF Calls
  <2>2. CASE i <= Len(t)
    <3>1. t[i] \in Meaningful
      BY <2>2
    <3>2. Times(t[i]) \in Nat \ {0}
      BY <3>1, TimesRange
    <3>3. Calls(t, i) = Copies(t[i], Times(t[i]))
      BY <2>2 DEF Calls, Times
    <3>4. QED
      <4>1. t[i] \in Commands
        BY <3>1, CountRange
      <4>2. Copies(t[i], Times(t[i])) \in Seq(Commands)
        BY <3>2, <4>1, Repeated
      <4>3. QED
        BY <2>2, <3>3, <4>2
  <2>3. QED
    BY <2>1, <2>2
<1>2. Expand(s) \in Seq(Commands)
  BY <1>1 DEF Expand
<1>3. ASSUME s = <<>>
      PROVE  Expand(s) = <<>>
  <2>1. \A i \in 1 .. 4 : Calls(s, i) = <<>>
    BY <1>3 DEF Calls
  <2>2. QED
    BY <2>1 DEF Expand
<1>4. ASSUME s # <<>>
      PROVE  Expand(s) = Copies(s[1], Times(s[1])) \o Expand(Tail(s))
  <2>1. /\ Tail(s) \in Seq(Meaningful) /\ Len(Tail(s)) = Len(s) - 1 /\ Len(s) >= 1
        /\ \A i \in 1 .. Len(s) - 1 : Tail(s)[i] = s[i + 1]
        /\ Len(s) \in Nat
    BY <1>4, HeadTailProperties, EmptySeq, LenProperties
  <2>2. ASSUME NEW i \in 1 .. 3
        PROVE  Calls(Tail(s), i) = Calls(s, i + 1)
    <3>1. CASE i <= Len(Tail(s))
      BY <2>1, <3>1 DEF Calls
    <3>2. CASE i > Len(Tail(s))
      BY <2>1, <3>2 DEF Calls
    <3>3. QED
      BY <2>1, <3>1, <3>2
  <2>3. Calls(Tail(s), 4) = <<>>
    BY <2>1 DEF Calls
  <2>4. Calls(s, 1) = Copies(s[1], Times(s[1]))
    BY <2>1 DEF Calls, Times
  <2>5. /\ Calls(s, 1) \in Seq(Commands) /\ Calls(s, 2) \in Seq(Commands)
        /\ Calls(s, 3) \in Seq(Commands) /\ Calls(s, 4) \in Seq(Commands)
    BY <1>1
  <2>6. Expand(Tail(s)) = (Calls(s, 2) \o Calls(s, 3)) \o Calls(s, 4)
    <3>1. /\ Calls(Tail(s), 1) = Calls(s, 2) /\ Calls(Tail(s), 2) = Calls(s, 3)
          /\ Calls(Tail(s), 3) = Calls(s, 4)
      BY <2>2
    <3>2. (Calls(s, 2) \o Calls(s, 3)) \o Calls(s, 4) \in Seq(Commands)
      BY <2>5
    <3>3. QED
      BY <2>3, <3>1, <3>2, ConcatEmptySeq DEF Expand
  <2>7. Expand(s) = Calls(s, 1) \o ((Calls(s, 2) \o Calls(s, 3)) \o Calls(s, 4))
    <3>1. (Calls(s, 1) \o Calls(s, 2)) \o Calls(s, 3) = Calls(s, 1) \o (Calls(s, 2) \o Calls(s, 3))
      BY <2>5, ConcatAssociative
    <3>2. Calls(s, 2) \o Calls(s, 3) \in Seq(Commands)
      BY <2>5
    <3>3. (Calls(s, 1) \o (Calls(s, 2) \o Calls(s, 3))) \o Calls(s, 4)
            = Calls(s, 1) \o ((Calls(s, 2) \o Calls(s, 3)) \o Calls(s, 4))
      BY <2>5, <3>2, Joined, Zenon
    <3>4. QED
      BY <3>1, <3>3 DEF Expand
  <2>8. QED
    BY <2>4, <2>6, <2>7
<1>5. QED
  BY <1>2, <1>3, <1>4

\* Nothing is asked for.
LEMMA ExpandNone == Expand(<<>>) = <<>>
<1>1. \A i \in 1 .. 4 : Calls(<<>>, i) = <<>>
  BY DEF Calls
<1>2. QED
  BY <1>1 DEF Expand

\* How many commands in front need no parameter (Free is well defined).
LEMMA FreeIs ==
  ASSUME NEW s \in Seq(Meaningful), Len(s) <= 4
  PROVE  /\ Free(s) \in 0 .. Len(s)
         /\ \A i \in 1 .. Free(s) : NeedsNone(s[i])
         /\ Free(s) < Len(s) => ~NeedsNone(s[Free(s) + 1])
<1> DEFINE Fits(n) == /\ \A i \in 1 .. n : NeedsNone(s[i])
                      /\ n < Len(s) => ~NeedsNone(s[n + 1])
<1>1. \E n \in 0 .. Len(s) : Fits(n)
  <2>1. CASE Len(s) = 0 \/ ~NeedsNone(s[1])
    <3>1. 0 \in 0 .. Len(s) /\ Fits(0)
      BY <2>1
    <3>2. QED
      BY <3>1
  <2>2. CASE Len(s) > 0 /\ NeedsNone(s[1]) /\ (Len(s) = 1 \/ ~NeedsNone(s[2]))
    <3>1. 1 \in 0 .. Len(s) /\ Fits(1)
      BY <2>2
    <3>2. QED
      BY <3>1
  <2>3. CASE Len(s) > 1 /\ NeedsNone(s[1]) /\ NeedsNone(s[2]) /\ (Len(s) = 2 \/ ~NeedsNone(s[3]))
    <3>1. 2 \in 0 .. Len(s) /\ Fits(2)
      BY <2>3
    <3>2. QED
      BY <3>1
  <2>4. CASE Len(s) > 2 /\ NeedsNone(s[1]) /\ NeedsNone(s[2]) /\ NeedsNone(s[3])
             /\ (Len(s) = 3 \/ ~NeedsNone(s[4]))
    <3>1. 3 \in 0 .. Len(s) /\ Fits(3)
      BY <2>4
    <3>2. QED
      BY <3>1
  <2>5. CASE Len(s) = 4 /\ NeedsNone(s[1]) /\ NeedsNone(s[2]) /\ NeedsNone(s[3]) /\ NeedsNone(s[4])
    <3>1. 4 \in 0 .. Len(s) /\ Fits(4)
      BY <2>5
    <3>2. QED
      BY <3>1
  <2>6. QED
    BY <2>1, <2>2, <2>3, <2>4, <2>5
<1>2. Free(s) \in 0 .. Len(s) /\ Fits(Free(s))
  BY <1>1 DEF Free
<1>3. QED
  BY <1>2

\* The front and the rest of a list of commands.
LEMMA Parts ==
  ASSUME NEW s \in Seq(Meaningful), NEW m \in 0 .. Len(s)
  PROVE  /\ SubSeq(s, m + 1, Len(s)) \in Seq(Meaningful)
         /\ Len(SubSeq(s, m + 1, Len(s))) = Len(s) - m
         /\ \A i \in 1 .. Len(s) - m : SubSeq(s, m + 1, Len(s))[i] = s[m + i]
         /\ SubSeq(s, 1, m) \in Seq(Commands) /\ Len(SubSeq(s, 1, m)) = m
         /\ \A i \in 1 .. m : SubSeq(s, 1, m)[i] = s[i]
<1>1. Len(s) \in Nat /\ m \in Nat /\ \A i \in 1 .. Len(s) : s[i] \in Meaningful
  OBVIOUS
<1>2. \A i \in 1 .. Len(s) : s[i] \in Commands
  BY <1>1, CountRange
<1>3. /\ SubSeq(s, m + 1, Len(s)) \in Seq(Meaningful)
      /\ Len(SubSeq(s, m + 1, Len(s))) = Len(s) - m
      /\ \A i \in 1 .. Len(s) - m : SubSeq(s, m + 1, Len(s))[i] = s[m + i]
  BY <1>1
<1>4. /\ SubSeq(s, 1, m) \in Seq(Commands) /\ Len(SubSeq(s, 1, m)) = m
      /\ \A i \in 1 .. m : SubSeq(s, 1, m)[i] = s[i]
  BY <1>1, <1>2
<1>5. QED
  BY <1>3, <1>4

\* Parameterless commands in front are asked for once each.
LEMMA ExpandFree ==
  ASSUME NEW s \in Seq(Meaningful), Len(s) <= 4, NEW n \in 0 .. Len(s),
         \A i \in 1 .. n : NeedsNone(s[i])
  PROVE  Expand(s) = SubSeq(s, 1, n) \o Expand(SubSeq(s, n + 1, Len(s)))
<1> DEFINE Behind(m) == SubSeq(s, m + 1, Len(s))
           Holds(m) == Expand(s) = SubSeq(s, 1, m) \o Expand(Behind(m))
<1>2. Holds(0)
  <2>1. Behind(0) = s /\ SubSeq(s, 1, 0) = <<>>
    BY SubSeqFull, SubSeqEmpty
  <2>2. QED
    BY <2>1, ExpandFirst, ConcatEmptySeq
<1>3. ASSUME NEW m \in 0 .. Len(s) - 1, Holds(m), NeedsNone(s[m + 1])
      PROVE  Holds(m + 1)
  <2>0. Len(s) \in Nat /\ m \in 0 .. Len(s) /\ m + 1 \in 1 .. Len(s)
    OBVIOUS
  <2>1. /\ Behind(m) \in Seq(Meaningful) /\ Len(Behind(m)) = Len(s) - m
        /\ Behind(m) # <<>> /\ Behind(m)[1] = s[m + 1] /\ s[m + 1] \in Commands
        /\ Behind(m + 1) \in Seq(Meaningful) /\ Len(Behind(m + 1)) = Len(s) - (m + 1)
        /\ SubSeq(s, 1, m) \in Seq(Commands)
    <3>1. /\ Behind(m) \in Seq(Meaningful) /\ Len(Behind(m)) = Len(s) - m
          /\ Behind(m)[1] = s[m + 1] /\ SubSeq(s, 1, m) \in Seq(Commands)
      BY <2>0, Parts
    <3>2. Behind(m) # <<>>
      BY <2>0, <3>1
    <3>3. Behind(m + 1) \in Seq(Meaningful) /\ Len(Behind(m + 1)) = Len(s) - (m + 1)
      BY <2>0, Parts
    <3>4. s[m + 1] \in Commands
      BY <2>0, CountRange
    <3>5. QED
      BY <3>1, <3>2, <3>3, <3>4
  <2>2. Tail(Behind(m)) = Behind(m + 1)
    BY <2>0, HeadTailOfSubSeq
  <2> HIDE DEF Behind
  <2>3. Expand(Behind(m)) = <<s[m + 1]>> \o Expand(Behind(m + 1))
    <3>1. Len(Behind(m)) <= 4
      BY <2>0, <2>1
    <3>2. Expand(Behind(m)) = Copies(s[m + 1], Times(s[m + 1])) \o Expand(Behind(m + 1))
      BY <2>1, <2>2, <3>1, ExpandFirst
    <3>3. Times(s[m + 1]) = 1 /\ Copies(s[m + 1], 1) = <<s[m + 1]>>
      BY <1>3, Once DEF Times
    <3>4. QED
      BY <3>2, <3>3
  <2>4. SubSeq(s, 1, m + 1) = SubSeq(s, 1, m) \o <<s[m + 1]>>
    <3>1. SubSeq(s, 1, m + 1) = SubSeq(s, 1, (m + 1) - 1) \o <<s[m + 1]>>
      BY <2>0, SubSeqRecursiveSecond
    <3>2. QED
      BY <2>0, <3>1
  <2>5. Expand(Behind(m + 1)) \in Seq(Commands)
    <3>1. Len(Behind(m + 1)) <= 4
      BY <2>0, <2>1
    <3>2. QED
      BY <2>1, <3>1, ExpandFirst
  <2>6. <<s[m + 1]>> \in Seq(Commands)
    BY <2>1
  <2>7. (SubSeq(s, 1, m) \o <<s[m + 1]>>) \o Expand(Behind(m + 1))
          = SubSeq(s, 1, m) \o (<<s[m + 1]>> \o Expand(Behind(m + 1)))
    BY <2>1, <2>5, <2>6, Joined, Zenon
  <2>8. QED
    BY <1>3, <2>3, <2>4, <2>7
<1> HIDE DEF Holds
<1>4. Len(s) \in Nat
  OBVIOUS
<1>5. ASSUME NEW m \in 0 .. n - 1, Holds(m)
      PROVE  Holds(m + 1)
  BY <1>3, <1>4, <1>5
<1>6. n \in {0, 1, 2, 3, 4}
  BY <1>4
<1>7. n > 0 => Holds(1)
  BY <1>2, <1>5, <1>6
<1>8. n > 1 => Holds(2)
  BY <1>5, <1>6, <1>7
<1>9. n > 2 => Holds(3)
  BY <1>5, <1>6, <1>8
<1>10. n > 3 => Holds(4)
  BY <1>5, <1>6, <1>9
<1>11. Holds(n)
  BY <1>2, <1>6, <1>7, <1>8, <1>9, <1>10
<1>12. QED
  BY <1>11 DEF Holds

\* A list that begins as expected leaves the rest to be expected.
LEMMA Begins ==
  ASSUME NEW x \in Seq(Commands), NEW y \in Seq(Commands)
  PROVE  /\ Len(x) <= Len(x \o y) /\ Len(x) \in Nat
         /\ SubSeq(x \o y, 1, Len(x)) = x
         /\ SubSeq(x \o y, Len(x) + 1, Len(x \o y)) = y
<1>1. /\ x \o y \in Seq(Commands) /\ Len(x \o y) = Len(x) + Len(y)
      /\ \A i \in 1 .. Len(x) : (x \o y)[i] = x[i]
      /\ \A i \in 1 .. Len(y) : (x \o y)[Len(x) + i] = y[i]
      /\ Len(x) \in Nat /\ Len(y) \in Nat
  BY ConcatProperties
<1>2. SubSeq(x \o y, 1, Len(x)) = x
  <2>1. /\ SubSeq(x \o y, 1, Len(x)) \in Seq(Commands)
        /\ Len(SubSeq(x \o y, 1, Len(x))) = Len(x)
        /\ \A i \in 1 .. Len(x) : SubSeq(x \o y, 1, Len(x))[i] = (x \o y)[i]
    BY <1>1
  <2>2. QED
    BY <1>1, <2>1, SeqEqual
<1>3. SubSeq(x \o y, Len(x) + 1, Len(x \o y)) = y
  <2>1. /\ SubSeq(x \o y, Len(x) + 1, Len(x \o y)) \in Seq(Commands)
        /\ Len(SubSeq(x \o y, Len(x) + 1, Len(x \o y))) = Len(y)
        /\ \A i \in 1 .. Len(y) : SubSeq(x \o y, Len(x) + 1, Len(x \o y))[i] = (x \o y)[Len(x) + i]
    BY <1>1
  <2>2. QED
    BY <1>1, <2>1, SeqEqual
<1>4. QED
  BY <1>1, <1>2, <1>3

\* What is sent as expected is taken off what is due.
LEMMA SentAsExpected ==
  ASSUME NEW entries \in Seq(Commands), NEW remaining \in Seq(Commands),
         inOrder \in BOOLEAN, Send(entries, entries \o remaining)
  PROVE  /\ engine' = Executed(engine, entries)
         /\ inOrder' = inOrder /\ due' = remaining
BY Begins DEF Send

\* What the unpacker stores of the commands that wait.
LEMMA ItemsAre ==
  ASSUME NEW s \in Seq(Meaningful)
  PROVE  /\ Items(s) \in Seq([command : Commands, countdown : 0 .. 32])
         /\ Len(Items(s)) = Len(s)
         /\ \A i \in 1 .. Len(s) : Items(s)[i] = Item(s[i])
<1> DEFINE R == [command : Commands, countdown : 0 .. 32]
<1>1. \A c \in Meaningful : Item(c) \in R
  BY CountRange DEF Item
<1>2. \A i \in 1 .. Len(s) : s[i] \in Meaningful
  OBVIOUS
<1>3. \A i \in 1 .. Len(s) : Item(s[i]) \in R
  BY <1>1, <1>2
<1> HIDE DEF R
<1>4. Len(s) \in Nat
  OBVIOUS
<1>5. Items(s) \in Seq(R) /\ Len(Items(s)) = Len(s) /\ \A i \in 1 .. Len(s) : Items(s)[i] = Item(s[i])
  BY <1>3, <1>4 DEF Items
<1>6. QED
  BY <1>5 DEF R

\* The first item and the others.
LEMMA ItemsFirst ==
  ASSUME NEW s \in Seq(Meaningful), s # <<>>
  PROVE  Items(s) = <<Item(s[1])>> \o Items(Tail(s))
<1> DEFINE R == [command : Commands, countdown : 0 .. 32]
           front == <<Item(s[1])>>
           rest == Tail(s)
<1>1. /\ rest \in Seq(Meaningful) /\ Len(rest) = Len(s) - 1
      /\ \A i \in 1 .. Len(rest) : rest[i] = s[i + 1]
      /\ Len(s) \in Nat \ {0}
  BY HeadTailProperties, EmptySeq
<1>2. /\ Items(s) \in Seq(R) /\ Len(Items(s)) = Len(s)
      /\ \A i \in 1 .. Len(s) : Items(s)[i] = Item(s[i])
  BY ItemsAre
<1>3. /\ Items(rest) \in Seq(R) /\ Len(Items(rest)) = Len(rest)
      /\ \A i \in 1 .. Len(rest) : Items(rest)[i] = Item(rest[i])
  BY <1>1, ItemsAre
<1> HIDE DEF R, rest
<1>4. Item(s[1]) \in R
  BY <1>1, <1>2
<1>5. front \in Seq(R) /\ Len(front) = 1 /\ front[1] = Item(s[1])
  BY <1>4
<1> HIDE DEF front
<1>6. /\ front \o Items(rest) \in Seq(R) /\ Len(front \o Items(rest)) = Len(s)
      /\ \A i \in 1 .. Len(s) : (front \o Items(rest))[i] = IF i <= 1 THEN front[i] ELSE Items(rest)[i - 1]
  <2>1. /\ front \o Items(rest) \in Seq(R)
        /\ Len(front \o Items(rest)) = Len(front) + Len(Items(rest))
        /\ \A i \in 1 .. Len(front) + Len(Items(rest)) :
             (front \o Items(rest))[i] = IF i <= Len(front) THEN front[i] ELSE Items(rest)[i - Len(front)]
    BY <1>3, <1>5, ConcatProperties
  <2>2. Len(front) + Len(Items(rest)) = Len(s)
    BY <1>1, <1>3, <1>5
  <2>3. QED
    BY <1>5, <2>1, <2>2
<1>7. \A i \in 1 .. Len(s) : (front \o Items(rest))[i] = Items(s)[i]
  <2> SUFFICES ASSUME NEW i \in 1 .. Len(s)
               PROVE  (front \o Items(rest))[i] = Items(s)[i]
    OBVIOUS
  <2>1. CASE i = 1
    BY <1>1, <1>2, <1>5, <1>6, <2>1
  <2>2. CASE i > 1
    <3>1. i - 1 \in 1 .. Len(rest) /\ (i - 1) + 1 = i
      BY <1>1, <2>2
    <3>2. Items(rest)[i - 1] = Item(s[i])
      BY <1>1, <1>3, <3>1
    <3>3. (front \o Items(rest))[i] = Items(rest)[i - 1]
      BY <1>6, <2>2
    <3>4. QED
      BY <1>2, <3>2, <3>3
  <2>3. i = 1 \/ i > 1
    BY <1>1
  <2>4. QED
    BY <2>1, <2>2, <2>3
<1>8. front \o Items(rest) = Items(s)
  BY <1>2, <1>6, <1>7, SeqEqual
<1>9. QED
  BY <1>8 DEF front, rest

\* An idle engine has no parameter of any command.
LEMMA IdleStarts ==
  ASSUME NEW e, NEW b \in BOOLEAN, NEW c, Idle(e, b)
  PROVE  EngineAt(e, b, c, 0)
<1>1. \A d : At(d, 0) = 0
  BY DEF At
<1>2. e.placed = {} /\ {At(c, i) : i \in 0 .. 0 - 1} = {}
  BY DEF Idle, EngineAt, Matrices
<1>3. e.placed = IF c \in Matrices THEN {At(c, i) : i \in 0 .. 0 - 1} ELSE {}
  BY <1>2
<1>4. \A d \in Collecting : \/ e.ind[d] = IF d = c THEN At(c, 0) ELSE 0
                            \/ d = "shininess" /\ b
  BY <1>1 DEF Idle, EngineAt
<1>5. ~(0 > 0)
  OBVIOUS
<1>6. QED
  BY <1>3, <1>4, <1>5 DEF Idle, EngineAt

\* A command with parameters is in front of those that wait.
LEMMA WaitingFirst ==
  ASSUME NEW e, NEW b \in BOOLEAN, NEW s \in Seq(Meaningful), Len(s) <= 4,
         s # <<>>, ~NeedsNone(s[1]), Idle(e, b)
  PROVE  Fitting(Items(s), e, Expand(s), TRUE, FALSE, b)
<1>1. /\ Tail(s) \in Seq(Meaningful) /\ Len(Tail(s)) = Len(s) - 1
      /\ Len(s) \in Nat \ {0}
  BY HeadTailProperties, EmptySeq
<1>2. PICK c \in Meaningful : c = s[1]
  BY <1>1
<1>3. PICK rest \in Seq(Meaningful) : rest = Tail(s)
  BY <1>1
<1>4. commandTypes[c] \in 0 .. 32 /\ c \in Commands /\ ~NeedsNone(c)
  BY <1>2, CountRange
<1>5. PICK k \in 1 .. 32 : k = commandTypes[c]
  BY <1>4 DEF NeedsNone, NOARG
<1>6. k <= commandTypes[c] /\ commandTypes[c] - k = 0
  BY <1>5
<1>7. Expand(s) = Copies(c, k) \o Expand(rest) /\ Expand(s) \in Seq(Commands)
  BY <1>2, <1>3, <1>4, <1>5, ExpandFirst DEF Times
<1>8. Items(s) = Stored(c, k, rest)
  BY <1>2, <1>3, <1>5, ItemsFirst DEF Item, Stored
<1>9. EngineAt(e, b, c, commandTypes[c] - k)
  BY <1>6, IdleStarts
<1>10. Len(rest) <= 3
  BY <1>1, <1>3
<1>11. Lacking(Items(s), e, Expand(s), b, c, k, rest)
  BY <1>4, <1>6, <1>7, <1>8, <1>9, <1>10 DEF Lacking
<1>12. Items(s) \in Seq([command : Commands, countdown : 0 .. 32]) /\ Len(Items(s)) <= 4
  BY ItemsAre
<1>13. QED
  BY <1>7, <1>11, <1>12 DEF Fitting

\* The items that wait are those behind the parameterless ones.
LEMMA WaitingRest ==
  ASSUME NEW e, NEW b \in BOOLEAN, NEW s \in Seq(Meaningful), Len(s) <= 4,
         Idle(e, b)
  PROVE  Fitting(Items(SubSeq(s, Free(s) + 1, Len(s))), e,
                 Expand(SubSeq(s, Free(s) + 1, Len(s))), TRUE, FALSE, b)
<1>1. /\ Free(s) \in 0 .. Len(s) /\ Len(s) \in Nat
      /\ Free(s) < Len(s) => ~NeedsNone(s[Free(s) + 1])
  BY FreeIs
<1>2. PICK behind \in Seq(Meaningful) : behind = SubSeq(s, Free(s) + 1, Len(s))
  BY <1>1, Parts
<1>3. /\ Len(behind) = Len(s) - Free(s) /\ Len(behind) <= 4
      /\ Free(s) < Len(s) => behind[1] = s[Free(s) + 1]
  BY <1>1, <1>2, Parts
<1>4. CASE behind = <<>>
  <2>1. Items(behind) = <<>>
    BY <1>4 DEF Items
  <2>2. Expand(behind) = <<>>
    BY <1>3, <1>4, ExpandFirst
  <2>3. Fitting(<<>>, e, <<>>, TRUE, FALSE, b)
    BY DEF Fitting
  <2>4. QED
    BY <1>2, <2>1, <2>2, <2>3
<1>5. CASE behind # <<>>
  <2>1. Free(s) < Len(s)
    BY <1>1, <1>3, <1>5
  <2>2. QED
    BY <1>1, <1>2, <1>3, <1>5, <2>1, WaitingFirst
<1>6. QED
  BY <1>4, <1>5

\* One more parameter of a command, with or without an index.
LEMMA TakesOne ==
  ASSUME NEW e, NEW b \in BOOLEAN, NEW c \in Meaningful, ~NeedsNone(c),
         NEW k \in 1 .. commandTypes[c], EngineAt(e, b, c, commandTypes[c] - k)
  PROVE  IF k > 1 THEN EngineAt(Execute(e, c), b, c, commandTypes[c] - (k - 1))
         ELSE Idle(Execute(e, c), b)
<1>1. commandTypes[c] \in 0 .. 32 /\ k \in Nat /\ k <= commandTypes[c]
  BY CountRange
<1>2. CASE c \in Collecting
  <2> DEFINE j == commandTypes[c] - k
  <2>1. j \in 0 .. commandTypes[c] - 1 /\ j + 1 = commandTypes[c] - (k - 1)
    BY <1>1
  <2>2. IF j + 1 < commandTypes[c] THEN EngineAt(Execute(e, c), b, c, j + 1)
        ELSE Idle(Execute(e, c), b)
    BY <1>2, <2>1, Collected
  <2>3. j + 1 < commandTypes[c] <=> k > 1
    BY <1>1
  <2>4. QED
    BY <2>1, <2>2, <2>3
<1>3. CASE c \notin Collecting
  <2>1. commandTypes[c] = 1
    BY <1>3, Counted DEF NeedsNone, NOARG
  <2>2. k = 1 /\ commandTypes[c] - k = 0
    BY <1>1, <2>1
  <2>3. Idle(e, b)
    <3>1. EngineAt(e, b, c, 0) /\ c \notin Matrices /\ "nop" \notin Matrices
      BY <1>3, <2>2 DEF Collecting, Matrices
    <3>2. \A d \in Collecting : d # c /\ d # "nop"
      BY <1>3 DEF Collecting
    <3>3. QED
      BY <3>1, <3>2 DEF Idle, EngineAt
  <2>4. QED
    BY <1>3, <2>2, <2>3, NotCollected
<1>4. QED
  BY <1>2, <1>3

\* What is owed starts with the command in front, and goes on as if it had one parameter less.
LEMMA OwedSteps ==
  ASSUME NEW c \in Meaningful, NEW k \in 1 .. 32, NEW rest \in Seq(Meaningful), Len(rest) <= 3
  PROVE  LET d == Copies(c, k) \o Expand(rest)
             later == IF k > 1 THEN Copies(c, k - 1) \o Expand(rest) ELSE Expand(rest)
         IN /\ d \in Seq(Commands) /\ later \in Seq(Commands) /\ <<c>> \in Seq(Commands)
            /\ d = <<c>> \o later /\ d # <<>> /\ Head(d) = c
<1> DEFINE d == Copies(c, k) \o Expand(rest)
           later == IF k > 1 THEN Copies(c, k - 1) \o Expand(rest) ELSE Expand(rest)
<1>1. c \in Commands /\ Expand(rest) \in Seq(Commands) /\ Copies(c, k) \in Seq(Commands)
      /\ Len(Copies(c, k)) = k
  <2>1. Len(rest) <= 4
    OBVIOUS
  <2>2. k \in Nat \ {0}
    OBVIOUS
  <2>3. c \in Commands
    BY CountRange
  <2>4. QED
    BY <2>1, <2>2, <2>3, ExpandFirst, Repeated
<1>2. d \in Seq(Commands) /\ <<c>> \in Seq(Commands)
  BY <1>1
<1>3. later \in Seq(Commands) /\ d = <<c>> \o later
  <2>1. CASE k > 1
    <3>1. k - 1 \in Nat \ {0} /\ k \in Nat \ {0}
      BY <2>1
    <3>2. Copies(c, k - 1) \in Seq(Commands) /\ Copies(c, k) = <<c>> \o Copies(c, k - 1)
      BY <1>1, <2>1, <3>1, Repeated
    <3>3. (<<c>> \o Copies(c, k - 1)) \o Expand(rest) = <<c>> \o (Copies(c, k - 1) \o Expand(rest))
      BY <1>1, <1>2, <3>2, Joined, Zenon
    <3>4. Copies(c, k - 1) \o Expand(rest) \in Seq(Commands)
      BY <1>1, <3>2
    <3>5. QED
      BY <2>1, <3>2, <3>3, <3>4
  <2>2. CASE k = 1
    <3>1. Copies(c, k) = <<c>> /\ later = Expand(rest)
      BY <2>2, Once
    <3>2. QED
      BY <1>1, <3>1
  <2>3. k = 1 \/ k > 1
    OBVIOUS
  <2>4. QED
    BY <2>1, <2>2, <2>3
<1> HIDE DEF later
<1>4. d # <<>> /\ Head(d) = c
  <2>1. Len(<<c>> \o later) = 1 + Len(later) /\ (<<c>> \o later)[1] = c /\ Len(later) \in Nat
    BY <1>2, <1>3
  <2>2. QED
    BY <1>2, <1>3, <2>1
<1>5. QED
  BY <1>2, <1>3, <1>4 DEF later

\* The start (GXF_Hardware::reset).
LEMMA CommandsInit ==
  ASSUME GeometryInit
  PROVE  CommandsInv
<1> DEFINE indexes == [c \in Collecting |-> 0]
<1>1. engine = [ind |-> indexes, tb |-> FALSE, tr |-> FALSE, placed |-> {}, whole |-> TRUE]
  BY DEF GeometryInit
<1>2. indexes \in [Collecting -> 0 .. 127] /\ \A d \in Collecting : indexes[d] = 0 /\ d # "nop"
  BY DEF Collecting
<1> HIDE DEF indexes
<1>3. /\ DOMAIN engine = {"ind", "tb", "tr", "placed", "whole"}
      /\ engine.ind = indexes /\ engine.tb = FALSE /\ engine.tr = FALSE
      /\ engine.placed = {} /\ engine.whole = TRUE
  BY <1>1
<1>4. "nop" \notin Matrices
  BY DEF Matrices
<1>5. Idle(engine, cut)
  BY <1>2, <1>3, <1>4 DEF Idle, EngineAt
<1>6. Fitting(<<>>, engine, <<>>, TRUE, FALSE, cut)
  <2>1. cut \in BOOLEAN
    BY DEF GeometryInit
  <2>2. QED
    BY <1>5, <2>1 DEF Fitting
<1>7. QED
  BY <1>6 DEF GeometryInit, CommandsInv

\* A packed word has at most four commands with a meaning.
LEMMA PackedIs ==
  ASSUME NEW word \in Words
  PROVE  Packed(word) \in Seq(Meaningful) /\ Len(Packed(word)) <= 4
<1>1. \A c \in Commands : Taken(c) \in Seq(Meaningful) /\ Len(Taken(c)) <= 1 /\ Len(Taken(c)) \in Nat
  <2> SUFFICES ASSUME NEW c \in Commands
               PROVE  Taken(c) \in Seq(Meaningful) /\ Len(Taken(c)) <= 1 /\ Len(Taken(c)) \in Nat
    OBVIOUS
  <2>1. CASE Known(c)
    <3>1. Taken(c) = <<c>> /\ c \in Meaningful
      BY <2>1 DEF Taken, Meaningful
    <3>2. QED
      BY <3>1
  <2>2. CASE ~Known(c)
    <3>1. Taken(c) = <<>>
      BY <2>2 DEF Taken
    <3>2. QED
      BY <3>1
  <2>3. QED
    BY <2>1, <2>2
<1>2. /\ word[1] \in Commands /\ word[2] \in Commands
      /\ word[3] \in Commands /\ word[4] \in Commands
  BY GeometryAssumption
<1>3. /\ Taken(word[1]) \in Seq(Meaningful) /\ Taken(word[2]) \in Seq(Meaningful)
      /\ Taken(word[3]) \in Seq(Meaningful) /\ Taken(word[4]) \in Seq(Meaningful)
      /\ Len(Taken(word[1])) <= 1 /\ Len(Taken(word[2])) <= 1
      /\ Len(Taken(word[3])) <= 1 /\ Len(Taken(word[4])) <= 1
  BY <1>1, <1>2
<1>4. QED
  BY <1>3 DEF Packed

\* A word comes only when the commands before it are complete.
LEMMA NothingOwed ==
  ASSUME CommandsInv, due = <<>>, ~stray
  PROVE  pending = <<>> /\ Idle(engine, cut) /\ inOrder = TRUE
<1>1. ASSUME NEW c \in Meaningful, NEW k \in 1 .. 32, NEW rest \in Seq(Meaningful),
             Lacking(pending, engine, due, cut, c, k, rest)
      PROVE  FALSE
  BY <1>1, OwedSteps DEF Lacking
<1>2. QED
  BY <1>1 DEF CommandsInv, Fitting

\* A packed word is stored behind its parameterless commands.
LEMMA ReceiveCommandsKeeps ==
  ASSUME NEW word \in Words, CommandsInv, ReceiveCommands(word)
  PROVE  CommandsInv'
<1>1. pending = <<>> /\ due = <<>> /\ ~stray /\ cut' = cut
  BY DEF ReceiveCommands
<1>2. Idle(engine, cut) /\ inOrder = TRUE /\ cut \in BOOLEAN
  BY <1>1, NothingOwed DEF CommandsInv, Fitting
<1>3. PICK s \in Seq(Meaningful) : s = Packed(word)
  BY PackedIs
<1>4. Len(s) <= 4 /\ Len(s) \in Nat
  BY <1>3, PackedIs
<1>5. PICK n \in 0 .. Len(s) : n = Free(s)
  BY <1>4, FreeIs
<1>6. /\ \A i \in 1 .. n : NeedsNone(s[i])
      /\ n < Len(s) => ~NeedsNone(s[n + 1])
  BY <1>4, <1>5, FreeIs
<1>7. PICK front \in Seq(Commands) : front = SubSeq(s, 1, n)
  BY Parts
<1>8. PICK behind \in Seq(Meaningful) : behind = SubSeq(s, n + 1, Len(s))
  BY Parts
<1>9. /\ Len(front) = n /\ \A i \in 1 .. n : front[i] = s[i]
      /\ Len(behind) = Len(s) - n /\ \A i \in 1 .. Len(s) - n : behind[i] = s[n + i]
  BY <1>7, <1>8, Parts
<1>10. Expand(s) = front \o Expand(behind)
  BY <1>4, <1>6, <1>7, <1>8, ExpandFree
<1>11. Expand(behind) \in Seq(Commands)
  BY <1>4, <1>9, ExpandFirst
<1>12. PICK b \in Beyond :
         LET taken == (n = Len(s) /\ NeedsNone(word[4])) /\ NeedsNone(b) IN
         /\ pending' = [i \in 1 .. Len(s) - n |-> Item(s[n + i])]
         /\ Send(front \o IF taken THEN <<b>> ELSE <<>>, Expand(s))
         /\ stray' = taken
  BY <1>3, <1>5, <1>7 DEF ReceiveCommands
<1>13. pending' = Items(behind)
  BY <1>4, <1>9, <1>12 DEF Items
<1> DEFINE taken == (n = Len(s) /\ NeedsNone(word[4])) /\ NeedsNone(b)
<1>14. CASE taken
  <2>1. behind = <<>> /\ n = Len(s)
    BY <1>4, <1>9, <1>14
  <2>2. pending' = <<>>
    BY <1>13, <2>1 DEF Items
  <2>3. Expand(s) = front
    <3>1. Expand(behind) = <<>>
      <4>1. Len(behind) <= 4
        BY <2>1
      <4>2. QED
        BY <2>1, <4>1, ExpandFirst
    <3>2. front \o <<>> = front
      OBVIOUS
    <3>3. QED
      BY <1>10, <3>1, <3>2
  <2>4. b \in Commands /\ NeedsNone(b)
    BY <1>14, GeometryAssumption
  <2>5. PICK entries \in Seq(Commands) : entries = front \o <<b>>
    <3>1. <<b>> \in Seq(Commands)
      BY <2>4
    <3>2. front \o <<b>> \in Seq(Commands)
      BY <3>1
    <3>3. QED
      BY <3>2
  <2>6. /\ Len(entries) = n + 1 /\ entries[n + 1] = b
        /\ \A i \in 1 .. n : entries[i] = front[i]
    BY <1>9, <2>4, <2>5
  <2>7. Send(entries, front) /\ stray' = TRUE
    BY <1>12, <1>14, <2>3, <2>5
  <2>8. ~(Len(entries) <= Len(front))
    BY <1>9, <2>6
  <2>9. due' = <<>> /\ inOrder' = FALSE /\ engine' = Executed(engine, entries)
    BY <2>7, <2>8 DEF Send
  <2>10. Executed(engine, entries) = engine
    <3>1. \A i \in 1 .. Len(entries) : NeedsNone(entries[i])
      BY <1>6, <1>9, <2>4, <2>6
    <3>2. Len(entries) <= 5
      BY <1>4, <2>6
    <3>3. QED
      BY <3>1, <3>2, NoneCounts
  <2>11. Fitting(<<>>, engine, <<>>, FALSE, TRUE, cut)
    BY <1>2 DEF Fitting
  <2>12. QED
    BY <1>1, <2>2, <2>7, <2>9, <2>10, <2>11 DEF CommandsInv
<1>15. CASE ~taken
  <2>1. Send(front, front \o Expand(behind)) /\ stray' = FALSE
    <3>1. front \o <<>> = front
      OBVIOUS
    <3>2. QED
      BY <1>10, <1>12, <1>15, <3>1
  <2>2. engine' = Executed(engine, front) /\ inOrder' = TRUE /\ due' = Expand(behind)
    BY <1>2, <1>11, <2>1, SentAsExpected
  <2>3. Executed(engine, front) = engine
    <3>1. Len(front) <= 5 /\ \A i \in 1 .. Len(front) : NeedsNone(front[i])
      BY <1>4, <1>6, <1>9
    <3>2. QED
      BY <3>1, NoneCounts
  <2>4. Fitting(Items(behind), engine, Expand(behind), TRUE, FALSE, cut)
    BY <1>2, <1>4, <1>5, <1>8, WaitingRest
  <2>5. QED
    BY <1>1, <1>13, <2>1, <2>2, <2>3, <2>4 DEF CommandsInv
<1>16. QED
  BY <1>14, <1>15

\* The parts of what is kept.
LEMMA StoredIs ==
  ASSUME NEW c \in Meaningful, NEW k \in 0 .. 32, NEW rest \in Seq(Meaningful)
  PROVE  /\ Stored(c, k, rest) \in Seq([command : Commands, countdown : 0 .. 32])
         /\ Len(Stored(c, k, rest)) = 1 + Len(rest) /\ Stored(c, k, rest) # <<>>
         /\ Stored(c, k, rest)[1] = [command |-> c, countdown |-> k]
         /\ Head(Stored(c, k, rest)) = [command |-> c, countdown |-> k]
         /\ \A i \in 2 .. 1 + Len(rest) : Stored(c, k, rest)[i] = Items(rest)[i - 1]
         /\ Tail(Stored(c, k, rest)) = Items(rest)
<1> DEFINE R == [command : Commands, countdown : 0 .. 32]
           item == [command |-> c, countdown |-> k]
<1>1. item \in R
  BY CountRange
<1>2. PICK t \in Seq(R) : t = Items(rest)
  BY ItemsAre
<1>3. Len(t) = Len(rest) /\ Len(t) \in Nat
  BY <1>2, ItemsAre
<1>4. Stored(c, k, rest) = <<item>> \o t
  BY <1>2 DEF Stored
<1> HIDE DEF R, item
<1>5. <<item>> \in Seq(R) /\ Len(<<item>>) = 1 /\ <<item>>[1] = item
  BY <1>1
<1>6. PICK w \in Seq(R) : w = <<item>> \o t
  <2>1. <<item>> \o t \in Seq(R)
    BY <1>5, ConcatProperties
  <2>2. QED
    BY <2>1
<1>7. Len(w) = 1 + Len(t) /\ w[1] = item /\ \A i \in 2 .. 1 + Len(t) : w[i] = t[i - 1]
  BY <1>3, <1>5, <1>6
<1>8. w # <<>> /\ Head(w) = item
  BY <1>3, <1>7
<1>9. Tail(w) = t
  <2>1. Tail(w) \in Seq(R) /\ Len(Tail(w)) = Len(t) /\ \A i \in 1 .. Len(t) : Tail(w)[i] = w[i + 1]
    BY <1>3, <1>7, <1>8, HeadTailProperties
  <2>2. \A i \in 1 .. Len(t) : Tail(w)[i] = t[i]
    BY <1>3, <1>7, <2>1
  <2>3. QED
    BY <2>1, <2>2, SeqEqual
<1>10. QED
  BY <1>2, <1>3, <1>4, <1>6, <1>7, <1>8, <1>9 DEF R, item

\* The countdown of the command in front.
LEMMA StoredCounts ==
  ASSUME NEW c \in Meaningful, NEW k \in 2 .. 32, NEW rest \in Seq(Meaningful),
         NEW p, p = Stored(c, k, rest)
  PROVE  [p EXCEPT ![1].countdown = @ - 1] = Stored(c, k - 1, rest)
<1> DEFINE R == [command : Commands, countdown : 0 .. 32]
           item == [command |-> c, countdown |-> k - 1]
           w == [p EXCEPT ![1] = item]
<1>0. k - 1 \in 0 .. 32 /\ k \in 0 .. 32 /\ Len(rest) \in Nat
  OBVIOUS
<1>1. /\ p \in Seq(R) /\ Len(p) = 1 + Len(rest)
      /\ p[1] = [command |-> c, countdown |-> k]
      /\ \A i \in 2 .. 1 + Len(rest) : p[i] = Items(rest)[i - 1]
  BY <1>0, StoredIs
<1>2. [p EXCEPT ![1].countdown = @ - 1] = w
  <2>1. [p[1] EXCEPT !.countdown = p[1].countdown - 1] = item
    BY <1>1
  <2>2. QED
    BY <2>1
<1>3. item \in R
  BY <1>0, CountRange
<1>4. /\ Stored(c, k - 1, rest) \in Seq(R) /\ Len(Stored(c, k - 1, rest)) = 1 + Len(rest)
      /\ Stored(c, k - 1, rest)[1] = item
      /\ \A i \in 2 .. 1 + Len(rest) : Stored(c, k - 1, rest)[i] = Items(rest)[i - 1]
  BY <1>0, StoredIs
<1> HIDE DEF R, item
<1>5. /\ w \in Seq(R) /\ Len(w) = 1 + Len(rest) /\ w[1] = item
      /\ \A i \in 2 .. 1 + Len(rest) : w[i] = p[i]
  BY <1>0, <1>1, <1>3
<1> HIDE DEF w
<1>6. \A i \in 1 .. 1 + Len(rest) : w[i] = Stored(c, k - 1, rest)[i]
  <2> SUFFICES ASSUME NEW i \in 1 .. 1 + Len(rest)
               PROVE  w[i] = Stored(c, k - 1, rest)[i]
    OBVIOUS
  <2>1. CASE i = 1
    BY <1>4, <1>5, <2>1
  <2>2. CASE i \in 2 .. 1 + Len(rest)
    BY <1>1, <1>4, <1>5, <2>2
  <2>3. i = 1 \/ i \in 2 .. 1 + Len(rest)
    BY <1>0
  <2>4. QED
    BY <2>1, <2>2, <2>3
<1>7. w = Stored(c, k - 1, rest)
  BY <1>4, <1>5, <1>6, SeqEqual
<1>8. QED
  BY <1>2, <1>7

\* The unpacker's step for the command in front.
LEMMA ParameterTaken ==
  ASSUME NEW c \in Meaningful, NEW k \in 1 .. 32, NEW rest \in Seq(Meaningful), Len(rest) <= 3,
         pending = Stored(c, k, rest), ReceiveParameter
  PROVE  /\ k > 1 => pending' = Stored(c, k - 1, rest) /\ Send(<<c>>, due)
         /\ k = 1 => /\ pending' = Items(SubSeq(rest, Free(rest) + 1, Len(rest)))
                     /\ Send(<<c>> \o SubSeq(rest, 1, Free(rest)), due)
<1>0. k \in 0 .. 32 /\ Len(rest) \in Nat /\ Len(rest) <= 4
  OBVIOUS
<1>1. /\ Head(pending) = [command |-> c, countdown |-> k] /\ Tail(pending) = Items(rest)
  BY <1>0, StoredIs
<1>2. Head(pending).command = c /\ Head(pending).countdown = k
  BY <1>1
<1>3. Len(Items(rest)) = Len(rest) /\ \A i \in 1 .. Len(rest) : Items(rest)[i] = Item(rest[i])
  BY ItemsAre
<1>4. [i \in 1 .. Len(Tail(pending)) |-> Tail(pending)[i].command] = rest
  <2>1. [i \in 1 .. Len(Items(rest)) |-> Items(rest)[i].command] = [i \in 1 .. Len(rest) |-> rest[i]]
    <3>1. \A c1 : Item(c1).command = c1
      BY DEF Item
    <3>2. \A i \in 1 .. Len(rest) : Items(rest)[i].command = rest[i]
      BY <1>3, <3>1
    <3>3. QED
      BY <1>3, <3>2
  <2>2. [i \in 1 .. Len(rest) |-> rest[i]] = rest
    BY LenProperties
  <2>3. QED
    BY <1>1, <2>1, <2>2
<1>5. ASSUME k > 1
      PROVE  pending' = Stored(c, k - 1, rest) /\ Send(<<c>>, due)
  <2>1. pending' = [pending EXCEPT ![1].countdown = @ - 1] /\ Send(<<c>>, due)
    BY <1>2, <1>5 DEF ReceiveParameter
  <2>2. k \in 2 .. 32
    BY <1>5
  <2>3. pending' = Stored(c, k - 1, rest)
    BY <2>1, <2>2, StoredCounts
  <2>4. QED
    BY <2>1, <2>3
<1>6. ASSUME k = 1
      PROVE  /\ pending' = Items(SubSeq(rest, Free(rest) + 1, Len(rest)))
             /\ Send(<<c>> \o SubSeq(rest, 1, Free(rest)), due)
  <2>1. ~(Head(pending).countdown > 1)
    BY <1>2, <1>6
  <2>2. /\ pending' = SubSeq(Tail(pending), Free(rest) + 1, Len(Tail(pending)))
        /\ Send(<<Head(pending).command>> \o SubSeq(rest, 1, Free(rest)), due)
    BY <1>4, <2>1 DEF ReceiveParameter
  <2>3. PICK n \in 0 .. Len(rest) : n = Free(rest)
    BY <1>0, FreeIs
  <2>4. PICK behind \in Seq(Meaningful) : behind = SubSeq(rest, n + 1, Len(rest))
    BY Parts
  <2>5. Len(behind) = Len(rest) - n /\ \A i \in 1 .. Len(rest) - n : behind[i] = rest[n + i]
    BY <2>4, Parts
  <2>6. SubSeq(Items(rest), n + 1, Len(rest)) = Items(behind)
    <3> DEFINE R == [command : Commands, countdown : 0 .. 32]
    <3>1. Items(rest) \in Seq(R) /\ Len(Items(rest)) = Len(rest)
      BY ItemsAre
    <3>2. /\ Items(behind) \in Seq(R) /\ Len(Items(behind)) = Len(rest) - n
          /\ \A i \in 1 .. Len(rest) - n : Items(behind)[i] = Item(rest[n + i])
      BY <2>5, ItemsAre
    <3> HIDE DEF R
    <3>3. /\ SubSeq(Items(rest), n + 1, Len(rest)) \in Seq(R)
          /\ Len(SubSeq(Items(rest), n + 1, Len(rest))) = Len(rest) - n
          /\ \A i \in 1 .. Len(rest) - n : SubSeq(Items(rest), n + 1, Len(rest))[i] = Items(rest)[n + i]
      BY <1>0, <3>1
    <3>4. \A i \in 1 .. Len(rest) - n : Items(rest)[n + i] = Item(rest[n + i])
      BY <1>0, <1>3
    <3>5. QED
      BY <3>2, <3>3, <3>4, SeqEqual
  <2>7. QED
    BY <1>1, <1>2, <1>3, <2>2, <2>3, <2>4, <2>6
<1>7. QED
  BY <1>5, <1>6

\* A parameter of the command in front, and the parameterless commands behind it.
LEMMA ReceiveParameterKeeps ==
  ASSUME CommandsInv, ReceiveParameter
  PROVE  CommandsInv'
<1>1. pending # <<>> /\ stray' = stray /\ cut' = cut
  BY DEF ReceiveParameter
<1>2. /\ ~stray /\ inOrder = TRUE /\ cut \in BOOLEAN /\ stray = FALSE
      /\ \E c \in Meaningful, k \in 1 .. 32, rest \in Seq(Meaningful) :
            Lacking(pending, engine, due, cut, c, k, rest)
  BY <1>1 DEF CommandsInv, Fitting
<1>3. PICK c \in Meaningful, k \in 1 .. 32, rest \in Seq(Meaningful) :
        Lacking(pending, engine, due, cut, c, k, rest)
  BY <1>2
<1>4. /\ ~NeedsNone(c) /\ k <= commandTypes[c] /\ Len(rest) <= 3
      /\ pending = Stored(c, k, rest)
      /\ due = Copies(c, k) \o Expand(rest)
      /\ EngineAt(engine, cut, c, commandTypes[c] - k)
  BY <1>1, <1>3 DEF Lacking
<1>5. c \in Commands /\ commandTypes[c] \in 0 .. 32 /\ Len(rest) \in Nat /\ Len(rest) <= 4
      /\ k \in 1 .. commandTypes[c]
  BY <1>4, CountRange
<1>6. LET later == IF k > 1 THEN Copies(c, k - 1) \o Expand(rest) ELSE Expand(rest)
      IN  later \in Seq(Commands) /\ <<c>> \in Seq(Commands) /\ due = <<c>> \o later
  BY <1>4, OwedSteps
<1>7. CASE k > 1
  <2>1. pending' = Stored(c, k - 1, rest) /\ Send(<<c>>, due)
    BY <1>4, <1>7, ParameterTaken
  <2>2. PICK later \in Seq(Commands) : later = Copies(c, k - 1) \o Expand(rest)
    BY <1>6, <1>7
  <2>3. Send(<<c>>, <<c>> \o later)
    BY <1>6, <1>7, <2>1, <2>2
  <2>4. engine' = Executed(engine, <<c>>) /\ inOrder' = TRUE /\ due' = later
    BY <1>2, <1>6, <2>3, SentAsExpected
  <2>5. engine' = Execute(engine, c)
    BY <1>5, <2>4, OneCounts
  <2>6. EngineAt(engine', cut, c, commandTypes[c] - (k - 1))
    BY <1>2, <1>4, <1>5, <1>7, <2>5, TakesOne
  <2>7. k - 1 \in 1 .. 32 /\ k - 1 <= commandTypes[c] /\ k - 1 \in 0 .. 32
    <3>1. PICK m \in 0 .. 32 : m = commandTypes[c]
      BY <1>5
    <3>2. k <= m
      BY <1>4, <3>1
    <3>3. k - 1 \in 1 .. 32 /\ k - 1 <= m /\ k - 1 \in 0 .. 32
      BY <1>7, <3>2
    <3>4. QED
      BY <3>1, <3>3
  <2>8. Lacking(pending', engine', due', cut, c, k - 1, rest)
    BY <1>4, <2>1, <2>2, <2>4, <2>6, <2>7 DEF Lacking
  <2>9. pending' \in Seq([command : Commands, countdown : 0 .. 32]) /\ Len(pending') <= 4
    <3>1. /\ Stored(c, k - 1, rest) \in Seq([command : Commands, countdown : 0 .. 32])
          /\ Len(Stored(c, k - 1, rest)) = 1 + Len(rest)
      BY <2>7, StoredIs
    <3>2. 1 + Len(rest) <= 4
      BY <1>4, <1>5
    <3>3. QED
      BY <2>1, <3>1, <3>2
  <2>10. QED
    BY <1>1, <1>2, <2>2, <2>4, <2>7, <2>8, <2>9 DEF CommandsInv, Fitting
<1>8. CASE k = 1
  <2>1. PICK n \in 0 .. Len(rest) : n = Free(rest)
    BY <1>5, FreeIs
  <2>2. \A i \in 1 .. n : NeedsNone(rest[i])
    BY <1>5, <2>1, FreeIs
  <2>3. PICK front \in Seq(Commands) : front = SubSeq(rest, 1, n)
    BY Parts
  <2>4. PICK behind \in Seq(Meaningful) : behind = SubSeq(rest, n + 1, Len(rest))
    BY Parts
  <2>5. /\ Len(front) = n /\ \A i \in 1 .. n : front[i] = rest[i]
        /\ Len(behind) = Len(rest) - n
    BY <2>3, <2>4, Parts
  <2>6. pending' = Items(behind) /\ Send(<<c>> \o front, due)
    BY <1>4, <1>8, <2>1, <2>3, <2>4, ParameterTaken
  <2>7. <<c>> \o front \in Seq(Commands)
    BY <1>6
  <2>8. PICK entries \in Seq(Commands) : entries = <<c>> \o front
    BY <2>7
  <2>9. /\ Len(entries) = n + 1 /\ entries[1] = c
        /\ \A i \in 2 .. n + 1 : entries[i] = front[i - 1]
    BY <1>5, <2>5, <2>8
  <2>10. Expand(behind) \in Seq(Commands)
    <3>1. Len(behind) <= 4
      BY <1>5, <2>5
    <3>2. QED
      BY <3>1, ExpandFirst
  <2>11. due = entries \o Expand(behind)
    <3>1. Expand(rest) = front \o Expand(behind)
      BY <1>5, <2>2, <2>3, <2>4, ExpandFree
    <3>2. due = <<c>> \o (front \o Expand(behind))
      BY <1>6, <1>8, <3>1
    <3>3. (<<c>> \o front) \o Expand(behind) = <<c>> \o (front \o Expand(behind))
      BY <1>6, <2>10, Joined, Zenon
    <3>4. QED
      BY <2>8, <3>2, <3>3
  <2>12. engine' = Executed(engine, entries) /\ inOrder' = TRUE /\ due' = Expand(behind)
    BY <1>2, <2>6, <2>8, <2>10, <2>11, SentAsExpected
  <2>13. engine' = Execute(engine, c)
    <3>1. Len(entries) \in 1 .. 5
      BY <1>5, <2>9
    <3>2. \A i \in 2 .. Len(entries) : NeedsNone(entries[i])
      BY <1>5, <2>2, <2>5, <2>9
    <3>3. QED
      BY <2>9, <2>12, <3>1, <3>2, OnlyFirstCounts
  <2>14. Idle(engine', cut)
    BY <1>2, <1>4, <1>5, <1>8, <2>13, TakesOne
  <2>15. Fitting(Items(behind), engine', Expand(behind), TRUE, FALSE, cut)
    BY <1>2, <1>5, <2>1, <2>4, <2>14, WaitingRest
  <2>16. QED
    BY <1>1, <1>2, <2>6, <2>12, <2>15 DEF CommandsInv
<1>9. k = 1 \/ k > 1
  OBVIOUS
<1>10. QED
  BY <1>7, <1>8, <1>9

\* One parameter of a command that is owed some and that nothing waits behind.
LEMMA OneLess ==
  ASSUME NEW c \in Meaningful, NEW k \in 1 .. 32, ~NeedsNone(c), k <= commandTypes[c],
         EngineAt(engine, cut, c, commandTypes[c] - k),
         inOrder = TRUE, cut \in BOOLEAN,
         Send(<<c>>, Copies(c, k) \o <<>>)
  PROVE  Fitting(<<>>, engine', due', inOrder', FALSE, cut)
<1>1. <<>> \in Seq(Meaningful)
  OBVIOUS
<1>2. PICK rest \in Seq(Meaningful) : rest = <<>>
  BY <1>1
<1>3. Len(rest) <= 3 /\ Expand(rest) = <<>>
  <2>1. Len(rest) <= 3
    BY <1>2
  <2>2. QED
    BY <1>2, <2>1, ExpandNone
<1>4. LET later == IF k > 1 THEN Copies(c, k - 1) \o Expand(rest) ELSE Expand(rest)
      IN  later \in Seq(Commands) /\ <<c>> \in Seq(Commands) /\ Copies(c, k) \o Expand(rest) = <<c>> \o later
  BY <1>3, OwedSteps
<1>5. PICK later \in Seq(Commands) :
        later = IF k > 1 THEN Copies(c, k - 1) \o Expand(rest) ELSE Expand(rest)
  BY <1>4
<1>6. Send(<<c>>, <<c>> \o later) /\ <<c>> \in Seq(Commands)
  BY <1>3, <1>4, <1>5
<1>7. engine' = Executed(engine, <<c>>) /\ inOrder' = TRUE /\ due' = later
  BY <1>6, SentAsExpected
<1>8. c \in Commands /\ commandTypes[c] \in 0 .. 32 /\ k \in 1 .. commandTypes[c]
  BY CountRange
<1>9. engine' = Execute(engine, c)
  BY <1>7, <1>8, OneCounts
<1>10. IF k > 1 THEN EngineAt(engine', cut, c, commandTypes[c] - (k - 1)) ELSE Idle(engine', cut)
  BY <1>8, <1>9, TakesOne
<1>11. CASE k > 1
  <2>1. PICK m \in 0 .. 32 : m = commandTypes[c]
    BY <1>8
  <2>2. k - 1 \in 1 .. 32 /\ k - 1 <= m
    BY <1>11, <2>1
  <2>3. PICK l \in 1 .. 32 : l = k - 1
    BY <2>2
  <2>4. Lacking(<<>>, engine', due', cut, c, l, rest)
    BY <1>2, <1>3, <1>5, <1>7, <1>10, <1>11, <2>1, <2>2, <2>3 DEF Lacking
  <2>5. due' \in Seq(Commands)
    BY <1>7
  <2>6. <<>> \in Seq([command : Commands, countdown : 0 .. 32]) /\ Len(<<>>) <= 4
    OBVIOUS
  <2>7. \E d \in Meaningful, q \in 1 .. 32, r \in Seq(Meaningful) :
          Lacking(<<>>, engine', due', cut, d, q, r)
    BY <2>4
  <2>8. inOrder' \in BOOLEAN /\ inOrder' /\ cut \in BOOLEAN
    BY <1>7
  <2>9. QED
    BY <2>5, <2>6, <2>7, <2>8 DEF Fitting
<1>12. CASE k = 1
  <2>1. due' = <<>> /\ Idle(engine', cut)
    BY <1>3, <1>5, <1>7, <1>10, <1>12
  <2>2. QED
    BY <1>7, <2>1 DEF Fitting
<1>13. k = 1 \/ k > 1
  OBVIOUS
<1>14. QED
  BY <1>11, <1>12, <1>13

\* A word for the port of a command.
LEMMA SendCommandKeeps ==
  ASSUME NEW c \in Ports, CommandsInv, SendCommand(c)
  PROVE  CommandsInv'
<1>1. /\ pending = <<>> /\ pending' = <<>> /\ ~stray /\ stray' = stray /\ cut' = cut
      /\ due # <<>> => Head(due) = c
      /\ Send(<<c>>, IF due = <<>> THEN Expand(<<c>>) ELSE due)
  BY DEF SendCommand
<1>2. c \in Meaningful
  BY GeometryAssumption DEF Meaningful
<1>3. c \in Commands /\ commandTypes[c] \in 0 .. 32
  BY <1>2, CountRange
<1>4. cut \in BOOLEAN /\ stray = FALSE
  BY <1>1 DEF CommandsInv, Fitting
<1>5. CASE due = <<>>
  <2>1. Idle(engine, cut) /\ inOrder = TRUE
    BY <1>1, <1>5, NothingOwed
  <2>2. <<c>> \in Seq(Meaningful)
    BY <1>2
  <2>3. PICK s \in Seq(Meaningful) : s = <<c>>
    BY <2>2
  <2>4. Len(s) = 1 /\ s[1] = c /\ s # <<>> /\ Len(s) <= 4 /\ Tail(s) = <<>>
    BY <2>3
  <2>5. Expand(Tail(s)) = <<>>
    <3>1. <<>> \in Seq(Meaningful) /\ Len(<<>>) <= 4
      OBVIOUS
    <3>2. Expand(<<>>) = <<>>
      BY <3>1, ExpandFirst
    <3>3. QED
      BY <2>4, <3>2
  <2>6. Expand(<<c>>) = Copies(c, Times(c)) \o <<>>
    BY <2>3, <2>4, <2>5, ExpandFirst
  <2>7. Send(<<c>>, Copies(c, Times(c)) \o <<>>)
    BY <1>1, <1>5, <2>6
  <2>8. CASE NeedsNone(c)
    <3>1. Copies(c, Times(c)) = <<c>>
      BY <2>8, Once DEF Times
    <3>2. <<>> \in Seq(Commands) /\ <<c>> \in Seq(Commands)
      BY <1>3
    <3>3. engine' = Executed(engine, <<c>>) /\ inOrder' = TRUE /\ due' = <<>>
      BY <2>1, <2>7, <3>1, <3>2, SentAsExpected
    <3>4. engine' = engine
      BY <1>3, <2>8, <3>3, OneCounts, FreeChangesNothing
    <3>5. Fitting(<<>>, engine, <<>>, TRUE, FALSE, cut)
      BY <1>4, <2>1 DEF Fitting
    <3>6. QED
      BY <1>1, <1>4, <3>3, <3>4, <3>5 DEF CommandsInv
  <2>9. CASE ~NeedsNone(c)
    <3>1. PICK k \in 1 .. 32 : k = commandTypes[c]
      BY <1>3, <2>9 DEF NeedsNone, NOARG
    <3>2. k <= commandTypes[c] /\ commandTypes[c] - k = 0 /\ Times(c) = k
      BY <2>9, <3>1 DEF Times
    <3>3. EngineAt(engine, cut, c, commandTypes[c] - k)
      BY <1>4, <2>1, <3>2, IdleStarts
    <3>4. Fitting(<<>>, engine', due', inOrder', FALSE, cut)
      BY <1>2, <1>4, <2>1, <2>7, <2>9, <3>2, <3>3, OneLess
    <3>5. QED
      BY <1>1, <1>4, <3>4 DEF CommandsInv
  <2>10. QED
    BY <2>8, <2>9
<1>6. CASE due # <<>>
  <2>1. /\ inOrder = TRUE
        /\ \E d \in Meaningful, k \in 1 .. 32, rest \in Seq(Meaningful) :
             Lacking(pending, engine, due, cut, d, k, rest)
    BY <1>1, <1>6 DEF CommandsInv, Fitting
  <2>2. PICK d \in Meaningful, k \in 1 .. 32, rest \in Seq(Meaningful) :
          Lacking(pending, engine, due, cut, d, k, rest)
    BY <2>1
  <2>3. /\ ~NeedsNone(d) /\ k <= commandTypes[d] /\ Len(rest) <= 3
        /\ due = Copies(d, k) \o Expand(rest)
        /\ EngineAt(engine, cut, d, commandTypes[d] - k)
        /\ rest = <<>> \/ pending = Stored(d, k, rest)
    BY <2>2 DEF Lacking
  <2>4. rest = <<>>
    <3>1. k \in 0 .. 32
      OBVIOUS
    <3>2. Stored(d, k, rest) # <<>>
      BY <3>1, StoredIs
    <3>3. QED
      BY <1>1, <2>3, <3>2
  <2>5. d = c
    BY <1>1, <1>6, <2>3, OwedSteps
  <2>6. Expand(rest) = <<>>
    <3>1. Len(rest) <= 4
      BY <2>4
    <3>2. QED
      BY <2>4, <3>1, ExpandFirst
  <2>7. Send(<<c>>, Copies(c, k) \o <<>>)
    BY <1>1, <1>6, <2>3, <2>5, <2>6
  <2>8. Fitting(<<>>, engine', due', inOrder', FALSE, cut)
    BY <1>2, <1>4, <2>1, <2>3, <2>5, <2>7, OneLess
  <2>9. QED
    BY <1>1, <1>4, <2>8 DEF CommandsInv
<1>7. QED
  BY <1>5, <1>6

\* The answer of a box test touches no index.
LEMMA BoxTestPassesKeeps ==
  ASSUME CommandsInv, BoxTestPasses
  PROVE  CommandsInv'
<1>1. ASSUME NEW c, NEW j, EngineAt(engine, cut, c, j)
      PROVE  EngineAt(engine', cut, c, j)
  <2>1. /\ DOMAIN engine' = {"ind", "tb", "tr", "placed", "whole"}
        /\ engine'.ind = engine.ind /\ engine'.tb = engine.tb /\ engine'.tr = TRUE
        /\ engine'.placed = engine.placed /\ engine'.whole = engine.whole
    BY <1>1 DEF EngineAt, BoxTestPasses
  <2>2. QED
    BY <1>1, <2>1 DEF EngineAt
<1>2. /\ pending' = pending /\ due' = due /\ inOrder' = inOrder /\ stray' = stray /\ cut' = cut
  BY DEF BoxTestPasses
<1>3. CASE pending = <<>> /\ due = <<>> /\ Idle(engine, cut) /\ (inOrder \/ stray)
  <2>1. Idle(engine', cut)
    BY <1>1, <1>3 DEF Idle
  <2>2. QED
    BY <1>2, <1>3, <2>1 DEF CommandsInv, Fitting
<1>4. ASSUME ~stray /\ inOrder,
             NEW c \in Meaningful, NEW k \in 1 .. 32, NEW rest \in Seq(Meaningful),
             Lacking(pending, engine, due, cut, c, k, rest)
      PROVE  CommandsInv'
  <2>1. Lacking(pending, engine', due, cut, c, k, rest)
    BY <1>1, <1>4 DEF Lacking
  <2>2. Fitting(pending, engine', due, inOrder, stray, cut)
    BY <1>4, <2>1 DEF CommandsInv, Fitting
  <2>3. QED
    BY <1>2, <2>2 DEF CommandsInv
<1>5. QED
  BY <1>3, <1>4 DEF CommandsInv, Fitting

\* A reset leaves only the index of the shininess table.
LEMMA ResetKeeps ==
  ASSUME CommandsInv, gfx3d_reset
  PROVE  CommandsInv'
<1>1. /\ DOMAIN engine = {"ind", "tb", "tr", "placed", "whole"}
      /\ engine.ind \in [Collecting -> 0 .. 127]
  BY DEF CommandsInv, Fitting, Lacking, Idle, EngineAt
<1> DEFINE indexes == [c \in Collecting |-> IF c = "shininess" THEN engine.ind[c] ELSE 0]
           again == (engine.ind["shininess"] # 0)
<1>2. engine' = [engine EXCEPT !.ind = indexes, !.placed = {}, !.whole = TRUE, !.tb = FALSE, !.tr = FALSE]
  BY DEF gfx3d_reset
<1>3. /\ indexes \in [Collecting -> 0 .. 127]
      /\ \A d \in Collecting : /\ indexes[d] = 0 \/ (d = "shininess" /\ again)
                               /\ d # "nop"
  BY <1>1 DEF Collecting
<1>4. cut' = again
  BY DEF gfx3d_reset
<1>5. again \in BOOLEAN
  OBVIOUS
<1> HIDE DEF indexes, again
<1>6. /\ DOMAIN engine' = {"ind", "tb", "tr", "placed", "whole"}
      /\ engine'.ind = indexes /\ engine'.tb = FALSE /\ engine'.tr = FALSE
      /\ engine'.placed = {} /\ engine'.whole = TRUE
  BY <1>1, <1>2
<1>7. "nop" \notin Matrices
  BY DEF Matrices
<1>8. Idle(engine', again)
  BY <1>3, <1>6, <1>7 DEF Idle, EngineAt
<1>9. Fitting(<<>>, engine', <<>>, TRUE, FALSE, again)
  BY <1>5, <1>8 DEF Fitting
<1>10. QED
  BY <1>4, <1>9 DEF CommandsInv, gfx3d_reset

\* The invariant says what is promised.
LEMMA CommandsInvPromises ==
  ASSUME CommandsInv
  PROVE  CommandsWhole
<1>1. /\ DOMAIN engine = {"ind", "tb", "tr", "placed", "whole"}
      /\ engine.ind \in [Collecting -> 0 .. 127]
      /\ engine.tb \in BOOLEAN /\ engine.tr \in BOOLEAN /\ engine.whole \in BOOLEAN
      /\ engine.whole
  BY DEF CommandsInv, Fitting, Lacking, Idle, EngineAt
<1>2. engine.placed \subseteq 0 .. 15
  <2>1. CASE Idle(engine, cut)
    BY <2>1 DEF Idle, EngineAt, Matrices
  <2>2. ASSUME NEW c \in Meaningful, NEW k \in 1 .. 32, NEW rest \in Seq(Meaningful),
               Lacking(pending, engine, due, cut, c, k, rest)
        PROVE  engine.placed \subseteq 0 .. 15
    <3>1. EngineAt(engine, cut, c, commandTypes[c] - k)
      BY <2>2 DEF Lacking
    <3>2. CASE c \notin Matrices
      BY <3>1, <3>2 DEF EngineAt
    <3>3. CASE c \in Matrices
      <4>1. PICK m \in 0 .. 32 : m = commandTypes[c]
        BY CountRange
      <4>2. engine.placed = {At(c, i) : i \in 0 .. (m - k) - 1}
        BY <3>1, <3>3, <4>1 DEF EngineAt
      <4>3. \A i \in 0 .. (m - k) - 1 : i \in 0 .. m - 1
        BY <4>1
      <4>4. \A i \in 0 .. m - 1 : At(c, i) \in 0 .. 15
        BY <3>3, <4>1, Advances, Counted
      <4>5. QED
        BY <4>2, <4>3, <4>4
    <3>4. QED
      BY <3>2, <3>3
  <2>3. QED
    BY <2>1, <2>2 DEF CommandsInv, Fitting
<1>3. GeometryTypeOK
  BY <1>1, <1>2 DEF CommandsInv, Fitting, GeometryTypeOK
<1>4. UnpackedInOrder
  BY DEF UnpackedInOrder, CommandsInv, Fitting
<1>5. NothingWithheld
  <2>1. ASSUME pending # <<>>, ~stray
        PROVE  due # <<>> /\ Head(due) = pending[1].command /\ ~NeedsNone(Head(due))
    <3>1. PICK c \in Meaningful, k \in 1 .. 32, rest \in Seq(Meaningful) :
            Lacking(pending, engine, due, cut, c, k, rest)
      BY <2>1 DEF CommandsInv, Fitting
    <3>2. /\ ~NeedsNone(c) /\ Len(rest) <= 3 /\ pending = Stored(c, k, rest)
          /\ due = Copies(c, k) \o Expand(rest)
      BY <2>1, <3>1 DEF Lacking
    <3>3. k \in 0 .. 32
      OBVIOUS
    <3>4. pending[1] = [command |-> c, countdown |-> k]
      BY <3>2, <3>3, StoredIs
    <3>5. pending[1].command = c
      BY <3>4
    <3>6. due # <<>> /\ Head(due) = c
      BY <3>2, OwedSteps
    <3>7. QED
      BY <3>2, <3>5, <3>6
  <2>2. QED
    BY <2>1 DEF NothingWithheld
<1>6. ParametersMatch
  <2>1. ASSUME due = <<>>, ~stray
        PROVE  Idle(engine, cut)
    BY <2>1, NothingOwed
  <2>2. "nop" \notin Collecting
    BY DEF Collecting
  <2>3. QED
    BY <2>1, <2>2 DEF ParametersMatch, Idle, EngineAt
<1>7. WholeMatrix
  BY <1>1 DEF WholeMatrix
<1>8. QED
  BY <1>3, <1>4, <1>5, <1>6, <1>7 DEF CommandsWhole

\* For all words a game may pack, ports it may write and bytes that may lie behind the array:
\* the engine is called with what was packed, in order and with all parameters, and every
\* handler's count agrees with gfx3d_commandTypes (GXF_Hardware, gfx3d_execute).
THEOREM CommandsAreWhole == GeometrySpec => []CommandsWhole
<1>1. GeometryInit => CommandsInv
  BY CommandsInit
<1>2. CommandsInv /\ [GeometryNext]_geometryVars => CommandsInv'
  <2> SUFFICES ASSUME CommandsInv, [GeometryNext]_geometryVars
               PROVE  CommandsInv'
    OBVIOUS
  <2>1. ASSUME NEW word \in Words, ReceiveCommands(word)
        PROVE  CommandsInv'
    BY <2>1, ReceiveCommandsKeeps
  <2>2. CASE ReceiveParameter
    BY <2>2, ReceiveParameterKeeps
  <2>3. ASSUME NEW c \in Ports, SendCommand(c)
        PROVE  CommandsInv'
    BY <2>3, SendCommandKeeps
  <2>4. CASE BoxTestPasses
    BY <2>4, BoxTestPassesKeeps
  <2>5. CASE gfx3d_reset
    BY <2>5, ResetKeeps
  <2>6. CASE UNCHANGED geometryVars
    BY <2>6 DEF geometryVars, CommandsInv
  <2>7. QED
    BY <2>1, <2>2, <2>3, <2>4, <2>5, <2>6 DEF GeometryNext
<1>3. CommandsInv => CommandsWhole
  BY CommandsInvPromises
<1>4. QED
  BY <1>1, <1>2, <1>3, PTL DEF GeometrySpec

-----------------------------------------------------------------------------
(* Serial bus: the invariant *)

Active == ~Quiet
Flash == [0 .. FirmwareSize - 1 -> Int]
FirmwareRecords ==
  [com : {0, READ, READSTATUS, PAGEWRITE, READ_ID}, addr : Nat, addr_shift : 0 .. 3, write_enable : BOOLEAN]
FirmwareOK == {f \in FirmwareRecords : f.com = READ_ID => f.addr \in 0 .. 2}
PowerFile == [1 .. 5 -> Int]
Devices == 0 .. 2
SentBytes == 0 .. 255
XPlaces == {TouchX, Flip16(TouchX)}
YPlaces == {TouchY, Flip16(TouchY)}
SpiRecords ==
  [dev : Devices, hold : BOOLEAN, slow : BOOLEAN, cmd : SentBytes, data : Int, partie : {0, 1}, cntReg : SentBytes,
   written : BOOLEAN, power : PowerFile, halted : BOOLEAN, fw : FirmwareOK, flash : Flash,
   x : XPlaces, y : YPlaces, jitterctr : Int]
SpiOK(s) == s \in SpiRecords
DriveRecords == [script : Seq(0 .. 255), dev : 0 .. 2, i : Nat, lazy : BOOLEAN, slow : BOOLEAN, left : Int]
ChipRecords ==
  [bytes : Seq(0 .. 255), enabled : BOOLEAN, flash : Flash, power : [1 .. 5 -> Int], odd : BOOLEAN, outOfPhase : BOOLEAN,
   torn : BOOLEAN, spoiled : BOOLEAN, reply : Int, heard : Seq(Int)]
SerialTypeOK == SpiOK(spi) /\ drive \in DriveRecords /\ chip \in ChipRecords

\* Where a script stands: what the select line and the chip have seen of it.
ScriptInv ==
  /\ Quiet => ~spi.hold /\ chip.bytes = <<>> /\ drive.i = 0
  /\ Active =>
       /\ \E s \in Scripts : s.dev = drive.dev /\ s.bytes = drive.script
       /\ drive.i \in 1 .. Len(drive.script) /\ Len(chip.bytes) = drive.i - 1
       /\ drive.i = 1 => ~spi.hold
       /\ drive.i > 1 => spi.dev = drive.dev /\ spi.hold /\ ~drive.lazy
       /\ drive.lazy => Len(drive.script) = 1 /\ spi.dev = drive.dev

\* What the firmware keeps of a selection (mc.com, mc.addr, mc.addr_shift), and what between two.
AddressSent(c) == c.bytes[1] = READ \/ (c.bytes[1] = PAGEWRITE /\ c.enabled)
AddressHeard(f, u) ==
  LET n == Len(u)
      at == AddressOf(u) + n - 4
  IN  /\ f.com = u[1]
      /\ n = 1 => f.addr_shift = 3 /\ f.addr = 0
      /\ n = 2 => f.addr_shift = 2 /\ f.addr = u[2] * 65536
      /\ n = 3 => f.addr_shift = 1 /\ f.addr = u[2] * 65536 + u[3] * 256
      /\ n >= 4 => f.addr_shift = 0 /\ (f.addr = at \/ (f.addr >= FirmwareSize /\ at >= FirmwareSize))
FirmwareHears(f, c) ==
  /\ f.write_enable = c.enabled
  /\ AddressSent(c) => AddressHeard(f, c.bytes)
  /\ c.bytes[1] = READSTATUS => f.com = READSTATUS
  /\ c.bytes[1] = READ_ID => f.com = READ_ID /\ f.addr = (Len(c.bytes) - 1) % 3
  /\ TakesNone(c, c.bytes[1]) => f.com = 0
FirmwareRests(f, c) == IF f.com = PAGEWRITE THEN ~c.enabled ELSE f.write_enable = c.enabled
InFirmware == Active /\ drive.dev = Firmware /\ drive.i > 1
FirmwareInv ==
  ~chip.odd =>
    /\ spi.flash = chip.flash
    /\ drive.dev = Firmware /\ drive.i # 1 /\ chip.reply # -1 => spi.data = chip.reply
    /\ InFirmware => FirmwareHears(spi.fw, chip)
    /\ ~InFirmware => FirmwareRests(spi.fw, chip)

\* Power management waits for a value exactly behind the index of a script.
PowerInv ==
  ~chip.outOfPhase =>
    /\ spi.power = chip.power /\ spi.halted = PowerOff(spi.power)
    /\ drive.dev = PowerManagement /\ drive.i # 1 /\ chip.reply # -1 => spi.data = chip.reply
    /\ Active => ~spi.halted
    /\ (spi.written <=> Active /\ drive.dev = PowerManagement /\ drive.i = 2)
    /\ spi.written => spi.cntReg = chip.bytes[1]

\* The converter is at its other half behind an odd number of bytes, or if the measurement before was torn.
Nominal == [c \in 0 .. 7 |-> CASE c = 0 -> 716 [] c = 7 -> 865 [] c = 1 -> TouchY [] c = 5 -> TouchX
                               [] c \in {3, 4} -> Pressure[c] [] OTHER -> 0]
InTouch == Active /\ drive.dev = TouchScreen
HalfWay == InTouch /\ Measured(spi.cmd) /\ drive.i % 2 = 0
TouchInv ==
  /\ spi.partie = 0 <=> ~(chip.torn <=> HalfWay)
  /\ InTouch => Len(chip.heard) = drive.i - 1 /\ (chip.spoiled \/ ~chip.torn)
  /\ InTouch /\ drive.i = 3 /\ ~chip.spoiled /\ Measured(spi.cmd) => chip.heard[2] = High(Nominal[Channel(spi.cmd)])
  /\ TouchAsMeasured

SerialInv == SerialTypeOK /\ ScriptInv /\ FirmwareInv /\ PowerInv /\ TouchInv

-----------------------------------------------------------------------------
(* Serial bus: the handlers *)

\* What the assumption on the constants gives of the numbers.
LEMMA Constants ==
  /\ FirmwareSize \in Nat /\ JitterPeriod \in Nat /\ TouchX \in 0 .. 4095 /\ TouchY \in 0 .. 4095
  /\ Pressure[3] \in 0 .. 4095 /\ Pressure[4] \in 0 .. 4095
BY SerialAssumption

\* The hand shakes in a bit that the first byte of a measurement does not hold.
LEMMA Flipped ==
  ASSUME NEW v \in {TouchX, TouchY}
  PROVE  /\ Flip16(v) \in 0 .. 4095 /\ Flip16(Flip16(v)) = v
         /\ High(Flip16(v)) = High(v)
<1>0. v \in 0 .. 4095
  BY Constants
<1>1. PICK q \in 0 .. 127, h \in {0, 1}, r \in 0 .. 15 : v = 32 * q + 16 * h + r
  <2>1. /\ v \div 32 \in 0 .. 127 /\ (v \div 16) % 2 \in {0, 1} /\ v % 16 \in 0 .. 15
        /\ v = 32 * (v \div 32) + 16 * ((v \div 16) % 2) + (v % 16)
    BY <1>0
  <2>2. QED
    BY <2>1
<1> DEFINE w(g) == 32 * q + 16 * g + r
<1>2. \A g \in {0, 1} : w(g) \div 32 = q /\ w(g) \in 0 .. 4095
  OBVIOUS
<1>3. \A g \in {0, 1} : (w(g) \div 16) % 2 = g
  <2>1. \A g \in {0, 1} : w(g) \div 16 = 2 * q + g
    OBVIOUS
  <2>2. \A g \in {0, 1} : (2 * q + g) % 2 = g
    OBVIOUS
  <2>3. QED
    BY <2>1, <2>2
<1>4. Flip16(w(0)) = w(1) /\ Flip16(w(1)) = w(0)
  <2>1. w(1) = w(0) + 16 /\ w(0) \in Int
    OBVIOUS
  <2> HIDE DEF w
  <2>2. QED
    BY <1>3, <2>1 DEF Flip16
<1>5. v = w(0) \/ v = w(1)
  BY <1>1
<1> HIDE DEF w
<1>6. QED
  BY <1>2, <1>4, <1>5 DEF High

\* The two bytes of a measurement hold it.
TwelveBits(v) == v \in 0 .. 4095
LEMMA HalvesJoin ==
  ASSUME NEW v, TwelveBits(v)
  PROVE  /\ High(v) \in 0 .. 127 /\ High(v) % 256 = High(v)
         /\ LowByte(v) \in Int /\ LowWord(v) \in Int
         /\ LowByte(v) % 256 = LowByte(v) /\ LowWord(v) % 256 = LowByte(v)
         /\ (High(v) * 256 + LowByte(v)) \div 8 = v
<1>1. PICK q \in 0 .. 127, r \in 0 .. 31 : v = 32 * q + r
  <2>1. v \div 32 \in 0 .. 127 /\ v % 32 \in 0 .. 31 /\ v = 32 * (v \div 32) + (v % 32)
    BY DEF TwelveBits
  <2>2. QED
    BY <2>1
<1>2. High(v) = q
  BY <1>1 DEF High
<1>3. LowByte(v) = 8 * r
  BY <1>1 DEF LowByte
<1>4. PICK m \in 0 .. 7, k \in 0 .. 15 : q = 8 * k + m
  <2>1. q % 8 \in 0 .. 7 /\ q \div 8 \in 0 .. 15 /\ q = 8 * (q \div 8) + (q % 8)
    OBVIOUS
  <2>2. QED
    BY <2>1
<1>5. LowWord(v) = 256 * m + 8 * r
  BY <1>1, <1>4 DEF LowWord
<1>6. QED
  BY <1>1, <1>2, <1>3, <1>4, <1>5

\* A command that is reset: only that of a page write takes the permission with it.
LEMMA ResetIs ==
  ASSUME NEW f \in FirmwareOK
  PROVE  /\ fw_reset_com(f) \in FirmwareOK
         /\ fw_reset_com(f).com = 0
         /\ fw_reset_com(f).write_enable <=> f.com # PAGEWRITE /\ f.write_enable
<1> DEFINE g == fw_reset_com(f)
<1>1. f \in FirmwareRecords
  BY DEF FirmwareOK
<1>2. \A w \in BOOLEAN : LET h == [f EXCEPT !.com = 0, !.write_enable = w]
                        IN  h \in FirmwareRecords /\ h.com = 0 /\ h.write_enable = w
  BY <1>1 DEF FirmwareRecords
<1>3. f.write_enable \in BOOLEAN
  BY <1>1 DEF FirmwareRecords
<1>4. CASE f.com = PAGEWRITE
  <2>1. g = [f EXCEPT !.com = 0, !.write_enable = FALSE]
    BY <1>4 DEF fw_reset_com
  <2> HIDE DEF g
  <2>2. g \in FirmwareRecords /\ g.com = 0 /\ g.write_enable = FALSE
    BY <1>2, <2>1
  <2>3. g \in FirmwareOK
    BY <2>2 DEF FirmwareOK, READ_ID
  <2>4. QED
    BY <1>4, <2>2, <2>3 DEF g
<1>5. CASE f.com # PAGEWRITE
  <2>1. g = [f EXCEPT !.com = 0, !.write_enable = f.write_enable]
    BY <1>5 DEF fw_reset_com
  <2> HIDE DEF g
  <2>2. g \in FirmwareRecords /\ g.com = 0 /\ g.write_enable = f.write_enable
    BY <1>2, <1>3, <2>1
  <2>3. g \in FirmwareOK
    BY <2>2 DEF FirmwareOK, READ_ID
  <2>4. QED
    BY <1>5, <2>2, <2>3 DEF g
<1>6. QED
  BY <1>4, <1>5

\* SPICNT: the firmware forgets its command unless its selection goes on.
LEMMA SelectIs ==
  ASSUME NEW s, SpiOK(s), NEW dev \in Devices, NEW hold \in BOOLEAN, NEW slow \in BOOLEAN,
         NEW t, t = SPICNT(s, dev, hold, slow)
  PROVE  /\ SpiOK(t)
         /\ t.dev = dev /\ t.hold = hold /\ t.slow = slow
         /\ t.fw = IF s.dev = Firmware /\ dev = Firmware /\ s.hold THEN s.fw ELSE fw_reset_com(s.fw)
         /\ t.cmd = s.cmd /\ t.data = s.data /\ t.partie = s.partie /\ t.cntReg = s.cntReg /\ t.written = s.written
         /\ t.power = s.power /\ t.halted = s.halted /\ t.flash = s.flash /\ t.x = s.x /\ t.y = s.y
         /\ t.jitterctr = s.jitterctr
<1>1. s.fw \in FirmwareOK
  BY DEF SpiOK, SpiRecords
<1>2. fw_reset_com(s.fw) \in FirmwareOK
  BY <1>1, ResetIs
<1> DEFINE f == IF s.dev = Firmware /\ dev = Firmware /\ s.hold THEN s.fw ELSE fw_reset_com(s.fw)
<1>3. t = [s EXCEPT !.fw = f, !.dev = dev, !.hold = hold, !.slow = slow]
  BY DEF SPICNT
<1>4. f \in FirmwareOK
  BY <1>1, <1>2
<1> HIDE DEF f
<1>5. QED
  BY <1>3, <1>4 DEF SpiOK, SpiRecords, f

\* What the firmware hears changes nothing else of the bus.
LEMMA HeardIs ==
  ASSUME NEW s, SpiOK(s), NEW f \in FirmwareOK, NEW d \in Int, NEW t, t = Heard(s, f, d)
  PROVE  /\ SpiOK(t) /\ t.fw = f /\ t.data = d /\ t.flash = s.flash
         /\ t.dev = s.dev /\ t.hold = s.hold /\ t.slow = s.slow
         /\ t.cmd = s.cmd /\ t.partie = s.partie /\ t.cntReg = s.cntReg /\ t.written = s.written
         /\ t.power = s.power /\ t.halted = s.halted /\ t.x = s.x /\ t.y = s.y
         /\ t.jitterctr = s.jitterctr
BY DEF Heard, SpiOK, SpiRecords

\* A command that begins with an address.
LEMMA AddressBegins ==
  ASSUME NEW f \in FirmwareOK, NEW c \in {READ, PAGEWRITE}
  PROVE  [f EXCEPT !.com = c, !.addr = 0, !.addr_shift = 3] \in FirmwareOK
<1> DEFINE Coms == {0, READ, READSTATUS, PAGEWRITE, READ_ID}
<1> DEFINE g == [f EXCEPT !.com = c, !.addr = 0, !.addr_shift = 3]
<1>1. f \in [com : Coms, addr : Nat, addr_shift : 0 .. 3, write_enable : BOOLEAN] /\ c \in Coms
  BY DEF FirmwareOK, FirmwareRecords
<1> HIDE DEF Coms
<1>2. g \in [com : Coms, addr : Nat, addr_shift : 0 .. 3, write_enable : BOOLEAN] /\ g.com = c
  <2>1. \A A, S : \A a \in A, n \in S :
          f \in [com : Coms, addr : A, addr_shift : S, write_enable : BOOLEAN] =>
          LET h == [f EXCEPT !.com = c, !.addr = a, !.addr_shift = n]
          IN  h \in [com : Coms, addr : A, addr_shift : S, write_enable : BOOLEAN] /\ h.com = c
    BY <1>1
  <2>2. 0 \in Nat /\ 3 \in 0 .. 3
    OBVIOUS
  <2>3. QED
    BY <1>1, <2>1, <2>2
<1> HIDE DEF g
<1>3. g \in FirmwareRecords
  BY <1>2 DEF FirmwareRecords, Coms
<1>4. g.com # READ_ID
  BY <1>2 DEF READ, PAGEWRITE, READ_ID
<1>5. g \in FirmwareOK
  BY <1>3, <1>4 DEF FirmwareOK
<1>6. QED
  BY <1>5 DEF g

\* What a byte does to the firmware, by the command it belongs to.
FirmwareStep(s, b, t) ==
  LET f == s.fw
      a == f.addr
  IN  /\ f.com \in {READ, PAGEWRITE} /\ f.addr_shift > 0 =>
           /\ t.fw = [f EXCEPT !.addr_shift = f.addr_shift - 1, !.addr = a + b * Weight[f.addr_shift]]
           /\ t.flash = s.flash
      /\ f.com \in {READ, PAGEWRITE} /\ f.addr_shift = 0 /\ a >= FirmwareSize => t.fw = f /\ t.flash = s.flash
      /\ f.com = READ /\ f.addr_shift = 0 /\ a < FirmwareSize =>
           t.fw = [f EXCEPT !.addr = a + 1] /\ t.flash = s.flash /\ t.data = s.flash[a]
      /\ f.com = PAGEWRITE /\ f.addr_shift = 0 /\ a < FirmwareSize =>
           t.fw = [f EXCEPT !.addr = a + 1] /\ t.flash = [s.flash EXCEPT ![a] = b]
      /\ f.com = READ_ID => t.fw = [f EXCEPT !.addr = (a + 1) % 3] /\ t.flash = s.flash /\ t.data = ChipId[a + 1]
      /\ f.com = READSTATUS => t.fw = f /\ t.flash = s.flash /\ t.data = IF f.write_enable THEN 2 ELSE 0
      /\ f.com = 0 => t = Commanded(s, b) /\ t.flash = s.flash

\* What a byte does to everything but the firmware.
Untouched(s, t) ==
  /\ t.dev = s.dev /\ t.hold = s.hold /\ t.slow = s.slow
  /\ t.cmd = s.cmd /\ t.partie = s.partie /\ t.cntReg = s.cntReg /\ t.written = s.written
  /\ t.power = s.power /\ t.halted = s.halted /\ t.x = s.x /\ t.y = s.y /\ t.jitterctr = s.jitterctr

\* A byte to the firmware, whatever it is in the middle of.
LEMMA FirmwareIs ==
  ASSUME NEW s, SpiOK(s), NEW b \in SentBytes, NEW t, t = fw_transfer(s, b)
  PROVE  SpiOK(t) /\ Untouched(s, t) /\ FirmwareStep(s, b, t)
<1> b \in 0 .. 255
  BY DEF SentBytes
<1>0. s.fw \in FirmwareOK /\ s.flash \in Flash
  BY DEF SpiOK, SpiRecords
<1> DEFINE f == s.fw
<1>1. f \in FirmwareRecords /\ (f.com = READ_ID => f.addr \in 0 .. 2)
  BY <1>0 DEF FirmwareOK
<1>2. \A g \in FirmwareOK, d \in Int : t = Heard(s, g, d) =>
        SpiOK(t) /\ Untouched(s, t) /\ t.fw = g /\ t.data = d /\ t.flash = s.flash
  BY HeardIs DEF Untouched
<1>3. CASE f.com \in {READ, PAGEWRITE} /\ f.addr_shift > 0
  <2> DEFINE g == [f EXCEPT !.addr_shift = f.addr_shift - 1, !.addr = f.addr + b * Weight[f.addr_shift]]
  <2>1. t = Heard(s, g, b)
    BY <1>1, <1>3 DEF fw_transfer, FirmwareRecords, READ, PAGEWRITE, READ_ID, READSTATUS
  <2>2. Weight[f.addr_shift] \in {1, 256, 65536} /\ f.addr_shift \in 1 .. 3
    BY <1>1, <1>3 DEF Weight, FirmwareRecords
  <2>3. b * Weight[f.addr_shift] \in Nat
    BY <2>2
  <2>4. g \in FirmwareOK
    <3>1. f.addr_shift - 1 \in 0 .. 3 /\ f.addr + b * Weight[f.addr_shift] \in Nat
      BY <1>1, <2>2, <2>3 DEF FirmwareRecords
    <3>2. g \in FirmwareRecords /\ g.com = f.com
      BY <1>1, <3>1 DEF FirmwareRecords
    <3> HIDE DEF g
    <3>3. QED
      BY <1>3, <3>2 DEF FirmwareOK, READ, PAGEWRITE, READ_ID
  <2>5. QED
    BY <1>2, <1>3, <2>1, <2>4 DEF FirmwareStep, READ, PAGEWRITE, READ_ID, READSTATUS
<1>4. CASE f.com \in {READ, PAGEWRITE} /\ f.addr_shift = 0
  <2>1. t = Payload(s, b)
    BY <1>1, <1>4 DEF fw_transfer, FirmwareRecords, READ, PAGEWRITE, READ_ID, READSTATUS
  <2>2. CASE f.addr >= FirmwareSize
    <3>1. t = Heard(s, f, b)
      BY <2>1, <2>2 DEF Payload
    <3>2. QED
      BY <1>0, <1>1, <1>2, <1>4, <2>2, <3>1, Constants
      DEF FirmwareStep, FirmwareRecords, READ, PAGEWRITE, READ_ID, READSTATUS
  <2>3. CASE f.addr < FirmwareSize
    <3> DEFINE g == [f EXCEPT !.addr = f.addr + 1]
    <3>1. f.addr \in 0 .. FirmwareSize - 1 /\ ~(f.addr >= FirmwareSize)
      BY <1>1, <2>3, Constants DEF FirmwareRecords
    <3>2. g \in FirmwareOK
      BY <1>1, <1>4 DEF FirmwareOK, FirmwareRecords, READ, PAGEWRITE, READ_ID
    <3>3. CASE f.com = READ
      <4>1. t = Heard(s, g, s.flash[f.addr])
        BY <2>1, <3>1, <3>3 DEF Payload
      <4>2. s.flash[f.addr] \in Int
        BY <1>0, <3>1 DEF Flash
      <4>3. QED
        BY <1>2, <1>4, <3>1, <3>2, <3>3, <4>1, <4>2 DEF FirmwareStep, READ, PAGEWRITE, READ_ID, READSTATUS
    <3>4. CASE f.com = PAGEWRITE
      <4> DEFINE h == Heard(s, g, b)
      <4> DEFINE m == [s.flash EXCEPT ![f.addr] = b]
      <4>1. SpiOK(h) /\ Untouched(s, h) /\ h.fw = g /\ h.data = b /\ h.flash = s.flash
        BY <3>2, HeardIs DEF Untouched
      <4>2. t = [h EXCEPT !.flash = m]
        BY <2>1, <3>1, <3>4, <4>1 DEF Payload, READ, PAGEWRITE
      <4>3. m \in Flash
        BY <1>0, <3>1 DEF Flash
      <4> HIDE DEF h, m
      <4>4. SpiOK(t) /\ Untouched(s, t) /\ t.fw = g /\ t.data = b /\ t.flash = m
        BY <4>1, <4>2, <4>3 DEF Untouched, SpiOK, SpiRecords
      <4>5. QED
        BY <1>4, <3>1, <3>4, <4>4 DEF FirmwareStep, READ, PAGEWRITE, READ_ID, READSTATUS, m
    <3>5. QED
      BY <1>4, <3>3, <3>4
  <2>4. QED
    BY <1>1, <2>2, <2>3, Constants DEF FirmwareRecords
<1>5. CASE f.com = READ_ID
  <2> DEFINE g == [f EXCEPT !.addr = (f.addr + 1) % 3]
  <2>1. t = Heard(s, g, ChipId[f.addr + 1])
    BY <1>5 DEF fw_transfer, READ, PAGEWRITE, READ_ID, READSTATUS
  <2>2. ChipId[f.addr + 1] \in Int /\ (f.addr + 1) % 3 \in 0 .. 2
    BY <1>1, <1>5 DEF ChipId
  <2>3. g \in FirmwareOK
    BY <1>1, <1>5, <2>2 DEF FirmwareOK, FirmwareRecords
  <2>4. QED
    BY <1>2, <1>5, <2>1, <2>2, <2>3 DEF FirmwareStep, READ, PAGEWRITE, READ_ID, READSTATUS
<1>6. CASE f.com = READSTATUS
  <2>1. t = Heard(s, f, IF f.write_enable THEN 2 ELSE 0)
    BY <1>6 DEF fw_transfer, READ, PAGEWRITE, READ_ID, READSTATUS
  <2>2. QED
    BY <1>0, <1>2, <1>6, <2>1 DEF FirmwareStep, READ, PAGEWRITE, READ_ID, READSTATUS
<1>7. CASE f.com = 0
  <2>1. t = Commanded(s, b)
    BY <1>7 DEF fw_transfer, READ, PAGEWRITE, READ_ID, READSTATUS
  <2>2. PICK g \in FirmwareOK, d \in Int : t = Heard(s, g, d)
    <3> DEFINE Addressed(k) == [f EXCEPT !.com = k, !.addr = 0, !.addr_shift = 3]
    <3>1. /\ Addressed(READ) \in FirmwareOK /\ Addressed(PAGEWRITE) \in FirmwareOK
          /\ [f EXCEPT !.com = READ_ID, !.addr = 0] \in FirmwareOK
          /\ [f EXCEPT !.com = READSTATUS] \in FirmwareOK
      <4>1. Addressed(READ) \in FirmwareOK /\ Addressed(PAGEWRITE) \in FirmwareOK
        BY <1>0, AddressBegins
      <4> DEFINE named == [f EXCEPT !.com = READ_ID, !.addr = 0]
      <4> DEFINE asked == [f EXCEPT !.com = READSTATUS]
      <4>2. named \in FirmwareRecords /\ named.addr = 0
        BY <1>1 DEF FirmwareRecords
      <4>3. asked \in FirmwareRecords /\ asked.com = READSTATUS
        BY <1>1 DEF FirmwareRecords
      <4> HIDE DEF named, asked
      <4>4. named \in FirmwareOK /\ asked \in FirmwareOK
        BY <4>2, <4>3 DEF FirmwareOK, READ_ID, READSTATUS
      <4>5. QED
        BY <4>1, <4>4 DEF named, asked
    <3>2. [f EXCEPT !.write_enable = TRUE] \in FirmwareOK
      BY <1>1 DEF FirmwareOK, FirmwareRecords
    <3>3. [f EXCEPT !.write_enable = FALSE] \in FirmwareOK
      BY <1>1 DEF FirmwareOK, FirmwareRecords
    <3>4. \E g \in FirmwareOK, d \in Int : Commanded(s, b) = Heard(s, g, d)
      BY <1>0, <3>1, <3>2, <3>3 DEF Commanded
    <3>5. QED
      BY <2>1, <3>4
  <2>3. QED
    BY <1>2, <1>7, <2>1, <2>2 DEF FirmwareStep, READ, PAGEWRITE, READ_ID, READSTATUS
<1>8. QED
  BY <1>1, <1>3, <1>4, <1>5, <1>6, <1>7 DEF FirmwareRecords

\* What a byte does to the power management: an index, or a value that is read or written.
PowerStep(s, b, t) ==
  LET r == Register(s.cntReg % 128) + 1
  IN  /\ ~s.written => t.cntReg = b /\ t.written /\ t.power = s.power /\ t.halted = s.halted
      /\ s.written => ~t.written
      /\ s.written /\ s.cntReg >= 128 => t.data = s.power[r] /\ t.power = s.power /\ t.halted = s.halted
      /\ s.written /\ s.cntReg < 128 =>
           t.power = [s.power EXCEPT ![r] = b] /\ t.halted = (s.halted \/ PowerOff(t.power))

\* A byte to the power management.
LEMMA PowerIs ==
  ASSUME NEW s, SpiOK(s), NEW b \in SentBytes, NEW t, t = PowerByte(s, b)
  PROVE  /\ SpiOK(t) /\ PowerStep(s, b, t)
         /\ t.dev = s.dev /\ t.hold = s.hold /\ t.slow = s.slow /\ t.fw = s.fw /\ t.flash = s.flash
         /\ t.cmd = s.cmd /\ t.partie = s.partie /\ t.x = s.x /\ t.y = s.y /\ t.jitterctr = s.jitterctr
<1> b \in 0 .. 255
  BY DEF SentBytes
<1>0. s.cntReg \in 0 .. 255 /\ s.power \in PowerFile /\ s.written \in BOOLEAN /\ s.halted \in BOOLEAN
  BY DEF SpiOK, SpiRecords, SentBytes
<1>1. CASE ~s.written
  <2>1. t = [s EXCEPT !.cntReg = b, !.written = TRUE, !.data = b]
    BY <1>1 DEF PowerByte
  <2>2. b \in SentBytes /\ b \in Int
    BY DEF SentBytes
  <2>3. QED
    BY <1>1, <2>1, <2>2 DEF SpiOK, SpiRecords, PowerStep
<1>2. CASE s.written
  <2> DEFINE r == Register(s.cntReg % 128) + 1
  <2>1. r \in 1 .. 5
    <3>1. \A n \in Nat : n % 8 \in 0 .. 7
      OBVIOUS
    <3>2. s.cntReg % 128 \in Nat
      BY <1>0
    <3>3. QED
      BY <3>1, <3>2 DEF Register
  <2> DEFINE reads == s.cntReg >= 128
  <2> DEFINE p == IF reads THEN s.power ELSE [s.power EXCEPT ![r] = b]
  <2> DEFINE h == s.halted \/ (~reads /\ PowerOff(p))
  <2> DEFINE d == IF reads THEN s.power[r] ELSE b
  <2>2. s.power[r] \in Int /\ [s.power EXCEPT ![r] = b] \in PowerFile
    BY <1>0, <2>1 DEF PowerFile
  <2>3. p \in PowerFile /\ d \in Int
    BY <1>0, <2>2
  <2>4. h \in BOOLEAN
    BY DEF PowerOff
  <2>5. t = [s EXCEPT !.power = p, !.data = d, !.written = FALSE, !.halted = h]
    BY <1>2 DEF PowerByte
  <2>6. /\ SpiOK(t) /\ t.power = p /\ t.data = d /\ t.written = FALSE /\ t.halted = h
        /\ t.dev = s.dev /\ t.hold = s.hold /\ t.slow = s.slow /\ t.fw = s.fw /\ t.flash = s.flash
        /\ t.cmd = s.cmd /\ t.partie = s.partie /\ t.x = s.x /\ t.y = s.y /\ t.jitterctr = s.jitterctr
    <3> HIDE DEF p, d, h
    <3>1. QED
      BY <2>3, <2>4, <2>5 DEF SpiOK, SpiRecords
  <2>7. PowerStep(s, b, t)
    <3>1. reads => p = s.power /\ d = s.power[r] /\ h = s.halted
      BY <1>0
    <3>2. ~reads => p = [s.power EXCEPT ![r] = b] /\ h = (s.halted \/ PowerOff(p))
      OBVIOUS
    <3>3. reads <=> ~(s.cntReg < 128)
      BY <1>0
    <3> HIDE DEF p, d, h
    <3>4. QED
      BY <1>2, <2>6, <3>1, <3>2, <3>3 DEF PowerStep
  <2>8. QED
    BY <2>6, <2>7
<1>3. QED
  BY <1>1, <1>2

\* The shaking hand: both positions move between two places.
LEMMA ShakenIs ==
  ASSUME NEW s, SpiOK(s), NEW t, t = Shaken(s)
  PROVE  /\ SpiOK(t)
         /\ t.dev = s.dev /\ t.hold = s.hold /\ t.slow = s.slow /\ t.fw = s.fw /\ t.flash = s.flash
         /\ t.cmd = s.cmd /\ t.partie = s.partie /\ t.cntReg = s.cntReg /\ t.written = s.written
         /\ t.power = s.power /\ t.halted = s.halted /\ t.data = s.data
<1>1. s.x \in XPlaces /\ s.y \in YPlaces /\ s.jitterctr \in Int
  BY DEF SpiOK, SpiRecords
<1>2. Flip16(s.x) \in XPlaces /\ Flip16(s.y) \in YPlaces
  <2>1. Flip16(Flip16(TouchX)) = TouchX /\ Flip16(Flip16(TouchY)) = TouchY
    BY Constants, Flipped
  <2>2. QED
    BY <1>1, <2>1 DEF XPlaces, YPlaces
<1>3. CASE s.jitterctr + 1 = JitterPeriod
  <2>1. t = [s EXCEPT !.jitterctr = 0, !.x = Flip16(s.x), !.y = Flip16(s.y)]
    BY <1>3 DEF Shaken
  <2> DEFINE x == Flip16(s.x)
  <2> DEFINE y == Flip16(s.y)
  <2> HIDE DEF x, y
  <2>2. x \in XPlaces /\ y \in YPlaces /\ t = [s EXCEPT !.jitterctr = 0, !.x = x, !.y = y] /\ 0 \in Int
    BY <1>2, <2>1 DEF x, y
  <2>3. QED
    BY <2>2 DEF SpiOK, SpiRecords
<1>4. CASE s.jitterctr + 1 # JitterPeriod
  <2>1. t = [s EXCEPT !.jitterctr = s.jitterctr + 1] /\ s.jitterctr + 1 \in Int
    BY <1>1, <1>4 DEF Shaken
  <2>2. QED
    BY <2>1 DEF SpiOK, SpiRecords
<1>5. QED
  BY <1>3, <1>4

\* One half of a measurement, and the turn of the other.
LEMMA InTurnsIs ==
  ASSUME NEW s, SpiOK(s), NEW high \in Int, NEW low \in Int, NEW t, t = InTurns(s, high, low)
  PROVE  /\ SpiOK(t)
         /\ t.dev = s.dev /\ t.hold = s.hold /\ t.slow = s.slow /\ t.fw = s.fw /\ t.flash = s.flash
         /\ t.cmd = s.cmd /\ t.cntReg = s.cntReg /\ t.written = s.written
         /\ t.power = s.power /\ t.halted = s.halted /\ t.x = s.x /\ t.y = s.y
         /\ t.data = IF s.hold /\ s.partie = 0 THEN high ELSE low
         /\ t.partie = IF s.hold /\ s.partie # 0 THEN 0 ELSE 1
<1>1. CASE s.hold /\ s.partie = 0
  <2>1. t = [s EXCEPT !.data = high, !.partie = 1]
    BY <1>1 DEF InTurns
  <2>2. QED
    BY <1>1, <2>1 DEF SpiOK, SpiRecords
<1>2. CASE ~(s.hold /\ s.partie = 0)
  <2> DEFINE turn == IF s.hold THEN 0 ELSE 1
  <2>1. t = [s EXCEPT !.data = low, !.partie = turn]
    BY <1>2 DEF InTurns
  <2>2. turn \in {0, 1}
    OBVIOUS
  <2>3. turn = IF s.hold /\ s.partie # 0 THEN 0 ELSE 1
    BY <1>2
  <2> HIDE DEF turn
  <2>4. QED
    BY <1>2, <2>1, <2>2, <2>3 DEF SpiOK, SpiRecords
<1>3. QED
  BY <1>1, <1>2

\* What a byte does to the converter.
TouchStep(s, t) ==
  LET c == Channel(s.cmd)
  IN  /\ ~Measured(s.cmd) => t.partie = s.partie
      /\ Measured(s.cmd) => t.partie = IF s.hold /\ s.partie # 0 THEN 0 ELSE 1
      /\ Measured(s.cmd) /\ s.hold /\ s.partie = 0 => t.data % 256 = High(Nominal[c])
      /\ Measured(s.cmd) /\ ~(s.hold /\ s.partie = 0) => \E v \in Measures[c] : t.data % 256 = LowByte(v)

\* Where a measurement may lie, and that its first byte does not tell.
LEMMA Measured12 ==
  ASSUME NEW c \in 0 .. 7
  PROVE  /\ \A v \in Measures[c] : TwelveBits(v)
         /\ \A v \in Measures[c] : High(v) = High(Nominal[c])
<1>1. CASE c \in {1, 5}
  <2>1. PICK n \in {TouchX, TouchY} : Measures[c] = {n, Flip16(n)} /\ Nominal[c] = n
    BY <1>1 DEF Measures, Nominal
  <2>2. TwelveBits(n)
    BY Constants DEF TwelveBits
  <2>3. TwelveBits(Flip16(n)) /\ High(Flip16(n)) = High(n)
    BY Flipped DEF TwelveBits
  <2>4. QED
    BY <2>1, <2>2, <2>3
<1>2. CASE c \in {0, 7}
  BY <1>2 DEF Measures, Nominal, TwelveBits
<1>3. CASE c \in {3, 4}
  <2>1. TwelveBits(Pressure[c])
    BY <1>3, Constants DEF TwelveBits
  <2>2. Measures[c] = {Pressure[c]} /\ Nominal[c] = Pressure[c]
    BY <1>3 DEF Measures, Nominal
  <2>3. QED
    BY <2>1, <2>2
<1>4. CASE c \in {2, 6}
  BY <1>4 DEF Measures
<1>5. QED
  BY <1>1, <1>2, <1>3, <1>4

\* A byte to the converter.
LEMMA TouchIs ==
  ASSUME NEW s, SpiOK(s), NEW b \in SentBytes, NEW t, t = TouchByte(s, b)
  PROVE  /\ SpiOK(t) /\ TouchStep(s, t)
         /\ t.dev = s.dev /\ t.hold = s.hold /\ t.slow = s.slow /\ t.fw = s.fw /\ t.flash = s.flash
         /\ t.cmd = s.cmd /\ t.cntReg = s.cntReg /\ t.written = s.written
         /\ t.power = s.power /\ t.halted = s.halted
<1> b \in 0 .. 255
  BY DEF SentBytes
<1> DEFINE c == Channel(s.cmd)
<1> DEFINE Others == /\ t.dev = s.dev /\ t.hold = s.hold /\ t.slow = s.slow /\ t.fw = s.fw /\ t.flash = s.flash
                     /\ t.cmd = s.cmd /\ t.cntReg = s.cntReg /\ t.written = s.written
                     /\ t.power = s.power /\ t.halted = s.halted
<1>1. c \in 0 .. 7
  <2>1. s.cmd \in 0 .. 255
    BY DEF SpiOK, SpiRecords, SentBytes
  <2>2. QED
    BY <2>1 DEF Channel
<1>2. Measured(s.cmd) <=> c \notin {2, 6}
  BY DEF Measured
\* a temperature or a pressure
<1>3. ASSUME NEW v \in Measures[c], t = InTurns(s, High(v), LowWord(v)), c \notin {2, 6}
      PROVE  SpiOK(t) /\ TouchStep(s, t) /\ Others
  <2>1. /\ High(v) = High(Nominal[c]) /\ High(v) \in Int /\ LowWord(v) \in Int
        /\ High(v) % 256 = High(v) /\ LowWord(v) % 256 = LowByte(v)
    <3>1. TwelveBits(v) /\ High(v) = High(Nominal[c])
      <4> HIDE DEF c
      <4>1. QED
        BY <1>1, <1>3, Measured12
    <3>2. QED
      BY <3>1, HalvesJoin
  <2>2. SpiOK(t) /\ Others /\ t.data = (IF s.hold /\ s.partie = 0 THEN High(v) ELSE LowWord(v))
        /\ t.partie = IF s.hold /\ s.partie # 0 THEN 0 ELSE 1
    BY <1>3, <2>1, InTurnsIs
  <2>3. TouchStep(s, t)
    BY <1>2, <1>3, <2>1, <2>2 DEF TouchStep
  <2>4. QED
    BY <2>2, <2>3
\* a position
<1>4. ASSUME NEW r, SpiOK(r), NEW v \in Measures[c], t = InTurns(r, High(v) % 256, LowByte(v)), c \notin {2, 6},
             r.dev = s.dev /\ r.hold = s.hold /\ r.slow = s.slow /\ r.fw = s.fw /\ r.flash = s.flash
             /\ r.cmd = s.cmd /\ r.cntReg = s.cntReg /\ r.written = s.written
             /\ r.power = s.power /\ r.halted = s.halted /\ r.partie = s.partie
      PROVE  SpiOK(t) /\ TouchStep(s, t) /\ Others
  <2>1. /\ High(v) = High(Nominal[c]) /\ High(v) \in Int /\ LowByte(v) \in Int
        /\ High(v) % 256 = High(v) /\ LowByte(v) % 256 = LowByte(v)
    <3>1. TwelveBits(v) /\ High(v) = High(Nominal[c])
      <4> HIDE DEF c
      <4>1. QED
        BY <1>1, <1>4, Measured12
    <3>2. QED
      BY <3>1, HalvesJoin
  <2>2. SpiOK(t) /\ Others /\ t.data = (IF s.hold /\ s.partie = 0 THEN High(v) ELSE LowByte(v))
        /\ t.partie = IF s.hold /\ s.partie # 0 THEN 0 ELSE 1
    BY <1>4, <2>1, InTurnsIs
  <2>3. TouchStep(s, t)
    BY <1>2, <1>4, <2>1, <2>2 DEF TouchStep
  <2>4. QED
    BY <2>2, <2>3
<1>5. CASE c \in {0, 7, 3, 4}
  <2>1. PICK v \in Measures[c] : t = InTurns(s, High(v), LowWord(v))
    BY <1>5 DEF TouchByte, Measures
  <2>2. QED
    BY <1>3, <1>5, <2>1
<1>6. CASE c = 1
  <2> DEFINE r == Shaken(s)
  <2>1. t = InTurns(r, High(r.y) % 256, LowByte(r.y))
    BY <1>6 DEF TouchByte
  <2>2. /\ SpiOK(r)
        /\ r.dev = s.dev /\ r.hold = s.hold /\ r.slow = s.slow /\ r.fw = s.fw /\ r.flash = s.flash
        /\ r.cmd = s.cmd /\ r.cntReg = s.cntReg /\ r.written = s.written
        /\ r.power = s.power /\ r.halted = s.halted /\ r.partie = s.partie
    BY ShakenIs
  <2>3. r.y \in Measures[c]
    BY <1>6, <2>2 DEF Measures, SpiOK, SpiRecords, YPlaces
  <2> HIDE DEF r
  <2>4. QED
    BY <1>4, <1>6, <2>1, <2>2, <2>3
<1>7. CASE c = 5
  <2>1. t = InTurns(s, High(s.x) % 256, LowByte(s.x))
    BY <1>7 DEF TouchByte
  <2>2. s.x \in Measures[c]
    BY <1>7 DEF Measures, SpiOK, SpiRecords, XPlaces
  <2>3. QED
    BY <1>4, <1>7, <2>1, <2>2
<1>8. CASE c \in {2, 6}
  <2>1. PICK d \in Int : t = [s EXCEPT !.data = d]
    <3>1. CASE c = 6
      <4>1. t = [s EXCEPT !.data = 0]
        BY <3>1 DEF TouchByte, Mic_ReadSample
      <4>2. QED
        BY <4>1
    <3>2. CASE c = 2
      <4>1. t = [s EXCEPT !.data = b] /\ b \in Int
        BY <3>2 DEF TouchByte
      <4>2. QED
        BY <4>1
    <3>3. QED
      BY <1>8, <3>1, <3>2
  <2>2. SpiOK(t) /\ Others /\ t.partie = s.partie
    BY <2>1 DEF SpiOK, SpiRecords
  <2>3. QED
    BY <1>2, <1>8, <2>2 DEF TouchStep
<1>9. QED
  BY <1>1, <1>5, <1>6, <1>7, <1>8

-----------------------------------------------------------------------------
(* Serial bus: what a step about one device leaves of the others *)

\* A step about another device leaves the firmware, or resets its command.
LEMMA FirmwareElsewhere ==
  ASSUME SerialTypeOK, FirmwareInv, drive.dev # Firmware, drive'.dev = drive.dev, spi'.flash = spi.flash,
         chip'.odd = chip.odd, chip'.flash = chip.flash, chip'.enabled = chip.enabled,
         spi'.fw \in {spi.fw, fw_reset_com(spi.fw)}
  PROVE  FirmwareInv'
<1> DEFINE f == spi.fw
<1>1. f \in FirmwareOK /\ f \in FirmwareRecords
  BY DEF SerialTypeOK, SpiOK, SpiRecords, FirmwareOK
<1>2. SUFFICES ASSUME ~chip'.odd
               PROVE  spi'.flash = chip'.flash /\ FirmwareRests(spi'.fw, chip')
  BY DEF FirmwareInv, InFirmware, Firmware
<1>3. spi.flash = chip.flash /\ FirmwareRests(f, chip)
  BY <1>2 DEF FirmwareInv, InFirmware
<1>4. FirmwareRests(f, chip')
  BY <1>3 DEF FirmwareRests
<1>5. CASE spi'.fw = f
  BY <1>3, <1>4, <1>5
<1>6. CASE spi'.fw = fw_reset_com(f)
  <2>1. fw_reset_com(f).com = 0 /\ (fw_reset_com(f).write_enable <=> f.com # PAGEWRITE /\ f.write_enable)
    BY <1>1, ResetIs
  <2>2. fw_reset_com(f) \in FirmwareRecords
    BY <1>1, ResetIs DEF FirmwareOK
  <2>3. f.write_enable \in BOOLEAN /\ fw_reset_com(f).write_enable \in BOOLEAN /\ chip.enabled \in BOOLEAN
    BY <1>1, <2>2 DEF FirmwareRecords, SerialTypeOK, ChipRecords
  <2>4. fw_reset_com(f).write_enable = chip.enabled
    <3>1. CASE f.com = PAGEWRITE
      BY <1>3, <2>1, <2>3, <3>1 DEF FirmwareRests
    <3>2. CASE f.com # PAGEWRITE
      BY <1>3, <2>1, <2>3, <3>2 DEF FirmwareRests
    <3>3. QED
      BY <3>1, <3>2
  <2>5. FirmwareRests(fw_reset_com(f), chip')
    BY <2>1, <2>4 DEF FirmwareRests, PAGEWRITE
  <2>6. QED
    BY <1>3, <1>6, <2>5
<1>7. QED
  BY <1>5, <1>6

\* A step about another device leaves the power management.
LEMMA PowerElsewhere ==
  ASSUME PowerInv, drive.dev # PowerManagement, drive'.dev = drive.dev, Active' => Active,
         spi'.power = spi.power, spi'.halted = spi.halted, spi'.written = spi.written, spi'.cntReg = spi.cntReg,
         chip'.power = chip.power, chip'.outOfPhase = chip.outOfPhase
  PROVE  PowerInv'
<1> SUFFICES ASSUME ~chip'.outOfPhase
             PROVE  /\ spi'.power = chip'.power /\ spi'.halted = PowerOff(spi'.power)
                    /\ Active' => ~spi'.halted
                    /\ ~spi'.written
  BY DEF PowerInv
<1>1. /\ spi.power = chip.power /\ spi.halted = PowerOff(spi.power)
      /\ Active => ~spi.halted
      /\ ~spi.written
  BY DEF PowerInv
<1>2. QED
  BY <1>1

\* A step about another device leaves the converter.
LEMMA TouchElsewhere ==
  ASSUME TouchInv, drive.dev # TouchScreen, drive'.dev = drive.dev,
         spi'.partie = spi.partie, chip'.torn = chip.torn
  PROVE  TouchInv'
BY DEF TouchInv, InTouch, HalfWay, TouchAsMeasured

\* The script moves on by a byte.
LEMMA ScriptMovesOn ==
  ASSUME SerialTypeOK, ScriptInv, Active, NEW last \in BOOLEAN, last <=> drive.i = Len(drive.script),
         drive' = IF last THEN [drive EXCEPT !.script = <<>>, !.i = 0] ELSE [drive EXCEPT !.i = @ + 1],
         spi'.dev = drive.dev, spi'.hold = ~last,
         last => chip'.bytes = <<>>,
         ~last => \E y \in 0 .. 255 : chip'.bytes = Append(chip.bytes, y)
  PROVE  ScriptInv' /\ drive' \in DriveRecords
<1>1. drive \in DriveRecords /\ chip.bytes \in Seq(0 .. 255) /\ drive.i \in Nat /\ Len(drive.script) \in Nat
  BY DEF SerialTypeOK, ChipRecords, DriveRecords
<1> DEFINE Scr == Seq(0 .. 255)
<1> DEFINE D == [script : Scr, dev : Devices, i : Nat, lazy : BOOLEAN, slow : BOOLEAN, left : Int]
<1>d. DriveRecords = D /\ <<>> \in Scr /\ drive.i + 1 \in Nat
  BY <1>1 DEF DriveRecords, Devices
<1> HIDE DEF Scr
<1>2. CASE last
  <2>1. drive'.script = <<>> /\ drive'.i = 0
    BY <1>1, <1>2, <1>d
  <2>2. drive' \in DriveRecords
    BY <1>1, <1>2, <1>d
  <2>3. QED
    BY <1>2, <2>1, <2>2 DEF ScriptInv, Active, Quiet
<1>3. CASE ~last
  <2>1. /\ drive'.script = drive.script /\ drive'.i = drive.i + 1 /\ drive'.dev = drive.dev /\ drive'.lazy = drive.lazy
        /\ drive' \in DriveRecords
    BY <1>1, <1>3, <1>d
  <2>2. /\ \E s \in Scripts : s.dev = drive.dev /\ s.bytes = drive.script
        /\ drive.i \in 1 .. Len(drive.script) /\ Len(chip.bytes) = drive.i - 1
        /\ drive.lazy => Len(drive.script) = 1
    BY DEF ScriptInv
  <2>3. drive.i + 1 \in 1 .. Len(drive.script) /\ drive.i + 1 > 1 /\ drive.i + 1 # 1 /\ ~drive.lazy
    <3>1. drive.i # Len(drive.script)
      BY <1>3
    <3>2. \A n, m \in Nat : n \in 1 .. m /\ n # m => n + 1 \in 1 .. m /\ n + 1 > 1 /\ n + 1 # 1 /\ m # 1
      OBVIOUS
    <3>3. QED
      BY <1>1, <2>2, <3>1, <3>2
  <2>4. Len(chip'.bytes) = drive'.i - 1
    <3>1. PICK y \in 0 .. 255 : chip'.bytes = Append(chip.bytes, y)
      BY <1>3
    <3>2. Len(chip'.bytes) = Len(chip.bytes) + 1
      BY <1>1, <3>1
    <3>3. QED
      BY <1>1, <2>1, <2>2, <3>2
  <2>5. QED
    BY <1>3, <2>1, <2>2, <2>3, <2>4 DEF ScriptInv, Active, Quiet
<1>4. QED
  BY <1>2, <1>3

\* The bus as SPICNT has left it for the next byte.
LEMMA Prepared ==
  ASSUME SerialTypeOK, ScriptInv, Active, NEW set,
         set = IF drive.lazy THEN spi ELSE SPICNT(spi, drive.dev, ~(drive.i = Len(drive.script)), drive.slow)
  PROVE  /\ SpiOK(set) /\ set.dev = drive.dev /\ set.hold = ~(drive.i = Len(drive.script))
         /\ ~drive.lazy => set.slow = drive.slow
         /\ set.fw \in {spi.fw, fw_reset_com(spi.fw)}
         /\ drive.dev = Firmware /\ drive.i > 1 => set.fw = spi.fw
         /\ drive.i = 1 /\ ~drive.lazy => set.fw = fw_reset_com(spi.fw)
         /\ set.cmd = spi.cmd /\ set.data = spi.data /\ set.partie = spi.partie /\ set.cntReg = spi.cntReg
         /\ set.written = spi.written /\ set.power = spi.power /\ set.halted = spi.halted /\ set.flash = spi.flash
         /\ set.x = spi.x /\ set.y = spi.y /\ set.jitterctr = spi.jitterctr
<1>1. /\ drive.i \in 1 .. Len(drive.script) /\ Len(drive.script) \in Nat
      /\ drive.i = 1 => ~spi.hold
      /\ drive.i > 1 => spi.dev = drive.dev /\ spi.hold /\ ~drive.lazy
      /\ drive.lazy => Len(drive.script) = 1 /\ spi.dev = drive.dev
  BY DEF ScriptInv, SerialTypeOK, DriveRecords
<1>2. SpiOK(spi) /\ drive.dev \in Devices /\ drive.slow \in BOOLEAN
  BY DEF SerialTypeOK, DriveRecords, Devices
<1>3. CASE drive.lazy
  <2>1. drive.i = 1 /\ Len(drive.script) = 1 /\ ~spi.hold /\ spi.hold \in BOOLEAN /\ spi.dev = drive.dev
    BY <1>1, <1>2, <1>3 DEF SpiOK, SpiRecords
  <2>2. spi.hold = ~(drive.i = Len(drive.script))
    BY <2>1
  <2>3. set = spi
    BY <1>3
  <2>4. QED
    BY <1>2, <1>3, <2>1, <2>2, <2>3
<1>4. CASE ~drive.lazy
  <2> DEFINE h == ~(drive.i = Len(drive.script))
  <2>1. set = SPICNT(spi, drive.dev, h, drive.slow) /\ h \in BOOLEAN
    BY <1>4
  <2>2. drive.dev = Firmware /\ drive.i > 1 <=> spi.dev = Firmware /\ drive.dev = Firmware /\ spi.hold
    BY <1>1
  <2> HIDE DEF h
  <2>3. /\ SpiOK(set)
        /\ set.dev = drive.dev /\ set.hold = h /\ set.slow = drive.slow
        /\ set.fw = (IF spi.dev = Firmware /\ drive.dev = Firmware /\ spi.hold THEN spi.fw ELSE fw_reset_com(spi.fw))
        /\ set.cmd = spi.cmd /\ set.data = spi.data /\ set.partie = spi.partie /\ set.cntReg = spi.cntReg
        /\ set.written = spi.written /\ set.power = spi.power /\ set.halted = spi.halted /\ set.flash = spi.flash
        /\ set.x = spi.x /\ set.y = spi.y /\ set.jitterctr = spi.jitterctr
    BY <1>2, <2>1, SelectIs
  <2>4. drive.i = 1 => ~(drive.i > 1)
    OBVIOUS
  <2>5. QED
    BY <1>1, <1>4, <2>2, <2>3, <2>4 DEF h
<1>5. QED
  BY <1>3, <1>4

\* The byte itself is remembered, unless it is zero.
LEMMA Remembered ==
  ASSUME NEW s, SpiOK(s), NEW b \in SentBytes, NEW t, t = IF b = 0 THEN s ELSE [s EXCEPT !.cmd = b]
  PROVE  /\ SpiOK(t) /\ t.cmd = (IF b = 0 THEN s.cmd ELSE b)
         /\ t.dev = s.dev /\ t.hold = s.hold /\ t.slow = s.slow /\ t.fw = s.fw /\ t.flash = s.flash
         /\ t.data = s.data /\ t.partie = s.partie /\ t.cntReg = s.cntReg /\ t.written = s.written
         /\ t.power = s.power /\ t.halted = s.halted /\ t.x = s.x /\ t.y = s.y /\ t.jitterctr = s.jitterctr
<1> b \in 0 .. 255
  BY DEF SentBytes
<1>1. CASE b = 0
  BY <1>1
<1>2. CASE b # 0
  <2>1. t = [s EXCEPT !.cmd = b] /\ b \in SentBytes
    BY <1>2 DEF SentBytes
  <2>2. QED
    BY <1>2, <2>1 DEF SpiOK, SpiRecords
<1>3. QED
  BY <1>1, <1>2

\* The script that is sent is one of the scripts.
LEMMA ScriptIs ==
  ASSUME SerialTypeOK, ScriptInv, Active
  PROVE  /\ drive.i \in 1 .. Len(drive.script) /\ Len(drive.script) \in Nat /\ drive.script[drive.i] \in 0 .. 255
         /\ drive.dev \in {0, 1, 2}
         /\ drive.dev = 0 => Len(drive.script) <= 2
         /\ drive.dev = 2 /\ drive.i > 1 => drive.script[drive.i] = 0
         /\ chip.bytes \in Seq(0 .. 255) /\ Len(chip.bytes) = drive.i - 1
         /\ drive.i = 1 <=> chip.bytes = <<>>
<1>1. drive.script \in Seq(0 .. 255) /\ chip.bytes \in Seq(0 .. 255) /\ drive.dev \in 0 .. 2
  BY DEF SerialTypeOK, DriveRecords, ChipRecords
<1>2. drive.i \in 1 .. Len(drive.script) /\ Len(chip.bytes) = drive.i - 1
  BY DEF ScriptInv
<1>3. PICK s \in Scripts : s.dev = drive.dev /\ s.bytes = drive.script
  BY DEF ScriptInv
<1>4. Len(drive.script) \in Nat /\ drive.script[drive.i] \in 0 .. 255
  BY <1>1, <1>2, ElementOfSeq, LenProperties
<1>5. /\ s.dev = 0 => Len(s.bytes) <= 2
      /\ s.dev = 2 => \A k \in 2 .. Len(s.bytes) : s.bytes[k] = 0
  BY SerialAssumption
<1>6. drive.dev = 2 /\ drive.i > 1 => drive.script[drive.i] = 0
  <2>1. drive.i > 1 => drive.i \in 2 .. Len(drive.script)
    BY <1>2, <1>4
  <2>2. QED
    BY <1>3, <1>5, <2>1
<1>7. drive.i = 1 <=> chip.bytes = <<>>
  <2>1. chip.bytes = <<>> <=> Len(chip.bytes) = 0
    BY <1>1, EmptySeq
  <2>2. QED
    BY <1>2, <1>4, <2>1
<1>8. QED
  BY <1>1, <1>2, <1>3, <1>4, <1>5, <1>6, <1>7

\* What the power management chip does by its own rules.
LEMMA PowerChipIs ==
  ASSUME NEW c \in ChipRecords, NEW b \in SentBytes, NEW last \in BOOLEAN, NEW d, d = PowerChip(c, b, last)
  PROVE  LET i == IF c.bytes = <<>> THEN b ELSE c.bytes[1]
             done == c.bytes # <<>>
         IN  /\ d \in ChipRecords
             /\ d.bytes = (IF last THEN <<>> ELSE Append(c.bytes, b))
             /\ d.reply = (IF done /\ i >= 128 THEN c.power[Register(i % 128) + 1] ELSE -1)
             /\ d.power = (IF done /\ i < 128 THEN [c.power EXCEPT ![Register(i) + 1] = b] ELSE c.power)
             /\ d.outOfPhase = (c.outOfPhase \/ (last /\ ~done))
             /\ d.enabled = c.enabled /\ d.flash = c.flash /\ d.odd = c.odd /\ d.torn = c.torn
             /\ d.spoiled = c.spoiled /\ d.heard = c.heard
<1> b \in 0 .. 255
  BY DEF SentBytes
<1> DEFINE Bs == Seq(0 .. 255)
<1> DEFINE i == IF c.bytes = <<>> THEN b ELSE c.bytes[1]
<1> DEFINE done == c.bytes # <<>>
<1> DEFINE r == IF done /\ i >= 128 THEN c.power[Register(i % 128) + 1] ELSE -1
<1> DEFINE p == IF done /\ i < 128 THEN [c.power EXCEPT ![Register(i) + 1] = b] ELSE c.power
<1> DEFINE Hs == Seq(Int)
<1> DEFINE C == [bytes : Bs, enabled : BOOLEAN, flash : Flash, power : PowerFile, odd : BOOLEAN, outOfPhase : BOOLEAN,
                 torn : BOOLEAN, spoiled : BOOLEAN, reply : Int, heard : Hs]
<1>0. ChipRecords = C
  BY DEF ChipRecords, PowerFile
<1>1. c \in C /\ c.bytes \in Bs /\ c.power \in PowerFile
  BY <1>0
<1>2. i \in 0 .. 255
  <2>1. c.bytes # <<>> => Len(c.bytes) # 0 /\ Len(c.bytes) \in Nat
    BY <1>1, EmptySeq
  <2>2. c.bytes # <<>> => 1 \in 1 .. Len(c.bytes)
    BY <2>1
  <2>3. c.bytes # <<>> => c.bytes[1] \in 0 .. 255
    BY <1>1, <2>2, ElementOfSeq
  <2>4. QED
    BY <2>3
<1>3. \A n \in Nat : Register(n) + 1 \in 1 .. 5
  <2>1. \A n \in Nat : n % 8 \in 0 .. 7
    OBVIOUS
  <2>2. QED
    BY <2>1 DEF Register
<1>4. r \in Int
  <2>1. i % 128 \in Nat
    <3>1. \A n \in 0 .. 255 : n % 128 \in Nat
      OBVIOUS
    <3> HIDE DEF i
    <3>2. QED
      BY <1>2, <3>1
  <2>2. c.power[Register(i % 128) + 1] \in Int
    BY <1>1, <1>3, <2>1 DEF PowerFile
  <2>3. QED
    BY <2>2
<1>5. p \in PowerFile
  <2>1. i \in Nat
    <3> HIDE DEF i
    <3>1. QED
      BY <1>2
  <2>2. [c.power EXCEPT ![Register(i) + 1] = b] \in PowerFile
    BY <1>1, <1>3, <2>1 DEF PowerFile
  <2>3. QED
    BY <1>1, <2>2
<1>6. Append(c.bytes, b) \in Bs /\ <<>> \in Bs
  BY <1>1
<1> DEFINE n == [c EXCEPT !.bytes = Append(c.bytes, b), !.reply = r, !.power = p]
<1>7. d = IF last THEN [n EXCEPT !.bytes = <<>>, !.outOfPhase = n.outOfPhase \/ ~done] ELSE n
  BY DEF PowerChip
<1>8. (c.outOfPhase \/ ~done) \in BOOLEAN /\ c.outOfPhase \in BOOLEAN
  BY <1>1
<1> HIDE DEF r, p, Bs, Hs
<1>9. /\ n \in C /\ n.bytes = Append(c.bytes, b) /\ n.reply = r /\ n.power = p /\ n.outOfPhase = c.outOfPhase
      /\ n.enabled = c.enabled /\ n.flash = c.flash /\ n.odd = c.odd /\ n.torn = c.torn
      /\ n.spoiled = c.spoiled /\ n.heard = c.heard
  BY <1>1, <1>4, <1>5, <1>6
<1> HIDE DEF n
<1>10. CASE ~last
  <2>1. d = n /\ c.outOfPhase = (c.outOfPhase \/ (last /\ ~done))
    BY <1>7, <1>8, <1>10
  <2>2. QED
    BY <1>0, <1>9, <1>10, <2>1 DEF r, p
<1>11. CASE last
  <2> DEFINE o == c.outOfPhase \/ ~done
  <2>1. d = [n EXCEPT !.bytes = <<>>, !.outOfPhase = o] /\ o \in BOOLEAN
    BY <1>7, <1>8, <1>9, <1>11
  <2>2. o = (c.outOfPhase \/ (last /\ ~done))
    BY <1>11
  <2> HIDE DEF o
  <2>3. /\ d \in C /\ d.bytes = <<>> /\ d.reply = r /\ d.power = p /\ d.outOfPhase = o
        /\ d.enabled = c.enabled /\ d.flash = c.flash /\ d.odd = c.odd /\ d.torn = c.torn
        /\ d.spoiled = c.spoiled /\ d.heard = c.heard
    BY <1>6, <1>9, <2>1
  <2>4. QED
    BY <1>0, <1>11, <2>2, <2>3 DEF r, p
<1>12. QED
  BY <1>10, <1>11

\* A byte to the power management.
LEMMA SendPower ==
  ASSUME SerialInv, SendByte, drive.dev = PowerManagement
  PROVE  SerialInv'
<1> DEFINE b == drive.script[drive.i]
<1> DEFINE last == drive.i = Len(drive.script)
<1> DEFINE set == IF drive.lazy THEN spi ELSE SPICNT(spi, drive.dev, ~(drive.i = Len(drive.script)), drive.slow)
<1> DEFINE t == IF b = 0 THEN set ELSE [set EXCEPT !.cmd = b]
<1> DEFINE passed == PowerByte(t, b)
<1>1. SerialTypeOK /\ ScriptInv /\ FirmwareInv /\ PowerInv /\ TouchInv /\ Active
  BY DEF SerialInv, SendByte, Active, Quiet
<1>2. /\ drive.i \in 1 .. Len(drive.script) /\ Len(drive.script) \in Nat /\ b \in 0 .. 255
      /\ Len(drive.script) <= 2 /\ (drive.i = 1 <=> chip.bytes = <<>>)
      /\ chip.bytes \in Seq(0 .. 255) /\ Len(chip.bytes) = drive.i - 1
  BY <1>1, ScriptIs DEF PowerManagement
<1>3. /\ SpiOK(set) /\ set.dev = drive.dev /\ set.hold = ~(drive.i = Len(drive.script))
      /\ set.fw \in {spi.fw, fw_reset_com(spi.fw)}
      /\ set.partie = spi.partie /\ set.cntReg = spi.cntReg /\ set.data = spi.data
      /\ set.written = spi.written /\ set.power = spi.power /\ set.halted = spi.halted /\ set.flash = spi.flash
  BY <1>1, Prepared
<1>4. spi' = passed /\ chip' = PowerChip(chip, b, last)
  <2>1. spi' = SPIDATA(set, b)
    BY DEF SendByte
  <2>2. SPIDATA(set, b) = passed
    BY <1>3 DEF SPIDATA, PowerManagement, Firmware, TouchScreen
  <2>3. chip' = PowerChip(chip, b, last)
    BY DEF SendByte, PowerManagement, Firmware, TouchScreen
  <2>4. QED
    BY <2>1, <2>2, <2>3
<1>5. drive' = IF last THEN [drive EXCEPT !.script = <<>>, !.i = 0] ELSE [drive EXCEPT !.i = @ + 1]
  BY DEF SendByte
<1> HIDE DEF set, b
<1>t. t = IF b = 0 THEN set ELSE [set EXCEPT !.cmd = b]
  OBVIOUS
<1> HIDE DEF t
<1>6. /\ SpiOK(t) /\ t.dev = set.dev /\ t.hold = set.hold /\ t.fw = set.fw /\ t.partie = set.partie
      /\ t.cntReg = set.cntReg /\ t.written = set.written /\ t.power = set.power /\ t.halted = set.halted
      /\ t.flash = set.flash
  <2>1. SpiOK(set) /\ b \in SentBytes
    BY <1>2, <1>3 DEF SentBytes
  <2>2. QED
    BY <1>t, <2>1, Remembered
<1>7. /\ SpiOK(spi') /\ PowerStep(t, b, spi') /\ spi'.dev = t.dev /\ spi'.hold = t.hold /\ spi'.fw = t.fw
      /\ spi'.flash = t.flash /\ spi'.partie = t.partie
  <2>1. SpiOK(t) /\ b \in SentBytes /\ spi' = PowerByte(t, b)
    BY <1>2, <1>4, <1>6 DEF SentBytes
  <2>2. QED
    BY <2>1, PowerIs
<1> DEFINE n == IF chip.bytes = <<>> THEN b ELSE chip.bytes[1]
<1> DEFINE done == chip.bytes # <<>>
<1>8. /\ chip' \in ChipRecords
      /\ chip'.bytes = (IF last THEN <<>> ELSE Append(chip.bytes, b))
      /\ chip'.reply = (IF done /\ n >= 128 THEN chip.power[Register(n % 128) + 1] ELSE -1)
      /\ chip'.power = (IF done /\ n < 128 THEN [chip.power EXCEPT ![Register(n) + 1] = b] ELSE chip.power)
      /\ chip'.outOfPhase = (chip.outOfPhase \/ (last /\ ~done))
      /\ chip'.enabled = chip.enabled /\ chip'.flash = chip.flash /\ chip'.odd = chip.odd /\ chip'.torn = chip.torn
  <2>1. chip \in ChipRecords /\ last \in BOOLEAN
    BY <1>1 DEF SerialTypeOK
  <2>2. chip' = PowerChip(chip, b, last)
    BY <1>4
  <2>3. b \in SentBytes
    BY <1>2 DEF SentBytes
  <2> HIDE DEF last
  <2>4. QED
    BY <2>1, <2>2, <2>3, PowerChipIs
<1>9. ScriptInv' /\ drive' \in DriveRecords
  <2>1. spi'.dev = drive.dev /\ spi'.hold = ~last
    BY <1>3, <1>6, <1>7
  <2>2. last \in BOOLEAN /\ (last <=> drive.i = Len(drive.script))
    OBVIOUS
  <2> HIDE DEF last
  <2>3. /\ last => chip'.bytes = <<>>
        /\ ~last => \E y \in 0 .. 255 : chip'.bytes = Append(chip.bytes, y)
    BY <1>2, <1>8
  <2>4. QED
    BY <1>1, <1>5, <2>1, <2>2, <2>3, ScriptMovesOn
<1>10. SerialTypeOK'
  BY <1>7, <1>8, <1>9 DEF SerialTypeOK
<1>11. drive'.dev = drive.dev
  BY <1>1, <1>5 DEF SerialTypeOK, DriveRecords
<1>12. FirmwareInv'
  <2>1. spi'.flash = spi.flash /\ spi'.fw \in {spi.fw, fw_reset_com(spi.fw)}
    BY <1>3, <1>6, <1>7
  <2>2. QED
    BY <1>1, <1>8, <1>11, <2>1, FirmwareElsewhere DEF PowerManagement, Firmware
<1>13. TouchInv'
  BY <1>1, <1>3, <1>6, <1>7, <1>8, <1>11, TouchElsewhere DEF PowerManagement, TouchScreen
<1>14. PowerInv'
  <2> SUFFICES ASSUME ~chip'.outOfPhase
               PROVE  /\ spi'.power = chip'.power /\ spi'.halted = PowerOff(spi'.power)
                      /\ chip'.reply # -1 => spi'.data = chip'.reply
                      /\ Active' => ~spi'.halted
                      /\ (spi'.written <=> Active' /\ drive'.i = 2)
                      /\ spi'.written => spi'.cntReg = chip'.bytes[1]
    BY <1>1, <1>11 DEF PowerInv
  <2>1. ~chip.outOfPhase /\ (last => done)
    BY <1>1, <1>8
  <2>2. /\ spi.power = chip.power /\ spi.halted = PowerOff(spi.power) /\ ~spi.halted
        /\ (spi.written <=> drive.i = 2)
        /\ spi.written => spi.cntReg = chip.bytes[1]
    BY <1>1, <2>1 DEF PowerInv
  <2>3. t.written = spi.written /\ t.cntReg = spi.cntReg /\ t.power = spi.power /\ t.halted = spi.halted
    BY <1>3, <1>6
  <2>4. CASE drive.i = 1
    <3>1. ~done /\ ~last
      BY <1>2, <2>1, <2>4
    <3>2. /\ chip'.bytes = Append(chip.bytes, b) /\ chip'.reply = -1 /\ chip'.power = chip.power
      BY <1>8, <3>1
    <3>3. ~t.written
      <4>1. ~spi.written
        BY <2>2, <2>4
      <4>2. QED
        BY <2>3, <4>1
    <3>4. spi'.cntReg = b /\ spi'.written /\ spi'.power = t.power /\ spi'.halted = t.halted
      BY <1>7, <3>3 DEF PowerStep
    <3>5. chip'.bytes[1] = b
      BY <1>2, <2>4, <3>2
    <3>6. drive'.i = 2 /\ drive'.script = drive.script
      BY <1>1, <1>5, <2>4, <3>1 DEF SerialTypeOK, DriveRecords
    <3>7. spi'.written \in BOOLEAN
      BY <1>7 DEF SpiOK, SpiRecords
    <3>8. QED
      BY <1>1, <2>2, <2>3, <3>2, <3>4, <3>5, <3>6, <3>7 DEF Active, Quiet
  <2>5. CASE drive.i # 1
    <3>1. drive.i = 2 /\ last /\ done
      <4>1. \A k, m \in Nat : k \in 1 .. m /\ k # 1 /\ m <= 2 => k = 2 /\ m = 2
        OBVIOUS
      <4>2. drive.i = 2 /\ Len(drive.script) = 2
        <5>0. drive.i \in Nat
          BY <1>1 DEF SerialTypeOK, DriveRecords
        <5>1. drive.i \in 1 .. Len(drive.script) /\ Len(drive.script) \in Nat /\ Len(drive.script) <= 2 /\ drive.i \in Nat
          BY <1>2, <5>0
        <5>2. QED
          BY <2>5, <4>1, <5>1
      <4>3. QED
        BY <1>2, <2>5, <4>2
    <3>2. n = chip.bytes[1] /\ t.written /\ t.cntReg = n /\ n \in 0 .. 255
      <4>1. 1 \in 1 .. Len(chip.bytes)
        BY <1>2, <3>1
      <4>2. chip.bytes[1] \in 0 .. 255
        BY <1>2, <4>1, ElementOfSeq
      <4>3. QED
        BY <2>2, <2>3, <3>1, <4>2
    <3>3. drive'.script = <<>> /\ ~Active'
      BY <1>1, <1>5, <3>1 DEF SerialTypeOK, DriveRecords, Active, Quiet
    <3> HIDE DEF n, last, done
    <3>4. ~spi'.written
      BY <1>7, <3>2 DEF PowerStep
    <3>5. CASE n >= 128
      <4>1. ~(n < 128)
        BY <3>2, <3>5
      <4>2. spi'.data = t.power[Register(n % 128) + 1] /\ spi'.power = t.power /\ spi'.halted = t.halted
        BY <1>7, <3>2, <3>5 DEF PowerStep
      <4>3. chip'.power = chip.power /\ chip'.reply = chip.power[Register(n % 128) + 1]
        BY <1>8, <3>1, <3>5, <4>1
      <4>4. QED
        BY <2>2, <2>3, <3>3, <3>4, <4>2, <4>3
    <3>6. CASE n < 128
      <4>1. ~(n >= 128) /\ n % 128 = n
        BY <3>2, <3>6
      <4>2. spi'.power = [t.power EXCEPT ![Register(n) + 1] = b] /\ spi'.halted = (t.halted \/ PowerOff(spi'.power))
        BY <1>7, <3>2, <3>6, <4>1 DEF PowerStep
      <4>3. chip'.power = [chip.power EXCEPT ![Register(n) + 1] = b] /\ chip'.reply = -1
        BY <1>8, <3>1, <3>6, <4>1
      <4>4. PowerOff(spi'.power) \in BOOLEAN
        BY DEF PowerOff
      <4>5. QED
        BY <2>2, <2>3, <3>3, <3>4, <4>2, <4>3, <4>4
    <3>7. QED
      BY <3>2, <3>5, <3>6
  <2>6. QED
    BY <2>4, <2>5
<1>15. QED
  BY <1>9, <1>10, <1>12, <1>13, <1>14 DEF SerialInv

\* What the converter has been sent and has answered.
Whole == Int
TouchHeard(c, last, cmd, y) == [TouchChip(c, last, cmd) EXCEPT !.heard = Append(@, y)]
LEMMA TouchChipIs ==
  ASSUME NEW c \in ChipRecords, NEW last \in BOOLEAN, NEW cmd \in SentBytes, NEW y \in Whole,
         NEW d, d = TouchHeard(c, last, cmd, y)
  PROVE  /\ d \in ChipRecords
         /\ d.bytes = (IF last THEN <<>> ELSE Append(c.bytes, 0)) /\ d.heard = Append(c.heard, y)
         /\ (d.torn <=> c.torn /\ ~(last /\ Measured(cmd)))
         /\ d.enabled = c.enabled /\ d.flash = c.flash /\ d.odd = c.odd /\ d.power = c.power
         /\ d.outOfPhase = c.outOfPhase /\ d.spoiled = c.spoiled
<1> y \in Int
  BY DEF Whole
<1> DEFINE Bs == Seq(0 .. 255)
<1> DEFINE Hs == Seq(Int)
<1> DEFINE C == [bytes : Bs, enabled : BOOLEAN, flash : Flash, power : PowerFile, odd : BOOLEAN, outOfPhase : BOOLEAN,
                 torn : BOOLEAN, spoiled : BOOLEAN, reply : Int, heard : Hs]
<1>0. ChipRecords = C
  BY DEF ChipRecords, PowerFile
<1>1. c \in C /\ c.bytes \in Bs /\ c.heard \in Hs
  BY <1>0
<1> DEFINE n == IF last THEN <<>> ELSE Append(c.bytes, 0)
<1> DEFINE h == Append(c.heard, y)
<1> DEFINE o == c.torn /\ ~(last /\ Measured(cmd))
<1>2. n \in Bs /\ h \in Hs /\ o \in BOOLEAN
  <2>1. <<>> \in Bs /\ Append(c.bytes, 0) \in Bs
    BY <1>1, AppendProperties
  <2>2. QED
    BY <1>1, <2>1, AppendProperties
<1> DEFINE e == [c EXCEPT !.bytes = n, !.torn = o]
<1>3. e = TouchChip(c, last, cmd) /\ d = [e EXCEPT !.heard = Append(e.heard, y)]
  BY DEF TouchChip, TouchHeard
<1>e. e = [c EXCEPT !.bytes = n, !.torn = o]
  OBVIOUS
<1> HIDE DEF n, h, o, Bs, Hs, e
<1>4. /\ e \in C /\ e.bytes = n /\ e.torn = o /\ e.heard = c.heard
      /\ e.enabled = c.enabled /\ e.flash = c.flash /\ e.odd = c.odd /\ e.power = c.power
      /\ e.outOfPhase = c.outOfPhase /\ e.spoiled = c.spoiled
  BY <1>1, <1>2, <1>e
<1>5. d = [e EXCEPT !.heard = h]
  BY <1>3, <1>4 DEF h
<1>6. /\ d \in C /\ d.bytes = n /\ d.torn = o /\ d.heard = h
      /\ d.enabled = c.enabled /\ d.flash = c.flash /\ d.odd = c.odd /\ d.power = c.power
      /\ d.outOfPhase = c.outOfPhase /\ d.spoiled = c.spoiled
  BY <1>2, <1>4, <1>5
<1>7. QED
  BY <1>0, <1>6 DEF n, h, o

\* A byte to the converter.
LEMMA SendTouch ==
  ASSUME SerialInv, SendByte, drive.dev = TouchScreen
  PROVE  SerialInv'
<1> DEFINE b == drive.script[drive.i]
<1> DEFINE last == drive.i = Len(drive.script)
<1> DEFINE set == IF drive.lazy THEN spi ELSE SPICNT(spi, drive.dev, ~(drive.i = Len(drive.script)), drive.slow)
<1> DEFINE t == IF b = 0 THEN set ELSE [set EXCEPT !.cmd = b]
<1> DEFINE passed == TouchByte(t, b)
<1>1. SerialTypeOK /\ ScriptInv /\ FirmwareInv /\ PowerInv /\ TouchInv /\ Active
  BY DEF SerialInv, SendByte, Active, Quiet
<1>2. /\ drive.i \in 1 .. Len(drive.script) /\ Len(drive.script) \in Nat /\ b \in 0 .. 255
      /\ drive.i > 1 => b = 0
  BY <1>1, ScriptIs DEF TouchScreen
<1>3. /\ SpiOK(set) /\ set.dev = drive.dev /\ set.hold = ~(drive.i = Len(drive.script))
      /\ set.fw \in {spi.fw, fw_reset_com(spi.fw)}
      /\ set.cmd = spi.cmd /\ set.partie = spi.partie /\ set.cntReg = spi.cntReg
      /\ set.written = spi.written /\ set.power = spi.power /\ set.halted = spi.halted /\ set.flash = spi.flash
  BY <1>1, Prepared
<1> DEFINE y == spi'.data % 256
<1>4. spi' = passed /\ chip' = [TouchChip(chip, last, spi'.cmd) EXCEPT !.heard = Append(@, y)]
  <2>1. spi' = SPIDATA(set, b)
    BY DEF SendByte
  <2>2. SPIDATA(set, b) = passed
    BY <1>3 DEF SPIDATA, PowerManagement, Firmware, TouchScreen
  <2>3. chip' = [TouchChip(chip, last, SPIDATA(set, b).cmd) EXCEPT !.heard = Append(@, SPIDATA(set, b).data % 256)]
    BY DEF SendByte, PowerManagement, Firmware, TouchScreen
  <2>4. QED
    BY <2>1, <2>2, <2>3
<1>5. drive' = IF last THEN [drive EXCEPT !.script = <<>>, !.i = 0] ELSE [drive EXCEPT !.i = @ + 1]
  BY DEF SendByte
<1> HIDE DEF set, b
<1>t. t = IF b = 0 THEN set ELSE [set EXCEPT !.cmd = b]
  OBVIOUS
<1> HIDE DEF t
<1>6. /\ SpiOK(t) /\ t.cmd = (IF b = 0 THEN set.cmd ELSE b)
      /\ t.dev = set.dev /\ t.hold = set.hold /\ t.fw = set.fw /\ t.partie = set.partie
      /\ t.cntReg = set.cntReg /\ t.written = set.written /\ t.power = set.power /\ t.halted = set.halted
      /\ t.flash = set.flash
  <2>1. SpiOK(set) /\ b \in SentBytes
    BY <1>2, <1>3 DEF SentBytes
  <2>2. QED
    BY <1>t, <2>1, Remembered
<1>7. /\ SpiOK(spi') /\ TouchStep(t, spi') /\ spi'.dev = t.dev /\ spi'.hold = t.hold /\ spi'.fw = t.fw
      /\ spi'.flash = t.flash /\ spi'.cmd = t.cmd /\ spi'.cntReg = t.cntReg /\ spi'.written = t.written
      /\ spi'.power = t.power /\ spi'.halted = t.halted
  <2>1. SpiOK(t) /\ b \in SentBytes /\ spi' = TouchByte(t, b)
    BY <1>2, <1>4, <1>6 DEF SentBytes
  <2>2. QED
    BY <2>1, TouchIs
<1> DEFINE m == Measured(spi'.cmd)
<1>8. /\ chip' \in ChipRecords
      /\ chip'.bytes = (IF last THEN <<>> ELSE Append(chip.bytes, 0)) /\ chip'.heard = Append(chip.heard, y)
      /\ (chip'.torn <=> chip.torn /\ ~(last /\ m))
      /\ chip'.enabled = chip.enabled /\ chip'.flash = chip.flash /\ chip'.odd = chip.odd /\ chip'.power = chip.power
      /\ chip'.outOfPhase = chip.outOfPhase /\ chip'.spoiled = chip.spoiled
  <2>1. chip \in ChipRecords /\ last \in BOOLEAN
    BY <1>1 DEF SerialTypeOK
  <2>2. chip' = [TouchChip(chip, last, spi'.cmd) EXCEPT !.heard = Append(@, y)]
    BY <1>4
  <2>3. y \in Whole
    <3>1. spi'.data \in Int
      BY <1>7 DEF SpiOK, SpiRecords
    <3>2. QED
      BY <3>1 DEF Whole
  <2>4. spi'.cmd \in SentBytes
    BY <1>7 DEF SpiOK, SpiRecords
  <2> DEFINE w == spi'.cmd
  <2>5. chip' = TouchHeard(chip, last, w, y)
    BY <2>2 DEF TouchHeard
  <2>m. m <=> Measured(w)
    OBVIOUS
  <2>7. w \in SentBytes
    BY <2>4
  <2> HIDE DEF last, y, w, m
  <2>6. QED
    BY <2>1, <2>3, <2>5, <2>7, <2>m, TouchChipIs
<1>9. ScriptInv' /\ drive' \in DriveRecords
  <2>1. spi'.dev = drive.dev /\ spi'.hold = ~last
    BY <1>3, <1>6, <1>7
  <2>2. last \in BOOLEAN /\ (last <=> drive.i = Len(drive.script))
    OBVIOUS
  <2> HIDE DEF last
  <2>3. /\ last => chip'.bytes = <<>>
        /\ ~last => \E x \in 0 .. 255 : chip'.bytes = Append(chip.bytes, x)
    BY <1>8
  <2>4. QED
    BY <1>1, <1>5, <2>1, <2>2, <2>3, ScriptMovesOn
<1>10. SerialTypeOK'
  BY <1>7, <1>8, <1>9 DEF SerialTypeOK
<1>11. drive'.dev = drive.dev
  BY <1>1, <1>5 DEF SerialTypeOK, DriveRecords
<1>12. FirmwareInv'
  <2>1. spi'.flash = spi.flash /\ spi'.fw \in {spi.fw, fw_reset_com(spi.fw)}
    BY <1>3, <1>6, <1>7
  <2>2. QED
    BY <1>1, <1>8, <1>11, <2>1, FirmwareElsewhere DEF TouchScreen, Firmware
<1>13. PowerInv'
  BY <1>1, <1>3, <1>6, <1>7, <1>8, <1>11, PowerElsewhere DEF PowerManagement, TouchScreen
<1>14. TouchInv'
  <2> DEFINE c == Channel(spi'.cmd)
  <2>1. /\ drive.i > 1 => spi'.cmd = spi.cmd
        /\ t.partie = spi.partie /\ t.hold = ~last
    BY <1>2, <1>3, <1>6, <1>7
  <2>2. /\ ~m => spi'.partie = spi.partie
        /\ m => spi'.partie = IF ~last /\ spi.partie # 0 THEN 0 ELSE 1
        /\ m /\ ~last /\ spi.partie = 0 => y = High(Nominal[c])
        /\ m /\ ~(~last /\ spi.partie = 0) => \E v \in Measures[c] : y = LowByte(v)
    BY <1>7, <2>1 DEF TouchStep
  <2>3. /\ spi.partie = 0 <=> ~(chip.torn <=> HalfWay)
        /\ Len(chip.heard) = drive.i - 1 /\ (chip.spoiled \/ ~chip.torn)
        /\ drive.i = 3 /\ ~chip.spoiled /\ Measured(spi.cmd) => chip.heard[2] = High(Nominal[Channel(spi.cmd)])
    BY <1>1 DEF TouchInv, InTouch
  <2>4. HalfWay <=> Measured(spi.cmd) /\ drive.i % 2 = 0
    BY <1>1 DEF HalfWay, InTouch
  <2>5. drive.i = 1 => ~HalfWay
    BY <2>4
  <2>6. drive.i = 1 \/ drive.i > 1
    BY <1>2
  <2>7. ~m => ~HalfWay
    BY <2>1, <2>4, <2>5, <2>6
  <2>8. m => (HalfWay <=> drive.i % 2 = 0)
    BY <2>1, <2>4, <2>5, <2>6
  <2>9. chip.heard \in Seq(Int) /\ drive \in DriveRecords /\ drive.i \in Nat
    BY <1>1 DEF SerialTypeOK, ChipRecords, DriveRecords
  <2>10. CASE last
    <3>1. Quiet' /\ ~Active'
      BY <1>5, <2>9, <2>10 DEF Quiet, Active, DriveRecords
    <3>2. ~InTouch' /\ ~HalfWay'
      BY <3>1 DEF InTouch, HalfWay
    <3>3. spi'.partie = 0 <=> chip'.torn
      BY <1>8, <2>2, <2>3, <2>7, <2>10
    <3>4. TouchAsMeasured'
      <4> SUFFICES ASSUME Len(chip'.heard) = 3, ~chip'.spoiled, m
                   PROVE  (chip'.heard[2] * 256 + chip'.heard[3]) \div 8 \in Measures[c]
        BY DEF TouchAsMeasured
      <4>1. Len(chip.heard) = 2 /\ drive.i = 3
        <5>1. Len(chip'.heard) = Len(chip.heard) + 1 /\ Len(chip.heard) \in Nat
          <6> HIDE DEF y
          <6>1. QED
            BY <1>8, <2>9
        <5>2. \A n, i \in Nat : 3 = n + 1 /\ n = i - 1 => n = 2 /\ i = 3
          OBVIOUS
        <5>3. Len(chip.heard) = drive.i - 1 /\ drive.i \in Nat
          BY <2>3, <2>9
        <5>4. 3 = Len(chip.heard) + 1
          BY <5>1
        <5>5. QED
          BY <5>1, <5>2, <5>3, <5>4
      <4>2. spi'.cmd = spi.cmd
        BY <2>1, <4>1
      <4>3. chip.heard[2] = High(Nominal[c])
        BY <1>8, <2>3, <4>1, <4>2
      <4>4. PICK v \in Measures[c] : y = LowByte(v)
        BY <2>2, <2>10
      <4>5. c \in 0 .. 7
        <5>1. spi'.cmd \in 0 .. 255
          BY <1>7 DEF SpiOK, SpiRecords, SentBytes
        <5>2. QED
          BY <5>1 DEF Channel
      <4> HIDE DEF y, c
      <4>6. chip'.heard[2] = chip.heard[2] /\ chip'.heard[3] = y
        BY <1>8, <2>9, <4>1
      <4>7. TwelveBits(v) /\ High(v) = High(Nominal[c])
        BY <4>5, Measured12
      <4>8. (High(v) * 256 + LowByte(v)) \div 8 = v
        BY <4>7, HalvesJoin
      <4>9. chip'.heard[2] = High(v) /\ chip'.heard[3] = LowByte(v)
        BY <4>3, <4>4, <4>6, <4>7
      <4>10. QED
        BY <4>8, <4>9
    <3>5. QED
      BY <3>2, <3>3, <3>4 DEF TouchInv
  <2>11. CASE ~last
    <3>1. drive'.i = drive.i + 1 /\ drive'.script = drive.script /\ Active' /\ ~Quiet'
      BY <1>1, <1>5, <2>9, <2>11 DEF DriveRecords, Active, Quiet
    <3>2. InTouch' /\ (HalfWay' <=> m /\ (drive.i + 1) % 2 = 0)
      BY <1>11, <3>1 DEF InTouch, HalfWay
    <3>3. (drive.i + 1) % 2 = 0 <=> ~(drive.i % 2 = 0)
      BY <2>9
    <3>4. spi.partie \in {0, 1}
      BY <1>1 DEF SerialTypeOK, SpiOK, SpiRecords
    <3>5. spi'.partie = 0 <=> ~(chip'.torn <=> HalfWay')
      <4>1. CASE m
        BY <1>8, <2>2, <2>3, <2>8, <2>11, <3>2, <3>3, <3>4, <4>1
      <4>2. CASE ~m
        BY <1>8, <2>2, <2>3, <2>7, <2>11, <3>2, <4>2
      <4>3. QED
        BY <4>1, <4>2
    <3>6. Len(chip'.heard) = drive'.i - 1 /\ (chip'.spoiled \/ ~chip'.torn)
      <4>1. Len(chip'.heard) = Len(chip.heard) + 1 /\ Len(chip.heard) \in Nat
        <5> HIDE DEF y
        <5>1. QED
          BY <1>8, <2>9
      <4>2. QED
        BY <1>8, <2>3, <2>9, <3>1, <4>1
    <3>7. ASSUME drive'.i = 3, ~chip'.spoiled, m
          PROVE  chip'.heard[2] = High(Nominal[c])
      <4>1. drive.i = 2 /\ Len(chip.heard) = 1
        BY <2>3, <2>9, <3>1, <3>7
      <4>2. ~chip.torn
        BY <1>8, <2>3, <3>7
      <4>3. HalfWay
        BY <2>8, <3>7, <4>1
      <4>4. spi.partie = 0
        BY <2>3, <4>2, <4>3
      <4>5. y = High(Nominal[c])
        BY <2>2, <2>11, <3>7, <4>4
      <4> HIDE DEF y, c
      <4>6. chip'.heard[2] = y
        BY <1>8, <2>9, <4>1
      <4>7. QED
        BY <4>5, <4>6
    <3>8. TouchAsMeasured'
      BY <3>1 DEF TouchAsMeasured
    <3>9. QED
      BY <3>2, <3>5, <3>6, <3>7, <3>8 DEF TouchInv
  <2>12. QED
    BY <2>10, <2>11
<1>15. QED
  BY <1>9, <1>10, <1>12, <1>13, <1>14 DEF SerialInv
-----------------------------------------------------------------------------
(* Serial bus: a byte to the firmware *)

\* The next byte of a selection stands behind the others.
LEMMA Behind ==
  ASSUME NEW s \in Seq(0 .. 255), NEW b \in SentBytes, NEW u, u = Append(s, b)
  PROVE  /\ u \in Seq(0 .. 255) /\ Len(u) = Len(s) + 1 /\ Len(s) \in Nat
         /\ u[Len(s) + 1] = b /\ (\A k \in 1 .. Len(s) : u[k] = s[k])
BY AppendProperties, LenProperties DEF SentBytes

\* The bytes of an address.
LEMMA AddressIs ==
  ASSUME NEW s \in Seq(0 .. 255), Len(s) >= 4
  PROVE  AddressOf(s) \in Nat
<1>1. \A k \in {2, 3, 4} : k \in 1 .. Len(s)
  BY LenProperties
<1>2. s[2] \in 0 .. 255 /\ s[3] \in 0 .. 255 /\ s[4] \in 0 .. 255
  BY <1>1, ElementOfSeq
<1>3. \A x, y, z \in Nat : x * 65536 + y * 256 + z \in Nat
  OBVIOUS
<1>4. \A v \in 0 .. 255 : v \in Nat
  OBVIOUS
<1>5. s[2] \in Nat /\ s[3] \in Nat /\ s[4] \in Nat
  BY <1>2, <1>4, Zenon
<1> DEFINE x == s[2]
<1> DEFINE y == s[3]
<1> DEFINE z == s[4]
<1>6. x * 65536 + y * 256 + z \in Nat
  <2>1. x \in Nat /\ y \in Nat /\ z \in Nat
    BY <1>5
  <2> HIDE DEF x, y, z
  <2>2. QED
    BY <1>3, <2>1
<1>7. QED
  BY <1>6 DEF AddressOf

\* What the chip answers is a number.
LEMMA AnswerIs ==
  ASSUME NEW c \in ChipRecords, NEW b \in SentBytes
  PROVE  Answer(c, b) \in Int
<1>1. c.bytes \in Seq(0 .. 255) /\ c.flash \in Flash /\ Len(c.bytes) \in Nat
  BY LenProperties DEF ChipRecords
<1> DEFINE n == Len(c.bytes)
<1> DEFINE at == AddressOf(c.bytes) + n - 4
<1>2. n >= 4 /\ at < FirmwareSize => c.flash[at] \in Int
  <2>1. n >= 4 => at \in Nat
    BY <1>1, AddressIs
  <2>2. at \in Nat /\ at < FirmwareSize => at \in 0 .. FirmwareSize - 1
    BY Constants
  <2> HIDE DEF at
  <2>3. QED
    BY <1>1, <2>1, <2>2 DEF Flash
<1>3. n # 0 => ChipId[((n - 1) % 3) + 1] \in Int
  <2>1. n # 0 => (n - 1) % 3 \in 0 .. 2
    <3>1. \A k \in Nat : k # 0 => (k - 1) % 3 \in 0 .. 2
      OBVIOUS
    <3> HIDE DEF n
    <3>2. n \in Nat
      BY <1>1 DEF n
    <3>3. QED
      BY <3>1, <3>2
  <2>2. \A k \in 0 .. 2 : ChipId[k + 1] \in Int
    BY DEF ChipId
  <2>3. QED
    BY <2>1, <2>2
<1> DEFINE q == ((n - 1) % 3) + 1
<1>4. Answer(c, b) \in {-1, 0, 2} \/ (n # 0 /\ Answer(c, b) = ChipId[q])
      \/ (n >= 4 /\ at < FirmwareSize /\ Answer(c, b) = c.flash[at])
  BY DEF Answer
<1>q. n # 0 => ChipId[q] \in Int
  BY <1>3
<1> HIDE DEF at, q
<1>5. QED
  BY <1>2, <1>4, <1>q

\* What the firmware chip does with a byte by its own rules.
Permitted(c, b) == IF b = WRITEENABLE THEN TRUE ELSE IF b = WRITEDISABLE THEN FALSE ELSE c.enabled
WritesAt(c) == AddressOf(c.bytes) + Len(c.bytes) - 4
WritesByte(c) == c.bytes # <<>> /\ c.bytes[1] = PAGEWRITE /\ c.enabled /\ Len(c.bytes) >= 4 /\ WritesAt(c) < FirmwareSize
ByteStep(c, b, d) ==
  /\ d \in ChipRecords
  /\ d.enabled = (IF c.bytes = <<>> THEN Permitted(c, b) ELSE c.enabled)
  /\ d.flash = (IF WritesByte(c) THEN [c.flash EXCEPT ![WritesAt(c)] = b] ELSE c.flash)
  /\ d.power = c.power /\ d.outOfPhase = c.outOfPhase /\ d.torn = c.torn /\ d.spoiled = c.spoiled /\ d.heard = c.heard
LEMMA ByteTakenIs ==
  ASSUME NEW c \in ChipRecords, NEW b \in SentBytes, NEW d, d = ByteTaken(c, b)
  PROVE  ByteStep(c, b, d) /\ d.bytes = c.bytes /\ d.reply = c.reply /\ d.odd = c.odd
<1> b \in 0 .. 255
  BY DEF SentBytes
<1> DEFINE Bs == Seq(0 .. 255)
<1> DEFINE Hs == Seq(Int)
<1> DEFINE C == [bytes : Bs, enabled : BOOLEAN, flash : Flash, power : PowerFile, odd : BOOLEAN, outOfPhase : BOOLEAN,
                 torn : BOOLEAN, spoiled : BOOLEAN, reply : Int, heard : Hs]
<1>0. ChipRecords = C
  BY DEF ChipRecords, PowerFile
<1>1. c \in C /\ c.bytes \in Bs /\ c.flash \in Flash /\ c.enabled \in BOOLEAN
  BY <1>0
<1>2. Len(c.bytes) \in Nat /\ (c.bytes = <<>> <=> Len(c.bytes) = 0)
  BY <1>1, EmptySeq, LenProperties
<1> HIDE DEF Bs, Hs
<1>3. CASE c.bytes = <<>>
  <2> DEFINE p == Permitted(c, b)
  <2>1. d = [c EXCEPT !.enabled = p] /\ p \in BOOLEAN
    BY <1>1, <1>2, <1>3 DEF ByteTaken, Permitted
  <2> HIDE DEF p
  <2>2. /\ d \in C /\ d.enabled = p /\ d.bytes = c.bytes /\ d.reply = c.reply /\ d.odd = c.odd /\ d.flash = c.flash
        /\ d.power = c.power /\ d.outOfPhase = c.outOfPhase /\ d.torn = c.torn /\ d.spoiled = c.spoiled /\ d.heard = c.heard
    BY <1>1, <2>1
  <2>3. QED
    BY <1>0, <1>3, <2>2 DEF ByteStep, WritesByte, p
<1>4. CASE WritesByte(c)
  <2> DEFINE at == WritesAt(c)
  <2> DEFINE m == [c.flash EXCEPT ![at] = b]
  <2>1. d = [c EXCEPT !.flash = m]
    BY <1>2, <1>4 DEF ByteTaken, WritesByte, WritesAt
  <2>2. m \in Flash
    <3>1. b \in Int
      OBVIOUS
    <3> HIDE DEF at
    <3>2. QED
      BY <1>1, <3>1 DEF Flash
  <2> HIDE DEF m
  <2>3. /\ d \in C /\ d.enabled = c.enabled /\ d.bytes = c.bytes /\ d.reply = c.reply /\ d.odd = c.odd /\ d.flash = m
        /\ d.power = c.power /\ d.outOfPhase = c.outOfPhase /\ d.torn = c.torn /\ d.spoiled = c.spoiled /\ d.heard = c.heard
    BY <1>1, <2>1, <2>2
  <2>4. c.bytes # <<>>
    BY <1>4 DEF WritesByte
  <2>5. QED
    BY <1>0, <1>4, <2>3, <2>4 DEF ByteStep, m
<1>5. CASE c.bytes # <<>> /\ ~WritesByte(c)
  <2>1. d = c
    BY <1>2, <1>5 DEF ByteTaken, WritesByte, WritesAt
  <2>2. QED
    BY <1>0, <1>1, <1>5, <2>1 DEF ByteStep
<1>6. QED
  BY <1>3, <1>4, <1>5

\* The same with the selection that goes on or is released.
FirmwareChipStep(c, b, last, written, d) ==
  /\ \E e \in ChipRecords :
       /\ ByteStep(c, b, e) /\ e.bytes = Append(c.bytes, b) /\ e.reply = Answer(c, b)
       /\ d.bytes = (IF last THEN <<>> ELSE e.bytes)
       /\ d.enabled = (IF last /\ e.bytes[1] = PAGEWRITE THEN FALSE ELSE e.enabled)
       /\ d.flash = e.flash /\ d.reply = e.reply
  /\ d \in ChipRecords
  /\ (d.odd <=> c.odd \/ drive.slow \/ (c.bytes = <<>> /\ ~written) \/ (c.bytes # <<>> /\ TakesNone(c, c.bytes[1])))
  /\ d.power = c.power /\ d.outOfPhase = c.outOfPhase /\ d.torn = c.torn /\ d.spoiled = c.spoiled /\ d.heard = c.heard
LEMMA FirmwareChipIs ==
  ASSUME NEW c \in ChipRecords, NEW b \in SentBytes, NEW last \in BOOLEAN, NEW written \in BOOLEAN,
         NEW d, d = FirmwareChip(c, b, last, written), drive.slow \in BOOLEAN
  PROVE  FirmwareChipStep(c, b, last, written, d)
<1> DEFINE Bs == Seq(0 .. 255)
<1> DEFINE Hs == Seq(Int)
<1> DEFINE C == [bytes : Bs, enabled : BOOLEAN, flash : Flash, power : PowerFile, odd : BOOLEAN, outOfPhase : BOOLEAN,
                 torn : BOOLEAN, spoiled : BOOLEAN, reply : Int, heard : Hs]
<1>0. ChipRecords = C
  BY DEF ChipRecords, PowerFile
<1> DEFINE u == Append(c.bytes, b)
<1>1. c.bytes \in Seq(0 .. 255) /\ u \in Bs /\ Len(u) \in Nat /\ Len(u) >= 1 /\ <<>> \in Bs
  <2>1. c.bytes \in Seq(0 .. 255)
    BY <1>0
  <2>2. u \in Seq(0 .. 255) /\ Len(u) = Len(c.bytes) + 1 /\ Len(c.bytes) \in Nat
    <3> DEFINE s == c.bytes
    <3>1. s \in Seq(0 .. 255) /\ u = Append(s, b)
      BY <2>1
    <3> HIDE DEF s, u
    <3>2. u \in Seq(0 .. 255) /\ Len(u) = Len(s) + 1 /\ Len(s) \in Nat
      BY <3>1, Behind
    <3>3. QED
      BY <3>2 DEF s
  <2>3. QED
    BY <2>1, <2>2
<1> DEFINE a == Answer(c, b)
<1>2. a \in Int
  BY AnswerIs
<1> DEFINE odd == c.odd \/ drive.slow \/ (c.bytes = <<>> /\ ~written) \/ (c.bytes # <<>> /\ TakesNone(c, c.bytes[1]))
<1>3. odd \in BOOLEAN
  BY <1>0 DEF TakesNone
<1> DEFINE k == ByteTaken(c, b)
<1>4. ByteStep(c, b, k) /\ k.bytes = c.bytes
  BY ByteTakenIs
<1> DEFINE e == [k EXCEPT !.bytes = u, !.reply = a, !.odd = odd]
<1>5. d = IF last THEN Released(e) ELSE e
  BY <1>4 DEF FirmwareChip
<1> HIDE DEF Bs, Hs, u, a, odd, k
<1>6. k \in C
  BY <1>0, <1>4 DEF ByteStep
<1>7. /\ e \in C /\ e.bytes = u /\ e.reply = a /\ e.odd = odd /\ e.enabled = k.enabled /\ e.flash = k.flash
      /\ e.power = k.power /\ e.outOfPhase = k.outOfPhase /\ e.torn = k.torn /\ e.spoiled = k.spoiled /\ e.heard = k.heard
  BY <1>1, <1>2, <1>3, <1>6
<1> HIDE DEF e
<1>8. /\ ByteStep(c, b, e)
      /\ e.power = c.power /\ e.outOfPhase = c.outOfPhase /\ e.torn = c.torn /\ e.spoiled = c.spoiled /\ e.heard = c.heard
  BY <1>0, <1>4, <1>7 DEF ByteStep
<1>9. CASE ~last
  <2>1. d = e
    BY <1>5, <1>9
  <2>2. QED
    BY <1>0, <1>7, <1>8, <1>9, <2>1 DEF u, a, odd, FirmwareChipStep
<1>10. CASE last
  <2> DEFINE x == IF u[1] = PAGEWRITE THEN FALSE ELSE e.enabled
  <2>1. d = [e EXCEPT !.bytes = <<>>, !.enabled = x] /\ x \in BOOLEAN
    BY <1>1, <1>5, <1>7, <1>10 DEF Released
  <2> HIDE DEF x
  <2>2. /\ d \in C /\ d.bytes = <<>> /\ d.reply = e.reply /\ d.odd = e.odd /\ d.enabled = x /\ d.flash = e.flash
        /\ d.power = e.power /\ d.outOfPhase = e.outOfPhase /\ d.torn = e.torn /\ d.spoiled = e.spoiled /\ d.heard = e.heard
    BY <1>1, <1>7, <2>1
  <2>3. d.enabled = IF last /\ e.bytes[1] = PAGEWRITE THEN FALSE ELSE e.enabled
    BY <1>7, <1>10, <2>2 DEF x
  <2>4. QED
    BY <1>0, <1>7, <1>8, <1>10, <2>2, <2>3 DEF u, a, odd, FirmwareChipStep
<1>11. QED
  BY <1>9, <1>10
\* A selection begins with a command; one that is refused leaves the chip without any.
LEMMA SelectionBegins ==
  ASSUME NEW s, SpiOK(s), s.fw.com = 0, NEW c \in ChipRecords, c.bytes = <<>>, s.fw.write_enable <=> c.enabled,
         NEW b \in SentBytes, NEW t, t = Commanded(s, b),
         NEW e \in ChipRecords, e.bytes = Append(c.bytes, b), e.enabled = Permitted(c, b)
  PROVE  FirmwareHears(t.fw, e)
<1> DEFINE f == s.fw
<1> DEFINE g == t.fw
<1>1. f \in FirmwareOK /\ f \in FirmwareRecords /\ f.com = 0 /\ f.write_enable \in BOOLEAN /\ c.enabled \in BOOLEAN
  BY DEF SpiOK, SpiRecords, FirmwareOK, FirmwareRecords, ChipRecords
<1>2. Len(e.bytes) = 1 /\ e.bytes[1] = b
  <2>1. <<>> \in Seq(0 .. 255) /\ Len(<<>>) = 0
    OBVIOUS
  <2>2. e.bytes = Append(<<>>, b)
    OBVIOUS
  <2>3. QED
    BY <2>1, <2>2, Behind
<1>3. \A h \in FirmwareOK, d \in Int : t = Heard(s, h, d) => g = h
  BY HeardIs
<1>4. b \in Int
  BY DEF SentBytes
<1>5. \A k \in {READ, PAGEWRITE} : [f EXCEPT !.com = k, !.addr = 0, !.addr_shift = 3] \in FirmwareOK
  BY <1>1, AddressBegins
<1>6. CASE b = READ \/ (b = PAGEWRITE /\ f.write_enable)
  <2> DEFINE h == [f EXCEPT !.com = b, !.addr = 0, !.addr_shift = 3]
  <2>1. t = Heard(s, h, b)
    <3>1. CASE b = READ
      BY <3>1 DEF Commanded, READ, PAGEWRITE, READ_ID, READSTATUS, WRITEENABLE, WRITEDISABLE
    <3>2. CASE b = PAGEWRITE /\ f.write_enable
      BY <3>2 DEF Commanded, READ, PAGEWRITE, READ_ID, READSTATUS, WRITEENABLE, WRITEDISABLE
    <3>3. QED
      BY <1>6, <3>1, <3>2
  <2>2. h \in FirmwareOK
    BY <1>5, <1>6
  <2>3. g = h
    BY <1>3, <1>4, <2>1, <2>2
  <2>4. g.com = b /\ g.addr = 0 /\ g.addr_shift = 3 /\ g.write_enable = f.write_enable
    BY <1>1, <2>3 DEF FirmwareRecords
  <2>5. e.enabled = c.enabled
    <3>1. b # WRITEENABLE /\ b # WRITEDISABLE
      BY <1>6 DEF READ, PAGEWRITE, WRITEENABLE, WRITEDISABLE
    <3>2. QED
      BY <3>1 DEF Permitted
  <2>6. ~TakesNone(e, b)
    BY <1>1, <1>6, <2>5 DEF TakesNone
  <2>7. b # READSTATUS /\ b # READ_ID
    BY <1>6 DEF READ, PAGEWRITE, READ_ID, READSTATUS
  <2>8. QED
    BY <1>1, <1>2, <2>4, <2>5, <2>6, <2>7 DEF FirmwareHears, AddressHeard
<1>7. CASE b = READ_ID
  <2> DEFINE h == [f EXCEPT !.com = READ_ID, !.addr = 0]
  <2>1. t = Heard(s, h, b)
    BY <1>7 DEF Commanded, READ, PAGEWRITE, READ_ID, READSTATUS, WRITEENABLE, WRITEDISABLE
  <2>2. h \in FirmwareRecords /\ h.addr = 0 /\ h.com = READ_ID /\ h.write_enable = f.write_enable
    BY <1>1 DEF FirmwareRecords
  <2> HIDE DEF h
  <2>3. g = h
    BY <1>3, <1>4, <2>1, <2>2 DEF FirmwareOK
  <2>4. e.enabled = c.enabled
    BY <1>7 DEF Permitted, READ_ID, WRITEENABLE, WRITEDISABLE
  <2>5. ~AddressSent(e) /\ ~TakesNone(e, b) /\ b # READSTATUS
    BY <1>2, <1>7 DEF AddressSent, TakesNone, READ, PAGEWRITE, READ_ID, READSTATUS
  <2>6. 0 = (Len(e.bytes) - 1) % 3
    BY <1>2
  <2>7. QED
    BY <1>1, <1>2, <1>7, <2>2, <2>3, <2>4, <2>5, <2>6 DEF FirmwareHears
<1>8. CASE b = READSTATUS
  <2> DEFINE h == [f EXCEPT !.com = READSTATUS]
  <2>1. t = Heard(s, h, b)
    BY <1>8 DEF Commanded, READ, PAGEWRITE, READ_ID, READSTATUS, WRITEENABLE, WRITEDISABLE
  <2>2. h \in FirmwareRecords /\ h.com = READSTATUS /\ h.write_enable = f.write_enable
    BY <1>1 DEF FirmwareRecords
  <2> HIDE DEF h
  <2>3. g = h
    BY <1>3, <1>4, <2>1, <2>2 DEF FirmwareOK, READSTATUS, READ_ID
  <2>4. e.enabled = c.enabled
    BY <1>8 DEF Permitted, READSTATUS, WRITEENABLE, WRITEDISABLE
  <2>5. ~AddressSent(e) /\ ~TakesNone(e, b) /\ b # READ_ID
    BY <1>2, <1>8 DEF AddressSent, TakesNone, READ, PAGEWRITE, READ_ID, READSTATUS
  <2>6. QED
    BY <1>1, <1>2, <1>8, <2>2, <2>3, <2>4, <2>5 DEF FirmwareHears
<1>9. CASE b \notin {READ, READ_ID, READSTATUS} /\ ~(b = PAGEWRITE /\ f.write_enable)
  <2> DEFINE w == IF b = WRITEENABLE THEN TRUE ELSE IF b = WRITEDISABLE THEN FALSE ELSE f.write_enable
  <2> DEFINE h == [f EXCEPT !.write_enable = w]
  <2>1. w \in BOOLEAN
    BY <1>1
  <2>2. \E d \in Int : t = Heard(s, h, d)
    <3>1. CASE b = WRITEENABLE
      BY <1>4, <3>1 DEF Commanded, READ, PAGEWRITE, READ_ID, READSTATUS, WRITEENABLE, WRITEDISABLE
    <3>2. CASE b = WRITEDISABLE
      BY <1>4, <3>2 DEF Commanded, READ, PAGEWRITE, READ_ID, READSTATUS, WRITEENABLE, WRITEDISABLE
    <3>3. CASE b # WRITEENABLE /\ b # WRITEDISABLE
      <4>1. h = f
        BY <1>1, <3>3 DEF FirmwareRecords
      <4>2. t = Heard(s, f, b) \/ t = Heard(s, f, 0)
        BY <1>9, <3>3 DEF Commanded
      <4>3. QED
        BY <1>4, <4>1, <4>2
    <3>4. QED
      BY <3>1, <3>2, <3>3
  <2> HIDE DEF w
  <2>3. h \in FirmwareRecords /\ h.com = 0 /\ h.write_enable = w
    BY <1>1, <2>1 DEF FirmwareRecords
  <2> HIDE DEF h
  <2>4. g = h
    BY <1>3, <2>2, <2>3 DEF FirmwareOK, READ_ID
  <2>5. w = e.enabled
    BY <1>1 DEF Permitted, w
  <2>6. ~AddressSent(e) /\ b # READ_ID /\ b # READSTATUS
    <3>1. b = PAGEWRITE => ~e.enabled
      BY <1>1, <1>9 DEF Permitted, PAGEWRITE, WRITEENABLE, WRITEDISABLE
    <3>2. QED
      BY <1>2, <1>9, <3>1 DEF AddressSent
  <2>7. QED
    BY <1>2, <2>3, <2>4, <2>5, <2>6 DEF FirmwareHears
<1>10. QED
  BY <1>6, <1>7, <1>8, <1>9

\* A selection that is released: what the firmware keeps is forgotten with its command.
LEMMA SelectionEnds ==
  ASSUME NEW f \in FirmwareOK, NEW e \in ChipRecords, FirmwareHears(f, e), NEW d,
         d.enabled = IF e.bytes[1] = PAGEWRITE THEN FALSE ELSE e.enabled
  PROVE  FirmwareRests(f, d)
<1>1. f.write_enable \in BOOLEAN /\ e.enabled \in BOOLEAN /\ f.write_enable = e.enabled
  BY DEF FirmwareOK, FirmwareRecords, ChipRecords, FirmwareHears
<1>2. CASE f.com = PAGEWRITE
  <2>1. /\ e.bytes[1] # READ /\ e.bytes[1] # READSTATUS /\ e.bytes[1] # READ_ID /\ ~TakesNone(e, e.bytes[1])
    BY <1>2 DEF FirmwareHears, AddressSent, AddressHeard, READ, PAGEWRITE, READ_ID, READSTATUS
  <2>2. e.bytes[1] = PAGEWRITE
    BY <2>1 DEF TakesNone
  <2>3. QED
    BY <1>2, <2>2 DEF FirmwareRests
<1>3. CASE f.com # PAGEWRITE
  <2>1. e.bytes[1] = PAGEWRITE => ~e.enabled
    BY <1>3 DEF FirmwareHears, AddressSent, AddressHeard
  <2>2. QED
    BY <1>1, <1>3, <2>1 DEF FirmwareRests
<1>4. QED
  BY <1>2, <1>3

\* A firmware that rests has no command and its permission, once it is reset.
LEMMA RestIs ==
  ASSUME NEW f \in FirmwareOK, NEW c \in ChipRecords, FirmwareRests(f, c)
  PROVE  fw_reset_com(f).com = 0 /\ (fw_reset_com(f).write_enable <=> c.enabled)
<1>1. fw_reset_com(f).com = 0 /\ (fw_reset_com(f).write_enable <=> f.com # PAGEWRITE /\ f.write_enable)
  BY ResetIs
<1>2. CASE f.com = PAGEWRITE
  BY <1>1, <1>2 DEF FirmwareRests
<1>3. CASE f.com # PAGEWRITE
  BY <1>1, <1>3 DEF FirmwareRests
<1>4. QED
  BY <1>2, <1>3
\* The words of a selection with an address reach the firmware one by one: three bytes, then the places from there.
Placed(b, k) == b * Weight[k]
AddressStep(f, n, b, g) ==
  /\ n < 4 => g = [f EXCEPT !.addr_shift = f.addr_shift - 1, !.addr = f.addr + Placed(b, f.addr_shift)]
  /\ n >= 4 /\ f.addr >= FirmwareSize => g = f
  /\ n >= 4 /\ f.addr < FirmwareSize => g = [f EXCEPT !.addr = f.addr + 1]
Follows(u, b, v) == u \in Seq(0 .. 255) /\ u # <<>> /\ v = Append(u, b)
LEMMA AddressGoesOn ==
  ASSUME NEW f \in FirmwareRecords, NEW u, NEW b \in SentBytes, NEW v, Follows(u, b, v),
         AddressHeard(f, u), NEW g, AddressStep(f, Len(u), b, g)
  PROVE  AddressHeard(g, v) /\ g.write_enable = f.write_enable
<1> DEFINE n == Len(u)
<1>1. /\ Len(v) = n + 1 /\ n \in Nat /\ v[n + 1] = b /\ (\A k \in 1 .. n : v[k] = u[k]) /\ n >= 1
  BY Behind, EmptySeq, LenProperties DEF Follows
<1>3. v[1] = u[1] /\ b \in 0 .. 255
  <2>1. 1 \in 1 .. n
    BY <1>1
  <2>2. QED
    BY <1>1, <2>1 DEF SentBytes
<1>4. f.addr \in Nat /\ f.com = u[1]
  BY DEF FirmwareRecords, AddressHeard
<1>p. Placed(b, 3) = b * 65536 /\ Placed(b, 2) = b * 256 /\ Placed(b, 1) = b
  <2>1. \A k \in 0 .. 255 : k * 1 = k
    OBVIOUS
  <2>2. Weight[1] = 1 /\ Weight[2] = 256 /\ Weight[3] = 65536
    BY DEF Weight
  <2>3. QED
    BY <1>3, <2>1, <2>2 DEF Placed
<1>5. CASE n = 1
  <2>1. f.addr_shift = 3 /\ f.addr = 0
    BY <1>5 DEF AddressHeard
  <2> DEFINE w == b * 65536
  <2>w. f.addr + Placed(b, 3) = w
    BY <1>3, <1>p, <2>1
  <2>2. g = [f EXCEPT !.addr_shift = 2, !.addr = w]
    <3>1. n < 4 /\ f.addr_shift - 1 = 2
      BY <1>5, <2>1
    <3>2. f.addr + Placed(b, f.addr_shift) = w
      BY <1>p, <2>1, <2>w
    <3> HIDE DEF w
    <3>3. QED
      BY <3>1, <3>2 DEF AddressStep
  <2>3. g.addr_shift = 2 /\ g.addr = b * 65536 /\ g.com = f.com /\ g.write_enable = f.write_enable
    BY <2>2 DEF FirmwareRecords
  <2>4. Len(v) = 2 /\ v[2] = b
    BY <1>1, <1>5
  <2>5. QED
    BY <1>3, <1>4, <2>3, <2>4 DEF AddressHeard
<1>6. CASE n = 2
  <2>1. f.addr_shift = 2 /\ f.addr = u[2] * 65536
    BY <1>6 DEF AddressHeard
  <2> DEFINE w == f.addr + b * 256
  <2>w. f.addr + Placed(b, 2) = w
    BY <1>3, <1>p, <2>1
  <2>2. g = [f EXCEPT !.addr_shift = 1, !.addr = w]
    <3>1. n < 4 /\ f.addr_shift - 1 = 1
      BY <1>6, <2>1
    <3>2. f.addr + Placed(b, f.addr_shift) = w
      BY <1>p, <2>1, <2>w
    <3> HIDE DEF w
    <3>3. QED
      BY <3>1, <3>2 DEF AddressStep
  <2>3. g.addr_shift = 1 /\ g.addr = f.addr + b * 256 /\ g.com = f.com /\ g.write_enable = f.write_enable
    BY <2>2 DEF FirmwareRecords
  <2>4. Len(v) = 3 /\ v[3] = b /\ v[2] = u[2]
    BY <1>1, <1>6
  <2>5. QED
    BY <1>3, <1>4, <2>1, <2>3, <2>4 DEF AddressHeard
<1>7. CASE n = 3
  <2>1. f.addr_shift = 1 /\ f.addr = u[2] * 65536 + u[3] * 256
    BY <1>7 DEF AddressHeard
  <2> DEFINE w == f.addr + b
  <2>w. f.addr + Placed(b, 1) = w
    BY <1>3, <1>p, <2>1
  <2>2. g = [f EXCEPT !.addr_shift = 0, !.addr = w]
    <3>1. n < 4 /\ f.addr_shift - 1 = 0
      BY <1>7, <2>1
    <3>2. f.addr + Placed(b, f.addr_shift) = w
      BY <1>p, <2>1, <2>w
    <3> HIDE DEF w
    <3>3. QED
      BY <3>1, <3>2 DEF AddressStep
  <2>3. g.addr_shift = 0 /\ g.addr = f.addr + b /\ g.com = f.com /\ g.write_enable = f.write_enable
    BY <2>2 DEF FirmwareRecords
  <2>4. Len(v) = 4 /\ v[4] = b /\ v[3] = u[3] /\ v[2] = u[2]
    BY <1>1, <1>7
  <2>5. g.addr = AddressOf(v) + Len(v) - 4
    <3>1. AddressOf(v) = f.addr + b
      BY <2>1, <2>4 DEF AddressOf
    <3>2. f.addr + b \in Nat
      <4>1. \A k, m \in Nat : k + m \in Nat
        OBVIOUS
      <4>2. b \in Nat
        BY DEF SentBytes
      <4>3. QED
        BY <1>4, <4>1, <4>2
    <3>3. QED
      BY <2>3, <2>4, <3>1, <3>2
  <2>6. QED
    BY <1>3, <1>4, <2>3, <2>4, <2>5 DEF AddressHeard
<1>8. CASE n >= 4
  <2> DEFINE at == AddressOf(u) + n - 4
  <2> DEFINE to == AddressOf(v) + Len(v) - 4
  <2>1. f.addr_shift = 0 /\ (f.addr = at \/ (f.addr >= FirmwareSize /\ at >= FirmwareSize))
    BY <1>8 DEF AddressHeard
  <2>2. AddressOf(u) \in Nat /\ AddressOf(v) = AddressOf(u)
    <3>1. v[2] = u[2] /\ v[3] = u[3] /\ v[4] = u[4]
      <4>1. 2 \in 1 .. n /\ 3 \in 1 .. n /\ 4 \in 1 .. n
        BY <1>1, <1>8
      <4>2. QED
        BY <1>1, <4>1
    <3>2. QED
      BY <1>8, <3>1, AddressIs DEF AddressOf, Follows
  <2>3. at \in Nat /\ to = at + 1 /\ Len(v) >= 4 /\ Len(v) \notin {1, 2, 3}
    BY <1>1, <1>8, <2>2
  <2> HIDE DEF at, to, n
  <2>4. FirmwareSize \in Nat
    BY Constants
  <2>5. g.addr_shift = 0 /\ (g.addr = to \/ (g.addr >= FirmwareSize /\ to >= FirmwareSize))
        /\ g.com = f.com /\ g.write_enable = f.write_enable
    <3>1. CASE f.addr >= FirmwareSize
      <4>1. g = f
        BY <1>8, <3>1 DEF n, AddressStep
      <4>2. at >= FirmwareSize
        BY <2>1, <3>1
      <4>3. to >= FirmwareSize
        BY <2>3, <2>4, <4>2
      <4>4. QED
        BY <2>1, <3>1, <4>1, <4>3
    <3>2. CASE f.addr < FirmwareSize
      <4>1. f.addr = at
        BY <1>4, <2>1, <2>4, <3>2
      <4>2. g = [f EXCEPT !.addr = f.addr + 1]
        BY <1>8, <3>2 DEF n, AddressStep
      <4>3. g.addr = f.addr + 1 /\ g.addr_shift = f.addr_shift /\ g.com = f.com /\ g.write_enable = f.write_enable
        BY <4>2 DEF FirmwareRecords
      <4>4. QED
        BY <2>1, <2>3, <4>1, <4>3
    <3>3. QED
      BY <1>4, <2>4, <3>1, <3>2
  <2>6. QED
    BY <1>3, <1>4, <2>3, <2>5 DEF AddressHeard, to
<1>9. n \in {1, 2, 3} \/ n >= 4
  <2> HIDE DEF n
  <2>1. QED
    BY <1>1
<1>10. QED
  BY <1>5, <1>6, <1>7, <1>8, <1>9
\* What a selection hands to the firmware chip, by its first byte.
LEMMA ChipAnswers ==
  ASSUME NEW c \in ChipRecords, c.bytes # <<>>, NEW b, NEW e, ByteStep(c, b, e)
  PROVE  LET n == Len(c.bytes)
             first == c.bytes[1]
         IN  /\ first \in {READSTATUS, READ_ID} => e.flash = c.flash
             /\ first = READSTATUS => Answer(c, b) = IF c.enabled THEN 2 ELSE 0
             /\ first = READ_ID => Answer(c, b) = ChipId[((n - 1) % 3) + 1]
             /\ n < 4 => e.flash = c.flash
             /\ n < 4 /\ first \in {READ, PAGEWRITE} => Answer(c, b) = -1
             /\ first = READ => e.flash = c.flash
             /\ first = PAGEWRITE => Answer(c, b) = -1
             /\ first = READ /\ n >= 4 => Answer(c, b) = IF WritesAt(c) < FirmwareSize THEN c.flash[WritesAt(c)] ELSE -1
             /\ first = PAGEWRITE /\ c.enabled /\ n >= 4 =>
                  e.flash = IF WritesAt(c) < FirmwareSize THEN [c.flash EXCEPT ![WritesAt(c)] = b] ELSE c.flash
<1> DEFINE n == Len(c.bytes)
<1> DEFINE first == c.bytes[1]
<1>1. n \in Nat /\ n # 0
  <2>1. c.bytes \in Seq(0 .. 255)
    BY DEF ChipRecords
  <2>2. QED
    BY <2>1, EmptySeq, LenProperties
<1>2. n < 4 <=> ~(n >= 4)
  <2> HIDE DEF n
  <2>1. QED
    BY <1>1
<1>3. e.flash = (IF WritesByte(c) THEN [c.flash EXCEPT ![WritesAt(c)] = b] ELSE c.flash)
  BY DEF ByteStep
<1>4. WritesByte(c) <=> first = PAGEWRITE /\ c.enabled /\ n >= 4 /\ WritesAt(c) < FirmwareSize
  BY DEF WritesByte
<1> DEFINE at == WritesAt(c)
<1>5. /\ first = READ /\ n >= 4 => Answer(c, b) = IF at < FirmwareSize THEN c.flash[at] ELSE -1
      /\ first = READSTATUS => Answer(c, b) = IF c.enabled THEN 2 ELSE 0
      /\ first = READ_ID => Answer(c, b) = ChipId[((n - 1) % 3) + 1]
      /\ first \in {READ, PAGEWRITE} /\ ~(first = READ /\ n >= 4) => Answer(c, b) = -1
  <2> DEFINE A == Answer(c, b)
  <2> DEFINE q == ChipId[((n - 1) % 3) + 1]
  <2>1. A = IF n = 0 THEN -1
            ELSE IF first = READ /\ n >= 4 THEN IF at < FirmwareSize THEN c.flash[at] ELSE -1
            ELSE IF first = READSTATUS THEN IF c.enabled THEN 2 ELSE 0
            ELSE IF first = READ_ID THEN q
            ELSE -1
    BY DEF Answer, WritesAt
  <2> HIDE DEF A, q, n, at, first
  <2>2. /\ first = READ /\ n >= 4 => A = IF at < FirmwareSize THEN c.flash[at] ELSE -1
        /\ first = READSTATUS => A = IF c.enabled THEN 2 ELSE 0
        /\ first = READ_ID => A = q
        /\ first \in {READ, PAGEWRITE} /\ ~(first = READ /\ n >= 4) => A = -1
    BY <1>1, <2>1 DEF READ, PAGEWRITE, READ_ID, READSTATUS
  <2>3. QED
    BY <2>2 DEF A, q
<1> DEFINE q == ChipId[((n - 1) % 3) + 1]
<1> DEFINE A == Answer(c, b)
<1>6. /\ first = READ /\ n >= 4 => A = IF at < FirmwareSize THEN c.flash[at] ELSE -1
      /\ first = READSTATUS => A = IF c.enabled THEN 2 ELSE 0
      /\ first = READ_ID => A = q
      /\ first \in {READ, PAGEWRITE} /\ ~(first = READ /\ n >= 4) => A = -1
  BY <1>5
<1> HIDE DEF n, at, first, q, A
<1>7. /\ first \in {READSTATUS, READ_ID} => e.flash = c.flash
      /\ n < 4 => e.flash = c.flash
      /\ first = READ => e.flash = c.flash
  BY <1>2, <1>3, <1>4 DEF READ, PAGEWRITE, READ_ID, READSTATUS
<1>8. first = PAGEWRITE /\ c.enabled /\ n >= 4 => e.flash = IF at < FirmwareSize THEN [c.flash EXCEPT ![at] = b] ELSE c.flash
  BY <1>3, <1>4 DEF at
<1>9. /\ n < 4 /\ first \in {READ, PAGEWRITE} => A = -1
      /\ first = PAGEWRITE => A = -1
  BY <1>2, <1>6 DEF READ, PAGEWRITE
<1>10. QED
  BY <1>6, <1>7, <1>8, <1>9 DEF n, at, first, q, A

\* The words of a selection reach the firmware one by one.
LEMMA SelectionGoesOn ==
  ASSUME NEW s, SpiOK(s), NEW c \in ChipRecords, c.bytes # <<>>, FirmwareHears(s.fw, c), ~TakesNone(c, c.bytes[1]),
         s.flash = c.flash, NEW b \in SentBytes, NEW t, FirmwareStep(s, b, t),
         NEW e, ByteStep(c, b, e), e.bytes = Append(c.bytes, b), e.reply = Answer(c, b)
  PROVE  FirmwareHears(t.fw, e) /\ t.flash = e.flash /\ (e.reply # -1 => t.data = e.reply)
<1> DEFINE u == c.bytes
<1> DEFINE v == e.bytes
<1> DEFINE n == Len(u)
<1> DEFINE first == u[1]
<1> DEFINE f == s.fw
<1> DEFINE a == f.addr
<1> DEFINE g == t.fw
<1>1. Follows(u, b, v)
  BY DEF Follows, ChipRecords
<1>2. Len(v) = n + 1 /\ n \in Nat /\ n >= 1 /\ v[1] = first
  <2>1. u \in Seq(0 .. 255) /\ u # <<>> /\ v = Append(u, b)
    BY <1>1 DEF Follows
  <2> HIDE DEF u, v
  <2>2. Len(v) = n + 1 /\ n \in Nat /\ (\A k \in 1 .. n : v[k] = u[k])
    BY <2>1, Behind
  <2>3. n # 0
    BY <2>1, EmptySeq
  <2>4. 1 \in 1 .. n
    BY <2>2, <2>3
  <2>5. QED
    BY <2>2, <2>3, <2>4
<1>3. f \in FirmwareRecords /\ a \in Nat
  BY DEF SpiOK, SpiRecords, FirmwareOK, FirmwareRecords
<1>4. e.enabled = c.enabled
  BY DEF ByteStep
<1>5. (AddressSent(e) <=> AddressSent(c)) /\ (TakesNone(e, first) <=> TakesNone(c, first))
  <2> HIDE DEF first, v
  <2>1. e.bytes[1] = first /\ c.bytes[1] = first
    BY <1>2 DEF v, first
  <2>2. QED
    BY <1>4, <2>1 DEF AddressSent, TakesNone
<1>6. /\ f.write_enable = c.enabled
      /\ AddressSent(c) => AddressHeard(f, u)
      /\ first = READSTATUS => f.com = READSTATUS
      /\ first = READ_ID => f.com = READ_ID /\ a = (n - 1) % 3
  BY DEF FirmwareHears
<1>7. first \in {READSTATUS, READ_ID} \/ AddressSent(c)
  BY DEF TakesNone, AddressSent
<1>8. AddressSent(c) => first \in {READ, PAGEWRITE} /\ (first = PAGEWRITE => c.enabled)
  BY DEF AddressSent, READ, PAGEWRITE
<1>9. /\ first \in {READSTATUS, READ_ID} => e.flash = c.flash
      /\ first = READSTATUS => e.reply = IF c.enabled THEN 2 ELSE 0
      /\ first = READ_ID => e.reply = ChipId[((n - 1) % 3) + 1]
      /\ n < 4 => e.flash = c.flash
      /\ n < 4 /\ first \in {READ, PAGEWRITE} => e.reply = -1
      /\ first = READ => e.flash = c.flash
      /\ first = PAGEWRITE => e.reply = -1
      /\ first = READ /\ n >= 4 => e.reply = IF WritesAt(c) < FirmwareSize THEN c.flash[WritesAt(c)] ELSE -1
      /\ first = PAGEWRITE /\ c.enabled /\ n >= 4 =>
           e.flash = IF WritesAt(c) < FirmwareSize THEN [c.flash EXCEPT ![WritesAt(c)] = b] ELSE c.flash
  BY ChipAnswers
<1>10. SUFFICES /\ g.write_enable = f.write_enable
                /\ AddressSent(c) => AddressHeard(g, v)
                /\ first = READSTATUS => g.com = READSTATUS
                /\ first = READ_ID => g.com = READ_ID /\ g.addr = n % 3
                /\ t.flash = e.flash /\ (e.reply # -1 => t.data = e.reply)
  <2> HIDE DEF g, first, n, u
  <2>1. Len(e.bytes) - 1 = n /\ e.bytes[1] = first /\ ~TakesNone(e, first)
    BY <1>2, <1>5 DEF first, u
  <2>2. QED
    BY <1>4, <1>5, <1>6, <2>1 DEF FirmwareHears, g
<1>11. CASE AddressSent(c)
  <2>0. first \in {READ, PAGEWRITE} /\ first # READSTATUS /\ first # READ_ID /\ first = f.com
    BY <1>6, <1>8, <1>11 DEF AddressHeard, READ, PAGEWRITE, READ_ID, READSTATUS
  <2>1. n < 4 <=> ~(n >= 4)
    <3> HIDE DEF n
    <3>1. QED
      BY <1>2
  <2>2. n < 4 => f.addr_shift > 0
    <3>1. n < 4 => n \in {1, 2, 3}
      <4> HIDE DEF n
      <4>1. QED
        BY <1>2
    <3>2. QED
      BY <1>6, <1>11, <3>1 DEF AddressHeard
  <2>3. n >= 4 => f.addr_shift = 0 /\ (a = WritesAt(c) \/ (a >= FirmwareSize /\ WritesAt(c) >= FirmwareSize))
    BY <1>6, <1>11 DEF AddressHeard, WritesAt
  <2>4. AddressStep(f, n, b, g)
    <3> HIDE DEF n, first
    <3>1. QED
      BY <2>0, <2>2, <2>3 DEF FirmwareStep, AddressStep, Placed
  <2>5. AddressHeard(g, v) /\ g.write_enable = f.write_enable
    <3>1. AddressHeard(f, u)
      BY <1>6, <1>11
    <3>2. f \in FirmwareRecords /\ b \in SentBytes
      BY <1>3
    <3> HIDE DEF f, g, u, v
    <3>3. AddressStep(f, Len(u), b, g)
      BY <2>4
    <3>4. QED
      BY <1>1, <3>1, <3>2, <3>3, AddressGoesOn
  <2> DEFINE at == WritesAt(c)
  <2> HIDE DEF n, first, g, at
  <2>6. n >= 4 => /\ (a >= FirmwareSize) <=> ~(at < FirmwareSize)
                  /\ a < FirmwareSize => a = at
    <3>1. n >= 4 => at \in Nat
      <4>1. c.bytes \in Seq(0 .. 255)
        BY DEF ChipRecords
      <4>2. n >= 4 => AddressOf(c.bytes) \in Nat
        BY <4>1, AddressIs DEF n
      <4>3. QED
        BY <1>2, <4>2 DEF at, WritesAt, n
    <3>2. QED
      BY <1>3, <2>3, <3>1, Constants DEF at
  <2>7. t.flash = e.flash /\ (e.reply # -1 => t.data = e.reply)
    <3>1. CASE n < 4
      BY <1>9, <2>0, <2>2, <3>1 DEF FirmwareStep
    <3>2. CASE n >= 4 /\ a >= FirmwareSize
      <4>1. t.flash = s.flash
        BY <2>0, <2>3, <3>2 DEF FirmwareStep
      <4>2. e.flash = c.flash /\ e.reply = -1
        BY <1>8, <1>9, <1>11, <2>0, <2>6, <3>2 DEF at
      <4>3. QED
        BY <4>1, <4>2
    <3>3. CASE n >= 4 /\ ~(a >= FirmwareSize) /\ first = READ
      <4>0. a < FirmwareSize
        BY <1>3, <3>3, Constants
      <4>1. t.flash = s.flash /\ t.data = s.flash[a]
        BY <2>0, <2>3, <3>3, <4>0 DEF FirmwareStep
      <4>2. e.flash = c.flash /\ e.reply = c.flash[a]
        BY <1>9, <2>6, <3>3, <4>0 DEF at
      <4>3. QED
        BY <4>1, <4>2
    <3>4. CASE n >= 4 /\ ~(a >= FirmwareSize) /\ first = PAGEWRITE
      <4>0. a < FirmwareSize
        BY <1>3, <3>4, Constants
      <4>1. t.flash = [s.flash EXCEPT ![a] = b]
        BY <2>0, <2>3, <3>4, <4>0 DEF FirmwareStep
      <4>2. e.flash = [c.flash EXCEPT ![a] = b] /\ e.reply = -1
        BY <1>8, <1>9, <1>11, <2>6, <3>4, <4>0 DEF at
      <4>3. QED
        BY <4>1, <4>2
    <3>5. QED
      BY <2>0, <2>1, <3>1, <3>2, <3>3, <3>4
  <2>8. QED
    BY <2>0, <2>5, <2>7
<1>12. CASE first = READSTATUS
  <2>1. g = f /\ t.flash = s.flash /\ t.data = IF f.write_enable THEN 2 ELSE 0
    BY <1>6, <1>12 DEF FirmwareStep
  <2>2. ~AddressSent(c) /\ first # READ_ID
    BY <1>8, <1>12 DEF READ, PAGEWRITE, READ_ID, READSTATUS
  <2>3. QED
    BY <1>6, <1>9, <1>12, <2>1, <2>2
<1>13. CASE first = READ_ID
  <2>1. f.com = READ_ID /\ a = (n - 1) % 3
    BY <1>6, <1>13
  <2>2. g = [f EXCEPT !.addr = (a + 1) % 3] /\ t.flash = s.flash /\ t.data = ChipId[a + 1]
    BY <2>1 DEF FirmwareStep
  <2>3. g.com = READ_ID /\ g.addr = (a + 1) % 3 /\ g.write_enable = f.write_enable
    BY <1>3, <2>1, <2>2 DEF FirmwareRecords
  <2>4. (a + 1) % 3 = n % 3
    <3>1. \A k \in Nat : k >= 1 => (((k - 1) % 3) + 1) % 3 = k % 3
      OBVIOUS
    <3> HIDE DEF n, a
    <3>2. QED
      BY <1>2, <2>1, <3>1
  <2>5. ~AddressSent(c) /\ first # READSTATUS
    BY <1>8, <1>13 DEF READ, PAGEWRITE, READ_ID, READSTATUS
  <2> HIDE DEF g, n, first, a
  <2>6. QED
    BY <1>9, <1>13, <2>1, <2>2, <2>3, <2>4, <2>5
<1>14. QED
  BY <1>7, <1>11, <1>12, <1>13
\* A byte to the firmware.
LEMMA SendFirmware ==
  ASSUME SerialInv, SendByte, drive.dev = Firmware
  PROVE  SerialInv'
<1> DEFINE b == drive.script[drive.i]
<1> DEFINE last == drive.i = Len(drive.script)
<1> DEFINE set == IF drive.lazy THEN spi ELSE SPICNT(spi, drive.dev, ~(drive.i = Len(drive.script)), drive.slow)
<1> DEFINE t == IF b = 0 THEN set ELSE [set EXCEPT !.cmd = b]
<1>1. SerialTypeOK /\ ScriptInv /\ FirmwareInv /\ PowerInv /\ TouchInv /\ Active
  BY DEF SerialInv, SendByte, Active, Quiet
<1>2. /\ drive.i \in 1 .. Len(drive.script) /\ Len(drive.script) \in Nat /\ b \in 0 .. 255
      /\ (drive.i = 1 <=> chip.bytes = <<>>)
  BY <1>1, ScriptIs
<1>3. /\ SpiOK(set) /\ set.dev = drive.dev /\ set.hold = ~(drive.i = Len(drive.script))
      /\ (~drive.lazy => set.slow = drive.slow)
      /\ (drive.dev = Firmware /\ drive.i > 1 => set.fw = spi.fw)
      /\ (drive.i = 1 /\ ~drive.lazy => set.fw = fw_reset_com(spi.fw))
      /\ set.partie = spi.partie /\ set.cntReg = spi.cntReg
      /\ set.written = spi.written /\ set.power = spi.power /\ set.halted = spi.halted /\ set.flash = spi.flash
  BY <1>1, Prepared
<1>4. chip' = FirmwareChip(chip, b, last, ~drive.lazy) /\ spi' = SPIDATA(set, b)
  BY DEF SendByte, PowerManagement, Firmware, TouchScreen
<1>5. drive' = IF last THEN [drive EXCEPT !.script = <<>>, !.i = 0] ELSE [drive EXCEPT !.i = @ + 1]
  BY DEF SendByte
<1>s. spi' = IF set.slow THEN [t EXCEPT !.data = b] ELSE fw_transfer(t, b)
  BY <1>3, <1>4 DEF SPIDATA, PowerManagement, Firmware, TouchScreen
<1> HIDE DEF set, b
<1>t. t = IF b = 0 THEN set ELSE [set EXCEPT !.cmd = b]
  OBVIOUS
<1> HIDE DEF t
<1>6. /\ SpiOK(t) /\ t.dev = set.dev /\ t.hold = set.hold /\ t.slow = set.slow /\ t.fw = set.fw /\ t.partie = set.partie
      /\ t.cntReg = set.cntReg /\ t.written = set.written /\ t.power = set.power /\ t.halted = set.halted
      /\ t.flash = set.flash
  <2>1. SpiOK(set) /\ b \in SentBytes
    BY <1>2, <1>3 DEF SentBytes
  <2>2. QED
    BY <1>t, <2>1, Remembered
<1>7. SpiOK(spi') /\ Untouched(t, spi') /\ (~set.slow => FirmwareStep(t, b, spi'))
  <2>1. SpiOK(t) /\ b \in SentBytes
    BY <1>2, <1>6 DEF SentBytes
  <2>2. CASE set.slow
    <3>0. b \in Int
      BY <1>2
    <3>1. spi' = [t EXCEPT !.data = b] /\ b \in Int
      BY <1>s, <2>2, <3>0
    <3>2. QED
      BY <2>1, <2>2, <3>1 DEF SpiOK, SpiRecords, Untouched
  <2>3. CASE ~set.slow
    <3>1. spi' = fw_transfer(t, b)
      BY <1>s, <2>3
    <3>2. QED
      BY <2>1, <3>1, FirmwareIs
  <2>4. QED
    BY <2>2, <2>3
<1> DEFINE odd == chip.odd \/ drive.slow \/ (chip.bytes = <<>> /\ drive.lazy)
                  \/ (chip.bytes # <<>> /\ TakesNone(chip, chip.bytes[1]))
<1>c. /\ chip \in ChipRecords /\ last \in BOOLEAN /\ b \in SentBytes /\ drive.slow \in BOOLEAN /\ (~drive.lazy) \in BOOLEAN
      /\ drive.lazy \in BOOLEAN /\ drive \in DriveRecords
  <2>1. chip \in ChipRecords /\ drive \in DriveRecords
    BY <1>1 DEF SerialTypeOK
  <2>2. drive.slow \in BOOLEAN /\ drive.lazy \in BOOLEAN
    BY <2>1 DEF DriveRecords
  <2>3. b \in SentBytes
    BY <1>2 DEF SentBytes
  <2>4. last \in BOOLEAN
    OBVIOUS
  <2>5. (~drive.lazy) \in BOOLEAN
    BY <2>2
  <2>6. QED
    BY <2>1, <2>2, <2>3, <2>4, <2>5, Zenon
<1>8. /\ \E e \in ChipRecords :
           /\ ByteStep(chip, b, e) /\ e.bytes = Append(chip.bytes, b) /\ e.reply = Answer(chip, b)
           /\ chip'.bytes = (IF last THEN <<>> ELSE e.bytes)
           /\ chip'.enabled = (IF last /\ e.bytes[1] = PAGEWRITE THEN FALSE ELSE e.enabled)
           /\ chip'.flash = e.flash /\ chip'.reply = e.reply
      /\ chip' \in ChipRecords
      /\ (chip'.odd <=> odd)
      /\ chip'.power = chip.power /\ chip'.outOfPhase = chip.outOfPhase /\ chip'.torn = chip.torn
  <2> DEFINE w == ~drive.lazy
  <2> DEFINE d == chip'
  <2>1. w \in BOOLEAN /\ d = FirmwareChip(chip, b, last, w) /\ (~w <=> drive.lazy)
    BY <1>4, <1>c
  <2> HIDE DEF w, d, last
  <2>2. FirmwareChipStep(chip, b, last, w, d)
    BY <1>c, <2>1, FirmwareChipIs
  <2>3. d.odd <=> odd
    BY <2>1, <2>2 DEF FirmwareChipStep
  <2> HIDE DEF odd
  <2>4. QED
    BY <2>2, <2>3 DEF d, FirmwareChipStep
<1> HIDE DEF odd
<1>9. ScriptInv' /\ drive' \in DriveRecords
  <2>1. spi'.dev = drive.dev /\ spi'.hold = ~last
    BY <1>3, <1>6, <1>7 DEF Untouched
  <2>2. last \in BOOLEAN /\ (last <=> drive.i = Len(drive.script))
    OBVIOUS
  <2> HIDE DEF last
  <2>3. /\ last => chip'.bytes = <<>>
        /\ ~last => \E y \in 0 .. 255 : chip'.bytes = Append(chip.bytes, y)
    BY <1>2, <1>8
  <2>4. QED
    BY <1>1, <1>5, <2>1, <2>2, <2>3, ScriptMovesOn
<1>10. SerialTypeOK'
  BY <1>7, <1>8, <1>9 DEF SerialTypeOK
<1>11. drive'.dev = drive.dev /\ (Active' => Active)
  BY <1>1, <1>5, <1>c DEF DriveRecords
<1>12. PowerInv'
  BY <1>1, <1>3, <1>6, <1>7, <1>8, <1>11, PowerElsewhere DEF Untouched, PowerManagement, Firmware
<1>13. TouchInv'
  BY <1>1, <1>3, <1>6, <1>7, <1>8, <1>11, TouchElsewhere DEF Untouched, TouchScreen, Firmware
<1>14. ASSUME ~chip'.odd
       PROVE  /\ spi'.flash = chip'.flash
              /\ chip'.reply # -1 => spi'.data = chip'.reply
              /\ Active' => FirmwareHears(spi'.fw, chip')
              /\ ~Active' => FirmwareRests(spi'.fw, chip')
  <2>1. ~chip.odd /\ ~drive.slow /\ (chip.bytes = <<>> => ~drive.lazy) /\ (chip.bytes # <<>> => ~TakesNone(chip, chip.bytes[1]))
    BY <1>8, <1>14 DEF odd
  <2>2. drive.i > 1 => ~drive.lazy
    BY <1>1 DEF ScriptInv
  <2>3. ~set.slow /\ FirmwareStep(t, b, spi')
    <3>1. drive.i = 1 \/ drive.i > 1
      BY <1>2
    <3>2. ~drive.lazy
      BY <1>2, <2>1, <2>2, <3>1
    <3>3. QED
      BY <1>3, <1>7, <2>1, <3>2
  <2>4. t.flash = chip.flash
    BY <1>1, <1>3, <1>6, <2>1 DEF FirmwareInv
  <2>5. PICK e \in ChipRecords :
           /\ ByteStep(chip, b, e) /\ e.bytes = Append(chip.bytes, b) /\ e.reply = Answer(chip, b)
           /\ chip'.bytes = (IF last THEN <<>> ELSE e.bytes)
           /\ chip'.enabled = (IF last /\ e.bytes[1] = PAGEWRITE THEN FALSE ELSE e.enabled)
           /\ chip'.flash = e.flash /\ chip'.reply = e.reply
    BY <1>8
  <2> DEFINE h == spi'
  <2>6. FirmwareHears(h.fw, e) /\ h.flash = e.flash /\ (e.reply # -1 => h.data = e.reply)
    <3>1. CASE drive.i = 1
      <4>1. chip.bytes = <<>> /\ ~drive.lazy
        BY <1>2, <2>1, <3>1
      <4>2. FirmwareRests(spi.fw, chip)
        BY <1>1, <2>1, <3>1 DEF FirmwareInv, InFirmware
      <4>3. spi.fw \in FirmwareOK
        BY <1>1 DEF SerialTypeOK, SpiOK, SpiRecords
      <4>4. t.fw = fw_reset_com(spi.fw) /\ t.fw.com = 0 /\ (t.fw.write_enable <=> chip.enabled)
        <5>1. t.fw = fw_reset_com(spi.fw)
          BY <1>3, <1>6, <3>1, <4>1
        <5>2. QED
          BY <1>c, <4>2, <4>3, <5>1, RestIs
      <4>5. h = Commanded(t, b) /\ h.flash = t.flash
        BY <2>3, <4>4 DEF FirmwareStep
      <4>6. e.enabled = Permitted(chip, b) /\ e.flash = chip.flash
        BY <2>5, <4>1 DEF ByteStep, WritesByte
      <4>7. e.reply = -1
        <5>1. Len(chip.bytes) = 0
          BY <4>1
        <5>2. QED
          BY <2>5, <5>1 DEF Answer
      <4> HIDE DEF h
      <4>8. FirmwareHears(h.fw, e)
        BY <1>6, <1>c, <2>5, <4>1, <4>4, <4>5, <4>6, SelectionBegins
      <4>9. QED
        BY <2>4, <4>5, <4>6, <4>7, <4>8
    <3>2. CASE drive.i > 1
      <4>1. chip.bytes # <<>> /\ ~TakesNone(chip, chip.bytes[1])
        BY <1>2, <2>1, <3>2
      <4>2. FirmwareHears(t.fw, chip)
        <5>1. FirmwareHears(spi.fw, chip)
          BY <1>1, <2>1, <3>2 DEF FirmwareInv, InFirmware
        <5>2. QED
          BY <1>3, <1>6, <3>2, <5>1
      <4> HIDE DEF h
      <4>3. FirmwareStep(t, b, h)
        BY <2>3 DEF h
      <4>4. QED
        BY <1>6, <1>c, <2>4, <2>5, <4>1, <4>2, <4>3, SelectionGoesOn
    <3>3. QED
      BY <1>2, <3>1, <3>2
  <2>7. Active' <=> ~last
    BY <1>1, <1>5, <1>c DEF Active, Quiet, DriveRecords
  <2>8. CASE last
    <3>1. chip'.enabled = IF e.bytes[1] = PAGEWRITE THEN FALSE ELSE e.enabled
      BY <2>5, <2>8
    <3>2. h.fw \in FirmwareOK
      BY <1>7 DEF SpiOK, SpiRecords
    <3> DEFINE d == chip'
    <3> HIDE DEF h, d
    <3>3. FirmwareRests(h.fw, d)
      BY <2>6, <3>1, <3>2, SelectionEnds DEF d
    <3>4. QED
      BY <2>5, <2>6, <2>7, <2>8, <3>3 DEF h, d
  <2>9. CASE ~last
    <3>1. chip'.bytes = e.bytes /\ chip'.enabled = e.enabled
      BY <2>5, <2>9
    <3>2. FirmwareHears(h.fw, chip')
      BY <2>6, <3>1 DEF FirmwareHears, AddressSent, TakesNone
    <3>3. QED
      BY <2>5, <2>6, <2>7, <2>9, <3>2
  <2>10. QED
    BY <2>8, <2>9
<1>15. FirmwareInv'
  <2>1. Active' => drive'.i > 1
    <3>1. Active' => drive'.i = drive.i + 1
      BY <1>5, <1>c DEF Active, Quiet, DriveRecords
    <3>2. drive.i \in Nat /\ drive.i >= 1
      BY <1>2
    <3>3. QED
      BY <3>1, <3>2
  <2>2. InFirmware' <=> Active'
    BY <1>11, <2>1 DEF InFirmware
  <2>3. QED
    BY <1>14, <2>2 DEF FirmwareInv
<1>16. QED
  BY <1>9, <1>10, <1>12, <1>13, <1>15 DEF SerialInv
\* A script begins: nothing is sent.
LEMMA BeginKeeps ==
  ASSUME SerialInv, Begin
  PROVE  SerialInv'
<1>1. SerialTypeOK /\ ScriptInv /\ FirmwareInv /\ PowerInv /\ TouchInv /\ Quiet
  BY DEF SerialInv, Begin, Quiet
<1>2. PICK s \in Scripts, lazy, slow \in BOOLEAN :
        /\ lazy => spi.dev = s.dev /\ ~spi.hold /\ Len(s.bytes) = 1 /\ spi.slow = slow
        /\ drive' = [script |-> s.bytes, dev |-> s.dev, i |-> 1, lazy |-> lazy, slow |-> slow, left |-> drive.left - 1]
        /\ chip' = [chip EXCEPT !.bytes = <<>>, !.heard = <<>>, !.spoiled = chip.torn]
        /\ spi' = spi
  BY DEF Begin
<1>3. s.dev \in 0 .. 2 /\ s.bytes \in Seq(0 .. 255) /\ s.bytes # <<>> /\ ~spi.halted
  BY SerialAssumption DEF Begin
<1> DEFINE Bs == Seq(0 .. 255)
<1> DEFINE Hs == Seq(Int)
<1> DEFINE C == [bytes : Bs, enabled : BOOLEAN, flash : Flash, power : PowerFile, odd : BOOLEAN, outOfPhase : BOOLEAN,
                 torn : BOOLEAN, spoiled : BOOLEAN, reply : Int, heard : Hs]
<1> DEFINE D == [script : Bs, dev : Devices, i : Nat, lazy : BOOLEAN, slow : BOOLEAN, left : Int]
<1>c. ChipRecords = C /\ DriveRecords = D /\ <<>> \in Bs /\ <<>> \in Hs
  BY DEF ChipRecords, PowerFile, DriveRecords, Devices
<1>d. chip \in C /\ drive \in D
  BY <1>1, <1>c DEF SerialTypeOK
<1>4. /\ drive'.script = s.bytes /\ drive'.dev = s.dev /\ drive'.i = 1 /\ drive'.lazy = lazy /\ drive'.slow = slow
      /\ drive' \in DriveRecords
  <2>1. s.bytes \in Bs /\ s.dev \in Devices /\ 1 \in Nat /\ drive.left - 1 \in Int
    BY <1>3, <1>d DEF Devices
  <2> HIDE DEF Bs
  <2>2. QED
    BY <1>2, <1>c, <2>1
<1> HIDE DEF Bs, Hs
<1>5. /\ chip' \in C /\ chip'.bytes = <<>> /\ chip'.heard = <<>> /\ chip'.spoiled = chip.torn /\ chip'.torn = chip.torn
      /\ chip'.enabled = chip.enabled /\ chip'.flash = chip.flash /\ chip'.odd = chip.odd /\ chip'.reply = chip.reply
      /\ chip'.power = chip.power /\ chip'.outOfPhase = chip.outOfPhase
  BY <1>2, <1>c, <1>d
<1> HIDE DEF C, D
<1>6. Active' /\ ~Quiet'
  BY <1>3, <1>4 DEF Active, Quiet
<1>7. SerialTypeOK'
  BY <1>1, <1>2, <1>4, <1>5, <1>c DEF SerialTypeOK
<1>8. ScriptInv'
  <2>1. 1 \in 1 .. Len(s.bytes)
    <3>1. Len(s.bytes) \in Nat /\ Len(s.bytes) # 0
      BY <1>3, EmptySeq, LenProperties
    <3>2. QED
      BY <3>1
  <2>2. ~spi.hold
    BY <1>1 DEF ScriptInv
  <2>3. Len(chip'.bytes) = 0
    BY <1>5
  <2>4. QED
    BY <1>2, <1>4, <1>5, <1>6, <2>1, <2>2, <2>3 DEF ScriptInv
<1>9. FirmwareInv'
  <2>1. ~InFirmware' /\ ~InFirmware
    BY <1>1, <1>4 DEF InFirmware, Active
  <2>2. ASSUME FirmwareRests(spi.fw, chip)
        PROVE  FirmwareRests(spi.fw, chip')
    BY <1>5, <2>2 DEF FirmwareRests
  <2>3. QED
    BY <1>1, <1>2, <1>4, <1>5, <2>1, <2>2 DEF FirmwareInv
<1>10. PowerInv'
  <2>1. drive'.i = 1 /\ drive'.i # 2
    BY <1>4
  <2>2. ~chip.outOfPhase => ~spi.written
    BY <1>1 DEF PowerInv, Active
  <2>3. QED
    BY <1>1, <1>2, <1>3, <1>5, <1>6, <2>1, <2>2 DEF PowerInv
<1>11. TouchInv'
  <2>1. ~HalfWay /\ ~HalfWay'
    <3>1. ~(1 % 2 = 0)
      OBVIOUS
    <3>2. QED
      BY <1>1, <1>4, <3>1 DEF HalfWay, InTouch, Active
  <2>2. spi'.partie = 0 <=> ~(chip'.torn <=> HalfWay')
    BY <1>1, <1>2, <1>5, <2>1 DEF TouchInv
  <2>3. Len(chip'.heard) = 0 /\ drive'.i = 1 /\ (chip'.spoiled \/ ~chip'.torn)
    <3>1. chip.torn \in BOOLEAN
      BY <1>1 DEF SerialTypeOK, ChipRecords
    <3>2. QED
      BY <1>4, <1>5, <3>1
  <2>4. TouchAsMeasured'
    BY <1>6 DEF TouchAsMeasured
  <2>5. QED
    BY <2>2, <2>3, <2>4 DEF TouchInv
<1>12. QED
  BY <1>7, <1>8, <1>9, <1>10, <1>11 DEF SerialInv

\* A savestate is loaded: the converter is at its first half again.
LEMMA LoadSerialKeeps ==
  ASSUME SerialInv, LoadSerial
  PROVE  SerialInv'
<1>1. SerialTypeOK /\ ScriptInv /\ FirmwareInv /\ PowerInv /\ TouchInv
  BY DEF SerialInv
<1>2. /\ spi.partie = 0 /\ spi' = [spi EXCEPT !.partie = 1] /\ drive' = drive
      /\ chip' = [chip EXCEPT !.torn = ~chip.torn, !.spoiled = TRUE]
  BY DEF LoadSerial
<1>3. /\ SpiOK(spi') /\ spi'.partie = 1
      /\ spi'.dev = spi.dev /\ spi'.hold = spi.hold /\ spi'.slow = spi.slow /\ spi'.fw = spi.fw /\ spi'.flash = spi.flash
      /\ spi'.data = spi.data /\ spi'.cmd = spi.cmd /\ spi'.cntReg = spi.cntReg /\ spi'.written = spi.written
      /\ spi'.power = spi.power /\ spi'.halted = spi.halted
  BY <1>1, <1>2 DEF SerialTypeOK, SpiOK, SpiRecords
<1> DEFINE Bs == Seq(0 .. 255)
<1> DEFINE Hs == Seq(Int)
<1> DEFINE C == [bytes : Bs, enabled : BOOLEAN, flash : Flash, power : PowerFile, odd : BOOLEAN, outOfPhase : BOOLEAN,
                 torn : BOOLEAN, spoiled : BOOLEAN, reply : Int, heard : Hs]
<1>c. ChipRecords = C
  BY DEF ChipRecords, PowerFile
<1>d. chip \in C
  BY <1>1, <1>c DEF SerialTypeOK
<1> DEFINE w == ~chip.torn
<1>w. w \in BOOLEAN /\ chip' = [chip EXCEPT !.torn = w, !.spoiled = TRUE]
  BY <1>2
<1> HIDE DEF Bs, Hs, w
<1>4. /\ chip' \in C /\ chip'.torn = w /\ chip'.spoiled = TRUE /\ chip'.bytes = chip.bytes /\ chip'.heard = chip.heard
      /\ chip'.enabled = chip.enabled /\ chip'.flash = chip.flash /\ chip'.odd = chip.odd /\ chip'.reply = chip.reply
      /\ chip'.power = chip.power /\ chip'.outOfPhase = chip.outOfPhase
  BY <1>d, <1>w
<1> HIDE DEF C
<1>5. /\ (Active' <=> Active) /\ (Quiet' <=> Quiet) /\ (InFirmware' <=> InFirmware) /\ (InTouch' <=> InTouch)
      /\ (HalfWay' <=> HalfWay)
  BY <1>2, <1>3 DEF Active, Quiet, InFirmware, InTouch, HalfWay
<1>6. SerialTypeOK'
  BY <1>1, <1>2, <1>3, <1>4, <1>c DEF SerialTypeOK
<1>7. ScriptInv'
  BY <1>1, <1>2, <1>3, <1>4, <1>5 DEF ScriptInv
<1>8. FirmwareInv'
  <2>1. FirmwareHears(spi.fw, chip) => FirmwareHears(spi.fw, chip')
    BY <1>4 DEF FirmwareHears, AddressSent, TakesNone
  <2>2. FirmwareRests(spi.fw, chip) => FirmwareRests(spi.fw, chip')
    BY <1>4 DEF FirmwareRests
  <2>3. QED
    BY <1>1, <1>2, <1>3, <1>4, <1>5, <2>1, <2>2 DEF FirmwareInv
<1>9. PowerInv'
  BY <1>1, <1>2, <1>3, <1>4, <1>5 DEF PowerInv
<1>10. TouchInv'
  <2>1. chip'.torn <=> ~chip.torn
    BY <1>4 DEF w
  <2>2. chip'.torn <=> HalfWay'
    BY <1>1, <1>2, <1>5, <2>1 DEF TouchInv
  <2>3. spi'.partie # 0
    BY <1>3
  <2>4. InTouch' => Len(chip'.heard) = drive'.i - 1
    BY <1>1, <1>2, <1>4, <1>5 DEF TouchInv
  <2>5. QED
    BY <1>4, <2>2, <2>3, <2>4 DEF TouchInv, TouchAsMeasured
<1>11. QED
  BY <1>6, <1>7, <1>8, <1>9, <1>10 DEF SerialInv
\* A script is given up: the line is released without a byte.
LEMMA GiveUpKeeps ==
  ASSUME SerialInv, GiveUp
  PROVE  SerialInv'
<1>1. SerialTypeOK /\ ScriptInv /\ FirmwareInv /\ PowerInv /\ TouchInv /\ Active /\ drive.i > 1
  BY DEF SerialInv, GiveUp, Active, Quiet
<1> DEFINE half == drive.dev = TouchScreen /\ drive.i % 2 = 0 /\ Measured(spi.cmd)
<1> DEFINE waits == drive.dev = PowerManagement /\ drive.i = 2
<1>2. /\ spi' = SPICNT(spi, drive.dev, FALSE, drive.slow)
      /\ chip' = LET c == IF drive.dev = Firmware THEN Released(chip) ELSE [chip EXCEPT !.bytes = <<>>]
                 IN  [c EXCEPT !.outOfPhase = (@ \/ waits), !.heard = <<>>, !.reply = -1, !.torn = (@ # half)]
      /\ drive' = [drive EXCEPT !.script = <<>>, !.i = 0]
  BY DEF GiveUp
<1> DEFINE Bs == Seq(0 .. 255)
<1> DEFINE Hs == Seq(Int)
<1> DEFINE C == [bytes : Bs, enabled : BOOLEAN, flash : Flash, power : PowerFile, odd : BOOLEAN, outOfPhase : BOOLEAN,
                 torn : BOOLEAN, spoiled : BOOLEAN, reply : Int, heard : Hs]
<1> DEFINE D == [script : Bs, dev : Devices, i : Nat, lazy : BOOLEAN, slow : BOOLEAN, left : Int]
<1>c. ChipRecords = C /\ DriveRecords = D /\ <<>> \in Bs /\ <<>> \in Hs
  BY DEF ChipRecords, PowerFile, DriveRecords, Devices
<1>d. chip \in C /\ drive \in D /\ SpiOK(spi)
  BY <1>1, <1>c DEF SerialTypeOK
<1>3. /\ spi.dev = drive.dev /\ spi.hold /\ Len(chip.bytes) = drive.i - 1 /\ Len(chip.bytes) >= 1
  <2>1. spi.dev = drive.dev /\ spi.hold /\ Len(chip.bytes) = drive.i - 1
    BY <1>1 DEF ScriptInv
  <2>2. drive.i \in Nat
    BY <1>d
  <2>3. QED
    BY <1>1, <2>1, <2>2
<1>4. /\ SpiOK(spi') /\ spi'.dev = drive.dev /\ ~spi'.hold
      /\ spi'.fw = (IF drive.dev = Firmware THEN spi.fw ELSE fw_reset_com(spi.fw))
      /\ spi'.cmd = spi.cmd /\ spi'.data = spi.data /\ spi'.partie = spi.partie /\ spi'.cntReg = spi.cntReg
      /\ spi'.written = spi.written /\ spi'.power = spi.power /\ spi'.halted = spi.halted /\ spi'.flash = spi.flash
  <2> DEFINE h == FALSE
  <2> DEFINE s == spi'
  <2>1. drive.dev \in Devices /\ drive.slow \in BOOLEAN /\ h \in BOOLEAN /\ s = SPICNT(spi, drive.dev, h, drive.slow)
    BY <1>2, <1>d
  <2> HIDE DEF h, s, D, C
  <2>2. /\ SpiOK(s) /\ s.dev = drive.dev /\ s.hold = h
        /\ s.fw = (IF spi.dev = Firmware /\ drive.dev = Firmware /\ spi.hold THEN spi.fw ELSE fw_reset_com(spi.fw))
        /\ s.cmd = spi.cmd /\ s.data = spi.data /\ s.partie = spi.partie /\ s.cntReg = spi.cntReg
        /\ s.written = spi.written /\ s.power = spi.power /\ s.halted = spi.halted /\ s.flash = spi.flash
    BY <1>d, <2>1, SelectIs
  <2>3. QED
    BY <1>3, <2>2 DEF h, s
<1>5. drive'.script = <<>> /\ drive'.i = 0 /\ drive'.dev = drive.dev /\ drive' \in DriveRecords
  <2> HIDE DEF Bs
  <2>1. QED
    BY <1>2, <1>c, <1>d
<1> DEFINE w == IF drive.dev = Firmware /\ chip.bytes[1] = PAGEWRITE THEN FALSE ELSE chip.enabled
<1> DEFINE o == chip.outOfPhase \/ waits
<1> DEFINE r == chip.torn # half
<1>6. w \in BOOLEAN /\ o \in BOOLEAN /\ r \in BOOLEAN
  BY <1>d
<1>r. r <=> ~(chip.torn <=> half)
  <2>1. chip.torn \in BOOLEAN /\ half \in BOOLEAN
    BY <1>d
  <2> HIDE DEF half
  <2>2. QED
    BY <2>1
<1>7. chip' = [chip EXCEPT !.bytes = <<>>, !.enabled = w, !.outOfPhase = o, !.heard = <<>>, !.reply = -1, !.torn = r]
  <2> HIDE DEF Bs, Hs, half, waits
  <2>1. CASE drive.dev = Firmware
    <3>1. w = IF Len(chip.bytes) >= 1 /\ chip.bytes[1] = PAGEWRITE THEN FALSE ELSE chip.enabled
      BY <1>3, <2>1
    <3> HIDE DEF w
    <3> DEFINE c == [chip EXCEPT !.bytes = <<>>, !.enabled = w]
    <3>2. Released(chip) = c
      BY <3>1 DEF Released
    <3>3. chip' = [c EXCEPT !.outOfPhase = c.outOfPhase \/ waits, !.heard = <<>>, !.reply = -1, !.torn = (c.torn # half)]
      BY <1>2, <2>1, <3>2
    <3>4. c.outOfPhase = chip.outOfPhase /\ c.torn = chip.torn
      BY <1>d
    <3>5. chip' = [c EXCEPT !.outOfPhase = o, !.heard = <<>>, !.reply = -1, !.torn = r]
      BY <3>3, <3>4
    <3> HIDE DEF o, r
    <3>6. QED
      BY <1>c, <1>d, <1>6, <3>5
  <2>2. CASE drive.dev # Firmware
    <3>1. w = chip.enabled
      BY <2>2
    <3> DEFINE c == [chip EXCEPT !.bytes = <<>>]
    <3>3. chip' = [c EXCEPT !.outOfPhase = c.outOfPhase \/ waits, !.heard = <<>>, !.reply = -1, !.torn = (c.torn # half)]
      BY <1>2, <2>2
    <3>4. c.outOfPhase = chip.outOfPhase /\ c.torn = chip.torn
      BY <1>d
    <3>5. chip' = [c EXCEPT !.outOfPhase = o, !.heard = <<>>, !.reply = -1, !.torn = r]
      BY <3>3, <3>4
    <3> HIDE DEF o, r, w
    <3>6. QED
      BY <1>c, <1>d, <1>6, <3>1, <3>5
  <2>3. QED
    BY <2>1, <2>2
<1>e. waits \in BOOLEAN
  OBVIOUS
<1> HIDE DEF Bs, Hs, w, o, r, half, waits
<1>8. /\ chip' \in C /\ chip'.bytes = <<>> /\ chip'.enabled = w /\ chip'.outOfPhase = o /\ chip'.heard = <<>>
      /\ chip'.reply = -1 /\ chip'.torn = r
      /\ chip'.flash = chip.flash /\ chip'.odd = chip.odd /\ chip'.power = chip.power /\ chip'.spoiled = chip.spoiled
  <2> DEFINE k == -1
  <2>1. k \in Int /\ chip' = [chip EXCEPT !.bytes = <<>>, !.enabled = w, !.outOfPhase = o, !.heard = <<>>, !.reply = k, !.torn = r]
    BY <1>7
  <2> HIDE DEF k
  <2>2. /\ chip' \in C /\ chip'.bytes = <<>> /\ chip'.enabled = w /\ chip'.outOfPhase = o /\ chip'.heard = <<>>
        /\ chip'.reply = k /\ chip'.torn = r
    BY <1>c, <1>d, <1>6, <2>1
  <2>3. chip'.flash = chip.flash /\ chip'.odd = chip.odd /\ chip'.power = chip.power /\ chip'.spoiled = chip.spoiled
    BY <1>d, <2>1
  <2>4. QED
    BY <2>2, <2>3 DEF k
<1> HIDE DEF C, D
<1>9. Quiet' /\ ~Active'
  BY <1>5 DEF Quiet, Active
<1>10. SerialTypeOK'
  BY <1>4, <1>5, <1>8, <1>c DEF SerialTypeOK
<1>11. ScriptInv'
  BY <1>4, <1>5, <1>8, <1>9 DEF ScriptInv
<1>12. FirmwareInv'
  <2>1. CASE drive.dev = Firmware
    <3>1. SUFFICES ASSUME ~chip'.odd
                   PROVE  spi'.flash = chip'.flash /\ FirmwareRests(spi'.fw, chip')
      BY <1>8, <1>9 DEF FirmwareInv, InFirmware
    <3>2. spi.flash = chip.flash /\ FirmwareHears(spi.fw, chip)
      BY <1>1, <1>8, <2>1, <3>1 DEF FirmwareInv, InFirmware
    <3>3. chip'.enabled = IF chip.bytes[1] = PAGEWRITE THEN FALSE ELSE chip.enabled
      BY <1>8, <2>1 DEF w
    <3>4. spi.fw \in FirmwareOK /\ chip \in ChipRecords
      BY <1>1 DEF SerialTypeOK, SpiOK, SpiRecords
    <3> DEFINE d == chip'
    <3> HIDE DEF d
    <3>5. FirmwareRests(spi.fw, d)
      BY <3>2, <3>3, <3>4, SelectionEnds DEF d
    <3>6. QED
      BY <1>4, <1>8, <2>1, <3>2, <3>5 DEF d
  <2>2. CASE drive.dev # Firmware
    <3>1. chip'.enabled = chip.enabled
      BY <1>8, <2>2 DEF w
    <3>2. QED
      BY <1>1, <1>4, <1>5, <1>8, <2>2, <3>1, FirmwareElsewhere
  <2>3. QED
    BY <2>1, <2>2
<1>13. PowerInv'
  <2>1. SUFFICES ASSUME ~chip'.outOfPhase
                 PROVE  spi'.power = chip'.power /\ spi'.halted = PowerOff(spi'.power) /\ ~spi'.written
    BY <1>8, <1>9 DEF PowerInv
  <2>2. ~chip.outOfPhase /\ ~waits
    BY <1>8, <1>e, <2>1 DEF o
  <2>3. spi.power = chip.power /\ spi.halted = PowerOff(spi.power) /\ ~spi.written
    BY <1>1, <2>2 DEF PowerInv, waits
  <2>4. QED
    BY <1>4, <1>8, <2>3
<1>14. TouchInv'
  <2>1. HalfWay <=> half
    BY <1>1 DEF HalfWay, InTouch, half
  <2>2. spi'.partie = 0 <=> chip'.torn
    BY <1>1, <1>4, <1>8, <1>r, <2>1 DEF TouchInv
  <2>3. ~InTouch' /\ ~HalfWay'
    BY <1>9 DEF InTouch, HalfWay
  <2>4. TouchAsMeasured'
    <3>1. Len(chip'.heard) = 0
      BY <1>8
    <3>2. QED
      BY <3>1 DEF TouchAsMeasured
  <2>5. QED
    BY <2>2, <2>3, <2>4 DEF TouchInv
<1>15. QED
  BY <1>10, <1>11, <1>12, <1>13, <1>14 DEF SerialInv

-----------------------------------------------------------------------------
(* Serial bus: the theorem *)

\* The reset.
LEMMA SerialBegins == SerialInit => SerialInv
<1> SUFFICES ASSUME SerialInit
             PROVE  SerialInv
  OBVIOUS
<1> DEFINE P == <<11, 0, 1, 0, 0>>
<1>1. FirmwareImage \in Flash /\ P \in PowerFile /\ NoCommand \in FirmwareOK
  BY DEF FirmwareImage, Flash, PowerFile, NoCommand, FirmwareOK, FirmwareRecords, READ_ID
<1>2. P[1] = 11 /\ ~PowerOff(P)
  BY DEF PowerOff
<1> HIDE DEF P
<1> DEFINE Bs == Seq(0 .. 255)
<1> DEFINE Hs == Seq(Int)
<1>3. <<>> \in Bs /\ <<>> \in Hs
  OBVIOUS
<1> HIDE DEF Bs, Hs
<1>4. spi = [dev |-> 0, hold |-> FALSE, slow |-> FALSE, cmd |-> 0, data |-> 0, partie |-> 1,
             cntReg |-> 0, written |-> FALSE, power |-> P, halted |-> FALSE,
             fw |-> NoCommand, flash |-> FirmwareImage, x |-> TouchX, y |-> TouchY, jitterctr |-> 0]
  BY DEF SerialInit, P
<1>5. drive = [script |-> <<>>, dev |-> 0, i |-> 0, lazy |-> FALSE, slow |-> FALSE, left |-> MaxScripts]
  BY DEF SerialInit
<1>6. chip = [bytes |-> <<>>, enabled |-> FALSE, flash |-> FirmwareImage, power |-> P, odd |-> FALSE, outOfPhase |-> FALSE,
              torn |-> FALSE, spoiled |-> FALSE, reply |-> 0, heard |-> <<>>]
  BY DEF SerialInit, P
<1>7. SpiOK(spi)
  BY <1>1, <1>4 DEF SpiOK, SpiRecords, Devices, SentBytes, XPlaces, YPlaces
<1>8. drive \in [script : Bs, dev : 0 .. 2, i : Nat, lazy : BOOLEAN, slow : BOOLEAN, left : Int]
  BY <1>3, <1>5, SerialAssumption
<1>9. chip \in [bytes : Bs, enabled : BOOLEAN, flash : Flash, power : PowerFile, odd : BOOLEAN, outOfPhase : BOOLEAN,
                torn : BOOLEAN, spoiled : BOOLEAN, reply : Int, heard : Hs]
  BY <1>1, <1>3, <1>6
<1>10. SerialTypeOK
  BY <1>7, <1>8, <1>9 DEF SerialTypeOK, DriveRecords, ChipRecords, PowerFile, Bs, Hs
<1>11. /\ spi.hold = FALSE /\ spi.written = FALSE /\ spi.halted = FALSE /\ spi.power = P /\ spi.partie = 1
       /\ spi.flash = FirmwareImage /\ spi.fw = NoCommand /\ spi.data = 0
  BY <1>4
<1>12. drive.script = <<>> /\ drive.i = 0 /\ drive.dev = 0
  BY <1>5
<1>13. /\ chip.bytes = <<>> /\ chip.enabled = FALSE /\ chip.flash = FirmwareImage /\ chip.power = P /\ chip.torn = FALSE
       /\ chip.heard = <<>>
  BY <1>6
<1>14. Quiet /\ ~Active
  BY <1>12 DEF Quiet, Active
<1>15. ScriptInv
  BY <1>11, <1>12, <1>13, <1>14 DEF ScriptInv
<1>16. FirmwareInv
  <2>1. FirmwareRests(NoCommand, chip)
    BY <1>13 DEF FirmwareRests, NoCommand, PAGEWRITE
  <2>2. QED
    BY <1>11, <1>12, <1>13, <1>14, <2>1 DEF FirmwareInv, InFirmware, Firmware
<1>17. PowerInv
  <2>1. chip.reply = 0 /\ drive.i # 2
    BY <1>6, <1>12
  <2>2. spi.halted = PowerOff(spi.power)
    BY <1>2, <1>11 DEF PowerOff
  <2>3. spi.written <=> Active /\ drive.dev = PowerManagement /\ drive.i = 2
    BY <1>11, <2>1
  <2>4. QED
    BY <1>11, <1>13, <2>1, <2>2, <2>3 DEF PowerInv
<1>18. TouchInv
  BY <1>11, <1>12, <1>13, <1>14 DEF TouchInv, InTouch, HalfWay, TouchAsMeasured, TouchScreen
<1>19. QED
  BY <1>10, <1>15, <1>16, <1>17, <1>18 DEF SerialInv

\* Each device of the serial bus answers as its chip would.
LEMMA SerialFollows == SerialInv => SerialTrue
<1> SUFFICES ASSUME SerialInv
             PROVE  SerialTrue
  OBVIOUS
<1>1. FirmwareInv /\ PowerInv /\ TouchInv /\ SerialTypeOK
  BY DEF SerialInv
<1>2. FirmwareAsChip
  <2>1. SUFFICES ASSUME ~chip.odd
                 PROVE  Quiet => (spi.fw.write_enable = chip.enabled \/ spi.fw.com = PAGEWRITE)
    BY <1>1 DEF FirmwareInv, FirmwareAsChip
  <2>2. Quiet => FirmwareRests(spi.fw, chip)
    BY <1>1, <2>1 DEF FirmwareInv, InFirmware, Active
  <2>3. QED
    BY <2>2 DEF FirmwareRests
<1>3. PowerInPhase
  BY <1>1 DEF PowerInv, PowerInPhase
<1>4. TouchAsMeasured
  BY <1>1 DEF TouchInv
<1>5. QED
  BY <1>2, <1>3, <1>4 DEF SerialTrue

\* The firmware answers and keeps what its chip would, the power is cut only by its bit, and a measurement is
\* put together from its own two halves, up to the cases that the parts of SerialTrue name.
THEOREM SerialIsTrue == SerialSpec => []SerialTrue
<1>1. SerialInit => SerialInv
  BY SerialBegins
<1>2. SerialInv /\ [SerialNext]_serialVars => SerialInv'
  <2> SUFFICES ASSUME SerialInv, [SerialNext]_serialVars
               PROVE  SerialInv'
    OBVIOUS
  <2>1. CASE Begin
    BY <2>1, BeginKeeps
  <2>2. CASE SendByte
    <3>1. drive.dev \in {0, 1, 2}
      BY DEF SerialInv, SerialTypeOK, DriveRecords
    <3>2. QED
      BY <2>2, <3>1, SendPower, SendFirmware, SendTouch DEF PowerManagement, Firmware, TouchScreen
  <2>3. CASE GiveUp
    BY <2>3, GiveUpKeeps
  <2>4. CASE LoadSerial
    BY <2>4, LoadSerialKeeps
  <2>5. CASE UNCHANGED serialVars
    BY <2>5 DEF serialVars, SerialInv, SerialTypeOK, ScriptInv, FirmwareInv, PowerInv, TouchInv, InFirmware, InTouch,
      HalfWay, Active, Quiet, TouchAsMeasured
  <2>6. QED
    BY <2>1, <2>2, <2>3, <2>4, <2>5 DEF SerialNext
<1>3. QED
  BY <1>1, <1>2, SerialFollows, PTL DEF SerialSpec
=============================================================================
