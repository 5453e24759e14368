# A verification project for DSOID

DSOID is an Android port of the DeSmuME emulator of the Nintendo DS: C++ in
`src/jni`, a thin Java shell in `src/src/com/qingping`. This directory holds TLA+
models of the parts of it in which *order* matters (threads, registers edited by two
processors, deferred events, deferred writes to disk), the TLC runs that check them on
small instances, and TLAPS proofs of what holds for every instance.

The repository has no tests and no design documents. What a program of this kind
promises is therefore taken from the code itself, from its comments and from its log
messages, and the abstract specifications here (`IpcChannel`, `ForkJoin`) say what the
callers rely on.

## 1. The system

| Component | State | Operations | Interacts with |
|---|---|---|---|
| Host threads (`EmulatorActivity.java`, `main.cpp`, `sndsdl.cpp`, `SPU.cpp`) | `execute`, `paused`, `romloaded`, `doterminate`, `isFinishedInit`, `javaEnv`, `SPU_user`, the AudioTrack, the mutex `DsExec` | load, pause, menu, savestate, back key, frame loop, sound loop, screen copy | every other component, through `NDS_exec` |
| Rasterizer workers (`utils/task.cpp`, `rasterize.cpp`) | per task: a thread, a mutex, one condition variable, `work`, `exitThread` | `start`, `execute`, `finish`, `shutdown`; `SoftRastInit`, `SoftRastRender`, `SoftRastClose` | the polygon lists of `gfx3d.cpp` |
| IPC FIFO (`FIFO.cpp`) | two rings, two `IPCFIFOCNT`, the bits of `IF` | send, receive, control write, acknowledge, reset | both processors, interrupts |
| DMA controller (`MMU.cpp`, `MMU.h`) | control register, `startmode`, `running`, `paused`, `triggered`, `dmaCheck`, `nds.freezeBus` | register writes of 32 and 16 bits, `exec`, `tryTrigger` | scheduler, display, game card, geometry FIFO |
| Geometry FIFO and engine (`FIFO.cpp`, `gfx3d.cpp`) | `gxFIFO`, `matrix_stack_op_size`, `gxstat`, the engine's event, `isSwapBuffers`, bit 0 of `freezeBus` | send, receive, `handleEvents`, `gfx3d_execute3D`, VBlank | DMA, interrupts, rasterizer |
| Backup memory (`mc.cpp`) | chip state, memory, two flush flags, the `.dsv` file | SPI bytes, deselect, lazy flush, load, savestate load | scheduler (every 64th frame), file system |
| Interrupts, halt, IPCSync (`MMU.cpp`, `armcpu.cpp`, `bios.cpp`) | `IE`, `IF`, `IME`, `waitIRQ`, `halt_IE_and_IF`, sync registers | raise, acknowledge, halt, wake, sleep | all devices |
| Scheduler (`NDSSystem.cpp`) | due times, `reschedule`, cycle counters of both processors | `NDS_exec`, `execHardware`, `findNext` | all devices |
| Timers (`MMU.cpp`, `NDSSystem.cpp`) | reload, mode, counter, event time | read, write, overflow, cascade | scheduler, interrupts |
| Video memory and texture cache (`MMU.cpp`, `texcache.cpp`) | nine `VRAMCNT`, the page maps of both processors, texture slots, cached textures | map, write, look a texture up | both processors, rasterizer |
| Geometry commands, matrix stacks, polygon lists (`gfx3d.cpp`, `matrix.cpp`) | the packed word, parameter counters, four stacks, two pairs of lists | commands, swap, flush | geometry FIFO, rasterizer |
| Sound channels (`SPU.cpp`) | registers, position, ADPCM decoder, two mixers | key on, mix, loop, load state | sound thread |
| Divider and square root, game card, firmware, RTC, touch, microphone | registers, busy event, command buffers | register writes, completion events | scheduler, DMA, interrupts |
| Savestates and movies (`saves.cpp`, `movie.cpp`) | every variable above, serialised in chunks | save, load after a reset | everything |
| System control coprocessor (`cp15.cpp`) | registers, protection masks, copies in MMU and the ARM9 | MCR, MRC, test of an access | ARM9, memory map, savestates |
| Disassembler (`Disassembler.cpp`) | the first half of a long branch | list a word | none (tracing, compiled out) |
| Processors (`armcpu.cpp`, `arm_instructions.cpp`, `thumb_instructions.cpp`) | registers, banks, status words | the instructions of both sets, exceptions | memory map |
| Dynamic recompiler (`dynarec/`) | translation caches, page tables, links, the block being built | look up, translate, link, flush, leave | processors, every write to memory |
| 2D engines (`GPU.cpp`) | layer and window registers, affine and mosaic counters, the capture | draw a line, blend, capture, skip a frame | scheduler, video memory, 3D engine |
| 3D pixels, wireless, slot 2, cheats, file systems, Java screens | mostly data | | |

### What is hard about it

* **Threads that share plain volatile flags.** Five kinds of thread start, pause and end
  a session with a dozen globals and a single mutex, which one of them initialises
  while another may hold it.
* **One condition variable for two directions** between the rasterizer and its workers.
* **The same fact kept in several places**: eight status bits in two registers mirror
  two rings, `matrix_stack_op_size` mirrors the FIFO, two flush flags stand for a
  difference between memory and file.
* **Deferred work**: a DMA transfer moves its data at once and ends in an event; the
  engine runs only while its event keeps being enabled again; writes reach the disk
  when the chip is deselected or 64 frames later.
* **A freeze that stops everybody who could lift it**: both processors stand still while
  `freezeBus` is set.
* **The same instruction set read three times**: by the table of the interpreter, by the
  translator of the recompiler and by the scan that decides where a block ends.
* **Code that changes under its translation**: a store must find the blocks made from the
  word it writes, and the processor that stores may be inside one of them.
* **Files that end early.** A savestate is read after the reset, section by section, from a
  buffer that is zero where the file was cut.
* **Hand-made wraps and widths**: rings at 16, word counts modulo 2^32, address sizes
  learnt from the length of a command.

`PROJECT.json` lists each of these hazards at the line where it bites.

## 2. Modules

| Module | Models | Composes |
|---|---|---|
| `IpcFifo` | both rings, both control registers, the two interrupts | |
| `IpcChannel` | abstract: two bounded FIFO channels | implemented by `IpcFifo` |
| `HostThreads` | UI, loader, emulation, sound and GL threads | |
| `RasterTasks` | `Task` on pthreads and its client | |
| `ForkJoin` | abstract: a frame is forked into bands and joined | implemented by `RasterTasks` |
| `DmaChannel` | one DMA channel of either processor | |
| `GxSystem` | geometry FIFO, engine, VBlank, bus freeze | extends `DmaChannel` |
| `BackupDevice` | backup memory and save file | |
| `GameCard` | commands, blocks, DMA trigger and interrupt of the card | |
| `RealTimeClock` | the clock chip and its three wires | the game that moves them |
| `SerialBus` | SPICNT, SPIDATA, power management, firmware chip, touch screen | the chips by their own rules |
| `BiosCalls` | the calls of the emulated BIOS but the waiting ones | |
| `IoRegisters` | registers by width of access: the page, the device, what a read returns | |
| `Interrupts` | interrupt registers, halt, BIOS waits, sleep, IPCSync, the inner loop | both processors and their games |
| `Sequencer` | `NDS_exec`, its events and due times, two timers, DMA end, divider | both processors |
| `Dynarec` | the translation cache, its links, its invalidation, entering and leaving blocks | both processors, DMA, savestates |
| `ArmTranslate` | the interpreter's tables, from instruction words to operations; the translator's decoder; the masks of the scan: exits, branches, flag writers | |
| `BlockCode` | a block being translated and then run, beside the instructions it stands for | |
| `EmittedCode`, `HostRun` | the host instructions put down for one instruction and the encoders that make them; the machine and the stubs that run them, and the instruction's meaning, both on terms | extend `ArmTranslate` |
| `Disassembler` | the listing of a word, and the word it assembles to | extends `HostRun` |
| `ArmState`, `ArmData` | registers, modes and exceptions; data processing; ARM and Thumb | |
| `ArmMachine` | loads, stores, lists, branches of both sets; a processor in memory, from any pair of modes | extends `ArmState` |
| `SystemControl` | registers of the coprocessor, their copies, protection masks | |
| `SaveStates` | the file of a slot, cut or old, and the machine after a load | extends `SystemControl` |
| `DisplayLine` | a line of sprites and a line of each kind of background, with mosaic; a pixel through windows, mixing and fading | |
| `DisplayFrames` | skipped frames; lines, capture, display FIFO, brightness while registers change | |
| `VideoMemory` | banks, maps, texture slots, the texture cache | |
| `SoundChannel` | one channel under two mixers | |
| `GeometryCommands` | `GXF_Hardware::receive`, `gfx3d_execute` and the parameter counters | |
| `MatrixStacks` | the four stacks and the current matrices | |
| `PolygonLists` | vertices, polygons, lists, swap and flush | |

The modules whose names begin with `MC` are small instances TLC explores: five of them explore several
units in one run, a behaviour choosing its unit at the start: `MCInterrupts` (interrupts, control, saves, video), `MCPeripherals` (backup, card, clock, serial, bios, registers, sprites, background, layers, film, screen), `MCProcessors` (machine, data),
`MCDynarec` (cache, thumb, word, block, host) and `MCDevices` (sound, commands, matrices, polygons).
The modules whose names end in `Proofs` hold the theorems (`IpcFifoProofs`, `HostThreadsProofs`,
`RasterTasksProofs`, `GxSystemProofs` (which also covers `DmaChannel`), `SequencerProofs`, `DynarecProofs`, `InterruptsProofs` for `Interrupts`, `SystemControl`,
`SaveStates` and `VideoMemory`, and `UnitsProofs` for `BackupDevice`, `GameCard`, `MatrixStacks`,
`PolygonLists`, `SoundChannel`, `GeometryCommands` and `SerialBus`).

`PROJECT.json` ("map") gives, for every definition that models code, the lines it
models; a helper whose lines lie within those of the definition that uses it has no row of its own. Operators named "mutant" in a comment are plausible faults of the definition
that follows them; they are used by no specification and serve to show that a
property would notice.

### IpcFifo

One action for each path through `IPC_FIFOsend`, `IPC_FIFOrecv` and `IPC_FIFOcnt`:
`SendOverflow`, `SendWord`, `RecvDisabled`, `RecvUnderflow`, `RecvWord`, `WriteCnt`,
and `AckIrq` (a write to `REG_IF`) and `Reset` (`MMU_Reset`). A register is the set of
its bits that are 1, so a mask is a set difference. The refinement maps ring, head and
size to the sequence of words not yet read.

### HostThreads

Each thread has a program counter. An action is what a thread does between two
accesses to state another thread uses; the calls it makes in between are part of it.
A session is one `entry()` and all it starts, including the two sound threads that
`SNDSDLInit` is called for (once by `SPU_ChangeSoundCore`, once after `NDS_Reset`).
The UI thread has a counter of its own (`uiPc`) for what it does inside the native code: `Pause` and
`UnPause` go on to `SpuPause`, which mutes the track through the global `javaEnv`, and
`LoadState` goes through the reset of the sound system (`UiReset`) that the loader does too, with a new
sound thread at its end. `pauseGap` is history: the pause in force left a frame running
(`NDS_Pause` does not wait for it), or the loader set `execute` behind its back.

### RasterTasks

A worker holds its mutex while it works, so `wpc[i] = "work"` *is* the held mutex, and
every other critical section is one action. Waits may wake spuriously. The refinement
maps the client's program counter to "a frame is being rendered".

### DmaChannel and GxSystem

`WriteControl` is `write32` with all its side effects; `Stop`, `Wait` and `Copy` are the
three outcomes of `exec`; `TryTrigger` is what `triggerDma` does to a channel.
`count`, `copied`, `clean` and `due` are history: what the last write asked for and
what has moved since. Addresses and data are left out, and so is the abort on an
invalid source mode, which is an assertion. `Cpu` is the processor the channel belongs to: only the
ARM9's channels freeze the bus.

`GxSystem` extends that module and puts the channel beside the FIFO it feeds; its own
specification is `SystemSpec`, and the register writes of the game are `ProgramDma`. A command is a matrix stack
operation, a swap or another. A burst goes to one of two ports: words for the ports of single commands are
one entry each and freeze the bus above the limit (`BurstSingle`); words for the packed port send any number of
entries up to `PerWord` and look at no limit (`BurstPacked`). How many, and which, is left open here and worked
out in `GeometryCommands`.
`Push`, `Pop` and `HandleEvents` are the bodies
of `GFX_FIFOsend`, `GFX_PIPErecv` and `GXF_FIFO_handleEvents`, with the trigger that the last
one sends to the channel part of the same step.

### BackupDevice

One action for each kind of SPI byte (`Command`, `DetectByte`, `AddressByte`,
`ReadByte`, `WriteByte`), `ResetCommand` for AUXSPICNT = 0, `LazyFlush` for the call in
`NDS_exec`, `LoadRom` for everything that reloads the device (a new ROM, a reset, a new
process), and `LoadState`. A vector that `resize()` extends with 0xFF, written to a file
that `flush()` pads with 0xFF, is a function that is `Erased` where nothing was stored;
the detection buffer is its length. `outdated` is history: the file lags because a
savestate was loaded or because it could not be opened.

### GameCard, RealTimeClock, SerialBus, BiosCalls, IoRegisters

`GameCard` keeps for each processor what the card knows (`nds_dscard`) beside what its page
shows, and what the game believes of its block: the command the card latched, the words it
gave, and whether the end was told. `RealTimeClock` is `rtcWrite` for every write of the
wires, driven by a game that sends whole transfers or gives them up. `SerialBus` runs scripts
of bytes through SPICNT and SPIDATA, next to the chips by their own rules: a selection begins
with the first byte after a release, whatever came before. `BiosCalls` makes one call on a
memory in which every byte can be told from every other, so that the order of reads and
writes shows. `IoRegisters` has one register for each way in which the six switches over addresses
(two processors, three widths) treat one: the bytes the game wrote last, beside what the page and
the device have of them. `missed` and `veiled` name, byte by byte, where they may differ.

### Interrupts

Each processor runs a short game (halt, wait through the BIOS, mask, handshake over IPCSync,
sleep) inside `armInnerLoop`. The level of `gen_IF` is recomputed from the devices as the code
does, and the order in which `NDS_exec` serves interrupts, runs the loop and ends the frame
is the order of the phases. The keypad is the only source that works while asleep.

### Sequencer

The clock `nds_timer` and everything stored against it is kept relative to the base that
`NDS_exec` subtracts at the end of a frame. A burst of a processor overshoots by its
length; `execHardware` serves what is due; `FindNext` is the minimum the code takes.
Timer 0 is computed from the clock when it is read, timer 1 counts its overflows.

### Dynarec

Both processors share the cache of the main memory. A block is the addresses it was made
from, where its code lies, and its exits, which are linked to other blocks; a dropped block is
one that a flush forgot while something may still hold its address: the other
processor's link register, or a block that is being linked. Of an instruction the last halfword says what it does and
the first where it leads, so that either half of an ARM instruction can be changed alone. A store has the halfword it
names, its width, and whether it comes through another image of memory: `Reach` is where it lands (`MMU.h` masks the
address), `Seen` what `write_smc_check` makes of the address as written. `Guarded` are the halfwords
an entry can stand for; a store that is not seen leaves the others it reaches in the history `blind`, until the next
flush. `Store` and its variants are the stubs of
`arm_stub.S` with `write_smc_check`; `Translate`, `Overflow` and `Link` are the recursion of
`translate_block_*` unrolled.

### ArmTranslate, BlockCode

`ArmTranslate` consists of functions of an instruction word (as the bits the decoders look at). `ArmTable` is written from
the tables of the interpreter, one operator for each group of rows; the rest from the
cases of the translator and from the masks of the scan. The properties compare
them for every word, and name the words where they differ (`Misread`, `OnlyLooksLikeExit`).
`BlockCode` emits the pieces a block consists of: cycle updates, the tests of conditional runs and
the branches patched behind them, and runs them beside the instructions. An instruction there works, compares, branches,
returns or stores r15.

### EmittedCode, HostRun

The guest's registers live in host registers (r0, r1, r6, r9, r12, r14 in ARM code, r0 to r5 in Thumb
code) or in a file behind SP; r15 was meant for a scratch register, but a comma is missing in both tables, so
it counts as one of the file. `EmittedCode` has, for each macro of `arm_emit.h`, the sequence of host
instructions, literals, calls and ways out it puts down, each host instruction with the fields that
the macros of `arm_codegen.h` and `arm_dpimacros.h` encode. `HostRun` runs such a sequence: an
instruction as the table of the interpreter says (the host is an ARM), a call as the stub in
`arm_stub.S` does, which spoils the scratch registers and reads the literal behind the call. Values are terms
over the first contents of the registers. `Meaning` does the same for the handler of the
interpreter, Thumb words by the ARM word that does the same. `ArmFaithful` and `ThumbFaithful` compare
registers, banks, flags, accesses in their order, where control goes, and the counter of cycles.

They leave out, by name (`OddWord`, `OddThumb`), the words on which the code is known to part from the interpreter:

* words that the translator reads as another instruction (`Misread` of `ArmTranslate`), undefined words, CDP;
* TST and TEQ with an amount in a register, encoded as CMN (`arm_dpimacros.h:1584`); r15 as an operand there;
* r15 in multiplications, saturating arithmetic, CLZ, SWP and moves of the status, as the target of BX and
  BLX, as the register moved, or as the offset register of a transfer; SMLALxy; long multiplications with one target;
* MRS of CPSR, and MSR of a part of SPSR, whose mask is ignored;
* write-back over the register moved; odd pairs; a list that is empty, has r15 as its base or stores
  it, or writes back a base that is in the list or while it moves user registers;
* BLX through r14 and, in Thumb code, r15, where LR is written first; a Thumb STMIA with its base in the list; a second half of a
  long branch alone that is the ARM-switching one or reaches over 255 bytes.

A list with `^` and r15 returns without counting the cycles of its block (`ReturnsByList`). An access at an odd address is not told
from one at the address below, and the order in which a list's words reach memory is not kept: the interpreter goes down from the
highest register for the decrementing forms, the recompiler always up.

### Disassembler

`ArmListed` and `ThumbListed` are what the handlers print, as a record: the name, the registers in
order, the last operand. `Assembled` reads such a record back by the rules of the
architecture, and the property asks that the word so made means what the listed word means. The handlers no table entry
names (LDRBT, STRBT, LDREX, STREX and the like) are left out, and so is the condition. The listings that are wrong are named in
`WrongListing`: shifts by 32 printed as shifts by 0, RRX and a rotation in each other's place, a
coprocessor's offsets, operands of doubleword transfers. The listing is used for tracing only
(`NDSSystem.cpp:1853`, `1889`, under macros that are not defined).

### The interpreter

`ArmState` holds the registers of the mode and the banks of the others as the code does, and
swaps them in `switchMode`. `ArmData` has the bodies of the data processing
operations of both sets with words of `Bits` bits, where carry and overflow are computed by the
formulas of the code and checked against sums of integers. `ArmMachine` has
loads and stores of every width, lists with and without `^` and
write-back, status moves, branches and exceptions.

### SystemControl, SaveStates

`SystemControl` keeps the registers, and beside them what `armcp15_moveARM2CP` computes from them: the
addresses each protection region admits for each kind of access, the write mode of video
memory, the vectors, the address of DTCM. A mask and its set are the addresses they admit.
`held` is history: what MCR left at each register, which MRC must read back.

`SaveStates` writes the machine to the file and reads it back. A section is a set of entries, and entries
that share a fate are one. `Cuts` are the places where a file may end (a full disk, a process killed in the middle
of the write); the body past such a place reads as zeros, so that each section's own test
decides how the load goes on. Earlier versions of section 61 end before what later ones added
(`Since`). `kept` is what the file was written from (history), and `LoadRestores` compares it
with the machine after the load.

### The display

`DisplayLine` has one operator for each path of `_spriteRender` (16 colours, 256 colours, bitmaps, windows,
turned or not), `renderline_textBG` and `rot_scale_op`; a texel is the place in memory the path
looks at, so that a property can say that all paths look where the sprite's texel is. Its second half is
`GPU_RenderLine_layer` for one pixel, whose colour is a term: what was mixed with what. `DisplayFrames` has
two parts: `film` is `FrameSkipper` between the main loop, the 3D engine and the lines; `screen` is
`GPU_RenderLine` of engine A with the registers a game may write between two lines (`Writes`), and remembers what
those registers asked for (`meant`, `since`, `was`).

### The devices

`VideoMemory` is `MMU_VRAMmapControl` with all it rebuilds, the writes of both processors and the
lookup of the texture cache. What a bank claims in each map is a function of its setting, and a map is the claims
of nine banks laid over each other (`Layered`). `SoundChannel` is a channel with the samples it has decoded as
history. `GeometryCommands` is the unpacking of a word and the counters of every handler; what the packed commands ask
for is kept in `due`, and a matrix is the set of its elements that have come.
`MatrixStacks` keeps the matrices a game has pushed and not popped (`saved`), beside the two stacks
and their positions; a matrix is a number, so that only where it came from shows. Such a game
stores above what it pushed, and gives up what it pushed when it clears the error flag.
`PolygonLists` keeps, for each polygon, the vertices it has by the rules of the four formats
(`meant`, from the sequence `sent` since BEGIN), beside the indexes the code computes; `clean` and
`spoiled` say of a polygon and of a list that a strip went on behind its END or behind a swap, where the
code has indexes that mean nothing. The order of drawing is `DrawnBefore`, and sorting by it gives a
polygon the place that is the number of those drawn before it.

## 3. Runs

| Run | Module | Question | Bounds and why they suffice |
|---|---|---|---|
| `ipc_fifo` | `IpcFifo` | counters, status bits, interrupt edges; refinement of `IpcChannel` | rings of 2 words: full, empty, wrap and clear in mid-wrap all occur; 2 word values tell reordering apart; 4 control writes switch every bit both ways; CPUs and words are symmetric |
| `host_threads` | `HostThreads` | safety of sound core, JNIEnv, emulator and mutex; shutdown, loading and every call of the UI thread end | 2 sessions: the second meets every flag the first left behind; 2 states loaded, in one session or one in each |
| `raster_tasks` | `RasterTasks` | bands complete, no lost wakeup, everything ends; refinement of `ForkJoin` | 3 workers: a first, a middle and a last of the client's loops; 3 frames: a band could be one or two frames old |
| `dma_channel` | `DmaChannel` | freezes and transfers keep their end event, words are accounted for, the bus returns | five modes, one of each kind of condition; count 4, bursts of 2 and 1, 3-bit words: bursts, exact ends and the wrap of the count all occur |
| `dma_trigger` | `DmaChannel` | finding: an old trigger starts a transfer | immediate and VBlank |
| `gx_system` | `GxSystem` | no stall, no forgotten pause, truthful busy flag, bursts that fit; freezes, transfers and commands end | 3 writes by the game, FIFO low at 1, full at 3, cap 5, bursts of 2, engine batch 2, up to two entries from a packed word, stack commands and swaps in bursts, with and without repeat: a packed burst passes the limit, a single one does not |
| `peripherals` | `MCPeripherals` | no write without a pending flush, footer matches, writes reach the file; blocks of the card, transfers of clock and serial bus, BIOS calls; registers that devices, page and game agree on; sprites, backgrounds, mixed layers, frames and captures | backup: 4 bytes and one-bit bytes, so that addresses of one byte wrap and of two bytes do not, up to 5 detection bytes, opens that succeed and fail, one savestate; card: blocks of 4 words on a card of 9, two control words, one savestate in a block; clock: two transfers, each may be given up at any bit; serial: three scripts, 3 bytes of firmware; BIOS: 40 bytes of memory, texts and streams that end inside a unit; registers: each alone, and the groups that answer each other, with three writes of any width; display: lines with sprites that overlap, hang over both edges and wrap, every kind of background straight and turned, every small scene of layers, windows and effects; frames of three lines with two writes, and one frame in four drawn |
| `interrupts` | `MCInterrupts` | halt flags agree, lines mirrored, a raised interrupt ends the loop, halted and sleeping machines wake; registers of the coprocessor, copies and masks agree; a load restores what it says; cached textures are what memory holds | five games, three interrupts: one of IPCSync, one forced by the geometry FIFO, one of other hardware; any four writes to the coprocessor, one region, two addresses that the sizes tell apart; files cut in the header, in each kind of section, on both sides of a version word, and old ones of each fate; two banks of video memory enabled at a time with settings that overlap in every map |
| `sequencer` | `Sequencer` | events served within a burst, overflows counted, processors near the clock, frames end | bursts of 1 and 3 cycles, lines longer and shorter than they are, two lines to a frame, counts modulo 2 so that reloads wrap |
| `dynarec` | `MCDynarec` | coherence, links, overflow, lookup ends after one flush at most; the three decoders; listings; blocks against their instructions; the host code of an instruction against its meaning | 8 halfwords and a program of three ARM instructions with a backward jump, 3 halfwords with three of Thumb; the second instruction is written by both processors and DMA, by the word and by either half, by a word that names its second half, and through another image; `MaxBlind`: between two flushes at most two halfwords of blocks are stored to unseen; all words of the decoders; every program of 3 instructions and a return, in both sets; every row and column of the ARM table with five choices of registers (in host registers, in the file, one twice, r15), every Thumb word by its upper ten bits with five of the lower six, and 1024 constants that need from one to four pieces or wrap around |
| `processors` | `MCProcessors` | arithmetic, shifts, banks, lists, handlers, calls | words of 4 bits: every pair, with every setting of the flags; words of 16 bits for the status word, one step and short programs from every pair of four modes |
| `devices` | `MCDevices` | sound, commands, stacks, lists | one ADPCM word behind its loop start; words of every kind of command; stacks of 4 entries with offsets out of them, and one change of a matrix, which is enough to tell entries apart; six vertices in strips of both kinds (sorting needs two sequences; the theorem covers the other formats), lists of 3 polygons and 12 vertices with indexes that wrap at 5 |

Deadlock is checked except where the system may stop: after the last session
(`host_threads`), when the game has used up its writes (`gx_system`), where a processor has been
sent into dropped code (`dynarec`), and where a unit has used up its steps (`processors`, `devices`, `peripherals`).

### Fairness

* `HostThreads`: weak fairness of every native thread and of the loading task (the OS
  schedules them), strong fairness of `CycleLock` (the GL thread takes the mutex again and
  again, but cannot overtake for ever), strong fairness of `DialogDone`, which is queued to the
  looper of the UI thread, and weak fairness of what that thread does inside a native call. The user owes nothing.
* `RasterTasks`: weak fairness of each worker and of the client inside a call; nobody
  has to begin a frame.
* `DmaChannel`: weak fairness of `Hardware`, since `execHardware` runs every due event.
* `GxSystem`: weak fairness of due events and of VBlank; strong fairness of the idle branch of
  `armInnerLoop`, which looks in every round: on its way from above the limit to the half the FIFO rests
  between two runs of the engine, which are a cycle apart and take `GxBatch` entries at most
  (`Half + GxBatch <= Limit`), so that it is seen below the limit. The processor owes nothing.
* `BackupDevice`: weak fairness of `LazyFlush`, since `NDS_exec` calls it every 64 frames.
* `Interrupts`: fairness of the phases of `NDS_exec`, which is called for every frame, and of the
  turns of both processors in the inner loop; devices and the player owe nothing.
* `Sequencer`: weak fairness of `Next`: `NDS_exec` is one sequential loop.
* `MCDynarec`: weak fairness of `Lookup`, which is a sequential call.

Liveness is claimed with its exceptions in the formula: a repeating GXFifo transfer into
an always-low FIFO does keep the bus; a repeating transfer keeps refilling the FIFO; a
reset or savestate may discard writes before they are flushed.

## 4. Findings

* `dma_trigger` (`MMU.cpp:1854`): "make sure we don't get any old triggers" happens only on a
  fresh enable. The run checks the sentence, and TLC finds a transfer started by a trigger
  from before the write.

### Other oddities

Where nothing in the source claims the opposite, or the disagreement is small, it is not a
finding but an exception that the properties name exactly, or a line here.

* **FIFO, host, DMA.** The masks that clear "empty" and "full" clear FIFOERROR too
  (`FIFO.cpp:56`). A pause that arrives while `DSInit` loads is overwritten
  (`main.cpp:426`), and `NDS_Pause` returns while a frame runs (`main.cpp:452`): a state may be saved, or the
  machine reset for a load, in the middle of a frame. The UI thread mutes and resets the sound with the JNIEnv of another
  thread (`sndsdl.cpp:312`), which may have detached when a session is left. A word count of 0
  in GXFifo mode wraps (`MMU.cpp:2076`), and `doPause` leaves `running` set for a channel that
  is then switched off. The geometry FIFO's "low" flag is false after a reset, with the FIFO empty.
* **Backup.** A lazy flush can fall inside a page; a failed flush is not tried again
  (`mc.cpp:1172`); a save file is truncated before it is written, so that a process killed in
  between leaves a file without its footer; nothing calls `BackupDevice::close_rom`.
* **Scheduler.** `read_timer` returns reload − 1 right after a start, and its message "UNITS …
  PLEASE REPORT" is reached after a short DMA transfer has moved the clock back. A timer the ARM7
  starts while the ARM9 waits may be served up to two bursts late.
* **Card.** A command without words (also 0x90, the other chip ID) ends without an interrupt;
  the switch to KEY1 is never left; a savestate in a block loses the command, so that the rest of a
  redirected read comes from other addresses.
* **Clock, serial bus.** A write to a register of the clock keeps the bits the transfer before left in
  the buffer; a transfer given up half way goes on with the next one; the half of the day is
  computed from the reduced hour. Power management and the touch screen do not begin anew at a
  selection, and the turn of the touch screen (`partie`) is in no savestate. A byte behind a
  firmware command that takes none is taken for a command.
* **BIOS calls.** Huffman and difference streams read their header as a byte and so have a length of 0;
  BitUnPack stores the lowest byte of each word; the Vram forms lose the last byte of an odd length.
* **Registers.** Many registers hear only halfwords and words, so that a byte changes what reads
  back and not the device. A byte written to BLDCNT lands in the other half of the device's word
  (`MMU.cpp:2337`); a halfword written to FOG_COLOR clears its alpha; a byte of BG2X is lost with the next
  halfword; EXMEMCNT written in bytes or words leaves slot 2 to both processors or none.
* **Interrupts.** Under the recompiler `IntrWait` goes on behind the call although no
  interrupt it waits for was flagged (`bios.cpp:263`).
* **Recompiler, cache.** A flush by one processor leaves the other's saved link register in
  dropped code. Not noticed are a store through an image of memory that the code does not run in, one that names the
  second half of an ARM instruction, and what a word over Thumb code changes beside the halfword it names:
  `write_smc_check` takes the address unmasked and looks at one entry (`MMU.h:855`, `cpu_threaded.cpp:3033`). `translation_flush_count` is never
  tested, `MMU_Reset` clears memory without invalidating.
* **Recompiler, decoding.** LDRD with a register offset is decoded as a multiplication or a
  swap, since `case 0xD0` cannot be reached inside `if(opcode & 0x20)`; SMLAW and SMULW become
  MSR, BKPT becomes BX, LDC, STC and CDP become MRC and MCR. MRC to r8–r14 under AL, an SWI
  whose comment has bits 20 and 15, and LDC with bit 15 are taken for exits and end a
  block without a jump; a store of r15 too. A branch into the middle of a conditional run
  executes the rest of it without its test. The cycles of a taken conditional Thumb branch
  are counted behind the jump, so that a loop of conditional branches alone takes no
  time. A lone second half of BL adds an offset that does not fit its field.
* **Interpreter.** Row 0x6B decodes every shift as LSL; SMLABB with Rd = Rn tests overflow
  against the new Rd; SMLALxy adds the low word of the sum to RdHi; MSR SPSR_f, #imm clears the
  control bits; LDMDA^ and LDMDB^ with r15 copy CPSR before the change of mode; LDM^ with
  r15 keeps bit 1 only if bit 0 is set; STM^ with write-back writes the user's base.
* **Display.** A turned sprite and a sprite window map one page and run over its end; a turned bitmap in
  memory that is 128 wide takes rows of its own width; a turned sprite of 256 colours is drawn even if it is a
  window (`GPU.cpp:1621`). Under a fade without windows a backdrop that is not selected leaves the old line, and with
  windows it takes `blend1` and the sprite window of the line before. A line hidden by master brightness
  does not move a turned background on, nor the FIFO (`GPU.cpp:2575`). A capture of the FIFO
  while it is displayed takes every second line ("BUG!!!" in the source), and DISPCAPCNT written in the middle of
  a frame changes a capture that runs.
* **Video memory.** `ObjExtPal[x][1]` is computed from itself; 4×4 textures have no palette in
  the key of the cache; textures above 128 KB are dumped in part and compared whole.
* **Sound.** A one-shot that ended keeps `keyon`, so that any write to SOUNDCNT byte 1 starts it
  again; an empty repeated part never ends (`SPU.cpp:987`); the sample directly behind the
  last may be read.
* **Savestates.** "9iws" of the ARM9's table names the ARM7's variable (`saves.cpp:137`), so that the state of
  IntrWait of the ARM9 is in no file and the ARM7's is read twice. `loadstate_slot` sets the host registers of both
  processors to 1, "GSCO" keeps 4 bytes, wireless and lights are left as they were by the reset. A file of
  version 0 of section 61, or one cut between that section's heading and its version word, fails silently and
  counts as loaded. Permission 5 for execution leaves the old mask in place (`cp15.cpp:161`).
* **Geometry.** `shininessInd` survives `gfx3d_reset`; after a command without parameters
  in the last byte the unpacker reads the byte behind its array; MTX_STORE 31 "works" by the
  comment, but `matrix.cpp:276` asserts a position below 31; vertex indexes have 16 bits; a
  strip that goes on behind END writes before the list ("wtf").

## 5. Proofs

All theorems hold for every value of the constants allowed by the named assumptions of
the modules (depths, numbers of cores, sessions and workers, sizes of counts, FIFOs, memories and
caches, lengths of bursts, programs, settings of banks, files). `PROJECT.json` lists them; the last theorem of each
module states what the run of that module checks as its main invariant.

* **`IpcFifoProofs`**: types, rings, status bits and edges (`RingsCorrect`, `EdgesKept`), and
  `Refinement`. The invariant is types, `RingConsistent` and `StatusTruthful` together:
  the guards of the code read the status bits, not the size, so that without
  `StatusTruthful` a send could overfill a ring, and without `RingConsistent` the
  sequence of words it stands for is not defined. The refinement needs two lemmas about
  `Contents`: advancing the tail appends, advancing the head drops the first word.
* **`HostThreadsProofs`**: `SessionsAreSafe`, for any number of sessions. The invariant has two
  halves. `Control` says which thread works when: loader and emulation thread take
  turns and `isFinishedInit` says whose it is (`TurnsTaken`), nothing but the back key ends a session
  (`StaysUp`), when the emulator and the JNIEnv exist, and who holds `DsExec`. `Sound` numbers the sound threads
  in the order of their starts: all of them but the last have ended or found nothing to do,
  which is what "one at a time" needs, since nothing but the spin on `terminated` joins them. A reset by the UI
  thread excludes the loader's and MainCycle's because a load needs a dialog that is gone and a session that is not being
  left. The gaps are in the properties and not in the assumptions: the UI thread has no JNIEnv of its own, and finds the
  owner of the global one attached except where `OwnJavaEnv` says; a state is read or the machine reset under a frame only
  where `pauseGap` says that the pause did not stop it.
* **`RasterTasksProofs`**: `FramesAreWhole`, `WakeupsKept`, `Refinement`. `FrameComplete` is
  not inductive. The invariant adds that
  every worker the client relies on is alive, that pending work is this frame's and
  still to be waited for, that work is drawn before it is taken away, and that a waiting
  thread waits for something that has not happened.
* **`GxSystemProofs`**, the channel: `EndsAreAhead`, `StopIsDone`.
  The last is a claim about one step and follows from `Progress`, the account of a
  transfer's words: those moved and those left add up to those asked for.
* **`GxSystemProofs`**, the FIFO: `EngineIsTruthful`, `BurstsFit`. The invariant adds to the
  properties that `matrix_stack_op_size` *counts* the stack commands that wait (`FifoRight`); the flag alone is not
  inductive, since a pop must know whether others are left. The count is a cardinality, and the lemmas
  about it (of a concatenation, of a prefix and the rest) go through bijections. `BurstsFit`
  needs `Half + Batch <= Limit` for the ports of single commands: 127 + 112 words stay below 254. A packed
  burst may pass the limit, up to 127 + 5 · 112 entries, but that port does not look at it.
* **`UnitsProofs`**, the backup memory: `PendingIsTruthful`. The
  strengthening is `DetectingIsClean`: a device that does not know its address size has
  nothing pending, so that no lazy flush can write a footer before the detection does.
* **`UnitsProofs`**, the card: `CardIsTrue`, for any sizes of card, blocks and dummy reads. The invariant
  (`CardInv`) relates the words left, the start and ready bits and the game's account of each processor's block (`Owed`), and
  says the same of a savestate with the account of the moment it was taken, so that a load in the middle of
  another block keeps it.
* **`UnitsProofs`**, the matrix stacks: `StacksStayPaired`, `PopsGiveBack`, for any depth and any offsets. The
  positions are reduced modulo the size of the stack; without the error flag the
  remainder is the position itself, which is what ties them to the length of `saved`.
* **`UnitsProofs`**, the sound channel: `SoundIsRight`, for any registers. `SoundInv` says of a channel that plays what the game
  has not touched since its key-on: what was decoded last is what decoding in order gives, the loop start, if it is
  remembered, is behind the header and not ahead of what is decoded, and the position is at most the end.
  `SPU_MixAudio` loops for as many samples as it is asked for, and the model has a recursive function there: that it exists, and that
  every value of it is a channel of the invariant, is out of reach of the library's induction theorem, so the
  proof takes the least number of samples for which one or the other fails (`LeastElement`, which well-foundedness of
  the numbers gives) and finds that one sample fewer already failed.
* **`UnitsProofs`**, the geometry commands: `CommandsAreWhole`, for any packed words, ports and bytes behind the array. The
  unpacker, the handlers and the game count the parameters of one command in three different ways (a countdown, an
  index that skips a column or starts elsewhere, a list of calls), and `CommandsInv` is their agreement: the engine has `j` of the
  parameters of `c` (`EngineAt`, with the index `At(c, j)`) exactly when the countdown is `commandTypes[c] - j` and `due`
  begins with as many `c`. That `Advance` follows `At` and is 0 after the last parameter, for every handler, is
  `Advances`, and that the parameters and `FilledIn` are the whole matrix is `Filled`. A word has four commands, so
  that what it asks for is a concatenation of four lists and needs no induction (`ExpandFirst`, `ExpandFree`).
* **`UnitsProofs`**, the serial bus: `SerialIsTrue`, for any scripts a game may send (`SerialAssumption`: power management gets an
  index and a value, the converter a command and then zeroes), any size of the firmware and any measurements. Three devices share
  SPICNT and SPIDATA, so that `SerialInv` has a part for each and a part for the script, and each kind of byte leaves the others'
  parts alone (`FirmwareElsewhere`, `PowerElsewhere`, `TouchElsewhere`). Of the firmware it says where in a selection `com`,
  `addr` and `addr_shift` stand, by the bytes the chip was sent (`FirmwareHears`), and between two selections that a page
  write keeps `com` while the chip has dropped its permission (`FirmwareRests`), which only the next reset makes good. Of
  power management, that it waits for a value exactly behind an index; of the converter, that it is at its other half behind an
  odd number of bytes or if the measurement before was torn, but not both (`HalfWay`), and that the half heard so far
  is that of the place measured: the shaking of the hand is in a bit the first byte does not hold (`Flipped`, `HalvesJoin`).
* **`UnitsProofs`**, the polygon lists: `ListsAreComplete`, `ManualOrderIsKept`. The invariant
  (`PolygonsInv`) says, of the sequence, how many vertices wait and which vertex of the game each
  of them is (`SequenceHeld`, with the parity that decides which corner a strip replaces), and of
  each list, that no polygon refers to a vertex at or behind its count and that there are at most four vertices to a polygon
  (`ListHeld`). The order needs that `DrawnBefore` is a strict total order: then the number of
  polygons in front of one is different for every two of them, so that ranks count the list from 0 without
  a gap, and `Sorted` is a permutation (`SortedIsRight`). `std::sort` is taken at its contract there.
* **`InterruptsProofs`**: `HaltsAlwaysAgree`, `RaiseEndsTheLoop`. The
  two halt flags are edited by five paths (BIOS call, CP15, acknowledge, exception,
  wake-up in the loop); the invariant says of each phase which of them may differ.
* **`InterruptsProofs`**, the coprocessor: `SystemApplied`, for any set of words and regions. Copies, masks and what MRC reads are
  kept together by one lemma for each kind of register, since a write to one must leave the others' parts of
  `Applied` alone.
* **`InterruptsProofs`**, savestates: `ControlStaysApplied` and `LoadsRestore`, for any set of lengths that files are cut to and of
  earlier versions. Neither is inductive without the file: `SavesInv` adds `FileInv`, that
  the file's coprocessor agreed with its copies when it was written (unless a load had failed half way in that
  very session), that it is what `kept` says, and that a file not cut short has its terminator. `LoadsRestore` is a claim about
  steps: which entries are restored follows from where each section stands in the row, so the sections are
  listed once (`SectionsAre`, `LaterSections`).
* **`InterruptsProofs`**, video memory: `TexturesStayFresh`, for any settings of the nine banks (no bound on how many are
  enabled), any textures and pages. `CacheFresh` needs to know that nobody writes what a texture was read from. The
  invariant says so by roles: a setting gives its bank to the LCDC map, the ARM9's areas, the
  ARM7 or the renderer, each map leads only to pages of banks given to it (`MapsGiven`), and since banks share
  no page (`PagesApart`) no page has two roles (`RolesApart`). `CacheHolds` says of a suspected entry that its dump is what it
  was decoded from, which is what lets a comparison of dumps clear it; a 4×4 texture's dump lacks
  the palette, and is the exception in both. What laying claims over each other gives is `LayersAre`, and that A to D come
  first of all claimants, whatever is enabled, is `FirstBank`.
* **`SequencerProofs`**: `ClockIsKept`. `TimesKept` is the invariant: at each phase of
  `NDS_exec`, how far each processor may be ahead of the clock, and that whatever is due
  before the next stop is either that stop or has set `reschedule`. The four parts of `ClockKept`
  follow from it. The exceptions (a clock that goes back for a frozen ARM7, a timer
  started by a waiting ARM7) are in the invariant as they are in the property.
* **`DynarecProofs`**: `LinksLeadSomewhere`, `BlocksLieApart`, `OwnDropLeaves`, `BlocksAreMemory`, `CacheIsSound` and
  `MemoryIsRun` for every program, both sets of instructions and every store.
  The invariant follows the recursion of `translate_block_*`: the stack of calls is
  made of blocks of the cache, each with the exits it has still to link (`Calls`), and an exit
  that is in no such list leads to a block (`LinksMade`). A scan ends because memory ends in a jump (`MemoryEnds`), and where it ends is the least address
  with an exit (`LeastElement`). That blocks are what memory
  holds needs that the page table has an entry for each instruction of each block (`Marked`), so that a store to a
  halfword an entry stands for is seen (`StoreReaches`); the halfwords no entry stands for are the exception of
  `Coherent`, kept one by one in `blind`, and every other halfword of the same block is still covered. From the same
  invariant, `MemoryIsRun`: what a processor executes is what memory holds at its address.

Only model-checked:

* every liveness property (fairness and ENABLED are out of the proof system's reach);
* `OneFlush`, a part of `LookupEnds`: that one lookup flushes at most once needs a bound
  on all that can be translated from it, which depends on sums over every block reachable from an address;
* `PortsRight`, `DisplayRight`, `WordsAgree`, `BlocksFaithful` and
  `InstructionsRight`: their units reach bitwise or recursive operators, fold over
  sequences of any length (which needs induction over data), or enumerate words and scenes, so that
  a theorem would be about the enumeration.

## 6. Not modelled

Bus timing; geometry arithmetic, rasterised pixels, the arithmetic of
mixed colours, interpolation of sound (numeric data without order); wireless (compiled
out); slot 2, cheats, file systems and formatting; the Java screens before a game
starts. Inside modelled components: overlapping sessions in `HostThreads`; addresses and data
of a DMA transfer; raw imports, manual save types, movie mode and
motion commands of the backup memory; the cache of BIOS blocks; movies, the
rewind buffer and the scan of the slots beside savestates; the coprocessor instructions but MCR and MRC, which the interpreter takes for undefined.

## 7. Plan

1. done: everything in section 2, with the proofs of section 5.
2. A proof for the clock, whose lists of bits are folded (`PortsRight`).
3. Backup memory across a crash inside `flush`, with raw imports.
4. A savestate loaded at any moment against the invariants of each device, beside `SaveStates`.
