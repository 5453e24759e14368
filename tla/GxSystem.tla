------------------------------- MODULE GxSystem --------------------------------
(***************************************************************************)
(* The geometry command FIFO (FIFO.cpp), the engine that empties it        *)
(* (gfx3d_execute3D), the swap of the display lists at VBlank, and one DMA *)
(* channel of the ARM9 that can feed it (DmaChannel).  They meet in three  *)
(* places: handleEvents triggers the channel whenever the FIFO is low,     *)
(* exec looks at the size itself, and the bus is frozen by the channel and *)
(* by a processor that writes to a full FIFO.                              *)
(*                                                                         *)
(* Time is abstracted: the engine's event, once enabled, may run at any    *)
(* later moment.  An entry of the FIFO, a command with one parameter or    *)
(* none, is one of Kind.  A word for the ports of single commands sends    *)
(* one entry; a word for the port of packed commands sends from none to    *)
(* PerWord, of any kinds: how it is unpacked is in GeometryCommands.       *)
(* Bounds: the processor stores and programs MaxWrites times, and nothing  *)
(* is sent that would fill the FIFO beyond Cap, where gxFIFO has room for  *)
(* 200000 entries and never refuses one.                                   *)
(***************************************************************************)
EXTENDS Integers, Sequences, FiniteSets, SequencesExt, DmaChannel

CONSTANTS Repeats,     \* values a game gives the repeat bit
          BurstKinds,  \* kinds of entry a transfer sends
          Half,        \* 127: the FIFO is low up to here
          Limit,       \* 254: the bus freezes above
          GxBatch,     \* 64: commands of one run of the engine
          Store,       \* entries the stores of one instruction can send
          PerWord,     \* 5: entries of a packed word, one for each of its four bytes and
                       \* for the byte beyond them that receive may read
          Cap, MaxWrites

ASSUME SizeAssumption ==
  /\ Half \in Nat /\ Limit \in Nat /\ Cap \in Nat /\ MaxWrites \in Nat
  /\ GxBatch \in Nat \ {0} /\ Store \in Nat \ {0} /\ PerWord \in Nat \ {0}
  /\ Half + Batch <= Limit /\ Half + PerWord * Batch <= Cap
  /\ Half + GxBatch <= Limit
ASSUME RepeatsAssumption == Repeats \subseteq BOOLEAN

Kind == {"stack", "swap", "other"}
ASSUME BurstAssumption == BurstKinds \subseteq Kind

VARIABLES
  fifo,                 \* gxFIFO
  stackOps,             \* matrix_stack_op_size
  fifoLow, fifoEmpty, sb,   \* of gxstat, as handleEvents left them
  gxEvent,              \* the engine's event is enabled
  swap,                 \* isSwapBuffers
  freeze0,              \* bit 0 of nds.freezeBus
  writes

channel == <<enable, irq, repeatMode, nextmode, wordcount, startmode, running, paused,
             triggered, dmaCheck, frozen, regIF, count, copied, clean, due>>
engine == <<fifo, stackOps, fifoLow, fifoEmpty, sb>>
systemVars == <<channel, engine, gxEvent, swap, freeze0, writes>>

IsMatrixStackCommand(k) == k = "stack"
StackOps(s) == Cardinality({i \in DOMAIN s : IsMatrixStackCommand(s[i])})

SystemTypeOK ==
  /\ TypeOK
  /\ fifo \in Seq(Kind) /\ Len(fifo) <= Cap
  /\ stackOps \in Nat
  /\ fifoLow \in BOOLEAN /\ fifoEmpty \in BOOLEAN /\ sb \in BOOLEAN
  /\ gxEvent \in BOOLEAN /\ swap \in BOOLEAN /\ freeze0 \in BOOLEAN
  /\ writes \in 0 .. MaxWrites

SystemInit ==
  /\ Init
  /\ fifo = <<>> /\ stackOps = 0
  /\ fifoLow = FALSE /\ fifoEmpty = TRUE /\ sb = FALSE
  /\ gxEvent = FALSE /\ swap = FALSE /\ freeze0 = FALSE /\ writes = 0

--------------------------------------------------------------------------------
(* The FIFO *)

HandleEventsEarly(lowest) ==   \* mutant: before the accounting of stack commands
  /\ fifoLow' = (Len(fifo') <= Half)
  /\ fifoEmpty' = (fifo' = <<>>)
  /\ sb' = (stackOps # 0)
  /\ IF lowest <= Half THEN TryTrigger("GXFifo") ELSE UNCHANGED channel
\* GXF_FIFO_handleEvents, after the last of a run of writes or receives.  The flags
\* show the last size; the channel was triggered if any size on the way was low.
HandleEvents(lowest) ==
  /\ fifoLow' = (Len(fifo') <= Half)
  /\ fifoEmpty' = (fifo' = <<>>)
  /\ sb' = (stackOps' # 0)
  /\ IF lowest <= Half THEN TryTrigger("GXFifo") ELSE UNCHANGED channel

\* GFX_FIFOsend of each of words, by the processor
Push(words) ==
  /\ fifo' = fifo \o words
  /\ stackOps' = stackOps + StackOps(words)
  /\ HandleEvents(Len(fifo) + 1)
  /\ gxEvent' = TRUE

PopMiscounted(n) ==   \* mutant: every command received counts as a stack command
  /\ fifo' = SubSeq(fifo, n + 1, Len(fifo))
  /\ stackOps' = stackOps - n
  /\ HandleEvents(Len(fifo) - n)
\* GFX_PIPErecv of n commands; asking an empty FIFO handles the events too
Pop(n) ==
  /\ fifo' = SubSeq(fifo, n + 1, Len(fifo))
  /\ stackOps' = stackOps - StackOps(SubSeq(fifo, 1, n))
  /\ HandleEvents(Len(fifo) - n)

--------------------------------------------------------------------------------
(* The processor: it runs while no bit of freezeBus is set *)

CpuRuns == ~frozen /\ ~freeze0
Stores == UNION {[1 .. n -> Kind] : n \in 1 .. Store}

\* a store to the ports of the single commands: a full FIFO freezes the bus
SendDirect(words) ==
  /\ CpuRuns /\ writes < MaxWrites /\ Len(fifo) + Len(words) <= Cap
  /\ writes' = writes + 1
  /\ freeze0' = (Len(fifo) + Len(words) - 1 > Limit)
  /\ Push(words)
  /\ UNCHANGED swap

\* a store to the port of packed commands looks at no limit
SendPacked(words) ==
  /\ CpuRuns /\ writes < MaxWrites /\ Len(fifo) + Len(words) <= Cap
  /\ writes' = writes + 1
  /\ Push(words)
  /\ UNCHANGED <<swap, freeze0>>

\* the game programs the channel, with a word count other than zero
ProgramDma ==
  /\ CpuRuns /\ writes < MaxWrites
  /\ writes' = writes + 1
  /\ \E en \in BOOLEAN, rep \in Repeats, mode \in Modes, n \in Word \ {0} :
       WriteControl(en, FALSE, rep, mode, n)
  /\ UNCHANGED <<engine, gxEvent, swap, freeze0>>

\* the idle branch of armInnerLoop
Unfreeze ==
  /\ freeze0 /\ Len(fifo) <= Limit
  /\ freeze0' = FALSE
  /\ UNCHANGED <<channel, engine, gxEvent, swap, writes>>

--------------------------------------------------------------------------------
(* The engine *)

Executed == IF Len(fifo) < GxBatch THEN Len(fifo) ELSE GxBatch

GxExecOnce ==   \* mutant: the first GFX_DELAY dropped
  /\ gxEvent
  /\ IF swap
     THEN gxEvent' = FALSE /\ UNCHANGED <<channel, engine, swap>>
     ELSE /\ Pop(Executed)
          /\ gxEvent' = FALSE
          /\ swap' = ("swap" \in ToSet(SubSeq(fifo, 1, Executed)))
  /\ UNCHANGED <<freeze0, writes>>
\* gfx3d_execute3D: every command executed enables the event again, and SWAP_BUFFERS
\* holds back the next run, but not the rest of this one
GxExec ==
  /\ gxEvent
  /\ IF swap
     THEN gxEvent' = FALSE /\ UNCHANGED <<channel, engine, swap>>
     ELSE /\ Pop(Executed)
          /\ gxEvent' = (Executed > 0)
          /\ swap' = ("swap" \in ToSet(SubSeq(fifo, 1, Executed)))
  /\ UNCHANGED <<freeze0, writes>>

VBlankNoDelay ==   \* mutant: the engine is not woken
  /\ swap
  /\ swap' = FALSE
  /\ UNCHANGED <<channel, engine, gxEvent, freeze0, writes>>
\* gfx3d_VBlankSignal: the lists are swapped and the engine goes on
VBlank ==
  /\ swap
  /\ swap' = FALSE
  /\ gxEvent' = TRUE
  /\ UNCHANGED <<channel, engine, freeze0, writes>>

--------------------------------------------------------------------------------
(* The channel *)

IsLowLate == Len(fifo) <= Limit   \* mutant: low as long as not full
IsLow == Len(fifo) <= Half

\* a burst of GXFifo mode, or an immediate transfer, that sends these entries.  The
\* channel does not trigger itself meanwhile: it is running.  Words that send nothing
\* handle no events.
BurstOf(entries) ==
  /\ fifo' = fifo \o entries
  /\ stackOps' = stackOps + StackOps(entries)
  /\ IF entries = <<>>
     THEN UNCHANGED <<fifoLow, fifoEmpty, sb, gxEvent>>
     ELSE /\ fifoLow' = (Len(fifo') <= Half) /\ fifoEmpty' = FALSE /\ sb' = (stackOps' # 0)
          /\ gxEvent' = TRUE
  /\ UNCHANGED <<swap, writes>>

\* GXF_Hardware::receive of each word: to the port of packed commands no limit applies
BurstPacked ==
  /\ Copy(IsLow, FALSE)
  /\ \E n \in 0 .. PerWord * Todo :
       /\ Len(fifo) + n <= Cap
       /\ \E entries \in [1 .. n -> BurstKinds] : BurstOf(entries)
  /\ UNCHANGED freeze0

\* each word one entry, for its port: these look at the limit before they send
BurstSingle ==
  /\ Copy(IsLow, FALSE)
  /\ Len(fifo) + Todo <= Cap
  /\ \E entries \in [1 .. Todo -> BurstKinds] : BurstOf(entries)
  /\ freeze0' = (freeze0 \/ Len(fifo') - 1 > Limit)

DmaExec ==
  \/ BurstPacked \/ BurstSingle
  \/ /\ \/ Stop
        \/ Wait(IsLow)
        \/ nextmode # "GXFifo" /\ Copy(IsLow, FALSE)   \* to memory
     /\ UNCHANGED <<engine, gxEvent, swap, freeze0, writes>>

SystemNext ==
  \/ \E words \in Stores : SendDirect(words) \/ SendPacked(words)
  \/ ProgramDma \/ Unfreeze
  \/ GxExec \/ VBlank
  \/ DmaExec

SystemSpec == SystemInit /\ [][SystemNext]_systemVars

\* The emulation loop runs due events; VBlanks go on coming.  The processor owes nothing.
\* While the bus is frozen the loop runs its idle branch whenever time passes, and time
\* passes between two runs of the engine, which cost at least a cycle.  On its way from
\* above Limit down to Half the FIFO rests between them for such a time, as a run takes
\* GxBatch entries and no more: a limit passed again and again is seen to be kept.
FairSystemSpec ==
  /\ SystemSpec
  /\ SF_systemVars(Unfreeze) /\ WF_systemVars(GxExec) /\ WF_systemVars(VBlank)
  /\ WF_channel(Exec(IsLow, FALSE))

--------------------------------------------------------------------------------
(* Properties *)

\* "we can't let gxfifo sequencer stall until the fifo is empty" (gfx3d_execute3D):
\* commands that wait have the engine's event, or a swap that will bring it back.
NoStall == fifo # <<>> /\ ~swap => gxEvent

\* A transfer paused for a full FIFO is not forgotten: once the FIFO is low, an event
\* of the channel is scheduled, whichever of the game's writes, the engine's receives
\* and the channel's own checks came between (exec, handleEvents, tryTrigger).
PausedIsWoken ==
  running /\ paused /\ enable /\ startmode = "GXFifo" /\ IsLow => dmaCheck

\* A game that waits for the stack-busy flag before it reads a matrix back is not
\* misled: the flag is on exactly while a push or pop waits in the FIFO.
StackBusy == sb = (\E i \in 1 .. Len(fifo) : fifo[i] = "stack")

\* The channel cannot freeze the bus against the engine it feeds: no burst of a transfer
\* that goes on sets the bit a processor waits for, though the ports of single commands
\* set it above the limit and a burst to the port of packed commands may itself pass the
\* limit.  Nor does the FIFO grow from burst to burst: each begins low, and leaves no
\* more than a low FIFO and its own words (exec, doPause, doCopy, receive).
BurstFits ==
  [][(running /\ startmode = "GXFifo" /\ startmode' = startmode /\ copied' > copied)
        => freeze0' = freeze0 /\ Len(fifo') <= Half + PerWord * Batch]_systemVars

\* A processor stopped at a full FIFO goes on.
FreezeLifts == freeze0 ~> ~freeze0

\* A GXFifo transfer once begun ends, through pauses, bursts and swaps, unless the
\* game writes the channel anew.
Unwritten == clean /\ nextmode = "GXFifo" /\ count # 0 /\ ~repeatMode
TransferEnds == (running /\ Unwritten) ~> (~running \/ ~Unwritten)

\* Every command sent is executed: the FIFO always empties again, unless a repeating
\* transfer keeps refilling it.
FifoDrains == (fifo # <<>>) ~> (fifo = <<>> \/ (repeatMode /\ running))

\* The flags and events around the FIFO are true to what waits in it (GXF_FIFO_handleEvents,
\* gfx3d_execute3D, DmaController::exec).
EngineTruthful == SystemTypeOK /\ NoStall /\ PausedIsWoken /\ StackBusy

\* Whoever waits for the engine goes on: the processor, the channel and the commands.
EngineServes == FreezeLifts /\ TransferEnds /\ FifoDrains
================================================================================
