------------------------------ MODULE DmaChannel -------------------------------
(***************************************************************************)
(* One DMA channel: class DmaController (MMU.h, MMU.cpp).  A processor     *)
(* writes the control register; the hardware scheduler calls exec() when   *)
(* the channel's event is due, both to begin a transfer and to end it; the *)
(* display, the card and the geometry FIFO offer start conditions through  *)
(* triggerDma.  All the data moves when a transfer begins; the end event   *)
(* only accounts for the time.                                             *)
(*                                                                         *)
(* Time is abstracted: a pending event may run at any later moment.  A     *)
(* channel of the ARM9 freezes the bus until its event runs, and a frozen  *)
(* bus stops both processors.  Data and addresses are left out.            *)
(***************************************************************************)
EXTENDS Integers

CONSTANTS Modes,   \* start modes in use
          Cpu,     \* whose channel it is: "arm9" or "arm7"
          Full,    \* 0x200000: what a word count of 0 stands for
          Low,     \* 0x10000: counts held by the lower half of the register
          Batch,   \* 112: words of one GXFifo burst
          Line,    \* 128: words of one MemDisplay burst
          Wrap     \* 2^32, the width of wordcount

ASSUME ModesAssumption == Modes # {} /\ Modes \subseteq
  {"Immediate", "VBlank", "HBlank", "HStart", "MemDisplay", "Card", "GXFifo"}
ASSUME CountAssumption ==
  /\ Full \in Nat \ {0} /\ Low \in Nat \ {0} /\ Batch \in Nat \ {0}
  /\ Line \in Nat \ {0} /\ Wrap \in Nat
  /\ Batch <= Full /\ Line <= Full /\ Full < Wrap

VARIABLES
  enable, irq, repeatMode, nextmode, \* the control register; nextmode is _startmode
  wordcount,
  startmode,                       \* the mode latched by exec
  running, paused, triggered,
  dmaCheck,                        \* an event is scheduled
  frozen,                          \* the channel's bit of nds.freezeBus
  regIF,                            \* the channel's interrupt request
  \* history
  count, copied,  \* the words asked for by the last write, the words moved since
  clean,          \* that write found no transfer in progress
  due             \* the start condition asked for has come since

control == <<enable, irq, repeatMode, nextmode>>
history == <<count, copied, clean, due>>
vars == <<control, wordcount, startmode, running, paused, triggered, dmaCheck, frozen,
          regIF, history>>

Triggerless == {"Immediate", "GXFifo"}   \* modes that need no trigger to begin
Word == 0 .. Full - 1             \* the 21 bits of the register
Moved == 0 .. Wrap                \* copied stops counting at Wrap

TypeOK ==
  /\ enable \in BOOLEAN /\ irq \in BOOLEAN /\ repeatMode \in BOOLEAN
  /\ nextmode \in Modes \cup {"Immediate"} /\ startmode \in Modes \cup {"Immediate"}
  /\ wordcount \in 0 .. Wrap - 1
  /\ running \in BOOLEAN /\ paused \in BOOLEAN /\ triggered \in BOOLEAN
  /\ dmaCheck \in BOOLEAN /\ frozen \in BOOLEAN /\ regIF \in BOOLEAN
  /\ count \in Word /\ copied \in Moved
  /\ clean \in BOOLEAN /\ due \in BOOLEAN

Init ==
  /\ enable = FALSE /\ irq = FALSE /\ repeatMode = FALSE
  /\ nextmode = "Immediate" /\ startmode = "Immediate" /\ wordcount = 0
  /\ running = FALSE /\ paused = FALSE /\ triggered = FALSE
  /\ dmaCheck = FALSE /\ frozen = FALSE /\ regIF = FALSE
  /\ count = 0 /\ copied = 0 /\ clean = TRUE /\ due = FALSE

--------------------------------------------------------------------------------
(* The processor *)

\* write32.  An enabled channel latched to a triggered mode is not scheduled again.
WriteControl(en, q, rep, mode, n) ==
  /\ ~frozen
  /\ enable' = en /\ irq' = q /\ repeatMode' = rep /\ nextmode' = mode /\ wordcount' = n
  /\ triggered' = (triggered /\ ~(en /\ ~enable))
  /\ dmaCheck' = (dmaCheck \/ startmode \in Triggerless \/ ~enable)
  /\ count' = n /\ copied' = 0 /\ clean' = ~running
  /\ due' = (due /\ enable /\ mode = nextmode)
  /\ UNCHANGED <<startmode, running, paused, frozen, regIF>>

\* read32 puts wordcount beside the control bits without a mask: once wordcount has
\* wrapped, its upper bits show up in them, bit 31 in the enable bit
ReadEnable == enable \/ wordcount >= Wrap \div 2

\* a 16-bit write reads the register, replaces one half and writes the whole back:
\* the upper half has the control bits and the upper bits of the count
WriteUpperHalfUnmasked(en, q, rep, mode, n) ==   \* mutant: no val&0x1FFFFF
  WriteControl(en, q, rep, mode, wordcount)
WriteUpperHalf(en, q, rep, mode, n) ==
  /\ n % Low = wordcount % Low
  /\ WriteControl(en, q, rep, mode, n)

\* the lower half has the rest of the count
WriteLowerHalf(q, rep, mode, n) ==
  /\ n \div Low = (wordcount % Full) \div Low
  /\ wordcount < Full => q = irq /\ rep = repeatMode /\ mode = nextmode
  /\ WriteControl(ReadEnable, q, rep, mode, n)

\* the game acknowledges the interrupt
AckIrq ==
  /\ ~frozen /\ regIF
  /\ regIF' = FALSE
  /\ UNCHANGED <<control, wordcount, startmode, running, paused, triggered, dmaCheck,
                 frozen, history>>

--------------------------------------------------------------------------------
(* The hardware *)

\* triggerDma(mode), seen by this channel
AcceptsIdle(mode) == startmode = mode /\ enable /\ ~running   \* mutant: paused forgotten
Accepts(mode) == startmode = mode /\ enable /\ ~(running /\ ~paused)
TryTrigger(mode) ==
  /\ triggered' = (triggered \/ Accepts(mode))
  /\ dmaCheck' = (dmaCheck \/ Accepts(mode))
  /\ due' = (due \/ (enable /\ mode = nextmode))
  /\ UNCHANGED <<control, wordcount, startmode, running, paused, frozen, regIF, count,
                 copied, clean>>

\* the three ways exec() may go
PausingNever == FALSE   \* mutant: the words left over are forgotten
PausingAlways == running /\ startmode = "GXFifo"   \* mutant: wordcount not looked at
Pausing == running /\ startmode = "GXFifo" /\ wordcount > 0
Stopping == running /\ ~Pausing
Starting(low) ==
  /\ ~Stopping /\ enable
  /\ \/ nextmode = "Immediate"
     \/ nextmode = "GXFifo" /\ low
     \/ triggered /\ ~Pausing

\* doStop
StopFrozen ==   \* mutant: the bus is not given back
  /\ dmaCheck /\ Stopping
  /\ dmaCheck' = FALSE
  /\ running' = FALSE
  /\ enable' = (enable /\ repeatMode)
  /\ regIF' = (regIF \/ irq)
  /\ UNCHANGED <<irq, repeatMode, nextmode, wordcount, startmode, paused, triggered,
                 frozen, history>>
StopEnabled ==   \* mutant: the channel stays enabled
  /\ dmaCheck /\ Stopping
  /\ dmaCheck' = FALSE /\ frozen' = FALSE
  /\ running' = FALSE
  /\ regIF' = (regIF \/ irq)
  /\ UNCHANGED <<control, wordcount, startmode, paused, triggered, history>>
Stop ==
  /\ dmaCheck /\ Stopping
  /\ dmaCheck' = FALSE /\ frozen' = FALSE
  /\ running' = FALSE
  /\ enable' = (enable /\ repeatMode)
  /\ regIF' = (regIF \/ irq)
  /\ UNCHANGED <<irq, repeatMode, nextmode, wordcount, startmode, paused, triggered,
                 history>>

WaitRunning(low) ==   \* mutant: doPause does not set paused
  /\ dmaCheck /\ ~Stopping /\ ~Starting(low)
  /\ dmaCheck' = FALSE /\ frozen' = FALSE
  /\ triggered' = (triggered /\ ~Pausing)
  /\ startmode' = IF enable THEN nextmode ELSE startmode
  /\ UNCHANGED <<control, wordcount, running, paused, regIF, history>>
\* nothing to begin yet; doPause if a burst has ended.  The mode is latched all the same.
Wait(low) ==
  /\ dmaCheck /\ ~Stopping /\ ~Starting(low)
  /\ dmaCheck' = FALSE /\ frozen' = FALSE
  /\ triggered' = (triggered /\ ~Pausing)
  /\ paused' = (paused \/ Pausing)
  /\ startmode' = IF enable THEN nextmode ELSE startmode
  /\ UNCHANGED <<control, wordcount, running, regIF, history>>

\* doCopy: how many words
Todo ==
  LET asked == IF wordcount = 0 THEN Full ELSE wordcount IN
  CASE nextmode = "MemDisplay" -> Line
    [] nextmode = "GXFifo" -> IF asked < Batch THEN asked ELSE Batch
    [] OTHER -> asked

\* a transfer, or the next burst of one, begins; lastLine: VCount is 191
Copy(low, lastLine) ==
  /\ dmaCheck /\ Starting(low)
  /\ startmode' = nextmode
  /\ triggered' = TRUE /\ running' = TRUE /\ paused' = FALSE
  /\ enable' = ~(nextmode = "MemDisplay" /\ lastLine)
  /\ dmaCheck' = TRUE
  /\ frozen' = (Cpu = "arm9")
  /\ wordcount' = IF repeatMode THEN wordcount ELSE (wordcount - Todo) % Wrap
  /\ copied' = IF copied + Todo > Wrap THEN Wrap ELSE copied + Todo
  /\ due' = FALSE
  /\ UNCHANGED <<irq, repeatMode, nextmode, regIF, count, clean>>

Exec(low, lastLine) == Stop \/ Wait(low) \/ Copy(low, lastLine)

Processor ==
  \/ \E q, rep \in BOOLEAN, mode \in Modes, n \in Word :
       \/ \E en \in BOOLEAN : \/ WriteControl(en, q, rep, mode, n)
                            \/ WriteUpperHalf(en, q, rep, mode, n)
       \/ WriteLowerHalf(q, rep, mode, n)
  \/ AckIrq
Hardware == \E low, lastLine \in BOOLEAN : Exec(low, lastLine)

\* a mode's condition may come at any time; exec itself looks for the conditions of Triggerless
Next == Processor \/ Hardware \/ \E mode \in Modes \ {"Immediate"} : TryTrigger(mode)

Spec == Init /\ [][Next]_vars

\* the emulation loop goes on running due events
FairSpec == Spec /\ WF_vars(Hardware)

--------------------------------------------------------------------------------
(* Properties *)

\* Whoever froze the bus has an event that will give it back: neither processor can
\* run to ask for one (freezeBus in exec and doCopy).
FreezeEnds == frozen => dmaCheck

\* A transfer in progress has its end event, through every write, trigger and burst.
\* tryTrigger refuses a channel that runs, so without the event it would run for ever.
EndEventPending == running /\ ~paused => dmaCheck

\* A transfer programmed while none was in progress ends, and raises its interrupt,
\* only when every word asked for has moved, however many bursts and triggers it took
\* (doStop; the count 0 is another matter: in GXFifo mode it wraps after a burst).
StopMeansDone ==
  [][(/\ running /\ ~running' /\ clean
      /\ count # 0 /\ ~repeatMode /\ startmode # "MemDisplay") => copied = count]_vars

\* A frozen bus comes back, unless a repeating GXFifo transfer, whose word count
\* never goes down, finds the FIFO low for ever.
BusReturns == (frozen /\ ~(nextmode = "GXFifo" /\ repeatMode)) ~> ~frozen

\* A game that starts an immediate transfer and polls the enable bit sees it fall,
\* unless it writes something else (read32, doStop).
ImmediateScheduled == enable /\ dmaCheck /\ nextmode = "Immediate" /\ clean /\
                      count # 0 /\ ~repeatMode
Rewritten == nextmode # "Immediate" \/ ~clean \/ count = 0 \/ repeatMode
PollEnds == ImmediateScheduled ~> (~ReadEnable \/ Rewritten)

\* Whatever is frozen or running has an event ahead that ends it (exec, doCopy).
EndsAhead == TypeOK /\ FreezeEnds /\ EndEventPending

\* Whoever waits for the channel goes on: the bus comes back, and a polled bit falls.
ChannelFrees == BusReturns /\ PollEnds

\* "make sure we don't get any old triggers" (write32): a channel that waits for a
\* start condition does not begin before that condition has come.
NoOldTrigger == [][(~running /\ running' /\ nextmode \notin Triggerless) => due]_vars
================================================================================
