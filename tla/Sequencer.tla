------------------------------ MODULE Sequencer ------------------------------
(***************************************************************************)
(* NDS_exec and the Sequencer: how the two processors and the hardware     *)
(* share the clock nds_timer, and the hardware timers that are computed    *)
(* from it instead of being counted.                                       *)
(*                                                                         *)
(* Times are counted from nds_timer_base, the clock at the last            *)
(* execHardware, as armInnerLoop counts them: now is nds_timer, arm[p] the *)
(* time of a processor, next is s32next, and a due time may be negative    *)
(* when it is late.  A burst takes effect at its start: nds_timer stands   *)
(* still while translated code runs.                                       *)
(***************************************************************************)
EXTENDS Integers

CONSTANTS Bursts,     \* how long a burst may take, in cycles of the processor
          MaxBurst,   \* the longest of them
          MaxWork,    \* kMaxWork
          IrqWait,    \* kIrqWait
          HStart, HStartIRQ, HDraw, HBlank,
                      \* the stages of a scanline, as execHardware adds them
          Lines,      \* scanlines of a frame
          Owner,      \* the processor whose timers are looked at
          Counts,     \* 65536, of a timer
          Reloads,    \* reload values of timer 0
          Unit,       \* cycles of one count of timer 0
          Copies,     \* durations of a DMA transfer
          DivTime     \* time of a division

Stages == {"HStart", "HStartIRQ", "HDraw", "HBlank"}
Lengths ==
  [s \in Stages |-> CASE s = "HStart" -> HStart [] s = "HStartIRQ" -> HStartIRQ
                      [] s = "HDraw" -> HDraw [] s = "HBlank" -> HBlank]

ASSUME TimesAssumption ==
  {MaxBurst, MaxWork, IrqWait, Unit, DivTime, Counts, Lines} \subseteq Nat \ {0}
ASSUME BurstsAssumption == Bursts \subseteq 1 .. MaxBurst
ASSUME OwnerAssumption == Owner \in {"arm9", "arm7"}
ASSUME StagesAssumption == {HStart, HStartIRQ, HDraw, HBlank} \subseteq Nat \ {0}
ASSUME ReloadsAssumption == Reloads \subseteq 0 .. Counts - 1
ASSUME CopiesAssumption == Copies \subseteq Nat

Procs == {"arm9", "arm7"}
min(a, b) == IF a < b THEN a ELSE b

VARIABLES
  phase,                            \* the place in NDS_exec
  now, arm, next, both,             \* both: armInnerLoop<true,true>
  timer,                            \* its local variable: the earlier processor
  reschedule, waitIRQ, freezeBus,
  VCount, param, timestamp,         \* dispcnt
  divRunning, divCycles,
  dmaRunning, dmaCheck, nextEvent,  \* a channel of the ARM9
  timerON, timerReload, timerCycle, \* timer 0
  chainON, chain                    \* timer 1, which counts its overflows

timeVars == <<now, arm, next, both, timer>>
dispVars == <<VCount, param, timestamp>>
divVars == <<divRunning, divCycles>>
dmaVars == <<dmaRunning, dmaCheck, nextEvent, freezeBus>>
timerVars == <<timerON, timerReload, timerCycle, chainON, chain>>
vars == <<phase, timeVars, reschedule, waitIRQ, dispVars, divVars, dmaVars, timerVars>>

TypeOK ==
  /\ phase \in {"frame", "hardware", "schedule", "loop", "arm9", "arm7"}
  /\ {now, next, timer, timestamp, divCycles, nextEvent, timerCycle} \subseteq Int
  /\ arm \in [Procs -> Int]
  /\ {both, reschedule, freezeBus, divRunning, dmaRunning, dmaCheck, timerON, chainON}
       \subseteq BOOLEAN
  /\ waitIRQ \in [Procs -> BOOLEAN]
  /\ VCount \in 0 .. Lines - 1 /\ param \in Stages
  /\ timerReload \in Reloads
  /\ chain \in 0 .. Counts - 1

\* initSchedule
Init ==
  /\ phase = "frame"
  /\ now = 0 /\ arm = [p \in Procs |-> 0] /\ next = 0 /\ both = TRUE /\ timer = 0
  /\ reschedule = FALSE /\ waitIRQ = [p \in Procs |-> FALSE]
  /\ VCount = Lines - 1 /\ param = "HStart" /\ timestamp = 0
  /\ divRunning = FALSE /\ divCycles = 0
  /\ dmaRunning = FALSE /\ dmaCheck = FALSE /\ nextEvent = 0 /\ freezeBus = FALSE
  /\ timerON = FALSE /\ timerReload \in Reloads /\ timerCycle = 0
  /\ chainON = FALSE /\ chain = 0

-----------------------------------------------------------------------------
(* Timers *)

Period == (Counts - timerReload) * Unit

\* how often timer 0 has overflowed, by the catch-up loop of its exec
Overflows ==
  IF timerCycle > now THEN 0 ELSE (now - timerCycle) \div Period + 1

\* mutant: the chained timer is wider than its register
TimerExecWide ==
  IF timerON /\ timerCycle <= now
  THEN /\ timerCycle' = timerCycle + Overflows * Period
       /\ chain' = IF chainON THEN chain + 1 ELSE chain
  ELSE UNCHANGED <<timerCycle, chain>>

\* however many overflows are due, a chained timer counts one
TimerExec ==
  IF timerON /\ timerCycle <= now
  THEN /\ timerCycle' = timerCycle + Overflows * Period
       /\ chain' = IF chainON THEN (chain + 1) % Counts ELSE chain
  ELSE UNCHANGED <<timerCycle, chain>>


-----------------------------------------------------------------------------
(* execHardware *)

After(stage) ==
  CASE stage = "HStart" -> "HStartIRQ"
    [] stage = "HStartIRQ" -> "HDraw"
    [] stage = "HDraw" -> "HBlank"
    [] stage = "HBlank" -> "HStart"

DispDue == now >= timestamp

\* one stage, however late; a new scanline, and at the last one the end of the frame
VblankEnds == DispDue /\ param = "HStart" /\ (VCount + 1) % Lines = Lines - 1
DispExec ==
  /\ param' = IF DispDue THEN After(param) ELSE param
  /\ timestamp' = IF DispDue THEN timestamp + Lengths[param] ELSE timestamp
  /\ VCount' = IF DispDue /\ param = "HStart" THEN (VCount + 1) % Lines ELSE VCount

DivExec ==
  /\ divRunning' = (divRunning /\ now < divCycles)
  /\ UNCHANGED divCycles

\* DmaController::exec: the end of a transfer, or doCopy, which freezes the bus
DmaExec(check, due, length) ==
  IF check /\ now >= due
  THEN /\ dmaRunning' = ~dmaRunning
       /\ dmaCheck' = ~dmaRunning
       /\ freezeBus' = ~dmaRunning
       /\ nextEvent' = IF dmaRunning THEN due ELSE now + length
  ELSE dmaCheck' = check /\ nextEvent' = due /\ UNCHANGED <<dmaRunning, freezeBus>>

\* a stage of the scanline may trigger the channel, before its event is looked at
ExecHardware ==
  /\ phase = "hardware"
  /\ DispExec /\ DivExec /\ TimerExec
  /\ \E length \in Copies, triggers \in BOOLEAN :
       /\ triggers => DispDue /\ ~dmaRunning
       /\ DmaExec(dmaCheck \/ triggers, IF triggers THEN now ELSE nextEvent, length)
  /\ reschedule' = TRUE
  /\ phase' = IF VblankEnds THEN "frame" ELSE "schedule"
  /\ UNCHANGED <<timeVars, waitIRQ, timerON, timerReload, chainON>>

BeginFrame ==
  /\ phase = "frame"
  /\ phase' = "hardware"
  /\ UNCHANGED <<timeVars, reschedule, waitIRQ, dispVars, divVars, dmaVars, timerVars>>

Sooner(time, enabled, due) == IF enabled /\ due < time THEN due ELSE time

\* mutant: timers are not looked at
FindNextTimerless ==
  Sooner(Sooner(timestamp, divRunning, divCycles), dmaCheck, nextEvent)

FindNext ==
  Sooner(Sooner(Sooner(timestamp, divRunning, divCycles), dmaCheck, nextEvent),
         timerON, timerCycle)

\* execHardware_interrupts may wake a processor; the next unit of work is found
Schedule ==
  /\ phase = "schedule"
  /\ \E woken \in SUBSET Procs :
       waitIRQ' = [p \in Procs |-> waitIRQ[p] /\ p \notin woken]
  /\ next' = min(FindNext, MaxWork)
  /\ reschedule' = FALSE
  /\ both' = TRUE /\ timer' = min(arm["arm9"], arm["arm7"])
  /\ phase' = "loop"
  /\ UNCHANGED <<now, arm, dispVars, divVars, dmaVars, timerVars>>

-----------------------------------------------------------------------------
(* armInnerLoop *)

GoesOn == timer < next /\ ~reschedule

Iterate ==
  /\ phase = "loop" /\ GoesOn
  /\ phase' = "arm9"
  /\ UNCHANGED <<timeVars, reschedule, waitIRQ, dispVars, divVars, dmaVars, timerVars>>

\* a processor that waits is brought back to the clock
Roll(p) == IF waitIRQ[p] THEN 0 ELSE arm[p] - now

\* back in NDS_exec: the base moves to the clock
LoopEnd ==
  /\ phase = "loop" /\ ~GoesOn
  /\ phase' = "hardware"
  /\ arm' = [p \in Procs |-> Roll(p)]
  /\ now' = 0 /\ next' = 0 /\ timer' = 0 /\ both' = TRUE
  /\ timestamp' = timestamp - now
  /\ divCycles' = IF divRunning THEN divCycles - now ELSE 0
  /\ nextEvent' = IF dmaCheck THEN nextEvent - now ELSE 0
  /\ timerCycle' = IF timerON THEN timerCycle - now ELSE 0
  /\ UNCHANGED <<reschedule, waitIRQ, VCount, param, divRunning, dmaRunning, dmaCheck,
                 freezeBus, timerON, timerReload, chainON, chain>>

\* mutant: both processors run in every iteration
TurnAlways(p) == TRUE
Turn(p) == arm[p] <= timer \/ ~both
Runs(p) == Turn(p) /\ ~waitIRQ[p] /\ ~freezeBus

\* the end of an iteration, with the processors at a
EndIteration(a) ==
  /\ timer' = IF both THEN min(a["arm9"], a["arm7"]) ELSE a["arm9"]
  /\ now' = timer'
  /\ phase' = "loop"

\* the ARM9's part is over; without the ARM7 so is the iteration
Advance9(t) ==
  /\ arm' = [arm EXCEPT !["arm9"] = t]
  /\ IF both THEN phase' = "arm7" /\ UNCHANGED <<now, timer>>
     ELSE EndIteration(arm')
  /\ UNCHANGED <<next, both>>

Advance7(t) ==
  /\ arm' = [arm EXCEPT !["arm7"] = t]
  /\ EndIteration(arm')
  /\ UNCHANGED <<next, both>>

Advance(p, t) == IF p = "arm9" THEN Advance9(t) ELSE Advance7(t)

Pass(p) ==
  /\ phase = p /\ ~Turn(p)
  /\ Advance(p, arm[p])
  /\ UNCHANGED <<reschedule, waitIRQ, dispVars, divVars, dmaVars, timerVars>>

\* a processor that waits, or has no bus, is moved on to the next event
Waited(p) == min(next, arm[p] + IrqWait)

\* an ARM7 that waits until the event leaves the rest of the loop to the ARM9
Leaves(p) == p = "arm7" /\ Waited(p) = next

Idle(p) ==
  /\ phase = p /\ Turn(p) /\ ~Runs(p) /\ ~Leaves(p)
  /\ Advance(p, Waited(p))
  /\ UNCHANGED <<reschedule, waitIRQ, dispVars, divVars, dmaVars, timerVars>>

\* mutant: the clock is left where it was
LeaveStale ==
  /\ phase = "arm7" /\ Turn("arm7") /\ ~Runs("arm7") /\ Leaves("arm7")
  /\ arm' = [arm EXCEPT !["arm7"] = next]
  /\ both' = FALSE
  /\ timer' = arm["arm9"]
  /\ phase' = "loop"
  /\ UNCHANGED <<now, next, reschedule, waitIRQ, dispVars, divVars, dmaVars, timerVars>>

Leave ==
  /\ phase = "arm7" /\ Turn("arm7") /\ ~Runs("arm7") /\ Leaves("arm7")
  /\ arm' = [arm EXCEPT !["arm7"] = next]
  /\ both' = FALSE
  /\ now' = arm["arm9"] /\ timer' = arm["arm9"]
  /\ phase' = "loop"
  /\ UNCHANGED <<next, reschedule, waitIRQ, dispVars, divVars, dmaVars, timerVars>>

-----------------------------------------------------------------------------
(* A burst: what the game does in it, and how long it takes *)

Run(p) ==
  /\ phase = p /\ Runs(p)
  /\ \E n \in Bursts : Advance(p, arm[p] + (IF p = "arm7" THEN 2 * n ELSE n))

Compute(p) ==
  /\ Run(p)
  /\ UNCHANGED <<reschedule, waitIRQ, dispVars, divVars, dmaVars, timerVars>>

\* a write of anything that reschedules
Disturb(p) ==
  /\ Run(p)
  /\ reschedule' = TRUE
  /\ UNCHANGED <<waitIRQ, dispVars, divVars, dmaVars, timerVars>>

Halt(p) ==
  /\ Run(p)
  /\ waitIRQ' = [waitIRQ EXCEPT ![p] = TRUE]
  /\ UNCHANGED <<reschedule, dispVars, divVars, dmaVars, timerVars>>

\* execdiv, and execsqrt like it
StartDiv ==
  /\ Run("arm9")
  /\ divRunning' = TRUE /\ divCycles' = now + DivTime
  /\ reschedule' = TRUE
  /\ UNCHANGED <<waitIRQ, dispVars, dmaVars, timerVars>>

\* an immediate transfer: DmaController::doSchedule
StartDma ==
  /\ Run("arm9") /\ ~dmaRunning
  /\ dmaCheck' = TRUE /\ nextEvent' = now
  /\ reschedule' = TRUE
  /\ UNCHANGED <<waitIRQ, dispVars, divVars, dmaRunning, freezeBus, timerVars>>

\* write_timer of timer 0, with its reload value in the same word
WriteTimer(on, reload) ==
  /\ Run(Owner)
  /\ timerON' = on /\ timerReload' = reload
  /\ timerCycle' = IF on THEN now + (Counts - reload) * Unit ELSE 0
  /\ reschedule' = TRUE
  /\ UNCHANGED <<waitIRQ, dispVars, divVars, dmaVars, chainON, chain>>

\* write_timer of timer 1, with a reload value of 0
WriteChain(on) ==
  /\ Run(Owner)
  /\ chainON' = on
  /\ chain' = IF on THEN 0 ELSE chain
  /\ reschedule' = TRUE
  /\ UNCHANGED <<waitIRQ, dispVars, divVars, dmaVars, timerON, timerReload, timerCycle>>

-----------------------------------------------------------------------------
Guest ==
  \/ \E p \in Procs : Compute(p) \/ Disturb(p) \/ Halt(p)
  \/ StartDiv \/ StartDma
  \/ \E on \in BOOLEAN : WriteChain(on) \/ \E reload \in Reloads : WriteTimer(on, reload)
Loop == Iterate \/ LoopEnd \/ Leave \/ \E p \in Procs : Pass(p) \/ Idle(p)
Next == BeginFrame \/ ExecHardware \/ Schedule \/ Loop \/ Guest

Spec == Init /\ [][Next]_vars

\* one thread runs all of it
FairSpec == Spec /\ WF_vars(Next)

-----------------------------------------------------------------------------
(* Properties *)

\* "assert(diff>=0)" (read_timer): while a processor runs, no overflow of a running
\* timer is overdue, whatever was rescheduled, frozen or slept through before.
OverflowAhead == phase = Owner /\ Runs(Owner) /\ timerON => timerCycle >= now

\* An event is served less than a burst of the ARM9 late: the loop stops at s32next,
\* and of two processors the one that is behind holds the clock back.  Only a timer
\* that the ARM7 has started while the ARM9 waits may be late by a burst of the ARM7,
\* which is twice as long: rescheduling ends the loop, but not the burst.
LatestTimer == IF Owner = "arm7" THEN 2 * MaxBurst ELSE MaxBurst
EventsOnTime ==
  phase = "hardware" =>
    /\ timerON => timerCycle > -LatestTimer
    /\ divRunning => divCycles > -MaxBurst
    /\ dmaCheck => nextEvent >= -MaxBurst

\* No overflow of a timer is lost to a chained one, or to its interrupt, as long as
\* its period is longer than a burst ("yikes!!!!! please report!").
NoLostOverflow == phase = "hardware" /\ timerON /\ Period > MaxBurst => Overflows <= 1

\* Whether it has run, waited or had no bus, a processor is ahead of the clock by less
\* than a burst when the hardware is looked at; the ARM9 is never behind it, the ARM7,
\* and so the clock when it goes back for it, by less than a burst of the ARM9.
SkewBounded ==
  phase = "hardware" =>
    arm["arm9"] \in 0 .. MaxBurst - 1 /\ arm["arm7"] \in 1 - MaxBurst .. 2 * MaxBurst - 1

\* Every frame ends: the clock goes on, whatever reschedules, waits or freezes.
FrameEnds == []<>(phase = "frame")

\* The clock is kept: processors near it, events in time, overflows counted (NDS_exec).
ClockKept == TypeOK /\ OverflowAhead /\ EventsOnTime /\ NoLostOverflow /\ SkewBounded
=============================================================================
