--------------------------- MODULE SequencerProofs ---------------------------
(***************************************************************************)
(* Proofs about Sequencer, for all bursts, waits, stages, timers and       *)
(* games: types, how far the processors are from the clock, and how late   *)
(* events are served.                                                      *)
(***************************************************************************)
EXTENDS Sequencer, TLAPS

-----------------------------------------------------------------------------
(* Types *)

\* A remainder is below the modulus.
LEMMA ModRange ==
  ASSUME NEW n \in Int, NEW m \in Nat \ {0}
  PROVE  n % m \in 0 .. m - 1
OBVIOUS

\* A period is at least one cycle, for every reload value.
LEMMA PeriodOf ==
  ASSUME NEW reload \in Reloads
  PROVE  (Counts - reload) * Unit \in Nat \ {0}
<1> DEFINE n == Counts - reload
<1>1. n \in Nat \ {0}
  BY TimesAssumption, ReloadsAssumption
<1>2. Unit \in Nat \ {0}
  BY TimesAssumption
<1>3. \A a, b \in Nat \ {0} : a * b \in Nat \ {0}
  OBVIOUS
<1>4. n * Unit \in Nat \ {0}
  <2> HIDE DEF n
  <2> QED
    BY <1>1, <1>2, <1>3
<1> QED
  BY <1>4

\* So is the period of the timer.
LEMMA PeriodPositive ==
  ASSUME TypeOK
  PROVE  Period \in Nat \ {0}
BY PeriodOf DEF TypeOK, Period
\* The catch-up loop of a timer ends behind the clock.
LEMMA CatchUp ==
  ASSUME TypeOK, timerCycle <= now
  PROVE  /\ Overflows \in Nat
         /\ timerCycle + Overflows * Period \in Int
         /\ timerCycle + Overflows * Period > now
<1> DEFINE late == now - timerCycle
<1>1. Period \in Nat \ {0}
  BY PeriodPositive
<1>2. late \in Nat
  BY DEF TypeOK
<1>3. \A d \in Nat, q \in Nat \ {0} : d \div q \in Nat /\ (d \div q + 1) * q > d
  OBVIOUS
<1>4. late \div Period \in Nat /\ (late \div Period + 1) * Period > late
  <2> HIDE DEF late
  <2> QED
    BY <1>1, <1>2, <1>3
<1>5. Overflows = late \div Period + 1
  BY DEF Overflows, TypeOK
<1> DEFINE step == (late \div Period + 1) * Period
<1>6. step \in Int
  BY <1>1, <1>4
<1> QED
  BY <1>4, <1>5, <1>6 DEF TypeOK

\* The clocks of the hardware keep their types.
LEMMA HardwareTyped ==
  ASSUME TypeOK, ExecHardware
  PROVE  TypeOK'
<1> USE DEF TypeOK
<1>1. /\ VCount' \in 0 .. Lines - 1 /\ param' \in Stages
      /\ timestamp' \in Int
  <2>1. (VCount + 1) % Lines \in 0 .. Lines - 1
    <3>1. VCount + 1 \in Int /\ Lines \in Nat \ {0}
      BY TimesAssumption
    <3> QED
      BY <3>1, ModRange
  <2>2. After(param) \in Stages /\ Lengths[param] \in Int
    BY StagesAssumption DEF After, Stages, Lengths
  <2> QED
    BY <2>1, <2>2 DEF ExecHardware, DispExec
<1>2. timerCycle' \in Int /\ chain' \in 0 .. Counts - 1
  <2>1. (chain + 1) % Counts \in 0 .. Counts - 1
    <3>1. chain + 1 \in Int /\ Counts \in Nat \ {0}
      BY TimesAssumption
    <3> QED
      BY <3>1, ModRange
  <2>2. CASE timerON /\ timerCycle <= now
    <3>1. timerCycle' \in Int
      BY <2>2, CatchUp DEF ExecHardware, TimerExec
    <3> QED
      BY <2>1, <2>2, <3>1 DEF ExecHardware, TimerExec
  <2>3. CASE ~(timerON /\ timerCycle <= now)
    BY <2>3 DEF ExecHardware, TimerExec
  <2> QED
    BY <2>2, <2>3
<1>3. divRunning' \in BOOLEAN /\ divCycles' \in Int
  BY DEF ExecHardware, DivExec
<1>4. /\ {dmaRunning, dmaCheck, freezeBus}' \subseteq BOOLEAN
      /\ nextEvent' \in Int
  <2>1. PICK length \in Copies, triggers \in BOOLEAN :
          DmaExec(dmaCheck \/ triggers, IF triggers THEN now ELSE nextEvent, length)
    BY DEF ExecHardware
  <2>2. length \in Nat
    BY CopiesAssumption
  <2>3. nextEvent' \in Int
    BY <2>1, <2>2 DEF DmaExec
  <2>4. {dmaRunning, dmaCheck, freezeBus}' \subseteq BOOLEAN
    BY <2>1 DEF DmaExec
  <2> QED
    BY <2>3, <2>4
<1>5. phase' \in {"frame", "schedule"} /\ reschedule' = TRUE
  BY DEF ExecHardware
<1>6. UNCHANGED <<timeVars, waitIRQ, timerON, timerReload, chainON>>
  BY DEF ExecHardware
<1> QED
  BY <1>1, <1>2, <1>3, <1>4, <1>5, <1>6 DEF timeVars

\* So do the variables of the loop when a processor is moved on.
LEMMA AdvanceTyped ==
  ASSUME TypeOK, NEW p \in Procs, NEW t \in Int, Advance(p, t)
  PROVE  /\ phase' \in {"loop", "arm7"}
         /\ {now, next, timer}' \subseteq Int
         /\ arm' \in [Procs -> Int]
         /\ both' \in BOOLEAN
<1> USE DEF TypeOK, Procs
<1>1. arm' \in [Procs -> Int] /\ next' = next /\ both' = both
  BY DEF Advance, Advance9, Advance7
<1>2. arm'["arm9"] \in Int /\ min(arm'["arm9"], arm'["arm7"]) \in Int
  BY <1>1 DEF min
<1>3. EndIteration(arm') => timer' \in Int /\ now' \in Int /\ phase' = "loop"
  BY <1>2 DEF EndIteration
<1>4. EndIteration(arm') \/ (phase' = "arm7" /\ UNCHANGED <<now, timer>>)
  BY DEF Advance, Advance9, Advance7
<1> QED
  BY <1>1, <1>3, <1>4

\* A burst moves its processor on.
LEMMA RunAdvances ==
  ASSUME TypeOK, NEW p \in Procs, Run(p)
  PROVE  \E t \in Int : Advance(p, t) /\ t > arm[p]
                        /\ t <= arm[p] + (IF p = "arm7" THEN 2 ELSE 1) * MaxBurst
<1>1. PICK n \in Bursts : Advance(p, arm[p] + (IF p = "arm7" THEN 2 * n ELSE n))
  BY DEF Run
<1>2. n \in 1 .. MaxBurst /\ MaxBurst \in Nat /\ arm[p] \in Int
  BY BurstsAssumption, TimesAssumption DEF TypeOK
<1> DEFINE t == arm[p] + (IF p = "arm7" THEN 2 * n ELSE n)
<1>3. t \in Int /\ t > arm[p] /\ t <= arm[p] + (IF p = "arm7" THEN 2 ELSE 1) * MaxBurst
  BY <1>2
<1> QED
  BY <1>1, <1>3

\* What the game does in a burst keeps the types.
LEMMA GuestTyped ==
  ASSUME TypeOK, Guest
  PROVE  TypeOK'
<1> USE DEF TypeOK
<1>1. ASSUME NEW p \in Procs, Run(p)
      PROVE  /\ phase' \in {"loop", "arm7"}
             /\ {now, next, timer}' \subseteq Int
             /\ arm' \in [Procs -> Int]
             /\ both' \in BOOLEAN
  BY <1>1, RunAdvances, AdvanceTyped
<1>2. ASSUME NEW p \in Procs, Compute(p) \/ Disturb(p) \/ Halt(p)
      PROVE  TypeOK'
  <2>1. Run(p)
    BY <1>2 DEF Compute, Disturb, Halt
  <2>2. UNCHANGED <<dispVars, divVars, dmaVars, timerVars>>
    BY <1>2 DEF Compute, Disturb, Halt
  <2>3. reschedule' \in BOOLEAN /\ waitIRQ' \in [Procs -> BOOLEAN]
    BY <1>2 DEF Compute, Disturb, Halt
  <2> QED
    BY <1>1, <2>1, <2>2, <2>3 DEF dispVars, divVars, dmaVars, timerVars
<1>3. CASE StartDiv
  <2>1. Run("arm9") /\ "arm9" \in Procs
    BY <1>3 DEF StartDiv, Procs
  <2>2. divRunning' = TRUE /\ divCycles' \in Int /\ reschedule' = TRUE
    BY <1>3, TimesAssumption DEF StartDiv
  <2> QED
    BY <1>1, <1>3, <2>1, <2>2 DEF StartDiv, dispVars, dmaVars, timerVars
<1>4. CASE StartDma
  <2>1. Run("arm9") /\ "arm9" \in Procs
    BY <1>4 DEF StartDma, Procs
  <2>2. dmaCheck' = TRUE /\ nextEvent' \in Int /\ reschedule' = TRUE
    BY <1>4 DEF StartDma
  <2> QED
    BY <1>1, <1>4, <2>1, <2>2 DEF StartDma, dispVars, divVars, timerVars
<1>5. ASSUME NEW on \in BOOLEAN, WriteChain(on)
      PROVE  TypeOK'
  <2>1. Run(Owner) /\ Owner \in Procs
    BY <1>5, OwnerAssumption DEF WriteChain, Procs
  <2>2. chainON' \in BOOLEAN /\ chain' \in 0 .. Counts - 1 /\ reschedule' = TRUE
    BY <1>5, TimesAssumption DEF WriteChain
  <2> QED
    BY <1>1, <1>5, <2>1, <2>2 DEF WriteChain, dispVars, divVars, dmaVars
<1>6. ASSUME NEW on \in BOOLEAN, NEW reload \in Reloads, WriteTimer(on, reload)
      PROVE  TypeOK'
  <2>1. Run(Owner) /\ Owner \in Procs
    BY <1>6, OwnerAssumption DEF WriteTimer, Procs
  <2>2. (Counts - reload) * Unit \in Int
    BY ReloadsAssumption, TimesAssumption
  <2>3. /\ timerON' \in BOOLEAN /\ timerReload' \in Reloads /\ timerCycle' \in Int
        /\ reschedule' = TRUE
    BY <1>6, <2>2 DEF WriteTimer
  <2> QED
    BY <1>1, <1>6, <2>1, <2>3 DEF WriteTimer, dispVars, divVars, dmaVars
<1> QED
  BY <1>2, <1>3, <1>4, <1>5, <1>6 DEF Guest

\* And so does the inner loop.
LEMMA LoopTyped ==
  ASSUME TypeOK, Loop
  PROVE  TypeOK'
<1> USE DEF TypeOK
<1>1. CASE Iterate
  BY <1>1 DEF Iterate, timeVars, dispVars, divVars, dmaVars, timerVars
<1>2. CASE LoopEnd
  <2>1. arm' \in [Procs -> Int]
    BY <1>2 DEF LoopEnd, Roll
  <2>2. /\ timestamp' \in Int /\ divCycles' \in Int
        /\ nextEvent' \in Int /\ timerCycle' \in Int
    BY <1>2 DEF LoopEnd
  <2> QED
    BY <1>2, <2>1, <2>2 DEF LoopEnd
<1>3. CASE Leave
  <2>1. arm' \in [Procs -> Int] /\ now' \in Int /\ timer' \in Int
    BY <1>3 DEF Leave, Procs
  <2> QED
    BY <1>3, <2>1 DEF Leave, dispVars, divVars, dmaVars, timerVars
<1>4. ASSUME NEW p \in Procs, Pass(p) \/ Idle(p)
      PROVE  TypeOK'
  <2>1. \E t \in Int : Advance(p, t)
    <3>1. arm[p] \in Int /\ Waited(p) \in Int
      BY TimesAssumption DEF Waited, min
    <3> QED
      BY <1>4, <3>1 DEF Pass, Idle
  <2>2. UNCHANGED <<reschedule, waitIRQ, dispVars, divVars, dmaVars, timerVars>>
    BY <1>4 DEF Pass, Idle
  <2> QED
    BY <2>1, <2>2, AdvanceTyped DEF dispVars, divVars, dmaVars, timerVars
<1> QED
  BY <1>1, <1>2, <1>3, <1>4 DEF Loop

\* The types are kept for all bursts, stages, timers and games.
THEOREM TypeCorrect == Spec => []TypeOK
<1>1. Init => TypeOK
  <2> SUFFICES ASSUME Init
               PROVE  TypeOK
    OBVIOUS
  <2>1. Lines - 1 \in 0 .. Lines - 1 /\ 0 \in 0 .. Counts - 1
    BY TimesAssumption
  <2>2. arm \in [Procs -> Int] /\ waitIRQ \in [Procs -> BOOLEAN]
    BY DEF Init
  <2>3. {now, next, timer, timestamp, divCycles, nextEvent, timerCycle} \subseteq Int
    BY DEF Init
  <2>4. {both, reschedule, freezeBus, divRunning, dmaRunning, dmaCheck, timerON, chainON}
          \subseteq BOOLEAN
    BY DEF Init
  <2> QED
    BY <2>1, <2>2, <2>3, <2>4 DEF Init, TypeOK, Stages
<1>2. TypeOK /\ [Next]_vars => TypeOK'
  <2> SUFFICES ASSUME TypeOK, [Next]_vars
               PROVE  TypeOK'
    OBVIOUS
  <2>1. CASE BeginFrame
    BY <2>1 DEF BeginFrame, TypeOK, timeVars, dispVars, divVars, dmaVars, timerVars
  <2>2. CASE Schedule
    <3>1. FindNext \in Int
      BY DEF FindNext, Sooner, TypeOK
    <3>2. next' \in Int /\ timer' \in Int
      BY <2>2, <3>1, TimesAssumption DEF Schedule, min, TypeOK, Procs
    <3>3. waitIRQ' \in [Procs -> BOOLEAN]
      BY <2>2 DEF Schedule, TypeOK
    <3> QED
      BY <2>2, <3>2, <3>3 DEF Schedule, TypeOK, dispVars, divVars, dmaVars, timerVars
  <2>3. CASE UNCHANGED vars
    BY <2>3 DEF vars, TypeOK, timeVars, dispVars, divVars, dmaVars, timerVars
  <2> QED
    BY <2>1, <2>2, <2>3, HardwareTyped, GuestTyped, LoopTyped DEF Next
<1> QED
  BY <1>1, <1>2, PTL DEF Spec

-----------------------------------------------------------------------------
(* The distance between the processors and the clock *)

A == arm["arm9"]
B == arm["arm7"]

\* where the base has just been moved, or time has not gone on since
AtBase ==
  /\ now = 0
  /\ A \in 0 .. MaxBurst - 1 /\ B \in 1 - MaxBurst .. 2 * MaxBurst - 1
  /\ A = 0 \/ B = 0

\* what execHardware leaves
Served ==
  /\ timerON => timerCycle > 0
  /\ divRunning => divCycles > 0
  /\ dmaCheck => nextEvent >= 0

\* what execHardware finds
OnTime ==
  /\ timerON => timerCycle > -MaxBurst \/ timerCycle >= Period - LatestTimer
  /\ divRunning => divCycles > -MaxBurst
  /\ dmaCheck => nextEvent >= -MaxBurst

\* A processor is less than its burst ahead of the iteration, unless it has skipped to
\* the next event, which one that runs has not.
Near(p, ahead) ==
  /\ arm[p] - timer <= ahead \/ arm[p] <= next
  /\ ~waitIRQ[p] /\ ~freezeBus => arm[p] - timer <= ahead

\* what is known when the inner loop looks at its condition
LoopInv ==
  /\ timer = IF both THEN min(A, B) ELSE A
  /\ \/ now = timer /\ now <= next + MaxBurst - 1
     \/ AtBase /\ both /\ Served
  /\ both => Near("arm9", MaxBurst - 1) /\ Near("arm7", 2 * MaxBurst - 1)
  /\ ~both => B = next /\ (waitIRQ["arm7"] \/ freezeBus)
  /\ freezeBus => ~reschedule
  /\ timerON =>
       timerCycle >= next \/ (reschedule /\ timerCycle >= now - LatestTimer + Period)
  /\ divRunning => divCycles >= next \/ (reschedule /\ divCycles > now - MaxBurst)
  /\ dmaCheck => nextEvent >= next \/ (reschedule /\ nextEvent >= now - MaxBurst)

\* and when it turns to the ARM9
Inv9 ==
  /\ timer = IF both THEN min(A, B) ELSE A
  /\ timer < next /\ timer <= now /\ ~reschedule
  /\ both => Near("arm9", MaxBurst - 1) /\ Near("arm7", 2 * MaxBurst - 1)
  /\ ~both => B = next /\ (waitIRQ["arm7"] \/ freezeBus)
  /\ timerON => timerCycle >= next /\ timerCycle >= now
  /\ divRunning => divCycles >= next
  /\ dmaCheck => nextEvent >= next

\* and to the ARM7
Inv7 ==
  /\ both
  /\ timer < next /\ timer <= now /\ timer < A /\ timer <= B
  /\ Near("arm9", MaxBurst) /\ Near("arm7", 2 * MaxBurst - 1)
  /\ freezeBus => ~reschedule
  /\ timerON =>
       \/ timerCycle >= next /\ timerCycle >= now
       \/ /\ reschedule /\ Owner = "arm9"
          /\ timerCycle >= now + Period /\ A <= timer + MaxBurst
  /\ divRunning =>
       divCycles >= next \/ (reschedule /\ divCycles > now /\ A <= timer + MaxBurst)
  /\ dmaCheck =>
       nextEvent >= next \/ (reschedule /\ nextEvent >= now /\ A <= timer + MaxBurst)

Inv ==
  /\ phase \in {"frame", "schedule"} => AtBase /\ Served
  /\ phase = "hardware" => AtBase /\ OnTime
  /\ phase = "loop" => LoopInv
  /\ phase = "arm9" => Inv9
  /\ phase = "arm7" => Inv7

\* execHardware serves what is due.
LEMMA HardwareServes ==
  ASSUME TypeOK, AtBase, ExecHardware
  PROVE  AtBase' /\ Served' /\ phase' \in {"frame", "schedule"}
<1> USE DEF TypeOK
<1>1. AtBase'
  BY DEF AtBase, A, B, ExecHardware, timeVars
<1>2. now = 0 /\ now' = 0
  BY DEF AtBase, ExecHardware, timeVars
<1>3. timerON' => timerCycle' > 0
  BY <1>2, CatchUp DEF ExecHardware, TimerExec
<1>4. divRunning' => divCycles' > 0
  BY <1>2 DEF ExecHardware, DivExec
<1>5. dmaCheck' => nextEvent' >= 0
  <2>1. PICK length \in Copies, triggers \in BOOLEAN :
          DmaExec(dmaCheck \/ triggers, IF triggers THEN now ELSE nextEvent, length)
    BY DEF ExecHardware
  <2>2. length \in Nat
    BY CopiesAssumption
  <2> DEFINE due == IF triggers THEN now ELSE nextEvent
             check == dmaCheck \/ triggers
  <2>3. CASE check /\ now >= due
    <3>1. dmaCheck' = ~dmaRunning
      BY <2>1, <2>3 DEF DmaExec
    <3>2. ~dmaRunning => nextEvent' = now + length
      BY <2>1, <2>3 DEF DmaExec
    <3>3. ~dmaRunning => nextEvent' >= 0
      BY <1>2, <2>2, <3>2
    <3> QED
      BY <3>1, <3>3
  <2>4. CASE ~(check /\ now >= due)
    <3>1. dmaCheck' = check /\ nextEvent' = due
      BY <2>1, <2>4 DEF DmaExec
    <3>2. due \in Int
      OBVIOUS
    <3> QED
      BY <1>2, <2>4, <3>1, <3>2
  <2> QED
    BY <2>3, <2>4
<1> QED
  BY <1>1, <1>3, <1>4, <1>5 DEF Served, ExecHardware

\* The loop starts with a next event that nothing comes before.
LEMMA ScheduleStarts ==
  ASSUME TypeOK, TypeOK', AtBase, Served, Schedule
  PROVE  LoopInv'
<1> USE DEF TypeOK
<1>1. MaxBurst \in Nat \ {0}
  BY TimesAssumption
<1>2. next' <= FindNext
  BY TimesAssumption DEF Schedule, FindNext, Sooner, min
<1>3. /\ timerON => FindNext <= timerCycle
      /\ divRunning => FindNext <= divCycles
      /\ dmaCheck => FindNext <= nextEvent
  BY DEF FindNext, Sooner
<1>4. UNCHANGED <<timerON, timerReload, timerCycle, divRunning, divCycles, dmaCheck,
                  nextEvent, freezeBus, now, arm>>
  BY DEF Schedule, divVars, dmaVars, timerVars
<1>5. AtBase' /\ Served'
  BY <1>4 DEF AtBase, Served, A, B
<1>6. both' /\ ~reschedule' /\ timer' = min(A, B)
  BY DEF Schedule, A, B
<1>7. A' = A /\ B' = B /\ A \in Int /\ B \in Int
  BY <1>4 DEF A, B, Procs
<1>8. Near("arm9", MaxBurst - 1)' /\ Near("arm7", 2 * MaxBurst - 1)'
  <2>1. A - min(A, B) <= MaxBurst - 1 /\ B - min(A, B) <= 2 * MaxBurst - 1
    BY <1>1, <1>7 DEF AtBase, min
  <2> QED
    BY <1>6, <1>7, <2>1 DEF Near, A, B
<1>9. timerON' => timerCycle' >= next'
  BY <1>2, <1>3, <1>4, FindNext \in Int DEF FindNext, Sooner
<1>10. divRunning' => divCycles' >= next'
  BY <1>2, <1>3, <1>4, FindNext \in Int DEF FindNext, Sooner
<1>11. dmaCheck' => nextEvent' >= next'
  BY <1>2, <1>3, <1>4, FindNext \in Int DEF FindNext, Sooner
<1>12. timer' = min(A', B')
  BY <1>6, <1>7
<1> QED
  BY <1>5, <1>6, <1>8, <1>9, <1>10, <1>11, <1>12 DEF LoopInv

\* The base moves to the clock: what the loop has left is within its bounds there.
LEMMA BaseMoves ==
  ASSUME TypeOK, TypeOK', LoopInv, LoopEnd
  PROVE  AtBase' /\ OnTime'
<1> USE DEF TypeOK
<1>1. MaxBurst \in Nat \ {0}
  BY TimesAssumption
<1>2. A \in Int /\ B \in Int
  BY DEF A, B, Procs
<1>3. /\ A' = IF waitIRQ["arm9"] THEN 0 ELSE A - now
      /\ B' = IF waitIRQ["arm7"] THEN 0 ELSE B - now
      /\ now' = 0
  BY DEF LoopEnd, Roll, A, B, Procs
<1>4. freezeBus => timer >= next
  BY DEF LoopEnd, GoesOn, LoopInv
<1>5. AtBase'
  <2>1. CASE AtBase
    BY <1>1, <1>2, <1>3, <2>1 DEF AtBase
  <2>2. CASE now = timer /\ now <= next + MaxBurst - 1 /\ both
    <3>1. timer = min(A, B)
      BY <2>2 DEF LoopInv
    <3>2. A' \in 0 .. MaxBurst - 1
      BY <1>1, <1>2, <1>3, <1>4, <2>2, <3>1 DEF LoopInv, Near, A, min
    <3>3. B' \in 1 - MaxBurst .. 2 * MaxBurst - 1
      BY <1>1, <1>2, <1>3, <1>4, <2>2, <3>1 DEF LoopInv, Near, B, min
    <3>4. A' = 0 \/ B' = 0
      BY <1>2, <1>3, <2>2, <3>1 DEF min
    <3> QED
      BY <1>3, <3>2, <3>3, <3>4 DEF AtBase
  <2>3. CASE now = timer /\ now <= next + MaxBurst - 1 /\ ~both
    <3>1. timer = A /\ B = next /\ (waitIRQ["arm7"] \/ freezeBus)
      BY <2>3 DEF LoopInv
    <3> QED
      BY <1>1, <1>2, <1>3, <1>4, <2>3, <3>1 DEF AtBase
  <2> QED
    BY <2>1, <2>2, <2>3 DEF LoopInv
<1>6. /\ timerON' = timerON /\ Period' = Period /\ LatestTimer' = LatestTimer
      /\ divRunning' = divRunning /\ dmaCheck' = dmaCheck
  BY DEF LoopEnd, Period, LatestTimer
<1>7. /\ Period \in Nat \ {0} /\ LatestTimer \in Nat /\ LatestTimer >= MaxBurst
  BY <1>1, PeriodPositive DEF LatestTimer
<1>8. OnTime'
  <2>1. timerON => timerCycle' = timerCycle - now
    BY DEF LoopEnd
  <2>2. divRunning => divCycles' = divCycles - now
    BY DEF LoopEnd
  <2>3. dmaCheck => nextEvent' = nextEvent - now
    BY DEF LoopEnd
  <2>4. CASE now = 0 /\ Served
    BY <1>1, <1>6, <2>1, <2>2, <2>3, <2>4 DEF OnTime, Served
  <2>5. CASE now <= next + MaxBurst - 1
    <3>1. timerON' => timerCycle' > -MaxBurst \/ timerCycle' >= Period' - LatestTimer'
      BY <1>1, <1>6, <1>7, <2>1, <2>5 DEF LoopInv
    <3>2. divRunning' => divCycles' > -MaxBurst
      BY <1>1, <1>6, <2>2, <2>5 DEF LoopInv
    <3>3. dmaCheck' => nextEvent' >= -MaxBurst
      BY <1>1, <1>6, <2>3, <2>5 DEF LoopInv
    <3> QED
      BY <3>1, <3>2, <3>3 DEF OnTime
  <2> QED
    BY <2>4, <2>5 DEF LoopInv, AtBase
<1> QED
  BY <1>5, <1>8

\* An iteration begins before the next event, with nothing that is overdue.
LEMMA IterationBegins ==
  ASSUME TypeOK, LoopInv, Iterate
  PROVE  Inv9'
<1> USE DEF TypeOK
<1>1. UNCHANGED <<timeVars, reschedule, waitIRQ, divVars, dmaVars, timerVars>>
  BY DEF Iterate
<1>2. timer < next /\ ~reschedule
  BY DEF Iterate, GoesOn
<1>3. A \in Int /\ B \in Int
  BY DEF A, B, Procs
<1>4. timer <= now /\ (timerON => timerCycle >= now)
  <2>1. CASE now = timer
    BY <1>2, <2>1 DEF LoopInv
  <2>2. CASE AtBase /\ both /\ Served
    BY <1>3, <2>2 DEF LoopInv, AtBase, Served, min
  <2> QED
    BY <2>1, <2>2 DEF LoopInv
<1>5. Inv9
  BY <1>2, <1>4 DEF LoopInv, Inv9
<1> QED
  BY <1>1, <1>5 DEF Inv9, Near, A, B, timeVars, divVars, dmaVars, timerVars

\* What a burst of p may do to the due times: new ones are not before the clock, and
\* end the loop.
Written(p) ==
  /\ \/ UNCHANGED <<timerON, timerReload, timerCycle>>
     \/ reschedule' /\ Owner = p /\ (timerON' => timerCycle' >= now + Period')
  /\ \/ UNCHANGED <<divRunning, divCycles>>
     \/ reschedule' /\ p = "arm9" /\ divCycles' > now
  /\ \/ UNCHANGED <<dmaCheck, nextEvent>>
     \/ reschedule' /\ p = "arm9" /\ nextEvent' >= now
  /\ reschedule => reschedule'

\* the processor p is moved on to t, by k or to the next event
Moves(p, t, k) ==
  /\ phase = p /\ Advance(p, t)
  /\ timer < t /\ (t - timer <= k \/ t <= next)
  /\ ~waitIRQ[p] /\ ~freezeBus => t - timer <= k
  /\ \/ UNCHANGED <<reschedule, divRunning, divCycles, dmaCheck, nextEvent,
                    timerON, timerReload, timerCycle>>
     \/ ~freezeBus /\ t - timer <= k /\ Written(p)
  /\ freezeBus' = freezeBus
  /\ \A q \in Procs : waitIRQ[q] => waitIRQ'[q]

Longest(p) == IF p = "arm7" THEN 2 * MaxBurst ELSE MaxBurst

\* whose turn it is has been caught by the other
LEMMA TurnIsBehind ==
  ASSUME TypeOK, Inv, NEW p \in Procs, phase = p
  PROVE  /\ timer \in Int /\ timer < next /\ timer <= arm[p]
         /\ Turn(p) => timer = arm[p]
         /\ ~Turn(p) => both /\ timer < arm[p]
<1> USE DEF TypeOK
<1>1. A \in Int /\ B \in Int
  BY DEF A, B, Procs
<1>2. CASE p = "arm9"
  BY <1>1, <1>2 DEF Inv, Inv9, Turn, A, B, min
<1>3. CASE p = "arm7"
  BY <1>1, <1>3 DEF Inv, Inv7, Turn, A, B
<1> QED
  BY <1>2, <1>3 DEF Procs

\* A processor that waits or passes moves, and writes nothing.
LEMMA IdleMoves ==
  ASSUME TypeOK, Inv, NEW p \in Procs, Pass(p) \/ Idle(p)
  PROVE  \E t \in Int : Moves(p, t, Longest(p))
<1> USE DEF TypeOK
<1>1. phase = p /\ MaxBurst \in Nat \ {0} /\ IrqWait \in Nat \ {0}
  BY TimesAssumption DEF Pass, Idle
<1>2. /\ UNCHANGED <<reschedule, divRunning, divCycles, dmaCheck, nextEvent,
                      timerON, timerReload, timerCycle>>
      /\ freezeBus' = freezeBus /\ waitIRQ' = waitIRQ
  BY DEF Pass, Idle, divVars, dmaVars, timerVars
<1>3. CASE Pass(p)
  <2>1. Advance(p, arm[p]) /\ arm[p] \in Int /\ timer < arm[p] /\ both
    BY <1>1, <1>3, TurnIsBehind DEF Pass
  <2>2. /\ arm[p] - timer <= Longest(p) \/ arm[p] <= next
        /\ ~waitIRQ[p] /\ ~freezeBus => arm[p] - timer <= Longest(p)
    <3>1. CASE p = "arm9"
      BY <1>1, <2>1, <3>1 DEF Inv, Inv9, Near, Longest
    <3>2. CASE p = "arm7"
      BY <1>1, <2>1, <3>2 DEF Inv, Inv7, Near, Longest
    <3> QED
      BY <3>1, <3>2 DEF Procs
  <2> QED
    BY <1>1, <1>2, <2>1, <2>2 DEF Moves
<1>4. CASE Idle(p)
  <2>1. Advance(p, Waited(p)) /\ timer = arm[p] /\ timer < next
    BY <1>1, <1>4, TurnIsBehind DEF Idle
  <2>2. Waited(p) \in Int /\ timer < Waited(p) /\ Waited(p) <= next
    BY <1>1, <2>1 DEF Waited, min
  <2>3. ~(~waitIRQ[p] /\ ~freezeBus)
    BY <1>4 DEF Idle, Runs
  <2> QED
    BY <1>1, <1>2, <2>1, <2>2, <2>3 DEF Moves
<1> QED
  BY <1>3, <1>4

\* A burst moves its processor, and writes as a burst may.
LEMMA GuestMoves ==
  ASSUME TypeOK, TypeOK', Inv, Guest
  PROVE  \E p \in Procs : \E t \in Int : Moves(p, t, Longest(p))
<1> USE DEF TypeOK
<1>1. ASSUME NEW p \in Procs, Run(p), Written(p), freezeBus' = freezeBus,
             \A q \in Procs : waitIRQ[q] => waitIRQ'[q]
      PROVE  \E t \in Int : Moves(p, t, Longest(p))
  <2>1. PICK t \in Int : Advance(p, t) /\ t > arm[p]
                        /\ t <= arm[p] + (IF p = "arm7" THEN 2 ELSE 1) * MaxBurst
    BY <1>1, RunAdvances
  <2>2. phase = p /\ timer = arm[p] /\ ~freezeBus
    BY <1>1, TurnIsBehind DEF Run, Runs
  <2>3. timer < t /\ t - timer <= Longest(p)
    BY <2>1, <2>2, TimesAssumption DEF Longest
  <2> QED
    BY <1>1, <2>1, <2>2, <2>3 DEF Moves
<1>2. ASSUME NEW p \in Procs, Compute(p) \/ Disturb(p) \/ Halt(p)
      PROVE  \E t \in Int : Moves(p, t, Longest(p))
  <2>1. Run(p) /\ Written(p) /\ freezeBus' = freezeBus
    BY <1>2 DEF Compute, Disturb, Halt, Written, divVars, dmaVars, timerVars
  <2>2. \A q \in Procs : waitIRQ[q] => waitIRQ'[q]
    BY <1>2 DEF Compute, Disturb, Halt
  <2> QED
    BY <1>1, <2>1, <2>2
<1>3. CASE StartDiv
  <2>1. now + DivTime > now
    BY TimesAssumption
  <2>2. Run("arm9") /\ Written("arm9") /\ freezeBus' = freezeBus /\ waitIRQ' = waitIRQ
    BY <1>3, <2>1 DEF StartDiv, Written, dmaVars, timerVars
  <2> QED
    BY <1>1, <2>2 DEF Procs
<1>4. CASE StartDma
  <2>1. nextEvent' >= now
    BY <1>4 DEF StartDma
  <2>2. Written("arm9")
    BY <1>4, <2>1 DEF StartDma, Written, divVars, timerVars
  <2>3. Run("arm9") /\ freezeBus' = freezeBus /\ waitIRQ' = waitIRQ
    BY <1>4 DEF StartDma
  <2> QED
    BY <1>1, <2>2, <2>3 DEF Procs
<1>5. ASSUME NEW on \in BOOLEAN, WriteChain(on)
      PROVE  \E p \in Procs : \E t \in Int : Moves(p, t, Longest(p))
  <2>1. Run(Owner) /\ Written(Owner) /\ freezeBus' = freezeBus /\ waitIRQ' = waitIRQ
    BY <1>5 DEF WriteChain, Written, divVars, dmaVars
  <2>2. Owner \in Procs
    BY OwnerAssumption DEF Procs
  <2> QED
    BY <1>1, <2>1, <2>2
<1>6. ASSUME NEW on \in BOOLEAN, NEW reload \in Reloads, WriteTimer(on, reload)
      PROVE  \E p \in Procs : \E t \in Int : Moves(p, t, Longest(p))
  <2>1. Owner \in Procs
    BY OwnerAssumption DEF Procs
  <2>2. Run(Owner) /\ freezeBus' = freezeBus /\ waitIRQ' = waitIRQ
    BY <1>6 DEF WriteTimer, dmaVars
  <2>3. timerON' => timerCycle' >= now + Period'
    <3>1. Period' \in Nat
      BY PeriodOf DEF Period
    <3>2. timerON' => timerCycle' = now + Period'
      BY <1>6 DEF WriteTimer, Period
    <3> QED
      BY <3>1, <3>2
  <2>4. Written(Owner)
    BY <1>6, <2>3 DEF WriteTimer, Written, divVars, dmaVars
  <2> QED
    BY <1>1, <2>1, <2>2, <2>4
<1> QED
  BY <1>2, <1>3, <1>4, <1>5, <1>6 DEF Guest

\* The ARM9 moves: it is the ARM7's turn, or without it the next iteration's.
LEMMA MoveNine ==
  ASSUME TypeOK, TypeOK', Inv9, NEW t \in Int, Moves("arm9", t, MaxBurst)
  PROVE  /\ phase' = "arm7" => Inv7'
         /\ phase' = "loop" => LoopInv'
         /\ phase' \in {"arm7", "loop"}
<1> USE DEF TypeOK
<1>1. MaxBurst \in Nat \ {0}
  BY TimesAssumption
<1>2. Advance9(t) /\ freezeBus' = freezeBus /\ timer < t /\ timer < next /\ timer <= now
  BY DEF Moves, Advance, Inv9
<1>3. /\ A' = t /\ B' = B /\ next' = next /\ both' = both /\ B \in Int /\ A \in Int
      /\ waitIRQ["arm9"] => waitIRQ'["arm9"]
      /\ waitIRQ["arm7"] => waitIRQ'["arm7"]
  BY <1>2 DEF Advance9, Moves, A, B, Procs
<1>4. freezeBus => ~reschedule'
  BY DEF Moves, Inv9
<1>5. timerON' =>
        \/ timerCycle' >= next /\ timerCycle' >= now
        \/ /\ reschedule' /\ Owner = "arm9" /\ t - timer <= MaxBurst
           /\ timerCycle' >= now + Period'
  <2>1. CASE UNCHANGED <<timerON, timerReload, timerCycle>>
    BY <2>1 DEF Inv9
  <2>2. CASE /\ reschedule' /\ Owner = "arm9" /\ t - timer <= MaxBurst
             /\ timerON' => timerCycle' >= now + Period'
    BY <2>2
  <2> QED
    BY <2>1, <2>2 DEF Moves, Written
<1>6. divRunning' =>
        divCycles' >= next \/ (reschedule' /\ divCycles' > now /\ t - timer <= MaxBurst)
  <2>1. CASE UNCHANGED <<divRunning, divCycles>>
    BY <2>1 DEF Inv9
  <2>2. CASE reschedule' /\ divCycles' > now /\ t - timer <= MaxBurst
    BY <2>2
  <2> QED
    BY <2>1, <2>2 DEF Moves, Written
<1>7. dmaCheck' =>
        nextEvent' >= next \/ (reschedule' /\ nextEvent' >= now /\ t - timer <= MaxBurst)
  <2>1. CASE UNCHANGED <<dmaCheck, nextEvent>>
    BY <2>1 DEF Inv9
  <2>2. CASE reschedule' /\ nextEvent' >= now /\ t - timer <= MaxBurst
    BY <2>2
  <2> QED
    BY <2>1, <2>2 DEF Moves, Written
<1>8. CASE both
  <2>1. phase' = "arm7" /\ now' = now /\ timer' = timer
    BY <1>2, <1>8 DEF Advance9
  <2>2. timer <= B
    BY <1>3, <1>8 DEF Inv9, min
  <2>3. Near("arm9", MaxBurst)'
    BY <1>1, <1>2, <1>3, <2>1 DEF Moves, Near, A
  <2>4. Near("arm7", 2 * MaxBurst - 1)'
    BY <1>1, <1>2, <1>3, <1>8, <2>1 DEF Inv9, Near, B
  <2>5. timerON' =>
          \/ timerCycle' >= next' /\ timerCycle' >= now'
          \/ /\ reschedule' /\ Owner = "arm9"
             /\ timerCycle' >= now' + Period' /\ A' <= timer' + MaxBurst
    BY <1>1, <1>3, <1>5, <2>1
  <2>6. divRunning' => divCycles' >= next'
                       \/ (reschedule' /\ divCycles' > now' /\ A' <= timer' + MaxBurst)
    BY <1>1, <1>3, <1>6, <2>1
  <2>7. dmaCheck' => nextEvent' >= next'
                     \/ (reschedule' /\ nextEvent' >= now' /\ A' <= timer' + MaxBurst)
    BY <1>1, <1>3, <1>7, <2>1
  <2> QED
    BY <1>2, <1>3, <1>4, <1>8, <2>1, <2>2, <2>3, <2>4, <2>5, <2>6, <2>7 DEF Inv7
<1>9. CASE ~both
  <2>1. phase' = "loop" /\ timer' = t /\ now' = t
    BY <1>2, <1>3, <1>9 DEF Advance9, EndIteration, A
  <2>2. now' <= next' + MaxBurst - 1
    BY <1>1, <1>2, <1>3, <2>1 DEF Moves
  <2>3. B' = next' /\ (waitIRQ'["arm7"] \/ freezeBus')
    BY <1>2, <1>3, <1>9 DEF Inv9
  <2>4. Period' \in Nat /\ LatestTimer \in Nat /\ LatestTimer >= MaxBurst
        /\ LatestTimer' = LatestTimer
    BY <1>1, PeriodOf DEF Period, LatestTimer
  <2>5. timerON' => timerCycle' >= next'
                    \/ (reschedule' /\ timerCycle' >= now' - LatestTimer' + Period')
    BY <1>1, <1>2, <1>3, <1>5, <2>1, <2>4
  <2>6. divRunning' => divCycles' >= next'
                       \/ (reschedule' /\ divCycles' > now' - MaxBurst)
    BY <1>1, <1>2, <1>3, <1>6, <2>1
  <2>7. dmaCheck' => nextEvent' >= next'
                     \/ (reschedule' /\ nextEvent' >= now' - MaxBurst)
    BY <1>1, <1>2, <1>3, <1>7, <2>1
  <2> QED
    BY <1>2, <1>3, <1>4, <1>9, <2>1, <2>2, <2>3, <2>5, <2>6, <2>7 DEF LoopInv
<1> QED
  BY <1>8, <1>9

\* The ARM7 moves: the clock is set to the one that is behind.
LEMMA MoveSeven ==
  ASSUME TypeOK, TypeOK', Inv7, NEW t \in Int, Moves("arm7", t, 2 * MaxBurst)
  PROVE  phase' = "loop" /\ LoopInv'
<1> USE DEF TypeOK
<1>1. MaxBurst \in Nat \ {0}
  BY TimesAssumption
<1>2. Advance7(t) /\ freezeBus' = freezeBus /\ both /\ timer < t /\ timer < A
      /\ timer < next /\ timer <= now
  BY DEF Moves, Advance, Inv7
<1>3. /\ A' = A /\ B' = t /\ next' = next /\ both' = both /\ A \in Int
      /\ waitIRQ["arm9"] => waitIRQ'["arm9"]
      /\ waitIRQ["arm7"] => waitIRQ'["arm7"]
  BY <1>2 DEF Advance7, Moves, A, B, Procs
<1>4. phase' = "loop" /\ timer' = min(A, t) /\ now' = timer'
  BY <1>2, <1>3 DEF Advance7, EndIteration, A, B
<1>5. timer < timer' /\ timer' <= A /\ timer' <= t
  BY <1>2, <1>3, <1>4 DEF min
<1>6. freezeBus => ~reschedule'
  BY DEF Moves, Inv7
<1>7. now' <= next' + MaxBurst - 1
  BY <1>1, <1>2, <1>3, <1>4, <1>5 DEF Inv7, Near, A
<1>8. Near("arm9", MaxBurst - 1)'
  BY <1>1, <1>2, <1>3, <1>5 DEF Inv7, Near, A
<1>9. Near("arm7", 2 * MaxBurst - 1)'
  BY <1>1, <1>2, <1>3, <1>5 DEF Moves, Near, B
<1>10. Period' \in Nat /\ LatestTimer' = LatestTimer
       /\ LatestTimer = IF Owner = "arm7" THEN 2 * MaxBurst ELSE MaxBurst
  BY <1>1, PeriodOf DEF Period, LatestTimer
<1>11. timerON' => timerCycle' >= next'
                   \/ (reschedule' /\ timerCycle' >= now' - LatestTimer' + Period')
  <2>1. CASE UNCHANGED <<timerON, timerReload, timerCycle>>
    <3>1. Period' = Period /\ (reschedule => reschedule')
      BY <2>1 DEF Period, Moves, Written
    <3> QED
      BY <1>1, <1>2, <1>3, <1>4, <1>5, <1>10, <2>1, <3>1 DEF Inv7
  <2>2. CASE /\ reschedule' /\ Owner = "arm7" /\ t - timer <= 2 * MaxBurst
             /\ timerON' => timerCycle' >= now + Period'
    BY <1>1, <1>2, <1>3, <1>4, <1>5, <1>10, <2>2
  <2> QED
    BY <2>1, <2>2 DEF Moves, Written
<1>12. UNCHANGED <<divRunning, divCycles, dmaCheck, nextEvent>> /\ (reschedule => reschedule')
  BY DEF Moves, Written
<1>13. divRunning' => divCycles' >= next'
                      \/ (reschedule' /\ divCycles' > now' - MaxBurst)
  BY <1>1, <1>2, <1>3, <1>4, <1>5, <1>12 DEF Inv7
<1>14. dmaCheck' => nextEvent' >= next'
                    \/ (reschedule' /\ nextEvent' >= now' - MaxBurst)
  BY <1>1, <1>2, <1>3, <1>4, <1>5, <1>12 DEF Inv7
<1> QED
  BY <1>2, <1>3, <1>4, <1>6, <1>7, <1>8, <1>9, <1>11, <1>13, <1>14 DEF LoopInv

\* The ARM7 leaves the rest of the loop to the ARM9.
LEMMA LeaveToNine ==
  ASSUME TypeOK, TypeOK', Inv7, Leave
  PROVE  LoopInv'
<1> USE DEF TypeOK
<1>1. MaxBurst \in Nat \ {0}
  BY TimesAssumption
<1>2. /\ A' = A /\ B' = next /\ next' = next /\ ~both' /\ now' = A /\ timer' = A
      /\ A \in Int /\ timer < next /\ timer <= now /\ timer < A
  BY DEF Leave, Inv7, A, B, Procs
<1>3. waitIRQ["arm7"] \/ freezeBus
  BY DEF Leave, Runs
<1>4. UNCHANGED <<reschedule, waitIRQ, divRunning, divCycles, dmaCheck, nextEvent, freezeBus,
                  timerON, timerReload, timerCycle>>
  BY DEF Leave, divVars, dmaVars, timerVars
<1>5. now' <= next' + MaxBurst - 1
  BY <1>1, <1>2 DEF Inv7, Near, A
<1>6. Period' = Period /\ Period \in Nat /\ LatestTimer' = LatestTimer
      /\ LatestTimer \in Nat /\ LatestTimer >= MaxBurst
  BY <1>1, <1>4, PeriodPositive DEF Period, LatestTimer
<1>7. timerON' => timerCycle' >= next'
                  \/ (reschedule' /\ timerCycle' >= now' - LatestTimer' + Period')
  BY <1>1, <1>2, <1>4, <1>6 DEF Inv7
<1>8. divRunning' => divCycles' >= next'
                     \/ (reschedule' /\ divCycles' > now' - MaxBurst)
  BY <1>1, <1>2, <1>4 DEF Inv7
<1>9. dmaCheck' => nextEvent' >= next'
                   \/ (reschedule' /\ nextEvent' >= now' - MaxBurst)
  BY <1>1, <1>2, <1>4 DEF Inv7
<1>10. freezeBus' => ~reschedule'
  BY <1>4 DEF Inv7
<1> QED
  BY <1>2, <1>3, <1>4, <1>5, <1>7, <1>8, <1>9, <1>10 DEF LoopInv

-----------------------------------------------------------------------------
(* The invariant and what follows from it *)

\* The distances and the due times are kept by every step.
THEOREM TimesKept == Spec => []Inv
<1>1. Init => Inv
  <2> SUFFICES ASSUME Init
               PROVE  Inv
    OBVIOUS
  <2>1. MaxBurst \in Nat \ {0}
    BY TimesAssumption
  <2>2. A = 0 /\ B = 0 /\ now = 0
    BY DEF Init, A, B, Procs
  <2>3. AtBase
    BY <2>1, <2>2 DEF AtBase
  <2>4. Served
    BY DEF Init, Served
  <2> QED
    BY <2>3, <2>4 DEF Init, Inv
<1>2. TypeOK /\ TypeOK' /\ Inv /\ [Next]_vars => Inv'
  <2> SUFFICES ASSUME TypeOK, TypeOK', Inv, [Next]_vars
               PROVE  Inv'
    OBVIOUS
  <2>1. CASE BeginFrame
    <3>1. AtBase /\ Served /\ phase' = "hardware"
      BY <2>1 DEF BeginFrame, Inv
    <3>2. UNCHANGED <<timeVars, divVars, dmaVars, timerVars>>
      BY <2>1 DEF BeginFrame
    <3>3. AtBase'
      BY <3>1, <3>2 DEF AtBase, A, B, timeVars
    <3>4. OnTime
      BY <3>1, TimesAssumption DEF Served, OnTime, TypeOK
    <3>5. OnTime'
      BY <3>2, <3>4 DEF OnTime, Period, LatestTimer, divVars, dmaVars, timerVars
    <3> QED
      BY <3>1, <3>3, <3>5 DEF Inv
  <2>2. CASE ExecHardware
    <3>1. AtBase
      BY <2>2 DEF ExecHardware, Inv
    <3> QED
      BY <2>2, <3>1, HardwareServes DEF Inv
  <2>3. CASE Schedule
    <3>1. AtBase /\ Served /\ phase' = "loop"
      BY <2>3 DEF Schedule, Inv
    <3> QED
      BY <2>3, <3>1, ScheduleStarts DEF Inv
  <2>4. CASE Iterate
    <3>1. LoopInv /\ phase' = "arm9"
      BY <2>4 DEF Iterate, Inv
    <3> QED
      BY <2>4, <3>1, IterationBegins DEF Inv
  <2>5. CASE LoopEnd
    <3>1. LoopInv /\ phase' = "hardware"
      BY <2>5 DEF LoopEnd, Inv
    <3> QED
      BY <2>5, <3>1, BaseMoves DEF Inv
  <2>6. CASE Leave
    <3>1. Inv7 /\ phase' = "loop"
      BY <2>6 DEF Leave, Inv
    <3> QED
      BY <2>6, <3>1, LeaveToNine DEF Inv
  <2>7. ASSUME NEW p \in Procs, NEW t \in Int, Moves(p, t, Longest(p))
        PROVE  Inv'
    <3>1. phase = p
      BY <2>7 DEF Moves
    <3>2. CASE p = "arm9"
      <4>1. Inv9 /\ Moves("arm9", t, MaxBurst)
        BY <2>7, <3>1, <3>2 DEF Inv, Longest
      <4> QED
        BY <4>1, MoveNine DEF Inv
    <3>3. CASE p = "arm7"
      <4>1. Inv7 /\ Moves("arm7", t, 2 * MaxBurst)
        BY <2>7, <3>1, <3>3 DEF Inv, Longest
      <4> QED
        BY <4>1, MoveSeven DEF Inv
    <3> QED
      BY <3>2, <3>3 DEF Procs
  <2>8. CASE Guest \/ \E p \in Procs : Pass(p) \/ Idle(p)
    BY <2>7, <2>8, GuestMoves, IdleMoves
  <2>9. CASE UNCHANGED vars
    BY <2>9 DEF vars, timeVars, dispVars, divVars, dmaVars, timerVars, Inv, AtBase, Served,
                OnTime, LoopInv, Inv9, Inv7, Near, A, B, Period, LatestTimer
  <2> QED
    BY <2>1, <2>2, <2>3, <2>4, <2>5, <2>6, <2>8, <2>9 DEF Next, Loop
<1> QED
  BY <1>1, <1>2, TypeCorrect, PTL DEF Spec

\* For all bursts and waits, the processors stay within a burst of the clock.
THEOREM WithinABurst == Spec => []SkewBounded
<1>1. Inv => SkewBounded
  BY DEF Inv, AtBase, SkewBounded, A, B
<1> QED
  BY <1>1, TimesKept, PTL

\* For all bursts, stages and timers, no event is served later than that.
THEOREM ServedInTime == Spec => []EventsOnTime
<1>1. TypeOK /\ Inv => EventsOnTime
  <2> SUFFICES ASSUME TypeOK, Inv, phase = "hardware"
               PROVE  /\ timerON => timerCycle > -LatestTimer
                      /\ divRunning => divCycles > -MaxBurst
                      /\ dmaCheck => nextEvent >= -MaxBurst
    BY DEF EventsOnTime
  <2>1. OnTime
    BY DEF Inv
  <2>2. LatestTimer \in Nat /\ LatestTimer >= MaxBurst /\ MaxBurst \in Nat
    BY TimesAssumption DEF LatestTimer
  <2>3. timerON => timerCycle > -LatestTimer
    BY <2>1, <2>2, PeriodPositive DEF OnTime, TypeOK
  <2> QED
    BY <2>1, <2>3 DEF OnTime
<1> QED
  BY <1>1, TypeCorrect, TimesKept, PTL

\* For every period longer than a burst, no overflow is lost.
THEOREM OverflowsCounted == Spec => []NoLostOverflow
<1>1. TypeOK /\ Inv => NoLostOverflow
  <2> SUFFICES ASSUME TypeOK, Inv, phase = "hardware", timerON, Period > MaxBurst
               PROVE  Overflows <= 1
    BY DEF NoLostOverflow
  <2>1. OnTime /\ now = 0
    BY DEF Inv, AtBase
  <2>2. /\ Period \in Nat \ {0} /\ MaxBurst \in Nat \ {0}
        /\ LatestTimer \in Nat /\ LatestTimer <= 2 * MaxBurst
    BY PeriodPositive, TimesAssumption DEF LatestTimer
  <2>3. -timerCycle < Period
    BY <2>1, <2>2 DEF OnTime, TypeOK
  <2>4. CASE timerCycle > now
    BY <2>4 DEF Overflows
  <2>5. CASE timerCycle <= now
    <3> DEFINE late == now - timerCycle
    <3>1. late \in Nat /\ late < Period
      BY <2>1, <2>3, <2>5 DEF TypeOK
    <3>2. \A d \in Nat, q \in Nat \ {0} : d < q => d \div q = 0
      OBVIOUS
    <3>3. late \div Period = 0
      <4> HIDE DEF late
      <4> QED
        BY <2>2, <3>1, <3>2
    <3> QED
      BY <2>5, <3>3 DEF Overflows, TypeOK
  <2> QED
    BY <2>4, <2>5 DEF TypeOK
<1> QED
  BY <1>1, TypeCorrect, TimesKept, PTL

\* A processor that runs never finds an overdue overflow of its timer.
THEOREM OverflowsServed == Spec => []OverflowAhead
<1>1. Inv => OverflowAhead
  <2> SUFFICES ASSUME Inv, phase = Owner, Runs(Owner), timerON
               PROVE  timerCycle >= now
    BY DEF OverflowAhead
  <2>1. CASE Owner = "arm9"
    BY <2>1 DEF Inv, Inv9
  <2>2. CASE Owner = "arm7"
    BY <2>2 DEF Inv, Inv7
  <2> QED
    BY <2>1, <2>2, OwnerAssumption
<1> QED
  BY <1>1, TimesKept, PTL

\* Processors stay near the clock, events are in time and overflows counted (NDS_exec).
THEOREM ClockIsKept == Spec => []ClockKept
<1>1. TypeOK /\ OverflowAhead /\ EventsOnTime /\ NoLostOverflow /\ SkewBounded => ClockKept
  BY DEF ClockKept
<1> QED
  BY <1>1, TypeCorrect, OverflowsServed, ServedInTime, OverflowsCounted, WithinABurst, PTL
=============================================================================
