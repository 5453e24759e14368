-------------------------- MODULE InterruptsProofs --------------------------
(***************************************************************************)
(* Proofs about Interrupts, for every set of interrupts and every game:    *)
(* types, the two flags of a halted processor, the four lines of IPCSync,  *)
(* and that an interrupt raised while the inner loop runs ends the loop.   *)
(* About SystemControl, for every set of words and regions: the registers, *)
(* their copies and the masks agree. About SaveStates, for every length a  *)
(* file may be cut to and every file of an earlier version: they agree     *)
(* after every load as well, and a load that succeeds has restored what    *)
(* the file holds. About VideoMemory, for every set of settings, textures  *)
(* and pages: what a trusted texture holds is what memory holds.           *)
(***************************************************************************)
EXTENDS Interrupts, SaveStates, VideoMemory, TLAPS

\* The interrupt registers keep their types; the level of the FIFO is not stored
\* among the flags.
LEMMA RegistersTyped ==
  ASSUME TypeOK, Next
  PROVE  /\ reg_IE' \in [Procs -> SUBSET Irqs]
         /\ reg_IF' \in [Procs -> SUBSET (Irqs \ {GX})]
         /\ reg_IME' \in [Procs -> BOOLEAN]
         /\ gxline' \in BOOLEAN
         /\ sync' \in [Procs -> SyncReg]
<1> USE IrqsAssumption DEF TypeOK, irqVars, Procs
<1>1. CASE Frame
  BY <1>1 DEF Frame, Input, SleepFrame, BeginFrame, MakeIrq
<1>2. CASE Hardware
  <2>1. CASE Device
    <3>1. gxline' \in BOOLEAN
      BY <2>1 DEF Device
    <3>2. reg_IF' \in [Procs -> SUBSET (Irqs \ {GX})]
      BY <2>1 DEF Device, MakeIrq
    <3> QED
      BY <2>1, <3>1, <3>2 DEF Device
  <2> QED
    BY <1>2, <2>1 DEF Hardware, EndFrame, ServeInterrupts
<1>3. CASE LoopPass \/ LoopEnd
  BY <1>3 DEF LoopPass, LoopEnd
<1>4. ASSUME NEW p \in Procs, Idle(p) \/ EnterBurst(p)
      PROVE  UNCHANGED irqVars
  BY <1>4 DEF Idle, EnterBurst
<1>5. ASSUME NEW p \in Procs, Guest(p)
      PROVE  /\ reg_IE' \in [Procs -> SUBSET Irqs]
             /\ reg_IF' \in [Procs -> SUBSET (Irqs \ {GX})]
             /\ reg_IME' \in [Procs -> BOOLEAN]
             /\ gxline' \in BOOLEAN
             /\ sync' \in [Procs -> SyncReg]
  <2>1. CASE OtherCode(p) \/ SwiHalt(p) \/ WaitForIrq(p) \/ Sleep(p) \/ WriteCPSR(p)
             \/ Branch(p) \/ ReturnFromIrq(p)
    BY <2>1 DEF OtherCode, SwiHalt, WaitForIrq, Sleep, WriteCPSR, Branch, ReturnFromIrq
  <2>2. CASE \E discard \in BOOLEAN : IntrWait(p, discard)
    BY <2>2 DEF IntrWait
  <2>3. CASE WriteIE(p)
    BY <2>3 DEF WriteIE
  <2>4. CASE WriteIME(p) \/ WriteGXSTAT(p)
    BY <2>4 DEF WriteIME, WriteGXSTAT
  <2>5. CASE IPCSync(p)
    <3>1. PICK out \in Nibbles, send \in BOOLEAN, recv \in BOOLEAN :
            /\ sync' = [sync EXCEPT ![p] = [@ EXCEPT !.out = out, !.recv = recv],
                                    ![Other(p)] = [@ EXCEPT !.in = out]]
            /\ reg_IF' = [reg_IF EXCEPT ![Other(p)] =
                            IF send /\ sync[Other(p)].recv THEN @ \cup {SYNC} ELSE @]
      BY <2>5 DEF IPCSync
    <3>2. sync' \in [Procs -> SyncReg]
      <4>1. Other(p) \in Procs /\ Other(p) # p
        BY <1>5 DEF Other
      <4>2. /\ [sync[p] EXCEPT !.out = out, !.recv = recv] \in SyncReg
            /\ [sync[Other(p)] EXCEPT !.in = out] \in SyncReg
        BY <4>1, <1>5 DEF SyncReg
      <4> QED
        BY <3>1, <4>1, <4>2, <1>5
    <3>3. reg_IF' \in [Procs -> SUBSET (Irqs \ {GX})]
      BY <3>1, <1>5 DEF Other
    <3> QED
      BY <2>5, <3>2, <3>3 DEF IPCSync
  <2>6. CASE Acknowledge(p)
    BY <2>6 DEF Acknowledge
  <2> QED
    BY <1>5, <2>1, <2>2, <2>3, <2>4, <2>5, <2>6 DEF Guest
<1> QED
  BY <1>1, <1>2, <1>3, <1>4, <1>5 DEF Next

\* The flags of halting and of IntrWait keep their types.
LEMMA HaltTyped ==
  ASSUME TypeOK, Next
  PROVE  /\ waitIRQ' \in [Procs -> BOOLEAN]
         /\ halt_IE_and_IF' \in [Procs -> BOOLEAN]
         /\ intrWaitARM_state' \in [Procs -> {0, 1}]
         /\ flags' \in [Procs -> SUBSET Waited]
<1> USE DEF TypeOK, haltVars, Halt
<1>1. CASE Frame \/ LoopPass \/ LoopEnd
  BY <1>1 DEF Frame, Input, SleepFrame, BeginFrame, LoopPass, LoopEnd
<1>2. CASE Hardware
  BY <1>2 DEF Hardware, Device, EndFrame, ServeInterrupts
<1>3. ASSUME NEW p \in Procs, Idle(p) \/ EnterBurst(p)
      PROVE  UNCHANGED haltVars
  BY <1>3 DEF Idle, EnterBurst
<1>4. ASSUME NEW p \in Procs, Guest(p)
      PROVE  /\ waitIRQ' \in [Procs -> BOOLEAN]
             /\ halt_IE_and_IF' \in [Procs -> BOOLEAN]
             /\ intrWaitARM_state' \in [Procs -> {0, 1}]
             /\ flags' \in [Procs -> SUBSET Waited]
  <2>1. CASE OtherCode(p) \/ Sleep(p) \/ WriteIE(p) \/ WriteIME(p) \/ WriteCPSR(p)
             \/ WriteGXSTAT(p) \/ IPCSync(p) \/ Branch(p) \/ ReturnFromIrq(p)
    BY <2>1 DEF OtherCode, Sleep, WriteIE, WriteIME, WriteCPSR, WriteGXSTAT, IPCSync, Branch,
                ReturnFromIrq
  <2>2. ASSUME NEW discard \in BOOLEAN, IntrWait(p, discard)
        PROVE  /\ waitIRQ' \in [Procs -> BOOLEAN]
               /\ halt_IE_and_IF' \in [Procs -> BOOLEAN]
               /\ intrWaitARM_state' \in [Procs -> {0, 1}]
               /\ flags' \in [Procs -> SUBSET Waited]
    <3>1. flags' \in [Procs -> SUBSET Waited]
      BY <2>2 DEF IntrWait
    <3>2. CASE Satisfied(p, discard)
      BY <2>2, <3>1, <3>2 DEF IntrWait
    <3>3. CASE ~Satisfied(p, discard)
      BY <2>2, <3>1, <3>3 DEF IntrWait
    <3> QED
      BY <3>2, <3>3
  <2>3. CASE SwiHalt(p) \/ WaitForIrq(p)
    BY <2>3 DEF SwiHalt, WaitForIrq
  <2>4. CASE Acknowledge(p)
    BY <2>4 DEF Acknowledge
  <2> QED
    BY <1>4, <2>1, <2>2, <2>3, <2>4 DEF Guest
<1> QED
  BY <1>1, <1>2, <1>3, <1>4 DEF Next

\* Program counters stay within the places of the loop and the handler: also
\* that which IntrWait rewinds.
LEMMA CodeTyped ==
  ASSUME TypeOK, Next
  PROVE  /\ cpsr_I' \in [Procs -> BOOLEAN]
         /\ R15' \in [Procs -> Places]
         /\ R14_irq' \in [Procs -> Places]
         /\ pc' \in [Procs -> Places]
         /\ changed' \in [Procs -> {0, 1}]
<1> USE DEF TypeOK, codeVars, Places, BEFORE, CALL, WORK, JUMP, ACK, RETURN
<1>1. CASE Frame \/ LoopPass \/ LoopEnd
  BY <1>1 DEF Frame, Input, SleepFrame, BeginFrame, LoopPass, LoopEnd
<1>2. CASE Hardware
  BY <1>2 DEF Hardware, Device, EndFrame, ServeInterrupts, Taken
<1>3. ASSUME NEW p \in Procs, Idle(p) \/ EnterBurst(p)
      PROVE  /\ UNCHANGED <<cpsr_I, R15, R14_irq>>
             /\ pc' \in [Procs -> Places]
             /\ changed' \in [Procs -> {0, 1}]
  BY <1>3 DEF Idle, EnterBurst
<1>4. ASSUME NEW p \in Procs, Guest(p)
      PROVE  /\ cpsr_I' \in [Procs -> BOOLEAN]
             /\ R15' \in [Procs -> Places]
             /\ R14_irq' \in [Procs -> Places]
             /\ pc' \in [Procs -> Places]
             /\ changed' \in [Procs -> {0, 1}]
  <2>1. CASE OtherCode(p) \/ SwiHalt(p)
    BY <2>1 DEF OtherCode, SwiHalt, Goto
  <2>2. CASE \E discard \in BOOLEAN : IntrWait(p, discard)
    BY <2>2 DEF IntrWait, Goto
  <2>3. CASE WaitForIrq(p) \/ Branch(p)
    BY <2>3 DEF WaitForIrq, Branch, Exit, Goto
  <2>4. ASSUME NEW next \in {JUMP, RETURN}, StoreChecked(p, next)
        PROVE  /\ cpsr_I' = cpsr_I
               /\ R15' \in [Procs -> Places]
               /\ R14_irq' = R14_irq
               /\ pc' \in [Procs -> Places]
               /\ changed' \in [Procs -> {0, 1}]
    BY <2>4 DEF StoreChecked, Goto
  <2>5. CASE Sleep(p) \/ WriteIE(p) \/ WriteIME(p) \/ WriteGXSTAT(p) \/ IPCSync(p)
             \/ Acknowledge(p)
    <3>1. StoreChecked(p, JUMP) \/ StoreChecked(p, RETURN)
      BY <2>5 DEF Sleep, WriteIE, WriteIME, WriteGXSTAT, IPCSync, Acknowledge
    <3> QED
      BY <2>4, <3>1
  <2>6. CASE WriteCPSR(p)
    <3>1. cpsr_I' \in [Procs -> BOOLEAN]
      BY <2>6 DEF WriteCPSR
    <3> QED
      BY <2>6, <3>1 DEF WriteCPSR, Goto
  <2>7. CASE ReturnFromIrq(p)
    BY <2>7 DEF ReturnFromIrq, Goto
  <2> QED
    BY <1>4, <2>1, <2>2, <2>3, <2>5, <2>6, <2>7 DEF Guest
<1> QED
  BY <1>1, <1>2, <1>3, <1>4 DEF Next

\* The loop of NDS_exec is always in one of its places.
LEMMA LoopTyped ==
  ASSUME TypeOK, Next
  PROVE  /\ phase' \in {"frame", "hardware", "loop", "arm9", "arm7"}
         /\ running' \in BOOLEAN
         /\ reschedule' \in BOOLEAN
         /\ sleeping' \in BOOLEAN
<1> USE DEF TypeOK, loopVars, After
<1>1. CASE Frame \/ LoopPass \/ LoopEnd
  BY <1>1 DEF Frame, Input, SleepFrame, BeginFrame, LoopPass, LoopEnd
<1>2. CASE Hardware
  BY <1>2 DEF Hardware, Device, EndFrame, ServeInterrupts
<1>3. ASSUME NEW p \in Procs, Idle(p) \/ EnterBurst(p)
      PROVE  /\ phase' \in {"frame", "hardware", "loop", "arm9", "arm7"}
             /\ running' \in BOOLEAN
             /\ UNCHANGED <<reschedule, sleeping>>
  BY <1>3 DEF Idle, EnterBurst
<1>4. ASSUME NEW p \in Procs, Guest(p)
      PROVE  /\ phase' \in {"frame", "hardware", "loop", "arm9", "arm7"}
             /\ running' \in BOOLEAN
             /\ reschedule' \in BOOLEAN
             /\ sleeping' \in BOOLEAN
  <2>1. CASE OtherCode(p) \/ SwiHalt(p) \/ WriteCPSR(p) \/ ReturnFromIrq(p)
    BY <2>1 DEF OtherCode, SwiHalt, WriteCPSR, ReturnFromIrq
  <2>2. CASE \E discard \in BOOLEAN : IntrWait(p, discard)
    BY <2>2 DEF IntrWait
  <2>3. CASE WaitForIrq(p) \/ Branch(p)
    BY <2>3 DEF WaitForIrq, Branch, Exit
  <2>4. CASE Sleep(p) \/ WriteIE(p) \/ WriteIME(p) \/ WriteGXSTAT(p) \/ IPCSync(p)
             \/ Acknowledge(p)
    BY <2>4 DEF Sleep, WriteIE, WriteIME, WriteGXSTAT, IPCSync, Acknowledge, StoreChecked
  <2> QED
    BY <1>4, <2>1, <2>2, <2>3, <2>4 DEF Guest
<1> QED
  BY <1>1, <1>2, <1>3, <1>4 DEF Next

\* The first state has its types.
LEMMA InitTyped == Init => TypeOK
<1> SUFFICES ASSUME Init PROVE TypeOK
  OBVIOUS
<1>1. sync \in [Procs -> SyncReg]
  BY NibblesAssumption DEF Init, SyncReg
<1>2. /\ reg_IE \in [Procs -> SUBSET Irqs]
      /\ reg_IF \in [Procs -> SUBSET (Irqs \ {GX})]
      /\ reg_IME \in [Procs -> BOOLEAN]
  BY IrqsAssumption DEF Init
<1>3. waitIRQ \in [Procs -> BOOLEAN] /\ halt_IE_and_IF \in [Procs -> BOOLEAN]
  BY DEF Init
<1>4. /\ R15 \in [Procs -> Places]
      /\ R14_irq \in [Procs -> Places]
      /\ pc \in [Procs -> Places]
  BY DEF Init, Places, BEFORE, CALL, RETURN
<1> QED
  BY <1>1, <1>2, <1>3, <1>4 DEF Init, TypeOK

\* Nothing a game does, whatever it is made of, brings a register out of its type.
THEOREM TypeCorrect == Spec => []TypeOK
<1>1. TypeOK /\ [Next]_vars => TypeOK'
  <2> SUFFICES ASSUME TypeOK, [Next]_vars
               PROVE  TypeOK'
    OBVIOUS
  <2>1. CASE Next
    <3>1. game' \in Games
      BY <2>1 DEF TypeOK, Next
    <3> QED
      BY <2>1, <3>1, RegistersTyped, HaltTyped, CodeTyped, LoopTyped DEF TypeOK
  <2>2. CASE UNCHANGED vars
    BY <2>2 DEF TypeOK, vars, irqVars, haltVars, codeVars, loopVars
  <2> QED
    BY <2>1, <2>2
<1> QED
  BY InitTyped, <1>1, PTL DEF Spec

-----------------------------------------------------------------------------
\* ServeInterrupts clears the two flags of halting together: a processor that
\* takes an exception has an interrupt enabled, which has woken it before.
LEMMA ServeKeepsHalt ==
  ASSUME TypeOK, HaltIsWait, ServeInterrupts
  PROVE  HaltIsWait'
<1>1. ASSUME NEW p \in Procs PROVE waitIRQ'[p] = halt_IE_and_IF'[p]
  <2>1. waitIRQ[p] = halt_IE_and_IF[p]
    BY DEF HaltIsWait
  <2>2. Taken(p) /\ halt_IE_and_IF[p] => Woken(p)
    BY DEF Taken, Woken
  <2>3. /\ halt_IE_and_IF'[p] = (halt_IE_and_IF[p] /\ ~Woken(p))
        /\ waitIRQ'[p] = (waitIRQ[p] /\ ~Woken(p) /\ ~Taken(p))
    BY <1>1 DEF ServeInterrupts
  <2> QED
    BY <2>1, <2>2, <2>3
<1>2. /\ waitIRQ' = [p \in Procs |-> waitIRQ'[p]]
      /\ halt_IE_and_IF' = [p \in Procs |-> halt_IE_and_IF'[p]]
  BY DEF ServeInterrupts
<1> QED
  BY <1>1, <1>2 DEF HaltIsWait

\* The two flags of a halted processor always agree, although the exception
\* clears only one of them.
THEOREM HaltFlagsAgree == Spec => []HaltIsWait
<1>1. Init => HaltIsWait
  BY DEF Init, HaltIsWait
<1>2. TypeOK /\ HaltIsWait /\ [Next]_vars => HaltIsWait'
  <2> SUFFICES ASSUME TypeOK, HaltIsWait, [Next]_vars
               PROVE  HaltIsWait'
    OBVIOUS
  <2>1. CASE Frame \/ LoopPass \/ LoopEnd \/ Device \/ EndFrame
    BY <2>1 DEF Frame, Input, SleepFrame, BeginFrame, LoopPass, LoopEnd, Device, EndFrame,
                haltVars, HaltIsWait
  <2>2. CASE ServeInterrupts
    BY <2>2, ServeKeepsHalt
  <2>3. ASSUME NEW p \in Procs, Idle(p) \/ EnterBurst(p)
        PROVE  HaltIsWait'
    BY <2>3 DEF Idle, EnterBurst, haltVars, HaltIsWait
  <2>4. ASSUME NEW p \in Procs, Guest(p)
        PROVE  HaltIsWait'
    <3>1. ASSUME Halt(p) PROVE HaltIsWait'
      BY <3>1 DEF Halt, HaltIsWait
    <3>2. CASE SwiHalt(p) \/ WaitForIrq(p)
      BY <3>1, <3>2 DEF SwiHalt, WaitForIrq
    <3>3. ASSUME NEW discard \in BOOLEAN, IntrWait(p, discard) PROVE HaltIsWait'
      <4>1. Halt(p) \/ UNCHANGED <<waitIRQ, halt_IE_and_IF>>
        BY <3>3 DEF IntrWait
      <4> QED
        BY <3>1, <4>1 DEF HaltIsWait
    <3>4. CASE OtherCode(p) \/ Sleep(p) \/ WriteIE(p) \/ WriteIME(p) \/ WriteCPSR(p)
               \/ WriteGXSTAT(p) \/ IPCSync(p) \/ Branch(p) \/ Acknowledge(p)
               \/ ReturnFromIrq(p)
      BY <3>4 DEF OtherCode, Sleep, WriteIE, WriteIME, WriteCPSR, WriteGXSTAT, IPCSync, Branch,
                  Acknowledge, ReturnFromIrq, haltVars, HaltIsWait
    <3> QED
      BY <2>4, <3>2, <3>3, <3>4 DEF Guest
  <2>5. CASE UNCHANGED vars
    BY <2>5 DEF vars, haltVars, HaltIsWait
  <2> QED
    BY <2>1, <2>2, <2>3, <2>4, <2>5 DEF Next, Hardware
<1> QED
  BY <1>1, <1>2, TypeCorrect, PTL DEF Spec

\* The lines that a write of IPCSYNC sets are those that the other processor
\* reads, whoever writes.
LEMMA SyncKeepsLines ==
  ASSUME TypeOK, SyncMirrored, NEW p \in Procs, IPCSync(p)
  PROVE  SyncMirrored'
<1>1. PICK out \in Nibbles, recv \in BOOLEAN :
        sync' = [sync EXCEPT ![p] = [@ EXCEPT !.out = out, !.recv = recv],
                             ![Other(p)] = [@ EXCEPT !.in = out]]
  BY DEF IPCSync
<1>2. Other(p) \in Procs /\ Other(p) # p /\ Other(Other(p)) = p
  BY DEF Procs, Other
<1>3. /\ sync[p] \in SyncReg /\ sync[Other(p)] \in SyncReg
      /\ sync[p].in = sync[Other(p)].out
  BY <1>2 DEF TypeOK, SyncMirrored
<1>4. /\ sync'[p] = [sync[p] EXCEPT !.out = out, !.recv = recv]
      /\ sync'[Other(p)] = [sync[Other(p)] EXCEPT !.in = out]
  BY <1>1, <1>2 DEF TypeOK
<1>5. sync'[p].in = sync'[Other(p)].out /\ sync'[Other(p)].in = sync'[p].out
  BY <1>3, <1>4 DEF SyncReg
<1>6. \A q \in Procs : q = p \/ q = Other(p)
  BY DEF Procs, Other
<1> QED
  BY <1>2, <1>5, <1>6 DEF SyncMirrored

\* What a processor reads on its four lines is always what the other one wrote.
THEOREM LinesMirrored == Spec => []SyncMirrored
<1>1. Init => SyncMirrored
  BY DEF Init, SyncMirrored, Other, Procs
<1>2. TypeOK /\ SyncMirrored /\ [Next]_vars => SyncMirrored'
  <2> SUFFICES ASSUME TypeOK, SyncMirrored, [Next]_vars
               PROVE  SyncMirrored'
    OBVIOUS
  <2>1. ASSUME UNCHANGED sync PROVE SyncMirrored'
    BY <2>1 DEF SyncMirrored
  <2>2. CASE Frame \/ Hardware \/ LoopPass \/ LoopEnd
    BY <2>1, <2>2 DEF Frame, Input, SleepFrame, BeginFrame, LoopPass, LoopEnd, Hardware, Device,
                      EndFrame, ServeInterrupts, irqVars
  <2>3. ASSUME NEW p \in Procs, Idle(p) \/ EnterBurst(p)
        PROVE  UNCHANGED sync
    BY <2>3 DEF Idle, EnterBurst, irqVars
  <2>4. ASSUME NEW p \in Procs, Guest(p), ~IPCSync(p)
        PROVE  UNCHANGED sync
    BY <2>4 DEF Guest, OtherCode, IntrWait, SwiHalt, WaitForIrq, Sleep, WriteIE, WriteIME,
                WriteCPSR, WriteGXSTAT, Branch, Acknowledge, ReturnFromIrq, irqVars
  <2>5. CASE UNCHANGED vars
    BY <2>1, <2>5 DEF vars, irqVars
  <2> QED
    BY <2>1, <2>2, <2>3, <2>4, <2>5, SyncKeepsLines DEF Next
<1> QED
  BY <1>1, <1>2, TypeCorrect, PTL DEF Spec

\* In the inner loop an interrupt becomes pending only by a write of IE, or by a
\* write of IPCSYNC to the other processor: both reschedule.
LEMMA PendingReschedules ==
  ASSUME TypeOK, Next, NEW p \in Procs,
         ~Pending(p), Pending(p)', phase \in {"loop", "arm9", "arm7"}
  PROVE  reschedule'
<1>1. ~(reg_IE' = reg_IE /\ \A q \in Procs : reg_IF'[q] \subseteq reg_IF[q])
  BY DEF Pending
<1>2. ASSUME UNCHANGED <<reg_IE, reg_IF>> PROVE FALSE
  BY <1>1, <1>2
<1>3. CASE Frame \/ Hardware \/ LoopPass \/ LoopEnd
  BY <1>2, <1>3 DEF Frame, Input, SleepFrame, BeginFrame, LoopPass, LoopEnd, Hardware, Device,
                    EndFrame, ServeInterrupts, irqVars
<1>4. ASSUME NEW q \in Procs, Idle(q) \/ EnterBurst(q) PROVE FALSE
  BY <1>2, <1>4 DEF Idle, EnterBurst, irqVars
<1>5. ASSUME NEW q \in Procs, Guest(q) PROVE reschedule'
  <2>1. CASE WriteIE(q) \/ IPCSync(q) \/ Acknowledge(q)
    BY <2>1 DEF WriteIE, IPCSync, Acknowledge
  <2>2. CASE ~(WriteIE(q) \/ IPCSync(q) \/ Acknowledge(q))
    <3>1. UNCHANGED <<reg_IE, reg_IF>>
      BY <1>5, <2>2 DEF Guest, OtherCode, IntrWait, SwiHalt, WaitForIrq, Sleep, WriteIME,
                WriteCPSR, WriteGXSTAT, Branch, ReturnFromIrq, irqVars
    <3> QED
      BY <1>2, <3>1
  <2> QED
    BY <2>1, <2>2
<1> QED
  BY <1>3, <1>4, <1>5 DEF Next

\* An interrupt that becomes pending while the inner loop runs ends the loop,
\* for every game.
THEOREM RaiseEndsTheLoop == Spec => RaiseEndsLoop
<1>1. TypeOK /\ [Next]_vars =>
        [\A p \in Procs :
           halt_IE_and_IF[p] /\ ~Pending(p) /\ Pending(p)'
           /\ phase \in {"loop", "arm9", "arm7"} => reschedule']_vars
  <2> SUFFICES ASSUME TypeOK, Next, NEW p \in Procs,
                      ~Pending(p), Pending(p)', phase \in {"loop", "arm9", "arm7"}
               PROVE  reschedule'
    OBVIOUS
  <2> QED
    BY PendingReschedules
<1> QED
  BY <1>1, TypeCorrect, PTL DEF Spec, RaiseEndsLoop

\* Both copies agree: the two flags of a halt and the two registers of the lines.
THEOREM HaltsAlwaysAgree == Spec => []HaltsAgree
<1>1. TypeOK /\ HaltIsWait /\ SyncMirrored => HaltsAgree
  BY DEF HaltsAgree
<1> QED
  BY <1>1, TypeCorrect, HaltFlagsAgree, LinesMirrored, PTL

-----------------------------------------------------------------------------
\* The shape of the record: which fields it has, and which have a value for each region, kind of
\* access, register or coordinate.
Fields ==
  {"ctrl", "DaccessPerm", "IaccessPerm", "base", "dtcm", "plain", "itcm", "access", "rwMode", "mmuDtcm",
   "high", "ldt", "waits", "masked", "held"}
Formed(s) ==
  /\ s = [f \in Fields |-> s[f]]
  /\ s.base = [r \in Regions |-> s.base[r]]
  /\ s.plain = [n \in Plain |-> s.plain[n]]
  /\ s.access = [k \in Kinds |-> s.access[k]]
  /\ s.held = [c \in Coordinates |-> s.held[c]]
SystemInv(s) == Formed(s) /\ Applied(s)

\* The five registers that only keep what is written, and their coordinates.
LEMMA PlainNames ==
  /\ Plain = {"DCConfig", "ICConfig", "writeBuffCtrl", "DcacheLock", "IcacheLock"}
  /\ PlainWrite["DCConfig"] = <<2, 0, 0>> /\ PlainWrite["ICConfig"] = <<2, 0, 1>>
  /\ PlainWrite["writeBuffCtrl"] = <<3, 0, 0>> /\ PlainWrite["DcacheLock"] = <<9, 0, 0>>
  /\ PlainWrite["IcacheLock"] = <<9, 0, 1>>
BY DEF Plain, PlainWrite

\* MRC reads a plain register where MCR writes it (armcp15_moveARM2CP, armcp15_moveCP2ARM).
LEMMA PlainReadsWritten ==
  ASSUME NEW n \in Plain
  PROVE  /\ PlainRead(PlainWrite[n]) = n
         /\ PlainWrite[n][1] \in {2, 3, 9}
         /\ PlainWrite[n] \notin {Control, DataPermission, CodePermission, Dtcm, Itcm}
BY PlainNames DEF PlainRead, Control, DataPermission, CodePermission, Dtcm, Itcm

\* What MRC reads of each register (armcp15_moveCP2ARM).
LEMMA MRCReads ==
  ASSUME NEW s
  PROVE  /\ MoveCP2ARM(s, Control) = s.ctrl
         /\ MoveCP2ARM(s, DataPermission) = s.DaccessPerm
         /\ MoveCP2ARM(s, CodePermission) = s.IaccessPerm
         /\ \A r \in Regions : MoveCP2ARM(s, BaseOf(r)) = s.base[r]
         /\ MoveCP2ARM(s, Dtcm) = s.dtcm
         /\ MoveCP2ARM(s, Itcm) = s.itcm
         /\ \A n \in Plain : MoveCP2ARM(s, PlainWrite[n]) = s.plain[n]
<1>1. /\ MoveCP2ARM(s, Control) = s.ctrl
      /\ MoveCP2ARM(s, DataPermission) = s.DaccessPerm
      /\ MoveCP2ARM(s, CodePermission) = s.IaccessPerm
      /\ MoveCP2ARM(s, Dtcm) = s.dtcm
      /\ MoveCP2ARM(s, Itcm) = s.itcm
  <2>1. /\ Control[1] = 1 /\ DataPermission[1] = 5 /\ CodePermission[1] = 5
        /\ Dtcm[1] = 9 /\ Itcm[1] = 9
    BY DEF Control, DataPermission, CodePermission, Dtcm, Itcm
  <2>2. /\ Control \notin {DataPermission, CodePermission, Dtcm, Itcm}
        /\ DataPermission \notin {CodePermission, Dtcm, Itcm}
        /\ CodePermission \notin {Dtcm, Itcm} /\ Dtcm # Itcm
    BY DEF Control, DataPermission, CodePermission, Dtcm, Itcm
  <2> QED
    BY <2>1, <2>2 DEF MoveCP2ARM
<1>2. ASSUME NEW r \in Regions PROVE MoveCP2ARM(s, BaseOf(r)) = s.base[r]
  <2>1. /\ BaseOf(r)[1] = 6 /\ BaseOf(r)[2] = r
        /\ BaseOf(r) \notin {Control, DataPermission, CodePermission}
        /\ Dtcm[1] = 9 /\ Itcm[1] = 9
    BY DEF BaseOf, Control, DataPermission, CodePermission, Dtcm, Itcm
  <2> QED
    BY <2>1 DEF MoveCP2ARM
<1>3. ASSUME NEW n \in Plain PROVE MoveCP2ARM(s, PlainWrite[n]) = s.plain[n]
  <2> DEFINE c == PlainWrite[n]
  <2>1. c[1] # 0 /\ c[1] # 6 /\ c \notin {Control, DataPermission, CodePermission, Dtcm, Itcm}
    BY PlainReadsWritten
  <2> HIDE DEF c
  <2>2. MoveCP2ARM(s, c) = s.plain[PlainRead(c)]
    BY <2>1 DEF MoveCP2ARM
  <2> QED
    BY <2>2, PlainReadsWritten DEF c
<1> QED
  BY <1>1, <1>2, <1>3

\* Every register has a coordinate.
LEMMA InCoordinates ==
  /\ {Control, DataPermission, CodePermission, Dtcm, Itcm} \subseteq Coordinates
  /\ \A r \in Regions : BaseOf(r) \in Coordinates
  /\ \A n \in Plain : PlainWrite[n] \in Coordinates
BY DEF Coordinates

\* Two records with the same registers, the same copies, the same masks.
SameRegisters(t, s) ==
  /\ t.ctrl = s.ctrl /\ t.DaccessPerm = s.DaccessPerm /\ t.IaccessPerm = s.IaccessPerm
  /\ t.base = s.base /\ t.dtcm = s.dtcm /\ t.plain = s.plain /\ t.itcm = s.itcm
SameCopies(t, s) ==
  /\ t.rwMode = s.rwMode /\ t.mmuDtcm = s.mmuDtcm /\ t.high = s.high /\ t.ldt = s.ldt
SameMasks(t, s) == t.access = s.access /\ t.masked = s.masked

\* Noting what was written changes nothing else.
LEMMA NoteKeeps ==
  ASSUME NEW t, NEW c \in Coordinates, NEW v, Formed(t)
  PROVE  /\ Formed(Note(t, c, v))
         /\ SameRegisters(Note(t, c, v), t) /\ SameCopies(Note(t, c, v), t) /\ SameMasks(Note(t, c, v), t)
         /\ Note(t, c, v).held = [t.held EXCEPT ![c] = v]
BY DEF Formed, Fields, Note, SameRegisters, SameCopies, SameMasks

\* A write noted at its coordinate, that left what MRC reads elsewhere, reads back.
LEMMA ReadsNoted ==
  ASSUME NEW s, NEW t, NEW c \in Coordinates, NEW v, SystemInv(s),
         t.held = [s.held EXCEPT ![c] = v], MoveCP2ARM(t, c) = v,
         \A d \in Coordinates \ {c} : MoveCP2ARM(t, d) = MoveCP2ARM(s, d)
  PROVE  ReadsBack(t)
BY DEF SystemInv, Applied, Formed, ReadsBack

\* The control register: what depends on its bits 7, 13 and 15 is written with it.
LEMMA ControlWritten ==
  ASSUME NEW s, NEW bits, SystemInv(s)
  PROVE  SystemInv(WriteControl(s, bits))
<1> DEFINE t == WriteControl(s, bits)
<1> HIDE DEF t
<1>1. /\ Formed(t)
      /\ t.ctrl = ControlWord(bits) /\ t.DaccessPerm = s.DaccessPerm /\ t.IaccessPerm = s.IaccessPerm
      /\ t.base = s.base /\ t.dtcm = s.dtcm /\ t.plain = s.plain /\ t.itcm = s.itcm /\ t.access = s.access
      /\ t.rwMode = (7 \in bits) /\ t.mmuDtcm = s.mmuDtcm /\ t.high = (13 \in bits) /\ t.ldt = (15 \notin bits)
      /\ t.masked = s.masked /\ t.held = [s.held EXCEPT ![Control] = ControlWord(bits)]
  <2> DEFINE u == [s EXCEPT !.ctrl = ControlWord(bits), !.rwMode = 7 \in bits,
                            !.high = 13 \in bits, !.ldt = 15 \notin bits]
  <2>1. /\ Formed(u)
        /\ u.ctrl = ControlWord(bits) /\ u.DaccessPerm = s.DaccessPerm /\ u.IaccessPerm = s.IaccessPerm
        /\ u.base = s.base /\ u.dtcm = s.dtcm /\ u.plain = s.plain /\ u.itcm = s.itcm
        /\ u.access = s.access /\ u.mmuDtcm = s.mmuDtcm /\ u.masked = s.masked /\ u.held = s.held
    BY DEF SystemInv, Formed, Fields
  <2>2. /\ u.rwMode = (7 \in bits) /\ u.high = (13 \in bits) /\ u.ldt = (15 \notin bits)
    BY DEF SystemInv, Formed, Fields
  <2>3. t = Note(u, Control, ControlWord(bits))
    BY DEF WriteControl, t
  <2> HIDE DEF u
  <2>4. /\ Formed(t) /\ SameRegisters(t, u) /\ SameCopies(t, u) /\ SameMasks(t, u)
        /\ t.held = [u.held EXCEPT ![Control] = ControlWord(bits)]
    <3>1. Control \in Coordinates
      BY InCoordinates
    <3> QED
      BY <2>1, <2>3, <3>1, NoteKeeps
  <2>5. /\ t.rwMode = (7 \in bits) /\ t.high = (13 \in bits) /\ t.ldt = (15 \notin bits)
    BY <2>2, <2>4, Zenon DEF SameCopies
  <2> QED
    BY <2>1, <2>4, <2>5, Zenon DEF SameRegisters, SameCopies, SameMasks
<1>2. CopiesAgree(t)
  BY <1>1 DEF SystemInv, Applied, CopiesAgree, ControlWord, Fixed, Writable
<1>3. MasksFollow(t)
  BY <1>1 DEF SystemInv, Applied, MasksFollow
<1>4. ReadsBack(t)
  <2>1. MoveCP2ARM(t, Control) = ControlWord(bits)
    BY <1>1, MRCReads
  <2>2. ASSUME NEW d \in Coordinates \ {Control} PROVE MoveCP2ARM(t, d) = MoveCP2ARM(s, d)
    BY <1>1, MRCReads DEF Coordinates
  <2> QED
    BY <1>1, <2>1, <2>2, InCoordinates, ReadsNoted
<1> QED
  BY <1>1, <1>2, <1>3, <1>4 DEF SystemInv, Applied, t

\* The masks follow as long as the permissions, the bases and the masks stay as they are.
LEMMA MasksStay ==
  ASSUME NEW s, NEW t, MasksFollow(s), t.DaccessPerm = s.DaccessPerm, t.IaccessPerm = s.IaccessPerm,
         t.base = s.base, t.access = s.access, t.masked = s.masked
  PROVE  MasksFollow(t)
BY DEF MasksFollow

\* A plain register, the address of ITCM and of DTCM: the masks stay, and the two copies of the
\* address are written together.
LEMMA PlainWritten ==
  ASSUME NEW s, NEW n \in Plain, NEW w, SystemInv(s)
  PROVE  SystemInv(WritePlain(s, n, w))
<1> DEFINE t == WritePlain(s, n, w)
           u == [s EXCEPT !.plain[n] = w]
<1>1. /\ Formed(u) /\ SameCopies(u, s) /\ SameMasks(u, s) /\ u.held = s.held
      /\ u.ctrl = s.ctrl /\ u.DaccessPerm = s.DaccessPerm /\ u.IaccessPerm = s.IaccessPerm
      /\ u.base = s.base /\ u.dtcm = s.dtcm /\ u.itcm = s.itcm /\ u.plain = [s.plain EXCEPT ![n] = w]
  BY DEF SystemInv, Formed, Fields, SameCopies, SameMasks
<1>2. t = Note(u, PlainWrite[n], w)
  BY DEF WritePlain
<1> HIDE DEF t, u
<1>3. /\ Formed(t) /\ SameRegisters(t, u) /\ SameCopies(t, u) /\ SameMasks(t, u)
      /\ t.held = [u.held EXCEPT ![PlainWrite[n]] = w]
  BY <1>1, <1>2, NoteKeeps, InCoordinates
<1>4. CopiesAgree(t)
  BY <1>1, <1>3 DEF SystemInv, Applied, CopiesAgree, SameRegisters, SameCopies
<1>5. MasksFollow(t)
  BY <1>1, <1>3, MasksStay DEF SystemInv, Applied, SameRegisters, SameMasks
<1>6. ReadsBack(t)
  <2>1. MoveCP2ARM(t, PlainWrite[n]) = w
    BY <1>1, <1>3, MRCReads DEF SystemInv, Formed, SameRegisters
  <2>2. ASSUME NEW d \in Coordinates \ {PlainWrite[n]} PROVE MoveCP2ARM(t, d) = MoveCP2ARM(s, d)
    <3>1. CASE \E m \in Plain : d = PlainWrite[m]
      <4>1. PICK m \in Plain : d = PlainWrite[m] /\ m # n
        BY <3>1
      <4>2. t.plain[m] = s.plain[m]
        BY <1>1, <1>3, <4>1 DEF SystemInv, Formed, SameRegisters
      <4> QED
        BY <4>1, <4>2, MRCReads
    <3>2. CASE ~\E m \in Plain : d = PlainWrite[m]
      BY <1>1, <1>3, <3>2, MRCReads DEF Coordinates, SameRegisters
    <3> QED
      BY <3>1, <3>2
  <2> QED
    BY <1>1, <1>3, <2>1, <2>2, InCoordinates, ReadsNoted
<1> QED
  BY <1>3, <1>4, <1>5, <1>6 DEF SystemInv, Applied, t

\* The addresses of DTCM, of which both copies are written together, and of ITCM.
LEMMA TcmWritten ==
  ASSUME NEW s, NEW w, SystemInv(s)
  PROVE  SystemInv(WriteDtcm(s, w)) /\ SystemInv(WriteItcm(s, w))
<1>1. SystemInv(WriteDtcm(s, w))
  <2> DEFINE t == WriteDtcm(s, w)
             a == DtcmAddress(w)
             u == [s EXCEPT !.dtcm = a, !.mmuDtcm = a]
  <2>1. t = Note(u, Dtcm, a)
    BY DEF WriteDtcm
  <2> HIDE DEF a
  <2>2. /\ Formed(u) /\ SameMasks(u, s) /\ u.held = s.held
        /\ u.rwMode = s.rwMode /\ u.high = s.high /\ u.ldt = s.ldt /\ u.mmuDtcm = a
        /\ u.ctrl = s.ctrl /\ u.DaccessPerm = s.DaccessPerm /\ u.IaccessPerm = s.IaccessPerm
        /\ u.base = s.base /\ u.dtcm = a /\ u.itcm = s.itcm /\ u.plain = s.plain
    BY DEF SystemInv, Formed, Fields, SameMasks
  <2> HIDE DEF t, u
  <2>3. /\ Formed(t) /\ SameRegisters(t, u) /\ SameCopies(t, u) /\ SameMasks(t, u)
        /\ t.held = [u.held EXCEPT ![Dtcm] = a]
    BY <2>1, <2>2, NoteKeeps, InCoordinates
  <2>4. CopiesAgree(t)
    BY <2>2, <2>3 DEF SystemInv, Applied, CopiesAgree, SameRegisters, SameCopies
  <2>5. MasksFollow(t)
    BY <2>2, <2>3, MasksStay DEF SystemInv, Applied, SameRegisters, SameMasks
  <2>6. ReadsBack(t)
    <3>1. MoveCP2ARM(t, Dtcm) = a
      BY <2>2, <2>3, MRCReads DEF SameRegisters
    <3>2. ASSUME NEW d \in Coordinates \ {Dtcm} PROVE MoveCP2ARM(t, d) = MoveCP2ARM(s, d)
      BY <2>2, <2>3, MRCReads DEF Coordinates, SameRegisters
    <3> QED
      BY <2>2, <2>3, <3>1, <3>2, InCoordinates, ReadsNoted
  <2> QED
    BY <2>3, <2>4, <2>5, <2>6 DEF SystemInv, Applied, t
<1>2. SystemInv(WriteItcm(s, w))
  <2> DEFINE t == WriteItcm(s, w)
             u == [s EXCEPT !.itcm = w]
  <2>1. t = Note(u, Itcm, w)
    BY DEF WriteItcm
  <2>2. /\ Formed(u) /\ SameCopies(u, s) /\ SameMasks(u, s) /\ u.held = s.held
        /\ u.ctrl = s.ctrl /\ u.DaccessPerm = s.DaccessPerm /\ u.IaccessPerm = s.IaccessPerm
        /\ u.base = s.base /\ u.dtcm = s.dtcm /\ u.itcm = w /\ u.plain = s.plain
    BY DEF SystemInv, Formed, Fields, SameCopies, SameMasks
  <2> HIDE DEF t, u
  <2>3. /\ Formed(t) /\ SameRegisters(t, u) /\ SameCopies(t, u) /\ SameMasks(t, u)
        /\ t.held = [u.held EXCEPT ![Itcm] = w]
    BY <2>1, <2>2, NoteKeeps, InCoordinates
  <2>4. CopiesAgree(t)
    BY <2>2, <2>3 DEF SystemInv, Applied, CopiesAgree, SameRegisters, SameCopies
  <2>5. MasksFollow(t)
    BY <2>2, <2>3, MasksStay DEF SystemInv, Applied, SameRegisters, SameMasks
  <2>6. ReadsBack(t)
    <3>1. MoveCP2ARM(t, Itcm) = w
      BY <2>2, <2>3, MRCReads DEF SameRegisters
    <3>2. ASSUME NEW d \in Coordinates \ {Itcm} PROVE MoveCP2ARM(t, d) = MoveCP2ARM(s, d)
      BY <2>2, <2>3, MRCReads DEF Coordinates, SameRegisters
    <3> QED
      BY <2>2, <2>3, <3>1, <3>2, InCoordinates, ReadsNoted
  <2> QED
    BY <2>3, <2>4, <2>5, <2>6 DEF SystemInv, Applied, t
<1> QED
  BY <1>1, <1>2

\* armcp15_maskPrecalc works all masks out from the registers (but the execute masks of nibble 5).
LEMMA MasksWorkedOut ==
  ASSUME NEW s, Formed(s)
  PROVE  /\ Formed(MaskPrecalc(s)) /\ MasksFollow(MaskPrecalc(s))
         /\ SameRegisters(MaskPrecalc(s), s) /\ SameCopies(MaskPrecalc(s), s)
         /\ MaskPrecalc(s).held = s.held
<1> DEFINE t == MaskPrecalc(s)
           m == [k \in Kinds |-> [r \in Regions |-> RegionAccess(s, k, r)]]
<1>1. t = [s EXCEPT !.masked = TRUE, !.access = m]
  BY DEF MaskPrecalc
<1> HIDE DEF t
<1>2. m = [k \in Kinds |-> m[k]]
  OBVIOUS
<1>3. \A k \in Kinds, r \in Regions : m[k][r] = RegionAccess(s, k, r)
  OBVIOUS
<1> HIDE DEF m
<1>4. /\ Formed(t) /\ SameRegisters(t, s) /\ SameCopies(t, s) /\ t.held = s.held /\ t.access = m
  BY <1>1, <1>2 DEF Formed, Fields, SameRegisters, SameCopies
<1>5. MasksFollow(t)
  <2>1. Code \subseteq Kinds
    BY DEF Kinds, Code
  <2>2. ASSUME NEW r \in Regions, NEW k \in Kinds \ Code
        PROVE  t.access[k][r] = IF k \in DataKinds(t.DaccessPerm[r]) THEN Area(t.base[r]) ELSE {}
    BY <1>3, <1>4 DEF RegionAccess, SameRegisters
  <2>3. ASSUME NEW r \in Regions, t.IaccessPerm[r] # 5, NEW k \in Code
        PROVE  t.access[k][r] = IF k \in CodeKinds(t.IaccessPerm[r]) THEN Area(t.base[r]) ELSE {}
    BY <1>3, <1>4, <2>1, <2>3 DEF RegionAccess, SameRegisters
  <2> QED
    BY <2>2, <2>3 DEF MasksFollow
<1> QED
  BY <1>4, <1>5 DEF t

\* A permission, a base or a size: the register, then the masks, then the note.
LEMMA ProtectionWritten ==
  ASSUME NEW s, NEW u, NEW c \in Coordinates, NEW v, SystemInv(s), Formed(u), SameCopies(u, s),
         u.held = s.held, u.ctrl = s.ctrl, u.dtcm = s.dtcm, MoveCP2ARM(u, c) = v,
         \A d \in Coordinates \ {c} : MoveCP2ARM(u, d) = MoveCP2ARM(s, d)
  PROVE  SystemInv(Note(MaskPrecalc(u), c, v))
<1> DEFINE p == MaskPrecalc(u)
           t == Note(p, c, v)
<1>1. /\ Formed(p) /\ MasksFollow(p) /\ SameRegisters(p, u) /\ SameCopies(p, u) /\ p.held = u.held
  BY MasksWorkedOut
<1> HIDE DEF p
<1>2. /\ Formed(t) /\ SameRegisters(t, p) /\ SameCopies(t, p) /\ SameMasks(t, p)
      /\ t.held = [p.held EXCEPT ![c] = v]
  BY <1>1, NoteKeeps
<1> HIDE DEF t
<1>3. CopiesAgree(t)
  BY <1>1, <1>2 DEF SystemInv, Applied, CopiesAgree, SameRegisters, SameCopies
<1>4. MasksFollow(t)
  BY <1>1, <1>2, MasksStay DEF SameRegisters, SameMasks
<1>5. SameRegisters(t, u)
  BY <1>1, <1>2 DEF SameRegisters
<1>6. \A d \in Coordinates : MoveCP2ARM(t, d) = MoveCP2ARM(u, d)
  BY <1>5, MRCReads DEF Coordinates, SameRegisters
<1>7. ReadsBack(t)
  BY <1>1, <1>2, <1>6, ReadsNoted
<1> QED
  BY <1>2, <1>3, <1>4, <1>7 DEF SystemInv, Applied, t, p

\* The permissions of data and of code.
LEMMA PermissionWritten ==
  ASSUME NEW s, NEW p, SystemInv(s)
  PROVE  SystemInv(WriteDataPermission(s, p)) /\ SystemInv(WriteCodePermission(s, p))
<1>1. SystemInv(WriteDataPermission(s, p))
  <2> DEFINE u == [s EXCEPT !.DaccessPerm = p]
  <2>1. /\ Formed(u) /\ SameCopies(u, s) /\ u.held = s.held
        /\ u.ctrl = s.ctrl /\ u.DaccessPerm = p /\ u.IaccessPerm = s.IaccessPerm
        /\ u.base = s.base /\ u.dtcm = s.dtcm /\ u.itcm = s.itcm /\ u.plain = s.plain
    BY DEF SystemInv, Formed, Fields, SameCopies
  <2>2. WriteDataPermission(s, p) = Note(MaskPrecalc(u), DataPermission, p)
    BY DEF WriteDataPermission
  <2> HIDE DEF u
  <2>3. MoveCP2ARM(u, DataPermission) = p
    BY <2>1, MRCReads
  <2>4. \A d \in Coordinates \ {DataPermission} : MoveCP2ARM(u, d) = MoveCP2ARM(s, d)
    BY <2>1, MRCReads DEF Coordinates
  <2> QED
    BY <2>1, <2>2, <2>3, <2>4, InCoordinates, ProtectionWritten
<1>2. SystemInv(WriteCodePermission(s, p))
  <2> DEFINE u == [s EXCEPT !.IaccessPerm = p]
  <2>1. /\ Formed(u) /\ SameCopies(u, s) /\ u.held = s.held
        /\ u.ctrl = s.ctrl /\ u.DaccessPerm = s.DaccessPerm /\ u.IaccessPerm = p
        /\ u.base = s.base /\ u.dtcm = s.dtcm /\ u.itcm = s.itcm /\ u.plain = s.plain
    BY DEF SystemInv, Formed, Fields, SameCopies
  <2>2. WriteCodePermission(s, p) = Note(MaskPrecalc(u), CodePermission, p)
    BY DEF WriteCodePermission
  <2> HIDE DEF u
  <2>3. MoveCP2ARM(u, CodePermission) = p
    BY <2>1, MRCReads
  <2>4. \A d \in Coordinates \ {CodePermission} : MoveCP2ARM(u, d) = MoveCP2ARM(s, d)
    BY <2>1, MRCReads DEF Coordinates
  <2> QED
    BY <2>1, <2>2, <2>3, <2>4, InCoordinates, ProtectionWritten
<1> QED
  BY <1>1, <1>2

\* Base and size of a region.
LEMMA BaseWritten ==
  ASSUME NEW s, NEW r \in Regions, NEW b, SystemInv(s)
  PROVE  SystemInv(WriteBase(s, r, b))
<1> DEFINE u == [s EXCEPT !.base[r] = b]
<1>1. /\ Formed(u) /\ SameCopies(u, s) /\ u.held = s.held
      /\ u.ctrl = s.ctrl /\ u.DaccessPerm = s.DaccessPerm /\ u.IaccessPerm = s.IaccessPerm
      /\ u.base = [s.base EXCEPT ![r] = b]
      /\ u.dtcm = s.dtcm /\ u.itcm = s.itcm /\ u.plain = s.plain
  BY DEF SystemInv, Formed, Fields, SameCopies
<1>2. WriteBase(s, r, b) = Note(MaskPrecalc(u), BaseOf(r), b)
  BY DEF WriteBase
<1> HIDE DEF u
<1>3. MoveCP2ARM(u, BaseOf(r)) = b
  BY <1>1, MRCReads DEF SystemInv, Formed
<1>4. ASSUME NEW d \in Coordinates \ {BaseOf(r)} PROVE MoveCP2ARM(u, d) = MoveCP2ARM(s, d)
  <2>1. CASE \E q \in Regions : d = BaseOf(q)
    <3>1. PICK q \in Regions : d = BaseOf(q) /\ q # r
      BY <2>1
    <3>2. u.base[q] = s.base[q]
      BY <1>1, <3>1 DEF SystemInv, Formed
    <3> QED
      BY <3>1, <3>2, MRCReads
  <2>2. CASE ~\E q \in Regions : d = BaseOf(q)
    BY <1>1, <2>2, MRCReads DEF Coordinates
  <2> QED
    BY <2>1, <2>2
<1> QED
  BY <1>1, <1>2, <1>3, <1>4, InCoordinates, ProtectionWritten

\* CP15wait4IRQ and the interrupt that ends it touch no register.
LEMMA WaitingChanged ==
  ASSUME NEW s, NEW w, SystemInv(s)
  PROVE  SystemInv([s EXCEPT !.waits = w])
<1> DEFINE t == [s EXCEPT !.waits = w]
<1>1. Formed(t) /\ SameRegisters(t, s) /\ SameCopies(t, s) /\ SameMasks(t, s) /\ t.held = s.held
  BY DEF SystemInv, Formed, Fields, SameRegisters, SameCopies, SameMasks
<1> HIDE DEF t
<1>2. CopiesAgree(t)
  BY <1>1 DEF SystemInv, Applied, CopiesAgree, SameRegisters, SameCopies
<1>3. MasksFollow(t)
  BY <1>1, MasksStay DEF SystemInv, Applied, SameRegisters, SameMasks
<1>4. \A d \in Coordinates : MoveCP2ARM(t, d) = MoveCP2ARM(s, d)
  BY <1>1, MRCReads DEF Coordinates, SameRegisters
<1>5. ReadsBack(t)
  BY <1>1, <1>4 DEF ReadsBack, SystemInv, Applied
<1> QED
  BY <1>1, <1>2, <1>3, <1>5 DEF SystemInv, Applied, t

\* armcp15_new after MMU_Reset, and after MMU_Init alone.
LEMMA PowerOnApplied == SystemInv(PowerOn) /\ SystemInv(Unloaded)
<1> DEFINE h == [c \in Coordinates |-> MoveCP2ARM(Cold, c)]
<1>1. /\ PowerOn = [Cold EXCEPT !.held = h]
      /\ Unloaded = [PowerOn EXCEPT !.mmuDtcm = UnloadedMmuDtcm]
  BY DEF PowerOn, Unloaded
<1>2. \A c \in Coordinates : h[c] = MoveCP2ARM(Cold, c)
  OBVIOUS
<1>3. h = [c \in Coordinates |-> h[c]]
  OBVIOUS
<1> HIDE DEF h
<1>4. /\ Formed(PowerOn) /\ SameRegisters(PowerOn, Cold) /\ SameCopies(PowerOn, Cold)
      /\ SameMasks(PowerOn, Cold) /\ PowerOn.held = h
  <2>1. /\ DOMAIN Cold = Fields /\ Cold = [f \in Fields |-> Cold[f]]
        /\ Cold.base = [r \in Regions |-> Cold.base[r]]
        /\ Cold.plain = [n \in Plain |-> Cold.plain[n]]
        /\ Cold.access = [k \in Kinds |-> Cold.access[k]]
    BY PlainNames DEF Cold, Fields
  <2> QED
    BY <1>1, <1>3, <2>1 DEF Formed, Fields, SameRegisters, SameCopies, SameMasks
<1>5. /\ Formed(Unloaded) /\ SameRegisters(Unloaded, PowerOn) /\ SameMasks(Unloaded, PowerOn)
      /\ Unloaded.held = PowerOn.held /\ Unloaded.mmuDtcm = UnloadedMmuDtcm
      /\ Unloaded.rwMode = PowerOn.rwMode /\ Unloaded.high = PowerOn.high /\ Unloaded.ldt = PowerOn.ldt
  BY <1>1, <1>4 DEF Formed, Fields, SameRegisters, SameMasks
<1>6. /\ Cold.masked = FALSE /\ Cold.dtcm = PowerOnDtcm /\ Cold.mmuDtcm = PowerOnMmuDtcm
      /\ Cold.ctrl = {3, 4, 5, 6, 13, 16}
  BY DEF Cold
<1>7. /\ Cold.rwMode = (7 \in Cold.ctrl) /\ Cold.high = (13 \in Cold.ctrl) /\ Cold.ldt = (15 \notin Cold.ctrl)
      /\ Fixed \subseteq Cold.ctrl /\ Cold.ctrl \subseteq Fixed \cup Writable
  <2>1. Cold.rwMode = FALSE /\ Cold.high = TRUE /\ Cold.ldt = TRUE
    BY DEF Cold
  <2>2. Cold.rwMode = (7 \in Cold.ctrl) /\ Cold.high = (13 \in Cold.ctrl) /\ Cold.ldt = (15 \notin Cold.ctrl)
    <3>1. 7 \notin Cold.ctrl /\ 13 \in Cold.ctrl /\ 15 \notin Cold.ctrl
      BY <1>6
    <3> QED
      <4>1. (7 \in Cold.ctrl) = FALSE /\ (13 \in Cold.ctrl) = TRUE /\ (15 \notin Cold.ctrl) = TRUE
        BY <3>1
      <4> QED
        BY <2>1, <4>1, Zenon
  <2>3. \A n \in {3, 4, 5, 6, 13, 16} : n \in 3 .. 6 \/ n \in 12 .. 19
    OBVIOUS
  <2> QED
    BY <1>6, <2>2, <2>3 DEF Fixed, Writable
<1>8. CopiesAgree(PowerOn) /\ CopiesAgree(Unloaded)
  BY <1>4, <1>5, <1>6, <1>7 DEF CopiesAgree, SameRegisters, SameCopies
<1>9. MasksFollow(PowerOn) /\ MasksFollow(Unloaded)
  BY <1>4, <1>5, <1>6 DEF MasksFollow, SameMasks
<1>10. \A d \in Coordinates : /\ MoveCP2ARM(PowerOn, d) = MoveCP2ARM(Cold, d)
                              /\ MoveCP2ARM(Unloaded, d) = MoveCP2ARM(Cold, d)
  BY <1>4, <1>5, MRCReads DEF Coordinates, SameRegisters
<1>11. ReadsBack(PowerOn) /\ ReadsBack(Unloaded)
  BY <1>2, <1>4, <1>5, <1>10 DEF ReadsBack
<1> QED
  BY <1>4, <1>5, <1>8, <1>9, <1>11 DEF SystemInv, Applied

\* Whatever MCR writes, the registers, their copies and the masks agree (armcp15_moveARM2CP).
LEMMA McrApplies ==
  ASSUME SystemInv(sys), SystemNext
  PROVE  SystemInv(sys')
<1>1. ASSUME WokenByIrq PROVE SystemInv(sys')
  BY <1>1, WaitingChanged DEF WokenByIrq
<1>2. ASSUME NEW t \in MoveARM2CP(sys) PROVE SystemInv(t)
  BY ControlWritten, PlainWritten, TcmWritten, PermissionWritten, BaseWritten, WaitingChanged
  DEF MoveARM2CP, Wait4Irq
<1> QED
  BY <1>1, <1>2 DEF SystemNext, MoveToSystem

\* Also registers that do not agree, after a load that failed, keep their shape.
LEMMA McrFormed ==
  ASSUME Formed(sys), SystemNext
  PROVE  Formed(sys')
<1> DEFINE s == sys
<1>1. ASSUME NEW u, NEW c \in Coordinates, NEW v, Formed(u)
      PROVE  Formed(Note(u, c, v)) /\ Formed(MaskPrecalc(u))
  BY <1>1, NoteKeeps, MasksWorkedOut
<1>2. ASSUME NEW bits PROVE Formed(WriteControl(s, bits))
  <2>1. ASSUME NEW a, NEW w, NEW h, NEW l
        PROVE  Formed([s EXCEPT !.ctrl = a, !.rwMode = w, !.high = h, !.ldt = l])
    BY DEF Formed, Fields
  <2>2. Formed([s EXCEPT !.ctrl = ControlWord(bits), !.rwMode = 7 \in bits,
                         !.high = 13 \in bits, !.ldt = 15 \notin bits])
    BY <2>1, Zenon
  <2> QED
    BY <1>1, <2>2, InCoordinates DEF WriteControl
<1>3. ASSUME NEW n \in Plain, NEW w PROVE Formed(WritePlain(s, n, w))
  <2>1. Formed([s EXCEPT !.plain[n] = w])
    BY DEF Formed, Fields
  <2> QED
    BY <1>1, <2>1, InCoordinates DEF WritePlain
<1>4. ASSUME NEW w PROVE Formed(WriteDtcm(s, w)) /\ Formed(WriteItcm(s, w))
  <2>1. /\ Formed([s EXCEPT !.dtcm = DtcmAddress(w), !.mmuDtcm = DtcmAddress(w)])
        /\ Formed([s EXCEPT !.itcm = w])
    BY DEF Formed, Fields
  <2> QED
    BY <1>1, <2>1, InCoordinates DEF WriteDtcm, WriteItcm
<1>5. ASSUME NEW p PROVE Formed(WriteDataPermission(s, p)) /\ Formed(WriteCodePermission(s, p))
  <2>1. Formed([s EXCEPT !.DaccessPerm = p]) /\ Formed([s EXCEPT !.IaccessPerm = p])
    BY DEF Formed, Fields
  <2> QED
    BY <1>1, <2>1, InCoordinates DEF WriteDataPermission, WriteCodePermission
<1>6. ASSUME NEW r \in Regions, NEW b PROVE Formed(WriteBase(s, r, b))
  <2>1. Formed([s EXCEPT !.base[r] = b])
    BY DEF Formed, Fields
  <2> QED
    BY <1>1, <2>1, InCoordinates DEF WriteBase
<1>7. ASSUME NEW w PROVE Formed([s EXCEPT !.waits = w])
  BY DEF Formed, Fields
<1>8. ASSUME NEW t \in MoveARM2CP(sys) PROVE Formed(t)
  BY <1>2, <1>3, <1>4, <1>5, <1>6, <1>7 DEF MoveARM2CP, Wait4Irq
<1> QED
  BY <1>7, <1>8 DEF SystemNext, MoveToSystem, WokenByIrq

\* The registers of the coprocessor, their copies in MMU and the processor, and the masks of the
\* protection regions agree at all times while the game runs.
THEOREM SystemApplied == SystemSpec => []Applied(sys)
<1>1. SystemInit => SystemInv(sys)
  BY PowerOnApplied DEF SystemInit
<1>2. SystemInv(sys) /\ [SystemNext]_sys => SystemInv(sys)'
  BY McrApplies
<1>3. SystemInv(sys) => Applied(sys)
  BY DEF SystemInv
<1> QED
  BY <1>1, <1>2, <1>3, PTL DEF SystemSpec

-----------------------------------------------------------------------------
\* The file is what the machine was when it was written; whichever call wrote it, none of the
\* entries SystemControl keeps is missing, and a file not cut short has its terminator.
FileInv ==
  /\ Formed(file.sys) /\ (~file.wrecked => Applied(file.sys))
  /\ file.sys = kept.sys
  /\ \A i \in Parts \ {"wait9"} : file.mach[i] = kept.mach[i]
  /\ file.lacks \cap InSystem = {}
  /\ file.cut = Whole \/ (file.cut.sections \in Int /\ file.cut.sections <= Len(Sections))
SavesInv == Formed(sys) /\ ControlApplied /\ FileInv

\* The fifteen sections and what is in those that matter here.
LEMMA SectionsAre ==
  /\ Len(Sections) = 15 /\ DOMAIN Sections = 1 .. 15
  /\ Whole.sections = 16
  /\ Sections[1] = {"arm9", "vectors", "wait9"} /\ Sections[2] = {"arm7", "wait7"}
  /\ Sections[3] = {"cp15", "access"} /\ Sections[4] = {"memory", "registers"}
  /\ Sections[5] = {"console"} /\ Sections[6] = {"sequencer", "input"}
  /\ Sections[7] = {"mmu", "copies"}
  /\ Sections[8] = {"heading", "version", "backup", "gxstat", "dma", "timing", "math", "touch"}
BY DEF Sections, Whole, Arm9Entries, Arm7Entries, CoprocessorEntries, MemoryEntries, ConsoleEntries,
       SequencerEntries, InputEntries, NdsEntries, MmuEntries, VersionEntries, DeviceEntries,
       BackupEntries, GxstatEntries, DmaEntries, TimingEntries, MathEntries, TouchEntries

\* The sections after section 61.
LEMMA LaterSections ==
  /\ Sections[9] = {"screens"} /\ Sections[10] = {"sound"} /\ Sections[11] = {"engine"}
  /\ Sections[12] = {"lists", "stacks", "lights"} /\ Sections[13] = {"frames"}
  /\ Sections[14] = {"wifi"} /\ Sections[15] = {"clock"}
BY DEF Sections, ScreenEntries, SoundEntries, EngineEntries, ListEntries, FrameEntries,
       WifiEntries, ClockEntries

\* The version of section 61 is in that section alone, and the entries before it have no version.
LEMMA VersionPlace ==
  /\ \A k \in 1 .. 15 : {"heading", "version"} \cap Sections[k] # {} => k = 8
  /\ \A k \in 1 .. 7 : Sections[k] \cap DOMAIN Since = {}
<1>2. \A k \in 1 .. 7 : k = 1 \/ k = 2 \/ k = 3 \/ k = 4 \/ k = 5 \/ k = 6 \/ k = 7
  OBVIOUS
<1>3. DOMAIN Since = {"version", "backup", "gxstat", "dma", "timing", "math", "touch"}
  BY DEF Since
<1>4. ASSUME NEW k \in 1 .. 15, NEW i \in {"heading", "version"}, i \in Sections[k]
      PROVE  k = 8
  <2>1. ASSUME k <= 4 PROVE FALSE
    BY <1>4, <2>1, SectionsAre
  <2>2. ASSUME k \in 5 .. 7 PROVE FALSE
    BY <1>4, <2>2, SectionsAre
  <2>3. ASSUME k \in 9 .. 12 PROVE FALSE
    BY <1>4, <2>3, LaterSections
  <2>4. ASSUME k > 12 PROVE FALSE
    BY <1>4, <2>4, LaterSections
  <2> QED
    BY <2>1, <2>2, <2>3, <2>4
<1>5. \A k \in 1 .. 7 : Sections[k] \cap DOMAIN Since = {}
  BY <1>2, <1>3, SectionsAre
<1> QED
  BY <1>4, <1>5

\* A load that succeeds finds at least the seven sections before section 61 on the disk.
LEMMA SevenSections ==
  ASSUME NEW f, f.cut = Whole \/ (f.cut.sections \in Int /\ f.cut.sections <= Len(Sections)),
         ReadsAll(f) \/ SilentFail(f)
  PROVE  /\ f.cut.sections \in Int /\ f.cut.sections >= 7
         /\ ReadsAll(f) => f.cut = Whole
         /\ SilentFail(f) => f.version = 0 \/ f.cut.sections = 7
<1>1. f.cut.sections \in Int
  BY SectionsAre
<1>2. ReadsAll(f) => f.cut.sections >= 7 /\ f.cut = Whole
  BY <1>1, SectionsAre DEF ReadsAll
<1>3. SilentFail(f) => f.cut.sections >= 7 /\ (f.version = 0 \/ f.cut.sections = 7)
  <2> SUFFICES ASSUME SilentFail(f) PROVE f.cut.sections >= 7 /\ (f.version = 0 \/ f.cut.sections = 7)
    OBVIOUS
  <2>1. 8 <= f.cut.sections \/ (8 = f.cut.sections + 1 /\ "heading" \in f.cut.part)
    BY SectionsAre, VersionPlace DEF SilentFail, Present
  <2>2. f.version = 0 \/ ~Present(f, "version")
    BY DEF SilentFail, VersionRead
  <2>3. 8 <= f.cut.sections => Present(f, "version")
    BY SectionsAre DEF Present
  <2> QED
    BY <1>1, <2>1, <2>2, <2>3
<1> QED
  BY <1>1, <1>2, <1>3

\* A load that succeeds restores what the sections before section 61 hold.
LEMMA EarlyRestored ==
  ASSUME NEW f, f.cut.sections \in Int, f.cut.sections >= 7,
         NEW i, i \notin f.lacks, Early(i)
  PROVE  Restored(f, i)
<1>1. PICK k \in 1 .. 7 : i \in Sections[k]
  BY DEF Early, Mmu61
<1>2. k \in DOMAIN Sections /\ k <= f.cut.sections
  BY SectionsAre
<1>3. i \notin DOMAIN Since
  BY <1>1, VersionPlace
<1> QED
  BY <1>1, <1>2, <1>3 DEF Restored, Present, Mmu61

\* The entries that SystemControl keeps are in those seven.
LEMMA SystemEarly == \A i \in InSystem : Early(i)
BY SectionsAre DEF InSystem, Early, Mmu61

\* So the registers of the coprocessor and their copies are those of the file.
LEMMA SystemRestored ==
  ASSUME NEW f, NEW left, Formed(f.sys), f.lacks \cap InSystem = {},
         f.cut.sections \in Int, f.cut.sections >= 7
  PROVE  ReadSystem(f, left) = f.sys
<1> DEFINE c == f.sys
<1>1. \A i \in InSystem : SystemSource(f, i, left) = c
  BY EarlyRestored, SystemEarly DEF SystemSource
<1>2. {"vectors", "cp15", "access", "copies"} \subseteq InSystem
  BY DEF InSystem
<1>3. ReadSystem(f, left) = [c EXCEPT !.access = c.access, !.high = c.high, !.ldt = c.ldt, !.waits = c.waits,
               !.rwMode = c.rwMode, !.mmuDtcm = c.mmuDtcm]
  BY <1>1, <1>2 DEF ReadSystem
<1> QED
  BY <1>3 DEF Formed, Fields

\* A complete file restores the later sections as well.
LEMMA CompleteRestored ==
  ASSUME NEW f, Complete(f), ReadsAll(f) \/ SilentFail(f),
         NEW i \in Entries, i \notin f.lacks, i \in DOMAIN Since => Since[i] <= f.version
  PROVE  Restored(f, i)
<1>1. \A j \in Entries : Present(f, j)
  BY SectionsAre DEF Complete, Present, Entries
<1>2. "version" \in Entries
  BY SectionsAre DEF Entries
<1>3. VersionRead(f) = f.version
  BY <1>1, <1>2 DEF VersionRead
<1>4. MmuLoads(f)
  BY <1>1, <1>2, <1>3 DEF Complete, ReadsAll, SilentFail, MmuLoads
<1> QED
  BY <1>1, <1>3, <1>4 DEF Restored

\* A session begins with no file, or with one an earlier version has written.
LEMMA SaveStarts == SaveInit => SavesInv
<1> SUFFICES ASSUME SaveInit PROVE SavesInv
  OBVIOUS
<1>1. Formed(sys) /\ Applied(sys)
  BY PowerOnApplied DEF SaveInit, Booted, SystemInv
<1> DEFINE old == Of(-1)
<1>2. ASSUME NEW o PROVE /\ OldFile(o).cut = Whole /\ OldFile(o).sys = PowerOn
                         /\ OldFile(o).lacks = o.lacks \ InSystem
                         /\ \A i \in Parts \ {"wait9"} : OldFile(o).mach[i] = old[i]
  BY DEF OldFile, Of
<1>3. /\ NoFile.cut.sections = -1 /\ NoFile.sys = PowerOn /\ NoFile.lacks \cap InSystem = {}
      /\ \A i \in Parts \ {"wait9"} : NoFile.mach[i] = old[i]
  BY DEF NoFile, OldFile, Of
<1>4. kept.mach = old /\ kept.sys = file.sys
  BY DEF SaveInit
<1> HIDE DEF old
<1>5. Formed(PowerOn) /\ Applied(PowerOn)
  BY PowerOnApplied DEF SystemInv
<1>6. ASSUME file = NoFile PROVE FileInv
  <2>1. file.cut.sections \in Int /\ file.cut.sections <= Len(Sections)
    BY <1>3, <1>6, SectionsAre
  <2>2. file.sys = PowerOn /\ file.lacks \cap InSystem = {}
    BY <1>3, <1>6
  <2>3. \A i \in Parts \ {"wait9"} : file.mach[i] = kept.mach[i]
    BY <1>3, <1>4, <1>6
  <2> QED
    BY <1>4, <1>5, <2>1, <2>2, <2>3 DEF FileInv
<1>7. ASSUME \E o \in OldFiles : file = OldFile(o) PROVE FileInv
  <2>1. PICK o \in OldFiles : file = OldFile(o)
    BY <1>7
  <2>2. file.cut = Whole /\ file.sys = PowerOn /\ file.lacks \cap InSystem = {}
    BY <1>2, <2>1
  <2>3. \A i \in Parts \ {"wait9"} : file.mach[i] = kept.mach[i]
    BY <1>2, <1>4, <2>1
  <2> QED
    BY <1>4, <1>5, <2>2, <2>3 DEF FileInv
<1> QED
  BY <1>1, <1>6, <1>7 DEF SaveInit, SavesInv, ControlApplied

\* What the write leaves on the disk, whole or cut short.
LEMMA FileWritten ==
  ASSUME SavesInv, NEW cut \in Cuts \cup {Whole},
         file' = NewFile(cut), kept' = [mach |-> mach, sys |-> sys]
  PROVE  FileInv'
<1>1. /\ file'.cut = cut /\ file'.lacks = {} /\ file'.sys = sys /\ file'.wrecked = wrecked
      /\ \A i \in Parts \ {"wait9"} : file'.mach[i] = mach[i]
  BY DEF NewFile, Written
<1>2. kept'.mach = mach /\ kept'.sys = sys
  OBVIOUS
<1>3. cut = Whole \/ (cut.sections \in Int /\ cut.sections <= Len(Sections))
  BY CutsAssumption, SectionsAre
<1> QED
  BY <1>1, <1>2, <1>3 DEF SavesInv, ControlApplied, FileInv

\* Whatever a load makes of a file, the registers keep their shape.
LEMMA LoadedFormed ==
  ASSUME SavesInv, NEW left
  PROVE  Formed(ReadSystem(file, left))
<1>1. Formed(SystemAfterReset)
  BY PowerOnApplied DEF SystemAfterReset, SavesInv, SystemInv
<1>2. Formed(ZeroRegisters)
  <2> DEFINE a == SystemAfterReset
             m == [k \in Kinds |-> [r \in Regions |-> Addresses]]
  <2>1. ZeroRegisters = [a EXCEPT !.ctrl = {}, !.access = m]
    BY DEF ZeroRegisters
  <2>2. m = [k \in Kinds |-> m[k]]
    OBVIOUS
  <2> HIDE DEF a, m
  <2>3. Formed([a EXCEPT !.ctrl = {}, !.access = m])
    BY <1>1, <2>2 DEF Formed, Fields, a
  <2> QED
    BY <2>1, <2>3
<1>3. \A i : Formed(SystemSource(file, i, left))
  BY <1>1, <1>2 DEF SystemSource, SavesInv, FileInv
<1>4. ASSUME NEW c, NEW a, NEW v, NEW m, Formed(c), Formed(a)
      PROVE  Formed([c EXCEPT !.access = a.access, !.high = v.high, !.ldt = v.ldt, !.waits = v.waits,
                              !.rwMode = m.rwMode, !.mmuDtcm = m.mmuDtcm])
  BY <1>4 DEF Formed, Fields
<1> QED
  BY <1>3, <1>4 DEF ReadSystem

\* A load is refused, leaves a wrecked game, or restores the registers of the file.
LEMMA LoadKeepsInv ==
  ASSUME SavesInv, Load
  PROVE  SavesInv'
<1>1. CASE LoadRefused
  BY <1>1 DEF LoadRefused, SavesInv, FileInv, ControlApplied
<1>2. ASSUME NEW left, LoadFails(left) PROVE SavesInv'
  <2>1. Formed(sys')
    BY <1>2, LoadedFormed DEF LoadFails
  <2> QED
    BY <1>2, <2>1 DEF LoadFails, SavesInv, FileInv, ControlApplied
<1>3. ASSUME NEW left, LoadSucceeds(left) PROVE SavesInv'
  <2>1. ReadSystem(file, left) = file.sys
    BY <1>3, SevenSections, SystemRestored DEF LoadSucceeds, SavesInv, FileInv
  <2> QED
    BY <1>3, <2>1 DEF LoadSucceeds, SavesInv, FileInv, ControlApplied
<1> QED
  BY <1>1, <1>2, <1>3 DEF Load

\* Every call of the application keeps the machine and its file in agreement.
LEMMA SaveStepKeepsInv == SavesInv /\ [SaveNext]_saveVars => SavesInv'
<1> SUFFICES ASSUME SavesInv, [SaveNext]_saveVars PROVE SavesInv'
  OBVIOUS
<1>1. CASE Play
  BY <1>1 DEF Play, SavesInv, FileInv, ControlApplied
<1>2. CASE Mcr
  <2>1. Formed(sys') /\ (Applied(sys) => Applied(sys'))
    BY <1>2, McrApplies, McrFormed DEF Mcr, SavesInv, SystemInv
  <2> QED
    BY <1>2, <2>1 DEF Mcr, SavesInv, FileInv, ControlApplied
<1>3. CASE Save
  <2>1. CASE SaveFails
    BY <2>1 DEF SaveFails, SavesInv, FileInv, ControlApplied
  <2>2. ASSUME NEW cut \in Cuts \cup {Whole}, SavedTo(cut) PROVE SavesInv'
    <3>1. FileInv'
      BY <2>2, FileWritten DEF SavedTo
    <3> QED
      BY <2>2, <3>1 DEF SavedTo, SavesInv, ControlApplied
  <2> QED
    BY <1>3, <2>1, <2>2 DEF Save
<1>4. CASE Load
  BY <1>4, LoadKeepsInv
<1>5. ASSUME Started PROVE (Formed(sys) /\ ControlApplied)'
  BY <1>5, PowerOnApplied DEF Started, Booted, ControlApplied, SystemInv
<1>6. CASE Reopen
  BY <1>5, <1>6 DEF Reopen, SavesInv, FileInv
<1>7. CASE Killed
  <2>1. PICK cut \in Cuts : file' = NewFile(cut)
    BY <1>7 DEF Killed
  <2>2. FileInv'
    BY <1>7, <2>1, FileWritten DEF Killed
  <2> QED
    BY <1>5, <1>7, <2>2 DEF Killed, SavesInv
<1>8. CASE UNCHANGED saveVars
  BY <1>8 DEF saveVars, SavesInv, FileInv, ControlApplied
<1> QED
  BY <1>1, <1>2, <1>3, <1>4, <1>6, <1>7, <1>8 DEF SaveNext

\* Unless a load has failed half way the registers, their copies and the masks agree, also after a
\* load of whatever file was written (savestate_load, NDS_Reset).
THEOREM ControlStaysApplied == SaveSpec => []ControlApplied
<1>1. SavesInv => ControlApplied
  BY DEF SavesInv
<1> QED
  BY <1>1, SaveStarts, SaveStepKeepsInv, PTL DEF SaveSpec

\* A load that succeeds restores what the file holds of each part, and maps the banks of video memory.
LEMMA SuccessRestores ==
  ASSUME SavesInv, NEW left, LoadSucceeds(left)
  PROVE  LoadStep
<1>1. /\ file.cut.sections \in Int /\ file.cut.sections >= 7
      /\ ReadsAll(file) => file.cut = Whole
      /\ SilentFail(file) => file.version = 0 \/ file.cut.sections = 7
  BY SevenSections DEF LoadSucceeds, SavesInv, FileInv
<1>2. sys' = kept.sys
  BY <1>1, SystemRestored DEF LoadSucceeds, SavesInv, FileInv
<1> DEFINE m == ReadChunks(file, left)
<1>3. mach' = Regenerated(m)
  BY DEF LoadSucceeds
<1>4. {"banks", "registers"} \subseteq Parts
  BY SectionsAre DEF Parts, Entries, InSystem, VersionEntries
<1>5. mach'["banks"] = Value("banks", mach'["registers"][2])
  BY <1>3, <1>4 DEF Regenerated, ReadChunks
<1>6. ASSUME NEW i \in Parts, Holds(file, i) PROVE mach'[i] = kept.mach[i]
  <2>1. i \notin Unsaved /\ i # "banks" /\ i # "wait9" /\ i \notin file.lacks
    BY <1>6 DEF Holds, Unsaved
  <2>2. i \in Entries
    BY <2>1 DEF Parts, Unsaved
  <2>3. Restored(file, i)
    <3>1. CASE Early(i)
      BY <1>1, <2>1, <3>1, EarlyRestored
    <3>2. CASE Complete(file)
      BY <1>6, <2>1, <2>2, <3>2, CompleteRestored DEF LoadSucceeds, Holds
    <3> QED
      BY <1>6, <3>1, <3>2 DEF Holds
  <2>4. mach'[i] = m[i]
    BY <1>3, <1>4, <2>1 DEF Regenerated, ReadChunks
  <2>5. m[i] = file.mach[i]
    BY <2>1, <2>3 DEF ReadChunks, Loaded
  <2> QED
    BY <2>1, <2>4, <2>5 DEF SavesInv, FileInv
<1>7. Complete(file) \/ file.version = 0 \/ file.cut.sections = Mmu61 - 1
  <2>1. CASE ReadsAll(file)
    <3>1. Present(file, "version")
      BY <1>1, <2>1, SectionsAre DEF Present
    <3> QED
      BY <1>1, <2>1, <3>1 DEF ReadsAll, MmuLoads, VersionRead, Complete
  <2>2. CASE SilentFail(file)
    BY <1>1, <2>2 DEF Mmu61
  <2> QED
    BY <2>1, <2>2 DEF LoadSucceeds
<1>8. Restores
  BY <1>2, <1>5, <1>6 DEF Restores
<1> QED
  BY <1>7, <1>8 DEF LoadSucceeds, LoadStep

\* A load fails only for a file cut short, or one of version 1 of unknown size.
LEMMA FailureKnown ==
  ASSUME NEW left, LoadFails(left)
  PROVE  LoadStep
<1> SUFFICES ASSUME file.cut = Whole PROVE file.version = 1 /\ ~file.sized
  BY DEF LoadFails, LoadStep
<1>1. Present(file, "heading") /\ Present(file, "version")
  BY SectionsAre DEF Present
<1>2. ~MmuLoads(file)
  BY SectionsAre DEF LoadFails, ReadsAll
<1> QED
  BY <1>1, <1>2 DEF LoadFails, SilentFail, MmuLoads, VersionRead

\* Only a load says loaded, failed or refused.
LEMMA SaveStepsRestore == SavesInv /\ [SaveNext]_saveVars => [LoadStep]_saveVars
<1> SUFFICES ASSUME SavesInv, SaveNext PROVE LoadStep
  OBVIOUS
<1>1. CASE Play \/ Mcr \/ Save \/ Reopen \/ Killed
  BY <1>1 DEF Play, Mcr, Save, SaveFails, SavedTo, Reopen, Killed, Started, LoadStep
<1>2. CASE Load
  BY <1>2, SuccessRestores, FailureKnown DEF Load, LoadRefused, LoadStep
<1> QED
  BY <1>1, <1>2 DEF SaveNext

\* A load said to have succeeded has restored every entry the file holds; one that fails had a file
\* cut short or of a version 1 of unknown size; one that is refused changes nothing.
THEOREM LoadsRestore == SaveSpec => LoadRestores
BY SaveStarts, SaveStepKeepsInv, SaveStepsRestore, PTL DEF SaveSpec, LoadRestores

-----------------------------------------------------------------------------
(* The banks of video memory *)


\* What a bank's register may hold (VRAMCNT).
Setting == [mst : -1 .. 7, ofs : 0 .. 3]

\* Whom a setting gives the bank: both processors through the LCDC map, the ARM9 through its
\* areas, the ARM7, or the renderer.
Role(b, s) ==
  CASE s.mst = 0 -> "lcdc"
    [] s.mst = 3 -> "render"
    [] OnSeven(b, s) -> "seven"
    [] s.mst \in {1, 2, 4} /\ ~OnSeven(b, s) -> "nine"
    [] OTHER -> "none"
Given(role, page) == \E b \in Banks : page \in PagesOf(b) /\ Role(b, bankCnt[b]) = role

Offered == (UNION {Settings[b] : b \in Banks}) \cup {Off}

MapsGiven ==
  /\ bankCnt \in [Banks -> Setting]
  /\ bankCnt \in [Banks -> Offered]
  /\ \A x \in DOMAIN vram_lcdc_map : vram_lcdc_map[x] = UNMAPPED \/ Given("lcdc", vram_lcdc_map[x])
  /\ vram_arm9_map \in [AreaPlaces -> 0 .. UNMAPPED]
  /\ \A x \in AreaPlaces : vram_arm9_map[x] = UNMAPPED \/ Given("nine", vram_arm9_map[x])
  /\ \A x \in DOMAIN vram_arm7_map :
       \/ vram_arm7_map[x] = UNMAPPED
       \/ \E b \in {"C", "D"} : OnSeven(b, bankCnt[b]) /\ vram_arm7_map[x] = FirstPage[b]
  /\ DOMAIN textureSlotAddr = 0 .. 3
  /\ \A x \in 0 .. 3 : textureSlotAddr[x] = UNMAPPED \/ Given("render", textureSlotAddr[x])
  /\ DOMAIN texPalSlot = 0 .. 5
  /\ \A x \in 0 .. 5 : texPalSlot[x] = UNMAPPED \/ Given("render", texPalSlot[x])
  /\ purpose = [b \in Banks |-> Purpose(b, bankCnt[b])]

\* A dump that leaves out nothing is what was decoded.
HeldRight(t, e) ==
  /\ DOMAIN e = {"suspectedInvalid", "dump", "decoded"} /\ e.suspectedInvalid \in BOOLEAN
  /\ ~t.fourByFour => e.decoded = <<e.dump.texture, e.dump.palette>>
CacheHolds ==
  /\ cache = [t \in DOMAIN cache |-> cache[t]] /\ DOMAIN cache \subseteq Textures
  /\ \A t \in DOMAIN cache : HeldRight(t, cache[t])

VideoInv ==
  /\ MapsGiven /\ BigBanksWin /\ CacheHolds /\ CacheFresh
  /\ video = [p \in DataPages |-> video[p]]

\* Where each bank lies (vram_bank_info).
LEMMA PagesAre ==
  /\ FirstPage["A"] = 0 /\ FirstPage["B"] = 8 /\ FirstPage["C"] = 16 /\ FirstPage["D"] = 24
  /\ FirstPage["E"] = 32 /\ FirstPage["F"] = 36 /\ FirstPage["G"] = 37 /\ FirstPage["H"] = 38
  /\ FirstPage["I"] = 40
  /\ NumPages["A"] = 8 /\ NumPages["B"] = 8 /\ NumPages["C"] = 8 /\ NumPages["D"] = 8
  /\ NumPages["E"] = 4 /\ NumPages["F"] = 1 /\ NumPages["G"] = 1 /\ NumPages["H"] = 2
  /\ NumPages["I"] = 1
BY DEF FirstPage, NumPages, Banks

\* Banks share no page.
LEMMA PagesApart ==
  ASSUME NEW b \in Banks, NEW c \in Banks, NEW page, page \in PagesOf(b), page \in PagesOf(c)
  PROVE  b = c /\ page \in 0 .. UNMAPPED - 1
<1>1. /\ PagesOf("A") = 0 .. 7 /\ PagesOf("B") = 8 .. 15 /\ PagesOf("C") = 16 .. 23
      /\ PagesOf("D") = 24 .. 31 /\ PagesOf("E") = 32 .. 35 /\ PagesOf("F") = 36 .. 36
      /\ PagesOf("G") = 37 .. 37 /\ PagesOf("H") = 38 .. 39 /\ PagesOf("I") = 40 .. 40
  BY PagesAre DEF PagesOf
<1>2. QED
  BY <1>1 DEF Banks, UNMAPPED

\* What is given to one is not given to another.
LEMMA RolesApart ==
  ASSUME NEW r, NEW q, NEW page, Given(r, page), Given(q, page)
  PROVE  r = q /\ page \in 0 .. UNMAPPED - 1
BY PagesApart DEF Given

\* Of any banks, one lies first (vram_bank_info).
LEMMA FirstBank ==
  ASSUME NEW S, S \subseteq Banks, S # {}
  PROVE  \E b \in S : \A c \in S : FirstPage[b] <= FirstPage[c]
<1> DEFINE Leads(b) == b \in S /\ \A c \in S : FirstPage[b] <= FirstPage[c]
<1>1. CASE "A" \in S
  <2>1. Leads("A") BY <1>1, PagesAre DEF Banks
  <2> QED BY <2>1
<1>2. CASE "A" \notin S /\ "B" \in S
  <2>1. Leads("B") BY <1>2, PagesAre DEF Banks
  <2> QED BY <2>1
<1>3. CASE "A" \notin S /\ "B" \notin S /\ "C" \in S
  <2>1. Leads("C") BY <1>3, PagesAre DEF Banks
  <2> QED BY <2>1
<1>4. CASE S \cap {"A", "B", "C"} = {} /\ "D" \in S
  <2>1. Leads("D") BY <1>4, PagesAre DEF Banks
  <2> QED BY <2>1
<1>5. CASE S \cap Big = {} /\ "E" \in S
  <2>1. Leads("E") BY <1>5, PagesAre DEF Banks, Big
  <2> QED BY <2>1
<1>6. CASE S \cap Big = {} /\ "E" \notin S /\ "F" \in S
  <2>1. Leads("F") BY <1>6, PagesAre DEF Banks, Big
  <2> QED BY <2>1
<1>7. CASE S \subseteq {"G", "H", "I"} /\ "G" \in S
  <2>1. Leads("G") BY <1>7, PagesAre DEF Banks
  <2> QED BY <2>1
<1>8. CASE S \subseteq {"H", "I"} /\ "H" \in S
  <2>1. Leads("H") BY <1>8, PagesAre DEF Banks
  <2> QED BY <2>1
<1>9. CASE S = {"I"}
  <2>1. Leads("I") BY <1>9, PagesAre DEF Banks
  <2> QED BY <2>1
<1>10. QED
  <2> HIDE DEF Leads
  <2> QED BY <1>1, <1>2, <1>3, <1>4, <1>5, <1>6, <1>7, <1>8, <1>9 DEF Banks, Big

\* A place that banks claim shows what one of them puts there, one of A to D if such a bank claims
\* it, and any other shows what was there (MMU_VRAMmapControl).
LEMMA LayersAre ==
  ASSUME NEW claim, NEW base, NEW map, map = Layered(claim, base)
  PROVE  /\ DOMAIN map = DOMAIN base /\ map = [x \in DOMAIN base |-> map[x]]
         /\ \A x \in DOMAIN base :
              \/ \E b \in Banks : x \in DOMAIN claim[b] /\ map[x] = claim[b][x]
              \/ map[x] = base[x]
         /\ \A b \in Big : \A x \in DOMAIN claim[b] \cap DOMAIN base :
              \E c \in Big : x \in DOMAIN claim[c] /\ map[x] = claim[c][x]
<1> DEFINE owners(x) == {b \in Banks : x \in DOMAIN claim[b]}
           lead(x) == CHOOSE b \in owners(x) : \A c \in owners(x) : FirstPage[b] <= FirstPage[c]
<1>1. /\ DOMAIN map = DOMAIN base /\ map = [x \in DOMAIN base |-> map[x]]
      /\ \A x \in DOMAIN base : map[x] = IF owners(x) = {} THEN base[x] ELSE claim[lead(x)][x]
  <2> DEFINE claiming == {b \in Banks : DOMAIN claim[b] # {}}
  <2>1. \A x : {b \in claiming : x \in DOMAIN claim[b]} = owners(x)
    OBVIOUS
  <2>2. map = [x \in DOMAIN base |->
                 IF {b \in claiming : x \in DOMAIN claim[b]} = {} THEN base[x]
                 ELSE claim[CHOOSE b \in {d \in claiming : x \in DOMAIN claim[d]} :
                              \A c \in {d \in claiming : x \in DOMAIN claim[d]} : FirstPage[b] <= FirstPage[c]][x]]
    BY Zenon DEF Layered
  <2>3. DOMAIN map = DOMAIN base /\ map = [x \in DOMAIN base |-> map[x]]
    BY <2>2, Zenon
  <2>4. ASSUME NEW x \in DOMAIN base
        PROVE  map[x] = IF owners(x) = {} THEN base[x] ELSE claim[lead(x)][x]
    <3> DEFINE here == {b \in claiming : x \in DOMAIN claim[b]}
    <3>1. map[x] = IF here = {} THEN base[x]
                   ELSE claim[CHOOSE b \in here : \A c \in here : FirstPage[b] <= FirstPage[c]][x]
      BY <2>2, Zenon
    <3>2. here = owners(x)
      BY <2>1
    <3> HIDE DEF here, owners, claiming
    <3> QED BY <3>1, <3>2, Zenon
  <2> QED BY <2>3, <2>4
<1>2. ASSUME NEW x, owners(x) # {}
      PROVE  lead(x) \in owners(x) /\ \A c \in owners(x) : FirstPage[lead(x)] <= FirstPage[c]
  <2>1. owners(x) \subseteq Banks OBVIOUS
  <2> HIDE DEF owners
  <2>2. \E b \in owners(x) : \A c \in owners(x) : FirstPage[b] <= FirstPage[c]
    BY <2>1, <1>2, FirstBank
  <2> QED BY <2>2, Zenon
<1> HIDE DEF lead
<1>3. ASSUME NEW b \in Big, NEW x \in DOMAIN claim[b] \cap DOMAIN base
      PROVE  \E c \in Big : x \in DOMAIN claim[c] /\ map[x] = claim[c][x]
  <2>1. b \in owners(x) BY <1>3 DEF Big, Banks
  <2>2. lead(x) \in Banks /\ x \in DOMAIN claim[lead(x)] /\ FirstPage[lead(x)] <= FirstPage[b]
    BY <2>1, <1>2
  <2>3. lead(x) \in Big
    BY <2>2, PagesAre DEF Big, Banks
  <2>4. map[x] = claim[lead(x)][x]
    BY <1>1, <2>1
  <2> QED BY <2>2, <2>3, <2>4
<1>4. ASSUME NEW x \in DOMAIN base
      PROVE  \/ \E b \in Banks : x \in DOMAIN claim[b] /\ map[x] = claim[b][x]
             \/ map[x] = base[x]
  <2>1. CASE owners(x) = {} BY <2>1, <1>1
  <2>2. CASE owners(x) # {}
    <3>1. lead(x) \in Banks /\ x \in DOMAIN claim[lead(x)] BY <2>2, <1>2
    <3> QED BY <3>1, <2>2, <1>1
  <2> QED BY <2>1, <2>2
<1> QED BY <1>1, <1>3, <1>4

\* What a bank spreads over an area are its own pages (MMU_vram_arm9).
LEMMA SpreadIs ==
  ASSUME NEW b \in Banks, NEW area \in Areas, NEW offsets,
         \A offset \in offsets : offset \in Nat /\ offset + NumPages[b] <= AreaSize[area],
         NEW x \in DOMAIN Spread(b, area, offsets)
  PROVE  x \in AreaPlaces /\ Spread(b, area, offsets)[x] \in PagesOf(b)
<1>0. NumPages[b] \in Nat /\ FirstPage[b] \in Nat
  BY PagesAre DEF Banks
<1>1. PICK offset \in offsets : x[1] = area /\ x[2] \in Pages(b, offset) /\ x = <<x[1], x[2]>>
  <2>1. x \in {area} \X UNION {Pages(b, o) : o \in offsets}
    BY DEF Spread
  <2> QED BY <2>1
<1>2. x[2] \in 0 .. AreaSize[area] - 1
  <2>1. offset \in Nat /\ offset + NumPages[b] <= AreaSize[area] /\ AreaSize[area] \in Nat
    BY DEF AreaSize, Areas
  <2> QED BY <1>0, <1>1, <2>1 DEF Pages
<1>3. x \in AreaPlaces
  <2>1. x \in {<<area, i>> : i \in 0 .. AreaSize[area] - 1}
    BY <1>1, <1>2
  <2> QED BY <2>1, Zenon DEF AreaPlaces
<1> DEFINE at == CHOOSE o \in offsets : x[2] \in Pages(b, o)
<1>5. at \in offsets /\ x[2] \in Pages(b, at)
  BY <1>1, Zenon
<1>6. Spread(b, area, offsets)[x] = FirstPage[b] + x[2] - at
  BY DEF Spread
<1>7. at \in Nat /\ x[2] \in Nat /\ at <= x[2] /\ x[2] < at + NumPages[b]
  BY <1>0, <1>2, <1>5 DEF Pages
<1> HIDE DEF at
<1>8. FirstPage[b] + x[2] - at \in FirstPage[b] .. FirstPage[b] + NumPages[b] - 1
  BY <1>0, <1>7
<1> QED BY <1>3, <1>6, <1>8 DEF PagesOf

\* Nothing is claimed by nobody.
LEMMA NothingIs == DOMAIN Nothing = {}
BY DEF Nothing

\* What a bank claims of the ARM9's areas are its pages, and it is the ARM9 that has the bank then
\* (MMU_VRAMmapRefreshBank).
LEMMA NineIs ==
  ASSUME NEW b \in Banks, NEW s \in Setting, NEW x \in DOMAIN Nine(b, s)
  PROVE  x \in AreaPlaces /\ Nine(b, s)[x] \in PagesOf(b) /\ Role(b, s) = "nine"
<1> DEFINE Own(claim) == \A y \in DOMAIN claim : y \in AreaPlaces /\ claim[y] \in PagesOf(b)
<1>1. /\ AreaSize["ABG"] = 32 /\ AreaSize["BBG"] = 8 /\ AreaSize["AOBJ"] = 16 /\ AreaSize["BOBJ"] = 8
      /\ Areas = {"ABG", "BBG", "AOBJ", "BOBJ"}
  BY DEF AreaSize, Areas
<1>2. s.mst \in -1 .. 7 /\ s.ofs \in 0 .. 3
  BY DEF Setting
<1>3. pageofs(s) \in 0 .. 5
  BY <1>2 DEF pageofs
<1>4. ASSUME b \in Big
      PROVE  Own(NineBig(b, s)) /\ (x \in DOMAIN NineBig(b, s) => Role(b, s) = "nine")
  <2>1. NumPages[b] = 8 BY <1>4, PagesAre DEF Big
  <2>2. s.mst = 1 => Own(Spread(b, "ABG", {s.ofs * 8}))
    BY <1>1, <1>2, <2>1, SpreadIs
  <2>3. s.ofs < 2 => Own(Spread(b, "AOBJ", {s.ofs * 8}))
    BY <1>1, <1>2, <2>1, SpreadIs
  <2>4. Own(Spread(b, "BBG", {0})) /\ Own(Spread(b, "BOBJ", {0}))
    BY <1>1, <2>1, SpreadIs
  <2>5. \/ s.mst = 1 /\ NineBig(b, s) = Spread(b, "ABG", {s.ofs * 8})
        \/ b \in {"A", "B"} /\ s.mst = 2 /\ s.ofs < 2 /\ NineBig(b, s) = Spread(b, "AOBJ", {s.ofs * 8})
        \/ b = "C" /\ s.mst = 4 /\ NineBig(b, s) = Spread(b, "BBG", {0})
        \/ b = "D" /\ s.mst = 4 /\ NineBig(b, s) = Spread(b, "BOBJ", {0})
        \/ NineBig(b, s) = Nothing
    BY DEF NineBig
  <2>6. Own(NineBig(b, s))
    BY <2>2, <2>3, <2>4, <2>5, NothingIs
  <2>7. NineBig(b, s) # Nothing => s.mst \in {1, 2, 4} /\ ~OnSeven(b, s)
    BY <2>5 DEF OnSeven
  <2> QED BY <2>6, <2>7, <1>2, NothingIs DEF Role
<1>5. ASSUME b \notin Big
      PROVE  Own(NineSmall(b, s)) /\ (x \in DOMAIN NineSmall(b, s) => Role(b, s) = "nine")
  <2>1. b = "E" => Own(Spread(b, "ABG", {0})) /\ Own(Spread(b, "AOBJ", {0}))
    BY <1>1, PagesAre, SpreadIs
  <2>2. b \in Small => /\ Own(Spread(b, "ABG", {pageofs(s), pageofs(s) + 2}))
                       /\ Own(Spread(b, "AOBJ", {pageofs(s), pageofs(s) + 2}))
    BY <1>1, <1>3, PagesAre, SpreadIs DEF Small
  <2>3. b = "H" => Own(Spread(b, "BBG", {0, 4}))
    BY <1>1, PagesAre, SpreadIs
  <2>4. b = "I" => Own(Spread(b, "BBG", {2, 3})) /\ Own(Spread(b, "BOBJ", {0, 1}))
    BY <1>1, PagesAre, SpreadIs
  <2>5. \/ b = "E" /\ s.mst = 1 /\ NineSmall(b, s) = Spread(b, "ABG", {0})
        \/ b = "E" /\ s.mst = 2 /\ NineSmall(b, s) = Spread(b, "AOBJ", {0})
        \/ b \in Small /\ s.mst = 1 /\ NineSmall(b, s) = Spread(b, "ABG", {pageofs(s), pageofs(s) + 2})
        \/ b \in Small /\ s.mst = 2 /\ NineSmall(b, s) = Spread(b, "AOBJ", {pageofs(s), pageofs(s) + 2})
        \/ b = "H" /\ s.mst = 1 /\ NineSmall(b, s) = Spread(b, "BBG", {0, 4})
        \/ b = "I" /\ s.mst = 1 /\ NineSmall(b, s) = Spread(b, "BBG", {2, 3})
        \/ b = "I" /\ s.mst = 2 /\ NineSmall(b, s) = Spread(b, "BOBJ", {0, 1})
        \/ NineSmall(b, s) = Nothing
    BY DEF NineSmall
  <2>6. Own(NineSmall(b, s))
    BY <2>1, <2>2, <2>3, <2>4, <2>5, NothingIs
  <2>7. NineSmall(b, s) # Nothing => s.mst \in {1, 2, 4} /\ ~OnSeven(b, s)
    BY <2>5, <1>5 DEF OnSeven, Big
  <2> QED BY <2>6, <2>7, <1>2, NothingIs DEF Role
<1> QED BY <1>4, <1>5 DEF Nine

\* The other claims, and whose the bank is then.
LEMMA ClaimsAre ==
  ASSUME NEW b \in Banks, NEW s \in Setting
  PROVE  /\ \A x \in DOMAIN Lcdc(b, s) : Lcdc(b, s)[x] \in PagesOf(b) /\ Role(b, s) = "lcdc"
         /\ \A x \in DOMAIN Seven(b, s) : Seven(b, s)[x] = FirstPage[b] /\ OnSeven(b, s)
         /\ \A x \in DOMAIN Tex(b, s) : Tex(b, s)[x] \in PagesOf(b) /\ Role(b, s) = "render"
         /\ \A x \in DOMAIN Pal(b, s) : Pal(b, s)[x] \in PagesOf(b) /\ Role(b, s) = "render"
<1>1. NumPages[b] \in Nat \ {0} /\ FirstPage[b] \in Nat /\ FirstPage[b] \in PagesOf(b)
  BY PagesAre DEF Banks, PagesOf
<1>2. s.mst \in -1 .. 7
  BY DEF Setting
<1>3. \A x \in DOMAIN Lcdc(b, s) : Lcdc(b, s)[x] \in PagesOf(b) /\ s.mst = 0
  BY NothingIs DEF Lcdc
<1>4. \A x \in DOMAIN Seven(b, s) : Seven(b, s)[x] = FirstPage[b] /\ OnSeven(b, s)
  BY NothingIs DEF Seven
<1>5. \A x \in DOMAIN Tex(b, s) : Tex(b, s)[x] \in PagesOf(b) /\ s.mst = 3
  BY <1>1, NothingIs DEF Tex
<1>6. \A x \in DOMAIN Pal(b, s) : Pal(b, s)[x] \in PagesOf(b) /\ s.mst = 3
  <2>1. \/ b = "E" /\ s.mst = 3 /\ Pal(b, s) = [slot \in 0 .. 3 |-> FirstPage[b] + slot]
        \/ b \in Small /\ s.mst = 3 /\ Pal(b, s) = [slot \in {pageofs(s)} |-> FirstPage[b]]
        \/ Pal(b, s) = Nothing
    BY DEF Pal
  <2>2. b = "E" => \A i \in 0 .. 3 : FirstPage[b] + i \in PagesOf(b)
    BY PagesAre DEF PagesOf
  <2> QED BY <2>1, <2>2, <1>1, NothingIs
<1>7. s.mst = 0 => Role(b, s) = "lcdc"
  BY <1>2 DEF Role, OnSeven
<1>8. s.mst = 3 => Role(b, s) = "render"
  BY <1>2 DEF Role, OnSeven
<1> QED BY <1>3, <1>4, <1>5, <1>6, <1>7, <1>8

\* The map of one kind after a refresh.
LEMMA NineGiven ==
  ASSUME bankCnt' \in [Banks -> Setting], Maps(bankCnt', UnmappedLcdc)
  PROVE  /\ vram_arm9_map' \in [AreaPlaces -> 0 .. UNMAPPED]
         /\ \A x \in AreaPlaces : vram_arm9_map'[x] = UNMAPPED \/ Given("nine", vram_arm9_map[x])'
         /\ BigBanksWin'
<1> DEFINE claim == [b \in Banks |-> Nine(b, bankCnt'[b])]
           map == vram_arm9_map'
<1>1. map = Layered(claim, UnmappedNine)
  BY Zenon DEF Maps
<1>2. \A b \in Banks : claim[b] = Nine(b, bankCnt'[b])
  OBVIOUS
<1>3. DOMAIN UnmappedNine = AreaPlaces /\ \A x \in AreaPlaces : UnmappedNine[x] = UNMAPPED
  BY DEF UnmappedNine
<1>4. Big \subseteq Banks
  BY DEF Big, Banks
<1>5. map = [x \in DOMAIN UnmappedNine |-> map[x]]
  BY <1>1, LayersAre
<1> HIDE DEF claim, map
<1>6. /\ DOMAIN map = AreaPlaces
      /\ \A x \in AreaPlaces :
           \/ \E b \in Banks : x \in DOMAIN Nine(b, bankCnt'[b]) /\ map[x] = Nine(b, bankCnt'[b])[x]
           \/ map[x] = UNMAPPED
      /\ \A b \in Big : \A x \in DOMAIN Nine(b, bankCnt'[b]) \cap AreaPlaces :
           \E c \in Big : x \in DOMAIN Nine(c, bankCnt'[c]) /\ map[x] = Nine(c, bankCnt'[c])[x]
  <2>1. /\ DOMAIN map = DOMAIN UnmappedNine
        /\ \A x \in DOMAIN UnmappedNine :
             \/ \E b \in Banks : x \in DOMAIN claim[b] /\ map[x] = claim[b][x]
             \/ map[x] = UnmappedNine[x]
        /\ \A b \in Big : \A x \in DOMAIN claim[b] \cap DOMAIN UnmappedNine :
             \E c \in Big : x \in DOMAIN claim[c] /\ map[x] = claim[c][x]
    BY <1>1, LayersAre
  <2> QED BY <2>1, <1>2, <1>3, <1>4
<1>7. ASSUME NEW b \in Banks, NEW x \in DOMAIN Nine(b, bankCnt'[b])
      PROVE  /\ x \in AreaPlaces /\ Nine(b, bankCnt'[b])[x] \in PagesOf(b)
             /\ Role(b, bankCnt'[b]) = "nine"
  <2>1. bankCnt'[b] \in Setting OBVIOUS
  <2> QED BY <2>1, NineIs
<1>8. \A x \in AreaPlaces :
        \/ map[x] = UNMAPPED
        \/ \E b \in Banks : map[x] \in PagesOf(b) /\ Role(b, bankCnt'[b]) = "nine"
  BY <1>6, <1>7
<1>9. \A x \in AreaPlaces : map[x] \in 0 .. UNMAPPED
  <2>1. ASSUME NEW b \in Banks, NEW page \in PagesOf(b) PROVE page \in 0 .. UNMAPPED - 1
    BY PagesApart
  <2> QED BY <2>1, <1>8 DEF UNMAPPED
<1>10. ASSUME NEW b \in Big, NEW x \in DOMAIN Nine(b, bankCnt'[b])
       PROVE  \E c \in Big : map[x] \in PagesOf(c)
  BY <1>4, <1>6, <1>7
<1>11. map \in [AreaPlaces -> 0 .. UNMAPPED]
  BY <1>3, <1>5, <1>9
<1> QED BY <1>8, <1>10, <1>11 DEF map, Given, BigBanksWin

\* The other maps after a refresh.
LEMMA OthersGiven ==
  ASSUME bankCnt' \in [Banks -> Setting], Maps(bankCnt', UnmappedLcdc)
  PROVE  /\ \A x \in DOMAIN vram_lcdc_map' : vram_lcdc_map'[x] = UNMAPPED \/ Given("lcdc", vram_lcdc_map[x])'
         /\ \A x \in DOMAIN vram_arm7_map' :
              \/ vram_arm7_map'[x] = UNMAPPED
              \/ \E b \in {"C", "D"} : OnSeven(b, bankCnt'[b]) /\ vram_arm7_map'[x] = FirstPage[b]
         /\ DOMAIN textureSlotAddr' = 0 .. 3
         /\ \A x \in 0 .. 3 : textureSlotAddr'[x] = UNMAPPED \/ Given("render", textureSlotAddr[x])'
         /\ DOMAIN texPalSlot' = 0 .. 5
         /\ \A x \in 0 .. 5 : texPalSlot'[x] = UNMAPPED \/ Given("render", texPalSlot[x])'
<1> DEFINE lcdc == [b \in Banks |-> Lcdc(b, bankCnt'[b])]
           seven == [b \in Banks |-> Seven(b, bankCnt'[b])]
           tex == [b \in Banks |-> Tex(b, bankCnt'[b])]
           pal == [b \in Banks |-> Pal(b, bankCnt'[b])]
<1>1. /\ vram_lcdc_map' = Layered(lcdc, UnmappedLcdc) /\ vram_arm7_map' = Layered(seven, UnmappedSeven)
      /\ textureSlotAddr' = Layered(tex, UnmappedTex) /\ texPalSlot' = Layered(pal, UnmappedPal)
  BY Zenon DEF Maps
<1>2. \A b \in Banks : /\ lcdc[b] = Lcdc(b, bankCnt'[b]) /\ seven[b] = Seven(b, bankCnt'[b])
                       /\ tex[b] = Tex(b, bankCnt'[b]) /\ pal[b] = Pal(b, bankCnt'[b])
  OBVIOUS
<1> HIDE DEF lcdc, seven, tex, pal
<1>3. ASSUME NEW b \in Banks
      PROVE  /\ \A x \in DOMAIN lcdc[b] : lcdc[b][x] \in PagesOf(b) /\ Role(b, bankCnt'[b]) = "lcdc"
             /\ \A x \in DOMAIN seven[b] : seven[b][x] = FirstPage[b] /\ OnSeven(b, bankCnt'[b])
             /\ \A x \in DOMAIN tex[b] : tex[b][x] \in PagesOf(b) /\ Role(b, bankCnt'[b]) = "render"
             /\ \A x \in DOMAIN pal[b] : pal[b][x] \in PagesOf(b) /\ Role(b, bankCnt'[b]) = "render"
  <2>1. bankCnt'[b] \in Setting OBVIOUS
  <2> QED BY <2>1, <1>2, ClaimsAre
<1>4. \A x \in DOMAIN vram_lcdc_map' : vram_lcdc_map'[x] = UNMAPPED \/ Given("lcdc", vram_lcdc_map[x])'
  <2>1. \A x \in DOMAIN UnmappedLcdc : UnmappedLcdc[x] = UNMAPPED
    BY DEF UnmappedLcdc
  <2>2. /\ DOMAIN vram_lcdc_map' = DOMAIN UnmappedLcdc
        /\ \A x \in DOMAIN UnmappedLcdc :
             \/ \E b \in Banks : x \in DOMAIN lcdc[b] /\ vram_lcdc_map'[x] = lcdc[b][x]
             \/ vram_lcdc_map'[x] = UnmappedLcdc[x]
    BY <1>1, LayersAre
  <2> QED BY <2>1, <2>2, <1>3 DEF Given
<1>5. \A x \in DOMAIN vram_arm7_map' :
        \/ vram_arm7_map'[x] = UNMAPPED
        \/ \E b \in {"C", "D"} : OnSeven(b, bankCnt'[b]) /\ vram_arm7_map'[x] = FirstPage[b]
  <2>1. \A x \in DOMAIN UnmappedSeven : UnmappedSeven[x] = UNMAPPED
    BY DEF UnmappedSeven
  <2>2. /\ DOMAIN vram_arm7_map' = DOMAIN UnmappedSeven
        /\ \A x \in DOMAIN UnmappedSeven :
             \/ \E b \in Banks : x \in DOMAIN seven[b] /\ vram_arm7_map'[x] = seven[b][x]
             \/ vram_arm7_map'[x] = UnmappedSeven[x]
    BY <1>1, LayersAre
  <2>3. \A b, s : OnSeven(b, s) => b \in {"C", "D"}
    BY DEF OnSeven
  <2> QED BY <2>1, <2>2, <2>3, <1>3
<1>6. /\ DOMAIN textureSlotAddr' = 0 .. 3
      /\ \A x \in 0 .. 3 : textureSlotAddr'[x] = UNMAPPED \/ Given("render", textureSlotAddr[x])'
  <2>1. DOMAIN UnmappedTex = 0 .. 3 /\ \A x \in 0 .. 3 : UnmappedTex[x] = UNMAPPED
    BY DEF UnmappedTex
  <2>2. /\ DOMAIN textureSlotAddr' = DOMAIN UnmappedTex
        /\ \A x \in DOMAIN UnmappedTex :
             \/ \E b \in Banks : x \in DOMAIN tex[b] /\ textureSlotAddr'[x] = tex[b][x]
             \/ textureSlotAddr'[x] = UnmappedTex[x]
    BY <1>1, LayersAre
  <2> QED BY <2>1, <2>2, <1>3 DEF Given
<1>7. /\ DOMAIN texPalSlot' = 0 .. 5
      /\ \A x \in 0 .. 5 : texPalSlot'[x] = UNMAPPED \/ Given("render", texPalSlot[x])'
  <2>1. DOMAIN UnmappedPal = 0 .. 5 /\ \A x \in 0 .. 5 : UnmappedPal[x] = UNMAPPED
    BY DEF UnmappedPal
  <2>2. /\ DOMAIN texPalSlot' = DOMAIN UnmappedPal
        /\ \A x \in DOMAIN UnmappedPal :
             \/ \E b \in Banks : x \in DOMAIN pal[b] /\ texPalSlot'[x] = pal[b][x]
             \/ texPalSlot'[x] = UnmappedPal[x]
    BY <1>1, LayersAre
  <2> QED BY <2>1, <2>2, <1>3 DEF Given
<1> QED BY <1>4, <1>5, <1>6, <1>7

\* A refresh maps every bank where its setting has it, whatever was mapped before.
LEMMA RefreshMaps ==
  ASSUME bankCnt' \in [Banks -> Setting], Maps(bankCnt', UnmappedLcdc),
         bankCnt' \in [Banks -> Offered]
  PROVE  MapsGiven' /\ BigBanksWin'
<1>1. purpose' = [b \in Banks |-> Purpose(b, bankCnt'[b])]
  BY Zenon DEF Maps
<1> QED BY <1>1, NineGiven, OthersGiven DEF MapsGiven

\* Who can write a page, and who reads textures from it.
LEMMA PagesGiven ==
  ASSUME MapsGiven
  PROVE  /\ \A page \in Mapped(vram_lcdc_map) : Given("lcdc", page)
         /\ \A page \in Mapped(vram_arm9_map) : Given("nine", page)
         /\ \A page \in Arm7Pages : Given("seven", page)
         /\ \A page \in Mapped(textureSlotAddr) \cup Mapped(texPalSlot) : Given("render", page)
<1>1. \A page \in Mapped(vram_lcdc_map) : Given("lcdc", page)
  BY DEF MapsGiven, Mapped
<1>2. \A page \in Mapped(vram_arm9_map) : Given("nine", page)
  BY DEF MapsGiven, Mapped
<1>3. \A page \in Mapped(textureSlotAddr) \cup Mapped(texPalSlot) : Given("render", page)
  BY DEF MapsGiven, Mapped
<1>4. ASSUME NEW page \in Arm7Pages
      PROVE  Given("seven", page)
  <2>1. PICK p \in Mapped(vram_arm7_map) : page \in p .. p + 7
    BY DEF Arm7Pages
  <2>2. PICK b \in {"C", "D"} : OnSeven(b, bankCnt[b]) /\ p = FirstPage[b]
    BY <2>1 DEF MapsGiven, Mapped
  <2>3. page \in PagesOf(b)
    BY <2>1, <2>2, PagesAre DEF PagesOf
  <2>4. bankCnt[b].mst = 2
    BY <2>2 DEF OnSeven
  <2>5. Role(b, bankCnt[b]) = "seven"
    BY <2>2, <2>4 DEF Role, OnSeven
  <2>6. b \in Banks BY DEF Banks
  <2> QED BY <2>3, <2>5, <2>6 DEF Given
<1> QED BY <1>1, <1>2, <1>3, <1>4

\* What the invariant is for.
LEMMA VideoInvMeans == VideoInv => TexturesFresh
<1> SUFFICES ASSUME VideoInv PROVE TexturesFresh
  OBVIOUS
<1>1. MapsGiven BY DEF VideoInv
<1>2. TexturesAreReadOnly
  <2>1. ASSUME NEW p \in Mapped(textureSlotAddr) \cup Mapped(texPalSlot), p \in Arm9Pages \cup Arm7Pages
        PROVE  FALSE
    <3>1. Given("render", p) BY <1>1, PagesGiven
    <3>2. Given("lcdc", p) \/ Given("nine", p) \/ Given("seven", p)
      BY <1>1, <2>1, PagesGiven DEF Arm9Pages
    <3> QED BY <3>1, <3>2, RolesApart
  <2> QED BY <2>1 DEF TexturesAreReadOnly
<1>3. OneUse
  <2>1. ASSUME NEW p \in Mapped(vram_lcdc_map) \cap (Mapped(vram_arm9_map) \cup Arm7Pages) PROVE FALSE
    <3>1. Given("lcdc", p) /\ (Given("nine", p) \/ Given("seven", p)) BY <1>1, PagesGiven
    <3> QED BY <3>1, RolesApart
  <2>2. ASSUME NEW p \in Mapped(vram_arm9_map) \cap Arm7Pages PROVE FALSE
    <3>1. Given("nine", p) /\ Given("seven", p) BY <1>1, PagesGiven
    <3> QED BY <3>1, RolesApart
  <2> QED BY <2>1, <2>2 DEF OneUse
<1>4. MapTypeOK
  <2>1. \A p \in Mapped(vram_lcdc_map) \cup Mapped(vram_arm9_map) : p \in 0 .. UNMAPPED - 1
    BY <1>1, PagesGiven, RolesApart
  <2>2. \A p \in Mapped(vram_arm7_map) : p \in 0 .. UNMAPPED - 1
    BY <1>1, PagesAre DEF MapsGiven, Mapped, UNMAPPED
  <2>3. /\ bankCnt \in [Banks -> (UNION {Settings[b] : b \in Banks}) \cup {Off}]
        /\ vram_arm9_map \in [AreaPlaces -> 0 .. UNMAPPED]
    BY <1>1 DEF MapsGiven, Offered
  <2>4. DOMAIN cache \subseteq Textures /\ \A t \in DOMAIN cache : cache[t].suspectedInvalid \in BOOLEAN
    BY DEF VideoInv, CacheHolds, HeldRight
  <2> QED BY <2>1, <2>2, <2>3, <2>4 DEF MapTypeOK
<1> QED BY <1>2, <1>3, <1>4 DEF TexturesFresh, VideoInv

\* A texture is decoded from pages that the renderer has, so it reads the same as long as those
\* hold what they held and are mapped where they were.
LEMMA ReadsSame ==
  ASSUME MapsGiven, textureSlotAddr' = textureSlotAddr, texPalSlot' = texPalSlot,
         \A page : page = UNMAPPED \/ Given("render", page) => PageHolds(page)' = PageHolds(page),
         NEW t \in Textures
  PROVE  TexData(t)' = TexData(t) /\ PalData(t)' = PalData(t)
<1>1. t.slots \in Seq(Nat) /\ t.pals \in Seq(Nat)
  BY VideoAssumption
<1>2. ASSUME NEW i \in 1 .. Len(t.slots)
      PROVE  PageHolds(textureSlotAddr[t.slots[i] % 4])' = PageHolds(textureSlotAddr[t.slots[i] % 4])
  <2>1. t.slots[i] % 4 \in 0 .. 3
    <3>1. \A n \in Nat : n % 4 \in 0 .. 3 OBVIOUS
    <3>2. t.slots[i] \in Nat BY <1>1
    <3> QED BY <3>1, <3>2
  <2>2. textureSlotAddr[t.slots[i] % 4] = UNMAPPED \/ Given("render", textureSlotAddr[t.slots[i] % 4])
    BY <2>1 DEF MapsGiven
  <2> QED BY <2>2
<1>3. ASSUME NEW i \in 1 .. Len(t.pals)
      PROVE  PageHolds(texPalSlot[PalSlot(t.pals[i] % 8)])' = PageHolds(texPalSlot[PalSlot(t.pals[i] % 8)])
  <2>1. t.pals[i] % 8 \in 0 .. 7
    <3>1. \A n \in Nat : n % 8 \in 0 .. 7 OBVIOUS
    <3>2. t.pals[i] \in Nat BY <1>1
    <3> QED BY <3>1, <3>2
  <2>2. PalSlot(t.pals[i] % 8) \in 0 .. 5
    BY <2>1 DEF PalSlot
  <2>3. texPalSlot[PalSlot(t.pals[i] % 8)] = UNMAPPED \/ Given("render", texPalSlot[PalSlot(t.pals[i] % 8)])
    BY <2>2 DEF MapsGiven
  <2> QED BY <2>3
<1>4. TexData(t)' = TexData(t)
  BY <1>2 DEF TexData
<1>5. PalData(t)' = PalData(t)
  BY <1>3 DEF PalData
<1> QED BY <1>4, <1>5

\* With maps and cache as they were, the rest follows from what textures read.
LEMMA StaysFresh ==
  ASSUME VideoInv, UNCHANGED <<bankCnt, mapVars, cache>>, video' = [p \in DataPages |-> video'[p]],
         \A page : page = UNMAPPED \/ Given("render", page) => PageHolds(page)' = PageHolds(page)
  PROVE  VideoInv'
<1>1. MapsGiven' /\ BigBanksWin' /\ CacheHolds'
  BY DEF VideoInv, MapsGiven, BigBanksWin, CacheHolds, Given, mapVars
<1>2. \A t \in Textures : TexData(t)' = TexData(t) /\ PalData(t)' = PalData(t)
  BY ReadsSame DEF VideoInv, mapVars
<1>3. CacheFresh'
  BY <1>2 DEF VideoInv, CacheFresh, CacheHolds
<1> QED BY <1>1, <1>3 DEF VideoInv

\* A page that is not the renderer's can be written (MMU_LCDmap).
LEMMA StoreKeepsFresh ==
  ASSUME VideoInv, NEW role, role # "render", NEW page, Given(role, page), StorePage(page)
  PROVE  VideoInv'
<1>1. PICK v \in Versions : video' = [video EXCEPT ![page] = v]
  BY DEF StorePage
<1>2. video = [p \in DataPages |-> video[p]]
  BY DEF VideoInv
<1>3. video' = [p \in DataPages |-> video'[p]] /\ \A p \in DataPages : p # page => video'[p] = video[p]
  BY <1>1, <1>2
<1>4. ASSUME NEW p, p = UNMAPPED \/ Given("render", p)
      PROVE  PageHolds(p)' = PageHolds(p)
  <2>1. p = UNMAPPED \/ p # page
    BY <1>4, RolesApart
  <2> QED BY <2>1, <1>3 DEF PageHolds
<1>5. UNCHANGED <<bankCnt, mapVars, cache>>
  BY DEF StorePage
<1> QED BY <1>3, <1>4, <1>5, StaysFresh

\* Suspicion raised or lifted changes nothing else (TexCache::invalidate).
Doubted(e) == [e EXCEPT !.suspectedInvalid = TRUE]
Cleared(e) == [e EXCEPT !.suspectedInvalid = FALSE]
LEMMA SuspectedEntry ==
  ASSUME NEW t, NEW e, HeldRight(t, e)
  PROVE  /\ HeldRight(t, Doubted(e)) /\ Doubted(e).suspectedInvalid
         /\ HeldRight(t, Cleared(e)) /\ Cleared(e).dump = e.dump /\ Cleared(e).decoded = e.decoded
<1>1. /\ DOMAIN Doubted(e) = DOMAIN e /\ Doubted(e).suspectedInvalid = TRUE
      /\ Doubted(e).dump = e.dump /\ Doubted(e).decoded = e.decoded
  BY DEF HeldRight, Doubted
<1>2. /\ DOMAIN Cleared(e) = DOMAIN e /\ Cleared(e).suspectedInvalid = FALSE
      /\ Cleared(e).dump = e.dump /\ Cleared(e).decoded = e.decoded
  BY DEF HeldRight, Cleared
<1> QED BY <1>1, <1>2 DEF HeldRight

\* Drawing decodes what memory holds, or finds that the dump agrees with it (TexCache::scan).
LEMMA DrawKeepsFresh ==
  ASSUME VideoInv, Draw
  PROVE  VideoInv'
<1>1. PICK t \in Textures : SetTexture(t)
  BY DEF Draw
<1>2. UNCHANGED <<bankCnt, mapVars, video>>
  BY <1>1 DEF SetTexture
<1>3. MapsGiven' /\ BigBanksWin' /\ video' = [p \in DataPages |-> video'[p]]
  BY <1>2 DEF VideoInv, MapsGiven, BigBanksWin, Given, mapVars
<1>4. \A u \in Textures : TexData(u)' = TexData(u) /\ PalData(u)' = PalData(u)
  BY <1>2 DEF TexData, PalData, PageHolds, mapVars
<1>5. Dump(t) = [texture |-> TexData(t), palette |-> IF t.fourByFour THEN <<>> ELSE PalData(t)]
  BY DEF Dump
<1>6. t.fourByFour \in BOOLEAN
  BY VideoAssumption
<1>7. CASE t \in DOMAIN cache /\ ~cache[t].suspectedInvalid
  <2>1. cache' = cache BY <1>1, <1>7 DEF SetTexture
  <2>2. CacheHolds' /\ CacheFresh'
    BY <2>1, <1>4 DEF VideoInv, CacheHolds, CacheFresh
  <2> QED BY <1>3, <2>2 DEF VideoInv
<1>8. CASE t \in DOMAIN cache /\ cache[t].suspectedInvalid /\ cache[t].dump = Dump(t)
  <2>1. cache' = [cache EXCEPT ![t].suspectedInvalid = FALSE] BY <1>1, <1>8 DEF SetTexture
  <2>2. /\ DOMAIN cache' = DOMAIN cache /\ cache' = [u \in DOMAIN cache |-> cache'[u]]
        /\ \A u \in DOMAIN cache : u # t => cache'[u] = cache[u]
        /\ cache'[t] = Cleared(cache[t])
    BY <2>1, <1>8 DEF VideoInv, CacheHolds, Cleared
  <2>6. HeldRight(t, cache[t])
    BY <1>8 DEF VideoInv, CacheHolds
  <2>7. /\ HeldRight(t, cache'[t]) /\ cache'[t].dump = cache[t].dump
        /\ cache'[t].decoded = cache[t].decoded
    BY <2>2, <2>6, SuspectedEntry
  <2>3. CacheHolds'
    BY <2>2, <2>7, <1>8 DEF VideoInv, CacheHolds
  <2>4. ~t.fourByFour => cache'[t].decoded = <<TexData(t), PalData(t)>>
    BY <2>6, <2>7, <1>5, <1>8 DEF HeldRight
  <2>5. CacheFresh'
    BY <2>2, <2>4, <1>4, <1>8 DEF VideoInv, CacheHolds, CacheFresh
  <2> QED BY <1>3, <2>3, <2>5 DEF VideoInv
<1>9. CASE t \notin DOMAIN cache \/ (cache[t].suspectedInvalid /\ cache[t].dump # Dump(t))
  <2>1. cache' = [u \in DOMAIN cache \cup {t} |-> IF u = t THEN Decoded(t) ELSE cache[u]]
    BY <1>1, <1>9 DEF SetTexture
  <2>2. DOMAIN Decoded(t) = {"suspectedInvalid", "dump", "decoded"}
    BY DEF Decoded
  <2>3. /\ DOMAIN cache' = DOMAIN cache \cup {t} /\ cache' = [u \in DOMAIN cache' |-> cache'[u]]
        /\ \A u \in DOMAIN cache : u # t => cache'[u] = cache[u]
        /\ cache'[t] = Decoded(t)
    BY <2>1
  <2>6. HeldRight(t, Decoded(t)) /\ Decoded(t).decoded = <<TexData(t), PalData(t)>>
    <3>1. /\ Decoded(t).suspectedInvalid = FALSE /\ Decoded(t).dump = Dump(t)
          /\ Decoded(t).decoded = <<TexData(t), PalData(t)>>
      BY DEF Decoded
    <3>2. ~t.fourByFour => Dump(t).texture = TexData(t) /\ Dump(t).palette = PalData(t)
      BY <1>5
    <3> QED BY <2>2, <3>1, <3>2 DEF HeldRight
  <2>4. CacheHolds'
    BY <2>3, <2>6 DEF VideoInv, CacheHolds
  <2>5. CacheFresh'
    BY <2>3, <2>6, <1>4 DEF VideoInv, CacheHolds, CacheFresh
  <2> QED BY <1>3, <2>4, <2>5 DEF VideoInv
<1>10. t \in DOMAIN cache => cache[t].suspectedInvalid \in BOOLEAN
  BY DEF VideoInv, CacheHolds, HeldRight
<1> QED BY <1>7, <1>8, <1>9, <1>10

\* What a game may write to a bank.
LEMMA OffersAre == Off \in Offered /\ \A b \in Banks : Settings[b] \subseteq Offered
<1>1. Off \in Offered
  BY DEF Offered
<1>2. ASSUME NEW b \in Banks, NEW s \in Settings[b]
      PROVE  s \in Offered
  BY Zenon DEF Offered
<1> QED BY <1>1, <1>2

\* A register write maps the banks again, and leaves no texture trusted that read other pages
\* (MMU_VRAMmapControl).
LEMMA ControlKeepsFresh ==
  ASSUME VideoInv, WriteVramControl
  PROVE  VideoInv'
<1>0. PICK b \in Banks : \E s \in Settings[b] \cup {Off} : MMU_VRAMmapControl(b, s)
  BY DEF WriteVramControl
<1>1. PICK s \in Settings[b] \cup {Off} : MMU_VRAMmapControl(b, s)
  BY <1>0
<1>2. bankCnt' = [bankCnt EXCEPT ![b] = s] /\ Maps(bankCnt', UnmappedLcdc) /\ video' = video
  BY <1>1 DEF MMU_VRAMmapControl
<1>3. s \in Setting
  <2>1. Settings[b] \subseteq [mst : 0 .. 7, ofs : 0 .. 3]
    BY VideoAssumption
  <2>2. Off \in Setting
    BY DEF Off, Setting
  <2>3. \A u \in [mst : 0 .. 7, ofs : 0 .. 3] : u \in Setting
    BY DEF Setting
  <2> QED BY <2>1, <2>2, <2>3
<1>4. bankCnt' \in [Banks -> Setting]
  BY <1>2, <1>3 DEF VideoInv, MapsGiven
<1>5. bankCnt' \in [Banks -> Offered]
  <2>1. s \in Offered
    BY <1>1, OffersAre
  <2> QED BY <1>2, <2>1 DEF VideoInv, MapsGiven
<1>6. MapsGiven' /\ BigBanksWin'
  BY <1>2, <1>4, <1>5, RefreshMaps
<1>7. CASE textureSlotAddr' # textureSlotAddr \/ texPalSlot' # texPalSlot
  <2>1. cache' = [t \in DOMAIN cache |-> [cache[t] EXCEPT !.suspectedInvalid = TRUE]]
    BY <1>1, <1>7 DEF MMU_VRAMmapControl, Suspected
  <2>2. /\ DOMAIN cache' = DOMAIN cache /\ cache' = [t \in DOMAIN cache |-> cache'[t]]
        /\ \A t \in DOMAIN cache : cache'[t] = Doubted(cache[t])
    BY <2>1 DEF Doubted
  <2>4. \A t \in DOMAIN cache : HeldRight(t, cache'[t]) /\ cache'[t].suspectedInvalid
    BY <2>2, SuspectedEntry DEF VideoInv, CacheHolds
  <2>3. CacheHolds' /\ CacheFresh'
    BY <2>2, <2>4 DEF VideoInv, CacheHolds, CacheFresh
  <2> QED BY <1>2, <1>6, <2>3 DEF VideoInv
<1>8. CASE textureSlotAddr' = textureSlotAddr /\ texPalSlot' = texPalSlot
  <2>1. cache' = cache
    BY <1>1, <1>8 DEF MMU_VRAMmapControl
  <2>2. \A t \in Textures : TexData(t)' = TexData(t) /\ PalData(t)' = PalData(t)
    BY <1>2, <1>8 DEF TexData, PalData, PageHolds
  <2>3. CacheHolds' /\ CacheFresh'
    BY <2>1, <2>2 DEF VideoInv, CacheHolds, CacheFresh
  <2> QED BY <1>2, <1>6, <2>3 DEF VideoInv
<1> QED BY <1>7, <1>8

\* Every step keeps the invariant.
LEMMA VideoStep ==
  ASSUME VideoInv, [VideoNext]_videoVars
  PROVE  VideoInv'
<1>1. CASE WriteVramControl
  BY <1>1, ControlKeepsFresh
<1>2. CASE CpuWrite
  <2>1. PICK page \in Arm9Pages \cup Arm7Pages : StorePage(page)
    BY <1>2 DEF CpuWrite
  <2>2. Given("lcdc", page) \/ Given("nine", page) \/ Given("seven", page)
    BY PagesGiven DEF VideoInv, Arm9Pages
  <2> QED BY <2>1, <2>2, StoreKeepsFresh
<1>3. CASE Capture
  <2>0. PICK b \in Big : purpose[b] = "LCDC" /\ \E page \in PagesOf(b) : StorePage(page)
    BY <1>3 DEF Capture
  <2>1. PICK page \in PagesOf(b) : StorePage(page)
    BY <2>0
  <2>2. b \in Banks
    BY DEF Big, Banks
  <2>3. Purpose(b, bankCnt[b]) = "LCDC"
    BY <2>0, <2>2 DEF VideoInv, MapsGiven
  <2>4. bankCnt[b].mst = 0
    BY <2>3 DEF Purpose
  <2>5. Role(b, bankCnt[b]) = "lcdc"
    BY <2>4 DEF Role, OnSeven
  <2>6. Given("lcdc", page)
    BY <2>1, <2>2, <2>5 DEF Given
  <2> QED BY <2>1, <2>6, StoreKeepsFresh
<1>4. CASE Draw
  BY <1>4, DrawKeepsFresh
<1>5. CASE EvictFrame
  <2>1. PICK left \in SUBSET DOMAIN cache : cache' = [t \in left |-> cache[t]]
    BY <1>5 DEF EvictFrame
  <2>2. UNCHANGED <<bankCnt, mapVars, video>>
    BY <1>5 DEF EvictFrame
  <2>3. MapsGiven' /\ BigBanksWin' /\ video' = [p \in DataPages |-> video'[p]]
    BY <2>2 DEF VideoInv, MapsGiven, BigBanksWin, Given, mapVars
  <2>4. \A t \in Textures : TexData(t)' = TexData(t) /\ PalData(t)' = PalData(t)
    BY <2>2 DEF TexData, PalData, PageHolds, mapVars
  <2>5. CacheHolds' /\ CacheFresh'
    BY <2>1, <2>4 DEF VideoInv, CacheHolds, CacheFresh
  <2> QED BY <2>3, <2>5 DEF VideoInv
<1>6. CASE Reset
  <2>1. bankCnt' = [b \in Banks |-> Off] /\ Maps(bankCnt', UnmappedLcdc)
    BY <1>6 DEF Reset
  <2>2. Off \in Setting
    BY DEF Off, Setting
  <2>3. MapsGiven' /\ BigBanksWin'
    <3>1. bankCnt' \in [Banks -> Setting]
      BY <2>1, <2>2
    <3>2. bankCnt' \in [Banks -> Offered]
      BY <2>1, OffersAre
    <3> QED BY <2>1, <3>1, <3>2, RefreshMaps
  <2>4. cache' = Nothing /\ video' = [p \in DataPages |-> 0]
    BY <1>6 DEF Reset
  <2>5. CacheHolds' /\ CacheFresh'
    BY <2>4 DEF Nothing, CacheHolds, CacheFresh
  <2> QED BY <2>3, <2>4, <2>5 DEF VideoInv
<1>7. CASE UNCHANGED videoVars
  BY <1>7, StaysFresh DEF videoVars, mapVars, PageHolds, VideoInv
<1> QED BY <1>1, <1>2, <1>3, <1>4, <1>5, <1>6, <1>7 DEF VideoNext

\* Nothing is mapped at first (MMU_Init).
LEMMA VideoBegins == VideoInit => VideoInv
<1> SUFFICES ASSUME VideoInit PROVE VideoInv
  OBVIOUS
<1>1. \A b \in Banks : bankCnt[b] = Off
  BY DEF VideoInit
<1>2. \A b \in Banks : Purpose(b, Off) = "OFF"
  BY DEF Purpose, Off
<1>3. purpose = [b \in Banks |-> Purpose(b, bankCnt[b])]
  BY <1>1, <1>2 DEF VideoInit
<1>4. bankCnt \in [Banks -> Setting] /\ bankCnt \in [Banks -> Offered]
  <2>1. Off \in Offered
    BY OffersAre
  <2>2. Off \in Setting
    BY DEF Off, Setting
  <2> QED BY <2>1, <2>2 DEF VideoInit
<1>5. MapsGiven
  <2>1. UNMAPPED \in 0 .. UNMAPPED
    BY DEF UNMAPPED
  <2> QED BY <1>3, <1>4, <2>1 DEF VideoInit, MapsGiven, UnmappedLcdc, UnmappedNine, UnmappedSeven, UnmappedTex, UnmappedPal
<1>6. BigBanksWin
  BY <1>1 DEF BigBanksWin, Big, Banks
<1>7. CacheHolds /\ CacheFresh
  BY DEF VideoInit, Nothing, CacheHolds, CacheFresh
<1> QED BY <1>5, <1>6, <1>7 DEF VideoInv, VideoInit

\* For every set of settings and textures: textures are what memory holds, and what they are read
\* from nobody writes.
THEOREM TexturesStayFresh == VideoSpec => []TexturesFresh
<1>1. VideoInv /\ [VideoNext]_videoVars => VideoInv'
  BY VideoStep
<1> QED BY VideoBegins, VideoInvMeans, <1>1, PTL DEF VideoSpec
=============================================================================
