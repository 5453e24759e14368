----------------------------- MODULE Interrupts -----------------------------
(***************************************************************************)
(* IE, IF, IME, halt and wake-up of the two processors, the IPCSync lines, *)
(* and how a burst of translated code (dynarec_exec) is entered and left.  *)
(*                                                                         *)
(* The game of a processor is a loop of three places, a call of IntrWait,  *)
(* one instruction of its choice (Does) and a direct branch back, and a    *)
(* handler of two: acknowledge and return.  Time is left out: the inner    *)
(* loop may end after any pass, and must end when reschedule is set.       *)
(* A processor without instructions has halted for good, with IE clear.    *)
(***************************************************************************)
EXTENDS Naturals

CONSTANTS Irqs,     \* the bits of IE and IF
          SYNC,     \* the bit IPCSync raises
          GX,       \* the level of the geometry FIFO, on the ARM9 only
          Waited,   \* the interrupts the game waits for
          Nibbles,  \* values of the four lines of IPCSync
          Games     \* the games: the instructions each processor has

ASSUME IrqsAssumption == SYNC \in Irqs /\ GX \in Irqs /\ SYNC # GX
ASSUME WaitedAssumption == Waited \subseteq Irqs /\ Waited # {}
ASSUME NibblesAssumption == 0 \in Nibbles

Procs == {"arm9", "arm7"}
Other(p) == IF p = "arm9" THEN "arm7" ELSE "arm9"
Instructions ==
  {"intrwait", "halt", "wait", "sleep", "ie", "ime", "msr", "sync", "gxstat"}
ASSUME GamesAssumption == Games \subseteq [Procs -> SUBSET Instructions]

\* guest addresses; BEFORE is where a PC rewound from the loop's start points
BEFORE == 0
CALL == 1
WORK == 2
JUMP == 3
ACK == 4
RETURN == 5
Places == BEFORE .. RETURN

VARIABLES
  game,                       \* the game in the slot
  reg_IE, reg_IF, reg_IME,    \* MMU.reg_IE, reg_IF_bits, reg_IME
  gxline,                     \* the FIFO interrupt of TGXSTAT is on
  sync,                       \* the two IPCSYNC registers
  cpsr_I,                     \* CPSR.bits.I
  waitIRQ, halt_IE_and_IF, intrWaitARM_state,
  flags,                      \* the IRQ flag variable of the OS
  R15,                        \* REG_PC: the PC as last stored
  R14_irq,                    \* where the handler returns to
  changed,                    \* R[CHANGED_PC_STATUS]
  pc,                         \* where the translated code is, or resumes
  phase,                      \* the place in NDS_exec
  running,                    \* a burst is in progress
  reschedule, sleeping

irqVars == <<reg_IE, reg_IF, reg_IME, gxline, sync>>
haltVars == <<waitIRQ, halt_IE_and_IF, intrWaitARM_state, flags>>
codeVars == <<cpsr_I, R15, R14_irq, changed, pc>>
loopVars == <<phase, running, reschedule, sleeping>>
vars == <<game, irqVars, haltVars, codeVars, loopVars>>

\* IPCSYNC; the bit that sends is kept too, and never looked at again
SyncReg == [in : Nibbles, out : Nibbles, recv : BOOLEAN]

TypeOK ==
  /\ game \in Games
  /\ reg_IE \in [Procs -> SUBSET Irqs]
  /\ reg_IF \in [Procs -> SUBSET (Irqs \ {GX})]
  /\ reg_IME \in [Procs -> BOOLEAN]
  /\ gxline \in BOOLEAN
  /\ sync \in [Procs -> SyncReg]
  /\ cpsr_I \in [Procs -> BOOLEAN]
  /\ waitIRQ \in [Procs -> BOOLEAN]
  /\ halt_IE_and_IF \in [Procs -> BOOLEAN]
  /\ intrWaitARM_state \in [Procs -> {0, 1}]
  /\ flags \in [Procs -> SUBSET Waited]
  /\ R15 \in [Procs -> Places]
  /\ R14_irq \in [Procs -> Places]
  /\ pc \in [Procs -> Places]
  /\ changed \in [Procs -> {0, 1}]
  /\ phase \in {"frame", "hardware", "loop", "arm9", "arm7"}
  /\ running \in BOOLEAN
  /\ reschedule \in BOOLEAN
  /\ sleeping \in BOOLEAN

\* armcpu_init and MMU_Reset, with the game's first instructions behind
Init ==
  /\ game \in Games
  /\ reg_IE \in [Procs -> {{}, Irqs}]
  /\ \A p \in Procs : game[p] = {} => reg_IE[p] = {}
  /\ reg_IF = [p \in Procs |-> {}]
  /\ reg_IME = [p \in Procs |-> FALSE]
  /\ gxline = FALSE
  /\ sync = [p \in Procs |-> [in |-> 0, out |-> 0, recv |-> FALSE]]
  /\ cpsr_I = [p \in Procs |-> FALSE]
  /\ waitIRQ = [p \in Procs |-> game[p] = {}]
  /\ halt_IE_and_IF = [p \in Procs |-> game[p] = {}]
  /\ intrWaitARM_state = [p \in Procs |-> 0]
  /\ flags = [p \in Procs |-> {}]
  /\ R15 = [p \in Procs |-> CALL]
  /\ R14_irq = [p \in Procs |-> CALL]
  /\ changed = [p \in Procs |-> 1]
  /\ pc = [p \in Procs |-> CALL]
  /\ phase = "frame" /\ running = FALSE
  /\ reschedule = FALSE /\ sleeping = FALSE

\* NDS_makeIrq, of a keypad, a timer, a vertical blank
MakeIrq ==
  \E p \in Procs, i \in Irqs \ {SYNC, GX} :
    game[p] # {} /\ reg_IF' = [reg_IF EXCEPT ![p] = @ \cup {i}]

GenIF(p) == reg_IF[p] \cup (IF p = "arm9" /\ gxline THEN {GX} ELSE {})
Masked(p) == GenIF(p) \cap reg_IE[p]

-----------------------------------------------------------------------------
(* NDS_exec *)

\* input of the user between two frames: NDS_makeIrq of the keypad
Input ==
  /\ phase = "frame"
  /\ MakeIrq
  /\ reschedule' = TRUE
  /\ UNCHANGED <<reg_IE, reg_IME, gxline, sync, haltVars, codeVars, phase,
                 running, sleeping>>

\* mutant: the wrong processor is asked
SleepFrameArm9 ==
  /\ phase = "frame" /\ sleeping
  /\ sleeping' = (Masked("arm9") = {})
  /\ UNCHANGED <<irqVars, haltVars, codeVars, phase, running, reschedule>>

\* a frame of a machine asleep: nothing runs but the test for waking up
SleepFrame ==
  /\ phase = "frame" /\ sleeping
  /\ sleeping' = (Masked("arm7") = {})
  /\ UNCHANGED <<irqVars, haltVars, codeVars, phase, running, reschedule>>

BeginFrame ==
  /\ phase = "frame" /\ ~sleeping
  /\ phase' = "hardware"
  /\ UNCHANGED <<irqVars, haltVars, codeVars, running, reschedule, sleeping>>

\* execHardware: an event raises an interrupt or moves the FIFO's level
Device ==
  /\ phase = "hardware"
  /\ \/ MakeIrq /\ UNCHANGED gxline
     \/ gxline' = ~gxline /\ UNCHANGED reg_IF
  /\ UNCHANGED <<reg_IE, reg_IME, sync, haltVars, codeVars, loopVars>>

\* nds_vblankEnded: NDS_exec returns before it looks at the interrupts
EndFrame ==
  /\ phase = "hardware"
  /\ phase' = "frame"
  /\ UNCHANGED <<irqVars, haltVars, codeVars, running, reschedule, sleeping>>

\* mutant: a processor whose IME is off stays halted
WokenIME(p) == halt_IE_and_IF[p] /\ Masked(p) # {} /\ reg_IME[p]

\* mutant: the exception is left to clear waitIRQ
WokenNever(p) == FALSE

Woken(p) == halt_IE_and_IF[p] /\ Masked(p) # {}
Taken(p) == Masked(p) # {} /\ reg_IME[p] /\ ~cpsr_I[p]

\* execHardware_interrupts, with armcpu_irqException for each Taken(p)
ServeInterrupts ==
  /\ phase = "hardware"
  /\ halt_IE_and_IF' = [p \in Procs |-> halt_IE_and_IF[p] /\ ~Woken(p)]
  /\ waitIRQ' = [p \in Procs |-> waitIRQ[p] /\ ~Woken(p) /\ ~Taken(p)]
  /\ R14_irq' = [p \in Procs |-> IF Taken(p) THEN R15[p] ELSE R14_irq[p]]
  /\ R15' = [p \in Procs |-> IF Taken(p) THEN ACK ELSE R15[p]]
  /\ cpsr_I' = [p \in Procs |-> cpsr_I[p] \/ Taken(p)]
  /\ changed' = [p \in Procs |-> IF Taken(p) THEN 1 ELSE changed[p]]
  /\ reschedule' = FALSE
  /\ phase' = "loop"
  /\ UNCHANGED <<irqVars, intrWaitARM_state, flags, pc, running, sleeping>>

\* one pass of armInnerLoop: the ARM9 or its turn to wait, then the ARM7
LoopPass ==
  /\ phase = "loop" /\ ~reschedule
  /\ phase' = "arm9"
  /\ UNCHANGED <<irqVars, haltVars, codeVars, running, reschedule, sleeping>>

LoopEnd ==
  /\ phase = "loop"
  /\ phase' = "hardware"
  /\ UNCHANGED <<irqVars, haltVars, codeVars, running, reschedule, sleeping>>

After(p) == IF p = "arm9" THEN "arm7" ELSE "loop"

\* not its time yet, or waitIRQ
Idle(p) ==
  /\ phase = p /\ ~running
  /\ phase' = After(p)
  /\ UNCHANGED <<irqVars, haltVars, codeVars, running, reschedule, sleeping>>

-----------------------------------------------------------------------------
(* A burst: dynarec_exec up to arm_update_gba *)

\* a PC that changed is looked up, otherwise the code resumes behind its exit
EnterBurst(p) ==
  /\ phase = p /\ ~running /\ ~waitIRQ[p]
  /\ running' = TRUE
  /\ pc' = [pc EXCEPT ![p] = IF changed[p] = 1 THEN R15[p] ELSE @]
  /\ changed' = [changed EXCEPT ![p] = 0]
  /\ UNCHANGED <<irqVars, haltVars, cpsr_I, R15, R14_irq, phase, reschedule,
                 sleeping>>

At(p, place) == phase = p /\ running /\ pc[p] = place
Goto(p, place) == pc' = [pc EXCEPT ![p] = place]

\* a store that finds the PC changed stores the PC and looks it up (lookup_pc)
StoreChecked(p, next) ==
  /\ Goto(p, next)
  /\ R15' = [R15 EXCEPT ![p] = IF changed[p] = 1 THEN next ELSE @]
  /\ changed' = [changed EXCEPT ![p] = 0]
  /\ UNCHANGED <<cpsr_I, R14_irq, phase, running>>

\* arm_update_gba: the PC is stored, the scheduler gets its turn
Exit(p, next) ==
  /\ R15' = [R15 EXCEPT ![p] = next]
  /\ Goto(p, next)
  /\ running' = FALSE
  /\ phase' = After(p)

Halt(p) ==
  /\ waitIRQ' = [waitIRQ EXCEPT ![p] = TRUE]
  /\ halt_IE_and_IF' = [halt_IE_and_IF EXCEPT ![p] = TRUE]

\* code that touches none of this: the game need not act, nor wait
OtherCode(p) ==
  /\ \/ At(p, CALL) /\ "intrwait" \notin game[p] /\ Goto(p, WORK)
     \/ At(p, WORK) /\ Goto(p, JUMP)
  /\ UNCHANGED <<irqVars, haltVars, cpsr_I, R15, R14_irq, changed, loopVars>>

\* intrWaitARM: IME is set; on the first run through, discard asks to forget
\* old flags and to wait at least once
Discards(p, discard) == intrWaitARM_state[p] = 0 /\ discard
Satisfied(p, discard) == ~Discards(p, discard) /\ flags[p] # {}

\* whatever intrWaitARM does to R15, execute_swi continues behind the SWI
IntrWait(p, discard) ==
  /\ At(p, CALL) /\ "intrwait" \in game[p]
  /\ reg_IME' = [reg_IME EXCEPT ![p] = TRUE]
  /\ reschedule' = TRUE
  /\ flags' = [flags EXCEPT ![p] =
                 IF Discards(p, discard) \/ Satisfied(p, discard)
                 THEN {} ELSE @]
  /\ IF Satisfied(p, discard)
     THEN /\ intrWaitARM_state' = [intrWaitARM_state EXCEPT ![p] = 0]
          /\ UNCHANGED <<waitIRQ, halt_IE_and_IF, R15, changed>>
     ELSE /\ intrWaitARM_state' = [intrWaitARM_state EXCEPT ![p] = 1]
          /\ Halt(p)
          /\ R15' = [R15 EXCEPT ![p] = IF @ = BEFORE THEN @ ELSE @ - 1]
          /\ changed' = [changed EXCEPT ![p] = 1]
  /\ Goto(p, WORK)
  /\ UNCHANGED <<reg_IE, reg_IF, gxline, sync, cpsr_I, R14_irq, phase, running,
                 sleeping>>

\* the SWI Halt (wait4IRQ): the burst goes on to its exit
SwiHalt(p) ==
  /\ At(p, WORK) /\ "halt" \in game[p]
  /\ Halt(p)
  /\ Goto(p, JUMP)
  /\ UNCHANGED <<irqVars, intrWaitARM_state, flags, cpsr_I, R15, R14_irq,
                 changed, loopVars>>

\* mutant: R[31] keeps its 2
WaitForIrqKept(p) ==
  /\ At(p, WORK) /\ "wait" \in game[p]
  /\ Halt(p)
  /\ changed' = [changed EXCEPT ![p] = 2]
  /\ Exit(p, JUMP)
  /\ UNCHANGED <<irqVars, intrWaitARM_state, flags, cpsr_I, R14_irq, reschedule,
                 sleeping>>

\* HALTCNT or CP15: R[31] = 2 makes the store or the MCR leave the burst
WaitForIrq(p) ==
  /\ At(p, WORK) /\ "wait" \in game[p]
  /\ Halt(p)
  /\ changed' = [changed EXCEPT ![p] = 0]
  /\ Exit(p, JUMP)
  /\ UNCHANGED <<irqVars, intrWaitARM_state, flags, cpsr_I, R14_irq, reschedule,
                 sleeping>>

\* HALTCNT = 0xC0, of the ARM7
Sleep(p) ==
  /\ At(p, WORK) /\ "sleep" \in game[p]
  /\ sleeping' = TRUE
  /\ StoreChecked(p, JUMP)
  /\ UNCHANGED <<irqVars, haltVars, reschedule>>

WriteIE(p) ==
  /\ At(p, WORK) /\ "ie" \in game[p]
  /\ \E bits \in {{}, Irqs} : reg_IE' = [reg_IE EXCEPT ![p] = bits]
  /\ reschedule' = TRUE
  /\ StoreChecked(p, JUMP)
  /\ UNCHANGED <<reg_IF, reg_IME, gxline, sync, haltVars, sleeping>>

WriteIME(p) ==
  /\ At(p, WORK) /\ "ime" \in game[p]
  /\ \E on \in BOOLEAN : reg_IME' = [reg_IME EXCEPT ![p] = on]
  /\ reschedule' = TRUE
  /\ StoreChecked(p, JUMP)
  /\ UNCHANGED <<reg_IE, reg_IF, gxline, sync, haltVars, sleeping>>

\* MSR: execute_store_cpsr_body calls changeCPSR
WriteCPSR(p) ==
  /\ At(p, WORK) /\ "msr" \in game[p]
  /\ \E masked \in BOOLEAN : cpsr_I' = [cpsr_I EXCEPT ![p] = masked]
  /\ reschedule' = TRUE
  /\ Goto(p, JUMP)
  /\ UNCHANGED <<irqVars, haltVars, R15, R14_irq, changed, phase, running,
                 sleeping>>

\* TGXSTAT::write32 chooses the condition of the level and reschedules nothing
WriteGXSTAT(p) ==
  /\ At(p, WORK) /\ "gxstat" \in game[p]
  /\ gxline' \in BOOLEAN
  /\ StoreChecked(p, JUMP)
  /\ UNCHANGED <<reg_IE, reg_IF, reg_IME, sync, haltVars, reschedule, sleeping>>

\* mutant: the other register is written from its own lines
IPCSyncOwn(p) ==
  /\ At(p, WORK) /\ "sync" \in game[p]
  /\ \E out \in Nibbles, send, recv \in BOOLEAN :
       /\ sync' = [sync EXCEPT ![p] = [@ EXCEPT !.out = out, !.recv = recv],
                               ![Other(p)] = [@ EXCEPT !.in = sync[p].out]]
       /\ reg_IF' = [reg_IF EXCEPT ![Other(p)] =
                       IF send /\ sync[Other(p)].recv THEN @ \cup {SYNC} ELSE @]
  /\ reschedule' = TRUE
  /\ StoreChecked(p, JUMP)
  /\ UNCHANGED <<reg_IE, reg_IME, gxline, haltVars, sleeping>>

\* mutant: the interrupt waits for the next event
IPCSyncQuiet(p) ==
  /\ At(p, WORK) /\ "sync" \in game[p]
  /\ \E out \in Nibbles, send, recv \in BOOLEAN :
       /\ sync' = [sync EXCEPT ![p] = [@ EXCEPT !.out = out, !.recv = recv],
                               ![Other(p)] = [@ EXCEPT !.in = out]]
       /\ reg_IF' = [reg_IF EXCEPT ![Other(p)] =
                       IF send /\ sync[Other(p)].recv THEN @ \cup {SYNC} ELSE @]
  /\ StoreChecked(p, JUMP)
  /\ UNCHANGED <<reg_IE, reg_IME, gxline, haltVars, reschedule, sleeping>>

\* MMU_IPCSync with the value [out, send, recv]
IPCSync(p) ==
  /\ At(p, WORK) /\ "sync" \in game[p]
  /\ \E out \in Nibbles, send, recv \in BOOLEAN :
       /\ sync' = [sync EXCEPT ![p] = [@ EXCEPT !.out = out, !.recv = recv],
                               ![Other(p)] = [@ EXCEPT !.in = out]]
       /\ reg_IF' = [reg_IF EXCEPT ![Other(p)] =
                       IF send /\ sync[Other(p)].recv THEN @ \cup {SYNC} ELSE @]
  /\ reschedule' = TRUE
  /\ StoreChecked(p, JUMP)
  /\ UNCHANGED <<reg_IE, reg_IME, gxline, haltVars, sleeping>>

\* a direct branch leaves the burst; the code resumes behind the branch
Branch(p) ==
  /\ At(p, JUMP)
  /\ Exit(p, CALL)
  /\ UNCHANGED <<irqVars, haltVars, cpsr_I, R14_irq, changed, reschedule,
                 sleeping>>

\* the handler acknowledges all it finds (REG_IF_Write) and tells the OS
Acknowledge(p) ==
  /\ At(p, ACK)
  /\ reg_IF' = [reg_IF EXCEPT ![p] = @ \ Masked(p)]
  /\ flags' = [flags EXCEPT ![p] = @ \cup (Masked(p) \cap Waited)]
  /\ reschedule' = TRUE
  /\ StoreChecked(p, RETURN)
  /\ UNCHANGED <<reg_IE, reg_IME, gxline, sync, waitIRQ, halt_IE_and_IF,
                 intrWaitARM_state, sleeping>>

\* execute_spsr_restore: changeCPSR, then the code returned to is looked up
ReturnFromIrq(p) ==
  /\ At(p, RETURN)
  /\ cpsr_I' = [cpsr_I EXCEPT ![p] = FALSE]
  /\ reschedule' = TRUE
  /\ Goto(p, R14_irq[p])
  /\ UNCHANGED <<irqVars, haltVars, R15, R14_irq, changed, phase, running,
                 sleeping>>

-----------------------------------------------------------------------------
Frame == Input \/ SleepFrame \/ BeginFrame
Hardware == Device \/ EndFrame \/ ServeInterrupts
Guest(p) ==
  \/ OtherCode(p) \/ \E discard \in BOOLEAN : IntrWait(p, discard)
  \/ SwiHalt(p) \/ WaitForIrq(p) \/ Sleep(p)
  \/ WriteIE(p) \/ WriteIME(p) \/ WriteCPSR(p) \/ WriteGXSTAT(p) \/ IPCSync(p)
  \/ Branch(p) \/ Acknowledge(p) \/ ReturnFromIrq(p)
Next ==
  /\ \/ Frame \/ Hardware \/ LoopPass \/ LoopEnd
     \/ \E p \in Procs : Idle(p) \/ EnterBurst(p) \/ Guest(p)
  /\ UNCHANGED game

Spec == Init /\ [][Next]_vars

(***************************************************************************)
(* The thread of the emulator runs: a frame begins, the machine asleep is  *)
(* looked at, an instruction is followed by the next.  Time passes, so     *)
(* that the inner loop ends and a frame does not end at every event.       *)
(***************************************************************************)
Keep(A) == A /\ UNCHANGED game
Fairness ==
  /\ WF_vars(Keep(BeginFrame)) /\ WF_vars(Keep(SleepFrame))
  /\ SF_vars(Keep(ServeInterrupts)) /\ SF_vars(Keep(EndFrame))
  /\ SF_vars(Keep(LoopEnd))
  /\ WF_vars(Keep(LoopPass \/ LoopEnd))
  /\ WF_vars(Keep(\E p \in Procs : Idle(p)))
  /\ WF_vars(Keep(\E p \in Procs : Guest(p)))

FairSpec == Spec /\ Fairness

-----------------------------------------------------------------------------
(* Properties *)

\* The two flags of a halted processor agree: the exception clears waitIRQ
\* alone, and may, because whatever takes it has woken the processor first.
HaltIsWait == waitIRQ = halt_IE_and_IF

\* What a processor reads on its four lines is what the other one wrote.
SyncMirrored == \A p \in Procs : sync[p].in = sync[Other(p)].out

Pending(p) == reg_IF[p] \cap reg_IE[p] # {}

\* An interrupt that becomes pending while its processor is halted and the
\* inner loop runs makes the loop end: every way to raise or enable one
\* reschedules.
RaiseEndsLoop ==
  [][\A p \in Procs :
       halt_IE_and_IF[p] /\ ~Pending(p) /\ Pending(p)'
       /\ phase \in {"loop", "arm9", "arm7"} => reschedule']_vars

\* A halted processor with an enabled interrupt, IME on or off, raised before
\* or after it halted, is woken, unless the machine is put to sleep or the
\* level of the FIFO falls again.
WakesUp ==
  \A p \in Procs :
    halt_IE_and_IF[p] /\ Masked(p) # {}
      ~> ~halt_IE_and_IF[p] \/ Masked(p) = {} \/ sleeping

\* A machine asleep wakes by an interrupt of the ARM7, unless the ARM7, which
\* runs on to the end of its frame, disables or acknowledges it before.
SleepEnds == sleeping /\ Masked("arm7") # {} ~> ~sleeping \/ Masked("arm7") = {}

\* The copies agree: two flags of a halt, two registers of the lines.
HaltsAgree == TypeOK /\ HaltIsWait /\ SyncMirrored

\* A processor that waits for an interrupt it gets goes on, and so does a machine asleep.
SleepersWake == WakesUp /\ SleepEnds
=============================================================================
