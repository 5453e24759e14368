------------------------------ MODULE ArmState ------------------------------
(***************************************************************************)
(* The registers of a processor as the interpreter keeps them (armcpu_t):  *)
(* sixteen visible registers, the status words, the banks that hold the    *)
(* registers of the other modes; and what moves between them: changes of   *)
(* mode, exceptions, returns and branches.                                 *)
(*                                                                         *)
(* A processor is a record and an instruction a function from records to   *)
(* records, so that a property can speak of what two instructions in a row *)
(* do.  Words have Bits bits, for any Bits that is a power of two and at   *)
(* least 4.                                                                *)
(***************************************************************************)
EXTENDS Integers, FiniteSets, Sequences

CONSTANTS Bits,       \* width of a word: 4, 8, 16 or 32
          IntVector,  \* where the exception vectors lie
          LDTBit      \* 1 for ARMv5: a load of r15 may change to Thumb, else 0

Size == 2^Bits
Word == 0 .. Size - 1
W(x) == x % Size
Bit(x, k) == (x \div 2^k) % 2
BIT31(x) == Bit(x, Bits - 1)
Signed(x) == IF BIT31(x) = 1 THEN x - Size ELSE x
Truth(b) == IF b THEN 1 ELSE 0

USR == 16
FIQ == 17
IRQ == 18
SVC == 19
ABT == 23
UND == 27
SYS == 31
Modes == {USR, FIQ, IRQ, SVC, ABT, UND, SYS}
Exceptions == Modes \ {USR, SYS}
FiqOnly == 8 .. 12

\* The Status_Reg union, without the bits that are always zero.
Status == [mode : {0} \cup Modes, T : 0 .. 1, F : 0 .. 1, I : 0 .. 1,
           Q : 0 .. 1, V : 0 .. 1, C : 0 .. 1, Z : 0 .. 1, N : 0 .. 1]
StatusOf(m) == [mode |-> m, T |-> 0, F |-> 0, I |-> 0, Q |-> 0, V |-> 0, C |-> 0, Z |-> 0, N |-> 0]

\* System mode uses the user's registers.
BankOf(m) == IF m = SYS THEN USR ELSE m
Banked(m) == IF m = FIQ THEN 8 .. 14 ELSE 13 .. 14

\* armcpu_init: the fetch of the first instruction is left to prefetch.
Reset == [R |-> [r \in 0 .. 15 |-> 0], CPSR |-> StatusOf(SYS), SPSR |-> StatusOf(SYS),
          bank |-> [m \in Modes \ {SYS} |-> [r \in Banked(m) |-> 0]],
          saved |-> [m \in Exceptions |-> StatusOf(0)], adr |-> 0, next |-> 0]

\* The record has its types; the modes of the status words are modes, or 0 as
\* armcpu_init leaves them.
Processor(cpu) ==
  /\ cpu.R \in [0 .. 15 -> Word]
  /\ cpu.CPSR \in Status /\ cpu.SPSR \in Status
  /\ \A m \in Modes \ {SYS} : cpu.bank[m] \in [Banked(m) -> Word]
  /\ \A m \in Exceptions : cpu.saved[m] \in Status
  /\ {cpu.adr, cpu.next} \subseteq Word

\* armcpu_prefetch of the instruction at a: r15 is two instructions on.
prefetch(cpu, a) ==
  LET size == IF cpu.CPSR.T = 1 THEN 2 ELSE 4
  IN  [cpu EXCEPT !.adr = a - (a % size), !.next = W(a - (a % size) + size),
                  !.R[15] = W(a - (a % size) + 2 * size)]

\* FIQ has r8 to r12 of its own: entering and leaving it swap them.
SwapFiq(cpu) ==
  [cpu EXCEPT !.R = [r \in 0 .. 15 |-> IF r \in FiqOnly THEN cpu.bank[FIQ][r] ELSE @[r]],
              !.bank[FIQ] = [r \in 8 .. 14 |-> IF r \in FiqOnly THEN cpu.R[r] ELSE @[r]]]

LeaveFiqThere(cpu) ==
  LET m == cpu.CPSR.mode
      b == [cpu EXCEPT !.bank[BankOf(m)] = [r \in DOMAIN @ |-> IF r \in 13 .. 14 THEN cpu.R[r] ELSE @[r]]]
  IN  IF m \in Exceptions THEN [b EXCEPT !.saved[m] = cpu.SPSR] ELSE b
Leave(cpu) ==
  LET m == cpu.CPSR.mode
      s == IF m = FIQ THEN SwapFiq(cpu) ELSE cpu
      b == [s EXCEPT !.bank[BankOf(m)] = [r \in DOMAIN @ |-> IF r \in 13 .. 14 THEN s.R[r] ELSE @[r]]]
  IN  CASE m \in Exceptions -> [b EXCEPT !.saved[m] = s.SPSR]
        [] m \in {USR, SYS} -> b
        [] OTHER            -> cpu

EnterMode(cpu, m) ==
  LET s == IF m = FIQ THEN SwapFiq(cpu) ELSE cpu
      b == [s EXCEPT !.R[13] = s.bank[BankOf(m)][13], !.R[14] = s.bank[BankOf(m)][14]]
  IN  CASE m \in Exceptions -> [b EXCEPT !.SPSR = s.saved[m]]
        [] m \in {USR, SYS} -> b
        [] OTHER            -> cpu

switchMode(cpu, m) == [EnterMode(Leave(cpu), m) EXCEPT !.CPSR.mode = m]

\* Return from an exception to r15: the saved status comes back with its mode.
ReturnTo(cpu, pc) ==
  LET s == cpu.SPSR
      t == [switchMode(cpu, s.mode) EXCEPT !.CPSR = s, !.R[15] = pc]
  IN  [t EXCEPT !.next = t.R[15]]

\* The same where the address comes from the data unit: the low bits go.
ReturnAligned(cpu, pc) ==
  ReturnTo(cpu, pc - (pc % 4) + (IF cpu.SPSR.T = 1 THEN 2 * Bit(pc, 1) ELSE 0))

\* armcpu_irqException: before the instruction at adr, which is done afterwards.
IrqLinkNext(cpu) ==
  [switchMode(cpu, IRQ) EXCEPT
     !.R[14] = cpu.next, !.SPSR = cpu.CPSR, !.CPSR.T = 0, !.CPSR.I = 1,
     !.next = W(IntVector + 24), !.R[15] = W(IntVector + 24)]
irqException(cpu) ==
  [switchMode(cpu, IRQ) EXCEPT
     !.R[14] = W(cpu.adr + 4), !.SPSR = cpu.CPSR, !.CPSR.T = 0, !.CPSR.I = 1,
     !.next = W(IntVector + 24), !.R[15] = W(IntVector + 24)]

\* armcpu_exception: after an instruction that asked for it.
exception(cpu, mode, vector) ==
  [switchMode(cpu, mode) EXCEPT
     !.R[14] = cpu.next, !.SPSR = cpu.CPSR, !.CPSR.T = 0, !.CPSR.I = 1,
     !.next = W(IntVector + vector), !.R[15] = W(IntVector + vector)]

OP_UND(cpu) == exception(cpu, UND, 4)

\* The call goes to the vector where the built in functions do not answer it.
OP_SWI(cpu) == exception(cpu, SVC, 8)

\* A status register in a general one: the flags are the highest bits of a
\* word, the control bits the lowest.
Val(s) ==
  s.mode + 32 * s.T + 64 * s.F + 128 * s.I
    + 2^(Bits - 5) * (s.Q + 2 * s.V + 4 * s.C + 8 * s.Z + 16 * s.N)

Control(old, x) ==
  [old EXCEPT !.mode = x % 32, !.T = Bit(x, 5), !.F = Bit(x, 6), !.I = Bit(x, 7)]

Flags(old, x) ==
  [old EXCEPT !.Q = Bit(x, Bits - 5), !.V = Bit(x, Bits - 4), !.C = Bit(x, Bits - 3),
              !.Z = Bit(x, Bits - 2), !.N = Bit(x, Bits - 1)]

OP_MRS(cpu, d, spsr) == [cpu EXCEPT !.R[d] = Val(IF spsr THEN cpu.SPSR ELSE cpu.CPSR)]

\* fields: the parts the instruction names.  A user may change the flags only.
OP_MSR_CPSR(cpu, fields, x) ==
  LET c == IF "control" \in fields /\ cpu.CPSR.mode # USR
           THEN LET t == switchMode(cpu, x % 32) IN [t EXCEPT !.CPSR = Control(@, x)]
           ELSE cpu
  IN  IF "flags" \in fields THEN [c EXCEPT !.CPSR = Flags(@, x)] ELSE c

OP_MSR_SPSR(cpu, fields, x) ==
  LET c == IF "control" \in fields /\ cpu.CPSR.mode # USR THEN Control(cpu.SPSR, x) ELSE cpu.SPSR
  IN  [cpu EXCEPT !.SPSR = IF "flags" \in fields THEN Flags(c, x) ELSE c]

\* The same with an immediate operand keeps the old flags and adds the new, and
\* clears everything else.
OP_MSR_SPSR_IMM_VAL(cpu, fields, x) ==
  LET c == IF "control" \in fields /\ cpu.CPSR.mode # USR THEN Control(cpu.SPSR, x) ELSE cpu.SPSR
      f == Flags(c, x)
      Or(a, b) == IF a + b > 0 THEN 1 ELSE 0
  IN  [cpu EXCEPT !.SPSR =
         IF "flags" \notin fields THEN c
         ELSE [StatusOf(0) EXCEPT !.N = Or(c.N, f.N), !.Z = Or(c.Z, f.Z), !.C = Or(c.C, f.C),
                                  !.V = Or(c.V, f.V), !.Q = Or(c.Q, f.Q)]]

\* The low bit of the target chooses the instruction set.
BranchTo(cpu, x) ==
  LET pc == x - (x % 4) + 2 * Bit(x, 0) * Bit(x, 1)
  IN  [cpu EXCEPT !.CPSR.T = Bit(x, 0), !.R[15] = pc, !.next = pc]

OP_BX(cpu, m) == BranchTo(cpu, cpu.R[m])
OP_BLX_REG(cpu, m) == [BranchTo(cpu, cpu.R[m]) EXCEPT !.R[14] = cpu.next]

\* B and BL; where the condition is 0xF both are BLX, BL to the odd halfword.
OP_B(cpu, link, exchange, off) ==
  LET t  == IF exchange THEN 1 ELSE cpu.CPSR.T
      to == W(cpu.R[15] + 4 * off + (IF link /\ exchange THEN 2 ELSE 0))
      pc == to - (to % 4) + 2 * t * Bit(to, 1)
      c  == [cpu EXCEPT !.CPSR.T = t, !.R[15] = pc, !.next = pc]
  IN  IF link \/ exchange THEN [c EXCEPT !.R[14] = cpu.next] ELSE c

\* arm_cond_table: the conditions an instruction may name.
Conditions == {"EQ", "NE", "CS", "CC", "MI", "PL", "VS", "VC", "HI", "LS", "GE", "LT", "GT", "LE", "AL"}
TEST_COND(s, cond) ==
  CASE cond = "EQ" -> s.Z = 1
    [] cond = "NE" -> s.Z = 0
    [] cond = "CS" -> s.C = 1
    [] cond = "CC" -> s.C = 0
    [] cond = "MI" -> s.N = 1
    [] cond = "PL" -> s.N = 0
    [] cond = "VS" -> s.V = 1
    [] cond = "VC" -> s.V = 0
    [] cond = "HI" -> s.C = 1 /\ s.Z = 0
    [] cond = "LS" -> s.C = 0 \/ s.Z = 1
    [] cond = "GE" -> s.N = s.V
    [] cond = "LT" -> s.N # s.V
    [] cond = "GT" -> s.Z = 0 /\ s.N = s.V
    [] cond = "LE" -> s.Z = 1 \/ s.N # s.V
    [] OTHER      -> TRUE
=============================================================================
