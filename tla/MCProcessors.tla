---------------------------- MODULE MCProcessors ----------------------------
(***************************************************************************)
(* The two halves of the interpreter, each explored on its own: the        *)
(* transfers, modes and branches of ArmMachine on words of sixteen bits,   *)
(* the least that hold a status word, with a stack of three words for each *)
(* mode and as many words above them; and the arithmetic of ArmData,       *)
(* where two registers of four bits and five forms of the second operand    *)
(* reach every pair of words with every setting of the flags.              *)
(***************************************************************************)
EXTENDS Integers

VARIABLES half,    \* which half this behaviour explores
          cpu, mem, steps,
          dataCpu  \* the processor of the arithmetic half

Cells == {4 * k : k \in 0 .. 21}
Offsets == {5, 65536 - 8}
Lists == {{0, 8, 14}, {13, 14}, {1, 15}}
LowLists == {{0, 5}, {1, 7}}
StartModes == {16, 17, 31}  \* user, fast interrupt, system
Machine == INSTANCE ArmMachine WITH
  Bits <- 16, IntVector <- 32768, LDTBit <- 1, Regs <- {0, 14, 15}, Bases <- {0, 13},
  Code <- 258, MaxSteps <- 1

Immediate(x, rotated) == [kind |-> "imm", val |-> x, rotated |-> rotated, reg |-> 0]
Shift(kind, r, by, k) == [kind |-> kind, reg |-> r, by |-> by, k |-> k]
Operands == {Immediate(1, FALSE), Immediate(8, TRUE), Shift("LSL", 0, "reg", 1), Shift("LSR", 1, "imm", 0),
             Shift("ROR", 0, "imm", 0)}
Data == INSTANCE ArmData WITH
  Bits <- 4, IntVector <- 0, LDTBit <- 1, Regs <- {0, 1}, cpu <- dataCpu

machineVars == <<cpu, mem, steps>>

Init ==
  /\ Data!Init
  /\ \/ half = "machine" /\ Machine!Init
     \/ /\ half = "data"
        /\ cpu = Machine!Started(16, 17, 0) /\ mem = [c \in Cells |-> 0] /\ steps = 0

Next ==
  /\ UNCHANGED half
  /\ \/ half = "machine" /\ Machine!Next /\ UNCHANGED dataCpu
     \/ half = "data" /\ Data!Next /\ UNCHANGED machineVars

Spec == Init /\ [][Next]_<<half, dataCpu, machineVars>>
----------------------------------------------------------------------------
\* Arithmetic: sums, comparisons, shifts and products of one and two words, and Thumb beside ARM
\* (arm_instructions.cpp, OP_AND to OP_QDSUB; thumb_instructions.cpp).
\* Modes: every mode sees its own registers after changes of mode, lists with ^ move the user's,
\* handlers return to what they interrupted and calls behind themselves (armcpu_switchMode,
\* armcpu_irqException, OP_LDM ^, BL, BLX, BX).
\* Transfers: what a list pushes the opposite list pops, bytes, halves, words and pairs of one
\* place fit together, and Thumb's transfers are the ARM transfers they abbreviate.
InstructionsRight ==
  /\ half = "data" =>
       /\ Data!TypeOK /\ Data!TwoWords /\ Data!Compare /\ Data!WideShift
       /\ Data!LongProduct /\ Data!Saturates /\ Data!ThumbAsArm
  /\ half = "machine" =>
       /\ Machine!TypeOK /\ Machine!BanksKept /\ Machine!UserRegisters
       /\ Machine!HandlerReturns /\ Machine!CallReturns
       /\ Machine!StackBalance /\ Machine!ByteOrder /\ Machine!TransferAsArm
=============================================================================
