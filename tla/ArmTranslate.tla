---------------------------- MODULE ArmTranslate ----------------------------
(***************************************************************************)
(* The two decoders of an instruction word.  First the tables of the       *)
(* interpreter: which handler a word is given to.  An ARM word is looked   *)
(* up by its bits 27-20, here its row, and its bits 7-4, its column; a     *)
(* Thumb word by its bits 15-6.  What is found is a record of what the     *)
(* handler does: k is the group it belongs to, op the operation, the rest  *)
(* its form.                                                               *)
(*                                                                         *)
(* Then the decoder of the recompiler: what translate_arm_instruction and  *)
(* translate_thumb_instruction generate code for, in the same records.  It *)
(* reads the instruction bit by bit instead of looking it up, and has a    *)
(* third reading of it, the marks of the scan that looks for the end of    *)
(* the block: which words write flags, and which may leave.                *)
(***************************************************************************)
EXTENDS Integers, Sequences

Rows == 0 .. 255
Columns == 0 .. 15
Bit(x, k) == (x \div 2^k) % 2
Odd(x) == x % 2 = 1

Und == [k |-> "und"]
\* s: the flags are set; o: the form of the second operand.
Data(op, s, o) == [k |-> "data", op |-> op, s |-> s, o |-> o]
Test(op, o) == [k |-> "test", op |-> op, o |-> o]
Multiply(op, s) == [k |-> "mul", op |-> op, s |-> s]
\* One register or a pair: how says whether the offset is added before ("off",
\* "pre") or after ("post"), and up whether it is added or taken away.
Transfer(op, how, up, o) == [k |-> "transfer", op |-> op, how |-> how, up |-> up, o |-> o]
Block(op, way, wb, user) == [k |-> "block", op |-> op, way |-> way, wb |-> wb, user |-> user]
Status(op, psr, o) == [k |-> "status", op |-> op, psr |-> psr, o |-> o]
Other(op) == [k |-> "other", op |-> op]
Coprocessor(op) == [k |-> "coprocessor", op |-> op]

Shifts == <<"LSL_IMM", "LSL_REG", "LSR_IMM", "LSR_REG", "ASR_IMM", "ASR_REG", "ROR_IMM", "ROR_REG">>
Shift(col) == Shifts[(col % 8) + 1]
\* Columns with bits 7 and 4: multiplications and transfers of halves.
Special(col) == col \in {9, 11, 13, 15}
\* The operation of a pair of rows; the second of the pair sets the flags.
Of(ops, row) == ops[((row % 8) \div 2) + 1]

Halves(row, col, how) ==
  LET up == Odd(row \div 8)
      o  == IF Odd(row \div 4) THEN "IMM" ELSE "REG"
      op == CASE col = 11 -> IF Odd(row) THEN "LDRH" ELSE "STRH"
              [] col = 13 -> IF Odd(row) THEN "LDRSB" ELSE "LDRD"
              [] col = 15 -> IF Odd(row) THEN "LDRSH" ELSE "STRD"
  IN  Transfer(op, how, up, o)
\* After an access the base is always written: the bit that asks for it must be 0.
HalvesPost(row, col) == IF Odd(row \div 2) THEN Und ELSE Halves(row, col, "post")
HalvesPre(row, col) == Halves(row, col, IF Odd(row \div 2) THEN "pre" ELSE "off")

AndToRsb(row, col) ==
  CASE ~Special(col) -> Data(Of(<<"AND", "EOR", "SUB", "RSB">>, row), row % 2, Shift(col))
    [] col = 9       -> IF row < 4 THEN Multiply(Of(<<"MUL", "MLA">>, row), row % 2) ELSE Und
    [] OTHER         -> HalvesPost(row, col)

AddToRsc(row, col) ==
  CASE ~Special(col) -> Data(Of(<<"ADD", "ADC", "SBC", "RSC">>, row), row % 2, Shift(col))
    [] col = 9       -> Multiply(Of(<<"UMULL", "UMLAL", "SMULL", "SMLAL">>, row), row % 2)
    [] OTHER         -> HalvesPost(row, col)

\* x the half of the first register, y that of the second.
Half(bit) == IF bit = 1 THEN "T" ELSE "B"
Signed16(op, col) == [k |-> "signed", op |-> op, x |-> Half(Bit(col, 1)), y |-> Half(Bit(col, 2))]
Signed16Wide(col) ==
  [k |-> "signed", op |-> IF Bit(col, 1) = 0 THEN "SMLAW" ELSE "SMULW", x |-> "W", y |-> Half(Bit(col, 2))]
TestRows(row) == Of(<<"TST", "TEQ", "CMP", "CMN">>, row)
StatusRow(row, col) ==
  CASE row = 16 /\ col = 0 -> Status("MRS", "CPSR", "REG")
    [] row = 18 /\ col = 0 -> Status("MSR", "CPSR", "REG")
    [] row = 20 /\ col = 0 -> Status("MRS", "SPSR", "REG")
    [] row = 22 /\ col = 0 -> Status("MSR", "SPSR", "REG")
    [] row = 18 /\ col = 1 -> Other("BX")
    [] row = 18 /\ col = 3 -> Other("BLX_REG")
    [] row = 18 /\ col = 7 -> Other("BKPT")
    [] row = 22 /\ col = 1 -> Other("CLZ")
    [] col = 5             -> Other(Of(<<"QADD", "QSUB", "QDADD", "QDSUB">>, row))
    [] row # 18 /\ col \in {8, 10, 12, 14} -> Signed16(Of(<<"SMLA", "SMLAW", "SMLAL", "SMUL">>, row), col)
    [] row = 18 /\ col \in {8, 10, 12, 14} -> Signed16Wide(col)
    [] row = 16 /\ col = 9 -> Other("SWP")
    [] row = 20 /\ col = 9 -> Other("SWPB")
    [] OTHER               -> Und
StatusAndTests(row, col) ==
  CASE col \in {11, 13, 15} -> HalvesPre(row, col)
    [] Odd(row) /\ col \notin {9, 11, 13, 15} -> Test(TestRows(row), Shift(col))
    [] Odd(row) /\ col = 9  -> Und
    [] ~Odd(row) /\ col \notin {11, 13, 15} -> StatusRow(row, col)

OrrToMvn(row, col) ==
  CASE ~Special(col) -> Data(Of(<<"ORR", "MOV", "BIC", "MVN">>, row), row % 2, Shift(col))
    [] col = 9       -> Und
    [] OTHER         -> HalvesPre(row, col)

AndToRsbImm(row, col) == Data(Of(<<"AND", "EOR", "SUB", "RSB">>, row), row % 2, "IMM_VAL")
AddToRscImm(row, col) == Data(Of(<<"ADD", "ADC", "SBC", "RSC">>, row), row % 2, "IMM_VAL")
OrrToMvnImm(row, col) == Data(Of(<<"ORR", "MOV", "BIC", "MVN">>, row), row % 2, "IMM_VAL")
StatusAndTestsImm(row, col) ==
  CASE Odd(row)         -> Test(TestRows(row), "IMM_VAL")
    [] row = 50         -> Status("MSR", "CPSR", "IMM_VAL")
    [] row = 54         -> Status("MSR", "SPSR", "IMM_VAL")
    [] row \in {48, 52} -> Und

\* Bit 20 loads, bit 22 takes a byte, bit 21 writes the base back.
Single(row) == (IF Odd(row) THEN "LDR" ELSE "STR") \o (IF Odd(row \div 4) THEN "B" ELSE "")
ImmPostDown(row, col) == Transfer(Single(row), "post", FALSE, "IMM")
ImmPostUp(row, col) == Transfer(Single(row), "post", TRUE, "IMM")
ImmPreDown(row, col) == Transfer(Single(row), IF Odd(row \div 2) THEN "pre" ELSE "off", FALSE, "IMM")
ImmPreUp(row, col) == Transfer(Single(row), IF Odd(row \div 2) THEN "pre" ELSE "off", TRUE, "IMM")
RegPostDown(row, col) == IF Odd(col) THEN Und ELSE Transfer(Single(row), "post", FALSE, Shift(col))
\* The row of LDRT: whatever the shift, the handler of LSL is found.
RegPostUp(row, col) ==
  IF Odd(col) THEN Und ELSE Transfer(Single(row), "post", TRUE, IF row = 107 THEN "LSL_IMM" ELSE Shift(col))
RegPreDown(row, col) ==
  IF Odd(col) THEN Und ELSE Transfer(Single(row), IF Odd(row \div 2) THEN "pre" ELSE "off", FALSE, Shift(col))
RegPreUp(row, col) ==
  IF Odd(col) THEN Und ELSE Transfer(Single(row), IF Odd(row \div 2) THEN "pre" ELSE "off", TRUE, Shift(col))

List(row, way) == Block(IF Odd(row) THEN "LDM" ELSE "STM", way, Odd(row \div 2), Odd(row \div 4))
ListDA(row, col) == List(row, "DA")
ListIA(row, col) == List(row, "IA")
ListDB(row, col) == List(row, "DB")
ListIB(row, col) == List(row, "IB")

BranchRow(row, col) == Other("B")
LinkRow(row, col) == Other("BL")
CoprocessorPost(row, col) ==
  Coprocessor((IF Odd(row) THEN "LDC" ELSE "STC") \o
    (IF ~Odd(row \div 2) THEN "_OPTION" ELSE IF row < 200 THEN "_M_POSTIND" ELSE "_P_POSTIND"))
CoprocessorPre(row, col) ==
  Coprocessor((IF Odd(row) THEN "LDC" ELSE "STC") \o (IF row < 216 THEN "_M" ELSE "_P") \o
    (IF Odd(row \div 2) THEN "_PREIND" ELSE "_IMM_OFF"))
CoprocessorMove(row, col) ==
  Coprocessor(IF ~Odd(col) THEN "CDP" ELSE IF Odd(row) THEN "MRC" ELSE "MCR")
CallRow(row, col) == Other("SWI")

\* arm_instructions_set[PROCNUM][row * 16 + column]
ArmTable(row, col) ==
  CASE row \in 0 .. 7     -> AndToRsb(row, col)          [] row \in 8 .. 15    -> AddToRsc(row, col)
    [] row \in 16 .. 23   -> StatusAndTests(row, col)    [] row \in 24 .. 31   -> OrrToMvn(row, col)
    [] row \in 32 .. 39   -> AndToRsbImm(row, col)       [] row \in 40 .. 47   -> AddToRscImm(row, col)
    [] row \in 48 .. 55   -> StatusAndTestsImm(row, col) [] row \in 56 .. 63   -> OrrToMvnImm(row, col)
    [] row \in 64 .. 71   -> ImmPostDown(row, col)       [] row \in 72 .. 79   -> ImmPostUp(row, col)
    [] row \in 80 .. 87   -> ImmPreDown(row, col)        [] row \in 88 .. 95   -> ImmPreUp(row, col)
    [] row \in 96 .. 103  -> RegPostDown(row, col)       [] row \in 104 .. 111 -> RegPostUp(row, col)
    [] row \in 112 .. 119 -> RegPreDown(row, col)        [] row \in 120 .. 127 -> RegPreUp(row, col)
    [] row \in 128 .. 135 -> ListDA(row, col)            [] row \in 136 .. 143 -> ListIA(row, col)
    [] row \in 144 .. 151 -> ListDB(row, col)            [] row \in 152 .. 159 -> ListIB(row, col)
    [] row \in 160 .. 175 -> BranchRow(row, col)         [] row \in 176 .. 191 -> LinkRow(row, col)
    [] row \in 192 .. 207 -> CoprocessorPost(row, col)   [] row \in 208 .. 223 -> CoprocessorPre(row, col)
    [] row \in 224 .. 239 -> CoprocessorMove(row, col)   [] row \in 240 .. 255 -> CallRow(row, col)
----------------------------------------------------------------------------
\* Thumb: r is the register or the condition that the bits 10-8 or 11-8 name.
Words == 0 .. 1023
Thumb(op) == [k |-> "thumb", op |-> op, r |-> 0]
ThumbOf(op, r) == [k |-> "thumb", op |-> op, r |-> r]
In(w, first, last) == first <= w /\ w <= last
Named(w) == (w \div 4) % 8

ShiftWords(w) ==
  Thumb(CASE w = 0          -> "LSL_0"   [] In(w, 1, 31)    -> "LSL"
          [] w = 32         -> "LSR_0"   [] In(w, 33, 63)   -> "LSR"
          [] w = 64         -> "ASR_0"   [] In(w, 65, 95)   -> "ASR"
          [] In(w, 96, 103) -> "ADD_REG" [] In(w, 104, 111) -> "SUB_REG"
          [] In(w, 112, 119) -> "ADD_IMM3" [] In(w, 120, 127) -> "SUB_IMM3")
ImmediateWords(w) ==
  ThumbOf(CASE In(w, 128, 159) -> "MOV_IMM8" [] In(w, 160, 191) -> "CMP_IMM8"
            [] In(w, 192, 223) -> "ADD_IMM8" [] In(w, 224, 255) -> "SUB_IMM8", Named(w))
AluOps == <<"AND", "EOR", "LSL_REG", "LSR_REG", "ASR_REG", "ADC_REG", "SBC_REG", "ROR_REG",
            "TST", "NEG", "CMP", "CMN", "ORR", "MUL_REG", "BIC", "MVN">>
AluWords(w) == Thumb(AluOps[w - 255])
HighWords(w) ==
  Thumb(CASE In(w, 272, 275) -> "ADD_SPE" [] In(w, 276, 279) -> "CMP_SPE" [] In(w, 280, 283) -> "MOV_SPE"
          [] In(w, 284, 285) -> "BX_THUMB" [] In(w, 286, 287) -> "BLX_THUMB")
RegisterOffsets == <<"STR_REG_OFF", "STRH_REG_OFF", "STRB_REG_OFF", "LDRSB_REG_OFF",
                     "LDR_REG_OFF", "LDRH_REG_OFF", "LDRB_REG_OFF", "LDRSH_REG_OFF">>
RegisterOffsetWords(w) == Thumb(RegisterOffsets[((w - 320) \div 8) + 1])
ImmediateOffsetWords(w) ==
  Thumb(CASE In(w, 384, 415) -> "STR_IMM_OFF"  [] In(w, 416, 447) -> "LDR_IMM_OFF"
          [] In(w, 448, 479) -> "STRB_IMM_OFF" [] In(w, 480, 511) -> "LDRB_IMM_OFF")
HalfOffsetWords(w) ==
  Thumb(CASE In(w, 512, 543) -> "STRH_IMM_OFF" [] In(w, 544, 575) -> "LDRH_IMM_OFF")
PointerWords(w) ==
  ThumbOf(CASE In(w, 288, 319) -> "LDR_PCREL" [] In(w, 576, 607) -> "STR_SPREL" [] In(w, 608, 639) -> "LDR_SPREL"
            [] In(w, 640, 671) -> "ADD_2PC"   [] In(w, 672, 703) -> "ADD_2SP", Named(w))
StackWords(w) ==
  CASE In(w, 704, 705) -> Thumb("ADJUST_P_SP") [] In(w, 706, 707) -> Thumb("ADJUST_M_SP")
    [] In(w, 720, 723) -> Thumb("PUSH")        [] In(w, 724, 727) -> Thumb("PUSH_LR")
    [] In(w, 752, 755) -> Thumb("POP")         [] In(w, 756, 759) -> Thumb("POP_PC")
    [] In(w, 760, 763) -> Thumb("BKPT_THUMB")
    [] In(w, 708, 719) \/ In(w, 728, 751) \/ In(w, 764, 767) -> Und
ListWords(w) == ThumbOf(IF w < 800 THEN "STMIA_THUMB" ELSE "LDMIA_THUMB", Named(w))
\* A branch that always goes and one on condition "always" are the same.
ConditionWords(w) == IF w < 892 THEN ThumbOf("B", (w \div 4) % 16) ELSE Thumb("SWI_THUMB")
BranchWords(w) ==
  CASE In(w, 896, 927) -> ThumbOf("B", 14) [] In(w, 928, 959)  -> Thumb("BLX")
    [] In(w, 960, 991) -> Thumb("BL_10")   [] In(w, 992, 1023) -> Thumb("BL_11")

\* thumb_instructions_set[PROCNUM][w]
ThumbTable(w) ==
  CASE w < 128            -> ShiftWords(w)           [] In(w, 128, 255)  -> ImmediateWords(w)
    [] In(w, 256, 271)    -> AluWords(w)             [] In(w, 272, 287)  -> HighWords(w)
    [] In(w, 320, 383)    -> RegisterOffsetWords(w)  [] In(w, 384, 511)  -> ImmediateOffsetWords(w)
    [] In(w, 512, 575)    -> HalfOffsetWords(w)      [] In(w, 704, 767)  -> StackWords(w)
    [] In(w, 768, 831)    -> ListWords(w)            [] In(w, 832, 895)  -> ConditionWords(w)
    [] In(w, 896, 1023)   -> BranchWords(w)
    [] In(w, 288, 319) \/ In(w, 576, 703) -> PointerWords(w)

------------------------------------------------------------------------------
Nothing == [k |-> "nothing"]
\* The host gets the word itself, with host registers in it.
Reencoded == [k |-> "reencoded"]

\* arm_generate_op_reg: bit 4 takes the amount from a register.
Pairs(ops, row, form) == Data(Of(ops, row), row % 2, form)
\* Bits 6 and 5 of a word with bits 7 and 4; the pair of words and doubles in
\* the rows of stores, where bit 5 has sent D0 away to the multiplication.
Loads(col) == <<"", "LDRH", "LDRSB", "LDRSH">>[((col \div 2) % 4) + 1]
Stores(col) == CASE col = 11 -> "STRH" [] col = 13 -> "LDRD" [] col = 15 -> "STRD" [] OTHER -> ""
Half16(row, col, how, o) ==
  LET op == IF Odd(row) THEN Loads(col) ELSE Stores(col)
  IN  IF op = "" THEN Nothing ELSE Transfer(op, how, Odd(row \div 8), o)

\* Rows 00-03 and 08-0F: without bit 5 a word with bits 7 and 4 multiplies.
Multiplies(row, col) == IF Odd(row) THEN (col \div 2) % 4 = 0 ELSE ~Odd(col \div 2)
AndEor(row, col) ==
  CASE ~Special(col)        -> Pairs(<<"AND", "EOR", "SUB", "RSB">>, row, Shift(col))
    [] Special(col) /\ Multiplies(row, col) -> Multiply(Of(<<"MUL", "MLA", "", "">>, row), row % 2)
    [] OTHER                -> Half16(row, col, "post", "REG")
SubRsb(row, col) ==
  IF Special(col) THEN Half16(row, col, "post", "IMM")
  ELSE Pairs(<<"AND", "EOR", "SUB", "RSB">>, row, Shift(col))
LongMultiplies == <<"UMULL", "UMLAL", "SMULL", "SMLAL">>
AddAdc(row, col) ==
  CASE ~Special(col)        -> Pairs(<<"ADD", "ADC", "SBC", "RSC">>, row, Shift(col))
    [] Special(col) /\ Multiplies(row, col) -> Multiply(Of(LongMultiplies, row), row % 2)
    [] OTHER                -> Half16(row, col, "post", "REG")
SbcRsc(row, col) ==
  CASE ~Special(col)        -> Pairs(<<"ADD", "ADC", "SBC", "RSC">>, row, Shift(col))
    [] Special(col) /\ Multiplies(row, col) -> Multiply(Of(LongMultiplies, row), row % 2)
    [] OTHER                -> Half16(row, col, "post", "IMM")

\* Rows 10-17, the tests and what is encoded in the place of those that would
\* not set flags.
Quads(row) == Of(<<"QADD", "QSUB", "QDADD", "QDSUB">>, row)
Signed(row, col) == IF col \in {8, 10, 12, 14} THEN Signed16(Of(<<"SMLA", "", "SMLAL", "SMUL">>, row), col) ELSE Reencoded
MrsTst(row, col) ==
  CASE Odd(row) /\ ~Special(col)                -> Test(TestRows(row), Shift(col))
    [] row = 16 /\ Special(col) /\ ~Odd(col \div 2) -> Other("SWP")
    [] row = 16 /\ ~Special(col) /\ col = 5      -> Other("QADD")
    [] row = 16 /\ ~Special(col) /\ col = 0      -> Status("MRS", "CPSR", "REG")
    [] row = 16 /\ ~Special(col) /\ col \notin {0, 5} -> Signed(row, col)
    [] row = 18 /\ ~Special(col) /\ ~Odd(col)    -> Status("MSR", "CPSR", "REG")
    [] row = 18 /\ ~Special(col) /\ Odd(col)     ->
         Other(CASE col = 3 -> "BLX_REG" [] col = 5 -> "QSUB" [] OTHER -> "BX")
    [] OTHER -> Half16(row, col, IF row < 18 THEN "off" ELSE "pre", "REG")
MrsCmp(row, col) ==
  CASE Odd(row) /\ ~Special(col)                -> Test(TestRows(row), Shift(col))
    [] row = 20 /\ Special(col) /\ ~Odd(col \div 2) -> Other("SWPB")
    [] row = 20 /\ ~Special(col) /\ col = 5      -> Other("QDADD")
    [] row = 20 /\ ~Special(col) /\ col = 0      -> Status("MRS", "SPSR", "REG")
    [] row = 22 /\ ~Special(col) /\ col = 5      -> Other("QDSUB")
    [] row = 22 /\ ~Special(col) /\ col = 1      -> Other("CLZ")
    [] row = 22 /\ ~Special(col) /\ col = 0      -> Status("MSR", "SPSR", "REG")
    [] ~Odd(row) /\ ~Special(col) /\ col # 5 /\ (row = 20 => col # 0) /\ (row = 22 => col > 1) -> Signed(row, col)
    [] OTHER -> Half16(row, col, IF row < 22 THEN "off" ELSE "pre", "IMM")

OrrMov(row, col) ==
  IF Special(col) THEN Half16(row, col, IF row < 26 THEN "off" ELSE "pre", "REG")
  ELSE Pairs(<<"ORR", "MOV", "BIC", "MVN">>, row, Shift(col))
BicMvn(row, col) ==
  IF Special(col) THEN Half16(row, col, IF row < 30 THEN "off" ELSE "pre", "IMM")
  ELSE Pairs(<<"ORR", "MOV", "BIC", "MVN">>, row, Shift(col))

\* Rows 20-3F, in the order of the operations.
Operations == <<"AND", "EOR", "SUB", "RSB", "ADD", "ADC", "SBC", "RSC",
                "TST", "TEQ", "CMP", "CMN", "ORR", "MOV", "BIC", "MVN">>
Immediates(row, col) ==
  LET op == Operations[((row - 32) \div 2) + 1]
  IN  CASE row = 50 -> Status("MSR", "CPSR", "IMM_VAL")
        [] row = 54 -> Status("MSR", "SPSR", "IMM_VAL")
        [] row \in (48 .. 55) \ {50, 54} -> Test(op, "IMM_VAL")
        [] OTHER    -> Data(op, row % 2, "IMM_VAL")

\* Mutant: bits 6 and 5 the wrong way round.
OffsetSwapped(row, col) == IF row < 96 THEN "IMM" ELSE <<"LSL_IMM", "ASR_IMM", "LSR_IMM", "ROR_IMM">>[((col \div 2) % 4) + 1]
\* The offset of a transfer by a register is always shifted by an amount: bit 4
\* is not looked at.
Offset(row, col) == IF row < 96 THEN "IMM" ELSE <<"LSL_IMM", "LSR_IMM", "ASR_IMM", "ROR_IMM">>[((col \div 2) % 4) + 1]
PostImmediate(row, col) == Transfer(Single(row), "post", Odd(row \div 8), Offset(row, col))
PreImmediate(row, col) == Transfer(Single(row), IF Odd(row \div 2) THEN "pre" ELSE "off", Odd(row \div 8), Offset(row, col))
PostRegister(row, col) == Transfer(Single(row), "post", Odd(row \div 8), Offset(row, col))
PreRegister(row, col) == Transfer(Single(row), IF Odd(row \div 2) THEN "pre" ELSE "off", Odd(row \div 8), Offset(row, col))
Lists(row, col) == List(row, <<"DA", "IA", "DB", "IB">>[((row - 128) \div 8) + 1])
\* A branch on condition NV goes to Thumb code.
Branches(row, col, nv) == Other(IF nv THEN "BLX_IMM" ELSE IF row < 176 THEN "B" ELSE "BL")
Coprocessors(row, col) == Coprocessor(IF Odd(row) THEN "MRC" ELSE "MCR")

\* translate_arm_instruction
ArmCode(row, col, nv) ==
  CASE row \in 0 .. 3     -> AndEor(row, col)        [] row \in 4 .. 7     -> SubRsb(row, col)
    [] row \in 8 .. 11    -> AddAdc(row, col)        [] row \in 12 .. 15   -> SbcRsc(row, col)
    [] row \in 16 .. 19   -> MrsTst(row, col)        [] row \in 20 .. 23   -> MrsCmp(row, col)
    [] row \in 24 .. 27   -> OrrMov(row, col)        [] row \in 28 .. 31   -> BicMvn(row, col)
    [] row \in 32 .. 63   -> Immediates(row, col)
    [] row \in 64 .. 79   -> PostImmediate(row, col) [] row \in 80 .. 95   -> PreImmediate(row, col)
    [] row \in 96 .. 111  -> PostRegister(row, col)  [] row \in 112 .. 127 -> PreRegister(row, col)
    [] row \in 128 .. 159 -> Lists(row, col)         [] row \in 160 .. 191 -> Branches(row, col, nv)
    [] row \in 192 .. 239 -> Coprocessors(row, col)  [] row \in 240 .. 255 -> Other("SWI")
----------------------------------------------------------------------------
Shifted(w) ==
  Thumb(<<"LSL", "LSL", "LSR", "LSR", "ASR", "ASR">>[(w \div 16) + 1])
Added(w) == Thumb(<<"ADD_REG", "SUB_REG", "ADD_IMM3", "SUB_IMM3">>[((w - 96) \div 8) + 1])
Immediate(w) == ThumbOf(<<"MOV_IMM8", "CMP_IMM8", "ADD_IMM8", "SUB_IMM8">>[((w - 128) \div 32) + 1], Named(w))
AluOps1 == <<"AND", "EOR", "LSL_REG", "LSR_REG", "ASR_REG", "ADC_REG", "SBC_REG", "ROR_REG">>
AluOps2 == <<"TST", "NEG", "CMP", "CMN", "ORR", "MUL_REG", "BIC", "MVN">>
Alu(w) == Thumb((AluOps1 \o AluOps2)[w - 255])
High(w) ==
  Thumb(CASE w \div 4 = 68 -> "ADD_SPE" [] w \div 4 = 69 -> "CMP_SPE" [] w \div 4 = 70 -> "MOV_SPE"
          [] w \div 4 = 71 -> IF Odd(w \div 2) THEN "BLX_THUMB" ELSE "BX_THUMB")
LoadsPc(w) == ThumbOf("LDR_PCREL", Named(w))
ByRegister(w) == Thumb(RegisterOffsets[((w - 320) \div 8) + 1])
ByImmediate(w) ==
  Thumb(<<"STR_IMM_OFF", "LDR_IMM_OFF", "STRB_IMM_OFF", "LDRB_IMM_OFF", "STRH_IMM_OFF", "LDRH_IMM_OFF">>[((w - 384) \div 32) + 1])
BySp(w) == ThumbOf(IF w < 608 THEN "STR_SPREL" ELSE "LDR_SPREL", Named(w))
Pointers(w) == ThumbOf(IF w < 672 THEN "ADD_2PC" ELSE "ADD_2SP", Named(w))
\* B0-B3 by bit 7, and nothing for what is not a list of the stack.
Stack(w) ==
  CASE w \div 4 \in 176 .. 179 -> Thumb(IF Odd(w \div 2) THEN "ADJUST_M_SP" ELSE "ADJUST_P_SP")
    [] w \div 4 = 180 -> Thumb("PUSH") [] w \div 4 = 181 -> Thumb("PUSH_LR")
    [] w \div 4 = 188 -> Thumb("POP")  [] w \div 4 = 189 -> Thumb("POP_PC")
    [] OTHER          -> Nothing
Multiples(w) == ThumbOf(IF w < 800 THEN "STMIA_THUMB" ELSE "LDMIA_THUMB", Named(w))
Conditions(w) == IF w < 892 THEN ThumbOf("B", (w \div 4) % 16) ELSE Thumb("SWI_THUMB")
\* first: the word before is the first half of a long branch.  That half has no
\* code of its own: the second half does the whole branch, or, found alone,
\* goes where LR says.
LongBranches(w, first) ==
  CASE In(w, 896, 927)            -> ThumbOf("B", 14)
    [] In(w, 928, 959) /\ first   -> Thumb("BLX")
    [] In(w, 960, 991)            -> Nothing
    [] In(w, 992, 1023) /\ first  -> Thumb("BL_11")
    [] w > 927 /\ ~In(w, 960, 991) /\ ~first -> Thumb("BLH")

\* translate_thumb_instruction
ThumbCode(w, first) ==
  CASE w < 96            -> Shifted(w)     [] In(w, 96, 127)  -> Added(w)
    [] In(w, 128, 255)   -> Immediate(w)   [] In(w, 256, 271) -> Alu(w)
    [] In(w, 272, 287)   -> High(w)        [] In(w, 288, 319) -> LoadsPc(w)
    [] In(w, 320, 383)   -> ByRegister(w)  [] In(w, 384, 575) -> ByImmediate(w)
    [] In(w, 576, 639)   -> BySp(w)        [] In(w, 640, 703) -> Pointers(w)
    [] In(w, 704, 767)   -> Stack(w)       [] In(w, 768, 831) -> Multiples(w)
    [] In(w, 832, 895)   -> Conditions(w)  [] In(w, 896, 1023) -> LongBranches(w, first)
-----------------------------------------------------------------------------
(***************************************************************************)
(* What scan_block reads off an instruction word while it looks for the    *)
(* end of a block: whether the instruction may leave the block, whether it *)
(* is a branch with a target in its word, and whether it writes flags, for *)
(* then the instructions behind it need a test of their own.  The masks    *)
(* are a third reading of the instruction beside the two decoders.         *)
(*                                                                         *)
(* An ARM word: row, col; rd what its bits 15-12 name, "r15", another with *)
(* bit 15 set, or a low one; ones when bits 19-8 are all set; nv on        *)
(* condition NV.  A Thumb word: w its bits 15-6, sevens when its bits 2-0  *)
(* are all set, first when the first half of a long branch precedes it.    *)
(***************************************************************************)

ArmWords ==
  {a \in [row : Rows, col : Columns, rd : {"low", "high", "r15"}, ones : BOOLEAN, nv : BOOLEAN] :
     (a.ones => a.rd = "r15") /\ (a.nv => a.row \in 160 .. 191)}
ThumbWords == [w : Words, sevens : BOOLEAN, first : BOOLEAN]

Table(a) == ArmTable(a.row, a.col)
Code(a) == ArmCode(a.row, a.col, a.nv)
ThumbCodeOf(t) == ThumbCode(t.w, t.first)

\* arm_exit_point.  Condition NV has been cut off before it is looked for.
WritesR15(a) == a.row < 128 /\ a.rd = "r15" /\ ~(a.row \in {18, 22, 50, 54})
BranchesByR(a) == Bit(a.row, 4) = 1 /\ Bit(a.row, 1) = 1 /\ a.ones /\ Odd(a.col)
LoadsR15(a) == a.row >= 128 /\ Odd(a.row) /\ a.rd # "low"
\* Mutant: a list that is loaded is no exit.
ArmExitSingle(a) ==
  \/ WritesR15(a) \/ BranchesByR(a)
  \/ a.row \in 160 .. 191
  \/ a.row \in 192 .. 238 /\ a.rd = "r15"
ArmExit(a) ==
  \/ WritesR15(a) \/ BranchesByR(a) \/ LoadsR15(a)
  \/ a.row \in 160 .. 191
  \/ a.row \in 192 .. 238 /\ a.rd = "r15"
\* arm_opcode_branch
ArmBranch(a) == a.row \in 160 .. 191
\* Mutant: the row of MSR is looked at as those of the tests are.
MarksTests(a) ==
  CASE a.row \in {1, 3, 9, 11, 13, 15} -> (a.col \div 2) % 4 = 0 \/ ~Special(a.col)
    [] a.row \in {5, 7, 17, 19, 21, 22, 23, 25, 27, 29, 31} -> ~Special(a.col)
    [] a.row \in {33, 35, 37, 39, 41, 43, 45, 57, 59, 61, 63} \cup (47 .. 55) -> TRUE
    [] OTHER -> FALSE
\* arm_set_condition
MarksFlags(a) ==
  CASE a.row \in {1, 3, 9, 11, 13, 15} -> (a.col \div 2) % 4 = 0 \/ ~Special(a.col)
    [] a.row \in {5, 7, 17, 19, 21, 22, 23, 25, 27, 29, 31} -> ~Special(a.col)
    [] a.row = 18 -> ~Odd(a.col)
    [] a.row \in {33, 35, 37, 39, 41, 43, 45, 57, 59, 61, 63} \cup (47 .. 55) -> TRUE
    [] OTHER -> FALSE
\* thumb_exit_point, thumb_opcode_branch
ThumbBranch(t) == In(t.w, 832, 891) \/ In(t.w, 896, 959) \/ t.w >= 992
ThumbExit(t) ==
  \/ ThumbBranch(t) \/ t.w \in 284 .. 287 \/ t.w \in 756 .. 759
  \/ t.w \in {282, 283} /\ t.sevens
\* Mutant: a second half that stands alone has a target.
ThumbTargetAlone(t) == ThumbBranch(t)
\* thumb_branch_target finds no target in a second half that stands alone.
ThumbTarget(t) == ThumbBranch(t) /\ (t.w >= 928 => t.first)
----------------------------------------------------------------------------
\* What the code that is generated does.
Sets(c) ==
  \/ c.k \in {"data", "mul"} /\ c.s = 1
  \/ c.k = "test"
  \/ c.k = "status" /\ c.op = "MSR" /\ c.psr = "CPSR"
Jumps(c, a) ==
  \/ c.k = "data" /\ a.rd = "r15"
  \/ c.k = "transfer" /\ c.op \in {"LDR", "LDRB", "LDRH", "LDRSB", "LDRSH"} /\ a.rd = "r15"
  \/ c.k = "block" /\ c.op = "LDM" /\ a.rd # "low"
  \/ c.k = "other" /\ c.op \in {"B", "BL", "BLX_IMM", "BX", "BLX_REG"}
ThumbJumps(t) ==
  LET c == ThumbCodeOf(t)
  IN  \/ c.k = "thumb" /\ c.op \in {"B", "BLX", "BL_11", "BLH", "BX_THUMB", "BLX_THUMB", "POP_PC"}
      \/ c.k = "thumb" /\ c.op \in {"MOV_SPE", "ADD_SPE"} /\ Odd(t.w \div 2) /\ t.sevens

\* Where the two decoders disagree about a word the interpreter knows: LDRD, whose
\* case is out of reach, is taken for a multiplication or a swap; SMLAW and SMULW
\* for a write of the status; a breakpoint for BX; the row whose shifts the table
\* has lost; and all that coprocessors do that is not a move of a register.
Misread(a) ==
  \/ a.row \in {0, 8, 12, 16, 20} /\ a.col = 13
  \/ a.row = 18 /\ a.col \in {7, 8, 10, 12, 14}
  \/ a.row = 107 /\ a.col \in {2, 4, 6, 10, 12, 14}
  \/ a.row \in 192 .. 223 \/ (a.row \in 224 .. 239 /\ ~Odd(a.col))
\* The recompiler does what the interpreter does with every other word that means
\* anything, but a branch on condition NV, which the table cannot know.
ArmDecodersAgree(a) ==
  ~a.nv /\ Table(a) # Und => (Code(a) = Table(a) <=> ~Misread(a))
ThumbDecodersAgree(t) ==
  LET i == ThumbTable(t.w)  c == ThumbCodeOf(t)
  IN  \/ c = i \/ i = Und
      \/ i.op \in {"LSL_0", "LSR_0", "ASR_0"} /\ c.op = SubSeq(i.op, 1, 3)
      \/ i.op \in {"BL_10", "BKPT_THUMB"} /\ c = Nothing
      \/ i.op \in {"BLX", "BL_11"} /\ ~t.first /\ c.op = "BLH"

\* A run of instructions on one condition ends behind each that writes flags
\* ("Taken from the CPU switch so it'd better be right this time").
FlagWriterMarked(a) == Sets(Code(a)) => MarksFlags(a)

\* The scan has recorded a target for every branch that is linked, and for no other.
TargetRecorded(a) == ArmBranch(a) <=> Code(a) \in {Other("B"), Other("BL"), Other("BLX_IMM")}
ThumbTargetRecorded(t) ==
  ThumbTarget(t) <=> ThumbCodeOf(t).k = "thumb" /\ ThumbCodeOf(t).op \in {"B", "BLX", "BL_11"}

\* A block ends where an instruction may leave, and then its code leaves.  What
\* has r15 in the place of a destination is taken for such an instruction, though
\* it stores, tests, multiplies, moves to a coprocessor or copies the status, and
\* so is a coprocessor move to r8 or higher and a call with those bits in its number.
OnlyLooksLikeExit(a) ==
  LET c == Code(a)
  IN  \/ c.k \in {"test", "mul", "signed", "reencoded", "status", "coprocessor"}
      \/ c.k = "transfer" /\ c.op \in {"STR", "STRB", "STRH", "LDRD", "STRD"}
      \/ c.k = "block" /\ c.op = "STM"
      \/ c.k = "other" /\ c.op \in {"SWI", "SWP", "SWPB", "CLZ", "QADD", "QSUB", "QDADD", "QDSUB"}
      \/ c = Nothing
ExitLeaves(a) == ArmExit(a) => Jumps(Code(a), a) \/ OnlyLooksLikeExit(a)
LeavingIsExit(a) == Jumps(Code(a), a) /\ (a.row = 18 => a.ones) => ArmExit(a)
\* In Thumb only the addition to r15 is not seen.
ThumbExitLeaves(t) ==
  (ThumbExit(t) <=> ThumbJumps(t)) \/ ThumbCodeOf(t).op = "ADD_SPE"

\* All readings of a word of either set agree.
ArmReadingsAgree(w) ==
  /\ ArmDecodersAgree(w) /\ FlagWriterMarked(w) /\ TargetRecorded(w)
  /\ ExitLeaves(w) /\ LeavingIsExit(w)
ThumbReadingsAgree(w) == ThumbDecodersAgree(w) /\ ThumbTargetRecorded(w) /\ ThumbExitLeaves(w)
==============================================================================
