---------------------------- MODULE Disassembler ----------------------------
(***************************************************************************)
(* The listing of an instruction word, and whether it tells what the word  *)
(* means.  The tables of the listing are those of the interpreter, with a  *)
(* handler of the same name behind each entry that prints what it finds in *)
(* the word.  A listing is a record of what is printed: the name, whether  *)
(* an S stands behind it, the registers in their order, and the last       *)
(* operand.  Assembled by the rules of the architecture, a listing must    *)
(* give a word that means what the listed word means.  The condition is    *)
(* left out, and the handlers that no entry of the tables names.           *)
(***************************************************************************)
EXTENDS HostRun

Listing(op, s, regs, o) == [op |-> op, s |-> s, regs |-> regs, o |-> o]
None == [k |-> "nothing"]
Const(bits) == [k |-> "const", bits |-> bits]
Num(n) == [k |-> "number", n |-> n]
Address32(n) == [k |-> "address", n |-> n]
Plain(rm) == [k |-> "plain", rm |-> rm]
\* rm shifted by a number, by a register, or one bit through carry.
ShiftedBy(rm, by, n) == [k |-> "shifted", rm |-> rm, by |-> by, n |-> n]
ShiftedByReg(rm, by, rs) == [k |-> "by register", rm |-> rm, by |-> by, rs |-> rs]
Rrx(rm) == [k |-> "rrx", rm |-> rm]
\* An address in brackets: sign is what stands in front of the offset.
Place(rn, how, sign, off) == [k |-> "place", base |-> rn, how |-> how, sign |-> sign, off |-> off]
Sign(up) == IF up THEN "+" ELSE "-"
ListShown(groups, wb, user, unsure) == [k |-> "list", groups |-> groups, wb |-> wb, user |-> user, unsure |-> unsure]
----------------------------------------------------------------------------
(* ARM.  The macros of computation: v is where the one register stands.        *)
ShiftName(o) == SubSeq(o, 1, 3)
LslImm(w) == IF Amount(w) = 0 THEN Plain(w.rm) ELSE ShiftedBy(w.rm, "LSL", Amount(w))
\* Mutant: the register that shifts is taken for the one that is shifted.
CommonSwapped(w, o) ==
  CASE o = "IMM_VAL" -> Const(Rotated((16 * w.col) + w.rm, 2 * w.rs))
    [] o = "LSL_IMM" -> LslImm(w)
    [] o \in {"LSR_IMM", "ASR_IMM"} -> ShiftedBy(w.rm, ShiftName(o), Amount(w))
    [] o \in {"LSL_REG", "LSR_REG", "ASR_REG", "ROR_REG"} -> ShiftedByReg(w.rs, ShiftName(o), w.rm)
Common(w, o) ==
  CASE o = "IMM_VAL" -> Const(Rotated((16 * w.col) + w.rm, 2 * w.rs))
    [] o = "LSL_IMM" -> LslImm(w)
    [] o \in {"LSR_IMM", "ASR_IMM"} -> ShiftedBy(w.rm, ShiftName(o), Amount(w))
    [] o \in {"LSL_REG", "LSR_REG", "ASR_REG", "ROR_REG"} -> ShiftedByReg(w.rm, ShiftName(o), w.rs)
DATAPROC(w, op, s, o) ==
  Listing(op, s, <<w.rd, w.rn>>,
          IF o # "ROR_IMM" THEN Common(w, o) ELSE IF Amount(w) = 0 THEN Plain(w.rm) ELSE Rrx(w.rm))
DATAPROC_ONE_OP(w, op, s, o, v) ==
  Listing(op, s, <<v>>,
          IF o # "ROR_IMM" THEN Common(w, o) ELSE IF Amount(w) = 0 THEN Rrx(w.rm) ELSE ShiftedBy(w.rm, "ROR", Amount(w)))

\* One for the handlers of each operation.
OP_AND(w, c) == DATAPROC(w, "AND", c.s, c.o)
OP_EOR(w, c) == DATAPROC(w, "EOR", c.s, c.o)
OP_SUB(w, c) == DATAPROC(w, "SUB", c.s, c.o)
OP_RSB(w, c) == DATAPROC(w, "RSB", c.s, c.o)
OP_ADD(w, c) == DATAPROC(w, "ADD", c.s, c.o)
OP_ADC(w, c) == DATAPROC(w, "ADC", c.s, c.o)
OP_SBC(w, c) == DATAPROC(w, "SBC", c.s, c.o)
OP_RSC(w, c) == DATAPROC(w, "RSC", c.s, c.o)
OP_TST(w, c) == DATAPROC_ONE_OP(w, "TST", 0, c.o, w.rn)
OP_TEQ(w, c) == DATAPROC_ONE_OP(w, "TEQ", 0, c.o, w.rn)
OP_CMP(w, c) == DATAPROC_ONE_OP(w, "CMP", 0, c.o, w.rn)
\* One handler of CMN prints the line of CMP.
OP_CMN(w, c) ==
  IF c.o = "LSR_IMM" THEN DATAPROC_ONE_OP(w, "CMP", 0, "ASR_IMM", w.rn) ELSE DATAPROC_ONE_OP(w, "CMN", 0, c.o, w.rn)
OP_ORR(w, c) == DATAPROC(w, "ORR", c.s, c.o)
OP_MOV(w, c) == DATAPROC_ONE_OP(w, "MOV", c.s, c.o, w.rd)
OP_BIC(w, c) == DATAPROC(w, "BIC", c.s, c.o)
\* And one of MVN that of MOV.
OP_MVN(w, c) == DATAPROC_ONE_OP(w, IF c.s = 1 /\ c.o = "ASR_IMM" THEN "MOV" ELSE "MVN", c.s, c.o, w.rd)
Computation(w, c) ==
  CASE c.op = "AND" -> OP_AND(w, c) [] c.op = "EOR" -> OP_EOR(w, c) [] c.op = "SUB" -> OP_SUB(w, c)
    [] c.op = "RSB" -> OP_RSB(w, c) [] c.op = "ADD" -> OP_ADD(w, c) [] c.op = "ADC" -> OP_ADC(w, c)
    [] c.op = "SBC" -> OP_SBC(w, c) [] c.op = "RSC" -> OP_RSC(w, c) [] c.op = "TST" -> OP_TST(w, c)
    [] c.op = "TEQ" -> OP_TEQ(w, c) [] c.op = "CMP" -> OP_CMP(w, c) [] c.op = "CMN" -> OP_CMN(w, c)
    [] c.op = "ORR" -> OP_ORR(w, c) [] c.op = "MOV" -> OP_MOV(w, c) [] c.op = "BIC" -> OP_BIC(w, c)
    [] c.op = "MVN" -> OP_MVN(w, c)

OP_MUL(w, c) ==
  Listing(c.op, c.s,
          CASE c.op = "MUL" -> <<w.rn, w.rm, w.rs>> [] c.op = "MLA" -> <<w.rn, w.rm, w.rs, w.rd>>
            [] c.op \notin {"MUL", "MLA"} -> <<w.rd, w.rn, w.rm, w.rs>>, None)
OP_SWP(w, c) == Listing(c.op, 0, <<w.rd, w.rm>>, Plain(w.rn))
\* The halves are a part of the name.  The long sums are printed without their L.
OP_SMUL(w, c) ==
  Listing(IF c.op = "SMLAL" THEN "SMLA" ELSE c.op, 0,
          CASE c.op \in {"SMUL", "SMULW"} -> <<w.rn, w.rm, w.rs>> [] c.op \in {"SMLA", "SMLAW"} -> <<w.rn, w.rm, w.rs, w.rd>>
            [] c.op = "SMLAL" -> <<w.rd, w.rn, w.rm, w.rs>>, [k |-> "halves", x |-> c.x, y |-> c.y])
OP_QADD(w, c) == Listing(c.op, 0, IF c.op = "CLZ" THEN <<w.rd, w.rm>> ELSE <<w.rd, w.rm, w.rn>>, None)

HalfOffset(w, c) == IF c.o = "IMM" THEN Num(OffsetBits(w)) ELSE Plain(w.rm)
OP_LDRH(w, c) == Listing(c.op, 0, <<w.rd>>, Place(w.rn, c.how, Sign(c.up), HalfOffset(w, c)))
OP_LDRSH(w, c) == Listing(c.op, 0, <<w.rd>>, Place(w.rn, c.how, Sign(c.up), HalfOffset(w, c)))
\* The number of a register without its R.
OP_LDRD_STRD_OFFSET_PRE_INDEX(w, c) ==
  Listing(c.op, 0, <<w.rd>>, Place(w.rn, c.how, Sign(c.up), Num(IF c.o = "IMM" THEN OffsetBits(w) ELSE w.rm)))
OP_LDRD_STRD_POST_INDEX(w, c) == Listing(c.op, 0, <<w.rd>>, Place(w.rn, "post", Sign(c.up), HalfOffset(w, c)))

\* LDRSTR_LSL_IMM, LDRSTR_ROR_IMM, LDRSTR_IMM_SHIFT; the offset of twelve bits is cut to eleven.
LDRSTR(w, o) ==
  CASE o = "LSL_IMM" -> LslImm(w)
    [] o = "ROR_IMM" -> IF Amount(w) = 0 THEN Plain(w.rm) ELSE Rrx(w.rm)
    [] o \in {"LSR_IMM", "ASR_IMM"} -> ShiftedBy(w.rm, ShiftName(o), Amount(w))
    [] o = "IMM" -> Num(OffsetBits(w) % 2048)
\* Four handlers print an M for the sign.
SignShown(c) == IF c.o = "LSR_IMM" /\ c.how = "off" /\ ~c.up THEN "M" ELSE Sign(c.up)
Accessed(w, c) == Listing(c.op, 0, <<w.rd>>, Place(w.rn, c.how, SignShown(c), LDRSTR(w, c.o)))
\* A load at a distance from the instruction shows the address.
OP_LDR(w, c) ==
  IF c.o = "IMM" /\ c.how = "off" /\ w.rn = 15
  THEN Listing("LDR", 0, <<w.rd>>, Address32(Here + 8 + (IF c.up THEN 1 ELSE -1) * (OffsetBits(w) % 2048)))
  ELSE Accessed(w, c)
OP_LDRB(w, c) == Accessed(w, c)
OP_STR(w, c) == Accessed(w, c)
OP_STRB(w, c) == Accessed(w, c)

\* The list as it is printed: a dash behind a register whose successor is in the list
\* too, the next one that is printed ends the range.
Groups(bits, nb) ==
  LET ends(j) == j + 1 \notin bits \/ j = nb - 1
      step(l, j) ==
        CASE l.prec /\ ends(j)                  -> [prec |-> FALSE, text |-> Append(l.text, <<j, ",">>)]
          [] ~l.prec /\ j \in bits /\ ends(j)   -> [prec |-> FALSE, text |-> Append(l.text, <<j, ",">>)]
          [] ~l.prec /\ j \in bits /\ ~ends(j)  -> [prec |-> TRUE, text |-> Append(l.text, <<j, "-">>)]
          [] OTHER -> l
  IN  FoldLeft(step, [prec |-> FALSE, text |-> <<>>], [j \in 1 .. nb |-> j - 1]).text
OP_LDM(w, c) ==
  Listing("LDM" \o c.way, 0, <<w.rn>>,
          ListShown(Groups(RegList(w), 16), c.wb, c.user, c.user /\ c.wb /\ 15 \notin RegList(w)))
OP_STM(w, c) ==
  Listing("STM" \o c.way, 0, <<w.rn>>, ListShown(Groups(RegList(w), 16), c.wb, c.user, c.user /\ c.wb))

\* MSR_FIELD: the bytes of the status that are written, from the lowest.
MSR_FIELD ==
  <<{}, {0}, {1}, {0, 1}, {2}, {2, 0}, {2, 1}, {2, 1, 0}, {3}, {3, 0}, {3, 1}, {3, 1, 0}, {3, 2}, {3, 2, 0}, {3, 2, 1},
    {3, 2, 1, 0}>>
OP_MRS_CPSR(w, c) ==
  IF c.op = "MRS" THEN Listing("MRS" \o c.psr, 0, <<w.rd>>, None)
  ELSE [op |-> "MSR" \o c.psr, s |-> 0, regs |-> <<>>, fields |-> MSR_FIELD[w.rn + 1],
        o |-> IF c.o = "REG" THEN Plain(w.rm) ELSE Const(Rotated((16 * w.col) + w.rm, 2 * w.rs))]
OP_BX(w, c, nv) ==
  LET near == Here + (4 * Offset24(w))
  IN  CASE c.op \in {"BX", "BLX_REG"} -> Listing(c.op, 0, <<w.rm>>, None)
        [] c.op \in {"B", "BL"} /\ ~nv -> Listing(c.op, 0, <<>>, Address32(near + 8))
        [] c.op \in {"B", "BL"} /\ nv  -> Listing("BLX", 0, <<>>, Address32(near + (IF c.op = "BL" THEN 10 ELSE 8)))

\* What belongs to a coprocessor: its number cp, its registers cr; ok is FALSE where the
\* two labels are printed the wrong way round.
CoprocessorShown(op, cp, cr, o, ok) == [op |-> op, s |-> 0, regs |-> <<>>, cp |-> cp, cr |-> cr, o |-> o, ok |-> ok]
Byte(w) == (16 * w.col) + w.rm
Way(c) == SubSeq(c.op, 5, Len(c.op))
Beside(w, c) ==
  IF Way(c) = "OPTION" THEN Place(w.rn, "option", "+", Num(Byte(w)))
  ELSE Place(w.rn, CASE Way(c) \in {"P_IMM_OFF", "M_IMM_OFF"} -> "off" [] Way(c) \in {"P_PREIND", "M_PREIND"} -> "pre"
                     [] Way(c) \in {"P_POSTIND", "M_POSTIND"} -> "post",
             IF SubSeq(Way(c), 1, 1) = "P" THEN "+" ELSE "-", Num(4 * Byte(w)))
OP_STC(w, c, nv) ==
  CoprocessorShown(IF nv THEN "STC2" ELSE "STC", w.rs, <<w.rd>>, Beside(w, c), nv \/ Way(c) # "P_IMM_OFF")
OP_LDC(w, c, nv) == CoprocessorShown(IF nv THEN "LDC2" ELSE "LDC", w.rs, <<w.rd>>, Beside(w, c), TRUE)
OP_MCR(w, c) ==
  [CoprocessorShown(c.op, w.rs, <<w.rn, w.rm>>, [k |-> "codes", first |-> (w.row \div 2) % 8, second |-> w.col \div 2], TRUE)
     EXCEPT !.regs = <<w.rd>>]
\* The last nibble of a breakpoint is joined with the column, which is 7.
OP_SWI(w, c) ==
  CASE c.op = "SWI"  -> Listing("SWI", 0, <<>>, Num((16 * (w.row % 16)) + w.rn))
    [] c.op = "BKPT" -> Listing("BKPT", 0, <<>>, Num((256 * w.rd) + (16 * w.rs) + (IF w.rm < 8 THEN 7 ELSE 15)))
    [] c.op = "CDP"  -> Listing("CDP", 0, <<>>, None)

\* des_arm_instructions_set[row * 16 + column]
ArmListed(w, nv) ==
  LET c == ArmTable(w.row, w.col)
  IN  CASE c.k \in {"data", "test"} -> Computation(w, c)
        [] c.k = "mul"    -> OP_MUL(w, c)
        [] c.k = "signed" -> OP_SMUL(w, c)
        [] c.k = "block"  -> IF c.op = "LDM" THEN OP_LDM(w, c) ELSE OP_STM(w, c)
        [] c.k = "status" -> OP_MRS_CPSR(w, c)
        [] c.k = "transfer" ->
             (CASE c.op \in {"LDRH", "STRH"}   -> OP_LDRH(w, c)
                [] c.op \in {"LDRSH", "LDRSB"} -> OP_LDRSH(w, c)
                [] IsDouble(c.op) /\ c.how = "post" -> OP_LDRD_STRD_POST_INDEX(w, c)
                [] IsDouble(c.op) /\ c.how # "post" -> OP_LDRD_STRD_OFFSET_PRE_INDEX(w, c)
                [] c.op = "LDR"  -> OP_LDR(w, c)  [] c.op = "LDRB" -> OP_LDRB(w, c)
                [] c.op = "STR"  -> OP_STR(w, c)  [] c.op = "STRB" -> OP_STRB(w, c))
        [] c.k = "other" ->
             (CASE c.op \in {"SWP", "SWPB"} -> OP_SWP(w, c)
                [] c.op \in {"CLZ", "QADD", "QSUB", "QDADD", "QDSUB"} -> OP_QADD(w, c)
                [] c.op \in {"B", "BL", "BX", "BLX_REG"} -> OP_BX(w, c, nv)
                [] c.op \in {"SWI", "BKPT"} -> OP_SWI(w, c))
        [] c.k = "coprocessor" ->
             (CASE c.op \in {"MCR", "MRC"} -> OP_MCR(w, c) [] c.op = "CDP" -> OP_SWI(w, c)
                [] SubSeq(c.op, 1, 3) = "STC" -> OP_STC(w, c, nv) [] SubSeq(c.op, 1, 3) = "LDC" -> OP_LDC(w, c, nv))
----------------------------------------------------------------------------
(* Thumb.  What comes before a second half of a long branch is kept in part.   *)
OP_LSL_0(w, low, c) ==
  Listing(SubSeq(c.op, 1, 3), 0, <<Low3(low), Mid3(low)>>, Num(w % 32))
\* Mutant: the two sources the other way round.
OP_ADD_REGSwapped(w, low, c) ==
  CASE c.op \in {"ADD_REG", "SUB_REG"}   -> Listing(SubSeq(c.op, 1, 3), 0, <<Low3(low), w % 8>>, Plain(Mid3(low)))
    [] c.op \in {"ADD_IMM3", "SUB_IMM3"} -> Listing(SubSeq(c.op, 1, 3), 0, <<Low3(low), Mid3(low)>>, Num(w % 8))
    [] OTHER -> Listing(SubSeq(c.op, 1, 3), 0, <<c.r>>, Num(Word8(w, low)))
OP_ADD_REG(w, low, c) ==
  CASE c.op \in {"ADD_REG", "SUB_REG"}   -> Listing(SubSeq(c.op, 1, 3), 0, <<Low3(low), Mid3(low)>>, Plain(w % 8))
    [] c.op \in {"ADD_IMM3", "SUB_IMM3"} -> Listing(SubSeq(c.op, 1, 3), 0, <<Low3(low), Mid3(low)>>, Num(w % 8))
    [] OTHER -> Listing(SubSeq(c.op, 1, 3), 0, <<c.r>>, Num(Word8(w, low)))
OP_ALU(low, c) == Listing(SubSeq(c.op, 1, 3), 0, <<Low3(low)>>, Plain(Mid3(low)))
OP_ADD_SPE(w, low, c) ==
  CASE c.op \in {"BX_THUMB", "BLX_THUMB"} -> Listing(c.op, 0, <<HighRs(w, low)>>, None)
    [] c.op \notin {"BX_THUMB", "BLX_THUMB"} -> Listing(SubSeq(c.op, 1, 3), 0, <<HighRd(w, low)>>, Plain(HighRs(w, low)))
\* The unit of an offset is what is loaded or stored.
Unit(op) == CASE op \in {"STR_IMM_OFF", "LDR_IMM_OFF"} -> 4 [] op \in {"STRH_IMM_OFF", "LDRH_IMM_OFF"} -> 2
              [] op \in {"STRB_IMM_OFF", "LDRB_IMM_OFF"} -> 1
OP_LDR_PCREL(w, low, c) ==
  CASE c.op = "LDR_PCREL" -> Listing("LDR", 0, <<c.r>>, Place(15, "off", "+", Num(4 * Word8(w, low))))
    [] c.op \in {"STR_SPREL", "LDR_SPREL"} ->
         Listing(SubSeq(c.op, 1, 3), 0, <<c.r>>, Place(13, "off", "+", Num(4 * Word8(w, low))))
    [] In(w, 320, 383) ->
         Listing(SubSeq(c.op, 1, Len(c.op) - 8), 0, <<Low3(low)>>, Place(Mid3(low), "off", "+", Plain(w % 8)))
    [] In(w, 384, 575) ->
         Listing(SubSeq(c.op, 1, Len(c.op) - 8), 0, <<Low3(low)>>, Place(Mid3(low), "off", "+", Num(Unit(c.op) * (w % 32))))
OP_ADD_2PC(w, low, c) ==
  CASE c.op = "ADD_2PC" -> Listing("ADD", 0, <<c.r, 15>>, Num(4 * Word8(w, low)))
    [] c.op = "ADD_2SP" -> Listing("ADD", 0, <<c.r, 13>>, Num(4 * Word8(w, low)))
    [] c.op = "ADJUST_P_SP" -> Listing("ADD", 0, <<13>>, Num(4 * (Word8(w, low) % 128)))
    [] c.op = "ADJUST_M_SP" -> Listing("SUB", 0, <<13>>, Num(4 * (Word8(w, low) % 128)))
OP_PUSH(w, low, c) ==
  LET list == Groups(Ones(Word8(w, low)), 8)
  IN  CASE c.op \in {"PUSH", "POP"} -> Listing(c.op, 0, <<>>, ListShown(list, TRUE, FALSE, FALSE))
        [] c.op = "PUSH_LR" -> Listing("PUSH", 0, <<>>, ListShown(Append(list, <<14, ",">>), TRUE, FALSE, FALSE))
        [] c.op = "POP_PC"  -> Listing("POP", 0, <<>>, ListShown(Append(list, <<15, ",">>), TRUE, FALSE, FALSE))
        [] c.op = "STMIA_THUMB" -> Listing("STMIA", 0, <<c.r>>, ListShown(list, TRUE, FALSE, FALSE))
        [] c.op = "LDMIA_THUMB" -> Listing("LDMIA", 0, <<c.r>>, ListShown(list, TRUE, FALSE, FALSE))
\* The target of a long branch is cut to a multiple of four, in Thumb code too.
OP_B_COND(w, low, c, part) ==
  LET long == part + (2 * Low11(w, low))
  IN  CASE w < 892 -> Listing("B", c.r, <<>>, Address32(There + 4 + (2 * SignOf(Word8(w, low), 8))))
        [] In(w, 892, 895) -> Listing("SWI", 0, <<>>, Num(Word8(w, low)))
        [] In(w, 896, 927) -> Listing("B", 14, <<>>, Address32(There + 4 + (2 * SignOf(Low11(w, low), 11))))
        [] In(w, 928, 959) \/ w >= 992 -> Listing(SubSeq(c.op, 1, 2), 0, <<>>, Address32(long - (long % 4)))
        [] In(w, 960, 991) -> Listing("high part", 0, <<>>, None)
\* OP_BL_10, two bytes in front of There, has set part.
PartOf(prev) == There + 2 + (4096 * SignOf(prev, 11))

\* des_thumb_instructions_set[w]
ThumbListed(w, low, part) ==
  LET c == ThumbTable(w)
  IN  CASE w < 96 -> OP_LSL_0(w, low, c)
        [] In(w, 96, 255)  -> OP_ADD_REG(w, low, c)
        [] In(w, 256, 271) -> OP_ALU(low, c)
        [] In(w, 272, 287) -> OP_ADD_SPE(w, low, c)
        [] In(w, 288, 639) -> OP_LDR_PCREL(w, low, c)
        [] In(w, 640, 707) -> OP_ADD_2PC(w, low, c)
        [] In(w, 708, 831) /\ c # Und /\ c.op # "BKPT_THUMB" -> OP_PUSH(w, low, c)
        [] w >= 832        -> OP_B_COND(w, low, c, part)
        [] c = Und \/ c.op = "BKPT_THUMB" -> Listing("no operands", 0, <<>>, None)
----------------------------------------------------------------------------
(* The assembler.  An amount of 0 is no shift, whatever stands in front of it; *)
(* a constant is put down with the smallest rotation that makes it.            *)
ShiftTypes == [LSL |-> LSL, LSR |-> LSR, ASR |-> ASR, ROR |-> ROR]
Turned(bits, rot) == {(k + (2 * rot)) % 32 : k \in bits}
Rotation(bits) == Min({rot \in 0 .. 15 : Turned(bits, rot) \subseteq 0 .. 7})
Operand(o) ==
  CASE o.k = "const"   -> Imm(Number(Turned(o.bits, Rotation(o.bits))), 2 * Rotation(o.bits))
    [] o.k = "number"  -> Imm(o.n, 0)
    [] o.k = "plain"   -> As(o.rm)
    [] o.k = "shifted" -> IF o.n = 0 THEN As(o.rm) ELSE By(o.rm, ShiftTypes[o.by], o.n)
    [] o.k = "rrx"     -> By(o.rm, ROR, 0)
    [] o.k = "by register" -> ByReg(o.rm, ShiftTypes[o.by], o.rs)
If(x) == IF x THEN 1 ELSE 0
MulOps == [MUL |-> 0, MLA |-> 1, UMULL |-> 4, UMLAL |-> 5, SMULL |-> 6, SMLAL |-> 7]
ProductWord(l) ==
  LET r == l.regs
  IN  CASE l.op = "MUL" -> Mul(0, l.s, r[1], r[2], r[3], 0)
        [] l.op = "MLA" -> Mul(1, l.s, r[1], r[2], r[3], r[4])
        [] l.op \notin {"MUL", "MLA"} -> Long(MulOps[l.op], l.s, r[1], r[2], r[3], r[4])
HalvesWord(l) ==
  LET r == l.regs
      col == 8 + (IF l.o.x = "T" \/ l.op = "SMULW" THEN 2 ELSE 0) + (IF l.o.y = "T" THEN 4 ELSE 0)
      row == CASE l.op = "SMLA" -> 16 [] l.op \in {"SMLAW", "SMULW"} -> 18 [] l.op = "SMUL" -> 22
  IN  Coded(row, r[1], IF Len(r) = 4 THEN r[4] ELSE 0, r[3], col, r[2])
\* The offset of an access: in the fields of a constant or of a register.
AccessColumn == [STRH |-> 11, LDRH |-> 11, LDRSB |-> 13, LDRD |-> 13, LDRSH |-> 15, STRD |-> 15]
AccessRow(l) ==
  (16 * If(l.o.how # "post")) + (8 * If(l.o.sign = "+")) + (2 * If(l.o.how = "pre")) + If(IsLoad(l.op) /\ l.op # "LDRD")
AccessWord(l) ==
  LET rd == l.regs[1]  rn == l.o.base  off == l.o.off
  IN  IF l.op \in {"LDR", "STR", "LDRB", "STRB"}
      THEN LET row == 64 + AccessRow(l) + (4 * If(l.op \in {"LDRB", "STRB"}))
           IN  IF off.k = "number" THEN WordAt(row, rd, rn, off.n)
               ELSE LET o == Operand(off) IN Coded(row + 32, rn, rd, o.rs, o.col, o.rm)
      ELSE LET col == AccessColumn[l.op]
           IN  IF off.k = "number" THEN Coded(AccessRow(l) + 4, rn, rd, off.n \div 16, col, off.n % 16)
               ELSE Coded(AccessRow(l), rn, rd, 0, col, off.rm)
Expanded(groups) ==
  UNION {IF groups[i][2] = "-" THEN groups[i][1] .. groups[i + 1][1] ELSE {groups[i][1]} : i \in DOMAIN groups}
ListRows == [DA |-> 128, IA |-> 136, DB |-> 144, IB |-> 152]
BlockWord(l) ==
  LET way == SubSeq(l.op, 4, 5)
  IN  ListWord(ListRows[way] + (4 * If(l.o.user)) + (2 * If(l.o.wb)) + If(SubSeq(l.op, 1, 3) = "LDM"), l.regs[1],
               Number(Expanded(l.o.groups)))
StatusWord(l) ==
  LET row == 16 + (2 * If(l.op \in {"MSRCPSR", "MSRSPSR"})) + (4 * If(l.op \in {"MRSSPSR", "MSRSPSR"}))
  IN  IF l.op \in {"MRSCPSR", "MRSSPSR"} THEN Coded(row, 15, l.regs[1], 0, 0, 0)
      ELSE LET o == Operand(l.o) fields == Number(l.fields)
           IN  Coded(row + (32 * If(o.k = "imm")), fields, 15, o.rs, o.col, o.rm)
BranchWord(l) ==
  LET far == l.o.n - (Here + 8)
      n   == (far \div 4) % 2^24
      row == (CASE l.op = "B" -> 160 [] l.op = "BL" -> 176 [] l.op = "BLX" -> 160 + (8 * (far % 4))) + (n \div 2^20)
  IN  ListWord(row, (n \div 65536) % 16, n % 65536)
Assembled(l) ==
  CASE l.op \in {"TST", "TEQ", "CMP", "CMN"} -> Dp(Numbers[l.op], 1, 0, l.regs[1], Operand(l.o))
    [] l.op \in {"MOV", "MVN"} -> Dp(Numbers[l.op], l.s, l.regs[1], 0, Operand(l.o))
    [] l.op \in {"AND", "EOR", "SUB", "RSB", "ADD", "ADC", "SBC", "RSC", "ORR", "BIC"} ->
         Dp(Numbers[l.op], l.s, l.regs[1], l.regs[2], Operand(l.o))
    [] l.op \in DOMAIN MulOps -> ProductWord(l)
    [] l.op \in {"SMLA", "SMLAW", "SMULW", "SMUL"} -> HalvesWord(l)
    [] l.op \in DOMAIN MemTypes ->
         IF l.o.k = "place" THEN AccessWord(l)
         ELSE WordAt(81 + (8 * If(l.o.n >= Here + 8)), l.regs[1], 15,
                     IF l.o.n >= Here + 8 THEN l.o.n - (Here + 8) ELSE (Here + 8) - l.o.n)
    [] l.op \in {"SWP", "SWPB"} -> Coded(IF l.op = "SWP" THEN 16 ELSE 20, l.o.rm, l.regs[1], 0, 9, l.regs[2])
    [] l.op = "CLZ" -> Coded(22, 15, l.regs[1], 15, 1, l.regs[2])
    [] l.op \in {"QADD", "QSUB", "QDADD", "QDSUB"} ->
         Coded([QADD |-> 16, QSUB |-> 18, QDADD |-> 20, QDSUB |-> 22][l.op], l.regs[3], l.regs[1], 0, 5, l.regs[2])
    [] l.op \in {"BX", "BLX_REG"} -> Coded(18, 15, 15, 15, IF l.op = "BX" THEN 1 ELSE 3, l.regs[1])
    [] l.op \in {"B", "BL", "BLX"} -> BranchWord(l)
    [] l.op \in {"MRSCPSR", "MRSSPSR", "MSRCPSR", "MSRSPSR"} -> StatusWord(l)
    [] l.o.k = "list" -> BlockWord(l)

\* Moves between a coprocessor and memory or a register.  How long the transfer is, is
\* not in the listing.
CoprocessorWord(l) ==
  IF l.o.k = "codes"
  THEN Coded(224 + (2 * l.o.first) + If(l.op = "MRC"), l.cr[1], l.regs[1], l.cp, (2 * l.o.second) + 1, l.cr[2])
  ELSE LET n == IF l.o.how = "option" THEN l.o.off.n ELSE l.o.off.n \div 4
       IN  Coded(192 + (16 * If(l.o.how \in {"off", "pre"})) + (8 * If(l.o.sign = "+")) + (2 * If(l.o.how \in {"pre", "post"}))
                   + If(l.op = "LDC"), l.o.base, l.cr[1], l.cp, n \div 16, n % 16)
Short(w) == IF w.row < 224 THEN [w EXCEPT !.row = @ - (4 * Bit(@, 2))] ELSE w

ThumbSum(l) ==
  LET op == Numbers[l.op]  r == l.regs
  IN  CASE Len(r) = 2 /\ r[2] < 8  -> Dp(op, 1, r[1], r[2], Operand(l.o))
        [] Len(r) = 2 /\ r[2] > 8  -> Dp(op, 0, r[1], r[2], Imm(l.o.n \div 4, 30))
        [] Len(r) = 1 /\ l.o.k = "plain" -> Dp(op, 0, r[1], r[1], As(l.o.rm))
        [] Len(r) = 1 /\ l.o.k = "number" /\ r[1] = 13 -> Dp(op, 0, 13, 13, Imm(l.o.n \div 4, 30))
        [] Len(r) = 1 /\ l.o.k = "number" /\ r[1] # 13 -> Dp(op, 1, r[1], r[1], Imm(l.o.n, 0))
ThumbAssembled(l) ==
  LET r == l.regs
  IN  CASE l.op \in DOMAIN ShiftTypes /\ l.o.k = "number" ->
             MOV(1, r[1], IF l.o.n = 0 THEN As(r[2]) ELSE By(r[2], ShiftTypes[l.op], l.o.n))
        [] l.op \in DOMAIN ShiftTypes /\ l.o.k = "plain" -> MOV(1, r[1], ByReg(r[1], ShiftTypes[l.op], l.o.rm))
        [] l.op = "NEG" -> RSB(1, r[1], l.o.rm, Imm(0, 0))
        [] l.op = "MUL" -> Mul(0, 1, r[1], r[1], l.o.rm, 0)
        [] l.op = "MVN" -> MVN(1, r[1], As(l.o.rm))
        [] l.op = "MOV" -> MOV(If(l.o.k = "number"), r[1], Operand(l.o))
        [] l.op \in {"TST", "CMP", "CMN"} -> Dp(Numbers[l.op], 1, 0, r[1], Operand(l.o))
        [] l.op \in {"ADD", "SUB"} -> ThumbSum(l)
        [] l.op \in {"AND", "EOR", "ADC", "SBC", "ORR", "BIC"} -> Dp(Numbers[l.op], 1, r[1], r[1], As(l.o.rm))
        [] l.op \in DOMAIN MemTypes -> AccessWord(l)
        [] l.op = "PUSH" -> ListWord(146, 13, Number(Expanded(l.o.groups)))
        [] l.op = "POP"  -> ListWord(139, 13, Number(Expanded(l.o.groups)))
        [] l.op = "STMIA" -> ListWord(138, r[1], Number(Expanded(l.o.groups)))
        [] l.op = "LDMIA" -> ListWord(139, r[1], Number(Expanded(l.o.groups)))
----------------------------------------------------------------------------
(* The words whose listing is known to say something else.                     *)
\* A shift by 32 is printed as one by 0, RRX and a rotation take each other's place, and
\* a constant that has two encodings does not tell which of them sets the carry.
WrongOperand(w, o) ==
  \/ o = "ROR_IMM" \/ (o \in {"LSR_IMM", "ASR_IMM"} /\ Amount(w) = 0)
  \/ o = "IMM_VAL" /\ w.rs # Rotation(Rotated((16 * w.col) + w.rm, 2 * w.rs))
OneOperand == {"TST", "TEQ", "CMP", "CMN", "MOV", "MVN"}
WrongComputation(w, c) ==
  \/ WrongOperand(w, c.o) /\ ~(c.o = "ROR_IMM" /\ c.op \in OneOperand)
  \/ c.op = "CMN" /\ c.o = "LSR_IMM"
  \/ c.op = "MVN" /\ c.s = 1 /\ c.o = "ASR_IMM"
WrongAccess(w, c) ==
  \/ WrongOperand(w, c.o) \/ (c.o = "IMM" /\ OffsetBits(w) > 2047)
  \/ c.o = "LSR_IMM" /\ c.how = "off" /\ ~c.up
  \/ IsDouble(c.op) /\ ((c.o = "REG" /\ c.how # "post") \/ w.rd = 15)
WrongListing(w, c) ==
  CASE c.k \in {"data", "test"} -> WrongComputation(w, c)
    [] c.k = "transfer"    -> WrongAccess(w, c)
    [] c.k = "signed"      -> c.op = "SMLAL"
    [] c.k = "coprocessor" -> c.op \in {"CDP", "STC_P_IMM_OFF"} \/ (Way(c) = "OPTION" /\ w.row < 200)
    [] c.k = "other"       -> c.op \in {"SWI", "BKPT"}
    [] c.k \in {"mul", "block", "status", "und"} -> c = Und

\* A product or a sum that goes to r15 means nothing.
Nowhere(w, c) == Computes(c) /\ c.k \notin {"data", "test"} /\ 15 \in {w.rd, w.rn}
\* Assembled, a listing means what the word means to the interpreter; a list that it
\* marks is one whose outcome is not known.
ArmListingTrue(w, nv) ==
  LET c == IF nv THEN Other("BLX_IMM") ELSE ArmTable(w.row, w.col)
      s == Reads(Fresh, Here + 8, FALSE)
      meant(x) == Meaning(s, x, IF nv THEN c ELSE ArmTable(x.row, x.col), 1)
  IN  ~WrongListing(w, c) /\ ~Nowhere(w, c) =>
        \A l \in {ArmListed(w, nv)} :
          IF c.k = "coprocessor" THEN CoprocessorWord(l) = Short(w)
          ELSE /\ meant(Assembled(l)) = meant(w)
               /\ c.k = "block" => (l.o.unsure => OddBlock(w, c))
\* A Thumb listing assembles to the ARM word that does the same; a target is the one the
\* recompiler takes, but for a long branch to the second half of a word.
ThumbListingTrue(w, low, prev) ==
  LET c == ThumbTable(w)
      l == ThumbListed(w, low, PartOf(prev))
  IN  CASE c = Und \/ c.op \in {"LSR_0", "ASR_0", "BKPT_THUMB", "BL_10", "SWI_THUMB"} -> TRUE
        [] In(w, 284, 287) -> l.regs[1] = HighRs(w, low)
        [] w >= 832 /\ c # Und /\ c.op \notin {"BL_10", "SWI_THUMB"} ->
             (w < 928 \/ prev >= 0) /\ ~(c.op = "BL_11" /\ WayTarget(w, low, prev) % 4 # 0) =>
               l.o.n = WayTarget(w, low, prev) - (IF In(w, 928, 959) THEN 1 ELSE 0)
        [] OTHER -> ThumbAssembled(l) = ThumbAs(w, low)
=============================================================================
