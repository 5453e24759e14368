----------------------------- MODULE EmittedCode -----------------------------
(***************************************************************************)
(* The code the recompiler puts down for one instruction, and the encoders *)
(* that put each word of it together.                                      *)
(*                                                                         *)
(* A guest register lives in a host register or in its cell of the file    *)
(* behind SP, and the code of every instruction fetches what it needs into *)
(* scratch registers, computes, and keeps the result; accesses, the status *)
(* and the ways out are calls of the stubs, which spoil the scratch        *)
(* registers and find addresses of the guest behind the call.              *)
(*                                                                         *)
(* An ARM word is the record of its nibbles (Coded); a Thumb word w its    *)
(* bits 15-6, low its bits 5-0, prev the last eleven bits of the word in   *)
(* front of it when that is the first half of a long branch.  Conditions   *)
(* are left to BlockCode, and numbers of cycles but for the register that  *)
(* counts them.  An access at an odd address is the access.                *)
(***************************************************************************)
EXTENDS ArmTranslate, SequencesExt

CONSTANTS Here,    \* the address of an ARM instruction; a Thumb one is two behind it
          Spent    \* cycles that the block has not counted yet

\* Where guest registers live, by their numbers, with the status at 16; mem_reg is
\* the file.
Memory == -1
ArmHomes ==
  [n \in 0 .. 16 |-> <<3, 4, -1, -1, -1, -1, 5, -1, -1, 6, -1, -1, 7, -1, 8, -1, -1>>[n + 1]]
ThumbHomes == [n \in 0 .. 16 |-> IF n < 6 THEN n + 3 ELSE Memory]
a0 == 0
a1 == 1
a2 == 2
s0 == 9                        \* kept by the stubs
flagsReg == 11
cyclesReg == 12
base == 13
lr == 14
CPSR == 16

Op(w) == [k |-> "op", w |-> w]
Call(f) == [k |-> "call", f |-> f]
Literal(n) == [k |-> "literal", n |-> n]
Leave(type) == [k |-> "leave", type |-> type]
Link(n) == [k |-> "link", n |-> n]
----------------------------------------------------------------------------
\* The host is an ARM too: the encoders put its instructions together.
Coded(row, rn, rd, rs, col, rm) ==
  [row |-> row, rn |-> rn, rd |-> rd, rs |-> rs, col |-> col, rm |-> rm]

\* ARMShiftType
LSL == 0
LSR == 1
ASR == 2
ROR == 3
\* The second operand, where its encoders put it: eight bits rotated, or a register
\* shifted by an amount or by another register.
Imm(imm, rot) == [k |-> "imm", rs |-> rot \div 2, col |-> (imm % 256) \div 16, rm |-> imm % 16]
By(rm, type, n) == [k |-> "by", rs |-> (n % 32) \div 2, col |-> (8 * (n % 2)) + (2 * type), rm |-> rm]
ByReg(rm, type, rs) == [k |-> "by register", rs |-> rs, col |-> (2 * type) + 1, rm |-> rm]
As(rm) == By(rm, LSL, 0)

Dp(op, s, rd, rn, o) == Coded((IF o.k = "imm" THEN 32 ELSE 0) + (2 * op) + s, rn, rd, o.rs, o.col, o.rm)

\* One for each instruction, with the numbers of ARMOpcode.
AND(s, rd, rn, o) == Dp(0, s, rd, rn, o)
EOR(s, rd, rn, o) == Dp(1, s, rd, rn, o)
SUB(s, rd, rn, o) == Dp(2, s, rd, rn, o)
RSB(s, rd, rn, o) == Dp(3, s, rd, rn, o)
ADD(s, rd, rn, o) == Dp(4, s, rd, rn, o)
ADC(s, rd, rn, o) == Dp(5, s, rd, rn, o)
SBC(s, rd, rn, o) == Dp(6, s, rd, rn, o)
RSC(s, rd, rn, o) == Dp(7, s, rd, rn, o)
ORR(s, rd, rn, o) == Dp(12, s, rd, rn, o)
BIC(s, rd, rn, o) == Dp(14, s, rd, rn, o)
MOV(s, rd, o) == Dp(13, s, rd, 0, o)
MVN(s, rd, o) == Dp(15, s, rd, 0, o)
CMP(rn, o) == Dp(10, 1, 0, rn, o)
CMN(rn, o) == Dp(11, 1, 0, rn, o)
\* With an amount in a register the two expand to the encoder of CMN.
TST(rn, o) == IF o.k = "by register" THEN CMN(rn, o) ELSE Dp(8, 1, 0, rn, o)
TEQ(rn, o) == IF o.k = "by register" THEN CMN(rn, o) ELSE Dp(9, 1, 0, rn, o)

\* ARM_DEF_MUL_COND; the long ones name the low half first.
Mul(op, s, rd, rm, rs, rn) == Coded((2 * op) + s, rd, rn, rs, 9, rm)
Long(op, s, lo, hi, rm, rs) == Mul(op, s, hi, rm, rs, lo)
\* ARM_DEF_WXFER_IMM, for a word at an offset that is not below the base
Wxfer(ls, rd, rn, imm) == Coded(88 + ls, rn, rd, imm \div 256, (imm \div 16) % 16, imm % 16)
LDR(rd, rn, imm) == Wxfer(1, rd, rn, imm)
MaxOffs == 4095
STR(rd, rn, imm) == Wxfer(0, rd, rn, IF imm > MaxOffs THEN MaxOffs ELSE imm)
Amount(w) == (2 * w.rs) + (w.col \div 8)
Ones(n) == {k \in 0 .. 29 : Bit(n, k) = 1}
Number(bits) == MapThenSumSet(LAMBDA k : 2^k, bits)
----------------------------------------------------------------------------
\* arm_disect_imm_32bit: a constant as rotated bytes.  The chunks begin at even
\* bits; what is left at the top may join the first.
Begins(bits, from) == {t \in from .. 31 : t % 2 = 0 /\ {t, t + 1} \cap bits # {}}
Chunks(bits) ==
  LET f[from \in 0 .. 40] ==
        IF Begins(bits, from) = {} THEN <<>>
        ELSE LET t == Min(Begins(bits, from)) IN IF t >= 24 THEN <<t>> ELSE <<t>> \o f[t + 8]
  IN  f[0]
ByteAt(bits, t) == Number({k - t : k \in bits \cap (t .. t + 7)})
Piece(bits, t) == Imm(ByteAt(bits, t), (32 - t) % 32)
\* Mutant: the first chunk is not moved up by what is below it.
JoinsBelow(bits, c) ==
  LET t == c[Len(c)] IN Imm(ByteAt(bits, t) + ByteAt(bits, c[1]), 32 - t)
Joins(bits, c) ==
  LET t == c[Len(c)] IN Imm(ByteAt(bits, t) + (ByteAt(bits, c[1]) * 2^(32 - t + c[1])), 32 - t)
Pieces[bits \in SUBSET (0 .. 31)] ==
  LET c == Chunks(bits)
      t == c[Len(c)]
      joins == Len(c) > 2 /\ t > 24 /\ ByteAt(bits, c[1]) * 2^(c[1]) < 2^(t - 24) - 1
  IN  CASE bits = {} -> <<Imm(0, 0)>>
        [] bits # {} /\ joins -> <<Joins(bits, c)>> \o [i \in 1 .. Len(c) - 2 |-> Piece(bits, c[i + 1])]
        [] bits # {} /\ ~joins -> [i \in DOMAIN c |-> Piece(bits, c[i])]

\* arm_load_imm_32bit, generate_load_pc
LoadImm(i, bits) ==
  LET p == Pieces[bits]
  IN  <<Op(MOV(0, i, p[1]))>> \o [j \in 1 .. Len(p) - 1 |-> Op(ORR(0, i, i, p[j + 1]))]
LoadPc(i, n) == LoadImm(i, Ones(n))

\* prepare_load_reg, prepare_store_reg: the register that has, or will have, guest
\* register n of homes h, with scratch register i for one in the file.
Use(h, i, n) == IF h[n] = Memory THEN i ELSE h[n]
FileOffset(n) == 1024 + (4 * n)
Fetch(h, i, n) == IF h[n] = Memory THEN <<Op(LDR(i, base, FileOffset(n)))>> ELSE <<>>
\* prepare_load_reg_pc
FetchPc(h, i, n, pc) == IF n = 15 THEN LoadPc(i, pc) ELSE Fetch(h, i, n)
\* complete_store_reg
Keep(h, i, n) == IF h[n] = Memory THEN <<Op(STR(i, base, FileOffset(n)))>> ELSE <<>>
\* generate_load_reg, generate_store_reg, generate_load_reg_pc
LoadReg(h, i, n) == IF h[n] = Memory THEN Fetch(h, i, n) ELSE <<Op(MOV(0, i, As(h[n])))>>
StoreReg(h, i, n) == IF h[n] = Memory THEN Keep(h, i, n) ELSE <<Op(MOV(0, h[n], As(i)))>>
LoadRegPc(h, i, n, pc) == IF n = 15 THEN LoadPc(i, pc) ELSE LoadReg(h, i, n)

\* generate_cycle_update
CycleUpdate(n) ==
  (IF n \div 256 > 0 THEN <<Op(ADD(0, cyclesReg, cyclesReg, Imm(n \div 256, 24)))>> ELSE <<>>)
    \o <<Op(ADD(0, cyclesReg, cyclesReg, Imm(n % 256, 0)))>>
\* generate_indirect_branch_cycle_update
Indirect(type) == CycleUpdate(Spent) \o <<Leave(type)>>
\* generate_branch_update: while the counter is negative, past the address and
\* the call.
BranchUpdate(target) ==
  <<Op(MOV(0, a0, By(cyclesReg, LSR, 31))), Op(ADD(0, 15, 15, By(a0, LSL, 2))),
    Literal(target), Call("update"), Link(target)>>
\* generate_branch, generate_branch_blx_imm
Branch(target) == CycleUpdate(Spent) \o BranchUpdate(target - (target % 2))
----------------------------------------------------------------------------
(* ARM instructions.  h stands for arm_register_allocation. *)
h == ArmHomes

\* complete_store_reg_pc_no_flags, complete_store_reg_pc_flags
KeepPc(i, n, flags) ==
  CASE n = 15 /\ ~flags -> Indirect("arm")
    [] n = 15 /\ flags  -> CycleUpdate(Spent) \o <<Call("execute_spsr_restore")>>
    [] n # 15           -> Keep(h, i, n)

Types == [LSL_IMM |-> LSL, LSR_IMM |-> LSR, ASR_IMM |-> ASR, ROR_IMM |-> ROR,
          LSL_REG |-> LSL, LSR_REG |-> LSR, ASR_REG |-> ASR, ROR_REG |-> ROR]
Numbers == [AND |-> 0, EOR |-> 1, SUB |-> 2, RSB |-> 3, ADD |-> 4, ADC |-> 5, SBC |-> 6, RSC |-> 7,
            TST |-> 8, TEQ |-> 9, CMP |-> 10, CMN |-> 11, ORR |-> 12, MOV |-> 13, BIC |-> 14, MVN |-> 15]
\* generate_op_*
Generated(op, s, d, n, o) ==
  CASE op = "MOV" -> MOV(s, d, o) [] op = "MVN" -> MVN(s, d, o)
    [] op = "TST" -> TST(n, o)    [] op = "TEQ" -> TEQ(n, o)
    [] op = "CMP" -> CMP(n, o)    [] op = "CMN" -> CMN(n, o)
    [] OTHER      -> Dp(Numbers[op], s, d, n, o)
\* Mutant: the amount of a shift is fetched into the register of the second operand.
DataProcClash(w, op, s, o, loads, stores) ==
  LET byReg == o \in {"LSL_REG", "LSR_REG", "ASR_REG", "ROR_REG"}
      imm   == o = "IMM_VAL"
      n     == Use(h, a1, w.rn)
      d     == Use(h, a0, w.rd)
      m     == Use(h, a0, w.rm)
      q     == Use(h, a0, w.rs)
      second == CASE imm -> Imm((16 * w.col) + w.rm, 2 * w.rs)
                  [] byReg -> ByReg(m, Types[o], q)
                  [] ~imm /\ ~byReg -> By(m, Types[o], Amount(w))
  IN  (IF loads THEN FetchPc(h, a1, w.rn, Here + 8) ELSE <<>>)
        \o (IF byReg THEN Fetch(h, a0, w.rs) ELSE <<>>)
        \o (IF imm THEN <<>> ELSE FetchPc(h, a0, w.rm, Here + (IF byReg THEN 12 ELSE 8)))
        \o <<Op(Generated(op, s, d, n, second))>>
        \o (IF stores THEN KeepPc(d, w.rd, s = 1) ELSE <<>>)
\* arm_generate_op_reg, arm_generate_op_imm: data_proc loads and stores, _test only
\* loads, _unary only stores.
DataProc(w, op, s, o, loads, stores) ==
  LET byReg == o \in {"LSL_REG", "LSR_REG", "ASR_REG", "ROR_REG"}
      imm   == o = "IMM_VAL"
      n     == Use(h, a1, w.rn)
      d     == Use(h, a0, w.rd)
      m     == Use(h, a0, w.rm)
      q     == Use(h, lr, w.rs)
      second == CASE imm -> Imm((16 * w.col) + w.rm, 2 * w.rs)
                  [] byReg -> ByReg(m, Types[o], q)
                  [] ~imm /\ ~byReg -> By(m, Types[o], Amount(w))
  IN  (IF loads THEN FetchPc(h, a1, w.rn, Here + 8) ELSE <<>>)
        \o (IF byReg THEN Fetch(h, lr, w.rs) ELSE <<>>)
        \o (IF imm THEN <<>> ELSE FetchPc(h, a0, w.rm, Here + (IF byReg THEN 12 ELSE 8)))
        \o <<Op(Generated(op, s, d, n, second))>>
        \o (IF stores THEN KeepPc(d, w.rd, s = 1) ELSE <<>>)

\* arm_multiply
ArmMultiply(w, c) ==
  LET add == c.op = "MLA"
      m == Use(h, a0, w.rm)
      d == Use(h, a0, w.rn)
  IN  Fetch(h, a0, w.rm) \o <<Op(MOV(0, a0, As(m))), Call("multiply_add_cycles")>> \o Fetch(h, a1, w.rs)
        \o (IF add THEN Fetch(h, a2, w.rd) ELSE <<>>)
        \o <<Op(Mul(IF add THEN 1 ELSE 0, c.s, d, m, Use(h, a1, w.rs), IF add THEN Use(h, a2, w.rd) ELSE 0))>>
        \o Keep(h, d, w.rn)
\* arm_multiply_long
LongOps == [UMULL |-> 4, UMLAL |-> 5, SMULL |-> 6, SMLAL |-> 7]
ArmMultiplyLong(w, c) ==
  LET m == Use(h, a2, w.rm)
      lo == Use(h, a0, w.rd)
      hi == Use(h, a1, w.rn)
  IN  Fetch(h, a2, w.rm) \o <<Op(MOV(0, a2, As(m))), Call("long_cycles")>> \o Fetch(h, lr, w.rs)
        \o (IF c.op \in {"UMLAL", "SMLAL"} THEN Fetch(h, a0, w.rd) \o Fetch(h, a1, w.rn) ELSE <<>>)
        \o <<Op(Long(LongOps[c.op], c.s, lo, hi, m, Use(h, lr, w.rs)))>>
        \o Keep(h, lo, w.rd) \o Keep(h, hi, w.rn)
\* arm_q_op, arm_q_mla, arm_q_mul, arm_clz
QOp(w) ==
  Fetch(h, a0, w.rm) \o Fetch(h, a1, w.rn)
    \o <<Op(Coded(w.row, Use(h, a1, w.rn), Use(h, a0, w.rd), 0, 5, Use(h, a0, w.rm)))>>
    \o Keep(h, Use(h, a0, w.rd), w.rd)
QMla(w) ==
  Fetch(h, a0, w.rm) \o Fetch(h, a1, w.rd) \o Fetch(h, a2, w.rs)
    \o <<Op(Coded(w.row, Use(h, a0, w.rn), Use(h, a1, w.rd), Use(h, a2, w.rs), w.col, Use(h, a0, w.rm)))>>
    \o Keep(h, Use(h, a0, w.rn), w.rn)
QMul(w) ==
  Fetch(h, a0, w.rm) \o Fetch(h, a1, w.rs)
    \o <<Op(Coded(w.row, Use(h, a0, w.rn), 0, Use(h, a1, w.rs), w.col, Use(h, a0, w.rm)))>>
    \o Keep(h, Use(h, a0, w.rn), w.rn)
Clz(w) ==
  LET d == Use(h, a0, w.rd) IN LoadReg(h, d, w.rm) \o <<Op(Coded(22, 15, d, 15, 1, d))>> \o Keep(h, d, w.rd)

\* arm_psr
FieldMask(fields) == UNION {8 * b .. 8 * b + 7 : b \in {b \in 0 .. 3 : Bit(fields, b) = 1}}
NewStatus(w, o) ==
  IF o = "REG" THEN LoadReg(h, a0, w.rm) ELSE <<Op(MOV(0, a0, Imm((16 * w.col) + w.rm, 2 * w.rs)))>>
Psr(w, c) ==
  CASE c.op = "MRS" /\ c.psr = "CPSR" ->
         LET d == Use(h, a0, w.rd)
         IN  LoadReg(h, d, CPSR) \o <<Op(BIC(0, d, d, Imm(240, 8))), Op(AND(0, flagsReg, flagsReg, Imm(240, 8))),
                                      Op(ORR(0, d, d, As(flagsReg)))>> \o Keep(h, d, w.rd)
    [] c.op = "MRS" /\ c.psr = "SPSR" -> <<Call("read_spsr")>> \o StoreReg(h, a0, w.rd)
    [] c.op = "MSR" /\ c.psr = "CPSR" ->
         NewStatus(w, c.o) \o LoadImm(a1, FieldMask(w.rn)) \o <<Call("store_cpsr"), Literal(Here)>>
    [] c.op = "MSR" /\ c.psr = "SPSR" -> NewStatus(w, c.o) \o <<Call("store_spsr")>>

MemTypes == [LDR |-> "u32", STR |-> "u32", LDRB |-> "u8", STRB |-> "u8", LDRH |-> "u16", STRH |-> "u16",
             LDRSB |-> "s8", LDRSH |-> "s16", LDRD |-> "u32", STRD |-> "u32"]
IsLoad(op) == op \in {"LDR", "LDRB", "LDRH", "LDRSB", "LDRSH", "LDRD"}
IsDouble(op) == op \in {"LDRD", "STRD"}
LoadCall(type, n) == <<Call("load_" \o type), Literal(n)>>
StoreCall(type, n) == <<Call("store_" \o type), Literal(n)>>
IsHalf(w) == w.row < 32
OffsetBits(w) == IF IsHalf(w) THEN (16 * w.rs) + w.rm ELSE (256 * w.rs) + (16 * w.col) + w.rm
AddSub(up, d, n, o) == Op(Dp(IF up THEN Numbers["ADD"] ELSE Numbers["SUB"], 0, d, n, o))
\* arm_access_memory_adjust_*: no more than two pieces of the offset are used.
Adjust(w, c, d, n) ==
  LET p == Pieces[Ones(OffsetBits(w))]
      m == Use(h, a1, w.rm)
  IN  CASE c.o = "IMM" -> <<AddSub(c.up, d, n, p[1])>> \o (IF Len(p) > 1 THEN <<AddSub(c.up, d, d, p[2])>> ELSE <<>>)
        [] c.o = "REG" -> <<AddSub(c.up, d, n, As(m))>>
        [] OTHER       -> <<AddSub(c.up, d, n, By(m, Types[c.o], Amount(w)))>>
\* arm_access_memory_pre, _pre_wb and _post: the address is left in a0.
Address(w, c) ==
  LET n == IF w.rn = 15 THEN a0 ELSE Use(h, a0, w.rn)
      d == Use(h, a1, w.rn)
  IN  FetchPc(h, a0, w.rn, Here + 8) \o (IF c.o = "IMM" THEN <<>> ELSE Fetch(h, a1, w.rm))
        \o CASE c.how = "off"  -> Adjust(w, c, a0, n)
             [] c.how = "pre"  -> Adjust(w, c, a0, n) \o StoreReg(h, a0, w.rn)
             [] c.how = "post" -> (IF n = a0 THEN <<>> ELSE LoadReg(h, a0, w.rn)) \o Adjust(w, c, d, n) \o Keep(h, d, w.rn)
\* generate_store_reg_pc_no_flags
StoreRegPc(i, n) == StoreReg(h, i, n) \o (IF n = 15 THEN Indirect("arm") ELSE <<>>)
\* arm_access_memory_load, _loadd, _store, _stored
Aside == <<Op(MOV(0, s0, As(a0)))>>
SecondWord == <<Op(ADD(0, a0, s0, Imm(4, 0)))>>
LoadTo(n, type) == LoadCall(type, Here + 8) \o StoreRegPc(a0, n)
Moved(n, op) ==
  CASE op = "LDRD" -> Aside \o LoadTo(n, "u32") \o SecondWord \o LoadTo(n + 1, "u32")
    [] op = "STRD" -> LoadRegPc(h, a1, n, Here + 12) \o Aside \o StoreCall("u32", Here + 4) \o SecondWord
                        \o LoadRegPc(h, a1, n + 1, Here + 12) \o StoreCall("u32", Here + 4)
    [] IsLoad(op) /\ op # "LDRD"  -> LoadTo(n, MemTypes[op])
    [] ~IsLoad(op) /\ op # "STRD" -> LoadRegPc(h, a1, n, Here + 12) \o StoreCall(MemTypes[op], Here + 4)
Access(w, c) == Address(w, c) \o Moved(w.rd, c.op)

\* arm_block_memory
RegList(w) == {n \in 0 .. 15 : Bit(w.rm + (16 * w.col) + (256 * w.rs) + (4096 * w.rd), n) = 1}
Ascending(list) == SelectSeq([i \in 1 .. 16 |-> i - 1], LAMBDA n : n \in list)
BlockStart(way, n) ==
  CASE way = "DA" -> <<AddSub(FALSE, s0, s0, Imm(4 * n - 4, 0))>> [] way = "DB" -> <<AddSub(FALSE, s0, s0, Imm(4 * n, 0))>>
    [] way = "IB" -> <<AddSub(TRUE, s0, s0, Imm(4, 0))>>          [] way = "IA" -> <<>>
BlockMemory(w, c) ==
  LET list  == Ascending(RegList(w))
      load  == c.op = "LDM"
      user  == c.user /\ ~(load /\ 15 \in RegList(w))
      at(k) == <<Op(ADD(0, a0, s0, Imm(4 * (k - 1), 0)))>>
      one(k) ==
        CASE load                    -> LoadCall("u32", Here + 8) \o StoreReg(h, a0, list[k])
          [] ~load /\ k < Len(list)  -> LoadRegPc(h, a1, list[k], Here + 8) \o <<Call("store_u32_safe")>>
          [] ~load /\ k = Len(list)  -> LoadRegPc(h, a1, list[k], Here + 12) \o StoreCall("u32", Here + 4)
  IN  LoadReg(h, s0, w.rn) \o BlockStart(c.way, Len(list))
        \o (IF c.wb /\ ~(load /\ w.rn \in RegList(w))
            THEN LoadReg(h, a0, w.rn) \o <<AddSub(c.way \in {"IA", "IB"}, a0, a0, Imm(4 * Len(list), 0))>> \o StoreReg(h, a0, w.rn)
            ELSE <<>>)
        \o <<Op(BIC(0, s0, s0, Imm(3, 0)))>>
        \o (IF user THEN <<Call("switch_user")>> ELSE <<>>)
        \o FlattenSeq([k \in DOMAIN list |-> at(k) \o one(k)])
        \o (IF c.user THEN <<Call(IF user THEN "switch_back" ELSE "execute_spsr_restore")>> ELSE <<>>)
        \o (IF load /\ 15 \in RegList(w) THEN Indirect("dual_arm") ELSE <<>>)
\* arm_swap
Swap(w, type) ==
  LoadReg(h, a0, w.rn) \o LoadCall(type, Here + 8) \o <<Op(MOV(0, s0, As(a0)))>>
    \o LoadReg(h, a0, w.rn) \o LoadReg(h, a1, w.rm) \o StoreCall(type, Here + 4) \o StoreReg(h, s0, w.rd)

\* arm_branch_target: a branch on NV also takes its link bit as half a word, and
\* goes to Thumb code.
Offset24(w) ==
  LET n == ((w.row % 16) * 2^20) + (w.rn * 2^16) + (w.rd * 4096) + (w.rs * 256) + (w.col * 16) + w.rm
  IN  IF w.row % 16 > 7 THEN n - 2^24 ELSE n
ArmTarget(w, nv) == Here + 8 + (4 * Offset24(w)) + (IF nv THEN 1 + 2 * ((w.row \div 16) % 2) ELSE 0)
SetLink == LoadPc(a0, Here + 4) \o StoreReg(h, a0, 14)
Ways(w, op, nv) ==
  CASE op = "B"       -> Branch(ArmTarget(w, nv))
    [] op = "BL"      -> SetLink \o Branch(ArmTarget(w, nv))
    [] op = "BX"      -> LoadReg(h, a0, w.rm) \o Indirect("dual_arm")
    [] op = "BLX_IMM" -> SetLink \o <<Call("to_thumb_handler")>> \o Branch(ArmTarget(w, nv))
    [] op = "BLX_REG" -> SetLink \o LoadReg(h, a0, w.rm) \o Indirect("dual_arm")
\* arm_mcr_emit, arm_mrc_emit, arm_swi
CallOut(f, counts) == (IF counts THEN CycleUpdate(Spent) ELSE <<>>) \o <<Call(f), Literal(Here + 4)>>
Others(w, op, nv) ==
  CASE op \in {"B", "BL", "BX", "BLX_IMM", "BLX_REG"} -> Ways(w, op, nv)
    [] op \in {"QADD", "QSUB", "QDADD", "QDSUB"} -> QOp(w)
    [] op = "CLZ"  -> Clz(w)
    [] op = "SWP"  -> Swap(w, "u32")
    [] op = "SWPB" -> Swap(w, "u8")
    [] op = "SWI"  -> CallOut("swi", TRUE)

\* translate_arm_instruction
ArmEmitted(w, c, nv) ==
  CASE c.k = "data" -> DataProc(w, c.op, c.s, c.o, c.op \notin {"MOV", "MVN"}, TRUE)
    [] c.k = "test" -> DataProc(w, c.op, 1, c.o, TRUE, FALSE)
    [] c.k = "mul" /\ c.op \in {"MUL", "MLA"}    -> ArmMultiply(w, c)
    [] c.k = "mul" /\ c.op \notin {"MUL", "MLA"} -> ArmMultiplyLong(w, c)
    [] c.k = "signed" /\ c.op = "SMUL"           -> QMul(w)
    [] c.k = "signed" /\ c.op # "SMUL"           -> QMla(w)
    [] c.k = "status"      -> Psr(w, c)
    [] c.k = "transfer"    -> Access(w, c)
    [] c.k = "block"       -> BlockMemory(w, c)
    [] c.k = "other"       -> Others(w, c.op, nv)
    [] c.k = "coprocessor" -> CallOut(IF c.op = "MCR" THEN "mcr" ELSE "mrc", c.op = "MCR")
----------------------------------------------------------------------------
(* Thumb instructions.  t stands for thumb_register_allocation. *)
t == ThumbHomes
There == Here + 2
Word8(w, low) == ((w % 4) * 64) + low
Low3(low) == low % 8
Mid3(low) == low \div 8
HighRd(w, low) == (((w \div 2) % 2) * 8) + (low % 8)
HighRs(w, low) == ((w % 2) * 8) + (low \div 8)

\* thumb_data_proc, _test and _unary by a register or a constant: the base is loaded
\* once more, into the register that is its own already or that no one reads.
ThumbReg(name, rd, rs, rn) ==
  LET n == Use(t, a1, rs)
      d == Use(t, a0, rd)
      m == As(Use(t, a0, rn))
  IN  Fetch(t, a1, rs) \o LoadReg(t, a1, rs) \o Fetch(t, a0, rn)
        \o <<Op(IF name = "MUL" THEN Mul(0, 1, d, n, m.rm, 0) ELSE Generated(name, 1, d, n, m))>> \o Keep(t, d, rd)
ThumbImm(name, rd, rs, imm) ==
  LET d == Use(t, a0, rd)
  IN  Fetch(t, a1, rs) \o LoadReg(t, a1, rs) \o <<Op(Generated(name, 1, d, Use(t, a1, rs), Imm(imm, 0)))>> \o Keep(t, d, rd)
ThumbTest(name, rd, rs) ==
  Fetch(t, a1, rd) \o Fetch(t, a0, rs) \o <<Op(Generated(name, 1, 0, Use(t, a1, rd), As(Use(t, a0, rs))))>>
ThumbUnary(name, rd, rs) ==
  LET d == Use(t, a0, rd)
      m == As(Use(t, a0, rs))
  IN  Fetch(t, a0, rs)
        \o (IF name = "NEG" THEN <<Op(MOV(0, a1, Imm(0, 0))), Op(SUB(1, d, a1, m))>> ELSE <<Op(MVN(1, d, m))>>)
        \o Keep(t, d, rd)
\* thumb_shift
ThumbShiftReg(type, rd, rs) ==
  LET d == Use(t, a0, rd)
  IN  Fetch(t, a0, rd) \o Fetch(t, lr, rs) \o <<Op(MOV(1, d, ByReg(d, type, Use(t, lr, rs))))>> \o Keep(t, d, rd)
ThumbShiftImm(type, rd, rs, n) ==
  LET d == Use(t, a0, rd) IN Fetch(t, lr, rs) \o <<Op(MOV(1, d, By(Use(t, lr, rs), type, n)))>> \o Keep(t, d, rd)
\* thumb_data_proc_hi, _test_hi, _mov_hi; complete_store_reg_pc_thumb
KeepThumbPc(i, n) == IF n = 15 THEN Indirect("thumb") ELSE Keep(t, i, n)
UsePc(i, n) == IF n = 15 THEN i ELSE Use(t, i, n)
ThumbHigh(name, rd, rs) ==
  LET d == IF name = "MOV" THEN Use(t, a0, rd) ELSE UsePc(a0, rd)
      m == As(UsePc(a1, rs))
  IN  (IF name = "MOV" THEN <<>> ELSE FetchPc(t, a0, rd, There + 4)) \o FetchPc(t, a1, rs, There + 4)
        \o <<Op(Generated(name, IF name = "CMP" THEN 1 ELSE 0, d, d, m))>>
        \o (IF name = "CMP" THEN <<>> ELSE KeepThumbPc(d, rd))
\* thumb_load_pc, thumb_load_sp, thumb_adjust_sp
PcBase == (There - (IF There % 4 > 1 THEN 2 ELSE 0)) + 4
ThumbLoadPc(rd, imm) == LET d == Use(t, a0, rd) IN LoadPc(d, PcBase + (4 * imm)) \o Keep(t, d, rd)
ThumbLoadSp(rd, imm) ==
  LET d == Use(t, a0, rd) IN Fetch(t, a0, 13) \o <<Op(ADD(0, d, Use(t, a0, 13), Imm(imm, 30)))>> \o Keep(t, d, rd)
ThumbAdjustSp(up, imm) ==
  LET sp == Use(t, a0, 13) IN Fetch(t, a0, 13) \o <<AddSub(up, sp, sp, Imm(imm, 30))>> \o Keep(t, sp, 13)

\* thumb_access_memory
ThumbMove(load, type, rd) ==
  IF load THEN LoadCall(type, There + 4) \o StoreReg(t, a0, rd)
  ELSE LoadReg(t, a1, rd) \o StoreCall(type, There + 2)
ThumbAddressImm(rb, o) == Fetch(t, a0, rb) \o <<Op(ADD(0, a0, Use(t, a0, rb), o))>>
ThumbAddressReg(rb, ro) ==
  Fetch(t, a0, rb) \o Fetch(t, a1, ro) \o <<Op(ADD(0, a0, Use(t, a0, rb), As(Use(t, a1, ro))))>>

\* thumb_block_memory.  extra is the register beside the list, of which PUSH_LR stores
\* LR and POP_PC loads the pc.
ThumbBlock(load, down, b, low8, extra) ==
  LET list  == Ascending({n \in 0 .. 7 : Bit(low8, n) = 1})
      size  == 4 * (Len(list) + (IF extra THEN 1 ELSE 0))
      at(k) == <<Op(ADD(0, a0, s0, Imm(4 * (k - 1), 0)))>>
      one(k) ==
        CASE load -> LoadCall("u32", There + 4) \o StoreReg(t, a0, list[k])
          [] ~load /\ (k < Len(list) \/ extra)  -> LoadReg(t, a1, list[k]) \o <<Call("store_u32_safe")>>
          [] ~load /\ k = Len(list) /\ ~extra   -> LoadReg(t, a1, list[k]) \o StoreCall("u32", There + 2)
  IN  LoadReg(t, s0, b) \o <<Op(BIC(0, s0, s0, Imm(3, 0)))>>
        \o (IF down THEN <<Op(SUB(0, s0, s0, Imm(size, 0)))>> \o StoreReg(t, s0, b)
            ELSE <<Op(ADD(0, a0, s0, Imm(size, 0)))>> \o StoreReg(t, a0, b))
        \o FlattenSeq([k \in DOMAIN list |-> at(k) \o one(k)])
        \o CASE extra /\ load  -> at(Len(list) + 1) \o LoadCall("u32", There + 4) \o Indirect("dual_thumb")
             [] extra /\ ~load -> at(Len(list) + 1) \o LoadReg(t, a1, 14) \o <<Call("store_u32_safe")>>
             [] ~extra         -> <<>>

\* thumb_branch_target; the two halves of a long branch are taken together.
SignOf(n, bits) == IF n >= 2^(bits - 1) THEN n - 2^bits ELSE n
Low11(w, low) == ((w % 32) * 64) + low
WayTarget(w, low, prev) ==
  LET long == There + 2 + (4096 * SignOf(prev, 11)) + (2 * Low11(w, low))
  IN  CASE w < 896           -> There + 4 + (2 * SignOf(Word8(w, low), 8))
        [] In(w, 896, 927)   -> There + 4 + (2 * SignOf(Low11(w, low), 11))
        [] In(w, 928, 959)   -> (long - (long % 4)) + 1
        [] In(w, 992, 1023)  -> long
ThumbLink == LoadPc(a0, There + 3) \o StoreReg(t, a0, 14)
\* thumb_b, thumb_bl, thumb_blx_imm, thumb_blh, thumb_bx, thumb_blx_reg
ThumbWays(op, w, low, prev) ==
  CASE op = "B"     -> Branch(WayTarget(w, low, prev))
    [] op = "BL_11" -> ThumbLink \o Branch(WayTarget(w, low, prev))
    [] op = "BLX"   -> ThumbLink \o <<Call("to_arm_handler")>> \o Branch(WayTarget(w, low, prev))
    [] op = "BLH"   -> LoadPc(a0, There + 3) \o LoadReg(t, a1, 14) \o StoreReg(t, a0, 14)
                         \o <<Op(MOV(0, a0, As(a1))), Op(ADD(0, a0, a0, Imm(2 * Low11(w, low), 0)))>> \o Indirect("thumb")
    [] op = "BX_THUMB"  -> LoadRegPc(t, a0, HighRs(w, low), There + 4) \o Indirect("dual_thumb")
    [] op = "BLX_THUMB" -> ThumbLink \o LoadRegPc(t, a0, HighRs(w, low), There + 2) \o Indirect("dual_thumb")

ThumbShifts == [LSL |-> LSL, LSR |-> LSR, ASR |-> ASR, LSL_REG |-> LSL, LSR_REG |-> LSR, ASR_REG |-> ASR, ROR_REG |-> ROR]
ThumbAlu(op, rd, rs) ==
  CASE op \in {"LSL_REG", "LSR_REG", "ASR_REG", "ROR_REG"} -> ThumbShiftReg(ThumbShifts[op], rd, rs)
    [] op \in {"TST", "CMP", "CMN"} -> ThumbTest(op, rd, rs)
    [] op \in {"NEG", "MVN"}        -> ThumbUnary(op, rd, rs)
    [] op = "MUL_REG"               -> ThumbReg("MUL", rd, rd, rs)
    [] op = "ADC_REG"               -> ThumbReg("ADC", rd, rd, rs)
    [] op = "SBC_REG"               -> ThumbReg("SBC", rd, rd, rs)
    [] op \in {"AND", "EOR", "ORR", "BIC"} -> ThumbReg(op, rd, rd, rs)
ThumbImmediates(op, r, imm) ==
  CASE op = "MOV_IMM8" -> <<Op(MOV(1, Use(t, a0, r), Imm(imm, 0)))>> \o Keep(t, Use(t, a0, r), r)
    [] op = "CMP_IMM8" -> Fetch(t, a1, r) \o <<Op(CMP(Use(t, a1, r), Imm(imm, 0)))>>
    [] op = "ADD_IMM8" -> ThumbImm("ADD", r, r, imm)
    [] op = "SUB_IMM8" -> ThumbImm("SUB", r, r, imm)
ThumbAccesses(op, w, low) ==
  LET rd == Low3(low) rb == Mid3(low) ro == w % 8 imm5 == w % 32
      load == op \in {"LDR_REG_OFF", "LDRH_REG_OFF", "LDRB_REG_OFF", "LDRSB_REG_OFF", "LDRSH_REG_OFF",
                      "LDR_IMM_OFF", "LDRB_IMM_OFF", "LDRH_IMM_OFF"}
      type == CASE op \in {"LDR_REG_OFF", "STR_REG_OFF", "LDR_IMM_OFF", "STR_IMM_OFF"} -> "u32"
                [] op \in {"LDRH_REG_OFF", "STRH_REG_OFF", "LDRH_IMM_OFF", "STRH_IMM_OFF"} -> "u16"
                [] op \in {"LDRB_REG_OFF", "STRB_REG_OFF", "LDRB_IMM_OFF", "STRB_IMM_OFF"} -> "u8"
                [] op = "LDRSB_REG_OFF" -> "s8"
                [] op = "LDRSH_REG_OFF" -> "s16"
      size == CASE type = "u32" -> 4 [] type = "u16" -> 2 [] OTHER -> 1
  IN  (IF w < 384 THEN ThumbAddressReg(rb, ro) ELSE ThumbAddressImm(rb, Imm(size * imm5, 0))) \o ThumbMove(load, type, rd)
ThumbStack(op, r, w, low) ==
  LET imm == Word8(w, low)
  IN  CASE op = "LDR_PCREL"   -> LoadPc(a0, PcBase + (4 * imm)) \o ThumbMove(TRUE, "u32", r)
        [] op = "STR_SPREL"   -> ThumbAddressImm(13, Imm(imm, 30)) \o ThumbMove(FALSE, "u32", r)
        [] op = "LDR_SPREL"   -> ThumbAddressImm(13, Imm(imm, 30)) \o ThumbMove(TRUE, "u32", r)
        [] op = "ADD_2PC"     -> ThumbLoadPc(r, imm)
        [] op = "ADD_2SP"     -> ThumbLoadSp(r, imm)
        [] op = "ADJUST_P_SP" -> ThumbAdjustSp(TRUE, imm % 128)
        [] op = "ADJUST_M_SP" -> ThumbAdjustSp(FALSE, imm % 128)
        [] op \in {"PUSH", "PUSH_LR"} -> ThumbBlock(FALSE, TRUE, 13, imm, op = "PUSH_LR")
        [] op \in {"POP", "POP_PC"}   -> ThumbBlock(TRUE, FALSE, 13, imm, op = "POP_PC")
        [] op = "STMIA_THUMB" -> ThumbBlock(FALSE, FALSE, r, imm, FALSE)
        [] op = "LDMIA_THUMB" -> ThumbBlock(TRUE, FALSE, r, imm, FALSE)

\* translate_thumb_instruction; prev is -1 without a first half in front.
ThumbEmitted(w, low, prev, c) ==
  LET rd == Low3(low) rs == Mid3(low)
  IN  CASE c.op \in {"LSL", "LSR", "ASR"} -> ThumbShiftImm(ThumbShifts[c.op], rd, rs, w % 32)
        [] c.op = "ADD_REG"  -> ThumbReg("ADD", rd, rs, w % 8)
        [] c.op = "SUB_REG"  -> ThumbReg("SUB", rd, rs, w % 8)
        [] c.op = "ADD_IMM3" -> ThumbImm("ADD", rd, rs, w % 8)
        [] c.op = "SUB_IMM3" -> ThumbImm("SUB", rd, rs, w % 8)
        [] c.op \in {"MOV_IMM8", "CMP_IMM8", "ADD_IMM8", "SUB_IMM8"} -> ThumbImmediates(c.op, c.r, Word8(w, low))
        [] In(w, 256, 271)   -> ThumbAlu(c.op, rd, rs)
        [] In(w, 272, 283)   -> ThumbHigh([ADD_SPE |-> "ADD", CMP_SPE |-> "CMP", MOV_SPE |-> "MOV"][c.op], HighRd(w, low), HighRs(w, low))
        [] In(w, 320, 575)   -> ThumbAccesses(c.op, w, low)
        [] In(w, 288, 319) \/ In(w, 576, 831) -> ThumbStack(c.op, c.r, w, low)
        [] c.op \in {"B", "BL_11", "BLX", "BLH", "BX_THUMB", "BLX_THUMB"} -> ThumbWays(c.op, w, low, prev)
        [] c.op = "SWI_THUMB" -> CycleUpdate(Spent) \o <<Call("swi"), Literal(There + 2)>>
=============================================================================
