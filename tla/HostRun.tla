------------------------------ MODULE HostRun ------------------------------
(***************************************************************************)
(* The machine that runs what EmittedCode puts down for one instruction,   *)
(* the meaning of that instruction, and whether they agree: run from a     *)
(* block in which every guest register is where its home says, the code    *)
(* leaves the guest's registers, flags and accesses as the instruction of  *)
(* the interpreter does, keeps the cycle counter and the base register,    *)
(* and goes where the instruction goes.                                    *)
(***************************************************************************)
EXTENDS EmittedCode

\* What a host instruction does to the registers it names, read off the table that the
\* interpreter looks guest instructions up in.  Values are terms over what the registers
\* held before: a register, a constant (the set of its bits that are one), a register and
\* a distance, or an operation and its operands.  Two pieces of code that leave the same
\* terms in the same places do the same for all contents.
R(n) == <<"r", n>>
K(bits) == <<"k", bits>>
Rotated(imm, rot) == {(k + 32 - rot) % 32 : k \in Ones(imm)}

Plus(x, n) ==
  CASE n = 0        -> x
    [] x[1] = "sum" /\ n # 0 -> IF x[3] + n = 0 THEN x[2] ELSE <<"sum", x[2], x[3] + n>>
    [] x[1] = "k" /\ n # 0   -> K(Ones(Number(x[2]) + n))
    [] x[1] \notin {"sum", "k"} /\ n # 0 -> <<"sum", x, n>>
\* Multiples of four away from what is aligned stays aligned.
RECURSIVE Aligned(_)
Aligned(x) ==
  CASE x[1] = "aligned" -> x
    [] x[1] = "sum" /\ x[3] % 4 = 0 -> Plus(Aligned(x[2]), x[3])
    [] x[1] = "sum" /\ x[3] % 4 # 0 -> <<"aligned", x>>
    [] x[1] \notin {"aligned", "sum"} -> <<"aligned", x>>
Small(y) == y[1] = "k" /\ y[2] \subseteq 0 .. 15

\* What an operation makes of its operands and the flags.
Made(op, x, y, f) ==
  CASE op = "MOV" -> y
    [] op = "MVN" -> IF y[1] = "k" THEN K((0 .. 31) \ y[2]) ELSE <<"MVN", y>>
    [] op = "ORR" /\ x[1] = "k" /\ y[1] = "k" -> K(x[2] \cup y[2])
    [] op = "ADD" /\ Small(y) -> Plus(x, Number(y[2]))
    [] op = "SUB" /\ Small(y) -> Plus(x, -Number(y[2]))
    [] op = "BIC" /\ y = K({0, 1}) -> Aligned(x)
    [] op = "RSB" -> <<"SUB", y, x>>
    [] op \in {"ADC", "SBC", "RSC"} -> <<op, x, y, f>>
    [] OTHER -> <<op, x, y>>
\* The flags also depend on whether a constant was rotated.
FlagsOf(op, x, y, rotated, f) ==
  IF op = "RSB" THEN <<"flags", "SUB", y, x, rotated, f>> ELSE <<"flags", op, x, y, rotated, f>>

Second(w, o, r, f) ==
  CASE o = "IMM_VAL" -> K(Rotated((16 * w.col) + w.rm, 2 * w.rs))
    [] o = "LSL_IMM" /\ Amount(w) = 0 -> r[w.rm]
    [] o = "ROR_IMM" /\ Amount(w) = 0 -> <<"RRX", r[w.rm], f>>
    [] o \in {"LSR_IMM", "ASR_IMM"} \/ (o \in {"LSL_IMM", "ROR_IMM"} /\ Amount(w) > 0) ->
         <<o, r[w.rm], Amount(w)>>
    [] OTHER -> <<o, r[w.rm], r[w.rs]>>

Writes1(reg, x) == [n \in {reg} |-> x]
Writes2(lo, hi, op) == [n \in {lo, hi} |-> IF n = hi THEN <<"high", op>> ELSE <<"low", op>>]
Does(sets, f) == [sets |-> sets, f |-> f]

\* A word of computation, in registers r on flags f: what it sets.
Data1(w, c, r, f) ==
  LET x == IF c.op \in {"MOV", "MVN"} THEN <<"none">> ELSE r[w.rn]
      y == Second(w, c.o, r, f)
  IN  Does(IF c.k = "test" THEN <<>> ELSE Writes1(w.rd, Made(c.op, x, y, f)),
           IF c.k = "test" \/ c.s = 1 THEN FlagsOf(c.op, x, y, c.o = "IMM_VAL" /\ w.rs > 0, f) ELSE f)
Product(w, c, r, f) ==
  LET x == CASE c.op = "MUL" -> <<c.op, r[w.rm], r[w.rs]>>
             [] c.op = "MLA" -> <<c.op, r[w.rm], r[w.rs], r[w.rd]>>
             [] c.op \in {"UMULL", "SMULL"} -> <<c.op, r[w.rm], r[w.rs]>>
             [] OTHER -> <<c.op, r[w.rm], r[w.rs], r[w.rd], r[w.rn]>>
  IN  Does(IF c.op \in {"MUL", "MLA"} THEN Writes1(w.rn, x) ELSE Writes2(w.rd, w.rn, x),
           IF c.s = 1 THEN <<"flags", x, f>> ELSE f)
Halfwords(w, c, r, f) ==
  LET p == <<c.op, c.x, c.y, r[w.rm], r[w.rs]>>
  IN  CASE c.op \in {"SMUL", "SMULW"} -> Does(Writes1(w.rn, p), f)
        [] c.op \in {"SMLA", "SMLAW"} -> Does(Writes1(w.rn, p \o <<r[w.rd]>>), <<"saturated", p, r[w.rd], f>>)
        [] c.op = "SMLAL" -> Does(Writes2(w.rd, w.rn, p \o <<r[w.rd], r[w.rn]>>), f)
Saturated(w, c, r, f) ==
  LET x == <<c.op, r[w.rm], r[w.rn]>> IN Does(Writes1(w.rd, x), <<"saturated", x, f>>)
Computes(c) ==
  c.k \in {"data", "test", "mul", "signed"} \/ (c.k = "other" /\ c.op \in {"CLZ", "QADD", "QSUB", "QDADD", "QDSUB"})
Effect(w, r, f) ==
  LET c == ArmTable(w.row, w.col)
  IN  CASE c.k \in {"data", "test"} -> Data1(w, c, r, f)
        [] c.k = "mul"              -> Product(w, c, r, f)
        [] c.k = "signed"           -> Halfwords(w, c, r, f)
        [] c = Other("CLZ")         -> Does(Writes1(w.rd, <<"CLZ", r[w.rm]>>), f)
        [] c.k = "other" /\ c.op # "CLZ" -> Saturated(w, c, r, f)
----------------------------------------------------------------------------
Guest(n) == <<"guest", n>>
Flags == <<"flags of the guest">>
Junk(n) == <<"junk", n>>
BankOf(n) == <<"user", n>>
Homes(thumb) == IF thumb THEN ThumbHomes ELSE ArmHomes
\* Many registers at once.
Updated(f, g) == [n \in DOMAIN f |-> IF n \in DOMAIN g THEN g[n] ELSE f[n]]

\* The guest registers g where the homes have them; the rest is of no use.
Homed(thumb) == {n \in 0 .. 16 : Homes(thumb)[n] # Memory}
HomeOf(thumb, k) == CHOOSE n \in Homed(thumb) : Homes(thumb)[n] = k
Fill(r, file, thumb) ==
  [k \in DOMAIN r |-> IF \E n \in Homed(thumb) : Homes(thumb)[n] = k THEN file[HomeOf(thumb, k)] ELSE r[k]]
Spill(r, file, thumb) == [n \in DOMAIN file |-> IF n \in Homed(thumb) THEN r[Homes(thumb)[n]] ELSE file[n]]
Stale(file, thumb) == [n \in DOMAIN file |-> IF n \in Homed(thumb) THEN Junk(n) ELSE file[n]]
Fixed == [k \in 0 .. 15 |-> IF k = flagsReg THEN Flags ELSE IF k \in {cyclesReg, base} THEN R(k) ELSE Junk(k)]
Machine(g, thumb) ==
  LET file == [n \in 0 .. 16 |-> IF n \in 0 .. 14 THEN g[n] ELSE Junk(n)]
  IN  [r |-> Fill(Fixed, file, thumb), file |-> Stale(file, thumb), bank |-> [n \in 8 .. 14 |-> BankOf(n)],
       f |-> Flags, log |-> <<>>, out |-> <<>>, skip |-> 0, thumb |-> thumb]

Broken(m) == [m EXCEPT !.out = <<"broken">>]
Spoil(m, ks) == [m EXCEPT !.r = Updated(@, [k \in ks |-> Junk(k)])]
Logs(m, x) == [m EXCEPT !.log = Append(@, x)]
Skips(m) == [m EXCEPT !.skip = 1]

\* A word of the code: the file behind SP, the jump over what follows, or arithmetic.
Runs(m, w, running) ==
  LET e == Effect(w, m.r, m.f)
  IN  CASE w.row = 89 /\ w.rn = base /\ m.r[base] = R(base) ->
             [m EXCEPT !.r[w.rd] = m.file[(OffsetBits(w) - 1024) \div 4]]
        [] w.row = 88 /\ w.rn = base /\ m.r[base] = R(base) ->
             [m EXCEPT !.file[(OffsetBits(w) - 1024) \div 4] = m.r[w.rd]]
        [] w.row < 64 /\ w.rd = 15 ->
             IF w = ADD(0, 15, 15, By(a0, LSL, 2)) /\ m.r[a0] = <<"LSR_IMM", m.r[cyclesReg], 31>>
             THEN [m EXCEPT !.skip = 1 + running] ELSE Broken(m)
        [] w.row < 64 /\ w.rd # 15 -> [m EXCEPT !.r = Updated(@, e.sets), !.f = e.f]
        [] OTHER -> Broken(m)

\* What the stubs do.  An access takes its address from r0 and what is stored from
\* r1, a value that is loaded comes back in r0.  next is the word behind the call,
\* resume the address at which the guest goes on.
Store(m, type) == Spoil(Logs(m, <<"store", type, m.r[a0], m.r[a1]>>), {0, 1, 2, 14})
Load(m, type) ==
  LET n == Spoil(Logs(m, <<"load", type, m.r[a0]>>), {1, 2, 14})
  IN  [n EXCEPT !.r[a0] = <<"loaded", type, m.r[a0], Len(m.log)>>]
Exchange(file, bank) == [n \in DOMAIN file |-> IF n \in DOMAIN bank THEN bank[n] ELSE file[n]]
SwitchBank(m) ==
  LET file == Spill(m.r, m.file, m.thumb)
      new  == Exchange(file, m.bank)
  IN  Spoil([m EXCEPT !.r = Fill(@, new, m.thumb), !.file = Stale(new, m.thumb), !.bank = [n \in DOMAIN @ |-> file[n]]],
            {0, 1, 2, 14})
Handover(m) ==
  LET file == Spill(m.r, m.file, m.thumb)
  IN  Spoil([m EXCEPT !.r = Fill(@, file, ~m.thumb), !.file = Stale(file, ~m.thumb), !.thumb = ~@], {0, 1, 2, 14})
LoadCalls == {"load_u8", "load_u16", "load_u32", "load_s8", "load_s16"}
StoreCalls == {"store_u8", "store_u16", "store_u32"}
TypeOf(f) ==
  CASE f \in {"load_u8", "store_u8"} -> "u8" [] f \in {"load_u16", "store_u16"} -> "u16" [] f = "load_s8" -> "s8"
    [] f = "load_s16" -> "s16" [] f \in {"load_u32", "store_u32", "store_u32_safe"} -> "u32"
Calls(m, f, next, before, resume) ==
  LET literal == next.k = "literal"
      here    == literal /\ next.n = resume
  IN  CASE f \in LoadCalls /\ literal -> Skips(Load(m, TypeOf(f)))
        [] f \in StoreCalls /\ here   -> Skips(Store(m, TypeOf(f)))
        [] f = "store_u32_safe"       -> Store(m, "u32")
        [] f \in {"swi", "mcr", "mrc"} /\ here -> Skips(Spoil(Logs(m, <<f>>), {0, 1, 2, 14}))
        [] f = "store_cpsr" /\ literal -> Skips(Spoil(Logs(m, <<"cpsr", m.r[a0], m.r[a1]>>), {0, 1, 2, 14}))
        [] f = "store_spsr"  -> Spoil(Logs(m, <<"spsr", m.r[a0]>>), {0, 1, 2, 14})
        [] f = "read_spsr"   -> [Spoil(m, {1, 2, 14}) EXCEPT !.r[a0] = <<"spsr">>]
        [] f = "multiply_add_cycles" -> Spoil(m, {a2, lr})
        [] f = "long_cycles" -> Spoil(m, {a1, lr})
        [] f \in {"switch_user", "switch_back"} -> SwitchBank(m)
        [] f = "to_thumb_handler" /\ ~m.thumb -> Handover(m)
        [] f = "to_arm_handler" /\ m.thumb -> Handover(m)
        [] f = "update" /\ before.k = "literal" -> Spoil(Logs(m, <<"time over", before.n>>), {0, 1, 2, 14})
        [] f = "execute_spsr_restore" -> [m EXCEPT !.out = <<"return", m.r[a0]>>]
        [] OTHER -> Broken(m)
Leaves(m, type) ==
  IF (type \in {"thumb", "dual_thumb"}) # m.thumb THEN Broken(m)
  ELSE [m EXCEPT !.out = <<IF type \in {"dual_arm", "dual_thumb"} THEN "dual" ELSE type, m.r[a0]>>]

\* running: 1 while the counter is below zero
After(code, m0, running, resume) ==
  LET step(m, i) ==
        LET x == code[i]
            next   == IF i < Len(code) THEN code[i + 1] ELSE [k |-> "end"]
            before == IF i > 1 THEN code[i - 1] ELSE [k |-> "end"]
        IN  CASE m.out # <<>> -> m
              [] m.out = <<>> /\ m.skip > 0 -> [m EXCEPT !.skip = @ - 1]
              [] m.out = <<>> /\ m.skip = 0 ->
                   CASE x.k = "op" -> Runs(m, x.w, running)
                     [] x.k = "call" -> Calls(m, x.f, next, before, resume)
                     [] x.k = "leave" -> Leaves(m, x.type)
                     [] x.k = "link" -> [m EXCEPT !.out = <<"link", x.n>>]
                     [] x.k = "literal" -> Broken(m)
  IN  FoldLeftDomain(step, m0, code)
\* What the guest sees of it.
Seen(m) ==
  LET file == Spill(m.r, m.file, m.thumb)
  IN  [g |-> [n \in 0 .. 14 |-> file[n]], bank |-> m.bank, f |-> m.f, log |-> m.log, out |-> m.out, thumb |-> m.thumb]
\* The base of the file is kept, and a way out has counted the cycles.
Kept(m) ==
  /\ m.r[base] = R(base)
  /\ m.r[cyclesReg] \in {R(cyclesReg), Plus(R(cyclesReg), Spent)}
  /\ m.out # <<>> => m.r[cyclesReg] = Plus(R(cyclesReg), Spent)
---------------------------------------------------------------------------
\* What a Thumb word does, as the ARM word that does the same.
ListWord(row, rn, bits) == Coded(row, rn, bits \div 4096, (bits \div 256) % 16, (bits \div 16) % 16, bits % 16)
RegisterRows ==
  [STR_REG_OFF |-> <<120, 0>>, LDR_REG_OFF |-> <<121, 0>>, STRB_REG_OFF |-> <<124, 0>>, LDRB_REG_OFF |-> <<125, 0>>,
   STRH_REG_OFF |-> <<24, 11>>, LDRH_REG_OFF |-> <<25, 11>>, LDRSB_REG_OFF |-> <<25, 13>>, LDRSH_REG_OFF |-> <<25, 15>>]
WordAt(row, rd, rn, n) == Coded(row, rn, rd, n \div 256, (n \div 16) % 16, n % 16)
HalfAt(row, rd, rn, n) == Coded(row, rn, rd, n \div 16, 11, n % 16)
AsShift(op, rd, rs, n) == MOV(1, rd, By(rs, ThumbShifts[op], n))
AsAlu(op, rd, rs) ==
  CASE op \in {"LSL_REG", "LSR_REG", "ASR_REG", "ROR_REG"} -> MOV(1, rd, ByReg(rd, ThumbShifts[op], rs))
    [] op \in {"TST", "CMP", "CMN"}        -> Dp(Numbers[op], 1, 0, rd, As(rs))
    [] op \in {"AND", "EOR", "ORR", "BIC"} -> Dp(Numbers[op], 1, rd, rd, As(rs))
    [] op = "ADC_REG" -> ADC(1, rd, rd, As(rs))
    [] op = "SBC_REG" -> SBC(1, rd, rd, As(rs))
    [] op = "NEG"     -> RSB(1, rd, rs, Imm(0, 0))
    [] op = "MUL_REG" -> Mul(0, 1, rd, rd, rs, 0)
    [] op = "MVN"     -> MVN(1, rd, As(rs))
AsMove(op, w, low) ==
  LET rd == Low3(low) rb == Mid3(low) ro == w % 8 n == w % 32
  IN  CASE w < 384 -> Coded(RegisterRows[op][1], rb, rd, 0, RegisterRows[op][2], ro)
        [] op = "STR_IMM_OFF"  -> WordAt(88, rd, rb, 4 * n)  [] op = "LDR_IMM_OFF"  -> WordAt(89, rd, rb, 4 * n)
        [] op = "STRB_IMM_OFF" -> WordAt(92, rd, rb, n)      [] op = "LDRB_IMM_OFF" -> WordAt(93, rd, rb, n)
        [] op = "STRH_IMM_OFF" -> HalfAt(28, rd, rb, 2 * n)  [] op = "LDRH_IMM_OFF" -> HalfAt(29, rd, rb, 2 * n)
AsStack(op, r, imm) ==
  CASE op = "LDR_PCREL"   -> WordAt(89, r, 15, 4 * imm)
    [] op = "STR_SPREL"   -> WordAt(88, r, 13, 4 * imm)
    [] op = "LDR_SPREL"   -> WordAt(89, r, 13, 4 * imm)
    [] op = "ADD_2PC"     -> ADD(0, r, 15, Imm(imm, 30))
    [] op = "ADD_2SP"     -> ADD(0, r, 13, Imm(imm, 30))
    [] op = "ADJUST_P_SP" -> ADD(0, 13, 13, Imm(imm % 128, 30))
    [] op = "ADJUST_M_SP" -> SUB(0, 13, 13, Imm(imm % 128, 30))
    [] op = "PUSH"        -> ListWord(146, 13, imm)
    [] op = "PUSH_LR"     -> ListWord(146, 13, 16384 + imm)
    [] op = "POP"         -> ListWord(139, 13, imm)
    [] op = "POP_PC"      -> ListWord(139, 13, 32768 + imm)
    [] op = "STMIA_THUMB" -> ListWord(138, r, imm)
    [] op = "LDMIA_THUMB" -> ListWord(139, r, imm)
ThumbAs(w, low) ==
  LET c == ThumbTable(w)
      rd == Low3(low) rs == Mid3(low) imm == Word8(w, low)
  IN  CASE w < 96 -> AsShift([LSL_0 |-> "LSL", LSL |-> "LSL", LSR_0 |-> "LSR", LSR |-> "LSR", ASR_0 |-> "ASR", ASR |-> "ASR"][c.op],
                             rd, rs, w % 32)
        [] c.op = "ADD_REG"  -> ADD(1, rd, rs, As(w % 8))
        [] c.op = "SUB_REG"  -> SUB(1, rd, rs, As(w % 8))
        [] c.op = "ADD_IMM3" -> ADD(1, rd, rs, Imm(w % 8, 0))
        [] c.op = "SUB_IMM3" -> SUB(1, rd, rs, Imm(w % 8, 0))
        [] c.op = "MOV_IMM8" -> MOV(1, c.r, Imm(imm, 0))
        [] c.op = "CMP_IMM8" -> CMP(c.r, Imm(imm, 0))
        [] c.op = "ADD_IMM8" -> ADD(1, c.r, c.r, Imm(imm, 0))
        [] c.op = "SUB_IMM8" -> SUB(1, c.r, c.r, Imm(imm, 0))
        [] In(w, 256, 271)   -> AsAlu(c.op, rd, rs)
        [] c.op = "ADD_SPE"  -> ADD(0, HighRd(w, low), HighRd(w, low), As(HighRs(w, low)))
        [] c.op = "CMP_SPE"  -> CMP(HighRd(w, low), As(HighRs(w, low)))
        [] c.op = "MOV_SPE"  -> MOV(0, HighRd(w, low), As(HighRs(w, low)))
        [] In(w, 320, 575)   -> AsMove(c.op, w, low)
        [] In(w, 288, 319) \/ In(w, 576, 831) -> AsStack(c.op, c.r, imm)
---------------------------------------------------------------------------
(* The meaning: what the interpreter's handlers do to the guest, on terms.  g   *)
(* has r15 as the instruction reads it.                                        *)
Reads(g, pc, thumb) ==
  [g |-> [n \in 0 .. 15 |-> IF n = 15 THEN K(Ones(pc)) ELSE g[n]], bank |-> [n \in 8 .. 14 |-> BankOf(n)],
   f |-> Flags, log |-> <<>>, out |-> <<>>, thumb |-> thumb]
Goes(s, how, x) == [s EXCEPT !.out = <<how, x>>]
Gets(s, n, x) == IF n = 15 THEN Goes(s, IF s.thumb THEN "thumb" ELSE "arm", x) ELSE [s EXCEPT !.g[n] = x]
Value(s, type, at) == <<"loaded", type, at, Len(s.log)>>

MeansData(s, w, c) ==
  LET e == Effect(w, s.g, s.f)
      n == [s EXCEPT !.f = e.f]
  IN  CASE 15 \in DOMAIN e.sets /\ c.k = "data" /\ c.s = 1 -> Goes(n, "return", e.sets[15])
        [] 15 \in DOMAIN e.sets /\ c.s = 0 -> Gets(n, 15, e.sets[15])
        [] 15 \notin DOMAIN e.sets -> [n EXCEPT !.g = Updated(@, e.sets)]
Loaded(s, n, type, at) == Gets(Logs(s, <<"load", type, at>>), n, Value(s, type, at))
Stored(s, n, type, at) == Logs(s, <<"store", type, at, s.g[n]>>)
MeansAccess(s, w, c) ==
  LET x == s.g[w.rn]
      y == CASE c.o = "IMM" -> K(Ones(OffsetBits(w))) [] c.o = "REG" -> s.g[w.rm] [] OTHER -> Second(w, c.o, s.g, s.f)
      moved == Made(IF c.up THEN "ADD" ELSE "SUB", x, y, s.f)
      at    == IF c.how = "post" THEN x ELSE moved
      n     == IF c.how = "off" THEN s ELSE Gets(s, w.rn, moved)
      type  == MemTypes[c.op]
      One(q, reg, a) == IF IsLoad(c.op) THEN Loaded(q, reg, type, a) ELSE Stored(q, reg, type, a)
  IN  IF IsDouble(c.op) THEN One(One(n, w.rd, at), w.rd + 1, Plus(at, 4)) ELSE One(n, w.rd, at)
\* A list: the lowest register at the lowest address.  With the S bit the registers
\* of user mode, or the return from an exception.
MeansBlock(s, w, c) ==
  LET list  == Ascending(RegList(w))
      load  == c.op = "LDM"
      n     == 4 * Len(list)
      user  == c.user /\ ~(load /\ 15 \in RegList(w))
      start == Plus(s.g[w.rn], CASE c.way = "IA" -> 0 [] c.way = "IB" -> 4 [] c.way = "DA" -> 4 - n [] c.way = "DB" -> -n)
      wb    == IF c.wb THEN Gets(s, w.rn, Plus(s.g[w.rn], IF c.way \in {"IA", "IB"} THEN n ELSE -n)) ELSE s
      banked(r) == user /\ r \in 8 .. 14
      One(q, i) ==
        LET r  == list[i]
            at == Plus(Aligned(start), 4 * (i - 1))
        IN  CASE load /\ banked(r)  -> [Logs(q, <<"load", "u32", at>>) EXCEPT !.bank[r] = Value(q, "u32", at)]
              [] load /\ r = 15     -> Goes(Logs(q, <<"load", "u32", at>>), IF c.user THEN "return" ELSE "dual", Value(q, "u32", at))
              [] load /\ r # 15 /\ ~banked(r) -> Loaded(q, r, "u32", at)
              [] ~load /\ banked(r) -> Logs(q, <<"store", "u32", at, q.bank[r]>>)
              [] ~load /\ ~banked(r) -> Stored(q, r, "u32", at)
  IN  FoldLeft(One, wb, [i \in DOMAIN list |-> i])
MeansSwap(s, w, type) ==
  LET at == s.g[w.rn] IN Gets(Logs(Logs(s, <<"load", type, at>>), <<"store", type, at, s.g[w.rm]>>), w.rd, Value(s, type, at))
MeansStatus(s, w, c) ==
  LET x == IF c.o = "REG" THEN s.g[w.rm] ELSE Second(w, c.o, s.g, s.f)
  IN  CASE c.op = "MRS" -> Gets(s, w.rd, <<"spsr">>)
        [] c.op = "MSR" /\ c.psr = "CPSR" -> Logs(s, <<"cpsr", x, K(FieldMask(w.rn))>>)
        [] c.op = "MSR" /\ c.psr = "SPSR" -> Logs(s, <<"spsr", x>>)
\* A branch to a place that is known: when the time is up, the block is left there.
Jumps15(s, target, running) == Goes(IF running = 0 THEN Logs(s, <<"time over", target>>) ELSE s, "link", target)
Linked(s, n) == [s EXCEPT !.g[14] = K(Ones(n))]
MeansWay(s, w, op, running) ==
  LET near == Here + 8 + (4 * Offset24(w))
  IN  CASE op = "B"  -> Jumps15(s, near, running)
        [] op = "BL" -> Jumps15(Linked(s, Here + 4), near, running)
        [] op = "BX" -> Goes(s, "dual", s.g[w.rm])
        [] op = "BLX_REG" -> Goes(Linked(s, Here + 4), "dual", s.g[w.rm])
        [] op = "BLX_IMM" ->
             Jumps15([Linked(s, Here + 4) EXCEPT !.thumb = TRUE], near + (2 * ((w.row \div 16) % 2)), running)
Meaning(s, w, c, running) ==
  CASE c.k = "transfer" -> MeansAccess(s, w, c)
    [] c.k = "block"    -> MeansBlock(s, w, c)
    [] c.k = "status"   -> MeansStatus(s, w, c)
    [] c.k = "coprocessor" -> Logs(s, <<IF c.op = "MCR" THEN "mcr" ELSE "mrc">>)
    [] Computes(c)      -> MeansData(s, w, c)
    [] c.k = "other" /\ c.op \in {"SWP", "SWPB"} -> MeansSwap(s, w, IF c.op = "SWP" THEN "u32" ELSE "u8")
    [] c = Other("SWI") -> Logs(s, <<"swi">>)
    [] c.k = "other" /\ c.op \in {"B", "BL", "BX", "BLX_REG", "BLX_IMM"} -> MeansWay(s, w, c.op, running)
---------------------------------------------------------------------------
\* What the code of a word leaves, whether the block has time left or not.
AsMeant(m, s, counts) ==
  /\ Seen(m) = [g |-> [n \in 0 .. 14 |-> s.g[n]], bank |-> s.bank, f |-> s.f, log |-> s.log, out |-> s.out, thumb |-> s.thumb]
  /\ counts => Kept(m)
Fresh == [n \in 0 .. 14 |-> Guest(n)]
Times(op) == IF op \in {"B", "BL", "BLX_IMM", "BL_11", "BLX"} THEN {0, 1} ELSE {0}

\* ARM words whose code is known to do something else, or that mean nothing.
ByAmountInRegister(c) == c.o \in {"LSL_REG", "LSR_REG", "ASR_REG", "ROR_REG"}
OddData(w, c) ==
  /\ ByAmountInRegister(c)
  /\ 15 \in {w.rn, w.rm, w.rs} \/ c.op \in {"TST", "TEQ"}
OddProduct(w, c) ==
  \/ 15 \in {w.rn, w.rd, w.rs, w.rm}
  \/ c.k = "mul" /\ c.op \notin {"MUL", "MLA"} /\ w.rn = w.rd
  \/ c.op = "SMLAL"
OddAccess(w, c) ==
  \/ w.rd = 15 \/ (IsDouble(c.op) /\ (Odd(w.rd) \/ w.rd = 14))
  \/ c.o # "IMM" /\ w.rm = 15
  \/ c.how # "off" /\ (w.rn \in {15, w.rd} \/ (IsDouble(c.op) /\ w.rn = w.rd + 1))
OddBlock(w, c) ==
  \/ RegList(w) = {} \/ w.rn = 15 \/ (c.op = "STM" /\ 15 \in RegList(w))
  \/ c.wb /\ (w.rn \in RegList(w) \/ c.user)
OddStatus(w, c) ==
  \/ c.op = "MRS" /\ (c.psr = "CPSR" \/ w.rd = 15)
  \/ c.op = "MSR" /\ ((c.o = "REG" /\ w.rm = 15) \/ (c.psr = "SPSR" /\ w.rn # 15))
OddOther(w, c) ==
  \/ c.op \in {"QADD", "QSUB", "QDADD", "QDSUB", "CLZ", "SWP", "SWPB"} /\ 15 \in {w.rd, w.rm, IF c.op = "CLZ" THEN 0 ELSE w.rn}
  \/ c.op \in {"BX", "BLX_REG"} /\ w.rm = 15
  \/ c.op = "BLX_REG" /\ w.rm = 14
OddWord(w, c) ==
  CASE c.k \in {"data", "test"} -> OddData(w, c)
    [] c.k \in {"mul", "signed"} -> OddProduct(w, c)
    [] c.k = "transfer" -> OddAccess(w, c)
    [] c.k = "block"    -> OddBlock(w, c)
    [] c.k = "status"   -> OddStatus(w, c)
    [] c.k = "other"    -> OddOther(w, c)
    [] c.k = "coprocessor" -> c.op = "CDP"
    [] c.k \in {"nothing", "reencoded", "und"} -> TRUE

\* The return from an exception through a list counts no cycles.
ReturnsByList(w, c) == c.k = "block" /\ c.op = "LDM" /\ c.user /\ 15 \in RegList(w)
ArmFaithful(w, nv) ==
  \A c \in {ArmCode(w.row, w.col, nv)} :
    (nv \/ c = ArmTable(w.row, w.col)) /\ ~OddWord(w, c) =>
      \A running \in Times(IF c.k = "other" THEN c.op ELSE ""), code \in {ArmEmitted(w, c, nv)} :
        AsMeant(After(code, Machine(Fresh, FALSE), running, Here + 4),
                Meaning(Reads(Fresh, Here + 8, FALSE), w, c, running), ~ReturnsByList(w, c))

\* Thumb: a word with an equal in ARM means the same; the second half of a long branch
\* goes from what the first half left in LR.
MeansThumbWay(s, op, w, low, prev, running) ==
  LET first == There + 2 + (4096 * SignOf(prev, 11))
      to    == first + (2 * Low11(w, low))
  IN  CASE op = "B"     -> Jumps15(s, There + 4 + (2 * SignOf(Low11(w, low), 11)), running)
        [] op = "BL_11" -> Jumps15(Linked(s, There + 3), to, running)
        [] op = "BLX"   -> Jumps15([Linked(s, There + 3) EXCEPT !.thumb = FALSE], to - (to % 4), running)
        [] op = "BLH"   -> Goes(Linked(s, There + 3), "thumb", Plus(s.g[14], 2 * Low11(w, low)))
        [] op = "BX_THUMB"  -> Goes(s, "dual", s.g[HighRs(w, low)])
        [] op = "BLX_THUMB" -> Goes(Linked(s, There + 3), "dual", s.g[HighRs(w, low)])
MeansThumb(s, c, w, low, prev, running) ==
  CASE c.op \in {"B", "BL_11", "BLX", "BLH", "BX_THUMB", "BLX_THUMB"} -> MeansThumbWay(s, c.op, w, low, prev, running)
    [] c.op = "SWI_THUMB" -> Logs(s, <<"swi">>)
    [] OTHER -> LET a == ThumbAs(w, low) IN Meaning(s, a, ArmTable(a.row, a.col), running)
\* A list begins at a multiple of four.
ListBase(c) == IF c.op \in {"STMIA_THUMB", "LDMIA_THUMB"} THEN c.r ELSE 13
ThumbFresh(w, c) ==
  IF In(w, 720, 831) THEN [Fresh EXCEPT ![ListBase(c)] = <<"aligned", Guest(ListBase(c))>>] ELSE Fresh
OddThumb(c, w, low) ==
  \/ c.k # "thumb" \/ ThumbTable(w) = Und \/ In(w, 832, 891)
  \/ c.op \in {"PUSH", "POP", "STMIA_THUMB", "LDMIA_THUMB"} /\ Word8(w, low) = 0
  \/ c.op = "STMIA_THUMB" /\ Bit(Word8(w, low), c.r) = 1
  \/ c.op = "BLX_THUMB" /\ HighRs(w, low) \in {14, 15}
  \/ c.op = "BLH" /\ (w < 992 \/ Low11(w, low) > 127)
\* arm_load_imm_32bit leaves the constant.
ConstantMade(bits) == After(LoadImm(a0, bits), Machine(Fresh, FALSE), 0, Here).r[a0] = K(bits)
ThumbFaithful(w, low, prev) ==
  \A c \in {ThumbCode(w, prev >= 0)} :
    ~OddThumb(c, w, low) =>
      \A running \in Times(c.op), g \in {ThumbFresh(w, c)}, code \in {ThumbEmitted(w, low, prev, c)} :
        AsMeant(After(code, Machine(g, TRUE), running, There + 2),
                MeansThumb(Reads(g, IF c.op \in {"LDR_PCREL", "ADD_2PC"} THEN PcBase ELSE There + 4, TRUE),
                           c, w, low, prev, running), TRUE)
===========================================================================
