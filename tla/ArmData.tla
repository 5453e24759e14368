------------------------------ MODULE ArmData ------------------------------
(***************************************************************************)
(* The data processing and multiply instructions of the interpreter.  An   *)
(* opcode is one operator: its nine forms of the second operand, with and  *)
(* without S, differ in what Shifted returns and in whether the flags are  *)
(* written.  s = 1 asks for the flags, d is the destination, n the first   *)
(* operand, o the second; numbers of cycles are left out.                  *)
(***************************************************************************)
EXTENDS ArmState, Bitwise

CONSTANTS Regs,     \* the registers that instructions name
          Operands  \* the second operands they have

LSLUncut(x, k, c) == [val |-> x * 2^k, c |-> c]
LSL(x, k, c) ==
  CASE k = 0     -> [val |-> x, c |-> c]
    [] k < Bits  -> [val |-> W(x * 2^k), c |-> Bit(x, Bits - k)]
    [] k = Bits  -> [val |-> 0, c |-> Bit(x, 0)]
    [] OTHER     -> [val |-> 0, c |-> 0]

LSRMasked(x, k, c) == [val |-> x \div 2^(k % Bits), c |-> Bit(x, (k + Bits - 1) % Bits)]
LSR(x, k, c) ==
  CASE k = 0     -> [val |-> x, c |-> c]
    [] k < Bits  -> [val |-> x \div 2^k, c |-> Bit(x, k - 1)]
    [] k = Bits  -> [val |-> 0, c |-> BIT31(x)]
    [] OTHER     -> [val |-> 0, c |-> 0]

ASR(x, k, c) ==
  CASE k = 0     -> [val |-> x, c |-> c]
    [] k < Bits  -> [val |-> W(Signed(x) \div 2^k), c |-> Bit(x, k - 1)]
    [] OTHER     -> [val |-> BIT31(x) * (Size - 1), c |-> BIT31(x)]

Rotate(x, k) == (x \div 2^k) + W(x * 2^(Bits - k))
ROR(x, k, c) ==
  CASE k = 0                 -> [val |-> x, c |-> c]
    [] k # 0 /\ k % Bits = 0 -> [val |-> x, c |-> BIT31(x)]
    [] OTHER                 -> [val |-> Rotate(x, k % Bits), c |-> Bit(x, (k % Bits) - 1)]
RRX(x, c) == [val |-> c * 2^(Bits - 1) + x \div 2, c |-> Bit(x, 0)]

\* The second operand: an immediate, which gives a carry when it is rotated, or
\* a register shifted by an immediate (LSR and ASR by 0 mean by the whole word,
\* ROR by 0 means RRX) or by the low byte of a register.
Shifted(cpu, o) ==
  LET c == cpu.CPSR.C
      x == cpu.R[o.reg]
      k == IF o.by = "reg" THEN cpu.R[o.k] % (8 * Bits)
           ELSE IF o.k = 0 /\ o.kind \in {"LSR", "ASR"} THEN Bits ELSE o.k
  IN  CASE o.kind = "imm" -> [val |-> o.val, c |-> IF o.rotated THEN BIT31(o.val) ELSE c]
        [] o.kind = "LSL" -> LSL(x, k, c)
        [] o.kind = "LSR" -> LSR(x, k, c)
        [] o.kind = "ASR" -> ASR(x, k, c)
        [] o.kind = "ROR" -> IF o.by = "imm" /\ o.k = 0 THEN RRX(x, c) ELSE ROR(x, k, c)
Op2(cpu, o) == Shifted(cpu, o).val

CarryFrom(l, r) == r > Size - 1 - l
BorrowFrom(l, r) == r > l
OverflowFromADD(out, l, r) == BIT31(l) = BIT31(r) /\ BIT31(l) # BIT31(out)
OverflowBySign(out, l, r) == BIT31(l) # BIT31(out)
OverflowFromSUB(out, l, r) == BIT31(l) # BIT31(r) /\ BIT31(l) # BIT31(out)

\* What the flags become: N and Z show the result v.
NZ(s, v) == [s EXCEPT !.N = BIT31(v), !.Z = Truth(v = 0)]
NZC(s, v, c) == [NZ(s, v) EXCEPT !.C = c]
NZCV(s, v, c, ov) == [NZ(s, v) EXCEPT !.C = Truth(c), !.V = Truth(ov)]

\* The result goes to d; written to r15 it is a jump, with S a return.
Put(cpu, d, v) ==
  LET p == [cpu EXCEPT !.R[d] = v] IN IF d = 15 THEN [p EXCEPT !.next = v] ELSE p
Result(cpu, s, d, v, flags) ==
  CASE s = 0            -> Put(cpu, d, v)
    [] s = 1 /\ d = 15  -> ReturnAligned(cpu, v)
    [] OTHER            -> [Put(cpu, d, v) EXCEPT !.CPSR = flags]

OP_AND(cpu, s, d, n, o) ==
  LET p == Shifted(cpu, o)
      v == cpu.R[n] & p.val
  IN  Result(cpu, s, d, v, NZC(cpu.CPSR, v, p.c))

OP_EOR(cpu, s, d, n, o) ==
  LET p == Shifted(cpu, o)
      v == cpu.R[n] ^^ p.val
  IN  Result(cpu, s, d, v, NZC(cpu.CPSR, v, p.c))

OP_SUB(cpu, s, d, n, o) ==
  LET x == cpu.R[n]
      y == Op2(cpu, o)
      v == W(x - y)
  IN  Result(cpu, s, d, v, NZCV(cpu.CPSR, v, ~BorrowFrom(x, y), OverflowFromSUB(v, x, y)))

OP_RSB(cpu, s, d, n, o) ==
  LET x == cpu.R[n]
      y == Op2(cpu, o)
      v == W(y - x)
  IN  Result(cpu, s, d, v, NZCV(cpu.CPSR, v, ~BorrowFrom(y, x), OverflowFromSUB(v, y, x)))

OP_ADD(cpu, s, d, n, o) ==
  LET x == cpu.R[n]
      y == Op2(cpu, o)
      v == W(x + y)
  IN  Result(cpu, s, d, v, NZCV(cpu.CPSR, v, CarryFrom(x, y), OverflowFromADD(v, x, y)))

AdcStrict(cpu, s, d, n, o) ==
  LET x == cpu.R[n]
      v == W(x + Op2(cpu, o) + cpu.CPSR.C)
  IN  Result(cpu, s, d, v, NZCV(cpu.CPSR, v, v < x, OverflowFromADD(v, x, Op2(cpu, o))))
OP_ADC(cpu, s, d, n, o) ==
  LET x == cpu.R[n]
      y == Op2(cpu, o)
      v == W(x + y + cpu.CPSR.C)
      c == IF cpu.CPSR.C = 0 THEN v < x ELSE v <= x
  IN  Result(cpu, s, d, v, NZCV(cpu.CPSR, v, c, OverflowFromADD(v, x, y)))

OP_SBC(cpu, s, d, n, o) ==
  LET x == cpu.R[n]
      y == Op2(cpu, o)
      v == W(x - y - (1 - cpu.CPSR.C))
      c == IF cpu.CPSR.C = 0 THEN x > y ELSE x >= y
  IN  Result(cpu, s, d, v, NZCV(cpu.CPSR, v, c, OverflowFromSUB(v, x, y)))

OP_RSC(cpu, s, d, n, o) ==
  LET x == cpu.R[n]
      y == Op2(cpu, o)
      v == W(y - x + cpu.CPSR.C - 1)
      c == IF cpu.CPSR.C = 0 THEN y > x ELSE y >= x
  IN  Result(cpu, s, d, v, NZCV(cpu.CPSR, v, c, OverflowFromSUB(v, y, x)))

OP_TST(cpu, n, o) ==
  LET p == Shifted(cpu, o) IN [cpu EXCEPT !.CPSR = NZC(@, cpu.R[n] & p.val, p.c)]

OP_TEQ(cpu, n, o) ==
  LET p == Shifted(cpu, o) IN [cpu EXCEPT !.CPSR = NZC(@, cpu.R[n] ^^ p.val, p.c)]

OP_CMP(cpu, n, o) ==
  LET x == cpu.R[n]
      y == Op2(cpu, o)
      v == W(x - y)
  IN  [cpu EXCEPT !.CPSR = NZCV(@, v, ~BorrowFrom(x, y), OverflowFromSUB(v, x, y))]

OP_CMN(cpu, n, o) ==
  LET x == cpu.R[n]
      y == Op2(cpu, o)
      v == W(x + y)
  IN  [cpu EXCEPT !.CPSR = NZCV(@, v, CarryFrom(x, y), OverflowFromADD(v, x, y))]

OP_ORR(cpu, s, d, n, o) ==
  LET p == Shifted(cpu, o)
      v == cpu.R[n] | p.val
  IN  Result(cpu, s, d, v, NZC(cpu.CPSR, v, p.c))

\* r15 shifted by a register is one more instruction on, for LSL and LSR only.
OP_MOV(cpu, s, d, o) ==
  LET p == Shifted(cpu, o)
      v == IF o.kind \in {"LSL", "LSR"} /\ o.by = "reg" /\ o.reg = 15 THEN W(p.val + 4) ELSE p.val
  IN  Result(cpu, s, d, v, NZC(cpu.CPSR, v, p.c))

OP_BIC(cpu, s, d, n, o) ==
  LET p == Shifted(cpu, o)
      v == cpu.R[n] & (Size - 1 - p.val)
  IN  Result(cpu, s, d, v, NZC(cpu.CPSR, v, p.c))

OP_MVN(cpu, s, d, o) ==
  LET p == Shifted(cpu, o)
      v == Size - 1 - p.val
  IN  Result(cpu, s, d, v, NZC(cpu.CPSR, v, p.c))

OP_MUL(cpu, s, d, m, r) ==
  LET v == W(cpu.R[m] * cpu.R[r])
  IN  [cpu EXCEPT !.R[d] = v, !.CPSR = IF s = 1 THEN NZ(@, v) ELSE @]

OP_MLA(cpu, s, d, m, r, n) ==
  LET v == W(cpu.R[m] * cpu.R[r] + cpu.R[n])
  IN  [cpu EXCEPT !.R[d] = v, !.CPSR = IF s = 1 THEN NZ(@, v) ELSE @]

\* A product of two words, low and high; N and Z show both.
Long(cpu, s, lo, hi, low, high) ==
  LET c == [cpu EXCEPT !.R[lo] = low, !.R[hi] = high]
  IN  [c EXCEPT !.CPSR = IF s = 1 THEN [@ EXCEPT !.N = BIT31(c.R[hi]), !.Z = Truth(c.R[hi] = 0 /\ c.R[lo] = 0)]
                         ELSE @]
LongNoCarry(cpu, s, lo, hi, product) ==
  Long(cpu, s, lo, hi, W(cpu.R[lo] + product), W(cpu.R[hi] + (product \div Size)))
\* The same added to what hi and lo hold, with the carry between them.
LongAdd(cpu, s, lo, hi, product) ==
  LET low == W(product)
      c   == [cpu EXCEPT
                !.R[hi] = W((product \div Size) + @ + Truth(CarryFrom(low, cpu.R[lo]))),
                !.R[lo] = W(@ + low)]
  IN  [c EXCEPT !.CPSR = IF s = 1 THEN [@ EXCEPT !.N = BIT31(c.R[hi]), !.Z = Truth(c.R[hi] = 0 /\ c.R[lo] = 0)]
                         ELSE @]

OP_UMULL(cpu, s, lo, hi, m, r) ==
  LET p == cpu.R[m] * cpu.R[r] IN Long(cpu, s, lo, hi, W(p), p \div Size)
OP_UMLAL(cpu, s, lo, hi, m, r) == LongAdd(cpu, s, lo, hi, cpu.R[m] * cpu.R[r])
OP_SMULL(cpu, s, lo, hi, m, r) ==
  LET p == Signed(cpu.R[m]) * Signed(cpu.R[r]) IN Long(cpu, s, lo, hi, W(p), W(p \div Size))
OP_SMLAL(cpu, s, lo, hi, m, r) == LongAdd(cpu, s, lo, hi, Signed(cpu.R[m]) * Signed(cpu.R[r]))

Ones(x) == {k \in 0 .. Bits - 1 : Bit(x, k) = 1}
OP_CLZ(cpu, d, m) ==
  [cpu EXCEPT !.R[d] = Cardinality({k \in 0 .. Bits - 1 : \A j \in Ones(cpu.R[m]) : j < k})]

\* The largest word where the wrapped result is negative, else the smallest.
Clamp(wrapped) == W(Size \div 2 - BIT31(wrapped))
Saturated(cpu, d, v, over) ==
  IF over THEN [cpu EXCEPT !.CPSR.Q = 1, !.R[d] = Clamp(v)]
  ELSE Put(cpu, d, IF d = 15 THEN v - (v % 4) ELSE v)

OP_QADD(cpu, d, m, n) ==
  LET v == W(cpu.R[n] + cpu.R[m]) IN Saturated(cpu, d, v, OverflowFromADD(v, cpu.R[n], cpu.R[m]))
OP_QSUB(cpu, d, m, n) ==
  LET v == W(cpu.R[m] - cpu.R[n]) IN Saturated(cpu, d, v, OverflowFromSUB(v, cpu.R[m], cpu.R[n]))

DoubledWrap(cpu, n) == W(2 * cpu.R[n])
\* Twice the register n, saturated first.
Doubled(cpu, n) ==
  LET v == W(2 * cpu.R[n]) IN IF BIT31(v) # BIT31(cpu.R[n]) THEN Clamp(v) ELSE v
DoubledQ(cpu, n) == IF Doubled(cpu, n) # W(2 * cpu.R[n]) THEN [cpu EXCEPT !.CPSR.Q = 1] ELSE cpu
OP_QDADD(cpu, d, m, n) ==
  LET t == Doubled(cpu, n)
      v == W(t + cpu.R[m])
  IN  Saturated(DoubledQ(cpu, n), d, v, OverflowFromADD(v, cpu.R[m], t))
OP_QDSUB(cpu, d, m, n) ==
  LET t == Doubled(cpu, n)
      v == W(cpu.R[m] - t)
  IN  Saturated(DoubledQ(cpu, n), d, v, OverflowFromSUB(v, cpu.R[m], t))

\* Signed halves of a word: "B" the bottom, "T" the top.
HalfSize == 2^(Bits \div 2)
Half(x, h) ==
  IF h = "T" THEN Signed(x) \div HalfSize
  ELSE LET y == x % HalfSize IN IF 2 * y >= HalfSize THEN y - HalfSize ELSE y

OP_SMUL(cpu, x, y, d, m, r) == [cpu EXCEPT !.R[d] = W(Half(cpu.R[m], x) * Half(cpu.R[r], y))]

\* SMLABB looks at n for the overflow when d is already written.
OP_SMLA(cpu, x, y, d, m, r, n) ==
  LET t == W(Half(cpu.R[m], x) * Half(cpu.R[r], y))
      v == W(t + cpu.R[n])
      a == IF x = "B" /\ y = "B" /\ d = n THEN v ELSE cpu.R[n]
  IN  [cpu EXCEPT !.R[d] = v, !.CPSR.Q = IF OverflowFromADD(v, t, a) THEN 1 ELSE @]

\* The sum with lo goes to lo; hi gets its low word again, less 1 where the
\* product is negative.
OP_SMLAL_xy(cpu, x, y, lo, hi, m, r) ==
  LET t == Half(cpu.R[m], x) * Half(cpu.R[r], y)
      v == t + cpu.R[lo]
  IN  [cpu EXCEPT !.R[lo] = W(v), !.R[hi] = W(@ + v - Truth(t < 0))]

OP_SMULW(cpu, y, d, m, r) ==
  [cpu EXCEPT !.R[d] = W((Half(cpu.R[r], y) * Signed(cpu.R[m])) \div HalfSize)]

OP_SMLAW(cpu, y, d, m, r, n) ==
  LET t == W((Half(cpu.R[r], y) * Signed(cpu.R[m])) \div HalfSize)
      v == W(t + cpu.R[n])
  IN  [cpu EXCEPT !.R[d] = v, !.CPSR.Q = IF OverflowFromADD(v, t, cpu.R[n]) THEN 1 ELSE @]

----------------------------------------------------------------------------
VARIABLE cpu

Init == cpu = Reset

Logical ==
  \E s \in 0 .. 1, d, n \in Regs, o \in Operands :
    \/ cpu' = OP_AND(cpu, s, d, n, o)
    \/ cpu' = OP_EOR(cpu, s, d, n, o)
    \/ cpu' = OP_ORR(cpu, s, d, n, o)
    \/ cpu' = OP_BIC(cpu, s, d, n, o)
    \/ cpu' = OP_MOV(cpu, s, d, o)
    \/ cpu' = OP_MVN(cpu, s, d, o)

Arithmetic ==
  \E s \in 0 .. 1, d, n \in Regs, o \in Operands :
    \/ cpu' = OP_SUB(cpu, s, d, n, o)
    \/ cpu' = OP_RSB(cpu, s, d, n, o)
    \/ cpu' = OP_ADD(cpu, s, d, n, o)
    \/ cpu' = OP_ADC(cpu, s, d, n, o)
    \/ cpu' = OP_SBC(cpu, s, d, n, o)
    \/ cpu' = OP_RSC(cpu, s, d, n, o)

Test ==
  \E n \in Regs, o \in Operands :
    \/ cpu' = OP_TST(cpu, n, o)
    \/ cpu' = OP_TEQ(cpu, n, o)
    \/ cpu' = OP_CMP(cpu, n, o)
    \/ cpu' = OP_CMN(cpu, n, o)

Multiply ==
  \E s \in 0 .. 1, d, e, m, r \in Regs :
    \/ cpu' = OP_MUL(cpu, s, d, m, r)
    \/ cpu' = OP_MLA(cpu, s, d, m, r, e)
    \/ d # e /\ cpu' = OP_UMULL(cpu, s, d, e, m, r)
    \/ d # e /\ cpu' = OP_UMLAL(cpu, s, d, e, m, r)
    \/ d # e /\ cpu' = OP_SMULL(cpu, s, d, e, m, r)
    \/ d # e /\ cpu' = OP_SMLAL(cpu, s, d, e, m, r)

Saturate ==
  \E d, m, n \in Regs :
    \/ cpu' = OP_CLZ(cpu, d, m)
    \/ cpu' = OP_QADD(cpu, d, m, n)
    \/ cpu' = OP_QSUB(cpu, d, m, n)
    \/ cpu' = OP_QDADD(cpu, d, m, n)
    \/ cpu' = OP_QDSUB(cpu, d, m, n)

Halves ==
  \E x, y \in {"B", "T"}, d, e, m, r \in Regs :
    \/ cpu' = OP_SMUL(cpu, x, y, d, m, r)
    \/ cpu' = OP_SMLA(cpu, x, y, d, m, r, e)
    \/ d # e /\ cpu' = OP_SMLAL_xy(cpu, x, y, d, e, m, r)
    \/ cpu' = OP_SMULW(cpu, y, d, m, r)
    \/ cpu' = OP_SMLAW(cpu, y, d, m, r, e)

Next == Logical \/ Arithmetic \/ Test \/ Multiply \/ Saturate \/ Halves

Spec == Init /\ [][Next]_cpu
----------------------------------------------------------------------------
Imm(x) == [kind |-> "imm", val |-> x, rotated |-> FALSE, reg |-> 0]
By(kind, x, by, k) == [kind |-> kind, reg |-> x, by |-> by, k |-> k]
Whole(x) == By("LSL", x, "imm", 0)

\* Two words as one number, and what of it two words hold.
Pair(c, lo, hi) == c.R[lo] + Size * c.R[hi]
Wide(x) == x % (Size * Size)
SignedWide(x) == IF 2 * x >= Size * Size THEN x - Size * Size ELSE x
Fits(x) == -(Size * Size) \div 2 <= x /\ x < (Size * Size) \div 2

\* Registers, flags and banks have their types.
TypeOK == Processor(cpu)

\* The idioms of a compiler for numbers of two words: ADDS and ADCS, SUBS and
\* SBCS, RSBS and RSCS, on the low words and then on the high ones, give the sum
\* and the differences, with the carry, the overflow and the sign of the whole.
TwoWords ==
  \A lo, hi \in Regs : lo # hi =>
    \A x \in Word, y \in {0, 1, Size \div 2 - 1, Size \div 2, Size - 1} :
      LET a    == Pair(cpu, lo, hi)
          b    == x + Size * y
          add  == OP_ADC(OP_ADD(cpu, 1, lo, lo, Imm(x)), 1, hi, hi, Imm(y))
          sub  == OP_SBC(OP_SUB(cpu, 1, lo, lo, Imm(x)), 1, hi, hi, Imm(y))
          rsb  == OP_RSC(OP_RSB(cpu, 1, lo, lo, Imm(x)), 1, hi, hi, Imm(y))
          Shows(c, unsigned, signed, carry) ==
            /\ Pair(c, lo, hi) = Wide(unsigned)
            /\ c.CPSR.C = Truth(carry)
            /\ c.CPSR.V = Truth(~Fits(signed))
            /\ (c.CPSR.N # c.CPSR.V) = (signed < 0)
      IN  /\ Shows(add, a + b, SignedWide(a) + SignedWide(b), a + b >= Size * Size)
          /\ Shows(sub, a - b, SignedWide(a) - SignedWide(b), a >= b)
          /\ Shows(rsb, b - a, SignedWide(b) - SignedWide(a), b >= a)

\* After CMP every condition means what its name says of the two words, with and
\* without a sign, and TEQ and CMN leave the conditions their tests need.
Compare ==
  \A n \in Regs, y \in Word :
    LET x  == cpu.R[n]
        t  == OP_CMP(cpu, n, Imm(y)).CPSR
        e  == OP_TEQ(cpu, n, Imm(y)).CPSR
        m  == OP_CMN(cpu, n, Imm(y)).CPSR
    IN  /\ TEST_COND(t, "EQ") = (x = y) /\ TEST_COND(t, "NE") = (x # y)
        /\ TEST_COND(t, "CS") = (x >= y) /\ TEST_COND(t, "CC") = (x < y)
        /\ TEST_COND(t, "HI") = (x > y) /\ TEST_COND(t, "LS") = (x <= y)
        /\ TEST_COND(t, "GE") = (Signed(x) >= Signed(y)) /\ TEST_COND(t, "LT") = (Signed(x) < Signed(y))
        /\ TEST_COND(t, "GT") = (Signed(x) > Signed(y)) /\ TEST_COND(t, "LE") = (Signed(x) <= Signed(y))
        /\ TEST_COND(e, "EQ") = (x = y) /\ e.V = cpu.CPSR.V
        /\ TEST_COND(m, "CS") = (x + y >= Size) /\ TEST_COND(m, "LT") = (Signed(x) + Signed(y) < 0)

\* Shifts of two words: by one through the carry (LSRS and RRX, ADDS and ADC),
\* and by the distance in a register, which may be anything up to two words,
\* with the distances that wrap around or reach a whole word on the way.
WideShift ==
  \A lo, hi \in Regs : lo # hi =>
    LET a     == Pair(cpu, lo, hi)
        right == OP_MOV(OP_MOV(cpu, 1, hi, By("LSR", hi, "imm", 1)), 0, lo, By("ROR", lo, "imm", 0))
        left  == OP_ADC(OP_ADD(cpu, 1, lo, lo, Whole(lo)), 0, hi, hi, Whole(hi))
    IN  /\ Pair(right, lo, hi) = a \div 2
        /\ Pair(left, lo, hi) = Wide(2 * a)
        /\ \A k \in 0 .. 2 * Bits :
             LET s == [cpu EXCEPT !.R[2] = k, !.R[3] = W(Bits - k), !.R[4] = W(k - Bits)]
                 t == OP_MOV(s, 0, lo, By("LSR", lo, "reg", 2))
                 u == OP_ORR(t, 0, lo, lo, By("LSL", hi, "reg", 3))
                 v == OP_ORR(u, 0, lo, lo, By("LSR", hi, "reg", 4))
             IN  Pair(OP_MOV(v, 0, hi, By("LSR", hi, "reg", 2)), lo, hi) = a \div 2^k

\* The long products, and the sums of a product and two words, are exact.
LongProduct ==
  \A lo, hi, m, r \in Regs : lo # hi =>
    LET a == Pair(cpu, lo, hi)
        u == cpu.R[m] * cpu.R[r]
        i == Signed(cpu.R[m]) * Signed(cpu.R[r])
    IN  /\ Pair(OP_UMULL(cpu, 1, lo, hi, m, r), lo, hi) = u
        /\ Pair(OP_UMLAL(cpu, 1, lo, hi, m, r), lo, hi) = Wide(a + u)
        /\ Pair(OP_SMULL(cpu, 1, lo, hi, m, r), lo, hi) = Wide(i)
        /\ Pair(OP_SMLAL(cpu, 1, lo, hi, m, r), lo, hi) = Wide(a + i)

Saturation(x) ==
  IF x >= Size \div 2 THEN Size \div 2 - 1 ELSE IF x < -(Size \div 2) THEN -(Size \div 2) ELSE x

\* The saturating sums stop at the ends of the signed words, doubling included,
\* and Q remembers whether any has.
Saturates ==
  \A d, m, n \in Regs :
    LET x == Signed(cpu.R[m])
        y == Signed(cpu.R[n])
        t == Saturation(2 * y)
        Gives(c, v, exact) == /\ Signed(c.R[d]) = v
                              /\ c.CPSR.Q = IF v = exact THEN cpu.CPSR.Q ELSE 1
    IN  /\ Gives(OP_QADD(cpu, d, m, n), Saturation(x + y), x + y)
        /\ Gives(OP_QSUB(cpu, d, m, n), Saturation(x - y), x - y)
        /\ Signed(OP_QDADD(cpu, d, m, n).R[d]) = Saturation(x + t)
        /\ Signed(OP_QDSUB(cpu, d, m, n).R[d]) = Saturation(x - t)
        /\ OP_QDADD(cpu, d, m, n).CPSR.Q = IF t = 2 * y /\ Saturation(x + t) = x + t THEN cpu.CPSR.Q ELSE 1
-----------------------------------------------------------------------------
(***************************************************************************)
(* The data processing opcodes of the Thumb interpreter.  It shares no     *)
(* code with the ARM one: shifts, carries and overflows are written again  *)
(* for each opcode, so what an opcode does can be compared with the ARM    *)
(* instruction that it abbreviates.  p is the processor; d, n and m are    *)
(* registers, x an immediate; numbers of cycles are left out.              *)
(***************************************************************************)

Set(p, d, v) == [p EXCEPT !.R[d] = v, !.CPSR = NZ(@, v)]
SetC(p, d, v, c) == [p EXCEPT !.R[d] = v, !.CPSR = NZC(@, v, c)]
SetCV(p, d, v, c, ov) == [p EXCEPT !.R[d] = v, !.CPSR = NZCV(@, v, c, ov)]
Distance(p, m) == p.R[m] % (8 * Bits)

OP_LSL_0(p, d, m) == Set(p, d, p.R[m])
OP_LSL(p, d, m, x) == SetC(p, d, W(p.R[m] * 2^x), Bit(p.R[m], Bits - x))
OP_LSL_REG(p, d, m) ==
  LET v == Distance(p, m)
      y == p.R[d]
  IN  CASE v = 0    -> Set(p, d, y)
        [] 0 < v /\ v < Bits -> SetC(p, d, W(y * 2^v), Bit(y, Bits - v))
        [] v = Bits -> SetC(p, d, 0, Bit(y, 0))
        [] OTHER    -> SetC(p, d, 0, 0)

OP_LSR_0(p, d, m) == SetC(p, d, 0, BIT31(p.R[m]))
OP_LSR(p, d, m, x) == SetC(p, d, p.R[m] \div 2^x, Bit(p.R[m], x - 1))
LsrRegNoWord(p, d, m) ==
  LET v == Distance(p, m)
  IN  CASE v = 0    -> Set(p, d, p.R[d])
        [] 0 < v /\ v < Bits -> SetC(p, d, p.R[d] \div 2^v, Bit(p.R[d], v - 1))
        [] OTHER    -> SetC(p, d, 0, 0)
OP_LSR_REG(p, d, m) ==
  LET v == Distance(p, m)
      y == p.R[d]
  IN  CASE v = 0    -> Set(p, d, y)
        [] 0 < v /\ v < Bits -> SetC(p, d, y \div 2^v, Bit(y, v - 1))
        [] v = Bits -> SetC(p, d, 0, BIT31(y))
        [] OTHER    -> SetC(p, d, 0, 0)

OP_ASR_0(p, d, m) == SetC(p, d, BIT31(p.R[m]) * (Size - 1), BIT31(p.R[m]))
OP_ASR(p, d, m, x) == SetC(p, d, W(Signed(p.R[m]) \div 2^x), Bit(p.R[m], x - 1))
OP_ASR_REG(p, d, m) ==
  LET v == Distance(p, m)
      y == p.R[d]
  IN  CASE v = 0 -> Set(p, d, y)
        [] 0 < v /\ v < Bits -> SetC(p, d, W(Signed(y) \div 2^v), Bit(y, v - 1))
        [] OTHER -> SetC(p, d, BIT31(y) * (Size - 1), BIT31(y))

OP_ROR_REG(p, d, m) ==
  LET v == Distance(p, m)
      y == p.R[d]
  IN  CASE v = 0        -> Set(p, d, y)
        [] v # 0 /\ v % Bits = 0 -> SetC(p, d, y, BIT31(y))
        [] OTHER        -> SetC(p, d, Rotate(y, v % Bits), Bit(y, (v % Bits) - 1))

OP_ADD_REG(p, d, n, m) ==
  LET v == W(p.R[n] + p.R[m])
  IN  SetCV(p, d, v, CarryFrom(p.R[n], p.R[m]), OverflowFromADD(v, p.R[n], p.R[m]))
\* Adding 0 is a move.
OP_ADD_IMM3(p, d, n, x) ==
  LET v == W(p.R[n] + x)
  IN  IF x = 0 THEN SetCV(p, d, p.R[n], FALSE, FALSE)
      ELSE SetCV(p, d, v, CarryFrom(p.R[n], x), OverflowFromADD(v, p.R[n], x))
OP_ADD_IMM8(p, d, x) ==
  LET v == W(p.R[d] + x)
  IN  SetCV(p, d, v, CarryFrom(p.R[d], x), OverflowFromADD(v, p.R[d], x))
OP_ADD_SPE(p, d, m) == Put(p, d, W(p.R[d] + p.R[m]))
OP_ADD_2PC(p, d, x) == [p EXCEPT !.R[d] = W(p.R[15] - (p.R[15] % 4) + 4 * x)]
OP_ADD_2SP(p, d, x) == [p EXCEPT !.R[d] = W(p.R[13] + 4 * x)]
OP_ADJUST_P_SP(p, x) == [p EXCEPT !.R[13] = W(@ + 4 * x)]
OP_ADJUST_M_SP(p, x) == [p EXCEPT !.R[13] = W(@ - 4 * x)]

OP_SUB_REG(p, d, n, m) ==
  LET v == W(p.R[n] - p.R[m])
  IN  SetCV(p, d, v, ~BorrowFrom(p.R[n], p.R[m]), OverflowFromSUB(v, p.R[n], p.R[m]))
OP_SUB_IMM3(p, d, n, x) ==
  LET v == W(p.R[n] - x)
  IN  SetCV(p, d, v, ~BorrowFrom(p.R[n], x), OverflowFromSUB(v, p.R[n], x))
OP_SUB_IMM8(p, d, x) ==
  LET v == W(p.R[d] - x)
  IN  SetCV(p, d, v, ~BorrowFrom(p.R[d], x), OverflowFromSUB(v, p.R[d], x))

OP_MOV_IMM8(p, d, x) == Set(p, d, x)
OP_MOV_SPE(p, d, m) == Put(p, d, p.R[m])
OP_CMP_IMM8(p, n, x) == [p EXCEPT !.CPSR = OP_SUB_IMM8(p, n, x).CPSR]
OP_CMP_REG(p, n, m) == [p EXCEPT !.CPSR = OP_SUB_REG(p, n, n, m).CPSR]
OP_CMP_SPE(p, n, m) == [p EXCEPT !.CPSR = OP_SUB_REG(p, n, n, m).CPSR]

OP_AND_REG(p, d, m) == Set(p, d, p.R[d] & p.R[m])
OP_EOR_REG(p, d, m) == Set(p, d, p.R[d] ^^ p.R[m])
OP_ORR_REG(p, d, m) == Set(p, d, p.R[d] | p.R[m])
OP_BIC_REG(p, d, m) == Set(p, d, p.R[d] & (Size - 1 - p.R[m]))
OP_MVN_REG(p, d, m) == Set(p, d, Size - 1 - p.R[m])
OP_TST_REG(p, n, m) == [p EXCEPT !.CPSR = NZ(@, p.R[n] & p.R[m])]
OP_MUL_REG(p, d, m) == Set(p, d, W(p.R[d] * p.R[m]))

\* The carry is read from the sum and the second operand, the overflow from the
\* signs: the operands agree and the sum does not.
OP_ADC_REG(p, d, m) ==
  LET x == p.R[d]
      y == p.R[m]
      v == W(x + y + p.CPSR.C)
      c == IF p.CPSR.C = 0 THEN v < y ELSE v <= y
  IN  SetCV(p, d, v, c, BIT31(x) = BIT31(y) /\ BIT31(x) # BIT31(v))

OP_SBC_REG(p, d, m) ==
  LET x == p.R[d]
      y == p.R[m]
      v == W(x - y - 1 + p.CPSR.C)
      c == IF p.CPSR.C = 0 THEN x > y ELSE x >= y
  IN  SetCV(p, d, v, c, BIT31(x) # BIT31(y) /\ BIT31(x) # BIT31(v))

OP_NEG(p, d, m) ==
  LET v == W(0 - p.R[m])
  IN  SetCV(p, d, v, ~BorrowFrom(0, p.R[m]), OverflowFromSUB(v, 0, p.R[m]))
OP_CMN_REG(p, n, m) == [p EXCEPT !.CPSR = OP_ADD_REG(p, n, n, m).CPSR]
----------------------------------------------------------------------------
\* The ARM instruction that each shift of Thumb abbreviates; a shift right by
\* "0" is one by a whole word.
ShiftsAgree(d, m) ==
  /\ OP_LSL_0(cpu, d, m) = OP_MOV(cpu, 1, d, Whole(m))
  /\ OP_LSR_0(cpu, d, m) = OP_MOV(cpu, 1, d, By("LSR", m, "imm", 0))
  /\ OP_ASR_0(cpu, d, m) = OP_MOV(cpu, 1, d, By("ASR", m, "imm", 0))
  /\ \A x \in 1 .. Bits - 1 :
       /\ OP_LSL(cpu, d, m, x) = OP_MOV(cpu, 1, d, By("LSL", m, "imm", x))
       /\ OP_LSR(cpu, d, m, x) = OP_MOV(cpu, 1, d, By("LSR", m, "imm", x))
       /\ OP_ASR(cpu, d, m, x) = OP_MOV(cpu, 1, d, By("ASR", m, "imm", x))
  /\ OP_LSL_REG(cpu, d, m) = OP_MOV(cpu, 1, d, By("LSL", d, "reg", m))
  /\ OP_LSR_REG(cpu, d, m) = OP_MOV(cpu, 1, d, By("LSR", d, "reg", m))
  /\ OP_ASR_REG(cpu, d, m) = OP_MOV(cpu, 1, d, By("ASR", d, "reg", m))
  /\ OP_ROR_REG(cpu, d, m) = OP_MOV(cpu, 1, d, By("ROR", d, "reg", m))

SumsAgree(d, n, m) ==
  /\ OP_ADD_REG(cpu, d, n, m) = OP_ADD(cpu, 1, d, n, Whole(m))
  /\ OP_SUB_REG(cpu, d, n, m) = OP_SUB(cpu, 1, d, n, Whole(m))
  /\ OP_ADC_REG(cpu, d, m) = OP_ADC(cpu, 1, d, d, Whole(m))
  /\ OP_SBC_REG(cpu, d, m) = OP_SBC(cpu, 1, d, d, Whole(m))
  /\ OP_NEG(cpu, d, m) = OP_RSB(cpu, 1, d, m, Imm(0))
  /\ OP_MUL_REG(cpu, d, m) = OP_MUL(cpu, 1, d, m, d)
  /\ OP_CMP_REG(cpu, d, m) = OP_CMP(cpu, d, Whole(m))
  /\ OP_CMP_SPE(cpu, d, m) = OP_CMP(cpu, d, Whole(m))
  /\ OP_CMN_REG(cpu, d, m) = OP_CMN(cpu, d, Whole(m))
  /\ OP_ADD_SPE(cpu, d, m) = OP_ADD(cpu, 0, d, d, Whole(m))
  /\ OP_MOV_SPE(cpu, d, m) = OP_MOV(cpu, 0, d, Whole(m))

LogicAgrees(d, m) ==
  /\ OP_AND_REG(cpu, d, m) = OP_AND(cpu, 1, d, d, Whole(m))
  /\ OP_EOR_REG(cpu, d, m) = OP_EOR(cpu, 1, d, d, Whole(m))
  /\ OP_ORR_REG(cpu, d, m) = OP_ORR(cpu, 1, d, d, Whole(m))
  /\ OP_BIC_REG(cpu, d, m) = OP_BIC(cpu, 1, d, d, Whole(m))
  /\ OP_MVN_REG(cpu, d, m) = OP_MVN(cpu, 1, d, Whole(m))
  /\ OP_TST_REG(cpu, d, m) = OP_TST(cpu, d, Whole(m))

ImmediatesAgree(d, n, x) ==
  /\ OP_ADD_IMM3(cpu, d, n, x) = OP_ADD(cpu, 1, d, n, Imm(x))
  /\ OP_SUB_IMM3(cpu, d, n, x) = OP_SUB(cpu, 1, d, n, Imm(x))
  /\ OP_ADD_IMM8(cpu, d, x) = OP_ADD(cpu, 1, d, d, Imm(x))
  /\ OP_SUB_IMM8(cpu, d, x) = OP_SUB(cpu, 1, d, d, Imm(x))
  /\ OP_MOV_IMM8(cpu, d, x) = OP_MOV(cpu, 1, d, Imm(x))
  /\ OP_CMP_IMM8(cpu, n, x) = OP_CMP(cpu, n, Imm(x))

SpAgrees(d, x) ==
  /\ OP_ADD_2SP(cpu, d, x) = OP_ADD(cpu, 0, d, 13, Imm(W(4 * x)))
  /\ OP_ADJUST_P_SP(cpu, x) = OP_ADD(cpu, 0, 13, 13, Imm(W(4 * x)))
  /\ OP_ADJUST_M_SP(cpu, x) = OP_SUB(cpu, 0, 13, 13, Imm(W(4 * x)))
  /\ cpu.R[15] % 4 = 0 => OP_ADD_2PC(cpu, d, x) = OP_ADD(cpu, 0, d, 15, Imm(W(4 * x)))

\* Every data processing opcode of the Thumb interpreter leaves the registers
\* and the flags, kept ones included, as the ARM instruction it abbreviates.
ThumbAsArm ==
  \A d, m \in Regs :
    /\ ShiftsAgree(d, m)
    /\ LogicAgrees(d, m)
    /\ \A n \in Regs : SumsAgree(d, n, m)
    /\ \A x \in 0 .. 3 : ImmediatesAgree(d, m, x) /\ SpAgrees(d, x)
=============================================================================
