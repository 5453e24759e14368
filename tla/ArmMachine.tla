----------------------------- MODULE ArmMachine -----------------------------
(***************************************************************************)
(* The instructions of the interpreter that move data between registers    *)
(* and memory, one register or a list of them, and those that change the   *)
(* mode or the place: status register moves, branches, exceptions.         *)
(*                                                                         *)
(* A machine m is a record of a processor and a memory.  A byte is a       *)
(* quarter of a word.  Memory is the words of Cells: anything else reads   *)
(* as 0 and keeps nothing.  Numbers of cycles are left out, and so are the *)
(* shifts that make an offset: an offset is a number.                      *)
(*                                                                         *)
(* Then a processor that runs them in both instruction sets, from the      *)
(* state in which a game has given each mode its stack.  The program is    *)
(* any sequence of MaxSteps instructions.  What several instructions and   *)
(* several modes do together is in the properties: they run short programs *)
(* from every state reached.                                               *)
(***************************************************************************)
EXTENDS ArmState

CONSTANTS Cells,       \* addresses of the words of memory: multiples of 4
          Regs,        \* registers that an action loads and stores
          Bases,       \* registers that an action takes an address from
          Offsets,     \* the offsets it adds
          Lists,       \* the lists of registers that ARM instructions move
          LowLists,    \* and those of Thumb ones, of the registers up to r7
          StartModes,  \* modes a run starts in
          Code,        \* where a run starts
          MaxSteps     \* instructions in a run

VARIABLES cpu,    \* the processor, between two instructions
          mem,    \* the words of memory
          steps   \* instructions done

ByteSize == 2^(Bits \div 4)
HalfSize == 2^(Bits \div 2)
R(m, r) == m.cpu.R[r]
Into(m, r, v) == [m EXCEPT !.cpu.R[r] = v]

READ32(m, a) == LET c == a - (a % 4) IN IF c \in Cells THEN m.mem[c] ELSE 0
READ16(m, a) == (READ32(m, a) \div HalfSize^Bit(a, 1)) % HalfSize
READ8(m, a) == (READ32(m, a) \div ByteSize^(a % 4)) % ByteSize
WRITE32(m, a, v) == [m EXCEPT !.mem = [c \in Cells |-> IF c = a - (a % 4) THEN v ELSE @[c]]]
\* The word old with v in the place of its k-th part of that size.
PartWide(old, k, size, v) == old + (v - ((old \div size^k) % size)) * size^k
Part(old, k, size, v) == old + ((v % size) - ((old \div size^k) % size)) * size^k
WRITE16(m, a, v) == WRITE32(m, a, Part(READ32(m, a), Bit(a, 1), HalfSize, v))
WRITE8(m, a, v) == WRITE32(m, a, Part(READ32(m, a), a % 4, ByteSize, v))
Extend(v, size) == IF 2 * v >= size THEN Size - size + v ELSE v

\* how: "off" takes n + off and leaves n, "pre" takes it and writes it back,
\* "post" takes n and writes n + off back.
Address(m, n, off, how) == IF how = "post" THEN R(m, n) ELSE W(R(m, n) + off)
Base(m, n, off, how) == IF how = "off" THEN m ELSE Into(m, n, W(R(m, n) + off))
\* What a store takes from d: with "pre" the base is written before.
Source(m, d, n, off, how) == IF how = "pre" THEN R(Base(m, n, off, how), d) ELSE R(m, d)

\* A word loaded to r15 is a jump; on ARMv5 its low bit chooses the set.
LoadPC(m, v) ==
  LET pc == IF LDTBit = 1 THEN v - (v % 2) ELSE v - (v % 4)
  IN  [m EXCEPT !.cpu.R[15] = pc, !.cpu.next = pc, !.cpu.CPSR.T = IF LDTBit = 1 THEN v % 2 ELSE @]

\* A word read at an odd address comes rotated.
Rotated(m, a) ==
  LET v == READ32(m, a)
      k == (Bits \div 4) * (a % 4)
  IN  (v \div 2^k) + (v % 2^k) * 2^(Bits - k)
LoadWord(m, d, v) == IF d = 15 THEN LoadPC(m, v) ELSE Into(m, d, v)

OP_LDR(m, d, n, off) == LoadWord(m, d, Rotated(m, Address(m, n, off, "off")))
OP_LDR_W(m, d, n, off) == LoadWord(Base(m, n, off, "pre"), d, Rotated(m, Address(m, n, off, "pre")))
OP_LDR_W2(m, d, n, off) == LoadWord(Base(m, n, off, "post"), d, Rotated(m, Address(m, n, off, "post")))
OP_LDRB(m, d, n, off) == Into(m, d, READ8(m, Address(m, n, off, "off")))
OP_LDRB_PREIND(m, d, n, off) == Into(Base(m, n, off, "pre"), d, READ8(m, Address(m, n, off, "pre")))
OP_LDRB_POSTIND(m, d, n, off) == Into(Base(m, n, off, "post"), d, READ8(m, Address(m, n, off, "post")))
OP_LDRH(m, d, n, off, how) == Into(Base(m, n, off, how), d, READ16(m, Address(m, n, off, how)))
OP_LDRSH(m, d, n, off, how) == Into(Base(m, n, off, how), d, Extend(READ16(m, Address(m, n, off, how)), HalfSize))
OP_LDRSB(m, d, n, off, how) == Into(Base(m, n, off, how), d, Extend(READ8(m, Address(m, n, off, how)), ByteSize))

Store32(m, d, n, off, how) == WRITE32(Base(m, n, off, how), Address(m, n, off, how), Source(m, d, n, off, how))
Store8(m, d, n, off, how) == WRITE8(Base(m, n, off, how), Address(m, n, off, how), Source(m, d, n, off, how))
OP_STR(m, d, n, off) == Store32(m, d, n, off, "off")
OP_STR_PREIND(m, d, n, off) == Store32(m, d, n, off, "pre")
OP_STR_POSTIND(m, d, n, off) == Store32(m, d, n, off, "post")
OP_STRB(m, d, n, off) == Store8(m, d, n, off, "off")
OP_STRB_PREIND(m, d, n, off) == Store8(m, d, n, off, "pre")
OP_STRB_POSTIND(m, d, n, off) == Store8(m, d, n, off, "post")
StoreHalfHigh(m, d, n, off, how) ==
  WRITE16(Base(m, n, off, how), Address(m, n, off, how), Source(m, d, n, off, how) \div HalfSize)
OP_STRH(m, d, n, off, how) ==
  WRITE16(Base(m, n, off, how), Address(m, n, off, how), Source(m, d, n, off, how))

OP_LDREX(m, d, n) == Into(m, d, Rotated(m, R(m, n)))
OP_STREX(m, d, n, s) == Into(WRITE32(m, R(m, n), R(m, s)), d, 0)
OP_SWP(m, d, n, s) == Into(WRITE32(m, R(m, n), R(m, s)), d, Rotated(m, R(m, n)))
OP_SWPB(m, d, n, s) == Into(WRITE8(m, R(m, n), R(m, s)), d, READ8(m, R(m, n)))

\* Two registers, of which the first has an even number; else nothing moves.
StorePair(m, d, a, from) == WRITE32(WRITE32(m, a, R(from, d)), W(a + 4), R(from, d + 1))
LoadPair(m, d, a) == Into(Into(m, d, READ32(m, a)), d + 1, READ32(m, W(a + 4)))
OP_LDRD_STRD_POST_INDEX(m, store, d, n, off) ==
  LET b == Base(m, n, off, "post")
  IN  CASE d % 2 = 1            -> b
        [] d % 2 = 0 /\ store   -> StorePair(b, d, R(m, n), b)
        [] d % 2 = 0 /\ ~store  -> LoadPair(b, d, R(m, n))
OP_LDRD_STRD_OFFSET_PRE_INDEX(m, store, d, n, off, how) ==
  LET b == Base(m, n, off, how)
      a == Address(m, n, off, how)
  IN  CASE d % 2 = 1            -> m
        [] d % 2 = 0 /\ store   -> StorePair(b, d, a, m)
        [] d % 2 = 0 /\ ~store  -> LoadPair(b, d, a)
----------------------------------------------------------------------------
\* Lists: the registers lie in the order of their numbers, above the base ("IA",
\* "IB") or below it ("DA", "DB"), from the base on or from the word next to it.
SlotSkewed(how, start, list, r) == W(start + 4 * Cardinality({q \in list : q < r}))
Slot(how, start, list, r) ==
  LET below == Cardinality({q \in list : q < r})
      above == Cardinality({q \in list : q > r})
  IN  CASE how = "IA" -> W(start + 4 * below)
        [] how = "IB" -> W(start + 4 * (below + 1))
        [] how = "DA" -> W(start - 4 * above)
        [] how = "DB" -> W(start - 4 * (above + 1))
End(how, start, list) ==
  W(start + 4 * Cardinality(list) * (IF how \in {"IA", "IB"} THEN 1 ELSE -1))

\* The registers of at, a function to addresses, from memory and to it.
LoadAt(m, at) ==
  [m EXCEPT !.cpu.R = [r \in 0 .. 15 |-> IF r \in DOMAIN at THEN READ32(m, at[r]) ELSE @[r]]]
StoreAt(m, at) ==
  [m EXCEPT !.mem = [c \in Cells |->
     IF \E r \in DOMAIN at : c = at[r] - (at[r] % 4)
     THEN R(m, CHOOSE r \in DOMAIN at : c = at[r] - (at[r] % 4)) ELSE @[c]]]
Slots(m, how, list, n) == [r \in list |-> Slot(how, R(m, n), list, r)]
General(m, how, list, n) == [r \in list \ {15} |-> Slot(how, R(m, n), list, r)]
Word15(m, how, list, n) == READ32(m, Slot(how, R(m, n), list, 15))

OP_LDM(m, how, list, n) ==
  LET l == LoadAt(m, General(m, how, list, n))
  IN  IF 15 \in list THEN LoadPC(l, Word15(m, how, list, n)) ELSE l
\* The end goes back to the base, loaded or not, unless it is the last loaded.
OP_LDM_W(m, how, list, n) ==
  LET l == OP_LDM(m, how, list, n)
  IN  IF n \notin list \/ \E r \in list : r > n THEN Into(l, n, End(how, R(m, n), list)) ELSE l

\* With ^ and without r15, the user's registers; not done where they are the
\* current ones.
Mode(m) == m.cpu.CPSR.mode
In(m, mode) == [m EXCEPT !.cpu = switchMode(@, mode)]
LoadHere(m, how, list, n, wb) ==
  LET l == LoadAt(m, General(m, how, list, n))
  IN  IF wb /\ n \notin list THEN Into(l, n, End(how, R(m, n), list)) ELSE l
LoadUser(m, how, list, n, wb) ==
  LET l == LoadAt(In(m, SYS), General(m, how, list, n))
      b == IF wb /\ n \notin list THEN Into(l, n, End(how, R(m, n), list)) ELSE l
  IN  IF Mode(m) \in {USR, SYS} THEN m ELSE In(b, Mode(m))
\* With ^ and r15, a return from an exception.  early: the status is copied
\* before the mode is left, so the registers of this mode go to the other's bank.
Return(m, v, early) ==
  LET pc == v - (v % 4) + 2 * Bit(v, 0) * Bit(v, 1)
  IN  [m EXCEPT !.cpu = ReturnTo(IF early THEN [@ EXCEPT !.CPSR = m.cpu.SPSR] ELSE @, pc)]

OP_LDM2(m, how, list, n) ==
  IF 15 \notin list THEN LoadUser(m, how, list, n, FALSE)
  ELSE Return(LoadAt(m, General(m, how, list, n)), Word15(m, how, list, n), how \in {"DA", "DB"})
OP_LDM2_W(m, how, list, n) ==
  LET l == LoadAt(m, General(m, how, list, n))
      b == IF n \notin list THEN Into(l, n, End(how, R(m, n), list)) ELSE l
  IN  IF 15 \notin list THEN LoadUser(m, how, list, n, TRUE)
      ELSE Return(b, Word15(m, how, list, n), how \in {"IB", "DB"})

OP_STM(m, how, list, n) == StoreAt(m, Slots(m, how, list, n))
OP_STM_W(m, how, list, n) == Into(StoreAt(m, Slots(m, how, list, n)), n, End(how, R(m, n), list))
OP_STM2(m, how, list, n) ==
  IF Mode(m) = USR THEN m ELSE In(StoreAt(In(m, SYS), Slots(m, how, list, n)), Mode(m))
\* The base is written to the user's register, with IB to the current one.
OP_STM2_W(m, how, list, n) ==
  LET s == StoreAt(In(m, SYS), Slots(m, how, list, n))
      e == End(how, R(m, n), list)
  IN  CASE Mode(m) = USR                -> m
        [] Mode(m) # USR /\ how = "IB"  -> Into(In(s, Mode(m)), n, e)
        [] Mode(m) # USR /\ how # "IB"  -> In(Into(s, n, e), Mode(m))
-----------------------------------------------------------------------------
(***************************************************************************)
(* The loads, stores, stack instructions and branches of the Thumb         *)
(* interpreter, which shares with the ARM one only the access to memory.   *)
(* x is an immediate of the opcode, counted in the units it has there.     *)
(***************************************************************************)

OP_STRB_IMM_OFF(m, d, n, x) == WRITE8(m, W(R(m, n) + x), R(m, d))
OP_LDRB_IMM_OFF(m, d, n, x) == Into(m, d, READ8(m, W(R(m, n) + x)))
OP_STRB_REG_OFF(m, d, n, o) == WRITE8(m, W(R(m, n) + R(m, o)), R(m, d))
OP_LDRB_REG_OFF(m, d, n, o) == Into(m, d, READ8(m, W(R(m, n) + R(m, o))))
OP_LDRSB_REG_OFF(m, d, n, o) == Into(m, d, Extend(READ8(m, W(R(m, n) + R(m, o))), ByteSize))
OP_STRH_IMM_OFF(m, d, n, x) == WRITE16(m, W(R(m, n) + 2 * x), R(m, d))
OP_LDRH_IMM_OFF(m, d, n, x) == Into(m, d, READ16(m, W(R(m, n) + 2 * x)))
OP_STRH_REG_OFF(m, d, n, o) == WRITE16(m, W(R(m, n) + R(m, o)), R(m, d))
OP_LDRH_REG_OFF(m, d, n, o) == Into(m, d, READ16(m, W(R(m, n) + R(m, o))))
OP_LDRSH_REG_OFF(m, d, n, o) == Into(m, d, Extend(READ16(m, W(R(m, n) + R(m, o))), HalfSize))
OP_STR_IMM_OFF(m, d, n, x) == WRITE32(m, W(R(m, n) + 4 * x), R(m, d))
OP_LDR_IMM_OFF(m, d, n, x) == Into(m, d, Rotated(m, W(R(m, n) + 4 * x)))
OP_STR_REG_OFF(m, d, n, o) == WRITE32(m, W(R(m, o) + R(m, n)), R(m, d))
OP_LDR_REG_OFF(m, d, n, o) == Into(m, d, Rotated(m, W(R(m, n) + R(m, o))))
OP_STR_SPREL(m, d, x) == WRITE32(m, W(R(m, 13) + 4 * x), R(m, d))
OP_LDR_SPREL(m, d, x) == Into(m, d, READ32(m, W(R(m, 13) + 4 * x)))
OP_LDR_PCREL(m, d, x) == Into(m, d, READ32(m, W(R(m, 15) - (R(m, 15) % 4) + 4 * x)))

\* The highest register first, down from the word under the stack pointer.
Down(list, adr) == [r \in list |-> W(adr - 4 * Cardinality({q \in list : q > r}))]
Up(list, adr) == [r \in list |-> W(adr + 4 * Cardinality({q \in list : q < r}))]

OP_PUSH(m, list) ==
  Into(StoreAt(m, Down(list, W(R(m, 13) - 4))), 13, W(R(m, 13) - 4 * Cardinality(list)))
PushLrLow(m, list) ==
  LET s == StoreAt(m, Down(list, W(R(m, 13) - 4)))
      a == W(R(m, 13) - 4 - 4 * Cardinality(list))
  IN  Into(WRITE32(s, a, R(m, 14)), 13, a)
OP_PUSH_LR(m, list) ==
  LET s == StoreAt(WRITE32(m, W(R(m, 13) - 4), R(m, 14)), Down(list, W(R(m, 13) - 8)))
  IN  Into(s, 13, W(R(m, 13) - 4 - 4 * Cardinality(list)))
OP_POP(m, list) ==
  Into(LoadAt(m, Up(list, R(m, 13))), 13, W(R(m, 13) + 4 * Cardinality(list)))
OP_POP_PC(m, list) ==
  LET adr == W(R(m, 13) + 4 * Cardinality(list))
      v   == READ32(m, adr)
  IN  [LoadAt(m, Up(list, R(m, 13))) EXCEPT
         !.cpu.CPSR.T = IF LDTBit = 1 THEN v % 2 ELSE @,
         !.cpu.R[15] = v - (v % 2), !.cpu.next = v - (v % 2), !.cpu.R[13] = W(adr + 4)]

OP_STMIA_THUMB(m, list, n) ==
  Into(StoreAt(m, Up(list, R(m, n))), n, W(R(m, n) + 4 * Cardinality(list)))
\* A base in the list keeps what is loaded.
OP_LDMIA_THUMB(m, list, n) ==
  LET l == LoadAt(m, Up(list, R(m, n)))
  IN  IF n \in list THEN l ELSE Into(l, n, W(R(m, n) + 4 * Cardinality(list)))

Jump(m, pc) == [m EXCEPT !.cpu.R[15] = pc, !.cpu.next = pc]
OP_B_COND(m, cond, off) ==
  IF TEST_COND(m.cpu.CPSR, cond) THEN Jump(m, W(R(m, 15) + 2 * off)) ELSE m
OP_B_UNCOND(m, off) == Jump(m, W(R(m, 15) + 2 * off))

\* A call is two opcodes: the first leaves the high part of the target in r14,
\* the second jumps and leaves the way back there.
OP_BL_10(m, high) == Into(m, 14, W(R(m, 15) + high))
OddNext(m) == m.cpu.next + 1 - (m.cpu.next % 2)
BL_11Even(m, low) == [Jump(m, W(R(m, 14) + 2 * low)) EXCEPT !.cpu.R[14] = m.cpu.next]
OP_BL_11(m, low) == [Jump(m, W(R(m, 14) + 2 * low)) EXCEPT !.cpu.R[14] = OddNext(m)]
OP_BLX(m, low) ==
  LET to == W(R(m, 14) + 2 * low)
  IN  [Jump(m, to - (to % 4)) EXCEPT !.cpu.R[14] = OddNext(m), !.cpu.CPSR.T = 0]
OP_BX_THUMB(m, r) == [m EXCEPT !.cpu = BranchTo(@, @.R[r])]
OP_BLX_THUMB(m, r) ==
  LET v == R(m, r)
  IN  [Jump(m, v - (v % 2)) EXCEPT !.cpu.CPSR.T = v % 2, !.cpu.R[14] = OddNext(m)]

------------------------------------------------------------------------------
\* Every mode has its stack, and values of its own in its registers; the status
\* to return to is that of s.
Index(mode) == CASE mode = USR -> 0 [] mode = FIQ -> 1 [] mode = IRQ -> 2
                 [] mode = SVC -> 3 [] mode = ABT -> 4 [] mode = UND -> 5 [] mode = SYS -> 0
Stack(mode) == 12 + 12 * Index(mode)
Own(mode, r) ==
  CASE r = 13 -> Stack(mode)
    [] r = 14 -> W(4096 + 514 * Index(mode))
    [] OTHER  -> W(1 + 2 * r + 300 * Index(mode))
Started(mode, s, t) ==
  [R |-> [r \in 0 .. 15 |-> IF r < 8 THEN 5 * r ELSE IF r \in 13 .. 14 \/ mode = FIQ THEN Own(mode, r) ELSE Own(USR, r)],
   CPSR |-> [StatusOf(mode) EXCEPT !.T = t, !.C = 1],
   SPSR |-> [StatusOf(s) EXCEPT !.T = 1 - t, !.Z = 1],
   bank |-> [m \in Modes \ {SYS} |-> [r \in Banked(m) |->
               IF m = FIQ /\ mode = FIQ /\ r \in FiqOnly THEN Own(USR, r) ELSE Own(m, r)]],
   saved |-> [m \in Exceptions |-> [StatusOf(USR) EXCEPT !.F = Index(m) % 2, !.V = 1]],
   adr |-> 0, next |-> Code]

Init ==
  /\ \E mode \in StartModes : \E s \in StartModes \ {SYS, mode}, t \in 0 .. 1 : cpu = Started(mode, s, t)
  /\ mem = [c \in Cells |-> W(36941 + 1027 * c)]
  /\ steps = 0

\* The instruction at cpu.next is fetched and carried out.
M == [cpu |-> prefetch(cpu, cpu.next), mem |-> mem]
Arm == cpu.CPSR.T = 0
Thumb == cpu.CPSR.T = 1
Becomes(m) == cpu' = m.cpu /\ mem' = m.mem
Does(c) == Becomes([M EXCEPT !.cpu = c])
Hows == {"off", "pre", "post"}
Ways == {"IA", "IB", "DA", "DB"}

Loads ==
  /\ Arm
  /\ \E d \in Regs, n \in Bases, off \in Offsets, how \in Hows :
       \/ Becomes(OP_LDR(M, d, n, off))
       \/ Becomes(OP_LDR_W(M, d, n, off))
       \/ Becomes(OP_LDR_W2(M, d, n, off))
       \/ d # 15 /\ Becomes(OP_LDRB(M, d, n, off))
       \/ d # 15 /\ Becomes(OP_LDRB_PREIND(M, d, n, off))
       \/ d # 15 /\ Becomes(OP_LDRB_POSTIND(M, d, n, off))
       \/ d # 15 /\ Becomes(OP_LDRH(M, d, n, off, how))
       \/ d # 15 /\ Becomes(OP_LDRSH(M, d, n, off, how))
       \/ d # 15 /\ Becomes(OP_LDRSB(M, d, n, off, how))
       \/ d # 15 /\ Becomes(OP_LDREX(M, d, n))
       \/ d # 15 /\ Becomes(OP_SWP(M, d, n, d))
       \/ d # 15 /\ Becomes(OP_SWPB(M, d, n, d))

Stores ==
  /\ Arm
  /\ \E d \in Regs, n \in Bases, off \in Offsets, how \in Hows :
       \/ Becomes(OP_STR(M, d, n, off))
       \/ Becomes(OP_STR_PREIND(M, d, n, off))
       \/ Becomes(OP_STR_POSTIND(M, d, n, off))
       \/ Becomes(OP_STRB(M, d, n, off))
       \/ Becomes(OP_STRB_PREIND(M, d, n, off))
       \/ Becomes(OP_STRB_POSTIND(M, d, n, off))
       \/ Becomes(OP_STRH(M, d, n, off, how))
       \/ d # 15 /\ Becomes(OP_STREX(M, d, n, 0))

Pairs ==
  /\ Arm
  /\ \E d \in Regs \ {15}, n \in Bases, off \in Offsets, store \in BOOLEAN, how \in {"off", "pre"} :
       \/ Becomes(OP_LDRD_STRD_POST_INDEX(M, store, d, n, off))
       \/ Becomes(OP_LDRD_STRD_OFFSET_PRE_INDEX(M, store, d, n, off, how))

Blocks ==
  /\ Arm
  /\ \E list \in Lists, n \in Bases, how \in Ways :
       \/ Becomes(OP_LDM(M, how, list, n))
       \/ Becomes(OP_LDM_W(M, how, list, n))
       \/ Becomes(OP_LDM2(M, how, list, n))
       \/ Becomes(OP_LDM2_W(M, how, list, n))
       \/ Becomes(OP_STM(M, how, list, n))
       \/ Becomes(OP_STM_W(M, how, list, n))
       \/ Becomes(OP_STM2(M, how, list, n))
       \/ Becomes(OP_STM2_W(M, how, list, n))

\* Status words that a program would write.
Written == {Val([StatusOf(mode) EXCEPT !.I = 1, !.N = 1]) : mode \in StartModes}
Fields == {{"control"}, {"flags"}, {"control", "flags"}}

StatusMoves ==
  /\ Arm
  /\ \E x \in Written, f \in Fields, spsr \in BOOLEAN :
       \/ Does(OP_MRS(M.cpu, 0, spsr))
       \/ Does(OP_MSR_CPSR(M.cpu, f, x))
       \/ Does(OP_MSR_SPSR(M.cpu, f, x))
       \/ Does(OP_MSR_SPSR_IMM_VAL(M.cpu, f, x))

Branches ==
  /\ Arm
  /\ \E link, exchange \in BOOLEAN, r \in Regs \ {15} :
       \/ Does(OP_B(M.cpu, link, exchange, 5))
       \/ Does(OP_BX(M.cpu, r))
       \/ Does(OP_BLX_REG(M.cpu, r))

ThumbSingles ==
  /\ Thumb
  /\ \E d, n, o \in Regs \cap 0 .. 7, x \in 1 .. 2 :
       \/ Becomes(OP_STRB_IMM_OFF(M, d, n, x))
       \/ Becomes(OP_LDRB_IMM_OFF(M, d, n, x))
       \/ Becomes(OP_STRB_REG_OFF(M, d, n, o))
       \/ Becomes(OP_LDRB_REG_OFF(M, d, n, o))
       \/ Becomes(OP_LDRSB_REG_OFF(M, d, n, o))
       \/ Becomes(OP_STRH_IMM_OFF(M, d, n, x))
       \/ Becomes(OP_LDRH_IMM_OFF(M, d, n, x))
       \/ Becomes(OP_STRH_REG_OFF(M, d, n, o))
       \/ Becomes(OP_LDRH_REG_OFF(M, d, n, o))
       \/ Becomes(OP_LDRSH_REG_OFF(M, d, n, o))
       \/ Becomes(OP_STR_IMM_OFF(M, d, n, x))
       \/ Becomes(OP_LDR_IMM_OFF(M, d, n, x))
       \/ Becomes(OP_STR_REG_OFF(M, d, n, o))
       \/ Becomes(OP_LDR_REG_OFF(M, d, n, o))
       \/ Becomes(OP_STR_SPREL(M, d, x))
       \/ Becomes(OP_LDR_SPREL(M, d, x))
       \/ Becomes(OP_LDR_PCREL(M, d, x))

ThumbBlocks ==
  /\ Thumb
  /\ \E list \in LowLists, n \in Bases \cap 0 .. 7 :
       \/ Becomes(OP_PUSH(M, list))
       \/ Becomes(OP_PUSH_LR(M, list))
       \/ Becomes(OP_POP(M, list))
       \/ Becomes(OP_POP_PC(M, list))
       \/ Becomes(OP_STMIA_THUMB(M, list, n))
       \/ Becomes(OP_LDMIA_THUMB(M, list, n))

ThumbBranches ==
  /\ Thumb
  /\ \E cond \in {"EQ", "CS"}, r \in Regs \ {15} :
       \/ Becomes(OP_B_COND(M, cond, 3))
       \/ Becomes(OP_B_UNCOND(M, 3))
       \/ Becomes(OP_BL_10(M, 256))
       \/ Becomes(OP_BL_11(M, 3))
       \/ Becomes(OP_BLX(M, 3))
       \/ Becomes(OP_BX_THUMB(M, r))
       \/ Becomes(OP_BLX_THUMB(M, r))

\* An interrupt comes before the instruction, a trap from it.
Exception ==
  \/ cpu.CPSR.I = 0 /\ Does(irqException(M.cpu))
  \/ Does(OP_SWI(M.cpu))
  \/ Does(OP_UND(M.cpu))

Next ==
  /\ steps < MaxSteps
  /\ steps' = steps + 1
  /\ \/ Loads \/ Stores \/ Pairs \/ Blocks \/ StatusMoves \/ Branches
     \/ ThumbSingles \/ ThumbBlocks \/ ThumbBranches \/ Exception

vars == <<cpu, mem, steps>>
Spec == Init /\ [][Next]_vars
----------------------------------------------------------------------------
\* Processor and memory have their types.
TypeOK == Processor(cpu) /\ mem \in [Cells -> Word] /\ steps \in 0 .. MaxSteps

\* Register r as mode m would see it, and the status that mode would return to.
Sees(c, m, r) ==
  LET now == c.CPSR.mode
  IN  CASE r \in FiqOnly  -> IF (m = FIQ) = (now = FIQ) THEN c.R[r] ELSE c.bank[FIQ][r]
        [] r \in 13 .. 14 -> IF BankOf(m) = BankOf(now) THEN c.R[r] ELSE c.bank[BankOf(m)][r]
        [] OTHER          -> c.R[r]
ReturnsTo(c, m) == IF m = c.CPSR.mode THEN c.SPSR ELSE c.saved[m]
\* c and d differ at most in what modes see and return to.
SameBut(c, d, modes) ==
  \A m \in Modes \ modes :
    /\ \A r \in 8 .. 14 : Sees(c, m, r) = Sees(d, m, r)
    /\ m \in Exceptions => ReturnsTo(c, m) = ReturnsTo(d, m)
SameLow(c, d) == \A r \in 0 .. 7 : c.R[r] = d.R[r]

\* A change of mode loses nothing: every mode sees its own registers and status
\* after any two changes in a row, and the one entered finds its own in place.
BanksKept ==
  \A a, b \in Modes :
    LET c == switchMode(switchMode(cpu, a), b)
    IN  /\ SameBut(cpu, c, {}) /\ SameLow(cpu, c)
        /\ \A r \in 8 .. 14 : c.R[r] = Sees(cpu, b, r)
        /\ b \in Exceptions => c.SPSR = ReturnsTo(cpu, b)

\* A list with ^ moves the registers that the user sees, from any other mode,
\* and nothing that only another mode sees changes on the way.
UserRegisters ==
  \A list \in Lists, how \in Ways : 15 \notin list =>
    LET l  == OP_LDM2(M, how, list, 0).cpu
        lw == OP_LDM2_W(M, how, list, 0).cpu
        s  == OP_STM2(M, how, list, 0)
        Kept(c) == \A m \in Exceptions :
                     ReturnsTo(c, m) = ReturnsTo(cpu, m) /\ \A r \in Banked(m) : Sees(c, m, r) = Sees(cpu, m, r)
        At(r) == Slot(how, cpu.R[0], list, r)
    IN  /\ cpu.CPSR.mode \in Exceptions =>
             /\ \A r \in list : Sees(l, USR, r) = READ32(M, At(r)) /\ Sees(lw, USR, r) = READ32(M, At(r))
             /\ \A r \in 8 .. 14 \ list : Sees(l, USR, r) = Sees(cpu, USR, r)
             /\ Kept(l) /\ Kept(lw) /\ l.CPSR = cpu.CPSR /\ lw.CPSR = cpu.CPSR
        /\ cpu.CPSR.mode # USR =>
             /\ SameBut(cpu, s.cpu, {}) /\ s.cpu.CPSR = cpu.CPSR
             /\ \A r \in list : At(r) - (At(r) % 4) \in Cells => READ32(s, At(r)) = Sees(cpu, USR, r)

\* What is pushed is popped: a list stored in one direction and loaded in the
\* other comes back with the stack pointer where it was, and without writing
\* back, from the place where it was stored.
Other(how) == CASE how = "IA" -> "DB" [] how = "DB" -> "IA" [] how = "IB" -> "DA" [] how = "DA" -> "IB"
Forget(m, list) == [m EXCEPT !.cpu.R = [r \in 0 .. 15 |-> IF r \in list THEN 0 ELSE @[r]]]
InCells(m, how, list, n) == \A r \in list : Slot(how, R(m, n), list, r) - (Slot(how, R(m, n), list, r) % 4) \in Cells
StackBalance ==
  \A list \in Lists \cup LowLists, how \in Ways, n \in {6, 13} :
    LET l == list \ {15, n}
        b == Into(M, n, R(M, n) - (R(M, n) % 4))
        s == OP_STM_W(b, how, l, n)
        t == OP_STM(b, how, list, n)
    IN  /\ InCells(b, how, l, n) => OP_LDM_W(Forget(s, l), Other(how), l, n).cpu = b.cpu
        /\ InCells(b, how, list, n) /\ 15 \notin list => OP_LDM(Forget(t, list \ {n}), how, list, n).cpu = b.cpu

\* An exception from one mode into another: its handler saves what it uses on
\* its own stack, may take a second exception in system mode, and returns by a
\* data instruction or by a list with ^.  Then everything is as it was but for
\* the link register and the saved status of the handler's modes.
ModeFor(e) == CASE e = "irq" -> IRQ [] e = "swi" -> SVC [] e = "und" -> UND
Enter(c, e) == CASE e = "irq" -> irqException(c) [] e = "swi" -> OP_SWI(c) [] e = "und" -> OP_UND(c)
Resume(e) == IF e = "irq" THEN M.cpu.adr ELSE M.cpu.next
Ended(c) == ReturnAligned(c, c.R[14])
\* A second exception, taken and ended in system mode: one of another mode, as
\* the handler has not saved the status of its own.
Second(e) == IF e = "swi" THEN "und" ELSE "swi"
Nested(c, e) ==
  LET s == OP_MSR_CPSR(c, {"control"}, SYS + 128)
      f == Enter(prefetch(s, s.next), Second(e))
  IN  OP_MSR_CPSR(Ended(f), {"control"}, c.CPSR.mode + 128)
Handled(e, how, nested, byList) ==
  LET f == [M EXCEPT !.cpu = Enter(@, e)]
      g == Into(f, 14, IF e = "irq" THEN W(R(f, 14) - 4) ELSE R(f, 14))
      p == OP_STM_W(g, how, {0, 1, 14}, 13)
      h == Forget([p EXCEPT !.cpu = IF nested THEN Nested(@, e) ELSE @], {0, 1})
  IN  IF byList THEN OP_LDM2_W([h EXCEPT !.cpu.R[14] = 0], Other(how), {0, 1, 15}, 13).cpu
      ELSE Ended(OP_LDM_W(h, Other(how), {0, 1, 14}, 13).cpu)
\* The lists that copy the status too early, or to an odd halfword, are left out.
Sound(e, how, byList) == byList => how \in {"DB", "IB"} /\ Resume(e) % 4 = 0
HandlerReturns ==
  \A e \in {"irq", "swi", "und"}, how \in Ways, nested, byList \in BOOLEAN :
    LET c == Handled(e, how, nested, byList)
        own == {ModeFor(e)} \cup IF nested THEN {ModeFor(Second(e))} ELSE {}
        f == [M EXCEPT !.cpu = Enter(@, e)]
    IN  (cpu.CPSR.mode \notin own /\ Sound(e, how, byList) /\ InCells(f, how, {0, 1, 14}, 13)) =>
          /\ c.CPSR = cpu.CPSR /\ c.next = Resume(e) /\ c.R[15] = Resume(e)
          /\ SameLow(c, cpu) /\ SameBut(c, cpu, own)
          /\ \A m \in own : Sees(c, m, 13) = Sees(cpu, m, 13)

\* A call in either set comes back in the set of the caller, after the call,
\* whichever the set of the callee, also where an interrupt comes between the
\* two halves of a call in Thumb.
Fetched(m) == [m EXCEPT !.cpu = prefetch(@, @.next)]
Back(m) == IF m.cpu.CPSR.T = 1 THEN OP_BX_THUMB(m, 14).cpu ELSE OP_BX(m.cpu, 14)
Comes(m, to) == Back(m).next = to /\ Back(m).CPSR = cpu.CPSR
Interrupted(m) ==
  LET f == irqException(prefetch(m.cpu, m.cpu.next)) IN [m EXCEPT !.cpu = ReturnAligned(f, W(f.R[14] - 4))]
CallReturns ==
  LET first == OP_BL_10(M, 256)
      after == M.cpu.next
  IN  IF Arm
      THEN /\ \A exchange \in BOOLEAN : Comes([M EXCEPT !.cpu = OP_B(@, TRUE, exchange, 5)], after)
           /\ \A r \in Regs \ {14, 15} : Comes([M EXCEPT !.cpu = OP_BLX_REG(@, r)], after)
      ELSE \A m \in {first} \cup (IF cpu.CPSR.mode = IRQ THEN {} ELSE {Interrupted(first)}) :
             LET s == Fetched(m)
                 call == OP_BL_11(s, 3)
                 push == OP_PUSH_LR(call, {0, 5})
             IN  /\ Comes(call, s.cpu.next) /\ Comes(OP_BLX(s, 3), s.cpu.next)
                 /\ Comes(OP_BLX_THUMB(s, 0), s.cpu.next)
                 /\ call.cpu.next = W(M.cpu.R[15] + 256 + 6)
                 /\ InCells(call, "DB", {0, 5, 14}, 13) /\ LDTBit = 1 =>
                      LET pop == OP_POP_PC(push, {0, 5}).cpu
                      IN  pop.next = s.cpu.next /\ pop.CPSR = cpu.CPSR

\* Bytes, halves and words of one place fit together, stored and loaded, and a
\* pair is two words.
ByteOrder ==
  \A a \in 16 .. 23, v \in {R(M, 14), Size - 1 - R(M, 14)} :
    LET b == Into(Into(Into(M, 2, a), 3, v), 4, v)
        w == OP_STR(b, 3, 2, 0)
        h == OP_STRH(w, 4, 2, 0, "off")
        by == OP_STRB_PREIND(w, 0, 2, 0)
        L(m, off) == R(OP_LDRB(m, 0, 2, off), 0)
        H(m, off) == R(OP_LDRH(m, 0, 2, off, "off"), 0)
        word == a - (a % 4)
    IN  /\ R(OP_LDR(w, 0, 2, 0), 0) % ByteSize = L(w, 0)
        /\ L(w, W(word - a)) + ByteSize * L(w, W(word + 1 - a)) = H(w, W(word - a))
        /\ H(w, W(word - a)) + HalfSize * H(w, W(word + 2 - a)) = v
        /\ H(h, 0) = v % HalfSize /\ H(h, 2) = H(w, 2)
        /\ R(OP_LDRSH(h, 0, 2, 0, "off"), 0) % HalfSize = H(h, 0)
        /\ (Signed(R(OP_LDRSH(h, 0, 2, 0, "off"), 0)) < 0) = (2 * H(h, 0) >= HalfSize)
        /\ L(by, 0) = R(M, 0) % ByteSize /\ L(by, 1) = L(w, 1)
        /\ a % 4 = 0 =>
             LET p == OP_LDRD_STRD_OFFSET_PRE_INDEX(M, FALSE, 4, 2, 0, "off")
                 d == OP_LDRD_STRD_POST_INDEX(Into(b, 4, R(M, 0)), TRUE, 4, 2, 8)
             IN  /\ R(d, 2) = a + 8
                 /\ READ32(d, a) = R(M, 0) /\ READ32(d, a + 4) = R(M, 5)
                 /\ R(p, 4) = READ32(M, R(M, 2)) /\ R(p, 5) = READ32(M, W(R(M, 2) + 4))

\* The transfers of Thumb do what the ARM instructions they abbreviate do.
TransferAsArm ==
  \A list \in LowLists, n \in {0, 6}, d \in {1, 5}, x \in 0 .. 2 :
    /\ OP_PUSH(M, list) = OP_STM_W(M, "DB", list, 13)
    /\ OP_PUSH_LR(M, list) = OP_STM_W(M, "DB", list \cup {14}, 13)
    /\ OP_POP(M, list) = OP_LDM_W(M, "IA", list, 13)
    /\ LDTBit = 1 => OP_POP_PC(M, list) = OP_LDM_W(M, "IA", list \cup {15}, 13)
    /\ OP_STMIA_THUMB(M, list, n) = OP_STM_W(M, "IA", list, n)
    /\ n \notin list => OP_LDMIA_THUMB(M, list, n) = OP_LDM_W(M, "IA", list, n)
    /\ OP_STRB_IMM_OFF(M, d, n, x) = OP_STRB(M, d, n, x)
    /\ OP_LDRB_IMM_OFF(M, d, n, x) = OP_LDRB(M, d, n, x)
    /\ OP_STRH_IMM_OFF(M, d, n, x) = OP_STRH(M, d, n, 2 * x, "off")
    /\ OP_LDRH_IMM_OFF(M, d, n, x) = OP_LDRH(M, d, n, 2 * x, "off")
    /\ OP_STR_IMM_OFF(M, d, n, x) = OP_STR(M, d, n, 4 * x)
    /\ OP_LDR_IMM_OFF(M, d, n, x) = OP_LDR(M, d, n, 4 * x)
    /\ \A o \in {2} :
         /\ OP_STRB_REG_OFF(M, d, n, o) = OP_STRB(M, d, n, R(M, o))
         /\ OP_LDRB_REG_OFF(M, d, n, o) = OP_LDRB(M, d, n, R(M, o))
         /\ OP_LDRSB_REG_OFF(M, d, n, o) = OP_LDRSB(M, d, n, R(M, o), "off")
         /\ OP_STRH_REG_OFF(M, d, n, o) = OP_STRH(M, d, n, R(M, o), "off")
         /\ OP_LDRH_REG_OFF(M, d, n, o) = OP_LDRH(M, d, n, R(M, o), "off")
         /\ OP_LDRSH_REG_OFF(M, d, n, o) = OP_LDRSH(M, d, n, R(M, o), "off")
         /\ OP_STR_REG_OFF(M, d, n, o) = OP_STR(M, d, n, R(M, o))
         /\ OP_LDR_REG_OFF(M, d, n, o) = OP_LDR(M, d, n, R(M, o))
    /\ OP_STR_SPREL(M, d, x) = OP_STR(M, d, 13, 4 * x)
    /\ R(M, 13) % 4 = 0 => OP_LDR_SPREL(M, d, x) = OP_LDR(M, d, 13, 4 * x)
    /\ R(M, 15) % 4 = 0 => OP_LDR_PCREL(M, d, x) = OP_LDR(M, d, 15, 4 * x)
==============================================================================
