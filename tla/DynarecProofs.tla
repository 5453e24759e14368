----------------------------- MODULE DynarecProofs -----------------------------
(***************************************************************************)
(* Proofs about Dynarec for every size of memory and cache, both sets of   *)
(* instructions, every program and every choice of stores: the types, that *)
(* blocks lie apart, that links lead into the cache, and that a processor  *)
(* does not go on in what its own store dropped, and that blocks are what  *)
(* memory holds but for what was stored out of sight of write_smc_check.   *)
(***************************************************************************)
EXTENDS Dynarec, FiniteSetTheorems, SequenceTheorems, WellFoundedInduction, TLAPS

\* A block runs from its start to an instruction that leaves it in any case.
Spans(b, e) ==
  /\ e \in Pcs /\ b.pc <= e
  /\ b.code \in [b.pc .. e + Step - 1 -> Values]
  /\ Instr(b.code, e).kind \in {"goto", "bx"}
Shaped(b) == b \in Blocks /\ \E e \in Pcs : Spans(b, e)

GoodPlace(l) == l \in Places /\ Shaped(l.block) /\ l.pc \in DOMAIN l.block.code

\* Memory is of the game's values and always ends in a jump.
MemoryEnds == mem \in [Addr -> Values] /\ Instr(mem, Final).kind \in {"goto", "bx"}

Registers ==
  /\ table \in [Addr -> {None} \cup 0 .. Limit]
  /\ blind \subseteq (0 .. Limit) \X Addr
  /\ ptr \in 0 .. Limit
  /\ flushes \in Nat
  /\ phase \in {"out", "lookup", "run", "lost"}
  /\ want \in {None} \cup Pcs
  /\ cpu \in Procs
  /\ place \in [Procs -> Places \cup [fate : Fates]]
  /\ PC \in [Procs -> Pcs]
  /\ changed \in [Procs -> 0 .. 2]

\* The cache below ptr is made of whole blocks, none over another.
CacheFilled ==
  /\ \A b \in blocks : Shaped(b) /\ Cells(b) \subseteq 0 .. ptr - 1
  /\ BlocksApart

\* The calls of translate_block that are under way, the innermost last.
Calls ==
  /\ frames \in Seq([block : blocks, exits : SUBSET Pcs])
  /\ \A i \in 1 .. Len(frames) : frames[i].exits \subseteq Exits(frames[i].block)
  /\ phase # "lookup" => frames = <<>> /\ want = None
  /\ phase = "lookup" /\ want = None => frames # <<>>

\* An exit is linked to a block of the cache, or to be linked still, or it is the one
\* that is being looked up.
Linked(to) == \E t \in blocks : t.pc = to
LinksMade ==
  /\ \A b \in blocks : ~Linking(b) => \A a \in Exits(b) : Linked(Instr(b.code, a).to)
  /\ \A i \in 1 .. Len(frames) : \A a \in Exits(frames[i].block) \ frames[i].exits :
       \/ Linked(Instr(frames[i].block.code, a).to)
       \/ i = Len(frames) /\ want = Instr(frames[i].block.code, a).to

\* A processor that may go on stands in a block, one that is still in the cache unless
\* a store multiple dropped it; the block its own store dropped it leaves at once.
PlacesKept ==
  /\ \A p \in Procs :
       /\ place[p].fate \in {"live", "stm"} => GoodPlace(place[p])
       /\ place[p].fate = "live" => place[p].block \in blocks
       /\ place[p].fate = "own" => phase = "lookup" /\ p = cpu
  /\ phase = "run" => place[cpu].fate \in {"live", "stm"}

Inv == MemoryEnds /\ Registers /\ CacheFilled /\ Calls /\ LinksMade /\ PlacesKept

\* The page table knows every instruction of every block.
Marked == \A b \in blocks : \A a \in Pcs \cap DOMAIN b.code : table[a] # None
Fresh == Marked /\ Coherent

--------------------------------------------------------------------------------
(* Addresses and blocks *)

\* A set of naturals that is not empty has a least element.
LEMMA LeastElement ==
  ASSUME NEW S, S \subseteq Nat, S # {}
  PROVE  \E m \in S : \A k \in S : m <= k
<1>1. PICK m \in S : \A k \in S : <<k, m>> \notin OpToRel(<, Nat)
  BY WFMin, NatLessThanWellFounded, Zenon
<1>2. \A k \in S : ~(k < m) BY <1>1, Zenon DEF OpToRel
<1>3. \A k \in S : m <= k BY <1>2
<1> QED BY <1>3

\* Sizes are naturals, instructions lie in memory, and the last is one of them.
LEMMA Sizes ==
  /\ Size \in Nat /\ Final \in Nat /\ Limit \in Nat /\ Step \in Nat
  /\ Step = 1 \/ Step = 2
  /\ Final \in Pcs
  /\ Pcs \subseteq Nat /\ Pcs \subseteq 0 .. Final /\ Pcs \subseteq Addr
  /\ \A e \in Pcs : e + Step - 1 \in Addr
<1>1. /\ Size \in Nat /\ Final \in Nat /\ Limit \in Nat /\ Step \in Nat
      /\ Step = 1 \/ Step = 2
  BY SizesAssumption
<1>2. Final % Step = 0 /\ Final + Step <= Size BY SizesAssumption
<1>3. Final \in Pcs BY <1>1, <1>2 DEF Pcs
<1>4. Pcs \subseteq Nat /\ Pcs \subseteq 0 .. Final BY DEF Pcs
<1>5. \A e \in 0 .. Final : e \in Addr /\ e + Step - 1 \in Addr BY <1>1, <1>2 DEF Addr
<1> QED BY <1>1, <1>3, <1>4, <1>5

\* The instructions of a block stand Step apart.
LEMMA StepsApart ==
  ASSUME NEW a \in Pcs, NEW b \in Pcs, a < b
  PROVE  a + Step <= b
<1>1. CASE Step = 1 BY <1>1, SizesAssumption DEF Pcs
<1>2. CASE Step = 2 BY <1>2, SizesAssumption DEF Pcs
<1> QED BY <1>1, <1>2, SizesAssumption

\* Behind an instruction that is not the last there is another.
LEMMA StepOn ==
  ASSUME NEW a \in Pcs, a + Step <= Final
  PROVE  a + Step \in Pcs
<1>1. CASE Step = 1 BY <1>1, SizesAssumption DEF Pcs
<1>2. CASE Step = 2 BY <1>2, SizesAssumption DEF Pcs
<1> QED BY <1>1, <1>2, SizesAssumption

\* scan_block finds an end: the jump at the end of memory is one if no other is.
LEMMA EndFound ==
  ASSUME MemoryEnds, NEW pc \in Pcs
  PROVE  End(pc) \in Pcs /\ pc <= End(pc) /\ Instr(mem, End(pc)).kind \in {"goto", "bx"}
<1> DEFINE Ends == {a \in Pcs : a >= pc /\ EndsAt(pc, a)}
<1>1. Final \in Ends
  <2>1. Final \in Pcs /\ Final >= pc BY Sizes
  <2>2. \A x \in Branches(pc, Final) : Instr(mem, x).to # Final + Step
    <3>1. \A x \in Pcs : Instr(mem, x).to \in Pcs
      BY Sizes, ValuesAssumption DEF MemoryEnds, Instr
    <3>2. \A t \in Pcs : t # Final + Step BY Sizes
    <3> QED BY <3>1, <3>2 DEF Branches
  <2> QED BY <2>1, <2>2 DEF EndsAt, MemoryEnds
<1>2. Ends \subseteq Nat BY DEF Pcs
<1>3. PICK m \in Ends : \A k \in Ends : m <= k BY <1>1, <1>2, LeastElement
<1>4. \A x \in Pcs : pc <= x /\ x < m => ~EndsAt(pc, x)
  <2> SUFFICES ASSUME NEW x \in Pcs, pc <= x, x < m, EndsAt(pc, x) PROVE FALSE
    OBVIOUS
  <2>1. x >= pc BY DEF Pcs
  <2>2. m <= x BY <1>3, <2>1
  <2> QED BY <1>2, <2>2 DEF Pcs
<1>5. \E a \in Pcs : /\ a >= pc /\ EndsAt(pc, a)
                    /\ \A x \in Pcs : pc <= x /\ x < a => ~EndsAt(pc, x)
  BY <1>3, <1>4
<1>6. End(pc) \in Pcs /\ End(pc) >= pc /\ EndsAt(pc, End(pc))
  <2> HIDE DEF Ends
  <2> QED BY <1>5, Zenon DEF End
<1>7. pc \in Int /\ End(pc) \in Int BY <1>6 DEF Pcs
<1> QED BY <1>6, <1>7 DEF EndsAt

\* What is translated is a block.
LEMMA TranslationShaped ==
  ASSUME MemoryEnds, ptr \in 0 .. Limit, NEW pc \in Pcs
  PROVE  /\ Shaped(Translation(pc))
         /\ Translation(pc).at = ptr /\ Translation(pc).pc = pc
         /\ \A h \in DOMAIN Translation(pc).code : Translation(pc).code[h] = mem[h]
<1> DEFINE e == End(pc)
           b == Translation(pc)
<1>1. e \in Pcs /\ pc <= e /\ Instr(mem, e).kind \in {"goto", "bx"} BY EndFound
<1> HIDE DEF e
<1>2. b = [at |-> ptr, pc |-> pc, code |-> [h \in pc .. e + Step - 1 |-> mem[h]]]
  BY DEF Translation, e
<1>3. e + Step - 1 \in Addr /\ pc \in Addr /\ e \in pc .. e + Step - 1
  BY <1>1, Sizes
<1>4. pc .. e + Step - 1 \subseteq Addr BY <1>3, Sizes DEF Addr
<1>5. b.code \in [pc .. e + Step - 1 -> Values] BY <1>2, <1>4 DEF MemoryEnds
<1>6. b.code \in Code
  <2> DEFINE F(a, z) == [a .. z + Step - 1 -> Values]
             Fs == {F(a, z) : a \in Pcs, z \in Pcs}
  <2>1. Code = UNION Fs BY DEF Code
  <2>2. b.code \in F(pc, e) BY <1>5
  <2> HIDE DEF F
  <2>3. F(pc, e) \in Fs BY <1>1
  <2> QED BY <2>1, <2>2, <2>3
<1>7. b \in Blocks BY <1>2, <1>6 DEF Blocks
<1>a. Instr(b.code, e) = Instr(mem, e)
  <2>1. e + Step - 1 \in pc .. e + Step - 1 BY <1>1, Sizes
  <2> QED BY <1>2, <1>3, <2>1 DEF Instr
<1>8. Spans(b, e) BY <1>1, <1>2, <1>3, <1>5, <1>a DEF Spans
<1>9. Shaped(b) BY <1>1, <1>7, <1>8 DEF Shaped
<1>10. b.at = ptr /\ b.pc = pc /\ \A h \in DOMAIN b.code : b.code[h] = mem[h] BY <1>2
<1> QED BY <1>9, <1>10

\* A block takes one cell for its header and one for each of its instructions.
LEMMA CellsOf ==
  ASSUME NEW b, Shaped(b)
  PROVE  \E n \in Nat : Cells(b) = b.at .. b.at + n /\ Cardinality(Cells(b)) = n + 1
<1>1. PICK e \in Pcs : Spans(b, e) BY DEF Shaped
<1>2. b.at \in Nat /\ b.pc \in Pcs BY DEF Shaped, Blocks
<1>3. DOMAIN b.code = b.pc .. e + Step - 1 BY <1>1 DEF Spans
<1> DEFINE n == Cardinality(DOMAIN b.code) \div Step
<1>4. n \in Nat
  <2>1. b.pc \in Nat /\ e \in Nat /\ Step \in Nat BY <1>2, Sizes
  <2>2. Cardinality(DOMAIN b.code) \in Nat
    <3>1. b.pc \in Int /\ e + Step - 1 \in Int BY <2>1
    <3>2. IsFiniteSet(b.pc .. e + Step - 1) BY <3>1, FS_Interval
    <3> QED BY <1>3, <3>2, FS_CardinalityType
  <2>3. \A c \in Nat : c \div Step \in Nat BY Sizes
  <2> QED BY <2>2, <2>3
<1>5. Cells(b) = b.at .. b.at + n BY DEF Cells
<1> HIDE DEF n
<1>6. Cardinality(b.at .. b.at + n) = n + 1 BY <1>2, <1>4, FS_Interval
<1> QED BY <1>4, <1>5, <1>6

\* Behind an instruction that the block goes on after, the block has another.
LEMMA GoesOn ==
  ASSUME NEW l, GoodPlace(l), Instr(l.block.code, l.pc).kind \in {"plain", "if"}
  PROVE  l.pc + Step \in Pcs \cap DOMAIN l.block.code
<1>1. PICK e \in Pcs : Spans(l.block, e) BY DEF GoodPlace, Shaped
<1>2. l.pc \in Pcs /\ l.pc \in l.block.pc .. e + Step - 1
  BY <1>1 DEF GoodPlace, Spans, Places
<1>3. l.block.pc \in Pcs BY DEF GoodPlace, Shaped, Blocks
<1>4. l.pc # e BY <1>1 DEF Spans
<1>5. l.pc < e
  <2>1. CASE l.pc > e BY <1>2, <1>3, <2>1, StepsApart, Sizes
  <2> QED BY <1>2, <1>4, <2>1, Sizes
<1>6. l.pc + Step <= e BY <1>2, <1>5, StepsApart
<1>7. l.pc + Step \in Pcs BY <1>2, <1>6, StepOn, Sizes
<1>8. l.pc \in Nat /\ l.block.pc \in Nat /\ e \in Nat BY <1>2, <1>3, Sizes
<1>a. Step \in Nat /\ Step > 0 BY Sizes
<1>9. l.pc + Step \in l.block.pc .. e + Step - 1 BY <1>2, <1>6, <1>8, <1>a
<1> QED BY <1>1, <1>7, <1>9 DEF Spans

\* A block holds both halves of its instructions.
LEMMA InstrWhole ==
  ASSUME NEW b, Shaped(b), NEW a \in Pcs \cap DOMAIN b.code
  PROVE  a .. a + Step - 1 \subseteq DOMAIN b.code
<1>1. PICK e \in Pcs : Spans(b, e) BY DEF Shaped
<1>2. b.pc \in Pcs /\ DOMAIN b.code = b.pc .. e + Step - 1
  BY <1>1 DEF Shaped, Blocks, Spans
<1>3. a \in Nat /\ e \in Nat /\ b.pc \in Nat /\ Step \in Nat /\ Step > 0
  <2>1. Step \in Nat /\ Step > 0 BY Sizes
  <2>2. \A x \in Pcs : x \in Nat BY Sizes
  <2> QED BY <1>2, <2>1, <2>2
<1>4. a \in b.pc .. e + Step - 1 BY <1>2
<1>5. a <= e
  <2>1. CASE a > e
    <3>1. e + Step <= a BY <2>1, StepsApart
    <3> QED BY <1>3, <1>4, <3>1
  <2> QED BY <1>3, <2>1
<1>6. a .. a + Step - 1 \subseteq b.pc .. e + Step - 1 BY <1>3, <1>4, <1>5
<1> QED BY <1>2, <1>6

\* An instruction in a block leads somewhere in memory.
LEMMA LeadsTo ==
  ASSUME NEW b, Shaped(b), NEW a \in Pcs \cap DOMAIN b.code
  PROVE  Instr(b.code, a).to \in Pcs /\ Instr(b.code, a).kind \in Kinds
<1>1. PICK e \in Pcs : Spans(b, e) BY DEF Shaped
<1>2. a .. a + Step - 1 \subseteq DOMAIN b.code BY InstrWhole
<1>3. a \in a .. a + Step - 1 /\ a + Step - 1 \in a .. a + Step - 1 BY Sizes
<1>4. b.code[a] \in Values /\ b.code[a + Step - 1] \in Values
  BY <1>1, <1>2, <1>3 DEF Spans
<1> QED BY <1>4, ValuesAssumption DEF Instr

\* Where a store reaches a halfword that one entry of the page table stands for, that
\* entry is the one of an instruction of the block.
LEMMA StoreReaches ==
  ASSUME NEW w \in Writes, NEW b, Shaped(b), NEW h \in Guarded(w), h \in DOMAIN b.code
  PROVE  ~w.image /\ w.to \in Pcs \cap DOMAIN b.code
<1>1. PICK e \in Pcs : Spans(b, e) BY DEF Shaped
<1>2. b.pc \in Pcs /\ DOMAIN b.code = b.pc .. e + Step - 1
  BY <1>1 DEF Shaped, Blocks, Spans
<1>3. ~w.image /\ w.to % Step = 0 /\ h \in w.to .. w.to + Step - 1 BY DEF Guarded
<1>4. w.to \in Nat BY WritesAssumption, Sizes DEF Addr
<1>5. b.pc \in Nat /\ e \in Nat /\ Step \in Nat /\ b.pc % Step = 0 /\ e % Step = 0
  BY <1>2, Sizes DEF Pcs
<1>6. h \in Nat /\ w.to <= h /\ h <= w.to + Step - 1 /\ b.pc <= h /\ h <= e + Step - 1
  BY <1>2, <1>3, <1>4, <1>5
<1>7. w.to \in b.pc .. e
  <2>1. CASE Step = 1 BY <1>4, <1>6, <1>5, <2>1
  <2>2. CASE Step = 2 BY <1>3, <1>4, <1>6, <1>5, <2>2
  <2> QED BY <2>1, <2>2, Sizes
<1>8. w.to \in Pcs
  <2>1. w.to <= Final BY <1>4, <1>7, <1>5, Sizes
  <2> QED BY <1>3, <1>4, <2>1, Sizes DEF Pcs
<1>9. w.to \in b.pc .. e + Step - 1 BY <1>4, <1>7, <1>5, Sizes
<1> QED BY <1>2, <1>3, <1>8, <1>9

--------------------------------------------------------------------------------
(* Places *)

\* A place may move to any instruction of its block.
LEMMA Moved ==
  ASSUME NEW l, GoodPlace(l), NEW pc \in Pcs, pc \in DOMAIN l.block.code
  PROVE  /\ GoodPlace([l EXCEPT !.pc = pc])
         /\ [l EXCEPT !.pc = pc].block = l.block
         /\ [l EXCEPT !.pc = pc].fate = l.fate
<1>1. l \in Places BY DEF GoodPlace
<1>2. [l EXCEPT !.pc = pc] = [block |-> l.block, pc |-> pc, fate |-> l.fate]
  BY <1>1 DEF Places
<1> QED BY <1>1, <1>2 DEF GoodPlace, Places

\* A block is entered at its first instruction.
LEMMA Started ==
  ASSUME NEW b, Shaped(b)
  PROVE  GoodPlace(Start(b)) /\ Start(b).block = b /\ Start(b).fate = "live"
<1>1. PICK e \in Pcs : Spans(b, e) BY DEF Shaped
<1>2. b \in Blocks /\ b.pc \in Pcs BY DEF Shaped, Blocks
<1>3. b.pc \in Nat /\ e \in Nat /\ b.pc <= e BY <1>1, <1>2, Sizes DEF Spans
<1>4. Step \in Nat /\ Step > 0 BY Sizes
<1>5. b.pc \in b.pc .. e + Step - 1 BY <1>3, <1>4
<1>6. b.pc \in DOMAIN b.code BY <1>1, <1>5 DEF Spans
<1>7. Start(b) \in Places BY <1>2 DEF Start, Places, Fates
<1> QED BY <1>6, <1>7 DEF Start, GoodPlace

\* A flush leaves nobody in the cache; who was already outside of it stays there.
LEMMA DroppedAway ==
  ASSUME Registers, PlacesKept, NEW how \in {"own", "other"}
  PROVE  /\ Dropped(how) \in [Procs -> Places \cup [fate : Fates]]
         /\ \A p \in Procs :
              /\ Dropped(how)[p].fate # "live"
              /\ Dropped(how)[p].fate = "stm" => GoodPlace(Dropped(how)[p])
              /\ Dropped(how)[p].fate = "own" =>
                   place[p].fate = "own" \/ (p = cpu /\ how = "own")
<1>1. \A p \in Procs :
        /\ place[p] \in Places \cup [fate : Fates]
        /\ place[p].fate = "stm" => GoodPlace(place[p])
  BY DEF Registers, PlacesKept
<1>2. \A h \in {"own", "other"} : Nowhere(h) \in [fate : Fates] /\ Nowhere(h).fate = h
  BY DEF Nowhere, Fates
<1>3. \A p \in Procs : Dropped(how)[p] =
        IF place[p].fate = "live" THEN Nowhere(IF p = cpu THEN how ELSE "other") ELSE place[p]
  BY DEF Dropped, Lost
<1>4. Dropped(how) = [p \in Procs |-> Dropped(how)[p]] BY DEF Dropped
<1>5. \A p \in Procs : Dropped(how)[p] \in Places \cup [fate : Fates]
  BY <1>1, <1>2, <1>3
<1>6. Dropped(how) \in [Procs -> Places \cup [fate : Fates]] BY <1>4, <1>5
<1> QED BY <1>1, <1>2, <1>3, <1>6

\* A processor that runs stands at an instruction of a block, while no lookup is under way.
LEMMA RunFacts ==
  ASSUME Inv, Runs
  PROVE  /\ cpu \in Procs /\ GoodPlace(Here) /\ Shaped(Here.block)
         /\ Here.fate \in {"live", "stm"} /\ (Here.fate = "live" => Here.block \in blocks)
         /\ frames = <<>> /\ want = None
         /\ Op.kind \in Kinds /\ Op.to \in Pcs
         /\ Op.kind \in {"plain", "if"} =>
              Behind \in Pcs /\ Behind \in DOMAIN Here.block.code
<1>1. cpu \in Procs /\ GoodPlace(Here) /\ Here.fate \in {"live", "stm"}
      /\ (Here.fate = "live" => Here.block \in blocks)
  BY DEF Inv, Runs, Registers, PlacesKept, Here
<1>2. frames = <<>> /\ want = None BY DEF Inv, Runs, Calls
<1>3. Shaped(Here.block) /\ Here.pc \in DOMAIN Here.block.code BY <1>1 DEF GoodPlace
<1>a. Here.pc \in Pcs BY <1>1 DEF GoodPlace, Places
<1>4. Op.kind \in Kinds /\ Op.to \in Pcs BY <1>3, <1>a, LeadsTo DEF Op
<1>5. Op.kind \in {"plain", "if"} => Behind \in Pcs /\ Behind \in DOMAIN Here.block.code
  BY <1>1, GoesOn DEF Op, Behind
<1> QED BY <1>1, <1>2, <1>3, <1>4, <1>5

--------------------------------------------------------------------------------
(* What a step keeps *)

\* Outside of lookups the cache stays as it is or is thrown away as a whole.
LEMMA NoCalls ==
  ASSUME Inv, frames = <<>>, frames' = <<>>, phase' = "lookup" <=> want' # None,
         UNCHANGED <<blocks, ptr>> \/ blocks' = {}
  PROVE  CacheFilled' /\ Calls' /\ LinksMade'
<1>1. CacheFilled' BY DEF Inv, CacheFilled, BlocksApart
<1>2. Len(frames) = 0 /\ Len(frames') = 0 /\ DOMAIN frames = {} /\ DOMAIN frames' = {}
  OBVIOUS
<1>3. Calls' BY <1>2 DEF Calls
<1>4. LinksMade' BY <1>2 DEF Inv, LinksMade, Linking, Linked
<1> QED BY <1>1, <1>3, <1>4

\* A store keeps memory what it is, and its last jump.
LEMMA WriteKeeps == ASSUME MemoryEnds, NEW w \in Writes, Write(w) PROVE MemoryEnds'
<1>1. w.value \in Values /\ Reach(w) \cap (Final .. Final + Step - 1) = {}
  BY WritesAssumption
<1>2. Final \in Addr /\ Final + Step - 1 \in Addr BY Sizes
<1>3. Final \notin Reach(w) /\ Final + Step - 1 \notin Reach(w) BY <1>1, Sizes
<1>4. mem' = [h \in Addr |-> IF h \in Reach(w) THEN w.value ELSE mem[h]] BY DEF Write
<1>5. mem' \in [Addr -> Values] BY <1>1, <1>4 DEF MemoryEnds
<1>6. mem'[Final] = mem[Final] /\ mem'[Final + Step - 1] = mem[Final + Step - 1]
  BY <1>2, <1>3, <1>4
<1> QED BY <1>5, <1>6 DEF MemoryEnds, Instr

\* The history stays within what there is.
LEMMA UnseenTyped ==
  ASSUME Inv, NEW w \in Writes, Unseen(w)
  PROVE  UNCHANGED <<table, blocks, ptr>> /\ blind' \subseteq (0 .. Limit) \X Addr
<1>1. Reach(w) \subseteq Addr BY WritesAssumption
<1>2. \A b \in blocks : b.at \in 0 .. Limit BY DEF Inv, CacheFilled, Shaped, Blocks
<1>3. Blinded(w) \subseteq (0 .. Limit) \X Addr BY <1>1, <1>2 DEF Blinded
<1> QED BY <1>3 DEF Unseen, Inv, Registers

\* A savestate brings memory back as it was.
LEMMA ProgramEnds == ASSUME mem' = Program PROVE MemoryEnds'
BY ProgramAssumption DEF MemoryEnds

\* What a flush leaves.
LEMMA FlushedTable == ASSUME Flush PROVE
  /\ table' \in [Addr -> {None} \cup 0 .. Limit] /\ ptr' \in 0 .. Limit
  /\ blocks' = {} /\ blind' \subseteq (0 .. Limit) \X Addr
BY Sizes DEF Flush

\* One processor's place changes for one that is as good.
LEMMA PlaceSet ==
  ASSUME Inv, NEW l, GoodPlace(l), l.fate \in {"live", "stm"},
         l.fate = "live" => l.block \in blocks,
         place' = [place EXCEPT ![cpu] = l], UNCHANGED <<blocks, cpu>>, phase # "lookup"
  PROVE  place' \in [Procs -> Places \cup [fate : Fates]] /\ PlacesKept'
<1>1. l \in Places BY DEF GoodPlace
<1>2. cpu \in Procs /\ place \in [Procs -> Places \cup [fate : Fates]]
  BY DEF Inv, Registers
<1>3. \A p \in Procs : place'[p] = IF p = cpu THEN l ELSE place[p] BY <1>2
<1> QED BY <1>1, <1>2, <1>3 DEF Inv, PlacesKept

--------------------------------------------------------------------------------
(* Steps of translated code *)

\* Within a block, code goes on behind an instruction.
LEMMA MoveOnInv ==
  ASSUME Inv, Runs, Op.kind \in {"plain", "if"},
         place' = [place EXCEPT ![cpu].pc = Behind], changed' \in [Procs -> 0 .. 2],
         UNCHANGED <<table, blocks, ptr, flushes, phase, want, frames, cpu, PC>>,
         MemoryEnds', blind' \subseteq (0 .. Limit) \X Addr
  PROVE  Inv'
<1> DEFINE l == [Here EXCEPT !.pc = Behind]
<1>1. GoodPlace(l) /\ l.fate = Here.fate /\ l.block = Here.block BY RunFacts, Moved
<1>2. place' = [place EXCEPT ![cpu] = l]
  <2>1. place \in [Procs -> Places \cup [fate : Fates]] BY DEF Inv, Registers
  <2> QED BY <2>1, RunFacts DEF Here
<1> HIDE DEF l
<1>3. place' \in [Procs -> Places \cup [fate : Fates]] /\ PlacesKept'
  BY <1>1, <1>2, RunFacts, PlaceSet DEF Runs
<1>4. Registers' BY <1>3 DEF Inv, Registers
<1>5. CacheFilled' /\ Calls' /\ LinksMade' BY RunFacts, NoCalls DEF Runs
<1> QED BY <1>3, <1>4, <1>5 DEF Inv

\* An instruction without effects on control.
LEMMA PlainInv == ASSUME Inv, Plain PROVE Inv'
<1>1. /\ Runs /\ Op.kind \in {"plain", "if"} /\ place' = [place EXCEPT ![cpu].pc = Behind]
      /\ UNCHANGED <<mem, table, blocks, blind, ptr, flushes, phase, want, frames, cpu, PC, changed>>
  BY DEF Plain, cacheVars, lookupVars
<1>2. /\ MemoryEnds' /\ changed' \in [Procs -> 0 .. 2]
      /\ blind' \subseteq (0 .. Limit) \X Addr
  BY <1>1 DEF Inv, MemoryEnds, Registers
<1> QED BY <1>1, <1>2, MoveOnInv

\* A system call that halts is noticed later.
LEMMA HaltCallInv == ASSUME Inv, HaltCall PROVE Inv'
<1>1. /\ Runs /\ Op.kind = "plain" /\ place' = [place EXCEPT ![cpu].pc = Behind]
      /\ changed' = [changed EXCEPT ![cpu] = 2]
      /\ UNCHANGED <<mem, table, blocks, blind, ptr, flushes, phase, want, frames, cpu, PC>>
  BY DEF HaltCall, Stores, cacheVars, lookupVars
<1>2. /\ MemoryEnds' /\ changed' \in [Procs -> 0 .. 2]
      /\ blind' \subseteq (0 .. Limit) \X Addr
  BY <1>1 DEF Inv, MemoryEnds, Registers
<1> QED BY <1>1, <1>2, MoveOnInv

\* A burst may end at any place that is as good.
LEMMA LeaveInv ==
  ASSUME Inv, Runs, NEW pc \in Pcs, NEW l, Leave(pc, l), GoodPlace(l),
         l.fate \in {"live", "stm"}, l.fate = "live" => l.block \in blocks,
         UNCHANGED <<mem, cacheVars, lookupVars, cpu, changed>>
  PROVE  Inv'
<1>1. /\ UNCHANGED <<mem, table, blocks, blind, ptr, flushes, want, frames, cpu, changed>>
      /\ phase' = "out" /\ PC' = [PC EXCEPT ![cpu] = pc]
      /\ place' = [place EXCEPT ![cpu] = l]
  BY DEF Leave, cacheVars, lookupVars
<1>2. place' \in [Procs -> Places \cup [fate : Fates]] /\ PlacesKept'
  BY <1>1, PlaceSet DEF Runs
<1>3. PC' \in [Procs -> Pcs] BY <1>1 DEF Inv, Registers
<1>4. MemoryEnds' /\ Registers' BY <1>1, <1>2, <1>3 DEF Inv, MemoryEnds, Registers
<1>5. CacheFilled' /\ Calls' /\ LinksMade' BY <1>1, RunFacts, NoCalls DEF Runs
<1> QED BY <1>2, <1>4, <1>5 DEF Inv

\* A direct branch goes on within its block, or over a link, or stays in what was dropped.
LEMMA BranchInv == ASSUME Inv, Branch PROVE Inv'
<1>1. Runs /\ UNCHANGED <<mem, cacheVars, lookupVars, cpu, changed>> BY DEF Branch
<1>2. Op.to \in Pcs BY <1>1, RunFacts
<1>3. CASE Op.to \in DOMAIN Here.block.code
  <2> DEFINE l == [Here EXCEPT !.pc = Op.to]
  <2>1. Leave(Op.to, l) BY <1>3 DEF Branch
  <2>2. GoodPlace(l) /\ l.block = Here.block /\ l.fate = Here.fate
    BY <1>1, <1>2, <1>3, RunFacts, Moved
  <2> HIDE DEF l
  <2>3. l.fate \in {"live", "stm"} /\ (l.fate = "live" => l.block \in blocks)
    BY <1>1, <2>2, RunFacts
  <2> QED BY <1>1, <1>2, <2>1, <2>2, <2>3, LeaveInv
<1>4. CASE Op.to \notin DOMAIN Here.block.code
  <2>1. ASSUME NEW b \in blocks, Leave(Op.to, Start(b)) PROVE Inv'
    <3>1. Shaped(b) BY DEF Inv, CacheFilled
    <3>2. GoodPlace(Start(b)) /\ Start(b).block = b /\ Start(b).fate = "live"
      BY <3>1, Started
    <3> QED BY <1>1, <1>2, <2>1, <3>2, LeaveInv
  <2>2. ASSUME Here.fate # "live", Leave(Op.to, Here) PROVE Inv'
    BY <1>1, <1>2, <2>2, RunFacts, LeaveInv
  <2> QED BY <1>4, <2>1, <2>2 DEF Branch
<1> QED BY <1>3, <1>4

\* A halt ends the burst, whatever became of the store before it.
LEMMA IdleInv ==
  ASSUME Inv, Stores, Idle, UNCHANGED <<table, blocks, ptr, cpu>>, MemoryEnds',
         blind' \subseteq (0 .. Limit) \X Addr
  PROVE  Inv'
<1>1. Runs /\ Op.kind = "plain" BY DEF Stores
<1> DEFINE l == [Here EXCEPT !.pc = Behind]
<1>2. GoodPlace(l) /\ l.fate = Here.fate /\ l.block = Here.block BY <1>1, RunFacts, Moved
<1>3. /\ UNCHANGED <<flushes, want, frames>> /\ phase' = "out"
      /\ PC' = [PC EXCEPT ![cpu] = Behind] /\ changed' = [changed EXCEPT ![cpu] = 0]
      /\ place' = [place EXCEPT ![cpu] = l]
  BY DEF Idle, Leave, lookupVars
<1> HIDE DEF l
<1>4. place' \in [Procs -> Places \cup [fate : Fates]] /\ PlacesKept'
  BY <1>1, <1>2, <1>3, RunFacts, PlaceSet DEF Runs
<1>5. PC' \in [Procs -> Pcs] /\ changed' \in [Procs -> 0 .. 2]
  BY <1>1, <1>3, RunFacts DEF Inv, Registers
<1>6. Registers' BY <1>3, <1>4, <1>5 DEF Inv, Registers
<1>7. CacheFilled' /\ Calls' /\ LinksMade'
  BY <1>1, <1>3, RunFacts, NoCalls DEF Runs
<1> QED BY <1>4, <1>6, <1>7 DEF Inv

\* A store to the register that halts.
LEMMA HaltInv == ASSUME Inv, Halt PROVE Inv'
<1>1. MemoryEnds' /\ blind' \subseteq (0 .. Limit) \X Addr
  BY DEF Halt, Inv, MemoryEnds, Registers
<1> QED BY <1>1, IdleInv DEF Halt

\* A branch through a register looks up where it leads.
LEMMA IndirectInv == ASSUME Inv, NEW pc \in Pcs, IndirectBranch(pc) PROVE Inv'
<1>1. /\ Runs /\ UNCHANGED <<mem, table, blocks, blind, ptr, cpu, place, PC, changed>>
      /\ phase' = "lookup" /\ want' = pc /\ frames' = <<>> /\ flushes' = 0
  BY DEF IndirectBranch, Ask, procVars
<1>2. pc # None BY Sizes DEF None
<1>3. MemoryEnds' /\ Registers' BY <1>1 DEF Inv, MemoryEnds, Registers
<1>4. PlacesKept' BY <1>1 DEF Inv, PlacesKept, Runs
<1>5. CacheFilled' /\ Calls' /\ LinksMade'
  BY <1>1, <1>2, RunFacts, NoCalls DEF Runs
<1> QED BY <1>3, <1>4, <1>5 DEF Inv

\* A flush leaves a state of the cache that is in order.
LEMMA FlushInv ==
  ASSUME Inv, Flush, MemoryEnds', place' \in [Procs -> Places \cup [fate : Fates]],
         PlacesKept', frames = <<>>, frames' = <<>>, phase' = "lookup" <=> want' # None,
         phase' \in {"out", "lookup", "run", "lost"}, want' \in {None} \cup Pcs,
         flushes' \in Nat, cpu' \in Procs, PC' \in [Procs -> Pcs],
         changed' \in [Procs -> 0 .. 2]
  PROVE  Inv'
<1>1. Registers' BY FlushedTable DEF Registers
<1>2. CacheFilled' /\ Calls' /\ LinksMade' BY FlushedTable, NoCalls
<1> QED BY <1>1, <1>2 DEF Inv

\* After the store the next instruction may have to be looked up.
LEMMA NextLookUp ==
  ASSUME Inv, Stores, LookUpNext
  PROVE  /\ phase' = "lookup" /\ want' \in Pcs /\ want' # None /\ frames' = <<>>
         /\ flushes' \in Nat /\ changed' \in [Procs -> 0 .. 2] /\ PC' \in [Procs -> Pcs]
<1>1. Behind \in Pcs BY RunFacts DEF Stores
<1>2. Behind # None BY <1>1, Sizes DEF None
<1> QED BY <1>1, <1>2 DEF LookUpNext, Ask, Inv, Registers

\* A store: what it drops it leaves at once.
LEMMA StoreInv == ASSUME Inv, NEW w \in Writes, Store(w) PROVE Inv'
<1>1. Runs /\ Stores /\ Op.kind = "plain" /\ Write(w) /\ cpu' = cpu BY DEF Store, Stores
<1>2. MemoryEnds' BY <1>1, WriteKeeps DEF Inv
<1>3. frames = <<>> /\ cpu \in Procs /\ phase = "run" BY <1>1, RunFacts DEF Runs
<1>4. CASE Seen(w)
  <2>1. Flush /\ place' = Dropped("own") /\ LookUpNext BY <1>4 DEF Store
  <2>2. Registers /\ PlacesKept BY DEF Inv
  <2>3. /\ place' \in [Procs -> Places \cup [fate : Fates]]
        /\ \A p \in Procs : /\ place'[p].fate # "live"
                            /\ place'[p].fate = "stm" => GoodPlace(place'[p])
                            /\ place'[p].fate = "own" => place[p].fate = "own" \/ p = cpu
    BY <2>1, <2>2, DroppedAway
  <2>4. PlacesKept'
    <3>1. \A p \in Procs : place[p].fate # "own" BY <1>3, <2>2 DEF PlacesKept
    <3>2. phase' = "lookup" BY <2>1 DEF LookUpNext, Ask
    <3> QED BY <1>1, <2>3, <3>1, <3>2 DEF PlacesKept
  <2> QED BY <1>1, <1>2, <1>3, <2>1, <2>3, <2>4, NextLookUp, FlushInv
<1>5. CASE ~Seen(w)
  <2>1. UNCHANGED <<table, blocks, ptr, cpu>> /\ blind' \subseteq (0 .. Limit) \X Addr
    BY <1>1, <1>5, UnseenTyped DEF Store
  <2>2. ASSUME place' = [place EXCEPT ![cpu].pc = Behind],
               UNCHANGED <<phase, lookupVars, flushes, changed, PC>>
        PROVE  Inv'
    <3>1. UNCHANGED <<phase, want, frames, flushes, changed, PC>> BY <2>2 DEF lookupVars
    <3>2. changed' \in [Procs -> 0 .. 2] BY <3>1 DEF Inv, Registers
    <3> QED BY <1>1, <1>2, <2>1, <2>2, <3>1, <3>2, MoveOnInv
  <2>3. ASSUME LookUpNext, UNCHANGED place PROVE Inv'
    <3>1. Registers' BY <1>1, <2>1, <2>3, NextLookUp DEF Inv, Registers
    <3>2. CacheFilled' /\ Calls' /\ LinksMade'
      BY <1>1, <1>3, <2>1, <2>3, NextLookUp, NoCalls
    <3>3. PlacesKept' BY <1>1, <1>3, <2>1, <2>3, NextLookUp DEF Inv, PlacesKept
    <3> QED BY <1>2, <3>1, <3>2, <3>3 DEF Inv
  <2>4. ASSUME Idle PROVE Inv' BY <1>1, <1>2, <2>1, <2>4, IdleInv
  <2> QED BY <1>5, <2>2, <2>3, <2>4 DEF Store
<1> QED BY <1>4, <1>5

\* A store multiple goes on in what it drops.
LEMMA StoreMultipleInv == ASSUME Inv, NEW w \in Writes, StoreMultiple(w) PROVE Inv'
<1>1. /\ Runs /\ Op.kind = "plain" /\ Write(w)
      /\ UNCHANGED <<phase, want, frames, flushes, PC, cpu>>
  BY DEF StoreMultiple, Stores, lookupVars
<1>2. MemoryEnds' BY <1>1, WriteKeeps DEF Inv
<1>3. frames = <<>> /\ want = None /\ cpu \in Procs /\ phase = "run"
  BY <1>1, RunFacts DEF Runs
<1>4. CASE Seen(w)
  <2> DEFINE l == [block |-> Here.block, pc |-> Behind,
                   fate |-> IF Here.fate = "live" THEN "stm" ELSE Here.fate]
  <2>1. Flush /\ place' = [Dropped("other") EXCEPT ![cpu] = l]
        /\ changed' = [changed EXCEPT ![cpu] = 1]
    BY <1>4 DEF StoreMultiple
  <2>2. GoodPlace(l) /\ l.fate = "stm" /\ l \in Places
    <3>1. /\ GoodPlace(Here) /\ Here.fate \in {"live", "stm"} /\ Here \in Places
          /\ Behind \in Pcs /\ Behind \in DOMAIN Here.block.code
      BY <1>1, RunFacts DEF GoodPlace
    <3>2. l = [block |-> Here.block, pc |-> Behind, fate |-> "stm"] BY <3>1
    <3> QED BY <3>1, <3>2 DEF GoodPlace, Places, Fates
  <2> HIDE DEF l
  <2>3. /\ Dropped("other") \in [Procs -> Places \cup [fate : Fates]]
        /\ \A p \in Procs :
             /\ Dropped("other")[p].fate # "live"
             /\ Dropped("other")[p].fate = "stm" => GoodPlace(Dropped("other")[p])
             /\ Dropped("other")[p].fate = "own" => place[p].fate = "own"
    BY DroppedAway DEF Inv
  <2>4. /\ place' \in [Procs -> Places \cup [fate : Fates]]
        /\ \A p \in Procs : place'[p] = IF p = cpu THEN l ELSE Dropped("other")[p]
    BY <1>3, <2>1, <2>2, <2>3
  <2>5. PlacesKept' BY <1>1, <1>3, <2>2, <2>3, <2>4 DEF Inv, PlacesKept
  <2>6. /\ phase' \in {"out", "lookup", "run", "lost"} /\ want' \in {None} \cup Pcs
        /\ flushes' \in Nat /\ PC' \in [Procs -> Pcs]
    BY <1>1 DEF Inv, Registers
  <2>7. changed' \in [Procs -> 0 .. 2] BY <2>1, <1>3 DEF Inv, Registers
  <2> QED BY <1>1, <1>2, <1>3, <2>1, <2>4, <2>5, <2>6, <2>7, FlushInv
<1>5. CASE ~Seen(w)
  <2>1. /\ UNCHANGED <<table, blocks, ptr, changed>> /\ place' = [place EXCEPT ![cpu].pc = Behind]
        /\ blind' \subseteq (0 .. Limit) \X Addr
    BY <1>5, UnseenTyped DEF StoreMultiple
  <2>2. changed' \in [Procs -> 0 .. 2] BY <2>1 DEF Inv, Registers
  <2> QED BY <1>1, <1>2, <2>1, <2>2, MoveOnInv
<1> QED BY <1>4, <1>5

--------------------------------------------------------------------------------
(* Steps outside of translated code *)

\* A burst begins with a lookup, or where the last one ended.
LEMMA ResumeInv == ASSUME Inv, NEW p \in Procs, Resume(p) PROVE Inv'
<1>1. /\ phase = "out" /\ cpu' = p /\ frames = <<>> /\ want = None
      /\ UNCHANGED <<mem, table, blocks, blind, ptr, place, PC>>
  BY DEF Resume, Inv, Calls
<1>2. MemoryEnds' BY <1>1 DEF Inv, MemoryEnds
<1>3. CASE changed[p] # 0
  <2>1. /\ phase' = "lookup" /\ want' = PC[p] /\ frames' = <<>> /\ flushes' = 0
        /\ changed' = [changed EXCEPT ![p] = 0]
    BY <1>3 DEF Resume, Ask
  <2>2. PC[p] \in Pcs /\ changed' \in [Procs -> 0 .. 2] BY <2>1 DEF Inv, Registers
  <2>3. PC[p] # None BY <2>2, Sizes DEF None
  <2>4. Registers' BY <1>1, <2>1, <2>2 DEF Inv, Registers
  <2>5. CacheFilled' /\ Calls' /\ LinksMade' BY <1>1, <2>1, <2>3, NoCalls
  <2>6. PlacesKept' BY <1>1, <2>1 DEF Inv, PlacesKept
  <2> QED BY <1>2, <2>4, <2>5, <2>6 DEF Inv
<1>4. CASE changed[p] = 0
  <2>1. /\ phase' = IF place[p].fate = "live" THEN "run" ELSE "lost"
        /\ UNCHANGED <<want, frames, flushes, changed>>
    BY <1>4 DEF Resume, lookupVars
  <2>2. Registers' BY <1>1, <2>1 DEF Inv, Registers
  <2>3. CacheFilled' /\ Calls' /\ LinksMade' BY <1>1, <2>1, NoCalls
  <2>4. PlacesKept' BY <1>1, <2>1 DEF Inv, PlacesKept
  <2> QED BY <1>2, <2>2, <2>3, <2>4 DEF Inv
<1> QED BY <1>3, <1>4

\* An interrupt changes the address, and has it looked up.
LEMMA InterruptInv == ASSUME Inv, NEW p \in Procs, Interrupt(p) PROVE Inv'
<1>1. /\ phase = "out" /\ PC' = [PC EXCEPT ![p] = Vector]
      /\ changed' = [changed EXCEPT ![p] = 1]
      /\ UNCHANGED <<mem, table, blocks, blind, ptr, flushes, phase, want, frames, cpu, place>>
  BY DEF Interrupt, cacheVars, lookupVars
<1>2. PC' \in [Procs -> Pcs] /\ changed' \in [Procs -> 0 .. 2]
  BY <1>1, VectorAssumption DEF Inv, Registers
<1>3. MemoryEnds' /\ Registers' BY <1>1, <1>2 DEF Inv, MemoryEnds, Registers
<1>4. CacheFilled' /\ Calls' /\ LinksMade'
  BY <1>1 DEF Inv, CacheFilled, BlocksApart, Calls, LinksMade, Linking, Linked
<1>5. PlacesKept' BY <1>1 DEF Inv, PlacesKept
<1> QED BY <1>3, <1>4, <1>5 DEF Inv

\* Between bursts a flush leaves nobody in the cache.
LEMMA DroppedKept ==
  ASSUME Inv, phase = "out", place' = Dropped("other"), UNCHANGED <<phase, cpu>>
  PROVE  place' \in [Procs -> Places \cup [fate : Fates]] /\ PlacesKept'
<1>1. /\ place' \in [Procs -> Places \cup [fate : Fates]]
      /\ \A p \in Procs : /\ place'[p].fate # "live"
                          /\ place'[p].fate = "stm" => GoodPlace(place'[p])
                          /\ place'[p].fate = "own" => place[p].fate = "own"
  BY DroppedAway DEF Inv
<1>2. \A p \in Procs : place[p].fate # "own" BY DEF Inv, PlacesKept
<1> QED BY <1>1, <1>2 DEF PlacesKept

\* A transfer may reach translated code.
LEMMA DmaWriteInv == ASSUME Inv, NEW w \in Writes, DmaWrite(w) PROVE Inv'
<1>1. /\ phase = "out" /\ Write(w) /\ frames = <<>> /\ want = None
      /\ UNCHANGED <<flushes, phase, want, frames, cpu, PC>>
  BY DEF DmaWrite, Inv, Calls, lookupVars
<1>2. MemoryEnds' BY <1>1, WriteKeeps DEF Inv
<1>3. CASE Seen(w)
  <2>1. Flush /\ place' = Dropped("other") /\ changed' = [changed EXCEPT ![cpu] = 1]
    BY <1>3 DEF DmaWrite
  <2>2. /\ flushes' \in Nat /\ phase' \in {"out", "lookup", "run", "lost"}
        /\ want' \in {None} \cup Pcs /\ cpu' \in Procs /\ PC' \in [Procs -> Pcs]
    BY <1>1 DEF Inv, Registers
  <2>3. changed' \in [Procs -> 0 .. 2] BY <2>1 DEF Inv, Registers
  <2> QED BY <1>1, <1>2, <2>1, <2>2, <2>3, DroppedKept, FlushInv
<1>4. CASE ~Seen(w)
  <2>1. /\ UNCHANGED <<table, blocks, ptr, place, changed>>
        /\ blind' \subseteq (0 .. Limit) \X Addr
    BY <1>4, UnseenTyped DEF DmaWrite
  <2>2. Registers' BY <1>1, <2>1 DEF Inv, Registers
  <2>3. CacheFilled' /\ Calls' /\ LinksMade' BY <1>1, <2>1, NoCalls
  <2>4. PlacesKept' BY <1>1, <2>1 DEF Inv, PlacesKept
  <2> QED BY <1>2, <2>2, <2>3, <2>4 DEF Inv
<1> QED BY <1>3, <1>4

\* A savestate is loaded.
LEMMA LoadStateInv == ASSUME Inv, NEW pc \in Pcs, LoadState(pc) PROVE Inv'
<1>1. /\ phase = "out" /\ mem' = Program /\ Flush /\ place' = Dropped("other")
      /\ PC' = [p \in Procs |-> pc] /\ changed' = [p \in Procs |-> 1]
      /\ frames = <<>> /\ want = None
      /\ UNCHANGED <<flushes, phase, want, frames, cpu>>
  BY DEF LoadState, Inv, Calls, lookupVars
<1>2. MemoryEnds' BY <1>1, ProgramEnds
<1>3. /\ flushes' \in Nat /\ phase' \in {"out", "lookup", "run", "lost"}
      /\ want' \in {None} \cup Pcs /\ cpu' \in Procs
      /\ PC' \in [Procs -> Pcs] /\ changed' \in [Procs -> 0 .. 2]
  BY <1>1 DEF Inv, Registers
<1> QED BY <1>1, <1>2, <1>3, DroppedKept, FlushInv

--------------------------------------------------------------------------------
(* Steps of a lookup *)

\* What the calls under way look like.
LEMMA CallFacts ==
  ASSUME Inv, NEW i \in 1 .. Len(frames)
  PROVE  /\ frames[i].block \in blocks /\ Shaped(frames[i].block)
         /\ frames[i].exits \subseteq Exits(frames[i].block)
         /\ \A a \in Exits(frames[i].block) :
              a \in Pcs /\ Instr(frames[i].block.code, a).to \in Pcs
<1> DEFINE F == [block : blocks, exits : SUBSET Pcs]
<1>1. frames \in Seq(F) BY DEF Inv, Calls
<1>2. frames[i] \in F
  <2> HIDE DEF F
  <2> QED BY <1>1, ElementOfSeq
<1>3. frames[i].block \in blocks /\ Shaped(frames[i].block)
  BY <1>2 DEF Inv, CacheFilled
<1>4. frames[i].exits \subseteq Exits(frames[i].block) BY DEF Inv, Calls
<1>5. \A a \in Exits(frames[i].block) : a \in Pcs /\ a \in DOMAIN frames[i].block.code
  BY DEF Exits
<1> QED BY <1>3, <1>4, <1>5, LeadsTo

\* An address is not None.
LEMMA PcsAreSome == \A a \in Pcs : a # None
BY Sizes DEF None

\* A block is entered from a lookup that is over.
LEMMA EnterPlace ==
  ASSUME Inv, NEW b \in blocks, Enter(b), UNCHANGED <<blocks, cpu>>
  PROVE  place' \in [Procs -> Places \cup [fate : Fates]] /\ PlacesKept'
<1>1. Shaped(b) BY DEF Inv, CacheFilled
<1>2. GoodPlace(Start(b)) /\ Start(b).block = b /\ Start(b).fate = "live"
  BY <1>1, Started
<1>3. Start(b) \in Places BY <1>2 DEF GoodPlace
<1>4. /\ cpu \in Procs /\ place \in [Procs -> Places \cup [fate : Fates]]
      /\ place' = [place EXCEPT ![cpu] = Start(b)]
  BY DEF Inv, Registers, Enter
<1>5. \A p \in Procs : place'[p] = IF p = cpu THEN Start(b) ELSE place[p] BY <1>4
<1> QED BY <1>2, <1>3, <1>4, <1>5 DEF Inv, PlacesKept

\* A lookup finds its block.
LEMMA FoundInv == ASSUME Inv, Found PROVE Inv'
<1>1. PICK b \in Hits(want) :
        IF frames = <<>> THEN Enter(b) ELSE UNCHANGED <<phase, place>>
  BY DEF Found
<1>2. /\ phase = "lookup" /\ want # None /\ want' = None
      /\ UNCHANGED <<mem, table, blocks, blind, ptr, flushes, frames, cpu, PC, changed>>
  BY DEF Found, cacheVars
<1>3. b \in blocks /\ b.pc = want BY DEF Hits
<1>4. /\ place' \in [Procs -> Places \cup [fate : Fates]] /\ PlacesKept'
      /\ phase' \in {"lookup", "run"} /\ (phase' = "lookup" <=> frames # <<>>)
  <2>1. CASE frames = <<>>
    BY <1>1, <1>2, <1>3, <2>1, EnterPlace DEF Enter
  <2>2. CASE frames # <<>>
    <3>1. UNCHANGED <<phase, place>> BY <1>1, <2>2
    <3> QED BY <1>2, <2>2, <3>1 DEF Inv, PlacesKept, Registers
  <2> QED BY <2>1, <2>2
<1>5. MemoryEnds' /\ Registers' BY <1>2, <1>4 DEF Inv, MemoryEnds, Registers
<1>6. CacheFilled' BY <1>2 DEF Inv, CacheFilled, BlocksApart
<1>7. Calls' BY <1>2, <1>4 DEF Inv, Calls, Exits
<1>8. LinksMade'
  <2>1. \A c \in blocks : ~Linking(c) => \A a \in Exits(c) : Linked(Instr(c.code, a).to)
    BY DEF Inv, LinksMade
  <2>2. ASSUME NEW i \in 1 .. Len(frames), NEW a \in Exits(frames[i].block) \ frames[i].exits
        PROVE  Linked(Instr(frames[i].block.code, a).to)
    BY <1>3 DEF Inv, LinksMade, Linked
  <2> QED BY <1>2, <2>1, <2>2 DEF LinksMade, Linking, Linked, Exits
<1> QED BY <1>4, <1>5, <1>6, <1>7, <1>8 DEF Inv

\* A block is translated.
LEMMA TranslateInv == ASSUME Inv, Translate PROVE Inv'
<1> DEFINE b == Translation(want)
           f == [block |-> b, exits |-> Exits(b)]
<1>1. /\ phase = "lookup" /\ want # None /\ Cells(b) \subseteq 0 .. Limit - 1
      /\ blocks' = blocks \cup {b}
      /\ table' = [a \in Addr |-> IF a \in Pcs \cap DOMAIN b.code THEN ptr ELSE table[a]]
      /\ ptr' = ptr + Cardinality(Cells(b))
      /\ frames' = Append(frames, f)
      /\ want' = None
      /\ UNCHANGED <<mem, blind, flushes, phase, cpu, place, PC, changed>>
  BY DEF Translate, Missing, procVars
<1>2. want \in Pcs /\ MemoryEnds /\ ptr \in 0 .. Limit BY <1>1 DEF Inv, Registers
<1>3. Shaped(b) /\ b.at = ptr /\ b.pc = want BY <1>2, TranslationShaped
<1> HIDE DEF b
<1>4. PICK n \in Nat : Cells(b) = b.at .. b.at + n /\ Cardinality(Cells(b)) = n + 1
  BY <1>3, CellsOf
<1>5. ptr \in Nat /\ ptr <= Limit /\ Limit \in Nat BY <1>2, Sizes
<1>6. ptr' = ptr + n + 1 /\ Cells(b) = ptr .. ptr + n BY <1>1, <1>3, <1>4, <1>5
<1>7. ptr' \in 0 .. Limit
  <2>1. ptr + n \in 0 .. Limit - 1 BY <1>1, <1>5, <1>6
  <2> QED BY <1>5, <1>6, <2>1
<1>8. Exits(b) \subseteq Pcs BY DEF Exits
<1>9. Registers'
  <2>1. table' \in [Addr -> {None} \cup 0 .. Limit] BY <1>1, <1>2 DEF Inv, Registers
  <2> QED BY <1>1, <1>7, <2>1 DEF Inv, Registers
<1>10. CacheFilled'
  <2>1. \A c \in blocks : Shaped(c) /\ Cells(c) \subseteq 0 .. ptr - 1
    BY DEF Inv, CacheFilled
  <2>2. Cells(b) \subseteq 0 .. ptr' - 1 /\ 0 .. ptr - 1 \subseteq 0 .. ptr' - 1
    BY <1>5, <1>6
  <2>3. \A c \in blocks' : Shaped(c) /\ Cells(c) \subseteq 0 .. ptr' - 1
    BY <1>1, <1>3, <2>1, <2>2
  <2>4. \A c \in blocks : Cells(c) \cap Cells(b) = {}
    <3>1. (0 .. ptr - 1) \cap (ptr .. ptr + n) = {} BY <1>5
    <3> QED BY <1>6, <2>1, <3>1
  <2>5. \A c, d \in blocks : Cells(c) \cap Cells(d) # {} => c = d
    BY DEF Inv, CacheFilled, BlocksApart
  <2>6. \A c, d \in blocks' : Cells(c) \cap Cells(d) # {} => c = d
    BY <1>1, <2>4, <2>5
  <2> QED BY <2>3, <2>6 DEF CacheFilled, BlocksApart, Cells
<1>11. frames \in Seq([block : blocks, exits : SUBSET Pcs])
  BY DEF Inv, Calls
<1>12. frames \in Seq([block : blocks', exits : SUBSET Pcs])
       /\ f \in [block : blocks', exits : SUBSET Pcs]
  <2> DEFINE Old == [block : blocks, exits : SUBSET Pcs]
             New == [block : blocks', exits : SUBSET Pcs]
  <2>1. Old \subseteq New /\ f \in New BY <1>1, <1>8
  <2>2. frames \in Seq(New)
    <3> HIDE DEF Old, New
    <3> QED BY <1>11, <2>1, SeqMonotonic DEF Old
  <2> QED BY <2>1, <2>2
<1> HIDE DEF f
<1>13. /\ frames' \in Seq([block : blocks', exits : SUBSET Pcs])
       /\ Len(frames') = Len(frames) + 1 /\ frames' # <<>>
       /\ \A i \in 1 .. Len(frames) : frames'[i] = frames[i]
       /\ frames'[Len(frames) + 1] = f
  BY <1>1, <1>12, AppendProperties
<1>14. f.block = b /\ f.exits = Exits(b) BY DEF f
<1>15. Len(frames) \in Nat BY <1>11
<1>16. Calls'
  <2>1. \A i \in 1 .. Len(frames) : frames[i].exits \subseteq Exits(frames[i].block)
    BY DEF Inv, Calls
  <2>2. \A i \in 1 .. Len(frames') : frames'[i].exits \subseteq Exits(frames'[i].block)
    BY <1>13, <1>14, <1>15, <2>1
  <2> QED BY <1>1, <1>13, <2>2 DEF Calls, Exits
<1>17. LinksMade'
  <2>1. blocks \subseteq blocks' BY <1>1
  <2>2. \E t \in blocks' : t.pc = want BY <1>1, <1>3
  <2>3. ASSUME NEW c \in blocks', ~Linking(c)', NEW a \in Exits(c) PROVE \E t \in blocks' : t.pc = Instr(c.code, a).to
    <3>1. DOMAIN frames = 1 .. Len(frames) /\ DOMAIN frames' = 1 .. Len(frames')
      BY <1>11, <1>13
    <3>2. c # b BY <1>13, <1>14, <1>15, <2>3, <3>1 DEF Linking
    <3>3. ~Linking(c) BY <1>13, <1>15, <2>3, <3>1 DEF Linking
    <3>4. c \in blocks BY <1>1, <3>2
    <3>5. Linked(Instr(c.code, a).to) BY <3>3, <3>4 DEF Inv, LinksMade
    <3> QED BY <2>1, <3>5 DEF Linked
  <2>4. ASSUME NEW i \in 1 .. Len(frames'),
               NEW a \in Exits(frames'[i].block) \ frames'[i].exits
        PROVE  \E t \in blocks' : t.pc = Instr(frames'[i].block.code, a).to
    <3>1. i \in 1 .. Len(frames) BY <1>13, <1>14, <1>15
    <3>2. frames'[i] = frames[i] BY <1>13, <3>1
    <3>3. \/ Linked(Instr(frames[i].block.code, a).to)
          \/ want = Instr(frames[i].block.code, a).to
      BY <3>1, <3>2, <2>4 DEF Inv, LinksMade
    <3> QED BY <2>1, <2>2, <3>2, <3>3 DEF Linked
  <2> QED BY <2>3, <2>4 DEF LinksMade, Linked, Exits
<1>18. MemoryEnds' BY <1>1 DEF Inv, MemoryEnds
<1>19. PlacesKept' BY <1>1 DEF Inv, PlacesKept
<1> QED BY <1>9, <1>10, <1>16, <1>17, <1>18, <1>19 DEF Inv

\* The cache is full, and every call returns.
LEMMA OverflowInv == ASSUME Inv, Overflow PROVE Inv'
<1>1. /\ phase = "lookup" /\ want # None /\ Flush /\ place' = Dropped("other")
      /\ flushes' = flushes + 1 /\ frames' = <<>>
      /\ want' = IF frames = <<>> THEN want ELSE frames[1].block.pc
      /\ UNCHANGED <<mem, phase, cpu, PC, changed>>
  BY DEF Overflow, Missing
<1>2. want' \in Pcs
  <2>1. want \in Pcs BY <1>1 DEF Inv, Registers
  <2>2. CASE frames # <<>>
    <3>1. Len(frames) \in Nat \ {0} BY <2>2 DEF Inv, Calls
    <3>2. 1 \in 1 .. Len(frames) BY <3>1
    <3>3. Shaped(frames[1].block) BY <3>2, CallFacts
    <3> QED BY <1>1, <2>2, <3>3 DEF Shaped, Blocks
  <2> QED BY <1>1, <2>1, <2>2
<1>3. want' # None BY <1>2, PcsAreSome
<1>4. /\ place' \in [Procs -> Places \cup [fate : Fates]]
      /\ \A p \in Procs : /\ place'[p].fate # "live"
                          /\ place'[p].fate = "stm" => GoodPlace(place'[p])
                          /\ place'[p].fate = "own" => place[p].fate = "own"
  BY <1>1, DroppedAway DEF Inv
<1>5. PlacesKept' BY <1>1, <1>4 DEF Inv, PlacesKept
<1>6. MemoryEnds' BY <1>1 DEF Inv, MemoryEnds
<1>7. Registers' BY <1>1, <1>2, <1>4, FlushedTable DEF Inv, Registers
<1>8. blocks' = {} BY <1>1, FlushedTable
<1>9. CacheFilled' BY <1>8 DEF CacheFilled, BlocksApart
<1>10. Calls' BY <1>1, <1>3 DEF Calls
<1>11. LinksMade' BY <1>1, <1>8 DEF LinksMade
<1> QED BY <1>5, <1>6, <1>7, <1>9, <1>10, <1>11 DEF Inv

\* The innermost call that waits.
LEMMA TopCall ==
  ASSUME Inv, phase = "lookup", want = None
  PROVE  /\ Len(frames) \in 1 .. Len(frames) /\ Len(frames) \in Nat
         /\ DOMAIN frames = 1 .. Len(frames)
         /\ Top.block \in blocks /\ Top.exits \subseteq Exits(Top.block)
<1>1. frames \in Seq([block : blocks, exits : SUBSET Pcs]) /\ frames # <<>>
  BY DEF Inv, Calls
<1>2. Len(frames) \in Nat /\ Len(frames) # 0 /\ DOMAIN frames = 1 .. Len(frames)
  BY <1>1
<1>3. Len(frames) \in 1 .. Len(frames) BY <1>2
<1> QED BY <1>2, <1>3, CallFacts DEF Top

\* The next branch out of a block is looked up.
LEMMA LinkInv == ASSUME Inv, Link PROVE Inv'
<1> DEFINE n == Len(frames)
           a == CHOOSE x \in Top.exits : \A y \in Top.exits : x <= y
<1>1. /\ phase = "lookup" /\ want = None /\ Top.exits # {}
      /\ want' = Instr(Top.block.code, a).to
      /\ frames' = [frames EXCEPT ![n].exits = @ \ {a}]
      /\ UNCHANGED <<mem, table, blocks, blind, ptr, flushes, phase, cpu, place, PC, changed>>
  BY DEF Link, cacheVars, procVars
<1>2. /\ n \in 1 .. n /\ n \in Nat /\ DOMAIN frames = 1 .. n
      /\ Top.block \in blocks /\ Top.exits \subseteq Exits(Top.block)
  BY <1>1, TopCall
<1>3. a \in Top.exits
  <2>1. Top.exits \subseteq Nat BY <1>2, Sizes DEF Exits
  <2>2. \E x \in Top.exits : \A y \in Top.exits : x <= y BY <1>1, <2>1, LeastElement
  <2> QED BY <2>2, Zenon
<1> HIDE DEF a
<1>4. want' \in Pcs /\ want' # None BY <1>1, <1>2, <1>3, CallFacts, PcsAreSome DEF Top
<1>5. frames \in Seq([block : blocks, exits : SUBSET Pcs]) BY DEF Inv, Calls
<1>6. \A i \in 1 .. n : frames[i] \in [block : blocks, exits : SUBSET Pcs]
  <2> DEFINE F == [block : blocks, exits : SUBSET Pcs]
  <2>1. frames \in Seq(F) BY <1>5
  <2> HIDE DEF F
  <2>2. \A i \in 1 .. n : frames[i] \in F BY <2>1, ElementOfSeq
  <2> QED BY <2>2 DEF F
<1> DEFINE f == [block |-> Top.block, exits |-> Top.exits \ {a}]
<1>7. frames' = [frames EXCEPT ![n] = f]
  <2>1. frames[n] \in [block : blocks, exits : SUBSET Pcs] BY <1>2, <1>6
  <2>2. [frames[n] EXCEPT !.exits = @ \ {a}] = f BY <2>1 DEF Top
  <2>3. frames' = [frames EXCEPT ![n] = [frames[n] EXCEPT !.exits = @ \ {a}]] BY <1>1
  <2> QED BY <2>2, <2>3
<1>8. f \in [block : blocks, exits : SUBSET Pcs] /\ f.block = Top.block
      /\ f.exits = Top.exits \ {a}
  BY <1>2, <1>6 DEF Top
<1> HIDE DEF f
<1>9. /\ frames' \in Seq([block : blocks, exits : SUBSET Pcs]) /\ Len(frames') = n
      /\ \A i \in 1 .. n : frames'[i] = IF i = n THEN f ELSE frames[i]
  <2> DEFINE F == [block : blocks, exits : SUBSET Pcs]
  <2>1. frames \in Seq(F) /\ f \in F BY <1>5, <1>8
  <2> HIDE DEF F
  <2> QED BY <1>2, <1>7, <2>1, ExceptSeq DEF F
<1>10. \A i \in 1 .. n : frames'[i].block = frames[i].block
  BY <1>8, <1>9 DEF Top
<1>11. DOMAIN frames' = 1 .. n BY <1>9
<1>12. Calls'
  <2>1. \A i \in 1 .. n : frames'[i].exits \subseteq Exits(frames'[i].block)
    <3>1. \A i \in 1 .. n : frames[i].exits \subseteq Exits(frames[i].block)
      BY DEF Inv, Calls
    <3> QED BY <1>2, <1>8, <1>9, <3>1 DEF Top
  <2> QED BY <1>1, <1>4, <1>9, <2>1 DEF Calls, Exits
<1>13. LinksMade'
  <2>1. \A c \in blocks : ~Linking(c)' => \A x \in Exits(c) : Linked(Instr(c.code, x).to)
    <3>1. \A c : Linking(c)' <=> Linking(c) BY <1>2, <1>10, <1>11 DEF Linking
    <3> QED BY <3>1 DEF Inv, LinksMade
  <2>2. ASSUME NEW i \in 1 .. n, NEW x \in Exits(frames'[i].block) \ frames'[i].exits
        PROVE  \/ Linked(Instr(frames[i].block.code, x).to)
               \/ i = n /\ want' = Instr(frames[i].block.code, x).to
    <3>1. x \in Exits(frames[i].block) BY <1>10, <2>2
    <3>2. CASE x \in frames[i].exits
      <4>1. i = n /\ x = a BY <1>8, <1>9, <2>2, <3>2 DEF Top
      <4> QED BY <1>1, <4>1 DEF Top
    <3>3. CASE x \notin frames[i].exits
      <4>1. \/ Linked(Instr(frames[i].block.code, x).to) \/ want = Instr(frames[i].block.code, x).to
        BY <3>1, <3>3 DEF Inv, LinksMade
      <4>2. want # Instr(frames[i].block.code, x).to
        BY <1>1, <3>1, CallFacts, PcsAreSome
      <4> QED BY <4>1, <4>2
    <3> QED BY <3>2, <3>3
  <2> QED BY <1>1, <1>9, <1>10, <2>1, <2>2 DEF LinksMade, Linked, Exits
<1>14. MemoryEnds' /\ Registers' BY <1>1, <1>4 DEF Inv, MemoryEnds, Registers
<1>15. CacheFilled' BY <1>1 DEF Inv, CacheFilled, BlocksApart
<1>16. PlacesKept' BY <1>1 DEF Inv, PlacesKept
<1> QED BY <1>12, <1>13, <1>14, <1>15, <1>16 DEF Inv

\* A block is linked, and its call returns.
LEMMA ReturnInv == ASSUME Inv, Return PROVE Inv'
<1> DEFINE n == Len(frames)
<1>1. /\ phase = "lookup" /\ want = None /\ Top.exits = {}
      /\ frames' = SubSeq(frames, 1, n - 1)
      /\ IF n = 1 THEN Enter(Top.block) ELSE UNCHANGED <<phase, place>>
      /\ UNCHANGED <<mem, table, blocks, blind, ptr, flushes, want, cpu, PC, changed>>
  BY DEF Return, cacheVars
<1>2. n \in 1 .. n /\ n \in Nat /\ DOMAIN frames = 1 .. n /\ Top.block \in blocks
  BY <1>1, TopCall
<1>3. /\ frames' \in Seq([block : blocks, exits : SUBSET Pcs]) /\ Len(frames') = n - 1
      /\ \A i \in 1 .. n - 1 : frames'[i] = frames[i]
  <2> DEFINE F == [block : blocks, exits : SUBSET Pcs]
  <2>1. frames \in Seq(F) BY DEF Inv, Calls
  <2> HIDE DEF F
  <2>2. \A i \in 1 .. n - 1 : frames[i] \in F BY <1>2, <2>1, ElementOfSeq
  <2> QED BY <1>1, <1>2, <2>1, <2>2, SubSeqProperties DEF F
<1>4. DOMAIN frames' = 1 .. n - 1 /\ (frames' = <<>> <=> n = 1) BY <1>2, <1>3
<1>5. /\ place' \in [Procs -> Places \cup [fate : Fates]] /\ PlacesKept'
      /\ phase' \in {"lookup", "run"} /\ (phase' = "lookup" <=> n # 1)
  <2>1. CASE n = 1 BY <1>1, <1>2, <2>1, EnterPlace DEF Enter
  <2>2. CASE n # 1
    <3>1. UNCHANGED <<phase, place>> BY <1>1, <2>2
    <3> QED BY <1>1, <2>2, <3>1 DEF Inv, PlacesKept, Registers
  <2> QED BY <2>1, <2>2
<1>6. Calls'
  <2>1. \A i \in 1 .. n : frames[i].exits \subseteq Exits(frames[i].block)
    BY DEF Inv, Calls
  <2>2. \A i \in 1 .. n - 1 : frames'[i].exits \subseteq Exits(frames'[i].block)
    BY <1>2, <1>3, <2>1
  <2> QED BY <1>1, <1>3, <1>4, <1>5, <2>2 DEF Calls, Exits
<1>7. \A i \in 1 .. n : \A x \in Exits(frames[i].block) \ frames[i].exits :
        Linked(Instr(frames[i].block.code, x).to)
  <2> SUFFICES ASSUME NEW i \in 1 .. n, NEW x \in Exits(frames[i].block) \ frames[i].exits
               PROVE  Linked(Instr(frames[i].block.code, x).to)
    OBVIOUS
  <2>1. Linked(Instr(frames[i].block.code, x).to) \/ want = Instr(frames[i].block.code, x).to
    BY DEF Inv, LinksMade
  <2>2. want # Instr(frames[i].block.code, x).to BY <1>1, CallFacts, PcsAreSome
  <2> QED BY <2>1, <2>2
<1>8. LinksMade'
  <2>1. ASSUME NEW c \in blocks, ~Linking(c)', NEW x \in Exits(c) PROVE Linked(Instr(c.code, x).to)
    <3>1. CASE Linking(c)
      <4>1. PICK i \in 1 .. n : frames[i].block = c BY <1>2, <3>1 DEF Linking
      <4>2. i = n
        <5>1. CASE i # n
          <6> HIDE DEF n
          <6>1. i \in 1 .. n - 1
            <7>1. n \in Nat BY <1>2
            <7> QED BY <5>1, <7>1
          <6>2. i \in DOMAIN frames' /\ frames'[i].block = c
            BY <1>3, <1>4, <4>1, <6>1
          <6> QED BY <2>1, <6>2 DEF Linking
        <5> QED BY <5>1
      <4> QED BY <1>1, <1>2, <1>7, <4>1, <4>2 DEF Top
    <3>2. CASE ~Linking(c) BY <3>2 DEF Inv, LinksMade
    <3> QED BY <3>1, <3>2
  <2>2. ASSUME NEW i \in 1 .. n - 1, NEW x \in Exits(frames'[i].block) \ frames'[i].exits
        PROVE  Linked(Instr(frames'[i].block.code, x).to)
    BY <1>2, <1>3, <1>7
  <2> QED BY <1>1, <1>3, <2>1, <2>2 DEF LinksMade, Linked, Exits
<1>9. MemoryEnds' /\ Registers' BY <1>1, <1>5 DEF Inv, MemoryEnds, Registers
<1>10. CacheFilled' BY <1>1 DEF Inv, CacheFilled, BlocksApart
<1> QED BY <1>5, <1>6, <1>8, <1>9, <1>10 DEF Inv

--------------------------------------------------------------------------------
(* The invariant *)

\* The program is in memory, and nothing in the cache.
LEMMA InitInv == ASSUME Init PROVE Inv
<1>1. MemoryEnds BY ProgramAssumption DEF Init, MemoryEnds
<1>2. 0 \in Pcs BY VectorAssumption
<1>3. Registers
  <2>1. Nowhere("other") \in [fate : Fates] BY DEF Nowhere, Fates
  <2> QED BY <1>2, <2>1, Sizes DEF Init, Registers, Procs
<1>4. CacheFilled BY DEF Init, CacheFilled, BlocksApart
<1>5. Calls BY DEF Init, Calls
<1>6. LinksMade BY DEF Init, LinksMade
<1>7. PlacesKept BY DEF Init, PlacesKept, Nowhere
<1> QED BY <1>1, <1>3, <1>4, <1>5, <1>6, <1>7 DEF Inv

\* A step that changes nothing.
LEMMA StutterInv == ASSUME Inv, UNCHANGED vars PROVE Inv'
<1>1. UNCHANGED <<mem, table, blocks, blind, ptr, flushes, phase, want, frames, cpu, place, PC, changed>>
  BY DEF vars, cacheVars, lookupVars, procVars
<1>2. MemoryEnds' /\ Registers' BY <1>1 DEF Inv, MemoryEnds, Registers
<1>3. CacheFilled' /\ PlacesKept' BY <1>1 DEF Inv, CacheFilled, BlocksApart, PlacesKept
<1>4. Calls' /\ LinksMade' BY <1>1 DEF Inv, Calls, LinksMade, Linking, Linked, Exits
<1> QED BY <1>2, <1>3, <1>4 DEF Inv

\* The invariant is kept by every step: nobody stands in a block that is gone unless a
\* store multiple left him there, whatever is written, dropped, translated and linked.
THEOREM Invariance == Spec => []Inv
<1>1. Init => Inv BY InitInv
<1>2. Inv /\ [Next]_vars => Inv'
  <2> SUFFICES ASSUME Inv, [Next]_vars PROVE Inv' OBVIOUS
  <2>1. CASE Lookup BY <2>1, FoundInv, TranslateInv, OverflowInv, LinkInv, ReturnInv DEF Lookup
  <2>2. CASE Guest
    BY <2>2, PlainInv, BranchInv, HaltInv, HaltCallInv, IndirectInv, StoreInv,
       StoreMultipleInv DEF Guest
  <2>3. CASE Outside
    BY <2>3, ResumeInv, InterruptInv, DmaWriteInv, LoadStateInv DEF Outside
  <2>4. CASE UNCHANGED vars BY <2>4, StutterInv
  <2> QED BY <2>1, <2>2, <2>3, <2>4 DEF Next
<1> QED BY <1>1, <1>2, PTL DEF Spec

\* The types of the variables.
THEOREM TypesAreKept == Spec => []TypeOK
<1>1. Inv => TypeOK
  <2> SUFFICES ASSUME Inv PROVE TypeOK OBVIOUS
  <2>1. \A b \in blocks : b \in Blocks /\ Cells(b) \subseteq 0 .. ptr - 1
    BY DEF Inv, CacheFilled, Shaped
  <2>2. DOMAIN frames = 1 .. Len(frames) BY DEF Inv, Calls
  <2>3. \A i \in DOMAIN frames : frames[i].block \in blocks /\ frames[i].exits \subseteq Pcs
    BY <2>2, CallFacts DEF Exits
  <2> QED BY <2>1, <2>3 DEF Inv, MemoryEnds, Registers, TypeOK
<1> QED BY <1>1, Invariance, PTL

\* Once arm_link_block is done with a block, no branch out of it leads nowhere.
THEOREM LinksLeadSomewhere == Spec => []LinksLive
<1>1. Inv => LinksLive
  <2> SUFFICES ASSUME Inv, NEW b \in blocks, ~Linking(b), NEW a \in Pcs \cap DOMAIN b.code,
                      Instr(b.code, a).kind \in {"if", "goto"}, Instr(b.code, a).to \notin DOMAIN b.code
               PROVE  \E t \in blocks : t.pc = Instr(b.code, a).to
    BY DEF LinksLive
  <2>1. a \in Exits(b) BY DEF Exits
  <2> QED BY <2>1 DEF Inv, LinksMade, Linked
<1> QED BY <1>1, Invariance, PTL

\* Translation never runs over a block that is in use, not even when the cache has
\* overflowed in the middle of links.
THEOREM BlocksLieApart == Spec => []BlocksApart
<1>1. Inv => BlocksApart BY DEF Inv, CacheFilled
<1> QED BY <1>1, Invariance, PTL

\* A processor leaves at once what its own store has dropped, unless a store multiple did.
THEOREM OwnDropLeaves == Spec => []OwnDrop
<1>1. Inv => OwnDrop BY DEF Inv, PlacesKept, Registers, OwnDrop
<1> QED BY <1>1, Invariance, PTL

--------------------------------------------------------------------------------
(* What blocks are made of *)

\* A store that the page table does not see reaches of a block only what no entry of it
\* stands for.
LEMMA UnseenStore ==
  ASSUME Inv, Fresh, NEW w \in Writes, Write(w), ~Seen(w), Unseen(w)
  PROVE  Fresh'
<1>1. UNCHANGED <<table, blocks>> /\ blind' = blind \cup Blinded(w) BY DEF Unseen
<1>2. Marked' BY <1>1 DEF Fresh, Marked
<1>3. ASSUME NEW b \in blocks, NEW h \in DOMAIN b.code, <<b.at, h>> \notin blind'
      PROVE  b.code[h] = mem'[h]
  <2>1. Shaped(b) BY DEF Inv, CacheFilled
  <2>2. h \notin Reach(w)
    <3> SUFFICES ASSUME h \in Reach(w) PROVE FALSE OBVIOUS
    <3>1. CASE h \in Guarded(w)
      <4>1. ~w.image /\ w.to \in Pcs \cap DOMAIN b.code BY <2>1, <3>1, StoreReaches
      <4> QED BY <4>1 DEF Fresh, Marked, Seen
    <3>2. CASE h \notin Guarded(w)
      <4>1. <<b.at, h>> \in {b.at} \X ((Reach(w) \ Guarded(w)) \cap DOMAIN b.code)
        BY <1>3, <3>2
      <4>2. <<b.at, h>> \in Blinded(w) BY <4>1 DEF Blinded
      <4> QED BY <1>1, <1>3, <4>2
    <3> QED BY <3>1, <3>2
  <2>3. h \in Addr
    <3>1. PICK e \in Pcs : Spans(b, e) BY <2>1 DEF Shaped
    <3>2. DOMAIN b.code = b.pc .. e + Step - 1 /\ b.pc \in Pcs
      BY <2>1, <3>1 DEF Spans, Shaped, Blocks
    <3>3. b.pc \in Addr /\ e + Step - 1 \in Addr BY <3>2, Sizes
    <3> QED BY <3>2, <3>3, Sizes DEF Addr
  <2>4. mem'[h] = mem[h] BY <2>2, <2>3 DEF Write
  <2>5. <<b.at, h>> \notin blind BY <1>1, <1>3
  <2> QED BY <2>4, <2>5 DEF Fresh, Coherent
<1> QED BY <1>1, <1>2, <1>3 DEF Fresh, Coherent

\* What is translated is what memory holds, and the page table knows of it.
LEMMA TranslateFresh == ASSUME Inv, Fresh, Translate PROVE Fresh'
<1> DEFINE b == Translation(want)
<1>1. /\ want # None /\ blocks' = blocks \cup {b} /\ mem' = mem /\ blind' = blind
      /\ table' = [a \in Addr |-> IF a \in Pcs \cap DOMAIN b.code THEN ptr ELSE table[a]]
  BY DEF Translate, Missing
<1>2. want \in Pcs /\ MemoryEnds /\ ptr \in 0 .. Limit BY <1>1 DEF Inv, Registers
<1>3. \A h \in DOMAIN b.code : b.code[h] = mem[h] BY <1>2, TranslationShaped
<1> HIDE DEF b
<1>4. Coherent' BY <1>1, <1>3 DEF Fresh, Coherent
<1>5. ptr # None BY <1>2 DEF None
<1>6. \A a \in Pcs : table'[a] = IF a \in DOMAIN b.code THEN ptr ELSE table[a]
  BY <1>1, Sizes
<1>7. Marked' BY <1>1, <1>5, <1>6 DEF Fresh, Marked
<1> QED BY <1>4, <1>7 DEF Fresh

\* Every step keeps blocks what memory holds.
LEMMA FreshKept == ASSUME Inv, Fresh, [Next]_vars PROVE Fresh'
<1>1. ASSUME UNCHANGED <<mem, table, blocks, blind>> PROVE Fresh'
  BY <1>1 DEF Fresh, Marked, Coherent
<1>2. ASSUME blocks' = {} PROVE Fresh' BY <1>2 DEF Fresh, Marked, Coherent
<1>3. ASSUME NEW w \in Writes, Write(w), Seen(w) => Flush,
             ~Seen(w) => Unseen(w)
      PROVE  Fresh'
  <2>1. CASE Seen(w) BY <1>2, <1>3, <2>1, FlushedTable
  <2>2. CASE ~Seen(w) BY <1>3, <2>2, UnseenStore
  <2> QED BY <2>1, <2>2
<1>4. CASE Lookup
  <2>1. CASE Translate BY <2>1, TranslateFresh
  <2>2. CASE Overflow BY <1>2, <2>2, FlushedTable DEF Overflow
  <2>3. CASE Found \/ Link \/ Return
    BY <1>1, <2>3 DEF Found, Link, Return, cacheVars
  <2> QED BY <1>4, <2>1, <2>2, <2>3 DEF Lookup
<1>5. CASE Guest
  <2>1. CASE Plain \/ Branch \/ Halt \/ HaltCall \/ \E pc \in Pcs : IndirectBranch(pc)
    BY <1>1, <2>1 DEF Plain, Branch, Halt, HaltCall, IndirectBranch, cacheVars
  <2>2. ASSUME NEW w \in Writes, Store(w) PROVE Fresh' BY <1>3, <2>2 DEF Store
  <2>3. ASSUME NEW w \in Writes, StoreMultiple(w) PROVE Fresh'
    BY <1>3, <2>3 DEF StoreMultiple
  <2> QED BY <1>5, <2>1, <2>2, <2>3 DEF Guest
<1>6. CASE Outside
  <2>1. ASSUME NEW p \in Procs, Resume(p) \/ Interrupt(p) PROVE Fresh'
    BY <1>1, <2>1 DEF Resume, Interrupt, cacheVars
  <2>2. ASSUME NEW w \in Writes, DmaWrite(w) PROVE Fresh' BY <1>3, <2>2 DEF DmaWrite
  <2>3. ASSUME NEW pc \in Pcs, LoadState(pc) PROVE Fresh'
    BY <1>2, <2>3, FlushedTable DEF LoadState
  <2> QED BY <1>6, <2>1, <2>2, <2>3 DEF Outside
<1>7. CASE UNCHANGED vars BY <1>1, <1>7 DEF vars, cacheVars
<1> QED BY <1>4, <1>5, <1>6, <1>7 DEF Next

\* write_smc_check sees every store and transfer that reaches a block, but for those at
\* halfwords that none of its entries stands for: what a block was made from is otherwise
\* what memory holds, halfword by halfword.
THEOREM BlocksAreMemory == Spec => []Coherent
<1>1. Init => Fresh BY DEF Init, Fresh, Marked, Coherent
<1>2. Inv /\ Fresh /\ [Next]_vars => Fresh' BY FreshKept
<1>3. Fresh => Coherent BY DEF Fresh
<1> QED BY <1>1, <1>2, <1>3, Invariance, PTL DEF Spec

\* What the run dynarec checks of the cache on two programs, for every program.
THEOREM CacheIsSound == Spec => []CacheSound
BY TypesAreKept, BlocksAreMemory, LinksLeadSomewhere, BlocksLieApart, OwnDropLeaves, PTL
   DEF CacheSound

\* What a processor executes is what memory holds at its address, unless a store multiple
\* has dropped the block and the processor has not left it yet, or one of the instruction's
\* halves was stored to out of sight of write_smc_check.
OutOfSight == \E h \in Here.pc .. Here.pc + Step - 1 : <<Here.block.at, h>> \in blind
RunsMemory == Runs /\ Here.fate # "stm" /\ ~OutOfSight => Op = Instr(mem, Here.pc)

\* Code that is run from the cache is the code of memory.
THEOREM MemoryIsRun == Spec => []RunsMemory
<1>1. Inv /\ Coherent => RunsMemory
  <2> SUFFICES ASSUME Inv, Coherent, Runs, Here.fate # "stm", ~OutOfSight
               PROVE  Op = Instr(mem, Here.pc)
    BY DEF RunsMemory
  <2>1. GoodPlace(Here) /\ Here.fate = "live" /\ Here.block \in blocks BY RunFacts
  <2>2. Shaped(Here.block) /\ Here.pc \in Pcs \cap DOMAIN Here.block.code
    BY <2>1 DEF GoodPlace, Places
  <2>3. Here.pc .. Here.pc + Step - 1 \subseteq DOMAIN Here.block.code BY <2>2, InstrWhole
  <2>4. \A h \in Here.pc .. Here.pc + Step - 1 : Here.block.code[h] = mem[h]
    BY <2>1, <2>3 DEF Coherent, OutOfSight
  <2>5. /\ Here.pc \in Here.pc .. Here.pc + Step - 1
        /\ Here.pc + Step - 1 \in Here.pc .. Here.pc + Step - 1
    <3>1. Step \in Nat /\ Step > 0 BY Sizes
    <3>2. Here.pc \in Nat BY <2>2, Sizes
    <3> QED BY <3>1, <3>2
  <2> QED BY <2>4, <2>5 DEF Op, Instr
<1> QED BY <1>1, Invariance, BlocksAreMemory, PTL

================================================================================
