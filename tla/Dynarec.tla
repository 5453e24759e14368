------------------------------ MODULE Dynarec ------------------------------
(***************************************************************************)
(* The translation cache of the recompiler: blocks of guest code are       *)
(* translated on first use, linked to each other, found again by a page    *)
(* table that both processors share, and all thrown away when a write is   *)
(* seen to reach one of them or the cache is full.                         *)
(*                                                                         *)
(* Addresses count halfwords, as the page table does, within one of the    *)
(* images of main memory that the address space holds; code runs in this   *)
(* one, and is stored to through all of them.  One instruction set is in   *)
(* use, with instructions of Step halfwords, the last of which says what   *)
(* the instruction does to control and the first where it leads.  The      *)
(* cache is measured in instructions, with one more for the header of a    *)
(* block.  The blocks of the BIOS, which are kept apart, are left out.     *)
(***************************************************************************)
EXTENDS Integers, Sequences, FiniteSets

CONSTANTS Size,     \* halfwords of memory
          Step,     \* halfwords of an instruction: 2 for ARM, 1 for Thumb
          Final,    \* the last instruction, a jump that is never overwritten; data behind it
          Values,   \* what a halfword may hold: [kind, to]
          Program,  \* what memory holds at first
          Writes,   \* what the game stores, at which halfword, one or the word
            \* around it, and whether through another image of memory
          Vector,   \* where an interrupt goes
          Limit     \* translation_cache_limit

Addr == 0 .. Size - 1
Pcs == {a \in 0 .. Final : a % Step = 0}
None == -1
Procs == {"arm9", "arm7"}
Kinds == {"plain", "if", "goto", "bx"}

\* an instruction that starts at a
Instr(m, a) == [kind |-> m[a + Step - 1].kind, to |-> m[a].to]

\* MEM_MASK16 and MEM_MASK32: where a store lands, whichever half of a word it names
Reach(w) == IF w.wide THEN {w.to - (w.to % 2), w.to - (w.to % 2) + 1} ELSE {w.to}

ASSUME SizesAssumption ==
  /\ Step \in {1, 2} /\ {Size, Final, Limit} \subseteq Nat
  /\ Final % Step = 0 /\ Final + Step <= Size
ASSUME VectorAssumption == {0, Vector} \subseteq Pcs
ASSUME ValuesAssumption == Values \subseteq [kind : Kinds, to : Pcs]
ASSUME ProgramAssumption ==
  Program \in [Addr -> Values] /\ Instr(Program, Final).kind \in {"goto", "bx"}
ASSUME WritesAssumption ==
  /\ Writes \subseteq [to : Addr, wide : BOOLEAN, image : BOOLEAN, value : Values]
  /\ \A w \in Writes : Reach(w) \subseteq Addr \ (Final .. Final + Step - 1)

VARIABLES
  mem,
  table,     \* dynarec_page_table: the header a halfword's block was given
  blocks,    \* what lies in the cache: [at, pc, code]
  blind,     \* history: halfwords of blocks stored to where write_smc_check cannot see
  ptr,       \* rom_translation_ptr
  flushes,   \* translation_flush_count
  phase,     \* "out" of translated code, in a "lookup", in a "run", or "lost"
  want,      \* what block_lookup_address was called with
  frames,    \* the translate_block calls that wait for it
  cpu,       \* dynarec_cpu
  place,     \* where it runs, and where the other left (REG_SAVE_LR_DYNAREC)
  PC,        \* REG_PC, as of the end of the last burst
  changed    \* CHANGED_PC_STATUS

cacheVars == <<table, blocks, blind, ptr, flushes>>
lookupVars == <<want, frames>>
procVars == <<place, PC, changed>>
vars == <<mem, cacheVars, phase, lookupVars, cpu, procVars>>

Code == UNION {[a .. z + Step - 1 -> Values] : a \in Pcs, z \in Pcs}
Blocks == [at : 0 .. Limit, pc : Pcs, code : Code]
Fates == {"live", "own", "stm", "other"}  \* how the block of a place was dropped
Places == [block : Blocks, pc : Pcs, fate : Fates]
Nowhere(how) == [fate |-> how]

Cells(b) == b.at .. b.at + Cardinality(DOMAIN b.code) \div Step

\* Memory, table and cache have their types, every block lies below ptr, the
\* calls that link blocks hold blocks of the cache.
TypeOK ==
  /\ mem \in [Addr -> Values]
  /\ table \in [Addr -> {None} \cup 0 .. Limit]
  /\ \A b \in blocks : b \in Blocks /\ Cells(b) \subseteq 0 .. ptr - 1
  /\ blind \subseteq (0 .. Limit) \X Addr
  /\ ptr \in 0 .. Limit
  /\ flushes \in Nat
  /\ phase \in {"out", "lookup", "run", "lost"}
  /\ want \in {None} \cup Pcs
  /\ \A i \in DOMAIN frames : frames[i].block \in blocks /\ frames[i].exits \subseteq Pcs
  /\ cpu \in Procs
  /\ place \in [Procs -> Places \cup [fate : Fates]]
  /\ PC \in [Procs -> Pcs]
  /\ changed \in [Procs -> 0 .. 2]

\* move_reg: both processors have to look up where they start
Init ==
  /\ mem = Program
  /\ table = [a \in Addr |-> None] /\ blocks = {} /\ blind = {} /\ ptr = 0 /\ flushes = 0
  /\ phase = "out" /\ want = None /\ frames = <<>>
  /\ cpu = "arm9"
  /\ place = [p \in Procs |-> Nowhere("other")]
  /\ PC = [p \in Procs |-> 0]
  /\ changed = [p \in Procs |-> 1]

-----------------------------------------------------------------------------
(* Blocks *)

\* scan_block: an unconditional branch ends the block unless an earlier branch
\* of it leads just behind; one through a register misses the last of them
Branches(pc, a) == {x \in Pcs : pc <= x /\ x < a /\ Instr(mem, x).kind \in {"if", "goto"}}
EndsAt(pc, a) ==
  /\ Instr(mem, a).kind \in {"goto", "bx"}
  /\ \A x \in Branches(pc, a) :
       Instr(mem, x).to = a + Step =>
         Instr(mem, a).kind = "bx" /\ \A y \in Branches(pc, a) : y <= x
End(pc) ==
  CHOOSE a \in Pcs : /\ a >= pc /\ EndsAt(pc, a)
                     /\ \A x \in Pcs : pc <= x /\ x < a => ~EndsAt(pc, x)

Translation(pc) ==
  [at |-> ptr, pc |-> pc, code |-> [h \in pc .. End(pc) + Step - 1 |-> mem[h]]]

\* mutant: only branches forward are linked
ExitsAhead(b) ==
  {a \in Pcs : /\ a \in DOMAIN b.code /\ Instr(b.code, a).kind \in {"if", "goto"}
               /\ Instr(b.code, a).to \notin DOMAIN b.code /\ Instr(b.code, a).to > a}

\* branches that leave the block
Exits(b) ==
  {a \in Pcs : /\ a \in DOMAIN b.code /\ Instr(b.code, a).kind \in {"if", "goto"}
               /\ Instr(b.code, a).to \notin DOMAIN b.code}

\* retrieve_adr, and the header it leads to
Hits(pc) == {b \in blocks : b.at = table[pc] /\ b.pc = pc}

\* flush_translation_cache_rom
Flush ==
  /\ table' = [a \in Addr |-> None]
  /\ blocks' = {} /\ blind' = {}
  /\ ptr' = 0

\* what becomes of a place that was in it
Lost(l, how) == IF l.fate = "live" THEN Nowhere(how) ELSE l
Dropped(how) == [p \in Procs |-> Lost(place[p], IF p = cpu THEN how ELSE "other")]

-----------------------------------------------------------------------------
(* block_lookup_address *)

Ask(pc) ==
  /\ phase' = "lookup" /\ want' = pc /\ frames' = <<>>
  /\ flushes' = 0

Start(b) == [block |-> b, pc |-> b.pc, fate |-> "live"]
Enter(b) ==
  /\ phase' = "run"
  /\ place' = [place EXCEPT ![cpu] = Start(b)]

\* the block is there
Found ==
  /\ phase = "lookup" /\ want # None
  /\ \E b \in Hits(want) :
       IF frames = <<>> THEN Enter(b) ELSE UNCHANGED <<phase, place>>
  /\ want' = None
  /\ UNCHANGED <<mem, cacheVars, frames, cpu, PC, changed>>

Missing == phase = "lookup" /\ want # None /\ Hits(want) = {}

\* mutants: the limit is not looked at; the header of a block is not counted
TranslateOn ==
  /\ Missing
  /\ LET b == Translation(want) IN
       /\ blocks' = blocks \cup {b}
       /\ table' = [a \in Addr |-> IF a \in Pcs \cap DOMAIN b.code THEN ptr ELSE table[a]]
       /\ ptr' = ptr + Cardinality(Cells(b))
       /\ frames' = Append(frames, [block |-> b, exits |-> Exits(b)])
  /\ want' = None
  /\ UNCHANGED <<mem, blind, flushes, phase, cpu, procVars>>
TranslateShort ==
  /\ Missing
  /\ LET b == Translation(want) IN
       /\ Cells(b) \subseteq 0 .. Limit - 1
       /\ blocks' = blocks \cup {b}
       /\ table' = [a \in Addr |-> IF a \in Pcs \cap DOMAIN b.code THEN ptr ELSE table[a]]
       /\ ptr' = ptr + Cardinality(Cells(b)) - 1
       /\ frames' = Append(frames, [block |-> b, exits |-> Exits(b)])
  /\ want' = None
  /\ UNCHANGED <<mem, blind, flushes, phase, cpu, procVars>>

\* translate_block up to its links, with add_adr for each of its instructions
Translate ==
  /\ Missing
  /\ LET b == Translation(want) IN
       /\ Cells(b) \subseteq 0 .. Limit - 1
       /\ blocks' = blocks \cup {b}
       /\ table' = [a \in Addr |-> IF a \in Pcs \cap DOMAIN b.code THEN ptr ELSE table[a]]
       /\ ptr' = ptr + Cardinality(Cells(b))
       /\ frames' = Append(frames, [block |-> b, exits |-> Exits(b)])
  /\ want' = None
  /\ UNCHANGED <<mem, blind, flushes, phase, cpu, procVars>>

\* mutant: the cache is not rewound
OverflowFull ==
  /\ Missing
  /\ ~ Cells(Translation(want)) \subseteq 0 .. Limit - 1
  /\ table' = [a \in Addr |-> None] /\ blocks' = {} /\ blind' = {}
  /\ place' = Dropped("other")
  /\ flushes' = flushes + 1
  /\ want' = IF frames = <<>> THEN want ELSE frames[1].block.pc
  /\ frames' = <<>>
  /\ UNCHANGED <<mem, phase, cpu, ptr, PC, changed>>

\* no room: every call returns, and the outermost one starts again in an empty cache
Overflow ==
  /\ Missing
  /\ ~ Cells(Translation(want)) \subseteq 0 .. Limit - 1
  /\ Flush
  /\ place' = Dropped("other")
  /\ flushes' = flushes + 1
  /\ want' = IF frames = <<>> THEN want ELSE frames[1].block.pc
  /\ frames' = <<>>
  /\ UNCHANGED <<mem, phase, cpu, PC, changed>>

Top == frames[Len(frames)]

\* mutant: the exit stays to be linked
LinkAgain ==
  /\ phase = "lookup" /\ want = None /\ Top.exits # {}
  /\ LET a == CHOOSE x \in Top.exits : \A y \in Top.exits : x <= y IN
       want' = Instr(Top.block.code, a).to
  /\ UNCHANGED <<mem, cacheVars, frames, phase, cpu, procVars>>

\* arm_link_block: the next branch out of the block
Link ==
  /\ phase = "lookup" /\ want = None /\ Top.exits # {}
  /\ LET a == CHOOSE x \in Top.exits : \A y \in Top.exits : x <= y IN
       /\ want' = Instr(Top.block.code, a).to
       /\ frames' = [frames EXCEPT ![Len(frames)].exits = @ \ {a}]
  /\ UNCHANGED <<mem, cacheVars, phase, cpu, procVars>>

Return ==
  /\ phase = "lookup" /\ want = None /\ Top.exits = {}
  /\ frames' = SubSeq(frames, 1, Len(frames) - 1)
  /\ IF Len(frames) = 1 THEN Enter(Top.block) ELSE UNCHANGED <<phase, place>>
  /\ UNCHANGED <<mem, cacheVars, want, cpu, PC, changed>>

Lookup == Found \/ Translate \/ Overflow \/ Link \/ Return

-----------------------------------------------------------------------------
(* Translated code *)

\* mutant: only the first instruction of a block counts
SeenStart(w) == ~w.image /\ \E b \in blocks : b.pc = w.to /\ b.at = table[w.to]

\* write_smc_check, which looks at the entry of the address as it is written and at no
\* other; the page table has entries for every image, and only this one's are filled
Seen(w) == ~w.image /\ table[w.to] # None

Write(w) == mem' = [h \in Addr |-> IF h \in Reach(w) THEN w.value ELSE mem[h]]

\* One entry stands for the instruction that starts there.  A store through another
\* image, one that names the second half of an ARM instruction, and the other half of a
\* word over Thumb instructions have none that it could be.
Guarded(w) == IF w.image \/ w.to % Step # 0 THEN {} ELSE w.to .. w.to + Step - 1
Blinded(w) == UNION {{b.at} \X ((Reach(w) \ Guarded(w)) \cap DOMAIN b.code) : b \in blocks}
Unseen(w) ==
  /\ blind' = blind \cup Blinded(w)
  /\ UNCHANGED <<table, blocks, ptr>>

Runs == phase = "run"
Here == place[cpu]
Op == Instr(Here.block.code, Here.pc)
Behind == Here.pc + Step

Plain ==
  /\ Runs /\ Op.kind \in {"plain", "if"}
  /\ place' = [place EXCEPT ![cpu].pc = Behind]
  /\ UNCHANGED <<mem, cacheVars, phase, lookupVars, cpu, PC, changed>>

\* arm_update_gba: the burst ends, and goes on from l, which the game calls pc
Leave(pc, l) ==
  /\ phase' = "out"
  /\ PC' = [PC EXCEPT ![cpu] = pc]
  /\ place' = [place EXCEPT ![cpu] = l]

\* a direct branch ends the burst: within the block, or over a link
Branch ==
  /\ Runs /\ Op.kind \in {"if", "goto"}
  /\ IF Op.to \in DOMAIN Here.block.code
     THEN Leave(Op.to, [Here EXCEPT !.pc = Op.to])
     ELSE \/ Here.fate = "live" /\ \E b \in blocks : b.pc = Op.to /\ Leave(Op.to, Start(b))
          \/ Here.fate # "live" /\ Leave(Op.to, Here)
  /\ UNCHANGED <<mem, cacheVars, lookupVars, cpu, changed>>

\* arm_indirect_branch goes on within the burst
IndirectBranch(pc) ==
  /\ Runs /\ Op.kind = "bx"
  /\ Ask(pc)
  /\ UNCHANGED <<mem, table, blocks, blind, ptr, cpu, procVars>>

\* lookup_pc
LookUpNext ==
  /\ Ask(Behind)
  /\ changed' = [changed EXCEPT ![cpu] = 0]
  /\ PC' = [PC EXCEPT ![cpu] = Behind]

\* arm_update_gba_idle
Idle ==
  /\ changed' = [changed EXCEPT ![cpu] = 0]
  /\ Leave(Behind, [Here EXCEPT !.pc = Behind])
  /\ UNCHANGED <<lookupVars, flushes>>

Stores == Runs /\ Op.kind = "plain"

\* mutant: the burst ends without a look at CHANGED_PC_STATUS
StoreUnmarked(w) ==
  /\ Stores
  /\ Write(w)
  /\ IF Seen(w)
     THEN /\ Flush /\ place' = Dropped("own")
          /\ phase' = "out" /\ PC' = [PC EXCEPT ![cpu] = Behind]
     ELSE /\ Unseen(w) /\ UNCHANGED <<phase, PC>>
          /\ place' = [place EXCEPT ![cpu].pc = Behind]
  /\ UNCHANGED <<lookupVars, flushes, changed, cpu>>

\* execute_store_u8, _u16 and _u32 look at CHANGED_PC_STATUS after the write;
\* the second takes no notice of a halt
Store(w) ==
  /\ Stores
  /\ Write(w)
  /\ IF Seen(w)
     THEN Flush /\ place' = Dropped("own") /\ LookUpNext
     ELSE /\ Unseen(w)
          /\ \/ /\ changed[cpu] = 0
                /\ place' = [place EXCEPT ![cpu].pc = Behind]
                /\ UNCHANGED <<phase, lookupVars, flushes, changed, PC>>
             \/ changed[cpu] # 0 /\ LookUpNext /\ UNCHANGED place
             \/ changed[cpu] = 2 /\ Idle
  /\ UNCHANGED cpu

\* execute_store_u32_safe of a store multiple does not look: it goes on in the
\* code it may have dropped
StoreMultiple(w) ==
  /\ Stores /\ w.wide
  /\ Write(w)
  /\ IF Seen(w)
     THEN /\ Flush
          /\ place' = [Dropped("other") EXCEPT
                        ![cpu] = [block |-> Here.block, pc |-> Behind,
                                  fate |-> IF Here.fate = "live" THEN "stm" ELSE Here.fate]]
          /\ changed' = [changed EXCEPT ![cpu] = 1]
     ELSE /\ Unseen(w) /\ UNCHANGED changed
          /\ place' = [place EXCEPT ![cpu].pc = Behind]
  /\ UNCHANGED <<phase, lookupVars, flushes, PC, cpu>>

\* a store to the register that halts
Halt ==
  /\ Stores
  /\ Idle
  /\ UNCHANGED <<mem, table, blocks, blind, ptr, cpu>>

\* a system call that does so, seen at the next store or the end of the burst
HaltCall ==
  /\ Stores
  /\ changed' = [changed EXCEPT ![cpu] = 2]
  /\ place' = [place EXCEPT ![cpu].pc = Behind]
  /\ UNCHANGED <<mem, cacheVars, phase, lookupVars, cpu, PC>>

-----------------------------------------------------------------------------
(* Outside of translated code *)

\* dynarec_exec: look up, or go on where the last burst ended
Resume(p) ==
  /\ phase = "out"
  /\ cpu' = p
  /\ IF changed[p] # 0
     THEN /\ Ask(PC[p])
          /\ changed' = [changed EXCEPT ![p] = 0]
     ELSE /\ phase' = IF place[p].fate = "live" THEN "run" ELSE "lost"
          /\ UNCHANGED <<lookupVars, flushes, changed>>
  /\ UNCHANGED <<mem, table, blocks, blind, ptr, place, PC>>

\* armcpu_irqException
Interrupt(p) ==
  /\ phase = "out"
  /\ PC' = [PC EXCEPT ![p] = Vector]
  /\ changed' = [changed EXCEPT ![p] = 1]
  /\ UNCHANGED <<mem, cacheVars, phase, lookupVars, cpu, place>>

\* a transfer writes between bursts; the processor told of it is the last that ran
DmaWrite(w) ==
  /\ phase = "out"
  /\ Write(w)
  /\ IF Seen(w)
     THEN /\ Flush
          /\ place' = Dropped("other")
          /\ changed' = [changed EXCEPT ![cpu] = 1]
     ELSE Unseen(w) /\ UNCHANGED <<place, changed>>
  /\ UNCHANGED <<flushes, phase, lookupVars, cpu, PC>>

\* loadstate_slot: memory as it once was, the processors reset, the cache empty
LoadState(pc) ==
  /\ phase = "out"
  /\ mem' = Program
  /\ Flush
  /\ place' = Dropped("other")
  /\ PC' = [p \in Procs |-> pc]
  /\ changed' = [p \in Procs |-> 1]
  /\ UNCHANGED <<flushes, phase, lookupVars, cpu>>

-----------------------------------------------------------------------------
Guest ==
  \/ Plain \/ Branch \/ Halt \/ HaltCall
  \/ \E pc \in Pcs : IndirectBranch(pc)
  \/ \E w \in Writes : Store(w) \/ StoreMultiple(w)
Outside ==
  \/ \E p \in Procs : Resume(p) \/ Interrupt(p)
  \/ \E w \in Writes : DmaWrite(w)
  \/ \E pc \in Pcs : LoadState(pc)
Next == Lookup \/ Guest \/ Outside

Spec == Init /\ [][Next]_vars

\* one thread runs a lookup to its end
FairSpec == Spec /\ WF_vars(Lookup)

-----------------------------------------------------------------------------
(* Properties *)

\* What a block was translated from is still what memory holds, halfword by halfword, but
\* for those that were stored to where write_smc_check cannot see: through another image
\* of memory, at the second half of an ARM instruction, or in the other half of a word
\* over Thumb code.  Every other store and transfer that reached a block was seen.
Coherent ==
  \A b \in blocks : \A h \in DOMAIN b.code : b.code[h] = mem[h] \/ <<b.at, h>> \in blind

\* A branch out of a block that is done being linked leads to a block of the
\* cache, which flush_translation_cache_rom only ever drops as a whole.
Linking(b) == \E i \in DOMAIN frames : frames[i].block = b
LinksLive ==
  \A b \in blocks : ~Linking(b) =>
    \A a \in Pcs \cap DOMAIN b.code :
      Instr(b.code, a).kind \in {"if", "goto"} /\ Instr(b.code, a).to \notin DOMAIN b.code =>
        \E t \in blocks : t.pc = Instr(b.code, a).to

\* No block is translated over another, also after the overflow of the cache in
\* the middle of its links.
BlocksApart == \A b, c \in blocks : Cells(b) \cap Cells(c) # {} => b = c

\* A processor does not go on in a block that its own store has dropped, unless
\* a store multiple did it.
OwnDrop == phase = "lost" => place[cpu].fate # "own"

\* A lookup throws the cache away at most once ("we allow for one translation
\* cache flush").
OneFlush == flushes <= 1

\* The cache is sound: its blocks are what memory holds but for what was stored out of
\* sight of write_smc_check, apart from each other and linked to each other, and nobody
\* goes on in what it has dropped itself.
CacheSound == TypeOK /\ Coherent /\ LinksLive /\ BlocksApart /\ OwnDrop

\* A lookup with all of its links comes to an end, after one flush at most.
LookupEnds == (phase = "lookup" ~> phase # "lookup") /\ []OneFlush
=============================================================================
