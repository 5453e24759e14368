------------------------------ MODULE MCDynarec ------------------------------
(***************************************************************************)
(* The recompiler in five units.  "cache": two processors over one        *)
(* translation cache, with a program of three ARM instructions that ends   *)
(* in a jump backwards, a word of data behind it, and stores to the data   *)
(* and to either half of the second instruction, which may become a jump   *)
(* or a branch through a register; a word may name either half, or come    *)
(* through another image of memory.  "thumb": the same over Thumb          *)
(* instructions, of which a word holds two.  "word": every instruction word, in both decoders   *)
(* and in the scan.  "block": every program of three instructions with a   *)
(* return behind them, run beside the code it is translated to.  "host":   *)
(* instruction words and constants, with the code that is put down for     *)
(* them, run on terms.  Every row and column is among the words, with      *)
(* registers that have a home and that have none, the same register twice, *)
(* and r15; Here is a place that takes more than one piece to load, and in *)
(* a Thumb block is no multiple of four.                                   *)
(***************************************************************************)
EXTENDS Dynarec

VARIABLES unit,   \* which unit this behaviour explores
          word,   \* an instruction word, with the set it belongs to
          program, block, at, zero, counted, guest, spent, inside

blockVars == <<program, block, at, zero, counted, guest, spent, inside>>

Do == [kind |-> "plain", to |-> 0]
Indirect == [kind |-> "bx", to |-> 0]
Back == [kind |-> "goto", to |-> 2]
MCValues == {Do, Indirect, Back}
MCProgram == [a \in Addr |-> IF a \in {Final, Final + 1} THEN Back ELSE Do]
Stored(to, wide, image, values) == [to : {to}, wide : {wide}, image : {image}, value : values]
MCWrites ==
  Stored(2, TRUE, FALSE, {Do, Indirect}) \cup Stored(2, FALSE, FALSE, {Do}) \cup
  Stored(3, TRUE, FALSE, {Do}) \cup Stored(3, FALSE, FALSE, {Indirect}) \cup
  Stored(2, TRUE, TRUE, {Do})

ThumbBack == [kind |-> "goto", to |-> 1]
ThumbProgram == <<Do, Do, ThumbBack>>
ThumbWrites ==
  Stored(0, TRUE, FALSE, {Do}) \cup Stored(1, TRUE, FALSE, {Do}) \cup
  Stored(1, FALSE, FALSE, {Do, Indirect}) \cup Stored(1, FALSE, TRUE, {Do})

VARIABLES thumbMem, thumbTable, thumbBlocks, thumbBlind, thumbPtr, thumbFlushes, thumbPhase,
          thumbWant, thumbFrames, thumbCpu, thumbPlace, thumbPC, thumbChanged

thumbVars == <<thumbMem, thumbTable, thumbBlocks, thumbBlind, thumbPtr, thumbFlushes, thumbPhase,
               thumbWant, thumbFrames, thumbCpu, thumbPlace, thumbPC, thumbChanged>>

Thumb == INSTANCE Dynarec WITH
  Size <- 3, Step <- 1, Final <- 2, Values <- {Do, Indirect, ThumbBack},
  Program <- [a \in 0 .. 2 |-> ThumbProgram[a + 1]], Writes <- ThumbWrites,
  mem <- thumbMem, table <- thumbTable, blocks <- thumbBlocks, blind <- thumbBlind,
  ptr <- thumbPtr, flushes <- thumbFlushes, phase <- thumbPhase, want <- thumbWant,
  frames <- thumbFrames, cpu <- thumbCpu, place <- thumbPlace, PC <- thumbPC,
  changed <- thumbChanged

\* the unseen stores between two flushes are bounded, by what they reach
MaxBlind == 2

Length == 4
Simple(c, does) == [c |-> c, does |-> does, to |-> 0]
Jumps == [c : {"AL", "EQ"}, does : {"branch"}, to : 1 .. Length]
GoBack == Simple("AL", "return")
ArmInstructions ==
  {Simple(c, "work") : c \in {"AL", "EQ", "NE", "NV"}} \cup {Simple(c, "compare") : c \in {"AL", "EQ"}} \cup
  {Simple(c, "store15") : c \in {"AL", "EQ"}} \cup {Simple("NV", "branch"), Simple("EQ", "return"), GoBack} \cup Jumps
ThumbInstructions == {Simple("AL", "work"), Simple("AL", "compare"), GoBack} \cup Jumps
Programs(instructions) == {q \in [1 .. Length -> instructions] : q[Length] = GoBack}

Word == INSTANCE ArmTranslate
Block == INSTANCE BlockCode WITH
  ArmPrograms <- Programs(ArmInstructions), ThumbPrograms <- Programs(ThumbInstructions)
Host == INSTANCE Disassembler WITH Here <- 33571076, Spent <- 300

\* Registers rn, rd, rs, rm; with a constant in the word few columns are enough.
Registers == {<<0, 1, 6, 12>>, <<2, 3, 4, 5>>, <<15, 1, 12, 1>>, <<2, 15, 0, 2>>, <<13, 0, 4, 15>>}
ArmColumns == ((0 .. 31 \cup 96 .. 127) \X (0 .. 15)) \cup ((32 .. 95 \cup 128 .. 255) \X {0, 5, 15})
HostArm ==
  {[w |-> Host!Coded(c[1], q[1], q[2], q[3], c[2], q[4]), nv |-> nv] :
     c \in ArmColumns, q \in Registers, nv \in BOOLEAN}
HostThumb == [w : 0 .. 1023, low : {0, 7, 15, 42, 63}, prev : {-1, 3, 1027}]
HostBits == {0, 1, 7, 8, 13, 24, 25, 26, 30, 31}
----------------------------------------------------------------------------
wordIdle == word = [set |-> "none", bits |-> 0]
blockIdle ==
  /\ program = [thumb |-> FALSE, at |-> [i \in 1 .. Length |-> GoBack]] /\ block = [code |-> <<>>]
  /\ at = 0 /\ zero = FALSE /\ counted = 0 /\ guest = 1 /\ spent = 0 /\ inside = FALSE

MCInit ==
  /\ Init /\ Thumb!Init
  /\ \/ unit \in {"cache", "thumb"} /\ wordIdle /\ blockIdle
     \/ /\ unit = "word" /\ blockIdle
        /\ \/ word \in [set : {"arm"}, bits : Word!ArmWords]
           \/ word \in [set : {"thumb"}, bits : Word!ThumbWords]
     \/ unit = "block" /\ wordIdle /\ Block!Init
     \/ /\ unit = "host" /\ blockIdle
        /\ \/ \E a \in HostArm : (a.nv => a.w.row \in 160 .. 191) /\ word = [set |-> "host arm", bits |-> a]
           \/ \E w \in HostThumb : (w.prev >= 0 => w.w > 927) /\ word = [set |-> "host thumb", bits |-> w]
           \/ word \in [set : {"constant"}, bits : SUBSET HostBits]

CacheOnly == unit = "cache" /\ UNCHANGED <<unit, word, blockVars, thumbVars>>
ThumbOnly == unit = "thumb" /\ UNCHANGED <<unit, word, blockVars, vars>>
MCNext ==
  \/ CacheOnly /\ Next /\ Cardinality(blind') <= MaxBlind
  \/ ThumbOnly /\ Thumb!Next /\ Cardinality(thumbBlind') <= MaxBlind
  \/ unit = "block" /\ Block!Next /\ UNCHANGED <<vars, thumbVars, unit, word>>

MCVars == <<vars, thumbVars, unit, word, blockVars>>
MCSpec == MCInit /\ [][MCNext]_MCVars
MCFairSpec == MCSpec /\ WF_MCVars(CacheOnly /\ Lookup)
----------------------------------------------------------------------------
Arm == word.set = "arm"
ThumbSet == word.set = "thumb"

\* The three readings of an instruction word agree, but for the words that are named
\* (translate_arm_instruction and translate_thumb_instruction, against the tables of the
\* interpreter; arm_set_condition, "so it'd better be right this time"; arm_exit_point,
\* arm_branch_target and what ends or leaves a block).
WordsAgree ==
  /\ Arm => Word!ArmReadingsAgree(word.bits)
  /\ ThumbSet => Word!ThumbReadingsAgree(word.bits)
  /\ word.set = "host arm" => Host!ArmListingTrue(word.bits.w, word.bits.nv)
  /\ word.set = "host thumb" => Host!ThumbListingTrue(word.bits.w, word.bits.low, word.bits.prev)

\* What the code of one word does is what the word means, but for the words that are
\* named; and a constant is put together from its pieces.
HostFaithful ==
  CASE word.set = "host arm"   -> Host!ArmFaithful(word.bits.w, word.bits.nv)
    [] word.set = "host thumb" -> Host!ThumbFaithful(word.bits.w, word.bits.low, word.bits.prev)
    [] word.set = "constant"   -> Host!ConstantMade(word.bits)

\* A block does what its instructions do: each is run while its condition holds, although
\* one test stands for a run of them, none is passed over, every way out has counted
\* its cycles, loops take time, and control does not run past the end
\* (cpu_threaded.cpp:252, generate_branch_patch_conditional_arm, generate_cycle_update).
\* The code of each instruction, with the guest's registers spread over host registers,
\* the file and scratch registers that every call spoils, leaves what the interpreter
\* leaves (arm_emit.h, "rm: a0, rn: a1, rs: lr, rd: a0").  The blocks of Thumb code in the
\* cache are what the cache's own property says of ARM's.
BlocksFaithful ==
  /\ unit = "thumb" => Thumb!CacheSound
  /\ unit = "block" => Block!BlockFaithful
  /\ unit = "host" => HostFaithful
=============================================================================
