------------------------------ MODULE BlockCode ------------------------------
(***************************************************************************)
(* From a stretch of instructions to host code that runs them under their  *)
(* conditions and counts their cycles.  scan_block looks for the end of    *)
(* the block and marks what ends a run of instructions on one condition;   *)
(* the translation puts one test in front of each run and adds up cycles   *)
(* while it translates, writing the sum into the code where another way    *)
(* leads in or out.  The module runs the code beside the instructions it   *)
(* was made from.                                                          *)
(*                                                                         *)
(* An instruction: does "work" writes no flags, "compare" writes them,     *)
(* "branch" goes to the instruction to (0 is outside), "return" goes where *)
(* a register says, "store15" names r15 as the register it stores.         *)
(***************************************************************************)
EXTENDS Integers, Sequences, FiniteSets, FiniteSetsExt

CONSTANTS Length,      \* instructions from the entry to the last one there is
          ArmPrograms, ThumbPrograms

VARIABLES program,     \* [thumb, at : 1 .. Length -> instruction]
          block,       \* its translation
          at,          \* the next piece of host code
          zero,        \* the flag the conditions look at
          counted,     \* cycles added to reg_cycles since the last jump
          guest,       \* the instruction the interpreter would look at next
          spent,       \* cycles the interpreter would have counted
          inside       \* a run was entered behind its test

vars == <<program, block, at, zero, counted, guest, spent, inside>>

Instr(p, i) == p.at[i]
Always(c) == c \in {"AL", "NV"}
Holds(c, z) == c = "AL" \/ (c = "EQ" /\ z) \/ (c = "NE" /\ ~z)
\* The interpreter takes no instruction on NV but BLX.
Taken(p, i, z) ==
  LET x == Instr(p, i) IN IF x.c = "NV" THEN x.does = "branch" ELSE Holds(x.c, z)
Cost(p, i) ==
  LET x == Instr(p, i)
  IN  IF x.does = "return" \/ (x.does = "branch" /\ ~(p.thumb /\ x.c = "AL")) THEN 3 ELSE 1
----------------------------------------------------------------------------
\* scan_block.  A store of r15 looks like an exit; in Thumb there is none.
Exit(p, i) == Instr(p, i).does \in {"branch", "return", "store15"}
\* The branches recorded up to i without the last of them.
Recorded(p, i) == {j \in 1 .. i : Instr(p, j).does = "branch"}
Earlier(p, i) == Recorded(p, i) \ {j \in Recorded(p, i) : \A k \in Recorded(p, i) : k <= j}
\* Mutant: a conditional branch ends the block as well.
ClosesAny(p, i) == Exit(p, i) /\ \A j \in Earlier(p, i) : Instr(p, j).to # i + 1
\* thumb_opcode_unconditional_branch, arm_opcode_unconditional_branch
Closes(p, i) ==
  /\ Exit(p, i) /\ Always(Instr(p, i).c)
  /\ \A j \in Earlier(p, i) : Instr(p, j).to # i + 1
Last(p) == CHOOSE i \in 1 .. Length : Closes(p, i) /\ \A j \in 1 .. i - 1 : ~Closes(p, j)
\* arm_set_condition: 0x10 for an exit, 0x20 for what writes flags.
Mark(p, i) == [c |-> Instr(p, i).c, exit |-> Exit(p, i), flags |-> Instr(p, i).does = "compare"]
Marked(p, i) == IF i = 0 THEN [c |-> "AL", exit |-> FALSE, flags |-> FALSE] ELSE Mark(p, i)
\* update_cycles: an instruction behind the first that a branch of the block goes to.
Entry(p, i) == \E j \in Recorded(p, Last(p)) : Instr(p, j).to = i /\ i \in 2 .. Last(p)
Conditional(p, i) == i > 0 /\ ~Always(Instr(p, i).c)
\* Mutant: one condition is as good as another.
NewRunByKind(p, i) == (Conditional(p, i) # Conditional(p, i - 1)) \/ Mark(p, i).flags
\* Mutant: what writes flags does not end a run.
NewRunByCondition(p, i) == Mark(p, i).c # Marked(p, i - 1).c
\* A new run begins, and with it the test of its condition.
NewRun(p, i) == Mark(p, i) # Marked(p, i - 1) \/ Mark(p, i).flags
FirstOf(p, i) == CHOOSE h \in 1 .. i : NewRun(p, h) /\ \A j \in h + 1 .. i : ~NewRun(p, j)
----------------------------------------------------------------------------
\* Host code.  generate_cycle_update writes nothing when nothing was counted.
Add(n) == IF n = 0 THEN <<>> ELSE <<[k |-> "add", n |-> n]>>
Test(i) == <<[k |-> "test", i |-> i]>>
Join(n) == <<[k |-> "join", n |-> n]>>
Run(i) == <<[k |-> "run", i |-> i]>>
Jump(i) == <<[k |-> "jump", i |-> i]>>
Leave(i) == <<[k |-> "leave", i |-> i]>>

\* Mutant: what was counted is not taken back from who was skipped.
PatchKept(p, i, n) == Add(n) \o Join(i - FirstOf(p, i - 1))
\* generate_branch_patch_conditional_arm in front of instruction i, with n cycles
\* counted: who was skipped took one cycle for every instruction of the run.
Patch(p, i, n) ==
  LET skipped == i - FirstOf(p, i - 1)
  IN  Add(n) \o Add(-skipped) \o Join(skipped)
\* What comes before the code of instruction i; the cycles counted are n.
Front(p, i, n) ==
  (IF Conditional(p, i - 1) THEN Patch(p, i, n) ELSE <<>>) \o
  (IF Conditional(p, i) THEN Add(IF Conditional(p, i - 1) THEN 0 ELSE n) \o Test(i) ELSE <<>>)
FrontCount(p, i, n) == IF NewRun(p, i) /\ (Conditional(p, i - 1) \/ Conditional(p, i)) THEN 0 ELSE n
\* Its code: arm_b, arm_bl, arm_blx_imm; arm_bx, which updates the cycles only
\* where the condition was just found to be AL; what counts behind its code.
Updates(p, i) == Instr(p, i).c = "AL" /\ NewRun(p, i)
\* Mutant: a jump takes no time of its own.
BodyFree(p, i, n) ==
  LET x == Instr(p, i)
  IN  CASE x.does = "branch" -> [code |-> Add(n) \o Jump(i), count |-> 0]
        [] x.does = "return" ->
             [code  |-> (IF Updates(p, i) THEN Add(n + 3) ELSE <<>>) \o Leave(i),
              count |-> IF Updates(p, i) THEN 0 ELSE n + 3]
        [] OTHER             -> [code |-> Run(i), count |-> n + 1]
Body(p, i, n) ==
  LET x == Instr(p, i)
  IN  CASE x.does = "branch" -> [code |-> Add(n + 3) \o Jump(i), count |-> 0]
        [] x.does = "return" ->
             [code  |-> (IF Updates(p, i) THEN Add(n + 3) ELSE <<>>) \o Leave(i),
              count |-> IF Updates(p, i) THEN 0 ELSE n + 3]
        [] OTHER             -> [code |-> Run(i), count |-> n + 1]
ArmPiece(p, i, n) ==
  LET front == IF NewRun(p, i) THEN Front(p, i, n) ELSE <<>>
      body  == Body(p, i, FrontCount(p, i, n))
  IN  [code |-> front \o body.code, count |-> body.count]

\* thumb_conditional_branch, and thumb_b for AL: two cycles are added behind the
\* jump, where only the code itself could come, and one for who does not jump.
ThumbPiece(p, i, n) ==
  LET x == Instr(p, i)
  IN  CASE x.does = "branch" /\ ~Always(x.c) ->
             [code |-> Add(n) \o Test(i) \o Jump(i) \o Add(2) \o Join(1), count |-> 0]
        [] x.does = "branch" /\ Always(x.c)  -> [code |-> Add(n + 1) \o Jump(i), count |-> 0]
        [] x.does = "return"                 -> [code |-> Add(n + 3) \o Leave(i), count |-> 0]
        [] x.does \in {"work", "compare"}    -> [code |-> Run(i), count |-> n + 1]

\* translate_block_arm, translate_block_thumb: the code up to instruction i, the
\* cycles counted and where each instruction's code begins (block_offset).
Translated(p) ==
  LET T[i \in 0 .. Last(p)] ==
        IF i = 0 THEN [code |-> <<>>, count |-> 0, offset |-> <<>>]
        ELSE LET b     == T[i - 1]
                 piece == IF p.thumb THEN ThumbPiece(p, i, b.count) ELSE ArmPiece(p, i, b.count)
                 more  == IF Entry(p, i + 1) THEN Add(piece.count) ELSE <<>>
             IN  [code   |-> b.code \o piece.code \o more,
                  count  |-> IF Entry(p, i + 1) THEN 0 ELSE piece.count,
                  offset |-> Append(b.offset, Len(b.code) + 1)]
  IN  T[Last(p)]
----------------------------------------------------------------------------
Code == block.code
Now == Code[at]
Is(k) == at \in 1 .. Len(Code) /\ Now.k = k
\* Where a test that fails goes on: behind the code if nothing was written into it.
NextJoin == Min({j \in at + 1 .. Len(Code) : Code[j].k = "join"} \cup {Len(Code) + 1})
\* What the interpreter has counted when it is done with instruction i.
SpentAt(i) == spent + (i - guest) + Cost(program, i)

Init ==
  /\ \/ program \in [thumb : {FALSE}, at : ArmPrograms]
     \/ program \in [thumb : {TRUE}, at : ThumbPrograms]
  /\ block = Translated(program)
  /\ at = 1 /\ zero \in BOOLEAN /\ counted = 0
  /\ guest = 1 /\ spent = 0 /\ inside = FALSE

AddCycles ==
  /\ Is("add")
  /\ counted' = counted + Now.n /\ at' = at + 1
  /\ UNCHANGED <<program, block, zero, guest, spent, inside>>

TestFlags ==
  /\ Is("test")
  /\ at' = IF Holds(Instr(program, Now.i).c, zero) THEN at + 1 ELSE NextJoin
  /\ inside' = FALSE
  /\ UNCHANGED <<program, block, zero, counted, guest, spent>>

\* The runs meet again.
Meet ==
  /\ Is("join")
  /\ counted' = counted + Now.n /\ at' = at + 1 /\ inside' = FALSE
  /\ UNCHANGED <<program, block, zero, guest, spent>>

RunInstruction ==
  /\ Is("run")
  /\ zero' \in IF Instr(program, Now.i).does = "compare" THEN BOOLEAN ELSE {zero}
  /\ at' = at + 1 /\ guest' = Now.i + 1 /\ spent' = SpentAt(Now.i)
  /\ UNCHANGED <<program, block, counted, inside>>

\* A branch inside the block; the counting starts anew.
JumpInside ==
  /\ Is("jump")
  /\ LET to == Instr(program, Now.i).to
     IN  /\ to \in 1 .. Last(program)
         /\ at' = block.offset[to] /\ guest' = to
         /\ inside' = (~program.thumb /\ Conditional(program, to) /\ ~NewRun(program, to))
  /\ counted' = 0 /\ spent' = 0
  /\ UNCHANGED <<program, block, zero>>

LeaveBlock ==
  /\ Is("leave") \/ (Is("jump") /\ Instr(program, Now.i).to \notin 1 .. Last(program))
  /\ at' = 0
  /\ UNCHANGED <<program, block, zero, counted, guest, spent, inside>>

Next == AddCycles \/ TestFlags \/ Meet \/ RunInstruction \/ JumpInside \/ LeaveBlock

Spec == Init /\ [][Next]_vars
----------------------------------------------------------------------------
TypeOK ==
  /\ at \in 0 .. Len(Code) + 1 /\ zero \in BOOLEAN /\ inside \in BOOLEAN
  /\ guest \in 1 .. Length + 1 /\ spent \in 0 .. 3 * Length /\ counted \in -Length .. 3 * Length

Executes == Is("run") \/ Is("jump") \/ Is("leave")

\* Code of an instruction is run only while its condition holds, although one
\* test stands for a whole run of instructions.  Two kinds are run regardless:
\* those on NV that are not branches, and those a branch reaches behind the test
\* of their run.
ConditionsHold ==
  Executes =>
    \/ Taken(program, Now.i, zero)
    \/ Instr(program, Now.i).c = "NV" /\ Instr(program, Now.i).does # "branch"
    \/ inside
\* No instruction whose condition holds is passed over.
NothingSkipped ==
  Executes => Now.i >= guest /\ \A j \in guest .. Now.i - 1 : ~Taken(program, j, zero)
\* Whichever way was taken through the block, the cycles that have been added when
\* it branches are those the interpreter counts.  Only the three of a conditional
\* branch of Thumb are lost, and what was not yet written into the code where an
\* ARM return has a condition that is not freshly AL.
CyclesCounted ==
  LET lost == IF program.thumb /\ Is("jump") /\ ~Always(Instr(program, Now.i).c) THEN 3 ELSE 0
  IN  Is("jump") \/ (Is("leave") /\ (program.thumb \/ Updates(program, Now.i))) =>
        counted = SpentAt(Now.i) - lost
\* Time passes on every way around a loop, else nothing could interrupt it: unless
\* all there is to it are conditional branches of Thumb.
TimeAdvances ==
  Is("jump") => counted > 0 \/ (program.thumb /\ guest = Now.i /\ ~Always(Instr(program, Now.i).c))
\* Control does not run past the code of the block into what happens to lie behind
\* it, unless the block ends with a store of r15, which was taken for an exit.
StaysInCode ==
  at <= Len(Code) \/ Instr(program, Last(program)).does = "store15"

\* A block does what the instructions do that it was made from.
BlockFaithful ==
  TypeOK /\ ConditionsHold /\ NothingSkipped /\ CyclesCounted /\ TimeAdvances /\ StaysInCode
=============================================================================
