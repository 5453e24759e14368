----------------------------- MODULE MatrixStacks ------------------------------
(***************************************************************************)
(* The four matrix modes of the geometry engine and their stacks            *)
(* (gfx3d.cpp, matrix.cpp).  Position and vector matrices have a stack each *)
(* that has to be moved with the other; projection and texture matrices     *)
(* have a single entry.  Stacks are addressed modulo their size, and leaving *)
(* the range is only noted in the error flag.                               *)
(*                                                                         *)
(* A matrix is a number modulo Order, and a product their sum: what the      *)
(* properties tell apart is where a matrix came from.                       *)
(***************************************************************************)
EXTENDS Integers, Sequences

CONSTANTS Order,        \* how many matrices there are
          Deepest,      \* 31: the last entry of the position and vector stacks, one less than 2^n
          Offsets,      \* parameters of MTX_POP
          MatrixModes,  \* modes the game sets: 0 projection, 1 position, 2 both, 3 texture
          MaxEdits      \* bound: how often it changes a current matrix

ASSUME StacksAssumption ==
  /\ Order \in Nat \ {0} /\ Deepest \in Nat \ {0} /\ MaxEdits \in Nat
  /\ Offsets \subseteq Int /\ MatrixModes \subseteq 0 .. 3

Identity == 0
Product(a, b) == (a + b) % Order
NonTrivial == 1 .. Order - 1

VARIABLES
  mode, current,        \* mtxCurrent
  stack,                \* by mode: position and matrix (mtxStack)
  se,                   \* stack error flag of gxstat
  edits,
  saved                 \* what the game has pushed and not popped: position and vector matrix

matrixVars == <<mode, current, stack, se, edits, saved>>

Size(m) == IF m \in {1, 2} THEN Deepest ELSE 1
Entry(m, i) == IF m \in {1, 2} THEN i ELSE 0

MatricesTypeOK ==
  /\ mode \in 0 .. 3 /\ current \in [0 .. 3 -> 0 .. Order - 1]
  /\ stack = [m \in 0 .. 3 |-> stack[m]]
  /\ \A m \in 0 .. 3 : stack[m] \in [position : 0 .. Size(m), matrix : [0 .. Size(m) -> 0 .. Order - 1]]
  /\ se \in BOOLEAN
  /\ edits \in 0 .. MaxEdits
  /\ saved \in Seq((0 .. Order - 1) \X (0 .. Order - 1)) /\ Len(saved) <= Deepest

MatricesInit ==
  /\ mode = 0 /\ current = [m \in 0 .. 3 |-> Identity]
  /\ stack = [m \in 0 .. 3 |-> [position |-> 0, matrix |-> [i \in 0 .. Size(m) |-> Identity]]]
  /\ se = FALSE /\ edits = 0 /\ saved = <<>>

\* mutant: as the mode says
AffectedExactly == IF mode = 2 THEN {1, 2} ELSE {mode}

\* "this command always works on both pos and vector when either pos or pos-vector are the
\* current mtx mode"
Affected == IF mode \in {1, 2} THEN {1, 2} ELSE {mode}

gfx3d_glMatrixMode == \E m \in MatrixModes : mode' = m /\ UNCHANGED <<current, stack, se, edits, saved>>

\* MatrixStackSetStackPosition: modulo the size of the stack, with the error flag
LeavesRange(m, change) == stack[m].position + change \notin 0 .. Size(m)
Moved(m, change) == (stack[m].position + change) % (Size(m) + 1)

-----------------------------------------------------------------------------
(* Push and pop *)

gfx3d_glPushMatrix ==
  /\ stack' = [m \in 0 .. 3 |->
                IF m \notin Affected THEN stack[m]
                ELSE [position |-> Moved(m, 1),
                      matrix |-> [stack[m].matrix EXCEPT ![Entry(m, stack[m].position)] = current[m]]]]
  /\ se' = (se \/ \E m \in Affected : LeavesRange(m, 1))
  /\ saved' = IF mode \notin {1, 2} THEN saved
              ELSE IF Len(saved) = Deepest THEN <<>>
              ELSE Append(saved, <<current[1], current[2]>>)
  /\ UNCHANGED <<mode, current, edits>>

\* position and vector matrix of an entry
PairAt(k) == <<stack[1].matrix[k], stack[2].matrix[k]>>

\* What the game counts on after a pop by i; by a negative one it takes over what lies above.
LeftBy(i) ==
  LET n == Len(saved) - i
  IN  IF n \in 0 .. Deepest THEN [k \in 1 .. n |-> IF k <= Len(saved) THEN saved[k] ELSE PairAt(k - 1)]
      ELSE <<>>

\* mutant: the position moves after the matrix was taken
gfx3d_glPopMatrixBefore ==
  \E offset \in Offsets :
    LET i == IF mode = 0 THEN 1 ELSE offset IN
    /\ stack' = [m \in 0 .. 3 |->
                  IF m \in Affected THEN [stack[m] EXCEPT !.position = Moved(m, -i)] ELSE stack[m]]
    /\ current' = [m \in 0 .. 3 |->
                    IF m \in Affected THEN stack[m].matrix[Entry(m, stack[m].position)] ELSE current[m]]
    /\ se' = (se \/ \E m \in Affected : LeavesRange(m, -i))
    /\ saved' = IF mode \in {1, 2} THEN LeftBy(i) ELSE saved
    /\ UNCHANGED <<mode, edits>>

\* mutant: no error below the stack
gfx3d_glPopMatrixQuiet ==
  \E offset \in Offsets :
    LET i == IF mode = 0 THEN 1 ELSE offset IN
    /\ stack' = [m \in 0 .. 3 |->
                  IF m \in Affected THEN [stack[m] EXCEPT !.position = Moved(m, -i)] ELSE stack[m]]
    /\ current' = [m \in 0 .. 3 |->
                    IF m \in Affected THEN stack'[m].matrix[Entry(m, stack'[m].position)] ELSE current[m]]
    /\ saved' = IF mode \in {1, 2} THEN LeftBy(i) ELSE saved
    /\ UNCHANGED <<mode, se, edits>>

gfx3d_glPopMatrix ==
  \E offset \in Offsets :
    LET i == IF mode = 0 THEN 1 ELSE offset IN
    /\ stack' = [m \in 0 .. 3 |->
                  IF m \in Affected THEN [stack[m] EXCEPT !.position = Moved(m, -i)] ELSE stack[m]]
    /\ current' = [m \in 0 .. 3 |->
                    IF m \in Affected THEN stack'[m].matrix[Entry(m, stack'[m].position)] ELSE current[m]]
    /\ se' = (se \/ \E m \in Affected : LeavesRange(m, -i))
    /\ saved' = IF mode \in {1, 2} THEN LeftBy(i) ELSE saved
    /\ UNCHANGED <<mode, edits>>

-----------------------------------------------------------------------------
(* Store and restore address an entry; the last one sets the error flag, too.  A game stores  *)
(* above what it has pushed. *)

gfx3d_glStoreMatrix ==
  \E v \in 0 .. Deepest :
    LET at == IF mode \in {0, 3} THEN 0 ELSE v IN
    /\ mode \in {1, 2} => at >= Len(saved)
    /\ stack' = [m \in 0 .. 3 |-> IF m \in Affected THEN [stack[m] EXCEPT !.matrix[at] = current[m]]
                                  ELSE stack[m]]
    /\ se' = (se \/ at = Deepest)
    /\ UNCHANGED <<mode, current, edits, saved>>

gfx3d_glRestoreMatrix ==
  \E v \in 0 .. Deepest :
    LET at == IF mode \in {0, 3} THEN 0 ELSE v IN
    /\ current' = [m \in 0 .. 3 |-> IF m \in Affected THEN stack[m].matrix[at] ELSE current[m]]
    /\ se' = (se \/ at = Deepest)
    /\ UNCHANGED <<mode, stack, edits, saved>>

-----------------------------------------------------------------------------
(* What changes the current matrix: in mode 2 both, except for the scale *)

Edited == edits < MaxEdits /\ edits' = edits + 1

Transformed == IF mode = 2 THEN {1, 2} ELSE {mode}

\* gfx3d_glLoadIdentity; a load of four or three columns, complete: the position matrix is a copy
LoadMatrix ==
  \E v \in 0 .. Order - 1 :
    /\ current' = [m \in 0 .. 3 |-> IF m \in Transformed THEN v ELSE current[m]]
    /\ Edited /\ UNCHANGED <<mode, stack, se, saved>>

\* gfx3d_glMultMatrix4x4, 4x3, 3x3 and gfx3d_glTranslate
MultMatrix ==
  \E v \in NonTrivial :
    /\ current' = [m \in 0 .. 3 |-> IF m \in Transformed THEN Product(current[m], v) ELSE current[m]]
    /\ Edited /\ UNCHANGED <<mode, stack, se, saved>>

\* "the whole purpose is to keep the vector matrix orthogonal"
gfx3d_glScale ==
  \E v \in NonTrivial :
    /\ LET m == IF mode = 2 THEN 1 ELSE mode IN current' = [current EXCEPT ![m] = Product(@, v)]
    /\ Edited /\ UNCHANGED <<mode, stack, se, saved>>

\* TGXSTAT::write32 with bit 15.  The game gives up what it pushed if there was an error.
ClearError ==
  /\ stack' = [stack EXCEPT ![0].position = 0]
  /\ se' = FALSE
  /\ saved' = IF se THEN [k \in 1 .. stack[2].position |-> PairAt(k - 1)] ELSE saved
  /\ UNCHANGED <<mode, current, edits>>

MatricesNext ==
  \/ gfx3d_glMatrixMode
  \/ gfx3d_glPushMatrix
  \/ gfx3d_glPopMatrix
  \/ gfx3d_glStoreMatrix
  \/ gfx3d_glRestoreMatrix
  \/ LoadMatrix
  \/ MultMatrix
  \/ gfx3d_glScale
  \/ ClearError

MatricesSpec == MatricesInit /\ [][MatricesNext]_matrixVars

-----------------------------------------------------------------------------
(* Properties *)

\* Unless the error flag tells otherwise, the entries below the position are the position and
\* vector matrices the game pushed, in pairs and in their order: a pop gives back what belongs
\* to it, whichever of the two modes was set at the push and at the pop.
StackHoldsPairs ==
  ~se => \A m \in {1, 2} :
           /\ stack[m].position = Len(saved)
           /\ \A k \in 1 .. Len(saved) : stack[m].matrix[k - 1] = saved[k][m]

\* Of every step: a pop within what was pushed makes the oldest matrices it passes the current ones.
PopRestores ==
  gfx3d_glPopMatrix /\ ~se' /\ mode \in {1, 2} /\ Len(saved') < Len(saved) =>
    <<current'[1], current'[2]>> = saved[Len(saved') + 1]

\* The two stacks never part, not even after an error.
StacksInStep == stack[1].position = stack[2].position

\* The stacks as the game may rely on them (gfx3d_glPushMatrix, gfx3d_glPopMatrix, matrix.cpp).
StacksPaired == MatricesTypeOK /\ StackHoldsPairs /\ StacksInStep

\* Every pop gives back what its push took (gfx3d_glPopMatrix, MatrixStackPopMatrix).
PopsRestore == [][PopRestores]_matrixVars
=============================================================================
