--------------------------- MODULE GeometryCommands ----------------------------
(***************************************************************************)
(* How the words a game stores become calls of the geometry engine: the    *)
(* unpacker of packed commands (GXF_Hardware, gfx3d.cpp), the port of each  *)
(* command, and the handlers that collect their parameters with an index    *)
(* of their own.  Two tables have to agree: gfx3d_commandTypes says how     *)
(* many parameters belong to a command, the handlers when they have all.    *)
(*                                                                         *)
(* The queue between the unpacker and the handlers keeps the order and is   *)
(* left out (it is in GxSystem).  Parameters have no value; a matrix is     *)
(* the set of its elements that the current command has given.              *)
(***************************************************************************)
EXTENDS Integers, Sequences

CONSTANTS Words,      \* packed words: sequences of four commands
          Ports,      \* commands a game writes to their own port
          Beyond      \* what may lie behind the array of four (read when the last is parameterless)

NOARG == 0
INVALID == 255        \* 0xFF
UNDEFINED == 204      \* 0xCC

\* gfx3d_commandTypes
commandTypes ==
  [nop |-> INVALID, unused |-> UNDEFINED,
   mode |-> 1, push |-> NOARG, pop |-> 1, store |-> 1, restore |-> 1, identity |-> NOARG,
   load4x4 |-> 16, load4x3 |-> 12, mult4x4 |-> 16, mult4x3 |-> 12, mult3x3 |-> 9,
   scale |-> 3, translate |-> 3,
   color |-> 1, normal |-> 1, texcoord |-> 1, vertex16 |-> 2, vertex10 |-> 1, vertexXY |-> 1,
   vertexXZ |-> 1, vertexYZ |-> 1, vertexRel |-> 1, polyattr |-> 1, teximage |-> 1,
   texpalette |-> 1,
   material0 |-> 1, material1 |-> 1, lightvector |-> 1, lightcolor |-> 1, shininess |-> 32,
   begin |-> 1, end |-> NOARG, swap |-> 1, viewport |-> 1,
   boxtest |-> 3, postest |-> 2, vectest |-> 1]

Commands == DOMAIN commandTypes
Known(c) == commandTypes[c] \notin {INVALID, UNDEFINED}
NeedsNone(c) == commandTypes[c] = NOARG

ASSUME GeometryAssumption ==
  /\ \A word \in Words : word \in Seq(Commands) /\ Len(word) = 4
  /\ Ports \subseteq {c \in Commands : Known(c)} /\ Beyond \subseteq Commands

\* commands whose handler keeps an index between parameters
Collecting == {"load4x4", "load4x3", "mult4x4", "mult4x3", "mult3x3", "scale", "translate",
               "vertex16", "shininess", "boxtest", "postest"}
Matrices == {"load4x4", "load4x3", "mult4x4", "mult4x3", "mult3x3"}

VARIABLES
  pending,      \* commandsPending from commandCursor on
  engine,       \* ind: the handlers' indexes; tb, tr of gxstat; placed, whole: see below
  due,          \* what the engine has still to be called with for the words so far
  inOrder,      \* it has been called with nothing else
  stray,        \* a command came from behind the array
  cut           \* a reset came between the parameters of a shininess table

geometryVars == <<pending, engine, due, inOrder, stray, cut>>

GeometryTypeOK ==
  /\ pending \in Seq([command : Commands, countdown : 0 .. 32]) /\ Len(pending) <= 4
  /\ engine.ind \in [Collecting -> 0 .. 127]
  /\ engine.tb \in BOOLEAN /\ engine.tr \in BOOLEAN /\ engine.whole \in BOOLEAN
  /\ engine.placed \subseteq 0 .. 15
  /\ due \in Seq(Commands)
  /\ inOrder \in BOOLEAN /\ stray \in BOOLEAN /\ cut \in BOOLEAN

GeometryInit ==
  /\ pending = <<>>
  /\ engine = [ind |-> [c \in Collecting |-> 0], tb |-> FALSE, tr |-> FALSE,
               placed |-> {}, whole |-> TRUE]
  /\ due = <<>> /\ inOrder = TRUE /\ stray = FALSE /\ cut = FALSE

-----------------------------------------------------------------------------
(* The handlers *)

\* the matrices of three columns have no element 3, 7, 11 and 15
NextElement(i) == IF (i + 1) % 4 = 3 THEN i + 2 ELSE i + 1

gfx3d_glVertex16b(i) == 1 - i
gfx3d_glShininess(i) == (i + 4) % 128

\* mutant: the last column is not skipped
AdvanceEveryElement(c, i) ==
  CASE c \in {"load4x4", "mult4x4"} -> (i + 1) % 16
    [] c \in {"load4x3", "mult4x3"} -> (i + 1) % 12
    [] c = "mult3x3" -> (i + 1) % 9
    [] c \in {"scale", "translate"} -> (i + 1) % 3
    [] c = "vertex16" -> 1 - i
    [] c = "shininess" -> (i + 4) % 128
    [] c = "boxtest" -> IF i + 2 < 5 THEN i + 2 ELSE 0
    [] c = "postest" -> IF i + 2 < 3 THEN i + 2 ELSE 0

\* mutant: the box test is over with five coordinates
AdvanceFive(c, i) ==
  CASE c \in {"load4x4", "mult4x4"} -> (i + 1) % 16
    [] c \in {"load4x3", "mult4x3"} -> NextElement(i) % 16
    [] c = "mult3x3" -> NextElement(i) % 12
    [] c \in {"scale", "translate"} -> (i + 1) % 3
    [] c = "vertex16" -> 1 - i
    [] c = "shininess" -> (i + 4) % 128
    [] c = "boxtest" -> IF i + 2 < 7 THEN i + 2 ELSE 0
    [] c = "postest" -> IF i + 2 < 3 THEN i + 2 ELSE 0

\* the index after one more parameter, 0 when it was the last
Advance(c, i) ==
  CASE c \in {"load4x4", "mult4x4"} -> (i + 1) % 16
    [] c \in {"load4x3", "mult4x3"} -> NextElement(i) % 16
    [] c = "mult3x3" -> NextElement(i) % 12
    [] c \in {"scale", "translate"} -> (i + 1) % 3
    [] c = "vertex16" -> gfx3d_glVertex16b(i)
    [] c = "shininess" -> gfx3d_glShininess(i)
    [] c = "boxtest" -> IF i + 2 < 5 THEN i + 2 ELSE 0
    [] c = "postest" -> IF i + 2 < 3 THEN i + 2 ELSE 0

\* "fill in the unused matrix values"
FilledIn(c) ==
  CASE c \in {"load4x3", "mult4x3"} -> {3, 7, 11, 15}
    [] c = "mult3x3" -> {3, 7, 11, 15, 12, 13, 14}
    [] OTHER -> {}

\* A test is busy from its first parameter to its last, the test of a vector not at all.
gfx3d_glBoxTest(e, next) == [e EXCEPT !.tb = next # 0, !.tr = FALSE]
gfx3d_glPosTest(e, next) == [e EXCEPT !.tb = next # 0]
gfx3d_glVecTest(e) == [e EXCEPT !.tb = FALSE]

\* A matrix takes element i; it is used with the last one, and the next starts anew.
Place(e, c, i, next) ==
  LET placed == e.placed \cup {i} IN
  [e EXCEPT !.placed = IF next = 0 THEN {} ELSE placed,
            !.whole = IF next = 0 THEN placed \cup FilledIn(c) = 0 .. 15 ELSE @]

\* gfx3d_execute of one entry.  The answer of a box test, tr, is left open until it is there.
Execute(e, c) ==
  LET i == e.ind[c]
      next == Advance(c, i)
      collected == [e EXCEPT !.ind[c] = next]
  IN CASE c \in Matrices -> Place(collected, c, i, next)
       [] c = "boxtest" -> gfx3d_glBoxTest(collected, next)
       [] c = "postest" -> gfx3d_glPosTest(collected, next)
       [] c = "vectest" -> gfx3d_glVecTest(e)
       [] c \in {"scale", "translate", "vertex16", "shininess"} -> collected
       [] OTHER -> e

\* a word's commands one after the other, and one from behind them
After(e, entries, i) == IF i > Len(entries) THEN e ELSE Execute(e, entries[i])
Executed(e, entries) ==
  After(After(After(After(After(e, entries, 1), entries, 2), entries, 3), entries, 4), entries, 5)

-----------------------------------------------------------------------------
(* The unpacker *)

Item(c) == [command |-> c, countdown |-> commandTypes[c]]

\* the commands of a word but those without a meaning
Taken(c) == IF Known(c) THEN <<c>> ELSE <<>>
Packed(word) == Taken(word[1]) \o Taken(word[2]) \o Taken(word[3]) \o Taken(word[4])

\* how many of the commands in front need no parameter
Free(commands) ==
  CHOOSE n \in 0 .. Len(commands) :
    /\ \A i \in 1 .. n : NeedsNone(commands[i])
    /\ n < Len(commands) => ~NeedsNone(commands[n + 1])

\* the entries are sent to the engine; the game expects those of "due", in order
Send(entries, expected) ==
  LET n == Len(entries)
      asExpected == n <= Len(expected) /\ entries = SubSeq(expected, 1, n) IN
  /\ engine' = Executed(engine, entries)
  /\ inOrder' = (inOrder /\ asExpected)
  /\ due' = IF asExpected THEN SubSeq(expected, n + 1, Len(expected)) ELSE <<>>

\* what a word asks for: each command as often as it has parameters, or once
Copies(c, n) == [k \in 1 .. n |-> c]
Calls(commands, i) ==
  IF i > Len(commands) THEN <<>>
  ELSE Copies(commands[i], IF NeedsNone(commands[i]) THEN 1 ELSE commandTypes[commands[i]])
Expand(commands) == Calls(commands, 1) \o Calls(commands, 2) \o Calls(commands, 3) \o Calls(commands, 4)

\* mutant: a parameterless command behind one with parameters is sent at once
ReceiveCommandsEager(word) ==
  LET commands == Packed(word)
      later == SelectSeq(commands, LAMBDA c : ~NeedsNone(c)) IN
  /\ pending = <<>> /\ due = <<>> /\ ~stray
  /\ pending' = [i \in 1 .. Len(later) |-> Item(later[i])]
  /\ Send(SelectSeq(commands, NeedsNone), Expand(commands))
  /\ UNCHANGED <<stray, cut>>

\* GXF_Hardware::receive of a packed word.  After a parameterless command in the last byte
\* the code looks at the byte behind the four.
ReceiveCommands(word) ==
  LET commands == Packed(word)
      free == Free(commands)
      looksBeyond == free = Len(commands) /\ NeedsNone(word[4]) IN
  /\ pending = <<>> /\ due = <<>> /\ ~stray
  /\ \E b \in Beyond :
       LET taken == looksBeyond /\ NeedsNone(b) IN
         /\ pending' = [i \in 1 .. Len(commands) - free |-> Item(commands[free + i])]
         /\ Send(SubSeq(commands, 1, free) \o IF taken THEN <<b>> ELSE <<>>, Expand(commands))
         /\ stray' = taken
  /\ UNCHANGED cut

\* mutant: the commands behind it wait for a word of their own
ReceiveParameterAlone ==
  /\ pending # <<>>
  /\ LET front == Head(pending) IN
     /\ pending' = IF front.countdown > 1 THEN [pending EXCEPT ![1].countdown = @ - 1] ELSE Tail(pending)
     /\ Send(<<front.command>>, due)
  /\ UNCHANGED <<stray, cut>>

\* receive of a parameter of the command in front; parameterless ones behind it follow
ReceiveParameter ==
  /\ pending # <<>>
  /\ LET front == Head(pending)
         rest == Tail(pending)
         names == [i \in 1 .. Len(rest) |-> rest[i].command]
         free == Free(names)
     IN IF front.countdown > 1
        THEN /\ pending' = [pending EXCEPT ![1].countdown = @ - 1]
             /\ Send(<<front.command>>, due)
        ELSE /\ pending' = SubSeq(rest, free + 1, Len(rest))
             /\ Send(<<front.command>> \o SubSeq(names, 1, free), due)
  /\ UNCHANGED <<stray, cut>>

\* gfx3d_sendCommand: the first, or the next, word for the port of a command
SendCommand(c) ==
  /\ pending = <<>> /\ ~stray
  /\ IF due = <<>> THEN TRUE ELSE Head(due) = c
  /\ Send(<<c>>, IF due = <<>> THEN Expand(<<c>>) ELSE due)
  /\ UNCHANGED <<pending, stray, cut>>

\* the answer of a box test whose corners the engine has
BoxTestPasses ==
  /\ ~engine.tb /\ engine.ind["boxtest"] = 0 /\ ~engine.tr
  /\ engine' = [engine EXCEPT !.tr = TRUE]
  /\ UNCHANGED <<pending, due, inOrder, stray, cut>>

\* of all indexes only shininessInd is not reset; gxstat is made anew by MMU_Reset
gfx3d_reset ==
  /\ pending' = <<>> /\ due' = <<>> /\ inOrder' = TRUE /\ stray' = FALSE
  /\ engine' = [engine EXCEPT !.ind = [c \in Collecting |-> IF c = "shininess" THEN @[c] ELSE 0],
                              !.placed = {}, !.whole = TRUE, !.tb = FALSE, !.tr = FALSE]
  /\ cut' = (engine.ind["shininess"] # 0)

GeometryNext ==
  \/ \E word \in Words : ReceiveCommands(word)
  \/ ReceiveParameter
  \/ \E c \in Ports : SendCommand(c)
  \/ BoxTestPasses
  \/ gfx3d_reset

GeometrySpec == GeometryInit /\ [][GeometryNext]_geometryVars

-----------------------------------------------------------------------------
(* Properties *)

\* The engine is called with the commands a game packed, in their order and with all their
\* parameters, whatever undefined codes lie between them; only the byte behind the array may
\* add one.
UnpackedInOrder == ~stray => inOrder

\* No command waits for a word that is not its own: the front one is owed a parameter.
NothingWithheld ==
  ~stray => (pending = <<>>) \/ (due # <<>> /\ Head(due) = pending[1].command /\ ~NeedsNone(Head(due)))

\* Between commands every index is back at its start and no test is busy: the handlers count
\* as gfx3d_commandTypes does, so the next command of a kind starts with its first parameter.
\* The exception is the shininess table after a reset between its parameters.
ParametersMatch ==
  inOrder /\ ~stray /\ due = <<>> =>
    /\ \A c \in Collecting : engine.ind[c] = 0 \/ (c = "shininess" /\ cut)
    /\ ~engine.tb

\* A matrix command gives every element of its matrix, by a parameter or by filling in.
WholeMatrix == engine.whole

\* The engine is called with the packed commands, in their order, with all their parameters
\* and with nothing else, and none waits for a word of another (GXF_Hardware::receive).
CommandsWhole ==
  GeometryTypeOK /\ UnpackedInOrder /\ NothingWithheld /\ ParametersMatch /\ WholeMatrix
=============================================================================
