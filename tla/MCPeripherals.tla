----------------------------- MODULE MCPeripherals -----------------------------
(***************************************************************************)
(* What hangs on the buses of the processors, each part explored on its own  *)
(* in one run: the backup memory, the game card, the clock, the serial bus   *)
(* of ARM7, the registers themselves, the calls of the emulated BIOS and the *)
(* 2D engines.  A behaviour chooses its part at the start, and the others    *)
(* stay as they are.                                                         *)
(***************************************************************************)
EXTENDS BackupDevice, GameCard, SerialBus

VARIABLE unit  \* the part this behaviour explores
backupUnit == vars

VARIABLES rtc, game
clockUnit == <<rtc, game>>
clockIdle == rtc = 0 /\ game = 0

VARIABLES ram, io, R, call
biosUnit == <<ram, io, R, call>>
biosIdle == ram = 0 /\ io = 0 /\ R = 0 /\ call = 0

VARIABLE registers
registersIdle == registers = 0

VARIABLES px, film, screen
displayUnit == <<px, film, screen>>
displayIdle == px = 0 /\ film = 0 /\ screen = 0

--------------------------------------------------------------------------------
\* Backup: four bytes of memory, one savestate with its first byte written.
MCImages == {[a \in 0 .. 3 |-> IF a = 0 THEN 0 ELSE 1]}

\* Card: reads below, across and beyond the readable part, commands with a length of their own,
\* and one the card does not know.
CardCommands ==
  {[op |-> c[1], adr |-> c[2]] : c \in {<<"read0", 0>>, <<"read", 1>>, <<"read", 8>>, <<"chipId", 0>>,
                                        <<"dummy", 0>>, <<"key1", 0>>, <<"other", 3>>}}
BlockSizes == [s \in {0, 1} |-> s * 2]

\* Clock: the two status registers, time and date read and written, in both orders of their bits.
ClockCommands ==
  {[number |-> c[1], read |-> c[2], lowFirst |-> c[3]] :
     c \in {<<0, TRUE, FALSE>>, <<0, FALSE, FALSE>>, <<1, FALSE, TRUE>>, <<1, TRUE, FALSE>>, <<2, TRUE, TRUE>>,
            <<3, TRUE, FALSE>>, <<3, FALSE, TRUE>>, <<4, FALSE, TRUE>>, <<6, FALSE, FALSE>>}}
Clock == INSTANCE RealTimeClock WITH Commands <- ClockCommands, Values <- {{}, {1, 6}, {2}}, Hours <- {9, 22},
                                     MaxCalls <- 2

\* Serial bus: each command of the firmware, of three bytes, also beyond its end; the registers of
\* the power management and their mirror; each channel of the converter.
SerialScripts ==
  {[dev |-> s[1], bytes |-> s[2]] :
     s \in {<<1, <<3, 0, 0, 1, 0, 0>>>>, <<1, <<6>>>>, <<1, <<4>>>>, <<1, <<5, 0>>>>, <<1, <<10, 0, 0, 0, 6, 3>>>>,
            <<1, <<159, 0, 0, 0, 0>>>>, <<1, <<3, 0, 1, 0, 5>>>>, <<0, <<0, 64>>>>, <<0, <<131, 0>>>>,
            <<0, <<3, 9>>>>, <<0, <<5, 7>>>>, <<2, <<208, 0, 0>>>>, <<2, <<144, 0, 0>>>>, <<2, <<176, 0, 0>>>>,
            <<2, <<224, 0>>>>, <<2, <<160, 0>>>>, <<2, <<128, 0, 0>>>>, <<2, <<240, 0, 0>>>>}}
TouchPressure == [c \in {3, 4} |-> 700 + (100 * c)]

\* BIOS calls: streams whose references reach behind, into and beyond what is there; runs; texts of
\* up to three halfwords; lengths that end inside a unit.
Unit(k, n, v) == [kind |-> k, n |-> n, v |-> v]
Lit(v) == Unit("literal", 0, v)
Ref(n, o) == Unit("reference", n, o)
BiosStreams == {<<Lit(1), Lit(2), Ref(0, 1), Lit(3)>>, <<Ref(1, 2), Lit(1), Ref(0, 3)>>,
                <<Lit(1), Ref(1, 0), Ref(0, 4)>>, <<Lit(1), Lit(2), Lit(3), Ref(2, 2), Ref(0, 0)>>}
BiosRuns == {<<Unit("run", 0, 1), Unit("plain", 2, 4)>>, <<Unit("plain", 0, 1), Unit("run", 2, 5), Unit("run", 0, 7)>>}
Bios == INSTANCE BiosCalls WITH Room <- 40, Targets <- {6, 8, 11}, Streams <- BiosStreams, Runs <- BiosRuns,
                                Lengths <- {0, 1, 5, 6, 8}, Operands <- {-128, -127, -7, -3, -1, 0, 1, 2, 3, 7, 127},
                                Texts <- {<<>>, <<1>>, <<4660>>, <<4660, 43981>>, <<65535, 128, 32769>>}

\* Registers: each on its own, and those whose handlers touch each other's.
RegisterWords == <<<<133, 99, 159, 33>>, <<26, 144, 77, 254>>, <<200, 5, 70, 187>>>>
RegisterGroups ==
  {{"DISPCNT", "BG0CNT"}, {"POWCNT1", "BG2X"}, {"POWCNT1", "CLEAR_COLOR"}, {"EXMEMCNT", "EXMEMCNT7"},
   {"DIVCNT", "DIVNUMER"}}
Ports == INSTANCE IoRegisters WITH Groups <- RegisterGroups, Values <- RegisterWords, MaxWrites <- 3, io <- registers

\* Sprites: each path across the borders of the line, of its memory and of a page; turned by matrices that
\* mirror, turn and stretch; two and three over each other; and the mosaic.
Matrices == [i \in {0, 1, 2, 8} |-> CASE i = 0 -> <<256, 0, 0, 256>> [] i = 1 -> <<-256, 0, 0, 256>>
                                     [] i = 2 -> <<181, -181, 181, 181>> [] i = 8 -> <<128, 0, 0, 512>>]
Sprite(kind, X, Y, size, shape, rot, index, tile, prio) ==
  [mode |-> kind[1], depth |-> kind[2], X |-> X, Y |-> Y, size |-> size, shape |-> shape, rotScale |-> rot, index |-> index,
   tile |-> tile, prio |-> prio, hflip |-> FALSE, vflip |-> FALSE, palette |-> 3, mosaic |-> FALSE]
SpriteLine(sprites, two, boundary, wide) ==
  [line |-> 5, sprites |-> sprites, matrices |-> Matrices, two |-> two, block |-> boundary, bmpBlock |-> 7,
   bmp1D |-> ~two, bmp256 |-> wide, grain |-> <<1, 1>>, named |-> 1]
SpriteKinds == {<<3, TRUE>>, <<0, FALSE>>, <<1, TRUE>>, <<2, FALSE>>, <<2, TRUE>>, <<3, FALSE>>}
PlainSprites ==
  {SpriteLine(<<[Sprite(k, at[1], at[2], z[1], z[2], 0, 0, tile, 1) EXCEPT !.hflip = h, !.vflip = ~h]>>, two, 6, two) :
     k \in SpriteKinds, at \in {<<-5, 0>>, <<0, 255>>, <<100, 0>>, <<250, 255>>}, z \in {<<0, 0>>, <<2, 1>>, <<0, 2>>},
     tile \in {3, 255}, two \in BOOLEAN, h \in BOOLEAN}
TurnedSprites ==
  {SpriteLine(<<[Sprite(k, at[1], at[2], 1, shape, rot, i, tile, 1) EXCEPT !.hflip = i = 0 /\ at[1] = 100]>>, d[1], 5, d[2]) :
     k \in SpriteKinds, at \in {<<-5, 250>>, <<100, 1>>, <<250, 250>>}, shape \in {0, 1}, rot \in {1, 3}, i \in {0, 1, 2},
     tile \in {3, 511}, d \in {<<TRUE, FALSE>>, <<TRUE, TRUE>>, <<FALSE, FALSE>>}}
SpritesTogether ==
  {SpriteLine(<<Sprite(k1, 98, 2, 0, 0, rot, 0, 3, p[1]), Sprite(k2, 95, 0, 1, 0, rot, 1, 9, p[2]),
                Sprite(<<0, FALSE>>, 97, 4, 0, 1, 0, 0, 5, 1)>>, FALSE, 5, FALSE) :
     k1 \in SpriteKinds, k2 \in SpriteKinds, p \in {<<0, 1>>, <<1, 1>>, <<2, 1>>, <<2, 0>>}, rot \in {0, 1}}
SpriteMosaics ==
  {[SpriteLine(<<[Sprite(k, 96, 2, 1, 0, rot, 0, 3, 1) EXCEPT !.mosaic = m], [Sprite(<<1, TRUE>>, 100, 3, 0, 0, 0, 0, 9, 1) EXCEPT !.mosaic = TRUE]>>,
               FALSE, 5, FALSE) EXCEPT !.grain = g, !.line = l] :
     k \in SpriteKinds, rot \in {0, 1}, m \in BOOLEAN, g \in {<<4, 2>>, <<3, 1>>}, l \in {4, 5}}

\* Backgrounds: text scrolled into each of its screens; turned ones of every kind and size, straight and
\* not, that end inside the line, before it and beyond the range of coordinates; and the mosaic.
Bg == [mode |-> 0, num |-> 0, sub |-> FALSE, size |-> 0, char |-> 1, screen |-> 2, many |-> FALSE, wrap |-> FALSE, mosaic |-> FALSE,
       charBlock |-> 1, screenBlock |-> 2, ext |-> FALSE, mapped |-> TRUE, line |-> 5, hofs |-> 0, vofs |-> 0,
       X |-> 0, Y |-> 0, PA |-> 256, PB |-> 0, PC |-> 0, PD |-> 256, grain |-> <<1, 1>>]
Texts ==
  {[Bg EXCEPT !.num = n, !.sub = n = 1, !.size = z, !.many = e[1], !.ext = e[2], !.mapped = e[3], !.wrap = v = 258, !.hofs = h, !.vofs = v] :
     n \in {0, 1}, z \in 0 .. 3, e \in {<<FALSE, FALSE, FALSE>>, <<TRUE, FALSE, FALSE>>, <<TRUE, TRUE, TRUE>>, <<TRUE, TRUE, FALSE>>},
     h \in {0, 253, 511}, v \in {0, 258, 505}}
TurnedBackgrounds ==
  {[Bg EXCEPT !.mode = m[1], !.num = m[2], !.size = z, !.many = c[1], !.char = c[2], !.ext = c[2] = 0, !.mapped = z # 3, !.wrap = w,
              !.X = at[1], !.Y = at[2], !.PA = turn[1], !.PC = turn[2]] :
     m \in {<<1, 3>>, <<5, 2>>, <<6, 2>>}, z \in {0, 1, 2, 3}, c \in {<<FALSE, 0>>, <<TRUE, 0>>, <<TRUE, 1>>, <<FALSE, 3>>},
     w \in BOOLEAN, at \in {<<0, 0>>, <<-700, 2000>>, <<65536, 30000>>, <<134217000, 512>>},
     turn \in {<<256, 0>>, <<256, 20>>, <<181, -181>>, <<-256, 0>>}}
BackgroundMosaics ==
  {[Bg EXCEPT !.mode = m[1], !.num = m[2], !.many = e, !.char = 0, !.mosaic = TRUE, !.grain = g, !.line = l, !.hofs = h,
              !.X = h * 256, !.Y = Y, !.PB = 40, !.wrap = e] :
     m \in {<<0, 1>>, <<2, 2>>, <<5, 2>>}, e \in BOOLEAN, g \in {<<4, 3>>, <<1, 16>>}, l \in {4, 5, 191}, h \in {0, 5, 509}, Y \in {3000, 32700}}
\* What memory holds is told from the address, so that neighbours differ.
SomeSolid(p) == ((p.page * 5) + p.byte + (p.byte \div 64) + p.nibble) % 4 # 0
SomeSolidAt(p) == (p.at + (p.at \div 8) + p.nibble) % 5 # 0
SomeEntry(a) ==
  LET n == (a \div 2) * 5 + (a % 2)
  IN [tile |-> n % 37, hflip |-> (n \div 3) % 2 = 1, vflip |-> (n \div 7) % 2 = 1, palette |-> n % 16, byte |-> n % 41]

\* Layers: which of three have a pixel here, in what order, as which targets of BLDCNT, and in which
\* windows; and all five in four orders of priority.
AllLayers == 0 .. 5
Dot == [on |-> AllLayers, solid |-> {0, 1, 4}, prio |-> [l \in 0 .. 4 |-> 1], three |-> FALSE, alpha |-> 31, type |-> "normal",
        mode |-> "none", first |-> {}, second |-> {}, windows |-> {}, inside |-> {},
        draws |-> [r \in {"win0", "win1", "obj", "out"} |-> AllLayers], special |-> {}, before |-> FALSE, blend1 |-> FALSE]
Targets == {<<{4}, {0, 1}>>, <<{0, 1}, {5}>>, <<{0}, {1, 4}>>, <<AllLayers, AllLayers>>, <<{1, 5}, {0, 4, 5}>>}
MixedDots ==
  {[Dot EXCEPT !.solid = v, !.prio = [l \in 0 .. 4 |-> IF l \in front THEN 0 ELSE 1], !.three = t[1], !.alpha = t[2], !.type = y,
               !.mode = m, !.first = g[1], !.second = g[2]] :
     v \in SUBSET {0, 1, 4}, front \in SUBSET {0, 1, 4}, t \in {<<FALSE, 31>>, <<TRUE, 31>>, <<TRUE, 9>>},
     y \in {"normal", "transparent", "bitmap"}, m \in {"none", "blend", "increase"}, g \in Targets}
WindowedDots ==
  {[Dot EXCEPT !.solid = v, !.mode = m, !.first = {1, 4, 5}, !.second = {0, 1, 5}, !.windows = w, !.inside = i, !.special = e,
               !.draws = [win0 |-> {0, 4, 5}, win1 |-> {1, 4}, obj |-> {1, 5}, out |-> {0, 1}],
               !.blend1 = b, !.before = f, !.three = b] :
     v \in SUBSET {0, 1, 4}, m \in {"blend", "decrease"}, w \in SUBSET {"win0", "win1", "obj"}, i \in SUBSET {"win0", "win1", "obj"},
     e \in {{"win0", "out"}, {"win1", "obj"}}, b \in BOOLEAN, f \in BOOLEAN}
OrderedDots ==
  {[Dot EXCEPT !.solid = v, !.on = AllLayers \ {o}, !.prio = [l \in 0 .. 4 |-> p[l + 1]]] :
     v \in SUBSET (0 .. 4), o \in 0 .. 4, p \in {<<3, 2, 1, 0, 1>>, <<0, 0, 1, 1, 0>>, <<2, 3, 2, 3, 3>>, <<1, 1, 1, 1, 2>>}}
Lined == INSTANCE DisplayLine WITH
  SpriteLines <- PlainSprites \cup TurnedSprites \cup SpritesTogether \cup SpriteMosaics,
  Backgrounds <- {s \in Texts \cup TurnedBackgrounds \cup BackgroundMosaics : ~(s.mode = 6 /\ s.size > 1)},
  Columns <- {0, 1, 4, 7, 8, 97, 100, 103, 106, 127, 128, 254, 255},
  Solid <- SomeSolid, SolidAt <- SomeSolidAt, Entry <- SomeEntry,
  Scenes <- MixedDots \cup WindowedDots \cup OrderedDots

\* Frames: three of four frames skipped, as the application asks for four of five; two frames of three
\* lines with two writes of the game.
Frames == INSTANCE DisplayFrames WITH Skips <- {3}, Grace <- 1, Patience <- 9, Last <- 2, MaxWrites <- 2, MaxFrames <- 1

--------------------------------------------------------------------------------
UnitsInit ==
  /\ Init /\ CardInit /\ SerialInit
  /\ \/ unit = "backup" /\ clockIdle /\ biosIdle /\ registersIdle /\ displayIdle
     \/ unit = "card" /\ clockIdle /\ biosIdle /\ registersIdle /\ displayIdle
     \/ unit = "clock" /\ Clock!RtcInit /\ biosIdle /\ registersIdle /\ displayIdle
     \/ unit = "serial" /\ clockIdle /\ biosIdle /\ registersIdle /\ displayIdle
     \/ unit = "bios" /\ clockIdle /\ Bios!BiosInit /\ registersIdle /\ displayIdle
     \/ unit = "registers" /\ clockIdle /\ biosIdle /\ Ports!IoInit /\ displayIdle
     \/ /\ clockIdle /\ biosIdle /\ registersIdle
        /\ \/ unit = "sprites" /\ Lined!SpritesInit /\ film = 0 /\ screen = 0
           \/ unit = "background" /\ Lined!BackgroundsInit /\ film = 0 /\ screen = 0
           \/ unit = "layers" /\ Lined!LayersInit /\ film = 0 /\ screen = 0
           \/ unit = "film" /\ px = 0 /\ Frames!FilmInit /\ screen = 0
           \/ unit = "screen" /\ px = 0 /\ film = 0 /\ Frames!ScreenInit

UnitsNext ==
  /\ UNCHANGED unit
  /\ \/ unit = "backup" /\ Next /\ UNCHANGED <<cardVars, clockUnit, serialVars, biosUnit, registers, displayUnit>>
     \/ unit = "card" /\ CardNext /\ UNCHANGED <<backupUnit, clockUnit, serialVars, biosUnit, registers, displayUnit>>
     \/ unit = "clock" /\ Clock!RtcNext /\ UNCHANGED <<backupUnit, cardVars, serialVars, biosUnit, registers, displayUnit>>
     \/ unit = "serial" /\ SerialNext /\ UNCHANGED <<backupUnit, cardVars, clockUnit, biosUnit, registers, displayUnit>>
     \/ unit = "bios" /\ Bios!BiosNext /\ UNCHANGED <<backupUnit, cardVars, clockUnit, serialVars, registers, displayUnit>>
     \/ unit = "registers" /\ Ports!IoNext /\ UNCHANGED <<backupUnit, cardVars, clockUnit, serialVars, biosUnit, displayUnit>>
     \/ unit = "film" /\ Frames!FilmNext /\ UNCHANGED <<backupUnit, cardVars, clockUnit, serialVars, biosUnit, registers, px, screen>>
     \/ unit = "screen" /\ Frames!ScreenNext /\ UNCHANGED <<backupUnit, cardVars, clockUnit, serialVars, biosUnit, registers, px, film>>

unitsVars == <<unit, backupUnit, cardVars, clockUnit, serialVars, biosUnit, registers, displayUnit>>
\* NDS_exec calls lazy_flush again and again, as in BackupDevice!FairSpec.
Flushes == unit = "backup" /\ LazyFlush /\ UNCHANGED <<unit, cardVars, clockUnit, serialVars, biosUnit, registers, displayUnit>>
UnitsSpec == UnitsInit /\ [][UnitsNext]_unitsVars /\ WF_unitsVars(Flushes)

--------------------------------------------------------------------------------
\* What a game asks for through ports and calls is what it gets: the clock takes and gives what is clocked
\* through its pins, as long as transfers are whole (rtcRecv, rtcSend); a register of a processor is one
\* register, in whatever widths the game writes and reads it: its device, its page and the other
\* processor's copy agree, but where the handlers of a width are named to differ (_MMU_ARM9_write08/16/32,
\* _MMU_ARM7_write08/16/32, and the reads); and the calls of the emulated BIOS leave what the words
\* of their headers mean (bios.cpp).
PortsRight ==
  /\ unit = "clock" => Clock!ClockTrue
  /\ unit = "registers" => Ports!IoTrue
  /\ unit = "bios" => Bios!BiosRight

\* What the 2D engines show: a column of a line the texel of the foremost sprite and of the picture of a
\* background under it, although every kind has a path of its own; a pixel the topmost layer that the
\* windows let through, mixed as BLDCNT says; a frame the registers of each of its lines, through
\* frames that are skipped or dark; and skipping frames loses neither a screen nor the first frame
\* of a capture (_spriteRender, renderline_textBG, rot_scale_op, GPU_RenderLine, FrameSkipper).
DisplayRight ==
  /\ unit = "sprites" => Lined!SpritesTrue
  /\ unit = "background" => Lined!BackgroundsTrue
  /\ unit = "layers" => Lined!LayersTrue
  /\ unit = "film" => Frames!FilmTrue
  /\ unit = "screen" => Frames!ScreenTrue
================================================================================
