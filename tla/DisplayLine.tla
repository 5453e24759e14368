------------------------------ MODULE DisplayLine ------------------------------
(***************************************************************************)
(* A line of the 2D engine.  The sprites                                   *)
(* (GPU::_spriteRender): which sprite a column of the line shows, which    *)
(* texel of it, and where in memory the texel is looked for, by the paths  *)
(* of 16 colours, 256 colours, bitmaps and windows, turned and not turned. *)
(* A background: what BGxCNT and DISPCNT make of it (GPU_setBGProp), the   *)
(* walk along the tiles of a text background (renderline_textBG), and the  *)
(* turned backgrounds with their short cut for the straight ones           *)
(* (rot_scale_op).  And the mosaic of both.  A colour is the place it was  *)
(* read from, with the palette it is looked up in.                         *)
(* Then one pixel of the line (GPU_RenderLine_layer): the layers are       *)
(* painted over each other from the lowest priority to the highest, each   *)
(* pixel asks the windows whether it may be drawn and changed, and is      *)
(* mixed with what is below it or faded.  A colour here is a term: who     *)
(* made it of what.                                                        *)
(***************************************************************************)
EXTENDS Integers, Sequences, SequencesExt

CONSTANTS SpriteLines,  \* lines with their sprites, records as below
          Backgrounds,  \* lines of a background, records as below
          Columns,      \* the columns looked at
          Scenes,       \* the layers, windows and BLDCNT of a pixel, records as below
          Solid(_), SolidAt(_),  \* is a texel, a pixel of a background not transparent?
          Entry(_)      \* the map entry at an address: tile, hflip, vflip, palette

\* A line with its sprites: line, sprites (a sequence, in the order of the OAM), matrices (<<dx, dmx, dy,
\* dmy>> by their index), two (2D mapping), block and bmpBlock (sprBoundary, sprBMPBoundary), bmp1D,
\* bmp256 (the mapping of bitmaps), grain (of the mosaic, <<width, height>>), named (what sprNum held
\* before the first line of the cell).
\* A line of a background: mode and num: the mode of the engine and the background; sub: engine B; size,
\* char, screen, many, wrap, mosaic: BGxCNT; charBlock, screenBlock, ext: DISPCNT; mapped: the extended
\* palette is there; line; hofs, vofs; X, Y, PA, PB, PC, PD on the first line of the mosaic cell; grain.
\* The layers of a pixel, on: those that are enabled (LayersEnable); solid: those with a colour here;
\* prio: of each; three: BG0 is the 3D picture, of opacity alpha; type: of the sprite; mode, first,
\* second: BLDCNT; windows: those enabled; inside: those this pixel is in; draws, special: what each region
\* lets through; before: sprWin as the line drawn before left it, of either engine; blend1: likewise.
VARIABLE px

sprSizeTab == <<<<<<8, 8>>, <<16, 8>>, <<8, 16>>, <<8, 8>>>>, <<<<16, 16>>, <<32, 8>>, <<8, 32>>, <<8, 8>>>>,
                <<<<32, 32>>, <<32, 16>>, <<16, 32>>, <<8, 8>>>>, <<<<64, 64>>, <<64, 32>>, <<32, 64>>, <<8, 8>>>>>>
Width(o) == sprSizeTab[o.size + 1][o.shape + 1][1]
Height(o) == sprSizeTab[o.size + 1][o.shape + 1][2]

PageSize == 16384
\* MMU_gpu_map(base) + offset: memory is contiguous within a page only.  A nibble of a byte is a place
\* of its own.
Place(base, offset, nibble) == [page |-> base \div PageSize, byte |-> (base % PageSize) + offset, nibble |-> nibble]

--------------------------------------------------------------------------------
\* Where a texel is looked for: column c, row r of sprite o.
bmp_sprite_address(s, o, r) ==
  IF s.bmp1D THEN o.tile * 2^s.bmpBlock + (r * Width(o) * 2)
  ELSE IF s.bmp256 THEN 2 * ((o.tile - (o.tile % 32)) * 64 + ((o.tile % 32) * 8) + (r * 256))
       ELSE 2 * ((o.tile - (o.tile % 16)) * 64 + ((o.tile % 16) * 8) + (r * 128))

\* The start of a row, as the plain paths have it, and the way along the row.
RowStart(s, o, r, tileBytes) ==
  IF s.two THEN o.tile * 32 + ((r \div 8) * 1024) + ((r % 8) * (tileBytes \div 8))
  ELSE o.tile * 2^s.block + ((r \div 8) * Width(o) * (tileBytes \div 8)) + ((r % 8) * (tileBytes \div 8))
AlongRow(c, tileBytes) == (((c % 8) * tileBytes) \div 64) + ((c \div 8) * tileBytes)
TileBytes(o) == IF o.depth THEN 64 ELSE 32
Nibble(o, c) == IF o.depth \/ o.mode = 3 THEN 0 ELSE c % 2

\* render_sprite_16, render_sprite_256, render_sprite_BMP map every texel, render_sprite_Win its row.
PlainPlace(s, o, c, r) ==
  CASE o.mode = 2 -> Place(RowStart(s, o, r, TileBytes(o)), AlongRow(c, TileBytes(o)), Nibble(o, c))
    [] o.mode = 3 -> Place(bmp_sprite_address(s, o, r) + (2 * c), 0, 0)
    [] OTHER -> Place(RowStart(s, o, r, TileBytes(o)) + AlongRow(c, TileBytes(o)), 0, Nibble(o, c))

\* The turned paths map the sprite's start once, those of bitmaps each texel.
TurnedOffset(s, o, c, r) ==
  AlongRow(c, TileBytes(o)) + ((r % 8) * (TileBytes(o) \div 8))
  + (IF s.two THEN (r \div 8) * 1024 ELSE (r \div 8) * Width(o) * (TileBytes(o) \div 8))
TurnedBitmap(s, o, c, r) ==
  LET start == bmp_sprite_address(s, o, 0)
      offset == IF s.bmp256 THEN (bmp_sprite_address(s, o, r) - start) \div 2 + c ELSE c + (r * Width(o))
  IN Place(start + (offset * 2), 0, 0)
TurnedPlace(s, o, c, r) ==
  IF ~o.depth /\ o.mode = 3 THEN TurnedBitmap(s, o, c, r)
  ELSE Place(IF s.two /\ ~o.depth THEN o.tile * 32 ELSE o.tile * 2^s.block, TurnedOffset(s, o, c, r),
             IF o.depth THEN 0 ELSE c % 2)

--------------------------------------------------------------------------------
\* A texel that a sprite gives to a column, or Nothing.
Nothing == [c |-> -1, r |-> -1]
Texel(c, r) == [c |-> c, r |-> r]

\* compute_sprite_vars: the part of the line the sprite has, and the texels along it.
SpriteVarsLeft(s, o, q) ==
  LET w == Width(o)
      y == (s.line - o.Y) % 256
  IN IF y >= Height(o) \/ o.X + w <= 0 \/ q < o.X \/ q >= o.X + w THEN Nothing
     ELSE Texel(IF o.hflip THEN w - (q - o.X) - 1 ELSE q - (IF o.X < 0 THEN 0 ELSE o.X),
                IF o.vflip THEN Height(o) - y - 1 ELSE y)
compute_sprite_vars(s, o, q) ==
  LET w == Width(o)
      y == (s.line - (IF o.Y >= 192 THEN o.Y - 256 ELSE o.Y)) % 256
      left == IF o.X < 0 THEN 0 ELSE o.X
      lg == IF left + w >= 256 THEN 256 - left ELSE IF o.X < 0 THEN w + o.X ELSE w
      first == IF o.X < 0 THEN -o.X ELSE 0
      x == IF o.hflip THEN w - first - 1 - (q - left) ELSE first + (q - left)
  IN IF y >= Height(o) \/ o.X = 256 \/ o.X + w <= 0 \/ q < left \/ q >= left + lg THEN Nothing
     ELSE Texel(x, IF o.vflip THEN Height(o) - y - 1 ELSE y)

\* The turned sprite: its matrix is applied step by step from the left edge that is on the line.
TurnedTexel(s, o, q) ==
  LET m == s.matrices[o.index + (IF o.hflip THEN 8 ELSE 0) + (IF o.vflip THEN 16 ELSE 0)]
      k == IF o.rotScale = 3 THEN 2 ELSE 1
      fieldX == Width(o) * k
      fieldY == Height(o) * k
      y == (s.line - (IF o.Y >= 192 THEN o.Y - 256 ELSE o.Y)) % 256
      atX == Width(o) * 128 - ((fieldX \div 2) * m[1]) - ((fieldY \div 2) * m[2]) + (y * m[2])
      atY == Height(o) * 128 - ((fieldX \div 2) * m[3]) - ((fieldY \div 2) * m[4]) + (y * m[4])
      left == IF o.X < 0 THEN 0 ELSE o.X
      lg == IF o.X < 0 THEN fieldX + o.X ELSE IF o.X + fieldX > 256 THEN 256 - o.X ELSE fieldX
      realX == atX - (IF o.X < 0 THEN o.X * m[1] ELSE 0) + ((q - left) * m[1])
      realY == atY - (IF o.X < 0 THEN o.X * m[3] ELSE 0) + ((q - left) * m[3])
      c == realX \div 256
      r == realY \div 256
  IN IF y >= fieldY \/ o.X = 256 \/ o.X + fieldX <= 0 \/ q < left \/ q >= left + lg THEN Nothing
     ELSE IF c \in 0 .. Width(o) - 1 /\ r \in 0 .. Height(o) - 1 THEN Texel(c, r) ELSE Nothing

--------------------------------------------------------------------------------
\* A column: the colour, the priority it has (prioTab), its kind (typeTab, dst_alpha), sprNum, sprWin.
Column(s) == [colour |-> "backdrop", prio |-> 255, type |-> 0, alpha |-> 0, num |-> s.named, win |-> FALSE]
Turned(o) == o.rotScale \in {1, 3}
\* Plain sprites of 256 colours and bitmaps note who they are.
Notes(o) == ~Turned(o) /\ (o.mode = 3 \/ o.depth)
\* A turned sprite of 256 colours is drawn whatever its mode; other paths test the mode first.
OpensWindow(o) == o.mode = 2 /\ ~(Turned(o) /\ o.depth)
Direct(o) == o.mode = 3 /\ ~(Turned(o) /\ o.depth)
Paint(s, i, q, column) ==
  LET o == s.sprites[i]
      t == IF Turned(o) THEN TurnedTexel(s, o, q) ELSE compute_sprite_vars(s, o, q)
      place == IF Turned(o) THEN TurnedPlace(s, o, t.c, t.r) ELSE PlainPlace(s, o, t.c, t.r)
  IN IF o.rotScale = 2 \/ t = Nothing \/ (Direct(o) /\ o.palette = 0) THEN column
     ELSE IF ~Solid(place) THEN column
     ELSE IF OpensWindow(o) THEN
            IF Turned(o) /\ o.prio >= column.prio THEN column ELSE [column EXCEPT !.win = TRUE]
     ELSE IF o.prio >= column.prio THEN column
     ELSE [column EXCEPT !.colour = place, !.prio = o.prio, !.type = o.mode,
                         !.alpha = IF Direct(o) THEN o.palette ELSE 16,
                         !.num = IF Notes(o) THEN i ELSE @]

\* spriteRender: the sprites in the order of the OAM.
spriteRender(s, q) == FoldLeft(LAMBDA column, i : Paint(s, i, q, column), Column(s), [i \in 1 .. Len(s.sprites) |-> i])

\* mosaicSpriteLine: sprNum of the column says whether it has a mosaic; a column at the start of a cell
\* keeps its colour for the others, on the first line of the cell only.
HasMosaic(s, column) == s.sprites[column.num].mosaic
CellStart(s) == s.line - (s.line % s.grain[2])
Keep(s, x, old, l) ==
  LET column == spriteRender([s EXCEPT !.line = l, !.named = old.column.num], x)
  IN [column |-> column,
      stored |-> IF HasMosaic(s, column) /\ l = CellStart(s) THEN [colour |-> column.colour, opaque |-> column.prio <= 4]
                 ELSE old.stored]
CellLines(s, x) ==
  FoldLeft(LAMBDA old, l : Keep(s, x, old, l), [column |-> Column(s), stored |-> [colour |-> "stored", opaque |-> TRUE]],
           [k \in 1 .. (s.line - CellStart(s)) + 1 |-> CellStart(s) + k - 1])
Cell(s, q) == q - (q % s.grain[1])
MosaicShifted(s, q) ==
  LET stored == CellLines(s, Cell(s, q)).stored
      column == CellLines(s, q).column
  IN IF HasMosaic(s, column) /\ q % s.grain[1] # 0 THEN [column EXCEPT !.colour = stored.colour] ELSE column
mosaicSpriteLinePixel(s, q) ==
  LET column == CellLines(s, q).column
      stored == CellLines(s, Cell(s, q)).stored
  IN IF s.grain = <<1, 1>> \/ ~HasMosaic(s, column) \/ (q = Cell(s, q) /\ s.line = CellStart(s)) THEN column
     ELSE [column EXCEPT !.colour = stored.colour, !.prio = IF stored.opaque THEN @ ELSE 255]

SpritesInit == px \in SpriteLines

--------------------------------------------------------------------------------
\* The texel of a sprite under a column: the distance from its left and top edge, or, for a turned
\* one, the distance from its centre through the matrix.
TexelUnder(s, o, q) ==
  LET m == s.matrices[o.index + (IF o.hflip THEN 8 ELSE 0) + (IF o.vflip THEN 16 ELSE 0)]
      k == IF o.rotScale = 3 THEN 2 ELSE 1
      dx == q - o.X
      dy == (s.line - o.Y) % 256
      inField == dx \in 0 .. (Width(o) * k) - 1 /\ dy < Height(o) * k
      fromX == dx - ((Width(o) * k) \div 2)
      fromY == dy - ((Height(o) * k) \div 2)
      c == IF Turned(o) THEN (fromX * m[1] + (fromY * m[2])) \div 256 + (Width(o) \div 2)
           ELSE IF o.hflip THEN Width(o) - 1 - dx ELSE dx
      r == IF Turned(o) THEN (fromX * m[3] + (fromY * m[4])) \div 256 + (Height(o) \div 2)
           ELSE IF o.vflip THEN Height(o) - 1 - dy ELSE dy
  IN IF inField /\ c \in 0 .. Width(o) - 1 /\ r \in 0 .. Height(o) - 1 THEN Texel(c, r) ELSE Nothing

\* Where the texel is: tiles of eight by eight, one after the other or in rows of 32 (1D, 2D), bitmaps
\* in rows of their own width, of 128 or of 256.
PlaceOf(s, o, t) ==
  LET tiles == IF s.two THEN (t.r \div 8) * (1024 \div TileBytes(o)) + (t.c \div 8)
               ELSE (t.r \div 8) * (Width(o) \div 8) + (t.c \div 8)
      inTile == ((t.r % 8) * 8) + (t.c % 8)
      pitch == IF s.bmp1D THEN Width(o) ELSE IF s.bmp256 THEN 256 ELSE 128
      at == IF o.mode = 3 THEN bmp_sprite_address(s, o, 0) + (2 * ((t.r * pitch) + t.c))
            ELSE (IF s.two THEN o.tile * 32 ELSE o.tile * 2^s.block) + (tiles * TileBytes(o))
                 + (IF o.depth THEN inTile ELSE inTile \div 2)
  IN Place(at, 0, IF o.depth \/ o.mode = 3 THEN 0 ELSE t.c % 2)

\* The paths that look elsewhere: a turned sprite or a window across the end of a page, a turned bitmap
\* in memory that is 128 wide, and a turned sprite of 256 colours that is a window or a bitmap.
Astray(s, o, t) ==
  \/ (Turned(o) /\ o.mode # 3) /\ PlaceOf(s, o, t).page # Place(IF s.two THEN o.tile * 32 ELSE o.tile * 2^s.block, 0, 0).page
  \/ (~Turned(o) /\ o.mode = 2) /\ PlaceOf(s, o, t).page # Place(RowStart(s, o, t.r, TileBytes(o)), 0, 0).page
  \/ (Turned(o) /\ o.mode = 3) /\ ~s.bmp1D /\ ~s.bmp256
  \/ (Turned(o) /\ o.depth) /\ o.mode \in {2, 3}

\* The sprites that give the column a texel; the one that is seen has the lowest priority number, and
\* among these the lowest number.
Giving(s, q) ==
  {i \in 1 .. Len(s.sprites) :
     LET o == s.sprites[i]
         t == TexelUnder(s, o, q)
     IN o.rotScale # 2 /\ t # Nothing /\ Solid(PlaceOf(s, o, t)) /\ ~(o.mode = 3 /\ o.palette = 0)}
Seen(s, q) == {i \in Giving(s, q) : s.sprites[i].mode # 2}
First(s, S) == CHOOSE i \in S : \A j \in S : s.sprites[i].prio < s.sprites[j].prio \/ (s.sprites[i].prio = s.sprites[j].prio /\ i <= j)
AllAtHome(s, q) == \A i \in 1 .. Len(s.sprites) : LET t == TexelUnder(s, s.sprites[i], q)
                                                  IN t # Nothing => ~Astray(s, s.sprites[i], t)
\* A turned window gives way to a sprite already drawn that is nearer.
Hidden(s, i, q) == Turned(s.sprites[i]) /\ \E j \in Seen(s, q) : j < i /\ s.sprites[j].prio <= s.sprites[i].prio

ColumnTrue(s, q) ==
  LET column == spriteRender(s, q)
      first == First(s, Seen(s, q))
  IN AllAtHome(s, q) =>
       /\ IF Seen(s, q) = {} THEN column.prio = 255 /\ column.colour = "backdrop"
          ELSE /\ column.prio = s.sprites[first].prio
               /\ column.colour = PlaceOf(s, s.sprites[first], TexelUnder(s, s.sprites[first], q))
               /\ column.type = s.sprites[first].mode
       /\ column.win <=> \E i \in Giving(s, q) : s.sprites[i].mode = 2 /\ ~Hidden(s, i, q)

\* With a mosaic, a column whose sprites have it on the first line and column of its cell and here
\* shows the colour of that first one, provided both are drawn by paths that note their sprite.
Noted(s, q) == Seen(s, q) # {} /\ Notes(s.sprites[First(s, Seen(s, q))]) /\ s.sprites[First(s, Seen(s, q))].mosaic
MosaicTrue(s, q) ==
  LET start == [s EXCEPT !.line = CellStart(s)]
  IN (Noted(s, q) /\ Noted(start, Cell(s, q)) /\ AllAtHome(s, q) /\ AllAtHome(start, Cell(s, q))) =>
       mosaicSpriteLinePixel(s, q).colour = spriteRender(start, Cell(s, q)).colour

SpritesTrue == \A q \in Columns : ColumnTrue(px, q) /\ MosaicTrue(px, q)

--------------------------------------------------------------------------------
GPU_mode2type ==
  <<<<"text", "text", "text", "text">>, <<"text", "text", "text", "affine">>, <<"text", "text", "affine", "affine">>,
    <<"text", "text", "text", "ext">>, <<"text", "text", "affine", "ext">>, <<"text", "text", "ext", "ext">>,
    <<"invalid", "invalid", "large", "invalid">>>>
sizeTab ==
  [text |-> <<<<256, 256>>, <<512, 256>>, <<256, 512>>, <<512, 512>>>>,
   affine |-> <<<<128, 128>>, <<256, 256>>, <<512, 512>>, <<1024, 1024>>>>,
   large |-> <<<<512, 1024>>, <<1024, 512>>, <<0, 0>>, <<0, 0>>>>,
   ext256x16 |-> <<<<128, 128>>, <<256, 256>>, <<512, 512>>, <<1024, 1024>>>>,
   ext256x1 |-> <<<<128, 128>>, <<256, 256>>, <<512, 256>>, <<512, 512>>>>,
   direct |-> <<<<128, 128>>, <<256, 256>>, <<512, 256>>, <<512, 512>>>>,
   invalid |-> <<<<0, 0>>, <<0, 0>>, <<0, 0>>, <<0, 0>>>>]

\* GPU_setBGProp: the kind of the background, its memory and the slot of its extended palette.
Kind(s) ==
  LET type == GPU_mode2type[s.mode + 1][s.num + 1]
  IN IF type # "ext" THEN type
     ELSE IF ~s.many THEN "ext256x16" ELSE IF s.char % 2 = 0 THEN "ext256x1" ELSE "direct"
BGSize(s) == sizeTab[Kind(s)][s.size + 1]
BG_tile_ram(s) == (IF s.sub THEN 0 ELSE s.charBlock * 65536) + (s.char * 16384)
BG_map_ram(s) == (IF s.sub THEN 0 ELSE s.screenBlock * 65536) + (s.screen * 2048)
BG_bmp_ram(s) == s.screen * 16384
BGExtPalSlot(s) == IF s.num \in {0, 1} THEN (IF s.wrap THEN 2 ELSE 0) + s.num ELSE s.num

--------------------------------------------------------------------------------
\* A pixel of the background: the place and nibble of its colour and the palette.
NoPixel == [at |-> -1, nibble |-> 0, palette |-> <<"none", 0, 0>>]
Pixel(at, nibble, palette) ==
  LET p == [at |-> at, nibble |-> nibble, palette |-> palette]
  IN IF SolidAt(p) THEN p ELSE NoPixel
Standard(n) == <<"standard", 0, n>>
Extended(s, n) == <<"extended", BGExtPalSlot(s), n>>

\* renderline_textBG: the line is drawn tile by tile; x is pixel `step` of the tile the walk is in, that
\* began at xoff first (in the first tile somewhere inside it).
TileStart(hofs, x) == IF x < 8 - (hofs % 8) THEN hofs ELSE hofs + x - ((hofs + x) % 8)
TextRow(s) == s.line + s.vofs
TextMapStraight(s, xoff) ==
  LET ty == (TextRow(s) % BGSize(s)[2]) \div 8
      tx == (xoff % BGSize(s)[1]) \div 8
  IN BG_map_ram(s) + ((ty % 32) * 64) + (IF ty > 31 THEN 2048 ELSE 0) + ((tx % 32) * 2) + (IF tx > 31 THEN 2048 ELSE 0)
TextMap(s, xoff) ==
  LET ty == (TextRow(s) % BGSize(s)[2]) \div 8
      tx == (xoff % BGSize(s)[1]) \div 8
  IN BG_map_ram(s) + ((ty % 32) * 64) + (IF ty > 31 THEN 512 * 2^s.size ELSE 0) + ((tx % 32) * 2) + (IF tx > 31 THEN 2048 ELSE 0)
\* Of 16 colours: a byte has two pixels, and the walk takes a byte after its second one.
TextPixel16(s, x) ==
  LET xoff == TileStart(s.hofs, x)
      step == s.hofs + x - xoff
      e == Entry(TextMap(s, xoff))
      yoff == (TextRow(s) % 8) * 4
      bytes == ((xoff % 2) + step) \div 2
      line == BG_tile_ram(s) + (e.tile * 32) + (IF e.vflip THEN 28 - yoff ELSE yoff)
      odd == ((xoff % 2) + step) % 2 = 1
  IN IF e.hflip THEN Pixel(line + 3 - ((xoff % 8) \div 2) - bytes, IF odd THEN 0 ELSE 1, Standard(e.palette))
     ELSE Pixel(line + ((xoff % 8) \div 2) + bytes, IF odd THEN 1 ELSE 0, Standard(e.palette))
TextPixel256(s, x) ==
  LET xoff == TileStart(s.hofs, x)
      step == s.hofs + x - xoff
      e == Entry(TextMap(s, xoff))
      yoff == (TextRow(s) % 8) * 8
      line == BG_tile_ram(s) + (e.tile * 64) + (IF e.vflip THEN 56 - yoff ELSE yoff)
  IN Pixel(IF e.hflip THEN line + 7 - (xoff % 8) - step ELSE line + (xoff % 8) + step, 0,
           IF s.ext THEN Extended(s, e.palette) ELSE Standard(0))
renderline_textBG(s, x) ==
  IF ~s.many THEN TextPixel16(s, x) ELSE IF s.ext /\ ~s.mapped THEN NoPixel ELSE TextPixel256(s, x)

--------------------------------------------------------------------------------
\* The entries of the turned backgrounds: a pixel at column c and row r of the picture.
rot_tiled_8bit_entry(s, c, r) ==
  Pixel(BG_tile_ram(s) + (Entry(BG_map_ram(s) + (c \div 8) + ((r \div 8) * (BGSize(s)[1] \div 8))).byte * 64)
        + ((r % 8) * 8) + (c % 8), 0, Standard(0))
rot_tiled_16bit_entry(s, c, r) ==
  LET e == Entry(BG_map_ram(s) + (2 * ((c \div 8) + ((r \div 8) * (BGSize(s)[1] \div 8)))))
      x == (IF e.hflip THEN 7 - c ELSE c) % 8
      y == (IF e.vflip THEN 7 - r ELSE r) % 8
  IN Pixel(BG_tile_ram(s) + (e.tile * 64) + (y * 8) + x, 0, IF s.ext THEN Extended(s, e.palette) ELSE Standard(0))
rot_256_map(s, base, c, r) == Pixel(base + c + (r * BGSize(s)[1]), 0, Standard(0))
rot_BMP_map(s, c, r) == Pixel(BG_bmp_ram(s) + (2 * (c + (r * BGSize(s)[1]))), 0, <<"direct", 0, 0>>)
\* rotBG2, extRotBG2: which one the background has; the large one takes no screen block.
RotEntry(s, c, r) ==
  CASE Kind(s) = "affine" -> rot_tiled_8bit_entry(s, c, r)
    [] Kind(s) = "ext256x16" -> rot_tiled_16bit_entry(s, c, r)
    [] Kind(s) = "ext256x1" -> rot_256_map(s, BG_bmp_ram(s), c, r)
    [] Kind(s) = "direct" -> rot_BMP_map(s, c, r)
    [] Kind(s) = "large" -> rot_256_map(s, 0, c, r)
Blank(s) == Kind(s) = "invalid" \/ (Kind(s) = "ext256x16" /\ s.ext /\ ~s.mapped)

\* The integer part of a coordinate is a signed number of 20 bits (ROTOCOORD).
Integer(v) == LET n == (v \div 256) % 1048576 IN IF n >= 524288 THEN n - 1048576 ELSE n
\* rot_scale_op: no pixel outside the picture (Outside), unless it wraps.
Outside == [at |-> -2, nibble |-> 0, palette |-> <<"none", 0, 0>>]
Inside(s, c, r) == c \in 0 .. BGSize(s)[1] - 1 /\ r \in 0 .. BGSize(s)[2] - 1
LineWidth == 256
ShortCutBlind(s) == s.PA = 256 /\ s.PC = 0
ShortCut(s) ==
  s.PA = 256 /\ s.PC = 0 /\ (s.wrap \/ (Integer(s.X) + LineWidth < BGSize(s)[1] /\ Integer(s.X) >= 0
                                        /\ Integer(s.Y) < BGSize(s)[2] /\ Integer(s.Y) >= 0))
rot_scale_op(s, i) ==
  LET c == IF ShortCut(s) THEN (IF s.wrap THEN Integer(s.X) % BGSize(s)[1] ELSE Integer(s.X)) + i ELSE Integer(s.X + (i * s.PA))
      r == IF ShortCut(s) THEN Integer(s.Y) ELSE Integer(s.Y + (i * s.PC))
  IN IF s.wrap THEN RotEntry(s, c % BGSize(s)[1], r % BGSize(s)[2])
     ELSE IF ShortCut(s) \/ Inside(s, c, r) THEN RotEntry(s, c, r) ELSE Outside

\* lineText, lineRot, lineExtRot: a turned background moves on by PB and PD with every line drawn.
LinePixel(s, x) == IF Blank(s) THEN Outside ELSE IF Kind(s) = "text" THEN renderline_textBG(s, x) ELSE rot_scale_op(s, x)
OnLine(s, l) ==
  LET n == l - (s.line - (s.line % s.grain[2]))
  IN [s EXCEPT !.line = l, !.X = @ + (n * s.PB), !.Y = @ + (n * s.PD)]

\* ___setFinalColorBck: with a mosaic the first pixel of a cell is kept for the others; a pixel outside
\* the picture neither keeps nor takes one.
KeepPixel(s, x, old, l) ==
  LET p == LinePixel(OnLine(s, l), x) IN IF p # Outside /\ l = CellStart(s) THEN p ELSE old
Kept(s, x) ==
  FoldLeft(LAMBDA old, l : KeepPixel(s, x, old, l), [NoPixel EXCEPT !.at = -3],
           [k \in 1 .. (s.line - CellStart(s)) + 1 |-> CellStart(s) + k - 1])
ShownFirst(s, x) == LET p == LinePixel(OnLine(s, s.line), x) IN IF p = Outside THEN p ELSE Kept(s, x)
Shown(s, x) ==
  LET p == LinePixel(OnLine(s, s.line), x) IN IF p = Outside \/ ~s.mosaic THEN p ELSE Kept(s, Cell(s, x))

BackgroundsInit == px \in Backgrounds

--------------------------------------------------------------------------------
\* Where a pixel of the picture is: text has screens of 32 by 32 tiles, one after the other.
TextAt(s, c, r) ==
  LET w == BGSize(s)[1]
      col == c % w
      row == r % BGSize(s)[2]
      screen == ((row \div 256) * (w \div 256)) + (col \div 256)
      e == Entry(BG_map_ram(s) + (screen * 2048) + ((((row % 256) \div 8) * 32 + ((col % 256) \div 8)) * 2))
      x == IF e.hflip THEN 7 - (col % 8) ELSE col % 8
      y == IF e.vflip THEN 7 - (row % 8) ELSE row % 8
      n == (y * 8) + x
  IN IF s.many THEN Pixel(BG_tile_ram(s) + (e.tile * 64) + n, 0, IF s.ext THEN Extended(s, e.palette) ELSE Standard(0))
     ELSE Pixel(BG_tile_ram(s) + (e.tile * 32) + (n \div 2), n % 2, Standard(e.palette))

\* The pixel of the picture under a column of a line: scrolled, or turned about its start.
PictureAt(s, x) ==
  LET c == Integer(s.X + (x * s.PA))
      r == Integer(s.Y + (x * s.PC))
  IN CASE Blank(s) -> Outside
       [] Kind(s) = "text" -> IF s.many /\ s.ext /\ ~s.mapped THEN NoPixel ELSE TextAt(s, s.hofs + x, s.vofs + s.line)
       [] ~s.wrap /\ ~Inside(s, c, r) -> Outside
       [] OTHER -> RotEntry(s, c % BGSize(s)[1], r % BGSize(s)[2])

\* A column shows the picture under it, and with a mosaic the picture under the first pixel of its
\* cell, unless one of the two is outside the picture.
BackgroundTrue(s, x) ==
  LET own == PictureAt(OnLine(s, s.line), x)
      first == PictureAt(OnLine(s, CellStart(s)), Cell(s, x))
  IN IF ~s.mosaic THEN Shown(s, x) = own
     ELSE (own # Outside /\ first # Outside) => Shown(s, x) = first

BackgroundsTrue == \A x \in Columns : BackgroundTrue(px, x)

------------------------------------------------------------------------------
Obj == 4
Backdrop == 5
Above(p, q, s) ==  \* p is painted over q
  \/ q = Backdrop
  \/ p # Backdrop /\ q # Backdrop
     /\ (s.prio[p] < s.prio[q] \/ (s.prio[p] = s.prio[q] /\ (p = Obj \/ (q # Obj /\ p < q))))

--------------------------------------------------------------------------------
\* GPU_resortBGs: the backgrounds of a priority, BG3 first, so that the lower number comes last.
ResortForward(s, p) == SelectSeq(<<0, 1, 2, 3>>, LAMBDA b : b \in s.on /\ s.prio[b] = p)
GPU_resortBGs(s, p) == SelectSeq(<<3, 2, 1, 0>>, LAMBDA b : b \in s.on /\ s.prio[b] = p)

\* renderline_checkWindows: the first region that has the pixel; a window that is off has none
\* (setup_windows), but sprites set sprWin always.
Region(s) ==
  CASE "win0" \in s.windows \cap s.inside -> "win0"
    [] "win1" \in s.windows \cap s.inside -> "win1"
    [] "obj" \in s.windows \cap s.inside -> "obj"
    [] OTHER -> "out"
WindowUsed(s) == s.windows # {}
Draws(s, layer) == WindowUsed(s) => layer \in s.draws[Region(s)]
Affects(s) == WindowUsed(s) => Region(s) \in s.special

--------------------------------------------------------------------------------
\* A pixel of the line: its colour, and bgPixels, the layer that made it.
Dot(colour, under) == [colour |-> colour, under |-> under]
Own(layer) == <<"own", layer>>
Fade(s, colour) == IF s.mode = "increase" THEN <<"up", colour>> ELSE <<"down", colour>>
Fades(s) == s.mode \in {"increase", "decrease"}

\* _master_setFinal3dColor.  With windows, what the window says replaces blend1.
SetFinal3dBlind(s, below) == Dot(IF s.alpha + 1 < 32 THEN <<"alpha", Own(0), below.colour>> ELSE Own(0), 0)
SetFinal3d(s, below) ==
  LET effect == IF WindowUsed(s) THEN Affects(s) ELSE 0 \in s.first
  IN IF ~Draws(s, 0) THEN below
     ELSE IF below.under \in s.second
          THEN Dot(IF s.alpha + 1 < 32 THEN <<"alpha", Own(0), below.colour>> ELSE Own(0), 0)
          ELSE Dot(IF effect /\ Fades(s) THEN Fade(s, Own(0)) ELSE Own(0), 0)

\* _master_setFinalBGColor of a background that is not the backdrop.
SetFinalBGOver(s, layer, below) ==
  IF ~Draws(s, layer) THEN below
  ELSE IF layer \in s.first /\ Affects(s) /\ s.mode = "blend" THEN Dot(<<"mix", Own(layer), below.colour>>, layer)
  ELSE Dot(IF layer \in s.first /\ Affects(s) /\ Fades(s) THEN Fade(s, Own(layer)) ELSE Own(layer), layer)
SetFinalBG(s, layer, below) ==
  LET chosen == layer \in s.first /\ Affects(s)
  IN IF ~Draws(s, layer) THEN below
     ELSE Dot(CASE chosen /\ s.mode = "blend" /\ below.under \in s.second -> <<"mix", Own(layer), below.colour>>
                  [] chosen /\ Fades(s) -> Fade(s, Own(layer))
                  [] OTHER -> Own(layer), layer)

\* _master_setFinalOBJColor: first the fade, then the mixture, by the kind of the sprite.
SetFinalOBJ(s, below) ==
  LET chosen == Obj \in s.first /\ Affects(s)
      colour == IF chosen /\ Fades(s) THEN Fade(s, Own(Obj)) ELSE Own(Obj)
      allowBlend == below.under # Obj /\ below.under \in s.second
  IN IF ~Draws(s, Obj) THEN below
     ELSE Dot(CASE allowBlend /\ s.type = "bitmap" -> <<"ghost", colour, below.colour>>
                  [] allowBlend /\ s.type # "bitmap" /\ (s.type = "transparent" \/ (chosen /\ s.mode = "blend"))
                     -> <<"mix", colour, below.colour>>
                  [] OTHER -> colour, Obj)

\* The backdrop.  Without windows a fade of a backdrop that is not selected leaves the line as it was;
\* with windows blend1 is the one of the layer painted last, and the windows are asked before sprWin is
\* cleared, so the sprite window is that of the line drawn before.
WindowsBefore(s) == [s EXCEPT !.inside = IF s.before THEN @ \cup {"obj"} ELSE @ \ {"obj"}]
SetBackdrop(s) ==
  Dot(CASE ~Fades(s) -> Own(Backdrop)
          [] Fades(s) /\ ~WindowUsed(s) -> IF Backdrop \in s.first THEN Fade(s, Own(Backdrop)) ELSE <<"old", 0>>
          [] OTHER -> IF s.blend1 /\ Affects(WindowsBefore(s)) THEN Fade(s, Own(Backdrop)) ELSE Own(Backdrop), Backdrop)

\* GPU_RenderLine_layer: priorities 3 to 0, in each the backgrounds and then the sprite's pixel.
PaintBG(s, below, layer) ==
  IF layer \notin s.solid THEN below
  ELSE IF layer = 0 /\ s.three THEN SetFinal3d(s, below) ELSE SetFinalBG(s, layer, below)
PaintPriority(s, below, p) ==
  LET backs == FoldLeft(LAMBDA b, layer : PaintBG(s, b, layer), below, GPU_resortBGs(s, p))
  IN IF Obj \in s.on \cap s.solid /\ s.prio[Obj] = p THEN SetFinalOBJ(s, backs) ELSE backs
RenderLine(s) == FoldLeft(LAMBDA b, p : PaintPriority(s, b, p), SetBackdrop(s), <<3, 2, 1, 0>>)

LayersInit == px \in Scenes

--------------------------------------------------------------------------------
\* The layers a viewer may see here, and the one on top of some of them.
Visible(s) == {layer \in s.on \cap s.solid : Draws(s, layer)}
Topmost(s, layers) == IF layers = {} THEN Backdrop ELSE CHOOSE t \in layers : \A o \in layers \ {t} : Above(t, o, s)

\* The pixel belongs to the topmost visible layer.
TopShows(s) == RenderLine(s).under = Topmost(s, Visible(s))

\* What the topmost layer shows, if u is the layer directly below it and c what that one shows: two
\* layers mix if BLDCNT names them as first and second target, and 3D, transparent sprites and
\* bitmaps on any second target; otherwise a first target fades.
Expected(s, t, u, c) ==
  LET chosen == t \in s.first /\ Affects(s)
      three == t = 0 /\ s.three
      faded == IF Fades(s) /\ IF three THEN u \notin s.second /\ IF WindowUsed(s) THEN Affects(s) ELSE chosen ELSE chosen
               THEN Fade(s, Own(t)) ELSE Own(t)
  IN CASE u \notin s.second -> faded
       [] three -> IF s.alpha = 31 THEN Own(t) ELSE <<"alpha", Own(t), c>>
       [] t = Obj /\ s.type = "bitmap" -> <<"ghost", faded, c>>
       [] (t = Obj /\ s.type = "transparent") \/ (chosen /\ s.mode = "blend") -> <<"mix", faded, c>>
       [] OTHER -> faded
\* So the topmost layer, taken off, leaves what it was painted on.
TopMixes(s) ==
  LET t == Topmost(s, Visible(s))
      rest == RenderLine([s EXCEPT !.solid = @ \ {t}])
  IN IF t # Backdrop THEN RenderLine(s).colour = Expected(s, t, rest.under, rest.colour)
     ELSE RenderLine(s).colour =
            IF Fades(s) /\ Affects(s) /\ Backdrop \in s.first THEN Fade(s, Own(Backdrop)) ELSE Own(Backdrop)
\* The two exceptions, both of a backdrop under a fade: the old line shows, or what the last one left.
LineKept(s) == Fades(s) /\ ~WindowUsed(s) /\ Backdrop \notin s.first
LeftOver(s) == Fades(s) /\ WindowUsed(s) /\ (s.blend1 # (Backdrop \in s.first) \/ s.before # ("obj" \in s.inside))

LayersTrue == TopShows(px) /\ (LineKept(px) \/ LeftOver(px) \/ TopMixes(px))
==============================================================================
