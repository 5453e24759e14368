----------------------------- MODULE VideoMemory -----------------------------
(***************************************************************************)
(* The nine banks of video memory, where the control registers map them,   *)
(* and the cache of decoded textures that is built from what is mapped     *)
(* (MMU.cpp, GPU.cpp, texcache.cpp).                                       *)
(*                                                                         *)
(* Memory is counted in pages of 16KB of the LCDC buffer; what a page      *)
(* holds is a version.  The area of the ARM9 is four areas of pages, and   *)
(* each repeats its mappable part.                                         *)
(***************************************************************************)
EXTENDS Integers, FiniteSets, Sequences

CONSTANTS Settings,    \* the mst and ofs a game writes to each bank
          MaxEnabled,  \* bound: how many banks are enabled at a time
          Versions,    \* what a page may hold; 0 is what blank memory holds
          DataPages,   \* the pages of which it is remembered
          Textures     \* format and texpal of a texture: its slots, its palette's slots,
                       \* and whether it is a 4x4 texture

Banks == {"A", "B", "C", "D", "E", "F", "G", "H", "I"}
UNMAPPED == 41
Off == [mst |-> -1, ofs |-> 0]

\* a bank has no more than 3 bits of mst and 2 of ofs
ASSUME VideoAssumption ==
  /\ Settings \in [Banks -> SUBSET [mst : 0 .. 7, ofs : 0 .. 3]]
  /\ Textures \subseteq [slots : Seq(Nat), pals : Seq(Nat), fourByFour : BOOLEAN]

VARIABLES
  bankCnt,                          \* VRAMCNT_A .. VRAMCNT_I
  vram_lcdc_map, vram_arm9_map, vram_arm7_map,
  textureSlotAddr, texPalSlot,      \* the page each is mapped to
  ExtPal,                           \* engine and slot, in halves of a page
  purpose, vramstat,                \* vramConfiguration, VRAMSTAT of the ARM7
  video,                            \* ARM9_LCD
  cache                             \* texCache: dump and suspectedInvalid by texture

mapVars == <<vram_lcdc_map, vram_arm9_map, vram_arm7_map, textureSlotAddr, texPalSlot,
             ExtPal, purpose, vramstat>>
videoVars == <<bankCnt, mapVars, video, cache>>

\* vram_bank_info
FirstPage == [b \in Banks |->
  CASE b = "A" -> 0 [] b = "B" -> 8 [] b = "C" -> 16 [] b = "D" -> 24 [] b = "E" -> 32
    [] b = "F" -> 36 [] b = "G" -> 37 [] b = "H" -> 38 [] b = "I" -> 40]
NumPages == [b \in Banks |->
  IF b \in {"A", "B", "C", "D"} THEN 8 ELSE IF b = "E" THEN 4 ELSE IF b = "H" THEN 2 ELSE 1]

\* the mappable part of each area of the ARM9
AreaSize == [ABG |-> 32, BBG |-> 8, AOBJ |-> 16, BOBJ |-> 8]
Areas == DOMAIN AreaSize
AreaPlaces == UNION {{<<a, i>> : i \in 0 .. AreaSize[a] - 1} : a \in Areas}

-----------------------------------------------------------------------------
(* MMU_VRAMmapRefreshBank: what a bank claims with a setting *)

Nothing == [x \in {} |-> 0]
PagesOf(b) == FirstPage[b] .. FirstPage[b] + NumPages[b] - 1

\* MMU_vram_arm9
Pages(b, offset) == offset .. offset + NumPages[b] - 1
Spread(b, area, offsets) ==
  [place \in {area} \X UNION {Pages(b, offset) : offset \in offsets} |->
     FirstPage[b] + place[2] - CHOOSE offset \in offsets : place[2] \in Pages(b, offset)]

Small == {"F", "G"}
Big == {"A", "B", "C", "D"}
pageofs(s) == <<0, 1, 4, 5>>[s.ofs + 1]

Lcdc(b, s) == IF s.mst = 0 THEN [p \in PagesOf(b) |-> p] ELSE Nothing

\* mutant: all four alike
NineBigAlike(b, s) ==
  CASE s.mst = 1 -> Spread(b, "ABG", {s.ofs * 8})
    [] s.mst = 2 /\ s.ofs < 2 -> Spread(b, "AOBJ", {s.ofs * 8})
    [] b = "C" /\ s.mst = 4 -> Spread(b, "BBG", {0})
    [] b = "D" /\ s.mst = 4 -> Spread(b, "BOBJ", {0})
    [] OTHER -> Nothing

NineBig(b, s) ==
  CASE s.mst = 1 -> Spread(b, "ABG", {s.ofs * 8})
    [] b \in {"A", "B"} /\ s.mst = 2 /\ s.ofs < 2 -> Spread(b, "AOBJ", {s.ofs * 8})
    [] b = "C" /\ s.mst = 4 -> Spread(b, "BBG", {0})
    [] b = "D" /\ s.mst = 4 -> Spread(b, "BOBJ", {0})
    [] OTHER -> Nothing

\* with the mirrors games rely on
NineSmall(b, s) ==
  CASE b = "E" /\ s.mst = 1 -> Spread(b, "ABG", {0})
    [] b = "E" /\ s.mst = 2 -> Spread(b, "AOBJ", {0})
    [] b \in Small /\ s.mst = 1 -> Spread(b, "ABG", {pageofs(s), pageofs(s) + 2})
    [] b \in Small /\ s.mst = 2 -> Spread(b, "AOBJ", {pageofs(s), pageofs(s) + 2})
    [] b = "H" /\ s.mst = 1 -> Spread(b, "BBG", {0, 4})
    [] b = "I" /\ s.mst = 1 -> Spread(b, "BBG", {2, 3})
    [] b = "I" /\ s.mst = 2 -> Spread(b, "BOBJ", {0, 1})
    [] OTHER -> Nothing

Nine(b, s) == IF b \in Big THEN NineBig(b, s) ELSE NineSmall(b, s)

OnSeven(b, s) == b \in {"C", "D"} /\ s.mst = 2
Seven(b, s) == IF OnSeven(b, s) /\ s.ofs < 2 THEN [i \in {s.ofs} |-> FirstPage[b]] ELSE Nothing

Tex(b, s) == IF b \in Big /\ s.mst = 3 THEN [slot \in {s.ofs} |-> FirstPage[b]] ELSE Nothing

Pal(b, s) ==
  CASE b = "E" /\ s.mst = 3 -> [slot \in 0 .. 3 |-> FirstPage[b] + slot]
    [] b \in Small /\ s.mst = 3 -> [slot \in {pageofs(s)} |-> FirstPage[b]]
    [] OTHER -> Nothing

PaletteHalves(engine, slots, page) ==
  [e \in {<<engine, i>> : i \in slots} |->
     2 * page + e[2] - CHOOSE i \in slots : \A j \in slots : i <= j]

\* the second half of an extended palette for sprites, which nothing reads, is computed
\* from itself and is left out
Ext(b, s) ==
  CASE b = "E" /\ s.mst = 4 -> PaletteHalves("BG A", 0 .. 3, FirstPage[b])
    [] b \in Small /\ s.mst = 4 /\ s.ofs < 2 ->
         PaletteHalves("BG A", 2 * s.ofs .. 2 * s.ofs + 1, FirstPage[b])
    [] b \in Small /\ s.mst = 5 -> PaletteHalves("OBJ A", {0}, FirstPage[b])
    [] b = "H" /\ s.mst = 2 -> PaletteHalves("BG B", 0 .. 3, FirstPage[b])
    [] b = "I" /\ s.mst = 3 -> PaletteHalves("OBJ B", {0}, FirstPage[b])
    [] OTHER -> Nothing

Purpose(b, s) ==
  CASE s.mst = -1 -> "OFF"
    [] s.mst = 0 -> "LCDC"
    [] b \in {"A", "B", "C", "D", "E", "F", "G"} /\ s.mst = 1 -> "ABG"
    [] b \in {"H", "I"} /\ s.mst = 1 -> "BBG"
    [] b \in {"A", "B", "E", "F", "G"} /\ s.mst = 2 -> "AOBJ"
    [] b \in {"C", "D"} /\ s.mst = 2 -> "ARM7"
    [] b = "H" /\ s.mst = 2 -> "BBGEXTPAL"
    [] b = "I" /\ s.mst = 2 -> "BOBJ"
    [] b \in Big /\ s.mst = 3 -> "TEX"
    [] b \in {"E", "F", "G"} /\ s.mst = 3 -> "TEXPAL"
    [] b = "I" /\ s.mst = 3 -> "BOBJEXTPAL"
    [] b = "C" /\ s.mst = 4 -> "BBG"
    [] b = "D" /\ s.mst = 4 -> "BOBJ"
    [] Ext(b, s) # Nothing /\ s.mst = 4 -> "ABGEXTPAL"
    [] b \in Small /\ s.mst = 5 -> "AOBJEXTPAL"
    [] OTHER -> "INVALID"

\* mutant: from A to I
LayeredUp(claim, base) ==
  LET claiming == {b \in Banks : DOMAIN claim[b] # {}} IN
  [x \in DOMAIN base |->
     LET owners == {b \in claiming : x \in DOMAIN claim[b]} IN
     IF owners = {} THEN base[x]
     ELSE claim[CHOOSE b \in owners : \A c \in owners : FirstPage[b] >= FirstPage[c]][x]]

\* the banks are refreshed from I to A: of those that claim a place the first letter has it, which
\* is also the one whose pages come first
Layered(claim, base) ==
  LET claiming == {b \in Banks : DOMAIN claim[b] # {}} IN
  [x \in DOMAIN base |->
     LET owners == {b \in claiming : x \in DOMAIN claim[b]} IN
     IF owners = {} THEN base[x]
     ELSE claim[CHOOSE b \in owners : \A c \in owners : FirstPage[b] <= FirstPage[c]][x]]

-----------------------------------------------------------------------------
(* MMU_VRAM_unmap_all *)

UnmappedLcdc == [p \in 0 .. UNMAPPED - 1 |-> UNMAPPED]
UnmappedNine == [place \in AreaPlaces |-> UNMAPPED]
UnmappedSeven == [i \in 0 .. 1 |-> UNMAPPED]
UnmappedTex == [slot \in 0 .. 3 |-> UNMAPPED]
UnmappedPal == [slot \in 0 .. 5 |-> UNMAPPED]
UnmappedExt ==
  [e \in ({"BG A", "BG B"} \X (0 .. 3)) \cup ({"OBJ A", "OBJ B"} \X {0}) |-> 2 * UNMAPPED]

Maps(cnt, lcdc) ==
  /\ vram_lcdc_map' = Layered([b \in Banks |-> Lcdc(b, cnt[b])], lcdc)
  /\ vram_arm9_map' = Layered([b \in Banks |-> Nine(b, cnt[b])], UnmappedNine)
  /\ vram_arm7_map' = Layered([b \in Banks |-> Seven(b, cnt[b])], UnmappedSeven)
  /\ textureSlotAddr' = Layered([b \in Banks |-> Tex(b, cnt[b])], UnmappedTex)
  /\ texPalSlot' = Layered([b \in Banks |-> Pal(b, cnt[b])], UnmappedPal)
  /\ ExtPal' = Layered([b \in Banks |-> Ext(b, cnt[b])], UnmappedExt)
  /\ purpose' = [b \in Banks |-> Purpose(b, cnt[b])]

\* memory is not cleared, and nothing is mapped
Reset ==
  /\ bankCnt' = [b \in Banks |-> Off]
  /\ Maps([b \in Banks |-> Off], UnmappedLcdc)
  /\ vramstat' = {}
  /\ video' = [p \in DataPages |-> 0]
  /\ cache' = Nothing

VideoInit ==
  /\ bankCnt = [b \in Banks |-> Off]
  /\ vram_lcdc_map = UnmappedLcdc /\ vram_arm9_map = UnmappedNine
  /\ vram_arm7_map = UnmappedSeven /\ textureSlotAddr = UnmappedTex
  /\ texPalSlot = UnmappedPal /\ ExtPal = UnmappedExt
  /\ purpose = [b \in Banks |-> "OFF"] /\ vramstat = {}
  /\ video = [p \in DataPages |-> 0]
  /\ cache = Nothing

\* TexCache_Invalidate
Suspected(items) == [t \in DOMAIN items |-> [items[t] EXCEPT !.suspectedInvalid = TRUE]]

\* mutant: the LCDC map is not cleared
MMU_VRAMmapControlKeeps(b, s) ==
  /\ bankCnt' = [bankCnt EXCEPT ![b] = s]
  /\ Maps(bankCnt', vram_lcdc_map)
  /\ vramstat' = {c \in {"C", "D"} : OnSeven(c, bankCnt'[c])}
  /\ cache' = IF textureSlotAddr' # textureSlotAddr \/ texPalSlot' # texPalSlot
              THEN Suspected(cache) ELSE cache
  /\ UNCHANGED video

MMU_VRAMmapControl(b, s) ==
  /\ bankCnt' = [bankCnt EXCEPT ![b] = s]
  /\ Maps(bankCnt', UnmappedLcdc)
  /\ vramstat' = {c \in {"C", "D"} : OnSeven(c, bankCnt'[c])}
  /\ cache' = IF textureSlotAddr' # textureSlotAddr \/ texPalSlot' # texPalSlot
              THEN Suspected(cache) ELSE cache
  /\ UNCHANGED video

WriteVramControl ==
  \E b \in Banks : \E s \in Settings[b] \cup {Off} :
    /\ s # bankCnt[b]
    /\ Cardinality({c \in Banks \ {b} : bankCnt[c] # Off}) < MaxEnabled
    /\ MMU_VRAMmapControl(b, s)

-----------------------------------------------------------------------------
(* Who writes the pages *)

Mapped(map) == {map[x] : x \in DOMAIN map} \ {UNMAPPED}

\* MMU_LCDmap: the ARM9 writes where the LCDC map or an area leads, the ARM7 in its 128KB
Arm9Pages == Mapped(vram_lcdc_map) \cup Mapped(vram_arm9_map)
Arm7Pages == UNION {p .. p + 7 : p \in Mapped(vram_arm7_map)}

StorePage(page) ==
  /\ page \in DataPages
  /\ \E v \in Versions : video' = [video EXCEPT ![page] = v]
  /\ UNCHANGED <<bankCnt, mapVars, cache>>

CpuWrite == \E page \in Arm9Pages \cup Arm7Pages : StorePage(page)

\* mutant: the bank is captured to wherever it is mapped
CaptureAnywhere ==
  \E b \in Big : purpose[b] # "OFF" /\ \E page \in PagesOf(b) : StorePage(page)

\* a line of the display capture
Capture == \E b \in Big : purpose[b] = "LCDC" /\ \E page \in PagesOf(b) : StorePage(page)

-----------------------------------------------------------------------------
(* TexCache *)

PageHolds(page) == IF page = UNMAPPED THEN 0 ELSE IF page \in DataPages THEN video[page] ELSE 0

\* MemSpan_TexPalette: there are only 6 slots
PalSlot(slot) == IF slot > 5 THEN slot - 5 ELSE slot

\* what the texture would be decoded from, and the part of it that is dumped
TexData(t) == [i \in 1 .. Len(t.slots) |-> PageHolds(textureSlotAddr[t.slots[i] % 4])]
PalData(t) == [i \in 1 .. Len(t.pals) |-> PageHolds(texPalSlot[PalSlot(t.pals[i] % 8)])]
Dump(t) == [texture |-> TexData(t), palette |-> IF t.fourByFour THEN <<>> ELSE PalData(t)]

Decoded(t) == [suspectedInvalid |-> FALSE, dump |-> Dump(t), decoded |-> <<TexData(t), PalData(t)>>]

\* scan: a suspected texture is compared with memory, and decoded again if that differs
SetTexture(t) ==
  /\ cache' = IF t \in DOMAIN cache /\ ~cache[t].suspectedInvalid THEN cache
              ELSE IF t \in DOMAIN cache /\ cache[t].dump = Dump(t)
              THEN [cache EXCEPT ![t].suspectedInvalid = FALSE]
              ELSE [u \in DOMAIN cache \cup {t} |-> IF u = t THEN Decoded(t) ELSE cache[u]]
  /\ UNCHANGED <<bankCnt, mapVars, video>>

Draw == \E t \in Textures : SetTexture(t)

\* TexCache_EvictFrame: above kMaxCacheSize, in no order
EvictFrame ==
  /\ \E kept \in SUBSET DOMAIN cache : cache' = [t \in kept |-> cache[t]]
  /\ UNCHANGED <<bankCnt, mapVars, video>>

VideoNext == WriteVramControl \/ CpuWrite \/ Capture \/ Draw \/ EvictFrame \/ Reset

VideoSpec == VideoInit /\ [][VideoNext]_videoVars

-----------------------------------------------------------------------------
(* Properties *)

MapTypeOK ==
  /\ bankCnt \in [Banks -> (UNION {Settings[b] : b \in Banks}) \cup {Off}]
  /\ Mapped(vram_lcdc_map) \cup Mapped(vram_arm9_map) \cup Mapped(vram_arm7_map)
       \subseteq 0 .. UNMAPPED - 1
  /\ vram_arm9_map \in [AreaPlaces -> 0 .. UNMAPPED]
  /\ DOMAIN cache \subseteq Textures
  /\ \A t \in DOMAIN cache : cache[t].suspectedInvalid \in BOOLEAN

\* A cached texture that is not suspected is what would be decoded now: memory cannot be
\* written where a texture sees it, and mapping it elsewhere and back raises suspicion.
\* 4x4 textures are another matter: no palette is dumped for them.
CacheFresh ==
  \A t \in DOMAIN cache :
    ~cache[t].suspectedInvalid /\ ~t.fourByFour => cache[t].decoded = <<TexData(t), PalData(t)>>

\* A bank that textures or their palettes are read from cannot be written by either
\* processor, whatever was mapped before.
TexturesAreReadOnly ==
  LET used == Mapped(textureSlotAddr) \cup Mapped(texPalSlot) IN
  \A p \in used : p \notin Arm9Pages \cup Arm7Pages

\* A page is in one area at a time: the LCDC map, an area of the ARM9 or the ARM7.
OneUse ==
  /\ Mapped(vram_lcdc_map) \cap (Mapped(vram_arm9_map) \cup Arm7Pages) = {}
  /\ Mapped(vram_arm9_map) \cap Arm7Pages = {}

\* "... and requires A to override it": no small bank that is mapped to the same place
\* by accident takes it from one of A to D.
BigBanksWin ==
  \A b \in Big : bankCnt[b] # Off =>
    \A place \in DOMAIN Nine(b, bankCnt[b]) :
      \E c \in Big : vram_arm9_map[place] \in PagesOf(c)

\* Textures are what memory holds, nobody writes where they are read from, a page is in one
\* area at a time, and no small bank takes it from a large one (texcache.cpp,
\* MMU_VRAMmapControl).
TexturesFresh == MapTypeOK /\ CacheFresh /\ TexturesAreReadOnly /\ OneUse /\ BigBanksWin
=============================================================================
