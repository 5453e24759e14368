------------------------------ MODULE IoRegisters ------------------------------
(***************************************************************************)
(* The registers of the two processors (_MMU_ARM9_write08/16/32, the reads,   *)
(* and those of ARM7).  A register is kept twice: in a page of memory, and in *)
(* the device it controls.  Each width of access has a switch of its own that *)
(* says which devices hear of the write and whether the page takes it.  A     *)
(* register is a word of four bytes, at the lanes 0 .. 3; a device has a field *)
(* at the place of each byte it uses.                                         *)
(***************************************************************************)
EXTENDS Integers, Sequences, FiniteSets, TLC

CONSTANTS Groups,    \* registers a game writes in one run, besides each on its own
          Values,    \* words: the k-th write takes its bytes from the k-th
          MaxWrites  \* bound: writes of a run

VARIABLE io  \* regs, page, dev, seen; n: writes; wrote, missed, veiled, slot: what happened so far

Lanes == 0 .. 3
Span(width, lane) == lane .. lane + width - 1
Accesses == ({1} \X Lanes) \cup ({2} \X {0, 2}) \cup ({4} \X {0})
\* Those of ARM7: the ones it has like ARM9, its side of EXMEMCNT, POWCNT2, and the hardware with
\* handlers of its own (SPU_Write..., WIFI_write16, rtcWrite).
Sevens == {"IME7", "IE7", "TIMER7", "GCROMCTRL7", "EXMEMCNT7", "POWCNT2", "SOUND", "WIFI", "RTC"}
Registers == {"WINH", "WINV", "WININ", "BLDCNT", "BLDY", "MASTERBRIGHT", "BG0CNT", "DISPCNT", "DISPCAPCNT", "BG2X",
              "CLEAR_COLOR", "ALPHA_TEST_REF", "CLEAR_DEPTH", "FOG_COLOR", "FOG_OFFSET", "FOG_TABLE", "TOON_TABLE",
              "DISP3DCNT", "POWCNT1", "VRAMCNT", "IME", "IE", "TIMER", "EXMEMCNT", "GCROMCTRL", "DIVCNT",
              "DIVNUMER"} \cup Sevens
Zero == [l \in Lanes |-> 0]
Window == {"WINH", "WINV", "WININ"}

--------------------------------------------------------------------------------
\* The byte a field makes of the byte it is given: WININ has six bits of each, factors stop at 16.
Factor(b) == IF b % 32 > 16 THEN 16 ELSE b % 32
writereg_POWCNT1(l, b) == IF l = 0 THEN b % 16 ELSE 128 * (b \div 128) + 2 * ((b \div 2) % 2)
\* Bits 4 and 5 of the upper byte are acknowledged by ones, and nothing sets them.
writereg_DISP3DCNT(l, b) == IF l = 0 THEN b ELSE (b % 16) + 64 * ((b \div 64) % 2)
Field(reg, l, b) ==
  CASE reg = "WININ" -> b % 64
    [] (reg = "BLDCNT" /\ l > 1) \/ reg = "BLDY" -> Factor(b)
    [] reg = "MASTERBRIGHT" -> IF l = 0 THEN b % 32 ELSE b \div 64
    [] reg = "ALPHA_TEST_REF" -> b % 32
    [] (reg \in {"CLEAR_DEPTH", "FOG_OFFSET"} /\ l = 1) \/ reg = "FOG_TABLE" -> b % 128
    [] reg = "POWCNT1" -> writereg_POWCNT1(l, b)
    [] reg = "DISP3DCNT" -> writereg_DISP3DCNT(l, b)
    [] reg \in {"IME", "IME7"} -> b % 2
    [] reg = "DIVCNT" -> b % 4
    [] reg = "POWCNT2" -> 3 * (b % 2)  \* speakers and wifi both from bit 0
    [] OTHER -> b

\* Which place of the device each lane of a write goes to, as a function from places to lanes.
Straight(lanes) == [l \in lanes |-> l]

\* _MMU_ARM9_write08: GPU_setBLDCNT_HIGH is given the low byte, GPU_setBLDCNT_LOW the high one.
DisplayByteBlind(reg, l) == IF reg \in Window THEN Straight({l}) ELSE <<>>
DisplayByte(reg, l) ==
  CASE reg \in Window -> Straight({l})
    [] reg = "BLDCNT" -> IF l < 2 THEN (1 - l :> l) ELSE Straight({l})
    [] reg = "BLDY" /\ l = 0 -> Straight({0})
    [] OTHER -> <<>>
OtherByte(reg, l) ==
  IF reg \in {"CLEAR_COLOR", "VRAMCNT"} \/ (reg \in {"POWCNT1", "DISP3DCNT"} /\ l < 2) THEN Straight({l}) ELSE <<>>
\* _MMU_ARM7_write08: of the registers modelled only those of sound and the clock hear bytes.
SevenByte(reg, l) == IF reg = "SOUND" \/ (reg = "RTC" /\ l = 0) THEN Straight({l}) ELSE <<>>

\* _MMU_ARM9_write16.
DisplayHalf(reg, l) ==
  CASE reg \in Window \cup {"BLDCNT", "BG0CNT", "BG2X", "DISPCNT", "DISPCAPCNT"} -> Straight({l, l + 1})
    [] reg = "BLDY" /\ l = 0 -> Straight({0})
    [] reg = "MASTERBRIGHT" /\ l = 0 -> Straight({0, 1})
    [] OTHER -> <<>>
RenderHalf(reg, l) ==
  CASE reg \in {"CLEAR_COLOR", "TOON_TABLE"} -> Straight({l, l + 1})
    [] reg = "ALPHA_TEST_REF" /\ l = 0 -> Straight({0})
    [] reg \in {"CLEAR_DEPTH", "FOG_OFFSET", "FOG_COLOR", "DISP3DCNT"} /\ l = 0 -> Straight({0, 1})
    [] OTHER -> <<>>
SystemHalf(reg, l) ==
  CASE reg \in {"VRAMCNT", "IE", "TIMER", "GCROMCTRL"} -> Straight({l, l + 1})
    [] reg \in {"IME", "DIVCNT"} /\ l = 0 -> Straight({0})
    [] reg = "POWCNT1" /\ l = 0 -> Straight({0, 1})
    [] OTHER -> <<>>
\* _MMU_ARM7_write16.
SevenHalf(reg, l) ==
  CASE reg \in {"IE7", "TIMER7", "GCROMCTRL7", "SOUND", "WIFI"} -> Straight({l, l + 1})
    [] reg \in {"IME7", "POWCNT2", "RTC"} /\ l = 0 -> Straight({0})
    [] OTHER -> <<>>

\* _MMU_ARM9_write32.
DisplayWord(reg) ==
  CASE reg \in Window \cup {"BLDCNT", "BG0CNT", "BG2X", "DISPCNT", "DISPCAPCNT"} -> Straight(Lanes)
    [] reg = "BLDY" -> Straight({0})
    [] reg = "MASTERBRIGHT" -> Straight({0, 1})
    [] OTHER -> <<>>
RenderWord(reg) ==
  CASE reg \in {"CLEAR_COLOR", "TOON_TABLE", "FOG_COLOR"} -> Straight(Lanes)
    [] reg = "ALPHA_TEST_REF" -> Straight({0})
    [] reg \in {"CLEAR_DEPTH", "FOG_OFFSET", "DISP3DCNT"} -> Straight({0, 1})
    [] OTHER -> <<>>
SystemWord(reg) ==
  CASE reg \in {"VRAMCNT", "IE", "TIMER", "GCROMCTRL"} -> Straight(Lanes)
    [] reg \in {"IME", "DIVCNT"} -> Straight({0})
    [] reg = "POWCNT1" -> Straight({0, 1})
    [] OTHER -> <<>>
\* _MMU_ARM7_write32.
SevenWord(reg) ==
  CASE reg \in {"IE7", "TIMER7", "GCROMCTRL7", "SOUND", "WIFI"} -> Straight(Lanes)
    [] reg \in {"IME7", "RTC"} -> Straight({0})
    [] OTHER -> <<>>

To(reg, width, l) ==
  CASE width = 1 -> DisplayByte(reg, l) @@ OtherByte(reg, l) @@ SevenByte(reg, l)
    [] width = 2 -> DisplayHalf(reg, l) @@ RenderHalf(reg, l) @@ SystemHalf(reg, l) @@ SevenHalf(reg, l)
    [] width = 4 -> DisplayWord(reg) @@ RenderWord(reg) @@ SystemWord(reg) @@ SevenWord(reg)

\* A write that the display engine, the rasteriser or the divider refuses.
Powered(bit) == (io.dev.POWCNT1[0] \div bit) % 2 = 1
Refused(reg, width) ==
  \/ ~Powered(2) /\ reg \in Window \cup {"BLDCNT", "BLDY", "BG0CNT", "BG2X"}  \* 0x008 .. 0x05F
  \/ ~Powered(4) /\ reg \in {"CLEAR_COLOR", "ALPHA_TEST_REF", "CLEAR_DEPTH", "FOG_COLOR", "FOG_OFFSET", "FOG_TABLE", "TOON_TABLE"}
  \/ reg = "DIVCNT" /\ width = 1
  \/ reg = "WIFI" /\ width = 1

\* The lanes of the page that take the write.
NineStored(reg, width, l) ==
  CASE reg = "IE" /\ width > 1 -> {}
    [] reg = "DISP3DCNT" /\ (width = 4 \/ l < 2) -> {}
    [] reg \in {"POWCNT1", "TIMER", "FOG_OFFSET"} /\ width = 2 /\ l = 0 -> {}
    [] reg = "DIVCNT" /\ (width = 4 \/ l = 0) -> {}
    [] OTHER -> Span(width, l)
SevenStored(reg, width, l) ==
  CASE reg = "IE7" /\ width > 1 -> {}
    [] reg \in {"POWCNT2", "TIMER7", "EXMEMCNT7"} /\ width = 2 /\ l = 0 -> {}  \* EXMEMCNT7: see Exchanged
    [] reg = "SOUND" \/ (reg = "RTC" /\ width = 1 /\ l = 0) -> {}
    [] OTHER -> Span(width, l)
Stored(reg, width, l) == IF reg \in Sevens THEN SevenStored(reg, width, l) ELSE NineStored(reg, width, l)

--------------------------------------------------------------------------------
Override(f, g) == [k \in DOMAIN f |-> IF k \in DOMAIN g THEN g[k] ELSE f[k]]
Given(reg, places, bytes) == [p \in DOMAIN places |-> Field(reg, p, bytes[places[p]])]

\* The device after a write: DISPCNT, DISPCAPCNT and GCROMCTRL are told their page merged with the
\* halfword, FOG_COLOR the halfword with zeros above it; the others keep what they are not told.
Merged == {"DISPCNT", "DISPCAPCNT", "GCROMCTRL", "GCROMCTRL7"}
DevAlone(reg, width, l, bytes) == Override(io.dev[reg], Given(reg, To(reg, width, l), bytes))

Dev(reg, width, l, bytes) ==
  LET merged == Override(io.page[reg], [k \in Span(width, l) |-> bytes[k]])
      told == Given(reg, To(reg, width, l), bytes)
  IN CASE reg \in Merged /\ width > 1 -> merged
       [] reg = "FOG_COLOR" /\ width = 2 /\ l = 0 -> Override(Zero, told)
       [] OTHER -> Override(io.dev[reg], told)
\* The page after a write.  setAffineStart writes the whole word of the device back; IME clears the
\* upper half.
Page(reg, width, l, bytes) ==
  CASE reg = "BG2X" /\ width > 1 -> Dev(reg, width, l, bytes)
    [] reg \in {"IME", "IME7"} /\ width = 2 /\ l = 0 -> Override(Zero, [k \in {0, 1} |-> bytes[k]])
    [] OTHER -> Override(io.page[reg], [k \in Stored(reg, width, l) |-> IF reg = "FOG_TABLE" THEN bytes[k] % 128 ELSE bytes[k]])

\* REG_EXMEMCNT: ARM9 has the bits from 7 on, and ARM7 a copy of them; ARM7 has the lower ones.
ExchangedOnce(page, reg, width, l, bytes) == page
Exchanged(page, reg, width, l, bytes) ==
  CASE reg = "EXMEMCNT" /\ width = 2 /\ l = 0 ->
         [page EXCEPT !.EXMEMCNT7[0] = 128 * (bytes[0] \div 128) + (@ % 128), !.EXMEMCNT7[1] = bytes[1]]
    [] reg = "EXMEMCNT7" /\ width = 2 /\ l = 0 ->
         [page EXCEPT !.EXMEMCNT7[0] = (bytes[0] % 128) + 128 * (page.EXMEMCNT[0] \div 128), !.EXMEMCNT7[1] = page.EXMEMCNT[1]]
    [] OTHER -> page
\* execdiv runs when a whole word of an operand or a halfword of DIVCNT is written, on what the page
\* then has.
Starts(reg, width, l) == (reg = "DIVNUMER" /\ width = 4) \/ (reg = "DIVCNT" /\ width = 2 /\ l = 0)

\* GPU_setVideoProp sets the backgrounds anew, from their page; GPU_setBGProp reads DISPCNT.
Renews(reg, width) == width > 1 /\ reg = "DISPCNT"
Looks(reg, width) == width > 1 /\ reg \in {"BG0CNT", "DISPCNT"}

--------------------------------------------------------------------------------
\* What the exceptions cost: the lanes a device does not take from a write of the game, and those
\* that do not read as they were written.
ByteDeaf == {"MASTERBRIGHT", "BG0CNT", "DISPCNT", "DISPCAPCNT", "BG2X", "ALPHA_TEST_REF", "CLEAR_DEPTH", "FOG_COLOR",
             "FOG_OFFSET", "TOON_TABLE", "IME", "IE", "TIMER", "EXMEMCNT", "GCROMCTRL", "DIVNUMER"} \cup (Sevens \ {"SOUND", "RTC"})
HalfDeaf == {<<"FOG_COLOR", 2>>, <<"DIVNUMER", 0>>, <<"DIVNUMER", 2>>}
WordDeaf == {"EXMEMCNT", "EXMEMCNT7", "POWCNT2"}
Misses(reg, width, l) ==
  CASE width = 1 /\ reg = "BLDCNT" /\ l < 2 -> {0, 1}
    [] (width = 1 /\ reg \in ByteDeaf) \/ (width = 2 /\ <<reg, l>> \in HalfDeaf) \/ (width = 4 /\ reg \in WordDeaf) -> Span(width, l)
    [] width = 2 /\ reg = "FOG_COLOR" /\ l = 0 -> {2, 3}
    [] OTHER -> {}
Catches(reg, width, l) ==
  IF width > 1 /\ reg \in Merged THEN Lanes ELSE Span(width, l)
\* The page keeps what it had (FOG_OFFSET), or takes back what the device has (BG2X).
Veils(reg, width, l) ==
  CASE reg = "FOG_OFFSET" /\ width = 2 /\ l = 0 -> {0, 1}
    [] reg = "BG2X" /\ width = 2 -> io.missed[reg] \ Span(width, l)
    [] OTHER -> {}

\* Slot 2: bit 7 of a processor's own page says whether it may use it.
Nine == io.page.EXMEMCNT[0] \div 128 = 0
Seven == io.page.EXMEMCNT7[0] \div 128 = 1

IoInit ==
  \E regs \in Groups \cup {{r} : r \in Registers} :
     io = [regs |-> regs, n |-> 0, page |-> [r \in Registers |-> Zero],
           dev |-> [r \in Registers |-> CASE r = "POWCNT1" -> (0 :> 15 @@ 1 :> 130 @@ 2 :> 0 @@ 3 :> 0)
                                          [] r = "POWCNT2" -> [Zero EXCEPT ![0] = 1]
                                          [] OTHER -> Zero],
           seen |-> Zero, wrote |-> [r \in Registers |-> Zero], missed |-> [r \in Registers |-> IF r \in {"POWCNT1", "POWCNT2"} THEN Lanes ELSE {}],
           veiled |-> [r \in Registers |-> {}]]

Write(reg, width, l) ==
  LET bytes == [k \in Lanes |-> Values[io.n + 1][k + 1]]
      page == Exchanged([io.page EXCEPT ![reg] = Page(reg, width, l, bytes)], reg, width, l, bytes)
      dev == Dev(reg, width, l, bytes)
      missed == (io.missed[reg] \ Catches(reg, width, l)) \cup Misses(reg, width, l)
  IN /\ io.n < MaxWrites
     /\ IF Refused(reg, width)
        THEN io' = [io EXCEPT !.n = @ + 1]
        ELSE io' = [io EXCEPT
               !.n = @ + 1, !.page = page,
               !.dev = [r \in Registers |->
                          CASE r = "DIVNUMER" /\ Starts(reg, width, l) -> page.DIVNUMER
                            [] r = "BG0CNT" /\ Renews(reg, width) -> page.BG0CNT
                            [] r = reg /\ reg # "DIVNUMER" -> dev
                            [] OTHER -> @[r]],
               !.seen = IF Looks(reg, width) THEN page.DISPCNT ELSE @,
               !.wrote[reg] = Override(@, [k \in Span(width, l) |-> bytes[k]]),
               !.missed = [r \in Registers |->
                             CASE r = "DIVNUMER" /\ Starts(reg, width, l) -> {}
                               [] r = "BG0CNT" /\ Renews(reg, width) -> {}
                               [] {r, reg} \subseteq {"EXMEMCNT", "EXMEMCNT7"} /\ width = 2 /\ l = 0 -> {}
                               [] r = reg -> missed
                               [] OTHER -> @[r]],
               !.veiled[reg] = (@ \ Span(width, l)) \cup Veils(reg, width, l)]
IoNext == \E reg \in io.regs, a \in Accesses : Write(reg, a[1], a[2])

--------------------------------------------------------------------------------
\* What a read returns, byte by byte: from the device or from the page.
readreg(reg) == [io.dev[reg] EXCEPT ![2] = 0, ![3] = 0]  \* readreg_DISP3DCNT, of the upper half alone: an assertion
ByteRead(reg) ==
  CASE reg = "FOG_TABLE" -> Zero
    [] reg \in {"POWCNT1", "DISP3DCNT"} -> readreg(reg)
    [] OTHER -> io.page[reg]
HalfRead(reg, l) ==
  CASE reg = "IE" -> io.dev[reg]
    [] reg = "IME" /\ l = 0 -> [Zero EXCEPT ![0] = io.dev[reg][0]]
    [] OTHER -> ByteRead(reg)
WordRead(reg) ==
  CASE reg = "IE" -> io.dev[reg]
    [] reg = "IME" -> [Zero EXCEPT ![0] = io.dev[reg][0]]
    [] OTHER -> ByteRead(reg)
SevenByteRead(reg) == IF reg = "SOUND" THEN io.dev[reg] ELSE io.page[reg]
SevenHalfReadPage(reg, l) == SevenByteRead(reg)
SevenHalfRead(reg, l) ==
  CASE reg = "IE7" \/ (reg = "POWCNT2" /\ l = 0) -> io.dev[reg]
    [] reg = "IME7" /\ l = 0 -> [Zero EXCEPT ![0] = io.dev[reg][0]]
    [] OTHER -> SevenByteRead(reg)
SevenWordRead(reg, l) ==
  CASE reg = "IE7" -> io.dev[reg]
    [] reg = "IME7" /\ l = 0 -> [Zero EXCEPT ![0] = io.dev[reg][0]]
    [] OTHER -> SevenByteRead(reg)
Read(reg, width, l) ==
  IF reg \in Sevens
  THEN IF width = 1 THEN SevenByteRead(reg)
       ELSE IF width = 2 THEN SevenHalfRead(reg, l) ELSE SevenWordRead(reg, l)
  ELSE IF width = 1 THEN ByteRead(reg) ELSE IF width = 2 THEN HalfRead(reg, l) ELSE WordRead(reg)

\* Fields of a device, by their place.
Places(reg) ==
  IF reg \in {"BLDY", "ALPHA_TEST_REF", "IME", "IME7", "POWCNT2", "RTC"} THEN {0}
  ELSE IF reg \in {"MASTERBRIGHT", "CLEAR_DEPTH", "FOG_OFFSET", "DISP3DCNT", "POWCNT1"} THEN {0, 1}
  ELSE IF reg \in {"FOG_TABLE", "DIVCNT", "EXMEMCNT", "EXMEMCNT7"} THEN {} ELSE Lanes

\* A device has what the game wrote last, whatever the widths, but for the lanes it missed.
DevicesTrue ==
  \A reg \in io.regs :
     /\ \A l \in Places(reg) \ io.missed[reg] : io.dev[reg][l] = Field(reg, l, io.wrote[reg][l])
     /\ reg = "BG0CNT" /\ "DISPCNT" \in io.regs /\ io.missed.DISPCNT = {} => io.seen = io.dev.DISPCNT
\* A byte reads as it was written, but for lanes veiled, for fields that answer instead, and for bytes
\* of IE, IME and POWCNT2, which answer halfwords only.
Answers == {"POWCNT1", "DISP3DCNT", "IE", "IE7", "IME", "IME7", "POWCNT2"}
ReadsTrue ==
  \A reg \in io.regs : \A a \in Accesses : \A k \in Span(a[1], a[2]) :
     LET got == Read(reg, a[1], a[2])[k]
     IN CASE reg \in Answers ->
               k \in Places(reg) \ io.missed[reg] /\ (a[1] = 2 \/ reg \in {"POWCNT1", "DISP3DCNT"})
               => got = Field(reg, k, io.wrote[reg][k])
          [] reg \in {"FOG_TABLE", "EXMEMCNT", "EXMEMCNT7", "TIMER", "TIMER7", "DIVCNT", "RTC"} -> TRUE
          [] OTHER -> k \notin io.veiled[reg] => got = io.wrote[reg][k]
\* One processor has slot 2, and both see the same upper half, as long as EXMEMCNT is written in
\* halfwords.
SlotTrue == io.missed.EXMEMCNT = {} /\ io.missed.EXMEMCNT7 = {}
            => (Nine <=> ~Seven) /\ io.page.EXMEMCNT7[1] = io.page.EXMEMCNT[1]
IoTrue == DevicesTrue /\ ReadsTrue /\ SlotTrue
================================================================================
