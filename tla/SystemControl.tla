--------------------------- MODULE SystemControl ----------------------------
(***************************************************************************)
(* The system control coprocessor of the ARM9 (cp15.cpp): the registers    *)
(* that MCR writes and MRC reads, and what the program copies out of them: *)
(* the write mode of video memory, the exception vectors, the behaviour of *)
(* LDR pc, the address of DTCM, and for each protection region what each   *)
(* kind of access may reach.                                               *)
(*                                                                         *)
(* A mask and a set of a region are the addresses they admit; a word of    *)
(* the control register is the set of its bits.                            *)
(***************************************************************************)
EXTENDS Integers

CONSTANTS Regions,      \* the protection regions, of 0..7
          Addresses,    \* the addresses the regions are asked about
          Controls,     \* words for the control register
          Permissions,  \* words for the permission registers: a nibble for each region
          Bases,        \* words for a base and size register: on, at, size
          Words         \* words for the other registers

\* ctrl, DaccessPerm .. itcm: the registers; access: the masks and sets; rwMode and mmuDtcm: of MMU;
\* high (intVector), ldt (LDTBit), waits (waitIRQ and halt_IE_and_IF): of the ARM9;
\* masked: armcp15_maskPrecalc has run, held: what MCR has left at each register (both history)
VARIABLE sys

Kinds == {"writeUsr", "writeSys", "readUsr", "readSys", "execUsr", "execSys"}

\* armcp15_new, after MMU_Reset: all masks and sets are 0, which admits every address.
PowerOnDtcm == 8388618     \* 0x0080000A
PowerOnMmuDtcm == 41680896 \* 0x027C0000, of MMU_Reset
UnloadedMmuDtcm == 134217728 \* 0x08000000, of MMU_Init
Cold ==
  [ctrl |-> {3, 4, 5, 6, 13, 16}, DaccessPerm |-> [r \in Regions |-> 2], IaccessPerm |-> [r \in Regions |-> 2],
   base |-> [r \in Regions |-> [on |-> FALSE, at |-> 0, size |-> 0]], dtcm |-> PowerOnDtcm,
   plain |-> [n \in {"DCConfig", "ICConfig", "writeBuffCtrl", "DcacheLock", "IcacheLock"} |-> 0],
   itcm |-> 12, access |-> [k \in Kinds |-> [r \in Regions |-> Addresses]], rwMode |-> FALSE,
   mmuDtcm |-> PowerOnMmuDtcm, high |-> TRUE, ldt |-> TRUE, waits |-> FALSE, masked |-> FALSE,
   held |-> [c \in {} |-> 0]]

-----------------------------------------------------------------------------
\* MASKFROMREG, SETFROMREG and precalc: the addresses of a region, which is at least 64 bytes
\* long; size 31 is all of memory, of which the mask would wrap around.
Span(size) == IF size < 5 THEN 64 ELSE 2 ^ (size + 1)
Area(b) ==
  IF ~b.on THEN {}
  ELSE IF b.size = 31 THEN Addresses
  ELSE {a \in Addresses : a \div Span(b.size) = b.at \div Span(b.size)}

\* armcp15_setSingleRegionAccess: what a nibble of the permissions lets read and write, and run.
\* For execution nibble 5 has no case, and leaves what was there.
DataKinds(nibble) ==
  CASE nibble = 1 -> {"writeSys", "readSys"}
    [] nibble = 2 -> {"writeSys", "readSys", "readUsr"}
    [] nibble = 3 -> {"writeSys", "readSys", "readUsr", "writeUsr"}
    [] nibble = 5 -> {"readSys"}
    [] nibble = 6 -> {"readSys", "readUsr"}
    [] OTHER -> {}
CodeKinds(nibble) ==
  CASE nibble = 1 -> {"execSys"}
    [] nibble \in {2, 3, 6} -> {"execSys", "execUsr"}
    [] OTHER -> {}
Code == {"execUsr", "execSys"}
RegionAccess(s, k, r) ==
  IF k \in Code
  THEN IF s.IaccessPerm[r] = 5 THEN s.access[k][r]
       ELSE IF k \in CodeKinds(s.IaccessPerm[r]) THEN Area(s.base[r]) ELSE {}
  ELSE IF k \in DataKinds(s.DaccessPerm[r]) THEN Area(s.base[r]) ELSE {}

\* armcp15_maskPrecalc, after each write of a permission, a base or a size
MaskPrecalcData(s) ==  \* mutant: what may be executed is not worked out again
  [s EXCEPT !.masked = TRUE, !.access = [k \in Kinds |-> [r \in Regions |->
      IF k \in Code THEN s.access[k][r] ELSE RegionAccess(s, k, r)]]]
MaskPrecalc(s) ==
  [s EXCEPT !.masked = TRUE, !.access = [k \in Kinds |-> [r \in Regions |-> RegionAccess(s, k, r)]]]

\* armcp15_isAccessAllowed
IsAccessAllowed(s, a, k) == 0 \in s.ctrl => \E r \in Regions : a \in s.access[k][r]

-----------------------------------------------------------------------------
\* The coordinates CRn, CRm and opcode2 of a register; opcode1 is 0. What is at other ones, and
\* all of them in user mode, answers FALSE and does nothing.
Control == <<1, 0, 0>>
DataPermission == <<5, 0, 2>>
CodePermission == <<5, 0, 3>>
BaseOf(r) == <<6, r, 0>>
Dtcm == <<9, 1, 0>>
Itcm == <<9, 1, 1>>

\* where armcp15_moveARM2CP has the registers that only keep what is written
PlainWrite ==
  [DCConfig |-> <<2, 0, 0>>, ICConfig |-> <<2, 0, 1>>, writeBuffCtrl |-> <<3, 0, 0>>,
   DcacheLock |-> <<9, 0, 0>>, IcacheLock |-> <<9, 0, 1>>]
Plain == DOMAIN PlainWrite
\* and which of them armcp15_moveCP2ARM reads
PlainReadOneLock(c) ==  \* mutant: the lock of the data cache is read for both
  CASE c = <<2, 0, 0>> -> "DCConfig" [] c = <<2, 0, 1>> -> "ICConfig" [] c = <<3, 0, 0>> -> "writeBuffCtrl"
    [] OTHER -> "DcacheLock"
PlainRead(c) ==
  CASE c = <<2, 0, 0>> -> "DCConfig" [] c = <<2, 0, 1>> -> "ICConfig" [] c = <<3, 0, 0>> -> "writeBuffCtrl"
    [] c = <<9, 0, 0>> -> "DcacheLock" [] OTHER -> "IcacheLock"

\* armcp15_moveCP2ARM; CRn 0 answers any opcode2, and is not written.
Identity(o) == CASE o = 1 -> "cacheType" [] o = 2 -> "TCMSize" [] OTHER -> "IDCode"
MoveCP2ARM(s, c) ==
  CASE c[1] = 0 -> Identity(c[3])
    [] c = Control -> s.ctrl
    [] c = DataPermission -> s.DaccessPerm
    [] c = CodePermission -> s.IaccessPerm
    [] c[1] = 6 -> s.base[c[2]]
    [] c = Dtcm -> s.dtcm
    [] c = Itcm -> s.itcm
    [] OTHER -> s.plain[PlainRead(c)]

Coordinates ==
  {Control, DataPermission, CodePermission, Dtcm, Itcm} \cup {BaseOf(r) : r \in Regions}
  \cup {PlainWrite[n] : n \in Plain}
PowerOn == [Cold EXCEPT !.held = [c \in Coordinates |-> MoveCP2ARM(Cold, c)]]
Unloaded == [PowerOn EXCEPT !.mmuDtcm = UnloadedMmuDtcm]  \* no game was ever reset

-----------------------------------------------------------------------------
\* armcp15_moveARM2CP, case 1: bits 0, 2, 7 and 12 to 19 are kept, bits 3 to 6 are set.
Writable == {0, 2, 7} \cup 12 .. 19
Fixed == 3 .. 6
ControlWord(bits) == (bits \cap Writable) \cup Fixed
DtcmAddress(w) == ((w \div 4096) % 65536) * 4096

\* MRC is to read what MCR has written, but for the bits a register has not.
Note(s, c, v) == [s EXCEPT !.held[c] = v]

WriteControlVectors(s, bits) ==  \* mutant: what depends on bit 15 is left alone
  Note([s EXCEPT !.ctrl = ControlWord(bits), !.rwMode = 7 \in bits, !.high = 13 \in bits],
       Control, ControlWord(bits))
WriteControl(s, bits) ==
  Note([s EXCEPT !.ctrl = ControlWord(bits), !.rwMode = 7 \in bits, !.high = 13 \in bits, !.ldt = 15 \notin bits],
       Control, ControlWord(bits))

WritePlain(s, n, w) == Note([s EXCEPT !.plain[n] = w], PlainWrite[n], w)
WriteDataPermission(s, p) == Note(MaskPrecalc([s EXCEPT !.DaccessPerm = p]), DataPermission, p)
WriteCodePermission(s, p) == Note(MaskPrecalc([s EXCEPT !.IaccessPerm = p]), CodePermission, p)
WriteBase(s, r, b) == Note(MaskPrecalc([s EXCEPT !.base[r] = b]), BaseOf(r), b)

\* Both copies of the address of DTCM; of ITCM only the register, since its base is fixed.
WriteDtcm(s, w) ==
  Note([s EXCEPT !.dtcm = DtcmAddress(w), !.mmuDtcm = DtcmAddress(w)], Dtcm, DtcmAddress(w))
WriteItcm(s, w) == Note([s EXCEPT !.itcm = w], Itcm, w)

\* CP15wait4IRQ (CRn 7, opcode2 4); that R[31] makes the burst end, and what wakes the processor, is in Interrupts.
Wait4Irq(s) == [s EXCEPT !.waits = TRUE]

\* armcp15_moveARM2CP
MoveARM2CP(s) ==
  {WriteControl(s, bits) : bits \in Controls}
  \cup {WritePlain(s, n, w) : n \in Plain, w \in Words}
  \cup {WriteDataPermission(s, p) : p \in Permissions} \cup {WriteCodePermission(s, p) : p \in Permissions}
  \cup {WriteBase(s, r, b) : r \in Regions, b \in Bases}
  \cup {WriteDtcm(s, w) : w \in Words} \cup {WriteItcm(s, w) : w \in Words}
  \cup {Wait4Irq(s)}

-----------------------------------------------------------------------------
SystemInit == sys \in {PowerOn, Unloaded}
MoveToSystem == sys' \in MoveARM2CP(sys)
WokenByIrq == sys.waits /\ sys' = [sys EXCEPT !.waits = FALSE]
SystemNext == MoveToSystem \/ WokenByIrq
SystemSpec == SystemInit /\ [][SystemNext]_sys

-----------------------------------------------------------------------------
\* What is kept elsewhere is what the registers say: the write mode of video memory, the vectors
\* and LDR pc follow the control register, of which bits 3 to 6 are always set ("Bit3..6 are
\* always set, all other bits are always zero", cp15.cpp:429); MMU and coprocessor have one
\* address of DTCM as soon as the game has set it, which bios.cpp relies on.
CopiesAgree(s) ==
  /\ s.rwMode = (7 \in s.ctrl) /\ s.high = (13 \in s.ctrl) /\ s.ldt = (15 \notin s.ctrl)
  /\ Fixed \subseteq s.ctrl /\ s.ctrl \subseteq Fixed \cup Writable
  /\ s.mmuDtcm = s.dtcm \/ (s.dtcm = PowerOnDtcm /\ s.mmuDtcm \in {PowerOnMmuDtcm, UnloadedMmuDtcm})

\* The masks are those of the permissions, bases and sizes as they are now, whichever of them was
\* written last; only nibble 5 says nothing of what may be executed.
MasksFollow(s) ==
  s.masked =>
    \A r \in Regions :
      /\ \A k \in Kinds \ Code :
           s.access[k][r] = IF k \in DataKinds(s.DaccessPerm[r]) THEN Area(s.base[r]) ELSE {}
      /\ s.IaccessPerm[r] # 5 =>
           \A k \in Code : s.access[k][r] = IF k \in CodeKinds(s.IaccessPerm[r]) THEN Area(s.base[r]) ELSE {}

\* MRC reads at its coordinates what MCR has left there.
ReadsBack(s) == \A c \in Coordinates : MoveCP2ARM(s, c) = s.held[c]

\* The registers, their copies and the masks agree (armcp15_moveARM2CP, armcp15_maskPrecalc).
Applied(s) == CopiesAgree(s) /\ MasksFollow(s) /\ ReadsBack(s)
=============================================================================
