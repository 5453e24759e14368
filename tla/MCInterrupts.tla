---------------------------- MODULE MCInterrupts ----------------------------
(***************************************************************************)
(* The small instance of four units, each explored on its own: five games *)
(* that each ask one question of the halt and wake-up paths, the system    *)
(* control coprocessor, the file of the machine's state, and the video     *)
(* memory with its cache of textures.                                      *)
(***************************************************************************)
EXTENDS Interrupts, SaveStates, VideoMemory, FiniteSets

VARIABLE unit  \* the unit this behaviour explores

Game(a9, a7) == [p \in Procs |-> IF p = "arm9" THEN a9 ELSE a7]

MCGames ==
  {Game({"intrwait"}, {"sync"}),        \* a wait the other processor ends
   Game({"sync"}, {"halt", "sync"}),    \* handshakes over the four lines
   Game({"wait", "gxstat"}, {}),        \* the level of the FIFO
   Game({"wait", "msr", "ime"}, {}),    \* a halt with the exception masked
   Game({}, {"wait", "sleep", "ie"})}   \* the machine asleep
MCGame == CHOOSE g \in MCGames : TRUE

\* One region asked about two addresses, permissions with and without a case for execution, two
\* sizes that tell the addresses apart and one that does not, and a word with bits to be dropped.
MCAddresses == {0, 4096}
MCControls == {{0, 15, 31}, {7, 13}}
MCPermissions == {[r \in Regions |-> n] : n \in {1, 5, 6}}
MCBases == {[on |-> TRUE, at |-> 4096, size |-> 5], [on |-> TRUE, at |-> 0, size |-> 31]}
MCWords == {4099}

\* Files cut in their header, in each kind of section, on both sides of the version word, and
\* before the terminator; older ones of each fate in section 61.
Cut(n, part) == [sections |-> n, part |-> part]
MCCuts ==
  {Cut(-1, {}), Cut(0, {"arm9", "wait9"}), Cut(2, {"cp15"}), Cut(6, {"mmu"}), Cut(7, {}), Cut(7, {"heading"}),
   Cut(7, {"heading", "version", "backup"}), Cut(15, {})}
Old(version, sized, lacks) == [version |-> version, sized |-> sized, lacks |-> lacks]
MCOldFiles == {Old(0, TRUE, {}), Old(0, FALSE, {}), Old(1, FALSE, {}), Old(3, TRUE, {"wifi", "wait7"})}

\* Video memory: for each bank two or three of its settings, so that banks overlap in every map;
\* two banks at a time; a texture across two slots, and a 4x4 one with a palette.
Bank(m, o) == [mst |-> m, ofs |-> o]
MCSettings ==
  [A |-> {Bank(2, 0), Bank(3, 1), Bank(2, 2)}, B |-> {Bank(0, 0), Bank(3, 0)},
   C |-> {Bank(2, 1), Bank(4, 0)},             D |-> {Bank(2, 0), Bank(4, 0), Bank(3, 0)},
   E |-> {Bank(0, 0), Bank(1, 0), Bank(3, 0)}, F |-> {Bank(3, 0), Bank(5, 0)},
   G |-> {Bank(2, 3), Bank(4, 1)},             H |-> {Bank(1, 0), Bank(2, 0)},
   I |-> {Bank(1, 0), Bank(2, 0), Bank(3, 0)}]
MCTextures == {[slots |-> <<0, 1>>, pals |-> <<0>>, fourByFour |-> FALSE],
               [slots |-> <<0>>, pals |-> <<6>>, fourByFour |-> TRUE]}

\* The control unit writes any four registers, in every order.
Changed == {c \in Coordinates : sys'.held[c] # PowerOn.held[c]}

\* Next to the files a row of three writes is enough, and only the machine after them is written
\* by halves.
Controlled == WriteControl(PowerOn, {7, 13})
Protected == WriteCodePermission(Controlled, [r \in Regions |-> 5])
Busy == WriteDtcm(Protected, 4099)
Limits ==
  /\ SystemNext => sys' \in {Controlled, Protected, Busy}
  /\ file' # file /\ file'.cut # Whole => sys = Busy /\ mach = Of(1)

-----------------------------------------------------------------------------
GameIdle == game = MCGame /\ reg_IE = [p \in Procs |-> {}]
SavesIdle ==
  sys = 0 /\ mach = 0 /\ file = 0 /\ kept = 0 /\ rom = FALSE /\ said = "none" /\ wrecked = TRUE
MCInit ==
  /\ Init /\ VideoInit
  /\ \/ unit = "interrupts" /\ SavesIdle
     \/ unit = "control" /\ GameIdle /\ SaveInit /\ rom /\ file = NoFile
     \/ unit = "saves" /\ GameIdle /\ SaveInit
     \/ unit = "video" /\ GameIdle /\ SavesIdle

MCNext ==
  /\ UNCHANGED unit
  /\ \/ unit = "interrupts" /\ Next /\ UNCHANGED <<saveVars, videoVars>>
     \/ /\ unit = "control" /\ SystemNext /\ Cardinality(Changed) <= 4
        /\ UNCHANGED <<vars, mach, file, kept, rom, said, wrecked, videoVars>>
     \/ unit = "saves" /\ SaveNext /\ Limits /\ UNCHANGED <<vars, videoVars>>
     \/ unit = "video" /\ VideoNext /\ UNCHANGED <<vars, saveVars>>

\* The thread of the emulator is the interrupts' matter: of the other units only safety is asked.
MCSpec == MCInit /\ [][MCNext]_<<unit, vars, saveVars, videoVars>> /\ Fairness
=============================================================================
