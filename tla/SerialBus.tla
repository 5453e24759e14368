------------------------------ MODULE SerialBus ------------------------------
(***************************************************************************)
(* The serial bus of ARM7 (MMU.cpp, SPICNT and SPIDATA) and what hangs on  *)
(* it: power management, the firmware chip (mc.cpp) and the touch screen.  *)
(* A game sends scripts of bytes to one of the devices; the last byte is   *)
(* sent with the select line released, and a script may be given up.       *)
(* Beside them runs what the chips do by their own rules.                  *)
(***************************************************************************)
EXTENDS Integers, Sequences

CONSTANTS Scripts,        \* what games send: device and bytes
          FirmwareSize,   \* bytes of the firmware
          TouchX, TouchY, \* what the converter measures
          Pressure,       \* and for the pressure, when the screen is touched
          JitterPeriod,   \* 25 in the code
          MaxScripts      \* bound: scripts of a run

\* Power management is sent an index and a value; the converter a command and then zeroes.
ASSUME SerialAssumption ==
  /\ FirmwareSize \in Nat /\ MaxScripts \in Nat /\ JitterPeriod \in Nat
  /\ {TouchX, TouchY, Pressure[3], Pressure[4]} \subseteq 0 .. 4095
  /\ \A s \in Scripts :
       /\ s.dev \in 0 .. 2 /\ s.bytes \in Seq(0 .. 255) /\ s.bytes # <<>>
       /\ s.dev = 0 => Len(s.bytes) <= 2
       /\ s.dev = 2 => \A k \in 2 .. Len(s.bytes) : s.bytes[k] = 0

VARIABLES
  spi,    \* SPI_CNT, SPI_CMD, SPIDATA, partie, the power management, fw and the touch screen
  drive,  \* the script under way
  chip    \* the firmware, the phase and the words by the rules of the chips

serialVars == <<spi, drive, chip>>

PowerManagement == 0
Firmware == 1
TouchScreen == 2
READ == 3
WRITEDISABLE == 4
READSTATUS == 5
WRITEENABLE == 6
PAGEWRITE == 10
READ_ID == 159

FirmwareImage == [a \in 0 .. FirmwareSize - 1 |-> 200 + a]
NoCommand == [com |-> 0, addr |-> 0, addr_shift |-> 0, write_enable |-> FALSE]
SerialInit ==
  /\ spi = [dev |-> 0, hold |-> FALSE, slow |-> FALSE, cmd |-> 0, data |-> 0, partie |-> 1,
            cntReg |-> 0, written |-> FALSE, power |-> <<11, 0, 1, 0, 0>>, halted |-> FALSE,
            fw |-> NoCommand, flash |-> FirmwareImage, x |-> TouchX, y |-> TouchY, jitterctr |-> 0]
  /\ drive = [script |-> <<>>, dev |-> 0, i |-> 0, lazy |-> FALSE, slow |-> FALSE, left |-> MaxScripts]
  /\ chip = [bytes |-> <<>>, enabled |-> FALSE, flash |-> FirmwareImage, power |-> <<11, 0, 1, 0, 0>>,
             odd |-> FALSE, outOfPhase |-> FALSE, torn |-> FALSE, spoiled |-> FALSE, reply |-> 0, heard |-> <<>>]

-----------------------------------------------------------------------------
(* The firmware chip *)

\* CommonSettings.UseExtFirmware is nowhere set, so that the user settings are not copied.
fw_reset_com(f) ==
  [f EXCEPT !.com = 0, !.write_enable = IF f.com = PAGEWRITE THEN FALSE ELSE @]

Heard(s, f, reply) == [s EXCEPT !.fw = f, !.data = reply]

\* A command; its byte is the reply, but for a write that is not enabled.
Commanded(s, b) ==
  LET f == s.fw
      Addressed(com) == [f EXCEPT !.com = com, !.addr = 0, !.addr_shift = 3]
  IN  CASE b = READ -> Heard(s, Addressed(READ), b)
        [] b = READ_ID -> Heard(s, [f EXCEPT !.com = READ_ID, !.addr = 0], b)
        [] b = READSTATUS -> Heard(s, [f EXCEPT !.com = READSTATUS], b)
        [] b = WRITEENABLE -> Heard(s, [f EXCEPT !.write_enable = TRUE], b)
        [] b = WRITEDISABLE -> Heard(s, [f EXCEPT !.write_enable = FALSE], b)
        [] b = PAGEWRITE /\ f.write_enable -> Heard(s, Addressed(PAGEWRITE), b)
        [] b = PAGEWRITE /\ ~f.write_enable -> Heard(s, f, 0)
        [] OTHER -> Heard(s, f, b)

\* mutant: the address grows before the byte is taken
PayloadBehind(s, b) ==
  LET a == s.fw.addr + 1
      onward == [s.fw EXCEPT !.addr = a]
  IN  IF a >= FirmwareSize THEN Heard(s, s.fw, b)
      ELSE IF s.fw.com = READ THEN Heard(s, onward, s.flash[a])
      ELSE [Heard(s, onward, b) EXCEPT !.flash = [@ EXCEPT ![a] = b]]

\* A byte behind the address; beyond the end of the chip nothing is read, written or counted.
Payload(s, b) ==
  LET a == s.fw.addr
      onward == [s.fw EXCEPT !.addr = a + 1]
  IN  IF a >= FirmwareSize THEN Heard(s, s.fw, b)
      ELSE IF s.fw.com = READ THEN Heard(s, onward, s.flash[a])
      ELSE [Heard(s, onward, b) EXCEPT !.flash = [@ EXCEPT ![a] = b]]

ChipId == <<32, 64, 18>>
Weight == <<1, 256, 65536>>
fw_transfer(s, b) ==
  LET f == s.fw
  IN  CASE f.com \in {READ, PAGEWRITE} /\ f.addr_shift > 0 ->
             Heard(s, [f EXCEPT !.addr_shift = @ - 1, !.addr = @ + b * Weight[f.addr_shift]], b)
        [] f.com \in {READ, PAGEWRITE} /\ f.addr_shift = 0 -> Payload(s, b)
        [] f.com = READ_ID -> Heard(s, [f EXCEPT !.addr = (@ + 1) % 3], ChipId[f.addr + 1])
        [] f.com = READSTATUS -> Heard(s, f, IF f.write_enable THEN 2 ELSE 0)
        [] OTHER -> Commanded(s, b)

-----------------------------------------------------------------------------
(* Power management: an index, then a value, whatever the select line does *)

Register(i) == IF i % 8 >= 5 THEN 4 ELSE i % 8
PowerOff(power) == (power[1] \div 64) % 2 = 1
PowerByte(s, b) ==
  IF ~s.written THEN [s EXCEPT !.cntReg = b, !.written = TRUE, !.data = b]
  ELSE LET r == Register(s.cntReg % 128) + 1
           reads == s.cntReg >= 128
           power == IF reads THEN s.power ELSE [s.power EXCEPT ![r] = b]
       IN  [s EXCEPT !.power = power, !.data = IF reads THEN s.power[r] ELSE b, !.written = FALSE,
                     !.halted = @ \/ (~reads /\ PowerOff(power))]

-----------------------------------------------------------------------------
(* The touch screen: twelve bits in two bytes, by turns *)

High(v) == v \div 32
LowByte(v) == (v * 8) % 256
LowWord(v) == (v * 8) % 2048  \* the temperatures and pressures leave bits above the byte
Flip16(v) == IF (v \div 16) % 2 = 1 THEN v - 16 ELSE v + 16

\* mutant: the release leaves the turn as it is
InTurnsKept(s, high, low) ==
  IF s.hold /\ s.partie = 0 THEN [s EXCEPT !.data = high, !.partie = 1]
  ELSE [s EXCEPT !.data = low, !.partie = IF s.hold THEN 0 ELSE @]
InTurns(s, high, low) ==
  IF s.hold /\ s.partie = 0 THEN [s EXCEPT !.data = high, !.partie = 1]
  ELSE [s EXCEPT !.data = low, !.partie = IF s.hold THEN 0 ELSE 1]

\* A measurement of Y counts, and now and then the hand shakes.
Shaken(s) ==
  IF s.jitterctr + 1 = JitterPeriod THEN [s EXCEPT !.jitterctr = 0, !.x = Flip16(s.x), !.y = Flip16(s.y)]
  ELSE [s EXCEPT !.jitterctr = @ + 1]

\* Nothing calls Mic_DoNoise, so that the buffer is empty and its place of reading never moves.
Mic_ReadSample == 0

Channel(b) == (b \div 16) % 8
TouchByte(s, b) ==
  LET channel == Channel(s.cmd)
      Position(t, v) == InTurns(t, High(v) % 256, LowByte(v))
      Level(v) == InTurns(s, High(v), LowWord(v))
  IN  CASE channel = 0 -> Level(716)
        [] channel = 7 -> Level(865)
        [] channel = 1 -> Position(Shaken(s), Shaken(s).y)
        [] channel = 5 -> Position(s, s.x)
        [] channel \in {3, 4} -> Level(Pressure[channel])
        [] channel = 6 -> [s EXCEPT !.data = IF b >= 128 THEN 0 ELSE Mic_ReadSample]
        [] channel = 2 -> [s EXCEPT !.data = b]

-----------------------------------------------------------------------------
(* The two registers *)

\* mutant: a release between two commands is not noticed
SPICNTUnreleased(s, dev, hold, slow) ==
  [s EXCEPT !.fw = IF s.dev = Firmware /\ dev = Firmware THEN @ ELSE fw_reset_com(@),
            !.dev = dev, !.hold = hold, !.slow = slow]

SPICNT(s, dev, hold, slow) ==
  [s EXCEPT !.fw = IF s.dev = Firmware /\ dev = Firmware /\ s.hold THEN @ ELSE fw_reset_com(@),
            !.dev = dev, !.hold = hold, !.slow = slow]

\* At another rate than 4 MHz the firmware does not hear the byte, and it is its own reply.
SPIDATA(s, b) ==
  LET t == IF b = 0 THEN s ELSE [s EXCEPT !.cmd = b]
  IN  CASE s.dev = PowerManagement -> PowerByte(t, b)
        [] s.dev = Firmware -> IF s.slow THEN [t EXCEPT !.data = b] ELSE fw_transfer(t, b)
        [] s.dev = TouchScreen -> TouchByte(t, b)

-----------------------------------------------------------------------------
(* The chips by their own rules: a selection begins with the first byte after a release *)

TakesNone(c, first) == first \notin {READ, READSTATUS, READ_ID} /\ ~(first = PAGEWRITE /\ c.enabled)
AddressOf(bytes) == bytes[2] * 65536 + bytes[3] * 256 + bytes[4]
\* what the firmware chip answers to byte b behind the bytes of its selection; -1 if it does not matter
Answer(c, b) ==
  LET n == Len(c.bytes)
      first == c.bytes[1]
      at == AddressOf(c.bytes) + n - 4
  IN  IF n = 0 THEN -1
      ELSE IF first = READ /\ n >= 4 THEN IF at < FirmwareSize THEN c.flash[at] ELSE -1
      ELSE IF first = READSTATUS THEN IF c.enabled THEN 2 ELSE 0
      ELSE IF first = READ_ID THEN ChipId[((n - 1) % 3) + 1]
      ELSE -1
ByteTaken(c, b) ==
  LET n == Len(c.bytes)
      at == AddressOf(c.bytes) + n - 4
  IN  IF n = 0 THEN [c EXCEPT !.enabled = IF b = WRITEENABLE THEN TRUE ELSE IF b = WRITEDISABLE THEN FALSE ELSE @]
      ELSE IF c.bytes[1] = PAGEWRITE /\ c.enabled /\ n >= 4 /\ at < FirmwareSize THEN [c EXCEPT !.flash = [@ EXCEPT ![at] = b]]
      ELSE c
Released(c) ==
  [c EXCEPT !.bytes = <<>>, !.enabled = IF Len(c.bytes) >= 1 /\ c.bytes[1] = PAGEWRITE THEN FALSE ELSE @]

\* odd: what the game did is not among what the firmware is made for
FirmwareChip(c, b, last, written) ==
  LET odd == c.odd \/ drive.slow \/ (c.bytes = <<>> /\ ~written) \/ (c.bytes # <<>> /\ TakesNone(c, c.bytes[1]))
      next == [ByteTaken(c, b) EXCEPT !.bytes = Append(@, b), !.reply = Answer(c, b), !.odd = odd]
  IN  IF last THEN Released(next) ELSE next

\* A release starts the power management chip and the converter anew; here it does not.
PowerChip(c, b, last) ==
  LET i == IF c.bytes = <<>> THEN b ELSE c.bytes[1]
      done == c.bytes # <<>>
      next == [c EXCEPT !.bytes = Append(@, b),
                        !.reply = IF done /\ i >= 128 THEN c.power[Register(i % 128) + 1] ELSE -1,
                        !.power = IF done /\ i < 128 THEN [@ EXCEPT ![Register(i) + 1] = b] ELSE @]
  IN  IF last THEN [next EXCEPT !.bytes = <<>>, !.outOfPhase = @ \/ ~done] ELSE next

\* A script is one conversion: its command, and the two halves.  One that is given up behind an odd
\* number of bytes leaves the converter at the other half (torn).
Measured(cmd) == Channel(cmd) \notin {2, 6}
TouchChip(c, last, cmd) ==
  [c EXCEPT !.bytes = IF last THEN <<>> ELSE Append(@, 0), !.torn = @ /\ ~(last /\ Measured(cmd))]

-----------------------------------------------------------------------------
Begin ==
  /\ drive.script = <<>> /\ drive.left > 0 /\ ~spi.halted
  /\ \E s \in Scripts, lazy, slow \in BOOLEAN :
       /\ slow => s.dev = Firmware
       /\ lazy => spi.dev = s.dev /\ ~spi.hold /\ Len(s.bytes) = 1 /\ spi.slow = slow
       /\ drive' = [script |-> s.bytes, dev |-> s.dev, i |-> 1, lazy |-> lazy, slow |-> slow, left |-> drive.left - 1]
       /\ chip' = [chip EXCEPT !.bytes = <<>>, !.heard = <<>>,
                               !.spoiled = chip.torn]
       /\ UNCHANGED spi

\* The select line is released by a write of SPICNT before the last byte; a game that is lazy
\* finds it as it needs it and writes only the data.
SendByte ==
  /\ drive.script # <<>>
  /\ LET b == drive.script[drive.i]
         last == drive.i = Len(drive.script)
         set == IF drive.lazy THEN spi ELSE SPICNT(spi, drive.dev, ~last, drive.slow)
         sent == SPIDATA(set, b)
     IN  /\ spi' = sent
         /\ chip' = CASE drive.dev = Firmware -> FirmwareChip(chip, b, last, ~drive.lazy)
                      [] drive.dev = PowerManagement -> PowerChip(chip, b, last)
                      [] drive.dev = TouchScreen -> [TouchChip(chip, last, sent.cmd) EXCEPT !.heard = Append(@, sent.data % 256)]
         /\ drive' = IF last THEN [drive EXCEPT !.script = <<>>, !.i = 0] ELSE [drive EXCEPT !.i = @ + 1]

\* The game gives a script up: it releases the line without another byte.
GiveUp ==
  /\ drive.script # <<>> /\ drive.i > 1
  /\ spi' = SPICNT(spi, drive.dev, FALSE, drive.slow)
  /\ chip' = LET c == IF drive.dev = Firmware THEN Released(chip) ELSE [chip EXCEPT !.bytes = <<>>]
             IN  [c EXCEPT !.outOfPhase = (@ \/ (drive.dev = PowerManagement /\ drive.i = 2)), !.heard = <<>>, !.reply = -1,
                              !.torn = (@ # (drive.dev = TouchScreen /\ drive.i % 2 = 0 /\ Measured(spi.cmd)))]
  /\ drive' = [drive EXCEPT !.script = <<>>, !.i = 0]

\* A savestate carries all but the turn of the touch screen.
LoadSerial == /\ spi.partie = 0 /\ spi' = [spi EXCEPT !.partie = 1]
             /\ chip' = [chip EXCEPT !.torn = ~@, !.spoiled = TRUE]
             /\ UNCHANGED drive

SerialNext == Begin \/ SendByte \/ GiveUp \/ LoadSerial
SerialSpec == SerialInit /\ [][SerialNext]_serialVars

-----------------------------------------------------------------------------
\* The firmware answers and keeps what its chip would, as long as the game sends no byte
\* behind a command that takes none or was refused, sends at the right rate, and
\* writes SPICNT between two commands (fw_transfer, fw_reset_com).
Quiet == drive.script = <<>>
FirmwareAsChip ==
  ~chip.odd =>
    /\ spi.flash = chip.flash
    /\ drive.dev = Firmware /\ drive.i # 1 /\ chip.reply # -1 => spi.data = chip.reply
    /\ Quiet => spi.fw.write_enable = chip.enabled \/ spi.fw.com = PAGEWRITE

\* The registers of the power management are those that were written, and the power is cut
\* only by its bit, until a transfer is given up between index and value: from then on
\* an index is taken for a value, as a release does not begin anew.
PowerInPhase ==
  ~chip.outOfPhase =>
    /\ spi.power = chip.power /\ spi.halted = PowerOff(spi.power)
    /\ drive.dev = PowerManagement /\ drive.i # 1 /\ chip.reply # -1 => spi.data = chip.reply

\* What a game puts together from the two bytes of a measurement is the position that is
\* measured, shaken by at most 16, unless the measurement before was given up or a
\* savestate loaded in the middle of this one (partie).
Measures == [c \in 0 .. 7 |-> CASE c = 0 -> {716} [] c = 7 -> {865} [] c = 1 -> {TouchY, Flip16(TouchY)}
                                [] c = 5 -> {TouchX, Flip16(TouchX)} [] c \in {3, 4} -> {Pressure[c]} [] OTHER -> {}]
TouchAsMeasured ==
  Quiet /\ drive.dev = TouchScreen /\ Len(chip.heard) = 3 /\ ~chip.spoiled /\ Measured(spi.cmd) =>
    (chip.heard[2] * 256 + chip.heard[3]) \div 8 \in Measures[Channel(spi.cmd)]

\* The devices of the serial bus answer as their chips would (_MMU_ARM7_write16, SPICNT and SPIDATA).
SerialTrue == FirmwareAsChip /\ PowerInPhase /\ TouchAsMeasured
=============================================================================
