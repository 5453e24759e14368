---------------------------- MODULE RealTimeClock ----------------------------
(***************************************************************************)
(* The clock chip and the three wires a game moves it by (rtc.cpp).  A     *)
(* game selects the chip, clocks a command of eight bits in, clocks the    *)
(* bits of a register in or out, and deselects it; it may also give a      *)
(* transfer up half way, or be reset.                                      *)
(*                                                                         *)
(* Bytes and the transfer buffer are sets of the bits that are one.        *)
(***************************************************************************)
EXTENDS Integers, Sequences, FiniteSets

CONSTANTS Commands,  \* what the game does: register, whether it reads, and the order of the bits
          Values,    \* what it writes into a register
          Hours,     \* the hours of the day, but 0, at which it asks for the time
          MaxCalls   \* bound: transfers of a run

VARIABLES
  rtc,    \* the chip: rtc
  game    \* what the game is doing, and what it has been told

rtcVars == <<rtc, game>>

BitPlaces == 0 .. 7
kDefaultCmdBitsSize == <<8, 8, 56, 24, 0, 24, 8, 8>>

rtcInit ==
  [regStatus1 |-> {1}, regStatus2 |-> {}, regAdjustment |-> {}, regFree |-> {},
   CS |-> 0, SCK |-> 0, SIO |-> 0, cmd |-> <<>>, number |-> 0, reads |-> FALSE, cmdStat |-> 0,
   bitsCount |-> 0, data |-> {}, cmdBitsSize |-> kDefaultCmdBitsSize, REG |-> 0]

\* whole: no transfer has been given up since the last reset; before: the chip at the selection
Idle(calls, whole) ==
  [doing |-> "nothing", want |-> [number |-> 0, read |-> FALSE, lowFirst |-> FALSE], value |-> {},
   hour |-> 0, i |-> 0, got |-> {}, before |-> rtcInit, calls |-> calls, whole |-> whole]

RtcInit == rtc = rtcInit /\ game = Idle(0, TRUE)

-----------------------------------------------------------------------------
(* What is read *)

Bits(x) == {k \in BitPlaces : (x \div 2^k) % 2 = 1}
toBCD(x) == 16 * (x \div 10) + (x % 10)
In24(status1) == 1 \in status1
\* mutant: the half of the day is taken before the hour is reduced
HourByteHalf(h, status1) ==
  LET hour == IF In24(status1) THEN h ELSE h % 12 IN Bits((IF h < 12 THEN 0 ELSE 64) + toBCD(hour))
HourByte(h, status1) ==
  LET hour == IF In24(status1) THEN h ELSE h % 12 IN Bits((IF hour < 12 THEN 0 ELSE 64) + toBCD(hour))
At(place, byte) == {8 * place + b : b \in byte}

\* The clock stands at the first second of an hour of 1 January 2001, a Monday.
Date == At(0, Bits(1)) \cup At(1, Bits(1)) \cup At(2, Bits(1)) \cup At(3, Bits(1))

\* Reading the first status register drops its upper half.
rtcRecv(c, hour) ==
  LET status1 == c.regStatus1 \cap 0 .. 3
      told == CASE c.number = 0 -> status1
                [] c.number = 1 -> c.regStatus2
                [] c.number = 2 -> Date \cup At(4, HourByte(hour, c.regStatus1))
                [] c.number = 3 -> HourByte(hour, c.regStatus1)
                [] c.number \in {4, 5} -> {}
                [] c.number = 6 -> c.regAdjustment
                [] c.number = 7 -> c.regFree
  IN  [c EXCEPT !.data = told, !.regStatus1 = IF c.number = 0 THEN status1 ELSE @]

First(data) == data \cap BitPlaces
rtcSend(c) ==
  CASE c.number = 0 -> [c EXCEPT !.regStatus1 = First(c.data)]
    [] c.number = 1 -> [c EXCEPT !.regStatus2 = First(c.data)]
    [] c.number = 6 -> [c EXCEPT !.regAdjustment = First(c.data)]
    [] c.number = 7 -> [c EXCEPT !.regFree = First(c.data)]
    [] OTHER -> c

-----------------------------------------------------------------------------
(* rtcWrite: a write of the four wires; dd says that the game drives the data wire *)

Wires(cs, sck, sio, dd) == [CS |-> cs, SCK |-> sck, SIO |-> sio, DD |-> dd]
Falls(c, w) == c.SCK = 1 /\ w.SCK = 0

\* Commands come with the high bit first behind 0110, or with the low bit first.
Number(cmd) ==
  IF SubSeq(cmd, 1, 4) = <<0, 1, 1, 0>> THEN [n |-> 4 * cmd[5] + 2 * cmd[6] + cmd[7], r |-> cmd[8] = 1]
  ELSE [n |-> 4 * cmd[4] + 2 * cmd[3] + cmd[2], r |-> cmd[1] = 1]

\* The first alarm has a length of its own in one of the modes of the second status register.
AlarmSize(c) ==
  IF c.number # 4 THEN c.cmdBitsSize
  ELSE [c.cmdBitsSize EXCEPT ![5] = IF c.regStatus2 \cap 0 .. 3 = {2} THEN 24 ELSE 8]
Interpreted(c, hour) ==
  LET sized == [c EXCEPT !.bitsCount = 0, !.cmdBitsSize = AlarmSize(c)]
  IN  IF c.reads THEN rtcRecv([sized EXCEPT !.cmdStat = 4], hour) ELSE [sized EXCEPT !.cmdStat = 3]

\* A bit counts whenever the clock is low and the game drives the wire.
CommandBit(c, w, sio, hour) ==
  IF w.CS = 0 THEN [c EXCEPT !.cmdStat = 0]
  ELSE IF (w.SCK = 1) = (w.DD = 1) THEN c
  ELSE LET taken == [c EXCEPT !.cmd = IF c.bitsCount < 8 THEN Append(@, sio) ELSE @, !.bitsCount = (@ + 1) % 256]
           named == [taken EXCEPT !.number = Number(taken.cmd).n, !.reads = Number(taken.cmd).r]
       IN  IF taken.bitsCount # 8 THEN taken
           ELSE IF Falls(c, w) THEN Interpreted(named, hour) ELSE named

Size(c) == c.cmdBitsSize[c.number + 1]
WriteBit(c, w, sio) ==
  IF ~Falls(c, w) THEN c
  ELSE LET taken == [c EXCEPT !.data = IF sio = 1 THEN @ \cup {c.bitsCount} ELSE @, !.bitsCount = @ + 1]
       IN  IF taken.bitsCount = Size(c) THEN [rtcSend(taken) EXCEPT !.cmdStat = 0] ELSE taken

\* mutant: the last bit is counted after the test
ReadBitLate(c, w) ==
  IF ~Falls(c, w) THEN c
  ELSE [c EXCEPT !.REG = IF c.bitsCount \in c.data THEN 1 ELSE 0, !.bitsCount = @ + 1,
                 !.cmdStat = IF c.bitsCount = Size(c) \/ w.CS = 0 THEN 0 ELSE @]

ReadBit(c, w) ==
  IF ~Falls(c, w) THEN c
  ELSE [c EXCEPT !.REG = IF c.bitsCount \in c.data THEN 1 ELSE 0, !.bitsCount = @ + 1,
                 !.cmdStat = IF c.bitsCount + 1 = Size(c) \/ w.CS = 0 THEN 0 ELSE @]

Selects(c, w) == c.CS = 0 /\ c.SCK = 1 /\ w.CS = 1 /\ w.SCK = 1

\* Only a command is given up with the chip; a transfer goes on with the next falling clock.
rtcWrite(c, w, hour) ==
  LET sio == IF w.DD = 1 THEN w.SIO ELSE c.SIO
      stepped == CASE c.cmdStat = 0 -> IF Selects(c, w) THEN [c EXCEPT !.cmdStat = 1, !.bitsCount = 0, !.cmd = <<>>]
                                       ELSE c
                   [] c.cmdStat = 1 -> CommandBit(c, w, sio, hour)
                   [] c.cmdStat = 3 -> WriteBit(c, w, sio)
                   [] c.cmdStat = 4 -> ReadBit(c, w)
  IN  [stepped EXCEPT !.CS = w.CS, !.SCK = w.SCK, !.SIO = sio]

-----------------------------------------------------------------------------
(* The game *)

\* the wires of a command
Wanted(want) ==
  LET n == want.number
      r == IF want.read THEN 1 ELSE 0
  IN  IF want.lowFirst THEN <<r, n % 2, (n \div 2) % 2, n \div 4, 0, 1, 1, 0>>
      ELSE <<0, 1, 1, 0, n \div 4, (n \div 2) % 2, n % 2, r>>

\* a bit is put on the wire with the clock high and taken when it falls
Clocked(c, sio, dd, hour) == rtcWrite(rtcWrite(c, Wires(1, 1, sio, dd), hour), Wires(1, 0, sio, dd), hour)

Select ==
  /\ game.doing = "nothing" /\ game.calls < MaxCalls
  /\ \E want \in Commands, value \in Values, hour \in Hours \cup {0} :
       /\ want.read => value = {}
       /\ hour = 0 <=> ~(want.read /\ want.number \in {2, 3})
       /\ game' = [game EXCEPT !.doing = "command", !.want = want, !.value = value, !.hour = hour, !.i = 1,
                               !.got = {}, !.calls = @ + 1, !.before = [rtc EXCEPT !.cmd = <<>>]]
       /\ rtc' = rtcWrite(rtcWrite(rtc, Wires(0, 1, 1, 1), hour), Wires(1, 1, 1, 1), hour)

Command ==
  /\ game.doing = "command"
  /\ rtc' = Clocked(rtc, Wanted(game.want)[game.i], 1, game.hour)
  /\ game' = IF game.i < 8 THEN [game EXCEPT !.i = @ + 1] ELSE [game EXCEPT !.i = 1, !.doing = "data"]

\* as many bits as the documentation gives the register
Length == AlarmSize([game.before EXCEPT !.number = game.want.number])[game.want.number + 1]
Data ==
  /\ game.doing = "data" /\ game.i <= Length
  /\ IF game.want.read
     THEN /\ rtc' = Clocked(rtc, 0, 0, game.hour)
          /\ game' = [game EXCEPT !.i = @ + 1, !.got = IF rtc'.REG = 1 THEN @ \cup {game.i - 1} ELSE @]
     ELSE /\ rtc' = Clocked(rtc, IF game.i - 1 \in game.value THEN 1 ELSE 0, 1, game.hour)
          /\ game' = [game EXCEPT !.i = @ + 1]

Deselected == rtcWrite(rtc, Wires(0, 1, 1, 1), game.hour)
Deselect ==
  /\ game.doing = "data" /\ game.i > Length
  /\ rtc' = Deselected
  /\ game' = [game EXCEPT !.doing = "told"]

Done ==
  /\ game.doing = "told"
  /\ game' = Idle(game.calls, game.whole)
  /\ UNCHANGED rtc

\* the game gives a transfer up
GiveUp ==
  /\ game.doing \in {"command", "data"}
  /\ game.doing = "data" => game.i <= Length
  /\ rtc' = Deselected
  /\ game' = Idle(game.calls, game.whole /\ rtc.cmdStat \notin {3, 4})

\* A reset starts the chip and the game anew.
MMU_Reset ==
  /\ game.doing # "nothing"
  /\ rtc' = rtcInit
  /\ game' = Idle(game.calls, TRUE)

RtcNext == Select \/ Command \/ Data \/ Deselect \/ Done \/ GiveUp \/ MMU_Reset

-----------------------------------------------------------------------------
\* Unless a transfer has been given up half way, the chip waits for a command whenever the
\* game has deselected it (rtcWrite, cmdStat).
InStep == game.whole /\ game.doing \in {"nothing", "told"} => rtc.cmdStat = 0

\* A game that has given nothing up reads what the register holds, in the order of its
\* bits, and writes what it means to, except that the bits the transfer before has left
\* in the buffer are set as well (rtc.data is never cleared for a write).
Holds(c, n) == CASE n = 0 -> c.regStatus1 [] n = 1 -> c.regStatus2 [] n = 6 -> c.regAdjustment
                 [] n = 7 -> c.regFree [] OTHER -> {}
TransfersTrue ==
  game.doing = "told" /\ game.whole =>
    LET n == game.want.number
    IN  /\ game.want.read =>
             /\ n \in {1, 6, 7} => game.got = Holds(game.before, n)
             /\ n = 0 => game.got = Holds(game.before, 0) \cap 0 .. 3
        /\ ~game.want.read /\ n \in {0, 1, 6, 7} => Holds(rtc, n) = game.value \cup First(game.before.data)
        /\ \A m \in {0, 1, 6, 7} \ {n} : Holds(rtc, m) = Holds(game.before, m)

\* From the hour byte the hour of the day can be told in the 24 hour mode; in the other
\* mode the half of the day is lost, as its bit is computed from the reduced hour.
HourTold ==
  game.doing = "told" /\ game.whole /\ game.want.read /\ game.want.number \in {2, 3} =>
    LET place == IF game.want.number = 2 THEN 4 ELSE 0
        byte == {b \in BitPlaces : 8 * place + b \in game.got}
        tens == (IF 4 \in byte THEN 1 ELSE 0) + (IF 5 \in byte THEN 2 ELSE 0)
        units == Cardinality(byte \cap {0}) + 2 * Cardinality(byte \cap {1}) + 4 * Cardinality(byte \cap {2}) + 8 * Cardinality(byte \cap {3})
        hour == 10 * tens + units
    IN  IF In24(game.before.regStatus1) THEN hour = game.hour /\ (6 \in byte) = (hour >= 12)
        ELSE hour = game.hour % 12 /\ 6 \notin byte

ClockTrue == InStep /\ TransfersTrue /\ HourTold
=============================================================================
