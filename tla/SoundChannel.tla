----------------------------- MODULE SoundChannel -----------------------------
(***************************************************************************)
(* A channel of the sound unit, as each of the two mixers runs it (SPU.cpp).*)
(* SPU_core is advanced with the lines of the screen and only tells the     *)
(* game when a sound is over; SPU_user is advanced whenever the speakers    *)
(* have room and fetches what is heard.  Every register write goes to both. *)
(*                                                                         *)
(* Positions are counted in halves of a sample.  What the ADPCM decoder     *)
(* holds is named by the sample it has decoded up to.                       *)
(***************************************************************************)
EXTENDS Integers

CONSTANTS Sounds,        \* what a game plays: format, length and loopstart in words, and
                         \* inc (sampinc), halves of a sample per output sample
          CoreSamples,   \* spu_core_samples of a line
          UserSamples,   \* audiosize: what the speakers have room for
          MaxPsg         \* bound: where the position of a PSG channel stays

Mixers == {"core", "user"}
STOPPED == "stopped"
PLAY == "play"

VARIABLES
  reg,      \* the registers of the channel, alike in both mixers, and masteren
  chan      \* by mixer: channel_struct

soundVars == <<reg, chan>>

SoundFormats == {"pcm8", "pcm16", "adpcm", "psg"}
ASSUME SoundsAssumption ==
  /\ Sounds \subseteq [format : SoundFormats, length : Nat, loopstart : Nat, inc : Nat]
  /\ CoreSamples \subseteq Nat /\ UserSamples \subseteq Nat /\ MaxPsg \in Nat

\* format_shift
PerWord(format) == [pcm8 |-> 4, pcm16 |-> 2, adpcm |-> 8, psg |-> 1][format]
Halves(words, format) == 2 * words * PerWord(format)

RECOVERY == -1          \* K_ADPCM_LOOPING_RECOVERY_INDEX
Garbled == -2           \* a decoder that has skipped samples or decoded them twice
Header == 7             \* the decoder as the header sets it: sample 8 comes next

\* touched records that the game wrote the format, loop or length of a playing channel, and
\* oversnagged that the loop was remembered twice; the code has neither
Silent == [status |-> STOPPED, total |-> 0, sampcnt |-> 0, last |-> 0, pcm |-> 0,
           loop |-> 0, touched |-> FALSE, oversnagged |-> FALSE, spins |-> FALSE]

SilentRegisters == [format |-> "pcm8", repeat |-> FALSE, keyon |-> FALSE, length |-> 0, loopstart |-> 0,
                    inc |-> 1, masteren |-> FALSE]

SoundInit ==
  /\ reg = SilentRegisters
  /\ chan = [s \in Mixers |-> Silent]

-----------------------------------------------------------------------------
(* Keys *)

\* what the decoder of a stopped channel still holds is left out: only a sound that is turned
\* into ADPCM while it plays could use it
KeyOff(c) == Silent

\* mutant: the length alone
KeyOnShort(c, r) ==
  LET total == Halves(r.length, r.format)
      started == [c EXCEPT !.status = PLAY,
                           !.total = total, !.sampcnt = IF r.format = "psg" THEN -2 ELSE -6,
                           !.touched = FALSE, !.oversnagged = FALSE]
  IN IF total = 0 /\ r.format # "psg" THEN KeyOff(c)
     ELSE IF r.format = "adpcm"
     THEN [started EXCEPT !.pcm = Header, !.last = Header, !.loop = RECOVERY]
     ELSE started

\* mutant: the remembered loop of the last sound is kept
KeyOnStale(c, r) ==
  LET total == Halves(r.length + r.loopstart, r.format)
      started == [c EXCEPT !.status = PLAY,
                           !.total = total, !.sampcnt = IF r.format = "psg" THEN -2 ELSE -6,
                           !.touched = FALSE, !.oversnagged = FALSE]
  IN IF total = 0 /\ r.format # "psg" THEN KeyOff(c)
     ELSE IF r.format = "adpcm" THEN [started EXCEPT !.pcm = Header, !.last = Header] ELSE started

KeyOn(c, r) ==
  LET total == Halves(r.length + r.loopstart, r.format)
      started == [c EXCEPT !.status = PLAY,
                           !.total = total, !.sampcnt = IF r.format = "psg" THEN -2 ELSE -6,
                           !.touched = FALSE, !.oversnagged = FALSE]
  IN IF total = 0 /\ r.format # "psg" THEN KeyOff(c)
     ELSE IF r.format = "adpcm"
     THEN [started EXCEPT !.pcm = Header, !.last = Header, !.loop = RECOVERY]
     ELSE started

KeyProbe(c, r) ==
  IF c.status = STOPPED /\ r.keyon /\ r.masteren THEN KeyOn(c, r)
  ELSE IF c.status = PLAY /\ ~(r.keyon /\ r.masteren) THEN KeyOff(c)
  ELSE c

-----------------------------------------------------------------------------
(* Register writes, each to both mixers *)

Touch(c) ==
  IF c.status = PLAY THEN [c EXCEPT !.touched = TRUE, !.pcm = Garbled] ELSE c

Disturbs(sound) ==
  sound.format # reg.format \/ sound.loopstart # reg.loopstart \/ sound.length # reg.length

\* the registers of a sound, its control register last: only that one probes the key
WriteSound ==
  \E sound \in Sounds, repeat, keyon \in BOOLEAN :
    /\ reg' = [format |-> sound.format, length |-> sound.length, loopstart |-> sound.loopstart,
               inc |-> sound.inc, repeat |-> repeat, keyon |-> keyon, masteren |-> reg.masteren]
    /\ chan' = [s \in Mixers |-> KeyProbe(IF Disturbs(sound) THEN Touch(chan[s]) ELSE chan[s], reg')]

\* the control register alone
WriteCnt ==
  \E repeat, keyon \in BOOLEAN :
    /\ reg' = [reg EXCEPT !.repeat = repeat, !.keyon = keyon]
    /\ chan' = [s \in Mixers |-> KeyProbe(chan[s], reg')]

WriteMaster ==
  \E on \in BOOLEAN :
    /\ reg' = [reg EXCEPT !.masteren = on]
    /\ chan' = [s \in Mixers |-> KeyProbe(chan[s], reg')]

-----------------------------------------------------------------------------
(* A sample *)

Trunc(position) == position \div 2

\* FetchADPCMData: from the sample after the last one that was decoded
FetchADPCM(c, r) ==
  LET now == Trunc(c.sampcnt)
      decoded == IF c.pcm = c.last THEN now ELSE Garbled
      at == 8 * r.loopstart
      snags == at \in c.last + 1 .. now
  IN IF c.sampcnt < 16 \/ c.last = now THEN c
     ELSE [c EXCEPT !.pcm = IF now > c.last THEN decoded ELSE @,
                    !.last = now,
                    !.loop = IF ~snags THEN @ ELSE IF c.pcm = c.last THEN at ELSE Garbled,
                    !.oversnagged = @ \/ (snags /\ c.loop # RECOVERY)]

\* the part that repeats
Loop(c, r) == c.total - Halves(r.loopstart, r.format)

\* the loop subtracts the part that repeats until the position is inside: if there is no
\* such part it never ends
Looped(c, r) ==
  LET part == Loop(c, r)
      rest == (c.sampcnt - c.total - 1) % part
  IN IF part <= 0 THEN [c EXCEPT !.spins = TRUE]
     ELSE [c EXCEPT !.sampcnt = c.total - part + 1 + rest]

\* mutant: always from where the loop starts
RewoundToStart(c, r) == [c EXCEPT !.last = 8 * r.loopstart]

Rewound(c, r) ==
  IF c.loop = RECOVERY THEN [c EXCEPT !.pcm = Header, !.last = Header]
  ELSE [c EXCEPT !.pcm = c.loop, !.last = 8 * r.loopstart]

\* mutant: a sound that repeats ends, too
TestForLoopOnce(c, r) ==
  LET next == [c EXCEPT !.sampcnt = @ + r.inc]
      looped == Looped(next, r)
  IN IF r.format = "psg"
     THEN [next EXCEPT !.sampcnt = IF @ > MaxPsg THEN MaxPsg ELSE @]
     ELSE IF next.sampcnt > next.total + 2
     THEN IF ~r.repeat THEN KeyOff(next)
          ELSE IF looped.spins \/ r.format # "adpcm" THEN looped ELSE Rewound(looped, r)
     ELSE next

\* TestForLoop and TestForLoop2
TestForLoop(c, r) ==
  LET next == [c EXCEPT !.sampcnt = @ + r.inc]
      looped == Looped(next, r)
  IN IF r.format = "psg"
     THEN [next EXCEPT !.sampcnt = IF @ > MaxPsg THEN MaxPsg ELSE @]
     ELSE IF next.sampcnt > next.total
     THEN IF ~r.repeat THEN KeyOff(next)
          ELSE IF looped.spins \/ r.format # "adpcm" THEN looped ELSE Rewound(looped, r)
     ELSE next

\* the core does not mix: driver records nothing and the modes are not synchronous
ChanUpdate(s, c, r) ==
  IF c.status = STOPPED \/ c.spins THEN c
  ELSE TestForLoop(IF s = "user" /\ r.format = "adpcm" THEN FetchADPCM(c, r) ELSE c, r)

\* SPU_MixAudio of n samples
MixAudio(s, n) ==
  LET after[i \in 0 .. n] == IF i = 0 THEN chan[s] ELSE ChanUpdate(s, after[i - 1], reg) IN
  /\ chan[s].status = PLAY /\ reg.masteren
  /\ \A m \in Mixers : ~chan[m].spins
  /\ chan' = [chan EXCEPT ![s] = after[n]]
  /\ UNCHANGED reg

SPU_Emulate_core == \E n \in CoreSamples : MixAudio("core", n)
SPU_Emulate_user == \E n \in UserSamples : MixAudio("user", n)

-----------------------------------------------------------------------------
(* spu_savestate, then spu_loadstate: later or at once makes no difference *)

\* sizes are computed again from the registers as they are now
Resumed(c, r) == [c EXCEPT !.total = Halves(r.length + r.loopstart, r.format), !.loop = RECOVERY]

spu_loadstate ==
  /\ \A m \in Mixers : ~chan[m].spins
  /\ chan' = [s \in Mixers |-> Resumed(chan["core"], reg)]
  /\ UNCHANGED reg

\* SPU_Reset; an emulator that hangs is started again
SPU_Reset ==
  /\ reg' = SilentRegisters
  /\ chan' = [s \in Mixers |-> Silent]

Writes == WriteSound \/ WriteCnt \/ WriteMaster

SoundNext ==
  \/ (\A m \in Mixers : ~chan[m].spins) /\ Writes
  \/ SPU_Emulate_core
  \/ SPU_Emulate_user
  \/ spu_loadstate
  \/ SPU_Reset

SoundSpec == SoundInit /\ [][SoundNext]_soundVars

-----------------------------------------------------------------------------
(* Properties *)

Undisturbed(s) == chan[s].status = PLAY /\ ~chan[s].touched /\ ~chan[s].spins

\* What is heard of an ADPCM sound is the decoding of all samples up to the current one.
DecodedInOrder ==
  \A s \in Mixers : Undisturbed(s) /\ reg.format = "adpcm" => chan[s].pcm = chan[s].last

\* "over-snagging": the place where the loop starts is passed once.
SnagsOnce == \A s \in Mixers : Undisturbed(s) => ~chan[s].oversnagged

\* The sample that is fetched lies in the sound, or directly behind its last one.
StaysInSound ==
  \A s \in Mixers : Undisturbed(s) /\ reg.format # "psg" => chan[s].sampcnt <= chan[s].total

\* The emulator hangs only in a sound that repeats and whose part to repeat is empty.
HangsOnlyWithoutLoop ==
  \A s \in Mixers : chan[s].spins /\ ~chan[s].touched => reg.length = 0

\* What is heard of an ADPCM sound is decoded from all samples up to it, also after a loop
\* and a savestate; the loop start is remembered once a round; samples come from the sound
\* or directly behind it; and the mixer hangs only on an empty loop (SPU.cpp).
SoundRight == DecodedInOrder /\ SnagsOnce /\ StaysInSound /\ HangsOnlyWithoutLoop
=============================================================================
