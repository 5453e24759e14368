----------------------------- MODULE DisplayFrames -----------------------------
(***************************************************************************)
(* Frames of the 2D engines, in two parts.  film: which frames are drawn   *)
(* (FrameSkipper): the main loop asks to skip, the decision is taken at    *)
(* the end of the vertical blank and works one frame earlier on the 3D     *)
(* picture than on the lines that show it.  screen: what the lines of      *)
(* engine A show and capture (GPU_RenderLine) while the game changes its   *)
(* registers between them: windows, a turned background, the display mode, *)
(* the FIFO of pictures, master brightness and the capture unit.  A line   *)
(* of pixels is a term that says what it shows.                            *)
(***************************************************************************)
EXTENDS Integers

CONSTANTS Skips,     \* FRAMESKIP: how many frames the main loop asks to skip between two drawn ones
          Grace,     \* the frames without a capture after which one counts as new (30 in the code)
          Patience,  \* the frames in which both screens are to be drawn (history is kept that long)
          Last,      \* the last line of a frame (191 in the code)
          MaxWrites, MaxFrames  \* bounds: writes of the game, and frames, in one behaviour

\* phase: where the frame is; nextSkip ... nonCaptures: the fields of FrameSkipper; counter, FRAMESKIP:
\* the main loop; offset: MainScreen.offset; val, enabled: of DISPCAPCNT; isSwapBuffers, drawPending.
\* History: forced (a frame drawn though its 3D picture was skipped), waited (a capture was asked for
\* when the decision about its frame fell, after how many others), lost (a capture whose frame was not
\* drawn), swaps (consecutive frames that swapped the screens), since (frames since each was drawn).
VARIABLE film

fresh(n) ==
  [phase |-> "lines", nextSkip |-> FALSE, skipped |-> FALSE, lastSkip |-> FALSE, lastOffset |-> 0, skip2D |-> FALSE,
   skip3D |-> FALSE, skipNext2D |-> FALSE, nonCaptures |-> 0, counter |-> 0, FRAMESKIP |-> n, offset |-> 0, val |-> FALSE,
   enabled |-> FALSE, isSwapBuffers |-> FALSE, drawPending |-> FALSE,
   forced |-> FALSE, waited |-> -1, lost |-> FALSE, swaps |-> 0, before |-> 192, swapped |-> FALSE, since |-> [o \in {0, 192} |-> 0]]
FilmInit == \E n \in Skips : film = fresh(n)

\* The game swaps the screens (POWCNT1), once a frame, asks for a capture or for the next lists: before
\* the lines are drawn or before the vertical blank ends, between which the order makes no difference.
WritePower ==
  /\ film.phase \in {"lines", "blank"} /\ ~film.swapped
  /\ film' = [film EXCEPT !.offset = 192 - @, !.swapped = TRUE]
AskCapture ==
  /\ film.phase \in {"lines", "blank"} /\ ~film.val
  /\ film' = [film EXCEPT !.val = TRUE]
SwapBuffers ==
  /\ film.phase = "lists" /\ ~film.isSwapBuffers
  /\ film' = [film EXCEPT !.isSwapBuffers = TRUE]

\* execHardware_hblank of lines 0 to 191: drawn or not, a capture that is asked for runs its course.
DrawLines ==
  /\ film.phase = "lines"
  /\ film' = [film EXCEPT
       !.phase = "lists", !.val = FALSE, !.enabled = FALSE, !.waited = -1,
       !.lost = film.val /\ film.skip2D /\ film.waited > Grace,
       !.forced = ~film.skip2D /\ film.drawPending,
       !.before = film.offset, !.swaps = IF film.offset = film.before THEN 0 ELSE IF @ < Patience THEN @ + 1 ELSE @,
       !.since = [o \in {0, 192} |-> IF o = film.offset /\ ~film.skip2D THEN 0 ELSE IF film.since[o] <= Patience THEN film.since[o] + 1 ELSE film.since[o]]]

\* gfx3d_VBlankSignal at line 191.
VBlankSignal ==
  /\ film.phase = "lists"
  /\ film' = [film EXCEPT !.phase = "blank", !.isSwapBuffers = FALSE, !.drawPending = @ \/ film.isSwapBuffers]

\* FrameSkipper::Advance.
AdvanceNever(f) ==
  LET capturing == f.enabled \/ f.val
  IN [f EXCEPT !.lastSkip = f.skipped, !.skipped = f.nextSkip, !.lastOffset = f.offset, !.nextSkip = FALSE,
               !.skip2D = f.skipNext2D, !.skip3D = f.nextSkip, !.skipNext2D = f.nextSkip,
               !.nonCaptures = IF capturing THEN 0 ELSE IF @ <= Grace THEN @ + 1 ELSE @]
AdvanceAtOnce(f) ==
  LET capturing == f.enabled \/ f.val
  IN [f EXCEPT !.lastSkip = f.skipped, !.skipped = f.nextSkip, !.lastOffset = f.offset, !.nextSkip = FALSE,
               !.skip2D = f.nextSkip, !.skip3D = f.nextSkip, !.skipNext2D = f.nextSkip,
               !.nonCaptures = IF capturing THEN 0 ELSE IF @ <= Grace THEN @ + 1 ELSE @]
Advance(f) ==
  LET capturing == f.enabled \/ f.val
      first == capturing /\ f.nonCaptures > Grace
      switch == f.lastOffset # f.offset /\ f.lastSkip /\ ~f.skipped
      next2D == IF first THEN FALSE ELSE f.skipNext2D
      next == IF first \/ switch THEN FALSE ELSE f.nextSkip
  IN [f EXCEPT !.nonCaptures = IF capturing THEN 0 ELSE IF @ <= Grace THEN @ + 1 ELSE @,
               !.lastOffset = f.offset, !.lastSkip = f.skipped, !.skipped = next, !.nextSkip = FALSE,
               !.skip2D = next2D, !.skip3D = next, !.skipNext2D = next]

\* execHardware_hstart of line 262: gfx3d_VBlankEndSignal, then the decision.
VBlankEndSignal(f) == IF f.drawPending /\ ~f.skip3D THEN [f EXCEPT !.drawPending = FALSE] ELSE f
VBlankEnd ==
  /\ film.phase = "blank"
  /\ film' = [Advance(VBlankEndSignal(film)) EXCEPT
       !.phase = "loop", !.forced = FALSE, !.waited = IF film.val THEN film.nonCaptures ELSE -1, !.swapped = FALSE]

\* MainCycle: of FRAMESKIP + 1 frames, all but one are asked to be skipped.
MainCycle ==
  /\ film.phase = "loop"
  /\ film' = IF film.counter = film.FRAMESKIP THEN [film EXCEPT !.phase = "lines", !.counter = 0]
             ELSE [film EXCEPT !.phase = "lines", !.counter = @ + 1, !.nextSkip = TRUE]

FilmNext == WritePower \/ AskCapture \/ SwapBuffers \/ DrawLines \/ VBlankSignal \/ VBlankEnd \/ MainCycle

--------------------------------------------------------------------------------
\* A frame is drawn with the 3D picture that belongs to it: one that is still to be rendered only if the
\* frame was saved for a capture.
PictureMatches == film.forced => film.nonCaptures = 0
\* The frame of a capture the game asked for in time, and that is the first one for a while, is drawn.
FirstCaptureDrawn == ~film.lost
\* A game that swaps its screens in every frame has both of them drawn.
ScreensTurn == film.swaps >= Patience => \A o \in {0, 192} : film.since[o] <= Patience
FilmTrue == PictureMatches /\ FirstCaptureDrawn /\ ScreensTurn
--------------------------------------------------------------------------------
\* line: the next one; skip: of this frame; mode: DISPCNT; bright: "none", "part" or "full" (factor 16
\* and more); winOn, winH: window 0; need, h_win: the row made of it; start, x: affineInfo and BGxX, in
\* steps of BGxPB; bgOn; val, enabled, src, capy, offset: of the capture; lcdc: its bank is mapped there;
\* vram: the lines of the bank; buf, head, tail: disp_fifo, a line of words at a time; out: the frame.
\* History: fresh (no write since the last line), since and whole (lines since the start was set, and
\* whether each was drawn), asked (a capture was asked for when the frame began), was (the bank when it
\* began), meant (what the capture should take of each line), steady (neither the capture nor the bank
\* was touched in the frame, nor did it take from the FIFO what the screen had taken before it), phase
\* (each line so far was sent its words and took them), writes, frame.
VARIABLE screen

Lines == 0 .. Last
ScreenInit ==
  screen = [line |-> 0, skip |-> FALSE, mode |-> 1, bright |-> "none", winOn |-> FALSE, winH |-> 0, need |-> TRUE, h_win |-> 0,
            start |-> 0, x |-> 0, bgOn |-> TRUE, val |-> FALSE, enabled |-> FALSE, src |-> "layers", capy |-> Last + 1,
            offset |-> 0, lcdc |-> TRUE, vram |-> [l \in Lines |-> <<"old", l>>], buf |-> [l \in Lines |-> <<"stale", l>>],
            head |-> 0, tail |-> 0, out |-> [l \in Lines |-> <<"black">>],
            fresh |-> FALSE, since |-> 0, whole |-> TRUE, asked |-> FALSE, was |-> [l \in Lines |-> <<"old", l>>],
            meant |-> [l \in Lines |-> <<"black">>], steady |-> TRUE, phase |-> TRUE, writes |-> 0, frame |-> 0]

\* A write of the game between two lines.
Written(s) == [s EXCEPT !.fresh = FALSE, !.writes = @ + 1]
Writes(next) == screen.line <= Last /\ screen.writes < MaxWrites /\ screen' = Written(next)

WriteMode == \E m \in 0 .. 3 : Writes([screen EXCEPT !.mode = m])
GPU_setMasterBrightness == \E b \in {"none", "part", "full"} : Writes([screen EXCEPT !.bright = b])
EnableWindow == Writes([screen EXCEPT !.winOn = ~@])
GPU_setWIN0_H == \E v \in {1, 2} : Writes([screen EXCEPT !.winH = v, !.need = TRUE])
EnableLayer == Writes([screen EXCEPT !.bgOn = ~@])
setAffineStart == Writes([screen EXCEPT !.start = 10, !.x = 10, !.since = 0, !.whole = TRUE])
MapBank == Writes([screen EXCEPT !.lcdc = ~@, !.steady = FALSE])
GPU_set_DISPCAPCNT ==
  \E s \in {"layers", "vram", "fifo"}, y \in {2, Last + 1}, o \in {0, 1} :
    Writes([screen EXCEPT !.val = TRUE, !.src = s, !.capy = y, !.offset = o, !.steady = screen.line = 0])

\* The words of a line are sent before it, or not.
Following(n) == IF n = Last THEN 0 ELSE n + 1
DISP_FIFOsend(s) ==
  [s EXCEPT !.buf[s.tail] = <<"word", s.frame, s.line>>, !.tail = Following(@), !.phase = @ /\ s.tail = s.line]
DISP_FIFOrecv(s) == [s EXCEPT !.head = Following(@)]

\* update_winh keeps the row for later while the window is off.
UpdateOnce(s) == IF s.need THEN [s EXCEPT !.need = FALSE, !.h_win = IF s.winOn THEN s.winH ELSE @] ELSE s
update_winh(s) == IF s.need /\ s.winOn THEN [s EXCEPT !.need = FALSE, !.h_win = s.winH] ELSE s
Layers(s) == <<"layers", IF s.winOn THEN s.h_win ELSE "all", IF s.bgOn THEN s.x ELSE "none">>
\* GPU_RenderLine_layer; lineRot and lineExtRot move the start on.
Advanced(s) == IF s.bgOn THEN [s EXCEPT !.x = @ + 1] ELSE [s EXCEPT !.whole = FALSE]

\* GPU_RenderLine_DispCapture: at line 0 what was asked for begins, after the last line it ends.
Enabled(s) == IF s.line = 0 /\ s.val THEN [s EXCEPT !.enabled = TRUE] ELSE s
CaptureTo(s) == (s.line + s.offset) % (Last + 1)
Source(s, layers) ==
  CASE s.src = "layers" -> layers
    [] s.src = "vram" -> IF s.lcdc THEN s.vram[s.line] ELSE <<"zero">>
    [] s.src = "fifo" -> s.buf[s.head]
Captured(s, layers, skip) ==
  IF skip \/ ~s.lcdc \/ s.line >= s.capy THEN s
  ELSE LET t == [s EXCEPT !.vram[CaptureTo(s)] = Source(s, layers)]
       IN IF s.src = "fifo" THEN DISP_FIFOrecv(t) ELSE t
Ended(s) == IF s.line = Last /\ s.enabled THEN [s EXCEPT !.enabled = FALSE, !.val = FALSE] ELSE s
DispCapture(s, layers, skip) ==
  LET e == Enabled(s) IN Ended(IF e.enabled THEN Captured(e, layers, skip) ELSE e)

\* The FIFO starts anew with every frame, drawn or not.
Drained(s) == IF s.line = Last THEN [s EXCEPT !.head = 0, !.tail = 0] ELSE s

\* What dispMode puts on the screen, and master brightness on top of it.
Tone(s, c) == CASE s.bright = "none" -> c [] s.bright = "part" -> <<"toned", c>> [] s.bright = "full" -> <<"plain">>
Shown(s, layers) ==
  CASE s.mode = 0 -> <<"white">> [] s.mode = 1 -> layers [] s.mode = 2 -> s.vram[s.line] [] s.mode = 3 -> s.buf[s.head]
Displayed(s, layers) ==
  LET t == [s EXCEPT !.out[s.line] = Tone(s, Shown(s, layers))] IN IF s.mode = 3 THEN DISP_FIFOrecv(t) ELSE t

\* Master brightness hides the line: nothing is done, unless it might be captured.
HiddenMore(s) == s.bright = "full" /\ ~(s.line = 0 \/ s.line = Last)
Hidden(s) == s.bright = "full" /\ ~(s.enabled \/ s.line = 0 \/ s.line = Last)

\* GPU_RenderLine of engine A: display first, so that what is captured over a line is shown later.
CaptureFirst(s) ==
  LET w == update_winh(s) IN Displayed(DispCapture(Advanced(w), Layers(w), FALSE), Layers(w))
DrawLine(s) ==
  LET w == update_winh(s) IN DispCapture(Displayed(Advanced(w), Layers(w)), Layers(w), FALSE)
RenderLine(s) ==
  CASE s.skip -> Drained(DispCapture(s, <<"black">>, TRUE))
    [] ~s.skip /\ Hidden(s) -> [s EXCEPT !.out[s.line] = <<"plain">>]
    [] OTHER -> Drained(DrawLine(s))
\* At line 0 the turned background goes back to its start.
refreshAffineStartRegs(s) == IF s.line = 0 THEN [s EXCEPT !.x = s.start] ELSE s

--------------------------------------------------------------------------------
\* What the registers ask for on this line: the layers of this line, whole or not.
Asked(s) == <<"layers", IF s.winOn THEN s.winH ELSE "all", IF s.bgOn THEN s.start + s.since ELSE "none">>
Took(s) == s.mode = 3 /\ ~s.skip /\ ~Hidden(s) /\ ~(s.val /\ s.src = "fifo") /\ s.tail = Following(s.line)
Line ==
  /\ screen.line <= Last
  /\ \E sends \in BOOLEAN :
     LET fed == IF sends THEN DISP_FIFOsend(screen) ELSE screen
         s == [refreshAffineStartRegs(fed) EXCEPT
                 !.since = IF screen.line = 0 THEN 0 ELSE @, !.whole = IF screen.line = 0 THEN TRUE ELSE @,
                 !.asked = IF screen.line = 0 THEN screen.val ELSE @, !.was = IF screen.line = 0 THEN screen.vram ELSE @]
         r == RenderLine([s EXCEPT !.phase = @ /\ Took(s)])
     IN screen' = [r EXCEPT !.line = @ + 1, !.fresh = TRUE, !.since = @ + 1,
                            !.whole = @ /\ (s.skip \/ ~Hidden(s)), !.steady = @ /\ ~(s.mode = 3 /\ s.src = "fifo"),
                            !.meant[s.line] = IF s.src = "layers" THEN (IF s.whole THEN Asked(s) ELSE Layers(update_winh(s)))
                                              ELSE IF s.src = "vram" THEN s.vram[s.line] ELSE Source(s, Asked(s))]

NextFrame ==
  /\ screen.line = Last + 1 /\ screen.frame < MaxFrames
  /\ \E skip \in BOOLEAN :
       screen' = [screen EXCEPT !.line = 0, !.skip = skip, !.fresh = FALSE, !.steady = TRUE, !.phase = TRUE, !.frame = @ + 1]

ScreenNext ==
  \/ WriteMode \/ GPU_setMasterBrightness \/ EnableWindow \/ GPU_setWIN0_H \/ EnableLayer \/ setAffineStart
  \/ MapBank \/ GPU_set_DISPCAPCNT \/ Line \/ NextFrame

\* The line just drawn shows what the registers say: the layers through the window as it is set now, with
\* the background turned about its start (unless a line since then was hidden or did not have it, as it
\* then stands still); the bank before it is captured over; the words sent for this line, if those of
\* each line before were sent and taken in turn in this frame, whatever earlier frames did.
LineShown(s, l) ==
  LET t == [s EXCEPT !.since = s.since - 1]
  IN (s.fresh /\ ~s.skip) =>
       CASE s.bright = "full" -> s.out[l] = <<"plain">>
         [] s.bright # "full" /\ s.mode = 0 -> s.out[l] = Tone(s, <<"white">>)
         [] s.bright # "full" /\ s.mode = 1 -> s.whole => s.out[l] = Tone(s, Asked(t))
         [] s.bright # "full" /\ s.mode = 2 -> (s.offset = 0 /\ s.steady) => s.out[l] = Tone(s, s.was[l])
         [] s.bright # "full" /\ s.mode = 3 -> s.phase => s.out[l] = Tone(s, <<"word", s.frame, l>>)

\* A capture that was asked for before the frame takes its lines and no others, and then is over, whether
\* the frame is dark or not; one that was not leaves the bank alone.
CaptureWhole(s) ==
  (s.line = Last + 1 /\ s.steady) =>
    /\ ~s.enabled /\ (s.asked => ~s.val)
    /\ \A l \in Lines :
         LET from == (l + Last + 1 - s.offset) % (Last + 1)
         IN s.vram[l] = IF s.asked /\ ~s.skip /\ s.lcdc /\ from < s.capy THEN s.meant[from] ELSE s.was[l]

ScreenTrue == (screen.line > 0 => LineShown(screen, screen.line - 1)) /\ CaptureWhole(screen)
================================================================================
