-------------------------------- MODULE ForkJoin --------------------------------
(***************************************************************************)
(* What the software rasterizer expects of its tasks: a frame is forked    *)
(* into bands, every band is drawn for this frame and no other, and the    *)
(* frame is joined only when all of its bands are drawn.                   *)
(***************************************************************************)
EXTENDS Naturals

CONSTANTS Band, MaxFrame

VARIABLES rendering, frame, drawn   \* drawn[b] is the last frame band b was drawn for

vars == <<rendering, frame, drawn>>

Init ==
  /\ rendering = FALSE
  /\ frame = 0
  /\ drawn = [b \in Band |-> 0]

Fork ==
  /\ ~rendering
  /\ frame < MaxFrame
  /\ rendering' = TRUE
  /\ frame' = frame + 1
  /\ UNCHANGED drawn

Draw(b) ==
  /\ rendering
  /\ drawn[b] # frame
  /\ drawn' = [drawn EXCEPT ![b] = frame]
  /\ UNCHANGED <<rendering, frame>>

Join ==
  /\ rendering
  /\ \A b \in Band : drawn[b] = frame
  /\ rendering' = FALSE
  /\ UNCHANGED <<frame, drawn>>

Next == Fork \/ Join \/ \E b \in Band : Draw(b)

Spec == Init /\ [][Next]_vars
================================================================================
