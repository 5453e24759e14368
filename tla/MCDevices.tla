----------------------------- MODULE MCDevices ------------------------------
(***************************************************************************)
(* The units that keep their state to themselves, each explored on its own *)
(* in one run: a behaviour chooses its unit at the start, and the others   *)
(* stay as they are.                                                       *)
(***************************************************************************)
EXTENDS MatrixStacks, PolygonLists, SoundChannel, GeometryCommands

VARIABLE unit  \* the unit this behaviour explores

-----------------------------------------------------------------------------
\* Sound: one word of ADPCM behind a loop start, a word of samples repeated from its start, a PSG
\* channel; the two mixers advance by different amounts.
Sound(f, l, o, i) == [format |-> f, length |-> l, loopstart |-> o, inc |-> i]
MCSounds == {Sound("adpcm", 1, 1, 5), Sound("pcm8", 0, 1, 5), Sound("psg", 0, 0, 5)}
MCCoreSamples == {3}
MCUserSamples == {2}

\* Geometry commands: words with and without parameters, undefined codes, commands that collect.
MCPackedWords == {<<"nop", "nop", "nop", "nop">>, <<"push", "load4x4", "identity", "mult4x3">>,
          <<"unused", "push", "nop", "end">>, <<"boxtest", "postest", "end", "push">>,
          <<"mult3x3", "unused", "load4x3", "swap">>, <<"shininess", "vertex16", "translate", "mult4x4">>}
MCPorts == {"load4x3", "push", "scale", "boxtest", "vectest"}
MCBeyond == {"nop", "push"}

\* Matrix stacks of three entries, and offsets that lead out of them on both sides.
MCOffsets == {-1, 0, 1, 2, 5}

-----------------------------------------------------------------------------
Init ==
  /\ MatricesInit /\ PolygonsInit /\ SoundInit /\ GeometryInit
  /\ unit \in {"sound", "commands", "matrices", "polygons"}

Next ==
  /\ UNCHANGED unit
  /\ \/ unit = "sound" /\ SoundNext /\ UNCHANGED <<geometryVars, matrixVars, polygonVars>>
     \/ unit = "commands" /\ GeometryNext /\ UNCHANGED <<soundVars, matrixVars, polygonVars>>
     \/ unit = "matrices" /\ MatricesNext /\ UNCHANGED <<soundVars, geometryVars, polygonVars>>
     \/ unit = "polygons" /\ PolygonsNext /\ UNCHANGED <<soundVars, geometryVars, matrixVars>>

vars == <<unit, soundVars, geometryVars, matrixVars, polygonVars>>
Spec == Init /\ [][Next]_vars

=============================================================================
