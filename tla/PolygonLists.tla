----------------------------- MODULE PolygonLists ------------------------------
(***************************************************************************)
(* The display lists of the geometry engine (gfx3d.cpp): SetVertex makes    *)
(* polygons of the vertices behind a BEGIN_VTXS, SWAP_BUFFERS hands the     *)
(* list over at the next VBlank, and the renderer draws it at the VBlank's  *)
(* end while the engine builds into the other one.                          *)
(*                                                                         *)
(* A vertex is a number, a new one each time; Height gives its y after the  *)
(* division by w.  The attributes of a polygon are whether it is            *)
(* translucent.  What is called "meant" is not in the code: the vertices a  *)
(* polygon has according to the sequence the game sent.                     *)
(***************************************************************************)
EXTENDS Integers, Sequences, FiniteSets

CONSTANTS POLYLIST_SIZE, VERTLIST_SIZE,
          IndexRange,      \* 65536: vertIndexes are u16, less than VERTLIST_SIZE
          Formats,         \* vtxFormats a game uses
          MaxVertices      \* bound: vertices a game sends

ASSUME PolygonsAssumption ==
  /\ POLYLIST_SIZE \in Nat \ {0} /\ VERTLIST_SIZE = 4 * POLYLIST_SIZE
  /\ IndexRange \in 1 .. VERTLIST_SIZE
  /\ Formats \subseteq 0 .. 3 /\ MaxVertices \in Nat

GL_TRIANGLES == 0
GL_QUADS == 1
GL_TRIANGLE_STRIP == 2
GL_QUAD_STRIP == 3

Lists == {0, 1}
NoVertex == 0
Height(v) == v % 3

VARIABLES
  vtxFormat, polyAttr, polyAttrPending, triStripToggle,
  temp,             \* tempVertInfo: map, of count entries, and first
  list,             \* polylists and vertlists: verts, count, polys; spoiled is not in the code
  listTwiddle,      \* the list that is built
  shown,            \* gfx3d.polylist and vertlist
  indexlist, isSwapBuffers, drawPending,
  flushCommand,     \* pending, active: the sort bit of SWAP_BUFFERS
  sent, clean, born \* since Begin: what the game sent, nothing cut it; vertices so far

building == <<vtxFormat, polyAttr, polyAttrPending, triStripToggle, temp>>
showing == <<listTwiddle, shown, indexlist, isSwapBuffers, drawPending, flushCommand>>
history == <<sent, clean, born>>
polygonVars == <<building, list, showing, history>>

EmptyList == [verts |-> [i \in 0 .. VERTLIST_SIZE - 1 |-> NoVertex], count |-> 0, polys |-> <<>>,
              spoiled |-> FALSE]

PolygonsInit ==
  /\ vtxFormat = 0 /\ polyAttr = FALSE /\ polyAttrPending = FALSE /\ triStripToggle = 0
  /\ temp = [map |-> <<>>, first |-> FALSE]
  /\ list = [l \in Lists |-> EmptyList]
  /\ listTwiddle = 0 /\ shown = 0
  /\ indexlist = <<>> /\ isSwapBuffers = FALSE /\ drawPending = FALSE
  /\ flushCommand = [pending |-> FALSE, active |-> FALSE]
  /\ sent = <<>> /\ clean = FALSE /\ born = 0

Polygon == [vertIndexes : [1 .. 3 -> 0 .. IndexRange - 1] \cup [1 .. 4 -> 0 .. IndexRange - 1],
            polyAttr : BOOLEAN, meant : Seq(Nat), clean : BOOLEAN]

PolygonsTypeOK ==
  /\ vtxFormat \in 0 .. 3 /\ triStripToggle \in {0, 1} /\ {polyAttr, polyAttrPending} \subseteq BOOLEAN
  /\ temp \in [map : Seq(Int), first : BOOLEAN] /\ Len(temp.map) <= 3
  /\ list \in [Lists -> [verts : [0 .. VERTLIST_SIZE - 1 -> Nat], count : 0 .. VERTLIST_SIZE,
                         polys : Seq(Polygon), spoiled : BOOLEAN]]
  /\ \A l \in Lists : Len(list[l].polys) <= POLYLIST_SIZE
  /\ listTwiddle \in Lists /\ shown \in Lists /\ indexlist \in Seq(Nat)
  /\ {isSwapBuffers, drawPending, clean} \subseteq BOOLEAN
  /\ flushCommand \in [pending : BOOLEAN, active : BOOLEAN]
  /\ sent \in Seq(Nat) /\ born \in 0 .. MaxVertices

built == list[listTwiddle]

-----------------------------------------------------------------------------
(* What the sequence of vertices means *)

Newest(n) == SubSeq(sent', Len(sent') - n + 1, Len(sent'))
Arranged(seq, order) == [i \in 1 .. Len(order) |-> seq[order[i]]]

\* the polygon that the last vertex completes, or none
Meant ==
  LET n == Len(sent') IN
  CASE vtxFormat = GL_TRIANGLES -> IF n % 3 = 0 THEN Newest(3) ELSE <<>>
    [] vtxFormat = GL_QUADS -> IF n % 4 = 0 THEN Newest(4) ELSE <<>>
    [] vtxFormat = GL_TRIANGLE_STRIP ->
         IF n < 3 THEN <<>> ELSE IF n % 2 = 1 THEN Newest(3) ELSE Arranged(Newest(3), <<2, 1, 3>>)
    [] OTHER -> \* GL_QUAD_STRIP
         IF n >= 4 /\ n % 2 = 0 THEN Arranged(Newest(4), <<1, 2, 4, 3>>) ELSE <<>>

-----------------------------------------------------------------------------
(* SetVertex *)

Strip == vtxFormat \in {GL_TRIANGLE_STRIP, GL_QUAD_STRIP}
Continuation == IF Strip /\ ~temp.first THEN 2 ELSE 0
Corners == IF vtxFormat \in {GL_TRIANGLES, GL_TRIANGLE_STRIP} THEN 3 ELSE 4

\* "refuse to do anything if we have too many verts or polys"
Refused == built.count >= VERTLIST_SIZE \/ Len(built.polys) >= POLYLIST_SIZE

Count == Len(temp.map)
VertIndex == built.count + Count - Continuation

\* a strip goes on although its last two vertices were given up by an End
Overlaps == Count < Continuation

Completed(map) ==
  [vertIndexes |-> [i \in 1 .. Corners |->
                      map[IF vtxFormat = GL_QUAD_STRIP THEN <<1, 2, 4, 3>>[i] ELSE i] % IndexRange],
   polyAttr |-> polyAttr, meant |-> Meant, clean |-> clean /\ Meant # <<>>]

\* mutant: the toggle does not say which corner is replaced
KeptSameCorner(map) ==
  LET at == built.count - Continuation IN
  CASE vtxFormat = GL_TRIANGLE_STRIP -> <<at + 2, map[2]>>
    [] vtxFormat = GL_QUAD_STRIP -> <<at + 2, at + 3>>
    [] OTHER -> <<>>

\* which vertices a strip keeps for its next polygon
Kept(map) ==
  LET at == built.count - Continuation IN
  CASE vtxFormat = GL_TRIANGLE_STRIP ->
         IF triStripToggle = 1 THEN <<map[1], at + 2>> ELSE <<at + 2, map[2]>>
    [] vtxFormat = GL_QUAD_STRIP -> <<at + 2, at + 3>>
    [] OTHER -> <<>>

\* the list with a vertex more, and n vertices and the polygons of a sequence counted
Extended(v, n, polygons) ==
  [verts |-> [i \in 0 .. VERTLIST_SIZE - 1 |-> IF i = VertIndex THEN v ELSE built.verts[i]],
   count |-> built.count + n, polys |-> built.polys \o polygons, spoiled |-> built.spoiled \/ Overlaps]

SetVertex ==
  /\ ~isSwapBuffers /\ born < MaxVertices
  /\ born' = born + 1
  /\ IF Refused
     THEN /\ clean' = FALSE /\ UNCHANGED <<sent, list, temp, triStripToggle>>
     ELSE /\ sent' = Append(sent, born')
          /\ clean' = (clean /\ ~Overlaps)
          /\ LET map == Append(temp.map, VertIndex) IN
             IF Len(map) # Corners
             THEN /\ list' = [list EXCEPT ![listTwiddle] = Extended(born', 0, <<>>)]
                  /\ temp' = [map |-> map, first |-> temp.first]
                  /\ UNCHANGED triStripToggle
             ELSE /\ list' = [list EXCEPT ![listTwiddle] =
                                Extended(born', Corners - Continuation, <<Completed(map)>>)]
                  /\ temp' = [map |-> Kept(map), first |-> temp.first /\ ~Strip]
                  /\ triStripToggle' = IF vtxFormat = GL_TRIANGLE_STRIP THEN 1 - triStripToggle
                                       ELSE triStripToggle
  /\ UNCHANGED <<vtxFormat, polyAttr, polyAttrPending, showing>>

\* mutant: the vertices of an unfinished polygon are kept
gfx3d_glBeginKeepsCount ==
  \E format \in Formats :
    /\ ~isSwapBuffers
    /\ vtxFormat' = format /\ polyAttr' = polyAttrPending /\ triStripToggle' = 0
    /\ temp' = [map |-> temp.map, first |-> TRUE]
    /\ sent' = <<>> /\ clean' = TRUE
    /\ UNCHANGED <<polyAttrPending, list, showing, born>>

gfx3d_glBegin ==
  \E format \in Formats :
    /\ ~isSwapBuffers
    /\ vtxFormat' = format /\ polyAttr' = polyAttrPending /\ triStripToggle' = 0
    /\ temp' = [map |-> <<>>, first |-> TRUE]
    /\ sent' = <<>> /\ clean' = TRUE
    /\ UNCHANGED <<polyAttrPending, list, showing, born>>

\* a sequence that goes on behind its End is no longer what the game sent before it
gfx3d_glEnd ==
  /\ ~isSwapBuffers
  /\ temp' = [map |-> <<>>, first |-> temp.first]
  /\ sent' = <<>>
  /\ clean' = (clean /\ (sent = <<>> \/ ~Strip))
  /\ UNCHANGED <<vtxFormat, polyAttr, polyAttrPending, triStripToggle, list, showing, born>>

gfx3d_glPolygonAttrib ==
  /\ ~isSwapBuffers
  /\ polyAttrPending' = ~polyAttrPending
  /\ UNCHANGED <<vtxFormat, polyAttr, triStripToggle, temp, list, showing, history>>

-----------------------------------------------------------------------------
(* Swapping the lists *)

\* gfx3d_glFlush
gfx3d_glFlush ==
  \E manual \in BOOLEAN :
    /\ ~isSwapBuffers
    /\ isSwapBuffers' = TRUE /\ flushCommand' = [pending |-> manual, active |-> flushCommand.active]
    /\ UNCHANGED <<building, list, listTwiddle, shown, indexlist, drawPending, history>>

Heights(p) == {Height(built.verts[p.vertIndexes[i]]) : i \in DOMAIN p.vertIndexes}
MinOf(S) == CHOOSE x \in S : \A y \in S : x <= y
MaxOf(S) == CHOOSE x \in S : \A y \in S : x >= y

\* gfx3d_ysort_compare
ysort_compare(num1, num2) ==
  LET a == Heights(built.polys[num1])
      b == Heights(built.polys[num2])
  IN \/ MaxOf(a) < MaxOf(b)
     \/ MaxOf(a) = MaxOf(b) /\ MinOf(a) < MinOf(b)
     \/ MaxOf(a) = MaxOf(b) /\ MinOf(a) = MinOf(b) /\ num1 < num2

Opaque(i) == ~built.polys[i].polyAttr
Translucent(i) == built.polys[i].polyAttr

\* mutant: everything by y
DrawnBeforeAlike(i, j) ==
  IF flushCommand.active THEN (Opaque(i) /\ Translucent(j)) \/ (Opaque(i) = Opaque(j) /\ i < j)
  ELSE ysort_compare(i, j)

\* mutant: with the bit of the command that ends the list
DrawnBeforeByPending(i, j) ==
  \/ Opaque(i) /\ Translucent(j)
  \/ Opaque(i) /\ Opaque(j) /\ ysort_compare(i, j)
  \/ Translucent(i) /\ Translucent(j) /\ IF flushCommand.pending THEN i < j ELSE ysort_compare(i, j)

\* opaque polygons by y; translucent ones last, by y unless the game sorts them itself
DrawnBefore(i, j) ==
  \/ Opaque(i) /\ Translucent(j)
  \/ Opaque(i) /\ Opaque(j) /\ ysort_compare(i, j)
  \/ Translucent(i) /\ Translucent(j) /\ IF flushCommand.active THEN i < j ELSE ysort_compare(i, j)

\* the order of std::sort: as many polygons are before one as come before it
Rank(i) == Cardinality({j \in 1 .. Len(built.polys) : DrawnBefore(j, i)})
Sorted == [k \in 1 .. Len(built.polys) |-> CHOOSE i \in 1 .. Len(built.polys) : Rank(i) = k - 1]

\* gfx3d_doFlush and twiddleLists.  The vertices of the new list stay as they were; they are
\* left out: only an unclean polygon could refer to them.
doFlush ==
  /\ shown' = listTwiddle
  /\ listTwiddle' = 1 - listTwiddle
  /\ indexlist' = Sorted
  /\ flushCommand' = [pending |-> flushCommand.pending, active |-> flushCommand.pending]
  /\ list' = [list EXCEPT ![1 - listTwiddle] = EmptyList]
  /\ drawPending' = TRUE

\* a strip that goes on behind a swap refers to vertices of the other list
gfx3d_VBlankSignal ==
  /\ isSwapBuffers /\ isSwapBuffers' = FALSE
  /\ doFlush
  /\ clean' = (clean /\ Count = 0)
  /\ UNCHANGED <<building, sent, born>>

\* unless the frame is skipped.  A list that was drawn is not looked at again; its contents are
\* left out from here on.
gfx3d_VBlankEndSignal ==
  /\ drawPending /\ drawPending' = FALSE
  /\ list' = [list EXCEPT ![shown] = EmptyList] /\ indexlist' = <<>>
  /\ UNCHANGED <<building, listTwiddle, shown, isSwapBuffers, flushCommand, history>>

\* gfx3d_savestate and gfx3d_loadstate after a reset: the vertices of an unfinished polygon are
\* not counted yet and are lost, and so is the list that was to be drawn
gfx3d_loadstate ==
  /\ listTwiddle' = 0 /\ shown' = 1
  /\ list' = [l \in Lists |->
               IF l = 1 THEN EmptyList
               ELSE [verts |-> [i \in 0 .. VERTLIST_SIZE - 1 |->
                                  IF i < built.count THEN built.verts[i] ELSE NoVertex],
                     count |-> built.count, polys |-> built.polys, spoiled |-> built.spoiled]]
  /\ clean' = (clean /\ Count = Continuation)
  /\ UNCHANGED <<building, indexlist, isSwapBuffers, drawPending, flushCommand, sent, born>>

PolygonsNext ==
  \/ SetVertex
  \/ gfx3d_glBegin
  \/ gfx3d_glEnd
  \/ gfx3d_glPolygonAttrib
  \/ gfx3d_glFlush
  \/ gfx3d_VBlankSignal
  \/ gfx3d_VBlankEndSignal
  \/ gfx3d_loadstate

PolygonsSpec == PolygonsInit /\ [][PolygonsNext]_polygonVars

-----------------------------------------------------------------------------
(* Properties *)

Faithful(l, p) ==
  [i \in DOMAIN p.vertIndexes |-> list[l].verts[p.vertIndexes[i]]] = p.meant

\* In every list, the vertices of a polygon are those the game's sequence means, until the list
\* has more vertices than a u16 can number: strips share them across polygons, and what comes
\* later never overwrites them.
VerticesMatch ==
  \A l \in Lists : ~list[l].spoiled /\ list[l].count <= IndexRange =>
    \A k \in 1 .. Len(list[l].polys) :
      list[l].polys[k].clean => Faithful(l, list[l].polys[k])

\* No vertex of a sequence is written outside of its list ("wtf"), unless a strip goes on
\* behind its End: four vertices for each polygon are enough (VERTLIST_SIZE is four times
\* POLYLIST_SIZE), although only the vertices up to the last complete polygon are counted.
WritesInList ==
  ~Refused /\ ~Overlaps => VertIndex \in 0 .. 4 * (Len(built.polys) + 1) - 1

\* What is about to be drawn is not being built, and is drawn completely, each polygon once,
\* translucent ones last.
DrawnOnce ==
  LET polys == list[shown].polys IN
  drawPending =>
    /\ shown # listTwiddle
    /\ {indexlist[i] : i \in 1 .. Len(polys)} = 1 .. Len(polys)
    /\ \A i, j \in 1 .. Len(polys) :
         polys[indexlist[i]].polyAttr /\ ~polys[indexlist[j]].polyAttr => j < i

\* Of every step: a list whose building began with a SWAP_BUFFERS for manual sorting keeps the
\* order of its translucent polygons.
ManualOrderKept ==
  gfx3d_VBlankSignal /\ flushCommand.active =>
    \A i, j \in 1 .. Len(indexlist') :
      LET polys == list[shown'].polys IN
      i < j /\ polys[indexlist'[i]].polyAttr /\ polys[indexlist'[j]].polyAttr
        => indexlist'[i] < indexlist'[j]

\* The lists are complete when they are drawn: the three above, of which each one alone is about a
\* part of SetVertex, of doFlush or of the swap.
ListsComplete == PolygonsTypeOK /\ VerticesMatch /\ WritesInList /\ DrawnOnce

\* Of every step: no swap reorders what the game sorted itself.
ManualOrderStays == [][ManualOrderKept]_polygonVars
=============================================================================
