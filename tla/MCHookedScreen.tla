--------------------------- MODULE MCHookedScreen ---------------------------
(***************************************************************************)
(* HookedScreen on a square of four pixels, with operations that lie on    *)
(* it, across its edges and beside it, in a window that begins in its      *)
(* corner or one pixel off, and that is clipped or not.  What the          *)
(* operations come to on the square is worked out once (Drawings).         *)
(***************************************************************************)
EXTENDS HookedScreen, Hooks, TLC

CONSTANTS red, blue

Colors == {red, blue}
ColorSymmetry == Permutations(Colors)

Square == (0 .. 1) \X (0 .. 1)
SquareCanvas == Square \cup {<<2, 0>>}
SquareDelta == {<<1, 0>>, <<0, -1>>, <<-1, 1>>}

Column == {<<0, 0>>, <<0, 1>>}
MCClipLists == {Square, Column, {}}
MCAreas == {Square, Column, {<<0, 1>>, <<1, 1>>}, {<<1, 0>>}}

Origins == {<<0, 0>>, <<1, -1>>}
Clips == {Square, {<<0, 0>>, <<1, 1>>}}
Widths == 0 .. 3

\* One, two, and more than MaxRectsPerOp.
Several(S) == {<<a>> : a \in S} \cup {<<a, b>> : a, b \in S}
              \cup {<<a, b, b, b, b, b>> : a, b \in S}

\* Points from which lines go in eight directions, also off the screen.
Places == {<<0, 0>>, <<1, 1>>, <<2, 0>>, <<-1, 1>>}
Straight(p, q) == p[1] = q[1] \/ p[2] = q[2] \/ p[1] - q[1] \in {p[2] - q[2], q[2] - p[2]}
Polylines == {l \in Several(Places) \cup {<<a, b, c>> : a, b, c \in Places} :
                \A i \in 1 .. Len(l) - 1 : Straight(l[i], l[i + 1])}
             \cup {<<a, b, a, b, a, c, a>> : a, b, c \in {<<0, 0>>, <<1, 1>>, <<-1, 1>>}}
Segments == Several({<<p, q>> \in Places \X Places : Straight(p, q) /\ p # <<2, 0>>})

Rects == Several({Box(0, 0, 1, 1), Box(-1, 1, 2, 2), Box(1, 0, 1, 3), Box(3, 0, 2, 2),
                  Box(0, 0, 0, 1)})

Letter == [left |-> -1, right |-> 1, width |-> 1, ascent |-> 1, descent |-> 1]
Wide == [left |-> 0, right |-> 1, width |-> 2, ascent |-> 2, descent |-> 0]
Font == [chars |-> {Letter, Wide}, ascent |-> 1, descent |-> 0]
Texts == {<<Letter>>, <<Wide>>, <<Letter, Wide>>, <<Wide, Letter>>}

GlyphList == {<<[rect |-> Box(0, -1, 1, 1), advance |-> <<1, 1>>],
                [rect |-> Box(-1, 0, 2, 1), advance |-> <<1, 0>>]>>}

On(painted, reported) ==
  [painted |-> painted \cap Square, reported |-> reported \cap Square]

Wholes(r, o) == Pixels(Moved(r, o))

Scene(o, clip) ==
  {On(clip, SpansReported(clip, Square))}
  \cup {On(Wholes(l[1], o) \cap clip, PutImageReported(l[1], o, clip)) : l \in Rects}
  \cup {On(Wholes(l[1], o) \cap clip, CopyPlaneReported(l[1], o, clip)) : l \in Rects}
  \cup {On(Wholes(l[1], o) \cap clip, PushPixelsReported(l[1], o, clip)) : l \in Rects}
  \cup {On({Shift(l[i], o) : i \in DOMAIN l} \cap clip, PointsReported(l, o, clip)) : l \in Polylines}
  \cup {On(PolygonPainted(l, o, clip), PolygonReported(l, o, clip)) : l \in Polylines}
  \cup {On(LinesPainted(l, o, w, m, clip), LinesReported(l, o, w, m, clip)) :
          l \in Polylines, w \in Widths, m \in BOOLEAN}
  \cup {On(SegmentsPainted(l, o, w, clip), SegmentsReported(l, o, w, clip)) :
          l \in Segments, w \in Widths}
  \cup {On(OutlinesPainted(l, o, w, clip), OutlinesReported(l, o, w, clip)) :
          l \in Rects, w \in Widths}
  \cup {On(ArcsPainted(l, o, w, clip), ArcsReported(l, o, w, clip)) : l \in Rects, w \in Widths}
  \cup {On(ArcsPainted(l, o, w, clip), FilledArcsReported(l, o, w, clip)) :
          l \in Rects, w \in Widths}
  \cup {On(RectsToRegion({Moved(l[i], o) : i \in DOMAIN l}) \cap clip, FilledReported(l, o, clip)) :
          l \in Rects}
  \cup {On(TextPainted(p, t, Font, o, clip), TextReported(p, Len(t), Font, o, clip)) :
          p \in Places, t \in Texts}
  \cup {On(Wholes(l[1], o) \cap clip, CompositeReported(l[1], o, 2, 2)) : l \in Rects}
  \cup {On(Translate(RectsToRegion(GlyphRects(p, g)), o) \cap clip, GlyphsReported(p, g, o, 2, 2)) :
          p \in Places, g \in GlyphList}
  \cup {On(Cleared(p[1], p[2], w, w, Box(o[1], o[2], 2, 2)) \cap clip,
           ClearReported(p[1], p[2], w, w, Box(o[1], o[2], 2, 2), clip)) :
          p \in Places, w \in 0 .. 1}

MCDrawings == UNION {Scene(o, clip) : o \in Origins, clip \in Clips}
=============================================================================
