------------------------------- MODULE Hooks -------------------------------
(***************************************************************************)
(* vncHooks.c: the X server's drawing operations, wrapped.  For each there *)
(* is what the hook reports as changed, before or after it calls the       *)
(* operation itself, and what the operation paints, which is external: as  *)
(* much as the X protocol lets it paint.                                   *)
(*                                                                         *)
(* A drawing has a clip region, the graphics context's composite clip or   *)
(* the window's clip list.  Points come with the drawable's origin o, and  *)
(* not relative to each other (CoordModePrevious).                         *)
(***************************************************************************)
EXTENDS Region, Sequences

LOCAL INSTANCE FiniteSetsExt
LOCAL INSTANCE SequencesExt

\* MAX_RECTS_PER_OP
MaxRectsPerOp == 5

Box(x, y, w, h) == [x1 |-> x, y1 |-> y, x2 |-> x + w, y2 |-> y + h]

Moved(r, d) == Box(r.x1 + d[1], r.y1 + d[2], r.x2 - r.x1, r.y2 - r.y1)

\* Mutant: the last column and row are left out.
Around_Exclusive(p, q, extra) ==
  [x1 |-> Min({p[1], q[1]}) - extra, y1 |-> Min({p[2], q[2]}) - extra,
   x2 |-> Max({p[1], q[1]}) + extra, y2 |-> Max({p[2], q[2]}) + extra]

\* The rectangle around a line, and extra pixels more on each side.
Around(p, q, extra) ==
  [x1 |-> Min({p[1], q[1]}) - extra, y1 |-> Min({p[2], q[2]}) - extra,
   x2 |-> Max({p[1], q[1]}) + extra + 1, y2 |-> Max({p[2], q[2]}) + extra + 1]

\* The rectangle around rects and the point that minX, minY, maxX and maxY start with.
Hull(rects, start) ==
  [x1 |-> Min({r.x1 : r \in rects} \cup {start[1]}),
   y1 |-> Min({r.y1 : r \in rects} \cup {start[2]}),
   x2 |-> Max({r.x2 : r \in rects} \cup {start[1]}),
   y2 |-> Max({r.y2 : r \in rects} \cup {start[2]})]

RectsToRegion(rects) == UNION {Pixels(r) : r \in rects}

\* One rectangle for each, or one for all of them.
Covered(rects, start) ==
  LET all == {rects[i] : i \in DOMAIN rects}
  IN IF Len(rects) > MaxRectsPerOp THEN Pixels(Hull(all, start)) ELSE RectsToRegion(all)

\* A line width of 0 is a line of one pixel.
Thick(width) == Max({width, 1})
-----------------------------------------------------------------------------
(***************************************************************************)
(* What the hooks report                                                   *)
(***************************************************************************)
\* FillSpans, SetSpans: all that can be seen of the window.
SpansReported(clip, borderClip) == clip \cap borderClip

\* PutImage, and CopyPlane and PushPixels likewise.
PutImageReported(r, o, clip) == Pixels(Moved(r, o)) \cap clip

CopyPlaneReported(r, o, clip) == PutImageReported(r, o, clip)

PushPixelsReported(r, o, clip) == PutImageReported(r, o, clip)

\* PolyPoint: the rectangle around the points.
PointsReported(pts, o, clip) ==
  LET at == {Shift(pts[i], o) : i \in DOMAIN pts}
  IN Pixels(Hull({Box(p[1], p[2], 1, 1) : p \in at}, Shift(pts[1], o))) \cap clip

\* FillPolygon: the rectangle around its corners.
PolygonReported(pts, o, clip) == PointsReported(pts, o, clip)

\* Polylines.  A mitred join of lines at 11 degrees reaches nearly six times the
\* line width beyond its point.
LinesReported(pts, o, width, miter, clip) ==
  LET lw == Thick(width)
      extra == IF miter THEN 6 * lw ELSE lw \div 2
      at(i) == Shift(pts[i], o)
      lines == [i \in 1 .. Len(pts) - 1 |-> Around(at(i), at(i + 1), extra)]
      dot == Box(at(1)[1] - lw, at(1)[2] - lw, 2 * lw, 2 * lw)
  IN (IF Len(pts) = 1 THEN Pixels(dot) ELSE Covered(lines, at(1))) \cap clip

\* PolySegment.  Here and below the bounding box starts with a point that has not
\* been moved to where the window is.
SegmentsReported(segs, o, width, clip) ==
  LET lines == [i \in DOMAIN segs |->
                  Around(Shift(segs[i][1], o), Shift(segs[i][2], o), width \div 2)]
  IN Covered(lines, segs[1][1]) \cap clip

\* The sides of an outline.
Sides(r, extra) ==
  {Around(<<r.x1, r.y1>>, <<r.x2, r.y1>>, extra), Around(<<r.x1, r.y1>>, <<r.x1, r.y2>>, extra),
   Around(<<r.x2, r.y1>>, <<r.x2, r.y2>>, extra), Around(<<r.x1, r.y2>>, <<r.x2, r.y2>>, extra)}

\* PolyRectangle: four rectangles for each, or one for all of them.
OutlinesReported(rects, o, width, clip) ==
  LET extra == width \div 2
      at(i) == Moved(rects[i], o)
      whole(r) == Around(<<r.x1, r.y1>>, <<r.x2, r.y2>>, extra)
  IN (IF Len(rects) > MaxRectsPerOp
      THEN Pixels(Hull({whole(at(i)) : i \in DOMAIN rects}, <<rects[1].x1, rects[1].y1>>))
      ELSE RectsToRegion(UNION {Sides(at(i), extra) : i \in DOMAIN rects})) \cap clip

\* PolyArc: an arc is given by the rectangle around its ellipse.
ArcsReported(arcs, o, width, clip) ==
  LET lw == Thick(width)
      many == Len(arcs) > MaxRectsPerOp
      around(r) == [x1 |-> r.x1 - lw \div 2, y1 |-> r.y1 - lw \div 2,
                    x2 |-> r.x2 + lw - (IF many THEN 0 ELSE lw \div 2),
                    y2 |-> r.y2 + lw - (IF many THEN 0 ELSE lw \div 2)]
  IN Covered([i \in DOMAIN arcs |-> around(Moved(arcs[i], o))],
             <<arcs[1].x1, arcs[1].y1>>) \cap clip

\* PolyFillArc: as if it was drawn with the line width.
FilledArcsReported(arcs, o, width, clip) == ArcsReported(arcs, o, width, clip)

\* PolyFillRect.
FilledReported(rects, o, clip) ==
  Covered([i \in DOMAIN rects |-> Moved(rects[i], o)], <<rects[1].x1, rects[1].y1>>) \cap clip

\* GetTextBoundingRect: n characters of a font at p.  The bounds of a font are those
\* of all its characters.
TextBounds(p, n, font) ==
  LET wide == Max({c.right : c \in font.chars} \cup {c.width : c \in font.chars})
  IN [x1 |-> p[1] + Min({c.left : c \in font.chars} \cup {0}),
      y1 |-> p[2] - Max({c.ascent : c \in font.chars} \cup {font.ascent}),
      x2 |-> p[1] + wide * n,
      y2 |-> p[2] + Max({c.descent : c \in font.chars} \cup {font.descent})]

\* The text operations.
TextReported(p, n, font, o, clip) == Pixels(TextBounds(Shift(p, o), n, font)) \cap clip

\* Composite, on a screen of w by h pixels: what is cut off on the left is reported
\* on the right.
CompositeReported(r, o, w, h) ==
  LET x == Max({r.x1 + o[1], 0})
      y == Max({r.y1 + o[2], 0})
  IN Pixels([x1 |-> x, y1 |-> y, x2 |-> Min({x + r.x2 - r.x1, w}),
             y2 |-> Min({y + r.y2 - r.y1, h})])

\* Where the pen is for each of list, whose members move it on.
Pens(start, list) ==
  [i \in DOMAIN list |-> FoldLeft(LAMBDA pen, g : Shift(pen, g.advance), start,
                                  SubSeq(list, 1, i - 1))]

\* GlyphsToRegion.
GlyphRects(start, list) ==
  {Moved(list[i].rect, Pens(start, list)[i]) : i \in DOMAIN list}

\* Glyphs.
GlyphsReported(start, list, o, w, h) ==
  Translate(RectsToRegion(GlyphRects(start, list)), o) \cap Pixels(Box(0, 0, w, h))

\* ClearToBackground: a width or height of 0 reaches to the edge of the window.  When
\* exposures are generated, they paint, and report.
Cleared(x, y, w, h, window) ==
  LET left == window.x1 + x
      top == window.y1 + y
  IN Pixels([x1 |-> left, y1 |-> top,
             x2 |-> IF w = 0 THEN window.x2 ELSE left + w,
             y2 |-> IF h = 0 THEN window.y2 ELSE top + h])

ClearReported(x, y, w, h, window, clip) == Cleared(x, y, w, h, window) \cap clip
-----------------------------------------------------------------------------
(***************************************************************************)
(* What the X server paints                                                *)
(***************************************************************************)
\* The pixels of a line that is horizontal, vertical or diagonal.
LinePixels(p, q) ==
  LET n == Max({p[1] - q[1], q[1] - p[1], p[2] - q[2], q[2] - p[2]})
      step(a, b) == IF a < b THEN 1 ELSE IF a > b THEN -1 ELSE 0
  IN {Shift(p, <<k * step(p[1], q[1]), k * step(p[2], q[2])>>) : k \in 0 .. n}

\* What a line width of lw adds to a pixel of it: of an even width, one pixel more
\* on the upper left.
Nib(lw) == (-(lw \div 2) .. (lw - 1) \div 2) \X (-(lw \div 2) .. (lw - 1) \div 2)

Drawn(pixels, lw) == UNION {Translate(Nib(lw), p) : p \in pixels}

\* Lines from point to point; at 11 degrees the sharp end of a join is 5.3 times the
\* line width away from its point.
LinesPainted(pts, o, width, miter, clip) ==
  LET lw == Thick(width)
      at(i) == Shift(pts[i], o)
      reach == (53 * lw) \div 10
      joints == IF miter THEN {at(i) : i \in 2 .. Len(pts) - 1} ELSE {}
  IN ((UNION {Drawn(LinePixels(at(i), at(i + 1)), lw) : i \in 1 .. Len(pts) - 1})
       \cup Drawn({at(1)}, lw)
       \cup UNION {Pixels(Around(p, p, reach)) : p \in joints}) \cap clip

SegmentsPainted(segs, o, width, clip) ==
  (UNION {Drawn(LinePixels(Shift(segs[i][1], o), Shift(segs[i][2], o)), Thick(width)) :
            i \in DOMAIN segs}) \cap clip

OutlinesPainted(rects, o, width, clip) ==
  LET corner(i) == <<Shift(<<rects[i].x1, rects[i].y1>>, o), Shift(<<rects[i].x2, rects[i].y1>>, o),
                     Shift(<<rects[i].x2, rects[i].y2>>, o), Shift(<<rects[i].x1, rects[i].y2>>, o)>>
  IN (UNION {Drawn(LinePixels(corner(i)[k], corner(i)[1 + (k % 4)]), Thick(width)) :
               i \in DOMAIN rects, k \in 1 .. 4}) \cap clip

\* No more of a polygon than the rectangle between its corners; pixels on its right
\* and lower edge do not belong to it.
PolygonPainted(pts, o, clip) ==
  LET at == {Shift(pts[i], o) : i \in DOMAIN pts}
  IN Pixels(Hull({Box(p[1], p[2], 0, 0) : p \in at}, Shift(pts[1], o))) \cap clip

\* No more than the rectangle around the ellipse and what the line width adds to it;
\* a filled arc has less.
ArcsPainted(arcs, o, width, clip) ==
  LET whole(r) == Pixels(Around(<<r.x1, r.y1>>, <<r.x2, r.y2>>, 0))
  IN (UNION {Drawn(whole(Moved(arcs[i], o)), Thick(width)) : i \in DOMAIN arcs}) \cap clip

\* A character goes from its left to its right bearing; an image text also has a
\* background as wide as its characters and as high as the font.
TextPainted(p, chars, font, o, clip) ==
  LET pens == Pens(Shift(p, o), [i \in DOMAIN chars |-> [advance |-> <<chars[i].width, 0>>]])
      ink(c, pen) == [x1 |-> pen[1] + c.left, y1 |-> pen[2] - c.ascent,
                      x2 |-> pen[1] + c.right, y2 |-> pen[2] + c.descent]
      background(c, pen) == [x1 |-> pen[1], y1 |-> pen[2] - font.ascent,
                             x2 |-> pen[1] + c.width, y2 |-> pen[2] + font.descent]
  IN RectsToRegion(UNION {{ink(chars[i], pens[i]), background(chars[i], pens[i])} :
                            i \in DOMAIN chars}) \cap clip
=============================================================================
