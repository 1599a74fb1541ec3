------------------------------ MODULE Xregion ------------------------------
(***************************************************************************)
(* The X11 region code (common/Xregion/Region.c), below rfb::Region.  A    *)
(* region is a sequence of rectangles in bands and their extents.  What    *)
(* two regions come to is worked out a band at a time: where only one of   *)
(* them has rectangles and where both have, and two bands that are alike   *)
(* become one.                                                             *)
(*                                                                         *)
(* Memory is left out, and so is the width of a coordinate (16 bits, as in *)
(* the X protocol).                                                        *)
(***************************************************************************)
EXTENDS Region, Sequences

LOCAL INSTANCE FiniteSetsExt
LOCAL INSTANCE SequencesExt

\* A rectangle of a band from y1 to y2.
Strip(x1, x2, y1, y2) == [x1 |-> x1, y1 |-> y1, x2 |-> x2, y2 |-> y2]

Nowhere == Strip(0, 0, 0, 0)
NoRegion == [rects |-> <<>>, extents |-> Nowhere]

\* _RectRegion.
RectRegion(r) ==
  [rects |-> IF Nonempty(r) THEN <<r>> ELSE <<>>, extents |-> r]

\* XOffsetRegion.
XOffsetRegion(reg, d) ==
  LET Offset(r) == Strip(r.x1 + d[1], r.x2 + d[1], r.y1 + d[2], r.y2 + d[2])
  IN [rects |-> [k \in DOMAIN reg.rects |-> Offset(reg.rects[k])],
      extents |-> Offset(reg.extents)]

\* miSetExtents.
miSetExtents(rects) ==
  [rects |-> rects,
   extents |-> IF rects = <<>> THEN Nowhere
               ELSE Strip(Min({rects[k].x1 : k \in DOMAIN rects}),
                          Max({rects[k].x2 : k \in DOMAIN rects}),
                          rects[1].y1, rects[Len(rects)].y2)]

\* EXTENTCHECK: the extents overlap.
Overlap(r, s) == r.x2 > s.x1 /\ r.x1 < s.x2 /\ r.y2 > s.y1 /\ r.y1 < s.y2

\* How many rectangles the first band of rects has.
BandLength(rects) ==
  Max({n \in DOMAIN rects : \A k \in 1 .. n : rects[k].y1 = rects[1].y1} \cup {0})
-----------------------------------------------------------------------------
(***************************************************************************)
(* Bands.  b, b1 and b2 are the rectangles of a band, of which the part    *)
(* from y1 to y2 is looked at.                                             *)
(***************************************************************************)
\* miUnionNonO and miSubtractNonO1.
Alone(b, y1, y2) == [k \in DOMAIN b |-> Strip(b[k].x1, b[k].x2, y1, y2)]

\* MERGERECT: r is added to the band's rectangles so far.
MergeRect(done, r, y1, y2) ==
  LET n == Len(done)
  IN IF n > 0 /\ done[n].x2 >= r.x1
     THEN [done EXCEPT ![n].x2 = Max({@, r.x2})]
     ELSE Append(done, Strip(r.x1, r.x2, y1, y2))

\* miUnionO: the left-most rectangle is the next to be merged.
RECURSIVE miUnionO(_, _, _, _, _)
miUnionO(done, b1, b2, y1, y2) ==
  CASE b1 = <<>> /\ b2 = <<>> -> done
    [] b1 # <<>> /\ (b2 = <<>> \/ b1[1].x1 < b2[1].x1) ->
         miUnionO(MergeRect(done, b1[1], y1, y2), Tail(b1), b2, y1, y2)
    [] OTHER ->
         miUnionO(MergeRect(done, b2[1], y1, y2), b1, Tail(b2), y1, y2)

\* miIntersectO: on to the next of what extends to the right the least.
RECURSIVE miIntersectO(_, _, _, _)
miIntersectO(b1, b2, y1, y2) ==
  IF b1 = <<>> \/ b2 = <<>> THEN <<>>
  ELSE LET common == Strip(Max({b1[1].x1, b2[1].x1}), Min({b1[1].x2, b2[1].x2}), y1, y2)
       IN (IF common.x1 < common.x2 THEN <<common>> ELSE <<>>)
          \o miIntersectO(IF b1[1].x2 <= b2[1].x2 THEN Tail(b1) ELSE b1,
                          IF b2[1].x2 <= b1[1].x2 THEN Tail(b2) ELSE b2, y1, y2)

\* Where the next minuend begins.
Fence(b, x1) == IF b = <<>> THEN x1 ELSE b[1].x1

\* miSubtractO: x1 is the left-most column of the minuend b1[1] not yet looked at.
RECURSIVE miSubtractO(_, _, _, _, _)
miSubtractO(b1, x1, b2, y1, y2) ==
  IF b1 = <<>> THEN <<>>
  ELSE IF b2 # <<>> /\ b2[1].x2 <= x1
  THEN miSubtractO(b1, x1, Tail(b2), y1, y2)
  ELSE IF b2 = <<>> \/ b2[1].x1 >= b1[1].x2
  THEN (IF x1 < b1[1].x2 THEN <<Strip(x1, b1[1].x2, y1, y2)>> ELSE <<>>)
       \o miSubtractO(Tail(b1), Fence(Tail(b1), x1), b2, y1, y2)
  ELSE (IF b2[1].x1 > x1 THEN <<Strip(x1, b2[1].x1, y1, y2)>> ELSE <<>>)
       \o (IF b2[1].x2 >= b1[1].x2
           THEN miSubtractO(Tail(b1), Fence(Tail(b1), x1), b2, y1, y2)
           ELSE miSubtractO(b1, b2[1].x2, Tail(b2), y1, y2))

\* What overlapFunc, nonOverlap1Func and nonOverlap2Func add.
OfBoth(op, b1, b2, y1, y2) ==
  CASE op = "union" -> miUnionO(<<>>, b1, b2, y1, y2)
    [] op = "intersect" -> miIntersectO(b1, b2, y1, y2)
    [] op = "subtract" -> miSubtractO(b1, b1[1].x1, b2, y1, y2)
OfFirst(op, b, y1, y2) == IF op = "intersect" THEN <<>> ELSE Alone(b, y1, y2)
OfSecond(op, b, y1, y2) == IF op = "union" THEN Alone(b, y1, y2) ELSE <<>>
-----------------------------------------------------------------------------
(***************************************************************************)
(* Regions.  s.new has the rectangles so far, of which the last band comes *)
(* after the first s.prev, and s.ybot is how far down both regions have    *)
(* been looked at.                                                         *)
(***************************************************************************)
SameColumns(b1, b2) ==
  /\ Len(b1) = Len(b2)
  /\ \A k \in DOMAIN b1 : b1[k].x1 = b2[k].x1 /\ b1[k].x2 = b2[k].x2

\* Mutant: bands that have a gap between them are merged, too.
miCoalesce_OverGaps(s, added) ==
  LET last == SubSeq(s.new, s.prev + 1, Len(s.new))
      n == BandLength(added)
      band == SubSeq(added, 1, n)
      longer == [k \in DOMAIN last |-> [last[k] EXCEPT !.y2 = band[k].y2]]
  IN IF last # <<>> /\ SameColumns(last, band)
     THEN [s EXCEPT !.new = SubSeq(@, 1, s.prev) \o longer \o SubSeq(added, n + 1, Len(added))]
     ELSE [s EXCEPT !.new = @ \o added, !.prev = Len(s.new)]

\* miCoalesce: the first band of added becomes one with the last band of new if it
\* goes on below it.  (More than one band is added only at the end, when prev is
\* not needed any more.)
miCoalesce(s, added) ==
  LET last == SubSeq(s.new, s.prev + 1, Len(s.new))
      n == BandLength(added)
      band == SubSeq(added, 1, n)
      longer == [k \in DOMAIN last |-> [last[k] EXCEPT !.y2 = band[k].y2]]
  IN IF last # <<>> /\ SameColumns(last, band) /\ last[1].y2 = band[1].y1
     THEN [s EXCEPT !.new = SubSeq(@, 1, s.prev) \o longer \o SubSeq(added, n + 1, Len(added))]
     ELSE [s EXCEPT !.new = @ \o added, !.prev = Len(s.new)]

Added(s, added) == IF added = <<>> THEN s ELSE miCoalesce(s, added)

\* The rows of only one of the regions before both have rectangles.
BeforeBoth(op, s, b1, b2) ==
  LET r1 == b1[1]  r2 == b2[1]
      top == Max({Min({r1.y1, r2.y1}), s.ybot})
      bot == IF r1.y1 < r2.y1 THEN Min({r1.y2, r2.y1}) ELSE Min({r2.y2, r1.y1})
  IN IF r1.y1 = r2.y1 \/ top = bot THEN <<>>
     ELSE IF r1.y1 < r2.y1 THEN OfFirst(op, b1, top, bot) ELSE OfSecond(op, b2, top, bot)

\* All bands of a region from row y on.
RECURSIVE Below(_, _)
Below(rects, y) ==
  LET n == BandLength(rects)
  IN IF n = 0 THEN <<>>
     ELSE Alone(SubSeq(rects, 1, n), Max({rects[1].y1, y}), rects[1].y2)
          \o Below(SubSeq(rects, n + 1, Len(rects)), y)

\* miRegionOp from r1 and r2 on, which are what is left of the two regions.
RECURSIVE FromBands(_, _, _, _)
FromBands(op, s, r1, r2) ==
  IF r1 = <<>> \/ r2 = <<>>
  THEN Added(s, IF r1 # <<>>
                THEN IF op = "intersect" THEN <<>> ELSE Below(r1, s.ybot)
                ELSE IF op = "union" THEN Below(r2, s.ybot) ELSE <<>>).new
  ELSE LET n1 == BandLength(r1)
           n2 == BandLength(r2)
           b1 == SubSeq(r1, 1, n1)
           b2 == SubSeq(r2, 1, n2)
           ytop == Max({r1[1].y1, r2[1].y1})
           ybot == Min({r1[1].y2, r2[1].y2})
           before == Added(s, BeforeBoth(op, s, b1, b2))
           both == IF ybot > ytop THEN Added(before, OfBoth(op, b1, b2, ytop, ybot)) ELSE before
       IN FromBands(op, [both EXCEPT !.ybot = ybot],
                    IF r1[1].y2 = ybot THEN SubSeq(r1, n1 + 1, Len(r1)) ELSE r1,
                    IF r2[1].y2 = ybot THEN SubSeq(r2, n2 + 1, Len(r2)) ELSE r2)

miRegionOp(op, reg1, reg2) ==
  FromBands(op, [new |-> <<>>, prev |-> 0,
                 ybot |-> Min({reg1.extents.y1, reg2.extents.y1})],
            reg1.rects, reg2.rects)

\* reg1 is one rectangle that has all of reg2.
Subsumes(reg1, reg2) ==
  /\ Len(reg1.rects) = 1
  /\ reg1.extents.x1 <= reg2.extents.x1 /\ reg1.extents.y1 <= reg2.extents.y1
  /\ reg1.extents.x2 >= reg2.extents.x2 /\ reg1.extents.y2 >= reg2.extents.y2

XUnionRegion(reg1, reg2) ==
  LET e1 == reg1.extents  e2 == reg2.extents
  IN IF reg1.rects = <<>> THEN reg2
     ELSE IF reg2.rects = <<>> \/ Subsumes(reg1, reg2) THEN reg1
     ELSE IF Subsumes(reg2, reg1) THEN reg2
     ELSE [rects |-> miRegionOp("union", reg1, reg2),
           extents |-> Strip(Min({e1.x1, e2.x1}), Max({e1.x2, e2.x2}),
                             Min({e1.y1, e2.y1}), Max({e1.y2, e2.y2}))]

\* There is something to do for an intersection or a difference.
Meet(reg1, reg2) ==
  reg1.rects # <<>> /\ reg2.rects # <<>> /\ Overlap(reg1.extents, reg2.extents)

XIntersectRegion(reg1, reg2) ==
  miSetExtents(IF Meet(reg1, reg2) THEN miRegionOp("intersect", reg1, reg2) ELSE <<>>)

XSubtractRegion(regM, regS) ==
  IF Meet(regM, regS) THEN miSetExtents(miRegionOp("subtract", regM, regS)) ELSE regM

\* Region::setOrderedRects.
setOrderedRects(rects) ==
  FoldLeft(LAMBDA reg, r : XUnionRegion(reg, RectRegion(r)), NoRegion, rects)

XEqualRegion(r1, r2) ==
  r1.rects = r2.rects /\ (r1.rects # <<>> => r1.extents = r2.extents)
=============================================================================
