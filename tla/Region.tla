------------------------------- MODULE Region -------------------------------
(***************************************************************************)
(* rfb::Region and rfb::Point (common/rfb/Region.cxx, common/rfb/Rect.h).  *)
(*                                                                         *)
(* A region is the set of the pixels it covers.  Its X11 representation (a *)
(* list of rectangles in y-x bands, RectanglesOf) only shows in the        *)
(* bounding rectangle and where get_rects is asked for the rectangles.     *)
(* Union, intersection and difference are the set operators.               *)
(***************************************************************************)
EXTENDS Integers, FiniteSets, FiniteSetsExt

Point == Int \X Int

\* Point::translate and Point::negate.
Shift(p, d) == <<p[1] + d[1], p[2] + d[2]>>
Negate(d) == <<-d[1], -d[2]>>

\* Region::translate.
Translate(R, d) == {Shift(p, d) : p \in R}

\* Region::get_bounding_rect().area(): the smallest rectangle around R.
BoundingArea(R) ==
  IF R = {} THEN 0
  ELSE LET xs == {p[1] : p \in R}
           ys == {p[2] : p \in R}
       IN (Max(xs) - Min(xs) + 1) * (Max(ys) - Min(ys) + 1)

Rectangle == [x1 : Int, y1 : Int, x2 : Int, y2 : Int]

Pixels(r) == (r.x1 .. r.x2 - 1) \X (r.y1 .. r.y2 - 1)

Nonempty(r) == r.x1 < r.x2 /\ r.y1 < r.y2

\* Rectangle r comes before s in the X11 representation of a region: bands from
\* top to bottom, the rectangles of a band from left to right.
Precedes(r, s) ==
  \/ r.y2 <= s.y1
  \/ r.y1 = s.y1 /\ r.y2 = s.y2 /\ r.x2 <= s.x1

\* The columns of R in row y.
Columns(R, y) == {p[1] : p \in {q \in R : q[2] = y}}

\* The rectangles of R's X11 representation: as wide as they can be without a gap,
\* and as high as the columns of R are the same in all their rows.
BandRectangles(R) ==
  LET ys == {p[2] : p \in R}
      columns == [y \in ys \cup {y - 1 : y \in ys} \cup {y + 1 : y \in ys} |-> Columns(R, y)]
      tops == {y \in ys : columns[y - 1] # columns[y]}
      bottom(y) == Min({z + 1 : z \in {u \in ys : u >= y /\ columns[u + 1] # columns[u]}})
      lefts(y) == {x \in columns[y] : x - 1 \notin columns[y]}
      right(x, y) == Min({z + 1 : z \in {u \in columns[y] : u >= x /\ u + 1 \notin columns[y]}})
  IN UNION {{[x1 |-> x, y1 |-> y, x2 |-> right(x, y), y2 |-> bottom(y)] : x \in lefts(y)} :
              y \in tops}

\* The rectangles of S one after the other, if "before" orders them.
InOrder(S, before(_, _)) ==
  [k \in 1 .. Cardinality(S) |-> CHOOSE s \in S : Cardinality({r \in S : before(r, s)}) = k - 1]

\* The X11 representation of R.
RectanglesOf(R) == InOrder(BandRectangles(R), Precedes)
=============================================================================
