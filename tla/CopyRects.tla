----------------------------- MODULE CopyRects -----------------------------
(***************************************************************************)
(* How a copied region is moved: Region::get_rects gives its rectangles in *)
(* an order that depends on the direction, and each is moved by            *)
(* ModifiablePixelBuffer::copyRect a row at a time.  The server does so to *)
(* oldFb (ComparingUpdateTracker::compare), a viewer with the rectangles   *)
(* of EncodeManager::writeCopyRects, in the order they were written.       *)
(*                                                                         *)
(* get_rects collects all rectangles before the first is moved; here a     *)
(* rectangle is moved as soon as it is found.                              *)
(***************************************************************************)
EXTENDS Region, Sequences

CONSTANTS Screen,   \* the pixels of the picture
          Jobs      \* what may be moved: a region's rectangles and a distance

Banded(rects) ==
  \A k \in 1 .. Len(rects) :
     /\ Nonempty(rects[k])
     /\ \A l \in k + 1 .. Len(rects) : Precedes(rects[k], rects[l])

\* The hooks of the X server (and ClippingUpdateTracker on Windows) keep
\* destination and source inside the framebuffer.
Inside(rects, d) ==
  \A k \in 1 .. Len(rects) :
     /\ Pixels(rects[k]) \subseteq Screen
     /\ \A p \in Pixels(rects[k]) : Shift(p, Negate(d)) \in Screen

ASSUME ScreenAssumption == Screen \subseteq Point
ASSUME JobAssumption ==
  /\ Jobs \subseteq [rects : Seq(Rectangle), delta : Point]
  /\ \A job \in Jobs : Banded(job.rects) /\ Inside(job.rects, job.delta)

VARIABLES rects, delta,
          picture,      \* pixel -> the pixel its content was in at first
          i,            \* index of the rectangle that is moved
          nRects,       \* rectangles of the bands still to come
          nRectsInBand, \* rectangles of this band still to be moved
          next,         \* firstInNextBand
          rows          \* rows of the rectangle that have been moved

vars == <<rects, delta, picture, i, nRects, nRectsInBand, next, rows>>

Source(p) == Shift(p, Negate(delta))

\* Mutant: only the vertical direction is looked at.
left2right_Always == TRUE

\* The arguments of get_rects, and what it makes of them.
left2right == delta[1] <= 0
topdown == delta[2] <= 0
xInc == IF left2right THEN 1 ELSE -1
yInc == IF topdown THEN 1 ELSE -1

TypeOK ==
  /\ rects \in Seq(Rectangle)
  /\ delta \in Point
  /\ picture \in [Screen -> Screen]
  /\ nRects \in 0 .. Len(rects)
  /\ nRectsInBand \in 0 .. Len(rects)
  /\ i \in 0 .. Len(rects) + 1
  /\ next \in 0 .. Len(rects) + 1
  /\ rows \in Nat

StartJob(job) ==
  /\ rects = job.rects /\ delta = job.delta
  /\ picture = [p \in Screen |-> p]
  /\ i = IF topdown THEN 1 ELSE Len(rects)
  /\ nRects = Len(rects)
  /\ nRectsInBand = 0
  /\ next = i
  /\ rows = 0

Init == \E job \in Jobs : StartJob(job)

\* m rectangles from i on are in one band.
SameBand(m) == \A k \in 0 .. m - 1 : rects[i + k * yInc].y1 = rects[i].y1

\* The rectangles of the next band are counted; the first to be moved is at one
\* end of it or the other.
StartBand ==
  /\ nRectsInBand = 0
  /\ \E n \in {m \in 1 .. nRects : SameBand(m) /\ (m = nRects \/ ~SameBand(m + 1))} :
       /\ next' = i + n * yInc
       /\ nRects' = nRects - n
       /\ nRectsInBand' = n
       /\ i' = IF xInc # yInc THEN next' - yInc ELSE i
  /\ UNCHANGED <<rects, delta, picture, rows>>

\* Mutant: the rows are always moved from top to bottom.
Row_TopDown(r, k) == {p \in Pixels(r) : p[2] = r.y1 + k}

\* copyRect's loops: downwards movement goes from bottom to top.
Row(r, k) ==
  {p \in Pixels(r) : p[2] = IF delta[2] > 0 THEN r.y2 - 1 - k ELSE r.y1 + k}

\* One row, as memmove or memcpy does it: all at once.  After the last one it
\* is the next rectangle's turn.
CopyRow ==
  /\ nRectsInBand > 0
  /\ picture' = [p \in Screen |->
                   IF p \in Row(rects[i], rows) THEN picture[Source(p)] ELSE picture[p]]
  /\ IF rows + 1 < rects[i].y2 - rects[i].y1
     THEN /\ rows' = rows + 1
          /\ UNCHANGED <<i, nRectsInBand>>
     ELSE /\ rows' = 0
          /\ i' = IF nRectsInBand = 1 THEN next ELSE i + xInc
          /\ nRectsInBand' = nRectsInBand - 1
  /\ UNCHANGED <<rects, delta, nRects, next>>

Next == StartBand \/ CopyRow

Spec == Init /\ [][Next]_vars
-----------------------------------------------------------------------------
(***************************************************************************)
(* Properties                                                              *)
(***************************************************************************)
region == UNION {Pixels(rects[k]) : k \in 1 .. Len(rects)}

\* The rectangles of the bands still to come, and those of this band from the
\* one at i on.
Ahead == IF topdown THEN Len(rects) - nRects + 1 .. Len(rects) ELSE 1 .. nRects
Band == IF left2right THEN i .. i + nRectsInBand - 1 ELSE i - nRectsInBand + 1 .. i

RowsLeft(r) == UNION {Row(r, k) : k \in rows .. r.y2 - r.y1 - 1}

\* The pixels that are to be moved.
todo ==
  (UNION {Pixels(rects[k]) : k \in Ahead \cup (Band \ {i})}) \cup
  (IF nRectsInBand = 0 THEN {} ELSE RowsLeft(rects[i]))

\* Whatever the shape of the region and the direction, no row overwrites what
\* a row or rectangle after it is read from (get_rects' and copyRect's order),
\* and every pixel is moved once: moving the rectangles one after the other is
\* moving the region at once.
Safe == INSTANCE SafeCopy WITH Screen <- Screen, region <- region, delta <- delta,
                              picture <- picture, todo <- todo
SafeSpec == Safe!Spec

\* So when get_rects has no more rectangles every pixel has what was delta away
\* from it, what ComparingUpdateTracker and UpdateTracker take for granted.
AllMoved ==
  nRects = 0 /\ nRectsInBand = 0 =>
     picture = [p \in Screen |-> IF p \in region THEN Source(p) ELSE p]
=============================================================================
