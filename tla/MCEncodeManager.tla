-------------------------- MODULE MCEncodeManager --------------------------
(***************************************************************************)
(* The two halves of an update: the region that is moved, rectangle by     *)
(* rectangle and row by row, and the rectangles that are encoded, written  *)
(* and read.  They have no variable in common, so each is looked at while  *)
(* the other has nothing to do.  RegionsExact is about what the X11 code   *)
(* makes of a region and the one that it is copied from.                   *)
(***************************************************************************)
EXTENDS MCCopyRects, Xregion, MCUpdateWriter

NothingToSend == scene.screen = Unchanged
NothingToMove == StartJob([rects |-> <<>>, delta |-> <<1, 0>>])

EncodeInit == /\ WriterInit
              /\ IF NothingToSend THEN Init ELSE NothingToMove

EncodeNext == \/ Next /\ UNCHANGED writerVars
              \/ WriterNext /\ UNCHANGED vars

EncodeSpec == EncodeInit /\ [][EncodeNext]_<<vars, writerVars>>
-----------------------------------------------------------------------------
\* The region code has the right pixels, in the one form that get_rects relies on:
\* rectangles as large as they can be, in bands, and exact extents.
Exact(reg, R) ==
  /\ reg.rects = RectanglesOf(R)
  /\ R \subseteq Pixels(reg.extents) /\ Cardinality(Pixels(reg.extents)) = BoundingArea(R)

\* Union, intersection and difference of a copied region and its source, which is
\* what the trackers work with, are those of the sets, though miRegionOp and the band
\* functions never look at a pixel.
RegionsExact ==
  NothingToSend /\ nRects = Len(rects) /\ nRectsInBand = 0 =>
    LET dst == setOrderedRects(rects)
        src == XOffsetRegion(dst, Negate(delta))
        source == Translate(region, Negate(delta))
    IN /\ Exact(dst, region)
       /\ Exact(XUnionRegion(dst, src), region \cup source)
       /\ Exact(XIntersectRegion(dst, src), region \cap source)
       /\ Exact(XSubtractRegion(dst, src), region \ source)
       /\ Exact(XSubtractRegion(src, dst), source \ region)
       /\ XEqualRegion(XUnionRegion(src, dst), XUnionRegion(dst, src))
=============================================================================
