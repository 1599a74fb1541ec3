---------------------------- MODULE MCCopyRects ----------------------------
(***************************************************************************)
(* CopyRects for TLC: every region of a small framebuffer, moved in every  *)
(* direction.                                                              *)
(***************************************************************************)
EXTENDS CopyRects

\* Five columns, since two rectangles of one band leave a gap of a column and so
\* can only get in each other's way when they move by two or more.
Field == (0 .. 4) \X (0 .. 2)
Distances == ((-4 .. 4) \X (-2 .. 2)) \ {<<0, 0>>}

\* What the clipping of the hooks lets through.  (Concatenation makes TLC evaluate
\* the rectangles once, instead of whenever one of them is asked for.)
FieldJobs ==
  UNION {LET inner == {p \in Field : Shift(p, Negate(d)) \in Field}
         IN {[rects |-> RectanglesOf(R) \o <<>>, delta |-> d] : R \in SUBSET inner} :
         d \in Distances}
=============================================================================
