-------------------------- MODULE MCRenderedCursor --------------------------
(***************************************************************************)
(* RenderedCursor on a row of two pixels, with a cursor of one pixel and   *)
(* one of two of which one is transparent.                                 *)
(***************************************************************************)
EXTENDS RenderedCursor, TLC

CONSTANTS red, blue

Row == (0 .. 1) \X {0}

Small == [rect |-> {<<0, 0>>}, mask |-> {<<0, 0>>}]
Wide == [rect |-> {<<0, 0>>, <<1, 0>>}, mask |-> {<<1, 0>>}]
MCShapes == {Small, Wide}

MCDelta == {<<1, 0>>}
WholeRow == {Row}

\* What follows an update that left the cursor astray is not explored: neither
\* property says anything of it.
NotAstray == ~conn.astray

ColorSymmetry == Permutations({red, blue})
=============================================================================
