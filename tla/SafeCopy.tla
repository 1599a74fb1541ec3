------------------------------ MODULE SafeCopy ------------------------------
(***************************************************************************)
(* What a CopyRect update promises, with no rectangles in it: the pixels   *)
(* of region take the content delta away from them, a part at a time, in   *)
(* one picture that is source and destination.  It works if no part is     *)
(* overwritten that something still to be moved will be read from.         *)
(*                                                                         *)
(* A picture tells of each pixel which pixel its content was in at first.  *)
(***************************************************************************)
EXTENDS Region

CONSTANT Screen

VARIABLES region, delta,
          picture,
          todo         \* the part of region that is still to be moved

copyVars == <<region, delta, picture, todo>>

Source(p) == Shift(p, Negate(delta))

Init ==
  /\ delta \in Point
  /\ region \subseteq Screen
  /\ \A p \in region : Source(p) \in Screen
  /\ picture = [p \in Screen |-> p]
  /\ todo = region

\* The part part is moved next.
Move(part) ==
  /\ todo' = todo \ part
  /\ \A p \in todo' : Source(p) \notin part
  /\ picture' = [p \in Screen |-> IF p \in part THEN picture[Source(p)] ELSE picture[p]]
  /\ UNCHANGED <<region, delta>>

Next == \E part \in SUBSET todo : Move(part)

Spec == Init /\ [][Next]_copyVars
=============================================================================
