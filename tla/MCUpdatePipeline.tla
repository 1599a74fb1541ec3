-------------------------- MODULE MCUpdatePipeline --------------------------
(***************************************************************************)
(* UpdatePipeline on framebuffers of one and two pixels.  A region of such *)
(* a strip is one rectangle of less than 64x64 pixels, so one block.       *)
(***************************************************************************)
EXTENDS UpdatePipeline

CONSTANTS c1, c2

OneClient == {c1}
TwoClients == {c1, c2}

OnePixel == {<<0, 0>>}
TwoPixels == {<<0, 0>>, <<1, 0>>}

OneScreen == {OnePixel}
BothScreens == {OnePixel, TwoPixels}

BlocksOfStrip == [R \in SUBSET UNION Screens |-> IF R = {} THEN {} ELSE {R}]

OnlyRight == {<<1, 0>>}
NoDelta == {}

AnyEncodings == BOOLEAN \X BOOLEAN
WithCopyRect == {TRUE} \X BOOLEAN

\* Sound only where ExtendedClients is all clients or none.
ClientSymmetry == Permutations(Clients)
=============================================================================
