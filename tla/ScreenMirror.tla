---------------------------- MODULE ScreenMirror ----------------------------
(***************************************************************************)
(* What update tracking promises, with no tracker in it: the desktop may   *)
(* change its framebuffer in any way at any time, and the picture a viewer *)
(* holds only ever changes by becoming equal to the framebuffer.           *)
(***************************************************************************)
CONSTANTS Screen,   \* the pixels of the framebuffer
          Color     \* the pixel values

VARIABLES fb,       \* the framebuffer
          mirror    \* the viewer's copy of it

mirrorVars == <<fb, mirror>>

Picture == [Screen -> Color]

Init == fb \in Picture /\ mirror \in Picture

Change == fb' \in Picture /\ UNCHANGED mirror

Sync == mirror' = fb /\ UNCHANGED fb

Next == Change \/ Sync

Spec == Init /\ [][Next]_mirrorVars
=============================================================================
