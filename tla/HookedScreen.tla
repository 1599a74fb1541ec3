---------------------------- MODULE HookedScreen ----------------------------
(***************************************************************************)
(* The tracked screen below an X server: what is drawn is what X           *)
(* operations paint, and what is reported is what vncHooks.c makes of      *)
(* them.  Where the desktop paints more than is reported, the viewer keeps *)
(* old pixels.                                                             *)
(*                                                                         *)
(* Operations on anything but a viewable window or the screen's pixmap are *)
(* not wrapped (vncHooksValidateGC), and paint nothing here.  Draw and     *)
(* Scroll are what other desktops report.                                  *)
(***************************************************************************)
EXTENDS TrackedScreen

CONSTANTS Drawings,    \* what operations paint, and what Hooks has of them
          Areas,       \* rectangles that CopyArea copies to
          ClipLists    \* what can be seen of a window

ASSUME AreaAssumption == Areas \subseteq SUBSET Screen
ASSUME ClipAssumption == ClipLists \subseteq SUBSET Screen

\* Every operation but the copies.
Operation(d, c) ==
  /\ fb' = [p \in Screen |-> IF p \in d.painted THEN c ELSE fb[p]]
  /\ tracker' = ClippedAddChanged(tracker, d.reported, Screen)
  /\ UNCHANGED mirror

\* CopyArea to dst, from a window of which clipList can be seen, or from a pixmap,
\* of which nothing can.  What was not on the screen is some other colour.
CopyArea(dst, clipList, d, c) ==
  LET src == Translate(Translate(dst, Negate(d)) \cap clipList, d) IN
  /\ fb' = [p \in Screen |-> IF p \notin dst THEN fb[p]
                             ELSE IF p \in src THEN fb[Shift(p, Negate(d))] ELSE c]
  /\ tracker' = ClippedAddChanged(ClippedAddCopied(tracker, dst \cap src, d, Screen),
                                  dst \ src, Screen)
  /\ UNCHANGED mirror

\* CopyWindow: a window has moved by d and takes old along, as much of it as was on
\* the screen and is now inside of what can be seen of the window.
CopyWindow(old, borderClip, d) ==
  LET copied == Translate(old \cap Screen, d) \cap Screen \cap borderClip IN
  /\ fb' = [p \in Screen |-> IF p \in copied THEN fb[Shift(p, Negate(d))] ELSE fb[p]]
  /\ tracker' = ClippedAddCopied(tracker, copied, d, Screen)
  /\ UNCHANGED mirror

\* Next, or an X operation.
HookedNext ==
  \/ Next
  \/ \E d \in Drawings, c \in Color : Operation(d, c)
  \/ \E dst \in Areas, clipList \in ClipLists, d \in Delta, c \in Color :
       CopyArea(dst, clipList, d, c)
  \/ \E old \in Areas, borderClip \in ClipLists, d \in Delta : CopyWindow(old, borderClip, d)

HookedSpec == Init /\ [][HookedNext]_vars
=============================================================================
