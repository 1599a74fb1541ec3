--------------------------- MODULE TrackedScreen ---------------------------
(***************************************************************************)
(* One framebuffer, one update tracker and one viewer's picture: the       *)
(* desktop draws and scrolls, the tracker records what it is told, and an  *)
(* update sends what the tracker holds and clears it (the tail of          *)
(* VNCSConnectionST::writeFramebufferUpdate, for a request of the whole    *)
(* screen).                                                                *)
(***************************************************************************)
EXTENDS UpdateTracker

CONSTANTS Canvas,   \* the pixels the desktop may report about
          Screen,   \* the pixels of the framebuffer
          Color,    \* the pixel values
          Delta     \* the distances the desktop scrolls by

ASSUME ScreenAssumption == Canvas \subseteq Point /\ Screen \subseteq Canvas
ASSUME DeltaAssumption == Delta \subseteq Point

VARIABLES fb, mirror, tracker

vars == <<fb, mirror, tracker>>

Picture == [Screen -> Color]

TypeOK ==
  /\ fb \in Picture
  /\ mirror \in Picture
  /\ tracker \in Tracker
  /\ tracker.changed \cup tracker.copied \subseteq Screen

\* authSuccess marks the entire display as dirty.
Init ==
  /\ fb \in Picture
  /\ mirror \in Picture
  /\ \E useCopyRect \in BOOLEAN :
        tracker = AddChanged(NewTracker(useCopyRect), Screen)

\* The desktop paints R and reports it.
Draw(R, c) ==
  /\ fb' = [p \in Screen |-> IF p \in R THEN c ELSE fb[p]]
  /\ tracker' = ClippedAddChanged(tracker, R, Screen)
  /\ UNCHANGED mirror

\* The desktop moves pixels to dest from dest - d.  What comes from off the
\* screen is content the server has never seen; c stands for it.
Scroll(dest, d, c) ==
  LET source(p) == Shift(p, Negate(d)) IN
  /\ fb' = [p \in Screen |->
              IF p \notin dest THEN fb[p]
              ELSE IF source(p) \in Screen THEN fb[source(p)] ELSE c]
  /\ tracker' = ClippedAddCopied(tracker, dest, d, Screen)
  /\ UNCHANGED mirror

\* The viewer adds or removes CopyRect in its SetEncodings.
SetCopyRect(enable) ==
  /\ tracker' = EnableCopyRect(tracker, enable)
  /\ UNCHANGED <<fb, mirror>>

SendUpdate ==
  /\ mirror' = ApplyUpdate(mirror, UpdateInfo(tracker, Screen), fb)
  /\ tracker' = ClearTracker(Normalize(tracker))
  /\ UNCHANGED fb

Next ==
  \/ \E R \in SUBSET Canvas, c \in Color : Draw(R, c)
  \/ \E dest \in SUBSET Canvas, d \in Delta, c \in Color : Scroll(dest, d, c)
  \/ \E enable \in BOOLEAN : SetCopyRect(enable)
  \/ SendUpdate

Spec == Init /\ [][Next]_vars
-----------------------------------------------------------------------------
(***************************************************************************)
(* Properties                                                              *)
(***************************************************************************)

\* The tracker is a correct account of the difference between the
\* framebuffer and the viewer's picture: a pixel it does not mention is the
\* same in both, and a pixel it calls copied can be taken from the viewer's
\* own picture (UpdateTracker.cxx: add_copied's overlap and invalid_src
\* cases).
Sound == Accounts(tracker, fb, mirror)

\* A tracker told of no copies because CopyRect is off never asks for one
\* (enable_copyrect moves what is pending to changed).
NoCopyWhenDisabled == ~tracker.copyEnabled => tracker.copied = {}

\* Whatever was drawn and scrolled since the last update, in whatever order,
\* an update leaves the viewer with the framebuffer of that moment: the
\* tracked screen implements ScreenMirror.
Mirror == INSTANCE ScreenMirror WITH Screen <- Screen, Color <- Color,
                                    fb <- fb, mirror <- mirror
MirrorSpec == Mirror!Spec
=============================================================================
