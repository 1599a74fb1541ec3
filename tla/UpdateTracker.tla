--------------------------- MODULE UpdateTracker ---------------------------
(***************************************************************************)
(* rfb::SimpleUpdateTracker and rfb::ClippingUpdateTracker                 *)
(* (common/rfb/UpdateTracker.cxx): the bookkeeping of what has to be sent. *)
(*                                                                         *)
(* A tracker describes how to bring an old picture up to date: first move  *)
(* the pixels of copied by delta, then send the pixels of changed.  It is  *)
(* a value here, and every method is an operator from trackers to          *)
(* trackers, so that the screen model (TrackedScreen) and the server model *)
(* (UpdatePipeline) share the same definitions.                            *)
(***************************************************************************)
EXTENDS Region

Tracker == [changed : SUBSET Point, copied : SUBSET Point,
            delta : Point, copyEnabled : BOOLEAN]

\* The delta of a tracker with nothing copied is never read; the C++ member
\* starts at (0,0) through Point().
NewTracker(useCopyRect) ==
  [changed |-> {}, copied |-> {}, delta |-> <<0, 0>>, copyEnabled |-> useCopyRect]

AddChanged(t, R) == [t EXCEPT !.changed = @ \cup R]

\* Mutant: what is pending when CopyRect is turned off stays a copy.
EnableCopyRect_KeepsPending(t, enable) == [t EXCEPT !.copyEnabled = enable]

EnableCopyRect(t, enable) ==
  IF ~enable /\ t.copyEnabled
  THEN [t EXCEPT !.changed = @ \cup t.copied, !.copied = {}, !.copyEnabled = FALSE]
  ELSE [t EXCEPT !.copyEnabled = enable]

\* Mutant: the source of the new copy is taken for up to date.
AddFreshCopy_TrustsSource(t, dest, d) ==
  IF BoundingArea(t.copied) > BoundingArea(dest)
  THEN AddChanged(t, dest)
  ELSE [t EXCEPT !.changed = @ \cup t.copied, !.copied = dest, !.delta = d]

\* add_copied when the source has nothing in common with the pending copy.
\* Only one copy can be pending: the one with the larger bounding box stays
\* and the other is sent as changed pixels.
AddFreshCopy(t, dest, d) ==
  IF BoundingArea(t.copied) > BoundingArea(dest)
  THEN AddChanged(t, dest)
  ELSE LET invalidSrc == Translate(dest, Negate(d)) \cap t.changed
       IN [t EXCEPT !.changed = @ \cup Translate(invalidSrc, d) \cup t.copied,
                    !.copied = dest,
                    !.delta = d]

\* Mutant: what is not part of the continued copy is forgotten.
AddContinuedCopy_DropsRest(t, dest, d) ==
  LET overlap == Translate(dest, Negate(d)) \cap t.copied
  IN [t EXCEPT !.changed = @ \cup Translate(overlap \cap t.changed, d),
               !.copied = Translate(overlap, d),
               !.delta = Shift(@, d)]

\* add_copied when the source overlaps the pending copy: the overlap becomes
\* one longer copy, and everything else of the two copies changed pixels.
AddContinuedCopy(t, dest, d) ==
  LET overlap == Translate(dest, Negate(d)) \cap t.copied
      moved == Translate(overlap, d)
      invalidSrc == Translate(overlap \cap t.changed, d)
  IN [t EXCEPT !.changed = @ \cup invalidSrc \cup ((dest \cup t.copied) \ moved),
               !.copied = moved,
               !.delta = Shift(@, d)]

AddCopied(t, dest, d) ==
  IF ~t.copyEnabled THEN AddChanged(t, dest)
  ELSE IF dest = {} THEN t
  ELSE IF Translate(dest, Negate(d)) \cap t.copied = {}
       THEN AddFreshCopy(t, dest, d)
       ELSE AddContinuedCopy(t, dest, d)

\* The side effect of getUpdateInfo: a copied pixel that is also changed is
\* only sent as changed.
Normalize(t) == [t EXCEPT !.copied = @ \ t.changed]

\* getUpdateInfo(info, clip): what is sent, of a normalized tracker.
UpdateInfo(t, clip) ==
  [changed |-> t.changed \cap clip,
   copied |-> (t.copied \ t.changed) \cap clip,
   delta |-> t.delta]

ClearTracker(t) == [t EXCEPT !.changed = {}, !.copied = {}]

IsEmpty(info) == info.changed = {} /\ info.copied = {}

\* copyTo(to), and the add_copied, add_changed pair of checkUpdate: replay
\* what info holds into the tracker t.
Replay(t, info) ==
  AddChanged(AddCopied(t, info.copied, info.delta), info.changed)

\* ClippingUpdateTracker with clip rectangle clip, in front of t.
ClippedAddChanged(t, R, clip) == AddChanged(t, R \cap clip)

ClippedAddCopied(t, dest, d, clip) ==
  LET clipdest == dest \cap clip
      visible == Translate(Translate(clipdest, Negate(d)) \cap clip, d)
  IN AddChanged(AddCopied(t, visible, d), clipdest \ visible)
-----------------------------------------------------------------------------
(***************************************************************************)
(* The meaning of a tracker.  info applied to picture pic, with the new    *)
(* pixels read from the picture fresh: copies first, from the old content, *)
(* then the changed pixels (EncodeManager::writeUpdate's order).           *)
(***************************************************************************)
ApplyUpdate(pic, info, fresh) ==
  [p \in DOMAIN pic |->
     IF p \in info.changed THEN fresh[p]
     ELSE IF p \in info.copied THEN pic[Shift(p, Negate(info.delta))]
     ELSE pic[p]]

\* t is a correct account of how new differs from old.
Accounts(t, new, old) ==
  /\ \A p \in DOMAIN new :
        p \notin t.changed \cup t.copied => new[p] = old[p]
  /\ \A p \in DOMAIN new :
        p \in t.copied \ t.changed =>
           /\ Shift(p, Negate(t.delta)) \in DOMAIN new
           /\ new[p] = old[Shift(p, Negate(t.delta))]
=============================================================================
