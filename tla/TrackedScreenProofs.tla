------------------------ MODULE TrackedScreenProofs ------------------------
(***************************************************************************)
(* Proofs about TrackedScreen and HookedScreen, for every screen, every    *)
(* set of colours and every set of scroll distances: the tracker is always *)
(* a correct account of the difference between framebuffer and picture,    *)
(* and the tracked screen implements ScreenMirror.                         *)
(*                                                                         *)
(* The inductive invariant is TypeOK, Sound and NoCopyWhenDisabled, which  *)
(* is inductive as it stands: each action is one or two tracker operations *)
(* and UpdateTrackerProofs has a lemma for each.                           *)
(*                                                                         *)
(* Below an X server the hooks have to report at least what is painted.    *)
(* That they do is what TLC checks of Hooks, on small drawings; here it is *)
(* the hypothesis ReportsAll.  The copies need none: what they report is   *)
(* worked out from what could be seen.                                     *)
(***************************************************************************)
EXTENDS HookedScreen, UpdateTrackerProofs

Inv == TypeOK /\ Sound /\ NoCopyWhenDisabled

\* The invariant holds when the whole screen is marked as changed.
LEMMA InitInv == Init => Inv
<1> SUFFICES ASSUME Init PROVE Inv
  OBVIOUS
<1> USE ScreenAssumption
<1>1. PICK useCopyRect \in BOOLEAN :
         tracker = AddChanged(NewTracker(useCopyRect), Screen)
  BY DEF Init
<1>2. NewTracker(useCopyRect) \in Tracker
  BY DEF NewTracker, Tracker, Point
<1>3. /\ tracker \in Tracker
      /\ tracker.changed = Screen
      /\ tracker.copied = {}
  <2>1. NewTracker(useCopyRect).changed = {} /\ NewTracker(useCopyRect).copied = {}
    BY DEF NewTracker
  <2>2. Screen \in SUBSET Point
    OBVIOUS
  <2> DEFINE t == NewTracker(useCopyRect)
  <2> HIDE DEF t
  <2>3. t \in Tracker /\ t.changed = {} /\ t.copied = {} /\ tracker = AddChanged(t, Screen)
    BY <1>1, <1>2, <2>1 DEF t
  <2>4. /\ AddChanged(t, Screen) \in Tracker
        /\ AddChanged(t, Screen).changed = t.changed \cup Screen
        /\ AddChanged(t, Screen).copied = t.copied
    BY <2>2, <2>3, AddChangedType
  <2> QED BY <2>3, <2>4
<1>4. fb \in Picture /\ mirror \in Picture
  BY DEF Init
<1> QED BY <1>3, <1>4 DEF Inv, TypeOK, Sound, NoCopyWhenDisabled, Accounts, Picture

\* The desktop draws, on the screen or off it.
LEMMA DrawInv ==
  ASSUME Inv, NEW R \in SUBSET Canvas, NEW c \in Color, Draw(R, c)
  PROVE  Inv'
<1> USE ScreenAssumption DEF Inv
<1> DEFINE seen == R \cap Screen
<1>1. seen \in SUBSET Point /\ tracker \in Tracker
  BY DEF TypeOK
<1>2. tracker' = AddChanged(tracker, seen) /\ mirror' = mirror
  BY DEF Draw, ClippedAddChanged
<1>3. /\ fb' \in Picture
      /\ \A p \in Screen : p \notin seen => fb'[p] = fb[p]
  BY DEF Draw, TypeOK, Picture
<1> HIDE DEF seen
<1>4. DOMAIN fb = Screen /\ DOMAIN fb' = Screen
  BY <1>3 DEF TypeOK, Picture
<1>5. Accounts(tracker, fb, mirror)
  BY DEF Sound
<1>6. Accounts(AddChanged(tracker, seen), fb', mirror)
  BY <1>1, <1>3, <1>4, <1>5, AddChangedAccounts
<1>7. Sound'
  BY <1>2, <1>6 DEF Sound
<1>8. TypeOK'
  BY <1>1, <1>2, <1>3, AddChangedType DEF TypeOK, seen
<1>9. NoCopyWhenDisabled'
  BY <1>1, <1>2, AddChangedType DEF NoCopyWhenDisabled
<1> QED BY <1>7, <1>8, <1>9

\* The desktop scrolls: what comes from off the screen is a change.
LEMMA ScrollInv ==
  ASSUME Inv, NEW dest \in SUBSET Canvas, NEW d \in Delta, NEW c \in Color,
         Scroll(dest, d, c)
  PROVE  Inv'
<1> USE ScreenAssumption, DeltaAssumption DEF Inv
<1> DEFINE source(p) == Shift(p, Negate(d))
           clipdest == dest \cap Screen
           visible == Translate(Translate(clipdest, Negate(d)) \cap Screen, d)
           step == [p \in Screen |-> IF p \in visible THEN fb'[p] ELSE fb[p]]
           copied == AddCopied(tracker, visible, d)
<1>1. /\ clipdest \in SUBSET Point /\ Screen \in SUBSET Point /\ d \in Point
      /\ tracker \in Tracker
  BY DEF TypeOK
<1>2. visible = {p \in clipdest : source(p) \in Screen}
  BY <1>1, SourcesIn
<1>3. tracker' = AddChanged(copied, clipdest \ visible) /\ mirror' = mirror
  BY DEF Scroll, ClippedAddCopied
<1>4. fb' = [p \in Screen |-> IF p \notin dest THEN fb[p]
                             ELSE IF source(p) \in Screen THEN fb[source(p)] ELSE c]
  BY DEF Scroll
<1>5. fb \in Picture /\ fb' \in Picture
  BY <1>4 DEF TypeOK, Picture
<1>6. DOMAIN fb = Screen /\ DOMAIN fb' = Screen /\ DOMAIN step = Screen
  BY <1>5 DEF Picture
<1>7. visible \in SUBSET Screen /\ visible \in SUBSET Point
  BY <1>1, <1>2
<1>8. \A p \in Screen : p \notin visible => step[p] = fb[p]
  OBVIOUS
<1>9. \A p \in Screen : p \in visible => source(p) \in Screen /\ step[p] = fb[source(p)]
  BY <1>2, <1>4
<1>10. \A p \in Screen : p \notin clipdest \ visible => fb'[p] = step[p]
  BY <1>4
<1> HIDE DEF visible, step, clipdest
<1>11. Accounts(copied, step, mirror)
  BY <1>1, <1>6, <1>7, <1>8, <1>9, AddCopiedAccounts DEF Sound
<1>12. /\ copied \in Tracker
       /\ copied.copyEnabled = tracker.copyEnabled
       /\ copied.changed \cup copied.copied
            \subseteq tracker.changed \cup tracker.copied \cup visible
       /\ ~tracker.copyEnabled => copied.copied = tracker.copied
  BY <1>1, <1>7, AddCopiedType
<1> HIDE DEF copied
<1>13. clipdest \ visible \in SUBSET Point /\ clipdest \ visible \subseteq Screen
  BY <1>1 DEF clipdest
<1>14. Accounts(AddChanged(copied, clipdest \ visible), fb', mirror)
  <2> DEFINE exposed == clipdest \ visible
  <2>1. exposed \in SUBSET Point
    BY <1>13
  <2>2. \A p \in DOMAIN step : p \notin exposed => fb'[p] = step[p]
    BY <1>6, <1>10
  <2> HIDE DEF exposed
  <2>3. Accounts(AddChanged(copied, exposed), fb', mirror)
    BY <1>6, <1>11, <1>12, <2>1, <2>2, AddChangedAccounts
  <2> QED BY <2>3 DEF exposed
<1>15. Sound'
  BY <1>3, <1>14 DEF Sound
<1>16. /\ tracker' \in Tracker
       /\ tracker'.changed = copied.changed \cup (clipdest \ visible)
       /\ tracker'.copied = copied.copied
       /\ tracker'.copyEnabled = copied.copyEnabled
  BY <1>3, <1>12, <1>13, AddChangedType
<1>17. TypeOK'
  BY <1>3, <1>5, <1>7, <1>12, <1>13, <1>16 DEF TypeOK
<1>18. NoCopyWhenDisabled'
  BY <1>12, <1>16 DEF NoCopyWhenDisabled
<1> QED BY <1>15, <1>17, <1>18

\* The client allows copies, or takes that back.
LEMMA SetCopyRectInv ==
  ASSUME Inv, NEW enable \in BOOLEAN, SetCopyRect(enable)
  PROVE  Inv'
<1> USE DEF Inv
<1>1. CASE ~enable /\ tracker.copyEnabled
  <2>1. tracker' = [tracker EXCEPT !.changed = @ \cup tracker.copied,
                                   !.copied = {}, !.copyEnabled = FALSE]
    BY <1>1 DEF SetCopyRect, EnableCopyRect
  <2>2. /\ tracker' \in Tracker
        /\ tracker'.changed = tracker.changed \cup tracker.copied
        /\ tracker'.copied = {}
    BY <2>1 DEF TypeOK, Tracker
  <2> QED BY <2>2 DEF SetCopyRect, TypeOK, Sound, Accounts, NoCopyWhenDisabled
<1>2. CASE enable \/ ~tracker.copyEnabled
  <2>1. tracker' = [tracker EXCEPT !.copyEnabled = enable]
    BY <1>2 DEF SetCopyRect, EnableCopyRect
  <2>2. /\ tracker' \in Tracker
        /\ tracker'.changed = tracker.changed
        /\ tracker'.copied = tracker.copied
        /\ tracker'.delta = tracker.delta
        /\ tracker'.copyEnabled = enable
    BY <2>1 DEF TypeOK, Tracker
  <2> QED BY <1>2, <2>2 DEF SetCopyRect, TypeOK, Sound, Accounts, NoCopyWhenDisabled
<1> QED BY <1>1, <1>2

\* An update brings the picture up to date.
LEMMA SendUpdateMirrors ==
  ASSUME Inv, SendUpdate
  PROVE  mirror' = fb /\ fb' = fb
<1>1. /\ tracker \in Tracker
      /\ fb \in [Screen -> Color] /\ mirror \in [Screen -> Color]
      /\ Accounts(tracker, fb, mirror)
  BY DEF Inv, TypeOK, Sound, Picture
<1>2. ApplyUpdate(mirror, UpdateInfo(tracker, Screen), fb) = fb
  BY <1>1, ApplyUpdateCatchesUp
<1> QED BY <1>2 DEF SendUpdate

\* An update is sent.
LEMMA SendUpdateInv ==
  ASSUME Inv, SendUpdate
  PROVE  Inv'
<1> USE DEF Inv
<1>1. /\ tracker' \in Tracker
      /\ tracker'.changed = {}
      /\ tracker'.copied = {}
  BY DEF SendUpdate, ClearTracker, Normalize, TypeOK, Tracker
<1>2. mirror' = fb /\ fb' = fb
  BY SendUpdateMirrors
<1> QED BY <1>1, <1>2 DEF TypeOK, Sound, Accounts, NoCopyWhenDisabled

\* Every step keeps the invariant.
LEMMA NextInv == Inv /\ [Next]_vars => Inv'
<1> SUFFICES ASSUME Inv, [Next]_vars PROVE Inv'
  OBVIOUS
<1>1. ASSUME NEW R \in SUBSET Canvas, NEW c \in Color, Draw(R, c) PROVE Inv'
  BY <1>1, DrawInv
<1>2. ASSUME NEW dest \in SUBSET Canvas, NEW d \in Delta, NEW c \in Color,
             Scroll(dest, d, c)
      PROVE  Inv'
  BY <1>2, ScrollInv
<1>3. ASSUME NEW enable \in BOOLEAN, SetCopyRect(enable) PROVE Inv'
  BY <1>3, SetCopyRectInv
<1>4. CASE SendUpdate
  BY <1>4, SendUpdateInv
<1>5. CASE UNCHANGED vars
  BY <1>5 DEF vars, Inv, TypeOK, Sound, NoCopyWhenDisabled
<1> QED BY <1>1, <1>2, <1>3, <1>4, <1>5 DEF Next

\* The regions of the tracker stay on the screen (ClippingUpdateTracker).
THEOREM TypeCorrect == Spec => []TypeOK
<1> QED BY InitInv, NextInv, PTL DEF Spec, Inv

\* The tracker is a correct account whatever was drawn, scrolled, sent and
\* renegotiated before, in any order.
THEOREM TrackerSound == Spec => []Sound
<1> QED BY InitInv, NextInv, PTL DEF Spec, Inv

\* Without CopyRect no copy is pending.
THEOREM CopyRectRespected == Spec => []NoCopyWhenDisabled
<1> QED BY InitInv, NextInv, PTL DEF Spec, Inv

\* The tracked screen implements ScreenMirror: the desktop's actions are
\* changes of the framebuffer, and an update makes the picture equal to it.
THEOREM ImplementsMirror == Spec => MirrorSpec
<1>1. Init => Mirror!Init
  BY DEF Init, Mirror!Init, Picture, Mirror!Picture
<1>2. Inv /\ Inv' /\ [Next]_vars => [Mirror!Next]_(Mirror!mirrorVars)
  <2> SUFFICES ASSUME Inv, Inv', [Next]_vars
               PROVE  Mirror!Change \/ Mirror!Sync \/ UNCHANGED <<fb, mirror>>
    BY DEF Mirror!Next, Mirror!mirrorVars
  <2>1. fb' \in Mirror!Picture
    BY DEF Inv, TypeOK, Picture, Mirror!Picture
  <2>2. CASE SendUpdate
    BY <2>2, SendUpdateMirrors DEF Mirror!Sync
  <2>3. CASE UNCHANGED mirror
    BY <2>1, <2>3 DEF Mirror!Change
  <2>4. CASE UNCHANGED vars
    BY <2>4 DEF vars
  <2> QED BY <2>2, <2>3, <2>4 DEF Next, Draw, Scroll, SetCopyRect
<1> QED BY <1>1, <1>2, InitInv, NextInv, PTL DEF Spec, MirrorSpec, Mirror!Spec
-----------------------------------------------------------------------------
\* Every hook reports what its operation paints on the screen.
ReportsAll == \A d \in Drawings : d.painted \cap Screen \subseteq d.reported

\* A drawing of the X server, if it is reported at least where it paints.
LEMMA OperationInv ==
  ASSUME ReportsAll, Inv, NEW d \in Drawings, NEW c \in Color, Operation(d, c)
  PROVE  Inv'
<1> USE ScreenAssumption DEF Inv
<1> DEFINE seen == d.reported \cap Screen
<1>1. seen \in SUBSET Point /\ seen \subseteq Screen /\ tracker \in Tracker
  BY DEF TypeOK
<1>2. tracker' = AddChanged(tracker, seen) /\ mirror' = mirror
  BY DEF Operation, ClippedAddChanged
<1>3. /\ fb' \in Picture
      /\ \A p \in Screen : p \notin seen => fb'[p] = fb[p]
  BY DEF Operation, ReportsAll, TypeOK, Picture
<1> HIDE DEF seen
<1>4. DOMAIN fb = Screen /\ DOMAIN fb' = Screen
  BY <1>3 DEF TypeOK, Picture
<1>5. Accounts(tracker, fb, mirror)
  BY DEF Sound
<1>6. Accounts(AddChanged(tracker, seen), fb', mirror)
  BY <1>1, <1>3, <1>4, <1>5, AddChangedAccounts
<1>7. Sound'
  BY <1>2, <1>6 DEF Sound
<1>8. TypeOK'
  BY <1>1, <1>2, <1>3, AddChangedType DEF TypeOK
<1>9. NoCopyWhenDisabled'
  BY <1>1, <1>2, AddChangedType DEF NoCopyWhenDisabled
<1> QED BY <1>7, <1>8, <1>9

\* The clipping leaves a copy alone that has its source on the screen.
LEMMA UnclippedCopy ==
  ASSUME NEW t \in Tracker, NEW R \in SUBSET Screen, NEW d \in Point,
         \A p \in R : Shift(p, Negate(d)) \in Screen
  PROVE  ClippedAddCopied(t, R, d, Screen) = AddCopied(t, R, d)
<1> USE ScreenAssumption
<1> DEFINE visible == Translate(Translate(R, Negate(d)) \cap Screen, d)
<1>1. R \cap Screen = R /\ R \in SUBSET Point /\ Screen \in SUBSET Point
  OBVIOUS
<1>2. visible = R
  <2>1. visible = {p \in R : Shift(p, Negate(d)) \in Screen}
    BY <1>1, SourcesIn
  <2> QED BY <2>1
<1>3. ClippedAddCopied(t, R, d, Screen) = AddChanged(AddCopied(t, visible, d), R \ visible)
  BY <1>1 DEF ClippedAddCopied
<1>4. AddCopied(t, R, d) \in Tracker
  BY <1>1, AddCopiedType
<1>5. \A u \in Tracker : AddChanged(u, {}) = u
  BY DEF AddChanged, Tracker
<1> QED BY <1>2, <1>3, <1>4, <1>5

\* A copy within the screen, and after it anything drawn in rest.
LEMMA CopyAndDrawInv ==
  ASSUME Inv, NEW moved \in SUBSET Screen, NEW rest \in SUBSET Screen, NEW d \in Delta,
         fb' \in Picture, mirror' = mirror,
         tracker' = AddChanged(AddCopied(tracker, moved, d), rest),
         \A p \in moved : Shift(p, Negate(d)) \in Screen,
         \A p \in Screen : p \in moved /\ p \notin rest => fb'[p] = fb[Shift(p, Negate(d))],
         \A p \in Screen : p \notin moved /\ p \notin rest => fb'[p] = fb[p]
  PROVE  Inv'
<1> USE ScreenAssumption, DeltaAssumption DEF Inv
<1> DEFINE step == [p \in Screen |-> IF p \in moved THEN fb[Shift(p, Negate(d))] ELSE fb[p]]
           copied == AddCopied(tracker, moved, d)
<1>1. /\ moved \in SUBSET Point /\ rest \in SUBSET Point /\ d \in Point
      /\ Screen \in SUBSET Point /\ tracker \in Tracker
  BY DEF TypeOK
<1>2. DOMAIN fb = Screen /\ DOMAIN fb' = Screen /\ DOMAIN step = Screen
  BY DEF TypeOK, Picture
<1>3. /\ \A p \in Screen : p \notin moved => step[p] = fb[p]
      /\ \A p \in Screen : p \in moved =>
           Shift(p, Negate(d)) \in Screen /\ step[p] = fb[Shift(p, Negate(d))]
      /\ \A p \in Screen : p \notin rest => fb'[p] = step[p]
  OBVIOUS
<1> HIDE DEF step
<1>4. Accounts(copied, step, mirror)
  BY <1>1, <1>2, <1>3, AddCopiedAccounts DEF Sound
<1>5. /\ copied \in Tracker
      /\ copied.copyEnabled = tracker.copyEnabled
      /\ copied.changed \cup copied.copied \subseteq tracker.changed \cup tracker.copied \cup moved
      /\ ~tracker.copyEnabled => copied.copied = tracker.copied
  BY <1>1, AddCopiedType
<1>6. tracker' = AddChanged(copied, rest)
  OBVIOUS
<1> HIDE DEF copied
<1>7. Accounts(AddChanged(copied, rest), fb', mirror)
  BY <1>1, <1>2, <1>3, <1>4, <1>5, AddChangedAccounts
<1>8. Sound'
  BY <1>6, <1>7 DEF Sound
<1>9. /\ tracker' \in Tracker
      /\ tracker'.changed = copied.changed \cup rest
      /\ tracker'.copied = copied.copied
      /\ tracker'.copyEnabled = copied.copyEnabled
  BY <1>1, <1>5, <1>6, AddChangedType
<1>10. TypeOK'
  BY <1>5, <1>9 DEF TypeOK
<1>11. NoCopyWhenDisabled'
  BY <1>5, <1>9 DEF NoCopyWhenDisabled
<1> QED BY <1>8, <1>10, <1>11

\* CopyArea, of what could be seen of its source.
LEMMA CopyAreaInv ==
  ASSUME Inv, NEW dst \in Areas, NEW clipList \in ClipLists, NEW d \in Delta, NEW c \in Color,
         CopyArea(dst, clipList, d, c)
  PROVE  Inv'
<1> USE ScreenAssumption, DeltaAssumption, AreaAssumption, ClipAssumption
<1> DEFINE src == Translate(Translate(dst, Negate(d)) \cap clipList, d)
<1>1. /\ dst \in SUBSET Screen /\ clipList \in SUBSET Screen /\ d \in Point
      /\ dst \in SUBSET Point /\ clipList \in SUBSET Point
  OBVIOUS
<1>2. src = {p \in dst : Shift(p, Negate(d)) \in clipList}
  BY <1>1, SourcesIn
<1>3. /\ mirror' = mirror
      /\ fb' = [p \in Screen |-> IF p \notin dst THEN fb[p]
                                 ELSE IF p \in src THEN fb[Shift(p, Negate(d))] ELSE c]
      /\ tracker' = ClippedAddChanged(ClippedAddCopied(tracker, dst \cap src, d, Screen),
                                      dst \ src, Screen)
  BY DEF CopyArea
<1>4. /\ src \in SUBSET Screen /\ dst \ src \in SUBSET Screen /\ dst \cap src = src
      /\ \A p \in src : Shift(p, Negate(d)) \in Screen
  BY <1>1, <1>2
<1>5. fb' \in Picture
  BY <1>3, <1>4 DEF Inv, TypeOK, Picture
<1>6. \A p \in Screen : p \in src /\ p \notin dst \ src => fb'[p] = fb[Shift(p, Negate(d))]
  BY <1>2, <1>3
<1>7. \A p \in Screen : p \notin src /\ p \notin dst \ src => fb'[p] = fb[p]
  BY <1>3
<1>8. tracker \in Tracker
  BY DEF Inv, TypeOK
<1> HIDE DEF src
<1>9. ClippedAddCopied(tracker, dst \cap src, d, Screen) = AddCopied(tracker, src, d)
  BY <1>1, <1>4, <1>8, UnclippedCopy
<1>10. (dst \ src) \cap Screen = dst \ src
  BY <1>4
<1>11. tracker' = AddChanged(AddCopied(tracker, src, d), dst \ src)
  BY <1>3, <1>9, <1>10 DEF ClippedAddChanged
<1> DEFINE rest == dst \ src
<1>12. /\ src \in SUBSET Screen /\ rest \in SUBSET Screen
       /\ \A p \in src : Shift(p, Negate(d)) \in Screen
       /\ tracker' = AddChanged(AddCopied(tracker, src, d), rest)
       /\ \A p \in Screen : p \in src /\ p \notin rest => fb'[p] = fb[Shift(p, Negate(d))]
       /\ \A p \in Screen : p \notin src /\ p \notin rest => fb'[p] = fb[p]
  BY <1>4, <1>6, <1>7, <1>11
<1> HIDE DEF rest
<1>13. mirror' = mirror
  BY <1>3
<1> QED BY <1>5, <1>12, <1>13, CopyAndDrawInv

\* CopyWindow, when a window has moved.
LEMMA CopyWindowInv ==
  ASSUME Inv, NEW old \in Areas, NEW borderClip \in ClipLists, NEW d \in Delta,
         CopyWindow(old, borderClip, d)
  PROVE  Inv'
<1> USE ScreenAssumption, DeltaAssumption, AreaAssumption, ClipAssumption
<1> DEFINE copied == Translate(old \cap Screen, d) \cap Screen \cap borderClip
<1>1. old \cap Screen \in SUBSET Point /\ d \in Point /\ Screen \in SUBSET Point
  OBVIOUS
<1>2. \A p \in Point : p \in Translate(old \cap Screen, d)
                         <=> Shift(p, Negate(d)) \in old \cap Screen
  BY <1>1, TranslateElement
<1>3. copied \in SUBSET Screen /\ \A p \in copied : Shift(p, Negate(d)) \in Screen
  BY <1>1, <1>2
<1>4. /\ mirror' = mirror
      /\ fb' = [p \in Screen |-> IF p \in copied THEN fb[Shift(p, Negate(d))] ELSE fb[p]]
      /\ tracker' = ClippedAddCopied(tracker, copied, d, Screen)
  BY DEF CopyWindow
<1> HIDE DEF copied
<1>5. tracker \in Tracker /\ AddCopied(tracker, copied, d) \in Tracker
  BY <1>1, <1>3, AddCopiedType DEF Inv, TypeOK
<1>6. tracker' = AddCopied(tracker, copied, d)
  BY <1>1, <1>3, <1>4, <1>5, UnclippedCopy
<1>7. tracker' = AddChanged(AddCopied(tracker, copied, d), {})
  BY <1>5, <1>6 DEF AddChanged, Tracker
<1>8. fb' \in Picture
  BY <1>3, <1>4 DEF Inv, TypeOK, Picture
<1>9. /\ \A p \in Screen : p \in copied /\ p \notin {} => fb'[p] = fb[Shift(p, Negate(d))]
      /\ \A p \in Screen : p \notin copied /\ p \notin {} => fb'[p] = fb[p]
  BY <1>4
<1>10. {} \in SUBSET Screen
  OBVIOUS
<1> QED BY <1>3, <1>4, <1>7, <1>8, <1>9, <1>10, CopyAndDrawInv

\* Every step of the X server keeps the invariant.
LEMMA HookedNextInv ==
  ASSUME ReportsAll
  PROVE  Inv /\ [HookedNext]_vars => Inv'
<1> SUFFICES ASSUME Inv, [HookedNext]_vars PROVE Inv'
  OBVIOUS
<1>1. CASE [Next]_vars
  BY <1>1, NextInv
<1>2. ASSUME NEW d \in Drawings, NEW c \in Color, Operation(d, c) PROVE Inv'
  BY <1>2, OperationInv
<1>3. ASSUME NEW dst \in Areas, NEW clipList \in ClipLists, NEW d \in Delta, NEW c \in Color,
             CopyArea(dst, clipList, d, c)
      PROVE  Inv'
  BY <1>3, CopyAreaInv
<1>4. ASSUME NEW old \in Areas, NEW borderClip \in ClipLists, NEW d \in Delta,
             CopyWindow(old, borderClip, d)
      PROVE  Inv'
  BY <1>4, CopyWindowInv
<1> QED BY <1>1, <1>2, <1>3, <1>4 DEF HookedNext

\* The X server's operations keep the tracker a correct account, in whatever order they
\* come and between whatever updates, if no hook reports less than is painted: the
\* copies of CopyArea and CopyWindow bring in nothing that the server has not seen.
THEOREM HookedSound == ASSUME ReportsAll PROVE HookedSpec => []Sound
<1>1. Inv /\ [HookedNext]_vars => Inv'
  BY HookedNextInv
<1> QED BY <1>1, InitInv, PTL DEF HookedSpec, Inv

\* Below an X server, too, no copy is pending without CopyRect.
THEOREM HookedCopyRectRespected == ASSUME ReportsAll PROVE HookedSpec => []NoCopyWhenDisabled
<1>1. Inv /\ [HookedNext]_vars => Inv'
  BY HookedNextInv
<1> QED BY <1>1, InitInv, PTL DEF HookedSpec, Inv

\* And the viewer's picture changes only by becoming the framebuffer.
THEOREM HookedImplementsMirror == ASSUME ReportsAll PROVE HookedSpec => MirrorSpec
<1>1. Init => Mirror!Init
  BY DEF Init, Mirror!Init, Picture, Mirror!Picture
<1>2. Inv /\ Inv' /\ [HookedNext]_vars => [Mirror!Next]_(Mirror!mirrorVars)
  <2> SUFFICES ASSUME Inv, Inv', [HookedNext]_vars
               PROVE  Mirror!Change \/ Mirror!Sync \/ UNCHANGED <<fb, mirror>>
    BY DEF Mirror!Next, Mirror!mirrorVars
  <2>1. fb' \in Mirror!Picture
    BY DEF Inv, TypeOK, Picture, Mirror!Picture
  <2>2. CASE SendUpdate
    BY <2>2, SendUpdateMirrors DEF Mirror!Sync
  <2>3. CASE UNCHANGED mirror
    BY <2>1, <2>3 DEF Mirror!Change
  <2>4. CASE UNCHANGED vars
    BY <2>4 DEF vars
  <2>5. CASE Next
    BY <2>2, <2>3, <2>5 DEF Next, Draw, Scroll, SetCopyRect
  <2>6. ASSUME HookedNext, ~Next PROVE UNCHANGED mirror
    BY <2>6 DEF HookedNext, Operation, CopyArea, CopyWindow
  <2> QED BY <2>3, <2>4, <2>5, <2>6
<1>3. Inv /\ [HookedNext]_vars => Inv'
  BY HookedNextInv
<1> QED BY <1>1, <1>2, <1>3, InitInv, PTL DEF HookedSpec, MirrorSpec, Mirror!Spec
=============================================================================
