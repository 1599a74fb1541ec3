------------------------ MODULE RenderedCursorProofs ------------------------
(***************************************************************************)
(* Proofs about RenderedCursor, for every screen, every set of cursors and *)
(* every set of scroll distances, whoever moves the pointer and whenever:  *)
(* as long as no cursor went astray nothing of one is left behind in the   *)
(* viewer's picture, and the cursor of a viewer that cannot draw it is     *)
(* whole.                                                                  *)
(*                                                                         *)
(* The inductive invariant is Inv.  It compares the viewer's picture not   *)
(* with the framebuffer but with base, what it would be without a cursor:  *)
(* the trackers lead from base to the framebuffer, and the two pictures    *)
(* differ only where the server knows it has drawn the cursor, or where    *)
(* pixels will be sent.  One lemma for each part of writeFramebufferUpdate *)
(* (checking, removing old cursors, placing the new one, sending) keeps    *)
(* it, and so does every action.                                           *)
(***************************************************************************)
EXTENDS RenderedCursor, UpdateTrackerProofs

\* With the cursor on top of it: what the viewer sees of a picture at p.
Over(desk, pic, p) == IF p \in CursorMask(desk) THEN Mark ELSE pic[p]

\* Where the viewer's picture differs from base it is because of the cursor that the
\* server knows of, or it will be sent; and no copy takes anything else along.
Clean(view, t, rect, base) ==
  /\ \A p \in Screen : view[p] # base[p] => p \in t.changed \cup rect
  /\ \A p \in t.copied \ t.changed :
       LET q == Shift(p, Negate(t.delta)) IN view[q] # base[q] => q \in rect

\* The server knows where the cursor is, in the viewer's picture and in its own.
Placing(s, c, desk) ==
  /\ ~s.renderedCursorInvalid => DOMAIN s.renderedCursor = CursorRect(desk)
  /\ c.removeRenderedCursor \/ c.renderedCursorRect \in {{}, CursorRect(desk)}

\* What is to be drawn is on what is in the framebuffer now, but for what is pending.
Rendered(s, c, desk) ==
  ~c.supportsLocalCursor /\ ~s.renderedCursorInvalid =>
    \A p \in CursorRect(desk) :
      p \notin s.pending.changed \cup s.pending.copied
        => s.renderedCursor[p] = Over(desk, desk.fb, p)

\* Whoever cannot draw the cursor has it, is about to, or is sent the whole screen.
Drawing(c, desk) ==
  ~c.supportsLocalCursor =>
    /\ c.removeRenderedCursor => c.drawRenderedCursor
    /\ \/ c.drawRenderedCursor \/ c.renderedCursorRect = CursorRect(desk)
       \/ c.updates.changed = Screen

\* The cursor that is not to be removed or drawn is in the viewer's picture, on base.
Intact(c, desk, base) ==
  ~c.supportsLocalCursor /\ ~c.removeRenderedCursor /\ ~c.drawRenderedCursor =>
    \A p \in c.renderedCursorRect \ c.updates.changed : c.view[p] = Over(desk, base, p)

\* No cursor went astray for a client whose need of it never changes.
Steady(c) == ~c.supportsLocalCursor => ~c.astray

Picture == [Screen -> Color]

\* The trackers lead from base, by way of mid, to the framebuffer.
Good(s, c, desk, mid, base) ==
  /\ mid \in Picture /\ base \in Picture
  /\ Accounts(s.pending, desk.fb, mid) /\ Accounts(c.updates, mid, base)
  /\ c.requested \in {{}, Screen}
  /\ ~c.astray => /\ Clean(c.view, c.updates, c.renderedCursorRect, base)
                  /\ Placing(s, c, desk)
  /\ ~SwitchesBack => /\ Steady(c) /\ Rendered(s, c, desk) /\ Drawing(c, desk)
                      /\ Intact(c, desk, base)

Typed(s, c, desk) ==
  /\ desk \in Desktop /\ s \in Server /\ c \in Conn
  /\ s.pending.changed \cup s.pending.copied \subseteq Screen
  /\ c.updates.changed \cup c.updates.copied \subseteq Screen

Sound(s, c, desk) ==
  /\ Typed(s, c, desk)
  /\ \E mid, base : Good(s, c, desk, mid, base)

Inv == Sound(server, conn, desktop)

\* A viewer asks for the whole screen.
WholeRequests == Requests \subseteq {Screen}
-----------------------------------------------------------------------------
\* What is also sent as changed pixels does no harm.
LEMMA ChangedClean ==
  ASSUME NEW t \in Tracker, NEW R \in SUBSET Point, NEW view, NEW rect, NEW base,
         Clean(view, t, rect, base)
  PROVE  Clean(view, AddChanged(t, R), rect, base)
BY AddChangedType DEF Clean

\* A copy is of pixels that were right, or it is sent as changed pixels.
LEMMA CopiedClean ==
  ASSUME NEW t \in Tracker, NEW dest \in SUBSET Point, NEW d \in Point,
         NEW view, NEW rect, NEW base, Clean(view, t, rect, base),
         \A p \in dest : Shift(p, Negate(d)) \in Screen
  PROVE  Clean(view, AddCopied(t, dest, d), rect, base)
<1>1. CASE ~t.copyEnabled
  BY <1>1, ChangedClean DEF AddCopied
<1>2. CASE t.copyEnabled /\ dest = {}
  BY <1>2 DEF AddCopied
<1>3. CASE t.copyEnabled /\ dest # {} /\ Translate(dest, Negate(d)) \cap t.copied = {}
  <2>1. AddCopied(t, dest, d) = AddFreshCopy(t, dest, d)
    BY <1>3 DEF AddCopied
  <2>2. CASE BoundingArea(t.copied) > BoundingArea(dest)
    BY <2>1, <2>2, ChangedClean DEF AddFreshCopy
  <2>3. CASE ~(BoundingArea(t.copied) > BoundingArea(dest))
    <3> DEFINE u == AddFreshCopy(t, dest, d)
    <3>1. FreshCopyResult(u, t, dest, d)
      BY <2>3, AddFreshCopyResult
    <3> HIDE DEF u
    <3>2. \A p \in u.copied \ u.changed :
             LET q == Shift(p, Negate(u.delta))
             IN q \in Screen /\ q \notin t.changed
      BY <3>1 DEF FreshCopyResult
    <3>3. t.changed \subseteq u.changed
      BY <3>1 DEF FreshCopyResult
    <3> QED BY <2>1, <3>2, <3>3 DEF Clean, u
  <2> QED BY <2>2, <2>3
<1>4. CASE t.copyEnabled /\ dest # {} /\ Translate(dest, Negate(d)) \cap t.copied # {}
  <2>1. AddCopied(t, dest, d) = AddContinuedCopy(t, dest, d)
    BY <1>4 DEF AddCopied
  <2> DEFINE u == AddContinuedCopy(t, dest, d)
  <2>2. ContinuedCopyResult(u, t, dest, d)
    BY AddContinuedCopyResult
  <2> HIDE DEF u
  <2>3. t.changed \subseteq u.changed
    BY <2>2 DEF ContinuedCopyResult
  <2>4. ASSUME NEW p \in u.copied \ u.changed
        PROVE  LET q == Shift(p, Negate(u.delta)) IN view[q] # base[q] => q \in rect
    <3>1. p \in dest /\ Shift(p, Negate(d)) \in t.copied \ t.changed /\ p \in Point
      BY <2>2 DEF ContinuedCopyResult
    <3>2. t.delta \in Point
      BY DEF Tracker
    <3>3. Shift(p, Negate(u.delta)) = Shift(Shift(p, Negate(d)), Negate(t.delta))
      BY <2>2, <3>1, <3>2, ShiftTwice DEF ContinuedCopyResult
    <3> QED BY <3>1, <3>3 DEF Clean
  <2> QED BY <2>1, <2>3, <2>4 DEF Clean, u
<1> QED BY <1>1, <1>2, <1>3, <1>4

\* The types of trackers within the screen.
Within(t) == t \in Tracker /\ t.changed \cup t.copied \subseteq Screen

\* A change within the screen leaves the tracker within it.
LEMMA ChangedWithin ==
  ASSUME NEW t, Within(t), NEW R \in SUBSET Screen
  PROVE  /\ Within(AddChanged(t, R)) /\ t.changed \subseteq AddChanged(t, R).changed
         /\ AddChanged(t, R).changed = t.changed \cup R
         /\ AddChanged(t, R).copied = t.copied /\ AddChanged(t, R).delta = t.delta
BY ScreenAssumption, AddChangedType DEF Within

\* So does a copy.
LEMMA CopiedWithin ==
  ASSUME NEW t, Within(t), NEW dest \in SUBSET Screen, NEW d \in Point
  PROVE  Within(AddCopied(t, dest, d)) /\ t.changed \subseteq AddCopied(t, dest, d).changed
<1> DEFINE u == AddCopied(t, dest, d)
<1>0. t \in Tracker /\ dest \in SUBSET Point
  BY ScreenAssumption DEF Within
<1>1. u \in Tracker /\ u.changed \cup u.copied \subseteq t.changed \cup t.copied \cup dest
  BY <1>0, AddCopiedType
<1>2. CASE ~t.copyEnabled
  BY <1>0, <1>1, <1>2, AddChangedType DEF AddCopied, Within
<1>3. CASE t.copyEnabled /\ dest = {}
  BY <1>3 DEF AddCopied
<1>4. CASE t.copyEnabled /\ dest # {} /\ Translate(dest, Negate(d)) \cap t.copied = {}
  <2>1. u = AddFreshCopy(t, dest, d)
    BY <1>4 DEF AddCopied
  <2>2. CASE BoundingArea(t.copied) > BoundingArea(dest)
    BY <1>0, <1>1, <2>1, <2>2, AddChangedType DEF AddFreshCopy, Within
  <2>3. CASE ~(BoundingArea(t.copied) > BoundingArea(dest))
    <3>1. FreshCopyResult(u, t, dest, d)
      BY <1>0, <2>1, <2>3, AddFreshCopyResult
    <3> QED BY <1>1, <3>1 DEF FreshCopyResult, Within
  <2> QED BY <2>2, <2>3
<1>5. CASE t.copyEnabled /\ dest # {} /\ Translate(dest, Negate(d)) \cap t.copied # {}
  <2>1. u = AddContinuedCopy(t, dest, d)
    BY <1>5 DEF AddCopied
  <2>2. ContinuedCopyResult(u, t, dest, d)
    BY <1>0, <2>1, AddContinuedCopyResult
  <2> QED BY <1>1, <2>2 DEF ContinuedCopyResult, Within
<1> QED BY <1>2, <1>3, <1>4, <1>5

\* A tracker with everything of info replayed into it.
LEMMA ReplayKeeps ==
  ASSUME NEW t, Within(t), NEW view, NEW rect, NEW base,
         NEW pending, Within(pending), NEW fb \in Picture, NEW mid \in Picture,
         base \in Picture,
         Accounts(pending, fb, mid), Accounts(t, mid, base)
  PROVE  LET u == Replay(t, UpdateInfo(pending, Screen))
         IN /\ Within(u) /\ t.changed \subseteq u.changed
            /\ Clean(view, t, rect, base) => Clean(view, u, rect, base)
            /\ Accounts(u, fb, base)
<1> DEFINE info == UpdateInfo(pending, Screen)
           v == AddCopied(t, info.copied, info.delta)
           u == AddChanged(v, info.changed)
<1>1. /\ info.copied = pending.copied \ pending.changed /\ info.changed = pending.changed
      /\ info.delta = pending.delta /\ info.copied \in SUBSET Screen
      /\ info.changed \in SUBSET Screen /\ info.delta \in Point
      /\ info.copied \cap info.changed = {}
  BY DEF UpdateInfo, Within, Tracker
<1>2. Accounts(info, fb, mid)
  BY <1>1 DEF Accounts
<1>3. DOMAIN fb = Screen /\ DOMAIN mid = Screen
  BY DEF Picture
<1>4. \A p \in info.copied : Shift(p, Negate(info.delta)) \in Screen
  BY <1>1, <1>2, <1>3 DEF Accounts
<1>5. Replay(t, info) = u
  BY DEF Replay
<1> HIDE DEF info
<1>6. t \in Tracker /\ info.copied \in SUBSET Point /\ info.changed \in SUBSET Point
  BY <1>1, ScreenAssumption DEF Within
<1>7. Within(v) /\ t.changed \subseteq v.changed
  BY <1>1, CopiedWithin
<1>8. Clean(view, t, rect, base) => Clean(view, v, rect, base)
  BY <1>1, <1>4, <1>6, CopiedClean
<1>9. Accounts(u, fb, base)
  BY <1>1, <1>2, <1>3, <1>5, <1>6, ScreenAssumption, ReplayAccounts
<1> HIDE DEF v
<1>10. Within(u) /\ v.changed \subseteq u.changed
  BY <1>1, <1>7, ChangedWithin
<1>11. Clean(view, t, rect, base) => Clean(view, u, rect, base)
  BY <1>6, <1>7, <1>8, ChangedClean DEF Within
<1> QED BY <1>5, <1>7, <1>9, <1>10, <1>11 DEF info

\* The connection's fields other than its tracker.
SameConn(c, d) ==
  /\ d.requested = c.requested /\ d.supportsLocalCursor = c.supportsLocalCursor
  /\ d.drawRenderedCursor = c.drawRenderedCursor
  /\ d.removeRenderedCursor = c.removeRenderedCursor
  /\ d.renderedCursorRect = c.renderedCursorRect
  /\ d.view = c.view /\ d.astray = c.astray

\* The connection's tracker is replaced, and nothing else of it.
LEMMA TrackerSet ==
  ASSUME NEW c \in Conn, NEW u, Within(u)
  PROVE  /\ [c EXCEPT !.updates = u] \in Conn /\ [c EXCEPT !.updates = u].updates = u
         /\ SameConn(c, [c EXCEPT !.updates = u])
BY DEF Conn, SameConn, Within

\* The comparer is empty, and the cursor is rendered for whoever needs it.
Checked(s, c) ==
  /\ s.pending.changed = {} /\ s.pending.copied = {}
  /\ ~c.supportsLocalCursor => ~s.renderedCursorInvalid

\* The rendered cursor: where it is, and its pixels over the framebuffer.
LEMMA RenderType ==
  ASSUME NEW desk \in Desktop
  PROVE  /\ Render(desk) \in Patches /\ DOMAIN Render(desk) = CursorRect(desk)
         /\ CursorRect(desk) \subseteq Screen
         /\ \A p \in CursorRect(desk) : Render(desk)[p] = Over(desk, desk.fb, p)
<1>1. CursorRect(desk) \in SUBSET Screen
  BY DEF CursorRect
<1>2. Render(desk) \in [CursorRect(desk) -> Color \cup {Mark}]
  BY <1>1 DEF Render, Desktop
<1>3. \A p \in CursorRect(desk) : Render(desk)[p] = Over(desk, desk.fb, p)
  BY DEF Render, Over
<1> QED BY <1>1, <1>2, <1>3 DEF Patches

\* VNCServerST::checkUpdate hands the changes to the client.
LEMMA CheckUpdateKeeps ==
  ASSUME NEW s, NEW c, NEW desk, NEW mid, NEW base, Typed(s, c, desk),
         Good(s, c, desk, mid, base)
  PROVE  LET r == CheckUpdate(s, c, desk)
         IN /\ Typed(r[1], r[2], desk) /\ Good(r[1], r[2], desk, desk.fb, base)
            /\ Checked(r[1], r[2]) /\ SameConn(c, r[2])
<1> DEFINE toCheck == s.pending.changed \cup s.pending.copied
           renders == /\ NeedRenderedCursor(c, desk)
                      /\ s.renderedCursorInvalid \/ toCheck \cap CursorRect(desk) # {}
           quiet == toCheck = {} /\ ~(NeedRenderedCursor(c, desk) /\ s.renderedCursorInvalid)
           u == Replay(c.updates, UpdateInfo(s.pending, Screen))
           s1 == [pending |-> ClearTracker(s.pending),
                  renderedCursor |-> IF renders THEN Render(desk) ELSE s.renderedCursor,
                  renderedCursorInvalid |-> s.renderedCursorInvalid /\ ~renders]
           c1 == [c EXCEPT !.updates = u]
<1>1. CheckUpdate(s, c, desk) = IF quiet THEN <<s, c>> ELSE <<s1, c1>>
  BY Zenon DEF CheckUpdate
<1>2. desk \in Desktop /\ s \in Server /\ c \in Conn /\ desk.fb \in Picture
  BY DEF Typed, Desktop, Picture
<1>3. Within(s.pending) /\ Within(c.updates)
  BY <1>2 DEF Typed, Within, Server, Conn
<1>4. CASE quiet
  <2>1. s.pending.changed = {} /\ s.pending.copied = {}
    BY <1>4
  <2>2. mid = desk.fb
    BY <1>2, <2>1 DEF Good, Accounts, Picture
  <2>3. Checked(s, c) /\ SameConn(c, c)
    BY <1>4, <2>1 DEF Checked, SameConn, NeedRenderedCursor
  <2>4. CheckUpdate(s, c, desk) = <<s, c>>
    BY <1>1, <1>4
  <2> QED BY <2>2, <2>3, <2>4
<1>5. CASE ~quiet
  <2>1. CheckUpdate(s, c, desk) = <<s1, c1>>
    BY <1>1, <1>5
  <2>2. /\ Within(u) /\ c.updates.changed \subseteq u.changed
        /\ ~c.astray => Clean(c.view, u, c.renderedCursorRect, base)
        /\ Accounts(u, desk.fb, base)
    BY <1>2, <1>3, ReplayKeeps DEF Good
  <2> HIDE DEF u
  <2>3. c1 \in Conn /\ c1.updates = u /\ SameConn(c, c1)
    BY <1>2, <2>2, TrackerSet
  <2> HIDE DEF c1
  <2>4. ClearTracker(s.pending).changed = {} /\ ClearTracker(s.pending).copied = {}
        /\ ClearTracker(s.pending) \in Tracker
    BY <1>3 DEF Within, ClearTracker, Tracker
  <2> DEFINE cleared == ClearTracker(s.pending)
             patch == IF renders THEN Render(desk) ELSE s.renderedCursor
             invalid == s.renderedCursorInvalid /\ ~renders
  <2>5. patch \in Patches
    BY <1>2, RenderType DEF Server
  <2>6. invalid \in BOOLEAN /\ (~c.supportsLocalCursor => ~invalid)
    BY <1>2 DEF Server, NeedRenderedCursor
  <2>7. ~c.astray /\ ~invalid => DOMAIN patch = CursorRect(desk)
    BY <1>2, RenderType DEF Good, Placing
  <2>8. ~SwitchesBack /\ ~c.supportsLocalCursor /\ ~invalid =>
          \A p \in CursorRect(desk) : patch[p] = Over(desk, desk.fb, p)
    <3>1. CASE renders
      BY <1>2, <3>1, RenderType
    <3>2. CASE ~renders
      BY <3>2 DEF Good, Rendered, NeedRenderedCursor
    <3> QED BY <3>1, <3>2
  <2>9. s1 = [pending |-> cleared, renderedCursor |-> patch, renderedCursorInvalid |-> invalid]
    OBVIOUS
  <2> HIDE DEF cleared, patch, invalid, s1, renders, quiet, toCheck
  <2>10. /\ s1 \in Server /\ s1.pending = cleared /\ s1.renderedCursor = patch
         /\ s1.renderedCursorInvalid = invalid
    BY <2>4, <2>5, <2>6, <2>9 DEF Server, cleared
  <2>11. Typed(s1, c1, desk)
    BY <1>2, <2>2, <2>3, <2>4, <2>10 DEF Typed, Within, cleared
  <2>12. Accounts(s1.pending, desk.fb, desk.fb)
    BY <2>4, <2>10 DEF Accounts, cleared
  <2>13. ~c1.astray => Placing(s1, c1, desk)
    BY <2>3, <2>7, <2>10 DEF Placing, SameConn, Good
  <2>14. ~SwitchesBack => Rendered(s1, c1, desk) /\ Steady(c1)
    BY <2>3, <2>8, <2>10 DEF Rendered, SameConn, Good, Steady
  <2>15. ~SwitchesBack => Drawing(c1, desk) /\ Intact(c1, desk, base)
    <3>1. u.changed \subseteq Screen
      BY <2>2 DEF Within
    <3> QED BY <2>2, <2>3, <3>1 DEF Drawing, Intact, SameConn, Good
  <2>16. Good(s1, c1, desk, desk.fb, base)
    <3>1. base \in Picture /\ c1.requested \in {{}, Screen}
      BY <2>3 DEF Good, SameConn
    <3>2. /\ ~c1.astray => Clean(c1.view, c1.updates, c1.renderedCursorRect, base)
          /\ Accounts(c1.updates, desk.fb, base)
      BY <2>2, <2>3 DEF SameConn
    <3> QED BY <1>2, <2>12, <2>13, <2>14, <2>15, <3>1, <3>2 DEF Good
  <2>17. Checked(s1, c1)
    BY <2>3, <2>4, <2>6, <2>10 DEF Checked, SameConn, cleared
  <2> QED BY <2>1, <2>3, <2>11, <2>16, <2>17
<1> QED BY <1>4, <1>5

\* A normalized tracker accounts for the same, of which nothing is both copied and changed.
LEMMA NormalizeKeeps ==
  ASSUME NEW t, Within(t), NEW new, NEW old, Accounts(t, new, old),
         NEW view, NEW rect, NEW base
  PROVE  LET u == Normalize(t)
         IN /\ Within(u) /\ Accounts(u, new, old)
            /\ Clean(view, t, rect, base) => Clean(view, u, rect, base)
            /\ u.copied = t.copied \ t.changed
            /\ u.changed = t.changed /\ u.delta = t.delta
<1> DEFINE u == Normalize(t)
<1>1. /\ u \in Tracker /\ u.copied = t.copied \ t.changed /\ u.changed = t.changed
      /\ u.delta = t.delta
  BY DEF Normalize, Within, Tracker
<1> HIDE DEF u
<1>2. Within(u)
  BY <1>1 DEF Within
<1>3. Accounts(u, new, old)
  BY <1>1 DEF Accounts
<1>4. Clean(view, t, rect, base) => Clean(view, u, rect, base)
  BY <1>1 DEF Clean
<1> QED BY <1>1, <1>2, <1>3, <1>4 DEF u

\* No copy takes a cursor along, and none is to be removed.
Apart(c, base) ==
  /\ ~c.removeRenderedCursor
  /\ ~c.astray => \A p \in c.updates.copied \ c.updates.changed :
       LET q == Shift(p, Negate(c.updates.delta)) IN c.view[q] = base[q]

\* writeFramebufferUpdate, first part: old cursors are sent as changed pixels.
LEMMA UncursoredKeeps ==
  ASSUME NEW s, NEW c, NEW desk, NEW base, Typed(s, c, desk), c.requested = Screen,
         Good(s, c, desk, desk.fb, base), Checked(s, c)
  PROVE  LET d == Uncursored(c)
         IN /\ Typed(s, d, desk) /\ Good(s, d, desk, desk.fb, base) /\ Checked(s, d)
            /\ d.requested = Screen /\ Apart(d, base)
<1> DEFINE t == Normalize(c.updates)
           bogus == Translate(c.renderedCursorRect, t.delta) \cap Screen
           info == UpdateInfo(t, c.requested)
           taken == IF info.copied \cap bogus # {} THEN bogus ELSE {}
           old == IF c.removeRenderedCursor THEN c.renderedCursorRect ELSE {}
           u == AddChanged(t, taken \cup old)
           rect == IF c.removeRenderedCursor THEN {} ELSE c.renderedCursorRect
           d == [c EXCEPT !.updates = u, !.renderedCursorRect = rect,
                          !.removeRenderedCursor = FALSE]
<1>1. Uncursored(c) = d
  BY DEF Uncursored
<1>2. desk \in Desktop /\ s \in Server /\ c \in Conn /\ desk.fb \in Picture
      /\ Within(c.updates) /\ Within(s.pending)
  BY DEF Typed, Desktop, Picture, Within, Server, Conn
<1>3. /\ Within(t) /\ Accounts(t, desk.fb, base)
      /\ ~c.astray => Clean(c.view, t, c.renderedCursorRect, base)
      /\ t.copied \cap t.changed = {} /\ t.changed = c.updates.changed
  BY <1>2, NormalizeKeeps DEF Good
<1> HIDE DEF t
<1>4. bogus \in SUBSET Screen /\ taken \in SUBSET Screen /\ old \in SUBSET Screen
      /\ rect \in SUBSET Screen
  BY <1>2 DEF Conn
<1>5. t \in Tracker /\ t.delta \in Point /\ t.copied \subseteq Screen
      /\ c.renderedCursorRect \in SUBSET Point /\ Screen \subseteq Point
      /\ taken \cup old \in SUBSET Point
  BY <1>2, <1>3, <1>4, ScreenAssumption DEF Within, Tracker, Conn
<1>6. \A p \in t.copied : Shift(p, Negate(t.delta)) \in c.renderedCursorRect => p \in taken
  <2>1. info.copied = t.copied
    BY <1>3, <1>5 DEF UpdateInfo
  <2>2. \A p \in t.copied : Shift(p, Negate(t.delta)) \in c.renderedCursorRect => p \in bogus
    BY <1>5, TranslateElement
  <2> QED BY <2>1, <2>2
<1> HIDE DEF bogus, info, taken, old
<1>7. /\ Within(u) /\ u.changed = t.changed \cup taken \cup old
      /\ u.copied = t.copied /\ u.delta = t.delta
  BY <1>3, <1>4, ChangedWithin
<1>8. Accounts(u, desk.fb, base)
  BY <1>3, <1>5, AddChangedAccounts
<1> HIDE DEF u
<1>9. /\ d \in Conn /\ d.updates = u /\ d.renderedCursorRect = rect
      /\ d.removeRenderedCursor = FALSE
      /\ d.requested = c.requested /\ d.supportsLocalCursor = c.supportsLocalCursor
      /\ d.drawRenderedCursor = c.drawRenderedCursor
      /\ d.astray = c.astray /\ d.view = c.view
  <2> HIDE DEF rect
  <2> QED BY <1>2, <1>4, <1>7 DEF Conn, Within
<1> HIDE DEF d
<1>10. rect \cup u.changed = c.renderedCursorRect \cup u.changed
  BY <1>7 DEF old
<1>11. ASSUME ~d.astray PROVE Clean(d.view, u, rect, base)
  <2>1. \A p \in Screen : d.view[p] # base[p] => p \in u.changed \cup rect
    BY <1>3, <1>7, <1>9, <1>10, <1>11 DEF Clean
  <2>2. \A p \in u.copied \ u.changed :
          LET q == Shift(p, Negate(u.delta)) IN d.view[q] = base[q]
    BY <1>3, <1>6, <1>7, <1>9, <1>11 DEF Clean
  <2> QED BY <2>1, <2>2 DEF Clean
<1>12. Good(s, d, desk, desk.fb, base)
  <2>1. (~d.astray => Placing(s, d, desk)) /\ d.requested \in {{}, Screen}
    BY <1>9 DEF Good, Placing
  <2>2. ~SwitchesBack => Rendered(s, d, desk) /\ Steady(d)
    BY <1>9 DEF Good, Rendered, Steady
  <2>3. ~SwitchesBack => Drawing(d, desk)
    <3>1. u.changed \subseteq Screen
      BY <1>7 DEF Within
    <3> QED BY <1>3, <1>7, <1>9, <3>1 DEF Good, Drawing
  <2>4. ~SwitchesBack => Intact(d, desk, base)
    BY <1>3, <1>7, <1>9 DEF Good, Intact
  <2> QED BY <1>8, <1>9, <1>11, <2>1, <2>2, <2>3, <2>4 DEF Good
<1>13. Typed(s, d, desk) /\ Checked(s, d)
  BY <1>2, <1>7, <1>9 DEF Typed, Checked, Within
<1>14. Apart(d, base)
  BY <1>3, <1>6, <1>7, <1>9 DEF Apart, Clean
<1>15. d.requested = Screen
  BY <1>9
<1> HIDE DEF rect
<1> QED BY <1>1, <1>12, <1>13, <1>14, <1>15

\* Nothing that the invariant is about tells the two apart.
Alike(c, d) == d \in Conn /\ d.updates = c.updates /\ SameConn(c, d)

\* When the viewer moved the pointer, and whether it is to be sent the cursor, has no
\* part in the invariant.
LEMMA AlikeKeeps ==
  ASSUME NEW s, NEW c, NEW d, NEW desk, Alike(c, d)
  PROVE  /\ Typed(s, c, desk) => Typed(s, d, desk)
         /\ \A mid, base : Good(s, c, desk, mid, base) => Good(s, d, desk, mid, base)
         /\ Checked(s, c) => Checked(s, d)
         /\ \A base : Apart(c, base) => Apart(d, base)
<1>1. Typed(s, c, desk) => Typed(s, d, desk)
  BY DEF Alike, Typed
<1>2. Checked(s, c) => Checked(s, d)
  BY DEF Alike, SameConn, Checked
<1>3. \A base : Apart(c, base) => Apart(d, base)
  BY DEF Alike, SameConn, Apart
<1>4. /\ Placing(s, c, desk) => Placing(s, d, desk)
      /\ Rendered(s, c, desk) => Rendered(s, d, desk)
      /\ Drawing(c, desk) => Drawing(d, desk)
      /\ Steady(c) => Steady(d)
      /\ \A base : Intact(c, desk, base) => Intact(d, desk, base)
  BY DEF Alike, SameConn, Placing, Rendered, Drawing, Steady, Intact
<1>5. \A mid, base : Good(s, c, desk, mid, base) => Good(s, d, desk, mid, base)
  BY <1>4 DEF Alike, SameConn, Good
<1> QED BY <1>1, <1>2, <1>3, <1>5

\* So with the clock.
LEMMA LaterAlike ==
  ASSUME NEW c \in Conn, NEW d \in Later(c)
  PROVE  Alike(c, d)
<1>1. PICK late \in BOOLEAN : d = [c EXCEPT !.recent = late]
  BY DEF Later, Conn
<1> QED BY <1>1 DEF Alike, SameConn, Conn

\* The cursor that is drawn is where the server has it, and one that is not drawn is
\* not painted over.
Ready(s, c, desk) ==
  ~c.astray =>
    /\ c.drawRenderedCursor \/ ~c.supportsLocalCursor =>
         /\ DOMAIN s.renderedCursor = CursorRect(desk)
         /\ c.renderedCursorRect = CursorRect(desk)
    /\ \/ c.supportsLocalCursor \/ c.drawRenderedCursor
       \/ (c.updates.changed \cup c.updates.copied) \cap CursorRect(desk) = {}

\* The result r of Placed.
PlacedAs(r, s, c, desk) ==
  LET rect == DOMAIN s.renderedCursor
      drawsOver == (c.updates.changed \cup c.updates.copied) \cap rect # {}
  IN /\ r \in Conn /\ r.requested = c.requested
     /\ r.supportsLocalCursor = c.supportsLocalCursor
     /\ r.removeRenderedCursor = c.removeRenderedCursor
     /\ r.view = c.view /\ r.updates = c.updates
     /\ \/ /\ c.supportsLocalCursor
           /\ r.renderedCursorRect = c.renderedCursorRect
           /\ r.drawRenderedCursor = c.drawRenderedCursor
           /\ r.astray <=> c.astray \/ c.drawRenderedCursor
        \/ /\ r.renderedCursorRect = rect
           /\ r.drawRenderedCursor <=> rect # {} /\ (c.drawRenderedCursor \/ drawsOver)
           /\ r.astray <=> c.astray \/ s.renderedCursorInvalid

\* What placing the rendered cursor makes of the connection.
LEMMA PlacedResult ==
  ASSUME NEW s \in Server, NEW c \in Conn, NEW desk, c.requested = Screen,
         c.updates.changed \cup c.updates.copied \subseteq Screen
  PROVE  PlacedAs(Placed(s, c, desk), s, c, desk)
<1>1. c.astray \in BOOLEAN /\ c.drawRenderedCursor \in BOOLEAN
      /\ s.renderedCursorInvalid \in BOOLEAN
  BY DEF Conn, Server
<1>2. CASE ~NeedRenderedCursor(c, desk)
  <2> DEFINE strays == c.astray \/ c.drawRenderedCursor
             d == [c EXCEPT !.astray = strays]
  <2>1. Placed(s, c, desk) = d /\ c.supportsLocalCursor
    BY <1>2 DEF Placed, NeedRenderedCursor
  <2>2. strays \in BOOLEAN /\ (strays <=> c.astray \/ c.drawRenderedCursor)
    OBVIOUS
  <2> HIDE DEF strays
  <2>3. /\ d \in Conn /\ d.requested = c.requested
        /\ d.supportsLocalCursor = c.supportsLocalCursor
        /\ d.removeRenderedCursor = c.removeRenderedCursor
        /\ d.view = c.view /\ d.updates = c.updates
        /\ d.renderedCursorRect = c.renderedCursorRect
        /\ d.drawRenderedCursor = c.drawRenderedCursor /\ d.astray = strays
    BY <2>2 DEF Conn
  <2> HIDE DEF d
  <2> QED BY <2>1, <2>2, <2>3 DEF PlacedAs
<1>3. CASE NeedRenderedCursor(c, desk)
  <2> DEFINE patch == s.renderedCursor
             rect == DOMAIN patch \cap c.requested
             info == UpdateInfo(c.updates, c.requested)
             draws == /\ rect # {}
                      /\ \/ c.drawRenderedCursor
                         \/ (info.changed \cup info.copied) \cap rect # {}
             strays == c.astray \/ s.renderedCursorInvalid
             d == [c EXCEPT !.renderedCursorRect = rect, !.drawRenderedCursor = draws,
                            !.astray = strays]
  <2>1. Placed(s, c, desk) = d
    BY <1>3 DEF Placed
  <2>2. rect = DOMAIN patch /\ rect \in SUBSET Screen
    <3>1. PICK R \in SUBSET Screen : patch \in [R -> Color \cup {Mark}]
      BY DEF Server, Patches
    <3> QED BY <3>1
  <2>3. info.changed \cup info.copied = c.updates.changed \cup c.updates.copied
    BY DEF UpdateInfo
  <2> HIDE DEF info
  <2>4. draws \in BOOLEAN /\ strays \in BOOLEAN
        /\ (strays <=> c.astray \/ s.renderedCursorInvalid)
    OBVIOUS
  <2>5. draws <=> /\ DOMAIN patch # {}
                  /\ \/ c.drawRenderedCursor
                     \/ (c.updates.changed \cup c.updates.copied) \cap DOMAIN patch # {}
    BY <2>2, <2>3
  <2> HIDE DEF rect, draws, strays
  <2>6. /\ d \in Conn /\ d.requested = c.requested
        /\ d.supportsLocalCursor = c.supportsLocalCursor
        /\ d.removeRenderedCursor = c.removeRenderedCursor
        /\ d.view = c.view /\ d.updates = c.updates
        /\ d.renderedCursorRect = rect /\ d.drawRenderedCursor = draws
        /\ d.astray = strays
    BY <2>2, <2>4 DEF Conn
  <2> HIDE DEF d
  <2> QED BY <2>1, <2>2, <2>4, <2>5, <2>6 DEF PlacedAs
<1> QED BY <1>2, <1>3

\* A client that cannot draw the cursor always has it placed.
LEMMA PlacedForNeedy ==
  ASSUME NEW r, NEW s, NEW c, NEW desk, PlacedAs(r, s, c, desk), ~c.supportsLocalCursor,
         DOMAIN s.renderedCursor = CursorRect(desk)
  PROVE  /\ r.renderedCursorRect = CursorRect(desk)
         /\ r.drawRenderedCursor <=>
              /\ CursorRect(desk) # {}
              /\ \/ c.drawRenderedCursor
                 \/ (c.updates.changed \cup c.updates.copied) \cap CursorRect(desk) # {}
         /\ r.astray <=> c.astray \/ s.renderedCursorInvalid
BY DEF PlacedAs

\* writeFramebufferUpdate, second part: the cursor is placed.
LEMMA PlacedKeeps ==
  ASSUME NEW s, NEW c, NEW desk, NEW base, Typed(s, c, desk), c.requested = Screen,
         Good(s, c, desk, desk.fb, base), Checked(s, c), Apart(c, base)
  PROVE  LET z == Placed(s, c, desk)
         IN /\ Typed(s, z, desk) /\ Good(s, z, desk, desk.fb, base) /\ Checked(s, z)
            /\ z.requested = Screen /\ Apart(z, base) /\ Ready(s, z, desk)
<1> DEFINE z == Placed(s, c, desk)
<1>1. /\ s \in Server /\ c \in Conn /\ desk \in Desktop /\ desk.fb \in Picture
      /\ c.updates.changed \cup c.updates.copied \subseteq Screen
  BY DEF Typed, Desktop, Picture
<1>2. PlacedAs(z, s, c, desk)
  BY <1>1, PlacedResult
<1> HIDE DEF z
<1>3. ~c.removeRenderedCursor /\ CursorRect(desk) \subseteq Screen
  BY <1>1, RenderType DEF Apart
<1>4. Typed(s, z, desk) /\ Checked(s, z) /\ z.requested = Screen
  BY <1>2 DEF Typed, Checked, PlacedAs
<1>5. ~z.astray => ~c.astray
  BY <1>2 DEF PlacedAs
<1>6. Apart(z, base)
  BY <1>2, <1>5 DEF Apart, PlacedAs
<1>7. ASSUME ~z.astray
      PROVE  /\ Clean(z.view, z.updates, z.renderedCursorRect, base)
             /\ Placing(s, z, desk) /\ Ready(s, z, desk)
  <2>1. /\ Clean(c.view, c.updates, c.renderedCursorRect, base) /\ Placing(s, c, desk)
        /\ c.renderedCursorRect \in {{}, CursorRect(desk)}
    BY <1>3, <1>5, <1>7 DEF Good, Placing
  <2>2. CASE /\ c.supportsLocalCursor /\ z.renderedCursorRect = c.renderedCursorRect
             /\ z.drawRenderedCursor = c.drawRenderedCursor /\ ~c.drawRenderedCursor
    BY <1>2, <2>1, <2>2 DEF Placing, Ready, PlacedAs
  <2>3. CASE /\ ~s.renderedCursorInvalid
             /\ z.renderedCursorRect = DOMAIN s.renderedCursor
             /\ \/ z.drawRenderedCursor \/ DOMAIN s.renderedCursor = {}
                \/ (c.updates.changed \cup c.updates.copied)
                      \cap DOMAIN s.renderedCursor = {}
    <3>1. z.renderedCursorRect = CursorRect(desk) /\ DOMAIN s.renderedCursor = CursorRect(desk)
      BY <2>1, <2>3 DEF Placing
    <3>2. Clean(z.view, z.updates, z.renderedCursorRect, base)
      BY <1>2, <2>1, <3>1 DEF Clean, PlacedAs
    <3>3. Placing(s, z, desk)
      BY <3>1 DEF Placing
    <3>4. Ready(s, z, desk)
      BY <1>2, <2>3, <3>1 DEF Ready, PlacedAs
    <3> QED BY <3>2, <3>3, <3>4
  <2> QED BY <1>2, <1>7, <2>2, <2>3 DEF PlacedAs
<1>8. ASSUME ~SwitchesBack
      PROVE  Steady(z) /\ Rendered(s, z, desk) /\ Drawing(z, desk) /\ Intact(z, desk, base)
  <2>1. z.supportsLocalCursor = c.supportsLocalCursor
    BY <1>2 DEF PlacedAs
  <2>2. CASE c.supportsLocalCursor
    BY <2>1, <2>2 DEF Steady, Rendered, Drawing, Intact
  <2>3. CASE ~c.supportsLocalCursor
    <3>1. ~c.astray /\ ~s.renderedCursorInvalid
      BY <1>8, <2>3 DEF Good, Steady, Checked
    <3>2. DOMAIN s.renderedCursor = CursorRect(desk)
          /\ c.renderedCursorRect \in {{}, CursorRect(desk)}
      BY <1>3, <3>1 DEF Good, Placing
    <3>3. /\ z.renderedCursorRect = CursorRect(desk)
          /\ z.drawRenderedCursor <=>
               /\ CursorRect(desk) # {}
               /\ \/ c.drawRenderedCursor
                  \/ (c.updates.changed \cup c.updates.copied) \cap CursorRect(desk) # {}
          /\ z.astray <=> c.astray \/ s.renderedCursorInvalid
      BY <1>2, <2>3, <3>2, PlacedForNeedy
    <3>4. Steady(z) /\ Rendered(s, z, desk)
      BY <1>8, <2>1, <3>1, <3>3 DEF Steady, Rendered, Good
    <3>5. Drawing(z, desk)
      BY <1>2, <1>3, <3>3 DEF Drawing, PlacedAs
    <3>6. CASE CursorRect(desk) = {} \/ z.drawRenderedCursor
      BY <3>3, <3>4, <3>5, <3>6 DEF Intact
    <3>7. CASE CursorRect(desk) # {} /\ ~z.drawRenderedCursor
      <4>1. /\ ~c.drawRenderedCursor
            /\ (c.updates.changed \cup c.updates.copied) \cap CursorRect(desk) = {}
        BY <3>3, <3>7
      <4>2. c.renderedCursorRect = CursorRect(desk)
        BY <1>3, <1>8, <2>3, <3>2, <3>7, <4>1 DEF Good, Drawing
      <4>3. Intact(z, desk, base)
        BY <1>2, <1>3, <1>8, <2>3, <3>3, <4>1, <4>2 DEF Good, Intact, PlacedAs
      <4> QED BY <3>4, <3>5, <4>3
    <3> QED BY <3>6, <3>7
  <2> QED BY <2>2, <2>3
<1>9. Good(s, z, desk, desk.fb, base)
  BY <1>2, <1>4, <1>7, <1>8 DEF Good, PlacedAs
<1>10. Ready(s, z, desk)
  BY <1>7 DEF Ready
<1> QED BY <1>4, <1>6, <1>9, <1>10 DEF z

\* What the viewer has when an update has been sent, before the cursor is drawn.
LEMMA SentIsFramebuffer ==
  ASSUME NEW c \in Conn, NEW fb \in Picture, NEW base \in Picture,
         c.updates.changed \cup c.updates.copied \subseteq Screen,
         Accounts(c.updates, fb, base)
  PROVE  LET sent == ApplyUpdate(c.view, UpdateInfo(c.updates, Screen), fb)
         IN /\ sent \in [Screen -> Color \cup {Mark}]
            /\ /\ ~c.astray /\ Apart(c, base)
               /\ Clean(c.view, c.updates, c.renderedCursorRect, base)
               => \A p \in Screen : sent[p] # fb[p] => p \in c.renderedCursorRect
            /\ \A p \in Screen : p \notin c.updates.changed \cup c.updates.copied
                  => sent[p] = c.view[p] /\ fb[p] = base[p]
<1> DEFINE t == c.updates
           info == UpdateInfo(t, Screen)
           sent == ApplyUpdate(c.view, info, fb)
<1>1. /\ c.view \in [Screen -> Color \cup {Mark}] /\ DOMAIN fb = Screen
      /\ DOMAIN c.view = Screen /\ DOMAIN base = Screen
  BY DEF Conn, Picture
<1> DEFINE copied == t.copied \ t.changed
<1>2. copied \subseteq Screen
  OBVIOUS
<1>3. info.changed = t.changed /\ info.copied = copied /\ info.delta = t.delta
  BY <1>2 DEF UpdateInfo
<1> HIDE DEF info
<1>4. sent = [p \in Screen |-> IF p \in t.changed THEN fb[p]
                              ELSE IF p \in copied THEN c.view[Shift(p, Negate(t.delta))]
                              ELSE c.view[p]]
  BY <1>1, <1>3 DEF ApplyUpdate
<1>5. \A p \in copied : /\ Shift(p, Negate(t.delta)) \in Screen
                          /\ fb[p] = base[Shift(p, Negate(t.delta))]
  BY <1>1, <1>2 DEF Accounts
<1> HIDE DEF sent
<1>6. \A p \in Screen : sent[p] \in Color \cup {Mark}
  BY <1>1, <1>4, <1>5 DEF Picture
<1>7. sent \in [Screen -> Color \cup {Mark}]
  BY <1>4, <1>6
<1>8. \A p \in Screen : p \notin t.changed \cup t.copied
         => sent[p] = c.view[p] /\ fb[p] = base[p]
  BY <1>1, <1>4 DEF Accounts
<1>9. ASSUME ~c.astray, Apart(c, base), Clean(c.view, t, c.renderedCursorRect, base)
      PROVE  \A p \in Screen : sent[p] # fb[p] => p \in c.renderedCursorRect
  <2>1. \A p \in copied : c.view[Shift(p, Negate(t.delta))] = fb[p]
    BY <1>2, <1>5, <1>9 DEF Apart
  <2>2. \A p \in Screen : p \in t.changed \cup t.copied => sent[p] = fb[p]
    BY <1>4, <2>1
  <2> QED BY <1>8, <1>9, <2>2 DEF Clean
<1> QED BY <1>7, <1>8, <1>9 DEF sent, info

\* The connection r when c has been sent.
SentAs(r, c, desk, patch) ==
  /\ r \in Conn /\ r.requested = {}
  /\ r.supportsLocalCursor = c.supportsLocalCursor
  /\ r.removeRenderedCursor = c.removeRenderedCursor /\ ~r.drawRenderedCursor
  /\ r.renderedCursorRect = c.renderedCursorRect
  /\ r.updates.changed = {} /\ r.updates.copied = {} /\ r.astray = c.astray
  /\ r.view = Drawn(c, desk, patch)

AfterSending(c, desk, patch) ==
  [c EXCEPT !.view = Drawn(c, desk, patch),
            !.updates = ClearTracker(Normalize(@)),
            !.drawRenderedCursor = FALSE,
            !.needSetCursor = FALSE,
            !.requested = {}]

\* What writing the update makes of it.
LEMMA SendingResult ==
  ASSUME NEW c \in Conn, NEW desk, NEW patch,
         Drawn(c, desk, patch) \in [Screen -> Color \cup {Mark}]
  PROVE  SentAs(AfterSending(c, desk, patch), c, desk, patch)
<1> DEFINE drawn == Drawn(c, desk, patch)
           t == ClearTracker(Normalize(c.updates))
           none == {}
           no == FALSE
           r == [c EXCEPT !.view = drawn, !.updates = t, !.drawRenderedCursor = no,
                          !.needSetCursor = no, !.requested = none]
<1>1. AfterSending(c, desk, patch) = r
  BY DEF AfterSending
<1>2. t \in Tracker /\ t.changed = {} /\ t.copied = {}
  BY DEF ClearTracker, Normalize, Tracker, Conn
<1>3. none \in SUBSET Screen /\ none = {} /\ no \in BOOLEAN /\ ~no
  OBVIOUS
<1> HIDE DEF t, none, no
<1>4. drawn \in [Screen -> Color \cup {Mark}] /\ drawn = Drawn(c, desk, patch)
  OBVIOUS
<1> HIDE DEF drawn
<1>5. /\ r \in Conn /\ r.requested = none
      /\ r.supportsLocalCursor = c.supportsLocalCursor
      /\ r.removeRenderedCursor = c.removeRenderedCursor /\ r.drawRenderedCursor = no
      /\ r.renderedCursorRect = c.renderedCursorRect
      /\ r.updates = t /\ r.view = drawn /\ r.astray = c.astray
  BY <1>2, <1>3, <1>4 DEF Conn
<1> HIDE DEF r
<1> QED BY <1>1, <1>2, <1>3, <1>4, <1>5 DEF SentAs

\* writeFramebufferUpdate, last part: the update is sent, and the cursor drawn.
LEMMA SendKeeps ==
  ASSUME NEW s, NEW c, NEW desk, NEW base, Typed(s, c, desk), c.requested = Screen,
         Good(s, c, desk, desk.fb, base), Checked(s, c), Apart(c, base),
         Ready(s, c, desk)
  PROVE  LET r == AfterSending(c, desk, s.renderedCursor)
         IN Typed(s, r, desk) /\ Good(s, r, desk, desk.fb, desk.fb)
<1> DEFINE patch == s.renderedCursor
           info == UpdateInfo(c.updates, c.requested)
           sent == ApplyUpdate(c.view, info, desk.fb)
           draws == c.drawRenderedCursor
           drawn == Drawn(c, desk, patch)
           r == AfterSending(c, desk, patch)
<1>1. /\ c \in Conn /\ s \in Server /\ desk \in Desktop /\ desk.fb \in Picture
      /\ base \in Picture
      /\ c.updates.changed \cup c.updates.copied \subseteq Screen
  BY DEF Typed, Desktop, Picture, Good
<1>2. /\ sent \in [Screen -> Color \cup {Mark}]
      /\ ~c.astray => \A p \in Screen : sent[p] # desk.fb[p] => p \in c.renderedCursorRect
      /\ \A p \in Screen : p \notin c.updates.changed \cup c.updates.copied
            => sent[p] = c.view[p] /\ desk.fb[p] = base[p]
  BY <1>1, SentIsFramebuffer DEF Good
<1>3. drawn = [p \in Screen |-> IF draws /\ p \in DOMAIN patch THEN patch[p] ELSE sent[p]]
  BY DEF Drawn
<1> HIDE DEF sent, info
<1>4. patch \in [DOMAIN patch -> Color \cup {Mark}] /\ DOMAIN patch \subseteq Screen
  <2>1. PICK R \in SUBSET Screen : patch \in [R -> Color \cup {Mark}]
    BY <1>1 DEF Server, Patches
  <2> QED BY <2>1
<1>5. drawn \in [Screen -> Color \cup {Mark}]
  BY <1>2, <1>3, <1>4
<1>6. SentAs(r, c, desk, patch) /\ r.view = drawn
  BY <1>1, <1>5, SendingResult DEF SentAs
<1> HIDE DEF r, drawn
<1>7. ~c.removeRenderedCursor /\ CursorRect(desk) \subseteq Screen
  BY <1>1, RenderType DEF Apart
<1>8. ~c.astray => /\ c.renderedCursorRect \in {{}, CursorRect(desk)}
                   /\ ~s.renderedCursorInvalid => DOMAIN patch = CursorRect(desk)
                   /\ draws => /\ DOMAIN patch = CursorRect(desk)
                               /\ c.renderedCursorRect = CursorRect(desk)
  BY <1>7 DEF Good, Placing, Ready
<1>9. /\ ~c.supportsLocalCursor => ~s.renderedCursorInvalid
      /\ s.pending.changed = {} /\ s.pending.copied = {}
  BY DEF Checked
<1>10. ~SwitchesBack /\ ~c.supportsLocalCursor =>
         /\ DOMAIN patch = CursorRect(desk) /\ c.renderedCursorRect = CursorRect(desk)
         /\ draws \/ (c.updates.changed \cup c.updates.copied) \cap CursorRect(desk) = {}
  BY DEF Ready, Good, Steady
<1>11. Typed(s, r, desk)
  BY <1>6 DEF Typed, SentAs
<1>12. Accounts(r.updates, desk.fb, desk.fb) /\ Accounts(s.pending, desk.fb, desk.fb)
  BY <1>6, <1>9 DEF Accounts, SentAs
<1>13. ASSUME ~r.astray PROVE Clean(r.view, r.updates, r.renderedCursorRect, desk.fb)
  <2>1. ~c.astray
    BY <1>6, <1>13 DEF SentAs
  <2>2. \A p \in Screen : drawn[p] # desk.fb[p] => p \in c.renderedCursorRect
    BY <1>2, <1>3, <1>8, <2>1
  <2> QED BY <1>6, <2>2 DEF Clean, SentAs
<1>14. ~r.astray => Placing(s, r, desk)
  BY <1>6, <1>8 DEF Placing, SentAs
<1>15. ~SwitchesBack => Rendered(s, r, desk) /\ Steady(r)
  BY <1>6 DEF Good, Rendered, Steady, SentAs
<1>16. ~SwitchesBack => Drawing(r, desk)
  BY <1>6, <1>7, <1>10 DEF Drawing, SentAs
<1>17. ASSUME ~SwitchesBack PROVE Intact(r, desk, desk.fb)
  <2>1. CASE c.supportsLocalCursor
    BY <1>6, <2>1 DEF Intact, SentAs
  <2>2. CASE ~c.supportsLocalCursor
    <3>1. ASSUME NEW p \in CursorRect(desk), draws
          PROVE  drawn[p] = Over(desk, desk.fb, p)
      <4>1. drawn[p] = patch[p]
        BY <1>3, <1>7, <1>10, <1>17, <2>2, <3>1
      <4>2. patch[p] = Over(desk, desk.fb, p)
        BY <1>9, <1>17, <2>2, <3>1 DEF Good, Rendered
      <4> QED BY <4>1, <4>2
    <3>2. ASSUME NEW p \in CursorRect(desk), ~draws
          PROVE  drawn[p] = Over(desk, desk.fb, p)
      <4>1. p \in Screen /\ p \notin c.updates.changed \cup c.updates.copied
        BY <1>7, <1>10, <1>17, <2>2, <3>2
      <4>2. drawn[p] = c.view[p] /\ desk.fb[p] = base[p]
        BY <1>2, <1>3, <3>2, <4>1
      <4>3. c.view[p] = Over(desk, base, p)
        BY <1>7, <1>10, <1>17, <2>2, <3>2, <4>1 DEF Good, Intact
      <4> QED BY <4>2, <4>3 DEF Over
    <3> QED BY <1>6, <1>10, <1>17, <2>2, <3>1, <3>2 DEF Intact, SentAs
  <2> QED BY <2>1, <2>2
<1>18. r.requested = {}
  BY <1>6 DEF SentAs
<1> QED BY <1>1, <1>11, <1>12, <1>13, <1>14, <1>15, <1>16, <1>17, <1>18 DEF Good, r

\* writeFramebufferUpdate, after old cursors have been marked.
LEMMA SentKeeps ==
  ASSUME NEW s, NEW c, NEW desk, NEW base, Typed(s, c, desk), c.requested = Screen,
         Good(s, c, desk, desk.fb, base), Checked(s, c), Apart(c, base)
  PROVE  Sound(Sent(s, c, desk)[1], Sent(s, c, desk)[2], desk)
<1> DEFINE placed == Placed(s, c, desk)
           info == UpdateInfo(placed.updates, placed.requested)
           idle == IsEmpty(c.updates) /\ ~c.needSetCursor /\ ~c.drawRenderedCursor
           nothing == /\ IsEmpty(info) /\ ~placed.needSetCursor
                      /\ ~placed.drawRenderedCursor
           sent == AfterSending(placed, desk, s.renderedCursor)
<1>1. Sent(s, c, desk) = IF idle THEN <<s, c>>
                         ELSE IF nothing THEN <<s, placed>> ELSE <<s, sent>>
  BY Zenon DEF Sent, AfterSending
<1>2. /\ Typed(s, placed, desk) /\ Good(s, placed, desk, desk.fb, base)
      /\ Checked(s, placed) /\ placed.requested = Screen
      /\ Apart(placed, base) /\ Ready(s, placed, desk)
  BY PlacedKeeps
<1> HIDE DEF placed
<1>3. Typed(s, sent, desk) /\ Good(s, sent, desk, desk.fb, desk.fb)
  BY <1>2, SendKeeps
<1> HIDE DEF sent, idle, nothing
<1>4. Sound(s, c, desk) /\ Sound(s, placed, desk) /\ Sound(s, sent, desk)
  BY <1>2, <1>3 DEF Sound
<1> QED BY <1>1, <1>4

\* writeFramebufferUpdate, whole.
LEMMA WrittenKeeps ==
  ASSUME NEW s, NEW c, NEW desk, Sound(s, c, desk), NEW result \in Written(s, c, desk)
  PROVE  Sound(result[1], result[2], desk)
<1>1. CASE c.requested = {}
  BY <1>1 DEF Written
<1>2. CASE c.requested # {}
  <2> DEFINE checked == CheckUpdate(s, c, desk)
             uncursored == Uncursored(checked[2])
  <2>1. PICK mid, base : Good(s, c, desk, mid, base)
    BY DEF Sound
  <2>2. c.requested = Screen /\ Typed(s, c, desk)
    BY <1>2, <2>1 DEF Sound, Good
  <2>3. /\ Typed(checked[1], checked[2], desk)
        /\ Good(checked[1], checked[2], desk, desk.fb, base)
        /\ Checked(checked[1], checked[2]) /\ checked[2].requested = Screen
    BY <2>1, <2>2, CheckUpdateKeeps DEF SameConn
  <2>4. PICK marked \in Later(uncursored) : result = Sent(checked[1], marked, desk)
    BY <1>2 DEF Written
  <2> HIDE DEF checked
  <2>5. /\ Typed(checked[1], uncursored, desk)
        /\ Good(checked[1], uncursored, desk, desk.fb, base)
        /\ Checked(checked[1], uncursored) /\ uncursored.requested = Screen
        /\ Apart(uncursored, base)
    BY <2>3, UncursoredKeeps
  <2> HIDE DEF uncursored
  <2>6. Alike(uncursored, marked)
    BY <2>4, <2>5, LaterAlike DEF Typed
  <2>7. /\ Typed(checked[1], marked, desk)
        /\ Good(checked[1], marked, desk, desk.fb, base)
        /\ Checked(checked[1], marked) /\ Apart(marked, base)
    BY <2>5, <2>6, AlikeKeeps
  <2>8. marked.requested = Screen
    BY <2>5, <2>6 DEF Alike, SameConn
  <2> QED BY <2>4, <2>7, <2>8, SentKeeps
<1> QED BY <1>1, <1>2
-----------------------------------------------------------------------------
\* VNCServerST may write, or not: the link may be congested.
LEMMA WriteKeeps ==
  ASSUME NEW s, NEW c, NEW desk, Sound(s, c, desk), desktop' = desk, Write(s, c, desk)
  PROVE  Inv'
<1>1. PICK result \in {<<s, c>>} \cup Written(s, c, desk) :
         server' = result[1] /\ conn' = result[2]
  BY DEF Write
<1>2. Sound(result[1], result[2], desk)
  BY WrittenKeeps
<1> QED BY <1>1, <1>2 DEF Inv

\* The server with another account of the changes.
PendingAs(r, s, t) ==
  /\ r \in Server /\ r.pending = t /\ r.renderedCursor = s.renderedCursor
  /\ r.renderedCursorInvalid = s.renderedCursorInvalid

\* The server's tracker is replaced, and nothing else of it.
LEMMA PendingSet ==
  ASSUME NEW s \in Server, NEW t \in Tracker
  PROVE  PendingAs([s EXCEPT !.pending = t], s, t)
BY DEF Server, PendingAs

\* What is reported stays reported.
LEMMA CopiedCovers ==
  ASSUME NEW t \in Tracker, NEW dest \in SUBSET Point, NEW d \in Point
  PROVE  t.changed \cup t.copied \cup dest
           \subseteq AddCopied(t, dest, d).changed \cup AddCopied(t, dest, d).copied
<1> DEFINE u == AddCopied(t, dest, d)
<1>1. CASE ~t.copyEnabled
  BY <1>1, AddChangedType DEF AddCopied
<1>2. CASE t.copyEnabled /\ dest = {}
  BY <1>2 DEF AddCopied
<1>3. CASE t.copyEnabled /\ dest # {} /\ Translate(dest, Negate(d)) \cap t.copied = {}
  <2>1. u = AddFreshCopy(t, dest, d)
    BY <1>3 DEF AddCopied
  <2>2. CASE BoundingArea(t.copied) > BoundingArea(dest)
    BY <2>1, <2>2, AddChangedType DEF AddFreshCopy
  <2>3. CASE ~(BoundingArea(t.copied) > BoundingArea(dest))
    BY <2>1, <2>3, AddFreshCopyResult DEF FreshCopyResult
  <2> QED BY <2>2, <2>3
<1>4. CASE t.copyEnabled /\ dest # {} /\ Translate(dest, Negate(d)) \cap t.copied # {}
  <2>1. u = AddContinuedCopy(t, dest, d)
    BY <1>4 DEF AddCopied
  <2>2. ContinuedCopyResult(u, t, dest, d)
    BY <2>1, AddContinuedCopyResult
  <2> QED BY <2>2 DEF ContinuedCopyResult
<1> QED BY <1>1, <1>2, <1>3, <1>4

\* The framebuffer changes, and the comparer's tracker accounts for it.
LEMMA FramebufferChanges ==
  ASSUME Inv, NEW fb \in Picture, NEW t, Within(t),
         \A old : Accounts(server.pending, desktop.fb, old) => Accounts(t, fb, old),
         server.pending.changed \cup server.pending.copied
           \cup {p \in Screen : fb[p] # desktop.fb[p]} \subseteq t.changed \cup t.copied
  PROVE  Sound([server EXCEPT !.pending = t], conn, [desktop EXCEPT !.fb = fb])
<1> DEFINE s == [server EXCEPT !.pending = t]
           desk == [desktop EXCEPT !.fb = fb]
<1>1. /\ desktop \in Desktop /\ server \in Server /\ conn \in Conn
      /\ conn.updates.changed \cup conn.updates.copied \subseteq Screen
  BY DEF Inv, Sound, Typed
<1>2. PICK mid, base : Good(server, conn, desktop, mid, base)
  BY DEF Inv, Sound
<1>3. PendingAs(s, server, t)
  BY <1>1, PendingSet DEF Within
<1>4. /\ desk \in Desktop /\ desk.fb = fb /\ desk.cursor = desktop.cursor
      /\ desk.cursorPos = desktop.cursorPos
  BY <1>1 DEF Desktop, Picture
<1> HIDE DEF s, desk
<1>5. CursorRect(desk) = CursorRect(desktop) /\ CursorMask(desk) = CursorMask(desktop)
  BY <1>4 DEF CursorRect, CursorMask
<1>6. Typed(s, conn, desk)
  BY <1>1, <1>3, <1>4 DEF Typed, PendingAs, Within
<1>7. Accounts(s.pending, desk.fb, mid)
  BY <1>2, <1>3, <1>4 DEF Good, PendingAs
<1>8. ~conn.astray => Placing(s, conn, desk)
  BY <1>2, <1>3, <1>5 DEF Good, Placing, PendingAs
<1>9. ~SwitchesBack => Rendered(s, conn, desk)
  <2>1. CursorRect(desk) \subseteq Screen
    BY <1>4, RenderType
  <2> QED BY <1>2, <1>3, <1>4, <1>5, <2>1 DEF Good, Rendered, PendingAs, Over
<1>10. ~SwitchesBack => Steady(conn) /\ Drawing(conn, desk) /\ Intact(conn, desk, base)
  BY <1>2, <1>5 DEF Good, Drawing, Intact, Over
<1>11. Good(s, conn, desk, mid, base)
  BY <1>2, <1>7, <1>8, <1>9, <1>10 DEF Good
<1> QED BY <1>6, <1>11 DEF Sound, s, desk

\* The desktop draws.
LEMMA DrawInv ==
  ASSUME Inv, NEW R \in SUBSET Screen, NEW c \in Color, Draw(R, c)
  PROVE  Inv'
<1> DEFINE fb == [p \in Screen |-> IF p \in R THEN c ELSE desktop.fb[p]]
           t == AddChanged(server.pending, R)
<1>1. desktop.fb \in Picture /\ Within(server.pending) /\ R \in SUBSET Point
  BY ScreenAssumption DEF Inv, Sound, Typed, Desktop, Picture, Within, Server
<1>2. /\ fb \in Picture /\ \A p \in Screen : p \notin R => fb[p] = desktop.fb[p]
  BY <1>1 DEF Picture
<1>3. desktop' = [desktop EXCEPT !.fb = fb]
      /\ Write([server EXCEPT !.pending = t], conn, desktop')
  BY DEF Draw
<1> HIDE DEF fb
<1>4. /\ Within(t) /\ t.changed = server.pending.changed \cup R
      /\ t.copied = server.pending.copied
  BY <1>1, ChangedWithin
<1>5. ASSUME NEW old, Accounts(server.pending, desktop.fb, old)
      PROVE  Accounts(t, fb, old)
  BY <1>1, <1>2, <1>5, AddChangedAccounts DEF Picture, Within
<1> HIDE DEF t
<1>6. Sound([server EXCEPT !.pending = t], conn, [desktop EXCEPT !.fb = fb])
  BY <1>2, <1>4, <1>5, FramebufferChanges
<1> QED BY <1>3, <1>6, WriteKeeps

\* The desktop scrolls.
LEMMA ScrollInv ==
  ASSUME Inv, NEW dest \in SUBSET Screen, NEW d \in Delta, Scroll(dest, d)
  PROVE  Inv'
<1> DEFINE fb == [p \in Screen |-> IF p \in dest THEN desktop.fb[Shift(p, Negate(d))]
                                  ELSE desktop.fb[p]]
           t == AddCopied(server.pending, dest, d)
<1>1. /\ desktop.fb \in Picture /\ Within(server.pending) /\ dest \in SUBSET Point
      /\ d \in Point /\ server.pending \in Tracker /\ Screen \subseteq Point
  BY ScreenAssumption, DeltaAssumption
     DEF Inv, Sound, Typed, Desktop, Picture, Within, Server
<1>2. \A p \in dest : Shift(p, Negate(d)) \in Screen
  BY DEF Scroll, Translate
<1>3. /\ fb \in Picture /\ \A p \in Screen : p \notin dest => fb[p] = desktop.fb[p]
      /\ \A p \in Screen : p \in dest => fb[p] = desktop.fb[Shift(p, Negate(d))]
  BY <1>1, <1>2 DEF Picture
<1>4. desktop' = [desktop EXCEPT !.fb = fb]
      /\ Write([server EXCEPT !.pending = t], conn, desktop')
  BY DEF Scroll
<1> HIDE DEF fb
<1>5. Within(t)
  BY <1>1, CopiedWithin
<1>6. server.pending.changed \cup server.pending.copied \cup dest
        \subseteq t.changed \cup t.copied
  BY <1>1, CopiedCovers
<1>7. ASSUME NEW old, Accounts(server.pending, desktop.fb, old)
      PROVE  Accounts(t, fb, old)
  <2>1. DOMAIN desktop.fb = Screen /\ DOMAIN fb = Screen
    BY <1>1, <1>3 DEF Picture
  <2> QED BY <1>1, <1>2, <1>3, <1>7, <2>1, AddCopiedAccounts
<1> HIDE DEF t
<1>8. Sound([server EXCEPT !.pending = t], conn, [desktop EXCEPT !.fb = fb])
  BY <1>3, <1>5, <1>6, <1>7, FramebufferChanges
<1> QED BY <1>4, <1>8, WriteKeeps

\* The cursor has moved or changed: the old one is to be removed, the new one drawn.
LEMMA CursorChanges ==
  ASSUME Inv, NEW desk \in Desktop, desk.fb = desktop.fb, NEW result \in Changed(conn, desk)
  PROVE  Sound(result[1], result[2], desk)
<1> DEFINE s == [server EXCEPT !.renderedCursorInvalid = TRUE]
           removes == conn.removeRenderedCursor \/ conn.renderedCursorRect # {}
           draws == conn.drawRenderedCursor \/ NeedRenderedCursor(conn, desk)
           c == [conn EXCEPT !.removeRenderedCursor = removes,
                             !.drawRenderedCursor = draws]
<1>1. RenderedCursorChange(conn, desk) = c
  BY DEF RenderedCursorChange
<1>2. result = <<s, c>> \/ result \in Written(s, c, desk)
  BY <1>1 DEF Changed
<1>3. PICK mid, base : Good(server, conn, desktop, mid, base)
  BY DEF Inv, Sound
<1>4. /\ server \in Server /\ conn \in Conn
      /\ server.pending.changed \cup server.pending.copied \subseteq Screen
      /\ conn.updates.changed \cup conn.updates.copied \subseteq Screen
  BY DEF Inv, Sound, Typed
<1>5. s \in Server /\ s.pending = server.pending /\ s.renderedCursorInvalid
  BY <1>4 DEF Server
<1>6. /\ removes \in BOOLEAN /\ draws \in BOOLEAN
      /\ ~removes => conn.renderedCursorRect = {}
      /\ ~conn.supportsLocalCursor => draws
  BY <1>4 DEF Conn, NeedRenderedCursor
<1> HIDE DEF s, removes, draws
<1>7. /\ c \in Conn /\ c.updates = conn.updates /\ c.requested = conn.requested
      /\ c.supportsLocalCursor = conn.supportsLocalCursor
      /\ c.drawRenderedCursor = draws /\ c.removeRenderedCursor = removes
      /\ c.renderedCursorRect = conn.renderedCursorRect /\ c.view = conn.view
      /\ c.astray = conn.astray
  BY <1>4, <1>6 DEF Conn
<1> HIDE DEF c
<1>8. Typed(s, c, desk)
  BY <1>4, <1>5, <1>7 DEF Typed
<1>9. Placing(s, c, desk)
  BY <1>5, <1>6, <1>7 DEF Placing
<1>10. Rendered(s, c, desk)
  BY <1>5 DEF Rendered
<1>11. Drawing(c, desk) /\ (~SwitchesBack => Steady(c))
  BY <1>3, <1>6, <1>7 DEF Drawing, Good, Steady
<1>12. Intact(c, desk, base)
  BY <1>6, <1>7 DEF Intact
<1>13. Good(s, c, desk, mid, base)
  BY <1>3, <1>5, <1>7, <1>9, <1>10, <1>11, <1>12 DEF Good
<1>14. Sound(s, c, desk)
  BY <1>8, <1>13 DEF Sound
<1> QED BY <1>2, <1>14, WrittenKeeps

\* The pointer moves.
LEMMA MoveCursorInv ==
  ASSUME Inv, NEW pos \in Screen, MoveCursor(pos)
  PROVE  Inv'
<1>1. desktop' \in Desktop /\ desktop'.fb = desktop.fb
  BY DEF MoveCursor, Inv, Sound, Typed, Desktop
<1>2. PICK result \in Changed(conn, desktop') :
         server' = result[1] /\ conn' = result[2]
  BY DEF MoveCursor
<1> QED BY <1>1, <1>2, CursorChanges DEF Inv

\* Such a change of the connection keeps the invariant.
LEMMA AlikeSound ==
  ASSUME NEW s, NEW c, NEW d, NEW desk, Sound(s, c, desk), Alike(c, d)
  PROVE  Sound(s, d, desk)
BY AlikeKeeps DEF Sound

\* The cursor changes.
LEMMA SetCursorInv ==
  ASSUME Inv, NEW shape \in Shapes, SetCursor(shape)
  PROVE  Inv'
<1>1. desktop' \in Desktop /\ desktop'.fb = desktop.fb
  BY DEF SetCursor, Inv, Sound, Typed, Desktop
<1>2. PICK result \in Changed(conn, desktop') :
         IF conn.supportsLocalCursor
         THEN Write(result[1], [result[2] EXCEPT !.needSetCursor = TRUE], desktop')
         ELSE server' = result[1] /\ conn' = result[2]
  BY DEF SetCursor
<1>3. Sound(result[1], result[2], desktop')
  BY <1>1, CursorChanges
<1>4. CASE conn.supportsLocalCursor
  <2> DEFINE c == [result[2] EXCEPT !.needSetCursor = TRUE]
  <2>1. Sound(result[1], c, desktop') /\ Write(result[1], c, desktop')
    <3>1. Alike(result[2], c)
      BY <1>3 DEF Alike, SameConn, Sound, Typed, Conn
    <3> QED BY <1>2, <1>3, <1>4, <3>1, AlikeSound
  <2> HIDE DEF c
  <2> QED BY <2>1, WriteKeeps
<1>5. CASE ~conn.supportsLocalCursor
  BY <1>2, <1>3, <1>5 DEF Inv
<1> QED BY <1>4, <1>5

\* The viewer asks for an update.
LEMMA RequestInv ==
  ASSUME Inv, WholeRequests, NEW R \in Requests, NEW incremental \in BOOLEAN,
         Request(R, incremental)
  PROVE  Inv'
<1> DEFINE t == IF incremental THEN conn.updates ELSE AddChanged(conn.updates, R)
           asked == conn.requested \cup R
           c == [conn EXCEPT !.requested = asked, !.updates = t]
<1>1. PICK mid, base : Good(server, conn, desktop, mid, base)
  BY DEF Inv, Sound
<1>2. /\ conn \in Conn /\ Within(conn.updates) /\ Typed(server, conn, desktop)
      /\ desktop.fb \in Picture
  BY DEF Inv, Sound, Typed, Within, Conn, Desktop, Picture
<1>3. R = Screen /\ R \in SUBSET Screen /\ R \in SUBSET Point
  BY ScreenAssumption DEF WholeRequests
<1>4. asked = Screen
  BY <1>2, <1>3 DEF Conn
<1>5. /\ Within(t) /\ conn.updates.changed \subseteq t.changed
      /\ ~conn.astray => Clean(conn.view, t, conn.renderedCursorRect, base)
      /\ Accounts(t, mid, base)
  <2>1. CASE incremental
    BY <1>1, <1>2, <2>1 DEF Good
  <2>2. CASE ~incremental
    <3>1. Within(AddChanged(conn.updates, R))
          /\ conn.updates.changed \subseteq AddChanged(conn.updates, R).changed
      BY <1>2, <1>3, ChangedWithin
    <3>2. ~conn.astray =>
            Clean(conn.view, AddChanged(conn.updates, R), conn.renderedCursorRect, base)
      BY <1>1, <1>2, <1>3, ChangedClean DEF Good, Within
    <3>3. Accounts(AddChanged(conn.updates, R), mid, base)
      BY <1>1, <1>2, <1>3, AddChangedAccounts DEF Good, Within
    <3> QED BY <2>2, <3>1, <3>2, <3>3
  <2> QED BY <2>1, <2>2
<1>6. Request(R, incremental) => Write(server, c, desktop) /\ desktop' = desktop
  BY DEF Request
<1> HIDE DEF t, asked
<1>7. /\ c \in Conn /\ c.updates = t /\ c.requested = asked
      /\ c.supportsLocalCursor = conn.supportsLocalCursor
      /\ c.drawRenderedCursor = conn.drawRenderedCursor
      /\ c.removeRenderedCursor = conn.removeRenderedCursor
      /\ c.renderedCursorRect = conn.renderedCursorRect /\ c.view = conn.view
      /\ c.astray = conn.astray
  BY <1>2, <1>4, <1>5 DEF Conn, Within
<1> HIDE DEF c
<1>8. Typed(server, c, desktop)
  BY <1>2, <1>5, <1>7 DEF Typed, Within
<1>9. ~c.astray => Placing(server, c, desktop)
  BY <1>1, <1>7 DEF Good, Placing
<1>10. ~SwitchesBack => /\ Steady(c) /\ Rendered(server, c, desktop) /\ Drawing(c, desktop)
                        /\ Intact(c, desktop, base)
  BY <1>1, <1>5, <1>7 DEF Good, Steady, Rendered, Drawing, Intact, Within
<1>11. Good(server, c, desktop, mid, base)
  BY <1>1, <1>4, <1>5, <1>7, <1>9, <1>10 DEF Good
<1>12. Sound(server, c, desktop)
  BY <1>8, <1>11 DEF Sound
<1> QED BY <1>6, <1>12, WriteKeeps

\* The viewer takes over drawing the cursor, or gives it up.
LEMMA SetEncodingsInv ==
  ASSUME Inv, NEW local \in BOOLEAN, SetEncodings(local)
  PROVE  Inv'
<1>1. PICK mid, base : Good(server, conn, desktop, mid, base)
  BY DEF Inv, Sound
<1>2. conn \in Conn /\ Typed(server, conn, desktop)
  BY DEF Inv, Sound, Typed
<1>3. CASE local
  <2> DEFINE removes == conn.removeRenderedCursor \/ conn.renderedCursorRect # {}
             no == FALSE
             yes == TRUE
             c == [conn EXCEPT !.supportsLocalCursor = local,
                               !.removeRenderedCursor = removes,
                               !.drawRenderedCursor = no, !.needSetCursor = yes]
  <2>1. SupportsLocalCursor([conn EXCEPT !.supportsLocalCursor = local]) = c
    BY <1>2 DEF SupportsLocalCursor, Conn
  <2>2. removes \in BOOLEAN /\ (~removes => conn.renderedCursorRect = {})
        /\ no \in BOOLEAN /\ ~no /\ yes \in BOOLEAN
    BY <1>2 DEF Conn
  <2>3. Write(server, c, desktop) /\ desktop' = desktop
    BY <1>3, <2>1 DEF SetEncodings
  <2> HIDE DEF removes, no, yes
  <2>4. /\ c \in Conn /\ c.updates = conn.updates /\ c.requested = conn.requested
        /\ c.supportsLocalCursor = local /\ c.drawRenderedCursor = no
        /\ c.removeRenderedCursor = removes
        /\ c.renderedCursorRect = conn.renderedCursorRect /\ c.view = conn.view
        /\ c.astray = conn.astray
    BY <1>2, <2>2 DEF Conn
  <2> HIDE DEF c
  <2>5. Typed(server, c, desktop)
    BY <1>2, <2>4 DEF Typed
  <2>6. ~c.astray => Placing(server, c, desktop)
    BY <1>1, <2>2, <2>4 DEF Good, Placing
  <2>7. Steady(c) /\ Rendered(server, c, desktop) /\ Drawing(c, desktop)
    BY <1>3, <2>4 DEF Steady, Rendered, Drawing
  <2>8. Intact(c, desktop, base)
    BY <1>3, <2>4 DEF Intact
  <2>9. Good(server, c, desktop, mid, base)
    BY <1>1, <2>4, <2>6, <2>7, <2>8 DEF Good
  <2>10. Sound(server, c, desktop)
    BY <2>5, <2>9 DEF Sound
  <2> QED BY <2>3, <2>10, WriteKeeps
<1>4. CASE ~local
  <2> DEFINE c == [conn EXCEPT !.supportsLocalCursor = local]
  <2>1. SwitchesBack /\ Write(server, c, desktop) /\ desktop' = desktop
    BY <1>4 DEF SetEncodings
  <2>2. /\ c \in Conn /\ c.updates = conn.updates /\ c.requested = conn.requested
        /\ c.supportsLocalCursor = local
        /\ c.drawRenderedCursor = conn.drawRenderedCursor
        /\ c.removeRenderedCursor = conn.removeRenderedCursor
        /\ c.renderedCursorRect = conn.renderedCursorRect /\ c.view = conn.view
        /\ c.astray = conn.astray
    BY <1>2 DEF Conn
  <2> HIDE DEF c
  <2>3. Typed(server, c, desktop)
    BY <1>2, <2>2 DEF Typed
  <2>4. ~c.astray => Placing(server, c, desktop)
    BY <1>1, <2>2 DEF Good, Placing
  <2>5. Good(server, c, desktop, mid, base)
    BY <1>1, <2>1, <2>2, <2>4 DEF Good
  <2>6. Sound(server, c, desktop)
    BY <2>3, <2>5 DEF Sound
  <2> QED BY <2>1, <2>6, WriteKeeps
<1> QED BY <1>3, <1>4

\* The viewer moves the pointer.
LEMMA PointerEventInv ==
  ASSUME Inv, NEW pos \in Point, PointerEvent(pos)
  PROVE  Inv'
<1> DEFINE now == TRUE
           c == [conn EXCEPT !.recent = now, !.pointerEventPos = pos]
<1>1. Write(server, c, desktop) /\ desktop' = desktop
  BY DEF PointerEvent
<1>2. conn \in Conn /\ now \in BOOLEAN
  BY DEF Inv, Sound, Typed
<1> HIDE DEF now
<1>3. Alike(conn, c)
  BY <1>2 DEF Alike, SameConn, Conn
<1> HIDE DEF c
<1>4. Sound(server, c, desktop)
  BY <1>3, AlikeSound DEF Inv
<1> QED BY <1>1, <1>4, WriteKeeps

\* Time goes on.
LEMMA SecondPassesInv ==
  ASSUME Inv, SecondPasses
  PROVE  Inv'
<1>1. conn' \in Later(conn) /\ conn \in Conn
  BY DEF SecondPasses, Later, Inv, Sound, Typed
<1>2. Alike(conn, conn')
  BY <1>1, LaterAlike
<1>3. Sound(server, conn', desktop)
  BY <1>2, AlikeSound DEF Inv
<1> QED BY <1>3 DEF SecondPasses, Inv

\* The server writes an update.
LEMMA UpdateTimeoutInv ==
  ASSUME Inv, UpdateTimeout
  PROVE  Inv'
BY WriteKeeps DEF UpdateTimeout, Inv

\* The invariant holds at first.
LEMMA InitInv == Init => Inv
<1> SUFFICES ASSUME Init PROVE Inv
  OBVIOUS
<1> DEFINE empty == NewTracker(TRUE)
           full == AddChanged(empty, Screen)
           none == {}
           no == FALSE
           yes == TRUE
           origin == <<0, 0>>
<1>1. desktop \in Desktop /\ desktop.fb \in Picture
  BY DEF Init, Desktop, Picture
<1>2. empty \in Tracker /\ empty.changed = {} /\ empty.copied = {}
  BY DEF NewTracker, Tracker, Point
<1>3. server = [pending |-> empty, renderedCursor |-> NoPatch, renderedCursorInvalid |-> yes]
  BY DEF Init
<1>4. PICK local \in BOOLEAN :
         conn = [updates |-> full, requested |-> none, supportsLocalCursor |-> local,
                 drawRenderedCursor |-> no, removeRenderedCursor |-> no,
                 renderedCursorRect |-> none, pointerEventPos |-> origin,
                 recent |-> no, needSetCursor |-> local,
                 view |-> desktop.fb, astray |-> no]
  BY DEF Init
<1>5. no \in BOOLEAN /\ ~no /\ yes \in BOOLEAN /\ yes /\ none = {} /\ origin \in Point
  BY DEF Point
<1> HIDE DEF empty, no, yes, origin
<1>6. Within(empty)
  BY <1>2 DEF Within
<1>7. Within(full) /\ full.changed = Screen /\ full.copied = {}
  <2>1. Screen \in SUBSET Screen
    OBVIOUS
  <2>2. Within(full) /\ full.changed = empty.changed \cup Screen
        /\ full.copied = empty.copied
    BY <1>6, <2>1, ChangedWithin
  <2> QED BY <1>2, <2>2
<1> HIDE DEF full
<1>8. NoPatch \in Patches
  <2>1. NoPatch \in [{} -> Color \cup {Mark}]
    BY DEF NoPatch
  <2> QED BY <2>1 DEF Patches
<1>9. /\ server \in Server /\ server.pending = empty /\ server.renderedCursorInvalid
  BY <1>2, <1>3, <1>5, <1>8 DEF Server
<1> HIDE DEF none
<1>10. none \in SUBSET Screen
  BY <1>5
<1>11. /\ conn \in Conn /\ conn.updates = full /\ conn.requested = none
       /\ conn.drawRenderedCursor = no /\ conn.removeRenderedCursor = no
       /\ conn.renderedCursorRect = none /\ conn.view = desktop.fb /\ conn.astray = no
  <2>1. desktop.fb \in [Screen -> Color \cup {Mark}]
    BY <1>1 DEF Picture
  <2> QED BY <1>4, <1>5, <1>7, <1>10, <2>1 DEF Conn, Within
<1>12. Typed(server, conn, desktop)
  BY <1>1, <1>2, <1>7, <1>9, <1>11 DEF Typed, Within
<1>13. /\ Accounts(server.pending, desktop.fb, desktop.fb)
       /\ Accounts(conn.updates, desktop.fb, desktop.fb)
  BY <1>2, <1>7, <1>9, <1>11 DEF Accounts
<1>14. Clean(conn.view, conn.updates, conn.renderedCursorRect, desktop.fb)
  BY <1>7, <1>11 DEF Clean
<1>15. Placing(server, conn, desktop)
  BY <1>5, <1>9, <1>11 DEF Placing
<1>16. /\ Steady(conn) /\ Rendered(server, conn, desktop) /\ Drawing(conn, desktop)
       /\ Intact(conn, desktop, desktop.fb) /\ conn.requested = {}
  BY <1>5, <1>7, <1>9, <1>11 DEF Steady, Rendered, Drawing, Intact
<1>17. Good(server, conn, desktop, desktop.fb, desktop.fb)
  BY <1>1, <1>13, <1>14, <1>15, <1>16 DEF Good
<1> QED BY <1>12, <1>17 DEF Inv, Sound

\* Every step keeps it.
LEMMA NextInv ==
  ASSUME WholeRequests, Inv, [Next]_vars
  PROVE  Inv'
<1>1. CASE \E R \in SUBSET Screen \ {{}}, c \in Color : Draw(R, c)
  BY <1>1, DrawInv
<1>2. CASE \E dest \in SUBSET Screen \ {{}}, d \in Delta : Scroll(dest, d)
  BY <1>2, ScrollInv
<1>3. CASE \E pos \in Screen : MoveCursor(pos)
  BY <1>3, MoveCursorInv
<1>4. CASE \E shape \in Shapes : SetCursor(shape)
  BY <1>4, SetCursorInv
<1>5. CASE \E R \in Requests, incremental \in BOOLEAN : Request(R, incremental)
  BY <1>5, RequestInv
<1>6. CASE \E local \in BOOLEAN : SetEncodings(local)
  BY <1>6, SetEncodingsInv
<1>7. CASE UpdateTimeout
  BY <1>7, UpdateTimeoutInv
<1>8. CASE \E pos \in Screen \cup {conn.pointerEventPos} : PointerEvent(pos)
  <2>1. Screen \cup {conn.pointerEventPos} \subseteq Point
    BY ScreenAssumption DEF Inv, Sound, Typed, Conn
  <2> QED BY <1>8, <2>1, PointerEventInv
<1>9. CASE SecondPasses
  BY <1>9, SecondPassesInv
<1>10. CASE UNCHANGED vars
  BY <1>10 DEF Inv, vars
<1> QED BY <1>1, <1>2, <1>3, <1>4, <1>5, <1>6, <1>7, <1>8, <1>9, <1>10 DEF Next

\* It holds in every state.
LEMMA InvHolds == ASSUME WholeRequests PROVE Spec => []Inv
<1>1. Inv /\ [Next]_vars => Inv'
  BY NextInv
<1> QED BY <1>1, InitInv, PTL DEF Spec

\* What is to be shown follows from it.
LEMMA InvImplies ==
  ASSUME Inv
  PROVE  TypeOK /\ NoResidue /\ (~SwitchesBack => CursorIntact)
<1>1. PICK mid, base : Good(server, conn, desktop, mid, base)
  BY DEF Inv, Sound
<1>2. Typed(server, conn, desktop) /\ desktop.fb \in Picture
  BY DEF Inv, Sound, Typed, Desktop, Picture
<1>3. \A p \in Screen : p \notin Unsent => desktop.fb[p] = base[p]
  BY <1>1, <1>2 DEF Good, Accounts, Picture, Unsent
<1>4. TypeOK
  BY <1>2 DEF Typed, TypeOK
<1>5. NoResidue
  BY <1>1, <1>3 DEF NoResidue, OldCursorsRemoved, Good, Clean, Unsent
<1>6. ~SwitchesBack => CursorIntact
  <2> SUFFICES ASSUME ~SwitchesBack, ~conn.supportsLocalCursor,
                      ~conn.removeRenderedCursor, ~conn.drawRenderedCursor,
                      NEW p \in conn.renderedCursorRect \ Unsent
               PROVE  conn.view[p] = IF p \in CursorMask(desktop) THEN Mark ELSE desktop.fb[p]
    BY DEF CursorIntact
  <2>1. p \in Screen
    BY <1>2 DEF Typed, Conn
  <2>2. conn.view[p] = Over(desktop, base, p)
    BY <1>1 DEF Good, Intact, Unsent
  <2> QED BY <1>3, <2>1, <2>2 DEF Over
<1> QED BY <1>4, <1>5, <1>6
-----------------------------------------------------------------------------
\* The types of the server's and the connection's state, in every state of a server
\* whose viewer asks for the whole screen.
THEOREM TypeCorrect == ASSUME WholeRequests PROVE Spec => []TypeOK
<1>1. Inv => TypeOK
  BY InvImplies
<1> QED BY <1>1, InvHolds, PTL

\* As long as no cursor went astray (Placed) nothing of one is left behind in the
\* viewer's picture, whoever moves the pointer (renderedCursorChange, needRenderedCursor,
\* supportsLocalCursor and writeFramebufferUpdate): what differs from the framebuffer is
\* to be sent, or is where the server knows it has drawn the cursor.
THEOREM NoCursorRemains == ASSUME WholeRequests PROVE Spec => []NoResidue
<1>1. Inv => NoResidue
  BY InvImplies
<1> QED BY <1>1, InvHolds, PTL

\* A client that never could draw the cursor needs it whoever moves the pointer, so that
\* no cursor ever goes astray for it: without a condition its picture is right but for
\* where the server knows it has drawn the cursor, and for what is to be sent.
THEOREM NeedyNeverAstray ==
  ASSUME WholeRequests, ~SwitchesBack
  PROVE  Spec => [](~conn.supportsLocalCursor => OldCursorsRemoved)
<1>1. Inv => (~conn.supportsLocalCursor => OldCursorsRemoved)
  BY InvImplies DEF Inv, Sound, Good, Steady, NoResidue
<1> QED BY <1>1, InvHolds, PTL

\* The cursor that is to stay in the picture of a viewer that cannot draw it is whole,
\* and on what is now below it, if viewers that draw the cursor go on doing so.
THEOREM CursorStaysIntact ==
  ASSUME WholeRequests, ~SwitchesBack PROVE Spec => []CursorIntact
<1>1. Inv => CursorIntact
  BY InvImplies
<1> QED BY <1>1, InvHolds, PTL
=============================================================================
