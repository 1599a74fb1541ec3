--------------------------- MODULE RenderedCursor ---------------------------
(***************************************************************************)
(* The cursor that the server draws for a viewer that cannot draw it, and  *)
(* for one that can while somebody else moves the pointer.  The viewer's   *)
(* picture then is not the framebuffer: it has the cursor in it, which has *)
(* to be removed when the cursor moves, is moved along by a CopyRect, and  *)
(* is painted over by any update.  Composes the trackers of UpdateTracker  *)
(* with VNCServerST's rendered cursor and VNCSConnectionST's members about *)
(* it, and about where and when its viewer last moved the pointer.         *)
(*                                                                         *)
(* One client; who else moves the pointer is the desktop's.  Comparing and *)
(* deferring are off (UpdatePipeline has them).                            *)
(***************************************************************************)
EXTENDS UpdateTracker

CONSTANTS Screen,
          Color,
          Mark,           \* what a cursor looks like
          Shapes,         \* cursors
          Delta,          \* the distances the desktop scrolls by
          Requests,       \* the regions a viewer may ask for
          SwitchesBack    \* the viewer stops drawing the cursor itself

ASSUME ScreenAssumption == Screen \subseteq Point
ASSUME DeltaAssumption == Delta \subseteq Point
ASSUME MarkAssumption == Mark \notin Color
\* A cursor is a rectangle around its hotspot, and the pixels of it in the mask.
ASSUME ShapeAssumption ==
  \A s \in Shapes : s.rect \subseteq Point /\ s.mask \subseteq s.rect
ASSUME RequestAssumption == \A R \in Requests : R \subseteq Screen
ASSUME ChoiceAssumption == SwitchesBack \in BOOLEAN

VARIABLES desktop, server, conn

vars == <<desktop, server, conn>>

Desktop == [fb : [Screen -> Color], cursor : Shapes, cursorPos : Screen]

\* A piece of a picture: what is drawn where.
Patches == UNION {[R -> Color \cup {Mark}] : R \in SUBSET Screen}
NoPatch == [p \in {} |-> Mark]

Server == [pending : Tracker,             \* the comparer's
           renderedCursor : Patches,
           renderedCursorInvalid : BOOLEAN]

Conn == [updates : Tracker,
         requested : SUBSET Screen,
         supportsLocalCursor : BOOLEAN,
         drawRenderedCursor : BOOLEAN, removeRenderedCursor : BOOLEAN,
         renderedCursorRect : SUBSET Screen,
         pointerEventPos : Point,
         recent : BOOLEAN,                \* pointerEventTime is now, in seconds
         needSetCursor : BOOLEAN,         \* the writer's
         view : [Screen -> Color \cup {Mark}],   \* the viewer's picture
         astray : BOOLEAN]                \* auxiliary: see Placed

TypeOK == /\ desktop \in Desktop
          /\ server \in Server
          /\ conn \in Conn
          /\ server.pending.changed \cup server.pending.copied \subseteq Screen
          /\ conn.updates.changed \cup conn.updates.copied \subseteq Screen

Init ==
  /\ desktop \in Desktop
  /\ \A p, q \in Screen : desktop.fb[p] = desktop.fb[q]
  /\ server = [pending |-> NewTracker(TRUE), renderedCursor |-> NoPatch,
               renderedCursorInvalid |-> TRUE]
  /\ \E local \in BOOLEAN :
       conn = [updates |-> AddChanged(NewTracker(TRUE), Screen),
               requested |-> {}, supportsLocalCursor |-> local,
               drawRenderedCursor |-> FALSE, removeRenderedCursor |-> FALSE,
               renderedCursorRect |-> {}, pointerEventPos |-> <<0, 0>>,
               recent |-> FALSE, needSetCursor |-> local,
               view |-> desktop.fb, astray |-> FALSE]
-----------------------------------------------------------------------------
(***************************************************************************)
(* Writing an update                                                       *)
(***************************************************************************)
CursorRect(desk) == Translate(desk.cursor.rect, desk.cursorPos) \cap Screen
CursorMask(desk) == Translate(desk.cursor.mask, desk.cursorPos) \cap Screen

\* The client cannot draw the cursor, or somebody else seems to have moved it.
NeedRenderedCursor(c, desk) ==
  \/ ~c.supportsLocalCursor
  \/ desk.cursorPos # c.pointerEventPos /\ ~c.recent

\* The client when time(0) is read again: its last pointer event may be too old now.
Later(c) == {[c EXCEPT !.recent = r] : r \in {c.recent, FALSE}}

\* RenderedCursor::update: the cursor on what is in the framebuffer now.
Render(desk) ==
  [p \in CursorRect(desk) |-> IF p \in CursorMask(desk) THEN Mark ELSE desk.fb[p]]

\* Mutant: the cursor is only rendered again when it has changed itself.
CheckUpdate_KeepsBackground(s, c, desk) ==
  LET toCheck == s.pending.changed \cup s.pending.copied
      renders == NeedRenderedCursor(c, desk) /\ s.renderedCursorInvalid
  IN IF toCheck = {} /\ ~(NeedRenderedCursor(c, desk) /\ s.renderedCursorInvalid)
     THEN <<s, c>>
     ELSE << [pending |-> ClearTracker(s.pending),
              renderedCursor |-> IF renders THEN Render(desk) ELSE s.renderedCursor,
              renderedCursorInvalid |-> s.renderedCursorInvalid /\ ~renders],
             [c EXCEPT !.updates = Replay(@, UpdateInfo(s.pending, Screen))] >>

\* VNCServerST::checkUpdate: the changes go to the client, and the cursor is
\* rendered again if it, or what is below it, has changed.
CheckUpdate(s, c, desk) ==
  LET toCheck == s.pending.changed \cup s.pending.copied
      renders == /\ NeedRenderedCursor(c, desk)
                 /\ s.renderedCursorInvalid \/ toCheck \cap CursorRect(desk) # {}
  IN IF toCheck = {} /\ ~(NeedRenderedCursor(c, desk) /\ s.renderedCursorInvalid)
     THEN <<s, c>>
     ELSE << [pending |-> ClearTracker(s.pending),
              renderedCursor |-> IF renders THEN Render(desk) ELSE s.renderedCursor,
              renderedCursorInvalid |-> s.renderedCursorInvalid /\ ~renders],
             [c EXCEPT !.updates = Replay(@, UpdateInfo(s.pending, Screen))] >>

\* Mutant: a cursor that a CopyRect takes along is forgotten.
Uncursored_Copied(c) ==
  [c EXCEPT !.updates = IF c.removeRenderedCursor
                        THEN AddChanged(Normalize(@), c.renderedCursorRect)
                        ELSE Normalize(@),
            !.renderedCursorRect = IF c.removeRenderedCursor THEN {} ELSE @,
            !.removeRenderedCursor = FALSE]

\* What is wrong because of a cursor in the viewer's picture is marked changed:
\* where a CopyRect takes it along, and where it is if it is to be removed.
Uncursored(c) ==
  LET t == Normalize(c.updates)
      bogus == Translate(c.renderedCursorRect, t.delta) \cap Screen
      info == UpdateInfo(t, c.requested)
      taken == IF info.copied \cap bogus # {} THEN bogus ELSE {}
      old == IF c.removeRenderedCursor THEN c.renderedCursorRect ELSE {}
  IN [c EXCEPT !.updates = AddChanged(t, taken \cup old),
               !.renderedCursorRect = IF c.removeRenderedCursor THEN {} ELSE @,
               !.removeRenderedCursor = FALSE]

\* Where the cursor will be in the viewer's picture, and whether to draw it: if it
\* has changed, or is drawn over.  (A request is its own bounding rectangle.)  The
\* client is asked again whether it needs the cursor.  `astray' is set if it no
\* longer does and one is drawn all the same, at no known place, or if it does by
\* now and the cursor has not been rendered since it last changed.
Placed(s, c, desk) ==
  LET rect == DOMAIN s.renderedCursor \cap c.requested
      info == UpdateInfo(c.updates, c.requested)
  IN IF ~NeedRenderedCursor(c, desk)
     THEN [c EXCEPT !.astray = @ \/ c.drawRenderedCursor]
     ELSE [c EXCEPT !.renderedCursorRect = rect,
                    !.drawRenderedCursor =
                       rect # {} /\ (@ \/ (info.changed \cup info.copied) \cap rect # {}),
                    !.astray = @ \/ s.renderedCursorInvalid]

\* EncodeManager::writeUpdate: copies, changes, and the whole rendered cursor.
Drawn(c, desk, patch) ==
  LET sent == ApplyUpdate(c.view, UpdateInfo(c.updates, c.requested), desk.fb)
  IN [p \in Screen |-> IF c.drawRenderedCursor /\ p \in DOMAIN patch
                       THEN patch[p] ELSE sent[p]]

\* The rest of writeFramebufferUpdate, for the client as it is after checkUpdate and
\* the removal of old cursors.  With nothing to send the request stays.
Sent(s, marked, desk) ==
  LET placed == Placed(s, marked, desk)
      info == UpdateInfo(placed.updates, placed.requested)
  IN IF /\ IsEmpty(marked.updates) /\ ~marked.needSetCursor
        /\ ~marked.drawRenderedCursor
     THEN <<s, marked>>
     ELSE IF IsEmpty(info) /\ ~placed.needSetCursor /\ ~placed.drawRenderedCursor
     THEN <<s, placed>>
     ELSE << s,
             [placed EXCEPT !.view = Drawn(placed, desk, s.renderedCursor),
                            !.updates = ClearTracker(Normalize(@)),
                            !.drawRenderedCursor = FALSE,
                            !.needSetCursor = FALSE,
                            !.requested = {}] >>

\* VNCSConnectionST::writeFramebufferUpdate, if the link is free: what may come of it,
\* as the clock may go on after checkUpdate.
Written(s, c, desk) ==
  LET checked == CheckUpdate(s, c, desk)
  IN IF c.requested = {} THEN {<<s, c>>}
     ELSE {Sent(checked[1], marked, desk) : marked \in Later(Uncursored(checked[2]))}

\* writeFramebufferUpdate; it does nothing while the link is congested.
Write(s, c, desk) ==
  \E result \in {<<s, c>>} \cup Written(s, c, desk) :
    server' = result[1] /\ conn' = result[2]
-----------------------------------------------------------------------------
(***************************************************************************)
(* The desktop                                                             *)
(***************************************************************************)
\* add_changed.
Draw(R, c) ==
  /\ desktop' = [desktop EXCEPT !.fb = [p \in Screen |-> IF p \in R THEN c ELSE @[p]]]
  /\ Write([server EXCEPT !.pending = AddChanged(@, R)], conn, desktop')

\* add_copied, of pixels that are on the screen.
Scroll(dest, d) ==
  /\ Translate(dest, Negate(d)) \subseteq Screen
  /\ desktop' = [desktop EXCEPT !.fb =
       [p \in Screen |-> IF p \in dest THEN @[Shift(p, Negate(d))] ELSE @[p]]]
  /\ Write([server EXCEPT !.pending = AddCopied(@, dest, d)], conn, desktop')

RenderedCursorChange(c, desk) ==
  [c EXCEPT !.removeRenderedCursor = @ \/ c.renderedCursorRect # {},
            !.drawRenderedCursor = @ \/ NeedRenderedCursor(c, desk)]

\* renderedCursorChange() of the client, which writes only if it needs the cursor.
Changed(c, desk) ==
  LET invalid == [server EXCEPT !.renderedCursorInvalid = TRUE]
      changed == RenderedCursorChange(c, desk)
  IN {<<invalid, changed>>}
       \cup IF NeedRenderedCursor(c, desk) THEN Written(invalid, changed, desk) ELSE {}

\* setCursorPos.
MoveCursor(pos) ==
  /\ pos # desktop.cursorPos
  /\ desktop' = [desktop EXCEPT !.cursorPos = pos]
  /\ \E result \in Changed(conn, desktop') :
       server' = result[1] /\ conn' = result[2]

\* setCursor: a viewer that draws the cursor is sent the new one.
SetCursor(shape) ==
  /\ desktop' = [desktop EXCEPT !.cursor = shape]
  /\ \E result \in Changed(conn, desktop') :
       IF conn.supportsLocalCursor
       THEN Write(result[1], [result[2] EXCEPT !.needSetCursor = TRUE], desktop')
       ELSE server' = result[1] /\ conn' = result[2]
-----------------------------------------------------------------------------
(***************************************************************************)
(* The viewer.  Each message ends with the tail of processMessages.        *)
(***************************************************************************)
Request(R, incremental) ==
  /\ Write(server, [conn EXCEPT !.requested = @ \cup R,
                                !.updates = IF incremental THEN @ ELSE AddChanged(@, R)],
           desktop)
  /\ UNCHANGED desktop

SupportsLocalCursor(c) ==
  [c EXCEPT !.removeRenderedCursor = @ \/ c.renderedCursorRect # {},
            !.drawRenderedCursor = FALSE,
            !.needSetCursor = TRUE]

\* SetEncodings.  (To take the local cursor away while one is to be sent closes
\* the connection: UpdateWriter.)
SetEncodings(local) ==
  LET c == [conn EXCEPT !.supportsLocalCursor = local]
  IN /\ local \/ (SwitchesBack /\ ~conn.needSetCursor)
     /\ Write(server, IF local THEN SupportsLocalCursor(c) ELSE c, desktop)
     /\ UNCHANGED desktop

\* The viewer moves the pointer to pos, which stays what it was if the client may not.
\* The desktop moves the cursor when it gets to it.
PointerEvent(pos) ==
  /\ Write(server, [conn EXCEPT !.recent = TRUE, !.pointerEventPos = pos], desktop)
  /\ UNCHANGED desktop

\* A second goes by.
SecondPasses ==
  /\ conn.recent
  /\ conn' = [conn EXCEPT !.recent = FALSE]
  /\ UNCHANGED <<desktop, server>>

\* updateTimer, after the link was congested, and every message that changes nothing
\* here.
UpdateTimeout == Write(server, conn, desktop) /\ UNCHANGED desktop

Next ==
  \/ \E R \in SUBSET Screen \ {{}}, c \in Color : Draw(R, c)
  \/ \E dest \in SUBSET Screen \ {{}}, d \in Delta : Scroll(dest, d)
  \/ \E pos \in Screen : MoveCursor(pos)
  \/ \E shape \in Shapes : SetCursor(shape)
  \/ \E R \in Requests, incremental \in BOOLEAN : Request(R, incremental)
  \/ \E local \in BOOLEAN : SetEncodings(local)
  \/ \E pos \in Screen \cup {conn.pointerEventPos} : PointerEvent(pos)
  \/ SecondPasses
  \/ UpdateTimeout

Spec == Init /\ [][Next]_vars
-----------------------------------------------------------------------------
(***************************************************************************)
(* Properties                                                              *)
(***************************************************************************)
Unsent == server.pending.changed \cup server.pending.copied
            \cup conn.updates.changed \cup conn.updates.copied

\* renderedCursorChange of VNCSConnectionST.cxx: "the next update will clean up the
\* old rendered cursor".  All that is wrong in the viewer's picture is still to be
\* sent, or is where the server knows of a cursor: none is left anywhere else.
OldCursorsRemoved ==
  \A p \in Screen : conn.view[p] # desktop.fb[p]
                      => p \in Unsent \cup conn.renderedCursorRect

\* writeFramebufferUpdate cleans up every cursor it ever drew, wherever it moves and
\* whoever moves it, except one that it drew or placed when the client's need of it
\* had changed halfway.
NoResidue == ~conn.astray => OldCursorsRemoved

\* Where a cursor is drawn and is to stay, a viewer that cannot draw it sees it, on
\* what is now below it, also between the pixels of the cursor.
CursorIntact ==
  /\ ~conn.supportsLocalCursor
  /\ ~conn.removeRenderedCursor /\ ~conn.drawRenderedCursor
  => \A p \in conn.renderedCursorRect \ Unsent :
       conn.view[p] = IF p \in CursorMask(desktop) THEN Mark ELSE desktop.fb[p]
=============================================================================
