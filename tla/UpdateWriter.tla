---------------------------- MODULE UpdateWriter ----------------------------
(***************************************************************************)
(* One update on its way from the server's framebuffer to the viewer's:    *)
(* EncodeManager decides how the region is split and how each rectangle is *)
(* encoded, SMsgWriter puts the rectangles behind a header that says how   *)
(* many there will be, and CMsgReader and the decoders take the stream     *)
(* apart again.  What the server has to announce (a cursor, a name, a new  *)
(* size) waits in SMsgWriter for the next update; meanwhile SetEncodings   *)
(* may change what the client understands.                                 *)
(*                                                                         *)
(* When an update may be sent at all is the business of UpdatePipeline.    *)
(***************************************************************************)
EXTENDS Encodings

CONSTANTS
  Families,          \* sequence of the kinds of scenes to start from
  ClientEncodings,   \* what SetEncodings may ask for
  SubRectMaxArea, SubRectMaxWidth, SolidSearchBlock, SolidBlockMinArea,
  Divisor,           \* 4 and more: so many pixels for each colour of a palette
  ZrleColors,        \* 127: maxPaletteSize of ZRLE
  TwoColorCursor,    \* can the cursor be sent as an XCursor?
  MaxReplies         \* bounds extendedDesktopSizeMsgs

ASSUME SplitAssumption ==
  /\ {SubRectMaxWidth, SolidSearchBlock, Divisor} \subseteq Nat \ {0}
  /\ SubRectMaxArea \in Nat /\ SubRectMaxArea >= SubRectMaxWidth
  /\ ZrleColors \in 1 .. 127
ASSUME RepliesAssumption == MaxReplies \in Nat

\* A family's pictures have as many pixels as they say; what has changed is within
\* each of them, and so is the cursor, of which there is at most one.
ASSUME FamilyAssumption ==
  \A f \in ToSet(Families) :
    /\ f.improved \subseteq BOOLEAN /\ f.deltas \subseteq Point
    /\ \A i \in f.pictures :
         /\ i = [w |-> i.w, h |-> i.h, at |-> i.at] /\ i.w \in Nat /\ i.h \in Nat
         /\ DOMAIN i.at = Pixels(Whole(i))
         /\ \A changed \in f.changed : changed \subseteq DOMAIN i.at
         /\ \A cursor \in f.cursors :
              /\ IsFiniteSet(cursor) /\ Cardinality(cursor) <= 1 /\ cursor \subseteq Rectangle
              /\ \A r \in cursor : Nonempty(r) /\ Pixels(r) \subseteq DOMAIN i.at

Unknown == 65535     \* the header of an update that ends with a LastRect marker

VARIABLES
  scene,    \* where this behaviour has started
  ui,       \* what is to be sent: changed, copied, delta and the rendered cursor
  cp,       \* ConnParams: preferred, encodings and pseudo-encodings of the client
  need,     \* SMsgWriter's needSet... and the number of extendedDesktopSizeMsgs
  closed,   \* why the connection has been closed; "" while it is open
  stream,   \* between server and viewer
  viewer    \* its picture, nUpdateRectsLeft, and whether it has lost track

writerVars == <<scene, ui, cp, need, closed, stream, viewer>>
-----------------------------------------------------------------------------
(***************************************************************************)
(* EncodeManager                                                           *)
(***************************************************************************)
screen == scene.screen

\* A picture in the client's pixel format.
Converted(i) == Image(i.w, i.h, LAMBDA p : scene.convert[i.at[p]])

\* Region::get_rects with a direction, see CopyRects.
get_rects(R, left2right, topdown) ==
  InOrder(BandRectangles(R),
          LAMBDA r, s : IF r.y1 # s.y1 THEN topdown <=> r.y1 < s.y1
                        ELSE r # s /\ (left2right <=> r.x1 < s.x1))

\* prepareEncoders: the preferred encoding where it is any good, otherwise the
\* first of a list that the client has.
FirstOf(list) ==
  LET able == {k \in DOMAIN list : list[k] \in cp.encodings}
  IN IF able = {} THEN "Raw" ELSE list[Min(able)]
Preferred(good, otherwise) == IF cp.preferred \in good THEN cp.preferred ELSE otherwise

activeEncoders ==
  LET full == Preferred({"Hextile", "Tight", "ZRLE"}, FirstOf(<<"ZRLE", "Tight", "Hextile">>))
      indexed == Preferred({"Tight", "ZRLE"}, FirstOf(<<"ZRLE", "Tight", "Hextile">>))
      rle == Preferred({"RRE", "Hextile", "Tight", "ZRLE"}, indexed)
  IN [solid |-> FirstOf(<<"Tight", "RRE", "ZRLE", "Hextile">>), fullColour |-> full,
      bitmap |-> indexed, indexed |-> indexed, bitmapRLE |-> rle, indexedRLE |-> rle]

maxPaletteSize(e) == IF e = "ZRLE" THEN ZrleColors ELSE 256

MaxColors(r) ==
  Min({Max({2, Area(r) \div Divisor}), maxPaletteSize(activeEncoders.indexed),
       maxPaletteSize(activeEncoders.indexedRLE)})

\* Is run-length encoding the better choice?
useRLE(i) == Runs(i) <= i.w * i.h * 2

EncoderType(i, palette) ==
  CASE Len(palette) = 0 -> "fullColour"
    [] Len(palette) = 1 -> "solid"
    [] Len(palette) = 2 -> IF useRLE(i) THEN "bitmapRLE" ELSE "bitmap"
    [] OTHER -> IF useRLE(i) THEN "indexedRLE" ELSE "indexed"

DataRect(r, encoding, data) == [kind |-> "data", r |-> r, encoding |-> encoding, data |-> data]

\* writeSubRect.
SubRect(r, picture) ==
  LET i == Converted(Cut(picture, r))
      palette == Analyse(i, MaxColors(r))
      encoding == activeEncoders[EncoderType(i, palette)]
  IN DataRect(r, encoding, Encode(encoding, i, palette, scene.improved))

\* computeNumRects and writeRects: the first calculates what the second does.
NoSplit(r) == Area(r) < SubRectMaxArea /\ Width(r) < SubRectMaxWidth

\* Mutant: the last, narrower column of rectangles is forgotten.
NumRects_RoundedDown(r) ==
  LET sw == Min({Width(r), SubRectMaxWidth})
      sh == SubRectMaxArea \div sw
  IN IF NoSplit(r) THEN 1 ELSE (Width(r) \div sw) * (((Height(r) - 1) \div sh) + 1)

NumRects(r) ==
  LET sw == Min({Width(r), SubRectMaxWidth})
      sh == SubRectMaxArea \div sw
  IN IF NoSplit(r) THEN 1 ELSE (((Width(r) - 1) \div sw) + 1) * (((Height(r) - 1) \div sh) + 1)

computeNumRects(R) ==
  LET rects == RectanglesOf(R)
      numRects[k \in 0 .. Len(rects)] ==
        IF k = 0 THEN 0 ELSE numRects[k - 1] + NumRects(rects[k])
  IN numRects[Len(rects)]

SubRects(r) ==
  LET sw == Min({Width(r), SubRectMaxWidth})
  IN IF NoSplit(r) THEN <<r>> ELSE Split(r, sw, SubRectMaxArea \div sw)

Rects(R) ==
  LET pieces == FlattenSeq([k \in DOMAIN RectanglesOf(R) |-> SubRects(RectanglesOf(R)[k])])
  IN [k \in DOMAIN pieces |-> SubRect(pieces[k], screen)]

CopiedRects ==
  LET rects == get_rects(ui.copied, ui.delta[1] <= 0, ui.delta[2] <= 0)
  IN [k \in DOMAIN rects |-> [kind |-> "copy", r |-> rects[k],
                              src |-> MovedBy(rects[k], Negate(ui.delta))]]

\* extendSolidAreaByBlock: r starts with a solid block; one row of blocks after the
\* other, each no wider than the one before, and the largest area so far is kept.
ByBlock(r, c) ==
  LET bands == Split(r, Width(r), SolidSearchBlock)
      Solids(w, band) ==
        {n \in {Min({k * SolidSearchBlock, w}) : k \in 0 .. w} :
           Solid(screen, Box(r.x1, band.y1, n, Height(band)), c)}
      found[k \in 0 .. Len(bands)] ==
        IF k = 0 THEN [w |-> Width(r), best |-> Box(r.x1, r.y1, 0, 0)]
        ELSE LET w == Max(Solids(found[k - 1].w, bands[k]))
                 best == found[k - 1].best
                 area == Box(r.x1, r.y1, w, bands[k].y2 - r.y1)
             IN [w |-> w, best |-> IF Area(area) > Area(best) THEN area ELSE best]
  IN found[Len(bands)].best

\* extendSolidAreaByPixel: up, down, left and right, within r.
ByPixel(r, s, c) ==
  LET up == Min({y \in r.y1 .. s.y1 : Solid(screen, [s EXCEPT !.y1 = y], c)})
      down == Max({y \in s.y2 .. r.y2 : Solid(screen, [s EXCEPT !.y2 = y], c)})
      tall == [s EXCEPT !.y1 = up, !.y2 = down]
      left == Min({x \in r.x1 .. s.x1 : Solid(screen, [tall EXCEPT !.x1 = x], c)})
      right == Max({x \in s.x2 .. r.x2 : Solid(screen, [tall EXCEPT !.x2 = x], c)})
  IN [tall EXCEPT !.x1 = left, !.x2 = right]

\* writeSolidRects, for one rectangle of the region: the first block that is solid
\* and extends far enough, if there is one.
SolidRect(r) ==
  LET Block(b) == ByBlock([r EXCEPT !.x1 = b.x1, !.y1 = b.y1], screen.at[<<b.x1, b.y1>>])
      Good(b) == /\ Solid(screen, b, screen.at[<<b.x1, b.y1>>])
                 /\ Block(b) = r \/ Area(Block(b)) >= SolidBlockMinArea
      blocks == Split(r, SolidSearchBlock, SolidSearchBlock)
      good == {k \in DOMAIN blocks : Good(blocks[k])}
  IN IF good = {} THEN <<>>
     ELSE LET b == blocks[Min(good)]
          IN <<IF Block(b) = r THEN r ELSE ByPixel(r, Block(b), screen.at[<<b.x1, b.y1>>])>>

SolidAreas(R) ==
  LET rects == RectanglesOf(R)
  IN FlattenSeq([k \in DOMAIN rects |-> SolidRect(rects[k])])

SolidRects(areas) ==
  [k \in DOMAIN areas |->
     LET r == areas[k]
     IN DataRect(r, activeEncoders.solid,
                 EncodeSolid(activeEncoders.solid, Width(r), Height(r),
                             scene.convert[screen.at[<<r.x1, r.y1>>]]))]

\* RenderedCursor: the framebuffer with the cursor in it.
WithCursor(cursor) == IF cursor = {} THEN screen
                      ELSE Fill(screen, CHOOSE r \in cursor : TRUE, scene.ink)
CursorRects == IF ui.cursor = {} THEN <<>>
               ELSE <<SubRect(CHOOSE r \in ui.cursor : TRUE, WithCursor(ui.cursor))>>

\* Mutant: what has been sent as a solid area is sent again with the rest.
UpdateRects_SolidTwice ==
  LET areas == IF "LastRect" \in cp.pseudo THEN SolidAreas(ui.changed) ELSE <<>>
  IN CopiedRects \o SolidRects(areas) \o Rects(ui.changed) \o CursorRects

\* writeUpdate, after the header.
UpdateRects ==
  LET areas == IF "LastRect" \in cp.pseudo THEN SolidAreas(ui.changed) ELSE <<>>
      solid == UNION {Pixels(areas[k]) : k \in DOMAIN areas}
  IN CopiedRects \o SolidRects(areas) \o Rects(ui.changed \ solid) \o CursorRects
-----------------------------------------------------------------------------
(***************************************************************************)
(* SMsgWriter                                                              *)
(***************************************************************************)
NoNeed == [name |-> FALSE, cursor |-> FALSE, xcursor |-> FALSE,
           ext |-> FALSE, size |-> FALSE, replies |-> 0]

needNoDataUpdate == need.size \/ need.ext \/ need.replies > 0
needFakeUpdate == need.name \/ need.cursor \/ need.xcursor \/ needNoDataUpdate

If(flag, kind) == IF flag THEN <<[kind |-> kind]>> ELSE <<>>

\* writeFramebufferUpdateStart counts the announcements, writePseudoRects writes them.
PseudoCount ==
  Len(If(need.name, "name") \o If(need.cursor, "cursor") \o If(need.xcursor, "xcursor"))
PseudoRects ==
  If(need.cursor, "cursor") \o If(need.xcursor, "xcursor") \o If(need.name, "name")

\* Mutant: the new size before the layout.
NoDataRects_SizeFirst ==
  If(need.size, "size") \o [k \in 1 .. need.replies |-> [kind |-> "ext"]] \o If(need.ext, "ext")

\* writeNoDataRects.
NoDataRects ==
  [k \in 1 .. need.replies |-> [kind |-> "ext"]] \o If(need.ext, "ext") \o If(need.size, "size")

\* The pseudo-encoding that the client must have for a rectangle to be written.
Requires(kind) ==
  CASE kind = "name" -> {"DesktopName"} [] kind = "cursor" -> {"Cursor"}
    [] kind = "xcursor" -> {"XCursor"} [] kind = "ext" -> {"ExtendedDesktopSize"}
    [] kind = "size" -> {"DesktopSize"} [] OTHER -> {}

\* Is this written without an exception?
Writable(rect) ==
  /\ Requires(rect.kind) \subseteq cp.pseudo
  /\ rect.kind = "xcursor" => TwoColorCursor

\* What writeFramebufferUpdateStart puts into the header, of n rectangles to come.
Announced(n) == IF n = Unknown THEN n ELSE n + PseudoCount

\* No exception from startRect to writeFramebufferUpdateEnd.
Fits(n, rects) ==
  /\ \A k \in DOMAIN rects : Writable(rects[k])
  /\ Announced(n) \in {0, Unknown} \/ Len(rects) = Announced(n)

\* Either the header or a LastRect marker tells where the update ends; the header
\* has 16 bits.
Message(n, rects) ==
  <<[kind |-> "update", n |-> Announced(n) % 65536]>> \o rects
    \o (IF Announced(n) \in {0, Unknown} THEN <<[kind |-> "last"]>> ELSE <<>>)

\* An exception closes the connection, what has been announced is still in need.
Throw == closed' = "exception" /\ UNCHANGED <<ui, need, stream>>

\* At most one unread message, and a second one behind its last rectangle.
Room == Len(stream) <= 1

WriteNoDataUpdate ==
  /\ closed = "" /\ Room
  /\ needNoDataUpdate
  /\ LET rects == PseudoRects \o NoDataRects
     IN IF Fits(Len(NoDataRects), rects)
        THEN /\ stream' = stream \o Message(Len(NoDataRects), rects)
             /\ need' = NoNeed
             /\ UNCHANGED <<ui, closed>>
        ELSE Throw
  /\ UNCHANGED <<scene, cp, viewer>>

\* Mutant: an update is written even if there is nothing to send.
SomethingToSend_Always == TRUE

\* Otherwise writeFramebufferUpdate returns early.
SomethingToSend == ui.changed # {} \/ ui.copied # {} \/ ui.cursor # {} \/ needFakeUpdate

\* The rest of VNCSConnectionST::writeFramebufferUpdate: EncodeManager::writeUpdate.
WriteUpdate ==
  /\ closed = "" /\ Room
  /\ ~needNoDataUpdate
  /\ SomethingToSend
  /\ LET n == IF "LastRect" \in cp.pseudo THEN Unknown
              ELSE Len(RectanglesOf(ui.copied)) + computeNumRects(ui.changed)
                     + Cardinality(ui.cursor)
         rects == PseudoRects \o UpdateRects
     IN IF Fits(n, rects)
        THEN /\ stream' = stream \o Message(n, rects)
             /\ need' = NoNeed
             /\ ui' = [ui EXCEPT !.changed = {}, !.copied = {}, !.cursor = {}]
             /\ UNCHANGED closed
        ELSE Throw
  /\ UNCHANGED <<scene, cp, viewer>>
-----------------------------------------------------------------------------
(***************************************************************************)
(* VNCSConnectionST: what is to be announced, and to whom                  *)
(***************************************************************************)
Eventful == closed = "" /\ scene.busy

\* setCursor: the better of the two kinds the client has, if it has any.
WithCursorAnnounced(pseudo) ==
  IF "Cursor" \in pseudo THEN [need EXCEPT !.cursor = TRUE]
  ELSE IF "XCursor" \in pseudo THEN [need EXCEPT !.xcursor = TRUE] ELSE need

SetCursor ==
  /\ Eventful
  /\ need' = WithCursorAnnounced(cp.pseudo)
  /\ UNCHANGED <<scene, ui, cp, closed, stream, viewer>>

SetDesktopName ==
  /\ Eventful
  /\ "DesktopName" \in cp.pseudo
  /\ need' = [need EXCEPT !.name = TRUE]
  /\ UNCHANGED <<scene, ui, cp, closed, stream, viewer>>

\* pixelBufferChange: a client that cannot be told is closed.
PixelBufferChange ==
  /\ Eventful
  /\ IF "ExtendedDesktopSize" \in cp.pseudo
     THEN need' = [need EXCEPT !.ext = TRUE] /\ UNCHANGED closed
     ELSE IF "DesktopSize" \in cp.pseudo
          THEN need' = [need EXCEPT !.size = TRUE] /\ UNCHANGED closed
          ELSE closed' = "resize" /\ UNCHANGED need
  /\ UNCHANGED <<scene, ui, cp, stream, viewer>>

\* setDesktopSize and screenLayoutChange: every answer is a rectangle of its own.
SetDesktopSize ==
  /\ Eventful
  /\ "ExtendedDesktopSize" \in cp.pseudo
  /\ need.replies < MaxReplies
  /\ need' = [need EXCEPT !.replies = @ + 1]
  /\ UNCHANGED <<scene, ui, cp, closed, stream, viewer>>

\* SConnection::setEncodings, ConnParams::setEncodings and supportsLocalCursor:
\* the desktop's name is the one pseudo-encoding that is never taken away again.
SetEncodings(new) ==
  /\ Eventful
  /\ cp' = [new EXCEPT !.pseudo = @ \cup (cp.pseudo \cap {"DesktopName"})]
  /\ need' = WithCursorAnnounced(new.pseudo)
  /\ UNCHANGED <<scene, ui, closed, stream, viewer>>

\* A message that is not an update (a bell, a fence).
OtherMessage ==
  /\ Eventful /\ stream # <<>> /\ Room
  /\ Head(stream).kind # "other"
  /\ stream' = Append(stream, [kind |-> "other"])
  /\ UNCHANGED <<scene, ui, cp, need, closed, viewer>>
-----------------------------------------------------------------------------
(***************************************************************************)
(* CMsgReader and the decoders                                             *)
(***************************************************************************)
IsMessage(item) == item.kind \in {"update", "other"}

\* readMsg between updates.  A rectangle here is an unknown message type.
ReadMessage(item) ==
  viewer' = IF ~IsMessage(item) THEN [viewer EXCEPT !.lost = TRUE]
            ELSE IF item.kind = "update" THEN [viewer EXCEPT !.nUpdateRectsLeft = item.n]
            ELSE viewer

\* readMsg within an update.  A message here is a rectangle of nonsense.
ReadRect(item) ==
  IF IsMessage(item) THEN viewer' = [viewer EXCEPT !.lost = TRUE]
  ELSE LET left == IF item.kind = "last" THEN 0 ELSE viewer.nUpdateRectsLeft - 1
           picture ==
             CASE item.kind = "data" -> Decode(item.encoding, viewer.picture, item.r, item.data)
               [] item.kind = "copy" -> Paste(viewer.picture, item.r, Cut(viewer.picture, item.src))
               [] OTHER -> viewer.picture
       IN viewer' = [viewer EXCEPT !.nUpdateRectsLeft = left, !.picture = picture]

ReadMsg ==
  /\ stream # <<>> /\ ~viewer.lost
  /\ IF viewer.nUpdateRectsLeft = 0 THEN ReadMessage(Head(stream)) ELSE ReadRect(Head(stream))
  /\ stream' = Tail(stream)
  /\ UNCHANGED <<scene, ui, cp, need, closed>>
-----------------------------------------------------------------------------
\* What the viewer had before this update: the copied pixels where they were, the
\* changed ones not yet, and the others as they are.
Before(s, copied, changed) ==
  LET new == Image(s.screen.w, s.screen.h, LAMBDA p : s.convert[s.screen.at[p]])
      Old(p) == IF Shift(p, s.delta) \in copied THEN new.at[Shift(p, s.delta)]
                ELSE IF p \in changed \cup copied THEN s.blank ELSE new.at[p]
  IN Image(s.screen.w, s.screen.h, Old)

\* One of the family's pictures has been scrolled by delta, and the pixels of changed
\* are new as well.
InitScene(f) ==
  \E i \in f.pictures, changed \in f.changed, d \in f.deltas, k \in f.cursors,
     c \in f.clients, improved \in f.improved :
    LET all == DOMAIN i.at
        scrolled == {p \in all : d # <<0, 0>> /\ Shift(p, Negate(d)) \in all}
    IN /\ scene = [screen |-> i, delta |-> d, cursor |-> k, convert |-> f.convert,
                   improved |-> improved, blank |-> f.blank, ink |-> f.ink, busy |-> f.busy]
       /\ cp = c
       /\ ui = [changed |-> IF d = <<0, 0>> THEN changed ELSE changed \cup (all \ scrolled),
                copied |-> scrolled \ changed, delta |-> d, cursor |-> k]

WriterInit ==
  /\ \E n \in DOMAIN Families : InitScene(Families[n])
  /\ need = NoNeed
  /\ closed = ""
  /\ stream = <<>>
  /\ viewer = [picture |-> Before(scene, ui.copied, ui.changed), nUpdateRectsLeft |-> 0, lost |-> FALSE]

WriterNext ==
  \/ WriteNoDataUpdate \/ WriteUpdate
  \/ SetCursor \/ SetDesktopName \/ PixelBufferChange \/ SetDesktopSize
  \/ \E new \in ClientEncodings : SetEncodings(new)
  \/ OtherMessage
  \/ ReadMsg

WriterSpec == WriterInit /\ [][WriterNext]_writerVars
-----------------------------------------------------------------------------
(***************************************************************************)
(* Properties                                                              *)
(***************************************************************************)
\* Whatever is announced, taken away and interleaved, the viewer never takes a
\* rectangle for a message or a message for a rectangle: the count in the header
\* (writeFramebufferUpdateStart) or the LastRect marker is where the update ends.
InStep == ~viewer.lost

\* The writer's own exceptions never close a connection because of its counting
\* (computeNumRects against writeRects): only if a client has given up an
\* encoding it has been promised something in, or cannot show a coloured cursor.
ClosedForAReason ==
  LET announced == PseudoRects \o NoDataRects
  IN closed = "exception" => \E k \in DOMAIN announced : ~Writable(announced[k])

Shown == IF scene.cursor = {} THEN Converted(screen) ELSE Converted(WithCursor(scene.cursor))

\* When everything is sent and read, the viewer shows the framebuffer, whatever the
\* picture, the shape of the region, its splitting, the solid areas found in it and
\* the encoding of each part: every decoder makes of the data what the encoder saw.
DecodedIsEncoded ==
  closed = "" /\ ui.changed \cup ui.copied = {} /\ ui.cursor = {} /\ stream = <<>> =>
     viewer.picture = Shown

\* "Some clients assume this is the last rectangle so don't send anything more
\* after this" (SMsgWriter::writeNoDataRects).
SizeIsLast ==
  \A k \in 1 .. Len(stream) - 1 : stream[k].kind = "size" => IsMessage(stream[k + 1])

\* An update has each pixel of the changed region once and no other: the solid
\* areas, the rest and its pieces neither overlap nor leave anything out.  (Only
\* the rendered cursor is drawn on top of what has already been sent.)
EachPixelOnce ==
  [][Len(stream') > Len(stream) /\ ui' # ui =>
       LET data == {k \in Len(stream) + 1 .. Len(stream') : stream'[k].kind = "data"}
           once == IF ui.cursor = {} THEN data ELSE data \ {Max(data)}
       IN /\ UNION {Pixels(stream'[k].r) : k \in once} = ui.changed
          /\ \A k, l \in once : k # l => Pixels(stream'[k].r) \cap Pixels(stream'[l].r) = {}
     ]_writerVars
=============================================================================
