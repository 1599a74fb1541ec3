# TLA+ models of TigerVNC

This directory holds TLA+ models of the parts of TigerVNC in which the order of
events decides whether the program is right: how a change of the desktop finds its way to
every viewer, how server and viewer come to an agreement and stay in step, how an update is taken apart,
encoded and put together again, how keys and cursors of several viewers share
one desktop, and how connections come and go in the server.  TLC checks the models on small instances, and TLAPS proves
the most important properties for instances of any size.

Line numbers refer to the sources next to this directory (`src/`).

- [The system](#the-system): the parts of TigerVNC, their state and interaction
- [Modules](#modules): what is modelled where, and how it corresponds to the code
- [Runs](#runs): what TLC checks, with which bounds
- [Fairness](#fairness): what the liveness properties assume
- [Proofs](#proofs): what is proved for all instances, and how
- [Disagreements found](#disagreements-found)
- [Not modelled](#not-modelled)
- [Plan](#plan): what comes next

## The system

A VNC *server* has a *desktop* whose pixels it shares with *viewers*.  The code
of both is in `common/rfb`.  On Unix the desktop is an X server (`unix/xserver`);
the server runs inside it, as a part of its main loop, in one thread.  There is
no thread to race with, but there are plenty of events: the X server's hooks
report drawing at any time, timers run out, sockets become readable and writable,
and the local user answers dialogs.  The messages of viewer and server are not
synchronised except where the protocol says so.

| component | state | operations | talks to |
|---|---|---|---|
| update tracker (`UpdateTracker`) | changed and copied region, delta, copyEnabled | add_changed, add_copied, enable_copyrect, getUpdateInfo, copyTo, clear | filled by the comparer's and server's calls, read by a connection for each update |
| region (`Region`, `Rect.h`) | a set of pixels as X11 rectangles | union, translate, get_rects, get_bounding_rect | used by all |
| comparer (`ComparingUpdateTracker`) | an update tracker, oldFb, firstCompare, enabled | compare, enable, disable | reads the framebuffer, owned by the server |
| server (`VNCServerST`) | clients, comparer, blockCounter, defer timer, desktopStarted, cursor, blacklist | add_changed/add_copied, blockUpdates, setPixelBuffer, setScreenLayout, setCursor, tryUpdate, checkUpdate, addSocket, removeSocket, closeClients | called by the desktop, calls connections and `SDesktop` |
| connection (`VNCSConnectionST` and `SConnection`) | handshake state, updates, requested, cuRegion, updateTimer, fence, congestion, pressed keys | one method per message, writeFramebufferUpdate, the pseudo-rectangle queues | the server, and the viewer through streams |
| message writer (`SMsgWriter`) | need flags, number of rectangles in header and update | write..., needFakeUpdate, needNoDataUpdate | called by the connection |
| X desktop (`XserverDesktop`) | queryConnectId and queryConnectSocket, framebuffer | approve/query, blockHandler, wakeupHandler, the hooks' calls | the server and `vncconfig` |
| blacklist (`Blacklist`) | per host: marks, blockUntil, blockTimeout | isBlackmarked, clearBlackmark | the server |
| timers (`Timer`) | sorted list of pending timers | start, stop, checkTimeouts | server and connections |
| streams (`rdr`) | buffers | read, write, flush | all messages |
| security types (`SSecurity...`, `CSecurity...`) | how far a layer has come, access rights, TLS session | processMsg, setStreams | the two ends of a connection, the user |
| viewer (`CConn`, `CConnection`) | handshake state, framebuffer, formatChange, pendingUpdate, cursor | one method per message | server, user interface |
| encoders and decoders | none that outlives an update, except for compression | writeRect, readRect | connection and viewer |

### What is hard about it

- **Lossy bookkeeping.** A tracker is not a log: it has room for one pending copy,
  and merges whatever comes.  Whether the merge of any sequence of draws and
  copies still describes the difference between the two pictures cannot be seen
  from one call.  The comparer then drops changes that make no difference to
  *its* old picture, and is switched on and off by the clients' compression levels.
- **Copies in place.** oldFb and the viewer's framebuffer are source and
  destination at the same time, so the order of rectangles and rows matters.
- **Who calls writeFramebufferUpdate?** It returns early in six cases: messages are
  being read, nothing is requested, the client is congested, updates are blocked,
  a change is being deferred, there is nothing to send.  After each of them
  something else has to call it again.
- **Resizing.** The framebuffer can be replaced between a request and its answer, or
  by a message handler, and the new size has to be announced before its pixels.
- **Handshakes overlap.** Several connections may be half way through theirs while
  the local user is asked about one of them, another is closed, its socket is
  removed later, and the desktop is started or stopped.
- **Unlabelled messages.** During the handshake no message says what it is.  Both
  ends work out what comes next from the version, the security type and its layers,
  and replace their streams by TLS streams in the middle of it.
- **Two ends of a stream.** The viewer asks for the next update while it decodes
  one, changes its pixel format while updates of the old one are on their way,
  and its user may change an option between any two of its reads.  The server
  changes its framebuffer under it.
- **Counting before writing.** The header of an update has the number of its
  rectangles, which is computed before they are split, encoded and written, with
  announcements (cursor, name, size) queued in between.
- **State carried along.** Hextile's colours go from tile to tile, palettes have
  limits that differ between encoder and decoder, solid areas are cut out of what
  is sent.
- **One keyboard, several viewers.** A keysym becomes a keycode at some level, with
  Shift and AltGr as they are held by anyone; they are faked for the moment.  Keys
  and buttons must come up again when who holds them goes away.
- **A picture that is not the framebuffer.** For some viewers the server draws the
  cursor, which then is in the viewer's picture and in the way, and which of them
  they are depends on who moved the pointer and when.
- **Time.** The defer timer, the query timer and the dialog's own countdown all
  race with what they wait for; the congestion window is adjusted from answers that
  come a round trip late.

The hazards are listed line by line in `PROJECT.json`, each with the properties
that would catch it.

### What makes each component correct

| component | properties | where |
|---|---|---|
| update tracker | is always a true account of the difference (`Sound`); an update makes the viewer's picture the framebuffer (`MirrorSpec`); without CopyRect no copy is sent (`NoCopyWhenDisabled`) | `TrackedScreen` |
| moving a region | nothing is overwritten before it was read (`SafeSpec`); in the end every pixel is in place (`AllMoved`) | `CopyRects` |
| regions | union, intersection and difference are those of the pixels, in canonical rectangles (`RegionsExact`) | `Xregion` |
| update pipeline | no change is lost between comparer and trackers (`Coherent`); no mixture of two pictures (`NoTornUpdate`); with nothing left to send the viewer is up to date (`UpToDate`); sizes are announced (`SizeAnnounced`); nobody waits for ever (`NoLostWakeup`, `Answered`) | `UpdatePipeline` |
| viewer and server in step | each rectangle is decoded in the format it was encoded in (`DecodedAsEncoded`); no assertion fails and nothing is refused (`NothingRefused`); requests neither run dry nor double (`AskedFor`); continuous updates cover the whole screen (`AreaFollowsSize`); what is drawn is shown (`Shown`, `Displayed`); fences are answered (`ProbeAnswered`) | `ViewerSync`, `Connection` |
| handshake and security types | each message is taken for what it is (`Understood`); nobody is let in without having passed every layer of an enabled type (`LetIn`); neither side waits for the other for ever (deadlock checking) | `Handshake` |
| writing an update | the viewer shows what was sent (`DecodedIsEncoded`), each pixel once (`EachPixelOnce`); the viewer stays in step (`InStep`), the writer never trips over its own count (`ClosedForAReason`), nothing follows a size (`SizeIsLast`) | `UpdateWriter`, `Encodings` |
| rendered cursor | no piece of an old cursor is left behind (`OldCursorsRemoved`, which holds as `NoResidue`), the present one is where and as it should be (`CursorIntact`) | `RenderedCursor` |
| keyboard and pointer | releases match presses (`ReleasesMatch`, which holds as `NothingStuck`), each key types what was asked for (`TypedAsSent`), a drag has the pointer to itself (`DragIsOwn`) and ends with its viewer (`PointerFreed`) | `Input`, `Keyboard` |
| congestion control | no time is below the wire latency (`Measured`), what is on its way is bounded (`InFlightBounded`), nothing is held back for ever (`Flows`) | `Congestion` |
| connections | one viewer when not shared (`OneViewer`); the local user decides (`UserDecides`, `QueriedHasSlot`); the desktop runs exactly as long as it is needed (`DesktopFollowsClients`, `DesktopStops`) | `Session` |

## Modules

| module | what it is |
|---|---|
| `Region` | points, rectangles and regions: a region is the set of its pixels; the rectangles the X11 code makes of it |
| `UpdateTracker` | `SimpleUpdateTracker` and `ClippingUpdateTracker` as operators on tracker values, and the meaning of a tracker |
| `ScreenMirror` | abstract: a viewer's picture changes only by becoming the framebuffer |
| `TrackedScreen` | one framebuffer, one tracker, one viewer; implements `ScreenMirror` |
| `Hooks` | what the drawing operations of an X server paint, and what `vncHooks.c` reports of them |
| `HookedScreen` | `TrackedScreen` below an X server with these operations |
| `SafeCopy` | abstract: moving a region in place a part at a time, safely |
| `CopyRects` | `get_rects` and `copyRect`; implements `SafeCopy` |
| `Xregion` | the X11 region code as operators: rectangles in bands, a band at a time |
| `UpdatePipeline` | server, comparer and connections; composes the trackers of `UpdateTracker` |
| `ViewerSync` | a viewer and its connection with two streams between them: requests, formats, fences, continuous updates, resizing |
| `Handshake` | from the first byte to ServerInit, both sides: version, security types and their layers, TLS, the query of the local user |
| `Connection` | `Handshake`, and then `ViewerSync` with the streams it has left |
| `Encodings` | encoders and decoders as operators: Raw, RRE, Hextile, ZRLE, Tight |
| `UpdateWriter` | one update and the announcements around it, from the server's picture through `Encodings` to the viewer's |
| `RenderedCursor` | the cursor drawn by the server, in front of the trackers of `UpdateTracker` |
| `Keyboard` | from keysyms to keycodes, as operators |
| `Input` | keys and pointers of several viewers, on the keyboard of `Keyboard` |
| `Congestion` | pings and the congestion window of one connection |
| `Session` | handshake, query, sharing and closing of connections |
| `MC...` | the instances TLC checks |
| `...Proofs` | the theorems; `SessionProofs` has those of `Session` and of `Input`, `EncodeManagerProofs` those of `Region`'s rectangles, `UpdateWriter` and `CopyRects` |

`Region` and `UpdateTracker` are operators only, so that `TrackedScreen`,
`CopyRects`, `UpdatePipeline` and `RenderedCursor` share them and the lemmas about
them; so are `Hooks`, `Encodings` and `Keyboard`.  The abstract specifications are tied to
the detailed ones by named instances: `Mirror == INSTANCE ScreenMirror WITH ...` in
`TrackedScreen`, where the property `MirrorSpec` is `Mirror!Spec`, and
`Safe == INSTANCE SafeCopy WITH ...` in `CopyRects`, where `SafeSpec` is `Safe!Spec`.

### UpdateTracker, TrackedScreen and HookedScreen

`Tracker` has the four members of `SimpleUpdateTracker`.  `AddChanged`,
`EnableCopyRect`, `AddCopied` (with its two cases, `AddFreshCopy` and
`AddContinuedCopy`), `ClearTracker`, `UpdateInfo` and `Replay` (copyTo) are its
methods.  `getUpdateInfo` changes the tracker as well as reading it: this half is
`Normalize`.  `ApplyUpdate` says what a tracker is for: the copies first, from the
old content, then the changed pixels, in the order of
`EncodeManager::writeUpdate`; and `Accounts` what it means for a tracker to be
right.

`TrackedScreen` lets the desktop draw and scroll any region by any distance,
partly off the screen too, through the clipping of the hooks
(`ClippedAddChanged`, `ClippedAddCopied`).  A copy whose source is off the screen
brings in pixels that the server has never seen; the clipping has to turn it into
a change.

`HookedScreen` puts an X server above it.  For each operation that `vncHooks.c` wraps,
`Hooks` has the region that the hook reports (`LinesReported`, `ArcsReported`,
`TextReported`, ...) next to what the operation paints at most (`LinesPainted`, ...): what is
reported is translated from the code, what is painted from the X protocol, which is
external.  The hooks work in the window's own coordinates and move the result to the
window's origin, add half a line width, and from `MaxRectsPerOp` rectangles on report the
bounding box, which they compute by loops of their own.  `Operation` draws what is painted
and reports what is reported; a pixel that is only painted would stay stale at the
viewer, which `Sound` says never happens.  `CopyArea` and `CopyWindow` report copies, of what
could be seen of their source, and `CopyArea` also the rest as changed.

### CopyRects

`Region::get_rects` returns the rectangles band by band, upwards or downwards,
and from right to left or left to right in each band, so that a copied region can
be moved rectangle by rectangle.  `StartBand` is the head of its outer loop
(counting the rectangles of a band, and choosing which is first), `CopyRow` one
row of `copyRect`'s loop with the inner loop's step to the next rectangle.
A `picture` maps every pixel to the pixel its content was in at first, so that
the model has no colours and the result can be read off.  get_rects collects all
rectangles before the first is moved, here one is moved when it is found: the
moves do not influence the search.  `Banded` states what it needs of the order of a
region's rectangles and is an assumption about the `Jobs`; `RectanglesOf` in `Region`
is the one list of rectangles that the X11 code has for a set of pixels, and
`RegionsAreJobs` is the theorem that this list is in bands for any finite set, so that the
assumption leaves out no region that can be copied.

That it has this list is what `Xregion` shows, which models that code
(`src/common/Xregion/Region.c`) itself: `miRegionOp` goes through the bands of two regions from top
to bottom, hands what only one has and what both have to the functions of the
operation (`miUnionO`, `miIntersectO`, `miSubtractO`, and `Alone` for the others), and
`miCoalesce` makes one band of two that are alike.  `RegionsExact` builds a copied
region with `setOrderedRects`, moves it back to its source with `XOffsetRegion`,
combines the two in every way, and compares rectangles and extents with those of the sets of
pixels.  All other modules have regions as sets.

### UpdatePipeline

One action is one call from outside, with everything it calls before it returns
to the event loop.

| action | code |
|---|---|
| `Draw`, `Scroll` | `VNCServerST::add_changed`, `add_copied`: comparer, `startDefer`, `tryUpdate` |
| `BlockUpdates`, `UnblockUpdates` | the same, with `blockCounter` |
| `SetPixelBuffer`, `SetScreenLayout`, `SetCursorOrName` | the same, with `pixelBufferChange`, `screenLayoutChange`, `setCursor` of each client and their `writeFramebufferUpdate` |
| `Tick`, `DeferTimeout` | time passes; the defer timer's `handleTimeout` |
| `UpdateTimeout`, `Drain` | a client's update timer; its socket is writable and the window open again |
| `UpdateRequest`, `EnableContinuousUpdates`, `SetEncodings`, `SetDesktopSize` | a message handler, within `processMessages` |
| `EndOfMessages` | the tail of `processMessages` |

`Writes(st, S)` is `writeFramebufferUpdate` for each client of `S`: the result of a
loop over clients is computed for all of them at once, which is possible since
they only share the server, and since only the first to reach `checkUpdate`
(`first`) makes a difference: its CopyRect is switched before the changes are
handed out, that of the others after.  `Checked` is `checkUpdate` when nothing is
in its way: compare, and hand the changes to all trackers.

The pieces of `server` and `conn` are named after the members; `deferOver` stands
for the clock having reached `deferStart` plus the defer time.  `congested` stands
for `isCongested()`, which may become true whenever something is written.
`requested` is a region, and a request asks for the whole framebuffer; with
`OldSizeRequests` also for an earlier, smaller size, as a viewer does that has not
read the size rectangle yet.  `mirror` is the viewer's picture after it has read
what is in transit, so the stream needs no queue.

### Session

`session[c].state` is the state of `SConnection` (without UNINITIALISED and INVALID,
in which no connection stays) plus two states of a socket: `none`, and `refused`
(in `closingSockets`, without a connection).  `Accept` and `Reject` are the two halves
of `approveConnection`, `AskUser` is `XserverDesktop::queryConnection`, and
`SecurityDone` the chain from the end of the security type through
`VNCSConnectionST::queryConnection` to one of them.  `close()` only shuts the
socket down; `RemoveSocket` is what the block handler does in the next round.
`dialog` is the dialog of vncconfig, which knows the connection by the address of
its `Socket` object; vncconfig may start and exit at any time.  Sockets are named
by this address, and so a name is used again after `RemoveSocket`.

### ViewerSync

The viewer's members and the server's are records of their names; the streams are
sequences of messages, of which an update is an `UpdateStart` and one rectangle
(several would only repeat the middle).  An operator such as `RequestNewUpdate`
takes and returns the viewer with what it has said, so that an action can be a
chain of the calls the handler makes: `CheckEncodings` after `NewFormat`, and so on.

| action | code |
|---|---|
| `ReadServerInit` | `CConn::serverInit` and its first `requestNewUpdate` |
| `ReadUpdateStart`, `ReadRect`, `ReadSizeRect` | `framebufferUpdateStart`, `dataRect` or `setExtendedDesktopSize`, then `framebufferUpdateEnd` with `autoSelectFormatAndEncoding` |
| `ReadFence`, `ReadEndOfCU` | `CConn::fence`, `endOfContinuousUpdates` |
| `HandleOptions`, `RefreshFramebuffer` | the user, between any two reads |
| `ServerReads` | one message of `processMessages`, with the fence that waits for the next one |
| `EndOfMessages`, `UpdateTimeout`, `Draw`, `Resize` | the calls of `writeFramebufferUpdate` |

The server reads everything that has arrived before it writes (`inProcess`), and
while a fence is pending it writes nothing.  A write may find the link congested and do
nothing.  A fence's data is the pixel format, or `NoData` for the viewer's probe.

`MoreOnSocket` is the condition of `CConn::socketEvent`'s loop: with TLS the rest of an update has
been decrypted when its head is read, and the loop, which asks the socket, ends.

### Handshake and Connection

`cc` and `sc` are the state of `CConnection` and `SConnection` together with that of
their security objects: `waits` is what the present layer waits for, `type` the type,
`tls` whether the streams have been replaced.  A message has the kind that the sender
means, the value that decides something, and the stream it was written to; the
receiver sees none of the first and last, which is what `Understood` is about.  An operator that
goes through several handlers returns the side with what it has written, or a set of
them where the user or a file decides.

| action | code |
|---|---|
| `ViewerReadsVersion`, `ViewerReadsTypes`, `ViewerReadsSecurity`, `ViewerReadsResult` | `CConnection::processMsg` in its states, with `CSecurityVeNCrypt`, `CSecurityTLS`, `CSecurityVncAuth`, `CSecurityPlain` in a `CSecurityStack` |
| `ServerReadsVersion`, `ServerReadsType`, `ServerReadsSecurity`, `ServerReadsClientInit` | `SConnection::processMsg`, with the `SSecurity` objects, `queryConnection` and `approveConnection` |
| `AnswerQuery`, `BogusData` | the local user's answer or the query's time-out; data from a viewer that is being queried |
| `ViewerMisreadsResult` | a result where the viewer waits for ServerInit |
| `ViewerSeesEnd`, `ServerSeesEnd`, `Reconnect` | the end of a stream; the user tries again |
| `EnterSession` (in `Connection!Enter`) | `CConn::serverInit` |

`setting` has what both programs were started with, what the user knows and what the query
comes to; it is chosen once, so that one run has all of them.  `Connection` forgets how
a session was reached but for the streams, since nothing of it is used any more.

### Encodings and UpdateWriter

An image is its width, height and the colour of each pixel; an encoder is an
operator from an image (and palette) to data, a decoder one from the viewer's
picture, the rectangle and the data to the picture with the rectangle in it.
Data keep what the decoder can see: runs, palette indices packed into as many bits as
the code gives them, subrectangles, the flags that say which background is carried on.
Colours are numbers that are only compared, which is all that the encoders do with
them; pictures have their colours in order of appearance so that there are fewer.

`UpdateWriter` starts from a scene (picture, region, cursor, pixel format, client)
and lets the connection write the update, change what the client supports and
announce things, while the viewer reads.  `computeNumRects` and `Rects` are
separate, as in the code, so that they may differ.  `SolidAreas` is the
search for an area of one colour in each rectangle, with its growing by blocks and by pixels, and
`SubRect` the choice of an encoder and palette for each rectangle.

The sizes are constants, scaled down so that pictures of a dozen pixels have several
tiles, several subrectangles and palettes that are too large:

| constant | code | in the run |
|---|---|---|
| `HextileSide` | 16 | 4 |
| `ZrleSide` | 64 | 6 |
| `HextileColors`, `PackedColors` | 48 and twice the bits per pixel; 16 | 3, 3 |
| `RunByte` | 255 | 2 |
| `MinToCompress` | 12 bytes | 3 |
| `SubRectMaxArea`, `SubRectMaxWidth` | 65536, 2048 | 12, 12 |
| `SolidSearchBlock`, `SolidBlockMinArea` | 16, 2048 | 2, 6 |
| `Divisor`, `ZrleColors` | 4 or eight times the compression level; 127 | 3, 4 |

### RenderedCursor

`conn` has the tracker, the three members about the rendered cursor
(`renderedCursorRect`, `removeRenderedCursor`, `drawRenderedCursor`), where the viewer pointed
last, and whether that is at most a second ago (`recent`: `time(0)` counts seconds, so no more than
this can be told from it); `server` has the comparer's tracker and the rendered cursor with the
background it was made with.  `NeedRenderedCursor` is as in the code: the viewer cannot draw the cursor,
or it is not where this viewer pointed last and that is more than a second ago, so that somebody else
seems to have moved it.  It is asked in
`renderedCursorChange`, in `checkUpdate` and again in `writeFramebufferUpdate`, and may change
between any two of them: by `PointerEvent`, `MoveCursor` and `SecondPasses` before the update, and by `Later`
in the middle of it.  The desktop moves the cursor when it likes, to where
a viewer pointed or anywhere else.
`Uncursored` and `Placed` are the two halves of `writeFramebufferUpdate` about the cursor,
`Drawn` is what the viewer then sees: a cursor's pixel is a `Mark`.  `astray` is an auxiliary variable: `Placed` sets
it when the client no longer needs a cursor but `drawRenderedCursor` is still set, or needs one
that nobody has rendered since it last changed.

### Keyboard and Input

A keyboard map gives each keycode a keysym for each state of Shift and level 3;
`Choice` is how `vncKeyboardEvent` finds the keycode (with another level, after adding
the keysym to a free key, around the numeric pad), `Fakes` the modifiers it presses and
releases for the moment, and `PressKey` and `ReleaseKeys` the whole of it.  Not all that
holds on a reasonable map holds on every one: `Regular` and `Complete` say what the theorems need of it.
`MayUse` are the keys a keysym may be pressed with, and a key `TakesTurns` if it is not the only one of some keysym.  `Input`
has the connections in front: `keyEvent` with Shift+Tab, `pointerEvent`, the rights
which the local user changes, closing and removing.

### Congestion

Offsets count from the last acknowledged byte, in steps of 4096 bytes; pings are the
queue of fences that are not answered.  `Pong` is `handleRTTPong` with a measured time
of `RoundTrips`, `UpdateCongestion` the timer's adjustment, `Rested` the case of
`isCongested` in which an idle link starts again.  The times have the code's unsigned
arithmetic modulo `Word`.

## Runs

| run | module | instance | distinct states | checks |
|---|---|---|---|---|
| `tracker` | `MCHookedScreen` | 2x2 pixels and one off the screen, 2 colours, 3 distances; X operations with 0 to 3 pixels of line width | 20,424 | `Sound` `NoCopyWhenDisabled` `MirrorSpec` |
| `encode_manager` | `MCEncodeManager` | all regions of 5x3 pixels, all distances; and six families of pictures and clients | 592,735 | `AllMoved` `RegionsExact` `SafeSpec` `InStep` `ClosedForAReason` `DecodedIsEncoded` `SizeIsLast` `EachPixelOnce` |
| `pipeline` | `MCUpdatePipeline` | 1 client, framebuffers of 1 and 2 pixels, drawing, scrolling, congestion, comparing on and off, fair | 299,056 | `Coherent` `NoTornUpdate` `UpToDate` `SizeAnnounced` `Answered` |
| `pipeline_control` | `MCUpdatePipeline` | 2 clients that know ExtendedDesktopSize, 1 pixel, blocking, congestion, continuous updates, cursor changes, refresh | 989,494 | `NoLostWakeup` |
| `pipeline_grow` | `MCUpdatePipeline` | 1 client, requests for the old size too | violated | `UpToDate` |
| `viewer_sync` | `MCViewerSync` (`Connection`) | 4 by 3 lists of security types, 2 versions; then 2 formats, 2 sizes, TLS or not, servers with and without fences, up to 2 messages before something new begins, fair | 251,332 | `DecodedAsEncoded` `NothingRefused` `AskedFor` `AreaFollowsSize` `Understood` `LetIn` `Shown` `ProbeAnswered` `Displayed` |
| `cursor` | `MCRenderedCursor` | 2 pixels, 2 colours, cursors of one pixel and of two, one of them transparent | 296,304 | `NoResidue` `CursorIntact` |
| `cursor_pointer` | `MCRenderedCursor` | the same | violated | `OldCursorsRemoved` |
| `input` | `MCInput` | 2 viewers, 9 keycodes, one free, 2 buttons, fair | 67,530 | `NothingStuck` `TypedAsSent` `DragIsOwn` `PointerFreed` |
| `input_numpad` | `MCInput` | the same, without buttons | violated | `ReleasesMatch` |
| `congestion` | `Congestion` | windows of 1 to 3 steps, updates of 1 or 2, three round trip times, fair | 140,335 | `Measured` `InFlightBounded` `Flows` |
| `session` | `MCSession` | 2 sockets of 1 host, four settings of the parameters, fair | 38,622 | `OneViewer` `QueriedHasSlot` `DesktopFollowsClients` `UserDecides` `DesktopStops` |

The operators with a `Mutant` comment are variants of the one they stand before, each
with a plausible mistake in it; each property has one that violates it in its run, so
that no property holds for nothing.

**Why the instances are large enough.**

- *tracker*: two colours tell equal from different; four pixels have regions with
  gaps (the diagonals), whose bounding box is larger than they are, which is what
  add_copied compares; chains of two copies need two pixels.  The properties are
  also proved for all screens and operations.  The X operations lie on the four
  pixels, across their edges and beside them, one, two or six at once (`MaxRectsPerOp` is
  5), in windows that begin in the corner or one pixel off, clipped or not, with line widths
  of 0 to 3, so that there are odd and even ones.  What they paint and report on the square is worked
  out once (`MCDrawings`): thousands of operations come to 52 different pairs.
- *encode_manager*: its two halves, moving a region (`MCCopyRects`) and writing an update
  (`MCUpdateWriter`), have no variable in common, and each comes to an end.  So one is looked at while
  the other has nothing to do, instead of every pair of their states.  As for the first, two rectangles of a band leave a gap of one column at least, so
  they get in each other's way only when they move by two or more: four columns
  and one to move to.  Three rows are two bands with a row between them, or a
  rectangle of several rows.  Also proved in general.  The operands of `RegionsExact` are
  each region and the same region moved by each distance: side by side, crossing,
  apart, with bands that begin together, end together, merge or are split.
  The families of the second are, in order: three tiles in a row with every order
  of the eight kinds of tile Hextile treats in different ways; every picture of 4x3
  pixels of two colours; rectangles in a picture that is split into two rows and
  columns; an L-shaped region in a format of fewer colours; scrolling in three directions with
  a cursor on top; and announcements and SetEncodings around one picture or none,
  for six kinds of client.  All encoders are tried on all pictures.
- *pipeline*: what the comparer may confuse are a pixel that is copied and
  one that is drawn, and two pixels are enough for either; one client, since
  the clients' trackers do not depend on each other.  Two sizes are enough to grow and to
  shrink.  Blocks are the whole region, as it is for everything below 64x64 pixels.  The
  desktop scrolls to the right only, the other way is the mirror image; and a client that has
  said that it knows CopyRect goes on knowing it (`WithCopyRect`): `tracker` has it switched on
  and off.
- *pipeline_control*: the reasons not to send do not depend on pixels, so one
  suffices; two clients are needed because one may hand out the changes
  for both and leave the other waiting.  `MaxBlock` is 1: nested calls only count.
  Both clients are alike, so that the symmetry is sound.
- *viewer_sync*: the lists have every kind of layer (none, password, login; without TLS, with
  anonymous TLS, with a certificate), in lists with one common type, several in either order, and none; 3.3 and
  3.8 are the versions this server offers.  The user knows the password, the view-only
  one, or none.  After the handshake: two formats are old and new; a third could be chosen while the second is
  on its way, and so can the first.  `MaxQueue` bounds what is under way when the
  user, the desktop or the bandwidth starts something; what follows from it is not
  bounded, so that more than two updates and fences can be under way.
- *cursor*: a cursor of two pixels, one transparent, on two pixels hides, shows, overlaps
  itself when it moves and is cut off at the edge.  The desktop scrolls to the right only, the other
  way is the mirror image.  Viewers with and without a cursor of their own are there from the
  start, pointers are everywhere on the screen, and a second may go by at any time.  States in which the
  cursor is `astray` are checked but not gone on from (`NotAstray`): neither property says anything of
  them.  `SwitchesBack` is off (see below).  `cursor_pointer` has no such constraint.
- *input*: one viewer holds the modifiers that the other's keys do not want; the keymap has
  a key for each branch of `vncKeyboardEvent`: level 3, Shift, Shift+Tab, numeric
  pad, lock, a keysym on no key and a free keycode for it.  `AvoidShiftNumLock` is on, as it is by
  default (`vncExtInit.cc:69`): `KP_7` needs Shift on the key of the numeric pad and is taken
  from the digit's key instead, `KP_Home` needs Shift released and there is nothing to take it from.
  Buttons are pressed one after the other and released in any order.  Nobody goes on while keys and
  buttons are both held (`KeysOrButtons`): what the buttons do does not depend on the keyboard, nor the
  other way round.  (A step that removes a connection never leads there, so that the constraint takes
  nothing away from `PointerFreed`.)  `input_numpad` has no such constraint.
- *congestion*: three steps make the window grow, shrink and reach both ends; a long round
  trip makes the differences large and `Word` wraps at a few of them.  `EarlyOther`
  bounds what is written before the first update (see below), `MaxTalk` how often
  other data is written.
- *session*: two connections of one host meet each other in each state of their
  handshakes, and the settings are a constant of the behaviour, so that one run has
  all of them.  `Threshold` is 2 so that marks are counted and the threshold is reached.
  The theorems are for any number of connections and hosts.

All runs have deadlock checking on but `encode_manager`, which ends when everything is
moved, or everything is read or the connection closed.

## Fairness

The X server's main loop calls `blockHandler` and `wakeupHandler` in every round
(`vncBlockHandler.c`), which check the timers, serve readable and writable sockets
and remove closed ones.  So:

- `UpdatePipeline!Fairness`: a timer that is due again and again is served
  (strong fairness, since another event may get in between and change whether it
  is due), the messages of a client that is being read come to an end, time
  passes (`Tick`), and a viewer reads what it is sent (`Drain`).  The enabling
  conditions are written out (`DeferDue`, `UpdateDue`, `busy = c`, ...), as it would be
  too slow to have TLC find them by itself; each of the last three actions ends its own, so that weak
  fairness of it is that the condition ends again and again.  There is no fairness on what the
  desktop or the viewer does: no drawing, requesting or unblocking is assumed.
  Blocking is therefore not part of the liveness run.
- `Connection!ConnectionFairness`: the server and the viewer read what has arrived, the messages of a
  round end, and the update timer is served; a link that is congested now and then is not
  so for ever (strong fairness of a write that gets through).  Nothing is assumed of the
  user, who need not try again, the desktop or the bandwidth.  That a query is answered is
  the query's timer, which `AnswerQuery` includes.
- `Congestion!Fairness`: the client reads and answers, time passes, and the timer for the
  next attempt runs out.
- `Input!InputFairness`: closed connections are removed.
- `Session!Fairness`: the query timer fires and closed sockets are removed.
  Nothing is assumed of the local user, of vncconfig, or of what connects.

`Answered` is checked for a single client.  With two the fairness above is not
enough: the client served first hands out all changes and ends the deferring, and
when the desktop's next drawing starts it again each time before the other
client's turn, that one waits on.  The real program gets out of it as soon as the
desktop pauses.

## Proofs

TLAPS checks all proofs with its SMT, Zenon and PTL backends.  The constants are
arbitrary but for the named assumptions in each module (a screen is a set of
points, `NoSocket` is not a socket, and so on); none is about size.

| theorem | statement | module |
|---|---|---|
| `TypeCorrect` | `Spec => []TypeOK` | `TrackedScreenProofs` |
| `TrackerSound` | `Spec => []Sound` | `TrackedScreenProofs` |
| `CopyRectRespected` | `Spec => []NoCopyWhenDisabled` | `TrackedScreenProofs` |
| `ImplementsMirror` | `Spec => MirrorSpec` | `TrackedScreenProofs` |
| `HookedSound` | `ReportsAll`: `HookedSpec => []Sound` | `TrackedScreenProofs` |
| `HookedCopyRectRespected` | `ReportsAll`: `HookedSpec => []NoCopyWhenDisabled` | `TrackedScreenProofs` |
| `HookedImplementsMirror` | `ReportsAll`: `HookedSpec => MirrorSpec` | `TrackedScreenProofs` |
| `RegionMoved` | `Spec => []AllMoved` | `EncodeManagerProofs` |
| `ImplementsSafeCopy` | `Spec => SafeSpec` | `EncodeManagerProofs` |
| `RectanglesAreExact` | `RectanglesOf(R)` is in bands, and its rectangles have the pixels of `R`, each once | `EncodeManagerProofs` |
| `RegionsAreJobs` | `RectanglesOf(R)` is what `JobAssumption` asks for | `EncodeManagerProofs` |
| `CountsWhatItWrites` | `WriterSpec => []ClosedForAReason` | `EncodeManagerProofs` |
| `UpdatesAreExact` | `WriterSpec => EachPixelOnce` | `EncodeManagerProofs` |
| `ViewerStaysInStep` | `[]FewRects`: `WriterSpec => []InStep` | `EncodeManagerProofs` |
| `SizeComesLast` | `[]FewRects`: `WriterSpec => []SizeIsLast` | `EncodeManagerProofs` |
| `ViewerShowsTheScreen` | `[]FewRects`, each encoding but Raw `Faithful`: `WriterSpec => []DecodedIsEncoded` | `EncodeManagerProofs` |
| `TypeCorrect` | `WholeRequests`: `Spec => []TypeOK` | `UpdatePipelineProofs` |
| `AlwaysCoherent` | `WholeRequests`: `Spec => []Coherent` | `UpdatePipelineProofs` |
| `AlwaysUpToDate` | `WholeRequests`: `Spec => []UpToDate` | `UpdatePipelineProofs` |
| `AlwaysSizeAnnounced` | `WholeRequests`: `Spec => []SizeAnnounced` | `UpdatePipelineProofs` |
| `NoWakeupIsLost` | `WholeRequests`: `Spec => []NoLostWakeup` | `UpdatePipelineProofs` |
| `UpdatesAreWhole` | `WholeRequests`: `Spec => NoTornUpdate` | `UpdatePipelineProofs` |
| `SessionTypeCorrect` | `Spec => []TypeOK` | `SessionProofs` |
| `AtMostOneViewer` | `Spec => []OneViewer` | `SessionProofs` |
| `DesktopRuns` | `Spec => []DesktopFollowsClients` | `SessionProofs` |
| `QueriedOwnsSlot` | `Spec => []QueriedHasSlot` | `SessionProofs` |
| `LocalUserDecides` | `Spec => UserDecides` | `SessionProofs` |
| `InputTypeCorrect` | `InputSpec => []InputTypeOK` | `SessionProofs` |
| `DragStaysOwn` | `InputSpec => DragIsOwn` | `SessionProofs` |
| `OnlyHeldKeysNoted` | `InputSpec => []NotedAmong(keyboard, Holding)` | `SessionProofs` |
| `NothingIsStuck` | `RegularKeyboard`: `InputSpec => []NothingStuck` | `SessionProofs` |
| `ReleasesMatchPresses` | `RegularKeyboard`, `OneKeyEach(FirstMap, Pressable)`, `~AvoidShiftNumLock`: `InputSpec => []ReleasesMatch` | `SessionProofs` |
| `TypesWhatIsSent` | `RegularKeyboard`, `CompleteKeyboard`: `InputSpec => []TypedAsSent` | `SessionProofs` |
| `TypeCorrect` | `Spec => []TypeOK` | `CongestionProofs` |
| `AlwaysMeasured` | `Spec => []Measured` | `CongestionProofs` |
| `AlwaysBounded` | `Spec => []InFlightBounded` | `CongestionProofs` |
| `TypeCorrect` | `Spec => []TypeOK` | `ConnectionProofs` |
| `DecodesAsEncoded` | `Spec => []DecodedAsEncoded` | `ConnectionProofs` |
| `RefusesNothing` | `Spec => []NothingRefused` | `ConnectionProofs` |
| `KeepsAsking` | `Spec => []AskedFor` | `ConnectionProofs` |
| `CoversTheScreen` | `Spec => []AreaFollowsSize` | `ConnectionProofs` |
| `ShakeTypeCorrect` | `HandshakeSpec => []HandshakeTypeOK` | `ConnectionProofs` |
| `ShakeUnderstood` | `HandshakeSpec => []Understood` | `ConnectionProofs` |
| `ShakeLetIn` | `HandshakeSpec => []LetIn` | `ConnectionProofs` |
| `ConnectionIsShake` | `ConnectionSpec => HandshakeSpec` | `ConnectionProofs` |
| `ConnectionIsSync` | `ConnectionSpec => Spec` | `ConnectionProofs` |
| `ConnectionCorrect` | `ConnectionSpec =>` all that is proved of either | `ConnectionProofs` |
| `TypeCorrect` | `WholeRequests`: `Spec => []TypeOK` | `RenderedCursorProofs` |
| `NoCursorRemains` | `WholeRequests`: `Spec => []NoResidue` | `RenderedCursorProofs` |
| `NeedyNeverAstray` | `WholeRequests`, `~SwitchesBack`: `Spec => [](~conn.supportsLocalCursor => OldCursorsRemoved)` | `RenderedCursorProofs` |
| `CursorStaysIntact` | `WholeRequests`, `~SwitchesBack`: `Spec => []CursorIntact` | `RenderedCursorProofs` |

**Trackers.** `UpdateTrackerProofs` has the lemmas about the operators: that
`AddChanged`, `AddCopied` and `Replay` keep a tracker a true account when the
picture changes in the way they are told (`AddChangedAccounts`,
`AddFreshCopyAccounts`, `AddContinuedCopyAccounts`, `ReplayAccounts`), and that
applying a true account catches up with the picture (`ApplyUpdateCatchesUp`).
The inductive invariant of `TrackedScreen` is `TypeOK`, `Sound` and
`NoCopyWhenDisabled` together: the type says that the tracker stays within
the screen, without which a copy's source could be outside of it; and
`NoCopyWhenDisabled` is needed for the clients without CopyRect.
`ImplementsMirror` needs that a step of drawing is a `Change` and
an update a `Sync`, which is `ApplyUpdateCatchesUp` with `Sound`.
Nothing in the proofs depends on which of two copies is kept: the bounding boxes
are a choice that affects only efficiency.

**Below an X server.** `TrackedScreenProofs` has the same for `HookedScreen`, with the same
invariant.  Its hypothesis `ReportsAll` says that every drawing is reported at least where it
paints on the screen; TLC checks that of the operators of `Hooks`, which the theorem
knows nothing of.  `CopyArea` and `CopyWindow` need no hypothesis: `CopyAndDrawInv` is one lemma
for both, and `UnclippedCopy` says that the tracker's clipping finds nothing left to clip
in what they report as copied.

**Moving a region.** The inductive invariant of `CopyRects` has three parts.
`JobInv`: the rectangles are in order and within the screen.  `LoopInv`: where the
loop of get_rects stands, namely that the rectangles ahead (`Ahead`) and those of
this band (`Band`) are the ones still to be moved, that the band is one, and that
`next` is the first beyond it.  `PictureInv`: pixels to be moved (`todo`), and
those they will be read from, have their first content, and the others of the
region have been moved.  The heart is `CopyRowMoves`: no pixel that is still to be
moved will be read from the row that is overwritten now.  It follows from
`LaterIsApart` (of two rectangles the one moved later is not read where
the earlier one is written, by cases on the two signs of the direction) and
`LaterRowsAreApart` (the same of two rows of a rectangle).

**The rectangles of a region.** `RectanglesAreExact` is about `RectanglesOf`, with which every
module sends or moves a region.  Nothing is computed in its proof: a band begins where a row
differs from the one above it (`BandStarts`) and a rectangle where a run of columns does (`RunStarts`), each
ends at the least place where the next one could begin (`BandEnds`, `RunEnds`), and so every pixel is in one
(`BandsCover`) and none in two (`BandsOrdered`, `BandsInside`).  `RectanglesOfOrdered` has the order of
the list, by counting what lies before a rectangle (`MoreEarlier`, `PlacesFilled`).  `RegionsAreJobs` adds
that a region that is, like its source, on the screen has its rectangles there.

**Writing an update.** `ReadyToSend` is an invariant of `UpdateWriter` by itself: what is to be sent are finite
regions and at most one cursor, and what is to be announced is of the types of the code's members.
Everything else is about one update, which is a function of it.

- `CountsWhatItWrites`: the number that `writeFramebufferUpdateStart` is given, worked out by `computeNumRects` and
  `PseudoCount` before anything is written, is the number of what is then written.  The two do not
  share code: the first adds up quotients, the second are two loops in a loop over rectangles
  (`PiecesCounted`, with `StepsCounted` for one loop), joined by folds (`SumsExist`,
  `ConcatsExist`).  `RectsCounted`, `CopiedRectsCounted`, `UpdateRectsCounted`, `PseudoCounted` and `NoDataRectsAre`
  have the count of each part and the kinds of rectangles in it, and the only exceptions left are those
  that `ClosedForAReason` names.
- `ViewerStaysInStep` and `SizeComesLast` need to know that all of the stream is as the viewer will take it:
  `Framed(n, s)` says that to a viewer that has `n` rectangles left `s` can be read to its end, because there is a count
  for each place that every item agrees with.  It is kept when a whole message is added
  (`FramedConcat`, `FramedMessage`) and when the head is read (`FramedTail`).  `InSync` is the invariant: this of
  the stream and the viewer's `nUpdateRectsLeft`, and both properties.  `FewRects` is a hypothesis since the header's number has 16 bits and 65535 stands for "until
  LastRect": an update of so many rectangles would really bring the viewer out of step.  It has
  to be for the code to work, and updates of the run are nowhere near it.
- `UpdatesAreExact`: `SplitTiles` says that the two loops of `writeRects` tile a rectangle
  (`DividedOnce`: every column belongs to one step of a loop), and `RectanglesAreExact` and
  `FlattenTiles` that the pieces of all rectangles tile the region.  A rectangle has at most
  one solid area; that it stays inside the rectangle is
  `SolidRectInside`: by blocks (`ByBlockInside`, with `Extended` for the loop over rows of blocks of which each may only
  be narrower than the last) and then by single rows and columns (`ByPixelInside`).  What the areas leave is a
  region again, which `RectsTile` tiles.  `MessageOnce` puts the parts together, and
  the rest is that a message is only added to the stream (`Streaming`).

- `ViewerShowsTheScreen` is that the parts of an update make up the picture if each encoding does its own.
  `Faithful(e)` says that of one rectangle: decoding what `e` has made of an image with a palette
  that is small enough for it pastes that image, and decoding a solid area fills it.
  It is proved for Raw (`RawIsFaithful`) and a hypothesis for the others.  Everything
  around it is proved: the encoder that is chosen has been given a palette it can take
  (`PaletteFits`: `maxPaletteSize` is asked of the encoders for `indexed`, and the types with two colours have
  the same ones); a solid area has one colour all over, although only its first pixel is sent (`SolidPuts`,
  `SolidAreasOneColor`); and the copied rectangles come in an order in which none
  is read after it has been painted over (`CopiesPut`, with `GetRectsOrdered` for
  get_rects' order and `SourceKept` for what it keeps).  `Reads(a, s, b)` says that reading the items of `s`
  turns the picture `a` into `b`; `UpdateReads` puts the parts of an update together.  The invariant
  `Shows` says what reading all of the stream would make of the viewer's picture: what it had
  before the update (`Pending`) or, once that is written, all of it (`Sent`).

The theorems do not depend on what a picture looks like, nor on the sizes of tiles and blocks but for what
`SplitAssumption` says of them: `SubRectMaxArea` is at least `SubRectMaxWidth`, or the height of a piece would be
zero and the loop would not end.

**Update pipeline.** A step of `UpdatePipeline` is a whole chain of calls on a record of the
variables, so the invariant speaks of such a record and holds between any two calls.
`Sound` has three parts.  `Between`: there is a picture to which every client's tracker
leads from what its viewer shows, and from which the comparer leads to the framebuffer;
it is `oldFb` while that is trusted.  `ClientSound`: a viewer of another size has a size
queued and, if anything has appeared, the whole screen in its tracker; who asks without a size
queued asks for everything.  `DeferSound`: a deferral that has not run out has its
timer.  The inductive invariant `Inv` is `TypeOK`, `Sound` and `NoLostWakeup`; TLC agrees
with it on small instances and on two clients with resizing.
Each operator has a lemma.  Those that only make trackers say more (turning CopyRect
off, normalizing, becoming congested) are `Retracked`, which keeps `Sound`.
`CompareResult` is where comparing must not lose anything: a block is
dropped only where the framebuffer equals `oldFb`, so the picture between is
replaced by the comparer's picture and every tracker gets what led there (`HandOutResult`,
by `ReplayAccounts`).  `SendResult`: with an empty comparer the picture between is
the framebuffer, so that an update covering all catches up (`ApplyUpdateCatchesUp`).
`WritesResult` follows writeFramebufferUpdate through its returns: a client in the set
is served, or congested and on its timer, or nothing asks any more, or the defer timer
or the end of blocking will come.  One lemma for each action then only has to show
that the record it starts from is `Sound`.

The hypothesis `WholeRequests` is that no viewer asks for an earlier, smaller size
(`OldSizeRequests` is off) and that resizing and continuous updates do not occur together.
All passing runs satisfy it, and it cannot be dropped: without its first part TLC
violates `UpToDate` (`pipeline_grow`), and with both kinds of events it does too, when continuous
updates are turned on for the area from before a resize that was not announced yet.
In either case the update forgets what the area leaves out.  That a viewer enlarges the
area afterwards is `AreaFollowsSize` in `ViewerSync`.

**Connections.** The inductive invariant is `TypeOK`, `OneViewer`,
`DesktopFollowsClients` and `QueriedHasSlot`.  They carry each other: an answer
lets in the dialog's connection only if it is queried, which by
`QueriedHasSlot` is only one.  `Accept`, `Reject` and changes of a single state
have lemmas of their own, since most handlers end in one of them.  `OnlyAccepts`
says which actions authenticate a connection at all, from which `LocalUserDecides`
follows.

**Keyboard and pointer.** `InputInv` holds on every keyboard map: a key is noted only for a keysym
that a viewer holds, no keysym for two keys, and who is not there holds none.  So whatever
is noted will be released at the latest when its viewer goes.  That the keys that are down are noted
needs more, since pressing a keysym again may find another key for it, and then the first is forgotten
while it is down.  `Kept` is the invariant for that: the keys noted are down, each is one that its keysym
`MayUse` (it has it, or what stands for it if no key has, or if `AvoidShiftNumLock` prefers that to the numeric pad), and a key
that is down without a note is one that `TakesTurns`.  `BestFits` says that what `AvoidShiftNumLock` takes
instead is such a key, and types what stands for the keysym.  With one key for each keysym (`OneKeyEach`)
and without `AvoidShiftNumLock` the second press finds the first one's key, in whatever state, no key takes turns, and `ReleasesMatch`
is left.  What is hard is that the map changes: `vncAddKeysym` puts a keysym, in both cases, on a free
key, and must not thereby take a keysym from the key it is down on (`AddedKeeps`, `AddedMayUse`, `AddedRegular`) nor give it a second one (`AddedOneKeyEach`).
The parts of `RegularKeyboard` are each for one way in which this could happen:
modifiers and locks have the same keysym at all levels (`ModifiersKeyed`); `ISO_Level3_Shift` is a key for level 3
(`LevelThreeKeyed`), otherwise some levels would never be looked at; of a keysym that is not on the map the other case
is not either (`CasesApart`), nor has what stands for it cases (`AlternativesCaseless`).
`AvoidShiftNumLock` may be on or off, and a keysym on several keys.
`CompleteKeyboard` is what it takes to type at all: a Shift key, a Tab outside the numeric pad that is Tab or `ISO_Left_Tab` with Shift (`TabKeyed`),
no lock key that stands for another (`LocksPlain`) and enough free keycodes (`RoomFor`).
`FakesIs` says that the faked modifiers reach the state that was chosen, `PressKept` that they are all taken back.
These hypotheses are not of every keyboard, which is why they are hypotheses of the theorems
and not assumptions of the module; `MCInput` assumes `RegularKeyboard` and `CompleteKeyboard` of its instance, so TLC
evaluates them.  Without `OneKeyEach`, and with `AvoidShiftNumLock`, `ReleasesMatch` is false (see "A key that stays down" below).

**Congestion control.** Neither property is inductive.  `Measured` needs `Trips`: no time
is zero, and none is the marker for "nothing measured", so that a measured one
cannot pass for it.  `InFlightBounded` needs to know why an update may be let
through while one ping is outstanding whatever the window: that ping ends the last
update, so what was written before it is one update, or other data, which stops
at `MaxOther`.  `Ordered` says that the pings are in the order of the stream, and
`BoundedBy(u)` bounds what is on its way, and the distance of the last two pings, for
some size `u` of an update; `Bounded` is that there is such a `u`, since the theorem is
not given the largest.  It assumes that updates have some size and that what is
written before the first one is other data (`EarlyOther <= MaxOther`).
`RelievedTime` is the arithmetic of `handleRTTPong`: a corrected time is between the
wire latency and what was measured, even where the product wraps modulo `Word`.

**Client and server.** What the viewer has at the head of its queue is right only if all
that is under way is, so the invariant of `ViewerSync` (`SyncInv` in `ConnectionProofs`) is about every place
of both queues.  `InFormat`: there is a sequence of formats, one for each message to the viewer,
that says what its format will be when it reads that one; a fence's answer changes it, and so does
the end of the update being read where a format is set aside; each rectangle is in
its element, and the last element is the format of the next update the server will
write.  The server may not know that format yet: it is in the last format
without a fence (`BareFirst`: there is one at most, ahead of the only request, and no
update is written before it is read), or in none.  `Pairs`: a fenced format is right behind its
fence, in the queue or in the server's slot; `Unsynced`, `ProbeOnce`: before the viewer has its
answer to the probe nothing is fenced, and the probe is in one place only.  `Turn` is `AskedFor` without
its cardinalities, and `Continuous` and `SizeKnown` are about the last area and
the last size under way.  `Fresh`, `Shape` and `Pending` say how a session begins, what an
update looks like, and when a format may be set aside.
None of these parts is inductive alone: `NothingRefused` needs `Turn` (a new format without fences is sent
while the viewer reads the only update there is), `InFormat` needs both and `Pairs`, and they need
`Unsynced` and `ProbeOnce`.  TLC agrees with the whole on the instance of `viewer_sync`, at each state.

The viewer's `requestNewUpdate` takes several steps between which the invariant does not hold as
it stands: an update has begun and the next one is not asked for.  `owed` stands for that request, and
`MayAsk` is what a call of it needs; `RequestKeeps` gives the invariant back.
`SynchronisedIs` says what a round of `processMessages` does with any message and any slot,
`ReadSwitch` and `ReadOther` what that does to the queues; `WrittenKeeps` is
`writeFramebufferUpdate`, with which the server's other actions end.
`ConnectionIsSync` shows that the handshake leaves the session alone, and that the viewer enters it with streams
that are TLS or plain, so that all of this holds of `ConnectionSpec` too.

**Handshake.** What a side reads is right only if both are in step, so the inductive invariant (`ShakeInv` in
`ConnectionProofs`) is a list of the situations a handshake goes through (`Situation`, 19 of them): each says what both
sides wait for and all that is under way, message by message.  Nowhere are more than three messages under way, since the sides
mostly take turns.  Where they do not, the situation is a pair of places: the server comes to the layer that identifies the user
and may judge at once (`Serving`), while the viewer has come to the same layer and may have said all of it (`Identifying`),
or has one message to read before it does (`Behind`); `Judged` is what a server has said that has decided, with
its refusal told twice.  `Passed` is the half of `LetIn` that is about the server; it is in `Serving` from the moment
that it lets the viewer pass, until the query is answered.  `Understood` is weaker than the situations: from
one of them alone nobody could tell what the next message is.
A handler's operators have a lemma each (`Identify`, `Challenge`, `Query`, `Approve`, `AuthFailed`, `StartSecurity`, ...);
then each situation has one for each step that leaves it (`OfferingTypesInv`, `ViewerEncryptedInv`, ...), which the
lemma for an action joins.  `FirstOfIs` needs the least of a set of places, and is why `WellFoundedInduction` is there.
TLC agrees with `ShakeInv` on the instance of `viewer_sync`, at each state.
`ConnectionCorrect` has the properties of both halves.

**Rendered cursor.** The viewer's picture has the cursor in it, so the trackers do not lead from it
to the framebuffer.  They lead from `base`, the picture without: the invariant says that there is one
(`Accounts`, by way of a picture between the comparer and the client), that the viewer's differs from it only in
`renderedCursorRect` or where pixels will be sent, and that a pending copy takes nothing else along (`Clean`).
`Placing` says that `renderedCursorRect` is nothing or where the cursor is now, unless the old one is to
be removed; so when a new one is placed no other is forgotten.  All this holds until the cursor is `astray`, and
for a viewer that cannot draw it that never happens (`NeedyNeverAstray`): it needs the cursor whenever it is asked, so
`checkUpdate` has rendered it when it is placed.  For a viewer that can, the answer may change in between, and `NoCursorRemains` says
that nothing else goes wrong.  `CursorIntact` is about the viewers that cannot; it needs besides
that the rendered cursor is on what is in the framebuffer, but for what is pending (`Rendered`),
and that who needs the cursor has it, will have it drawn, or is sent all pixels (`Drawing`).
`CheckUpdateKeeps`, `UncursoredKeeps`, `PlacedKeeps` and `SendKeeps` follow writeFramebufferUpdate;
that a copy from below a cursor is sent as pixels is in `UncursoredKeeps`, and that an update that paints over
the cursor draws it again is in `PlacedKeeps`.  `WholeRequests` is needed as a request
of less cuts `renderedCursorRect` off (`VNCSConnectionST.cxx:1013`), and `SwitchesBack` is the disagreement below.

`TypeCorrect`, `SessionTypeCorrect` and `InputTypeCorrect` are the type invariants, which the runs do not
check again.

**Only model-checked**: `RegionsExact`, which is about algorithms on lists of
rectangles that recurse over data; that RRE, Hextile, ZRLE and Tight are `Faithful`, since
what these encoders make of an image and their decoders of that are folds over pixels, palettes and bytes,
about which one would need induction over data (`encode_manager` has each of them encode and decode
the pictures of its families, in which `DecodedIsEncoded` is checked without the hypothesis); and the
liveness properties, as fairness and ENABLED are beyond the prover.

## Disagreements found

Three runs expect a violation, each of what the code says of itself.

- `pipeline_grow`: after an update, `requested` and
  `updates` are both cleared (`VNCSConnectionST.cxx:1049`), also what the request did not
  cover.  A request for the size before a resize makes the server send the old area of the
  new framebuffer and forget the rest, though `pixelBufferChange` marks all of it.  In
  practice the viewer's next full refresh or the next drawing there repairs it.
- `cursor_pointer`: `renderedCursorChange` "ensures that the next update will clean up
  the old rendered cursor and if necessary draw the new rendered cursor" (`VNCSConnectionST.cxx:336`).  A viewer
  that draws the cursor itself is shown one that somebody else moves.  The cursor changes, so that
  the old one is to be removed and the new one to be drawn; before the next update it moves to where this
  viewer pointed last, and so is no longer needed.  `checkUpdate` renders it for nobody, the update removes the
  old one, does not set `renderedCursorRect` as the cursor is not needed (`VNCSConnectionST.cxx:1012`), but finds
  `drawRenderedCursor` still set and draws the cursor that was rendered before at its old place.
  Nothing knows of it any more: it stays until something is drawn there.  The same comes of a
  pointer event, or of a second going by, at the wrong time.  `NoResidue` excepts these updates and no others.
- `input_numpad`: "Release events must match the press event, so look up what keycode we sent for the press"
  (`Input.c:456`).  With `AvoidShiftNumLock`, `KP_7` without Shift presses the key of the digit; when Shift has gone down
  and `KP_7` comes again, because it repeats or from another viewer, it presses the key of the numeric pad,
  and the loop that notes it (`Input.c:657`) drops the note of the first without a release.  The digit's key
  stays down after all viewers have released everything.  `NothingStuck` excepts keys that a keysym takes by
  turns and no others.

The following were met while modelling.  Where a constant of a module can be set so that
TLC shows them, it is named; the runs have it set otherwise, and their properties hold
only without it.

- **A cursor on an old background.** With `SwitchesBack`, `CursorIntact` is violated: while no client needs the
  cursor `checkUpdate` does not render it, nor does it mark it invalid when the framebuffer
  changes below it, so a client that gives its own cursor up gets it on an old
  background, and only where something else is drawn or the cursor changes.  The same happens to a viewer with its own cursor
  that begins to need a rendered one as the time passes, which is why `CursorIntact` does not speak of those.
- **A lost change of format.** `CConn::handleOptions` compares the new choice with the
  format in use (`CConn.cxx:686`), not with one that is on its way: choosing back the old
  format while a change is under way is ignored, and the other comes through.
- **Stalling with TLS.** "processMsg() only processes one message, so we need to loop until the buffers
  are empty or things will stall" (`CConn.cxx:259`), but the loop asks the socket's stream
  (`CConn.cxx:263`), not the TLS stream that the messages are read from.  With TLS and a server
  without fences an update can stay unread until more data arrive; without its
  second hypothesis `Displayed` is violated.  This server's ping after each update keeps it from happening.
- **A 3.3 viewer without security.** It waits for no result (`CConnection.cxx:212`) and sends ClientInit at once.
  If the server asks its local user, this is "bogus data from client while
  querying" (`SConnection.cxx:103`) and ends the connection: with QueryConnect such a viewer
  gets in only if the user answers before its ClientInit is read.
- **A refusal told twice.** `approveConnection(false)` writes the result and throws an
  `AuthFailureException`, which passes through `processSecurityMsg`'s handler, which writes it again
  (`SConnection.cxx:233`).  A 3.3 viewer without security is sent one result instead of none,
  which it reads as ServerInit's size (`ViewerMisreadsResult`); the others close before they
  come to the second.
- **The reason of a failed TLS set-up.** Where `setParams` fails for a viewer before 3.8 the server
  writes no reason, but `CSecurityTLS` reads one (`CSecurityTLS.cxx:164`).  (Not reached by
  these two programs: 3.3 has no TLS.)
- **A login that comes in pieces.** `SSecurityPlain` tests `if (is->checkNoWait(ulen + plen + 2))` to return
  for lack of data (`SSecurityPlain.cxx:95`): the test is the wrong way round.  It goes on when data
  are missing, and waits in the read.
- **A congested link that stays so.** With `EarlyOther = 3` in `Congestion`, `Flows` is violated:
  16 KiB of other data (a clipboard) before the first update fill the window, no ping has been
  sent that could be answered, and the case of an idle link asks for an answered ping.
- **Buttons.** When a connection ends with a pointer button down, `pointerClient` is
  freed (`VNCSConnectionST.cxx:104`) but the X server is not told of a release, as it is for keys.
- **A key that stays down.** A keysym may be on two keys: on a US map with a key right of the left Shift, `less`
  is on the comma's key with Shift, and on that one without.  A keysym is looked for with the present state
  first (`InputXKB.c:460`), so one that repeats after Shift has changed is pressed on the other keycode.
  "And store the mapping so that we can do a proper release later" (`Input.c:656`) then forgets the
  first keycode without a release, and it stays down.  With a `FirstMap` that has such a keysym
  TLC finds `ReleasesMatch` violated after four steps also without `AvoidShiftNumLock`: a viewer presses `less`,
  then Shift, and `less` repeats.  It is the disagreement of `input_numpad` by another way.
- **RLE.** `useRLE` (`EncodeManager.cxx:488`) compares the runs with twice the number of pixels,
  which they never exceed, although its comment wants "reduces the pixel count by
  50%": RLE is always used.  `useRLE` is modelled as it is.
- **Announcements.** A client that takes the Cursor, XCursor or DesktopSize encoding back while
  one is announced, or supports only XCursor when the cursor has many colours, is
  disconnected by an exception of the writer (`SMsgWriter.cxx:326`); `ClosedForAReason` says that
  nothing else does.  `ConnParams::setEncodings` never resets that a client supports renaming,
  fences or continuous updates.
- **Number of rectangles.** An update of more than 65535 rectangles for a client without
  LastRect has a header with the lower 16 bits only (`SMsgWriter.cxx:239`).
- **Updates while blocked.** `VNCServer.h:33` says that the pixel buffer is not accessed while
  updates are blocked, but `checkUpdate` lets a client pass that asks when the
  comparer is empty (`VNCServerST.cxx:583`), and its own tracker may hold changes.
- **The query slot.** "Another connection is currently being queried." is also the answer
  when none is: `queryConnectId` is only reset by an answer (`XserverDesktop.cc:623`),
  not when nobody could be asked, the server's own timer was faster, or the
  connection went away.  Where vncconfig runs, its dialog's own countdown ends in
  an answer and frees the slot; where it was started after a first connection had
  found nobody to ask, the slot stays taken.
- **A stray answer.** An answer is for the socket at an address (`XserverDesktop.cc:621`),
  which may by then be another connection's; it is closed with "invalid state".
- **DisconnectClients.** Its description (`ServerCore.cxx:73`) says that combined with
  NeverShared it refuses new connections while a client is active, and `clientInit`
  (`VNCSConnectionST.cxx:454`) does so when DisconnectClients is *off*; with both on, the
  new connection replaces the old.
- **Painted but not reported.** A few operations paint outside what their hooks report; `Hooks`
  leaves them out, and with them `Sound` would not hold.  Line widths of 5 and more:
  projecting caps of diagonal lines in `PolySegment`, and joins and projecting caps between the
  arcs of `PolyArc`, reach further than half the line width (`vncHooks.c:1440`, `:1616`).
  Text in a font whose characters have negative widths.  `Composite` to the screen's
  pixmap instead of a window (`vncHooks.c:750`).  And `CopyArea` from a window that is
  completely covered: its clip list is empty and therefore not applied (`vncHooks.c:1153`), so
  that a copy of what covers the window is reported, and the X server copies nothing of it.

## Not modelled

- `UpdatePipeline` has viewers that draw the cursor themselves (`RenderedCursor` has the
  others), and congestion as a condition (`Congestion` has its arithmetic).  A resize does not
  close clients that cannot resize, and a client does not come or go while the pipeline
  runs (a new one starts with everything changed, as `Init` does).  Sending is never partial.
- `Handshake` has no version 3.7, which a 3.8 server and this viewer never agree on; no
  empty list of types; no TLS handshake that fails itself; messages arrive whole; a connection ends because
  one side ends it.  It has one connection: several are in `Session`, which has in turn
  only the outcome of a security type.
- `ViewerSync` has one rectangle in an update and no remote resizing from the viewer.
- `UpdateWriter` has no contents of cursors and names, one update in a scene, and one cursor.
- `Encodings`: zlib gives back what it was given; JPEG is lossy, and what "right" means for it is
  not a matter of order; the gradient filter is never sent by this server; a pixel is a
  colour, and its bytes (`PixelFormat`) do not appear.
- `Keyboard` has two modifiers with levels and the locks; Meta, Alt and dead keys are remapped
  by code of the same shape.  Only Linux's keyboard (XKB) is there.
- `Congestion` counts in steps of 4096 bytes from the acknowledged offset.
- `Session` has only the outcome of a security type, and the idle timeout as one of
  the reasons for `Drop`.  `MaxIdleTime`, `MaxConnectionTime` and
  `MaxDisconnectionTime` end the server, and are left out.  `SDesktop::start` either
  throws or succeeds; it does not succeed without a pixel buffer.
- `Hooks` has points with the drawable's origin and not relative to each other, lines that are
  horizontal, vertical or diagonal, and joins of lines in one polyline; besides the operations
  of the last item above it leaves out the wrapping of screen, graphics contexts and
  `Picture`s itself, RandR, `RestoreAreas` (only of old X servers), and changes made
  within the block handler, which the hooks ignore.
- `CopyRects` leaves out splitting by `maxArea`, which is never asked for together
  with a direction.
- `Xregion` leaves out memory, the 16 bits of a coordinate, and the functions that
  nothing here calls (polygons, shrinking, points in regions).
- `UpdateTracker` leaves out `subtract`, which nothing calls.
- Whole components: cryptography, the bytes of the messages, the streams'
  buffers, timers as a list, user interfaces, configuration
  and logging, the HTTP server, the Windows server (another desktop in front of the
  same code), the Java viewer (a port of the same viewer), and vendored code (zlib).
  These are most of the repository's lines, and little of its
  order of events.

## Plan

1. `Timers` (the sorted list and a clock that is set back) and `OutBuffer` (`FdOutStream`: flush,
   overrun and the two pointers), as algorithms checked against what they should compute.
