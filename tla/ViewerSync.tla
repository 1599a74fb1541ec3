----------------------------- MODULE ViewerSync -----------------------------
(***************************************************************************)
(* One viewer (CConn) and its connection in the server (VNCSConnectionST), *)
(* joined by two streams.  The viewer asks for the next update while it is *)
(* still decoding one, lets the server send without being asked (continuous*)
(* updates), and changes its pixel format while updates of the old format  *)
(* are on their way.  Fences keep the two in step: the server answers a    *)
(* SyncNext fence after the message that follows it and sends no update in *)
(* between, so the answer comes after the last update of the old format.   *)
(* With a server that knows no fences the viewer never has more than one   *)
(* request on its way, and changes its format at the end of an update.     *)
(*                                                                         *)
(* The viewer reads one message, or one rectangle of an update, at a time. *)
(* It waits for more data inside FLTK (blockCallback), where the user may  *)
(* change an option or ask for a refresh: between any two of its reads.    *)
(* The server reads all that has arrived (inProcess), then writes.         *)
(***************************************************************************)
EXTENDS Naturals, Sequences, FiniteSets, SequencesExt

CONSTANTS Format,    \* pixel formats
          NativePF,  \* the one the server offers
          Sizes,     \* framebuffer sizes
          FirstSize, \* the one the server starts with
          NoData,    \* what a fence without data carries
          MaxQueue   \* bound on the messages under way, for what users start

ASSUME FormatAssumption == NativePF \in Format /\ NoData \notin Format
ASSUME SizeAssumption == FirstSize \in Sizes
ASSUME QueueAssumption == MaxQueue \in Nat

VARIABLES viewer,    \* CConn and its reader
          option,    \* the format the viewer's options stand for
          server,    \* VNCSConnectionST
          toServer,  \* the messages the server has not read
          toViewer   \* the messages and rectangles the viewer has not read

vars == <<viewer, option, server, toServer, toViewer>>

Viewer ==
  [started : BOOLEAN,          \* RFBSTATE_NORMAL
   tls : BOOLEAN,              \* is and os are TLS streams
   pf : Format,                \* cp.pf(), what rectangles are decoded in
   size : Sizes,               \* cp.width, cp.height
   formatChange : BOOLEAN, encodingChange : BOOLEAN,
   firstUpdate : BOOLEAN, pendingUpdate : BOOLEAN,
   continuousUpdates : BOOLEAN, forceNonincremental : BOOLEAN,
   supportsSyncFence : BOOLEAN,
   pendingPFChange : BOOLEAN, pendingPF : Format,
   supportsFence : BOOLEAN,    \* cp: the server has sent a fence
   supportsCU : BOOLEAN,       \* cp: it has sent EndOfContinuousUpdates
   rectsLeft : BOOLEAN,        \* nUpdateRectsLeft # 0
   assertFailed : BOOLEAN]     \* an assert() would have ended the viewer

Server ==
  [knowsFences : BOOLEAN,      \* older servers do not
   pf : Format, size : Sizes,
   supportsFence : BOOLEAN, supportsCU : BOOLEAN,
   supportsResize : BOOLEAN,   \* the viewer's encodings are known
   inProcess : BOOLEAN, pendingSyncFence : BOOLEAN,
   fenceData : Format \cup {NoData},
   requested : BOOLEAN,        \* not empty
   continuous : BOOLEAN, cuSize : Sizes,
   dirty : BOOLEAN,            \* updates, or a cursor or name rectangle, wait
   newSize : BOOLEAN,          \* needNoDataUpdate()
   refused : BOOLEAN]          \* a message made it close the connection

ToServer ==
  [type : {"SetPixelFormat"}, pf : Format]
  \cup [type : {"SetEncodings"}]
  \cup [type : {"UpdateRequest"}, incremental : BOOLEAN]
  \cup [type : {"Fence"}, request : BOOLEAN, data : Format \cup {NoData}]
  \cup [type : {"EnableCU"}, size : Sizes]

ToViewer ==
  [type : {"Fence"}, request : BOOLEAN, sync : BOOLEAN, data : Format \cup {NoData}]
  \cup [type : {"EndOfCU"}]
  \cup [type : {"UpdateStart"}]
  \cup [type : {"Rect"}, pf : Format]
  \cup [type : {"SizeRect"}, size : Sizes]

TypeOK ==
  /\ viewer \in Viewer
  /\ option \in Format
  /\ server \in Server
  /\ toServer \in Seq(ToServer)
  /\ toViewer \in Seq(ToViewer)

\* The viewer has sent ClientInit; the server's ServerInit is the next thing it
\* reads, and tells it the native format and the size.
Init ==
  \E wanted \in Format, knows \in BOOLEAN :
    /\ viewer = [started |-> FALSE, tls |-> FALSE, pf |-> NativePF, size |-> FirstSize,
                 formatChange |-> FALSE, encodingChange |-> FALSE,
                 firstUpdate |-> TRUE, pendingUpdate |-> FALSE,
                 continuousUpdates |-> FALSE, forceNonincremental |-> TRUE,
                 supportsSyncFence |-> FALSE,
                 pendingPFChange |-> FALSE, pendingPF |-> NativePF,
                 supportsFence |-> FALSE, supportsCU |-> FALSE,
                 rectsLeft |-> FALSE, assertFailed |-> FALSE]
    /\ option = wanted
    /\ server = [knowsFences |-> knows, pf |-> NativePF, size |-> FirstSize,
                 supportsFence |-> FALSE, supportsCU |-> FALSE,
                 supportsResize |-> FALSE, inProcess |-> FALSE, pendingSyncFence |-> FALSE,
                 fenceData |-> NoData,
                 requested |-> FALSE, continuous |-> FALSE, cuSize |-> FirstSize,
                 dirty |-> TRUE, newSize |-> FALSE, refused |-> FALSE]
    /\ toServer = <<>>
    /\ toViewer = <<>>
-----------------------------------------------------------------------------
(***************************************************************************)
(* The viewer's requests.  An operator takes and returns the viewer with   *)
(* what it has sent: [v |-> viewer, out |-> messages].                     *)
(***************************************************************************)
Start(v) == [v |-> v, out |-> <<>>]
Say(st, m) == [st EXCEPT !.out = Append(@, m)]

SetPixelFormatMsg(pf) == [type |-> "SetPixelFormat", pf |-> pf]
UpdateRequestMsg(incremental) == [type |-> "UpdateRequest", incremental |-> incremental]
FenceMsg(request, data) == [type |-> "Fence", request |-> request, data |-> data]
EnableCUMsg(size) == [type |-> "EnableCU", size |-> size]

\* Mutant: the new format is used at once, fence or not.
NewFormat_AtOnce(st, pf) ==
  IF ~st.v.formatChange THEN st
  ELSE Say([st EXCEPT !.v.formatChange = FALSE, !.v.pf = pf], SetPixelFormatMsg(pf))

\* requestNewUpdate, first part: the fence carries the new format, or it is
\* used from the end of the update that is being read.
NewFormat(st, pf) ==
  IF ~st.v.formatChange THEN st
  ELSE LET v == [st.v EXCEPT
                   !.formatChange = FALSE,
                   !.assertFailed = @ \/ (st.v.pendingUpdate /\ ~st.v.supportsSyncFence),
                   !.pendingPFChange = @ \/ ~st.v.supportsSyncFence,
                   !.pendingPF = IF st.v.supportsSyncFence THEN @ ELSE pf]
           out == IF st.v.supportsSyncFence
                  THEN <<FenceMsg(TRUE, pf), SetPixelFormatMsg(pf)>>
                  ELSE <<SetPixelFormatMsg(pf)>>
       IN [v |-> v, out |-> st.out \o out]

CheckEncodings(st) ==
  IF ~st.v.encodingChange THEN st
  ELSE Say([st EXCEPT !.v.encodingChange = FALSE], [type |-> "SetEncodings"])

AskForUpdate(st) ==
  LET w == [st EXCEPT !.v.forceNonincremental = FALSE]
  IN IF st.v.forceNonincremental \/ ~st.v.continuousUpdates
     THEN Say([w EXCEPT !.v.pendingUpdate = TRUE],
              UpdateRequestMsg(~st.v.forceNonincremental))
     ELSE w

RequestNewUpdate(st, wanted) == AskForUpdate(CheckEncodings(NewFormat(st, wanted)))

\* Makes the result the viewer's next state.
Became(st) == /\ viewer' = st.v
              /\ toServer' = toServer \o st.out
-----------------------------------------------------------------------------
(***************************************************************************)
(* The viewer reads.                                                       *)
(***************************************************************************)
\* The first request is the one exception: nothing of the old format can be on
\* its way, so the new one is used at once.  The handshake has left the streams.
ReadServerInit(tls) ==
  /\ ~viewer.started
  /\ LET st == RequestNewUpdate(Start([viewer EXCEPT !.started = TRUE, !.tls = tls,
                                                     !.formatChange = TRUE,
                                                     !.encodingChange = TRUE]),
                                option)
     IN Became([st EXCEPT !.v.assertFailed = @ \/ ~st.v.pendingPFChange,
                          !.v.pf = st.v.pendingPF,
                          !.v.pendingPFChange = FALSE,
                          !.v.pendingPF = NativePF])
  /\ UNCHANGED <<option, server, toViewer>>

Reads(type) == /\ viewer.started
               /\ toViewer # <<>> /\ Head(toViewer).type = type
               /\ toViewer' = Tail(toViewer)

\* framebufferUpdateStart: the next update is asked for while this one comes.
ReadUpdateStart ==
  /\ Reads("UpdateStart")
  /\ Became(RequestNewUpdate(Start([viewer EXCEPT !.rectsLeft = TRUE,
                                                  !.pendingUpdate = FALSE]),
                             option))
  /\ UNCHANGED <<option, server>>

\* The bound on what is under way when users, the desktop or the bandwidth start
\* something new.
Room == Len(toServer) + Len(toViewer) < MaxQueue

\* framebufferUpdateEnd up to the automatic selection.
UpdateEnd(st) ==
  LET probed == IF st.v.firstUpdate /\ st.v.supportsFence
                THEN Say(st, FenceMsg(TRUE, NoData)) ELSE st
  IN [probed EXCEPT !.v.rectsLeft = FALSE, !.v.firstUpdate = FALSE,
                    !.v.pf = IF st.v.pendingPFChange THEN st.v.pendingPF ELSE @,
                    !.v.pendingPFChange = FALSE]

\* The end of an update, where autoSelectFormatAndEncoding may choose another
\* format from the bandwidth it measured.  (Another quality is an encodingChange
\* as HandleOptions makes it too.)
EndsUpdate(st) ==
  \E chosen \in Format :
    LET ended == UpdateEnd(st)
    IN /\ chosen = option \/ Room
       /\ option' = chosen
       /\ Became([ended EXCEPT !.v.formatChange = @ \/ chosen # option])

\* socketEvent reads one message, or one rectangle, and goes on while there is more
\* on the socket: with TLS what has been decrypted is not on the socket any more.
\* A small update is one record, and all of it decrypted to read its head.
MoreOnSocket == viewer.tls => Len(toViewer) > 1

\* A rectangle of pixels, or a cursor, is decoded in the viewer's format.
ReadRect == /\ Reads("Rect") /\ MoreOnSocket
            /\ EndsUpdate(Start(viewer))
            /\ UNCHANGED server

\* Mutant: the continuous updates keep the area they were enabled for.
ResizeFramebuffer_KeepsArea(st, size) == [st EXCEPT !.v.size = size]

\* resizeFramebuffer
ResizeFramebuffer(st, size) ==
  LET resized == [st EXCEPT !.v.size = size]
  IN IF st.v.continuousUpdates THEN Say(resized, EnableCUMsg(size)) ELSE resized

ReadSizeRect ==
  /\ Reads("SizeRect") /\ MoreOnSocket
  /\ EndsUpdate(ResizeFramebuffer(Start(viewer), Head(toViewer).size))
  /\ UNCHANGED server

\* The answer to the probe: fences work, and with them continuous updates.
ProbeAnswer(st) ==
  LET synced == [st EXCEPT !.v.supportsSyncFence = TRUE]
  IN IF ~st.v.supportsCU THEN synced
     ELSE Say([synced EXCEPT !.v.continuousUpdates = TRUE], EnableCUMsg(st.v.size))

\* fence(): a request is answered; an answer is that to the probe, or it brings
\* the new format.
FenceReceived(st, m) ==
  IF m.request THEN Say(st, FenceMsg(FALSE, m.data))
  ELSE IF m.data # NoData THEN [st EXCEPT !.v.pf = m.data]
  ELSE IF m.sync THEN ProbeAnswer(st)
  ELSE st

ReadFence ==
  /\ Reads("Fence")
  /\ Became(FenceReceived(Start([viewer EXCEPT !.supportsFence = TRUE]), Head(toViewer)))
  /\ UNCHANGED <<option, server>>

ReadEndOfCU ==
  /\ Reads("EndOfCU")
  /\ viewer' = [viewer EXCEPT !.supportsCU = TRUE]
  /\ UNCHANGED <<option, server, toServer>>

ReadMsg == ReadUpdateStart \/ ReadRect \/ ReadSizeRect \/ ReadFence \/ ReadEndOfCU

ViewerReads == ReadMsg \/ \E tls \in BOOLEAN : ReadServerInit(tls)
-----------------------------------------------------------------------------
(***************************************************************************)
(* The user of the viewer                                                  *)
(***************************************************************************)
\* Mutant: the request is not left to the next update where there are no fences.
IfSafe_Always(st, wanted) == RequestNewUpdate(st, wanted)

\* "Without fences, we cannot safely trigger an update request directly but
\* must wait for the next update to arrive."
IfSafe(st, wanted) ==
  IF st.v.supportsSyncFence THEN RequestNewUpdate(st, wanted) ELSE st

\* handleOptions: the wanted format is compared with cp.pf(), the one in use.
HandleOptions ==
  /\ viewer.started /\ Room
  /\ \E chosen \in Format :
       LET st == Start([viewer EXCEPT !.encodingChange = TRUE])
       IN /\ option' = chosen
          /\ Became(IF chosen = viewer.pf THEN st
                    ELSE IfSafe([st EXCEPT !.v.formatChange = TRUE], chosen))
  /\ UNCHANGED <<server, toViewer>>

RefreshFramebuffer ==
  /\ viewer.started /\ Room
  /\ Became(IfSafe(Start([viewer EXCEPT !.forceNonincremental = TRUE]), option))
  /\ UNCHANGED <<option, server, toViewer>>
-----------------------------------------------------------------------------
(***************************************************************************)
(* The server reads: [s |-> server, out |-> messages].                     *)
(***************************************************************************)
ServerFence(request, sync, data) ==
  [type |-> "Fence", request |-> request, sync |-> sync, data |-> data]

Tell(st, ms) == [st EXCEPT !.out = @ \o ms]

SetEncodings(s) ==
  LET first == s.knowsFences /\ ~s.supportsFence
  IN [s |-> [s EXCEPT !.dirty = TRUE,     \* setCursor
                      !.supportsResize = TRUE,
                      !.supportsFence = s.knowsFences,
                      !.supportsCU = s.knowsFences],
      out |-> IF first THEN <<ServerFence(TRUE, FALSE, NoData), [type |-> "EndOfCU"]>>
              ELSE <<>>]

\* Incremental requests mean nothing while updates are sent continuously; one
\* that is not asks for everything again, and for the screen layout.
UpdateRequest(s, incremental) ==
  [s EXCEPT !.requested = @ \/ ~incremental \/ ~s.continuous,
            !.dirty = @ \/ ~incremental,
            !.newSize = @ \/ ~incremental]

EnableCU(s, size) ==
  IF ~s.supportsFence \/ ~s.supportsCU THEN [s EXCEPT !.refused = TRUE]
  ELSE [s EXCEPT !.continuous = TRUE, !.cuSize = size, !.requested = FALSE]

\* Only fences that the viewer asks for an answer to are synchronised here;
\* the answers to the server's own belong to congestion control.
Fence(s, m) ==
  IF m.request THEN [s EXCEPT !.pendingSyncFence = TRUE, !.fenceData = m.data] ELSE s

Handle(s, m) ==
  CASE m.type = "SetPixelFormat" ->
         [s |-> [s EXCEPT !.pf = m.pf, !.dirty = TRUE], out |-> <<>>]
    [] m.type = "SetEncodings" -> SetEncodings(s)
    [] m.type = "UpdateRequest" -> [s |-> UpdateRequest(s, m.incremental), out |-> <<>>]
    [] m.type = "EnableCU" -> [s |-> EnableCU(s, m.size), out |-> <<>>]
    [] m.type = "Fence" -> [s |-> Fence(s, m), out |-> <<>>]

\* Mutant: the fence is answered when it is read.
Synchronised_AtOnce(s, m) ==
  LET st == Handle(s, m)
  IN IF st.s.pendingSyncFence
     THEN Tell([st EXCEPT !.s.pendingSyncFence = FALSE],
               <<ServerFence(FALSE, TRUE, st.s.fenceData)>>)
     ELSE st

\* Mutant: it is never answered.
Synchronised_Forgotten(s, m) == Handle([s EXCEPT !.pendingSyncFence = FALSE], m)

\* One round of processMessages: after the message that follows a SyncNext
\* fence, the fence is answered with what its only slot holds then.
Synchronised(s, m) ==
  LET st == Handle([s EXCEPT !.pendingSyncFence = FALSE], m)
  IN IF s.pendingSyncFence
     THEN Tell([st EXCEPT !.s.fenceData = IF st.s.pendingSyncFence THEN @ ELSE NoData],
               <<ServerFence(FALSE, TRUE, st.s.fenceData)>>)
     ELSE st

\* Makes the result the next state.
BecameServer(st) == /\ server' = st.s
                    /\ toViewer' = toViewer \o st.out

ServerReads ==
  /\ toServer # <<>> /\ ~server.refused
  /\ toServer' = Tail(toServer)
  /\ BecameServer(Synchronised([server EXCEPT !.inProcess = TRUE], Head(toServer)))
  /\ UNCHANGED <<viewer, option>>
-----------------------------------------------------------------------------
(***************************************************************************)
(* The server writes: writeFramebufferUpdate.                              *)
(***************************************************************************)
NoDataUpdate(s) ==
  [s |-> [s EXCEPT !.newSize = FALSE, !.requested = FALSE],
   out |-> <<[type |-> "UpdateStart"], [type |-> "SizeRect", size |-> s.size]>>]

\* Mutant: the data is sent after its pings.
DataUpdate_PingFirst(st) ==
  LET ping == IF st.s.supportsFence THEN <<ServerFence(TRUE, FALSE, NoData)>> ELSE <<>>
  IN Tell([st EXCEPT !.s.dirty = FALSE, !.s.requested = FALSE],
          ping \o <<[type |-> "UpdateStart"], [type |-> "Rect", pf |-> st.s.pf]>>)

\* The data is sent between two pings (fences that the viewer answers at once);
\* here the second stands for both.
DataUpdate(st) ==
  LET ping == IF st.s.supportsFence THEN <<ServerFence(TRUE, FALSE, NoData)>> ELSE <<>>
  IN Tell([st EXCEPT !.s.dirty = FALSE, !.s.requested = FALSE],
          <<[type |-> "UpdateStart"], [type |-> "Rect", pf |-> st.s.pf]>> \o ping)

\* Mutant: a new size does not use up the request.
Written_SizeForFree(s) ==
  LET sized == IF s.newSize THEN [NoDataUpdate(s) EXCEPT !.s.requested = s.requested]
               ELSE [s |-> s, out |-> <<>>]
  IN {sized} \cup IF sized.s.dirty THEN {DataUpdate(sized)} ELSE {}

\* Mutant: continuous updates wait for a request all the same.
Written_NeedsRequest(s) ==
  LET sized == IF s.newSize THEN NoDataUpdate(s) ELSE [s |-> s, out |-> <<>>]
  IN {sized} \cup IF sized.s.dirty /\ sized.s.requested THEN {DataUpdate(sized)} ELSE {}

\* What it may come to, when it is not held back altogether by congestion: the
\* size on its own, the data after or without it.
Written(s) ==
  LET sized == IF s.newSize THEN NoDataUpdate(s) ELSE [s |-> s, out |-> <<>>]
  IN {sized} \cup IF sized.s.dirty /\ (s.newSize => s.continuous)
                  THEN {DataUpdate(sized)} ELSE {}

CanWrite(s) == ~s.inProcess /\ (s.requested \/ s.continuous)

\* A call of writeFramebufferUpdate.
TriesToWrite(s) ==
  \/ BecameServer([s |-> s, out |-> <<>>])
  \/ CanWrite(s) /\ \E st \in Written(s) : st.out # <<>> /\ BecameServer(st)

EndOfMessages ==
  /\ server.inProcess
  /\ TriesToWrite([server EXCEPT !.inProcess = FALSE])
  /\ UNCHANGED <<viewer, option, toServer>>

\* The defer timer or the connection's own, when nothing is in the way.
UpdateTimeout ==
  /\ CanWrite(server) /\ ~server.refused
  /\ server.dirty \/ server.newSize
  /\ \E st \in Written(server) : st.out # <<>> /\ BecameServer(st)
  /\ UNCHANGED <<viewer, option, toServer>>

\* The desktop draws, or changes its cursor or name.
Draw ==
  /\ Room
  /\ TriesToWrite([server EXCEPT !.dirty = TRUE])
  /\ UNCHANGED <<viewer, option, toServer>>

\* pixelBufferChange.  (Before the viewer's encodings are known a new size ends the
\* connection instead.)
Resize ==
  /\ Room /\ server.supportsResize
  /\ \E size \in Sizes \ {server.size} :
       TriesToWrite([server EXCEPT !.size = size, !.dirty = TRUE, !.newSize = TRUE])
  /\ UNCHANGED <<viewer, option, toServer>>

ServerActs == ServerReads \/ EndOfMessages \/ UpdateTimeout \/ Draw \/ Resize

Next == ViewerReads \/ HandleOptions \/ RefreshFramebuffer \/ ServerActs

Spec == Init /\ [][Next]_vars
-----------------------------------------------------------------------------
(***************************************************************************)
(* Properties                                                              *)
(***************************************************************************)
Has(queue, type) == \E i \in DOMAIN queue : queue[i].type = type

\* Every rectangle is decoded in the format it was encoded in, although both
\* sides change formats with updates of the old one on their way: the viewer
\* switches when the fence comes back, or at the end of an update.
DecodedAsEncoded ==
  toViewer # <<>> /\ Head(toViewer).type = "Rect" => Head(toViewer).pf = viewer.pf

\* "Catch incorrect requestNewUpdate calls" and the assertion of serverInit
\* never end the viewer, and the server never refuses continuous updates:
\* without synchronised fences the format changes only between two updates.
NothingRefused == ~viewer.assertFailed /\ ~server.refused

\* The update that is asked for, wherever the question or the answer is.
Turns ==
  Cardinality({i \in DOMAIN toServer : toServer[i].type = "UpdateRequest"})
  + (IF server.requested THEN 1 ELSE 0)
  + Cardinality({i \in DOMAIN toViewer : toViewer[i].type = "UpdateStart"})

\* The updates never run dry.  Until the viewer knows that fences work, exactly
\* one update is asked for at any time (more could be encoded in a format the
\* viewer does not expect); then at least one, or the server sends unasked.
AskedFor ==
  viewer.started =>
    IF viewer.supportsSyncFence
    THEN Turns > 0 \/ server.continuous \/ Has(toServer, "EnableCU")
    ELSE Turns = 1

\* Continuous updates cover the whole screen, or the message that will make
\* them do so is due: a resize may cross the message that enables them.
AreaFollowsSize ==
  server.continuous =>
    \/ server.cuSize = server.size
    \/ server.newSize
    \/ [type |-> "SizeRect", size |-> server.size] \in Range(toViewer)
    \/ EnableCUMsg(server.size) \in Range(toServer)

\* What is drawn is sent: nobody waits for a request or an answer for ever.
\* (Unless the size is changed or all is asked for again and again: the update
\* that tells the size uses up the request every time.)
Shown == \/ []<>(viewer.started => ~server.dirty)
         \/ []<>Has(toViewer, "SizeRect")

\* An update that was begun is read to its end, although the viewer's loop looks at
\* the socket and not at the TLS stream it reads from: the ping after each update
\* makes it go on.  (A server without fences sends none, and with TLS the viewer
\* leaves updates unread until something else comes.)
Displayed ==
  viewer.rectsLeft /\ (viewer.tls => server.knowsFences) ~> ~viewer.rectsLeft

\* The viewer's first fence is answered, though the server answers it only
\* with the next message, whatever that is.
ProbeAnswered ==
  ~viewer.firstUpdate /\ viewer.supportsFence ~> viewer.supportsSyncFence
=============================================================================
