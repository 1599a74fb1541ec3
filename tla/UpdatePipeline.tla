--------------------------- MODULE UpdatePipeline ---------------------------
(***************************************************************************)
(* How a change of the desktop reaches the viewers: VNCServerST with its   *)
(* ComparingUpdateTracker, and one VNCSConnectionST per client.            *)
(*                                                                         *)
(* The desktop draws, scrolls and replaces the framebuffer and tells the   *)
(* server, which collects the changes in the comparer and defers them a    *)
(* little; when a client may be written to, checkUpdate compares, hands    *)
(* the changes to the tracker of every client and the client is sent what  *)
(* its tracker holds.                                                      *)
(*                                                                         *)
(* The server is one thread.  An action is one call from outside (desktop, *)
(* timer, socket event) with everything it calls; only processMessages is  *)
(* split, since the desktop may call back in from a message handler        *)
(* (SetDesktopSize): busy is the client whose messages are being read.     *)
(*                                                                         *)
(* The clients draw the cursor themselves here, and their pointer is where *)
(* they put it: needRenderedCursor() is false for each of them.            *)
(***************************************************************************)
EXTENDS UpdateTracker, TLC

CONSTANTS Clients,
          NoClient,        \* not a client: nobody's messages are being read
          Color,
          Blank,           \* what a viewer shows where it has no content yet
          Screens,         \* the framebuffer sizes, each as its set of pixels
          FirstScreen,     \* the one the desktop starts with
          Delta,           \* the distances the desktop scrolls by
          Blocks,          \* region -> the blocks the comparer cuts it into
          CompareFB,       \* CompareFB parameter: "never", "always" or "auto"
          DeferUpdates,    \* DeferUpdate parameter is not zero
          AlwaysSetDefer,  \* AlwaysSetDeferUpdateTimer parameter
          ExtendedClients, \* the clients that know ExtendedDesktopSize
          MaxBlock,        \* bound on nested blockUpdates calls
          OldSizeRequests, \* requests for a smaller, earlier size are included
          Encodings,       \* what SetEncodings may say: of CopyRect, of comparing
          Events           \* the kinds of outside events that are included

ASSUME ScreensAssumption ==
  /\ FirstScreen \in Screens
  /\ \A S \in Screens : S \subseteq Point
ASSUME ColorAssumption == Blank \in Color
ASSUME DeltaAssumption == Delta \subseteq Point
ASSUME ClientAssumption == NoClient \notin Clients
ASSUME BlocksAssumption ==
  \A R \in SUBSET UNION Screens : UNION Blocks[R] = R
ASSUME ParameterAssumption ==
  /\ CompareFB \in {"never", "always", "auto"}
  /\ DeferUpdates \in BOOLEAN
  /\ AlwaysSetDefer \in BOOLEAN
  /\ ExtendedClients \subseteq Clients
  /\ MaxBlock \in Nat
  /\ OldSizeRequests \in BOOLEAN
  /\ Encodings \subseteq BOOLEAN \X BOOLEAN
  /\ Events \subseteq {"draw", "scroll", "block", "resize", "fake", "refresh",
                      "continuous", "encodings", "congestion"}

VARIABLES fb,      \* the framebuffer's content
          server,  \* VNCServerST and its comparer
          conn,    \* client -> VNCSConnectionST
          mirror,  \* client -> the picture its viewer holds once it has read
                   \* everything that was written to it
          busy     \* the client whose messages are being processed

vars == <<fb, server, conn, mirror, busy>>

Picture == UNION {[S -> Color] : S \in Screens}
Areas == SUBSET UNION Screens

Server ==
  [comparer : Tracker,
   oldFb : Picture,
   firstCompare : BOOLEAN,
   blockCounter : 0 .. MaxBlock,
   deferPending : BOOLEAN,
   deferOver : BOOLEAN,     \* deferUpdateTime has passed since deferStart
   deferTimer : BOOLEAN]    \* the timer is running

Connection ==
  [updates : Tracker,
   requested : Areas,
   continuous : BOOLEAN,
   cuRegion : Areas,
   useCopyRect : BOOLEAN,   \* cp.useCopyRect
   wantsCompare : BOOLEAN,  \* getComparerState(): compressLevel is not 0 or 1
   congested : BOOLEAN,     \* isCongested()
   updateTimer : BOOLEAN,   \* the timer is running
   needFake : BOOLEAN,      \* a cursor or name pseudo-rectangle is queued
   needNoData : BOOLEAN]    \* a desktop size pseudo-rectangle is queued

TypeOK ==
  /\ fb \in Picture
  /\ server \in Server
  /\ conn \in [Clients -> Connection]
  /\ mirror \in [Clients -> Picture]
  /\ busy \in Clients \cup {NoClient}

NewComparer(S) == AddChanged(NewTracker(TRUE), S)

\* Every client has just become RFBSTATE_NORMAL: authSuccess has marked the
\* whole screen as changed, and nothing was requested yet.
Init ==
  /\ fb \in [FirstScreen -> Color]
  /\ server = [comparer |-> NewComparer(FirstScreen), oldFb |-> fb,
               firstCompare |-> TRUE, blockCounter |-> 0,
               deferPending |-> FALSE, deferOver |-> FALSE, deferTimer |-> FALSE]
  /\ conn = [c \in Clients |->
               [updates |-> AddChanged(NewTracker(FALSE), FirstScreen),
                requested |-> {}, continuous |-> FALSE, cuRegion |-> {},
                useCopyRect |-> FALSE, wantsCompare |-> TRUE,
                congested |-> FALSE, updateTimer |-> FALSE,
                needFake |-> FALSE, needNoData |-> FALSE]]
  /\ mirror = [c \in Clients |-> [p \in FirstScreen |-> Blank]]
  /\ busy = NoClient
-----------------------------------------------------------------------------
(***************************************************************************)
(* VNCServerST: deferring, comparing                                       *)
(***************************************************************************)
\* Mutant: every change starts the waiting anew.
StartDefer_AlwaysRestarts(s) ==
  IF ~DeferUpdates THEN s
  ELSE [s EXCEPT !.deferPending = TRUE, !.deferOver = FALSE, !.deferTimer = TRUE]

StartDefer(s) ==
  IF ~DeferUpdates \/ (s.deferPending /\ ~AlwaysSetDefer) THEN s
  ELSE [s EXCEPT !.deferPending = TRUE, !.deferOver = FALSE, !.deferTimer = TRUE]

CheckDefer(s) == ~s.deferPending \/ s.deferOver

GetComparerState(cn) ==
  \/ CompareFB = "always"
  \/ CompareFB = "auto" /\ \E c \in Clients : cn[c].wantsCompare

\* ComparingUpdateTracker::compare of a normalized comparer: oldFb follows the
\* framebuffer, and of the blocks reported as changed only those that really
\* differ from oldFb stay.
Differing(R, old, pic) ==
  UNION {B \in Blocks[R \cap DOMAIN pic] : \E p \in B : old[p] # pic[p]}

\* Mutant: oldFb does not follow the copies.
Compare_IgnoresCopies(s, pic) ==
  IF s.firstCompare THEN [s EXCEPT !.oldFb = pic, !.firstCompare = FALSE]
  ELSE [s EXCEPT
          !.comparer.changed = Differing(@, s.oldFb, pic),
          !.oldFb = ApplyUpdate(@, [s.comparer EXCEPT !.copied = {}], pic)]

\* Mutant: oldFb is brought up to date before it is compared.
Compare_Afterwards(s, pic) ==
  IF s.firstCompare THEN [s EXCEPT !.oldFb = pic, !.firstCompare = FALSE]
  ELSE LET old == ApplyUpdate(s.oldFb, s.comparer, pic)
       IN [s EXCEPT !.comparer.changed = Differing(@, old, pic), !.oldFb = old]

Compare(s, pic) ==
  IF s.firstCompare THEN [s EXCEPT !.oldFb = pic, !.firstCompare = FALSE]
  ELSE LET old == ApplyUpdate(s.oldFb, [s.comparer EXCEPT !.changed = {}], pic)
       IN [s EXCEPT
             !.comparer.changed = Differing(@, old, pic),
             !.oldFb = ApplyUpdate(old, [s.comparer EXCEPT !.copied = {}], pic)]

\* Mutant: oldFb is trusted again although nothing was compared for a while.
CompareIfEnabled_TrustsOldFb(s, cn, pic) ==
  IF GetComparerState(cn) THEN Compare(s, pic) ELSE s

\* compare() after enable() or disable().
CompareIfEnabled(s, cn, pic) ==
  IF GetComparerState(cn) THEN Compare(s, pic) ELSE [s EXCEPT !.firstCompare = TRUE]

\* checkUpdate() returns true: nothing new to hand out, or nothing in the way.
CheckUpdateAllowed(s, pic) ==
  \/ IsEmpty(UpdateInfo(s.comparer, DOMAIN pic))
  \/ s.blockCounter = 0 /\ CheckDefer(s)

\* VNCSConnectionST::add_copied and add_changed for every client.
HandOut(cn, ui) == [c \in Clients |-> [cn[c] EXCEPT !.updates = Replay(@, ui)]]

\* What it does then: the comparer's changes go to the tracker of every client.
Checked(st) ==
  LET s == [st.server EXCEPT !.comparer = Normalize(@)]
  IN IF IsEmpty(UpdateInfo(s.comparer, DOMAIN st.fb))
     THEN [st EXCEPT !.server = s]
     ELSE LET compared == CompareIfEnabled([s EXCEPT !.deferPending = FALSE],
                                           st.conn, st.fb)
              ui == UpdateInfo(compared.comparer, DOMAIN st.fb)
          IN [st EXCEPT
                !.server = [compared EXCEPT !.comparer = ClearTracker(Normalize(@))],
                !.conn = HandOut(@, ui)]
-----------------------------------------------------------------------------
(***************************************************************************)
(* VNCSConnectionST::writeFramebufferUpdate                                *)
(*                                                                         *)
(* The calls of one action work on a record of the variables: Now, and     *)
(* Become to make the result the next state.                               *)
(***************************************************************************)
Now == [fb |-> fb, server |-> server, conn |-> conn, mirror |-> mirror, busy |-> busy]

Become(st) == /\ fb' = st.fb
              /\ server' = st.server
              /\ conn' = st.conn
              /\ mirror' = st.mirror
              /\ busy' = st.busy

Wants(k) == k.requested # {} \/ k.continuous
Req(k) == IF k.continuous THEN k.cuRegion \cup k.requested ELSE k.requested

EnableCopy(cn, S) ==
  [c \in Clients |->
     IF c \in S THEN [cn[c] EXCEPT !.updates = EnableCopyRect(@, cn[c].useCopyRect)]
     ELSE cn[c]]

\* The viewer's picture after a desktop size rectangle.
Resized(pic, S) == [p \in S |-> IF p \in DOMAIN pic THEN pic[p] ELSE Blank]

\* The end of writeFramebufferUpdate: everything in the tracker goes, what the
\* request did not cover with it.
Served(k) ==
  [k EXCEPT !.updates = ClearTracker(@), !.requested = {}, !.needFake = FALSE]

\* The update itself, for the clients of S.
Send(st, S) ==
  [st EXCEPT
     !.mirror = [c \in Clients |->
        IF c \in S
        THEN ApplyUpdate(@[c], UpdateInfo(st.conn[c].updates, Req(st.conn[c])), st.fb)
        ELSE @[c]],
     !.conn = [c \in Clients |-> IF c \in S THEN Served(@[c]) ELSE @[c]]]

\* Some of the clients that were written to are now slower than the server.
Congest(st, S) ==
  {[st EXCEPT !.conn = [c \in Clients |->
                          IF c \in full THEN [@[c] EXCEPT !.congested = TRUE] ELSE @[c]]] :
     full \in IF "congestion" \in Events THEN SUBSET S ELSE {{}}}

\* What the getUpdateInfo of the clients of S does to their trackers.
GetUpdateInfo(cn, S) ==
  [c \in Clients |->
     IF c \in S THEN [cn[c] EXCEPT !.updates = Normalize(@)] ELSE cn[c]]

\* From enable_copyrect to the end, for the clients of ready; first is the one
\* whose turn comes first, told are the others that were written to.
DataUpdates(st, ready, first, told) ==
  IF ~CheckUpdateAllowed(st.server, st.fb)
  THEN Congest([st EXCEPT !.conn = EnableCopy(@, ready),
                          !.server.comparer = Normalize(@)], told)
  ELSE LET checked == Checked([st EXCEPT !.conn = EnableCopy(@, {first})])
           enabled == [checked EXCEPT !.conn = EnableCopy(@, ready)]
           normal == [enabled EXCEPT !.conn = GetUpdateInfo(@, ready)]
           sending == {c \in ready :
                         \/ ~IsEmpty(UpdateInfo(normal.conn[c].updates, Req(normal.conn[c])))
                         \/ normal.conn[c].needFake}
       IN Congest(Send(normal, sending), told \cup sending)

\* Mutant: a client that cannot be written to now is not tried again.
HoldBack_Forgets(cn, S, held) ==
  [c \in Clients |-> IF c \in S THEN [cn[c] EXCEPT !.updateTimer = FALSE] ELSE cn[c]]

HoldBack(cn, S, held) ==
  [c \in Clients |->
     IF c \in S THEN [cn[c] EXCEPT !.updateTimer = c \in held] ELSE cn[c]]

\* writeNoDataUpdate: the size first, with the cursor and name that are queued;
\* and it uses up the request.
AnnounceSize(st, S) ==
  [st EXCEPT
     !.mirror = [c \in Clients |->
                   IF c \in S THEN Resized(@[c], DOMAIN st.fb) ELSE @[c]],
     !.conn = [c \in Clients |->
                 IF c \in S THEN [@[c] EXCEPT !.requested = {}, !.needNoData = FALSE,
                                             !.needFake = FALSE]
                 ELSE @[c]]]

\* The states writeFramebufferUpdate of every client of S may lead to.
Writes(st, S) ==
  LET willing == {c \in S \ {st.busy} : Wants(st.conn[c])}
      held == {c \in willing : st.conn[c].congested}
      told == {c \in willing \ held : st.conn[c].needNoData}
      ready == {c \in willing \ held : c \in told => st.conn[c].continuous}
      polled == AnnounceSize([st EXCEPT !.conn = HoldBack(@, S, held)], told)
  IN IF ready = {} THEN Congest(polled, told)
     ELSE UNION {DataUpdates(polled, ready, first, told) : first \in ready}

TryUpdate(st) ==
  IF st.server.blockCounter > 0 \/ ~CheckDefer(st.server) THEN {st}
  ELSE Writes(st, Clients)
-----------------------------------------------------------------------------
(***************************************************************************)
(* The desktop's calls.  They come at any time, from a message handler of  *)
(* a client too.                                                           *)
(***************************************************************************)
Report(pic, comparer) ==
  \E st \in TryUpdate([Now EXCEPT !.fb = pic,
                        !.server = StartDefer([@ EXCEPT !.comparer = comparer])]) :
     Become(st)

\* Drawing, and add_changed.
Draw == /\ "draw" \in Events
        /\ \E p \in DOMAIN fb, color \in Color :
              Report([fb EXCEPT ![p] = color], AddChanged(server.comparer, {p}))

\* Moving everything by d, and add_copied.
Scroll ==
  /\ "scroll" \in Events
  /\ \E d \in Delta :
       LET dest == Translate(DOMAIN fb, d) \cap DOMAIN fb
           pic == [p \in DOMAIN fb |->
                     IF p \in dest THEN fb[Shift(p, Negate(d))] ELSE fb[p]]
       IN Report(pic, AddCopied(server.comparer, dest, d))

BlockUpdates ==
  /\ "block" \in Events
  /\ server.blockCounter < MaxBlock
  /\ server' = [server EXCEPT !.blockCounter = @ + 1]
  /\ UNCHANGED <<fb, conn, mirror, busy>>

UnblockUpdates ==
  /\ server.blockCounter > 0
  /\ \E st \in TryUpdate([Now EXCEPT !.server.blockCounter = @ - 1]) : Become(st)

\* Mutant: pixelBufferChange forgets to queue the new size.
PixelBufferChange_SizeUnannounced(k, resized, S) ==
  [k EXCEPT !.updates = AddChanged(ClearTracker(@), S)]

\* pixelBufferChange up to its writeFramebufferUpdate.
PixelBufferChange(k, resized, S) ==
  [k EXCEPT !.needNoData = @ \/ resized,
            !.updates = AddChanged(ClearTracker(@), S)]

\* setPixelBuffer: another framebuffer, and another comparer with it.
WithFramebuffer(s, pic) ==
  [s EXCEPT !.comparer = NewComparer(DOMAIN pic),
            !.oldFb = pic,
            !.firstCompare = TRUE]

SetPixelBuffer ==
  /\ "resize" \in Events
  /\ \E pic \in Picture :
       LET S == DOMAIN pic
           st == [Now EXCEPT
                    !.fb = pic,
                    !.server = WithFramebuffer(@, pic),
                    !.conn = [c \in Clients |->
                                PixelBufferChange(@[c], S # DOMAIN fb, S)]]
       IN \E written \in Writes(st, Clients) : Become(written)

\* writeExtendedDesktopSize: to those that know it.
TellLayout(cn) ==
  [c \in Clients |-> [cn[c] EXCEPT !.needNoData = @ \/ c \in ExtendedClients]]

AnnounceLayout(st) == [st EXCEPT !.conn = TellLayout(@)]

SetScreenLayout ==
  /\ "resize" \in Events
  /\ \E st \in Writes(AnnounceLayout(Now), Clients) : Become(st)

\* setCursor or setName: a pseudo-rectangle for every client.
SetCursorOrName ==
  /\ "fake" \in Events
  /\ \E st \in Writes([Now EXCEPT !.conn = [c \in Clients |->
                                             [@[c] EXCEPT !.needFake = TRUE]]],
                       Clients) : Become(st)
-----------------------------------------------------------------------------
(***************************************************************************)
(* Timers and sockets                                                      *)
(***************************************************************************)
\* deferUpdateTime has passed.
Tick == /\ server.deferTimer /\ ~server.deferOver
        /\ server' = [server EXCEPT !.deferOver = TRUE]
        /\ UNCHANGED <<fb, conn, mirror, busy>>

DeferTimeout ==
  /\ busy = NoClient
  /\ server.deferTimer /\ server.deferOver
  /\ \E st \in TryUpdate([Now EXCEPT !.server.deferTimer = FALSE]) : Become(st)

UpdateTimeout(c) ==
  /\ busy = NoClient
  /\ conn[c].updateTimer
  /\ \E st \in Writes(Now, {c}) : Become(st)

\* The viewer has read enough: the buffer is empty and the window open again.
Drain(c) ==
  /\ conn[c].congested
  /\ conn' = [conn EXCEPT ![c].congested = FALSE]
  /\ UNCHANGED <<fb, server, mirror, busy>>
-----------------------------------------------------------------------------
(***************************************************************************)
(* processMessages of client c: the first message makes it busy            *)
(* (inProcessMessages), and writeFramebufferUpdate ends it.                *)
(***************************************************************************)
Reading(c) == busy \in {c, NoClient}

UpdateRequest(c, r, incremental) ==
  /\ Reading(c)
  /\ LET k == [conn[c] EXCEPT !.requested =
                  IF incremental /\ conn[c].continuous THEN @ ELSE @ \cup r]
     IN IF incremental
        THEN /\ conn' = [conn EXCEPT ![c] = k]
             /\ UNCHANGED server
        ELSE /\ conn' = [conn EXCEPT ![c] =
                           [k EXCEPT !.updates = AddChanged(@, r),
                                     !.needNoData = @ \/ c \in ExtendedClients]]
             /\ server' = [server EXCEPT !.comparer = AddChanged(@, r)]
  /\ busy' = c
  /\ UNCHANGED <<fb, mirror>>

SetContinuous(k, enable, area) ==
  [k EXCEPT !.continuous = enable,
            !.cuRegion = area,
            !.requested = IF enable THEN {} ELSE @]

EnableContinuousUpdates(c, enable) ==
  /\ "continuous" \in Events
  /\ Reading(c)
  /\ \E st \in Writes([Now EXCEPT
                         !.busy = c,
                         !.conn[c] = SetContinuous(@, enable, DOMAIN mirror[c])],
                       IF enable THEN {c} ELSE {}) : Become(st)

SetEncodings(c, useCopyRect, wantsCompare) ==
  /\ "encodings" \in Events
  /\ Reading(c)
  /\ conn' = [conn EXCEPT ![c].useCopyRect = useCopyRect,
                          ![c].wantsCompare = wantsCompare]
  /\ busy' = c
  /\ UNCHANGED <<fb, server, mirror>>

\* setDesktopSize when the desktop agrees (its own calls are actions above),
\* or when it does not and only c is told.
SetDesktopSize(c) ==
  /\ "resize" \in Events
  /\ Reading(c)
  /\ \E st \in Writes(AnnounceLayout([Now EXCEPT !.busy = c]), Clients) : Become(st)

EndOfMessages(c) ==
  /\ busy = c
  /\ \E st \in Writes([Now EXCEPT !.busy = NoClient], {c}) : Become(st)

\* What a viewer asks for: the whole screen, as it last saw its size.
RequestedAreas(c) ==
  IF OldSizeRequests THEN {S \in Screens : S \subseteq DOMAIN fb} ELSE {DOMAIN fb}

ReadMessage(c) ==
  \/ \E r \in RequestedAreas(c) : UpdateRequest(c, r, TRUE)
  \/ "refresh" \in Events /\ \E r \in RequestedAreas(c) : UpdateRequest(c, r, FALSE)
  \/ \E enable \in BOOLEAN : EnableContinuousUpdates(c, enable)
  \/ \E e \in Encodings : SetEncodings(c, e[1], e[2])
  \/ SetDesktopSize(c)

Desktop == Draw \/ Scroll \/ BlockUpdates \/ UnblockUpdates \/ SetPixelBuffer
           \/ SetScreenLayout \/ SetCursorOrName

Next == \/ Desktop
        \/ Tick \/ DeferTimeout
        \/ \E c \in Clients : UpdateTimeout(c) \/ Drain(c) \/ ReadMessage(c)
                                                \/ EndOfMessages(c)

Spec == Init /\ [][Next]_vars

\* When a timer event changes something: a congested client's timer only
\* starts again.
DeferDue == busy = NoClient /\ server.deferTimer /\ server.deferOver
UpdateDue(c) == busy = NoClient /\ conn[c].updateTimer /\ ~conn[c].congested

\* The event loop serves every due timer and every readable socket in each
\* round, and a viewer reads what it is sent: strong fairness of the two timers,
\* and weak fairness of EndOfMessages(c), Drain(c) and Tick.  What enables them
\* is written out, so that TLC does not have to find it; as each of the last three
\* ends what enables it, weak fairness is that this ends again and again.
Fairness ==
  /\ <>[]~DeferDue \/ []<><<DeferTimeout>>_vars
  /\ \A c \in Clients : <>[]~UpdateDue(c) \/ []<><<UpdateTimeout(c)>>_vars
  /\ \A c \in Clients : []<>(busy # c) /\ []<>~conn[c].congested
  /\ []<>(server.deferTimer => server.deferOver)

FairSpec == Spec /\ Fairness
-----------------------------------------------------------------------------
(***************************************************************************)
(* Properties                                                              *)
(***************************************************************************)
\* Every picture a viewer holds can be brought up to date with what the server
\* still has: its tracker leads to some picture base, and the comparer from
\* there to the framebuffer.  base is oldFb when the comparer trusts it, so
\* what the comparison drops is never missing on a viewer.  It is about the
\* whole path add_changed/add_copied, compare, checkUpdate,
\* writeFramebufferUpdate, with CopyRect and comparing turned on and off.
Coherent ==
  \E base \in [DOMAIN fb -> Color] :
     /\ Accounts(server.comparer, fb, base)
     /\ server.firstCompare \/ server.oldFb = base
     /\ \A c \in Clients : Accounts(conn[c].updates, base, mirror[c])

\* A viewer's tracker is empty, nothing waits in the comparer and no new size
\* either: it shows the framebuffer.  pixelBufferChange marks the whole new
\* screen, so that this holds after a resize too.
UpToDate ==
  \A c \in Clients :
     /\ IsEmpty(server.comparer) /\ IsEmpty(conn[c].updates)
     /\ ~conn[c].needNoData
     => mirror[c] = fb

\* A viewer goes from one whole picture to the next: an update that reaches it
\* makes it show what the framebuffer shows at that moment, never a mixture
\* of two moments (unless its size is changing).
NoTornUpdate ==
  [][\A c \in Clients :
       mirror'[c] # mirror[c] /\ DOMAIN mirror'[c] = DOMAIN mirror[c]
       => mirror'[c] = fb']_vars

\* A viewer is never sent pixels of a framebuffer whose size it was not told:
\* unless a size rectangle is queued, its picture has the framebuffer's size.
SizeAnnounced ==
  \A c \in Clients : conn[c].needNoData \/ DOMAIN mirror[c] = DOMAIN fb

Stale(c) == Wants(conn[c]) /\ mirror[c] # fb

\* Whoever waits for pixels is waited for: when a viewer asked and its picture
\* is out of date, something is bound to call writeFramebufferUpdate for it
\* (its own timer, the defer timer, the end of blocking or of its messages).
NoLostWakeup ==
  \A c \in Clients :
     Stale(c) => \/ conn[c].updateTimer
                 \/ server.deferTimer
                 \/ server.blockCounter > 0
                 \/ busy = c

\* And so the viewer gets them, however much the desktop draws meanwhile.  (Of
\* a single client.  Two can starve each other: when the defer time always runs
\* out just before the first client's turn, that client hands out the changes,
\* the next drawing starts the overdue deferTimer again, and the event that
\* would serve the second one never comes.)
Answered == \A c \in Clients : Stale(c) ~> ~Stale(c)
=============================================================================
