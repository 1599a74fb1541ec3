------------------------ MODULE UpdatePipelineProofs ------------------------
(***************************************************************************)
(* Proofs about UpdatePipeline, for every number of clients, every set of  *)
(* framebuffer sizes, colours and scroll distances, every way of cutting a *)
(* region into blocks and every setting of the parameters: no change is    *)
(* lost on its way from the desktop to a viewer, no viewer is shown a      *)
(* mixture of two pictures or pixels of a size it was not told, and        *)
(* whoever waits for pixels is waited for.                                 *)
(*                                                                         *)
(* The calls of an action work on a record of the variables.  Sound is     *)
(* what holds of that record between any two of them:                      *)
(*   - some picture lies between every viewer's and the framebuffer: the   *)
(*     viewer's tracker leads to it and the comparer from there (Between); *)
(*   - what each connection promises about sizes and areas (ClientSound):  *)
(*     who asks without a size waiting to be told asks for everything, for *)
(*     an update forgets what the request did not cover;                   *)
(*   - a deferral that has not run out has a timer (DeferSound).           *)
(* Inv, the inductive invariant, is TypeOK, Sound, and NoLostWakeup        *)
(* (StaleIn, Attended).                                                    *)
(*                                                                         *)
(* Each operator of the model has a lemma saying what it makes of a state  *)
(* that is Sound; they meet in WritesResult and TryUpdateResult, with      *)
(* which nearly every action ends.                                         *)
(*                                                                         *)
(* The hypothesis WholeRequests excludes the two cases in which a viewer   *)
(* asks for less than the framebuffer, which lose changes: a request for   *)
(* the size before a resize, and continuous updates of an area that a      *)
(* resize has outgrown.                                                    *)
(***************************************************************************)
EXTENDS UpdatePipeline, UpdateTrackerProofs

State ==
  [fb : Picture, server : Server, conn : [Clients -> Connection],
   mirror : [Clients -> Picture], busy : Clients \cup {NoClient}]

\* The variables as one record, which is what the calls work on.
LEMMA NowState ==
  /\ Now \in State <=> TypeOK
  /\ Now.fb = fb /\ Now.server = server /\ Now.conn = conn
  /\ Now.mirror = mirror /\ Now.busy = busy
BY DEF Now, State, TypeOK

(***************************************************************************)
(* Pictures                                                                *)
(***************************************************************************)
LEMMA PictureDomain ==
  /\ \A pic \in Picture : /\ DOMAIN pic \in Screens
                          /\ DOMAIN pic \subseteq Point
                          /\ pic \in [DOMAIN pic -> Color]
  /\ \A S \in Screens : \A pic \in [S -> Color] : pic \in Picture
BY ScreensAssumption DEF Picture

\* Pictures with the same pixels are the same.
LEMMA SamePicture ==
  ASSUME NEW a \in Picture, NEW b \in Picture, DOMAIN a = DOMAIN b,
         \A p \in DOMAIN a : a[p] = b[p]
  PROVE  a = b
BY PictureDomain

\* What resizing makes of a picture.
LEMMA ResizedType ==
  ASSUME NEW pic \in Picture, NEW S \in Screens
  PROVE  /\ Resized(pic, S) \in Picture
         /\ DOMAIN Resized(pic, S) = S
         /\ DOMAIN pic = S => Resized(pic, S) = pic
<1>1. /\ pic \in [DOMAIN pic -> Color]
      /\ \A q \in [S -> Color] : q \in Picture
  BY PictureDomain
<1>2. Resized(pic, S) \in [S -> Color]
  BY <1>1, ColorAssumption DEF Resized
<1> QED BY <1>1, <1>2 DEF Resized

(***************************************************************************)
(* Trackers: u says at least what t says.                                  *)
(***************************************************************************)
Keeps(t, u) ==
  /\ u \in Tracker
  /\ t.changed \subseteq u.changed
  /\ \A new, old : Accounts(t, new, old) => Accounts(u, new, old)

\* enable_copyrect loses nothing that is pending.
LEMMA EnableCopyRectKeeps ==
  ASSUME NEW t \in Tracker, NEW enable \in BOOLEAN
  PROVE  Keeps(t, EnableCopyRect(t, enable))
<1> DEFINE u == EnableCopyRect(t, enable)
<1>1. CASE ~enable /\ t.copyEnabled
  <2>1. u = [t EXCEPT !.changed = t.changed \cup t.copied, !.copied = {}, !.copyEnabled = FALSE]
    BY <1>1 DEF EnableCopyRect
  <2>2. u \in Tracker /\ u.changed = t.changed \cup t.copied /\ u.copied = {}
    BY <2>1 DEF Tracker
  <2> HIDE DEF u
  <2> QED BY <2>2 DEF Keeps, Accounts, u
<1>2. CASE ~(~enable /\ t.copyEnabled)
  <2>1. u = [t EXCEPT !.copyEnabled = enable]
    BY <1>2 DEF EnableCopyRect
  <2>2. /\ u \in Tracker /\ u.changed = t.changed /\ u.copied = t.copied
        /\ u.delta = t.delta
    BY <2>1 DEF Tracker
  <2> HIDE DEF u
  <2> QED BY <2>2 DEF Keeps, Accounts, u
<1> QED BY <1>1, <1>2

\* Nor does getUpdateInfo.
LEMMA NormalizeKeeps ==
  ASSUME NEW t \in Tracker
  PROVE  /\ Keeps(t, Normalize(t))
         /\ Normalize(t).changed = t.changed
         /\ Normalize(t).copied = t.copied \ t.changed
         /\ Normalize(t).delta = t.delta
<1> DEFINE u == Normalize(t)
<1>1. /\ u \in Tracker /\ u.changed = t.changed /\ u.copied = t.copied \ t.changed
      /\ u.delta = t.delta
  BY DEF Normalize, Tracker
<1> HIDE DEF u
<1>2. Keeps(t, u)
  BY <1>1 DEF Keeps, Accounts
<1> QED BY <1>1, <1>2 DEF u

\* Nor does add_changed.
LEMMA AddChangedKeeps ==
  ASSUME NEW t \in Tracker, NEW R \in SUBSET Point
  PROVE  Keeps(t, AddChanged(t, R))
BY AddChangedType DEF Keeps, Accounts

\* Doing nothing does not either.
LEMMA KeepsItself ==
  ASSUME NEW t \in Tracker
  PROVE  Keeps(t, t)
BY DEF Keeps

\* Nor do two calls, if neither does.
LEMMA KeepsTrans ==
  ASSUME NEW t, NEW u, NEW v, Keeps(t, u), Keeps(u, v)
  PROVE  Keeps(t, v)
BY DEF Keeps

\* An empty tracker says that two pictures are the same.
LEMMA ClearTrackerAccounts ==
  ASSUME NEW t \in Tracker
  PROVE  /\ ClearTracker(t) \in Tracker
         /\ ClearTracker(t).changed = {} /\ ClearTracker(t).copied = {}
         /\ \A pic : Accounts(ClearTracker(t), pic, pic)
BY DEF ClearTracker, Tracker, Accounts

(***************************************************************************)
(* States between the calls of an action                                   *)
(***************************************************************************)
\* What a client's connection k promises when its viewer shows m and the
\* framebuffer covers D.
ClientSound(k, m, D) ==
  /\ k.needNoData \/ DOMAIN m = D
  /\ DOMAIN m = D \/ D \subseteq k.updates.changed
  /\ k.needNoData \/ k.requested = {} \/ D \subseteq k.requested
  /\ k.continuous => DOMAIN m = D /\ D \subseteq k.cuRegion
  /\ "resize" \in Events => ~k.continuous
  /\ "resize" \in Events \/ DOMAIN m = D

DeferSound(s) == s.deferPending /\ ~s.deferOver => s.deferTimer

\* base lies between the pictures of the viewers and the framebuffer.
Between(st, base) ==
  /\ Accounts(st.server.comparer, st.fb, base)
  /\ st.server.firstCompare \/ st.server.oldFb = base
  /\ \A c \in Clients : Accounts(st.conn[c].updates, base, st.mirror[c])

Sound(st) ==
  /\ \E base \in [DOMAIN st.fb -> Color] : Between(st, base)
  /\ \A c \in Clients : ClientSound(st.conn[c], st.mirror[c], DOMAIN st.fb)
  /\ DeferSound(st.server)

\* The members of a connection that decide whether there is something to wait for.
SameDemand(k, l) ==
  /\ l.requested = k.requested /\ l.continuous = k.continuous /\ l.cuRegion = k.cuRegion
  /\ l.needNoData = k.needNoData

SameTiming(s, t) ==
  /\ t.blockCounter = s.blockCounter /\ t.deferPending = s.deferPending
  /\ t.deferOver = s.deferOver /\ t.deferTimer = s.deferTimer

\* res is st, except that trackers may say more.
Retracked(st, res) ==
  /\ res \in State
  /\ res.fb = st.fb /\ res.mirror = st.mirror /\ res.busy = st.busy
  /\ SameTiming(st.server, res.server)
  /\ res.server.firstCompare = st.server.firstCompare
  /\ res.server.oldFb = st.server.oldFb
  /\ Keeps(st.server.comparer, res.server.comparer)
  /\ \A c \in Clients : /\ SameDemand(st.conn[c], res.conn[c])
                        /\ res.conn[c].updateTimer = st.conn[c].updateTimer
                        /\ Keeps(st.conn[c].updates, res.conn[c].updates)

\* A state differs from itself in no tracker.
LEMMA RetrackedItself ==
  ASSUME NEW st \in State
  PROVE  Retracked(st, st)
<1>1. st.server.comparer \in Tracker /\ \A c \in Clients : st.conn[c].updates \in Tracker
  BY DEF State, Server, Connection
<1> QED BY <1>1, KeepsItself DEF Retracked, SameTiming, SameDemand

\* States that differ in trackers only, one after the other.
LEMMA RetrackedTrans ==
  ASSUME NEW a, NEW b, NEW c, Retracked(a, b), Retracked(b, c)
  PROVE  Retracked(a, c)
BY KeepsTrans DEF Retracked, SameTiming, SameDemand

\* Trackers that say more leave a state sound.
LEMMA RetrackedSound ==
  ASSUME NEW st, NEW res, Retracked(st, res)
  PROVE  /\ \A base : Between(st, base) => Between(res, base)
         /\ Sound(st) => Sound(res)
<1>1. ASSUME NEW base, Between(st, base)
      PROVE  Between(res, base)
  BY <1>1 DEF Between, Retracked, Keeps
<1>2. ASSUME NEW c \in Clients, ClientSound(st.conn[c], st.mirror[c], DOMAIN st.fb)
      PROVE  ClientSound(res.conn[c], res.mirror[c], DOMAIN res.fb)
  BY <1>2 DEF Retracked, Keeps, ClientSound, SameDemand
<1>3. DeferSound(st.server) => DeferSound(res.server)
  BY DEF Retracked, SameTiming, DeferSound
<1>4. res.fb = st.fb
  BY DEF Retracked
<1> QED BY <1>1, <1>2, <1>3, <1>4 DEF Sound

\* enable_copyrect turns a pending copy into changed pixels.
LEMMA EnableCopyRetracks ==
  ASSUME NEW st \in State, NEW S \in SUBSET Clients
  PROVE  Retracked(st, [st EXCEPT !.conn = EnableCopy(@, S)])
<1> DEFINE cn == EnableCopy(st.conn, S)
           res == [st EXCEPT !.conn = EnableCopy(@, S)]
<1>1. ASSUME NEW c \in Clients
      PROVE  /\ cn[c] \in Connection
             /\ SameDemand(st.conn[c], cn[c])
             /\ cn[c].updateTimer = st.conn[c].updateTimer
             /\ Keeps(st.conn[c].updates, cn[c].updates)
  <2> DEFINE k == st.conn[c]
             u == EnableCopyRect(k.updates, k.useCopyRect)
  <2>1. k \in Connection /\ k.updates \in Tracker /\ k.useCopyRect \in BOOLEAN
    BY DEF State, Connection
  <2>2. Keeps(k.updates, u) /\ u \in Tracker
    BY <2>1, EnableCopyRectKeeps DEF Keeps
  <2>3. cn[c] = IF c \in S THEN [k EXCEPT !.updates = u] ELSE k
    BY DEF EnableCopy
  <2> HIDE DEF k, u, cn
  <2>4. Keeps(k.updates, k.updates)
    BY <2>1, KeepsItself
  <2>5. CASE c \in S
    <3>1. cn[c] = [k EXCEPT !.updates = u]
      BY <2>3, <2>5
    <3>2. /\ cn[c] \in Connection /\ cn[c].updates = u
          /\ SameDemand(k, cn[c]) /\ cn[c].updateTimer = k.updateTimer
      BY <2>1, <2>2, <3>1 DEF Connection, SameDemand
    <3> QED BY <2>2, <3>2 DEF k
  <2>6. CASE c \notin S
    BY <2>1, <2>3, <2>4, <2>6 DEF SameDemand, k
  <2> QED BY <2>5, <2>6
<1>2. cn \in [Clients -> Connection]
  BY <1>1 DEF EnableCopy
<1> HIDE DEF cn
<1>3. /\ res \in State /\ res.conn = cn /\ res.fb = st.fb /\ res.server = st.server
      /\ res.mirror = st.mirror /\ res.busy = st.busy
  BY <1>2 DEF State, cn
<1>4. st.server.comparer \in Tracker
  BY DEF State, Server
<1> HIDE DEF res
<1>5. Retracked(st, res)
  BY <1>1, <1>3, <1>4, KeepsItself DEF Retracked, SameTiming
<1> QED BY <1>5 DEF res

\* The comparer's getUpdateInfo.
LEMMA NormalizeComparerRetracks ==
  ASSUME NEW st \in State
  PROVE  Retracked(st, [st EXCEPT !.server.comparer = Normalize(@)])
<1> DEFINE t == st.server.comparer
           s == [st.server EXCEPT !.comparer = Normalize(t)]
           res == [st EXCEPT !.server.comparer = Normalize(@)]
<1>1. st.server \in Server /\ t \in Tracker
  BY DEF State, Server
<1>2. Keeps(t, Normalize(t)) /\ Normalize(t) \in Tracker
  BY <1>1, NormalizeKeeps DEF Keeps
<1> HIDE DEF t
<1>3. /\ s \in Server /\ s.comparer = Normalize(t) /\ SameTiming(st.server, s)
      /\ s.firstCompare = st.server.firstCompare /\ s.oldFb = st.server.oldFb
  BY <1>1, <1>2 DEF Server, SameTiming
<1> HIDE DEF s
<1>4. /\ res \in State /\ res.server = s /\ res.fb = st.fb /\ res.conn = st.conn
      /\ res.mirror = st.mirror /\ res.busy = st.busy
  BY <1>3 DEF State, s, t
<1>5. \A c \in Clients : st.conn[c].updates \in Tracker
  BY DEF State, Connection
<1> HIDE DEF res
<1>6. Retracked(st, res)
  BY <1>2, <1>3, <1>4, <1>5, KeepsItself DEF Retracked, SameDemand, t
<1> QED BY <1>6 DEF res

\* The clients' getUpdateInfo.
LEMMA GetUpdateInfoRetracks ==
  ASSUME NEW st \in State, NEW ready \in SUBSET Clients
  PROVE  Retracked(st, [st EXCEPT !.conn = GetUpdateInfo(@, ready)])
<1> DEFINE cn == GetUpdateInfo(st.conn, ready)
           res == [st EXCEPT !.conn = GetUpdateInfo(@, ready)]
<1>1. ASSUME NEW c \in Clients
      PROVE  /\ cn[c] \in Connection
             /\ SameDemand(st.conn[c], cn[c])
             /\ cn[c].updateTimer = st.conn[c].updateTimer
             /\ Keeps(st.conn[c].updates, cn[c].updates)
  <2> DEFINE k == st.conn[c]
             u == Normalize(k.updates)
  <2>1. k \in Connection /\ k.updates \in Tracker
    BY DEF State, Connection
  <2>2. Keeps(k.updates, u) /\ u \in Tracker /\ Keeps(k.updates, k.updates)
    BY <2>1, NormalizeKeeps, KeepsItself DEF Keeps
  <2>3. cn[c] = IF c \in ready THEN [k EXCEPT !.updates = u] ELSE k
    BY DEF GetUpdateInfo
  <2> HIDE DEF k, u, cn
  <2>4. CASE c \in ready
    <3>1. cn[c] = [k EXCEPT !.updates = u]
      BY <2>3, <2>4
    <3>2. /\ cn[c] \in Connection /\ cn[c].updates = u
          /\ SameDemand(k, cn[c]) /\ cn[c].updateTimer = k.updateTimer
      BY <2>1, <2>2, <3>1 DEF Connection, SameDemand
    <3> QED BY <2>2, <3>2 DEF k
  <2>5. CASE c \notin ready
    BY <2>1, <2>2, <2>3, <2>5 DEF SameDemand, k
  <2> QED BY <2>4, <2>5
<1>2. cn \in [Clients -> Connection]
  BY <1>1 DEF GetUpdateInfo
<1> HIDE DEF cn
<1>3. /\ res \in State /\ res.conn = cn /\ res.fb = st.fb /\ res.server = st.server
      /\ res.mirror = st.mirror /\ res.busy = st.busy
  BY <1>2 DEF State, cn
<1> HIDE DEF res
<1>4. st.server.comparer \in Tracker
  BY DEF State, Server
<1>5. Retracked(st, res)
  BY <1>1, <1>3, <1>4, KeepsItself DEF Retracked, SameTiming
<1> QED BY <1>5 DEF res

\* Becoming congested touches no tracker.
LEMMA CongestRetracks ==
  ASSUME NEW st \in State, NEW S \in SUBSET Clients, NEW res \in Congest(st, S)
  PROVE  Retracked(st, res)
<1>1. PICK full : res = [st EXCEPT !.conn = [c \in Clients |->
                          IF c \in full THEN [@[c] EXCEPT !.congested = TRUE] ELSE @[c]]]
  BY DEF Congest
<1> DEFINE cn == [c \in Clients |-> IF c \in full
                                   THEN [st.conn[c] EXCEPT !.congested = TRUE]
                                   ELSE st.conn[c]]
<1>2. ASSUME NEW c \in Clients
      PROVE  /\ cn[c] \in Connection
             /\ SameDemand(st.conn[c], cn[c])
             /\ cn[c].updateTimer = st.conn[c].updateTimer
             /\ cn[c].updates = st.conn[c].updates
             /\ st.conn[c].updates \in Tracker
  <2> DEFINE k == st.conn[c]
  <2>1. k \in Connection
    BY DEF State
  <2>2. cn[c] = IF c \in full THEN [k EXCEPT !.congested = TRUE] ELSE k
    OBVIOUS
  <2> HIDE DEF cn, k
  <2>3. cn[c] = k \/ cn[c] = [k EXCEPT !.congested = TRUE]
    BY <2>2
  <2>4. /\ cn[c] \in Connection /\ cn[c].updates = k.updates /\ k.updates \in Tracker
        /\ SameDemand(k, cn[c]) /\ cn[c].updateTimer = k.updateTimer
    BY <2>1, <2>3 DEF Connection, SameDemand
  <2> QED BY <2>4 DEF k
<1>3. cn \in [Clients -> Connection]
  BY <1>2
<1>4. res = [st EXCEPT !.conn = cn]
  BY <1>1
<1> HIDE DEF cn
<1>5. /\ res \in State /\ res.conn = cn /\ res.fb = st.fb /\ res.server = st.server
      /\ res.mirror = st.mirror /\ res.busy = st.busy
  BY <1>3, <1>4 DEF State
<1>6. st.server.comparer \in Tracker
  BY DEF State, Server
<1> QED BY <1>2, <1>5, <1>6, KeepsItself DEF Retracked, SameTiming

(***************************************************************************)
(* Waiting for a slow client, and telling the size                         *)
(***************************************************************************)
HeldBack(st, S, late) == [st EXCEPT !.conn = HoldBack(@, S, late)]

\* res is st, with the timers of the clients of S for the late ones.
Waiting(st, res, S, late) ==
  /\ res \in State /\ res.fb = st.fb /\ res.server = st.server
  /\ res.mirror = st.mirror /\ res.busy = st.busy
  /\ \A c \in Clients :
       /\ SameDemand(st.conn[c], res.conn[c])
       /\ res.conn[c].updates = st.conn[c].updates
       /\ c \in S => (res.conn[c].updateTimer <=> c \in late)
       /\ c \notin S => res.conn[c].updateTimer = st.conn[c].updateTimer
  /\ Sound(st) => Sound(res)

\* The clients that cannot be written to now, and only they, wait for their timer.
LEMMA HoldBackResult ==
  ASSUME NEW st \in State, NEW S \in SUBSET Clients, NEW late \in SUBSET Clients
  PROVE  Waiting(st, HeldBack(st, S, late), S, late)
<1> DEFINE cn == HoldBack(st.conn, S, late)
           res == HeldBack(st, S, late)
<1>1. ASSUME NEW c \in Clients
      PROVE  /\ cn[c] \in Connection
             /\ SameDemand(st.conn[c], cn[c])
             /\ cn[c].updates = st.conn[c].updates
             /\ c \in S => (cn[c].updateTimer <=> c \in late)
             /\ c \notin S => cn[c].updateTimer = st.conn[c].updateTimer
  <2> DEFINE k == st.conn[c]
             waits == c \in late
  <2>1. k \in Connection /\ waits \in BOOLEAN
    BY DEF State
  <2>2. cn[c] = IF c \in S THEN [k EXCEPT !.updateTimer = waits] ELSE k
    BY DEF HoldBack
  <2> HIDE DEF cn, k, waits
  <2>3. CASE c \in S
    <3>1. cn[c] = [k EXCEPT !.updateTimer = waits]
      BY <2>2, <2>3
    <3>2. /\ cn[c] \in Connection /\ cn[c].updates = k.updates
          /\ SameDemand(k, cn[c]) /\ cn[c].updateTimer = waits
      BY <2>1, <3>1 DEF Connection, SameDemand
    <3> QED BY <2>3, <3>2 DEF k, waits
  <2>4. CASE c \notin S
    BY <2>1, <2>2, <2>4 DEF SameDemand, k
  <2> QED BY <2>3, <2>4
<1>2. cn \in [Clients -> Connection]
  BY <1>1 DEF HoldBack
<1> HIDE DEF cn
<1>3. /\ res \in State /\ res.conn = cn /\ res.fb = st.fb /\ res.server = st.server
      /\ res.mirror = st.mirror /\ res.busy = st.busy
  BY <1>2 DEF HeldBack, State, cn
<1> HIDE DEF res
<1>4. Sound(st) => Sound(res)
  BY <1>1, <1>3 DEF Sound, Between, ClientSound, SameDemand
<1>5. Waiting(st, res, S, late)
  BY <1>1, <1>3, <1>4 DEF Waiting
<1> QED BY <1>5 DEF res

\* writeNoDataUpdate gives the viewer the size, blank where it has no content, and its
\* tracker has the whole screen if there is anything blank.
LEMMA AnnounceSizeResult ==
  ASSUME NEW st \in State, NEW S \in SUBSET Clients, NEW res, res = AnnounceSize(st, S)
  PROVE  /\ res \in State /\ res.fb = st.fb /\ res.server = st.server
         /\ res.busy = st.busy
         /\ \A c \in Clients :
              /\ res.conn[c].updates = st.conn[c].updates
              /\ res.conn[c].updateTimer = st.conn[c].updateTimer
              /\ res.conn[c].continuous = st.conn[c].continuous
              /\ c \in S => /\ res.conn[c].requested = {} /\ ~res.conn[c].needNoData
                            /\ DOMAIN res.mirror[c] = DOMAIN st.fb
              /\ c \notin S => /\ SameDemand(st.conn[c], res.conn[c])
                               /\ res.mirror[c] = st.mirror[c]
              /\ DOMAIN st.mirror[c] = DOMAIN st.fb => res.mirror[c] = st.mirror[c]
         /\ Sound(st) => Sound(res)
<1> DEFINE D == DOMAIN st.fb
           cn == [c \in Clients |->
                    IF c \in S THEN [st.conn[c] EXCEPT !.requested = {}, !.needNoData = FALSE,
                                                       !.needFake = FALSE]
                    ELSE st.conn[c]]
           mi == [c \in Clients |->
                    IF c \in S THEN Resized(st.mirror[c], D) ELSE st.mirror[c]]
<1>1. ASSUME NEW c \in Clients
      PROVE  /\ cn[c] \in Connection
             /\ cn[c].updates = st.conn[c].updates
             /\ cn[c].updateTimer = st.conn[c].updateTimer
             /\ cn[c].continuous = st.conn[c].continuous
             /\ cn[c].cuRegion = st.conn[c].cuRegion
             /\ c \in S => cn[c].requested = {} /\ ~cn[c].needNoData
             /\ c \notin S => SameDemand(st.conn[c], cn[c])
  <2> DEFINE k == st.conn[c]
  <2>1. k \in Connection
    BY DEF State
  <2>2. cn[c] = IF c \in S THEN [k EXCEPT !.requested = {}, !.needNoData = FALSE,
                                          !.needFake = FALSE]
                ELSE k
    OBVIOUS
  <2> HIDE DEF cn, k
  <2>3. CASE c \in S
    <3>1. cn[c] = [k EXCEPT !.requested = {}, !.needNoData = FALSE, !.needFake = FALSE]
      BY <2>2, <2>3
    <3>2. {} \in Areas
      BY DEF Areas
    <3>3. /\ cn[c] \in Connection /\ cn[c].updates = k.updates
          /\ cn[c].updateTimer = k.updateTimer
          /\ cn[c].continuous = k.continuous /\ cn[c].cuRegion = k.cuRegion
          /\ cn[c].requested = {} /\ ~cn[c].needNoData
      BY <2>1, <3>1, <3>2 DEF Connection
    <3> QED BY <2>3, <3>3 DEF k
  <2>4. CASE c \notin S
    BY <2>1, <2>2, <2>4 DEF SameDemand, k
  <2> QED BY <2>3, <2>4
<1>2. ASSUME NEW c \in Clients
      PROVE  /\ mi[c] \in Picture
             /\ c \in S => DOMAIN mi[c] = D
             /\ c \notin S => mi[c] = st.mirror[c]
             /\ DOMAIN st.mirror[c] = D => mi[c] = st.mirror[c]
  <2>1. st.mirror[c] \in Picture /\ D \in Screens
    BY PictureDomain DEF State
  <2> QED BY <2>1, ResizedType
<1>3. cn \in [Clients -> Connection] /\ mi \in [Clients -> Picture]
  BY <1>1, <1>2
<1>4. res = [st EXCEPT !.mirror = mi, !.conn = cn]
  BY DEF AnnounceSize
<1> HIDE DEF cn, mi
<1>5. /\ res \in State /\ res.conn = cn /\ res.fb = st.fb /\ res.server = st.server
      /\ res.mirror = mi /\ res.busy = st.busy
  BY <1>3, <1>4 DEF State
<1> HIDE DEF D
<1>6. ASSUME Sound(st) PROVE Sound(res)
  <2>1. PICK base \in [D -> Color] : Between(st, base)
    BY <1>6 DEF Sound, D
  <2>2. ASSUME NEW c \in Clients
        PROVE  /\ Accounts(res.conn[c].updates, base, res.mirror[c])
               /\ ClientSound(res.conn[c], res.mirror[c], D)
    <3>1. /\ Accounts(st.conn[c].updates, base, st.mirror[c])
          /\ ClientSound(st.conn[c], st.mirror[c], D)
      BY <1>6, <2>1 DEF Sound, Between, D
    <3>2. ClientSound(res.conn[c], res.mirror[c], D)
      BY <1>1, <1>2, <1>5, <3>1 DEF ClientSound, SameDemand
    <3>3. CASE DOMAIN st.mirror[c] = D
      <4>1. res.conn[c].updates = st.conn[c].updates /\ res.mirror[c] = st.mirror[c]
        BY <1>1, <1>2, <1>5, <3>3
      <4> QED BY <3>1, <3>2, <4>1
    <3>4. CASE DOMAIN st.mirror[c] # D
      <4>1. D \subseteq res.conn[c].updates.changed
        BY <1>1, <1>5, <3>1, <3>4 DEF ClientSound
      <4>2. DOMAIN base = D
        BY <2>1
      <4>3. Accounts(res.conn[c].updates, base, res.mirror[c])
        BY <4>1, <4>2 DEF Accounts
      <4> QED BY <3>2, <4>3
    <3> QED BY <3>2, <3>3, <3>4
  <2>3. Between(res, base)
    BY <1>5, <2>1, <2>2 DEF Between
  <2> QED BY <1>5, <1>6, <2>1, <2>2, <2>3 DEF Sound, D
<1> QED BY <1>1, <1>2, <1>5, <1>6 DEF D

(***************************************************************************)
(* Comparing, and handing out the changes                                  *)
(***************************************************************************)
\* What getUpdateInfo returns for a whole framebuffer is as good as the tracker.
LEMMA UpdateInfoAccounts ==
  ASSUME NEW t \in Tracker, NEW new, NEW info, info = UpdateInfo(t, DOMAIN new)
  PROVE  /\ info.changed \in SUBSET Point /\ info.copied \in SUBSET Point
         /\ info.delta \in Point
         /\ info.copied \cap info.changed = {}
         /\ \A old : Accounts(t, new, old) => Accounts(info, new, old)
<1>1. /\ info.changed = t.changed \cap DOMAIN new
      /\ info.copied = (t.copied \ t.changed) \cap DOMAIN new
      /\ info.delta = t.delta
  BY DEF UpdateInfo
<1>2. t.changed \in SUBSET Point /\ t.copied \in SUBSET Point /\ t.delta \in Point
  BY DEF Tracker
<1>3. ASSUME NEW old, Accounts(t, new, old)
      PROVE  Accounts(info, new, old)
  BY <1>1, <1>3 DEF Accounts
<1> QED BY <1>1, <1>2, <1>3

\* Nothing to update: the pictures are the same.
LEMMA EmptyAccount ==
  ASSUME NEW t, NEW new \in Picture, NEW old \in Picture, DOMAIN new = DOMAIN old,
         NEW area, DOMAIN new \subseteq area,
         IsEmpty(UpdateInfo(t, area)), Accounts(t, new, old)
  PROVE  new = old
<1>1. \A p \in DOMAIN new : p \notin t.changed \cup t.copied
  BY DEF IsEmpty, UpdateInfo
<1>2. \A p \in DOMAIN new : new[p] = old[p]
  BY <1>1 DEF Accounts
<1> QED BY <1>2, SamePicture

\* What the comparison drops from the changed region is what oldFb has already.
LEMMA DifferingResult ==
  ASSUME NEW pic \in Picture, NEW R, NEW old
  PROVE  /\ Differing(R, old, pic) \subseteq R \cap DOMAIN pic
         /\ \A p \in R \cap DOMAIN pic :
              p \notin Differing(R, old, pic) => old[p] = pic[p]
<1> DEFINE A == R \cap DOMAIN pic
<1>1. A \in SUBSET UNION Screens
  BY PictureDomain
<1>2. UNION Blocks[A] = A
  BY <1>1, BlocksAssumption
<1>3. Differing(R, old, pic) = UNION {B \in Blocks[A] : \E p \in B : old[p] # pic[p]}
  BY DEF Differing
<1> HIDE DEF A
<1>4. Differing(R, old, pic) \subseteq A
  BY <1>2, <1>3
<1>5. ASSUME NEW p \in A, p \notin Differing(R, old, pic)
      PROVE  old[p] = pic[p]
  BY <1>2, <1>3, <1>5
<1> QED BY <1>4, <1>5 DEF A

\* compare: what it drops from the comparer is the same in base, and oldFb is
\* the framebuffer afterwards.
LEMMA CompareResult ==
  ASSUME NEW s \in Server, NEW pic \in Picture, NEW base \in [DOMAIN pic -> Color],
         Accounts(s.comparer, pic, base),
         s.comparer.copied \cap s.comparer.changed = {},
         s.firstCompare \/ s.oldFb = base
  PROVE  /\ Compare(s, pic) \in Server
         /\ SameTiming(s, Compare(s, pic))
         /\ Accounts(Compare(s, pic).comparer, pic, base)
         /\ Compare(s, pic).oldFb = pic
<1> DEFINE t == s.comparer
           D == DOMAIN pic
<1>1. t \in Tracker /\ t.changed \in SUBSET Point /\ t.copied \in SUBSET Point
  BY DEF Server, Tracker
<1>2. D \in Screens /\ D \subseteq Point /\ pic \in [D -> Color]
  BY PictureDomain
<1>3. CASE s.firstCompare
  <2>1. Compare(s, pic) = [s EXCEPT !.oldFb = pic, !.firstCompare = FALSE]
    BY <1>3 DEF Compare
  <2>2. /\ Compare(s, pic) \in Server /\ SameTiming(s, Compare(s, pic))
        /\ Compare(s, pic).comparer = s.comparer /\ Compare(s, pic).oldFb = pic
    BY <2>1 DEF Server, SameTiming
  <2> QED BY <2>2
<1>4. CASE ~s.firstCompare
  <2> DEFINE moves == [t EXCEPT !.changed = {}]
             draws == [t EXCEPT !.copied = {}]
             old == ApplyUpdate(base, moves, pic)
             differ == Differing(t.changed, old, pic)
             now == ApplyUpdate(old, draws, pic)
             u == [t EXCEPT !.changed = differ]
             res == Compare(s, pic)
  <2>1. /\ s.oldFb = base
        /\ res = [s EXCEPT !.comparer.changed = differ, !.oldFb = now]
    BY <1>4 DEF Compare
  <2>2. /\ moves.changed = {} /\ moves.copied = t.copied /\ moves.delta = t.delta
        /\ draws.changed = t.changed /\ draws.copied = {}
    BY <1>1 DEF Tracker
  <2>3. ASSUME NEW p \in D
        PROVE  old[p] = IF p \in t.copied THEN pic[p] ELSE base[p]
    <3>1. old[p] = IF p \in t.copied THEN base[Shift(p, Negate(t.delta))] ELSE base[p]
      BY <2>2, <2>3 DEF ApplyUpdate
    <3>2. p \in t.copied => pic[p] = base[Shift(p, Negate(t.delta))]
      BY <2>3 DEF Accounts
    <3> QED BY <3>1, <3>2
  <2>4. /\ differ \subseteq t.changed \cap D
        /\ \A p \in t.changed \cap D : p \notin differ => old[p] = pic[p]
    BY DifferingResult
  <2>5. ASSUME NEW p \in D
        PROVE  now[p] = pic[p]
    <3>1. DOMAIN old = D
      BY DEF ApplyUpdate
    <3> HIDE DEF old
    <3>2. now[p] = IF p \in t.changed THEN pic[p] ELSE old[p]
      BY <2>2, <2>5, <3>1 DEF ApplyUpdate
    <3>3. p \notin t.changed => old[p] = pic[p]
      BY <2>3, <2>5 DEF Accounts
    <3> QED BY <3>2, <3>3
  <2>6. now = pic
    <3>1. now = [p \in D |-> now[p]]
      BY DEF ApplyUpdate
    <3>2. pic = [p \in D |-> pic[p]]
      BY <1>2
    <3> HIDE DEF now
    <3> QED BY <2>5, <3>1, <3>2
  <2> HIDE DEF moves, draws, old, differ, now
  <2>7. u \in Tracker /\ u.changed = differ /\ u.copied = t.copied /\ u.delta = t.delta
    BY <1>1, <2>4 DEF Tracker
  <2> HIDE DEF u
  <2>8. res = [s EXCEPT !.comparer = u, !.oldFb = pic]
    BY <2>1, <2>6 DEF u, Server
  <2> HIDE DEF res
  <2>9. /\ res \in Server /\ SameTiming(s, res) /\ res.comparer = u /\ res.oldFb = pic
    BY <2>7, <2>8 DEF Server, SameTiming
  <2>10. Accounts(u, pic, base)
    <3>1. ASSUME NEW p \in D, p \notin u.changed \cup u.copied
          PROVE  pic[p] = base[p]
      <4>1. CASE p \in t.changed
        BY <2>3, <2>4, <2>7, <3>1, <4>1
      <4>2. CASE p \notin t.changed
        BY <2>7, <3>1, <4>2 DEF Accounts
      <4> QED BY <4>1, <4>2
    <3>2. ASSUME NEW p \in D, p \in u.copied \ u.changed
          PROVE  /\ Shift(p, Negate(u.delta)) \in D
                 /\ pic[p] = base[Shift(p, Negate(u.delta))]
      <4>1. p \in t.copied \ t.changed
        BY <2>7, <3>2
      <4> QED BY <2>7, <3>2, <4>1 DEF Accounts
    <3> QED BY <3>1, <3>2 DEF Accounts
  <2> QED BY <2>9, <2>10 DEF res
<1> QED BY <1>3, <1>4

\* With comparing off nothing is dropped, and oldFb is not trusted any more.
LEMMA CompareIfEnabledResult ==
  ASSUME NEW s \in Server, NEW cn, NEW pic \in Picture,
         NEW base \in [DOMAIN pic -> Color],
         Accounts(s.comparer, pic, base),
         s.comparer.copied \cap s.comparer.changed = {},
         s.firstCompare \/ s.oldFb = base,
         NEW res, res = CompareIfEnabled(s, cn, pic)
  PROVE  /\ res \in Server
         /\ SameTiming(s, res)
         /\ Accounts(res.comparer, pic, base)
         /\ res.firstCompare \/ res.oldFb = pic
<1>1. CASE GetComparerState(cn)
  BY <1>1, CompareResult DEF CompareIfEnabled
<1>2. CASE ~GetComparerState(cn)
  <2>1. res = [s EXCEPT !.firstCompare = TRUE]
    BY <1>2 DEF CompareIfEnabled
  <2>2. /\ res \in Server /\ SameTiming(s, res)
        /\ res.comparer = s.comparer /\ res.firstCompare
    BY <2>1 DEF Server, SameTiming
  <2> QED BY <2>2
<1> QED BY <1>1, <1>2

\* The comparer's changes are replayed into every client's tracker.
LEMMA HandOutResult ==
  ASSUME NEW cn \in [Clients -> Connection], NEW info,
         info.changed \in SUBSET Point, info.copied \in SUBSET Point, info.delta \in Point
  PROVE  /\ HandOut(cn, info) \in [Clients -> Connection]
         /\ \A c \in Clients :
              /\ SameDemand(cn[c], HandOut(cn, info)[c])
              /\ HandOut(cn, info)[c].updateTimer = cn[c].updateTimer
              /\ HandOut(cn, info)[c].updates = Replay(cn[c].updates, info)
<1> DEFINE res == HandOut(cn, info)
<1>1. ASSUME NEW c \in Clients
      PROVE  /\ res[c] \in Connection /\ SameDemand(cn[c], res[c])
             /\ res[c].updateTimer = cn[c].updateTimer
             /\ res[c].updates = Replay(cn[c].updates, info)
  <2> DEFINE k == cn[c]
             u == Replay(k.updates, info)
  <2>1. k \in Connection /\ k.updates \in Tracker
    BY DEF Connection
  <2>2. u \in Tracker
    BY <2>1, AddCopiedType, AddChangedType DEF Replay
  <2>3. res[c] = [k EXCEPT !.updates = u]
    BY DEF HandOut
  <2> HIDE DEF k, u, res
  <2>4. /\ res[c] \in Connection /\ res[c].updates = u
        /\ SameDemand(k, res[c]) /\ res[c].updateTimer = k.updateTimer
    BY <2>1, <2>2, <2>3 DEF Connection, SameDemand
  <2> QED BY <2>4 DEF k, u
<1>2. res \in [Clients -> Connection]
  BY <1>1 DEF HandOut
<1> QED BY <1>1, <1>2

\* Replaying leaves out no pixel that is marked as changed.
LEMMA ReplayGrows ==
  ASSUME NEW t \in Tracker, NEW info,
         info.changed \in SUBSET Point, info.copied \in SUBSET Point, info.delta \in Point
  PROVE  t.changed \subseteq Replay(t, info).changed
<1> DEFINE dest == info.copied
           d == info.delta
           u == AddCopied(t, dest, d)
<1>1. t.changed \subseteq u.changed
  <2>1. t.changed \subseteq AddChanged(t, dest).changed
    BY AddChangedType
  <2>2. CASE ~t.copyEnabled
    BY <2>1, <2>2 DEF AddCopied
  <2>3. CASE t.copyEnabled /\ dest = {}
    BY <2>3 DEF AddCopied
  <2>4. CASE /\ t.copyEnabled /\ dest # {}
             /\ Translate(dest, Negate(d)) \cap t.copied = {}
    <3>1. u = AddFreshCopy(t, dest, d)
      BY <2>4 DEF AddCopied
    <3>2. CASE BoundingArea(t.copied) > BoundingArea(dest)
      BY <2>1, <3>1, <3>2 DEF AddFreshCopy
    <3>3. CASE ~(BoundingArea(t.copied) > BoundingArea(dest))
      <4>1. FreshCopyResult(AddFreshCopy(t, dest, d), t, dest, d)
        BY <3>3, AddFreshCopyResult
      <4> QED BY <3>1, <4>1 DEF FreshCopyResult
    <3> QED BY <3>2, <3>3
  <2>5. CASE /\ t.copyEnabled /\ dest # {}
             /\ Translate(dest, Negate(d)) \cap t.copied # {}
    <3>1. u = AddContinuedCopy(t, dest, d)
      BY <2>5 DEF AddCopied
    <3>2. ContinuedCopyResult(AddContinuedCopy(t, dest, d), t, dest, d)
      BY AddContinuedCopyResult
    <3> QED BY <3>1, <3>2 DEF ContinuedCopyResult
  <2> QED BY <2>2, <2>3, <2>4, <2>5
<1>2. u \in Tracker
  BY AddCopiedType
<1> HIDE DEF u
<1>3. AddChanged(u, info.changed).changed = u.changed \cup info.changed
  BY <1>2, AddChangedType
<1> QED BY <1>1, <1>3 DEF Replay, u

\* checkUpdate: afterwards every tracker leads from what its viewer shows to the
\* framebuffer, and the comparer has nothing more to add.
LEMMA CheckedResult ==
  ASSUME NEW st \in State, Sound(st), NEW res, res = Checked(st)
  PROVE  /\ res \in State
         /\ res.fb = st.fb /\ res.mirror = st.mirror /\ res.busy = st.busy
         /\ res.server.blockCounter = st.server.blockCounter
         /\ res.server.deferTimer = st.server.deferTimer
         /\ \A c \in Clients : /\ SameDemand(st.conn[c], res.conn[c])
                               /\ res.conn[c].updateTimer = st.conn[c].updateTimer
         /\ Sound(res) /\ Between(res, st.fb)
<1> DEFINE D == DOMAIN st.fb
           s == [st.server EXCEPT !.comparer = Normalize(@)]
<1>1. /\ st.server \in Server /\ st.server.comparer \in Tracker
      /\ st.fb \in Picture /\ st.conn \in [Clients -> Connection]
      /\ \A c \in Clients : st.mirror[c] \in Picture /\ st.conn[c].updates \in Tracker
  BY DEF State, Server, Connection
<1>2. D \in Screens /\ D \subseteq Point /\ st.fb \in [D -> Color]
  BY <1>1, PictureDomain
<1>3. PICK base \in [D -> Color] : Between(st, base)
  BY DEF Sound
<1>4. base \in Picture /\ DOMAIN base = D
  BY <1>2, <1>3, PictureDomain
<1>5. /\ s \in Server /\ SameTiming(st.server, s)
      /\ s.firstCompare = st.server.firstCompare /\ s.oldFb = st.server.oldFb
      /\ s.comparer = Normalize(st.server.comparer)
  <2>1. Normalize(st.server.comparer) \in Tracker
    BY <1>1, NormalizeKeeps DEF Keeps
  <2> QED BY <1>1, <2>1 DEF Server, SameTiming
<1>6. /\ s.comparer \in Tracker
      /\ s.comparer.copied \cap s.comparer.changed = {}
      /\ Accounts(s.comparer, st.fb, base)
      /\ s.firstCompare \/ s.oldFb = base
  <2>1. Accounts(st.server.comparer, st.fb, base)
    BY <1>3 DEF Between
  <2> QED BY <1>1, <1>3, <1>5, <2>1, NormalizeKeeps DEF Keeps, Between
<1> HIDE DEF s
<1>7. CASE IsEmpty(UpdateInfo(s.comparer, D))
  <2>1. res = [st EXCEPT !.server = s]
    BY <1>7 DEF Checked, s
  <2>2. /\ res \in State /\ res.server = s /\ res.fb = st.fb /\ res.conn = st.conn
        /\ res.mirror = st.mirror /\ res.busy = st.busy
    BY <1>5, <2>1 DEF State
  <2>3. base = st.fb
    BY <1>1, <1>4, <1>6, <1>7, EmptyAccount
  <2>4. Between(res, st.fb)
    BY <1>3, <1>6, <2>2, <2>3 DEF Between
  <2>5. \A c \in Clients : SameDemand(st.conn[c], res.conn[c])
    BY <2>2 DEF SameDemand
  <2>6. Sound(res)
    <3>1. DeferSound(res.server)
      BY <1>5, <2>2 DEF Sound, DeferSound, SameTiming
    <3> QED BY <1>2, <2>2, <2>4, <3>1 DEF Sound
  <2> QED BY <1>5, <2>2, <2>4, <2>5, <2>6 DEF SameTiming
<1>8. CASE ~IsEmpty(UpdateInfo(s.comparer, D))
  <2> DEFINE s1 == [s EXCEPT !.deferPending = FALSE]
             s2 == CompareIfEnabled(s1, st.conn, st.fb)
             info == UpdateInfo(s2.comparer, D)
             t3 == ClearTracker(Normalize(s2.comparer))
             s3 == [s2 EXCEPT !.comparer = ClearTracker(Normalize(@))]
             cn == HandOut(st.conn, info)
  <2>1. res = [st EXCEPT !.server = s3, !.conn = cn]
    BY <1>8 DEF Checked, s
  <2>2. /\ s1 \in Server /\ s1.comparer = s.comparer /\ s1.firstCompare = s.firstCompare
        /\ s1.oldFb = s.oldFb /\ s1.blockCounter = s.blockCounter
        /\ s1.deferTimer = s.deferTimer /\ ~s1.deferPending
    BY <1>5 DEF Server
  <2> HIDE DEF s1
  <2>3. /\ s2 \in Server /\ SameTiming(s1, s2)
        /\ Accounts(s2.comparer, st.fb, base)
        /\ s2.firstCompare \/ s2.oldFb = st.fb
    BY <1>1, <1>3, <1>6, <2>2, CompareIfEnabledResult
  <2> HIDE DEF s2
  <2>4. s2.comparer \in Tracker
    BY <2>3 DEF Server
  <2>5. /\ t3 \in Tracker
        /\ \A pic : Accounts(t3, pic, pic)
    BY <2>4, NormalizeKeeps, ClearTrackerAccounts DEF Keeps
  <2>6. s3 = [s2 EXCEPT !.comparer = t3]
    OBVIOUS
  <2> HIDE DEF t3, s3
  <2>7. /\ s3 \in Server /\ s3.comparer = t3 /\ s3.firstCompare = s2.firstCompare
        /\ s3.oldFb = s2.oldFb /\ SameTiming(s2, s3)
    BY <2>3, <2>5, <2>6 DEF Server, SameTiming
  <2>8. /\ info.changed \in SUBSET Point /\ info.copied \in SUBSET Point
        /\ info.delta \in Point
        /\ info.copied \cap info.changed = {}
        /\ Accounts(info, st.fb, base)
    BY <2>3, <2>4, UpdateInfoAccounts
  <2> HIDE DEF info
  <2>9. /\ cn \in [Clients -> Connection]
        /\ \A c \in Clients :
             /\ SameDemand(st.conn[c], cn[c])
             /\ cn[c].updateTimer = st.conn[c].updateTimer
             /\ cn[c].updates = Replay(st.conn[c].updates, info)
    BY <1>1, <2>8, HandOutResult
  <2> HIDE DEF cn
  <2>10. /\ res \in State /\ res.server = s3 /\ res.conn = cn /\ res.fb = st.fb
         /\ res.mirror = st.mirror /\ res.busy = st.busy
    BY <2>1, <2>7, <2>9 DEF State
  <2>11. ASSUME NEW c \in Clients
         PROVE  Accounts(res.conn[c].updates, st.fb, st.mirror[c])
    <3>1. Accounts(st.conn[c].updates, base, st.mirror[c])
      BY <1>3 DEF Between
    <3>2. Accounts(Replay(st.conn[c].updates, info), st.fb, st.mirror[c])
      BY <1>1, <1>2, <1>4, <2>8, <3>1, ReplayAccounts
    <3> QED BY <2>9, <2>10, <3>2
  <2>12. Between(res, st.fb)
    BY <2>3, <2>5, <2>7, <2>10, <2>11 DEF Between
  <2>13. ASSUME NEW c \in Clients
         PROVE  ClientSound(res.conn[c], res.mirror[c], D)
    <3>1. ClientSound(st.conn[c], st.mirror[c], D)
      BY DEF Sound
    <3>2. st.conn[c].updates.changed \subseteq res.conn[c].updates.changed
      BY <1>1, <2>8, <2>9, <2>10, ReplayGrows
    <3>3. SameDemand(st.conn[c], res.conn[c]) /\ res.mirror[c] = st.mirror[c]
      BY <2>9, <2>10
    <3> QED BY <3>1, <3>2, <3>3 DEF ClientSound, SameDemand
  <2>14. ~res.server.deferPending
    BY <2>2, <2>3, <2>7, <2>10 DEF SameTiming
  <2>15. Sound(res)
    BY <1>2, <2>10, <2>12, <2>13, <2>14 DEF Sound, DeferSound
  <2>16. /\ res.server.blockCounter = st.server.blockCounter
         /\ res.server.deferTimer = st.server.deferTimer
    BY <1>5, <2>2, <2>3, <2>7, <2>10 DEF SameTiming
  <2> QED BY <2>9, <2>10, <2>12, <2>15, <2>16
<1> QED BY <1>7, <1>8

(***************************************************************************)
(* Sending                                                                 *)
(***************************************************************************)
\* What a viewer shows when it is up to date, for a request of all there is.
LEMMA WholeUpdateCatchesUp ==
  ASSUME NEW t \in Tracker, NEW new \in Picture, NEW old \in Picture,
         DOMAIN old = DOMAIN new, NEW area, DOMAIN new \subseteq area,
         Accounts(t, new, old)
  PROVE  ApplyUpdate(old, UpdateInfo(t, area), new) = new
<1> DEFINE info == UpdateInfo(t, area)
           res == ApplyUpdate(old, info, new)
<1>1. /\ info.changed = t.changed \cap area
      /\ info.copied = (t.copied \ t.changed) \cap area
      /\ info.delta = t.delta
  BY DEF UpdateInfo
<1> HIDE DEF info
<1>2. ASSUME NEW p \in DOMAIN new
      PROVE  res[p] = new[p]
  <2>1. res[p] = IF p \in info.changed THEN new[p]
                 ELSE IF p \in info.copied THEN old[Shift(p, Negate(info.delta))]
                 ELSE old[p]
    BY DEF ApplyUpdate
  <2>2. CASE p \in t.changed
    BY <1>1, <2>1, <2>2
  <2>3. CASE p \in t.copied \ t.changed
    BY <1>1, <2>1, <2>3 DEF Accounts
  <2>4. CASE p \notin t.changed \cup t.copied
    BY <1>1, <2>1, <2>4 DEF Accounts
  <2> QED BY <2>2, <2>3, <2>4
<1>3. res = [p \in DOMAIN new |-> res[p]]
  BY DEF ApplyUpdate
<1>4. new = [p \in DOMAIN new |-> new[p]]
  BY PictureDomain
<1> HIDE DEF res
<1>5. res = new
  BY <1>2, <1>3, <1>4
<1> QED BY <1>5 DEF res, info

\* c has the size of the framebuffer, and asks for all of it.
AsksForAll(st, c) ==
  DOMAIN st.mirror[c] = DOMAIN st.fb /\ DOMAIN st.fb \subseteq Req(st.conn[c])

\* The end of writeFramebufferUpdate leaves an empty tracker and no request.
LEMMA ServedResult ==
  ASSUME NEW k \in Connection
  PROVE  /\ Served(k) \in Connection
         /\ Served(k).updates = ClearTracker(k.updates)
         /\ Served(k).requested = {}
         /\ Served(k).continuous = k.continuous /\ Served(k).cuRegion = k.cuRegion
         /\ Served(k).needNoData = k.needNoData
         /\ Served(k).updateTimer = k.updateTimer
<1> DEFINE u == ClearTracker(k.updates)
<1>1. k.updates \in Tracker
  BY DEF Connection
<1>2. u \in Tracker /\ {} \in Areas
  BY <1>1, ClearTrackerAccounts DEF Areas
<1>3. Served(k) = [k EXCEPT !.updates = u, !.requested = {}, !.needFake = FALSE]
  BY DEF Served
<1> HIDE DEF u
<1>4. /\ Served(k) \in Connection /\ Served(k).updates = u /\ Served(k).requested = {}
      /\ Served(k).continuous = k.continuous /\ Served(k).cuRegion = k.cuRegion
      /\ Served(k).needNoData = k.needNoData /\ Served(k).updateTimer = k.updateTimer
  BY <1>2, <1>3 DEF Connection
<1> QED BY <1>4 DEF u

\* An update of all that a viewer lacks makes it show the framebuffer.
LEMMA SendResult ==
  ASSUME NEW st \in State, Sound(st), Between(st, st.fb),
         NEW sending \in SUBSET Clients, \A c \in sending : AsksForAll(st, c),
         NEW res, res = Send(st, sending)
  PROVE  /\ res \in State /\ Sound(res)
         /\ res.fb = st.fb /\ res.server = st.server /\ res.busy = st.busy
         /\ \A c \in Clients :
              /\ res.conn[c].updateTimer = st.conn[c].updateTimer
              /\ c \in sending => res.mirror[c] = st.fb
              /\ c \notin sending => /\ SameDemand(st.conn[c], res.conn[c])
                                     /\ res.mirror[c] = st.mirror[c]
<1> DEFINE cn == [c \in Clients |-> IF c \in sending THEN Served(st.conn[c]) ELSE st.conn[c]]
           info(c) == UpdateInfo(st.conn[c].updates, Req(st.conn[c]))
           mi == [c \in Clients |-> IF c \in sending
                                   THEN ApplyUpdate(st.mirror[c], info(c), st.fb)
                                   ELSE st.mirror[c]]
<1>1. /\ st.fb \in Picture /\ st.conn \in [Clients -> Connection]
      /\ st.mirror \in [Clients -> Picture]
  BY DEF State
<1>2. \A c \in Clients : st.conn[c] \in Connection /\ st.conn[c].updates \in Tracker
                         /\ st.mirror[c] \in Picture
  BY <1>1 DEF Connection
<1>3. ASSUME NEW c \in Clients
      PROVE  /\ cn[c] \in Connection
             /\ cn[c].updateTimer = st.conn[c].updateTimer
             /\ c \in sending => cn[c] = Served(st.conn[c])
             /\ c \notin sending => cn[c] = st.conn[c]
  BY <1>2, ServedResult
<1>4. ASSUME NEW c \in Clients
      PROVE  mi[c] = IF c \in sending THEN st.fb ELSE st.mirror[c]
  <2>1. CASE c \in sending
    <3>1. Accounts(st.conn[c].updates, st.fb, st.mirror[c])
      BY DEF Between
    <3>2. DOMAIN st.mirror[c] = DOMAIN st.fb /\ DOMAIN st.fb \subseteq Req(st.conn[c])
      BY <2>1 DEF AsksForAll
    <3>3. ApplyUpdate(st.mirror[c], info(c), st.fb) = st.fb
      BY <1>1, <1>2, <3>1, <3>2, WholeUpdateCatchesUp
    <3> QED BY <2>1, <3>3
  <2>2. CASE c \notin sending
    BY <2>2
  <2> QED BY <2>1, <2>2
<1>5. cn \in [Clients -> Connection]
  BY <1>3
<1>6. mi \in [Clients -> Picture]
  <2>1. \A c \in Clients : mi[c] \in Picture
    BY <1>1, <1>2, <1>4
  <2> QED BY <2>1
<1>7. res = [st EXCEPT !.mirror = mi, !.conn = cn]
  BY DEF Send
<1> HIDE DEF cn, mi
<1>8. /\ res \in State /\ res.conn = cn /\ res.fb = st.fb /\ res.server = st.server
      /\ res.mirror = mi /\ res.busy = st.busy
  BY <1>5, <1>6, <1>7 DEF State
<1>9. ASSUME NEW c \in Clients
      PROVE  /\ Accounts(res.conn[c].updates, st.fb, res.mirror[c])
             /\ ClientSound(res.conn[c], res.mirror[c], DOMAIN st.fb)
  <2>1. CASE c \in sending
    <3>1. /\ res.mirror[c] = st.fb
          /\ res.conn[c] = Served(st.conn[c])
      BY <1>3, <1>4, <1>8, <2>1
    <3>2. Accounts(res.conn[c].updates, st.fb, res.mirror[c])
      BY <1>2, <3>1, ServedResult, ClearTrackerAccounts
    <3>3. ClientSound(st.conn[c], st.mirror[c], DOMAIN st.fb)
      BY DEF Sound
    <3>4. ClientSound(res.conn[c], res.mirror[c], DOMAIN st.fb)
      BY <1>2, <3>1, <3>3, ServedResult DEF ClientSound
    <3> QED BY <3>2, <3>4
  <2>2. CASE c \notin sending
    <3>1. res.mirror[c] = st.mirror[c] /\ res.conn[c] = st.conn[c]
      BY <1>3, <1>4, <1>8, <2>2
    <3> QED BY <3>1 DEF Between, Sound
  <2> QED BY <2>1, <2>2
<1>10. Between(res, st.fb)
  BY <1>8, <1>9 DEF Between
<1>11. Sound(res)
  <2>1. st.fb \in [DOMAIN st.fb -> Color]
    BY <1>1, PictureDomain
  <2> QED BY <1>8, <1>9, <1>10, <2>1 DEF Sound
<1> QED BY <1>3, <1>4, <1>8, <1>11 DEF SameDemand

(***************************************************************************)
(* writeFramebufferUpdate                                                  *)
(***************************************************************************)
LEMMA DataUpdatesResult ==
  ASSUME NEW st \in State, Sound(st),
         NEW ready \in SUBSET Clients, NEW first \in ready, NEW told \in SUBSET Clients,
         \A c \in ready : AsksForAll(st, c),
         NEW res \in DataUpdates(st, ready, first, told)
  PROVE  /\ res \in State /\ Sound(res)
         /\ res.fb = st.fb /\ res.busy = st.busy
         /\ res.server.blockCounter = st.server.blockCounter
         /\ res.server.deferTimer = st.server.deferTimer
         /\ \A c \in Clients :
              /\ res.conn[c].updateTimer = st.conn[c].updateTimer
              /\ \/ SameDemand(st.conn[c], res.conn[c]) /\ res.mirror[c] = st.mirror[c]
                 \/ c \in ready /\ res.mirror[c] = st.fb
         /\ \A c \in ready : \/ res.mirror[c] = st.fb
                             \/ st.server.deferTimer \/ st.server.blockCounter > 0
<1>1. CASE ~CheckUpdateAllowed(st.server, st.fb)
  <2> DEFINE st1 == [st EXCEPT !.conn = EnableCopy(@, ready)]
             st2 == [st1 EXCEPT !.server.comparer = Normalize(@)]
  <2>1. Retracked(st, st1) /\ st1 \in State
    BY EnableCopyRetracks DEF Retracked
  <2>2. st2 = [st EXCEPT !.conn = EnableCopy(@, ready), !.server.comparer = Normalize(@)]
    BY DEF State
  <2>3. res \in Congest(st2, told)
    BY <1>1, <2>2 DEF DataUpdates
  <2> HIDE DEF st1
  <2>4. Retracked(st1, st2) /\ st2 \in State
    BY <2>1, NormalizeComparerRetracks DEF Retracked
  <2> HIDE DEF st2
  <2>5. Retracked(st2, res)
    BY <2>3, <2>4, CongestRetracks
  <2>6. Retracked(st, res)
    BY <2>1, <2>4, <2>5, RetrackedTrans
  <2>7. Sound(res)
    BY <2>6, RetrackedSound
  <2>8. st.server.deferTimer \/ st.server.blockCounter > 0
    <3>1. ~(st.server.blockCounter = 0 /\ CheckDefer(st.server))
      BY <1>1 DEF CheckUpdateAllowed
    <3>2. DeferSound(st.server)
      BY DEF Sound
    <3>3. st.server.blockCounter \in 0 .. MaxBlock
      BY DEF State, Server
    <3> QED BY <3>1, <3>2, <3>3, ParameterAssumption DEF CheckDefer, DeferSound
  <2> QED BY <2>6, <2>7, <2>8 DEF Retracked, SameTiming
<1>2. CASE CheckUpdateAllowed(st.server, st.fb)
  <2> DEFINE st1 == [st EXCEPT !.conn = EnableCopy(@, {first})]
             checked == Checked(st1)
             enabled == [checked EXCEPT !.conn = EnableCopy(@, ready)]
             normal == [enabled EXCEPT !.conn = GetUpdateInfo(@, ready)]
             empty(c) == IsEmpty(UpdateInfo(normal.conn[c].updates, Req(normal.conn[c])))
             sending == {c \in ready : ~empty(c) \/ normal.conn[c].needFake}
             sent == Send(normal, sending)
  <2>1. res \in Congest(sent, told \cup sending)
    BY <1>2 DEF DataUpdates
  <2>2. Retracked(st, st1) /\ st1 \in State
    BY EnableCopyRetracks DEF Retracked
  <2>3. Sound(st1)
    BY <2>2, RetrackedSound
  <2> HIDE DEF st1
  <2>4. /\ checked \in State
        /\ checked.fb = st1.fb /\ checked.mirror = st1.mirror /\ checked.busy = st1.busy
        /\ checked.server.blockCounter = st1.server.blockCounter
        /\ checked.server.deferTimer = st1.server.deferTimer
        /\ \A c \in Clients : /\ SameDemand(st1.conn[c], checked.conn[c])
                              /\ checked.conn[c].updateTimer = st1.conn[c].updateTimer
        /\ Sound(checked) /\ Between(checked, st1.fb)
    BY <2>2, <2>3, CheckedResult
  <2> HIDE DEF checked
  <2>5. Retracked(checked, enabled) /\ enabled \in State
    BY ZenonT(60), <2>4, EnableCopyRetracks DEF Retracked
  <2> HIDE DEF enabled
  <2>6. Retracked(enabled, normal) /\ normal \in State
    BY ZenonT(60), <2>5, GetUpdateInfoRetracks DEF Retracked
  <2> HIDE DEF normal
  <2>7. Retracked(checked, normal)
    BY <2>5, <2>6, RetrackedTrans
  <2>8. Sound(normal) /\ Between(normal, st1.fb)
    BY <2>4, <2>7, RetrackedSound
  <2>9. /\ normal.fb = st.fb /\ normal.mirror = st.mirror /\ normal.busy = st.busy
        /\ normal.server.blockCounter = st.server.blockCounter
        /\ normal.server.deferTimer = st.server.deferTimer
        /\ \A c \in Clients : /\ SameDemand(st.conn[c], normal.conn[c])
                              /\ normal.conn[c].updateTimer = st.conn[c].updateTimer
    BY <2>2, <2>4, <2>7 DEF Retracked, SameTiming, SameDemand
  <2>10. st1.fb = st.fb
    BY <2>2 DEF Retracked
  <2>11. \A c \in ready : AsksForAll(normal, c)
    BY <2>9 DEF AsksForAll, Req, SameDemand
  <2>12. sending \in SUBSET Clients
    OBVIOUS
  <2>13. ASSUME NEW c \in ready, c \notin sending
         PROVE  st.mirror[c] = st.fb
    <3>1. empty(c)
      BY <2>13
    <3> DEFINE t == normal.conn[c].updates
               area == Req(normal.conn[c])
    <3>2. IsEmpty(UpdateInfo(t, area))
      BY <3>1
    <3>3. Accounts(t, st.fb, st.mirror[c])
      BY <2>8, <2>9, <2>10 DEF Between
    <3>4. DOMAIN st.mirror[c] = DOMAIN st.fb /\ DOMAIN st.fb \subseteq area
      BY <2>9, <2>11 DEF AsksForAll
    <3>5. st.fb \in Picture /\ st.mirror[c] \in Picture
      BY DEF State
    <3> HIDE DEF t, area
    <3> QED BY <3>2, <3>3, <3>4, <3>5, EmptyAccount
  <2> HIDE DEF sending, empty
  <2>14. \A c \in sending : c \in ready /\ AsksForAll(normal, c)
    BY <2>11 DEF sending
  <2>15. /\ sent \in State /\ Sound(sent)
         /\ sent.fb = normal.fb /\ sent.server = normal.server /\ sent.busy = normal.busy
         /\ \A c \in Clients :
              /\ sent.conn[c].updateTimer = normal.conn[c].updateTimer
              /\ c \in sending => sent.mirror[c] = normal.fb
              /\ c \notin sending => /\ SameDemand(normal.conn[c], sent.conn[c])
                                     /\ sent.mirror[c] = normal.mirror[c]
    BY <2>6, <2>8, <2>9, <2>10, <2>12, <2>14, SendResult
  <2> HIDE DEF sent
  <2>16. Retracked(sent, res)
    BY <2>1, <2>12, <2>15, CongestRetracks
  <2>17. Sound(res)
    BY <2>15, <2>16, RetrackedSound
  <2>18. /\ res \in State /\ res.fb = st.fb /\ res.busy = st.busy
         /\ res.server.blockCounter = st.server.blockCounter
         /\ res.server.deferTimer = st.server.deferTimer
    BY <2>9, <2>15, <2>16 DEF Retracked, SameTiming
  <2>19. ASSUME NEW c \in Clients
         PROVE  /\ res.conn[c].updateTimer = st.conn[c].updateTimer
                /\ c \in sending => res.mirror[c] = st.fb
                /\ c \notin sending => /\ SameDemand(st.conn[c], res.conn[c])
                                       /\ res.mirror[c] = st.mirror[c]
    BY <2>9, <2>15, <2>16 DEF Retracked, SameDemand
  <2> QED BY <2>13, <2>14, <2>17, <2>18, <2>19
<1> QED BY <1>1, <1>2

\* Stale and the events NoLostWakeup lists, of any state.
StaleIn(st, c) == Wants(st.conn[c]) /\ st.mirror[c] # st.fb

Attended(st, c) == \/ st.conn[c].updateTimer
                   \/ st.server.deferTimer
                   \/ st.server.blockCounter > 0
                   \/ st.busy = c

\* A viewer that asks, and has the size, asks for everything.
LEMMA AskingForAll ==
  ASSUME NEW st, Sound(st), NEW c \in Clients, Wants(st.conn[c]),
         st.conn[c].needNoData => st.conn[c].continuous
  PROVE  AsksForAll(st, c)
<1>1. ClientSound(st.conn[c], st.mirror[c], DOMAIN st.fb)
  BY DEF Sound
<1> QED BY <1>1 DEF ClientSound, AsksForAll, Wants, Req

\* What writeFramebufferUpdate, of the clients in S, may leave behind.
Written(st, res, S) ==
  /\ res \in State /\ Sound(res)
  /\ res.fb = st.fb /\ res.busy = st.busy
  /\ res.server.blockCounter = st.server.blockCounter
  /\ res.server.deferTimer = st.server.deferTimer
  /\ \A c \in Clients :
       /\ \/ res.mirror[c] = st.mirror[c]
          \/ res.mirror[c] = st.fb
          \/ DOMAIN res.mirror[c] # DOMAIN st.mirror[c]
       /\ c \in S => (StaleIn(res, c) => Attended(res, c))
       /\ c \notin S => /\ StaleIn(res, c) => StaleIn(st, c)
                        /\ Attended(st, c) => Attended(res, c)

\* writeFramebufferUpdate, for any set of clients: they are served, or something is left
\* that will call it again.
LEMMA WritesResult ==
  ASSUME NEW st \in State, Sound(st), NEW S \in SUBSET Clients, NEW res \in Writes(st, S)
  PROVE  Written(st, res, S)
<1> DEFINE willing == {c \in S \ {st.busy} : Wants(st.conn[c])}
           held == {c \in willing : st.conn[c].congested}
           told == {c \in willing \ held : st.conn[c].needNoData}
           ready == {c \in willing \ held : c \in told => st.conn[c].continuous}
           back == HeldBack(st, S, held)
           polled == AnnounceSize(back, told)
<1>1. /\ willing \in SUBSET Clients /\ held \in SUBSET Clients
      /\ told \in SUBSET Clients /\ ready \in SUBSET Clients
  OBVIOUS
<1>2. IF ready = {} THEN res \in Congest(polled, told)
      ELSE \E first \in ready : res \in DataUpdates(polled, ready, first, told)
  BY DEF Writes, HeldBack
<1>3. /\ \A c \in Clients : c \in willing <=> c \in S /\ c # st.busy /\ Wants(st.conn[c])
      /\ \A c \in Clients : c \in told <=> c \in willing \ held /\ st.conn[c].needNoData
      /\ \A c \in Clients : c \in ready <=>
            c \in willing \ held /\ (st.conn[c].needNoData => st.conn[c].continuous)
      /\ held \subseteq willing
  OBVIOUS
<1> HIDE DEF willing, held, told, ready, back
<1>4. /\ back \in State /\ back.fb = st.fb /\ back.server = st.server
      /\ back.mirror = st.mirror /\ back.busy = st.busy
      /\ \A c \in Clients :
           /\ SameDemand(st.conn[c], back.conn[c])
           /\ back.conn[c].updates = st.conn[c].updates
           /\ c \in S => (back.conn[c].updateTimer <=> c \in held)
           /\ c \notin S => back.conn[c].updateTimer = st.conn[c].updateTimer
      /\ Sound(back)
  <2>1. Waiting(st, back, S, held)
    BY <1>1, HoldBackResult DEF back
  <2> QED BY <2>1 DEF Waiting
<1>5. /\ polled \in State /\ polled.fb = st.fb /\ polled.server = st.server
      /\ polled.busy = st.busy
      /\ \A c \in Clients :
           /\ polled.conn[c].updateTimer = back.conn[c].updateTimer
           /\ polled.conn[c].continuous = back.conn[c].continuous
           /\ c \in told => polled.conn[c].requested = {} /\ ~polled.conn[c].needNoData
           /\ c \notin told => /\ SameDemand(back.conn[c], polled.conn[c])
                               /\ polled.mirror[c] = back.mirror[c]
           /\ DOMAIN back.mirror[c] = DOMAIN back.fb => polled.mirror[c] = back.mirror[c]
           /\ c \in told => DOMAIN polled.mirror[c] = DOMAIN back.fb
      /\ Sound(polled)
  BY <1>1, <1>4, AnnounceSizeResult
<1> HIDE DEF polled
<1>6. ASSUME NEW c \in ready
      PROVE  AsksForAll(polled, c)
  <2>1. c \in Clients /\ c \in willing
    BY <1>1, <1>3
  <2>2. Wants(st.conn[c])
    BY <1>3, <2>1
  <2>3. Wants(polled.conn[c]) /\ (polled.conn[c].needNoData => polled.conn[c].continuous)
    <3>1. CASE c \in told
      BY <1>4, <1>3, <1>5, <2>1, <3>1 DEF Wants, SameDemand
    <3>2. CASE c \notin told
      BY <1>4, <1>3, <1>5, <2>1, <2>2, <3>2 DEF Wants, SameDemand
    <3> QED BY <3>1, <3>2
  <2> QED BY <1>5, <2>1, <2>3, AskingForAll
<1>7. /\ res \in State /\ Sound(res)
      /\ res.fb = st.fb /\ res.busy = st.busy
      /\ res.server.blockCounter = st.server.blockCounter
      /\ res.server.deferTimer = st.server.deferTimer
      /\ \A c \in Clients :
           /\ res.conn[c].updateTimer = polled.conn[c].updateTimer
           /\ \/ SameDemand(polled.conn[c], res.conn[c]) /\ res.mirror[c] = polled.mirror[c]
              \/ c \in ready /\ res.mirror[c] = st.fb
      /\ \A c \in ready : \/ res.mirror[c] = st.fb
                          \/ st.server.deferTimer \/ st.server.blockCounter > 0
  <2>1. CASE ready = {}
    <3>1. Retracked(polled, res)
      BY <1>1, <1>2, <1>5, <2>1, CongestRetracks
    <3>2. Sound(res)
      BY <1>5, <3>1, RetrackedSound
    <3> QED BY <1>5, <2>1, <3>1, <3>2 DEF Retracked, SameTiming
  <2>2. CASE ready # {}
    <3>1. PICK first \in ready : res \in DataUpdates(polled, ready, first, told)
      BY <1>2, <2>2
    <3>2. /\ res \in State /\ Sound(res)
          /\ res.fb = polled.fb /\ res.busy = polled.busy
          /\ res.server.blockCounter = polled.server.blockCounter
          /\ res.server.deferTimer = polled.server.deferTimer
          /\ \A c \in Clients :
               /\ res.conn[c].updateTimer = polled.conn[c].updateTimer
               /\ \/ SameDemand(polled.conn[c], res.conn[c]) /\ res.mirror[c] = polled.mirror[c]
                  \/ c \in ready /\ res.mirror[c] = polled.fb
          /\ \A c \in ready : \/ res.mirror[c] = polled.fb
                              \/ polled.server.deferTimer \/ polled.server.blockCounter > 0
      BY <1>1, <1>5, <1>6, <3>1, DataUpdatesResult
    <3> QED BY <1>5, <3>2
  <2> QED BY <2>1, <2>2
<1>8. ASSUME NEW c \in Clients
      PROVE  \/ res.mirror[c] = st.mirror[c]
             \/ res.mirror[c] = st.fb
             \/ DOMAIN res.mirror[c] # DOMAIN st.mirror[c]
  <2>1. res.mirror[c] = polled.mirror[c] \/ res.mirror[c] = st.fb
    BY <1>7
  <2>2. \/ polled.mirror[c] = st.mirror[c]
        \/ /\ DOMAIN st.mirror[c] # DOMAIN st.fb
           /\ DOMAIN polled.mirror[c] = DOMAIN st.fb
    BY <1>4, <1>5
  <2> QED BY <2>1, <2>2
<1>9. ASSUME NEW c \in S, StaleIn(res, c)
      PROVE  Attended(res, c)
  <2>1. c \in Clients
    OBVIOUS
  <2>2. Wants(res.conn[c]) /\ res.mirror[c] # st.fb
    BY <1>7, <1>9 DEF StaleIn
  <2>3. SameDemand(polled.conn[c], res.conn[c])
    BY <1>7, <2>1, <2>2
  <2>4. Wants(polled.conn[c])
    BY <2>2, <2>3 DEF Wants, SameDemand
  <2>5. CASE c = st.busy
    BY <1>7, <2>5 DEF Attended
  <2>6. CASE c # st.busy
    <3>1. Wants(st.conn[c])
      BY <1>4, <1>5, <2>1, <2>4 DEF Wants, SameDemand
    <3>2. c \in willing
      BY <1>3, <2>1, <2>6, <3>1
    <3>3. CASE c \in held
      <4>1. res.conn[c].updateTimer
        BY <1>4, <1>5, <1>7, <2>1, <3>3
      <4> QED BY <4>1 DEF Attended
    <3>4. CASE c \in ready
      BY <1>7, <2>2, <3>4 DEF Attended
    <3>5. CASE c \notin held /\ c \notin ready
      <4>1. c \in told /\ ~st.conn[c].continuous
        BY <1>3, <2>1, <3>2, <3>5
      <4>2. polled.conn[c].requested = {} /\ ~polled.conn[c].continuous
        BY <1>4, <1>5, <2>1, <4>1 DEF SameDemand
      <4> QED BY <2>4, <4>2 DEF Wants
    <3> QED BY <3>3, <3>4, <3>5
  <2> QED BY <2>5, <2>6
<1>10. ASSUME NEW c \in Clients, c \notin S
       PROVE  /\ StaleIn(res, c) => StaleIn(st, c)
              /\ Attended(st, c) => Attended(res, c)
  <2>1. c \notin willing /\ c \notin told /\ c \notin ready
    BY <1>3, <1>10
  <2>2. /\ SameDemand(polled.conn[c], res.conn[c]) /\ res.mirror[c] = polled.mirror[c]
        /\ res.conn[c].updateTimer = st.conn[c].updateTimer
    BY <1>4, <1>5, <1>7, <1>10, <2>1
  <2>3. SameDemand(st.conn[c], res.conn[c]) /\ res.mirror[c] = st.mirror[c]
    BY <1>4, <1>5, <2>1, <2>2 DEF SameDemand
  <2> QED BY <1>7, <2>2, <2>3 DEF StaleIn, Attended, Wants, SameDemand
<1> QED BY <1>7, <1>8, <1>9, <1>10 DEF Written

\* tryUpdate: whoever it does not serve has something else to wait for.
LEMMA TryUpdateResult ==
  ASSUME NEW st \in State, Sound(st), NEW res \in TryUpdate(st)
  PROVE  Written(st, res, Clients)
<1>1. CASE st.server.blockCounter > 0 \/ ~CheckDefer(st.server)
  <2>1. res = st
    BY <1>1 DEF TryUpdate
  <2>2. st.server.blockCounter > 0 \/ st.server.deferTimer
    BY <1>1 DEF CheckDefer, Sound, DeferSound
  <2> QED BY <2>1, <2>2 DEF Written, Attended
<1>2. CASE ~(st.server.blockCounter > 0 \/ ~CheckDefer(st.server))
  BY <1>2, WritesResult DEF TryUpdate
<1> QED BY <1>1, <1>2

(***************************************************************************)
(* The inductive invariant, and what each action does to it                *)
(***************************************************************************)
\* A viewer asks for all it knows of, and its area of continuous updates follows
\* the size of the framebuffer.
WholeRequests == ~OldSizeRequests /\ ~({"resize", "continuous"} \subseteq Events)

Inv == /\ Now \in State
       /\ Sound(Now)
       /\ \A c \in Clients : StaleIn(Now, c) => Attended(Now, c)

NotTorn == \A c \in Clients :
             mirror'[c] # mirror[c] /\ DOMAIN mirror'[c] = DOMAIN mirror[c]
             => mirror'[c] = fb'

\* What a call has made of the record is what the variables are next.
LEMMA BecomeNow ==
  ASSUME NEW st \in State, Become(st)
  PROVE  Now' = st
BY DEF Become, Now, State

\* A step that only changes what nobody waits for.
LEMMA QuietStep ==
  ASSUME NEW st \in State, Now' = st, mirror' = mirror, Sound(st),
         \A c \in Clients : StaleIn(st, c) => Attended(st, c)
  PROVE  Inv' /\ NotTorn
<1>1. Now' \in State /\ Sound(Now') /\ \A c \in Clients : StaleIn(Now', c) => Attended(Now', c)
  OBVIOUS
<1> QED BY <1>1 DEF Inv, NotTorn

\* A step that ends with writeFramebufferUpdate of the clients of S.
LEMMA WritingStep ==
  ASSUME NEW st \in State, st.mirror = mirror, NEW S \in SUBSET Clients,
         \A c \in Clients \ S : StaleIn(st, c) => Attended(st, c),
         NEW res, Written(st, res, S), Become(res)
  PROVE  Inv' /\ NotTorn
<1>1. res \in State /\ Sound(res) /\ Now' = res
  BY BecomeNow DEF Written
<1>2. \A c \in Clients : StaleIn(res, c) => Attended(res, c)
  BY DEF Written
<1>3. Inv'
  <2>1. Now' \in State /\ Sound(Now')
        /\ \A c \in Clients : StaleIn(Now', c) => Attended(Now', c)
    BY <1>1, <1>2
  <2> QED BY <2>1 DEF Inv
<1>4. mirror' = res.mirror /\ fb' = res.fb
  BY DEF Become
<1>5. NotTorn
  BY <1>4 DEF Written, NotTorn
<1> QED BY <1>3, <1>5

\* startDefer may start the timer; it leaves the comparer alone.
LEMMA StartDeferResult ==
  ASSUME NEW s \in Server
  PROVE  /\ StartDefer(s) \in Server
         /\ DeferSound(s) => DeferSound(StartDefer(s))
         /\ StartDefer(s).comparer = s.comparer
         /\ StartDefer(s).firstCompare = s.firstCompare
         /\ StartDefer(s).oldFb = s.oldFb
BY DEF StartDefer, Server, DeferSound

\* add_changed or add_copied of the desktop, for a true report.
LEMMA ReportInv ==
  ASSUME Inv, NEW pic \in Picture, DOMAIN pic = DOMAIN fb,
         NEW comparer \in Tracker,
         \A old : Accounts(server.comparer, fb, old) => Accounts(comparer, pic, old),
         Report(pic, comparer)
  PROVE  Inv' /\ NotTorn
<1> DEFINE s1 == [server EXCEPT !.comparer = comparer]
           s2 == StartDefer(s1)
           st == [Now EXCEPT !.fb = pic, !.server = s2]
<1>1. PICK res \in TryUpdate(st) : Become(res)
  <2>1. st = [Now EXCEPT !.fb = pic,
                         !.server = StartDefer([@ EXCEPT !.comparer = comparer])]
    BY NowState
  <2> QED BY <2>1 DEF Report
<1>2. Now \in State /\ Sound(Now) /\ server \in Server
  BY NowState DEF Inv, State
<1>3. /\ s1 \in Server /\ s1.comparer = comparer /\ SameTiming(server, s1)
      /\ s1.firstCompare = server.firstCompare /\ s1.oldFb = server.oldFb
  BY <1>2 DEF Server, SameTiming
<1> HIDE DEF s1
<1>4. /\ s2 \in Server /\ s2.comparer = comparer
      /\ s2.firstCompare = server.firstCompare /\ s2.oldFb = server.oldFb
      /\ DeferSound(s1) => DeferSound(s2)
  BY <1>3, StartDeferResult
<1>5. DeferSound(s2)
  BY <1>2, <1>3, <1>4, NowState DEF Sound, DeferSound, SameTiming
<1> HIDE DEF s2
<1>6. /\ st \in State /\ st.fb = pic /\ st.server = s2 /\ st.conn = conn
      /\ st.mirror = mirror /\ st.busy = busy
  BY <1>2, <1>4 DEF State, Now
<1> HIDE DEF st
<1>7. Sound(st)
  <2>1. PICK base \in [DOMAIN fb -> Color] : Between(Now, base)
    BY <1>2, NowState DEF Sound
  <2>2. /\ Accounts(server.comparer, fb, base)
        /\ server.firstCompare \/ server.oldFb = base
        /\ \A c \in Clients : Accounts(conn[c].updates, base, mirror[c])
    BY <2>1, NowState DEF Between
  <2>3. Between(st, base)
    BY <1>4, <1>6, <2>2 DEF Between
  <2>4. \A c \in Clients : ClientSound(st.conn[c], st.mirror[c], DOMAIN st.fb)
    BY <1>2, <1>6, NowState DEF Sound
  <2> QED BY <1>5, <1>6, <2>3, <2>4 DEF Sound
<1>8. Written(st, res, Clients)
  BY <1>1, <1>6, <1>7, TryUpdateResult
<1> QED BY <1>1, <1>6, <1>8, WritingStep

\* The reported pixel is the only one that is drawn.
LEMMA DrawInv ==
  ASSUME Inv, Draw
  PROVE  Inv' /\ NotTorn
<1>1. PICK p \in DOMAIN fb, color \in Color :
         Report([fb EXCEPT ![p] = color], AddChanged(server.comparer, {p}))
  BY DEF Draw
<1> DEFINE pic == [fb EXCEPT ![p] = color]
           t == server.comparer
<1>2. fb \in Picture /\ t \in Tracker
  BY NowState DEF Inv, State, Server
<1>3. DOMAIN fb \in Screens /\ DOMAIN fb \subseteq Point /\ fb \in [DOMAIN fb -> Color]
  BY <1>2, PictureDomain
<1>4. pic \in [DOMAIN fb -> Color] /\ DOMAIN pic = DOMAIN fb
  BY <1>3
<1>5. pic \in Picture
  BY <1>3, <1>4, PictureDomain
<1>6. {p} \in SUBSET Point
  BY <1>3
<1>7. \A q \in DOMAIN fb : q \notin {p} => pic[q] = fb[q]
  BY <1>3
<1>8. AddChanged(t, {p}) \in Tracker
  BY <1>2, <1>6, AddChangedType
<1> HIDE DEF pic, t
<1>9. \A old : Accounts(t, fb, old) => Accounts(AddChanged(t, {p}), pic, old)
  BY <1>2, <1>4, <1>6, <1>7, AddChangedAccounts
<1>10. Report(pic, AddChanged(t, {p}))
  BY <1>1 DEF pic, t
<1> QED BY <1>4, <1>5, <1>8, <1>9, <1>10, ReportInv DEF t

\* What is reported as copied was moved there.
LEMMA ScrollInv ==
  ASSUME Inv, Scroll
  PROVE  Inv' /\ NotTorn
<1> DEFINE dest(d) == Translate(DOMAIN fb, d) \cap DOMAIN fb
           pic(d) == [p \in DOMAIN fb |->
                        IF p \in dest(d) THEN fb[Shift(p, Negate(d))] ELSE fb[p]]
           t == server.comparer
<1>1. PICK d \in Delta : Report(pic(d), AddCopied(t, dest(d), d))
  BY DEF Scroll
<1>2. fb \in Picture /\ t \in Tracker /\ d \in Point
  BY NowState, DeltaAssumption DEF Inv, State, Server
<1>3. DOMAIN fb \in Screens /\ DOMAIN fb \subseteq Point /\ fb \in [DOMAIN fb -> Color]
  BY <1>2, PictureDomain
<1>4. \A p \in dest(d) : p \in DOMAIN fb /\ Shift(p, Negate(d)) \in DOMAIN fb
  BY <1>2, <1>3, TranslateElement
<1>5. pic(d) \in [DOMAIN fb -> Color] /\ DOMAIN pic(d) = DOMAIN fb
  BY <1>3, <1>4
<1>6. pic(d) \in Picture
  BY <1>3, <1>5, PictureDomain
<1>7. dest(d) \in SUBSET Point
  BY <1>3
<1>8. /\ \A p \in DOMAIN fb : p \notin dest(d) => pic(d)[p] = fb[p]
      /\ \A p \in DOMAIN fb : p \in dest(d) =>
            /\ Shift(p, Negate(d)) \in DOMAIN fb
            /\ pic(d)[p] = fb[Shift(p, Negate(d))]
  BY <1>4
<1> DEFINE image == pic(d)
           target == dest(d)
<1>9. AddCopied(t, target, d) \in Tracker
  BY <1>2, <1>7, AddCopiedType
<1>10. /\ image \in Picture /\ DOMAIN image = DOMAIN fb /\ target \in SUBSET Point
       /\ Report(image, AddCopied(t, target, d))
  BY <1>1, <1>5, <1>6, <1>7
<1>11. /\ \A p \in DOMAIN fb : p \notin target => image[p] = fb[p]
       /\ \A p \in DOMAIN fb : p \in target =>
             /\ Shift(p, Negate(d)) \in DOMAIN fb
             /\ image[p] = fb[Shift(p, Negate(d))]
  BY <1>8
<1> HIDE DEF image, target, t
<1>12. \A old : Accounts(t, fb, old) => Accounts(AddCopied(t, target, d), image, old)
  BY <1>2, <1>3, <1>10, <1>11, AddCopiedAccounts
<1> QED BY <1>9, <1>10, <1>12, ReportInv DEF t

\* Every tracker has the whole screen at the start.
LEMMA InitInv ==
  ASSUME Init
  PROVE  Inv
<1> DEFINE D == FirstScreen
           t(enable) == AddChanged(NewTracker(enable), D)
<1>1. D \in Screens /\ D \in SUBSET Point /\ D \in Areas
  BY ScreensAssumption DEF Areas
<1>2. ASSUME NEW enable \in BOOLEAN
      PROVE  t(enable) \in Tracker /\ D \subseteq t(enable).changed
  <2>1. <<0, 0>> \in Point
    BY DEF Point
  <2>2. NewTracker(enable) \in Tracker
    BY <2>1 DEF NewTracker, Tracker
  <2> QED BY <1>1, <2>2, AddChangedType
<1> HIDE DEF t
<1>3. ASSUME NEW u, D \subseteq u.changed, NEW new, NEW old, DOMAIN new = D
      PROVE  Accounts(u, new, old)
  BY <1>3 DEF Accounts
<1>4. /\ fb \in [D -> Color] /\ fb \in Picture /\ DOMAIN fb = D
  <2>1. fb \in [D -> Color]
    BY DEF Init
  <2> QED BY <1>1, <2>1, PictureDomain
<1>5. /\ server \in Server /\ server.comparer = t(TRUE) /\ server.firstCompare
      /\ ~server.deferPending
  <2>1. server = [comparer |-> t(TRUE), oldFb |-> fb,
               firstCompare |-> TRUE, blockCounter |-> 0,
               deferPending |-> FALSE, deferOver |-> FALSE, deferTimer |-> FALSE]
    BY DEF Init, NewComparer, t
  <2>2. 0 \in 0 .. MaxBlock
    BY ParameterAssumption
  <2> QED BY <1>2, <1>4, <2>1, <2>2 DEF Server
<1>6. ASSUME NEW c \in Clients
      PROVE  /\ conn[c] \in Connection /\ conn[c].updates = t(FALSE)
             /\ conn[c].requested = {} /\ ~conn[c].continuous /\ ~conn[c].needNoData
  <2>1. conn[c] = [updates |-> t(FALSE),
                   requested |-> {}, continuous |-> FALSE, cuRegion |-> {},
                   useCopyRect |-> FALSE, wantsCompare |-> TRUE,
                   congested |-> FALSE, updateTimer |-> FALSE,
                   needFake |-> FALSE, needNoData |-> FALSE]
    BY DEF Init, t
  <2>2. {} \in Areas
    BY DEF Areas
  <2>3. t(FALSE) \in Tracker
    BY <1>2
  <2> DEFINE u == t(FALSE)
             k == conn[c]
  <2>4. /\ u \in Tracker
        /\ k = [updates |-> u,
                requested |-> {}, continuous |-> FALSE, cuRegion |-> {},
                useCopyRect |-> FALSE, wantsCompare |-> TRUE,
                congested |-> FALSE, updateTimer |-> FALSE,
                needFake |-> FALSE, needNoData |-> FALSE]
    BY <2>1, <2>3
  <2> HIDE DEF u, k
  <2>5. /\ k \in Connection /\ k.updates = u
        /\ k.requested = {} /\ ~k.continuous /\ ~k.needNoData
    BY <2>2, <2>4 DEF Connection
  <2> QED BY <2>5 DEF u, k
<1>7. ASSUME NEW c \in Clients
      PROVE  mirror[c] \in Picture /\ DOMAIN mirror[c] = D
  <2>1. mirror[c] = [p \in D |-> Blank]
    BY DEF Init
  <2>2. mirror[c] \in [D -> Color]
    BY <2>1, ColorAssumption
  <2> QED BY <1>1, <2>2, PictureDomain
<1>8. TypeOK
  <2>1. conn \in [Clients -> Connection]
    <3>1. conn = [c \in Clients |-> conn[c]]
      BY DEF Init
    <3> QED BY <1>6, <3>1
  <2>2. mirror \in [Clients -> Picture]
    <3>1. mirror = [c \in Clients |-> [p \in D |-> Blank]]
      BY DEF Init
    <3>2. \A c \in Clients : [p \in D |-> Blank] \in Picture
      BY <1>7, <3>1
    <3> QED BY <3>1, <3>2
  <2>3. busy = NoClient
    BY DEF Init
  <2> QED BY <1>4, <1>5, <2>1, <2>2, <2>3 DEF TypeOK
<1>9. Between(Now, fb)
  <2>1. D \subseteq t(TRUE).changed /\ D \subseteq t(FALSE).changed
    BY <1>2
  <2>2. Accounts(server.comparer, fb, fb)
    BY <1>3, <1>4, <1>5, <2>1
  <2>3. \A c \in Clients : Accounts(conn[c].updates, fb, mirror[c])
    BY <1>3, <1>4, <1>6, <2>1
  <2> QED BY <1>5, <2>2, <2>3, NowState DEF Between
<1>10. ASSUME NEW c \in Clients
       PROVE  ClientSound(Now.conn[c], Now.mirror[c], DOMAIN Now.fb)
  BY <1>4, <1>6, <1>7, NowState DEF ClientSound
<1>11. DeferSound(Now.server)
  BY <1>5, NowState DEF DeferSound
<1>12. \A c \in Clients : ~StaleIn(Now, c)
  BY <1>6, NowState DEF StaleIn, Wants
<1> QED BY <1>4, <1>8, <1>9, <1>10, <1>11, <1>12, NowState DEF Inv, Sound

\* blockUpdates keeps the invariant.
LEMMA BlockUpdatesInv ==
  ASSUME Inv, BlockUpdates
  PROVE  Inv' /\ NotTorn
<1> DEFINE s == [server EXCEPT !.blockCounter = @ + 1]
           st == [Now EXCEPT !.server = s]
<1>1. Now \in State /\ server \in Server /\ MaxBlock \in Nat
  BY NowState, ParameterAssumption DEF Inv, State
<1>2. /\ s \in Server /\ s.comparer = server.comparer /\ s.firstCompare = server.firstCompare
      /\ s.oldFb = server.oldFb /\ s.deferPending = server.deferPending
      /\ s.deferOver = server.deferOver /\ s.blockCounter > 0
  <2>1. server.blockCounter \in 0 .. MaxBlock /\ server.blockCounter < MaxBlock
    BY <1>1 DEF BlockUpdates, Server
  <2>2. server.blockCounter + 1 \in 0 .. MaxBlock /\ server.blockCounter + 1 > 0
    BY <1>1, <2>1
  <2>3. s.blockCounter = server.blockCounter + 1
    BY <1>1 DEF Server
  <2> QED BY <1>1, <2>2, <2>3 DEF Server
<1>3. s.deferTimer = server.deferTimer
  BY <1>1 DEF Server
<1>4. server' = s
  BY DEF BlockUpdates
<1> HIDE DEF s
<1>5. /\ st \in State /\ st.fb = fb /\ st.server = s /\ st.conn = conn
      /\ st.mirror = mirror /\ st.busy = busy /\ Now' = st
  BY <1>1, <1>2, <1>4 DEF State, Now, BlockUpdates
<1> HIDE DEF st
<1>6. Sound(st)
  <2>1. \A base : Between(Now, base) => Between(st, base)
    BY <1>2, <1>5, NowState DEF Between
  <2>2. DeferSound(st.server)
    BY <1>2, <1>3, <1>5, NowState DEF Inv, Sound, DeferSound
  <2> QED BY <1>5, <2>1, <2>2, NowState DEF Inv, Sound
<1>7. \A c \in Clients : StaleIn(st, c) => Attended(st, c)
  BY <1>2, <1>5 DEF Attended
<1>8. mirror' = mirror
  BY DEF BlockUpdates
<1> QED BY <1>5, <1>6, <1>7, <1>8, QuietStep

\* res is st, except for timers, blocking, who is busy, and what is queued.
Retimed(st, res) ==
  /\ res \in State
  /\ res.fb = st.fb /\ res.mirror = st.mirror
  /\ res.server.comparer = st.server.comparer
  /\ res.server.firstCompare = st.server.firstCompare
  /\ res.server.oldFb = st.server.oldFb
  /\ DeferSound(res.server)
  /\ \A c \in Clients :
       /\ res.conn[c].updates = st.conn[c].updates
       /\ res.conn[c].requested = st.conn[c].requested
       /\ res.conn[c].continuous = st.conn[c].continuous
       /\ res.conn[c].cuRegion = st.conn[c].cuRegion
       /\ st.conn[c].needNoData => res.conn[c].needNoData

\* Timers do not matter to the pictures.
LEMMA RetimedSound ==
  ASSUME NEW st, NEW res, Retimed(st, res), Sound(st)
  PROVE  Sound(res)
<1>1. \A base : Between(st, base) => Between(res, base)
  BY DEF Retimed, Between
<1>2. ASSUME NEW c \in Clients, ClientSound(st.conn[c], st.mirror[c], DOMAIN st.fb)
      PROVE  ClientSound(res.conn[c], res.mirror[c], DOMAIN res.fb)
  BY <1>2 DEF Retimed, ClientSound
<1>3. res.fb = st.fb /\ DeferSound(res.server)
  BY DEF Retimed
<1> QED BY <1>1, <1>2, <1>3 DEF Sound

\* A state given by the five variables.
At(f, s, cn, m, b) == [fb |-> f, server |-> s, conn |-> cn, mirror |-> m, busy |-> b]

\* The record made of its five parts.
LEMMA AtState ==
  ASSUME NEW f \in Picture, NEW s \in Server, NEW cn \in [Clients -> Connection],
         NEW m \in [Clients -> Picture], NEW b \in Clients \cup {NoClient}
  PROVE  /\ At(f, s, cn, m, b) \in State
         /\ At(f, s, cn, m, b).fb = f /\ At(f, s, cn, m, b).server = s
         /\ At(f, s, cn, m, b).conn = cn /\ At(f, s, cn, m, b).mirror = m
         /\ At(f, s, cn, m, b).busy = b
BY DEF At, State

\* The server's record with other timers only.
LEMMA RetimedServer ==
  ASSUME Inv, NEW s \in Server,
         s.comparer = server.comparer, s.firstCompare = server.firstCompare,
         s.oldFb = server.oldFb, DeferSound(s)
  PROVE  LET st == At(fb, s, conn, mirror, busy)
         IN /\ Retimed(Now, st) /\ st \in State /\ Sound(st)
            /\ st.server = s /\ st.conn = conn /\ st.mirror = mirror /\ st.busy = busy
<1> DEFINE st == At(fb, s, conn, mirror, busy)
<1>1. TypeOK /\ Sound(Now)
  BY NowState DEF Inv
<1>2. /\ st \in State /\ st.fb = fb /\ st.server = s /\ st.conn = conn
      /\ st.mirror = mirror /\ st.busy = busy
  BY <1>1, AtState DEF TypeOK
<1> HIDE DEF st
<1>3. Retimed(Now, st)
  BY <1>2, NowState DEF Retimed
<1>4. Sound(st)
  BY <1>1, <1>3, RetimedSound
<1> QED BY <1>2, <1>3, <1>4 DEF st

\* Whoever waited for the end of blocking is served, or waits for the defer timer.
LEMMA UnblockUpdatesInv ==
  ASSUME Inv, UnblockUpdates
  PROVE  Inv' /\ NotTorn
<1> DEFINE s == [server EXCEPT !.blockCounter = @ - 1]
           st == At(fb, s, conn, mirror, busy)
<1>1. Now \in State /\ Sound(Now) /\ server \in Server /\ MaxBlock \in Nat
  BY NowState, ParameterAssumption DEF Inv, State
<1>2. PICK res \in TryUpdate(st) : Become(res)
  <2>1. st = [Now EXCEPT !.server.blockCounter = @ - 1]
    BY DEF Now, At
  <2> QED BY <2>1 DEF UnblockUpdates
<1>3. /\ s \in Server /\ s.comparer = server.comparer /\ s.firstCompare = server.firstCompare
      /\ s.oldFb = server.oldFb /\ s.deferPending = server.deferPending
      /\ s.deferOver = server.deferOver /\ s.deferTimer = server.deferTimer
  <2>1. server.blockCounter \in 0 .. MaxBlock /\ server.blockCounter > 0
    BY <1>1 DEF UnblockUpdates, Server
  <2>2. server.blockCounter - 1 \in 0 .. MaxBlock
    BY <1>1, <2>1
  <2> QED BY <1>1, <2>2 DEF Server
<1> HIDE DEF s
<1>4. DeferSound(s)
  BY <1>1, <1>3, NowState DEF Sound, DeferSound
<1>5. st \in State /\ Sound(st) /\ st.mirror = mirror
  BY <1>3, <1>4, RetimedServer
<1> HIDE DEF st
<1>6. Written(st, res, Clients)
  BY <1>2, <1>5, TryUpdateResult
<1> QED BY <1>2, <1>5, <1>6, WritingStep

\* Time passes.
LEMMA TickInv ==
  ASSUME Inv, Tick
  PROVE  Inv' /\ NotTorn
<1> DEFINE s == [server EXCEPT !.deferOver = TRUE]
           st == At(fb, s, conn, mirror, busy)
<1>1. Now \in State /\ Sound(Now) /\ server \in Server
  BY NowState DEF Inv, State
<1>2. /\ s \in Server /\ s.comparer = server.comparer /\ s.firstCompare = server.firstCompare
      /\ s.oldFb = server.oldFb /\ s.blockCounter = server.blockCounter
      /\ s.deferTimer /\ DeferSound(s)
  BY <1>1 DEF Server, Tick, DeferSound
<1>3. server' = s
  BY DEF Tick
<1> HIDE DEF s
<1>4. st \in State /\ Sound(st) /\ st.server = s
  BY <1>2, RetimedServer
<1>5. Now' = st
  BY <1>3 DEF Tick, Now, At
<1> HIDE DEF st
<1>6. \A c \in Clients : Attended(st, c)
  BY <1>2, <1>4 DEF Attended
<1>7. mirror' = mirror
  BY DEF Tick
<1> QED BY <1>4, <1>5, <1>6, <1>7, QuietStep

\* The timer has run out, and with it the deferral: tryUpdate serves everybody it can.
LEMMA DeferTimeoutInv ==
  ASSUME Inv, DeferTimeout
  PROVE  Inv' /\ NotTorn
<1> DEFINE s == [server EXCEPT !.deferTimer = FALSE]
           st == At(fb, s, conn, mirror, busy)
<1>1. Now \in State /\ Sound(Now) /\ server \in Server
  BY NowState DEF Inv, State
<1>2. PICK res \in TryUpdate(st) : Become(res)
  <2>1. s = [Now.server EXCEPT !.deferTimer = FALSE]
    BY NowState
  <2> HIDE DEF s
  <2>2. st = [Now EXCEPT !.server = s]
    BY DEF Now, At
  <2>3. st = [Now EXCEPT !.server.deferTimer = FALSE]
    BY <2>1, <2>2
  <2> HIDE DEF st
  <2> QED BY <2>3 DEF DeferTimeout
<1>3. /\ s \in Server /\ s.comparer = server.comparer /\ s.firstCompare = server.firstCompare
      /\ s.oldFb = server.oldFb /\ DeferSound(s)
  BY <1>1 DEF Server, DeferTimeout, DeferSound
<1> HIDE DEF s
<1>4. st \in State /\ Sound(st) /\ st.mirror = mirror
  BY <1>3, RetimedServer
<1> HIDE DEF st
<1>5. Written(st, res, Clients)
  BY <1>2, <1>4, TryUpdateResult
<1> QED BY <1>2, <1>4, <1>5, WritingStep

\* A client's timer serves that client only.
LEMMA UpdateTimeoutInv ==
  ASSUME Inv, NEW c \in Clients, UpdateTimeout(c)
  PROVE  Inv' /\ NotTorn
<1>1. PICK res \in Writes(Now, {c}) : Become(res)
  BY DEF UpdateTimeout
<1>2. /\ Now \in State /\ Sound(Now) /\ Now.mirror = mirror
      /\ \A d \in Clients : StaleIn(Now, d) => Attended(Now, d)
  BY NowState DEF Inv
<1>3. Written(Now, res, {c})
  BY <1>1, <1>2, WritesResult
<1> QED BY <1>1, <1>2, <1>3, WritingStep

\* The connections with something more queued, or other timers and settings.
LEMMA RetimedClients ==
  ASSUME Inv, NEW cn \in [Clients -> Connection], NEW b \in Clients \cup {NoClient},
         \A c \in Clients :
           /\ cn[c].updates = conn[c].updates
           /\ cn[c].requested = conn[c].requested
           /\ cn[c].continuous = conn[c].continuous
           /\ cn[c].cuRegion = conn[c].cuRegion
           /\ conn[c].needNoData => cn[c].needNoData
  PROVE  LET st == At(fb, server, cn, mirror, b)
         IN /\ Retimed(Now, st) /\ st \in State /\ Sound(st)
            /\ st.fb = fb /\ st.server = server /\ st.conn = cn
            /\ st.mirror = mirror /\ st.busy = b
<1> DEFINE st == At(fb, server, cn, mirror, b)
<1>1. TypeOK /\ Sound(Now)
  BY NowState DEF Inv
<1>2. /\ st \in State /\ st.fb = fb /\ st.server = server /\ st.conn = cn
      /\ st.mirror = mirror /\ st.busy = b
  BY <1>1, AtState DEF TypeOK
<1> HIDE DEF st
<1>3. Retimed(Now, st)
  BY <1>1, <1>2, NowState DEF Retimed, Sound
<1>4. Sound(st)
  BY <1>1, <1>3, RetimedSound
<1> QED BY <1>2, <1>3, <1>4 DEF st

\* A client's congestion ends.
LEMMA DrainInv ==
  ASSUME Inv, NEW c \in Clients, Drain(c)
  PROVE  Inv' /\ NotTorn
<1> DEFINE cn == [conn EXCEPT ![c].congested = FALSE]
           st == At(fb, server, cn, mirror, busy)
<1>1. TypeOK
  BY NowState DEF Inv
<1>2. ASSUME NEW d \in Clients
      PROVE  /\ cn[d] \in Connection
             /\ cn[d].updates = conn[d].updates /\ cn[d].requested = conn[d].requested
             /\ cn[d].continuous = conn[d].continuous /\ cn[d].cuRegion = conn[d].cuRegion
             /\ cn[d].needNoData = conn[d].needNoData
             /\ cn[d].updateTimer = conn[d].updateTimer
  BY ZenonT(60), <1>1 DEF TypeOK, Connection
<1>3. cn \in [Clients -> Connection]
  BY <1>1, <1>2 DEF TypeOK
<1>4. conn' = cn
  BY DEF Drain
<1> HIDE DEF cn
<1>5. Now' = st
  BY <1>4 DEF Drain, Now, At
<1>6. /\ st \in State /\ Sound(st) /\ st.fb = fb /\ st.server = server /\ st.conn = cn
      /\ st.mirror = mirror /\ st.busy = busy
  BY <1>1, <1>2, <1>3, RetimedClients DEF TypeOK
<1> HIDE DEF st
<1>7. \A d \in Clients : StaleIn(st, d) => Attended(st, d)
  BY <1>2, <1>6, NowState DEF Inv, StaleIn, Attended, Wants
<1>8. mirror' = mirror
  BY DEF Drain
<1> QED BY <1>5, <1>6, <1>7, <1>8, QuietStep

\* The cursor or the name changes.
LEMMA SetCursorOrNameInv ==
  ASSUME Inv, SetCursorOrName
  PROVE  Inv' /\ NotTorn
<1> DEFINE cn == [c \in Clients |-> [conn[c] EXCEPT !.needFake = TRUE]]
           st == At(fb, server, cn, mirror, busy)
<1>1. TypeOK
  BY NowState DEF Inv
<1>2. PICK res \in Writes(st, Clients) : Become(res)
  <2>1. cn = [c \in Clients |-> [Now.conn[c] EXCEPT !.needFake = TRUE]]
    BY NowState
  <2> HIDE DEF cn
  <2>2. st = [Now EXCEPT !.conn = cn]
    BY DEF Now, At
  <2>3. st = [Now EXCEPT !.conn = [c \in Clients |-> [@[c] EXCEPT !.needFake = TRUE]]]
    BY <2>1, <2>2
  <2> HIDE DEF st
  <2> QED BY <2>3 DEF SetCursorOrName
<1>3. ASSUME NEW c \in Clients
      PROVE  /\ cn[c] \in Connection
             /\ cn[c].updates = conn[c].updates /\ cn[c].requested = conn[c].requested
             /\ cn[c].continuous = conn[c].continuous /\ cn[c].cuRegion = conn[c].cuRegion
             /\ cn[c].needNoData = conn[c].needNoData
  BY ZenonT(60), <1>1 DEF TypeOK, Connection
<1>4. cn \in [Clients -> Connection]
  BY <1>3
<1> HIDE DEF cn
<1>5. st \in State /\ Sound(st) /\ st.mirror = mirror
  BY <1>1, <1>3, <1>4, RetimedClients DEF TypeOK
<1> HIDE DEF st
<1>6. Written(st, res, Clients)
  BY <1>2, <1>5, WritesResult
<1> QED BY <1>2, <1>5, <1>6, WritingStep

\* writeExtendedDesktopSize, from a state with another client busy.
LEMMA TellLayoutResult ==
  ASSUME Inv, NEW b \in Clients \cup {NoClient}
  PROVE  LET st == At(fb, server, TellLayout(conn), mirror, b)
         IN st \in State /\ Sound(st) /\ st.mirror = mirror
<1> DEFINE cn == TellLayout(conn)
<1>1. TypeOK
  BY NowState DEF Inv
<1>2. ASSUME NEW c \in Clients
      PROVE  /\ cn[c] \in Connection
             /\ cn[c].updates = conn[c].updates /\ cn[c].requested = conn[c].requested
             /\ cn[c].continuous = conn[c].continuous /\ cn[c].cuRegion = conn[c].cuRegion
             /\ conn[c].needNoData => cn[c].needNoData
  <2> DEFINE k == conn[c]
             need == k.needNoData \/ c \in ExtendedClients
  <2>1. k \in Connection
    BY <1>1 DEF TypeOK
  <2>2. cn[c] = [k EXCEPT !.needNoData = need]
    BY DEF TellLayout
  <2>3. need \in BOOLEAN
    OBVIOUS
  <2>4. k.needNoData => need
    OBVIOUS
  <2> HIDE DEF cn, k, need
  <2> QED BY <2>1, <2>2, <2>3, <2>4 DEF Connection, k
<1>3. cn \in [Clients -> Connection]
  BY <1>2 DEF TellLayout
<1> HIDE DEF cn
<1>4. /\ At(fb, server, cn, mirror, b) \in State
      /\ Sound(At(fb, server, cn, mirror, b))
      /\ At(fb, server, cn, mirror, b).mirror = mirror
  BY <1>2, <1>3, RetimedClients
<1> QED BY <1>4 DEF cn

\* The layout of the screens changes.
LEMMA SetScreenLayoutInv ==
  ASSUME Inv, SetScreenLayout
  PROVE  Inv' /\ NotTorn
<1> DEFINE st == At(fb, server, TellLayout(conn), mirror, busy)
<1>1. PICK res \in Writes(st, Clients) : Become(res)
  <2>1. st = AnnounceLayout(Now)
    BY DEF Now, At, AnnounceLayout
  <2> QED BY <2>1 DEF SetScreenLayout
<1>2. busy \in Clients \cup {NoClient}
  BY NowState DEF Inv, TypeOK
<1>3. st \in State /\ Sound(st) /\ st.mirror = mirror
  BY <1>2, TellLayoutResult
<1> HIDE DEF st
<1>4. Written(st, res, Clients)
  BY <1>1, <1>3, WritesResult
<1> QED BY <1>1, <1>3, <1>4, WritingStep

\* A client asks for another size.
LEMMA SetDesktopSizeInv ==
  ASSUME Inv, NEW c \in Clients, SetDesktopSize(c)
  PROVE  Inv' /\ NotTorn
<1> DEFINE st == At(fb, server, TellLayout(conn), mirror, c)
<1>1. PICK res \in Writes(st, Clients) : Become(res)
  <2>1. [Now EXCEPT !.busy = c] = At(fb, server, conn, mirror, c)
    BY DEF Now, At
  <2>2. st = AnnounceLayout(At(fb, server, conn, mirror, c))
    BY DEF At, AnnounceLayout
  <2> HIDE DEF st
  <2> QED BY <2>1, <2>2 DEF SetDesktopSize
<1>2. st \in State /\ Sound(st) /\ st.mirror = mirror
  BY TellLayoutResult
<1> HIDE DEF st
<1>3. Written(st, res, Clients)
  BY <1>1, <1>2, WritesResult
<1> QED BY <1>1, <1>2, <1>3, WritingStep

\* Reading no more, the client is written to at once; nobody else was busy.
LEMMA EndOfMessagesInv ==
  ASSUME Inv, NEW c \in Clients, EndOfMessages(c)
  PROVE  Inv' /\ NotTorn
<1> DEFINE st == At(fb, server, conn, mirror, NoClient)
<1>1. PICK res \in Writes(st, {c}) : Become(res)
  <2>1. st = [Now EXCEPT !.busy = NoClient]
    BY DEF Now, At
  <2> QED BY <2>1 DEF EndOfMessages
<1>2. TypeOK
  BY NowState DEF Inv
<1>3. /\ st \in State /\ Sound(st) /\ st.fb = fb /\ st.server = server /\ st.conn = conn
      /\ st.mirror = mirror /\ st.busy = NoClient
  BY <1>2, RetimedClients DEF TypeOK
<1> HIDE DEF st
<1>4. \A d \in Clients \ {c} : StaleIn(st, d) => Attended(st, d)
  <2>1. busy = c
    BY DEF EndOfMessages
  <2> QED BY <1>3, <2>1, NowState DEF Inv, StaleIn, Attended
<1>5. Written(st, res, {c})
  BY <1>1, <1>3, WritesResult
<1> QED BY <1>1, <1>3, <1>4, <1>5, WritingStep

\* A client sends its encodings.
LEMMA SetEncodingsInv ==
  ASSUME Inv, NEW c \in Clients, NEW copyRect \in BOOLEAN, NEW compare \in BOOLEAN,
         SetEncodings(c, copyRect, compare)
  PROVE  Inv' /\ NotTorn
<1> DEFINE cn == [conn EXCEPT ![c].useCopyRect = copyRect, ![c].wantsCompare = compare]
           st == At(fb, server, cn, mirror, c)
<1>1. TypeOK
  BY NowState DEF Inv
<1>2. ASSUME NEW d \in Clients
      PROVE  /\ cn[d] \in Connection
             /\ cn[d].updates = conn[d].updates /\ cn[d].requested = conn[d].requested
             /\ cn[d].continuous = conn[d].continuous /\ cn[d].cuRegion = conn[d].cuRegion
             /\ cn[d].needNoData = conn[d].needNoData
             /\ cn[d].updateTimer = conn[d].updateTimer
  BY ZenonT(60), <1>1 DEF TypeOK, Connection
<1>3. cn \in [Clients -> Connection]
  BY <1>1, <1>2 DEF TypeOK
<1>4. conn' = cn
  BY DEF SetEncodings
<1> HIDE DEF cn
<1>5. Now' = st
  BY <1>4 DEF SetEncodings, Now, At
<1>6. /\ st \in State /\ Sound(st) /\ st.fb = fb /\ st.server = server /\ st.conn = cn
      /\ st.mirror = mirror /\ st.busy = c
  BY <1>2, <1>3, RetimedClients
<1> HIDE DEF st
<1>7. ASSUME NEW d \in Clients, StaleIn(st, d)
      PROVE  Attended(st, d)
  <2>1. Attended(Now, d)
    BY <1>2, <1>6, <1>7, NowState DEF Inv, StaleIn, Wants
  <2>2. busy \in {c, NoClient} /\ NoClient \notin Clients
    BY ClientAssumption DEF SetEncodings, Reading
  <2> QED BY <1>2, <1>6, <2>1, <2>2, NowState DEF Attended
<1>8. mirror' = mirror
  BY DEF SetEncodings
<1> QED BY <1>5, <1>6, <1>7, <1>8, QuietStep

\* One of the five parts is replaced.
LEMMA AtExcept ==
  ASSUME NEW f, NEW s, NEW cn, NEW m, NEW b
  PROVE  /\ \A x : [At(f, s, cn, m, b) EXCEPT !.conn = x] = At(f, s, x, m, b)
         /\ \A x : [At(f, s, cn, m, b) EXCEPT !.server = x] = At(f, x, cn, m, b)
         /\ \A x : [At(f, s, cn, m, b) EXCEPT !.fb = x] = At(x, s, cn, m, b)
         /\ \A x : [At(f, s, cn, m, b) EXCEPT !.busy = x] = At(f, s, cn, m, x)
         /\ At(f, s, cn, m, b).conn = cn
BY DEF At

\* The record of the variables is made of them.
LEMMA AtNow == Now = At(fb, server, conn, mirror, busy)
BY DEF At, Now

\* The viewer asks for the screen it has, all of it.
LEMMA UpdateRequestInv ==
  ASSUME Inv, NEW c \in Clients, NEW incremental \in BOOLEAN,
         UpdateRequest(c, DOMAIN fb, incremental)
  PROVE  Inv' /\ NotTorn
<1> DEFINE D == DOMAIN fb
           asked == IF incremental /\ conn[c].continuous THEN conn[c].requested
                    ELSE conn[c].requested \cup D
           grown == [conn[c] EXCEPT !.requested = asked]
           need == grown.needNoData \/ c \in ExtendedClients
           more == [grown EXCEPT !.updates = AddChanged(@, D), !.needNoData = need]
           k == IF incremental THEN grown ELSE more
           cn == [conn EXCEPT ![c] = k]
           s == IF incremental THEN server
                ELSE [server EXCEPT !.comparer = AddChanged(@, D)]
           st == At(fb, s, cn, mirror, c)
<1>1. TypeOK /\ Sound(Now)
  BY NowState DEF Inv
<1>2. D \in SUBSET Point /\ D \in Areas
  BY <1>1, PictureDomain DEF TypeOK, Areas
<1>3. /\ asked \in Areas
      /\ asked = conn[c].requested \/ D \subseteq asked
  BY <1>1, <1>2 DEF TypeOK, Connection, Areas
<1>4. conn' = cn /\ server' = s
  BY <1>1 DEF UpdateRequest, TypeOK
<1> HIDE DEF asked
<1>5. /\ grown \in Connection /\ grown.requested = asked
      /\ grown.updates = conn[c].updates
      /\ grown.continuous = conn[c].continuous /\ grown.cuRegion = conn[c].cuRegion
      /\ grown.needNoData = conn[c].needNoData
  BY <1>1, <1>3 DEF TypeOK, Connection
<1>6. conn[c].updates \in Tracker /\ need \in BOOLEAN
  BY <1>1 DEF TypeOK, Connection
<1> HIDE DEF grown
<1>7. Keeps(conn[c].updates, AddChanged(grown.updates, D))
  BY <1>2, <1>5, <1>6, AddChangedKeeps
<1>8. conn[c].needNoData => need
  BY <1>5
<1> HIDE DEF need
<1>9. /\ more \in Connection /\ more.requested = asked
      /\ more.updates = AddChanged(grown.updates, D)
      /\ more.continuous = grown.continuous /\ more.cuRegion = grown.cuRegion
      /\ more.needNoData = need
  BY <1>5, <1>6, <1>7 DEF Keeps, Connection
<1> HIDE DEF more
<1>10. /\ k \in Connection /\ k.requested = asked
       /\ k.continuous = conn[c].continuous /\ k.cuRegion = conn[c].cuRegion
       /\ conn[c].needNoData => k.needNoData
       /\ Keeps(conn[c].updates, k.updates)
  BY <1>5, <1>6, <1>7, <1>8, <1>9, KeepsItself
<1> HIDE DEF k
<1>11. /\ cn \in [Clients -> Connection] /\ cn[c] = k
       /\ \A d \in Clients : d # c => cn[d] = conn[d]
  BY <1>1, <1>10 DEF TypeOK
<1> HIDE DEF cn
<1>12. /\ s \in Server /\ Keeps(server.comparer, s.comparer)
       /\ s.firstCompare = server.firstCompare /\ s.oldFb = server.oldFb
       /\ SameTiming(server, s)
  <2> DEFINE t == server.comparer
             u == AddChanged(t, D)
  <2>1. server \in Server /\ t \in Tracker
    BY <1>1 DEF TypeOK, Server
  <2>2. Keeps(t, t) /\ Keeps(t, u) /\ u \in Tracker
    BY <1>2, <2>1, KeepsItself, AddChangedKeeps DEF Keeps
  <2>3. s = server \/ s = [server EXCEPT !.comparer = u]
    OBVIOUS
  <2> HIDE DEF s, u
  <2> QED BY <2>1, <2>2, <2>3 DEF Server, SameTiming
<1> HIDE DEF s
<1>13. /\ st \in State /\ st.fb = fb /\ st.server = s /\ st.conn = cn
       /\ st.mirror = mirror /\ st.busy = c
  BY <1>1, <1>11, <1>12, AtState DEF TypeOK
<1>14. Now' = st
  BY <1>4 DEF UpdateRequest, Now, At
<1> HIDE DEF st
<1>15. \A d \in Clients : Keeps(conn[d].updates, cn[d].updates)
  BY <1>1, <1>10, <1>11, KeepsItself DEF TypeOK, Connection
<1>16. \A base : Between(Now, base) => Between(st, base)
  BY <1>12, <1>13, <1>15, NowState DEF Between, Keeps
<1>17. ASSUME NEW d \in Clients
       PROVE  ClientSound(st.conn[d], st.mirror[d], D)
  <2>1. ClientSound(conn[d], mirror[d], D)
    BY <1>1, NowState DEF Sound
  <2> HIDE DEF D
  <2>2. CASE d # c
    BY <1>11, <1>13, <2>1, <2>2
  <2>3. CASE d = c
    BY <1>3, <1>10, <1>11, <1>13, <2>1, <2>3 DEF ClientSound, Keeps
  <2> QED BY <2>2, <2>3
<1>18. Sound(st)
  <2>1. DeferSound(st.server)
    BY <1>1, <1>12, <1>13, NowState DEF Sound, DeferSound, SameTiming
  <2> QED BY <1>1, <1>13, <1>16, <1>17, <2>1, NowState DEF Sound
<1>19. ASSUME NEW d \in Clients, StaleIn(st, d)
       PROVE  Attended(st, d)
  <2>1. CASE d = c
    BY <1>13, <2>1 DEF Attended
  <2>2. CASE d # c
    <3>1. Attended(Now, d)
      BY <1>11, <1>13, <1>19, <2>2, NowState DEF Inv, StaleIn, Wants
    <3>2. busy \in {c, NoClient} /\ NoClient \notin Clients
      BY ClientAssumption DEF UpdateRequest, Reading
    <3> QED BY <1>11, <1>12, <1>13, <2>2, <3>1, <3>2, NowState DEF Attended, SameTiming
  <2> QED BY <2>1, <2>2
<1>20. mirror' = mirror
  BY DEF UpdateRequest
<1> QED BY <1>13, <1>14, <1>18, <1>19, <1>20, QuietStep

\* The area is the whole screen, as no resize comes with continuous updates.
LEMMA EnableContinuousUpdatesInv ==
  ASSUME Inv, WholeRequests, NEW c \in Clients, NEW enable \in BOOLEAN,
         EnableContinuousUpdates(c, enable)
  PROVE  Inv' /\ NotTorn
<1> DEFINE area == DOMAIN mirror[c]
           asked == IF enable THEN {} ELSE conn[c].requested
           k == [conn[c] EXCEPT !.continuous = enable, !.cuRegion = area,
                                !.requested = asked]
           cn == [conn EXCEPT ![c] = k]
           st == At(fb, server, cn, mirror, c)
           S == IF enable THEN {c} ELSE {}
<1>1. TypeOK /\ Sound(Now)
  BY NowState DEF Inv
<1>2. /\ conn[c] \in Connection /\ area \in Areas /\ asked \in Areas
      /\ conn = [d \in Clients |-> conn[d]]
  BY <1>1, PictureDomain DEF TypeOK, Connection, Areas
<1>3. PICK res \in Writes(st, S) : Become(res)
  <2>1. k = SetContinuous(Now.conn[c], enable, area)
    BY NowState DEF SetContinuous
  <2> HIDE DEF k
  <2> DEFINE x == [Now EXCEPT !.busy = c]
  <2>2. x = At(fb, server, conn, mirror, c)
    BY AtNow, AtExcept
  <2> HIDE DEF x
  <2>3. x.conn = conn /\ x.conn[c] = Now.conn[c] /\ st = [x EXCEPT !.conn = cn]
    BY <2>2, AtExcept, NowState
  <2> HIDE DEF st
  <2>4. st = [x EXCEPT !.conn[c] = SetContinuous(@, enable, area)]
    BY <2>1, <2>3
  <2>5. st = [Now EXCEPT !.busy = c, !.conn[c] = SetContinuous(@, enable, area)]
    BY <2>4 DEF x
  <2> HIDE DEF st, S
  <2> QED BY <2>5 DEF EnableContinuousUpdates, S
<1>4. asked = {} \/ asked = conn[c].requested
  OBVIOUS
<1> HIDE DEF area, asked
<1>5. /\ k \in Connection /\ k.requested = asked /\ k.updates = conn[c].updates
      /\ k.continuous = enable /\ k.cuRegion = area /\ k.needNoData = conn[c].needNoData
  BY <1>2 DEF Connection
<1> HIDE DEF k
<1>6. /\ cn \in [Clients -> Connection] /\ cn[c] = k
      /\ \A d \in Clients : d # c => cn[d] = conn[d]
  BY <1>1, <1>5 DEF TypeOK
<1> HIDE DEF cn
<1>7. /\ st \in State /\ st.fb = fb /\ st.server = server /\ st.conn = cn
      /\ st.mirror = mirror /\ st.busy = c
  BY <1>1, <1>6, AtState DEF TypeOK
<1> HIDE DEF st
<1>8. \A base : Between(Now, base) => Between(st, base)
  BY <1>5, <1>6, <1>7, NowState DEF Between
<1>9. ASSUME NEW d \in Clients
      PROVE  ClientSound(st.conn[d], st.mirror[d], DOMAIN fb)
  <2>1. ClientSound(conn[d], mirror[d], DOMAIN fb)
    BY <1>1, NowState DEF Sound
  <2>2. CASE d # c
    BY <1>6, <1>7, <2>1, <2>2
  <2>3. CASE d = c
    <3>1. "resize" \notin Events
      BY DEF WholeRequests, EnableContinuousUpdates
    <3>2. DOMAIN mirror[c] = DOMAIN fb
      BY <2>1, <2>3, <3>1 DEF ClientSound
    <3> QED BY <1>4, <1>5, <1>6, <1>7, <2>1, <2>3, <3>1, <3>2 DEF ClientSound, area
  <2> QED BY <2>2, <2>3
<1>10. Sound(st)
  BY <1>1, <1>7, <1>8, <1>9, NowState DEF Sound
<1>11. ASSUME NEW d \in Clients, StaleIn(st, d)
       PROVE  Attended(st, d)
  <2>1. CASE d = c
    BY <1>7, <2>1 DEF Attended
  <2>2. CASE d # c
    <3>1. Attended(Now, d)
      BY <1>6, <1>7, <1>11, <2>2, NowState DEF Inv, StaleIn, Wants
    <3>2. busy \in {c, NoClient} /\ NoClient \notin Clients
      BY ClientAssumption DEF EnableContinuousUpdates, Reading
    <3> QED BY <1>6, <1>7, <2>2, <3>1, <3>2, NowState DEF Attended
  <2> QED BY <2>1, <2>2
<1>12. S \in SUBSET Clients
  OBVIOUS
<1> HIDE DEF S
<1>13. Written(st, res, S)
  BY <1>3, <1>7, <1>10, <1>12, WritesResult
<1> QED BY <1>3, <1>7, <1>11, <1>12, <1>13, WritingStep

\* pixelBufferChange marks the whole new screen, so that any picture will do.
LEMMA SetPixelBufferInv ==
  ASSUME Inv, SetPixelBuffer
  PROVE  Inv' /\ NotTorn
<1> DEFINE ServerFor(pic) == WithFramebuffer(server, pic)
           ConnFor(S) == [c \in Clients |-> PixelBufferChange(conn[c], S # DOMAIN fb, S)]
           After(pic) == At(pic, ServerFor(pic), ConnFor(DOMAIN pic), mirror, busy)
<1>1. TypeOK /\ Sound(Now)
  BY NowState DEF Inv
<1>2. PICK pic \in Picture : \E res \in Writes(After(pic), Clients) : Become(res)
  <2>1. ASSUME NEW pic
        PROVE  After(pic) = [Now EXCEPT
                    !.fb = pic,
                    !.server = WithFramebuffer(@, pic),
                    !.conn = [c \in Clients |->
                                PixelBufferChange(@[c], DOMAIN pic # DOMAIN fb, DOMAIN pic)]]
    <3> DEFINE s1 == WithFramebuffer(Now.server, pic)
               cn1 == [c \in Clients |->
                         PixelBufferChange(Now.conn[c], DOMAIN pic # DOMAIN fb, DOMAIN pic)]
    <3>1. s1 = ServerFor(pic) /\ cn1 = ConnFor(DOMAIN pic)
      BY NowState
    <3> HIDE DEF ServerFor, ConnFor
    <3> HIDE DEF s1, cn1
    <3> DEFINE x1 == [Now EXCEPT !.fb = pic]
               x2 == [x1 EXCEPT !.server = s1]
    <3>2. x1 = At(pic, server, conn, mirror, busy)
      BY AtNow, AtExcept
    <3> HIDE DEF x1
    <3>3. x2 = At(pic, s1, conn, mirror, busy)
      BY <3>2, AtExcept
    <3> HIDE DEF x2
    <3>4. [x2 EXCEPT !.conn = cn1] = At(pic, s1, cn1, mirror, busy)
      BY <3>3, AtExcept
    <3>5. After(pic) = [Now EXCEPT !.fb = pic, !.server = s1, !.conn = cn1]
      BY <3>1, <3>4 DEF x1, x2
    <3> HIDE DEF After
    <3> QED BY <3>5 DEF s1, cn1
  <2> HIDE DEF After
  <2> QED BY <2>1 DEF SetPixelBuffer
<1> DEFINE D == DOMAIN pic
           s == ServerFor(pic)
           cn == ConnFor(D)
           st == After(pic)
           u == NewComparer(D)
<1>3. PICK res \in Writes(st, Clients) : Become(res)
  BY <1>2
<1>4. D \in SUBSET Point
  BY PictureDomain
<1>5. u \in Tracker /\ u.changed = D
  <2>1. <<0, 0>> \in Point
    BY DEF Point
  <2>2. NewTracker(TRUE) \in Tracker /\ NewTracker(TRUE).changed = {}
    BY <2>1 DEF NewTracker, Tracker
  <2> QED BY ZenonT(60), <1>4, <2>2, AddChangedType DEF NewComparer
<1>6. /\ s \in Server /\ s.comparer.changed = D /\ s.firstCompare
      /\ SameTiming(server, s)
  <2>1. server \in Server
    BY <1>1 DEF TypeOK
  <2> HIDE DEF u
  <2>2. s = [[[server EXCEPT !.comparer = u] EXCEPT !.oldFb = pic]
               EXCEPT !.firstCompare = TRUE]
    BY DEF u, WithFramebuffer
  <2> HIDE DEF s
  <2> QED BY <1>5, <2>1, <2>2 DEF Server, SameTiming
<1>7. ASSUME NEW c \in Clients
      PROVE  /\ cn[c] \in Connection /\ cn[c].updates.changed = D
             /\ cn[c].requested = conn[c].requested
             /\ cn[c].continuous = conn[c].continuous
             /\ cn[c].needNoData <=> conn[c].needNoData \/ D # DOMAIN fb
  <2> DEFINE k == conn[c]
             need == k.needNoData \/ D # DOMAIN fb
             v == AddChanged(ClearTracker(k.updates), D)
  <2>1. k \in Connection
    BY <1>1 DEF TypeOK
  <2>2. cn[c] = [[k EXCEPT !.needNoData = need] EXCEPT !.updates = v]
    <3>1. cn[c] = PixelBufferChange(k, D # DOMAIN fb, D)
      OBVIOUS
    <3> HIDE DEF cn
    <3> QED BY <2>1, <3>1 DEF PixelBufferChange, Connection
  <2>3. v \in Tracker /\ v.changed = D /\ need \in BOOLEAN
    <3>1. k.updates \in Tracker
      BY <2>1 DEF Connection
    <3>2. ClearTracker(k.updates) \in Tracker /\ ClearTracker(k.updates).changed = {}
      BY <3>1, ClearTrackerAccounts
    <3>3. v \in Tracker /\ v.changed = D
      BY ZenonT(60), <1>4, <3>2, AddChangedType
    <3>4. k.needNoData \in BOOLEAN
      BY <2>1 DEF Connection
    <3> QED BY <3>3, <3>4
  <2>4. need <=> conn[c].needNoData \/ D # DOMAIN fb
    OBVIOUS
  <2> HIDE DEF cn, k, need, v
  <2> QED BY <2>1, <2>2, <2>3, <2>4 DEF Connection, k
<1>8. cn \in [Clients -> Connection]
  BY <1>7
<1> HIDE DEF s, cn, u
<1>9. /\ st \in State /\ st.fb = pic /\ st.server = s /\ st.conn = cn
      /\ st.mirror = mirror /\ st.busy = busy
  BY <1>1, <1>6, <1>8, AtState DEF TypeOK, s, cn
<1> HIDE DEF st
<1>10. Between(st, pic)
  BY <1>6, <1>7, <1>9 DEF Between, Accounts
<1>11. ASSUME NEW c \in Clients
       PROVE  ClientSound(st.conn[c], st.mirror[c], D)
  <2>1. ClientSound(conn[c], mirror[c], DOMAIN fb) /\ "resize" \in Events
    BY <1>1, NowState DEF Sound, SetPixelBuffer
  <2> QED BY <1>7, <1>9, <2>1 DEF ClientSound
<1>12. Sound(st)
  <2>1. DeferSound(st.server)
    BY <1>1, <1>6, <1>9, NowState DEF Sound, DeferSound, SameTiming
  <2>2. pic \in [D -> Color]
    BY PictureDomain
  <2> QED BY <1>9, <1>10, <1>11, <2>1, <2>2 DEF Sound
<1>13. Written(st, res, Clients)
  BY <1>3, <1>9, <1>12, WritesResult
<1> QED BY <1>3, <1>9, <1>13, WritingStep

\* Every step keeps the invariant and tears no picture.
LEMMA NextInv ==
  ASSUME Inv, WholeRequests, [Next]_vars
  PROVE  Inv' /\ NotTorn
<1>1. CASE UNCHANGED vars
  <2>1. Now' = Now /\ mirror' = mirror
    BY <1>1 DEF vars, Now
  <2> QED BY <2>1, QuietStep DEF Inv
<1>2. ASSUME Next
      PROVE  Inv' /\ NotTorn
  <2>1. ASSUME Desktop
        PROVE  Inv' /\ NotTorn
    BY <2>1, DrawInv, ScrollInv, BlockUpdatesInv, UnblockUpdatesInv, SetPixelBufferInv,
       SetScreenLayoutInv, SetCursorOrNameInv DEF Desktop
  <2>2. ASSUME NEW c \in Clients, ReadMessage(c)
        PROVE  Inv' /\ NotTorn
    <3>1. ASSUME NEW r \in RequestedAreas(c), NEW incremental \in BOOLEAN,
                 UpdateRequest(c, r, incremental)
          PROVE  Inv' /\ NotTorn
      <4>1. r = DOMAIN fb
        BY DEF RequestedAreas, WholeRequests
      <4> QED BY <3>1, <4>1, UpdateRequestInv
    <3>2. ASSUME NEW enable \in BOOLEAN, EnableContinuousUpdates(c, enable)
          PROVE  Inv' /\ NotTorn
      BY <3>2, EnableContinuousUpdatesInv
    <3>3. ASSUME NEW e \in Encodings, SetEncodings(c, e[1], e[2])
          PROVE  Inv' /\ NotTorn
      <4>1. e[1] \in BOOLEAN /\ e[2] \in BOOLEAN
        BY ParameterAssumption
      <4> QED BY <3>3, <4>1, SetEncodingsInv
    <3>4. ASSUME SetDesktopSize(c)
          PROVE  Inv' /\ NotTorn
      BY <3>4, SetDesktopSizeInv
    <3> QED BY <2>2, <3>1, <3>2, <3>3, <3>4 DEF ReadMessage
  <2>3. ASSUME NEW c \in Clients,
               UpdateTimeout(c) \/ Drain(c) \/ EndOfMessages(c)
        PROVE  Inv' /\ NotTorn
    BY <2>3, UpdateTimeoutInv, DrainInv, EndOfMessagesInv
  <2> QED BY <1>2, <2>1, <2>2, <2>3, TickInv, DeferTimeoutInv DEF Next
<1> QED BY <1>1, <1>2

(***************************************************************************)
(* The theorems                                                            *)
(***************************************************************************)
\* The inductive invariant holds always.
THEOREM Invariant ==
  ASSUME WholeRequests
  PROVE  Spec => []Inv
<1>1. Init => Inv
  BY InitInv
<1>2. Inv /\ [Next]_vars => Inv'
  BY NextInv
<1> QED BY <1>1, <1>2, PTL DEF Spec

\* The variables keep their types: trackers stay on the plane, pictures have one of the
\* screens' sizes.
THEOREM TypeCorrect ==
  ASSUME WholeRequests
  PROVE  Spec => []TypeOK
<1>1. Inv => TypeOK
  BY NowState DEF Inv
<1> QED BY <1>1, Invariant, PTL

\* Whatever is drawn, scrolled, deferred, compared, handed out, sent and renegotiated, in
\* any order, every viewer can still be brought up to date from what the server keeps.
THEOREM AlwaysCoherent ==
  ASSUME WholeRequests
  PROVE  Spec => []Coherent
<1>1. Inv => Coherent
  BY NowState DEF Inv, Sound, Between, Coherent
<1> QED BY <1>1, Invariant, PTL

\* When nothing is left to send to a viewer, it shows the framebuffer.
THEOREM AlwaysUpToDate ==
  ASSUME WholeRequests
  PROVE  Spec => []UpToDate
<1>1. ASSUME Inv, NEW c \in Clients,
             IsEmpty(server.comparer), IsEmpty(conn[c].updates), ~conn[c].needNoData
      PROVE  mirror[c] = fb
  <2>1. TypeOK /\ Sound(Now)
    BY <1>1, NowState DEF Inv
  <2>2. mirror[c] \in Picture /\ fb \in Picture /\ DOMAIN mirror[c] = DOMAIN fb
    BY <1>1, <2>1, NowState DEF TypeOK, Sound, ClientSound
  <2>3. PICK base \in [DOMAIN fb -> Color] : Between(Now, base)
    BY <2>1, NowState DEF Sound
  <2>4. Accounts(server.comparer, fb, base) /\ Accounts(conn[c].updates, base, mirror[c])
    BY <2>3, NowState DEF Between
  <2>5. \A p \in DOMAIN fb : fb[p] = base[p] /\ base[p] = mirror[c][p]
    BY <1>1, <2>3, <2>4 DEF Accounts, IsEmpty
  <2> QED BY <2>2, <2>5, SamePicture
<1>2. Inv => UpToDate
  BY <1>1 DEF UpToDate
<1> QED BY <1>2, Invariant, PTL

\* A viewer whose size differs from the framebuffer's has a size queued for it.
THEOREM AlwaysSizeAnnounced ==
  ASSUME WholeRequests
  PROVE  Spec => []SizeAnnounced
<1>1. Inv => SizeAnnounced
  BY NowState DEF Inv, Sound, ClientSound, SizeAnnounced
<1> QED BY <1>1, Invariant, PTL

\* A viewer that asks and is out of date has its timer, the defer timer, the end of
\* blocking or the end of its own messages to serve it.
THEOREM NoWakeupIsLost ==
  ASSUME WholeRequests
  PROVE  Spec => []NoLostWakeup
<1>1. Inv => NoLostWakeup
  BY NowState DEF Inv, StaleIn, Attended, Stale, NoLostWakeup
<1> QED BY <1>1, Invariant, PTL

\* An update shows a viewer the framebuffer of one moment.
THEOREM UpdatesAreWhole ==
  ASSUME WholeRequests
  PROVE  Spec => NoTornUpdate
<1>1. Inv /\ [Next]_vars => [NotTorn]_vars
  BY NextInv
<1> QED BY <1>1, Invariant, PTL DEF Spec, NoTornUpdate, NotTorn
=============================================================================
