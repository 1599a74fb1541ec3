-------------------------- MODULE ConnectionProofs --------------------------
(***************************************************************************)
(* Proofs about ViewerSync and Connection, for every set of formats and of *)
(* sizes and any number of messages under way: a rectangle is decoded in   *)
(* the format it was encoded in, no assertion of the viewer fails and the  *)
(* server refuses nothing, the updates never run dry, and continuous       *)
(* updates cover the screen.                                               *)
(*                                                                         *)
(* None of this is inductive: what the viewer has just read is right only  *)
(* if all that is still under way is.  The inductive invariant, SyncInv,   *)
(* is about every place of the two queues at once:                         *)
(*   - InFormat: a sequence of formats, one for each message to the        *)
(*     viewer, says what the viewer's format will be when it reads that    *)
(*     message; its last element is the format of the next update the      *)
(*     server will write, which the server may not have read yet;          *)
(*   - Pairs, BareFirst: a format comes right behind its fence, or, where  *)
(*     fences are not known to work, ahead of the only request there is;   *)
(*   - Turn: until then the one update asked for is in one place only,     *)
(*     afterwards it is in one at least;                                   *)
(*   - ProbeOnce, Unsynced: so is the probe that finds out;                *)
(*   - Continuous, SizeKnown: the last area under way is the size the      *)
(*     viewer has, and the last size under way is the server's.            *)
(* owed says that the viewer has read the beginning of an update and not   *)
(* asked for the next one yet: the invariant is also that of the states    *)
(* between two calls of requestNewUpdate.                                  *)
(*                                                                         *)
(* The viewer's operators, the messages the server reads and the updates   *)
(* it writes have their lemmas in that order.  The handshake's proofs come *)
(* after them.  The last part shows that a connection implements both the  *)
(* handshake and the session.                                              *)
(***************************************************************************)
EXTENDS Connection, FiniteSetTheorems, SequenceTheorems, WellFoundedInduction, TLAPS

\* What the messages to the server may be.
FormatFence(m) == m.type = "Fence" /\ m.request /\ m.data # NoData
Probe(m) == m.type = "Fence" /\ m.request /\ m.data = NoData

\* And those to the viewer.
Switch(m) == m.type = "Fence" /\ ~m.request /\ m.data # NoData
ProbeReply(m) == m.type = "Fence" /\ ~m.request /\ m.data = NoData
EndsIt(m) == m.type \in {"Rect", "SizeRect"}

FormatPending(s) == s.pendingSyncFence /\ s.fenceData # NoData
ProbePending(s) == s.pendingSyncFence /\ s.fenceData = NoData

\* Before ServerInit is read nothing else is under way.
Fresh(v, s, ts, tv) ==
  ~v.started =>
    /\ Len(ts) = 0 /\ Len(tv) = 0
    /\ ~s.requested /\ ~s.continuous /\ ~s.supportsResize /\ ~s.supportsFence
    /\ ~s.pendingSyncFence /\ s.pf = NativePF /\ s.size = v.size
    /\ v.pf = NativePF /\ v.firstUpdate
    /\ ~v.supportsSyncFence /\ ~v.supportsCU /\ ~v.continuousUpdates
    /\ ~v.pendingUpdate /\ ~v.pendingPFChange /\ ~v.rectsLeft

\* An update is its start and one rectangle, and the viewer reads one after the other.
Shape(v, tv) ==
  /\ v.rectsLeft <=> Len(tv) > 0 /\ EndsIt(tv[1])
  /\ \A i \in 1 .. Len(tv) :
       /\ tv[i].type = "UpdateStart" => i < Len(tv) /\ EndsIt(tv[i + 1])
       /\ EndsIt(tv[i]) /\ i > 1 => tv[i - 1].type = "UpdateStart"

\* The viewer changes its format at the end of an update only where it does not
\* know that fences work.
Pending(v) == v.pendingPFChange => v.rectsLeft /\ ~v.supportsSyncFence

\* The fence for a new format and the format are read one after the other.
Pairs(s, ts) ==
  /\ \A i \in 1 .. Len(ts) :
       FormatFence(ts[i]) => i < Len(ts) /\ ts[i + 1] = SetPixelFormatMsg(ts[i].data)
  /\ FormatPending(s) => Len(ts) > 0 /\ ts[1] = SetPixelFormatMsg(s.fenceData)

\* A format that is sent without a fence.
Bare(s, ts, i) ==
  /\ ts[i].type = "SetPixelFormat"
  /\ IF i = 1 THEN ~FormatPending(s) ELSE ~FormatFence(ts[i - 1])

\* There is one at most; the server sends no update before it has read it, and no
\* fenced one is ahead of it.  (owed: the viewer is about to ask for an update.)
BareFirst(v, s, ts, owed) ==
  \A i \in 1 .. Len(ts) : Bare(s, ts, i) =>
    /\ ~s.requested /\ ~s.continuous /\ ~FormatPending(s)
    /\ \A j \in 1 .. i - 1 :
         ts[j].type \notin {"UpdateRequest", "EnableCU"} /\ ~FormatFence(ts[j])
    /\ \/ owed /\ ~v.supportsSyncFence
       \/ \E k \in i + 1 .. Len(ts) : ts[k].type = "UpdateRequest"
    /\ \A j \in 1 .. Len(ts) : Bare(s, ts, j) => j = i

\* The format of the viewer after it has read the i-th message m in format x.
After(v, m, i, x) ==
  IF Switch(m) THEN m.data
  ELSE IF i = 1 /\ EndsIt(m) /\ v.pendingPFChange THEN v.pendingPF ELSE x

\* f[i] is the format the viewer will have when it reads the i-th message.
Follows(v, tv, f) ==
  /\ DOMAIN f = 1 .. Len(tv) + 1
  /\ f[1] = v.pf
  /\ \A i \in 1 .. Len(tv) : /\ f[i + 1] = After(v, tv[i], i, f[i])
                             /\ tv[i].type = "Rect" => tv[i].pf = f[i]

\* x is the format of the next update that the server will write, which it may not
\* know yet.
NextFormat(s, ts, x) ==
  /\ \A i \in 1 .. Len(ts) : Bare(s, ts, i) => ts[i].pf = x
  /\ (\A i \in 1 .. Len(ts) : ~Bare(s, ts, i)) => s.pf = x

InFormat(v, s, ts, tv) ==
  \E f \in [1 .. Len(tv) + 1 -> Format] : Follows(v, tv, f) /\ NextFormat(s, ts, f[Len(tv) + 1])

Asking(ts, i) == i \in 1 .. Len(ts) /\ ts[i].type = "UpdateRequest"
Coming(tv, i) == i \in 1 .. Len(tv) /\ tv[i].type = "UpdateStart"

SomeTurn(s, ts, tv, owed) ==
  \/ owed \/ s.requested
  \/ \E i \in 1 .. Len(ts) : Asking(ts, i)
  \/ \E i \in 1 .. Len(tv) : Coming(tv, i)

OneTurn(s, ts, tv, owed) ==
  /\ SomeTurn(s, ts, tv, owed)
  /\ \A i, j \in 1 .. Len(ts) : Asking(ts, i) /\ Asking(ts, j) => i = j
  /\ \A i, j \in 1 .. Len(tv) : Coming(tv, i) /\ Coming(tv, j) => i = j
  /\ \A i \in 1 .. Len(ts) : Asking(ts, i) => ~s.requested /\ ~owed
  /\ s.requested => ~owed
  /\ \A i \in 1 .. Len(tv) : Coming(tv, i) =>
        ~s.requested /\ ~owed /\ \A j \in 1 .. Len(ts) : ~Asking(ts, j)

Turn(v, s, ts, tv, owed) ==
  v.started => IF v.supportsSyncFence
               THEN v.continuousUpdates \/ SomeTurn(s, ts, tv, owed)
               ELSE OneTurn(s, ts, tv, owed)

\* Until the viewer knows that fences work, no format is fenced.
Unsynced(v, s, ts, tv) ==
  ~v.supportsSyncFence =>
    /\ ~v.continuousUpdates /\ ~FormatPending(s)
    /\ \A i \in 1 .. Len(ts) : ~FormatFence(ts[i])
    /\ \A i \in 1 .. Len(tv) : ~Switch(tv[i])

\* The viewer's probe is in one place at most.
ProbeOnce(v, s, ts, tv) ==
  /\ v.supportsSyncFence => ~v.firstUpdate
  /\ \A i \in 1 .. Len(ts) : Probe(ts[i]) =>
       /\ ~v.firstUpdate /\ ~v.supportsSyncFence /\ ~ProbePending(s)
       /\ \A j \in 1 .. Len(ts) : Probe(ts[j]) => j = i
       /\ \A j \in 1 .. Len(tv) : ~ProbeReply(tv[j])
  /\ ProbePending(s) =>
       /\ ~v.firstUpdate /\ ~v.supportsSyncFence
       /\ \A j \in 1 .. Len(tv) : ~ProbeReply(tv[j])
  /\ \A i \in 1 .. Len(tv) : ProbeReply(tv[i]) =>
       /\ ~v.firstUpdate /\ ~v.supportsSyncFence
       /\ \A j \in 1 .. Len(tv) : ProbeReply(tv[j]) => j = i

Enabling(ts, i) == i \in 1 .. Len(ts) /\ ts[i].type = "EnableCU"

\* Continuous updates are enabled where both sides know them, and for the size that the
\* viewer knows.
Continuous(v, s, ts, tv) ==
  /\ s.supportsCU = s.supportsFence
  /\ s.supportsFence => s.knowsFences
  /\ v.supportsCU => s.supportsFence
  /\ \A i \in 1 .. Len(tv) : tv[i].type = "EndOfCU" => s.supportsFence
  /\ v.continuousUpdates => s.supportsFence
  /\ s.continuous => v.continuousUpdates
  /\ \A i \in 1 .. Len(ts) : Enabling(ts, i) => v.continuousUpdates
  /\ v.continuousUpdates =>
       \/ \E i \in 1 .. Len(ts) : /\ Enabling(ts, i) /\ ts[i].size = v.size
                                  /\ \A j \in i + 1 .. Len(ts) : ~Enabling(ts, j)
       \/ /\ \A i \in 1 .. Len(ts) : ~Enabling(ts, i)
          /\ s.continuous /\ s.cuSize = v.size

Resizing(tv, i) == i \in 1 .. Len(tv) /\ tv[i].type = "SizeRect"

\* The viewer will know the size.
SizeKnown(v, s, tv) ==
  \/ s.newSize
  \/ \E i \in 1 .. Len(tv) : /\ Resizing(tv, i) /\ tv[i].size = s.size
                             /\ \A j \in i + 1 .. Len(tv) : ~Resizing(tv, j)
  \/ /\ \A i \in 1 .. Len(tv) : ~Resizing(tv, i)
     /\ v.size = s.size

SyncInv(v, s, ts, tv, owed) ==
  /\ Fresh(v, s, ts, tv) /\ Shape(v, tv) /\ Pending(v)
  /\ Pairs(s, ts) /\ BareFirst(v, s, ts, owed) /\ InFormat(v, s, ts, tv)
  /\ Turn(v, s, ts, tv, owed) /\ Unsynced(v, s, ts, tv) /\ ProbeOnce(v, s, ts, tv)
  /\ Continuous(v, s, ts, tv) /\ SizeKnown(v, s, tv)
  /\ ~v.assertFailed /\ ~s.refused

Inv == TypeOK /\ SyncInv(viewer, server, toServer, toViewer, FALSE)

\* All of it, with the types.
Good(v, s, ts, tv, owed) ==
  /\ v \in Viewer /\ s \in Server /\ ts \in Seq(ToServer) /\ tv \in Seq(ToViewer)
  /\ owed \in BOOLEAN
  /\ SyncInv(v, s, ts, tv, owed)

Longer(q, m, r) == /\ Len(q) \in Nat /\ Len(r) = Len(q) + 1
                   /\ r[Len(q) + 1] = m
                   /\ \A i \in 1 .. Len(q) : r[i] = q[i]

Shorter(q, r) == /\ Len(r) \in Nat /\ Len(q) = Len(r) + 1
                 /\ \A i \in 1 .. Len(r) : r[i] = q[i + 1]

\* A sequence with one more message.
LEMMA Appended ==
  ASSUME NEW S, NEW q \in Seq(S), NEW m \in S
  PROVE  /\ Append(q, m) \in Seq(S) /\ q \o <<m>> = Append(q, m)
         /\ Longer(q, m, Append(q, m))
  BY DEF Longer

\* A sequence without its first message.
LEMMA Popped ==
  ASSUME NEW S, NEW q \in Seq(S), q # <<>>
  PROVE  /\ Tail(q) \in Seq(S) /\ Head(q) = q[1] /\ q[1] \in S
         /\ Shorter(q, Tail(q))
  BY DEF Shorter

Plain(m) == /\ m.type \notin {"SetPixelFormat", "UpdateRequest", "EnableCU"}
            /\ ~FormatFence(m) /\ ~Probe(m)

\* The viewer sends a message that neither asks nor synchronises anything.
LEMMA SendPlain ==
  ASSUME NEW v, NEW s, NEW ts, NEW tv, NEW owed, Good(v, s, ts, tv, owed), v.started,
         NEW m, NEW ts1 \in Seq(ToServer), Longer(ts, m, ts1), Plain(m)
  PROVE  Good(v, s, ts1, tv, owed)
<1> DEFINE n == Len(ts)
<1>1. /\ n \in Nat /\ Len(ts1) = n + 1 /\ ts1[n + 1] = m /\ \A i \in 1 .. n : ts1[i] = ts[i]
  BY DEF Longer
<1>2. SyncInv(v, s, ts, tv, owed)
  BY DEF Good
<1>3. Fresh(v, s, ts1, tv)
  BY DEF Fresh
<1>4. Pairs(s, ts1)
  BY <1>1, <1>2 DEF SyncInv, Pairs, Plain
<1>5. \A i \in 1 .. Len(ts1) : Bare(s, ts1, i) <=> i \in 1 .. n /\ Bare(s, ts, i)
  BY <1>1 DEF Bare, Plain
<1> HIDE DEF n
<1>6. BareFirst(v, s, ts1, owed)
  BY <1>1, <1>2, <1>5 DEF SyncInv, BareFirst, Plain, n
<1>7. InFormat(v, s, ts1, tv)
  BY SMTT(60), <1>1, <1>2, <1>5 DEF SyncInv, InFormat, NextFormat, n
<1>8. Turn(v, s, ts1, tv, owed)
  BY SMTT(60), <1>1, <1>2 DEF SyncInv, Turn, OneTurn, SomeTurn, Asking, Plain, n
<1>9. Unsynced(v, s, ts1, tv)
  BY <1>1, <1>2 DEF SyncInv, Unsynced, Plain, n
<1>10. ProbeOnce(v, s, ts1, tv)
  BY <1>1, <1>2 DEF SyncInv, ProbeOnce, Plain, n
<1>11. Continuous(v, s, ts1, tv)
  BY <1>1, <1>2 DEF SyncInv, Continuous, Enabling, Plain, n
<1> QED BY <1>2, <1>3, <1>4, <1>6, <1>7, <1>8, <1>9, <1>10, <1>11 DEF Good, SyncInv

\* The viewer asks for the update that is owed (requestNewUpdate), or for one more
\* once fences work.
LEMMA SendAsk ==
  ASSUME NEW v, NEW s, NEW ts, NEW tv, NEW owed, Good(v, s, ts, tv, owed), v.started,
         owed \/ v.supportsSyncFence,
         NEW m, NEW ts1 \in Seq(ToServer), Longer(ts, m, ts1), m.type = "UpdateRequest"
  PROVE  Good(v, s, ts1, tv, FALSE)
<1> DEFINE n == Len(ts)
<1>1. /\ n \in Nat /\ Len(ts1) = n + 1 /\ ts1[n + 1] = m /\ \A i \in 1 .. n : ts1[i] = ts[i]
  BY DEF Longer
<1>2. SyncInv(v, s, ts, tv, owed) /\ owed \in BOOLEAN
  BY DEF Good
<1>0. ~FormatFence(m) /\ ~Probe(m)
  BY DEF FormatFence, Probe
<1>3. Fresh(v, s, ts1, tv)
  BY DEF Fresh
<1>4. Pairs(s, ts1)
  BY <1>0, <1>1, <1>2 DEF SyncInv, Pairs
<1>5. \A i \in 1 .. Len(ts1) : Bare(s, ts1, i) <=> i \in 1 .. n /\ Bare(s, ts, i)
  BY <1>1 DEF Bare
<1> HIDE DEF n
<1>6. BareFirst(v, s, ts1, FALSE)
  BY <1>0, <1>1, <1>2, <1>5 DEF SyncInv, BareFirst, n
<1>7. InFormat(v, s, ts1, tv)
  BY <1>1, <1>2, <1>5 DEF SyncInv, InFormat, NextFormat, n
<1>8. Turn(v, s, ts1, tv, FALSE)
  <2>1. SomeTurn(s, ts1, tv, FALSE)
    BY <1>1 DEF SomeTurn, Asking
  <2>2. CASE v.supportsSyncFence
    BY <2>1, <2>2 DEF Turn
  <2>3. CASE ~v.supportsSyncFence
    <3>1. OneTurn(s, ts, tv, owed) /\ owed
      BY <1>2, <2>3 DEF SyncInv, Turn
    <3>2. \A i \in 1 .. Len(ts1) : Asking(ts1, i) => i = n + 1
      BY <1>1, <3>1 DEF OneTurn, Asking, n
    <3>3. ~s.requested /\ \A i \in 1 .. Len(tv) : ~Coming(tv, i)
      BY <3>1 DEF OneTurn
    <3>4. OneTurn(s, ts1, tv, FALSE)
      BY <2>1, <3>2, <3>3 DEF OneTurn
    <3> QED BY <2>3, <3>4 DEF Turn
  <2> QED BY <2>2, <2>3
<1>9. Unsynced(v, s, ts1, tv)
  BY <1>0, <1>1, <1>2 DEF SyncInv, Unsynced, n
<1>10. ProbeOnce(v, s, ts1, tv)
  BY <1>0, <1>1, <1>2 DEF SyncInv, ProbeOnce, n
<1>11. Continuous(v, s, ts1, tv)
  BY SMTT(60), <1>1, <1>2 DEF SyncInv, Continuous, Enabling, n
<1> QED BY <1>2, <1>3, <1>4, <1>6, <1>7, <1>8, <1>9, <1>10, <1>11 DEF Good, SyncInv

\* Where updates come unasked nothing is owed.
LEMMA AskNothing ==
  ASSUME NEW v, NEW s, NEW ts, NEW tv, NEW owed, Good(v, s, ts, tv, owed),
         v.supportsSyncFence, v.continuousUpdates
  PROVE  Good(v, s, ts, tv, FALSE)
<1>1. SyncInv(v, s, ts, tv, owed)
  BY DEF Good
<1>2. BareFirst(v, s, ts, FALSE)
  BY <1>1 DEF SyncInv, BareFirst
<1>3. Turn(v, s, ts, tv, FALSE)
  BY DEF Turn
<1> QED BY <1>1, <1>2, <1>3 DEF Good, SyncInv

\* The viewer sends a new format behind the fence that will bring it back.
LEMMA SendFenced ==
  ASSUME NEW v, NEW s, NEW ts, NEW tv, NEW owed, Good(v, s, ts, tv, owed), v.started,
         v.supportsSyncFence, NEW pf \in Format,
         NEW ts1 \in Seq(ToServer), Longer(ts, FenceMsg(TRUE, pf), ts1),
         NEW ts2 \in Seq(ToServer), Longer(ts1, SetPixelFormatMsg(pf), ts2)
  PROVE  Good(v, s, ts2, tv, owed)
<1> DEFINE n == Len(ts)
           a == FenceMsg(TRUE, pf)
           b == SetPixelFormatMsg(pf)
<1>1. /\ n \in Nat /\ Len(ts2) = n + 2 /\ ts2[n + 1] = a /\ ts2[n + 2] = b
      /\ \A i \in 1 .. n : ts2[i] = ts[i]
  <2>1. /\ n \in Nat /\ Len(ts1) = n + 1 /\ ts1[n + 1] = a /\ \A i \in 1 .. n : ts1[i] = ts[i]
    BY DEF Longer
  <2> HIDE DEF n, a, b
  <2>2. /\ Len(ts2) = n + 1 + 1 /\ ts2[n + 1 + 1] = b /\ \A i \in 1 .. n + 1 : ts2[i] = ts1[i]
    BY <2>1 DEF Longer, b
  <2> QED BY <2>1, <2>2
<1>2. SyncInv(v, s, ts, tv, owed)
  BY DEF Good
<1>0. /\ FormatFence(a) /\ ~Probe(a) /\ ~FormatFence(b) /\ ~Probe(b)
      /\ a.type = "Fence" /\ b.type = "SetPixelFormat" /\ b = SetPixelFormatMsg(a.data)
  BY FormatAssumption DEF FormatFence, Probe, FenceMsg, SetPixelFormatMsg
<1> HIDE DEF a, b
<1>3. Fresh(v, s, ts2, tv)
  BY DEF Fresh
<1>5. \A i \in 1 .. Len(ts2) : Bare(s, ts2, i) <=> i \in 1 .. n /\ Bare(s, ts, i)
  BY SMTT(60), <1>0, <1>1 DEF Bare
<1> HIDE DEF n
<1>4. Pairs(s, ts2)
  <2>1. ASSUME NEW i \in 1 .. Len(ts2), FormatFence(ts2[i])
        PROVE  i < Len(ts2) /\ ts2[i + 1] = SetPixelFormatMsg(ts2[i].data)
    BY SMTT(60), <1>0, <1>1, <1>2, <2>1 DEF SyncInv, Pairs, n
  <2>2. FormatPending(s) => Len(ts2) > 0 /\ ts2[1] = SetPixelFormatMsg(s.fenceData)
    BY <1>0, <1>1, <1>2 DEF SyncInv, Pairs, n
  <2> QED BY <2>1, <2>2 DEF Pairs
<1>6. BareFirst(v, s, ts2, owed)
  <2> SUFFICES ASSUME NEW i \in 1 .. Len(ts2), Bare(s, ts2, i)
               PROVE  /\ ~s.requested /\ ~s.continuous /\ ~FormatPending(s)
                      /\ \A j \in 1 .. i - 1 :
                           ts2[j].type \notin {"UpdateRequest", "EnableCU"} /\ ~FormatFence(ts2[j])
                      /\ \/ owed /\ ~v.supportsSyncFence
                         \/ \E k \in i + 1 .. Len(ts2) : ts2[k].type = "UpdateRequest"
                      /\ \A j \in 1 .. Len(ts2) : Bare(s, ts2, j) => j = i
    BY DEF BareFirst
  <2>1. i \in 1 .. n /\ Bare(s, ts, i)
    BY <1>5
  <2>2. PICK k \in i + 1 .. n : ts[k].type = "UpdateRequest"
    BY <1>2, <2>1 DEF SyncInv, BareFirst, n
  <2>3. k \in i + 1 .. Len(ts2) /\ ts2[k].type = "UpdateRequest"
    BY <1>1, <2>1, <2>2
  <2>4. /\ ~s.requested /\ ~s.continuous /\ ~FormatPending(s)
        /\ \A j \in 1 .. i - 1 :
             ts[j].type \notin {"UpdateRequest", "EnableCU"} /\ ~FormatFence(ts[j])
        /\ \A j \in 1 .. n : Bare(s, ts, j) => j = i
    BY <1>2, <2>1 DEF SyncInv, BareFirst, n
  <2>5. \A j \in 1 .. i - 1 : ts2[j] = ts[j]
    BY <1>1, <2>1
  <2> QED BY <1>5, <2>3, <2>4, <2>5
<1>7. InFormat(v, s, ts2, tv)
  <2>1. PICK f \in [1 .. Len(tv) + 1 -> Format] :
          Follows(v, tv, f) /\ NextFormat(s, ts, f[Len(tv) + 1])
    BY <1>2 DEF SyncInv, InFormat
  <2>2. NextFormat(s, ts2, f[Len(tv) + 1])
    BY SMTT(60), <1>1, <1>5, <2>1 DEF NextFormat, n
  <2> QED BY <2>1, <2>2 DEF InFormat
<1>8. Turn(v, s, ts2, tv, owed)
  BY <1>1, <1>2 DEF SyncInv, Turn, SomeTurn, Asking, n
<1>9. Unsynced(v, s, ts2, tv)
  BY DEF Unsynced
<1>10. ProbeOnce(v, s, ts2, tv)
  BY <1>0, <1>1, <1>2 DEF SyncInv, ProbeOnce, n
<1>11. Continuous(v, s, ts2, tv)
  <2>1. \A i \in 1 .. Len(ts2) : Enabling(ts2, i) <=> Enabling(ts, i)
    BY <1>0, <1>1 DEF Enabling, n
  <2>2. \A i \in 1 .. n : Enabling(ts2, i) <=> Enabling(ts, i)
    BY <1>1, <2>1
  <2> QED BY <1>1, <1>2, <2>1, <2>2 DEF SyncInv, Continuous, Enabling, n
<1> QED BY <1>2, <1>3, <1>4, <1>6, <1>7, <1>8, <1>9, <1>10, <1>11 DEF Good, SyncInv

\* What the invariant says of the viewer depends on these parts of it only.
SameViewer(v, w) ==
  /\ w.started = v.started /\ w.rectsLeft = v.rectsLeft
  /\ w.supportsSyncFence = v.supportsSyncFence /\ w.continuousUpdates = v.continuousUpdates
  /\ w.firstUpdate = v.firstUpdate /\ w.supportsCU = v.supportsCU
  /\ w.size = v.size /\ w.assertFailed = v.assertFailed

SameFormat(v, w) ==
  /\ w.pf = v.pf /\ w.pendingPFChange = v.pendingPFChange /\ w.pendingPF = v.pendingPF

\* The other fields of the viewer do not matter.
LEMMA ViewerFlags ==
  ASSUME NEW v, NEW s, NEW ts, NEW tv, NEW owed, Good(v, s, ts, tv, owed), v.started,
         NEW w \in Viewer, SameViewer(v, w), SameFormat(v, w)
  PROVE  Good(w, s, ts, tv, owed)
<1>1. SyncInv(v, s, ts, tv, owed)
  BY DEF Good
<1>2. Fresh(w, s, ts, tv) /\ Shape(w, tv) /\ Pending(w) /\ BareFirst(w, s, ts, owed)
  BY <1>1 DEF SyncInv, Fresh, Shape, Pending, BareFirst, SameViewer, SameFormat
<1>3. InFormat(w, s, ts, tv)
  BY <1>1 DEF SyncInv, InFormat, Follows, After, SameFormat
<1>4. Turn(w, s, ts, tv, owed) /\ Unsynced(w, s, ts, tv) /\ ProbeOnce(w, s, ts, tv)
  BY <1>1 DEF SyncInv, Turn, Unsynced, ProbeOnce, SameViewer
<1>5. Continuous(w, s, ts, tv) /\ SizeKnown(w, s, tv) /\ ~w.assertFailed
  BY <1>1 DEF SyncInv, Continuous, SizeKnown, SameViewer
<1> QED BY <1>1, <1>2, <1>3, <1>4, <1>5 DEF Good, SyncInv

\* Without fences the viewer sends a new format while it reads an update, and uses
\* it from the end of that update.
LEMMA SendBare ==
  ASSUME NEW v, NEW s, NEW ts, NEW tv, Good(v, s, ts, tv, TRUE), v.started,
         ~v.supportsSyncFence, v.rectsLeft, NEW pf \in Format,
         \A i \in 1 .. Len(ts) : ~Bare(s, ts, i),
         NEW w \in Viewer, SameViewer(v, w),
         w.pf = v.pf, w.pendingPFChange = TRUE, w.pendingPF = pf,
         NEW ts1 \in Seq(ToServer), Longer(ts, SetPixelFormatMsg(pf), ts1)
  PROVE  Good(w, s, ts1, tv, TRUE)
<1> DEFINE n == Len(ts)
           m == SetPixelFormatMsg(pf)
           L == Len(tv)
<1>1. /\ n \in Nat /\ Len(ts1) = n + 1 /\ ts1[n + 1] = m /\ \A i \in 1 .. n : ts1[i] = ts[i]
  BY DEF Longer
<1>2. SyncInv(v, s, ts, tv, TRUE) /\ tv \in Seq(ToViewer)
  BY DEF Good
<1>0. ~FormatFence(m) /\ ~Probe(m) /\ m.type = "SetPixelFormat" /\ m.pf = pf
  BY DEF FormatFence, Probe, SetPixelFormatMsg
<1> HIDE DEF m
<1>3. Fresh(w, s, ts1, tv) /\ Shape(w, tv) /\ Pending(w)
  BY <1>2 DEF SyncInv, Fresh, Shape, Pending, SameViewer
<1>4. ~FormatPending(s) /\ (\A i \in 1 .. n : ~FormatFence(ts[i]))
      /\ (\A i \in 1 .. L : ~Switch(tv[i])) /\ ~v.continuousUpdates
  BY <1>2 DEF SyncInv, Unsynced
<1>5. \A i \in 1 .. Len(ts1) : Bare(s, ts1, i) <=> i = n + 1
  BY <1>0, <1>1, <1>4 DEF Bare
<1>6. OneTurn(s, ts, tv, TRUE)
  BY <1>2 DEF SyncInv, Turn
<1>7. /\ ~s.requested /\ ~s.continuous
      /\ \A i \in 1 .. n : ts[i].type \notin {"UpdateRequest", "EnableCU"}
      /\ \A i \in 1 .. L : tv[i].type # "UpdateStart"
  BY <1>2, <1>4, <1>6 DEF SyncInv, OneTurn, Asking, Coming, Continuous, Enabling
<1> HIDE DEF n, L
<1>8. Pairs(s, ts1)
  BY <1>0, <1>1, <1>4 DEF Pairs, n
<1>9. BareFirst(w, s, ts1, TRUE)
  BY <1>1, <1>4, <1>5, <1>7 DEF BareFirst, SameViewer
<1>10. InFormat(w, s, ts1, tv)
  <2>1. L \in Nat /\ L >= 1 /\ EndsIt(tv[1]) /\ \A i \in 2 .. L : ~EndsIt(tv[i])
    BY <1>2, <1>7 DEF SyncInv, Shape, L
  <2>2. PICK f \in [1 .. L + 1 -> Format] : Follows(v, tv, f)
    BY <1>2 DEF SyncInv, InFormat, L
  <2> DEFINE g == [i \in 1 .. L + 1 |-> IF i = 1 THEN f[1] ELSE pf]
  <2>3. g \in [1 .. L + 1 -> Format]
    BY <2>1, <2>2
  <2>4. g[1] = f[1] /\ \A i \in 2 .. L + 1 : g[i] = pf
    BY <2>1
  <2> HIDE DEF g
  <2>5. f[1] = v.pf /\ \A i \in 1 .. L : tv[i].type = "Rect" => tv[i].pf = f[i]
    BY <2>2 DEF Follows, L
  <2>6. ASSUME NEW i \in 1 .. L
        PROVE  /\ g[i + 1] = After(w, tv[i], i, g[i])
               /\ tv[i].type = "Rect" => tv[i].pf = g[i]
    <3>1. CASE i = 1
      BY <1>4, <2>1, <2>4, <2>5, <3>1 DEF After
    <3>2. CASE i # 1
      BY <1>4, <2>1, <2>4, <2>5, <3>2 DEF After, EndsIt
    <3> QED BY <3>1, <3>2
  <2>7. Follows(w, tv, g)
    BY <2>3, <2>4, <2>5, <2>6 DEF Follows, L
  <2>8. NextFormat(s, ts1, g[L + 1])
    BY <1>0, <1>1, <1>5, <2>1, <2>4 DEF NextFormat
  <2> QED BY <2>3, <2>7, <2>8 DEF InFormat, L
<1>11. Turn(w, s, ts1, tv, TRUE)
  <2>1. OneTurn(s, ts1, tv, TRUE)
    BY <1>0, <1>1, <1>6 DEF OneTurn, SomeTurn, Asking, n
  <2> QED BY <2>1 DEF Turn, SameViewer
<1>12. Unsynced(w, s, ts1, tv)
  BY <1>0, <1>1, <1>4 DEF Unsynced, SameViewer, L
<1>13. ProbeOnce(w, s, ts1, tv)
  BY <1>0, <1>1, <1>2 DEF SyncInv, ProbeOnce, SameViewer, n
<1>14. Continuous(w, s, ts1, tv) /\ SizeKnown(w, s, tv) /\ ~w.assertFailed
  BY SMTT(60), <1>0, <1>1, <1>2 DEF SyncInv, Continuous, Enabling, SizeKnown, SameViewer, n
<1> QED BY <1>2, <1>3, <1>8, <1>9, <1>10, <1>11, <1>12, <1>13, <1>14 DEF Good, SyncInv

\* A message that does not ask leaves the updates asked for as they are.
LEMMA TurnKept ==
  ASSUME NEW v, NEW s, NEW ts, NEW tv, NEW owed, Turn(v, s, ts, tv, owed),
         NEW m, NEW ts1, Longer(ts, m, ts1), m.type # "UpdateRequest"
  PROVE  Turn(v, s, ts1, tv, owed)
<1> DEFINE n == Len(ts)
<1>1. /\ n \in Nat /\ Len(ts1) = n + 1 /\ ts1[n + 1] = m /\ \A i \in 1 .. n : ts1[i] = ts[i]
  BY DEF Longer
<1> HIDE DEF n
<1>2. \A i \in 1 .. Len(ts1) : Asking(ts1, i) <=> i \in 1 .. n /\ Asking(ts, i)
  BY <1>1 DEF Asking, n
<1>3. SomeTurn(s, ts, tv, owed) => SomeTurn(s, ts1, tv, owed)
  BY <1>1, <1>2 DEF SomeTurn, n
<1>4. OneTurn(s, ts, tv, owed) => OneTurn(s, ts1, tv, owed)
  BY <1>2, <1>3 DEF OneTurn, n
<1> QED BY <1>3, <1>4 DEF Turn

\* A message that does not enable continuous updates leaves their area as it is.
LEMMA ContinuousKept ==
  ASSUME NEW v, NEW s, NEW ts, NEW tv, Continuous(v, s, ts, tv),
         NEW m, NEW ts1, Longer(ts, m, ts1), m.type # "EnableCU"
  PROVE  Continuous(v, s, ts1, tv)
<1> DEFINE n == Len(ts)
<1>1. /\ n \in Nat /\ Len(ts1) = n + 1 /\ ts1[n + 1] = m /\ \A i \in 1 .. n : ts1[i] = ts[i]
  BY DEF Longer
<1> HIDE DEF n
<1>2. \A i \in 1 .. Len(ts1) : Enabling(ts1, i) <=> Enabling(ts, i)
  BY <1>1 DEF Enabling, n
<1>3. \A i \in 1 .. n : ts1[i] = ts[i] /\ n <= Len(ts1)
  BY <1>1
<1>4. v.continuousUpdates =>
       \/ \E i \in 1 .. Len(ts1) : /\ Enabling(ts1, i) /\ ts1[i].size = v.size
                                   /\ \A j \in i + 1 .. Len(ts1) : ~Enabling(ts1, j)
       \/ /\ \A i \in 1 .. Len(ts1) : ~Enabling(ts1, i)
          /\ s.continuous /\ s.cuSize = v.size
  <2>1. CASE \E i \in 1 .. n : /\ Enabling(ts, i) /\ ts[i].size = v.size
                               /\ \A j \in i + 1 .. n : ~Enabling(ts, j)
    <3>1. PICK i \in 1 .. n : /\ Enabling(ts, i) /\ ts[i].size = v.size
                              /\ \A j \in i + 1 .. n : ~Enabling(ts, j)
      BY <2>1
    <3>2. \A j \in i + 1 .. Len(ts1) : ~Enabling(ts1, j)
      BY <1>1, <1>2, <3>1 DEF Enabling, n
    <3> QED BY <1>1, <1>2, <3>1, <3>2
  <2>2. CASE ~\E i \in 1 .. n : /\ Enabling(ts, i) /\ ts[i].size = v.size
                                /\ \A j \in i + 1 .. n : ~Enabling(ts, j)
    BY <1>2, <2>2 DEF Continuous, Enabling, n
  <2> QED BY <2>1, <2>2
<1> QED BY <1>2, <1>4 DEF Continuous, Enabling

\* The viewer enables continuous updates for the size it has, or has just been
\* told.
LEMMA SendEnable ==
  ASSUME NEW v, NEW s, NEW ts, NEW tv, NEW owed, Good(v, s, ts, tv, owed), v.started,
         v.supportsSyncFence, s.supportsFence,
         NEW w \in Viewer, SameViewer([v EXCEPT !.size = w.size, !.continuousUpdates = TRUE], w),
         SameFormat(v, w),
         w.size = v.size \/ \E i \in 1 .. Len(tv) : Resizing(tv, i),
         NEW ts1 \in Seq(ToServer), Longer(ts, EnableCUMsg(w.size), ts1)
  PROVE  Good(w, s, ts1, tv, owed)
<1> DEFINE n == Len(ts)
           m == EnableCUMsg(w.size)
<1>1. /\ n \in Nat /\ Len(ts1) = n + 1 /\ ts1[n + 1] = m /\ \A i \in 1 .. n : ts1[i] = ts[i]
  BY DEF Longer
<1>2. SyncInv(v, s, ts, tv, owed) /\ v \in Viewer
  BY DEF Good
<1>0. ~FormatFence(m) /\ ~Probe(m) /\ m.type = "EnableCU" /\ m.size = w.size
  BY DEF FormatFence, Probe, EnableCUMsg
<1> HIDE DEF m
<1>3. /\ w.started /\ w.rectsLeft = v.rectsLeft
      /\ w.supportsSyncFence /\ w.continuousUpdates
      /\ w.firstUpdate = v.firstUpdate /\ w.supportsCU = v.supportsCU
      /\ w.assertFailed = v.assertFailed
      /\ w.pf = v.pf /\ w.pendingPFChange = v.pendingPFChange /\ w.pendingPF = v.pendingPF
  BY <1>2 DEF SameViewer, SameFormat, Viewer
<1>4. Fresh(w, s, ts1, tv) /\ Shape(w, tv) /\ Pending(w)
  BY <1>2, <1>3 DEF SyncInv, Fresh, Shape, Pending
<1>5. Pairs(s, ts1)
  BY <1>0, <1>1, <1>2 DEF SyncInv, Pairs
<1>6. \A i \in 1 .. Len(ts1) : Bare(s, ts1, i) <=> i \in 1 .. n /\ Bare(s, ts, i)
  BY <1>0, <1>1 DEF Bare
<1> HIDE DEF n
<1>7. BareFirst(w, s, ts1, owed)
  <2>1. BareFirst(w, s, ts, owed)
    BY <1>2, <1>3 DEF SyncInv, BareFirst
  <2> QED BY SMTT(60), <1>0, <1>1, <1>6, <2>1 DEF BareFirst, n
<1>8. InFormat(w, s, ts1, tv)
  <2>1. PICK f \in [1 .. Len(tv) + 1 -> Format] :
          Follows(v, tv, f) /\ NextFormat(s, ts, f[Len(tv) + 1])
    BY <1>2 DEF SyncInv, InFormat
  <2>2. NextFormat(s, ts1, f[Len(tv) + 1])
    BY <1>1, <1>6, <2>1 DEF NextFormat, n
  <2>3. Follows(w, tv, f)
    BY <1>3, <2>1 DEF Follows, After
  <2> QED BY <2>2, <2>3 DEF InFormat
<1>9. Turn(w, s, ts1, tv, owed) /\ Unsynced(w, s, ts1, tv)
  BY <1>3 DEF Turn, Unsynced
<1>10. ProbeOnce(w, s, ts1, tv)
  BY <1>0, <1>1, <1>2, <1>3 DEF SyncInv, ProbeOnce, n
<1>11. Continuous(w, s, ts1, tv)
  <2>1. Enabling(ts1, n + 1) /\ ts1[n + 1].size = w.size /\ n + 1 \in 1 .. Len(ts1)
        /\ \A j \in n + 1 + 1 .. Len(ts1) : ~Enabling(ts1, j)
    BY <1>0, <1>1 DEF Enabling
  <2> QED BY <1>2, <1>3, <2>1 DEF SyncInv, Continuous
<1>12. SizeKnown(w, s, tv) /\ ~w.assertFailed
  BY <1>2, <1>3 DEF SyncInv, SizeKnown
<1> QED BY <1>2, <1>4, <1>5, <1>7, <1>8, <1>9, <1>10, <1>11, <1>12 DEF Good, SyncInv

\* Without continuous updates a new size changes nothing else.
LEMMA ResizeOnly ==
  ASSUME NEW v, NEW s, NEW ts, NEW tv, NEW owed, Good(v, s, ts, tv, owed), v.started,
         ~v.continuousUpdates, \E i \in 1 .. Len(tv) : Resizing(tv, i),
         NEW w \in Viewer, SameViewer([v EXCEPT !.size = w.size], w), SameFormat(v, w)
  PROVE  Good(w, s, ts, tv, owed)
<1>2. SyncInv(v, s, ts, tv, owed) /\ v \in Viewer
  BY DEF Good
<1>3. /\ w.started /\ w.rectsLeft = v.rectsLeft
      /\ w.supportsSyncFence = v.supportsSyncFence /\ w.continuousUpdates = v.continuousUpdates
      /\ w.firstUpdate = v.firstUpdate /\ w.supportsCU = v.supportsCU
      /\ w.assertFailed = v.assertFailed
      /\ w.pf = v.pf /\ w.pendingPFChange = v.pendingPFChange /\ w.pendingPF = v.pendingPF
  BY <1>2 DEF SameViewer, SameFormat, Viewer
<1>4. Fresh(w, s, ts, tv) /\ Shape(w, tv) /\ Pending(w) /\ BareFirst(w, s, ts, owed)
  BY <1>2, <1>3 DEF SyncInv, Fresh, Shape, Pending, BareFirst
<1>5. InFormat(w, s, ts, tv)
  BY <1>2, <1>3 DEF SyncInv, InFormat, Follows, After
<1>6. Turn(w, s, ts, tv, owed) /\ Unsynced(w, s, ts, tv) /\ ProbeOnce(w, s, ts, tv)
  BY <1>2, <1>3 DEF SyncInv, Turn, Unsynced, ProbeOnce
<1>7. Continuous(w, s, ts, tv) /\ SizeKnown(w, s, tv) /\ ~w.assertFailed
  BY <1>2, <1>3 DEF SyncInv, Continuous, SizeKnown
<1> QED BY <1>2, <1>4, <1>5, <1>6, <1>7 DEF Good, SyncInv

\* The first update ends: the viewer may send its probe, the fence without a
\* format.
LEMMA SendProbe ==
  ASSUME NEW v, NEW s, NEW ts, NEW tv, NEW owed, Good(v, s, ts, tv, owed), v.started,
         v.firstUpdate,
         NEW w \in Viewer, SameViewer([v EXCEPT !.firstUpdate = FALSE], w), SameFormat(v, w),
         NEW ts1 \in Seq(ToServer), Longer(ts, FenceMsg(TRUE, NoData), ts1)
  PROVE  Good(w, s, ts1, tv, owed) /\ Good(w, s, ts, tv, owed)
<1> DEFINE n == Len(ts)
           m == FenceMsg(TRUE, NoData)
<1>1. /\ n \in Nat /\ Len(ts1) = n + 1 /\ ts1[n + 1] = m /\ \A i \in 1 .. n : ts1[i] = ts[i]
  BY DEF Longer
<1>2. SyncInv(v, s, ts, tv, owed) /\ v \in Viewer
  BY DEF Good
<1>0. ~FormatFence(m) /\ Probe(m) /\ m.type = "Fence"
  BY DEF FormatFence, Probe, FenceMsg
<1> HIDE DEF m
<1>3. /\ w.started /\ w.rectsLeft = v.rectsLeft
      /\ w.supportsSyncFence = v.supportsSyncFence /\ w.continuousUpdates = v.continuousUpdates
      /\ ~w.firstUpdate /\ w.supportsCU = v.supportsCU
      /\ w.size = v.size /\ w.assertFailed = v.assertFailed
      /\ w.pf = v.pf /\ w.pendingPFChange = v.pendingPFChange /\ w.pendingPF = v.pendingPF
  BY <1>2 DEF SameViewer, SameFormat, Viewer
<1>4. /\ ~v.supportsSyncFence /\ ~ProbePending(s)
      /\ \A i \in 1 .. n : ~Probe(ts[i])
      /\ \A i \in 1 .. Len(tv) : ~ProbeReply(tv[i])
  BY <1>2 DEF SyncInv, ProbeOnce
<1>5. ProbeOnce(w, s, ts1, tv) /\ ProbeOnce(w, s, ts, tv)
  BY <1>0, <1>1, <1>3, <1>4 DEF ProbeOnce
<1>6. Fresh(w, s, ts1, tv) /\ Fresh(w, s, ts, tv) /\ Shape(w, tv) /\ Pending(w)
  BY <1>2, <1>3 DEF SyncInv, Fresh, Shape, Pending
<1>7. Pairs(s, ts1)
  BY SMTT(60), <1>0, <1>1, <1>2 DEF SyncInv, Pairs
<1>8. \A i \in 1 .. Len(ts1) : Bare(s, ts1, i) <=> i \in 1 .. n /\ Bare(s, ts, i)
  BY <1>0, <1>1 DEF Bare
<1> HIDE DEF n
<1>9. BareFirst(w, s, ts, owed)
  BY <1>2, <1>3 DEF SyncInv, BareFirst
<1>10. BareFirst(w, s, ts1, owed)
  BY SMTT(60), <1>0, <1>1, <1>8, <1>9 DEF BareFirst, n
<1>11. InFormat(w, s, ts1, tv) /\ InFormat(w, s, ts, tv)
  <2>1. PICK f \in [1 .. Len(tv) + 1 -> Format] :
          Follows(v, tv, f) /\ NextFormat(s, ts, f[Len(tv) + 1])
    BY <1>2 DEF SyncInv, InFormat
  <2>2. NextFormat(s, ts1, f[Len(tv) + 1])
    BY <1>1, <1>8, <2>1 DEF NextFormat, n
  <2>3. Follows(w, tv, f)
    BY <1>3, <2>1 DEF Follows, After
  <2> QED BY <2>1, <2>2, <2>3 DEF InFormat
<1>12. Turn(w, s, ts, tv, owed) /\ Unsynced(w, s, ts, tv)
  BY <1>2, <1>3 DEF SyncInv, Turn, Unsynced
<1>13. Turn(w, s, ts1, tv, owed) /\ Unsynced(w, s, ts1, tv)
  <2>1. Turn(w, s, ts1, tv, owed)
    BY <1>0, <1>12, TurnKept DEF m
  <2>2. Unsynced(w, s, ts1, tv)
    BY <1>0, <1>1, <1>12 DEF Unsynced, n
  <2> QED BY <2>1, <2>2
<1>14. Continuous(w, s, ts, tv) /\ SizeKnown(w, s, tv) /\ ~w.assertFailed
  BY <1>2, <1>3 DEF SyncInv, Continuous, SizeKnown
<1>15. Continuous(w, s, ts1, tv)
  BY <1>0, <1>14, ContinuousKept DEF m
<1> QED BY <1>1, <1>2, <1>5, <1>6, <1>7, <1>9, <1>10, <1>11, <1>12, <1>13, <1>14, <1>15
        DEF Good, SyncInv

\* The first update ends, and the server knows no fences: there is no probe.
LEMMA NoProbe ==
  ASSUME NEW v, NEW s, NEW ts, NEW tv, NEW owed, Good(v, s, ts, tv, owed), v.started
  PROVE  Good([v EXCEPT !.firstUpdate = FALSE], s, ts, tv, owed)
<1> DEFINE w == [v EXCEPT !.firstUpdate = FALSE]
<1>1. v \in Viewer /\ ts \in Seq(ToServer) /\ SyncInv(v, s, ts, tv, owed)
  BY DEF Good
<1>2. w \in Viewer /\ SameFormat(v, w) /\ SameViewer([v EXCEPT !.firstUpdate = FALSE], w)
  BY <1>1 DEF Viewer, SameFormat, SameViewer
<1>3. CASE v.firstUpdate
  <2>1. FenceMsg(TRUE, NoData) \in ToServer
    BY DEF FenceMsg, ToServer
  <2>2. Append(ts, FenceMsg(TRUE, NoData)) \in Seq(ToServer)
        /\ Longer(ts, FenceMsg(TRUE, NoData), Append(ts, FenceMsg(TRUE, NoData)))
    BY <1>1, <2>1, Appended
  <2> HIDE DEF w
  <2> QED BY <1>2, <1>3, <2>2, SendProbe DEF w
<1>4. CASE ~v.firstUpdate
  <2>1. SameViewer(v, w)
    BY <1>1, <1>4 DEF Viewer, SameViewer
  <2> QED BY <1>2, <2>1, ViewerFlags
<1> QED BY <1>3, <1>4

\* A viewer with what it has sent since the queue was q.
States == [v : Viewer, out : Seq(ToServer)]

GoodAfter(st, s, q, tv, owed) ==
  st \in States /\ q \in Seq(ToServer) /\ Good(st.v, s, q \o st.out, tv, owed)

Sending(v, out) == [v |-> v, out |-> out]

\* What the record of a viewer and its messages consists of.
LEMMA SendingIs ==
  ASSUME NEW v \in Viewer, NEW out \in Seq(ToServer)
  PROVE  /\ Sending(v, out) \in States
         /\ Sending(v, out).v = v /\ Sending(v, out).out = out
  BY DEF Sending, States

\* One more message.
LEMMA SendingMore ==
  ASSUME NEW v, NEW out, NEW m
  PROVE  Say(Sending(v, out), m) = Sending(v, Append(out, m))
  BY SMTT(60) DEF Sending, Say

\* An update of that record is one of the viewer in it: encodingChange.
LEMMA SendingEncoding ==
  ASSUME NEW v, NEW out, NEW b
  PROVE  [Sending(v, out) EXCEPT !.v.encodingChange = b]
           = Sending([v EXCEPT !.encodingChange = b], out)
  BY SMT DEF Sending

\* The same of forceNonincremental.
LEMMA SendingForce ==
  ASSUME NEW v, NEW out, NEW b
  PROVE  [Sending(v, out) EXCEPT !.v.forceNonincremental = b]
           = Sending([v EXCEPT !.forceNonincremental = b], out)
  BY SMT DEF Sending

\* The same of pendingUpdate.
LEMMA SendingPending ==
  ASSUME NEW v, NEW out, NEW b
  PROVE  [Sending(v, out) EXCEPT !.v.pendingUpdate = b]
           = Sending([v EXCEPT !.pendingUpdate = b], out)
  BY SMT DEF Sending

\* Two messages appended together, or one after the other.
LEMMA TwoMore ==
  ASSUME NEW S, NEW a \in S, NEW b \in S, NEW q \in Seq(S)
  PROVE  q \o <<a, b>> = Append(Append(q, a), b)
  BY SMT

\* A sequence of two messages.
LEMMA TwoFirst ==
  ASSUME NEW S, NEW a \in S, NEW b \in S
  PROVE  <<a, b>> \in Seq(S) /\ <<>> \o <<a, b>> = <<a, b>>
  OBVIOUS

\* A sequence of one.
LEMMA OneFirst ==
  ASSUME NEW S, NEW b \in S
  PROVE  <<b>> \in Seq(S) /\ <<>> \o <<b>> = <<b>>
  OBVIOUS

\* Every such record is made of a viewer and its messages.
LEMMA StateIs ==
  ASSUME NEW st \in States
  PROVE  st = Sending(st.v, st.out) /\ st.v \in Viewer /\ st.out \in Seq(ToServer)
  BY DEF States, Sending

\* What is sent last is behind all that is under way.
LEMMA AppendLast ==
  ASSUME NEW S, NEW q \in Seq(S), NEW o \in Seq(S), NEW m \in S
  PROVE  q \o Append(o, m) = Append(q \o o, m) /\ q \o o \in Seq(S)
<1>1. Append(o, m) = o \o <<m>> /\ <<m>> \in Seq(S) /\ q \o o \in Seq(S)
  BY AppendIsConcat
<1>2. (q \o o) \o <<m>> = q \o (o \o <<m>>)
  BY <1>1, ConcatAssociative
<1>3. Append(q \o o, m) = (q \o o) \o <<m>>
  BY <1>1, AppendIsConcat
<1> QED BY <1>1, <1>2, <1>3

\* The viewer says one thing more: what Say makes of the record and of the queue.
LEMMA Said ==
  ASSUME NEW v \in Viewer, NEW out \in Seq(ToServer), NEW q \in Seq(ToServer),
         NEW m \in ToServer
  PROVE  /\ Say(Sending(v, out), m) = Sending(v, Append(out, m))
         /\ Sending(v, Append(out, m)) \in States
         /\ Sending(v, Append(out, m)).v = v
         /\ Sending(v, Append(out, m)).out = Append(out, m)
         /\ q \o Append(out, m) \in Seq(ToServer)
         /\ Longer(q \o out, m, q \o Append(out, m))
<1>1. q \o out \in Seq(ToServer) /\ q \o Append(out, m) = Append(q \o out, m)
  BY AppendLast
<1>2. Append(q \o out, m) \in Seq(ToServer) /\ Longer(q \o out, m, Append(q \o out, m))
  BY <1>1, Appended
<1>3. Append(out, m) \in Seq(ToServer)
  BY Appended
<1>4. Longer(q \o out, m, q \o Append(out, m)) /\ q \o Append(out, m) \in Seq(ToServer)
  BY <1>1, <1>2
<1>5. Sending(v, Append(out, m)) \in States /\ Sending(v, Append(out, m)).v = v
      /\ Sending(v, Append(out, m)).out = Append(out, m)
  BY <1>3, SendingIs
<1> QED BY <1>4, <1>5, SendingMore, Zenon

\* All that the viewer sends are messages to the server.
LEMMA ToServerMessages ==
  /\ [type |-> "SetEncodings"] \in ToServer
  /\ \A pf \in Format : SetPixelFormatMsg(pf) \in ToServer /\ FenceMsg(TRUE, pf) \in ToServer
  /\ FenceMsg(TRUE, NoData) \in ToServer
  /\ \A b \in BOOLEAN : UpdateRequestMsg(b) \in ToServer
  /\ \A size \in Sizes : EnableCUMsg(size) \in ToServer
  /\ \A data \in Format \cup {NoData} : FenceMsg(FALSE, data) \in ToServer
<1>1. [type |-> "SetEncodings"] \in ToServer
  BY SMT DEF ToServer
<1>2. \A pf \in Format : SetPixelFormatMsg(pf) \in ToServer /\ FenceMsg(TRUE, pf) \in ToServer
  BY SMT DEF ToServer, SetPixelFormatMsg, FenceMsg
<1>3. FenceMsg(TRUE, NoData) \in ToServer
  BY SMT DEF ToServer, FenceMsg
<1>4. \A b \in BOOLEAN : UpdateRequestMsg(b) \in ToServer
  BY SMT DEF UpdateRequestMsg, ToServer
<1>5. \A size \in Sizes : EnableCUMsg(size) \in ToServer
  BY SMT DEF EnableCUMsg, ToServer
<1>6. \A data \in Format \cup {NoData} : FenceMsg(FALSE, data) \in ToServer
  BY SMT DEF FenceMsg, ToServer
<1> QED BY <1>1, <1>2, <1>3, <1>4, <1>5, <1>6, Zenon

\* requestNewUpdate, second part: the encodings are sent if they have changed.
LEMMA CheckEncodingsKeeps ==
  ASSUME NEW st, NEW s, NEW q, NEW tv, NEW owed, GoodAfter(st, s, q, tv, owed), st.v.started
  PROVE  /\ GoodAfter(CheckEncodings(st), s, q, tv, owed)
         /\ CheckEncodings(st).v = [st.v EXCEPT !.encodingChange = FALSE]
<1> DEFINE v == st.v
           out == st.out
           w == [v EXCEPT !.encodingChange = FALSE]
           m == [type |-> "SetEncodings"]
<1>1. /\ st = Sending(v, out) /\ v \in Viewer /\ out \in Seq(ToServer)
      /\ q \in Seq(ToServer) /\ Good(v, s, q \o out, tv, owed)
  BY StateIs DEF GoodAfter
<1>2. CASE ~v.encodingChange
  <2>1. v = w
    BY <1>1, <1>2 DEF Viewer
  <2> QED BY <1>2, <2>1 DEF CheckEncodings
<1>3. CASE v.encodingChange
  <2>1. w \in Viewer /\ SameViewer(v, w) /\ SameFormat(v, w) /\ w.started
    BY <1>1 DEF Viewer, SameViewer, SameFormat
  <2>2. m.type = "SetEncodings"
    OBVIOUS
  <2>3. m \in ToServer /\ Plain(m)
    BY <2>2, ToServerMessages DEF Plain, FormatFence, Probe
  <2>4. [Sending(v, out) EXCEPT !.v.encodingChange = FALSE] = Sending(w, out)
    BY SendingEncoding
  <2>5. CheckEncodings(st) = Say(Sending(w, out), m)
    BY <1>1, <1>3, <2>4 DEF CheckEncodings
  <2> HIDE DEF v, out, w, m
  <2>6. Good(w, s, q \o out, tv, owed)
    BY <1>1, <2>1, ViewerFlags DEF v
  <2>7. /\ CheckEncodings(st) \in States /\ CheckEncodings(st).v = w
        /\ CheckEncodings(st).out = Append(out, m)
        /\ q \o Append(out, m) \in Seq(ToServer)
        /\ Longer(q \o out, m, q \o Append(out, m))
    BY <1>1, <2>1, <2>3, <2>5, Said
  <2>8. Good(w, s, q \o Append(out, m), tv, owed)
    BY <2>1, <2>3, <2>6, <2>7, SendPlain
  <2> QED BY <1>1, <2>7, <2>8 DEF GoodAfter, w, v
<1> QED BY <1>2, <1>3

\* requestNewUpdate, last part: the update that is owed is asked for.
LEMMA AskForUpdateKeeps ==
  ASSUME NEW st, NEW s, NEW q, NEW tv, NEW owed, GoodAfter(st, s, q, tv, owed), st.v.started,
         ~st.v.supportsSyncFence => owed
  PROVE  GoodAfter(AskForUpdate(st), s, q, tv, FALSE)
<1> DEFINE v == st.v
           out == st.out
           force == v.forceNonincremental
           w == [v EXCEPT !.forceNonincremental = FALSE]
           x == [w EXCEPT !.pendingUpdate = TRUE]
           m == UpdateRequestMsg(~force)
<1>1. /\ st = Sending(v, out) /\ v \in Viewer /\ out \in Seq(ToServer)
      /\ q \in Seq(ToServer) /\ Good(v, s, q \o out, tv, owed)
  BY StateIs DEF GoodAfter
<1>2. w \in Viewer /\ SameViewer(v, w) /\ SameFormat(v, w)
  BY <1>1 DEF Viewer, SameViewer, SameFormat
<1>3. x \in Viewer /\ SameViewer(v, x) /\ SameFormat(v, x)
  BY <1>1 DEF Viewer, SameViewer, SameFormat
<1>4. m \in ToServer /\ m.type = "UpdateRequest"
  <2>1. (~force) \in BOOLEAN
    OBVIOUS
  <2> QED BY <2>1, ToServerMessages DEF UpdateRequestMsg
<1>5. [st EXCEPT !.v.forceNonincremental = FALSE] = Sending(w, out)
  <2>1. [Sending(v, out) EXCEPT !.v.forceNonincremental = FALSE] = Sending(w, out)
    BY SendingForce
  <2> QED BY <1>1, <2>1
<1>6. [Sending(w, out) EXCEPT !.v.pendingUpdate = TRUE] = Sending(x, out)
  BY ZenonT(60), SendingPending
<1>9. /\ x.started /\ x.supportsSyncFence = v.supportsSyncFence
      /\ w.supportsSyncFence = v.supportsSyncFence
      /\ w.continuousUpdates = v.continuousUpdates
  BY <1>2, <1>3 DEF SameViewer
<1>10. ASSUME force \/ ~v.continuousUpdates
       PROVE  AskForUpdate(st) = Say(Sending(x, out), m)
  BY <1>5, <1>6, <1>10 DEF AskForUpdate
<1>11. ASSUME ~(force \/ ~v.continuousUpdates)
       PROVE  AskForUpdate(st) = Sending(w, out)
  BY <1>5, <1>11 DEF AskForUpdate
<1>12. v.started /\ (~v.supportsSyncFence => owed)
  OBVIOUS
<1> HIDE DEF v, out, w, x, m
<1>7. Good(w, s, q \o out, tv, owed) /\ Good(x, s, q \o out, tv, owed)
  BY <1>1, <1>2, <1>3, <1>12, ViewerFlags
<1>13. CASE force \/ ~v.continuousUpdates
  <2>2. /\ AskForUpdate(st) \in States /\ AskForUpdate(st).v = x
        /\ AskForUpdate(st).out = Append(out, m)
        /\ q \o Append(out, m) \in Seq(ToServer)
        /\ Longer(q \o out, m, q \o Append(out, m))
    BY <1>1, <1>3, <1>4, <1>10, <1>13, Said
  <2>3. Good(x, s, q \o Append(out, m), tv, FALSE)
    BY <1>4, <1>7, <1>9, <1>12, <2>2, SendAsk
  <2> QED BY <1>1, <2>2, <2>3 DEF GoodAfter
<1>14. CASE ~(force \/ ~v.continuousUpdates)
  <2>1. AskForUpdate(st) \in States /\ AskForUpdate(st).v = w /\ AskForUpdate(st).out = out
    BY <1>1, <1>2, <1>11, <1>14, SendingIs
  <2>2. w.continuousUpdates
    BY <1>9, <1>14
  <2>3. w.supportsSyncFence
    BY <1>7, <2>2 DEF Good, SyncInv, Unsynced
  <2>4. Good(w, s, q \o out, tv, FALSE)
    BY <1>7, <2>2, <2>3, AskNothing
  <2> QED BY <1>1, <2>1, <2>4 DEF GoodAfter
<1> QED BY <1>13, <1>14

\* Without fences the viewer asks only at the start of an update, when nothing else is.
MayAsk(v, s, q, owed) ==
  ~v.supportsSyncFence => /\ owed = TRUE /\ v.rectsLeft /\ ~v.pendingUpdate
                          /\ \A i \in 1 .. Len(q) : ~Bare(s, q, i)

\* The viewer w is v with a new format set aside.
FormatAside(v, failed, change, next, w) ==
  /\ w \in Viewer /\ w.started = v.started /\ w.rectsLeft = v.rectsLeft
  /\ w.supportsSyncFence = v.supportsSyncFence
  /\ w.continuousUpdates = v.continuousUpdates
  /\ w.firstUpdate = v.firstUpdate /\ w.supportsCU = v.supportsCU
  /\ w.size = v.size /\ w.pf = v.pf
  /\ w.assertFailed = failed /\ w.pendingPFChange = change /\ w.pendingPF = next

\* What setting the new format aside does to the viewer.
LEMMA FormatSetAside ==
  ASSUME NEW v \in Viewer, NEW failed \in BOOLEAN, NEW change \in BOOLEAN,
         NEW next \in Format
  PROVE  FormatAside(v, failed, change, next,
                     [v EXCEPT !.formatChange = FALSE, !.assertFailed = failed,
                               !.pendingPFChange = change, !.pendingPF = next])
<1> DEFINE w == [v EXCEPT !.formatChange = FALSE, !.assertFailed = failed,
                          !.pendingPFChange = change, !.pendingPF = next]
<1>1. w \in Viewer
  BY ZenonT(60) DEF Viewer
<1>2. /\ w.started = v.started /\ w.rectsLeft = v.rectsLeft
      /\ w.supportsSyncFence = v.supportsSyncFence
      /\ w.continuousUpdates = v.continuousUpdates
      /\ w.firstUpdate = v.firstUpdate /\ w.supportsCU = v.supportsCU
      /\ w.size = v.size /\ w.pf = v.pf
  BY DEF Viewer
<1>3. w.assertFailed = failed /\ w.pendingPFChange = change /\ w.pendingPF = next
  BY DEF Viewer
<1> QED BY <1>1, <1>2, <1>3, Zenon DEF FormatAside

\* requestNewUpdate, first part: a new format is fenced, or is set aside until the
\* end of the update.
LEMMA NewFormatKeeps ==
  ASSUME NEW v \in Viewer, NEW s, NEW q \in Seq(ToServer), NEW tv, NEW owed,
         Good(v, s, q, tv, owed), v.started, NEW pf \in Format,
         MayAsk(v, s, q, owed)
  PROVE  /\ GoodAfter(NewFormat(Start(v), pf), s, q, tv, owed)
         /\ NewFormat(Start(v), pf).v.started
         /\ NewFormat(Start(v), pf).v.supportsSyncFence = v.supportsSyncFence
<1> DEFINE st == Start(v)
           failed == v.assertFailed \/ (v.pendingUpdate /\ ~v.supportsSyncFence)
           change == v.pendingPFChange \/ ~v.supportsSyncFence
           next == IF v.supportsSyncFence THEN v.pendingPF ELSE pf
           w == [v EXCEPT !.formatChange = FALSE, !.assertFailed = failed,
                          !.pendingPFChange = change, !.pendingPF = next]
           a == FenceMsg(TRUE, pf)
           b == SetPixelFormatMsg(pf)
           out == IF v.supportsSyncFence THEN <<a, b>> ELSE <<b>>
<1>1. st = Sending(v, <<>>) /\ st \in States /\ st.v = v /\ st.out = <<>>
  <2>1. st = Sending(v, <<>>)
    BY Zenon DEF Start, Sending
  <2>2. <<>> \in Seq(ToServer)
    OBVIOUS
  <2> HIDE DEF st
  <2> QED BY <2>1, <2>2, SendingIs
<1>2. q \o <<>> = q
  OBVIOUS
<1>3. a \in ToServer /\ b \in ToServer
  BY ToServerMessages
<1>4. CASE ~v.formatChange
  <2>1. NewFormat(st, pf) = st
    BY <1>1, <1>4 DEF NewFormat
  <2> QED BY <1>1, <1>2, <2>1 DEF GoodAfter
<1>5. CASE v.formatChange
  <2>1. NewFormat(st, pf) = [v |-> w, out |-> <<>> \o out]
    BY <1>1, <1>5 DEF NewFormat
  <2>2. /\ w \in Viewer /\ w.started = v.started /\ w.rectsLeft = v.rectsLeft
        /\ w.supportsSyncFence = v.supportsSyncFence
        /\ w.continuousUpdates = v.continuousUpdates
        /\ w.firstUpdate = v.firstUpdate /\ w.supportsCU = v.supportsCU
        /\ w.size = v.size /\ w.pf = v.pf
        /\ w.assertFailed = failed /\ w.pendingPFChange = change /\ w.pendingPF = next
    <3>0. /\ v.assertFailed \in BOOLEAN /\ v.pendingUpdate \in BOOLEAN
          /\ v.supportsSyncFence \in BOOLEAN /\ v.pendingPFChange \in BOOLEAN
          /\ v.pendingPF \in Format
      BY DEF Viewer
    <3>4. failed \in BOOLEAN
      BY <3>0, Zenon
    <3>5. change \in BOOLEAN
      BY <3>0, Zenon
    <3>6. next \in Format
      BY <3>0
    <3>1. failed \in BOOLEAN /\ change \in BOOLEAN /\ next \in Format
      BY <3>4, <3>5, <3>6
    <3> HIDE DEF failed, change, next
    <3>2. FormatAside(v, failed, change, next, w)
      BY <3>1, FormatSetAside
    <3> HIDE DEF w
    <3> QED BY <3>2, Zenon DEF FormatAside
  <2>3. v.assertFailed \in BOOLEAN /\ v.pendingPFChange \in BOOLEAN /\ v.supportsSyncFence \in BOOLEAN
    BY DEF Viewer
  <2> HIDE DEF w
  <2>7. failed = v.assertFailed
    BY <2>3, Zenon DEF MayAsk
  <2> HIDE DEF failed
  <2>4. SameViewer(v, w)
    BY <2>2, <2>7, Zenon DEF SameViewer
  <2>5. CASE v.supportsSyncFence
    <3> DEFINE q1 == Append(q, a)
               q2 == Append(q1, b)
    <3>1. <<>> \o out = <<a, b>> /\ <<a, b>> \in Seq(ToServer)
      <4>1. out = <<a, b>>
        BY <2>5
      <4> HIDE DEF a, b, out
      <4> QED BY <1>3, <4>1, TwoFirst
    <3>2. q \o <<a, b>> = q2
      BY <1>3, TwoMore
    <3>3. q1 \in Seq(ToServer) /\ Longer(q, a, q1)
      BY <1>3, Appended
    <3>4. q2 \in Seq(ToServer) /\ Longer(q1, b, q2)
      BY <1>3, <3>3, Appended
    <3>5. SameFormat(v, w)
      BY <2>2, <2>3, <2>5 DEF SameFormat
    <3> HIDE DEF q1, q2, a, b, out
    <3>6. Good(v, s, q2, tv, owed)
      BY <2>5, <3>3, <3>4, SendFenced DEF a, b
    <3>7. Good(w, s, q2, tv, owed)
      BY <2>2, <2>4, <3>5, <3>6, ViewerFlags
    <3>8. NewFormat(st, pf) = [v |-> w, out |-> <<a, b>>]
      BY <2>1, <3>1
    <3>9. NewFormat(st, pf) \in States /\ NewFormat(st, pf).v = w
          /\ NewFormat(st, pf).out = <<a, b>>
      BY <2>2, <3>1, <3>8 DEF States
    <3> QED BY <2>2, <3>2, <3>7, <3>9 DEF GoodAfter
  <2>6. CASE ~v.supportsSyncFence
    <3> DEFINE q1 == Append(q, b)
    <3>1. <<>> \o out = <<b>> /\ <<b>> \in Seq(ToServer)
      <4>1. out = <<b>>
        BY <2>6
      <4> HIDE DEF a, b, out
      <4> QED BY <1>3, <4>1, OneFirst
    <3>2. q \o <<b>> = q1 /\ q1 \in Seq(ToServer) /\ Longer(q, b, q1)
      BY <1>3, Appended
    <3> HIDE DEF q1, b, out
    <3>3. w.pendingPFChange = TRUE /\ w.pendingPF = pf
      BY <2>2, <2>3, <2>6
    <3>4. Good(w, s, q1, tv, TRUE)
      BY <2>2, <2>4, <2>6, <3>2, <3>3, SendBare DEF b, MayAsk
    <3>5. NewFormat(st, pf) = [v |-> w, out |-> <<b>>]
      BY <2>1, <3>1
    <3>6. NewFormat(st, pf) \in States /\ NewFormat(st, pf).v = w
          /\ NewFormat(st, pf).out = <<b>>
      BY <2>2, <3>1, <3>5 DEF States
    <3>7. owed = TRUE
      BY <2>6 DEF MayAsk
    <3>8. Good(NewFormat(st, pf).v, s, q \o NewFormat(st, pf).out, tv, owed)
      BY <3>2, <3>4, <3>6, <3>7
    <3> QED BY <2>2, <3>6, <3>8 DEF GoodAfter
  <2> QED BY <2>5, <2>6
<1> QED BY <1>4, <1>5

\* requestNewUpdate as a whole, where the viewer may ask.
LEMMA RequestKeeps ==
  ASSUME NEW v \in Viewer, NEW s, NEW q \in Seq(ToServer), NEW tv, NEW owed,
         Good(v, s, q, tv, owed), v.started, NEW pf \in Format,
         MayAsk(v, s, q, owed)
  PROVE  GoodAfter(RequestNewUpdate(Start(v), pf), s, q, tv, FALSE)
<1> DEFINE a == NewFormat(Start(v), pf)
           b == CheckEncodings(a)
<1>1. /\ GoodAfter(a, s, q, tv, owed) /\ a.v.started
      /\ a.v.supportsSyncFence = v.supportsSyncFence
  BY NewFormatKeeps
<1> HIDE DEF a
<1>2. GoodAfter(b, s, q, tv, owed) /\ b.v = [a.v EXCEPT !.encodingChange = FALSE]
  BY <1>1, CheckEncodingsKeeps
<1> HIDE DEF b
<1>3. b.v.started /\ b.v.supportsSyncFence = a.v.supportsSyncFence
  <2>1. a.v \in Viewer
    BY <1>1 DEF GoodAfter, States
  <2> QED BY <1>1, <1>2, <2>1 DEF Viewer
<1>4. GoodAfter(AskForUpdate(b), s, q, tv, FALSE)
  <2>1. ~b.v.supportsSyncFence => owed
    BY <1>1, <1>3 DEF MayAsk
  <2> QED BY <1>2, <1>3, <2>1, AskForUpdateKeeps
<1> QED BY <1>4 DEF RequestNewUpdate, a, b

-----------------------------------------------------------------------------
\* What the viewer reads.  Each part of the invariant, for a shorter queue.
LEMMA PopShape ==
  ASSUME NEW v, NEW tv, NEW tv1, Shape(v, tv), Shorter(tv, tv1)
  PROVE  /\ Len(tv1) > 0 /\ EndsIt(tv1[1]) <=> tv[1].type = "UpdateStart"
         /\ \A i \in 1 .. Len(tv1) :
              /\ tv1[i].type = "UpdateStart" => i < Len(tv1) /\ EndsIt(tv1[i + 1])
              /\ EndsIt(tv1[i]) /\ i > 1 => tv1[i - 1].type = "UpdateStart"
<1> DEFINE n == Len(tv1)
<1>1. n \in Nat /\ Len(tv) = n + 1 /\ \A i \in 1 .. n : tv1[i] = tv[i + 1]
  BY DEF Shorter
<1>2. \A i \in 1 .. n + 1 :
        /\ tv[i].type = "UpdateStart" => i < n + 1 /\ EndsIt(tv[i + 1])
        /\ EndsIt(tv[i]) /\ i > 1 => tv[i - 1].type = "UpdateStart"
  BY <1>1 DEF Shape
<1> HIDE DEF n
<1>3. n > 0 /\ EndsIt(tv1[1]) <=> tv[1].type = "UpdateStart"
  <2>1. ASSUME n > 0, EndsIt(tv1[1]) PROVE tv[1].type = "UpdateStart"
    <3>1. tv1[1] = tv[2] /\ 2 \in 1 .. n + 1
      BY <1>1, <2>1
    <3> QED BY <1>2, <2>1, <3>1
  <2>2. ASSUME tv[1].type = "UpdateStart" PROVE n > 0 /\ EndsIt(tv1[1])
    <3>1. 1 < n + 1 /\ EndsIt(tv[2])
      BY <1>1, <1>2, <2>2
    <3> QED BY <1>1, <3>1
  <2> QED BY <2>1, <2>2
<1>4. ASSUME NEW i \in 1 .. n
      PROVE  /\ tv1[i].type = "UpdateStart" => i < n /\ EndsIt(tv1[i + 1])
             /\ EndsIt(tv1[i]) /\ i > 1 => tv1[i - 1].type = "UpdateStart"
  <2>1. tv1[i] = tv[i + 1] /\ i + 1 \in 1 .. n + 1
    BY <1>1
  <2>2. tv1[i].type = "UpdateStart" => i < n /\ EndsIt(tv1[i + 1])
    BY <1>1, <1>2, <2>1
  <2>3. EndsIt(tv1[i]) /\ i > 1 => tv1[i - 1].type = "UpdateStart"
    BY <1>1, <1>2, <2>1
  <2> QED BY <2>2, <2>3
<1> QED BY <1>3, <1>4 DEF n

\* The viewer reads a message and has the format that the next one is in.
LEMMA PopInFormat ==
  ASSUME NEW v, NEW s, NEW ts, NEW tv, NEW tv1, InFormat(v, s, ts, tv), Shorter(tv, tv1),
         NEW w, w.pf = After(v, tv[1], 1, v.pf), ~w.pendingPFChange
  PROVE  InFormat(w, s, ts, tv1)
<1> DEFINE n == Len(tv1)
<1>1. n \in Nat /\ Len(tv) = n + 1 /\ \A i \in 1 .. n : tv1[i] = tv[i + 1]
  BY DEF Shorter
<1>2. PICK f \in [1 .. n + 2 -> Format] : Follows(v, tv, f) /\ NextFormat(s, ts, f[n + 2])
  <2>1. Len(tv) + 1 = n + 2
    BY <1>1
  <2> QED BY <2>1 DEF InFormat
<1> DEFINE g == [i \in 1 .. n + 1 |-> f[i + 1]]
<1>3. g \in [1 .. n + 1 -> Format] /\ \A i \in 1 .. n + 1 : g[i] = f[i + 1]
  BY <1>1
<1> HIDE DEF g, n
<1>4. /\ f[1] = v.pf
      /\ \A i \in 1 .. n + 1 : /\ f[i + 1] = After(v, tv[i], i, f[i])
                               /\ tv[i].type = "Rect" => tv[i].pf = f[i]
  BY <1>1, <1>2 DEF Follows
<1>5. g[1] = w.pf
  <2>1. g[1] = f[2] /\ f[2] = After(v, tv[1], 1, f[1])
    BY <1>1, <1>3, <1>4
  <2> QED BY <1>4, <2>1
<1>6. ASSUME NEW i \in 1 .. n
      PROVE  /\ g[i + 1] = After(w, tv1[i], i, g[i])
             /\ tv1[i].type = "Rect" => tv1[i].pf = g[i]
  <2> DEFINE j == i + 1
  <2>1. j \in 1 .. n + 1 /\ j # 1 /\ tv1[i] = tv[j] /\ g[i] = f[j] /\ g[i + 1] = f[j + 1]
    BY <1>1, <1>3
  <2>2. f[j + 1] = After(v, tv[j], j, f[j]) /\ (tv[j].type = "Rect" => tv[j].pf = f[j])
    BY <1>4, <2>1
  <2> HIDE DEF j
  <2>3. After(v, tv[j], j, f[j]) = After(w, tv[j], i, f[j])
    BY <2>1 DEF After
  <2> QED BY <2>1, <2>2, <2>3
<1>7. Follows(w, tv1, g)
  BY <1>3, <1>5, <1>6 DEF Follows, n
<1>8. NextFormat(s, ts, g[n + 1])
  <2>1. g[n + 1] = f[n + 2]
    BY <1>1, <1>3
  <2> QED BY <1>2, <2>1
<1> QED BY <1>3, <1>7, <1>8 DEF InFormat, n

\* The viewer reads a message that does not begin an update.
LEMMA PopTurn ==
  ASSUME NEW v, NEW s, NEW ts, NEW tv, NEW tv1, NEW owed, Turn(v, s, ts, tv, owed),
         Shorter(tv, tv1), tv[1].type # "UpdateStart"
  PROVE  Turn(v, s, ts, tv1, owed)
<1> DEFINE n == Len(tv1)
<1>1. n \in Nat /\ Len(tv) = n + 1 /\ \A i \in 1 .. n : tv1[i] = tv[i + 1]
  BY DEF Shorter
<1> HIDE DEF n
<1>2. \A i \in 1 .. n : Coming(tv1, i) <=> Coming(tv, i + 1)
  BY <1>1 DEF Coming, n
<1>3. SomeTurn(s, ts, tv, owed) => SomeTurn(s, ts, tv1, owed)
  <2>1. ASSUME NEW i \in 1 .. Len(tv), Coming(tv, i) PROVE \E j \in 1 .. n : Coming(tv1, j)
    <3>1. i # 1
      BY <2>1 DEF Coming
    <3>2. i - 1 \in 1 .. n /\ (i - 1) + 1 = i
      BY <1>1, <3>1
    <3> QED BY <1>2, <2>1, <3>2
  <2> QED BY <2>1 DEF SomeTurn, n
<1>4. OneTurn(s, ts, tv, owed) => OneTurn(s, ts, tv1, owed)
  <2> SUFFICES ASSUME OneTurn(s, ts, tv, owed) PROVE OneTurn(s, ts, tv1, owed)
    OBVIOUS
  <2>1. \A i, j \in 1 .. n : Coming(tv1, i) /\ Coming(tv1, j) => i = j
    <3> SUFFICES ASSUME NEW i \in 1 .. n, NEW j \in 1 .. n, Coming(tv1, i), Coming(tv1, j)
                 PROVE  i = j
      OBVIOUS
    <3>1. Coming(tv, i + 1) /\ Coming(tv, j + 1)
      BY <1>2
    <3>2. i + 1 \in 1 .. Len(tv) /\ j + 1 \in 1 .. Len(tv)
      BY <1>1
    <3>3. i + 1 = j + 1
      BY <3>1, <3>2 DEF OneTurn
    <3> QED BY <3>3
  <2>2. \A i \in 1 .. n : Coming(tv1, i) =>
          ~s.requested /\ ~owed /\ \A j \in 1 .. Len(ts) : ~Asking(ts, j)
    <3> SUFFICES ASSUME NEW i \in 1 .. n, Coming(tv1, i)
                 PROVE  ~s.requested /\ ~owed /\ \A j \in 1 .. Len(ts) : ~Asking(ts, j)
      OBVIOUS
    <3>1. Coming(tv, i + 1) /\ i + 1 \in 1 .. Len(tv)
      BY <1>1, <1>2
    <3> QED BY <3>1 DEF OneTurn
  <2> QED BY <1>3, <2>1, <2>2 DEF OneTurn, n
<1> QED BY <1>3, <1>4 DEF Turn

\* The viewer reads a message and knows the size as before.
LEMMA PopSize ==
  ASSUME NEW v, NEW s, NEW tv, NEW tv1, SizeKnown(v, s, tv), Shorter(tv, tv1),
         tv[1].type = "SizeRect" => v.size = tv[1].size
  PROVE  SizeKnown(v, s, tv1)
<1> DEFINE n == Len(tv1)
<1>1. n \in Nat /\ Len(tv) = n + 1 /\ \A i \in 1 .. n : tv1[i] = tv[i + 1]
  BY DEF Shorter
<1> HIDE DEF n
<1>2. \A i \in 1 .. n : Resizing(tv1, i) <=> Resizing(tv, i + 1)
  BY <1>1 DEF Resizing, n
<1>3. CASE \E i \in 1 .. Len(tv) : /\ Resizing(tv, i) /\ tv[i].size = s.size
                                   /\ \A j \in i + 1 .. Len(tv) : ~Resizing(tv, j)
  <2>1. PICK i \in 1 .. Len(tv) : /\ Resizing(tv, i) /\ tv[i].size = s.size
                                  /\ \A j \in i + 1 .. Len(tv) : ~Resizing(tv, j)
    BY <1>3
  <2>2. CASE i = 1
    <3>1. v.size = s.size
      BY <2>1, <2>2 DEF Resizing
    <3>2. ASSUME NEW j \in 1 .. n PROVE ~Resizing(tv1, j)
      <4>1. j + 1 \in i + 1 .. Len(tv)
        BY <1>1, <2>2
      <4> QED BY <1>2, <2>1, <4>1
    <3> QED BY <3>1, <3>2 DEF SizeKnown, n
  <2>3. CASE i # 1
    <3> DEFINE k == i - 1
    <3>1. k \in 1 .. n /\ k + 1 = i
      BY <1>1, <2>3
    <3>2. Resizing(tv1, k) /\ tv1[k].size = s.size
      BY <1>1, <1>2, <2>1, <3>1
    <3>3. ASSUME NEW j \in k + 1 .. n PROVE ~Resizing(tv1, j)
      <4>1. j + 1 \in i + 1 .. Len(tv) /\ j \in 1 .. n
        BY <1>1, <3>1
      <4> QED BY <1>2, <2>1, <4>1
    <3> QED BY <3>1, <3>2, <3>3 DEF SizeKnown, n
  <2> QED BY <2>2, <2>3
<1>4. CASE (\A i \in 1 .. Len(tv) : ~Resizing(tv, i)) /\ v.size = s.size
  <2>1. ASSUME NEW j \in 1 .. n PROVE ~Resizing(tv1, j)
    <3>1. j + 1 \in 1 .. Len(tv)
      BY <1>1
    <3> QED BY <1>2, <1>4, <3>1
  <2> QED BY <1>4, <2>1 DEF SizeKnown, n
<1>5. CASE s.newSize
  BY <1>5 DEF SizeKnown
<1> QED BY <1>3, <1>4, <1>5 DEF SizeKnown

\* Reading a message disturbs neither the fences nor continuous updates.
LEMMA PopOthers ==
  ASSUME NEW v, NEW s, NEW ts, NEW tv, NEW tv1, Shorter(tv, tv1),
         Unsynced(v, s, ts, tv), ProbeOnce(v, s, ts, tv), Continuous(v, s, ts, tv)
  PROVE  Unsynced(v, s, ts, tv1) /\ ProbeOnce(v, s, ts, tv1) /\ Continuous(v, s, ts, tv1)
<1> DEFINE n == Len(tv1)
<1>1. n \in Nat /\ Len(tv) = n + 1 /\ \A i \in 1 .. n : tv1[i] = tv[i + 1]
  BY DEF Shorter
<1> HIDE DEF n
<1>2. \A i \in 1 .. n : i + 1 \in 1 .. Len(tv) /\ tv1[i] = tv[i + 1]
  BY <1>1
<1>3. Unsynced(v, s, ts, tv1)
  BY <1>2 DEF Unsynced, n
<1>4. ProbeOnce(v, s, ts, tv1)
  <2>1. (\A j \in 1 .. Len(tv) : ~ProbeReply(tv[j])) => \A j \in 1 .. n : ~ProbeReply(tv1[j])
    BY <1>2
  <2>2. ASSUME NEW i \in 1 .. n, ProbeReply(tv1[i])
        PROVE  /\ ~v.firstUpdate /\ ~v.supportsSyncFence
               /\ \A j \in 1 .. n : ProbeReply(tv1[j]) => j = i
    <3>1. i + 1 \in 1 .. Len(tv) /\ ProbeReply(tv[i + 1])
      BY <1>2, <2>2
    <3>2. /\ ~v.firstUpdate /\ ~v.supportsSyncFence
          /\ \A j \in 1 .. Len(tv) : ProbeReply(tv[j]) => j = i + 1
      BY <3>1 DEF ProbeOnce
    <3>3. ASSUME NEW j \in 1 .. n, ProbeReply(tv1[j]) PROVE j = i
      <4>1. j + 1 \in 1 .. Len(tv) /\ ProbeReply(tv[j + 1])
        BY <1>2, <3>3
      <4>2. j + 1 = i + 1
        BY <3>2, <4>1
      <4> QED BY <4>2
    <3> QED BY <3>2, <3>3
  <2> QED BY <2>1, <2>2 DEF ProbeOnce, n
<1>5. Continuous(v, s, ts, tv1)
  BY <1>2 DEF Continuous, n
<1> QED BY <1>3, <1>4, <1>5

\* The last of an update: the viewer changes its format if that was waiting for it.
LEMMA PopEnd ==
  ASSUME NEW v, NEW s, NEW ts, NEW tv, NEW owed, Good(v, s, ts, tv, owed), v.started,
         NEW tv1 \in Seq(ToViewer), Shorter(tv, tv1), EndsIt(tv[1]),
         tv[1].type = "SizeRect" => v.size = tv[1].size,
         NEW w \in Viewer, w.started = v.started, ~w.rectsLeft, ~w.pendingPFChange,
         w.supportsSyncFence = v.supportsSyncFence,
         w.continuousUpdates = v.continuousUpdates,
         w.firstUpdate = v.firstUpdate, w.supportsCU = v.supportsCU,
         w.size = v.size, w.assertFailed = v.assertFailed,
         w.pf = IF v.pendingPFChange THEN v.pendingPF ELSE v.pf
  PROVE  Good(w, s, ts, tv1, owed)
<1>1. SyncInv(v, s, ts, tv, owed)
  BY DEF Good
<1>2. tv[1].type # "UpdateStart"
  BY DEF EndsIt
<1>3. Fresh(w, s, ts, tv1) /\ Pending(w)
  BY DEF Fresh, Pending
<1>4. Shape(w, tv1)
  BY <1>1, <1>2, PopShape DEF SyncInv, Shape
<1>5. BareFirst(w, s, ts, owed)
  BY <1>1 DEF SyncInv, BareFirst
<1>6. w.pf = After(v, tv[1], 1, v.pf)
  BY DEF After, Switch, EndsIt
<1>7. InFormat(w, s, ts, tv1)
  BY <1>1, <1>6, PopInFormat DEF SyncInv
<1>8. Turn(v, s, ts, tv1, owed)
  BY <1>1, <1>2, PopTurn DEF SyncInv
<1>9. Turn(w, s, ts, tv1, owed)
  BY <1>8 DEF Turn
<1>10. SizeKnown(v, s, tv1)
  BY <1>1, PopSize DEF SyncInv
<1>11. SizeKnown(w, s, tv1)
  BY <1>10 DEF SizeKnown
<1>12. Unsynced(v, s, ts, tv1) /\ ProbeOnce(v, s, ts, tv1) /\ Continuous(v, s, ts, tv1)
  BY <1>1, PopOthers DEF SyncInv
<1>13. Unsynced(w, s, ts, tv1) /\ ProbeOnce(w, s, ts, tv1) /\ Continuous(w, s, ts, tv1)
  BY <1>12 DEF Unsynced, ProbeOnce, Continuous
<1> QED BY <1>1, <1>3, <1>4, <1>5, <1>7, <1>9, <1>11, <1>13 DEF Good, SyncInv

\* The start of one: the viewer is about to ask for the next.
LEMMA PopStart ==
  ASSUME NEW v, NEW s, NEW ts, NEW tv, Good(v, s, ts, tv, FALSE), v.started,
         NEW tv1 \in Seq(ToViewer), Shorter(tv, tv1), tv[1].type = "UpdateStart",
         NEW w \in Viewer, w.started = v.started, w.rectsLeft,
         w.pendingPFChange = v.pendingPFChange,
         w.supportsSyncFence = v.supportsSyncFence,
         w.continuousUpdates = v.continuousUpdates,
         w.firstUpdate = v.firstUpdate, w.supportsCU = v.supportsCU,
         w.size = v.size, w.assertFailed = v.assertFailed, w.pf = v.pf, ~w.pendingUpdate
  PROVE  Good(w, s, ts, tv1, TRUE) /\ MayAsk(w, s, ts, TRUE)
<1>1. SyncInv(v, s, ts, tv, FALSE)
  BY DEF Good
<1>2. Len(tv) > 0 /\ Len(tv) \in Nat /\ Len(tv1) \in Nat /\ Len(tv) = Len(tv1) + 1
      /\ ~EndsIt(tv[1]) /\ Coming(tv, 1)
  BY DEF Shorter, EndsIt, Coming
<1>3. ~v.pendingPFChange
  BY <1>1, <1>2 DEF SyncInv, Shape, Pending
<1>4. Fresh(w, s, ts, tv1) /\ Pending(w)
  BY <1>3 DEF Fresh, Pending
<1>5. Shape(w, tv1)
  BY PopShape, <1>1 DEF SyncInv, Shape
<1>6. BareFirst(w, s, ts, TRUE)
  BY <1>1 DEF SyncInv, BareFirst
<1>7. w.pf = After(v, tv[1], 1, v.pf)
  BY <1>2 DEF After, Switch
<1>8. InFormat(w, s, ts, tv1)
  BY <1>1, <1>3, <1>7, PopInFormat DEF SyncInv
<1>9. ~v.supportsSyncFence =>
        /\ ~s.requested
        /\ \A j \in 1 .. Len(ts) : ~Asking(ts, j)
        /\ \A i \in 1 .. Len(tv) : Coming(tv, i) => i = 1
  BY <1>1, <1>2 DEF SyncInv, Turn, OneTurn
<1>10. Turn(w, s, ts, tv1, TRUE)
  <2>1. SomeTurn(s, ts, tv1, TRUE)
    BY DEF SomeTurn
  <2>2. ASSUME ~v.supportsSyncFence PROVE OneTurn(s, ts, tv1, TRUE)
    <3>1. \A i \in 1 .. Len(tv1) : ~Coming(tv1, i)
      <4>1. ASSUME NEW i \in 1 .. Len(tv1), Coming(tv1, i) PROVE FALSE
        <5>1. i + 1 \in 1 .. Len(tv) /\ Coming(tv, i + 1)
          BY <1>2, <4>1 DEF Coming, Shorter
        <5>2. i + 1 = 1
          BY <1>9, <2>2, <5>1
        <5> QED BY <1>2, <5>2
      <4> QED BY <4>1
    <3> QED BY <1>9, <2>1, <2>2, <3>1 DEF OneTurn
  <2> QED BY <2>1, <2>2 DEF Turn
<1>11. SizeKnown(v, s, tv1)
  BY <1>1, PopSize DEF SyncInv
<1>12. SizeKnown(w, s, tv1)
  BY <1>11 DEF SizeKnown
<1>13. Unsynced(v, s, ts, tv1) /\ ProbeOnce(v, s, ts, tv1) /\ Continuous(v, s, ts, tv1)
  BY <1>1, PopOthers DEF SyncInv
<1>14. Unsynced(w, s, ts, tv1) /\ ProbeOnce(w, s, ts, tv1) /\ Continuous(w, s, ts, tv1)
  BY <1>13 DEF Unsynced, ProbeOnce, Continuous
<1>15. Good(w, s, ts, tv1, TRUE)
  BY <1>1, <1>4, <1>5, <1>6, <1>8, <1>10, <1>12, <1>14 DEF Good, SyncInv
<1>16. ASSUME ~v.supportsSyncFence, NEW i \in 1 .. Len(ts), Bare(s, ts, i) PROVE FALSE
  <2>1. \E k \in i + 1 .. Len(ts) : ts[k].type = "UpdateRequest"
    BY <1>1, <1>16 DEF SyncInv, BareFirst
  <2> QED BY <1>9, <1>16, <2>1 DEF Asking
<1> QED BY <1>15, <1>16 DEF MayAsk

\* Anything else: a fence, or the announcement of continuous updates.
LEMMA PopOther ==
  ASSUME NEW v, NEW s, NEW ts, NEW tv, Good(v, s, ts, tv, FALSE), v.started,
         NEW tv1 \in Seq(ToViewer), Shorter(tv, tv1),
         tv[1].type # "UpdateStart", ~EndsIt(tv[1]),
         NEW w \in Viewer, w.started = v.started, w.rectsLeft = v.rectsLeft,
         w.pendingPFChange = v.pendingPFChange, w.pendingPF = v.pendingPF,
         (w.supportsSyncFence = v.supportsSyncFence) \/ (w.supportsSyncFence /\ ProbeReply(tv[1])),
         w.continuousUpdates = v.continuousUpdates,
         w.firstUpdate = v.firstUpdate,
         (w.supportsCU = v.supportsCU) \/ (tv[1].type = "EndOfCU"),
         w.size = v.size, w.assertFailed = v.assertFailed,
         w.pf = IF Switch(tv[1]) THEN tv[1].data ELSE v.pf
  PROVE  Good(w, s, ts, tv1, FALSE)
<1>1. SyncInv(v, s, ts, tv, FALSE)
  BY DEF Good
<1>2. Len(tv) > 0 /\ Len(tv) \in Nat /\ 1 \in 1 .. Len(tv)
      /\ Len(tv1) \in Nat /\ Len(tv) = Len(tv1) + 1
      /\ \A i \in 1 .. Len(tv1) : i + 1 \in 1 .. Len(tv) /\ tv1[i] = tv[i + 1]
  BY DEF Shorter
<1>3. ~v.pendingPFChange /\ ~v.rectsLeft
  BY <1>1, <1>2 DEF SyncInv, Shape, Pending
<1>4. Fresh(w, s, ts, tv1) /\ Pending(w)
  BY <1>3 DEF Fresh, Pending
<1>5. Shape(w, tv1)
  BY PopShape, <1>1, <1>3 DEF SyncInv, Shape
<1>6. BareFirst(w, s, ts, FALSE)
  BY <1>1 DEF SyncInv, BareFirst
<1>7. w.pf = After(v, tv[1], 1, v.pf)
  BY DEF After
<1>8. InFormat(w, s, ts, tv1)
  BY <1>1, <1>3, <1>7, PopInFormat DEF SyncInv
<1>9. Turn(v, s, ts, tv1, FALSE)
  BY <1>1, PopTurn DEF SyncInv
<1>10. Turn(w, s, ts, tv1, FALSE)
  BY <1>9 DEF Turn, OneTurn
<1>11. SizeKnown(v, s, tv1)
  BY <1>1, PopSize DEF SyncInv, EndsIt
<1>12. SizeKnown(w, s, tv1)
  BY <1>11 DEF SizeKnown
<1>13. Unsynced(v, s, ts, tv1) /\ ProbeOnce(v, s, ts, tv1) /\ Continuous(v, s, ts, tv1)
  BY <1>1, PopOthers DEF SyncInv
<1>14. Unsynced(w, s, ts, tv1)
  BY <1>13 DEF Unsynced
<1>15. Continuous(w, s, ts, tv1)
  <2>1. tv[1].type = "EndOfCU" => s.supportsFence
    BY <1>1, <1>2 DEF SyncInv, Continuous
  <2> QED BY <1>13, <2>1 DEF Continuous
<1>16. ProbeOnce(w, s, ts, tv1)
  <2>1. CASE w.supportsSyncFence = v.supportsSyncFence
    BY <1>13, <2>1 DEF ProbeOnce
  <2>2. CASE ProbeReply(tv[1])
    <3>1. /\ ~v.firstUpdate /\ ~v.supportsSyncFence
          /\ \A j \in 1 .. Len(tv) : ProbeReply(tv[j]) => j = 1
      BY <1>1, <1>2, <2>2 DEF SyncInv, ProbeOnce
    <3>2. \A i \in 1 .. Len(ts) : ~Probe(ts[i])
      BY <1>1, <1>2, <2>2 DEF SyncInv, ProbeOnce
    <3>3. ~ProbePending(s)
      BY <1>1, <1>2, <2>2 DEF SyncInv, ProbeOnce
    <3>4. ASSUME NEW i \in 1 .. Len(tv1), ProbeReply(tv1[i]) PROVE FALSE
      <4>1. i + 1 \in 1 .. Len(tv) /\ ProbeReply(tv[i + 1])
        BY <1>2, <3>4
      <4>2. i + 1 = 1
        BY <3>1, <4>1
      <4> QED BY <4>2
    <3> QED BY <3>1, <3>2, <3>3, <3>4 DEF ProbeOnce
  <2> QED BY <2>1, <2>2
<1> QED BY <1>1, <1>4, <1>5, <1>6, <1>8, <1>10, <1>12, <1>14, <1>15, <1>16 DEF Good, SyncInv

-----------------------------------------------------------------------------
\* The viewer's actions.
LEMMA InvIsGood ==
  Inv <=> option \in Format /\ Good(viewer, server, toServer, toViewer, FALSE)
  BY DEF Inv, TypeOK, Good

\* The same of the next state.
LEMMA NextIsGood ==
  Inv' <=> option' \in Format /\ Good(viewer', server', toServer', toViewer', FALSE)
  BY DEF Inv, TypeOK, Good

\* The result of the viewer's operators becomes its state: the form all its actions
\* take.
LEMMA BecomesInv ==
  ASSUME NEW st, Became(st), option' \in Format,
         GoodAfter(st, server', toServer, toViewer', FALSE)
  PROVE  Inv'
  BY NextIsGood DEF Became, GoodAfter

\* The record with which the viewer's operators begin.
LEMMA Started ==
  ASSUME NEW v \in Viewer, NEW s, NEW q, NEW tv, NEW owed, Good(v, s, q, tv, owed)
  PROVE  GoodAfter(Start(v), s, q, tv, owed) /\ Start(v) = Sending(v, <<>>)
<1>1. <<>> \in Seq(ToServer) /\ q \in Seq(ToServer)
  BY DEF Good
<1>2. q \o <<>> = q
  BY <1>1
<1>3. Start(v) = Sending(v, <<>>)
  BY Zenon DEF Start, Sending
<1>4. Sending(v, <<>>) \in States /\ Sending(v, <<>>).v = v /\ Sending(v, <<>>).out = <<>>
  BY <1>1, SendingIs
<1> QED BY <1>1, <1>2, <1>3, <1>4 DEF GoodAfter

\* What the viewer knows of the message it reads.
LEMMA HeadIs ==
  ASSUME Inv, NEW type, Reads(type)
  PROVE  /\ viewer.started /\ toViewer[1].type = type /\ Head(toViewer) = toViewer[1]
         /\ toViewer' = Tail(toViewer) /\ toViewer' \in Seq(ToViewer)
         /\ toViewer[1] \in ToViewer /\ Shorter(toViewer, toViewer')
         /\ viewer \in Viewer /\ toServer \in Seq(ToServer) /\ option \in Format
         /\ Good(viewer, server, toServer, toViewer, FALSE)
<1>1. toViewer \in Seq(ToViewer) /\ toViewer # <<>>
  BY DEF Inv, TypeOK, Reads
<1>2. /\ Tail(toViewer) \in Seq(ToViewer) /\ Head(toViewer) = toViewer[1]
      /\ toViewer[1] \in ToViewer /\ Shorter(toViewer, Tail(toViewer))
  BY <1>1, Popped
<1> QED BY <1>2, InvIsGood DEF Reads, Inv, TypeOK

\* framebufferUpdateStart keeps the invariant: an update begins, and the next is
\* asked for.
LEMMA ReadUpdateStartInv ==
  ASSUME Inv, ReadUpdateStart
  PROVE  Inv'
<1> DEFINE w == [viewer EXCEPT !.rectsLeft = TRUE, !.pendingUpdate = FALSE]
           st == RequestNewUpdate(Start(w), option)
<1>1. /\ Reads("UpdateStart") /\ Became(st) /\ option' = option /\ server' = server
  BY DEF ReadUpdateStart
<1>2. /\ viewer.started /\ toViewer[1].type = "UpdateStart"
      /\ toViewer' \in Seq(ToViewer) /\ Shorter(toViewer, toViewer')
      /\ viewer \in Viewer /\ toServer \in Seq(ToServer) /\ option \in Format
      /\ Good(viewer, server, toServer, toViewer, FALSE)
  BY <1>1, HeadIs
<1>3. /\ w \in Viewer /\ w.started = viewer.started /\ w.rectsLeft
      /\ w.pendingPFChange = viewer.pendingPFChange
      /\ w.supportsSyncFence = viewer.supportsSyncFence
      /\ w.continuousUpdates = viewer.continuousUpdates
      /\ w.firstUpdate = viewer.firstUpdate /\ w.supportsCU = viewer.supportsCU
      /\ w.size = viewer.size /\ w.assertFailed = viewer.assertFailed
      /\ w.pf = viewer.pf /\ ~w.pendingUpdate
  BY <1>2 DEF Viewer
<1> HIDE DEF w
<1>4. Good(w, server, toServer, toViewer', TRUE) /\ MayAsk(w, server, toServer, TRUE)
  BY <1>2, <1>3, PopStart
<1>5. GoodAfter(st, server, toServer, toViewer', FALSE)
  BY <1>2, <1>3, <1>4, RequestKeeps
<1> HIDE DEF st
<1> QED BY <1>1, <1>2, <1>5, BecomesInv

EndedViewer(v, b, pf) == [v EXCEPT !.rectsLeft = b, !.firstUpdate = b, !.pf = pf,
                                   !.pendingPFChange = b]
EndedSending(st, b, pf) == [st EXCEPT !.v.rectsLeft = b, !.v.firstUpdate = b, !.v.pf = pf,
                                      !.v.pendingPFChange = b]

\* framebufferUpdateEnd's assignments are those of the viewer in the record.
LEMMA SendingEnd ==
  ASSUME NEW v, NEW out, NEW b, NEW pf
  PROVE  EndedSending(Sending(v, out), b, pf) = Sending(EndedViewer(v, b, pf), out)
<1> DEFINE v1 == [v EXCEPT !.rectsLeft = b]
           v2 == [v1 EXCEPT !.firstUpdate = b]
           v3 == [v2 EXCEPT !.pf = pf]
           v4 == [v3 EXCEPT !.pendingPFChange = b]
<1>1. [Sending(v, out) EXCEPT !.v.rectsLeft = b] = Sending(v1, out)
  BY SMT DEF Sending
<1>2. EndedViewer(v, b, pf) = v4
  BY DEF EndedViewer
<1> HIDE DEF v1
<1>3. [Sending(v1, out) EXCEPT !.v.firstUpdate = b] = Sending(v2, out)
  BY SMT DEF Sending
<1> HIDE DEF v2
<1>4. [Sending(v2, out) EXCEPT !.v.pf = pf] = Sending(v3, out)
  BY SMT DEF Sending
<1> HIDE DEF v3
<1>5. [Sending(v3, out) EXCEPT !.v.pendingPFChange = b] = Sending(v4, out)
  BY SMT DEF Sending
<1> HIDE DEF v4
<1>6. EndedSending(Sending(v, out), b, pf)
        = [[[[Sending(v, out) EXCEPT !.v.rectsLeft = b] EXCEPT !.v.firstUpdate = b]
              EXCEPT !.v.pf = pf] EXCEPT !.v.pendingPFChange = b]
  BY DEF EndedSending
<1> QED BY <1>1, <1>2, <1>3, <1>4, <1>5, <1>6

\* The same of formatChange.
LEMMA SendingChange ==
  ASSUME NEW v, NEW out, NEW b
  PROVE  [Sending(v, out) EXCEPT !.v.formatChange = b]
           = Sending([v EXCEPT !.formatChange = b], out)
  BY SMT DEF Sending

\* framebufferUpdateEnd: the format set aside is used from here on, and the probe
\* is sent.
LEMMA UpdateEndKeeps ==
  ASSUME NEW st, NEW s, NEW q, NEW tv, GoodAfter(st, s, q, tv, FALSE), st.v.started,
         NEW tv1 \in Seq(ToViewer), Shorter(tv, tv1), EndsIt(tv[1]),
         tv[1].type = "SizeRect" => st.v.size = tv[1].size
  PROVE  GoodAfter(UpdateEnd(st), s, q, tv1, FALSE) /\ UpdateEnd(st).v.started
<1> DEFINE v == st.v
           out == st.out
           m == FenceMsg(TRUE, NoData)
           probes == v.firstUpdate /\ v.supportsFence
           out1 == IF probes THEN Append(out, m) ELSE out
           w == [v EXCEPT !.firstUpdate = FALSE]
           pf == IF v.pendingPFChange THEN v.pendingPF ELSE v.pf
           x == [v EXCEPT !.rectsLeft = FALSE, !.firstUpdate = FALSE, !.pf = pf,
                          !.pendingPFChange = FALSE]
           probed == IF probes THEN Say(st, m) ELSE st
<1>1. /\ st = Sending(v, out) /\ v \in Viewer /\ out \in Seq(ToServer)
      /\ q \in Seq(ToServer) /\ Good(v, s, q \o out, tv, FALSE)
  BY StateIs DEF GoodAfter
<1>2. w \in Viewer /\ SameFormat(v, w) /\ SameViewer([v EXCEPT !.firstUpdate = FALSE], w)
      /\ w.started = v.started
  BY <1>1 DEF Viewer, SameFormat, SameViewer
<1>3. /\ x \in Viewer /\ x.started = w.started /\ ~x.rectsLeft /\ ~x.pendingPFChange
      /\ x.supportsSyncFence = w.supportsSyncFence
      /\ x.continuousUpdates = w.continuousUpdates
      /\ x.firstUpdate = w.firstUpdate /\ x.supportsCU = w.supportsCU
      /\ x.size = w.size /\ x.assertFailed = w.assertFailed
      /\ x.pf = (IF w.pendingPFChange THEN w.pendingPF ELSE w.pf)
  <2>1. pf \in Format
    BY <1>1 DEF Viewer
  <2>2. pf = IF w.pendingPFChange THEN w.pendingPF ELSE w.pf
    BY <1>1 DEF Viewer
  <2> HIDE DEF pf
  <2>3. x \in Viewer
    BY <1>1, <2>1 DEF Viewer
  <2>4. x.started = w.started /\ ~x.rectsLeft /\ ~x.pendingPFChange /\ x.pf = pf
    BY <1>1 DEF Viewer
  <2>5. /\ x.supportsSyncFence = w.supportsSyncFence
        /\ x.continuousUpdates = w.continuousUpdates
        /\ x.firstUpdate = w.firstUpdate /\ x.supportsCU = w.supportsCU
        /\ x.size = w.size /\ x.assertFailed = w.assertFailed
    BY <1>1 DEF Viewer
  <2> QED BY <2>2, <2>3, <2>4, <2>5
<1>4. w.size = v.size
  BY <1>1 DEF Viewer
<1>5. m \in ToServer
  BY ToServerMessages
<1>6. probed = Sending(v, out1)
  <2>1. Say(Sending(v, out), m) = Sending(v, Append(out, m))
    BY ZenonT(60), SendingMore
  <2> QED BY <1>1, <2>1
<1>7. UpdateEnd(st) = Sending(x, out1)
  <2>1. [Sending(v, out1) EXCEPT !.v.rectsLeft = FALSE, !.v.firstUpdate = FALSE, !.v.pf = pf,
                                 !.v.pendingPFChange = FALSE] = Sending(x, out1)
    <3> HIDE DEF v, out1, pf
    <3>1. EndedSending(Sending(v, out1), FALSE, pf) = Sending(EndedViewer(v, FALSE, pf), out1)
      BY SendingEnd
    <3> QED BY <3>1, Zenon DEF EndedSending, EndedViewer
  <2>2. UpdateEnd(st) = [probed EXCEPT !.v.rectsLeft = FALSE, !.v.firstUpdate = FALSE,
                           !.v.pf = IF st.v.pendingPFChange THEN st.v.pendingPF ELSE @,
                           !.v.pendingPFChange = FALSE]
    BY DEF UpdateEnd
  <2>3. Sending(v, out1).v = v
    BY DEF Sending
  <2> HIDE DEF probed, out1, probes, m
  <2> QED BY <1>6, <2>1, <2>2, <2>3
<1>8. /\ Append(out, m) \in Seq(ToServer) /\ q \o Append(out, m) \in Seq(ToServer)
      /\ Longer(q \o out, m, q \o Append(out, m))
  <2> HIDE DEF m, out, v
  <2> QED BY <1>1, <1>5, Said, Appended
<1>9. Good(w, s, q \o out1, tv, FALSE) /\ out1 \in Seq(ToServer)
  <2>1. CASE probes
    <3>1. out1 = Append(out, m)
      BY <2>1
    <3> HIDE DEF out1, w, out
    <3> QED BY <1>1, <1>2, <1>8, <2>1, <3>1, SendProbe
  <2>2. CASE ~probes
    <3>1. Good(w, s, q \o out, tv, FALSE)
      BY <1>1, NoProbe
    <3> QED BY <1>1, <2>2, <3>1
  <2> QED BY <2>1, <2>2
<1> HIDE DEF x, w, out1, probes
<1>10. Good(x, s, q \o out1, tv1, FALSE)
  BY <1>2, <1>3, <1>4, <1>9, PopEnd
<1>11. Sending(x, out1) \in States /\ Sending(x, out1).v = x /\ Sending(x, out1).out = out1
  BY <1>3, <1>9, SendingIs
<1>12. x.started
  BY <1>2, <1>3
<1> QED BY <1>1, <1>7, <1>10, <1>11, <1>12 DEF GoodAfter

\* The end of an update with the automatic selection of a format.
LEMMA EndsUpdateKeeps ==
  ASSUME NEW st, Inv, EndsUpdate(st), server' = server,
         GoodAfter(st, server, toServer, toViewer, FALSE), st.v.started,
         toViewer' \in Seq(ToViewer), Shorter(toViewer, toViewer'), EndsIt(toViewer[1]),
         toViewer[1].type = "SizeRect" => st.v.size = toViewer[1].size
  PROVE  Inv'
<1> DEFINE ended == UpdateEnd(st)
<1>1. PICK chosen \in Format :
        /\ option' = chosen
        /\ Became([ended EXCEPT !.v.formatChange = @ \/ chosen # option])
  BY DEF EndsUpdate
<1>2. GoodAfter(ended, server, toServer, toViewer', FALSE) /\ ended.v.started
  BY UpdateEndKeeps
<1> HIDE DEF ended
<1> DEFINE v == ended.v
           out == ended.out
           change == v.formatChange \/ chosen # option
           w == [v EXCEPT !.formatChange = change]
<1>3. /\ ended = Sending(v, out) /\ v \in Viewer /\ out \in Seq(ToServer)
      /\ toServer \in Seq(ToServer) /\ Good(v, server, toServer \o out, toViewer', FALSE)
  BY <1>2, StateIs DEF GoodAfter
<1>4. change \in BOOLEAN
  <2>1. v.formatChange \in BOOLEAN
    BY <1>3 DEF Viewer
  <2> QED BY <2>1, Zenon
<1>5. [ended EXCEPT !.v.formatChange = @ \/ chosen # option] = Sending(w, out)
  <2>1. [Sending(v, out) EXCEPT !.v.formatChange = change] = Sending(w, out)
    <3> HIDE DEF v, out, change
    <3> QED BY ZenonT(60), SendingChange
  <2>2. [ended EXCEPT !.v.formatChange = @ \/ chosen # option]
          = [ended EXCEPT !.v.formatChange = change]
    OBVIOUS
  <2> QED BY <1>3, <2>1, <2>2
<1> HIDE DEF change
<1>6. w \in Viewer /\ SameViewer(v, w) /\ SameFormat(v, w)
  <2> HIDE DEF v
  <2> QED BY <1>3, <1>4 DEF Viewer, SameViewer, SameFormat
<1>7. v.started
  BY <1>2
<1> HIDE DEF w, v, out
<1>8. Good(w, server, toServer \o out, toViewer', FALSE)
  BY <1>3, <1>6, <1>7, ViewerFlags
<1>9. Sending(w, out) \in States /\ Sending(w, out).v = w /\ Sending(w, out).out = out
  BY <1>3, <1>6, SendingIs
<1>10. GoodAfter(Sending(w, out), server', toServer, toViewer', FALSE)
  BY <1>3, <1>8, <1>9 DEF GoodAfter
<1> QED BY <1>1, <1>5, <1>10, BecomesInv

\* Reading a rectangle of pixels keeps the invariant.
LEMMA ReadRectInv ==
  ASSUME Inv, ReadRect
  PROVE  Inv'
<1>1. Reads("Rect") /\ EndsUpdate(Start(viewer)) /\ server' = server
  BY DEF ReadRect
<1>2. /\ viewer.started /\ toViewer[1].type = "Rect"
      /\ toViewer' \in Seq(ToViewer) /\ Shorter(toViewer, toViewer')
      /\ viewer \in Viewer /\ Good(viewer, server, toServer, toViewer, FALSE)
  BY <1>1, HeadIs
<1>3. GoodAfter(Start(viewer), server, toServer, toViewer, FALSE)
  BY <1>2, Started
<1>4. Start(viewer).v.started
  BY <1>2 DEF Start
<1>5. EndsIt(toViewer[1]) /\ toViewer[1].type # "SizeRect"
  BY <1>2 DEF EndsIt
<1> QED BY <1>1, <1>2, <1>3, <1>4, <1>5, EndsUpdateKeeps

\* The same of size.
LEMMA SendingSize ==
  ASSUME NEW v, NEW out, NEW b
  PROVE  [Sending(v, out) EXCEPT !.v.size = b] = Sending([v EXCEPT !.size = b], out)
  BY SMT DEF Sending

\* A record with one message.
LEMMA SentOne ==
  ASSUME NEW v \in Viewer, NEW s, NEW q \in Seq(ToServer), NEW tv, NEW owed, NEW m \in ToServer,
         Good(v, s, Append(q, m), tv, owed)
  PROVE  /\ GoodAfter(Sending(v, Append(<<>>, m)), s, q, tv, owed)
         /\ Say(Sending(v, <<>>), m) = Sending(v, Append(<<>>, m))
<1>1. <<>> \in Seq(ToServer) /\ q \o <<>> = q
  OBVIOUS
<1>2. Append(<<>>, m) \in Seq(ToServer) /\ q \o Append(<<>>, m) = Append(q, m)
  BY <1>1, AppendLast, Appended
<1>3. /\ Sending(v, Append(<<>>, m)) \in States /\ Sending(v, Append(<<>>, m)).v = v
      /\ Sending(v, Append(<<>>, m)).out = Append(<<>>, m)
  BY <1>2, SendingIs
<1>4. GoodAfter(Sending(v, Append(<<>>, m)), s, q, tv, owed)
  BY <1>2, <1>3 DEF GoodAfter
<1> QED BY <1>4, SendingMore

\* Reading a new size keeps the invariant: continuous updates are enabled for it.
LEMMA ReadSizeRectInv ==
  ASSUME Inv, ReadSizeRect
  PROVE  Inv'
<1> DEFINE size == toViewer[1].size
           w == [viewer EXCEPT !.size = size]
           m == EnableCUMsg(size)
           st == ResizeFramebuffer(Start(viewer), size)
<1>1. Reads("SizeRect") /\ EndsUpdate(ResizeFramebuffer(Start(viewer), Head(toViewer).size))
      /\ server' = server
  BY DEF ReadSizeRect
<1>2. /\ viewer.started /\ toViewer[1].type = "SizeRect" /\ toViewer[1] \in ToViewer
      /\ Head(toViewer) = toViewer[1]
      /\ toViewer' \in Seq(ToViewer) /\ Shorter(toViewer, toViewer')
      /\ viewer \in Viewer /\ Good(viewer, server, toServer, toViewer, FALSE)
      /\ toServer \in Seq(ToServer)
  BY <1>1, HeadIs
<1>3. size \in Sizes
  BY <1>2 DEF ToViewer
<1>4. EndsUpdate(st) /\ EndsIt(toViewer[1])
  BY <1>1, <1>2 DEF EndsIt
<1>5. /\ w \in Viewer /\ w.started /\ w.size = size
      /\ SameFormat(viewer, w) /\ SameViewer([viewer EXCEPT !.size = w.size], w)
  <2>1. w \in Viewer /\ w.started /\ w.size = size /\ SameFormat(viewer, w)
    BY <1>2, <1>3 DEF Viewer, SameFormat
  <2> HIDE DEF size
  <2>2. SameViewer([viewer EXCEPT !.size = w.size], w)
    BY <1>2, <1>3, <2>1 DEF Viewer, SameViewer
  <2> QED BY <2>1, <2>2
<1>6. \E i \in 1 .. Len(toViewer) : Resizing(toViewer, i)
  BY <1>2 DEF Shorter, Resizing
<1>7. m \in ToServer
  BY <1>3, ToServerMessages
<1>8. [Start(viewer) EXCEPT !.v.size = size] = Start(w) /\ Start(viewer).v = viewer
      /\ Start(w) = Sending(w, <<>>) /\ Start(w).v = w
  <2>1. [Sending(viewer, <<>>) EXCEPT !.v.size = size] = Sending(w, <<>>)
    BY SendingSize
  <2> HIDE DEF w
  <2> QED BY <2>1 DEF Start, Sending
<1>9. st = IF viewer.continuousUpdates THEN Say(Sending(w, <<>>), m) ELSE Start(w)
  BY <1>8 DEF ResizeFramebuffer
<1> HIDE DEF st, w, m
<1>10. GoodAfter(st, server, toServer, toViewer, FALSE) /\ st.v = w
  <2>1. CASE viewer.continuousUpdates
    <3> DEFINE q == Append(toServer, m)
    <3>1. viewer.supportsSyncFence /\ server.supportsFence
      BY <1>2, <2>1 DEF Good, SyncInv, Unsynced, Continuous
    <3>2. q \in Seq(ToServer) /\ Longer(toServer, m, q)
      BY <1>2, <1>7, Appended
    <3>3. SameViewer([viewer EXCEPT !.size = w.size, !.continuousUpdates = TRUE], w)
      BY <1>2, <1>5, <2>1 DEF Viewer, SameViewer
    <3> HIDE DEF q
    <3>4. Good(w, server, q, toViewer, FALSE)
      BY <1>2, <1>5, <1>6, <3>1, <3>2, <3>3, SendEnable DEF m
    <3>5. /\ GoodAfter(Sending(w, Append(<<>>, m)), server, toServer, toViewer, FALSE)
          /\ Say(Sending(w, <<>>), m) = Sending(w, Append(<<>>, m))
      BY <1>2, <1>5, <1>7, <3>4, SentOne DEF q
    <3>6. Sending(w, Append(<<>>, m)).v = w
      BY DEF Sending
    <3> QED BY <1>9, <2>1, <3>5, <3>6
  <2>2. CASE ~viewer.continuousUpdates
    <3>1. Good(w, server, toServer, toViewer, FALSE)
      BY <1>2, <1>5, <1>6, <2>2, ResizeOnly
    <3> QED BY <1>5, <1>8, <1>9, <2>2, <3>1, Started
  <2> QED BY <2>1, <2>2
<1> QED BY <1>1, <1>2, <1>4, <1>5, <1>10, EndsUpdateKeeps

\* Reading EndOfContinuousUpdates keeps the invariant: the server knows them.
LEMMA ReadEndOfCUInv ==
  ASSUME Inv, ReadEndOfCU
  PROVE  Inv'
<1> DEFINE w == [viewer EXCEPT !.supportsCU = TRUE]
<1>1. Reads("EndOfCU") /\ viewer' = w /\ option' = option /\ server' = server
      /\ toServer' = toServer
  BY DEF ReadEndOfCU
<1>2. /\ viewer.started /\ toViewer[1].type = "EndOfCU" /\ option \in Format
      /\ toViewer' \in Seq(ToViewer) /\ Shorter(toViewer, toViewer')
      /\ viewer \in Viewer /\ Good(viewer, server, toServer, toViewer, FALSE)
  BY <1>1, HeadIs
<1>3. ~EndsIt(toViewer[1]) /\ ~Switch(toViewer[1]) /\ toViewer[1].type # "UpdateStart"
  BY <1>2 DEF EndsIt, Switch
<1>4. /\ w \in Viewer /\ w.started = viewer.started /\ w.rectsLeft = viewer.rectsLeft
      /\ w.pendingPFChange = viewer.pendingPFChange /\ w.pendingPF = viewer.pendingPF
      /\ w.supportsSyncFence = viewer.supportsSyncFence
      /\ w.continuousUpdates = viewer.continuousUpdates
      /\ w.firstUpdate = viewer.firstUpdate
      /\ w.size = viewer.size /\ w.assertFailed = viewer.assertFailed /\ w.pf = viewer.pf
  BY <1>2 DEF Viewer
<1> HIDE DEF w
<1>5. Good(w, server, toServer, toViewer', FALSE)
  BY <1>2, <1>3, <1>4, PopOther
<1> QED BY <1>1, <1>2, <1>5, NextIsGood

\* Reading a fence keeps it: a request is answered, an answer brings the new format
\* or the news that fences work.
LEMMA ReadFenceInv ==
  ASSUME Inv, ReadFence
  PROVE  Inv'
<1> DEFINE m == toViewer[1]
           v == [viewer EXCEPT !.supportsFence = TRUE]
           st == FenceReceived(Start(v), m)
<1>1. Reads("Fence") /\ Became(FenceReceived(Start(v), Head(toViewer)))
      /\ option' = option /\ server' = server
  BY DEF ReadFence
<1>2. /\ viewer.started /\ m.type = "Fence" /\ m \in ToViewer /\ option \in Format
      /\ Head(toViewer) = m
      /\ toViewer' \in Seq(ToViewer) /\ Shorter(toViewer, toViewer')
      /\ viewer \in Viewer /\ Good(viewer, server, toServer, toViewer, FALSE)
      /\ toServer \in Seq(ToServer)
  BY <1>1, HeadIs
<1>3. m.request \in BOOLEAN /\ m.data \in Format \cup {NoData}
  BY <1>2 DEF ToViewer
<1>4. ~EndsIt(m) /\ m.type # "UpdateStart"
  BY <1>2 DEF EndsIt
<1>5. /\ v \in Viewer /\ v.started = viewer.started /\ v.rectsLeft = viewer.rectsLeft
      /\ v.pendingPFChange = viewer.pendingPFChange /\ v.pendingPF = viewer.pendingPF
      /\ v.supportsSyncFence = viewer.supportsSyncFence
      /\ v.continuousUpdates = viewer.continuousUpdates
      /\ v.firstUpdate = viewer.firstUpdate /\ v.supportsCU = viewer.supportsCU
      /\ v.size = viewer.size /\ v.assertFailed = viewer.assertFailed /\ v.pf = viewer.pf
  BY <1>2 DEF Viewer
<1>6. Start(v).v = v /\ Start(v) = Sending(v, <<>>)
  BY DEF Start, Sending
<1> SUFFICES GoodAfter(st, server, toServer, toViewer', FALSE)
  <2> HIDE DEF st
  <2> QED BY <1>1, <1>2, BecomesInv DEF st
<1> HIDE DEF v, m
<1>7. CASE m.request
  <2> DEFINE a == FenceMsg(FALSE, m.data)
             q == Append(toServer, a)
  <2>1. ~Switch(m)
    BY <1>7 DEF Switch
  <2>2. Good(v, server, toServer, toViewer', FALSE)
    BY <1>2, <1>4, <1>5, <2>1, PopOther DEF m
  <2>3. a \in ToServer /\ Plain(a)
    <3>1. a \in ToServer
      BY <1>3, ToServerMessages
    <3>2. Plain(a)
      BY DEF Plain, FenceMsg, FormatFence, Probe
    <3> QED BY <3>1, <3>2
  <2>4. st = Say(Sending(v, <<>>), a)
    BY <1>6, <1>7 DEF FenceReceived
  <2>5. q \in Seq(ToServer) /\ Longer(toServer, a, q)
    BY <1>2, <2>3, Appended
  <2> HIDE DEF a, q
  <2>6. Good(v, server, q, toViewer', FALSE)
    BY <1>2, <1>5, <2>2, <2>3, <2>5, SendPlain
  <2> HIDE DEF st
  <2> QED BY <1>2, <1>5, <2>3, <2>4, <2>6, SentOne DEF q
<1>8. CASE ~m.request /\ m.data # NoData
  <2> DEFINE w == [v EXCEPT !.pf = m.data]
  <2>1. Switch(m) /\ m.data \in Format
    BY <1>2, <1>3, <1>8 DEF Switch
  <2>2. /\ w \in Viewer /\ w.started = v.started /\ w.rectsLeft = v.rectsLeft
        /\ w.pendingPFChange = v.pendingPFChange /\ w.pendingPF = v.pendingPF
        /\ w.supportsSyncFence = v.supportsSyncFence
        /\ w.continuousUpdates = v.continuousUpdates
        /\ w.firstUpdate = v.firstUpdate /\ w.supportsCU = v.supportsCU
        /\ w.size = v.size /\ w.assertFailed = v.assertFailed /\ w.pf = m.data
    BY <1>5, <2>1 DEF Viewer
  <2>3. [Sending(v, <<>>) EXCEPT !.v.pf = m.data] = Sending(w, <<>>)
    BY SMT DEF Sending
  <2> HIDE DEF w
  <2>4. Good(w, server, toServer, toViewer', FALSE)
    <3>1. w.pf = IF Switch(toViewer[1]) THEN toViewer[1].data ELSE viewer.pf
      BY <2>1, <2>2 DEF m
    <3>2. ~EndsIt(toViewer[1]) /\ toViewer[1].type # "UpdateStart"
      BY <1>4 DEF m
    <3>3. /\ w \in Viewer /\ w.started = viewer.started /\ w.rectsLeft = viewer.rectsLeft
          /\ w.pendingPFChange = viewer.pendingPFChange /\ w.pendingPF = viewer.pendingPF
          /\ w.supportsSyncFence = viewer.supportsSyncFence
          /\ w.continuousUpdates = viewer.continuousUpdates
          /\ w.firstUpdate = viewer.firstUpdate /\ w.supportsCU = viewer.supportsCU
          /\ w.size = viewer.size /\ w.assertFailed = viewer.assertFailed
      BY <1>5, <2>2
    <3> QED BY <1>2, <3>1, <3>2, <3>3, <3>2, PopOther
  <2>5. st = Start(w)
    <3>1. st = [Start(v) EXCEPT !.v.pf = m.data]
      BY <1>8 DEF FenceReceived
    <3>2. Start(w) = Sending(w, <<>>)
      BY DEF Start, Sending
    <3> HIDE DEF st
    <3> QED BY <1>6, <2>3, <3>1, <3>2
  <2> QED BY <2>2, <2>4, <2>5, Started
<1>9. CASE ~m.request /\ m.data = NoData /\ ~m.sync
  <2>1. ~Switch(m)
    BY <1>9 DEF Switch
  <2>2. Good(v, server, toServer, toViewer', FALSE)
    BY <1>2, <1>4, <1>5, <2>1, PopOther DEF m
  <2>3. st = Start(v)
    BY <1>9 DEF FenceReceived
  <2> QED BY <1>5, <2>2, <2>3, Started
<1>10. CASE ~m.request /\ m.data = NoData /\ m.sync
  <2> DEFINE w == [v EXCEPT !.supportsSyncFence = TRUE]
             x == [w EXCEPT !.continuousUpdates = TRUE]
             a == EnableCUMsg(v.size)
             q == Append(toServer, a)
  <2>1. ProbeReply(m) /\ ~Switch(m)
    BY <1>2, <1>10 DEF Switch, ProbeReply
  <2>2. /\ w \in Viewer /\ w.started = v.started /\ w.rectsLeft = v.rectsLeft
        /\ w.pendingPFChange = v.pendingPFChange /\ w.pendingPF = v.pendingPF
        /\ w.supportsSyncFence
        /\ w.continuousUpdates = v.continuousUpdates
        /\ w.firstUpdate = v.firstUpdate /\ w.supportsCU = v.supportsCU
        /\ w.size = v.size /\ w.assertFailed = v.assertFailed /\ w.pf = v.pf
    BY <1>5 DEF Viewer
  <2>3. \A b : [Sending(v, <<>>) EXCEPT !.v.supportsSyncFence = b]
                 = Sending([v EXCEPT !.supportsSyncFence = b], <<>>)
    BY SMT DEF Sending
  <2>4. \A u, b : [Sending(u, <<>>) EXCEPT !.v.continuousUpdates = b]
                 = Sending([u EXCEPT !.continuousUpdates = b], <<>>)
    BY SMT DEF Sending
  <2>5. Good(w, server, toServer, toViewer', FALSE)
    <3> HIDE DEF w
    <3>1. w.pf = IF Switch(toViewer[1]) THEN toViewer[1].data ELSE viewer.pf
      BY <1>5, <2>1, <2>2 DEF m
    <3>2. ~EndsIt(toViewer[1]) /\ toViewer[1].type # "UpdateStart" /\ ProbeReply(toViewer[1])
      BY <1>4, <2>1 DEF m
    <3>3. /\ w \in Viewer /\ w.started = viewer.started /\ w.rectsLeft = viewer.rectsLeft
          /\ w.pendingPFChange = viewer.pendingPFChange /\ w.pendingPF = viewer.pendingPF
          /\ w.supportsSyncFence
          /\ w.continuousUpdates = viewer.continuousUpdates
          /\ w.firstUpdate = viewer.firstUpdate /\ w.supportsCU = viewer.supportsCU
          /\ w.size = viewer.size /\ w.assertFailed = viewer.assertFailed
      BY <1>5, <2>2
    <3> QED BY <1>2, <3>1, <3>2, <3>3, <3>2, PopOther
  <2>6. st = ProbeAnswer(Sending(v, <<>>))
    BY <1>6, <1>10 DEF FenceReceived
  <2>7. ProbeAnswer(Sending(v, <<>>))
          = IF ~v.supportsCU THEN Sending(w, <<>>) ELSE Say(Sending(x, <<>>), a)
    <3>1. [Sending(v, <<>>) EXCEPT !.v.supportsSyncFence = TRUE] = Sending(w, <<>>)
      BY <2>3, Zenon
    <3>2. [Sending(w, <<>>) EXCEPT !.v.continuousUpdates = TRUE] = Sending(x, <<>>)
      <4> HIDE DEF w
      <4> QED BY <2>4, Zenon
    <3>3. Sending(v, <<>>).v = v
      BY DEF Sending
    <3> DEFINE S == Sending(v, <<>>)
    <3>4. ProbeAnswer(S) = IF ~S.v.supportsCU THEN [S EXCEPT !.v.supportsSyncFence = TRUE]
                           ELSE Say([[S EXCEPT !.v.supportsSyncFence = TRUE]
                                       EXCEPT !.v.continuousUpdates = TRUE],
                                    EnableCUMsg(S.v.size))
      BY Zenon DEF ProbeAnswer
    <3> HIDE DEF w, x, S
    <3>5. S = Sending(v, <<>>) /\ S.v = v
      BY <3>3 DEF S
    <3>6. ProbeAnswer(S) = IF ~v.supportsCU THEN Sending(w, <<>>) ELSE Say(Sending(x, <<>>), a)
      BY <3>1, <3>2, <3>4, <3>5
    <3> QED BY <3>5, <3>6
  <2>8. x \in Viewer /\ SameFormat(w, x) /\ x.size = w.size
        /\ SameViewer([w EXCEPT !.size = x.size, !.continuousUpdates = TRUE], x)
    <3> HIDE DEF w
    <3>1. x \in Viewer /\ SameFormat(w, x) /\ x.size = w.size
      BY <2>2 DEF Viewer, SameFormat
    <3>2. SameViewer([w EXCEPT !.size = x.size, !.continuousUpdates = TRUE], x)
      BY <2>2 DEF Viewer, SameViewer
    <3> QED BY <3>1, <3>2
  <2>9. a \in ToServer
    <3>1. v.size \in Sizes
      BY <1>5 DEF Viewer
    <3> QED BY <3>1, ToServerMessages
  <2>10. q \in Seq(ToServer) /\ Longer(toServer, a, q)
    BY <1>2, <2>9, Appended
  <2> HIDE DEF w, x, a, q
  <2>11. CASE ~v.supportsCU
    <3>1. st = Start(w)
      BY <2>6, <2>7, <2>11 DEF Start, Sending
    <3> QED BY <2>2, <2>5, <3>1, Started
  <2>12. CASE v.supportsCU
    <3>1. server.supportsFence
      BY <2>2, <2>5, <2>12 DEF Good, SyncInv, Continuous
    <3>2. Good(x, server, q, toViewer', FALSE)
      <4>1. a = EnableCUMsg(x.size)
        BY <2>2, <2>8 DEF a
      <4> QED BY <1>2, <1>5, <2>2, <2>5, <2>8, <2>10, <3>1, <4>1, SendEnable
    <3>3. st = Say(Sending(x, <<>>), a)
      BY <2>6, <2>7, <2>12
    <3> HIDE DEF st
    <3> QED BY <1>2, <2>8, <2>9, <3>2, <3>3, SentOne DEF q
  <2> QED BY <2>11, <2>12
<1> QED BY <1>7, <1>8, <1>9, <1>10

\* An update is asked for at once only where fences work.
LEMMA IfSafeKeeps ==
  ASSUME NEW v \in Viewer, v.started, NEW wanted \in Format, Inv,
         Good(v, server, toServer, toViewer, FALSE)
  PROVE  GoodAfter(IfSafe(Start(v), wanted), server, toServer, toViewer, FALSE)
<1>1. toServer \in Seq(ToServer) /\ Start(v).v = v
  BY DEF Inv, TypeOK, Start
<1>2. CASE v.supportsSyncFence
  <2>1. IfSafe(Start(v), wanted) = RequestNewUpdate(Start(v), wanted)
    BY <1>1, <1>2 DEF IfSafe
  <2>2. MayAsk(v, server, toServer, FALSE)
    BY <1>2 DEF MayAsk
  <2>3. GoodAfter(RequestNewUpdate(Start(v), wanted), server, toServer, toViewer, FALSE)
    BY <1>1, <2>2, RequestKeeps
  <2> QED BY <2>1, <2>3
<1>3. CASE ~v.supportsSyncFence
  <2>1. IfSafe(Start(v), wanted) = Start(v)
    BY <1>1, <1>3 DEF IfSafe
  <2> QED BY <2>1, Started
<1> QED BY <1>2, <1>3

\* The user's choice of another format or quality keeps the invariant.
LEMMA HandleOptionsInv ==
  ASSUME Inv, HandleOptions
  PROVE  Inv'
<1> DEFINE w == [viewer EXCEPT !.encodingChange = TRUE]
           x == [w EXCEPT !.formatChange = TRUE]
<1>1. PICK chosen \in Format :
        /\ option' = chosen
        /\ Became(IF chosen = viewer.pf THEN Start(w)
                  ELSE IfSafe([Start(w) EXCEPT !.v.formatChange = TRUE], chosen))
  BY DEF HandleOptions
<1>2. viewer.started /\ server' = server /\ toViewer' = toViewer
  BY DEF HandleOptions
<1>3. viewer \in Viewer /\ Good(viewer, server, toServer, toViewer, FALSE)
  BY InvIsGood DEF Good
<1>4. w \in Viewer /\ SameViewer(viewer, w) /\ SameFormat(viewer, w)
  BY <1>3 DEF Viewer, SameViewer, SameFormat
<1>5. x \in Viewer /\ SameViewer(viewer, x) /\ SameFormat(viewer, x) /\ x.started
  BY <1>2, <1>3 DEF Viewer, SameViewer, SameFormat
<1>6. [Start(w) EXCEPT !.v.formatChange = TRUE] = Start(x)
  <2>1. Start(w) = Sending(w, <<>>) /\ Start(x) = Sending(x, <<>>)
    BY DEF Start, Sending
  <2>2. [Sending(w, <<>>) EXCEPT !.v.formatChange = TRUE] = Sending(x, <<>>)
    <3> HIDE DEF w
    <3> QED BY SendingChange
  <2> HIDE DEF w, x
  <2> QED BY <2>1, <2>2
<1> HIDE DEF w, x
<1>7. Good(w, server, toServer, toViewer, FALSE) /\ Good(x, server, toServer, toViewer, FALSE)
  BY <1>2, <1>3, <1>4, <1>5, ViewerFlags
<1>8. GoodAfter(Start(w), server, toServer, toViewer, FALSE)
  BY <1>4, <1>7, Started
<1>9. GoodAfter(IfSafe(Start(x), chosen), server, toServer, toViewer, FALSE)
  BY <1>5, <1>7, IfSafeKeeps
<1>10. CASE chosen = viewer.pf
  BY <1>1, <1>2, <1>8, <1>10, BecomesInv
<1>11. CASE chosen # viewer.pf
  BY <1>1, <1>2, <1>6, <1>9, <1>11, BecomesInv
<1> QED BY <1>10, <1>11

\* The user's asking for all of the screen keeps the invariant.
LEMMA RefreshFramebufferInv ==
  ASSUME Inv, RefreshFramebuffer
  PROVE  Inv'
<1> DEFINE w == [viewer EXCEPT !.forceNonincremental = TRUE]
<1>1. /\ viewer.started /\ Became(IfSafe(Start(w), option))
      /\ option' = option /\ server' = server /\ toViewer' = toViewer
  BY DEF RefreshFramebuffer
<1>2. viewer \in Viewer /\ option \in Format /\ Good(viewer, server, toServer, toViewer, FALSE)
  BY InvIsGood DEF Good
<1>3. w \in Viewer /\ SameViewer(viewer, w) /\ SameFormat(viewer, w) /\ w.started
  BY <1>1, <1>2 DEF Viewer, SameViewer, SameFormat
<1> HIDE DEF w
<1>4. Good(w, server, toServer, toViewer, FALSE)
  BY <1>1, <1>2, <1>3, ViewerFlags
<1>5. GoodAfter(IfSafe(Start(w), option), server, toServer, toViewer, FALSE)
  BY <1>2, <1>3, <1>4, IfSafeKeeps
<1> QED BY <1>1, <1>2, <1>5, BecomesInv

\* ServerInit: the viewer's first three messages.
FirstSent(pf, incremental) ==
  <<SetPixelFormatMsg(pf), [type |-> "SetEncodings"], UpdateRequestMsg(incremental)>>

\* The three messages that follow ServerInit.
LEMMA FirstMessages ==
  ASSUME NEW pf \in Format, NEW incremental \in BOOLEAN
  PROVE  LET q == FirstSent(pf, incremental)
         IN /\ q \in Seq(ToServer) /\ Len(q) = 3
            /\ q[1].type = "SetPixelFormat" /\ q[1].pf = pf
            /\ q[2].type = "SetEncodings" /\ q[3].type = "UpdateRequest"
<1> DEFINE a == SetPixelFormatMsg(pf)
           b == [type |-> "SetEncodings"]
           c == UpdateRequestMsg(incremental)
<1>1. a \in ToServer /\ b \in ToServer /\ c \in ToServer
  BY ToServerMessages
<1>2. a.type = "SetPixelFormat" /\ a.pf = pf /\ b.type = "SetEncodings"
      /\ c.type = "UpdateRequest"
  BY DEF SetPixelFormatMsg, UpdateRequestMsg
<1>3. FirstSent(pf, incremental) = <<a, b, c>>
  BY DEF FirstSent
<1> HIDE DEF a, b, c
<1> QED BY <1>1, <1>2, <1>3

\* With them the invariant holds from ServerInit on.
LEMMA GoodFirst ==
  ASSUME NEW v, NEW s, NEW ts, NEW tv, Good(v, s, ts, tv, FALSE), ~v.started,
         NEW pf \in Format, NEW q \in Seq(ToServer), Len(q) = 3,
         q[1].type = "SetPixelFormat", q[1].pf = pf,
         q[2].type = "SetEncodings", q[3].type = "UpdateRequest",
         NEW w \in Viewer, w.started, w.pf = pf, ~w.pendingPFChange, ~w.rectsLeft,
         ~w.supportsSyncFence, ~w.continuousUpdates, w.firstUpdate, ~w.supportsCU,
         w.size = v.size, ~w.assertFailed
  PROVE  Good(w, s, q, tv, FALSE)
<1>1. SyncInv(v, s, ts, tv, FALSE) /\ s \in Server /\ tv \in Seq(ToViewer)
  BY DEF Good
<1>2. /\ Len(tv) = 0 /\ Len(ts) = 0
      /\ ~s.requested /\ ~s.continuous /\ ~s.supportsResize /\ ~s.supportsFence
      /\ ~s.pendingSyncFence /\ s.size = v.size
  BY <1>1 DEF SyncInv, Fresh
<1>3. \A i \in 1 .. 3 : i = 1 \/ i = 2 \/ i = 3
  OBVIOUS
<1>4. /\ \A i \in 1 .. 3 : q[i].type # "Fence" /\ q[i].type # "EnableCU"
      /\ \A i \in 1 .. 3 : q[i].type = "SetPixelFormat" <=> i = 1
      /\ \A i \in 1 .. 3 : q[i].type = "UpdateRequest" <=> i = 3
  BY <1>3
<1>5. \A i \in 1 .. 3 : ~FormatFence(q[i]) /\ ~Probe(q[i])
  BY <1>4 DEF FormatFence, Probe
<1>6. ~FormatPending(s) /\ ~ProbePending(s)
  BY <1>2 DEF FormatPending, ProbePending
<1>7. \A i \in 1 .. 3 : Bare(s, q, i) <=> i = 1
  BY <1>4, <1>6 DEF Bare
<1>8. Fresh(w, s, q, tv) /\ Shape(w, tv) /\ Pending(w)
  BY <1>2 DEF Fresh, Shape, Pending
<1>9. Pairs(s, q)
  BY <1>5, <1>6 DEF Pairs
<1>10. BareFirst(w, s, q, FALSE)
  <2>1. 3 \in 1 + 1 .. Len(q) /\ q[3].type = "UpdateRequest"
    OBVIOUS
  <2> QED BY <1>2, <1>6, <1>7, <2>1 DEF BareFirst
<1>11. InFormat(w, s, q, tv)
  <2> DEFINE f == [i \in 1 .. Len(tv) + 1 |-> pf]
  <2>1. f \in [1 .. Len(tv) + 1 -> Format] /\ f[1] = pf /\ f[Len(tv) + 1] = pf
        /\ DOMAIN f = 1 .. Len(tv) + 1
    BY <1>2
  <2> HIDE DEF f
  <2>2. Follows(w, tv, f)
    BY <1>2, <2>1 DEF Follows
  <2>3. NextFormat(s, q, f[Len(tv) + 1])
    BY <1>7, <2>1 DEF NextFormat
  <2> QED BY <2>1, <2>2, <2>3 DEF InFormat
<1>12. Turn(w, s, q, tv, FALSE)
  <2>1. \A i \in 1 .. Len(q) : Asking(q, i) <=> i = 3
    BY <1>4 DEF Asking
  <2>2. SomeTurn(s, q, tv, FALSE)
    <3>1. 3 \in 1 .. Len(q)
      OBVIOUS
    <3>2. Asking(q, 3)
      BY <2>1, <3>1
    <3>3. \E i \in 1 .. Len(q) : Asking(q, i)
      BY <3>1, <3>2
    <3> QED BY <3>3 DEF SomeTurn
  <2>3. OneTurn(s, q, tv, FALSE)
    <3>1. \A i \in 1 .. Len(tv) : FALSE
      BY <1>2
    <3>2. \A i, j \in 1 .. Len(q) : Asking(q, i) /\ Asking(q, j) => i = j
      BY <2>1
    <3> QED BY <1>2, <2>2, <3>1, <3>2 DEF OneTurn
  <2> QED BY <2>3 DEF Turn
<1>13. Unsynced(w, s, q, tv) /\ ProbeOnce(w, s, q, tv)
  BY <1>2, <1>5, <1>6 DEF Unsynced, ProbeOnce
<1>14. Continuous(w, s, q, tv)
  BY <1>1, <1>2, <1>4 DEF SyncInv, Continuous, Enabling
<1>15. SizeKnown(w, s, tv)
  BY <1>2 DEF SizeKnown, Resizing
<1> QED BY <1>1, <1>8, <1>9, <1>10, <1>11, <1>12, <1>13, <1>14, <1>15 DEF Good, SyncInv

\* What serverInit does to the viewer after its first request.
InitViewer(v, failed, pf, change, next) ==
  [v EXCEPT !.assertFailed = failed, !.pf = pf, !.pendingPFChange = change,
            !.pendingPF = next]
InitSending(st, failed, pf, change, next) ==
  [st EXCEPT !.v.assertFailed = failed, !.v.pf = pf, !.v.pendingPFChange = change,
             !.v.pendingPF = next]

\* serverInit's assignments are those of the viewer in the record.
LEMMA SendingInit ==
  ASSUME NEW v, NEW out, NEW failed, NEW pf, NEW change, NEW next
  PROVE  InitSending(Sending(v, out), failed, pf, change, next)
           = Sending(InitViewer(v, failed, pf, change, next), out)
<1> DEFINE v1 == [v EXCEPT !.assertFailed = failed]
           v2 == [v1 EXCEPT !.pf = pf]
           v3 == [v2 EXCEPT !.pendingPFChange = change]
           v4 == [v3 EXCEPT !.pendingPF = next]
<1>1. [Sending(v, out) EXCEPT !.v.assertFailed = failed] = Sending(v1, out)
  BY SMT DEF Sending
<1>2. InitViewer(v, failed, pf, change, next) = v4
  BY DEF InitViewer
<1> HIDE DEF v1
<1>3. [Sending(v1, out) EXCEPT !.v.pf = pf] = Sending(v2, out)
  BY SMT DEF Sending
<1> HIDE DEF v2
<1>4. [Sending(v2, out) EXCEPT !.v.pendingPFChange = change] = Sending(v3, out)
  BY SMT DEF Sending
<1> HIDE DEF v3
<1>5. [Sending(v3, out) EXCEPT !.v.pendingPF = next] = Sending(v4, out)
  BY SMT DEF Sending
<1> HIDE DEF v4
<1>6. InitSending(Sending(v, out), failed, pf, change, next)
        = [[[[Sending(v, out) EXCEPT !.v.assertFailed = failed] EXCEPT !.v.pf = pf]
              EXCEPT !.v.pendingPFChange = change] EXCEPT !.v.pendingPF = next]
  BY DEF InitSending
<1> QED BY <1>1, <1>2, <1>3, <1>4, <1>5, <1>6

\* The parts of the viewer that its first request goes by.
Beginning(v) ==
  /\ v \in Viewer /\ v.started /\ v.formatChange /\ v.encodingChange
  /\ ~v.supportsSyncFence /\ ~v.continuousUpdates /\ v.firstUpdate /\ ~v.supportsCU
  /\ ~v.rectsLeft /\ ~v.pendingUpdate /\ ~v.assertFailed

\* The first request sends the format without a fence and sets it aside.
LEMMA FirstFormat ==
  ASSUME NEW v, Beginning(v), NEW pf \in Format
  PROVE  \E w \in Viewer :
           /\ NewFormat(Sending(v, <<>>), pf) = Sending(w, <<SetPixelFormatMsg(pf)>>)
           /\ w.started /\ w.encodingChange
           /\ ~w.supportsSyncFence /\ ~w.continuousUpdates /\ w.firstUpdate /\ ~w.supportsCU
           /\ ~w.rectsLeft /\ ~w.assertFailed /\ w.size = v.size
           /\ w.pendingPFChange /\ w.pendingPF = pf
<1> DEFINE failed == v.assertFailed \/ (v.pendingUpdate /\ ~v.supportsSyncFence)
           change == v.pendingPFChange \/ ~v.supportsSyncFence
           w == [v EXCEPT !.formatChange = FALSE, !.assertFailed = failed,
                          !.pendingPFChange = change, !.pendingPF = pf]
           b == SetPixelFormatMsg(pf)
<1>1. /\ v.assertFailed = FALSE /\ v.pendingUpdate = FALSE /\ v.supportsSyncFence = FALSE
      /\ v.pendingPFChange \in BOOLEAN /\ v \in Viewer /\ v.formatChange /\ v.encodingChange
  BY DEF Beginning, Viewer
<1>2. failed = FALSE
  BY <1>1, Zenon
<1>3. change = TRUE
  BY <1>1, Zenon
<1>4. NewFormat(Sending(v, <<>>), pf) = [v |-> w, out |-> <<>> \o <<b>>]
  <2>1. Sending(v, <<>>).v = v /\ Sending(v, <<>>).out = <<>>
    BY DEF Sending
  <2>2. NewFormat(Sending(v, <<>>), pf)
         = [v |-> [v EXCEPT !.formatChange = FALSE, !.assertFailed = failed,
                            !.pendingPFChange = change,
                            !.pendingPF = IF v.supportsSyncFence THEN v.pendingPF ELSE pf],
            out |-> <<>> \o (IF v.supportsSyncFence THEN <<FenceMsg(TRUE, pf), b>>
                             ELSE <<b>>)]
    BY <1>1, <2>1 DEF NewFormat
  <2> HIDE DEF failed, change, b
  <2> QED BY <1>1, <2>2
<1>5. <<>> \o <<b>> = <<b>>
  <2>1. b \in ToServer
    BY ToServerMessages
  <2> HIDE DEF b
  <2> QED BY <2>1, OneFirst
<1>6. NewFormat(Sending(v, <<>>), pf) = Sending(w, <<b>>)
  <2> HIDE DEF w, b
  <2> QED BY <1>4, <1>5 DEF Sending
<1>7. failed \in BOOLEAN /\ change \in BOOLEAN
  BY <1>2, <1>3, Zenon
<1> HIDE DEF failed, change
<1>8. FormatAside(v, failed, change, pf, w)
  BY <1>1, <1>7, FormatSetAside
<1>9. w.encodingChange
  BY <1>1 DEF Viewer
<1> HIDE DEF w, b
<1>10. /\ w.started /\ w.encodingChange
       /\ ~w.supportsSyncFence /\ ~w.continuousUpdates /\ w.firstUpdate /\ ~w.supportsCU
       /\ ~w.rectsLeft /\ ~w.assertFailed /\ w.size = v.size
       /\ w.pendingPFChange /\ w.pendingPF = pf /\ w \in Viewer
  BY <1>2, <1>3, <1>8, <1>9 DEF FormatAside, Beginning
<1> QED BY <1>6, <1>10 DEF b

\* A sequence of three messages, one after the other.
LEMMA ThreeMore ==
  ASSUME NEW S, NEW a \in S, NEW b \in S, NEW c \in S
  PROVE  Append(Append(<<a>>, b), c) = <<a, b, c>>
<1> DEFINE x == <<a, b>>
           y == <<a, b, c>>
<1>1. x \in Seq(S) /\ Len(x) = 2 /\ x[1] = a /\ x[2] = b /\ x = Append(<<a>>, b)
  OBVIOUS
<1>2. y \in Seq(S) /\ Len(y) = 3 /\ y[1] = a /\ y[2] = b /\ y[3] = c
  OBVIOUS
<1> HIDE DEF x, y
<1>3. /\ Append(x, c) \in Seq(S) /\ Len(Append(x, c)) = 3
      /\ \A i \in 1 .. 3 : Append(x, c)[i] = y[i]
  BY <1>1, <1>2
<1>4. Append(x, c) = y
  BY <1>2, <1>3, SeqEqual
<1> QED BY <1>1, <1>4 DEF y

\* Then it sends the encodings, and asks.
LEMMA FirstRest ==
  ASSUME NEW v \in Viewer, v.encodingChange, ~v.continuousUpdates, NEW a \in ToServer
  PROVE  \E w \in Viewer, incremental \in BOOLEAN :
           /\ AskForUpdate(CheckEncodings(Sending(v, <<a>>)))
                = Sending(w, <<a, [type |-> "SetEncodings"], UpdateRequestMsg(incremental)>>)
           /\ w.started = v.started /\ w.supportsSyncFence = v.supportsSyncFence
           /\ w.continuousUpdates = v.continuousUpdates /\ w.firstUpdate = v.firstUpdate
           /\ w.supportsCU = v.supportsCU /\ w.rectsLeft = v.rectsLeft
           /\ w.assertFailed = v.assertFailed /\ w.size = v.size
           /\ w.pendingPFChange = v.pendingPFChange /\ w.pendingPF = v.pendingPF
<1> DEFINE b == [type |-> "SetEncodings"]
           x == [v EXCEPT !.encodingChange = FALSE]
           y == [x EXCEPT !.forceNonincremental = FALSE]
           w == [y EXCEPT !.pendingUpdate = TRUE]
           incremental == ~v.forceNonincremental
           c == UpdateRequestMsg(incremental)
<1>1. /\ w \in Viewer /\ w.started = v.started /\ w.supportsSyncFence = v.supportsSyncFence
      /\ w.continuousUpdates = v.continuousUpdates /\ w.firstUpdate = v.firstUpdate
      /\ w.supportsCU = v.supportsCU /\ w.rectsLeft = v.rectsLeft
      /\ w.assertFailed = v.assertFailed /\ w.size = v.size
      /\ w.pendingPFChange = v.pendingPFChange /\ w.pendingPF = v.pendingPF
  BY ZenonT(60) DEF Viewer
<1>2. x.continuousUpdates = v.continuousUpdates
      /\ x.forceNonincremental = v.forceNonincremental
  BY DEF Viewer
<1>3. CheckEncodings(Sending(v, <<a>>)) = Sending(x, Append(<<a>>, b))
  <2>1. [Sending(v, <<a>>) EXCEPT !.v.encodingChange = FALSE] = Sending(x, <<a>>)
    BY SendingEncoding
  <2>2. Sending(v, <<a>>).v = v
    BY DEF Sending
  <2>3. Say(Sending(x, <<a>>), b) = Sending(x, Append(<<a>>, b))
    BY SendingMore
  <2> HIDE DEF x, b
  <2>4. CheckEncodings(Sending(v, <<a>>)) = Say(Sending(x, <<a>>), b)
    BY <2>1, <2>2 DEF CheckEncodings, b
  <2> QED BY <2>3, <2>4
<1> HIDE DEF x
<1>4. ASSUME NEW out
      PROVE  AskForUpdate(Sending(x, out)) = Sending(w, Append(out, c))
  <2> DEFINE S == Sending(x, out)
  <2>1. S.v = x
    BY DEF Sending
  <2>2. [S EXCEPT !.v.forceNonincremental = FALSE] = Sending(y, out)
    BY ZenonT(60), SendingForce
  <2> HIDE DEF y
  <2>3. [Sending(y, out) EXCEPT !.v.pendingUpdate = TRUE] = Sending(w, out)
    BY SendingPending
  <2>4. Say(Sending(w, out), c) = Sending(w, Append(out, c))
    BY SendingMore
  <2> HIDE DEF w, S
  <2>5. AskForUpdate(S) = Say(Sending(w, out), UpdateRequestMsg(~S.v.forceNonincremental))
    BY <1>2, <2>1, <2>2, <2>3 DEF AskForUpdate
  <2>6. AskForUpdate(S) = Say(Sending(w, out), c)
    BY <1>2, <2>1, <2>5
  <2> QED BY <2>4, <2>6 DEF S
<1>5. Append(Append(<<a>>, b), c) = <<a, b, c>>
  <2>1. incremental \in BOOLEAN
    OBVIOUS
  <2>2. b \in ToServer /\ c \in ToServer
    BY <2>1, ToServerMessages
  <2> HIDE DEF b, c
  <2> QED BY <2>2, ThreeMore
<1>6. incremental \in BOOLEAN
  OBVIOUS
<1>7. AskForUpdate(CheckEncodings(Sending(v, <<a>>))) = Sending(w, <<a, b, c>>)
  BY <1>3, <1>4, <1>5
<1> HIDE DEF w
<1> QED BY <1>1, <1>6, <1>7

\* CConn::serverInit keeps the invariant, whatever streams the handshake has left.
LEMMA ReadServerInitInv ==
  ASSUME Inv, NEW tls \in BOOLEAN, ReadServerInit(tls)
  PROVE  Inv'
<1> DEFINE v == [viewer EXCEPT !.started = TRUE, !.tls = tls, !.formatChange = TRUE,
                               !.encodingChange = TRUE]
           a == SetPixelFormatMsg(option)
           st == RequestNewUpdate(Start(v), option)
<1>1. /\ ~viewer.started /\ option' = option /\ server' = server /\ toViewer' = toViewer
      /\ Became([st EXCEPT !.v.assertFailed = @ \/ ~st.v.pendingPFChange,
                           !.v.pf = st.v.pendingPF,
                           !.v.pendingPFChange = FALSE,
                           !.v.pendingPF = NativePF])
  BY DEF ReadServerInit
<1>2. /\ viewer \in Viewer /\ option \in Format /\ toServer \in Seq(ToServer)
      /\ Good(viewer, server, toServer, toViewer, FALSE)
  BY InvIsGood DEF Good
<1>3. /\ ~viewer.supportsSyncFence /\ ~viewer.supportsCU /\ ~viewer.continuousUpdates
      /\ ~viewer.pendingUpdate /\ ~viewer.rectsLeft /\ viewer.firstUpdate
      /\ ~viewer.assertFailed /\ Len(toServer) = 0
  BY <1>1, <1>2 DEF Good, SyncInv, Fresh
<1>4. Beginning(v) /\ v.size = viewer.size
  <2>1. v \in Viewer /\ v.started /\ v.formatChange /\ v.encodingChange
        /\ v.size = viewer.size
    BY <1>2 DEF Viewer
  <2>2. /\ v.supportsSyncFence = viewer.supportsSyncFence
        /\ v.supportsCU = viewer.supportsCU
        /\ v.continuousUpdates = viewer.continuousUpdates
        /\ v.pendingUpdate = viewer.pendingUpdate /\ v.rectsLeft = viewer.rectsLeft
        /\ v.firstUpdate = viewer.firstUpdate /\ v.assertFailed = viewer.assertFailed
    BY <1>2 DEF Viewer
  <2> HIDE DEF v
  <2> QED BY <1>3, <2>1, <2>2 DEF Beginning
<1> HIDE DEF v
<1>5. PICK x \in Viewer :
        /\ NewFormat(Sending(v, <<>>), option) = Sending(x, <<a>>)
        /\ x.started /\ x.encodingChange
        /\ ~x.supportsSyncFence /\ ~x.continuousUpdates /\ x.firstUpdate /\ ~x.supportsCU
        /\ ~x.rectsLeft /\ ~x.assertFailed /\ x.size = v.size
        /\ x.pendingPFChange /\ x.pendingPF = option
  BY <1>2, <1>4, FirstFormat
<1>6. a \in ToServer
  BY <1>2, ToServerMessages
<1>7. PICK y \in Viewer, incremental \in BOOLEAN :
        /\ AskForUpdate(CheckEncodings(Sending(x, <<a>>)))
             = Sending(y, <<a, [type |-> "SetEncodings"], UpdateRequestMsg(incremental)>>)
        /\ y.started = x.started /\ y.supportsSyncFence = x.supportsSyncFence
        /\ y.continuousUpdates = x.continuousUpdates /\ y.firstUpdate = x.firstUpdate
        /\ y.supportsCU = x.supportsCU /\ y.rectsLeft = x.rectsLeft
        /\ y.assertFailed = x.assertFailed /\ y.size = x.size
        /\ y.pendingPFChange = x.pendingPFChange /\ y.pendingPF = x.pendingPF
  <2> HIDE DEF a
  <2> QED BY <1>5, <1>6, FirstRest
<1> DEFINE q == FirstSent(option, incremental)
           w == InitViewer(y, FALSE, option, FALSE, NativePF)
<1>8. st = Sending(y, q)
  <2>1. Start(v) = Sending(v, <<>>)
    BY DEF Start, Sending
  <2>2. st = AskForUpdate(CheckEncodings(NewFormat(Start(v), option)))
    BY DEF RequestNewUpdate
  <2> HIDE DEF st, a
  <2>3. AskForUpdate(CheckEncodings(Sending(x, <<a>>))) = Sending(y, q)
    BY <1>7, Zenon DEF FirstSent, a
  <2> HIDE DEF q
  <2> QED BY <1>5, <2>1, <2>2, <2>3
<1>9. [st EXCEPT !.v.assertFailed = @ \/ ~st.v.pendingPFChange,
                 !.v.pf = st.v.pendingPF,
                 !.v.pendingPFChange = FALSE,
                 !.v.pendingPF = NativePF] = Sending(w, q)
  <2> DEFINE failed == st.v.assertFailed \/ ~st.v.pendingPFChange
  <2>1. st.v = y
    BY <1>8 DEF Sending
  <2>2. st.v.pendingPF = option
    BY <1>5, <1>7, <2>1
  <2>3. failed = FALSE
    <3> HIDE DEF st
    <3>1. ~st.v.assertFailed /\ st.v.pendingPFChange /\ st.v.assertFailed \in BOOLEAN
      BY <1>5, <1>7, <2>1 DEF Viewer
    <3>2. ~failed
      BY <3>1
    <3>3. failed \in BOOLEAN
      BY <3>1, Zenon
    <3> HIDE DEF failed
    <3> QED BY <3>2, <3>3, Zenon
  <2>4. InitSending(Sending(y, q), FALSE, option, FALSE, NativePF) = Sending(w, q)
    <3> DEFINE no == FALSE
    <3> HIDE DEF q, no
    <3>1. InitSending(Sending(y, q), no, option, no, NativePF)
            = Sending(InitViewer(y, no, option, no, NativePF), q)
      BY SendingInit
    <3> QED BY <3>1 DEF no
  <2> HIDE DEF st, q, w
  <2>5. [st EXCEPT !.v.assertFailed = @ \/ ~st.v.pendingPFChange,
                   !.v.pf = st.v.pendingPF,
                   !.v.pendingPFChange = FALSE,
                   !.v.pendingPF = NativePF]
          = InitSending(st, failed, st.v.pendingPF, FALSE, NativePF)
    BY Zenon DEF InitSending
  <2> HIDE DEF failed
  <2> QED BY <1>8, <2>2, <2>3, <2>4, <2>5
<1>10. /\ w \in Viewer /\ w.started /\ w.pf = option /\ ~w.pendingPFChange /\ ~w.rectsLeft
       /\ ~w.supportsSyncFence /\ ~w.continuousUpdates /\ w.firstUpdate /\ ~w.supportsCU
       /\ w.size = viewer.size /\ ~w.assertFailed
  <2>1. /\ w \in Viewer /\ w.pf = option /\ ~w.pendingPFChange /\ ~w.assertFailed
    BY ZenonT(60), <1>2, FormatAssumption DEF Viewer, InitViewer
  <2>2. /\ w.started = y.started /\ w.rectsLeft = y.rectsLeft
        /\ w.supportsSyncFence = y.supportsSyncFence
        /\ w.continuousUpdates = y.continuousUpdates /\ w.firstUpdate = y.firstUpdate
        /\ w.supportsCU = y.supportsCU /\ w.size = y.size
    BY DEF Viewer, InitViewer
  <2> HIDE DEF w
  <2> QED BY <1>4, <1>5, <1>7, <2>1, <2>2
<1>11. /\ q \in Seq(ToServer) /\ Len(q) = 3
       /\ q[1].type = "SetPixelFormat" /\ q[1].pf = option
       /\ q[2].type = "SetEncodings" /\ q[3].type = "UpdateRequest"
  BY <1>2, FirstMessages
<1> HIDE DEF w, q, st
<1>12. Good(w, server, q, toViewer, FALSE)
  BY <1>1, <1>2, <1>10, <1>11, GoodFirst
<1>13. toServer \o q = q
  <2>1. toServer = <<>>
    BY <1>2, <1>3
  <2> QED BY <1>11, <2>1
<1>14. GoodAfter(Sending(w, q), server, toServer, toViewer, FALSE)
  <2>1. Sending(w, q) \in States /\ Sending(w, q).v = w /\ Sending(w, q).out = q
    BY <1>10, <1>11, SendingIs
  <2> QED BY <1>2, <1>12, <1>13, <2>1 DEF GoodAfter
<1> QED BY <1>1, <1>2, <1>9, <1>14, BecomesInv

-----------------------------------------------------------------------------
\* What the server reads.  Everything but the formats, which are joined at the end.
Rest(v, s, ts, tv, owed) ==
  /\ v \in Viewer /\ s \in Server /\ ts \in Seq(ToServer) /\ tv \in Seq(ToViewer)
  /\ owed \in BOOLEAN
  /\ Fresh(v, s, ts, tv) /\ Shape(v, tv) /\ Pending(v)
  /\ Pairs(s, ts) /\ BareFirst(v, s, ts, owed)
  /\ Turn(v, s, ts, tv, owed) /\ Unsynced(v, s, ts, tv) /\ ProbeOnce(v, s, ts, tv)
  /\ Continuous(v, s, ts, tv) /\ SizeKnown(v, s, tv)
  /\ ~v.assertFailed /\ ~s.refused

\* The formats on one side, the rest on the other.
LEMMA GoodIsRest ==
  ASSUME NEW v, NEW s, NEW ts, NEW tv, NEW owed
  PROVE  Good(v, s, ts, tv, owed) <=> Rest(v, s, ts, tv, owed) /\ InFormat(v, s, ts, tv)
  BY DEF Good, SyncInv, Rest

\* What a message does to the server, but for the fence that it may answer.
Handled(s, m, w) ==
  /\ w \in Server
  /\ w.knowsFences = s.knowsFences /\ w.size = s.size /\ (s.newSize => w.newSize)
  /\ FormatPending(w) <=> FormatFence(m)
  /\ FormatFence(m) => w.fenceData = m.data
  /\ ProbePending(w) => ProbePending(s) \/ Probe(m)
  /\ w.pf = IF m.type = "SetPixelFormat" THEN m.pf ELSE s.pf
  /\ m.type = "UpdateRequest" => (~s.continuous => w.requested)
  /\ m.type # "UpdateRequest" => (w.requested => s.requested)
  /\ m.type \notin {"UpdateRequest", "EnableCU"} => (s.requested => w.requested)
  /\ w.continuous = (s.continuous \/ m.type = "EnableCU")
  /\ w.cuSize = IF m.type = "EnableCU" THEN m.size ELSE s.cuSize
  /\ w.supportsCU = w.supportsFence
  /\ w.supportsFence => w.knowsFences
  /\ s.supportsFence => w.supportsFence
  /\ ~w.refused

\* A format stays behind its fence when the server reads, and bare formats stay
\* bare.
LEMMA ReadPairs ==
  ASSUME NEW s, NEW w, NEW ts, NEW ts1, Shorter(ts, ts1), Pairs(s, ts), Handled(s, ts[1], w)
  PROVE  /\ Pairs(w, ts1)
         /\ \A i \in 1 .. Len(ts1) : Bare(w, ts1, i) <=> Bare(s, ts, i + 1)
<1> DEFINE n == Len(ts1)
<1>1. n \in Nat /\ Len(ts) = n + 1 /\ \A i \in 1 .. n : ts1[i] = ts[i + 1]
  BY DEF Shorter
<1> HIDE DEF n
<1>2. (FormatPending(w) <=> FormatFence(ts[1])) /\ (FormatFence(ts[1]) => w.fenceData = ts[1].data)
  BY DEF Handled
<1>3. \A i \in 1 .. n + 1 :
        FormatFence(ts[i]) => i < n + 1 /\ ts[i + 1] = SetPixelFormatMsg(ts[i].data)
  BY <1>1 DEF Pairs
<1>4. ASSUME NEW i \in 1 .. n, FormatFence(ts1[i])
      PROVE  i < n /\ ts1[i + 1] = SetPixelFormatMsg(ts1[i].data)
  <2>1. i + 1 \in 1 .. n + 1 /\ FormatFence(ts[i + 1]) /\ ts1[i] = ts[i + 1]
    BY <1>1, <1>4
  <2>2. i + 1 < n + 1 /\ ts[(i + 1) + 1] = SetPixelFormatMsg(ts[i + 1].data)
    BY <1>3, <2>1
  <2>3. i + 1 \in 1 .. n /\ i < n
    BY <1>1, <2>2
  <2>4. ts1[i + 1] = ts[(i + 1) + 1]
    BY <1>1, <2>3
  <2> QED BY <2>1, <2>2, <2>3, <2>4
<1>5. ASSUME FormatPending(w)
      PROVE  n > 0 /\ ts1[1] = SetPixelFormatMsg(w.fenceData)
  <2>1. 1 < n + 1 /\ ts[1 + 1] = SetPixelFormatMsg(ts[1].data)
    <3>1. 1 \in 1 .. n + 1 /\ FormatFence(ts[1])
      BY <1>1, <1>2, <1>5
    <3> QED BY <1>3, <3>1
  <2>2. 1 \in 1 .. n /\ ts1[1] = ts[1 + 1]
    BY <1>1, <2>1
  <2>3. n > 0
    BY <1>1, <2>1
  <2>4. w.fenceData = ts[1].data
    BY <1>2, <1>5
  <2> QED BY <2>1, <2>2, <2>3, <2>4
<1>6. ASSUME NEW i \in 1 .. n
      PROVE  Bare(w, ts1, i) <=> Bare(s, ts, i + 1)
  <2>1. ts1[i] = ts[i + 1] /\ i + 1 # 1 /\ (i + 1) - 1 = i
    BY <1>1
  <2>2. CASE i = 1
    BY <1>2, <2>1, <2>2 DEF Bare
  <2>3. CASE i # 1
    <3>1. ts1[i - 1] = ts[i]
      <4>1. i - 1 \in 1 .. n /\ (i - 1) + 1 = i
        BY <1>1, <2>3
      <4> QED BY <1>1, <4>1
    <3> QED BY <2>1, <2>3, <3>1 DEF Bare
  <2> QED BY <2>2, <2>3
<1> QED BY <1>4, <1>5, <1>6 DEF Pairs, n

\* The bare format stays ahead of the update it is for.
LEMMA ReadBareFirst ==
  ASSUME NEW v, NEW s, NEW w, NEW ts, NEW ts1, Shorter(ts, ts1), BareFirst(v, s, ts, FALSE),
         Handled(s, ts[1], w),
         \A i \in 1 .. Len(ts1) : Bare(w, ts1, i) <=> Bare(s, ts, i + 1)
  PROVE  BareFirst(v, w, ts1, FALSE)
<1> DEFINE n == Len(ts1)
<1>1. n \in Nat /\ Len(ts) = n + 1 /\ \A i \in 1 .. n : ts1[i] = ts[i + 1]
  BY DEF Shorter
<1> HIDE DEF n
<1> SUFFICES ASSUME NEW i \in 1 .. n, Bare(w, ts1, i)
             PROVE  /\ ~w.requested /\ ~w.continuous /\ ~FormatPending(w)
                    /\ \A j \in 1 .. i - 1 :
                         ts1[j].type \notin {"UpdateRequest", "EnableCU"} /\ ~FormatFence(ts1[j])
                    /\ \E k \in i + 1 .. n : ts1[k].type = "UpdateRequest"
                    /\ \A j \in 1 .. n : Bare(w, ts1, j) => j = i
  BY DEF BareFirst, n
<1> DEFINE p == i + 1
<1>2. p \in 1 .. Len(ts) /\ Bare(s, ts, p) /\ p > 1
  BY <1>1 DEF n
<1>3. /\ ~s.requested /\ ~s.continuous
      /\ \A j \in 1 .. p - 1 :
           ts[j].type \notin {"UpdateRequest", "EnableCU"} /\ ~FormatFence(ts[j])
      /\ \E k \in p + 1 .. Len(ts) : ts[k].type = "UpdateRequest"
      /\ \A j \in 1 .. Len(ts) : Bare(s, ts, j) => j = p
  <2> HIDE DEF p
  <2> QED BY <1>2 DEF BareFirst
<1>4. ts[1].type \notin {"UpdateRequest", "EnableCU"} /\ ~FormatFence(ts[1])
  BY <1>2, <1>3
<1>5. ~w.requested /\ ~w.continuous /\ ~FormatPending(w)
  BY <1>3, <1>4 DEF Handled
<1>6. ASSUME NEW j \in 1 .. i - 1
      PROVE  ts1[j].type \notin {"UpdateRequest", "EnableCU"} /\ ~FormatFence(ts1[j])
  <2>1. j + 1 \in 1 .. p - 1 /\ j \in 1 .. n
    BY <1>1
  <2> QED BY <1>1, <1>3, <2>1
<1>7. \E k \in i + 1 .. n : ts1[k].type = "UpdateRequest"
  <2>1. PICK k \in p + 1 .. Len(ts) : ts[k].type = "UpdateRequest"
    BY <1>3
  <2>2. k - 1 \in i + 1 .. n /\ k - 1 \in 1 .. n /\ (k - 1) + 1 = k
    BY <1>1, <2>1
  <2> QED BY <1>1, <2>1, <2>2
<1>8. ASSUME NEW j \in 1 .. n, Bare(w, ts1, j) PROVE j = i
  <2>1. j + 1 \in 1 .. Len(ts) /\ Bare(s, ts, j + 1)
    BY <1>1, <1>8 DEF n
  <2>2. j + 1 = p
    BY <1>3, <2>1
  <2> QED BY <2>2
<1> QED BY <1>5, <1>6, <1>7, <1>8

\* The server reads a request and has it: none is lost, none is answered twice.
LEMMA ReadTurn ==
  ASSUME NEW v, NEW s, NEW w, NEW ts, NEW ts1, NEW tv, Shorter(ts, ts1),
         Turn(v, s, ts, tv, FALSE), Unsynced(v, s, ts, tv), Continuous(v, s, ts, tv),
         Handled(s, ts[1], w)
  PROVE  Turn(v, w, ts1, tv, FALSE)
<1> DEFINE n == Len(ts1)
<1>1. n \in Nat /\ Len(ts) = n + 1 /\ \A i \in 1 .. n : ts1[i] = ts[i + 1]
  BY DEF Shorter
<1> HIDE DEF n
<1>2. 1 \in 1 .. Len(ts) /\ \A i \in 1 .. n : Asking(ts1, i) <=> Asking(ts, i + 1)
  BY <1>1 DEF Asking, n
<1>3. s.continuous => v.continuousUpdates
  BY DEF Continuous
<1>4. ts[1].type = "EnableCU" => v.continuousUpdates
  BY <1>2 DEF Continuous, Enabling
<1>5. ~v.continuousUpdates =>
        /\ ts[1].type = "UpdateRequest" => w.requested
        /\ ts[1].type # "UpdateRequest" => (w.requested <=> s.requested)
  BY <1>3, <1>4 DEF Handled
<1>6. ASSUME ~v.continuousUpdates, SomeTurn(s, ts, tv, FALSE)
      PROVE  SomeTurn(w, ts1, tv, FALSE)
  <2>1. CASE s.requested
    BY <1>5, <1>6, <2>1 DEF SomeTurn
  <2>2. CASE \E i \in 1 .. Len(ts) : Asking(ts, i)
    <3>1. PICK i \in 1 .. Len(ts) : Asking(ts, i)
      BY <2>2
    <3>2. CASE i = 1
      BY <1>5, <1>6, <3>1, <3>2 DEF SomeTurn, Asking
    <3>3. CASE i # 1
      <4>1. i - 1 \in 1 .. n /\ (i - 1) + 1 = i
        BY <1>1, <3>3
      <4> QED BY <1>2, <3>1, <4>1 DEF SomeTurn, n
    <3> QED BY <3>2, <3>3
  <2>3. CASE \E i \in 1 .. Len(tv) : Coming(tv, i)
    BY <2>3 DEF SomeTurn
  <2> QED BY <1>6, <2>1, <2>2, <2>3 DEF SomeTurn
<1>7. ASSUME ~v.continuousUpdates, OneTurn(s, ts, tv, FALSE)
      PROVE  OneTurn(w, ts1, tv, FALSE)
  <2>1. SomeTurn(w, ts1, tv, FALSE)
    BY <1>6, <1>7 DEF OneTurn
  <2>2. ASSUME NEW i \in 1 .. n, Asking(ts1, i) PROVE ~w.requested
    <3>1. i + 1 \in 1 .. Len(ts) /\ Asking(ts, i + 1)
      BY <1>1, <1>2, <2>2
    <3>2. ~s.requested /\ ~Asking(ts, 1)
      <4>1. ~s.requested
        BY <1>7, <3>1 DEF OneTurn
      <4>2. ASSUME Asking(ts, 1) PROVE FALSE
        <5>1. i + 1 = 1
          BY <1>2, <1>7, <3>1, <4>2 DEF OneTurn
        <5> QED BY <5>1
      <4> QED BY <4>1, <4>2
    <3> QED BY <1>2, <1>5, <1>7, <3>2 DEF Asking
  <2>3. ASSUME NEW i \in 1 .. n, NEW j \in 1 .. n, Asking(ts1, i), Asking(ts1, j) PROVE i = j
    <3>1. i + 1 \in 1 .. Len(ts) /\ Asking(ts, i + 1) /\ j + 1 \in 1 .. Len(ts) /\ Asking(ts, j + 1)
      BY <1>1, <1>2, <2>3
    <3>2. i + 1 = j + 1
      BY <1>7, <3>1 DEF OneTurn
    <3> QED BY <3>2
  <2>4. ASSUME NEW i \in 1 .. Len(tv), Coming(tv, i)
        PROVE  ~w.requested /\ \A j \in 1 .. n : ~Asking(ts1, j)
    <3>1. ~s.requested /\ \A j \in 1 .. Len(ts) : ~Asking(ts, j)
      BY <1>7, <2>4 DEF OneTurn
    <3>2. ~w.requested
      BY <1>2, <1>5, <1>7, <3>1 DEF Asking
    <3> QED BY <1>1, <1>2, <3>1, <3>2
  <2>5. \A i, j \in 1 .. Len(tv) : Coming(tv, i) /\ Coming(tv, j) => i = j
    BY <1>7 DEF OneTurn
  <2> QED BY <2>1, <2>2, <2>3, <2>4, <2>5 DEF OneTurn, n
<1>8. ~v.supportsSyncFence => ~v.continuousUpdates
  BY DEF Unsynced
<1> QED BY <1>6, <1>7, <1>8 DEF Turn

\* Until fences work the server reads no fenced format.
LEMMA ReadUnsynced ==
  ASSUME NEW v, NEW s, NEW w, NEW ts, NEW ts1, NEW tv, Shorter(ts, ts1),
         Unsynced(v, s, ts, tv), Handled(s, ts[1], w)
  PROVE  Unsynced(v, w, ts1, tv)
<1>1. \A i \in 1 .. Len(ts1) : i + 1 \in 1 .. Len(ts) /\ ts1[i] = ts[i + 1]
  BY DEF Shorter
<1>2. 1 \in 1 .. Len(ts)
  BY DEF Shorter
<1> QED BY <1>1, <1>2 DEF Unsynced, Handled

\* The probe goes from the queue to the server's only slot for fences.
LEMMA ReadProbeOnce ==
  ASSUME NEW v, NEW s, NEW w, NEW ts, NEW ts1, NEW tv, Shorter(ts, ts1),
         ProbeOnce(v, s, ts, tv), Handled(s, ts[1], w)
  PROVE  ProbeOnce(v, w, ts1, tv)
<1>1. \A i \in 1 .. Len(ts1) : i + 1 \in 1 .. Len(ts) /\ ts1[i] = ts[i + 1] /\ i + 1 # 1
  BY DEF Shorter
<1>2. 1 \in 1 .. Len(ts)
  BY DEF Shorter
<1>3. ProbePending(w) => ProbePending(s) \/ Probe(ts[1])
  BY DEF Handled
<1>4. ASSUME ProbePending(w)
      PROVE  /\ ~v.firstUpdate /\ ~v.supportsSyncFence
             /\ \A j \in 1 .. Len(tv) : ~ProbeReply(tv[j])
             /\ \A i \in 1 .. Len(ts1) : ~Probe(ts1[i])
  <2>1. CASE ProbePending(s)
    BY <1>1, <2>1 DEF ProbeOnce
  <2>2. CASE Probe(ts[1])
    <3>1. /\ ~v.firstUpdate /\ ~v.supportsSyncFence
          /\ \A j \in 1 .. Len(tv) : ~ProbeReply(tv[j])
          /\ \A j \in 1 .. Len(ts) : Probe(ts[j]) => j = 1
      BY <1>2, <2>2 DEF ProbeOnce
    <3>2. ASSUME NEW i \in 1 .. Len(ts1), Probe(ts1[i]) PROVE FALSE
      BY <1>1, <3>1, <3>2
    <3> QED BY <3>1, <3>2
  <2> QED BY <1>3, <1>4, <2>1, <2>2
<1>5. ASSUME NEW i \in 1 .. Len(ts1), Probe(ts1[i])
      PROVE  /\ ~v.firstUpdate /\ ~v.supportsSyncFence /\ ~ProbePending(w)
             /\ \A j \in 1 .. Len(ts1) : Probe(ts1[j]) => j = i
             /\ \A j \in 1 .. Len(tv) : ~ProbeReply(tv[j])
  <2>1. i + 1 \in 1 .. Len(ts) /\ Probe(ts[i + 1])
    BY <1>1, <1>5
  <2>2. /\ ~v.firstUpdate /\ ~v.supportsSyncFence /\ ~ProbePending(s)
        /\ \A j \in 1 .. Len(ts) : Probe(ts[j]) => j = i + 1
        /\ \A j \in 1 .. Len(tv) : ~ProbeReply(tv[j])
    BY <2>1 DEF ProbeOnce
  <2>3. ~ProbePending(w)
    BY <1>4, <1>5
  <2>4. ASSUME NEW j \in 1 .. Len(ts1), Probe(ts1[j]) PROVE j = i
    <3>1. j + 1 = i + 1
      BY <1>1, <2>2, <2>4
    <3>2. i \in Int /\ j \in Int
      BY DEF Shorter
    <3> QED BY <3>1, <3>2
  <2> QED BY <2>2, <2>3, <2>4
<1>6. \A i \in 1 .. Len(tv) : ProbeReply(tv[i]) =>
        /\ ~v.firstUpdate /\ ~v.supportsSyncFence
        /\ \A j \in 1 .. Len(tv) : ProbeReply(tv[j]) => j = i
  BY DEF ProbeOnce
<1>7. v.supportsSyncFence => ~v.firstUpdate
  BY DEF ProbeOnce
<1> QED BY <1>4, <1>5, <1>6, <1>7 DEF ProbeOnce

\* The server enables continuous updates for the area it reads.
LEMMA ReadContinuous ==
  ASSUME NEW v, NEW s, NEW w, NEW ts, NEW ts1, NEW tv, Shorter(ts, ts1),
         Continuous(v, s, ts, tv), Handled(s, ts[1], w)
  PROVE  Continuous(v, w, ts1, tv)
<1> DEFINE n == Len(ts1)
<1>1. n \in Nat /\ Len(ts) = n + 1 /\ \A i \in 1 .. n : ts1[i] = ts[i + 1]
  BY DEF Shorter
<1> HIDE DEF n
<1>2. 1 \in 1 .. Len(ts) /\ \A i \in 1 .. n : Enabling(ts1, i) <=> Enabling(ts, i + 1)
  BY <1>1 DEF Enabling, n
<1>3. Enabling(ts, 1) <=> ts[1].type = "EnableCU"
  BY <1>2 DEF Enabling
<1>4. /\ w.supportsCU = w.supportsFence
      /\ w.supportsFence => w.knowsFences
      /\ v.supportsCU => w.supportsFence
      /\ \A i \in 1 .. Len(tv) : tv[i].type = "EndOfCU" => w.supportsFence
      /\ v.continuousUpdates => w.supportsFence
  BY DEF Continuous, Handled
<1>5. Enabling(ts, 1) => v.continuousUpdates
  BY <1>2 DEF Continuous
<1>6. w.continuous => v.continuousUpdates
  BY <1>3, <1>5 DEF Continuous, Handled
<1>7. ASSUME NEW i \in 1 .. n, Enabling(ts1, i) PROVE v.continuousUpdates
  <2>1. i + 1 \in 1 .. Len(ts) /\ Enabling(ts, i + 1)
    BY <1>1, <1>2, <1>7
  <2> QED BY <2>1 DEF Continuous
<1>8. ASSUME v.continuousUpdates
      PROVE  \/ \E i \in 1 .. n : /\ Enabling(ts1, i) /\ ts1[i].size = v.size
                                  /\ \A j \in i + 1 .. n : ~Enabling(ts1, j)
             \/ /\ \A i \in 1 .. n : ~Enabling(ts1, i)
                /\ w.continuous /\ w.cuSize = v.size
  <2>1. CASE \E i \in 1 .. Len(ts) : /\ Enabling(ts, i) /\ ts[i].size = v.size
                                     /\ \A j \in i + 1 .. Len(ts) : ~Enabling(ts, j)
    <3>1. PICK i \in 1 .. Len(ts) : /\ Enabling(ts, i) /\ ts[i].size = v.size
                                    /\ \A j \in i + 1 .. Len(ts) : ~Enabling(ts, j)
      BY <2>1
    <3>2. ASSUME NEW j \in i .. n, j # 0 PROVE ~Enabling(ts1, j)
      <4>1. j + 1 \in i + 1 .. Len(ts) /\ j \in 1 .. n
        BY <1>1, <3>2
      <4> QED BY <1>2, <3>1, <4>1
    <3>3. CASE i = 1
      <4>1. w.continuous /\ w.cuSize = v.size
        BY <1>3, <3>1, <3>3 DEF Handled
      <4> QED BY <3>2, <3>3, <4>1
    <3>4. CASE i # 1
      <4>1. i - 1 \in 1 .. n /\ (i - 1) + 1 = i
        BY <1>1, <3>4
      <4>2. Enabling(ts1, i - 1) /\ ts1[i - 1].size = v.size
        BY <1>1, <1>2, <3>1, <4>1
      <4>3. \A j \in (i - 1) + 1 .. n : ~Enabling(ts1, j)
        BY <3>2, <4>1
      <4> QED BY <4>1, <4>2, <4>3
    <3> QED BY <3>3, <3>4
  <2>2. CASE (\A i \in 1 .. Len(ts) : ~Enabling(ts, i)) /\ s.continuous /\ s.cuSize = v.size
    <3>1. ts[1].type # "EnableCU"
      BY <1>2, <1>3, <2>2
    <3>2. w.continuous /\ w.cuSize = v.size
      BY <2>2, <3>1 DEF Handled
    <3>3. ASSUME NEW i \in 1 .. n PROVE ~Enabling(ts1, i)
      <4>1. i + 1 \in 1 .. Len(ts)
        BY <1>1
      <4> QED BY <1>2, <2>2, <4>1
    <3> QED BY <3>2, <3>3
  <2> QED BY <1>8, <2>1, <2>2 DEF Continuous
<1> QED BY <1>4, <1>6, <1>7, <1>8 DEF Continuous, n

\* All but the formats when the server reads a message.
LEMMA ReadRest ==
  ASSUME NEW v, NEW s, NEW w, NEW ts, NEW tv, Rest(v, s, ts, tv, FALSE),
         NEW ts1 \in Seq(ToServer), Shorter(ts, ts1), Handled(s, ts[1], w)
  PROVE  /\ Rest(v, w, ts1, tv, FALSE) /\ v.started
         /\ \A i \in 1 .. Len(ts1) : Bare(w, ts1, i) <=> Bare(s, ts, i + 1)
<1>1. v.started
  BY DEF Rest, Fresh, Shorter
<1>2. Fresh(v, w, ts1, tv)
  BY <1>1 DEF Fresh
<1>3. /\ Pairs(w, ts1)
      /\ \A i \in 1 .. Len(ts1) : Bare(w, ts1, i) <=> Bare(s, ts, i + 1)
  BY ReadPairs DEF Rest
<1>4. BareFirst(v, w, ts1, FALSE)
  BY <1>3, ReadBareFirst DEF Rest
<1>5. Turn(v, w, ts1, tv, FALSE)
  BY ReadTurn DEF Rest
<1>6. Unsynced(v, w, ts1, tv)
  BY ReadUnsynced DEF Rest
<1>7. ProbeOnce(v, w, ts1, tv)
  BY ReadProbeOnce DEF Rest
<1>8. Continuous(v, w, ts1, tv)
  BY ReadContinuous DEF Rest
<1>9. SizeKnown(v, w, tv)
  BY DEF Rest, SizeKnown, Handled
<1>10. w \in Server /\ ~w.refused
  BY DEF Handled
<1> QED BY <1>1, <1>2, <1>3, <1>4, <1>5, <1>6, <1>7, <1>8, <1>9, <1>10 DEF Rest

\* The formats, when the server reads a message that answers no fence about them.
LEMMA ReadFormat ==
  ASSUME NEW v, NEW s, NEW w, NEW ts, NEW ts1, NEW tv, InFormat(v, s, ts, tv),
         Shorter(ts, ts1), Handled(s, ts[1], w),
         \A i \in 1 .. Len(ts1) : Bare(w, ts1, i) <=> Bare(s, ts, i + 1),
         ts[1].type = "SetPixelFormat" => Bare(s, ts, 1)
  PROVE  InFormat(v, w, ts1, tv)
<1> DEFINE n == Len(ts1)
<1>1. n \in Nat /\ Len(ts) = n + 1 /\ \A i \in 1 .. n : ts1[i] = ts[i + 1]
  BY DEF Shorter
<1> HIDE DEF n
<1>2. PICK f \in [1 .. Len(tv) + 1 -> Format] :
        Follows(v, tv, f) /\ NextFormat(s, ts, f[Len(tv) + 1])
  BY DEF InFormat
<1> DEFINE x == f[Len(tv) + 1]
<1>3. /\ \A i \in 1 .. Len(ts) : Bare(s, ts, i) => ts[i].pf = x
      /\ (\A i \in 1 .. Len(ts) : ~Bare(s, ts, i)) => s.pf = x
  BY <1>2 DEF NextFormat
<1> HIDE DEF x
<1>4. ASSUME NEW i \in 1 .. n, Bare(w, ts1, i) PROVE ts1[i].pf = x
  <2>1. i + 1 \in 1 .. Len(ts) /\ Bare(s, ts, i + 1)
    BY <1>1, <1>4 DEF n
  <2> QED BY <1>1, <1>3, <2>1
<1>5. ASSUME \A i \in 1 .. n : ~Bare(w, ts1, i) PROVE w.pf = x
  <2>0. 1 \in 1 .. Len(ts)
    BY <1>1
  <2>1. CASE ts[1].type = "SetPixelFormat"
    BY <1>3, <2>0, <2>1 DEF Handled
  <2>2. CASE ts[1].type # "SetPixelFormat"
    <3>1. ASSUME NEW i \in 1 .. Len(ts) PROVE ~Bare(s, ts, i)
      <4>1. CASE i = 1
        BY <2>2, <4>1 DEF Bare
      <4>2. CASE i # 1
        <5>1. i - 1 \in 1 .. n /\ (i - 1) + 1 = i
          BY <1>1, <4>2
        <5> QED BY <1>5, <5>1 DEF n
      <4> QED BY <4>1, <4>2
    <3> QED BY <1>3, <2>2, <3>1 DEF Handled
  <2> QED BY <2>1, <2>2
<1>6. NextFormat(w, ts1, x)
  BY <1>4, <1>5 DEF NextFormat, n
<1> QED BY <1>2, <1>6 DEF InFormat, x

\* The formats of a longer queue.
LEMMA ExtendFormat ==
  ASSUME NEW v, NEW tv, NEW f \in [1 .. Len(tv) + 1 -> Format], Follows(v, tv, f),
         NEW k, NEW tv1, Longer(tv, k, tv1), NEW y \in Format,
         y = After(v, k, Len(tv) + 1, f[Len(tv) + 1]),
         k.type = "Rect" => k.pf = f[Len(tv) + 1]
  PROVE  \E g \in [1 .. Len(tv1) + 1 -> Format] : Follows(v, tv1, g) /\ g[Len(tv1) + 1] = y
<1> DEFINE n == Len(tv)
<1>1. /\ n \in Nat /\ Len(tv1) = n + 1 /\ tv1[n + 1] = k /\ \A i \in 1 .. n : tv1[i] = tv[i]
  BY DEF Longer
<1> HIDE DEF n
<1> DEFINE g == [i \in 1 .. n + 2 |-> IF i = n + 2 THEN y ELSE f[i]]
<1>2. /\ f \in [1 .. n + 1 -> Format] /\ f[1] = v.pf
      /\ \A i \in 1 .. n : /\ f[i + 1] = After(v, tv[i], i, f[i])
                           /\ tv[i].type = "Rect" => tv[i].pf = f[i]
      /\ y = After(v, k, n + 1, f[n + 1]) /\ (k.type = "Rect" => k.pf = f[n + 1])
  BY <1>1 DEF Follows, n
<1>3. /\ g \in [1 .. n + 2 -> Format] /\ g[n + 2] = y
      /\ \A i \in 1 .. n + 1 : g[i] = f[i]
  BY <1>1, <1>2
<1> HIDE DEF g
<1>4. ASSUME NEW i \in 1 .. n + 1
      PROVE  /\ g[i + 1] = After(v, tv1[i], i, g[i])
             /\ tv1[i].type = "Rect" => tv1[i].pf = g[i]
  <2>1. CASE i = n + 1
    <3>1. g[i + 1] = y /\ g[i] = f[n + 1] /\ tv1[i] = k
      BY <1>1, <1>3, <2>1
    <3> QED BY <1>2, <2>1, <3>1
  <2>2. CASE i # n + 1
    <3>1. i \in 1 .. n /\ g[i + 1] = f[i + 1] /\ g[i] = f[i] /\ tv1[i] = tv[i]
      BY <1>1, <1>3, <2>2
    <3> QED BY <1>2, <3>1
  <2> QED BY <2>1, <2>2
<1>5. g[1] = v.pf
  BY <1>1, <1>2, <1>3
<1>6. Len(tv1) = n + 1 /\ Len(tv1) + 1 = n + 2
  BY <1>1
<1>7. Follows(v, tv1, g)
  BY <1>3, <1>4, <1>5, <1>6 DEF Follows
<1> QED BY <1>3, <1>6, <1>7

\* When it reads a format whose fence it then answers.
LEMMA SwitchFormat ==
  ASSUME NEW v, NEW s, NEW w, NEW ts, NEW ts1, NEW tv, NEW tv1, InFormat(v, s, ts, tv),
         NEW owed, BareFirst(v, s, ts, owed), FormatPending(s),
         Shorter(ts, ts1),
         \A i \in 1 .. Len(ts1) : Bare(w, ts1, i) <=> Bare(s, ts, i + 1),
         NEW k, Longer(tv, k, tv1), Switch(k), k.data = w.pf, w.pf \in Format
  PROVE  InFormat(v, w, ts1, tv1)
<1>1. PICK f \in [1 .. Len(tv) + 1 -> Format] : Follows(v, tv, f)
  BY DEF InFormat
<1>2. w.pf = After(v, k, Len(tv) + 1, f[Len(tv) + 1]) /\ k.type # "Rect"
  BY DEF After, Switch
<1>3. PICK g \in [1 .. Len(tv1) + 1 -> Format] : Follows(v, tv1, g) /\ g[Len(tv1) + 1] = w.pf
  BY <1>1, <1>2, ExtendFormat
<1>4. \A i \in 1 .. Len(ts1) : i + 1 \in 1 .. Len(ts)
  BY DEF Shorter
<1>5. \A i \in 1 .. Len(ts1) : ~Bare(w, ts1, i)
  BY <1>4 DEF BareFirst
<1>6. NextFormat(w, ts1, g[Len(tv1) + 1])
  BY <1>3, <1>5 DEF NextFormat
<1> QED BY <1>3, <1>6 DEF InFormat

\* What the server tells the viewer without an update.
TellFormat(v, k) == ~Switch(k) /\ ~EndsIt(k)

\* A message that brings neither pixels nor a format leaves the sequence of formats
\* as it is.
LEMMA TellKeepsFormat ==
  ASSUME NEW v, NEW s, NEW ts, NEW tv, NEW tv1, InFormat(v, s, ts, tv),
         NEW k, Longer(tv, k, tv1), TellFormat(v, k)
  PROVE  InFormat(v, s, ts, tv1)
<1>1. PICK f \in [1 .. Len(tv) + 1 -> Format] :
        Follows(v, tv, f) /\ NextFormat(s, ts, f[Len(tv) + 1])
  BY DEF InFormat
<1> DEFINE x == f[Len(tv) + 1]
<1>2. x \in Format
  BY DEF Longer
<1>3. x = After(v, k, Len(tv) + 1, x) /\ k.type # "Rect"
  BY DEF After, TellFormat, EndsIt
<1>4. PICK g \in [1 .. Len(tv1) + 1 -> Format] : Follows(v, tv1, g) /\ g[Len(tv1) + 1] = x
  BY <1>1, <1>2, <1>3, ExtendFormat
<1> QED BY <1>1, <1>4 DEF InFormat

MayTell(v, s, ts, tv, k) ==
  /\ k \in ToViewer /\ ~EndsIt(k) /\ k.type # "UpdateStart"
  /\ k.type = "EndOfCU" => s.supportsFence
  /\ Switch(k) => v.supportsSyncFence
  /\ ProbeReply(k) =>
       /\ ~v.firstUpdate /\ ~v.supportsSyncFence /\ ~ProbePending(s)
       /\ \A i \in 1 .. Len(ts) : ~Probe(ts[i])
       /\ \A i \in 1 .. Len(tv) : ~ProbeReply(tv[i])

\* The server sends such a message.
LEMMA TellRest ==
  ASSUME NEW v, NEW s, NEW ts, NEW tv, NEW owed, Rest(v, s, ts, tv, owed), v.started,
         NEW k, MayTell(v, s, ts, tv, k), NEW tv1 \in Seq(ToViewer), Longer(tv, k, tv1)
  PROVE  Rest(v, s, ts, tv1, owed)
<1> DEFINE n == Len(tv)
<1>1. /\ n \in Nat /\ Len(tv1) = n + 1 /\ tv1[n + 1] = k /\ \A i \in 1 .. n : tv1[i] = tv[i]
  BY DEF Longer
<1> HIDE DEF n
<1>2. Fresh(v, s, ts, tv1)
  BY DEF Fresh
<1>3. Shape(v, tv1)
  <2>1. Shape(v, tv) /\ ~EndsIt(k) /\ k.type # "UpdateStart"
    BY DEF Rest, MayTell
  <2>2. v.rectsLeft <=> Len(tv1) > 0 /\ EndsIt(tv1[1])
    BY <1>1, <2>1 DEF Shape, n
  <2>3. ASSUME NEW i \in 1 .. Len(tv1)
        PROVE  /\ tv1[i].type = "UpdateStart" => i < Len(tv1) /\ EndsIt(tv1[i + 1])
               /\ EndsIt(tv1[i]) /\ i > 1 => tv1[i - 1].type = "UpdateStart"
    <3>1. CASE i = n + 1
      BY <1>1, <2>1, <3>1
    <3>2. CASE i # n + 1
      BY SMTT(60), <1>1, <2>1, <3>2 DEF Shape, n
    <3> QED BY <3>1, <3>2
  <2> QED BY <2>2, <2>3 DEF Shape
<1>4. Turn(v, s, ts, tv1, owed)
  <2>1. \A i \in 1 .. Len(tv1) : Coming(tv1, i) <=> i \in 1 .. n /\ Coming(tv, i)
    BY <1>1 DEF Coming, MayTell, n
  <2>2. SomeTurn(s, ts, tv, owed) => SomeTurn(s, ts, tv1, owed)
    BY <1>1, <2>1 DEF SomeTurn, n
  <2>3. OneTurn(s, ts, tv, owed) => OneTurn(s, ts, tv1, owed)
    BY <2>1, <2>2 DEF OneTurn, n
  <2> QED BY <2>2, <2>3 DEF Turn, Rest
<1>5. Unsynced(v, s, ts, tv1)
  BY <1>1 DEF Rest, Unsynced, MayTell, n
<1>6. ProbeOnce(v, s, ts, tv1)
  <2>1. \A i \in 1 .. Len(tv1) : ProbeReply(tv1[i]) <=>
          \/ i \in 1 .. n /\ ProbeReply(tv[i])
          \/ i = n + 1 /\ ProbeReply(k)
    BY <1>1
  <2>2. CASE ~ProbeReply(k)
    <3>1. \A i \in 1 .. Len(tv1) : ProbeReply(tv1[i]) <=> i \in 1 .. n /\ ProbeReply(tv[i])
      BY <2>1, <2>2
    <3> QED BY <3>1 DEF Rest, ProbeOnce, n
  <2>3. CASE ProbeReply(k)
    <3>1. /\ ~v.firstUpdate /\ ~v.supportsSyncFence /\ ~ProbePending(s)
          /\ \A i \in 1 .. Len(ts) : ~Probe(ts[i])
          /\ \A i \in 1 .. Len(tv1) : ProbeReply(tv1[i]) => i = n + 1
      BY <2>1, <2>3 DEF MayTell, n
    <3> QED BY <3>1 DEF ProbeOnce
  <2> QED BY <2>2, <2>3
<1>7. Continuous(v, s, ts, tv1)
  BY SMTT(60), <1>1 DEF Rest, Continuous, MayTell, n
<1>8. SizeKnown(v, s, tv1)
  <2>1. \A i \in 1 .. Len(tv1) : Resizing(tv1, i) <=> i \in 1 .. n /\ Resizing(tv, i)
    BY <1>1 DEF Resizing, MayTell, EndsIt, n
  <2>2. CASE \E i \in 1 .. n : /\ Resizing(tv, i) /\ tv[i].size = s.size
                               /\ \A j \in i + 1 .. n : ~Resizing(tv, j)
    <3>1. PICK i \in 1 .. n : /\ Resizing(tv, i) /\ tv[i].size = s.size
                              /\ \A j \in i + 1 .. n : ~Resizing(tv, j)
      BY <2>2
    <3>2. i \in 1 .. Len(tv1) /\ Resizing(tv1, i) /\ tv1[i].size = s.size
      BY <1>1, <2>1, <3>1
    <3>3. \A j \in i + 1 .. Len(tv1) : ~Resizing(tv1, j)
      <4>1. ASSUME NEW j \in i + 1 .. Len(tv1), Resizing(tv1, j) PROVE FALSE
        <5>1. j \in 1 .. Len(tv1)
          BY <1>1, <3>1
        <5>2. j \in i + 1 .. n /\ Resizing(tv, j)
          BY <1>1, <2>1, <4>1, <5>1
        <5> QED BY <3>1, <5>2
      <4> QED BY <4>1
    <3> QED BY <3>2, <3>3 DEF SizeKnown
  <2>3. CASE ~\E i \in 1 .. n : /\ Resizing(tv, i) /\ tv[i].size = s.size
                                /\ \A j \in i + 1 .. n : ~Resizing(tv, j)
    BY <2>1, <2>3 DEF Rest, SizeKnown, n
  <2> QED BY <2>2, <2>3
<1> QED BY <1>2, <1>3, <1>4, <1>5, <1>6, <1>7, <1>8 DEF Rest

-----------------------------------------------------------------------------
\* The server's actions: ServerReads.
Greeting(s, m) ==
  IF m.type = "SetEncodings" /\ s.knowsFences /\ ~s.supportsFence
  THEN <<ServerFence(TRUE, FALSE, NoData), [type |-> "EndOfCU"]>> ELSE <<>>

Requests(m) == m.type = "Fence" /\ m.request

\* What Handle makes of a server that has no fence to answer.
HandledSo(s, m, st, w) ==
  /\ st = [s |-> w, out |-> Greeting(s, m)]
  /\ Handled(s, m, w)
  /\ w.pendingSyncFence <=> Requests(m)
  /\ ~Requests(m) => w.fenceData = s.fenceData
  /\ m.type = "SetEncodings" => (w.supportsFence = s.knowsFences)

Ready(s, m) == /\ s \in Server /\ ~s.pendingSyncFence /\ ~s.refused
               /\ s.supportsCU = s.supportsFence /\ (s.supportsFence => s.knowsFences)
               /\ (m.type = "EnableCU" => s.supportsFence)

\* What the server makes of SetPixelFormat.
LEMMA HandleFormat ==
  ASSUME NEW s, NEW m \in ToServer, Ready(s, m), m.type = "SetPixelFormat"
  PROVE  \E w : HandledSo(s, m, Handle(s, m), w)
<1> DEFINE w == [s EXCEPT !.pf = m.pf, !.dirty = TRUE]
<1>1. m.pf \in Format /\ s \in Server
  BY DEF ToServer, Ready
<1>2. Handle(s, m) = [s |-> w, out |-> Greeting(s, m)]
  BY DEF Handle, Greeting
<1>3. ~FormatFence(m) /\ ~Requests(m)
  BY DEF FormatFence, Requests
<1>4. /\ w \in Server /\ w.pf = m.pf /\ w.pendingSyncFence = s.pendingSyncFence
      /\ w.knowsFences = s.knowsFences /\ w.size = s.size /\ w.newSize = s.newSize
      /\ w.requested = s.requested /\ w.continuous = s.continuous /\ w.cuSize = s.cuSize
      /\ w.supportsCU = s.supportsCU /\ w.supportsFence = s.supportsFence
      /\ w.refused = s.refused /\ w.fenceData = s.fenceData
  BY <1>1 DEF Server
<1> HIDE DEF w
<1>5. Handled(s, m, w)
  BY <1>3, <1>4 DEF Handled, Ready, FormatPending, ProbePending, Server
<1>6. HandledSo(s, m, Handle(s, m), w)
  BY <1>2, <1>3, <1>4, <1>5 DEF HandledSo, Ready
<1> QED BY <1>6

\* What it makes of SetEncodings: the first makes it send a fence and
\* EndOfContinuousUpdates.
LEMMA HandleEncodings ==
  ASSUME NEW s, NEW m \in ToServer, Ready(s, m), m.type = "SetEncodings"
  PROVE  \E w : HandledSo(s, m, Handle(s, m), w)
<1> DEFINE w == [s EXCEPT !.dirty = TRUE, !.supportsResize = TRUE,
                          !.supportsFence = s.knowsFences, !.supportsCU = s.knowsFences]
<1>1. s \in Server
  BY DEF Ready
<1>2. Handle(s, m) = [s |-> w, out |-> Greeting(s, m)]
  BY DEF Handle, SetEncodings, Greeting
<1>3. ~FormatFence(m) /\ ~Requests(m)
  BY DEF FormatFence, Requests
<1>4. /\ w \in Server /\ w.pf = s.pf /\ w.pendingSyncFence = s.pendingSyncFence
      /\ w.knowsFences = s.knowsFences /\ w.size = s.size /\ w.newSize = s.newSize
      /\ w.requested = s.requested /\ w.continuous = s.continuous /\ w.cuSize = s.cuSize
      /\ w.supportsCU = s.knowsFences /\ w.supportsFence = s.knowsFences
      /\ w.refused = s.refused /\ w.fenceData = s.fenceData
  BY <1>1 DEF Server
<1> HIDE DEF w
<1>5. Handled(s, m, w)
  BY <1>3, <1>4 DEF Handled, Ready, FormatPending, ProbePending, Server
<1>6. HandledSo(s, m, Handle(s, m), w)
  BY <1>2, <1>3, <1>4, <1>5 DEF HandledSo, Ready
<1> QED BY <1>6

\* What it makes of an update request.
LEMMA HandleRequest ==
  ASSUME NEW s, NEW m \in ToServer, Ready(s, m), m.type = "UpdateRequest"
  PROVE  \E w : HandledSo(s, m, Handle(s, m), w)
<1> DEFINE w == UpdateRequest(s, m.incremental)
           requested == s.requested \/ ~m.incremental \/ ~s.continuous
           dirty == s.dirty \/ ~m.incremental
           newSize == s.newSize \/ ~m.incremental
<1>1. s \in Server /\ m.incremental \in BOOLEAN
  BY DEF Ready, ToServer
<1>2. Handle(s, m) = [s |-> w, out |-> Greeting(s, m)]
  BY DEF Handle, Greeting
<1>3. ~FormatFence(m) /\ ~Requests(m)
  BY DEF FormatFence, Requests
<1>4. w = [s EXCEPT !.requested = requested, !.dirty = dirty, !.newSize = newSize]
  BY Zenon DEF UpdateRequest
<1>5. requested \in BOOLEAN /\ dirty \in BOOLEAN /\ newSize \in BOOLEAN
  <2>1. s.requested \in BOOLEAN /\ s.continuous \in BOOLEAN /\ s.dirty \in BOOLEAN
        /\ s.newSize \in BOOLEAN
    BY <1>1 DEF Server
  <2> QED BY <1>1, <2>1, Zenon
<1>6. (~s.continuous => requested) /\ (s.requested => requested) /\ (s.newSize => newSize)
  OBVIOUS
<1> HIDE DEF w, requested, dirty, newSize
<1>7. /\ w \in Server /\ w.pf = s.pf /\ w.pendingSyncFence = s.pendingSyncFence
      /\ w.knowsFences = s.knowsFences /\ w.size = s.size /\ w.newSize = newSize
      /\ w.requested = requested /\ w.continuous = s.continuous /\ w.cuSize = s.cuSize
      /\ w.supportsCU = s.supportsCU /\ w.supportsFence = s.supportsFence
      /\ w.refused = s.refused /\ w.fenceData = s.fenceData
  BY ZenonT(60), <1>1, <1>4, <1>5 DEF Server
<1>8. Handled(s, m, w)
  BY <1>3, <1>6, <1>7 DEF Handled, Ready, FormatPending, ProbePending, Server
<1>9. HandledSo(s, m, Handle(s, m), w)
  BY <1>2, <1>3, <1>7, <1>8 DEF HandledSo, Ready
<1> QED BY <1>9

\* What it makes of EnableContinuousUpdates, which it does not refuse.
LEMMA HandleEnable ==
  ASSUME NEW s, NEW m \in ToServer, Ready(s, m), m.type = "EnableCU"
  PROVE  \E w : HandledSo(s, m, Handle(s, m), w)
<1> DEFINE w == [s EXCEPT !.continuous = TRUE, !.cuSize = m.size, !.requested = FALSE]
<1>1. s \in Server /\ m.size \in Sizes /\ s.supportsFence /\ s.supportsCU
  BY DEF Ready, ToServer
<1>2. Handle(s, m) = [s |-> w, out |-> Greeting(s, m)]
  BY <1>1 DEF Handle, EnableCU, Greeting
<1>3. ~FormatFence(m) /\ ~Requests(m)
  BY DEF FormatFence, Requests
<1>4. /\ w \in Server /\ w.pf = s.pf /\ w.pendingSyncFence = s.pendingSyncFence
      /\ w.knowsFences = s.knowsFences /\ w.size = s.size /\ w.newSize = s.newSize
      /\ ~w.requested /\ w.continuous /\ w.continuous \in BOOLEAN /\ w.cuSize = m.size
      /\ w.supportsCU = s.supportsCU /\ w.supportsFence = s.supportsFence
      /\ w.refused = s.refused /\ w.fenceData = s.fenceData
  BY <1>1 DEF Server
<1>5. w.continuous = (s.continuous \/ m.type = "EnableCU")
  BY <1>1, Zenon DEF Server
<1> HIDE DEF w
<1>6. Handled(s, m, w)
  BY <1>3, <1>4, <1>5 DEF Handled, Ready, FormatPending, ProbePending, Server
<1>7. HandledSo(s, m, Handle(s, m), w)
  BY <1>2, <1>3, <1>4, <1>6 DEF HandledSo, Ready
<1> QED BY <1>7

\* What it makes of a fence: a request goes into its slot.
LEMMA HandleFence ==
  ASSUME NEW s, NEW m \in ToServer, Ready(s, m), m.type = "Fence"
  PROVE  \E w : HandledSo(s, m, Handle(s, m), w)
<1>1. s \in Server /\ m.data \in Format \cup {NoData}
  BY DEF Ready, ToServer
<1>2. Handle(s, m) = [s |-> Fence(s, m), out |-> Greeting(s, m)]
  BY DEF Handle, Greeting
<1>3. CASE m.request
  <2> DEFINE w == [s EXCEPT !.pendingSyncFence = TRUE, !.fenceData = m.data]
  <2>1. Fence(s, m) = w
    BY <1>3 DEF Fence
  <2>2. /\ w \in Server /\ w.pf = s.pf /\ w.pendingSyncFence
        /\ w.knowsFences = s.knowsFences /\ w.size = s.size /\ w.newSize = s.newSize
        /\ w.requested = s.requested /\ w.continuous = s.continuous /\ w.cuSize = s.cuSize
        /\ w.supportsCU = s.supportsCU /\ w.supportsFence = s.supportsFence
        /\ w.refused = s.refused /\ w.fenceData = m.data
    BY <1>1 DEF Server
  <2> HIDE DEF w
  <2>3. Handled(s, m, w)
    BY <1>3, <2>2 DEF Handled, Ready, FormatPending, ProbePending, FormatFence, Probe, Server
  <2>4. HandledSo(s, m, Handle(s, m), w)
    BY <1>2, <1>3, <2>1, <2>2, <2>3 DEF HandledSo, Requests
  <2> QED BY <2>4
<1>4. CASE ~m.request
  <2>1. Fence(s, m) = s
    BY <1>4 DEF Fence
  <2>2. Handled(s, m, s)
    BY <1>1, <1>4 DEF Handled, Ready, FormatPending, ProbePending, FormatFence, Probe, Server
  <2>3. HandledSo(s, m, Handle(s, m), s)
    BY <1>2, <1>4, <2>1, <2>2 DEF HandledSo, Requests, Ready
  <2> QED BY <2>3
<1> QED BY <1>3, <1>4

\* What it makes of any message.
LEMMA HandleAny ==
  ASSUME NEW s, NEW m \in ToServer, Ready(s, m)
  PROVE  \E w : HandledSo(s, m, Handle(s, m), w)
<1>1. m.type \in {"SetPixelFormat", "SetEncodings", "UpdateRequest", "EnableCU", "Fence"}
  BY DEF ToServer
<1> QED BY <1>1, HandleFormat, HandleEncodings, HandleRequest, HandleEnable, HandleFence

\* The answer to the fence that the server remembers.
Answer(s, m) ==
  IF s.pendingSyncFence
  THEN <<ServerFence(FALSE, TRUE, IF Requests(m) THEN m.data ELSE s.fenceData)>> ELSE <<>>

Telling(s, out) == [s |-> s, out |-> out]

\* An update of the server's record is one of the server in it: fenceData.
LEMMA TellingData ==
  ASSUME NEW s, NEW out, NEW data, NEW ms
  PROVE  Tell([Telling(s, out) EXCEPT !.s.fenceData = data], ms)
           = Telling([s EXCEPT !.fenceData = data], out \o ms)
<1>1. [Telling(s, out) EXCEPT !.s.fenceData = data] = Telling([s EXCEPT !.fenceData = data], out)
  BY SMT DEF Telling
<1> DEFINE w == [s EXCEPT !.fenceData = data]
<1> HIDE DEF w
<1>2. Tell(Telling(w, out), ms) = Telling(w, out \o ms)
  <2> DEFINE more == Telling(w, out).out \o ms
  <2>1. Tell(Telling(w, out), ms) = [Telling(w, out) EXCEPT !.out = more]
    BY Zenon DEF Tell
  <2>2. more = out \o ms
    BY DEF Telling
  <2> HIDE DEF more
  <2>3. [Telling(w, out) EXCEPT !.out = more] = Telling(w, more)
    BY SMT DEF Telling
  <2> QED BY <2>1, <2>2, <2>3
<1> QED BY <1>1, <1>2 DEF w

\* A round of processMessages: the message is handled, then the fence before it is
\* answered.
LEMMA SynchronisedIs ==
  ASSUME NEW s \in Server, NEW m \in ToServer, ~s.refused,
         s.supportsCU = s.supportsFence, s.supportsFence => s.knowsFences,
         m.type = "EnableCU" => s.supportsFence
  PROVE  \E w : /\ Synchronised([s EXCEPT !.inProcess = TRUE], m)
                     = Telling(w, Greeting(s, m) \o Answer(s, m))
                /\ Handled(s, m, w) /\ (w.pendingSyncFence <=> Requests(m))
                /\ m.type = "SetEncodings" => (w.supportsFence = s.knowsFences)
<1> DEFINE u == [s EXCEPT !.inProcess = TRUE]
           u0 == [u EXCEPT !.pendingSyncFence = FALSE]
<1>1. /\ u0 \in Server /\ ~u0.pendingSyncFence
      /\ u0.knowsFences = s.knowsFences /\ u0.size = s.size /\ u0.newSize = s.newSize
      /\ u0.pf = s.pf /\ u0.requested = s.requested /\ u0.continuous = s.continuous
      /\ u0.cuSize = s.cuSize /\ u0.supportsCU = s.supportsCU
      /\ u0.supportsFence = s.supportsFence /\ u0.refused = s.refused
      /\ u0.fenceData = s.fenceData
  BY DEF Server
<1>2. u.pendingSyncFence = s.pendingSyncFence
  BY DEF Server
<1> DEFINE st == Handle(u0, m)
<1>3. Synchronised(u, m) =
        IF s.pendingSyncFence
        THEN Tell([st EXCEPT !.s.fenceData = IF st.s.pendingSyncFence THEN @ ELSE NoData],
                  <<ServerFence(FALSE, TRUE, st.s.fenceData)>>)
        ELSE st
  BY <1>2, Zenon DEF Synchronised
<1> HIDE DEF u, u0
<1>4. Ready(u0, m)
  BY <1>1 DEF Ready
<1>5. PICK w0 : HandledSo(u0, m, st, w0)
  BY <1>4, HandleAny
<1> HIDE DEF st
<1>6. st = Telling(w0, Greeting(s, m))
  BY <1>1, <1>5 DEF HandledSo, Telling, Greeting
<1>7. st.s = w0
  BY <1>6 DEF Telling
<1>8. /\ Handled(s, m, w0) /\ (w0.pendingSyncFence <=> Requests(m))
      /\ m.type = "SetEncodings" => (w0.supportsFence = s.knowsFences)
      /\ w0.fenceData = IF Requests(m) THEN m.data ELSE s.fenceData
      /\ w0 \in Server
  <2>1. Handled(u0, m, w0)
    BY <1>5 DEF HandledSo
  <2>2. Handled(s, m, w0)
    BY <1>1, <2>1 DEF Handled, ProbePending
  <2>3. /\ (w0.pendingSyncFence <=> Requests(m))
        /\ m.type = "SetEncodings" => (w0.supportsFence = s.knowsFences)
        /\ ~Requests(m) => w0.fenceData = s.fenceData
    BY <1>1, <1>5 DEF HandledSo
  <2>4. w0.pendingSyncFence /\ Requests(m) => w0.fenceData = m.data
    BY <2>1 DEF Handled, FormatPending, FormatFence, Requests
  <2> QED BY <2>2, <2>3, <2>4 DEF Handled
<1>9. CASE ~s.pendingSyncFence
  <2>1. Answer(s, m) = <<>> /\ Greeting(s, m) \o <<>> = Greeting(s, m)
    BY <1>9 DEF Answer, Greeting
  <2>2. Synchronised(u, m) = Telling(w0, Greeting(s, m) \o Answer(s, m))
    BY <1>3, <1>6, <1>9, <2>1
  <2> QED BY <1>8, <2>2 DEF u
<1>10. CASE s.pendingSyncFence
  <2> DEFINE data == IF w0.pendingSyncFence THEN w0.fenceData ELSE NoData
             w == [w0 EXCEPT !.fenceData = data]
             r == ServerFence(FALSE, TRUE, w0.fenceData)
  <2>1. Synchronised(u, m)
          = Tell([st EXCEPT !.s.fenceData = IF st.s.pendingSyncFence THEN @ ELSE NoData],
                 <<ServerFence(FALSE, TRUE, st.s.fenceData)>>)
    BY <1>3, <1>10
  <2>2. [st EXCEPT !.s.fenceData = IF st.s.pendingSyncFence THEN @ ELSE NoData]
          = [st EXCEPT !.s.fenceData = data]
    BY <1>7
  <2>3. Synchronised(u, m) = Tell([Telling(w0, Greeting(s, m)) EXCEPT !.s.fenceData = data], <<r>>)
    BY <1>6, <1>7, <2>1, <2>2
  <2>4. Answer(s, m) = <<r>>
    BY <1>8, <1>10 DEF Answer
  <2>5. Synchronised(u, m) = Telling(w, Greeting(s, m) \o Answer(s, m))
    BY SMTT(60), <2>3, <2>4, TellingData
  <2>6. /\ data \in Format \cup {NoData} /\ (w0.pendingSyncFence => data = w0.fenceData)
        /\ ~w0.pendingSyncFence => data = NoData
    BY <1>8 DEF Server
  <2> HIDE DEF data
  <2>7. /\ w \in Server /\ w.pf = w0.pf /\ w.pendingSyncFence = w0.pendingSyncFence
        /\ w.knowsFences = w0.knowsFences /\ w.size = w0.size /\ w.newSize = w0.newSize
        /\ w.requested = w0.requested /\ w.continuous = w0.continuous /\ w.cuSize = w0.cuSize
        /\ w.supportsCU = w0.supportsCU /\ w.supportsFence = w0.supportsFence
        /\ w.refused = w0.refused /\ w.fenceData = data
    BY <1>8, <2>6 DEF Server
  <2> HIDE DEF w
  <2>8. Handled(s, m, w)
    BY <1>8, <2>6, <2>7 DEF Handled, FormatPending, ProbePending, FormatFence, Requests
  <2> QED BY <1>8, <2>5, <2>7, <2>8 DEF u
<1> QED BY <1>9, <1>10

\* All that the server sends are messages to the viewer.
LEMMA ServerMessages ==
  /\ ServerFence(TRUE, FALSE, NoData) \in ToViewer /\ [type |-> "EndOfCU"] \in ToViewer
  /\ \A data \in Format \cup {NoData} : ServerFence(FALSE, TRUE, data) \in ToViewer
<1>1. ServerFence(TRUE, FALSE, NoData) \in ToViewer
  BY SMT DEF ServerFence, ToViewer
<1>2. [type |-> "EndOfCU"] \in ToViewer
  BY SMT DEF ToViewer
<1>3. \A data \in Format \cup {NoData} : ServerFence(FALSE, TRUE, data) \in ToViewer
  BY SMT DEF ServerFence, ToViewer
<1> QED BY <1>1, <1>2, <1>3

\* The two messages that greet a viewer's encodings.
LEMMA Greeted ==
  ASSUME NEW v, NEW s, NEW ts, NEW tv, Good(v, s, ts, tv, FALSE), v.started,
         NEW out \in Seq(ToViewer), out # <<>> => s.supportsFence,
         out = <<>> \/ out = <<ServerFence(TRUE, FALSE, NoData), [type |-> "EndOfCU"]>>
  PROVE  /\ Good(v, s, ts, tv \o out, FALSE)
         /\ \A i \in 1 .. Len(tv \o out) :
              ProbeReply((tv \o out)[i]) => i \in 1 .. Len(tv) /\ ProbeReply(tv[i])
<1>1. tv \in Seq(ToViewer)
  BY DEF Good
<1>2. CASE out = <<>>
  <2>1. tv \o <<>> = tv
    BY <1>1
  <2> QED BY <1>2, <2>1
<1>3. CASE out = <<ServerFence(TRUE, FALSE, NoData), [type |-> "EndOfCU"]>>
  <2> DEFINE a == ServerFence(TRUE, FALSE, NoData)
             b == [type |-> "EndOfCU"]
  <2>1. a \in ToViewer /\ b \in ToViewer
    BY ServerMessages
  <2>2. a.type = "Fence" /\ a.request /\ b.type = "EndOfCU"
    BY DEF ServerFence
  <2>3. \A t : MayTell(v, s, ts, t, a) /\ MayTell(v, s, ts, t, b)
    BY <1>3, <2>1, <2>2 DEF MayTell, EndsIt, Switch, ProbeReply
  <2>4. TellFormat(v, a) /\ TellFormat(v, b)
    BY <2>2 DEF TellFormat, Switch, EndsIt
  <2> DEFINE t1 == Append(tv, a)
             t2 == Append(t1, b)
  <2> HIDE DEF a, b
  <2>5. tv \o out = t2
    BY <1>1, <1>3, <2>1, TwoMore DEF a, b
  <2>6. t1 \in Seq(ToViewer) /\ Longer(tv, a, t1)
    BY <1>1, <2>1, Appended
  <2> HIDE DEF t1
  <2>7. t2 \in Seq(ToViewer) /\ Longer(t1, b, t2)
    BY <2>1, <2>6, Appended
  <2> HIDE DEF t2
  <2>8. Rest(v, s, ts, t1, FALSE) /\ InFormat(v, s, ts, t1)
    BY <2>3, <2>4, <2>6, GoodIsRest, TellRest, TellKeepsFormat
  <2>9. Rest(v, s, ts, t2, FALSE) /\ InFormat(v, s, ts, t2)
    BY <2>3, <2>4, <2>7, <2>8, TellRest, TellKeepsFormat
  <2>10. \A i \in 1 .. Len(t2) : ProbeReply(t2[i]) => i \in 1 .. Len(tv) /\ ProbeReply(tv[i])
    <3>1. ~ProbeReply(a) /\ ~ProbeReply(b)
      BY <2>2 DEF ProbeReply
    <3> QED BY <2>6, <2>7, <3>1 DEF Longer
  <2> QED BY <2>5, <2>9, <2>10, GoodIsRest
<1> QED BY <1>2, <1>3

\* The fence is one for a format, and the format is read.
LEMMA ReadSwitch ==
  ASSUME NEW v, NEW s, NEW w, NEW ts, NEW ts1 \in Seq(ToServer), NEW tv,
         Good(v, s, ts, tv, FALSE), Shorter(ts, ts1), Handled(s, ts[1], w),
         FormatPending(s)
  PROVE  /\ Greeting(s, ts[1]) = <<>>
         /\ Good(v, w, ts1, tv \o Answer(s, ts[1]), FALSE)
<1>1. Rest(v, s, ts, tv, FALSE) /\ InFormat(v, s, ts, tv) /\ s \in Server /\ tv \in Seq(ToViewer)
  BY GoodIsRest DEF Rest
<1>2. ts[1] = SetPixelFormatMsg(s.fenceData) /\ s.pendingSyncFence /\ s.fenceData \in Format
  BY <1>1 DEF Rest, Pairs, FormatPending, Server
<1>3. ts[1].type = "SetPixelFormat" /\ ts[1].pf = s.fenceData
  BY <1>2 DEF SetPixelFormatMsg
<1>4. Greeting(s, ts[1]) = <<>>
  BY <1>3 DEF Greeting
<1> DEFINE k == ServerFence(FALSE, TRUE, s.fenceData)
<1>5. Answer(s, ts[1]) = <<k>>
  BY <1>2, <1>3 DEF Answer, Requests
<1>6. k \in ToViewer /\ k.type = "Fence" /\ ~k.request /\ k.data = s.fenceData
  BY <1>2, ServerMessages DEF ServerFence
<1>7. Switch(k) /\ ~ProbeReply(k)
  BY <1>2, <1>6, FormatAssumption DEF Switch, ProbeReply
<1>8. w.pf = k.data /\ w.pf \in Format
  BY <1>2, <1>3, <1>6 DEF Handled
<1>9. /\ Rest(v, w, ts1, tv, FALSE) /\ v.started
      /\ \A i \in 1 .. Len(ts1) : Bare(w, ts1, i) <=> Bare(s, ts, i + 1)
  BY <1>1, ReadRest
<1>10. v.supportsSyncFence
  <2>1. Unsynced(v, s, ts, tv) /\ v \in Viewer
    BY <1>1 DEF Rest
  <2> QED BY <2>1 DEF Unsynced
<1>11. MayTell(v, w, ts1, tv, k)
  BY <1>6, <1>7, <1>10 DEF MayTell, EndsIt
<1> DEFINE tv1 == Append(tv, k)
<1>12. tv \o <<k>> = tv1 /\ tv1 \in Seq(ToViewer) /\ Longer(tv, k, tv1)
  BY <1>1, <1>6, Appended
<1> HIDE DEF k, tv1
<1>13. Rest(v, w, ts1, tv1, FALSE)
  BY <1>9, <1>11, <1>12, TellRest
<1>14. BareFirst(v, s, ts, FALSE)
  BY <1>1 DEF Rest
<1>15. InFormat(v, w, ts1, tv1)
  BY <1>1, <1>7, <1>8, <1>9, <1>12, <1>14, SwitchFormat
<1> QED BY <1>4, <1>5, <1>12, <1>13, <1>15, GoodIsRest

\* What a round may send.
LEMMA Replies ==
  ASSUME NEW s \in Server, NEW m \in ToServer
  PROVE  /\ Greeting(s, m) \in Seq(ToViewer)
         /\ \/ Greeting(s, m) = <<>>
            \/ Greeting(s, m) = <<ServerFence(TRUE, FALSE, NoData), [type |-> "EndOfCU"]>>
         /\ Answer(s, m) \in Seq(ToViewer)
<1> DEFINE a == ServerFence(TRUE, FALSE, NoData)
           b == [type |-> "EndOfCU"]
           data == IF Requests(m) THEN m.data ELSE s.fenceData
           k == ServerFence(FALSE, TRUE, data)
<1>1. Greeting(s, m) = <<>> \/ Greeting(s, m) = <<a, b>>
  BY Zenon DEF Greeting
<1>2. Answer(s, m) = <<>> \/ Answer(s, m) = <<k>>
  BY Zenon DEF Answer
<1>3. data \in Format \cup {NoData}
  <2>1. s.fenceData \in Format \cup {NoData}
    BY DEF Server
  <2>2. Requests(m) => m.data \in Format \cup {NoData}
    BY DEF ToServer, Requests
  <2> QED BY <2>1, <2>2
<1> HIDE DEF data
<1>4. a \in ToViewer /\ b \in ToViewer /\ k \in ToViewer
  BY <1>3, ServerMessages, Zenon
<1> HIDE DEF a, b, k
<1>5. <<a, b>> \in Seq(ToViewer) /\ <<k>> \in Seq(ToViewer) /\ <<>> \in Seq(ToViewer)
  BY <1>4
<1> QED BY <1>1, <1>2, <1>5 DEF a, b

\* The result of a round becomes the state.
LEMMA Told ==
  ASSUME NEW w, NEW out, BecameServer(Telling(w, out))
  PROVE  server' = w /\ toViewer' = toViewer \o out
<1>1. Telling(w, out).s = w /\ Telling(w, out).out = out
  BY DEF Telling
<1> HIDE DEF Telling
<1> QED BY <1>1, Zenon DEF BecameServer

\* It is the probe, or there is none.
LEMMA ReadOther ==
  ASSUME NEW v, NEW s, NEW w, NEW ts, NEW ts1 \in Seq(ToServer), NEW tv,
         Good(v, s, ts, tv, FALSE), Shorter(ts, ts1), Handled(s, ts[1], w),
         w.pendingSyncFence <=> Requests(ts[1]),
         ts[1].type = "SetEncodings" => (w.supportsFence = s.knowsFences),
         ~FormatPending(s)
  PROVE  Good(v, w, ts1, (tv \o Greeting(s, ts[1])) \o Answer(s, ts[1]), FALSE)
<1>1. Rest(v, s, ts, tv, FALSE) /\ InFormat(v, s, ts, tv) /\ s \in Server /\ tv \in Seq(ToViewer)
  BY GoodIsRest DEF Rest
<1>2. /\ Rest(v, w, ts1, tv, FALSE) /\ v.started
      /\ \A i \in 1 .. Len(ts1) : Bare(w, ts1, i) <=> Bare(s, ts, i + 1)
  BY <1>1, ReadRest
<1>3. ts[1].type = "SetPixelFormat" => Bare(s, ts, 1)
  BY DEF Bare
<1>4. InFormat(v, w, ts1, tv)
  BY <1>1, <1>2, <1>3, ReadFormat
<1>5. Good(v, w, ts1, tv, FALSE)
  BY <1>2, <1>4, GoodIsRest
<1> DEFINE g == Greeting(s, ts[1])
           t == tv \o g
           k == ServerFence(FALSE, TRUE, NoData)
<1>6. /\ g \in Seq(ToViewer)
      /\ g = <<>> \/ g = <<ServerFence(TRUE, FALSE, NoData), [type |-> "EndOfCU"]>>
  <2>1. ts[1] \in ToServer
    BY <1>1 DEF Rest, Shorter
  <2> QED BY <1>1, <2>1, Replies
<1>7. g # <<>> => w.supportsFence
  BY <1>6 DEF Greeting
<1>8. /\ Good(v, w, ts1, t, FALSE)
      /\ \A i \in 1 .. Len(t) : ProbeReply(t[i]) => i \in 1 .. Len(tv) /\ ProbeReply(tv[i])
  <2> HIDE DEF g
  <2> QED BY <1>2, <1>5, <1>6, <1>7, Greeted
<1> HIDE DEF t
<1>9. t \in Seq(ToViewer)
  BY <1>8 DEF Good
<1>10. CASE ~s.pendingSyncFence
  <2>1. Answer(s, ts[1]) = <<>> /\ t \o <<>> = t
    BY <1>9, <1>10 DEF Answer
  <2> QED BY <1>8, <2>1 DEF t
<1>11. CASE s.pendingSyncFence
  <2>1. ProbePending(s) /\ s.fenceData = NoData
    BY <1>11 DEF FormatPending, ProbePending
  <2>2. /\ ~v.firstUpdate /\ ~v.supportsSyncFence
        /\ \A j \in 1 .. Len(tv) : ~ProbeReply(tv[j])
        /\ \A i \in 1 .. Len(ts) : ~Probe(ts[i])
    BY <1>1, <2>1 DEF Rest, ProbeOnce
  <2>3. \A i \in 1 .. Len(ts) : ~FormatFence(ts[i])
    BY <1>1, <2>2 DEF Rest, Unsynced
  <2>4. 1 \in 1 .. Len(ts) /\ \A i \in 1 .. Len(ts1) : i + 1 \in 1 .. Len(ts) /\ ts1[i] = ts[i + 1]
    BY DEF Shorter
  <2>5. ~Requests(ts[1])
    BY <2>2, <2>3, <2>4 DEF Requests, FormatFence, Probe
  <2>6. Answer(s, ts[1]) = <<k>>
    BY <1>11, <2>1, <2>5 DEF Answer
  <2>7. k \in ToViewer /\ k.type = "Fence" /\ ~k.request /\ k.data = NoData
    BY ServerMessages DEF ServerFence
  <2>8. ~ProbePending(w) /\ \A i \in 1 .. Len(ts1) : ~Probe(ts1[i])
    BY <2>2, <2>4, <2>5 DEF ProbePending
  <2>9. \A i \in 1 .. Len(t) : ~ProbeReply(t[i])
    BY <1>8, <2>2
  <2>10. ~Switch(k)
    BY <2>7 DEF Switch
  <2>11. MayTell(v, w, ts1, t, k)
    BY <2>2, <2>7, <2>8, <2>9, <2>10 DEF MayTell, EndsIt
  <2>12. TellFormat(v, k)
    BY <2>7, <2>10 DEF TellFormat, EndsIt
  <2> DEFINE t1 == Append(t, k)
  <2>13. t \o <<k>> = t1 /\ t1 \in Seq(ToViewer) /\ Longer(t, k, t1)
    BY <1>9, <2>7, Appended
  <2> HIDE DEF k, t1
  <2>14. Rest(v, w, ts1, t1, FALSE) /\ InFormat(v, w, ts1, t1)
    BY <1>2, <1>8, <2>11, <2>12, <2>13, GoodIsRest, TellRest, TellKeepsFormat
  <2>15. t \o Answer(s, ts[1]) = t1
    BY <2>6, <2>13
  <2> QED BY <2>14, <2>15, GoodIsRest DEF t
<1> QED BY <1>10, <1>11

\* processMessages keeps the invariant, one message at a time.
LEMMA ServerReadsInv ==
  ASSUME Inv, ServerReads
  PROVE  Inv'
<1> DEFINE s == server
           m == Head(toServer)
           ts1 == Tail(toServer)
<1>1. /\ toServer # <<>> /\ toServer' = ts1 /\ option' = option /\ viewer' = viewer
      /\ BecameServer(Synchronised([server EXCEPT !.inProcess = TRUE], m))
  BY DEF ServerReads
<1>2. option \in Format /\ Good(viewer, s, toServer, toViewer, FALSE)
  BY InvIsGood
<1>3. Rest(viewer, s, toServer, toViewer, FALSE)
  BY <1>2, GoodIsRest
<1>4. /\ s \in Server /\ toServer \in Seq(ToServer) /\ toViewer \in Seq(ToViewer) /\ ~s.refused
  BY <1>3 DEF Rest
<1>5. /\ ts1 \in Seq(ToServer) /\ m = toServer[1] /\ m \in ToServer
      /\ Shorter(toServer, ts1) /\ 1 \in 1 .. Len(toServer)
  <2>1. /\ ts1 \in Seq(ToServer) /\ m = toServer[1] /\ m \in ToServer /\ Shorter(toServer, ts1)
    BY <1>1, <1>4, Popped
  <2> HIDE DEF ts1
  <2> QED BY <2>1 DEF Shorter
<1> HIDE DEF m, ts1
<1>6. Continuous(viewer, s, toServer, toViewer)
  BY <1>3 DEF Rest
<1>7. /\ s.supportsCU = s.supportsFence /\ (s.supportsFence => s.knowsFences)
      /\ m.type = "EnableCU" => s.supportsFence
  BY <1>5, <1>6 DEF Continuous, Enabling
<1>8. PICK w : /\ Synchronised([s EXCEPT !.inProcess = TRUE], m)
                   = Telling(w, Greeting(s, m) \o Answer(s, m))
               /\ Handled(s, m, w) /\ (w.pendingSyncFence <=> Requests(m))
               /\ m.type = "SetEncodings" => (w.supportsFence = s.knowsFences)
  <2> HIDE DEF s
  <2> QED BY <1>4, <1>5, <1>7, SynchronisedIs
<1>9. server' = w /\ toViewer' = toViewer \o (Greeting(s, m) \o Answer(s, m))
  BY <1>1, <1>8, Told
<1>10. Good(viewer, w, ts1, toViewer', FALSE)
  <2>1. CASE FormatPending(s)
    <3>1. Greeting(s, m) = <<>> /\ Good(viewer, w, ts1, toViewer \o Answer(s, m), FALSE)
      BY <1>2, <1>5, <1>8, <2>1, ReadSwitch
    <3>2. <<>> \o Answer(s, m) = Answer(s, m)
      BY DEF Answer
    <3> QED BY <1>9, <3>1, <3>2
  <2>2. CASE ~FormatPending(s)
    <3>1. Good(viewer, w, ts1, (toViewer \o Greeting(s, m)) \o Answer(s, m), FALSE)
      BY <1>2, <1>5, <1>8, <2>2, ReadOther
    <3>2. Greeting(s, m) \in Seq(ToViewer)
      BY <1>4, <1>5, Replies
    <3>3. Answer(s, m) \in Seq(ToViewer)
      BY <1>4, <1>5, Replies
    <3>4. toViewer \o (Greeting(s, m) \o Answer(s, m)) = (toViewer \o Greeting(s, m)) \o Answer(s, m)
      BY SMTT(60), <1>4, <3>2, <3>3, ConcatAssociative
    <3> QED BY <1>9, <3>1, <3>4
  <2> QED BY <2>1, <2>2
<1> QED BY <1>1, <1>2, <1>9, <1>10, NextIsGood

-----------------------------------------------------------------------------
\* The server writes.
Kept(s, w) ==
  /\ w \in Server
  /\ w.knowsFences = s.knowsFences /\ w.pf = s.pf
  /\ w.supportsFence = s.supportsFence /\ w.supportsCU = s.supportsCU
  /\ w.supportsResize = s.supportsResize
  /\ w.pendingSyncFence = s.pendingSyncFence /\ w.fenceData = s.fenceData
  /\ w.continuous = s.continuous /\ w.cuSize = s.cuSize /\ w.refused = s.refused

\* The server has more to tell: its other fields do not matter.
LEMMA ServerFlags ==
  ASSUME NEW v, NEW s, NEW w, NEW ts, NEW tv, Good(v, s, ts, tv, FALSE), Kept(s, w),
         w.requested = s.requested,
         w.newSize \/ (w.newSize = s.newSize /\ w.size = s.size),
         v.started \/ w.size = s.size
  PROVE  Good(v, w, ts, tv, FALSE)
<1>1. Rest(v, s, ts, tv, FALSE) /\ InFormat(v, s, ts, tv)
  BY GoodIsRest
<1>2. (FormatPending(w) <=> FormatPending(s)) /\ (ProbePending(w) <=> ProbePending(s))
  BY DEF Kept, FormatPending, ProbePending
<1>3. \A i : Bare(w, ts, i) <=> Bare(s, ts, i)
  BY <1>2 DEF Bare
<1>4. Fresh(v, w, ts, tv)
  BY <1>1 DEF Rest, Fresh, Kept
<1>5. Pairs(w, ts)
  BY <1>1, <1>2 DEF Rest, Pairs, Kept
<1>6. BareFirst(v, w, ts, FALSE)
  BY <1>1, <1>2, <1>3 DEF Rest, BareFirst, Kept
<1>7. Turn(v, w, ts, tv, FALSE)
  BY <1>1 DEF Rest, Turn, OneTurn, SomeTurn
<1>8. Unsynced(v, w, ts, tv)
  BY <1>1, <1>2 DEF Rest, Unsynced
<1>9. ProbeOnce(v, w, ts, tv)
  BY <1>1, <1>2 DEF Rest, ProbeOnce
<1>10. Continuous(v, w, ts, tv)
  BY <1>1 DEF Rest, Continuous, Kept
<1>11. SizeKnown(v, w, tv)
  BY <1>1 DEF Rest, SizeKnown
<1>12. InFormat(v, w, ts, tv)
  BY <1>1, <1>3 DEF InFormat, NextFormat, Kept
<1>13. Rest(v, w, ts, tv, FALSE)
  BY <1>1, <1>4, <1>5, <1>6, <1>7, <1>8, <1>9, <1>10, <1>11 DEF Rest, Kept
<1> QED BY <1>12, <1>13, GoodIsRest

\* An update is written: a rectangle in the server's format, or its size.
Updated(s, k, w) ==
  /\ Kept(s, w) /\ ~w.requested /\ w.size = s.size /\ k \in ToViewer
  /\ \/ k.type = "Rect" /\ k.pf = s.pf /\ w.newSize = s.newSize
     \/ k.type = "SizeRect" /\ k.size = s.size

UpdateStart == [type |-> "UpdateStart"]

\* An update is written as a start and a rectangle.
LEMMA UpdateShape ==
  ASSUME NEW v, NEW tv, NEW t1, NEW t2, NEW k, Shape(v, tv), EndsIt(k),
         Longer(tv, UpdateStart, t1), Longer(t1, k, t2)
  PROVE  Shape(v, t2)
<1> DEFINE n == Len(tv)
<1>1. /\ n \in Nat /\ Len(t2) = n + 2 /\ t2[n + 1] = UpdateStart /\ t2[n + 2] = k
      /\ \A i \in 1 .. n : t2[i] = tv[i]
  BY DEF Longer
<1>2. UpdateStart.type = "UpdateStart" /\ ~EndsIt(UpdateStart) /\ k.type # "UpdateStart"
  BY DEF UpdateStart, EndsIt
<1> HIDE DEF n
<1>3. v.rectsLeft <=> Len(t2) > 0 /\ EndsIt(t2[1])
  <2>1. CASE n = 0
    BY <1>1, <1>2, <2>1 DEF Shape, n
  <2>2. CASE n # 0
    BY <1>1, <2>2 DEF Shape, n
  <2> QED BY <2>1, <2>2
<1>4. ASSUME NEW i \in 1 .. n + 2
      PROVE  /\ t2[i].type = "UpdateStart" => i < n + 2 /\ EndsIt(t2[i + 1])
             /\ EndsIt(t2[i]) /\ i > 1 => t2[i - 1].type = "UpdateStart"
  <2>1. CASE i = n + 2
    <3>1. t2[i] = k /\ t2[i - 1] = UpdateStart
      BY <1>1, <2>1
    <3> QED BY <1>2, <3>1
  <2>2. CASE i = n + 1
    <3>1. t2[i] = UpdateStart /\ t2[i + 1] = k /\ i < n + 2
      BY <1>1, <2>2
    <3> QED BY <1>2, <3>1
  <2>3. CASE i \in 1 .. n
    <3>1. t2[i] = tv[i]
      BY <1>1, <2>3
    <3>2. t2[i].type = "UpdateStart" => i < n + 2 /\ EndsIt(t2[i + 1])
      <4>1. ASSUME tv[i].type = "UpdateStart" PROVE i < n /\ EndsIt(tv[i + 1])
        BY <2>3, <4>1 DEF Shape, n
      <4>2. i < n => i + 1 \in 1 .. n
        BY <1>1, <2>3
      <4> QED BY <1>1, <2>3, <3>1, <4>1, <4>2
    <3>3. EndsIt(t2[i]) /\ i > 1 => t2[i - 1].type = "UpdateStart"
      <4>1. ASSUME EndsIt(tv[i]), i > 1 PROVE tv[i - 1].type = "UpdateStart"
        BY <2>3, <4>1 DEF Shape, n
      <4>2. i > 1 => i - 1 \in 1 .. n
        BY <1>1, <2>3
      <4> QED BY <1>1, <3>1, <4>1, <4>2
    <3> QED BY <3>2, <3>3
  <2> QED BY <1>1, <2>1, <2>2, <2>3
<1> QED BY <1>1, <1>3, <1>4 DEF Shape

\* An update that is written uses up the request it answers.
LEMMA UpdateTurn ==
  ASSUME NEW v, NEW s, NEW w, NEW ts, NEW tv, NEW t1, NEW t2, NEW k,
         Turn(v, s, ts, tv, FALSE), Unsynced(v, s, ts, tv), Continuous(v, s, ts, tv),
         s.requested \/ s.continuous, ~w.requested, EndsIt(k),
         Longer(tv, UpdateStart, t1), Longer(t1, k, t2)
  PROVE  Turn(v, w, ts, t2, FALSE)
<1> DEFINE n == Len(tv)
<1>1. /\ n \in Nat /\ Len(t2) = n + 2 /\ t2[n + 1] = UpdateStart /\ t2[n + 2] = k
      /\ \A i \in 1 .. n : t2[i] = tv[i]
  BY DEF Longer
<1>2. UpdateStart.type = "UpdateStart" /\ k.type # "UpdateStart"
  BY DEF UpdateStart, EndsIt
<1> HIDE DEF n
<1>3. \A i \in 1 .. Len(t2) : Coming(t2, i) <=> (i \in 1 .. n /\ Coming(tv, i)) \/ i = n + 1
  BY <1>1, <1>2 DEF Coming, n
<1>4. SomeTurn(w, ts, t2, FALSE)
  <2>1. n + 1 \in 1 .. Len(t2) /\ Coming(t2, n + 1)
    BY <1>1, <1>3
  <2> QED BY <2>1 DEF SomeTurn
<1>5. ASSUME ~v.supportsSyncFence, v.started PROVE OneTurn(w, ts, t2, FALSE)
  <2>1. s.requested
    BY <1>5 DEF Unsynced, Continuous
  <2>2. OneTurn(s, ts, tv, FALSE)
    BY <1>5 DEF Turn
  <2>3. \A i \in 1 .. Len(ts) : ~Asking(ts, i)
    BY <2>1, <2>2 DEF OneTurn
  <2>4. \A i \in 1 .. n : ~Coming(tv, i)
    BY <2>1, <2>2 DEF OneTurn, n
  <2>5. \A i \in 1 .. Len(t2) : Coming(t2, i) => i = n + 1
    BY <1>3, <2>4
  <2> QED BY <1>4, <2>3, <2>5 DEF OneTurn
<1> QED BY <1>4, <1>5 DEF Turn

\* It tells the size, or leaves it to be told.
LEMMA UpdateSize ==
  ASSUME NEW v, NEW s, NEW w, NEW tv, NEW t1, NEW t2, NEW k,
         SizeKnown(v, s, tv), Updated(s, k, w),
         Longer(tv, UpdateStart, t1), Longer(t1, k, t2)
  PROVE  SizeKnown(v, w, t2)
<1> DEFINE n == Len(tv)
<1>1. /\ n \in Nat /\ Len(t2) = n + 2 /\ t2[n + 1] = UpdateStart /\ t2[n + 2] = k
      /\ \A i \in 1 .. n : t2[i] = tv[i]
  BY DEF Longer
<1>2. UpdateStart.type = "UpdateStart"
  BY DEF UpdateStart
<1> HIDE DEF n
<1>3. CASE k.type = "SizeRect" /\ k.size = s.size
  <2>1. n + 2 \in 1 .. Len(t2) /\ Resizing(t2, n + 2) /\ t2[n + 2].size = w.size
    BY <1>1, <1>3 DEF Resizing, Updated
  <2>2. \A j \in (n + 2) + 1 .. Len(t2) : ~Resizing(t2, j)
    BY <1>1
  <2> QED BY <2>1, <2>2 DEF SizeKnown
<1>4. CASE k.type = "Rect" /\ w.newSize = s.newSize
  <2>1. \A i \in 1 .. Len(t2) : Resizing(t2, i) <=> i \in 1 .. n /\ Resizing(tv, i)
    BY <1>1, <1>2, <1>4 DEF Resizing, n
  <2>2. w.size = s.size
    BY DEF Updated
  <2>3. CASE \E i \in 1 .. n : /\ Resizing(tv, i) /\ tv[i].size = s.size
                               /\ \A j \in i + 1 .. n : ~Resizing(tv, j)
    <3>1. PICK i \in 1 .. n : /\ Resizing(tv, i) /\ tv[i].size = s.size
                              /\ \A j \in i + 1 .. n : ~Resizing(tv, j)
      BY <2>3
    <3>2. i \in 1 .. Len(t2) /\ Resizing(t2, i) /\ t2[i].size = w.size
      BY <1>1, <2>1, <2>2, <3>1
    <3>3. ASSUME NEW j \in i + 1 .. Len(t2), Resizing(t2, j) PROVE FALSE
      <4>1. j \in 1 .. Len(t2)
        BY <1>1, <3>1
      <4>2. j \in i + 1 .. n /\ Resizing(tv, j)
        BY <1>1, <2>1, <3>3, <4>1
      <4> QED BY <3>1, <4>2
    <3> QED BY <3>2, <3>3 DEF SizeKnown
  <2>4. CASE ~\E i \in 1 .. n : /\ Resizing(tv, i) /\ tv[i].size = s.size
                                /\ \A j \in i + 1 .. n : ~Resizing(tv, j)
    BY <1>4, <2>1, <2>2, <2>4 DEF SizeKnown, n
  <2> QED BY <2>3, <2>4
<1> QED BY <1>3, <1>4 DEF Updated

\* It is in the format that the viewer will have: the server has read the bare one.
LEMMA UpdateFormat ==
  ASSUME NEW v, NEW s, NEW w, NEW ts, NEW tv, NEW t1, NEW t2, NEW k,
         InFormat(v, s, ts, tv), BareFirst(v, s, ts, FALSE),
         s.requested \/ s.continuous, Updated(s, k, w), s.pf \in Format,
         Longer(tv, UpdateStart, t1), Longer(t1, k, t2)
  PROVE  InFormat(v, w, ts, t2) /\ \A i \in 1 .. Len(ts) : ~Bare(w, ts, i)
<1>1. PICK f \in [1 .. Len(tv) + 1 -> Format] :
        Follows(v, tv, f) /\ NextFormat(s, ts, f[Len(tv) + 1])
  BY DEF InFormat
<1>2. \A i \in 1 .. Len(ts) : ~Bare(s, ts, i)
  BY DEF BareFirst
<1>3. f[Len(tv) + 1] = s.pf
  BY <1>1, <1>2 DEF NextFormat
<1>4. s.pf = After(v, UpdateStart, Len(tv) + 1, s.pf) /\ UpdateStart.type # "Rect"
  BY DEF After, UpdateStart, Switch, EndsIt
<1>5. PICK g \in [1 .. Len(t1) + 1 -> Format] : Follows(v, t1, g) /\ g[Len(t1) + 1] = s.pf
  BY <1>1, <1>3, <1>4, ExtendFormat
<1>6. Len(t1) + 1 # 1
  BY DEF Longer
<1>7. s.pf = After(v, k, Len(t1) + 1, s.pf) /\ (k.type = "Rect" => k.pf = s.pf)
  BY <1>6 DEF After, Updated, Switch
<1>8. PICK h \in [1 .. Len(t2) + 1 -> Format] : Follows(v, t2, h) /\ h[Len(t2) + 1] = s.pf
  BY <1>5, <1>7, ExtendFormat
<1>9. \A i : Bare(w, ts, i) <=> Bare(s, ts, i)
  BY DEF Bare, FormatPending, Updated, Kept
<1>10. NextFormat(w, ts, h[Len(t2) + 1])
  BY <1>2, <1>8, <1>9 DEF NextFormat, Updated, Kept
<1> QED BY <1>2, <1>8, <1>9, <1>10 DEF InFormat

\* The server writes an update of one rectangle.
LEMMA TellUpdate ==
  ASSUME NEW v, NEW s, NEW w, NEW ts, NEW tv, Good(v, s, ts, tv, FALSE),
         s.requested \/ s.continuous, NEW k, Updated(s, k, w)
  PROVE  /\ tv \o <<UpdateStart, k>> \in Seq(ToViewer)
         /\ Good(v, w, ts, tv \o <<UpdateStart, k>>, FALSE) /\ v.started
<1>1. Rest(v, s, ts, tv, FALSE) /\ InFormat(v, s, ts, tv) /\ tv \in Seq(ToViewer)
      /\ s \in Server
  BY GoodIsRest DEF Rest
<1> DEFINE t1 == Append(tv, UpdateStart)
           t2 == Append(t1, k)
<1>2. UpdateStart \in ToViewer /\ k \in ToViewer /\ UpdateStart.type = "UpdateStart"
  <2>1. UpdateStart \in ToViewer
    BY SMT DEF UpdateStart, ToViewer
  <2> QED BY <2>1 DEF UpdateStart, Updated
<1>3. t1 \in Seq(ToViewer) /\ Longer(tv, UpdateStart, t1)
  BY <1>1, <1>2, Appended
<1>4. tv \o <<UpdateStart, k>> = t2
  BY <1>1, <1>2, TwoMore
<1> HIDE DEF t1
<1>5. t2 \in Seq(ToViewer) /\ Longer(t1, k, t2)
  BY <1>2, <1>3, Appended
<1> HIDE DEF t2
<1>6. v.started
  BY <1>1 DEF Rest, Fresh
<1>7. EndsIt(k) /\ Kept(s, w) /\ ~w.requested
  BY DEF EndsIt, Updated
<1>8. (FormatPending(w) <=> FormatPending(s)) /\ (ProbePending(w) <=> ProbePending(s))
  BY <1>7 DEF Kept, FormatPending, ProbePending
<1>9. /\ Len(t2) = Len(tv) + 2 /\ Len(tv) \in Nat /\ \A i \in 1 .. Len(tv) : t2[i] = tv[i]
      /\ t2[Len(tv) + 1] = UpdateStart /\ t2[Len(tv) + 2] = k
  BY <1>3, <1>5 DEF Longer
<1>10. ASSUME NEW i \in 1 .. Len(t2)
       PROVE  \/ i \in 1 .. Len(tv) /\ t2[i] = tv[i]
              \/ ~ProbeReply(t2[i]) /\ ~Switch(t2[i]) /\ t2[i].type # "EndOfCU"
  <2>1. CASE i \in 1 .. Len(tv)
    BY <1>9, <2>1
  <2>2. CASE i \notin 1 .. Len(tv)
    <3>1. t2[i] = UpdateStart \/ t2[i] = k
      BY <1>9, <2>2
    <3> QED BY <1>2, <1>7, <3>1 DEF EndsIt, ProbeReply, Switch
  <2> QED BY <2>1, <2>2
<1>11. Fresh(v, w, ts, t2)
  BY <1>6 DEF Fresh
<1>12. Shape(v, t2)
  BY <1>1, <1>3, <1>5, <1>7, UpdateShape DEF Rest
<1>13. Pairs(w, ts)
  BY <1>1, <1>7, <1>8 DEF Rest, Pairs, Kept
<1>14. InFormat(v, w, ts, t2) /\ \A i \in 1 .. Len(ts) : ~Bare(w, ts, i)
  <2>1. s.pf \in Format /\ BareFirst(v, s, ts, FALSE)
    BY <1>1 DEF Server, Rest
  <2> QED BY <1>1, <1>3, <1>5, <2>1, UpdateFormat
<1>15. BareFirst(v, w, ts, FALSE)
  BY <1>14 DEF BareFirst
<1>16. Turn(v, w, ts, t2, FALSE)
  BY <1>1, <1>3, <1>5, <1>7, UpdateTurn DEF Rest
<1>17. Unsynced(v, w, ts, t2)
  BY <1>1, <1>8, <1>10 DEF Rest, Unsynced
<1>18. ProbeOnce(v, w, ts, t2)
  BY <1>1, <1>8, <1>10 DEF Rest, ProbeOnce
<1>19. Continuous(v, w, ts, t2)
  BY <1>1, <1>7, <1>10 DEF Rest, Continuous, Kept
<1>20. SizeKnown(v, w, t2)
  BY <1>1, <1>3, <1>5, UpdateSize DEF Rest
<1>21. Rest(v, w, ts, t2, FALSE)
  BY <1>1, <1>5, <1>7, <1>11, <1>12, <1>13, <1>15, <1>16, <1>17, <1>18, <1>19, <1>20 DEF Rest, Kept
<1> QED BY <1>4, <1>5, <1>6, <1>14, <1>21, GoodIsRest

Drawn(s, b) == [s EXCEPT !.dirty = b, !.requested = b]
DrawnTelling(st, b) == [st EXCEPT !.s.dirty = b, !.s.requested = b]

\* DataUpdate's assignments are those of the server in the record.
LEMMA TellingDrawn ==
  ASSUME NEW s, NEW out, NEW b
  PROVE  DrawnTelling(Telling(s, out), b) = Telling(Drawn(s, b), out)
<1> DEFINE s1 == [s EXCEPT !.dirty = b]
           s2 == [s1 EXCEPT !.requested = b]
<1>1. [Telling(s, out) EXCEPT !.s.dirty = b] = Telling(s1, out)
  BY SMT DEF Telling
<1>2. Drawn(s, b) = s2
  BY DEF Drawn
<1> HIDE DEF s1
<1>3. [Telling(s1, out) EXCEPT !.s.requested = b] = Telling(s2, out)
  BY SMT DEF Telling
<1> HIDE DEF s2
<1>4. DrawnTelling(Telling(s, out), b)
        = [[Telling(s, out) EXCEPT !.s.dirty = b] EXCEPT !.s.requested = b]
  BY DEF DrawnTelling
<1> QED BY <1>1, <1>2, <1>3, <1>4

\* The server sends more.
LEMMA TellMore ==
  ASSUME NEW s, NEW out, NEW ms
  PROVE  Tell(Telling(s, out), ms) = Telling(s, out \o ms)
<1> DEFINE more == Telling(s, out).out \o ms
<1>1. Tell(Telling(s, out), ms) = [Telling(s, out) EXCEPT !.out = more]
  BY Zenon DEF Tell
<1>2. more = out \o ms
  BY DEF Telling
<1> HIDE DEF more
<1>3. [Telling(s, out) EXCEPT !.out = more] = Telling(s, more)
  BY SMT DEF Telling
<1> QED BY <1>1, <1>2, <1>3

DataRect(s) == [type |-> "Rect", pf |-> s.pf]
SizeIs(s) == [type |-> "SizeRect", size |-> s.size]
Ping(s) == IF s.supportsFence THEN <<ServerFence(TRUE, FALSE, NoData)>> ELSE <<>>

\* What an update with pixels consists of.
LEMMA DataUpdateIs ==
  ASSUME NEW s, NEW out
  PROVE  DataUpdate(Telling(s, out))
           = Telling(Drawn(s, FALSE), out \o (<<UpdateStart, DataRect(s)>> \o Ping(s)))
<1> DEFINE st == Telling(s, out)
           ms == <<[type |-> "UpdateStart"], [type |-> "Rect", pf |-> st.s.pf]>>
                 \o (IF st.s.supportsFence THEN <<ServerFence(TRUE, FALSE, NoData)>> ELSE <<>>)
           no == FALSE
<1>1. DataUpdate(st) = Tell(DrawnTelling(st, FALSE), ms)
  BY Zenon DEF DataUpdate, DrawnTelling
<1>2. st.s = s
  BY DEF Telling
<1> HIDE DEF st
<1>3. ms = <<UpdateStart, DataRect(s)>> \o Ping(s)
  BY <1>2, Zenon DEF UpdateStart, DataRect, Ping
<1> HIDE DEF ms, no
<1>4. DrawnTelling(Telling(s, out), no) = Telling(Drawn(s, no), out)
  BY TellingDrawn
<1>5. DrawnTelling(st, FALSE) = Telling(Drawn(s, FALSE), out)
  BY <1>4 DEF no, st
<1>6. Tell(Telling(Drawn(s, FALSE), out), ms) = Telling(Drawn(s, FALSE), out \o ms)
  BY TellMore
<1> QED BY <1>1, <1>3, <1>5, <1>6 DEF st

\* The server writes one, with the ping behind it.
LEMMA DataKeeps ==
  ASSUME NEW v, NEW s, NEW ts, NEW tv, Good(v, s, ts, tv, FALSE),
         s.requested \/ s.continuous
  PROVE  /\ <<UpdateStart, DataRect(s)>> \o Ping(s) \in Seq(ToViewer)
         /\ Good(v, Drawn(s, FALSE), ts, tv \o (<<UpdateStart, DataRect(s)>> \o Ping(s)), FALSE)
<1> DEFINE w == Drawn(s, FALSE)
           k == DataRect(s)
           u == <<UpdateStart, k>>
           p == ServerFence(TRUE, FALSE, NoData)
<1>1. s \in Server /\ tv \in Seq(ToViewer)
  BY DEF Good
<1>2. k \in ToViewer /\ k.type = "Rect" /\ k.pf = s.pf /\ UpdateStart \in ToViewer
  <2>1. s.pf \in Format
    BY <1>1 DEF Server
  <2>2. k \in ToViewer
    BY <2>1, SMT DEF ToViewer, DataRect
  <2>3. UpdateStart \in ToViewer
    BY SMT DEF ToViewer, UpdateStart
  <2>4. k.type = "Rect" /\ k.pf = s.pf
    BY DEF DataRect
  <2> QED BY <2>2, <2>3, <2>4
<1>3. Kept(s, w) /\ ~w.requested /\ w.size = s.size /\ w.newSize = s.newSize
      /\ w.supportsFence = s.supportsFence
  BY <1>1 DEF Drawn, Server, Kept
<1> HIDE DEF w, k
<1>4. Updated(s, k, w)
  BY <1>2, <1>3 DEF Updated
<1>5. tv \o u \in Seq(ToViewer) /\ Good(v, w, ts, tv \o u, FALSE) /\ v.started
  BY <1>4, TellUpdate
<1>6. u \in Seq(ToViewer)
  BY <1>2
<1>7. p \in ToViewer /\ p.type = "Fence" /\ p.request
  BY ServerMessages DEF ServerFence
<1> HIDE DEF p, u
<1>8. CASE s.supportsFence
  <2>1. Ping(s) = <<p>> /\ <<p>> \in Seq(ToViewer)
    <3>1. Ping(s) = <<p>>
      BY <1>8, Zenon DEF Ping, p
    <3> QED BY <1>7, <3>1
  <2>2. tv \o (u \o <<p>>) = (tv \o u) \o <<p>> /\ u \o <<p>> \in Seq(ToViewer)
    BY <1>1, <1>6, <2>1, ConcatAssociative
  <2> DEFINE q == tv \o u
             q1 == Append(q, p)
  <2> HIDE DEF q
  <2>3. q \in Seq(ToViewer)
    BY <1>5 DEF q
  <2>4. q \o <<p>> = q1 /\ q1 \in Seq(ToViewer) /\ Longer(q, p, q1)
    BY <1>7, <2>3, Appended
  <2> HIDE DEF q1
  <2>5. MayTell(v, w, ts, q, p) /\ TellFormat(v, p)
    BY <1>7 DEF MayTell, TellFormat, EndsIt, Switch, ProbeReply
  <2>6. Rest(v, w, ts, q1, FALSE) /\ InFormat(v, w, ts, q1)
    BY <1>5, <2>4, <2>5, GoodIsRest, TellRest, TellKeepsFormat DEF q
  <2>7. Good(v, w, ts, q1, FALSE)
    BY <2>6, GoodIsRest
  <2> QED BY <2>1, <2>2, <2>4, <2>7 DEF q, u, k, w
<1>9. CASE ~s.supportsFence
  <2>1. Ping(s) = <<>>
    BY <1>9 DEF Ping
  <2>2. u \o <<>> = u
    BY <1>6
  <2> QED BY <1>5, <1>6, <2>1, <2>2 DEF u, k, w
<1> QED BY <1>8, <1>9

Sized(s, b) == [s EXCEPT !.newSize = b, !.requested = b]

\* The server writes an update that tells the size only.
LEMMA SizeKeeps ==
  ASSUME NEW v, NEW s, NEW ts, NEW tv, Good(v, s, ts, tv, FALSE),
         s.requested \/ s.continuous
  PROVE  /\ <<UpdateStart, SizeIs(s)>> \in Seq(ToViewer)
         /\ Good(v, Sized(s, FALSE), ts, tv \o <<UpdateStart, SizeIs(s)>>, FALSE)
         /\ NoDataUpdate(s) = Telling(Sized(s, FALSE), <<UpdateStart, SizeIs(s)>>)
         /\ Sized(s, FALSE).continuous = s.continuous
<1> DEFINE w == Sized(s, FALSE)
           k == SizeIs(s)
<1>1. s \in Server /\ tv \in Seq(ToViewer)
  BY DEF Good
<1>2. k \in ToViewer /\ k.type = "SizeRect" /\ k.size = s.size /\ UpdateStart \in ToViewer
  <2>1. s.size \in Sizes
    BY <1>1 DEF Server
  <2>2. k \in ToViewer
    BY <2>1, SMT DEF ToViewer, SizeIs
  <2>3. UpdateStart \in ToViewer
    BY SMT DEF ToViewer, UpdateStart
  <2>4. k.type = "SizeRect" /\ k.size = s.size
    BY DEF SizeIs
  <2> QED BY <2>2, <2>3, <2>4
<1>3. Kept(s, w) /\ ~w.requested /\ w.size = s.size /\ w.continuous = s.continuous
  BY <1>1 DEF Sized, Server, Kept
<1>4. NoDataUpdate(s) = Telling(w, <<UpdateStart, k>>)
  BY Zenon DEF NoDataUpdate, Telling, UpdateStart, SizeIs, Sized
<1> HIDE DEF w, k
<1>5. Updated(s, k, w)
  BY <1>2, <1>3 DEF Updated
<1>6. Good(v, w, ts, tv \o <<UpdateStart, k>>, FALSE)
  BY <1>5, TellUpdate
<1>7. <<UpdateStart, k>> \in Seq(ToViewer)
  BY <1>2
<1> QED BY <1>3, <1>4, <1>6, <1>7 DEF w, k

Keeping(v, ts, tv, st) == Good(v, st.s, ts, tv \o st.out, FALSE)

\* What it is for a result of writing to be right.
LEMMA KeepingIs ==
  ASSUME NEW v, NEW w, NEW ts, NEW tv, NEW out, Good(v, w, ts, tv \o out, FALSE)
  PROVE  Keeping(v, ts, tv, Telling(w, out))
<1>1. Telling(w, out).s = w /\ Telling(w, out).out = out
  BY DEF Telling
<1> QED BY <1>1 DEF Keeping

\* writeFramebufferUpdate, whatever it comes to.
LEMMA WrittenKeeps ==
  ASSUME NEW v, NEW s, NEW ts, NEW tv, Good(v, s, ts, tv, FALSE), CanWrite(s),
         NEW st \in Written(s)
  PROVE  Keeping(v, ts, tv, st)
<1> DEFINE sized == IF s.newSize THEN NoDataUpdate(s) ELSE [s |-> s, out |-> <<>>]
           w1 == IF s.newSize THEN Sized(s, FALSE) ELSE s
           out1 == IF s.newSize THEN <<UpdateStart, SizeIs(s)>> ELSE <<>>
<1>1. tv \in Seq(ToViewer) /\ (s.requested \/ s.continuous)
  BY DEF Good, CanWrite
<1>2. /\ sized = Telling(w1, out1) /\ Good(v, w1, ts, tv \o out1, FALSE)
      /\ out1 \in Seq(ToViewer) /\ (s.continuous \/ ~s.newSize => w1.requested \/ w1.continuous)
  <2>1. CASE s.newSize
    <3> USE <1>1, <2>1, SizeKeeps
    <3>1. sized = Telling(w1, out1)
      OBVIOUS
    <3>2. Good(v, w1, ts, tv \o out1, FALSE) /\ out1 \in Seq(ToViewer)
      OBVIOUS
    <3>3. s.continuous => w1.continuous
      OBVIOUS
    <3> QED BY <3>1, <3>2, <3>3
  <2>2. CASE ~s.newSize
    <3>1. sized = Telling(w1, out1)
      BY <2>2 DEF Telling
    <3>2. out1 = <<>> /\ w1 = s
      BY <2>2
    <3> HIDE DEF sized, w1, out1
    <3>3. out1 \in Seq(ToViewer) /\ tv \o out1 = tv
      <4>1. <<>> \in Seq(ToViewer) /\ tv \o <<>> = tv
        BY <1>1
      <4> QED BY <3>2, <4>1
    <3> QED BY <1>1, <3>1, <3>2, <3>3
  <2> QED BY <2>1, <2>2
<1>3. st = sized \/ (st = DataUpdate(sized) /\ (s.newSize => s.continuous))
  <2>1. st \in {sized} \cup IF sized.s.dirty /\ (s.newSize => s.continuous)
                            THEN {DataUpdate(sized)} ELSE {}
    BY Zenon DEF Written
  <2> HIDE DEF sized
  <2> QED BY <2>1, Zenon
<1> HIDE DEF sized, w1, out1
<1>4. CASE st = sized
  BY <1>2, <1>4, KeepingIs
<1>5. CASE st = DataUpdate(sized) /\ (s.newSize => s.continuous)
  <2> DEFINE out2 == <<UpdateStart, DataRect(w1)>> \o Ping(w1)
             w2 == Drawn(w1, FALSE)
  <2>1. st = Telling(w2, out1 \o out2)
    BY <1>2, <1>5, DataUpdateIs
  <2>2. out2 \in Seq(ToViewer) /\ Good(v, w2, ts, (tv \o out1) \o out2, FALSE)
    BY <1>2, <1>5, DataKeeps
  <2> HIDE DEF out2, w2
  <2>3. (tv \o out1) \o out2 = tv \o (out1 \o out2)
    BY SMTT(60), <1>1, <1>2, <2>2, ConcatAssociative
  <2> QED BY <2>1, <2>2, <2>3, KeepingIs
<1> QED BY <1>3, <1>4, <1>5

\* A call of writeFramebufferUpdate, of a server that has got some flags before.
LEMMA TriesKeep ==
  ASSUME NEW s, viewer' = viewer, option' = option, toServer' = toServer, option \in Format,
         Good(viewer, s, toServer, toViewer, FALSE),
         TriesToWrite(s)
  PROVE  Inv'
<1>1. toViewer \in Seq(ToViewer)
  BY DEF Good
<1>2. CASE BecameServer([s |-> s, out |-> <<>>])
  <2>2. server' = s /\ toViewer' = toViewer \o <<>>
    BY <1>2 DEF BecameServer
  <2>3. toViewer \o <<>> = toViewer
    BY <1>1
  <2> QED BY <2>2, <2>3, NextIsGood
<1>3. CASE CanWrite(s) /\ \E st \in Written(s) : st.out # <<>> /\ BecameServer(st)
  <2>1. PICK st \in Written(s) : BecameServer(st)
    BY <1>3, Zenon
  <2>0. CanWrite(s)
    BY <1>3
  <2>2. Keeping(viewer, toServer, toViewer, st)
    BY <2>0, WrittenKeeps
  <2>3. server' = st.s /\ toViewer' = toViewer \o st.out
    BY <2>1 DEF BecameServer
  <2> QED BY <2>2, <2>3, NextIsGood DEF Keeping
<1> QED BY <1>2, <1>3, Zenon DEF TriesToWrite

\* The end of processMessages keeps the invariant.
LEMMA EndOfMessagesInv ==
  ASSUME Inv, EndOfMessages
  PROVE  Inv'
<1> DEFINE s == [server EXCEPT !.inProcess = FALSE]
<1>1. /\ viewer' = viewer /\ option' = option /\ toServer' = toServer /\ TriesToWrite(s)
  BY DEF EndOfMessages
<1>2. option \in Format /\ Good(viewer, server, toServer, toViewer, FALSE) /\ server \in Server
  BY InvIsGood DEF Good
<1>3. /\ Kept(server, s) /\ s.requested = server.requested
      /\ s.newSize = server.newSize /\ s.size = server.size
  BY <1>2 DEF Kept, Server
<1> HIDE DEF s
<1>4. Good(viewer, s, toServer, toViewer, FALSE)
  BY <1>2, <1>3, ServerFlags
<1> QED BY <1>1, <1>2, <1>4, TriesKeep

\* The desktop's drawing keeps the invariant.
LEMMA DrawInv ==
  ASSUME Inv, Draw
  PROVE  Inv'
<1> DEFINE s == [server EXCEPT !.dirty = TRUE]
<1>1. /\ viewer' = viewer /\ option' = option /\ toServer' = toServer /\ TriesToWrite(s)
  BY DEF Draw
<1>2. option \in Format /\ Good(viewer, server, toServer, toViewer, FALSE) /\ server \in Server
  BY InvIsGood DEF Good
<1>3. /\ Kept(server, s) /\ s.requested = server.requested
      /\ s.newSize = server.newSize /\ s.size = server.size
  BY <1>2 DEF Kept, Server
<1> HIDE DEF s
<1>4. Good(viewer, s, toServer, toViewer, FALSE)
  BY <1>2, <1>3, ServerFlags
<1> QED BY <1>1, <1>2, <1>4, TriesKeep

\* A new size of the desktop keeps the invariant.
LEMMA ResizeInv ==
  ASSUME Inv, Resize
  PROVE  Inv'
<1>1. PICK size \in Sizes \ {server.size} :
        TriesToWrite([server EXCEPT !.size = size, !.dirty = TRUE, !.newSize = TRUE])
  BY DEF Resize
<1> DEFINE s == [server EXCEPT !.size = size, !.dirty = TRUE, !.newSize = TRUE]
<1>2. /\ viewer' = viewer /\ option' = option /\ toServer' = toServer
      /\ server.supportsResize
  BY DEF Resize
<1>3. option \in Format /\ Good(viewer, server, toServer, toViewer, FALSE) /\ server \in Server
  BY InvIsGood DEF Good
<1>4. viewer.started
  BY <1>2, <1>3 DEF Good, SyncInv, Fresh
<1>5. Kept(server, s) /\ s.requested = server.requested /\ s.newSize
  BY <1>3 DEF Kept, Server
<1>6. TriesToWrite(s)
  BY <1>1
<1> HIDE DEF s
<1>7. Good(viewer, s, toServer, toViewer, FALSE)
  BY <1>3, <1>4, <1>5, ServerFlags
<1> QED BY <1>2, <1>3, <1>6, <1>7, TriesKeep

\* The timer keeps the invariant.
LEMMA UpdateTimeoutInv ==
  ASSUME Inv, UpdateTimeout
  PROVE  Inv'
<1>1. /\ viewer' = viewer /\ option' = option /\ toServer' = toServer
      /\ TriesToWrite(server)
  BY Zenon DEF UpdateTimeout, TriesToWrite
<1>2. option \in Format /\ Good(viewer, server, toServer, toViewer, FALSE)
  BY InvIsGood
<1> QED BY <1>1, <1>2, TriesKeep

-----------------------------------------------------------------------------
\* It holds when the session begins.
LEMMA InitInv ==
  ASSUME Init
  PROVE  Inv
<1>1. PICK wanted \in Format, knows \in BOOLEAN :
        /\ viewer = [started |-> FALSE, tls |-> FALSE, pf |-> NativePF, size |-> FirstSize,
                 formatChange |-> FALSE, encodingChange |-> FALSE,
                 firstUpdate |-> TRUE, pendingUpdate |-> FALSE,
                 continuousUpdates |-> FALSE, forceNonincremental |-> TRUE,
                 supportsSyncFence |-> FALSE,
                 pendingPFChange |-> FALSE, pendingPF |-> NativePF,
                 supportsFence |-> FALSE, supportsCU |-> FALSE,
                 rectsLeft |-> FALSE, assertFailed |-> FALSE]
        /\ option = wanted
        /\ server = [knowsFences |-> knows, pf |-> NativePF, size |-> FirstSize,
                 supportsFence |-> FALSE, supportsCU |-> FALSE,
                 supportsResize |-> FALSE, inProcess |-> FALSE, pendingSyncFence |-> FALSE,
                 fenceData |-> NoData,
                 requested |-> FALSE, continuous |-> FALSE, cuSize |-> FirstSize,
                 dirty |-> TRUE, newSize |-> FALSE, refused |-> FALSE]
        /\ toServer = <<>>
        /\ toViewer = <<>>
  BY Zenon DEF Init
<1>2. /\ viewer \in Viewer /\ ~viewer.started /\ viewer.pf = NativePF
      /\ viewer.size = FirstSize /\ viewer.firstUpdate /\ ~viewer.pendingUpdate
      /\ ~viewer.continuousUpdates /\ ~viewer.supportsSyncFence /\ ~viewer.pendingPFChange
      /\ ~viewer.supportsCU /\ ~viewer.rectsLeft /\ ~viewer.assertFailed
  BY <1>1, FormatAssumption, SizeAssumption DEF Viewer
<1>3. /\ server \in Server /\ server.pf = NativePF /\ server.size = FirstSize
      /\ ~server.supportsFence /\ ~server.supportsCU /\ server.supportsCU = server.supportsFence
      /\ ~server.supportsResize
      /\ ~server.pendingSyncFence /\ ~server.requested /\ ~server.continuous /\ ~server.refused
  BY <1>1, FormatAssumption, SizeAssumption DEF Server
<1>4. /\ toServer \in Seq(ToServer) /\ toViewer \in Seq(ToViewer)
      /\ Len(toServer) = 0 /\ Len(toViewer) = 0
  BY <1>1
<1>5. Fresh(viewer, server, toServer, toViewer)
  BY <1>2, <1>3, <1>4 DEF Fresh
<1>6. Shape(viewer, toViewer) /\ Pending(viewer)
  BY <1>2, <1>4 DEF Shape, Pending
<1>7. Pairs(server, toServer) /\ BareFirst(viewer, server, toServer, FALSE)
  BY <1>3, <1>4 DEF Pairs, BareFirst, FormatPending
<1>8. InFormat(viewer, server, toServer, toViewer)
  <2> DEFINE f == [i \in 1 .. 1 |-> NativePF]
  <2>1. f \in [1 .. Len(toViewer) + 1 -> Format] /\ f[1] = NativePF
        /\ DOMAIN f = 1 .. Len(toViewer) + 1
    BY <1>4, FormatAssumption
  <2> HIDE DEF f
  <2>2. Follows(viewer, toViewer, f)
    BY <1>2, <1>4, <2>1 DEF Follows
  <2>3. NextFormat(server, toServer, f[Len(toViewer) + 1])
    BY <1>3, <1>4, <2>1 DEF NextFormat
  <2> QED BY <2>1, <2>2, <2>3 DEF InFormat
<1>9. Turn(viewer, server, toServer, toViewer, FALSE)
  BY <1>2 DEF Turn
<1>10. Unsynced(viewer, server, toServer, toViewer) /\ ProbeOnce(viewer, server, toServer, toViewer)
  BY <1>2, <1>3, <1>4 DEF Unsynced, ProbeOnce, FormatPending, ProbePending
<1>11. Continuous(viewer, server, toServer, toViewer) /\ SizeKnown(viewer, server, toViewer)
  BY <1>2, <1>3, <1>4 DEF Continuous, SizeKnown, Enabling, Resizing
<1>12. option \in Format
  BY <1>1
<1>13. Rest(viewer, server, toServer, toViewer, FALSE)
  BY <1>2, <1>3, <1>4, <1>5, <1>6, <1>7, <1>9, <1>10, <1>11 DEF Rest
<1> QED BY <1>8, <1>12, <1>13, GoodIsRest, InvIsGood

\* And every step keeps it.
LEMMA StepInv ==
  ASSUME Inv, [Next]_vars
  PROVE  Inv'
<1>1. CASE ReadUpdateStart
  BY <1>1, ReadUpdateStartInv
<1>2. CASE ReadRect
  BY <1>2, ReadRectInv
<1>3. CASE ReadSizeRect
  BY <1>3, ReadSizeRectInv
<1>4. CASE ReadFence
  BY <1>4, ReadFenceInv
<1>5. CASE ReadEndOfCU
  BY <1>5, ReadEndOfCUInv
<1>6. CASE \E tls \in BOOLEAN : ReadServerInit(tls)
  BY <1>6, ReadServerInitInv
<1>7. CASE HandleOptions
  BY <1>7, HandleOptionsInv
<1>8. CASE RefreshFramebuffer
  BY <1>8, RefreshFramebufferInv
<1>9. CASE ServerReads
  BY <1>9, ServerReadsInv
<1>10. CASE EndOfMessages
  BY <1>10, EndOfMessagesInv
<1>11. CASE UpdateTimeout
  BY <1>11, UpdateTimeoutInv
<1>12. CASE Draw
  BY <1>12, DrawInv
<1>13. CASE Resize
  BY <1>13, ResizeInv
<1>14. CASE UNCHANGED vars
  <2>1. viewer' = viewer /\ option' = option /\ server' = server /\ toServer' = toServer
        /\ toViewer' = toViewer
    BY <1>14 DEF vars
  <2> QED BY <2>1, InvIsGood, NextIsGood
<1> QED BY <1>1, <1>2, <1>3, <1>4, <1>5, <1>6, <1>7, <1>8, <1>9, <1>10, <1>11, <1>12, <1>13,
           <1>14 DEF Next, ViewerReads, ReadMsg, ServerActs

-----------------------------------------------------------------------------
\* The properties.
Count(q, type) == Cardinality({i \in DOMAIN q : q[i].type = type})

\* The cardinalities that AskedFor adds up, in terms of places in the queue.
LEMMA Counted ==
  ASSUME NEW S, NEW q \in Seq(S), NEW type
  PROVE  /\ Count(q, type) \in Nat
         /\ Count(q, type) = 0 <=> \A i \in 1 .. Len(q) : q[i].type # type
         /\ \A k \in 1 .. Len(q) :
              q[k].type = type /\ (\A i \in 1 .. Len(q) : q[i].type = type => i = k)
                => Count(q, type) = 1
<1> DEFINE C == {i \in DOMAIN q : q[i].type = type}
<1>1. DOMAIN q = 1 .. Len(q) /\ Len(q) \in Nat
  OBVIOUS
<1>2. IsFiniteSet(C)
  <2>1. IsFiniteSet(1 .. Len(q))
    BY <1>1, FS_Interval
  <2>2. C \subseteq 1 .. Len(q)
    BY <1>1
  <2> QED BY <2>1, <2>2, FS_Subset
<1>3. Cardinality(C) \in Nat
  BY <1>2, FS_CardinalityType
<1>4. Cardinality(C) = 0 <=> C = {}
  BY <1>2, FS_EmptySet
<1>5. C = {} <=> \A i \in 1 .. Len(q) : q[i].type # type
  BY <1>1
<1>6. ASSUME NEW k \in 1 .. Len(q), q[k].type = type,
             \A i \in 1 .. Len(q) : q[i].type = type => i = k
      PROVE  Cardinality(C) = 1
  <2>1. C = {k}
    BY <1>1, <1>6
  <2> QED BY <2>1, FS_Singleton
<1> QED BY <1>3, <1>4, <1>5, <1>6 DEF Count

\* The first message is in the format that the sequence of formats begins with.
LEMMA InvDecoded ==
  ASSUME Inv PROVE DecodedAsEncoded
<1> SUFFICES ASSUME toViewer # <<>>, Head(toViewer).type = "Rect"
             PROVE  Head(toViewer).pf = viewer.pf
  BY DEF DecodedAsEncoded
<1>1. toViewer \in Seq(ToViewer)
  BY DEF Inv, TypeOK
<1>2. 1 \in 1 .. Len(toViewer) /\ Head(toViewer) = toViewer[1]
  BY <1>1
<1>3. PICK f : Follows(viewer, toViewer, f)
  BY DEF Inv, SyncInv, InFormat
<1> QED BY <1>2, <1>3 DEF Follows

\* One update asked for in one place is a sum of one.
LEMMA InvAsked ==
  ASSUME Inv PROVE AskedFor
<1> DEFINE asked == Count(toServer, "UpdateRequest")
           coming == Count(toViewer, "UpdateStart")
           held == IF server.requested THEN 1 ELSE 0
<1>1. toServer \in Seq(ToServer) /\ toViewer \in Seq(ToViewer)
  BY DEF Inv, TypeOK
<1>2. /\ asked \in Nat
      /\ asked = 0 <=> \A i \in 1 .. Len(toServer) : ~Asking(toServer, i)
      /\ \A k \in 1 .. Len(toServer) :
           Asking(toServer, k) /\ (\A i \in 1 .. Len(toServer) : Asking(toServer, i) => i = k)
             => asked = 1
  <2>1. \A i \in 1 .. Len(toServer) : Asking(toServer, i) <=> toServer[i].type = "UpdateRequest"
    BY DEF Asking
  <2>2. Count(toServer, "UpdateRequest") \in Nat
    BY <1>1, Counted
  <2>3. Count(toServer, "UpdateRequest") = 0 <=> \A i \in 1 .. Len(toServer) : toServer[i].type # "UpdateRequest"
    BY <1>1, Counted
  <2>4. ASSUME NEW k \in 1 .. Len(toServer), Asking(toServer, k),
               \A i \in 1 .. Len(toServer) : Asking(toServer, i) => i = k
        PROVE  Count(toServer, "UpdateRequest") = 1
    <3>1. toServer[k].type = "UpdateRequest" /\ \A i \in 1 .. Len(toServer) : toServer[i].type = "UpdateRequest" => i = k
      BY <2>1, <2>4
    <3> QED BY <1>1, <3>1, Counted
  <2> HIDE DEF Count
  <2> QED BY <2>1, <2>2, <2>3, <2>4
<1>3. /\ coming \in Nat
      /\ coming = 0 <=> \A i \in 1 .. Len(toViewer) : ~Coming(toViewer, i)
      /\ \A k \in 1 .. Len(toViewer) :
           Coming(toViewer, k) /\ (\A i \in 1 .. Len(toViewer) : Coming(toViewer, i) => i = k)
             => coming = 1
  <2>1. \A i \in 1 .. Len(toViewer) : Coming(toViewer, i) <=> toViewer[i].type = "UpdateStart"
    BY DEF Coming
  <2>2. Count(toViewer, "UpdateStart") \in Nat
    BY <1>1, Counted
  <2>3. Count(toViewer, "UpdateStart") = 0 <=> \A i \in 1 .. Len(toViewer) : toViewer[i].type # "UpdateStart"
    BY <1>1, Counted
  <2>4. ASSUME NEW k \in 1 .. Len(toViewer), Coming(toViewer, k),
               \A i \in 1 .. Len(toViewer) : Coming(toViewer, i) => i = k
        PROVE  Count(toViewer, "UpdateStart") = 1
    <3>1. toViewer[k].type = "UpdateStart" /\ \A i \in 1 .. Len(toViewer) : toViewer[i].type = "UpdateStart" => i = k
      BY <2>1, <2>4
    <3> QED BY <1>1, <3>1, Counted
  <2> HIDE DEF Count
  <2> QED BY <2>1, <2>2, <2>3, <2>4
<1>4. Turns = (asked + held) + coming
  BY DEF Turns, Count
<1> HIDE DEF asked, coming
<1>5. ASSUME viewer.started, viewer.supportsSyncFence
      PROVE  Turns > 0 \/ server.continuous \/ Has(toServer, "EnableCU")
  <2>1. CASE viewer.continuousUpdates
    <3>1. server.continuous \/ \E i \in 1 .. Len(toServer) : Enabling(toServer, i)
      BY <2>1 DEF Inv, SyncInv, Continuous
    <3>2. DOMAIN toServer = 1 .. Len(toServer)
      BY <1>1
    <3> QED BY <3>1, <3>2 DEF Enabling, Has
  <2>2. CASE SomeTurn(server, toServer, toViewer, FALSE)
    <3>1. \/ server.requested
          \/ \E i \in 1 .. Len(toServer) : Asking(toServer, i)
          \/ \E i \in 1 .. Len(toViewer) : Coming(toViewer, i)
      BY <2>2 DEF SomeTurn
    <3>2. server.requested \/ asked > 0 \/ coming > 0
      BY <1>2, <1>3, <3>1
    <3> QED BY <1>2, <1>3, <1>4, <3>2
  <2> QED BY <1>5, <2>1, <2>2 DEF Inv, SyncInv, Turn
<1>6. ASSUME viewer.started, ~viewer.supportsSyncFence
      PROVE  Turns = 1
  <2>1. OneTurn(server, toServer, toViewer, FALSE)
    BY <1>6 DEF Inv, SyncInv, Turn
  <2>2. CASE server.requested
    <3>1. /\ \A i \in 1 .. Len(toServer) : ~Asking(toServer, i)
          /\ \A i \in 1 .. Len(toViewer) : ~Coming(toViewer, i)
      BY <2>1, <2>2 DEF OneTurn
    <3> QED BY <1>2, <1>3, <1>4, <2>2, <3>1
  <2>3. CASE \E i \in 1 .. Len(toServer) : Asking(toServer, i)
    <3>1. PICK k \in 1 .. Len(toServer) : Asking(toServer, k)
      BY <2>3
    <3>2. ~server.requested /\ \A i \in 1 .. Len(toViewer) : ~Coming(toViewer, i)
      BY <2>1, <3>1 DEF OneTurn
    <3>3. \A i \in 1 .. Len(toServer) : Asking(toServer, i) => i = k
      BY <2>1, <3>1 DEF OneTurn
    <3>4. asked = 1 /\ coming = 0
      BY <1>2, <1>3, <3>1, <3>2, <3>3
    <3> QED BY <1>4, <3>2, <3>4
  <2>4. CASE \E i \in 1 .. Len(toViewer) : Coming(toViewer, i)
    <3>1. PICK k \in 1 .. Len(toViewer) : Coming(toViewer, k)
      BY <2>4
    <3>2. ~server.requested /\ \A i \in 1 .. Len(toServer) : ~Asking(toServer, i)
      BY <2>1, <3>1 DEF OneTurn
    <3>3. \A i \in 1 .. Len(toViewer) : Coming(toViewer, i) => i = k
      BY <2>1, <3>1 DEF OneTurn
    <3>4. asked = 0 /\ coming = 1
      BY <1>2, <1>3, <3>1, <3>2, <3>3
    <3> QED BY <1>4, <3>2, <3>4
  <2> QED BY <2>1, <2>2, <2>3, <2>4 DEF OneTurn, SomeTurn
<1> QED BY <1>5, <1>6 DEF AskedFor

\* The area is the size the viewer knows, which is the server's unless a new one is
\* due.
LEMMA InvArea ==
  ASSUME Inv PROVE AreaFollowsSize
<1> SUFFICES ASSUME server.continuous
             PROVE  \/ server.cuSize = server.size
                    \/ server.newSize
                    \/ [type |-> "SizeRect", size |-> server.size] \in Range(toViewer)
                    \/ EnableCUMsg(server.size) \in Range(toServer)
  BY DEF AreaFollowsSize
<1>1. /\ toServer \in Seq(ToServer) /\ toViewer \in Seq(ToViewer)
      /\ SizeKnown(viewer, server, toViewer) /\ Continuous(viewer, server, toServer, toViewer)
  BY DEF Inv, TypeOK, SyncInv
<1>2. DOMAIN toServer = 1 .. Len(toServer) /\ DOMAIN toViewer = 1 .. Len(toViewer)
  BY <1>1
<1>3. \/ server.newSize \/ viewer.size = server.size
      \/ \E i \in 1 .. Len(toViewer) : Resizing(toViewer, i) /\ toViewer[i].size = server.size
  BY <1>1 DEF SizeKnown
<1>4. \/ server.cuSize = viewer.size
      \/ \E i \in 1 .. Len(toServer) : Enabling(toServer, i) /\ toServer[i].size = viewer.size
  BY <1>1 DEF Continuous
<1>5. ASSUME NEW i \in 1 .. Len(toViewer), Resizing(toViewer, i),
             toViewer[i].size = server.size
      PROVE  [type |-> "SizeRect", size |-> server.size] \in Range(toViewer)
  <2>1. toViewer[i] \in ToViewer /\ toViewer[i].type = "SizeRect"
    BY <1>1, <1>5 DEF Resizing
  <2>2. toViewer[i] = [type |-> "SizeRect", size |-> server.size]
    BY <1>5, <2>1 DEF ToViewer
  <2> QED BY <1>2, <2>2 DEF Range
<1>6. ASSUME NEW i \in 1 .. Len(toServer), Enabling(toServer, i),
             toServer[i].size = viewer.size, viewer.size = server.size
      PROVE  EnableCUMsg(server.size) \in Range(toServer)
  <2>1. toServer[i] \in ToServer /\ toServer[i].type = "EnableCU"
    BY <1>1, <1>6 DEF Enabling
  <2>2. toServer[i] = EnableCUMsg(server.size)
    BY <1>6, <2>1 DEF ToServer, EnableCUMsg
  <2> QED BY <1>2, <2>2 DEF Range
<1> QED BY <1>3, <1>4, <1>5, <1>6

-----------------------------------------------------------------------------
\* The invariant holds in every state of the session.
THEOREM Invariance == Spec => []Inv
<1>1. Init => Inv
  BY InitInv
<1>2. Inv /\ [Next]_vars => Inv'
  BY StepInv
<1> QED BY <1>1, <1>2, PTL DEF Spec

\* The two programs and the messages between them keep their types.
THEOREM TypeCorrect == Spec => []TypeOK
<1>1. Inv => TypeOK
  BY DEF Inv
<1> QED BY <1>1, Invariance, PTL

\* Every rectangle is decoded in the format it was encoded in
\* (CConn::requestNewUpdate, VNCSConnectionST::processMessages).
THEOREM DecodesAsEncoded == Spec => []DecodedAsEncoded
<1>1. Inv => DecodedAsEncoded
  BY InvDecoded
<1> QED BY <1>1, Invariance, PTL

\* The viewer's assertions hold and the server never closes the connection over
\* continuous updates.
THEOREM RefusesNothing == Spec => []NothingRefused
<1>1. Inv => NothingRefused
  BY DEF Inv, SyncInv, NothingRefused
<1> QED BY <1>1, Invariance, PTL

\* The updates never run dry, and before fences are known to work exactly one is
\* asked for.
THEOREM KeepsAsking == Spec => []AskedFor
<1>1. Inv => AskedFor
  BY InvAsked
<1> QED BY <1>1, Invariance, PTL

\* Continuous updates cover the screen, or the message that makes them do so is
\* due.
THEOREM CoversTheScreen == Spec => []AreaFollowsSize
<1>1. Inv => AreaFollowsSize
  BY InvArea
<1> QED BY <1>1, Invariance, PTL

-----------------------------------------------------------------------------
(***************************************************************************)
(* The handshake, for every list of security types and every setting: each *)
(* side takes the next message for what it is, from the stream it was      *)
(* written to, and whoever is let in has passed every layer of a type that *)
(* both have enabled.                                                      *)
(*                                                                         *)
(* Neither side names the message it sends, so what is read is right only  *)
(* if the two are in step.  The inductive invariant, ShakeInv, is the list *)
(* of the situations a handshake goes through (Situation).  Each says what *)
(* both sides wait for and all that is under way, in order.  They are few  *)
(* because the sides mostly take turns.  Where they do not, a situation is *)
(* a pair of places: the server's in the layer that identifies the user    *)
(* (Serving) and the viewer's, which has come to the same layer            *)
(* (Identifying) or has one message to read first (Behind).                *)
(*                                                                         *)
(* A handler starts from its side and writes messages (Of).  It has a      *)
(* lemma for each operator that it is made of; then each situation has one *)
(* for each step that can leave it, and the lemma for an action joins them.*)
(***************************************************************************)
\* A sequence, of whatever.
IsSeq(q) == \E S : q \in Seq(S)

\* A sequence of elements of S is one.
LEMMA SomeSeq ==
  ASSUME NEW q, NEW S, q \in Seq(S)
  PROVE  IsSeq(q)
BY DEF IsSeq

\* The sequences that are written here.
LEMMA ShortSeq ==
  ASSUME NEW a, NEW b
  PROVE  IsSeq(<<>>) /\ IsSeq(<<a>>) /\ IsSeq(<<a, b>>)
<1> DEFINE S == {a, b}
<1>1. <<>> \in Seq(S) /\ <<a>> \in Seq(S) /\ <<a, b>> \in Seq(S)
  OBVIOUS
<1> HIDE DEF S
<1> QED BY <1>1, SomeSeq, Zenon

\* Of elements of a larger set as well.
LEMMA MoreSeq ==
  ASSUME NEW S, NEW T, NEW q \in Seq(S)
  PROVE  q \in Seq(S \cup T)
OBVIOUS

\* Two of them are sequences of elements of one set.
LEMMA OneSet ==
  ASSUME NEW p, IsSeq(p), NEW q, IsSeq(q), NEW m
  PROVE  \E S : p \in Seq(S) /\ q \in Seq(S) /\ m \in S
<1>1. PICK S : p \in Seq(S)
  BY DEF IsSeq
<1>2. PICK T : q \in Seq(T)
  BY DEF IsSeq
<1> DEFINE U == S \cup (T \cup {m})
<1>3. p \in Seq(U)
  BY <1>1, MoreSeq, Zenon
<1>4. q \in Seq(T \cup (S \cup {m})) /\ T \cup (S \cup {m}) = U
  BY <1>2, MoreSeq
<1>5. m \in U
  OBVIOUS
<1> HIDE DEF U
<1> QED BY <1>3, <1>4, <1>5, Zenon

\* Two of them joined are one, and the empty one adds nothing.
LEMMA Joined ==
  ASSUME NEW p, IsSeq(p), NEW q, IsSeq(q)
  PROVE  /\ IsSeq(p \o q)
         /\ <<>> \o p = p /\ p \o <<>> = p
<1>1. PICK S : p \in Seq(S) /\ q \in Seq(S)
  BY OneSet, Zenon
<1>2. p \o q \in Seq(S) /\ <<>> \o p = p /\ p \o <<>> = p
  BY <1>1
<1> QED BY <1>2, SomeSeq, Zenon

\* Three may be joined from either end.
LEMMA JoinedThrice ==
  ASSUME NEW p, IsSeq(p), NEW q, IsSeq(q), NEW r, IsSeq(r)
  PROVE  (p \o q) \o r = p \o (q \o r)
<1>1. PICK S : p \in Seq(S) /\ q \in Seq(S)
  BY OneSet, Zenon
<1>2. PICK T : p \in Seq(T) /\ r \in Seq(T)
  BY OneSet, Zenon
<1>3. p \in Seq(S \cup T) /\ q \in Seq(S \cup T)
  BY <1>1, MoreSeq
<1>4. r \in Seq(T \cup S) /\ T \cup S = S \cup T
  BY <1>2, MoreSeq
<1> QED BY <1>3, <1>4, ConcatAssociative

\* Appending is joining with a sequence of one.
LEMMA AppendIs ==
  ASSUME NEW q, IsSeq(q), NEW m
  PROVE  /\ Append(q, m) = q \o <<m>> /\ IsSeq(q \o <<m>>)
         /\ q \o <<m>> # <<>>
<1>1. PICK S : q \in Seq(S) /\ m \in S
  BY OneSet, Zenon
<1>2. Append(q, m) = q \o <<m>> /\ q \o <<m>> \in Seq(S) /\ q \o <<m>> # <<>>
  BY <1>1, AppendIsConcat
<1> QED BY <1>2, SomeSeq, Zenon

\* Two sequences of one make a pair.
LEMMA PairIs ==
  ASSUME NEW a, NEW b
  PROVE  <<a>> \o <<b>> = <<a, b>>
<1> DEFINE s == <<a>> \o <<b>>
           S == {a, b}
<1>1. <<a>> \in Seq(S) /\ <<b>> \in Seq(S) /\ <<a, b>> \in Seq(S)
  OBVIOUS
<1>2. s \in Seq(S) /\ Len(s) = 2 /\ s[1] = a /\ s[2] = b
  BY <1>1
<1>3. Len(<<a, b>>) = 2 /\ <<a, b>>[1] = a /\ <<a, b>>[2] = b
  OBVIOUS
<1> HIDE DEF s, S
<1>4. \A i \in 1 .. Len(s) : s[i] = <<a, b>>[i]
  BY <1>2, <1>3
<1>5. <<a, b>> \in Seq(S)
  BY <1>1
<1>6. s = <<a, b>>
  BY <1>2, <1>3, <1>4, <1>5, SeqEqual
<1> QED BY <1>6 DEF s

\* What is read first, and what is left then.
LEMMA HeadOf ==
  ASSUME NEW m, NEW q, IsSeq(q)
  PROVE  /\ Head(<<m>>) = m /\ Tail(<<m>>) = <<>> /\ <<m>> # <<>>
         /\ Head(<<m>> \o q) = m /\ Tail(<<m>> \o q) = q /\ <<m>> \o q # <<>>
<1>1. PICK S : q \in Seq(S) /\ m \in S
  BY OneSet, Zenon
<1>2. Head(<<m>>) = m /\ Tail(<<m>>) = <<>> /\ <<m>> # <<>>
  OBVIOUS
<1>3. <<m>> \in Seq(S)
  BY <1>1
<1>4. Head(<<m>> \o q) = m /\ <<m>> \o q # <<>>
  BY <1>1, <1>3
<1>5. Tail(<<m>> \o q) = q
  <2>1. Len(Tail(<<m>> \o q)) = Len(q) /\ Tail(<<m>> \o q) \in Seq(S)
    BY <1>1, <1>3
  <2>2. \A i \in 1 .. Len(q) : Tail(<<m>> \o q)[i] = q[i]
    BY <1>1, <1>3
  <2> QED BY <2>1, <2>2, <1>1, SeqEqual
<1> QED BY <1>2, <1>4, <1>5

-----------------------------------------------------------------------------
\* The first that both know is one that both know.
LEMMA FirstOfIs ==
  ASSUME NEW S, NEW offered \in Seq(S), NEW known, Range(offered) \cap known # {}
  PROVE  FirstOf(offered, known) \in Range(offered) \cap known
<1> DEFINE places == {i \in DOMAIN offered : offered[i] \in known}
           First(i) == \A j \in places : i <= j
<1>1. places \subseteq Nat /\ places # {}
  BY DEF Range
<1>2. PICK i \in places : \A j \in places : ~ (<<j, i>> \in OpToRel(<, Nat))
  <2> HIDE DEF places
  <2> QED BY <1>1, NatLessThanWellFounded, WFMin, Zenon
<1>3. \A j \in places : ~ (j < i)
  BY <1>1, <1>2 DEF OpToRel
<1>4. First(i)
  BY <1>1, <1>3
<1>5. FirstOf(offered, known) = offered[CHOOSE k \in places : First(k)]
  BY DEF FirstOf
<1> DEFINE k == CHOOSE k \in places : First(k)
<1>6. k \in places
  <2> HIDE DEF First, places
  <2> QED BY <1>4
<1>7. offered[k] \in known /\ k \in DOMAIN offered
  BY <1>6
<1>8. offered[k] \in Range(offered)
  <2> HIDE DEF k
  <2> QED BY <1>7 DEF Range
<1> QED BY <1>5, <1>7, <1>8

\* Where the first that is offered is known it is chosen.
LEMMA FirstIsFirst ==
  ASSUME NEW S, NEW a \in S, NEW q \in Seq(S), NEW known, a \in known
  PROVE  FirstOf(<<a>> \o q, known) = a
<1> DEFINE offered == <<a>> \o q
           places == {i \in DOMAIN offered : offered[i] \in known}
           First(i) == \A j \in places : i <= j
<1>1. <<a>> \in Seq(S) /\ offered \in Seq(S) /\ offered[1] = a /\ Len(offered) >= 1 /\ Len(offered) \in Nat
  OBVIOUS
<1>2. 1 \in places /\ places \subseteq Nat \ {0}
  <2> HIDE DEF offered
  <2> QED BY <1>1
<1>3. First(1)
  <2> HIDE DEF places
  <2> QED BY <1>2
<1>4. \A k \in places : First(k) => k = 1
  <2> HIDE DEF places
  <2> QED BY <1>2
<1>5. (CHOOSE k \in places : First(k)) = 1
  <2> HIDE DEF places, First
  <2> QED BY <1>2, <1>3, <1>4
<1>6. FirstOf(offered, known) = offered[CHOOSE k \in places : First(k)]
  BY DEF FirstOf
<1> HIDE DEF places, First, offered
<1>7. FirstOf(offered, known) = a
  BY <1>1, <1>5, <1>6
<1> QED BY <1>7 DEF offered

\* The lists of types.
LEMMA TypeLists ==
  ASSUME NEW s \in Settings
  PROVE  /\ s.serverTypes \in Seq(SecType) /\ s.viewerTypes \in Seq(SecType)
         /\ Range(s.serverTypes) \subseteq SecType /\ Range(s.viewerTypes) \subseteq SecType
<1>1. s.serverTypes \in ServerTypes /\ s.viewerTypes \in ViewerTypes
  BY DEF Settings
<1>2. s.serverTypes \in Seq(SecType) /\ s.viewerTypes \in Seq(SecType)
  BY <1>1, TypesAssumption
<1>3. \A q \in Seq(SecType) : Range(q) \subseteq SecType
  BY DEF Range
<1> QED BY <1>2, <1>3

\* The types the server offers: VeNCrypt is among them and the first of them.
LEMMA EnabledIs ==
  ASSUME NEW types \in Seq(SecType)
  PROVE  /\ EnabledSecTypes(types) \in Seq(SecType \cup {"VeNCrypt"})
         /\ Range(EnabledSecTypes(types)) = {"VeNCrypt"} \cup Range(types)
         /\ \A known : "VeNCrypt" \in known => FirstOf(EnabledSecTypes(types), known) = "VeNCrypt"
<1> DEFINE S == SecType \cup {"VeNCrypt"}
           v == "VeNCrypt"
           e == <<v>> \o types
<1>1. types \in Seq(S) /\ v \in S
  BY MoreSeq
<1> HIDE DEF S, v
<1>2. e \in Seq(S) /\ Len(e) = 1 + Len(types) /\ e[1] = v
      /\ \A i \in 1 .. Len(types) : e[i + 1] = types[i]
  BY <1>1
<1>3. Range(e) = {v} \cup Range(types)
  <2>1. \A i \in DOMAIN e : e[i] \in {v} \cup Range(types)
    <3> SUFFICES ASSUME NEW i \in DOMAIN e PROVE e[i] \in {v} \cup Range(types)
      OBVIOUS
    <3>1. i \in 1 .. Len(e) /\ Len(types) \in Nat
      BY <1>2
    <3>2. CASE i = 1
      BY <3>2, <1>2
    <3>3. CASE i # 1
      <4>1. i - 1 \in 1 .. Len(types) /\ e[i] = types[i - 1]
        <5>1. i - 1 \in 1 .. Len(types) /\ (i - 1) + 1 = i
          BY <3>1, <3>3, <1>2
        <5> QED BY <5>1, <1>2
      <4> QED BY <4>1 DEF Range
    <3> QED BY <3>2, <3>3
  <2>2. v \in Range(e)
    <3>1. 1 \in DOMAIN e
      BY <1>2
    <3> QED BY <3>1, <1>2 DEF Range
  <2>3. \A i \in DOMAIN types : types[i] \in Range(e)
    <3> SUFFICES ASSUME NEW i \in DOMAIN types PROVE types[i] \in Range(e)
      OBVIOUS
    <3>1. i \in 1 .. Len(types) /\ i + 1 \in DOMAIN e /\ e[i + 1] = types[i]
      BY <1>2
    <3> HIDE DEF e
    <3> QED BY <3>1 DEF Range
  <2> HIDE DEF e
  <2> QED BY <2>1, <2>2, <2>3 DEF Range
<1>4. ASSUME NEW known, v \in known
      PROVE  FirstOf(e, known) = v
  BY <1>1, <1>4, FirstIsFirst
<1>5. e = EnabledSecTypes(types)
  BY DEF EnabledSecTypes, v
<1> QED BY <1>2, <1>3, <1>4, <1>5 DEF v, S

\* What the viewer may choose of what it is offered.
LEMMA KnownIs ==
  ASSUME NEW types \in Seq(SecType)
  PROVE  KnownTypes(types) = {"VeNCrypt"} \cup (Range(types) \cap LegacyTypes)
<1>1. \A q \in Seq(SecType) : Range(q) \subseteq SecType
  BY DEF Range
<1>2. "VeNCrypt" \notin SecType
  BY DEF SecType, VeNCryptType
<1> QED BY <1>1, <1>2, EnabledIs DEF KnownTypes, LegacyTypes

-----------------------------------------------------------------------------
\* A side, and what it has written.
Of(c, out) == [c |-> c, out |-> out]

\* Its two parts; a handler begins with nothing written.
LEMMA OfIs ==
  ASSUME NEW c, NEW out
  PROVE  Of(c, out).c = c /\ Of(c, out).out = out /\ Begun(c) = Of(c, <<>>)
BY DEF Of, Begun

\* What it writes comes behind what it has written, from its stream.
LEMMA WroteIs ==
  ASSUME NEW c, NEW out, IsSeq(out), NEW type, NEW value
  PROVE  /\ Wrote(Of(c, out), type, value) = Of(c, out \o <<Message(type, value, c.tls)>>)
         /\ IsSeq(out \o <<Message(type, value, c.tls)>>)
<1>1. Wrote(Of(c, out), type, value) = Of(c, Append(out, Message(type, value, c.tls)))
  BY DEF Wrote, Of
<1> QED BY <1>1, AppendIs

\* It closes the connection.
LEMMA EndedIs ==
  ASSUME NEW c, NEW out
  PROVE  Ended(Of(c, out)) = Of([c EXCEPT !.state = "closed"], out)
BY DEF Ended, Of

\* It waits for a message of a security type.
LEMMA AwaitsIs ==
  ASSUME NEW c, NEW out, NEW m
  PROVE  Awaits(Of(c, out), m) = Of([c EXCEPT !.state = "security", !.waits = m], out)
<1> DEFINE st == Of(c, out)
<1>1. st.c = c /\ st = [c |-> c, out |-> out]
  BY DEF Of
<1>2. Awaits(st, m) = [st EXCEPT !.c = [c EXCEPT !.state = "security", !.waits = m]]
  <2> HIDE DEF st
  <2> QED BY <1>1 DEF Awaits
<1> QED BY <1>2 DEF Of

\* A field of the side is changed: its state,
LEMMA OfState ==
  ASSUME NEW c, NEW out, NEW x
  PROVE  [Of(c, out) EXCEPT !.c.state = x] = Of([c EXCEPT !.state = x], out)
BY DEF Of

\* the type agreed on,
LEMMA OfType ==
  ASSUME NEW c, NEW out, NEW x
  PROVE  [Of(c, out) EXCEPT !.c.type = x] = Of([c EXCEPT !.type = x], out)
BY DEF Of

\* the streams,
LEMMA OfTLS ==
  ASSUME NEW c, NEW out, NEW x
  PROVE  [Of(c, out) EXCEPT !.c.tls = x] = Of([c EXCEPT !.tls = x], out)
BY DEF Of

\* the rights.
LEMMA OfRights ==
  ASSUME NEW c, NEW out, NEW x
  PROVE  [Of(c, out) EXCEPT !.c.rights = x] = Of([c EXCEPT !.rights = x], out)
BY DEF Of

\* A side is as another, but for what is told of it.
Like(d, c, state) ==
  /\ d.state = state /\ d.version = c.version /\ d.type = c.type
  /\ d.waits = c.waits /\ d.tls = c.tls

\* The viewer's state changes, and nothing else of it.
LEMMA CCState ==
  ASSUME NEW c \in CC, NEW x \in {"version", "types", "security", "result", "init", "normal", "closed"}
  PROVE  [c EXCEPT !.state = x] \in CC /\ Like([c EXCEPT !.state = x], c, x)
BY DEF CC, Like

\* The same of the server.
LEMMA SCState ==
  ASSUME NEW c \in SC, NEW x \in {"version", "type", "security", "querying", "init", "normal", "closed"}
  PROVE  /\ [c EXCEPT !.state = x] \in SC /\ Like([c EXCEPT !.state = x], c, x)
         /\ [c EXCEPT !.state = x].rights = c.rights
BY DEF SC, Like

\* The viewer's type is set.
LEMMA CCType ==
  ASSUME NEW c \in CC, NEW x \in SecType \cup {"VeNCrypt"}
  PROVE  /\ [c EXCEPT !.type = x] \in CC
         /\ [c EXCEPT !.type = x].type = x
         /\ [c EXCEPT !.type = x].state = c.state
         /\ [c EXCEPT !.type = x].version = c.version
         /\ [c EXCEPT !.type = x].waits = c.waits
         /\ [c EXCEPT !.type = x].tls = c.tls
BY DEF CC

\* The server's.
LEMMA SCType ==
  ASSUME NEW c \in SC, NEW x \in SecType \cup {"VeNCrypt"}
  PROVE  /\ [c EXCEPT !.type = x] \in SC
         /\ [c EXCEPT !.type = x].type = x
         /\ [c EXCEPT !.type = x].state = c.state
         /\ [c EXCEPT !.type = x].version = c.version
         /\ [c EXCEPT !.type = x].waits = c.waits
         /\ [c EXCEPT !.type = x].tls = c.tls
         /\ [c EXCEPT !.type = x].rights = c.rights
BY DEF SC

\* The server knows what the user may do.
LEMMA SCRights ==
  ASSUME NEW c \in SC, NEW x \in SUBSET {"view", "control"}
  PROVE  /\ [c EXCEPT !.rights = x] \in SC
         /\ [c EXCEPT !.rights = x].rights = x
         /\ Like([c EXCEPT !.rights = x], c, c.state)
BY DEF SC, Like

\* Waiting for a message of a security type.
WaitsFor(d, c, m) ==
  /\ d.state = "security" /\ d.waits = m /\ d.version = c.version
  /\ d.type = c.type /\ d.tls = c.tls

\* The viewer waits for m.
LEMMA CCWaits ==
  ASSUME NEW c \in CC, NEW m \in Awaited
  PROVE  /\ [c EXCEPT !.state = "security", !.waits = m] \in CC
         /\ WaitsFor([c EXCEPT !.state = "security", !.waits = m], c, m)
<1> DEFINE d == [c EXCEPT !.state = "security"]
<1>1. d \in CC /\ Like(d, c, "security")
  BY CCState
<1>2. [d EXCEPT !.waits = m] = [c EXCEPT !.state = "security", !.waits = m]
  OBVIOUS
<1>3. [d EXCEPT !.waits = m] \in CC /\ WaitsFor([d EXCEPT !.waits = m], c, m)
  <2> HIDE DEF d
  <2> QED BY <1>1 DEF CC, WaitsFor, Like
<1> HIDE DEF d
<1> QED BY <1>2, <1>3, Zenon

\* The server does.
LEMMA SCWaits ==
  ASSUME NEW c \in SC, NEW m \in Awaited
  PROVE  /\ [c EXCEPT !.state = "security", !.waits = m] \in SC
         /\ WaitsFor([c EXCEPT !.state = "security", !.waits = m], c, m)
         /\ [c EXCEPT !.state = "security", !.waits = m].rights = c.rights
<1> DEFINE d == [c EXCEPT !.state = "security"]
<1>1. d \in SC /\ Like(d, c, "security") /\ d.rights = c.rights
  BY SCState
<1>2. [d EXCEPT !.waits = m] = [c EXCEPT !.state = "security", !.waits = m]
  OBVIOUS
<1>3. /\ [d EXCEPT !.waits = m] \in SC /\ WaitsFor([d EXCEPT !.waits = m], c, m)
      /\ [d EXCEPT !.waits = m].rights = c.rights
  <2> HIDE DEF d
  <2> QED BY <1>1 DEF SC, WaitsFor, Like
<1> HIDE DEF d
<1> QED BY <1>2, <1>3, Zenon

\* The parts of a message.
LEMMA MessageIs ==
  ASSUME NEW type, NEW value, NEW tls
  PROVE  /\ Message(type, value, tls).type = type
         /\ Message(type, value, tls).value = value
         /\ Message(type, value, tls).tls = tls
BY DEF Message

\* What a side says in the handshake, before and after the streams are encrypted.
Waits(c, message) == c.state = "security" /\ c.waits = message
Clear(type, value) == Message(type, value, FALSE)

\* The two queues.
Queues(down, up) == fromServer = down /\ fromViewer = up

\* Whom the server lets pass.
Passed(s, c) ==
  /\ c.type \in Range(s.serverTypes)
  /\ c.tls <=> Encryption(c.type) # "none"
  /\ c.rights = IF Credential(c.type) = "none" THEN Default
                ELSE Granted(Credential(c.type), s.knows)
  /\ c.rights # {} /\ s.query # "refuses"

\* The results of a server that has refused, and may have told so twice.
Failures(tls) ==
  LET failure == Message("Result", FALSE, tls)
  IN {<<>>, <<failure>>, <<failure, failure>>}

\* What a server has said that has judged the viewer.
Judged(s, c, said) ==
  \/ c.state = "querying" /\ said = <<>> /\ Passed(s, c)
  \/ /\ c.state = "init" /\ Passed(s, c)
     /\ said = IF HasResult(c) THEN <<Message("Result", TRUE, c.tls)>> ELSE <<>>
  \/ c.state = "closed" /\ said \in Failures(c.tls)

\* The server is at the layer of type t that identifies the user, and has said so much.
Serving(s, c, said, t) ==
  /\ c.version = s.version /\ c.type = t /\ t \in Range(s.serverTypes)
  /\ c.tls <=> Encryption(t) # "none"
  /\ \/ Credential(t) = "none" /\ Judged(s, c, said)
     \/ /\ Credential(t) = "password" /\ Waits(c, "Response")
        /\ said = <<Message("Challenge", "", c.tls)>>
     \/ Credential(t) = "login" /\ Waits(c, "Login") /\ said = <<>>

\* The viewer has got to the same layer, and has said so much there.
Identifying(s, c, said, t) ==
  /\ c.version = s.version /\ c.type = t /\ t \in Range(s.viewerTypes)
  /\ c.tls <=> Encryption(t) # "none"
  /\ \/ /\ Credential(t) = "none"
        /\ IF HasResult(c) THEN c.state = "result" /\ said = <<>>
           ELSE c.state = "init" /\ said = <<Message("ClientInit", "", c.tls)>>
     \/ Credential(t) = "password" /\ Waits(c, "Challenge") /\ said = <<>>
     \/ /\ Credential(t) = "login" /\ c.state = "result"
        /\ said = <<Message("Login", s.knows, c.tls)>>

\* The viewer has to read pre before it gets there.
Behind(s, c, pre, t) ==
  \/ /\ s.version = 3 /\ t \in LegacyTypes
     /\ c.state = "types" /\ c.version = 3 /\ ~c.tls
     /\ pre = Clear("Chosen", <<t>>)
  \/ /\ s.version = 8 /\ Encryption(t) # "none" /\ t \in Range(s.viewerTypes)
     /\ Waits(c, "ServerFinished") /\ c.version = 8 /\ c.type = t /\ ~c.tls
     /\ pre = Clear("ServerFinished", "")

\* Both have agreed on everything.
Agreed == /\ cc.version = setting.version /\ sc.version = setting.version
          /\ cc.type = sc.type /\ cc.tls = sc.tls /\ sc.type \in Range(setting.viewerTypes)
-----------------------------------------------------------------------------
\* The situations that a handshake goes through: what each side waits for, and all
\* that is under way.
OfferingVersion ==
  /\ cc.state = "version" /\ ~cc.tls
  /\ \/ /\ sc.state = "version" /\ ~sc.tls /\ sc.version = setting.version
        /\ Queues(<<Clear("Version", setting.version)>>, <<>>)
     \/ /\ sc.state = "closed"
        /\ Queues(<<Clear("Version", 3), Clear("Refused", "")>>, <<>>)

Refused == /\ cc.state = "types" /\ ~cc.tls /\ cc.version = 3
           /\ sc.state = "closed" /\ fromServer = <<Clear("Refused", "")>>

ChoosingVersion ==
  /\ cc.state = "types" /\ ~cc.tls /\ cc.version = setting.version
  /\ sc.state = "version" /\ ~sc.tls
  /\ Queues(<<>>, <<Clear("Version", setting.version)>>)

Modern == setting.version = 8 /\ cc.version = 8 /\ sc.version = 8 /\ ~cc.tls /\ ~sc.tls

OfferingTypes ==
  /\ Modern /\ cc.state = "types" /\ sc.state = "type"
  /\ Queues(<<Clear("Types", EnabledSecTypes(setting.serverTypes))>>, <<>>)

ChoosingType ==
  /\ Modern /\ Waits(cc, "VeNCryptVersion") /\ sc.state = "type"
  /\ Queues(<<>>, <<Clear("Type", "VeNCrypt")>>)

OfferingVeNCrypt ==
  /\ Modern /\ Waits(cc, "VeNCryptVersion") /\ Waits(sc, "VeNCryptVersion")
  /\ Queues(<<Clear("VeNCryptVersion", "")>>, <<>>)

ChoosingVeNCrypt ==
  /\ Modern /\ Waits(cc, "SubTypes") /\ Waits(sc, "VeNCryptVersion")
  /\ Queues(<<>>, <<Clear("VeNCryptVersion", "")>>)

OfferingSubTypes ==
  /\ Modern /\ Waits(cc, "SubTypes") /\ Waits(sc, "SubType")
  /\ Queues(<<Clear("SubTypes", setting.serverTypes)>>, <<>>)

\* The viewer goes on as soon as it has chosen.
ChoosingSubType ==
  \E t \in Range(setting.serverTypes) \cap Range(setting.viewerTypes) :
    /\ Modern /\ Waits(sc, "SubType") /\ fromServer = <<>>
    /\ \/ /\ Encryption(t) # "none" /\ Waits(cc, "TLSReady") /\ cc.type = t
          /\ fromViewer = <<Clear("SubType", t)>>
       \/ \E said : /\ Encryption(t) = "none" /\ Identifying(setting, cc, said, t)
                    /\ fromViewer = <<Clear("SubType", t)>> \o said

\* The TLS handshake.
Encrypting ==
  /\ Modern /\ cc.type = sc.type
  /\ sc.type \in Range(setting.serverTypes) \cap Range(setting.viewerTypes)
  /\ Encryption(sc.type) # "none"
  /\ \/ /\ Waits(cc, "TLSReady") /\ Waits(sc, "ClientHello")
        /\ Queues(<<Clear("TLSReady", TRUE)>>, <<>>)
     \/ /\ Waits(cc, "ServerHello") /\ Waits(sc, "ClientHello")
        /\ Queues(<<>>, <<Clear("ClientHello", "")>>)
     \/ /\ Waits(cc, "ServerHello") /\ Waits(sc, "ClientFinished")
        /\ Queues(<<Clear("ServerHello", "")>>, <<>>)
     \/ /\ Waits(cc, "ServerFinished") /\ Waits(sc, "ClientFinished")
        /\ Queues(<<>>, <<Clear("ClientFinished", "")>>)

NotReady == /\ Waits(cc, "TLSReady") /\ ~cc.tls /\ sc.state = "closed"
            /\ fromServer = <<Clear("TLSReady", FALSE), Clear("Result", FALSE)>>

ViewerBehind ==
  \E t, pre, said :
     /\ t \in SecType
     /\ Behind(setting, cc, pre, t) /\ Serving(setting, sc, said, t)
     /\ Queues(<<pre>> \o said, <<>>)

BothIdentify ==
  \E t \in SecType : Serving(setting, sc, fromServer, t) /\ Identifying(setting, cc, fromViewer, t)

Responding == /\ Agreed /\ Credential(sc.type) = "password"
              /\ sc.type \in Range(setting.serverTypes)
              /\ sc.tls <=> Encryption(sc.type) # "none"
              /\ cc.state = "result" /\ Waits(sc, "Response")
              /\ Queues(<<>>, <<Message("Response", setting.knows, cc.tls)>>)

\* The viewer has said all, and waits to be let in.
Waiting == /\ Agreed /\ cc.state = "result" /\ Judged(setting, sc, fromServer)
           /\ HasResult(sc) /\ fromViewer = <<>>

Entering == /\ Agreed /\ cc.state = "init" /\ sc.state = "init" /\ Passed(setting, sc)
            /\ Queues(<<>>, <<Message("ClientInit", "", cc.tls)>>)

Entered ==
  \/ /\ sc.state = "normal" /\ cc.state = "init" /\ cc.tls = sc.tls
     /\ Queues(<<Message("ServerInit", "", cc.tls)>>, <<>>)
  \/ sc.state = "normal" /\ cc.state = "normal" /\ Queues(<<>>, <<>>)

\* The server closes a connection that it has let in.
TurnedAway == cc.state = "init" /\ sc.state = "closed" /\ fromServer = <<>>

ViewerGone ==
  /\ cc.state = "closed"
  /\ \/ sc.state = "closed"
     \/ fromViewer = <<>> /\ (sc.state \in {"querying", "init"} => Passed(setting, sc))
     \/ \E t \in Range(setting.serverTypes) :
           /\ Waits(sc, "SubType") /\ sc.version = 8 /\ setting.version = 8 /\ ~sc.tls
           /\ fromViewer = <<Clear("SubType", t)>>

Situation ==
  \/ OfferingVersion \/ Refused \/ ChoosingVersion \/ OfferingTypes \/ ChoosingType
  \/ OfferingVeNCrypt \/ ChoosingVeNCrypt \/ OfferingSubTypes \/ ChoosingSubType
  \/ Encrypting \/ NotReady \/ ViewerBehind \/ BothIdentify \/ Responding \/ Waiting
  \/ Entering \/ Entered \/ TurnedAway \/ ViewerGone

ShakeInv == HandshakeTypeOK /\ Situation
-----------------------------------------------------------------------------
\* The viewer's streams are replaced, and nothing else of it changes.
LEMMA CCEncrypted ==
  ASSUME NEW c \in CC
  PROVE  /\ [c EXCEPT !.tls = TRUE] \in CC
         /\ [c EXCEPT !.tls = TRUE].tls
         /\ [c EXCEPT !.tls = TRUE].state = c.state
         /\ [c EXCEPT !.tls = TRUE].type = c.type
         /\ [c EXCEPT !.tls = TRUE].version = c.version
<1> DEFINE b == TRUE
           d == [c EXCEPT !.tls = b]
<1>1. b \in BOOLEAN
  OBVIOUS
<1> HIDE DEF b
<1>2. d \in CC /\ d.tls = b /\ d.state = c.state /\ d.type = c.type /\ d.version = c.version
  BY <1>1 DEF CC
<1>3. [c EXCEPT !.tls = TRUE] = d
  BY DEF b
<1> HIDE DEF d
<1>4. d.tls
  BY <1>2 DEF b
<1> QED BY <1>2, <1>3, <1>4, Zenon

\* The server's are.
LEMMA SCEncrypted ==
  ASSUME NEW c \in SC
  PROVE  /\ [c EXCEPT !.tls = TRUE] \in SC
         /\ [c EXCEPT !.tls = TRUE].tls
         /\ [c EXCEPT !.tls = TRUE].state = c.state
         /\ [c EXCEPT !.tls = TRUE].type = c.type
         /\ [c EXCEPT !.tls = TRUE].version = c.version
         /\ [c EXCEPT !.tls = TRUE].rights = c.rights
<1> DEFINE b == TRUE
           d == [c EXCEPT !.tls = b]
<1>1. b \in BOOLEAN
  OBVIOUS
<1> HIDE DEF b
<1>2. d \in SC /\ d.tls = b /\ d.state = c.state /\ d.type = c.type /\ d.version = c.version
      /\ d.rights = c.rights
  BY <1>1 DEF SC
<1>3. [c EXCEPT !.tls = TRUE] = d
  BY DEF b
<1> HIDE DEF d
<1>4. d.tls
  BY <1>2 DEF b
<1> QED BY <1>2, <1>3, <1>4, Zenon

\* What the types are made of.
LEMMA CredentialIs ==
  ASSUME NEW t \in SecType
  PROVE  /\ Credential(t) \in {"none", "password", "login"}
         /\ Encryption(t) \in {"none", "anonymous", "certificate"}
         /\ t = "None" => Credential(t) = "none" /\ Encryption(t) = "none"
         /\ Credential(t) = "login" => t # "None"
         /\ Credential(t) = "password" => t # "None"
         /\ t # "VeNCrypt"
BY DEF SecType, VeNCryptType, Credential, Encryption

\* The viewer closes the connection.
LEMMA ViewerEnded ==
  ASSUME NEW c \in CC, NEW out
  PROVE  /\ Ended(Of(c, out)).c \in CC /\ Like(Ended(Of(c, out)).c, c, "closed")
         /\ Ended(Of(c, out)).c.state = "closed" /\ Ended(Of(c, out)).out = out
<1> DEFINE d == [c EXCEPT !.state = "closed"]
<1>1. d \in CC /\ Like(d, c, "closed")
  BY CCState
<1>2. Ended(Of(c, out)) = Of(d, out)
  BY EndedIs
<1> HIDE DEF d
<1>3. d.state = "closed"
  BY <1>1 DEF Like
<1> QED BY <1>1, <1>2, <1>3, OfIs

\* The server does.
LEMMA ServerEnded ==
  ASSUME NEW c \in SC, NEW out
  PROVE  /\ Ended(Of(c, out)).c \in SC /\ Like(Ended(Of(c, out)).c, c, "closed")
         /\ Ended(Of(c, out)).c.state = "closed" /\ Ended(Of(c, out)).out = out
<1> DEFINE d == [c EXCEPT !.state = "closed"]
<1>1. d \in SC /\ Like(d, c, "closed")
  BY SCState
<1>2. Ended(Of(c, out)) = Of(d, out)
  BY EndedIs
<1> HIDE DEF d
<1>3. d.state = "closed"
  BY <1>1 DEF Like
<1> QED BY <1>1, <1>2, <1>3, OfIs

\* The viewer goes on to ClientInit.
LEMMA SecurityCompletedIs ==
  ASSUME NEW c \in CC, NEW out, IsSeq(out)
  PROVE  SecurityCompleted(Of(c, out))
           = Of([c EXCEPT !.state = "init"], out \o <<Message("ClientInit", "", c.tls)>>)
<1> DEFINE d == [c EXCEPT !.state = "init"]
<1>1. [Of(c, out) EXCEPT !.c.state = "init"] = Of(d, out)
  BY OfState
<1>2. d.tls = c.tls
  BY CCState DEF Like
<1> HIDE DEF d
<1>3. Wrote(Of(d, out), "ClientInit", "") = Of(d, out \o <<Message("ClientInit", "", d.tls)>>)
  BY WroteIs
<1>4. SecurityCompleted(Of(c, out)) = Wrote(Of(d, out), "ClientInit", "")
  BY <1>1 DEF SecurityCompleted
<1>5. SecurityCompleted(Of(c, out)) = Of(d, out \o <<Message("ClientInit", "", c.tls)>>)
  BY <1>2, <1>3, <1>4
<1> QED BY <1>5 DEF d

\* The viewer has passed its last layer: it waits for the result or goes on.
LEMMA LayersPassedIs ==
  ASSUME NEW c \in CC, NEW out, IsSeq(out)
  PROVE  /\ HasResult(c) => LayersPassed(Of(c, out)) = Of([c EXCEPT !.state = "result"], out)
         /\ ~HasResult(c) =>
              LayersPassed(Of(c, out))
                = Of([c EXCEPT !.state = "init"], out \o <<Message("ClientInit", "", c.tls)>>)
<1>1. Of(c, out).c = c
  BY OfIs
<1> QED BY <1>1, OfState, SecurityCompletedIs DEF LayersPassed

\* The viewer has gone through its handler for the layer that identifies the user.
Identified(st, out, t) ==
  /\ st.c \in CC
  /\ \/ st.c.state = "closed" /\ st.out = out
     \/ \E said : /\ IsSeq(said) /\ st.out = out \o said
                  /\ Identifying(setting, st.c, said, t)

AtLayer(s, c, t) == c.version = s.version /\ c.type = t /\ (c.tls <=> Encryption(t) # "none")

\* The viewer's handler, for a type that it has enabled.
LEMMA IdentifyIs ==
  ASSUME NEW c \in CC, NEW out, IsSeq(out), NEW t \in SecType,
         t \in Range(setting.viewerTypes), AtLayer(setting, c, t),
         NEW st \in Identify(Of(c, out))
  PROVE  Identified(st, out, t)
<1>1. Of(c, out).c = c /\ c.type = t
  BY OfIs DEF AtLayer
<1>2. out \o <<>> = out /\ IsSeq(<<>>)
  BY Joined, ShortSeq
<1>3. CASE Credential(t) = "none"
  <2>1. st = LayersPassed(Of(c, out))
    BY <1>1, <1>3 DEF Identify
  <2>2. CASE HasResult(c)
    <3> DEFINE d == [c EXCEPT !.state = "result"]
    <3>1. st = Of(d, out) /\ d \in CC /\ Like(d, c, "result")
      BY <2>1, <2>2, LayersPassedIs, CCState
    <3> HIDE DEF d
    <3>2. st.c = d /\ st.out = out \o <<>>
      BY <3>1, <1>2, OfIs
    <3>3. HasResult(d)
      BY <3>1, <2>2 DEF HasResult, Like
    <3>4. Identifying(setting, d, <<>>, t)
      BY <3>1, <3>3, <1>3 DEF Identifying, AtLayer, Like
    <3> QED BY <3>1, <3>2, <3>4, <1>2 DEF Identified
  <2>3. CASE ~HasResult(c)
    <3> DEFINE d == [c EXCEPT !.state = "init"]
               said == <<Message("ClientInit", "", c.tls)>>
    <3>1. st = Of(d, out \o said) /\ d \in CC /\ Like(d, c, "init")
      BY <2>1, <2>3, LayersPassedIs, CCState
    <3>2. IsSeq(said)
      BY ShortSeq
    <3> HIDE DEF d
    <3>3. ~HasResult(d) /\ said = <<Message("ClientInit", "", d.tls)>>
      BY <3>1, <2>3 DEF HasResult, Like
    <3>4. Identifying(setting, d, said, t)
      <4> HIDE DEF said
      <4> QED BY <3>1, <3>3, <1>3 DEF Identifying, AtLayer, Like
    <3>5. st.c = d /\ st.out = out \o said
      BY <3>1, OfIs
    <3> HIDE DEF said
    <3> QED BY <3>1, <3>2, <3>4, <3>5 DEF Identified
  <2> QED BY <2>2, <2>3
<1>4. CASE Credential(t) = "password"
  <2> DEFINE d == [c EXCEPT !.state = "security", !.waits = "Challenge"]
  <2>1. st = Awaits(Of(c, out), "Challenge")
    BY <1>1, <1>4 DEF Identify
  <2>2. "Challenge" \in Awaited
    BY DEF Awaited
  <2>3. st = Of(d, out) /\ d \in CC /\ WaitsFor(d, c, "Challenge")
    BY <2>1, <2>2, AwaitsIs, CCWaits
  <2> HIDE DEF d
  <2>4. st.c = d /\ st.out = out \o <<>>
    BY <2>3, <1>2, OfIs
  <2>5. Identifying(setting, d, <<>>, t)
    BY <2>3, <1>4 DEF Identifying, AtLayer, WaitsFor, Waits
  <2> QED BY <2>3, <2>4, <2>5, <1>2 DEF Identified
<1>5. CASE Credential(t) = "login"
  <2>1. \/ st = LayersPassed(Wrote(Of(c, out), "Login", setting.knows))
        \/ st = Ended(Of(c, out))
    BY <1>1, <1>5 DEF Identify
  <2>2. CASE st = Ended(Of(c, out))
    BY <2>2, ViewerEnded DEF Identified
  <2>3. CASE st = LayersPassed(Wrote(Of(c, out), "Login", setting.knows))
    <3> DEFINE said == <<Message("Login", setting.knows, c.tls)>>
               d == [c EXCEPT !.state = "result"]
    <3>1. Wrote(Of(c, out), "Login", setting.knows) = Of(c, out \o said) /\ IsSeq(out \o said)
      BY WroteIs
    <3>2. IsSeq(said)
      BY ShortSeq
    <3>3. HasResult(c)
      BY <1>1, <1>5, CredentialIs DEF HasResult
    <3>4. d \in CC /\ Like(d, c, "result")
      BY CCState
    <3>5. said = <<Message("Login", setting.knows, d.tls)>>
      BY <3>4 DEF Like
    <3>6. st = Of(d, out \o said)
      <4> HIDE DEF said
      <4> QED BY <2>3, <3>1, <3>3, LayersPassedIs
    <3> HIDE DEF d
    <3>7. Identifying(setting, d, said, t)
      <4> HIDE DEF said
      <4> QED BY <3>4, <3>5, <1>5 DEF Identifying, AtLayer, Like
    <3> HIDE DEF said
    <3>8. st.c = d /\ st.out = out \o said
      BY <3>6, OfIs
    <3> QED BY <3>2, <3>4, <3>7, <3>8 DEF Identified
  <2> QED BY <2>1, <2>2, <2>3
<1> QED BY <1>3, <1>4, <1>5, CredentialIs

-----------------------------------------------------------------------------
\* The server has judged the viewer: st is what has become of c.
JudgedAs(st, c, out) ==
  /\ st.c \in SC
  /\ st.c.version = c.version /\ st.c.type = c.type /\ st.c.tls = c.tls
  /\ \E said : /\ IsSeq(said) /\ st.out = out \o said
               /\ Judged(setting, st.c, said)

\* The server lets the viewer pass.
LEMMA ApproveIs ==
  ASSUME NEW c \in SC, NEW out, IsSeq(out), Passed(setting, c)
  PROVE  JudgedAs(Approve(Of(c, out)), c, out)
<1> DEFINE d == [c EXCEPT !.state = "init"]
           m == Message("Result", TRUE, c.tls)
<1>1. d \in SC /\ Like(d, c, "init") /\ d.rights = c.rights
  BY SCState
<1>2. Of(c, out).c = c
  BY OfIs
<1>3. /\ [Of(c, out) EXCEPT !.c.state = "init"] = Of(d, out)
      /\ [Of(c, out \o <<m>>) EXCEPT !.c.state = "init"] = Of(d, out \o <<m>>)
  BY OfState
<1>4. Wrote(Of(c, out), "Result", TRUE) = Of(c, out \o <<m>>)
  BY WroteIs
<1>5. Message("Result", TRUE, d.tls) = m
  BY <1>1 DEF Like
<1>6. Approve(Of(c, out)) = Of(d, IF HasResult(c) THEN out \o <<m>> ELSE out)
  <2> HIDE DEF d, m
  <2> QED BY <1>2, <1>3, <1>4 DEF Approve
<1> HIDE DEF d
<1>7. Passed(setting, d)
  BY <1>1 DEF Passed, Like
<1>8. HasResult(d) <=> HasResult(c)
  BY <1>1 DEF HasResult, Like
<1> DEFINE said == IF HasResult(c) THEN <<m>> ELSE <<>>
<1> HIDE DEF m
<1>9. IsSeq(said) /\ out \o said = IF HasResult(c) THEN out \o <<m>> ELSE out
  BY ShortSeq, Joined
<1>10. said = IF HasResult(d) THEN <<m>> ELSE <<>>
  BY <1>8
<1> HIDE DEF said
<1>11. Judged(setting, d, said)
  BY <1>1, <1>5, <1>7, <1>10 DEF Judged, Like
<1>12. Approve(Of(c, out)).c = d /\ Approve(Of(c, out)).out = out \o said
  BY <1>6, <1>9, OfIs
<1> QED BY <1>1, <1>9, <1>11, <1>12 DEF JudgedAs, Like

\* The server has refused it.
LEMMA RefusedAs ==
  ASSUME NEW c \in SC, NEW out, NEW said, IsSeq(said), said \in Failures(c.tls)
  PROVE  JudgedAs(Ended(Of(c, out \o said)), c, out)
<1> DEFINE st == Ended(Of(c, out \o said))
<1>1. st.c \in SC /\ Like(st.c, c, "closed") /\ st.out = out \o said
  BY ServerEnded
<1> HIDE DEF st
<1>2. Judged(setting, st.c, said)
  BY <1>1 DEF Judged, Like
<1>3. JudgedAs(st, c, out)
  BY <1>1, <1>2 DEF JudgedAs, Like
<1> QED BY <1>3 DEF st

\* It says so if there is a result.
LEMMA DisapproveIs ==
  ASSUME NEW c \in SC, NEW out, IsSeq(out)
  PROVE  \E said : /\ said \in {<<>>, <<Message("Result", FALSE, c.tls)>>}
                   /\ Disapprove(Of(c, out)) = Ended(Of(c, out \o said))
<1> DEFINE m == Message("Result", FALSE, c.tls)
           said == IF HasResult(c) THEN <<m>> ELSE <<>>
<1>1. Of(c, out).c = c
  BY OfIs
<1>2. Wrote(Of(c, out), "Result", FALSE) = Of(c, out \o <<m>>)
  BY WroteIs
<1>3. out \o <<>> = out
  BY Joined
<1> HIDE DEF m
<1>4. Disapprove(Of(c, out)) = Ended(Of(c, out \o said))
  BY <1>1, <1>2, <1>3 DEF Disapprove
<1>5. said \in {<<>>, <<m>>}
  OBVIOUS
<1> HIDE DEF said
<1> QED BY <1>4, <1>5 DEF m

\* What a server that has refused may have said.
LEMMA FailuresAre ==
  ASSUME NEW tls
  PROVE  /\ <<>> \in Failures(tls) /\ <<Message("Result", FALSE, tls)>> \in Failures(tls)
         /\ \A said \in {<<>>, <<Message("Result", FALSE, tls)>>} :
              /\ IsSeq(said)
              /\ said \o <<Message("Result", FALSE, tls)>> \in Failures(tls)
         /\ \A said \in Failures(tls) : IsSeq(said)
<1> DEFINE m == Message("Result", FALSE, tls)
<1>1. Failures(tls) = {<<>>, <<m>>, <<m, m>>}
  BY DEF Failures
<1> HIDE DEF m
<1>2. <<>> \o <<m>> = <<m>> /\ <<m>> \o <<m>> = <<m, m>>
  BY PairIs, ShortSeq, Joined
<1>3. \A said \in {<<>>, <<m>>} : IsSeq(said) /\ said \o <<m>> \in Failures(tls)
  BY <1>1, <1>2, ShortSeq
<1>4. \A said \in Failures(tls) : IsSeq(said)
  BY <1>1, ShortSeq
<1>5. <<>> \in Failures(tls) /\ <<m>> \in Failures(tls)
  BY <1>1
<1> QED BY <1>3, <1>4, <1>5 DEF m

\* A failed authentication tells so, and may tell so twice.
LEMMA AuthFailedIs ==
  ASSUME NEW c \in SC, NEW out, IsSeq(out)
  PROVE  /\ JudgedAs(AuthFailed(Of(c, out)), c, out)
         /\ AuthFailed(Of(c, out)).c.state = "closed"
<1> DEFINE m == Message("Result", FALSE, c.tls)
<1>1. Wrote(Of(c, out), "Result", FALSE) = Of(c, out \o <<m>>)
  BY WroteIs
<1>2. IsSeq(<<m>>) /\ <<m>> \in Failures(c.tls)
  BY FailuresAre, ShortSeq
<1> HIDE DEF m
<1>3. AuthFailed(Of(c, out)) = Ended(Of(c, out \o <<m>>))
  BY <1>1 DEF AuthFailed
<1>4. JudgedAs(Ended(Of(c, out \o <<m>>)), c, out)
  BY <1>2, RefusedAs
<1>5. Ended(Of(c, out \o <<m>>)).c.state = "closed"
  BY ServerEnded
<1> QED BY <1>3, <1>4, <1>5

\* A refusal by the local user's rules is told once or twice.
LEMMA RefuseIs ==
  ASSUME NEW c \in SC, NEW out, IsSeq(out)
  PROVE  /\ JudgedAs(Disapprove(Of(c, out)), c, out)
         /\ JudgedAs(AuthFailed(Disapprove(Of(c, out))), c, out)
<1> DEFINE m == Message("Result", FALSE, c.tls)
           d == [c EXCEPT !.state = "closed"]
<1>1. PICK said : said \in {<<>>, <<m>>} /\ Disapprove(Of(c, out)) = Ended(Of(c, out \o said))
  BY DisapproveIs
<1>2. IsSeq(said) /\ said \in Failures(c.tls) /\ said \o <<m>> \in Failures(c.tls)
  BY <1>1, FailuresAre
<1>3. JudgedAs(Disapprove(Of(c, out)), c, out)
  BY <1>1, <1>2, RefusedAs
<1>4. Disapprove(Of(c, out)) = Of(d, out \o said) /\ d \in SC /\ Like(d, c, "closed")
  BY <1>1, EndedIs, SCState
<1>5. Message("Result", FALSE, d.tls) = m
  BY <1>4 DEF Like
<1>6. IsSeq(out \o said) /\ IsSeq(<<m>>) /\ IsSeq(said \o <<m>>)
  BY <1>2, Joined, ShortSeq
<1> HIDE DEF d
<1> DEFINE told == out \o said
<1>7. Wrote(Of(d, out \o said), "Result", FALSE) = Of(d, (out \o said) \o <<m>>)
  <2>1. IsSeq(told)
    BY <1>6
  <2> HIDE DEF told, m
  <2>2. Wrote(Of(d, told), "Result", FALSE) = Of(d, told \o <<Message("Result", FALSE, d.tls)>>)
    BY <2>1, WroteIs
  <2>3. Wrote(Of(d, told), "Result", FALSE) = Of(d, told \o <<m>>)
    BY <2>2, <1>5
  <2> QED BY <2>3 DEF told
<1>8. (out \o said) \o <<m>> = out \o (said \o <<m>>)
  BY <1>2, <1>6, JoinedThrice
<1>9. AuthFailed(Disapprove(Of(c, out))) = Ended(Of(d, out \o (said \o <<m>>)))
  BY <1>4, <1>7, <1>8 DEF AuthFailed
<1>10. said \o <<m>> \in Failures(d.tls)
  BY <1>2, <1>4 DEF Like
<1>11. JudgedAs(Ended(Of(d, out \o (said \o <<m>>))), d, out)
  BY <1>4, <1>6, <1>10, RefusedAs
<1>12. JudgedAs(AuthFailed(Disapprove(Of(c, out))), c, out)
  BY <1>4, <1>9, <1>11 DEF JudgedAs, Like
<1> QED BY <1>3, <1>12

\* The server asks its user, or does not need to.
LEMMA QueryIs ==
  ASSUME setting \in Settings, NEW c \in SC, NEW out, IsSeq(out),
         NEW rights \in SUBSET Default, rights # {},
         AtLayer(setting, c, c.type), c.type \in Range(setting.serverTypes),
         rights = IF Credential(c.type) = "none" THEN Default
                  ELSE Granted(Credential(c.type), setting.knows)
  PROVE  JudgedAs(Query(Of(c, out), rights), c, out)
<1> DEFINE d == [c EXCEPT !.rights = rights]
<1>1. d \in SC /\ d.rights = rights /\ Like(d, c, c.state)
  BY SCRights DEF Default
<1>2. [Of(c, out) EXCEPT !.c.rights = rights] = Of(d, out)
  BY OfRights
<1>3. setting.query \in {"nobody", "refuses", "asks"}
  BY DEF Settings
<1> HIDE DEF d
<1>4. setting.query # "refuses" => Passed(setting, d)
  BY <1>1 DEF Passed, AtLayer, Like
<1>5. CASE setting.query = "nobody"
  <2>1. Query(Of(c, out), rights) = Approve(Of(d, out))
    BY <1>2, <1>5 DEF Query
  <2>2. JudgedAs(Approve(Of(d, out)), d, out)
    BY <1>1, <1>4, <1>5, ApproveIs
  <2> QED BY <1>1, <2>1, <2>2 DEF JudgedAs, Like
<1>6. CASE setting.query = "refuses"
  <2>1. Query(Of(c, out), rights) = AuthFailed(Disapprove(Of(c, out)))
    BY <1>6 DEF Query
  <2> QED BY <2>1, RefuseIs
<1>7. CASE setting.query = "asks"
  <2> DEFINE e == [d EXCEPT !.state = "querying"]
  <2>1. e \in SC /\ Like(e, d, "querying") /\ e.rights = d.rights
    BY <1>1, SCState
  <2>2. Query(Of(c, out), rights) = Of(e, out)
    <3>1. Query(Of(c, out), rights) = [Of(d, out) EXCEPT !.c.state = "querying"]
      BY <1>2, <1>7 DEF Query
    <3> QED BY <3>1, OfState
  <2> HIDE DEF e
  <2>3. Passed(setting, e)
    BY <2>1, <1>4, <1>7 DEF Passed, Like
  <2>4. Judged(setting, e, <<>>)
    BY <2>1, <2>3 DEF Judged, Like
  <2>5. IsSeq(<<>>) /\ out \o <<>> = out
    BY Joined, ShortSeq
  <2>6. Of(e, out).c = e /\ Of(e, out).out = out \o <<>>
    BY <2>5, OfIs
  <2> QED BY <2>1, <2>2, <2>4, <2>5, <2>6, <1>1 DEF JudgedAs, Like
<1> QED BY <1>3, <1>5, <1>6, <1>7

-----------------------------------------------------------------------------
\* The server has come to the layer of t that identifies the user.
Challenged(st, out, t) ==
  /\ st.c \in SC
  /\ \E said : IsSeq(said) /\ st.out = out \o said /\ Serving(setting, st.c, said, t)

\* The server comes to the layer that identifies the user.
LEMMA ChallengeIs ==
  ASSUME setting \in Settings, NEW c \in SC, NEW out, IsSeq(out), NEW t \in SecType,
         AtLayer(setting, c, t), t \in Range(setting.serverTypes)
  PROVE  Challenged(Challenge(Of(c, out)), out, t)
<1>1. Of(c, out).c = c /\ c.type = t
  BY OfIs DEF AtLayer
<1>2. CASE Credential(t) = "none"
  <2>1. Challenge(Of(c, out)) = Query(Of(c, out), Default)
    BY <1>1, <1>2 DEF Challenge
  <2>2. Default \in SUBSET Default /\ Default # {}
    BY DEF Default
  <2>3. JudgedAs(Query(Of(c, out), Default), c, out)
    BY <1>1, <1>2, <2>2, QueryIs
  <2> DEFINE st == Query(Of(c, out), Default)
  <2> HIDE DEF st
  <2>4. PICK said : IsSeq(said) /\ st.out = out \o said /\ Judged(setting, st.c, said)
    BY <2>3 DEF JudgedAs, st
  <2>5. /\ st.c \in SC /\ st.c.version = c.version /\ st.c.type = c.type
        /\ st.c.tls = c.tls
    BY <2>3 DEF JudgedAs, st
  <2>6. Serving(setting, st.c, said, t)
    BY <2>4, <2>5, <1>2 DEF Serving, AtLayer
  <2>7. Challenged(st, out, t)
    BY <2>4, <2>5, <2>6 DEF Challenged
  <2> QED BY <2>1, <2>7 DEF st
<1>3. CASE Credential(t) = "password"
  <2> DEFINE m == Message("Challenge", "", c.tls)
             d == [c EXCEPT !.state = "security", !.waits = "Response"]
  <2>1. Wrote(Of(c, out), "Challenge", "") = Of(c, out \o <<m>>)
    BY WroteIs
  <2>2. "Response" \in Awaited
    BY DEF Awaited
  <2>3. d \in SC /\ WaitsFor(d, c, "Response")
    BY <2>2, SCWaits
  <2>4. Challenge(Of(c, out)) = Of(d, out \o <<m>>)
    <3>1. Challenge(Of(c, out)) = Awaits(Of(c, out \o <<m>>), "Response")
      BY <1>1, <1>3, <2>1 DEF Challenge
    <3> HIDE DEF m
    <3> QED BY <3>1, AwaitsIs
  <2>5. IsSeq(<<m>>)
    BY ShortSeq
  <2>6. m = Message("Challenge", "", d.tls)
    BY <2>3 DEF WaitsFor
  <2> HIDE DEF d, m
  <2>7. Serving(setting, d, <<m>>, t)
    BY <2>3, <2>6, <1>3 DEF Serving, AtLayer, WaitsFor, Waits
  <2>8. Of(d, out \o <<m>>).c = d /\ Of(d, out \o <<m>>).out = out \o <<m>>
    BY OfIs
  <2> QED BY <2>3, <2>4, <2>5, <2>7, <2>8 DEF Challenged
<1>4. CASE Credential(t) = "login"
  <2> DEFINE d == [c EXCEPT !.state = "security", !.waits = "Login"]
  <2>1. "Login" \in Awaited
    BY DEF Awaited
  <2>2. d \in SC /\ WaitsFor(d, c, "Login")
    BY <2>1, SCWaits
  <2>3. Challenge(Of(c, out)) = Of(d, out)
    <3>1. Challenge(Of(c, out)) = Awaits(Of(c, out), "Login")
      BY <1>1, <1>4 DEF Challenge
    <3> QED BY <3>1, AwaitsIs
  <2> HIDE DEF d
  <2>4. IsSeq(<<>>) /\ out \o <<>> = out
    BY ShortSeq, Joined
  <2>5. Serving(setting, d, <<>>, t)
    BY <2>2, <1>4 DEF Serving, AtLayer, WaitsFor, Waits
  <2>6. Of(d, out).c = d /\ Of(d, out).out = out \o <<>>
    BY <2>4, OfIs
  <2> QED BY <2>2, <2>3, <2>4, <2>5, <2>6 DEF Challenged
<1> QED BY <1>2, <1>3, <1>4, CredentialIs

\* The server starts with a type that encrypts: it is ready, or it is not.
ReadyFor(st, c, out, t) ==
  /\ st.c \in SC /\ Waits(st.c, "ClientHello") /\ st.c.type = t
  /\ st.c.version = c.version /\ ~st.c.tls
  /\ st.out = out \o <<Clear("TLSReady", TRUE)>>

UnreadyFor(st, out) ==
  /\ st.c \in SC /\ st.c.state = "closed"
  /\ st.out = (out \o <<Clear("TLSReady", FALSE)>>) \o <<Clear("Result", FALSE)>>

\* The server starts a security type that it has enabled.
LEMMA ServeSecurityIs ==
  ASSUME setting \in Settings, NEW c \in SC, NEW out, IsSeq(out), NEW t \in SecType,
         c.version = setting.version, ~c.tls, t \in Range(setting.serverTypes),
         NEW st \in ServeSecurity(Of(c, out), t)
  PROVE  \/ Encryption(t) = "none" /\ Challenged(st, out, t)
         \/ Encryption(t) # "none" /\ (ReadyFor(st, c, out, t) \/ UnreadyFor(st, out))
<1> DEFINE d == [c EXCEPT !.type = t]
<1>1. /\ d \in SC /\ d.type = t /\ d.version = c.version /\ d.tls = c.tls
  BY SCType
<1>2. [Of(c, out) EXCEPT !.c.type = t] = Of(d, out)
  BY OfType
<1>3. t # "VeNCrypt"
  BY CredentialIs
<1> HIDE DEF d
<1>4. CASE Encryption(t) = "none"
  <2>1. st = Challenge(Of(d, out))
    BY <1>2, <1>3, <1>4 DEF ServeSecurity
  <2>2. AtLayer(setting, d, t)
    BY <1>1, <1>4 DEF AtLayer
  <2> QED BY <1>1, <1>4, <2>1, <2>2, ChallengeIs
<1>5. CASE Encryption(t) # "none"
  <2>1. \/ st = Awaits(Wrote(Of(d, out), "TLSReady", TRUE), "ClientHello")
        \/ st = AuthFailed(Wrote(Of(d, out), "TLSReady", FALSE))
    BY <1>2, <1>3, <1>5 DEF ServeSecurity
  <2>2. CASE st = Awaits(Wrote(Of(d, out), "TLSReady", TRUE), "ClientHello")
    <3> DEFINE m == Message("TLSReady", TRUE, d.tls)
               e == [d EXCEPT !.state = "security", !.waits = "ClientHello"]
    <3>1. Wrote(Of(d, out), "TLSReady", TRUE) = Of(d, out \o <<m>>)
      BY WroteIs
    <3>2. "ClientHello" \in Awaited
      BY DEF Awaited
    <3>3. e \in SC /\ WaitsFor(e, d, "ClientHello")
      BY <1>1, <3>2, SCWaits
    <3>4. m = Clear("TLSReady", TRUE)
      <4>1. d.tls = FALSE
        BY <1>1 DEF SC
      <4> QED BY <4>1 DEF Clear
    <3> HIDE DEF m
    <3>5. st = Of(e, out \o <<m>>)
      <4>1. st = Awaits(Of(d, out \o <<m>>), "ClientHello")
        BY <2>2, <3>1
      <4> QED BY <4>1, AwaitsIs
    <3> HIDE DEF e
    <3>6. st.c = e /\ st.out = out \o <<m>>
      BY <3>5, OfIs
    <3>7. ReadyFor(st, c, out, t)
      BY <3>3, <3>4, <3>6, <1>1 DEF ReadyFor, WaitsFor, Waits
    <3> QED BY <1>5, <3>7
  <2>3. CASE st = AuthFailed(Wrote(Of(d, out), "TLSReady", FALSE))
    <3> DEFINE m == Message("TLSReady", FALSE, d.tls)
               r == Message("Result", FALSE, d.tls)
               told == out \o <<m>>
    <3>1. Wrote(Of(d, out), "TLSReady", FALSE) = Of(d, told) /\ IsSeq(told)
      BY WroteIs
    <3>2. m = Clear("TLSReady", FALSE) /\ r = Clear("Result", FALSE)
      <4>1. d.tls = FALSE
        BY <1>1 DEF SC
      <4> QED BY <4>1 DEF Clear
    <3> HIDE DEF m, told
    <3>3. Wrote(Of(d, told), "Result", FALSE) = Of(d, told \o <<r>>)
      BY <3>1, WroteIs
    <3> HIDE DEF r
    <3>4. st = Ended(Of(d, told \o <<r>>))
      BY <2>3, <3>1, <3>3 DEF AuthFailed
    <3>5. st.c \in SC /\ st.c.state = "closed" /\ st.out = told \o <<r>>
      BY <3>4, <1>1, ServerEnded
    <3>6. UnreadyFor(st, out)
      BY <3>2, <3>5 DEF UnreadyFor, told
    <3> QED BY <1>5, <3>6
  <2> QED BY <2>1, <2>2, <2>3
<1> QED BY <1>4, <1>5

\* The server starts with VeNCrypt.
LEMMA ServeVeNCryptIs ==
  ASSUME NEW c \in SC, NEW out, IsSeq(out), ~c.tls,
         NEW st \in ServeSecurity(Of(c, out), "VeNCrypt")
  PROVE  /\ st.c \in SC /\ Waits(st.c, "VeNCryptVersion")
         /\ st.c.version = c.version /\ ~st.c.tls
         /\ st.out = out \o <<Clear("VeNCryptVersion", "")>>
<1> DEFINE d == [c EXCEPT !.type = "VeNCrypt"]
           m == Message("VeNCryptVersion", "", d.tls)
           e == [d EXCEPT !.state = "security", !.waits = "VeNCryptVersion"]
<1>1. d \in SC /\ d.version = c.version /\ d.tls = c.tls
  BY SCType
<1>2. [Of(c, out) EXCEPT !.c.type = "VeNCrypt"] = Of(d, out)
  BY OfType
<1> HIDE DEF d
<1>3. Wrote(Of(d, out), "VeNCryptVersion", "") = Of(d, out \o <<m>>)
  BY WroteIs
<1>4. m = Clear("VeNCryptVersion", "")
  <2>1. d.tls = FALSE
    BY <1>1 DEF SC
  <2> QED BY <2>1 DEF Clear
<1> HIDE DEF m
<1>5. st = Awaits(Of(d, out \o <<m>>), "VeNCryptVersion")
  BY <1>2, <1>3 DEF ServeSecurity
<1>6. "VeNCryptVersion" \in Awaited
  BY DEF Awaited
<1>7. st = Of(e, out \o <<m>>) /\ e \in SC /\ WaitsFor(e, d, "VeNCryptVersion")
  BY <1>1, <1>5, <1>6, AwaitsIs, SCWaits
<1> HIDE DEF e
<1>8. st.c = e /\ st.out = out \o <<m>>
  BY <1>7, OfIs
<1> QED BY <1>1, <1>4, <1>7, <1>8 DEF WaitsFor, Waits

\* The viewer starts with a type within VeNCrypt, or of an old server.
LEMMA StartSecurityIs ==
  ASSUME NEW c \in CC, NEW out, IsSeq(out), NEW t \in SecType,
         c.version = setting.version, ~c.tls, t \in Range(setting.viewerTypes),
         NEW st \in StartSecurity(Of(c, out), t)
  PROVE  \/ Encryption(t) = "none" /\ Identified(st, out, t)
         \/ /\ Encryption(t) # "none"
            /\ st.c \in CC /\ Waits(st.c, "TLSReady") /\ st.c.type = t
            /\ st.c.version = c.version /\ ~st.c.tls /\ st.out = out
<1> DEFINE d == [c EXCEPT !.type = t]
           e == [d EXCEPT !.state = "security", !.waits = "TLSReady"]
<1>1. d \in CC /\ d.type = t /\ d.version = c.version /\ d.tls = c.tls
  BY CCType
<1>2. [Of(c, out) EXCEPT !.c.type = t] = Of(d, out)
  BY OfType
<1>3. t # "VeNCrypt"
  BY CredentialIs
<1> HIDE DEF d
<1>4. CASE Encryption(t) = "none"
  <2>1. st \in Identify(Of(d, out))
    BY <1>2, <1>3, <1>4 DEF StartSecurity
  <2>2. AtLayer(setting, d, t)
    BY <1>1, <1>4 DEF AtLayer
  <2> QED BY <1>1, <1>4, <2>1, <2>2, IdentifyIs
<1>5. CASE Encryption(t) # "none"
  <2>1. st = Awaits(Of(d, out), "TLSReady")
    BY <1>2, <1>3, <1>5 DEF StartSecurity
  <2>2. "TLSReady" \in Awaited
    BY DEF Awaited
  <2>3. st = Of(e, out) /\ e \in CC /\ WaitsFor(e, d, "TLSReady")
    BY <1>1, <2>1, <2>2, AwaitsIs, CCWaits
  <2> HIDE DEF e
  <2>4. st.c = e /\ st.out = out
    BY <2>3, OfIs
  <2> QED BY <1>1, <1>5, <2>3, <2>4 DEF WaitsFor, Waits
<1> QED BY <1>4, <1>5

\* The viewer starts VeNCrypt.
LEMMA StartVeNCryptIs ==
  ASSUME NEW c \in CC, NEW out, ~c.tls,
         NEW st \in StartSecurity(Of(c, out), "VeNCrypt")
  PROVE  /\ st.c \in CC /\ Waits(st.c, "VeNCryptVersion")
         /\ st.c.version = c.version /\ ~st.c.tls /\ st.out = out
<1> DEFINE d == [c EXCEPT !.type = "VeNCrypt"]
           e == [d EXCEPT !.state = "security", !.waits = "VeNCryptVersion"]
<1>1. d \in CC /\ d.version = c.version /\ d.tls = c.tls
  BY CCType
<1>2. [Of(c, out) EXCEPT !.c.type = "VeNCrypt"] = Of(d, out)
  BY OfType
<1> HIDE DEF d
<1>3. st = Awaits(Of(d, out), "VeNCryptVersion")
  BY <1>2 DEF StartSecurity
<1>4. "VeNCryptVersion" \in Awaited
  BY DEF Awaited
<1>5. st = Of(e, out) /\ e \in CC /\ WaitsFor(e, d, "VeNCryptVersion")
  BY <1>1, <1>3, <1>4, AwaitsIs, CCWaits
<1> HIDE DEF e
<1>6. st.c = e /\ st.out = out
  BY <1>5, OfIs
<1> QED BY <1>1, <1>5, <1>6 DEF WaitsFor, Waits

-----------------------------------------------------------------------------
\* What is read first of two messages, and what is left.
LEMMA PairHead ==
  ASSUME NEW a, NEW b
  PROVE  Head(<<a, b>>) = a /\ Tail(<<a, b>>) = <<b>> /\ <<a, b>> # <<>>
BY PairIs, ShortSeq, HeadOf

\* A side without TLS streams writes in the clear.
LEMMA ClearIs ==
  ASSUME NEW c \in CC \cup SC, ~c.tls, NEW type, NEW value
  PROVE  Message(type, value, c.tls) = Clear(type, value)
<1>1. c.tls \in BOOLEAN
  BY DEF CC, SC
<1>2. c.tls = FALSE
  BY <1>1
<1> QED BY <1>2 DEF Clear

\* The parts of a message in the clear.
LEMMA ClearFields ==
  ASSUME NEW type, NEW value
  PROVE  Clear(type, value).type = type /\ Clear(type, value).value = value /\ ~Clear(type, value).tls
<1> DEFINE b == FALSE
<1>1. Clear(type, value) = Message(type, value, b)
  BY DEF Clear
<1>2. ~b
  OBVIOUS
<1> HIDE DEF b
<1> QED BY <1>1, <1>2, MessageIs

\* The first message that a handler writes.
LEMMA WroteFirst ==
  ASSUME NEW c, NEW type, NEW value
  PROVE  Wrote(Begun(c), type, value) = Of(c, <<Message(type, value, c.tls)>>)
<1> DEFINE m == Message(type, value, c.tls)
           e == <<>>
<1>1. IsSeq(e) /\ e \o <<m>> = <<m>>
  BY ShortSeq, Joined
<1>2. Begun(c) = Of(c, e)
  BY OfIs
<1> HIDE DEF e
<1>3. Wrote(Of(c, e), type, value) = Of(c, e \o <<m>>)
  BY <1>1, WroteIs
<1> QED BY <1>1, <1>2, <1>3

\* A handler of the viewer that can only go one way.
LEMMA ViewerBecomes ==
  ASSUME NEW d, NEW out, ViewerIs({Of(d, out)})
  PROVE  cc' = d /\ fromViewer' = fromViewer \o out
<1>1. PICK st \in {Of(d, out)} : cc' = st.c /\ fromViewer' = fromViewer \o st.out
  BY DEF ViewerIs
<1>2. st = Of(d, out)
  BY <1>1
<1> QED BY <1>1, <1>2, OfIs

\* One of the server.
LEMMA ServerBecomes ==
  ASSUME NEW d, NEW out, ServerIs({Of(d, out)})
  PROVE  sc' = d /\ fromServer' = fromServer \o out
<1>1. PICK st \in {Of(d, out)} : sc' = st.c /\ fromServer' = fromServer \o st.out
  BY DEF ServerIs
<1>2. st = Of(d, out)
  BY <1>1
<1> QED BY <1>1, <1>2, OfIs

\* The viewer learns the version.
LEMMA CCVersion ==
  ASSUME NEW c \in CC, NEW v \in {3, 8}
  PROVE  /\ [c EXCEPT !.state = "types", !.version = v] \in CC
         /\ [c EXCEPT !.state = "types", !.version = v].state = "types"
         /\ [c EXCEPT !.state = "types", !.version = v].version = v
         /\ [c EXCEPT !.state = "types", !.version = v].tls = c.tls
<1> DEFINE d == [c EXCEPT !.state = "types"]
           e == [d EXCEPT !.version = v]
<1>1. d \in CC /\ Like(d, c, "types")
  BY CCState
<1>2. e = [c EXCEPT !.state = "types", !.version = v]
  OBVIOUS
<1> HIDE DEF d
<1>3. e \in CC /\ e.state = "types" /\ e.version = v /\ e.tls = c.tls
  BY <1>1 DEF CC, Like
<1> HIDE DEF e
<1> QED BY <1>2, <1>3, Zenon

\* The server does.
LEMMA SCVersion ==
  ASSUME NEW c \in SC, NEW v \in {3, 8}
  PROVE  /\ [c EXCEPT !.version = v, !.state = "type"] \in SC
         /\ [c EXCEPT !.version = v, !.state = "type"].state = "type"
         /\ [c EXCEPT !.version = v, !.state = "type"].version = v
         /\ [c EXCEPT !.version = v, !.state = "type"].tls = c.tls
<1> DEFINE d == [c EXCEPT !.version = v]
           e == [d EXCEPT !.state = "type"]
<1>1. d \in SC /\ d.version = v /\ d.tls = c.tls
  BY DEF SC
<1>2. e = [c EXCEPT !.version = v, !.state = "type"]
  OBVIOUS
<1>3. e \in SC /\ Like(e, d, "type")
  BY <1>1, SCState
<1> HIDE DEF d
<1>4. e.state = "type" /\ e.version = v /\ e.tls = c.tls
  BY <1>1, <1>3 DEF Like
<1> HIDE DEF e
<1> QED BY <1>2, <1>3, <1>4, Zenon

\* Where the two sides are in each situation.
At(theirs, ours) == cc.state \in theirs /\ sc.state \in ours

\* Which states each situation is one of.
LEMMA Places ==
  /\ OfferingVersion => At({"version"}, {"version", "closed"})
  /\ Refused => At({"types"}, {"closed"})
  /\ ChoosingVersion => At({"types"}, {"version"}) /\ fromServer = <<>>
  /\ OfferingTypes => At({"types"}, {"type"}) /\ fromViewer = <<>>
  /\ ChoosingType => At({"security"}, {"type"}) /\ fromServer = <<>>
  /\ OfferingVeNCrypt => At({"security"}, {"security"}) /\ fromViewer = <<>>
  /\ ChoosingVeNCrypt => At({"security"}, {"security"}) /\ fromServer = <<>>
  /\ OfferingSubTypes => At({"security"}, {"security"}) /\ fromViewer = <<>>
  /\ ChoosingSubType => At({"security", "result", "init"}, {"security"}) /\ fromServer = <<>>
  /\ Encrypting => At({"security"}, {"security"})
  /\ NotReady => At({"security"}, {"closed"})
  /\ ViewerBehind => At({"types", "security"}, {"security", "querying", "init", "closed"})
                     /\ fromViewer = <<>>
  /\ BothIdentify => At({"security", "result", "init"}, {"security", "querying", "init", "closed"})
  /\ Responding => At({"result"}, {"security"}) /\ fromServer = <<>>
  /\ Waiting => At({"result"}, {"querying", "init", "closed"}) /\ fromViewer = <<>>
  /\ Entering => At({"init"}, {"init"}) /\ fromServer = <<>>
  /\ Entered => At({"init", "normal"}, {"normal"})
  /\ TurnedAway => At({"init"}, {"closed"}) /\ fromServer = <<>>
  /\ ViewerGone => cc.state = "closed"
<1>1. OfferingVersion => At({"version"}, {"version", "closed"})
  BY DEF OfferingVersion, At, Queues
<1>2. Refused => At({"types"}, {"closed"})
  BY DEF Refused, At
<1>3. ChoosingVersion => At({"types"}, {"version"}) /\ fromServer = <<>>
  BY DEF ChoosingVersion, At, Queues
<1>4. OfferingTypes => At({"types"}, {"type"}) /\ fromViewer = <<>>
  BY DEF OfferingTypes, At, Queues
<1>5. ChoosingType => At({"security"}, {"type"}) /\ fromServer = <<>>
  BY DEF ChoosingType, At, Queues, Waits
<1>6. OfferingVeNCrypt => At({"security"}, {"security"}) /\ fromViewer = <<>>
  BY DEF OfferingVeNCrypt, At, Queues, Waits
<1>7. ChoosingVeNCrypt => At({"security"}, {"security"}) /\ fromServer = <<>>
  BY DEF ChoosingVeNCrypt, At, Queues, Waits
<1>8. OfferingSubTypes => At({"security"}, {"security"}) /\ fromViewer = <<>>
  BY DEF OfferingSubTypes, At, Queues, Waits
<1>9. ChoosingSubType => At({"security", "result", "init"}, {"security"}) /\ fromServer = <<>>
  BY DEF ChoosingSubType, At, Waits, Identifying
<1>10. Encrypting => At({"security"}, {"security"})
  BY DEF Encrypting, At, Waits
<1>11. NotReady => At({"security"}, {"closed"})
  BY DEF NotReady, At, Waits
<1>12. ViewerBehind => At({"types", "security"}, {"security", "querying", "init", "closed"})
                       /\ fromViewer = <<>>
  BY DEF ViewerBehind, At, Behind, Serving, Judged, Waits, Queues
<1>13. BothIdentify => At({"security", "result", "init"}, {"security", "querying", "init", "closed"})
  BY DEF BothIdentify, At, Identifying, Serving, Judged, Waits
<1>14. Responding => At({"result"}, {"security"}) /\ fromServer = <<>>
  BY DEF Responding, At, Queues, Waits
<1>15. Waiting => At({"result"}, {"querying", "init", "closed"}) /\ fromViewer = <<>>
  BY DEF Waiting, At, Judged
<1>16. Entering => At({"init"}, {"init"}) /\ fromServer = <<>>
  BY DEF Entering, At, Queues
<1>17. Entered => At({"init", "normal"}, {"normal"})
  BY DEF Entered, At
<1>18. TurnedAway => At({"init"}, {"closed"}) /\ fromServer = <<>>
  BY DEF TurnedAway, At
<1>19. ViewerGone => cc.state = "closed"
  BY DEF ViewerGone
<1> QED BY <1>1, <1>2, <1>3, <1>4, <1>5, <1>6, <1>7, <1>8, <1>9, <1>10, <1>11, <1>12, <1>13,
           <1>14, <1>15, <1>16, <1>17, <1>18, <1>19, Zenon

\* What each side reads tells what it waits for.
LEMMA ViewerReadsIt ==
  ASSUME cc \in CC, NEW types, ViewerTakes(types)
  PROVE  /\ fromServer # <<>> /\ fromServer' = Tail(fromServer) /\ setting' = setting /\ sc' = sc
         /\ Head(fromServer).type \in types
         /\ types = {"Version"} => cc.state = "version"
         /\ types = {"Refused", "Chosen", "Types"} => cc.state = "types"
         /\ types = {"Result"} => cc.state = "result"
         /\ cc.state = "types" /\ cc.version = 8 => Head(fromServer).type \in {"Refused", "Types"}
<1>1. cc.waits \in Awaited
  BY DEF CC
<1>2. /\ fromServer # <<>> /\ fromServer' = Tail(fromServer) /\ setting' = setting /\ sc' = sc
      /\ Head(fromServer).type \in types /\ Head(fromServer).type \in ViewerAwaits(cc)
  BY DEF ViewerTakes
<1> DEFINE m == Head(fromServer).type
<1> HIDE DEF m
<1>3. m \in types /\ m \in ViewerAwaits(cc)
  BY <1>2 DEF m
<1>4. ASSUME m = "Version" PROVE cc.state = "version"
  BY <1>1, <1>3, <1>4 DEF ViewerAwaits, Awaited
<1>5. ASSUME m \in {"Refused", "Chosen", "Types"} PROVE cc.state = "types"
  BY <1>1, <1>3, <1>5 DEF ViewerAwaits, Awaited
<1>6. ASSUME m = "Result" PROVE cc.state = "result"
  BY <1>1, <1>3, <1>6 DEF ViewerAwaits, Awaited
<1>7. cc.state = "types" /\ cc.version = 8 => m \in {"Refused", "Types"}
  BY <1>3 DEF ViewerAwaits
<1> QED BY <1>2, <1>3, <1>4, <1>5, <1>6, <1>7 DEF m

\* The server reads the first message, and it is one it waits for.
LEMMA ServerReadsIt ==
  ASSUME sc \in SC, NEW types, ServerTakes(types)
  PROVE  /\ fromViewer # <<>> /\ fromViewer' = Tail(fromViewer) /\ setting' = setting /\ cc' = cc
         /\ Head(fromViewer).type \in types
         /\ types = {"Version"} => sc.state = "version"
         /\ types = {"Type"} => sc.state = "type"
         /\ types = {"ClientInit"} => sc.state = "init"
<1>1. sc.waits \in Awaited
  BY DEF SC
<1>2. /\ fromViewer # <<>> /\ fromViewer' = Tail(fromViewer) /\ setting' = setting /\ cc' = cc
      /\ Head(fromViewer).type \in types /\ Head(fromViewer).type \in ServerAwaits(sc)
  BY DEF ServerTakes
<1> DEFINE m == Head(fromViewer).type
<1> HIDE DEF m
<1>3. m \in types /\ m \in ServerAwaits(sc)
  BY <1>2 DEF m
<1>4. ASSUME m = "Version" PROVE sc.state = "version"
  BY <1>1, <1>3, <1>4 DEF ServerAwaits, Awaited
<1>5. ASSUME m = "Type" PROVE sc.state = "type"
  BY <1>1, <1>3, <1>5 DEF ServerAwaits, Awaited
<1>6. ASSUME m = "ClientInit" PROVE sc.state = "init"
  BY <1>1, <1>3, <1>6 DEF ServerAwaits, Awaited
<1> QED BY <1>2, <1>3, <1>4, <1>5, <1>6 DEF m

\* The states of the two sides after a step.
LEMMA Becomes ==
  ASSUME ShakeInv, setting' = setting, cc' \in CC, sc' \in SC, Situation'
  PROVE  ShakeInv'
BY DEF ShakeInv, HandshakeTypeOK

\* The viewer reads the version.
LEMMA ViewerReadsVersionInv ==
  ASSUME ShakeInv, ViewerReadsVersion
  PROVE  ShakeInv'
<1> DEFINE m == Head(fromServer)
<1>1. setting \in Settings /\ cc \in CC /\ sc \in SC
  BY DEF ShakeInv, HandshakeTypeOK
<1>2. /\ fromServer # <<>> /\ fromServer' = Tail(fromServer) /\ setting' = setting /\ sc' = sc
      /\ cc.state = "version"
  BY <1>1, ViewerReadsIt DEF ViewerReadsVersion
<1>3. OfferingVersion
  BY <1>2, Places DEF ShakeInv, Situation, At
<1>4. PICK v \in {3, 8} :
         /\ m = Clear("Version", v)
         /\ \/ /\ sc.state = "version" /\ ~sc.tls /\ v = setting.version
               /\ Tail(fromServer) = <<>> /\ fromViewer = <<>>
            \/ v = 3 /\ sc.state = "closed" /\ Tail(fromServer) = <<Clear("Refused", "")>>
  <2>1. setting.version \in {3, 8}
    BY <1>1 DEF Settings
  <2>2. CASE sc.state = "version"
    <3>1. /\ ~sc.tls /\ fromServer = <<Clear("Version", setting.version)>>
          /\ fromViewer = <<>>
      BY <2>2, <1>3 DEF OfferingVersion, Queues
    <3>2. m = Clear("Version", setting.version) /\ Tail(fromServer) = <<>>
      BY <3>1, HeadOf, ShortSeq
    <3> HIDE DEF m
    <3> QED BY <2>1, <2>2, <3>1, <3>2
  <2>3. CASE sc.state = "closed"
    <3>1. fromServer = <<Clear("Version", 3), Clear("Refused", "")>>
      BY <2>3, <1>3 DEF OfferingVersion, Queues
    <3>2. m = Clear("Version", 3) /\ Tail(fromServer) = <<Clear("Refused", "")>>
      BY <3>1, PairHead
    <3> HIDE DEF m
    <3> QED BY <2>3, <3>2
  <2> QED BY <1>3, <2>2, <2>3 DEF OfferingVersion
<1> DEFINE d == [cc EXCEPT !.state = "types", !.version = v]
<1>5. d \in CC /\ d.state = "types" /\ d.version = v /\ d.tls = cc.tls
  BY <1>1, CCVersion
<1>6. v = IF m.value < 7 THEN 3 ELSE 8
  <2> HIDE DEF m
  <2>1. m.value = v /\ v \in {3, 8}
    <3>1. m = Clear("Version", v)
      BY <1>4
    <3> QED BY <3>1, ClearFields
  <2> QED BY <2>1
<1>7. ViewerVersion(m) = {Wrote(Begun(d), "Version", v)}
  <2> HIDE DEF m
  <2> QED BY <1>6 DEF ViewerVersion
<1> HIDE DEF d
<1>8. Wrote(Begun(d), "Version", v) = Of(d, <<Clear("Version", v)>>)
  <2>1. ~d.tls
    BY <1>3, <1>5 DEF OfferingVersion
  <2>2. Message("Version", v, d.tls) = Clear("Version", v)
    BY <1>5, <2>1, ClearIs
  <2> QED BY <2>2, WroteFirst
<1>9. cc' = d /\ fromViewer' = fromViewer \o <<Clear("Version", v)>>
  <2>1. ViewerIs({Of(d, <<Clear("Version", v)>>)})
    BY <1>7, <1>8 DEF ViewerReadsVersion
  <2> QED BY <2>1, ViewerBecomes
<1>10. cc'.state = "types" /\ ~cc'.tls /\ cc'.version = v
  BY <1>3, <1>5, <1>9 DEF OfferingVersion
<1>11. ChoosingVersion' \/ Refused'
  <2>1. CASE sc.state = "version" /\ ~sc.tls /\ v = setting.version
               /\ Tail(fromServer) = <<>> /\ fromViewer = <<>>
    <3>1. fromViewer' = <<Clear("Version", v)>>
      BY <1>9, <2>1, Joined, ShortSeq
    <3> QED BY <1>2, <1>10, <2>1, <3>1 DEF ChoosingVersion, Queues
  <2>2. CASE v = 3 /\ sc.state = "closed" /\ Tail(fromServer) = <<Clear("Refused", "")>>
    BY <1>2, <1>10, <2>2 DEF Refused
  <2> QED BY <1>4, <2>1, <2>2
<1>12. Situation'
  BY <1>11 DEF Situation
<1> QED BY <1>1, <1>2, <1>5, <1>9, <1>12, Becomes

-----------------------------------------------------------------------------
\* What a server has said is a sequence, and one that has let the viewer pass has
\* looked at it.
LEMMA ServingIs ==
  ASSUME NEW s, NEW c, NEW said, NEW t, Serving(s, c, said, t)
  PROVE  /\ IsSeq(said) /\ c.version = s.version /\ c.type = t /\ t \in Range(s.serverTypes)
         /\ c.state \in {"querying", "init"} => Passed(s, c)
         /\ c.state \in {"security", "querying", "init", "closed"}
<1>1. CASE Judged(s, c, said)
  <2>1. said \in Failures(c.tls) \/ said = <<>> \/ \E a : said = <<a>>
    BY <1>1 DEF Judged
  <2>2. IsSeq(said)
    BY <2>1, FailuresAre, ShortSeq
  <2> QED BY <1>1, <2>2 DEF Serving, Judged
<1>2. CASE ~Judged(s, c, said)
  <2>1. said = <<>> \/ \E a : said = <<a>>
    BY <1>2 DEF Serving
  <2>2. IsSeq(said)
    BY <2>1, ShortSeq
  <2> QED BY <1>2, <2>2 DEF Serving, Waits
<1> QED BY <1>1, <1>2

\* The viewer gives up.
LEMMA ViewerGives ==
  ASSUME ShakeInv, setting' = setting, sc' = sc, cc' \in CC, cc'.state = "closed",
         \/ sc.state = "closed"
         \/ fromViewer' = <<>> /\ (sc.state \in {"querying", "init"} => Passed(setting, sc))
  PROVE  ShakeInv'
<1>1. ViewerGone'
  BY DEF ViewerGone
<1>2. Situation'
  BY <1>1 DEF Situation
<1> QED BY <1>2, Becomes DEF ShakeInv, HandshakeTypeOK

\* The viewer has got to the layer that the server is at.
LEMMA ViewerCatchesUp ==
  ASSUME ShakeInv, setting' = setting, sc' = sc, NEW t \in SecType, NEW out, out = <<>>,
         Serving(setting, sc, fromServer', t), fromViewer = <<>>,
         NEW st, Identified(st, out, t), cc' = st.c, fromViewer' = fromViewer \o st.out
  PROVE  ShakeInv'
<1>1. cc' \in CC
  BY DEF Identified
<1>2. CASE st.c.state = "closed" /\ st.out = out
  <2>1. fromViewer' = <<>>
    BY <1>2, Joined, ShortSeq
  <2>2. sc.state \in {"querying", "init"} => Passed(setting, sc)
    BY ServingIs
  <2> QED BY <1>1, <1>2, <2>1, <2>2, ViewerGives
<1>3. ASSUME NEW said, IsSeq(said), st.out = out \o said, Identifying(setting, st.c, said, t)
      PROVE  ShakeInv'
  <2>1. fromViewer' = said
    BY <1>3, Joined
  <2>2. BothIdentify'
    BY <1>3, <2>1 DEF BothIdentify
  <2>3. Situation'
    BY <2>2 DEF Situation
  <2> QED BY <1>1, <2>3, Becomes DEF ShakeInv, HandshakeTypeOK
<1> QED BY <1>2, <1>3 DEF Identified

\* The viewer reads that it is refused.
LEMMA RefusedInv ==
  ASSUME ShakeInv, ViewerReadsTypes, Refused
  PROVE  ShakeInv'
<1>1. setting \in Settings /\ cc \in CC /\ sc \in SC
  BY DEF ShakeInv, HandshakeTypeOK
<1>2. setting' = setting /\ sc' = sc
  BY <1>1, ViewerReadsIt DEF ViewerReadsTypes
<1>3. Head(fromServer).type = "Refused"
  <2>1. Head(fromServer) = Clear("Refused", "")
    BY HeadOf, ShortSeq DEF Refused
  <2>2. Clear("Refused", "").type = "Refused"
    BY ClearFields
  <2> QED BY <2>1, <2>2, Zenon
<1>4. ViewerTypesOffered(Head(fromServer)) = {Ended(Begun(cc))}
  BY <1>3 DEF ViewerTypesOffered
<1> DEFINE e == <<>>
           d == [cc EXCEPT !.state = "closed"]
<1>5. Ended(Begun(cc)) = Of(d, e) /\ d \in CC /\ Like(d, cc, "closed")
  <2>1. d \in CC /\ Like(d, cc, "closed")
    BY <1>1, CCState
  <2>2. Begun(cc) = Of(cc, e)
    BY OfIs
  <2> HIDE DEF e
  <2>3. Ended(Of(cc, e)) = Of(d, e)
    BY EndedIs
  <2> QED BY <2>1, <2>2, <2>3
<1> HIDE DEF d, e
<1>6. ViewerIs({Of(d, e)})
  BY <1>4, <1>5 DEF ViewerReadsTypes
<1>7. cc' = d
  BY <1>6, ViewerBecomes
<1> QED BY <1>2, <1>5, <1>7, ViewerGives DEF Refused, Like

\* The viewer chooses VeNCrypt, which comes first.
LEMMA OfferingTypesInv ==
  ASSUME ShakeInv, ViewerReadsTypes, OfferingTypes
  PROVE  ShakeInv'
<1> DEFINE offered == EnabledSecTypes(setting.serverTypes)
           known == KnownTypes(setting.viewerTypes)
           m == Clear("Types", offered)
           v == "VeNCrypt"
           st0 == Wrote(Begun(cc), "Type", v)
<1>1. setting \in Settings /\ cc \in CC /\ sc \in SC
  BY DEF ShakeInv, HandshakeTypeOK
<1>2. setting' = setting /\ sc' = sc /\ fromServer' = Tail(fromServer)
  BY <1>1, ViewerReadsIt DEF ViewerReadsTypes
<1>3. Head(fromServer) = m /\ Tail(fromServer) = <<>> /\ fromViewer = <<>>
  BY HeadOf, ShortSeq DEF OfferingTypes, Queues
<1>4. m.type = "Types" /\ m.value = offered
  BY ClearFields
<1>5. v \in known /\ v \in Range(offered) /\ FirstOf(offered, known) = v
  BY <1>1, TypeLists, EnabledIs, KnownIs
<1>6. ViewerTypesOffered(m) = StartSecurity(st0, v)
  <2> HIDE DEF m, known, offered, v
  <2> QED BY <1>4, <1>5 DEF ViewerTypesOffered, known
<1>7. ~cc.tls /\ cc.version = 8
  BY DEF OfferingTypes, Modern
<1>8. st0 = Of(cc, <<Clear("Type", v)>>)
  BY <1>1, <1>7, ClearIs, WroteFirst
<1> HIDE DEF m, known, offered, st0
<1>9. PICK st \in StartSecurity(st0, v) : cc' = st.c /\ fromViewer' = fromViewer \o st.out
  BY <1>3, <1>6 DEF ViewerReadsTypes, ViewerIs
<1> DEFINE out == <<Clear("Type", v)>>
<1>10. /\ st.c \in CC /\ Waits(st.c, "VeNCryptVersion")
       /\ st.c.version = cc.version /\ ~st.c.tls /\ st.out = out
  <2>1. st \in StartSecurity(Of(cc, out), "VeNCrypt")
    BY <1>8, <1>9
  <2> HIDE DEF out
  <2> QED BY <1>1, <1>7, <2>1, StartVeNCryptIs
<1>11. fromViewer' = out
  BY <1>3, <1>9, <1>10, Joined, ShortSeq
<1>12. ChoosingType'
  BY <1>2, <1>3, <1>9, <1>10, <1>11 DEF ChoosingType, OfferingTypes, Modern, Queues, Waits
<1>13. Situation'
  BY <1>12 DEF Situation
<1> QED BY <1>1, <1>2, <1>9, <1>10, <1>13, Becomes

\* A 3.3 viewer reads the type that the server has chosen.
LEMMA OldTypeInv ==
  ASSUME ShakeInv, ViewerReadsTypes, ViewerBehind, cc.state = "types"
  PROVE  ShakeInv'
<1> DEFINE known == KnownTypes(setting.viewerTypes)
<1>1. setting \in Settings /\ cc \in CC /\ sc \in SC
  BY DEF ShakeInv, HandshakeTypeOK
<1>2. setting' = setting /\ sc' = sc /\ fromServer' = Tail(fromServer)
  BY <1>1, ViewerReadsIt DEF ViewerReadsTypes
<1>3. PICK t, pre, said :
         /\ t \in SecType
         /\ Behind(setting, cc, pre, t) /\ Serving(setting, sc, said, t)
         /\ Queues(<<pre>> \o said, <<>>)
  BY DEF ViewerBehind
<1>4. /\ setting.version = 3 /\ t \in LegacyTypes /\ cc.version = 3 /\ ~cc.tls
      /\ pre = Clear("Chosen", <<t>>)
  BY <1>3 DEF Behind, Waits
<1>5. Head(fromServer) = pre /\ fromServer' = said /\ fromViewer = <<>>
  BY <1>2, <1>3, ServingIs, HeadOf DEF Queues
<1>6. pre.type = "Chosen" /\ pre.value = <<t>>
  BY <1>4, ClearFields
<1>7. Encryption(t) = "none" /\ t # "VeNCrypt"
  BY <1>4 DEF LegacyTypes, Encryption
<1>8. known = {"VeNCrypt"} \cup (Range(setting.viewerTypes) \cap LegacyTypes)
  BY <1>1, TypeLists, KnownIs
<1>9. Range(<<t>>) = {t}
  BY DEF Range
<1> HIDE DEF known
<1>10. PICK st \in ViewerTypesOffered(pre) : cc' = st.c /\ fromViewer' = fromViewer \o st.out
  BY <1>5 DEF ViewerReadsTypes, ViewerIs
<1>11. CASE t \in known
  <2>1. FirstOf(<<t>>, known) = t
    <3>1. <<t>> \o <<>> = <<t>> /\ <<>> \in Seq(SecType)
      BY Joined, ShortSeq
    <3> QED BY <3>1, <1>3, <1>11, FirstIsFirst
  <2>2. st \in StartSecurity(Begun(cc), t)
    BY <1>6, <1>9, <1>10, <1>11, <2>1 DEF ViewerTypesOffered, known
  <2> DEFINE out == <<>>
  <2>3. Begun(cc) = Of(cc, out) /\ IsSeq(out)
    BY OfIs, ShortSeq
  <2>4. t \in Range(setting.viewerTypes)
    BY <1>7, <1>8, <1>11
  <2> HIDE DEF out
  <2>5. Identified(st, out, t)
    BY <1>1, <1>3, <1>4, <1>7, <2>2, <2>3, <2>4, StartSecurityIs
  <2>6. out = <<>>
    BY DEF out
  <2> QED BY <1>2, <1>3, <1>5, <1>10, <2>5, <2>6, ViewerCatchesUp
<1>12. CASE t \notin known
  <2>1. st = Ended(Begun(cc))
    BY <1>6, <1>9, <1>10, <1>12 DEF ViewerTypesOffered, known
  <2>2. st.c \in CC /\ st.c.state = "closed" /\ st.out = <<>>
    <3> DEFINE e == <<>>
    <3>1. Begun(cc) = Of(cc, e)
      BY OfIs
    <3> HIDE DEF e
    <3>2. st.c \in CC /\ st.c.state = "closed" /\ st.out = e
      BY <1>1, <2>1, <3>1, ViewerEnded
    <3> QED BY <3>2 DEF e
  <2>3. fromViewer' = <<>>
    BY <1>5, <1>10, <2>2, Joined, ShortSeq
  <2>4. sc.state \in {"querying", "init"} => Passed(setting, sc)
    BY <1>3, ServingIs
  <2> QED BY <1>2, <1>10, <2>2, <2>3, <2>4, ViewerGives
<1> QED BY <1>11, <1>12

\* The viewer reads the types.
LEMMA ViewerReadsTypesInv ==
  ASSUME ShakeInv, ViewerReadsTypes
  PROVE  ShakeInv'
<1>1. cc \in CC
  BY DEF ShakeInv, HandshakeTypeOK
<1>2. cc.state = "types" /\ fromServer # <<>>
  BY <1>1, ViewerReadsIt DEF ViewerReadsTypes
<1>3. Refused \/ OfferingTypes \/ ViewerBehind
  BY <1>2, Places DEF ShakeInv, Situation, At
<1> QED BY <1>2, <1>3, RefusedInv, OfferingTypesInv, OldTypeInv

-----------------------------------------------------------------------------
\* One message is answered by another, in the clear.
LEMMA ViewerAnswers ==
  ASSUME cc \in CC, ~cc.tls, NEW type, NEW value, NEW m \in Awaited,
         ViewerIs({Awaits(Wrote(Begun(cc), type, value), m)})
  PROVE  /\ cc' \in CC /\ WaitsFor(cc', cc, m)
         /\ fromViewer' = fromViewer \o <<Clear(type, value)>>
<1> DEFINE k == Clear(type, value)
           d == [cc EXCEPT !.state = "security", !.waits = m]
<1>1. Wrote(Begun(cc), type, value) = Of(cc, <<k>>)
  BY ClearIs, WroteFirst
<1> HIDE DEF k
<1>2. Awaits(Of(cc, <<k>>), m) = Of(d, <<k>>) /\ d \in CC /\ WaitsFor(d, cc, m)
  BY AwaitsIs, CCWaits
<1> HIDE DEF d
<1>3. ViewerIs({Of(d, <<k>>)})
  BY <1>1, <1>2
<1>4. cc' = d /\ fromViewer' = fromViewer \o <<k>>
  BY <1>3, ViewerBecomes
<1> QED BY <1>2, <1>4 DEF k

\* The viewer closes the connection in a handler.
LEMMA ViewerCloses ==
  ASSUME cc \in CC, ViewerIs({Ended(Begun(cc))}), IsSeq(fromViewer)
  PROVE  cc' \in CC /\ cc'.state = "closed" /\ fromViewer' = fromViewer
<1> DEFINE e == <<>>
           d == [cc EXCEPT !.state = "closed"]
<1>1. d \in CC /\ Like(d, cc, "closed")
  BY CCState
<1>2. Begun(cc) = Of(cc, e)
  BY OfIs
<1>3. fromViewer \o e = fromViewer
  BY Joined
<1> HIDE DEF e
<1>4. Ended(Of(cc, e)) = Of(d, e)
  BY EndedIs
<1> HIDE DEF d
<1>5. ViewerIs({Of(d, e)})
  BY <1>2, <1>4
<1>6. cc' = d /\ fromViewer' = fromViewer \o e
  BY <1>5, ViewerBecomes
<1> QED BY <1>1, <1>3, <1>6 DEF Like

\* The viewer reads a message m of a security type.
Securing(m) ==
  /\ setting \in Settings /\ cc \in CC /\ sc \in SC
  /\ setting' = setting /\ sc' = sc /\ fromServer' = Tail(fromServer)
  /\ Head(fromServer) = m /\ ViewerIs(ViewerSecurity(m))

\* What the viewer has read is what it waited for.
LEMMA SecuringIs ==
  ASSUME ShakeInv, ViewerReadsSecurity
  PROVE  /\ cc.state = "security" /\ fromServer # <<>>
         /\ Head(fromServer).type = cc.waits
         /\ Securing(Head(fromServer))
<1>1. setting \in Settings /\ cc \in CC /\ sc \in SC
  BY DEF ShakeInv, HandshakeTypeOK
<1>2. /\ fromServer # <<>> /\ setting' = setting /\ sc' = sc /\ fromServer' = Tail(fromServer)
      /\ Head(fromServer).type \in {cc.waits}
  BY <1>1, ViewerReadsIt DEF ViewerReadsSecurity
<1>3. cc.state = "security" /\ ViewerIs(ViewerSecurity(Head(fromServer)))
  BY DEF ViewerReadsSecurity
<1> QED BY <1>1, <1>2, <1>3 DEF Securing

\* The viewer answers VeNCrypt's version.
LEMMA OfferingVeNCryptInv ==
  ASSUME ShakeInv, ViewerReadsSecurity, OfferingVeNCrypt
  PROVE  ShakeInv'
<1> DEFINE m == Clear("VeNCryptVersion", "")
<1>1. Head(fromServer) = m /\ Tail(fromServer) = <<>> /\ fromViewer = <<>>
  BY HeadOf, ShortSeq DEF OfferingVeNCrypt, Queues
<1>2. m.type = "VeNCryptVersion"
  BY ClearFields
<1> HIDE DEF m
<1>3. Securing(m)
  BY <1>1, SecuringIs
<1>4. ~cc.tls
  BY DEF OfferingVeNCrypt, Modern
<1>5. ViewerSecurity(m) = {Awaits(Wrote(Begun(cc), "VeNCryptVersion", ""), "SubTypes")}
  BY <1>2 DEF ViewerSecurity
<1>6. "SubTypes" \in Awaited
  BY DEF Awaited
<1>7. /\ cc' \in CC /\ WaitsFor(cc', cc, "SubTypes")
      /\ fromViewer' = fromViewer \o <<m>>
  BY <1>3, <1>4, <1>5, <1>6, ViewerAnswers DEF Securing, m
<1>8. fromViewer' = <<m>>
  BY <1>1, <1>7, Joined, ShortSeq
<1>9. ChoosingVeNCrypt'
  BY <1>1, <1>3, <1>7, <1>8
  DEF OfferingVeNCrypt, ChoosingVeNCrypt, Modern, Waits, WaitsFor, Queues, Securing, m
<1>10. Situation'
  BY <1>9 DEF Situation
<1> QED BY <1>3, <1>7, <1>10, Becomes DEF Securing

\* The viewer chooses a sub-type that both know, or closes the connection.
LEMMA OfferingSubTypesInv ==
  ASSUME ShakeInv, ViewerReadsSecurity, OfferingSubTypes
  PROVE  ShakeInv'
<1> DEFINE offered == setting.serverTypes
           known == Range(setting.viewerTypes)
           m == Clear("SubTypes", offered)
           t == FirstOf(offered, known)
           st0 == Wrote(Begun(cc), "SubType", t)
<1>1. Head(fromServer) = m /\ Tail(fromServer) = <<>> /\ fromViewer = <<>>
  BY HeadOf, ShortSeq DEF OfferingSubTypes, Queues
<1>2. m.type = "SubTypes" /\ m.value = offered
  BY ClearFields
<1> HIDE DEF m, t, offered
<1>3. Securing(m)
  BY <1>1, SecuringIs
<1>4. /\ ~cc.tls /\ cc.version = setting.version /\ cc.version = 8 /\ sc.version = 8
      /\ ~sc.tls /\ Waits(sc, "SubType")
  BY DEF OfferingSubTypes, Modern
<1>5. ViewerSecurity(m) = IF Range(offered) \cap known = {} THEN {Ended(Begun(cc))}
                          ELSE StartSecurity(st0, t)
  BY <1>2 DEF ViewerSecurity, ViewerSubTypes, t, offered
<1>6. CASE Range(offered) \cap known = {}
  <2>1. cc' \in CC /\ cc'.state = "closed" /\ fromViewer' = fromViewer
    <3>1. ViewerIs({Ended(Begun(cc))})
      BY <1>3, <1>5, <1>6 DEF Securing
    <3>2. IsSeq(fromViewer)
      BY <1>1, ShortSeq
    <3> QED BY <1>3, <3>1, <3>2, ViewerCloses DEF Securing
  <2> QED BY <1>1, <1>3, <1>4, <2>1, ViewerGives DEF Securing, Waits
<1>7. CASE Range(offered) \cap known # {}
  <2> DEFINE k == Clear("SubType", t)
             out == <<k>>
  <2>1. offered \in Seq(SecType) /\ known \subseteq SecType
    BY <1>3, TypeLists DEF Securing, offered
  <2>2. t \in Range(offered) \cap known
    BY <1>7, <2>1, FirstOfIs DEF t
  <2>3. st0 = Of(cc, out) /\ IsSeq(out)
    <3>1. Wrote(Begun(cc), "SubType", t) = Of(cc, <<Message("SubType", t, cc.tls)>>)
      BY WroteFirst
    <3>2. Message("SubType", t, cc.tls) = Clear("SubType", t)
      BY <1>3, <1>4, ClearIs DEF Securing
    <3> QED BY <3>1, <3>2, ShortSeq
  <2>4. PICK st \in StartSecurity(st0, t) : cc' = st.c /\ fromViewer' = fromViewer \o st.out
    BY <1>3, <1>5, <1>7 DEF Securing, ViewerIs
  <2> HIDE DEF st0, out, known
  <2>5. \/ Encryption(t) = "none" /\ Identified(st, out, t)
        \/ /\ Encryption(t) # "none"
           /\ st.c \in CC /\ Waits(st.c, "TLSReady") /\ st.c.type = t
           /\ st.c.version = cc.version /\ ~st.c.tls /\ st.out = out
    BY <1>3, <1>4, <2>1, <2>2, <2>3, <2>4, StartSecurityIs DEF Securing, known
  <2>6. \A said : IsSeq(said) => <<>> \o said = said
    BY Joined
  <2>7. st.c \in CC
    BY <2>5 DEF Identified
  <2>8. t \in Range(setting.serverTypes) \cap Range(setting.viewerTypes)
    BY <2>2 DEF offered, known
  <2>9. CASE Encryption(t) # "none"
    <3>1. fromViewer' = <<k>>
      BY <1>1, <2>3, <2>4, <2>5, <2>6, <2>9 DEF out
    <3>2. ChoosingSubType'
      <4>1. /\ Modern' /\ Waits(sc, "SubType")' /\ fromServer' = <<>>
        BY <1>1, <1>3, <1>4, <2>4, <2>5, <2>9 DEF Securing, Waits, Modern, OfferingSubTypes
      <4>2. Waits(cc, "TLSReady")' /\ cc'.type = t
        BY <2>4, <2>5, <2>9 DEF Waits
      <4>3. t \in Range(setting'.serverTypes) \cap Range(setting'.viewerTypes)
        BY <1>3, <2>8 DEF Securing
      <4> QED BY <2>9, <3>1, <4>1, <4>2, <4>3 DEF ChoosingSubType
    <3>3. Situation'
      BY <3>2 DEF Situation
    <3> QED BY <1>3, <2>4, <2>7, <3>3, Becomes DEF Securing
  <2>10. CASE Encryption(t) = "none"
    <3>1. CASE st.c.state = "closed" /\ st.out = out
      <4>1. fromViewer' = <<k>>
        BY <1>1, <2>3, <2>4, <2>6, <3>1 DEF out
      <4>2. ViewerGone'
        BY <1>3, <1>4, <2>4, <2>8, <3>1, <4>1 DEF ViewerGone, Securing, Waits
      <4>3. Situation'
        BY <4>2 DEF Situation
      <4> QED BY <1>3, <2>4, <2>7, <4>3, Becomes DEF Securing
    <3>2. ASSUME NEW said, IsSeq(said), st.out = out \o said, Identifying(setting, st.c, said, t)
          PROVE  ShakeInv'
      <4>1. fromViewer' = <<k>> \o said
        <5>1. IsSeq(out \o said)
          BY <2>3, <3>2, Joined
        <5> QED BY <1>1, <2>4, <2>6, <3>2, <5>1 DEF out
      <4>2. ChoosingSubType'
        <5>1. /\ Modern' /\ Waits(sc, "SubType")' /\ fromServer' = <<>>
          <6>1. st.c.version = 8 /\ ~st.c.tls
            BY <2>10, <3>2, <1>4 DEF Identifying
          <6> QED BY <1>1, <1>3, <1>4, <2>4, <6>1 DEF Securing, Waits, Modern, OfferingSubTypes
        <5>2. Identifying(setting', cc', said, t)
          BY <1>3, <2>4, <3>2 DEF Securing
        <5>3. t \in Range(setting'.serverTypes) \cap Range(setting'.viewerTypes)
          BY <1>3, <2>8 DEF Securing
        <5> QED BY <2>10, <4>1, <5>1, <5>2, <5>3 DEF ChoosingSubType
      <4>3. Situation'
        BY <4>2 DEF Situation
      <4> QED BY <1>3, <2>4, <2>7, <4>3, Becomes DEF Securing
    <3> QED BY <2>5, <2>10, <3>1, <3>2 DEF Identified
  <2> QED BY <2>9, <2>10
<1> QED BY <1>6, <1>7

-----------------------------------------------------------------------------
\* The viewer takes part in the TLS handshake.
LEMMA ViewerEncryptsInv ==
  ASSUME ShakeInv, ViewerReadsSecurity, Encrypting
  PROVE  ShakeInv'
<1> DEFINE common == Range(setting.serverTypes) \cap Range(setting.viewerTypes)
<1>1. /\ cc.state = "security" /\ fromServer # <<>> /\ Head(fromServer).type = cc.waits
      /\ Securing(Head(fromServer))
  BY SecuringIs
<1>2. /\ Modern /\ cc.type = sc.type /\ sc.type \in common
      /\ Encryption(sc.type) # "none"
  BY DEF Encrypting
<1>3. ~cc.tls /\ cc \in CC
  BY <1>1, <1>2 DEF Modern, Securing
<1> DEFINE b == TRUE
           m1 == Clear("TLSReady", b)
           m2 == Clear("ServerHello", "")
           a1 == Clear("ClientHello", "")
           a2 == Clear("ClientFinished", "")
<1>4. \/ /\ Waits(sc, "ClientHello") /\ fromServer = <<m1>> /\ fromViewer = <<>>
      \/ /\ Waits(sc, "ClientFinished") /\ fromServer = <<m2>> /\ fromViewer = <<>>
  BY <1>1 DEF Encrypting, Queues
<1>5. m1.type = "TLSReady" /\ m1.value = b /\ m2.type = "ServerHello"
  BY ClearFields
<1>6. b
  OBVIOUS
<1> HIDE DEF b, m1, m2, common
<1>7. ASSUME cc' \in CC, NEW m, WaitsFor(cc', cc, m), NEW k, fromViewer' = <<k>>, fromServer' = <<>>,
             \/ m = "ServerHello" /\ k = a1 /\ Waits(sc, "ClientHello")
             \/ m = "ServerFinished" /\ k = a2 /\ Waits(sc, "ClientFinished")
      PROVE  ShakeInv'
  <2>1. setting' = setting /\ sc' = sc
    BY <1>1 DEF Securing
  <2>2. Modern' /\ cc'.type = sc'.type /\ Waits(cc', m)
    BY <1>2, <1>7, <2>1 DEF Modern, WaitsFor, Waits
  <2>3. sc'.type \in common' /\ Encryption(sc'.type) # "none"
    BY <1>2, <2>1 DEF common
  <2>4. Encrypting'
    BY <1>7, <2>1, <2>2, <2>3 DEF Encrypting, Queues, Waits, common
  <2>5. Situation'
    BY <2>4 DEF Situation
  <2> QED BY <1>1, <1>7, <2>5, Becomes DEF Securing
<1>8. CASE Waits(sc, "ClientHello") /\ fromServer = <<m1>> /\ fromViewer = <<>>
  <2>1. Head(fromServer) = m1 /\ Tail(fromServer) = <<>>
    BY <1>8, HeadOf, ShortSeq
  <2>2. ViewerSecurity(m1) = {Awaits(Wrote(Begun(cc), "ClientHello", ""), "ServerHello")}
    BY <1>5, <1>6 DEF ViewerSecurity, ViewerTLS
  <2>3. "ServerHello" \in Awaited
    BY DEF Awaited
  <2>4. cc' \in CC /\ WaitsFor(cc', cc, "ServerHello") /\ fromViewer' = fromViewer \o <<a1>>
    BY <1>1, <1>3, <2>1, <2>2, <2>3, ViewerAnswers DEF Securing
  <2>5. fromViewer' = <<a1>> /\ fromServer' = <<>>
    BY <1>1, <1>8, <2>1, <2>4, Joined, ShortSeq DEF Securing
  <2> QED BY <1>7, <1>8, <2>4, <2>5
<1>9. CASE Waits(sc, "ClientFinished") /\ fromServer = <<m2>> /\ fromViewer = <<>>
  <2>1. Head(fromServer) = m2 /\ Tail(fromServer) = <<>>
    BY <1>9, HeadOf, ShortSeq
  <2>2. ViewerSecurity(m2) = {Awaits(Wrote(Begun(cc), "ClientFinished", ""), "ServerFinished")}
    BY <1>5 DEF ViewerSecurity, ViewerTLS
  <2>3. "ServerFinished" \in Awaited
    BY DEF Awaited
  <2>4. cc' \in CC /\ WaitsFor(cc', cc, "ServerFinished") /\ fromViewer' = fromViewer \o <<a2>>
    BY <1>1, <1>3, <2>1, <2>2, <2>3, ViewerAnswers DEF Securing
  <2>5. fromViewer' = <<a2>> /\ fromServer' = <<>>
    BY <1>1, <1>9, <2>1, <2>4, Joined, ShortSeq DEF Securing
  <2> QED BY <1>7, <1>9, <2>4, <2>5
<1> QED BY <1>4, <1>8, <1>9

\* The viewer reads that the server has no TLS.
LEMMA NotReadyInv ==
  ASSUME ShakeInv, ViewerReadsSecurity, NotReady
  PROVE  ShakeInv'
<1> DEFINE b == FALSE
           m == Clear("TLSReady", b)
<1>1. Head(fromServer) = m
  BY PairHead DEF NotReady
<1>2. m.type = "TLSReady" /\ m.value = b /\ ~b
  BY ClearFields
<1> HIDE DEF b, m
<1>3. Securing(m)
  BY <1>1, SecuringIs
<1>4. ViewerSecurity(m) = {Ended(Begun(cc))}
  BY <1>2 DEF ViewerSecurity, ViewerTLS
<1>5. PICK st \in {Ended(Begun(cc))} : cc' = st.c
  BY <1>3, <1>4 DEF Securing, ViewerIs
<1> DEFINE e == <<>>
<1>6. Begun(cc) = Of(cc, e)
  BY OfIs
<1> HIDE DEF e
<1>7. cc' \in CC /\ cc'.state = "closed"
  BY <1>3, <1>5, <1>6, ViewerEnded DEF Securing
<1> QED BY <1>3, <1>7, ViewerGives DEF Securing, NotReady

\* The viewer's streams are encrypted: it comes to the layer that identifies it.
LEMMA ViewerEncryptedInv ==
  ASSUME ShakeInv, ViewerReadsSecurity, ViewerBehind
  PROVE  ShakeInv'
<1>1. /\ cc.state = "security" /\ fromServer # <<>> /\ Securing(Head(fromServer))
  BY SecuringIs
<1>2. PICK t, pre, said :
         /\ t \in SecType
         /\ Behind(setting, cc, pre, t) /\ Serving(setting, sc, said, t)
         /\ Queues(<<pre>> \o said, <<>>)
  BY DEF ViewerBehind
<1>3. /\ setting.version = 8 /\ Encryption(t) # "none" /\ t \in Range(setting.viewerTypes)
      /\ cc.version = 8 /\ cc.type = t /\ pre = Clear("ServerFinished", "")
  BY <1>1, <1>2 DEF Behind
<1>4. Head(fromServer) = pre /\ fromServer' = said /\ fromViewer = <<>>
  BY <1>1, <1>2, ServingIs, HeadOf DEF Queues, Securing
<1>5. pre.type = "ServerFinished"
  BY <1>3, ClearFields
<1> DEFINE d == [cc EXCEPT !.tls = TRUE]
           out == <<>>
<1>6. d \in CC /\ d.tls /\ d.type = cc.type /\ d.version = cc.version
  BY <1>1, CCEncrypted DEF Securing
<1>7. Begun(d) = Of(d, out) /\ Begun(cc) = Of(cc, out) /\ IsSeq(out)
  BY OfIs, ShortSeq
<1>8. PICK st \in ViewerSecurity(pre) : cc' = st.c /\ fromViewer' = fromViewer \o st.out
  BY <1>1, <1>4 DEF Securing, ViewerIs
<1>9. st = Ended(Begun(cc)) \/ st \in Identify(Begun(d))
  BY <1>5, <1>8 DEF ViewerSecurity, ViewerTLS, ViewerTLSDone
<1> HIDE DEF d
<1>10. out = <<>>
  OBVIOUS
<1> HIDE DEF out
<1>11. CASE st = Ended(Begun(cc))
  <2>1. st.c \in CC /\ st.c.state = "closed" /\ st.out = out
    BY <1>1, <1>7, <1>11, ViewerEnded DEF Securing
  <2>2. fromViewer' = <<>>
    BY <1>4, <1>8, <1>10, <2>1, Joined, ShortSeq
  <2>3. sc.state \in {"querying", "init"} => Passed(setting, sc)
    BY <1>2, ServingIs
  <2> QED BY <1>1, <1>8, <2>1, <2>2, <2>3, ViewerGives DEF Securing
<1>12. CASE st \in Identify(Begun(d))
  <2>1. AtLayer(setting, d, t)
    BY <1>3, <1>6 DEF AtLayer
  <2>2. Identified(st, out, t)
    BY <1>2, <1>3, <1>6, <1>7, <1>12, <2>1, IdentifyIs
  <2> QED BY <1>1, <1>2, <1>4, <1>8, <1>10, <2>2, ViewerCatchesUp DEF Securing
<1> QED BY <1>9, <1>11, <1>12

\* The viewer answers the challenge.
LEMMA RespondInv ==
  ASSUME ShakeInv, ViewerReadsSecurity, BothIdentify
  PROVE  ShakeInv'
<1>1. /\ cc.state = "security" /\ Securing(Head(fromServer))
  BY SecuringIs
<1>2. PICK t \in SecType :
         Serving(setting, sc, fromServer, t) /\ Identifying(setting, cc, fromViewer, t)
  BY DEF BothIdentify
<1>3. /\ Credential(t) = "password" /\ Waits(cc, "Challenge") /\ fromViewer = <<>>
      /\ cc.version = setting.version /\ cc.type = t /\ t \in Range(setting.viewerTypes)
      /\ (cc.tls <=> Encryption(t) # "none")
  BY <1>1, <1>2 DEF Identifying, Waits
<1>4. /\ Waits(sc, "Response") /\ fromServer = <<Message("Challenge", "", sc.tls)>>
      /\ sc.version = setting.version /\ sc.type = t /\ t \in Range(setting.serverTypes)
      /\ (sc.tls <=> Encryption(t) # "none")
  BY <1>2, <1>3 DEF Serving
<1> DEFINE m == Head(fromServer)
           e == <<>>
           knows == setting.knows
           k == Message("Response", knows, cc.tls)
           d == [cc EXCEPT !.state = "result"]
<1>5. m.type = "Challenge" /\ Tail(fromServer) = <<>>
  <2> DEFINE c == Message("Challenge", "", sc.tls)
  <2>1. m = c /\ Tail(fromServer) = <<>>
    BY <1>4, HeadOf, ShortSeq
  <2>2. c.type = "Challenge"
    BY DEF Message
  <2> HIDE DEF c, m
  <2> QED BY <2>1, <2>2
<1> HIDE DEF m
<1>6. ViewerSecurity(m) = {LayersPassed(Wrote(Begun(cc), "Response", knows)), Ended(Begun(cc))}
  BY <1>5 DEF ViewerSecurity, ViewerResponds
<1>7. PICK st \in ViewerSecurity(m) : cc' = st.c /\ fromViewer' = fromViewer \o st.out
  BY <1>1 DEF Securing, ViewerIs, m
<1>8. CASE st = Ended(Begun(cc))
  <2>1. Begun(cc) = Of(cc, e)
    BY OfIs
  <2>2. fromViewer \o e = <<>>
    BY <1>3, Joined, ShortSeq
  <2> HIDE DEF e
  <2>3. st.c \in CC /\ st.c.state = "closed" /\ st.out = e
    BY <1>1, <1>8, <2>1, ViewerEnded DEF Securing
  <2>4. fromViewer' = <<>>
    BY <1>7, <2>2, <2>3
  <2> QED BY <1>1, <1>4, <1>7, <2>3, <2>4, ViewerGives DEF Securing, Waits
<1>9. CASE st = LayersPassed(Wrote(Begun(cc), "Response", knows))
  <2>1. Wrote(Begun(cc), "Response", knows) = Of(cc, <<k>>)
    BY WroteFirst
  <2>2. HasResult(cc)
    BY <1>3, CredentialIs DEF HasResult
  <2>3. IsSeq(<<k>>) /\ fromViewer \o <<k>> = <<k>>
    BY <1>3, Joined, ShortSeq
  <2>4. d \in CC /\ Like(d, cc, "result")
    BY <1>1, CCState DEF Securing
  <2>5. k = Message("Response", knows, d.tls)
    BY <2>4 DEF Like
  <2> HIDE DEF k, knows
  <2>6. LayersPassed(Of(cc, <<k>>)) = Of(d, <<k>>)
    <3> DEFINE out == <<k>>
    <3>1. IsSeq(out) /\ cc \in CC
      BY <1>1, <2>3 DEF Securing
    <3> HIDE DEF out
    <3>2. LayersPassed(Of(cc, out)) = Of(d, out)
      BY <2>2, <3>1, LayersPassedIs
    <3> QED BY <3>2 DEF out
  <2> HIDE DEF d
  <2>7. cc' = d /\ fromViewer' = <<k>>
    <3> DEFINE out == <<k>>
    <3>1. st = Of(d, out)
      BY <1>9, <2>1, <2>6
    <3> HIDE DEF out
    <3>2. st.c = d /\ st.out = out
      BY <3>1, OfIs
    <3> QED BY <1>7, <2>3, <3>2 DEF out
  <2>8. cc.tls \in BOOLEAN /\ sc.tls \in BOOLEAN
    BY <1>1 DEF Securing, CC, SC
  <2>9. cc.tls = sc.tls
    BY <1>3, <1>4, <2>8
  <2>10. Agreed'
    BY <1>1, <1>3, <1>4, <2>4, <2>7, <2>9 DEF Agreed, Securing, Like
  <2>11. Responding'
    BY <1>1, <1>3, <1>4, <1>5, <2>4, <2>5, <2>7, <2>10
    DEF Responding, Securing, Like, Waits, Queues, m, knows
  <2>12. Situation'
    BY <2>11 DEF Situation
  <2> QED BY <1>1, <2>4, <2>7, <2>12, Becomes DEF Securing
<1> QED BY <1>6, <1>7, <1>8, <1>9

\* The viewer reads a message of its security type.
LEMMA ViewerReadsSecurityInv ==
  ASSUME ShakeInv, ViewerReadsSecurity
  PROVE  ShakeInv'
<1>1. cc.state = "security" /\ fromServer # <<>>
  BY SecuringIs
<1>2. \/ OfferingVeNCrypt \/ OfferingSubTypes \/ Encrypting \/ NotReady \/ ViewerBehind
      \/ BothIdentify
  BY <1>1, Places DEF ShakeInv, Situation, At
<1> QED BY <1>2, OfferingVeNCryptInv, OfferingSubTypesInv, ViewerEncryptsInv, NotReadyInv,
           ViewerEncryptedInv, RespondInv

-----------------------------------------------------------------------------
\* At the same layer, both have agreed on everything.
LEMMA AgreedIs ==
  ASSUME cc \in CC, sc \in SC, NEW t, NEW said, NEW told,
         Serving(setting, sc, said, t), Identifying(setting, cc, told, t)
  PROVE  Agreed /\ cc.type = t /\ sc.type = t /\ (HasResult(cc) <=> HasResult(sc))
<1>1. cc.tls \in BOOLEAN /\ sc.tls \in BOOLEAN
  BY DEF CC, SC
<1>2. /\ sc.version = setting.version /\ sc.type = t
      /\ (sc.tls <=> Encryption(t) # "none")
  BY DEF Serving
<1>3. /\ cc.version = setting.version /\ cc.type = t /\ t \in Range(setting.viewerTypes)
      /\ (cc.tls <=> Encryption(t) # "none")
  BY DEF Identifying
<1>4. cc.tls = sc.tls
  BY <1>1, <1>2, <1>3
<1> QED BY <1>2, <1>3, <1>4 DEF Agreed, HasResult

\* What is left of the results of a refusal when one is read.
LEMMA FailureRead ==
  ASSUME NEW tls, NEW said \in Failures(tls), said # <<>>
  PROVE  Head(said) = Message("Result", FALSE, tls) /\ Tail(said) \in Failures(tls)
<1> DEFINE m == Message("Result", FALSE, tls)
<1>1. Failures(tls) = {<<>>, <<m>>, <<m, m>>}
  BY DEF Failures
<1> HIDE DEF m
<1>2. Head(<<m>>) = m /\ Tail(<<m>>) = <<>> /\ Head(<<m, m>>) = m /\ Tail(<<m, m>>) = <<m>>
  BY PairHead
<1>3. Head(said) = m /\ Tail(said) \in Failures(tls)
  BY <1>1, <1>2
<1> QED BY <1>3 DEF m

\* Where there is a result, the server that has judged has written it.
LEMMA WaitingInv ==
  ASSUME ShakeInv, ViewerReadsResult, Waiting
  PROVE  ShakeInv'
<1>1. setting \in Settings /\ cc \in CC /\ sc \in SC
  BY DEF ShakeInv, HandshakeTypeOK
<1>2. /\ fromServer # <<>> /\ setting' = setting /\ sc' = sc /\ fromServer' = Tail(fromServer)
      /\ cc.state = "result"
  BY <1>1, ViewerReadsIt DEF ViewerReadsResult
<1>3. ViewerIs({IF Head(fromServer).value THEN SecurityCompleted(Begun(cc)) ELSE Ended(Begun(cc))})
  BY DEF ViewerReadsResult
<1>4. Agreed /\ HasResult(sc) /\ fromViewer = <<>> /\ Judged(setting, sc, fromServer)
  BY DEF Waiting
<1>5. IsSeq(fromViewer)
  BY <1>4, ShortSeq
<1>6. CASE sc.state = "closed"
  <2> DEFINE b == FALSE
             m == Message("Result", b, sc.tls)
  <2>1. fromServer \in Failures(sc.tls)
    BY <1>4, <1>6 DEF Judged
  <2>2. Head(fromServer) = m
    BY <1>2, <2>1, FailureRead
  <2>3. m.value = b
    BY DEF Message
  <2>4. ~b
    OBVIOUS
  <2> HIDE DEF b, m
  <2>5. ViewerIs({Ended(Begun(cc))})
    BY <1>3, <2>2, <2>3, <2>4
  <2>6. cc' \in CC /\ cc'.state = "closed"
    BY <1>1, <1>5, <2>5, ViewerCloses
  <2> QED BY <1>2, <1>6, <2>6, ViewerGives
<1>7. CASE sc.state = "init"
  <2> DEFINE b == TRUE
             m == Message("Result", b, sc.tls)
             e == <<>>
             k == Message("ClientInit", "", cc.tls)
             d == [cc EXCEPT !.state = "init"]
  <2>1. fromServer = <<m>> /\ Passed(setting, sc)
    BY <1>4, <1>7 DEF Judged
  <2>2. m.value = b
    BY DEF Message
  <2>3. b
    OBVIOUS
  <2> HIDE DEF b, m
  <2>4. Head(fromServer) = m /\ Tail(fromServer) = <<>>
    BY <2>1, HeadOf, ShortSeq
  <2>5. ViewerIs({SecurityCompleted(Begun(cc))})
    BY <1>3, <2>2, <2>3, <2>4
  <2>6. Begun(cc) = Of(cc, e) /\ IsSeq(e) /\ e \o <<k>> = <<k>>
    BY OfIs, ShortSeq, Joined
  <2>7. fromViewer \o <<k>> = <<k>>
    BY <1>4, ShortSeq, Joined
  <2> HIDE DEF e
  <2>8. SecurityCompleted(Begun(cc)) = Of(d, <<k>>)
    BY <1>1, <2>6, SecurityCompletedIs
  <2>9. d \in CC /\ Like(d, cc, "init")
    BY <1>1, CCState
  <2>10. k = Message("ClientInit", "", d.tls)
    BY <2>9 DEF Like
  <2> HIDE DEF d, k
  <2>11. cc' = d /\ fromViewer' = <<k>>
    <3>1. ViewerIs({Of(d, <<k>>)})
      BY <2>5, <2>8
    <3> QED BY <2>7, <3>1, ViewerBecomes
  <2>12. Agreed'
    BY <1>2, <1>4, <2>9, <2>11 DEF Agreed, Like
  <2>13. Entering'
    BY <1>2, <1>7, <2>1, <2>4, <2>9, <2>10, <2>11, <2>12 DEF Entering, Queues, Like
  <2>14. Situation'
    BY <2>13 DEF Situation
  <2> QED BY <1>1, <1>2, <2>9, <2>11, <2>14, Becomes
<1> QED BY <1>2, <1>4, <1>6, <1>7 DEF Judged

\* The viewer reads the result.
LEMMA ViewerReadsResultInv ==
  ASSUME ShakeInv, ViewerReadsResult
  PROVE  ShakeInv'
<1>1. setting \in Settings /\ cc \in CC /\ sc \in SC
  BY DEF ShakeInv, HandshakeTypeOK
<1>2. fromServer # <<>> /\ cc.state = "result"
  BY <1>1, ViewerReadsIt DEF ViewerReadsResult
<1>3. BothIdentify \/ Waiting
  BY <1>2, Places DEF ShakeInv, Situation, At
<1>4. ASSUME BothIdentify PROVE Waiting
  <2>1. PICK t \in SecType :
          Serving(setting, sc, fromServer, t) /\ Identifying(setting, cc, fromViewer, t)
    BY <1>4 DEF BothIdentify
  <2>2. Agreed /\ cc.type = t /\ sc.type = t /\ (HasResult(cc) <=> HasResult(sc))
    BY <1>1, <2>1, AgreedIs
  <2>3. Credential(t) = "none" /\ HasResult(cc) /\ fromViewer = <<>>
    BY <1>2, <2>1 DEF Identifying, Serving, Waits
  <2>4. Judged(setting, sc, fromServer)
    BY <2>1, <2>3 DEF Serving
  <2> QED BY <1>2, <2>2, <2>3, <2>4 DEF Waiting
<1> QED BY <1>3, <1>4, WaitingInv

\* It reads it where it does not expect one.
LEMMA ViewerMisreadsResultInv ==
  ASSUME ShakeInv, ViewerMisreadsResult
  PROVE  ShakeInv'
<1>1. setting \in Settings /\ cc \in CC /\ sc \in SC
  BY DEF ShakeInv, HandshakeTypeOK
<1>2. /\ cc.state = "init" /\ fromServer # <<>> /\ Head(fromServer).type = "Result"
      /\ fromServer' = Tail(fromServer)
      /\ setting' = setting /\ cc' = cc /\ sc' = sc /\ fromViewer' = fromViewer
  BY DEF ViewerMisreadsResult
<1>3. ~Entered
  <2>1. ASSUME Entered PROVE FALSE
    <3> DEFINE m == Message("ServerInit", "", cc.tls)
    <3>1. fromServer = <<m>>
      BY <1>2, <2>1 DEF Entered, Queues
    <3>2. m.type = "ServerInit"
      BY DEF Message
    <3> HIDE DEF m
    <3> QED BY <1>2, <3>1, <3>2, HeadOf, ShortSeq
  <2> QED BY <2>1
<1>4. BothIdentify
  BY <1>2, <1>3, Places DEF ShakeInv, Situation, At
<1>5. PICK t \in SecType :
        Serving(setting, sc, fromServer, t) /\ Identifying(setting, cc, fromViewer, t)
  BY <1>4 DEF BothIdentify
<1>6. Agreed /\ cc.type = t /\ sc.type = t /\ (HasResult(cc) <=> HasResult(sc))
  BY <1>1, <1>5, AgreedIs
<1>7. Credential(t) = "none" /\ ~HasResult(cc)
  BY <1>2, <1>5 DEF Identifying, Waits
<1>8. sc.state = "closed" /\ fromServer \in Failures(sc.tls)
  BY <1>2, <1>5, <1>6, <1>7 DEF Serving, Judged
<1>9. Tail(fromServer) \in Failures(sc.tls)
  BY <1>2, <1>8, FailureRead
<1>10. Serving(setting, sc, Tail(fromServer), t)
  BY <1>5, <1>7, <1>8, <1>9 DEF Serving, Judged
<1>11. BothIdentify'
  BY <1>2, <1>5, <1>10 DEF BothIdentify
<1>12. Situation'
  BY <1>11 DEF Situation
<1> QED BY <1>1, <1>2, <1>12, Becomes

\* The viewer sees that the server has closed the connection.
LEMMA ViewerSeesEndInv ==
  ASSUME ShakeInv, ViewerSeesEnd
  PROVE  ShakeInv'
<1>1. setting' = setting /\ sc' = sc /\ sc.state = "closed" /\ cc' = [cc EXCEPT !.state = "closed"]
  BY DEF ViewerSeesEnd
<1>2. cc' \in CC /\ Like(cc', cc, "closed")
  BY <1>1, CCState DEF ShakeInv, HandshakeTypeOK
<1> QED BY <1>1, <1>2, ViewerGives DEF Like

\* The viewer reads ServerInit.
LEMMA EnterSessionInv ==
  ASSUME ShakeInv, EnterSession
  PROVE  ShakeInv'
<1>1. setting \in Settings /\ cc \in CC /\ sc \in SC
  BY DEF ShakeInv, HandshakeTypeOK
<1>2. setting' \in Settings
  BY <1>1 DEF EnterSession
<1>3. /\ "normal" \in {"version", "types", "security", "result", "init", "normal", "closed"}
      /\ 8 \in {3, 8} /\ "None" \in SecType \cup {"VeNCrypt"} /\ "" \in Awaited
      /\ Default \in SUBSET {"view", "control"}
  BY DEF SecType, Awaited, Default
<1> DEFINE a == cc.tls
           b == sc.tls
<1>4. a \in BOOLEAN /\ b \in BOOLEAN
  BY <1>1 DEF CC, SC
<1>5. /\ cc' = [state |-> "normal", version |-> 8, type |-> "None", waits |-> "", tls |-> a]
      /\ sc' = [state |-> "normal", version |-> 8, type |-> "None", waits |-> "", tls |-> b,
                rights |-> Default]
      /\ fromServer' = <<>> /\ fromViewer' = <<>>
  BY DEF EnterSession
<1> HIDE DEF a, b
<1>6. cc' \in CC
  BY <1>3, <1>4, <1>5 DEF CC
<1>7. sc' \in SC
  BY <1>3, <1>4, <1>5 DEF SC
<1>8. cc'.state = "normal" /\ sc'.state = "normal"
  BY <1>5
<1>9. Entered'
  BY <1>5, <1>8 DEF Entered, Queues
<1>10. Situation'
  BY <1>9 DEF Situation
<1> QED BY <1>2, <1>6, <1>7, <1>10 DEF ShakeInv, HandshakeTypeOK

\* Both sides before anything is read.
LEMMA BothFresh ==
  ASSUME NEW s \in Settings
  PROVE  /\ NewCC \in CC /\ NewCC.state = "version" /\ ~NewCC.tls
         /\ NewSC(s) \in SC /\ NewSC(s).state = (IF s.blackmarked THEN "closed" ELSE "version")
         /\ NewSC(s).version = s.version /\ ~NewSC(s).tls
<1> DEFINE b == FALSE
           x == IF s.blackmarked THEN "closed" ELSE "version"
           n == [state |-> "version", version |-> 8, type |-> "None", waits |-> "", tls |-> b]
           r == [state |-> x, version |-> s.version, type |-> "None", waits |-> "", tls |-> b,
                 rights |-> Default]
<1>1. b \in BOOLEAN /\ ~b /\ NewCC = n /\ NewSC(s) = r
  BY DEF NewCC, NewSC
<1>2. /\ x \in {"version", "closed"}
      /\ s.version \in {3, 8} /\ "None" \in SecType \cup {"VeNCrypt"} /\ "" \in Awaited
      /\ Default \in SUBSET {"view", "control"}
  BY DEF SecType, Awaited, Default, Settings
<1> HIDE DEF b, x
<1>3. n \in CC /\ n.state = "version" /\ n.tls = b
  BY <1>1, <1>2 DEF CC
<1>4. r \in SC /\ r.state = x /\ r.version = s.version /\ r.tls = b
  BY <1>1, <1>2 DEF SC
<1> HIDE DEF n, r
<1> QED BY <1>1, <1>3, <1>4 DEF x

\* A connection begins.
LEMMA StartInv ==
  ASSUME NEW s \in Settings, setting = s, cc = NewCC, sc = NewSC(s),
         fromServer = FirstWords(s), fromViewer = <<>>
  PROVE  ShakeInv
<1>1. OfferingVersion
  <2>1. CASE s.blackmarked
    <3>1. fromServer = <<Clear("Version", 3), Clear("Refused", "")>>
      BY <2>1 DEF FirstWords, Clear
    <3> QED BY <2>1, <3>1, BothFresh DEF OfferingVersion, Queues
  <2>2. CASE ~s.blackmarked
    <3>1. fromServer = <<Clear("Version", s.version)>>
      BY <2>2 DEF FirstWords, Clear
    <3> QED BY <2>2, <3>1, BothFresh DEF OfferingVersion, Queues
  <2> QED BY <2>1, <2>2
<1> QED BY <1>1, BothFresh DEF ShakeInv, HandshakeTypeOK, Situation

\* It begins again.
LEMMA ReconnectInv ==
  ASSUME ShakeInv, Reconnect
  PROVE  ShakeInv'
<1> DEFINE s == setting
<1>1. s \in Settings
  BY DEF ShakeInv, HandshakeTypeOK
<1>2. /\ setting' = s /\ cc' = NewCC /\ sc' = NewSC(s) /\ fromServer' = FirstWords(s)
      /\ fromViewer' = <<>>
  BY DEF Reconnect
<1>3. OfferingVersion'
  <2>1. CASE s.blackmarked
    <3>1. fromServer' = <<Clear("Version", 3), Clear("Refused", "")>>
      BY <1>2, <2>1 DEF FirstWords, Clear
    <3> QED BY <1>1, <1>2, <2>1, <3>1, BothFresh DEF OfferingVersion, Queues
  <2>2. CASE ~s.blackmarked
    <3>1. fromServer' = <<Clear("Version", s.version)>>
      BY <1>2, <2>2 DEF FirstWords, Clear
    <3> QED BY <1>1, <1>2, <2>2, <3>1, BothFresh DEF OfferingVersion, Queues
  <2> QED BY <2>1, <2>2
<1> QED BY <1>1, <1>2, <1>3, BothFresh DEF ShakeInv, HandshakeTypeOK, Situation

-----------------------------------------------------------------------------
\* The server answers in the clear and waits.
LEMMA ServerAnswers ==
  ASSUME sc \in SC, ~sc.tls, NEW type, NEW value, NEW m \in Awaited,
         ServerIs({Awaits(Wrote(Begun(sc), type, value), m)})
  PROVE  /\ sc' \in SC /\ WaitsFor(sc', sc, m)
         /\ fromServer' = fromServer \o <<Clear(type, value)>>
<1> DEFINE k == Clear(type, value)
           d == [sc EXCEPT !.state = "security", !.waits = m]
<1>1. Wrote(Begun(sc), type, value) = Of(sc, <<k>>)
  BY ClearIs, WroteFirst
<1> HIDE DEF k
<1>2. Awaits(Of(sc, <<k>>), m) = Of(d, <<k>>) /\ d \in SC /\ WaitsFor(d, sc, m)
  BY AwaitsIs, SCWaits
<1> HIDE DEF d
<1>3. ServerIs({Of(d, <<k>>)})
  BY <1>1, <1>2
<1>4. sc' = d /\ fromServer' = fromServer \o <<k>>
  BY <1>3, ServerBecomes
<1> QED BY <1>2, <1>4 DEF k

\* The server closes the connection in a handler.
LEMMA ServerCloses ==
  ASSUME sc \in SC, ServerIs({Ended(Begun(sc))}), IsSeq(fromServer)
  PROVE  sc' \in SC /\ sc'.state = "closed" /\ fromServer' = fromServer
<1> DEFINE e == <<>>
           d == [sc EXCEPT !.state = "closed"]
<1>1. d \in SC /\ Like(d, sc, "closed")
  BY SCState
<1>2. Begun(sc) = Of(sc, e)
  BY OfIs
<1>3. fromServer \o e = fromServer
  BY Joined
<1> HIDE DEF e
<1>4. Ended(Of(sc, e)) = Of(d, e)
  BY EndedIs
<1> HIDE DEF d
<1>5. ServerIs({Of(d, e)})
  BY <1>2, <1>4
<1>6. sc' = d /\ fromServer' = fromServer \o e
  BY <1>5, ServerBecomes
<1> QED BY <1>1, <1>3, <1>6 DEF Like

\* The server reads the version.
LEMMA ServerReadsVersionInv ==
  ASSUME ShakeInv, ServerReadsVersion
  PROVE  ShakeInv'
<1> DEFINE m == Head(fromViewer)
           v == setting.version
           d == [sc EXCEPT !.version = v, !.state = "type"]
           offered == EnabledSecTypes(setting.serverTypes)
           t == FirstOf(offered, LegacyTypes)
<1>1. setting \in Settings /\ cc \in CC /\ sc \in SC
  BY DEF ShakeInv, HandshakeTypeOK
<1>2. /\ fromViewer # <<>> /\ setting' = setting /\ cc' = cc /\ fromViewer' = Tail(fromViewer)
      /\ sc.state = "version"
  BY <1>1, ServerReadsIt DEF ServerReadsVersion
<1>3. ChoosingVersion
  <2>1. ~OfferingVersion
    BY <1>2 DEF OfferingVersion, Queues
  <2>2. ~ViewerGone
    BY <1>2 DEF ViewerGone, Waits
  <2> QED BY <1>2, <2>1, <2>2, Places DEF ShakeInv, Situation, At
<1>4. /\ m = Clear("Version", v) /\ fromViewer' = <<>> /\ fromServer = <<>>
      /\ cc.state = "types" /\ ~cc.tls /\ cc.version = v /\ ~sc.tls
  BY <1>2, <1>3, HeadOf, ShortSeq DEF ChoosingVersion, Queues
<1>5. m.value = v
  <2> HIDE DEF m, v
  <2>1. m = Clear("Version", v)
    BY <1>4
  <2>2. Clear("Version", v).value = v
    BY ClearFields
  <2> QED BY <2>1, <2>2
<1>6. v \in {3, 8}
  BY <1>1 DEF Settings
<1> HIDE DEF m, v
<1>7. d \in SC /\ d.state = "type" /\ d.version = v /\ d.tls = sc.tls
  BY <1>1, <1>6, SCVersion
<1>8. ~d.tls
  BY <1>4, <1>7
<1> HIDE DEF offered, t
<1>9. ServerIs(IF v = 8 THEN {Wrote(Begun(d), "Types", offered)}
               ELSE IF Range(offered) \cap LegacyTypes = {} THEN {Ended(Wrote(Begun(d), "Refused", ""))}
               ELSE ServeSecurity(Wrote(Begun(d), "Chosen", <<t>>), t))
  BY <1>5 DEF ServerReadsVersion, ServerVersion, m, offered, t
<1> HIDE DEF d
<1>10. \A q : IsSeq(q) => <<>> \o q = q
  BY Joined
<1>11. CASE v = 8
  <2> DEFINE k == Clear("Types", offered)
  <2>1. Wrote(Begun(d), "Types", offered) = Of(d, <<k>>)
    BY <1>7, <1>8, ClearIs, WroteFirst
  <2> HIDE DEF k
  <2>2. ServerIs({Of(d, <<k>>)})
    BY <1>9, <1>11, <2>1
  <2>3. sc' = d /\ fromServer' = <<k>>
    BY <1>4, <1>10, <2>2, ServerBecomes, ShortSeq
  <2>4. OfferingTypes'
    BY <1>2, <1>4, <1>7, <1>8, <1>11, <2>3 DEF OfferingTypes, Modern, Queues, k, offered, v
  <2>5. Situation'
    BY <2>4 DEF Situation
  <2> QED BY <1>1, <1>2, <1>7, <2>3, <2>5, Becomes
<1>12. CASE v # 8 /\ Range(offered) \cap LegacyTypes = {}
  <2> DEFINE k == Clear("Refused", "")
  <2>1. Wrote(Begun(d), "Refused", "") = Of(d, <<k>>)
    <3>1. Wrote(Begun(d), "Refused", "") = Of(d, <<Message("Refused", "", d.tls)>>)
      BY WroteFirst
    <3>2. Message("Refused", "", d.tls) = k
      BY <1>7, <1>8, ClearIs
    <3> QED BY <3>1, <3>2
  <2> HIDE DEF k
  <2>2. PICK st \in {Ended(Of(d, <<k>>))} : sc' = st.c /\ fromServer' = fromServer \o st.out
    BY <1>9, <1>12, <2>1 DEF ServerIs
  <2>3. st.c \in SC /\ st.c.state = "closed" /\ st.out = <<k>>
    BY <1>7, <2>2, ServerEnded
  <2>4. sc' \in SC /\ sc'.state = "closed" /\ fromServer' = <<k>>
    BY <1>4, <1>10, <2>2, <2>3, ShortSeq
  <2>5. Refused'
    BY <1>2, <1>4, <1>6, <1>12, <2>4 DEF Refused, k
  <2>6. Situation'
    BY <2>5 DEF Situation
  <2> QED BY <1>1, <1>2, <2>4, <2>6, Becomes
<1>13. CASE v # 8 /\ Range(offered) \cap LegacyTypes # {}
  <2> DEFINE k == Clear("Chosen", <<t>>)
             out == <<k>>
  <2>1. /\ offered \in Seq(SecType \cup {"VeNCrypt"})
        /\ Range(offered) = {"VeNCrypt"} \cup Range(setting.serverTypes)
        /\ Range(setting.serverTypes) \subseteq SecType
    BY <1>1, TypeLists, EnabledIs DEF offered
  <2>2. t \in Range(offered) \cap LegacyTypes
    BY <1>13, <2>1, FirstOfIs DEF t
  <2>3. "VeNCrypt" \notin LegacyTypes
    BY DEF LegacyTypes
  <2>4. t \in LegacyTypes /\ t \in Range(setting.serverTypes) /\ t \in SecType
    BY <2>1, <2>2, <2>3
  <2>5. Encryption(t) = "none"
    BY <2>4 DEF LegacyTypes, Encryption
  <2>6. Wrote(Begun(d), "Chosen", <<t>>) = Of(d, out) /\ IsSeq(out)
    <3>1. Wrote(Begun(d), "Chosen", <<t>>) = Of(d, <<Message("Chosen", <<t>>, d.tls)>>)
      BY WroteFirst
    <3>2. Message("Chosen", <<t>>, d.tls) = k
      BY <1>7, <1>8, ClearIs
    <3> HIDE DEF k
    <3> QED BY <3>1, <3>2, ShortSeq
  <2> HIDE DEF out
  <2>7. PICK st \in ServeSecurity(Of(d, out), t) : sc' = st.c /\ fromServer' = fromServer \o st.out
    BY <1>9, <1>13, <2>6 DEF ServerIs
  <2>8. Challenged(st, out, t)
    BY <1>1, <1>7, <1>8, <2>4, <2>5, <2>6, <2>7, ServeSecurityIs DEF v
  <2>9. PICK said : IsSeq(said) /\ st.out = out \o said /\ Serving(setting, st.c, said, t)
    BY <2>8 DEF Challenged
  <2>10. fromServer' = <<k>> \o said
    BY <1>4, <1>10, <2>6, <2>7, <2>9, Joined DEF out
  <2>11. Behind(setting', cc', k, t)
    BY <1>2, <1>4, <1>6, <1>13, <2>4 DEF Behind, v
  <2>12. ViewerBehind'
    BY <1>2, <1>4, <2>4, <2>7, <2>9, <2>10, <2>11 DEF ViewerBehind, Queues
  <2>13. Situation'
    BY <2>12 DEF Situation
  <2> QED BY <1>1, <1>2, <2>7, <2>8, <2>13, Becomes DEF Challenged
<1> QED BY <1>11, <1>12, <1>13

\* The server reads the type.
LEMMA ServerReadsTypeInv ==
  ASSUME ShakeInv, ServerReadsType
  PROVE  ShakeInv'
<1> DEFINE m == Head(fromViewer)
           v == "VeNCrypt"
           k == Clear("Type", v)
           a == Clear("VeNCryptVersion", "")
           e == <<>>
<1>1. setting \in Settings /\ cc \in CC /\ sc \in SC
  BY DEF ShakeInv, HandshakeTypeOK
<1>2. /\ fromViewer # <<>> /\ setting' = setting /\ cc' = cc /\ fromViewer' = Tail(fromViewer)
      /\ sc.state = "type"
  BY <1>1, ServerReadsIt DEF ServerReadsType
<1>3. ChoosingType
  <2>1. ~OfferingTypes
    BY <1>2 DEF OfferingTypes, Queues
  <2>2. ~ViewerGone
    BY <1>2 DEF ViewerGone, Waits
  <2> QED BY <1>2, <2>1, <2>2, Places DEF ShakeInv, Situation, At
<1>4. m = k /\ fromViewer' = <<>> /\ fromServer = <<>> /\ Modern /\ Waits(cc, "VeNCryptVersion")
  BY <1>2, <1>3, HeadOf, ShortSeq DEF ChoosingType, Queues
<1>5. k.value = v
  BY ClearFields
<1>6. Begun(sc) = Of(sc, e) /\ IsSeq(e) /\ ~sc.tls /\ e \o <<a>> = <<a>> /\ fromServer \o <<a>> = <<a>>
  BY <1>4, OfIs, ShortSeq, Joined DEF Modern
<1> HIDE DEF m, k, a, e
<1>7. PICK st \in ServeSecurity(Of(sc, e), "VeNCrypt") :
        sc' = st.c /\ fromServer' = fromServer \o st.out
  BY <1>4, <1>5, <1>6 DEF ServerReadsType, ServerIs, m
<1>8. /\ st.c \in SC /\ Waits(st.c, "VeNCryptVersion")
      /\ st.c.version = sc.version /\ ~st.c.tls /\ st.out = e \o <<a>>
  BY <1>1, <1>6, <1>7, ServeVeNCryptIs DEF a
<1>9. fromServer' = <<a>>
  BY <1>6, <1>7, <1>8
<1>10. OfferingVeNCrypt'
  BY <1>2, <1>4, <1>7, <1>8, <1>9 DEF OfferingVeNCrypt, Modern, Queues, Waits, a
<1>11. Situation'
  BY <1>10 DEF Situation
<1> QED BY <1>1, <1>2, <1>7, <1>8, <1>11, Becomes

-----------------------------------------------------------------------------
\* The server reads a message m of a security type.
ServingWith(m) ==
  /\ setting \in Settings /\ cc \in CC /\ sc \in SC
  /\ setting' = setting /\ cc' = cc /\ fromViewer' = Tail(fromViewer)
  /\ Head(fromViewer) = m /\ ServerIs(ServerSecurity(m))

\* What the server has read is what it waited for.
LEMMA ServingWithIs ==
  ASSUME ShakeInv, ServerReadsSecurity
  PROVE  /\ sc.state = "security" /\ fromViewer # <<>>
         /\ Head(fromViewer).type = sc.waits
         /\ ServingWith(Head(fromViewer))
<1>1. setting \in Settings /\ cc \in CC /\ sc \in SC
  BY DEF ShakeInv, HandshakeTypeOK
<1>2. /\ fromViewer # <<>> /\ setting' = setting /\ cc' = cc /\ fromViewer' = Tail(fromViewer)
      /\ Head(fromViewer).type \in {sc.waits}
  BY <1>1, ServerReadsIt DEF ServerReadsSecurity
<1>3. sc.state = "security" /\ ServerIs(ServerSecurity(Head(fromViewer)))
  BY DEF ServerReadsSecurity
<1> QED BY <1>1, <1>2, <1>3 DEF ServingWith

\* The server reads VeNCrypt's version, and offers the sub-types.
LEMMA ChoosingVeNCryptInv ==
  ASSUME ShakeInv, ServerReadsSecurity, ChoosingVeNCrypt
  PROVE  ShakeInv'
<1> DEFINE m == Clear("VeNCryptVersion", "")
           types == setting.serverTypes
           a == Clear("SubTypes", types)
<1>1. Head(fromViewer) = m /\ Tail(fromViewer) = <<>> /\ fromServer = <<>>
  BY HeadOf, ShortSeq DEF ChoosingVeNCrypt, Queues
<1>2. m.type = "VeNCryptVersion"
  BY ClearFields
<1> HIDE DEF m
<1>3. ServingWith(m)
  BY <1>1, ServingWithIs
<1>4. ~sc.tls
  BY DEF ChoosingVeNCrypt, Modern
<1>5. ServerSecurity(m) = {Awaits(Wrote(Begun(sc), "SubTypes", types), "SubType")}
  BY <1>2 DEF ServerSecurity
<1>6. "SubType" \in Awaited
  BY DEF Awaited
<1> HIDE DEF types
<1>7. sc' \in SC /\ WaitsFor(sc', sc, "SubType") /\ fromServer' = fromServer \o <<a>>
  BY <1>3, <1>4, <1>5, <1>6, ServerAnswers DEF ServingWith
<1> HIDE DEF a
<1>8. fromServer' = <<a>>
  BY <1>1, <1>7, Joined, ShortSeq
<1>9. OfferingSubTypes'
  BY <1>1, <1>3, <1>7, <1>8
  DEF ChoosingVeNCrypt, OfferingSubTypes, Modern, Waits, WaitsFor, Queues, ServingWith, a, types
<1>10. Situation'
  BY <1>9 DEF Situation
<1> QED BY <1>3, <1>7, <1>10, Becomes DEF ServingWith

\* Both sides choose: the server has been told the type.
LEMMA SubTypeIs ==
  ASSUME ServingWith(Head(fromViewer)), NEW t \in SecType, NEW m, m = Clear("SubType", t),
         Head(fromViewer) = m, fromServer = <<>>, sc.version = setting.version, ~sc.tls,
         t \in Range(setting.serverTypes)
  PROVE  /\ sc' \in SC
         /\ \/ /\ Encryption(t) = "none"
               /\ IsSeq(fromServer') /\ Serving(setting, sc', fromServer', t)
            \/ /\ Encryption(t) # "none" /\ Waits(sc', "ClientHello") /\ sc'.type = t
               /\ sc'.version = sc.version /\ ~sc'.tls
               /\ fromServer' = <<Clear("TLSReady", TRUE)>>
            \/ /\ Encryption(t) # "none" /\ sc'.state = "closed"
               /\ fromServer' = <<Clear("TLSReady", FALSE), Clear("Result", FALSE)>>
<1> DEFINE e == <<>>
<1>1. setting \in Settings /\ sc \in SC
  BY DEF ServingWith
<1>2. m.type = "SubType" /\ m.value = t
  BY ClearFields
<1>3. ServerSecurity(m) = ServeSecurity(Begun(sc), t)
  BY <1>2 DEF ServerSecurity
<1>4. Begun(sc) = Of(sc, e) /\ IsSeq(e) /\ fromServer = e
  BY OfIs, ShortSeq
<1>5. \A q : IsSeq(q) => e \o q = q
  BY Joined
<1> HIDE DEF e
<1>6. PICK st \in ServeSecurity(Of(sc, e), t) : sc' = st.c /\ fromServer' = fromServer \o st.out
  BY <1>3, <1>4 DEF ServingWith, ServerIs
<1>7. \/ Encryption(t) = "none" /\ Challenged(st, e, t)
      \/ Encryption(t) # "none" /\ (ReadyFor(st, sc, e, t) \/ UnreadyFor(st, e))
  BY <1>1, <1>4, <1>6, ServeSecurityIs
<1>8. CASE Encryption(t) = "none" /\ Challenged(st, e, t)
  <2>1. PICK said : IsSeq(said) /\ st.out = e \o said /\ Serving(setting, st.c, said, t)
    BY <1>8 DEF Challenged
  <2>2. fromServer' = said
    BY <1>4, <1>5, <1>6, <2>1
  <2> QED BY <1>6, <1>8, <2>1, <2>2 DEF Challenged
<1>9. CASE Encryption(t) # "none" /\ ReadyFor(st, sc, e, t)
  <2> DEFINE k == Clear("TLSReady", TRUE)
  <2>1. st.out = e \o <<k>>
    BY <1>9 DEF ReadyFor
  <2>2. IsSeq(<<k>>)
    BY ShortSeq
  <2> HIDE DEF k
  <2>3. fromServer' = <<k>>
    BY <1>4, <1>5, <1>6, <2>1, <2>2
  <2> QED BY <1>6, <1>9, <2>3 DEF ReadyFor, k
<1>10. CASE Encryption(t) # "none" /\ UnreadyFor(st, e)
  <2> DEFINE k == Clear("TLSReady", FALSE)
             r == Clear("Result", FALSE)
  <2>1. st.out = (e \o <<k>>) \o <<r>>
    BY <1>10 DEF UnreadyFor
  <2>2. IsSeq(<<k>>) /\ IsSeq(<<k, r>>) /\ <<k>> \o <<r>> = <<k, r>>
    BY ShortSeq, PairIs
  <2> HIDE DEF k, r
  <2>3. fromServer' = <<k, r>>
    BY <1>4, <1>5, <1>6, <2>1, <2>2
  <2> QED BY <1>6, <1>10, <2>3 DEF UnreadyFor, k, r
<1> QED BY <1>7, <1>8, <1>9, <1>10

\* The viewer has said one thing at that layer, or nothing.
LEMMA IdentifyingIs ==
  ASSUME NEW s, NEW c, NEW said, NEW t, Identifying(s, c, said, t)
  PROVE  IsSeq(said)
<1>1. said = <<>> \/ \E a : said = <<a>>
  BY DEF Identifying
<1> QED BY <1>1, ShortSeq

\* The server reads the sub-type.
LEMMA ChoosingSubTypeInv ==
  ASSUME ShakeInv, ServerReadsSecurity, ChoosingSubType
  PROVE  ShakeInv'
<1>1. ServingWith(Head(fromViewer))
  BY ServingWithIs
<1>2. PICK t \in Range(setting.serverTypes) \cap Range(setting.viewerTypes) :
        /\ Modern /\ Waits(sc, "SubType") /\ fromServer = <<>>
        /\ \/ /\ Encryption(t) # "none" /\ Waits(cc, "TLSReady") /\ cc.type = t
              /\ fromViewer = <<Clear("SubType", t)>>
           \/ \E said : /\ Encryption(t) = "none" /\ Identifying(setting, cc, said, t)
                        /\ fromViewer = <<Clear("SubType", t)>> \o said
  BY DEF ChoosingSubType
<1> DEFINE m == Clear("SubType", t)
<1>3. t \in SecType
  BY <1>1, <1>2, TypeLists DEF ServingWith
<1>4. /\ sc.version = setting.version /\ sc.version = 8 /\ ~sc.tls /\ cc.version = 8 /\ ~cc.tls
  BY <1>2 DEF Modern
<1>5. setting' = setting /\ cc' = cc /\ fromViewer' = Tail(fromViewer)
  BY <1>1 DEF ServingWith
<1> HIDE DEF m
<1>6. CASE Encryption(t) # "none" /\ Waits(cc, "TLSReady") /\ cc.type = t /\ fromViewer = <<m>>
  <2>1. Head(fromViewer) = m /\ fromViewer' = <<>>
    BY <1>5, <1>6, HeadOf, ShortSeq
  <2>2. /\ sc' \in SC
        /\ \/ /\ Waits(sc', "ClientHello") /\ sc'.type = t
              /\ sc'.version = sc.version /\ ~sc'.tls
              /\ fromServer' = <<Clear("TLSReady", TRUE)>>
           \/ /\ sc'.state = "closed"
              /\ fromServer' = <<Clear("TLSReady", FALSE), Clear("Result", FALSE)>>
    BY <1>1, <1>2, <1>3, <1>4, <1>6, <2>1, SubTypeIs DEF m
  <2>3. CASE /\ Waits(sc', "ClientHello") /\ sc'.type = t
             /\ sc'.version = sc.version /\ ~sc'.tls
             /\ fromServer' = <<Clear("TLSReady", TRUE)>>
    <3>1. Modern'
      BY <1>2, <1>5, <2>3 DEF Modern
    <3>2. Waits(cc, "TLSReady")' /\ Waits(sc, "ClientHello")' /\ cc'.type = sc'.type
      BY <1>5, <1>6, <2>3 DEF Waits
    <3>3. sc'.type \in Range(setting'.serverTypes) \cap Range(setting'.viewerTypes)
      BY <1>2, <1>5, <2>3
    <3>4. Encrypting'
      BY <1>6, <2>1, <2>3, <3>1, <3>2, <3>3 DEF Encrypting, Queues
    <3>5. Situation'
      BY <3>4 DEF Situation
    <3> QED BY <1>1, <1>5, <2>2, <3>5, Becomes DEF ServingWith
  <2>4. CASE /\ sc'.state = "closed"
             /\ fromServer' = <<Clear("TLSReady", FALSE), Clear("Result", FALSE)>>
    <3>1. NotReady'
      BY <1>4, <1>5, <1>6, <2>4 DEF NotReady, Waits
    <3>2. Situation'
      BY <3>1 DEF Situation
    <3> QED BY <1>1, <1>5, <2>2, <3>2, Becomes DEF ServingWith
  <2> QED BY <2>2, <2>3, <2>4
<1>7. ASSUME NEW said, Encryption(t) = "none", Identifying(setting, cc, said, t),
             fromViewer = <<m>> \o said
      PROVE  ShakeInv'
  <2>1. Head(fromViewer) = m /\ fromViewer' = said
    BY <1>5, <1>7, HeadOf, IdentifyingIs
  <2>2. sc' \in SC /\ Serving(setting, sc', fromServer', t)
    BY <1>1, <1>2, <1>3, <1>4, <1>7, <2>1, SubTypeIs DEF m
  <2>3. BothIdentify'
    BY <1>3, <1>5, <1>7, <2>1, <2>2 DEF BothIdentify
  <2>4. Situation'
    BY <2>3 DEF Situation
  <2> QED BY <1>1, <1>5, <2>2, <2>4, Becomes DEF ServingWith
<1> QED BY <1>2, <1>6, <1>7 DEF m

\* The viewer has gone since it chose.
LEMMA ChosenByNobodyInv ==
  ASSUME ShakeInv, ServerReadsSecurity, ViewerGone
  PROVE  ShakeInv'
<1>1. ServingWith(Head(fromViewer)) /\ sc.state = "security" /\ fromViewer # <<>>
  BY ServingWithIs
<1>2. PICK t \in Range(setting.serverTypes) :
           /\ Waits(sc, "SubType") /\ sc.version = 8 /\ setting.version = 8 /\ ~sc.tls
           /\ fromViewer = <<Clear("SubType", t)>>
  BY <1>1 DEF ViewerGone
<1> DEFINE m == Clear("SubType", t)
<1>3. t \in SecType
  BY <1>1, <1>2, TypeLists DEF ServingWith
<1>4. setting' = setting /\ cc' = cc /\ fromViewer' = Tail(fromViewer) /\ cc.state = "closed"
  BY <1>1 DEF ServingWith, ViewerGone
<1> HIDE DEF m
<1>5. Head(fromViewer) = m /\ fromViewer' = <<>>
  <2>1. fromViewer = <<m>>
    BY <1>2 DEF m
  <2> QED BY <1>4, <2>1, HeadOf, ShortSeq
<1> DEFINE e == <<>>
<1>6. Begun(sc) = Of(sc, e) /\ IsSeq(e)
  BY OfIs, ShortSeq
<1> HIDE DEF e
<1>7. m.type = "SubType" /\ m.value = t
  BY ClearFields DEF m
<1>8. PICK st \in ServeSecurity(Of(sc, e), t) : sc' = st.c
  BY <1>1, <1>5, <1>6, <1>7 DEF ServingWith, ServerIs, ServerSecurity
<1>9. \/ Encryption(t) = "none" /\ Challenged(st, e, t)
      \/ Encryption(t) # "none" /\ (ReadyFor(st, sc, e, t) \/ UnreadyFor(st, e))
  BY <1>1, <1>2, <1>3, <1>6, <1>8, ServeSecurityIs DEF ServingWith
<1>10. sc' \in SC /\ (sc'.state \in {"querying", "init"} => Passed(setting, sc'))
  <2>1. CASE Challenged(st, e, t)
    BY <1>8, <2>1, ServingIs DEF Challenged
  <2>2. CASE ReadyFor(st, sc, e, t) \/ UnreadyFor(st, e)
    BY <1>8, <2>2 DEF ReadyFor, UnreadyFor, Waits
  <2> QED BY <1>9, <2>1, <2>2
<1>11. ViewerGone'
  BY <1>4, <1>5, <1>10 DEF ViewerGone
<1>12. Situation'
  BY <1>11 DEF Situation
<1> QED BY <1>1, <1>4, <1>10, <1>12, Becomes DEF ServingWith

-----------------------------------------------------------------------------
\* The server takes part in the TLS handshake.
LEMMA ServerEncryptsInv ==
  ASSUME ShakeInv, ServerReadsSecurity, Encrypting
  PROVE  ShakeInv'
<1>1. /\ sc.state = "security" /\ fromViewer # <<>> /\ Head(fromViewer).type = sc.waits
      /\ ServingWith(Head(fromViewer))
  BY ServingWithIs
<1>2. /\ Modern /\ cc.type = sc.type /\ sc.type \in Range(setting.serverTypes)
      /\ sc.type \in Range(setting.viewerTypes) /\ Encryption(sc.type) # "none"
  BY DEF Encrypting
<1>3. /\ ~sc.tls /\ sc \in SC /\ setting' = setting /\ cc' = cc /\ fromViewer' = Tail(fromViewer)
  BY <1>1, <1>2 DEF Modern, ServingWith
<1> DEFINE m1 == Clear("ClientHello", "")
           m2 == Clear("ClientFinished", "")
           a1 == Clear("ServerHello", "")
           a2 == Clear("ServerFinished", "")
<1>4. \/ Waits(cc, "ServerHello") /\ fromServer = <<>> /\ fromViewer = <<m1>>
      \/ Waits(cc, "ServerFinished") /\ fromServer = <<>> /\ fromViewer = <<m2>>
  BY <1>1 DEF Encrypting, Queues
<1>5. m1.type = "ClientHello" /\ m2.type = "ClientFinished"
  BY ClearFields
<1> HIDE DEF m1, m2
<1>6. CASE Waits(cc, "ServerHello") /\ fromServer = <<>> /\ fromViewer = <<m1>>
  <2>1. Head(fromViewer) = m1 /\ fromViewer' = <<>>
    BY <1>3, <1>6, HeadOf, ShortSeq
  <2>2. ServerSecurity(m1) = {Awaits(Wrote(Begun(sc), "ServerHello", ""), "ClientFinished")}
    BY <1>5 DEF ServerSecurity, ServerTLS
  <2>3. "ClientFinished" \in Awaited
    BY DEF Awaited
  <2>4. sc' \in SC /\ WaitsFor(sc', sc, "ClientFinished") /\ fromServer' = fromServer \o <<a1>>
    BY <1>1, <1>3, <2>1, <2>2, <2>3, ServerAnswers DEF ServingWith
  <2>5. fromServer' = <<a1>>
    BY <1>6, <2>4, Joined, ShortSeq
  <2>6. Modern' /\ cc'.type = sc'.type /\ Waits(sc', "ClientFinished") /\ sc'.type = sc.type
    BY <1>2, <1>3, <2>4 DEF Modern, WaitsFor, Waits
  <2>7. Encrypting'
    BY <1>2, <1>3, <1>6, <2>1, <2>5, <2>6 DEF Encrypting, Queues, Waits
  <2>8. Situation'
    BY <2>7 DEF Situation
  <2> QED BY <1>1, <1>3, <2>4, <2>8, Becomes DEF ServingWith
<1>7. CASE Waits(cc, "ServerFinished") /\ fromServer = <<>> /\ fromViewer = <<m2>>
  <2> DEFINE d == [sc EXCEPT !.tls = TRUE]
             out == <<a2>>
             t == sc.type
  <2>1. Head(fromViewer) = m2 /\ fromViewer' = <<>>
    BY <1>3, <1>7, HeadOf, ShortSeq
  <2>2. Wrote(Begun(sc), "ServerFinished", "") = Of(sc, out)
    <3>1. Wrote(Begun(sc), "ServerFinished", "") = Of(sc, <<Message("ServerFinished", "", sc.tls)>>)
      BY WroteFirst
    <3>2. Message("ServerFinished", "", sc.tls) = a2
      BY <1>3, ClearIs
    <3> QED BY <3>1, <3>2
  <2>3. d \in SC /\ d.tls /\ d.type = t /\ d.version = sc.version
    BY <1>3, SCEncrypted
  <2>4. ServerSecurity(m2) = {Challenge(Of(d, out))}
    <3> HIDE DEF out, d
    <3>1. [Of(sc, out) EXCEPT !.c.tls = TRUE] = Of(d, out)
      BY OfTLS DEF d
    <3> QED BY <1>5, <2>2, <3>1 DEF ServerSecurity, ServerTLS
  <2>5. IsSeq(out)
    BY ShortSeq
  <2>6. AtLayer(setting, d, t)
    BY <1>2, <2>3 DEF AtLayer, Modern
  <2> HIDE DEF d, out
  <2>7. setting \in Settings /\ t \in SecType
    BY <1>1, <1>2, TypeLists DEF ServingWith
  <2> DEFINE st == Challenge(Of(d, out))
  <2>8. Challenged(st, out, t)
    BY <1>2, <2>3, <2>5, <2>6, <2>7, ChallengeIs
  <2> HIDE DEF st
  <2>9. sc' = st.c /\ fromServer' = fromServer \o st.out
    <3>1. \E x \in {st} : sc' = x.c /\ fromServer' = fromServer \o x.out
      BY <1>1, <2>1, <2>4 DEF ServingWith, ServerIs, st
    <3> QED BY <3>1
  <2>10. PICK said : IsSeq(said) /\ st.out = out \o said /\ Serving(setting, st.c, said, t)
    BY <2>8 DEF Challenged
  <2>11. fromServer' = <<a2>> \o said
    <3>1. IsSeq(out \o said)
      BY <2>5, <2>10, Joined
    <3> QED BY <1>7, <2>9, <2>10, <3>1, Joined DEF out
  <2>12. Behind(setting', cc', a2, t)
    BY <1>2, <1>3, <1>7 DEF Behind, Modern
  <2> HIDE DEF t, a2
  <2>13. ViewerBehind'
    BY <1>3, <2>1, <2>7, <2>9, <2>10, <2>11, <2>12 DEF ViewerBehind, Queues
  <2>14. Situation'
    BY <2>13 DEF Situation
  <2> QED BY <1>1, <1>3, <2>8, <2>9, <2>14, Becomes DEF ServingWith, Challenged
<1> QED BY <1>4, <1>6, <1>7

\* The server verifies the password or the login.
LEMMA VerifyInv ==
  ASSUME ShakeInv, ServingWith(Head(fromViewer)), Agreed, cc.state = "result",
         NEW t \in SecType, sc.type = t, Credential(t) # "none",
         t \in Range(setting.serverTypes), (sc.tls <=> Encryption(t) # "none"),
         fromServer = <<>>, fromViewer' = <<>>,
         Head(fromViewer).type \in {"Response", "Login"}, Head(fromViewer).value = setting.knows
  PROVE  ShakeInv'
<1> DEFINE m == Head(fromViewer)
           e == <<>>
           rights == Granted(Credential(t), setting.knows)
           st == ServerVerifies(m)
<1>1. /\ setting \in Settings /\ cc \in CC /\ sc \in SC /\ setting' = setting /\ cc' = cc
  BY DEF ServingWith
<1>2. ServerSecurity(m) = {st}
  <2> HIDE DEF m
  <2> QED BY DEF ServerSecurity, m
<1>3. sc' = st.c /\ fromServer' = fromServer \o st.out
  <2> HIDE DEF st
  <2>1. \E x \in {st} : sc' = x.c /\ fromServer' = fromServer \o x.out
    BY <1>2 DEF ServingWith, ServerIs
  <2> QED BY <2>1
<1>4. Begun(sc) = Of(sc, e) /\ IsSeq(e) /\ fromServer = e
  BY OfIs, ShortSeq
<1>5. \A q : IsSeq(q) => e \o q = q
  BY Joined
<1> HIDE DEF e
<1>6. /\ rights = {} => st = AuthFailed(Of(sc, e))
      /\ rights # {} => st = Query(Of(sc, e), rights)
  BY <1>4 DEF ServerVerifies
<1>7. rights \in SUBSET Default
  BY <1>1 DEF Granted, Default, Settings
<1>8. AtLayer(setting, sc, t)
  BY DEF AtLayer, Agreed
<1> HIDE DEF rights, m, st
<1>9. JudgedAs(st, sc, e)
  <2>1. CASE rights = {}
    BY <1>1, <1>4, <1>6, <2>1, AuthFailedIs
  <2>2. CASE rights # {}
    BY <1>1, <1>4, <1>6, <1>7, <1>8, <2>2, QueryIs DEF rights
  <2> QED BY <2>1, <2>2
<1>10. PICK said : IsSeq(said) /\ st.out = e \o said /\ Judged(setting, st.c, said)
  BY <1>9 DEF JudgedAs
<1>11. /\ sc' \in SC /\ sc'.version = sc.version /\ sc'.type = sc.type /\ sc'.tls = sc.tls
       /\ fromServer' = said
  BY <1>3, <1>4, <1>5, <1>9, <1>10 DEF JudgedAs
<1>12. HasResult(sc')
  <2>1. t # "None"
    BY CredentialIs
  <2> QED BY <1>11, <2>1 DEF HasResult
<1>13. Agreed'
  BY <1>1, <1>11 DEF Agreed
<1>14. Waiting'
  BY <1>1, <1>3, <1>10, <1>11, <1>12, <1>13 DEF Waiting
<1>15. Situation'
  BY <1>14 DEF Situation
<1> QED BY <1>1, <1>11, <1>15, Becomes

\* The server judges the response.
LEMMA RespondingInv ==
  ASSUME ShakeInv, ServerReadsSecurity, Responding
  PROVE  ShakeInv'
<1> DEFINE t == sc.type
           knows == setting.knows
           k == Message("Response", knows, cc.tls)
<1>1. ServingWith(Head(fromViewer))
  BY ServingWithIs
<1>2. /\ Agreed /\ Credential(t) = "password" /\ t \in Range(setting.serverTypes)
      /\ (sc.tls <=> Encryption(t) # "none") /\ cc.state = "result"
      /\ fromServer = <<>> /\ fromViewer = <<k>>
  BY DEF Responding, Queues
<1>3. k.type = "Response" /\ k.value = knows
  BY DEF Message
<1>4. t \in SecType
  BY <1>1, <1>2, TypeLists DEF ServingWith
<1> HIDE DEF k
<1>5. Head(fromViewer) = k /\ fromViewer' = <<>>
  BY <1>1, <1>2, HeadOf, ShortSeq DEF ServingWith
<1> QED BY <1>1, <1>2, <1>3, <1>4, <1>5, VerifyInv

\* The server judges the user's name and password.
LEMMA LoginInv ==
  ASSUME ShakeInv, ServerReadsSecurity, BothIdentify
  PROVE  ShakeInv'
<1>1. ServingWith(Head(fromViewer)) /\ sc.state = "security" /\ fromViewer # <<>>
  BY ServingWithIs
<1>2. PICK t \in SecType :
        Serving(setting, sc, fromServer, t) /\ Identifying(setting, cc, fromViewer, t)
  BY DEF BothIdentify
<1>3. Agreed /\ sc.type = t /\ cc.type = t
  BY <1>1, <1>2, AgreedIs DEF ServingWith
<1> DEFINE knows == setting.knows
           k == Message("Login", knows, cc.tls)
<1>4. Credential(t) = "login"
  BY <1>1, <1>2 DEF Serving, Identifying, Judged
<1>5. /\ t \in Range(setting.serverTypes) /\ (sc.tls <=> Encryption(t) # "none")
      /\ cc.state = "result" /\ fromServer = <<>> /\ fromViewer = <<k>>
  BY <1>2, <1>4 DEF Serving, Identifying
<1>6. k.type = "Login" /\ k.value = knows
  BY DEF Message
<1> HIDE DEF k
<1>7. Head(fromViewer) = k /\ fromViewer' = <<>>
  BY <1>1, <1>5, HeadOf, ShortSeq DEF ServingWith
<1>8. Credential(t) # "none"
  BY <1>4
<1> QED BY <1>1, <1>3, <1>5, <1>6, <1>7, <1>8, VerifyInv

\* The server reads a message of its security type.
LEMMA ServerReadsSecurityInv ==
  ASSUME ShakeInv, ServerReadsSecurity
  PROVE  ShakeInv'
<1>1. sc.state = "security" /\ fromViewer # <<>>
  BY ServingWithIs
<1>2. \/ ChoosingVeNCrypt \/ ChoosingSubType \/ Encrypting \/ BothIdentify \/ Responding
      \/ ViewerGone
  BY <1>1, Places DEF ShakeInv, Situation, At
<1> QED BY <1>2, ChoosingVeNCryptInv, ChoosingSubTypeInv, ServerEncryptsInv, LoginInv,
           RespondingInv, ChosenByNobodyInv

-----------------------------------------------------------------------------
\* The user of the server has answered, or the viewer was too fast.
LEMMA ServerJudgesInv ==
  ASSUME ShakeInv, sc.state = "querying", setting' = setting, cc' = cc, fromViewer' = fromViewer,
         NEW e, e = <<>>, NEW st, JudgedAs(st, sc, e), sc' = st.c, fromServer' = fromServer \o st.out
  PROVE  ShakeInv'
<1>1. setting \in Settings /\ cc \in CC /\ sc \in SC
  BY DEF ShakeInv, HandshakeTypeOK
<1>2. PICK said : IsSeq(said) /\ st.out = e \o said /\ Judged(setting, st.c, said)
  BY DEF JudgedAs
<1>3. st.out = said
  BY <1>2, Joined
<1>4. /\ sc' \in SC /\ sc'.version = sc.version /\ sc'.type = sc.type /\ sc'.tls = sc.tls
      /\ Judged(setting, sc', said)
  BY <1>2 DEF JudgedAs
<1>5. ASSUME NEW t, Serving(setting, sc, fromServer, t)
      PROVE  Serving(setting, sc', fromServer', t)
  <2>1. fromServer = <<>> /\ Credential(t) = "none"
    BY <1>5 DEF Serving, Judged, Waits
  <2>2. fromServer' = said
    BY <1>2, <1>3, <2>1, Joined
  <2> QED BY <1>4, <1>5, <2>1, <2>2 DEF Serving
<1>6. CASE BothIdentify
  <2>1. BothIdentify'
    BY <1>5, <1>6 DEF BothIdentify
  <2>2. Situation'
    BY <2>1 DEF Situation
  <2> QED BY <1>1, <1>4, <2>2, Becomes
<1>7. CASE ViewerBehind
  <2>1. PICK t, pre, told :
          /\ t \in SecType
          /\ Behind(setting, cc, pre, t) /\ Serving(setting, sc, told, t)
          /\ Queues(<<pre>> \o told, <<>>)
    BY <1>7 DEF ViewerBehind
  <2>2. told = <<>> /\ Credential(t) = "none"
    BY <2>1 DEF Serving, Judged, Waits
  <2>3. fromServer = <<pre>>
    BY <2>1, <2>2, Joined, ShortSeq DEF Queues
  <2>4. Serving(setting, sc', said, t)
    BY <1>4, <2>1, <2>2 DEF Serving
  <2>5. fromServer' = <<pre>> \o said /\ fromViewer' = <<>>
    BY <1>3, <2>1, <2>3 DEF Queues
  <2>6. ViewerBehind'
    BY <2>1, <2>4, <2>5 DEF ViewerBehind, Queues
  <2>7. Situation'
    BY <2>6 DEF Situation
  <2> QED BY <1>1, <1>4, <2>7, Becomes
<1>8. CASE Waiting
  <2>1. fromServer = <<>>
    BY <1>8 DEF Waiting, Judged
  <2>2. fromServer' = said
    BY <1>2, <1>3, <2>1, Joined
  <2>3. Agreed' /\ HasResult(sc')
    BY <1>4, <1>8 DEF Waiting, Agreed, HasResult
  <2>4. Waiting'
    BY <1>4, <1>8, <2>2, <2>3 DEF Waiting
  <2>5. Situation'
    BY <2>4 DEF Situation
  <2> QED BY <1>1, <1>4, <2>5, Becomes
<1>9. CASE ViewerGone
  <2>1. cc.state = "closed" /\ fromViewer = <<>>
    BY <1>9 DEF ViewerGone, Waits
  <2>2. sc'.state \in {"querying", "init"} => Passed(setting, sc')
    BY <1>4 DEF Judged
  <2>3. ViewerGone'
    BY <2>1, <2>2 DEF ViewerGone
  <2>4. Situation'
    BY <2>3 DEF Situation
  <2> QED BY <1>1, <1>4, <2>4, Becomes
<1>10. BothIdentify \/ ViewerBehind \/ Waiting \/ ViewerGone
  BY Places DEF ShakeInv, Situation, At
<1> QED BY <1>6, <1>7, <1>8, <1>9, <1>10

\* The user of the server answers.
LEMMA AnswerQueryInv ==
  ASSUME ShakeInv, AnswerQuery
  PROVE  ShakeInv'
<1> DEFINE e == <<>>
<1>1. setting \in Settings /\ cc \in CC /\ sc \in SC
  BY DEF ShakeInv, HandshakeTypeOK
<1>2. sc.state = "querying" /\ setting' = setting /\ cc' = cc /\ fromViewer' = fromViewer
  BY DEF AnswerQuery
<1>3. Begun(sc) = Of(sc, e) /\ IsSeq(e) /\ e = <<>>
  BY OfIs, ShortSeq
<1> HIDE DEF e
<1>4. PICK st \in {Approve(Of(sc, e)), Disapprove(Of(sc, e))} :
        sc' = st.c /\ fromServer' = fromServer \o st.out
  BY <1>3 DEF AnswerQuery, ServerIs
<1>5. Passed(setting, sc)
  <2>1. BothIdentify \/ ViewerBehind \/ Waiting \/ ViewerGone
    BY <1>2, Places DEF ShakeInv, Situation, At
  <2>2. BothIdentify \/ ViewerBehind => Passed(setting, sc)
    BY <1>2, ServingIs DEF BothIdentify, ViewerBehind
  <2>3. Waiting => Passed(setting, sc)
    BY <1>2 DEF Waiting, Judged
  <2>4. ViewerGone => Passed(setting, sc)
    BY <1>2 DEF ViewerGone, Waits
  <2> QED BY <2>1, <2>2, <2>3, <2>4
<1>6. JudgedAs(st, sc, e)
  <2>1. CASE st = Approve(Of(sc, e))
    BY <1>1, <1>3, <1>5, <2>1, ApproveIs
  <2>2. CASE st = Disapprove(Of(sc, e))
    BY <1>1, <1>3, <2>2, RefuseIs
  <2> QED BY <1>4, <2>1, <2>2
<1> QED BY <1>2, <1>3, <1>4, <1>6, ServerJudgesInv

\* The viewer was too fast.
LEMMA BogusDataInv ==
  ASSUME ShakeInv, BogusData
  PROVE  ShakeInv'
<1> DEFINE e == <<>>
<1>1. setting \in Settings /\ cc \in CC /\ sc \in SC
  BY DEF ShakeInv, HandshakeTypeOK
<1>2. sc.state = "querying" /\ setting' = setting /\ cc' = cc /\ fromViewer' = fromViewer
  BY DEF BogusData
<1>3. Begun(sc) = Of(sc, e) /\ IsSeq(e) /\ e = <<>> /\ e \o e = e /\ e \in Failures(sc.tls)
  BY OfIs, ShortSeq, Joined, FailuresAre
<1> HIDE DEF e
<1> DEFINE st == Ended(Of(sc, e))
<1>4. JudgedAs(st, sc, e)
  BY <1>1, <1>3, RefusedAs
<1>5. ServerIs({st})
  BY <1>3 DEF BogusData
<1> HIDE DEF st
<1>6. sc' = st.c /\ fromServer' = fromServer \o st.out
  BY <1>5 DEF ServerIs
<1> QED BY <1>2, <1>3, <1>4, <1>6, ServerJudgesInv

\* The server reads ClientInit.
LEMMA ServerReadsClientInitInv ==
  ASSUME ShakeInv, ServerReadsClientInit
  PROVE  ShakeInv'
<1>1. setting \in Settings /\ cc \in CC /\ sc \in SC
  BY DEF ShakeInv, HandshakeTypeOK
<1>2. /\ fromViewer # <<>> /\ setting' = setting /\ cc' = cc /\ fromViewer' = Tail(fromViewer)
      /\ sc.state = "init"
  BY <1>1, ServerReadsIt DEF ServerReadsClientInit
<1>3. BothIdentify \/ Entering
  <2>1. ~ViewerGone
    BY <1>2 DEF ViewerGone, Waits
  <2> QED BY <1>2, <2>1, Places DEF ShakeInv, Situation, At
<1>4. /\ cc.state = "init" /\ cc.tls = sc.tls /\ fromServer = <<>>
      /\ fromViewer = <<Message("ClientInit", "", cc.tls)>>
  <2>1. CASE Entering
    BY <2>1 DEF Entering, Agreed, Queues
  <2>2. CASE BothIdentify
    <3>1. PICK t \in SecType :
            Serving(setting, sc, fromServer, t) /\ Identifying(setting, cc, fromViewer, t)
      BY <2>2 DEF BothIdentify
    <3>2. Agreed /\ (HasResult(cc) <=> HasResult(sc))
      BY <1>1, <3>1, AgreedIs
    <3>3. Credential(t) = "none" /\ Judged(setting, sc, fromServer)
      BY <1>2, <3>1 DEF Serving, Waits
    <3>4. ~HasResult(cc) /\ cc.state = "init" /\ fromViewer = <<Message("ClientInit", "", cc.tls)>>
      BY <1>2, <3>1, <3>3 DEF Identifying
    <3>5. fromServer = <<>>
      BY <1>2, <3>2, <3>3, <3>4 DEF Judged
    <3> QED BY <3>2, <3>4, <3>5 DEF Agreed
  <2> QED BY <1>3, <2>1, <2>2
<1> DEFINE d == [sc EXCEPT !.state = "normal"]
           k == Message("ServerInit", "", cc.tls)
<1>5. d \in SC /\ Like(d, sc, "normal")
  BY <1>1, SCState
<1>6. fromViewer' = <<>>
  BY <1>2, <1>4, HeadOf, ShortSeq
<1> HIDE DEF d
<1>7. Wrote(Begun(d), "ServerInit", "") = Of(d, <<k>>)
  <2>1. Wrote(Begun(d), "ServerInit", "") = Of(d, <<Message("ServerInit", "", d.tls)>>)
    BY WroteFirst
  <2>2. d.tls = cc.tls
    BY <1>4, <1>5 DEF Like
  <2> QED BY <2>1, <2>2
<1> HIDE DEF k
<1>8. \/ ServerIs({Of(d, <<k>>)})
      \/ ServerIs({Ended(Begun(sc))})
  BY <1>7 DEF ServerReadsClientInit, ServerIs, d
<1>9. CASE ServerIs({Of(d, <<k>>)})
  <2>1. sc' = d /\ fromServer' = <<k>>
    BY <1>4, <1>9, ServerBecomes, Joined, ShortSeq
  <2>2. Entered'
    BY <1>2, <1>4, <1>5, <1>6, <2>1 DEF Entered, Queues, Like, k
  <2>3. Situation'
    BY <2>2 DEF Situation
  <2> QED BY <1>1, <1>2, <1>5, <2>1, <2>3, Becomes
<1>10. CASE ServerIs({Ended(Begun(sc))})
  <2>1. sc' \in SC /\ sc'.state = "closed" /\ fromServer' = fromServer
    <3>1. IsSeq(fromServer)
      BY <1>4, ShortSeq
    <3> QED BY <1>1, <1>10, <3>1, ServerCloses
  <2>2. TurnedAway'
    BY <1>2, <1>4, <2>1 DEF TurnedAway
  <2>3. Situation'
    BY <2>2 DEF Situation
  <2> QED BY <1>1, <1>2, <2>1, <2>3, Becomes
<1> QED BY <1>8, <1>9, <1>10

\* The server sees that the viewer has closed the connection.
LEMMA ServerSeesEndInv ==
  ASSUME ShakeInv, ServerSeesEnd
  PROVE  ShakeInv'
<1> DEFINE e == <<>>
<1>1. setting \in Settings /\ cc \in CC /\ sc \in SC
  BY DEF ShakeInv, HandshakeTypeOK
<1>2. setting' = setting /\ cc' = cc /\ cc.state = "closed" /\ ServerIs({Ended(Begun(sc))})
  BY DEF ServerSeesEnd
<1>3. Begun(sc) = Of(sc, e)
  BY OfIs
<1> HIDE DEF e
<1>4. PICK st \in {Ended(Of(sc, e))} : sc' = st.c
  BY <1>2, <1>3 DEF ServerIs
<1>5. sc' \in SC /\ sc'.state = "closed"
  BY <1>1, <1>4, ServerEnded
<1>6. ViewerGone'
  BY <1>2, <1>5 DEF ViewerGone
<1>7. Situation'
  BY <1>6 DEF Situation
<1> QED BY <1>1, <1>2, <1>5, <1>7, Becomes

\* The invariant is one of the handshake's variables.
LEMMA ShakeStuck ==
  ASSUME ShakeInv, UNCHANGED shakeVars
  PROVE  ShakeInv'
<1>1. /\ setting' = setting /\ cc' = cc /\ sc' = sc /\ fromServer' = fromServer
      /\ fromViewer' = fromViewer
  BY DEF shakeVars
<1> QED BY <1>1 DEF ShakeInv, HandshakeTypeOK, Situation, OfferingVersion, Refused, ChoosingVersion,
     OfferingTypes, ChoosingType, OfferingVeNCrypt, ChoosingVeNCrypt, OfferingSubTypes,
     ChoosingSubType, Encrypting, NotReady, ViewerBehind, BothIdentify, Responding, Waiting,
     Entering, Entered, TurnedAway, ViewerGone, Modern, Queues, Agreed, Waits

\* The invariant holds when a connection begins.
LEMMA ShakeInit == HandshakeInit => ShakeInv
BY StartInv DEF HandshakeInit

\* Every step of the handshake keeps it.
LEMMA ShakeNext == ShakeInv /\ [HandshakeNext]_shakeVars => ShakeInv'
BY ViewerReadsVersionInv, ViewerReadsTypesInv, ViewerReadsSecurityInv, ViewerReadsResultInv,
   ViewerMisreadsResultInv, ViewerSeesEndInv, ServerReadsVersionInv, ServerReadsTypeInv,
   ServerReadsSecurityInv, AnswerQueryInv, BogusDataInv, ServerReadsClientInitInv,
   ServerSeesEndInv, EnterSessionInv, ReconnectInv, ShakeStuck
DEF HandshakeNext, ViewerShakes, ServerShakes

-----------------------------------------------------------------------------
\* A side takes the message for what it is.
ViewerFits(m) == m.type \in ViewerAwaits(cc) /\ m.tls = cc.tls
ServerFits(m) == m.type \in ServerAwaits(sc) /\ m.tls = sc.tls

ViewerUnderstands ==
  fromServer = <<>> \/ ViewerFits(Head(fromServer))
    \/ LET m == Head(fromServer)
       IN m.type = "Result" /\ ~m.value /\ cc.state = "init" /\ ~HasResult(cc)
ServerUnderstands ==
  fromViewer = <<>> \/ ServerFits(Head(fromViewer)) \/ (sc.state = "querying" /\ ~HasResult(sc))

\* The viewer takes a message it waits for, from its stream, for what it is.
LEMMA ViewerFitsIs ==
  ASSUME NEW type, NEW value, NEW m, m = Message(type, value, cc.tls), type \in ViewerAwaits(cc),
         \/ fromServer = <<m>>
         \/ \E q : IsSeq(q) /\ fromServer = <<m>> \o q
  PROVE  ViewerUnderstands
<1>1. Head(fromServer) = m
  BY HeadOf, ShortSeq
<1>2. m.type = type /\ m.tls = cc.tls
  BY DEF Message
<1> QED BY <1>1, <1>2 DEF ViewerUnderstands, ViewerFits

\* The server does.
LEMMA ServerFitsIs ==
  ASSUME NEW type, NEW value, NEW m, m = Message(type, value, sc.tls), type \in ServerAwaits(sc),
         \/ fromViewer = <<m>>
         \/ \E q : IsSeq(q) /\ fromViewer = <<m>> \o q
  PROVE  ServerUnderstands
<1>1. Head(fromViewer) = m
  BY HeadOf, ShortSeq
<1>2. m.type = type /\ m.tls = sc.tls
  BY DEF Message
<1> QED BY <1>1, <1>2 DEF ServerUnderstands, ServerFits

\* The same of a message in the clear, on streams that are not replaced yet.
LEMMA ViewerFitsClear ==
  ASSUME cc \in CC, ~cc.tls, NEW type, NEW value, type \in ViewerAwaits(cc),
         \/ fromServer = <<Clear(type, value)>>
         \/ \E q : IsSeq(q) /\ fromServer = <<Clear(type, value)>> \o q
  PROVE  ViewerUnderstands
<1> DEFINE m == Clear(type, value)
<1>1. m = Message(type, value, cc.tls)
  BY ClearIs
<1> HIDE DEF m
<1> QED BY <1>1, ViewerFitsIs DEF m

\* The same before its streams are encrypted.
LEMMA ServerFitsClear ==
  ASSUME sc \in SC, ~sc.tls, NEW type, NEW value, type \in ServerAwaits(sc),
         \/ fromViewer = <<Clear(type, value)>>
         \/ \E q : IsSeq(q) /\ fromViewer = <<Clear(type, value)>> \o q
  PROVE  ServerUnderstands
<1> DEFINE m == Clear(type, value)
<1>1. m = Message(type, value, sc.tls)
  BY ClearIs
<1> HIDE DEF m
<1> QED BY <1>1, ServerFitsIs DEF m

\* What the sides wait for.
LEMMA ViewerAwaitsIs ==
  /\ cc.state = "version" => "Version" \in ViewerAwaits(cc)
  /\ cc.state = "types" => "Refused" \in ViewerAwaits(cc)
  /\ cc.state = "types" /\ cc.version = 3 => "Chosen" \in ViewerAwaits(cc)
  /\ cc.state = "types" /\ cc.version = 8 => "Types" \in ViewerAwaits(cc)
  /\ \A m : Waits(cc, m) => m \in ViewerAwaits(cc)
  /\ cc.state = "result" => "Result" \in ViewerAwaits(cc)
  /\ cc.state = "init" => "ServerInit" \in ViewerAwaits(cc)
BY DEF ViewerAwaits, Waits

\* What the server waits for in each state.
LEMMA ServerAwaitsIs ==
  /\ sc.state = "version" => "Version" \in ServerAwaits(sc)
  /\ sc.state = "type" => "Type" \in ServerAwaits(sc)
  /\ \A m : Waits(sc, m) => m \in ServerAwaits(sc)
  /\ sc.state = "init" => "ClientInit" \in ServerAwaits(sc)
BY DEF ServerAwaits, Waits

\* A server that has judged the viewer has said nothing, or a result.
LEMMA JudgedSays ==
  ASSUME Judged(setting, sc, fromServer), fromServer # <<>>, cc.tls = sc.tls, cc.state = "result"
  PROVE  ViewerUnderstands
<1>1. CASE sc.state = "init"
  <2>1. fromServer = <<Message("Result", TRUE, cc.tls)>>
    BY <1>1 DEF Judged
  <2> DEFINE b == TRUE
  <2>2. fromServer = <<Message("Result", b, cc.tls)>>
    BY <2>1
  <2> HIDE DEF b
  <2> QED BY <2>2, ViewerFitsIs, ViewerAwaitsIs
<1>2. CASE sc.state = "closed"
  <2> DEFINE b == FALSE
             m == Message("Result", b, cc.tls)
  <2>1. fromServer \in Failures(cc.tls)
    BY <1>2 DEF Judged
  <2>2. Head(fromServer) = m
    BY <2>1, FailureRead
  <2>3. m.type = "Result" /\ m.tls = cc.tls
    BY DEF Message
  <2> HIDE DEF m, b
  <2> QED BY <2>2, <2>3, ViewerAwaitsIs DEF ViewerUnderstands, ViewerFits
<1> QED BY <1>1, <1>2 DEF Judged

\* At the layer that identifies the user.
LEMMA BothIdentifyUnderstood ==
  ASSUME cc \in CC, sc \in SC, BothIdentify
  PROVE  ViewerUnderstands /\ (sc.state = "closed" \/ ServerUnderstands)
<1>1. PICK t \in SecType :
        Serving(setting, sc, fromServer, t) /\ Identifying(setting, cc, fromViewer, t)
  BY DEF BothIdentify
<1>2. cc.tls = sc.tls /\ (HasResult(cc) <=> HasResult(sc))
  BY <1>1, AgreedIs DEF Agreed
<1>3. CASE Credential(t) = "none" /\ HasResult(cc)
  <2>1. cc.state = "result" /\ fromViewer = <<>> /\ Judged(setting, sc, fromServer)
    BY <1>1, <1>3 DEF Identifying, Serving
  <2> QED BY <1>2, <2>1, JudgedSays DEF ViewerUnderstands, ServerUnderstands
<1>4. CASE Credential(t) = "none" /\ ~HasResult(cc)
  <2>1. /\ cc.state = "init" /\ fromViewer = <<Message("ClientInit", "", cc.tls)>>
        /\ Judged(setting, sc, fromServer)
    BY <1>1, <1>4 DEF Identifying, Serving
  <2>2. sc.state \in {"querying", "init", "closed"}
    BY <2>1 DEF Judged
  <2>3. sc.state = "init" => ServerUnderstands
    BY <1>2, <2>1, ServerFitsIs, ServerAwaitsIs
  <2>4. sc.state = "querying" => ServerUnderstands
    BY <1>2, <1>4 DEF ServerUnderstands
  <2>5. ViewerUnderstands
    <3>1. CASE fromServer = <<>>
      BY <3>1 DEF ViewerUnderstands
    <3>2. CASE fromServer # <<>>
      <4> DEFINE b == FALSE
                 m == Message("Result", b, sc.tls)
      <4>1. fromServer \in Failures(sc.tls)
        BY <1>2, <1>4, <2>1, <3>2 DEF Judged
      <4>2. Head(fromServer) = m
        BY <3>2, <4>1, FailureRead
      <4>3. m.type = "Result" /\ m.value = b /\ ~b
        BY DEF Message
      <4> HIDE DEF m, b
      <4> QED BY <1>4, <2>1, <4>2, <4>3 DEF ViewerUnderstands
    <3> QED BY <3>1, <3>2
  <2> QED BY <2>2, <2>3, <2>4, <2>5
<1>5. CASE Credential(t) = "password"
  <2>1. /\ fromServer = <<Message("Challenge", "", cc.tls)>> /\ Waits(cc, "Challenge")
        /\ fromViewer = <<>>
    BY <1>1, <1>2, <1>5 DEF Identifying, Serving
  <2> QED BY <2>1, ViewerFitsIs, ViewerAwaitsIs DEF ServerUnderstands
<1>6. CASE Credential(t) = "login"
  <2> DEFINE knows == setting.knows
  <2>1. /\ fromServer = <<>> /\ Waits(sc, "Login")
        /\ fromViewer = <<Message("Login", knows, sc.tls)>>
    BY <1>1, <1>2, <1>6 DEF Identifying, Serving
  <2> HIDE DEF knows
  <2> QED BY <2>1, ServerFitsIs, ServerAwaitsIs DEF ViewerUnderstands
<1> QED BY <1>3, <1>4, <1>5, <1>6, CredentialIs

\* What Understood says, side by side.
LEMMA UnderstoodIs ==
  (cc.state \in {"closed", "normal"} \/ ViewerUnderstands)
    /\ (sc.state \in {"closed", "normal"} \/ ServerUnderstands) => Understood
BY DEF Understood, ViewerUnderstands, ServerUnderstands, ViewerFits, ServerFits

\* In every situation each side understands what it reads next.
LEMMA InvUnderstood == ShakeInv => Understood
<1> SUFFICES ASSUME ShakeInv PROVE Understood
  OBVIOUS
<1>1. cc \in CC /\ sc \in SC
  BY DEF ShakeInv, HandshakeTypeOK
<1> DEFINE V == cc.state \in {"closed", "normal"} \/ ViewerUnderstands
           S == sc.state \in {"closed", "normal"} \/ ServerUnderstands
<1>2. ASSUME fromServer = <<>> PROVE V
  BY <1>2 DEF ViewerUnderstands
<1>3. ASSUME fromViewer = <<>> PROVE S
  BY <1>3 DEF ServerUnderstands
<1>4. CASE OfferingVersion
  <2>1. CASE sc.state = "version"
    <3>1. fromServer = <<Clear("Version", setting.version)>> /\ fromViewer = <<>>
          /\ cc.state = "version" /\ ~cc.tls
      BY <1>4, <2>1 DEF OfferingVersion, Queues
    <3>2. V
      BY <1>1, <3>1, ViewerFitsClear, ViewerAwaitsIs
    <3> QED BY <1>3, <3>1, <3>2, UnderstoodIs
  <2>2. CASE sc.state = "closed"
    <3> DEFINE k == Clear("Version", 3)
               r == Clear("Refused", "")
    <3>1. fromServer = <<k, r>> /\ cc.state = "version" /\ ~cc.tls
      BY <1>4, <2>2 DEF OfferingVersion, Queues
    <3>2. fromServer = <<k>> \o <<r>> /\ IsSeq(<<r>>)
      BY <3>1, PairIs, ShortSeq
    <3>3. V
      BY <1>1, <3>1, <3>2, ViewerFitsClear, ViewerAwaitsIs
    <3> QED BY <2>2, <3>3, UnderstoodIs
  <2> QED BY <1>4, <2>1, <2>2 DEF OfferingVersion
<1>5. CASE Refused
  <2>1. V
    BY <1>1, <1>5, ViewerFitsClear, ViewerAwaitsIs DEF Refused
  <2> QED BY <1>5, <2>1, UnderstoodIs DEF Refused
<1>6. CASE ChoosingVersion
  <2>1. fromViewer = <<Clear("Version", setting.version)>> /\ sc.state = "version" /\ ~sc.tls
        /\ fromServer = <<>>
    BY <1>6 DEF ChoosingVersion, Queues
  <2>2. S
    BY <1>1, <2>1, ServerFitsClear, ServerAwaitsIs
  <2> QED BY <1>2, <2>1, <2>2, UnderstoodIs
<1>7. CASE OfferingTypes
  <2>1. /\ fromServer = <<Clear("Types", EnabledSecTypes(setting.serverTypes))>>
        /\ cc.state = "types" /\ cc.version = 8 /\ ~cc.tls /\ fromViewer = <<>>
    BY <1>7 DEF OfferingTypes, Queues, Modern
  <2>2. V
    BY <1>1, <2>1, ViewerFitsClear, ViewerAwaitsIs
  <2> QED BY <1>3, <2>1, <2>2, UnderstoodIs
<1>8. CASE ChoosingType
  <2>1. fromViewer = <<Clear("Type", "VeNCrypt")>> /\ sc.state = "type" /\ ~sc.tls
        /\ fromServer = <<>>
    BY <1>8 DEF ChoosingType, Queues, Modern
  <2>2. S
    BY <1>1, <2>1, ServerFitsClear, ServerAwaitsIs
  <2> QED BY <1>2, <2>1, <2>2, UnderstoodIs
<1>9. CASE OfferingVeNCrypt
  <2>1. /\ fromServer = <<Clear("VeNCryptVersion", "")>> /\ Waits(cc, "VeNCryptVersion")
        /\ ~cc.tls /\ fromViewer = <<>>
    BY <1>9 DEF OfferingVeNCrypt, Queues, Modern
  <2>2. V
    BY <1>1, <2>1, ViewerFitsClear, ViewerAwaitsIs
  <2> QED BY <1>3, <2>1, <2>2, UnderstoodIs
<1>10. CASE ChoosingVeNCrypt
  <2>1. /\ fromViewer = <<Clear("VeNCryptVersion", "")>> /\ Waits(sc, "VeNCryptVersion")
        /\ ~sc.tls /\ fromServer = <<>>
    BY <1>10 DEF ChoosingVeNCrypt, Queues, Modern
  <2>2. S
    BY <1>1, <2>1, ServerFitsClear, ServerAwaitsIs
  <2> QED BY <1>2, <2>1, <2>2, UnderstoodIs
<1>11. CASE OfferingSubTypes
  <2>1. /\ fromServer = <<Clear("SubTypes", setting.serverTypes)>> /\ Waits(cc, "SubTypes")
        /\ ~cc.tls /\ fromViewer = <<>>
    BY <1>11 DEF OfferingSubTypes, Queues, Modern
  <2>2. V
    BY <1>1, <2>1, ViewerFitsClear, ViewerAwaitsIs
  <2> QED BY <1>3, <2>1, <2>2, UnderstoodIs
<1>12. CASE ChoosingSubType
  <2>1. PICK t \in Range(setting.serverTypes) \cap Range(setting.viewerTypes) :
          /\ Modern /\ Waits(sc, "SubType") /\ fromServer = <<>>
          /\ \/ fromViewer = <<Clear("SubType", t)>>
             \/ \E said : /\ Identifying(setting, cc, said, t)
                          /\ fromViewer = <<Clear("SubType", t)>> \o said
    BY <1>12 DEF ChoosingSubType
  <2>2. \/ fromViewer = <<Clear("SubType", t)>>
        \/ \E said : IsSeq(said) /\ fromViewer = <<Clear("SubType", t)>> \o said
    BY <2>1, IdentifyingIs
  <2>3. S
    BY <1>1, <2>1, <2>2, ServerFitsClear, ServerAwaitsIs DEF Modern
  <2> QED BY <1>2, <2>1, <2>3, UnderstoodIs
<1>13. CASE Encrypting
  <2>1. ~cc.tls /\ ~sc.tls
    BY <1>13 DEF Encrypting, Modern
  <2>2. \/ fromViewer = <<>> /\ Waits(cc, "TLSReady") /\ fromServer = <<Clear("TLSReady", TRUE)>>
        \/ fromViewer = <<>> /\ Waits(cc, "ServerHello") /\ fromServer = <<Clear("ServerHello", "")>>
        \/ fromServer = <<>> /\ Waits(sc, "ClientHello") /\ fromViewer = <<Clear("ClientHello", "")>>
        \/ fromServer = <<>> /\ Waits(sc, "ClientFinished")
           /\ fromViewer = <<Clear("ClientFinished", "")>>
    BY <1>13 DEF Encrypting, Queues
  <2>3. V
    <3> DEFINE b == TRUE
    <3>1. ASSUME Waits(cc, "TLSReady"), fromServer = <<Clear("TLSReady", b)>> PROVE V
      <4> HIDE DEF b
      <4> QED BY <1>1, <2>1, <3>1, ViewerFitsClear, ViewerAwaitsIs
    <3>2. ASSUME Waits(cc, "ServerHello"), fromServer = <<Clear("ServerHello", "")>> PROVE V
      BY <1>1, <2>1, <3>2, ViewerFitsClear, ViewerAwaitsIs
    <3> QED BY <2>2, <3>1, <3>2, <1>2
  <2>4. S
    <3>1. ASSUME Waits(sc, "ClientHello"), fromViewer = <<Clear("ClientHello", "")>> PROVE S
      BY <1>1, <2>1, <3>1, ServerFitsClear, ServerAwaitsIs
    <3>2. ASSUME Waits(sc, "ClientFinished"), fromViewer = <<Clear("ClientFinished", "")>> PROVE S
      BY <1>1, <2>1, <3>2, ServerFitsClear, ServerAwaitsIs
    <3> QED BY <2>2, <3>1, <3>2, <1>3
  <2> QED BY <2>3, <2>4, UnderstoodIs
<1>14. CASE NotReady
  <2> DEFINE b == FALSE
             k == Clear("TLSReady", b)
             r == Clear("Result", b)
  <2>1. fromServer = <<k, r>> /\ Waits(cc, "TLSReady") /\ ~cc.tls /\ sc.state = "closed"
    BY <1>14 DEF NotReady
  <2> HIDE DEF b
  <2>2. fromServer = <<k>> \o <<r>> /\ IsSeq(<<r>>)
    BY <2>1, PairIs, ShortSeq
  <2>3. V
    BY <1>1, <2>1, <2>2, ViewerFitsClear, ViewerAwaitsIs
  <2> QED BY <2>1, <2>3, UnderstoodIs
<1>15. CASE ViewerBehind
  <2>1. PICK t, pre, said :
          /\ t \in SecType
          /\ Behind(setting, cc, pre, t) /\ Serving(setting, sc, said, t)
          /\ Queues(<<pre>> \o said, <<>>)
    BY <1>15 DEF ViewerBehind
  <2>2. IsSeq(said) /\ fromServer = <<pre>> \o said /\ fromViewer = <<>> /\ ~cc.tls
    BY <2>1, ServingIs DEF Queues, Behind
  <2>3. \/ cc.state = "types" /\ cc.version = 3 /\ pre = Clear("Chosen", <<t>>)
        \/ Waits(cc, "ServerFinished") /\ pre = Clear("ServerFinished", "")
    BY <2>1 DEF Behind
  <2>4. V
    BY <1>1, <2>2, <2>3, ViewerFitsClear, ViewerAwaitsIs
  <2> QED BY <1>3, <2>2, <2>4, UnderstoodIs
<1>16. CASE BothIdentify
  BY <1>1, <1>16, BothIdentifyUnderstood, UnderstoodIs
<1>17. CASE Responding
  <2> DEFINE knows == setting.knows
  <2>1. /\ fromServer = <<>> /\ Waits(sc, "Response")
        /\ fromViewer = <<Message("Response", knows, sc.tls)>>
    BY <1>17 DEF Responding, Queues, Agreed
  <2> HIDE DEF knows
  <2>2. S
    BY <2>1, ServerFitsIs, ServerAwaitsIs
  <2> QED BY <1>2, <2>1, <2>2, UnderstoodIs
<1>18. CASE Waiting
  <2>1. fromViewer = <<>> /\ cc.state = "result" /\ cc.tls = sc.tls
        /\ Judged(setting, sc, fromServer)
    BY <1>18 DEF Waiting, Agreed
  <2>2. V
    BY <1>2, <2>1, JudgedSays
  <2> QED BY <1>3, <2>1, <2>2, UnderstoodIs
<1>19. CASE Entering
  <2>1. /\ fromServer = <<>> /\ sc.state = "init"
        /\ fromViewer = <<Message("ClientInit", "", sc.tls)>>
    BY <1>19 DEF Entering, Queues, Agreed
  <2>2. S
    BY <2>1, ServerFitsIs, ServerAwaitsIs
  <2> QED BY <1>2, <2>1, <2>2, UnderstoodIs
<1>20. CASE Entered
  <2>1. CASE cc.state = "init"
    <3>1. fromServer = <<Message("ServerInit", "", cc.tls)>> /\ sc.state = "normal"
      BY <1>20, <2>1 DEF Entered, Queues
    <3>2. V
      BY <2>1, <3>1, ViewerFitsIs, ViewerAwaitsIs
    <3> QED BY <3>1, <3>2, UnderstoodIs
  <2>2. CASE cc.state = "normal"
    BY <1>20, <2>2, UnderstoodIs DEF Entered
  <2> QED BY <1>20, <2>1, <2>2 DEF Entered
<1>21. CASE TurnedAway
  BY <1>2, <1>21, UnderstoodIs DEF TurnedAway
<1>22. CASE ViewerGone
  <2>1. CASE sc.state = "closed" \/ fromViewer = <<>>
    BY <1>3, <1>22, <2>1, UnderstoodIs DEF ViewerGone
  <2>2. CASE sc.state # "closed" /\ fromViewer # <<>>
    <3>1. PICK t : Waits(sc, "SubType") /\ ~sc.tls /\ fromViewer = <<Clear("SubType", t)>>
      BY <1>22, <2>2 DEF ViewerGone
    <3>2. S
      BY <1>1, <3>1, ServerFitsClear, ServerAwaitsIs
    <3> QED BY <1>22, <3>2, UnderstoodIs DEF ViewerGone
  <2> QED BY <2>1, <2>2
<1> HIDE DEF V, S
<1> QED BY <1>4, <1>5, <1>6, <1>7, <1>8, <1>9, <1>10, <1>11, <1>12, <1>13, <1>14, <1>15, <1>16,
           <1>17, <1>18, <1>19, <1>20, <1>21, <1>22 DEF ShakeInv, Situation

\* In every situation the server that has let the viewer in was right to.
LEMMA InvLetIn == ShakeInv => LetIn
<1> SUFFICES ASSUME ShakeInv, sc.state = "init"
             PROVE  /\ sc.type \in Range(setting.serverTypes)
                    /\ sc.tls = (Encryption(sc.type) # "none")
                    /\ sc.rights = IF Credential(sc.type) = "none" THEN Default
                                   ELSE Granted(Credential(sc.type), setting.knows)
                    /\ sc.rights # {} /\ setting.query # "refuses"
                    /\ cc.state \in {"result", "init"} =>
                         /\ cc.type = sc.type /\ cc.tls = sc.tls
                         /\ cc.type \in Range(setting.viewerTypes)
  BY DEF LetIn
<1>1. cc \in CC /\ sc \in SC
  BY DEF ShakeInv, HandshakeTypeOK
<1>2. ViewerBehind \/ BothIdentify \/ Waiting \/ Entering \/ ViewerGone
  BY Places DEF ShakeInv, Situation, At
<1>3. Passed(setting, sc)
  <2>1. ViewerBehind \/ BothIdentify => Passed(setting, sc)
    BY ServingIs DEF BothIdentify, ViewerBehind
  <2>2. Waiting \/ Entering => Passed(setting, sc)
    BY DEF Waiting, Judged, Entering
  <2>3. ViewerGone => Passed(setting, sc)
    BY DEF ViewerGone, Waits
  <2> QED BY <1>2, <2>1, <2>2, <2>3
<1>4. cc.state \in {"result", "init"} => Agreed
  <2>1. ViewerBehind => cc.state \notin {"result", "init"}
    BY Places DEF At
  <2>2. BothIdentify => Agreed
    BY <1>1, AgreedIs DEF BothIdentify
  <2>3. Waiting \/ Entering => Agreed
    BY DEF Waiting, Entering
  <2>4. ViewerGone => cc.state \notin {"result", "init"}
    BY DEF ViewerGone
  <2> QED BY <1>2, <2>1, <2>2, <2>3, <2>4
<1>5. sc.tls = (Encryption(sc.type) # "none")
  <2>1. sc.tls \in BOOLEAN
    BY <1>1 DEF SC
  <2> QED BY <1>3, <2>1 DEF Passed
<1> QED BY <1>3, <1>4, <1>5 DEF Passed, Agreed

-----------------------------------------------------------------------------
\* Type correctness of the handshake.
THEOREM ShakeTypeCorrect == HandshakeSpec => []HandshakeTypeOK
<1>1. ShakeInv => HandshakeTypeOK
  BY DEF ShakeInv
<1> QED BY <1>1, ShakeInit, ShakeNext, PTL DEF HandshakeSpec

\* Each side takes every message for what it is, from the stream it was written to.
THEOREM ShakeUnderstood == HandshakeSpec => []Understood
BY ShakeInit, ShakeNext, InvUnderstood, PTL DEF HandshakeSpec

\* Whoever is let in has passed every layer of a type that is enabled.
THEOREM ShakeLetIn == HandshakeSpec => []LetIn
BY ShakeInit, ShakeNext, InvLetIn, PTL DEF HandshakeSpec

-----------------------------------------------------------------------------
\* A step of the connection is a step of the handshake or leaves it alone.
LEMMA ConnectionShakes == [ConnectionNext]_connectionVars => [HandshakeNext]_shakeVars
<1>1. ViewerShaking => ViewerShakes
  BY Zenon DEF ViewerShaking, Shaking, ViewerShakes
<1>2. ServerShaking => ServerShakes
  BY Zenon DEF ServerShaking, Shaking, ServerShakes
<1>3. Enter => EnterSession
  BY Zenon DEF Enter
<1>4. ViewerServes \/ ServerServes \/ InSession(UpdateTimeout) => UNCHANGED shakeVars
  BY Zenon DEF ViewerServes, ServerServes, InSession
<1>5. OthersAct => Reconnect \/ UNCHANGED shakeVars
  BY Zenon DEF OthersAct, InSession, Shaking
<1>6. UNCHANGED connectionVars => UNCHANGED shakeVars
  BY DEF connectionVars, shakeVars
<1> QED BY <1>1, <1>2, <1>3, <1>4, <1>5, <1>6, Zenon DEF ConnectionNext, HandshakeNext

\* A connection is a handshake: what is proved of the handshake holds of it.
THEOREM ConnectionIsShake == ConnectionSpec => HandshakeSpec
<1>1. ConnectionInit => HandshakeInit
  BY DEF ConnectionInit
<1> QED BY <1>1, ConnectionShakes, PTL DEF ConnectionSpec, HandshakeSpec

\* It is also a step of the session or leaves that alone.
LEMMA ConnectionServes ==
  ASSUME HandshakeTypeOK, [ConnectionNext]_connectionVars
  PROVE  [Next]_vars
<1>1. ViewerShaking => UNCHANGED vars
  BY Zenon DEF ViewerShaking, Shaking
<1>2. ServerShaking => UNCHANGED vars
  BY Zenon DEF ServerShaking, Shaking
<1>3. Enter => Next
  <2>1. cc.tls \in BOOLEAN
    BY DEF HandshakeTypeOK, CC
  <2> QED BY <2>1, Zenon DEF Enter, Next, ViewerReads
<1>4. ViewerServes => Next
  BY Zenon DEF ViewerServes, InSession, Next, ViewerReads, ReadMsg
<1>5. ServerServes \/ InSession(UpdateTimeout) => Next
  BY Zenon DEF ServerServes, InSession, Next, ServerActs
<1>6. OthersAct => Next \/ UNCHANGED vars
  BY Zenon DEF OthersAct, InSession, Shaking, Next, ServerActs
<1>7. UNCHANGED connectionVars => UNCHANGED vars
  BY DEF connectionVars, vars
<1> QED BY <1>1, <1>2, <1>3, <1>4, <1>5, <1>6, <1>7, Zenon DEF ConnectionNext

\* A connection from its first byte on behaves as a session does: what is proved of
\* the session holds of it.
THEOREM ConnectionIsSync == ConnectionSpec => Spec
<1>1. ConnectionInit => Init
  BY DEF ConnectionInit
<1>2. HandshakeTypeOK /\ [ConnectionNext]_connectionVars => [Next]_vars
  BY ConnectionServes
<1> QED BY <1>1, <1>2, ConnectionIsShake, ShakeTypeCorrect, PTL DEF Spec, ConnectionSpec

\* What is proved of the handshake and of the session holds of the connection: each
\* message is understood, whoever is let in may be, and then, whatever they agreed
\* on, the session is right.
THEOREM ConnectionCorrect ==
  ConnectionSpec =>
    [](/\ HandshakeTypeOK /\ Understood /\ LetIn
       /\ TypeOK /\ DecodedAsEncoded /\ NothingRefused /\ AskedFor /\ AreaFollowsSize)
BY ConnectionIsShake, ShakeTypeCorrect, ShakeUnderstood, ShakeLetIn,
   ConnectionIsSync, TypeCorrect, DecodesAsEncoded, RefusesNothing, KeepsAsking,
   CoversTheScreen, PTL
=============================================================================
