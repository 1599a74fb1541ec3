------------------------ MODULE UpdateTrackerProofs ------------------------
(***************************************************************************)
(* Lemmas about the operators of UpdateTracker: each tracker operation     *)
(* keeps the account true, and sending what an account holds brings the    *)
(* old picture up to date.  They are stated for any set of pixels and any  *)
(* pixel values, and used by the proofs of the state machines.             *)
(***************************************************************************)
EXTENDS UpdateTracker, TLAPS

(***************************************************************************)
(* Moving a point, and moving it back.                                     *)
(***************************************************************************)
LEMMA ShiftType ==
  ASSUME NEW p \in Point, NEW d \in Point
  PROVE  Shift(p, d) \in Point /\ Negate(d) \in Point
BY DEF Point, Shift, Negate

\* Moving back undoes moving, and the other way round.
LEMMA ShiftBack ==
  ASSUME NEW p \in Point, NEW d \in Point
  PROVE  /\ Shift(Shift(p, d), Negate(d)) = p
         /\ Shift(Shift(p, Negate(d)), d) = p
BY DEF Point, Shift, Negate

\* Going back over two movements at once is going back over the later one,
\* then over the earlier one.
LEMMA ShiftTwice ==
  ASSUME NEW p \in Point, NEW d \in Point, NEW e \in Point
  PROVE  Shift(p, Negate(Shift(d, e))) = Shift(Shift(p, Negate(e)), Negate(d))
BY DEF Point, Shift, Negate

\* A translated region holds the points that come from the region.
LEMMA TranslateElement ==
  ASSUME NEW R \in SUBSET Point, NEW d \in Point
  PROVE  /\ Translate(R, d) \in SUBSET Point
         /\ \A p \in Point : p \in Translate(R, d) <=> Shift(p, Negate(d)) \in R
<1>1. Translate(R, d) \in SUBSET Point
  BY ShiftType DEF Translate
<1>2. ASSUME NEW p \in Point, p \in Translate(R, d)
      PROVE  Shift(p, Negate(d)) \in R
  BY <1>2, ShiftBack DEF Translate
<1>3. ASSUME NEW p \in Point, Shift(p, Negate(d)) \in R
      PROVE  p \in Translate(R, d)
  BY <1>3, ShiftBack DEF Translate
<1> QED BY <1>1, <1>2, <1>3

\* A point is in the region moved back if the point, moved, is in the region.
LEMMA TranslateBackElement ==
  ASSUME NEW R \in SUBSET Point, NEW d \in Point
  PROVE  /\ Translate(R, Negate(d)) \in SUBSET Point
         /\ \A p \in Point : p \in Translate(R, Negate(d)) <=> Shift(p, d) \in R
<1>1. Negate(d) \in Point /\ Negate(Negate(d)) = d
  BY DEF Point, Negate
<1> QED BY <1>1, TranslateElement

\* The sources of R that lie in A, moved back to where they go: the points of
\* R whose source lies in A.
LEMMA SourcesIn ==
  ASSUME NEW R \in SUBSET Point, NEW A \in SUBSET Point, NEW d \in Point
  PROVE  Translate(Translate(R, Negate(d)) \cap A, d)
           = {p \in R : Shift(p, Negate(d)) \in A}
<1> DEFINE src == Translate(R, Negate(d)) \cap A
<1>1. src \in SUBSET Point
  OBVIOUS
<1>2. Translate(src, d) \in SUBSET Point
  BY <1>1, TranslateElement
<1>3. \A p \in Point : p \in Translate(src, d) <=> Shift(p, Negate(d)) \in src
  BY <1>1, TranslateElement
<1>4. \A p \in Point : Shift(p, Negate(d)) \in Translate(R, Negate(d)) <=> p \in R
  <2> TAKE p \in Point
  <2>1. Shift(p, Negate(d)) \in Point /\ Shift(Shift(p, Negate(d)), d) = p
    BY ShiftType, ShiftBack
  <2> QED BY <2>1, TranslateBackElement
<1>5. \A p \in Point :
         p \in Translate(src, d) <=> p \in R /\ Shift(p, Negate(d)) \in A
  BY <1>3, <1>4
<1>6. Translate(src, d) = {p \in R : Shift(p, Negate(d)) \in A}
  BY <1>2, <1>5
<1> QED BY <1>6

(***************************************************************************)
(* What add_copied returns, in each of its cases.                          *)
(***************************************************************************)
LEMMA AddChangedType ==
  ASSUME NEW t \in Tracker, NEW R \in SUBSET Point
  PROVE  /\ AddChanged(t, R) \in Tracker
         /\ AddChanged(t, R).changed = t.changed \cup R
         /\ AddChanged(t, R).copied = t.copied
         /\ AddChanged(t, R).delta = t.delta
         /\ AddChanged(t, R).copyEnabled = t.copyEnabled
BY DEF AddChanged, Tracker

FreshCopyResult(u, t, dest, d) ==
  /\ u \in Tracker
  /\ \A p : p \in u.changed <=>
              \/ p \in t.changed
              \/ p \in t.copied
              \/ p \in dest /\ Shift(p, Negate(d)) \in t.changed
  /\ u.copied = dest
  /\ u.delta = d
  /\ u.copyEnabled = t.copyEnabled

ContinuedCopyResult(u, t, dest, d) ==
  /\ u \in Tracker
  /\ \A p : p \in u.copied <=> p \in dest /\ Shift(p, Negate(d)) \in t.copied
  /\ \A p : p \in u.changed <=>
              \/ p \in t.changed
              \/ p \in u.copied /\ Shift(p, Negate(d)) \in t.changed
              \/ (p \in dest \/ p \in t.copied) /\ p \notin u.copied
  /\ u.delta = Shift(t.delta, d)
  /\ u.copyEnabled = t.copyEnabled

\* What AddFreshCopy makes of a tracker, where the pending copy is not the larger one.
LEMMA AddFreshCopyResult ==
  ASSUME NEW t \in Tracker, NEW dest \in SUBSET Point, NEW d \in Point,
         ~(BoundingArea(t.copied) > BoundingArea(dest))
  PROVE  FreshCopyResult(AddFreshCopy(t, dest, d), t, dest, d)
<1> DEFINE invalidSrc == Translate(dest, Negate(d)) \cap t.changed
<1>1. t.changed \in SUBSET Point /\ t.copied \in SUBSET Point
  BY DEF Tracker
<1>2. Translate(invalidSrc, d) = {p \in dest : Shift(p, Negate(d)) \in t.changed}
  BY <1>1, SourcesIn
<1>3. AddFreshCopy(t, dest, d) =
        [t EXCEPT !.changed = @ \cup Translate(invalidSrc, d) \cup t.copied,
                  !.copied = dest, !.delta = d]
  BY DEF AddFreshCopy
<1>4. Translate(invalidSrc, d) \in SUBSET Point
  BY <1>2
<1> HIDE DEF invalidSrc
<1> QED BY <1>1, <1>2, <1>3, <1>4 DEF Tracker, FreshCopyResult

\* What AddContinuedCopy makes of it.
LEMMA AddContinuedCopyResult ==
  ASSUME NEW t \in Tracker, NEW dest \in SUBSET Point, NEW d \in Point
  PROVE  ContinuedCopyResult(AddContinuedCopy(t, dest, d), t, dest, d)
<1> DEFINE overlap == Translate(dest, Negate(d)) \cap t.copied
           invalidSrc == Translate(overlap \cap t.changed, d)
           moved == {p \in dest : Shift(p, Negate(d)) \in t.copied}
<1>1. t.changed \in SUBSET Point /\ t.copied \in SUBSET Point /\ t.delta \in Point
  BY DEF Tracker
<1>2. Translate(overlap, d) = moved
  BY <1>1, SourcesIn
<1>3. invalidSrc = {p \in dest : Shift(p, Negate(d)) \in t.copied \cap t.changed}
  <2>1. overlap \cap t.changed
          = Translate(dest, Negate(d)) \cap (t.copied \cap t.changed)
    OBVIOUS
  <2> DEFINE both == t.copied \cap t.changed
  <2>2. both \in SUBSET Point
    BY <1>1
  <2> HIDE DEF both
  <2>3. Translate(Translate(dest, Negate(d)) \cap both, d)
          = {p \in dest : Shift(p, Negate(d)) \in both}
    BY <2>2, SourcesIn
  <2> QED BY <2>1, <2>3 DEF both
<1>4. AddContinuedCopy(t, dest, d) =
        [t EXCEPT !.changed = @ \cup invalidSrc
                               \cup ((dest \cup t.copied) \ Translate(overlap, d)),
                  !.copied = Translate(overlap, d),
                  !.delta = Shift(@, d)]
  BY DEF AddContinuedCopy
<1>5. Shift(t.delta, d) \in Point
  BY <1>1, ShiftType
<1>6. moved \in SUBSET Point /\ invalidSrc \in SUBSET Point
  BY <1>3
<1> HIDE DEF overlap, invalidSrc, moved
<1>7. AddContinuedCopy(t, dest, d) =
        [t EXCEPT !.changed = @ \cup invalidSrc \cup ((dest \cup t.copied) \ moved),
                  !.copied = moved,
                  !.delta = Shift(@, d)]
  BY <1>2, <1>4
<1>8. /\ AddContinuedCopy(t, dest, d) \in Tracker
      /\ AddContinuedCopy(t, dest, d).changed
           = t.changed \cup invalidSrc \cup ((dest \cup t.copied) \ moved)
      /\ AddContinuedCopy(t, dest, d).copied = moved
      /\ AddContinuedCopy(t, dest, d).delta = Shift(t.delta, d)
      /\ AddContinuedCopy(t, dest, d).copyEnabled = t.copyEnabled
  BY <1>1, <1>5, <1>6, <1>7 DEF Tracker
<1> QED BY <1>3, <1>8 DEF moved, ContinuedCopyResult

(***************************************************************************)
(* What AddCopied does to the type and the extent of a tracker.            *)
(***************************************************************************)
LEMMA AddCopiedType ==
  ASSUME NEW t \in Tracker, NEW dest \in SUBSET Point, NEW d \in Point
  PROVE  /\ AddCopied(t, dest, d) \in Tracker
         /\ AddCopied(t, dest, d).copyEnabled = t.copyEnabled
         /\ AddCopied(t, dest, d).changed \cup AddCopied(t, dest, d).copied
              \subseteq t.changed \cup t.copied \cup dest
         /\ ~t.copyEnabled => AddCopied(t, dest, d).copied = t.copied
<1> DEFINE Good(u) == /\ u \in Tracker
                      /\ u.copyEnabled = t.copyEnabled
                      /\ u.changed \cup u.copied \subseteq t.changed \cup t.copied \cup dest
                      /\ ~t.copyEnabled => u.copied = t.copied
<1>0. Good(AddChanged(t, dest))
  BY AddChangedType
<1>1. CASE ~t.copyEnabled
  <2>1. AddCopied(t, dest, d) = AddChanged(t, dest)
    BY <1>1 DEF AddCopied
  <2> QED BY <1>0, <2>1
<1>2. CASE t.copyEnabled /\ dest = {}
  <2>1. AddCopied(t, dest, d) = t
    BY <1>2 DEF AddCopied
  <2> QED BY <2>1
<1>3. CASE /\ t.copyEnabled /\ dest # {}
           /\ Translate(dest, Negate(d)) \cap t.copied = {}
  <2>1. AddCopied(t, dest, d) = AddFreshCopy(t, dest, d)
    BY <1>3 DEF AddCopied
  <2>2. CASE BoundingArea(t.copied) > BoundingArea(dest)
    <3>1. AddFreshCopy(t, dest, d) = AddChanged(t, dest)
      BY <2>2 DEF AddFreshCopy
    <3> QED BY <1>0, <2>1, <3>1
  <2>3. CASE ~(BoundingArea(t.copied) > BoundingArea(dest))
    <3>1. FreshCopyResult(AddFreshCopy(t, dest, d), t, dest, d)
      BY <2>3, AddFreshCopyResult
    <3>2. Good(AddFreshCopy(t, dest, d))
      BY <1>3, <3>1 DEF FreshCopyResult
    <3> QED BY <2>1, <3>2
  <2> QED BY <2>2, <2>3
<1>4. CASE /\ t.copyEnabled /\ dest # {}
           /\ Translate(dest, Negate(d)) \cap t.copied # {}
  <2>1. AddCopied(t, dest, d) = AddContinuedCopy(t, dest, d)
    BY <1>4 DEF AddCopied
  <2>2. Good(AddContinuedCopy(t, dest, d))
    BY <1>4, AddContinuedCopyResult DEF ContinuedCopyResult
  <2> QED BY <2>1, <2>2
<1> QED BY <1>1, <1>2, <1>3, <1>4

(***************************************************************************)
(* Each operation keeps the account true.                                  *)
(***************************************************************************)
LEMMA AddChangedAccounts ==
  ASSUME NEW t \in Tracker, NEW R \in SUBSET Point,
         NEW new, NEW new2, NEW old,
         DOMAIN new2 = DOMAIN new,
         Accounts(t, new, old),
         \A p \in DOMAIN new : p \notin R => new2[p] = new[p]
  PROVE  Accounts(AddChanged(t, R), new2, old)
BY AddChangedType DEF Accounts

\* AddFreshCopy keeps a tracker a true account of a picture in which the copy was made.
LEMMA AddFreshCopyAccounts ==
  ASSUME NEW t \in Tracker, NEW new, NEW new2, NEW old,
         NEW dest \in SUBSET Point, NEW d \in Point,
         DOMAIN new \subseteq Point,
         DOMAIN new2 = DOMAIN new,
         Accounts(t, new, old),
         \A p \in DOMAIN new : p \notin dest => new2[p] = new[p],
         \A p \in DOMAIN new : p \in dest =>
            /\ Shift(p, Negate(d)) \in DOMAIN new
            /\ new2[p] = new[Shift(p, Negate(d))],
         Translate(dest, Negate(d)) \cap t.copied = {}
  PROVE  Accounts(AddFreshCopy(t, dest, d), new2, old)
<1>1. CASE BoundingArea(t.copied) > BoundingArea(dest)
  <2>1. AddFreshCopy(t, dest, d) = AddChanged(t, dest)
    BY <1>1 DEF AddFreshCopy
  <2> QED BY <2>1, AddChangedAccounts
<1>2. CASE ~(BoundingArea(t.copied) > BoundingArea(dest))
  <2> DEFINE u == AddFreshCopy(t, dest, d)
             src(p) == Shift(p, Negate(d))
  <2>1. FreshCopyResult(u, t, dest, d)
    BY <1>2, AddFreshCopyResult
  <2>2. \A p \in dest : src(p) \notin t.copied
    <3> TAKE p \in dest
    <3>1. src(p) \in Translate(dest, Negate(d))
      BY DEF Translate
    <3> QED BY <3>1
  <2> HIDE DEF u
  <2>3. ASSUME NEW p \in DOMAIN new, p \notin u.changed \cup u.copied
        PROVE  new2[p] = old[p]
    BY <2>1, <2>3 DEF Accounts, FreshCopyResult
  <2>4. ASSUME NEW p \in DOMAIN new, p \in u.copied \ u.changed
        PROVE  /\ Shift(p, Negate(u.delta)) \in DOMAIN new
               /\ new2[p] = old[Shift(p, Negate(u.delta))]
    <3>1. p \in dest /\ src(p) \notin t.changed \cup t.copied
      BY <2>1, <2>2, <2>4 DEF FreshCopyResult
    <3>2. src(p) \in DOMAIN new /\ new2[p] = new[src(p)]
      BY <3>1
    <3>3. new[src(p)] = old[src(p)]
      BY <3>1, <3>2 DEF Accounts
    <3> QED BY <2>1, <3>2, <3>3 DEF FreshCopyResult
  <2> QED BY <2>3, <2>4 DEF Accounts, u
<1> QED BY <1>1, <1>2

\* So does AddContinuedCopy.
LEMMA AddContinuedCopyAccounts ==
  ASSUME NEW t \in Tracker, NEW new, NEW new2, NEW old,
         NEW dest \in SUBSET Point, NEW d \in Point,
         DOMAIN new \subseteq Point,
         DOMAIN new2 = DOMAIN new,
         Accounts(t, new, old),
         \A p \in DOMAIN new : p \notin dest => new2[p] = new[p],
         \A p \in DOMAIN new : p \in dest =>
            /\ Shift(p, Negate(d)) \in DOMAIN new
            /\ new2[p] = new[Shift(p, Negate(d))]
  PROVE  Accounts(AddContinuedCopy(t, dest, d), new2, old)
<1> DEFINE u == AddContinuedCopy(t, dest, d)
           src(p) == Shift(p, Negate(d))
<1>1. ContinuedCopyResult(u, t, dest, d)
  BY AddContinuedCopyResult
<1>2. t.delta \in Point
  BY DEF Tracker
<1> HIDE DEF u
<1>3. ASSUME NEW p \in DOMAIN new, p \notin u.changed \cup u.copied
      PROVE  new2[p] = old[p]
  BY <1>1, <1>3 DEF Accounts, ContinuedCopyResult
<1>4. ASSUME NEW p \in DOMAIN new, p \in u.copied \ u.changed
      PROVE  /\ Shift(p, Negate(u.delta)) \in DOMAIN new
             /\ new2[p] = old[Shift(p, Negate(u.delta))]
  <2>1. p \in dest /\ src(p) \in t.copied \ t.changed
    BY <1>1, <1>4 DEF ContinuedCopyResult
  <2>2. src(p) \in DOMAIN new /\ new2[p] = new[src(p)]
    BY <2>1
  <2>3. /\ Shift(src(p), Negate(t.delta)) \in DOMAIN new
        /\ new[src(p)] = old[Shift(src(p), Negate(t.delta))]
    BY <2>1, <2>2 DEF Accounts
  <2>4. Shift(p, Negate(u.delta)) = Shift(src(p), Negate(t.delta))
    BY <1>1, <1>2, <1>4, ShiftTwice DEF ContinuedCopyResult
  <2> QED BY <2>2, <2>3, <2>4
<1> QED BY <1>3, <1>4 DEF Accounts, u

\* So does add_copied, which chooses between them.
LEMMA AddCopiedAccounts ==
  ASSUME NEW t \in Tracker, NEW new, NEW new2, NEW old,
         NEW dest \in SUBSET Point, NEW d \in Point,
         DOMAIN new \subseteq Point,
         DOMAIN new2 = DOMAIN new,
         Accounts(t, new, old),
         \A p \in DOMAIN new : p \notin dest => new2[p] = new[p],
         \A p \in DOMAIN new : p \in dest =>
            /\ Shift(p, Negate(d)) \in DOMAIN new
            /\ new2[p] = new[Shift(p, Negate(d))]
  PROVE  Accounts(AddCopied(t, dest, d), new2, old)
<1>1. CASE ~t.copyEnabled
  <2>1. AddCopied(t, dest, d) = AddChanged(t, dest)
    BY <1>1 DEF AddCopied
  <2> QED BY <2>1, AddChangedAccounts
<1>2. CASE t.copyEnabled /\ dest = {}
  <2>1. AddCopied(t, dest, d) = t
    BY <1>2 DEF AddCopied
  <2> QED BY <1>2, <2>1 DEF Accounts
<1>3. CASE /\ t.copyEnabled /\ dest # {}
           /\ Translate(dest, Negate(d)) \cap t.copied = {}
  <2>1. AddCopied(t, dest, d) = AddFreshCopy(t, dest, d)
    BY <1>3 DEF AddCopied
  <2> QED BY <1>3, <2>1, AddFreshCopyAccounts
<1>4. CASE /\ t.copyEnabled /\ dest # {}
           /\ Translate(dest, Negate(d)) \cap t.copied # {}
  <2>1. AddCopied(t, dest, d) = AddContinuedCopy(t, dest, d)
    BY <1>4 DEF AddCopied
  <2> QED BY <2>1, AddContinuedCopyAccounts
<1> QED BY <1>1, <1>2, <1>3, <1>4

\* Two accounts in a row make one: t tells old from mid, info tells mid from
\* new (VNCServerST::checkUpdate hands the comparer's account to a client).
LEMMA ReplayAccounts ==
  ASSUME NEW t \in Tracker, NEW new, NEW mid, NEW old, NEW info,
         info.changed \in SUBSET Point, info.copied \in SUBSET Point,
         info.delta \in Point,
         DOMAIN new \subseteq Point, DOMAIN mid = DOMAIN new,
         info.copied \cap info.changed = {},
         Accounts(t, mid, old),
         Accounts(info, new, mid)
  PROVE  Accounts(Replay(t, info), new, old)
<1> DEFINE step == [p \in DOMAIN mid |->
                      IF p \in info.copied THEN new[p] ELSE mid[p]]
           u == AddCopied(t, info.copied, info.delta)
<1>1. u \in Tracker
  BY AddCopiedType
<1>2. Accounts(u, step, old)
  <2>1. DOMAIN step = DOMAIN mid
    OBVIOUS
  <2>2. \A p \in DOMAIN mid : p \notin info.copied => step[p] = mid[p]
    OBVIOUS
  <2>3. \A p \in DOMAIN mid : p \in info.copied =>
           /\ Shift(p, Negate(info.delta)) \in DOMAIN mid
           /\ step[p] = mid[Shift(p, Negate(info.delta))]
    BY DEF Accounts
  <2> HIDE DEF step
  <2> QED BY <2>1, <2>2, <2>3, AddCopiedAccounts
<1>3. \A p \in DOMAIN step : p \notin info.changed => new[p] = step[p]
  BY DEF Accounts
<1>4. DOMAIN new = DOMAIN step
  OBVIOUS
<1> HIDE DEF step, u
<1>5. Accounts(AddChanged(u, info.changed), new, old)
  BY <1>1, <1>2, <1>3, <1>4, AddChangedAccounts
<1> QED BY <1>5 DEF Replay, u

(***************************************************************************)
(* Sending everything a true account holds makes the old picture equal to  *)
(* the new one.                                                            *)
(***************************************************************************)
LEMMA ApplyUpdateCatchesUp ==
  ASSUME NEW t \in Tracker, NEW Points, NEW Colours,
         NEW new \in [Points -> Colours], NEW old \in [Points -> Colours],
         Accounts(t, new, old)
  PROVE  ApplyUpdate(old, UpdateInfo(t, Points), new) = new
<1> DEFINE info == UpdateInfo(t, Points)
<1>1. /\ info.changed = t.changed \cap Points
      /\ info.copied = (t.copied \ t.changed) \cap Points
      /\ info.delta = t.delta
  BY DEF UpdateInfo
<1> HIDE DEF info
<1>2. ASSUME NEW p \in Points
      PROVE  (IF p \in info.changed THEN new[p]
              ELSE IF p \in info.copied THEN old[Shift(p, Negate(info.delta))]
              ELSE old[p]) = new[p]
  <2>1. CASE p \in t.changed
    BY <1>1, <2>1
  <2>2. CASE p \in t.copied \ t.changed
    BY <1>1, <2>2 DEF Accounts
  <2>3. CASE p \notin t.changed \cup t.copied
    BY <1>1, <2>3 DEF Accounts
  <2> QED BY <2>1, <2>2, <2>3
<1>3. ApplyUpdate(old, info, new) = [p \in Points |-> new[p]]
  BY <1>2 DEF ApplyUpdate
<1> QED BY <1>3 DEF info
=============================================================================
