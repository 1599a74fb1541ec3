-------------------------- MODULE CongestionProofs --------------------------
(***************************************************************************)
(* Proofs about the congestion control: for every word size, window, size  *)
(* of updates and round-trip time, what updateCongestion divides by and    *)
(* subtracts makes sense, and what is on its way is bounded.               *)
(*                                                                         *)
(* Neither property is inductive.  Measured needs that no time is zero     *)
(* and none is the marker for "nothing measured".  InFlightBounded rests   *)
(* on what makes it safe to let an update through when one ping is         *)
(* outstanding: that ping ends the last update, so what was written before *)
(* it is one update, or other data, which stops at its own bound.  Ordered *)
(* and BoundedBy say so about the whole queue of pings.                    *)
(***************************************************************************)
EXTENDS Congestion, TLAPS

\* Every time was measured, is positive and not below the wire latency.
Trips == /\ baseRTT \in 1 .. Never
         /\ baseRTT <= minRTT
         /\ seenCongestion => minRTT # Never

\* The pings are in the order of the stream; the last was sent at sentOffset; what was
\* written after it is other data, which is written only up to MaxOther.
Ordered == /\ pingCounter = Len(pings)
           /\ \A i, j \in 1 .. Len(pings) : i <= j => pings[i].offset <= pings[j].offset
           /\ IF pings = <<>> THEN sent \in {-1, 0} ELSE sent = pings[Len(pings)].offset
           /\ length = sent \/ length <= MaxOther
           /\ sent <= length

\* No update so far was larger than u: what is on its way is bounded in terms of u, and so
\* is what was written between the last two pings, or before the only one.
BoundedBy(u) ==
  /\ length <= u + Larger(MaximumWindow - 1, Larger(u, MaxOther))
  /\ Len(pings) = 1 => pings[1].offset <= u
  /\ Len(pings) > 1 => pings[Len(pings)].offset - pings[Len(pings) - 1].offset <= u

Bounded == \E u \in UpdateSizes : BoundedBy(u)

\* The inductive invariant.
Inv == TypeOK /\ Trips /\ Ordered /\ Bounded

USE WordAssumption, WindowAssumption, TripAssumption, SizeAssumption, OtherAssumption
    DEF MinimumWindow, Never, Unsigned

\* Type correctness, the Booleans apart from the numbers.
Flags == /\ fences \in BOOLEAN /\ pending \in BOOLEAN /\ seenCongestion \in BOOLEAN
         /\ buffered \in BOOLEAN /\ idle \in BOOLEAN
         /\ updateTimer \in BOOLEAN /\ congestionTimer \in BOOLEAN

Numbers == /\ window \in 1 .. MaximumWindow
           /\ baseRTT \in Unsigned /\ minRTT \in Unsigned
           /\ pingCounter \in Nat /\ length \in Nat /\ sent \in Int
           /\ pings \in Seq(Ping) /\ talk \in 0 .. MaxTalk

\* Type correctness is both.
LEMMA TypeParts == TypeOK <=> Flags /\ Numbers
  BY Zenon DEF TypeOK, Flags, Numbers, MinimumWindow

-----------------------------------------------------------------------------
\* Sequences of pings, and arithmetic.
\* What a queue of pings holds.
LEMMA PingOffset ==
  ASSUME NEW s \in Seq(Ping), NEW i \in 1 .. Len(s)
  PROVE  s[i] \in Ping /\ s[i].offset \in Nat
<1>1. s[i] \in Ping
  OBVIOUS
<1> QED BY <1>1 DEF Ping

\* A queue of one is not empty.
LEMMA NotEmpty ==
  ASSUME NEW s \in Seq(Ping), Len(s) = 1
  PROVE  s # <<>>
  BY SMTT(60)

\* The length of a sequence is a number.
LEMMA SeqLength ==
  ASSUME NEW S, NEW s \in Seq(S)
  PROVE  Len(s) \in Nat
  OBVIOUS

\* Moving the origin of two offsets keeps their distance and their order.
LEMMA Difference ==
  ASSUME NEW a \in Nat, NEW b \in Nat, NEW o \in Nat, NEW x, NEW y,
         x = a - o, y = b - o
  PROVE  x - y = a - b /\ (b <= a => y <= x)
  OBVIOUS

\* The window is brought back into its range.
LEMMA Clamped ==
  ASSUME NEW w \in Int
  PROVE  Clamp(w) \in MinimumWindow .. MaximumWindow
  BY DEF Clamp, Larger, Smaller

\* A quotient is a number.
LEMMA Division ==
  ASSUME NEW a \in Int, NEW b \in Nat \ {0}
  PROVE  a \div b \in Int
  BY SMT

\* An unsigned number is in its range.
LEMMA Remainder ==
  ASSUME NEW a \in Int
  PROVE  a % Word \in Unsigned
  BY SMT

\* A product is a number.
LEMMA Product ==
  ASSUME NEW a \in Int, NEW b \in Int
  PROVE  a * b \in Int
  BY SMT

\* updateCongestion never divides by zero and leaves the window within its range.
LEMMA AdjustedWindow ==
  ASSUME TypeOK, Trips, NEW diff \in Int
  PROVE  Adjusted(diff) \in MinimumWindow .. MaximumWindow
<1> DEFINE q == ((window * baseRTT) % Word) \div minRTT
           h == baseRTT \div 2
<1>1. /\ window \in Int /\ baseRTT \in Int /\ minRTT \in Nat \ {0}
  BY DEF TypeOK, Trips
<1>2. q \in Int /\ h \in Int
  <2>1. window * baseRTT \in Int
    BY <1>1, Product
  <2>2. (window * baseRTT) % Word \in Int
    BY <2>1, Remainder
  <2> QED BY <1>1, <2>2, Division
<1> HIDE DEF q, h
<1> DEFINE w == IF diff > Smaller(100, baseRTT) THEN q
                ELSE IF diff > Smaller(50, h) THEN window - 1
                ELSE IF diff < 5 THEN window + 2
                ELSE IF diff < 25 THEN window + 1
                ELSE window
<1>3. w \in Int
  BY <1>1, <1>2
<1>4. Adjusted(diff) = Clamp(w)
  BY DEF Adjusted, q, h
<1> HIDE DEF w
<1> QED BY <1>3, <1>4, Clamped

\* The corrected time is between the wire latency and the time that was measured, even
\* where the product of the correction wraps.
LEMMA RelievedTime ==
  ASSUME TypeOK, NEW rtt \in Nat \ {0}, NEW inFlight \in Nat, NEW base \in Nat, base <= rtt
  PROVE  Relieved(rtt, inFlight, base) \in base .. rtt
<1> DEFINE p == (inFlight - window) * base
           r == p % Word
           delay == r \div window
<1>1. window \in Nat \ {0}
  BY DEF TypeOK
<1>2. p \in Int
  <2>1. inFlight - window \in Int
    BY <1>1
  <2> QED BY <2>1, Product
<1>3. r \in Nat
  BY <1>2, Remainder
<1>4. delay \in Nat
  BY <1>1, <1>3, SMT
<1>5. Relieved(rtt, inFlight, base) = Larger(base, IF delay < rtt THEN rtt - delay ELSE 1)
  BY DEF Relieved
<1> HIDE DEF delay
<1> QED BY <1>4, <1>5 DEF Larger

-----------------------------------------------------------------------------
\* The invariant, action by action.
\* authSuccess establishes it.
LEMMA InvInit == Init => Inv
<1> SUFFICES ASSUME Init PROVE Inv
  OBVIOUS
<1>1. TypeOK
  <2>1. Flags
    BY Zenon DEF Init, Flags
  <2>2. Numbers
    BY DEF Init, Numbers
  <2> QED BY <2>1, <2>2, TypeParts
<1>2. Trips /\ Ordered
  BY DEF Init, Trips, Ordered
<1>3. PICK u \in UpdateSizes : TRUE
  OBVIOUS
<1>4. BoundedBy(u)
  BY DEF Init, BoundedBy, Larger
<1> QED BY <1>1, <1>2, <1>4 DEF Inv, Bounded

\* A bound for one size is one for every larger size.
LEMMA BoundGrows ==
  ASSUME TypeOK, NEW u \in UpdateSizes, NEW n \in UpdateSizes, u <= n, BoundedBy(u)
  PROVE  BoundedBy(n)
<1>1. length <= n + Larger(MaximumWindow - 1, Larger(n, MaxOther))
  BY DEF BoundedBy, TypeOK, Larger
<1>2. Len(pings) = 1 => pings[1].offset <= n
  <2> SUFFICES ASSUME Len(pings) = 1 PROVE pings[1].offset <= n
    OBVIOUS
  <2>1. pings \in Seq(Ping) /\ 1 \in 1 .. Len(pings)
    BY DEF TypeOK
  <2>2. pings[1].offset \in Nat
    BY <2>1, PingOffset
  <2> QED BY <2>2 DEF BoundedBy
<1>3. Len(pings) > 1 => pings[Len(pings)].offset - pings[Len(pings) - 1].offset <= n
  <2> SUFFICES ASSUME Len(pings) > 1
               PROVE pings[Len(pings)].offset - pings[Len(pings) - 1].offset <= n
    OBVIOUS
  <2>1. pings \in Seq(Ping)
    BY DEF TypeOK
  <2>2. Len(pings) \in 1 .. Len(pings) /\ Len(pings) - 1 \in 1 .. Len(pings)
    BY <2>1, SeqLength
  <2>3. pings[Len(pings)].offset \in Nat /\ pings[Len(pings) - 1].offset \in Nat
    BY <2>1, <2>2, PingOffset
  <2> QED BY SMTT(60), <2>3 DEF BoundedBy
<1> QED BY <1>1, <1>2, <1>3 DEF BoundedBy

\* An update that isCongested lets through, with its two pings.
LEMMA PingedKeeps ==
  ASSUME Inv, NEW n \in UpdateSizes, ~IsCongested, Pinged(n),
         window' \in MinimumWindow .. MaximumWindow
  PROVE  /\ pings' \in Seq(Ping) /\ pingCounter' \in Nat /\ length' \in Nat /\ sent' \in Int
         /\ congestionTimer' \in BOOLEAN
         /\ Ordered' /\ Bounded'
<1>1. CASE ~fences
  <2>1. UNCHANGED <<length, sent, pings, pingCounter, congestionTimer>>
    BY <1>1 DEF Pinged, stream
  <2>2. Bounded'
    BY <2>1 DEF Inv, Bounded, BoundedBy
  <2> QED BY <2>1, <2>2 DEF Inv, TypeOK, Ordered
<1>2. CASE fences
  <2> DEFINE L == Len(pings)
             a == [offset |-> length, inFlight |-> length]
             b == [offset |-> length + n, inFlight |-> length + n]
  <2>1. /\ pings \in Seq(Ping) /\ L \in Nat /\ length \in Nat /\ sent \in Int /\ n \in Nat \ {0}
        /\ window \in 1 .. MaximumWindow
    BY DEF Inv, TypeOK
  <2>2. /\ length' = length + n /\ pings' = pings \o <<a, b>>
        /\ pingCounter' = pingCounter + 2 /\ sent' = length + n /\ congestionTimer' = TRUE
    BY <1>2 DEF Pinged
  <2>3. /\ a \in Ping /\ b \in Ping
        /\ a.offset = length /\ b.offset = length + n
    BY <2>1 DEF Ping
  <2> HIDE DEF a, b
  <2>4. /\ pings' \in Seq(Ping) /\ Len(pings') = L + 2
        /\ \A i \in 1 .. L : pings'[i] = pings[i]
        /\ pings'[L + 1] = a /\ pings'[L + 2] = b
    BY <2>1, <2>2, <2>3
  <2>5. pings' # <<>>
    BY <2>1, <2>4
  <2>6. \A i \in 1 .. L : pings[i].offset \in Nat /\ pings[i].offset <= sent
    <3> SUFFICES ASSUME NEW i \in 1 .. L PROVE pings[i].offset \in Nat /\ pings[i].offset <= sent
      OBVIOUS
    <3>1. pings[i].offset \in Nat
      BY <2>1, PingOffset
    <3>2. pings # <<>> /\ L \in 1 .. L /\ i <= L
      BY <2>1
    <3>3. sent = pings[L].offset /\ pings[i].offset <= pings[L].offset
      BY <3>2 DEF Inv, Ordered
    <3> QED BY <3>1, <3>3
  <2>7. sent <= length /\ (length = sent \/ length <= MaxOther)
    BY DEF Inv, Ordered
  <2>8. Ordered'
    <3>1. pingCounter' = Len(pings')
      BY <2>1, <2>2, <2>4 DEF Inv, Ordered
    <3>2. ASSUME NEW i \in 1 .. Len(pings'), NEW j \in 1 .. Len(pings'), i <= j
          PROVE  pings'[i].offset <= pings'[j].offset
      <4>1. CASE j <= L
        <5>1. i \in 1 .. L /\ j \in 1 .. L
          BY <2>1, <2>4, <3>2, <4>1
        <5>2. pings[i].offset <= pings[j].offset
          BY <3>2, <5>1 DEF Inv, Ordered
        <5> QED BY <2>4, <5>1, <5>2
      <4>2. CASE j > L /\ i <= L
        <5>1. i \in 1 .. L /\ j \in {L + 1, L + 2}
          BY SMTT(60), <2>1, <2>4, <4>2
        <5>2. pings'[i].offset <= length /\ pings'[i].offset \in Nat
          BY <2>1, <2>4, <2>6, <2>7, <5>1
        <5>3. pings'[j].offset \in {length, length + n}
          BY <2>3, <2>4, <5>1
        <5> QED BY <2>1, <5>2, <5>3
      <4>3. CASE i > L
        <5>1. i \in {L + 1, L + 2} /\ j \in {L + 1, L + 2}
          BY <2>1, <2>4, <3>2, <4>3
        <5> QED BY <2>1, <2>3, <2>4, <3>2, <5>1
      <4> QED BY <2>1, <2>4, <4>1, <4>2, <4>3
    <3>3. sent' = pings'[Len(pings')].offset
      BY <2>1, <2>2, <2>3, <2>4
    <3>4. length' = sent' /\ sent' <= length'
      BY <2>1, <2>2
    <3> QED BY <2>5, <3>1, <3>2, <3>3, <3>4 DEF Ordered
  <2>9. Bounded'
    <3>1. PICK u \in UpdateSizes : BoundedBy(u)
      BY DEF Inv, Bounded
    <3> DEFINE v == IF u < n THEN n ELSE u
    <3>2. v \in UpdateSizes /\ v \in Nat /\ u <= v /\ n <= v /\ u \in Nat
      OBVIOUS
    <3>3. BoundedBy(v)
      BY <3>1, <3>2, BoundGrows DEF Inv
    <3> HIDE DEF v
    <3>4. length + n <= v + Larger(MaximumWindow - 1, Larger(v, MaxOther))
      <4>1. CASE sent = 0
        BY <2>1, <2>7, <3>2, <4>1 DEF Larger
      <4>2. CASE length < window
        BY <2>1, <3>2, <4>2 DEF Larger
      <4>3. CASE pingCounter = 1
        <5>1. Len(pings) = 1
          BY <4>3 DEF Inv, Ordered
        <5> HIDE DEF L
        <5>2. pings \in Seq(Ping)
          BY <2>1
        <5>3. pings # <<>>
          BY <5>1, <5>2, NotEmpty, Zenon
        <5>4. sent = pings[1].offset
          BY <5>1, <5>3 DEF Inv, Ordered
        <5>5. sent <= v
          BY <3>3, <5>1, <5>4 DEF BoundedBy
        <5> QED BY <2>1, <2>7, <3>2, <5>5 DEF Larger
      <4> QED BY <1>2, <4>1, <4>2, <4>3, <2>1 DEF IsCongested, Rested
    <3>5. Len(pings') > 1 /\ Len(pings') # 1 /\ Len(pings') = L + 2 /\ Len(pings') - 1 = L + 1
      BY <2>1, <2>4
    <3>6. pings'[Len(pings')].offset - pings'[Len(pings') - 1].offset <= v
      BY <2>1, <2>3, <2>4, <3>2, <3>5
    <3>7. BoundedBy(v)'
      BY <2>2, <3>4, <3>5, <3>6 DEF BoundedBy
    <3> QED BY <3>2, <3>7 DEF Bounded
  <2> QED BY <2>1, <2>2, <2>4, <2>8, <2>9 DEF Inv, TypeOK
<1> QED BY <1>1, <1>2

\* isCongested closes the window to one in range.
LEMMA CheckedWindow ==
  ASSUME TypeOK
  PROVE  WindowAfterCheck \in MinimumWindow .. MaximumWindow
  BY DEF TypeOK, WindowAfterCheck, Smaller

\* writeFramebufferUpdate, whether the update is held back or written.
LEMMA WriteUpdateKeeps ==
  ASSUME Inv, WriteUpdate
  PROVE  Inv'
<1>1. window' \in MinimumWindow .. MaximumWindow
  BY CheckedWindow DEF Inv, WriteUpdate
<1>2. fences' = fences /\ UNCHANGED <<baseRTT, minRTT, seenCongestion, talk>>
  BY DEF WriteUpdate, rtts
<1>3. Trips'
  BY <1>2 DEF Inv, Trips
<1>4. CASE IsCongested
  <2>1. /\ updateTimer' = TRUE /\ pending' = TRUE
        /\ UNCHANGED <<length, sent, pings, pingCounter, congestionTimer, buffered, idle>>
    BY <1>4 DEF WriteUpdate, stream
  <2>2. TypeOK'
    BY <1>1, <1>2, <2>1 DEF Inv, TypeOK
  <2>3. Ordered' /\ Bounded'
    BY <2>1 DEF Inv, Ordered, Bounded, BoundedBy
  <2> QED BY <1>3, <2>2, <2>3 DEF Inv
<1>5. CASE ~IsCongested
  <2>1. /\ updateTimer' = FALSE /\ pending' = FALSE /\ buffered' \in BOOLEAN /\ idle' = FALSE
    BY <1>5 DEF WriteUpdate
  <2>2. PICK n \in UpdateSizes : Pinged(n)
    BY <1>5 DEF WriteUpdate
  <2>3. /\ pings' \in Seq(Ping) /\ pingCounter' \in Nat /\ length' \in Nat /\ sent' \in Int
        /\ congestionTimer' \in BOOLEAN
        /\ Ordered' /\ Bounded'
    BY <1>1, <1>5, <2>2, PingedKeeps
  <2>4. TypeOK'
    BY <1>1, <1>2, <2>1, <2>3 DEF Inv, TypeOK
  <2> QED BY <1>3, <2>3, <2>4 DEF Inv
<1> QED BY <1>4, <1>5

\* Data that is written without asking.
LEMMA OtherDataKeeps ==
  ASSUME Inv, OtherData
  PROVE  Inv'
<1>1. PICK n \in UpdateSizes :
         /\ length + n <= IF sent < 0 THEN EarlyOther ELSE MaxOther
         /\ length' = IF fences THEN length + n ELSE length
  BY DEF OtherData
<1>2. /\ talk > 0 /\ talk' = talk - 1 /\ buffered' \in BOOLEAN /\ idle' = FALSE
      /\ UNCHANGED <<fences, pending, window, baseRTT, minRTT, seenCongestion, sent, pings,
                     pingCounter, updateTimer, congestionTimer>>
  BY DEF OtherData, rtts
<1>3. n \in Nat \ {0} /\ length \in Nat /\ sent \in Int
  BY DEF Inv, TypeOK
<1>4. TypeOK'
  <2>1. Flags /\ Numbers
    BY TypeParts DEF Inv
  <2>2. Flags'
    BY <1>2, <2>1, Zenon DEF Flags
  <2>3. Numbers'
    BY <1>1, <1>2, <1>3, <2>1 DEF Numbers
  <2> QED BY <2>2, <2>3, TypeParts, PTL
<1>5. Trips'
  BY <1>2 DEF Inv, Trips
<1>6. length' <= MaxOther /\ sent' <= length' /\ length' \in Nat
  <2>1. sent <= length
    BY DEF Inv, Ordered
  <2> QED BY <1>1, <1>2, <1>3, <2>1
<1>7. Ordered'
  BY <1>2, <1>6 DEF Inv, Ordered
<1>8. PICK u \in UpdateSizes : BoundedBy(u)
  BY DEF Inv, Bounded
<1>9. length' <= u + Larger(MaximumWindow - 1, Larger(u, MaxOther))
  BY <1>6 DEF Larger
<1>10. BoundedBy(u)'
  BY SMTT(60), <1>2, <1>8, <1>9 DEF BoundedBy
<1> QED BY <1>4, <1>5, <1>7, <1>10 DEF Inv, Bounded

\* The answer to the oldest ping moves the origin of all offsets; none becomes negative.
LEMMA Moved ==
  ASSUME Inv, NEW m \in RoundTrips, Pong(m)
  PROVE  LET o == pings[1].offset IN
         /\ Len(pings) \in Nat \ {0} /\ pings[1] \in Ping
         /\ o \in Nat /\ o <= sent /\ sent \in Int
         /\ length' = length - o /\ sent' = sent - o
         /\ pings' \in Seq(Ping) /\ Len(pings') = Len(pings) - 1
         /\ \A i \in 1 .. Len(pings') : /\ pings'[i].offset = pings[i + 1].offset - o
                                        /\ pings[i + 1].offset \in Nat
<1> DEFINE o == pings[1].offset
           T == Tail(pings)
<1>1. /\ pings # <<>> /\ Head(pings) = pings[1] /\ length' = length - o /\ sent' = sent - o
      /\ pings' = [i \in DOMAIN T |-> [T[i] EXCEPT !.offset = @ - o]]
  BY SMTT(60) DEF Pong
<1>2. pings \in Seq(Ping) /\ Len(pings) \in Nat \ {0} /\ sent \in Int
  BY <1>1 DEF Inv, TypeOK
<1>3. \A i \in 1 .. Len(pings) : pings[i] \in Ping
  BY <1>2
<1>4. /\ T \in Seq(Ping) /\ Len(T) = Len(pings) - 1 /\ DOMAIN T = 1 .. Len(pings) - 1
      /\ \A i \in 1 .. Len(pings) - 1 : T[i] = pings[i + 1] /\ i + 1 \in 1 .. Len(pings)
  BY SMTT(60), <1>1, <1>2
<1>5. pings[1] \in Ping /\ o \in Nat
  BY <1>2, <1>3 DEF Ping
<1> HIDE DEF o, T
<1>6. ASSUME NEW i \in 1 .. Len(pings) - 1
      PROVE  /\ pings[i + 1].offset \in Nat /\ pings'[i].offset = pings[i + 1].offset - o
             /\ pings'[i] \in Ping
  <2>1. pings[i + 1] \in Ping /\ pings'[i] = [pings[i + 1] EXCEPT !.offset = @ - o]
    BY <1>1, <1>3, <1>4
  <2>2. o <= pings[i + 1].offset
    <3>1. 1 \in 1 .. Len(pings) /\ i + 1 \in 1 .. Len(pings) /\ 1 <= i + 1
      BY <1>2
    <3> QED BY <3>1 DEF Inv, Ordered, o
  <2>3. pings[i + 1].offset \in Nat
    BY <2>1 DEF Ping
  <2>4. pings[i + 1].offset - o \in Nat
    BY <1>5, <2>2, <2>3
  <2> QED BY <2>1, <2>3, <2>4 DEF Ping
<1>7. pings' \in Seq(Ping) /\ Len(pings') = Len(pings) - 1
  <2>1. \A i \in 1 .. Len(pings) - 1 : [T[i] EXCEPT !.offset = @ - o] \in Ping
    BY <1>1, <1>4, <1>6
  <2>2. pings' = [i \in 1 .. Len(pings) - 1 |-> [T[i] EXCEPT !.offset = @ - o]]
    BY <1>1, <1>4
  <2> DEFINE K == Len(pings) - 1
             e(i) == [T[i] EXCEPT !.offset = @ - o]
  <2>3. K \in Nat
    BY <1>2
  <2>4. \A i \in 1 .. K : e(i) \in Ping
    BY <2>1
  <2>5. pings' = [i \in 1 .. K |-> e(i)]
    BY <2>2
  <2> HIDE DEF K, e
  <2>6. pings' \in Seq(Ping) /\ Len(pings') = K
    BY <2>3, <2>4, <2>5
  <2> QED BY <2>6 DEF K
<1>8. o <= sent
  <2>1. 1 \in 1 .. Len(pings) /\ Len(pings) \in 1 .. Len(pings) /\ 1 <= Len(pings)
    BY <1>2
  <2> QED BY <1>1, <2>1 DEF Inv, Ordered, o
<1> QED BY <1>1, <1>2, <1>5, <1>6, <1>7, <1>8 DEF o

\* handleRTTPong.
LEMMA PongKeeps ==
  ASSUME Inv, NEW m \in RoundTrips, Pong(m)
  PROVE  Inv'
<1> DEFINE o == pings[1].offset
<1>1. /\ Len(pings) \in Nat \ {0} /\ pings[1] \in Ping
      /\ o \in Nat /\ o <= sent /\ sent \in Int
      /\ length' = length - o /\ sent' = sent - o
      /\ pings' \in Seq(Ping) /\ Len(pings') = Len(pings) - 1
      /\ \A i \in 1 .. Len(pings') : /\ pings'[i].offset = pings[i + 1].offset - o
                                     /\ pings[i + 1].offset \in Nat
  BY Moved
<1>2. /\ pings # <<>> /\ Head(pings) = pings[1] /\ pingCounter' = pingCounter - 1
      /\ UNCHANGED <<fences, pending, window, buffered, idle, updateTimer, congestionTimer, talk>>
  BY DEF Pong
<1>3. length \in Nat /\ pings \in Seq(Ping)
  BY DEF Inv, TypeOK
<1>4. /\ Trips' /\ baseRTT' \in Unsigned /\ minRTT' \in Unsigned /\ seenCongestion' \in BOOLEAN
  <2> DEFINE f == pings[1].inFlight
             rtt == Larger(m, 1)
             base == Smaller(rtt, baseRTT)
             time == IF f > window THEN Relieved(rtt, f, base) ELSE rtt
  <2>1. /\ baseRTT' = base /\ seenCongestion' = (seenCongestion \/ f > window)
        /\ minRTT' = Smaller(minRTT, time)
    BY <1>2 DEF Pong
  <2>2. f \in Nat
    BY <1>1 DEF Ping
  <2>3. /\ baseRTT \in 1 .. Never /\ minRTT \in Unsigned /\ baseRTT <= minRTT
        /\ seenCongestion \in BOOLEAN /\ window \in Nat /\ seenCongestion => minRTT # Never
    BY DEF Inv, Trips, TypeOK
  <2>4. rtt \in 1 .. Word - 2
    BY DEF Larger
  <2> HIDE DEF f, rtt
  <2>5. base \in 1 .. rtt /\ base <= baseRTT
    BY <2>3, <2>4 DEF Smaller
  <2> HIDE DEF base
  <2>6. time \in base .. rtt
    <3>1. CASE f > window
      BY <2>2, <2>4, <2>5, <3>1, RelievedTime DEF Inv
    <3>2. CASE ~(f > window)
      BY <2>4, <2>5, <3>2
    <3> QED BY <3>1, <3>2
  <2> HIDE DEF time
  <2>7. minRTT' \in base .. rtt
    BY <2>1, <2>3, <2>4, <2>5, <2>6 DEF Smaller
  <2>8. seenCongestion' \in BOOLEAN
    BY <2>1
  <2> QED BY <2>1, <2>4, <2>5, <2>7, <2>8 DEF Trips
<1>5. sent <= length /\ (length = sent \/ length <= MaxOther) /\ pingCounter = Len(pings)
  BY DEF Inv, Ordered
<1>6. sent = pings[Len(pings)].offset
  BY <1>2 DEF Inv, Ordered
<1>7. TypeOK'
  <2>1. length' \in Nat /\ sent' \in Int
    BY SMTT(60), <1>1, <1>3, <1>5
  <2>2. pingCounter' \in Nat
    BY <1>1, <1>2, <1>5
  <2> QED BY <1>1, <1>2, <1>4, <2>1, <2>2 DEF Inv, TypeOK
<1>8. Ordered'
  <2>1. pingCounter' = Len(pings')
    BY <1>1, <1>2, <1>5
  <2>2. ASSUME NEW i \in 1 .. Len(pings'), NEW j \in 1 .. Len(pings'), i <= j
        PROVE  pings'[i].offset <= pings'[j].offset
    <3>1. i + 1 \in 1 .. Len(pings) /\ j + 1 \in 1 .. Len(pings) /\ i + 1 <= j + 1
      BY SMTT(60), <1>1, <2>2
    <3>2. pings[i + 1].offset <= pings[j + 1].offset
      BY <3>1 DEF Inv, Ordered
    <3>3. /\ pings'[i].offset = pings[i + 1].offset - o /\ pings[i + 1].offset \in Nat
          /\ pings'[j].offset = pings[j + 1].offset - o /\ pings[j + 1].offset \in Nat
      BY <1>1
    <3> HIDE DEF o
    <3> QED BY SMTT(60), <1>1, <3>2, <3>3, Difference
  <2>3. CASE pings' = <<>>
    <3>1. Len(pings) = 1
      BY <1>1, <2>3
    <3>2. sent' = 0
      BY <1>1, <1>6, <3>1
    <3> QED BY <1>1, <1>3, <1>5, <2>1, <2>2, <2>3, <3>2 DEF Ordered
  <2>4. CASE pings' # <<>>
    <3>1. Len(pings') \in 1 .. Len(pings') /\ Len(pings') + 1 = Len(pings)
      BY <1>1, <2>4
    <3>2. sent' = pings'[Len(pings')].offset
      BY <1>1, <1>6, <3>1
    <3>3. sent' <= length' /\ (length' = sent' \/ length' <= MaxOther)
      BY SMTT(60), <1>1, <1>3, <1>5
    <3> QED BY <2>1, <2>2, <2>4, <3>2, <3>3 DEF Ordered
  <2> QED BY <2>3, <2>4
<1>9. PICK u \in UpdateSizes : BoundedBy(u)
  BY DEF Inv, Bounded
<1>10. BoundedBy(u)'
  <2>1. length' <= u + Larger(MaximumWindow - 1, Larger(u, MaxOther))
    <3>1. length <= u + Larger(MaximumWindow - 1, Larger(u, MaxOther))
      BY <1>9 DEF BoundedBy
    <3>2. length' <= length /\ length' \in Int /\ u \in Nat
      BY SMTT(60), <1>1, <1>3
    <3> QED BY <1>3, <3>1, <3>2 DEF Larger
  <2>2. ASSUME Len(pings') = 1 PROVE pings'[1].offset <= u
    <3>1. Len(pings) = 2 /\ 1 \in 1 .. Len(pings')
      <4> DEFINE K == Len(pings)
                 M == Len(pings')
      <4>1. K \in Nat /\ M = K - 1 /\ M = 1
        BY <1>1, <2>2
      <4> HIDE DEF K, M
      <4>2. K = 2 /\ 1 \in 1 .. M
        BY <4>1
      <4> QED BY <4>2 DEF K, M
    <3>2. pings[2].offset - pings[1].offset <= u
      BY <1>9, <3>1 DEF BoundedBy
    <3>3. pings'[1].offset = pings[1 + 1].offset - o
      BY <1>1, <3>1
    <3> QED BY <3>2, <3>3
  <2>3. ASSUME Len(pings') > 1
        PROVE  pings'[Len(pings')].offset - pings'[Len(pings') - 1].offset <= u
    <3> DEFINE L == Len(pings)
    <3>1. /\ L > 1 /\ Len(pings') = L - 1 /\ L \in Nat
          /\ L - 1 \in 1 .. Len(pings') /\ L - 2 \in 1 .. Len(pings')
          /\ L - 1 + 1 = L /\ L - 2 + 1 = L - 1 /\ L - 1 - 1 = L - 2
      BY <1>1, <2>3
    <3>2. pings[L].offset - pings[L - 1].offset <= u
      BY <1>9, <3>1 DEF BoundedBy
    <3>3. /\ pings'[L - 1].offset = pings[L].offset - o /\ pings[L].offset \in Nat
          /\ pings'[L - 2].offset = pings[L - 1].offset - o /\ pings[L - 1].offset \in Nat
      BY <1>1, <3>1
    <3> HIDE DEF o, L
    <3>4. o \in Nat
      BY <1>1 DEF o
    <3>5. pings'[L - 1].offset - pings'[L - 2].offset = pings[L].offset - pings[L - 1].offset
      BY <3>3, <3>4, Difference
    <3> QED BY <3>1, <3>2, <3>5
  <2> QED BY <2>1, <2>2, <2>3 DEF BoundedBy
<1> QED BY <1>4, <1>7, <1>8, <1>10 DEF Inv, Bounded

\* updateCongestion.
LEMMA UpdateCongestionKeeps ==
  ASSUME Inv, UpdateCongestion
  PROVE  Inv'
<1>1. /\ congestionTimer' = FALSE
      /\ UNCHANGED <<fences, pending, length, sent, pings, pingCounter, buffered, idle,
                     updateTimer, talk>>
  BY DEF UpdateCongestion, stream
<1>2. Ordered' /\ Bounded'
  BY <1>1 DEF Inv, Ordered, Bounded, BoundedBy
<1>3. CASE seenCongestion
  <2>1. /\ window' = Adjusted((minRTT - baseRTT) % Word) /\ minRTT' = Never
        /\ seenCongestion' = FALSE /\ baseRTT' = baseRTT
    BY <1>3 DEF UpdateCongestion
  <2>2. (minRTT - baseRTT) % Word \in Int
    <3>1. minRTT - baseRTT \in Int
      BY DEF Inv, TypeOK
    <3> QED BY <3>1, Remainder
  <2>3. window' \in MinimumWindow .. MaximumWindow
    BY <2>1, <2>2, AdjustedWindow DEF Inv
  <2>4. TypeOK'
    <3>1. Flags /\ Numbers
      BY TypeParts DEF Inv
    <3>2. Flags'
      BY <1>1, <2>1, <3>1, Zenon DEF Flags
    <3>3. Numbers'
      BY <1>1, <2>1, <2>3, <3>1 DEF Numbers
    <3> QED BY <3>2, <3>3, TypeParts, PTL
  <2>5. Trips'
    BY <2>1 DEF Inv, Trips
  <2> QED BY <1>2, <2>4, <2>5 DEF Inv
<1>4. CASE ~seenCongestion
  <2>1. UNCHANGED <<window, baseRTT, minRTT, seenCongestion>>
    BY <1>4 DEF UpdateCongestion, rtts
  <2> QED BY <1>1, <1>2, <2>1 DEF Inv, TypeOK, Trips
<1> QED BY <1>3, <1>4

\* Every step keeps the invariant.
LEMMA InvStep == Inv /\ [Next]_vars => Inv'
<1> SUFFICES ASSUME Inv, [Next]_vars PROVE Inv'
  OBVIOUS
<1>1. CASE Change \/ UpdateTimeout
  BY <1>1, WriteUpdateKeeps DEF Change, UpdateTimeout
<1>2. CASE OtherData
  BY <1>2, OtherDataKeeps
<1>3. CASE Flushed \/ Rest
  <2>1. /\ buffered' \in BOOLEAN /\ idle' \in BOOLEAN
        /\ UNCHANGED <<fences, pending, window, baseRTT, minRTT, seenCongestion, length, sent,
                       pings, pingCounter, updateTimer, congestionTimer, talk>>
    BY <1>3, Zenon DEF Flushed, Rest, stream, rtts, Inv, TypeOK
  <2>2. Flags /\ Numbers
    BY TypeParts DEF Inv
  <2>3. Flags'
    BY <2>1, <2>2, Zenon DEF Flags
  <2>4. Numbers'
    BY <2>1, <2>2 DEF Numbers
  <2>5. TypeOK'
    BY <2>3, <2>4, TypeParts, PTL
  <2>6. Trips' /\ Ordered' /\ Bounded'
    BY <2>1 DEF Inv, Trips, Ordered, Bounded, BoundedBy
  <2> QED BY <2>5, <2>6 DEF Inv
<1>4. CASE UpdateCongestion
  BY <1>4, UpdateCongestionKeeps
<1>5. CASE \E m \in RoundTrips : Pong(m)
  BY <1>5, PongKeeps
<1>6. CASE UNCHANGED vars
  BY <1>6 DEF vars, stream, rtts, Inv, TypeOK, Trips, Ordered, Bounded, BoundedBy
<1> QED BY <1>1, <1>2, <1>3, <1>4, <1>5, <1>6 DEF Next

-----------------------------------------------------------------------------
\* The inductive invariant holds whenever the congestion control of VNCSConnectionST is
\* between two calls.
THEOREM Invariant == Spec => []Inv
<1> QED BY InvInit, InvStep, PTL DEF Spec

\* Type correctness: congWindow stays between MINIMUM_WINDOW and MAXIMUM_WINDOW, the
\* times are unsigned numbers, and no offset of an outstanding ping is negative.
THEOREM TypeCorrect == Spec => []TypeOK
<1>1. Inv => TypeOK
  BY DEF Inv
<1> QED BY <1>1, Invariant, PTL

\* The differences that updateCongestion computes do not wrap: minRTT, which
\* handleRTTPong corrects downwards, never falls below baseRTT, and something was
\* measured whenever congestion was seen.
THEOREM AlwaysMeasured == Spec => []Measured
<1>1. Inv => Measured
  BY DEF Inv, Trips, Measured
<1> QED BY <1>1, Invariant, PTL

\* What is on its way to the client is bounded, whatever isCongested let through while one
\* ping was outstanding or the link had rested, and whatever the window did meanwhile.
THEOREM AlwaysBounded == Spec => []InFlightBounded
<1>1. Inv => InFlightBounded
  BY DEF Inv, Bounded, BoundedBy, InFlightBounded
<1> QED BY <1>1, Invariant, PTL
=============================================================================
