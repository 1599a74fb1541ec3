----------------------------- MODULE Congestion -----------------------------
(***************************************************************************)
(* The congestion control of VNCSConnectionST: whether an update may be    *)
(* written to a client.  Every update is written between two pings, fences *)
(* that the client answers when it has read so far.  From the answers the  *)
(* server knows how much the client has yet to read (ackedOffset) and how  *)
(* long that took; a window limits what may be on its way.                 *)
(*                                                                         *)
(* All offsets are counted from ackedOffset here, of which the code only   *)
(* uses differences: length is outStream().length() - ackedOffset, and so  *)
(* on.  Data is counted in multiples of the 4096 bytes of MINIMUM_WINDOW   *)
(* and of the steps of the window.  Unsigned numbers are modulo Word.      *)
(*                                                                         *)
(* The connection writes other data too (clipboard, bell, answers), without*)
(* asking.  The client reads what it is sent and answers every ping.       *)
(***************************************************************************)
EXTENDS Integers, Sequences, SequencesExt, FiniteSets

CONSTANTS Word,          \* 2^32: unsigned int is 0 .. Word - 1
          InitialWindow, \* INITIAL_WINDOW
          MaximumWindow, \* MAXIMUM_WINDOW
          RoundTrips,    \* the round-trip times that are measured, in ms
          UpdateSizes,   \* how much data an update may be
          MaxOther,      \* bound on the other data that is on its way
          EarlyOther,    \* bound on it before the first update
          MaxTalk        \* bound on how often other data is written

ASSUME WordAssumption == Word \in Nat /\ Word > 200
ASSUME WindowAssumption ==
  /\ InitialWindow \in Nat /\ MaximumWindow \in Nat
  /\ 1 <= InitialWindow /\ InitialWindow <= MaximumWindow
ASSUME TripAssumption == RoundTrips \subseteq 0 .. Word - 2
ASSUME SizeAssumption == UpdateSizes # {} /\ UpdateSizes \subseteq Nat \ {0}
ASSUME OtherAssumption == /\ MaxOther \in Nat /\ MaxTalk \in Nat
                          /\ EarlyOther \in 0 .. MaxOther

MinimumWindow == 1
Never == Word - 1      \* (unsigned)-1: nothing measured yet

VARIABLES fences,          \* cp.supportsFence
          pending,         \* there is something to update, and it is asked for
          window,          \* congWindow
          baseRTT, minRTT, seenCongestion, pingCounter,
          length,          \* how much was written
          sent,            \* sentOffset; negative before the first ping
          pings,           \* the pings that are not answered: [offset, inFlight]
          buffered,        \* bufferUsage() > 0
          idle,            \* nothing was written for more than 2 * baseRTT
          updateTimer, congestionTimer,
          talk             \* what is left of MaxTalk

rtts == <<baseRTT, minRTT, seenCongestion>>
stream == <<length, sent, pings, pingCounter>>
vars == <<fences, pending, window, rtts, stream, buffered, idle,
          updateTimer, congestionTimer, talk>>

Unsigned == 0 .. Word - 1
Ping == [offset : Nat, inFlight : Nat]

TypeOK ==
  /\ fences \in BOOLEAN /\ pending \in BOOLEAN
  /\ window \in MinimumWindow .. MaximumWindow
  /\ baseRTT \in Unsigned /\ minRTT \in Unsigned
  /\ seenCongestion \in BOOLEAN
  /\ pingCounter \in Nat
  /\ length \in Nat /\ sent \in Int
  /\ pings \in Seq(Ping)
  /\ buffered \in BOOLEAN /\ idle \in BOOLEAN
  /\ updateTimer \in BOOLEAN /\ congestionTimer \in BOOLEAN
  /\ talk \in 0 .. MaxTalk

\* authSuccess has just started the congestion control; nothing was sent to be
\* answered yet (sentOffset is 0, ackedOffset is not).
Init ==
  /\ fences \in BOOLEAN /\ pending = FALSE
  /\ window = InitialWindow
  /\ baseRTT = Never /\ minRTT = Never /\ seenCongestion = FALSE
  /\ pingCounter = 0
  /\ length = 0 /\ sent = -1 /\ pings = <<>>
  /\ buffered = FALSE /\ idle = FALSE
  /\ updateTimer = FALSE /\ congestionTimer = FALSE
  /\ talk = MaxTalk
-----------------------------------------------------------------------------
Smaller(a, b) == IF a < b THEN a ELSE b
Larger(a, b) == IF a > b THEN a ELSE b

\* Mutant: data after the last ping counts as not answered.
Rested_NothingWritten == length = 0 /\ idle

\* The link has been idle with every ping answered.
Rested == sent = 0 /\ idle

\* Mutant: outstanding pings are taken for a sign that the client reads.
IsCongested_AnyPing ==
  buffered \/ (fences /\ ~Rested /\ length >= window /\ pingCounter = 0)

\* isCongested
IsCongested ==
  \/ buffered
  \/ fences /\ ~Rested /\ length >= window /\ pingCounter # 1

\* What isCongested does besides: it closes the window after a rest.
WindowAfterCheck ==
  IF ~buffered /\ fences /\ Rested THEN Smaller(InitialWindow, window) ELSE window

\* An update of size n, with writeRTTPing before and after it; each takes note of
\* the offset, and the second is the last that was sent.  (Without fences nobody
\* looks at the offsets.)
Pinged(n) ==
  IF ~fences
  THEN UNCHANGED <<stream, congestionTimer>>
  ELSE /\ length' = length + n
       /\ pings' = pings \o <<[offset |-> length, inFlight |-> length],
                              [offset |-> length + n, inFlight |-> length + n]>>
       /\ pingCounter' = pingCounter + 2
       /\ sent' = length + n
       /\ congestionTimer' = TRUE

\* writeFramebufferUpdate: held back while the link is congested, to be tried
\* again by the timer.
WriteUpdate ==
  /\ window' = WindowAfterCheck
  /\ IF IsCongested
     THEN /\ updateTimer' = TRUE
          /\ pending' = TRUE
          /\ UNCHANGED <<stream, congestionTimer, buffered, idle>>
     ELSE /\ updateTimer' = FALSE
          /\ pending' = FALSE
          /\ \E n \in UpdateSizes : Pinged(n)
          /\ buffered' \in BOOLEAN
          /\ idle' = FALSE
  /\ UNCHANGED <<fences, rtts, talk>>

\* Any of the many events that lead to writeFramebufferUpdate.
Change == WriteUpdate

UpdateTimeout == updateTimer /\ WriteUpdate

\* Clipboard, bell, or an answer to the client.
OtherData ==
  /\ talk > 0
  /\ \E n \in UpdateSizes :
       /\ length + n <= IF sent < 0 THEN EarlyOther ELSE MaxOther
       /\ length' = IF fences THEN length + n ELSE length
  /\ talk' = talk - 1
  /\ buffered' \in BOOLEAN
  /\ idle' = FALSE
  /\ UNCHANGED <<fences, pending, window, rtts, sent, pings, pingCounter,
                 updateTimer, congestionTimer>>

\* The client has read what was still in the buffer.
Flushed ==
  /\ buffered
  /\ buffered' = FALSE
  /\ idle' = FALSE
  /\ UNCHANGED <<fences, pending, window, rtts, stream, updateTimer,
                 congestionTimer, talk>>

\* Twice the wire latency passes without a write.  Nothing is that long before
\* the first answer.
Rest ==
  /\ ~buffered /\ ~idle /\ baseRTT # Never
  /\ idle' = TRUE
  /\ UNCHANGED <<fences, pending, window, rtts, stream, buffered, updateTimer,
                 congestionTimer, talk>>
-----------------------------------------------------------------------------
\* Mutant: the corrected time may come out below the wire latency.
Relieved_BelowWire(rtt, inFlight, base) ==
  LET delay == (((inFlight - window) * base) % Word) \div window
  IN IF delay < rtt THEN rtt - delay ELSE 1

\* The round-trip time without the delay that comes from having sent more than
\* the window allows, but never below the wire latency.
Relieved(rtt, inFlight, base) ==
  LET delay == (((inFlight - window) * base) % Word) \div window
  IN Larger(base, IF delay < rtt THEN rtt - delay ELSE 1)

\* handleRTTPong: the answer to the oldest ping, when it has left the buffer.
Pong(measured) ==
  /\ pings # <<>>
  /\ buffered => Head(pings).offset < length
  /\ LET ping == Head(pings)
         rtt == Larger(measured, 1)
         base == Smaller(rtt, baseRTT)
         congested == ping.inFlight > window
     IN /\ baseRTT' = base
        /\ seenCongestion' = (seenCongestion \/ congested)
        /\ minRTT' = Smaller(minRTT, IF congested THEN Relieved(rtt, ping.inFlight, base)
                                     ELSE rtt)
        /\ length' = length - ping.offset
        /\ sent' = sent - ping.offset
        /\ pings' = [i \in DOMAIN Tail(pings) |->
                       [Tail(pings)[i] EXCEPT !.offset = @ - ping.offset]]
  /\ pingCounter' = pingCounter - 1
  /\ UNCHANGED <<fences, pending, window, buffered, idle, updateTimer,
                 congestionTimer, talk>>

Clamp(w) == Larger(MinimumWindow, Smaller(MaximumWindow, w))

\* The new window, from how much longer than the wire latency the answers took.
Adjusted(diff) ==
  Clamp(IF diff > Smaller(100, baseRTT) THEN ((window * baseRTT) % Word) \div minRTT
        ELSE IF diff > Smaller(50, baseRTT \div 2) THEN window - 1
        ELSE IF diff < 5 THEN window + 2
        ELSE IF diff < 25 THEN window + 1
        ELSE window)

\* updateCongestion, when its timer has run out.
UpdateCongestion ==
  /\ congestionTimer
  /\ congestionTimer' = FALSE
  /\ IF seenCongestion
     THEN /\ window' = Adjusted((minRTT - baseRTT) % Word)
          /\ minRTT' = Never
          /\ seenCongestion' = FALSE
          /\ UNCHANGED baseRTT
     ELSE UNCHANGED <<window, rtts>>
  /\ UNCHANGED <<fences, pending, stream, buffered, idle, updateTimer, talk>>

Next ==
  \/ Change \/ UpdateTimeout \/ OtherData \/ Flushed \/ Rest \/ UpdateCongestion
  \/ \E rtt \in RoundTrips : Pong(rtt)

Spec == Init /\ [][Next]_vars

\* The client reads and answers, time passes, and timers run out.
Fairness == /\ WF_vars(Flushed) /\ WF_vars(Rest) /\ WF_vars(UpdateTimeout)
            /\ WF_vars(\E rtt \in RoundTrips : Pong(rtt))

FairSpec == Spec /\ Fairness
-----------------------------------------------------------------------------
(***************************************************************************)
(* Properties                                                              *)
(***************************************************************************)
\* The differences of updateCongestion do not wrap: no measured time is below
\* the wire latency, and there is one whenever congestion was seen.  (handleRTTPong
\* changes both, and corrects times downwards; updateCongestion forgets one.)
Measured == /\ baseRTT <= minRTT
            /\ seenCongestion => minRTT # Never

\* Whatever the window does, what is on its way is bounded: by the window and
\* one update, or by the last update or other data and one update more, though
\* an update is let through when one ping is outstanding.
InFlightBounded ==
  \E update \in UpdateSizes :
     fences => length <= update + Larger(MaximumWindow - 1, Larger(update, MaxOther))

\* What is held back is sent in the end: with every ping answered and the link at
\* rest ("Close congestion window and allow a transfer") nothing stays congested.
Flows == pending ~> ~pending
=============================================================================
