--------------------------- MODULE SessionProofs ---------------------------
(***************************************************************************)
(* What holds of the server's connections, for any number of them.         *)
(*                                                                         *)
(* Of how they come and go (Session), for any number of sockets and hosts  *)
(* and every setting of the parameters.                                    *)
(*                                                                         *)
(* Of what they do with the keyboard and the pointer (Input), for any      *)
(* viewers: the types, the drag and the notes of keys on every keyboard    *)
(* map, and that no key is stuck and what is sent is typed on every map    *)
(* with one key for each keysym.  The invariant is InputInv for all maps,  *)
(* and Kept for those: the keys that are down are the ones noted, each the *)
(* one that is used for its keysym, so that pressing the keysym again      *)
(* finds the same key.                                                     *)
(***************************************************************************)
EXTENDS Session, Input, FiniteSetTheorems, WellFoundedInduction, TLAPS

(***************************************************************************)
(* Session: connections that come and go.                                  *)
(***************************************************************************)
\* The four invariants, together inductive: the desktop is only known to run
\* for the authenticated clients because it is started with the first one and
\* stopped when a removed client leaves none.
Inv == TypeOK /\ OneViewer /\ DesktopFollowsClients /\ QueriedHasSlot

USE SocketAssumption, ThresholdAssumption, ParameterAssumption

\* The invariant holds without connections.
LEMMA InitInv == Init => Inv
  <1> SUFFICES ASSUME Init
               PROVE  Inv
    OBVIOUS
  <1>1. PICK h \in Hosts : session = [c \in Sockets |-> NoConnection(h)]
    BY DEF Init
  <1>2. NoConnection(h) \in Connection
    BY DEF NoConnection, Connection, States
  <1>3. \A c \in Sockets : session[c].state = "none"
    BY <1>1 DEF NoConnection
  <1>4. TypeOK
    <2>1. [marks |-> 0, barred |-> FALSE] \in Entry
      BY DEF Entry
    <2> QED
      BY <1>1, <1>2, <2>1 DEF Init, TypeOK
  <1>5. OneViewer /\ QueriedHasSlot
    BY <1>3 DEF OneViewer, QueriedHasSlot
  <1>6. DesktopFollowsClients
    BY <1>3 DEF DesktopFollowsClients, AuthClients, Authenticated, Init
  <1> QED
    BY <1>4, <1>5, <1>6 DEF Inv

\* The blacklist keeps its type whatever is done to an entry.
LEMMA CheckedType ==
  ASSUME NEW e \in Entry
  PROVE  Checked(e) \in Entry
  <1> DEFINE m == Marked(e)
  <1>1. m \in Entry
    BY DEF Marked, Entry
  <1> HIDE DEF m
  <1>2. [m EXCEPT !.barred = TRUE] \in Entry
    BY <1>1 DEF Entry
  <1>3. CASE m.marks >= Threshold
    BY <1>2, <1>3 DEF Checked, m
  <1>4. CASE ~(m.marks >= Threshold)
    <2>1. m.marks + 1 \in 0 .. Threshold
      BY <1>1, <1>4 DEF Entry
    <2>2. [m EXCEPT !.marks = @ + 1] \in Entry
      BY <1>1, <2>1 DEF Entry
    <2> QED
      BY <1>4, <2>2 DEF Checked, m
  <1> QED
    BY <1>3, <1>4

\* What a step does when only connection c changes, into k, and the rest of the
\* state stays as it is.
LEMMA OneConnection ==
  ASSUME Inv, NEW c \in Sockets, NEW k \in Connection,
         session' = [session EXCEPT ![c] = k],
         UNCHANGED <<desktopStarted, settings>>,
         querySocket' \in Sockets \cup {NoSocket},
         dialog' \in Sockets \cup {NoSocket}, listening' \in BOOLEAN,
         blacklist' \in [Hosts -> Entry],
         k.state = "NORMAL" => session[c].state = "NORMAL",
         Authenticated(k) => Authenticated(session[c]),
         k.state \notin {"none", "refused"} \/ ~IsClient(c),
         \A d \in Sockets :
            session'[d].state = "QUERYING" => querySocket' = d /\ session'[d].queryTimer
  PROVE  Inv'
  <1>1. TypeOK'
    BY DEF Inv, TypeOK
  <1>2. OneViewer'
    BY DEF Inv, TypeOK, OneViewer
  <1>3. DesktopFollowsClients'
    BY DEF Inv, TypeOK, DesktopFollowsClients, AuthClients, Authenticated, Clients, IsClient
  <1>4. QueriedHasSlot'
    BY DEF QueriedHasSlot
  <1> QED
    BY <1>1, <1>2, <1>3, <1>4 DEF Inv

\* Letting a connection in: it becomes INITIALISATION with the desktop running,
\* or closes.
LEMMA AcceptInv ==
  ASSUME Inv, NEW c \in Sockets, NEW k \in Connection, Accept(c, k),
         UNCHANGED settings, session[c].state \in {"SECURITY", "QUERYING"},
         querySocket' \in Sockets \cup {NoSocket},
         dialog' \in Sockets \cup {NoSocket}, listening' \in BOOLEAN,
         blacklist' \in [Hosts -> Entry],
         \A d \in Sockets \ {c} :
            session[d].state = "QUERYING" => querySocket' = d
  PROVE  Inv'
  <1>1. PICK started \in {desktopStarted, TRUE} :
           /\ desktopStarted' = started
           /\ session' = [session EXCEPT ![c] =
                IF started THEN [k EXCEPT !.state = "INITIALISATION"] ELSE Closed(k)]
    BY DEF Accept
  <1>2. started \in BOOLEAN
    BY DEF Inv, TypeOK
  <1> DEFINE n == IF started THEN [k EXCEPT !.state = "INITIALISATION"] ELSE Closed(k)
  <1>3. n \in Connection
    BY DEF Connection, States, Closed
  <1>4. n.state = IF started THEN "INITIALISATION" ELSE "CLOSING"
    BY DEF Connection, Closed
  <1>5. session' = [session EXCEPT ![c] = n]
    BY <1>1
  <1> HIDE DEF n
  <1>6. TypeOK'
    BY <1>1, <1>2, <1>3, <1>5 DEF Inv, TypeOK
  <1>7. \A d \in Sockets : session'[d] = IF d = c THEN n ELSE session[d]
    BY <1>5 DEF Inv, TypeOK
  <1>8. OneViewer'
    BY <1>4, <1>7 DEF Inv, OneViewer
  <1>9. DesktopFollowsClients'
    <2>1. AuthClients' # {} => desktopStarted'
      BY <1>1, <1>4, <1>7 DEF Inv, DesktopFollowsClients, AuthClients, Authenticated
    <2>2. c \in Clients'
      BY <1>4, <1>7 DEF Clients, IsClient
    <2> QED
      BY <2>1, <2>2 DEF DesktopFollowsClients
  <1>10. QueriedHasSlot'
    BY <1>4, <1>7 DEF Inv, QueriedHasSlot
  <1> QED
    BY <1>6, <1>8, <1>9, <1>10 DEF Inv

\* Closing a connection that is one, c: the query slot may only be given up if
\* it is c's, and only be taken if nobody has it.
LEMMA RejectInv ==
  ASSUME Inv, NEW c \in Sockets, Reject(c), IsClient(c),
         UNCHANGED settings,
         querySocket' \in Sockets \cup {NoSocket},
         dialog' \in Sockets \cup {NoSocket}, listening' \in BOOLEAN,
         blacklist' \in [Hosts -> Entry],
         querySocket' = querySocket \/ querySocket \in {c, NoSocket}
  PROVE  Inv'
  <1> DEFINE k == Closed(session[c])
  <1>1. session[c] \in Connection
    BY DEF Inv, TypeOK
  <1>2. k \in Connection /\ k.state = "CLOSING"
    BY <1>1 DEF Closed, Connection, States
  <1>3. session' = [session EXCEPT ![c] = k] /\ UNCHANGED desktopStarted
    BY DEF Reject
  <1> HIDE DEF k
  <1>4. \A d \in Sockets :
           session'[d].state = "QUERYING" => querySocket' = d /\ session'[d].queryTimer
    BY <1>2, <1>3, SocketAssumption DEF Inv, TypeOK, QueriedHasSlot
  <1>5. ~Authenticated(k)
    BY <1>2 DEF Authenticated
  <1> QED
    BY <1>2, <1>3, <1>4, <1>5, OneConnection

\* VNCServerST::addSocket keeps it.
LEMMA AddSocketInv ==
  ASSUME Inv, NEW c \in Sockets, NEW h \in Hosts, NEW reverse \in BOOLEAN,
         AddSocket(c, h, reverse)
  PROVE  Inv'
  <1> DEFINE s == IF IsBlackmarked(blacklist[h]) THEN "refused" ELSE "PROTOCOL_VERSION"
             k == [NoConnection(h) EXCEPT !.state = s, !.reverse = reverse]
  <1>1. s \in {"refused", "PROTOCOL_VERSION"}
    OBVIOUS
  <1>2. session' = [session EXCEPT ![c] = k]
    BY DEF AddSocket
  <1> HIDE DEF s
  <1>3. k \in Connection /\ k.state = s
    BY <1>1 DEF NoConnection, Connection, States
  <1> HIDE DEF k
  <1>4. blacklist' \in [Hosts -> Entry]
    BY CheckedType DEF AddSocket, Inv, TypeOK
  <1>5. /\ UNCHANGED <<desktopStarted, querySocket, dialog, listening, settings>>
        /\ ~IsClient(c)
    BY DEF AddSocket, IsClient
  <1>6. \A d \in Sockets :
           session'[d].state = "QUERYING" => querySocket' = d /\ session'[d].queryTimer
    BY <1>1, <1>2, <1>3, <1>5 DEF Inv, TypeOK, QueriedHasSlot
  <1>7. ~Authenticated(k) /\ k.state # "NORMAL"
    BY <1>1, <1>3 DEF Authenticated
  <1>8. /\ querySocket' \in Sockets \cup {NoSocket}
        /\ dialog' \in Sockets \cup {NoSocket}
        /\ listening' \in BOOLEAN
    BY <1>5 DEF Inv, TypeOK
  <1> QED
    BY <1>2, <1>3, <1>4, <1>5, <1>6, <1>7, <1>8, OneConnection

\* The steps in which connection c only goes from one state to another, and is
\* neither let in nor queried nor removed by it.
LEMMA StateChange ==
  ASSUME Inv, NEW c \in Sockets, NEW s \in States, NEW t \in BOOLEAN,
         session' = [session EXCEPT ![c].queryTimer = t, ![c].state = s],
         UNCHANGED <<desktopStarted, querySocket, dialog, listening, blacklist, settings>>,
         s \in {"SECURITY_TYPE", "SECURITY", "CLOSING"} \/ s = session[c].state,
         IsClient(c) \/ s = session[c].state,
         s = "QUERYING" => t = session[c].queryTimer
  PROVE  Inv'
  <1> DEFINE k == [session[c] EXCEPT !.queryTimer = t, !.state = s]
  <1>1. session[c] \in Connection
    BY DEF Inv, TypeOK
  <1>2. k \in Connection /\ k.state = s /\ k.queryTimer = t
    BY <1>1 DEF Connection
  <1>3. session' = [session EXCEPT ![c] = k]
    BY DEF Inv, TypeOK
  <1> HIDE DEF k
  <1>4. \A d \in Sockets :
           session'[d].state = "QUERYING" => querySocket' = d /\ session'[d].queryTimer
    BY <1>2, <1>3 DEF Inv, TypeOK, QueriedHasSlot
  <1>5. /\ Authenticated(k) => Authenticated(session[c])
        /\ k.state = "NORMAL" => session[c].state = "NORMAL"
        /\ k.state \notin {"none", "refused"} \/ ~IsClient(c)
    BY <1>2 DEF Authenticated, IsClient
  <1>6. /\ UNCHANGED desktopStarted
        /\ querySocket' \in Sockets \cup {NoSocket}
        /\ dialog' \in Sockets \cup {NoSocket}
        /\ listening' \in BOOLEAN
        /\ blacklist' \in [Hosts -> Entry]
    BY DEF Inv, TypeOK
  <1> QED
    BY <1>2, <1>3, <1>4, <1>5, <1>6, OneConnection

\* What is still to be shown of each action, given the lemmas above.
LEMMA SecurityDoneInv ==
  ASSUME Inv, NEW c \in Sockets, SecurityDone(c)
  PROVE  Inv'
  <1>1. /\ session[c].state = "SECURITY"
        /\ UNCHANGED <<listening, settings>>
        /\ IsClient(c)
    BY DEF SecurityDone, IsClient
  <1>2. blacklist' \in [Hosts -> Entry]
    <2>1. [marks |-> 0, barred |-> FALSE] \in Entry
      BY DEF Entry
    <2>2. blacklist' = [blacklist EXCEPT ![session[c].host] = [marks |-> 0, barred |-> FALSE]]
      BY DEF SecurityDone
    <2> QED
      BY <2>1, <2>2 DEF Inv, TypeOK
  <1>3. PICK nonShared \in BOOLEAN :
          LET k == [session[c] EXCEPT !.nonShared = nonShared]
          IN IF settings.NeverShared /\ ~settings.DisconnectClients /\ AuthClients # {}
             THEN Reject(c) /\ UNCHANGED <<querySocket, dialog>>
             ELSE IF session[c].reverse \/ ~settings.QueryConnect
             THEN Accept(c, k) /\ UNCHANGED <<querySocket, dialog>>
             ELSE AskUser(c, k)
    BY DEF SecurityDone
  <1> DEFINE k == [session[c] EXCEPT !.nonShared = nonShared]
  <1>4. k \in Connection
    BY DEF Inv, TypeOK, Connection
  <1>5. \/ Reject(c) /\ UNCHANGED <<querySocket, dialog>>
        \/ Accept(c, k) /\ UNCHANGED <<querySocket, dialog>>
        \/ AskUser(c, k)
    BY <1>3
  <1> HIDE DEF k
  <1>6. /\ querySocket \in Sockets \cup {NoSocket}
        /\ dialog \in Sockets \cup {NoSocket}
        /\ listening \in BOOLEAN
    BY DEF Inv, TypeOK
  <1>7. CASE Reject(c) /\ UNCHANGED <<querySocket, dialog>>
    BY <1>1, <1>2, <1>6, <1>7, RejectInv
  <1>8. CASE Accept(c, k) /\ UNCHANGED <<querySocket, dialog>>
    <2>1. \A d \in Sockets \ {c} :
             session[d].state = "QUERYING" => querySocket' = d
      BY <1>8 DEF Inv, QueriedHasSlot
    <2> QED
      BY <1>1, <1>2, <1>4, <1>6, <1>8, <2>1, AcceptInv
  <1>9. CASE AskUser(c, k)
    <2>1. CASE /\ Reject(c)
               /\ UNCHANGED dialog
               /\ \/ querySocket' = querySocket
                  \/ querySocket = NoSocket /\ querySocket' = c
      BY <1>1, <1>2, <1>6, <2>1, RejectInv
    <2>2. CASE /\ querySocket = NoSocket
               /\ querySocket' = c
               /\ dialog' = c
               /\ session' = [session EXCEPT ![c] =
                    [k EXCEPT !.state = "QUERYING", !.queryTimer = TRUE]]
               /\ UNCHANGED desktopStarted
      <3> DEFINE q == [k EXCEPT !.state = "QUERYING", !.queryTimer = TRUE]
      <3>1. q \in Connection /\ q.state = "QUERYING" /\ q.queryTimer
        BY <1>4 DEF Connection, States
      <3>2. session' = [session EXCEPT ![c] = q]
        BY <2>2
      <3> HIDE DEF q
      <3>3. \A d \in Sockets :
              session'[d].state = "QUERYING" => querySocket' = d /\ session'[d].queryTimer
        BY <2>2, <3>1, <3>2 DEF Inv, TypeOK, QueriedHasSlot
      <3>4. /\ ~Authenticated(q)
            /\ q.state # "NORMAL"
            /\ q.state \notin {"none", "refused"}
        BY <3>1 DEF Authenticated
      <3>5. UNCHANGED <<desktopStarted, listening, settings>>
        BY <1>1, <2>2
      <3> QED
        BY <1>2, <1>6, <2>2, <3>1, <3>2, <3>3, <3>4, <3>5, OneConnection
    <2>3. CASE querySocket # NoSocket
      <3>1. Reject(c) /\ dialog' = dialog /\ querySocket' = querySocket
        BY <1>9, <2>3 DEF AskUser
      <3> QED
        BY <2>1, <3>1
    <2>4. CASE querySocket = NoSocket /\ ~listening
      <3>1. Reject(c) /\ UNCHANGED dialog /\ querySocket' = c
        BY <1>9, <2>4 DEF AskUser
      <3> QED
        BY <2>1, <2>4, <3>1
    <2>5. CASE querySocket = NoSocket /\ listening
      BY <1>9, <2>2, <2>5 DEF AskUser
    <2> QED
      BY <2>3, <2>4, <2>5
  <1> QED
    BY <1>5, <1>7, <1>8, <1>9

\* A connection becomes NORMAL beside others only where NeverShared is off, or
\* after it has closed them, or as the only authenticated one.
LEMMA ClientInitInv ==
  ASSUME Inv, NEW c \in Sockets, NEW wantsShared \in BOOLEAN,
         ClientInit(c, wantsShared)
  PROVE  Inv'
  <1>1. /\ session[c].state = "INITIALISATION"
        /\ UNCHANGED <<desktopStarted, querySocket, dialog, listening, blacklist, settings>>
    BY DEF ClientInit
  <1>2. session \in [Sockets -> Connection]
    BY DEF Inv, TypeOK
  <1>3. c \in AuthClients /\ desktopStarted
    BY <1>1 DEF Inv, DesktopFollowsClients, AuthClients, Authenticated
  \* How the clients end up, and what that says of two viewers.
  <1> DEFINE Kept(d) == session'[d] = session[d]
             Shut(d) == IsClient(d) /\ session'[d] = Closed(session[d])
             Became(s) == session'[c] = [session[c] EXCEPT !.state = s]
  <1>4. \/ /\ ~settings.NeverShared
           /\ Became("NORMAL")
           /\ \A d \in Sockets \ {c} : Kept(d)
        \/ /\ Became("NORMAL")
           /\ \A d \in Sockets \ {c} : IsClient(d) => Shut(d)
           /\ \A d \in Sockets \ {c} : ~IsClient(d) => Kept(d)
        \/ /\ AuthClients = {c}
           /\ Became("NORMAL")
           /\ \A d \in Sockets \ {c} : Kept(d)
        \/ /\ Became("CLOSING")
           /\ \A d \in Sockets \ {c} : Kept(d)
    <2>1. CASE /\ Shared(session[c], wantsShared)
               /\ session' = [session EXCEPT ![c].state = "NORMAL"]
      BY <1>2, <2>1 DEF Shared
    <2>2. CASE session' = [CloseOthers(c) EXCEPT ![c].state = "NORMAL"]
      BY <1>2, <2>2 DEF CloseOthers
    <2>3. CASE session' = [session EXCEPT ![c].state =
                             IF AuthClients = {c} THEN "NORMAL" ELSE "CLOSING"]
      BY <1>2, <2>3
    <2> QED
      BY <2>1, <2>2, <2>3 DEF ClientInit
  <1>5. \A d \in Sockets \ {c} : Kept(d) \/ Shut(d)
    BY <1>4
  <1>6. Became("NORMAL") \/ Became("CLOSING")
    BY <1>4
  <1>7. OneViewer'
    <2> SUFFICES ASSUME settings.NeverShared,
                        NEW a \in Sockets, NEW b \in Sockets,
                        session'[a].state = "NORMAL", session'[b].state = "NORMAL"
                 PROVE  a = b
      BY <1>1 DEF OneViewer
    <2>1. \A d \in Sockets \ {c} :
             session'[d].state = "NORMAL" => session[d].state = "NORMAL"
      BY <1>2, <1>5 DEF Closed, Connection
    <2>2. ASSUME Became("CLOSING")
          PROVE  session'[c].state # "NORMAL"
      BY <1>2, <2>2 DEF Connection
    <2>3. ASSUME NEW d \in Sockets \ {c}, session'[d].state = "NORMAL"
          PROVE  /\ d \in AuthClients
                 /\ IsClient(d)
                 /\ ~Shut(d)
      BY <1>2, <2>1, <2>3 DEF AuthClients, Authenticated, IsClient, Closed, Connection
    <2>4. \A d \in Sockets \ {c} :
             session'[d].state = "NORMAL" => session'[c].state # "NORMAL"
      BY <1>4, <2>2, <2>3
    <2>5. CASE a = c \/ b = c
      BY <2>4, <2>5
    <2>6. CASE a # c /\ b # c
      BY <2>1, <2>6 DEF Inv, OneViewer
    <2> QED
      BY <2>5, <2>6
  <1>8. session' \in [Sockets -> Connection]
    <2>1. \A k \in Connection, s \in {"NORMAL", "CLOSING"} :
             [k EXCEPT !.state = s] \in Connection
      BY DEF Connection, States
    <2>2. session'[c] \in Connection
      BY <1>2, <1>6, <2>1
    <2>3. \A d \in Sockets \ {c} : session'[d] \in Connection
      BY <1>2, <1>5, <2>1 DEF Closed
    <2>4. session' = [d \in Sockets |-> session'[d]]
      BY <1>2 DEF ClientInit, CloseOthers
    <2> QED
      BY <2>2, <2>3, <2>4
  <1>9. TypeOK'
    BY <1>1, <1>8 DEF Inv, TypeOK
  <1>10. DesktopFollowsClients'
    <2>1. session'[c].state \in {"NORMAL", "CLOSING"}
      BY <1>2, <1>6 DEF Connection
    <2>2. c \in Clients'
      BY <2>1 DEF Clients, IsClient
    <2> QED
      BY <1>1, <1>3, <2>2 DEF DesktopFollowsClients
  <1>11. QueriedHasSlot'
    <2>1. session'[c].state # "QUERYING"
      BY <1>2, <1>6 DEF Connection
    <2>2. \A d \in Sockets \ {c} : session'[d].state = "QUERYING" => Kept(d)
      BY <1>2, <1>5 DEF Closed, Connection
    <2> QED
      BY <1>1, <2>1, <2>2 DEF Inv, QueriedHasSlot
  <1> QED
    BY <1>7, <1>9, <1>10, <1>11 DEF Inv

\* The answer of the local user does.
LEMMA AnswerQueryInv ==
  ASSUME Inv, NEW accept \in BOOLEAN, AnswerQuery(accept)
  PROVE  Inv'
  <1> DEFINE c == dialog
  <1>1. /\ c \in Sockets
        /\ querySocket' \in Sockets \cup {NoSocket}
        /\ dialog' \in Sockets \cup {NoSocket}
        /\ listening' \in BOOLEAN
        /\ blacklist' \in [Hosts -> Entry]
        /\ UNCHANGED settings
    BY DEF AnswerQuery, Inv, TypeOK
  <1>2. session[c] \in Connection
    BY <1>1 DEF Inv, TypeOK
  <1>3. CASE c = querySocket /\ session[c].state = "QUERYING" /\ Accept(c, session[c])
    <2>1. \A d \in Sockets \ {c} :
             session[d].state = "QUERYING" => querySocket' = d
      BY <1>3 DEF Inv, QueriedHasSlot
    <2> HIDE DEF c
    <2> QED
      BY <1>1, <1>2, <1>3, <2>1, AcceptInv
  <1>4. CASE c = querySocket /\ IsClient(c) /\ Reject(c)
    <2>1. querySocket' = NoSocket
      BY <1>4 DEF AnswerQuery
    <2> HIDE DEF c
    <2> QED
      BY <1>1, <1>4, <2>1, RejectInv
  <1>5. CASE ~(c = querySocket /\ IsClient(c))
    <2>1. UNCHANGED <<session, desktopStarted>>
      BY <1>5 DEF AnswerQuery
    <2>2. QueriedHasSlot'
      BY <1>1, <1>5, <2>1 DEF AnswerQuery, Inv, QueriedHasSlot, IsClient
    <2>3. TypeOK'
      BY <1>1, <2>1 DEF Inv, TypeOK
    <2>4. OneViewer' /\ DesktopFollowsClients'
      BY <1>1, <2>1 DEF Inv, OneViewer, DesktopFollowsClients, AuthClients, Clients, IsClient
    <2> QED
      BY <2>2, <2>3, <2>4 DEF Inv
  <1> QED
    BY <1>3, <1>4, <1>5 DEF AnswerQuery

\* A removed client was not authenticated any more.
LEMMA RemoveSocketInv ==
  ASSUME Inv, NEW c \in Sockets, RemoveSocket(c)
  PROVE  Inv'
  <1> DEFINE k == NoConnection(session[c].host)
  <1>1. session[c] \in Connection
    BY DEF Inv, TypeOK
  <1>2. k \in Connection /\ k.state = "none"
    BY <1>1 DEF NoConnection, Connection, States
  <1>3. session' = [session EXCEPT ![c] = k]
    BY DEF RemoveSocket
  <1> HIDE DEF k
  <1>4. \A d \in Sockets : session'[d] = IF d = c THEN k ELSE session[d]
    BY <1>3 DEF Inv, TypeOK
  <1>5. /\ session[c].state \in {"CLOSING", "refused"}
        /\ desktopStarted' =
             (desktopStarted /\ (session[c].state = "refused" \/ AuthClients # {}))
        /\ UNCHANGED <<querySocket, dialog, listening, blacklist, settings>>
    BY DEF RemoveSocket
  <1>6. TypeOK'
    BY <1>2, <1>3, <1>5 DEF Inv, TypeOK
  <1>7. OneViewer' /\ QueriedHasSlot'
    BY <1>2, <1>4, <1>5 DEF Inv, OneViewer, QueriedHasSlot
  <1>8. AuthClients' = AuthClients
    BY <1>2, <1>4, <1>5 DEF AuthClients, Authenticated
  <1>9. DesktopFollowsClients'
    <2>1. AuthClients' # {} => desktopStarted'
      BY <1>5, <1>8 DEF Inv, DesktopFollowsClients
    <2>2. ASSUME Clients' = {}
          PROVE  ~desktopStarted'
      <3>1. AuthClients' = {}
        BY <2>2 DEF AuthClients, Authenticated, Clients, IsClient
      <3>2. CASE session[c].state = "refused"
        <4>1. Clients = {}
          BY <1>4, <2>2, <3>2 DEF Clients, IsClient
        <4> QED
          BY <1>5, <4>1 DEF Inv, DesktopFollowsClients
      <3> QED
        BY <1>5, <1>8, <3>1, <3>2
    <2> QED
      BY <2>1, <2>2 DEF DesktopFollowsClients
  <1> QED
    BY <1>6, <1>7, <1>9 DEF Inv

\* So does closing all connections.
LEMMA DisconnectAllInv ==
  ASSUME Inv, DisconnectAll
  PROVE  Inv'
  <1>1. session' = [c \in Sockets |-> IF IsClient(c) THEN Closed(session[c])
                                      ELSE session[c]]
    BY DEF DisconnectAll
  <1>2. UNCHANGED <<desktopStarted, querySocket, dialog, listening, blacklist, settings>>
    BY DEF DisconnectAll
  <1>3. \A k \in Connection : Closed(k) \in Connection /\ Closed(k).state = "CLOSING"
    BY DEF Closed, Connection, States
  <1>4. TypeOK'
    BY <1>1, <1>2, <1>3 DEF Inv, TypeOK
  <1>5. \A c \in Sockets : \/ session'[c].state = "CLOSING" /\ IsClient(c)
                           \/ session'[c].state \in {"none", "refused"} /\ ~IsClient(c)
    BY <1>1, <1>3 DEF Inv, TypeOK, IsClient
  <1>6. OneViewer' /\ QueriedHasSlot'
    BY <1>5 DEF OneViewer, QueriedHasSlot
  <1>7. AuthClients' = {} /\ Clients' = Clients
    BY <1>5 DEF AuthClients, Authenticated, Clients, IsClient
  <1> QED
    BY <1>2, <1>4, <1>6, <1>7 DEF Inv, DesktopFollowsClients

\* Every step keeps it.
LEMMA NextInv ==
  ASSUME Inv, [Next]_vars
  PROVE  Inv'
  <1>1. /\ session \in [Sockets -> Connection]
        /\ blacklist \in [Hosts -> Entry]
    BY DEF Inv, TypeOK
  <1>2. ASSUME NEW c \in Sockets, VersionMsg(c)
        PROVE  Inv'
    <2>1. PICK next \in {"SECURITY_TYPE", "SECURITY"} :
             session' = [session EXCEPT ![c].state = next]
      BY <1>2 DEF VersionMsg
    <2>2. session' = [session EXCEPT ![c].queryTimer = session[c].queryTimer,
                                     ![c].state = next]
      BY <1>1, <2>1 DEF Connection
    <2>3. session[c].queryTimer \in BOOLEAN /\ next \in States /\ IsClient(c)
      BY <1>1, <1>2 DEF Connection, VersionMsg, States, IsClient
    <2> QED
      BY <1>2, <2>2, <2>3, StateChange DEF VersionMsg
  <1>3. ASSUME NEW c \in Sockets, SecurityTypeMsg(c)
        PROVE  Inv'
    <2>1. session' = [session EXCEPT ![c].queryTimer = session[c].queryTimer,
                                     ![c].state = "SECURITY"]
      BY <1>1, <1>3 DEF Connection, SecurityTypeMsg
    <2>2. session[c].queryTimer \in BOOLEAN /\ "SECURITY" \in States /\ IsClient(c)
      BY <1>1, <1>3 DEF Connection, SecurityTypeMsg, States, IsClient
    <2> QED
      BY <1>3, <2>1, <2>2, StateChange DEF SecurityTypeMsg
  <1>4. ASSUME NEW c \in Sockets, Drop(c)
        PROVE  Inv'
    <2>1. Reject(c) /\ IsClient(c)
      BY <1>4 DEF Drop, Reject, Open
    <2>2. UNCHANGED <<querySocket, dialog, listening, blacklist, settings>>
      BY <1>4 DEF Drop
    <2> QED
      BY <2>1, <2>2, RejectInv DEF Inv, TypeOK
  <1>5. ASSUME NEW c \in Sockets, QueryTimeout(c)
        PROVE  Inv'
    <2> DEFINE s == IF session[c].state = "QUERYING" THEN "CLOSING" ELSE session[c].state
    <2>1. session' = [session EXCEPT ![c].queryTimer = FALSE, ![c].state = s]
      BY <1>1, <1>5 DEF Connection, QueryTimeout
    <2>2. s \in States /\ (s = "CLOSING" \/ s = session[c].state) /\ s # "QUERYING"
      BY <1>1 DEF Connection, States
    <2>3. IsClient(c) \/ s = session[c].state
      BY DEF IsClient
    <2> HIDE DEF s
    <2> QED
      BY <1>5, <2>1, <2>2, <2>3, StateChange DEF QueryTimeout
  <1>6. CASE StartListening \/ StopListening \/ UNCHANGED vars
    <2>1. /\ UNCHANGED <<session, desktopStarted, querySocket, blacklist, settings>>
          /\ listening' \in BOOLEAN
          /\ dialog' \in Sockets \cup {NoSocket}
      BY <1>6 DEF StartListening, StopListening, vars, Inv, TypeOK
    <2> QED
      BY <2>1 DEF Inv, TypeOK, OneViewer, DesktopFollowsClients, QueriedHasSlot,
                  AuthClients, Clients, IsClient
  <1>7. ASSUME NEW h \in Hosts, BanExpires(h)
        PROVE  Inv'
    <2>1. blacklist' \in [Hosts -> Entry]
      BY <1>1, <1>7 DEF BanExpires, Entry
    <2>2. UNCHANGED <<session, desktopStarted, querySocket, dialog, listening, settings>>
      BY <1>7 DEF BanExpires
    <2> QED
      BY <2>1, <2>2 DEF Inv, TypeOK, OneViewer, DesktopFollowsClients, QueriedHasSlot,
                        AuthClients, Clients, IsClient
  <1> QED
    BY <1>2, <1>3, <1>4, <1>5, <1>6, <1>7, AddSocketInv, SecurityDoneInv,
       ClientInitInv, RemoveSocketInv, AnswerQueryInv, DisconnectAllInv
       DEF Next, Handshake

\* It holds in every state.
LEMMA Invariance == Spec => []Inv
  <1>1. Init => Inv
    BY InitInv
  <1>2. Inv /\ [Next]_vars => Inv'
    BY NextInv
  <1> QED
    BY <1>1, <1>2, PTL DEF Spec

\* Every connection, the query slot and the blacklist keep their types; in
\* particular the marks of a host never pass BlacklistThreshold.
THEOREM SessionTypeCorrect == Spec => []TypeOK
  <1>1. Inv => TypeOK
    BY DEF Inv
  <1> QED
    BY <1>1, Invariance, PTL

\* With NeverShared there is at most one viewer in its session, for any number
\* of connections in any state of their handshakes (clientInit, authSuccess).
THEOREM AtMostOneViewer == Spec => []OneViewer
  <1>1. Inv => OneViewer
    BY DEF Inv
  <1> QED
    BY <1>1, Invariance, PTL

\* The desktop is running whenever a client is authenticated, and is not when
\* there are no clients (startDesktop and removeSocket).
THEOREM DesktopRuns == Spec => []DesktopFollowsClients
  <1>1. Inv => DesktopFollowsClients
    BY DEF Inv
  <1> QED
    BY <1>1, Invariance, PTL

\* A connection that waits for the local user owns the query slot and has its
\* timer running (queryConnection, approveConnection and the timeout).
THEOREM QueriedOwnsSlot == Spec => []QueriedHasSlot
  <1>1. Inv => QueriedHasSlot
    BY DEF Inv
  <1> QED
    BY <1>1, Invariance, PTL

\* Only the two ways into INITIALISATION authenticate a connection.
LEMMA OnlyAccepts ==
  ASSUME Inv, Next, NEW c \in Sockets,
         ~Authenticated(session[c]), Authenticated(session'[c])
  PROVE  \/ session[c].state = "SECURITY" /\ (session[c].reverse \/ ~settings.QueryConnect)
         \/ /\ session[c].state = "QUERYING"
            /\ dialog = c
            /\ dialog' = NoSocket
  <1>1. session \in [Sockets -> Connection]
    BY DEF Inv, TypeOK
  <1>2. \A d \in Sockets : Reject(d) => ~Authenticated(session'[c])
    <2>1. \A k \in Connection : ~Authenticated(Closed(k))
      BY DEF Closed, Authenticated, Connection
    <2> QED
      BY <1>1, <2>1 DEF Reject
  <1>3. ASSUME NEW d \in Sockets, NEW k, Accept(d, k)
        PROVE  c = d
    BY <1>1, <1>3 DEF Accept
  <1>4. ASSUME NEW d \in Sockets, NEW h \in Hosts, NEW reverse \in BOOLEAN,
               AddSocket(d, h, reverse)
        PROVE  FALSE
    <2>1. ~Authenticated(session'[d])
      BY <1>1, <1>4 DEF AddSocket, NoConnection, Authenticated
    <2> QED
      BY <1>1, <1>4, <2>1 DEF AddSocket
  <1>5. ASSUME NEW d \in Sockets,
               VersionMsg(d) \/ SecurityTypeMsg(d) \/ Drop(d) \/ QueryTimeout(d)
        PROVE  FALSE
    <2>1. \A k \in Connection, s \in {"SECURITY_TYPE", "SECURITY", "CLOSING"} :
             ~Authenticated([k EXCEPT !.state = s])
      BY DEF Connection, Authenticated
    <2>2. CASE VersionMsg(d)
      <3>1. PICK next \in {"SECURITY_TYPE", "SECURITY"} :
               session' = [session EXCEPT ![d].state = next]
        BY <2>2 DEF VersionMsg
      <3>2. next \in {"SECURITY_TYPE", "SECURITY", "CLOSING"}
        OBVIOUS
      <3>3. session'[c] = session[c] \/ session'[c] = [session[c] EXCEPT !.state = next]
        BY <1>1, <3>1
      <3>4. ~Authenticated([session[c] EXCEPT !.state = next])
        BY <1>1, <2>1, <3>2
      <3> QED
        BY <3>3, <3>4
    <2>3. CASE SecurityTypeMsg(d)
      BY <1>1, <2>1, <2>3 DEF SecurityTypeMsg
    <2>4. CASE Drop(d)
      BY <1>1, <2>1, <2>4 DEF Drop, Closed
    <2>5. CASE QueryTimeout(d)
      BY <1>1, <2>5 DEF QueryTimeout, Connection, Authenticated
    <2> QED
      BY <1>5, <2>2, <2>3, <2>4, <2>5
  <1>6. ASSUME NEW d \in Sockets, NEW w \in BOOLEAN, ClientInit(d, w)
        PROVE  FALSE
    <2>1. session[d].state = "INITIALISATION"
      BY <1>6 DEF ClientInit
    <2>2. c # d
      BY <2>1 DEF Authenticated
    <2>3. session'[c] = session[c] \/ session'[c] = Closed(session[c])
      BY <1>1, <1>6, <2>2 DEF ClientInit, CloseOthers
    <2> QED
      BY <1>1, <2>3 DEF Closed, Connection, Authenticated
  <1>7. ASSUME NEW d \in Sockets, RemoveSocket(d)
        PROVE  FALSE
    BY <1>1, <1>7 DEF RemoveSocket, NoConnection, Authenticated
  <1>8. ASSUME NEW d \in Sockets, SecurityDone(d)
        PROVE  session[c].state = "SECURITY" /\ (session[c].reverse \/ ~settings.QueryConnect)
    <2>1. PICK k \in Connection :
            \/ Reject(d)
            \/ Accept(d, k) /\ (session[d].reverse \/ ~settings.QueryConnect)
            \/ session' = [session EXCEPT ![d] =
                 [k EXCEPT !.state = "QUERYING", !.queryTimer = TRUE]]
      <3>1. \A b \in BOOLEAN : [session[d] EXCEPT !.nonShared = b] \in Connection
        BY <1>1 DEF Connection
      <3> QED
        BY <1>8, <3>1 DEF SecurityDone, AskUser
    <2>2. [k EXCEPT !.state = "QUERYING", !.queryTimer = TRUE].state = "QUERYING"
      BY DEF Connection
    <2>3. Accept(d, k) /\ (session[d].reverse \/ ~settings.QueryConnect)
      BY <1>1, <1>2, <2>1, <2>2 DEF Authenticated
    <2>4. c = d
      BY <1>3, <2>3
    <2> QED
      BY <1>8, <2>3, <2>4 DEF SecurityDone
  <1>9. ASSUME NEW accept \in BOOLEAN, AnswerQuery(accept)
        PROVE  /\ session[c].state = "QUERYING"
               /\ dialog = c
               /\ dialog' = NoSocket
    <2>1. dialog \in Sockets
      BY <1>9 DEF AnswerQuery, Inv, TypeOK
    <2>2. session[dialog].state = "QUERYING" /\ Accept(dialog, session[dialog])
      BY <1>2, <1>9, <2>1 DEF AnswerQuery
    <2>3. c = dialog
      BY <1>3, <2>1, <2>2
    <2> QED
      BY <1>9, <2>2, <2>3 DEF AnswerQuery
  <1>10. CASE StartListening \/ StopListening \/ \E h \in Hosts : BanExpires(h)
    BY <1>10 DEF StartListening, StopListening, BanExpires
  <1>11. CASE DisconnectAll
    BY <1>1, <1>11 DEF DisconnectAll, Closed, Connection, Authenticated
  <1> QED
    BY <1>4, <1>5, <1>6, <1>7, <1>8, <1>9, <1>10, <1>11 DEF Next, Handshake

\* With QueryConnect a connection is only let in by the local user's answer to
\* the dialog that is shown for it, however connections, timeouts and answers
\* are interleaved (queryConnection and approveConnection).
THEOREM LocalUserDecides == Spec => UserDecides
  <1> DEFINE Step == \A c \in Sockets :
               /\ settings.QueryConnect /\ ~session[c].reverse
               /\ ~Authenticated(session[c]) /\ Authenticated(session'[c])
               => /\ session[c].state = "QUERYING"
                  /\ dialog = c /\ dialog' = NoSocket
  <1>1. Inv /\ Next => Step
    BY OnlyAccepts
  <1>2. Inv /\ [Next]_vars => [Step]_vars
    BY <1>1
  <1> QED
    BY <1>2, Invariance, PTL DEF Spec, UserDecides

(***************************************************************************)
(* Input: the keyboard's operators.                                        *)
(***************************************************************************)
\* A set of numbers that is not empty has a least one.
LEMMA LeastOf ==
  ASSUME NEW S \in SUBSET Nat, S # {}
  PROVE  Min(S) \in S /\ \A j \in S : Min(S) <= j
<1> DEFINE Least(i) == \A j \in S : i <= j
<1>1. PICK i \in S : \A j \in S : ~ (<<j, i>> \in OpToRel(<, Nat))
  BY NatLessThanWellFounded, WFMin, Zenon
<1>2. \A j \in S : ~ (j < i)
  BY <1>1 DEF OpToRel
<1>3. Least(i)
  BY <1>2
<1>4. Min(S) = CHOOSE k \in S : Least(k)
  BY DEF Min
<1> HIDE DEF Least
<1>5. Min(S) \in S /\ Least(Min(S))
  BY <1>3, <1>4
<1> QED
  BY <1>5 DEF Least

\* A set of keycodes that is not empty has a last one.
LEMMA LastOf ==
  ASSUME NEW S \in SUBSET (1 .. 255), S # {}
  PROVE  Max(S) \in S
<1> DEFINE D == {255 - x : x \in S}
           Last(i) == \A j \in S : i >= j
<1>1. D \in SUBSET Nat /\ D # {}
  <2>1. \A x \in 1 .. 255 : 255 - x \in Nat
    OBVIOUS
  <2>2. S \subseteq 1 .. 255 /\ \E x \in S : TRUE
    OBVIOUS
  <2> QED
    BY <2>1, <2>2
<1>2. Min(D) \in D /\ \A j \in D : Min(D) <= j
  BY <1>1, LeastOf
<1>3. PICK i \in S : Min(D) = 255 - i
  BY <1>2
<1>4. Last(i)
  <2> SUFFICES ASSUME NEW j \in S
               PROVE  i >= j
    OBVIOUS
  <2>1. 255 - j \in D
    OBVIOUS
  <2>2. Min(D) <= 255 - j
    BY <1>2, <2>1
  <2>3. i \in Int /\ j \in Int
    OBVIOUS
  <2> HIDE DEF D
  <2> QED
    BY <1>3, <2>2, <2>3
<1>5. Max(S) = CHOOSE k \in S : Last(k)
  BY DEF Max
<1> HIDE DEF Last
<1> QED
  BY <1>4, <1>5

\* DirectKey finds a key exactly if one has the keysym in the state.
LEMMA DirectKeyIs ==
  ASSUME NEW map, NEW sym, NEW state
  PROVE  \/ /\ DirectKey(map, sym, state) = NoCode
            /\ \A k \in Keycodes : map[k][state] # sym
         \/ /\ DirectKey(map, sym, state) \in Keycodes
            /\ DirectKey(map, sym, state) # NoCode
            /\ map[DirectKey(map, sym, state)][state] = sym
<1> DEFINE found == {k \in Keycodes : map[k][state] = sym}
<1>1. CASE found = {}
  BY <1>1 DEF DirectKey
<1>2. CASE found # {}
  <2>1. Keycodes \subseteq Nat /\ 0 \notin Keycodes
    BY KeycodeAssumption
  <2>2. found \in SUBSET Nat
    BY <2>1
  <2>3. Min(found) \in found
    BY <1>2, <2>2, LeastOf
  <2>4. DirectKey(map, sym, state) = Min(found)
    BY <1>2 DEF DirectKey
  <2> QED
    BY <2>1, <2>3, <2>4 DEF NoCode
<1> QED
  BY <1>1, <1>2

\* The modifiers of any keys make a state of Levels, which is one of all states.
LEMMA LevelsType ==
  /\ Levels \subseteq ModifierStates
  /\ \A keys \in SUBSET Keycodes : ModifiersOf(keys) \in Levels
BY DEF Levels, ModifierStates, ModifiersOf

\* Level 3 is looked for exactly if a key does it.
LEMMA MaskIs ==
  ASSUME NEW map, LevelThreeKeyed(map)
  PROVE  LevelThreeMask(map) = {"Level3"} \cap {Action[k] : k \in Keycodes}
<1>1. {} \in Levels
  BY DEF Levels
<1>2. CASE \A k \in Keycodes : Action[k] # "Level3"
  <2>1. LevelThreeKey(map, {}) \in Keycodes \cup {NoCode}
    BY DirectKeyIs DEF LevelThreeKey
  <2> QED
    BY <1>2, <2>1 DEF LevelThreeMask
<1>3. CASE \E k \in Keycodes : Action[k] = "Level3"
  <2>1. /\ \E k \in Keycodes : \A s \in Levels : map[k][s] = "ISO_Level3_Shift"
        /\ \A k \in Keycodes : On(map, "ISO_Level3_Shift", k) => Action[k] = "Level3"
    BY <1>3 DEF LevelThreeKeyed
  <2> DEFINE key == DirectKey(map, "ISO_Level3_Shift", {})
  <2>2. key \in Keycodes /\ key # NoCode /\ map[key][{}] = "ISO_Level3_Shift"
    BY <1>1, <2>1, DirectKeyIs
  <2>3. On(map, "ISO_Level3_Shift", key)
    BY <1>1, <2>2 DEF On
  <2>4. Action[key] = "Level3" /\ LevelThreeKey(map, {}) = key
    BY <2>1, <2>2, <2>3 DEF LevelThreeKey
  <2> HIDE DEF key
  <2>5. LevelThreeMask(map) = {"Level3"}
    BY <2>2, <2>4 DEF LevelThreeMask
  <2> QED
    BY <1>3, <2>5
<1> QED
  BY <1>2, <1>3

\* In any state, level 3 can be pressed if a key does it.
LEMMA LevelThreeFound ==
  ASSUME NEW map, LevelThreeKeyed(map), NEW state \in Levels,
         \E k \in Keycodes : Action[k] = "Level3"
  PROVE  LevelThreeKeys(map, state) # {}
<1>1. /\ \E k \in Keycodes : \A s \in Levels : map[k][s] = "ISO_Level3_Shift"
      /\ \A k \in Keycodes : On(map, "ISO_Level3_Shift", k) => Action[k] = "Level3"
  BY DEF LevelThreeKeyed
<1> DEFINE key == DirectKey(map, "ISO_Level3_Shift", state)
<1>2. key \in Keycodes /\ key # NoCode /\ map[key][state] = "ISO_Level3_Shift"
  BY <1>1, DirectKeyIs
<1>3. Action[key] = "Level3" /\ LevelThreeKey(map, state) = key
  BY <1>1, <1>2 DEF LevelThreeKey, On
<1> QED
  BY <1>2, <1>3 DEF LevelThreeKeys

\* The four tries are all states there are, the current one first.
LEMMA TriesIs ==
  ASSUME NEW state \in Levels, NEW l3, l3 = {"Level3"} \cap {Action[k] : k \in Keycodes}
  PROVE  /\ DOMAIN Tries(state, l3) = 1 .. 4
         /\ Tries(state, l3)[1] = state
         /\ \A i \in 1 .. 4 : Tries(state, l3)[i] \in Levels
         /\ \A t \in Levels : \E i \in 1 .. 4 : Tries(state, l3)[i] = t
<1>1. /\ Tries(state, l3)[1] = state
      /\ Tries(state, l3)[2] = Toggled(state, {"Shift"})
      /\ Tries(state, l3)[3] = Toggled(state, l3)
      /\ Tries(state, l3)[4] = Toggled(state, l3 \cup {"Shift"})
      /\ DOMAIN Tries(state, l3) = 1 .. 4
  BY DEF Tries
<1>2. Levels = SUBSET ({"Shift"} \cup l3)
  BY DEF Levels
<1>3. \A mask \in Levels : Toggled(state, mask) \in Levels
  BY <1>2 DEF Toggled
<1>4. {"Shift"} \in Levels /\ l3 \in Levels /\ l3 \cup {"Shift"} \in Levels
  BY <1>2
<1>5. \A i \in 1 .. 4 : Tries(state, l3)[i] \in Levels
  <2> SUFFICES ASSUME NEW i \in 1 .. 4
               PROVE  Tries(state, l3)[i] \in Levels
    OBVIOUS
  <2>1. i = 1 \/ i = 2 \/ i = 3 \/ i = 4
    OBVIOUS
  <2> QED
    BY <1>1, <1>3, <1>4, <2>1
<1>6. ASSUME NEW t \in Levels
      PROVE  \E i \in 1 .. 4 : Tries(state, l3)[i] = t
  <2> DEFINE mask == (state \ t) \cup (t \ state)
  <2>1. mask \subseteq {"Shift"} \cup l3
    BY <1>2
  <2>2. t = Toggled(state, mask)
    BY DEF Toggled
  <2>3. \/ mask = {} \/ mask = {"Shift"} \/ mask = l3 \/ mask = l3 \cup {"Shift"}
    BY <2>1
  <2>4. Toggled(state, {}) = state
    BY DEF Toggled
  <2> HIDE DEF mask
  <2>5. 1 \in 1 .. 4 /\ 2 \in 1 .. 4 /\ 3 \in 1 .. 4 /\ 4 \in 1 .. 4
    OBVIOUS
  <2> QED
    BY <1>1, <2>2, <2>3, <2>4, <2>5
<1> QED
  BY <1>1, <1>5, <1>6

(***************************************************************************)
(* Which key, on a regular keyboard map.                                   *)
(***************************************************************************)
Places == [key : Keycodes \cup {NoCode}, state : Levels]

\* Where a keysym that a key has is found; a key for modifiers or locks is found
\* without a change of state.
ExactlyFor(map, sym, state, found) ==
  /\ found \in Places
  /\ \/ found.key = NoCode /\ \A k \in Keycodes : ~On(map, sym, k)
     \/ found.key \in Keycodes /\ map[found.key][found.state] = sym
  /\ found.key \in Keycodes /\ Action[found.key] # "none" => found.state = state

\* KeysymToKeycode finds a keysym if any key has it in any state of Levels, and
\* leaves the state alone where it can.
LEMMA KeysymToKeycodeIs ==
  ASSUME NEW map, LevelThreeKeyed(map), ModifiersKeyed(map), NEW sym, NEW state \in Levels
  PROVE  ExactlyFor(map, sym, state, KeysymToKeycode(map, sym, state))
<1> DEFINE tries == Tries(state, LevelThreeMask(map))
           hits == {i \in 1 .. 4 : DirectKey(map, sym, tries[i]) # NoCode}
           first == Min(IF hits = {} THEN {1} ELSE hits)
           found == KeysymToKeycode(map, sym, state)
<1>1. /\ DOMAIN tries = 1 .. 4
      /\ tries[1] = state
      /\ \A i \in 1 .. 4 : tries[i] \in Levels
      /\ \A t \in Levels : \E i \in 1 .. 4 : tries[i] = t
  BY MaskIs, TriesIs
<1>2. StateFor(map, sym, tries) = tries[first]
  BY <1>1 DEF StateFor
<1>3. found = [key |-> DirectKey(map, sym, tries[first]), state |-> tries[first]]
  BY <1>2 DEF KeysymToKeycode, KeyIn
<1> HIDE DEF tries, found
<1>4. hits \in SUBSET Nat /\ {1} \in SUBSET Nat
  OBVIOUS
<1>5. IF hits = {} THEN first = 1 ELSE first \in hits /\ \A j \in hits : first <= j
  <2>1. Min({1}) = 1
    BY <1>4, LeastOf
  <2>2. hits # {} => Min(hits) \in hits /\ \A j \in hits : Min(hits) <= j
    BY <1>4, LeastOf
  <2> QED
    BY <2>1, <2>2
<1> HIDE DEF first
<1>6. CASE hits = {}
  <2>1. first = 1 /\ \A i \in 1 .. 4 : DirectKey(map, sym, tries[i]) = NoCode
    BY <1>5, <1>6
  <2>2. \A i \in 1 .. 4 : \A k \in Keycodes : map[k][tries[i]] # sym
    <3> SUFFICES ASSUME NEW i \in 1 .. 4
                 PROVE  \A k \in Keycodes : map[k][tries[i]] # sym
      OBVIOUS
    <3> QED
      BY <2>1, DirectKeyIs
  <2>3. \A k \in Keycodes : ~On(map, sym, k)
    BY <1>1, <2>2 DEF On
  <2>4. found.key = NoCode /\ found.state = state /\ found \in Places
    BY <1>1, <1>3, <2>1 DEF Places
  <2>5. found.key \notin Keycodes
    BY <2>4, KeycodeAssumption DEF NoCode
  <2>6. ExactlyFor(map, sym, state, found)
    BY <2>3, <2>4, <2>5 DEF ExactlyFor
  <2> QED
    BY <2>6 DEF found
<1>7. CASE hits # {}
  <2>1. first \in 1 .. 4 /\ DirectKey(map, sym, tries[first]) # NoCode
    BY <1>5, <1>7
  <2>2. /\ found.key \in Keycodes /\ found.state = tries[first] /\ found \in Places
        /\ map[found.key][found.state] = sym
    BY <1>1, <1>3, <2>1, DirectKeyIs DEF Places
  <2>3. ASSUME Action[found.key] # "none"
        PROVE  found.state = state
    <3>1. map[found.key][state] = sym
      BY <1>1, <2>1, <2>2, <2>3 DEF ModifiersKeyed
    <3>2. DirectKey(map, sym, tries[1]) # NoCode
      BY <1>1, <2>2, <3>1, DirectKeyIs
    <3>3. 1 \in hits
      BY <3>2
    <3>4. first <= 1
      BY <1>5, <1>7, <3>3
    <3>5. first = 1
      BY <2>1, <3>4
    <3> QED
      BY <1>1, <2>2, <3>5
  <2>4. ExactlyFor(map, sym, state, found)
    BY <2>2, <2>3 DEF ExactlyFor
  <2> QED
    BY <2>4 DEF found
<1> QED
  BY <1>6, <1>7

\* Where a keysym is found, itself or what stands for it.
FoundFor(map, sym, state, found) ==
  /\ found \in Places
  /\ \/ found.key = NoCode /\ Unknown(map, sym)
     \/ /\ found.key \in Keycodes /\ UsedFor(map, sym, found.key)
        /\ map[found.key][found.state] = sym
     \/ /\ found.key \in Keycodes /\ UsedFor(map, sym, found.key)
        /\ map[found.key][found.state] = Alternative[sym]
        /\ Alternative[sym] # NoSymbol /\ \A k \in Keycodes : ~On(map, sym, k)
  /\ found.key \in Keycodes /\ Action[found.key] # "none" => found.state = state

\* Known finds the key that is used for the keysym, if there is one.
LEMMA KnownIs ==
  ASSUME NEW map, LevelThreeKeyed(map), ModifiersKeyed(map),
         NEW sym \in Keysyms, NEW state \in Levels
  PROVE  FoundFor(map, sym, state,
                  Known(map, sym, state, KeysymToKeycode(map, sym, state)))
<1> DEFINE exact == KeysymToKeycode(map, sym, state)
           other == KeysymToKeycode(map, Alternative[sym], state)
           known == Known(map, sym, state, exact)
<1>1. ExactlyFor(map, sym, state, exact) /\ ExactlyFor(map, Alternative[sym], state, other)
  BY KeysymToKeycodeIs
<1>2. known = IF exact.key = NoCode /\ Alternative[sym] # NoSymbol THEN other ELSE exact
  BY DEF Known
<1> HIDE DEF exact, other, known
<1>3. NoCode \notin Keycodes
  BY KeycodeAssumption DEF NoCode
<1>4. CASE exact.key # NoCode
  <2>1. known = exact /\ exact.key \in Keycodes /\ map[exact.key][exact.state] = sym
    BY <1>1, <1>2, <1>4 DEF ExactlyFor
  <2>2. UsedFor(map, sym, exact.key)
    BY <1>1, <2>1 DEF UsedFor, On, ExactlyFor, Places
  <2>3. FoundFor(map, sym, state, exact)
    BY <1>1, <2>1, <2>2 DEF ExactlyFor, FoundFor
  <2> QED
    BY <2>1, <2>3 DEF known, exact
<1>5. CASE exact.key = NoCode /\ Alternative[sym] # NoSymbol
  <2>1. known = other /\ \A k \in Keycodes : ~On(map, sym, k)
    BY <1>1, <1>2, <1>3, <1>5 DEF ExactlyFor
  <2>2. CASE other.key \in Keycodes
    <3>1. map[other.key][other.state] = Alternative[sym] /\ other.state \in Levels
      BY <1>1, <1>3, <2>2 DEF ExactlyFor, Places
    <3>2. UsedFor(map, sym, other.key)
      BY <1>5, <2>1, <3>1 DEF UsedFor, On
    <3>3. FoundFor(map, sym, state, other)
      BY <1>1, <1>5, <2>1, <2>2, <3>1, <3>2 DEF ExactlyFor, FoundFor
    <3> QED
      BY <2>1, <3>3 DEF known, exact
  <2>3. CASE other.key \notin Keycodes
    <3>1. other.key = NoCode /\ \A k \in Keycodes : ~On(map, Alternative[sym], k)
      BY <1>1, <2>3 DEF ExactlyFor, Places
    <3>2. Unknown(map, sym)
      BY <2>1, <3>1 DEF Unknown, UsedFor
    <3>3. FoundFor(map, sym, state, other)
      BY <1>1, <3>1, <3>2 DEF ExactlyFor, FoundFor
    <3> QED
      BY <2>1, <3>3 DEF known, exact
  <2> QED
    BY <2>2, <2>3
<1>6. CASE exact.key = NoCode /\ Alternative[sym] = NoSymbol
  <2>1. known = exact /\ \A k \in Keycodes : ~On(map, sym, k)
    BY <1>1, <1>2, <1>3, <1>6 DEF ExactlyFor
  <2>2. Unknown(map, sym)
    BY <1>6, <2>1 DEF Unknown, UsedFor
  <2>3. FoundFor(map, sym, state, exact)
    BY <1>1, <1>6, <2>2 DEF ExactlyFor, FoundFor
  <2> QED
    BY <2>1, <2>3 DEF known, exact
<1> QED
  BY <1>4, <1>5, <1>6

\* Which keysyms are on the map after one was added: on a key that had none,
\* both cases of it.
LEMMA AddedOn ==
  ASSUME NEW map \in Keymaps, NEW syms \in SUBSET Keysyms, Regular(map, syms),
         NEW sym \in syms, Unknown(map, sym), Free(map) # {},
         NEW m, m = Max(Free(map)), NEW new, new = AddKeysym(map, sym)
  PROVE  /\ new \in Keymaps
         /\ m \in Free(map) /\ m \in Keycodes /\ Action[m] = "none"
         /\ \A x \in Keysyms : ~On(map, x, m)
         /\ \A k \in Keycodes : k # m => new[k] = map[k]
         /\ \A k \in Keycodes : k # m => \A x : On(new, x, k) <=> On(map, x, k)
         /\ \A x : On(new, x, m) <=> x \in {Lower[sym], Upper[sym]}
         /\ Free(new) = Free(map) \ {m}
<1> DEFINE row == [s \in ModifierStates |-> IF "Shift" \in s THEN Upper[sym] ELSE Lower[sym]]
<1>1. m \in Free(map) /\ m \in Keycodes
  <2>1. Free(map) \in SUBSET (1 .. 255)
    BY KeycodeAssumption DEF Free
  <2> QED
    BY <2>1, LastOf DEF Free
<1>2. new = [map EXCEPT ![m] = row]
  BY DEF AddKeysym
<1>3. row \in [ModifierStates -> Keysyms \cup {NoSymbol}]
  BY CaseAssumption
<1>4. \A s \in ModifierStates : row[s] = IF "Shift" \in s THEN Upper[sym] ELSE Lower[sym]
  OBVIOUS
<1> HIDE DEF row
<1>5. new \in Keymaps /\ new[m] = row /\ \A k \in Keycodes : k # m => new[k] = map[k]
  BY <1>1, <1>2, <1>3 DEF Keymaps
<1>6. {} \in Levels /\ {"Shift"} \in Levels /\ Levels \subseteq ModifierStates
  BY LevelsType DEF Levels
<1>7. \A s \in ModifierStates : map[m][s] = NoSymbol
  BY <1>1 DEF Free
<1>8. \A x \in Keysyms : ~On(map, x, m)
  BY <1>6, <1>7, KeysymAssumption DEF On
<1>9. Action[m] = "none"
  <2> SUFFICES ASSUME Action[m] # "none"
               PROVE  FALSE
    OBVIOUS
  <2>1. PICK x \in Keysyms : \A s \in Levels : map[m][s] = x
    BY <1>1 DEF Regular, ModifiersKeyed
  <2> QED
    BY <1>6, <1>7, <2>1, KeysymAssumption
<1>10. \A k \in Keycodes : k # m => \A x : On(new, x, k) <=> On(map, x, k)
  BY <1>5 DEF On
<1>11. \A x : On(new, x, m) <=> x \in {Lower[sym], Upper[sym]}
  <2>1. row[{}] = Lower[sym] /\ row[{"Shift"}] = Upper[sym]
    BY <1>4, <1>6
  <2>2. \A s \in Levels : row[s] \in {Lower[sym], Upper[sym]}
    BY <1>4, <1>6
  <2> QED
    BY <1>5, <1>6, <2>1, <2>2 DEF On
<1>12. Free(new) = Free(map) \ {m}
  <2>1. m \notin Free(new)
    <3>1. row[{}] \in Keysyms /\ {} \in ModifierStates
      BY <1>4, <1>6, CaseAssumption
    <3> QED
      BY <1>5, <3>1, KeysymAssumption DEF Free
  <2>2. \A k \in Keycodes : k # m => (k \in Free(new) <=> k \in Free(map))
    BY <1>5 DEF Free
  <2>3. Free(new) \subseteq Keycodes /\ Free(map) \subseteq Keycodes
    BY DEF Free
  <2> QED
    BY <2>1, <2>2, <2>3
<1> QED
  BY <1>1, <1>5, <1>8, <1>9, <1>10, <1>11, <1>12

\* Adding a keysym takes none of the others from its key.
LEMMA AddedKeeps ==
  ASSUME NEW map \in Keymaps, NEW syms \in SUBSET Keysyms, Regular(map, syms),
         AlternativesCaseless(syms), NEW sym \in syms, Unknown(map, sym),
         Free(map) # {}, NEW m, m = Max(Free(map)), NEW new, new = AddKeysym(map, sym),
         NEW h \in syms, NEW k \in Keycodes, UsedFor(map, h, k)
  PROVE  k # m /\ UsedFor(new, h, k) /\ ~UsedFor(new, h, m)
<1> DEFINE cases == {Lower[sym], Upper[sym]}
<1>1. /\ \A x \in Keysyms : ~On(map, x, m)
      /\ \A j \in Keycodes : j # m => \A x : On(new, x, j) <=> On(map, x, j)
      /\ \A x : On(new, x, m) <=> x \in cases
  BY AddedOn
<1>2. /\ sym \in cases
      /\ \A y \in cases : Lower[y] = Lower[sym] /\ Upper[y] = Upper[sym]
      /\ \A y \in cases : \A j \in Keycodes : ~On(map, y, j)
  BY DEF Regular, CasesApart
<1> HIDE DEF cases
<1>3. CASE On(map, h, k)
  <2>1. k # m /\ h \notin cases
    BY <1>1, <1>2, <1>3
  <2>2. On(new, h, k) /\ ~On(new, h, m)
    BY <1>1, <1>3, <2>1
  <2> QED
    BY <2>1, <2>2 DEF UsedFor
<1>4. CASE ~On(map, h, k)
  <2>1. /\ Alternative[h] # NoSymbol /\ On(map, Alternative[h], k)
        /\ \A j \in Keycodes : ~On(map, h, j)
    BY <1>4 DEF UsedFor
  <2>2. Alternative[h] \in Keysyms
    BY <2>1, AlternativeAssumption
  <2>3. k # m /\ Alternative[h] \notin cases
    BY <1>1, <1>2, <2>1, <2>2
  <2>4. h \notin cases
    <3> SUFFICES ASSUME h \in cases
                 PROVE  FALSE
      OBVIOUS
    <3>1. Lower[h] = h /\ Upper[h] = h
      BY <2>1 DEF AlternativesCaseless
    <3>2. Lower[sym] = h /\ Upper[sym] = h
      BY <1>2, <3>1
    <3>3. sym = h
      BY <1>2, <3>2 DEF cases
    <3> QED
      BY <3>3 DEF Unknown
  <2>5. On(new, Alternative[h], k) /\ ~On(new, Alternative[h], m) /\ ~On(new, h, m)
    BY <1>1, <2>1, <2>3, <2>4
  <2>6. \A j \in Keycodes : ~On(new, h, j)
    BY <1>1, <2>1, <2>5
  <2> QED
    BY <2>1, <2>3, <2>5, <2>6 DEF UsedFor
<1> QED
  BY <1>3, <1>4

\* Nor does it keep any of them from being used.
LEMMA AddedMayUse ==
  ASSUME NEW map \in Keymaps, NEW syms \in SUBSET Keysyms, Regular(map, syms),
         AlternativesCaseless(syms), NEW sym \in syms, Unknown(map, sym),
         Free(map) # {}, NEW m, m = Max(Free(map)), NEW new, new = AddKeysym(map, sym),
         NEW h \in syms, NEW k \in Keycodes, MayUse(map, h, k)
  PROVE  MayUse(new, h, k)
<1>1. /\ \A x \in Keysyms : ~On(map, x, m)
      /\ \A j \in Keycodes : j # m => \A x : On(new, x, j) <=> On(map, x, j)
  BY AddedOn
<1>2. CASE UsedFor(map, h, k)
  <2>1. UsedFor(new, h, k)
    BY <1>2, AddedKeeps
  <2> QED
    BY <2>1 DEF MayUse
<1>3. CASE ~UsedFor(map, h, k)
  <2>1. AvoidShiftNumLock /\ Alternative[h] # NoSymbol /\ On(map, Alternative[h], k)
    BY <1>3 DEF MayUse
  <2>2. PICK j \in NumPad : On(map, h, j)
    BY <1>3 DEF MayUse
  <2>3. Alternative[h] \in Keysyms /\ j \in Keycodes
    BY <2>1, AlternativeAssumption, NumPadAssumption
  <2>4. On(new, Alternative[h], k) /\ On(new, h, j)
    BY <1>1, <2>1, <2>2, <2>3
  <2> QED
    BY <2>1, <2>4 DEF MayUse
<1> QED
  BY <1>2, <1>3

\* Whatever is used for a keysym afterwards was before, or it was not known and
\* the key is the new one.
LEMMA AddedUses ==
  ASSUME NEW map \in Keymaps, NEW syms \in SUBSET Keysyms, Regular(map, syms),
         AlternativesCaseless(syms), NEW sym \in syms, Unknown(map, sym),
         Free(map) # {}, NEW m, m = Max(Free(map)), NEW new, new = AddKeysym(map, sym),
         NEW h \in syms, NEW k \in Keycodes, UsedFor(new, h, k)
  PROVE  UsedFor(map, h, k) \/ (k = m /\ Unknown(map, h))
<1>1. /\ \A x \in Keysyms : ~On(map, x, m)
      /\ m \in Keycodes
      /\ \A j \in Keycodes : j # m => \A x : On(new, x, j) <=> On(map, x, j)
  BY AddedOn
<1>2. CASE k = m
  <2>1. ASSUME NEW j \in Keycodes, UsedFor(map, h, j)
        PROVE  FALSE
    BY <1>2, <2>1, AddedKeeps
  <2> QED
    BY <1>2, <2>1 DEF Unknown
<1>3. CASE k # m /\ On(new, h, k)
  BY <1>1, <1>3 DEF UsedFor
<1>4. CASE k # m /\ ~On(new, h, k)
  <2>1. /\ Alternative[h] # NoSymbol /\ On(new, Alternative[h], k)
        /\ \A j \in Keycodes : ~On(new, h, j)
    BY <1>4 DEF UsedFor
  <2>2. On(map, Alternative[h], k)
    BY <1>1, <1>4, <2>1
  <2>3. \A j \in Keycodes : ~On(map, h, j)
    BY <1>1, <2>1
  <2> QED
    BY <2>1, <2>2, <2>3 DEF UsedFor
<1> QED
  BY <1>2, <1>3, <1>4

\* A map with one key for each keysym stays one.
LEMMA AddedOneKeyEach ==
  ASSUME NEW map \in Keymaps, NEW syms \in SUBSET Keysyms, Regular(map, syms),
         AlternativesCaseless(syms), NEW sym \in syms, Unknown(map, sym),
         Free(map) # {}, NEW m, m = Max(Free(map)), NEW new, new = AddKeysym(map, sym),
         OneKeyEach(map, syms)
  PROVE  OneKeyEach(new, syms)
<1> SUFFICES ASSUME NEW h \in syms, NEW j \in Keycodes, NEW k \in Keycodes,
                    UsedFor(new, h, j), UsedFor(new, h, k)
             PROVE  j = k
  BY DEF OneKeyEach
<1>1. UsedFor(map, h, j) \/ (j = m /\ Unknown(map, h))
  BY AddedUses
<1>2. UsedFor(map, h, k) \/ (k = m /\ Unknown(map, h))
  BY AddedUses
<1> QED
  BY <1>1, <1>2 DEF OneKeyEach, Unknown

\* A regular map stays regular.
LEMMA AddedRegular ==
  ASSUME NEW map \in Keymaps, NEW syms \in SUBSET Keysyms, Regular(map, syms),
         AlternativesCaseless(syms), NEW sym \in syms, Unknown(map, sym),
         Free(map) # {}, NEW m, m = Max(Free(map)), NEW new, new = AddKeysym(map, sym)
  PROVE  Regular(new, syms)
<1> DEFINE cases == {Lower[sym], Upper[sym]}
<1>1. /\ \A j \in Keycodes : j # m => new[j] = map[j]
      /\ \A j \in Keycodes : j # m => \A x : On(new, x, j) <=> On(map, x, j)
      /\ \A x : On(new, x, m) <=> x \in cases
      /\ m \in Keycodes /\ Action[m] = "none"
  BY AddedOn
<1>2. /\ \A y \in cases : Lower[y] = Lower[sym] /\ Upper[y] = Upper[sym]
      /\ \A y \in cases : \A j \in Keycodes : ~On(map, y, j)
  BY DEF Regular, CasesApart
<1>3. ModifiersKeyed(new)
  <2>1. ModifiersKeyed(map)
    BY DEF Regular
  <2> QED
    BY <1>1, <2>1 DEF ModifiersKeyed
<1>4. LevelThreeKeyed(new)
  <2> HIDE DEF cases
  <2> SUFFICES ASSUME \E k \in Keycodes : Action[k] = "Level3"
               PROVE  /\ \E k \in Keycodes : \A s \in Levels : new[k][s] = "ISO_Level3_Shift"
                      /\ \A k \in Keycodes :
                           On(new, "ISO_Level3_Shift", k) => Action[k] = "Level3"
    BY DEF LevelThreeKeyed
  <2>1. /\ \E k \in Keycodes : \A s \in Levels : map[k][s] = "ISO_Level3_Shift"
        /\ \A k \in Keycodes : On(map, "ISO_Level3_Shift", k) => Action[k] = "Level3"
    BY DEF Regular, LevelThreeKeyed
  <2>2. PICK k \in Keycodes : \A s \in Levels : map[k][s] = "ISO_Level3_Shift"
    BY <2>1
  <2>3. On(map, "ISO_Level3_Shift", k)
    <3>1. {} \in Levels
      BY DEF Levels
    <3> QED
      BY <2>2, <3>1 DEF On
  <2>4. k # m
    BY <1>1, <2>1, <2>3
  <2>5. "ISO_Level3_Shift" \notin cases
    BY <1>2, <2>3
  <2> QED
    BY <1>1, <2>1, <2>2, <2>4, <2>5
<1>5. CasesApart(new, syms)
  <2> SUFFICES ASSUME NEW h \in syms, Unknown(new, h)
               PROVE  /\ h \in {Lower[h], Upper[h]}
                      /\ \A y \in {Lower[h], Upper[h]} :
                           /\ Lower[y] = Lower[h] /\ Upper[y] = Upper[h]
                           /\ \A k \in Keycodes : ~On(new, y, k)
    BY DEF CasesApart
  <2>1. Unknown(map, h)
    <3> SUFFICES ASSUME NEW k \in Keycodes, UsedFor(map, h, k)
                 PROVE  FALSE
      BY DEF Unknown
    <3> QED
      BY AddedKeeps DEF Unknown
  <2>2. /\ h \in {Lower[h], Upper[h]}
        /\ \A y \in {Lower[h], Upper[h]} :
             /\ Lower[y] = Lower[h] /\ Upper[y] = Upper[h]
             /\ \A k \in Keycodes : ~On(map, y, k)
    BY <2>1 DEF Regular, CasesApart
  <2>3. h \notin cases
    BY <1>1 DEF Unknown, UsedFor
  <2>4. ASSUME NEW y \in {Lower[h], Upper[h]}, y \in cases
        PROVE  FALSE
    <3>1. Lower[h] = Lower[sym] /\ Upper[h] = Upper[sym]
      BY <1>2, <2>2, <2>4
    <3> QED
      BY <2>2, <2>3, <3>1
  <2>5. ASSUME NEW y \in {Lower[h], Upper[h]}, NEW k \in Keycodes
        PROVE  ~On(new, y, k)
    BY <1>1, <2>2, <2>4
  <2> QED
    BY <2>2, <2>5
<1> QED
  BY <1>3, <1>4, <1>5 DEF Regular

\* What can be typed can be typed afterwards.
LEMMA AddedComplete ==
  ASSUME NEW map \in Keymaps, NEW syms \in SUBSET Keysyms, Regular(map, syms),
         AlternativesCaseless(syms), NEW sym \in syms, Unknown(map, sym),
         Free(map) # {}, NEW m, m = Max(Free(map)), NEW new, new = AddKeysym(map, sym),
         Complete(map, syms)
  PROVE  Complete(new, syms)
<1> DEFINE cases == {Lower[sym], Upper[sym]}
<1>1. /\ \A j \in Keycodes : j # m => new[j] = map[j]
      /\ \A x \in Keysyms : ~On(map, x, m)
      /\ \A j \in Keycodes : j # m => \A x : On(new, x, j) <=> On(map, x, j)
      /\ \A x : On(new, x, m) <=> x \in cases
      /\ m \in Keycodes /\ Action[m] = "none" /\ m \in Free(map)
      /\ Free(new) = Free(map) \ {m}
  BY AddedOn
<1>2. \A y \in cases : \A j \in Keycodes : ~On(map, y, j)
  BY DEF Regular, CasesApart
<1>3. sym \in cases
  BY DEF Regular, CasesApart
<1> HIDE DEF cases
<1>4. ASSUME "Tab" \in syms
      PROVE  TabKeyed(new)
  <2>1. /\ \E k \in Keycodes : On(map, "Tab", k)
        /\ \A k \in NumPad : ~On(map, "Tab", k)
        /\ \A k \in Keycodes : \A s \in Levels :
             map[k][s] = "Tab" => map[k][s \cup {"Shift"}] \in {"Tab", "ISO_Left_Tab"}
    BY <1>4 DEF Complete, TabKeyed
  <2>2. PICK k \in Keycodes : On(map, "Tab", k)
    BY <2>1
  <2>3. k # m /\ On(new, "Tab", k)
    BY <1>1, <2>2, KeysymAssumption
  <2>4. ~On(new, "Tab", m)
    BY <1>1, <1>2, <2>2
  <2>5. ASSUME NEW j \in Keycodes, NEW s \in Levels, new[j][s] = "Tab"
        PROVE  new[j][s \cup {"Shift"}] \in {"Tab", "ISO_Left_Tab"}
    <3>1. j # m
      BY <2>4, <2>5 DEF On
    <3> QED
      BY <1>1, <2>1, <2>5, <3>1
  <2>6. \A j \in NumPad : ~On(new, "Tab", j)
    BY <1>1, <2>1, <2>4, NumPadAssumption
  <2> QED
    BY <2>3, <2>5, <2>6 DEF TabKeyed
<1>5. LocksPlain(new, syms)
  <2>1. LocksPlain(map, syms)
    BY DEF Complete
  <2> QED
    BY <1>1, <2>1 DEF LocksPlain
<1>6. RoomFor(new, syms)
  <2> DEFINE before == {x \in syms : Unknown(map, x)}
             after == {x \in syms : Unknown(new, x)}
  <2>1. PICK room \in [before -> Free(map)] :
          \A x, y \in before : room[x] = room[y] => x = y
    BY DEF Complete, RoomFor
  <2>2. after \subseteq before \ {sym}
    <3>1. ASSUME NEW x \in syms, Unknown(new, x)
          PROVE  Unknown(map, x) /\ x # sym
      <4>1. ASSUME NEW k \in Keycodes, UsedFor(map, x, k)
            PROVE  FALSE
        BY <3>1, <4>1, AddedKeeps DEF Unknown
      <4>2. UsedFor(new, sym, m)
        BY <1>1, <1>3 DEF UsedFor
      <4> QED
        BY <1>1, <3>1, <4>1, <4>2 DEF Unknown
    <3> QED
      BY <3>1
  <2>3. sym \in before
    OBVIOUS
  <2> DEFINE moved == [x \in after |-> IF room[x] = m THEN room[sym] ELSE room[x]]
  <2> HIDE DEF before, after
  <2>4. \A x \in after : moved[x] = IF room[x] = m THEN room[sym] ELSE room[x]
    OBVIOUS
  <2>5. \A x \in after : room[x] \in Free(map) /\ room[x] # room[sym]
    BY <2>1, <2>2, <2>3
  <2>6. \A x \in after : moved[x] \in Free(new)
    BY <1>1, <2>1, <2>3, <2>4, <2>5
  <2>7. \A x, y \in after : moved[x] = moved[y] => x = y
    BY <2>1, <2>2, <2>3, <2>4, <2>5
  <2>8. moved \in [after -> Free(new)]
    BY <2>6
  <2> HIDE DEF moved
  <2> QED
    BY <2>7, <2>8 DEF RoomFor, after
<1> QED
  BY <1>4, <1>5, <1>6 DEF Complete

(***************************************************************************)
(* What is pressed, on any keyboard.                                       *)
(***************************************************************************)
IsPlace(place) ==
  \E key \in Keycodes \cup {NoCode} : \E state :
     place = [key |-> key, state |-> state]

\* KeysymToKeycode gives a keycode or none.
LEMMA KeysymToKeycodeType ==
  ASSUME NEW map, NEW sym, NEW state
  PROVE  IsPlace(KeysymToKeycode(map, sym, state))
<1> DEFINE at == StateFor(map, sym, Tries(state, LevelThreeMask(map)))
<1>1. KeysymToKeycode(map, sym, state) = [key |-> DirectKey(map, sym, at), state |-> at]
  BY DEF KeysymToKeycode, KeyIn
<1> HIDE DEF at
<1> QED
  BY <1>1, DirectKeyIs DEF IsPlace

\* Best keeps the keycode, or takes another one that it has found.
LEMMA BestType ==
  ASSUME NEW map, NEW sym, NEW state, NEW found, IsPlace(found)
  PROVE  IsPlace(Best(map, sym, state, found))
<1> DEFINE best == AvoidingNumPad(map, sym, state, found)
<1>1. IsPlace(best)
  BY KeysymToKeycodeType DEF AvoidingNumPad
<1> HIDE DEF best
<1>2. PICK key \in Keycodes \cup {NoCode} : \E at : best = [key |-> key, state |-> at]
  BY <1>1 DEF IsPlace
<1>3. PICK at : best = [key |-> key, state |-> at]
  BY <1>2
<1> DEFINE changed == IF sym = "Tab" /\ "Shift" \in state THEN at \cup {"Shift"} ELSE at
<1>4. Best(map, sym, state, found) = [best EXCEPT !.state = changed]
  BY <1>3 DEF Best, best
<1> HIDE DEF changed
<1>5. [best EXCEPT !.state = changed] = [key |-> key, state |-> changed]
  BY <1>3
<1> QED
  BY <1>4, <1>5 DEF IsPlace

\* The new map is a map, whatever keycode gets the keysym.
LEMMA AddKeysymType ==
  ASSUME NEW map \in Keymaps, NEW sym \in Keysyms
  PROVE  AddKeysym(map, sym) \in Keymaps
<1> DEFINE row == [s \in ModifierStates |-> IF "Shift" \in s THEN Upper[sym] ELSE Lower[sym]]
<1>1. row \in [ModifierStates -> Keysyms \cup {NoSymbol}]
  BY CaseAssumption
<1>2. AddKeysym(map, sym) = IF Free(map) = {} THEN map
                            ELSE [map EXCEPT ![Max(Free(map))] = row]
  BY DEF AddKeysym
<1> HIDE DEF row
<1> QED
  BY <1>1, <1>2 DEF Keymaps

\* What is chosen is a keycode or none, and a map.
LEMMA ChoiceType ==
  ASSUME NEW kb \in Keyboards, NEW sym \in Keysyms
  PROVE  Choice(kb, sym).map \in Keymaps /\ IsPlace(Choice(kb, sym).best)
<1> DEFINE state == StateOf(kb)
           exact == KeysymToKeycode(kb.map, sym, state)
           known == Known(kb.map, sym, state, exact)
           new == AddKeysym(kb.map, sym)
           choice == Choice(kb, sym)
<1>1. IsPlace(exact) /\ IsPlace(KeysymToKeycode(kb.map, Alternative[sym], state))
  BY KeysymToKeycodeType
<1>2. IsPlace(known)
  <2> HIDE DEF exact, state
  <2> QED
    BY <1>1 DEF Known
<1>3. kb.map \in Keymaps
  BY DEF Keyboards
<1>4. new \in Keymaps
  BY <1>3, AddKeysymType
<1>5. choice = ChoiceAmong(kb.map, sym, state, known)
  BY DEF Choice
<1> HIDE DEF state, exact, known, new, choice
<1>6. CASE known.key = NoCode
  <2>1. /\ choice.map = new
        /\ choice.best = Best(new, sym, state, KeysymToKeycode(new, sym, state))
    BY <1>5, <1>6 DEF ChoiceAmong, new
  <2>2. IsPlace(choice.best)
    BY <2>1, KeysymToKeycodeType, BestType
  <2> QED
    BY <1>4, <2>1, <2>2 DEF choice
<1>7. CASE known.key # NoCode
  <2>1. /\ choice.map = kb.map
        /\ choice.best = IF Action[known.key] = "Lock" THEN [known EXCEPT !.key = NoCode]
                         ELSE Best(kb.map, sym, state, known)
    BY <1>5, <1>7 DEF ChoiceAmong
  <2>2. IsPlace([known EXCEPT !.key = NoCode])
    <3>1. PICK key \in Keycodes \cup {NoCode} : \E at : known = [key |-> key, state |-> at]
      BY <1>2 DEF IsPlace
    <3>2. PICK at : known = [key |-> key, state |-> at]
      BY <3>1
    <3>3. [known EXCEPT !.key = NoCode] = [key |-> NoCode, state |-> at]
      BY <3>2
    <3> QED
      BY <3>3 DEF IsPlace
  <2>3. IsPlace(choice.best)
    BY <1>2, <2>1, <2>2, BestType
  <2> QED
    BY <1>3, <2>1, <2>3 DEF choice
<1> QED
  BY <1>6, <1>7

\* What is pressed or released for the moment are keys of the keyboard, and those
\* that are released are down.
LEMMA FakesType ==
  ASSUME NEW down \in SUBSET Keycodes, NEW map, NEW from, NEW to
  PROVE  /\ Fakes(down, map, from, to).press \in SUBSET Keycodes
         /\ Fakes(down, map, from, to).release \in SUBSET down
<1> DEFINE fakes == Fakes(down, map, from, to)
<1>1. \A k \in fakes.press : \E m \in to \ from :
        KeysFor(m, map, from) # {} /\ k = Min(KeysFor(m, map, from))
  BY DEF Fakes
<1>2. \A m : KeysFor(m, map, from) \in SUBSET Keycodes
  BY DEF KeysFor, ShiftKeys, LevelThreeKeys
<1>3. Keycodes \subseteq Nat
  BY KeycodeAssumption
<1>4. \A k \in fakes.press : k \in Keycodes
  BY <1>1, <1>2, <1>3, LeastOf
<1>5. fakes.release \in SUBSET down
  BY DEF Fakes
<1> QED
  BY <1>4, <1>5

\* What pressing a key does to the keys noted.
Notes(kb, sym, p) ==
  \/ p.held = kb.held
  \/ \E key \in Keycodes :
       p.held = [k \in Keycodes |-> IF k = key THEN sym
                                    ELSE IF kb.held[k] = sym THEN NoSymbol
                                    ELSE kb.held[k]]

\* Pressing a key leaves a keyboard, and notes the key or changes no note.
LEMMA PressKeyType ==
  ASSUME NEW kb \in Keyboards, NEW sym \in Keysyms
  PROVE  PressKey(kb, sym) \in Keyboards /\ Notes(kb, sym, PressKey(kb, sym))
<1> DEFINE choice == Choice(kb, sym)
           fakes == Fakes(kb.down, choice.map, StateOf(kb), choice.best.state)
           p == PressKey(kb, sym)
<1>1. /\ kb.down \in SUBSET Keycodes /\ kb.map \in Keymaps
      /\ kb.held \in [Keycodes -> Keysyms \cup {NoSymbol}]
      /\ kb = [down |-> kb.down, held |-> kb.held, map |-> kb.map]
  BY DEF Keyboards
<1>2. choice.map \in Keymaps /\ IsPlace(choice.best)
  BY ChoiceType
<1>3. fakes.press \in SUBSET Keycodes /\ fakes.release \in SUBSET kb.down
  BY <1>1, FakesType
<1>4. p = IF choice.best.key = NoCode THEN [kb EXCEPT !.map = choice.map]
          ELSE Pressed(kb, sym, choice.best.key, choice.map, fakes)
  BY DEF PressKey, PressChoice
<1> HIDE DEF choice, fakes, p
<1>5. CASE choice.best.key = NoCode
  <2>1. p \in Keyboards /\ p.held = kb.held
    BY <1>1, <1>2, <1>4, <1>5 DEF Keyboards
  <2> QED
    BY <2>1 DEF Notes, p
<1>6. CASE choice.best.key # NoCode /\ fakes.missing # {}
  <2> DEFINE down == DownAfterFailure(kb, fakes)
  <2>1. down \in SUBSET Keycodes
    BY <1>1, <1>3 DEF DownAfterFailure
  <2>2. p = [kb EXCEPT !.map = choice.map, !.down = down]
    BY <1>4, <1>6 DEF Pressed
  <2> HIDE DEF down
  <2>3. p \in Keyboards /\ p.held = kb.held
    BY <1>1, <1>2, <2>1, <2>2 DEF Keyboards
  <2> QED
    BY <2>3 DEF Notes, p
<1>7. CASE choice.best.key # NoCode /\ fakes.missing = {}
  <2> DEFINE key == choice.best.key
             down == ((DownAtPress(kb, fakes) \cup {key}) \ fakes.press) \cup fakes.release
             held == [k \in Keycodes |-> IF k = key THEN sym
                                         ELSE IF kb.held[k] = sym THEN NoSymbol
                                         ELSE kb.held[k]]
  <2>1. key \in Keycodes
    BY <1>2, <1>7 DEF IsPlace
  <2>2. down \in SUBSET Keycodes
    BY <1>1, <1>3, <2>1 DEF DownAtPress
  <2>3. held \in [Keycodes -> Keysyms \cup {NoSymbol}]
    BY <1>1
  <2>4. p = [down |-> down, held |-> held, map |-> choice.map]
    BY <1>4, <1>7 DEF Pressed
  <2>5. Notes(kb, sym, p)
    <3>1. p.held = held
      BY <2>4
    <3> HIDE DEF key, p
    <3> QED
      BY <2>1, <3>1 DEF Notes
  <2>6. p \in Keyboards
    <3> HIDE DEF key, held, down
    <3> QED
      BY <1>2, <2>2, <2>3, <2>4 DEF Keyboards
  <2> QED
    BY <2>5, <2>6 DEF p
<1> QED
  BY <1>5, <1>6, <1>7

\* What releasing keys does to the keys that are down and noted.
LEMMA ReleaseKeysIs ==
  ASSUME NEW kb \in Keyboards, NEW syms
  PROVE  /\ ReleaseKeys(kb, syms) \in Keyboards
         /\ ReleaseKeys(kb, syms).map = kb.map
         /\ ReleaseKeys(kb, syms).down = {k \in kb.down : kb.held[k] \notin syms}
         /\ \A k \in Keycodes : ReleaseKeys(kb, syms).held[k] =
              IF kb.held[k] \in syms THEN NoSymbol ELSE kb.held[k]
<1> DEFINE down == {k \in kb.down : kb.held[k] \notin syms}
           held == [k \in Keycodes |-> IF kb.held[k] \in syms THEN NoSymbol ELSE kb.held[k]]
           r == ReleaseKeys(kb, syms)
<1>1. /\ kb.down \in SUBSET Keycodes /\ kb.map \in Keymaps
      /\ kb.held \in [Keycodes -> Keysyms \cup {NoSymbol}]
      /\ kb = [down |-> kb.down, held |-> kb.held, map |-> kb.map]
  BY DEF Keyboards
<1>2. down \in SUBSET Keycodes /\ held \in [Keycodes -> Keysyms \cup {NoSymbol}]
  BY <1>1
<1>3. \A k \in Keycodes : held[k] = IF kb.held[k] \in syms THEN NoSymbol ELSE kb.held[k]
  OBVIOUS
<1>4. r = [kb EXCEPT !.down = down, !.held = held]
  BY <1>1 DEF ReleaseKeys
<1> HIDE DEF down, held, r
<1>5. r = [down |-> down, held |-> held, map |-> kb.map]
  BY <1>1, <1>4
<1>6. r \in Keyboards /\ r.map = kb.map /\ r.down = down /\ r.held = held
  BY <1>1, <1>2, <1>5 DEF Keyboards
<1> QED
  BY <1>3, <1>6 DEF r, down

(***************************************************************************)
(* What is pressed, on a regular keyboard.                                 *)
(***************************************************************************)
\* The same key, with Shift left alone for Tab.
LeavesShift(sym, state, found, best) ==
  /\ best \in Places /\ best.key = found.key
  /\ best.state = IF sym = "Tab" /\ "Shift" \in state THEN found.state \cup {"Shift"}
                  ELSE found.state

\* Best presses the key that AvoidingNumPad gives it.
LEMMA BestIs ==
  ASSUME NEW map, NEW sym, NEW state \in Levels, NEW found,
         NEW place \in Places, place = AvoidingNumPad(map, sym, state, found)
  PROVE  LeavesShift(sym, state, place, Best(map, sym, state, found))
<1> DEFINE changed == IF sym = "Tab" /\ "Shift" \in state THEN place.state \cup {"Shift"}
                      ELSE place.state
           best == Best(map, sym, state, found)
<1>1. place = [key |-> place.key, state |-> place.state]
      /\ place.key \in Keycodes \cup {NoCode} /\ place.state \in Levels
  BY DEF Places
<1>2. best = [place EXCEPT !.state = changed]
  BY <1>1 DEF Best
<1>3. changed \in Levels
  BY <1>1 DEF Levels
<1> HIDE DEF changed, best
<1>4. best = [key |-> place.key, state |-> changed]
  BY <1>1, <1>2
<1>5. best \in Places /\ best.key = place.key /\ best.state = changed
  BY <1>1, <1>3, <1>4 DEF Places
<1>6. LeavesShift(sym, state, place, best)
  BY <1>5 DEF LeavesShift, changed
<1> QED
  BY <1>6 DEF best

\* A key that may be pressed for the keysym, in a state in which it types it.
Fits(map, sym, state, place) ==
  /\ place \in Places /\ place.key \in Keycodes /\ MayUse(map, sym, place.key)
  /\ map[place.key][place.state] \in {sym, Alternative[sym]} \ {NoSymbol}
  /\ Action[place.key] # "none" => place.state = state

\* Instead of a key of the numeric pad Best may take one for what stands for the
\* keysym, which fits as well.
LEMMA BestFits ==
  ASSUME NEW map, LevelThreeKeyed(map), ModifiersKeyed(map), NEW sym \in Keysyms,
         NEW state \in Levels, NEW found,
         Fits(map, sym, state, found), UsedFor(map, sym, found.key)
  PROVE  \E place : /\ Fits(map, sym, state, place)
                    /\ place = found \/ found.key \in NumPad
                    /\ LeavesShift(sym, state, place, Best(map, sym, state, found))
<1> DEFINE place == AvoidingNumPad(map, sym, state, found)
           other == KeysymToKeycode(map, Alternative[sym], state)
<1>1. \/ place = found
      \/ /\ place = other /\ AvoidShiftNumLock /\ Alternative[sym] # NoSymbol
         /\ found.key \in NumPad /\ other.key # NoCode
  BY DEF AvoidingNumPad
<1>2. ExactlyFor(map, Alternative[sym], state, other)
  BY KeysymToKeycodeIs
<1> HIDE DEF place, other
<1>3. CASE place = found
  <2>1. found \in Places
    BY DEF Fits
  <2>2. LeavesShift(sym, state, found, Best(map, sym, state, found))
    BY <1>3, <2>1, BestIs DEF place
  <2> QED
    BY <2>2
<1>4. CASE place # found
  <2>1. /\ other \in Places /\ other.key \in Keycodes /\ other.state \in Levels
        /\ map[other.key][other.state] = Alternative[sym]
        /\ Action[other.key] # "none" => other.state = state
    BY <1>1, <1>2, <1>4 DEF ExactlyFor, Places
  <2>2. On(map, Alternative[sym], other.key)
    BY <2>1 DEF On
  <2>3. MayUse(map, sym, other.key)
    <3>1. CASE On(map, sym, found.key)
      BY <1>1, <1>4, <2>2, <3>1 DEF MayUse
    <3>2. CASE ~On(map, sym, found.key)
      <4>1. \A k \in Keycodes : ~On(map, sym, k)
        BY <3>2 DEF UsedFor
      <4>2. UsedFor(map, sym, other.key)
        BY <1>1, <1>4, <2>2, <4>1 DEF UsedFor
      <4> QED
        BY <4>2 DEF MayUse
    <3> QED
      BY <3>1, <3>2
  <2>4. Fits(map, sym, state, other)
    BY <1>1, <1>4, <2>1, <2>3 DEF Fits
  <2>5. LeavesShift(sym, state, other, Best(map, sym, state, found))
    BY <1>1, <1>4, <2>1, BestIs DEF place
  <2> QED
    BY <1>1, <1>4, <2>4, <2>5
<1> QED
  BY <1>3, <1>4

\* What pressing the key in the state types.
Right(kb, sym, choice) ==
  \/ /\ choice.best.key \in Keycodes
     /\ choice.map[choice.best.key][choice.best.state] \in {sym, Alternative[sym]} \ {NoSymbol}
  \/ /\ choice.best.key \in Keycodes /\ sym = "Tab" /\ "Shift" \in StateOf(kb)
     /\ choice.map[choice.best.key][choice.best.state] = "ISO_Left_Tab"
  \/ \E k \in Keycodes : Action[k] = "Lock" /\ kb.map[k][{}] = sym

\* A choice that keeps the keyboard regular, takes a key that may be used for the
\* keysym, with the modifiers as they are if it is one of them, and types it.
Chosen(kb, syms, sym, choice) ==
  /\ choice.map \in Keymaps /\ Regular(choice.map, syms)
  /\ \A h \in syms : \A k \in Keycodes : MayUse(kb.map, h, k) => MayUse(choice.map, h, k)
  /\ choice.best \in Places
  /\ choice.best.key \in Keycodes =>
       /\ MayUse(choice.map, sym, choice.best.key)
       /\ Action[choice.best.key] # "none" => choice.best.state = StateOf(kb)
  /\ Complete(kb.map, syms) => Complete(choice.map, syms) /\ Right(kb, sym, choice)
  /\ OneKeyEach(kb.map, syms) => OneKeyEach(choice.map, syms)

\* A key that is on the map is chosen, or ignored for a lock.
LEMMA KnownChosen ==
  ASSUME NEW kb \in Keyboards, NEW syms \in SUBSET Keysyms, Regular(kb.map, syms),
         NEW sym \in syms, NEW known,
         FoundFor(kb.map, sym, StateOf(kb), known), known.key # NoCode
  PROVE  Chosen(kb, syms, sym, ChoiceAmong(kb.map, sym, StateOf(kb), known))
<1> DEFINE state == StateOf(kb)
           choice == ChoiceAmong(kb.map, sym, state, known)
<1>1. kb.map \in Keymaps /\ kb.down \in SUBSET Keycodes
  BY DEF Keyboards
<1>2. state \in Levels
  BY <1>1, LevelsType DEF StateOf
<1>3. /\ known \in Places /\ known.key \in Keycodes /\ known.state \in Levels
      /\ known = [key |-> known.key, state |-> known.state]
      /\ UsedFor(kb.map, sym, known.key)
      /\ \/ kb.map[known.key][known.state] = sym
         \/ /\ kb.map[known.key][known.state] = Alternative[sym]
            /\ Alternative[sym] # NoSymbol /\ \A k \in Keycodes : ~On(kb.map, sym, k)
      /\ Action[known.key] # "none" => known.state = state
  BY DEF FoundFor, Places
<1>4. /\ choice.map = kb.map
      /\ choice.best = IF Action[known.key] = "Lock" THEN [known EXCEPT !.key = NoCode]
                       ELSE Best(kb.map, sym, state, known)
  BY DEF ChoiceAmong
<1>5. sym # NoSymbol
  BY KeysymAssumption
<1> HIDE DEF state, choice
<1>6. CASE Action[known.key] = "Lock"
  <2>1. choice.best = [known EXCEPT !.key = NoCode]
    BY <1>4, <1>6
  <2>2. choice.best = [key |-> NoCode, state |-> known.state]
    BY <1>3, <2>1
  <2>3. choice.best \in Places /\ choice.best.key \notin Keycodes
    BY <1>3, <2>2, KeycodeAssumption DEF Places, NoCode
  <2>4. ASSUME Complete(kb.map, syms)
        PROVE  Right(kb, sym, choice)
    <3>1. kb.map[known.key][known.state] = sym
      <4> SUFFICES ASSUME kb.map[known.key][known.state] = Alternative[sym],
                          Alternative[sym] # NoSymbol
                   PROVE  FALSE
        BY <1>3
      <4>1. On(kb.map, Alternative[sym], known.key)
        BY <1>3 DEF On
      <4> QED
        BY <1>3, <1>6, <2>4, <4>1 DEF Complete, LocksPlain
    <3>2. kb.map[known.key][{}] = sym
      <4>1. {} \in Levels
        BY DEF Levels
      <4> QED
        BY <1>3, <1>6, <3>1, <4>1 DEF Regular, ModifiersKeyed
    <3> QED
      BY <1>3, <1>6, <3>2 DEF Right
  <2>5. Chosen(kb, syms, sym, choice)
    BY <1>1, <1>4, <2>3, <2>4 DEF Chosen
  <2> QED
    BY <2>5 DEF choice, state
<1>7. CASE Action[known.key] # "Lock"
  <2>1. choice.best = Best(kb.map, sym, state, known)
    BY <1>4, <1>7
  <2>2. Fits(kb.map, sym, state, known)
    BY <1>3, <1>5 DEF Fits, MayUse
  <2>3. PICK place : /\ Fits(kb.map, sym, state, place)
                     /\ place = known \/ known.key \in NumPad
                     /\ LeavesShift(sym, state, place, choice.best)
    BY <1>2, <1>3, <2>1, <2>2, BestFits DEF Regular
  <2>4. /\ choice.best \in Places /\ choice.best.key = place.key
        /\ choice.best.state =
             IF sym = "Tab" /\ "Shift" \in state THEN place.state \cup {"Shift"}
             ELSE place.state
        /\ place.key \in Keycodes /\ MayUse(kb.map, sym, place.key)
        /\ kb.map[place.key][place.state] \in {sym, Alternative[sym]} \ {NoSymbol}
        /\ Action[place.key] # "none" => place.state = state
    BY <2>3 DEF Fits, LeavesShift
  <2>5. Action[choice.best.key] # "none" => choice.best.state = state
    <3>1. "Shift" \in state => state \cup {"Shift"} = state
      OBVIOUS
    <3> QED
      BY <2>4, <3>1
  <2>6. ASSUME Complete(kb.map, syms)
        PROVE  Right(kb, sym, choice)
    <3>1. CASE sym = "Tab" /\ "Shift" \in state
      <4>1. TabKeyed(kb.map)
        BY <2>6, <3>1 DEF Complete
      <4>2. kb.map[known.key][known.state] = "Tab"
        BY <1>3, <3>1, <4>1 DEF TabKeyed
      <4>3. place = known
        BY <1>3, <2>3, <4>1, <4>2 DEF TabKeyed, On
      <4>4. kb.map[known.key][known.state \cup {"Shift"}] \in {"Tab", "ISO_Left_Tab"}
        BY <1>3, <4>1, <4>2 DEF TabKeyed
      <4>5. kb.map[known.key][choice.best.state] \in {"Tab", "ISO_Left_Tab"}
        BY <2>4, <3>1, <4>3, <4>4
      <4> QED
        BY <1>3, <1>4, <1>5, <2>4, <3>1, <4>3, <4>5 DEF Right, state
    <3>2. CASE ~(sym = "Tab" /\ "Shift" \in state)
      BY <1>4, <2>4, <3>2 DEF Right
    <3> QED
      BY <3>1, <3>2
  <2>7. Chosen(kb, syms, sym, choice)
    BY <1>1, <1>4, <2>4, <2>5, <2>6 DEF Chosen, state
  <2> QED
    BY <2>7 DEF choice, state
<1> QED
  BY <1>6, <1>7

\* A key that is not on the map is added, if there is room, and chosen.
LEMMA AddedChosen ==
  ASSUME NEW kb \in Keyboards, NEW syms \in SUBSET Keysyms, Regular(kb.map, syms),
         AlternativesCaseless(syms), NEW sym \in syms,
         Unknown(kb.map, sym), NEW known, known.key = NoCode
  PROVE  Chosen(kb, syms, sym, ChoiceAmong(kb.map, sym, StateOf(kb), known))
<1> DEFINE state == StateOf(kb)
           new == AddKeysym(kb.map, sym)
           found == KeysymToKeycode(new, sym, state)
           choice == ChoiceAmong(kb.map, sym, state, known)
           m == Max(Free(kb.map))
<1>1. kb.map \in Keymaps /\ kb.down \in SUBSET Keycodes
  BY DEF Keyboards
<1>2. state \in Levels
  BY <1>1, LevelsType DEF StateOf
<1>3. choice.map = new /\ choice.best = Best(new, sym, state, found)
  BY DEF ChoiceAmong
<1>4. \A k \in Keycodes : ~On(kb.map, sym, k)
  BY DEF Unknown, UsedFor
<1>5. NoCode \notin Keycodes /\ sym # NoSymbol
  BY KeycodeAssumption, KeysymAssumption DEF NoCode
<1>6. CASE Free(kb.map) = {}
  <2>1. new = kb.map
    BY <1>6 DEF AddKeysym
  <2>2. ExactlyFor(new, sym, state, found)
    BY <1>2, <2>1, KeysymToKeycodeIs DEF Regular
  <2>3. ~Complete(kb.map, syms)
    <3>1. sym \in {x \in syms : Unknown(kb.map, x)}
      OBVIOUS
    <3>2. ~RoomFor(kb.map, syms)
      BY <1>6, <3>1 DEF RoomFor
    <3> QED
      BY <3>2 DEF Complete
  <2> HIDE DEF new, found, choice, state
  <2>4. found \in Places /\ found.key \notin Keycodes
    <3>1. found.key \in Keycodes => On(kb.map, sym, found.key)
      BY <1>5, <2>1, <2>2 DEF ExactlyFor, On, Places
    <3> QED
      BY <1>4, <2>2, <3>1 DEF ExactlyFor
  <2>5. choice.best \in Places /\ choice.best.key = found.key
    <3>1. AvoidingNumPad(new, sym, state, found) = found
      BY <2>4, NumPadAssumption DEF AvoidingNumPad
    <3>2. LeavesShift(sym, state, found, Best(new, sym, state, found))
      BY <1>2, <2>4, <3>1, BestIs
    <3> QED
      BY <1>3, <3>2 DEF LeavesShift
  <2>6. Chosen(kb, syms, sym, choice)
    BY <1>1, <1>3, <2>1, <2>3, <2>4, <2>5 DEF Chosen
  <2> QED
    BY <2>6 DEF choice, state
<1>7. CASE Free(kb.map) # {}
  <2>1. Regular(new, syms)
    BY <1>1, <1>7, AddedRegular
  <2>2. new \in Keymaps /\ On(new, sym, m) /\ m \in Keycodes
    <3>1. /\ new \in Keymaps /\ m \in Keycodes
          /\ \A x : On(new, x, m) <=> x \in {Lower[sym], Upper[sym]}
      BY <1>1, <1>7, AddedOn
    <3>2. sym \in {Lower[sym], Upper[sym]}
      BY DEF Regular, CasesApart
    <3> QED
      BY <3>1, <3>2
  <2>3. \A h \in syms : \A k \in Keycodes : MayUse(kb.map, h, k) => MayUse(new, h, k)
    <3> SUFFICES ASSUME NEW h \in syms, NEW k \in Keycodes, MayUse(kb.map, h, k)
                 PROVE  MayUse(new, h, k)
      OBVIOUS
    <3> QED
      BY <1>1, <1>7, AddedMayUse
  <2>4. Complete(kb.map, syms) => Complete(new, syms)
    BY <1>1, <1>7, AddedComplete
  <2>5. /\ ExactlyFor(new, sym, state, found)
        /\ OneKeyEach(kb.map, syms) => OneKeyEach(new, syms)
    BY <1>1, <1>2, <1>7, <2>1, KeysymToKeycodeIs, AddedOneKeyEach DEF Regular
  <2> HIDE DEF new, found, choice, state, m
  <2>6. /\ found \in Places /\ found.key \in Keycodes /\ found.state \in Levels
        /\ new[found.key][found.state] = sym
        /\ Action[found.key] # "none" => found.state = state
    BY <2>2, <2>5 DEF ExactlyFor, Places
  <2>7. UsedFor(new, sym, found.key)
    BY <2>6 DEF UsedFor, On
  <2>8. Fits(new, sym, state, found)
    BY <1>5, <2>6, <2>7 DEF Fits, MayUse
  <2>9. PICK place : /\ Fits(new, sym, state, place)
                     /\ LeavesShift(sym, state, place, choice.best)
    BY <1>2, <1>3, <2>1, <2>7, <2>8, BestFits DEF Regular
  <2>10. /\ choice.best \in Places /\ choice.best.key = place.key
         /\ choice.best.state =
              IF sym = "Tab" /\ "Shift" \in state THEN place.state \cup {"Shift"}
              ELSE place.state
         /\ place.key \in Keycodes /\ MayUse(new, sym, place.key)
         /\ new[place.key][place.state] \in {sym, Alternative[sym]} \ {NoSymbol}
         /\ Action[place.key] # "none" => place.state = state
    BY <2>9 DEF Fits, LeavesShift
  <2>11. Action[choice.best.key] # "none" => choice.best.state = state
    <3>1. "Shift" \in state => state \cup {"Shift"} = state
      OBVIOUS
    <3> QED
      BY <2>10, <3>1
  <2>12. ASSUME Complete(kb.map, syms)
         PROVE  Right(kb, sym, choice)
    <3>1. sym # "Tab"
      <4> SUFFICES ASSUME sym = "Tab"
                   PROVE  FALSE
        OBVIOUS
      <4>1. \E k \in Keycodes : On(kb.map, "Tab", k)
        BY <2>12 DEF Complete, TabKeyed
      <4> QED
        BY <1>4, <4>1
    <3> QED
      BY <1>3, <2>10, <3>1 DEF Right
  <2>13. Chosen(kb, syms, sym, choice)
    BY <1>3, <2>1, <2>2, <2>3, <2>4, <2>5, <2>10, <2>11, <2>12 DEF Chosen, state
  <2> QED
    BY <2>13 DEF choice, state
<1> QED
  BY <1>6, <1>7

\* What Choice chooses on a regular keyboard.
LEMMA ChoiceIs ==
  ASSUME NEW kb \in Keyboards, NEW syms \in SUBSET Keysyms, Regular(kb.map, syms),
         AlternativesCaseless(syms), NEW sym \in syms
  PROVE  Chosen(kb, syms, sym, Choice(kb, sym))
<1> DEFINE state == StateOf(kb)
           known == Known(kb.map, sym, state, KeysymToKeycode(kb.map, sym, state))
<1>1. state \in Levels
  BY LevelsType DEF StateOf, Keyboards
<1>2. FoundFor(kb.map, sym, state, known)
  BY <1>1, KnownIs DEF Regular
<1>3. Choice(kb, sym) = ChoiceAmong(kb.map, sym, state, known)
  BY DEF Choice
<1> HIDE DEF known
<1>4. CASE known.key # NoCode
  BY <1>2, <1>3, <1>4, KnownChosen
<1>5. CASE known.key = NoCode
  <2>1. Unknown(kb.map, sym)
    BY <1>2, <1>5, KeycodeAssumption DEF FoundFor, NoCode
  <2> QED
    BY <1>3, <1>5, <2>1, AddedChosen
<1> QED
  BY <1>4, <1>5

\* The modifiers that are pressed for the moment are up, those released are down;
\* only Shift can be missing, on a keyboard without Shift keys; else the state is
\* the one wanted when the key is pressed.
LEMMA FakesIs ==
  ASSUME NEW kb \in Keyboards, NEW map, LevelThreeKeyed(map), NEW to \in Levels,
         NEW fakes, fakes = Fakes(kb.down, map, StateOf(kb), to)
  PROVE  /\ fakes.release \subseteq kb.down
         /\ \A k \in fakes.press : Action[k] \in to \ StateOf(kb) /\ k \notin kb.down
         /\ fakes.missing \subseteq {"Shift"}
         /\ fakes.missing # {} => ShiftKeys = {}
         /\ fakes.missing = {} => ModifiersOf(DownAtPress(kb, fakes)) = to
<1> DEFINE from == StateOf(kb)
           missing == {m \in to \ from : KeysFor(m, map, from) = {}}
<1>1. kb.down \in SUBSET Keycodes
  BY DEF Keyboards
<1>2. from \in Levels /\ to \subseteq {"Shift", "Level3"} /\ from \subseteq {"Shift", "Level3"}
  BY <1>1, LevelsType DEF StateOf, ModifierStates
<1>3. /\ fakes.missing = missing
      /\ fakes.release = {k \in kb.down : Action[k] \in from \ to}
      /\ fakes.press = {Min(KeysFor(m, map, from)) : m \in (to \ from) \ missing}
  BY DEF Fakes
<1>4. \A k \in kb.down : Action[k] \in {"Shift", "Level3"} => Action[k] \in from
  BY DEF StateOf, ModifiersOf
<1>5. \A m \in from : \E k \in kb.down : Action[k] = m
  BY DEF StateOf, ModifiersOf
<1> HIDE DEF from
<1>6. ASSUME NEW m \in to \ from
      PROVE  KeysFor(m, map, from) \in SUBSET Keycodes
             /\ \A k \in KeysFor(m, map, from) : Action[k] = m
  BY <1>2 DEF KeysFor, ShiftKeys, LevelThreeKeys
<1>7. ASSUME NEW m \in (to \ from) \ missing
      PROVE  Min(KeysFor(m, map, from)) \in Keycodes /\ Action[Min(KeysFor(m, map, from))] = m
  <2>1. KeysFor(m, map, from) # {} /\ KeysFor(m, map, from) \in SUBSET Nat
    <3>1. Keycodes \subseteq Nat
      BY KeycodeAssumption
    <3>2. KeysFor(m, map, from) \in SUBSET Keycodes
      BY <1>6
    <3>3. KeysFor(m, map, from) # {}
      OBVIOUS
    <3> QED
      BY <3>1, <3>2, <3>3
  <2>2. Min(KeysFor(m, map, from)) \in KeysFor(m, map, from)
    BY <2>1, LeastOf
  <2> QED
    BY <1>6, <2>2
<1>8. \A k \in fakes.press : Action[k] \in to \ from /\ k \notin kb.down
  BY <1>2, <1>3, <1>4, <1>7
<1>9. missing \subseteq {"Shift"}
  <2> SUFFICES ASSUME "Level3" \in missing
               PROVE  FALSE
    BY <1>2
  <2>1. \E k \in Keycodes : Action[k] = "Level3"
    BY DEF Levels
  <2>2. LevelThreeKeys(map, from) # {}
    BY <1>2, <2>1, LevelThreeFound
  <2> QED
    BY <2>2 DEF KeysFor
<1>10. missing # {} => ShiftKeys = {}
  BY <1>9 DEF KeysFor
<1>11. ASSUME missing = {}
       PROVE  ModifiersOf(DownAtPress(kb, fakes)) = to
  <2> DEFINE down == DownAtPress(kb, fakes)
  <2>1. down = (kb.down \ fakes.release) \cup fakes.press
    BY DEF DownAtPress
  <2> HIDE DEF down
  <2>2. ASSUME NEW k \in down, Action[k] \in {"Shift", "Level3"}
        PROVE  Action[k] \in to
    BY <1>3, <1>4, <1>8, <2>1, <2>2
  <2>3. ASSUME NEW m \in to
        PROVE  \E k \in down : Action[k] = m
    <3>1. CASE m \in from
      <4>1. PICK k \in kb.down : Action[k] = m
        BY <1>5, <3>1
      <4>2. k \notin fakes.release
        BY <1>3, <4>1
      <4> QED
        BY <2>1, <4>1, <4>2
    <3>2. CASE m \notin from
      <4>1. m \in (to \ from) \ missing
        BY <1>11, <3>2
      <4>2. Min(KeysFor(m, map, from)) \in fakes.press
        BY <1>3, <4>1
      <4> QED
        BY <1>7, <2>1, <4>1, <4>2
    <3> QED
      BY <3>1, <3>2
  <2>4. ModifiersOf(down) = to
    BY <1>2, <2>2, <2>3 DEF ModifiersOf
  <2> QED
    BY <2>4 DEF down
<1> QED
  BY <1>3, <1>8, <1>9, <1>10, <1>11 DEF from

\* A regular keyboard whose keys that are noted are down, each one that may be used
\* for its keysym; of the others only those are down that a keysym takes by turns.
Kept(kb, syms) ==
  /\ kb \in Keyboards /\ Regular(kb.map, syms)
  /\ \A k \in Keycodes : kb.held[k] # NoSymbol =>
       k \in kb.down /\ kb.held[k] \in syms /\ MayUse(kb.map, kb.held[k], k)
  /\ \A k \in kb.down : kb.held[k] # NoSymbol \/ TakesTurns(kb.map, syms, k)

\* Pressing a key keeps a keyboard so.
LEMMA PressKept ==
  ASSUME NEW kb, NEW syms \in SUBSET Keysyms, Kept(kb, syms),
         AlternativesCaseless(syms), NEW sym \in syms
  PROVE  /\ Kept(PressKey(kb, sym), syms)
         /\ Complete(kb.map, syms) => Complete(PressKey(kb, sym).map, syms)
         /\ OneKeyEach(kb.map, syms) => OneKeyEach(PressKey(kb, sym).map, syms)
<1> DEFINE choice == Choice(kb, sym)
           fakes == Fakes(kb.down, choice.map, StateOf(kb), choice.best.state)
           p == PressKey(kb, sym)
           key == choice.best.key
<1>1. /\ kb \in Keyboards /\ kb.down \in SUBSET Keycodes
      /\ kb.held \in [Keycodes -> Keysyms \cup {NoSymbol}]
      /\ kb = [down |-> kb.down, held |-> kb.held, map |-> kb.map]
      /\ \A k \in Keycodes : kb.held[k] # NoSymbol =>
           k \in kb.down /\ kb.held[k] \in syms /\ MayUse(kb.map, kb.held[k], k)
      /\ \A k \in kb.down : kb.held[k] # NoSymbol \/ TakesTurns(kb.map, syms, k)
  BY DEF Kept, Keyboards
<1>2. Chosen(kb, syms, sym, choice)
  BY <1>1, ChoiceIs DEF Kept
<1>3. p \in Keyboards
  BY <1>1, PressKeyType
<1>4. p = IF key = NoCode THEN [kb EXCEPT !.map = choice.map]
          ELSE Pressed(kb, sym, key, choice.map, fakes)
  BY DEF PressKey, PressChoice
<1>5. /\ Regular(choice.map, syms) /\ choice.best.state \in Levels
      /\ key \in Keycodes \cup {NoCode}
      /\ \A h \in syms : \A k \in Keycodes : MayUse(kb.map, h, k) => MayUse(choice.map, h, k)
      /\ key \in Keycodes =>
           /\ MayUse(choice.map, sym, key)
           /\ Action[key] # "none" => choice.best.state = StateOf(kb)
      /\ Complete(kb.map, syms) => Complete(choice.map, syms)
      /\ OneKeyEach(kb.map, syms) => OneKeyEach(choice.map, syms)
  BY <1>2 DEF Chosen, Places
<1> HIDE DEF choice, p, key
<1>6. /\ fakes.release \subseteq kb.down
      /\ \A k \in fakes.press : Action[k] \in choice.best.state \ StateOf(kb) /\ k \notin kb.down
      /\ fakes.missing \subseteq {"Shift"}
  BY <1>1, <1>5, FakesIs DEF Regular
<1> HIDE DEF fakes
<1>7. ASSUME NEW k \in Keycodes, TakesTurns(kb.map, syms, k)
      PROVE  TakesTurns(choice.map, syms, k)
  BY <1>5, <1>7 DEF TakesTurns
<1>8. ASSUME p.map = choice.map, p.down = kb.down, p.held = kb.held
      PROVE  /\ Kept(p, syms) /\ (Complete(kb.map, syms) => Complete(p.map, syms))
             /\ OneKeyEach(kb.map, syms) => OneKeyEach(p.map, syms)
  BY <1>1, <1>3, <1>5, <1>7, <1>8 DEF Kept
<1>9. CASE key = NoCode
  <2>1. p = [down |-> kb.down, held |-> kb.held, map |-> choice.map]
    BY <1>1, <1>4, <1>9
  <2> QED
    BY <1>8, <2>1 DEF p
<1>10. CASE key # NoCode /\ fakes.missing # {}
  <2>1. "Shift" \in fakes.missing
    BY <1>6, <1>10
  <2>2. p = [kb EXCEPT !.map = choice.map, !.down = kb.down]
    BY <1>4, <1>10, <2>1 DEF Pressed, DownAfterFailure
  <2>3. p = [down |-> kb.down, held |-> kb.held, map |-> choice.map]
    BY <1>1, <2>2
  <2> QED
    BY <1>8, <2>3 DEF p
<1>11. CASE key # NoCode /\ fakes.missing = {}
  <2> DEFINE held == [k \in Keycodes |-> IF k = key THEN sym
                                         ELSE IF kb.held[k] = sym THEN NoSymbol
                                         ELSE kb.held[k]]
             down == ((DownAtPress(kb, fakes) \cup {key}) \ fakes.press) \cup fakes.release
  <2>1. p = [down |-> down, held |-> held, map |-> choice.map]
    BY <1>4, <1>11 DEF Pressed
  <2>2. key \in Keycodes
    BY <1>5, <1>11
  <2>3. key \notin fakes.press
    <3> SUFFICES ASSUME key \in fakes.press
                 PROVE  FALSE
      OBVIOUS
    <3>1. Action[key] \in choice.best.state /\ Action[key] \notin StateOf(kb)
      BY <1>6
    <3>2. choice.best.state \subseteq {"Shift", "Level3"}
      BY <1>5, LevelsType DEF ModifierStates
    <3> QED
      BY <1>5, <2>2, <3>1, <3>2
  <2>4. down = kb.down \cup {key}
    BY <1>6, <2>3 DEF DownAtPress
  <2>5. \A k \in Keycodes : held[k] = IF k = key THEN sym
                                      ELSE IF kb.held[k] = sym THEN NoSymbol
                                      ELSE kb.held[k]
    OBVIOUS
  <2> HIDE DEF held, down
  <2>6. p.down = down /\ p.held = held /\ p.map = choice.map
    BY <2>1
  <2>7. sym # NoSymbol
    BY KeysymAssumption
  <2>8. ASSUME NEW k \in Keycodes, k # key, kb.held[k] = sym
        PROVE  TakesTurns(choice.map, syms, k)
    BY <1>1, <1>5, <2>2, <2>7, <2>8 DEF TakesTurns
  <2>9. \A k \in down : held[k] # NoSymbol \/ TakesTurns(choice.map, syms, k)
    BY <1>1, <1>7, <2>2, <2>4, <2>5, <2>7, <2>8
  <2>10. \A k \in Keycodes : held[k] # NoSymbol =>
           k \in down /\ held[k] \in syms /\ MayUse(choice.map, held[k], k)
    BY <1>1, <1>5, <2>2, <2>4, <2>5
  <2>11. Kept(p, syms)
    BY <1>3, <1>5, <2>6, <2>9, <2>10 DEF Kept
  <2> QED
    BY <1>5, <2>6, <2>11 DEF p
<1> QED
  BY <1>9, <1>10, <1>11

\* So does releasing keys.
LEMMA ReleaseKept ==
  ASSUME NEW kb, NEW syms \in SUBSET Keysyms, Kept(kb, syms), NEW up \in SUBSET Keysyms
  PROVE  Kept(ReleaseKeys(kb, up), syms) /\ ReleaseKeys(kb, up).map = kb.map
<1> DEFINE r == ReleaseKeys(kb, up)
<1>1. kb \in Keyboards /\ kb.down \in SUBSET Keycodes
  BY DEF Kept, Keyboards
<1>2. /\ r \in Keyboards /\ r.map = kb.map
      /\ r.down = {k \in kb.down : kb.held[k] \notin up}
      /\ \A k \in Keycodes : r.held[k] = IF kb.held[k] \in up THEN NoSymbol ELSE kb.held[k]
  BY <1>1, ReleaseKeysIs
<1> HIDE DEF r
<1>3. \A k \in r.down : r.held[k] # NoSymbol \/ TakesTurns(r.map, syms, k)
  BY <1>1, <1>2 DEF Kept
<1>4. \A k \in Keycodes : r.held[k] # NoSymbol =>
        k \in r.down /\ r.held[k] \in syms /\ MayUse(r.map, r.held[k], k)
  BY <1>2 DEF Kept
<1>5. Kept(r, syms)
  BY <1>2, <1>3, <1>4 DEF Kept
<1> QED
  BY <1>2, <1>5 DEF r

\* On a complete keyboard the next key types what was asked for.
LEMMA TypesIt ==
  ASSUME NEW kb, NEW syms \in SUBSET Keysyms, Kept(kb, syms), Complete(kb.map, syms),
         AlternativesCaseless(syms), ShiftKeys # {}, NEW sym \in syms
  PROVE  Types(kb, sym)
<1> DEFINE choice == Choice(kb, sym)
           fakes == Fakes(kb.down, choice.map, StateOf(kb), choice.best.state)
           key == choice.best.key
<1>1. kb \in Keyboards
  BY DEF Kept
<1>2. Chosen(kb, syms, sym, choice)
  BY <1>1, ChoiceIs DEF Kept
<1>3. /\ Regular(choice.map, syms) /\ choice.best.state \in Levels
      /\ Right(kb, sym, choice)
  BY <1>2 DEF Chosen, Places
<1>4. Typed(kb, sym) = IF key = NoCode THEN NoSymbol
                       ELSE TypedBy(kb, key, choice.map, fakes)
  BY DEF Typed, TypedChoice
<1> HIDE DEF choice
<1>5. fakes.missing = {} /\ ModifiersOf(DownAtPress(kb, fakes)) = choice.best.state
  BY <1>1, <1>3, FakesIs DEF Regular
<1> HIDE DEF fakes
<1>6. ASSUME key \in Keycodes
      PROVE  Typed(kb, sym) = choice.map[key][choice.best.state]
  BY <1>4, <1>5, <1>6, KeycodeAssumption DEF TypedBy, NoCode
<1> QED
  BY <1>3, <1>6 DEF Right, Types

(***************************************************************************)
(* The viewers.                                                            *)
(***************************************************************************)
\* The keysyms noted are among S, and each on one key.
NotedAmong(kb, S) ==
  /\ kb \in Keyboards
  /\ \A k \in Keycodes : kb.held[k] # NoSymbol => kb.held[k] \in S
  /\ \A j, k \in Keycodes : kb.held[j] = kb.held[k] /\ kb.held[k] # NoSymbol => j = k

\* A keysym that is pressed is noted once.
LEMMA PressNoted ==
  ASSUME NEW kb, NEW S, NotedAmong(kb, S), NEW sym \in Keysyms
  PROVE  NotedAmong(PressKey(kb, sym), S \cup {sym})
<1> DEFINE p == PressKey(kb, sym)
<1>1. p \in Keyboards /\ Notes(kb, sym, p)
  BY PressKeyType DEF NotedAmong
<1> HIDE DEF p
<1>2. CASE p.held = kb.held
  <2>1. NotedAmong(p, S \cup {sym})
    BY <1>1, <1>2 DEF NotedAmong
  <2> QED
    BY <2>1 DEF p
<1>3. CASE p.held # kb.held
  <2>1. PICK key \in Keycodes :
          p.held = [k \in Keycodes |-> IF k = key THEN sym
                                       ELSE IF kb.held[k] = sym THEN NoSymbol
                                       ELSE kb.held[k]]
    BY <1>1, <1>3 DEF Notes
  <2>2. \A k \in Keycodes : p.held[k] = IF k = key THEN sym
                                        ELSE IF kb.held[k] = sym THEN NoSymbol
                                        ELSE kb.held[k]
    BY <2>1
  <2>3. \A k \in Keycodes : p.held[k] # NoSymbol => p.held[k] \in S \cup {sym}
    BY <2>2 DEF NotedAmong
  <2>4. \A j, k \in Keycodes : p.held[j] = p.held[k] /\ p.held[k] # NoSymbol => j = k
    BY <2>2 DEF NotedAmong
  <2>5. NotedAmong(p, S \cup {sym})
    BY <1>1, <2>3, <2>4 DEF NotedAmong
  <2> QED
    BY <2>5 DEF p
<1> QED
  BY <1>2, <1>3

\* One that is released is not noted any more.
LEMMA ReleaseNoted ==
  ASSUME NEW kb, NEW S, NotedAmong(kb, S), NEW up
  PROVE  NotedAmong(ReleaseKeys(kb, up), S \ up)
<1> DEFINE r == ReleaseKeys(kb, up)
<1>1. /\ r \in Keyboards
      /\ \A k \in Keycodes : r.held[k] = IF kb.held[k] \in up THEN NoSymbol ELSE kb.held[k]
  BY ReleaseKeysIs DEF NotedAmong
<1> HIDE DEF r
<1>2. NotedAmong(r, S \ up)
  BY <1>1 DEF NotedAmong
<1> QED
  BY <1>2 DEF r

\* The keysyms that viewers hold.
Holding == UNION {conn[c].pressedKeys : c \in Viewers}

\* A connection that is not there holds no key.
NoneHoldsNothing == \A c \in Viewers : conn[c].life = "none" => conn[c].pressedKeys = {}

\* Types, and the notes: only keysyms that a viewer holds, each once; who is not
\* there holds none.
InputInv == InputTypeOK /\ NotedAmong(keyboard, Holding) /\ NoneHoldsNothing

\* Where sets of keysyms are concerned.
LEMMA SentKeysyms ==
  ASSUME NEW c \in Viewers, NEW sym \in Sent[c]
  PROVE  Remapped(sym) \in Keysyms /\ Remapped(sym) \in Pressable /\ "Shift_L" \in Keysyms
BY SentAssumption, KeysymAssumption DEF Remapped, Pressable

\* Shift_L is pressed for a viewer with Tab only.
LEMMA ShiftForTab ==
  ASSUME NEW c, NEW sym, NeedsShift(c, sym)
  PROVE  Remapped(sym) = "Tab"
BY DEF NeedsShift, Remapped

\* No keysym is noted that is not held any more, with more held.
LEMMA NotedMore ==
  ASSUME NEW kb, NEW S, NEW T, NotedAmong(kb, S), S \subseteq T
  PROVE  NotedAmong(kb, T)
BY DEF NotedAmong

\* At first nothing is held and nothing noted.
LEMMA InputInitInv == InputInit => InputInv
<1> SUFFICES ASSUME InputInit
             PROVE  InputInv
  OBVIOUS
<1>1. Nobody \in InputConnection
  BY DEF Nobody, InputConnection
<1>2. conn \in [Viewers -> InputConnection]
  BY <1>1 DEF InputInit
<1> DEFINE held == [k \in Keycodes |-> NoSymbol]
<1>3. held \in [Keycodes -> Keysyms \cup {NoSymbol}] /\ \A k \in Keycodes : held[k] = NoSymbol
  OBVIOUS
<1>4. keyboard = [down |-> {}, held |-> held, map |-> FirstMap]
  BY DEF InputInit
<1> HIDE DEF held
<1>5. keyboard \in Keyboards /\ keyboard.held = held
  BY <1>3, <1>4, MapAssumption DEF Keyboards
<1>6. InputTypeOK
  BY <1>2, <1>5 DEF InputInit, InputTypeOK
<1>7. NotedAmong(keyboard, Holding)
  BY <1>3, <1>5 DEF NotedAmong
<1>8. NoneHoldsNothing
  BY DEF InputInit, Nobody, NoneHoldsNothing
<1> QED
  BY <1>6, <1>7, <1>8 DEF InputInv

\* A key event keeps the notes: Shift_L is pressed and released again.
LEMMA KeyDownInv ==
  ASSUME InputInv, NEW c \in Viewers, NEW sym \in Sent[c], KeyDown(c, sym)
  PROVE  InputInv'
<1> DEFINE shift == NeedsShift(c, sym)
           key == Remapped(sym)
           pressed == WithShift(keyboard, shift)
           typed == PressKey(pressed, key)
<1>1. key \in Keysyms /\ "Shift_L" \in Keysyms
  BY SentKeysyms
<1>2. NotedAmong(keyboard, Holding)
  BY DEF InputInv
<1>3. /\ conn' = [conn EXCEPT ![c].pressedKeys = @ \cup {key}]
      /\ keyboard' = WithoutShift(typed, shift)
      /\ buttonMask' = buttonMask /\ pointerClient' = pointerClient
  BY DEF KeyDown
<1> HIDE DEF key, shift
<1>4. /\ conn' \in [Viewers -> InputConnection]
      /\ \A d \in Viewers : conn[d].pressedKeys \subseteq conn'[d].pressedKeys
      /\ key \in conn'[c].pressedKeys
  BY <1>1, <1>3 DEF InputInv, InputTypeOK, InputConnection
<1>5. Holding \cup {key} \subseteq Holding'
  BY <1>4 DEF Holding
<1>6. ASSUME shift
      PROVE  NotedAmong(keyboard', Holding')
  <2>1. NotedAmong(pressed, Holding \cup {"Shift_L"})
    BY <1>1, <1>2, <1>6, PressNoted DEF WithShift
  <2> HIDE DEF pressed
  <2>2. NotedAmong(typed, (Holding \cup {"Shift_L"}) \cup {key})
    BY <1>1, <2>1, PressNoted
  <2> HIDE DEF typed
  <2>3. NotedAmong(keyboard', ((Holding \cup {"Shift_L"}) \cup {key}) \ {"Shift_L"})
    BY <1>3, <1>6, <2>2, ReleaseNoted DEF WithoutShift
  <2> QED
    BY <1>5, <2>3, NotedMore
<1>7. ASSUME ~shift
      PROVE  NotedAmong(keyboard', Holding')
  <2>1. NotedAmong(typed, Holding \cup {key})
    BY <1>1, <1>2, <1>7, PressNoted DEF WithShift
  <2>2. keyboard' = typed
    BY <1>3, <1>7 DEF WithoutShift
  <2> HIDE DEF typed
  <2> QED
    BY <1>5, <2>1, <2>2, NotedMore
<1>8. NotedAmong(keyboard', Holding')
  BY <1>6, <1>7
<1>9. InputTypeOK'
  BY <1>3, <1>4, <1>8 DEF InputInv, InputTypeOK, NotedAmong
<1>10. NoneHoldsNothing'
  <2>1. conn'[c].life = "open" /\ \A d \in Viewers : d # c => conn'[d] = conn[d]
    BY <1>3 DEF InputInv, InputTypeOK, InputConnection, KeyDown
  <2> QED
    BY <2>1 DEF InputInv, NoneHoldsNothing
<1> QED
  BY <1>8, <1>9, <1>10 DEF InputInv

\* So does a release.
LEMMA KeyUpInv ==
  ASSUME InputInv, NEW c \in Viewers, NEW sym \in Sent[c], KeyUp(c, sym)
  PROVE  InputInv'
<1> DEFINE shift == NeedsShift(c, sym)
           key == Remapped(sym)
           released == {key} \cap conn[c].pressedKeys
           pressed == WithShift(keyboard, shift)
           up == ReleaseKeys(pressed, released)
<1>1. "Shift_L" \in Keysyms
  BY SentKeysyms
<1>2. NotedAmong(keyboard, Holding)
  BY DEF InputInv
<1>3. /\ conn' = [conn EXCEPT ![c].pressedKeys = @ \ released]
      /\ keyboard' = WithoutShift(up, shift)
      /\ buttonMask' = buttonMask /\ pointerClient' = pointerClient
  BY DEF KeyUp
<1> HIDE DEF shift, released
<1>4. /\ conn' \in [Viewers -> InputConnection]
      /\ \A d \in Viewers : conn[d].pressedKeys \ released \subseteq conn'[d].pressedKeys
  BY <1>3 DEF InputInv, InputTypeOK, InputConnection
<1>5. Holding \ released \subseteq Holding'
  BY <1>4 DEF Holding
<1>6. ASSUME shift
      PROVE  NotedAmong(keyboard', Holding')
  <2>1. NotedAmong(pressed, Holding \cup {"Shift_L"})
    BY <1>1, <1>2, <1>6, PressNoted DEF WithShift
  <2> HIDE DEF pressed
  <2>2. NotedAmong(up, (Holding \cup {"Shift_L"}) \ released)
    BY <2>1, ReleaseNoted
  <2> HIDE DEF up
  <2>3. NotedAmong(keyboard', ((Holding \cup {"Shift_L"}) \ released) \ {"Shift_L"})
    BY <1>3, <1>6, <2>2, ReleaseNoted DEF WithoutShift
  <2> QED
    BY <1>5, <2>3, NotedMore
<1>7. ASSUME ~shift
      PROVE  NotedAmong(keyboard', Holding')
  <2>1. NotedAmong(up, Holding \ released)
    BY <1>2, <1>7, ReleaseNoted DEF WithShift
  <2>2. keyboard' = up
    BY <1>3, <1>7 DEF WithoutShift
  <2> HIDE DEF up
  <2> QED
    BY <1>5, <2>1, <2>2, NotedMore
<1>8. NotedAmong(keyboard', Holding')
  BY <1>6, <1>7
<1>9. InputTypeOK'
  BY <1>3, <1>4, <1>8 DEF InputInv, InputTypeOK, NotedAmong
<1>10. NoneHoldsNothing'
  <2>1. conn'[c].life = "open" /\ \A d \in Viewers : d # c => conn'[d] = conn[d]
    BY <1>3 DEF InputInv, InputTypeOK, InputConnection, KeyUp
  <2> QED
    BY <2>1 DEF InputInv, NoneHoldsNothing
<1> QED
  BY <1>8, <1>9, <1>10 DEF InputInv

\* A viewer that goes leaves no note of its keys.
LEMMA RemoveInv ==
  ASSUME InputInv, NEW c \in Viewers, Remove(c)
  PROVE  InputInv'
<1> DEFINE gone == conn[c].pressedKeys
<1>1. NotedAmong(keyboard, Holding)
  BY DEF InputInv
<1>2. /\ conn' = [conn EXCEPT ![c] = Nobody]
      /\ keyboard' = ReleaseKeys(keyboard, gone)
      /\ pointerClient' = IF pointerClient = c THEN NoViewer ELSE pointerClient
      /\ buttonMask' = buttonMask
  BY DEF Remove
<1>3. NotedAmong(keyboard', Holding \ gone)
  BY <1>1, <1>2, ReleaseNoted
<1>4. Nobody \in InputConnection
  BY DEF Nobody, InputConnection
<1>5. /\ conn' \in [Viewers -> InputConnection]
      /\ \A d \in Viewers : d # c => conn'[d] = conn[d]
  BY <1>2, <1>4 DEF InputInv, InputTypeOK
<1>6. Holding \ gone \subseteq Holding'
  BY <1>5 DEF Holding
<1>7. NotedAmong(keyboard', Holding')
  BY <1>3, <1>6, NotedMore
<1>8. InputTypeOK'
  BY <1>2, <1>5, <1>7 DEF InputInv, InputTypeOK, NotedAmong
<1>9. NoneHoldsNothing'
  <2>1. conn'[c].pressedKeys = {}
    BY <1>2 DEF InputInv, InputTypeOK, Nobody
  <2> QED
    BY <1>5, <2>1 DEF InputInv, NoneHoldsNothing
<1> QED
  BY <1>7, <1>8, <1>9 DEF InputInv

\* What does not touch the keyboard and leaves every viewer its keys keeps them.
LEMMA KeysAlone ==
  ASSUME InputInv, keyboard' = keyboard,
         conn' \in [Viewers -> InputConnection],
         \A c \in Viewers : conn'[c].pressedKeys = conn[c].pressedKeys,
         NoneHoldsNothing',
         buttonMask' \in Buttons \cup {{}},
         pointerClient' \in Viewers \cup {NoViewer}
  PROVE  InputInv'
<1>1. Holding' = Holding
  BY DEF Holding
<1>2. NotedAmong(keyboard', Holding')
  BY <1>1 DEF InputInv
<1>3. InputTypeOK'
  BY DEF InputInv, InputTypeOK
<1> QED
  BY <1>2, <1>3 DEF InputInv

\* Every step keeps the notes.
LEMMA InputNextInv == InputInv /\ [InputNext]_inputVars => InputInv'
<1> SUFFICES ASSUME InputInv, [InputNext]_inputVars
             PROVE  InputInv'
  OBVIOUS
<1>1. InputTypeOK /\ NoneHoldsNothing
  BY DEF InputInv
<1>2. ASSUME NEW c \in Viewers, Connect(c)
      PROVE  InputInv'
  <2>1. PICK input \in BOOLEAN :
          conn' = [conn EXCEPT ![c] = [Nobody EXCEPT !.life = "open", !.input = input]]
    BY <1>2 DEF Connect
  <2> DEFINE new == [Nobody EXCEPT !.life = "open", !.input = input]
  <2>2. conn[c].pressedKeys = {}
    BY <1>1, <1>2 DEF Connect, NoneHoldsNothing
  <2>3. new = [life |-> "open", input |-> input, pressedKeys |-> {}]
    <3> DEFINE no == FALSE
               opened == [Nobody EXCEPT !.life = "open"]
    <3>1. Nobody = [life |-> "none", input |-> no, pressedKeys |-> {}]
      BY DEF Nobody
    <3> HIDE DEF no
    <3>2. opened = [life |-> "open", input |-> no, pressedKeys |-> {}]
      BY <3>1
    <3>3. new = [opened EXCEPT !.input = input]
      BY <3>1
    <3> HIDE DEF opened, new
    <3> QED
      BY <3>2, <3>3
  <2> HIDE DEF new
  <2>4. new \in InputConnection /\ new.pressedKeys = {} /\ new.life = "open"
    BY <2>3 DEF InputConnection
  <2>5. /\ conn' \in [Viewers -> InputConnection] /\ conn'[c] = new
        /\ \A d \in Viewers : d # c => conn'[d] = conn[d]
    BY <1>1, <2>1, <2>4 DEF InputTypeOK, new
  <2>6. \A d \in Viewers : conn'[d].pressedKeys = conn[d].pressedKeys
    BY <2>2, <2>4, <2>5
  <2>7. NoneHoldsNothing'
    BY <1>1, <2>4, <2>5 DEF NoneHoldsNothing
  <2> QED
    BY <1>1, <1>2, <2>5, <2>6, <2>7, KeysAlone DEF Connect, InputTypeOK
<1>3. ASSUME NEW c \in Viewers, Close(c)
      PROVE  InputInv'
  <2>1. conn' = [conn EXCEPT ![c].life = "closing"]
    BY <1>3 DEF Close
  <2>2. /\ conn' \in [Viewers -> InputConnection]
        /\ \A d \in Viewers : conn'[d].pressedKeys = conn[d].pressedKeys
        /\ \A d \in Viewers : conn'[d].life = "none" => conn[d].life = "none"
    BY <1>1, <2>1 DEF InputTypeOK, InputConnection
  <2>3. NoneHoldsNothing'
    BY <1>1, <2>2 DEF NoneHoldsNothing
  <2> QED
    BY <1>1, <1>3, <2>2, <2>3, KeysAlone DEF Close, InputTypeOK
<1>4. ASSUME NEW c \in Viewers, NEW input \in BOOLEAN, SetStatus(c, input)
      PROVE  InputInv'
  <2>1. conn' = [conn EXCEPT ![c].input = input]
    BY <1>4 DEF SetStatus
  <2>2. /\ conn' \in [Viewers -> InputConnection]
        /\ \A d \in Viewers : conn'[d].pressedKeys = conn[d].pressedKeys
        /\ \A d \in Viewers : conn'[d].life = "none" => conn[d].life = "none"
    BY <1>1, <2>1 DEF InputTypeOK, InputConnection
  <2>3. NoneHoldsNothing'
    BY <1>1, <2>2 DEF NoneHoldsNothing
  <2> QED
    BY <1>1, <1>4, <2>2, <2>3, KeysAlone DEF SetStatus, InputTypeOK
<1>5. ASSUME NEW c \in Viewers, NEW mask \in Buttons, PointerEvent(c, mask)
      PROVE  InputInv'
  <2>1. conn' = conn /\ keyboard' = keyboard /\ buttonMask' = mask
        /\ pointerClient' \in Viewers \cup {NoViewer}
    BY <1>5 DEF PointerEvent
  <2>2. NoneHoldsNothing'
    BY <1>1, <2>1 DEF NoneHoldsNothing
  <2> QED
    BY <1>1, <2>1, <2>2, KeysAlone DEF InputTypeOK
<1>6. ASSUME UNCHANGED inputVars
      PROVE  InputInv'
  <2>1. NoneHoldsNothing'
    BY <1>1, <1>6 DEF NoneHoldsNothing, inputVars
  <2> QED
    BY <1>1, <1>6, <2>1, KeysAlone DEF inputVars, InputTypeOK
<1> QED
  BY <1>2, <1>3, <1>4, <1>5, <1>6, KeyDownInv, KeyUpInv, RemoveInv DEF InputNext

\* The invariant of any keyboard.
LEMMA InputInvariance == InputSpec => []InputInv
  BY InputInitInv, InputNextInv, PTL DEF InputSpec

(***************************************************************************)
(* The theorems.                                                           *)
(***************************************************************************)
\* Type correctness: keyboard, viewers and pointer keep their types on any
\* keyboard map and whatever is sent.
THEOREM InputTypeCorrect == InputSpec => []InputTypeOK
  <1>1. InputInv => InputTypeOK
    BY DEF InputInv
  <1> QED
    BY <1>1, InputInvariance, PTL

\* While a viewer drags, only it changes the buttons, and only with the right to
\* (VNCSConnectionST::pointerEvent and the server's pointerClient).
THEOREM DragStaysOwn == InputSpec => DragIsOwn
  <1>1. ASSUME [InputNext]_inputVars
        PROVE  [pointerClient # NoViewer
                 => /\ pointerClient' \in {pointerClient, NoViewer}
                    /\ buttonMask' # buttonMask => conn[pointerClient].input]_inputVars
    <2>1. ASSUME NEW c \in Viewers, NEW mask, PointerEvent(c, mask), pointerClient # NoViewer
          PROVE  pointerClient' \in {pointerClient, NoViewer} /\ conn[pointerClient].input
      BY <2>1 DEF PointerEvent
    <2>2. ASSUME buttonMask' = buttonMask, pointerClient' = pointerClient
          PROVE  pointerClient' \in {pointerClient, NoViewer}
      BY <2>2
    <2>3. ASSUME NEW c \in Viewers, Remove(c)
          PROVE  pointerClient' \in {pointerClient, NoViewer} /\ buttonMask' = buttonMask
      BY <2>3 DEF Remove
    <2> QED
      BY <1>1, <2>1, <2>2, <2>3
         DEF InputNext, Connect, Close, SetStatus, KeyDown, KeyUp, inputVars
  <1> QED
    BY <1>1, PTL DEF InputSpec, DragIsOwn

\* On any keyboard map: a key is noted only for a keysym that a viewer holds, and
\* no keysym for two keys (pressedKeys of Input.c and of VNCSConnectionST).
THEOREM OnlyHeldKeysNoted == InputSpec => []NotedAmong(keyboard, Holding)
  <1>1. InputInv => NotedAmong(keyboard, Holding)
    BY DEF InputInv
  <1> QED
    BY <1>1, InputInvariance, PTL

\* The keyboard stays regular, complete if it was, and with one key each if it was.
KeptInv ==
  /\ Kept(keyboard, Pressable)
  /\ Complete(FirstMap, Pressable) => Complete(keyboard.map, Pressable)
  /\ OneKeyEach(FirstMap, Pressable) => OneKeyEach(keyboard.map, Pressable)

\* What the server presses are keysyms; Shift_L is for ISO_Left_Tab.
LEMMA PressableKeysyms == Pressable \in SUBSET Keysyms /\ "Shift_L" \in Pressable
  <1>1. "Shift_L" \in Pressable
    BY DEF Pressable
  <1>2. ASSUME NEW x \in Pressable
        PROVE  x \in Keysyms
    <2>1. CASE x = "Shift_L"
      BY <2>1, KeysymAssumption
    <2>2. CASE x # "Shift_L"
      <3>1. PICK c \in Viewers : \E sym \in Sent[c] : x = Remapped(sym)
        BY <2>2 DEF Pressable
      <3> QED
        BY <3>1, SentKeysyms
    <2> QED
      BY <2>1, <2>2
  <1> QED
    BY <1>1, <1>2

\* The keyboard starts regular, with no key down.
LEMMA KeptInit == RegularKeyboard /\ InputInit => KeptInv
<1> SUFFICES ASSUME RegularKeyboard, InputInit
             PROVE  KeptInv
  OBVIOUS
<1> DEFINE held == [k \in Keycodes |-> NoSymbol]
<1>1. held \in [Keycodes -> Keysyms \cup {NoSymbol}] /\ \A k \in Keycodes : held[k] = NoSymbol
  OBVIOUS
<1>2. keyboard = [down |-> {}, held |-> held, map |-> FirstMap]
  BY DEF InputInit
<1> HIDE DEF held
<1>3. /\ keyboard \in Keyboards /\ keyboard.held = held
      /\ keyboard.down = {} /\ keyboard.map = FirstMap
  BY <1>1, <1>2, MapAssumption DEF Keyboards
<1>4. Kept(keyboard, Pressable)
  BY <1>1, <1>3 DEF Kept, RegularKeyboard
<1> QED
  BY <1>3, <1>4 DEF KeptInv

\* Whatever a viewer does, the keyboard stays regular.
LEMMA KeptNext == RegularKeyboard /\ KeptInv /\ InputInv /\ [InputNext]_inputVars => KeptInv'
<1> SUFFICES ASSUME RegularKeyboard, KeptInv, InputInv, [InputNext]_inputVars
             PROVE  KeptInv'
  OBVIOUS
<1> DEFINE Step(from, to) ==
      /\ Kept(to, Pressable) /\ (Complete(from.map, Pressable) => Complete(to.map, Pressable))
      /\ OneKeyEach(from.map, Pressable) => OneKeyEach(to.map, Pressable)
<1>1. ASSUME NEW kb, NEW sym \in Pressable, Kept(kb, Pressable)
      PROVE  Step(kb, PressKey(kb, sym))
  BY <1>1, PressKept, PressableKeysyms DEF RegularKeyboard
<1>2. ASSUME NEW kb, NEW up \in SUBSET Keysyms, Kept(kb, Pressable)
      PROVE  Step(kb, ReleaseKeys(kb, up))
  BY <1>2, ReleaseKept, PressableKeysyms
<1>3. ASSUME NEW kb, NEW shift, Kept(kb, Pressable)
      PROVE  Step(kb, WithShift(kb, shift)) /\ Step(kb, WithoutShift(kb, shift))
  <2>1. {"Shift_L"} \in SUBSET Keysyms
    BY KeysymAssumption
  <2> QED
    BY <1>1, <1>2, <1>3, <2>1, PressableKeysyms DEF WithShift, WithoutShift
<1>4. Kept(keyboard, Pressable)
  BY DEF KeptInv
<1>5. ASSUME Step(keyboard, keyboard')
      PROVE  KeptInv'
  BY <1>5 DEF KeptInv
<1>6. ASSUME NEW c \in Viewers, NEW sym \in Sent[c], KeyDown(c, sym)
      PROVE  KeptInv'
  <2> DEFINE pressed == WithShift(keyboard, NeedsShift(c, sym))
             typed == PressKey(pressed, Remapped(sym))
  <2>1. keyboard' = WithoutShift(typed, NeedsShift(c, sym))
    BY <1>6 DEF KeyDown
  <2>2. Step(keyboard, pressed)
    BY <1>3, <1>4
  <2> HIDE DEF pressed
  <2>3. Step(pressed, typed)
    BY <1>1, <2>2, SentKeysyms
  <2> HIDE DEF typed
  <2>4. Step(typed, keyboard')
    BY <1>3, <2>1, <2>3
  <2> QED
    BY <1>5, <2>2, <2>3, <2>4
<1>7. ASSUME NEW c \in Viewers, NEW sym \in Sent[c], KeyUp(c, sym)
      PROVE  KeptInv'
  <2> DEFINE pressed == WithShift(keyboard, NeedsShift(c, sym))
             up == {Remapped(sym)} \cap conn[c].pressedKeys
             released == ReleaseKeys(pressed, up)
  <2>1. keyboard' = WithoutShift(released, NeedsShift(c, sym))
    BY <1>7 DEF KeyUp
  <2>2. Step(keyboard, pressed)
    BY <1>3, <1>4
  <2>3. up \in SUBSET Keysyms
    BY SentKeysyms
  <2> HIDE DEF pressed, up
  <2>4. Step(pressed, released)
    BY <1>2, <2>2, <2>3
  <2> HIDE DEF released
  <2>5. Step(released, keyboard')
    BY <1>3, <2>1, <2>4
  <2> QED
    BY <1>5, <2>2, <2>4, <2>5
<1>8. ASSUME NEW c \in Viewers, Remove(c)
      PROVE  KeptInv'
  <2>1. keyboard' = ReleaseKeys(keyboard, conn[c].pressedKeys)
    BY <1>8 DEF Remove
  <2>2. conn[c].pressedKeys \in SUBSET Keysyms
    BY DEF InputInv, InputTypeOK, InputConnection
  <2> QED
    BY <1>2, <1>4, <1>5, <2>1, <2>2
<1>9. ASSUME keyboard' = keyboard
      PROVE  KeptInv'
  BY <1>9 DEF KeptInv
<1> QED
  BY <1>6, <1>7, <1>8, <1>9
     DEF InputNext, Connect, Close, SetStatus, PointerEvent, inputVars

\* The invariant of a regular keyboard.
LEMMA KeptInvariance ==
  ASSUME RegularKeyboard
  PROVE  InputSpec => [](InputInv /\ KeptInv)
<1>1. InputInit => KeptInv
  BY KeptInit
<1>2. KeptInv /\ InputInv /\ [InputNext]_inputVars => KeptInv'
  BY KeptNext
<1> QED
  BY <1>1, <1>2, InputInvariance, PTL DEF InputSpec

\* On a regular keyboard no key is lost, and none is stuck but those that a keysym
\* takes by turns: the others that are down are noted, one for each keysym, and whoever
\* holds them is there.
THEOREM NothingIsStuck ==
  ASSUME RegularKeyboard
  PROVE  InputSpec => []NothingStuck
<1>1. ASSUME InputInv, KeptInv
      PROVE  NothingStuck
  <2>1. keyboard.down \in SUBSET Keycodes
    BY <1>1 DEF InputInv, InputTypeOK, Keyboards
  <2>2. Noted \subseteq keyboard.down
    BY <1>1 DEF KeptInv, Kept, Noted
  <2>3. \A k \in keyboard.down \ Noted : TakesTurns(keyboard.map, Pressable, k)
    BY <1>1, <2>1 DEF KeptInv, Kept, Noted
  <2>4. \A k \in Noted : \E c \in Viewers : keyboard.held[k] \in conn[c].pressedKeys
    BY <1>1 DEF InputInv, NotedAmong, Holding, Noted
  <2>5. \A j, k \in Noted : keyboard.held[j] = keyboard.held[k] => j = k
    BY <1>1 DEF InputInv, NotedAmong, Noted
  <2> QED
    BY <2>2, <2>3, <2>4, <2>5 DEF NothingStuck
<1> QED
  BY <1>1, KeptInvariance, PTL

\* Without AvoidShiftNumLock, and with one key for each keysym, a release matches its
\* press: no key is down that the release of the keysym it was pressed for would not
\* find.
THEOREM ReleasesMatchPresses ==
  ASSUME RegularKeyboard, OneKeyEach(FirstMap, Pressable), ~AvoidShiftNumLock
  PROVE  InputSpec => []ReleasesMatch
<1>1. ASSUME InputInv, KeptInv
      PROVE  ReleasesMatch
  <2>1. keyboard.down \in SUBSET Keycodes
    BY <1>1 DEF InputInv, InputTypeOK, Keyboards
  <2>2. OneKeyEach(keyboard.map, Pressable)
    BY <1>1 DEF KeptInv
  <2>3. ASSUME NEW k \in Keycodes, TakesTurns(keyboard.map, Pressable, k)
        PROVE  FALSE
    <3>1. PICK sym \in Pressable :
            /\ MayUse(keyboard.map, sym, k)
            /\ \E j \in Keycodes \ {k} : MayUse(keyboard.map, sym, j)
      BY <2>3 DEF TakesTurns
    <3>2. PICK j \in Keycodes \ {k} : MayUse(keyboard.map, sym, j)
      BY <3>1
    <3>3. UsedFor(keyboard.map, sym, k) /\ UsedFor(keyboard.map, sym, j)
      BY <3>1, <3>2 DEF MayUse
    <3> QED
      BY <2>2, <3>2, <3>3 DEF OneKeyEach
  <2> QED
    BY <1>1, <2>1, <2>3 DEF KeptInv, Kept, Noted, ReleasesMatch
<1> QED
  BY <1>1, KeptInvariance, PTL

\* On a regular keyboard on which everything can be typed, the next key that any
\* viewer presses types what it sends, whatever keys and modifiers are held.
THEOREM TypesWhatIsSent ==
  ASSUME RegularKeyboard, CompleteKeyboard
  PROVE  InputSpec => []TypedAsSent
<1>1. ASSUME KeptInv
      PROVE  TypedAsSent
  <2> SUFFICES ASSUME NEW c \in Viewers, NEW sym \in Sent[c]
               PROVE  Types(WithShift(keyboard, NeedsShift(c, sym)), Remapped(sym))
    BY DEF TypedAsSent
  <2> DEFINE kb == WithShift(keyboard, NeedsShift(c, sym))
  <2>1. Kept(keyboard, Pressable) /\ Complete(keyboard.map, Pressable)
    BY <1>1 DEF KeptInv, CompleteKeyboard
  <2>2. Kept(kb, Pressable) /\ Complete(kb.map, Pressable)
    BY <2>1, PressKept, PressableKeysyms DEF WithShift, RegularKeyboard
  <2> HIDE DEF kb
  <2>3. Types(kb, Remapped(sym))
    BY <2>2, TypesIt, SentKeysyms, PressableKeysyms DEF RegularKeyboard, CompleteKeyboard
  <2> QED
    BY <2>3 DEF kb
<1> QED
  BY <1>1, KeptInvariance, PTL
=============================================================================
