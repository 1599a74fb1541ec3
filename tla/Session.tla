------------------------------ MODULE Session ------------------------------
(***************************************************************************)
(* The life of a connection in the server: SConnection's handshake,        *)
(* VNCSConnectionST's checks around it, VNCServerST's list of clients with *)
(* the blacklist and the starting and stopping of the desktop, and the     *)
(* query of the local user in XserverDesktop.                              *)
(*                                                                         *)
(* A socket is named by the address of its Socket object: a new connection *)
(* can have the address of one that is gone, and approveConnection only    *)
(* has the address to find the connection by.                              *)
(*                                                                         *)
(* The security types are reduced to their outcome; what is read and       *)
(* written in the handshake to the state it leads to.                      *)
(***************************************************************************)
EXTENDS Naturals

CONSTANTS Sockets,
          NoSocket,
          Hosts,
          Threshold,          \* BlacklistThreshold
          Settings,           \* the parameters that the server may be started with
          StartMayFail        \* SDesktop::start may throw

ASSUME SocketAssumption == NoSocket \notin Sockets
ASSUME ThresholdAssumption == Threshold \in Nat \ {0}
ASSUME ParameterAssumption ==
  /\ Settings \subseteq [AlwaysShared : BOOLEAN, NeverShared : BOOLEAN,
                         DisconnectClients : BOOLEAN, QueryConnect : BOOLEAN]
  /\ StartMayFail \in BOOLEAN

VARIABLES session,         \* socket -> its connection
          desktopStarted,
          querySocket,     \* queryConnectId and queryConnectSocket
          dialog,          \* the socket vncconfig shows its dialog for
          listening,       \* vncconfig is running
          blacklist,       \* host -> its entry
          settings         \* AlwaysShared, NeverShared, DisconnectClients, QueryConnect

vars == <<session, desktopStarted, querySocket, dialog, listening, blacklist, settings>>

\* The states of SConnection, and two of the socket: "none" for one that does
\* not exist, "refused" for one in closingSockets.
States == {"none", "refused", "PROTOCOL_VERSION", "SECURITY_TYPE", "SECURITY",
           "QUERYING", "INITIALISATION", "NORMAL", "CLOSING"}

Connection == [state : States, host : Hosts, reverse : BOOLEAN,
               nonShared : BOOLEAN,      \* has AccessNonShared
               queryTimer : BOOLEAN]     \* queryConnectTimer is running

\* marks = 0 stands for no entry; barred until blockUntil.
Entry == [marks : 0 .. Threshold, barred : BOOLEAN]

TypeOK ==
  /\ session \in [Sockets -> Connection]
  /\ desktopStarted \in BOOLEAN
  /\ querySocket \in Sockets \cup {NoSocket}
  /\ dialog \in Sockets \cup {NoSocket}
  /\ listening \in BOOLEAN
  /\ blacklist \in [Hosts -> Entry]
  /\ settings \in Settings

NoConnection(h) == [state |-> "none", host |-> h, reverse |-> FALSE,
                    nonShared |-> TRUE, queryTimer |-> FALSE]

Init ==
  /\ \E h \in Hosts : session = [c \in Sockets |-> NoConnection(h)]
  /\ desktopStarted = FALSE
  /\ querySocket = NoSocket
  /\ dialog = NoSocket
  /\ listening \in BOOLEAN
  /\ blacklist = [h \in Hosts |-> [marks |-> 0, barred |-> FALSE]]
  /\ settings \in Settings

IsClient(c) == session[c].state \notin {"none", "refused"}
Clients == {c \in Sockets : IsClient(c)}
Open(c) == IsClient(c) /\ session[c].state # "CLOSING"

Authenticated(k) == k.state \in {"INITIALISATION", "NORMAL"}
AuthClients == {c \in Sockets : Authenticated(session[c])}

\* close(): the socket is shut down, removeSocket comes later.
Closed(k) == [k EXCEPT !.state = "CLOSING"]
-----------------------------------------------------------------------------
(***************************************************************************)
(* Accepting a socket                                                      *)
(***************************************************************************)
Marked(e) == IF e.marks = 0 THEN [e EXCEPT !.marks = 1] ELSE e

\* isBlackmarked(): TRUE only while the host is barred.  At the threshold one
\* more attempt passes each time blockUntil is over.
IsBlackmarked(e) == Marked(e).marks >= Threshold /\ e.barred

Checked(e) ==
  IF Marked(e).marks >= Threshold THEN [Marked(e) EXCEPT !.barred = TRUE]
  ELSE [Marked(e) EXCEPT !.marks = @ + 1]

AddSocket(c, h, reverse) ==
  /\ session[c].state = "none"
  /\ blacklist' = [blacklist EXCEPT ![h] = Checked(@)]
  /\ session' = [session EXCEPT ![c] =
       [NoConnection(h) EXCEPT
          !.state = IF IsBlackmarked(blacklist[h]) THEN "refused"
                    ELSE "PROTOCOL_VERSION",
          !.reverse = reverse]]
  /\ UNCHANGED <<desktopStarted, querySocket, dialog, listening, settings>>

BanExpires(h) ==
  /\ blacklist[h].barred
  /\ blacklist' = [blacklist EXCEPT ![h].barred = FALSE]
  /\ UNCHANGED <<session, desktopStarted, querySocket, dialog, listening, settings>>
-----------------------------------------------------------------------------
(***************************************************************************)
(* The handshake                                                           *)
(***************************************************************************)
\* A 3.3 client is given its security type at once.
VersionMsg(c) ==
  /\ session[c].state = "PROTOCOL_VERSION"
  /\ \E next \in {"SECURITY_TYPE", "SECURITY"} :
       session' = [session EXCEPT ![c].state = next]
  /\ UNCHANGED <<desktopStarted, querySocket, dialog, listening, blacklist, settings>>

SecurityTypeMsg(c) ==
  /\ session[c].state = "SECURITY_TYPE"
  /\ session' = [session EXCEPT ![c].state = "SECURITY"]
  /\ UNCHANGED <<desktopStarted, querySocket, dialog, listening, blacklist, settings>>

\* approveConnection(true) and authSuccess, for a connection that was k: the
\* desktop is started unless it runs; should that fail the connection closes.
Accept(c, k) ==
  \E started \in IF StartMayFail THEN {desktopStarted, TRUE} ELSE {TRUE} :
     /\ desktopStarted' = started
     /\ session' = [session EXCEPT ![c] =
          IF started THEN [k EXCEPT !.state = "INITIALISATION"] ELSE Closed(k)]

\* approveConnection(false) always ends in close(), through the exception.
Reject(c) ==
  /\ session' = [session EXCEPT ![c] = Closed(@)]
  /\ UNCHANGED desktopStarted

\* Mutant: a second query takes the place of the first.
AskUser_Overwrites(c, k) ==
  /\ querySocket' = c
  /\ IF listening
     THEN /\ dialog' = c
          /\ session' = [session EXCEPT ![c] =
               [k EXCEPT !.state = "QUERYING", !.queryTimer = TRUE]]
          /\ UNCHANGED desktopStarted
     ELSE /\ Reject(c)
          /\ UNCHANGED dialog

\* XserverDesktop::queryConnection, and what its result leads to.
AskUser(c, k) ==
  IF querySocket # NoSocket
  THEN /\ Reject(c)
       /\ UNCHANGED <<querySocket, dialog>>
  ELSE /\ querySocket' = c
       /\ IF listening
          THEN /\ dialog' = c
               /\ session' = [session EXCEPT ![c] =
                    [k EXCEPT !.state = "QUERYING", !.queryTimer = TRUE]]
               /\ UNCHANGED desktopStarted
          ELSE /\ Reject(c)
               /\ UNCHANGED dialog

\* The security type is done: VNCSConnectionST::queryConnection, and
\* setAccessRights with the rights of who authenticated.  (The bypass for
\* AccessNoQuery is checked before the rights are set, against AccessDefault,
\* which does not have it.)
SecurityDone(c) ==
  /\ session[c].state = "SECURITY"
  /\ blacklist' = [blacklist EXCEPT ![session[c].host] =
                     [marks |-> 0, barred |-> FALSE]]
  /\ \E nonShared \in BOOLEAN :
       LET k == [session[c] EXCEPT !.nonShared = nonShared]
       IN IF settings.NeverShared /\ ~settings.DisconnectClients /\ AuthClients # {}
          THEN Reject(c) /\ UNCHANGED <<querySocket, dialog>>
          ELSE IF session[c].reverse \/ ~settings.QueryConnect
          THEN Accept(c, k) /\ UNCHANGED <<querySocket, dialog>>
          ELSE AskUser(c, k)
  /\ UNCHANGED <<listening, settings>>

\* clientInit's shared, after the parameters and the rights.
Shared(k, wantsShared) ==
  /\ ~settings.NeverShared
  /\ settings.AlwaysShared \/ k.reverse \/ ~k.nonShared \/ wantsShared

CloseOthers(c) ==
  [d \in Sockets |-> IF d # c /\ IsClient(d) THEN Closed(session[d]) ELSE session[d]]

\* Mutant: who may not close the others is let in beside them.
ClientInit_NeverRefuses(c, wantsShared) ==
  /\ session[c].state = "INITIALISATION"
  /\ \/ /\ ~Shared(session[c], wantsShared)
        /\ settings.DisconnectClients /\ session[c].nonShared
        /\ session' = [CloseOthers(c) EXCEPT ![c].state = "NORMAL"]
     \/ session' = [session EXCEPT ![c].state = "NORMAL"]
  /\ UNCHANGED <<desktopStarted, querySocket, dialog, listening, blacklist, settings>>

\* clientInit.  A connection that may not share closes all others (closeClients
\* does not ask how far they are) or closes itself.
ClientInit(c, wantsShared) ==
  /\ session[c].state = "INITIALISATION"
  /\ \/ /\ Shared(session[c], wantsShared)
        /\ session' = [session EXCEPT ![c].state = "NORMAL"]
     \/ /\ ~Shared(session[c], wantsShared)
        /\ settings.DisconnectClients /\ session[c].nonShared
        /\ session' = [CloseOthers(c) EXCEPT ![c].state = "NORMAL"]
     \/ /\ ~Shared(session[c], wantsShared)
        /\ ~(settings.DisconnectClients /\ session[c].nonShared)
        /\ session' = [session EXCEPT ![c].state =
                         IF AuthClients = {c} THEN "NORMAL" ELSE "CLOSING"]
  /\ UNCHANGED <<desktopStarted, querySocket, dialog, listening, blacklist, settings>>

\* Anything that ends a connection: end of stream, a protocol error, failed
\* authentication, data while it is queried, the idle timeout.
Drop(c) ==
  /\ Open(c)
  /\ session' = [session EXCEPT ![c] = Closed(@)]
  /\ UNCHANGED <<desktopStarted, querySocket, dialog, listening, blacklist, settings>>
-----------------------------------------------------------------------------
(***************************************************************************)
(* The local user                                                          *)
(***************************************************************************)
\* Mutant: when nobody answered, the connection is let in.
QueryTimeout_LetsIn(c) ==
  /\ session[c].queryTimer
  /\ IF session[c].state = "QUERYING"
     THEN Accept(c, [session[c] EXCEPT !.queryTimer = FALSE])
     ELSE /\ session' = [session EXCEPT ![c].queryTimer = FALSE]
          /\ UNCHANGED desktopStarted
  /\ UNCHANGED <<querySocket, dialog, listening, blacklist, settings>>

QueryTimeout(c) ==
  /\ session[c].queryTimer
  /\ session' = [session EXCEPT ![c].queryTimer = FALSE,
                                ![c].state = IF @ = "QUERYING" THEN "CLOSING" ELSE @]
  /\ UNCHANGED <<desktopStarted, querySocket, dialog, listening, blacklist, settings>>

\* vncconfig's dialog is answered, or its own countdown is over.  The address
\* may belong to a connection that is not being queried: then approveConnection
\* throws, and that connection is closed.
AnswerQuery(accept) ==
  /\ dialog # NoSocket
  /\ IF dialog = querySocket /\ IsClient(dialog)
     THEN IF accept /\ session[dialog].state = "QUERYING"
          THEN Accept(dialog, session[dialog])
          ELSE Reject(dialog)
     ELSE UNCHANGED <<session, desktopStarted>>
  /\ querySocket' = IF dialog = querySocket THEN NoSocket ELSE querySocket
  /\ dialog' = NoSocket
  /\ UNCHANGED <<listening, blacklist, settings>>

\* vncconfig starts, or exits and takes its dialog with it.
StartListening == /\ ~listening
                  /\ listening' = TRUE
                  /\ UNCHANGED <<session, desktopStarted, querySocket, dialog, blacklist, settings>>

StopListening == /\ listening
                 /\ listening' = FALSE
                 /\ dialog' = NoSocket
                 /\ UNCHANGED <<session, desktopStarted, querySocket, blacklist, settings>>
-----------------------------------------------------------------------------
(***************************************************************************)
(* Closing                                                                 *)
(***************************************************************************)
\* closeClients from the desktop (vncconfig -disconnect).
DisconnectAll ==
  /\ session' = [c \in Sockets |-> IF IsClient(c) THEN Closed(session[c])
                                   ELSE session[c]]
  /\ UNCHANGED <<desktopStarted, querySocket, dialog, listening, blacklist, settings>>

\* Mutant: only an authenticated connection can be the last one.
RemoveSocket_LeavesDesktop(c) ==
  /\ session[c].state \in {"CLOSING", "refused"}
  /\ session' = [session EXCEPT ![c] = NoConnection(@.host)]
  /\ desktopStarted' = (desktopStarted /\ Clients # {c})
  /\ UNCHANGED <<querySocket, dialog, listening, blacklist, settings>>

\* Mutant: the other clients are not looked at.
RemoveSocket_AlwaysStops(c) ==
  /\ session[c].state \in {"CLOSING", "refused"}
  /\ session' = [session EXCEPT ![c] = NoConnection(@.host)]
  /\ desktopStarted' = (desktopStarted /\ session[c].state = "refused")
  /\ UNCHANGED <<querySocket, dialog, listening, blacklist, settings>>

\* The block handler finds the socket shut down.  Without authenticated clients
\* the desktop is stopped; a refused socket has no client to look at.
RemoveSocket(c) ==
  /\ session[c].state \in {"CLOSING", "refused"}
  /\ session' = [session EXCEPT ![c] = NoConnection(@.host)]
  /\ desktopStarted' =
       (desktopStarted /\ (session[c].state = "refused" \/ AuthClients # {}))
  /\ UNCHANGED <<querySocket, dialog, listening, blacklist, settings>>

Handshake(c) == \/ VersionMsg(c) \/ SecurityTypeMsg(c) \/ SecurityDone(c)
                \/ \E wantsShared \in BOOLEAN : ClientInit(c, wantsShared)

Next ==
  \/ \E c \in Sockets :
       \/ \E h \in Hosts, reverse \in BOOLEAN : AddSocket(c, h, reverse)
       \/ Handshake(c) \/ Drop(c) \/ QueryTimeout(c) \/ RemoveSocket(c)
  \/ \E accept \in BOOLEAN : AnswerQuery(accept)
  \/ StartListening \/ StopListening \/ DisconnectAll
  \/ \E h \in Hosts : BanExpires(h)

Spec == Init /\ [][Next]_vars

\* The X server's main loop: timers are checked and closed sockets removed in
\* every round.
Fairness == \A c \in Sockets : WF_vars(QueryTimeout(c)) /\ WF_vars(RemoveSocket(c))

FairSpec == Spec /\ Fairness
-----------------------------------------------------------------------------
(***************************************************************************)
(* Properties                                                              *)
(***************************************************************************)
\* With NeverShared at most one viewer is in its session, however many
\* handshakes and queries go on at the same time and whoever of them the local
\* user lets in.
OneViewer ==
  settings.NeverShared => \A c, d \in Sockets :
                    session[c].state = "NORMAL" /\ session[d].state = "NORMAL" => c = d

\* SDesktop.h: start() comes before any client is authenticated, stop() when
\* there are none any more; a server without clients never leaves it running.
DesktopFollowsClients ==
  /\ AuthClients # {} => desktopStarted
  /\ Clients = {} => ~desktopStarted

\* Whoever is queried is the one the answer will be for, and is not queried for
\* ever: the slot is its own, and its timer is running.
QueriedHasSlot ==
  \A c \in Sockets :
     session[c].state = "QUERYING" => querySocket = c /\ session[c].queryTimer

\* With QueryConnect nobody but a reverse connection is let in without the
\* local user's answer to the dialog for this socket.
UserDecides ==
  [][\A c \in Sockets :
       /\ settings.QueryConnect /\ ~session[c].reverse
       /\ ~Authenticated(session[c]) /\ Authenticated(session'[c])
       => /\ session[c].state = "QUERYING"
          /\ dialog = c /\ dialog' = NoSocket]_vars

\* When the last authenticated client is gone the desktop stops, unless another
\* one arrives first, even if there are connections in the handshake that never
\* get any further.
DesktopStops ==
  desktopStarted /\ AuthClients = {} ~> ~desktopStarted \/ AuthClients # {}
=============================================================================
