----------------------------- MODULE Handshake -----------------------------
(***************************************************************************)
(* From the first byte to ServerInit: the viewer's CConnection with its    *)
(* CSecurity objects (cc) and the server's SConnection with its SSecurity  *)
(* objects (sc).  They agree on a version, on a security type and, as both *)
(* always offer VeNCrypt first, on a type within it.  A type is a stack: it*)
(* may encrypt, and then both sides replace their streams, and it may ask  *)
(* for a password or a login.  The server may then ask its local user.     *)
(* Neither side says what a message is: each reads what it waits for.      *)
(*                                                                         *)
(* The server reads what has arrived; the viewer waits inside of a handler *)
(* for what must come next.  Messages that are written in one piece are    *)
(* one message here, a TLS handshake its four flights; that it may fail    *)
(* itself, and that a connection may break, is left out.                   *)
(***************************************************************************)
EXTENDS Naturals, Sequences, FiniteSets, SequencesExt

CONSTANTS ServerTypes,  \* what SecurityTypes of the server may be
          ViewerTypes   \* what SecurityTypes of the viewer may be

VeNCryptType == {"Plain", "TLSNone", "TLSVnc", "TLSPlain",
                 "X509None", "X509Vnc", "X509Plain"}
SecType == {"None", "VncAuth"} \cup VeNCryptType

\* A server without any type refuses everyone.
ASSUME TypesAssumption == ServerTypes \cup ViewerTypes \subseteq Seq(SecType) \ {<<>>}

VARIABLES setting,     \* how both programs were started, and what the user knows
          cc, sc,
          fromServer,  \* what the viewer has not read
          fromViewer   \* what the server has not read

shakeVars == <<setting, cc, sc, fromServer, fromViewer>>

\* Protocol3.3 makes the server offer version 3.3 instead of 3.8.
Settings ==
  [version : {3, 8},
   blackmarked : BOOLEAN,                  \* too many failures from this host
   serverTypes : ServerTypes, viewerTypes : ViewerTypes,
   knows : {"full", "view", "nothing"},    \* whose password the user types
   query : {"nobody", "refuses", "asks"}]  \* what queryConnection comes to

\* What a security object waits for.
Awaited == {"", "VeNCryptVersion", "SubTypes", "SubType", "TLSReady", "ClientHello",
            "ServerHello", "ClientFinished", "ServerFinished",
            "Challenge", "Response", "Login"}

CC == [state : {"version", "types", "security", "result", "init", "normal", "closed"},
       version : {3, 8}, type : SecType \cup {"VeNCrypt"}, waits : Awaited,
       tls : BOOLEAN]                      \* the streams are TLS streams

SC == [state : {"version", "type", "security", "querying", "init", "normal", "closed"},
       version : {3, 8}, type : SecType \cup {"VeNCrypt"}, waits : Awaited,
       tls : BOOLEAN, rights : SUBSET {"view", "control"}]

HandshakeTypeOK == setting \in Settings /\ cc \in CC /\ sc \in SC

Default == {"view", "control"}

\* A message, and the stream it was written to.
Message(type, value, tls) == [type |-> type, value |-> value, tls |-> tls]

\* The two sides before anything is read.
NewCC == [state |-> "version", version |-> 8, type |-> "None", waits |-> "", tls |-> FALSE]
NewSC(s) == [state |-> IF s.blackmarked THEN "closed" ELSE "version",
             version |-> s.version, type |-> "None", waits |-> "", tls |-> FALSE,
             rights |-> Default]

\* initialiseProtocol, or writeConnFailedFromScratch.
FirstWords(s) ==
  IF s.blackmarked
  THEN <<Message("Version", 3, FALSE), Message("Refused", "", FALSE)>>
  ELSE <<Message("Version", s.version, FALSE)>>

HandshakeInit ==
  \E s \in Settings :
    /\ setting = s
    /\ cc = NewCC /\ sc = NewSC(s)
    /\ fromServer = FirstWords(s) /\ fromViewer = <<>>
-----------------------------------------------------------------------------
(***************************************************************************)
(* Security types                                                          *)
(***************************************************************************)
Encryption(type) ==
  CASE type \in {"TLSNone", "TLSVnc", "TLSPlain"} -> "anonymous"
    [] type \in {"X509None", "X509Vnc", "X509Plain"} -> "certificate"
    [] OTHER -> "none"

Credential(type) ==
  CASE type \in {"VncAuth", "TLSVnc", "X509Vnc"} -> "password"
    [] type \in {"Plain", "TLSPlain", "X509Plain"} -> "login"
    [] OTHER -> "none"

\* GetEnabledSecTypes: VeNCrypt before all others.  The types that are numbered from
\* 256, which the code leaves out of this list, keep their places here, and nobody
\* takes them from it.
EnabledSecTypes(types) == <<"VeNCrypt">> \o types
LegacyTypes == {"None", "VncAuth"}
KnownTypes(types) == Range(EnabledSecTypes(types)) \cap ({"VeNCrypt"} \cup LegacyTypes)

\* The first of those in offered that are in known.
FirstOf(offered, known) ==
  LET places == {i \in DOMAIN offered : offered[i] \in known}
  IN offered[CHOOSE i \in places : \A j \in places : i <= j]

\* A side after what it has done, and what it has written: [c |-> side, out |-> messages].
Begun(c) == [c |-> c, out |-> <<>>]
Wrote(st, type, value) == [st EXCEPT !.out = Append(@, Message(type, value, st.c.tls))]
Awaits(st, message) == [st EXCEPT !.c.state = "security", !.c.waits = message]
Ended(st) == [st EXCEPT !.c.state = "closed"]

\* Before 3.8 nothing is said of the result where there was nothing to fail.
HasResult(c) == ~(c.version < 8 /\ c.type = "None")
-----------------------------------------------------------------------------
(***************************************************************************)
(* The viewer.  An operator that goes through the handlers returns the set *)
(* of what may come of it: the user may cancel.                            *)
(***************************************************************************)
\* securityCompleted
SecurityCompleted(st) == Wrote([st EXCEPT !.c.state = "init"], "ClientInit", "")

\* The last layer of the type is done.
LayersPassed(st) ==
  IF HasResult(st.c) THEN [st EXCEPT !.c.state = "result"] ELSE SecurityCompleted(st)

\* The layer that identifies the user: CSecurityVncAuth waits for the challenge,
\* CSecurityPlain sends what the user types, or the user cancels.
Identify(st) ==
  CASE Credential(st.c.type) = "none" -> {LayersPassed(st)}
    [] Credential(st.c.type) = "password" -> {Awaits(st, "Challenge")}
    [] Credential(st.c.type) = "login" ->
         {LayersPassed(Wrote(st, "Login", setting.knows)), Ended(st)}

\* The first call of processMsg of the object for a type.
StartSecurity(st, type) ==
  LET typed == [st EXCEPT !.c.type = type]
  IN CASE type = "VeNCrypt" -> {Awaits(typed, "VeNCryptVersion")}
       [] type # "VeNCrypt" /\ Encryption(type) # "none" -> {Awaits(typed, "TLSReady")}
       [] type # "VeNCrypt" /\ Encryption(type) = "none" -> Identify(typed)

ViewerVersion(m) ==
  LET version == IF m.value < 7 THEN 3 ELSE 8
  IN {Wrote(Begun([cc EXCEPT !.state = "types", !.version = version]), "Version", version)}

\* A 3.3 server has chosen; a later one gives its list.
ViewerTypesOffered(m) ==
  LET known == KnownTypes(setting.viewerTypes)
      chosen == FirstOf(m.value, known)
  IN IF m.type = "Refused" \/ Range(m.value) \cap known = {} THEN {Ended(Begun(cc))}
     ELSE IF m.type = "Chosen" THEN StartSecurity(Begun(cc), chosen)
     ELSE StartSecurity(Wrote(Begun(cc), "Type", chosen), chosen)

ViewerSubTypes(m) ==
  LET known == Range(setting.viewerTypes)
      chosen == FirstOf(m.value, known)
  IN IF Range(m.value) \cap known = {} THEN {Ended(Begun(cc))}
     ELSE StartSecurity(Wrote(Begun(cc), "SubType", chosen), chosen)

\* Mutant: the new streams are not put in place of the old ones.
ViewerTLSDone_OldStreams ==
  (IF Encryption(cc.type) = "certificate" THEN {Ended(Begun(cc))} ELSE {})
  \cup Identify(Begun(cc))

\* checkSession: a certificate may be refused, by its contents or by the user.
ViewerTLSDone ==
  (IF Encryption(cc.type) = "certificate" THEN {Ended(Begun(cc))} ELSE {})
  \cup Identify(Begun([cc EXCEPT !.tls = TRUE]))

\* CSecurityTLS: the server says whether it is ready, and the two shake hands.
ViewerTLS(m) ==
  CASE m.type = "TLSReady" ->
         {IF m.value THEN Awaits(Wrote(Begun(cc), "ClientHello", ""), "ServerHello")
          ELSE Ended(Begun(cc))}
    [] m.type = "ServerHello" ->
         {Awaits(Wrote(Begun(cc), "ClientFinished", ""), "ServerFinished")}
    [] m.type = "ServerFinished" -> ViewerTLSDone

\* CSecurityVncAuth: the user types a password, or cancels.
ViewerResponds ==
  {LayersPassed(Wrote(Begun(cc), "Response", setting.knows)), Ended(Begun(cc))}

ViewerSecurity(m) ==
  CASE m.type = "VeNCryptVersion" ->
         {Awaits(Wrote(Begun(cc), "VeNCryptVersion", ""), "SubTypes")}
    [] m.type = "SubTypes" -> ViewerSubTypes(m)
    [] m.type \in {"TLSReady", "ServerHello", "ServerFinished"} -> ViewerTLS(m)
    [] m.type = "Challenge" -> ViewerResponds

\* What the viewer takes the next message for.
ViewerAwaits(c) ==
  CASE c.state = "version" -> {"Version"}
    [] c.state = "types" -> {"Refused", IF c.version < 7 THEN "Chosen" ELSE "Types"}
    [] c.state = "security" -> {c.waits}
    [] c.state = "result" -> {"Result"}
    [] c.state = "init" -> {"ServerInit"}
    [] OTHER -> {}

\* What it reads, and takes for what it is.
ViewerTakes(types) ==
  /\ fromServer # <<>>
  /\ Head(fromServer).type \in types \cap ViewerAwaits(cc)
  /\ fromServer' = Tail(fromServer)
  /\ UNCHANGED <<setting, sc>>

\* Makes one of the results the viewer's next state.
ViewerIs(sts) == \E st \in sts : /\ cc' = st.c
                                 /\ fromViewer' = fromViewer \o st.out

ViewerReadsVersion == /\ ViewerTakes({"Version"})
                      /\ ViewerIs(ViewerVersion(Head(fromServer)))

ViewerReadsTypes == /\ ViewerTakes({"Refused", "Chosen", "Types"})
                    /\ ViewerIs(ViewerTypesOffered(Head(fromServer)))

ViewerReadsSecurity == /\ cc.state = "security"
                       /\ ViewerTakes({cc.waits})
                       /\ ViewerIs(ViewerSecurity(Head(fromServer)))

ViewerReadsResult ==
  /\ ViewerTakes({"Result"})
  /\ ViewerIs({IF Head(fromServer).value THEN SecurityCompleted(Begun(cc)) ELSE Ended(Begun(cc))})

\* Where the viewer expects no result it takes it for the size in ServerInit, and
\* waits for the rest.
ViewerMisreadsResult ==
  /\ cc.state = "init"
  /\ fromServer # <<>> /\ Head(fromServer).type = "Result"
  /\ fromServer' = Tail(fromServer)
  /\ UNCHANGED <<setting, cc, sc, fromViewer>>

ViewerSeesEnd ==
  /\ cc.state # "closed" /\ sc.state = "closed" /\ fromServer = <<>>
  /\ cc' = [cc EXCEPT !.state = "closed"]
  /\ UNCHANGED <<setting, sc, fromServer, fromViewer>>
-----------------------------------------------------------------------------
(***************************************************************************)
(* The server                                                              *)
(***************************************************************************)
\* The end of processSecurityMsg for an AuthFailureException.
AuthFailed(st) == Ended(Wrote(st, "Result", FALSE))

\* approveConnection
Approve(st) ==
  [(IF HasResult(st.c) THEN Wrote(st, "Result", TRUE) ELSE st) EXCEPT !.c.state = "init"]
Disapprove(st) == Ended(IF HasResult(st.c) THEN Wrote(st, "Result", FALSE) ELSE st)

\* The last layer is done: queryConnection, and then setAccessRights.  The exception
\* of a refusal that is not left to a user passes through processSecurityMsg, which
\* tells the result again.
Query(st, rights) ==
  LET passed == [st EXCEPT !.c.rights = rights]
  IN CASE setting.query = "nobody" -> Approve(passed)
       [] setting.query = "refuses" -> AuthFailed(Disapprove(st))
       [] setting.query = "asks" -> [passed EXCEPT !.c.state = "querying"]

\* Mutant: the stack is done when its first layer is.
Challenge_Skipped(st) ==
  CASE Credential(st.c.type) = "none" \/ st.c.tls -> Query(st, Default)
    [] Credential(st.c.type) = "password" /\ ~st.c.tls ->
         Awaits(Wrote(st, "Challenge", ""), "Response")
    [] Credential(st.c.type) = "login" /\ ~st.c.tls -> Awaits(st, "Login")

\* The layer that identifies the user.
Challenge(st) ==
  CASE Credential(st.c.type) = "none" -> Query(st, Default)
    [] Credential(st.c.type) = "password" -> Awaits(Wrote(st, "Challenge", ""), "Response")
    [] Credential(st.c.type) = "login" -> Awaits(st, "Login")

\* The first call of processMsg of the object for a type.  Certificate and key of
\* the server may fail to load.
ServeSecurity(st, type) ==
  LET typed == [st EXCEPT !.c.type = type]
  IN CASE type = "VeNCrypt" -> {Awaits(Wrote(typed, "VeNCryptVersion", ""), "VeNCryptVersion")}
       [] type # "VeNCrypt" /\ Encryption(type) = "none" -> {Challenge(typed)}
       [] type # "VeNCrypt" /\ Encryption(type) # "none" ->
            {Awaits(Wrote(typed, "TLSReady", TRUE), "ClientHello")}
            \cup IF Encryption(type) = "certificate"
                 THEN {AuthFailed(Wrote(typed, "TLSReady", FALSE))} ELSE {}

\* A 3.3 viewer is given the first type it can know, others the list.
ServerVersion(m) ==
  LET st == Begun([sc EXCEPT !.version = m.value, !.state = "type"])
      offered == EnabledSecTypes(setting.serverTypes)
      legacy == FirstOf(offered, LegacyTypes)
  IN IF m.value = 8 THEN {Wrote(st, "Types", offered)}
     ELSE IF Range(offered) \cap LegacyTypes = {} THEN {Ended(Wrote(st, "Refused", ""))}
     ELSE ServeSecurity(Wrote(st, "Chosen", <<legacy>>), legacy)

\* verifyResponse, and the validator of user names.
Granted(credential, knows) ==
  CASE knows = "full" -> Default
    [] knows = "view" -> IF credential = "password" THEN {"view"} ELSE {}
    [] knows = "nothing" -> {}

ServerVerifies(m) ==
  LET rights == Granted(Credential(sc.type), m.value)
  IN IF rights = {} THEN AuthFailed(Begun(sc)) ELSE Query(Begun(sc), rights)

ServerTLS(m) ==
  CASE m.type = "ClientHello" -> Awaits(Wrote(Begun(sc), "ServerHello", ""), "ClientFinished")
    [] m.type = "ClientFinished" ->
         Challenge([Wrote(Begun(sc), "ServerFinished", "") EXCEPT !.c.tls = TRUE])

ServerSecurity(m) ==
  CASE m.type = "VeNCryptVersion" ->
         {Awaits(Wrote(Begun(sc), "SubTypes", setting.serverTypes), "SubType")}
    [] m.type = "SubType" -> ServeSecurity(Begun(sc), m.value)
    [] m.type \in {"ClientHello", "ClientFinished"} -> {ServerTLS(m)}
    [] m.type \in {"Response", "Login"} -> {ServerVerifies(m)}

\* What the server takes the next message for.
ServerAwaits(s) ==
  CASE s.state = "version" -> {"Version"}
    [] s.state = "type" -> {"Type"}
    [] s.state = "security" -> {s.waits}
    [] s.state = "init" -> {"ClientInit"}
    [] OTHER -> {}

ServerTakes(types) ==
  /\ fromViewer # <<>>
  /\ Head(fromViewer).type \in types \cap ServerAwaits(sc)
  /\ fromViewer' = Tail(fromViewer)
  /\ UNCHANGED <<setting, cc>>

ServerIs(sts) == \E st \in sts : /\ sc' = st.c
                                 /\ fromServer' = fromServer \o st.out

ServerReadsVersion == /\ ServerTakes({"Version"})
                      /\ ServerIs(ServerVersion(Head(fromViewer)))

ServerReadsType == /\ ServerTakes({"Type"})
                   /\ ServerIs(ServeSecurity(Begun(sc), Head(fromViewer).value))

ServerReadsSecurity == /\ sc.state = "security"
                       /\ ServerTakes({sc.waits})
                       /\ ServerIs(ServerSecurity(Head(fromViewer)))

\* The local user answers, or does not in time.
AnswerQuery ==
  /\ sc.state = "querying"
  /\ ServerIs({Approve(Begun(sc)), Disapprove(Begun(sc))})
  /\ UNCHANGED <<setting, cc, fromViewer>>

\* "bogus data from client while querying"
BogusData ==
  /\ sc.state = "querying" /\ fromViewer # <<>>
  /\ ServerIs({Ended(Begun(sc))})
  /\ UNCHANGED <<setting, cc, fromViewer>>

\* The connection may be refused for others that are there.
ServerReadsClientInit ==
  /\ ServerTakes({"ClientInit"})
  /\ ServerIs({Wrote(Begun([sc EXCEPT !.state = "normal"]), "ServerInit", ""), Ended(Begun(sc))})

ServerSeesEnd ==
  /\ sc.state # "closed" /\ cc.state = "closed" /\ fromViewer = <<>>
  /\ ServerIs({Ended(Begun(sc))})
  /\ UNCHANGED <<setting, cc, fromViewer>>
-----------------------------------------------------------------------------
\* The viewer reads ServerInit.  How the session was reached matters no more, but
\* for the streams.
EnterSession ==
  /\ cc.state = "init"
  /\ fromServer # <<>> /\ Head(fromServer).type = "ServerInit"
  /\ fromServer' = <<>> /\ fromViewer' = <<>>
  /\ setting' = CHOOSE s \in Settings : TRUE
  /\ cc' = [state |-> "normal", version |-> 8, type |-> "None", waits |-> "", tls |-> cc.tls]
  /\ sc' = [state |-> "normal", version |-> 8, type |-> "None", waits |-> "", tls |-> sc.tls,
            rights |-> Default]

\* The user starts the viewer again.
Reconnect == /\ cc.state = "closed" /\ sc.state = "closed"
             /\ cc' = NewCC /\ sc' = NewSC(setting)
             /\ fromServer' = FirstWords(setting) /\ fromViewer' = <<>>
             /\ UNCHANGED setting

ViewerShakes == \/ ViewerReadsVersion \/ ViewerReadsTypes \/ ViewerReadsSecurity
                \/ ViewerReadsResult \/ ViewerMisreadsResult \/ ViewerSeesEnd
ServerShakes == \/ ServerReadsVersion \/ ServerReadsType \/ ServerReadsSecurity
                \/ AnswerQuery \/ BogusData \/ ServerReadsClientInit \/ ServerSeesEnd

HandshakeNext == ViewerShakes \/ ServerShakes \/ EnterSession \/ Reconnect

HandshakeSpec == HandshakeInit /\ [][HandshakeNext]_shakeVars
-----------------------------------------------------------------------------
\* Each side takes the next message for what it is, from the stream it was written
\* to, although neither says which it is: both agree on the version, on whether
\* there is a result, on the layers and on when the streams are replaced.  The
\* exceptions are those of a 3.3 viewer without security: it goes on before it is
\* let in, and is told that it is not.
Understood ==
  /\ fromServer # <<>> /\ cc.state \notin {"closed", "normal"} =>
       LET m == Head(fromServer)
       IN \/ m.type \in ViewerAwaits(cc) /\ m.tls = cc.tls
          \/ m.type = "Result" /\ ~m.value /\ cc.state = "init" /\ ~HasResult(cc)
  /\ fromViewer # <<>> /\ sc.state \notin {"closed", "normal"} =>
       LET m == Head(fromViewer)
       IN \/ m.type \in ServerAwaits(sc) /\ m.tls = sc.tls
          \/ sc.state = "querying" /\ ~HasResult(sc)

\* Whoever is let in has passed every layer of a type that the server and, once it
\* knows the type, the viewer have enabled: the streams are encrypted if the type
\* says so, the password is right, and gives the rights it stands for.
LetIn ==
  sc.state = "init" =>
    /\ sc.type \in Range(setting.serverTypes)
    /\ sc.tls = (Encryption(sc.type) # "none")
    /\ sc.rights = IF Credential(sc.type) = "none" THEN Default
                   ELSE Granted(Credential(sc.type), setting.knows)
    /\ sc.rights # {} /\ setting.query # "refuses"
    /\ cc.state \in {"result", "init"} =>
         /\ cc.type = sc.type /\ cc.tls = sc.tls
         /\ cc.type \in Range(setting.viewerTypes)
=============================================================================
