----------------------------- MODULE Connection -----------------------------
(***************************************************************************)
(* A connection from its first byte on: the handshake, and then the session*)
(* with the streams that the handshake has left.  The server is in its     *)
(* session, and the desktop may draw, as soon as ServerInit is written.    *)
(***************************************************************************)
EXTENDS ViewerSync, Handshake

connectionVars == <<vars, shakeVars>>

ConnectionInit == HandshakeInit /\ Init

\* CConn::serverInit is called by the handler that reads ServerInit.
Enter == EnterSession /\ ReadServerInit(cc.tls)

Shaking(Step) == Step /\ UNCHANGED vars

ViewerShaking ==
  \/ Shaking(ViewerReadsVersion) \/ Shaking(ViewerReadsTypes)
  \/ Shaking(ViewerReadsSecurity) \/ Shaking(ViewerReadsResult)
  \/ Shaking(ViewerMisreadsResult) \/ Shaking(ViewerSeesEnd)

ServerShaking ==
  \/ Shaking(ServerReadsVersion) \/ Shaking(ServerReadsType)
  \/ Shaking(ServerReadsSecurity) \/ Shaking(AnswerQuery) \/ Shaking(BogusData)
  \/ Shaking(ServerReadsClientInit) \/ Shaking(ServerSeesEnd)

InSession(Step) == sc.state = "normal" /\ Step /\ UNCHANGED shakeVars

ViewerServes ==
  \/ InSession(ReadUpdateStart) \/ InSession(ReadRect) \/ InSession(ReadSizeRect)
  \/ InSession(ReadFence) \/ InSession(ReadEndOfCU)

ServerServes == InSession(ServerReads) \/ InSession(EndOfMessages)

\* The user and the desktop.
OthersAct ==
  \/ InSession(HandleOptions) \/ InSession(RefreshFramebuffer)
  \/ InSession(Draw) \/ InSession(Resize) \/ Shaking(Reconnect)

ConnectionNext ==
  \/ ViewerShaking \/ ServerShaking \/ Enter
  \/ ViewerServes \/ ServerServes \/ InSession(UpdateTimeout)
  \/ OthersAct

\* Both programs serve their sockets; the server's event loop looks at its timers
\* in each round, however many messages come in between.  The users and the desktop
\* need not do anything.
ConnectionFairness ==
  /\ WF_connectionVars(ViewerShaking) /\ WF_connectionVars(ServerShaking)
  /\ WF_connectionVars(Enter) /\ WF_connectionVars(ViewerServes)
  /\ WF_connectionVars(InSession(ServerReads))
  /\ WF_connectionVars(InSession(EndOfMessages))
  /\ SF_connectionVars(InSession(UpdateTimeout))

ConnectionSpec ==
  ConnectionInit /\ [][ConnectionNext]_connectionVars /\ ConnectionFairness
=============================================================================
