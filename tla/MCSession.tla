----------------------------- MODULE MCSession -----------------------------
(***************************************************************************)
(* Session with two sockets of one host, which meet each other in every    *)
(* state of their handshakes, under four settings of the parameters: with *)
(* and without NeverShared and DisconnectClients, and viewers that always  *)
(* share and are let in without a question.                                *)
(***************************************************************************)
EXTENDS Session

CONSTANTS s1, s2

TwoSockets == {s1, s2}

Setting(never, disconnect, query) ==
  [AlwaysShared |-> FALSE, NeverShared |-> never, DisconnectClients |-> disconnect,
   QueryConnect |-> query]

SomeSettings ==
  {Setting(TRUE, FALSE, TRUE), Setting(FALSE, TRUE, TRUE), Setting(TRUE, TRUE, TRUE),
   [Setting(FALSE, FALSE, FALSE) EXCEPT !.AlwaysShared = TRUE]}
=============================================================================
