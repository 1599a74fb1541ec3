---------------------------- MODULE MCViewerSync ----------------------------
(***************************************************************************)
(* Connection with two pixel formats, two framebuffer sizes, and programs  *)
(* that share no, one or several security types.                           *)
(***************************************************************************)
EXTENDS Connection, TLC

CONSTANTS full, low

Formats == {full, low}

ServerLists == {<<"None">>, <<"TLSVnc", "VncAuth">>, <<"X509Plain", "VncAuth", "None">>,
                <<"Plain", "TLSNone">>}
ViewerLists == {<<"None">>, <<"X509Plain", "TLSVnc", "VncAuth", "None">>,
                <<"Plain", "X509None", "TLSNone">>}
=============================================================================
