------------------------- MODULE MCWebsocketFanout -------------------------
(***************************************************************************)
(* Values for model checking WebsocketFanout.                              *)
(***************************************************************************)
EXTENDS WebsocketFanout

CONSTANTS s1, s2

MCSub == {s1, s2}
=============================================================================
