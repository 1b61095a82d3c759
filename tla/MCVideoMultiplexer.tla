------------------------- MODULE MCVideoMultiplexer -------------------------
(***************************************************************************)
(* Values for model checking VideoMultiplexer.                             *)
(***************************************************************************)
EXTENDS VideoMultiplexer

CONSTANTS v1, v2

MCViewer == {v1, v2}
NoFaults == {}
=============================================================================
