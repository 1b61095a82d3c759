---------------------------- MODULE MCVideoDrone ----------------------------
(***************************************************************************)
(* Values for model checking VideoDrone.                                   *)
(***************************************************************************)
EXTENDS VideoDrone

CONSTANTS v1, v2

MCViewer == {v1, v2}
AllFaults == {"mqtt"}
=============================================================================
