---------------------------- MODULE MCVideoHeader ----------------------------
(***************************************************************************)
(* Values for model checking VideoHeader: usual sizes and the extremes.    *)
(***************************************************************************)
EXTENDS VideoHeader

MCSize == {256, 511, 720, 1280, 65535}
MCDefault == <<1280, 720>>
==============================================================================
