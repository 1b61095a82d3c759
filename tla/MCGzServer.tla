------------------------------ MODULE MCGzServer ------------------------------
(***************************************************************************)
(* Values for model checking GzServer.                                     *)
(***************************************************************************)
EXTENDS GzServer

CONSTANTS r1, r2, d1, d2

MCRequest == {r1, r2}
MCDevice == {d1, d2}
MCFaults == {"lookup", "fork", "gz", "exit"}
===============================================================================
