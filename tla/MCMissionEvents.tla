--------------------------- MODULE MCMissionEvents ---------------------------
(***************************************************************************)
(* Values for model checking MissionEvents.                                *)
(***************************************************************************)
EXTENDS MissionEvents

CONSTANTS p1, bravo, d1, t1, none, config

MCSlug == {bravo}
MCDev == {d1}
MCTask == {t1}
MCWriter == {p1}
MCMessage ==
  [type: {"trust", "remove"}, name: Dev] \cup [type: {"task"}, name: Task]
MCProgress == {"in-progress", "done"}
Requests == {"create", "delete", "assign", "remove", "task", "trust"}
MCOps == Requests \cup {"plan", "flight"}
NoFaults == {}
==============================================================================
