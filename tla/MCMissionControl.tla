-------------------------- MODULE MCMissionControl --------------------------
(***************************************************************************)
(* Values for model checking MissionControl.  Each run picks the requests  *)
(* that occur (Ops), those that are made one at a time (Alone) and the     *)
(* failures of git, the git server, MQTT and the process (Faults).         *)
(***************************************************************************)
EXTENDS MissionControl, TLC

CONSTANTS p1, p2, p3, bravo, tango, d1, d2, t1, t2, none, config

OneSlug == {bravo}
TwoSlugs == {bravo, tango}
OneDev == {d1}
TwoDevs == {d1, d2}
OneTask == {t1}
OneWriter == {p1}
TwoWriters == {p1, p2}
ThreeWriters == {p1, p2, p3}
NoOps == {}

MCMessage ==
  [type: {"trust", "remove"}, name: Dev] \cup [type: {"task"}, name: Task]

Requests == {"create", "delete", "assign", "remove", "task", "trust"}
AllOps == Requests \cup {"report"}
PushRaceOps == {"create", "assign", "task", "trust"}
Deletion == {"delete"}
CallFaults == {"git", "rm", "init", "mqtt"}
AllFaults == CallFaults \cup {"delete", "reinit", "crash", "reset"}
NoFaults == {}

Symmetry == Permutations(Writer) \cup Permutations(Slug)
=============================================================================
