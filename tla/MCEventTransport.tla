--------------------------- MODULE MCEventTransport ---------------------------
(***************************************************************************)
(* Values for model checking EventTransport: a subscription without and    *)
(* one with a malformed message, the push endpoint, and the broker.        *)
(***************************************************************************)
EXTENDS EventTransport

CONSTANTS telemetry, location, e1, e2, e3, e4, e5, e6, e7

AllEvents == {e1, e2, e3, e4, e5, e6, e7}
AllMalformed == {e4, e6}
BothPull == {telemetry, location}
AllVia ==
  [e \in AllEvents |-> IF e \in {e1, e2} THEN telemetry
                       ELSE IF e \in {e3, e4} THEN location
                       ELSE IF e \in {e5, e6} THEN Push ELSE Mqtt]

PulledEvents == {e1, e2, e3}
PulledMalformed == {e2}
OnePull == {telemetry}
PulledVia == [e \in PulledEvents |-> telemetry]

AllFaults == {"crash", "ack"}
NoFaults == {}
===============================================================================
