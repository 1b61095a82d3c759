SPECIFICATION FairTransportSpec
CONSTANTS
  telemetry = telemetry
  location = location
  e1 = e1
  e2 = e2
  e3 = e3
  e4 = e4
  e5 = e5
  e6 = e6
  e7 = e7
  Push = push
  Mqtt = mqtt
  Event <- AllEvents
  Malformed <- AllMalformed
  Pull <- BothPull
  Via <- AllVia
  Outstanding = 1
  Faults <- AllFaults
  MaxMishaps = 1
INVARIANT TransportTypeOK
INVARIANT AckedWasHanded
PROPERTY EventIsHanded
PROPERTY MalformedIsDropped
CHECK_DEADLOCK FALSE
