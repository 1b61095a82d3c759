SPECIFICATION FairTransportSpec
CONSTANTS
  telemetry = telemetry
  location = location
  e1 = e1
  e2 = e2
  e3 = e3
  e4 = e4
  e5 = e5
  e6 = e6
  e7 = e7
  Push = push
  Mqtt = mqtt
  Event <- PulledEvents
  Malformed <- PulledMalformed
  Pull <- OnePull
  Via <- PulledVia
  Outstanding = 2
  Faults <- NoFaults
  MaxMishaps = 0
PROPERTY OthersAreHanded
CHECK_DEADLOCK FALSE
