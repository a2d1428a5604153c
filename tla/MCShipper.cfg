\* One server, two traces in two minutes, two faults of any kind, one of which may end the
\* process.
CONSTANTS
  MaxTraces = 2
  BufferMax = 2
  BatchMax = 2
  MaxClock = 1
  MaxLives = 2
  MaxFaults = 2
  Faults = {"lost", "fail", "401", "402", "413", "rejected", "disk", "crash"}
SPECIFICATION Spec
INVARIANTS
  TypeOK
  ShippedOnce
PROPERTIES
  Drains
CHECK_DEADLOCK FALSE
