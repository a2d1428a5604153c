\* The same shipper with the two faults that matter here: a batch of two minutes cannot be
\* delivered and is buffered, and is too large when it is sent again.
CONSTANTS
  MaxTraces = 2
  BufferMax = 2
  BatchMax = 2
  MaxClock = 1
  MaxLives = 2
  MaxFaults = 2
  Faults = {"fail", "413"}
SPECIFICATION Spec
INVARIANT AggregatesSplit
CHECK_DEADLOCK FALSE
