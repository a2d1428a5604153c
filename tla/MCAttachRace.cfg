SPECIFICATION Spec
CONSTANTS
  Workers = {w1, w2}
  Published = ring
  MaxInodes = 3
  MaxDeaths = 0
  Starts <- StaleStart
INVARIANT SharedRing
