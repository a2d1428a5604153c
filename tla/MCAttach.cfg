SPECIFICATION Spec
CONSTANTS
  Workers = {w1, w2}
  Published = ring
  MaxInodes = 3
  MaxDeaths = 1
  Starts <- SomeStarts
INVARIANT TypeOK
INVARIANT AgreeUnlessStale
INVARIANT RingsOrderly
PROPERTY Follows
