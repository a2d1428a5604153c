\* Records of one size in a ring whose tail needs padding, workers that die anywhere, a
\* collector that may crash once, and a read position up to 2 words ahead at the start.
CONSTANTS
  Writers = {w1, w2}
  Cap = 5
  Sizes = {2}
  MaxWrites = 3
  MaxLead = 2
  MayDie = TRUE
  MaxCrashes = 1
  PromptWriters = TRUE
SPECIFICATION FairSpec
INVARIANTS
  UniformIntact
PROPERTIES
  Delivery
  QueueSpec
  InversionHeals
CONSTRAINT Intact
CHECK_DEADLOCK FALSE
