\* Records of two sizes and workers that die anywhere.
CONSTANTS
  Writers = {w1, w2}
  Cap = 3
  Sizes = {1, 2}
  MaxWrites = 4
  MaxLead = 0
  MayDie = TRUE
  MaxCrashes = 0
  PromptWriters = TRUE
SPECIFICATION Spec
SYMMETRY Symmetry
INVARIANTS
  TypeOK
  OwnersExclusive
  ReadsWhatWasWritten
PROPERTIES
  PositionsOrdered
CHECK_DEADLOCK FALSE
