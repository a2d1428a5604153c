\* The collector and the control command, each killed and started again at will, and one worker.
CONSTANTS
  Tools = {daemon, cli}
  Workers = {w1}
  Sites = {s1, s2, s3}
  NoSite = NoSite
  MaxEntries = 2
  MaxTime = 2
  Untils = {1, 2}
  MaxOps = 4
  MaxLookups = 2
  FromBefore = FALSE
  MayDie = TRUE
SPECIFICATION Spec
SYMMETRY Symmetry
CONSTRAINT Bounded
INVARIANTS
  TypeOK
  SeqlockSound
  OneSlotPerSite
PROPERTIES
  RulesKept
CHECK_DEADLOCK FALSE
