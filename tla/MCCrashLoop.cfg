\* One process at a time, two requests, each behaviour with one family of calls.
CONSTANTS
  Files <- MCFiles
  Home <- MCHome
  CacheSlots = 3
  Probes = 2
  NamesMax = 2
  CompMax = 2
  StackMax = 2
  MaxCalls = 3
  MaxTicks = 2
  MaxOdd = 1
  QueriesMax = 3
  QueriesFirst = 1
  HttpMax = 3
  HttpFirst = 1
  MarksMax = 2
  ErrorsMax = 2
  MultiMax = 2
  Width = 4
  Handles = {1, 2}
  Statements = {1, 2}
  Durations = {1, 2}
  SlowQuery = 2
  MaxOps = 5
  JsonlTop = 2
  RingTop = 2
  Repeats = 2
  BufferMax = 72
  CrashSlots = 2
  Threshold = 2
  Window = 1
  MaxTime = 3
  MaxCrashes = 3
  MaxResets = 1
  Forked = TRUE
  OutputMode = "both"
  Users = {1, 2}
  RetrySec = 2
  MaxProcs = 2
  MaxRequests = 2
  Families = {"life"}
SPECIFICATION Spec
PROPERTY DisabledUntilReset
CHECK_DEADLOCK FALSE
