CONSTANTS
  None = None
  demo = demo
  member = member
  viewer = viewer
  s1 = s1
  elsewhere = elsewhere
  Sites = {s1}
  Docroots = {1, 2}
  TableSlots = 1
  MaxIssued = 2
  MaxLives = 2
  MaxRefused = 1
  CardCalls = 1
  CardRows = 2
  PageRows = 2
  PartRows = 1
  RawRows = 3
  Conns = {h1, h2}
  Sessions = {p1}
  Scenes <- MCScenes
  Role <- MCRole
  DemoToken = demo
  Rows <- MCRows
  SentQueries = 2
  SentParts = 2
  PerMinute = 1
  MaxHttp = 2
  MaxLines = 1
SPECIFICATION Spec
INVARIANTS
  TypeOK
  
  DemoBounded
  LastWordHolds
SYMMETRY ConnsAlike
CHECK_DEADLOCK FALSE
