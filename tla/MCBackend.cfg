\* Two hosts, two clients; each behaviour shows one part.
CONSTANTS
  Columns = {"php_version", "profiled", "app", "redis_ms"}
  Indexed = {"php_version", "app"}
  Migrated = {"php_version", "profiled", "app"}
  Hosts = {"a", "b"}
  Tables = {"queries", "marks"}
  Rules <- MCRules
  Clients = {1, 2}
  SendSlots = 2
  BroadcastSlots = 2
  MaxGone = 1
  Parts = {"upgrade", "minutes", "shelf", "stream"}
  Requests <- MCRequests
  Arrivals <- MCArrivals
  MaxMinute <- MCMaxMinute
  MaxFaults = 1
  Window = 2
  MinReqs = 2
  Retention = 1
  CapPages = 3
  PerHour = 6
SPECIFICATION FairSpec
INVARIANTS
  TypeOK
  UpgradeCompletes
  StoreTruthful
  AlertsSpaced
  StreamContiguous
PROPERTY
  ClientsLetGo
CHECK_DEADLOCK FALSE
