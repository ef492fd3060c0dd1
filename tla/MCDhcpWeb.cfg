CONSTANTS
  Servers = {"s1", "s2"}
  NoIp = "none"
  Delay = 4
  SixSeconds = 1
  Counts = 3
  Tids = 2
  initial_tid = 1
  W = 3
  RequestTimeout = 1
  DnsTimeout = 1
  BoxEvery = 1
  UploadLimit = 4
  DnsLimit = 4
  Statuses = {0, 200}
  MaxSaves = 2
SPECIFICATION BothSpec
INVARIANTS
  LeaseHeld
  ResetNeedsFailures
PROPERTIES
  StartsUp
  RequestsEnd
  MissingServerRestarts
