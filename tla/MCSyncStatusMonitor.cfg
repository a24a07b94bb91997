CONSTANTS
  ip1 = ip1
  ip2 = ip2
  ip3 = ip3
  ListEngines = {l1}
  QueryEngines = {q1}
  Ips = {ip1, ip2, ip3}
  Addresses <- PlainAddresses
  MAX_ATTEMPTS = 1
SPECIFICATION MonitorSpec
INVARIANTS
  TypeOK
  UniquePending
  AttemptsBounded
  CollectedOnce
PROPERTY ImplementsTracker
