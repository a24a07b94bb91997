CONSTANTS
  ip1 = ip1
  ip2 = ip2
  ip3 = ip3
  ListEngines = {l1}
  QueryEngines = {q1}
  Ips = {ip1}
  Addresses <- MappedAddresses
  MAX_ATTEMPTS = 1
SPECIFICATION MonitorSpec
INVARIANT UniquePending
