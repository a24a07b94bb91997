CONSTANTS
  ip1 = ip1
  ip2 = ip2
  l1 = l1
  l2 = l2
  q1 = q1
  q2 = q2
  ListEngines = {l1, l2}
  QueryEngines = {q1, q2}
  Ips = {ip1, ip2}
  Addresses <- AandB
  Configurations <- OneOfEach
  MAX_ATTEMPTS = 1
SPECIFICATION FairRunSpec
PROPERTIES
  IdleRunCompletes
  ContextEndsRun
