CONSTANTS
  h1 = h1
  h2 = h2
  a1 = a1
  a2 = a2
  Handlers = {h1, h2}
  Addresses = {a1}
  NativeAddresses = {a1}
  Faults = {}
  RefreshMode = FALSE
  MaxKeys = 2
  TTL = 2
SPECIFICATION StoreSpec
INVARIANTS
  StoreTypeOK
  EverythingExpires
  FoundWhileAlive
  NativeHashUntouched
