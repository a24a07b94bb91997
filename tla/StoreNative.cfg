CONSTANTS
  h1 = h1
  h2 = h2
  a1 = a1
  a2 = a2
  Handlers = {h1}
  Addresses = {a1}
  NativeAddresses = {a1}
  Faults = {}
  RefreshMode = TRUE
  MaxKeys = 1
  TTL = 1
SPECIFICATION StoreSpec
INVARIANT NativeStaysListed
