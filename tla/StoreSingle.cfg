CONSTANTS
  h1 = h1
  h2 = h2
  a1 = a1
  a2 = a2
  Handlers = {h1}
  Addresses = {a1, a2}
  NativeAddresses = {}
  Faults = {}
  RefreshMode = TRUE
  MaxKeys = 3
  TTL = 2
SPECIFICATION StoreSpec
INVARIANT OneKeyPerServer
