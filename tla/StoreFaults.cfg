CONSTANTS
  h1 = h1
  h2 = h2
  a1 = a1
  a2 = a2
  Handlers = {h1, h2}
  Addresses = {a1, a2}
  NativeAddresses = {}
  Faults = {"crash", "error"}
  RefreshMode = TRUE
  MaxKeys = 2
  TTL = 1
SPECIFICATION StoreSpec
INVARIANT IpmapNamesItsServer
PROPERTY RefreshSparesLive
SYMMETRY Alike
