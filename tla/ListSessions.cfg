CONSTANTS
  h1 = h1
  h2 = h2
  Hosts = {h1, h2}
  Digits = {"1", "2"}
  Listing <- ThreeServers
  Sessions <- EverySession
  Challenge <- TheChallenge
  ChallengeRoom = 17
  ReadSize = 12
SPECIFICATION FairListSessionsSpec
INVARIANTS
  SessionTypeOK
  WholeListHandled
  PanicNeedsFailure
  FreedOnce
  GarbledOnce
  OnlyLastStrange
PROPERTIES
  DeliversInOrder
  ShutdownEndsReader
