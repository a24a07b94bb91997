CONSTANTS
  Engines <- EveryEngine
  Answers <- EveryAnswer
  BufLen = 27
  Low6 = 2
  Low7 = 4
  MaxDatagrams = 2
SPECIFICATION ResponsesSpec
INVARIANTS
  ResponsesTypeOK
  CompleteAnswerRead
  OwnDatagramOnly
  ListenerSurvives
