CONSTANTS
  c1 = c1
  c2 = c2
  Client <- Runs
  None = None
  BufSize = 4
  Turns <- Sessions
SPECIFICATION ProtocolSpec
INVARIANTS
  AnswerMatches
  ExecutesWhatWasSent
PROPERTY
  ServedIsAnswered
