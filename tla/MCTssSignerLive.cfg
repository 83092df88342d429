SPECIFICATION FairSpec
CONSTANTS
  N = 2
  Msgs = {m1, m2}
  Threshold = 2
  TurnDuration = 2
  TurnNoWork = 0
  Timeout = 1
  MessageValid = 2
  SignPerRound = 1
  CacheTTL = 9
  MinActive = 2
  HttpFails = TRUE
  Results = {}
  MaxTime = 3
  LastCall = 3
  MaxCalls = 1
  MaxQueue = 2
  MaxRestarts = 0
  Version <- SameVersion
INVARIANTS
  OnlyAskedIsSigned
PROPERTIES
  QueueDrains
  MutexReleased
CHECK_DEADLOCK FALSE
