SPECIFICATION Spec
CONSTANTS
  N = 2
  Msgs = {m1}
  Threshold = 2
  TurnDuration = 2
  TurnNoWork = 1
  Timeout = 9
  MessageValid = 2
  SignPerRound = 1
  CacheTTL = 9
  MinActive = 2
  HttpFails = FALSE
  Results = {}
  MaxTime = 2
  LastCall = 2
  MaxCalls = 2
  MaxQueue = 2
  MaxRestarts = 0
  Version <- SameVersion
INVARIANTS
  OneEntryPerMessage
CHECK_DEADLOCK FALSE
