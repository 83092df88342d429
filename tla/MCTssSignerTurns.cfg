SPECIFICATION Spec
CONSTANTS
  N = 2
  Msgs = {m1}
  Threshold = 2
  TurnDuration = 1
  TurnNoWork = 0
  Timeout = 2
  MessageValid = 2
  SignPerRound = 1
  CacheTTL = 9
  MinActive = 1
  HttpFails = TRUE
  Results = {}
  MaxTime = 3
  LastCall = 1
  MaxCalls = 1
  MaxQueue = 2
  MaxRestarts = 0
  Version <- SameVersion
INVARIANTS
  TypeOK
  PostedPeersApproved
  StartAgreement
  StarterIsPeer
  OneRequestPerRound
CHECK_DEADLOCK FALSE
