SPECIFICATION Spec
CONSTANTS
  N = 3
  Msgs = {m1}
  Threshold = 2
  TurnDuration = 2
  TurnNoWork = 1
  Timeout = 9
  MessageValid = 2
  SignPerRound = 1
  CacheTTL = 1
  MinActive = 2
  HttpFails = TRUE
  Results = {"signed", "bad", "failed"}
  MaxTime = 3
  LastCall = 2
  MaxCalls = 1
  MaxQueue = 1
  MaxRestarts = 0
  Version <- SameVersion
INVARIANTS
  OnlyAskedIsSigned
  StartAgreement
  StarterIsPeer
  ResultsAreSignatures
PROPERTIES
  ImplementsService
CHECK_DEADLOCK FALSE
