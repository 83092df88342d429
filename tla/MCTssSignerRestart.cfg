SPECIFICATION Spec
CONSTANTS
  N = 2
  Msgs = {m1}
  Threshold = 2
  TurnDuration = 3
  TurnNoWork = 1
  Timeout = 9
  MessageValid = 2
  SignPerRound = 1
  CacheTTL = 9
  MinActive = 2
  HttpFails = FALSE
  Results = {"signed", "bad", "failed"}
  MaxTime = 4
  LastCall = 4
  MaxCalls = 2
  MaxQueue = 2
  MaxRestarts = 1
  Version <- SameVersion
INVARIANTS
  PostedPeersApproved
  OnePostedEntry
  ResultsAreSignatures
PROPERTIES
  ImplementsService
CHECK_DEADLOCK FALSE
