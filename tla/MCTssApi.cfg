SPECIFICATION FairSpec
CONSTANTS
  SignIds = {s1}
  KeygenId = keygen
  MaxRuns = 2
  MaxUpdates = 1
  MaxInbox = 1
  MaxMessages = 1
  MaxCrashes = 1
INVARIANTS
  TypeOK
  OneOperationPerMessage
  ReportedKeyIsStored
PROPERTIES
  Answered
CHECK_DEADLOCK FALSE
