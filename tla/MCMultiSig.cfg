SPECIFICATION Spec
CONSTANTS
  N = 2
  Need = 2
  SignTimeout = 0
  MessageValid = 1
  MaxSecrets = 2
  MaxCallers = 1
  MaxNet = 1
  MaxStarts = 2
  Restarting = {0}
INVARIANTS
  TypeOK
  QuorumAsked
  InitiatesOneRound
  CollectedByCoordinator
