SPECIFICATION FairSpec
CONSTANTS
  N = 2
  Need = 2
  SignTimeout = 0
  MessageValid = 1
  MaxSecrets = 1
  MaxCallers = 2
  MaxNet = 1
  MaxStarts = 1
  Restarting = {}
INVARIANTS
  NoOrphanedCaller
PROPERTIES
  QueueDrains
