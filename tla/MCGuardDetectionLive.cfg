SPECIFICATION FairSpec
CONSTANTS
  N = 2
  Need = 2
  ActiveTimeout = 2
  HeartbeatTimeout = 0
  MessageValid = 0
  MaxNonces = 2
  MaxNet = 1
  MaxStarts = 2
  Restarting = {1}
  Settles = TRUE
PROPERTIES
  Converge
