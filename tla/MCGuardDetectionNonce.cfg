SPECIFICATION Spec
CONSTANTS
  N = 2
  Need = 2
  ActiveTimeout = 2
  HeartbeatTimeout = 0
  MessageValid = 0
  MaxNonces = 2
  MaxNet = 2
  MaxStarts = 2
  Restarting = {0, 1}
  Settles = FALSE
INVARIANTS
  NonceOfSelected
