SPECIFICATION FairSpec
CONSTANTS
  Peers = {p1}
  Relays = {r1}
  Channels = {c1}
  Urls = {u1, u2, NoUrl}
  NoUrl = NoUrl
  MaxRetries = 1
  MaxSends = 2
  MaxConns = 2
ACTION_CONSTRAINT SubscribesLate
INVARIANTS
  TypeOK
  OneCopy
  DroppedAfterAllRetries
  NeverAstray
  OneSinkPerStream
  CalledBackOnce
PROPERTIES
  EveryMessageSettles
  SentWhenQuiet
  Reconnects
