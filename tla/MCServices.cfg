SPECIFICATION FairSpec
CONSTANTS
  Readers = {r1, r2}
  Keys = {k1}
  Ttl = 2
  MaxTime = 3
  States = {i1, i2, i3}
  Sockets = {c1, c2, c3}
  NoState = NoState
  NoSocket = NoSocket
  AttemptsSeen = 2
  MinimumSeverity = 2
  WebhookMaxAttempts = 2
  MaxRecent = 1
  MaxNotes = 2
  MaxRestarts = 1
INVARIANTS QuotesAreFresh NoOrphanSocket MetricsAddUp
PROPERTIES StaysConnected DeliveriesEnd
CHECK_DEADLOCK FALSE
