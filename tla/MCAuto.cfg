SPECIFICATION Spec
CONSTANTS
  Runners = {r1}
  Retriers = {t1}
  Syncers = {s1}
  Users = {}
  Mortal = {r1}
  NoKey = NoKey
  Lots = 2
  MaxDca = 2
  IndependentFrom = 3
  EndStatuses = {"CANCELED"}
  MaxOrders = 3
  MaxAttempts = 1
  MaxTries = 1
  AttemptCap = 3
  Requests = {}
INVARIANTS TypeOK OneOrderPerKey NeverOversold OneOrderAtATime PositionsMatchFills SettledOrdersAccounted
PROPERTIES LedgerSpec
CHECK_DEADLOCK FALSE
