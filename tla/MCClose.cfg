SPECIFICATION Spec
CONSTANTS
  Runners = {r1}
  Retriers = {}
  Syncers = {s1}
  Users = {u1}
  Mortal = {}
  NoKey = NoKey
  Lots = 1
  MaxDca = 1
  IndependentFrom = 2
  EndStatuses = {}
  MaxOrders = 3
  MaxAttempts = 2
  MaxTries = 2
  AttemptCap = 3
  Requests = {"close", "status"}
INVARIANTS OneOrderPerKey
CHECK_DEADLOCK FALSE
