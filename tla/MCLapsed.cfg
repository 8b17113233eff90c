SPECIFICATION Spec
CONSTANTS
  Runners = {r1, r2}
  Retriers = {}
  Syncers = {s1}
  Users = {}
  Mortal = {}
  NoKey = NoKey
  Lots = 1
  MaxDca = 1
  IndependentFrom = 9
  EndStatuses = {"CANCELED"}
  MaxOrders = 3
  MaxAttempts = 2
  MaxTries = 2
  AttemptCap = 3
  Requests = {}
INVARIANTS OneOpenPosition NeverOversold DcaWithinLimit
CHECK_DEADLOCK FALSE
