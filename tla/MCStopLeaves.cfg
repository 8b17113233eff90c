SPECIFICATION Spec
CONSTANTS
  Runners = {r1}
  Retriers = {t1}
  Syncers = {s1}
  Users = {u1}
  Mortal = {}
  NoKey = NoKey
  Lots = 1
  MaxDca = 1
  IndependentFrom = 9
  EndStatuses = {"EXPIRED"}
  MaxOrders = 2
  MaxAttempts = 2
  MaxTries = 2
  AttemptCap = 3
  Requests = {"stop"}
PROPERTIES StopLeavesOrders
CHECK_DEADLOCK FALSE
