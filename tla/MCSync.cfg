SPECIFICATION FairSpec
CONSTANTS
  Runners = {r1}
  Retriers = {}
  Syncers = {s1}
  Users = {u1}
  Mortal = {}
  NoKey = NoKey
  Lots = 2
  MaxDca = 1
  IndependentFrom = 9
  EndStatuses = {"CANCELED"}
  MaxOrders = 1
  MaxAttempts = 2
  MaxTries = 2
  AttemptCap = 3
  Requests = {"sync"}
INVARIANTS NeverOverAccounted SettledOrdersAccounted
PROPERTIES OrdersSettle SubmittedActionsSettle
CHECK_DEADLOCK FALSE
