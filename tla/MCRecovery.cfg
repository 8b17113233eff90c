SPECIFICATION Spec
CONSTANTS
  Runners = {r1}
  Retriers = {t1}
  Syncers = {s1}
  Users = {u1}
  Mortal = {}
  NoKey = NoKey
  Lots = 1
  MaxDca = 0
  IndependentFrom = 9
  EndStatuses = {}
  MaxOrders = 1
  MaxAttempts = 2
  MaxTries = 1
  AttemptCap = 2
  Requests = {"order", "retry", "cancel", "stop"}
INVARIANTS RetryColumnsAgree RetryWithinAttempts OrderedNotRetried ReportedActionsHaveOrders FinalOrdersEnded
CHECK_DEADLOCK FALSE
