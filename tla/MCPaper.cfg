SPECIFICATION Spec
CONSTANTS
  Ticks = {t1, t2}
  Users = {u1}
  Unit = 8
  Configs <- MCConfigs
  Modes = {TRUE}
  Statuses = {"RUNNING", "PAUSED"}
  Requests = {"open", "dca", "close", "tick"}
  MaxAsks = 2
  MaxPositions = 2
INVARIANTS OnePaperPosition PaperBooks SubLevelsOnce CostWithinBudget
SYMMETRY Symmetric
CHECK_DEADLOCK FALSE
