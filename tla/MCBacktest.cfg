SPECIFICATION Spec
CONSTANTS
  None = None
  q1 = q1
  q2 = q2
  Requests = {q1, q2}
  Strategies <- MCStrategies
  Prices <- MCPrices
  Histories <- MCHistories
  Interim <- MCInterim
  Times <- MCTimes
  Slots = 5
  Limit = 3
  MaxPages = 2
  MaxImports = 1
  PageSize = 2
  Capital = 504
  Step = 30
  Multiplier = 2
SYMMETRY Symmetric
CHECK_DEADLOCK FALSE
INVARIANTS
  ImportLeavesNoHole
  RunReadsWholeRange
  SimulationExplained
  RunStatusTrue
