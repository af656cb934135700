\* The value in the calldata is the proved one.
SPECIFICATION Spec
CONSTANTS
  MaxHeight = 3
  MaxReorgs = 0
  MaxGames = 0
  MaxOutputs = 0
  Outputs = {}
  Configs = {c1}
  Values = {v1, v2}
  LaggingOracle = FALSE
  EpochPollingTries = 1
  Freqs = {1}
  Second = 10
  DurationSpan = 64
  Nil = Nil
  c1 = c1
  v1 = v1
  v2 = v2
INVARIANTS ValueProven
\* A session ends, and so does the chain at its bound.
CHECK_DEADLOCK FALSE
