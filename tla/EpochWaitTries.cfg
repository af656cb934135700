\* The budget as the flag documents it.
SPECIFICATION Spec
CONSTANTS
  MaxHeight = 3
  MaxReorgs = 0
  MaxGames = 0
  MaxOutputs = 0
  Outputs = {}
  Configs = {c1}
  Values = {v1}
  LaggingOracle = FALSE
  EpochPollingTries = 2
  Freqs = {0, 1}
  Second = 10
  DurationSpan = 64
  Nil = Nil
  c1 = c1
  v1 = v1
INVARIANTS PollsWithinTries
\* A session ends, and so does the chain at its bound.
CHECK_DEADLOCK FALSE
