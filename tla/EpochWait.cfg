\* The waiting loop; endpoints that do not go back, no reorganisation.
SPECIFICATION GoSpec
CONSTANTS
  MaxHeight = 5
  MaxReorgs = 0
  MaxGames = 0
  MaxOutputs = 0
  Outputs = {}
  Configs = {c1}
  Values = {v1}
  LaggingOracle = FALSE
  EpochPollingTries = 2
  Freqs = {0, 1, 4, 7}
  Second = 10
  DurationSpan = 64
  Nil = Nil
  c1 = c1
  v1 = v1
INVARIANTS TypeOK PollBudget WaitedHeaderIsNewer PanicsOutOfRange
PROPERTIES NewEpochIsTaken Terminates CancelStops
\* A session ends, and so does the chain at its bound.
CHECK_DEADLOCK FALSE
