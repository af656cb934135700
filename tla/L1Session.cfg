\* A run of proveNativeL1 over one reorganisation.
SPECIFICATION GoSpec
CONSTANTS
  MaxHeight = 3
  MaxReorgs = 1
  MaxGames = 0
  MaxOutputs = 0
  Outputs = {}
  Configs = {c1}
  Values = {v1, v2}
  LaggingOracle = TRUE
  EpochPollingTries = 1
  Freqs = {0, 1}
  Second = 10
  DurationSpan = 64
  Nil = Nil
  c1 = c1
  v1 = v1
  v2 = v2
INVARIANTS TypeOK QuietValueProven CanonicalProofMatches
PROPERTIES ImplementsRun Terminates CancelStops
\* A session ends, and so does the chain at its bound.
CHECK_DEADLOCK FALSE
