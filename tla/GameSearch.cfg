\* Two games that are created, challenged and resolved while they are searched.
SPECIFICATION GoSpec
CONSTANTS
  MaxHeight = 4
  MaxReorgs = 0
  MaxGames = 2
  MaxOutputs = 0
  Outputs = {}
  Configs = {c1}
  Values = {v1}
  LaggingOracle = FALSE
  FlakyNode = FALSE
  NoGame = NoGame
  c1 = c1
  v1 = v1
INVARIANTS TypeOK FoundIsResolved FoundIsLatest NoneMeansNone
PROPERTIES ImplementsSearch Terminates CancelStops
\* A session ends, and so does the chain at its bound.
CHECK_DEADLOCK FALSE
