\* Calls of the search that fail for a reason of their own.
SPECIFICATION Spec
CONSTANTS
  MaxHeight = 2
  MaxReorgs = 0
  MaxGames = 2
  MaxOutputs = 0
  Outputs = {}
  Configs = {c1}
  Values = {v1}
  LaggingOracle = FALSE
  FlakyNode = TRUE
  NoGame = NoGame
  c1 = c1
  v1 = v1
INVARIANTS FoundIsLatest
\* A session ends, and so does the chain at its bound.
CHECK_DEADLOCK FALSE
