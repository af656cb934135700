\* A cancelled run ends, wherever it is.
SPECIFICATION GoSpec
CONSTANTS
  MaxHeight = 2
  MaxReorgs = 0
  MaxGames = 1
  MaxOutputs = 0
  Outputs = {}
  Configs = {c1}
  Values = {v1}
  LaggingOracle = FALSE
  EpochPollingTries = 1
  Freqs = {1}
  Second = 10
  DurationSpan = 64
  Nil = Nil
  FlakyNode = FALSE
  NoGame = NoGame
  BedrockConfigs = {}
  OddConfigs = {}
  TypeOf <- MCTypeOf
  AddressCount <- MCAddressCount
  SlotCount <- MCSlotCount
  NoRead = NoRead
  NoAnswer = NoAnswer
  NullAnswers = FALSE
  NoOutput = NoOutput
  c1 = c1
  v1 = v1
PROPERTIES CancelStops
\* A session ends, and so does the chain at its bound.
CHECK_DEADLOCK FALSE
