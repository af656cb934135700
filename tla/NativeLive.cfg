\* A run over a reorganisation, with flaky calls.
SPECIFICATION GoSpec
CONSTANTS
  MaxHeight = 2
  MaxReorgs = 1
  MaxGames = 1
  MaxOutputs = 1
  Outputs = {o1}
  Configs = {c1, b1}
  Values = {v1}
  LaggingOracle = FALSE
  EpochPollingTries = 0
  Freqs = {1}
  Second = 10
  DurationSpan = 64
  Nil = Nil
  FlakyNode = TRUE
  NoGame = NoGame
  BedrockConfigs = {b1}
  OddConfigs = {}
  TypeOf <- MCTypeOf
  AddressCount <- MCAddressCount
  SlotCount <- MCSlotCount
  NoRead = NoRead
  NoAnswer = NoAnswer
  NullAnswers = FALSE
  NoOutput = NoOutput
  c1 = c1
  b1 = b1
  v1 = v1
  o1 = o1
INVARIANTS CanonicalProofsMatch OutputAsProved
PROPERTIES ImplementsRun Terminates CancelStopsElsewhere
\* A session ends, and so does the chain at its bound.
CHECK_DEADLOCK FALSE
