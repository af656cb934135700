\* The entry in the calldata is the proved one.
SPECIFICATION Spec
CONSTANTS
  MaxHeight = 3
  MaxReorgs = 0
  MaxGames = 1
  MaxOutputs = 0
  Outputs = {}
  Configs = {c1, c2}
  Values = {v1}
  LaggingOracle = FALSE
  EpochPollingTries = 1
  Freqs = {1}
  Second = 10
  DurationSpan = 64
  Nil = Nil
  FlakyNode = FALSE
  NoGame = NoGame
  BedrockConfigs = {}
  OddConfigs = {}
  TypeOf <- MCTypeOf
  AddressCount <- MCAddressCount
  SlotCount <- MCSlotCount
  NoRead = NoRead
  NoAnswer = NoAnswer
  NullAnswers = FALSE
  NoOutput = NoOutput
  c1 = c1
  c2 = c2
  v1 = v1
INVARIANTS ConfigAgrees
\* A session ends, and so does the chain at its bound.
CHECK_DEADLOCK FALSE
