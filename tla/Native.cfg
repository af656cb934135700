\* A run of proveNative over three blocks: versions of three types, null proofs.
SPECIFICATION Spec
CONSTANTS
  MaxHeight = 3
  MaxReorgs = 0
  MaxGames = 1
  MaxOutputs = 2
  Outputs = {o1, o2}
  Configs = {c1, b1, c3}
  Values = {v1}
  LaggingOracle = FALSE
  EpochPollingTries = 0
  Freqs = {0}
  Second = 10
  DurationSpan = 64
  Nil = Nil
  FlakyNode = FALSE
  NoGame = NoGame
  BedrockConfigs = {b1}
  OddConfigs = {c3}
  TypeOf <- MCTypeOf
  AddressCount <- MCAddressCount
  SlotCount <- MCSlotCount
  NoRead = NoRead
  NoAnswer = NoAnswer
  NullAnswers = TRUE
  NoOutput = NoOutput
  c1 = c1
  b1 = b1
  c3 = c3
  v1 = v1
  o1 = o1
  o2 = o2
INVARIANTS TypeOK StatusTruthful QuietConfigAgrees OutputAsProved NewestOutputProven
SYMMETRY OutputsAlike
\* A session ends, and so does the chain at its bound.
CHECK_DEADLOCK FALSE
