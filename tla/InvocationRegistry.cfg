\* The variable of the slot does not decide the address of the registry too.
SPECIFICATION Spec
CONSTANTS
  MaxMissing = 1
  MaxEnv = 1
  Half = 1
  KeySpan = 4
INVARIANTS SlotDecidesOne
\* An invocation becomes a session or fails.
CHECK_DEADLOCK FALSE
