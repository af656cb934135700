\* One required flag is not on the command line, two variables are set.
SPECIFICATION Spec
CONSTANTS
  MaxMissing = 1
  MaxEnv = 2
  Half = 2
  KeySpan = 16
INVARIANTS TypeOK NothingLeftOut PlacesApart ChainKeysAgree
\* An invocation becomes a session or fails.
CHECK_DEADLOCK FALSE
