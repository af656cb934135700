----------------------------- MODULE Invocation -----------------------------
(***************************************************************************)
(* How an invocation becomes a session (flags.go, config.go, cmd/main.go): *)
(* the command line and the environment are parsed, the required flags are *)
(* checked, the settings are read, and the source chain's ID is made into  *)
(* keys of the Registry.                                                   *)
(*                                                                         *)
(* A setting is known by the place it came from.  Flags have the names of  *)
(* the Go variables, environment variables go without their prefix.        *)
(***************************************************************************)
EXTENDS Integers, FiniteSetsExt

CONSTANTS
  MaxMissing,  \* bound: required flags not on the command line
  MaxEnv,      \* bound: environment variables that are set
  Half,        \* how many values an int64 has from 0 on, half of a uint64's
  KeySpan      \* how many values a uint256 has

ASSUME InvocationAssumption ==
  /\ MaxMissing \in Nat
  /\ MaxEnv \in Nat
  /\ Half \in Nat \ {0}
  /\ KeySpan \in Nat
  /\ KeySpan > 2 * Half

VARIABLES
  command,   \* proveNative or proveNativeL1
  given,     \* the flags on the command line
  env,       \* what each environment variable holds
  srcChain,  \* the number given as the source chain's ID
  stage,     \* what main is at, or how it ended
  settings,  \* the place each setting read so far came from
  keys       \* the keys made of srcChain

inputs == <<command, given, env, srcChain>>
vars   == <<inputs, stage, settings, keys>>

-----------------------------------------------------------------------------
(* Flags. *)

\* Slip: one list for both commands.
RequiredOfL1(cmd) ==
  {"L1HTTPPath", "DstL2ChainID", "DstL2HTTPPath", "SrcContractAddress", "SrcStorageSlot"}

\* requiredProveFlags and requiredProveL1Flags.
Required(cmd) ==
  {"L1HTTPPath", "DstL2ChainID", "DstL2HTTPPath", "SrcContractAddress", "SrcStorageSlot"}
    \cup IF cmd = "proveNative" THEN {"SrcL2ChainID", "SrcL2HTTPPath"} ELSE {}

Optional == {"L1RegistryAddress", "WaitForNewEpoch", "EpochPollingFreq", "EpochPollingTries"}

EnvVar ==
  [ L1HTTPPath         |-> "L1_HTTP_PATH",
    DstL2HTTPPath      |-> "DST_L2_HTTP_PATH",
    SrcL2HTTPPath      |-> "SRC_L1_HTTP_PATH",
    DstL2ChainID       |-> "DST_L2_CHAIN_ID",
    SrcL2ChainID       |-> "SRC_L2_CHAIN_ID",
    SrcContractAddress |-> "SRC_L2_CONTRACT_ADDRESS",
    SrcStorageSlot     |-> "SRC_L2_STORAGE_SLOT",
    L1RegistryAddress  |-> "SRC_L2_STORAGE_SLOT",
    WaitForNewEpoch    |-> "WAIT_FOR_NEW_EPOCH",
    EpochPollingFreq   |-> "EPOCH_POLLING_FREQ",
    EpochPollingTries  |-> "EPOCH_POLLING_TRIES" ]

Vars == {EnvVar[f] : f \in DOMAIN EnvVar}

UintFlags == {"DstL2ChainID", "SrcL2ChainID", "EpochPollingFreq", "EpochPollingTries"}

(***************************************************************************)
(* What a variable can hold, as far as the flags tell it apart: a number,  *)
(* a truth value like "true", a digit that is both, or text that is none.  *)
(***************************************************************************)
Contents == {"empty", "text", "number", "truth", "digit"}

Readable(f) ==
  CASE f \in UintFlags        -> {"empty", "number", "digit"}
    [] f = "WaitForNewEpoch"  -> {"empty", "truth", "digit"}
    [] OTHER                  -> Contents

\* A variable that is there but empty sets a string or a switch, not a number.
EnvSets(f) ==
  \/ env[EnvVar[f]] \notin {"unset", "empty"}
  \/ env[EnvVar[f]] = "empty" /\ f \notin UintFlags

IsSet(f) == f \in given \/ EnvSets(f)

\* ctx.String(f.Name) and its like: the command line, the environment, then
\* the flag's default.
Source(f) ==
  CASE f \in given -> <<"argument", f>>
    [] EnvSets(f)  -> <<"environment", EnvVar[f]>>
    [] OTHER       -> <<"default", f>>

(***************************************************************************)
(* The fields of ProveConfig, ProveL1Config and ProveParams, with the flag *)
(* each is read from.  ProveConfig and ProveParams both have a field       *)
(* WaitForNewEpoch, read from the one flag; that of ProveConfig is named   *)
(* ConfigWaitForNewEpoch here.                                             *)
(***************************************************************************)
\* Slip: the destination is reached at the source's endpoint.
ConfigFlagSwapped ==
  [ L1HTTPPath            |-> "L1HTTPPath",
    SrcL2RPC              |-> "SrcL2HTTPPath",
    DstL2RPC              |-> "SrcL2HTTPPath",
    SrcL2ChainID          |-> "SrcL2ChainID",
    DstL2ChainID          |-> "DstL2ChainID",
    RegistryAddress       |-> "L1RegistryAddress",
    ConfigWaitForNewEpoch |-> "WaitForNewEpoch" ]

ConfigFlag ==
  [ L1HTTPPath            |-> "L1HTTPPath",
    SrcL2RPC              |-> "SrcL2HTTPPath",
    DstL2RPC              |-> "DstL2HTTPPath",
    SrcL2ChainID          |-> "SrcL2ChainID",
    DstL2ChainID          |-> "DstL2ChainID",
    RegistryAddress       |-> "L1RegistryAddress",
    ConfigWaitForNewEpoch |-> "WaitForNewEpoch" ]

ConfigFields(cmd) ==
  DOMAIN ConfigFlag \ (IF cmd = "proveNative" THEN {}
                       ELSE {"SrcL2RPC", "SrcL2ChainID", "ConfigWaitForNewEpoch"})

ParamFlag ==
  [ Address           |-> "SrcContractAddress",
    StorageSlot       |-> "SrcStorageSlot",
    WaitForNewEpoch   |-> "WaitForNewEpoch",
    EpochPollingFreq  |-> "EpochPollingFreq",
    EpochPollingTries |-> "EpochPollingTries" ]

-----------------------------------------------------------------------------
(* Chain IDs. *)

\* big.NewInt(int64(id)): the upper half of the numbers becomes negative.
BigInt(id) == IF id < Half THEN id ELSE id - 2 * Half

\* Slip: the sign is packed as it is.
PackedSigned(n) == n

\* abi.Pack of a uint256 argument: two's complement.
Packed(n) == n % KeySpan

\* Slip: the key of the slot has fewer bits than the number.
SlotKeyShort(n) == (IF n < 0 THEN -n ELSE n) % (Half \div 2)

\* Bytes() of a big.Int, padded: the absolute value.
SlotKey(n) == IF n < 0 THEN -n ELSE n

-----------------------------------------------------------------------------

UpTo(k, S) == UNION {kSubset(j, S) : j \in 0..k}

Init ==
  /\ command \in {"proveNative", "proveNativeL1"}
  /\ \E missing \in UpTo(MaxMissing, Required(command)) : \E extra \in SUBSET Optional :
       given = (Required(command) \ missing) \cup extra
  /\ \E there \in UpTo(MaxEnv, Vars) : \E holds \in [there -> Contents] :
       env = [v \in Vars |-> IF v \in there THEN holds[v] ELSE "unset"]
  /\ srcChain \in 0..(2 * Half - 1)
  /\ stage = "parse"
  /\ settings = <<>>
  /\ keys = <<>>

\* A variable that does not read as its flag's type is an error, also when the
\* flag is on the command line.
Misread ==
  \E f \in Required(command) \cup Optional :
    env[EnvVar[f]] \notin Readable(f) \cup {"unset"}

Parse ==
  /\ stage = "parse"
  /\ stage' = IF Misread THEN "failed" ELSE "check"
  /\ UNCHANGED <<inputs, settings, keys>>

\* CheckRequiredL2 and CheckRequiredL1.
CheckRequired ==
  /\ stage = "check"
  /\ stage' = IF \A f \in Required(command) : IsSet(f) THEN "config" ELSE "failed"
  /\ UNCHANGED <<inputs, settings, keys>>

\* NewConfigFromCLI and NewL1ConfigFromCLI.
NewConfig ==
  /\ stage = "config"
  /\ stage' = "params"
  /\ settings' = [x \in ConfigFields(command) |-> Source(ConfigFlag[x])]
  /\ UNCHANGED <<inputs, keys>>

NewParams ==
  /\ stage = "params"
  /\ stage' = "session"
  /\ settings' = [x \in DOMAIN settings \cup DOMAIN ParamFlag |->
                    IF x \in DOMAIN settings THEN settings[x] ELSE Source(ParamFlag[x])]
  /\ UNCHANGED <<inputs, keys>>

\* What the session makes of the source chain's ID: the key its entry is read
\* with, and the one whose storage slot is proved.
UseChainID ==
  /\ stage = "session"
  /\ command = "proveNative"
  /\ stage' = "keyed"
  /\ keys' = [read |-> Packed(BigInt(srcChain)), proved |-> SlotKey(BigInt(srcChain))]
  /\ UNCHANGED <<inputs, settings>>

Next == Parse \/ CheckRequired \/ NewConfig \/ NewParams \/ UseChainID

Spec == Init /\ [][Next]_vars

-----------------------------------------------------------------------------

TypeOK ==
  /\ stage \in {"parse", "check", "config", "params", "session", "keyed", "failed"}
  /\ DOMAIN settings \subseteq DOMAIN ConfigFlag \cup DOMAIN ParamFlag
  /\ keys = <<>> \/ keys \in [read : 0..(KeySpan - 1), proved : 0..Half]

\* The lists of required flags and the settings each command reads are written
\* down apart (flags.go:84, config.go:43).  A session begins with no setting
\* left at a default but those of the optional flags.
NothingLeftOut ==
  \A x \in DOMAIN settings :
    settings[x][1] = "default" => settings[x][2] \in Optional

\* Eleven flags are read into twelve fields of two structs (config.go:43), each
\* from an argument or a variable.  Two fields have one place only if they are
\* the two copies of one flag, or the slot and the registry's
\* address, and then the place is the variable these share (flags.go:60).
PlacesApart ==
  \A x, y \in DOMAIN settings :
    (x # y /\ settings[x] = settings[y]) =>
      \/ {x, y} = {"ConfigWaitForNewEpoch", "WaitForNewEpoch"}
      \/ /\ {x, y} = {"StorageSlot", "RegistryAddress"}
         /\ settings[x] = <<"environment", EnvVar["SrcStorageSlot"]>>

\* "All parameters can also be set using environment variables" (README.md:49),
\* the slot and the registry's address among them: no one place decides both.
SlotDecidesOne ==
  {"StorageSlot", "RegistryAddress"} \subseteq DOMAIN settings =>
    settings["StorageSlot"] # settings["RegistryAddress"]

\* The entry is read and proved under the key that was asked for, as long as
\* the chain's ID fits an int64; and if the two keys are the same, it does.
ChainKeysAgree ==
  stage = "keyed" =>
    /\ srcChain < Half => keys.read = srcChain /\ keys.proved = srcChain
    /\ keys.read = keys.proved => srcChain < Half

=============================================================================
