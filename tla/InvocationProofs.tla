-------------------------- MODULE InvocationProofs --------------------------
(***************************************************************************)
(* From the command line to a session, for every command line, every       *)
(* environment, and all widths of integers: that a session begins with no  *)
(* required setting left out, where two settings can meet, and when the    *)
(* two keys of the source chain are one.                                   *)
(***************************************************************************)
EXTENDS Invocation, TLAPS

\* The fields a command reads, each with its flag.
Read(cmd) == ConfigFields(cmd) \cup DOMAIN ParamFlag

FlagOf(x) == IF x \in DOMAIN ConfigFlag THEN ConfigFlag[x] ELSE ParamFlag[x]

(***************************************************************************)
(* A setting, once read, is from the place its flag is read from: nothing  *)
(* between the check of the required flags and the session changes the     *)
(* command line or the environment.                                        *)
(***************************************************************************)
SettingsInv ==
  /\ command \in {"proveNative", "proveNativeL1"}
  /\ stage \in {"parse", "check", "config", "params", "session", "keyed", "failed"}
  /\ stage \in {"config", "params", "session", "keyed"} =>
       \A f \in Required(command) : IsSet(f)
  /\ stage \in {"parse", "check", "config", "failed"} => DOMAIN settings = {}
  /\ DOMAIN settings \subseteq Read(command)
  /\ \A x \in DOMAIN settings : settings[x] = Source(FlagOf(x))

KeysInv ==
  /\ srcChain \in 0..(2 * Half - 1)
  /\ stage # "keyed" => keys = <<>>
  /\ stage = "keyed" =>
       keys = [read |-> Packed(BigInt(srcChain)), proved |-> SlotKey(BigInt(srcChain))]

-----------------------------------------------------------------------------
(* The lists of flags. *)

LEMMA FieldNames ==
  /\ DOMAIN ConfigFlag = {"L1HTTPPath", "SrcL2RPC", "DstL2RPC", "SrcL2ChainID",
                          "DstL2ChainID", "RegistryAddress", "ConfigWaitForNewEpoch"}
  /\ DOMAIN ParamFlag = {"Address", "StorageSlot", "WaitForNewEpoch",
                         "EpochPollingFreq", "EpochPollingTries"}
  BY DEF ConfigFlag, ParamFlag

\* Every field a command reads has a flag it requires or an optional one:
\* the lists of flags.go and the readers of config.go agree.
LEMMA ReadIsListed ==
  ASSUME NEW cmd \in {"proveNative", "proveNativeL1"}, NEW x \in Read(cmd)
  PROVE  FlagOf(x) \in Required(cmd) \cup Optional
<1>1. CASE x \in ConfigFields(cmd)
  BY <1>1, FieldNames DEF ConfigFields, ConfigFlag, FlagOf, Required, Optional
<1>2. CASE x \in DOMAIN ParamFlag
  BY <1>2, FieldNames DEF ParamFlag, FlagOf, Required, Optional
<1> QED
  BY <1>1, <1>2 DEF Read

\* One flag is read into two fields, and one variable is that of two flags.
LEMMA FlagsApart ==
  ASSUME NEW x \in DOMAIN ConfigFlag \cup DOMAIN ParamFlag,
         NEW y \in DOMAIN ConfigFlag \cup DOMAIN ParamFlag, x # y,
         {x, y} # {"ConfigWaitForNewEpoch", "WaitForNewEpoch"}
  PROVE  /\ FlagOf(x) # FlagOf(y)
         /\ EnvVar[FlagOf(x)] = EnvVar[FlagOf(y)] =>
              /\ {x, y} = {"StorageSlot", "RegistryAddress"}
              /\ EnvVar[FlagOf(x)] = EnvVar["SrcStorageSlot"]
  BY FieldNames DEF ConfigFlag, ParamFlag, FlagOf, EnvVar

-----------------------------------------------------------------------------

LEMMA SettingsInit == Init => SettingsInv /\ KeysInv
  BY DEF Init, SettingsInv, KeysInv

LEMMA SourceKept ==
  ASSUME UNCHANGED inputs
  PROVE  /\ \A f : Source(f)' = Source(f)
         /\ \A f : IsSet(f)' = IsSet(f)
         /\ Required(command)' = Required(command)
         /\ Read(command)' = Read(command)
  BY DEF inputs, Source, IsSet, EnvSets

LEMMA SettingsStep ==
  ASSUME SettingsInv, [Next]_vars
  PROVE  SettingsInv'
<1>0. UNCHANGED inputs /\ UNCHANGED command
  BY DEF Next, Parse, CheckRequired, NewConfig, NewParams, UseChainID, vars, inputs
<1>1. CASE UNCHANGED settings /\ (UNCHANGED stage \/ Parse \/ CheckRequired \/ UseChainID)
  BY <1>0, <1>1, SourceKept DEF SettingsInv, Parse, CheckRequired, UseChainID
<1>2. CASE NewConfig
  BY <1>0, <1>2, SourceKept
  DEF SettingsInv, NewConfig, Read, ConfigFields, FlagOf
<1>3. CASE NewParams
  <2>1. /\ stage = "params" /\ stage' = "session"
        /\ DOMAIN settings' = DOMAIN settings \cup DOMAIN ParamFlag
        /\ \A x \in DOMAIN settings' :
             settings'[x] = IF x \in DOMAIN settings THEN settings[x]
                            ELSE Source(ParamFlag[x])
    BY <1>3 DEF NewParams
  <2>2. \A x \in DOMAIN ParamFlag : FlagOf(x) = ParamFlag[x]
    BY FieldNames DEF FlagOf
  <2> QED
    BY <1>0, <2>1, <2>2, SourceKept DEF SettingsInv, Read
<1> QED
  BY <1>1, <1>2, <1>3 DEF Next, Parse, CheckRequired, UseChainID, vars

LEMMA KeysStep ==
  ASSUME KeysInv, [Next]_vars
  PROVE  KeysInv'
  BY DEF KeysInv, Next, Parse, CheckRequired, NewConfig, NewParams, UseChainID, vars,
     inputs

LEMMA Invariant == Spec => [](SettingsInv /\ KeysInv)
<1>1. SettingsInv /\ KeysInv /\ [Next]_vars => SettingsInv' /\ KeysInv'
  BY SettingsStep, KeysStep
<1> QED
  BY <1>1, SettingsInit, PTL DEF Spec

-----------------------------------------------------------------------------

\* No required setting of a session is left at a default, for every command
\* line, every environment and both commands.
THEOREM NothingIsLeftOut == Spec => []NothingLeftOut
<1>1. SettingsInv => NothingLeftOut
  <2> SUFFICES ASSUME SettingsInv, NEW x \in DOMAIN settings, settings[x][1] = "default"
               PROVE  settings[x][2] \in Optional
    BY DEF NothingLeftOut
  <2>1. settings[x] = Source(FlagOf(x)) /\ x \in Read(command)
    BY DEF SettingsInv
  <2>2. ~IsSet(FlagOf(x)) /\ settings[x][2] = FlagOf(x)
    BY <2>1 DEF Source, IsSet
  <2>3. FlagOf(x) \notin Required(command)
    BY <2>2 DEF SettingsInv
  <2> QED
    BY <2>1, <2>2, <2>3, ReadIsListed DEF SettingsInv
<1> QED
  BY <1>1, Invariant, PTL

\* Two settings of a session come from one place only if they are copies of one
\* flag, or the storage slot and the registry's address from the variable that
\* their flags share, for every command line and every environment.
THEOREM PlacesAreApart == Spec => []PlacesApart
<1>1. SettingsInv => PlacesApart
  <2> SUFFICES ASSUME SettingsInv, NEW x \in DOMAIN settings, NEW y \in DOMAIN settings,
                      x # y, settings[x] = settings[y],
                      {x, y} # {"ConfigWaitForNewEpoch", "WaitForNewEpoch"}
               PROVE  /\ {x, y} = {"StorageSlot", "RegistryAddress"}
                      /\ settings[x] = <<"environment", EnvVar["SrcStorageSlot"]>>
    BY DEF PlacesApart
  <2>1. /\ x \in DOMAIN ConfigFlag \cup DOMAIN ParamFlag
        /\ y \in DOMAIN ConfigFlag \cup DOMAIN ParamFlag
        /\ settings[x] = Source(FlagOf(x)) /\ Source(FlagOf(x)) = Source(FlagOf(y))
    BY DEF SettingsInv, Read, ConfigFields
  <2>2. FlagOf(x) # FlagOf(y)
    BY <2>1, FlagsApart
  <2>3. /\ EnvVar[FlagOf(x)] = EnvVar[FlagOf(y)]
        /\ settings[x] = <<"environment", EnvVar[FlagOf(x)]>>
    BY <2>1, <2>2 DEF Source
  <2> QED
    BY <2>1, <2>3, FlagsApart
<1> QED
  BY <1>1, Invariant, PTL

-----------------------------------------------------------------------------
(* The keys of the source chain. *)

LEMMA Remainder ==
  ASSUME NEW n \in Int, NEW k \in Nat, -k < n, n < k
  PROVE  n % k = IF n < 0 THEN n + k ELSE n
  OBVIOUS

\* The two keys, as numbers.
LEMMA KeysOf ==
  ASSUME NEW id \in 0..(2 * Half - 1)
  PROVE  /\ id < Half => Packed(BigInt(id)) = id /\ SlotKey(BigInt(id)) = id
         /\ id >= Half => /\ Packed(BigInt(id)) = KeySpan - 2 * Half + id
                          /\ SlotKey(BigInt(id)) = 2 * Half - id
<1>1. BigInt(id) = IF id < Half THEN id ELSE id - 2 * Half
  BY DEF BigInt
<1>2. BigInt(id) \in Int /\ -KeySpan < BigInt(id) /\ BigInt(id) < KeySpan
  BY <1>1, InvocationAssumption
<1>3. Packed(BigInt(id)) = IF BigInt(id) < 0 THEN BigInt(id) + KeySpan ELSE BigInt(id)
  BY <1>2, Remainder, InvocationAssumption DEF Packed
<1> QED
  BY <1>1, <1>3, InvocationAssumption DEF SlotKey

\* The entry of the source chain is read and proved under one key exactly when
\* the chain's ID fits an int64, whatever the widths of integers are.
THEOREM KeysAgree == Spec => []ChainKeysAgree
<1>1. KeysInv => ChainKeysAgree
  BY KeysOf, InvocationAssumption DEF KeysInv, ChainKeysAgree
<1> QED
  BY <1>1, Invariant, PTL

\* The stages of an invocation, the settings it has and the range of its keys.
THEOREM TypeCorrect == Spec => []TypeOK
<1>1. SettingsInv /\ KeysInv => TypeOK
  <2> SUFFICES ASSUME SettingsInv, KeysInv PROVE TypeOK
    OBVIOUS
  <2>1. keys = <<>> \/ keys \in [read : 0..(KeySpan - 1), proved : 0..Half]
    BY KeysOf, InvocationAssumption DEF KeysInv
  <2> QED
    BY <2>1 DEF TypeOK, SettingsInv, Read, ConfigFields
<1> QED
  BY <1>1, Invariant, PTL

=============================================================================
