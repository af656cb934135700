---------------------------- MODULE ProveNative ----------------------------
(***************************************************************************)
(* One run of the proveNative command (cmd/main.go): NewProver reads the   *)
(* registry, chooses the prover of the entry's type and lets it search,    *)
(* then GenerateProveNativeCalldata picks an L1 block and proves what the  *)
(* search found, the L2 storage and the registry entry against it.  The    *)
(* components run one after the other on one goroutine; the chains and the *)
(* interrupt move between any two of their calls.                          *)
(***************************************************************************)
EXTENDS L1Origin, Registry, CannonScan, CannonProof, BedrockProof

vars == <<l1vars, sessionVars, originVars, registryVars, scanVars, settledVars, outputVars>>

-----------------------------------------------------------------------------
(* The steps of Prover itself. *)

\* GetL1BlockHashOracle, the only read of NewProver that uses its context.
ReadOracleAddress == Answered("oracle", "type")

ChosenType == TypeOf[l2Config["type"]]

\* The addresses and slots FindLatestResolved of each prover asks for.
CanSearchGames ==
  /\ ChosenType = OPStackCannon
  /\ AddressCount[l2Config["addresses"]] > 0
  /\ SlotCount[l2Config["slots"]] >= 3

CanSearchOutputs ==
  /\ ChosenType = OPStackBedrock
  /\ AddressCount[l2Config["addresses"]] > 0
  /\ SlotCount[l2Config["slots"]] > 0

\* The choice of the settled state prover, with the check its search begins
\* with; any other type is not supported.
ChooseProver ==
  \/ Moves("branch", "gameCount") /\ CanSearchGames
  \/ Moves("branch", "outputIndex") /\ CanSearchOutputs

RejectConfig ==
  /\ pc = "branch"
  /\ ~CanSearchGames
  /\ ~CanSearchOutputs
  /\ Fails("config")

\* GenerateSettledStateProof repeats that check, on the same entry.
BeginSettledProof ==
  \/ Moves("header", "gameId") /\ ChosenType = OPStackCannon
  \/ Moves("header", "outputProof") /\ ChosenType = OPStackBedrock

\* GetStorageAt and GenerateStorageProof, both at the L2 header's number.
ReadL2Storage ==
  \/ Answered("value", "valueProof")
  \/ Answered("valueProof", "updType")

\* EncodeProveNativeCalldata, and the command prints the calldata.
Encode == Moves("encode", "done")

ProverCalls == {"oracle", "value", "valueProof"}

ProverAnswers == ReadOracleAddress \/ ReadL2Storage

ProverLocal == ChooseProver \/ RejectConfig \/ BeginSettledProof \/ Encode

ProverStep ==
  ProverAnswers \/ ProverLocal \/ CtxFails(ProverCalls) \/ RpcFails(ProverCalls)

-----------------------------------------------------------------------------
(* The components, each with what the others have left it. *)

RegistryAnswers ==
  \/ GetL2Configuration
  \/ GetL2ConfigurationForUpdate
  \/ UnsupportedUpdate
  \/ GetRegistryStorageProof(header.num)

Versions(type) == {c \in Configs : TypeOf[c] = type}

\* The addresses can be of another version than the type: the contract there
\* reverts when it is called for what it does not have, which is RpcFails.
Serves(type) == l2Config["addresses"] \in Versions(type)

GamesAnswer == Serves(OPStackCannon) /\ ScanAnswers

OutputsAnswer ==
  /\ Serves(OPStackBedrock)
  /\ OutputAnswers(header.num, l2Config["slots"] \in Versions(OPStackBedrock))

ProverDoes ==
  ProverStep /\ UNCHANGED <<originVars, registryVars, scanVars, settledVars, outputVars>>

OriginDoes ==
  OriginNext /\ UNCHANGED <<registryVars, scanVars, settledVars, outputVars>>

RegistryDoes ==
  /\ RegistryAnswers \/ RegistryStops \/ RegistryErrors
  /\ UNCHANGED <<originVars, scanVars, settledVars, outputVars>>

ScanDoes ==
  /\ GamesAnswer \/ ScanSkips \/ ScanStops \/ ScanErrors
  /\ UNCHANGED <<originVars, registryVars, settledVars, outputVars>>

SettledDoes ==
  /\ SettledAnswers(header.num, found) \/ SettledLocal \/ SettledStops \/ SettledErrors
  /\ UNCHANGED <<originVars, registryVars, scanVars, outputVars>>

OutputDoes ==
  /\ OutputsAnswer \/ OutputStops \/ OutputErrors
  /\ UNCHANGED <<originVars, registryVars, scanVars, settledVars>>

SessionNext ==
  ProverDoes \/ OriginDoes \/ RegistryDoes \/ ScanDoes \/ SettledDoes \/ OutputDoes

Init ==
  /\ L1Init
  /\ SessionInit("oracle")
  /\ OriginInit
  /\ RegistryInit
  /\ ScanInit
  /\ SettledInit
  /\ OutputInit

Next ==
  \/ SessionNext /\ UNCHANGED l1vars
  \/ /\ Interrupt
     /\ UNCHANGED <<l1vars, originVars, registryVars, scanVars, settledVars, outputVars>>
  \/ /\ L1Next
     /\ UNCHANGED <<sessionVars, originVars, registryVars, scanVars, settledVars, outputVars>>

Spec == Init /\ [][Next]_vars

=============================================================================
