------------------------------ MODULE Registry ------------------------------
(***************************************************************************)
(* RegistryProver (provers/registry.go).  The Registry's entry for the     *)
(* source chain is read twice: by GetL2Configuration, three calls that     *)
(* NewProver makes with context.Background(), and by                       *)
(* GetL2ConfigurationForUpdate, four calls with the session's context.     *)
(* Each call is at the latest block, so each may see another version of    *)
(* the entry; GetRegistryStorageProof then proves the entry of the L1      *)
(* origin's block.                                                         *)
(*                                                                         *)
(* GetL2Configuration: entered at "type", left at "branch".                *)
(* GenerateUpdateL2ConfigArgs: entered at "updType", left at "encode".     *)
(***************************************************************************)
EXTENDS L1Chain, Session

CONSTANTS
  TypeOf,        \* getL2ConfigType() of each version of the entry
  AddressCount,  \* how many addresses each version has
  SlotCount,     \* how many storage slots
  NoRead         \* a field not read yet

\* What the registry's storage proof is of: an entry, in a block of some fork.
RegistryProof == [config : Configs, fork : 0..MaxReorgs]

ASSUME RegistryAssumption ==
  /\ TypeOf \in [Configs -> Nat]
  /\ AddressCount \in [Configs -> Nat]
  /\ SlotCount \in [Configs -> Nat]
  /\ NoRead \notin Configs \cup RegistryProof

VARIABLES
  l2Config,  \* the version each field of L2ConfigInfo was read from
  update,    \* the version each field of L2Configuration was read from
  regProof,  \* the version the registry storage proof is of, and the block's fork
  readFrom   \* head when l2Config's first field was read; only in properties

registryVars == <<l2Config, update, regProof, readFrom>>

Fields       == {"type", "addresses", "slots"}
UpdateFields == Fields \cup {"chain"}  \* prover, version and finality delay

\* The enum of the Registry contract.
OPStackBedrock == 1
OPStackCannon  == 2

-----------------------------------------------------------------------------

RegistryInit ==
  /\ l2Config = [f \in Fields |-> NoRead]
  /\ update = [f \in UpdateFields |-> NoRead]
  /\ regProof = NoRead
  /\ readFrom = 0

\* One call of GetL2Configuration.
ReadConfig(field, to) ==
  /\ Moves(field, to)
  /\ l2Config' = [l2Config EXCEPT ![field] = Latest.config]
  /\ readFrom' = IF field = "type" THEN head ELSE readFrom
  /\ UNCHANGED <<update, regProof>>

GetL2Configuration ==
  \/ ReadConfig("type", "addresses")
  \/ ReadConfig("addresses", "slots")
  \/ ReadConfig("slots", "branch")

\* One call of GetL2ConfigurationForUpdate.
ReadUpdate(label, field, to) ==
  /\ Answered(label, to)
  /\ update' = [update EXCEPT ![field] = Latest.config]
  /\ UNCHANGED <<l2Config, regProof, readFrom>>

Updatable(config) == TypeOf[config] \in {OPStackBedrock, OPStackCannon}

GetL2ConfigurationForUpdate ==
  \/ Updatable(Latest.config) /\ ReadUpdate("updType", "type", "updAddresses")
  \/ ReadUpdate("updAddresses", "addresses", "updSlots")
  \/ ReadUpdate("updSlots", "slots", "updChain")
  \/ ReadUpdate("updChain", "chain", "regProof")

\* unsupported L2 type enum value
UnsupportedUpdate ==
  /\ pc = "updType"
  /\ ~cancelled
  /\ ~Updatable(Latest.config)
  /\ Fails("config")
  /\ UNCHANGED registryVars

\* Slip: the entry is proved in the parent of the origin's block.
GetRegistryStorageProofParent(n) ==
  /\ Answered("regProof", "encode")
  /\ n \in 2..head
  /\ regProof' = [config |-> chain[n - 1].config, fork |-> chain[n - 1].fork]
  /\ UNCHANGED <<l2Config, update, readFrom>>

\* eth_getProof at the L1 origin's number; a block above the head is unknown.
GetRegistryStorageProof(n) ==
  /\ Answered("regProof", "encode")
  /\ n <= head
  /\ regProof' = [config |-> chain[n].config, fork |-> chain[n].fork]
  /\ UNCHANGED <<l2Config, update, readFrom>>

UpdateCalls == {"updType", "updAddresses", "updSlots", "updChain", "regProof"}

RegistryStops == CtxFails(UpdateCalls) /\ UNCHANGED registryVars

RegistryErrors == RpcFails(Fields \cup UpdateCalls) /\ UNCHANGED registryVars

-----------------------------------------------------------------------------

RegistryTypeOK ==
  /\ l2Config \in [Fields -> Configs \cup {NoRead}]
  /\ update \in [UpdateFields -> Configs \cup {NoRead}]
  /\ regProof \in RegistryProof \cup {NoRead}
  /\ readFrom \in 0..MaxHeight

=============================================================================
