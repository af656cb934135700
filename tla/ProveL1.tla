------------------------------ MODULE ProveL1 ------------------------------
(***************************************************************************)
(* One run of the proveNativeL1 command (cmd/main.go, l1prover.go): the L1 *)
(* origin as in L1Origin, then the value of an L1 storage slot, read at    *)
(* the latest block, and its proof, made at the origin's number.           *)
(***************************************************************************)
EXTENDS L1Origin

VARIABLES
  storageValue,  \* StorageValue of the calldata
  slotProof      \* [fork, value]: the block and value l1StorageProof is of

ASSUME SlotProofAssumption == Nil \notin [fork : 0..MaxReorgs, value : Values]

l1ProverVars == <<storageValue, slotProof>>

vars == <<l1vars, sessionVars, originVars, l1ProverVars>>

-----------------------------------------------------------------------------

\* NewL1Prover: GetL1BlockHashOracle.
ReadOracleAddress ==
  /\ Answered("oracle", "origin")
  /\ UNCHANGED l1ProverVars

\* GetStorageAt(..., nil)
GetStorageAt ==
  /\ Answered("header", "proof")
  /\ storageValue' = Latest.slot
  /\ UNCHANGED slotProof

\* Slips: the proof is made in the parent of the origin's block, or in the
\* latest one.
GenerateStorageProofParent ==
  /\ Answered("proof", "encode")
  /\ header.num \in 2..head
  /\ slotProof' = [fork |-> chain[header.num - 1].fork, value |-> chain[header.num - 1].slot]
  /\ UNCHANGED storageValue

GenerateStorageProofLatest ==
  /\ Answered("proof", "encode")
  /\ slotProof' = [fork |-> Latest.fork, value |-> Latest.slot]
  /\ UNCHANGED storageValue

\* A number above the head has no block: that is RpcFails.
GenerateStorageProof ==
  /\ Answered("proof", "encode")
  /\ header.num <= head
  /\ slotProof' = [fork |-> chain[header.num].fork, value |-> chain[header.num].slot]
  /\ UNCHANGED storageValue

\* EncodeProveL1NativeCalldata, and the command prints the calldata.
Encode == Moves("encode", "done") /\ UNCHANGED l1ProverVars

L1Calls == {"oracle", "header", "proof"}

L1Answers == ReadOracleAddress \/ GetStorageAt \/ GenerateStorageProof

\* Slip: the storage calls do not carry the context.
L1StopsBeforeStorage == CtxFails({"oracle"}) /\ UNCHANGED l1ProverVars

L1Stops == CtxFails(L1Calls) /\ UNCHANGED l1ProverVars

L1Errors == RpcFails(L1Calls) /\ UNCHANGED l1ProverVars

ProverStep == L1Answers \/ Encode \/ L1Stops \/ L1Errors

-----------------------------------------------------------------------------

Init ==
  /\ L1Init
  /\ SessionInit("oracle")
  /\ OriginInit
  /\ storageValue = Nil
  /\ slotProof = Nil

Next ==
  \/ ProverStep /\ UNCHANGED <<l1vars, originVars>>
  \/ OriginNext /\ UNCHANGED <<l1vars, l1ProverVars>>
  \/ Interrupt /\ UNCHANGED <<l1vars, originVars, l1ProverVars>>
  \/ L1Next /\ UNCHANGED <<sessionVars, originVars, l1ProverVars>>

Spec == Init /\ [][Next]_vars

=============================================================================
