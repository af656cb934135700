---------------------------- MODULE BedrockProof ----------------------------
(***************************************************************************)
(* OPStackBedrockProver (provers/op-stack-bedrock.go).  FindLatestResolved *)
(* takes the newest index of the L2OutputOracle at the latest block.       *)
(* GenerateSettledStateProof proves the output of that index against L1    *)
(* block number n, asks for the output itself, at n too, and for the L2    *)
(* block it names.  An index is not an output: the one it names can be     *)
(* deleted and another proposed between any two calls.                     *)
(*                                                                         *)
(* FindLatestResolved: entered at "outputIndex", left at "origin".         *)
(* GenerateSettledStateProof: entered at "outputProof", left at "value".   *)
(***************************************************************************)
EXTENDS L1Chain, Session

CONSTANT NoOutput  \* no output

VARIABLES
  outputIndex,  \* the index of the search
  newest,       \* the output it named when it was read; only in properties
  outputProof,  \* the output the storage proof is of, and the block's fork
  l2Output      \* the output whose L2 block the proof goes on with, likewise

outputVars == <<outputIndex, newest, outputProof, l2Output>>

\* What a storage proof can be of: an empty slot has one too.
ProvenOutput == [fork : 0..MaxReorgs, output : Outputs \cup {NoOutput}]

ASSUME BedrockAssumption == NoOutput \notin Outputs \cup ProvenOutput

-----------------------------------------------------------------------------

OutputInit ==
  /\ outputIndex = 0
  /\ newest = NoOutput
  /\ outputProof = NoOutput
  /\ l2Output = NoOutput

\* Slip: no output is taken for the first one.
ReadOutputIndexEmpty ==
  /\ Answered("outputIndex", "origin")
  /\ outputIndex' = IF Latest.outputs = <<>> THEN 0 ELSE Len(Latest.outputs) - 1
  /\ newest' = IF Latest.outputs = <<>> THEN NoOutput ELSE OutputAt(Latest, outputIndex')
  /\ UNCHANGED <<outputProof, l2Output>>

\* latestOutputIndex() reverts on an empty list: that is RpcFails.
ReadOutputIndex ==
  /\ Latest.outputs # <<>>
  /\ Answered("outputIndex", "origin")
  /\ outputIndex' = Len(Latest.outputs) - 1
  /\ newest' = OutputAt(Latest, outputIndex')
  /\ UNCHANGED <<outputProof, l2Output>>

(***************************************************************************)
(* eth_getProof of the slot computed from the index and the entry's first  *)
(* slot, which is the list's if the entry is of this type ("listed").  A   *)
(* slot that holds nothing has a proof too.                                *)
(***************************************************************************)
GetOutputProof(n, listed) ==
  /\ Answered("outputProof", "getOutput")
  /\ n <= head
  /\ outputProof' =
       [ fork   |-> chain[n].fork,
         output |-> IF listed /\ HasOutput(chain[n], outputIndex)
                    THEN OutputAt(chain[n], outputIndex)
                    ELSE NoOutput ]
  /\ UNCHANGED <<outputIndex, newest, l2Output>>

\* Slip: the output is asked for at the latest block.
GetL2OutputLatest(n) ==
  /\ Answered("getOutput", "outputBatch")
  /\ HasOutput(Latest, outputIndex)
  /\ l2Output' = [fork |-> Latest.fork, output |-> OutputAt(Latest, outputIndex)]
  /\ UNCHANGED <<outputIndex, newest, outputProof>>

GetL2Output(n) ==
  /\ Answered("getOutput", "outputBatch")
  /\ n <= head
  /\ HasOutput(chain[n], outputIndex)
  /\ l2Output' = [fork |-> chain[n].fork, output |-> OutputAt(chain[n], outputIndex)]
  /\ UNCHANGED <<outputIndex, newest, outputProof>>

\* The L2 header and message passer root; then the proof is put together.
OutputBatch == Answered("outputBatch", "value") /\ UNCHANGED outputVars

OutputAnswers(n, listed) ==
  ReadOutputIndex \/ GetOutputProof(n, listed) \/ GetL2Output(n) \/ OutputBatch

OutputCalls == {"outputIndex", "outputProof", "getOutput", "outputBatch"}

OutputStops == CtxFails(OutputCalls) /\ UNCHANGED outputVars

\* An answer of null to eth_getProof is one of these: its proof list is empty.
OutputErrors == RpcFails(OutputCalls) /\ UNCHANGED outputVars

-----------------------------------------------------------------------------

OutputTypeOK ==
  /\ outputIndex \in 0..MaxOutputs
  /\ newest \in Outputs \cup {NoOutput}
  /\ outputProof \in ProvenOutput \cup {NoOutput}
  /\ l2Output \in [fork : 0..MaxReorgs, output : Outputs] \cup {NoOutput}

=============================================================================
