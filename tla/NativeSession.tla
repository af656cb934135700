--------------------------- MODULE NativeSession ---------------------------
(***************************************************************************)
(* What a run of proveNative promises, and the instances TLC checks it on. *)
(***************************************************************************)
EXTENDS ProveNative, SequencesExt

CONSTANTS
  BedrockConfigs,  \* versions of the Bedrock type, with one slot
  OddConfigs       \* versions of an unsupported type, with nothing in them

\* The other versions are of the Cannon type and have what its prover needs.
MCTypeOf ==
  [c \in Configs |-> IF c \in OddConfigs THEN 3
                     ELSE IF c \in BedrockConfigs THEN OPStackBedrock
                     ELSE OPStackCannon]

MCAddressCount == [c \in Configs |-> IF c \in OddConfigs THEN 0 ELSE 1]

MCSlotCount ==
  [c \in Configs |-> IF c \in OddConfigs THEN 0
                     ELSE IF c \in BedrockConfigs THEN 1 ELSE 3]

\* Outputs are only compared with one another.
OutputsAlike == Permutations(Outputs)

(***************************************************************************)
(* Steps Go takes by itself, and steps that need a node's answer, if only  *)
(* an error.  Only the first are taken for granted: a property that needs  *)
(* the nodes to answer says so.                                            *)
(***************************************************************************)
GoSteps ==
  /\ \/ (ProverLocal \/ CtxFails(ProverCalls))
        /\ UNCHANGED <<originVars, registryVars, scanVars, settledVars, outputVars>>
     \/ (Tick \/ StartPoll \/ OriginStops)
        /\ UNCHANGED <<registryVars, scanVars, settledVars, outputVars>>
     \/ RegistryStops /\ UNCHANGED <<originVars, scanVars, settledVars, outputVars>>
     \/ (ScanStops \/ (cancelled /\ SkipStatusError))
        /\ UNCHANGED <<originVars, registryVars, settledVars, outputVars>>
     \/ (SettledLocal \/ SettledStops)
        /\ UNCHANGED <<originVars, registryVars, scanVars, outputVars>>
     \/ OutputStops /\ UNCHANGED <<originVars, registryVars, scanVars, settledVars>>
  /\ UNCHANGED l1vars

NodeSteps ==
  /\ \/ (ProverAnswers \/ RpcFails(ProverCalls))
        /\ UNCHANGED <<originVars, registryVars, scanVars, settledVars, outputVars>>
     \/ (OriginAnswers \/ OriginErrors)
        /\ UNCHANGED <<registryVars, scanVars, settledVars, outputVars>>
     \/ (RegistryAnswers \/ RegistryErrors)
        /\ UNCHANGED <<originVars, scanVars, settledVars, outputVars>>
     \/ (GamesAnswer \/ ScanErrors)
        /\ UNCHANGED <<originVars, registryVars, settledVars, outputVars>>
     \/ (SettledAnswers(header.num, found) \/ SettledErrors)
        /\ UNCHANGED <<originVars, registryVars, scanVars, outputVars>>
     \/ (OutputsAnswer \/ OutputErrors)
        /\ UNCHANGED <<originVars, registryVars, scanVars, settledVars>>
  /\ UNCHANGED l1vars

GoSpec == Spec /\ WF_vars(GoSteps)

NodesAnswer == WF_vars(NodeSteps)

-----------------------------------------------------------------------------

NativeLabels ==
  ProverCalls \cup OriginLabels \cup Fields \cup UpdateCalls \cup ScanLabels
    \cup SettledCalls \cup OutputCalls \cup {"branch", "header", "checks", "encode"}

TypeOK ==
  /\ L1TypeOK
  /\ SessionTypeOK
  /\ OriginTypeOK
  /\ RegistryTypeOK
  /\ ScanTypeOK
  /\ SettledTypeOK
  /\ OutputTypeOK
  /\ pc \in NativeLabels \cup Ended

\* GenerateSettledStateProof reads two fields of the game's status slot and
\* writes down the other three: "must be true if the game resolved", "must be
\* false if the game resolved in favor of defender" (op-stack-cannon.go:796).
\* Until the first reorganisation, the slot it claims is the one its storage
\* proof is of, although the search looked at another, perhaps later block than
\* the one proved; and there is a proof, although a null one is only noticed
\* three calls later.
StatusTruthful ==
  (settled # NoAnswer /\ forks = 0) =>
    nulls = {} /\ settled.slot = StoredStatus(answers["proofs"])

\* The blocks the calls made so far at the header's number were answered from.
PinnedForks ==
  {answers[c].fork : c \in {d \in PinnedCalls : answers[d] # NoAnswer}}
    \cup {p.fork : p \in {outputProof, l2Output} \ {NoOutput}}
    \cup {p.fork : p \in {regProof} \ {NoRead}}

\* All the calls of both GenerateSettledStateProof and the registry's proof
\* carry the header's number, not its hash.  As long as the header is
\* canonical, they were all answered from its block: a reorganisation in
\* between shows, as a branch once orphaned does not come back.
CanonicalProofsMatch ==
  (header # Nil /\ Canonical(header)) => PinnedForks \subseteq {header.fork}

\* The Bedrock prover proves one output and goes on with the L2 block of
\* another call's answer (op-stack-bedrock.go:241).  They are the same output
\* if the header is canonical, however often the index was deleted and taken
\* again meanwhile.
OutputAsProved ==
  (/\ l2Output # NoOutput
   /\ Canonical(header)
   /\ l2Config["slots"] \in Versions(OPStackBedrock))
    => outputProof.output = l2Output.output

OutputsOnlyAdded ==
  /\ forks = 0
  /\ \A n \in 2..head : IsPrefix(chain[n - 1].outputs, chain[n].outputs)

\* FindLatestResolved hands on an index, which outlives the output it names.
\* While outputs are only added, the output gone on with is the newest of the
\* time of the search, whichever block it is proved in.
NewestOutputProven ==
  (l2Output # NoOutput /\ OutputsOnlyAdded) => l2Output.output = newest

RegistryQuiet ==
  /\ forks = 0
  /\ \A n \in Heights :
       (n <= head /\ (n >= readFrom \/ n >= header.num))
         => chain[n].config = Latest.config

\* The registry entry is read seven times at the latest block and proved once
\* at the L1 origin's.  If it did not change from the first read, or from the
\* origin's block when that is older, up to the head, then the calldata's
\* entry, the one the search used and the proved one are the same version, as
\* long as no reorganisation takes the blocks away.
QuietConfigAgrees ==
  (pc = "done" /\ RegistryQuiet) =>
    /\ \A f \in UpdateFields : update[f] = regProof.config
    /\ \A f \in Fields : l2Config[f] = regProof.config

\* The configuration in the calldata is the one its storage proof is of
\* ("builds a complete UpdateL2ConfigArgs structure", registry.go:363).
ConfigAgrees == pc = "done" => \A f \in UpdateFields : update[f] = regProof.config

-----------------------------------------------------------------------------
(***************************************************************************)
(* The run as one of PinnedRun.  What a block tells depends on what the    *)
(* searches before found: a game, of which it has a state, or an index, at *)
(* which it may have an output.                                            *)
(***************************************************************************)
Listed == l2Config["slots"] \in Versions(OPStackBedrock)

OutputTold(n, there) ==
  [ fork   |-> chain[n].fork,
    output |-> IF there /\ HasOutput(chain[n], outputIndex)
               THEN OutputAt(chain[n], outputIndex)
               ELSE NoOutput ]

BlockTells(n) ==
  [ config |-> chain[n].config,
    games  |-> {IF found = NoGame THEN NoAnswer ELSE AnswerAt(n, found)},
    claim  |-> IF found = NoGame THEN NoAnswer
               ELSE [ game     |-> found,
                      created  |-> Exists(chain[n], found),
                      resolved |-> chain[n].games[found] \in Resolved ],
    proof  |-> IF newest = NoOutput THEN NoOutput ELSE OutputTold(n, Listed),
    output |-> IF newest = NoOutput THEN NoOutput ELSE OutputTold(n, TRUE) ]

\* All that is proved against the header in the end, with the two fields of the
\* game's status slot that are read.
Evidence ==
  [ config |-> regProof.config,
    games  |-> {answers[c] : c \in PinnedCalls},
    claim  |-> IF settled = NoAnswer THEN NoAnswer
               ELSE [ game     |-> settled.game,
                      created  |-> settled.slot.created,
                      resolved |-> settled.slot.resolved ],
    proof  |-> outputProof,
    output |-> l2Output ]

Told == [h \in {HashAt(n) : n \in 1..head} |-> BlockTells(h.num)]

Run == INSTANCE PinnedRun WITH
  None     <- Nil,
  oracle   <- origin,
  told     <- Told,
  phase    <- Phase,
  pinned   <- newHash,
  evidence <- IF pc = "done" THEN Evidence ELSE Nil

\* A dozen calls carry the pinned block's number, and the registry, the games
\* and the outputs move between any two of them.  Together they hand over what
\* the one block tells that was taken from the oracle, unless it was orphaned.
ImplementsRun == Run!Spec

-----------------------------------------------------------------------------

\* A run ends if the nodes answer every call: waiting for an epoch is bounded,
\* the search only goes down, and nothing is retried.
Terminates == NodesAnswer => <>(pc \in Ended)

\* "Create a context that gets canceled on interrupt signal" (main.go:37):
\* an interrupted run ends, whatever the nodes do.
CancelStops == cancelled ~> (pc \in Ended)

\* Only the three calls of GetL2Configuration can keep an interrupted run
\* alive: anywhere else every call carries the context, and the run ends
\* whatever the nodes do.
CancelStopsElsewhere == (cancelled /\ pc \notin Fields) ~> (pc \in Ended)

=============================================================================
