----------------------------- MODULE L1Session -----------------------------
(***************************************************************************)
(* What a run of proveNativeL1 promises.                                   *)
(***************************************************************************)
EXTENDS ProveL1

\* Steps Go takes by itself, and steps that need a node's answer, if only an
\* error.  Only the first are taken for granted.
GoSteps ==
  /\ \/ (Encode \/ L1Stops) /\ UNCHANGED originVars
     \/ (Tick \/ StartPoll \/ OriginStops) /\ UNCHANGED l1ProverVars
  /\ UNCHANGED l1vars

NodeSteps ==
  /\ \/ (L1Answers \/ L1Errors) /\ UNCHANGED originVars
     \/ (OriginAnswers \/ OriginErrors) /\ UNCHANGED l1ProverVars
  /\ UNCHANGED l1vars

GoSpec == Spec /\ WF_vars(GoSteps)

NodesAnswer == WF_vars(NodeSteps)

-----------------------------------------------------------------------------

TypeOK ==
  /\ L1TypeOK
  /\ SessionTypeOK
  /\ OriginTypeOK
  /\ storageValue \in Values \cup {Nil}
  /\ slotProof \in [fork : 0..MaxReorgs, value : Values] \cup {Nil}
  /\ pc \in L1Calls \cup OriginLabels \cup {"encode"} \cup Ended

\* proveNativeL1 reads the value at the latest block and proves the slot at
\* the L1 origin's.  Until the first reorganisation the two agree if the slot
\* was not written between them.
QuietValueProven ==
  (/\ pc = "done"
   /\ forks = 0
   /\ \A n \in header.num..head : chain[n].slot = Latest.slot)
    => storageValue = slotProof.value

\* "handles all the necessary RPC calls to build a valid proof structure"
\* (README.md): the value in the calldata is the one its proof proves.
ValueProven == pc = "done" => storageValue = slotProof.value

\* The proof is asked for by number.  If the header is canonical in the end,
\* the proof was made in its block, as an orphaned branch does not come back.
CanonicalProofMatches ==
  (slotProof # Nil /\ Canonical(header)) => slotProof.fork = header.fork

\* The phases of PinnedRun, with the slot of each block of the chain as what
\* it tells and the slot proof as what is handed over.  The hash is asked for
\* once, the header by that hash and the proof by the header's number: across
\* these three calls the run proves the one block it took, or one that was
\* orphaned.
Told ==
  [h \in {HashAt(n) : n \in 1..head} |->
     [fork |-> h.fork, value |-> chain[h.num].slot]]

Run == INSTANCE PinnedRun WITH
  None     <- Nil,
  oracle   <- origin,
  told     <- Told,
  phase    <- Phase,
  pinned   <- newHash,
  evidence <- IF pc = "done" THEN slotProof ELSE Nil

ImplementsRun == Run!Spec

\* A run ends if the nodes answer every call.
Terminates == NodesAnswer => <>(pc \in Ended)

\* "Create a context that gets canceled on interrupt signal" (main.go:37): an
\* interrupted run ends whatever the nodes do, as all its calls carry the
\* context.
CancelStops == cancelled ~> (pc \in Ended)

=============================================================================
