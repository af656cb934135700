---------------------------- MODULE CannonProof ----------------------------
(***************************************************************************)
(* OPStackCannonProver.GenerateSettledStateProof                           *)
(* (provers/op-stack-cannon.go): the proof that a game settles an L2 block *)
(* against L1 block number n.  Five calls at n, one batch on the L2, and   *)
(* the checks in between.  The number n is all the calls carry: the block  *)
(* that answers is the one the node has at n at that time.                 *)
(*                                                                         *)
(* Entered at "gameId", left at "value".                                   *)
(***************************************************************************)
EXTENDS L1Chain, Session

CONSTANTS
  NoAnswer,    \* a call not made yet
  NullAnswers  \* may the node answer eth_getProof with null?

VARIABLES
  answers,  \* what each pinned call answered
  nulls,    \* the elements of the eth_getProof batch that came as null
  settled   \* the status slot and the game the finished proof claims

settledVars == <<answers, nulls, settled>>

\* eth_getStorageAt of the factory's list, the eth_getProof batch, and the
\* three calls to the game, in the order they are made.
PinnedCalls == {"gameId", "proofs", "l2BlockNumber", "createdAt", "resolvedAt"}

CallAfter ==
  [ gameId        |-> "proofs",
    proofs        |-> "l2BlockNumber",
    l2BlockNumber |-> "createdAt",
    createdAt     |-> "resolvedAt",
    resolvedAt    |-> "checks" ]

\* What block n of the moment tells about game g.
Answer == [fork : 0..MaxReorgs, exists : BOOLEAN, game : GameState]

StatusSlot ==
  [ created : BOOLEAN, resolved : BOOLEAN, status : 0..2,
    initialized : BOOLEAN, challenged : BOOLEAN ]

SettledProof == [game : GameIndex, slot : StatusSlot]

ASSUME SettledAssumption ==
  /\ NullAnswers \in BOOLEAN
  /\ NoAnswer \notin Answer \cup SettledProof

AnswerAt(n, g) ==
  [ fork |-> chain[n].fork, exists |-> Exists(chain[n], g), game |-> chain[n].games[g] ]

(***************************************************************************)
(* The packed storage slot of a game: createdAt, resolvedAt (set or zero), *)
(* status, initialized, l2BlockNumberChallenged.                           *)
(***************************************************************************)
StoredStatus(answer) ==
  [ created     |-> answer.exists,
    resolved    |-> answer.game \in Resolved,
    status      |-> Status(answer.game),
    initialized |-> answer.exists,
    challenged  |-> answer.game = "challenged" ]

\* FaultDisputeGameStatusSlot: two fields are read, three are written down.
ClaimedStatus ==
  [ created     |-> answers["createdAt"].exists,
    resolved    |-> answers["resolvedAt"].game \in Resolved,
    status      |-> 2,
    initialized |-> TRUE,
    challenged  |-> FALSE ]

-----------------------------------------------------------------------------

SettledInit ==
  /\ answers = [c \in PinnedCalls |-> NoAnswer]
  /\ nulls = {}
  /\ settled = NoAnswer

\* Slip: the calls are made at the latest block.
PinnedCallLatest(n, g) ==
  /\ pc \in PinnedCalls
  /\ \E c \in PinnedCalls :
       /\ Answered(c, CallAfter[c])
       /\ answers' = [answers EXCEPT ![c] = AnswerAt(head, g)]
  /\ UNCHANGED <<nulls, settled>>

\* The proofs of the batch that are null: decoding null changes nothing.
Nulls(c) ==
  IF c = "proofs" /\ NullAnswers THEN SUBSET {"factory", "game"} ELSE {nulls}

\* A number above the head has no block: that is RpcFails.
PinnedCall(n, g) ==
  /\ pc \in PinnedCalls
  /\ n <= head
  /\ \E c \in PinnedCalls :
       /\ Answered(c, CallAfter[c])
       /\ answers' = [answers EXCEPT ![c] = AnswerAt(n, g)]
       /\ nulls' \in Nulls(c)
  /\ UNCHANGED settled

\* Slip: resolvedAt is not checked.
ComplaintUnresolved ==
  CASE "factory" \in nulls               -> "proofs"
    [] ~answers["l2BlockNumber"].exists -> "l2BlockNumber"
    [] "game" \in nulls                  -> "proofs"
    [] ~answers["createdAt"].exists     -> "createdAt"
    [] OTHER                            -> "none"

\* What the checks after the last call find wrong, in their order: a null proof
\* has no entries, a call to an address without code answers nothing, an open
\* game has no resolvedAt.
Complaint ==
  CASE "factory" \in nulls                             -> "proofs"
    [] ~answers["l2BlockNumber"].exists               -> "l2BlockNumber"
    [] "game" \in nulls                                -> "proofs"
    [] ~answers["createdAt"].exists                   -> "createdAt"
    [] ~(/\ answers["resolvedAt"].exists
         /\ answers["resolvedAt"].game \in Resolved)  -> "resolvedAt"
    [] OTHER                                          -> "none"

PassChecks ==
  /\ Moves("checks", "l2Batch")
  /\ Complaint = "none"
  /\ UNCHANGED settledVars

FailChecks ==
  /\ pc = "checks"
  /\ Complaint # "none"
  /\ Fails(Complaint)
  /\ UNCHANGED settledVars

\* The L2 header and message passer root; then the proof is put together.
L2Batch(g) ==
  /\ Answered("l2Batch", "value")
  /\ settled' = [game |-> g, slot |-> ClaimedStatus]
  /\ UNCHANGED <<answers, nulls>>

SettledAnswers(n, g) == PinnedCall(n, g) \/ L2Batch(g)

SettledLocal == PassChecks \/ FailChecks

SettledCalls == PinnedCalls \cup {"l2Batch"}

\* Slip: the L2 batch does not carry the context.
SettledStopsOnL1 == CtxFails(PinnedCalls) /\ UNCHANGED settledVars

SettledStops == CtxFails(SettledCalls) /\ UNCHANGED settledVars

SettledErrors == RpcFails(SettledCalls) /\ UNCHANGED settledVars

-----------------------------------------------------------------------------

SettledTypeOK ==
  /\ answers \in [PinnedCalls -> Answer \cup {NoAnswer}]
  /\ nulls \subseteq {"factory", "game"}
  /\ settled \in SettledProof \cup {NoAnswer}

=============================================================================
