------------------------------- MODULE L1Chain -------------------------------
(***************************************************************************)
(* The chains a proving session reads while they move: the L1 chain, with  *)
(* the contracts whose state the prover queries (the Registry, one         *)
(* DisputeGameFactory with its games, one L2OutputOracle, the contract     *)
(* being proved), and the L1 block hash oracle of the destination L2.      *)
(* None of this is under src/: it is modelled from the calls the provers   *)
(* make.                                                                   *)
(*                                                                         *)
(* A block holds the whole state after it, so a call "at number n" reads   *)
(* chain[n] and a call at "latest" reads chain[head].                      *)
(***************************************************************************)
EXTENDS Integers, Sequences

CONSTANTS
  MaxHeight,     \* bound: the longest chain explored
  MaxReorgs,     \* bound: how often the tip of the L1 chain is replaced
  MaxGames,      \* bound: games the factory can hold, indexed from 0
  MaxOutputs,    \* bound: outputs the L2OutputOracle can hold
  Outputs,       \* what can be proposed: an output root with its L2 block
  Configs,       \* versions of the source chain's entry in the Registry
  Values,        \* values of the L1 storage slot that proveL1Native proves
  LaggingOracle  \* may the destination L2 endpoint answer with an older block?

ASSUME ChainAssumption ==
  /\ MaxHeight \in Nat \ {0}
  /\ MaxReorgs \in Nat
  /\ MaxGames \in Nat
  /\ MaxOutputs \in Nat
  /\ LaggingOracle \in BOOLEAN

VARIABLES
  head,    \* number of the latest L1 block
  chain,   \* chain[n] is the state after block n; above head it is unused
  forks,   \* reorganisations so far
  origin   \* hash of the L1 block the destination L2's oracle names

l1vars == <<head, chain, forks, origin>>

-----------------------------------------------------------------------------

Heights   == 1..MaxHeight
GameIndex == 0..(MaxGames - 1)

(***************************************************************************)
(* A game is open, has had its L2 block number successfully challenged, or *)
(* is resolved.  What a game's contract answers is a function of that.     *)
(***************************************************************************)
GameState == {"open", "challenged", "challengerWins", "defenderWins"}

Resolved == {"challengerWins", "defenderWins"}

GameMoves ==
  { <<"open", "challenged">>, <<"open", "challengerWins">>,
    <<"open", "defenderWins">>, <<"challenged", "challengerWins">> }

\* The values of the status() enum.
Status(game) ==
  CASE game = "defenderWins"   -> 2
    [] game = "challengerWins" -> 1
    [] OTHER                   -> 0

\* l2Outputs of the L2OutputOracle, from index 0.
OutputLists == UNION {[1..k -> Outputs] : k \in 0..MaxOutputs}

Block ==
  [ fork    : 0..MaxReorgs,              \* tells apart blocks of one number
    config  : Configs,                   \* Registry entry of the source chain
    count   : 0..MaxGames,               \* gameCount() of the factory
    games   : [GameIndex -> GameState],  \* game g exists when g < count
    outputs : OutputLists,
    slot    : Values ]                   \* the proved L1 storage slot

Exists(block, g) == g < block.count

\* getL2Output reverts on an index that is not there.
HasOutput(block, index) == index < Len(block.outputs)

OutputAt(block, index) == block.outputs[index + 1]

\* A block hash names one block for good: its number and its fork.
Hash == [num : Heights, fork : 0..MaxReorgs]

HashAt(n) == [num |-> n, fork |-> chain[n].fork]

Canonical(hash) == hash.num <= head /\ HashAt(hash.num) = hash

Latest == chain[head]

-----------------------------------------------------------------------------

\* States the contracts can be in when a session starts.
GenesisBlocks ==
  { b \in Block : /\ b.fork = 0
                  /\ \A g \in GameIndex : ~Exists(b, g) => b.games[g] = "open" }

L1Init ==
  /\ head = 1
  /\ \E b \in GenesisBlocks : chain = [n \in Heights |-> b]
  /\ forks = 0
  /\ origin = [num |-> 1, fork |-> 0]

\* What can become of game g of a block.
GameSteps(b, g) ==
  {s \in GameState : Exists(b, g) /\ <<b.games[g], s>> \in GameMoves}

\* proposeL2Output: the next index gets an output.
Proposals(b) ==
  {[b EXCEPT !.outputs = Append(@, o)] :
     o \in IF Len(b.outputs) < MaxOutputs THEN Outputs ELSE {}}

\* deleteL2Outputs: all from some index on, which is free for others again.
Deletions(b) ==
  {[b EXCEPT !.outputs = SubSeq(@, 1, k)] : k \in 0..(Len(b.outputs) - 1)}

\* The block after b changes at most one thing the provers can see.
Successors(b) ==
  {b}
    \cup Proposals(b)
    \cup Deletions(b)
    \cup {[b EXCEPT !.config = c] : c \in Configs}
    \cup {[b EXCEPT !.slot = v] : v \in Values}
    \cup (IF b.count < MaxGames THEN {[b EXCEPT !.count = @ + 1]} ELSE {})
    \cup UNION { {[b EXCEPT !.games[g] = s] : s \in GameSteps(b, g)} : g \in GameIndex }

Mine ==
  /\ head < MaxHeight
  /\ head' = head + 1
  /\ \E b \in Successors(Latest) : chain' = [chain EXCEPT ![head + 1] = b]
  /\ UNCHANGED <<forks, origin>>

\* Everything above block m is replaced by one new block.  What was replaced
\* does not come back: of two branches, one is orphaned for good.
Reorg ==
  /\ forks < MaxReorgs
  /\ forks' = forks + 1
  /\ \E m \in 1..(head - 1) : \E b \in Successors(chain[m]) :
       /\ head' = m + 1
       /\ chain' = [n \in Heights |->
                      IF n <= m THEN chain[n]
                      ELSE IF n = m + 1 THEN [b EXCEPT !.fork = forks + 1]
                      ELSE chain[1]]
  /\ UNCHANGED origin

\* The destination L2 moves to a later L1 origin; to any one when its own was
\* orphaned, or when its endpoint may be served by a node that lags.
OracleMoves ==
  /\ \E n \in 1..head :
       /\ HashAt(n) # origin
       /\ n > origin.num \/ ~Canonical(origin) \/ LaggingOracle
       /\ origin' = HashAt(n)
  /\ UNCHANGED <<head, chain, forks>>

L1Next == Mine \/ Reorg \/ OracleMoves

-----------------------------------------------------------------------------

L1TypeOK ==
  /\ head \in Heights
  /\ chain \in [Heights -> Block]
  /\ forks \in 0..MaxReorgs
  /\ origin \in Hash

=============================================================================
