---------------------------- MODULE L1ChainProofs ----------------------------
(***************************************************************************)
(* What every move of the L1 chain preserves, for the proofs about the     *)
(* sessions that read it.                                                  *)
(***************************************************************************)
EXTENDS L1Chain, TLAPS

\* The chain starts with its types.
LEMMA L1InitTyped == L1Init => L1TypeOK
  BY ChainAssumption DEF L1Init, L1TypeOK, GenesisBlocks, Heights, Hash

\* A list of outputs is a sequence with a bound on its length.
LEMMA OutputListsAreSeqs ==
  OutputLists = {l \in Seq(Outputs) : Len(l) <= MaxOutputs}
<1>1. ASSUME NEW l \in OutputLists PROVE l \in Seq(Outputs) /\ Len(l) <= MaxOutputs
  <2>1. PICK k \in 0..MaxOutputs : l \in [1..k -> Outputs]
    BY DEF OutputLists
  <2>2. l \in Seq(Outputs) /\ Len(l) = k
    BY <2>1
  <2> QED
    BY <2>2, ChainAssumption
<1>2. ASSUME NEW l \in Seq(Outputs), Len(l) <= MaxOutputs PROVE l \in OutputLists
  <2>1. Len(l) \in 0..MaxOutputs /\ l \in [1..Len(l) -> Outputs]
    BY <1>2, ChainAssumption
  <2> QED
    BY <2>1 DEF OutputLists
<1> QED
  BY <1>1, <1>2

\* A block that proposes or deletes outputs changes nothing else.
LEMMA OutputsMove ==
  ASSUME NEW b \in Block, NEW s \in Proposals(b) \cup Deletions(b)
  PROVE  \E l \in OutputLists : s = [b EXCEPT !.outputs = l]
<1>0. b.outputs \in Seq(Outputs) /\ Len(b.outputs) <= MaxOutputs
  BY OutputListsAreSeqs DEF Block
<1>1. CASE s \in Proposals(b)
  <2>1. PICK o \in Outputs : Len(b.outputs) < MaxOutputs /\ s = [b EXCEPT !.outputs = Append(@, o)]
    BY <1>1 DEF Proposals
  <2>2. Append(b.outputs, o) \in Seq(Outputs) /\ Len(Append(b.outputs, o)) = Len(b.outputs) + 1
    BY <1>0
  <2>3. Append(b.outputs, o) \in OutputLists
    BY <1>0, <2>1, <2>2, OutputListsAreSeqs, ChainAssumption
  <2> QED
    BY <2>1, <2>3
<1>2. CASE s \in Deletions(b)
  <2>1. PICK k \in 0..(Len(b.outputs) - 1) : s = [b EXCEPT !.outputs = SubSeq(@, 1, k)]
    BY <1>2 DEF Deletions
  <2>2. SubSeq(b.outputs, 1, k) \in Seq(Outputs) /\ Len(SubSeq(b.outputs, 1, k)) = k
    BY <1>0
  <2>3. SubSeq(b.outputs, 1, k) \in OutputLists
    BY <1>0, <2>2, OutputListsAreSeqs, ChainAssumption
  <2> QED
    BY <2>1, <2>3
<1> QED
  BY <1>1, <1>2

\* A block that follows another has the type of a block.
LEMMA SuccessorTyped ==
  ASSUME NEW b \in Block, NEW s \in Successors(b)
  PROVE  s \in Block
<1>1. CASE s \in {b}
  BY <1>1
<1>2. CASE s \in {[b EXCEPT !.config = c] : c \in Configs}
  BY <1>2 DEF Block
<1>3. CASE s \in {[b EXCEPT !.slot = v] : v \in Values}
  BY <1>3 DEF Block
<1>4. CASE s \in IF b.count < MaxGames THEN {[b EXCEPT !.count = @ + 1]} ELSE {}
  <2>1. b.count < MaxGames /\ s = [b EXCEPT !.count = @ + 1]
    BY <1>4
  <2> QED
    BY <2>1, ChainAssumption DEF Block
<1>5. CASE s \in UNION { {[b EXCEPT !.games[g] = t] : t \in GameSteps(b, g)} :
                         g \in GameIndex }
  <2>1. PICK g \in GameIndex : s \in {[b EXCEPT !.games[g] = t] : t \in GameSteps(b, g)}
    BY <1>5, Zenon
  <2>2. PICK t \in GameSteps(b, g) : s = [b EXCEPT !.games[g] = t]
    BY <2>1
  <2>3. t \in GameState
    BY <2>2 DEF GameSteps
  <2> QED
    BY <2>2, <2>3 DEF Block
<1>6. CASE s \in Proposals(b) \cup Deletions(b)
  <2>1. PICK l \in OutputLists : s = [b EXCEPT !.outputs = l]
    BY <1>6, OutputsMove
  <2> QED
    BY <2>1 DEF Block
<1> QED
  BY <1>1, <1>2, <1>3, <1>4, <1>5, <1>6, Zenon DEF Successors

\* A resolution is final from one block to the next: a game that is resolved
\* in a block is there, and resolved the same way, in every block after it.
LEMMA SuccessorKeepsResolved ==
  ASSUME NEW b \in Block, NEW s \in Successors(b), NEW g \in GameIndex,
         Exists(b, g), b.games[g] \in Resolved
  PROVE  Exists(s, g) /\ s.games[g] = b.games[g]
<1> USE DEF Exists
<1>1. CASE s \in {b}
  BY <1>1
<1>2. CASE s \in {[b EXCEPT !.config = c] : c \in Configs}
  BY <1>2 DEF Block
<1>3. CASE s \in {[b EXCEPT !.slot = v] : v \in Values}
  BY <1>3 DEF Block
<1>4. CASE s \in IF b.count < MaxGames THEN {[b EXCEPT !.count = @ + 1]} ELSE {}
  <2>1. s = [b EXCEPT !.count = @ + 1]
    BY <1>4
  <2> QED
    BY <2>1, ChainAssumption DEF Block, GameIndex
<1>5. CASE s \in UNION { {[b EXCEPT !.games[h] = t] : t \in GameSteps(b, h)} :
                         h \in GameIndex }
  <2>1. PICK h \in GameIndex : s \in {[b EXCEPT !.games[h] = t] : t \in GameSteps(b, h)}
    BY <1>5, Zenon
  <2>2. PICK t \in GameSteps(b, h) : s = [b EXCEPT !.games[h] = t]
    BY <2>1
  <2>3. b.games[h] \notin Resolved
    BY <2>2 DEF GameSteps, GameMoves, Resolved
  <2>4. h # g
    BY <2>3
  <2> QED
    BY <2>2, <2>4 DEF Block
<1>6. CASE s \in Proposals(b) \cup Deletions(b)
  <2>1. PICK l \in OutputLists : s = [b EXCEPT !.outputs = l]
    BY <1>6, OutputsMove
  <2> QED
    BY <2>1 DEF Block
<1> QED
  BY <1>1, <1>2, <1>3, <1>4, <1>5, <1>6, Zenon DEF Successors

\* A game that is not created yet is open.
UnbornIsOpen(b) == \A g \in GameIndex : ~Exists(b, g) => b.games[g] = "open"

LEMMA SuccessorUnborn ==
  ASSUME NEW b \in Block, NEW s \in Successors(b), UnbornIsOpen(b)
  PROVE  UnbornIsOpen(s)
<1> USE DEF Exists, UnbornIsOpen
<1>1. CASE s \in {b}
  BY <1>1
<1>2. CASE s \in {[b EXCEPT !.config = c] : c \in Configs}
  BY <1>2 DEF Block
<1>3. CASE s \in {[b EXCEPT !.slot = v] : v \in Values}
  BY <1>3 DEF Block
<1>4. CASE s \in IF b.count < MaxGames THEN {[b EXCEPT !.count = @ + 1]} ELSE {}
  <2>1. s = [b EXCEPT !.count = @ + 1]
    BY <1>4
  <2> QED
    BY <2>1, ChainAssumption DEF Block, GameIndex
<1>5. CASE s \in UNION { {[b EXCEPT !.games[h] = t] : t \in GameSteps(b, h)} :
                         h \in GameIndex }
  <2>1. PICK h \in GameIndex : s \in {[b EXCEPT !.games[h] = t] : t \in GameSteps(b, h)}
    BY <1>5, Zenon
  <2>2. PICK t \in GameSteps(b, h) : s = [b EXCEPT !.games[h] = t]
    BY <2>1
  <2>3. Exists(b, h)
    BY <2>2 DEF GameSteps
  <2> QED
    BY <2>2, <2>3 DEF Block
<1>6. CASE s \in Proposals(b) \cup Deletions(b)
  <2>1. PICK l \in OutputLists : s = [b EXCEPT !.outputs = l]
    BY <1>6, OutputsMove
  <2> QED
    BY <2>1 DEF Block
<1> QED
  BY <1>1, <1>2, <1>3, <1>4, <1>5, <1>6, Zenon DEF Successors

-----------------------------------------------------------------------------

\* The chain keeps its types.
LEMMA L1StepTyped ==
  ASSUME L1TypeOK, [L1Next]_l1vars
  PROVE  L1TypeOK'
<1> USE ChainAssumption DEF L1TypeOK, Heights
<1>1. CASE Mine
  <2>1. PICK b \in Successors(Latest) : chain' = [chain EXCEPT ![head + 1] = b]
    BY <1>1 DEF Mine
  <2>2. b \in Block
    BY SuccessorTyped DEF Latest
  <2> QED
    BY <1>1, <2>1, <2>2 DEF Mine
<1>2. CASE Reorg
  <2>0. PICK m \in 1..(head - 1) :
          \E b \in Successors(chain[m]) :
            /\ head' = m + 1
            /\ chain' = [n \in Heights |->
                           IF n <= m THEN chain[n]
                           ELSE IF n = m + 1 THEN [b EXCEPT !.fork = forks + 1]
                           ELSE chain[1]]
    BY <1>2 DEF Reorg
  <2>1. PICK b \in Successors(chain[m]) :
          /\ head' = m + 1
          /\ chain' = [n \in Heights |->
                         IF n <= m THEN chain[n]
                         ELSE IF n = m + 1 THEN [b EXCEPT !.fork = forks + 1]
                         ELSE chain[1]]
    BY <2>0
  <2>2. m \in Heights
    OBVIOUS
  <2>3. b \in Block
    BY <2>2, SuccessorTyped
  <2>4. [b EXCEPT !.fork = forks + 1] \in Block
    <3>1. forks + 1 \in 0..MaxReorgs
      BY <1>2 DEF Reorg
    <3> HIDE DEF L1TypeOK
    <3> QED
      BY <2>3, <3>1 DEF Block
  <2>5. chain' \in [Heights -> Block]
    BY <2>1, <2>4
  <2>6. head' \in Heights
    BY <2>1
  <2>7. forks' \in 0..MaxReorgs /\ origin' = origin
    BY <1>2 DEF Reorg
  <2> QED
    BY <2>5, <2>6, <2>7
<1>3. CASE OracleMoves
  <2>1. PICK n \in 1..head : origin' = HashAt(n)
    BY <1>3 DEF OracleMoves
  <2>2. origin' \in Hash
    BY <2>1 DEF HashAt, Hash, Block
  <2> QED
    BY <1>3, <2>2 DEF OracleMoves
<1>4. CASE UNCHANGED l1vars
  BY <1>4 DEF l1vars
<1> QED
  BY <1>1, <1>2, <1>3, <1>4 DEF L1Next

(***************************************************************************)
(* Until the first reorganisation, the resolutions a chain holds are       *)
(* final, and its oracle names one of its blocks.                          *)
(***************************************************************************)
Lasting ==
  \A m, n \in Heights :
    m <= n /\ n <= head =>
      \A g \in GameIndex :
        Exists(chain[m], g) /\ chain[m].games[g] \in Resolved =>
          Exists(chain[n], g) /\ chain[n].games[g] = chain[m].games[g]

Unborn == \A n \in Heights : n <= head => UnbornIsOpen(chain[n])

OriginBelowHead == origin.num <= head

\* All three hold of the first block.
LEMMA L1InitSteady == L1Init => Lasting /\ Unborn /\ OriginBelowHead
  BY ChainAssumption
  DEF L1Init, GenesisBlocks, Lasting, Unborn, UnbornIsOpen, OriginBelowHead, Heights

\* Until the first reorganisation, every step of the chain leaves the blocks up
\* to its head as they are, and the head where it is or higher.
LEMMA L1StepExtends ==
  ASSUME forks' = 0, L1TypeOK, [L1Next]_l1vars
  PROVE  /\ head <= head'
         /\ \A n \in Heights : n <= head => chain'[n] = chain[n]
<1> USE ChainAssumption DEF L1TypeOK, Heights
<1>1. CASE Mine
  BY <1>1 DEF Mine
<1>2. CASE Reorg
  BY <1>2 DEF Reorg
<1>3. CASE OracleMoves
  BY <1>3 DEF OracleMoves
<1>4. CASE UNCHANGED l1vars
  BY <1>4 DEF l1vars
<1> QED
  BY <1>1, <1>2, <1>3, <1>4 DEF L1Next

\* Resolutions stay final: the new block is one that follows the old head.
LEMMA LastingStep ==
  ASSUME forks' = 0, L1TypeOK, Lasting, [L1Next]_l1vars
  PROVE  Lasting'
<1> USE DEF L1TypeOK, Heights
<1>1. CASE Mine
  <2>1. PICK b \in Successors(Latest) : chain' = [chain EXCEPT ![head + 1] = b]
    BY <1>1 DEF Mine
  <2> SUFFICES ASSUME NEW m \in Heights, NEW n \in Heights, m <= n, n <= head + 1,
                      NEW g \in GameIndex,
                      Exists(chain'[m], g), chain'[m].games[g] \in Resolved
               PROVE  Exists(chain'[n], g) /\ chain'[n].games[g] = chain'[m].games[g]
    BY <1>1 DEF Mine, Lasting, Exists
  <2>2. CASE n <= head
    BY <2>1, <2>2 DEF Lasting
  <2>3. CASE n = head + 1 /\ m <= head
    <3>1. /\ Exists(chain[head], g)
          /\ chain[head].games[g] = chain[m].games[g]
      BY <2>1, <2>3 DEF Lasting
    <3>2. Exists(b, g) /\ b.games[g] = chain[head].games[g]
      BY <2>1, <2>3, <3>1, SuccessorKeepsResolved DEF Latest
    <3> QED
      BY <1>1, <2>1, <2>3, <3>1, <3>2 DEF Mine
  <2>4. CASE n = head + 1 /\ m = head + 1
    BY <2>4
  <2> QED
    BY <2>2, <2>3, <2>4
<1>2. CASE Reorg
  BY <1>2, ChainAssumption DEF Reorg
<1>3. CASE OracleMoves
  BY <1>3 DEF OracleMoves, Lasting
<1>4. CASE UNCHANGED l1vars
  BY <1>4 DEF l1vars, Lasting
<1> QED
  BY <1>1, <1>2, <1>3, <1>4 DEF L1Next

\* Games stay open until they are created.
LEMMA UnbornStep ==
  ASSUME forks' = 0, L1TypeOK, Unborn, [L1Next]_l1vars
  PROVE  Unborn'
<1> USE DEF L1TypeOK, Heights, Unborn
<1>1. CASE Mine
  <2>1. PICK b \in Successors(Latest) : chain' = [chain EXCEPT ![head + 1] = b]
    BY <1>1 DEF Mine
  <2>2. UnbornIsOpen(b)
    BY SuccessorUnborn DEF Latest
  <2> QED
    BY <1>1, <2>1, <2>2 DEF Mine, UnbornIsOpen
<1>2. CASE Reorg
  BY <1>2, ChainAssumption DEF Reorg
<1>3. CASE OracleMoves
  BY <1>3 DEF OracleMoves, UnbornIsOpen
<1>4. CASE UNCHANGED l1vars
  BY <1>4 DEF l1vars, UnbornIsOpen
<1> QED
  BY <1>1, <1>2, <1>3, <1>4 DEF L1Next

\* The oracle names a block of the chain, and without an endpoint that lags it
\* only moves to later ones.
LEMMA OriginStep ==
  ASSUME MaxReorgs = 0, L1TypeOK, OriginBelowHead, [L1Next]_l1vars
  PROVE  /\ OriginBelowHead'
         /\ ~LaggingOracle => origin.num <= origin'.num
<1> USE ChainAssumption DEF L1TypeOK, Heights, OriginBelowHead, Hash
<1>1. CASE Mine
  BY <1>1 DEF Mine
<1>2. CASE Reorg
  BY <1>2 DEF Reorg
<1>3. CASE OracleMoves
  <2>1. PICK n \in 1..head :
          /\ n > origin.num \/ ~Canonical(origin) \/ LaggingOracle
          /\ origin' = HashAt(n)
    BY <1>3 DEF OracleMoves
  <2>2. HashAt(origin.num) = origin
    BY DEF HashAt, Block
  <2>3. Canonical(origin)
    BY <2>2 DEF Canonical
  <2> QED
    BY <1>3, <2>1, <2>3 DEF OracleMoves, HashAt
<1>4. CASE UNCHANGED l1vars
  BY <1>4 DEF l1vars
<1> QED
  BY <1>1, <1>2, <1>3, <1>4 DEF L1Next

-----------------------------------------------------------------------------

(***************************************************************************)
(* With reorganisations.  A reorganisation gives its block a fork number   *)
(* above all the others, and the blocks mined on it inherit the number: so *)
(* the numbers grow along the chain, and at one height they grow in time.  *)
(* A hash that was once of the chain is therefore of a fork that is not    *)
(* after the one at its height now, and of an earlier one than the head's  *)
(* when the chain does not reach its height any more.                      *)
(***************************************************************************)
ForksGrow ==
  /\ \A m, n \in Heights : m <= n /\ n <= head => chain[m].fork <= chain[n].fork
  /\ chain[head].fork <= forks

Seen(h) ==
  /\ h.num <= head => h.fork <= chain[h.num].fork
  /\ h.num > head => h.fork < chain[head].fork

LEMMA L1InitForks == L1Init => ForksGrow /\ Seen(origin)
  BY ChainAssumption DEF L1Init, GenesisBlocks, Block, ForksGrow, Seen, Heights

\* A block inherits the fork number of its parent.
LEMMA SuccessorFork ==
  ASSUME NEW b \in Block, NEW s \in Successors(b)
  PROVE  s.fork = b.fork
<1>1. CASE s \in {b}
  BY <1>1
<1>2. CASE s \in {[b EXCEPT !.config = c] : c \in Configs}
  BY <1>2 DEF Block
<1>3. CASE s \in {[b EXCEPT !.slot = v] : v \in Values}
  BY <1>3 DEF Block
<1>4. CASE s \in IF b.count < MaxGames THEN {[b EXCEPT !.count = @ + 1]} ELSE {}
  <2>1. s = [b EXCEPT !.count = @ + 1]
    BY <1>4
  <2> QED
    BY <2>1 DEF Block
<1>5. CASE s \in UNION { {[b EXCEPT !.games[h] = t] : t \in GameSteps(b, h)} :
                         h \in GameIndex }
  <2>1. PICK h \in GameIndex : s \in {[b EXCEPT !.games[h] = t] : t \in GameSteps(b, h)}
    BY <1>5, Zenon
  <2>2. PICK t \in GameSteps(b, h) : s = [b EXCEPT !.games[h] = t]
    BY <2>1
  <2> QED
    BY <2>2 DEF Block
<1>6. CASE s \in Proposals(b) \cup Deletions(b)
  <2>1. PICK l \in OutputLists : s = [b EXCEPT !.outputs = l]
    BY <1>6, OutputsMove
  <2> QED
    BY <2>1 DEF Block
<1> QED
  BY <1>1, <1>2, <1>3, <1>4, <1>5, <1>6, Zenon DEF Successors

\* What the types say of numbers, once and for all.
LEMMA ForkNumbers ==
  ASSUME L1TypeOK
  PROVE  /\ head \in Heights
         /\ forks \in Nat
         /\ \A n \in Heights : chain[n] \in Block /\ chain[n].fork \in Nat
         /\ \A h \in Hash : h.num \in Heights /\ h.fork \in Nat
  BY ChainAssumption DEF L1TypeOK, Block, Hash

\* A block of the chain has a hash that was seen.
LEMMA ChainSeen ==
  ASSUME L1TypeOK, NEW n \in 1..head
  PROVE  Seen(HashAt(n))
  BY ForkNumbers, ChainAssumption DEF Heights, Seen, HashAt

LEMMA SeenStays ==
  ASSUME L1TypeOK, ForksGrow, [L1Next]_l1vars
  PROVE  /\ ForksGrow'
         /\ \A h \in Hash : Seen(h) => Seen(h)'
<1>0. /\ head \in Heights
      /\ forks \in Nat
      /\ \A n \in Heights : chain[n] \in Block /\ chain[n].fork \in Nat
      /\ \A h \in Hash : h.num \in Heights /\ h.fork \in Nat
  BY ForkNumbers
<1> USE ChainAssumption DEF Heights
<1>1. CASE Mine
  <2>1. PICK b \in Successors(chain[head]) : chain' = [chain EXCEPT ![head + 1] = b]
    BY <1>1 DEF Mine, Latest
  <2>2. b.fork = chain[head].fork
    BY <1>0, SuccessorFork
  <2>3. /\ head' = head + 1
        /\ head + 1 \in Heights
        /\ forks' = forks
    BY <1>0, <1>1 DEF Mine
  <2>4. \A n \in Heights :
          chain'[n] = IF n = head + 1 THEN b ELSE chain[n]
    BY <2>1 DEF L1TypeOK
  <2>5. ForksGrow'
    BY <1>0, <2>2, <2>3, <2>4 DEF ForksGrow
  <2>6. ASSUME NEW h \in Hash, Seen(h) PROVE Seen(h)'
    BY <1>0, <2>2, <2>3, <2>4, <2>6 DEF Seen
  <2> QED
    BY <2>5, <2>6
<1>2. CASE Reorg
  <2>0. PICK m \in 1..(head - 1) :
          \E b \in Successors(chain[m]) :
            /\ head' = m + 1
            /\ chain' = [n \in Heights |->
                           IF n <= m THEN chain[n]
                           ELSE IF n = m + 1 THEN [b EXCEPT !.fork = forks + 1]
                           ELSE chain[1]]
    BY <1>2 DEF Reorg
  <2>1. PICK b \in Successors(chain[m]) :
          /\ head' = m + 1
          /\ chain' = [n \in Heights |->
                         IF n <= m THEN chain[n]
                         ELSE IF n = m + 1 THEN [b EXCEPT !.fork = forks + 1]
                         ELSE chain[1]]
    BY <2>0
  <2>2. m \in Heights /\ m + 1 \in Heights /\ m + 1 <= head
    BY <1>0
  <2>3. b \in Block
    BY <1>0, <2>2, SuccessorTyped
  <2>4. chain'[m + 1].fork = forks + 1 /\ forks' = forks + 1
    BY <1>2, <2>1, <2>2, <2>3 DEF Reorg, Block
  <2>5. \A n \in Heights : n <= m => chain'[n] = chain[n]
    BY <2>1
  <2>6. \A n \in Heights : n <= head => chain[n].fork <= forks
    BY <1>0 DEF ForksGrow
  <2>7. ForksGrow'
    <3>1. ASSUME NEW k \in Heights, NEW n \in Heights, k <= n, n <= m + 1
          PROVE  chain'[k].fork <= chain'[n].fork
      <4>1. (k <= m /\ n <= m) \/ (k <= m /\ n = m + 1) \/ (k = m + 1 /\ n = m + 1)
        BY <1>0, <2>2, <3>1
      <4>2. k <= m => chain'[k].fork <= forks /\ chain'[k].fork \in Nat
        BY <1>0, <2>2, <2>5, <2>6
      <4>3. k <= m /\ n <= m => chain[k].fork <= chain[n].fork
        BY <1>0, <2>2, <3>1 DEF ForksGrow
      <4> QED
        BY <1>0, <2>4, <2>5, <4>1, <4>2, <4>3
    <3>2. head' = m + 1 /\ chain'[head'].fork <= forks'
      BY <1>0, <2>1, <2>4
    <3> QED
      BY <3>1, <3>2 DEF ForksGrow
  <2>8. ASSUME NEW h \in Hash, Seen(h) PROVE Seen(h)'
    <3>1. h.fork <= forks
      BY <1>0, <2>6, <2>8 DEF Seen
    <3>2. CASE h.num <= m
      BY <1>0, <2>1, <2>2, <2>5, <2>8, <3>2 DEF Seen
    <3>3. CASE h.num > m
      BY <1>0, <2>1, <2>2, <2>4, <3>1, <3>3 DEF Seen
    <3> QED
      BY <1>0, <2>2, <3>2, <3>3
  <2> QED
    BY <2>7, <2>8
<1>3. CASE OracleMoves
  BY <1>3 DEF OracleMoves, ForksGrow, Seen
<1>4. CASE UNCHANGED l1vars
  BY <1>4 DEF l1vars, ForksGrow, Seen
<1> QED
  BY <1>1, <1>2, <1>3, <1>4 DEF L1Next

\* The oracle names a hash that was seen.
LEMMA OriginSeenStays ==
  ASSUME L1TypeOK, ForksGrow, Seen(origin), [L1Next]_l1vars
  PROVE  Seen(origin)'
<1>1. CASE OracleMoves
  <2>1. PICK n \in 1..head : origin' = HashAt(n)
    BY <1>1 DEF OracleMoves
  <2>2. Seen(HashAt(n))
    BY ChainSeen
  <2> QED
    BY <1>1, <2>1, <2>2 DEF OracleMoves, Seen
<1>2. CASE UNCHANGED origin
  <2>1. origin \in Hash
    BY DEF L1TypeOK
  <2>2. \A h \in Hash : Seen(h) => Seen(h)'
    BY SeenStays
  <2> QED
    BY <1>2, <2>1, <2>2 DEF Seen
<1> QED
  BY <1>1, <1>2 DEF L1Next, Mine, Reorg, l1vars

\* Until the first reorganisation a hash that was seen is of the chain.
LEMMA SeenIsBelow ==
  ASSUME L1TypeOK, ForksGrow, forks = 0, NEW h \in Hash, Seen(h)
  PROVE  h.num \in Heights /\ h.num <= head
<1>1. /\ h.num \in Nat /\ h.num \in Heights /\ h.fork \in Nat
      /\ head \in Nat /\ chain[head].fork \in Nat
  BY ForkNumbers, ChainAssumption DEF Heights
<1>2. chain[head].fork <= 0
  BY DEF ForksGrow
<1>3. ~(h.num > head)
  BY <1>1, <1>2 DEF Seen
<1> QED
  BY <1>1, <1>3

\* Two hashes of one height: if the later one was seen when the first was of
\* the chain, and the first is of the chain now, they are the same.
LEMMA SeenTwice ==
  ASSUME L1TypeOK, NEW h \in Hash, NEW f \in 0..MaxReorgs,
         Canonical(h), h.fork <= f, Seen([num |-> h.num, fork |-> f])
  PROVE  f = h.fork
  BY ForkNumbers, ChainAssumption DEF Canonical, HashAt, Seen, Hash

\* A hash names one block for good: if it was seen and is of the chain after a
\* step, it was before, and of the same block.
LEMMA SeenBlockStays ==
  ASSUME L1TypeOK, ForksGrow, [L1Next]_l1vars, NEW h \in Hash, Seen(h), Canonical(h)'
  PROVE  Canonical(h) /\ chain'[h.num] = chain[h.num]
<1>0. /\ head \in Heights
      /\ forks \in Nat
      /\ h.num \in Heights /\ h.fork \in Nat
      /\ h = [num |-> h.num, fork |-> h.fork]
      /\ \A n \in Heights : chain[n] \in Block /\ chain[n].fork \in Nat
  BY ForkNumbers DEF Hash
<1>1. h.num <= head' /\ chain'[h.num].fork = h.fork
  BY <1>0 DEF Canonical, HashAt
<1>2. SUFFICES h.num <= head /\ chain'[h.num] = chain[h.num]
  BY <1>0, <1>1 DEF Canonical, HashAt
<1> USE ChainAssumption DEF Heights
<1>3. CASE Mine
  <2>1. PICK b \in Successors(chain[head]) : chain' = [chain EXCEPT ![head + 1] = b]
    BY <1>3 DEF Mine, Latest
  <2>2. b.fork = chain[head].fork
    BY <1>0, SuccessorFork
  <2>3. head' = head + 1 /\ head + 1 \in Heights
    BY <1>0, <1>3 DEF Mine
  <2>4. \A n \in Heights : chain'[n] = IF n = head + 1 THEN b ELSE chain[n]
    BY <2>1 DEF L1TypeOK
  <2>5. h.num # head + 1
    BY <1>0, <1>1, <2>2, <2>3, <2>4 DEF Seen
  <2> QED
    BY <1>0, <1>1, <2>3, <2>4, <2>5
<1>4. CASE Reorg
  <2>0. PICK m \in 1..(head - 1) :
          \E b \in Successors(chain[m]) :
            /\ head' = m + 1
            /\ chain' = [n \in Heights |->
                           IF n <= m THEN chain[n]
                           ELSE IF n = m + 1 THEN [b EXCEPT !.fork = forks + 1]
                           ELSE chain[1]]
    BY <1>4 DEF Reorg
  <2>1. PICK b \in Successors(chain[m]) :
          /\ head' = m + 1
          /\ chain' = [n \in Heights |->
                         IF n <= m THEN chain[n]
                         ELSE IF n = m + 1 THEN [b EXCEPT !.fork = forks + 1]
                         ELSE chain[1]]
    BY <2>0
  <2>2. m \in Heights /\ m + 1 \in Heights /\ m + 1 <= head
    BY <1>0
  <2>3. b \in Block
    BY <1>0, <2>2, SuccessorTyped
  <2>4. chain'[m + 1].fork = forks + 1
    BY <2>1, <2>2, <2>3 DEF Block
  <2>5. \A n \in Heights : n <= head => chain[n].fork <= forks
    BY <1>0 DEF ForksGrow
  <2>6. h.fork <= forks
    BY <1>0, <2>5 DEF Seen
  <2>7. h.num <= m
    BY <1>0, <1>1, <2>1, <2>2, <2>4, <2>6
  <2> QED
    BY <1>0, <2>1, <2>2, <2>7
<1>5. CASE OracleMoves \/ UNCHANGED l1vars
  BY <1>1, <1>5 DEF OracleMoves, l1vars
<1> QED
  BY <1>3, <1>4, <1>5 DEF L1Next

\* So what a block tells does not change while it is of the chain.
LEMMA HashesStay ==
  ASSUME L1TypeOK, ForksGrow, [L1Next]_l1vars,
         NEW h \in {HashAt(n) : n \in 1..head},
         h \in {HashAt(n) : n \in 1..head}'
  PROVE  h.num \in 1..head /\ chain'[h.num] = chain[h.num]
<1>1. PICK n \in 1..head : h = HashAt(n)
  OBVIOUS
<1>2. h.num = n /\ h \in Hash /\ Seen(h)
  <2>1. n \in Heights /\ chain[n] \in Block
    BY ForkNumbers, ChainAssumption DEF Heights
  <2> QED
    BY <1>1, <2>1, ChainSeen DEF HashAt, Hash, Block
<1>3. Canonical(h)'
  <2>1. head' \in Heights
    BY L1StepTyped DEF L1TypeOK
  <2>2. PICK m \in 1..head' : h = HashAt(m)'
    OBVIOUS
  <2>3. h.num = m
    BY <2>2 DEF HashAt
  <2> QED
    BY <2>1, <2>2, <2>3, ChainAssumption DEF Canonical, HashAt, Heights
<1> QED
  BY <1>1, <1>2, <1>3, SeenBlockStays

=============================================================================
