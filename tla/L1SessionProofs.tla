-------------------------- MODULE L1SessionProofs --------------------------
(***************************************************************************)
(* A run of proveNativeL1, for every chain, any number of reorganisations  *)
(* and any oracle: its types; that a header which is canonical in the end  *)
(* has its proof from its own block; and that the value it was read with   *)
(* is the proved one while the slot is not written.                        *)
(***************************************************************************)
EXTENDS L1Session, L1OriginProofs

\* The labels after GetL1Origin returned.
AfterOrigin == {"header", "proof", "encode", "done"}

Labels == L1Calls \cup OriginLabels \cup {"encode"} \cup Ended

(***************************************************************************)
(* Where the session is tells what it has: no header yet, or one for good, *)
(* and no slot proof before the last call has answered.                    *)
(***************************************************************************)
Progress ==
  /\ pc = "oracle" => polls = 0 /\ header = Nil
  /\ pc \in AfterOrigin => header # Nil
  /\ slotProof # Nil => header # Nil /\ pc \in {"encode"} \cup Ended

LEMMA Initial == Init => TypeOK /\ PollInv /\ Progress
<1> SUFFICES ASSUME Init PROVE TypeOK /\ PollInv /\ Progress
  OBVIOUS
<1> USE DEF Init, SessionInit, OriginInit
<1>1. L1TypeOK
  BY L1InitTyped
<1>2. 0 \in 0..(EpochPollingTries + 1)
  BY OriginAssumption
<1>3. SessionTypeOK /\ pc \in L1Calls
  BY DEF SessionTypeOK, L1Calls, Errors
<1>4. OriginTypeOK
  BY <1>2 DEF OriginTypeOK
<1>5. PollInv /\ Progress
  BY DEF PollInv, Progress, AfterOrigin
<1> QED
  BY <1>1, <1>3, <1>4, <1>5 DEF TypeOK

\* The steps of the session: GetL1Origin's, its own, and those around it.
LEMMA StepCases ==
  ASSUME [Next]_vars
  PROVE  \/ OriginNext /\ UNCHANGED l1vars /\ UNCHANGED l1ProverVars
         \/ ReadOracleAddress /\ UNCHANGED l1vars /\ UNCHANGED originVars
         \/ GetStorageAt /\ UNCHANGED l1vars /\ UNCHANGED originVars
         \/ GenerateStorageProof /\ UNCHANGED l1vars /\ UNCHANGED originVars
         \/ Encode /\ UNCHANGED l1vars /\ UNCHANGED originVars
         \/ (L1Stops \/ L1Errors) /\ UNCHANGED l1vars /\ UNCHANGED originVars
         \/ Interrupt /\ UNCHANGED l1vars /\ UNCHANGED originVars
            /\ UNCHANGED l1ProverVars
         \/ [L1Next]_l1vars /\ UNCHANGED sessionVars /\ UNCHANGED originVars
            /\ UNCHANGED l1ProverVars
  BY DEF Next, ProverStep, L1Answers, vars

LEMMA ChainSteps ==
  ASSUME [Next]_vars
  PROVE  [L1Next]_l1vars
  BY StepCases

LEMMA TypeStep ==
  ASSUME TypeOK, PollInv, Progress, [Next]_vars
  PROVE  TypeOK' /\ PollInv' /\ Progress'
<1>0. L1TypeOK'
  BY ChainSteps, L1StepTyped DEF TypeOK
<1>1. CASE OriginNext /\ UNCHANGED l1vars /\ UNCHANGED l1ProverVars
  <2>1. /\ SessionTypeOK' /\ OriginTypeOK' /\ PollInv'
        /\ pc' \in OriginLabels \cup Ended \cup {"header"}
    BY <1>1, OriginStepTyped DEF TypeOK, L1TypeOK
  <2>2. pc \in OriginLabels /\ pc' # "done"
    BY <1>1, OriginPlace DEF OriginLabels, OriginCalls
  <2>3. slotProof = Nil
    BY <2>2 DEF Progress, OriginLabels, OriginCalls, Ended
  <2>4. Progress'
    BY <1>1, <2>1, <2>2, <2>3
    DEF Progress, PollInv, AfterOrigin, OriginLabels, OriginCalls, Ended, l1ProverVars
  <2> QED
    BY <1>0, <1>1, <2>1, <2>4 DEF TypeOK, l1ProverVars, L1Calls
<1>2. CASE ReadOracleAddress /\ UNCHANGED originVars
  BY <1>0, <1>2
  DEF TypeOK, SessionTypeOK, OriginTypeOK, PollInv, Progress, AfterOrigin,
      ReadOracleAddress, Answered, Moves, originVars, l1ProverVars, L1Calls,
      OriginLabels, OriginCalls, Ended
<1>3. CASE GetStorageAt /\ UNCHANGED originVars
  <2>1. Latest.slot \in Values
    BY DEF TypeOK, L1TypeOK, Latest, Block
  <2> QED
    BY <1>0, <1>3, <2>1
    DEF TypeOK, SessionTypeOK, OriginTypeOK, PollInv, Progress, AfterOrigin,
        GetStorageAt, Answered, Moves, originVars, L1Calls, OriginLabels,
        OriginCalls, Ended
<1>4. CASE GenerateStorageProof /\ UNCHANGED originVars
  <2>1. header \in Hash
    BY <1>4 DEF GenerateStorageProof, Answered, Moves, TypeOK, OriginTypeOK,
                Progress, AfterOrigin
  <2>2. chain[header.num] \in Block
    BY <2>1 DEF Hash, TypeOK, L1TypeOK
  <2>3. slotProof' \in [fork : 0..MaxReorgs, value : Values]
    BY <1>4, <2>2 DEF GenerateStorageProof, Block
  <2> QED
    BY <1>0, <1>4, <2>3
    DEF TypeOK, SessionTypeOK, OriginTypeOK, PollInv, Progress, AfterOrigin,
        GenerateStorageProof, Answered, Moves, originVars, L1Calls, OriginLabels,
        OriginCalls, Ended
<1>5. CASE Encode /\ UNCHANGED originVars
  BY <1>0, <1>5
  DEF TypeOK, SessionTypeOK, OriginTypeOK, PollInv, Progress, AfterOrigin, Encode,
      Moves, originVars, l1ProverVars, L1Calls, OriginLabels, OriginCalls, Ended
<1>6. CASE (L1Stops \/ L1Errors) /\ UNCHANGED originVars
  BY <1>0, <1>6
  DEF TypeOK, SessionTypeOK, OriginTypeOK, PollInv, Progress, AfterOrigin, L1Stops,
      L1Errors, CtxFails, RpcFails, Fails, originVars, l1ProverVars, L1Calls,
      OriginLabels, OriginCalls, Ended, Errors
<1>7. CASE Interrupt /\ UNCHANGED originVars /\ UNCHANGED l1ProverVars
  BY <1>0, <1>7
  DEF TypeOK, SessionTypeOK, OriginTypeOK, PollInv, Progress, AfterOrigin,
      Interrupt, originVars, l1ProverVars
<1>8. CASE UNCHANGED sessionVars /\ UNCHANGED originVars /\ UNCHANGED l1ProverVars
  BY <1>0, <1>8
  DEF TypeOK, SessionTypeOK, OriginTypeOK, PollInv, Progress, AfterOrigin,
      sessionVars, originVars, l1ProverVars
<1> QED
  BY <1>1, <1>2, <1>3, <1>4, <1>5, <1>6, <1>7, <1>8, StepCases

\* The session and the chain keep their types.
THEOREM TypeCorrect == Spec => [](TypeOK /\ PollInv /\ Progress)
<1>1. Init => TypeOK /\ PollInv /\ Progress
  BY Initial
<1>2. TypeOK /\ PollInv /\ Progress /\ [Next]_vars
        => TypeOK' /\ PollInv' /\ Progress'
  BY TypeStep
<1> QED
  BY <1>1, <1>2, PTL DEF Spec

-----------------------------------------------------------------------------

(***************************************************************************)
(* Why a canonical header has its own proof.  The proof is of the block at *)
(* the header's number when it was asked for, after the header was seen:   *)
(* of the header's fork or a later one.  Should the header be canonical    *)
(* now, its fork is not before that of the proof either.                   *)
(***************************************************************************)
ProofHash == [num |-> header.num, fork |-> slotProof.fork]

ForkInv ==
  /\ ForksGrow
  /\ OriginSeen
  /\ slotProof # Nil => Seen(ProofHash) /\ header.fork <= slotProof.fork

LEMMA ForkStep ==
  ASSUME TypeOK, PollInv, Progress, ForkInv, [Next]_vars
  PROVE  ForkInv'
<1>0. /\ ForksGrow'
      /\ \A h \in Hash : Seen(h) => Seen(h)'
  BY ChainSteps, SeenStays DEF TypeOK, ForkInv
<1>1. CASE OriginNext /\ UNCHANGED l1vars /\ UNCHANGED l1ProverVars
  <2>1. OriginSeen'
    BY <1>1, OriginStepSeen DEF ForkInv
  <2>2. slotProof = Nil
    BY <1>1, OriginPlace DEF Progress, Ended, OriginLabels, OriginCalls
  <2> QED
    BY <1>0, <1>1, <2>1, <2>2 DEF ForkInv, l1ProverVars
<1>2. CASE GenerateStorageProof /\ UNCHANGED l1vars /\ UNCHANGED originVars
  <2>1. header \in Hash /\ header.num \in 1..head
    BY <1>2, ForkNumbers DEF GenerateStorageProof, Answered, Moves, TypeOK,
         OriginTypeOK, Progress, AfterOrigin, Heights
  <2>2. Seen(HashAt(header.num)) /\ Seen(header)
    BY <1>2, <2>1, ChainSeen, OriginAssumption DEF TypeOK, ForkInv, OriginSeen
  <2>3. slotProof'.fork = chain[header.num].fork
    BY <1>2 DEF GenerateStorageProof
  <2>4. ProofHash' = HashAt(header.num) /\ header' = header
    BY <1>2, <2>3 DEF ProofHash, HashAt, originVars
  <2>5. header.fork <= slotProof'.fork
    BY <2>1, <2>2, <2>3 DEF Seen
  <2>6. Seen(ProofHash)'
    BY <1>2, <2>2, <2>4 DEF Seen, l1vars
  <2>7. OriginSeen'
    BY <1>2 DEF ForkInv, OriginSeen, Seen, originVars, l1vars
  <2> QED
    BY <1>0, <2>4, <2>5, <2>6, <2>7 DEF ForkInv
<1>3. CASE slotProof' = slotProof /\ UNCHANGED originVars
  <2>1. OriginSeen'
    BY <1>3, ChainSteps, OriginSeenKept DEF TypeOK, ForkInv
  <2>2. ASSUME slotProof # Nil PROVE Seen(ProofHash)'
    <3>1. ProofHash \in Hash
      BY <2>2 DEF ProofHash, Hash, TypeOK, OriginTypeOK, Progress
    <3>2. ProofHash' = ProofHash
      BY <1>3 DEF ProofHash, originVars
    <3> QED
      BY <1>0, <2>2, <3>1, <3>2 DEF ForkInv, Seen
  <2> QED
    BY <1>0, <1>3, <2>1, <2>2 DEF ForkInv, originVars
<1> QED
  BY <1>1, <1>2, <1>3, StepCases
  DEF ReadOracleAddress, GetStorageAt, Encode, L1Stops, L1Errors, l1ProverVars

\* However often the chain reorganises: if the header of a run is canonical,
\* the slot proof, asked for by number, is of the header's block.
THEOREM CanonicalMatch == Spec => []CanonicalProofMatches
<1>1. Init => ForkInv
  BY L1InitForks
  DEF Init, OriginInit, ForkInv, OriginSeen
<1>2. TypeOK /\ PollInv /\ Progress /\ ForkInv /\ [Next]_vars => ForkInv'
  BY ForkStep
<1>3. TypeOK /\ Progress /\ ForkInv => CanonicalProofMatches
  <2> SUFFICES ASSUME TypeOK, Progress, ForkInv, slotProof # Nil, Canonical(header)
               PROVE  slotProof.fork = header.fork
    BY DEF CanonicalProofMatches
  <2>1. header \in Hash /\ slotProof.fork \in 0..MaxReorgs
    BY DEF TypeOK, OriginTypeOK, Progress
  <2> QED
    BY <2>1, SeenTwice DEF TypeOK, ForkInv, ProofHash
<1> QED
  BY <1>1, <1>2, <1>3, TypeCorrect, PTL DEF Spec

-----------------------------------------------------------------------------

(***************************************************************************)
(* Why the value agrees with its proof while the slot rests.  Until the    *)
(* first reorganisation the header's block is of the chain, the value was  *)
(* that of some block from there to the head, and the proof is of the      *)
(* header's: with one value in all of them, they are the same.             *)
(***************************************************************************)
ValueInv ==
  forks = 0 =>
    /\ pc \in {"proof", "encode", "done"} =>
         \E k \in header.num..head : storageValue = chain[k].slot
    /\ pc \in {"encode", "done"} => slotProof.value = chain[header.num].slot

LEMMA ValueStep ==
  ASSUME TypeOK, PollInv, Progress, ForkInv, ValueInv, [Next]_vars
  PROVE  ValueInv'
<1> SUFFICES ASSUME forks' = 0 PROVE ValueInv'
  BY DEF ValueInv
<1>0. forks = 0
  <2>1. forks \in Nat
    BY ForkNumbers DEF TypeOK, L1TypeOK
  <2>2. [L1Next]_l1vars
    BY ChainSteps
  <2>3. CASE Reorg
    BY <2>1, <2>3 DEF Reorg
  <2> QED
    BY <2>2, <2>3 DEF L1Next, Mine, OracleMoves, l1vars
<1>1. ASSUME pc \in AfterOrigin
      PROVE  header \in Hash /\ header.num \in Heights /\ header.num <= head
  <2>1. header \in Hash /\ header # Nil
    BY <1>1 DEF TypeOK, OriginTypeOK, Progress
  <2> QED
    BY <1>0, <2>1, SeenIsBelow DEF TypeOK, ForkInv, OriginSeen
<1>2. CASE OriginNext
  BY <1>2, OriginPlace DEF ValueInv, OriginLabels, OriginCalls
<1>3. CASE GetStorageAt /\ UNCHANGED l1vars /\ UNCHANGED originVars
  <2>1. head \in header.num..head
    BY <1>1, <1>3, ForkNumbers
    DEF GetStorageAt, Answered, Moves, AfterOrigin, TypeOK, Heights
  <2>2. storageValue' = chain'[head].slot /\ pc' = "proof"
    BY <1>3 DEF GetStorageAt, Answered, Moves, Latest, l1vars
  <2> QED
    BY <1>3, <2>1, <2>2 DEF ValueInv, originVars, l1vars
<1>4. CASE GenerateStorageProof /\ UNCHANGED l1vars /\ UNCHANGED originVars
  <2>1. /\ pc = "proof" /\ pc' = "encode"
        /\ slotProof'.value = chain[header.num].slot
        /\ storageValue' = storageValue
    BY <1>4 DEF GenerateStorageProof, Answered, Moves
  <2> QED
    BY <1>0, <1>4, <2>1 DEF ValueInv, originVars, l1vars
<1>5. CASE ReadOracleAddress \/ L1Stops \/ L1Errors
  BY <1>5 DEF ReadOracleAddress, L1Stops, L1Errors, CtxFails, RpcFails, Fails,
              Answered, Moves, ValueInv
<1>6. CASE /\ UNCHANGED l1vars /\ UNCHANGED originVars /\ UNCHANGED l1ProverVars
           /\ pc' = pc \/ Encode
  BY <1>0, <1>6 DEF Encode, Moves, ValueInv, originVars, l1vars, l1ProverVars
<1>7. CASE /\ [L1Next]_l1vars /\ UNCHANGED sessionVars /\ UNCHANGED originVars
           /\ UNCHANGED l1ProverVars
  <2>1. /\ head <= head'
        /\ \A n \in Heights : n <= head => chain'[n] = chain[n]
    BY <1>7, L1StepExtends DEF TypeOK
  <2>2. head \in Heights /\ head' \in Heights
    BY <1>7, L1StepTyped DEF TypeOK, L1TypeOK
  <2>3. ASSUME pc \in {"proof", "encode", "done"}
        PROVE  \E k \in header.num..head' : storageValue = chain'[k].slot
    <3>1. PICK k \in header.num..head : storageValue = chain[k].slot
      BY <1>0, <2>3 DEF ValueInv
    <3>2. header.num \in Heights
      BY <1>1, <2>3 DEF AfterOrigin
    <3>3. k \in Heights /\ k <= head /\ k \in header.num..head'
      BY <2>1, <2>2, <3>2, ChainAssumption DEF Heights
    <3> QED
      BY <2>1, <3>1, <3>3
  <2>4. ASSUME pc \in {"encode", "done"}
        PROVE  slotProof.value = chain'[header.num].slot
    BY <1>0, <1>1, <2>1, <2>4 DEF ValueInv, AfterOrigin
  <2> QED
    BY <1>7, <2>3, <2>4 DEF ValueInv, sessionVars, originVars, l1ProverVars
<1> QED
  BY <1>2, <1>3, <1>4, <1>5, <1>6, <1>7, StepCases DEF Encode, Interrupt

\* Until the first reorganisation, the value a run puts in its calldata is the
\* one its storage proof proves, if the slot was not written between the L1
\* origin's block and the head.
THEOREM QuietValue == Spec => []QuietValueProven
<1>1. Init => ValueInv /\ ForkInv
  BY L1InitForks
  DEF Init, OriginInit, SessionInit, ValueInv, ForkInv, OriginSeen
<1>2. /\ TypeOK /\ PollInv /\ Progress /\ ForkInv /\ [Next]_vars => ForkInv'
      /\ TypeOK /\ PollInv /\ Progress /\ ForkInv /\ ValueInv /\ [Next]_vars
           => ValueInv'
  BY ForkStep, ValueStep
<1>3. TypeOK /\ Progress /\ ForkInv /\ ValueInv => QuietValueProven
  <2> SUFFICES ASSUME TypeOK, Progress, ForkInv, ValueInv, pc = "done", forks = 0,
                      \A n \in header.num..head : chain[n].slot = Latest.slot
               PROVE  storageValue = slotProof.value
    BY DEF QuietValueProven
  <2>1. PICK k \in header.num..head : storageValue = chain[k].slot
    BY DEF ValueInv
  <2>2. slotProof.value = chain[header.num].slot
    BY DEF ValueInv
  <2>3. header.num \in header.num..head
    <3>1. header \in Hash /\ header # Nil
      BY DEF TypeOK, OriginTypeOK, Progress, AfterOrigin
    <3>2. header.num \in Heights /\ header.num <= head
      BY <3>1, SeenIsBelow DEF TypeOK, ForkInv, OriginSeen
    <3> QED
      BY <3>2, ChainAssumption DEF TypeOK, L1TypeOK, Heights
  <2> QED
    BY <2>1, <2>2, <2>3
<1> QED
  BY <1>1, <1>2, <1>3, TypeCorrect, PTL DEF Spec

-----------------------------------------------------------------------------

(***************************************************************************)
(* Why a run implements PinnedRun.  The hash is taken once and the header  *)
(* is of that hash (HashInv).  While the block that answered the proof is  *)
(* of the chain, the slot is as it was proved; and if the hash is of the   *)
(* chain in the end, that block is its block (CanonicalMatch).             *)
(***************************************************************************)
RunInv ==
  /\ HashInv
  /\ pc = "oracle" => newHash = Nil
  /\ pc \in {"encode", "done"} => slotProof # Nil
  /\ slotProof # Nil /\ Canonical(ProofHash) => slotProof.value = chain[header.num].slot

LEMMA RunInvStep ==
  ASSUME TypeOK, PollInv, Progress, ForkInv, RunInv, [Next]_vars
  PROVE  RunInv'
<1>1. CASE OriginNext /\ UNCHANGED l1ProverVars
  <2>1. HashInv' /\ pc' \notin {"oracle", "encode", "done"}
    BY <1>1, OriginStepHash, OriginPlace DEF RunInv, OriginLabels, OriginCalls
  <2>2. slotProof' = Nil
    BY <1>1, OriginPlace DEF Progress, Ended, OriginLabels, OriginCalls, l1ProverVars
  <2> QED
    BY <2>1, <2>2 DEF RunInv
<1>2. CASE GenerateStorageProof /\ UNCHANGED l1vars /\ UNCHANGED originVars
  <2>1. /\ pc' = "encode" /\ UNCHANGED <<header, newHash, chain>>
        /\ slotProof' = [fork |-> chain[header.num].fork, value |-> chain[header.num].slot]
    BY <1>2 DEF GenerateStorageProof, Answered, Moves, originVars, l1vars
  <2>2. slotProof' # Nil
    <3>1. header \in Hash
      BY <1>2 DEF GenerateStorageProof, Answered, Moves, TypeOK, OriginTypeOK, Progress,
         AfterOrigin
    <3>2. chain[header.num] \in Block
      BY <3>1 DEF Hash, TypeOK, L1TypeOK
    <3> QED
      BY <2>1, <3>2, SlotProofAssumption DEF Block
  <2> QED
    BY <2>1, <2>2 DEF RunInv, HashInv, OriginLabels, OriginCalls
<1>3. CASE /\ slotProof' = slotProof /\ UNCHANGED originVars
           /\ \/ ReadOracleAddress \/ GetStorageAt \/ Encode \/ L1Stops \/ L1Errors
              \/ Interrupt \/ UNCHANGED sessionVars
  <2>1. ASSUME slotProof # Nil, Canonical(ProofHash)'
        PROVE  Canonical(ProofHash) /\ chain'[header.num] = chain[header.num]
    <3>1. ProofHash \in Hash /\ ProofHash.num = header.num /\ Seen(ProofHash)
      BY <2>1 DEF ProofHash, Hash, TypeOK, OriginTypeOK, Progress, ForkInv
    <3>2. \A h \in Hash : Seen(h) /\ Canonical(h)' =>
                            Canonical(h) /\ chain'[h.num] = chain[h.num]
      BY ChainSteps, SeenBlockStays DEF TypeOK, ForkInv
    <3>3. ProofHash' = ProofHash
      BY <1>3 DEF ProofHash, originVars
    <3>4. \A h \in Hash : h = ProofHash' => (Canonical(h)' <=> Canonical(ProofHash)')
      BY DEF Canonical
    <3> QED
      BY <2>1, <3>1, <3>2, <3>3, <3>4
  <2>2. /\ pc' \in OriginLabels => pc \in OriginLabels \cup {"oracle"}
        /\ pc' \in {"origin", "wait", "poll"} => pc \in {"oracle", "origin", "wait", "poll"}
        /\ pc' = "oracle" => pc = "oracle"
        /\ pc' \in {"encode", "done"} => pc \in {"encode", "done"}
    BY <1>3
    DEF ReadOracleAddress, GetStorageAt, Encode, L1Stops, L1Errors, CtxFails, RpcFails,
        Fails, Interrupt, Answered, Moves, sessionVars, OriginLabels, OriginCalls
  <2>3. pc = "oracle" => header = Nil
    BY DEF Progress
  <2> QED
    BY <1>3, <2>1, <2>2, <2>3 DEF RunInv, HashInv, originVars
<1> QED
  BY <1>1, <1>2, <1>3, StepCases
  DEF ReadOracleAddress, GetStorageAt, Encode, L1Stops, L1Errors, l1ProverVars

\* What the steps of a session are for PinnedRun.
LEMMA RunCases ==
  ASSUME TypeOK, PollInv, Progress, RunInv, [Next]_vars
  PROVE  \/ /\ UNCHANGED l1vars /\ pc \notin Ended /\ pc' \notin Ended
            /\ newHash = Nil /\ newHash' = origin
         \/ UNCHANGED l1vars /\ UNCHANGED newHash /\ pc \notin Ended /\ pc' \notin Ended
         \/ /\ UNCHANGED l1vars /\ UNCHANGED newHash /\ pc \notin Ended
            /\ pc' \in {"failed", "panicked"}
         \/ UNCHANGED <<l1vars, newHash, slotProof>> /\ pc = "encode" /\ pc' = "done"
         \/ [L1Next]_l1vars /\ UNCHANGED <<pc, newHash, slotProof>>
<1>1. CASE OriginNext /\ UNCHANGED l1vars
  <2>1. /\ pc \notin Ended
        /\ pc' \notin Ended \/ pc' \in {"failed", "panicked"}
    BY <1>1, OriginPlace DEF OriginLabels, OriginCalls, Ended
  <2> QED
    BY <1>1, <2>1, OriginStepHash DEF RunInv, Ended
<1>2. CASE /\ ReadOracleAddress \/ GetStorageAt \/ GenerateStorageProof \/ L1Stops \/ L1Errors
           /\ UNCHANGED l1vars /\ UNCHANGED originVars
  BY <1>2
  DEF ReadOracleAddress, GetStorageAt, GenerateStorageProof, L1Stops, L1Errors, CtxFails,
      RpcFails, Fails, Answered, Moves, L1Calls, Ended, originVars
<1>3. CASE Encode /\ UNCHANGED l1vars /\ UNCHANGED originVars
  BY <1>3 DEF Encode, Moves, originVars, l1ProverVars
<1>4. CASE /\ UNCHANGED originVars /\ UNCHANGED l1ProverVars
           /\ \/ UNCHANGED l1vars /\ Interrupt
              \/ [L1Next]_l1vars /\ UNCHANGED sessionVars
  BY <1>4 DEF Interrupt, sessionVars, originVars, l1ProverVars
<1> QED
  BY <1>1, <1>2, <1>3, <1>4, StepCases

LEMMA RunStep ==
  ASSUME TypeOK, PollInv, Progress, ForkInv, RunInv, [Next]_vars
  PROVE  [Run!Next]_Run!runVars
<1> USE DEF Run!Next, Run!runVars, Run!world
<1>0. UNCHANGED l1vars => UNCHANGED Told /\ UNCHANGED origin
  BY DEF Told, HashAt, l1vars
<1>1. CASE /\ UNCHANGED l1vars /\ pc \notin Ended /\ pc' \notin Ended
           /\ newHash = Nil /\ newHash' = origin
  <2>1. origin # Nil
    BY OriginAssumption DEF TypeOK, L1TypeOK
  <2>2. Phase = "idle" /\ Phase' = "pinned"
    BY <1>1, <2>1 DEF Phase, Ended
  <2> QED
    BY <1>0, <1>1, <2>2 DEF Run!Pin, Ended
<1>2. CASE UNCHANGED l1vars /\ UNCHANGED newHash /\ pc \notin Ended /\ pc' \notin Ended
  BY <1>0, <1>2, PhaseMoves DEF Ended
<1>3. CASE /\ UNCHANGED l1vars /\ UNCHANGED newHash /\ pc \notin Ended
           /\ pc' \in {"failed", "panicked"}
  <2>1. Phase \in {"idle", "pinned"} /\ Phase' = "failed"
    BY <1>3 DEF Phase, Ended
  <2> QED
    BY <1>0, <1>3, <2>1 DEF Run!Fail, Ended
<1>4. CASE UNCHANGED <<l1vars, newHash, slotProof>> /\ pc = "encode" /\ pc' = "done"
  <2>1. header = newHash /\ newHash # Nil /\ header \in Hash /\ slotProof # Nil
    BY <1>4 DEF RunInv, HashInv, Progress, AfterOrigin, TypeOK, OriginTypeOK
  <2>2. Phase = "pinned" /\ Phase' = "delivered"
    BY <1>4, <2>1 DEF Phase, Ended
  <2>3. ASSUME newHash \in DOMAIN Told PROVE slotProof = Told[newHash]
    <3>1. PICK n \in 1..head : newHash = HashAt(n)
      BY <2>3 DEF Told
    <3>2. Canonical(header)
      BY <2>1, <3>1 DEF Canonical, HashAt, TypeOK, L1TypeOK, Heights
    <3>3. slotProof.fork = header.fork
      BY <2>1, <3>2, SeenTwice DEF ForkInv, ProofHash, TypeOK
    <3>4. ProofHash = header
      BY <2>1, <3>3 DEF ProofHash, Hash
    <3>5. slotProof.value = chain[header.num].slot
      BY <2>1, <3>2, <3>4 DEF RunInv
    <3>6. slotProof = [fork |-> slotProof.fork, value |-> slotProof.value]
      BY <2>1 DEF TypeOK
    <3> QED
      BY <2>1, <2>3, <3>3, <3>5, <3>6 DEF Told
  <2> QED
    BY <1>0, <1>4, <2>2, <2>3 DEF Run!Deliver
<1>5. CASE [L1Next]_l1vars /\ UNCHANGED <<pc, newHash, slotProof>>
  <2>1. UNCHANGED Phase
    BY <1>5 DEF Phase
  <2>2. \A h \in DOMAIN Told \cap DOMAIN Told' : Told'[h] = Told[h]
    <3>1. \A h : h \in {HashAt(n) : n \in 1..head} /\ h \in {HashAt(n) : n \in 1..head}'
                 => chain'[h.num] = chain[h.num]
      BY <1>5, HashesStay DEF TypeOK, ForkInv
    <3> QED
      BY <3>1 DEF Told
  <2> QED
    BY <1>5, <2>1, <2>2 DEF Run!Move
<1> QED
  BY <1>1, <1>2, <1>3, <1>4, <1>5, RunCases

\* A run of proveNativeL1, call by call, implements the abstract run: for any
\* chain, any reorganisations, any oracle and any wait, what it hands over is
\* what the one block it took from the oracle tells, if that is of the chain.
THEOREM RunImplemented == Spec => ImplementsRun
<1>1. Init => ForkInv /\ RunInv /\ Run!Init
  BY L1InitForks
  DEF Init, OriginInit, SessionInit, ForkInv, OriginSeen, RunInv, HashInv, OriginLabels,
      OriginCalls, Run!Init, Phase, Ended
<1>2. /\ TypeOK /\ PollInv /\ Progress /\ ForkInv /\ [Next]_vars => ForkInv'
      /\ TypeOK /\ PollInv /\ Progress /\ ForkInv /\ RunInv /\ [Next]_vars
           => RunInv' /\ [Run!Next]_Run!runVars
  BY ForkStep, RunInvStep, RunStep
<1> QED
  BY <1>1, <1>2, TypeCorrect, PTL DEF Spec, ImplementsRun, Run!Spec

=============================================================================
