------------------------ MODULE NativeSessionProofs ------------------------
(***************************************************************************)
(* A run of proveNative, for all constants, chains and oracles and any     *)
(* number of reorganisations: what it has at each of its labels, whichever *)
(* prover the registry entry chooses; why the parts of its calldata that   *)
(* were proved by number are about one block and one output; and that it   *)
(* implements the abstract run.                                            *)
(***************************************************************************)
EXTENDS NativeSession, L1OriginProofs

\* The labels before GetL1Origin, and from its return on.
BeforeOrigin == {"oracle", "branch", "outputIndex"} \cup Fields \cup ScanLabels

AfterHeader ==
  {"header", "checks", "outputProof", "getOutput", "outputBatch", "value",
   "valueProof", "encode", "done"} \cup SettledCalls \cup UpdateCalls

BeforeHeader == BeforeOrigin \cup OriginLabels \cup {"header"}

\* Nothing was asked for at the header's number yet.
NothingPinned ==
  /\ \A c \in PinnedCalls : answers[c] = NoAnswer
  /\ outputProof = NoOutput
  /\ l2Output = NoOutput
  /\ regProof = NoRead
  /\ settled = NoAnswer

\* There is no header yet, or one for good; without one, nothing is pinned.
HeaderInv ==
  /\ pc \in BeforeOrigin => polls = 0 /\ header = Nil
  /\ pc \in AfterHeader => header # Nil
  /\ pc \in BeforeHeader \/ header = Nil => NothingPinned

\* Where the Cannon prover needs a game it has one: the loop's, or the found.
GameInv ==
  /\ pc \in {"gameAtIndex", "status"} => i \in GameIndex
  /\ pc = "outputIndex" => ChosenType # OPStackCannon
  /\ pc \in OriginLabels \cup {"header"} =>
       (ChosenType = OPStackCannon => found \in GameIndex)
  /\ pc \in SettledCalls \cup {"checks"} => found \in GameIndex /\ settled = NoAnswer

\* The pinned calls that were answered when each label is reached.
CallsBefore ==
  [ gameId        |-> {},
    proofs        |-> {"gameId"},
    l2BlockNumber |-> {"gameId", "proofs"},
    createdAt     |-> {"gameId", "proofs", "l2BlockNumber"},
    resolvedAt    |-> {"gameId", "proofs", "l2BlockNumber", "createdAt"},
    checks        |-> PinnedCalls,
    l2Batch       |-> PinnedCalls ]

CallsInv ==
  /\ \A label \in DOMAIN CallsBefore :
       pc = label => \A c \in CallsBefore[label] : answers[c] # NoAnswer
  /\ pc = "getOutput" \/ l2Output # NoOutput => outputProof # NoOutput

Progress == PollInv /\ HeaderInv /\ GameInv /\ CallsInv

-----------------------------------------------------------------------------

LEMMA Initial == Init => TypeOK /\ Progress
<1> SUFFICES ASSUME Init PROVE TypeOK /\ Progress
  OBVIOUS
<1> USE DEF Init, SessionInit, OriginInit, RegistryInit, ScanInit, SettledInit, OutputInit
<1>1. L1TypeOK
  BY L1InitTyped
<1>2. /\ 0 \in 0..(EpochPollingTries + 1)
      /\ 0 \in 0..MaxGames
      /\ 0 \in 0..MaxHeight
      /\ 0 \in 0..MaxOutputs
  BY OriginAssumption, ChainAssumption
<1>3. SessionTypeOK /\ pc \in NativeLabels
  BY DEF SessionTypeOK, Errors, NativeLabels, ProverCalls
<1>4. OriginTypeOK /\ ScanTypeOK
  BY <1>2 DEF OriginTypeOK, ScanTypeOK
<1>5. RegistryTypeOK /\ SettledTypeOK /\ OutputTypeOK
  BY <1>2 DEF RegistryTypeOK, SettledTypeOK, OutputTypeOK
<1>6. PollInv /\ HeaderInv
  BY DEF PollInv, HeaderInv, NothingPinned, AfterHeader, SettledCalls, PinnedCalls, UpdateCalls
<1>7. GameInv /\ CallsInv
  BY DEF GameInv, CallsInv, CallsBefore, OriginLabels, OriginCalls, SettledCalls, PinnedCalls
<1> QED
  BY <1>1, <1>3, <1>4, <1>5, <1>6, <1>7 DEF TypeOK, Progress

\* The parts of the session's state that each component leaves alone.
LEMMA StepCases ==
  ASSUME [Next]_vars
  PROVE  \/ OriginDoes /\ UNCHANGED l1vars
         \/ ProverDoes /\ UNCHANGED l1vars
         \/ RegistryDoes /\ UNCHANGED l1vars
         \/ ScanDoes /\ UNCHANGED l1vars
         \/ SettledDoes /\ UNCHANGED l1vars
         \/ OutputDoes /\ UNCHANGED l1vars
         \/ /\ Interrupt
            /\ UNCHANGED <<l1vars, originVars, registryVars, scanVars, settledVars, outputVars>>
         \/ /\ [L1Next]_l1vars
            /\ UNCHANGED <<sessionVars, originVars, registryVars, scanVars, settledVars, outputVars>>
  BY DEF Next, SessionNext, vars

LEMMA ChainSteps ==
  ASSUME [Next]_vars
  PROVE  [L1Next]_l1vars
  BY StepCases

-----------------------------------------------------------------------------
(* One step of each component keeps the types and what its labels have. *)

LEMMA OriginStepKeeps ==
  ASSUME TypeOK, Progress, OriginDoes, UNCHANGED l1vars
  PROVE  TypeOK' /\ Progress'
<1>1. /\ SessionTypeOK' /\ OriginTypeOK' /\ PollInv'
      /\ pc \in OriginLabels
      /\ pc' \in OriginLabels \cup {"header", "failed", "panicked"}
  BY OriginStepTyped, OriginPlace DEF OriginDoes, TypeOK, Progress, L1TypeOK
<1>2. UNCHANGED <<l2Config, regProof, found, i, answers, settled, outputProof, l2Output>>
  BY DEF OriginDoes, registryVars, scanVars, settledVars, outputVars
<1>3. NothingPinned /\ NothingPinned'
  BY <1>1, <1>2 DEF Progress, HeaderInv, BeforeHeader, NothingPinned
<1>4. HeaderInv'
  BY <1>1, <1>3 DEF HeaderInv, PollInv, BeforeOrigin, Fields, ScanLabels, AfterHeader,
     SettledCalls, PinnedCalls, UpdateCalls, OriginLabels, OriginCalls
<1>5. GameInv'
  BY <1>1, <1>2 DEF Progress, GameInv, ChosenType, SettledCalls, PinnedCalls,
     OriginLabels, OriginCalls
<1>6. CallsInv'
  BY <1>1, <1>3 DEF CallsInv, CallsBefore, NothingPinned, OriginLabels, OriginCalls
<1>7. pc' \in NativeLabels \cup Ended
  BY <1>1 DEF NativeLabels, Ended
<1> QED
  BY <1>1, <1>4, <1>5, <1>6, <1>7
  DEF TypeOK, Progress, OriginDoes, l1vars, registryVars, scanVars, settledVars,
      outputVars, L1TypeOK, RegistryTypeOK, ScanTypeOK, SettledTypeOK, OutputTypeOK

\* What the invariants say of an ended session follows from what they said
\* of it before.
LEMMA EndKeeps ==
  ASSUME SessionTypeOK, pc \notin Ended, Progress, NEW kind \in Errors \ {"none", "timeout"},
         Fails(kind),
         UNCHANGED <<originVars, l2Config, regProof, answers, settled, outputProof, l2Output>>
  PROVE  SessionTypeOK' /\ Progress'
<1>1. pc' = "failed" /\ err' = kind /\ cancelled' = cancelled
  BY DEF Fails
<1>2. SessionTypeOK' /\ PollInv'
  BY <1>1 DEF SessionTypeOK, Errors, Progress, PollInv, originVars
<1>3. HeaderInv'
  BY <1>1 DEF Progress, HeaderInv, NothingPinned, BeforeHeader, BeforeOrigin, Fields,
     ScanLabels, AfterHeader, SettledCalls, PinnedCalls, UpdateCalls, OriginLabels,
     OriginCalls, originVars
<1>4. GameInv' /\ CallsInv'
  BY <1>1 DEF Progress, GameInv, CallsInv, CallsBefore, SettledCalls, PinnedCalls,
     OriginLabels, OriginCalls
<1> QED
  BY <1>2, <1>3, <1>4 DEF Progress

LEMMA ProverStepKeeps ==
  ASSUME TypeOK, Progress, ProverDoes, UNCHANGED l1vars
  PROVE  TypeOK' /\ Progress'
<1>0. /\ UNCHANGED <<originVars, l2Config, regProof, found, i, answers, settled,
                     outputProof, l2Output>>
      /\ L1TypeOK' /\ OriginTypeOK' /\ RegistryTypeOK' /\ ScanTypeOK'
      /\ SettledTypeOK' /\ OutputTypeOK'
  BY DEF ProverDoes, originVars, registryVars, scanVars, settledVars, outputVars, l1vars,
     TypeOK, L1TypeOK, OriginTypeOK, RegistryTypeOK, ScanTypeOK, SettledTypeOK, OutputTypeOK
<1> SUFFICES SessionTypeOK' /\ Progress' /\ pc' \in NativeLabels \cup Ended
  BY <1>0 DEF TypeOK
<1> USE DEF NativeLabels, ProverCalls, Ended
<1>1. ASSUME NEW kind \in Errors \ {"none", "timeout"}, pc \notin Ended, Fails(kind)
      PROVE  SessionTypeOK' /\ Progress' /\ pc' \in NativeLabels \cup Ended
  BY <1>0, <1>1, EndKeeps DEF Fails, TypeOK
<1>2. CASE RejectConfig \/ CtxFails(ProverCalls) \/ RpcFails(ProverCalls)
  BY <1>1, <1>2 DEF RejectConfig, CtxFails, RpcFails, Errors
<1>3. ASSUME NEW from, NEW to, Moves(from, to),
             <<from, to>> \in
               { <<"oracle", "type">>, <<"branch", "gameCount">>, <<"branch", "outputIndex">>,
                 <<"header", "gameId">>, <<"header", "outputProof">>,
                 <<"value", "valueProof">>, <<"valueProof", "updType">>, <<"encode", "done">> },
             <<from, to>> = <<"branch", "outputIndex">> => ChosenType = OPStackBedrock,
             <<from, to>> = <<"header", "gameId">> => ChosenType = OPStackCannon
      PROVE  SessionTypeOK' /\ Progress' /\ pc' \in NativeLabels \cup Ended
  <2>1. pc = from /\ pc' = to /\ UNCHANGED <<err, cancelled>>
    BY <1>3 DEF Moves
  <2>2. pc' \in NativeLabels \cup Ended
    BY <1>3, <2>1 DEF Fields, ScanLabels, SettledCalls, PinnedCalls, OutputCalls, UpdateCalls
  <2>3. SessionTypeOK' /\ PollInv'
    BY <1>0, <1>3, <2>1 DEF TypeOK, SessionTypeOK, Progress, PollInv, originVars
  <2>4. HeaderInv'
    BY <1>0, <1>3, <2>1 DEF Progress, HeaderInv, NothingPinned, BeforeHeader, BeforeOrigin,
       Fields, ScanLabels, AfterHeader, SettledCalls, PinnedCalls, UpdateCalls, OriginLabels,
       OriginCalls, originVars
  <2>5. GameInv'
    BY <1>0, <1>3, <2>1 DEF Progress, GameInv, HeaderInv, NothingPinned, BeforeHeader,
       ChosenType, OPStackBedrock, OPStackCannon, SettledCalls, PinnedCalls, OriginLabels,
       OriginCalls
  <2>6. CallsInv'
    BY <1>0, <1>3, <2>1 DEF Progress, CallsInv, CallsBefore, PinnedCalls
  <2> QED
    BY <2>2, <2>3, <2>4, <2>5, <2>6 DEF Progress
<1>4. CASE ReadOracleAddress \/ ChooseProver \/ BeginSettledProof \/ ReadL2Storage \/ Encode
  BY <1>3, <1>4
  DEF ReadOracleAddress, ChooseProver, CanSearchOutputs, BeginSettledProof, ReadL2Storage,
      Encode, Answered
<1> QED
  BY <1>2, <1>4 DEF ProverDoes, ProverStep, ProverAnswers, ProverLocal

LEMMA RegistryStepKeeps ==
  ASSUME TypeOK, Progress, RegistryDoes, UNCHANGED l1vars
  PROVE  TypeOK' /\ Progress'
<1>0. /\ UNCHANGED <<originVars, found, i, answers, settled, outputProof, l2Output>>
      /\ L1TypeOK' /\ OriginTypeOK' /\ ScanTypeOK' /\ SettledTypeOK' /\ OutputTypeOK'
  BY DEF RegistryDoes, originVars, scanVars, settledVars, outputVars, l1vars,
     TypeOK, L1TypeOK, OriginTypeOK, ScanTypeOK, SettledTypeOK, OutputTypeOK
<1>1. Latest.config \in Configs /\ head \in 0..MaxHeight
  BY ChainAssumption DEF TypeOK, L1TypeOK, Latest, Block, Heights
<1> SUFFICES SessionTypeOK' /\ RegistryTypeOK' /\ Progress' /\ pc' \in NativeLabels \cup Ended
  BY <1>0 DEF TypeOK
<1> USE DEF NativeLabels, ProverCalls, Ended
<1>2. CASE UnsupportedUpdate \/ RegistryStops \/ RegistryErrors
  <2>1. PICK kind \in {"config", "cancelled", "rpc"} :
          Fails(kind) /\ pc \in Fields \cup UpdateCalls /\ UNCHANGED registryVars
    BY <1>2 DEF UnsupportedUpdate, RegistryStops, RegistryErrors, CtxFails, RpcFails, UpdateCalls
  <2>2. pc \notin Ended /\ kind \in Errors \ {"none", "timeout"}
    BY <2>1 DEF Fields, UpdateCalls, Errors
  <2>3. SessionTypeOK' /\ Progress'
    BY <1>0, <2>1, <2>2, EndKeeps DEF TypeOK, registryVars
  <2> QED
    BY <2>1, <2>3 DEF Fails, TypeOK, RegistryTypeOK, registryVars
<1>3. CASE GetL2Configuration
  <2>1. PICK from \in Fields, to \in {"addresses", "slots", "branch"} : ReadConfig(from, to)
    BY <1>3 DEF GetL2Configuration, Fields
  <2>2. /\ pc = from /\ pc' = to /\ UNCHANGED <<err, cancelled>>
        /\ UNCHANGED regProof
    BY <2>1 DEF ReadConfig, Moves
  <2>3. RegistryTypeOK'
    BY <1>1, <2>1 DEF ReadConfig, TypeOK, RegistryTypeOK
  <2>4. SessionTypeOK' /\ PollInv'
    BY <1>0, <2>1, <2>2 DEF TypeOK, SessionTypeOK, Progress, PollInv, originVars, Fields
  <2>5. HeaderInv'
    BY <1>0, <2>1, <2>2 DEF Progress, HeaderInv, NothingPinned, BeforeHeader, BeforeOrigin,
       Fields, ScanLabels, AfterHeader, SettledCalls, PinnedCalls, UpdateCalls, OriginLabels,
       OriginCalls, originVars
  <2>6. GameInv' /\ CallsInv'
    BY <1>0, <2>1, <2>2 DEF Progress, GameInv, CallsInv, CallsBefore, SettledCalls,
       PinnedCalls, OriginLabels, OriginCalls, Fields
  <2> QED
    BY <2>2, <2>3, <2>4, <2>5, <2>6 DEF Progress, Fields
<1>4. CASE GetL2ConfigurationForUpdate \/ GetRegistryStorageProof(header.num)
  <2>1. /\ pc \in UpdateCalls /\ pc' \in UpdateCalls \cup {"encode"}
        /\ UNCHANGED <<err, cancelled, l2Config>>
    BY <1>4 DEF GetL2ConfigurationForUpdate, GetRegistryStorageProof, ReadUpdate, Answered,
       Moves, UpdateCalls
  <2>2. ASSUME GetL2ConfigurationForUpdate PROVE RegistryTypeOK'
    <3>1. PICK label \in UpdateCalls, field \in UpdateFields, to \in UpdateCalls :
            ReadUpdate(label, field, to)
      BY <2>2 DEF GetL2ConfigurationForUpdate, UpdateCalls, UpdateFields, Fields
    <3> QED
      BY <1>1, <3>1 DEF ReadUpdate, TypeOK, RegistryTypeOK
  <2>3. ASSUME GetRegistryStorageProof(header.num) PROVE RegistryTypeOK'
    <3>1. header \in Hash
      BY <2>1 DEF TypeOK, OriginTypeOK, Progress, HeaderInv, AfterHeader
    <3>2. chain[header.num].config \in Configs /\ chain[header.num].fork \in 0..MaxReorgs
      BY <3>1 DEF Hash, TypeOK, L1TypeOK, Block
    <3> QED
      BY <2>3, <3>2 DEF GetRegistryStorageProof, TypeOK, RegistryTypeOK, RegistryProof
  <2>4. RegistryTypeOK'
    BY <1>4, <2>2, <2>3
  <2>5. SessionTypeOK' /\ PollInv'
    BY <1>0, <2>1 DEF TypeOK, SessionTypeOK, Progress, PollInv, originVars, UpdateCalls
  <2>6. HeaderInv'
    BY <1>0, <2>1 DEF Progress, HeaderInv, BeforeHeader, BeforeOrigin,
       Fields, ScanLabels, AfterHeader, UpdateCalls, OriginLabels, OriginCalls, originVars
  <2>7. GameInv' /\ CallsInv'
    BY <1>0, <2>1 DEF Progress, GameInv, CallsInv, CallsBefore, SettledCalls,
       PinnedCalls, OriginLabels, OriginCalls, UpdateCalls
  <2> QED
    BY <2>1, <2>4, <2>5, <2>6, <2>7 DEF Progress
<1> QED
  BY <1>2, <1>3, <1>4 DEF RegistryDoes, RegistryAnswers

LEMMA ScanStepKeeps ==
  ASSUME TypeOK, Progress, ScanDoes, UNCHANGED l1vars
  PROVE  TypeOK' /\ Progress'
<1>0. /\ UNCHANGED <<originVars, l2Config, regProof, answers, settled, outputProof, l2Output>>
      /\ L1TypeOK' /\ OriginTypeOK' /\ RegistryTypeOK' /\ SettledTypeOK' /\ OutputTypeOK'
  BY DEF ScanDoes, originVars, registryVars, settledVars, outputVars, l1vars,
     TypeOK, L1TypeOK, OriginTypeOK, RegistryTypeOK, SettledTypeOK, OutputTypeOK
<1>1. /\ Latest.count \in 0..MaxGames
      /\ head \in 0..MaxHeight
      /\ GameIndex \subseteq 0..MaxGames
  BY ChainAssumption DEF TypeOK, L1TypeOK, Latest, Block, Heights, GameIndex
<1> SUFFICES SessionTypeOK' /\ ScanTypeOK' /\ Progress' /\ pc' \in NativeLabels \cup Ended
  BY <1>0 DEF TypeOK
<1> USE DEF NativeLabels, ProverCalls, Ended
<1>2. /\ pc \in ScanLabels
      /\ pc' \in {"gameAtIndex", "status", "origin", "failed"}
      /\ cancelled' = cancelled
      /\ pc' # "failed" => err' = err
      /\ pc' = "failed" => err' \in {"count", "nogame", "cancelled", "rpc"}
  BY DEF ScanDoes, GamesAnswer, ScanAnswers, ScanSkips, ScanStops, ScanErrors,
     ReadGameCount, NoGames, ReadGameAtIndex, ReadStatus, NotFinal, SkipStatusError,
     SkipEmptyAnswer, NextGame, CtxFails, RpcFails, Fails, Answered, Moves, ScanLabels
<1>3. /\ ScanTypeOK'
      /\ pc' \in {"gameAtIndex", "status"} => i' \in GameIndex
      /\ pc' = "origin" => found' \in GameIndex
  <2> USE ChainAssumption DEF TypeOK, ScanTypeOK, GameIndex
  <2>1. CASE ReadGameCount \/ NoGames
    BY <1>1, <2>1 DEF ReadGameCount, NoGames, Answered, Moves, Fails
  <2>2. CASE ReadGameAtIndex \/ ReadStatus \/ ScanStops \/ ScanErrors
    BY <2>2 DEF ReadGameAtIndex, ReadStatus, ScanStops, ScanErrors, CtxFails, RpcFails,
       Fails, Answered, Moves, scanVars, Progress, GameInv
  <2>3. CASE NextGame /\ pc \in {"gameAtIndex", "status"} /\ UNCHANGED <<found, since>>
    BY <2>3 DEF NextGame, Fails, Progress, GameInv
  <2> QED
    BY <2>1, <2>2, <2>3 DEF ScanDoes, GamesAnswer, ScanAnswers, ScanSkips, NotFinal,
       SkipStatusError, SkipEmptyAnswer
<1>4. SessionTypeOK' /\ PollInv'
  BY <1>0, <1>2 DEF TypeOK, SessionTypeOK, Errors, Progress, PollInv, HeaderInv, BeforeOrigin,
     ScanLabels, originVars
<1>5. HeaderInv'
  BY <1>0, <1>2 DEF Progress, HeaderInv, NothingPinned, BeforeHeader, BeforeOrigin,
     Fields, ScanLabels, AfterHeader, SettledCalls, PinnedCalls, UpdateCalls, OriginLabels,
     OriginCalls, originVars
<1>6. GameInv' /\ CallsInv'
  BY <1>0, <1>2, <1>3 DEF Progress, GameInv, CallsInv, CallsBefore, SettledCalls,
     PinnedCalls, OriginLabels, OriginCalls, ScanLabels
<1> QED
  BY <1>2, <1>3, <1>4, <1>5, <1>6 DEF Progress, ScanLabels, OriginLabels, OriginCalls

\* What the last checks complain of is an error of its own.
LEMMA ComplaintKinds ==
  Complaint \in {"proofs", "l2BlockNumber", "createdAt", "resolvedAt", "none"}
  BY DEF Complaint

\* The answer to a pinned call is one, about the header's block.
LEMMA PinnedAnswer ==
  ASSUME L1TypeOK, OriginTypeOK, header # Nil, NEW g \in GameIndex
  PROVE  AnswerAt(header.num, g) \in Answer /\ AnswerAt(header.num, g) # NoAnswer
<1>1. chain[header.num] \in Block
  BY DEF OriginTypeOK, Hash, L1TypeOK
<1>2. /\ chain[header.num].fork \in 0..MaxReorgs
      /\ Exists(chain[header.num], g) \in BOOLEAN
      /\ chain[header.num].games[g] \in GameState
  BY <1>1 DEF Block, Exists
<1>3. AnswerAt(header.num, g) \in Answer
  BY <1>2 DEF AnswerAt, Answer
<1> QED
  BY <1>3, SettledAssumption

LEMMA SettledStepKeeps ==
  ASSUME TypeOK, Progress, SettledDoes, UNCHANGED l1vars
  PROVE  TypeOK' /\ Progress'
<1>0. /\ UNCHANGED <<originVars, l2Config, regProof, found, i, outputProof, l2Output>>
      /\ L1TypeOK' /\ OriginTypeOK' /\ RegistryTypeOK' /\ ScanTypeOK' /\ OutputTypeOK'
  BY DEF SettledDoes, originVars, registryVars, scanVars, outputVars, l1vars,
     TypeOK, L1TypeOK, OriginTypeOK, RegistryTypeOK, ScanTypeOK, OutputTypeOK
<1> SUFFICES SessionTypeOK' /\ SettledTypeOK' /\ Progress' /\ pc' \in NativeLabels \cup Ended
  BY <1>0 DEF TypeOK
<1> USE DEF NativeLabels, ProverCalls, Ended
<1>1. CASE FailChecks \/ SettledStops \/ SettledErrors
  <2>1. PICK kind \in Errors \ {"none", "timeout"} :
          Fails(kind) /\ pc \in SettledCalls \cup {"checks"} /\ UNCHANGED settledVars
    BY <1>1, ComplaintKinds DEF FailChecks, SettledStops, SettledErrors, CtxFails, RpcFails,
       Errors
  <2>2. pc \notin Ended
    BY <2>1 DEF SettledCalls, PinnedCalls
  <2>3. SessionTypeOK' /\ Progress'
    BY <1>0, <2>1, <2>2, EndKeeps DEF TypeOK, settledVars
  <2> QED
    BY <2>1, <2>3 DEF Fails, TypeOK, SettledTypeOK, settledVars
<1>2. ASSUME pc \in SettledCalls \cup {"checks"}, UNCHANGED <<err, cancelled>>,
             pc' \in SettledCalls \cup {"checks", "value"}
      PROVE  SessionTypeOK' /\ PollInv' /\ HeaderInv'
  <2>1. SessionTypeOK' /\ PollInv'
    BY <1>0, <1>2 DEF TypeOK, SessionTypeOK, Progress, PollInv, SettledCalls, PinnedCalls,
       originVars
  <2>2. HeaderInv'
    BY <1>0, <1>2 DEF Progress, HeaderInv, BeforeHeader, BeforeOrigin, Fields, ScanLabels,
       AfterHeader, SettledCalls, PinnedCalls, OriginLabels, OriginCalls, originVars
  <2> QED
    BY <2>1, <2>2
<1>3. CASE PinnedCall(header.num, found)
  <2>1. PICK c \in PinnedCalls :
          /\ Answered(c, CallAfter[c])
          /\ answers' = [answers EXCEPT ![c] = AnswerAt(header.num, found)]
          /\ nulls' \in Nulls(c)
    BY <1>3 DEF PinnedCall
  <2>2. /\ pc = c /\ pc' = CallAfter[c] /\ UNCHANGED <<err, cancelled>>
        /\ pc' \in (PinnedCalls \ {"gameId"}) \cup {"checks"}
        /\ settled' = settled
    BY <1>3, <2>1 DEF PinnedCall, Answered, Moves, PinnedCalls, CallAfter
  <2>3. header # Nil /\ found \in GameIndex /\ settled = NoAnswer
    BY <2>2 DEF Progress, HeaderInv, GameInv, AfterHeader, SettledCalls
  <2>4. AnswerAt(header.num, found) \in Answer /\ AnswerAt(header.num, found) # NoAnswer
    BY <2>3, PinnedAnswer DEF TypeOK
  <2>5. nulls' \subseteq {"factory", "game"}
    BY <2>1 DEF Nulls, TypeOK, SettledTypeOK
  <2>6. SettledTypeOK'
    BY <2>1, <2>2, <2>4, <2>5 DEF TypeOK, SettledTypeOK
  <2>7. SessionTypeOK' /\ PollInv' /\ HeaderInv'
    BY <1>2, <2>2 DEF SettledCalls
  <2>8. GameInv'
    BY <1>0, <2>2, <2>3 DEF GameInv, SettledCalls, PinnedCalls, OriginLabels, OriginCalls
  <2>9. CallsInv'
    <3>1. \A d \in CallsBefore[c] \cup {c} : answers'[d] # NoAnswer
      BY <2>1, <2>2, <2>4 DEF Progress, CallsInv, CallsBefore, PinnedCalls, TypeOK, SettledTypeOK
    <3>2. CallsBefore[pc'] = CallsBefore[c] \cup {c}
      BY <2>2 DEF CallsBefore, CallAfter, PinnedCalls
    <3>3. pc' # "getOutput" /\ UNCHANGED <<outputProof, l2Output>>
      BY <1>0, <2>2 DEF PinnedCalls
    <3> QED
      BY <3>1, <3>2, <3>3 DEF Progress, CallsInv
  <2> QED
    BY <2>2, <2>6, <2>7, <2>8, <2>9 DEF Progress, SettledCalls
<1>4. CASE PassChecks
  <2>1. pc = "checks" /\ pc' = "l2Batch" /\ UNCHANGED <<err, cancelled>> /\ UNCHANGED settledVars
    BY <1>4 DEF PassChecks, Moves
  <2>2. SessionTypeOK' /\ PollInv' /\ HeaderInv'
    BY <1>2, <2>1 DEF SettledCalls
  <2>3. SettledTypeOK'
    BY <2>1 DEF TypeOK, SettledTypeOK, settledVars
  <2>4. GameInv'
    BY <1>0, <2>1 DEF Progress, GameInv, SettledCalls, OriginLabels, OriginCalls, settledVars
  <2>5. CallsInv'
    BY <1>0, <2>1 DEF Progress, CallsInv, CallsBefore, settledVars
  <2> QED
    BY <2>1, <2>2, <2>3, <2>4, <2>5 DEF Progress, SettledCalls
<1>5. CASE L2Batch(found)
  <2>1. /\ pc = "l2Batch" /\ pc' = "value" /\ UNCHANGED <<err, cancelled, answers, nulls>>
        /\ settled' = [game |-> found, slot |-> ClaimedStatus]
    BY <1>5 DEF L2Batch, Answered, Moves
  <2>2. found \in GameIndex /\ answers["createdAt"] # NoAnswer
    BY <2>1 DEF Progress, GameInv, CallsInv, CallsBefore, SettledCalls, PinnedCalls
  <2>3. answers["createdAt"].exists \in BOOLEAN
    BY <2>2 DEF TypeOK, SettledTypeOK, PinnedCalls, Answer
  <2>4. ClaimedStatus \in StatusSlot
    BY <2>3 DEF ClaimedStatus, StatusSlot
  <2>5. SettledTypeOK'
    BY <2>1, <2>2, <2>4 DEF TypeOK, SettledTypeOK, SettledProof
  <2>6. SessionTypeOK' /\ PollInv' /\ HeaderInv'
    BY <1>2, <2>1 DEF SettledCalls
  <2>7. GameInv' /\ CallsInv'
    BY <1>0, <2>1 DEF Progress, GameInv, CallsInv, CallsBefore, SettledCalls, PinnedCalls,
       OriginLabels, OriginCalls
  <2> QED
    BY <2>1, <2>5, <2>6, <2>7 DEF Progress
<1> QED
  BY <1>1, <1>3, <1>4, <1>5 DEF SettledDoes, SettledAnswers, SettledLocal

\* An output the contract has at an index is one.
LEMMA OutputTyped ==
  ASSUME NEW b \in Block, NEW k \in Nat, HasOutput(b, k)
  PROVE  k < MaxOutputs /\ OutputAt(b, k) \in Outputs
<1>1. b.outputs \in Seq(Outputs) /\ Len(b.outputs) <= MaxOutputs
  BY OutputListsAreSeqs DEF Block
<1> QED
  BY <1>1, ChainAssumption DEF HasOutput, OutputAt

\* The output the search names is one.
LEMMA NewestTyped ==
  ASSUME L1TypeOK, ReadOutputIndex
  PROVE  outputIndex' \in 0..MaxOutputs /\ newest' \in Outputs
<1>1. /\ Latest.outputs # <<>>
      /\ outputIndex' = Len(Latest.outputs) - 1
      /\ newest' = OutputAt(Latest, outputIndex')
  BY DEF ReadOutputIndex
<1>2. Latest \in Block
  BY DEF L1TypeOK, Latest
<1>3. Latest.outputs \in Seq(Outputs) /\ Len(Latest.outputs) # 0
  BY <1>1, <1>2, OutputListsAreSeqs DEF Block
<1>4. outputIndex' \in Nat /\ HasOutput(Latest, outputIndex')
  BY <1>1, <1>3 DEF HasOutput
<1> QED
  BY <1>1, <1>2, <1>4, OutputTyped, ChainAssumption

LEMMA OutputStepKeeps ==
  ASSUME TypeOK, Progress, OutputDoes, UNCHANGED l1vars
  PROVE  TypeOK' /\ Progress'
<1>0. /\ UNCHANGED <<originVars, l2Config, regProof, found, i, answers, settled>>
      /\ L1TypeOK' /\ OriginTypeOK' /\ RegistryTypeOK' /\ ScanTypeOK' /\ SettledTypeOK'
  BY DEF OutputDoes, originVars, registryVars, scanVars, settledVars, l1vars,
     TypeOK, L1TypeOK, OriginTypeOK, RegistryTypeOK, ScanTypeOK, SettledTypeOK
<1> SUFFICES SessionTypeOK' /\ OutputTypeOK' /\ Progress' /\ pc' \in NativeLabels \cup Ended
  BY <1>0 DEF TypeOK
<1> USE DEF NativeLabels, ProverCalls, Ended
<1>1. CASE OutputStops \/ OutputErrors
  <2>1. PICK kind \in Errors \ {"none", "timeout"} :
          Fails(kind) /\ pc \in OutputCalls /\ UNCHANGED outputVars
    BY <1>1 DEF OutputStops, OutputErrors, CtxFails, RpcFails, Errors
  <2>2. pc \notin Ended
    BY <2>1 DEF OutputCalls
  <2>3. SessionTypeOK' /\ Progress'
    BY <1>0, <2>1, <2>2, EndKeeps DEF TypeOK, outputVars
  <2> QED
    BY <2>1, <2>3 DEF Fails, TypeOK, OutputTypeOK, outputVars
<1>2. CASE ReadOutputIndex
  <2>1. /\ pc = "outputIndex" /\ pc' = "origin" /\ UNCHANGED <<err, cancelled>>
        /\ UNCHANGED <<outputProof, l2Output>>
    BY <1>2 DEF ReadOutputIndex, Answered, Moves
  <2>5. outputIndex' \in 0..MaxOutputs /\ newest' \in Outputs
    BY <1>2, NewestTyped DEF TypeOK
  <2>6. OutputTypeOK'
    BY <2>1, <2>5 DEF TypeOK, OutputTypeOK
  <2>7. SessionTypeOK' /\ PollInv'
    BY <1>0, <2>1 DEF TypeOK, SessionTypeOK, Progress, PollInv, HeaderInv, BeforeOrigin,
       originVars
  <2>8. HeaderInv'
    BY <1>0, <2>1 DEF Progress, HeaderInv, NothingPinned, BeforeHeader, BeforeOrigin, Fields,
       ScanLabels, AfterHeader, SettledCalls, PinnedCalls, UpdateCalls, OriginLabels,
       OriginCalls, originVars
  <2>9. GameInv' /\ CallsInv'
    BY <1>0, <2>1 DEF Progress, GameInv, CallsInv, CallsBefore, ChosenType, SettledCalls,
       PinnedCalls, OriginLabels, OriginCalls
  <2> QED
    BY <2>1, <2>6, <2>7, <2>8, <2>9 DEF Progress, OriginLabels, OriginCalls
<1>3. ASSUME pc \in {"outputProof", "getOutput", "outputBatch"}, UNCHANGED <<err, cancelled>>,
             pc' \in {"getOutput", "outputBatch", "value"},
             pc' = "getOutput" \/ l2Output' # NoOutput => outputProof' # NoOutput
      PROVE  SessionTypeOK' /\ Progress'
  <2>1. SessionTypeOK' /\ PollInv'
    BY <1>0, <1>3 DEF TypeOK, SessionTypeOK, Progress, PollInv, originVars
  <2>2. HeaderInv'
    BY <1>0, <1>3 DEF Progress, HeaderInv, BeforeHeader, BeforeOrigin, Fields, ScanLabels,
       AfterHeader, OriginLabels, OriginCalls, originVars
  <2>3. GameInv' /\ CallsInv'
    BY <1>0, <1>3 DEF Progress, GameInv, CallsInv, CallsBefore, SettledCalls, PinnedCalls,
       OriginLabels, OriginCalls
  <2> QED
    BY <2>1, <2>2, <2>3 DEF Progress
<1>4. ASSUME pc \in {"outputProof", "getOutput", "outputBatch"}
      PROVE  /\ chain[header.num] \in Block
             /\ outputIndex \in Nat
  BY <1>4, ChainAssumption DEF Progress, HeaderInv, AfterHeader, TypeOK, L1TypeOK,
     OriginTypeOK, OutputTypeOK, Hash
<1>5. CASE GetOutputProof(header.num, l2Config["slots"] \in Versions(OPStackBedrock))
  <2>1. /\ pc = "outputProof" /\ pc' = "getOutput" /\ UNCHANGED <<err, cancelled>>
        /\ outputProof' \in ProvenOutput
        /\ UNCHANGED <<outputIndex, newest, l2Output>>
    <3>1. /\ pc = "outputProof" /\ pc' = "getOutput" /\ UNCHANGED <<err, cancelled>>
          /\ UNCHANGED <<outputIndex, newest, l2Output>>
      BY <1>5 DEF GetOutputProof, Answered, Moves
    <3>2. /\ chain[header.num].fork \in 0..MaxReorgs
          /\ HasOutput(chain[header.num], outputIndex) =>
               OutputAt(chain[header.num], outputIndex) \in Outputs
      BY <1>4, <3>1, OutputTyped DEF Block
    <3> QED
      BY <1>5, <3>1, <3>2 DEF GetOutputProof, ProvenOutput
  <2>2. outputProof' # NoOutput
    BY <2>1, BedrockAssumption
  <2>3. OutputTypeOK'
    BY <2>1 DEF TypeOK, OutputTypeOK
  <2> QED
    BY <1>3, <2>1, <2>2, <2>3 DEF OutputCalls
<1>6. CASE GetL2Output(header.num)
  <2>1. /\ pc = "getOutput" /\ pc' = "outputBatch" /\ UNCHANGED <<err, cancelled>>
        /\ HasOutput(chain[header.num], outputIndex)
        /\ l2Output' = [ fork |-> chain[header.num].fork,
                         output |-> OutputAt(chain[header.num], outputIndex) ]
        /\ UNCHANGED <<outputIndex, newest, outputProof>>
    BY <1>6 DEF GetL2Output, Answered, Moves
  <2>2. /\ chain[header.num].fork \in 0..MaxReorgs
        /\ OutputAt(chain[header.num], outputIndex) \in Outputs
    BY <1>4, <2>1, OutputTyped DEF Block
  <2>3. OutputTypeOK'
    BY <2>1, <2>2 DEF TypeOK, OutputTypeOK
  <2>4. outputProof' # NoOutput
    BY <2>1 DEF Progress, CallsInv
  <2> QED
    BY <1>3, <2>1, <2>3, <2>4 DEF OutputCalls
<1>7. CASE OutputBatch
  <2>1. /\ pc = "outputBatch" /\ pc' = "value" /\ UNCHANGED <<err, cancelled>>
        /\ UNCHANGED outputVars
    BY <1>7 DEF OutputBatch, Answered, Moves
  <2>2. OutputTypeOK' /\ (l2Output' # NoOutput => outputProof' # NoOutput)
    BY <2>1 DEF TypeOK, OutputTypeOK, outputVars, Progress, CallsInv
  <2> QED
    BY <1>3, <2>1, <2>2
<1> QED
  BY <1>1, <1>2, <1>5, <1>6, <1>7 DEF OutputDoes, OutputsAnswer, OutputAnswers

-----------------------------------------------------------------------------

LEMMA TypeStep ==
  ASSUME TypeOK, Progress, [Next]_vars
  PROVE  TypeOK' /\ Progress'
<1> DEFINE others == <<originVars, registryVars, scanVars, settledVars, outputVars>>
<1>1. ASSUME L1TypeOK', SessionTypeOK', pc' = pc, err' = err, UNCHANGED others
      PROVE  TypeOK' /\ Progress'
  BY <1>1 DEF TypeOK, OriginTypeOK, RegistryTypeOK, ScanTypeOK, SettledTypeOK, OutputTypeOK,
     Progress, PollInv, HeaderInv, NothingPinned, GameInv, ChosenType, CallsInv,
     originVars, registryVars, scanVars, settledVars, outputVars
<1>2. CASE Interrupt /\ UNCHANGED l1vars /\ UNCHANGED others
  BY <1>1, <1>2 DEF Interrupt, TypeOK, L1TypeOK, SessionTypeOK, l1vars
<1>3. CASE [L1Next]_l1vars /\ UNCHANGED sessionVars /\ UNCHANGED others
  <2>1. L1TypeOK'
    BY <1>3, L1StepTyped DEF TypeOK
  <2>2. SessionTypeOK' /\ pc' = pc /\ err' = err
    BY <1>3 DEF sessionVars, TypeOK, SessionTypeOK
  <2> QED
    BY <1>1, <1>3, <2>1, <2>2
<1> QED
  BY <1>2, <1>3, StepCases, OriginStepKeeps, ProverStepKeeps, RegistryStepKeeps,
     ScanStepKeeps, SettledStepKeeps, OutputStepKeeps

\* The session and the chain keep their types, and what each label has.
THEOREM TypeCorrect == Spec => [](TypeOK /\ Progress)
<1>1. Init => TypeOK /\ Progress
  BY Initial
<1>2. TypeOK /\ Progress /\ [Next]_vars => TypeOK' /\ Progress'
  BY TypeStep
<1> QED
  BY <1>1, <1>2, PTL DEF Spec

-----------------------------------------------------------------------------
(***************************************************************************)
(* Pinned calls.  They carry a number, and are made when the header was    *)
(* already seen: so each was answered from the block of the header's fork  *)
(* or of a later one at its number.  Should the header be canonical now,   *)
(* it is not of an earlier fork than any of them.                          *)
(***************************************************************************)
PinInv ==
  /\ ForksGrow
  /\ OriginSeen
  /\ \A f \in PinnedForks : Seen([num |-> header.num, fork |-> f]) /\ header.fork <= f

LEMMA PinnedForksTyped ==
  ASSUME TypeOK
  PROVE  PinnedForks \subseteq 0..MaxReorgs
<1>1. \A c \in PinnedCalls : answers[c] # NoAnswer => answers[c].fork \in 0..MaxReorgs
  BY DEF TypeOK, SettledTypeOK, Answer
<1>2. \A p \in {outputProof, l2Output} \ {NoOutput} : p.fork \in 0..MaxReorgs
  BY DEF TypeOK, OutputTypeOK, ProvenOutput
<1>3. regProof # NoRead => regProof.fork \in 0..MaxReorgs
  BY DEF TypeOK, RegistryTypeOK, RegistryProof
<1> QED
  BY <1>1, <1>2, <1>3 DEF PinnedForks

LEMMA NothingPinnedForks ==
  NothingPinned => PinnedForks = {}
  BY DEF NothingPinned, PinnedForks

\* A step leaves what was pinned, or pins an answer of the block that is at
\* the header's number now.
LEMMA PinCases ==
  ASSUME TypeOK, Progress, [Next]_vars
  PROVE  \/ OriginDoes /\ UNCHANGED l1vars /\ PinnedForks' = {}
         \/ UNCHANGED originVars /\ PinnedForks' \subseteq PinnedForks
         \/ /\ UNCHANGED originVars /\ UNCHANGED l1vars
            /\ header # Nil /\ header.num <= head
            /\ PinnedForks' \subseteq PinnedForks \cup {chain[header.num].fork}
<1> DEFINE pinned == <<answers, outputProof, l2Output, regProof>>
<1>1. UNCHANGED pinned => PinnedForks' = PinnedForks
  BY DEF PinnedForks
<1>2. CASE OriginDoes /\ UNCHANGED l1vars
  <2>1. pc \in OriginLabels /\ UNCHANGED pinned
    BY <1>2, OriginPlace DEF OriginDoes, registryVars, settledVars, outputVars
  <2>2. PinnedForks = {}
    BY <2>1, NothingPinnedForks DEF Progress, HeaderInv, BeforeHeader
  <2> QED
    BY <1>1, <1>2, <2>1, <2>2
<1>3. CASE UNCHANGED originVars /\ UNCHANGED pinned
  BY <1>1, <1>3
<1>4. CASE RegistryDoes /\ UNCHANGED l1vars
  <2>1. UNCHANGED <<originVars, answers, outputProof, l2Output>>
    BY <1>4 DEF RegistryDoes, settledVars, outputVars
  <2>2. CASE GetRegistryStorageProof(header.num)
    <3>1. /\ pc = "regProof" /\ header.num <= head
          /\ regProof'.fork = chain[header.num].fork
      BY <2>2 DEF GetRegistryStorageProof, Answered, Moves
    <3>2. header # Nil
      BY <3>1 DEF Progress, HeaderInv, AfterHeader, UpdateCalls
    <3>3. PinnedForks' \subseteq PinnedForks \cup {chain[header.num].fork}
      BY <2>1, <3>1 DEF PinnedForks
    <3> QED
      BY <1>4, <2>1, <3>1, <3>2, <3>3
  <2>3. CASE UNCHANGED regProof
    BY <1>3, <2>1, <2>3
  <2> QED
    BY <1>4, <2>2, <2>3
    DEF RegistryDoes, RegistryAnswers, GetL2Configuration, ReadConfig,
        GetL2ConfigurationForUpdate, ReadUpdate, UnsupportedUpdate, RegistryStops,
        RegistryErrors, registryVars
<1>5. CASE SettledDoes /\ UNCHANGED l1vars
  <2>1. UNCHANGED <<originVars, regProof, outputProof, l2Output>>
    BY <1>5 DEF SettledDoes, registryVars, outputVars
  <2>2. CASE PinnedCall(header.num, found)
    <3>1. PICK c \in PinnedCalls : answers' = [answers EXCEPT ![c] = AnswerAt(header.num, found)]
      BY <2>2 DEF PinnedCall
    <3>2. pc \in PinnedCalls /\ header.num <= head
      BY <2>2 DEF PinnedCall
    <3>3. header # Nil
      BY <3>2 DEF Progress, HeaderInv, AfterHeader, SettledCalls
    <3>4. \A d \in PinnedCalls :
            answers'[d] = answers[d] \/ answers'[d].fork = chain[header.num].fork
      BY <3>1 DEF AnswerAt, TypeOK, SettledTypeOK
    <3>5. PinnedForks' \subseteq PinnedForks \cup {chain[header.num].fork}
      BY <2>1, <3>4 DEF PinnedForks
    <3> QED
      BY <1>5, <2>1, <3>2, <3>3, <3>5
  <2>3. CASE UNCHANGED answers
    BY <1>3, <2>1, <2>3
  <2> QED
    BY <1>5, <2>2, <2>3
    DEF SettledDoes, SettledAnswers, SettledLocal, L2Batch, PassChecks, FailChecks,
        SettledStops, SettledErrors, settledVars
<1>6. CASE OutputDoes /\ UNCHANGED l1vars
  <2>1. UNCHANGED <<originVars, regProof, answers>>
    BY <1>6 DEF OutputDoes, registryVars, settledVars
  <2>2. CASE GetL2Output(header.num)
             \/ GetOutputProof(header.num, l2Config["slots"] \in Versions(OPStackBedrock))
    <3>1. pc \in {"outputProof", "getOutput"} /\ header.num <= head
      BY <2>2 DEF GetL2Output, GetOutputProof, Answered, Moves
    <3>2. header # Nil
      BY <3>1 DEF Progress, HeaderInv, AfterHeader
    <3>3. \/ UNCHANGED outputProof /\ l2Output'.fork = chain[header.num].fork
          \/ UNCHANGED l2Output /\ outputProof'.fork = chain[header.num].fork
      BY <2>2 DEF GetL2Output, GetOutputProof
    <3>4. PinnedForks' \subseteq PinnedForks \cup {chain[header.num].fork}
      BY <2>1, <3>3 DEF PinnedForks
    <3> QED
      BY <1>6, <2>1, <3>1, <3>2, <3>4
  <2>3. CASE UNCHANGED <<outputProof, l2Output>>
    BY <1>3, <2>1, <2>3
  <2> QED
    BY <1>6, <2>2, <2>3
    DEF OutputDoes, OutputsAnswer, OutputAnswers, ReadOutputIndex, OutputBatch, OutputStops,
        OutputErrors, outputVars
<1> QED
  BY <1>2, <1>3, <1>4, <1>5, <1>6, StepCases
  DEF ProverDoes, ScanDoes, registryVars, settledVars, outputVars

LEMMA PinStep ==
  ASSUME TypeOK, Progress, PinInv, [Next]_vars
  PROVE  PinInv'
<1>0. /\ ForksGrow'
      /\ \A h \in Hash : Seen(h) => Seen(h)'
  BY ChainSteps, SeenStays DEF TypeOK, PinInv
<1>1. CASE OriginDoes /\ UNCHANGED l1vars /\ PinnedForks' = {}
  <2>1. OriginSeen'
    BY <1>1, OriginStepSeen DEF OriginDoes, PinInv, Progress
  <2> QED
    BY <1>0, <1>1, <2>1 DEF PinInv
<1>2. CASE UNCHANGED originVars /\
            \/ PinnedForks' \subseteq PinnedForks
            \/ /\ UNCHANGED l1vars /\ header # Nil /\ header.num <= head
               /\ PinnedForks' \subseteq PinnedForks \cup {chain[header.num].fork}
  <2>1. OriginSeen' /\ header' = header
    BY <1>2, ChainSteps, OriginSeenKept DEF TypeOK, PinInv, originVars
  <2>2. ASSUME NEW f \in PinnedForks
        PROVE  Seen([num |-> header.num, fork |-> f])' /\ header.fork <= f
    <3>1. header # Nil
      BY <2>2, NothingPinnedForks DEF Progress, HeaderInv
    <3>2. [num |-> header.num, fork |-> f] \in Hash
      BY <2>2, <3>1, PinnedForksTyped DEF TypeOK, OriginTypeOK, Hash
    <3> QED
      BY <1>0, <2>1, <3>2 DEF PinInv, Seen
  <2>3. ASSUME header # Nil, header.num <= head, UNCHANGED l1vars
        PROVE  /\ Seen([num |-> header.num, fork |-> chain[header.num].fork])'
               /\ header.fork <= chain[header.num].fork
    <3>1. header \in Hash /\ header.num \in 1..head
      BY <2>3, ForkNumbers DEF TypeOK, OriginTypeOK, Heights
    <3>2. Seen(HashAt(header.num)) /\ Seen(header)
      BY <2>3, <3>1, ChainSeen DEF TypeOK, PinInv, OriginSeen
    <3> QED
      BY <2>1, <2>3, <3>1, <3>2 DEF Seen, HashAt, l1vars
  <2>4. ASSUME NEW f \in PinnedForks'
        PROVE  Seen([num |-> header.num, fork |-> f])' /\ header.fork <= f
    <3>1. CASE f \in PinnedForks
      BY <2>2, <3>1
    <3>2. CASE f \notin PinnedForks
      <4>1. /\ UNCHANGED l1vars /\ header # Nil /\ header.num <= head
            /\ f = chain[header.num].fork
        BY <1>2, <2>4, <3>2
      <4>2. f = chain'[header'.num].fork
        BY <2>1, <4>1 DEF l1vars
      <4> QED
        BY <2>1, <2>3, <4>1, <4>2 DEF Seen
    <3> QED
      BY <3>1, <3>2
  <2>5. \A f \in PinnedForks' : Seen([num |-> header.num, fork |-> f])' /\ header.fork <= f
    BY <2>4
  <2>6. (\A f \in PinnedForks : Seen([num |-> header.num, fork |-> f]) /\ header.fork <= f)'
    BY <2>1, <2>5 DEF Seen
  <2> QED
    BY <1>0, <2>1, <2>6 DEF PinInv
<1> QED
  BY <1>1, <1>2, PinCases

LEMMA PinInit == Init => PinInv
<1> SUFFICES ASSUME Init PROVE PinInv
  OBVIOUS
<1>1. NothingPinned
  BY DEF Init, SettledInit, OutputInit, RegistryInit, NothingPinned
<1> QED
  BY <1>1, NothingPinnedForks, L1InitForks DEF Init, OriginInit, PinInv, OriginSeen

LEMMA PinnedMatch ==
  ASSUME TypeOK, PinInv
  PROVE  CanonicalProofsMatch
<1> SUFFICES ASSUME header # Nil, Canonical(header), NEW f \in PinnedForks
             PROVE  f = header.fork
  BY DEF CanonicalProofsMatch
<1>1. header \in Hash /\ f \in 0..MaxReorgs
  BY PinnedForksTyped DEF TypeOK, OriginTypeOK
<1> QED
  BY <1>1, SeenTwice DEF TypeOK, PinInv

\* However often the chain reorganises and whatever the oracle names: as long
\* as the header of a run is canonical, all that either prover or the registry
\* asked for by its number is of its block.
THEOREM CanonicalMatch == Spec => []CanonicalProofsMatch
<1>1. Init => PinInv
  BY PinInit
<1>2. TypeOK /\ Progress /\ PinInv /\ [Next]_vars => PinInv'
  BY PinStep
<1>3. TypeOK /\ PinInv => CanonicalProofsMatch
  BY PinnedMatch
<1> QED
  BY <1>1, <1>2, <1>3, TypeCorrect, PTL DEF Spec

-----------------------------------------------------------------------------
(***************************************************************************)
(* One output.  A hash names one block for good (SeenBlockStays), so what  *)
(* was read from a block that is still of the chain is what the chain's    *)
(* block at that number has now.                                           *)
(***************************************************************************)
PinnedHash(f) == [num |-> header.num, fork |-> f]

OutputInv ==
  /\ outputProof # NoOutput /\ Canonical(PinnedHash(outputProof.fork)) =>
       outputProof.output = IF Listed /\ HasOutput(chain[header.num], outputIndex)
                            THEN OutputAt(chain[header.num], outputIndex)
                            ELSE NoOutput
  /\ l2Output # NoOutput /\ Canonical(PinnedHash(l2Output.fork)) =>
       /\ HasOutput(chain[header.num], outputIndex)
       /\ l2Output.output = OutputAt(chain[header.num], outputIndex)

\* While the block of an answer is of the chain, it is as it was then.
LEMMA PinnedStays ==
  ASSUME TypeOK, Progress, PinInv, [Next]_vars, UNCHANGED header,
         NEW f \in PinnedForks, Canonical(PinnedHash(f))'
  PROVE  Canonical(PinnedHash(f)) /\ chain'[header.num] = chain[header.num]
<1>1. header # Nil
  BY NothingPinnedForks DEF Progress, HeaderInv
<1>2. PinnedHash(f) \in Hash /\ PinnedHash(f).num = header.num /\ Seen(PinnedHash(f))
  BY <1>1, PinnedForksTyped DEF TypeOK, OriginTypeOK, Hash, PinnedHash, PinInv
<1>3. \A h \in Hash : Seen(h) /\ Canonical(h)' => Canonical(h) /\ chain'[h.num] = chain[h.num]
  BY ChainSteps, SeenBlockStays DEF TypeOK, PinInv
<1>4. PinnedHash(f)' = PinnedHash(f)
  BY DEF PinnedHash
<1>5. \A h \in Hash : h = PinnedHash(f)' => (Canonical(h)' <=> Canonical(PinnedHash(f))')
  BY DEF Canonical
<1> QED
  BY <1>2, <1>3, <1>4, <1>5

\* What the two answers are about changes before they are asked for only.
LEMMA OutputCases ==
  ASSUME TypeOK, Progress, [Next]_vars
  PROVE  \/ outputProof' = NoOutput /\ l2Output' = NoOutput
         \/ UNCHANGED <<header, outputIndex, outputProof, l2Output, l2Config>>
         \/ /\ UNCHANGED <<l1vars, header, outputIndex, l2Config>>
            /\ GetL2Output(header.num) \/ GetOutputProof(header.num, Listed)
<1>1. ASSUME pc \in BeforeHeader PROVE outputProof = NoOutput /\ l2Output = NoOutput
  BY <1>1 DEF Progress, HeaderInv, NothingPinned
<1>2. CASE OriginDoes
  <2>1. pc \in BeforeHeader /\ UNCHANGED outputVars
    BY <1>2, OriginPlace DEF OriginDoes, BeforeHeader
  <2> QED
    BY <1>1, <2>1 DEF outputVars
<1>3. CASE RegistryDoes
  <2>1. CASE GetL2Configuration
    <3>1. pc \in BeforeHeader /\ UNCHANGED outputVars
      BY <1>3, <2>1
      DEF RegistryDoes, GetL2Configuration, ReadConfig, Moves, BeforeHeader, BeforeOrigin, Fields
    <3> QED
      BY <1>1, <3>1 DEF outputVars
  <2>2. CASE UNCHANGED l2Config
    BY <1>3, <2>2 DEF RegistryDoes, originVars, outputVars
  <2> QED
    BY <1>3, <2>1, <2>2
    DEF RegistryDoes, RegistryAnswers, GetL2ConfigurationForUpdate, ReadUpdate,
        UnsupportedUpdate, GetRegistryStorageProof, RegistryStops, RegistryErrors, registryVars
<1>4. CASE OutputDoes /\ UNCHANGED l1vars
  <2>1. UNCHANGED <<header, l2Config>>
    BY <1>4 DEF OutputDoes, originVars, registryVars
  <2>2. CASE ReadOutputIndex
    <3>1. pc \in BeforeHeader /\ UNCHANGED <<outputProof, l2Output>>
      BY <2>2 DEF ReadOutputIndex, Answered, Moves, BeforeHeader, BeforeOrigin
    <3> QED
      BY <1>1, <3>1
  <2>3. CASE GetL2Output(header.num) \/ GetOutputProof(header.num, Listed)
    BY <1>4, <2>1, <2>3 DEF GetL2Output, GetOutputProof
  <2>4. CASE UNCHANGED outputVars
    BY <2>1, <2>4 DEF outputVars
  <2> QED
    BY <1>4, <2>2, <2>3, <2>4
    DEF OutputDoes, OutputsAnswer, OutputAnswers, OutputBatch, OutputStops, OutputErrors, Listed
<1> QED
  BY <1>2, <1>3, <1>4, StepCases
  DEF ProverDoes, ScanDoes, SettledDoes, originVars, registryVars, outputVars

LEMMA OutputStep ==
  ASSUME TypeOK, Progress, PinInv, OutputInv, [Next]_vars
  PROVE  OutputInv'
<1>1. CASE outputProof' = NoOutput /\ l2Output' = NoOutput
  BY <1>1 DEF OutputInv
<1>2. CASE UNCHANGED <<header, outputIndex, outputProof, l2Output, l2Config>>
  <2>1. Listed' = Listed
    BY <1>2 DEF Listed
  <2>2. \A f \in PinnedForks :
          Canonical(PinnedHash(f))' =>
            Canonical(PinnedHash(f)) /\ chain'[header.num] = chain[header.num]
    BY <1>2, PinnedStays
  <2>3. ASSUME outputProof' # NoOutput, Canonical(PinnedHash(outputProof.fork))'
        PROVE  outputProof'.output =
                 IF Listed' /\ HasOutput(chain'[header'.num], outputIndex')
                 THEN OutputAt(chain'[header'.num], outputIndex')
                 ELSE NoOutput
    <3>1. outputProof # NoOutput /\ outputProof.fork \in PinnedForks
      BY <1>2, <2>3 DEF PinnedForks
    <3>2. Canonical(PinnedHash(outputProof.fork)) /\ chain'[header.num] = chain[header.num]
      BY <1>2, <2>2, <2>3, <3>1 DEF Canonical, PinnedHash
    <3> QED
      BY <1>2, <2>1, <3>1, <3>2 DEF OutputInv
  <2>4. ASSUME l2Output' # NoOutput, Canonical(PinnedHash(l2Output.fork))'
        PROVE  /\ HasOutput(chain'[header'.num], outputIndex')
               /\ l2Output'.output = OutputAt(chain'[header'.num], outputIndex')
    <3>1. l2Output # NoOutput /\ l2Output.fork \in PinnedForks
      BY <1>2, <2>4 DEF PinnedForks
    <3>2. Canonical(PinnedHash(l2Output.fork)) /\ chain'[header.num] = chain[header.num]
      BY <1>2, <2>2, <2>4, <3>1 DEF Canonical, PinnedHash
    <3> QED
      BY <1>2, <3>1, <3>2 DEF OutputInv
  <2> QED
    BY <2>3, <2>4 DEF OutputInv, HasOutput, OutputAt
<1>3. CASE UNCHANGED <<l1vars, header, outputIndex, l2Config>> /\ GetL2Output(header.num)
  <2>1. /\ UNCHANGED <<outputProof, Listed, chain>>
        /\ HasOutput(chain[header.num], outputIndex)
        /\ l2Output'.output = OutputAt(chain[header.num], outputIndex)
    BY <1>3 DEF GetL2Output, Listed, l1vars
  <2> QED
    BY <1>3, <2>1 DEF OutputInv, Canonical, PinnedHash, HashAt, HasOutput, OutputAt, l1vars
<1>4. CASE UNCHANGED <<l1vars, header, outputIndex, l2Config>> /\ GetOutputProof(header.num, Listed)
  <2>1. /\ UNCHANGED <<l2Output, Listed, chain>>
        /\ outputProof'.output = IF Listed /\ HasOutput(chain[header.num], outputIndex)
                                 THEN OutputAt(chain[header.num], outputIndex)
                                 ELSE NoOutput
    BY <1>4 DEF GetOutputProof, Listed, l1vars
  <2> QED
    BY <1>4, <2>1 DEF OutputInv, Canonical, PinnedHash, HashAt, HasOutput, OutputAt, l1vars
<1> QED
  BY <1>1, <1>2, <1>3, <1>4, OutputCases

\* Whatever is proposed, deleted and reorganised: if the header of a run is
\* canonical, the output it goes on with is the one it proved.
THEOREM OneOutput == Spec => []OutputAsProved
<1>1. Init => PinInv /\ OutputInv
  BY PinInit DEF Init, OutputInit, OutputInv
<1>2. /\ TypeOK /\ Progress /\ PinInv /\ [Next]_vars => PinInv'
      /\ TypeOK /\ Progress /\ PinInv /\ OutputInv /\ [Next]_vars => OutputInv'
  BY PinStep, OutputStep
<1>3. TypeOK /\ Progress /\ PinInv /\ OutputInv => OutputAsProved
  <2> SUFFICES ASSUME TypeOK, Progress, PinInv, OutputInv,
                      l2Output # NoOutput, Canonical(header), Listed
               PROVE  outputProof.output = l2Output.output
    BY DEF OutputAsProved, Listed
  <2>1. outputProof # NoOutput
    BY DEF Progress, CallsInv
  <2>2. header # Nil
    BY DEF Progress, HeaderInv, NothingPinned
  <2>3. PinnedForks \subseteq {header.fork}
    BY <2>2, PinnedMatch DEF CanonicalProofsMatch
  <2>4. outputProof.fork = header.fork /\ l2Output.fork = header.fork
    BY <2>1, <2>3 DEF PinnedForks
  <2>5. PinnedHash(header.fork) = header
    BY <2>2 DEF PinnedHash, TypeOK, OriginTypeOK, Hash
  <2> QED
    BY <2>1, <2>4, <2>5 DEF OutputInv
<1> QED
  BY <1>1, <1>2, <1>3, TypeCorrect, PTL DEF Spec

-----------------------------------------------------------------------------
(***************************************************************************)
(* Why a run implements PinnedRun.  One prover searches: there is a game   *)
(* or an output, never both (SearchInv), and what it proves is about that  *)
(* one, with nothing left out in the end (ProofsInv).  Each answer is what *)
(* its block tells for as long as that block is of the chain (ReadInv,     *)
(* OutputInv); and when the pinned hash is of the chain in the end, their  *)
(* blocks are all its block (PinnedMatch).                                 *)
(***************************************************************************)
SearchInv ==
  /\ found = NoGame \/ newest = NoOutput
  /\ pc \in {"oracle", "branch"} \cup Fields => found = NoGame /\ newest = NoOutput
  /\ pc \in ScanLabels => ChosenType = OPStackCannon /\ newest = NoOutput
  /\ pc = "outputIndex" => ChosenType = OPStackBedrock /\ found = NoGame
  /\ pc \in OriginLabels \cup {"header"} =>
       (ChosenType = OPStackBedrock => newest # NoOutput)

\* The labels after a settled proof.
AfterProof == {"value", "valueProof", "encode", "done"} \cup UpdateCalls

ProofsInv ==
  /\ pc \in {"outputProof", "getOutput", "outputBatch"} => newest # NoOutput
  /\ newest = NoOutput => outputProof = NoOutput /\ l2Output = NoOutput
  /\ found = NoGame => \A c \in PinnedCalls : answers[c] = NoAnswer
  /\ settled # NoAnswer =>
       /\ settled = [game |-> found, slot |-> ClaimedStatus]
       /\ \A c \in PinnedCalls : answers[c] # NoAnswer
  /\ pc = "outputBatch" => l2Output # NoOutput
  /\ pc \in AfterProof => settled # NoAnswer \/ l2Output # NoOutput
  /\ pc \in {"encode", "done"} => regProof # NoRead

LEMMA SearchStep ==
  ASSUME TypeOK, Progress, SearchInv, [Next]_vars
  PROVE  SearchInv'
<1> USE DEF SearchInv, ChosenType, OPStackCannon, OPStackBedrock, Fields, ScanLabels,
        OriginLabels, OriginCalls
<1>1. CASE OriginDoes
  BY <1>1, OriginPlace DEF OriginDoes, registryVars, scanVars, outputVars
<1>2. CASE ProverDoes
  <2>1. UNCHANGED <<l2Config, found, newest>>
    BY <1>2 DEF ProverDoes, registryVars, scanVars, outputVars
  <2>2. CASE ChooseProver
    BY <2>1, <2>2 DEF ChooseProver, CanSearchGames, CanSearchOutputs, Moves
  <2>3. CASE ReadOracleAddress \/ ReadL2Storage \/ RejectConfig \/ BeginSettledProof
             \/ Encode \/ CtxFails(ProverCalls) \/ RpcFails(ProverCalls)
    BY <2>1, <2>3 DEF ReadOracleAddress, ReadL2Storage, RejectConfig, BeginSettledProof,
       Encode, CtxFails, RpcFails, Fails, Answered, Moves
  <2> QED
    BY <1>2, <2>2, <2>3 DEF ProverDoes, ProverStep, ProverAnswers, ProverLocal
<1>3. CASE RegistryDoes
  <2>1. UNCHANGED <<found, newest>>
    BY <1>3 DEF RegistryDoes, scanVars, outputVars
  <2>2. CASE GetL2Configuration
    <3>1. pc \in Fields /\ pc' \in Fields \cup {"branch"}
      BY <2>2 DEF GetL2Configuration, ReadConfig, Moves
    <3> QED
      BY <2>1, <3>1
  <2>3. CASE ~GetL2Configuration
    <3>1. pc' \in UpdateCalls \cup {"encode", "failed"}
      BY <1>3, <2>3 DEF RegistryDoes, RegistryAnswers, GetL2ConfigurationForUpdate, ReadUpdate,
         UnsupportedUpdate, GetRegistryStorageProof, RegistryStops, RegistryErrors, CtxFails,
         RpcFails, Fails, Answered, Moves, UpdateCalls
    <3> QED
      BY <2>1, <3>1 DEF UpdateCalls
  <2> QED
    BY <2>2, <2>3
<1>4. CASE ScanDoes
  <2>1. UNCHANGED <<l2Config, newest>>
    BY <1>4 DEF ScanDoes, registryVars, outputVars
  <2>2. pc \in ScanLabels /\ pc' \in ScanLabels \cup {"origin", "failed"}
    BY <1>4 DEF ScanDoes, GamesAnswer, ScanAnswers, ScanSkips, ScanStops, ScanErrors,
       ReadGameCount, NoGames, ReadGameAtIndex, ReadStatus, NotFinal, SkipStatusError,
       SkipEmptyAnswer, NextGame, CtxFails, RpcFails, Fails, Answered, Moves
  <2> QED
    BY <2>1, <2>2
<1>5. CASE SettledDoes
  <2>1. UNCHANGED <<l2Config, found, newest>>
    BY <1>5 DEF SettledDoes, registryVars, scanVars, outputVars
  <2>2. pc' \in SettledCalls \cup {"checks", "value", "failed"}
    BY <1>5 DEF SettledDoes, SettledAnswers, SettledLocal, PinnedCall, L2Batch, PassChecks,
       FailChecks, SettledStops, SettledErrors, CtxFails, RpcFails, Fails, Answered, Moves,
       SettledCalls, CallAfter, PinnedCalls
  <2> QED
    BY <2>1, <2>2 DEF SettledCalls, PinnedCalls
<1>6. CASE OutputDoes
  <2>1. UNCHANGED <<l2Config, found>>
    BY <1>6 DEF OutputDoes, registryVars, scanVars
  <2>2. CASE ReadOutputIndex
    <3>1. pc = "outputIndex" /\ pc' = "origin"
      BY <2>2 DEF ReadOutputIndex, Answered, Moves
    <3>2. newest' # NoOutput
      BY <2>2, NewestTyped, BedrockAssumption DEF TypeOK
    <3> QED
      BY <2>1, <3>1, <3>2
  <2>3. CASE ~ReadOutputIndex
    <3>1. newest' = newest /\ pc' \in {"getOutput", "outputBatch", "value", "failed"}
      BY <1>6, <2>3 DEF OutputDoes, OutputsAnswer, OutputAnswers, GetOutputProof, GetL2Output,
         OutputBatch, OutputStops, OutputErrors, CtxFails, RpcFails, Fails, Answered, Moves,
         outputVars
    <3> QED
      BY <2>1, <3>1
  <2> QED
    BY <2>2, <2>3
<1>7. CASE UNCHANGED <<registryVars, scanVars, outputVars>> /\ pc' = pc
  BY <1>7 DEF registryVars, scanVars, outputVars
<1> QED
  BY <1>1, <1>2, <1>3, <1>4, <1>5, <1>6, <1>7, StepCases DEF Interrupt, sessionVars


\* Everything the other components do leaves the answers alone, and what they
\* are about, unless there are none.
LEMMA SettledCases ==
  ASSUME TypeOK, Progress, [Next]_vars, ~SettledDoes
  PROVE  /\ UNCHANGED settledVars
         /\ pc' = "l2Batch" => pc = "l2Batch"
         /\ NothingPinned \/ UNCHANGED <<header, found>>
<1>1. CASE OriginDoes
  BY <1>1, OriginPlace DEF OriginDoes, Progress, HeaderInv, BeforeHeader, OriginLabels, OriginCalls
<1>2. CASE ScanDoes
  <2>1. pc \in ScanLabels /\ pc' # "l2Batch"
    BY <1>2 DEF ScanDoes, GamesAnswer, ScanAnswers, ScanSkips, ScanStops, ScanErrors,
       ReadGameCount, NoGames, ReadGameAtIndex, ReadStatus, NotFinal, SkipStatusError,
       SkipEmptyAnswer, NextGame, CtxFails, RpcFails, Fails, Answered, Moves, ScanLabels
  <2> QED
    BY <1>2, <2>1 DEF ScanDoes, Progress, HeaderInv, BeforeHeader, BeforeOrigin
<1>3. CASE ProverDoes
  BY <1>3 DEF ProverDoes, ProverStep, ProverAnswers, ProverLocal, ReadOracleAddress,
     ReadL2Storage, ChooseProver, RejectConfig, BeginSettledProof, Encode, CtxFails,
     RpcFails, Fails, Answered, Moves, originVars, scanVars
<1>4. CASE RegistryDoes
  BY <1>4 DEF RegistryDoes, RegistryAnswers, GetL2Configuration, ReadConfig,
     GetL2ConfigurationForUpdate, ReadUpdate, UnsupportedUpdate, GetRegistryStorageProof,
     RegistryStops, RegistryErrors, CtxFails, RpcFails, Fails, Answered, Moves, originVars,
     scanVars
<1>5. CASE OutputDoes
  BY <1>5 DEF OutputDoes, OutputsAnswer, OutputAnswers, ReadOutputIndex, GetOutputProof,
     GetL2Output, OutputBatch, OutputStops, OutputErrors, CtxFails, RpcFails, Fails,
     Answered, Moves, originVars, scanVars
<1> QED
  BY <1>1, <1>2, <1>3, <1>4, <1>5, StepCases
  DEF Interrupt, sessionVars, originVars, scanVars, settledVars

\* What is proved stays with what the search found, through every step.
LEMMA ProofsStep ==
  ASSUME TypeOK, Progress, SearchInv, ProofsInv, [Next]_vars
  PROVE  ProofsInv'
<1> DEFINE told == <<found, newest, answers, settled, outputProof, l2Output>>
<1>1. ASSUME UNCHANGED told,
             pc' \in {"outputProof", "getOutput", "outputBatch"} => newest # NoOutput,
             pc' = "outputBatch" => pc = "outputBatch",
             pc' \in AfterProof => pc \in AfterProof,
             pc' \in {"encode", "done"} => regProof' # NoRead
      PROVE  ProofsInv'
  BY <1>1 DEF ProofsInv, ClaimedStatus, StatusSlot
<1>2. CASE OriginDoes
  BY <1>1, <1>2, OriginPlace
  DEF OriginDoes, registryVars, scanVars, settledVars, outputVars, OriginLabels, OriginCalls,
      AfterProof, UpdateCalls
<1>3. CASE ProverDoes
  <2>1. UNCHANGED told /\ UNCHANGED regProof
    BY <1>3 DEF ProverDoes, registryVars, scanVars, settledVars, outputVars
  <2>2. CASE ReadOracleAddress \/ ChooseProver \/ RejectConfig \/ CtxFails(ProverCalls)
             \/ RpcFails(ProverCalls)
    BY <1>1, <2>1, <2>2 DEF ReadOracleAddress, ChooseProver, RejectConfig, CtxFails, RpcFails,
       Fails, Answered, Moves, AfterProof, UpdateCalls
  <2>3. CASE BeginSettledProof
    BY <1>1, <2>1, <2>3 DEF BeginSettledProof, Moves, SearchInv, AfterProof, UpdateCalls
  <2>4. CASE ReadL2Storage \/ Encode
    BY <1>1, <2>1, <2>4 DEF ReadL2Storage, Encode, Answered, Moves, AfterProof, UpdateCalls,
       ProofsInv
  <2> QED
    BY <1>3, <2>2, <2>3, <2>4 DEF ProverDoes, ProverStep, ProverAnswers, ProverLocal
<1>4. CASE RegistryDoes
  <2>1. UNCHANGED told
    BY <1>4 DEF RegistryDoes, scanVars, settledVars, outputVars
  <2>2. CASE GetL2Configuration
    BY <1>1, <2>1, <2>2 DEF GetL2Configuration, ReadConfig, Moves, AfterProof, UpdateCalls
  <2>3. CASE GetL2ConfigurationForUpdate
    BY <1>1, <2>1, <2>3 DEF GetL2ConfigurationForUpdate, ReadUpdate, Answered, Moves, AfterProof,
       UpdateCalls
  <2>4. CASE GetRegistryStorageProof(header.num)
    <3>1. /\ pc = "regProof" /\ pc' = "encode"
          /\ regProof' = [config |-> chain[header.num].config, fork |-> chain[header.num].fork]
      BY <2>4 DEF GetRegistryStorageProof, Answered, Moves
    <3>2. header \in Hash
      BY <3>1 DEF Progress, HeaderInv, AfterHeader, UpdateCalls, TypeOK, OriginTypeOK
    <3>3. chain[header.num] \in Block
      BY <3>2 DEF Hash, TypeOK, L1TypeOK
    <3>4. regProof' # NoRead
      BY <3>1, <3>3, RegistryAssumption DEF RegistryProof, Block
    <3> QED
      BY <1>1, <2>1, <3>1, <3>4 DEF AfterProof, UpdateCalls
  <2>5. CASE UnsupportedUpdate \/ RegistryStops \/ RegistryErrors
    BY <1>1, <2>1, <2>5 DEF UnsupportedUpdate, RegistryStops, RegistryErrors, CtxFails, RpcFails,
       Fails, AfterProof, UpdateCalls
  <2> QED
    BY <1>4, <2>2, <2>3, <2>4, <2>5 DEF RegistryDoes, RegistryAnswers
<1>5. CASE ScanDoes
  <2>1. pc \in ScanLabels /\ pc' \in ScanLabels \cup {"origin", "failed"}
    BY <1>5 DEF ScanDoes, GamesAnswer, ScanAnswers, ScanSkips, ScanStops, ScanErrors,
       ReadGameCount, NoGames, ReadGameAtIndex, ReadStatus, NotFinal, SkipStatusError,
       SkipEmptyAnswer, NextGame, CtxFails, RpcFails, Fails, Answered, Moves, ScanLabels
  <2>2. NothingPinned /\ UNCHANGED <<answers, settled, outputProof, l2Output>>
    BY <1>5, <2>1 DEF ScanDoes, settledVars, outputVars, Progress, HeaderInv, BeforeHeader,
       BeforeOrigin
  <2> QED
    BY <2>1, <2>2 DEF NothingPinned, ProofsInv, ScanLabels, AfterProof, UpdateCalls
<1>6. CASE SettledDoes
  <2>0. UNCHANGED <<found, newest, outputProof, l2Output>>
    BY <1>6 DEF SettledDoes, scanVars, outputVars
  <2>1. CASE PinnedCall(header.num, found)
    <3>1. /\ pc \in PinnedCalls /\ pc' \in PinnedCalls \cup {"checks"}
          /\ UNCHANGED settled
      BY <2>1 DEF PinnedCall, Answered, Moves, PinnedCalls, CallAfter
    <3>2. found # NoGame /\ settled = NoAnswer
      BY <3>1, ScanAssumption DEF Progress, GameInv, SettledCalls
    <3> QED
      BY <2>0, <3>1, <3>2 DEF ProofsInv, PinnedCalls, AfterProof, UpdateCalls
  <2>2. CASE L2Batch(found)
    <3>1. /\ pc = "l2Batch" /\ pc' = "value" /\ UNCHANGED answers
          /\ settled' = [game |-> found, slot |-> ClaimedStatus]
      BY <2>2 DEF L2Batch, Answered, Moves
    <3>2. ClaimedStatus' = ClaimedStatus
      BY <3>1 DEF ClaimedStatus
    <3>3. \A c \in PinnedCalls : answers[c] # NoAnswer
      BY <3>1 DEF Progress, CallsInv, CallsBefore
    <3>4. settled' # NoAnswer
      <4>1. found \in GameIndex
        BY <3>1 DEF Progress, GameInv, SettledCalls
      <4>2. answers["createdAt"].exists \in BOOLEAN
        BY <3>3 DEF TypeOK, SettledTypeOK, PinnedCalls, Answer
      <4>3. settled' \in SettledProof
        BY <3>1, <4>1, <4>2 DEF ClaimedStatus, StatusSlot, SettledProof
      <4> QED
        BY <4>3, SettledAssumption
    <3> QED
      BY <2>0, <3>1, <3>2, <3>3, <3>4 DEF ProofsInv
  <2>3. CASE SettledLocal \/ SettledStops \/ SettledErrors
    BY <1>1, <2>0, <2>3 DEF SettledLocal, PassChecks, FailChecks, SettledStops, SettledErrors,
       CtxFails, RpcFails, Fails, Moves, settledVars, AfterProof, UpdateCalls
  <2> QED
    BY <1>6, <2>1, <2>2, <2>3 DEF SettledDoes, SettledAnswers
<1>7. CASE OutputDoes
  <2>0. UNCHANGED <<found, answers, settled>> /\ ClaimedStatus' = ClaimedStatus
    BY <1>7 DEF OutputDoes, scanVars, settledVars, ClaimedStatus
  <2>1. CASE ReadOutputIndex
    <3>1. pc = "outputIndex" /\ pc' = "origin" /\ UNCHANGED <<outputProof, l2Output>>
      BY <2>1 DEF ReadOutputIndex, Answered, Moves
    <3>2. NothingPinned
      BY <3>1 DEF Progress, HeaderInv, BeforeHeader, BeforeOrigin
    <3> QED
      BY <2>0, <3>1, <3>2 DEF NothingPinned, ProofsInv, AfterProof, UpdateCalls
  <2>2. CASE GetOutputProof(header.num, Listed)
    <3>1. pc = "outputProof" /\ pc' = "getOutput" /\ UNCHANGED <<newest, l2Output>>
      BY <2>2 DEF GetOutputProof, Answered, Moves
    <3> QED
      BY <2>0, <3>1 DEF ProofsInv, AfterProof, UpdateCalls
  <2>3. CASE GetL2Output(header.num)
    <3>1. /\ pc = "getOutput" /\ pc' = "outputBatch" /\ UNCHANGED <<newest, outputProof>>
          /\ HasOutput(chain[header.num], outputIndex)
          /\ l2Output' = [ fork   |-> chain[header.num].fork,
                           output |-> OutputAt(chain[header.num], outputIndex) ]
      BY <2>3 DEF GetL2Output, Answered, Moves
    <3>2. chain[header.num] \in Block /\ outputIndex \in Nat
      BY <3>1, ChainAssumption DEF Progress, HeaderInv, AfterHeader, TypeOK, OriginTypeOK,
         OutputTypeOK, L1TypeOK, Hash
    <3>3. l2Output' \in ProvenOutput
      BY <3>1, <3>2, OutputTyped DEF ProvenOutput, Block
    <3>4. l2Output' # NoOutput
      BY <3>3, BedrockAssumption
    <3> QED
      BY <2>0, <3>1, <3>4 DEF ProofsInv, AfterProof, UpdateCalls
  <2>4. CASE OutputBatch
    <3>1. pc = "outputBatch" /\ pc' = "value" /\ UNCHANGED <<newest, outputProof, l2Output>>
      BY <2>4 DEF OutputBatch, Answered, Moves, outputVars
    <3> QED
      BY <2>0, <3>1 DEF ProofsInv, AfterProof, UpdateCalls
  <2>5. CASE OutputStops \/ OutputErrors
    BY <1>1, <2>0, <2>5 DEF OutputStops, OutputErrors, CtxFails, RpcFails, Fails, outputVars,
       AfterProof, UpdateCalls
  <2> QED
    BY <1>7, <2>1, <2>2, <2>3, <2>4, <2>5 DEF OutputDoes, OutputsAnswer, OutputAnswers, Listed
<1>8. CASE UNCHANGED <<registryVars, scanVars, settledVars, outputVars>> /\ pc' = pc
  BY <1>1, <1>8 DEF registryVars, scanVars, settledVars, outputVars, ProofsInv
<1> QED
  BY <1>2, <1>3, <1>4, <1>5, <1>6, <1>7, <1>8, StepCases DEF Interrupt, sessionVars

\* The registry's answer and the game's, for as long as their blocks last.
ReadInv ==
  /\ regProof # NoRead /\ Canonical(PinnedHash(regProof.fork)) =>
       regProof.config = chain[header.num].config
  /\ \A c \in PinnedCalls :
       answers[c] # NoAnswer /\ Canonical(PinnedHash(answers[c].fork)) =>
         answers[c] = AnswerAt(header.num, found)

\* They are given once each, and nothing they are about changes afterwards.
LEMMA ReadCases ==
  ASSUME TypeOK, Progress, [Next]_vars
  PROVE  \/ regProof' = NoRead /\ \A c \in PinnedCalls : answers'[c] = NoAnswer
         \/ UNCHANGED <<header, found, regProof, answers>>
         \/ /\ UNCHANGED <<l1vars, header, found, answers>>
            /\ GetRegistryStorageProof(header.num)
         \/ /\ UNCHANGED <<l1vars, header, found, regProof>>
            /\ PinnedCall(header.num, found)
<1>1. CASE SettledDoes /\ UNCHANGED l1vars
  <2>1. UNCHANGED <<header, found, regProof>>
    BY <1>1 DEF SettledDoes, originVars, registryVars, scanVars
  <2>2. PinnedCall(header.num, found) \/ UNCHANGED answers
    BY <1>1 DEF SettledDoes, SettledAnswers, SettledLocal, L2Batch, PassChecks, FailChecks,
       SettledStops, SettledErrors, settledVars
  <2> QED
    BY <1>1, <2>1, <2>2
<1>2. CASE ~SettledDoes
  <2>1. UNCHANGED answers /\ (NothingPinned \/ UNCHANGED <<header, found>>)
    BY <1>2, SettledCases DEF settledVars
  <2>2. CASE RegistryDoes /\ UNCHANGED l1vars
    <3>1. UNCHANGED <<header, found>>
      BY <2>2 DEF RegistryDoes, originVars, scanVars
    <3>2. GetRegistryStorageProof(header.num) \/ UNCHANGED regProof
      BY <2>2 DEF RegistryDoes, RegistryAnswers, GetL2Configuration, ReadConfig,
         GetL2ConfigurationForUpdate, ReadUpdate, UnsupportedUpdate, RegistryStops,
         RegistryErrors, registryVars
    <3> QED
      BY <2>1, <2>2, <3>1, <3>2
  <2>3. CASE UNCHANGED regProof
    BY <2>1, <2>3 DEF NothingPinned
  <2> QED
    BY <1>2, <2>2, <2>3, StepCases
    DEF OriginDoes, ProverDoes, ScanDoes, OutputDoes, registryVars
<1>3. CASE UNCHANGED <<originVars, registryVars, scanVars, settledVars>>
  BY <1>3 DEF originVars, registryVars, scanVars, settledVars
<1> QED
  BY <1>1, <1>2, <1>3, StepCases

LEMMA ReadStep ==
  ASSUME TypeOK, Progress, PinInv, ReadInv, [Next]_vars
  PROVE  ReadInv'
<1>1. CASE regProof' = NoRead /\ \A c \in PinnedCalls : answers'[c] = NoAnswer
  BY <1>1 DEF ReadInv
<1>2. ASSUME UNCHANGED header, NEW f \in PinnedForks, Canonical(PinnedHash(f))'
      PROVE  Canonical(PinnedHash(f)) /\ chain'[header.num] = chain[header.num]
  BY <1>2, PinnedStays
<1>3. ASSUME UNCHANGED <<header, regProof>>, regProof # NoRead,
             Canonical(PinnedHash(regProof.fork))'
      PROVE  regProof'.config = chain'[header'.num].config
  <2>1. regProof.fork \in PinnedForks
    BY <1>3 DEF PinnedForks
  <2>2. \A f \in PinnedForks : Canonical(PinnedHash(f))' =>
          Canonical(PinnedHash(f)) /\ chain'[header.num] = chain[header.num]
    BY <1>2, <1>3
  <2>3. Canonical(PinnedHash(regProof.fork)) /\ chain'[header.num] = chain[header.num]
    BY <1>3, <2>1, <2>2 DEF PinnedHash, Canonical
  <2> QED
    BY <1>3, <2>3 DEF ReadInv
<1>4. ASSUME UNCHANGED <<header, found>>, NEW c \in PinnedCalls, answers'[c] = answers[c],
             answers[c] # NoAnswer, Canonical(PinnedHash(answers[c].fork))'
      PROVE  answers'[c] = AnswerAt(header.num, found)'
  <2>1. answers[c].fork \in PinnedForks
    BY <1>4 DEF PinnedForks
  <2>2. \A f \in PinnedForks : Canonical(PinnedHash(f))' =>
          Canonical(PinnedHash(f)) /\ chain'[header.num] = chain[header.num]
    BY <1>2, <1>4
  <2>3. Canonical(PinnedHash(answers[c].fork)) /\ chain'[header.num] = chain[header.num]
    BY <1>4, <2>1, <2>2 DEF PinnedHash, Canonical
  <2> QED
    BY <1>4, <2>3 DEF ReadInv, AnswerAt, Exists
<1>5. CASE UNCHANGED <<header, found, regProof, answers>>
  BY <1>3, <1>4, <1>5 DEF ReadInv
<1>6. CASE UNCHANGED <<l1vars, header, found, answers>> /\ GetRegistryStorageProof(header.num)
  <2>1. regProof'.config = chain'[header'.num].config
    BY <1>6 DEF GetRegistryStorageProof, l1vars
  <2> QED
    BY <1>4, <1>6, <2>1 DEF ReadInv
<1>7. CASE UNCHANGED <<l1vars, header, found, regProof>> /\ PinnedCall(header.num, found)
  <2>1. PICK c \in PinnedCalls : answers' = [answers EXCEPT ![c] = AnswerAt(header.num, found)]
    BY <1>7 DEF PinnedCall
  <2>2. AnswerAt(header.num, found)' = AnswerAt(header.num, found)
    BY <1>7 DEF AnswerAt, Exists, l1vars
  <2>3. /\ answers'[c] = AnswerAt(header.num, found)'
        /\ \A d \in PinnedCalls \ {c} : answers'[d] = answers[d]
    BY <2>1, <2>2 DEF TypeOK, SettledTypeOK
  <2> QED
    BY <1>3, <1>4, <1>7, <2>3 DEF ReadInv
<1> QED
  BY <1>1, <1>5, <1>6, <1>7, ReadCases

-----------------------------------------------------------------------------
(***************************************************************************)
(* A run searches, takes the L1 origin, proves and ends.  What its blocks  *)
(* are asked is settled by the search, what it hands over by the proofs.   *)
(***************************************************************************)
toldVars     == <<l2Config, found, newest, outputIndex>>
evidenceVars == <<regProof, answers, settled, outputProof, l2Output>>

Proving == AfterHeader \ {"header", "done"}

LEMMA Places ==
  ASSUME [Next]_vars
  PROVE  \/ OriginDoes /\ UNCHANGED l1vars
         \/ /\ UNCHANGED l1vars /\ UNCHANGED originVars
            /\ pc \in BeforeOrigin /\ pc' \in BeforeOrigin \cup {"origin", "failed"}
            /\ pc' = "failed" => UNCHANGED toldVars
         \/ /\ UNCHANGED l1vars /\ UNCHANGED originVars /\ UNCHANGED toldVars
            /\ pc \in Proving \cup {"header"} /\ pc' \in Proving \cup {"failed"}
         \/ /\ UNCHANGED l1vars /\ UNCHANGED originVars /\ UNCHANGED <<toldVars, evidenceVars>>
            /\ pc = "encode" /\ pc' = "done"
         \/ /\ [L1Next]_l1vars /\ UNCHANGED originVars /\ UNCHANGED <<toldVars, evidenceVars>>
            /\ pc' = pc
<1> USE DEF Proving, AfterHeader, toldVars, evidenceVars
<1>1. CASE ProverDoes /\ UNCHANGED l1vars
  <2>1. UNCHANGED originVars /\ UNCHANGED <<toldVars, evidenceVars>>
    BY <1>1 DEF ProverDoes, registryVars, scanVars, settledVars, outputVars
  <2>2. CASE ReadOracleAddress \/ ChooseProver \/ RejectConfig
    BY <1>1, <2>1, <2>2 DEF ReadOracleAddress, ChooseProver, RejectConfig, Fails, Answered,
       Moves, BeforeOrigin, Fields, ScanLabels
  <2>3. CASE BeginSettledProof \/ ReadL2Storage
    BY <1>1, <2>1, <2>3 DEF BeginSettledProof, ReadL2Storage, Answered, Moves, SettledCalls,
       PinnedCalls, UpdateCalls
  <2>4. CASE Encode
    BY <1>1, <2>1, <2>4 DEF Encode, Moves
  <2>5. CASE CtxFails(ProverCalls) \/ RpcFails(ProverCalls)
    BY <1>1, <2>1, <2>5 DEF CtxFails, RpcFails, Fails, ProverCalls, BeforeOrigin
  <2> QED
    BY <1>1, <2>2, <2>3, <2>4, <2>5 DEF ProverDoes, ProverStep, ProverAnswers, ProverLocal
<1>2. CASE RegistryDoes /\ UNCHANGED l1vars
  <2>1. UNCHANGED originVars /\ UNCHANGED <<found, newest, outputIndex>>
    BY <1>2 DEF RegistryDoes, scanVars, outputVars
  <2>2. CASE GetL2Configuration
    BY <1>2, <2>1, <2>2 DEF GetL2Configuration, ReadConfig, Moves, BeforeOrigin, Fields
  <2>3. CASE GetL2ConfigurationForUpdate \/ GetRegistryStorageProof(header.num)
    BY <1>2, <2>1, <2>3 DEF GetL2ConfigurationForUpdate, ReadUpdate, GetRegistryStorageProof,
       Answered, Moves, UpdateCalls
  <2>4. CASE UnsupportedUpdate \/ RegistryStops \/ RegistryErrors
    BY <1>2, <2>1, <2>4 DEF UnsupportedUpdate, RegistryStops, RegistryErrors, CtxFails, RpcFails,
       Fails, BeforeOrigin, UpdateCalls, registryVars
  <2> QED
    BY <1>2, <2>2, <2>3, <2>4 DEF RegistryDoes, RegistryAnswers
<1>3. CASE ScanDoes /\ UNCHANGED l1vars
  <2>1. pc \in ScanLabels /\ pc' \in ScanLabels \cup {"origin", "failed"}
    BY <1>3 DEF ScanDoes, GamesAnswer, ScanAnswers, ScanSkips, ScanStops, ScanErrors,
       ReadGameCount, NoGames, ReadGameAtIndex, ReadStatus, NotFinal, SkipStatusError,
       SkipEmptyAnswer, NextGame, CtxFails, RpcFails, Fails, Answered, Moves, ScanLabels
  <2>2. pc' = "failed" => UNCHANGED found
    BY <1>3 DEF ScanDoes, GamesAnswer, ScanAnswers, ScanSkips, ScanStops, ScanErrors,
       ReadGameCount, NoGames, ReadGameAtIndex, ReadStatus, NotFinal, SkipStatusError,
       SkipEmptyAnswer, Answered, Moves, scanVars
  <2>3. UNCHANGED originVars /\ UNCHANGED <<l2Config, newest, outputIndex>>
    BY <1>3 DEF ScanDoes, registryVars, outputVars
  <2> QED
    BY <1>3, <2>1, <2>2, <2>3 DEF BeforeOrigin
<1>4. CASE SettledDoes /\ UNCHANGED l1vars
  <2>1. UNCHANGED originVars /\ UNCHANGED toldVars
    BY <1>4 DEF SettledDoes, registryVars, scanVars, outputVars
  <2>2. /\ pc \in SettledCalls \cup {"checks"}
        /\ pc' \in SettledCalls \cup {"checks", "value", "failed"}
    BY <1>4 DEF SettledDoes, SettledAnswers, SettledLocal, PinnedCall, L2Batch, PassChecks,
       FailChecks, SettledStops, SettledErrors, CtxFails, RpcFails, Fails, Answered, Moves,
       SettledCalls, CallAfter, PinnedCalls
  <2> QED
    BY <1>4, <2>1, <2>2 DEF SettledCalls, PinnedCalls
<1>5. CASE OutputDoes /\ UNCHANGED l1vars
  <2>1. UNCHANGED originVars /\ UNCHANGED <<l2Config, found>>
    BY <1>5 DEF OutputDoes, registryVars, scanVars
  <2>2. CASE ReadOutputIndex
    BY <1>5, <2>1, <2>2 DEF ReadOutputIndex, Answered, Moves, BeforeOrigin
  <2>3. CASE GetOutputProof(header.num, Listed) \/ GetL2Output(header.num) \/ OutputBatch
    BY <1>5, <2>1, <2>3 DEF GetOutputProof, GetL2Output, OutputBatch, Answered, Moves,
       outputVars
  <2>4. CASE OutputStops \/ OutputErrors
    BY <1>5, <2>1, <2>4 DEF OutputStops, OutputErrors, CtxFails, RpcFails, Fails, OutputCalls,
       BeforeOrigin, outputVars
  <2> QED
    BY <1>5, <2>2, <2>3, <2>4 DEF OutputDoes, OutputsAnswer, OutputAnswers, Listed
<1>6. CASE /\ [L1Next]_l1vars /\ pc' = pc
           /\ UNCHANGED <<originVars, registryVars, scanVars, settledVars, outputVars>>
  BY <1>6 DEF registryVars, scanVars, settledVars, outputVars
<1> QED
  BY <1>1, <1>2, <1>3, <1>4, <1>5, <1>6, StepCases DEF Interrupt, sessionVars

\* One hash is taken, after the search.
TakenInv ==
  /\ HashInv
  /\ pc \in BeforeOrigin => newHash = Nil

LEMMA TakenStep ==
  ASSUME Progress, TakenInv, [Next]_vars
  PROVE  TakenInv'
<1>1. CASE OriginDoes
  <2>1. HashInv'
    BY <1>1, OriginStepHash DEF OriginDoes, Progress, TakenInv
  <2>2. pc' \notin BeforeOrigin
    BY <1>1, OriginPlace DEF OriginDoes, BeforeOrigin, Fields, ScanLabels, OriginLabels,
       OriginCalls
  <2> QED
    BY <2>1, <2>2 DEF TakenInv
<1>2. CASE /\ UNCHANGED originVars
           /\ pc \in BeforeOrigin /\ pc' \in BeforeOrigin \cup {"origin", "failed"}
  BY <1>2 DEF TakenInv, HashInv, Progress, HeaderInv, originVars
<1>3. CASE /\ UNCHANGED originVars
           /\ pc' = pc \/ pc' \in Proving \cup {"failed", "done"}
  <2>1. pc' = pc \/ pc' \notin OriginLabels \cup BeforeOrigin
    BY <1>3 DEF Proving, AfterHeader, SettledCalls, PinnedCalls, UpdateCalls, BeforeOrigin,
       Fields, ScanLabels, OriginLabels, OriginCalls
  <2> QED
    BY <1>3, <2>1 DEF TakenInv, HashInv, OriginLabels, OriginCalls, originVars
<1> QED
  BY <1>1, <1>2, <1>3, Places

-----------------------------------------------------------------------------
(* The steps of PinnedRun. *)

RunInv == TakenInv /\ SearchInv /\ ProofsInv /\ ReadInv

LEMMA RunInvStep ==
  ASSUME TypeOK, Progress, PinInv, RunInv, [Next]_vars
  PROVE  RunInv'
  BY TakenStep, SearchStep, ProofsStep, ReadStep DEF RunInv

\* What a block tells depends on the block and on the search only.
LEMMA ToldSame ==
  ASSUME UNCHANGED toldVars
  PROVE  /\ UNCHANGED l1vars => UNCHANGED Told
         /\ \A n : chain'[n] = chain[n] => BlockTells(n)' = BlockTells(n)
  BY DEF toldVars, l1vars, Told, BlockTells, OutputTold, Listed, HashAt, AnswerAt, Exists,
     HasOutput, OutputAt

\* In the end, the evidence is what the header's block tells, if that is still
\* of the chain: all was answered from it.
LEMMA EvidenceTold ==
  ASSUME TypeOK, Progress, PinInv, OutputInv, RunInv, pc = "encode", Canonical(header)
  PROVE  Evidence = BlockTells(header.num)
<1>1. header \in Hash /\ header # Nil /\ chain[header.num].fork = header.fork
  BY DEF Progress, HeaderInv, AfterHeader, TypeOK, OriginTypeOK, Canonical, HashAt
<1>2. /\ PinnedForks \subseteq {header.fork}
      /\ PinnedHash(header.fork) = header
  BY <1>1, PinnedMatch DEF CanonicalProofsMatch, PinnedHash, Hash
<1>3. Evidence.config = BlockTells(header.num).config
  <2>1. regProof # NoRead /\ regProof.fork \in PinnedForks
    BY DEF RunInv, ProofsInv, PinnedForks
  <2>2. regProof.fork = header.fork
    BY <1>2, <2>1
  <2> QED
    BY <1>2, <2>1, <2>2 DEF RunInv, ReadInv, Evidence, BlockTells
<1>4. \A c \in PinnedCalls : answers[c] # NoAnswer => answers[c] = AnswerAt(header.num, found)
  <2> SUFFICES ASSUME NEW c \in PinnedCalls, answers[c] # NoAnswer
               PROVE  answers[c] = AnswerAt(header.num, found)
    OBVIOUS
  <2>1. answers[c].fork \in PinnedForks
    BY DEF PinnedForks
  <2>2. answers[c].fork = header.fork
    BY <1>2, <2>1
  <2> QED
    BY <1>2, <2>2 DEF RunInv, ReadInv
<1>5. settled # NoAnswer \/ l2Output # NoOutput
  BY DEF RunInv, ProofsInv, AfterProof
<1>6. CASE found # NoGame
  <2>1. /\ newest = NoOutput /\ outputProof = NoOutput /\ l2Output = NoOutput
        /\ settled = [game |-> found, slot |-> ClaimedStatus]
        /\ settled # NoAnswer
        /\ \A c \in PinnedCalls : answers[c] # NoAnswer
    BY <1>5, <1>6 DEF RunInv, SearchInv, ProofsInv
  <2>2. \A c \in PinnedCalls : answers[c] = AnswerAt(header.num, found)
    BY <1>4, <2>1
  <2>3. {answers[c] : c \in PinnedCalls} = {AnswerAt(header.num, found)}
    BY <2>2 DEF PinnedCalls
  <2>4. /\ settled.game = found
        /\ settled.slot.created = Exists(chain[header.num], found)
        /\ settled.slot.resolved = (chain[header.num].games[found] \in Resolved)
    BY <2>1, <2>2 DEF ClaimedStatus, PinnedCalls, AnswerAt
  <2> QED
    BY <1>3, <1>6, <2>1, <2>3, <2>4 DEF Evidence, BlockTells
<1>7. CASE found = NoGame
  <2>1. /\ \A c \in PinnedCalls : answers[c] = NoAnswer
        /\ settled = NoAnswer
        /\ l2Output # NoOutput /\ outputProof # NoOutput /\ newest # NoOutput
    BY <1>5, <1>7 DEF RunInv, ProofsInv, Progress, CallsInv, PinnedCalls
  <2>2. {answers[c] : c \in PinnedCalls} = {NoAnswer}
    BY <2>1 DEF PinnedCalls
  <2>3. outputProof.fork = header.fork /\ l2Output.fork = header.fork
    BY <1>2, <2>1 DEF PinnedForks
  <2>4. /\ outputProof = [fork |-> outputProof.fork, output |-> outputProof.output]
        /\ l2Output = [fork |-> l2Output.fork, output |-> l2Output.output]
    BY <2>1 DEF TypeOK, OutputTypeOK, ProvenOutput
  <2>5. /\ outputProof = OutputTold(header.num, Listed)
        /\ l2Output = OutputTold(header.num, TRUE)
    BY <1>1, <1>2, <2>1, <2>3, <2>4 DEF OutputInv, OutputTold
  <2> QED
    BY <1>3, <1>7, <2>1, <2>2, <2>5 DEF Evidence, BlockTells
<1> QED
  BY <1>6, <1>7

LEMMA RunStep ==
  ASSUME TypeOK, Progress, PinInv, OutputInv, RunInv, [Next]_vars
  PROVE  [Run!Next]_Run!runVars
<1> USE DEF Run!Next, Run!runVars, Run!world
<1> DEFINE handedOver == IF pc = "done" THEN Evidence ELSE Nil
<1>1. ASSUME UNCHANGED l1vars, UNCHANGED newHash, pc \notin Ended, pc' \notin Ended,
             newHash = Nil \/ UNCHANGED toldVars
      PROVE  Run!Move
  <2>1. UNCHANGED Phase /\ (newHash = Nil => Phase = "idle")
    BY <1>1, PhaseMoves
  <2>2. newHash = Nil \/ UNCHANGED Told
    BY <1>1, ToldSame
  <2>3. UNCHANGED handedOver
    BY <1>1 DEF Ended
  <2> QED
    BY <1>1, <2>1, <2>2, <2>3 DEF Run!Move
<1>2. ASSUME UNCHANGED l1vars, UNCHANGED newHash, UNCHANGED toldVars, pc \notin Ended,
             pc' \in {"failed", "panicked"}
      PROVE  Run!Fail
  <2>1. Phase \in {"idle", "pinned"} /\ Phase' = "failed"
    BY <1>2 DEF Phase, Ended
  <2>2. UNCHANGED Told /\ UNCHANGED origin /\ UNCHANGED handedOver
    BY <1>2, ToldSame DEF l1vars, Ended
  <2> QED
    BY <1>2, <2>1, <2>2 DEF Run!Fail
<1>3. CASE OriginDoes /\ UNCHANGED l1vars
  <2>1. UNCHANGED toldVars
    BY <1>3 DEF OriginDoes, toldVars, registryVars, scanVars, outputVars
  <2>2. /\ pc \notin Ended
        /\ pc' \notin Ended \/ pc' \in {"failed", "panicked"}
    BY <1>3, OriginPlace DEF OriginDoes, OriginLabels, OriginCalls, Ended
  <2>3. CASE newHash' = newHash
    BY <1>1, <1>2, <1>3, <2>1, <2>2, <2>3
  <2>4. CASE newHash = Nil /\ newHash' = origin /\ pc' = "fetch"
    <3>1. origin # Nil
      BY OriginAssumption DEF TypeOK, L1TypeOK
    <3>2. Phase = "idle" /\ Phase' = "pinned"
      BY <2>2, <2>4, <3>1 DEF Phase, Ended
    <3>3. UNCHANGED Told /\ UNCHANGED origin /\ UNCHANGED handedOver
      BY <1>3, <2>1, <2>2, <2>4, ToldSame DEF l1vars, Ended
    <3> QED
      BY <2>4, <3>2, <3>3 DEF Run!Pin
  <2> QED
    BY <1>3, <2>3, <2>4, OriginStepHash DEF OriginDoes, Progress, RunInv, TakenInv
<1>4. CASE /\ UNCHANGED l1vars /\ UNCHANGED originVars
           /\ pc \in BeforeOrigin /\ pc' \in BeforeOrigin \cup {"origin", "failed"}
           /\ pc' = "failed" => UNCHANGED toldVars
  <2>1. newHash = Nil /\ UNCHANGED newHash
    BY <1>4 DEF RunInv, TakenInv, originVars
  <2>2. pc \notin Ended /\ (pc' \notin Ended \/ pc' = "failed")
    BY <1>4 DEF BeforeOrigin, Fields, ScanLabels, Ended
  <2> QED
    BY <1>1, <1>2, <1>4, <2>1, <2>2
<1>5. CASE /\ UNCHANGED l1vars /\ UNCHANGED originVars /\ UNCHANGED toldVars
           /\ pc \in Proving \cup {"header"} /\ pc' \in Proving \cup {"failed"}
  <2>1. UNCHANGED newHash
    BY <1>5 DEF originVars
  <2>2. pc \notin Ended /\ (pc' \notin Ended \/ pc' = "failed")
    BY <1>5 DEF Proving, AfterHeader, SettledCalls, PinnedCalls, UpdateCalls, Ended
  <2> QED
    BY <1>1, <1>2, <1>5, <2>1, <2>2
<1>6. CASE /\ UNCHANGED l1vars /\ UNCHANGED originVars /\ UNCHANGED <<toldVars, evidenceVars>>
           /\ pc = "encode" /\ pc' = "done"
  <2>1. header = newHash /\ newHash # Nil /\ header \in Hash
    BY <1>6 DEF RunInv, TakenInv, HashInv, Progress, HeaderInv, AfterHeader, TypeOK, OriginTypeOK
  <2>2. Phase = "pinned" /\ Phase' = "delivered"
    BY <1>6, <2>1 DEF Phase, Ended
  <2>3. UNCHANGED Told /\ UNCHANGED <<origin, newHash>> /\ Evidence' = Evidence
    BY <1>6, ToldSame DEF l1vars, originVars, evidenceVars, Evidence
  <2>4. ASSUME newHash \in DOMAIN Told PROVE Evidence = Told[newHash]
    <3>1. PICK n \in 1..head : newHash = HashAt(n)
      BY <2>4 DEF Told
    <3>2. Canonical(header)
      BY <2>1, <3>1 DEF Canonical, HashAt, TypeOK, L1TypeOK, Heights
    <3>3. Evidence = BlockTells(header.num)
      BY <1>6, <3>2, EvidenceTold
    <3> QED
      BY <2>1, <2>4, <3>3 DEF Told
  <2>5. handedOver' = Evidence
    BY <1>6, <2>3
  <2> QED
    BY <2>2, <2>3, <2>4, <2>5 DEF Run!Deliver
<1>7. CASE /\ [L1Next]_l1vars /\ UNCHANGED originVars /\ UNCHANGED <<toldVars, evidenceVars>>
           /\ pc' = pc
  <2>1. UNCHANGED Phase /\ UNCHANGED newHash /\ UNCHANGED handedOver
    BY <1>7 DEF Phase, originVars, evidenceVars, Evidence
  <2>2. \A h \in DOMAIN Told \cap DOMAIN Told' : Told'[h] = Told[h]
    <3>1. \A h : h \in {HashAt(n) : n \in 1..head} /\ h \in {HashAt(n) : n \in 1..head}'
                 => chain'[h.num] = chain[h.num]
      BY <1>7, HashesStay DEF TypeOK, PinInv
    <3>2. \A h : h \in {HashAt(n) : n \in 1..head} /\ h \in {HashAt(n) : n \in 1..head}'
                 => BlockTells(h.num)' = BlockTells(h.num)
      BY <1>7, <3>1, ToldSame
    <3> QED
      BY <3>2 DEF Told
  <2> QED
    BY <2>1, <2>2 DEF Run!Move
<1> QED
  BY <1>3, <1>4, <1>5, <1>6, <1>7, Places

\* A run of proveNative, call by call, implements the abstract run: for any
\* chain, any reorganisations, any oracle and either prover, all it hands over
\* is what the one block it took from the oracle tells, if that is of the chain.
THEOREM RunImplemented == Spec => ImplementsRun
<1>1. Init => PinInv /\ OutputInv /\ RunInv /\ Run!Init
  <2> SUFFICES ASSUME Init PROVE PinInv /\ OutputInv /\ RunInv /\ Run!Init
    OBVIOUS
  <2>1. PinInv /\ OutputInv
    BY PinInit DEF Init, OutputInit, OutputInv
  <2>2. TakenInv
    BY DEF Init, OriginInit, SessionInit, TakenInv, HashInv, OriginLabels, OriginCalls
  <2>3. SearchInv
    BY DEF Init, SessionInit, ScanInit, OutputInit, SearchInv, ScanLabels, OriginLabels,
       OriginCalls
  <2>4. ProofsInv /\ ReadInv
    BY DEF Init, SessionInit, OutputInit, SettledInit, RegistryInit, ProofsInv, ReadInv,
       AfterProof, UpdateCalls, PinnedCalls
  <2>5. Run!Init
    BY DEF Init, SessionInit, OriginInit, Run!Init, Phase, Ended
  <2> QED
    BY <2>1, <2>2, <2>3, <2>4, <2>5 DEF RunInv
<1>2. /\ TypeOK /\ Progress /\ PinInv /\ [Next]_vars => PinInv'
      /\ TypeOK /\ Progress /\ PinInv /\ OutputInv /\ [Next]_vars => OutputInv'
      /\ TypeOK /\ Progress /\ PinInv /\ RunInv /\ [Next]_vars => RunInv'
      /\ TypeOK /\ Progress /\ PinInv /\ OutputInv /\ RunInv /\ [Next]_vars
           => [Run!Next]_Run!runVars
  BY PinStep, OutputStep, RunInvStep, RunStep
<1> QED
  BY <1>1, <1>2, TypeCorrect, PTL DEF Spec, ImplementsRun, Run!Spec

=============================================================================
