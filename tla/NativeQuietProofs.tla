------------------------- MODULE NativeQuietProofs -------------------------
(***************************************************************************)
(* What a proveNative run may rely on while what it reads does not change: *)
(* until the first reorganisation, the status of the game it claims; while *)
(* the registry entry rests, that it used, sent and proved one entry; and  *)
(* while outputs are only added, that it proved the one its search meant.  *)
(***************************************************************************)
EXTENDS NativeSessionProofs

-----------------------------------------------------------------------------
(* Until the first reorganisation. *)

LEMMA StillQuiet ==
  ASSUME TypeOK, [Next]_vars, forks' = 0
  PROVE  /\ forks = 0
         /\ head <= head' /\ head \in Heights /\ head' \in Heights
         /\ \A n \in Heights : n <= head => chain'[n] = chain[n]
<1>1. [L1Next]_l1vars
  BY ChainSteps
<1>2. forks \in Nat
  BY ForkNumbers DEF TypeOK
<1>3. forks = 0
  BY <1>1, <1>2 DEF L1Next, Mine, Reorg, OracleMoves, l1vars
<1>4. head \in Heights /\ head' \in Heights
  BY <1>1, L1StepTyped DEF TypeOK, L1TypeOK
<1> QED
  BY <1>1, <1>3, <1>4, L1StepExtends DEF TypeOK

LEMMA HeaderBelowHead ==
  ASSUME TypeOK, PinInv, forks = 0, header # Nil
  PROVE  header.num \in Heights /\ header.num <= head
  BY SeenIsBelow DEF TypeOK, OriginTypeOK, PinInv, OriginSeen

(***************************************************************************)
(* One game.  It was won when it was found, so it is won in every later    *)
(* block: if it is resolved in the header's block, then the same way.  The *)
(* checks see that it is, and that it is there with a proof.               *)
(***************************************************************************)
StatusInv ==
  forks = 0 =>
    /\ Lasting /\ Unborn
    /\ found # NoGame => Latest.games[found] = "defenderWins"
    /\ \A c \in PinnedCalls :
         answers[c] # NoAnswer => answers[c] = AnswerAt(header.num, found)
    /\ pc = "l2Batch" => Complaint = "none"
    /\ settled # NoAnswer => nulls = {} /\ settled.slot = StoredStatus(answers["proofs"])

\* Only the search finds a game, and only its visit of a won one.
LEMMA FoundWon ==
  ASSUME TypeOK, [Next]_vars, found' # found
  PROVE  /\ ScanDoes /\ pc \in ScanLabels /\ pc' \notin {"l2Batch"} /\ UNCHANGED l1vars
         /\ Latest.games[found'] = "defenderWins"
<1>1. ScanDoes /\ UNCHANGED l1vars
  BY StepCases
  DEF ProverDoes, OriginDoes, RegistryDoes, SettledDoes, OutputDoes, scanVars
<1>2. ReadStatus
  BY <1>1 DEF ScanDoes, GamesAnswer, ScanAnswers, ScanSkips, ScanStops, ScanErrors,
     ReadGameCount, NoGames, ReadGameAtIndex, NotFinal, SkipStatusError, SkipEmptyAnswer,
     scanVars
<1> QED
  BY <1>1, <1>2 DEF ReadStatus, Status, FinalStatus, Answered, Moves, ScanLabels

\* What the claim is worth: with the answers of one block about a won game, a
\* game that passes the checks has the status slot that is written down.
LEMMA ClaimHolds ==
  ASSUME TypeOK, Progress, PinInv, StatusInv, forks = 0, pc = "l2Batch"
  PROVE  nulls = {} /\ ClaimedStatus = StoredStatus(answers["proofs"])
<1> DEFINE block == chain[header.num]
<1>1. found \in GameIndex /\ found # NoGame /\ header # Nil
  BY ScanAssumption DEF Progress, GameInv, HeaderInv, SettledCalls, AfterHeader
<1>2. header.num \in Heights /\ header.num <= head /\ head \in Heights
  BY <1>1, HeaderBelowHead DEF TypeOK, L1TypeOK
<1>3. \A c \in PinnedCalls :
        /\ answers[c].exists = Exists(block, found)
        /\ answers[c].game = block.games[found]
  BY DEF StatusInv, AnswerAt, Progress, CallsInv, CallsBefore
<1>4. /\ "factory" \notin nulls /\ "game" \notin nulls
      /\ Exists(block, found) /\ block.games[found] \in Resolved
  BY <1>3 DEF StatusInv, Complaint, PinnedCalls
<1>5. block.games[found] = "defenderWins"
  BY <1>1, <1>2, <1>4, ChainAssumption DEF StatusInv, Lasting, Latest, Heights
<1>6. nulls = {}
  BY <1>4 DEF TypeOK, SettledTypeOK
<1> QED
  BY <1>3, <1>4, <1>5, <1>6 DEF ClaimedStatus, StoredStatus, PinnedCalls, Status

LEMMA StatusStep ==
  ASSUME TypeOK, Progress, PinInv, StatusInv, [Next]_vars
  PROVE  StatusInv'
<1> SUFFICES ASSUME forks' = 0 PROVE StatusInv'
  BY DEF StatusInv
<1>0. /\ forks = 0
      /\ head <= head' /\ head \in Heights /\ head' \in Heights
      /\ \A n \in Heights : n <= head => chain'[n] = chain[n]
  BY StillQuiet
<1>1. Lasting' /\ Unborn'
  BY <1>0, ChainSteps, LastingStep, UnbornStep DEF StatusInv, TypeOK
<1>2. ASSUME found' # NoGame PROVE Latest'.games[found'] = "defenderWins"
  <2>1. CASE found' # found
    BY <2>1, FoundWon DEF Latest, l1vars
  <2>2. CASE found' = found
    <3>1. found \in GameIndex /\ chain[head].games[found] = "defenderWins"
      BY <1>0, <1>2, <2>2 DEF StatusInv, Latest, TypeOK, ScanTypeOK
    <3>2. Exists(chain[head], found)
      BY <1>0, <3>1, ChainAssumption DEF StatusInv, Unborn, UnbornIsOpen, Heights
    <3>3. chain'[head] = chain[head]
      BY <1>0, ChainAssumption DEF Heights
    <3>4. chain'[head'].games[found] = chain'[head].games[found]
      BY <1>0, <1>1, <3>1, <3>2, <3>3, ChainAssumption DEF Lasting, Resolved, Exists, Heights
    <3> QED
      BY <2>2, <3>1, <3>3, <3>4 DEF Latest
  <2> QED
    BY <2>1, <2>2
<1>3. ASSUME UNCHANGED settledVars, pc' = "l2Batch" => pc = "l2Batch",
             NothingPinned \/ UNCHANGED <<header, found>>
      PROVE  StatusInv'
  <2>1. ASSUME NEW c \in PinnedCalls, answers'[c] # NoAnswer
        PROVE  answers'[c] = AnswerAt(header.num, found)'
    <3>1. answers'[c] = answers[c] /\ UNCHANGED <<header, found>>
      BY <1>3, <2>1 DEF settledVars, NothingPinned
    <3>2. header # Nil
      BY <2>1, <3>1 DEF Progress, HeaderInv, NothingPinned
    <3>3. chain'[header.num] = chain[header.num]
      BY <1>0, <3>2, HeaderBelowHead
    <3>4. answers[c] = AnswerAt(header.num, found)
      BY <1>0, <2>1, <3>1 DEF StatusInv
    <3> QED
      BY <3>1, <3>3, <3>4 DEF AnswerAt, Exists
  <2>2. /\ pc' = "l2Batch" => Complaint' = "none"
        /\ settled' # NoAnswer => nulls' = {} /\ settled'.slot = StoredStatus(answers'["proofs"])
    BY <1>0, <1>3 DEF StatusInv, Complaint, settledVars
  <2> QED
    BY <1>1, <1>2, <2>1, <2>2 DEF StatusInv, StoredStatus
<1>4. CASE ~SettledDoes
  BY <1>3, <1>4, SettledCases
<1>5. CASE PinnedCall(header.num, found) /\ SettledDoes
  <2>1. PICK c \in PinnedCalls :
          /\ Answered(c, CallAfter[c])
          /\ answers' = [answers EXCEPT ![c] = AnswerAt(header.num, found)]
    BY <1>5 DEF PinnedCall
  <2>2. pc \in PinnedCalls /\ pc' # "l2Batch" /\ settled' = settled
    BY <1>5, <2>1 DEF PinnedCall, Answered, Moves, CallAfter, PinnedCalls
  <2>3. settled' = NoAnswer
    BY <2>2 DEF Progress, GameInv, SettledCalls
  <2>4. UNCHANGED <<header, found>> /\ chain'[header.num] = chain[header.num]
    <3>1. header # Nil
      BY <2>2 DEF Progress, HeaderInv, AfterHeader, SettledCalls
    <3> QED
      BY <1>0, <1>5, <3>1, HeaderBelowHead DEF SettledDoes, originVars, scanVars
  <2>5. \A d \in PinnedCalls : answers'[d] # NoAnswer => answers'[d] = AnswerAt(header.num, found)
    BY <1>0, <2>1 DEF StatusInv, TypeOK, SettledTypeOK
  <2>6. AnswerAt(header.num, found)' = AnswerAt(header.num, found)
    BY <2>4 DEF AnswerAt, Exists
  <2> QED
    BY <1>1, <1>2, <2>2, <2>3, <2>5, <2>6 DEF StatusInv
<1>6. CASE PassChecks /\ SettledDoes
  <2>1. UNCHANGED <<header, found, answers, nulls, settled>> /\ Complaint = "none"
    BY <1>6 DEF PassChecks, SettledDoes, originVars, scanVars, settledVars
  <2>2. Complaint' = "none"
    BY <2>1 DEF Complaint
  <2>3. settled' # NoAnswer => nulls' = {} /\ settled'.slot = StoredStatus(answers'["proofs"])
    BY <1>0, <2>1 DEF StatusInv
  <2>4. ASSUME NEW c \in PinnedCalls, answers'[c] # NoAnswer
        PROVE  answers'[c] = AnswerAt(header.num, found)'
    <3>1. header # Nil
      BY <2>1, <2>4 DEF Progress, HeaderInv, NothingPinned
    <3>2. chain'[header.num] = chain[header.num]
      BY <1>0, <3>1, HeaderBelowHead
    <3> QED
      BY <1>0, <2>1, <2>4, <3>2 DEF StatusInv, AnswerAt, Exists
  <2> QED
    BY <1>1, <1>2, <2>2, <2>3, <2>4 DEF StatusInv, StoredStatus
<1>7. CASE L2Batch(found) /\ SettledDoes
  <2>1. /\ pc = "l2Batch" /\ pc' = "value"
        /\ UNCHANGED <<header, found, answers, nulls>>
        /\ settled' = [game |-> found, slot |-> ClaimedStatus]
    BY <1>7 DEF L2Batch, Answered, Moves, SettledDoes, originVars, scanVars
  <2>2. nulls' = {} /\ settled'.slot = StoredStatus(answers'["proofs"])
    BY <1>0, <2>1, ClaimHolds
  <2>3. ASSUME NEW c \in PinnedCalls, answers'[c] # NoAnswer
        PROVE  answers'[c] = AnswerAt(header.num, found)'
    <3>1. header # Nil
      BY <2>1, <2>3 DEF Progress, HeaderInv, NothingPinned
    <3>2. chain'[header.num] = chain[header.num]
      BY <1>0, <3>1, HeaderBelowHead
    <3> QED
      BY <1>0, <2>1, <2>3, <3>2 DEF StatusInv, AnswerAt, Exists
  <2> QED
    BY <1>1, <1>2, <2>1, <2>2, <2>3 DEF StatusInv, StoredStatus
<1>8. CASE (FailChecks \/ SettledStops \/ SettledErrors) /\ SettledDoes
  BY <1>3, <1>8
  DEF FailChecks, SettledStops, SettledErrors, CtxFails, RpcFails, Fails, SettledDoes,
      originVars, scanVars
<1> QED
  BY <1>4, <1>5, <1>6, <1>7, <1>8 DEF SettledDoes, SettledAnswers, SettledLocal

\* Until the first reorganisation, the status slot a run writes down is the
\* one its storage proof is of, for any number of games, however the search
\* failed and wherever the origin is.
THEOREM StatusClaimed == Spec => []StatusTruthful
<1>1. Init => PinInv /\ StatusInv
  BY PinInit, L1InitSteady DEF Init, ScanInit, SettledInit, SessionInit, StatusInv
<1>2. /\ TypeOK /\ Progress /\ PinInv /\ [Next]_vars => PinInv'
      /\ TypeOK /\ Progress /\ PinInv /\ StatusInv /\ [Next]_vars => StatusInv'
  BY PinStep, StatusStep
<1>3. StatusInv => StatusTruthful
  BY DEF StatusInv, StatusTruthful
<1> QED
  BY <1>1, <1>2, <1>3, TypeCorrect, PTL DEF Spec

-----------------------------------------------------------------------------
(***************************************************************************)
(* One entry.  Each field was read from some block between the first read  *)
(* and the head, and the proof is of the header's block: if none of these  *)
(* blocks differs from the head in the entry, they are all the same.       *)
(***************************************************************************)
HeldSince(c) == \E k \in Heights : readFrom <= k /\ k <= head /\ c = chain[k].config

\* The labels at which a field was not read yet, and was read again.
Unread ==
  [ type      |-> {"oracle", "type", "failed"},
    addresses |-> {"oracle", "type", "addresses", "failed"},
    slots     |-> {"oracle", "type", "addresses", "slots", "failed"} ]

Reread ==
  [ type      |-> {"updAddresses", "updSlots", "updChain", "regProof", "encode", "done"},
    addresses |-> {"updSlots", "updChain", "regProof", "encode", "done"},
    slots     |-> {"updChain", "regProof", "encode", "done"},
    chain     |-> {"regProof", "encode", "done"} ]

ConfigInv ==
  forks = 0 =>
    /\ readFrom <= head
    /\ \A f \in Fields : pc \notin Unread[f] => HeldSince(l2Config[f])
    /\ \A f \in UpdateFields : pc \in Reread[f] => HeldSince(update[f])
    /\ pc \in {"encode", "done"} => regProof.config = chain[header.num].config

\* A step of anything but the registry moves no label past a read.
LEMMA RegistryCases ==
  ASSUME TypeOK, Progress, [Next]_vars, ~(RegistryDoes /\ UNCHANGED l1vars)
  PROVE  /\ UNCHANGED registryVars
         /\ \A f \in Fields : pc' \notin Unread[f] => pc \notin Unread[f]
         /\ \A f \in UpdateFields : pc' \in Reread[f] => pc \in Reread[f]
         /\ pc' \in {"encode", "done"} => pc \in {"encode", "done"} /\ UNCHANGED header
<1> USE DEF Fields, UpdateFields, Unread, Reread
<1>1. CASE OriginDoes
  BY <1>1, OriginPlace DEF OriginDoes, OriginLabels, OriginCalls
<1>2. CASE ScanDoes
  <2>1. /\ pc \in ScanLabels
        /\ pc' \in {"gameAtIndex", "status", "origin", "failed"}
    BY <1>2 DEF ScanDoes, GamesAnswer, ScanAnswers, ScanSkips, ScanStops, ScanErrors,
       ReadGameCount, NoGames, ReadGameAtIndex, ReadStatus, NotFinal, SkipStatusError,
       SkipEmptyAnswer, NextGame, CtxFails, RpcFails, Fails, Answered, Moves, ScanLabels
  <2> QED
    BY <1>2, <2>1 DEF ScanDoes, ScanLabels
<1>3. CASE ProverDoes
  <2>1. UNCHANGED <<registryVars, header>>
    BY <1>3 DEF ProverDoes, originVars
  <2>2. <<pc, pc'>> \in
           { <<"oracle", "type">>, <<"branch", "gameCount">>, <<"branch", "outputIndex">>,
             <<"header", "gameId">>, <<"header", "outputProof">>,
             <<"value", "valueProof">>, <<"valueProof", "updType">>, <<"encode", "done">> }
        \/ pc' = "failed"
    BY <1>3 DEF ProverDoes, ProverStep, ProverAnswers, ProverLocal, ReadOracleAddress,
       ReadL2Storage, ChooseProver, RejectConfig, BeginSettledProof, Encode, CtxFails,
       RpcFails, Fails, Answered, Moves
  <2> QED
    BY <2>1, <2>2
<1>4. CASE SettledDoes
  <2>1. /\ pc \in SettledCalls \cup {"checks"}
        /\ pc' \in SettledCalls \cup {"checks", "value", "failed"}
    BY <1>4 DEF SettledDoes, SettledAnswers, SettledLocal, PinnedCall, L2Batch, PassChecks,
       FailChecks, SettledStops, SettledErrors, CtxFails, RpcFails, Fails, Answered, Moves,
       SettledCalls, PinnedCalls, CallAfter
  <2> QED
    BY <1>4, <2>1 DEF SettledDoes, SettledCalls, PinnedCalls
<1>5. CASE OutputDoes
  <2>1. pc \in OutputCalls /\ pc' \in {"origin", "getOutput", "outputBatch", "value", "failed"}
    BY <1>5 DEF OutputDoes, OutputsAnswer, OutputAnswers, ReadOutputIndex, GetOutputProof,
       GetL2Output, OutputBatch, OutputStops, OutputErrors, CtxFails, RpcFails, Fails,
       Answered, Moves, OutputCalls
  <2> QED
    BY <1>5, <2>1 DEF OutputDoes, OutputCalls
<1>6. CASE UNCHANGED <<pc, registryVars, originVars>>
  BY <1>6 DEF originVars
<1> QED
  BY <1>1, <1>2, <1>3, <1>4, <1>5, <1>6, StepCases DEF Interrupt, sessionVars

LEMMA ConfigStep ==
  ASSUME TypeOK, Progress, PinInv, ConfigInv, [Next]_vars
  PROVE  ConfigInv'
<1> SUFFICES ASSUME forks' = 0 PROVE ConfigInv'
  BY DEF ConfigInv
<1>0. /\ forks = 0
      /\ head <= head' /\ head \in Heights /\ head' \in Heights
      /\ \A n \in Heights : n <= head => chain'[n] = chain[n]
      /\ readFrom \in Int
  BY StillQuiet, ChainAssumption DEF TypeOK, RegistryTypeOK
<1>1. ASSUME UNCHANGED readFrom, NEW c, HeldSince(c)
      PROVE  \E k \in Heights : readFrom' <= k /\ k <= head' /\ c = chain'[k].config
  BY <1>0, <1>1, ChainAssumption DEF HeldSince, Heights
<1>2. ASSUME header # Nil PROVE chain'[header.num] = chain[header.num]
  BY <1>0, <1>2, HeaderBelowHead
<1>3. CASE ~(RegistryDoes /\ UNCHANGED l1vars)
  <2>1. readFrom' <= head'
    BY <1>0, <1>3, RegistryCases, ChainAssumption DEF ConfigInv, registryVars, Heights
  <2>2. ASSUME NEW f \in Fields, pc' \notin Unread[f] PROVE HeldSince(l2Config[f])'
    BY <1>0, <1>1, <1>3, <2>2, RegistryCases DEF ConfigInv, registryVars, HeldSince
  <2>3. ASSUME NEW f \in UpdateFields, pc' \in Reread[f] PROVE HeldSince(update[f])'
    BY <1>0, <1>1, <1>3, <2>3, RegistryCases DEF ConfigInv, registryVars, HeldSince
  <2>4. ASSUME pc' \in {"encode", "done"}
        PROVE  regProof'.config = chain'[header'.num].config
    <3>1. pc \in {"encode", "done"} /\ UNCHANGED <<header, regProof>>
      BY <1>3, <2>4, RegistryCases DEF registryVars
    <3>2. header # Nil
      BY <3>1 DEF Progress, HeaderInv, AfterHeader
    <3> QED
      BY <1>0, <1>2, <3>1, <3>2 DEF ConfigInv
  <2> QED
    BY <2>1, <2>2, <2>3, <2>4 DEF ConfigInv
<1>4. ASSUME RegistryDoes, UNCHANGED l1vars
      PROVE  /\ UNCHANGED <<head, chain, header>>
             /\ \A c : readFrom' <= head /\ c = Latest.config =>
                  \E k \in Heights : readFrom' <= k /\ k <= head' /\ c = chain'[k].config
  BY <1>0, <1>4, ChainAssumption DEF RegistryDoes, originVars, l1vars, Latest, Heights
<1>5. readFrom <= head
  BY <1>0 DEF ConfigInv
<1>6. CASE RegistryDoes /\ UNCHANGED l1vars /\ GetL2Configuration
  <2>1. PICK field \in Fields : \E to \in {"addresses", "slots", "branch"} :
          ReadConfig(field, to) /\ <<field, to>> \in
            {<<"type", "addresses">>, <<"addresses", "slots">>, <<"slots", "branch">>}
    BY <1>6 DEF GetL2Configuration, Fields
  <2>2. /\ pc = field
        /\ <<field, pc'>> \in
             {<<"type", "addresses">>, <<"addresses", "slots">>, <<"slots", "branch">>}
        /\ l2Config' = [l2Config EXCEPT ![field] = Latest.config]
        /\ readFrom' = IF field = "type" THEN head ELSE readFrom
    BY <2>1 DEF ReadConfig, Moves
  <2>3. readFrom' <= head'
    BY <1>0, <1>4, <1>5, <1>6, <2>2, ChainAssumption DEF Heights
  <2>4. ASSUME NEW f \in Fields, pc' \notin Unread[f] PROVE HeldSince(l2Config[f])'
    <3>1. CASE f = field
      <4>1. l2Config'[f] = Latest.config
        BY <2>2, <3>1 DEF TypeOK, RegistryTypeOK
      <4> QED
        BY <1>4, <1>6, <2>3, <4>1 DEF HeldSince
    <3>2. CASE f # field
      <4>1. field # "type" /\ pc \notin Unread[f]
        BY <2>2, <2>4, <3>2 DEF Unread, Fields
      <4>2. UNCHANGED readFrom /\ l2Config'[f] = l2Config[f]
        BY <2>2, <3>2, <4>1 DEF TypeOK, RegistryTypeOK
      <4> QED
        BY <1>0, <1>1, <2>4, <4>1, <4>2 DEF ConfigInv, HeldSince
    <3> QED
      BY <3>1, <3>2
  <2>5. \A f \in UpdateFields : pc' \notin Reread[f]
    BY <2>2 DEF Reread, UpdateFields, Fields
  <2> QED
    BY <2>2, <2>3, <2>4, <2>5 DEF ConfigInv
<1>7. CASE RegistryDoes /\ UNCHANGED l1vars /\ GetL2ConfigurationForUpdate
  <2>1. PICK field \in UpdateFields, from \in UpdateCalls, to \in UpdateCalls :
          /\ ReadUpdate(from, field, to)
          /\ <<field, from, to>> \in
               { <<"type", "updType", "updAddresses">>,
                 <<"addresses", "updAddresses", "updSlots">>,
                 <<"slots", "updSlots", "updChain">>, <<"chain", "updChain", "regProof">> }
    BY <1>7 DEF GetL2ConfigurationForUpdate, UpdateFields, Fields, UpdateCalls
  <2>2. /\ <<field, pc, pc'>> \in
             { <<"type", "updType", "updAddresses">>,
               <<"addresses", "updAddresses", "updSlots">>,
               <<"slots", "updSlots", "updChain">>, <<"chain", "updChain", "regProof">> }
        /\ update' = [update EXCEPT ![field] = Latest.config]
        /\ UNCHANGED <<readFrom, l2Config>>
    BY <2>1 DEF ReadUpdate, Answered, Moves
  <2>3. readFrom' <= head'
    BY <1>4, <1>5, <1>7, <2>2
  <2>4. ASSUME NEW f \in Fields PROVE HeldSince(l2Config[f])'
    <3>1. pc \notin Unread[f]
      BY <2>2 DEF Unread, Fields
    <3> QED
      BY <1>0, <1>1, <2>2, <3>1 DEF ConfigInv, HeldSince
  <2>5. ASSUME NEW f \in UpdateFields, pc' \in Reread[f] PROVE HeldSince(update[f])'
    <3>1. CASE f = field
      <4>1. update'[f] = Latest.config
        BY <2>2, <3>1 DEF TypeOK, RegistryTypeOK
      <4> QED
        BY <1>4, <1>5, <1>7, <2>2, <4>1 DEF HeldSince
    <3>2. CASE f # field
      <4>1. pc \in Reread[f] /\ update'[f] = update[f]
        BY <2>2, <2>5, <3>2 DEF Reread, UpdateFields, Fields, TypeOK, RegistryTypeOK
      <4> QED
        BY <1>0, <1>1, <2>2, <4>1 DEF ConfigInv, HeldSince
    <3> QED
      BY <3>1, <3>2
  <2> QED
    BY <2>2, <2>3, <2>4, <2>5 DEF ConfigInv
<1>8. CASE RegistryDoes /\ UNCHANGED l1vars /\ GetRegistryStorageProof(header.num)
  <2>1. /\ pc = "regProof" /\ pc' = "encode"
        /\ regProof'.config = chain[header.num].config
        /\ UNCHANGED <<l2Config, update, readFrom>>
    BY <1>8 DEF GetRegistryStorageProof, Answered, Moves
  <2>2. readFrom' <= head'
    BY <1>4, <1>5, <1>8, <2>1
  <2>3. \A f \in Fields : HeldSince(l2Config[f])
    BY <1>0, <2>1 DEF ConfigInv, Unread, Fields
  <2>4. \A f \in UpdateFields : HeldSince(update[f])
    BY <1>0, <2>1 DEF ConfigInv, Reread, UpdateFields, Fields
  <2>5. regProof'.config = chain'[header'.num].config
    BY <1>4, <1>8, <2>1
  <2>6. \A f \in Fields : HeldSince(l2Config[f])'
    BY <1>1, <2>1, <2>3 DEF HeldSince
  <2>7. \A f \in UpdateFields : HeldSince(update[f])'
    BY <1>1, <2>1, <2>4 DEF HeldSince
  <2> QED
    BY <2>2, <2>5, <2>6, <2>7 DEF ConfigInv
<1>9. CASE RegistryDoes /\ UNCHANGED l1vars
           /\ (UnsupportedUpdate \/ RegistryStops \/ RegistryErrors)
  <2>1. UNCHANGED registryVars /\ pc' = "failed"
    BY <1>9 DEF UnsupportedUpdate, RegistryStops, RegistryErrors, CtxFails, RpcFails, Fails
  <2> QED
    BY <1>4, <1>5, <1>9, <2>1 DEF ConfigInv, registryVars, Unread, Reread, Fields, UpdateFields
<1> QED
  BY <1>3, <1>6, <1>7, <1>8, <1>9 DEF RegistryDoes, RegistryAnswers

\* Until the first reorganisation, if the entry rests from the first read, or
\* from the origin's block when that is older, up to the head, then what the
\* search used, what is sent and what is proved are one version of it.
THEOREM QuietConfig == Spec => []QuietConfigAgrees
<1>1. Init => PinInv /\ ConfigInv
  <2> SUFFICES ASSUME Init PROVE PinInv /\ ConfigInv
    OBVIOUS
  <2>1. pc = "oracle" /\ readFrom = 0 /\ head = 1
    BY DEF Init, SessionInit, RegistryInit, L1Init
  <2> QED
    BY <2>1, PinInit DEF ConfigInv, Unread, Reread, Fields, UpdateFields
<1>2. /\ TypeOK /\ Progress /\ PinInv /\ [Next]_vars => PinInv'
      /\ TypeOK /\ Progress /\ PinInv /\ ConfigInv /\ [Next]_vars => ConfigInv'
  BY PinStep, ConfigStep
<1>3. TypeOK /\ Progress /\ PinInv /\ ConfigInv => QuietConfigAgrees
  <2> SUFFICES ASSUME TypeOK, Progress, PinInv, ConfigInv, pc = "done", RegistryQuiet
               PROVE  /\ \A f \in UpdateFields : update[f] = regProof.config
                      /\ \A f \in Fields : l2Config[f] = regProof.config
    BY DEF QuietConfigAgrees
  <2>1. forks = 0 /\ header # Nil
    BY DEF RegistryQuiet, Progress, HeaderInv, AfterHeader
  <2>2. /\ \A f \in Fields : HeldSince(l2Config[f])
        /\ \A f \in UpdateFields : HeldSince(update[f])
        /\ regProof.config = chain[header.num].config
    BY <2>1 DEF ConfigInv, Unread, Reread, Fields, UpdateFields
  <2>3. header.num \in Heights /\ header.num <= head
    BY <2>1, HeaderBelowHead
  <2>4. regProof.config = Latest.config
    BY <2>2, <2>3, ChainAssumption DEF RegistryQuiet, Heights
  <2>5. \A c : HeldSince(c) => c = Latest.config
    BY <2>1 DEF HeldSince, RegistryQuiet
  <2> QED
    BY <2>2, <2>4, <2>5
<1> QED
  BY <1>1, <1>2, <1>3, TypeCorrect, PTL DEF Spec

-----------------------------------------------------------------------------
(***************************************************************************)
(* The output the search meant.  While outputs are only added, the list of *)
(* a block begins with that of every earlier one: an index names the same  *)
(* output wherever it names one.                                           *)
(***************************************************************************)
LEMMA PrefixAgrees ==
  ASSUME NEW s \in Seq(Outputs), NEW t \in Seq(Outputs)
  PROVE  IsPrefix(s, t) <=> Len(s) <= Len(t) /\ \A k \in 1..Len(s) : s[k] = t[k]
<1>1. CASE Len(s) <= Len(t)
  <2>1. /\ SubSeq(s, 1, Len(s)) \in Seq(Outputs) /\ Len(SubSeq(s, 1, Len(s))) = Len(s)
        /\ SubSeq(t, 1, Len(s)) \in Seq(Outputs) /\ Len(SubSeq(t, 1, Len(s))) = Len(s)
    BY <1>1
  <2>2. \A k \in 1..Len(s) :
          SubSeq(s, 1, Len(s))[k] = s[k] /\ SubSeq(t, 1, Len(s))[k] = t[k]
    BY <1>1
  <2>3. SubSeq(s, 1, Len(s)) = SubSeq(t, 1, Len(s))
          <=> \A k \in 1..Len(s) : SubSeq(s, 1, Len(s))[k] = SubSeq(t, 1, Len(s))[k]
    BY <2>1
  <2> QED
    BY <1>1, <2>2, <2>3 DEF IsPrefix
<1> QED
  BY <1>1 DEF IsPrefix

ListsGrow ==
  \A m, n \in Heights :
    m <= n /\ n <= head =>
      /\ Len(chain[m].outputs) <= Len(chain[n].outputs)
      /\ \A k \in 1..Len(chain[m].outputs) : chain[m].outputs[k] = chain[n].outputs[k]

\* Along the Bedrock prover's way there is a newest output; the other prover's
\* labels are not on it.
SearchedInv ==
  /\ pc \in ScanLabels => ChosenType = OPStackCannon
  /\ pc \in OriginLabels \cup {"header"} =>
       (ChosenType = OPStackBedrock => newest # NoOutput)
  /\ pc \in {"outputProof", "getOutput"} => newest # NoOutput
  /\ l2Output # NoOutput => newest # NoOutput

NewestInv ==
  OutputsOnlyAdded =>
    /\ ListsGrow
    /\ newest # NoOutput =>
         \E n \in Heights : /\ n <= head
                            /\ HasOutput(chain[n], outputIndex)
                            /\ OutputAt(chain[n], outputIndex) = newest

LEMMA SearchedStep ==
  ASSUME TypeOK, Progress, SearchedInv, [Next]_vars
  PROVE  SearchedInv'
<1> USE DEF ScanLabels, OriginLabels, OriginCalls, OPStackBedrock, OPStackCannon
<1>1. CASE OriginDoes
  BY <1>1, OriginPlace DEF OriginDoes, SearchedInv, ChosenType, registryVars, outputVars
<1>2. CASE ProverDoes
  <2>1. UNCHANGED <<l2Config, newest, l2Output>>
    BY <1>2 DEF ProverDoes, registryVars, outputVars
  <2>2. \/ <<pc, pc'>> \in { <<"oracle", "type">>, <<"branch", "outputIndex">>,
                             <<"header", "gameId">>, <<"value", "valueProof">>,
                             <<"valueProof", "updType">>, <<"encode", "done">> }
        \/ pc = "branch" /\ pc' = "gameCount" /\ ChosenType = OPStackCannon
        \/ pc = "header" /\ pc' = "outputProof" /\ ChosenType = OPStackBedrock
        \/ pc' = "failed"
    BY <1>2 DEF ProverDoes, ProverStep, ProverAnswers, ProverLocal, ReadOracleAddress,
       ReadL2Storage, ChooseProver, CanSearchGames, RejectConfig, BeginSettledProof, Encode,
       CtxFails, RpcFails, Fails, Answered, Moves
  <2> QED
    BY <2>1, <2>2 DEF SearchedInv, ChosenType
<1>3. CASE RegistryDoes
  <2>1. pc' \in {"addresses", "slots", "branch", "encode", "failed"} \cup UpdateCalls
    BY <1>3 DEF RegistryDoes, RegistryAnswers, GetL2Configuration, ReadConfig,
       GetL2ConfigurationForUpdate, ReadUpdate, UnsupportedUpdate, GetRegistryStorageProof,
       RegistryStops, RegistryErrors, CtxFails, RpcFails, Fails, Answered, Moves, UpdateCalls
  <2> QED
    BY <1>3, <2>1 DEF RegistryDoes, SearchedInv, outputVars, UpdateCalls
<1>4. CASE ScanDoes
  <2>1. /\ pc \in ScanLabels
        /\ pc' \in {"gameAtIndex", "status", "origin", "failed"}
    BY <1>4 DEF ScanDoes, GamesAnswer, ScanAnswers, ScanSkips, ScanStops, ScanErrors,
       ReadGameCount, NoGames, ReadGameAtIndex, ReadStatus, NotFinal, SkipStatusError,
       SkipEmptyAnswer, NextGame, CtxFails, RpcFails, Fails, Answered, Moves
  <2> QED
    BY <1>4, <2>1 DEF ScanDoes, SearchedInv, ChosenType, registryVars, outputVars
<1>5. CASE SettledDoes
  <2>1. pc' \in SettledCalls \cup {"checks", "value", "failed"}
    BY <1>5 DEF SettledDoes, SettledAnswers, SettledLocal, PinnedCall, L2Batch, PassChecks,
       FailChecks, SettledStops, SettledErrors, CtxFails, RpcFails, Fails, Answered, Moves,
       SettledCalls, PinnedCalls, CallAfter
  <2> QED
    BY <1>5, <2>1 DEF SettledDoes, SearchedInv, outputVars, SettledCalls, PinnedCalls
<1>6. CASE OutputDoes /\ UNCHANGED l1vars
  <2>1. UNCHANGED l2Config
    BY <1>6 DEF OutputDoes, registryVars
  <2>2. CASE ReadOutputIndex
    <3>1. Latest \in Block /\ Latest.outputs # <<>>
      BY <2>2 DEF ReadOutputIndex, TypeOK, L1TypeOK, Latest
    <3>2. Latest.outputs \in Seq(Outputs) /\ Len(Latest.outputs) # 0
      BY <3>1, OutputListsAreSeqs DEF Block
    <3>3. HasOutput(Latest, outputIndex') /\ outputIndex' \in Nat
      BY <2>2, <3>2 DEF ReadOutputIndex, HasOutput
    <3>4. newest' \in Outputs
      BY <2>2, <3>1, <3>3, OutputTyped DEF ReadOutputIndex
    <3> QED
      BY <2>2, <3>4, BedrockAssumption DEF ReadOutputIndex, Answered, Moves, SearchedInv
  <2>3. CASE GetOutputProof(header.num, Listed) \/ GetL2Output(header.num)
    BY <2>3 DEF GetOutputProof, GetL2Output, Answered, Moves, SearchedInv
  <2>4. CASE OutputBatch \/ OutputStops \/ OutputErrors
    BY <2>4 DEF OutputBatch, OutputStops, OutputErrors, CtxFails, RpcFails, Fails, Answered,
       Moves, SearchedInv, outputVars
  <2> QED
    BY <1>6, <2>2, <2>3, <2>4 DEF OutputDoes, OutputsAnswer, OutputAnswers, Listed
<1>7. CASE UNCHANGED <<pc, registryVars, outputVars>>
  BY <1>7 DEF SearchedInv, ChosenType, registryVars, outputVars
<1> QED
  BY <1>1, <1>2, <1>3, <1>4, <1>5, <1>6, <1>7, StepCases DEF Interrupt, sessionVars

LEMMA NewestStep ==
  ASSUME TypeOK, NewestInv, [Next]_vars
  PROVE  NewestInv'
<1> SUFFICES ASSUME OutputsOnlyAdded' PROVE NewestInv'
  BY DEF NewestInv
<1>0. /\ forks = 0
      /\ head \in Nat /\ head' \in Nat /\ head \in Heights /\ head' \in Heights
      /\ \A n \in Heights : n <= head => chain'[n] = chain[n]
      /\ head' = head \/ head' = head + 1
  <2>1. forks' = 0
    BY DEF OutputsOnlyAdded
  <2>2. [L1Next]_l1vars
    BY ChainSteps
  <2>3. forks = 0 /\ head \in Nat /\ head' \in Nat
    BY <2>1, StillQuiet, ChainAssumption DEF Heights
  <2>4. head' = head \/ head' = head + 1
    BY <2>1, <2>2, <2>3 DEF L1Next, Mine, Reorg, OracleMoves, l1vars
  <2> QED
    BY <2>1, <2>3, <2>4, StillQuiet
<1>1. \A n \in Heights : /\ n \in Nat /\ n <= MaxHeight
                         /\ chain[n].outputs \in Seq(Outputs)
                         /\ chain'[n].outputs \in Seq(Outputs)
  <2> SUFFICES ASSUME NEW n \in Heights
               PROVE  /\ n \in Nat /\ n <= MaxHeight
                      /\ chain[n].outputs \in Seq(Outputs)
                      /\ chain'[n].outputs \in Seq(Outputs)
    OBVIOUS
  <2>1. L1TypeOK /\ L1TypeOK'
    BY ChainSteps, L1StepTyped DEF TypeOK
  <2>2. chain[n].outputs \in OutputLists /\ chain'[n].outputs \in OutputLists
    BY <2>1 DEF L1TypeOK, Block
  <2> QED
    BY <2>2, OutputListsAreSeqs, ChainAssumption DEF Heights
<1>2. \A n \in 2..head : IsPrefix(chain[n - 1].outputs, chain[n].outputs)
  <2> SUFFICES ASSUME NEW n \in 2..head
               PROVE  IsPrefix(chain[n - 1].outputs, chain[n].outputs)
    OBVIOUS
  <2>1. n \in 2..head' /\ n \in Heights /\ n - 1 \in Heights
    BY <1>0, ChainAssumption DEF Heights
  <2>2. chain'[n] = chain[n] /\ chain'[n - 1] = chain[n - 1]
    BY <1>0, <2>1
  <2>3. IsPrefix(chain'[n - 1].outputs, chain'[n].outputs)
    BY <2>1 DEF OutputsOnlyAdded
  <2> QED
    BY <2>2, <2>3
<1>3. OutputsOnlyAdded
  BY <1>0, <1>2 DEF OutputsOnlyAdded
<1>4. ListsGrow'
  <2> SUFFICES ASSUME NEW m \in Heights, NEW n \in Heights, m <= n, n <= head'
               PROVE  /\ Len(chain'[m].outputs) <= Len(chain'[n].outputs)
                      /\ \A k \in 1..Len(chain'[m].outputs) :
                           chain'[m].outputs[k] = chain'[n].outputs[k]
    BY DEF ListsGrow
  <2>1. CASE n <= head
    <3>1. chain'[m] = chain[m] /\ chain'[n] = chain[n]
      BY <1>0, <1>1, <2>1
    <3> QED
      BY <1>3, <2>1, <3>1 DEF NewestInv, ListsGrow
  <2>2. CASE m = n
    BY <1>1, <2>2
  <2>3. CASE m <= head /\ n = head + 1 /\ head' = head + 1
    <3>1. chain'[m] = chain[m] /\ chain'[head] = chain[head]
      BY <1>0, <2>3
    <3>2. /\ Len(chain[m].outputs) <= Len(chain[head].outputs)
          /\ \A k \in 1..Len(chain[m].outputs) : chain[m].outputs[k] = chain[head].outputs[k]
      BY <1>0, <1>3, <2>3 DEF NewestInv, ListsGrow
    <3>3. IsPrefix(chain'[head].outputs, chain'[n].outputs)
      <4>1. n \in 2..head' /\ n - 1 = head
        BY <1>0, <2>3 DEF Heights
      <4> QED
        BY <4>1 DEF OutputsOnlyAdded
    <3>4. /\ Len(chain[head].outputs) <= Len(chain'[n].outputs)
          /\ \A k \in 1..Len(chain[head].outputs) :
               chain[head].outputs[k] = chain'[n].outputs[k]
      BY <1>0, <1>1, <3>1, <3>3, PrefixAgrees
    <3>5. /\ Len(chain[m].outputs) \in Nat /\ Len(chain[head].outputs) \in Nat
          /\ Len(chain'[n].outputs) \in Nat
      BY <1>0, <1>1
    <3> QED
      BY <3>1, <3>2, <3>4, <3>5
  <2>4. m \in Nat /\ n \in Nat
    BY <1>1
  <2>5. n <= head \/ m = n \/ (m <= head /\ n = head + 1 /\ head' = head + 1)
    <3>1. head \in Nat /\ (head' = head \/ head' = head + 1)
      BY <1>0
    <3> QED
      BY <2>4, <3>1
  <2> QED
    BY <2>1, <2>2, <2>3, <2>5
<1>5. UNCHANGED <<newest, outputIndex>> \/ (ReadOutputIndex /\ UNCHANGED l1vars)
  BY StepCases
  DEF ProverDoes, OriginDoes, RegistryDoes, ScanDoes, SettledDoes, OutputDoes, OutputsAnswer,
      OutputAnswers, GetOutputProof, GetL2Output, OutputBatch, OutputStops, OutputErrors,
      outputVars
<1>6. ASSUME newest' # NoOutput
      PROVE  \E n \in Heights : /\ n <= head'
                                /\ HasOutput(chain'[n], outputIndex')
                                /\ OutputAt(chain'[n], outputIndex') = newest'
  <2>1. CASE UNCHANGED <<newest, outputIndex>>
    <3>1. PICK n \in Heights : /\ n <= head
                               /\ HasOutput(chain[n], outputIndex)
                               /\ OutputAt(chain[n], outputIndex) = newest
      BY <1>3, <1>6, <2>1 DEF NewestInv
    <3>2. n <= head' /\ chain'[n] = chain[n]
      BY <1>0, <1>1, <3>1
    <3> QED
      BY <2>1, <3>1, <3>2
  <2>2. CASE ReadOutputIndex /\ UNCHANGED l1vars
    <3>1. /\ UNCHANGED <<head, chain>>
          /\ chain[head].outputs # <<>>
          /\ outputIndex' = Len(chain[head].outputs) - 1
          /\ newest' = OutputAt(chain[head], outputIndex')
      BY <2>2 DEF ReadOutputIndex, l1vars, Latest
    <3>2. HasOutput(chain[head], outputIndex')
      BY <1>0, <1>1, <3>1 DEF HasOutput
    <3> QED
      BY <1>0, <3>1, <3>2
  <2> QED
    BY <1>5, <2>1, <2>2
<1> QED
  BY <1>4, <1>6 DEF NewestInv, HasOutput, OutputAt

\* While outputs are only added, a run goes on with the output that was the
\* newest when its search looked, for any number of outputs and blocks.
THEOREM NewestOutput == Spec => []NewestOutputProven
<1>1. Init => PinInv /\ OutputInv /\ SearchedInv /\ NewestInv
  <2> SUFFICES ASSUME Init PROVE PinInv /\ OutputInv /\ SearchedInv /\ NewestInv
    OBVIOUS
  <2>1. PinInv /\ OutputInv
    BY PinInit DEF Init, OutputInit, OutputInv
  <2>2. SearchedInv
    BY DEF Init, SessionInit, OutputInit, SearchedInv, ScanLabels, OriginLabels, OriginCalls
  <2>3. NewestInv
    <3>1. head = 1 /\ newest = NoOutput
      BY DEF Init, L1Init, OutputInit
    <3>2. \A n \in Heights : n <= head => n = 1
      BY <3>1, ChainAssumption DEF Heights
    <3>3. chain[1].outputs \in Seq(Outputs)
      BY Initial, OutputListsAreSeqs, ChainAssumption DEF TypeOK, L1TypeOK, Block, Heights
    <3>4. ListsGrow
      BY <3>1, <3>2, <3>3, ChainAssumption DEF ListsGrow, Heights
    <3> QED
      BY <3>1, <3>4 DEF NewestInv
  <2> QED
    BY <2>1, <2>2, <2>3
<1>2. /\ TypeOK /\ Progress /\ PinInv /\ [Next]_vars => PinInv'
      /\ TypeOK /\ Progress /\ PinInv /\ OutputInv /\ [Next]_vars => OutputInv'
      /\ TypeOK /\ Progress /\ SearchedInv /\ [Next]_vars => SearchedInv'
      /\ TypeOK /\ NewestInv /\ [Next]_vars => NewestInv'
  BY PinStep, OutputStep, SearchedStep, NewestStep
<1>3. TypeOK /\ Progress /\ PinInv /\ OutputInv /\ SearchedInv /\ NewestInv
        => NewestOutputProven
  <2> SUFFICES ASSUME TypeOK, Progress, PinInv, OutputInv, SearchedInv, NewestInv,
                      l2Output # NoOutput, OutputsOnlyAdded
               PROVE  l2Output.output = newest
    BY DEF NewestOutputProven
  <2> DEFINE h == header.num
  <2>1. header # Nil /\ forks = 0 /\ newest # NoOutput
    BY DEF Progress, HeaderInv, NothingPinned, OutputsOnlyAdded, SearchedInv
  <2>2. /\ h \in Heights /\ h <= head /\ head \in Heights
        /\ \A n \in Heights : n \in Nat /\ chain[n].fork \in Nat
    BY <2>1, HeaderBelowHead, ForkNumbers, ChainAssumption DEF TypeOK, L1TypeOK, Heights
  <2>3. Canonical(PinnedHash(l2Output.fork))
    <3>1. l2Output.fork \in PinnedForks
      BY DEF PinnedForks
    <3>2. l2Output.fork \in Nat
      BY <3>1, PinnedForksTyped, ChainAssumption
    <3>3. Seen(PinnedHash(l2Output.fork))
      BY <3>1 DEF PinInv, PinnedHash
    <3>4. l2Output.fork <= chain[h].fork /\ chain[h].fork <= chain[head].fork
          /\ chain[head].fork <= 0
      BY <2>1, <2>2, <3>3 DEF Seen, PinnedHash, PinInv, ForksGrow
    <3>5. chain[h].fork = l2Output.fork
      BY <2>2, <3>2, <3>4
    <3> QED
      BY <2>2, <3>5 DEF Canonical, PinnedHash, HashAt
  <2>4. HasOutput(chain[h], outputIndex) /\ l2Output.output = OutputAt(chain[h], outputIndex)
    BY <2>3 DEF OutputInv
  <2>5. PICK n \in Heights : /\ n <= head
                             /\ HasOutput(chain[n], outputIndex)
                             /\ OutputAt(chain[n], outputIndex) = newest
    BY <2>1 DEF NewestInv
  <2>6. /\ outputIndex \in Nat
        /\ chain[h].outputs \in Seq(Outputs) /\ chain[n].outputs \in Seq(Outputs)
    BY <2>2, OutputListsAreSeqs, ChainAssumption DEF TypeOK, L1TypeOK, OutputTypeOK, Block
  <2>7. /\ outputIndex + 1 \in 1..Len(chain[h].outputs)
        /\ outputIndex + 1 \in 1..Len(chain[n].outputs)
    BY <2>4, <2>5, <2>6 DEF HasOutput
  <2>8. chain[h].outputs[outputIndex + 1] = chain[n].outputs[outputIndex + 1]
    <3>1. h <= n \/ n <= h
      BY <2>2
    <3> QED
      BY <2>2, <2>5, <2>7, <3>1 DEF NewestInv, ListsGrow
  <2> QED
    BY <2>4, <2>5, <2>8 DEF OutputAt
<1> QED
  BY <1>1, <1>2, <1>3, TypeCorrect, PTL DEF Spec

=============================================================================
