-------------------------- MODULE GameSearchProofs --------------------------
(***************************************************************************)
(* FindLatestResolved, for every number of games and every chain: its      *)
(* types; and, without reorganisations and without calls that fail for a   *)
(* reason of their own, that it finds the latest resolved game although    *)
(* the games are looked at one by one while they change.                   *)
(***************************************************************************)
EXTENDS GameSearch, L1ChainProofs

\* The steps of the search, to reason about one at a time.
LEMMA StepCases ==
  ASSUME [Next]_vars
  PROVE  \/ ReadGameCount /\ UNCHANGED l1vars
         \/ NoGames /\ UNCHANGED l1vars
         \/ ReadGameAtIndex /\ UNCHANGED l1vars
         \/ ReadStatus /\ UNCHANGED l1vars
         \/ NotFinal /\ UNCHANGED l1vars
         \/ SkipStatusError /\ UNCHANGED l1vars
         \/ SkipEmptyAnswer /\ UNCHANGED l1vars
         \/ ScanStops /\ UNCHANGED l1vars
         \/ ScanErrors /\ UNCHANGED l1vars
         \/ Interrupt /\ UNCHANGED scanVars /\ UNCHANGED l1vars
         \/ [L1Next]_l1vars /\ UNCHANGED sessionVars /\ UNCHANGED scanVars
  BY DEF Next, ScanNext, ScanAnswers, ScanSkips, vars

\* Every step moves the chain as the chain allows, or leaves it alone.
LEMMA ChainSteps ==
  ASSUME [Next]_vars
  PROVE  [L1Next]_l1vars
  BY StepCases

-----------------------------------------------------------------------------

\* The loop's index is that of a game while the loop runs.
Indexed == pc \in {"gameAtIndex", "status"} => i \in GameIndex

SessionStates ==
  /\ SessionTypeOK
  /\ ScanTypeOK
  /\ pc \in ScanLabels \cup Ended \cup {"origin"}
  /\ Indexed

LEMMA SessionStep ==
  ASSUME L1TypeOK, SessionStates, [Next]_vars
  PROVE  SessionStates'
<1> USE ChainAssumption
    DEF SessionStates, Indexed, SessionTypeOK, ScanTypeOK, ScanLabels, Errors,
        Ended, scanVars, sessionVars
<1>1. CASE ReadGameCount
  <2>1. /\ Latest.count - 1 \in GameIndex
        /\ head \in 0..MaxHeight
    BY <1>1 DEF L1TypeOK, Latest, Heights, Block, GameIndex, ReadGameCount
  <2> QED
    BY <1>1, <2>1 DEF ReadGameCount, Answered, Moves, GameIndex
<1>2. CASE NoGames
  BY <1>2 DEF NoGames, Fails, L1TypeOK, Heights
<1>3. CASE ReadGameAtIndex
  BY <1>3 DEF ReadGameAtIndex, Answered, Moves
<1>4. CASE ReadStatus
  BY <1>4 DEF ReadStatus, Answered, Moves
<1>5. CASE NextGame /\ pc \in {"gameAtIndex", "status"} /\ UNCHANGED <<found, since>>
  BY <1>5 DEF NextGame, Fails, GameIndex
<1>6. CASE ScanStops \/ ScanErrors
  BY <1>6 DEF ScanStops, ScanErrors, CtxFails, RpcFails, Fails
<1>7. CASE Interrupt /\ UNCHANGED scanVars
  BY <1>7 DEF Interrupt
<1>8. CASE UNCHANGED sessionVars /\ UNCHANGED scanVars
  BY <1>8
<1> QED
  BY <1>1, <1>2, <1>3, <1>4, <1>5, <1>6, <1>7, <1>8, StepCases
  DEF NotFinal, SkipStatusError, SkipEmptyAnswer

\* The program and the chain keep their types, whatever the chain does.
THEOREM TypeCorrect == Spec => [](TypeOK /\ Indexed)
<1>1. Init => TypeOK /\ Indexed
  <2> SUFFICES ASSUME Init PROVE TypeOK /\ Indexed
    OBVIOUS
  <2> USE DEF Init, SessionInit, ScanInit
  <2>1. SessionTypeOK /\ pc \in ScanLabels
    BY DEF SessionTypeOK, ScanLabels, Errors
  <2>2. 0 \in 0..MaxGames /\ 0 \in 0..MaxHeight
    BY ChainAssumption
  <2> QED
    BY L1InitTyped, <2>1, <2>2 DEF TypeOK, Indexed, ScanTypeOK
<1>2. TypeOK /\ Indexed /\ [Next]_vars => TypeOK' /\ Indexed'
  BY ChainSteps, L1StepTyped, SessionStep DEF TypeOK, SessionStates
<1> QED
  BY <1>1, <1>2, PTL DEF Spec

-----------------------------------------------------------------------------

(***************************************************************************)
(* Why the search can be trusted although the chain moves under it: every  *)
(* game above the index was looked at, in a block not before the one the   *)
(* search began in, and was not won there; and what is not won in a block  *)
(* was not won in any block before it.                                     *)
(***************************************************************************)
NoneWonAbove(k) == \A g \in GameIndex : g > k => ~Won(since, g)

SearchInv ==
  /\ Lasting
  /\ Unborn
  /\ since <= head
  /\ pc = "gameCount" => since = 0
  /\ pc \in {"gameAtIndex", "status", "origin"} => since > 0
  /\ pc \in {"gameAtIndex", "status"} => cancelled \/ NoneWonAbove(i)
  /\ pc \in ScanLabels \cup {"failed"} => found = NoGame
  /\ pc = "origin" => found # NoGame
  /\ found # NoGame => since > 0
  /\ err = "nogame" => since > 0
  /\ FoundIsResolved
  /\ FoundIsLatest
  /\ NoneMeansNone

\* A game that is not won now was not won when the search began.
LEMMA NotWonNow ==
  ASSUME L1TypeOK, Lasting, since \in Heights, since <= head,
         NEW g \in GameIndex, Status(Latest.games[g]) # FinalStatus
  PROVE  ~Won(since, g)
<1>1. head \in Heights
  BY DEF L1TypeOK
<1> SUFFICES ASSUME Won(since, g) PROVE FALSE
  OBVIOUS
<1>2. Latest.games[g] = "defenderWins"
  BY <1>1, ChainAssumption DEF Won, Lasting, Latest, Resolved, Heights
<1> QED
  BY <1>2 DEF Status, FinalStatus

\* A game whose status is final is there, and won.
LEMMA WonNow ==
  ASSUME L1TypeOK, Unborn, NEW g \in GameIndex, Status(Latest.games[g]) = FinalStatus
  PROVE  Won(head, g)
<1>1. head \in Heights /\ head <= head
  BY ChainAssumption DEF L1TypeOK, Heights
<1>2. Latest.games[g] = "defenderWins"
  BY DEF Status, FinalStatus
<1> QED
  BY <1>1, <1>2 DEF Won, Unborn, UnbornIsOpen, Latest

\* What the chain does while the search is at rest takes nothing back.
LEMMA ChainKeepsSearch ==
  ASSUME MaxReorgs = 0, TypeOK, SearchInv, [L1Next]_l1vars
  PROVE  /\ Lasting'
         /\ Unborn'
         /\ head <= head' /\ head \in Heights /\ head' \in Heights
         /\ \A g \in GameIndex : Won(head, g) => Won(head, g)'
         /\ \A n \in 1..head : chain'[n] = chain[n]
<1>1. L1TypeOK /\ L1TypeOK' /\ forks' = 0
  BY L1StepTyped DEF TypeOK, L1TypeOK
<1>2. Lasting' /\ Unborn'
  BY <1>1, LastingStep, UnbornStep DEF SearchInv
<1>3. /\ head <= head'
      /\ head \in Heights /\ head' \in Heights
      /\ \A n \in Heights : n <= head => chain'[n] = chain[n]
  BY <1>1, L1StepExtends DEF L1TypeOK
<1>4. \A n \in 1..head : chain'[n] = chain[n]
  BY <1>3, ChainAssumption DEF Heights
<1>5. ASSUME NEW g \in GameIndex, Won(head, g)
      PROVE  Won(head, g)'
  <2>1. Exists(chain'[head], g) /\ chain'[head].games[g] = "defenderWins"
    BY <1>3, <1>5, ChainAssumption DEF Won, Heights
  <2>2. head' <= head'
    BY <1>3, ChainAssumption DEF Heights
  <2> QED
    BY <1>2, <1>3, <2>1, <2>2 DEF Won, Lasting, Resolved, Exists
<1> QED
  BY <1>2, <1>3, <1>4, <1>5

LEMMA SearchStepChain ==
  ASSUME MaxReorgs = 0, TypeOK, SearchInv, [L1Next]_l1vars,
         UNCHANGED sessionVars, UNCHANGED scanVars
  PROVE  SearchInv'
<1> USE DEF sessionVars, scanVars
<1>1. /\ Lasting' /\ Unborn'
      /\ head <= head' /\ head \in Heights /\ head' \in Heights
      /\ \A g \in GameIndex : Won(head, g) => Won(head, g)'
      /\ \A n \in 1..head : chain'[n] = chain[n]
  BY ChainKeepsSearch
<1>2. since \in 0..MaxHeight
  BY DEF TypeOK, ScanTypeOK
<1>3. since > 0 => chain'[since] = chain[since]
  BY <1>1, <1>2, ChainAssumption DEF SearchInv, Heights
<1>4. since > 0 => \A g \in GameIndex : Won(since, g)' = Won(since, g)
  BY <1>3 DEF Won, Exists
<1>5. since <= head'
  BY <1>1, <1>2, ChainAssumption DEF SearchInv, Heights
<1>6. found \in GameIndex \cup {NoGame}
  BY DEF TypeOK, ScanTypeOK
<1>7. FoundIsResolved'
  BY <1>1, <1>6 DEF SearchInv, FoundIsResolved
<1>8. found # NoGame => since > 0
  BY DEF SearchInv
<1>9. FoundIsLatest'
  BY <1>4, <1>8 DEF SearchInv, FoundIsLatest
<1>10. NoneMeansNone'
  BY <1>4 DEF SearchInv, NoneMeansNone
<1>11. pc \in {"gameAtIndex", "status"} => cancelled \/ NoneWonAbove(i)'
  BY <1>4 DEF SearchInv, NoneWonAbove
<1> QED
  BY <1>1, <1>5, <1>7, <1>9, <1>10, <1>11 DEF SearchInv, NoneWonAbove

\* The program's steps leave the chain alone: what is won in a block stays so.
LEMMA ScanKeepsChain ==
  ASSUME TypeOK, SearchInv, UNCHANGED l1vars
  PROVE  /\ Lasting' /\ Unborn'
         /\ head' = head
         /\ since' = since => \A g \in GameIndex : Won(since, g)' = Won(since, g)
         /\ \A g \in GameIndex : Won(head, g)' = Won(head, g)
  BY DEF SearchInv, l1vars, Lasting, Unborn, UnbornIsOpen, Won, Exists

LEMMA SearchStepCount ==
  ASSUME TypeOK, SearchInv, UNCHANGED l1vars, ReadGameCount \/ NoGames
  PROVE  SearchInv'
<1>1. /\ Lasting' /\ Unborn' /\ head' = head
  BY ScanKeepsChain
<1>2. pc = "gameCount" /\ since' = head /\ found' = found /\ found = NoGame
  BY DEF ReadGameCount, NoGames, Answered, Moves, SearchInv, ScanLabels
<1>3. head \in Heights /\ head > 0 /\ head <= head
  BY ChainAssumption DEF TypeOK, L1TypeOK, Heights
<1>4. CASE ReadGameCount
  <2>1. i' = Latest.count - 1 /\ pc' = "gameAtIndex" /\ err' = err
    BY <1>4 DEF ReadGameCount, Answered, Moves
  <2>2. Latest.count \in Nat
    BY <1>3, ChainAssumption DEF TypeOK, L1TypeOK, Latest, Block
  <2>3. NoneWonAbove(i)'
    BY <1>1, <1>2, <2>1, <2>2, ChainAssumption
    DEF NoneWonAbove, Won, Exists, Latest, GameIndex, l1vars
  <2>4. err # "nogame"
    BY <1>2 DEF TypeOK, SessionTypeOK
  <2> QED
    BY <1>1, <1>2, <1>3, <2>1, <2>3, <2>4
    DEF SearchInv, ScanLabels, FoundIsResolved, FoundIsLatest, NoneMeansNone
<1>5. CASE NoGames
  <2>1. pc' = "failed" /\ err' = "count"
    BY <1>5 DEF NoGames, Fails
  <2> QED
    BY <1>1, <1>2, <1>3, <2>1
    DEF SearchInv, ScanLabels, FoundIsResolved, FoundIsLatest, NoneMeansNone
<1> QED
  BY <1>4, <1>5

LEMMA SearchStepFound ==
  ASSUME TypeOK, SearchInv, Indexed, UNCHANGED l1vars, ReadStatus
  PROVE  SearchInv'
<1> USE DEF ReadStatus, Answered, Moves
<1>1. /\ Lasting' /\ Unborn' /\ head' = head
      /\ \A g \in GameIndex : Won(since, g)' = Won(since, g)
      /\ \A g \in GameIndex : Won(head, g)' = Won(head, g)
  BY ScanKeepsChain
<1>2. i \in GameIndex
  BY DEF Indexed
<1>3. Won(head, i)
  BY <1>2, WonNow DEF TypeOK, SearchInv
<1>4. NoneWonAbove(i) /\ since > 0
  BY DEF SearchInv
<1>5. FoundIsResolved'
  BY <1>1, <1>2, <1>3 DEF FoundIsResolved
<1>6. FoundIsLatest'
  BY <1>1, <1>4 DEF FoundIsLatest, NoneWonAbove
<1>7. err # "nogame"
  BY DEF TypeOK, SessionTypeOK
<1>8. found' # NoGame
  BY <1>2, ScanAssumption
<1> QED
  BY <1>1, <1>4, <1>5, <1>6, <1>7, <1>8 DEF SearchInv, NoneMeansNone, ScanLabels

LEMMA SearchStepPassed ==
  ASSUME TypeOK, SearchInv, Indexed, ~FlakyNode, UNCHANGED l1vars,
         NotFinal \/ SkipStatusError
  PROVE  SearchInv'
<1>1. /\ pc = "status" /\ NextGame /\ UNCHANGED <<found, since>>
      /\ cancelled' = cancelled
  BY DEF NotFinal, SkipStatusError, NextGame, Fails
<1>2. /\ Lasting' /\ Unborn' /\ head' = head
      /\ \A g \in GameIndex : Won(since, g)' = Won(since, g)
      /\ \A g \in GameIndex : Won(head, g)' = Won(head, g)
  BY <1>1, ScanKeepsChain
<1>3. i \in GameIndex /\ found = NoGame /\ since > 0 /\ since \in Heights
  BY <1>1, ChainAssumption
  DEF Indexed, SearchInv, ScanLabels, TypeOK, ScanTypeOK, Heights
<1>4. cancelled \/ (NoneWonAbove(i) /\ ~Won(since, i))
  <2> SUFFICES ASSUME ~cancelled PROVE NoneWonAbove(i) /\ ~Won(since, i)
    OBVIOUS
  <2>1. Status(Latest.games[i]) # FinalStatus
    BY DEF NotFinal, SkipStatusError
  <2> QED
    BY <1>1, <1>3, <2>1, NotWonNow DEF SearchInv, TypeOK
<1>5. FoundIsResolved' /\ FoundIsLatest'
  BY <1>1, <1>3 DEF FoundIsResolved, FoundIsLatest
<1>6. CASE i > 0 /\ i' = i - 1 /\ pc' = "gameAtIndex" /\ UNCHANGED <<err, cancelled>>
  <2>1. cancelled \/ NoneWonAbove(i)'
    BY <1>2, <1>3, <1>4, <1>6 DEF NoneWonAbove, GameIndex
  <2>2. err # "nogame"
    BY <1>1 DEF TypeOK, SessionTypeOK
  <2> QED
    BY <1>1, <1>2, <1>3, <1>5, <1>6, <2>1, <2>2 DEF SearchInv, ScanLabels, NoneMeansNone
<1>7. CASE i = 0 /\ i' = i /\ Fails("nogame")
  <2>1. NoneMeansNone'
    BY <1>1, <1>2, <1>4, <1>7 DEF NoneMeansNone, NoneWonAbove, GameIndex
  <2> QED
    BY <1>1, <1>2, <1>3, <1>5, <1>7, <2>1 DEF SearchInv, ScanLabels, Fails
<1> QED
  BY <1>1, <1>6, <1>7 DEF NextGame

\* The steps that decide nothing: a game's address, an error, an interrupt.
LEMMA SearchStepOther ==
  ASSUME TypeOK, SearchInv, UNCHANGED l1vars,
         \/ ReadGameAtIndex
         \/ ScanStops
         \/ ScanErrors
         \/ Interrupt /\ UNCHANGED scanVars
  PROVE  SearchInv'
<1> USE DEF scanVars
<1>1. UNCHANGED scanVars
  BY DEF ReadGameAtIndex, ScanStops, ScanErrors
<1>2. /\ Lasting' /\ Unborn' /\ head' = head
      /\ \A g \in GameIndex : Won(since, g)' = Won(since, g)
      /\ \A g \in GameIndex : Won(head, g)' = Won(head, g)
  BY <1>1, ScanKeepsChain
<1>3. found \in GameIndex \cup {NoGame}
  BY DEF TypeOK, ScanTypeOK
<1>4. FoundIsResolved' /\ FoundIsLatest'
  BY <1>1, <1>2, <1>3 DEF SearchInv, FoundIsResolved, FoundIsLatest
<1>5. NoneWonAbove(i)' = NoneWonAbove(i)
  BY <1>1, <1>2 DEF NoneWonAbove
<1>6. CASE ReadGameAtIndex
  BY <1>1, <1>2, <1>4, <1>5, <1>6
  DEF SearchInv, NoneMeansNone, ReadGameAtIndex, Answered, Moves, ScanLabels
<1>7. CASE ScanStops \/ ScanErrors
  BY <1>1, <1>2, <1>4, <1>7
  DEF SearchInv, NoneMeansNone, ScanStops, ScanErrors, CtxFails, RpcFails, Fails,
      ScanLabels
<1>8. CASE Interrupt
  BY <1>1, <1>2, <1>4, <1>5, <1>8 DEF SearchInv, NoneMeansNone, Interrupt
<1> QED
  BY <1>6, <1>7, <1>8

LEMMA SearchStep ==
  ASSUME MaxReorgs = 0, ~FlakyNode, TypeOK, Indexed, SearchInv, [Next]_vars
  PROVE  SearchInv'
<1>1. ~SkipEmptyAnswer
  BY DEF SkipEmptyAnswer
<1> QED
  BY <1>1, StepCases, SearchStepChain, SearchStepCount, SearchStepFound,
     SearchStepPassed, SearchStepOther

\* The inductive invariant of the search.
THEOREM SearchCorrect ==
  ASSUME MaxReorgs = 0, ~FlakyNode
  PROVE  Spec => []SearchInv
<1>1. Init => SearchInv
  <2> SUFFICES ASSUME Init PROVE SearchInv
    OBVIOUS
  <2>1. Lasting /\ Unborn /\ head = 1
    BY L1InitSteady DEF Init, L1Init
  <2> QED
    BY <2>1
    DEF Init, SessionInit, ScanInit, SearchInv, ScanLabels, FoundIsResolved,
        FoundIsLatest, NoneMeansNone
<1>2. TypeOK /\ Indexed /\ SearchInv /\ [Next]_vars => SearchInv'
  BY SearchStep
<1> QED
  BY <1>1, <1>2, TypeCorrect, PTL DEF Spec

\* FindLatestResolved returns a game resolved for the defender, and for good.
THEOREM FoundResolved ==
  ASSUME MaxReorgs = 0, ~FlakyNode
  PROVE  Spec => []FoundIsResolved
<1>1. SearchInv => FoundIsResolved
  BY DEF SearchInv
<1> QED
  BY <1>1, SearchCorrect, PTL

\* No newer game was resolved for the defender when the search began.
THEOREM FoundLatest ==
  ASSUME MaxReorgs = 0, ~FlakyNode
  PROVE  Spec => []FoundIsLatest
<1>1. SearchInv => FoundIsLatest
  BY DEF SearchInv
<1> QED
  BY <1>1, SearchCorrect, PTL

\* An uninterrupted search that says there is none began when there was none.
THEOREM NoneMeant ==
  ASSUME MaxReorgs = 0, ~FlakyNode
  PROVE  Spec => []NoneMeansNone
<1>1. SearchInv => NoneMeansNone
  BY DEF SearchInv
<1> QED
  BY <1>1, SearchCorrect, PTL

-----------------------------------------------------------------------------

(***************************************************************************)
(* The loop implements the atomic search of ResolvedSearch: the step that  *)
(* counts the games begins it, the step that reads a final status or runs  *)
(* out of games ends it, and the visits in between change nothing it sees. *)
(***************************************************************************)
Before == IF since = 0 THEN {} ELSE WonGames(since)

SearchSame ==
  UNCHANGED <<WonGames(head), Before, Outcome, found>>

\* A step of the chain wins games; it takes none back, and cannot change what
\* was won when the search began.
LEMMA ChainWins ==
  ASSUME MaxReorgs = 0, TypeOK, SearchInv, [L1Next]_l1vars,
         UNCHANGED sessionVars, UNCHANGED scanVars
  PROVE  Search!Win
<1> USE DEF sessionVars, scanVars
<1>1. /\ \A g \in GameIndex : Won(head, g) => Won(head, g)'
      /\ \A n \in 1..head : chain'[n] = chain[n]
      /\ head \in Heights
  BY ChainKeepsSearch
<1>2. WonGames(head) \subseteq WonGames(head)'
  BY <1>1 DEF WonGames
<1>3. since # 0 => since \in 1..head
  BY <1>1, ChainAssumption DEF TypeOK, ScanTypeOK, SearchInv, Heights
<1>4. since # 0 => WonGames(since)' = WonGames(since)
  BY <1>1, <1>3 DEF WonGames, Won, Exists
<1>5. UNCHANGED <<Before, Outcome, found>>
  BY <1>4 DEF Before, Outcome
<1>6. WonGames(head)' \in SUBSET GameIndex
  BY DEF WonGames
<1> QED
  BY <1>2, <1>5, <1>6 DEF Search!Win, Before

LEMMA ScanSees ==
  ASSUME UNCHANGED l1vars
  PROVE  /\ WonGames(head)' = WonGames(head)
         /\ since' = since => Before' = Before
  BY DEF l1vars, WonGames, Won, Exists, Before

LEMMA CountBegins ==
  ASSUME TypeOK, SearchInv, UNCHANGED l1vars, ReadGameCount
  PROVE  Search!Begin
<1> USE DEF ReadGameCount, Answered, Moves
<1>1. head # 0 /\ since' = head /\ head' = head
  BY ChainAssumption DEF TypeOK, L1TypeOK, Heights, l1vars
<1>2. Before' = WonGames(head)
  BY <1>1, ScanSees DEF Before
<1>3. Outcome = "idle" /\ Outcome' = "searching"
  BY DEF Outcome
<1> QED
  BY <1>2, <1>3, ScanSees DEF Search!Begin, Before

LEMMA NoGamesGivesUp ==
  ASSUME TypeOK, SearchInv, UNCHANGED l1vars, NoGames
  PROVE  Search!GiveUp
<1> USE DEF NoGames, Fails
<1>1. head # 0 /\ since' = head /\ head' = head /\ Latest.count = 0
  BY ChainAssumption DEF TypeOK, L1TypeOK, Heights, l1vars
<1>2. WonGames(head) = {}
  BY <1>1 DEF WonGames, Won, Exists, Latest, GameIndex
<1>3. Before' = Before
  BY <1>1, <1>2, ScanSees DEF Before, SearchInv
<1>4. Outcome = "idle" /\ Outcome' = "error"
  BY DEF Outcome
<1> QED
  BY <1>3, <1>4, ScanSees DEF Search!GiveUp, Before

LEMMA StatusFinds ==
  ASSUME TypeOK, SearchInv, Indexed, UNCHANGED l1vars, ReadStatus
  PROVE  Search!Find
<1> USE DEF ReadStatus, Answered, Moves
<1>1. i \in GameIndex /\ since' = since
  BY DEF Indexed
<1>2. found' \in WonGames(head)
  BY <1>1, WonNow DEF TypeOK, SearchInv, WonGames
<1>3. \A g \in Before : g <= found'
  BY <1>1, ChainAssumption DEF Before, WonGames, SearchInv, NoneWonAbove, GameIndex
<1>4. Outcome = "searching" /\ Outcome' = "found"
  BY DEF Outcome
<1> QED
  BY <1>1, <1>2, <1>3, <1>4, ScanSees DEF Search!Find, Before

LEMMA PassedGoesOnOrEnds ==
  ASSUME TypeOK, SearchInv, Indexed, SearchInv', ~FlakyNode, UNCHANGED l1vars,
         NotFinal \/ SkipStatusError
  PROVE  SearchSame \/ Search!FindNone \/ Search!GiveUp
<1>1. /\ pc = "status" /\ NextGame /\ UNCHANGED <<found, since>>
      /\ cancelled' = cancelled
  BY DEF NotFinal, SkipStatusError, NextGame, Fails
<1>2. UNCHANGED <<WonGames(head), Before, found>>
  BY <1>1, ScanSees
<1>3. Outcome = "searching"
  BY <1>1 DEF Outcome
<1>4. CASE pc' = "gameAtIndex"
  BY <1>2, <1>3, <1>4 DEF SearchSame, Outcome
<1>5. CASE Fails("nogame") /\ cancelled
  BY <1>1, <1>2, <1>3, <1>5 DEF Search!GiveUp, Outcome, Fails, Before
<1>6. CASE Fails("nogame") /\ ~cancelled
  <2>1. Outcome' = "none"
    BY <1>1, <1>6 DEF Outcome, Fails
  <2>2. NoneMeansNone' /\ err' = "nogame" /\ ~cancelled'
    BY <1>1, <1>6 DEF SearchInv, Fails
  <2>3. Before' = {}
    BY <2>2 DEF Before, WonGames, NoneMeansNone
  <2> QED
    BY <1>2, <1>3, <2>1, <2>3 DEF Search!FindNone, Before
<1> QED
  BY <1>1, <1>4, <1>5, <1>6 DEF NextGame

LEMMA OtherStepsGiveUpOrStutter ==
  ASSUME TypeOK, UNCHANGED l1vars,
         \/ ReadGameAtIndex
         \/ ScanStops
         \/ ScanErrors
         \/ Interrupt /\ UNCHANGED scanVars
  PROVE  SearchSame \/ Search!GiveUp
<1> USE DEF scanVars
<1>1. UNCHANGED <<WonGames(head), Before, found>>
  BY ScanSees DEF ReadGameAtIndex, ScanStops, ScanErrors
<1>2. CASE ReadGameAtIndex
  BY <1>1, <1>2 DEF ReadGameAtIndex, Answered, Moves, SearchSame, Outcome
<1>3. CASE ScanStops \/ ScanErrors
  <2>1. Outcome \in {"idle", "searching"}
    BY <1>3 DEF ScanStops, ScanErrors, CtxFails, RpcFails, Outcome
  <2>2. Outcome' = "error"
    BY <1>3 DEF ScanStops, ScanErrors, CtxFails, RpcFails, Fails, Outcome
  <2> QED
    BY <1>1, <2>1, <2>2 DEF Search!GiveUp, Before
<1>4. CASE Interrupt
  BY <1>1, <1>4 DEF Interrupt, Ended, SearchSame, Outcome
<1> QED
  BY <1>2, <1>3, <1>4

\* The whole loop, between any moves of the chain, is one atomic search.
THEOREM SearchImplemented ==
  ASSUME MaxReorgs = 0, ~FlakyNode
  PROVE  Spec => ImplementsSearch
<1>1. Init => Search!Init
  BY DEF Init, SessionInit, ScanInit, Search!Init, WonGames, Outcome
<1>2. TypeOK /\ Indexed /\ SearchInv /\ SearchInv' /\ [Next]_vars
        => [Search!Next]_(Search!searchVars)
  <2> SUFFICES ASSUME TypeOK, Indexed, SearchInv, SearchInv', [Next]_vars
               PROVE  Search!Next \/ SearchSame
    BY DEF SearchSame, Before, Search!searchVars
  <2>1. ~SkipEmptyAnswer
    BY DEF SkipEmptyAnswer
  <2> QED
    BY <2>1, StepCases, ChainWins, CountBegins, NoGamesGivesUp, StatusFinds,
       PassedGoesOnOrEnds, OtherStepsGiveUpOrStutter
    DEF Search!Next
<1> QED
  BY <1>1, <1>2, TypeCorrect, SearchCorrect, PTL
  DEF Spec, ImplementsSearch, Search!Spec

=============================================================================
