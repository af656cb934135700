-------------------------- MODULE EpochWaitProofs --------------------------
(***************************************************************************)
(* GetL1Origin, for every budget, chain height and oracle behaviour: its   *)
(* types, its budget of polls and its period; and, on a chain that neither *)
(* reorganises nor is read from an endpoint that lags, that the block it   *)
(* waited for is a later one, and that no epoch is lost to a timeout.      *)
(***************************************************************************)
EXTENDS EpochWait, L1OriginProofs

\* The steps of the component, to reason about one at a time.
LEMMA StepCases ==
  ASSUME [Next]_vars
  PROVE  \/ ReadOriginHash /\ UNCHANGED l1vars
         \/ ReadFirstHash /\ UNCHANGED l1vars
         \/ TickerPanics /\ UNCHANGED l1vars
         \/ NewEpoch /\ UNCHANGED l1vars
         \/ KeepPolling /\ UNCHANGED l1vars
         \/ GiveUp /\ UNCHANGED l1vars
         \/ FetchHeader /\ UNCHANGED l1vars
         \/ Tick /\ UNCHANGED l1vars
         \/ StartPoll /\ UNCHANGED l1vars
         \/ OriginStops /\ UNCHANGED l1vars
         \/ OriginErrors /\ UNCHANGED l1vars
         \/ Interrupt /\ UNCHANGED originVars /\ UNCHANGED l1vars
         \/ [L1Next]_l1vars /\ UNCHANGED sessionVars /\ UNCHANGED originVars
  BY DEF Next, OriginNext, OriginAnswers, vars

\* Every step moves the chain as the chain allows, or leaves it alone.
LEMMA ChainSteps ==
  ASSUME [Next]_vars
  PROVE  [L1Next]_l1vars
  BY StepCases

-----------------------------------------------------------------------------

SessionStates ==
  /\ SessionTypeOK
  /\ OriginTypeOK
  /\ pc \in OriginLabels \cup Ended \cup {"header"}

LEMMA SessionInitial == Init => SessionStates /\ PollInv
<1> SUFFICES ASSUME Init PROVE SessionStates /\ PollInv
  OBVIOUS
<1> USE DEF Init, SessionInit, OriginInit
<1>1. SessionTypeOK /\ pc \in OriginLabels
  BY DEF SessionTypeOK, OriginLabels, OriginCalls, Errors
<1>2. OriginTypeOK
  <2>1. 0 \in 0..(EpochPollingTries + 1)
    BY OriginAssumption
  <2> QED
    BY <2>1 DEF OriginTypeOK
<1>3. PollInv
  BY DEF PollInv
<1> QED
  BY <1>1, <1>2, <1>3 DEF SessionStates

\* Each step keeps the types and the budget.
LEMMA SessionStep ==
  ASSUME L1TypeOK, SessionStates, PollInv, [Next]_vars
  PROVE  SessionStates' /\ PollInv'
<1>1. CASE OriginNext /\ UNCHANGED l1vars
  BY <1>1, OriginStepTyped DEF SessionStates, L1TypeOK
<1>2. CASE Interrupt /\ UNCHANGED originVars
  BY <1>2
  DEF Interrupt, SessionStates, SessionTypeOK, OriginTypeOK, PollInv, originVars
<1>3. CASE UNCHANGED sessionVars /\ UNCHANGED originVars
  BY <1>3
  DEF SessionStates, SessionTypeOK, OriginTypeOK, PollInv, originVars, sessionVars
<1> QED
  BY <1>1, <1>2, <1>3 DEF Next, vars

\* The program and the chain keep their types, whatever the chain does.
THEOREM TypeCorrect == Spec => [](TypeOK /\ PollInv)
<1>1. Init => TypeOK /\ PollInv
  BY L1InitTyped, SessionInitial DEF Init, TypeOK, SessionStates
<1>2. TypeOK /\ PollInv /\ [Next]_vars => TypeOK' /\ PollInv'
  BY ChainSteps, L1StepTyped, SessionStep DEF TypeOK, SessionStates
<1> QED
  BY <1>1, <1>2, PTL DEF Spec

\* The loop of GetL1Origin never polls more than EpochPollingTries + 1 times
\* and reports a timeout only after that many.
THEOREM BudgetHolds == Spec => []PollBudget
<1>1. TypeOK /\ PollInv => PollBudget
  BY OriginAssumption DEF TypeOK, PollInv, PollBudget, OriginTypeOK
<1> QED
  BY <1>1, TypeCorrect, PTL

-----------------------------------------------------------------------------

\* A number below the modulus is its own remainder.
LEMMA SmallRemainder ==
  ASSUME NEW p \in Nat, NEW d \in Nat \ {0}, p < d
  PROVE  p % d = p
  OBVIOUS

\* A frequency whose product fits a Duration gives a period of that many
\* seconds.
LEMMA PeriodExact ==
  ASSUME NEW s \in Nat, 2 * s * Second < DurationSpan
  PROVE  Period(s) = s * Second
<1> DEFINE p == s * Second
<1>1. p \in Nat /\ 2 * p < DurationSpan
  BY OriginAssumption
<1>2. p % DurationSpan = p
  <2> HIDE DEF p
  <2> QED
    BY <1>1, SmallRemainder, OriginAssumption
<1> QED
  BY <1>1, <1>2 DEF Period

TickerInv ==
  /\ pc = "panicked" => Period(freq) <= 0
  /\ pc \in {"wait", "poll"} => Period(freq) > 0

\* A frequency whose product fits a Duration panics only if it is 0, and a wait
\* has a frequency that is not: for every width of a Duration.
THEOREM PanicsAreOutOfRange == Spec => []PanicsOutOfRange
<1>1. Init => TickerInv
  BY DEF Init, SessionInit, TickerInv
<1>2. TypeOK /\ TickerInv /\ [Next]_vars => TickerInv'
  <2> SUFFICES ASSUME TickerInv, [Next]_vars PROVE TickerInv'
    OBVIOUS
  <2>1. freq' = freq
    BY StepCases
    DEF ReadOriginHash, ReadFirstHash, TickerPanics, NewEpoch, KeepPolling, GiveUp,
        FetchHeader, Tick, StartPoll, OriginStops, StopWaiting, OriginErrors,
        originVars, params
  <2>2. Period(freq)' = Period(freq)
    BY <2>1 DEF Period
  <2>3. \/ ReadFirstHash /\ Period(freq) > 0
        \/ TickerPanics /\ Period(freq) <= 0
        \/ pc' \in {"wait", "poll"} /\ pc \in {"wait", "poll"}
        \/ pc' \notin {"wait", "poll", "panicked"}
        \/ pc' = pc
    BY StepCases
    DEF ReadOriginHash, ReadFirstHash, TickerPanics, NewEpoch, KeepPolling, GiveUp,
        FetchHeader, Tick, StartPoll, OriginStops, StopWaiting, OriginErrors,
        CtxFails, RpcFails, Fails, Answered, Moves, Interrupt, sessionVars
  <2>4. CASE ReadFirstHash /\ Period(freq) > 0
    BY <2>2, <2>4 DEF ReadFirstHash, Answered, Moves, TickerInv
  <2>5. CASE TickerPanics /\ Period(freq) <= 0
    BY <2>2, <2>5 DEF TickerPanics, Answered, Moves, TickerInv
  <2>6. CASE \/ pc' \in {"wait", "poll"} /\ pc \in {"wait", "poll"}
             \/ pc' \notin {"wait", "poll", "panicked"}
             \/ pc' = pc
    BY <2>2, <2>6 DEF TickerInv
  <2> QED
    BY <2>3, <2>4, <2>5, <2>6
<1>3. TypeOK /\ TickerInv => PanicsOutOfRange
  <2> SUFFICES ASSUME TypeOK, TickerInv PROVE PanicsOutOfRange
    OBVIOUS
  <2>1. freq \in Nat
    BY OriginAssumption DEF TypeOK, OriginTypeOK
  <2>2. ASSUME pc = "panicked", 2 * freq * Second < DurationSpan PROVE freq = 0
    <3>1. freq * Second <= 0
      BY <2>1, <2>2, PeriodExact DEF TickerInv
    <3> QED
      BY <2>1, <3>1, OriginAssumption
  <2>3. ASSUME pc \in {"wait", "poll"} PROVE freq # 0
    <3>1. Period(0) = 0 * Second
      BY PeriodExact, OriginAssumption
    <3>2. 0 * Second = 0
      BY OriginAssumption
    <3> QED
      BY <2>3, <3>1, <3>2 DEF TickerInv
  <2> QED
    BY <2>2, <2>3 DEF PanicsOutOfRange
<1> QED
  BY <1>1, <1>2, <1>3, TypeCorrect, PTL DEF Spec

-----------------------------------------------------------------------------

(***************************************************************************)
(* Why the block that was waited for is newer: the oracle only moves up,   *)
(* so an answer that differs from the first one has a greater number.      *)
(***************************************************************************)
WaitInv ==
  /\ OriginBelowHead
  /\ firstHash # Nil => firstHash.num <= origin.num
  /\ (waitForNewEpoch /\ pc = "fetch") => newHash.num > firstHash.num
  /\ WaitedHeaderIsNewer

LEMMA WaitStep ==
  ASSUME MaxReorgs = 0, ~LaggingOracle, TypeOK, PollInv, WaitInv, [Next]_vars
  PROVE  WaitInv'
<1> USE DEF WaitInv, WaitedHeaderIsNewer, originVars, params
<1>0. /\ origin \in Hash
      /\ firstHash \in Hash \cup {Nil}
      /\ Nil \notin Hash
  BY OriginAssumption DEF TypeOK, L1TypeOK, OriginTypeOK
<1>1. OriginBelowHead' /\ origin.num <= origin'.num
  BY ChainSteps, OriginStep DEF TypeOK
<1>a. origin' \in Hash
  BY ChainSteps, L1StepTyped DEF TypeOK, L1TypeOK
<1>2. \A h \in Hash : h.num \in Nat /\ h.fork = 0
  BY ChainAssumption DEF Hash, Heights
<1>3. \A h \in Hash : h # origin /\ h.num <= origin.num => h.num < origin.num
  BY <1>0, <1>2, ChainAssumption DEF Hash, Heights
<1>4. CASE ReadOriginHash /\ UNCHANGED l1vars
  BY <1>1, <1>4 DEF ReadOriginHash, Answered, Moves, l1vars, PollInv
<1>5. CASE (ReadFirstHash \/ TickerPanics) /\ UNCHANGED l1vars
  BY <1>0, <1>1, <1>2, <1>5
  DEF ReadFirstHash, TickerPanics, Answered, Moves, l1vars, PollInv
<1>6. CASE NewEpoch /\ UNCHANGED l1vars
  <2>1. firstHash \in Hash /\ firstHash.num < origin.num
    BY <1>0, <1>3, <1>6 DEF NewEpoch, Answered, Moves, PollInv
  <2> QED
    BY <1>1, <1>6, <2>1 DEF NewEpoch, Answered, Moves, l1vars
<1>7. CASE FetchHeader /\ UNCHANGED l1vars
  BY <1>1, <1>7 DEF FetchHeader, Answered, Moves, l1vars
<1>8. CASE (KeepPolling \/ GiveUp \/ OriginStops \/ OriginErrors) /\ UNCHANGED l1vars
  BY <1>1, <1>8
  DEF KeepPolling, GiveUp, OriginStops, StopWaiting, OriginErrors, CtxFails,
      RpcFails, Fails, Answered, Moves, l1vars
<1>9. CASE (Tick \/ StartPoll \/ (Interrupt /\ UNCHANGED originVars)) /\ UNCHANGED l1vars
  BY <1>1, <1>9 DEF Tick, StartPoll, Moves, Interrupt, sessionVars, l1vars
<1>10. CASE UNCHANGED sessionVars /\ UNCHANGED originVars
  BY <1>0, <1>1, <1>2, <1>10, <1>a DEF sessionVars
<1> QED
  BY <1>4, <1>5, <1>6, <1>7, <1>8, <1>9, <1>10, StepCases

LEMMA WaitInvariant ==
  ASSUME MaxReorgs = 0, ~LaggingOracle
  PROVE  Spec => []WaitInv
<1>1. Init => WaitInv
  BY L1InitSteady
  DEF Init, OriginInit, SessionInit, WaitInv, WaitedHeaderIsNewer
<1>2. TypeOK /\ PollInv /\ WaitInv /\ [Next]_vars => WaitInv'
  BY WaitStep
<1> QED
  BY <1>1, <1>2, TypeCorrect, PTL DEF Spec

\* With no reorganisation and an endpoint that does not go back, a session
\* that waited builds its proof on a block later than the one it began with.
THEOREM WaitIsForNewer ==
  ASSUME MaxReorgs = 0, ~LaggingOracle
  PROVE  Spec => []WaitedHeaderIsNewer
<1>1. WaitInv => WaitedHeaderIsNewer
  BY DEF WaitInv
<1> QED
  BY <1>1, WaitInvariant, PTL

(***************************************************************************)
(* Why an epoch that began is not lost: the oracle has passed the first    *)
(* hash for good, and only an answer that names it ends in a timeout.      *)
(***************************************************************************)
Passed ==
  /\ pc # "origin"
  /\ firstHash # Nil
  /\ firstHash.num < origin.num
  /\ err # "timeout"

LEMMA PassedStep ==
  ASSUME MaxReorgs = 0, ~LaggingOracle, TypeOK, PollInv, WaitInv, Passed, [Next]_vars
  PROVE  Passed'
<1> USE DEF Passed
<1>0. origin \in Hash /\ firstHash \in Hash
  BY DEF TypeOK, L1TypeOK, OriginTypeOK
<1>1. \A h \in Hash : h.num \in Nat
  BY ChainAssumption DEF Hash, Heights
<1>2. origin.num <= origin'.num /\ origin' \in Hash
  BY ChainSteps, OriginStep, L1StepTyped DEF TypeOK, L1TypeOK, WaitInv
<1>3. firstHash' = firstHash /\ pc' # "origin"
  BY StepCases
  DEF ReadOriginHash, ReadFirstHash, TickerPanics, NewEpoch, KeepPolling, GiveUp,
      FetchHeader, Tick, StartPoll, OriginStops, StopWaiting, OriginErrors, CtxFails,
      RpcFails, Fails, Answered, Moves, Interrupt, sessionVars, originVars
<1>4. firstHash.num < origin'.num
  BY <1>0, <1>1, <1>2
<1>5. ~GiveUp
  BY <1>0, <1>1 DEF GiveUp
<1>6. err' # "timeout"
  BY <1>5, StepCases
  DEF ReadOriginHash, ReadFirstHash, TickerPanics, NewEpoch, KeepPolling, FetchHeader,
      Tick, StartPoll, OriginStops, StopWaiting, OriginErrors, CtxFails, RpcFails, Fails,
      Answered, Moves, Interrupt, sessionVars
<1> QED
  BY <1>3, <1>4, <1>6

\* Once an epoch has begun during the wait, GetL1Origin never times out: for
\* every budget, also when the oracle moves after the tick of the last poll.
\* This is the safe half of NewEpochIsTaken.
THEOREM EpochIsNotLost ==
  ASSUME MaxReorgs = 0, ~LaggingOracle
  PROVE  Spec => [](EpochBegan => [](err # "timeout"))
<1>1. TypeOK /\ PollInv /\ WaitInv /\ EpochBegan => Passed
  <2> SUFFICES ASSUME TypeOK, PollInv, WaitInv, EpochBegan PROVE Passed
    OBVIOUS
  <2>1. pc \in {"wait", "poll"} /\ firstHash # Nil /\ err # "timeout"
    BY DEF EpochBegan, PollInv, TypeOK, SessionTypeOK
  <2>2. origin \in Hash /\ firstHash \in Hash /\ firstHash.num <= origin.num
    BY <2>1 DEF TypeOK, L1TypeOK, OriginTypeOK, WaitInv
  <2>3. firstHash.num # origin.num
    BY <2>2, ChainAssumption DEF Hash, EpochBegan
  <2>4. firstHash.num \in Nat /\ origin.num \in Nat
    BY <2>2, ChainAssumption DEF Hash, Heights
  <2> QED
    BY <2>1, <2>2, <2>3, <2>4 DEF Passed
<1>2. TypeOK /\ PollInv /\ WaitInv /\ Passed /\ [Next]_vars => Passed'
  BY PassedStep
<1>3. Passed => err # "timeout"
  BY DEF Passed
<1>4. Spec => []WaitInv
  BY WaitInvariant
<1> QED
  BY <1>1, <1>2, <1>3, <1>4, TypeCorrect, PTL DEF Spec

=============================================================================
