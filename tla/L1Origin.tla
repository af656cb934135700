------------------------------ MODULE L1Origin ------------------------------
(***************************************************************************)
(* Prover.GetL1Origin (prover.go, copied in l1prover.go): which L1 block   *)
(* the proof is built against.  The session asks the destination L2's      *)
(* oracle for a block hash - with WaitForNewEpoch it polls on a ticker     *)
(* until the hash changes - and then fetches that block's header from L1.  *)
(*                                                                         *)
(* Entered at "origin", left at "header".                                   *)
(***************************************************************************)
EXTENDS L1Chain, Session

CONSTANTS
  EpochPollingTries,  \* --epoch-polling-tries
  Second,             \* time.Second
  DurationSpan,       \* how many values a time.Duration has
  Freqs,              \* the values of --epoch-polling-freq explored, in seconds
  Nil                 \* no hash, no game, no answer yet

ASSUME OriginAssumption ==
  /\ EpochPollingTries \in Nat
  /\ Second \in Nat \ {0}
  /\ DurationSpan \in Nat \ {0}
  /\ Freqs \subseteq Nat
  /\ Nil \notin Hash

VARIABLES
  waitForNewEpoch,  \* --wait-for-new-epoch
  freq,             \* --epoch-polling-freq
  firstHash,        \* l1OriginHash of the waiting branch
  newHash,          \* the hash passed to L1OriginProver.GetL1Origin
  polls,            \* i, the polls made
  tick,             \* a tick waits in t.C, which holds one and drops the rest
  header            \* the block whose header GetL1Origin returned

params     == <<waitForNewEpoch, freq>>
originVars == <<waitForNewEpoch, freq, firstHash, newHash, polls, tick, header>>

-----------------------------------------------------------------------------

OriginInit ==
  /\ waitForNewEpoch \in BOOLEAN
  /\ freq \in Freqs
  /\ firstHash = Nil
  /\ newHash = Nil
  /\ polls = 0
  /\ tick = FALSE
  /\ header = Nil

\* Not waiting: the oracle's present answer is taken.
ReadOriginHash ==
  /\ ~waitForNewEpoch
  /\ Answered("origin", "fetch")
  /\ newHash' = origin
  /\ UNCHANGED <<params, firstHash, polls, tick, header>>

\* Slip: the product is kept in a type of a quarter of the values.
PeriodNarrow(seconds) ==
  LET d == (seconds * Second) % (DurationSpan \div 4)
  IN  IF 2 * d < DurationSpan \div 4 THEN d ELSE d - DurationSpan \div 4

\* time.Duration(freq) * time.Second, in a signed type that wraps.
Period(seconds) ==
  LET d == (seconds * Second) % DurationSpan
  IN  IF 2 * d < DurationSpan THEN d ELSE d - DurationSpan

\* Waiting: remember the first answer and start the ticker.
ReadFirstHash ==
  /\ waitForNewEpoch
  /\ Period(freq) > 0
  /\ Answered("origin", "wait")
  /\ firstHash' = origin
  /\ UNCHANGED <<params, newHash, polls, tick, header>>

\* time.NewTicker panics when its period is not positive.
TickerPanics ==
  /\ waitForNewEpoch
  /\ Period(freq) <= 0
  /\ Answered("origin", "panicked")
  /\ firstHash' = origin
  /\ UNCHANGED <<params, newHash, polls, tick, header>>

\* The period elapses, also while a poll is under way.
Tick ==
  /\ pc \in {"wait", "poll"}
  /\ ~tick
  /\ tick' = TRUE
  /\ UNCHANGED <<sessionVars, params, firstHash, newHash, polls, header>>

\* Slip: the poll is not counted.
StartPollUncounted ==
  /\ tick
  /\ Moves("wait", "poll")
  /\ tick' = FALSE
  /\ UNCHANGED <<params, polls, firstHash, newHash, header>>

\* Slip: the budget is checked when the tick comes, before the oracle is asked.
StartPollSpent ==
  /\ tick
  /\ \/ polls < EpochPollingTries /\ Moves("wait", "poll")
     \/ pc = "wait" /\ polls >= EpochPollingTries /\ Fails("timeout")
  /\ tick' = FALSE
  /\ polls' = polls + 1
  /\ UNCHANGED <<params, firstHash, newHash, header>>

\* case <-t.C: select may choose it although the context is done too.
StartPoll ==
  /\ tick
  /\ Moves("wait", "poll")
  /\ tick' = FALSE
  /\ polls' = polls + 1
  /\ UNCHANGED <<params, firstHash, newHash, header>>

\* case <-ctx.Done()
StopWaiting ==
  /\ pc = "wait"
  /\ cancelled
  /\ Fails("cancelled")
  /\ UNCHANGED originVars

\* Slip: the new answer is not compared with the first.
NewEpochUncompared ==
  /\ Answered("poll", "fetch")
  /\ newHash' = origin
  /\ UNCHANGED <<params, firstHash, polls, tick, header>>

NewEpoch ==
  /\ origin # firstHash
  /\ Answered("poll", "fetch")
  /\ newHash' = origin
  /\ UNCHANGED <<params, firstHash, polls, tick, header>>

\* Slips: the budget is checked one poll too early, or too late.
OutOfTriesEarly == polls >= EpochPollingTries

OutOfTriesLate == polls > EpochPollingTries + 1

OutOfTries == polls > EpochPollingTries

KeepPolling ==
  /\ origin = firstHash
  /\ ~OutOfTries
  /\ Answered("poll", "wait")
  /\ UNCHANGED originVars

GiveUp ==
  /\ pc = "poll"
  /\ ~cancelled
  /\ origin = firstHash
  /\ OutOfTries
  /\ Fails("timeout")
  /\ UNCHANGED originVars

\* Slip: the oracle is asked once more.
FetchHeaderAgain ==
  /\ Answered("fetch", "header")
  /\ header' = origin
  /\ UNCHANGED <<params, firstHash, newHash, polls, tick>>

\* BlockByHash also answers for a block that is no longer canonical.
FetchHeader ==
  /\ Answered("fetch", "header")
  /\ header' = newHash
  /\ UNCHANGED <<params, firstHash, newHash, polls, tick>>

OriginCalls == {"origin", "poll", "fetch"}

OriginAnswers ==
  ReadOriginHash \/ ReadFirstHash \/ TickerPanics \/ NewEpoch \/ KeepPolling
    \/ GiveUp \/ FetchHeader

\* Slip: only the select watches the context, the calls do not.
OriginStopsInSelect == StopWaiting

OriginStops == StopWaiting \/ (CtxFails(OriginCalls) /\ UNCHANGED originVars)

OriginErrors == RpcFails(OriginCalls) /\ UNCHANGED originVars

OriginNext ==
  OriginAnswers \/ Tick \/ StartPoll \/ OriginStops \/ OriginErrors

-----------------------------------------------------------------------------

OriginLabels == OriginCalls \cup {"wait"}

\* The phase of PinnedRun a session is in: newHash is set once.
Phase ==
  IF pc = "done" THEN "delivered"
  ELSE IF pc \in Ended THEN "failed"
  ELSE IF newHash = Nil THEN "idle" ELSE "pinned"

OriginTypeOK ==
  /\ waitForNewEpoch \in BOOLEAN
  /\ freq \in Freqs
  /\ firstHash \in Hash \cup {Nil}
  /\ newHash \in Hash \cup {Nil}
  /\ polls \in 0..(EpochPollingTries + 1)
  /\ tick \in BOOLEAN
  /\ header \in Hash \cup {Nil}

=============================================================================
