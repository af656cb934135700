--------------------------- MODULE L1OriginProofs ---------------------------
(***************************************************************************)
(* What the steps of GetL1Origin preserve, in whatever session they are    *)
(* taken: their types, the budget of polls, and that every hash they keep  *)
(* was once of the chain.                                                  *)
(***************************************************************************)
EXTENDS L1Origin, L1ChainProofs

(***************************************************************************)
(* Why the budget holds: the loop waits again only while it is not spent,  *)
(* so a poll starts with at most EpochPollingTries behind it.              *)
(***************************************************************************)
PollInv ==
  /\ pc = "origin" => polls = 0 /\ header = Nil
  /\ pc = "wait" => polls <= EpochPollingTries
  /\ pc \in {"wait", "poll"} => firstHash # Nil
  /\ pc = "fetch" => newHash # Nil
  /\ pc = "header" => header # Nil
  /\ polls > 0 => firstHash # Nil
  /\ err = "timeout" => polls = EpochPollingTries + 1

\* Every step of GetL1Origin keeps its types and its budget.
LEMMA OriginStepTyped ==
  ASSUME origin \in Hash, SessionTypeOK, OriginTypeOK, PollInv, OriginNext
  PROVE  /\ SessionTypeOK' /\ OriginTypeOK' /\ PollInv'
         /\ pc' \in OriginLabels \cup Ended \cup {"header"}
<1> USE OriginAssumption
    DEF PollInv, SessionTypeOK, OriginTypeOK, OriginLabels, OriginCalls, Errors,
        Ended, params, originVars, sessionVars
<1>1. CASE ReadOriginHash
  BY <1>1 DEF ReadOriginHash, Answered, Moves
<1>2. CASE ReadFirstHash
  BY <1>2 DEF ReadFirstHash, Answered, Moves
<1>3. CASE TickerPanics
  BY <1>3 DEF TickerPanics, Answered, Moves
<1>4. CASE NewEpoch
  BY <1>4 DEF NewEpoch, Answered, Moves
<1>5. CASE KeepPolling
  BY <1>5 DEF KeepPolling, OutOfTries, Answered, Moves
<1>6. CASE GiveUp
  BY <1>6 DEF GiveUp, OutOfTries, Fails
<1>7. CASE FetchHeader
  BY <1>7 DEF FetchHeader, Answered, Moves
<1>8. CASE Tick
  BY <1>8 DEF Tick
<1>9. CASE StartPoll
  <2>1. polls + 1 \in 0..(EpochPollingTries + 1) /\ polls + 1 > 0
    BY <1>9 DEF StartPoll, Moves
  <2>2. firstHash # Nil
    BY <1>9 DEF StartPoll, Moves
  <2>3. OriginTypeOK'
    BY <1>9, <2>1 DEF StartPoll, Moves
  <2> QED
    BY <1>9, <2>1, <2>2, <2>3 DEF StartPoll, Moves
<1>10. CASE OriginStops
  BY <1>10 DEF OriginStops, StopWaiting, CtxFails, Fails
<1>11. CASE OriginErrors
  BY <1>11 DEF OriginErrors, RpcFails, Fails
<1> QED
  BY <1>1, <1>2, <1>3, <1>4, <1>5, <1>6, <1>7, <1>8, <1>9, <1>10, <1>11
  DEF OriginNext, OriginAnswers

\* GetL1Origin runs between its own labels, and leaves at one way out.
LEMMA OriginPlace ==
  ASSUME OriginNext
  PROVE  /\ pc \in OriginLabels
         /\ pc' \in OriginLabels \cup {"header", "failed", "panicked"}
  BY DEF OriginNext, OriginAnswers, ReadOriginHash, ReadFirstHash, TickerPanics,
         NewEpoch, KeepPolling, GiveUp, FetchHeader, Tick, StartPoll, OriginStops,
         StopWaiting, OriginErrors, CtxFails, RpcFails, Fails, Answered, Moves,
         OriginLabels, OriginCalls, sessionVars

(***************************************************************************)
(* A session takes one hash for good: GetL1Origin has none before it asks  *)
(* BlockByHash for it, and the header is of that hash.                     *)
(***************************************************************************)
HashInv ==
  /\ pc \in OriginLabels => header = Nil
  /\ pc \in {"origin", "wait", "poll"} => newHash = Nil
  /\ header # Nil => header = newHash

\* Every step of GetL1Origin takes the hash, or keeps it.
LEMMA OriginStepHash ==
  ASSUME PollInv, HashInv, OriginNext
  PROVE  /\ HashInv'
         /\ \/ newHash' = newHash
            \/ newHash = Nil /\ newHash' = origin /\ pc' = "fetch"
<1> USE DEF HashInv, OriginLabels, OriginCalls
<1>1. CASE ReadOriginHash
  BY <1>1 DEF ReadOriginHash, Answered, Moves
<1>2. CASE ReadFirstHash \/ TickerPanics
  BY <1>2 DEF ReadFirstHash, TickerPanics, Answered, Moves
<1>3. CASE NewEpoch
  BY <1>3 DEF NewEpoch, Answered, Moves
<1>4. CASE KeepPolling \/ GiveUp
  BY <1>4 DEF KeepPolling, GiveUp, Answered, Moves, Fails, originVars
<1>5. CASE FetchHeader
  BY <1>5 DEF FetchHeader, Answered, Moves
<1>6. CASE Tick \/ StartPoll
  BY <1>6 DEF Tick, StartPoll, Moves, sessionVars
<1>7. CASE OriginStops \/ OriginErrors
  BY <1>7 DEF OriginStops, StopWaiting, OriginErrors, CtxFails, RpcFails, Fails, originVars
<1> QED
  BY <1>1, <1>2, <1>3, <1>4, <1>5, <1>6, <1>7 DEF OriginNext, OriginAnswers

\* The hashes a session keeps were seen on the chain.
OriginSeen ==
  /\ Seen(origin)
  /\ newHash # Nil => Seen(newHash)
  /\ header # Nil => Seen(header)

LEMMA OriginStepSeen ==
  ASSUME PollInv, OriginSeen, OriginNext, UNCHANGED l1vars
  PROVE  OriginSeen'
<1>1. /\ newHash' = newHash \/ newHash' = origin
      /\ header' = header \/ (header' = newHash /\ newHash # Nil)
  BY DEF OriginNext, OriginAnswers, ReadOriginHash, ReadFirstHash, TickerPanics,
         NewEpoch, KeepPolling, GiveUp, FetchHeader, Tick, StartPoll, OriginStops,
         StopWaiting, OriginErrors, originVars, Answered, Moves, PollInv
<1> QED
  BY <1>1 DEF OriginSeen, Seen, l1vars

\* They stay so when the chain moves.
LEMMA OriginSeenKept ==
  ASSUME L1TypeOK, OriginTypeOK, ForksGrow, OriginSeen, [L1Next]_l1vars,
         UNCHANGED originVars
  PROVE  OriginSeen'
<1>1. Seen(origin)'
  BY OriginSeenStays DEF OriginSeen
<1>2. \A h \in Hash : Seen(h) => Seen(h)'
  BY SeenStays
<1>3. newHash' # Nil => Seen(newHash)'
  BY <1>2 DEF OriginSeen, OriginTypeOK, originVars, Seen
<1>4. header' # Nil => Seen(header)'
  BY <1>2 DEF OriginSeen, OriginTypeOK, originVars, Seen
<1> QED
  BY <1>1, <1>3, <1>4 DEF OriginSeen

\* The phase moves with the hash and with the end of the session only.
LEMMA PhaseMoves ==
  /\ (pc' \in Ended <=> pc \in Ended) /\ pc' \notin Ended /\ newHash' = newHash
       => Phase' = Phase
  /\ pc \notin Ended => Phase = IF newHash = Nil THEN "idle" ELSE "pinned"
  /\ pc \in {"failed", "panicked"} => Phase = "failed"
  BY DEF Phase, Ended

=============================================================================
