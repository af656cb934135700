----------------------------- MODULE EpochWait -----------------------------
(***************************************************************************)
(* GetL1Origin against chains that move while it waits: the closed system  *)
(* of L1Origin, with the properties of the waiting loop.                   *)
(***************************************************************************)
EXTENDS L1Origin

vars == <<l1vars, sessionVars, originVars>>

Init == L1Init /\ SessionInit("origin") /\ OriginInit

Next ==
  \/ OriginNext /\ UNCHANGED l1vars
  \/ Interrupt /\ UNCHANGED <<l1vars, originVars>>
  \/ L1Next /\ UNCHANGED <<sessionVars, originVars>>

Spec == Init /\ [][Next]_vars

(***************************************************************************)
(* Fairness.  The ticker runs, a goroutine that can go on does, and a call *)
(* under way on a cancelled context returns: those are Go's.  That the     *)
(* nodes answer, if only with an error, is no part of the specification:   *)
(* the HTTP clients have no timeout.  A property that needs it says so.    *)
(***************************************************************************)
GoSpec ==
  /\ Spec
  /\ WF_vars(Tick /\ UNCHANGED l1vars)
  /\ WF_vars(StartPoll /\ UNCHANGED l1vars)
  /\ WF_vars(OriginStops /\ UNCHANGED l1vars)

NodesAnswer == WF_vars((OriginAnswers \/ OriginErrors) /\ UNCHANGED l1vars)

-----------------------------------------------------------------------------

TypeOK ==
  /\ L1TypeOK
  /\ SessionTypeOK
  /\ OriginTypeOK
  /\ pc \in OriginLabels \cup Ended \cup {"header"}

\* The loop of GetL1Origin never polls more than EpochPollingTries + 1 times, and
\* reports a timeout only once that budget is spent (prover.go:200 and 208).
PollBudget ==
  /\ polls <= EpochPollingTries + 1
  /\ err = "timeout" => polls = EpochPollingTries + 1
  /\ polls > 0 => firstHash # Nil

\* What a session that waited may do with the block it got: with an endpoint
\* that does not go back, and no reorganisation, the header of GetL1Origin is
\* of a later block than the one the oracle named when the wait began.
WaitedHeaderIsNewer ==
  (waitForNewEpoch /\ header # Nil) => header.num > firstHash.num

\* time.Duration(EpochPollingFreq) * time.Second wraps (prover.go:194).  A
\* frequency whose product is in range panics only if it is 0, and a wait that
\* began never has a ticker of frequency 0.
PanicsOutOfRange ==
  LET inRange == 2 * freq * Second < DurationSpan
  IN  /\ (pc = "panicked" /\ inRange) => freq = 0
      /\ pc \in {"wait", "poll"} => freq # 0

\* "how many times to query for a new epoch before giving up" (flags.go:78):
\* no more polls than --epoch-polling-tries.
PollsWithinTries == polls <= EpochPollingTries

\* The new epoch GetL1Origin waits for has begun.
EpochBegan == pc \in {"wait", "poll"} /\ origin # firstHash

\* An epoch that begins while GetL1Origin waits is not lost, however late: with
\* nodes that answer, an endpoint that does not go back and no reorganisation,
\* the wait ends in a header, unless a call fails or the run is interrupted.
\* Wherever the loop is, another poll is within the budget, and its answer is
\* compared before the budget is (prover.go:199).
NewEpochIsTaken ==
  NodesAnswer => (EpochBegan ~> (header # Nil \/ err \in {"rpc", "cancelled"}))

\* If the nodes answer, GetL1Origin returns a header, an error or a panic: the
\* ticker and the budget bound the wait even if the oracle never moves.
Terminates == NodesAnswer => <>(pc \in Ended \cup {"header"})

\* Once the context is cancelled GetL1Origin returns, whatever the nodes do:
\* the select and every call inside it watch the context.
CancelStops == cancelled ~> (pc \in Ended \cup {"header"})

=============================================================================
