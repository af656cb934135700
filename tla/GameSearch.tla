----------------------------- MODULE GameSearch -----------------------------
(***************************************************************************)
(* FindLatestResolved while games are created, challenged and resolved:    *)
(* the closed system of CannonScan, with what the search promises.         *)
(***************************************************************************)
EXTENDS CannonScan

vars == <<l1vars, sessionVars, scanVars>>

Init == L1Init /\ SessionInit("gameCount") /\ ScanInit

Next ==
  \/ ScanNext /\ UNCHANGED l1vars
  \/ Interrupt /\ UNCHANGED <<l1vars, scanVars>>
  \/ L1Next /\ UNCHANGED <<sessionVars, scanVars>>

Spec == Init /\ [][Next]_vars

\* The loop's own steps on a cancelled context need no node.
ScanReturns == ScanStops \/ (cancelled /\ SkipStatusError)

GoSpec == Spec /\ WF_vars(ScanReturns /\ UNCHANGED l1vars)

\* The L1 node answers every call, if only with an error.
NodeAnswers == WF_vars((ScanAnswers \/ ScanErrors) /\ UNCHANGED l1vars)

-----------------------------------------------------------------------------

TypeOK ==
  /\ L1TypeOK
  /\ SessionTypeOK
  /\ ScanTypeOK
  /\ pc \in ScanLabels \cup Ended \cup {"origin"}

Won(n, g) == Exists(chain[n], g) /\ chain[n].games[g] = "defenderWins"

\* The game FindLatestResolved returns is resolved for the defender, now and
\* for good: its status was read when it was, and a resolution is final.
FoundIsResolved == found # NoGame => Won(head, found)

\* "Find the latest resolved dispute game" (op-stack-cannon.go:411): no newer
\* game was resolved for the defender when the search began, although the
\* games above it were each looked at in another, later block.
FoundIsLatest ==
  found # NoGame => \A g \in GameIndex : g > found => ~Won(since, g)

\* "no suitable resolved dispute games found" is said only when there was
\* none when the search began, unless an interrupt cut it short.
NoneMeansNone ==
  (err = "nogame" /\ ~cancelled) => \A g \in GameIndex : ~Won(since, g)

\* The search ends if the node answers: new games do not make it start over.
Terminates == NodeAnswers => <>(pc \in Ended \cup {"origin"})

\* The search ends when it is cancelled, whatever the node does.
CancelStops == cancelled ~> (pc \in Ended \cup {"origin"})

-----------------------------------------------------------------------------
(***************************************************************************)
(* The search as one atomic answer.  What an interrupt turned into "no     *)
(* games found" counts as an error.                                        *)
(***************************************************************************)
WonGames(n) == {g \in GameIndex : Won(n, g)}

Outcome ==
  CASE pc = "gameCount"                                -> "idle"
    [] pc \in {"gameAtIndex", "status"}                -> "searching"
    [] pc = "origin"                                   -> "found"
    [] pc = "failed" /\ err = "nogame" /\ ~cancelled   -> "none"
    [] OTHER                                           -> "error"

Search == INSTANCE ResolvedSearch WITH
            Games   <- GameIndex,
            won     <- WonGames(head),
            before  <- IF since = 0 THEN {} ELSE WonGames(since),
            outcome <- Outcome,
            game    <- found

\* The visit of one game at a time, each in a block of its own, implements the
\* atomic search.
ImplementsSearch == Search!Spec

=============================================================================
