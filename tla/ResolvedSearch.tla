--------------------------- MODULE ResolvedSearch ---------------------------
(***************************************************************************)
(* What a search for the latest resolved game promises, with no loop, no   *)
(* calls and no chain: games are being won while it runs, it remembers     *)
(* which were when it began, and it answers at once.  The comment at       *)
(* provers/op-stack-cannon.go:411 is the promise: "Find the latest         *)
(* resolved dispute game with a valid L2 output".                          *)
(***************************************************************************)
EXTENDS Integers

CONSTANT Games  \* indices of the games

VARIABLES
  won,      \* games resolved for the defender so far
  before,   \* won, as it was when the search began
  outcome,  \* "idle", "searching", "found", "none" or "error"
  game      \* the answer, when outcome is "found"

searchVars == <<won, before, outcome, game>>

-----------------------------------------------------------------------------

Init ==
  /\ won \in SUBSET Games
  /\ before = {}
  /\ outcome = "idle"

\* Games are won, and stay won.
Win ==
  /\ won' \in SUBSET Games
  /\ won \subseteq won'
  /\ UNCHANGED <<before, outcome, game>>

Begin ==
  /\ outcome = "idle"
  /\ outcome' = "searching"
  /\ before' = won
  /\ UNCHANGED <<won, game>>

\* A game that is won, above every game that was at the beginning.
Find ==
  /\ outcome = "searching"
  /\ outcome' = "found"
  /\ game' \in won
  /\ \A g \in before : g <= game'
  /\ UNCHANGED <<won, before>>

FindNone ==
  /\ outcome = "searching"
  /\ outcome' = "none"
  /\ before = {}
  /\ UNCHANGED <<won, before, game>>

GiveUp ==
  /\ outcome \in {"idle", "searching"}
  /\ outcome' = "error"
  /\ UNCHANGED <<won, before, game>>

Next == Win \/ Begin \/ Find \/ FindNone \/ GiveUp

Spec == Init /\ [][Next]_searchVars

=============================================================================
