----------------------------- MODULE CannonScan -----------------------------
(***************************************************************************)
(* OPStackCannonProver.FindLatestResolved (provers/op-stack-cannon.go):    *)
(* the games of the factory are visited from the newest to the oldest, one *)
(* or two calls each, all at the latest block, until one has status 2.     *)
(*                                                                         *)
(* A game's address is identified with its index.                          *)
(* Entered at "gameCount", left at "origin".                               *)
(***************************************************************************)
EXTENDS L1Chain, Session

CONSTANTS
  FlakyNode,  \* may single calls of the scan fail or come back empty?
  NoGame      \* no game found yet

ASSUME ScanAssumption ==
  /\ FlakyNode \in BOOLEAN
  /\ NoGame \notin GameIndex

VARIABLES
  i,      \* index of the game the loop is at
  found,  \* gameIndex, with the address that goes with it
  since   \* head when gameCount was read; only in properties

scanVars == <<i, found, since>>

-----------------------------------------------------------------------------

ScanInit ==
  /\ i = 0
  /\ found = NoGame
  /\ since = 0

\* Slip: the search starts from the oldest game.
ReadGameCountOldest ==
  /\ Latest.count > 0
  /\ Answered("gameCount", "gameAtIndex")
  /\ i' = 0
  /\ since' = head
  /\ UNCHANGED found

ReadGameCount ==
  /\ Latest.count > 0
  /\ Answered("gameCount", "gameAtIndex")
  /\ i' = Latest.count - 1
  /\ since' = head
  /\ UNCHANGED found

\* invalid game count
NoGames ==
  /\ pc = "gameCount"
  /\ ~cancelled
  /\ Latest.count = 0
  /\ Fails("count")
  /\ since' = head
  /\ UNCHANGED <<i, found>>

\* The factory reverts on an index out of range: that is RpcFails.
ReadGameAtIndex ==
  /\ Exists(Latest, i)
  /\ Answered("gameAtIndex", "status")
  /\ UNCHANGED scanVars

FinalStatus == 2

\* Slip: resolved either way is taken for final.
ReadStatusEither ==
  /\ Status(Latest.games[i]) # 0
  /\ Answered("status", "origin")
  /\ found' = i
  /\ UNCHANGED <<i, since>>

ReadStatus ==
  /\ Status(Latest.games[i]) = FinalStatus
  /\ Answered("status", "origin")
  /\ found' = i
  /\ UNCHANGED <<i, since>>

\* Slips: the loop ends one game late, one game early, or does not advance.
NextGameLate ==
  \/ i >= 0 /\ i' = i - 1 /\ pc' = "gameAtIndex" /\ UNCHANGED <<err, cancelled>>
  \/ i < 0 /\ i' = i /\ Fails("nogame")

NextGameEarly ==
  \/ i > 1 /\ i' = i - 1 /\ pc' = "gameAtIndex" /\ UNCHANGED <<err, cancelled>>
  \/ i <= 1 /\ i' = i /\ Fails("nogame")

NextGameStuck ==
  /\ i' = i
  /\ pc' = "gameAtIndex"
  /\ UNCHANGED <<err, cancelled>>

\* The loop goes on with the next older game, or ends without one.
NextGame ==
  \/ i > 0 /\ i' = i - 1 /\ pc' = "gameAtIndex" /\ UNCHANGED <<err, cancelled>>
  \/ i = 0 /\ i' = i /\ Fails("nogame")

\* Slip: a game is passed over whatever its status.
NotFinalUnread ==
  /\ pc = "status"
  /\ ~cancelled
  /\ NextGame
  /\ UNCHANGED <<found, since>>

\* The game is not resolved for the defender.
NotFinal ==
  /\ pc = "status"
  /\ ~cancelled
  /\ Status(Latest.games[i]) # FinalStatus
  /\ NextGame
  /\ UNCHANGED <<found, since>>

\* continue: the error of status(), a cancelled context's too, passes for a
\* game that is not resolved.
SkipStatusError ==
  /\ pc = "status"
  /\ FlakyNode \/ cancelled
  /\ NextGame
  /\ UNCHANGED <<found, since>>

\* continue: an empty answer of gameAtIndex() does as well.
SkipEmptyAnswer ==
  /\ pc = "gameAtIndex"
  /\ FlakyNode
  /\ ~cancelled
  /\ NextGame
  /\ UNCHANGED <<found, since>>

ScanAnswers ==
  ReadGameCount \/ NoGames \/ ReadGameAtIndex \/ ReadStatus \/ NotFinal

ScanSkips == SkipStatusError \/ SkipEmptyAnswer

\* Slip: the calls of the loop do not carry the context.
ScanStopsBeforeLoop == CtxFails({"gameCount"}) /\ UNCHANGED scanVars

ScanStops == CtxFails({"gameCount", "gameAtIndex"}) /\ UNCHANGED scanVars

ScanErrors == RpcFails({"gameCount", "gameAtIndex"}) /\ UNCHANGED scanVars

ScanNext == ScanAnswers \/ ScanSkips \/ ScanStops \/ ScanErrors

-----------------------------------------------------------------------------

ScanLabels == {"gameCount", "gameAtIndex", "status"}

ScanTypeOK ==
  /\ i \in 0..MaxGames
  /\ found \in GameIndex \cup {NoGame}
  /\ since \in 0..MaxHeight

=============================================================================
