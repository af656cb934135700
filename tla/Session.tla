------------------------------- MODULE Session -------------------------------
(***************************************************************************)
(* What every step of one run of the tool shares: where the program is,    *)
(* the error it ended with, and the context of cmd/main.go that an         *)
(* interrupt cancels.  The program runs on one goroutine and keeps nothing *)
(* between runs; it can only be overtaken by the chains and the interrupt. *)
(*                                                                         *)
(* A remote call is one step, taken when the node computes its answer: the *)
(* label names the call the program is waiting for.                        *)
(***************************************************************************)
VARIABLES
  pc,        \* the call the program waits for, or how it ended
  err,       \* kind of the error that ended the session, or "none"
  cancelled  \* has the context been cancelled?

sessionVars == <<pc, err, cancelled>>

Ended == {"done", "failed", "panicked"}

\* The kinds of error the code tells apart.
Errors == {"none", "rpc", "cancelled", "timeout", "config", "count", "nogame",
           "proofs", "l2BlockNumber", "createdAt", "resolvedAt"}

-----------------------------------------------------------------------------

SessionInit(first) ==
  /\ pc = first
  /\ err = "none"
  /\ cancelled = FALSE

\* The goroutine of main() that waits for SIGINT or SIGTERM.
Interrupt ==
  /\ ~cancelled
  /\ pc \notin Ended
  /\ cancelled' = TRUE
  /\ UNCHANGED <<pc, err>>

\* A local step, or the answer to a call that no context can cancel.
Moves(from, to) ==
  /\ pc = from
  /\ pc' = to
  /\ UNCHANGED <<err, cancelled>>

\* The answer to a call made with the context: a cancelled one never answers.
Answered(from, to) ==
  /\ ~cancelled
  /\ Moves(from, to)

\* return ..., fmt.Errorf(...)
Fails(kind) ==
  /\ pc' = "failed"
  /\ err' = kind
  /\ UNCHANGED cancelled

\* The node answers with an error, or with bytes that do not decode.
RpcFails(calls) ==
  /\ pc \in calls
  /\ Fails("rpc")

\* A call made with a cancelled context returns its error without the node.
CtxFails(calls) ==
  /\ cancelled
  /\ pc \in calls
  /\ Fails("cancelled")

SessionTypeOK ==
  /\ err \in Errors
  /\ cancelled \in BOOLEAN
  /\ (pc = "failed") = (err # "none")

=============================================================================
