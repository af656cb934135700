------------------------------ MODULE PinnedRun ------------------------------
(***************************************************************************)
(* What a whole run promises, with no calls, no provers and no chain: it   *)
(* takes the oracle's word for one block, once, and what it hands over is  *)
(* what that block tells.  A block tells nothing while it is not of the    *)
(* chain, and then nothing is promised.                                    *)
(***************************************************************************)
CONSTANT None  \* no block, nothing handed over

VARIABLES
  oracle,   \* the block the destination's oracle names
  told,     \* what each block of the chain tells about what is to be proved
  phase,    \* "idle", "pinned", "delivered" or "failed"
  pinned,   \* the block that was taken
  evidence  \* what was handed over

world   == <<oracle, told>>
runVars == <<world, phase, pinned, evidence>>

-----------------------------------------------------------------------------

Init ==
  /\ phase = "idle"
  /\ pinned = None
  /\ evidence = None

\* The chain moves, and until a block is pinned the question may change too.
\* From then on a block tells the same as long as it is of the chain.
Move ==
  /\ phase = "pinned" => \A b \in DOMAIN told \cap DOMAIN told' : told'[b] = told[b]
  /\ UNCHANGED <<phase, pinned, evidence>>

Pin ==
  /\ phase = "idle"
  /\ phase' = "pinned"
  /\ pinned' = oracle
  /\ UNCHANGED <<world, evidence>>

Deliver ==
  /\ phase = "pinned"
  /\ phase' = "delivered"
  /\ pinned \in DOMAIN told => evidence' = told[pinned]
  /\ UNCHANGED <<world, pinned>>

Fail ==
  /\ phase \in {"idle", "pinned"}
  /\ phase' = "failed"
  /\ UNCHANGED <<world, pinned, evidence>>

Next == Move \/ Pin \/ Deliver \/ Fail

Spec == Init /\ [][Next]_runVars

=============================================================================
