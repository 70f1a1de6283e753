----------------------------- MODULE MCWorkflow -----------------------------
(***************************************************************************)
(* The two engines, one part at a time.  "serial": two runs of a role and   *)
(* an approval after it.  "loop": a coordinated run of { draft -> check ->  *)
(* draft }, decided by the judge check, before the approval sign.  "pair":  *)
(* a run of two independent tasks before that approval, started by hand.    *)
(***************************************************************************)
EXTENDS SerialWorkflow, TLC

CONSTANTS draft, check, sign, side, rework, run1, plan, summary

Path == <<draft, sign>>
PathKind == (draft :> "role") @@ (sign :> "approval")
PathInputs == (draft :> {}) @@ (sign :> {draft})

VARIABLES
  part,
  w, lost, gone, retries, faults     \* WorkflowEngine

graphVars == <<w, lost, gone, retries, faults>>
partVars == <<part, vars, graphVars>>

LoopRun == INSTANCE WorkflowEngine WITH
  Runs <- {run1}, Order <- <<draft, check, sign>>,
  Kind <- (draft :> "role") @@ (check :> "judge") @@ (sign :> "approval"),
  Incoming <- (draft :> {}) @@ (check :> {draft}) @@ (sign :> {check}),
  Inputs <- (draft :> {}) @@ (check :> {draft}) @@ (sign :> {draft}),
  When <- (<<draft, check>> :> "always") @@ (<<check, sign>> :> "T"),
  Sources <- (draft :> {}) @@ (check :> {"self"}) @@ (sign :> {}),
  Loops <- rework :> [body |-> {draft, check}, entry |-> draft, decision |-> check,
                      repeat |-> "F", max |-> 2],
  Coordinated <- TRUE, Concurrency <- 2, MaxRetries <- 1, MaxFaults <- 1

PairRun == INSTANCE WorkflowEngine WITH
  Runs <- {run1}, Order <- <<side, draft, sign>>,
  Kind <- (draft :> "role") @@ (side :> "role") @@ (sign :> "approval"),
  Incoming <- (draft :> {}) @@ (side :> {}) @@ (sign :> {draft, side}),
  Inputs <- (draft :> {}) @@ (side :> {}) @@ (sign :> {side}),
  When <- (<<draft, sign>> :> "always") @@ (<<side, sign>> :> "always"),
  Sources <- (draft :> {}) @@ (side :> {}) @@ (sign :> {}),
  Loops <- [l \in {} |-> 0],
  Coordinated <- FALSE, Concurrency <- 2, MaxRetries <- 1, MaxFaults <- 1

PartInit ==
  /\ part \in {"serial", "loop", "pair"} /\ Init
  /\ IF part = "pair" THEN PairRun!Init ELSE LoopRun!Init

PartNext ==
  /\ \/ part = "serial" /\ Next /\ UNCHANGED graphVars
     \/ part = "loop" /\ LoopRun!Next /\ UNCHANGED vars
     \/ part = "pair" /\ PairRun!Next /\ UNCHANGED vars
  /\ UNCHANGED part

PartSpec == PartInit /\ [][PartNext]_partVars

-----------------------------------------------------------------------------
\* Nothing of a run that has ended is still at work (control, advance).
QuietWhenSettled ==
  CASE part = "serial" -> QuietAtEnd
    [] part = "loop" -> LoopRun!QuietWhenSettled
    [] part = "pair" -> PairRun!QuietWhenSettled

\* No selected result rests on one that was replaced (engine.py).
NoStaleInput ==
  IF part = "pair" THEN PairRun!NoStaleInput ELSE LoopRun!NoStaleInput

\* What follows an open blocking item does not start (feedback.py).
HeldByFeedback ==
  [][IF part = "pair" THEN PairRun!Holds ELSE LoopRun!Holds]_partVars
=============================================================================
