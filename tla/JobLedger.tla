------------------------------ MODULE JobLedger ------------------------------
(***************************************************************************)
(* What the conversation scheduler promises about a durable queue job,     *)
(* whoever wakes, claims, stops, fails or restarts it: a job that was       *)
(* submitted is executed at most once, an execution never goes back to      *)
(* waiting, and a settled job stays settled.  ConversationScheduler.tla     *)
(* implements it with the rows of queue_jobs.                               *)
(***************************************************************************)
EXTENDS Naturals

CONSTANT Jobs

VARIABLES
  status,    \* where each job is in its life
  attempts   \* how often each job was handed to an executor

vars == <<status, attempts>>

Init ==
  /\ status = [j \in Jobs |-> "absent"]
  /\ attempts = [j \in Jobs |-> 0]

\* One transaction makes a whole batch durable.
Submit(S) ==
  /\ \A j \in S : status[j] = "absent"
  /\ status' = [j \in Jobs |-> IF j \in S THEN "waiting" ELSE status[j]]
  /\ UNCHANGED attempts

Begin(j) ==
  /\ status[j] = "waiting"
  /\ status' = [status EXCEPT ![j] = "executing"]
  /\ attempts' = [attempts EXCEPT ![j] = @ + 1]

\* Completion, failure, cancellation and recovery settle one or several jobs.
Settle(S) ==
  /\ \A j \in S : status[j] \in {"waiting", "executing"}
  /\ status' = [j \in Jobs |-> IF j \in S THEN "settled" ELSE status[j]]
  /\ UNCHANGED attempts

Next ==
  \/ \E S \in SUBSET Jobs : Submit(S) \/ Settle(S)
  \/ \E j \in Jobs : Begin(j)

Spec == Init /\ [][Next]_vars

-----------------------------------------------------------------------------
\* No job is ever executed twice: a second wake-up, a restart or a retry of a
\* claim (scheduling/conversation.py, _run_job) starts nothing again.
ExecutedAtMostOnce == \A j \in Jobs : attempts[j] <= 1
=============================================================================
