---------------------------- MODULE MCExecution -----------------------------
(***************************************************************************)
(* What an execution is made of, one behaviour at a time: "agent" is the   *)
(* loop of one reply with two decisions of two calls, "context" the        *)
(* context of its conversation with two messages and two maintenances.     *)
(***************************************************************************)
EXTENDS Naturals, FiniteSets

CONSTANTS Decisions, Width, Limits, Msgs, Jobs, MaxRounds, Limit, MaxEvents

ASSUME AgentAssumption ==
  Decisions \in Nat /\ Width \in Nat /\ Limits \subseteq Nat

ASSUME ContextAssumption ==
  /\ Msgs \subseteq Nat \ {0} /\ IsFiniteSet(Msgs) /\ Msgs # {}
  /\ Jobs \subseteq Nat \ {0} /\ IsFiniteSet(Jobs)
  /\ Limit \in Nat /\ MaxRounds \in Nat /\ MaxEvents \in Nat

VARIABLES
  side,
  graph, resp, tools, events, agent, reply, blocks, usage, blows,         \* AgentLoop
  msgs, ctx, jobs, sums, runner, owner, used, lane, cancels, left         \* ContextCompaction

agentVars == <<graph, resp, tools, events, agent, reply, blocks, usage, blows>>
contextVars == <<msgs, ctx, jobs, sums, runner, owner, used, lane, cancels, left>>
execVars == <<side, agentVars, contextVars>>

A == INSTANCE AgentLoop WITH calls <- tools, queue <- events, part <- blocks, left <- blows

K == INSTANCE ContextCompaction WITH calls <- cancels, turn <- owner

\* The graph's own limit is reached at different decisions.
ExecInit == /\ A!Init /\ K!Init /\ side \in {"agent", "context"}
            /\ side = "context" => \A l \in Limits : l <= graph.steps

ExecNext == /\ \/ side = "agent" /\ A!Next /\ UNCHANGED contextVars
               \/ side = "context" /\ K!Next /\ UNCHANGED agentVars
            /\ UNCHANGED side

ExecSpec == ExecInit /\ [][ExecNext]_execVars

-----------------------------------------------------------------------------
\* A reply that is told completed has the result of every call (run_agent).
EndsClosed == A!EndsClosed

\* A change made before a reply was closed is told by it (finish_pending).
EffectIsTold == A!EffectIsTold

\* A summary was made from exactly the revisions its source rows name (units, finish).
SummaryIsFaithful == K!SummaryIsFaithful

\* Once the Owner's cancel is stored, that maintenance is never adopted (finish).
CancelIsKept == K!CancelIsKept
=============================================================================
