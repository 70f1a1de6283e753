---------------------------- MODULE MCWorldTasks ----------------------------
(* WorldTasks for model checking: two rounds and one delegation. *)
EXTENDS Naturals, FiniteSets

CONSTANTS
  Turns, Delegations,           \* the rounds and the children
  RootLimit, ChainLimit,        \* decision_limit of the root chain and of a child's
  TurnDecisions, MaxMishaps     \* bound: decisions of a round, events

VARIABLES appointment, worldTask, turns, delegated, budget, ticking, halts, mishaps

T == INSTANCE WorldTasks WITH
       Rounds <- Turns, Children <- Delegations, Limit <- RootLimit, ChildLimit <- ChainLimit,
       MaxDecisions <- TurnDecisions, MaxEvents <- MaxMishaps,
       revision <- appointment, task <- worldTask, rounds <- turns, kids <- delegated,
       used <- budget, tick <- ticking, stoppers <- halts, left <- mishaps

ASSUME BoundsAssumption ==
  /\ Turns \subseteq Nat \ {0} /\ IsFiniteSet(Turns) /\ 1 \in Turns
  /\ Delegations \subseteq Nat \ {0} /\ IsFiniteSet(Delegations)
  /\ {RootLimit, ChainLimit, TurnDecisions, MaxMishaps} \subseteq Nat

TaskSpec == T!Spec

Turns2 == 1 .. 2
Delegations1 == 1 .. 1

-----------------------------------------------------------------------------
\* A task is completed over whole children only, and stays without work of its own (complete,
\* children).
CompletedIsWhole == T!CompletedIsWhole

\* A stop reaches the whole tree (stop, tick).
StopReachesTree == T!StopReachesTree
=============================================================================
