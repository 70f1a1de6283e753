------------------------------- MODULE MCOwner -------------------------------
(***************************************************************************)
(* What the Owner's requests meet, one part at a time: "approval" is one    *)
(* shell call with two requests that decide it and a fixed command that     *)
(* wants the same lock; "conversation" is one conversation under two        *)
(* requests that change it.                                                 *)
(***************************************************************************)
EXTENDS ShellApproval, TLC

CONSTANTS
  Roles, Spaces, Requests, Alone,
  MaxGens, MaxSingle, MaxGroup, MaxFaults   \* bounds: replies, requests on a single chat and on a group, faults

VARIABLES
  part,
  conv, space, role, gens, run, live, op, locks, req, calls, events   \* Conversations

convVars == <<conv, space, role, gens, run, live, op, locks, req, calls, events>>
partVars == <<part, vars, convVars>>

V == INSTANCE Conversations WITH
       MaxCalls <- [single |-> MaxSingle, group |-> MaxGroup], MaxEvents <- MaxFaults

ASSUME OwnerAssumption ==
  /\ V!None \notin Roles \union Spaces \union Requests
  /\ V!Conv \notin Spaces /\ Alone \in Roles

\* The conversation is of each kind in its own part only.
PartInit ==
  /\ Init /\ V!Init
  /\ part \in {"approval", "conversation"}
  /\ part = "approval" => conv.kind = "single"

PartNext ==
  /\ \/ part = "approval" /\ Next /\ UNCHANGED convVars
     \/ part = "conversation" /\ V!Next /\ UNCHANGED vars
  /\ UNCHANGED part

PartSpec == PartInit /\ [][PartNext]_partVars

Alike ==
  Permutations(Deciders) \union Permutations(Requests) \union Permutations(Spaces)
    \union Permutations(Roles \ {Alone})

-----------------------------------------------------------------------------
\* Commands and services of a conversation run only in the workspace it is bound
\* to, while both are there (reserve, rebind, delete).
RunsWhereBound == V!RunsWhereBound

\* A coordinated run lives on the appointment it was started under (coordination.py).
AppointedRun == V!AppointedRun

\* The workspace under a waiting or working reply is not exchanged
\* (update_conversation_workspace).
BoundWhileIdle == V!BoundWhileIdle
=============================================================================
