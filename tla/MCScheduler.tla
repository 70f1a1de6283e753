----------------------------- MODULE MCScheduler -----------------------------
(***************************************************************************)
(* Two scenes of ConversationScheduler.  "queues": a chat and a workflow   *)
(* that is woken again and again, a failing database reply, a crash and a  *)
(* restart.  "group": a chain of two jobs in one conversation with two     *)
(* stop requests at the same time, under the fairness of the event loop.   *)
(***************************************************************************)
EXTENDS ConversationScheduler, TLC

CONSTANTS a, b, c1, c2, conv, shared

VARIABLE scene

\* Two chains with one job each, one per kind of queue.
TwoChains == (c1 :> <<a>>) @@ (c2 :> <<b>>)
Mixed == (c1 :> conv) @@ (c2 :> shared)

Group == INSTANCE ConversationScheduler WITH
  Chains <- {c1}, ChainJobs <- [c \in {c1} |-> <<a, b>>], LaneOf <- [c \in {c1} |-> conv],
  Slots <- {}, Ticked <- {}, Stoppers <- {"s1", "s2"},
  MaxWakes <- 0, MaxFaults <- 0, MaxStarts <- 1, MayCrash <- FALSE

SceneInit == \/ scene = "queues" /\ Init
             \/ scene = "group" /\ Group!Init
SceneNext == /\ \/ scene = "queues" /\ Next
                \/ scene = "group" /\ Group!Next
             /\ UNCHANGED scene

sceneVars == <<scene, vars>>

\* Steps of the scene "group" that the event loop takes when it can.
Wakes == scene = "group" /\ Group!WakeChain(c1) /\ UNCHANGED scene
Works == scene = "group" /\ Group!WorkerStep(conv) /\ UNCHANGED scene
Runs(j) == scene = "group" /\ Group!RunnerOwnStep(j) /\ UNCHANGED scene
Stops(s) == scene = "group" /\ Group!StopStep(s) /\ UNCHANGED scene
Closes == scene = "group" /\ (Group!FinishShutdown \/ Group!Start) /\ UNCHANGED scene

SceneSpec ==
  /\ SceneInit /\ [][SceneNext]_sceneVars
  /\ WF_sceneVars(Wakes) /\ WF_sceneVars(Works) /\ WF_sceneVars(Closes)
  /\ \A j \in Jobs : WF_sceneVars(Runs(j))
  /\ \A s \in {"s1", "s2"} : WF_sceneVars(Stops(s))

-----------------------------------------------------------------------------
\* A requested stop ends the job, even if the model never answers.
StopEnds ==
  \A j \in Jobs : (scene = "group" /\ stopAt[j]) ~> (job[j] \in JobEnd \/ phase # "up")

-----------------------------------------------------------------------------
\* "The buffered content of the current role is stored as stopped"
\* (docs/protocol/public/messaging/messages.md:121): when a stopped job has
\* ended, its reply is closed (stop_generations, _finalize).
StoppedReply ==
  scene = "group" => \A j \in Jobs : stopAt[j] /\ job[j] \in JobEnd => msg[j] # "generating"
=============================================================================
