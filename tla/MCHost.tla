------------------------------- MODULE MCHost -------------------------------
(***************************************************************************)
(* Three machines that share no state, one behaviour at a time: scene says *)
(* which.  "servers" is the MCP pool of one backend; "logs" and "worlds"   *)
(* are backends that start, work and die on one machine, seen at their     *)
(* logs or at their worlds.                                                *)
(***************************************************************************)
EXTENDS Integers, FiniteSets, TLC

CONSTANTS
  Keys, Callers, MaxHosts,                                  \* McpServers
  Pids,                                                     \* process identities
  Sources, Date, Kind, Lines, Room, MonthEnd, LastDay,      \* LogArchive
  Days, MaxTotal, MaxAlive,
  Worlds, Home, CommandLine, MaxBirths,                     \* WorldHost
  MaxFailures                                               \* bound: faults, in the logs or in the worlds

VARIABLES
  scene,
  pool, host, tree, caller,                                               \* McpServers
  today, src, arch, tmp, lease, proc, planned, written, writers, faults,  \* LogArchive
  broken, missed,
  dirs, flock, backend, wr, ctl, births, mishaps, undone                  \* WorldHost

poolVars == <<pool, host, tree, caller>>
logVars == <<today, src, arch, tmp, lease, proc, planned, written, writers, faults, broken, missed>>
diskVars == <<dirs, flock, backend, wr, ctl, births, mishaps, undone>>
sceneVars == <<scene, poolVars, logVars, diskVars>>

S == INSTANCE McpServers

L == INSTANCE LogArchive WITH
       Procs <- Pids, MaxEvents <- MaxFailures, live <- writers, events <- faults

W == INSTANCE WorldHost WITH
       Commands <- CommandLine, MaxEvents <- MaxFailures, proc <- backend, events <- mishaps

ASSUME HostAssumption ==
  /\ W!None \notin Pids /\ IsFiniteSet(Pids) /\ Home \in Worlds
  /\ IsFiniteSet(Sources) /\ Date \in [Sources -> Int] /\ {MonthEnd, LastDay, MaxFailures, MaxBirths} \subseteq Nat
  /\ Kind \in [Sources -> {"runtime", "unit-tests", "e2e-fake"}]

\* Only the part that a behaviour is about starts in each of its states.
SceneInit ==
  /\ S!Init /\ L!Init /\ W!Init
  /\ scene \in {"servers", "logs", "worlds"}
  /\ scene # "worlds" => \A w \in DOMAIN dirs : dirs[w].manifest

SceneNext ==
  /\ \/ scene = "servers" /\ S!Next /\ UNCHANGED <<logVars, diskVars>>
     \/ scene = "logs" /\ L!Next /\ UNCHANGED <<poolVars, diskVars>>
     \/ scene = "worlds" /\ W!Next /\ UNCHANGED <<poolVars, logVars>>
  /\ UNCHANGED scene

SceneSpec == SceneInit /\ [][SceneNext]_sceneVars

\* Two days of the first month, the second with a unit and an e2e directory.
Dates == [day |-> 0, unit |-> 1, e2e |-> 1]
Kinds == [day |-> "runtime", unit |-> "unit-tests", e2e |-> "e2e-fake"]
Rooms == [day |-> 1, unit |-> 2, e2e |-> 2]

SamePids == Permutations(Pids)

-----------------------------------------------------------------------------
\* Nobody waits for the readiness of a host that has ended (run, fail_ready_if_pending).
WaitersWake == S!WaitersWake

\* A server that was opened while no other was being opened leaves nothing of its tree behind
\* once it is closed, and its tree is ended by its own host alone (_stop, kill_process_tree).
TreesAreTheirs == S!TreesAreTheirs

\* No line of a log is lost, as long as no lease was broken under a maintenance at work, but for
\* those that a unit run appends to a directory already compared with its archive (maintain_logs).
NoLineLost == L!NoLineLost

\* A world in use stands and is its owner's, unless the clean-up of a creation that failed under
\* its name removed it (WorldManager.acquire, create, delete).
OwnedStands == W!OwnedStands
=============================================================================
