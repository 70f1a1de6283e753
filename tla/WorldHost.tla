----------------------------- MODULE WorldHost ------------------------------
(***************************************************************************)
(* The worlds on disk and the processes that use them: the directory of a  *)
(* world, its active lease and the file lock that guards the lease         *)
(* (worlds/manager.py), the life of a backend around it (main.py), the     *)
(* world operations of its owner (routers/worlds.py), the wrapper that     *)
(* restarts it on another world (scripts/run_world_server.py) and the      *)
(* command line that creates, adopts, backs up and deletes worlds.         *)
(*                                                                         *)
(* A process identity may be given out again after an exit; birth tells    *)
(* the incarnations apart.  Processes may die between any two steps.       *)
(***************************************************************************)
EXTENDS Integers, FiniteSets

CONSTANTS
  Pids,       \* process identities
  Worlds,     \* world names
  Home,       \* the world the wrapper is started with
  Commands,   \* what the command line may run: "create", "adopt", "backup", "delete"
  MaxBirths,  \* bound: processes started
  MaxEvents   \* bound: crashes and failed cleanups

VARIABLES
  dirs,   \* world -> its directory
  flock,  \* world -> the process that holds the file lock of its lease
  proc,   \* process -> its incarnation
  wr,     \* the wrapper: where it is, the world it runs, its child
  ctl,    \* the control file
  births, \* processes started so far
  events, \* faults that happened
  undone  \* history: worlds in use that the clean-up of a failed creation removed

vars == <<dirs, flock, proc, wr, ctl, births, events, undone>>

None == "none"
NoLease == [pid |-> None, birth |-> 0]
NoDir == [id |-> -1, files |-> FALSE, manifest |-> FALSE, data |-> FALSE, rows |-> FALSE, lease |-> NoLease]
Idle == [pc |-> "off", job |-> None, w |-> None, birth |-> 0, got |-> -1, host |-> None,
         target |-> None, ending |-> FALSE, fresh |-> FALSE]

Jobs == {"serve", "create", "adopt", "backup", "delete"}

(* Directories a start may find: a whole world, one whose creation was     *)
(* interrupted, none.                                                      *)
Whole == [NoDir EXCEPT !.id = 0, !.files = TRUE, !.manifest = TRUE]
Half == [NoDir EXCEPT !.id = 0]

TypeOK ==
  /\ \A w \in Worlds : dirs[w].id \in -1..MaxBirths /\ flock[w] \in Pids \union {None}
  /\ \A p \in Pids : proc[p].job \in Jobs \union {None} /\ proc[p].birth \in 0..births
  /\ ctl \in Worlds \union {None}
  /\ wr.world \in Worlds /\ wr.child \in Pids \union {None}
  /\ undone \subseteq Worlds

Init ==
  /\ dirs \in [Worlds -> {Whole, Half, NoDir}]
  /\ \A w \in Worlds \ {Home} : dirs[w] = Whole
  /\ flock = [w \in Worlds |-> None]
  /\ proc = [p \in Pids |-> Idle]
  /\ wr = [pc |-> "ensure", world |-> Home, child |-> None, stopped |-> FALSE]
  /\ ctl = None
  /\ births = 0
  /\ events = 0
  /\ undone = {}

-----------------------------------------------------------------------------
Alive(p) == proc[p].pc # "off"

Mine(p) == [pid |-> p, birth |-> proc[p].birth]

D(p) == dirs[proc[p].w]

Go(p, pc) == proc' = [proc EXCEPT ![p].pc = pc]

(* The process ends, with whatever lock it held. *)
End(p) == proc' = [proc EXCEPT ![p] = Idle]

Rest == <<wr, ctl, births, events, undone>>

(* is_active: a lease whose process identity is in use. *)
IsActive(w) == dirs[w].lease # NoLease /\ Alive(dirs[w].lease.pid)

(* A process of the given job starts; host is the backend that runs it as  *)
(* a thread, if any.                                                       *)
Launch(p, job, w, host) ==
  /\ ~Alive(p) /\ births < MaxBirths
  /\ births' = births + 1
  /\ proc' = [proc EXCEPT ![p] = [Idle EXCEPT !.job = job, !.w = w, !.birth = births + 1, !.host = host,
                !.pc = CASE job = "create" -> "mkdir" [] job = "adopt" -> "look"
                         [] job \in {"backup", "delete"} -> "acquire"
                         [] OTHER -> "ensure"]]
  /\ UNCHANGED <<dirs, flock, ctl, events, undone>>

RunCommand(p, job, w) ==
  /\ job \in Commands
  /\ Launch(p, job, w, None)
  /\ UNCHANGED wr

-----------------------------------------------------------------------------
(* WorldManager.create and ensure *)

Made(p) ==
  CASE proc[p].job = "serve" -> "acquire" [] proc[p].job = "adopt" -> "copy" [] OTHER -> "off"

(* The world is there: the caller goes on.  A finished command ends.       *)
Continue(p) == IF Made(p) = "off" THEN End(p) ELSE Go(p, Made(p))

(* adopt_legacy refuses a world that is there, and remembers whether its   *)
(* directory is.                                                           *)
Look(p) ==
  /\ proc[p].pc = "look"
  /\ IF D(p).manifest THEN End(p)
     ELSE proc' = [proc EXCEPT ![p].pc = "ensure", ![p].fresh = D(p).id = -1]
  /\ UNCHANGED <<dirs, flock, Rest>>

(* get first; a directory without metadata is completed only while its     *)
(* database is empty.                                                      *)
Ensure(p) ==
  LET d == D(p) IN
  /\ proc[p].pc = "ensure"
  /\ IF d.manifest THEN Continue(p)
     ELSE IF d.id = -1 THEN Go(p, "mkdir")
     ELSE IF d.data \/ d.lease # NoLease THEN End(p)
     ELSE Go(p, "fill")
  /\ UNCHANGED <<dirs, flock, Rest>>

(* mkdir(exist_ok=False) *)
MakeDir(p) ==
  LET w == proc[p].w IN
  /\ proc[p].pc = "mkdir"
  /\ IF dirs[w].id # -1
       THEN End(p) /\ UNCHANGED dirs
       ELSE /\ dirs' = [dirs EXCEPT ![w] = [NoDir EXCEPT !.id = proc[p].birth]]
            /\ Go(p, "fillnew")
  /\ UNCHANGED <<flock, Rest>>

(* The directory of a failed creation is removed, whoever has it by now.   *)
CleanUp(w) ==
  /\ dirs' = [dirs EXCEPT ![w] = NoDir]
  /\ undone' = IF IsActive(w) THEN undone \union {w} ELSE undone

(* create's own parts; a failure removes the directory it made. *)
FillNew(p) ==
  LET w == proc[p].w IN
  /\ proc[p].pc = "fillnew"
  /\ IF dirs[w].id # -1 /\ ~dirs[w].files
       THEN dirs' = [dirs EXCEPT ![w].files = TRUE] /\ Go(p, "manifest") /\ UNCHANGED undone
       ELSE CleanUp(w) /\ End(p)
  /\ UNCHANGED <<flock, wr, ctl, births, events>>

(* ensure completes what is missing, and raises when there is no directory. *)
Fill(p) ==
  LET w == proc[p].w IN
  /\ proc[p].pc = "fill"
  /\ IF dirs[w].id = -1
       THEN End(p) /\ UNCHANGED dirs
       ELSE dirs' = [dirs EXCEPT ![w].files = TRUE] /\ Go(p, "manifest")
  /\ UNCHANGED <<flock, Rest>>

WriteManifest(p) ==
  LET w == proc[p].w IN
  /\ proc[p].pc = "manifest"
  /\ IF dirs[w].id = -1
       THEN End(p) /\ UNCHANGED dirs
       ELSE dirs' = [dirs EXCEPT ![w].manifest = TRUE] /\ Continue(p)
  /\ UNCHANGED <<flock, Rest>>

(* adopt_legacy copies the old database into the new world, making its     *)
(* directory again when it is gone; when a step of that fails, or the      *)
(* metadata is not there, a directory that was not there at first is       *)
(* removed.                                                                *)
CopyLegacy(p) ==
  LET w == proc[p].w
      copied == [dirs EXCEPT ![w].data = TRUE, ![w].id = IF @ = -1 THEN proc[p].birth ELSE @] IN
  /\ proc[p].pc = "copy"
  /\ \/ /\ dirs[w].manifest
        /\ dirs' = copied
        /\ UNCHANGED <<events, undone>>
     \/ /\ dirs[w].manifest => events < MaxEvents
        /\ events' = IF dirs[w].manifest THEN events + 1 ELSE events
        /\ \/ proc[p].fresh /\ CleanUp(w)
           \/ ~proc[p].fresh /\ dirs' \in {dirs, copied} /\ UNCHANGED undone
  /\ End(p)
  /\ UNCHANGED <<flock, wr, ctl, births>>

-----------------------------------------------------------------------------
(* The lease *)

(* acquire: the file lock is tried, never awaited. *)
TryLock(p) ==
  LET w == proc[p].w IN
  /\ proc[p].pc = "acquire"
  /\ IF flock[w] # None \/ ~dirs[w].manifest
       THEN End(p) /\ UNCHANGED flock
       ELSE flock' = [flock EXCEPT ![w] = p] /\ Go(p, "claim")
  /\ UNCHANGED <<dirs, Rest>>

\* Mutant: only a lease that names this process is respected.
ClaimAnyway(p) ==
  LET w == proc[p].w IN
  /\ proc[p].pc = "claim"
  /\ flock' = [flock EXCEPT ![w] = None]
  /\ IF ~dirs[w].manifest \/ dirs[w].lease = Mine(p)
       THEN End(p) /\ UNCHANGED dirs
       ELSE /\ dirs' = [dirs EXCEPT ![w].lease = Mine(p)]
            /\ proc' = [proc EXCEPT ![p].got = dirs[w].id,
                          ![p].pc = IF proc[p].job = "serve" THEN "init" ELSE "check"]
  /\ UNCHANGED Rest

Claim(p) ==
  LET w == proc[p].w IN
  /\ proc[p].pc = "claim"
  /\ flock' = [flock EXCEPT ![w] = None]
  /\ IF ~dirs[w].manifest \/ IsActive(w)
       THEN End(p) /\ UNCHANGED dirs
       ELSE /\ dirs' = [dirs EXCEPT ![w].lease = Mine(p)]
            /\ proc' = [proc EXCEPT ![p].got = dirs[w].id,
                          ![p].pc = IF proc[p].job = "serve" THEN "init" ELSE "check"]
  /\ UNCHANGED Rest

(* release: only the lease of this incarnation; when the lock is taken it  *)
(* fails and the lease stays behind.                                       *)
Release(p) ==
  LET w == proc[p].w IN
  /\ proc[p].pc = "release"
  /\ dirs' = IF flock[w] = None /\ dirs[w].lease = Mine(p)
               THEN [dirs EXCEPT ![w].lease = NoLease] ELSE dirs
  /\ End(p)
  /\ UNCHANGED <<flock, Rest>>

-----------------------------------------------------------------------------
(* backup and delete from the command line *)

CheckRows(p) ==
  /\ proc[p].pc = "check"
  /\ Go(p, IF D(p).rows THEN "release" ELSE IF proc[p].job = "backup" THEN "copying" ELSE "rename")
  /\ UNCHANGED <<dirs, flock, Rest>>

Archived(p) ==
  /\ proc[p].pc = "copying"
  /\ Go(p, "release")
  /\ UNCHANGED <<dirs, flock, Rest>>

(* The directory leaves its name in one step, the lease with it.           *)
Rename(p) ==
  /\ proc[p].pc = "rename"
  /\ dirs' = [dirs EXCEPT ![proc[p].w] = NoDir]
  /\ End(p)
  /\ UNCHANGED <<flock, Rest>>

-----------------------------------------------------------------------------
(* lifespan: the database and the services start; the rows of processes    *)
(* that an earlier backend left are reclaimed or stay for the owner.       *)

Started(p) ==
  LET w == proc[p].w IN
  /\ proc[p].pc = "init"
  /\ \E left \in {FALSE, dirs[w].rows} :
       dirs' = [dirs EXCEPT ![w].data = TRUE, ![w].rows = left]
  /\ Go(p, "up")
  /\ UNCHANGED <<flock, Rest>>

(* A signal from the wrapper's pipe or its end, or an accepted switch: the *)
(* server takes no more requests.                                          *)
Asked(p) ==
  \/ proc[p].ending
  \/ wr.child = p /\ (wr.stopped \/ wr.pc = "dead")

Free(p) == proc[p].pc = "up" /\ \A q \in Pids : Alive(q) => proc[q].host # p

(* A command or service of the world runs: an unfinished row.              *)
RunProcess(p) ==
  /\ proc[p].pc = "up" /\ ~Asked(p) /\ ~D(p).rows
  /\ dirs' = [dirs EXCEPT ![proc[p].w].rows = TRUE]
  /\ UNCHANGED <<flock, proc, Rest>>

(* The owner's operations run one at a time, none once a switch is         *)
(* accepted (world_operation_lock, switch_target).                         *)
OwnerCreates(p, q, w) ==
  /\ "create" \in Commands
  /\ Free(p) /\ proc[p].target = None /\ ~Asked(p)
  /\ Launch(q, "create", w, p)
  /\ UNCHANGED wr

(* cleanup_scope: everything of the world is stopped and the gate is       *)
(* closed, or the operation is refused.                                    *)
CloseGate(p, next) ==
  /\ proc' = [proc EXCEPT ![p].pc = next]
  /\ dirs' = [dirs EXCEPT ![proc[p].w].rows = FALSE]

OwnerBacksUp(p) ==
  /\ "backup" \in Commands
  /\ Free(p) /\ proc[p].target = None /\ ~Asked(p)
  /\ CloseGate(p, "export")
  /\ UNCHANGED <<flock, Rest>>

Exported(p) ==
  /\ proc[p].pc = "export"
  /\ Go(p, "up")
  /\ UNCHANGED <<dirs, flock, Rest>>

OwnerSwitches(p, v) ==
  /\ wr.child = p /\ v # proc[p].w
  /\ Free(p) /\ proc[p].target = None /\ ~Asked(p)
  /\ dirs[v].manifest /\ ~IsActive(v)
  /\ proc' = [proc EXCEPT ![p].pc = "gate", ![p].target = v]
  /\ dirs' = [dirs EXCEPT ![proc[p].w].rows = FALSE]
  /\ UNCHANGED <<flock, Rest>>

(* Inside the gate the target is looked at again, then written for the     *)
(* wrapper.                                                                *)
WriteTarget(p) ==
  /\ proc[p].pc = "gate"
  /\ IF IsActive(proc[p].target)
       THEN /\ proc' = [proc EXCEPT ![p].pc = "up", ![p].target = None]
            /\ UNCHANGED ctl
       ELSE ctl' = proc[p].target /\ Go(p, "written")
  /\ UNCHANGED <<dirs, flock, wr, births, events, undone>>

(* The gate's end is stored, and the backend is told to end; when storing  *)
(* it fails the target is taken back.                                      *)
SwitchDone(p) ==
  /\ proc[p].pc = "written"
  /\ proc' = [proc EXCEPT ![p].pc = "up", ![p].ending = TRUE]
  /\ UNCHANGED <<dirs, flock, Rest>>

SwitchFails(p) ==
  /\ proc[p].pc = "written" /\ events < MaxEvents
  /\ proc' = [proc EXCEPT ![p].pc = "up", ![p].target = None]
  /\ ctl' = IF ctl = proc[p].target THEN None ELSE ctl
  /\ events' = events + 1
  /\ UNCHANGED <<dirs, flock, wr, births, undone>>

(* The services stop; a row whose process is not confirmed gone stays.     *)
Shutdown(p) ==
  /\ Free(p) /\ Asked(p)
  /\ \E left \in {FALSE, D(p).rows} :
       /\ left => events < MaxEvents
       /\ events' = IF left THEN events + 1 ELSE events
       /\ dirs' = [dirs EXCEPT ![proc[p].w].rows = left]
  /\ proc' = [proc EXCEPT ![p].pc = "release", ![p].ending = TRUE]
  /\ UNCHANGED <<flock, wr, ctl, births, undone>>

(* A process is killed: its threads and its locks go with it.              *)
Crash(p) ==
  /\ Alive(p) /\ proc[p].host = None /\ events < MaxEvents
  /\ proc' = [q \in Pids |-> IF q = p \/ proc[q].host = p THEN Idle ELSE proc[q]]
  /\ flock' = [w \in Worlds |-> IF flock[w] # None /\ (flock[w] = p \/ proc[flock[w]].host = p)
                                  THEN None ELSE flock[w]]
  /\ events' = events + 1
  /\ UNCHANGED <<dirs, wr, ctl, births, undone>>

-----------------------------------------------------------------------------
(* run_world_server: make sure of the world, run a backend on it, and      *)
(* follow the control file when it ends.                                   *)

(* The wrapper makes a missing world itself; here in one step, as the      *)
(* backend it starts makes it in the same way step by step.                *)
WrapperEnsures ==
  LET d == dirs[wr.world] IN
  /\ wr.pc = "ensure"
  /\ IF d.manifest THEN wr' = [wr EXCEPT !.pc = "spawn"] /\ UNCHANGED dirs
     ELSE IF d.id # -1 /\ (d.data \/ d.lease # NoLease) THEN wr' = [wr EXCEPT !.pc = "ended"] /\ UNCHANGED dirs
     ELSE /\ dirs' = [dirs EXCEPT ![wr.world] = [Whole EXCEPT !.id = IF d.id = -1 THEN 0 ELSE d.id]]
          /\ wr' = [wr EXCEPT !.pc = "spawn"]
  /\ UNCHANGED <<flock, proc, ctl, births, events, undone>>

Spawn(p) ==
  /\ wr.pc = "spawn"
  /\ Launch(p, "serve", wr.world, None)
  /\ wr' = [wr EXCEPT !.pc = "wait", !.child = p]

Waited ==
  /\ wr.pc = "wait" /\ ~Alive(wr.child)
  /\ IF wr.stopped \/ ctl = None
       THEN wr' = [wr EXCEPT !.pc = "ended", !.child = None] /\ UNCHANGED ctl
       ELSE wr' = [wr EXCEPT !.pc = "ensure", !.child = None, !.world = ctl] /\ ctl' = None
  /\ UNCHANGED <<dirs, flock, proc, births, events, undone>>

UserStops ==
  /\ wr.pc = "wait" /\ ~wr.stopped
  /\ wr' = [wr EXCEPT !.stopped = TRUE]
  /\ UNCHANGED <<dirs, flock, proc, ctl, births, events, undone>>

WrapperDies ==
  /\ wr.pc = "wait" /\ events < MaxEvents
  /\ wr' = [wr EXCEPT !.pc = "dead"]
  /\ events' = events + 1
  /\ UNCHANGED <<dirs, flock, proc, ctl, births, undone>>

-----------------------------------------------------------------------------
Step(p) ==
  \/ Look(p) \/ Ensure(p) \/ MakeDir(p) \/ FillNew(p) \/ Fill(p) \/ WriteManifest(p) \/ CopyLegacy(p)
  \/ TryLock(p) \/ Claim(p) \/ Release(p) \/ CheckRows(p) \/ Archived(p) \/ Rename(p)
  \/ Started(p) \/ Exported(p) \/ WriteTarget(p) \/ SwitchDone(p) \/ Shutdown(p)

Wrapper == WrapperEnsures \/ (\E p \in Pids : Spawn(p)) \/ Waited

Next ==
  \/ \E p \in Pids : Step(p) \/ RunProcess(p) \/ OwnerBacksUp(p) \/ SwitchFails(p) \/ Crash(p)
  \/ \E p \in Pids, w \in Worlds : OwnerSwitches(p, w) \/ \E job \in Jobs : RunCommand(p, job, w)
  \/ \E p, q \in Pids, w \in Worlds : OwnerCreates(p, q, w)
  \/ Wrapper \/ UserStops \/ WrapperDies

Spec == Init /\ [][Next]_vars

-----------------------------------------------------------------------------
(* Properties *)

Owns(p) == proc[p].got # -1 /\ proc[p].pc \notin {"off", "release"}

(* A world in use stands: the directory a backend serves, or a command     *)
(* backs up or deletes, is the one it took, still complete, and the lease  *)
(* in it names that incarnation, so no other process owns the world.  The  *)
(* one thing that can take it is the clean-up of a creation that failed    *)
(* under the same name.  (WorldManager.acquire, create, delete.)           *)
OwnedStands ==
  \A p \in Pids : Owns(p) /\ proc[p].w \notin undone =>
    LET d == D(p) IN d.id = proc[p].got /\ d.manifest /\ d.lease = Mine(p)
=============================================================================
