-------------------------- MODULE RuntimeRegistry --------------------------
(***************************************************************************)
(* Commands and background services of one World: the rows that count       *)
(* against three nested quotas and lease a port (runtime/registry.py), the  *)
(* calls and hosts that own the processes (runtime/manager.py), the process *)
(* itself under its supervisor (workspaces/shell_supervisor.py,             *)
(* workspaces/commands.py), stop requests, the clean-up of a scope, the end *)
(* of the backend and its recovery at the next start.                       *)
(*                                                                          *)
(* One action is one database transaction or one stretch of code without an *)
(* await that another task can notice.  The six terminal states of a row    *)
(* differ only in what they tell the reader: all are "ended".  A process    *)
(* means the processes a script started: "escaped" are those that outlive   *)
(* a supervisor which could not reap them.  A command is killed with its    *)
(* whole group, so it is one process here.                                  *)
(***************************************************************************)
EXTENDS Naturals, FiniteSets

CONSTANTS
  Entries,       \* tool calls that start a command or a service
  Services,      \* those that start a background service
  Ports,
  PortOf,        \* the port a service asks for
  Scopes,        \* World, workspaces and conversations
  World,
  Members,       \* the entries that belong to a scope
  Limits,        \* the values a scope's limit may be given
  DefaultLimit,
  None,
  SlowReads,     \* one row read may outlast a whole start of a service
  MaxEvents      \* bound on crashes, reboots, faults, edits, clean-ups together

ASSUME RuntimeAssumption ==
  /\ Services \subseteq Entries /\ World \in Scopes /\ None \notin Entries \cup Scopes
  /\ PortOf \in [Services -> Ports]
  /\ IsFiniteSet(Entries) /\ Members \in [Scopes -> SUBSET Entries] /\ Members[World] = Entries
  /\ Limits \subseteq Nat \ {0} /\ DefaultLimit \in Limits
  /\ SlowReads \in BOOLEAN
  /\ MaxEvents \in Nat

VARIABLES
  row,        \* runtime_entries: state, pid stored, from an earlier boot
  call,       \* the tool call of an entry: where it is, cancellation to be thrown
  host,       \* the host task of a service: where it is, stop set, reaping proved
  ready,      \* the future the start of a service waits for
  proc,       \* the operating system's view of an entry's processes
  receipt,    \* entries whose supervisor left a receipt on disk
  proof,      \* entries whose supervisor wrote to the proof pipe
  stop,       \* the shared stop task of an entry
  seen,       \* what that task knows from its reads
  cleanup,    \* the clean-up that holds cleanup_lock
  ops,        \* clean-up operations in the database, as <<scope, state>>
  closing,    \* the World's gate
  limit,      \* the limit of each scope
  backend,    \* the backend process: down, recovering rows, or serving
  count       \* how often each bounded thing has happened

vars == <<row, call, host, ready, proc, receipt, proof, stop, seen, cleanup, ops,
          closing, limit, backend, count>>

Active == {"pending", "starting", "waiting_ready", "ready", "running", "stopping",
           "cleanup_required"}
NoRow == [state |-> "none", pid |-> FALSE, old |-> FALSE]
NoHost == [pc |-> "none", stop |-> FALSE, gone |-> FALSE]
NoSight == [host |-> FALSE, pid |-> FALSE, unsure |-> FALSE]
NoCleanup == [pc |-> "none", scope |-> None, left |-> {}, at |-> None, failed |-> FALSE]
Serving == backend.pc = "serving"

\* Processes that execute the script of r.
Executes(r) == proc[r] \in {"script", "escaped"}
IsActive(r) == row[r].state \in Active
Ended(r) == row[r].state = "ended"
ScopesOf(r) == {s \in Scopes : r \in Members[s]}
Used(s) == Cardinality({r \in Members[s] : IsActive(r)})
Waiting(r) == call[r].pc \notin {"idle", "done"}
HasHost(r) == host[r].pc # "none"
HostDone(r) == host[r].pc \in {"none", "kept"}
\* The control pipe of a service is open while its host has not closed it.
Controlled(r) == Serving /\ host[r].pc \in {"check", "row", "script", "probe"}

Init ==
  /\ row = [r \in Entries |-> NoRow]
  /\ call = [r \in Entries |-> [pc |-> "idle", thrown |-> FALSE]]
  /\ host = [r \in Entries |-> NoHost]
  /\ ready = [r \in Entries |-> "no"]
  /\ proc = [r \in Entries |-> "none"]
  /\ receipt = {} /\ proof = {}
  /\ stop = [r \in Entries |-> "none"] /\ seen = [r \in Entries |-> NoSight]
  /\ cleanup = NoCleanup /\ ops = {} /\ closing = FALSE
  /\ limit = [s \in Scopes |-> DefaultLimit]
  /\ backend = [pc |-> "serving", todo |-> {}]
  /\ count = [fault |-> 0, other |-> 0]

Events == count.fault + count.other
Counted(what) == count' = [count EXCEPT ![what] = @ + 1]
Set(r, state) == [row EXCEPT ![r].state = state]
SetWithPid(r, state) == [row EXCEPT ![r].state = state, ![r].pid = TRUE]
EarlyOnly == {"open", "spawned", "checked", "deliver", "run"}
\* A cancellation that has been thrown, or that comes too late, is over.
Interruptible == {"open", "spawned", "checked", "deliver", "run", "hosting"}
CallTo(r, pc) ==
  call' = [call EXCEPT ![r] = [pc |-> pc, thrown |-> @.thrown /\ pc \in Interruptible]]
HostTo(r, pc) == host' = [host EXCEPT ![r].pc = pc]

-----------------------------------------------------------------------------
(* The registry.                                                            *)

GateIgnoring(states, r) ==
  ~closing /\ ~\E s \in ScopesOf(r), o \in states : <<s, o>> \in ops
FailedOnly(r, adding) ==
  /\ GateIgnoring({"failed"}, r)
  /\ \A s \in ScopesOf(r) : Used(s) + adding <= limit[s]

\* No unfinished clean-up of a scope of r, and room in each of them.
Admission(r, adding) ==
  /\ GateIgnoring({"running", "orphan", "failed"}, r)
  /\ \A s \in ScopesOf(r) : Used(s) + adding <= limit[s]

\* leased_port is cleared by the end of the row only.
Leased(p) == \E q \in Services : PortOf[q] = p /\ IsActive(q)

CanReserve(r) ==
  Admission(r, 1) /\ (r \in Services => ~Leased(PortOf[r]))

CanStart(r) == row[r].state \in {"pending", "starting"} /\ Admission(r, 0)

\* change(): an ended row stays as it is.
Changed(r, new) == IF Ended(r) THEN row ELSE new

\* finish(): a row with a process ends only when its reaping is verified.
MayFinish(r, verified) == verified \/ ~row[r].pid

-----------------------------------------------------------------------------
(* A tool call.  The wait for an approval lies in "open".                   *)

Reserve(r) ==
  /\ Serving /\ call[r].pc = "idle"
  /\ IF CanReserve(r)
     THEN /\ row' = Set(r, "pending")
          /\ CallTo(r, "open")
     ELSE /\ row' = row
          /\ CallTo(r, "done")
  /\ UNCHANGED <<host, ready, proc, receipt, proof, stop, seen, cleanup, ops, closing,
                 limit, backend, count>>

Cancel(r) ==
  /\ Serving /\ call[r].pc \in Interruptible /\ ~call[r].thrown
  /\ call' = [call EXCEPT ![r].thrown = TRUE]
  /\ UNCHANGED <<row, host, ready, proc, receipt, proof, stop, seen, cleanup, ops, closing,
                 limit, backend, count>>

\* run_process: the process exists and waits for its script on stdin.
Spawn(r) ==
  /\ Serving /\ r \notin Services /\ call[r].pc = "open" /\ ~call[r].thrown
  /\ proc' = [proc EXCEPT ![r] = "idle"]
  /\ CallTo(r, "spawned")
  /\ UNCHANGED <<row, host, ready, receipt, proof, stop, seen, cleanup, ops, closing, limit,
                 backend, count>>

\* The command is refused, or stopped, before it has a process.
OpenEnds(r) ==
  /\ Serving /\ r \notin Services /\ call[r].pc = "open"
  /\ CallTo(r, "close")
  /\ UNCHANGED <<row, host, ready, proc, receipt, proof, stop, seen, cleanup, ops, closing,
                 limit, backend, count>>

AttachCheck(r) ==
  /\ Serving /\ call[r].pc = "spawned"
  /\ CallTo(r, IF CanStart(r) THEN "checked" ELSE "reap")
  /\ UNCHANGED <<row, host, ready, proc, receipt, proof, stop, seen, cleanup, ops, closing,
                 limit, backend, count>>

AttachedRow(r) == Changed(r, SetWithPid(r, "running"))

\* The registration is awaited to its end whatever is thrown meanwhile.
Attach(r) ==
  /\ Serving /\ call[r].pc = "checked"
  /\ row' = AttachedRow(r)
  /\ CallTo(r, IF call[r].thrown THEN "reap" ELSE "deliver")
  /\ UNCHANGED <<host, ready, proc, receipt, proof, stop, seen, cleanup, ops, closing, limit,
                 backend, count>>

Deliver(r) ==
  /\ Serving /\ call[r].pc = "deliver"
  /\ proc' = [proc EXCEPT ![r] = "script"]
  /\ CallTo(r, "run")
  /\ UNCHANGED <<row, host, ready, receipt, proof, stop, seen, cleanup, ops, closing, limit,
                 backend, count>>

\* The process has exited, the timeout or a cancellation has come.
RunEnds(r) ==
  /\ Serving /\ call[r].pc = "run"
  /\ CallTo(r, "reap")
  /\ UNCHANGED <<row, host, ready, proc, receipt, proof, stop, seen, cleanup, ops, closing,
                 limit, backend, count>>

Killed(r) == [proc EXCEPT ![r] = "dead"]

\* The clean-up of run_process kills the group and waits, cancelled or not.
ReapCommand(r) ==
  /\ Serving /\ call[r].pc = "reap"
  /\ proc' = Killed(r)
  /\ CallTo(r, "close")
  /\ UNCHANGED <<row, host, ready, receipt, proof, stop, seen, cleanup, ops, closing, limit,
                 backend, count>>

\* close(): the process that no row names yet is stored first.
CloseHandoff(r) ==
  /\ Serving /\ call[r].pc = "close" /\ IsActive(r) /\ ~row[r].pid /\ proc[r] # "none"
  /\ row' = [row EXCEPT ![r].pid = TRUE]
  /\ UNCHANGED <<call, host, ready, proc, receipt, proof, stop, seen, cleanup, ops, closing,
                 limit, backend, count>>

CloseCommand(r) ==
  /\ Serving /\ call[r].pc = "close"
  /\ IsActive(r) => row[r].pid \/ proc[r] = "none"
  /\ row' = IF IsActive(r)
            THEN Set(r, IF ~row[r].pid \/ proc[r] = "dead" THEN "ended" ELSE "cleanup_required")
            ELSE row
  /\ CallTo(r, "done")
  /\ UNCHANGED <<host, ready, proc, receipt, proof, stop, seen, cleanup, ops, closing, limit,
                 backend, count>>

\* The database fails in close(): the handles are forgotten all the same.
CloseFault(r) ==
  /\ Serving /\ call[r].pc = "close" /\ Events < MaxEvents
  /\ CallTo(r, "done")
  /\ Counted("fault")
  /\ UNCHANGED <<row, host, ready, proc, receipt, proof, stop, seen, cleanup, ops, closing,
                 limit, backend>>

-----------------------------------------------------------------------------
(* The start of a service.                                                  *)

\* A stop that found no host yet does not read the row all through the start.
ReadIsOver(r) == SlowReads \/ stop[r] # "read"

\* The approval is granted and the start still allowed: the host begins.
BeginHost(r) ==
  /\ Serving /\ r \in Services /\ call[r].pc = "open" /\ ~call[r].thrown /\ CanStart(r)
  /\ host' = [host EXCEPT ![r] = [NoHost EXCEPT !.pc = "prepare"]]
  /\ CallTo(r, "hosting")
  /\ UNCHANGED <<row, ready, proc, receipt, proof, stop, seen, cleanup, ops, closing, limit,
                 backend, count>>

StartRefused(r) ==
  /\ Serving /\ r \in Services /\ call[r].pc = "open"
  /\ CallTo(r, "abort")
  /\ UNCHANGED <<row, host, ready, proc, receipt, proof, stop, seen, cleanup, ops, closing,
                 limit, backend, count>>

\* From the answer of the host to the return there is no await.
StartReturns(r) ==
  /\ Serving /\ call[r].pc = "hosting" /\ ready[r] = "ready" /\ ~call[r].thrown
  /\ ReadIsOver(r)
  /\ CallTo(r, "done")
  /\ UNCHANGED <<row, host, ready, proc, receipt, proof, stop, seen, cleanup, ops, closing,
                 limit, backend, count>>

StartFails(r) ==
  /\ Serving /\ call[r].pc = "hosting"
  /\ call[r].thrown \/ ready[r] = "failed"
  /\ CallTo(r, "abort")
  /\ UNCHANGED <<row, host, ready, proc, receipt, proof, stop, seen, cleanup, ops, closing,
                 limit, backend, count>>

AbortedRow(r) == IF IsActive(r) /\ MayFinish(r, FALSE) THEN Set(r, "ended") ELSE row

\* A host is told to stop and awaited; without one nothing was started.
StartAborts(r) ==
  /\ Serving /\ call[r].pc = "abort"
  /\ \/ /\ HasHost(r) /\ ~host[r].stop
        /\ host' = [host EXCEPT ![r].stop = TRUE]
        /\ UNCHANGED <<row, call>>
     \/ /\ host[r].pc = "kept" /\ host[r].stop /\ ReadIsOver(r)
        /\ CallTo(r, "done")
        /\ UNCHANGED <<row, host>>
     \/ /\ ~HasHost(r) /\ ReadIsOver(r)
        /\ row' = AbortedRow(r)
        /\ CallTo(r, "done")
        /\ UNCHANGED host
  /\ UNCHANGED <<ready, proc, receipt, proof, stop, seen, cleanup, ops, closing, limit,
                 backend, count>>

-----------------------------------------------------------------------------
(* The host of a service.                                                   *)

\* Authorisation and the port are checked again; the receipt is prepared.
HostPrepare(r) ==
  /\ Serving /\ host[r].pc = "prepare"
  /\ \/ /\ row' = Changed(r, Set(r, "starting"))
        /\ HostTo(r, "spawn")
     \/ /\ HostTo(r, "close")
        /\ UNCHANGED row
  /\ UNCHANGED <<call, ready, proc, receipt, proof, stop, seen, cleanup, ops, closing, limit,
                 backend, count>>

HostSpawn(r) ==
  /\ Serving /\ host[r].pc = "spawn"
  /\ proc' = [proc EXCEPT ![r] = "idle"]
  /\ HostTo(r, "check")
  /\ UNCHANGED <<row, call, ready, receipt, proof, stop, seen, cleanup, ops, closing, limit,
                 backend, count>>

HostCheck(r) ==
  /\ Serving /\ host[r].pc = "check"
  /\ HostTo(r, IF CanStart(r) THEN "row" ELSE "close")
  /\ UNCHANGED <<row, call, ready, proc, receipt, proof, stop, seen, cleanup, ops, closing,
                 limit, backend, count>>

HostedRow(r) == Changed(r, SetWithPid(r, "waiting_ready"))

HostRow(r) ==
  /\ Serving /\ host[r].pc = "row"
  /\ row' = HostedRow(r)
  /\ HostTo(r, "script")
  /\ UNCHANGED <<call, ready, proc, receipt, proof, stop, seen, cleanup, ops, closing, limit,
                 backend, count>>

\* The authorisation is checked once more before the script is delivered.
HostDeliver(r) ==
  /\ Serving /\ host[r].pc = "script"
  /\ \/ /\ proc[r] = "idle"
        /\ proc' = [proc EXCEPT ![r] = "script"]
        /\ HostTo(r, "probe")
     \/ /\ HostTo(r, "close")
        /\ UNCHANGED proc
  /\ UNCHANGED <<row, call, ready, receipt, proof, stop, seen, cleanup, ops, closing, limit,
                 backend, count>>

HostReady(r) ==
  /\ Serving /\ host[r].pc = "probe" /\ ~host[r].stop /\ proc[r] = "script" /\ ready[r] = "no"
  /\ row' = Changed(r, Set(r, "ready"))
  /\ ready' = [ready EXCEPT ![r] = "ready"]
  /\ UNCHANGED <<call, host, proc, receipt, proof, stop, seen, cleanup, ops, closing, limit,
                 backend, count>>

\* A stop, an exit, the end of the lifetime or the ready timeout: the control
\* pipe is closed, and the row says so with the process it names.
HostCloses(r) ==
  /\ Serving /\ host[r].pc \in {"probe", "close"}
  /\ row' = IF proc[r] = "none" THEN row ELSE Changed(r, SetWithPid(r, "stopping"))
  /\ HostTo(r, "reap")
  /\ UNCHANGED <<call, ready, proc, receipt, proof, stop, seen, cleanup, ops, closing, limit,
                 backend, count>>

ExitIsProof(r) == proc[r] \in {"none", "dead", "escaped"}
Verified(r) == proc[r] = "none" \/ r \in proof

\* The supervisor is awaited, and killed when it does not end in time; only
\* its own word is a proof that nothing of the script is left.
HostReaps(r) ==
  /\ Serving /\ host[r].pc = "reap"
  /\ \/ /\ proc[r] \in {"none", "dead", "escaped"}
        /\ UNCHANGED proc
     \/ /\ proc[r] = "idle"
        /\ proc' = [proc EXCEPT ![r] = "dead"]
     \/ /\ proc[r] = "script"
        /\ \E left \in {"dead", "escaped"} : proc' = [proc EXCEPT ![r] = left]
  /\ host' = [host EXCEPT ![r].pc = "store", ![r].gone = Verified(r)]
  /\ UNCHANGED <<row, call, ready, receipt, proof, stop, seen, cleanup, ops, closing, limit,
                 backend, count>>

Told(r) == IF ready[r] = "no" THEN [ready EXCEPT ![r] = "failed"] ELSE ready

HostStores(r) ==
  /\ Serving /\ host[r].pc = "store"
  /\ row' = Changed(r, Set(r, IF host[r].gone THEN "ended" ELSE "cleanup_required"))
  /\ ready' = Told(r)
  /\ host' = [host EXCEPT ![r] = IF host[r].gone THEN NoHost ELSE [@ EXCEPT !.pc = "kept"]]
  /\ receipt' = IF host[r].gone THEN receipt \ {r} ELSE receipt
  /\ proof' = proof \ {r}
  /\ UNCHANGED <<call, proc, stop, seen, cleanup, ops, closing, limit, backend, count>>

\* The database fails: the evidence stays with the host for a later stop.
HostStoreFault(r) ==
  /\ Serving /\ host[r].pc = "store" /\ Events < MaxEvents
  /\ ready' = Told(r)
  /\ HostTo(r, "kept")
  /\ Counted("fault")
  /\ UNCHANGED <<row, call, proc, receipt, proof, stop, seen, cleanup, ops, closing, limit,
                 backend>>

-----------------------------------------------------------------------------
(* The operating system and the supervisor.                                 *)

CommandExits(r) ==
  /\ r \notin Services
  /\ \/ proc[r] = "script"
     \/ proc[r] = "idle" /\ ~Serving       \* stdin ends without a script
  /\ proc' = [proc EXCEPT ![r] = "dead"]
  /\ UNCHANGED <<row, call, host, ready, receipt, proof, stop, seen, cleanup, ops, closing,
                 limit, backend, count>>

\* The script ends, or the control pipe does: what is left is killed and
\* reaped, which may fail, as may the receipt's file.
SupervisorEnds(r) ==
  /\ r \in Services
  /\ proc[r] = "script" \/ (proc[r] = "idle" /\ ~Controlled(r))
  /\ \E reaped, written \in BOOLEAN :
       /\ proc[r] = "idle" => reaped
       /\ proc' = [proc EXCEPT ![r] = IF reaped THEN "dead" ELSE "escaped"]
       /\ receipt' = IF reaped /\ written THEN receipt \cup {r} ELSE receipt
       /\ proof' = IF reaped THEN proof \cup {r} ELSE proof
  /\ UNCHANGED <<row, call, host, ready, stop, seen, cleanup, ops, closing, limit, backend,
                 count>>

-----------------------------------------------------------------------------
(* Stop requests.  The requester waits 12 seconds; the task goes on.        *)

\* What a stop task reads when it begins: the host, then the row.
Sight(r) == [host |-> HasHost(r), pid |-> row[r].pid,
             unsure |-> row[r].state = "cleanup_required"]

\* On a row that has ended the task changes nothing.
StopAsk(r) ==
  /\ Serving /\ IsActive(r) /\ stop[r] = "none"
  /\ stop' = [stop EXCEPT ![r] = "read"]
  /\ seen' = [seen EXCEPT ![r] = Sight(r)]
  /\ UNCHANGED <<row, call, host, ready, proc, receipt, proof, cleanup, ops, closing, limit,
                 backend, count>>

HasReceipt(r) == r \in receipt /\ proc[r] \in {"dead", "escaped"}
\* What an entry without an owner shows: no process, another boot of the
\* machine, the receipt of a service or the end of a command.
Unowned(r) ==
  \/ ~seen[r].pid
  \/ row[r].old
  \/ r \in Services /\ HasReceipt(r)
  \/ r \notin Services /\ ~seen[r].unsure /\ proc[r] \in {"none", "dead"}

StopSettles(r, state) ==
  /\ row' = Changed(r, Set(r, state))
  /\ receipt' = IF state = "ended" THEN receipt \ {r} ELSE receipt
  /\ stop' = [stop EXCEPT ![r] = "none"]
  /\ UNCHANGED call

\* A host that has ended holds, or finds, the evidence; a live one is told.
StopHost(r) ==
  \/ /\ ~HasHost(r) /\ stop' = [stop EXCEPT ![r] = "none"]
     /\ UNCHANGED <<row, receipt, host, call>>
  \/ /\ host[r].pc = "kept" /\ (host[r].gone \/ HasReceipt(r))
     /\ StopSettles(r, "ended")
     /\ host' = [host EXCEPT ![r] = NoHost]
  \/ /\ HasHost(r) /\ ~(host[r].pc = "kept" /\ (host[r].gone \/ HasReceipt(r)))
     /\ host' = [host EXCEPT ![r].stop = TRUE]
     /\ stop' = [stop EXCEPT ![r] = "wait"]
     /\ UNCHANGED <<row, receipt, call>>

StopActs(r) ==
  /\ Serving /\ stop[r] = "read"
  /\ \/ /\ seen[r].host
        /\ StopHost(r)
     \/ /\ ~seen[r].host /\ Waiting(r)
        /\ call' = [call EXCEPT ![r].thrown = call[r].pc \in Interruptible]
        /\ stop' = [stop EXCEPT ![r] = "wait"]
        /\ UNCHANGED <<row, receipt, host>>
     \/ /\ ~seen[r].host /\ ~Waiting(r)
        /\ StopSettles(r, IF Unowned(r) THEN "ended" ELSE "cleanup_required")
        /\ UNCHANGED host
  /\ seen' = [seen EXCEPT ![r] =
       [NoSight EXCEPT !.host = seen[r].host /\ stop'[r] = "wait"]]
  /\ UNCHANGED <<ready, proc, proof, cleanup, ops, closing, limit, backend, count>>

StopWaited(r) ==
  /\ Serving /\ stop[r] = "wait"
  /\ IF seen[r].host THEN HostDone(r) ELSE ~Waiting(r)
  /\ stop' = [stop EXCEPT ![r] = "none"]
  /\ seen' = [seen EXCEPT ![r] = NoSight]
  /\ UNCHANGED <<row, call, host, ready, proc, receipt, proof, cleanup, ops, closing, limit,
                 backend, count>>

-----------------------------------------------------------------------------
(* The clean-up of a scope, one at a time.                                  *)

\* The operation and its frozen targets are stored in one transaction.
BeginCleanup(s) ==
  /\ Serving /\ cleanup.pc = "none" /\ Events < MaxEvents
  /\ ops' = ops \cup {<<s, "running">>}
  /\ cleanup' = [pc |-> "drain", scope |-> s, at |-> None, failed |-> FALSE,
                 left |-> {r \in Members[s] : IsActive(r)}]
  /\ Counted("other")
  /\ UNCHANGED <<row, call, host, ready, proc, receipt, proof, stop, seen, closing, limit,
                 backend>>

\* The gate of the World closes before its clean-up begins.
BeginShutdown ==
  /\ Serving /\ cleanup.pc = "none" /\ ~closing /\ Events < MaxEvents
  /\ closing' = TRUE
  /\ UNCHANGED <<row, call, host, ready, proc, receipt, proof, stop, seen, cleanup, ops, limit,
                 backend, count>>

\* stop_one joins the stop task that runs already.
DrainAsks(r) ==
  /\ Serving /\ cleanup.pc = "drain" /\ cleanup.at = None /\ r \in cleanup.left
  /\ cleanup' = [cleanup EXCEPT !.at = r]
  /\ LET begins == IsActive(r) /\ stop[r] = "none"
     IN  /\ stop' = IF begins THEN [stop EXCEPT ![r] = "read"] ELSE stop
         /\ seen' = IF begins THEN [seen EXCEPT ![r] = Sight(r)] ELSE seen
  /\ UNCHANGED <<row, call, host, ready, proc, receipt, proof, ops, closing, limit, backend,
                 count>>

\* The result, or 12 seconds without one; a failed target ends nothing.
DrainNext ==
  /\ Serving /\ cleanup.pc = "drain" /\ cleanup.at # None
  /\ LET r == cleanup.at
         settled == stop[r] = "none"
     IN  cleanup' = [cleanup EXCEPT !.at = None, !.left = @ \ {r},
                       !.failed = @ \/ ~settled \/ ~Ended(r)]
  /\ UNCHANGED <<row, call, host, ready, proc, receipt, proof, stop, seen, ops, closing, limit,
                 backend, count>>

NothingActive(s) == Used(s) = 0

DrainEnds ==
  /\ Serving /\ cleanup.pc = "drain" /\ cleanup.left = {}
  /\ cleanup' = [cleanup EXCEPT !.pc =
       IF ~cleanup.failed /\ NothingActive(cleanup.scope) THEN "body" ELSE "failed"]
  /\ UNCHANGED <<row, call, host, ready, proc, receipt, proof, stop, seen, ops, closing, limit,
                 backend, count>>

OpsAfter(success) ==
  LET s == cleanup.scope
      others == ops \ {<<s, "running">>}
  IN  IF success THEN others \ {<<s, "failed">>} ELSE others \cup {<<s, "failed">>}

\* The body may fail, and so may the audit after it.
EndCleanup ==
  /\ Serving /\ cleanup.pc \in {"body", "failed"}
  /\ \E success \in BOOLEAN :
       /\ success => cleanup.pc = "body"
       /\ ops' = OpsAfter(success)
  /\ cleanup' = NoCleanup
  /\ UNCHANGED <<row, call, host, ready, proc, receipt, proof, stop, seen, closing, limit,
                 backend, count>>

\* A lower limit stops nothing.
Configure(s) ==
  /\ Serving /\ cleanup.pc = "none" /\ Events < MaxEvents
  /\ \E n \in Limits \ {limit[s]} : limit' = [limit EXCEPT ![s] = n]
  /\ Counted("other")
  /\ UNCHANGED <<row, call, host, ready, proc, receipt, proof, stop, seen, cleanup, ops,
                 closing, backend>>

-----------------------------------------------------------------------------
(* The end of the backend, of the machine, and the next start.              *)

ForgetMemory ==
  /\ call' = [r \in Entries |->
       [pc |-> IF call[r].pc = "idle" THEN "idle" ELSE "done", thrown |-> FALSE]]
  /\ host' = [r \in Entries |-> NoHost]
  /\ ready' = [r \in Entries |-> "no"]
  /\ stop' = [r \in Entries |-> "none"] /\ seen' = [r \in Entries |-> NoSight]
  /\ cleanup' = NoCleanup
  /\ ops' = {<<o[1], IF o[2] = "running" THEN "orphan" ELSE o[2]>> : o \in ops}
  /\ proof' = {}
  /\ backend' = [pc |-> "down", todo |-> {}]

Crash ==
  /\ backend.pc # "down" /\ Events < MaxEvents
  /\ ForgetMemory
  /\ Counted("other")
  /\ UNCHANGED <<row, proc, receipt, closing, limit>>

\* The machine restarts: no process is left and the boot id has changed.
Reboot ==
  /\ Events < MaxEvents
  /\ ForgetMemory
  /\ proc' = [r \in Entries |-> IF proc[r] = "none" THEN "none" ELSE "dead"]
  /\ row' = [r \in Entries |-> [row[r] EXCEPT !.old = row[r].state # "none"]]
  /\ Counted("other")
  /\ UNCHANGED <<receipt, closing, limit>>

Restart ==
  /\ backend.pc = "down"
  /\ backend' = [pc |-> "recover", todo |-> {r \in Entries : IsActive(r)}]
  /\ UNCHANGED <<row, call, host, ready, proc, receipt, proof, stop, seen, cleanup, ops,
                 closing, limit, count>>

\* What the start accepts as the end of an old process; it waits two seconds
\* for it, so the answer is the one of some moment.
Gone(r) ==
  \/ row[r].old
  \/ ~row[r].pid
  \/ r \in Services /\ HasReceipt(r)
  \/ r \notin Services /\ row[r].state # "cleanup_required" /\ proc[r] \in {"none", "dead"}

RecoverRow(r) ==
  /\ backend.pc = "recover" /\ r \in backend.todo
  /\ row' = Set(r, IF Gone(r) THEN "ended" ELSE "cleanup_required")
  /\ receipt' = IF Gone(r) THEN receipt \ {r} ELSE receipt
  /\ backend' = [backend EXCEPT !.todo = @ \ {r}]
  /\ UNCHANGED <<call, host, ready, proc, proof, stop, seen, cleanup, ops, closing, limit,
                 count>>

\* The gate opens; operations of scopes with nothing active are superseded.
RecoverGate ==
  /\ backend.pc = "recover" /\ backend.todo = {}
  /\ closing' = FALSE
  /\ ops' = {o \in ops : Used(o[1]) > 0}
  /\ receipt' = {r \in receipt : ~Ended(r)}
  /\ backend' = [backend EXCEPT !.pc = "serving"]
  /\ UNCHANGED <<row, call, host, ready, proc, proof, stop, seen, cleanup, limit, count>>

-----------------------------------------------------------------------------
CallStep(r) ==
  \/ Reserve(r) \/ Cancel(r) \/ Spawn(r) \/ OpenEnds(r) \/ AttachCheck(r) \/ Attach(r)
  \/ Deliver(r) \/ RunEnds(r) \/ ReapCommand(r) \/ CloseHandoff(r) \/ CloseCommand(r)
  \/ CloseFault(r) \/ BeginHost(r) \/ StartRefused(r) \/ StartReturns(r) \/ StartFails(r)
  \/ StartAborts(r)
HostStep(r) ==
  \/ HostPrepare(r) \/ HostSpawn(r) \/ HostCheck(r) \/ HostRow(r) \/ HostDeliver(r)
  \/ HostReady(r) \/ HostCloses(r) \/ HostReaps(r) \/ HostStores(r) \/ HostStoreFault(r)
StopStep(r) == StopAsk(r) \/ StopActs(r) \/ StopWaited(r)
CleanupStep ==
  (\E s \in Scopes : BeginCleanup(s)) \/ (\E r \in Entries : DrainAsks(r)) \/ DrainNext
    \/ DrainEnds \/ EndCleanup

Next ==
  \/ \E r \in Entries :
       CallStep(r) \/ HostStep(r) \/ StopStep(r) \/ CommandExits(r) \/ SupervisorEnds(r)
  \/ CleanupStep \/ BeginShutdown
  \/ \E s \in Scopes : Configure(s)
  \/ Crash \/ Reboot \/ Restart \/ RecoverGate \/ \E r \in Entries : RecoverRow(r)

Spec == Init /\ [][Next]_vars

-----------------------------------------------------------------------------
TypeOK ==
  /\ row \in [Entries -> [state : Active \cup {"none", "ended"}, pid : BOOLEAN, old : BOOLEAN]]
  /\ call \in [Entries ->
       [pc : {"idle", "open", "spawned", "checked", "deliver", "run", "reap", "close", "hosting",
              "abort", "done"},
        thrown : BOOLEAN]]
  /\ host \in [Entries ->
       [pc : {"none", "prepare", "spawn", "check", "row", "script", "probe", "close", "reap",
              "store", "kept"},
        stop : BOOLEAN, gone : BOOLEAN]]
  /\ ready \in [Entries -> {"no", "ready", "failed"}]
  /\ proc \in [Entries -> {"none", "idle", "script", "escaped", "dead"}]
  /\ receipt \subseteq Services /\ proof \subseteq Services
  /\ stop \in [Entries -> {"none", "read", "wait"}]
  /\ seen \in [Entries -> [host : BOOLEAN, pid : BOOLEAN, unsure : BOOLEAN]]
  /\ cleanup \in [pc : {"none", "drain", "body", "failed"}, scope : Scopes \cup {None},
                  left : SUBSET Entries, at : Entries \cup {None}, failed : BOOLEAN]
  /\ ops \subseteq Scopes \X {"running", "orphan", "failed"}
  /\ closing \in BOOLEAN
  /\ limit \in [Scopes -> Limits]
  /\ backend \in [pc : {"down", "recover", "serving"}, todo : SUBSET Entries]
  /\ count \in [fault : Nat, other : Nat]

\* A slot and a port are given back only when nothing of the script runs any
\* more, through stops, kills, lost proofs, database faults, process death,
\* reboot and recovery (registry.finish: only confirmed reaping releases).
ReleasedIsGone == \A r \in Entries : Executes(r) => IsActive(r) /\ row[r].pid

\* While the resource of a cleaned scope is changed or deleted, no process of
\* the scope runs and none can be started by a call that was let in before.
BodyIsAlone ==
  cleanup.pc = "body" =>
    \A r \in Members[cleanup.scope] :
      /\ ~IsActive(r) /\ ~Executes(r)
      /\ call[r].pc \notin {"checked", "deliver", "run"} /\ HostDone(r)

\* When the wait of a stop is over, its target has ended or asks for a clean-up,
\* whatever state of the start or of the process the request met
\* (manager._stop_one), unless the database failed.
StopMeansStopped ==
  [][\A r \in Entries :
       stop[r] = "wait" /\ stop'[r] = "none" /\ Serving' /\ count.fault = 0
         => row[r].state \in {"ended", "cleanup_required"}]_vars
=============================================================================
