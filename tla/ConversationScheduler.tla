------------------------ MODULE ConversationScheduler ------------------------
(***************************************************************************)
(* The conversation scheduler (scheduling/conversation.py) with what it    *)
(* coordinates: the send handler that commits a batch of jobs and wakes    *)
(* the lane afterwards (routers/messages.py), the generation runner        *)
(* (services/chat.py), stop requests, orderly shutdown, process death and  *)
(* start-up recovery (db.py, main.py).                                     *)
(*                                                                         *)
(* One action is the code between two awaits, or one short transaction.    *)
(* A transaction is one step because SQLite serialises writers from the    *)
(* first DML on; where code decides on rows it read before its first DML    *)
(* (the stop handler and the start of the runner) the read is a step of    *)
(* its own, since other transactions may commit in between.                *)
(***************************************************************************)
EXTENDS Naturals, Sequences, FiniteSets

CONSTANTS
  Jobs,          \* rows of queue_jobs, each with its generation and execution
  Chains,        \* requests; each makes its jobs durable in one transaction
  ChainJobs,     \* the jobs of a chain, in target-role order
  Lanes,         \* wake-up queues: one per conversation, and Shared
  Shared,        \* the global queue of workflow jobs (_parallel_queue)
  Slots,         \* parallel workers (settings.workflow_parallelism)
  LaneOf,        \* the queue a chain's jobs are woken through
  NoJob,         \* what a worker without a job works on
  Ticked,        \* chains a workflow tick keeps waking
  Stoppers,      \* concurrent callers of stop_generations
  MaxWakes,      \* bound on repeated wake-ups
  MaxFaults,     \* bound on failing database replies
  MaxStarts,     \* bound on process starts
  MayCrash       \* whether the process may die at any point

ASSUME BoundsAssumption ==
  /\ MaxWakes \in Nat /\ MaxFaults \in Nat /\ MaxStarts \in Nat
  /\ MayCrash \in BOOLEAN

ASSUME ChainsAssumption ==
  /\ Shared \in Lanes
  /\ NoJob \notin Jobs
  /\ Slots \cap Lanes = {}
  /\ Ticked \subseteq Chains
  /\ LaneOf \in [Chains -> Lanes]
  /\ ChainJobs \in [Chains -> Seq(Jobs)]
  /\ \A c \in Chains \ Ticked : LaneOf[c] # Shared
  /\ \A c, d \in Chains : \A p \in DOMAIN ChainJobs[c], q \in DOMAIN ChainJobs[d] :
       ChainJobs[c][p] = ChainJobs[d][q] => c = d /\ p = q

Conversations == Lanes \ {Shared}

\* A conversation has one worker, created by the first wake-up; the slots
\* share one queue.
Workers == Conversations \cup Slots
Inbox(w) == IF w \in Slots THEN Shared ELSE w

JobsOf(c) == {ChainJobs[c][i] : i \in DOMAIN ChainJobs[c]}
TickedJobs == UNION {JobsOf(c) : c \in Ticked}

\* What a stop request may name: a whole chain, or one generation.
StopTargets == {JobsOf(c) : c \in Chains} \cup {{j} : j \in Jobs}

VARIABLES
  \* rows, which survive the process
  job, cancelReq, attempts,   \* queue_jobs
  gen, stopAt,                \* generations
  exec,                       \* agent_executions
  msg,                        \* the reply message of a generation
  \* the process
  phase,                      \* down, recovered, up, closing
  sent,                       \* no, committed, done: progress of a send request
  queue,                      \* lane -> wake-ups, oldest first
  pending,                    \* _parallel_pending
  claims,                     \* _claims
  wpc, cur,                   \* worker -> where it is, and its job
  wcancel,                    \* worker -> CancelledError is to be thrown in it
  active,                     \* _active: jobs whose runner task is registered
  rpc, outcome,               \* runner of a job, and the terminal it will write
  asked, deliver,             \* task.cancelling() > 0; CancelledError to be thrown
  spc, seenQueued, seenRunning, \* a stop request and the rows it read
  closingRuns,                \* active_runs of shutdown
  \* bounds and history
  wakes, faults, starts,
  replies                     \* how many reply messages a job produced

dbVars     == <<job, cancelReq, attempts, gen, stopAt, exec, msg>>
laneVars   == <<queue, pending>>
workerVars == <<wpc, cur, wcancel, claims, active>>
runnerVars == <<rpc, outcome, asked, deliver>>
stopVars   == <<spc, seenQueued, seenRunning>>
phaseVars  == <<phase, closingRuns, starts>>
vars == <<dbVars, laneVars, workerVars, runnerVars, stopVars, phaseVars,
          sent, wakes, faults, replies>>

JobEnd  == {"completed", "failed", "cancelled"}
GenEnd  == {"completed", "failed", "stopped"}
ExecEnd == GenEnd \cup {"interrupted"}
JobStatus  == {"none", "queued", "running"} \cup JobEnd
GenStatus  == {"none", "queued", "running"} \cup GenEnd
ExecStatus == {"none", "queued", "running"} \cup ExecEnd
MsgStatus  == {"none", "generating", "done", "stopped", "error", "interrupted"}

WorkerPC == {"dead", "idle", "taken", "permit", "denied", "wait", "finish", "failing"}
RunnerLive == {"new", "opened", "stream", "final", "handler", "stopping", "closing", "unwinding"}
RunnerPC == {"none"} \cup RunnerLive \cup {"ended", "cancelled", "raised"}

RowsOK ==
  /\ job \in [Jobs -> JobStatus] /\ gen \in [Jobs -> GenStatus]
  /\ exec \in [Jobs -> ExecStatus] /\ msg \in [Jobs -> MsgStatus]
  /\ cancelReq \in [Jobs -> BOOLEAN] /\ stopAt \in [Jobs -> BOOLEAN]
  /\ attempts \in [Jobs -> Nat] /\ replies \in [Jobs -> Nat]

LanesOK == queue \in [Lanes -> Seq(Jobs)] /\ pending \subseteq Jobs

\* A worker that is doing something has a job.
WorkersOK ==
  /\ claims \subseteq Jobs /\ active \subseteq Jobs
  /\ wpc \in [Workers -> WorkerPC]
  /\ cur \in [Workers -> Jobs \cup {NoJob}]
  /\ wcancel \in [Workers -> BOOLEAN]
  /\ \A w \in Workers : wpc[w] \notin {"dead", "idle"} => cur[w] \in Jobs

RunnersOK ==
  /\ rpc \in [Jobs -> RunnerPC] /\ outcome \in [Jobs -> GenEnd]
  /\ asked \in [Jobs -> BOOLEAN] /\ deliver \in [Jobs -> BOOLEAN]

StopsOK ==
  /\ spc \in [Stoppers -> {"idle", "read", "written"}]
  /\ seenQueued \in [Stoppers -> SUBSET Jobs]
  /\ seenRunning \in [Stoppers -> SUBSET Jobs]

ProcessOK ==
  /\ phase \in {"down", "recovered", "up", "closing"}
  /\ sent \in [Chains -> {"no", "committed", "done"}]
  /\ closingRuns \subseteq Jobs
  /\ wakes \in Nat /\ faults \in Nat /\ starts \in Nat

TypeOK == RowsOK /\ LanesOK /\ WorkersOK /\ RunnersOK /\ StopsOK /\ ProcessOK

-----------------------------------------------------------------------------
\* An empty process: no lane, worker, runner or request.
EmptyProcess ==
  /\ queue = [l \in Lanes |-> <<>>]
  /\ pending = {} /\ claims = {} /\ active = {} /\ closingRuns = {}
  /\ wpc = [w \in Workers |-> "dead"]
  /\ cur = [w \in Workers |-> NoJob]
  /\ wcancel = [w \in Workers |-> FALSE]
  /\ rpc = [j \in Jobs |-> "none"]
  /\ outcome = [j \in Jobs |-> "failed"]
  /\ asked = [j \in Jobs |-> FALSE]
  /\ deliver = [j \in Jobs |-> FALSE]
  /\ spc = [s \in Stoppers |-> "idle"]
  /\ seenQueued = [s \in Stoppers |-> {}]
  /\ seenRunning = [s \in Stoppers |-> {}]

\* The same, reached by a process that ends.
ProcessEnds ==
  /\ queue' = [l \in Lanes |-> <<>>]
  /\ pending' = {} /\ claims' = {} /\ active' = {} /\ closingRuns' = {}
  /\ wpc' = [w \in Workers |-> "dead"]
  /\ cur' = [w \in Workers |-> NoJob]
  /\ wcancel' = [w \in Workers |-> FALSE]
  /\ rpc' = [j \in Jobs |-> "none"]
  /\ outcome' = [j \in Jobs |-> "failed"]
  /\ asked' = [j \in Jobs |-> FALSE]
  /\ deliver' = [j \in Jobs |-> FALSE]
  /\ spc' = [s \in Stoppers |-> "idle"]
  /\ seenQueued' = [s \in Stoppers |-> {}]
  /\ seenRunning' = [s \in Stoppers |-> {}]

Init ==
  /\ job = [j \in Jobs |-> "none"] /\ gen = [j \in Jobs |-> "none"]
  /\ exec = [j \in Jobs |-> "none"] /\ msg = [j \in Jobs |-> "none"]
  /\ cancelReq = [j \in Jobs |-> FALSE] /\ stopAt = [j \in Jobs |-> FALSE]
  /\ attempts = [j \in Jobs |-> 0] /\ replies = [j \in Jobs |-> 0]
  /\ phase = "down" /\ sent = [c \in Chains |-> "no"]
  /\ EmptyProcess
  /\ wakes = 0 /\ faults = 0 /\ starts = 0

Fault ==
  /\ faults < MaxFaults
  /\ faults' = faults + 1

-----------------------------------------------------------------------------
\* Requests

\* One commit makes the jobs of a chain durable, all of them queued.
Send(c) ==
  /\ phase = "up" /\ sent[c] = "no"
  /\ job'  = [j \in Jobs |-> IF j \in JobsOf(c) THEN "queued" ELSE job[j]]
  /\ gen'  = [j \in Jobs |-> IF j \in JobsOf(c) THEN "queued" ELSE gen[j]]
  /\ exec' = [j \in Jobs |-> IF j \in JobsOf(c) THEN "queued" ELSE exec[j]]
  /\ sent' = [sent EXCEPT ![c] = "committed"]
  /\ UNCHANGED <<cancelReq, attempts, stopAt, msg, laneVars, workerVars,
                 runnerVars, stopVars, phaseVars, wakes, faults, replies>>

\* enqueue: put the job ids, and create the conversation's worker if it is gone.
Enqueue(l, js) ==
  /\ queue' = [queue EXCEPT ![l] = @ \o js]
  /\ wpc' = [w \in Workers |-> IF w = l /\ wpc[w] = "dead" THEN "idle" ELSE wpc[w]]
  /\ UNCHANGED <<cur, wcancel, claims, active>>

\* After its commit the send handler wakes the jobs in target-role order.
WakeChain(c) ==
  /\ phase = "up" /\ sent[c] = "committed" /\ c \notin Ticked
  /\ Enqueue(LaneOf[c], ChainJobs[c])
  /\ sent' = [sent EXCEPT ![c] = "done"]
  /\ UNCHANGED <<dbVars, pending, runnerVars, stopVars, phaseVars, wakes, faults, replies>>

\* A workflow tick wakes a job it read as queued; the read may be stale by now.
\* enqueue_parallel ignores a job that is already waiting or running there.
TickWake(c, j) ==
  /\ phase = "up" /\ sent[c] = "committed" /\ wakes < MaxWakes
  /\ wakes' = wakes + 1
  /\ IF LaneOf[c] = Shared
     THEN /\ queue' = [queue EXCEPT ![Shared] = IF j \in pending THEN @ ELSE @ \o <<j>>]
          /\ pending' = pending \cup {j}
          /\ UNCHANGED workerVars
     ELSE /\ Enqueue(LaneOf[c], <<j>>)
          /\ UNCHANGED pending
  /\ UNCHANGED <<dbVars, runnerVars, stopVars, phaseVars, sent, faults, replies>>

-----------------------------------------------------------------------------
\* Workers

\* Leaving _run_job normally or by an exception of its own: the claim is given
\* back; a slot also forgets the job once it is through with it.
Leave(w, pc) ==
  /\ claims' = claims \ {cur[w]}
  /\ wpc' = [wpc EXCEPT ![w] = pc]
  /\ IF pc = "idle"
     THEN /\ cur' = [cur EXCEPT ![w] = NoJob]
          /\ pending' = IF w \in Slots THEN pending \ {cur[w]} ELSE pending
     ELSE UNCHANGED <<cur, pending>>
  /\ UNCHANGED wcancel

\* The worker's task ends.  A conversation worker takes its queue with it; a
\* slot is not replaced while the process lives.
Die(w) ==
  /\ claims' = claims \ {cur[w]}
  /\ active' = active \ {cur[w]}
  /\ wpc' = [wpc EXCEPT ![w] = "dead"]
  /\ cur' = [cur EXCEPT ![w] = NoJob]
  /\ wcancel' = [wcancel EXCEPT ![w] = FALSE]
  /\ IF w \in Slots
     THEN pending' = pending \ {cur[w]} /\ UNCHANGED queue
     ELSE queue' = [queue EXCEPT ![w] = <<>>] /\ UNCHANGED pending

Take(w) ==
  /\ wpc[w] = "idle" /\ ~wcancel[w]
  /\ queue[Inbox(w)] # <<>>
  /\ LET j == Head(queue[Inbox(w)])
     IN  /\ queue' = [queue EXCEPT ![Inbox(w)] = Tail(@)]
         /\ IF j \in claims
            THEN /\ pending' = IF w \in Slots THEN pending \ {j} ELSE pending
                 /\ UNCHANGED <<wpc, cur, claims>>
            ELSE /\ claims' = claims \cup {j}
                 /\ cur' = [cur EXCEPT ![w] = j]
                 /\ wpc' = [wpc EXCEPT ![w] = "taken"]
                 /\ UNCHANGED pending
  /\ UNCHANGED <<dbVars, wcancel, active, runnerVars, stopVars, phaseVars,
                 sent, wakes, faults, replies>>

\* The rows of a claim: an orphan is cancelled, a request whose role is gone
\* fails, a valid one starts.
CancelOrphan(j) ==
  /\ job' = [job EXCEPT ![j] = "cancelled"]
  /\ cancelReq' = [cancelReq EXCEPT ![j] = TRUE]
  /\ UNCHANGED <<attempts, gen, stopAt, exec, msg>>

RejectRows(j) ==
  /\ job' = [job EXCEPT ![j] = "failed"]
  /\ gen' = [gen EXCEPT ![j] = "failed"]
  /\ exec' = [exec EXCEPT ![j] = "failed"]
  /\ UNCHANGED <<cancelReq, attempts, stopAt, msg>>

StartRows(j) ==
  /\ job' = [job EXCEPT ![j] = "running"]
  /\ attempts' = [attempts EXCEPT ![j] = @ + 1]
  /\ exec' = [exec EXCEPT ![j] = "running"]
  /\ UNCHANGED <<cancelReq, gen, stopAt, msg>>

Claim(w) ==
  LET j == cur[w] IN
  /\ wpc[w] = "taken"
  /\ IF job[j] # "queued" \/ cancelReq[j]
     THEN Leave(w, "idle") /\ UNCHANGED dbVars
     ELSE IF gen[j] # "queued"
     THEN Leave(w, "idle") /\ CancelOrphan(j)
     ELSE \/ Leave(w, "idle") /\ RejectRows(j)
          \/ /\ exec[j] = "queued"
             /\ StartRows(j)
             /\ wpc' = [wpc EXCEPT ![w] = "permit"]
             /\ UNCHANGED <<cur, claims, pending, wcancel>>
  /\ UNCHANGED <<queue, active, runnerVars, stopVars, phaseVars, sent, wakes, faults, replies>>

\* permit_generation said yes: create the runner task and register it.
Permit(w) ==
  LET j == cur[w] IN
  /\ wpc[w] = "permit" /\ ~wcancel[w]
  /\ wpc' = [wpc EXCEPT ![w] = "wait"]
  /\ rpc' = [rpc EXCEPT ![j] = "new"]
  /\ active' = active \cup {j}
  /\ UNCHANGED <<dbVars, laneVars, cur, wcancel, claims, outcome, asked, deliver,
                 stopVars, phaseVars, sent, wakes, faults, replies>>

\* Only a job of a workflow or an allocation can be refused.
PermitDenied(w) ==
  /\ wpc[w] = "permit" /\ ~wcancel[w] /\ cur[w] \in TickedJobs
  /\ wpc' = [wpc EXCEPT ![w] = "denied"]
  /\ UNCHANGED <<dbVars, laneVars, cur, wcancel, claims, active, runnerVars,
                 stopVars, phaseVars, sent, wakes, faults, replies>>

\* The execution is left open.
FailsJobOnly(j) ==
  /\ job' = [job EXCEPT ![j] = IF @ \in {"queued", "running"} THEN "failed" ELSE @]
  /\ gen' = [gen EXCEPT ![j] = IF @ \in {"queued", "running"} THEN "failed" ELSE @]
  /\ UNCHANGED <<cancelReq, attempts, stopAt, exec, msg>>

FailAnyway(j) ==
  /\ job' = [job EXCEPT ![j] = "failed"]
  /\ gen' = [gen EXCEPT ![j] = IF @ \in {"queued", "running"} THEN "failed" ELSE @]
  /\ exec' = [exec EXCEPT ![j] = IF @ \in {"queued", "running"} THEN "failed" ELSE @]
  /\ UNCHANGED <<cancelReq, attempts, stopAt, msg>>

\* _fail_job: a job that has not ended fails with what is still open of it.
FailRows(j) ==
  IF job[j] \in {"queued", "running"}
  THEN FailAnyway(j)
  ELSE UNCHANGED dbVars

FailJob(w) ==
  /\ wpc[w] \in {"denied", "failing"}
  /\ FailRows(cur[w])
  /\ Leave(w, "idle")
  /\ UNCHANGED <<queue, active, runnerVars, stopVars, phaseVars, sent, wakes, faults, replies>>

\* A database call fails although it was retried.  In _fail_job nothing catches it.
WorkerFault(w) ==
  /\ Fault
  /\ \/ /\ wpc[w] \in {"taken", "permit", "finish", "denied"}
        /\ Leave(w, "failing")
        /\ UNCHANGED <<queue, active>>
     \/ /\ wpc[w] = "failing"
        /\ Die(w)
  /\ UNCHANGED <<dbVars, runnerVars, stopVars, phaseVars, sent, wakes, replies>>

\* The runner task is done: forget it.
ForgetRunner(j) ==
  /\ rpc' = [rpc EXCEPT ![j] = "none"]
  /\ outcome' = [outcome EXCEPT ![j] = "failed"]
  /\ asked' = [asked EXCEPT ![j] = FALSE]
  /\ deliver' = [deliver EXCEPT ![j] = FALSE]

\* A cancelled runner ends the worker only when the worker itself is cancelled.
Reraises(j) == rpc[j] = "cancelled" /\ phase = "closing"

\* The await of the runner returns; an exception leaves _run_job for _fail_job.
Reap(w) ==
  LET j == cur[w] IN
  /\ wpc[w] = "wait" /\ ~wcancel[w]
  /\ rpc[j] \in {"ended", "cancelled", "raised"}
  /\ IF Reraises(j)
     THEN Die(w)
     ELSE /\ active' = active \ {j}
          /\ UNCHANGED queue
          /\ IF rpc[j] = "raised"
             THEN Leave(w, "failing")
             ELSE /\ wpc' = [wpc EXCEPT ![w] = "finish"]
                  /\ UNCHANGED <<cur, wcancel, claims, pending>>
  /\ ForgetRunner(j)
  /\ UNCHANGED <<dbVars, stopVars, phaseVars, sent, wakes, faults, replies>>

\* A generation the runner left open fails.
FinishedGen(j) == IF gen[j] \in GenEnd THEN gen[j] ELSE "failed"

FinishedJob(g) == IF g = "stopped" THEN "cancelled" ELSE g

\* finish: the job and the execution follow the generation.
Finish(w) ==
  LET j == cur[w]
      g == FinishedGen(j)
  IN
  /\ wpc[w] = "finish"
  /\ gen' = [gen EXCEPT ![j] = g]
  /\ job' = [job EXCEPT ![j] = FinishedJob(g)]
  /\ cancelReq' = [cancelReq EXCEPT ![j] = @ \/ g = "stopped"]
  /\ exec' = [exec EXCEPT ![j] = g]
  /\ Leave(w, "idle")
  /\ UNCHANGED <<attempts, stopAt, msg, queue, active, runnerVars, stopVars,
                 phaseVars, sent, wakes, faults, replies>>

\* The CancelledError of shutdown is thrown in the worker.
WorkerCancelled(w) ==
  /\ wcancel[w] /\ wpc[w] # "dead"
  /\ Die(w)
  /\ IF wpc[w] = "wait" THEN ForgetRunner(cur[w]) ELSE UNCHANGED runnerVars
  /\ UNCHANGED <<dbVars, stopVars, phaseVars, sent, wakes, faults, replies>>

-----------------------------------------------------------------------------
\* The runner of a job (run_scheduled_generation)

RunnerUnchanged == UNCHANGED <<laneVars, workerVars, stopVars, phaseVars, sent, wakes>>

\* The read that decides whether this generation is still to be run.
RunnerOpen(j) ==
  /\ rpc[j] = "new" /\ ~deliver[j]
  /\ rpc' = [rpc EXCEPT ![j] = IF gen[j] = "queued" THEN "opened" ELSE "closing"]
  /\ UNCHANGED <<dbVars, outcome, asked, deliver, faults, replies>>
  /\ RunnerUnchanged

\* The commit that creates the reply message and marks the generation running.
RunnerStart(j) ==
  /\ rpc[j] = "opened"
  /\ gen' = [gen EXCEPT ![j] = "running"]
  /\ msg' = [msg EXCEPT ![j] = "generating"]
  /\ replies' = [replies EXCEPT ![j] = @ + 1]
  /\ rpc' = [rpc EXCEPT ![j] = "stream"]
  /\ UNCHANGED <<job, cancelReq, attempts, stopAt, exec, outcome, asked, deliver, faults>>
  /\ RunnerUnchanged

\* The conversation was deleted or the role cannot reply any more.
RunnerUnavailable(j) ==
  /\ rpc[j] = "opened" /\ ~deliver[j]
  /\ rpc' = [rpc EXCEPT ![j] = "final"]
  /\ outcome' = [outcome EXCEPT ![j] = "failed"]
  /\ UNCHANGED <<dbVars, asked, deliver, faults, replies>>
  /\ RunnerUnchanged

\* The event stream of the model ends: done, out of budget, or a provider error.
RunnerStreamEnd(j) ==
  /\ rpc[j] = "stream" /\ ~deliver[j]
  /\ rpc' = [rpc EXCEPT ![j] = "final"]
  /\ outcome' \in {[outcome EXCEPT ![j] = e] : e \in GenEnd}
  /\ UNCHANGED <<dbVars, asked, deliver, faults, replies>>
  /\ RunnerUnchanged

\* An exception reaches one of the handlers that write a failure.
RunnerError(j) ==
  /\ rpc[j] \in {"opened", "stream"}
  /\ rpc' = [rpc EXCEPT ![j] = "handler"]
  /\ outcome' = [outcome EXCEPT ![j] = "failed"]
  /\ UNCHANGED <<dbVars, asked, deliver, faults, replies>>
  /\ RunnerUnchanged

\* _finalize: the generation and its reply end together; a second end is ignored.
RunnerFinalize(j) ==
  /\ rpc[j] \in {"final", "handler", "stopping"}
  /\ IF gen[j] \in GenEnd
     THEN UNCHANGED <<gen, msg>>
     ELSE /\ gen' = [gen EXCEPT ![j] = outcome[j]]
          /\ msg' = [msg EXCEPT ![j] =
                       IF @ = "none" THEN @
                       ELSE CASE outcome[j] = "completed" -> "done"
                              [] outcome[j] = "stopped"   -> "stopped"
                              [] outcome[j] = "failed"    -> "error"]
  /\ rpc' = [rpc EXCEPT ![j] = IF @ = "stopping" THEN "unwinding" ELSE "closing"]
  /\ UNCHANGED <<job, cancelReq, attempts, stopAt, exec, outcome, asked, deliver, faults, replies>>
  /\ RunnerUnchanged

\* CancelledError is thrown at the await the runner is in.  Before its first
\* step no line of it runs; in its body it takes the stop handler; in a handler
\* or in the final clean-up it leaves without writing a terminal.
RunnerCancelled(j) ==
  /\ deliver[j] /\ rpc[j] \in RunnerLive
  /\ deliver' = [deliver EXCEPT ![j] = FALSE]
  /\ CASE rpc[j] \in {"opened", "stream", "final"} ->
            /\ rpc' = [rpc EXCEPT ![j] = "stopping"]
            /\ outcome' = [outcome EXCEPT ![j] = "stopped"]
       [] rpc[j] \in {"handler", "stopping"} ->
            rpc' = [rpc EXCEPT ![j] = "unwinding"] /\ UNCHANGED outcome
       [] OTHER ->
            rpc' = [rpc EXCEPT ![j] = "cancelled"] /\ UNCHANGED outcome
  /\ UNCHANGED <<dbVars, asked, faults, replies>>
  /\ RunnerUnchanged

\* The finally clause is through: close_parent, workspace retention, usage.
RunnerExit(j) ==
  /\ rpc[j] \in {"closing", "unwinding"} /\ ~deliver[j]
  /\ rpc' = [rpc EXCEPT ![j] = IF @ = "closing" THEN "ended" ELSE "cancelled"]
  /\ UNCHANGED <<dbVars, outcome, asked, deliver, faults, replies>>
  /\ RunnerUnchanged

\* A database call of the runner fails.  In the body the handler takes over; in
\* a shielded wait (usage record, tool completion) the failure replaces a
\* cancellation that came meanwhile; in a handler or in the clean-up the
\* exception leaves the task.
RunnerFault(j) ==
  /\ Fault
  /\ \/ /\ rpc[j] \in {"stream", "final"}
        /\ rpc' = [rpc EXCEPT ![j] = "handler"]
        /\ outcome' = [outcome EXCEPT ![j] = "failed"]
        /\ deliver' = [deliver EXCEPT ![j] = IF rpc[j] = "stream" THEN FALSE ELSE @]
     \/ /\ rpc[j] \in {"handler", "stopping", "closing", "unwinding"}
        /\ rpc' = [rpc EXCEPT ![j] = "raised"]
        /\ UNCHANGED <<outcome, deliver>>
  /\ UNCHANGED <<dbVars, asked, replies>>
  /\ RunnerUnchanged

-----------------------------------------------------------------------------
\* Stop requests (stop_chain, stop_generations)

\* The rows are selected by status; the decision below uses these values.
StopRead(s, T) ==
  /\ phase = "up" /\ spc[s] = "idle"
  /\ \E j \in T : gen[j] \in {"queued", "running"}
  /\ seenQueued' = [seenQueued EXCEPT ![s] = {j \in T : gen[j] = "queued"}]
  /\ seenRunning' = [seenRunning EXCEPT ![s] = {j \in T : gen[j] = "running"}]
  /\ spc' = [spc EXCEPT ![s] = "read"]
  /\ UNCHANGED <<dbVars, laneVars, workerVars, runnerVars, phaseVars,
                 sent, wakes, faults, replies>>

\* The job rows are selected inside the write transaction.
JobAfterStop(s, j) ==
  IF j \in seenQueued[s] \cup seenRunning[s] /\ job[j] = "queued" THEN "cancelled" ELSE job[j]

\* One transaction: generations by what was read, executions and jobs by what
\* they are now.
StopWrite(s) ==
  LET seen == seenQueued[s] \cup seenRunning[s] IN
  /\ spc[s] = "read"
  /\ stopAt' = [j \in Jobs |-> stopAt[j] \/ j \in seen]
  /\ gen' = [j \in Jobs |-> IF j \in seenQueued[s] THEN "stopped" ELSE gen[j]]
  /\ exec' = [j \in Jobs |-> IF j \in seen /\ exec[j] = "queued" THEN "stopped" ELSE exec[j]]
  /\ cancelReq' = [j \in Jobs |-> cancelReq[j] \/ (j \in seen /\ job[j] \in {"queued", "running"})]
  /\ job' = [j \in Jobs |-> JobAfterStop(s, j)]
  /\ spc' = [spc EXCEPT ![s] = "written"]
  /\ UNCHANGED <<attempts, msg, laneVars, workerVars, runnerVars, seenQueued,
                 seenRunning, phaseVars, sent, wakes, faults, replies>>

HitsRunningRows(s) == {j \in active \cap seenRunning[s] : ~asked[j] /\ rpc[j] \in RunnerLive}
\* Registered runners of any row read, not asked before.
StopHits(s) ==
  {j \in active \cap (seenQueued[s] \cup seenRunning[s]) : ~asked[j] /\ rpc[j] \in RunnerLive}

StopCancel(s) ==
  LET hit == StopHits(s) IN
  /\ spc[s] = "written"
  /\ asked' = [j \in Jobs |-> asked[j] \/ j \in hit]
  /\ deliver' = [j \in Jobs |-> deliver[j] \/ j \in hit]
  /\ spc' = [spc EXCEPT ![s] = "idle"]
  /\ seenQueued' = [seenQueued EXCEPT ![s] = {}]
  /\ seenRunning' = [seenRunning EXCEPT ![s] = {}]
  /\ UNCHANGED <<dbVars, laneVars, workerVars, rpc, outcome, phaseVars,
                 sent, wakes, faults, replies>>

-----------------------------------------------------------------------------
\* The process

\* A worker that awaits a live runner passes the cancellation on to it.
CancelledByShutdown(w) ==
  wpc[w] # "dead" /\ ~(wpc[w] = "wait" /\ rpc[cur[w]] \in RunnerLive)

\* Requests are drained before the lifespan ends.  Runners are cancelled
\* directly and again through the worker that waits for them; every other
\* worker gets the CancelledError itself.
BeginShutdown ==
  /\ phase = "up"
  /\ \A s \in Stoppers : spc[s] = "idle"
  /\ \A c \in Chains \ Ticked : sent[c] # "committed"
  /\ phase' = "closing"
  /\ closingRuns' = active
  /\ asked' = [j \in Jobs |-> asked[j] \/ (j \in active /\ rpc[j] \in RunnerLive)]
  /\ deliver' = [j \in Jobs |-> deliver[j] \/ (j \in active /\ rpc[j] \in RunnerLive)]
  /\ wcancel' = [w \in Workers |-> CancelledByShutdown(w)]
  /\ UNCHANGED <<dbVars, laneVars, wpc, cur, claims, active, rpc, outcome, stopVars,
                 starts, sent, wakes, faults, replies>>

\* All workers are gathered: the rows of the runs that were active when the
\* shutdown began follow their generation; one still open was interrupted.
FinishShutdown ==
  LET open(j) == j \in closingRuns /\ exec[j] \in {"queued", "running"}
      g(j) == IF gen[j] \in GenEnd THEN gen[j] ELSE "stopped"
      jobOf(x) == IF x \in {"completed", "failed"} THEN x ELSE "cancelled"
  IN
  /\ phase = "closing"
  /\ \A w \in Workers : wpc[w] = "dead"
  /\ gen' = [j \in Jobs |-> IF open(j) THEN g(j) ELSE gen[j]]
  /\ exec' = [j \in Jobs |-> IF ~open(j) THEN exec[j]
                             ELSE IF gen[j] \in GenEnd THEN gen[j] ELSE "interrupted"]
  /\ job' = [j \in Jobs |-> IF j \in closingRuns /\ job[j] \in {"queued", "running"}
                            THEN jobOf(gen'[j]) ELSE job[j]]
  /\ cancelReq' = [j \in Jobs |-> IF j \in closingRuns /\ job[j] \in {"queued", "running"}
                                  THEN jobOf(gen'[j]) = "cancelled" ELSE cancelReq[j]]
  /\ ProcessEnds
  /\ phase' = "down"
  /\ UNCHANGED <<attempts, stopAt, msg, starts, sent, wakes, faults, replies>>

\* The process dies; a send request that had committed never wakes its jobs.
Crash ==
  /\ MayCrash /\ phase # "down"
  /\ ProcessEnds
  /\ phase' = "down"
  /\ sent' = [c \in Chains |-> IF sent[c] = "committed" /\ c \notin Ticked
                               THEN "done" ELSE sent[c]]
  /\ UNCHANGED <<dbVars, starts, wakes, faults, replies>>

RecoveredMsg(m) == IF m = "generating" THEN "interrupted" ELSE m

\* init_db: replies that were being generated are interrupted.
RecoverMessages ==
  /\ phase = "down" /\ starts < MaxStarts
  /\ starts' = starts + 1
  /\ phase' = "recovered"
  /\ msg' = [j \in Jobs |-> RecoveredMsg(msg[j])]
  /\ UNCHANGED <<job, cancelReq, attempts, gen, stopAt, exec, laneVars, workerVars,
                 runnerVars, stopVars, closingRuns, sent, wakes, faults, replies>>

\* Left-over jobs are queued again instead.
StartResuming ==
  LET stale(j) == gen[j] \in {"queued", "running"} IN
  /\ phase = "recovered"
  /\ phase' = "up"
  /\ gen' = [j \in Jobs |-> IF stale(j) THEN "queued" ELSE gen[j]]
  /\ job' = [j \in Jobs |-> IF stale(j) THEN "queued" ELSE job[j]]
  /\ exec' = [j \in Jobs |-> IF stale(j) THEN "queued" ELSE exec[j]]
  /\ wpc' = [w \in Workers |-> IF w \in Slots THEN "idle" ELSE "dead"]
  /\ UNCHANGED <<cancelReq, attempts, stopAt, msg, laneVars, cur, wcancel, claims, active,
                 runnerVars, stopVars, closingRuns, starts, sent, wakes, faults, replies>>

\* start: generations left open are stopped and their jobs cancelled,
\* executions left open are interrupted, and the slots begin to work.
Start ==
  LET stale(j) == gen[j] \in {"queued", "running"} IN
  /\ phase = "recovered"
  /\ phase' = "up"
  /\ gen' = [j \in Jobs |-> IF stale(j) THEN "stopped" ELSE gen[j]]
  /\ job' = [j \in Jobs |-> IF stale(j) /\ job[j] \in {"queued", "running"}
                            THEN "cancelled" ELSE job[j]]
  /\ cancelReq' = [j \in Jobs |-> cancelReq[j] \/ (stale(j) /\ job[j] \in {"queued", "running"})]
  /\ exec' = [j \in Jobs |-> IF exec[j] \in {"queued", "running"} THEN "interrupted" ELSE exec[j]]
  /\ wpc' = [w \in Workers |-> IF w \in Slots THEN "idle" ELSE "dead"]
  /\ UNCHANGED <<attempts, stopAt, msg, laneVars, cur, wcancel, claims, active, runnerVars,
                 stopVars, closingRuns, starts, sent, wakes, faults, replies>>

-----------------------------------------------------------------------------
WorkerStep(w) ==
  \/ Take(w) \/ Claim(w) \/ Permit(w) \/ PermitDenied(w) \/ FailJob(w)
  \/ Reap(w) \/ Finish(w) \/ WorkerCancelled(w)

\* Steps of a runner that do not wait for the model.
RunnerOwnStep(j) ==
  \/ RunnerOpen(j) \/ RunnerStart(j) \/ RunnerUnavailable(j) \/ RunnerFinalize(j)
  \/ RunnerCancelled(j) \/ RunnerExit(j)

StopStep(s) == StopWrite(s) \/ StopCancel(s)

Next ==
  \/ \E c \in Chains : Send(c) \/ WakeChain(c)
  \/ \E c \in Ticked : \E j \in JobsOf(c) : TickWake(c, j)
  \/ \E w \in Workers : WorkerStep(w) \/ WorkerFault(w)
  \/ \E j \in Jobs : RunnerOwnStep(j) \/ RunnerStreamEnd(j) \/ RunnerError(j) \/ RunnerFault(j)
  \/ \E s \in Stoppers : StopStep(s) \/ \E T \in StopTargets : StopRead(s, T)
  \/ BeginShutdown \/ FinishShutdown \/ Crash \/ RecoverMessages \/ Start

Spec == Init /\ [][Next]_vars

\* The event loop runs every task that can run, and a stop request that began
\* is carried through.  Nothing here says that the model ever answers.
Fairness ==
  /\ \A c \in Chains : WF_vars(WakeChain(c))
  /\ \A w \in Workers : WF_vars(WorkerStep(w))
  /\ \A j \in Jobs : WF_vars(RunnerOwnStep(j))
  /\ \A s \in Stoppers : WF_vars(StopStep(s))
  /\ WF_vars(FinishShutdown) /\ WF_vars(Start)

FairSpec == Spec /\ Fairness

-----------------------------------------------------------------------------
\* Properties

\* However often a job is woken and however often the process restarts, at most
\* one reply message is ever created for it (_run_job, claim, and the runner's
\* check of the generation together).
OneReplyPerJob == \A j \in Jobs : replies[j] <= 1

\* The three status tables settle together: when a job has ended, its
\* generation and its execution have ended too and no runner of it is alive.
SettledTogether ==
  \A j \in Jobs : job[j] \in JobEnd =>
    /\ gen[j] \in GenEnd /\ exec[j] \in ExecEnd
    /\ rpc[j] \notin RunnerLive

\* A stop that is over and whose runner is not yet closing has its cancellation
\* on the way, or the runner is about to see the ended generation: no runner
\* slips between the reading of the rows and the scan of _active.
StopReachesRunner ==
  \A j \in Jobs :
    /\ phase = "up" /\ stopAt[j] /\ rpc[j] \in {"new", "opened", "stream", "final"}
    /\ \A s \in DOMAIN spc : spc[s] = "idle"
    => deliver[j] \/ (rpc[j] = "new" /\ gen[j] # "queued")

-----------------------------------------------------------------------------
\* The job table implements the ledger.
Ledger == INSTANCE JobLedger WITH
  status <- [j \in Jobs |->
               CASE job[j] = "none"    -> "absent"
                 [] job[j] = "queued"  -> "waiting"
                 [] job[j] = "running" -> "executing"
                 [] OTHER              -> "settled"]

ImplementsLedger == Ledger!Spec
=============================================================================
