# Roleplex in TLA+

Roleplex is a multi-role chat and agent system: one FastAPI process, one SQLite
database per world, one event loop, and a React client that follows a durable
event stream. Almost every guarantee of the program is about rows that outlive
the process and tasks that do not. These modules model that core, check it with
TLC on small instances and prove the most important parts with TLAPS.

1. [How the code is read](#how-the-code-is-read)
2. [Inventory](#inventory)
3. [The modules](#the-modules)
4. [The runs](#the-runs), with bounds and fairness
5. [Findings and disagreements](#findings-and-disagreements)
6. [What is proved](#what-is-proved), and what is only model-checked
7. [What is not modelled](#what-is-not-modelled)
8. [Plan](#plan)

`tlc -config X.cfg M` runs a configuration with its `MC` module, `tlapm
MProofs.tla` checks a proof module. `PROJECT.json` maps every definition to the
lines it models and lists runs, mutants, hazards, findings and theorems.

## How the code is read

* **One action is the code between two awaits, or one short transaction.** The
  process has a single event loop, so code without an `await` is atomic. SQLite
  serialises writers from the first DML statement to the commit, so a
  transaction is one step. Where a decision is made on rows read *before* the
  first DML, the read is a step of its own (`StopRead`/`StopWrite`,
  `ExecuteRead`/`ExecuteWrite`, `ReadBound`/`Unbind`).
* **A lock that is held over awaits** (`control_lock`, `cleanup_lock`, the command
  lock of a workspace) is a variable when something that matters happens while
  it is held; when all its critical sections are single transactions, each is
  one step.
* **Cancellation is two-phased**, as in asyncio: `Task.cancel()` sets a request,
  the `CancelledError` is thrown at the await the task is in, and a timeout or a
  cancellation can arrive after the future it interrupts was already completed.
  A task that awaits another task passes its own cancellation on to it.
* **Rows survive, the process does not.** A crash drops every queue, task,
  future and socket and keeps the tables; what recovery does with them at the
  start is an action.
* **Data is what the properties distinguish.** What is streamed, asked, written
  or said is left out; statuses, owners, revisions, order and counts are kept.

Every model has finite bounds as CONSTANTS. The bounds that exist in the code
(queue sizes, quotas, attempts) are named in the module header by their name in
the code; the others ("bound:") only make the state space finite, and no theorem
depends on their values.

## Inventory

| component | state | operations | what is hard | what makes it correct |
|---|---|---|---|---|
| Conversation scheduler (`scheduling/conversation.py`) | `queue_jobs` rows; in memory the lane queues, `_parallel_pending`, `_claims`, `_active`, worker tasks | enqueue, claim, permit, run, finish, fail, stop chain/generations, shutdown, start-up recovery | a stop, a wake-up, a shutdown or a crash between any two awaits of worker and runner | one reply per job; rows of a job end together; a stop reaches the runner |
| Generation runner (`services/chat.py`) | `generations`, `agent_executions`, the reply message | open, start, stream, finalise, stop, error | cancellation in every await, also in its own handlers | the reply ends in a terminal status; an ended generation is not reopened |
| Message sending (`routers/messages.py`, `communication/`) | messages, jobs of a chain | create a chain in one transaction, wake its lane | process death between the two | no reply without a job, no job run twice |
| Event store and hub (`realtime/`), history window (`services/history.py`) | `conversation_events`, subscriber queues, one socket session | append, publish after commit, subscribe, recover (snapshot or backlog), pump | publication out of order, full queue, commits during a recovery, restarts with a new epoch | the client sees prefixes of the log and catches up |
| Stream client and stores (`frontend/src/api`, `store`) | selection, cursor, screen, cache | open, close, retry, apply frames | frames of old subscriptions, timers, cached windows | as above |
| Admission pools (`workspaces/scan_admission.py`, `write_admission.py`) | slots, queue, byte count | enter, wait, hand over, leave, close | a hand-over meets a timeout, a cancellation or close | slots bounded, never lost, never idle beside a queue |
| Resource admission (`workspaces/resource_admission.py`) | admitted claims, waiting list, `waiting_mode` of the execution | claim, report, wait, release, close | reports and wake-ups interleave; overlap of directories is not transitive | readers/writer exclusion per subtree, no lost wake-up |
| Shell approvals and commands (`workspaces/approvals.py`, `commands.py`) | `tool_approval_requests`, waiting futures, command lock | request, decide, expire, recheck, run, recover | several deciders and timers, withdrawn rights, crash | runs once, only what was approved and is still allowed |
| File writes and batches (`workspaces/files.py`, `batch_mutation.py`, `services/file_effects.py`, `context/interruption.py`) | files, evidence rows, stored results | compare-and-swap write, multi-file batch, report to the next turn | awaits between check, write and confirmation; partial failure | no lost update; the report never contradicts the file |
| Runtime registry and manager (`runtime/`) | `runtime_entries`, gate, clean-up operations, process handles | reserve, start, probe, stop, clean up a scope, recover | nested quotas, lost proofs of death, late ends, database faults | no slot or port is freed while its process may live |
| Serial workflow (`workflows/service.py`) | runs, cursor, attempts, executions | start, advance, confirm, stop, resume, retry, recover | the stop of a chain between ticks and after the lock, a retry upstream | the path rests on current results; a stop is not undone |
| Graph workflow (`workflows/engine.py`, `allocations.py`, `coordination.py`, `feedback.py`) | activations, attempts, loops, feedback items | tick, dispatch, judge, feedback, revoke, stop, retry, recover | tick against owner control, loops, revocation | no stale input; a settled run is quiet |
| Graph revisions (`replanning.py`, `graph_service.py`) | revisions, pending revision, boundaries | write, adopt at a boundary, withdraw | loops at different rounds under one revision | adopted only at a boundary, never waits for nothing |
| Agent loop (`agent/`, `services/chat.py`) | framework events in flight, stored tool parts, decision counts | consume a decision, call the model, dispatch tools, store, close | results stored behind the graph's back; stops anywhere | every proposed call gets one answer; effects are told |
| Context compaction (`context/`), decision budget (`services/agent_budget.py`) | `context_compressions`, summaries, budgets | start, read, summarise, publish, cancel, restore, recover | the material changes while the model writes | only a summary of what its sources name is published; cancel is kept |
| Conversations (`routers/conversations.py`, `workspaces.py`, `roles.py`) | rows, revisions, clean-up scope, appointment | create, rebind, appoint, members, delete, restore, expire | handlers that read, drain a runtime and write | runs only where bound; a run lives on its appointment |
| Worlds (`worlds/manager.py`, `main.py`, `scripts/run_world_server.py`) | directories, lease, file lock, control file | create, open, switch, back up, delete, adopt | several processes, reused pids, a crash between two file operations | a world in use stands and has one owner |
| World orchestrator (`world_orchestrator/`) | world tasks, children, rounds, root budget | dispatch, merge, wait, stop, reconfigure | the tick and the groups' own engine act on the same child | a task ends only with its children; a stop reaches the tree |
| MCP manager (`mcp/manager.py`) | hosts, ready future, request queue, process trees | start, call, fail, close, cancel | callers share a future; hosts end with requests queued | nobody waits for a dead host; what was opened alone is left to nobody |
| Log archive (`config/log_archive.py`) | lease, day directories, archives, audit | archive, verify, remove, evict | crashes between file operations, failing flushes | no line of a log is lost |
| Memory, providers, world types, authentication, settings, row types, migrations, React components | – | – | sequential, pure or presentation | not modelled |

The components meet in the rows: a message creates jobs, the scheduler runs
them through the runner, the agent loop inside the runner calls tools, tools
pass the admission pools, the resource admission and the approvals, everything
that changes a conversation appends an event in the same transaction, and the
hub publishes it after the commit. The workflow engines and the world
orchestrator create jobs of their own and wake them by ticks.

## The modules

| module | models | checked by | proofs |
|---|---|---|---|
| `JobLedger` | what the job table promises: a job is submitted, executed at most once, settled | refined by `ConversationScheduler` | `ConversationSchedulerProofs` |
| `ConversationScheduler` | scheduler, runner, sending, stop, shutdown, crash, recovery | `MCScheduler` | `ConversationSchedulerProofs` |
| `EventStream` | log, hub, socket, stream client, store | `MCEventStream` | `EventStreamProofs` |
| `Queues` | the helpers on waiting lists the next three share | with them | `QueuesProofs` |
| `AdmissionPool` | both slot pools | `MCFiles` | `ExecutionProofs` |
| `ResourceAdmission` | admission by subtree | `MCClaims` | `ResourceAdmissionProofs` |
| `ShellApproval` | approval of a shell call, the command lock | `MCOwner` | `OwnerHostProofs` |
| `FileBounds`, `FileWrites` | write and edit tools, batches, evidence, the report of an interrupted turn | `MCFiles` | `ExecutionProofs` |
| `RuntimeRegistry` | entries, quotas, ports, processes, stops, clean-up scopes, recovery | `MCRuntime` | `RuntimeRegistryProofs` |
| `SerialWorkflow` | the serial engine and the worker beside it | `MCWorkflow` | `CoordinationProofs` |
| `WorkflowEngine` | the graph engine: ticks, loops, judges, feedback, retries | `MCWorkflow` | |
| `GraphRevisions` | changing a graph while it runs | `MCGraph` | |
| `AgentLoop` | one execution of a role and the owner of its reply | `MCExecution` | `ExecutionProofs` |
| `ContextCompaction` | maintenance of a history and the budget that pays | `MCExecution` | `ExecutionProofs` |
| `Conversations` | one conversation under its Owner's requests | `MCOwner` | `OwnerHostProofs` |
| `WorldHost` | worlds on disk and the processes that use them | `MCHost` | `OwnerHostProofs` |
| `WorldTasks` | a world task, its rounds, delegations and stops | `MCWorldTasks` | `CoordinationProofs` |
| `McpServers` | the pool of stdio servers | `MCHost` | `OwnerHostProofs` |
| `LogArchive` | maintenance of the log tree | `MCHost` | `OwnerHostProofs` |

Components that share no state are checked by one configuration: the `MC` module
has a variable `part` (or `scene`) that is chosen initially and never changes,
and a behaviour takes the steps of that part only. That is a disjoint union of
state spaces, not a product. A theorem about such a part is stated of the MC
module's own specification: a lemma shows that its behaviours are behaviours of
the part's (`FilesRun`, `ContextRun`, `AgentRun`, `ConvRun`, `ServersAlways`), and the bounds of
the instance (calls per request, messages, decisions, replies) are constants of
the MC module, to which only the `.cfg` gives values.

A small operator that stands next to another and has the same parameters
(`ReraisesAnyCancel` beside `Reraises`, `EqualRootsOnly` beside `Conflicts`) is
a plausible mistake in that piece of code. `PROJECT.json` names the property
that fails when it takes the place of the real one; no run uses them.

How state and actions correspond to the code, for the modules where the names do
not say it:

**ConversationScheduler.** `job`, `cancelReq`, `attempts` are
`queue_jobs.status`, `cancel_requested`, `attempts`; `gen`, `stopAt` are
`generations.status`, `stop_requested_at`; `exec`, `msg` the execution's and the
reply's status. `queue`, `pending`, `claims`, `active` are `_queues` with
`_parallel_queue`, `_parallel_pending`, `_claims`, `_active`. `wpc`, `cur`,
`wcancel` are the worker tasks; `rpc`, `outcome`, `asked`, `deliver` the runner
task, its result, `task.cancelling()` and the pending throw. `Send`,
`WakeChain`, `TickWake` are the creating transaction, the enqueue after it and
`enqueue_parallel`; `Take` … `Finish` one worker from `queue.get()` to the commit
of `finish`; `StopRead`, `StopWrite`, `StopCancel` the three stages of
`stop_generations`; `BeginShutdown`, `FinishShutdown`, `Crash`, `Start` the life
of the process with the recovery of `main.py`.

**AdmissionPool.** `active`, `queue`, `queuedBytes` are the pool's own; `fut` and
`pc` are each waiter's future and where its task is. `Release` completes the
futures of the next callers at once, the waiter resumes later; `Interrupt` is a
timeout or a cancellation at any time of the wait; `Unwind` the `except` branch
that gives a slot on. The two pools differ in the byte count only.

**ResourceAdmission.** `active` and `waiting` are the two lists, `claim` the
directory and mode of a task, `row` the `waiting_mode` its execution shows, `pc`
the place in `claim()`. `Overlaps` is any reflexive and symmetric relation: a
directory overlaps its subdirectories, which do not overlap each other.

**ShellApproval.** `status`, `late` and `runs` belong to the row; `pc` is the
host's place in `request_and_run`, `dpc` the Owner's requests in
`resolve_approval`, `lockq` the per-workspace command lock, shared with fixed
commands. All deciders meet in the compare-and-swap `Swapped`.

**EventStream.** `log`, `epoch` are the rows of `conversation_events`; `pending`,
`queue` committed and unpublished events and the subscriber's queue; `session`
the socket's subscription with its recovery and pump; `link`, `up`, `down` the
connection and what is under way; `sel`, `view`, `rest`, `cache` the client. The
conversation is one message, and an event is a revision of it: text is the
sequence of events that went into it, so a lost, repeated or reordered event
shows. One message stands for any, because the history reads message by message.

**FileWrites.** A call goes through the command lock, the access decision before
and after each wait, the evidence row, the commit (re-read and replace in one
step, since there is no await between) and the confirmation; `detail` is what
the message has of it, `turn` how the turn ended. Contents are version tokens.
Programs outside the backend may change a file between any two steps.

**RuntimeRegistry.** `row` is the entry's state with whether a pid is stored and
whether it is from an earlier boot, `call` the tool call, `host` the task of a
service, `proc` the operating system's view, `stop` and `seen` the shared stop
task and what it has read. "escaped" is a process that outlived its supervisor.

**SerialWorkflow / WorkflowEngine / GraphRevisions.** A run's rows are one record;
requests and ticks are single steps under `control_lock`; the worker's claim and
close and the ends of executions are steps of their own. A tick or a request that
ends a chain still holds the lock while it awaits `stop_chain`
(`service.py:363`, `:475`; `engine.py:550`, `:659`): its call is `held`, and
`Unlocked` keeps every other section of the lock out until it is over, so that
only the worker comes between. The stop of a reply (`messages.py:368-381`), the
cancelling of a planning dialogue and the removal of the coordinator from the
group call it after the release: these are `late` and anything may come first. `GraphRevisions` takes only what a revision can
meet from the engine: activations, loops, opinions and ends.

**AgentLoop.** `graph` is the framework's task, which runs ahead of what is
stored; `queue` its events; `agent` the locals of `run_agent`; `reply` the owner
in `services/chat.py`; `part` the stored tool parts. The framework itself is
external and modelled from its use.

**ContextCompaction.** `jobs` are `context_compressions` rows, `sums` the revisions
a summary was made from, `runner` the maintenance task, `lane` the
conversation's queue, `turn` the reply that may start one for itself.

**Conversations.** A request is a record that moves through the awaits of its
handler; `op` are the clean-up operations of a scope, `locks` the two locks,
`live` the workspaces in which this conversation has a runtime entry.

**WorldHost, LogArchive, McpServers.** Processes have an identity that may be
given out again and a birth that may not; leases name the identity. A process
tree is the process and what it started. Four variables are histories that only
the properties read: `host[h].alone` (no other server was being opened while this
one was), `broken` (a lease was removed under a maintenance at work), `missed`
(lines appended between the comparison of a directory and its removal) and
`undone` (worlds removed in use by the clean-up of a failed creation). The actions
take every interleaving, those four cases included. The world that the wrapper
makes for itself is made in one step; its backend makes it again in steps.

**WorldTasks.** A round delegates, a loop merges children and continues; `kids`
has a child's claim, coordination, execution and run, and whether an opinion on
it blocks; `stoppers` are `stop()` calls in progress, of the Owner and of the
loop, with the picture of the runs that they carry. Whatever moves a run
(`Outdated`) makes that picture worthless, since the stop compares revisions. A
run that has settled can be reopened (`RunReopened`): the Owner of the group may
resume it or retry a node, and nobody asks the world task.

## The runs

| run | instance | asks |
|---|---|---|
| `Scheduler` | two scenes. "queues": a chat lane and a parallel slot, woken up to twice more, one failing database call, a crash, two starts. "group": one chain of two jobs, two stop requests at once, shutdown | rows of a job settle together; one reply per job; a stop reaches the runner; refinement of `JobLedger`; a requested stop ends the job even if the model never answers |
| `SchedulerStoppedReply` | the same | counterexample, see [Findings](#findings-and-disagreements) |
| `Stream` | queue of one, backlog limit one, two events, two openings, one fault | the screen is a prefix of the log, no cursor runs ahead of its text, the client catches up |
| `Files` | "pool": four callers, two slots, two queue places, byte limit three. "files": two calls (single or batch) over one existing and one new file, two faults | slots are owned, none idles beside a queue; the report of a cut-off turn is true; no lost update |
| `Claims` | three tasks over a directory that is read and two disjoint children that are written | exclusion; a parked task is blocked; waiters are served |
| `Owner` | "approval": one call, two Owner requests, a fixed command, a crash. "conversation": a single chat or a group of three roles over two workspaces under two requests, two replies, one failure | runs are approved and still authorised; they run where bound; the appointment and the binding stand under running work |
| `Runtime` | a command and a service in the world, the command in a conversation too. "together": both at once after a raised limit, with one clean-up of either scope, lower limit or lost write. "turns": one at a time, with any two of clean-up, lost write, crash, reboot, and a shutdown | released means gone; the body of a clean-up is alone; a stop has stopped |
| `Workflow` | "serial": two runs of a role and an approval, two events. "loop": a coordinated loop decided by a judge (two rounds) before an approval. "pair": two independent tasks before an approval; one retry and one fault each | nothing at work in a settled run; no selected result rests on a replaced one; stops hold; blocking feedback holds what follows |
| `Graph` | two loops and two nodes after them, two of four revisions, one event | a revision is adopted only at a boundary and never waits for one that cannot come |
| `Execution` | "agent": two decisions of up to two parallel calls, graph limits before, at and beyond them. "context": two messages, two maintenances, a chain of three decisions; two events | a completed reply has every result; effects are told; a summary is of what its sources name; a cancel is kept |
| `World` | two rounds, one delegation, budgets three and one, two events | a task is completed over whole children only; a stop reaches the tree |
| `Host` | "servers": two keys, two callers, two hosts. "logs", "worlds": two process identities, one fault | waiters wake; the tree of a server opened alone is its host's; no line is lost; a world in use stands |

**Why the bounds are enough.** Each is the smallest at which the hard case
occurs, and the comment of the constant says which: two jobs give an order, a
busy lane and two workers that meet on a job; two stoppers a repeated
cancellation; two wake-ups a duplicate. Four callers on two slots let one be
refused for the queue, another for its bytes, and a hand-over pass by a waiter
that leaves. A parent and two children is the smallest overlap that is not
transitive. Queue and backlog of one (512 and 300 in the code) let two events
overflow both. A command and a service under two nested scopes reach every quota
decision and a clean-up with two targets; two events combine any fault with a
clean-up or a crash. Two nodes
give a result and what rests on it, two runs a second active one. A loop of two
rounds has a boundary, two loops a boundary that is not shared. Two process
identities among three births give a reused one. One of them at a time maintains
the logs (`MaxAlive = 1`): with two the run exceeds its time, and the theorem
`NoLineIsLost` holds for any number. Counters that fault, crash or
retry are bounded by one or two: the code's reaction does not count them.

**Fairness.** Only what the event loop or a driving loop does by itself is fair,
and weakly. `Scheduler`: the wake-up of a sent chain, each worker, each runner's
own steps, each stop request, shutdown and start, in the scene "group" that
`StopEnds` is about; the end of a model's stream owes nothing. `Claims`: each
task's own steps; timers and cancellations owe nothing, so `WaiterServed` shows
that a waiter is served without its timer; the body of a claim ends.
`Stream`: some step of the server and some step of the client while they have
one; users, committers, faults and timers owe nothing, and `CatchesUp` excludes
an event whose push was given up. `World`: rounds, children, the loop and the
stops take their own steps; no model, group or person is assumed to answer.

`CHECK_DEADLOCK FALSE` stands in the configurations because these systems really
stop: after a shutdown, after every call has ended, when the user has left.

`Runtime` assumes `SlowReads = FALSE`: the single local row read of a stop does
not outlast a whole start of a service, which is several transactions and a
spawned process. With `TRUE` a stop that read "no pid" before the start could
close the row of a process that was attached since, and `ReleasedIsGone` fails;
the three theorems about it carry the same hypothesis.

What does not hold is said in the properties of `Host`, and the run takes those
steps too. `TreesAreTheirs` speaks of a server that was opened while no other
was; `NoLineLost` stops at a lease that was broken under a maintenance at work
and leaves out a unit run's `missed` lines; `OwnedStands` leaves out a world that
is `undone`. None of the exceptions can be left out: without it TLC
finds a counterexample (for a broken lease with `MaxAlive = 2`), and each is a
disagreement below. The theorems state the same properties and assume nothing
else of the code.

## Findings and disagreements

One disagreement has a run:

* **A stopped reply that generates for ever** (`SchedulerStoppedReply`): the stop
  reads the generation as queued, the runner opens the reply, the stop writes
  `stopped`; the finalisation sees an ended generation and leaves the reply
  (`conversation.py:279`).

These were met while modelling and have no run. The models contain them; the
properties are stated so that they do not hide behind them.

*Scheduler and stream.* Recovery starts from stale generations, so a process
that dies after the generation ended and before `finish` leaves its job
`running` (`conversation.py:71`; data-model.md:333). A shutdown waits for ever
for a worker whose cancellation was consumed by a runner that then ended by a
database error (`conversation.py:128`). The hub drops an event for a full queue;
what is still queued is older, so the client sees no gap until something else
happens, although the comment says it recovers (`events.py:64`).

*Workflows.* The stop of a reply frees `control_lock` before it stops the chain
(`messages.py:372-381`), so that it may end the attempt of a retry made after the
run had settled; the stop of a run itself keeps the lock. A restart during `stopping`
leaves the waiting attempt of an approval as it is (`service.py:518-521`); an
attempt whose execution completed before a crash is marked interrupted. In the
graph engine a confirmation can put a stopping run back to work
(`engine.py:599-602`; workflows.md:181), and two runs can be active after a
resume (`engine.py:575`; workflows.md:65). A pending revision that a later one
overtakes is dropped (`replanning.py:240`; workflows.md:129), a revision is
adopted at a boundary despite an opinion that arrived after, and a loop that
reached its limit is not opened again by a revision that raises it.

*Files and agent.* A refused call on a path hides an earlier committed one from
the report (`interruption.py:172`; interruption-context.md:38). A call without
files that ran, but whose start was not consumed when the turn was stopped, is
told nowhere (`chat.py:516`; agent-runtime.md:235). Sibling calls go on after
their reply was closed by an error. A compaction's `execute()` writes `running`
over a cancellation that came between its read and its write
(`automatic.py:90`, `compaction_runner.py:306`; context-compression.md:57).

*Conversations.* `delete_workspace` reads conversations and writes the revision it
read plus one (`workspaces.py:255-259`). A rebind refused after the drain leaves
the scope's clean-up failed, so the gate stays closed (`manager.py:710-716`).
Restoring does not check the seven days of the bin (conversations.md:153). A
message resolved before a delete is still inserted (conversations.md:120).

*World orchestrator.* News for a waiting task is refused for want of a
`request_id` in the payload (`tasks.py:503`, `conversation.py:381`;
world-orchestrator.md:46). A task whose continuation found the root budget used
up stays waiting (`tasks.py:440`). The run of a child can be resumed or retried
after the world task completed (`engine.py:575-652`), so a completed task may
stand over a run that is at work or fails; `CompletedIsWhole` is stated of the
step that completes it.

*Hosts.* `close()` and shutdown leave the futures of queued MCP calls unresolved
(`manager.py:189`, `:311`); cancelling one waiter cancels the shared `ready`
future for all (`:247`); servers opened at once may take each other's pid
(`:159-161`; the lock of `_host_for`, `:236`, ends before the opening), so one
ends the tree of the other and leaves its own; a cancellation before
the pid is noted leaves grandchildren (`:317`). Two backends alive may both
break a stale archive lease (`log_archive.py:335-352`; logging-v2.md:873, "process-level mutual exclusion"),
and then maintain the same sources at once; a
failed flush makes the counted total too large (logging-v2.md:793); a unit run
that appends while its day is archived loses that append. A failed `create` or
`adopt_legacy` removes the directory it made although another process may have
completed and opened the world meanwhile (`manager.py:131-133`, `:298-301`; the
comment in `:132` calls it "not yet visible to others"); adopting takes no lease; a
lease is judged by its pid alone; an exception in the lifespan skips the
release. A crash in the middle of a removal leaves temporary archives.

*Runtime.* A crash during a clean-up leaves a `running` operation row that nothing
but the next clean-up of that scope replaces.

## What is proved

For all values of the constants that satisfy the named assumptions
(`BoundsAssumption`, `ChainsAssumption`, `StreamAssumption`, `PoolAssumption`,
`OverlapAssumption`, `ApprovalAssumption`, `RuntimeAssumption`,
`PathAssumption`, `FileAssumption`, `AgentAssumption`, `ContextAssumption`,
`OwnerAssumption`, `HostAssumption`): finite sets, positive capacities, chains of distinct jobs,
symmetric overlap, an order of nodes that every node's inputs precede, requests
of at least one and at most `MaxItems` files, messages and maintenances numbered
in the order they were created, names that are not the name of "nothing".

| module | theorem | states |
|---|---|---|
| `ConversationSchedulerProofs` | `TypeCorrect` | `TypeOK`, strengthened so that a busy worker has a job |
| | `OneReply` | `OneReplyPerJob` |
| | `Settled` | `SettledTogether` |
| | `Reached` | `StopReachesRunner` |
| | `Implements` | `ImplementsLedger`: the scheduler refines `JobLedger` |
| | `Once` | the ledger's `ExecutedAtMostOnce`, carried through the refinement |
| `RuntimeRegistryProofs` | `Released`, `Alone`, `Stopped` | `ReleasedIsGone`, `BodyIsAlone`, `StopMeansStopped` |
| `CoordinationProofs` | `PathFresh`, `StopStands`, `OneActive`, `Quiet` | `PathIsFresh`, `StopHolds`, `OneActiveRun`, `QuietAtEnd` |
| | `TasksWhole`, `SettledStands` | `CompletedIsWhole`, and that a task which is over stays as it ended |
| `EventStreamProofs` | `ShowsHistory`, `ClaimsNothing` | `ScreenIsHistory`, `CursorCovered` |
| `ExecutionProofs` | `NoSlotLeaks`, `SlotsBounded`, `NoIdleSlot` | `SlotsOwned`, `SlotBound`, `WorkConserving` |
| | `ReportTold`, `NothingLost`, `OneWriter` | `ReportIsTrue`, `NoLostUpdate`, and that the command lock is exactly the writing call's |
| | `EndsAreClosed`, `EffectsAreTold` | `EndsClosed`, `EffectIsTold` |
| | `SummariesFaithful`, `CancelsKept` | `SummaryIsFaithful`, `CancelIsKept` |
| `ResourceAdmissionProofs` | `NoConflict`, `NoClaimLeaks`, `NoLostWakeUp`, `FirstComeFirst` | `MutualExclusion`, `ClaimsOwned`, `ParkedIsBlocked`, `NoOvertaking` |
| `OwnerHostProofs` | `OnlyApprovedRun`, `RunsOnce`, `OnlyAuthorizedRun`, `DecisionStands`, `LockHeld`, `NotLeftPending` | `RunsApproved`, `AtMostOnce`, `RunsAuthorized`, `DecisionFinal`, `LockOwned` with exclusion, `PendingHosted` |
| | `RunsBound`, `RunsAppointed`, `BindingStays` | `RunsWhereBound`, `AppointedRun`, `BoundWhileIdle` |
| | `WaitersTold`, `TreesOwned` | `WaitersWake`, `TreesAreTheirs` |
| | `WorldsStand`, `NoLineIsLost` | `OwnedStands`, `NoLineLost` |

None of these properties is inductive by itself. The invariants that carry them,
and why each part is there:

**Scheduler.** `OneReplyPerJob` needs that a job which was not claimed was never
run (`Fresh`), that a worker about to launch a runner has a job without one
(`Launchable`), that claims exclude each other (`OneExecutor`) and that a runner
opens its reply only while there is none (`Young`); together `Inv`. The rows need
to know which tasks exist: `Held` says where a job waits, that it has one wake-up
and one holder, and that no task lives when the process is down; `Together` says
what the rows of a job are by its status (`RowsTogether`), that a runner has a
worker that waits for it (`RunnerHeld`), that what a worker executes runs
(`HeldRunning`), and that what a stop read is still true when it writes
(`SeenStands`). `RowsTogether` without `RunnerHeld` would let a runner end a job
that is already settled, and `RunnerHeld` without `OneHolder` would let two
workers wait for one runner. `Settled` and the refinement follow from the
conjunction: each step of each actor is a `Submit`, `Begin` or `Settle` of the
ledger or leaves it alone. `Reached` adds `StoppedRows` (a stopped generation has
left the queue and does not return) and `Told`: a runner that has not closed is
registered, and its cancellation has been thrown, is on its way, or is not
needed because it will find its generation ended at the first read. The gap
between the rows and the scan of the active runners is exactly `OnItsWay`.

**Runtime registry.** A step touches one entry, so the invariant is one formula
per entry (`EntryInv`) and a formula for the gate (`CleanupInv`). `CommandShape`
and `ServiceShape` say, for every place of the call and of the host task, what
the row and the operating system can be: a process runs only with an active row
that stores its pid. `Asleep` is what is left when the backend is down, and what
recovery still has to look at. `StopShape` ties what a stop has read to whom it
waits for. `Evidence` says that a receipt, a proof and a "gone" flag belong to
dead processes, so that nothing else releases a slot. Every action is proved
`Local` to its entry once (`LocalInv`), and the clean-up's own steps leave
entries alone (`StillInv`). `BodyIsAlone` then is the gate: an entry becomes
active only when no operation covers its scope.

**Serial workflow.** `Good(run)`: the path behind the cursor is selected, completed
and fresh; only the attempt at the cursor of an active run is alive; generation
and execution of an attempt begin together and end in order. `InHand` ties the
one execution that runs to what the worker has in hand. Without `InHand` the
worker could close an attempt of a run that had ended, and without
`AliveAtCursor` a retry could leave a live row behind the cursor.

**World task.** The status of a child is projected from its claim, its
coordination, its execution and its run. `Follows` says that a coordination which
completed has an execution that did, and `KidMoves`, proved once for each of the
steps on a child, that no coordination which completed is taken up again and that
no claim comes or goes beside a delegation; a delegation needs an open task. Of
the run of a child nothing of the kind is true, as its group may reopen it. The
task itself completes only in the transaction of `complete` (`OnlyComplete`),
which reads every child; that its children's coordinations stay completed
afterwards is `SettledKids`. The loop
decides on what it read before (`ticking`): the invariant says that it decides only
about a task it found open, and the other steps that end one exclude a decision in
between, as `complete`, `stop` and the tick take one lock. Without it a decision
could reopen a task that is over.

**Event stream.** Everything that is on its way to the client is *sound* for the
log (`Sound(n)`): an event frame carries an event of the log, a snapshot is not
newer than the log and its cursor does not pass its messages. Soundness survives
growth of the log, so it holds of each frame under way, each queued or pending
event, the session's recovery, the history request and the cache. A history
request is awaited only while nothing is subscribed (`RestOK`), so its answer
cannot put a newer screen under an older cursor.

**Pools.** Owners, granted futures and program counters are one relation
(`SlotsOwned`), the queue holds waiters with open futures, each once (`QueueOK`),
and the owners are bounded. `NoIdleSlot` adds that a closed pool is empty, and
that a release hands over until the slots or the bytes are used up.

**Resource admission.** Exclusion of the admitted claims is carried by
`ActivePlaces`: a claim is replaced only while its task is out, and then it is not
admitted. Wake-ups need in addition that waiting list and places agree (`Owned`).

**Shell approval.** `runs` is bounded by the host's place: a host with the lock has
an approved row, a host on its way has not run. Rows leave "pending" once, by
`Swapped`. The lock's queue is a sequence without repetition whose members want
it.

**Files.** `FilesInv` ties a call's place to what happened to each of its items:
`ReceiptsOK` says that an item behind the place changed its file exactly if its
node says so, that the item at the place has changed it only in "confirm", and
that the items ahead have not; `EvidenceOK` that a confirmed row stands on a
change; `LockOK` that whoever is between check and confirmation holds the lock.
`ReportIsTrue` is then read off: what the next turn is told comes from a node or
from a row. Without `LockOK` another call could move an item's file between the
two; without `Placed` (an item's place exists) the step to the next item would
leave the list. `NoLostUpdate` speaks of the step itself: the commit compares
with the version the caller saw, which no wait separates from the replacement.

**Compaction.** `SummaryIsFaithful` needs four facts besides the types: who runs,
waits or is pointed at was created (`OnlyMade`); no source is frozen in a
revision that is yet to come (`Sourced`); sources lie before the cutoff and
include those of the base (`Covers`); and what a runner has read is no older
than what was frozen and no newer than what there is (`ReadOK`). Revisions only
grow, so a publication that finds the frozen revisions unchanged has read just
them; the base it was frozen on was published before, and faithfully by the
invariant itself. `CancelIsKept` is a property of steps that needs only the types,
because every path to "completed" passes `Closed`.

**Agent loop.** `EndsClosed` and `EffectIsTold` hold at the end of a pipeline
(graph, queue, `run_agent`, owner, rows), so the invariant says of each call
where its news is. `GraphOK` and `CallsOK` tie calls to the rounds that proposed
them; `EventsOK` says that an event tells what has happened; `RoundsOK` that
each response was seen or waits in the queue, in the order of the rounds, and
with `OrderOK` that an event comes after its response and an end after its
start; `PairsOK` that an answered call has its answer in the queue, in the
owner's hands or in the rows, and that a call which raised leaves something open;
`PartsOK` that a stored part tells the truth; `EndOK` that an outcome which claims
completeness stands on settled calls. `EndOK` alone is not inductive: that an
empty queue and nothing pending imply a settled reply is `PairsOK`, and that
the last response was whole is `RoundsOK`. The two places where the code takes
the first or the last of several events or rounds use that a finite set of
numbers has a least and a greatest element, obtained from the well-foundedness
of the strict subset order on finite sets, since induction itself is out of reach.

**Conversation.** `GateOK`: a request past its freeze holds the clean-up lock, its
scope's gate is closed, and what runs there was frozen, or is gone once drained.
So no command can run in the old workspace when the binding is exchanged.
`BindingOK` covers the change of binding without a drain: at the revision it saw
the binding is the one it saw, unless the workspace was deleted, which may set
the revision back (see the disagreement above; the invariant is stated around
it). `UnmadeOK` says that nothing is bound before creation, `StartOK` that a
start holds the control lock on the appointment it has read; every handler
that ends an appointment takes that lock or closes the run in the same
transaction, which gives `AppointedRun`.

**Servers.** A host task is a record with a place; `ToldOK` says that a host
which is over has settled its `ready` future, which is all `WaitersWake` needs.
`TreesAreTheirs` needs that a host which was opened alone notes its own process
and that nobody else notes it. `OpeningOK`: such a host is opened beside no
other, and a process of it that runs is among the children that another host
has listed first; `TakenOK`: no host has noted the process of one that was
opened alone; `TreeOK`: what the tree of a host can be at each of its places.
The hosts that were opened together are left to do anything to one another, and
the invariant shows that they do nothing to the others.

**Worlds.** `WorldsInv` says that whoever uses a world holds its lease on the
directory it took (`Stands`), unless the world is `undone`. A step that makes or
completes a directory finds none there, or one without a complete
manifest, so that nobody uses it (`Unused`); the clean-up of a failed creation
is the one that does not look, and adds what it removed in use to `undone`. The file lock and the check for an active lease come before a claim,
so a second taker of a world in use finds an owner that is alive: identities are
given out again, but not while their process lives.

**Logs.** Any number of backends start maintenance; until a lease is broken under
one of them, the one that works is the one that made the lease (`HoldsLease`), so
that the invariant follows a single one. `Frozen`: a source that was scanned gets
no more lines, if it is not a unit run's. `Progress` says by the place of the
maintenance what its source and archive have in common, the `missed` lines aside:
the manifest has the lines of the source before the archive is swapped in, the
archive has them until the source is gone, and an archive is deleted only with a
plan on disk that names its lines. `Kept`, the property itself, is preserved
because every removal is behind one of the two. After a lease was broken nothing
is claimed, and it stays broken (`BrokenStays`).

**Only model-checked**, and why: every liveness property (`StopEnds`,
`WaiterServed`, `CatchesUp`, `StopReachesTree`), since fairness and ENABLED are
beyond the prover; the byte count of the write pool, which is a fold over a set
and needs an induction the provers cannot instantiate (`NoIdleSlot` takes the
count as the code keeps it); `NoStaleInput`, `QuietWhenSettled`, `HeldByFeedback`
and `WaitingMoves`, whose engines compute descendants, boundaries and choices by
folds and recursive functions over the graph, so that their steps need what such
a definition computes for every graph.

## What is not modelled

* Scheduler: what is streamed, the draining of HTTP requests at shutdown. The
  read-then-write inside `_finalize` and `finish` is one step: both write the rows
  of one job that no other task writes at that point except the stop, whose own
  gap is modelled. The permit of a workflow job is a free answer here.
* Pools and admission: a slot or claim borrowed by the task that already holds one
  changes no state; a fresh admission object after `close` is a new process.
* Approvals: services started through an approval, waiting for SQLite's write lock.
* Stream: sign-in and sign-out, older pages, sending, the indicator of running
  generations, the reopening after `communication_updated`; the access checks of
  one recovery are one decision.
* Files: all calls are of one binding; locks of paths are folded into the command
  lock; receipts are stored after the tool tasks; text matching and size limits.
* Runtime: log capture, readiness probes beyond their outcome, texts of receipts.
* Workflows: request idempotency and revisions, the frozen budget, events, edits
  of definitions, the snapshot of capabilities (folded into `granted`), planning
  dialogues, the validation of a graph. `GraphRevisions` leaves retries,
  approvals and conditions to `WorkflowEngine`.
* Conversations: creation and validation of a workspace, capability flags, the
  order of message targets; applying a change and ending its scope is one step.
* Compaction: token estimates and the policy of what to keep; a manual request
  carries the current revision.
* World tasks: replanned children, several tasks at once, world memory.
* Worlds: attachments. Logs: formatters, filters and settings.
* Not modelled at all: memory (`memory/service.py`: single transactions guarded by
  a revision), model providers and the fake provider (adapters; only their
  outcomes matter), path resolution, listing, search and diffs of files
  (functions of the disk; their concurrency is the pools'), context building
  (pure assembly), world types (registration tables), authentication, model
  configurations and schemas, React components, migrations and scripts.

## Plan

Done: every component with concurrent or durable state is modelled and checked,
and the theorems above are proved. Next would be the graph engines:
`WorkflowEngine` and `GraphRevisions` compute descendants and choices by folds
over the order of nodes, so `NoStaleInput`, `QuietWhenSettled` and `WaitingMoves`
would first need the relation those folds compute stated beside them, as
`SerialWorkflow` states it for a path.
