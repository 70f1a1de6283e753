----------------------------- MODULE WorldTasks -----------------------------
(***************************************************************************)
(* A task of the world coordinator (world_orchestrator/tasks.py and        *)
(* service.py) with the group coordinations it delegates to                *)
(* (workflows/planning.py) and the root budget they all pay from           *)
(* (services/agent_budget.py).                                             *)
(*                                                                         *)
(* The coordinator works in rounds, executions of the world conversation.  *)
(* A round delegates to groups: a child is claimed under the world's       *)
(* control_lock, then dispatched under the control_lock of the groups.  A  *)
(* loop (tick) merges what became of the children into the task and starts *)
(* the next round.  Meanwhile the Owner stops the task, one child or one   *)
(* round, adds a requirement, or changes the manager's configuration,      *)
(* which revokes everything that was granted before.                       *)
(*                                                                         *)
(* A step is one critical section or one short transaction.  tick reads    *)
(* the executions before it decides, and it is the only one that holds the *)
(* lock for two steps here.  A group's workflow run is seen from outside   *)
(* only: WorkflowEngine models it.                                         *)
(***************************************************************************)
EXTENDS Naturals, FiniteSets, FiniteSetsExt

CONSTANTS
    Rounds,      \* 1..n, the coordinator's executions, in the order of their creation
    Children,    \* 1..k, the delegations, named by their request_key
    Limit,       \* decision_limit of the root chain
    ChildLimit,  \* decision_limit of a child's chain
    MaxDecisions,\* bound: the decisions of one round
    MaxEvents    \* bound: what the Owner does, provider faults, answers of people, restarts

None == 0

VARIABLES
    revision,\* WorldOrchestrator.revision: of the appointment
    task,    \* WorldTask: status, error, the child facts the last continuation was for
    rounds,  \* AgentExecution and Generation of a round, with the delegate call it is in
    kids,    \* WorldTaskChild, its CoordinationSession and execution, its WorkflowRun
    used,    \* WorkflowBudget.used_decisions: of the root chain, of the children's
    tick,    \* the loop: where it is and what it read
    stoppers,\* stop() in progress, of the Owner and of the loop
    left     \* remaining events

vars == <<revision, task, rounds, kids, used, tick, stoppers, left>>

TERMINAL == {"completed", "stopped", "failed", "interrupted"}

Active == {"queued", "running"}

NoRound == [ex |-> "none", by |-> "owner", rev |-> 0, stop |-> FALSE, turns |-> 0,
            call |-> None, lost |-> FALSE]

\* Of a round that is over only its end matters.
Ended(how) == [NoRound EXCEPT !.ex = how]

NewRound(by, rev) == [NoRound EXCEPT !.ex = "queued", !.by = by, !.rev = rev]

NoChild == [status |-> "none", parent |-> None, co |-> "none", revoked |-> FALSE,
            ex |-> "none", stop |-> FALSE, run |-> "none", cut |-> FALSE, opinion |-> 0, blocking |-> FALSE]

\* The children whose facts a round was started for; no children yet.
NoFacts == [k \in Children |-> <<>>]

IdleTick == [pc |-> "idle", active |-> {}, stopped |-> FALSE, failed |-> FALSE]

NoStop == [pc |-> "none", todo |-> {}, seen |-> [k \in Children |-> "none"]]

\* The Owner's message has just created the task and its first round.
Init ==
    /\ revision = 1
    /\ task = [status |-> "queued", rev |-> 1, error |-> FALSE, told |-> NoFacts]
    /\ rounds = [r \in Rounds |-> IF r = 1 THEN NewRound("owner", 1) ELSE NoRound]
    /\ kids = [k \in Children |-> NoChild]
    /\ used = [root |-> 0, child |-> [k \in Children |-> 0]]
    /\ tick = IdleTick
    /\ stoppers = [s \in {"owner", "loop"} |-> NoStop]
    /\ left = MaxEvents

-----------------------------------------------------------------------------
(* What the components check *)

Closed == task.status \in TERMINAL \cup {"stopping"}

\* The appointment the task was created under is no longer the current one.
Moved == revision # task.rev

\* service.authorized: the grant of a round holds.
Granted(r) ==
    /\ revision = rounds[r].rev
    /\ rounds[r].ex \in Active /\ ~rounds[r].stop

authorized(r, writing) == Granted(r) /\ ~(writing /\ Closed)

\* The groups check the world's authority before every decision, tool and start.
child_allowed == ~Closed /\ ~Moved

\* planning.authorized, as seen by the child's coordinating execution.
Coordinating(k) == kids[k].co \in Active /\ child_allowed

ActiveRounds == {r \in Rounds : rounds[r].ex \in Active}

Delegated == {k \in Children : kids[k].status # "none"}

RunActive(k) == kids[k].run \in {"running", "waiting", "stopping"}

\* What the properties exclude: the coordination alone decides.
ProjectedByCoordination(k) ==
    LET s == IF kids[k].co = "none" THEN kids[k].status ELSE kids[k].co
    IN IF s \in {"blocked", "interrupted"} THEN "failed" ELSE s

\* children(): the status of a child as tick, stop and complete see it.
Projected(k) ==
    LET c == kids[k]
        s == IF c.co = "none" THEN c.status
             ELSE IF c.run = "none" \/ (c.run = "completed" /\ c.co # "completed") THEN c.co
             ELSE c.run
    IN IF s \in {"blocked", "interrupted"} THEN "failed" ELSE s

Settled(k) == Projected(k) \in TERMINAL

\* What the next continuation would be for.
Facts == [k \in Children |-> IF k \notin Delegated THEN <<>>
                             ELSE <<Projected(k), kids[k].run # "none",
                                    IF kids[k].run = "waiting" THEN kids[k].opinion ELSE 0,
                                    kids[k].blocking>>]

Exhausted == used.root >= Limit

Happens == left > 0 /\ left' = left - 1

Unlocked == tick.pc # "looked"

-----------------------------------------------------------------------------
(* A round *)

EndRound(r, how) == rounds' = [rounds EXCEPT ![r] = Ended(how)]

\* _run_job refuses a job whose payload names no request_id, which the loop's has not.
RoundClaims(r) ==
    /\ rounds[r].ex = "queued"
    /\ IF rounds[r].by = "owner" /\ Granted(r)
       THEN rounds' = [rounds EXCEPT ![r].ex = "running"]
       ELSE EndRound(r, "failed")
    /\ UNCHANGED <<revision, task, kids, used, tick, stoppers, left>>

\* Before each model call: the context is authorised again, then the decision is paid.
RoundDecides(r) ==
    /\ rounds[r].ex = "running" /\ rounds[r].call = None
    /\ Granted(r) /\ ~Exhausted /\ rounds[r].turns < MaxDecisions
    /\ rounds' = [rounds EXCEPT ![r].turns = @ + 1]
    /\ used' = [used EXCEPT !.root = @ + 1]
    /\ UNCHANGED <<revision, task, kids, tick, stoppers, left>>

\* It answers, or no decision was left for it.
RoundEnds(r) ==
    /\ rounds[r].ex = "running" /\ rounds[r].call = None
    /\ rounds[r].turns > 0 \/ Exhausted
    /\ EndRound(r, IF Granted(r) THEN "done" ELSE "failed")
    /\ UNCHANGED <<revision, task, kids, used, tick, stoppers, left>>

RoundFails(r) ==
    /\ rounds[r].ex = "running" /\ rounds[r].call = None
    /\ Happens
    /\ EndRound(r, "failed")
    /\ UNCHANGED <<revision, task, kids, used, tick, stoppers>>

\* The cancel reaches the round's task: a delegate call is left first.
RoundStops(r) ==
    /\ rounds[r].ex \in Active /\ rounds[r].stop
    /\ IF rounds[r].call = None THEN EndRound(r, "stopped")
       ELSE ~rounds[r].lost /\ rounds' = [rounds EXCEPT ![r].lost = TRUE]
    /\ UNCHANGED <<revision, task, kids, used, tick, stoppers, left>>

\* stop_generations: what runs is asked to stop, what is queued ends at once.
Stopping(x) == CASE x.ex = "running" -> [x EXCEPT !.stop = TRUE]
                 [] x.ex = "queued" -> [x EXCEPT !.ex = "stopped"]
                 [] OTHER -> x

StoppedRound(x) == IF x.ex = "queued" THEN Ended("stopped") ELSE Stopping(x)

-----------------------------------------------------------------------------
(* Delegation *)

\* Under the world's lock: the request is claimed once per key.
Delegate(r, k) ==
    /\ Unlocked
    /\ rounds[r].ex = "running" /\ rounds[r].call = None /\ rounds[r].turns > 0
    /\ authorized(r, TRUE)
    /\ kids[k].status = "none"
    /\ kids' = [kids EXCEPT ![k] = [NoChild EXCEPT !.status = "pending_dispatch", !.parent = r]]
    /\ rounds' = [rounds EXCEPT ![r].call = k]
    /\ UNCHANGED <<revision, task, used, tick, stoppers, left>>

\* attach_child, in the transaction of planning.start.
Attachable(k) ==
    /\ kids[k].co = "none" /\ kids[k].status = "pending_dispatch"
    /\ authorized(kids[k].parent, TRUE)

\* planning.start under the groups' lock: session, execution and job in one transaction.
Start(r) ==
    LET k == rounds[r].call IN
    /\ k # None /\ ~rounds[r].lost
    /\ Attachable(k)
    /\ kids' = [kids EXCEPT ![k].status = "queued", ![k].co = "queued", ![k].ex = "queued"]
    /\ rounds' = [rounds EXCEPT ![r].call = None]
    /\ UNCHANGED <<revision, task, used, tick, stoppers, left>>

\* The child may no longer be attached, or the group refuses: no coordinator, a closing world.
StartRefused(r) ==
    LET k == rounds[r].call IN
    /\ k # None /\ ~rounds[r].lost
    /\ IF Attachable(k) THEN Happens ELSE left' = left
    /\ rounds' = [rounds EXCEPT ![r].lost = TRUE]
    /\ UNCHANGED <<revision, task, kids, used, tick, stoppers>>

\* The handler of a failed or cancelled dispatch looks at the child before it writes.
DispatchFailed(r) ==
    LET k == rounds[r].call IN
    /\ rounds[r].lost
    /\ kids' = IF kids[k].co = "none" /\ kids[k].status = "pending_dispatch"
               THEN [kids EXCEPT ![k].status = "failed"] ELSE kids
    /\ rounds' = [rounds EXCEPT ![r].call = None, ![r].lost = FALSE]
    /\ UNCHANGED <<revision, task, used, tick, stoppers, left>>

\* world_finish_task
Complete(r) ==
    /\ Unlocked
    /\ rounds[r].ex = "running" /\ rounds[r].call = None /\ rounds[r].turns > 0
    /\ authorized(r, TRUE)
    /\ Delegated # {} /\ \A k \in Delegated : Projected(k) = "completed" /\ ~kids[k].blocking
    /\ task' = [task EXCEPT !.status = "completed"]
    /\ UNCHANGED <<revision, rounds, kids, used, tick, stoppers, left>>

-----------------------------------------------------------------------------
(* A child in its group *)

\* The run's revision moves: the picture that a stop has of it is no longer the run's.
Outdated(k) == stoppers' = [s \in DOMAIN stoppers |-> [stoppers[s] EXCEPT !.seen[k] = "none"]]

SetChild(k, c) ==
    /\ kids' = [kids EXCEPT ![k] = c]
    /\ IF c.run = kids[k].run THEN UNCHANGED stoppers ELSE Outdated(k)
    /\ UNCHANGED <<revision, task, rounds, used, tick>>

\* permit_generation is asked when the job is taken.
ChildClaims(k) ==
    /\ kids[k].ex = "queued"
    /\ SetChild(k, [kids[k] EXCEPT !.ex = IF Coordinating(k) /\ ~kids[k].stop
                                          THEN "running" ELSE "failed"])
    /\ UNCHANGED left

\* workflow_start
ChildStartsRun(k) ==
    /\ kids[k].ex = "running" /\ ~kids[k].stop /\ kids[k].run = "none"
    /\ Coordinating(k)
    /\ SetChild(k, [kids[k] EXCEPT !.run = "running"])
    /\ UNCHANGED left

ChildEnds(k, how) ==
    /\ kids[k].ex = "running"
    /\ SetChild(k, [kids[k] EXCEPT !.ex = how])
    /\ UNCHANGED left

ChildStops(k) ==
    /\ kids[k].ex = "running" /\ kids[k].stop
    /\ SetChild(k, [kids[k] EXCEPT !.ex = "stopped"])
    /\ UNCHANGED left

\* advance_all: the coordination follows its execution and ends with the authority.
Advance(k) ==
    LET c == kids[k]
        revoked == c.revoked \/ (c.co # "stopping" /\ ~c.stop /\ ~Coordinating(k))
        co == IF revoked \/ c.stop THEN "stopping" ELSE c.co
    IN
    /\ c.co \in Active \cup {"stopping"}
    /\ SetChild(k, IF c.ex \in Active
                   THEN IF co = "stopping" THEN [Stopping(c) EXCEPT !.co = co, !.revoked = revoked]
                        ELSE [c EXCEPT !.co = c.ex]
                   ELSE [c EXCEPT !.revoked = revoked,
                                  !.co = IF revoked THEN "blocked"
                                         ELSE IF co = "stopping" THEN "stopped" ELSE c.ex])
    /\ kids' # kids
    /\ UNCHANGED left

\* The group's run goes on without the world: it ends, or waits for a person.
RunEnds(k, how) ==
    /\ kids[k].run = "running"
    /\ SetChild(k, [kids[k] EXCEPT !.run = how, !.cut = FALSE])
    /\ UNCHANGED left

RunWaits(k) ==
    /\ kids[k].run = "running"
    /\ Happens
    /\ SetChild(k, [kids[k] EXCEPT !.run = "waiting", !.cut = FALSE, !.opinion = @ + 1])

RunAnswered(k) ==
    /\ kids[k].run = "waiting"
    /\ Happens
    /\ SetChild(k, [kids[k] EXCEPT !.run = "running"])

\* A node of it ends, another starts.
RunGoesOn(k) ==
    /\ kids[k].run = "running"
    /\ Outdated(k)
    /\ UNCHANGED <<revision, task, rounds, kids, used, tick, left>>

\* control: the group's Owner resumes a run that has settled, or retries a node of it; the world
\* task is not asked.
RunReopened(k) ==
    /\ kids[k].run \in {"completed", "failed", "stopped"}
    /\ Happens
    /\ SetChild(k, [kids[k] EXCEPT !.run = "running", !.cut = FALSE])

\* The Owner registers an opinion that blocks, or settles it, whatever the run does.
Opinion(k) ==
    /\ kids[k].run # "none"
    /\ IF kids[k].blocking THEN left' = left ELSE Happens
    /\ kids' = [kids EXCEPT ![k].blocking = ~@]
    /\ Outdated(k)
    /\ UNCHANGED <<revision, task, rounds, used, tick>>

\* Its executions were stopped or lost the world's authority: the engine closes it.
RunCut(k) ==
    /\ kids[k].run = "running" /\ (kids[k].cut \/ ~child_allowed)
    /\ SetChild(k, [kids[k] EXCEPT !.run = "failed", !.cut = FALSE])
    /\ UNCHANGED left

RunStops(k) ==
    /\ kids[k].run = "stopping"
    /\ SetChild(k, [kids[k] EXCEPT !.run = "stopped", !.cut = FALSE])
    /\ UNCHANGED left

\* consume: the root pays, then the child's own chain; without the second neither does.
Charged(k) == IF used.child[k] < ChildLimit
              THEN [root |-> used.root + 1, child |-> [used.child EXCEPT ![k] = @ + 1]]
              ELSE used

\* An execution of the child's chain asks for a decision.
ChildDecides(k) ==
    /\ (kids[k].ex = "running" /\ ~kids[k].stop) \/ (kids[k].run = "running" /\ ~kids[k].cut)
    /\ child_allowed
    /\ ~Exhausted
    /\ used' = Charged(k)
    /\ UNCHANGED <<revision, task, rounds, kids, tick, stoppers, left>>

-----------------------------------------------------------------------------
(* Stopping *)

\* First the task is closed to new work, then its tree is cancelled from this picture of it.
BeginStop(s) ==
    /\ Unlocked
    /\ IF task.status \in TERMINAL
       THEN stoppers' = [stoppers EXCEPT ![s] = NoStop] /\ UNCHANGED task
       ELSE /\ task' = [task EXCEPT !.status = "stopping"]
            /\ stoppers' = [stoppers EXCEPT ![s] =
                  [pc |-> "tree", todo |-> {k \in Delegated : kids[k].co # "none"},
                   seen |-> [k \in Children |-> IF Settled(k) \/ kids[k].run = "stopping" THEN "none" ELSE kids[k].run]]]

OwnerStops ==
    /\ Happens
    /\ stoppers["owner"].pc = "none"
    /\ BeginStop("owner")
    /\ UNCHANGED <<revision, rounds, kids, used, tick>>

LoopStops ==
    /\ stoppers["loop"].pc = "due"
    /\ BeginStop("loop")
    /\ UNCHANGED <<revision, rounds, kids, used, tick, left>>

\* What the properties exclude: a run that waits for a person is not stopped.
RunningAfterStop(run, seen) == IF run = seen /\ run = "running" THEN "stopping" ELSE run

\* control(stop) of the group's run, unless it moved on since the picture was taken.
RunAfterStop(run, seen) == IF run = seen /\ run \in {"running", "waiting"} THEN "stopping" ELSE run

\* One child: its run, then every execution of its chain.
Cancelled(c, seen) == LET run == RunAfterStop(c.run, seen)
                      IN [Stopping(c) EXCEPT !.run = run, !.cut = run = "running"]

StopTree(s) ==
    LET k == Min(stoppers[s].todo) IN
    /\ stoppers[s].pc = "tree" /\ stoppers[s].todo # {}
    /\ kids' = [kids EXCEPT ![k] = Cancelled(@, stoppers[s].seen[k])]
    /\ stoppers' = [stoppers EXCEPT ![s].todo = @ \ {k}, ![s].seen[k] = "none"]
    /\ UNCHANGED <<revision, task, rounds, used, tick, left>>

\* The coordinator's own chain comes last.
StopRoot(s) ==
    /\ stoppers[s].pc = "tree" /\ stoppers[s].todo = {}
    /\ rounds' = [r \in Rounds |-> StoppedRound(rounds[r])]
    /\ stoppers' = [stoppers EXCEPT ![s] = NoStop]
    /\ UNCHANGED <<revision, task, kids, used, tick, left>>

\* The Owner stops one child: what is not dispatched yet is refused to the dispatch.
OwnerStopsChild(k) ==
    /\ Happens
    /\ k \in Delegated /\ ~Settled(k)
    /\ kids' = [kids EXCEPT ![k] =
                  IF @.co = "none" THEN [@ EXCEPT !.status = "stopped"] ELSE Cancelled(@, @.run)]
    /\ UNCHANGED <<revision, task, rounds, used, tick, stoppers>>

\* The Owner stops the reply of a round.
OwnerStopsRound(r) ==
    /\ Happens
    /\ rounds[r].ex \in Active /\ ~rounds[r].stop
    /\ rounds' = [rounds EXCEPT ![r] = StoppedRound(@)]
    /\ UNCHANGED <<revision, task, kids, used, tick, stoppers>>

\* change(): a new configuration, or the manager switched off or on; each is a new revision.
Change ==
    /\ Unlocked
    /\ Happens
    /\ revision' = revision + 1
    /\ rounds' = [r \in Rounds |-> IF rounds[r].ex \in Active /\ rounds[r].rev < revision + 1
                                   THEN [rounds[r] EXCEPT !.stop = TRUE] ELSE rounds[r]]
    /\ UNCHANGED <<task, kids, used, tick, stoppers>>

-----------------------------------------------------------------------------
(* Going on *)

Fresh == {r \in Rounds : rounds[r].ex = "none"}

Enqueue(by) == rounds' = [rounds EXCEPT ![Min(Fresh)] = NewRound(by, task.rev)]

\* What the properties exclude: a round that waits for its worker is overlooked.
BusyRunning == \E r \in Rounds : rounds[r].ex = "running"

Busy == ActiveRounds # {}

\* continue_in_session: the Owner adds a requirement to the task.
Continue ==
    /\ Unlocked
    /\ Happens
    /\ ~Moved /\ ~Closed
    /\ ~Busy /\ ~Exhausted /\ Fresh # {}
    /\ Enqueue("owner")
    /\ task' = [task EXCEPT !.status = "queued"]
    /\ UNCHANGED <<revision, kids, used, tick, stoppers>>

\* tick under the lock: the executions of the task's rounds are read ...
TickLooks ==
    /\ tick.pc = "idle" /\ stoppers["loop"].pc = "none"
    /\ task.status \notin TERMINAL
    /\ tick' = [pc |-> "looked", active |-> ActiveRounds,
                stopped |-> \E r \in Rounds : rounds[r].ex = "stopped",
                failed |-> \E r \in Rounds : rounds[r].ex = "failed"]
    /\ UNCHANGED <<revision, task, rounds, kids, used, stoppers, left>>

\* ... a claim whose round is over is given up ...
Orphans == {k \in Children : /\ kids[k].co = "none" /\ kids[k].status = "pending_dispatch"
                             /\ kids[k].parent \notin tick.active}

SettledAfterTick(k) == k \in Orphans \/ Settled(k)

FactsAfterTick == [k \in Children |-> IF k \in Orphans THEN <<"failed", FALSE, 0, FALSE>> ELSE Facts[k]]

Ending == Moved \/ tick.stopped \/ task.status = "stopping"

AllSettled == \A k \in Delegated : SettledAfterTick(k)

\* Everything delegated has ended or waits for a person.
Meaningful == /\ Delegated # {}
              /\ \A k \in Delegated : SettledAfterTick(k) \/ Projected(k) = "waiting"

News == Meaningful /\ FactsAfterTick # task.told

\* ... and the task takes its next status: a new one, whether to stop it, whether to go on.
Decision ==
    IF Ending
    THEN IF tick.active # {} \/ ~AllSettled THEN [status |-> "stopping", stop |-> TRUE, go |-> FALSE]
         ELSE [status |-> IF task.error THEN "failed" ELSE "stopped", stop |-> FALSE, go |-> FALSE]
    ELSE IF tick.failed THEN [status |-> "stopping", stop |-> TRUE, go |-> FALSE]
    ELSE IF tick.active # {} THEN [status |-> "running", stop |-> FALSE, go |-> FALSE]
    ELSE IF Delegated = {} /\ Exhausted THEN [status |-> "failed", stop |-> FALSE, go |-> FALSE]
    ELSE IF News /\ Exhausted THEN [status |-> "stopping", stop |-> TRUE, go |-> FALSE]
    ELSE IF News THEN [status |-> "queued", stop |-> FALSE, go |-> TRUE]
    ELSE [status |-> "waiting", stop |-> FALSE, go |-> FALSE]

TickDecides ==
    /\ tick.pc = "looked"
    /\ Decision.go => Fresh # {}
    /\ task' = [task EXCEPT !.status = Decision.status,
                            !.error = @ \/ (~Ending /\ (tick.failed \/ Decision.status \in {"failed", "stopping"})),
                            !.told = IF ~Ending /\ ~tick.failed /\ tick.active = {} /\ News
                                     THEN FactsAfterTick ELSE @]
    /\ kids' = [k \in Children |-> IF k \in Orphans THEN [kids[k] EXCEPT !.status = "interrupted"] ELSE kids[k]]
    /\ IF Decision.go THEN Enqueue("loop") ELSE UNCHANGED rounds
    /\ stoppers' = IF Decision.stop THEN [stoppers EXCEPT !["loop"].pc = "due"] ELSE stoppers
    /\ tick' = IdleTick
    /\ UNCHANGED <<revision, used, left>>

\* The process ends and starts again: every initialize() closes what was left open.
Restart ==
    /\ Happens
    /\ rounds' = [r \in Rounds |-> IF rounds[r].ex \in Active
                                   THEN Ended("failed") ELSE rounds[r]]
    /\ kids' = [k \in Children |-> [kids[k] EXCEPT
                    !.ex = IF @ \in Active THEN "failed" ELSE @,
                    !.co = IF @ \in Active \cup {"stopping"} THEN "interrupted" ELSE @,
                    !.run = IF @ \in {"running", "stopping"} THEN "failed" ELSE @,
                    !.cut = FALSE]]
    /\ task' = [task EXCEPT !.status = IF @ \in TERMINAL THEN @ ELSE "interrupted"]
    /\ tick' = IdleTick
    /\ stoppers' = [s \in {"owner", "loop"} |-> NoStop]
    /\ UNCHANGED <<revision, used>>

-----------------------------------------------------------------------------
RoundStep(r) == \/ RoundClaims(r) \/ RoundStops(r)
                \/ Start(r) \/ StartRefused(r) \/ DispatchFailed(r)

ChildStep(k) == ChildClaims(k) \/ ChildStops(k) \/ Advance(k) \/ RunCut(k) \/ RunStops(k)

LoopStep == TickLooks \/ TickDecides \/ LoopStops

StopStep(s) == StopTree(s) \/ StopRoot(s)

Next ==
    \/ \E r \in Rounds : \/ RoundStep(r) \/ RoundDecides(r) \/ RoundEnds(r) \/ RoundFails(r)
                         \/ Complete(r) \/ OwnerStopsRound(r)
                         \/ \E k \in Children : Delegate(r, k)
    \/ \E k \in Children : \/ ChildStep(k) \/ ChildStartsRun(k) \/ RunWaits(k) \/ RunAnswered(k)
                           \/ RunGoesOn(k) \/ RunReopened(k) \/ Opinion(k)
                           \/ ChildDecides(k) \/ OwnerStopsChild(k)
                           \/ \E how \in {"completed", "failed"} : ChildEnds(k, how) \/ RunEnds(k, how)
    \/ LoopStep
    \/ \E s \in {"owner", "loop"} : StopStep(s)
    \/ OwnerStops \/ Continue \/ Change \/ Restart

\* The loops run for as long as the process does; a cancelled task ends; a dispatch ends
\* one way or the other.  No model, group or person is assumed to answer.
Fairness ==
    /\ WF_vars(\E r \in Rounds : RoundStep(r))
    /\ WF_vars(\E s \in {"owner", "loop"} : StopStep(s))
    /\ WF_vars(\E k \in Children : ChildStep(k))
    /\ WF_vars(LoopStep)

Spec == Init /\ [][Next]_vars /\ Fairness

-----------------------------------------------------------------------------
(* Properties *)

\* A task is completed over whole children only: at that step it has some, and each of them has
\* a completed run or, where none was started, a completed coordination, and no opinion that
\* blocks.  From then on nothing is delegated and no coordination taken up again, although the
\* Owner of a group may reopen its run (tasks.py:117-124, :360).
CompletedIsWhole == [][
    /\ task'.status = "completed" /\ task.status # "completed" =>
         /\ Delegated # {}
         /\ \A k \in Delegated : kids[k].run \in {"none", "completed"} /\ ~kids[k].blocking
    /\ task'.status = "completed" => \A k \in Delegated' : kids'[k].co = "completed" /\ kids'[k].ex = "completed"
    ]_vars

Quiet == /\ ActiveRounds = {}
         /\ \A k \in Children : kids[k].ex \notin Active /\ kids[k].run \notin {"running", "stopping"}

\* A stop reaches the whole tree: a task that is being stopped ends, and with it every round,
\* every coordination and every run, although runs move on while they are being stopped and the
\* stop of a run that moved is refused (tasks.py:391, :425).
StopReachesTree == task.status = "stopping" ~> (task.status \in TERMINAL /\ Quiet)

=============================================================================
