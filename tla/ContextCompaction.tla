------------------------- MODULE ContextCompaction -------------------------
(***************************************************************************)
(* Compaction of the history of one conversation (context/compaction.py,   *)
(* compaction_runner.py, automatic.py, runtime.py, summaries.py) together  *)
(* with the decision budget that pays for it (services/agent_budget.py).   *)
(*                                                                         *)
(* A maintenance freezes the revisions of its sources, reads them one by   *)
(* one, pays for every model call and publishes a summary.  The Owner      *)
(* starts one by hand (it queues behind the running turn) or a turn starts *)
(* one for itself and waits for it.  Meanwhile messages change, the Owner  *)
(* cancels it or restores another summary, the turn is stopped and the     *)
(* service may be restarted.                                               *)
(*                                                                         *)
(* A transaction that takes the row lock first (lock_material) is one      *)
(* step.  SQLite starts a transaction at the first write only, so rows     *)
(* read before it are old when the write lands: run and execute are a step *)
(* that reads and a step that writes.                                      *)
(***************************************************************************)
EXTENDS Queues, FiniteSets, FiniteSetsExt

CONSTANTS
    Msgs,        \* 1..n, the messages before the one the turn answers
    Jobs,        \* 1..k, the maintenances, numbered as they are created
    Limit,       \* decisions a message chain may take
    MaxRounds,   \* bound: decisions of the turn
    MaxEvents    \* bound: edits, new settings, restores, cancels, stops and restarts

None == 0

TERMINAL == {"completed", "unchanged", "failed", "stale", "cancelled", "interrupted"}

VARIABLES
    msgs,   \* message -> revision and whether it may be summarised
    ctx,    \* ConversationContext: revision, summary_revision, the active summary; settings
    jobs,   \* ContextCompression rows with their AgentExecution and Generation
    sums,   \* ContextSummary rows: job -> the revisions its text was made from
    runner, \* the asyncio task of a maintenance
    turn,   \* the turn that may start maintenances of its own
    used,   \* WorkflowBudget.used_decisions of the turn's chain
    lane,   \* the conversation's queue: entries waiting and the one that runs
    calls,  \* Owner's cancel requests between their commit and the cancelled task
    left    \* remaining events of the environment

vars == <<msgs, ctx, jobs, sums, runner, turn, used, lane, calls, left>>

Turn == 0   \* the turn's entry in the queue

Nothing == [m \in Msgs |-> 0]

NoJob == [status |-> "absent", trigger |-> "manual", scope |-> "conversation", src |-> Nothing,
          base |-> None, useBase |-> FALSE, srev |-> 0, setup |-> 0, through |-> 0,
          slot |-> FALSE, cancel |-> FALSE, stop |-> FALSE, exec |-> "queued", count |-> 0]

NoRun == [pc |-> "none", got |-> Nothing, outs |-> 0, why |-> "failed"]

Init ==
    /\ msgs = [m \in Msgs |-> [rev |-> 1, state |-> "in"]]
    /\ ctx = [rev |-> 0, srev |-> 0, pointer |-> None, setup |-> 0]
    /\ jobs = [j \in Jobs |-> NoJob]
    /\ sums = [j \in Jobs |-> Nothing]
    /\ runner = [j \in Jobs |-> NoRun]
    /\ turn = [pc |-> "waiting", rev |-> 0, mat |-> Nothing, stop |-> FALSE, sent |-> FALSE,
               count |-> 0, job |-> None, tried |-> FALSE]
    /\ used = 0
    /\ lane = [queue |-> <<Turn>>, busy |-> FALSE]
    /\ calls = {}
    /\ left = MaxEvents

-----------------------------------------------------------------------------
(* Summaries and their sources *)

Sources(src) == {m \in Msgs : src[m] > 0}

\* What the properties exclude: the sources are still summarised, in whatever revision.
MatchesAnyRevision(src) == \A m \in Sources(src) : msgs[m].state = "in"

Matches(src) == \A m \in Sources(src) : msgs[m].rev = src[m] /\ msgs[m].state = "in"

Published(j) == j # None /\ sums[j] # Nothing

sources_valid(j) == Sources(jobs[j].src) # {} /\ Matches(jobs[j].src)

current_summary == IF ctx.pointer # None /\ sources_valid(ctx.pointer) THEN ctx.pointer ELSE None

Unfinished == {j \in Jobs : jobs[j].status \notin TERMINAL \cup {"absent"}}

Shared == {j \in Jobs : jobs[j].scope = "conversation"}

Live(j) == runner[j].pc \notin {"none", "done"}

-----------------------------------------------------------------------------
(* Creating a maintenance *)

NextJob == Min({j \in Jobs : jobs[j].status = "absent"})

\* What the properties exclude: only a maintenance that runs takes the slot.
BusyRunning == \E j \in Jobs : jobs[j].slot /\ jobs[j].status # "queued"

Busy == \E j \in Jobs : jobs[j].slot

\* What start selects up to a cutoff: every message that may be summarised.
Selected(cutoff) == [m \in Msgs |-> IF m <= cutoff /\ msgs[m].state = "in" THEN msgs[m].rev ELSE 0]

\* The transaction of start; the parent's identity and the private material are the host's.
Frozen(trigger, scope, src, cutoff) ==
    [status |-> "queued", trigger |-> trigger, scope |-> scope, src |-> src,
     base |-> ctx.pointer, useBase |-> scope = "conversation" /\ current_summary # None,
     srev |-> ctx.srev, setup |-> ctx.setup, through |-> cutoff,
     slot |-> scope = "conversation", cancel |-> FALSE, stop |-> FALSE,
     exec |-> "queued", count |-> 0]

MayStartShared(cutoff) ==
    /\ ~Busy
    /\ Sources(Selected(cutoff)) # {}
    /\ current_summary # None => cutoff >= jobs[current_summary].through

OwnerStarts ==
    /\ \E j \in Jobs : jobs[j].status = "absent"
    /\ \E cutoff \in Msgs :
         /\ MayStartShared(cutoff)
         /\ jobs' = [jobs EXCEPT ![NextJob] = Frozen("manual", "conversation", Selected(cutoff), cutoff)]
    /\ lane' = [lane EXCEPT !.queue = Append(@, NextJob)]
    /\ UNCHANGED <<msgs, ctx, sums, runner, turn, used, calls, left>>

-----------------------------------------------------------------------------
(* Authorisation and the budget *)

ParentAlive == turn.pc \notin {"waiting", "over", "closed"} /\ ~turn.stop

\* What the properties exclude: an asked cancel counts only once it closed the row.
OverWhenClosed(job) == job.status \in TERMINAL

Over(job) == job.cancel \/ job.status \in TERMINAL

\* authorized with validate_job, in the order of its checks.
authorized(j) ==
    LET job == jobs[j] IN
    IF Over(job) \/ (job.trigger = "automatic" /\ ~ParentAlive) THEN "cancelled"
    ELSE IF \/ job.trigger = "automatic" /\ job.setup # ctx.setup
            \/ job.scope = "execution" /\ \E m \in Msgs : msgs[m].rev # job.src[m]
            \/ job.scope = "conversation" /\ ~sources_valid(j) THEN "stale"
    ELSE IF job.setup # ctx.setup THEN "failed" ELSE "ok"

\* How an outcome of authorized leaves run: CancelledError ends as interrupted.
Ending(verdict) == IF verdict = "cancelled" THEN "interrupted" ELSE verdict

Goes(j, pc) == runner' = [runner EXCEPT ![j].pc = pc]

Gives(j, why) == runner' = [runner EXCEPT ![j].pc = "end", ![j].why = why]

-----------------------------------------------------------------------------
(* The runner of a maintenance (run, call_model, finish) *)

RunRead(j) ==
    /\ runner[j].pc = "begin"
    /\ IF authorized(j) = "ok" THEN Goes(j, "mark") ELSE Gives(j, Ending(authorized(j)))
    /\ UNCHANGED <<msgs, ctx, jobs, sums, turn, used, lane, calls, left>>

\* The sources the base summary does not cover and that were not read yet.
Unread(j, got) == {m \in Sources(jobs[j].src) : got[m] = 0}

\* The row is written whatever it holds by now.  The base summary is the first unit,
\* private units are held in memory.
RunMark(j) ==
    /\ runner[j].pc = "mark"
    /\ jobs' = [jobs EXCEPT ![j].status = "running"]
    /\ LET got == IF jobs[j].scope = "execution" THEN jobs[j].src
                  ELSE IF jobs[j].useBase THEN sums[jobs[j].base] ELSE Nothing
       IN runner' = [runner EXCEPT ![j].got = got,
                                   ![j].pc = IF Unread(j, got) = {} THEN "call" ELSE "units"]
    /\ UNCHANGED <<msgs, ctx, sums, turn, used, lane, calls, left>>

\* One message is read in a session of its own; a full chunk is sent to the model.
ReadUnit(j) ==
    /\ runner[j].pc = "units"
    /\ LET m   == Min(Unread(j, runner[j].got))
           got == [runner[j].got EXCEPT ![m] = msgs[m].rev]
       IN IF msgs[m].state = "gone"
          THEN Gives(j, "failed")
          ELSE \E pc \in {"call"} \cup (IF Unread(j, got) = {} THEN {} ELSE {"units"}) :
                 runner' = [runner EXCEPT ![j].got = got, ![j].pc = pc]
    /\ UNCHANGED <<msgs, ctx, jobs, sums, turn, used, lane, calls, left>>

Permit(j) ==
    /\ runner[j].pc = "call"
    /\ IF authorized(j) = "ok" THEN Goes(j, "pay") ELSE Gives(j, Ending(authorized(j)))
    /\ UNCHANGED <<msgs, ctx, jobs, sums, turn, used, lane, calls, left>>

\* consume: an automatic maintenance shares the turn's chain and leaves it one decision.
Affords(j) == IF jobs[j].trigger = "automatic" THEN used < Limit - 1 ELSE jobs[j].count < Limit

Consume(j) ==
    /\ runner[j].pc = "pay"
    /\ IF jobs[j].exec # "running" \/ jobs[j].stop
       THEN Gives(j, "interrupted") /\ UNCHANGED <<jobs, used>>
       ELSE IF ~Affords(j) THEN Gives(j, "failed") /\ UNCHANGED <<jobs, used>>
       ELSE /\ Goes(j, "model")
            /\ jobs' = [jobs EXCEPT ![j].count = @ + 1]
            /\ used' = IF jobs[j].trigger = "automatic" THEN used + 1 ELSE used
    /\ UNCHANGED <<msgs, ctx, sums, turn, lane, calls, left>>

\* A usable answer goes on with the next chunk, a merge of two outputs or the publication.
Answer(j) ==
    /\ runner[j].pc = "model"
    /\ \/ Gives(j, "failed")
       \/ runner' = [runner EXCEPT
              ![j].pc   = IF Unread(j, runner[j].got) # {} THEN "units"
                          ELSE IF runner[j].outs = 0 THEN "publish" ELSE "call",
              ![j].outs = IF Unread(j, runner[j].got) # {} THEN 1 ELSE 0]
    /\ UNCHANGED <<msgs, ctx, jobs, sums, turn, used, lane, calls, left>>

\* The row, the generation and, for an automatic maintenance, the execution are closed together.
Closed(job, status) ==
    [job EXCEPT !.status = status, !.slot = FALSE,
                !.exec = IF job.trigger = "automatic" THEN "ended" ELSE @]

\* finish without content.
Finished(j, why) ==
    IF jobs[j].status \in TERMINAL THEN jobs[j]
    ELSE Closed(jobs[j], IF jobs[j].cancel THEN "cancelled" ELSE why)

PointerMoved(j) == jobs[j].scope = "conversation"
                   /\ (ctx.pointer # jobs[j].base \/ ctx.srev # jobs[j].srev)

\* finish with a content, under the row lock.  A parent that is gone cancels the
\* transaction itself; run then finishes a second time as interrupted.
Publish(j) ==
    /\ runner[j].pc = "publish"
    /\ LET job     == jobs[j]
           verdict == authorized(j)
           Close(status) == /\ jobs' = [jobs EXCEPT ![j] = Finished(j, status)]
                            /\ Goes(j, "done")
       IN IF Over(job) THEN Close("cancelled") /\ UNCHANGED <<sums, ctx>>
          ELSE IF verdict = "cancelled"
          THEN Gives(j, "interrupted") /\ UNCHANGED <<jobs, sums, ctx>>
          ELSE IF verdict # "ok" \/ PointerMoved(j)
          THEN Close(IF verdict # "ok" THEN verdict ELSE "stale") /\ UNCHANGED <<sums, ctx>>
          ELSE \/ Close("unchanged") /\ UNCHANGED <<sums, ctx>>     \* no gain
               \/ /\ Close("completed")
                  /\ IF job.scope = "conversation"
                     THEN /\ sums' = [sums EXCEPT ![j] = runner[j].got]
                          /\ ctx' = [ctx EXCEPT !.pointer = j, !.rev = @ + 1, !.srev = @ + 1]
                     ELSE UNCHANGED <<sums, ctx>>
    /\ UNCHANGED <<msgs, turn, used, lane, calls, left>>

Finish(j) ==
    /\ runner[j].pc = "end"
    /\ jobs' = [jobs EXCEPT ![j] = Finished(j, runner[j].why)]
    /\ Goes(j, "done")
    /\ UNCHANGED <<msgs, ctx, sums, turn, used, lane, calls, left>>

\* task.cancel: a task that has not run never runs, one that finishes is not disturbed.
Hit(j) ==
    IF runner[j].pc \in {"none", "done", "end", "publish"} THEN {runner[j]}
    ELSE {[runner[j] EXCEPT !.pc = "end", !.why = "interrupted"]}
           \cup (IF runner[j].pc = "begin" THEN {[runner[j] EXCEPT !.pc = "done"]} ELSE {})

-----------------------------------------------------------------------------
(* The turn: prepare and shared before its first decision, RuntimeContext.prepare  *)
(* before every decision, then authorize_decision                              *)

TurnGoes(pc) == turn' = [turn EXCEPT !.pc = pc]

\* Where the turn continues after a maintenance, done or not.
After == IF turn.tried THEN "pay" ELSE "prep"

\* build_context: the revision and the message revisions of the material.
TurnBuild ==
    /\ turn.pc = "build"
    /\ turn' = [turn EXCEPT !.pc = "check", !.rev = ctx.rev, !.mat = [m \in Msgs |-> msgs[m].rev]]
    /\ UNCHANGED <<msgs, ctx, jobs, sums, runner, used, lane, calls, left>>

\* shared: nothing to relieve, a newer material, a maintenance under way, or start one.
TurnCheck ==
    /\ turn.pc = "check"
    /\ \/ TurnGoes("prep")
       \/ turn.rev = ctx.rev /\ ~Busy /\ TurnGoes("start")
    /\ UNCHANGED <<msgs, ctx, jobs, sums, runner, used, lane, calls, left>>

\* The private rounds of this execution are under pressure, or the input fits.
TurnPrepare ==
    /\ turn.pc = "prep"
    /\ IF turn.stop
       THEN TurnGoes("ending")
       ELSE \/ TurnGoes("pay")
            \/ /\ turn.count > 0 /\ ~turn.tried
               /\ turn' = [turn EXCEPT !.pc = "start", !.rev = ctx.rev, !.tried = TRUE]
    /\ UNCHANGED <<msgs, ctx, jobs, sums, runner, used, lane, calls, left>>

\* compaction.start for the turn; a conflict keeps the material as it is.
TurnStart ==
    /\ turn.pc = "start"
    /\ LET scope == IF turn.tried THEN "execution" ELSE "conversation"
           src   == IF turn.tried THEN turn.mat ELSE Selected(Max(Msgs)) IN
       IF turn.stop THEN TurnGoes("ending") /\ UNCHANGED jobs
       ELSE IF \/ turn.rev # ctx.rev \/ (scope = "conversation" /\ ~MayStartShared(Max(Msgs)))
               \/ \A j \in Jobs : jobs[j].status # "absent"
       THEN TurnGoes(After) /\ UNCHANGED jobs
       ELSE /\ jobs' = [jobs EXCEPT ![NextJob] = Frozen("automatic", scope, src, Max(Msgs))]
            /\ turn' = [turn EXCEPT !.pc = "created", !.job = NextJob]
    /\ UNCHANGED <<msgs, ctx, sums, runner, used, lane, calls, left>>

\* execute reads the row ...
ExecuteRead ==
    /\ turn.pc = "created"
    /\ IF jobs[turn.job].status = "queued" THEN TurnGoes("execute") ELSE TurnGoes(After)
    /\ UNCHANGED <<msgs, ctx, jobs, sums, runner, used, lane, calls, left>>

\* ... and marks the execution running whatever it is by now.
ExecuteWrite ==
    /\ turn.pc = "execute"
    /\ jobs' = [jobs EXCEPT ![turn.job].exec = "running"]
    /\ Goes(turn.job, "begin")
    /\ TurnGoes("await")
    /\ UNCHANGED <<msgs, ctx, sums, used, lane, calls, left>>

TurnResumes ==
    /\ turn.pc \in {"await", "reap"} /\ ~Live(turn.job)
    /\ TurnGoes(IF turn.pc = "reap" THEN "ending" ELSE After)
    /\ UNCHANGED <<msgs, ctx, jobs, sums, runner, used, lane, calls, left>>

TurnPay ==
    /\ turn.pc = "pay"
    /\ IF turn.stop \/ used >= Limit
       THEN TurnGoes("ending") /\ UNCHANGED used
       ELSE /\ turn' = [turn EXCEPT !.pc = "model", !.count = @ + 1]
            /\ used' = used + 1
    /\ UNCHANGED <<msgs, ctx, jobs, sums, runner, lane, calls, left>>

TurnAnswer ==
    /\ turn.pc = "model"
    /\ \/ turn.count < MaxRounds /\ TurnGoes("prep")
       \/ TurnGoes("ending")
    /\ UNCHANGED <<msgs, ctx, jobs, sums, runner, used, lane, calls, left>>

\* _finalize: the turn's rows are closed ...
TurnFinalize ==
    /\ turn.pc = "ending"
    /\ TurnGoes("over")
    /\ UNCHANGED <<msgs, ctx, jobs, sums, runner, used, lane, calls, left>>

\* ... and close_parent ends the maintenances it never came to run.
CloseParent ==
    /\ turn.pc = "over"
    /\ jobs' = [j \in Jobs |-> IF jobs[j].trigger = "automatic" /\ j \in Unfinished
                               THEN Finished(j, "interrupted") ELSE jobs[j]]
    /\ TurnGoes("closed")
    /\ lane' = [lane EXCEPT !.busy = FALSE]
    /\ UNCHANGED <<msgs, ctx, sums, runner, used, calls, left>>

\* stop_generations: the generations of the chain are marked, queued ones end at once ...
StopTurn ==
    /\ left > 0 /\ turn.pc \notin {"waiting", "over", "closed"} /\ ~turn.stop
    /\ left' = left - 1
    /\ turn' = [turn EXCEPT !.stop = TRUE, !.sent = TRUE]
    /\ jobs' = [j \in Jobs |->
                 IF jobs[j].trigger = "automatic" /\ jobs[j].exec # "ended" /\ jobs[j].status # "absent"
                 THEN [jobs[j] EXCEPT !.stop = TRUE, !.exec = IF @ = "queued" THEN "ended" ELSE @]
                 ELSE jobs[j]]
    /\ UNCHANGED <<msgs, ctx, sums, runner, used, lane, calls>>

\* ... and the task of the turn is cancelled; a turn that waits passes it on and waits on.
StopArrives ==
    /\ turn.sent
    /\ IF turn.pc \in {"ending", "over", "closed"}
       THEN turn' = [turn EXCEPT !.sent = FALSE] /\ UNCHANGED runner
       ELSE IF turn.pc = "await" /\ Live(turn.job)
       THEN /\ turn' = [turn EXCEPT !.sent = FALSE, !.pc = "reap"]
            /\ \E r \in Hit(turn.job) : runner' = [runner EXCEPT ![turn.job] = r]
       ELSE turn' = [turn EXCEPT !.sent = FALSE, !.pc = "ending"] /\ UNCHANGED runner
    /\ UNCHANGED <<msgs, ctx, jobs, sums, used, lane, calls, left>>

-----------------------------------------------------------------------------
(* The lane of the conversation *)

LaneTakes ==
    /\ ~lane.busy /\ lane.queue # <<>>
    /\ LET entry == Head(lane.queue) IN
       /\ lane' = [queue |-> Tail(lane.queue), busy |-> TRUE]
       /\ IF entry = Turn
          THEN TurnGoes("build") /\ UNCHANGED <<jobs, runner>>
          ELSE /\ jobs' = [jobs EXCEPT ![entry].exec = "running"]
               /\ Goes(entry, "begin")
               /\ UNCHANGED turn
    /\ UNCHANGED <<msgs, ctx, sums, used, calls, left>>

\* The worker closes the execution of a manual maintenance whose task has ended.
LaneFrees(j) ==
    /\ runner[j].pc = "done" /\ jobs[j].trigger = "manual" /\ jobs[j].exec = "running"
    /\ jobs' = [jobs EXCEPT ![j].exec = "ended"]
    /\ lane' = [lane EXCEPT !.busy = FALSE]
    /\ UNCHANGED <<msgs, ctx, sums, runner, turn, used, calls, left>>

-----------------------------------------------------------------------------
(* The Owner *)

\* cancel: a queued maintenance is closed at once, another is asked to stop ...
OwnerCancels(j) ==
    /\ left > 0 /\ j \in Unfinished /\ ~jobs[j].cancel
    /\ left' = left - 1
    /\ jobs' = [jobs EXCEPT ![j] =
                 IF jobs[j].status = "queued"
                 THEN [Closed(jobs[j], "cancelled") EXCEPT !.cancel = TRUE, !.stop = TRUE]
                 ELSE [jobs[j] EXCEPT !.status = "stopping", !.cancel = TRUE, !.stop = TRUE]]
    /\ calls' = calls \cup {j}
    /\ UNCHANGED <<msgs, ctx, sums, runner, turn, used, lane>>

\* ... then its task is cancelled (stop_inline), or its queue entry (stop_generations).
CancelArrives(j) ==
    /\ j \in calls
    /\ calls' = calls \ {j}
    /\ \E r \in Hit(j) : runner' = [runner EXCEPT ![j] = r]
    /\ lane' = [lane EXCEPT !.queue = Without(@, j)]
    /\ jobs' = [jobs EXCEPT ![j].exec = IF @ = "queued" THEN "ended" ELSE @]
    /\ UNCHANGED <<msgs, ctx, sums, turn, used, left>>

\* restore moves the pointer to a valid summary or to none.
OwnerRestores ==
    /\ left > 0
    /\ \E to \in {None} \cup {j \in Jobs : Published(j) /\ sources_valid(j)} :
         ctx' = [ctx EXCEPT !.pointer = to, !.rev = @ + 1, !.srev = @ + 1]
    /\ left' = left - 1
    /\ UNCHANGED <<msgs, jobs, sums, runner, turn, used, lane, calls>>

\* sync_sources: a change of a message moves the revision in the same transaction.
Edit(m) ==
    /\ left > 0 /\ msgs[m].state # "gone"
    /\ \E state \in {"in", "out", "gone"} : msgs' = [msgs EXCEPT ![m] = [rev |-> @.rev + 1, state |-> state]]
    /\ ctx' = [ctx EXCEPT !.rev = @ + 1]
    /\ left' = left - 1
    /\ UNCHANGED <<jobs, sums, runner, turn, used, lane, calls>>

\* The policy, the role or the model configuration changes.
Reconfigure ==
    /\ left > 0
    /\ ctx' = [ctx EXCEPT !.setup = @ + 1]
    /\ left' = left - 1
    /\ UNCHANGED <<msgs, jobs, sums, runner, turn, used, lane, calls>>

\* The service restarts: the scheduler closes what was active, recover the maintenances.
Restart ==
    /\ left > 0
    /\ left' = left - 1
    /\ jobs' = [j \in Jobs |->
                 IF j \in Unfinished
                 THEN [jobs[j] EXCEPT !.status = "interrupted", !.slot = FALSE, !.exec = "ended"]
                 ELSE [jobs[j] EXCEPT !.exec = IF jobs[j].status = "absent" THEN @ ELSE "ended"]]
    /\ runner' = [j \in Jobs |-> IF Live(j) THEN [runner[j] EXCEPT !.pc = "done"] ELSE runner[j]]
    /\ turn' = [turn EXCEPT !.pc = "closed", !.sent = FALSE]
    /\ lane' = [queue |-> <<>>, busy |-> FALSE]
    /\ calls' = {}
    /\ UNCHANGED <<msgs, ctx, sums, used>>

-----------------------------------------------------------------------------

RunnerStep(j) ==
    \/ RunRead(j) \/ RunMark(j) \/ ReadUnit(j) \/ Permit(j)
    \/ Consume(j) \/ Answer(j) \/ Publish(j) \/ Finish(j)

TurnStep ==
    \/ TurnBuild \/ TurnCheck \/ TurnPrepare \/ TurnStart \/ ExecuteRead \/ ExecuteWrite
    \/ TurnResumes \/ TurnPay \/ TurnAnswer \/ TurnFinalize \/ CloseParent

OwnerStep ==
    \/ OwnerStarts \/ OwnerRestores \/ StopTurn \/ StopArrives \/ Reconfigure
    \/ \E j \in Jobs : OwnerCancels(j) \/ CancelArrives(j)
    \/ \E m \in Msgs : Edit(m)

Next ==
    \/ \E j \in Jobs : RunnerStep(j) \/ LaneFrees(j)
    \/ TurnStep \/ LaneTakes \/ OwnerStep \/ Restart

Spec == Init /\ [][Next]_vars

-----------------------------------------------------------------------------
(* Properties *)

\* The text of a summary was made from exactly the revisions its source rows
\* name, although they are read one by one while messages change and although
\* an earlier summary may be part of the input (units, finish, sources_valid).
SummaryIsFaithful == \A j \in Jobs : Published(j) => sums[j] = jobs[j].src

\* Once the Owner's cancel is stored, that maintenance is never adopted.
CancelIsKept == [][\A j \in Jobs : jobs[j].cancel /\ ~Published(j) => ~Published(j)']_vars

=============================================================================
