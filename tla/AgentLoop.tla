----------------------------- MODULE AgentLoop -----------------------------
(***************************************************************************)
(* One execution of a role (agent/loop.py run_agent) and the owner of its  *)
(* reply (services/chat.py run_scheduled_generation, context/runtime.py).  *)
(*                                                                         *)
(* The graph asks the model, runs the proposed tools side by side and asks *)
(* again.  It runs in a task of its own and puts framework events into a   *)
(* queue without waiting for anybody; run_agent turns them into domain     *)
(* events and the owner stores each one before it takes the next.  So the  *)
(* graph runs ahead of what is stored: it waits for the stored results     *)
(* only before it summarises them.  A stop or a failed store ends the      *)
(* owner's loop anywhere, and the graph with it.                           *)
(***************************************************************************)
EXTENDS Integers, FiniteSets, Sequences

CONSTANTS
    Decisions,   \* decision_limit
    Width,       \* bound: tool calls in one response
    Limits,      \* the recursion limits of the graph that are tried
    MaxEvents    \* bound: stops and failing stores

Rounds == 1 .. Decisions

Calls == Rounds \X (1 .. Width)

VARIABLES
    graph,   \* the graph's task: where it is, the decision, remaining_steps, how it ended
    resp,    \* the model's responses
    calls,   \* the tool calls and whether they have changed something
    queue,   \* framework events not yet consumed
    agent,   \* the locals of run_agent
    reply,   \* the owner: where it is, command_calls, what it does after closing
    part,    \* the tool parts of the stored reply
    usage,   \* ModelCallUsage rows
    left     \* remaining stops and failing stores

vars == <<graph, resp, calls, queue, agent, reply, part, usage, left>>

Init ==
    /\ \E limit \in Limits :
         graph = [pc |-> "prompt", round |-> 0, steps |-> limit, remaining |-> limit, end |-> "none"]
    /\ resp = [r \in Rounds |-> [kind |-> "none", calls |-> {}]]
    /\ calls = [c \in Calls |-> [state |-> "none", applied |-> "no"]]
    /\ queue = <<>>
    /\ agent = [pending |-> {}, started |-> {}, blocked |-> {}, error |-> FALSE,
                open |-> {}, seen |-> {}, complete |-> FALSE]
    /\ reply = [pc |-> "take", event |-> [kind |-> "none", at |-> 0], open |-> {}, recorded |-> 0,
                hit |-> FALSE, stop |-> "no", outcome |-> "none"]
    /\ part = [c \in Calls |-> [status |-> "none", applied |-> FALSE]]
    /\ usage = [r \in Rounds |-> "none"]
    /\ left = MaxEvents

Event(kind, at) == Append(queue, [kind |-> kind, at |-> at])

In(state) == {c \in Calls : calls[c].state = state}

-----------------------------------------------------------------------------
(* The graph: graph_prompt, the model, the tools *)

GraphGoes(pc) == graph' = [graph EXCEPT !.pc = pc]

GraphEnds(why) == graph' = [graph EXCEPT !.pc = "closed", !.end = why]

\* The tool messages the graph holds, in number.
Answered == Cardinality(In("done") \cup In("refused"))

\* RuntimeContext.prepare: only an input under pressure waits for the stored results.
Prompt ==
    /\ graph.pc = "prompt"
    /\ IF graph.round >= Decisions
       THEN GraphEnds("budget")
       ELSE GraphGoes("decide") \/ GraphGoes("waiting")
    /\ UNCHANGED <<resp, calls, queue, agent, reply, part, usage, left>>

WaitResults ==
    /\ graph.pc = "waiting" /\ reply.recorded >= Answered
    /\ GraphGoes("compacting")
    /\ UNCHANGED <<resp, calls, queue, agent, reply, part, usage, left>>

\* The store may take longer than the graph waits.
WaitTimesOut ==
    /\ graph.pc = "waiting" /\ reply.recorded < Answered
    /\ GraphEnds("context")
    /\ UNCHANGED <<resp, calls, queue, agent, reply, part, usage, left>>

Compacted ==
    /\ graph.pc = "compacting"
    /\ GraphGoes("decide") \/ GraphEnds("context")
    /\ UNCHANGED <<resp, calls, queue, agent, reply, part, usage, left>>

\* before_decision: a requested stop cancels the graph from inside, which nobody is told;
\* the chain's budget may be used up by others.  The graph is at step 2 * round - 1.
Decide ==
    /\ graph.pc = "decide"
    /\ \/ reply.stop # "no" /\ GraphEnds("silent") /\ UNCHANGED queue
       \/ reply.stop = "no" /\ GraphEnds("budget") /\ UNCHANGED queue
       \/ /\ reply.stop = "no"
          /\ graph' = [graph EXCEPT !.pc = "model", !.round = @ + 1,
                                    !.remaining = graph.steps - (2 * graph.round + 1)]
          /\ queue' = Event("model_start", graph.round + 1)
    /\ UNCHANGED <<resp, calls, agent, reply, part, usage, left>>

\* The framework replaces a response with tools by a text when no two steps are left.
Blocked == graph.remaining < 2

\* It raises once the last step was taken, whatever that step returned.
Overrun == graph.steps < 2 * graph.round

Completes ==
    IF Overrun
    THEN /\ GraphEnds("recursion")
         /\ queue' = Event("model_end", graph.round)
    ELSE /\ GraphEnds("text")
         /\ queue' = Event("model_end", graph.round) \o <<[kind |-> "chain_end", at |-> graph.round]>>

\* A response is a text, a set of calls, or malformed with or without calls.
Model ==
    /\ graph.pc = "model"
    /\ \/ GraphEnds("provider") /\ UNCHANGED <<resp, calls, queue>>
       \/ \E kind \in {"good", "bad"}, n \in 0 .. Width :
            LET proposed == {<<graph.round, k>> : k \in 1 .. n} IN
            /\ resp' = [resp EXCEPT ![graph.round] = [kind |-> kind, calls |-> proposed]]
            /\ IF n = 0 \/ Blocked
               THEN Completes /\ UNCHANGED calls
               ELSE /\ queue' = Event("model_end", graph.round)
                    /\ IF kind = "bad"
                       THEN GraphEnds("invalid") /\ UNCHANGED calls
                       ELSE /\ GraphGoes("tools")
                            /\ calls' = [c \in Calls |-> IF c \in proposed
                                                         THEN [calls[c] EXCEPT !.state = "proposed"]
                                                         ELSE calls[c]]
    /\ UNCHANGED <<agent, reply, part, usage, left>>

\* When another call of the response raised, gather has ended but this one runs on; its
\* events are lost.
Gathered == graph.pc = "tools" \/ graph.end = "tool"

\* _arun_one: unknown tools and bad arguments never reach the tool.
Refuse(c) ==
    /\ calls[c].state = "proposed" /\ Gathered
    /\ calls' = [calls EXCEPT ![c].state = "refused"]
    /\ queue' = IF graph.pc = "tools" THEN Event("not_dispatched", c) ELSE queue
    /\ UNCHANGED <<graph, resp, agent, reply, part, usage, left>>

ToolStarts(c) ==
    /\ calls[c].state = "proposed" /\ Gathered
    /\ calls' = [calls EXCEPT ![c].state = "running"]
    /\ queue' = IF graph.pc = "tools" THEN Event("tool_start", c) ELSE queue
    /\ UNCHANGED <<graph, resp, agent, reply, part, usage, left>>

\* A file tool has registered itself and its receipt before it changes anything; the
\* receipt is gone once it was taken or the reply is closed.
ToolCommits(c) ==
    /\ calls[c].state = "running" /\ calls[c].applied = "no"
    /\ calls' = [calls EXCEPT ![c].applied = 
                   IF reply.pc \in {"finalize", "over"} \/ part[c].status = "cut" THEN "late" ELSE "yes"]
    /\ UNCHANGED <<graph, resp, queue, agent, reply, part, usage, left>>

ToolEnds(c) ==
    /\ calls[c].state = "running"
    /\ calls' = [calls EXCEPT ![c].state = "done"]
    /\ queue' = IF graph.pc = "tools" THEN Event("tool_end", c) ELSE queue
    /\ UNCHANGED <<graph, resp, agent, reply, part, usage, left>>

\* Only what a tool reports itself becomes a result (handle_tool_errors is off).
ToolRaises(c) ==
    /\ calls[c].state = "running"
    /\ calls' = [calls EXCEPT ![c].state = "raised"]
    /\ IF graph.pc = "tools" THEN GraphEnds("tool") ELSE UNCHANGED graph
    /\ UNCHANGED <<resp, queue, agent, reply, part, usage, left>>

ToolsDone ==
    /\ graph.pc = "tools"
    /\ In("proposed") = {} /\ In("running") = {}
    /\ GraphGoes("prompt")
    /\ UNCHANGED <<resp, calls, queue, agent, reply, part, usage, left>>

-----------------------------------------------------------------------------
(* run_agent consumes framework events; the owner stores what they say *)

\* remaining_steps is the graph's and may be that of a later decision by now.
Seen(e) ==
    IF e.kind = "model_start" THEN [agent EXCEPT !.open = @ \cup {e.at}]
    ELSE IF e.kind = "model_end"
    THEN LET proposed == resp[e.at].calls IN
         [agent EXCEPT !.open = @ \ {e.at}, !.seen = @ \cup {e.at}, !.error = resp[e.at].kind = "bad",
                       !.pending = @ \cup proposed,
                       !.blocked = IF graph.remaining < 2 THEN proposed ELSE {}]
    ELSE IF e.kind = "not_dispatched" THEN [agent EXCEPT !.pending = @ \ {e.at}]
    ELSE IF e.kind = "tool_start" THEN [agent EXCEPT !.started = @ \cup {e.at}]
    ELSE IF e.kind = "tool_end" THEN [agent EXCEPT !.pending = @ \ {e.at}, !.started = @ \ {e.at}]
    ELSE [agent EXCEPT !.complete = TRUE]

Take ==
    /\ reply.pc = "take" /\ queue # <<>>
    /\ LET e == Head(queue) IN
       /\ queue' = Tail(queue)
       /\ agent' = Seen(e)
       /\ reply' = IF e.kind = "chain_end" THEN reply
                   ELSE [reply EXCEPT !.pc = "store", !.event = e,
                                      !.open = IF e.kind = "tool_start" THEN @ \cup {e.at} ELSE @]
    /\ UNCHANGED <<graph, resp, calls, part, usage, left>>

Storing(kind) == reply.pc = "store" /\ reply.event.kind = kind

\* What has been asked to stop while it was shielded stops after it has stored.
Stored == IF reply.hit THEN [reply EXCEPT !.pc = "unwind", !.outcome = "stopped", !.hit = FALSE]
                       ELSE [reply EXCEPT !.pc = "take"]

StoreCallStart ==
    /\ Storing("model_start")
    /\ usage' = [usage EXCEPT ![reply.event.at] = "started"]
    /\ reply' = Stored
    /\ UNCHANGED <<graph, resp, calls, queue, agent, part, left>>

StoreCallUsage ==
    /\ Storing("model_end")
    /\ usage' = [usage EXCEPT ![reply.event.at] = "completed"]
    /\ reply' = Stored
    /\ UNCHANGED <<graph, resp, calls, queue, agent, part, left>>

StoreStart ==
    /\ Storing("tool_start")
    /\ part' = [part EXCEPT ![reply.event.at].status = "running"]
    /\ reply' = Stored
    /\ UNCHANGED <<graph, resp, calls, queue, agent, usage, left>>

StoreRefusal ==
    /\ Storing("not_dispatched")
    /\ part' = [part EXCEPT ![reply.event.at].status = "not_executed"]
    /\ reply' = [Stored EXCEPT !.recorded = @ + 1]
    /\ UNCHANGED <<graph, resp, calls, queue, agent, usage, left>>

\* _finish_tool_event; the receipt is consumed after it is stored.
Result(c, status) == [status |-> status, applied |-> calls[c].applied = "yes"]

StoreResult ==
    /\ Storing("tool_end")
    /\ part' = [part EXCEPT ![reply.event.at] = Result(reply.event.at, "ended")]
    /\ reply' = [Stored EXCEPT !.recorded = @ + 1, !.open = @ \ {reply.event.at}]
    /\ UNCHANGED <<graph, resp, calls, queue, agent, usage, left>>

\* A store of a tool event fails; what observes usage only logs that it failed.
StoreFails ==
    /\ left > 0 /\ reply.pc = "store" /\ reply.event.kind \in {"tool_start", "not_dispatched", "tool_end"}
    /\ left' = left - 1
    /\ reply' = [reply EXCEPT !.pc = "unwind", !.outcome = "failed", !.hit = FALSE]
    /\ UNCHANGED <<graph, resp, calls, queue, agent, part, usage>>

-----------------------------------------------------------------------------
(* How the loop ends *)

\* The proposals of the last response were held back by the framework.
Undispatched == agent.blocked # {} /\ agent.pending = agent.blocked /\ agent.started = {}

Unpaired == agent.pending # {} \/ agent.started # {}

\* What the properties exclude: how the last response ended is not looked at.
TerminalOfCalls ==
    IF graph.end \in {"context", "invalid", "provider", "tool"} THEN "failed"
    ELSE IF graph.end = "budget"
    THEN IF Unpaired \/ agent.open # {} THEN "failed" ELSE "decision_budget"
    ELSE IF graph.end = "recursion"
    THEN IF agent.seen # {} /\ ~Unpaired THEN "completed" ELSE "graph_budget"
    ELSE IF Undispatched /\ agent.complete THEN "graph_budget"
    ELSE IF Unpaired \/ ~agent.complete \/ agent.seen = {} THEN "failed" ELSE "completed"

\* The branches after the event loop and its exception handlers.
Terminal ==
    IF graph.end \in {"context", "invalid", "provider", "tool"} \/ agent.error THEN "failed"
    ELSE IF graph.end = "budget"
    THEN IF Unpaired \/ agent.open # {} THEN "failed" ELSE "decision_budget"
    ELSE IF graph.end = "recursion"
    THEN IF agent.seen # {} /\ resp[graph.round].calls = {} /\ ~Unpaired THEN "completed" ELSE "graph_budget"
    ELSE IF Undispatched /\ agent.complete THEN "graph_budget"
    ELSE IF Unpaired \/ ~agent.complete \/ agent.seen = {} THEN "failed" ELSE "completed"

ReplyEnds ==
    /\ reply.pc = "take" /\ queue = <<>> /\ graph.pc = "closed"
    /\ reply' = [reply EXCEPT !.outcome = Terminal,
                              !.pc = IF Terminal = "graph_budget" /\ Undispatched THEN "tell"
                                     ELSE IF reply.open # {} THEN "pending" ELSE "finalize"]
    /\ UNCHANGED <<graph, resp, calls, queue, agent, part, usage, left>>

\* ToolCallsNotDispatched: the blocked proposals are stored together, shielded.
Tell ==
    /\ reply.pc = "tell"
    /\ part' = [c \in Calls |-> IF c \in agent.blocked THEN [part[c] EXCEPT !.status = "not_executed"]
                                                       ELSE part[c]]
    /\ reply' = IF reply.hit THEN [reply EXCEPT !.pc = "unwind", !.outcome = "stopped", !.hit = FALSE]
                             ELSE [reply EXCEPT !.pc = "finalize"]
    /\ UNCHANGED <<graph, resp, calls, queue, agent, usage, left>>

\* aclosing: the graph is cancelled and its tools with it; a change under way is finished.
Unwind ==
    /\ reply.pc = "unwind"
    /\ \E finished \in SUBSET In("running") :
         calls' = [c \in Calls |->
             IF graph.end = "tool" THEN calls[c]
             ELSE [state   |-> IF calls[c].state \in {"running", "proposed"} THEN "killed" ELSE calls[c].state,
                   applied |-> IF c \in finished THEN "yes" ELSE calls[c].applied]]
    /\ IF graph.pc = "closed" THEN UNCHANGED graph ELSE GraphEnds("cancelled")
    /\ queue' = <<>>
    /\ reply' = [reply EXCEPT !.pc = "pending"]
    /\ UNCHANGED <<resp, agent, part, usage, left>>

\* What the properties exclude: only calls whose start was consumed are closed.
UntakenStarted == {c \in Calls : calls[c].applied = "yes" /\ part[c].status = "running"}

\* What finish_pending knows of: started calls, and receipts of calls whose start it missed.
Untaken == {c \in Calls : calls[c].applied = "yes" /\ part[c].status \in {"none", "running"}}

FinishPending ==
    /\ reply.pc = "pending"
    /\ part' = [c \in Calls |-> IF c \in reply.open \cup Untaken THEN Result(c, "cut") ELSE part[c]]
    /\ reply' = [reply EXCEPT !.pc = "finalize", !.open = {}]
    /\ UNCHANGED <<graph, resp, calls, queue, agent, usage, left>>

\* _finalize with the end of the usage rows.
Finalize ==
    /\ reply.pc = "finalize"
    /\ part' = [c \in Calls |-> IF part[c].status = "running" THEN [part[c] EXCEPT !.status = "cut"]
                                                              ELSE part[c]]
    /\ usage' = [r \in Rounds |-> IF usage[r] = "started" THEN "unconfirmed" ELSE usage[r]]
    /\ reply' = [reply EXCEPT !.pc = "over"]
    /\ UNCHANGED <<graph, resp, calls, queue, agent, left>>

-----------------------------------------------------------------------------
(* A stop: the rows are marked, then the owner's task is cancelled *)

StopAsked ==
    /\ left > 0 /\ reply.pc # "over" /\ reply.stop = "no"
    /\ left' = left - 1
    /\ reply' = [reply EXCEPT !.stop = "asked"]
    /\ UNCHANGED <<graph, resp, calls, queue, agent, part, usage>>

Shielded ==
    \/ reply.pc = "tell"
    \/ reply.pc = "store" /\ reply.event.kind \in {"model_end", "not_dispatched", "tool_end"}

\* The cancelled task leaves the loop; one that has left it closes its calls again.
StopArrives ==
    /\ reply.stop = "asked" /\ reply.pc # "over"
    /\ reply' = IF Shielded THEN [reply EXCEPT !.stop = "sent", !.hit = TRUE]
                ELSE [reply EXCEPT !.stop = "sent", !.outcome = "stopped",
                                   !.pc = IF @ \in {"pending", "finalize"} THEN "pending" ELSE "unwind"]
    /\ UNCHANGED <<graph, resp, calls, queue, agent, part, usage, left>>

-----------------------------------------------------------------------------

GraphStep ==
    \/ Prompt \/ WaitResults \/ WaitTimesOut \/ Compacted \/ Decide \/ Model \/ ToolsDone
    \/ \E c \in Calls : Refuse(c) \/ ToolStarts(c) \/ ToolCommits(c) \/ ToolEnds(c) \/ ToolRaises(c)

ReplyStep ==
    \/ Take \/ StoreCallStart \/ StoreCallUsage \/ StoreStart \/ StoreRefusal \/ StoreResult
    \/ StoreFails \/ ReplyEnds \/ Tell \/ Unwind \/ FinishPending \/ Finalize

Next == GraphStep \/ ReplyStep \/ StopAsked \/ StopArrives

Spec == Init /\ [][Next]_vars

-----------------------------------------------------------------------------
(* Properties *)

Final == {"ended", "not_executed"}

Proposed == UNION {resp[r].calls : r \in Rounds}

\* A reply that is told completed, or stopped for want of another decision, has
\* the stored result of every call the model ever proposed, although results are
\* stored behind the graph's back, and its last response was whole (pending_ids,
\* started_at, response_error, the end of run_agent).
EndsClosed ==
    reply.pc = "over" /\ reply.outcome \in {"completed", "decision_budget"}
        => /\ \A c \in Proposed : part[c].status \in Final /\ calls[c].state \in {"done", "refused"}
           /\ graph.round > 0 => resp[graph.round].kind = "good"

\* A change a call made before the reply was closed is told by the stored reply,
\* also when neither its start nor its end was ever consumed (finish_pending).
EffectIsTold ==
    reply.pc = "over" => \A c \in Calls : calls[c].applied = "yes" => part[c].applied

=============================================================================
