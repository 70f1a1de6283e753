--------------------------- MODULE GraphRevisions ---------------------------
(***************************************************************************)
(* Changing the graph of a run while it runs (workflows/replanning.py with *)
(* workflows/graph_service.py and the parts of workflows/engine.py that    *)
(* meet them): a revision that touches only work not yet begun takes       *)
(* effect at once; one that touches a loop already at work is kept until   *)
(* every such loop has handed over its round.                              *)
(*                                                                         *)
(* A graph is [ver, cap]: the version of each node's content and incoming   *)
(* edges (0: no such node) and the round limit of each loop (0: no such     *)
(* loop).  One record s holds the rows of the run:                          *)
(*   st, err   WorkflowRun.status and whether error_code is the loop limit  *)
(*   g, rev    the effective graph (snapshot) and graph_revision            *)
(*   revs      WorkflowGraphRevision by number: graph, status, and the loops *)
(*             it had to wait for when it was committed                     *)
(*   pend, bounds  pending_graph_revision (0: none), pending_boundaries      *)
(*   loop[l]   iteration, exited, handled, limited and whether it exists    *)
(*   act       the activations <<node, round, graph revision>>: loop,       *)
(*             status, execution, the design executed, and the latest       *)
(*             revision when it was dispatched                              *)
(*   sel       activation_selection                                         *)
(* Requests and ticks are single steps under service.control_lock; the      *)
(* ends of executions are steps of their own.                               *)
(*                                                                         *)
(* Left to WorkflowEngine: retries, approvals, conditions, the coordinator's *)
(* own phases, the number of parallel executions, the handlers of feedback. *)
(* A writer always names the latest revision: any other request is refused  *)
(* and a repeated one answered without a change (graph_service.py:263-269). *)
(***************************************************************************)
EXTENDS Naturals, FiniteSets, FiniteSetsExt, Sequences, SequencesExt, TLC

CONSTANTS
  Order,      \* the nodes, in an order topological for every graph
  Wiring,     \* node -> version -> the sources of its edges (if present)
  Body,       \* loop -> its nodes
  Decision,   \* loop -> its judge
  Joins,      \* the nodes without an execution
  Start,      \* the executable graph the run begins with
  Writes,     \* the executable graphs writers send
  Opinions,   \* bound: the nodes whose results are complained about
  Fails,      \* bound: the nodes whose executions fail
  MaxEdits,   \* bound: revisions committed after the first
  MaxEvents   \* bound: failures, complaints, revocations, stops and resumes

VARIABLES s, note, denied, edits, events

vars == <<s, note, denied, edits, events>>

-----------------------------------------------------------------------------
(* Graphs. *)

Nodes == Range(Order)
Graphs == Writes \cup {Start}
Loops == DOMAIN Body
None == <<>>

Present(g) == {n \in Nodes : g.ver[n] # 0}
LoopsIn(g) == {l \in Loops : g.cap[l] # 0}

(* The derived tables of every graph (compile_graph). *)
Incoming == [g \in Graphs |-> [n \in Nodes |->
               IF n \in Present(g) THEN Wiring[n][g.ver[n]] \cap Present(g) ELSE {}]]
Homes == [g \in Graphs |-> [n \in Nodes |-> {l \in LoopsIn(g) : n \in Body[l]}]]
In(g, n) == Incoming[g][n]
HomeOf(g, n) == Homes[g][n]
Home1(g, n) == IF HomeOf(g, n) = {} THEN None ELSE CHOOSE l \in HomeOf(g, n) : TRUE

Below(g, n) ==
  LET grow(S, k) == IF In(g, k) \cap (S \cup {n}) # {} THEN S \cup {k} ELSE S
  IN  FoldLeft(grow, {}, Order)

(* The loops whose declaration, nodes or edges differ. *)
Touching(g, N) == {<<m, n>> \in Nodes \X Nodes : m \in In(g, n) /\ (m \in N \/ n \in N)}
LoopChanges ==
  [old \in Graphs |-> [new \in Graphs |->
    {l \in LoopsIn(old) :
       \/ new.cap[l] # old.cap[l]
       \/ \E n \in Body[l] : new.ver[n] # old.ver[n]
       \/ Touching(old, Body[l]) # Touching(new, Body[l])}]]

-----------------------------------------------------------------------------
(* Rows. *)

Active == {"queued", "running", "waiting", "stopping"}
Unbegun == {"pending", "waiting_feedback"}
Bad == {"failed", "blocked", "stopped"}

Fresh(l) == [lp |-> l, st |-> "pending", ex |-> "none", d |-> 0, at |-> 0]
FirstRound == [it |-> 0, exited |-> FALSE, handled |-> FALSE, limited |-> FALSE, is |-> "live"]
NoLoop == [FirstRound EXCEPT !.is = "absent"]
Revision(g, st, waits) == [g |-> g, st |-> st, waits |-> waits]

(* engine.start: revision 1 is the graph the run began with. *)
FirstRun ==
  [st |-> "queued", err |-> FALSE, g |-> Start, rev |-> 1,
   revs |-> <<Revision(Start, "applied", {})>>,
   pend |-> 0, bounds |-> [l \in {} |-> "repeat"],
   loop |-> [l \in Loops |-> IF l \in LoopsIn(Start) THEN FirstRound ELSE NoLoop],
   act |-> [x \in {<<n, 0, 1>> : n \in Present(Start)} |-> Fresh(Home1(Start, x[1]))],
   sel |-> [n \in Nodes |-> IF n \in Present(Start) THEN <<n, 0, 1>> ELSE None]]

Init ==
  /\ s = FirstRun
  /\ note = None /\ denied = FALSE
  /\ edits = 0 /\ events = 0

(* current_activations: an activation of a node of the graph, of the loop's *)
(* round if it has one; the selected one first, else the newest.            *)
Eligible(r, x) ==
  /\ x[1] \in Present(r.g)
  /\ \A l \in HomeOf(r.g, x[1]) : r.act[x].lp = l /\ x[2] = r.loop[l].it

Candidates(r, n) == {x \in DOMAIN r.act : x[1] = n /\ Eligible(r, x)}
Selected(r, n) == r.sel[n] # None /\ Eligible(r, r.sel[n])
CurrentOf(r, n) ==
  IF Selected(r, n) THEN r.sel[n]
  ELSE CHOOSE x \in Candidates(r, n) :
         \A y \in Candidates(r, n) : y[3] < x[3] \/ (y[3] = x[3] /\ y[2] <= x[2])

Placed(r) == {n \in Nodes : Selected(r, n) \/ Candidates(r, n) # {}}
Current(r) == {CurrentOf(r, n) : n \in Placed(r)}
Begun(r, x) == r.act[x].st \notin Unbegun

CreateActivation(r, n, i, l) ==
  LET x == <<n, i, r.rev>>
  IN  [r EXCEPT !.sel[n] = x,
                !.act = IF x \in DOMAIN @ THEN @ ELSE (x :> Fresh(l)) @@ @]

WithoutPending(r) == [r EXCEPT !.pend = 0, !.bounds = [l \in {} |-> "repeat"]]
CancelPending(r) ==
  IF r.pend = 0 THEN r
  ELSE WithoutPending([r EXCEPT !.revs[r.pend].st = "not_applied"])

-----------------------------------------------------------------------------
(* Blocking feedback: it holds what follows its source and the source's loop. *)

Noted(r) == note # None /\ note[1] \in Placed(r) /\ CurrentOf(r, note[1]) = note
Held(r) == IF Noted(r) THEN Below(r.g, note[1]) ELSE {}
HeldLoops(r) == IF Noted(r) /\ r.act[note].lp # None THEN {r.act[note].lp} ELSE {}

-----------------------------------------------------------------------------
(* Accepting a revision. *)

(* The roles of the designs a graph asks for; the first ones stay usable.   *)
Granted(g) == denied => \A n \in Nodes : g.ver[n] <= 1

Waiting(r, after) ==
  {l \in LoopChanges[r.g][after] :
     /\ \E n \in Body[l] \cap Placed(r) : Begun(r, CurrentOf(r, n))
     /\ l \notin HeldLoops(r)}

(* What was dispatched, waits for an answer or has ended keeps its content,  *)
(* its incoming edges and its loop, unless its loop's change is put off.    *)
Frozen(r, after, waits) ==
  \E n \in Placed(r) :
    /\ Begun(r, CurrentOf(r, n))
    /\ r.act[CurrentOf(r, n)].lp \notin waits
    /\ \/ after.ver[n] # r.g.ver[n]
       \/ In(after, n) # In(r.g, n)
       \/ HomeOf(after, n) # HomeOf(r.g, n)

Acceptable(r, after) ==
  LET waits == Waiting(r, after)
  IN  /\ r.st \notin {"stopping", "stopped"}
      /\ Granted(after)
      /\ \A l \in LoopChanges[r.g][after] \cap HeldLoops(r) : after.cap[l] = r.g.cap[l]
      /\ \A l \in waits :
           /\ ~r.loop[l].exited
           /\ \A n \in Body[l] \cap Placed(r) : r.act[CurrentOf(r, n)].st \notin Bad
      /\ ~Frozen(r, after, waits)

DisplayOnly(r, after) == Len(r.revs) = r.rev /\ after = r.revs[r.rev].g

-----------------------------------------------------------------------------
(* Putting a revision into effect. *)

Overlap(l, L) == {k \in L : Body[k] \cap Body[l] # {}}
MaxOf(S) == CHOOSE x \in S : \A y \in S : y <= x

LoopAfter(old, g, turned, l) ==
  LET from == Overlap(l, turned)
      was == old.loop[l]
  IN  IF l \notin LoopsIn(g)
      THEN IF was.is = "absent" THEN was ELSE [was EXCEPT !.is = "retired", !.exited = TRUE]
      ELSE IF from # {} THEN [FirstRound EXCEPT !.it = MaxOf({old.loop[k].it + 1 : k \in from})]
      ELSE IF was.is = "live" THEN was ELSE FirstRound

(* A node of the new graph keeps what it began, is given a new activation   *)
(* for its new round, or a new one in place of the unbegun one.             *)
Place(old, turned, r, n) ==
  LET l == Home1(r.g, n)
      i == IF l = None THEN 0 ELSE r.loop[l].it
      has == n \in Placed(old)
      x == CurrentOf(old, n)
      moved == l # None /\ (l \in turned \/ i # old.loop[l].it)
      changed == has /\ old.act[x].lp \in turned /\ l = None /\ r.g.ver[n] # old.g.ver[n]
      again == MaxOf({y[2] : y \in {z \in DOMAIN old.act : z[1] = n}}) + 1
  IN  IF n \notin Present(r.g) THEN r
      ELSE IF has /\ Begun(old, x) /\ ~moved /\ ~changed THEN [r EXCEPT !.sel[n] = x]
      ELSE CreateActivation(IF has /\ ~Begun(old, x) /\ ~moved
                            THEN [r EXCEPT !.act[x].st = "superseded"] ELSE r,
                            n, IF changed THEN again ELSE i, l)

(* A node that is gone: its unbegun activation is closed; one at work is    *)
(* only no longer selected.                                                 *)
Drop(old, r, n) ==
  IF n \in Present(r.g) \/ n \notin Placed(old) THEN r
  ELSE LET x == CurrentOf(old, n)
       IN  [r EXCEPT !.sel[n] = None,
                     !.act[x].st = IF Begun(old, x) THEN @ ELSE "superseded"]

Apply(old, k, turned) ==
  LET g == old.revs[k].g
      select(n, r) == [r EXCEPT !.sel[n] = CurrentOf(old, n)]
      loops(l, r) == [r EXCEPT !.loop[l] = LoopAfter(old, g, turned, l)]
      place(r, n) == Place(old, turned, r, n)
      drop(r, n) == Drop(old, r, n)
      base == WithoutPending([old EXCEPT !.g = g, !.rev = k, !.revs[k].st = "applied",
                                         !.st = IF @ \in Active THEN "queued" ELSE @])
      chosen == FoldSet(loops, FoldSet(select, base, Placed(old)), Loops)
  IN  FoldLeft(drop, FoldLeft(place, chosen, Order), Order)

(* graph_service.mutate with replanning.commit: a new revision replaces one *)
(* still waiting; it waits itself if a loop at work must change.            *)
Committed(r, after) ==
  LET k == Len(r.revs) + 1
      waits == Waiting(r, after)
      kept == IF r.pend = 0 THEN r ELSE [r EXCEPT !.revs[r.pend].st = "superseded"]
      stored == [kept EXCEPT !.revs = Append(@, Revision(after, "applied", waits))]
  IN  CASE DisplayOnly(r, after) ->
             [stored EXCEPT !.rev = k, !.revs[k].waits = {}]
        [] ~DisplayOnly(r, after) /\ waits # {} ->
             [stored EXCEPT !.revs[k].st = "pending", !.pend = k,
                            !.bounds = [l \in {} |-> "repeat"]]
        [] OTHER -> Apply(stored, k, {})

-----------------------------------------------------------------------------
(* A tick of the engine. *)

Working(r) == {x \in DOMAIN r.act : r.act[x].st = "active"}

Observed(r) ==
  LET end(x, q) == [q EXCEPT !.act[x].st =
                      IF q.act[x].ex \in {"failed", "stopped"} THEN q.act[x].ex ELSE "completed"]
  IN  FoldSet(end, r, {x \in Working(r) : r.act[x].ex # "running"})

(* A stopping run gives up its waiting revision and ends once nothing works. *)
Closed(r0) ==
  LET r == CancelPending(r0)
      close(x, q) == [q EXCEPT !.act[x].st = "stopped"]
  IN  IF Working(r) # {} THEN r
      ELSE FoldSet(close, [r EXCEPT !.st = "stopped"], {x \in Current(r) : ~Begun(r, x)})

Holding(r) ==
  LET h == Held(r)
      hold(x, q) == [q EXCEPT !.act[x].st = IF x[1] \in h THEN "waiting_feedback" ELSE "pending"]
  IN  FoldSet(hold, r, {x \in Current(r) : ~Begun(r, x)})

EdgeState(r, m, n) ==
  LET a == r.act[CurrentOf(r, m)]
      l == Home1(r.g, m)
  IN  CASE a.st \in Bad -> "blocked"
        [] a.st \notin Bad \cup {"completed"} -> "pending"
        [] OTHER -> IF l # None /\ n \notin Body[l] /\ ~r.loop[l].exited
                    THEN IF r.loop[l].limited THEN "blocked" ELSE "pending"
                    ELSE "yes"

(* The design of an attempt is the node as the activation's revision has it. *)
StartNode(r, n) ==
  LET x == CurrentOf(r, n)
      edges == {EdgeState(r, m, n) : m \in In(r.g, n)}
      begin(st, ex) == [r EXCEPT !.act[x] = [@ EXCEPT !.st = st, !.ex = ex,
                           !.d = r.revs[x[3]].g.ver[n], !.at = Len(r.revs)]]
  IN  CASE n \notin Present(r.g) -> r
        [] n \in Present(r.g) /\ (r.act[x].st # "pending" \/ "pending" \in edges) -> r
        [] OTHER -> IF "blocked" \in edges THEN begin("blocked", "dependency")
                    ELSE IF n \in Joins THEN begin("completed", "done")
                    ELSE IF denied /\ r.g.ver[n] > 1 THEN begin("blocked", "denied")
                    ELSE begin("active", "running")

(* A plausible slip: the judgement noted for a revision is taken as handled. *)
TurnTaken(r, l) ==
  LET a == r.act[CurrentOf(r, Decision[l])]
      next == r.loop[l].it + 1
      fresh(q, n) == IF n \in Body[l] THEN CreateActivation(q, n, next, l) ELSE q
  IN  CASE l \notin LoopsIn(r.g) -> r
        [] l \in LoopsIn(r.g) /\ (\/ l \in HeldLoops(r) \/ r.loop[l].limited
                                 \/ a.st # "completed" \/ r.loop[l].handled) -> r
        [] OTHER ->
             IF r.pend # 0 /\ l \in r.revs[r.pend].waits THEN [r EXCEPT !.bounds = (l :> a.ex) @@ @, !.loop[l].handled = TRUE]
             ELSE IF a.ex = "leave"
                  THEN [r EXCEPT !.loop[l] = [@ EXCEPT !.handled = TRUE, !.exited = TRUE]]
             ELSE IF next >= r.g.cap[l]
                  THEN [r EXCEPT !.loop[l] = [@ EXCEPT !.handled = TRUE, !.limited = TRUE],
                                 !.err = TRUE]
             ELSE FoldLeft(fresh, [r EXCEPT !.loop[l] = [FirstRound EXCEPT !.it = next]], Order)

(* A judged round: noted for a waiting revision, repeated or left.          *)
Turn(r, l) ==
  LET a == r.act[CurrentOf(r, Decision[l])]
      next == r.loop[l].it + 1
      fresh(q, n) == IF n \in Body[l] THEN CreateActivation(q, n, next, l) ELSE q
  IN  CASE l \notin LoopsIn(r.g) -> r
        [] l \in LoopsIn(r.g) /\ (\/ l \in HeldLoops(r) \/ r.loop[l].limited
                                 \/ a.st # "completed" \/ r.loop[l].handled) -> r
        [] OTHER ->
             IF r.pend # 0 /\ l \in r.revs[r.pend].waits THEN [r EXCEPT !.bounds = (l :> a.ex) @@ @]
             ELSE IF a.ex = "leave"
                  THEN [r EXCEPT !.loop[l] = [@ EXCEPT !.handled = TRUE, !.exited = TRUE]]
             ELSE IF next >= r.g.cap[l]
                  THEN [r EXCEPT !.loop[l] = [@ EXCEPT !.handled = TRUE, !.limited = TRUE],
                                 !.err = TRUE]
             ELSE FoldLeft(fresh, [r EXCEPT !.loop[l] = [FirstRound EXCEPT !.it = next]], Order)

(* A plausible slip: the first loop at its boundary adopts the revision.    *)
BoundaryOfAny(r) ==
  LET v == r.revs[r.pend]
      bad == \E x \in Current(r) : r.act[x].lp \in v.waits /\ r.act[x].st \in Bad
      left == \E l \in DOMAIN r.bounds : r.bounds[l] = "leave"
      over == {l \in LoopsIn(v.g) : \E k \in Overlap(l, v.waits) :
                 MaxOf({r.loop[j].it + 1 : j \in Overlap(l, v.waits)}) >= v.g.cap[l]}
      first == CHOOSE l \in over : TRUE
  IN  CASE r.pend = 0 -> r
        [] r.pend # 0 /\ (bad \/ left) -> CancelPending(r)
        [] r.pend # 0 /\ ~bad /\ ~left /\ v.waits \cap DOMAIN r.bounds = {} -> r
        [] OTHER ->
             IF over # {}
             THEN CancelPending([r EXCEPT !.err = TRUE,
                    !.loop = [l \in Loops |-> IF l \in Overlap(first, v.waits)
                                              THEN [@[l] EXCEPT !.limited = TRUE] ELSE @[l]]])
             ELSE IF ~Granted(v.g) THEN CancelPending(r)
             ELSE Apply(r, r.pend, v.waits)

(* at_boundary: the waiting revision is given up, refused by the new limit  *)
(* or by a lost right, adopted, or waits on.                                *)
Boundary(r) ==
  LET v == r.revs[r.pend]
      bad == \E x \in Current(r) : r.act[x].lp \in v.waits /\ r.act[x].st \in Bad
      left == \E l \in DOMAIN r.bounds : r.bounds[l] = "leave"
      over == {l \in LoopsIn(v.g) : \E k \in Overlap(l, v.waits) :
                 MaxOf({r.loop[j].it + 1 : j \in Overlap(l, v.waits)}) >= v.g.cap[l]}
      first == CHOOSE l \in over : TRUE
  IN  CASE r.pend = 0 -> r
        [] r.pend # 0 /\ (bad \/ left) -> CancelPending(r)
        [] r.pend # 0 /\ ~bad /\ ~left /\ ~(v.waits \subseteq DOMAIN r.bounds) -> r
        [] OTHER ->
             IF over # {}
             THEN CancelPending([r EXCEPT !.err = TRUE,
                    !.loop = [l \in Loops |-> IF l \in Overlap(first, v.waits)
                                              THEN [@[l] EXCEPT !.limited = TRUE] ELSE @[l]]])
             ELSE IF ~Granted(v.g) THEN CancelPending(r)
             ELSE Apply(r, r.pend, v.waits)

Settled(r) ==
  LET work == {r.act[x].st : x \in Current(r)}
      limited == \E l \in Loops : r.loop[l].limited
  IN  [r EXCEPT !.st =
         CASE "active" \in work -> "running"
           [] "active" \notin work /\ ("waiting_feedback" \in work \/ Noted(r)) -> "waiting"
           [] OTHER -> IF limited THEN "blocked"
                       ELSE IF "pending" \in work \/ r.pend # 0 THEN "queued"
                       ELSE IF work \cap Bad # {} THEN "failed" ELSE "completed"]

Ticked(r0) ==
  LET r == Observed(r0)
  IN  IF r.st = "stopping" THEN Closed(r)
      ELSE LET started == FoldLeft(StartNode, Holding(r), Order)
               turned == FoldLeft(Turn, started, SetToSeq(Loops))
           IN  Settled(Boundary(turned))

-----------------------------------------------------------------------------
(* Steps. *)

Write(after) ==
  /\ edits < MaxEdits /\ edits' = edits + 1
  /\ DisplayOnly(s, after) \/ Acceptable(s, after)
  /\ s.st \notin {"stopping", "stopped"}
  /\ s' = Committed(s, after)
  /\ UNCHANGED <<note, denied, events>>

Advance ==
  /\ s.st \in Active
  /\ s' = Ticked(s)
  /\ UNCHANGED <<note, denied, edits, events>>

(* An execution ends with its report; a judge says repeat or leave.         *)
Finish(x) ==
  /\ s.act[x].ex = "running"
  /\ \E e \in IF s.st = "stopping" THEN {"stopped"}
              ELSE IF x[1] \in Range(Decision) THEN {"repeat", "leave"} ELSE {"done"} :
       s' = [s EXCEPT !.act[x].ex = e]
  /\ UNCHANGED <<note, denied, edits, events>>

Event == events < MaxEvents /\ events' = events + 1

Fail(x) ==
  /\ s.act[x].ex = "running" /\ x[1] \in Fails
  /\ Event
  /\ s' = [s EXCEPT !.act[x].ex = "failed"]
  /\ UNCHANGED <<note, denied, edits>>

(* A blocking opinion on the selected attempt of a node, and its disposal.  *)
Complain(n) ==
  /\ note = None /\ s.st \in Active /\ n \in Placed(s) \cap Opinions
  /\ s.act[CurrentOf(s, n)].d # 0
  /\ Event
  /\ note' = CurrentOf(s, n)
  /\ UNCHANGED <<s, denied, edits>>

Settle ==
  /\ note # None
  /\ note' = None
  /\ UNCHANGED <<s, denied, edits, events>>

(* The roles of the later designs lose their place or their tools.          *)
Revoke ==
  /\ ~denied /\ Event
  /\ denied' = TRUE
  /\ UNCHANGED <<s, note, edits>>

(* The coordination behind the waiting revision ends: it is withdrawn.      *)
Withdraw ==
  /\ s.pend # 0 /\ Event
  /\ s' = CancelPending(s)
  /\ UNCHANGED <<note, denied, edits>>

Stop ==
  /\ s.st \in Active \ {"stopping"} /\ Event
  /\ s' = [s EXCEPT !.st = "stopping", !.err = FALSE]
  /\ UNCHANGED <<note, denied, edits>>

(* The Owner continues a settled run; after a loop's limit with a waiting   *)
(* revision the loops it changes and what the limit blocked are reopened.   *)
Reopened(r) ==
  IF ~r.err \/ r.pend = 0 THEN r
  ELSE LET reopen(l, q) == [q EXCEPT !.loop[l].limited = FALSE, !.loop[l].handled = FALSE]
           unblock(x, q) == [q EXCEPT !.act[x] = Fresh(@.lp)]
       IN  FoldSet(unblock, FoldSet(reopen, r, r.revs[r.pend].waits),
                   {x \in Current(r) : r.act[x].st = "blocked" /\ r.act[x].ex = "dependency"})

Resume ==
  /\ s.st \notin Active /\ Event
  /\ LET r == Reopened(s)
     IN  /\ \A x \in Current(r) : r.act[x].st \notin Bad
         /\ s' = [r EXCEPT !.st = "queued", !.err = FALSE]
  /\ UNCHANGED <<note, denied, edits>>

Executions == \E x \in DOMAIN s.act : Finish(x)

Next ==
  \/ \E g \in Writes : Write(g)
  \/ Advance
  \/ Executions
  \/ \E x \in DOMAIN s.act : Fail(x)
  \/ \E n \in Nodes : Complain(n)
  \/ Settle \/ Revoke \/ Withdraw \/ Stop \/ Resume

Spec == Init /\ [][Next]_vars

-----------------------------------------------------------------------------
(* Properties. *)

(* A revision that waited is adopted only when every loop it changes has    *)
(* handed over its whole round and chosen to repeat, and the next round      *)
(* begins with it; what was decided about a revision stays decided.         *)
AdoptedAtBoundary ==
  [][/\ \A k \in 1 .. Len(s.revs) :
          s.revs[k].st = "pending" /\ s'.revs[k].st = "applied" =>
            \A l \in s.revs[k].waits, n \in Placed(s) :
              n \in Body[l] =>
                /\ s'.act[CurrentOf(s, n)].st = "completed"
                /\ n = Decision[l] => s'.act[CurrentOf(s, n)].ex = "repeat"
     /\ \A k \in 1 .. Len(s.revs) :
          s.revs[k].st # "pending" => s'.revs[k].st = s.revs[k].st]_vars

(* Nothing waits for a boundary that never comes: in a run that goes on,     *)
(* every loop the waiting revision waits for has handed over its round, is   *)
(* still at work in it, has a judgement the next tick takes up, is held by   *)
(* an opinion, or has failed or reached its limit, which closes the run or   *)
(* the revision.                                                             *)
WaitingMoves ==
  s.pend # 0 /\ s.st \in {"queued", "running"} =>
    \A l \in s.revs[s.pend].waits :
      LET state(n) == s.act[CurrentOf(s, n)].st
      IN  \/ l \in DOMAIN s.bounds \cup HeldLoops(s)
          \/ s.loop[l].limited
          \/ \E n \in Body[l] : state(n) \in Unbegun \cup {"active"} \cup Bad
          \/ state(Decision[l]) = "completed" /\ ~s.loop[l].handled

=============================================================================
