--------------------------- MODULE SerialWorkflow ---------------------------
(***************************************************************************)
(* The serial engine (workflows/service.py): the runs of one conversation, *)
(* each a path of nodes with a cursor and, per node, a selected attempt.   *)
(* Requests and ticks are short transactions under control_lock; between   *)
(* them the conversation's worker claims, asks permit_generation, runs and *)
(* closes one attempt at a time (scheduling/conversation.py).  control and *)
(* advance stop a chain before they free the lock, so only the worker gets *)
(* between; the stop of a reply (routers/messages.py) frees it first.      *)
(***************************************************************************)
EXTENDS Naturals, Sequences

CONSTANTS
  Runs,
  Order,      \* serial_execution_graph's nodes, in order
  Kind,       \* node -> "role" or "approval"
  Inputs,     \* node -> the earlier nodes whose results it takes
  MaxEvents   \* bound: retries, resumes, stops, lost resources, restarts

VARIABLES
  run,     \* run -> its row and its attempts
  granted, \* the binding, the members and their tools are as they were
  work,    \* the attempt the conversation's worker has in hand
  inbox,   \* attempts enqueued for the worker
  stops,   \* <<run, how>>: its chain is still to be stopped, by who holds the lock or freed it
  events   \* what happened besides

vars == <<run, granted, work, inbox, stops, events>>

Nodes == {Order[i] : i \in 1..Len(Order)}
Before(i) == {Order[j] : j \in 1..i - 1}
None == <<>>

\* The order is a linear one that every node's inputs precede (serial_execution_graph).
ASSUME PathAssumption ==
  /\ Order \in Seq(Nodes) /\ Len(Order) >= 1
  /\ \A i, j \in 1..Len(Order) : Order[i] = Order[j] => i = j
  /\ \A i \in 1..Len(Order) : Inputs[Order[i]] \subseteq Before(i)
  /\ Kind \in [Nodes -> {"role", "approval"}]
  /\ MaxEvents \in Nat

Active == {"queued", "running", "waiting", "stopping"}
Alive == {"queued", "running"}
Over == {"completed", "failed", "stopped", "interrupted"}
Calls == Runs \X {"held", "late"}

\* An attempt: its row, its generation and its execution; up names its inputs.
NewAttempt(r, n) == [st |-> "pending", up |-> [m \in Inputs[n] |-> r.sel[m]],
                     g |-> "none", e |-> "none", asked |-> FALSE]
NoRun == [st |-> "absent", err |-> FALSE, cur |-> 1, sel |-> [n \in Nodes |-> 0],
          again |-> TRUE, tries |-> [n \in Nodes |-> <<>>]]

\* The attempts of n, the rows of a run, and the attempts of the runs.
Attempts(n) ==
  [st : {"pending", "waiting"} \union Alive \union Over, up : [Inputs[n] -> Nat],
   g : {"none"} \union Alive \union Over, e : {"none"} \union Alive \union Over, asked : BOOLEAN]
IsRun(r) ==
  /\ r \in [st : {"absent", "blocked"} \union Active \union Over, err : BOOLEAN, cur : 1..Len(Order) + 1,
            sel : [Nodes -> Nat], again : BOOLEAN, tries : [Nodes -> {r.tries[n] : n \in Nodes}]]
  /\ \A n \in Nodes : r.tries[n] \in Seq(Attempts(n)) /\ r.sel[n] <= Len(r.tries[n])
Ids == {id \in Runs \X Nodes \X Nat : id[3] \in 1..Len(run[id[1]].tries[id[2]])}

TypeOK ==
  /\ DOMAIN run = Runs /\ \A x \in Runs : IsRun(run[x])
  /\ granted \in BOOLEAN /\ events \in 0..MaxEvents
  /\ work = None \/ work \in [id : Ids, at : {"claimed", "live", "cancelled", "closing"}]
  /\ inbox \subseteq Ids /\ stops \subseteq Calls

Init ==
  /\ run = [x \in Runs |-> NoRun] /\ granted = TRUE
  /\ work = None /\ inbox = {} /\ stops = {} /\ events = 0

-----------------------------------------------------------------------------
\* The attempt selected for n, and whether n's inputs are selected and whole.
At(r, n) == r.tries[n][r.sel[n]]
Fed(r, n) == \A m \in Inputs[n] : r.sel[m] # 0 /\ At(r, m).st = "completed"
Attempted(r, n) == [r EXCEPT !.tries[n] = @ \o <<NewAttempt(r, n)>>, !.sel[n] = Len(r.tries[n]) + 1]

\* control_lock is free.
Unlocked == \A x \in Runs : <<x, "held">> \notin stops

OthersActive(x) == \E y \in Runs \ {x} : run[y].st \in Active

Start(x) ==
  /\ Unlocked /\ run[x].st = "absent" /\ granted
  /\ \A y \in Runs : run[y].st \notin Active
  /\ run' = [run EXCEPT ![x] = Attempted([@ EXCEPT !.st = "queued"], Order[1])]
  /\ UNCHANGED <<granted, work, inbox, stops, events>>

\* ---- control --------------------------------------------------------------
\* "late" is the stop of the reply that the run is waiting for.
Stop(x, how) ==
  /\ Unlocked /\ run[x].st \in Active /\ events < MaxEvents
  /\ run' = [run EXCEPT ![x].st = "stopping"]
  /\ stops' = stops \union {<<x, how>>} /\ events' = events + 1
  /\ UNCHANGED <<granted, work, inbox>>

Resumable(r) ==
  /\ r.st \notin Active \union {"absent"} /\ r.cur <= Len(Order) /\ r.sel[Order[r.cur]] = 0
  /\ \A n \in Before(r.cur) : r.sel[n] # 0 /\ At(r, n).st = "completed"

Resume(x) ==
  /\ Unlocked /\ Resumable(run[x]) /\ granted /\ ~OthersActive(x) /\ events < MaxEvents
  /\ run' = [run EXCEPT ![x].st = "queued", ![x].err = FALSE, ![x].again = TRUE]
  /\ events' = events + 1
  /\ UNCHANGED <<granted, work, inbox, stops>>

\* mutant: an approval of any active run is taken, one that is stopping too
DecidableActive(r, n) == r.st \in Active /\ r.sel[n] # 0 /\ At(r, n).st = "waiting"
Decidable(r, n) == r.st = "waiting" /\ r.sel[n] # 0 /\ At(r, n).st = "waiting"

Confirm(x, n) ==
  /\ Unlocked /\ Decidable(run[x], n) /\ granted
  /\ run' = [run EXCEPT ![x].tries[n][run[x].sel[n]].st = "completed", ![x].cur = @ + 1,
                        ![x].st = IF run[x].again THEN "queued" ELSE "stopped"]
  /\ UNCHANGED <<granted, work, inbox, stops, events>>

\* A retry goes back to the node: what came after it is no longer selected.
\* mutant: the later selections stay
RewoundOnly(r, i, again) == [r EXCEPT !.cur = i, !.again = again, !.st = "queued", !.err = FALSE]
Rewound(r, i, again) ==
  [r EXCEPT !.cur = i, !.again = again, !.st = "queued", !.err = FALSE,
            !.sel = [n \in Nodes |-> IF n \in Before(i) THEN @[n] ELSE 0]]

Retriable(x, i) ==
  LET r == run[x] IN
  /\ r.st \notin Active \union {"absent"} /\ r.sel[Order[i]] # 0
  /\ ~OthersActive(x) /\ \A n \in Before(i) : r.sel[n] # 0
  /\ Fed(r, Order[i])

Retry(x, i, again) ==
  /\ Unlocked /\ Retriable(x, i) /\ granted /\ events < MaxEvents
  /\ run' = [run EXCEPT ![x] = Attempted(Rewound(@, i, again), Order[i])]
  /\ events' = events + 1
  /\ UNCHANGED <<granted, work, inbox, stops>>

\* ---- advance --------------------------------------------------------------
Cursor(r) == Order[r.cur]
Past(r) == r.cur > Len(Order)
Chosen(r) == ~Past(r) /\ r.sel[Cursor(r)] # 0
Marked(r, st) == [r EXCEPT !.tries[Cursor(r)][r.sel[Cursor(r)]].st = st]

IsOpen(r) == Chosen(r) /\ (At(r, Cursor(r)).g \in Alive \/ At(r, Cursor(r)).e \in Alive)
Ended(r) ==
  LET a == At(r, Cursor(r))
      q == IF Chosen(r) /\ a.st \notin Over
           THEN Marked(r, IF a.e = "none" THEN "stopped" ELSE a.e) ELSE r
  IN [q EXCEPT !.st = IF r.err THEN "blocked" ELSE "stopped"]

\* The execution's end is the attempt's; only then the next node is handed over.
Handed(r) ==
  LET a == At(r, Cursor(r))
      q == Marked(r, a.e)
  IN IF a.e = "completed"
     THEN [q EXCEPT !.cur = @ + 1, !.st = IF r.again THEN "queued" ELSE "stopped"]
     ELSE [q EXCEPT !.st = a.e]

Dispatched(r) ==
  LET q == IF Chosen(r) THEN r ELSE Attempted(r, Cursor(r))
      n == Cursor(r)
  IN IF Kind[n] = "approval" THEN [Marked(q, "waiting") EXCEPT !.st = "waiting"]
     ELSE [q EXCEPT !.st = "running",
             !.tries[n][q.sel[n]] = [@ EXCEPT !.st = "queued", !.g = "queued", !.e = "queued"]]

\* One tick.  A node without its inputs blocks the run (coordinate).
Observed(r) ==
  LET a == At(r, Cursor(r)) IN
  IF a.e \in Over THEN Handed(r)
  ELSE IF a.g = "queued" THEN r ELSE Marked(r, "running")
Advanced(r) ==
  IF r.st = "stopping" THEN IF IsOpen(r) THEN r ELSE Ended(r)
  ELSE IF Past(r) THEN [r EXCEPT !.st = "completed"]
  ELSE IF Chosen(r) /\ At(r, Cursor(r)).g # "none" THEN Observed(r)
  ELSE IF r.st = "waiting" THEN r
  ELSE IF Chosen(r) \/ Fed(r, Cursor(r)) THEN Dispatched(r) ELSE [r EXCEPT !.st = "blocked"]

Refused(r) == ~granted /\ r.st # "stopping"
Asks(r) == r.st = "stopping" /\ IsOpen(r) /\ At(r, Cursor(r)).g # "none" /\ ~At(r, Cursor(r)).asked
Waits(r) == r.st # "stopping" /\ Chosen(r) /\ At(r, Cursor(r)).g = "queued"

Advance(x) ==
  LET r == IF Refused(run[x]) THEN [run[x] EXCEPT !.st = "stopping", !.err = TRUE] ELSE run[x]
      q == Advanced(r)
  IN /\ Unlocked /\ run[x].st \in Active
     /\ run' = [run EXCEPT ![x] = q]
     /\ stops' = IF Refused(run[x]) \/ Asks(r) THEN stops \union {<<x, "held">>} ELSE stops
     /\ inbox' = IF Waits(q) THEN inbox \union {<<x, Cursor(q), q.sel[Cursor(q)]>>} ELSE inbox
     /\ UNCHANGED <<granted, work, events>>

-----------------------------------------------------------------------------
\* ---- the conversation's worker ---------------------------------------------
Put(a, id) == run' = [run EXCEPT ![id[1]].tries[id[2]][id[3]] = a]
Row(id) == run[id[1]].tries[id[2]][id[3]]

Claim(id) ==
  /\ work = None /\ id \in inbox /\ inbox' = inbox \ {id}
  /\ IF Row(id).g = "queued"
     THEN Put([Row(id) EXCEPT !.e = "running"], id) /\ work' = [id |-> id, at |-> "claimed"]
     ELSE UNCHANGED <<run, work>>
  /\ UNCHANGED <<granted, stops, events>>

\* permit_generation: the run still wants this attempt, and may have it.
Permitted(id) ==
  run[id[1]].st = "running" /\ run[id[1]].sel[id[2]] = id[3] /\ granted

Failed(a) == [a EXCEPT !.e = "failed", !.g = IF @ \in Alive THEN "failed" ELSE @]
Permit ==
  /\ Unlocked /\ work # None /\ work.at = "claimed"
  /\ IF Permitted(work.id)
     THEN Put([Row(work.id) EXCEPT !.g = "running"], work.id) /\ work' = [work EXCEPT !.at = "live"]
     ELSE Put(Failed(Row(work.id)), work.id) /\ work' = None
  /\ UNCHANGED <<granted, inbox, stops, events>>

Settle(end) ==
  /\ work # None
  /\ end \in (CASE work.at = "live" -> {"completed", "failed"} [] work.at = "cancelled" -> {"stopped"} [] OTHER -> {})
  /\ Put([Row(work.id) EXCEPT !.g = end], work.id) /\ work' = [work EXCEPT !.at = "closing"]
  /\ UNCHANGED <<granted, inbox, stops, events>>

Finish ==
  /\ work # None /\ work.at = "closing"
  /\ Put([Row(work.id) EXCEPT !.e = Row(work.id).g], work.id) /\ work' = None
  /\ UNCHANGED <<granted, inbox, stops, events>>

\* stop_generations of all that is alive in the chain.
Asked(a) ==
  CASE a.g = "queued" -> [a EXCEPT !.asked = TRUE, !.g = "stopped", !.e = IF @ = "queued" THEN "stopped" ELSE @]
    [] a.g = "running" -> [a EXCEPT !.asked = TRUE]
    [] OTHER -> a

StopChain(x, how) ==
  /\ <<x, how>> \in stops /\ stops' = stops \ {<<x, how>>}
  /\ run' = [run EXCEPT ![x].tries = [n \in Nodes |-> [k \in 1..Len(@[n]) |-> Asked(@[n][k])]]]
  /\ work' = IF work # None /\ work.id[1] = x /\ work.at = "live" THEN [work EXCEPT !.at = "cancelled"] ELSE work
  /\ UNCHANGED <<granted, inbox, events>>

-----------------------------------------------------------------------------
\* ---- the Owner's resources, a restart ----------------------------------------
Lose == /\ granted /\ events < MaxEvents /\ granted' = FALSE /\ events' = events + 1
        /\ UNCHANGED <<run, work, inbox, stops>>
Grant == /\ ~granted /\ granted' = TRUE
         /\ UNCHANGED <<run, work, inbox, stops, events>>

\* The scheduler closes what was alive, then initialize marks runs and attempts.
Recovered(r) ==
  LET rows(a) == [a EXCEPT !.g = IF @ \in Alive THEN "stopped" ELSE @,
                           !.e = IF @ \in Alive THEN "interrupted" ELSE @]
      mark(a) == IF a.st \in {"pending"} \union Alive THEN [a EXCEPT !.st = "interrupted"] ELSE a
      hit == r.st \in {"queued", "running", "stopping"}
  IN [r EXCEPT !.tries = [n \in Nodes |-> [k \in 1..Len(@[n]) |->
                            IF hit THEN mark(rows(@[n][k])) ELSE rows(@[n][k])]],
               !.st = IF hit THEN "interrupted" ELSE @, !.err = hit \/ @]

Restart ==
  /\ events < MaxEvents /\ events' = events + 1
  /\ run' = [x \in Runs |-> Recovered(run[x])]
  /\ work' = None /\ inbox' = {} /\ stops' = {}
  /\ UNCHANGED <<granted>>

Next ==
  \/ \E x \in Runs : Start(x) \/ Resume(x) \/ Advance(x)
  \/ \E x \in Runs, how \in {"held", "late"} : Stop(x, how) \/ StopChain(x, how)
  \/ \E x \in Runs, n \in Nodes : Confirm(x, n)
  \/ \E x \in Runs, i \in 1..Len(Order), again \in BOOLEAN : Retry(x, i, again)
  \/ \E id \in inbox : Claim(id)
  \/ \E end \in {"completed", "failed", "stopped"} : Settle(end)
  \/ Permit \/ Finish \/ Lose \/ Grant \/ Restart

Spec == Init /\ [][Next]_vars

-----------------------------------------------------------------------------
\* At most one run of the conversation is active, whichever of start, resume
\* and retry brought it there and whatever the other run was doing meanwhile.
OneActiveRun == \A x, y \in Runs : run[x].st \in Active /\ run[y].st \in Active => x = y

\* The nodes behind the cursor are selected and completed, none beyond it is
\* selected, and every selected attempt took the results that are selected now:
\* no retry leaves a downstream result standing on a replaced one.
PathIsFresh ==
  \A x \in Runs : LET r == run[x] IN
    /\ \A i \in 1..Len(Order) : i < r.cur => r.sel[Order[i]] # 0 /\ At(r, Order[i]).st = "completed"
    /\ \A i \in 1..Len(Order) : i > r.cur => r.sel[Order[i]] = 0
    /\ \A n \in Nodes : r.sel[n] # 0 => \A m \in Inputs[n] : At(r, n).up[m] = r.sel[m] /\ At(r, m).st = "completed"

\* A run that has ended has nothing in the worker's hands and no row alive.
QuietAtEnd ==
  \A x \in Runs : run[x].st \notin Active =>
    /\ work = None \/ work.id[1] # x
    /\ \A n \in Nodes : \A k \in 1..Len(run[x].tries[n]) :
         run[x].tries[n][k].g \notin Alive /\ run[x].tries[n][k].e \notin Alive

\* A stop that was taken is never undone: a stopping run only ever ends.
StopHolds ==
  [][\A x \in Runs : run[x].st = "stopping" =>
       run'[x].st \in {"stopping", "stopped", "blocked", "interrupted"}]_vars
=============================================================================
