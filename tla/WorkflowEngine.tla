--------------------------- MODULE WorkflowEngine ---------------------------
(***************************************************************************)
(* The version 2 workflow engine (workflows/engine.py with service.py,     *)
(* allocations.py, coordination.py and the scheduling half of feedback.py). *)
(*                                                                         *)
(* A run executes a graph: one activation per node (per round for the body *)
(* of a loop), numbered attempts of a node, at most one selected by each   *)
(* activation, and one execution per dispatched attempt.  Every transition *)
(* of a run is one short transaction under service.control_lock, so a tick *)
(* of `advance` and a request of `control` are single steps; what happens  *)
(* outside the lock (the models' work, the ends of executions) are steps   *)
(* of their own.  The stop calls that follow a commit are steps too: those  *)
(* of advance, control and a new appointment are awaited before the lock   *)
(* is freed, so only executions get between, while the stop of a reply, a  *)
(* cancelled coordination and a change of the members free it first.       *)
(*                                                                         *)
(* All of a run's rows are one record of `w`:                              *)
(*   st, err, phase, out, pause   WorkflowRun.status, error_code, the       *)
(*                                phase, outcome and pause_after of state   *)
(*   loop[l]    iteration, exited, handled (an attempt number), limited     *)
(*   act[n][i]  the activation of n in round i and its selected attempt:    *)
(*              status, attempt number (0: none), upstream attempts,        *)
(*              dependencies, reported value, outcome, revoked              *)
(*   tried[n]   how many attempts n has                                     *)
(*   exec       the executions alive or not yet observed, by <<n, number>>  *)
(*   chain      stop_chain calls not yet carried out: "held" of who holds   *)
(*              control_lock, "late" of who has freed it                    *)
(*   asks       the executions of a stop_generations not yet carried out    *)
(*   note       one blocking feedback item: open, its source attempt and    *)
(*              the activation asked to handle it                           *)
(*                                                                         *)
(* Abstracted: graph revisions (they have a module of their own,           *)
(* GraphRevisions), the text of tasks, budgets, and non-blocking feedback,  *)
(* which steers nothing here.                                              *)
(***************************************************************************)
EXTENDS Naturals, FiniteSets, Sequences, SequencesExt, TLC

CONSTANTS
  Runs,         \* the workflow runs of one conversation
  Order,        \* the nodes in the compiled topological order
  Kind,         \* node -> "role", "judge", "approval", "join" or "condition"
  Incoming,     \* node -> the sources of its edges, loops' back edges left out
  Inputs,       \* node -> the nodes whose results it is given
  When,         \* <<source, target>> -> "always", "T" or "F"
  Sources,      \* condition or judge -> the nodes its condition reads, "self" included
  Loops,        \* loop -> [body, entry, decision, repeat, max]
  Coordinated,  \* the mode of the runs
  Concurrency,  \* the frozen number of parallel executions
  plan, summary,\* the coordinator's own nodes, "__plan" and "__summary"
  MaxRetries,   \* bound: retries and resumes of the Owner
  MaxFaults     \* bound: stops, revocations, restarts and feedback items

VARIABLES w, lost, gone, retries, faults

vars == <<w, lost, gone, retries, faults>>

-----------------------------------------------------------------------------
(* The compiled graph. *)

Nodes == Range(Order)
AllNodes == Nodes \cup (IF Coordinated THEN {plan, summary} ELSE {})
None == <<>>

Home == [n \in AllNodes |-> {l \in DOMAIN Loops : n \in Loops[l].body}]
LoopsOf(n) == Home[n]
Rounds(n) == IF LoopsOf(n) = {} THEN {0}
             ELSE 0 .. Loops[CHOOSE l \in LoopsOf(n) : TRUE].max - 1

(* The nodes reached from n along the edges, back edges left out. *)
Descendants ==
  [n \in AllNodes |->
     LET grow(S, k) == S \cup {m \in Nodes : Incoming[m] \cap (S \cup {n}) # {}}
     IN  FoldLeft(grow, {}, Order)]
Below(n) == Descendants[n]

(* The phase of an attempt decides its authority and its result contract. *)
KindOf(n) == IF n \in {plan, summary} THEN "coordinator" ELSE Kind[n]
Coordinating(n) == KindOf(n) \in {"coordinator"} \cup (IF Coordinated THEN {"judge"} ELSE {})

Read == UNION {{IF k = "self" THEN m ELSE k : k \in Sources[m]} : m \in Nodes}
NeedsResult(n) == Coordinating(n) \/ n \in Read

(* What a node can report: the value matters only where a condition reads it. *)
Answers(n) == IF n \in Read THEN {"T", "F"} ELSE {"T"}

-----------------------------------------------------------------------------
(* Rows. *)

Active == {"queued", "running", "waiting", "stopping"}
Ended == {"completed", "failed", "stopped", "interrupted", "blocked", "skipped", "dormant"}
Bad == {"failed", "blocked", "stopped", "interrupted"}
Live == {"queued", "running"}

NoActivation == [st |-> "absent", num |-> 0, up |-> {}, deps |-> {},
                 val |-> "none", out |-> "none", rev |-> FALSE]
Fresh == [NoActivation EXCEPT !.st = "pending"]
FirstRound == [it |-> 0, exited |-> FALSE, handled |-> 0, limited |-> FALSE]

NoRun == [st |-> "absent", err |-> FALSE, phase |-> "work", out |-> "none", pause |-> None,
          loop |-> [l \in DOMAIN Loops |-> FirstRound],
          act |-> [n \in AllNodes |-> [i \in Rounds(n) |-> NoActivation]],
          tried |-> [n \in AllNodes |-> 0], exec |-> [x \in {} |-> 0],
          chain |-> {}, asks |-> {},
          note |-> [open |-> FALSE, src |-> None, handler |-> None]]

Init ==
  /\ w = [r \in Runs |-> NoRun]
  /\ lost = FALSE /\ gone = {}
  /\ retries = 0 /\ faults = 0

(* The activation the run currently selects for a node. *)
RoundOf(s, n) == IF LoopsOf(n) = {} THEN 0 ELSE s.loop[CHOOSE l \in LoopsOf(n) : TRUE].it
Now(s, n) == s.act[n][RoundOf(s, n)]
Set(s, n, i, a) == [s EXCEPT !.act[n][i] = a]
SetNow(s, n, a) == Set(s, n, RoundOf(s, n), a)

(* control_lock is free. *)
Unlocked == \A r \in Runs : "held" \notin w[r].chain /\ w[r].asks = {}

Slots == UNION {{<<n, i>> : i \in Rounds(n)} : n \in AllNodes}
At(s, x) == s.act[x[1]][x[2]]
Running(s) == {x \in Slots : At(s, x).st = "active"}
ExecOf(s, x) == s.exec[<<x[1], At(s, x).num>>]

-----------------------------------------------------------------------------
(* Activations and attempts. *)

CreateActivation(s, n, i) ==
  CASE s.act[n][i].st = "absent"  -> Set(s, n, i, Fresh)
    [] s.act[n][i].st = "dormant" -> Set(s, n, i, Fresh)
    [] OTHER -> s

Attempt(s, n, i, up) ==
  [Set(s, n, i, [s.act[n][i] EXCEPT !.num = s.tried[n] + 1, !.up = up,
                                    !.val = "none", !.out = "none"])
     EXCEPT !.tried[n] = @ + 1]

(* Dispatch re-checks the role and its tools; a refusal blocks the node.   *)
CanDispatch(n) == ~lost /\ n \notin gone

Dispatch(s, n, i) ==
  [Set(s, n, i, [s.act[n][i] EXCEPT !.st = "active"])
     EXCEPT !.exec = (<<n, s.act[n][i].num>> :> [st |-> "queued", stop |-> FALSE]) @@ @]

(* allocations.allowed without the generation: the run still runs, the     *)
(* activation is active and still selects the attempt, the grant stands.    *)
Granted(s, n, k) ==
  /\ s.st \in {"queued", "running", "waiting"}
  /\ \E i \in Rounds(n) : s.act[n][i].num = k /\ s.act[n][i].st = "active"
  /\ ~lost /\ n \notin gone

-----------------------------------------------------------------------------
(* advance, first half: close the attempts whose executions have ended.    *)

Final(s, x) ==
  LET a == At(s, x)
      e == ExecOf(s, x).st
  IN  CASE a.rev -> "blocked"
        [] ~a.rev /\ e = "completed" /\ NeedsResult(x[1]) /\ a.val = "none" -> "failed"
        [] OTHER -> e

Checked(s) == IF lost /\ s.st # "stopping" THEN [s EXCEPT !.st = "stopping", !.err = TRUE] ELSE s

Observed(s) ==
  LET over == {x \in Running(s) : ExecOf(s, x).st \notin Live}
      taken == IF s.st = "stopping" THEN {}
               ELSE {x \in Running(s) \ over : ~Granted(s, x[1], At(s, x).num)}
      broken == \E x \in over : Coordinating(x[1]) /\ Final(s, x) # "completed"
      planned == \E x \in over : x[1] = plan /\ Final(s, x) = "completed"
  IN  [s EXCEPT
        !.act = [n \in AllNodes |-> [i \in Rounds(n) |->
                   IF <<n, i>> \in over THEN [@[n][i] EXCEPT !.st = Final(s, <<n, i>>)]
                   ELSE IF <<n, i>> \in taken THEN [@[n][i] EXCEPT !.rev = TRUE] ELSE @[n][i]]],
        !.exec = [x \in DOMAIN @ \ {<<x[1], At(s, x).num>> : x \in over} |-> @[x]],
        !.phase = IF planned THEN "work" ELSE @,
        !.st = IF broken THEN "stopping" ELSE @,
        !.err = IF broken /\ s.st # "stopping" THEN TRUE ELSE @,
        !.asks = @ \cup {<<x[1], At(s, x).num>> : x \in taken},
        !.chain = IF (broken /\ s.st # "stopping") \/ (s.st = "stopping" /\ Running(s) \ over # {})
                  THEN @ \cup {"held"} ELSE @]

(* Mutant: the run ends although executions are still alive. *)
ClosingAtOnce(s) ==
  [s EXCEPT !.st = IF s.err THEN "blocked" ELSE "stopped",
            !.act = [n \in AllNodes |-> [i \in Rounds(n) |->
                       IF i = RoundOf(s, n) /\ @[n][i].st \notin Ended \cup {"absent", "active"}
                       THEN [@[n][i] EXCEPT !.st = "stopped"] ELSE @[n][i]]]]

(* A stopping run waits for every execution, then ends what never ran.     *)
Closing(s) ==
  IF Running(s) # {} THEN [s EXCEPT !.chain = @ \cup {"held"}]
  ELSE [s EXCEPT !.st = IF s.err THEN "blocked" ELSE "stopped",
                 !.act = [n \in AllNodes |-> [i \in Rounds(n) |->
                            IF i = RoundOf(s, n) /\ @[n][i].st \notin Ended \cup {"absent"}
                            THEN [@[n][i] EXCEPT !.st = "stopped"] ELSE @[n][i]]]]

Planning(s) ==
  IF Now(s, plan).st = "pending"
  THEN [Dispatch(Attempt(s, plan, 0, {}), plan, 0) EXCEPT !.st = "running"]
  ELSE [s EXCEPT !.st = "running"]

Summing(s) ==
  LET a == Now(s, summary)
      up == {<<n, Now(s, n).num>> : n \in {m \in Nodes : Now(s, m).st = "completed"}}
  IN  CASE a.st = "completed" -> [s EXCEPT !.st = s.out]
        [] a.st = "pending" -> Dispatch(Attempt(s, summary, 0, up), summary, 0)
        [] OTHER -> [s EXCEPT !.st = "running"]

-----------------------------------------------------------------------------
(* advance, the work phase. *)

(* Mutant: an assigned item holds nothing any more. *)
HeldUntilAssigned(s) ==
  IF s.note.open /\ Now(s, s.note.src[1]).num = s.note.src[2] /\ s.note.handler = None
  THEN Below(s.note.src[1]) ELSE {}

(* An open blocking item holds what follows its source, the node asked to  *)
(* handle it excepted, and the round of its loop.                          *)
Blocking(s) == /\ s.note.open
               /\ Now(s, s.note.src[1]).num = s.note.src[2]
Held(s) == IF Blocking(s) THEN Below(s.note.src[1]) \ {x[1] : x \in {s.note.handler} \ {None}} ELSE {}
HeldLoops(s) == IF Blocking(s) THEN LoopsOf(s.note.src[1]) ELSE {}

Holding(s) ==
  LET hold(t, n) ==
        IF Now(t, n).st \notin {"pending", "waiting_feedback"} THEN t
        ELSE SetNow(t, n, [Now(t, n) EXCEPT !.st = IF n \in Held(s) THEN "waiting_feedback" ELSE "pending"])
  IN  FoldLeft(hold, s, Order)

(* What an edge says to its target. *)
Edge(s, m, n) ==
  LET a == Now(s, m)
      leaves == {l \in LoopsOf(m) : n \notin Loops[l].body /\ ~s.loop[l].exited}
  IN  CASE a.st \in Bad -> "blocked"
        [] a.st = "skipped" -> "skip"
        [] a.st \notin Bad \cup {"skipped", "completed"} -> "pending"
        [] a.st = "completed" /\ leaves # {} ->
             IF \E l \in leaves : s.loop[l].limited THEN "blocked" ELSE "pending"
        [] a.st = "completed" /\ leaves = {} /\ When[<<m, n>>] = "always" -> "yes"
        [] OTHER -> IF a.out = "none" THEN "pending"
                    ELSE IF a.out = When[<<m, n>>] THEN "yes" ELSE "skip"

(* The value of a condition over its sources that were not skipped; "none" *)
(* when one is missing or nothing is left to read.                          *)
Verdict(s, n) ==
  LET read == {Now(s, m).val : m \in {k \in Sources[n] \ {"self"} : Now(s, k).st # "skipped"}}
              \cup (IF "self" \in Sources[n] THEN {Now(s, n).val} ELSE {})
  IN  IF read = {} \/ "none" \in read THEN "none" ELSE IF read = {"T"} THEN "T" ELSE "F"

(* Judges that completed get their outcome; one that cannot be judged      *)
(* blocks its node, and stops a coordinated run.                           *)
Judged(s) ==
  LET due == {n \in Nodes : Kind[n] = "judge" /\ Now(s, n).st = "completed" /\ Now(s, n).out = "none"}
      unfit == {n \in due : Verdict(s, n) = "none"}
      judge(t, n) ==
        IF n \notin due THEN t
        ELSE SetNow(t, n, IF n \in unfit THEN [Now(t, n) EXCEPT !.st = "blocked"]
                          ELSE [Now(t, n) EXCEPT !.out = Verdict(s, n)])
      done == FoldLeft(judge, s, Order)
  IN  IF Coordinated /\ unfit # {} THEN [done EXCEPT !.st = "stopping", !.err = TRUE, !.chain = @ \cup {"held"}] ELSE done

(* The upstream results a node is started with. *)
Upstream(s, n, i) ==
  LET given == {m \in Inputs[n] : Now(s, m).st # "skipped"}
      read == IF Kind[n] \in {"join", "condition", "judge"}
              THEN {m \in Incoming[n] : Edge(s, m, n) = "yes"} \cup
                   {m \in Sources[n] \ {"self"} : Now(s, m).st = "completed"}
              ELSE {}
  IN  {<<m, Now(s, m).num>> : m \in given \cup read}
Available(s, n) == \A m \in Inputs[n] : Now(s, m).st \in {"skipped", "completed"}

(* One pending node whose incoming edges have all spoken. *)
Start1(s, n) ==
  LET i == RoundOf(s, n)
      said == {Edge(s, m, n) : m \in Incoming[n]}
      deps == {<<m, Now(s, m).num>> : m \in {k \in Incoming[n] : Now(s, k).num # 0}}
      closed(st) == SetNow(Attempt(s, n, i, {}), n,
                           [Now(Attempt(s, n, i, {}), n) EXCEPT !.st = st, !.deps = deps])
      up == Upstream(s, n, i)
      own == IF Now(s, n).num = 0 THEN Attempt(s, n, i, up) ELSE s
      ready == SetNow(own, n, [Now(own, n) EXCEPT !.deps = deps \cup up])
      to(st) == SetNow(ready, n, [Now(ready, n) EXCEPT !.st = st])
  IN  CASE "blocked" \in said -> closed("blocked")
        [] "blocked" \notin said /\ Incoming[n] # {} /\ "yes" \notin said -> closed("skipped")
        [] ~Available(s, n) -> SetNow(IF Now(s, n).num = 0 THEN Attempt(s, n, i, {}) ELSE s, n,
                                      [Now(IF Now(s, n).num = 0 THEN Attempt(s, n, i, {}) ELSE s, n)
                                         EXCEPT !.st = "blocked", !.deps = deps])
        [] Kind[n] = "approval" -> to("waiting")
        [] Kind[n] = "join" -> to("completed")
        [] Kind[n] = "condition" ->
             IF Verdict(s, n) = "none" THEN to("blocked")
             ELSE SetNow(ready, n, [Now(ready, n) EXCEPT !.st = "completed", !.out = Verdict(s, n)])
        [] Cardinality(Running(s)) >= Concurrency -> ready
        [] CanDispatch(n) -> Dispatch(ready, n, i)
        [] OTHER -> to("blocked")

Started(s) ==
  LET go(t, n) ==
        IF \/ Now(t, n).st # "pending"
           \/ t.pause # None /\ t.pause # <<n, RoundOf(t, n)>>
           \/ \E m \in Incoming[n] : Edge(t, m, n) = "pending"
        THEN t ELSE Start1(t, n)
  IN  IF s.st = "stopping" THEN s ELSE FoldLeft(go, s, Order)

(* The decision of a round is handled once: leave the loop, or create the  *)
(* activations of the next round, or reach the limit.                      *)
Turned(s, s0) ==
  LET turn(l, t) ==
        LET b == t.loop[l]
            d == Now(t, Loops[l].decision)
            next == b.it + 1
            create(u, n) == IF n \in Loops[l].body THEN CreateActivation(u, n, next) ELSE u
        IN  IF \/ l \in HeldLoops(s0) \/ b.limited \/ d.st # "completed"
               \/ b.handled = d.num \/ d.out = "none"
            THEN t
            ELSE IF d.out # Loops[l].repeat
                 THEN [t EXCEPT !.loop[l] = [b EXCEPT !.handled = d.num, !.exited = TRUE]]
            ELSE IF next >= Loops[l].max
                 THEN [t EXCEPT !.loop[l] = [b EXCEPT !.handled = d.num, !.limited = TRUE], !.err = TRUE]
            ELSE FoldLeft(create, [t EXCEPT !.loop[l] = [FirstRound EXCEPT !.it = next]], Order)
  IN  IF s.st = "stopping" \/ s.pause # None THEN s ELSE FoldSet(turn, s, DOMAIN Loops)

(* What the nodes of a finished graph amount to. *)
Fell(sts) == sts \cap Bad # {}

(* The status a tick leaves; `s0` is the state the blockers were read in.  *)
Settled(s, s0) ==
  LET sts == {Now(s, n).st : n \in Nodes}
      limited == \E l \in DOMAIN Loops : s.loop[l].limited
      verdict == IF Fell(sts) THEN "failed" ELSE "completed"
  IN  CASE s.st = "stopping" -> s
        [] s.st # "stopping" /\ "active" \in sts -> [s EXCEPT !.st = "running"]
        [] OTHER ->
             IF sts \cap {"waiting", "waiting_feedback"} # {} \/ Blocking(s0) THEN [s EXCEPT !.st = "waiting"]
             ELSE IF limited THEN [s EXCEPT !.st = "blocked"]
             ELSE IF "pending" \in sts THEN [s EXCEPT !.st = "queued"]
             ELSE IF Coordinated
                  THEN [CreateActivation(s, summary, 0) EXCEPT !.phase = "summary", !.out = verdict, !.st = "queued"]
                  ELSE [s EXCEPT !.st = verdict]

(* A retry without its downstream stops the run after the one activation.  *)
Paused(s) ==
  IF s.pause # None /\ s.st # "stopping" /\ At(s, s.pause).st \in Ended /\ Running(s) = {}
  THEN [s EXCEPT !.st = "stopped", !.pause = None] ELSE s

Working(s) == LET h == Holding(s) IN Paused(Settled(Turned(Started(Judged(h)), s), s))

Tick(s) ==
  LET o == Observed(Checked(s))
  IN  CASE o.st = "stopping" -> Closing(o)
        [] o.st # "stopping" /\ o.phase = "plan" -> Planning(o)
        [] o.st # "stopping" /\ o.phase = "summary" -> Summing(o)
        [] OTHER -> Working(o)

Advance(r) ==
  /\ Unlocked
  /\ w[r].st \in Active
  /\ w' = [w EXCEPT ![r] = Tick(@)]
  /\ UNCHANGED <<lost, gone, retries, faults>>

-----------------------------------------------------------------------------
(* Requests of the Owner. *)

Fault == faults < MaxFaults /\ faults' = faults + 1

Begin(r) ==
  /\ Unlocked
  /\ w[r].st = "absent" /\ ~lost
  /\ \A q \in Runs : w[q].st \notin Active
  /\ w' = [w EXCEPT ![r] =
       [NoRun EXCEPT !.st = "queued", !.phase = IF Coordinated THEN "plan" ELSE "work",
          !.act = [n \in AllNodes |-> [i \in Rounds(n) |->
                     IF i = 0 /\ n # summary THEN Fresh ELSE NoActivation]]]]
  /\ UNCHANGED <<lost, gone, retries, faults>>

(* Closing the dispatch first; the executions are stopped after the commit. *)
Stop(r) ==
  /\ Unlocked /\ w[r].st \in Active /\ Fault
  /\ w' = [w EXCEPT ![r] = [@ EXCEPT !.st = "stopping", !.err = FALSE, !.chain = @ \cup {"held"}]]
  /\ UNCHANGED <<lost, gone, retries>>

(* A reply of the run is stopped, or the coordination that started it is    *)
(* cancelled: the run closes the same way, but keeps its error.             *)
StopReply(r) ==
  /\ Unlocked /\ w[r].st \in Active /\ Fault
  /\ w' = [w EXCEPT ![r] = [@ EXCEPT !.st = "stopping", !.chain = @ \cup {"late"}]]
  /\ UNCHANGED <<lost, gone, retries>>

(* Every request but a stop re-checks the run's resources and appointment. *)
Resume(r) ==
  /\ Unlocked /\ w[r].st \notin Active \cup {"absent"} /\ ~lost
  /\ \A n \in AllNodes : Now(w[r], n).st \notin Bad
  /\ retries < MaxRetries /\ retries' = retries + 1
  /\ w' = [w EXCEPT ![r] = [@ EXCEPT !.st = "queued", !.err = FALSE, !.pause = None]]
  /\ UNCHANGED <<lost, gone, faults>>

Confirm(r, x, answer) ==
  /\ Unlocked /\ At(w[r], x).st = "waiting" /\ w[r].st \in Active /\ ~lost /\ answer \in Answers(x[1])
  /\ w' = [w EXCEPT ![r] = [Set(@, x[1], x[2], [At(@, x) EXCEPT !.st = "completed", !.val = answer])
                              EXCEPT !.st = "queued"]]
  /\ UNCHANGED <<lost, gone, retries, faults>>

(* Mutant: a retry takes away the direct followers only. *)
AffectedNext(n) == {m \in Nodes : n \in Incoming[m]} \cup (AllNodes \cap {summary})

(* A retry selects a new attempt with the old one's upstream, and resets   *)
(* what follows it: the nodes below, the later rounds of its loop, and the *)
(* loops it leads into.                                                    *)
Retriable(s, x) ==
  /\ At(s, x).num # 0
  /\ At(s, x).st \notin {"absent", "pending", "active", "waiting", "dormant"}
  /\ s.st # "stopping"

Affected(n) == (IF n = plan THEN Nodes ELSE IF n = summary THEN {} ELSE Below(n))
               \cup (AllNodes \cap {summary})

Later(s, x) == {y \in Slots : y[1] \in UNION {Loops[l].body : l \in LoopsOf(x[1])} /\ y[2] > x[2]}

Retried(s, x, onward) ==
  LET n == x[1]
      own == IF n \in Nodes THEN LoopsOf(n) ELSE {}
      hit == {l \in DOMAIN Loops : l \notin own /\ Loops[l].entry \in Affected(n)}
      back == [s EXCEPT !.loop = [l \in DOMAIN Loops |->
                 IF l \in own THEN [FirstRound EXCEPT !.it = x[2]]
                 ELSE IF l \in hit THEN FirstRound ELSE @[l]]]
      reset(y) ==
        LET a == back.act[y[1]][y[2]] IN
        IF y = x \/ (y \notin Later(s, x) /\ (y[1] \notin Affected(n) \/ y[2] < RoundOf(back, y[1]))) THEN a
        ELSE IF y[2] > RoundOf(back, y[1])
             THEN IF a.st = "absent" THEN a ELSE [Fresh EXCEPT !.st = "dormant"]
        ELSE Fresh
      clean == [back EXCEPT !.act = [m \in AllNodes |-> [i \in Rounds(m) |-> reset(<<m, i>>)]]]
      again == Attempt(clean, n, x[2], At(s, x).up)
  IN  [Set(again, n, x[2], [At(again, x) EXCEPT !.st = "pending", !.rev = FALSE])
         EXCEPT !.st = "queued", !.err = FALSE,
                !.phase = IF n = plan THEN "plan" ELSE IF n = summary THEN "summary" ELSE "work",
                !.pause = IF onward THEN None ELSE x]

Retry(r, x, onward) ==
  /\ retries < MaxRetries /\ retries' = retries + 1
  /\ Unlocked /\ ~lost /\ Retriable(w[r], x)
  /\ \A q \in Runs \ {r} : w[q].st \notin Active
  /\ \A y \in Running(w[r]) : y[1] \notin Affected(x[1]) /\ y \notin Later(w[r], x)
  /\ w' = [w EXCEPT ![r] = Retried(@, x, onward)]
  /\ UNCHANGED <<lost, gone, faults>>

-----------------------------------------------------------------------------
(* Executions: the workers of the conversation scheduler and their models. *)

(* A worker claims the job and asks service.permit_generation before the    *)
(* model starts; without the permission the job fails.                      *)
Run(r, x) ==
  /\ Unlocked /\ w[r].exec[x].st = "queued"
  /\ w' = [w EXCEPT ![r].exec[x].st = IF Granted(w[r], x[1], x[2]) THEN "running" ELSE "failed"]
  /\ UNCHANGED <<lost, gone, retries, faults>>

(* A control tool of the model records the plan, the summary or the result *)
(* (a correction before the attempt ends replaces what nothing read yet).  *)
Report(r, x, v) ==
  LET s == w[r]
      i == CHOOSE j \in Rounds(x[1]) : s.act[x[1]][j].num = x[2]
  IN  /\ Unlocked /\ s.exec[x].st = "running" /\ ~s.exec[x].stop /\ Granted(s, x[1], x[2])
      /\ NeedsResult(x[1])
      /\ s.act[x[1]][i].val = "none" /\ v \in Answers(x[1])
      /\ w' = [w EXCEPT ![r].act[x[1]][i].val = v]
      /\ UNCHANGED <<lost, gone, retries, faults>>

Finish(r, x, st) ==
  /\ w[r].exec[x].st = "running"
  /\ st \in {"completed", "failed"} \cup (IF w[r].exec[x].stop THEN {"stopped"} ELSE {})
  /\ w' = [w EXCEPT ![r].exec[x].st = st]
  /\ UNCHANGED <<lost, gone, retries, faults>>

(* stop_generations: queued executions end at once, the others are asked.  *)
Asked(s, X) ==
  [s EXCEPT !.exec = [x \in DOMAIN @ |->
     IF x \notin X \/ @[x].st \notin Live THEN @[x]
     ELSE [@[x] EXCEPT !.stop = TRUE, !.st = IF @ = "queued" THEN "stopped" ELSE @]]]

(* A tick that stops the chain asks no execution on its own. *)
StopChain(r, how) ==
  /\ how \in w[r].chain
  /\ w' = [w EXCEPT ![r] = [Asked(@, DOMAIN @.exec) EXCEPT !.chain = @ \ {how},
                                                          !.asks = IF how = "held" THEN {} ELSE @]]
  /\ UNCHANGED <<lost, gone, retries, faults>>

StopRevoked(r) ==
  /\ w[r].asks # {} /\ "held" \notin w[r].chain
  /\ w' = [w EXCEPT ![r] = [Asked(@, @.asks) EXCEPT !.asks = {}]]
  /\ UNCHANGED <<lost, gone, retries, faults>>

-----------------------------------------------------------------------------
(* What the surroundings do. *)

(* The workspace or the appointment of the conversation changes: the next  *)
(* check of the run sees it.                                                *)
LoseResource ==
  /\ ~lost /\ Fault /\ lost' = TRUE
  /\ UNCHANGED <<w, gone, retries>>

(* Another appointment, or the members without the coordinator, closes the *)
(* coordinated runs in its own transaction.                                 *)
Reappoint(how) ==
  /\ Unlocked /\ Coordinated /\ ~lost /\ Fault /\ lost' = TRUE
  /\ w' = [r \in Runs |-> IF w[r].st \in Active
                          THEN [w[r] EXCEPT !.st = "stopping", !.err = TRUE, !.chain = @ \cup {how}] ELSE w[r]]
  /\ UNCHANGED <<gone, retries>>

Revoke(n) ==
  /\ n \notin gone /\ Fault /\ gone' = gone \cup {n}
  /\ Kind[n] = "role"
  /\ UNCHANGED <<w, lost, retries>>

Grant ==
  /\ lost \/ gone # {}
  /\ lost' = FALSE /\ gone' = {}
  /\ UNCHANGED <<w, retries, faults>>

(* recover: executions are interrupted before it; completed ones keep the  *)
(* fact, and a run that was not purely waiting needs its Owner.            *)
Recovered(s) ==
  LET e(x) == IF ExecOf(s, x).st \in {"completed", "failed"} THEN ExecOf(s, x).st ELSE "interrupted"
      end(x) == IF e(x) = "completed" /\ Coordinating(x[1]) /\ At(s, x).val = "none" THEN "failed" ELSE e(x)
      planned == \E x \in Running(s) : x[1] = plan /\ end(x) = "completed"
      idle == Running(s) = {} /\ s.st = "waiting" /\ ~Blocking(s)
  IN  IF s.st \notin Active THEN [s EXCEPT !.exec = [x \in {} |-> 0], !.chain = {}, !.asks = {}]
      ELSE [s EXCEPT
              !.act = [n \in AllNodes |-> [i \in Rounds(n) |->
                         IF <<n, i>> \in Running(s) THEN [@[n][i] EXCEPT !.st = end(<<n, i>>)] ELSE @[n][i]]],
              !.phase = IF planned THEN "work" ELSE @,
              !.st = IF idle THEN @ ELSE "interrupted", !.err = IF idle THEN @ ELSE TRUE,
              !.exec = [x \in {} |-> 0], !.chain = {}, !.asks = {}]

Restart ==
  /\ Fault
  /\ \E r \in Runs : w[r].st # "absent"
  /\ w' = [r \in Runs |-> Recovered(w[r])]
  /\ UNCHANGED <<lost, gone, retries>>

(* A blocking item about the selected attempt of an activation, by its     *)
(* model or by the Owner; its handler; its end by a verification, a manual *)
(* signature or a disposal.  A reopened item forgets its handler, as a new *)
(* one has none.                                                           *)
Complain(r, x) ==
  /\ Unlocked /\ ~w[r].note.open /\ At(w[r], x).num # 0 /\ Fault
  /\ w' = [w EXCEPT ![r].note = [open |-> TRUE, src |-> <<x[1], At(w[r], x).num>>, handler |-> None]]
  /\ UNCHANGED <<lost, gone, retries>>

Assign(r, n) ==
  LET s == w[r] IN
  /\ Unlocked /\ s.note.open /\ Kind[n] = "role" /\ n # s.note.src[1]
  /\ Now(s, n).st \in {"pending", "waiting_feedback"}
  /\ s.st \in Active \/ \A q \in Runs \ {r} : w[q].st \notin Active
  /\ w' = [w EXCEPT ![r].note.handler = <<n, RoundOf(s, n)>>,
                     ![r].st = IF s.st \in Active THEN @ ELSE "queued"]
  /\ UNCHANGED <<lost, gone, retries, faults>>

Resolve(r) ==
  /\ Unlocked /\ w[r].note.open
  /\ w' = [w EXCEPT ![r].note = NoRun.note]
  /\ UNCHANGED <<lost, gone, retries, faults>>

-----------------------------------------------------------------------------
Owner(r) ==
  \/ Begin(r) \/ Stop(r) \/ StopReply(r) \/ Resume(r) \/ Resolve(r)
  \/ \E x \in Slots : \/ Complain(r, x)
                       \/ \E v \in {"T", "F"} : Confirm(r, x, v)
                       \/ \E onward \in BOOLEAN : Retry(r, x, onward)
  \/ \E n \in Nodes : Assign(r, n)

Worker(r) ==
  \E x \in DOMAIN w[r].exec :
    \/ Run(r, x)
    \/ \E v \in {"T", "F"} : Report(r, x, v)
    \/ \E st \in {"completed", "failed", "stopped"} : Finish(r, x, st)

Next ==
  \/ \E r \in Runs : Advance(r) \/ Owner(r) \/ Worker(r) \/ StopRevoked(r)
  \/ \E how \in {"held", "late"} : Reappoint(how) \/ \E r \in Runs : StopChain(r, how)
  \/ LoseResource \/ Grant \/ Restart
  \/ \E n \in Nodes : Revoke(n)

Spec == Init /\ [][Next]_vars

-----------------------------------------------------------------------------
(* Properties. *)

(* A settled run is quiet: nothing of it is active, queued or running, so a *)
(* retry, another run or a restart finds no execution of it at work         *)
(* (engine.advance 386-395 and 534-536, engine.recover 673-683).            *)
QuietWhenSettled ==
  \A r \in Runs : w[r].st \notin Active =>
    /\ Running(w[r]) = {}
    /\ \A x \in DOMAIN w[r].exec : w[r].exec[x].st \notin Live

(* A node that works, waits for its Owner or has completed stands on the     *)
(* selected results of its upstream: each of its parents has completed or    *)
(* was skipped, and what it recorded are their selected attempts.  A retry   *)
(* anywhere above it, in whatever round, takes its result away.              *)
NoStaleInput ==
  \A r \in Runs : \A n \in Nodes :
    LET s == w[r]
        a == Now(s, n)
    IN  a.st \in {"active", "waiting", "completed"} =>
          /\ \A m \in Incoming[n] : Now(s, m).st \in {"completed", "skipped"}
                                     /\ <<m, Now(s, m).num>> \in a.deps
          /\ \A m \in Inputs[n] : Now(s, m).st = "completed" => <<m, Now(s, m).num>> \in a.up

(* While a blocking item about the selected result of a node is open, no     *)
(* node below it is started but the one asked to handle it.                  *)
Holds ==
  \A r \in Runs : Blocking(w[r]) /\ w'[r].note = w[r].note =>
    \A n \in Below(w[r].note.src[1]) :
      w[r].note.handler # <<n, RoundOf(w[r], n)>> /\ Now(w[r], n).st = "pending"
        => Now(w'[r], n).st \notin {"active", "waiting", "completed"}
=============================================================================
