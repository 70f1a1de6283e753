-------------------------- MODULE ResourceAdmission --------------------------
(***************************************************************************)
(* Shared reads and exclusive changes of workspace roots inside one process *)
(* (workspaces/resource_admission.py).  Roots overlap when one contains the *)
(* other, so overlap is no equivalence: two children of a root are apart.   *)
(* The condition's lock is never held across another await, so each block   *)
(* under it is one step.  A task that asks again for a root it holds, or    *)
(* for one that overlaps it, is let through or refused without any change   *)
(* of state; its roots come from one workspace, so it holds one claim only. *)
(***************************************************************************)
EXTENDS Queues, FiniteSets

CONSTANTS
  Claimants,
  Roots,
  Claims,      \* what may be claimed: a root and a mode
  Overlaps     \* pairs of roots that are equal or one inside the other

ASSUME OverlapAssumption ==
  /\ IsFiniteSet(Claimants)
  /\ Claims \subseteq [root : Roots, mode : {"read", "write"}] /\ Claims # {}
  /\ Overlaps \subseteq Roots \X Roots
  /\ \A r \in Roots : <<r, r>> \in Overlaps
  /\ \A r, s \in Roots : <<r, s>> \in Overlaps => <<s, r>> \in Overlaps

VARIABLES
  active,      \* tasks whose claim is admitted
  waiting,     \* tasks whose claim waits, oldest first
  closed,
  claim,       \* what each task claims: a root and a mode
  pc,          \* see PcSet
  reported,    \* tasks that have reported their wait
  throw,       \* tasks with a timeout or a cancellation to be thrown
  row          \* tasks whose execution row shows a waiting_mode

vars == <<active, waiting, closed, claim, pc, reported, throw, row>>

\* out: no claim; report: storing that it waits; parked: in condition.wait();
\* woken: notified and not run yet; entering: admitted, storing that it waits
\* no more; inside: in the body; leaving: the clean-up task is created;
\* clearing: the clean-up stores that it waits no more.
PcSet == {"out", "report", "parked", "woken", "entering", "inside", "leaving", "clearing"}

Registered == {"report", "parked", "woken"}
Admitted == {"entering", "inside"}

\* The claim of a task that has none.
Idle == CHOOSE c \in Claims : TRUE

Queued == Members(waiting)

Init ==
  /\ active = {} /\ waiting = <<>> /\ closed = FALSE
  /\ claim = [t \in Claimants |-> Idle]
  /\ pc = [t \in Claimants |-> "out"]
  /\ reported = {}
  /\ throw = {}
  /\ row = {}

-----------------------------------------------------------------------------
EqualRootsOnly(a, b) == a.root = b.root /\ "write" \in {a.mode, b.mode}

Conflicts(a, b) ==
  /\ <<a.root, b.root>> \in Overlaps
  /\ "write" \in {a.mode, b.mode}

AheadOf(t) == IF t \in Queued THEN Before(waiting, t) ELSE Queued

\* A claim waits for admitted claims and for older ones that conflict with it.
Blocked(t, c) == \E u \in active \cup AheadOf(t) : u # t /\ Conflicts(c, claim[u])

WokenFirst(p) ==
  [t \in Claimants |-> IF p[t] = "parked" /\ waiting # <<>> /\ t = Head(waiting)
                   THEN "woken" ELSE p[t]]

\* notify_all()
Woken(p) == [t \in Claimants |-> IF p[t] = "parked" THEN "woken" ELSE p[t]]

Goto(t, l) == pc' = [pc EXCEPT ![t] = l]

\* The check has passed: the claim moves over, and a reported wait is taken back
\* before the body.
Admit(t) ==
  /\ active' = active \cup {t}
  /\ waiting' = Without(waiting, t)
  /\ Goto(t, IF t \in reported THEN "entering" ELSE "inside")
  /\ UNCHANGED reported

-----------------------------------------------------------------------------
\* claim(): registration and first check.  A closed admission refuses.
Ask(t, c) ==
  /\ pc[t] = "out" /\ ~closed
  /\ claim' = [claim EXCEPT ![t] = c]
  /\ \/ /\ ~Blocked(t, c)
        /\ active' = active \cup {t}
        /\ Goto(t, "inside")
        /\ UNCHANGED <<waiting, reported>>
     \/ /\ Blocked(t, c)
        /\ waiting' = Append(waiting, t)
        /\ reported' = reported \cup {t}
        /\ Goto(t, "report")
        /\ UNCHANGED active
  /\ UNCHANGED <<closed, throw, row>>

ParkAfterReport(t) ==
  /\ pc[t] = "report" /\ t \notin throw
  /\ row' = row \cup {t}
  /\ Goto(t, "parked")
  /\ UNCHANGED <<active, waiting, closed, claim, reported, throw>>

\* The check under the lock, after the report and after each wake-up.
Check(t) ==
  IF closed
  THEN Goto(t, "leaving") /\ UNCHANGED <<active, waiting, reported>>
  ELSE IF Blocked(t, claim[t])
  THEN Goto(t, "parked") /\ UNCHANGED <<active, waiting, reported>>
  ELSE Admit(t)

\* report_wait(mode), and the check that follows: a notification may have come
\* while the row was written.
Report(t) ==
  /\ pc[t] = "report" /\ t \notin throw
  /\ row' = row \cup {t}
  /\ Check(t)
  /\ UNCHANGED <<closed, claim, throw>>

Recheck(t) ==
  /\ pc[t] = "woken" /\ t \notin throw
  /\ Check(t)
  /\ UNCHANGED <<closed, claim, throw, row>>

\* report_wait(None) of an admitted claim.
Enter(t) ==
  /\ pc[t] = "entering" /\ t \notin throw
  /\ row' = row \ {t}
  /\ Goto(t, "inside")
  /\ UNCHANGED <<active, waiting, closed, claim, reported, throw>>

\* The waiting time is over, or the task is cancelled.  The timer runs only
\* while the claim waits.
Interrupt(t) ==
  /\ pc[t] \in Registered \cup Admitted /\ t \notin throw
  /\ throw' = throw \cup {t}
  /\ UNCHANGED <<active, waiting, closed, claim, pc, reported, row>>

\* The exception reaches the task: its report may have been stored or not.
Thrown(t) ==
  /\ pc[t] \in Registered \cup Admitted /\ t \in throw
  /\ throw' = throw \ {t}
  /\ row' \in CASE pc[t] = "report"   -> {row, row \cup {t}}
                [] pc[t] = "entering" -> {row, row \ {t}}
                [] OTHER              -> {row}
  /\ Goto(t, "leaving")
  /\ UNCHANGED <<active, waiting, closed, claim, reported>>

\* The body ends.
Leave(t) ==
  /\ pc[t] = "inside" /\ t \notin throw
  /\ Goto(t, "leaving")
  /\ UNCHANGED <<active, waiting, closed, claim, reported, throw, row>>

\* The clean-up drops the claim wherever it is.
Dropped(t) == active' = active \ {t} /\ waiting' = Without(waiting, t)

\* cleanup() under the lock.  It runs in a task of its own that settled()
\* awaits through every further cancellation.
CleanUp(t) ==
  /\ pc[t] = "leaving"
  /\ Dropped(t)
  /\ pc' = Woken([pc EXCEPT ![t] = IF t \in reported THEN "clearing" ELSE "out"])
  /\ claim' = [claim EXCEPT ![t] = Idle]
  /\ UNCHANGED <<closed, reported, throw, row>>

\* cleanup() after the lock.
ClearRow(t) ==
  /\ pc[t] = "clearing"
  /\ row' = row \ {t}
  /\ reported' = reported \ {t}
  /\ Goto(t, "out")
  /\ UNCHANGED <<active, waiting, closed, claim, throw>>

\* close(): waiting claims are woken and refused, admitted ones run on.
Close ==
  /\ ~closed
  /\ closed' = TRUE
  /\ pc' = Woken(pc)
  /\ UNCHANGED <<active, waiting, claim, reported, throw, row>>

TaskStep(t) ==
  Report(t) \/ Recheck(t) \/ Enter(t) \/ Thrown(t) \/ Leave(t) \/ CleanUp(t) \/ ClearRow(t)

Next ==
  \/ \E t \in Claimants :
       \/ \E c \in Claims : Ask(t, c)
       \/ TaskStep(t) \/ Interrupt(t)
  \/ Close

Spec == Init /\ [][Next]_vars

\* Runnable tasks run and a body ends; timeouts and cancellations are not owed.
FairSpec == Spec /\ \A t \in Claimants : WF_vars(TaskStep(t))

-----------------------------------------------------------------------------
\* Properties

\* Two admitted claims never conflict: a change of a root excludes every other
\* access to it, to its parents and to its children (claim).
MutualExclusion ==
  \A t, u \in active :
    t # u /\ <<claim[t].root, claim[u].root>> \in Overlaps
      => claim[t].mode = "read" /\ claim[u].mode = "read"

\* The list of admitted claims is exactly the tasks that run under a claim or
\* have not cleaned up yet; whoever waits is listed once.  A claim survives
\* neither a cancellation at any await nor a timeout.
ClaimsOwned ==
  /\ \A t \in active : pc[t] \in Admitted \cup {"leaving"}
  /\ \A t \in Claimants : pc[t] \in Admitted => t \in active
  /\ \A t \in Claimants : pc[t] \in Registered => t \in Queued
  /\ \A t \in Queued : pc[t] \in Registered \cup {"leaving"} /\ t \notin active
  /\ Distinct(waiting)

\* No lost wake-up: a parked claim is blocked, whatever was released or given
\* up while it stored its report; after close nobody stays parked.
ParkedIsBlocked ==
  \A t \in Claimants : pc[t] = "parked" => ~closed /\ Blocked(t, claim[t])

\* A waiting claim is not overtaken by a later one that conflicts with it.
NoOvertaking ==
  [][\A t \in Claimants : t \notin active /\ t \in active' =>
       \A i \in DOMAIN waiting :
         (\A j \in DOMAIN waiting : waiting[j] = t => i < j)
           => ~Conflicts(claim'[t], claim[waiting[i]])]_vars

\* Whoever waits is admitted or gives up, without the help of its timer: the
\* admitted claims end and nothing else holds it back for ever.
WaiterServed ==
  \A t \in Claimants : pc[t] \in Registered ~> pc[t] \notin Registered
=============================================================================
