---------------------------- MODULE ShellApproval ----------------------------
(***************************************************************************)
(* One approval per shell call (workspaces/approvals.py): the host task of  *)
(* the call stores a pending row, waits in memory, and runs the script when *)
(* the owner's decision, taken in another request, is found in the row.     *)
(* Every transition of a row is a compare-and-swap on "pending"; the owner, *)
(* the host's timer, the host's clean-up and the start-up race for it.      *)
(* Scripts, digests and their ciphers are abstracted: a decision is about   *)
(* the row its author saw.  Starting a service with the same rows is left   *)
(* to the runtime manager and not modelled.                                 *)
(***************************************************************************)
EXTENDS Queues, Naturals, FiniteSets

CONSTANTS
  Calls,       \* shell calls of one workspace: an execution and a tool call id
  Commands,    \* fixed commands of the workspace, which share its command lock
  Deciders,    \* requests of the owner that are in progress at the same time
  MaxCrashes   \* bound: process deaths

ASSUME ApprovalAssumption ==
  /\ IsFiniteSet(Calls) /\ Calls # {}
  /\ IsFiniteSet(Commands) /\ Calls \cap Commands = {}
  /\ MaxCrashes \in Nat

VARIABLES
  status,      \* tool_approval_requests.status of each call
  auth,        \* calls whose execution is still authorised
  late,        \* calls whose row is past expires_at
  failed,      \* calls whose clean-up could not be stored
  phase, crashes,
  pc,          \* of the host task of each call, see HostSet
  throw,       \* calls with a cancellation on the way
  waiters,     \* keys of _waiters
  signal,      \* waiters whose event is set
  lockq,       \* the command lock of the workspace: its holder and who waits
  runs,        \* how often the script of a call was started
  dpc,         \* of the owner's requests: idle, judged, allowed, committed
  dcall, aim   \* what a request decides, and on which call

hostVars == <<pc, throw, waiters, signal, lockq, runs>>
ownerVars == <<dpc, dcall, aim>>
rowVars == <<status, failed>>
worldVars == <<auth, late, phase, crashes>>
vars == <<hostVars, ownerVars, rowVars, worldVars>>

\* creating: the row is being committed; created: publishing; waiting: for the
\* decision; expiring: the timer has fired; reading: the row and the
\* authorisation; locking: command lock and root claim; rechecking: the
\* authorisation under both; closing: clean-up.
HostSet == {"out", "creating", "created", "waiting", "expiring", "reading",
            "locking", "rechecking", "running", "closing"}

WithLock == {"locking", "rechecking", "running"}

Ended == {"approved", "rejected", "expired"}

\* What the fields of an idle request hold.
NoCall == CHOOSE c \in Calls : TRUE

Init ==
  /\ status = [c \in Calls |-> "none"]
  /\ auth = Calls /\ late = {} /\ failed = {}
  /\ phase = "up" /\ crashes = 0
  /\ pc = [c \in Calls |-> "out"]
  /\ throw = {} /\ waiters = {} /\ signal = {}
  /\ lockq = <<>> /\ runs = [c \in Calls |-> 0]
  /\ dpc = [d \in Deciders |-> "idle"]
  /\ dcall = [d \in Deciders |-> NoCall]
  /\ aim = [d \in Deciders |-> "expired"]

-----------------------------------------------------------------------------
\* The row

\* UPDATE ... WHERE status = 'pending'
Swapped(c, s) ==
  IF status[c] = "pending" THEN [status EXCEPT ![c] = s] ELSE status

-----------------------------------------------------------------------------
\* The host: request_and_run

Goto(c, l) == pc' = [pc EXCEPT ![c] = l]

Holds(c) == lockq # <<>> /\ Head(lockq) = c

Unlocked(c) == Without(lockq, c)

\* The waiter is registered before anything else.  A call that is not
\* authorised drops it again.
Start(c) ==
  /\ phase = "up" /\ pc[c] = "out" /\ c \notin waiters /\ c \in auth
  /\ waiters' = waiters \cup {c}
  /\ Goto(c, "creating")
  /\ UNCHANGED <<throw, signal, lockq, runs, ownerVars, rowVars, worldVars>>

\* There is no row: only the waiter is dropped.
LeaveWithoutRow(c) ==
  /\ Goto(c, "out")
  /\ waiters' = waiters \ {c} /\ signal' = signal \ {c}
  /\ throw' = throw \ {c}
  /\ UNCHANGED <<lockq, runs>>

\* create(), shielded: a cancellation is kept until the handle of the row is
\* known.  A second row for the call breaks the unique constraint.
Create(c) ==
  /\ pc[c] = "creating"
  /\ \/ /\ status[c] = "none"
        /\ status' = [status EXCEPT ![c] = "pending"]
        /\ Goto(c, "created")
        /\ UNCHANGED <<throw, waiters, signal, lockq, runs>>
     \/ /\ status[c] # "none"
        /\ LeaveWithoutRow(c)
        /\ UNCHANGED status
  /\ UNCHANGED <<failed, ownerVars, worldVars>>

\* The event is published, then a kept cancellation is raised.
Publish(c) ==
  /\ pc[c] = "created" /\ c \notin throw
  /\ Goto(c, "waiting")
  /\ UNCHANGED <<throw, waiters, signal, lockq, runs, ownerVars, rowVars, worldVars>>

Wake(c) ==
  /\ pc[c] = "waiting" /\ c \notin throw /\ c \in signal
  /\ Goto(c, "reading")
  /\ UNCHANGED <<throw, waiters, signal, lockq, runs, ownerVars, rowVars, worldVars>>

TimerFires(c) ==
  /\ pc[c] = "waiting" /\ c \notin throw /\ c \in late
  /\ Goto(c, "expiring")
  /\ UNCHANGED <<throw, waiters, signal, lockq, runs, ownerVars, rowVars, worldVars>>

\* The host's own decision after the timer; it wakes nobody but itself.
Expire(c) ==
  /\ pc[c] = "expiring" /\ c \notin throw
  /\ status' = Swapped(c, "expired")
  /\ Goto(c, "reading")
  /\ UNCHANGED <<throw, waiters, signal, lockq, runs, failed, ownerVars, worldVars>>

RunsUnlessRejected(c) == status[c] # "rejected"

\* Only the stored row tells whether to go on.
MayRun(c) == status[c] = "approved"

\* The decision and the authorisation are read, then the host queues up for the
\* command lock.
ReadRow(c) ==
  /\ pc[c] = "reading" /\ c \notin throw
  /\ \/ MayRun(c) /\ c \in auth /\ Goto(c, "locking") /\ lockq' = Append(lockq, c)
     \/ ~(MayRun(c) /\ c \in auth) /\ Goto(c, "closing") /\ UNCHANGED lockq
  /\ UNCHANGED <<throw, waiters, signal, runs, ownerVars, rowVars, worldVars>>

\* With the lock, the root is claimed; the claim is granted, or refused within
\* its waiting time, and then the lock is released.
Claim(c) ==
  /\ pc[c] = "locking" /\ c \notin throw /\ Holds(c)
  /\ \/ Goto(c, "rechecking") /\ UNCHANGED lockq
     \/ Goto(c, "closing") /\ lockq' = Unlocked(c)
  /\ UNCHANGED <<throw, waiters, signal, runs, ownerVars, rowVars, worldVars>>

RunUnchecked(c) ==
  /\ pc[c] = "rechecking" /\ c \notin throw
  /\ Goto(c, "running") /\ runs' = [runs EXCEPT ![c] = @ + 1]
  /\ UNCHANGED <<throw, waiters, signal, lockq, ownerVars, rowVars, worldVars>>

\* Authorisation under lock and claim, then run_shell.
Recheck(c) ==
  /\ pc[c] = "rechecking" /\ c \notin throw
  /\ \/ /\ c \in auth
        /\ Goto(c, "running") /\ runs' = [runs EXCEPT ![c] = @ + 1]
        /\ UNCHANGED lockq
     \/ c \notin auth /\ Goto(c, "closing") /\ lockq' = Unlocked(c) /\ UNCHANGED runs
  /\ UNCHANGED <<throw, waiters, signal, ownerVars, rowVars, worldVars>>

\* The script ends or runs into its own time limit.
RunEnds(c) ==
  /\ pc[c] = "running" /\ c \notin throw
  /\ Goto(c, "closing") /\ lockq' = Unlocked(c)
  /\ UNCHANGED <<throw, waiters, signal, runs, ownerVars, rowVars, worldVars>>

\* The cancellation is raised: a running script is killed and reaped, the lock
\* or the place in its queue is given back.
Thrown(c) ==
  /\ c \in throw /\ pc[c] \notin {"out", "creating", "closing"}
  /\ throw' = throw \ {c}
  /\ Goto(c, "closing")
  /\ lockq' = Unlocked(c)
  /\ UNCHANGED <<waiters, signal, runs, ownerVars, rowVars, worldVars>>

\* close_pending(), awaited through every cancellation; the waiter is dropped
\* whether the row could be closed or not.
Close(c) ==
  /\ pc[c] = "closing"
  /\ \/ status' = Swapped(c, "expired") /\ UNCHANGED failed
     \/ status[c] = "pending" /\ failed' = failed \cup {c} /\ UNCHANGED status
  /\ LeaveWithoutRow(c)
  /\ UNCHANGED <<ownerVars, worldVars>>

\* workspace_run_command: queue up for the lock; end, or give up while waiting.
CommandAsks(f) ==
  /\ phase = "up" /\ f \notin Members(lockq)
  /\ lockq' = Append(lockq, f)
  /\ UNCHANGED <<pc, throw, waiters, signal, runs, ownerVars, rowVars, worldVars>>

CommandEnds(f) ==
  /\ f \in Members(lockq)
  /\ lockq' = Unlocked(f)
  /\ UNCHANGED <<pc, throw, waiters, signal, runs, ownerVars, rowVars, worldVars>>

HostStep(c) ==
  \/ Create(c) \/ Publish(c) \/ Wake(c) \/ TimerFires(c) \/ Expire(c)
  \/ ReadRow(c) \/ Claim(c) \/ Recheck(c) \/ RunEnds(c)
  \/ Thrown(c) \/ Close(c)

-----------------------------------------------------------------------------
\* The owner: resolve_approval

\* What a decision amounts to: past the deadline, or with nobody waiting, the
\* row expires.
Judgement(c, decision) ==
  IF c \in late \/ c \notin waiters THEN "expired" ELSE decision

DeciderAt(d, l) == dpc' = [dpc EXCEPT ![d] = l] /\ UNCHANGED <<dcall, aim>>

DeciderLeaves(d) ==
  /\ dpc' = [dpc EXCEPT ![d] = "idle"]
  /\ dcall' = [dcall EXCEPT ![d] = NoCall] /\ aim' = [aim EXCEPT ![d] = "expired"]

\* Read the row, the clock and the waiters.
Judge(d, c, decision) ==
  /\ phase = "up" /\ dpc[d] = "idle" /\ status[c] = "pending"
  /\ dcall' = [dcall EXCEPT ![d] = c]
  /\ aim' = [aim EXCEPT ![d] = Judgement(c, decision)]
  /\ dpc' = [dpc EXCEPT ![d] = "judged"]
  /\ UNCHANGED <<hostVars, rowVars, worldVars>>

\* Authorise an approval; without it the request fails and the row stays.
Authorize(d) ==
  /\ dpc[d] = "judged"
  /\ \/ (aim[d] # "approved" \/ dcall[d] \in auth) /\ DeciderAt(d, "allowed")
     \/ aim[d] = "approved" /\ dcall[d] \notin auth /\ DeciderLeaves(d)
  /\ UNCHANGED <<hostVars, rowVars, worldVars>>

\* The deadline is looked at once more, then the swap.
Commit(d) ==
  /\ dpc[d] = "allowed"
  /\ LET c == dcall[d]
     IN  /\ status' = Swapped(c, IF c \in late THEN "expired" ELSE aim[d])
         /\ \/ status[c] = "pending" /\ DeciderAt(d, "committed")
            \/ status[c] # "pending" /\ DeciderLeaves(d)
  /\ UNCHANGED <<failed, hostVars, worldVars>>

\* After the event is published, the waiter of the call is set, if it exists.
Notify(d) ==
  /\ dpc[d] = "committed"
  /\ signal' = signal \cup ({dcall[d]} \cap waiters)
  /\ DeciderLeaves(d)
  /\ UNCHANGED <<pc, throw, waiters, lockq, runs, rowVars, worldVars>>

\* The request is cancelled or its database call fails, before or after the
\* commit: then nobody sets the waiter.
Abort(d) ==
  /\ dpc[d] # "idle"
  /\ DeciderLeaves(d)
  /\ UNCHANGED <<hostVars, rowVars, worldVars>>

-----------------------------------------------------------------------------
\* The world

\* Time passes; expires_at is set when the row is created.  It matters while the
\* row is pending or the host's timer runs.
Deadline(c) ==
  /\ status[c] = "pending" \/ pc[c] \in {"created", "waiting"}
  /\ c \notin late
  /\ late' = late \cup {c}
  /\ UNCHANGED <<hostVars, ownerVars, rowVars, auth, phase, crashes>>

\* The execution ends, or the role, the workspace or a setting changes.
Revoke(c) ==
  /\ c \in auth
  /\ auth' = auth \ {c}
  /\ UNCHANGED <<hostVars, ownerVars, rowVars, late, phase, crashes>>

\* A cancellation, or a failure at the await the host is in.
Cancel(c) ==
  /\ pc[c] \notin {"out", "closing"} /\ c \notin throw
  /\ throw' = throw \cup {c}
  /\ UNCHANGED <<pc, waiters, signal, lockq, runs, ownerVars, rowVars, worldVars>>

\* The process dies; the rows stay.
Crash ==
  /\ phase = "up" /\ crashes < MaxCrashes
  /\ phase' = "down" /\ crashes' = crashes + 1
  /\ pc' = [c \in Calls |-> "out"]
  /\ throw' = {} /\ waiters' = {} /\ signal' = {} /\ lockq' = <<>>
  /\ dpc' = [d \in Deciders |-> "idle"]
  /\ dcall' = [d \in Deciders |-> NoCall] /\ aim' = [d \in Deciders |-> "expired"]
  /\ UNCHANGED <<runs, rowVars, auth, late>>

\* recover_approvals, before the process serves requests.
Recover ==
  /\ phase = "down"
  /\ phase' = "up"
  /\ status' = [c \in Calls |-> IF status[c] = "pending" THEN "expired" ELSE status[c]]
  /\ UNCHANGED <<hostVars, ownerVars, failed, auth, late, crashes>>

Next ==
  \/ \E c \in Calls :
       \/ Start(c) \/ HostStep(c) \/ Deadline(c) \/ Revoke(c) \/ Cancel(c)
       \/ \E d \in Deciders, decision \in {"approved", "rejected"} : Judge(d, c, decision)
  \/ \E d \in Deciders : Authorize(d) \/ Commit(d) \/ Notify(d) \/ Abort(d)
  \/ \E f \in Commands : CommandAsks(f) \/ CommandEnds(f)
  \/ Crash \/ Recover

Spec == Init /\ [][Next]_vars

-----------------------------------------------------------------------------
\* Properties

\* A script runs only for a row that the owner approved (request_and_run); a
\* rejection, an expiry or a lost race never runs.
RunsApproved == \A c \in Calls : runs[c] > 0 => status[c] = "approved"

\* A call runs once at most: not again by a second request for the same call,
\* and not after a restart that finds the row approved.
AtMostOnce == \A c \in Calls : runs[c] <= 1

\* Authorisation withdrawn while the host waited for the decision, the lock or
\* the claim stops the script.
RunsAuthorized ==
  [][\A c \in Calls : runs'[c] > runs[c] => c \in auth]_vars

\* The lock belongs to calls that want it: it never stays behind with a call
\* that was cancelled, refused or ended, and a script runs only with it.
LockOwned ==
  /\ \A c \in Members(lockq) \cap Calls : pc[c] \in WithLock
  /\ \A c \in Calls : pc[c] \in WithLock \ {"locking"} => Holds(c)

\* A decision is final, whoever decides next (resolve_approval).
DecisionFinal ==
  [][\A c \in Calls : status[c] \in Ended => status'[c] = status[c]]_vars

\* In a running process a pending row has its host, which will close it, unless
\* the clean-up of the host failed.
PendingHosted ==
  phase = "up" =>
    \A c \in Calls : status[c] = "pending" =>
      c \in failed \/ pc[c] \in {"created", "waiting", "expiring", "reading", "closing"}

=============================================================================
