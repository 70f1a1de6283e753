--------------------------- MODULE OwnerHostProofs ---------------------------
(***************************************************************************)
(* What the Owner's requests meet, and what the machine of a backend holds, *)
(* for any number of them.                                                  *)
(*                                                                          *)
(* A script runs only for an approved row, and once at most, for any calls, *)
(* owner requests, commands and process deaths.  The argument follows the   *)
(* row of a call: it is created once, leaves "pending" once, and a host on  *)
(* its way to the script has created the row itself and not run anything.   *)
(*                                                                          *)
(* A conversation runs nothing outside its workspace, and no run outside    *)
(* its appointment.  The argument follows a request past its freeze: the    *)
(* gate it closed keeps the entries it found, and after its drain none; and *)
(* a start past its read, which holds the control lock on what it has read. *)
(*                                                                          *)
(* A server's host that has ended has told its waiters, and has left no     *)
(* tree of a closed server that was opened while no other was; no line of a *)
(* log is lost unless a lease was broken under its maker; a world in use    *)
(* stands unless the clean-up of a failed creation removed it.  The         *)
(* arguments follow one host task, one maintenance and one process each:    *)
(* every lemma about a step says what becomes of that one, and a shared one *)
(* says that the others keep what they rely on.                             *)
(***************************************************************************)
EXTENDS MCOwner, MCHost, QueuesProofs, FiniteSetTheorems

\* What the argument needs of the types.
Typed ==
  /\ status \in [Calls -> {"none", "pending"} \cup Ended]
  /\ pc \in [Calls -> HostSet]
  /\ runs \in [Calls -> Nat]
  /\ aim \in [Deciders -> Ended] /\ dcall \in [Deciders -> Calls]

\* A host that has created its row and not yet started its script.
OnTheWay == {"created", "waiting", "expiring", "reading", "locking", "rechecking"}

\* What is known of one call: the script ran for an approved row only, once, and
\* not before its host came to it.
CallOK(c) ==
  /\ runs[c] > 0 => status[c] = "approved"
  /\ pc[c] \in WithLock => status[c] = "approved"
  /\ pc[c] \in OnTheWay => runs[c] = 0
  /\ runs[c] <= 1

IInv == Typed /\ \A c \in Calls : CallOK(c)

\* A step that moves one host without starting its script keeps the invariant.
LEMMA HostMoves ==
  ASSUME IInv, NEW c \in Calls, NEW l \in HostSet,
         pc' = [pc EXCEPT ![c] = l],
         l \in OnTheWay => pc[c] \in OnTheWay,
         l \in WithLock => status[c] = "approved",
         UNCHANGED <<status, runs, aim, dcall>>
  PROVE  IInv'
  BY DEF IInv, Typed, CallOK, WithLock, OnTheWay

\* A compare-and-swap of one row keeps it, wherever the hosts are.
LEMMA SwapKeeps ==
  ASSUME IInv, NEW c \in Calls, NEW s \in Ended, status' = Swapped(c, s),
         UNCHANGED <<pc, runs>>, aim' \in [Deciders -> Ended], dcall' \in [Deciders -> Calls]
  PROVE  IInv'
  BY DEF IInv, Typed, CallOK, Swapped, WithLock, OnTheWay, Ended

\* Steps that touch neither rows, hosts nor scripts keep it.
LEMMA OthersKeep ==
  ASSUME IInv, UNCHANGED <<status, pc, runs>>,
         aim' \in [Deciders -> Ended], dcall' \in [Deciders -> Calls]
  PROVE  IInv'
  BY DEF IInv, Typed, CallOK

\* The fields of an idle request are well typed.
LEMMA IdleFields ==
  ASSUME Typed, NEW d \in Deciders, DeciderLeaves(d)
  PROVE  aim' \in [Deciders -> Ended] /\ dcall' \in [Deciders -> Calls]
  <1>1. NoCall \in Calls
    BY ApprovalAssumption DEF NoCall
  <1>. QED
    BY <1>1 DEF DeciderLeaves, Typed, Ended

\* Every step of a host.
LEMMA HostKeeps ==
  ASSUME IInv, NEW c \in Calls, HostStep(c)
  PROVE  IInv'
  <1>0. pc[c] \in HostSet
    BY DEF IInv, Typed
  <1>1. CASE Create(c)
    <2>1. CASE status[c] = "none"
      BY <1>1, <2>1 DEF Create, Goto, LeaveWithoutRow, IInv, Typed, CallOK, HostSet,
                        WithLock, OnTheWay, Ended, ownerVars
    <2>2. CASE status[c] # "none"
      <3>1. pc' = [pc EXCEPT ![c] = "out"] /\ UNCHANGED <<status, runs, aim, dcall>>
        BY <1>1, <2>2 DEF Create, Goto, LeaveWithoutRow, ownerVars
      <3>. QED
        BY <3>1, HostMoves DEF OnTheWay, WithLock, HostSet
    <2>. QED
      BY <2>1, <2>2
  <1>2. CASE Publish(c)
    BY <1>2, HostMoves DEF Publish, Goto, HostSet, OnTheWay, WithLock, ownerVars, rowVars
  <1>3. CASE Wake(c)
    BY <1>3, HostMoves DEF Wake, Goto, HostSet, OnTheWay, WithLock, ownerVars, rowVars
  <1>4. CASE TimerFires(c)
    BY <1>4, HostMoves DEF TimerFires, Goto, HostSet, OnTheWay, WithLock, ownerVars, rowVars
  <1>5. CASE Expire(c)
    BY <1>5 DEF Expire, Goto, Swapped, IInv, Typed, CallOK, HostSet, WithLock, OnTheWay,
                Ended, ownerVars
  <1>6. CASE ReadRow(c)
    BY <1>6, HostMoves DEF ReadRow, MayRun, Goto, HostSet, OnTheWay, WithLock, ownerVars, rowVars
  <1>7. CASE Claim(c)
    <2>1. status[c] = "approved"
      BY <1>7 DEF Claim, IInv, CallOK, WithLock
    <2>. QED
      BY <1>7, <2>1, HostMoves DEF Claim, Goto, HostSet, OnTheWay, WithLock, ownerVars, rowVars
  <1>8. CASE Recheck(c)
    <2>1. status[c] = "approved" /\ runs[c] = 0
      BY <1>8 DEF Recheck, IInv, CallOK, WithLock, OnTheWay
    <2>2. CASE Goto(c, "running") /\ runs' = [runs EXCEPT ![c] = @ + 1]
      <3>1. UNCHANGED <<status, aim, dcall>>
        BY <1>8 DEF Recheck, ownerVars, rowVars
      <3>. QED
        BY <2>1, <2>2, <3>1 DEF Goto, IInv, Typed, CallOK, HostSet, WithLock, OnTheWay
    <2>3. CASE Goto(c, "closing") /\ UNCHANGED runs
      <3>1. UNCHANGED <<status, aim, dcall>>
        BY <1>8 DEF Recheck, ownerVars, rowVars
      <3>. QED
        BY <2>3, <3>1, HostMoves DEF Goto, HostSet, OnTheWay, WithLock
    <2>. QED
      BY <1>8, <2>2, <2>3 DEF Recheck
  <1>9. CASE RunEnds(c)
    BY <1>9, HostMoves DEF RunEnds, Goto, HostSet, OnTheWay, WithLock, ownerVars, rowVars
  <1>10. CASE Thrown(c)
    BY <1>10, HostMoves DEF Thrown, Goto, HostSet, OnTheWay, WithLock, ownerVars, rowVars
  <1>11. CASE Close(c)
    BY <1>11 DEF Close, LeaveWithoutRow, Goto, Swapped, IInv, Typed, CallOK, HostSet,
                 WithLock, OnTheWay, Ended, ownerVars
  <1>. QED
    BY <1>1, <1>2, <1>3, <1>4, <1>5, <1>6, <1>7, <1>8, <1>9, <1>10, <1>11 DEF HostStep

\* Every step of the owner's requests.
LEMMA OwnerKeeps ==
  ASSUME IInv, NEW d \in Deciders,
         \/ \E c \in Calls, decision \in {"approved", "rejected"} : Judge(d, c, decision)
         \/ Authorize(d) \/ Commit(d) \/ Notify(d) \/ Abort(d)
  PROVE  IInv'
  <1>0. dcall[d] \in Calls /\ aim[d] \in Ended
    BY DEF IInv, Typed
  <1>1. ASSUME NEW c \in Calls, NEW decision \in {"approved", "rejected"},
               Judge(d, c, decision)
        PROVE  IInv'
    <2>1. aim' \in [Deciders -> Ended] /\ dcall' \in [Deciders -> Calls]
      BY <1>1 DEF Judge, Judgement, IInv, Typed, Ended
    <2>. QED
      BY <1>1, <2>1, OthersKeep DEF Judge, hostVars, rowVars
  <1>2. CASE Authorize(d)
    <2>1. aim' \in [Deciders -> Ended] /\ dcall' \in [Deciders -> Calls]
      BY <1>0, <1>2, IdleFields DEF Authorize, DeciderAt, IInv, Typed
    <2>. QED
      BY <1>2, <2>1, OthersKeep DEF Authorize, hostVars, rowVars
  <1>3. CASE Commit(d)
    <2>1. aim' \in [Deciders -> Ended] /\ dcall' \in [Deciders -> Calls]
      BY <1>0, <1>3, IdleFields DEF Commit, DeciderAt, IInv, Typed
    <2>. DEFINE s == IF dcall[d] \in late THEN "expired" ELSE aim[d]
    <2>2. s \in Ended /\ status' = Swapped(dcall[d], s)
      BY <1>0, <1>3 DEF Commit, Ended
    <2>. QED
      BY <1>0, <1>3, <2>1, <2>2, SwapKeeps DEF Commit, hostVars
  <1>4. CASE Notify(d)
    BY <1>0, <1>4, IdleFields, OthersKeep DEF Notify, IInv, rowVars
  <1>5. CASE Abort(d)
    BY <1>0, <1>5, IdleFields, OthersKeep DEF Abort, IInv, hostVars, rowVars
  <1>. QED
    BY <1>1, <1>2, <1>3, <1>4, <1>5

\* The invariant is inductive.
LEMMA Inductive == IInv /\ [Next]_vars => IInv'
  <1>. SUFFICES ASSUME IInv, [Next]_vars PROVE IInv'
    OBVIOUS
  <1>1. ASSUME NEW c \in Calls, Start(c) PROVE IInv'
    BY <1>1, HostMoves DEF Start, Goto, HostSet, OnTheWay, WithLock, ownerVars, rowVars
  <1>2. ASSUME NEW c \in Calls, HostStep(c) PROVE IInv'
    BY <1>2, HostKeeps
  <1>3. ASSUME NEW c \in Calls, Deadline(c) \/ Revoke(c) \/ Cancel(c) PROVE IInv'
    <2>1. UNCHANGED <<status, pc, runs, aim, dcall>>
      BY <1>3 DEF Deadline, Revoke, Cancel, hostVars, rowVars, ownerVars
    <2>. QED
      BY <2>1, OthersKeep DEF IInv, Typed
  <1>4. ASSUME NEW d \in Deciders,
               \/ \E c \in Calls, decision \in {"approved", "rejected"} : Judge(d, c, decision)
               \/ Authorize(d) \/ Commit(d) \/ Notify(d) \/ Abort(d)
        PROVE  IInv'
    BY <1>4, OwnerKeeps
  <1>5. ASSUME NEW f \in Commands, CommandAsks(f) \/ CommandEnds(f) PROVE IInv'
    <2>1. UNCHANGED <<status, pc, runs, aim, dcall>>
      BY <1>5 DEF CommandAsks, CommandEnds, rowVars, ownerVars
    <2>. QED
      BY <2>1, OthersKeep DEF IInv, Typed
  <1>6. CASE Crash
    <2>1. NoCall \in Calls
      BY ApprovalAssumption DEF NoCall
    <2>. QED
      BY <1>6, <2>1 DEF Crash, rowVars, IInv, Typed, CallOK, HostSet, WithLock, OnTheWay, Ended
  <1>7. CASE Recover
    BY <1>7 DEF Recover, hostVars, ownerVars, IInv, Typed, CallOK, HostSet, WithLock, OnTheWay, Ended
  <1>8. CASE UNCHANGED vars
    BY <1>8, OthersKeep DEF vars, hostVars, ownerVars, rowVars, IInv, Typed
  <1>. QED
    BY <1>1, <1>2, <1>3, <1>4, <1>5, <1>6, <1>7, <1>8 DEF Next

\* The invariant holds in every reachable state.
LEMMA Reachable == Spec => []IInv
  <1>0. NoCall \in Calls
    BY ApprovalAssumption DEF NoCall
  <1>1. Init => IInv
    BY <1>0 DEF Init, IInv, Typed, CallOK, HostSet, WithLock, OnTheWay, Ended
  <1>. QED
    BY <1>1, Inductive, PTL DEF Spec

\* A script runs only for a row the owner approved (request_and_run).
THEOREM OnlyApprovedRun == Spec => []RunsApproved
  <1>1. IInv => RunsApproved
    BY DEF IInv, CallOK, RunsApproved
  <1>. QED
    BY <1>1, Reachable, PTL

\* No call runs twice: neither a repeated request nor a restart replays an
\* approval (request_and_run, recover_approvals).
THEOREM RunsOnce == Spec => []AtMostOnce
  <1>1. IInv => AtMostOnce
    BY DEF IInv, CallOK, AtMostOnce
  <1>. QED
    BY <1>1, Reachable, PTL

\* Authorisation that was withdrawn before the script starts stops it
\* (request_and_run): the last look at it is under the lock and the claim.
THEOREM OnlyAuthorizedRun == Spec => RunsAuthorized
<1> DEFINE Kept == \A c \in Calls : runs'[c] > runs[c] => c \in auth
<1>1. ASSUME IInv, [Next]_vars PROVE [Kept]_vars
  <2> SUFFICES ASSUME NEW c \in Calls, runs'[c] > runs[c] PROVE c \in auth
    OBVIOUS
  <2>0. runs[c] \in Nat
    BY <1>1 DEF IInv, Typed
  <2>1. runs' # runs
    BY <2>0
  <2>2. PICK d \in Calls : Recheck(d)
    BY <1>1, <2>1 DEF Next, HostStep, Start, Create, LeaveWithoutRow, Publish, Wake, TimerFires, Expire,
         ReadRow, Claim, RunEnds, Thrown, Close, Deadline, Revoke, Cancel, Judge, Authorize, Commit,
         Notify, Abort, CommandAsks, CommandEnds, Crash, Recover, hostVars, vars
  <2>3. d \in auth /\ runs' = [runs EXCEPT ![d] = @ + 1]
    BY <2>1, <2>2 DEF Recheck
  <2> QED
    BY <1>1, <2>0, <2>3 DEF IInv, Typed
<1> QED
  BY <1>1, Reachable, PTL DEF Spec, RunsAuthorized

\* The first of a row's decisions stands (resolve_approval, close_pending,
\* recover_approvals): owner, timer, clean-up and start-up cannot undo it.
THEOREM DecisionStands == Spec => DecisionFinal
<1> DEFINE Kept == \A c \in Calls : status[c] \in Ended => status'[c] = status[c]
<1>1. ASSUME IInv, [Next]_vars PROVE [Kept]_vars
  <2> SUFFICES ASSUME NEW c \in Calls, status[c] \in Ended PROVE status'[c] = status[c]
    OBVIOUS
  <2>0. status \in [Calls -> {"none", "pending"} \cup Ended] /\ status[c] # "pending" /\ status[c] # "none"
    BY <1>1 DEF IInv, Typed, Ended
  <2>1. ASSUME NEW d \in Calls, NEW x, status' = Swapped(d, x) PROVE status'[c] = status[c]
    BY <2>0, <2>1 DEF Swapped
  <2>2. ASSUME NEW d \in Calls, Create(d) PROVE status'[c] = status[c]
    BY <2>0, <2>2 DEF Create
  <2>3. ASSUME NEW d \in Deciders, Commit(d) PROVE status'[c] = status[c]
    <3>1. dcall[d] \in Calls
      BY <1>1 DEF IInv, Typed
    <3> QED
      BY <2>1, <2>3, <3>1 DEF Commit
  <2>4. ASSUME NEW d \in Calls, Expire(d) \/ Close(d) PROVE status'[c] = status[c]
    BY <2>1, <2>4 DEF Expire, Close
  <2>5. CASE Recover
    BY <2>0, <2>5 DEF Recover
  <2>6. CASE UNCHANGED status
    BY <2>6
  <2> QED
    BY <1>1, <2>2, <2>3, <2>4, <2>5, <2>6 DEF Next, HostStep, Start, Publish, Wake, TimerFires,
         ReadRow, Claim, Recheck, RunEnds, Thrown, Deadline, Revoke, Cancel, Judge, Authorize,
         Notify, Abort, CommandAsks, CommandEnds, Crash, rowVars, vars
<1> QED
  BY <1>1, Reachable, PTL DEF Spec, DecisionFinal

-----------------------------------------------------------------------------
(***************************************************************************)
(* The command lock of the workspace.                                      *)
(***************************************************************************)
Locked ==
  /\ lockq \in Seq(Calls \cup Commands) /\ Distinct(lockq)
  /\ \A c \in Calls : c \in Members(lockq) <=> pc[c] \in WithLock
  /\ \A c \in Calls : pc[c] \in WithLock \ {"locking"} => Holds(c)

\* Giving up the lock or a place in its queue does not take it from another.
LEMMA UnlockKeeps ==
  ASSUME Typed, Locked, NEW x \in Calls \cup Commands, lockq' = Unlocked(x),
         x \in Calls => pc'[x] \notin WithLock,
         \A c \in Calls : c # x => pc'[c] = pc[c]
  PROVE  Locked'
<1>1. /\ lockq' \in Seq(Calls \cup Commands) /\ Distinct(lockq')
      /\ \A i \in DOMAIN lockq' : lockq'[i] # x /\ lockq'[i] \in Members(lockq)
      /\ \A i \in DOMAIN lockq : lockq[i] # x => lockq[i] \in Members(lockq')
  BY WithoutKeeps DEF Locked, Unlocked
<1>2. Members(lockq') = Members(lockq) \ {x}
  BY <1>1 DEF Members
<1>3. \A c \in Calls : c \in Members(lockq)' <=> pc'[c] \in WithLock
  BY <1>2 DEF Locked
<1>4. ASSUME NEW c \in Calls, pc'[c] \in WithLock \ {"locking"} PROVE Holds(c)'
  <2>1. c # x /\ Holds(c)
    BY <1>4 DEF Locked
  <2>2. lockq # <<>> /\ Head(lockq) = c
    BY <2>1 DEF Holds
  <2> QED
    BY <2>1, <2>2, HeadStays DEF Locked, Unlocked, Holds
<1> QED
  BY <1>1, <1>3, <1>4 DEF Locked

\* Nor does queueing up.
LEMMA QueueUpKeeps ==
  ASSUME Typed, Locked, NEW x \in Calls \cup Commands, x \notin Members(lockq), lockq' = Append(lockq, x),
         x \in Calls => pc'[x] = "locking",
         \A c \in Calls : c # x => pc'[c] = pc[c]
  PROVE  Locked'
<1>1. Members(lockq') = Members(lockq) \cup {x} /\ Distinct(lockq')
  BY AppendDistinct DEF Locked
<1>2. lockq' \in Seq(Calls \cup Commands)
  BY DEF Locked
<1>3. \A c \in Calls : c \in Members(lockq)' <=> pc'[c] \in WithLock
  BY <1>1 DEF Locked, WithLock
<1>4. ASSUME NEW c \in Calls, pc'[c] \in WithLock \ {"locking"} PROVE Holds(c)'
  <2>1. c # x /\ lockq # <<>> /\ Head(lockq) = c
    BY <1>4 DEF Locked, Holds
  <2> QED
    BY <2>1 DEF Locked, Holds
<1> QED
  BY <1>1, <1>2, <1>3, <1>4 DEF Locked

LEMMA MoveKeepsLock ==
  ASSUME Typed, Locked, UNCHANGED lockq,
         \A c \in Calls : /\ pc'[c] \in WithLock <=> pc[c] \in WithLock
                          /\ pc'[c] \in WithLock \ {"locking"} => pc[c] \in WithLock \ {"locking"} \/ Holds(c)
  PROVE  Locked'
<1>1. Members(lockq)' = Members(lockq) /\ Distinct(lockq)'
  BY DEF Locked, Members, Distinct
<1>2. \A c \in Calls : Holds(c)' <=> Holds(c)
  BY DEF Holds
<1>3. \A c \in Calls : c \in Members(lockq)' <=> pc'[c] \in WithLock
  BY <1>1 DEF Locked
<1>4. \A c \in Calls : pc'[c] \in WithLock \ {"locking"} => Holds(c)'
  BY <1>2 DEF Locked
<1> QED
  BY <1>1, <1>3, <1>4 DEF Locked

LEMMA LockStep == IInv /\ Locked /\ [Next]_vars => Locked'
<1> SUFFICES ASSUME IInv, Locked, [Next]_vars PROVE Locked'
  OBVIOUS
<1>0. Typed /\ Calls \cap Commands = {}
  BY ApprovalAssumption DEF IInv
<1>1. ASSUME NEW c \in Calls,
             \/ Start(c) \/ Publish(c) \/ Wake(c) \/ TimerFires(c) \/ Expire(c) \/ Create(c) \/ Close(c)
             \/ Deadline(c) \/ Revoke(c) \/ Cancel(c)
             \/ \E d \in Deciders, decision \in {"approved", "rejected"} : Judge(d, c, decision)
      PROVE  Locked'
  <2>1. UNCHANGED lockq
    BY <1>1 DEF Start, Publish, Wake, TimerFires, Expire, Create, Close, LeaveWithoutRow, Deadline, Revoke,
                Cancel, Judge, hostVars
  <2>2. \A e \in Calls : pc'[e] = pc[e] \/ (pc[e] \notin WithLock /\ pc'[e] \notin WithLock)
    BY <1>0, <1>1 DEF Start, Publish, Wake, TimerFires, Expire, Create, Close, LeaveWithoutRow, Deadline,
                Revoke, Cancel, Judge, hostVars, Goto, WithLock, Typed
  <2> QED
    BY <1>0, <2>1, <2>2, MoveKeepsLock
<1>2. ASSUME NEW c \in Calls, ReadRow(c) PROVE Locked'
  <2>1. c \notin Members(lockq)
    BY <1>2 DEF ReadRow, Locked, WithLock
  <2>2. CASE Goto(c, "locking") /\ lockq' = Append(lockq, c)
    <3>1. pc'[c] = "locking" /\ \A e \in Calls : e # c => pc'[e] = pc[e]
      BY <1>0, <2>2 DEF Goto, Typed
    <3> QED
      BY <1>0, <2>1, <2>2, <3>1, QueueUpKeeps
  <2>3. CASE Goto(c, "closing") /\ UNCHANGED lockq
    <3>1. \A e \in Calls : pc'[e] = pc[e] \/ (pc[e] \notin WithLock /\ pc'[e] \notin WithLock)
      BY <1>0, <1>2, <2>3 DEF ReadRow, Goto, Typed, WithLock
    <3> QED
      BY <1>0, <2>3, <3>1, MoveKeepsLock
  <2> QED
    BY <1>2, <2>2, <2>3 DEF ReadRow
<1>3. ASSUME NEW c \in Calls, Goto(c, "closing"), lockq' = Unlocked(c) PROVE Locked'
  <2>1. pc'[c] = "closing" /\ \A e \in Calls : e # c => pc'[e] = pc[e]
    BY <1>0, <1>3 DEF Goto, Typed
  <2> QED
    BY <1>0, <1>3, <2>1, UnlockKeeps DEF WithLock
<1>4. ASSUME NEW c \in Calls, Claim(c) PROVE Locked'
  <2>1. CASE Goto(c, "rechecking") /\ UNCHANGED lockq
    <3>1. pc[c] = "locking" /\ Holds(c) /\ pc' = [pc EXCEPT ![c] = "rechecking"]
      BY <1>4, <2>1 DEF Claim, Goto
    <3> QED
      BY <1>0, <2>1, <3>1, MoveKeepsLock DEF Typed, WithLock
  <2> QED
    BY <1>3, <1>4, <2>1 DEF Claim
<1>5. ASSUME NEW c \in Calls, Recheck(c) PROVE Locked'
  <2>1. CASE Goto(c, "running") /\ UNCHANGED lockq
    <3>1. pc[c] = "rechecking" /\ pc' = [pc EXCEPT ![c] = "running"]
      BY <1>5, <2>1 DEF Recheck, Goto
    <3> QED
      BY <1>0, <2>1, <3>1, MoveKeepsLock DEF Typed, WithLock
  <2> QED
    BY <1>3, <1>5, <2>1 DEF Recheck
<1>6. ASSUME NEW c \in Calls, RunEnds(c) \/ Thrown(c) PROVE Locked'
  BY <1>3, <1>6 DEF RunEnds, Thrown
<1>7. ASSUME NEW d \in Deciders, Authorize(d) \/ Commit(d) \/ Notify(d) \/ Abort(d) PROVE Locked'
  <2>1. UNCHANGED <<lockq, pc>>
    BY <1>7 DEF Authorize, Commit, Notify, Abort, hostVars
  <2> QED
    BY <1>0, <2>1, MoveKeepsLock
<1>8. ASSUME NEW f \in Commands, CommandAsks(f) \/ CommandEnds(f) PROVE Locked'
  <2>1. f \notin Calls /\ UNCHANGED pc
    BY <1>0, <1>8 DEF CommandAsks, CommandEnds
  <2>2. CASE CommandAsks(f)
    BY <1>0, <2>1, <2>2, QueueUpKeeps DEF CommandAsks
  <2>3. CASE CommandEnds(f)
    BY <1>0, <2>1, <2>3, UnlockKeeps DEF CommandEnds
  <2> QED
    BY <1>8, <2>2, <2>3
<1>9. CASE Crash
  <2>1. lockq' = <<>> /\ \A c \in Calls : pc'[c] = "out"
    BY <1>9 DEF Crash
  <2> QED
    BY <2>1 DEF Locked, Members, Distinct, WithLock
<1>10. CASE Recover \/ UNCHANGED vars
  <2>1. UNCHANGED <<lockq, pc>>
    BY <1>10 DEF Recover, hostVars, vars
  <2> QED
    BY <1>0, <2>1, MoveKeepsLock
<1> QED
  BY <1>1, <1>2, <1>4, <1>5, <1>6, <1>7, <1>8, <1>9, <1>10 DEF Next, HostStep

\* The command lock stays with nobody that has ended and a script runs only
\* under it (operation_lock): no two scripts of a workspace run at once.
THEOREM LockHeld == Spec => [](LockOwned /\ \A c, d \in Calls : pc[c] = "running" /\ pc[d] = "running" => c = d)
<1>1. Init => Locked
  BY DEF Init, Locked, Members, Distinct, WithLock
<1>2. Locked => LockOwned /\ \A c, d \in Calls : pc[c] = "running" /\ pc[d] = "running" => c = d
  BY DEF Locked, LockOwned, Holds, WithLock
<1> QED
  BY <1>1, <1>2, Reachable, LockStep, PTL DEF Spec

-----------------------------------------------------------------------------
LEMMA HostedStep == IInv /\ PendingHosted /\ [Next]_vars => PendingHosted'
<1> SUFFICES ASSUME IInv, PendingHosted, [Next]_vars PROVE PendingHosted'
  OBVIOUS
<1> DEFINE Hosted == {"created", "waiting", "expiring", "reading", "closing"}
<1>0. Typed
  BY DEF IInv
<1>1. ASSUME UNCHANGED <<phase, failed, status>>,
             \A c \in Calls : status[c] = "pending" /\ pc[c] \in Hosted => pc'[c] \in Hosted
      PROVE  PendingHosted'
  BY <1>1 DEF PendingHosted
<1>2. ASSUME NEW c \in Calls,
             \/ Start(c) \/ Publish(c) \/ Wake(c) \/ TimerFires(c) \/ Thrown(c)
             \/ ReadRow(c) \/ Claim(c) \/ Recheck(c) \/ RunEnds(c)
      PROVE  PendingHosted'
  <2>1. UNCHANGED <<phase, failed, status>>
    BY <1>2 DEF Start, Publish, Wake, TimerFires, Thrown, ReadRow, Claim, Recheck, RunEnds, rowVars, worldVars
  <2>2. \A e \in Calls : e # c => pc'[e] = pc[e]
    BY <1>0, <1>2 DEF Start, Publish, Wake, TimerFires, Thrown, ReadRow, Claim, Recheck, RunEnds, Goto, Typed
  <2>3. status[c] = "pending" /\ pc[c] \in Hosted => pc'[c] \in Hosted
    BY <1>0, <1>2 DEF Start, Publish, Wake, TimerFires, Thrown, ReadRow, MayRun, Claim, Recheck, RunEnds,
                      Goto, Typed
  <2> QED
    BY <1>1, <2>1, <2>2, <2>3
<1>3. ASSUME NEW c \in Calls, Create(c) PROVE PendingHosted'
  BY <1>0, <1>3 DEF Create, LeaveWithoutRow, Goto, worldVars, Typed, PendingHosted
<1>4. ASSUME NEW c \in Calls, Expire(c) PROVE PendingHosted'
  BY <1>0, <1>4 DEF Expire, Swapped, Goto, worldVars, Typed, PendingHosted
<1>5. ASSUME NEW c \in Calls, Close(c) PROVE PendingHosted'
  BY <1>0, <1>5 DEF Close, LeaveWithoutRow, Swapped, Goto, worldVars, Typed, PendingHosted
<1>6. ASSUME NEW d \in Deciders, Commit(d) PROVE PendingHosted'
  <2>1. dcall[d] \in Calls /\ UNCHANGED <<phase, failed, pc>>
    BY <1>0, <1>6 DEF Commit, hostVars, worldVars, Typed
  <2>2. \A c \in Calls : status'[c] = "pending" => status[c] = "pending"
    BY <1>0, <1>6, <2>1 DEF Commit, Swapped, Typed
  <2> QED
    BY <2>1, <2>2 DEF PendingHosted
<1>7. ASSUME UNCHANGED <<phase, failed, status, pc>> PROVE PendingHosted'
  BY <1>7 DEF PendingHosted
<1>8. CASE Crash
  BY <1>8 DEF Crash, PendingHosted
<1>9. CASE Recover
  BY <1>0, <1>9 DEF Recover, PendingHosted
<1> QED
  BY <1>2, <1>3, <1>4, <1>5, <1>6, <1>7, <1>8, <1>9
     DEF Next, HostStep, Deadline, Revoke, Cancel, Judge, Authorize, Notify, Abort, CommandAsks, CommandEnds,
         hostVars, ownerVars, rowVars, worldVars, vars

\* A row is not left pending (request_and_run, recover_approvals): its host is
\* there and will close it, unless the clean-up of the host could not be stored.
THEOREM NotLeftPending == Spec => []PendingHosted
<1>1. Init => PendingHosted
  BY DEF Init, PendingHosted
<1> QED
  BY <1>1, Reachable, HostedStep, PTL DEF Spec
-----------------------------------------------------------------------------
(* The conversation                                                         *)

Rows == [kind : {"single", "group"}, st : {V!None, "kept", "bin", "gone"}, ws : Spaces \cup {V!None}, rev : Nat,
         members : SUBSET Roles, coord : Roles \cup {V!None}, app : Nat, old : BOOLEAN]

Stages == {"idle", "freeze", "drain", "apply", "unbind", "alone", "control", "stop", "insert", "start"}

Handlers == [pc : Stages, job : V!Jobs \cup {V!None}, space : Spaces \cup {V!None}, roles : SUBSET Roles,
             coord : Roles \cup {V!None}, exp : Nat, confirm : BOOLEAN,
             targets : SUBSET (Spaces \cup Roles), seen : Nat]

Runs == [st : {V!None, "active", "stopping", "over"}, app : Nat, coord : Roles \cup {V!None},
         space : Spaces \cup {V!None}]

ConvTyped ==
  /\ conv \in Rows
  /\ space \in [Spaces -> {"on", "off", "gone"}] /\ role \in [Roles -> {"on", "off", "gone"}]
  /\ run \in Runs /\ live \subseteq Spaces /\ op \in [V!Scopes -> {V!None, "running", "failed"}]
  /\ locks \in [cleanup : Requests \cup {V!None}, control : Requests \cup {V!None}]
  /\ req \in [Requests -> Handlers] /\ calls \in Nat

\* What a request does at each of its steps, and where it finds its workspace.
JobOK(q) ==
  /\ q.pc \in {"freeze", "drain", "apply"} => q.job \in {"rebind", "delete", "disable", "discard"}
  /\ q.pc = "unbind" => q.job = "discard"
  /\ q.pc = "alone" => q.job \in {"rebind", "enable"}
  /\ q.job \in {"disable", "enable", "discard"} => q.space \in Spaces

\* A request that is past its freeze holds the lock of the clean-ups, keeps the gate of its scope
\* closed, and finds no entry there that it has not frozen, or none at all once it has drained.
GateOK ==
  \A r \in Requests :
    /\ JobOK(req[r])
    /\ req[r].pc \in {"drain", "apply", "unbind"} =>
         locks.cleanup = r /\ op[V!ScopeOf(req[r])] = "running"
    /\ req[r].pc = "drain" => V!EntriesOf(V!ScopeOf(req[r])) \subseteq req[r].targets
    /\ req[r].pc \in {"apply", "unbind"} => V!EntriesOf(V!ScopeOf(req[r])) = {}

\* The workspace of a request is no more, for good.
Vanished(q) == q.space \in Spaces /\ space[q.space] = "gone"

\* A request that rebinds to the workspace the conversation has finds it there or fails: at the
\* revision it saw, the binding is the one it saw.  A deleted workspace may set the revision back.
BindingOK ==
  /\ \A r \in Requests : req[r].pc = "alone" /\ req[r].job = "rebind" /\ ~Vanished(req[r]) =>
       req[r].exp <= conv.rev /\ (req[r].exp = conv.rev => conv.ws = req[r].space)
  /\ \A r \in Requests : req[r].pc = "unbind" /\ req[r].seen > 0 =>
       /\ conv.ws = req[r].space
       /\ \A h \in Requests : req[h].pc = "alone" /\ req[h].job = "rebind" /\ ~Vanished(req[h]) =>
            req[h].exp < req[r].seen \/ req[h].space = req[r].space

\* Before the conversation is made nothing is bound to it.
UnmadeOK ==
  conv.st = V!None =>
    /\ conv.ws = V!None /\ run.st # "active"
    /\ \A r \in Requests : req[r].job \in {V!None, "disable", "enable", "discard"} /\ req[r].pc # "start"

\* A start holds the control lock on the appointment it has read.
StartOK ==
  \A r \in Requests : req[r].pc = "start" =>
    /\ locks.control = r /\ req[r].exp = conv.app /\ req[r].coord = conv.coord
    /\ conv.coord \in conv.members /\ role[conv.coord] = "on"

ConvInv == ConvTyped /\ GateOK /\ BindingOK /\ UnmadeOK /\ StartOK /\ V!RunsWhereBound /\ V!AppointedRun

-----------------------------------------------------------------------------

Gated(q) == q.pc \in {"drain", "apply", "unbind"}

\* A request that rebinds in place.
InPlace(q) == q.pc = "alone" /\ q.job = "rebind" /\ ~Vanished(q)

LEMMA TypedRequests ==
  ASSUME ConvInv, NEW r \in Requests
  PROVE  /\ req[r] \in Handlers /\ JobOK(req[r]) /\ req \in [Requests -> Handlers]
         /\ conv \in Rows /\ run \in Runs /\ live \subseteq Spaces /\ conv.rev \in Nat
BY DEF ConvInv, ConvTyped, GateOK, Rows

LEMMA NoRequestTyped == V!NoRequest \in Handlers /\ JobOK(V!NoRequest)
<1>1. V!NoRequest \in Handlers
  BY DEF V!NoRequest, Handlers, Stages
<1>2. V!NoRequest.pc = "idle" /\ V!NoRequest.job = "none"
  BY DEF V!NoRequest, V!None
<1> QED
  BY <1>1, <1>2 DEF JobOK

\* A step that binds the conversation to nothing else, moves no request to a clean-up, and takes
\* no entry into a scope that is being cleaned up.
LEMMA Still ==
  ASSUME ConvInv, ConvTyped', V!RunsWhereBound', V!AppointedRun',
         \A r \in Requests :
           \/ req'[r] = req[r]
           \/ req'[r].pc \in {"idle", "stop"} /\ JobOK(req'[r]) /\ req'[r].job \in {V!None, req[r].job},
         \A r \in Requests : Gated(req'[r]) =>
           /\ locks'.cleanup = r /\ op'[V!ScopeOf(req[r])] = "running"
           /\ \A x \in live' : x \in live \/ V!ScopeOf(req[r]) \notin {x, V!Conv},
         \A s \in Spaces : space[s] = "gone" => space'[s] = "gone",
         conv'.ws = conv.ws, conv'.rev >= conv.rev, conv'.st = V!None <=> conv.st = V!None,
         conv.st = V!None => run'.st # "active",
         \A r \in Requests : req'[r].pc = "start" =>
           /\ locks'.control = r /\ conv'.app = conv.app /\ conv'.coord = conv.coord
           /\ conv'.members = conv.members /\ role' = role
  PROVE  ConvInv'
<1>0. ConvTyped /\ GateOK /\ BindingOK /\ UnmadeOK /\ StartOK
  BY DEF ConvInv
<1>1. \A r \in Requests : req'[r].pc \notin {"idle", "stop"} => req'[r] = req[r]
  OBVIOUS
<1>2. GateOK'
  <2> SUFFICES ASSUME NEW r \in Requests
               PROVE  /\ JobOK(req[r])'
                      /\ Gated(req[r])' => locks'.cleanup = r /\ op'[V!ScopeOf(req[r])'] = "running"
                      /\ req'[r].pc = "drain" => V!EntriesOf(V!ScopeOf(req[r]))' \subseteq req'[r].targets
                      /\ req'[r].pc \in {"apply", "unbind"} => V!EntriesOf(V!ScopeOf(req[r]))' = {}
    BY DEF GateOK, Gated
  <2>1. JobOK(req[r])'
    <3>1. JobOK(req'[r])
      BY <1>0 DEF GateOK
    <3> QED
      BY <3>1 DEF JobOK
  <2>2. ASSUME Gated(req'[r])
        PROVE  /\ req'[r] = req[r] /\ V!ScopeOf(req[r])' = V!ScopeOf(req[r])
               /\ V!EntriesOf(V!ScopeOf(req[r]))' \subseteq V!EntriesOf(V!ScopeOf(req[r]))
    <3>1. req'[r] = req[r]
      BY <1>1, <2>2 DEF Gated
    <3>2. V!ScopeOf(req[r])' = V!ScopeOf(req[r])
      BY <3>1 DEF V!ScopeOf
    <3>3. V!EntriesOf(V!ScopeOf(req[r]))' \subseteq V!EntriesOf(V!ScopeOf(req[r]))
      BY <2>2, <3>2 DEF V!EntriesOf
    <3> QED
      BY <3>1, <3>2, <3>3
  <2> QED
    BY <1>0, <2>1, <2>2 DEF GateOK, Gated
<1>3. BindingOK'
  <2>1. \A r \in Requests : InPlace(req[r])' => InPlace(req[r]) /\ req'[r] = req[r]
    BY <1>1 DEF InPlace, Vanished
  <2>2. \A r \in Requests : req[r].exp \in Nat
    BY <1>0 DEF ConvTyped, Handlers
  <2>3. conv.rev \in Nat /\ conv'.rev \in Nat
    BY <1>0 DEF ConvTyped, Rows
  <2>4. ASSUME NEW r \in Requests, InPlace(req[r])'
        PROVE  req'[r].exp <= conv'.rev /\ (req'[r].exp = conv'.rev => conv'.ws = req'[r].space)
    BY <1>0, <2>1, <2>2, <2>3, <2>4 DEF BindingOK, InPlace
  <2>5. ASSUME NEW r \in Requests, req'[r].pc = "unbind", req'[r].seen > 0
        PROVE  /\ conv'.ws = req'[r].space
               /\ \A h \in Requests : InPlace(req[h])' => req'[h].exp < req'[r].seen \/
                    req'[h].space = req'[r].space
    BY <1>0, <1>1, <2>1, <2>5 DEF BindingOK, InPlace
  <2> QED
    BY <2>4, <2>5 DEF BindingOK, InPlace
<1>4. UnmadeOK'
  BY <1>0 DEF UnmadeOK
<1>5. StartOK'
  BY <1>0, <1>1 DEF StartOK
<1> QED
  BY <1>2, <1>3, <1>4, <1>5 DEF ConvInv

\* A new request that has not begun to change anything.
LEMMA Asked ==
  ASSUME ConvInv, NEW r \in Requests, NEW q \in Handlers, V!Ask(r, q), JobOK(q),
         q.pc \in {"freeze", "alone", "control", "insert"},
         InPlace(q) => q.exp = conv.rev /\ q.space = conv.ws,
         conv.st = V!None => q.job \in {"disable", "enable", "discard"}
  PROVE  ConvInv'
<1>0. /\ ConvTyped /\ GateOK /\ BindingOK /\ UnmadeOK /\ StartOK /\ V!RunsWhereBound /\ V!AppointedRun
      /\ UNCHANGED <<conv, space, role, gens, run, live, op, locks, events>>
  BY DEF ConvInv, V!Ask
<1>1. /\ req' \in [Requests -> Handlers] /\ req'[r] = q
      /\ \A h \in Requests : h # r => req'[h] = req[h]
  BY <1>0 DEF V!Ask, ConvTyped
<1>2. ConvTyped'
  BY <1>0, <1>1 DEF ConvTyped, V!Ask
<1>3. GateOK'
  <2>1. \A h \in Requests : JobOK(req'[h])
    BY <1>0, <1>1 DEF GateOK
  <2>2. \A h \in Requests : Gated(req'[h]) => req'[h] = req[h] /\ h # r
    BY <1>1 DEF Gated
  <2> QED
    BY <1>0, <2>1, <2>2 DEF GateOK, Gated, JobOK, V!ScopeOf, V!EntriesOf
<1>4. BindingOK'
  <2>1. \A h \in Requests : InPlace(req[h])' <=> InPlace(req'[h])
    BY <1>0 DEF InPlace, Vanished
  <2>2. conv.rev \in Nat
    BY <1>0 DEF ConvTyped, Rows
  <2>3. ASSUME NEW h \in Requests, InPlace(req'[h])
        PROVE  req'[h].exp <= conv.rev /\ (req'[h].exp = conv.rev => conv.ws = req'[h].space)
    BY <1>0, <1>1, <2>2, <2>3 DEF BindingOK, InPlace
  <2>4. ASSUME NEW g \in Requests, req'[g].pc = "unbind", req'[g].seen > 0
        PROVE  /\ conv.ws = req'[g].space
               /\ \A h \in Requests : InPlace(req'[h]) => req'[h].exp < req'[g].seen \/
                    req'[h].space = req'[g].space
    BY <1>0, <1>1, <2>4 DEF BindingOK, InPlace
  <2> QED
    BY <1>0, <2>1, <2>3, <2>4 DEF BindingOK, InPlace
<1>5. UnmadeOK' /\ StartOK'
  BY <1>0, <1>1 DEF UnmadeOK, StartOK
<1>6. V!RunsWhereBound' /\ V!AppointedRun'
  BY <1>0 DEF V!RunsWhereBound, V!AppointedRun, V!Kept
<1> QED
  BY <1>2, <1>3, <1>4, <1>5, <1>6 DEF ConvInv

\* The requests of the Owner.
LEMMA Asks ==
  ASSUME ConvInv, NEW r \in Requests,
         \/ \E s \in Spaces \cup {V!None}, confirm \in BOOLEAN : V!AskRebind(r, s, confirm)
         \/ \E confirm \in BOOLEAN : V!AskDelete(r, confirm)
         \/ \E job \in {"enable", "disable", "discard"}, s \in Spaces, confirm \in BOOLEAN :
              V!AskSpace(r, job, s, confirm)
         \/ \E x \in Roles \cup {V!None} : V!AskAppoint(r, x)
         \/ \E members \in SUBSET Roles : V!AskMembers(r, members)
         \/ \E targets \in SUBSET conv.members : V!AskSend(r, targets)
  PROVE  ConvInv'
<1>0. /\ conv \in Rows /\ conv.rev \in Nat /\ calls \in Nat /\ V!NoRequest \in Handlers
      /\ conv.members \subseteq Roles
  BY NoRequestTyped DEF ConvInv, ConvTyped, Rows
<1>1. ASSUME NEW s \in Spaces \cup {V!None}, NEW confirm \in BOOLEAN, V!AskRebind(r, s, confirm)
      PROVE ConvInv'
  <2> DEFINE at == IF conv.ws = s THEN "alone" ELSE "freeze"
             q == [V!NoRequest EXCEPT !.pc = at, !.job = "rebind", !.space = s, !.exp = conv.rev, !.confirm = confirm]
  <2>1. V!Ask(r, q) /\ conv.st # V!None
    BY <1>1 DEF V!AskRebind, V!Kept, V!None
  <2>2. at \in {"alone", "freeze"} /\ (at = "alone" => s = conv.ws)
    OBVIOUS
  <2> HIDE DEF at
  <2>3. q \in Handlers /\ q.pc = at /\ q.job = "rebind" /\ q.space = s /\ q.exp = conv.rev
    BY <1>0, <2>2 DEF Handlers, Stages, V!Jobs
  <2> HIDE DEF q
  <2>4. JobOK(q)
    BY <2>2, <2>3 DEF JobOK
  <2> QED
    BY <2>1, <2>2, <2>3, <2>4, Asked DEF InPlace
<1>2. ASSUME NEW confirm \in BOOLEAN, V!AskDelete(r, confirm) PROVE ConvInv'
  <2> DEFINE q == [V!NoRequest EXCEPT !.pc = "freeze", !.job = "delete", !.confirm = confirm]
  <2>1. V!Ask(r, q) /\ conv.st # V!None
    BY <1>2 DEF V!AskDelete, V!Kept, V!None
  <2>2. q \in Handlers /\ q.pc = "freeze" /\ q.job = "delete"
    BY <1>0 DEF Handlers, Stages, V!Jobs
  <2> HIDE DEF q
  <2>3. JobOK(q)
    BY <2>2 DEF JobOK
  <2> QED
    BY <2>1, <2>2, <2>3, Asked DEF InPlace
<1>3. ASSUME NEW job \in {"enable", "disable", "discard"}, NEW s \in Spaces, NEW confirm \in BOOLEAN,
             V!AskSpace(r, job, s, confirm)
      PROVE  ConvInv'
  <2> DEFINE at == IF job = "enable" THEN "alone" ELSE "freeze"
             q == [V!NoRequest EXCEPT !.pc = at, !.job = job, !.space = s, !.confirm = confirm]
  <2>1. V!Ask(r, q)
    BY <1>3 DEF V!AskSpace
  <2>2. at \in {"alone", "freeze"} /\ (at = "alone" <=> job = "enable")
    OBVIOUS
  <2> HIDE DEF at
  <2>3. q \in Handlers /\ q.pc = at /\ q.job = job /\ q.space = s
    BY <1>0, <2>2 DEF Handlers, Stages, V!Jobs
  <2> HIDE DEF q
  <2>4. JobOK(q) /\ q.job # "rebind"
    BY <2>2, <2>3 DEF JobOK
  <2> QED
    BY <2>1, <2>2, <2>3, <2>4, Asked DEF InPlace
<1>4. ASSUME NEW x \in Roles \cup {V!None}, V!AskAppoint(r, x) PROVE ConvInv'
  <2> DEFINE q == [V!NoRequest EXCEPT !.pc = "control", !.job = "appoint", !.coord = x, !.exp = conv.rev]
  <2>1. V!Ask(r, q) /\ conv.st # V!None
    BY <1>4 DEF V!AskAppoint, V!Kept, V!None
  <2>2. q \in Handlers /\ q.pc = "control" /\ q.job = "appoint"
    BY <1>0 DEF Handlers, Stages, V!Jobs
  <2> HIDE DEF q
  <2>3. JobOK(q)
    BY <2>2 DEF JobOK
  <2> QED
    BY <2>1, <2>2, <2>3, Asked DEF InPlace
<1>5. ASSUME NEW members \in SUBSET Roles, V!AskMembers(r, members) PROVE ConvInv'
  <2> DEFINE q == [V!NoRequest EXCEPT !.pc = "control", !.job = "members", !.roles = members, !.exp = conv.rev]
  <2>1. V!Ask(r, q) /\ conv.st # V!None
    BY <1>5 DEF V!AskMembers, V!Kept, V!None
  <2>2. q \in Handlers /\ q.pc = "control" /\ q.job = "members"
    BY <1>0 DEF Handlers, Stages, V!Jobs
  <2> HIDE DEF q
  <2>3. JobOK(q)
    BY <2>2 DEF JobOK
  <2> QED
    BY <2>1, <2>2, <2>3, Asked DEF InPlace
<1>6. ASSUME NEW targets \in SUBSET conv.members, V!AskSend(r, targets) PROVE ConvInv'
  <2> DEFINE n == calls + 1
             q == [V!NoRequest EXCEPT !.pc = "insert", !.job = "send", !.targets = targets, !.exp = n]
  <2>1. V!Ask(r, q) /\ conv.st # V!None
    BY <1>6 DEF V!AskSend, V!Kept, V!None
  <2>a. n \in Nat /\ targets \in SUBSET (Spaces \cup Roles)
    BY <1>0
  <2> HIDE DEF n
  <2>2. q \in Handlers /\ q.pc = "insert" /\ q.job = "send"
    BY <1>0, <2>a DEF Handlers, Stages, V!Jobs
  <2> HIDE DEF q
  <2>3. JobOK(q)
    BY <2>2 DEF JobOK
  <2> QED
    BY <2>1, <2>2, <2>3, Asked DEF InPlace
<1> QED
  BY <1>1, <1>2, <1>3, <1>4, <1>5, <1>6

-----------------------------------------------------------------------------

\* The scope of a clean-up is one of the gates.
LEMMA ScopeKnown ==
  ASSUME ConvInv, NEW r \in Requests, req[r].pc \in {"freeze", "drain", "apply", "unbind"}
  PROVE  /\ V!ScopeOf(req[r]) \in V!Scopes
         /\ req[r].job \in {"rebind", "delete"} => V!ScopeOf(req[r]) = V!Conv
         /\ req[r].job \in {"disable", "discard"} => V!ScopeOf(req[r]) = req[r].space /\
              req[r].space \in Spaces
BY TypedRequests DEF JobOK, V!ScopeOf, V!Scopes

\* Where one request goes, the others stay.
LEMMA Moved ==
  ASSUME ConvInv, NEW r \in Requests, NEW q \in Handlers, req' = [req EXCEPT ![r] = q]
  PROVE  req' \in [Requests -> Handlers] /\ req'[r] = q /\ \A h \in Requests : h # r => req'[h] = req[h]
BY TypedRequests

LEMMA Steered ==
  ASSUME ConvInv, NEW r \in Requests, NEW at \in Stages, req' = V!At(r, at)
  PROVE  /\ req' \in [Requests -> Handlers] /\ req'[r] = [req[r] EXCEPT !.pc = at] /\ req'[r].pc = at
         /\ req'[r].job = req[r].job /\ req'[r].space = req[r].space
         /\ \A h \in Requests : h # r => req'[h] = req[h]
<1>1. req[r] \in Handlers /\ req \in [Requests -> Handlers]
  BY TypedRequests
<1>2. [req[r] EXCEPT !.pc = at] \in Handlers
  BY <1>1 DEF Handlers
<1>3. req' = [req EXCEPT ![r] = [req[r] EXCEPT !.pc = at]]
  BY <1>1 DEF V!At
<1> QED
  BY <1>1, <1>2, <1>3, Moved DEF Handlers

LEMMA Done ==
  ASSUME ConvInv, NEW r \in Requests, req' = V!Finished(r)
  PROVE  /\ req' \in [Requests -> Handlers] /\ req'[r] = V!NoRequest
         /\ req'[r].pc = "idle" /\ req'[r].job = V!None /\ JobOK(req'[r])
         /\ \A h \in Requests : h # r => req'[h] = req[h]
<1>1. req' \in [Requests -> Handlers] /\ req'[r] = V!NoRequest /\ \A h \in Requests : h # r =>
        req'[h] = req[h]
  BY NoRequestTyped, Moved DEF V!Finished
<1> QED
  BY <1>1, NoRequestTyped DEF V!NoRequest

\* Only one request is cleaning up, and a scope that ends leaves none.
LEMMA OneCleanup ==
  ASSUME ConvInv, NEW r \in Requests, Gated(req[r]), NEW h \in Requests, Gated(req[h])
  PROVE  r = h
BY DEF ConvInv, GateOK, Gated

LEMMA NoCleanup ==
  ASSUME ConvInv, locks.cleanup = V!None, NEW r \in Requests
  PROVE  ~Gated(req[r])
BY OwnerAssumption DEF ConvInv, GateOK, Gated

LEMMA ScopeEnds ==
  ASSUME ConvInv, NEW r \in Requests, Gated(req[r]), NEW success \in BOOLEAN, V!EndScope(r, success)
  PROVE  /\ req' \in [Requests -> Handlers] /\ req'[r] = V!NoRequest
         /\ req'[r].pc = "idle" /\ req'[r].job = V!None /\ JobOK(req'[r])
         /\ \A h \in Requests : h # r => req'[h] = req[h]
         /\ op' \in [V!Scopes -> {V!None, "running", "failed"}]
         /\ locks' \in [cleanup : Requests \cup {V!None}, control : Requests \cup {V!None}]
         /\ locks'.control = locks.control
         /\ \A h \in Requests : ~Gated(req'[h])
<1>1. req' = V!Finished(r)
  BY DEF V!EndScope
<1>2. op' \in [V!Scopes -> {V!None, "running", "failed"}]
  BY DEF V!EndScope, ConvInv, ConvTyped
<1>3. /\ locks' \in [cleanup : Requests \cup {V!None}, control : Requests \cup {V!None}]
      /\ locks'.control = locks.control
  BY DEF V!EndScope, ConvInv, ConvTyped
<1>4. \A h \in Requests : ~Gated(req'[h])
  BY <1>1, Done, OneCleanup DEF Gated
<1> QED
  BY <1>1, <1>2, <1>3, <1>4, Done

\* A run whose appointment is closed dispatches no more.
LEMMA Revoked ==
  ASSUME ConvInv
  PROVE  V!RevokeRuns \in Runs /\ V!RevokeRuns.st # "active"
BY DEF ConvInv, ConvTyped, V!RevokeRuns, V!RunActive, Runs

\* No start is under way while the control lock is free.
LEMMA NoStart ==
  ASSUME ConvInv, locks.control = V!None, NEW r \in Requests
  PROVE  req[r].pc # "start"
BY OwnerAssumption DEF ConvInv, StartOK

-----------------------------------------------------------------------------

LEMMA CreateKeeps ==
  ASSUME ConvInv, NEW members \in SUBSET Roles, NEW coord \in Roles \cup {V!None},
           NEW s \in Spaces \cup {V!None},
         V!Create(members, coord, s)
  PROVE  ConvInv'
<1>0. /\ ConvTyped /\ GateOK /\ BindingOK /\ UnmadeOK /\ StartOK /\ V!RunsWhereBound /\ V!AppointedRun
      /\ UNCHANGED <<space, role, gens, run, live, op, locks, req, calls, events>>
      /\ conv.st = V!None /\ conv' = [conv EXCEPT !.st = "kept", !.ws = s, !.members = members, !.coord = coord]
  BY DEF ConvInv, V!Create
<1>1. /\ conv' \in Rows /\ conv'.st = "kept" /\ conv'.rev = conv.rev
  BY <1>0 DEF ConvTyped, Rows
<1>2. ConvTyped'
  BY <1>0, <1>1 DEF ConvTyped
<1>3. GateOK'
  BY <1>0 DEF GateOK, JobOK, V!ScopeOf, V!EntriesOf
<1>4. conv.ws = V!None /\ run.st # "active" /\ live = {}
  BY <1>0 DEF UnmadeOK, V!RunsWhereBound, V!Kept, V!None
<1>5. \A r \in Requests : req[r].job \in {V!None, "disable", "enable", "discard"} /\ req[r].pc # "start"
  BY <1>0 DEF UnmadeOK
<1>6. BindingOK'
  <2>1. \A r \in Requests : req[r].job # "rebind"
    BY <1>5 DEF V!None
  <2>2. \A r \in Requests : req[r].pc = "unbind" => req[r].space \in Spaces
    BY <1>0 DEF GateOK, JobOK
  <2>3. \A r \in Requests : ~(req[r].pc = "unbind" /\ req[r].seen > 0)
    BY <1>0, <1>4, <2>2, OwnerAssumption DEF BindingOK
  <2> QED
    BY <1>0, <2>1, <2>3 DEF BindingOK, Vanished
<1>7. UnmadeOK'
  BY <1>1 DEF UnmadeOK, V!None
<1>8. StartOK' /\ V!RunsWhereBound' /\ V!AppointedRun'
  BY <1>0, <1>4, <1>5 DEF StartOK, V!RunsWhereBound, V!AppointedRun
<1> QED
  BY <1>2, <1>3, <1>6, <1>7, <1>8 DEF ConvInv

\* A request that takes the lock of the clean-ups, or is refused under it.
LEMMA FreezeKeeps ==
  ASSUME ConvInv, NEW r \in Requests, V!Freeze(r)
  PROVE  ConvInv'
<1> DEFINE q == req[r]  entries == V!EntriesOf(V!ScopeOf(q))
<1>0. /\ ConvTyped /\ GateOK /\ BindingOK /\ UnmadeOK /\ StartOK /\ V!RunsWhereBound /\ V!AppointedRun
      /\ UNCHANGED <<conv, space, role, gens, run, live, calls, events>>
      /\ q.pc = "freeze" /\ locks.cleanup = V!None
      /\ q \in Handlers /\ JobOK(q)
  BY TypedRequests DEF ConvInv, V!Freeze
<1>1. CASE req' = V!Finished(r) /\ UNCHANGED <<op, locks>>
  <2>1. ConvTyped' /\ V!RunsWhereBound' /\ V!AppointedRun'
    BY <1>0, <1>1, Done DEF ConvTyped, V!RunsWhereBound, V!AppointedRun, V!Kept
  <2>2. \A h \in Requests : ~Gated(req'[h]) /\ req'[h].pc \in {"idle", req[h].pc}
    BY <1>0, <1>1, Done, NoCleanup DEF Gated
  <2>3. \A h \in Requests :
          \/ req'[h] = req[h]
          \/ req'[h].pc \in {"idle", "stop"} /\ JobOK(req'[h]) /\ req'[h].job \in {V!None, req[h].job}
    BY <1>1, Done
  <2>4. \A h \in Requests : req'[h].pc = "start" => locks'.control = h
    BY <1>0, <1>1, <2>2 DEF StartOK
  <2>5. conv'.rev >= conv.rev
    BY <1>0 DEF ConvTyped, Rows
  <2>6. conv.st = V!None => run'.st # "active"
    BY <1>0 DEF UnmadeOK
  <2> QED
    BY <1>0, <2>1, <2>2, <2>3, <2>4, <2>5, <2>6, Still
<1>2. CASE /\ op' = [op EXCEPT ![V!ScopeOf(q)] = "running"]
           /\ locks' = [locks EXCEPT !.cleanup = r]
           /\ req' = [req EXCEPT ![r].pc = "drain", ![r].targets = entries]
  <2> DEFINE next == [q EXCEPT !.pc = "drain", !.targets = entries]
  <2>1. entries \subseteq Spaces /\ V!ScopeOf(q) \in V!Scopes
    BY <1>0, ScopeKnown DEF V!EntriesOf, ConvTyped
  <2>2. next \in Handlers
    <3> HIDE DEF entries
    <3> QED
      BY <1>0, <2>1 DEF Handlers, Stages
  <2>3. /\ next.pc = "drain" /\ next.job = q.job /\ next.space = q.space /\ next.targets = entries
    BY <1>0 DEF Handlers
  <2>4. req' = [req EXCEPT ![r] = next]
    BY <1>0, <1>2 DEF ConvTyped
  <2> HIDE DEF next
  <2>5. req' \in [Requests -> Handlers] /\ req'[r] = next /\ \A h \in Requests : h # r => req'[h] = req[h]
    BY <2>2, <2>4, Moved
  <2>6. /\ op' \in [V!Scopes -> {V!None, "running", "failed"}] /\ op'[V!ScopeOf(q)] = "running"
        /\ locks' \in [cleanup : Requests \cup {V!None}, control : Requests \cup {V!None}]
        /\ locks'.cleanup = r /\ locks'.control = locks.control
    BY <1>0, <1>2, <2>1 DEF ConvTyped
  <2>7. ConvTyped'
    BY <1>0, <2>5, <2>6 DEF ConvTyped
  <2>8. \A h \in Requests : h # r => ~Gated(req'[h]) /\ JobOK(req'[h])
    BY <1>0, <2>5, NoCleanup DEF GateOK
  <2>9. GateOK'
    <3>1. JobOK(next)
      BY <1>0, <2>3 DEF JobOK
    <3>2. \A h \in Requests : JobOK(req'[h])
      BY <2>5, <2>8, <3>1
    <3>3. \A h \in Requests : Gated(req'[h]) => h = r
      BY <2>8
    <3>4. V!ScopeOf(req[r])' = V!ScopeOf(q) /\ V!EntriesOf(V!ScopeOf(req[r]))' = entries
      BY <1>0, <2>3, <2>5 DEF V!ScopeOf, V!EntriesOf
    <3> HIDE DEF entries
    <3> QED
      BY <2>3, <2>5, <2>6, <3>2, <3>3, <3>4 DEF GateOK, Gated, JobOK
  <2>10. BindingOK'
    <3>1. \A h \in Requests : InPlace(req[h])' => InPlace(req[h]) /\ h # r
      BY <1>0, <2>3, <2>5 DEF InPlace, Vanished
    <3>2. \A h \in Requests : req'[h].pc # "unbind"
      BY <2>3, <2>5, <2>8 DEF Gated
    <3> QED
      BY <1>0, <2>5, <3>1, <3>2 DEF BindingOK, InPlace
  <2>11. UnmadeOK' /\ StartOK' /\ V!RunsWhereBound' /\ V!AppointedRun'
    BY <1>0, <2>3, <2>5, <2>6 DEF UnmadeOK, StartOK, V!RunsWhereBound, V!AppointedRun, V!Kept
  <2> QED
    BY <2>7, <2>9, <2>10, <2>11 DEF ConvInv
<1> QED
  BY <1>1, <1>2 DEF V!Freeze

LEMMA DrainKeeps ==
  ASSUME ConvInv, NEW r \in Requests, V!Drain(r)
  PROVE  ConvInv'
<1>0. /\ ConvTyped /\ GateOK /\ BindingOK /\ UnmadeOK /\ StartOK /\ V!RunsWhereBound /\ V!AppointedRun
      /\ UNCHANGED <<conv, space, role, gens, run, op, locks, calls, events>>
      /\ req[r].pc = "drain" /\ live' = live \ req[r].targets /\ req' = V!At(r, "apply") /\ Gated(req[r])
      /\ JobOK(req[r])
  BY TypedRequests DEF ConvInv, V!Drain, Gated
<1>1. /\ req' \in [Requests -> Handlers] /\ req'[r].pc = "apply"
      /\ req'[r].job = req[r].job /\ req'[r].space = req[r].space
      /\ \A h \in Requests : h # r => req'[h] = req[h]
  BY <1>0, Steered DEF Stages
<1>2. ConvTyped' /\ V!RunsWhereBound'
  BY <1>0, <1>1 DEF ConvTyped, V!RunsWhereBound, V!Kept
<1>3. GateOK'
  <2>1. \A h \in Requests : h # r => ~Gated(req'[h]) /\ JobOK(req'[h])
    BY <1>0, <1>1, OneCleanup DEF GateOK
  <2>2. JobOK(req'[r]) /\ V!ScopeOf(req[r])' = V!ScopeOf(req[r])
    BY <1>0, <1>1 DEF JobOK, V!ScopeOf
  <2>3. /\ locks'.cleanup = r /\ op'[V!ScopeOf(req[r])] = "running"
        /\ V!EntriesOf(V!ScopeOf(req[r])) \subseteq req[r].targets
    BY <1>0 DEF GateOK
  <2>4. V!EntriesOf(V!ScopeOf(req[r]))' = {}
    BY <1>0, <2>2, <2>3 DEF V!EntriesOf
  <2>5. \A h \in Requests : JobOK(req'[h])
    BY <2>1, <2>2
  <2>6. \A h \in Requests : Gated(req'[h]) => h = r
    BY <2>1
  <2> QED
    BY <1>1, <2>2, <2>3, <2>4, <2>5, <2>6 DEF GateOK, Gated, JobOK
<1>4. BindingOK'
  <2>1. \A h \in Requests : InPlace(req[h])' => InPlace(req[h]) /\ h # r
    BY <1>0, <1>1 DEF InPlace, Vanished
  <2>2. \A h \in Requests : req'[h].pc # "unbind"
    BY <1>0, <1>1, OneCleanup DEF Gated
  <2> QED
    BY <1>0, <1>1, <2>1, <2>2 DEF BindingOK, InPlace
<1>5. UnmadeOK' /\ StartOK' /\ V!AppointedRun'
  BY <1>0, <1>1 DEF UnmadeOK, StartOK, V!AppointedRun
<1> QED
  BY <1>2, <1>3, <1>4, <1>5 DEF ConvInv

\* The scope is over and the rest is as it was: what a clean-up that fails, deletes or disables
\* leaves.
LEMMA ScopeOver ==
  ASSUME ConvInv, NEW r \in Requests, Gated(req[r]), NEW success \in BOOLEAN, V!EndScope(r, success),
         UNCHANGED <<role, run>>, live' \subseteq live, calls' = calls,
         conv' \in Rows, space' \in [Spaces -> {"on", "off", "gone"}],
         \A s \in Spaces : space[s] = "gone" => space'[s] = "gone",
         conv' = conv \/ (conv.st # V!None /\ conv' = [conv EXCEPT !.st = "bin", !.old = FALSE]),
         V!RunsWhereBound'
  PROVE  ConvInv'
<1>0. /\ ConvTyped /\ GateOK /\ BindingOK /\ UnmadeOK /\ StartOK /\ V!RunsWhereBound /\ V!AppointedRun
  BY DEF ConvInv
<1>1. /\ req' \in [Requests -> Handlers] /\ req'[r].pc = "idle" /\ req'[r].job = V!None /\ JobOK(req'[r])
      /\ \A h \in Requests : h # r => req'[h] = req[h]
      /\ op' \in [V!Scopes -> {V!None, "running", "failed"}]
      /\ locks' \in [cleanup : Requests \cup {V!None}, control : Requests \cup {V!None}]
      /\ locks'.control = locks.control
      /\ \A h \in Requests : ~Gated(req'[h])
  BY ScopeEnds
<1>2. /\ conv'.ws = conv.ws /\ conv'.rev = conv.rev /\ conv.rev \in Nat /\ conv'.app = conv.app
      /\ conv'.coord = conv.coord /\ conv'.members = conv.members
      /\ (conv'.st = V!None <=> conv.st = V!None)
  <2>1. conv \in Rows /\ "bin" # V!None
    BY <1>0 DEF ConvTyped, V!None
  <2> QED
    BY <2>1 DEF Rows
<1>3. ConvTyped'
  BY <1>0, <1>1 DEF ConvTyped
<1>4. V!AppointedRun'
  BY <1>0, <1>2 DEF V!AppointedRun
<1>5. \A h \in Requests :
        \/ req'[h] = req[h]
        \/ req'[h].pc \in {"idle", "stop"} /\ JobOK(req'[h]) /\ req'[h].job \in {V!None, req[h].job}
  BY <1>1
<1>6. \A h \in Requests : req'[h].pc = "start" => locks'.control = h
  BY <1>0, <1>1 DEF StartOK
<1>7. conv.st = V!None => run'.st # "active"
  BY <1>0 DEF UnmadeOK
<1>8. conv'.rev >= conv.rev
  BY <1>2
<1> QED
  BY <1>1, <1>2, <1>3, <1>4, <1>5, <1>6, <1>7, <1>8, Still

LEMMA DrainFailsKeeps ==
  ASSUME ConvInv, NEW r \in Requests, V!DrainFails(r)
  PROVE  ConvInv'
<1>1. /\ Gated(req[r]) /\ V!EndScope(r, FALSE) /\ UNCHANGED <<conv, space, role, run, calls>>
      /\ live' \subseteq live
  BY DEF V!DrainFails, Gated
<1>2. conv \in Rows /\ space \in [Spaces -> {"on", "off", "gone"}] /\ V!RunsWhereBound
  BY DEF ConvInv, ConvTyped
<1>3. V!RunsWhereBound'
  BY <1>1, <1>2 DEF V!RunsWhereBound, V!Kept
<1> QED
  BY <1>1, <1>2, <1>3, ScopeOver

\* Nothing is left of a scope that has drained.
LEMMA Drained ==
  ASSUME ConvInv, NEW r \in Requests, req[r].pc \in {"apply", "unbind"}
  PROVE  /\ req[r].job \in {"rebind", "delete"} => live = {}
         /\ req[r].job \in {"disable", "discard"} => req[r].space \in Spaces /\ req[r].space \notin live
<1>1. V!EntriesOf(V!ScopeOf(req[r])) = {} /\ live \subseteq Spaces
  BY DEF ConvInv, GateOK, ConvTyped
<1> QED
  BY <1>1, ScopeKnown, OwnerAssumption DEF V!EntriesOf

LEMMA ApplyDeleteKeeps ==
  ASSUME ConvInv, NEW r \in Requests, V!ApplyDelete(r)
  PROVE  ConvInv'
<1>1. /\ Gated(req[r]) /\ V!EndScope(r, TRUE) /\ UNCHANGED <<space, role, run, live, calls>>
      /\ req[r].pc = "apply" /\ req[r].job = "delete"
      /\ conv' = [conv EXCEPT !.st = "bin", !.old = FALSE]
  BY DEF V!ApplyDelete, Gated
<1>2. conv' \in Rows /\ space \in [Spaces -> {"on", "off", "gone"}]
  BY <1>1 DEF ConvInv, ConvTyped, Rows
<1>3. live = {} /\ V!RunsWhereBound'
  BY <1>1, Drained DEF V!RunsWhereBound
<1>4. conv.st # V!None
  BY <1>1 DEF ConvInv, UnmadeOK, V!None
<1> QED
  BY <1>1, <1>2, <1>3, <1>4, ScopeOver

LEMMA ApplyDisableKeeps ==
  ASSUME ConvInv, NEW r \in Requests, V!ApplyDisable(r)
  PROVE  ConvInv'
<1> DEFINE s == req[r].space  success == space[s] # "gone"
<1>1. /\ Gated(req[r]) /\ V!EndScope(r, success) /\ UNCHANGED <<conv, role, run, live, calls>>
      /\ req[r].pc = "apply" /\ req[r].job = "disable"
      /\ space' = IF space[s] = "gone" THEN space ELSE [space EXCEPT ![s] = "off"]
  BY DEF V!ApplyDisable, Gated
<1>2. s \in Spaces /\ s \notin live
  BY <1>1, Drained
<1>3. /\ conv \in Rows /\ space \in [Spaces -> {"on", "off", "gone"}] /\ live \subseteq Spaces
      /\ V!RunsWhereBound
  BY DEF ConvInv, ConvTyped
<1>4. /\ space' \in [Spaces -> {"on", "off", "gone"}]
      /\ (\A x \in Spaces : space[x] = "gone" => space'[x] = "gone")
  BY <1>1, <1>2, <1>3
<1>5. V!RunsWhereBound'
  BY <1>1, <1>2, <1>3 DEF V!RunsWhereBound, V!Kept
<1>6. success \in BOOLEAN
  OBVIOUS
<1> HIDE DEF success
<1> QED
  BY <1>1, <1>3, <1>4, <1>5, <1>6, ScopeOver

LEMMA ApplyRebindKeeps ==
  ASSUME ConvInv, NEW r \in Requests, V!ApplyRebind(r)
  PROVE  ConvInv'
<1> DEFINE q == req[r]
<1>0. /\ ConvTyped /\ GateOK /\ BindingOK /\ UnmadeOK /\ StartOK /\ V!RunsWhereBound /\ V!AppointedRun
      /\ UNCHANGED <<space, role, gens, run, live, calls, events>>
      /\ q.pc = "apply" /\ q.job = "rebind" /\ Gated(q) /\ live = {}
      /\ q \in Handlers /\ conv \in Rows
  BY TypedRequests, Drained DEF ConvInv, V!ApplyRebind, Gated
<1>1. CASE ~V!Rebound(q, TRUE)
  <2>1. V!EndScope(r, FALSE) /\ conv' = conv
    BY <1>1 DEF V!ApplyRebind, V!EndScope
  <2>2. space' \in [Spaces -> {"on", "off", "gone"}] /\ V!RunsWhereBound'
    BY <1>0, <2>1 DEF ConvTyped, V!RunsWhereBound
  <2> QED
    BY <1>0, <2>1, <2>2, ScopeOver
<1>2. CASE V!Rebound(q, TRUE)
  <2> DEFINE rev == q.exp + 1
  <2>1. V!EndScope(r, TRUE) /\ conv' = V!Bound(q.space, rev) /\ conv.st = "kept" /\ conv.rev = q.exp
    BY <1>2 DEF V!ApplyRebind, V!Rebound, V!Kept, V!EndScope
  <2>2. q.space \in Spaces \cup {V!None} /\ q.exp \in Nat /\ rev \in Nat /\ rev > q.exp
    BY <1>0 DEF Handlers
  <2> HIDE DEF rev
  <2>3. /\ conv' \in Rows /\ conv'.st = "kept" /\ conv'.rev = rev
        /\ conv'.app = conv.app /\ conv'.coord = conv.coord /\ conv'.members = conv.members
    BY <1>0, <2>1, <2>2 DEF V!Bound, Rows
  <2>4. /\ req' \in [Requests -> Handlers] /\ req'[r].pc = "idle" /\ req'[r].job = V!None /\ JobOK(req'[r])
        /\ \A h \in Requests : h # r => req'[h] = req[h]
        /\ op' \in [V!Scopes -> {V!None, "running", "failed"}]
        /\ locks' \in [cleanup : Requests \cup {V!None}, control : Requests \cup {V!None}]
        /\ locks'.control = locks.control
        /\ \A h \in Requests : ~Gated(req'[h])
    BY <1>0, <2>1, ScopeEnds
  <2>5. ConvTyped'
    BY <1>0, <2>3, <2>4 DEF ConvTyped
  <2>6. GateOK'
    <3>1. \A h \in Requests : JobOK(req'[h])
      BY <1>0, <2>4 DEF GateOK
    <3> QED
      BY <2>4, <3>1 DEF GateOK, Gated, JobOK
  <2>7. BindingOK'
    <3>1. \A h \in Requests : InPlace(req[h])' => InPlace(req[h]) /\ req'[h] = req[h]
      BY <1>0, <2>4 DEF InPlace, Vanished
    <3>2. \A h \in Requests : InPlace(req[h])' => req'[h].exp <= conv.rev /\ req'[h].exp \in Nat
      BY <1>0, <2>4, <3>1 DEF BindingOK, InPlace, Handlers
    <3>3. \A h \in Requests : InPlace(req[h])' => req'[h].exp <= conv'.rev /\ req'[h].exp # conv'.rev
      BY <2>1, <2>2, <2>3, <3>2
    <3>4. \A h \in Requests : req'[h].pc # "unbind"
      BY <2>4 DEF Gated
    <3> QED
      BY <3>3, <3>4 DEF BindingOK, InPlace
  <2>8. UnmadeOK' /\ V!RunsWhereBound'
    BY <1>0, <2>3 DEF UnmadeOK, V!RunsWhereBound, V!None
  <2>9. StartOK' /\ V!AppointedRun'
    BY <1>0, <2>3, <2>4 DEF StartOK, V!AppointedRun
  <2> QED
    BY <2>5, <2>6, <2>7, <2>8, <2>9 DEF ConvInv
<1> QED
  BY <1>1, <1>2

LEMMA ReadBoundKeeps ==
  ASSUME ConvInv, NEW r \in Requests, V!ReadBound(r)
  PROVE  ConvInv'
<1> DEFINE q == req[r]
           seen == IF conv.ws = q.space THEN conv.rev + 1 ELSE 0
           next == [q EXCEPT !.pc = "unbind", !.seen = seen]
<1>0. /\ ConvTyped /\ GateOK /\ BindingOK /\ UnmadeOK /\ StartOK /\ V!RunsWhereBound /\ V!AppointedRun
      /\ UNCHANGED <<conv, space, role, gens, run, live, op, locks, calls, events>>
      /\ q.pc = "apply" /\ q.job = "discard" /\ Gated(q) /\ q \in Handlers /\ conv.rev \in Nat
      /\ JobOK(q) /\ req \in [Requests -> Handlers]
  BY TypedRequests DEF ConvInv, V!ReadBound, Gated
<1>1. seen \in Nat /\ (seen > 0 => conv.ws = q.space /\ seen = conv.rev + 1)
  BY <1>0
<1>2. req' = [req EXCEPT ![r] = next]
  BY <1>0 DEF V!ReadBound
<1> HIDE DEF seen
<1>3. /\ next \in Handlers /\ next.pc = "unbind" /\ next.job = q.job /\ next.space = q.space
      /\ next.seen = seen
  BY <1>0, <1>1 DEF Handlers, Stages
<1> HIDE DEF next
<1>4. /\ req' \in [Requests -> Handlers] /\ req'[r] = next /\ \A h \in Requests : h # r => req'[h] = req[h]
  BY <1>2, <1>3, Moved
<1>5. ConvTyped'
  BY <1>0, <1>4 DEF ConvTyped
<1>6. GateOK'
  <2>1. \A h \in Requests : h # r => ~Gated(req'[h]) /\ JobOK(req'[h])
    BY <1>0, <1>4, OneCleanup DEF GateOK
  <2>2. JobOK(req'[r])
    BY <1>0, <1>3, <1>4 DEF JobOK
  <2>3. V!ScopeOf(req[r])' = V!ScopeOf(req[r])
    BY <1>0, <1>3, <1>4 DEF V!ScopeOf
  <2>4. locks'.cleanup = r /\ op'[V!ScopeOf(req[r])] = "running" /\ V!EntriesOf(V!ScopeOf(req[r])) = {}
    BY <1>0 DEF GateOK
  <2>5. V!EntriesOf(V!ScopeOf(req[r]))' = {}
    BY <1>0, <2>3, <2>4 DEF V!EntriesOf
  <2>6. \A h \in Requests : JobOK(req'[h])
    BY <2>1, <2>2
  <2>7. \A h \in Requests : Gated(req'[h]) => h = r
    BY <2>1
  <2> QED
    BY <1>3, <1>4, <2>3, <2>4, <2>5, <2>6, <2>7 DEF GateOK, Gated, JobOK
<1>7. BindingOK'
  <2>1. \A h \in Requests : InPlace(req[h])' => InPlace(req[h]) /\ req'[h] = req[h] /\ h # r
    BY <1>0, <1>3, <1>4 DEF InPlace, Vanished
  <2>2. \A h \in Requests : InPlace(req[h])' => req'[h].exp <= conv.rev /\ req'[h].exp \in Nat
    BY <1>0, <2>1 DEF BindingOK, InPlace, Handlers
  <2>3. \A h \in Requests : req'[h].pc = "unbind" => h = r
    BY <1>0, <1>4, OneCleanup DEF Gated
  <2>4. \A h \in Requests : InPlace(req[h])' => (req'[h].exp = conv.rev => conv.ws = req'[h].space)
    BY <1>0, <2>1 DEF BindingOK, InPlace
  <2>5. ASSUME req'[r].seen > 0
        PROVE  /\ conv'.ws = req'[r].space
               /\ \A h \in Requests : InPlace(req[h])' => req'[h].exp < req'[r].seen
    BY <1>0, <1>1, <1>3, <1>4, <2>2, <2>5
  <2> QED
    BY <1>0, <2>2, <2>3, <2>4, <2>5 DEF BindingOK, InPlace
<1>8. UnmadeOK' /\ StartOK' /\ V!RunsWhereBound' /\ V!AppointedRun'
  BY <1>0, <1>3, <1>4 DEF UnmadeOK, StartOK, V!RunsWhereBound, V!AppointedRun, V!Kept
<1> QED
  BY <1>5, <1>6, <1>7, <1>8 DEF ConvInv

LEMMA UnbindKeeps ==
  ASSUME ConvInv, NEW r \in Requests, V!Unbind(r)
  PROVE  ConvInv'
<1> DEFINE q == req[r]
           rev == IF q.seen > 0 THEN q.seen ELSE conv.rev
<1>0. /\ ConvTyped /\ GateOK /\ BindingOK /\ UnmadeOK /\ StartOK /\ V!RunsWhereBound /\ V!AppointedRun
      /\ UNCHANGED <<role, gens, run, live, calls, events>> /\ V!EndScope(r, TRUE)
      /\ q.pc = "unbind" /\ Gated(q) /\ q \in Handlers /\ conv \in Rows /\ conv.rev \in Nat
      /\ conv' = IF conv.ws # q.space THEN conv ELSE V!Bound(V!None, rev)
      /\ space' = [space EXCEPT ![q.space] = "gone"] /\ live \subseteq Spaces
  BY TypedRequests DEF ConvInv, V!Unbind, Gated
<1>1. q.space \in Spaces /\ q.space \notin live
  <2>1. q.job = "discard"
    BY <1>0, TypedRequests DEF JobOK
  <2> QED
    BY <1>0, <2>1, Drained
<1>2. rev \in Nat
  BY <1>0 DEF Handlers
<1> HIDE DEF rev
<1>3. /\ conv' \in Rows /\ conv'.st = conv.st /\ conv'.app = conv.app
      /\ conv'.coord = conv.coord /\ conv'.members = conv.members
      /\ conv'.ws = IF conv.ws # q.space THEN conv.ws ELSE V!None
      /\ conv'.rev = IF conv.ws # q.space THEN conv.rev ELSE rev
  <2>1. CASE conv.ws # q.space
    BY <1>0, <2>1
  <2>2. CASE conv.ws = q.space
    BY <1>0, <1>2, <2>2 DEF V!Bound, Rows
  <2> QED
    BY <2>1, <2>2
<1>4. /\ req' \in [Requests -> Handlers] /\ req'[r].pc = "idle" /\ req'[r].job = V!None /\ JobOK(req'[r])
      /\ \A h \in Requests : h # r => req'[h] = req[h]
      /\ op' \in [V!Scopes -> {V!None, "running", "failed"}]
      /\ locks' \in [cleanup : Requests \cup {V!None}, control : Requests \cup {V!None}]
      /\ locks'.control = locks.control
      /\ \A h \in Requests : ~Gated(req'[h])
  BY <1>0, ScopeEnds
<1>5. /\ space' \in [Spaces -> {"on", "off", "gone"}] /\ space'[q.space] = "gone"
      /\ \A s \in Spaces : s # q.space => space'[s] = space[s]
  BY <1>0, <1>1 DEF ConvTyped
<1>6. ConvTyped'
  BY <1>0, <1>3, <1>4, <1>5 DEF ConvTyped
<1>7. GateOK'
  <2>1. \A h \in Requests : JobOK(req'[h])
    BY <1>0, <1>4 DEF GateOK
  <2> QED
    BY <1>4, <2>1 DEF GateOK, Gated, JobOK
<1>8. BindingOK'
  <2>1. \A h \in Requests : InPlace(req[h])' => InPlace(req[h]) /\ req'[h] = req[h] /\
          req[h].space # q.space
    BY <1>0, <1>1, <1>4, <1>5 DEF InPlace, Vanished
  <2>2. \A h \in Requests : req[h].exp \in Nat
    BY <1>0 DEF ConvTyped, Handlers
  <2>3. ASSUME NEW h \in Requests, InPlace(req[h])'
        PROVE  req'[h].exp <= conv'.rev /\ (req'[h].exp = conv'.rev => conv'.ws = req'[h].space)
    <3>1. req[h].exp <= conv.rev /\ (req[h].exp = conv.rev => conv.ws = req[h].space)
      BY <1>0, <2>1, <2>3 DEF BindingOK, InPlace
    <3>2. q.seen > 0 => req[h].exp < q.seen
      BY <1>0, <2>1, <2>3 DEF BindingOK, InPlace
    <3>3. q.seen \in Nat
      BY <1>0 DEF Handlers
    <3>4. CASE conv.ws # q.space
      BY <1>3, <2>1, <2>3, <3>1, <3>4
    <3>5. CASE conv.ws = q.space
      <4>1. req[h].exp # conv.rev
        BY <2>1, <2>3, <3>1, <3>5
      <4>2. req[h].exp < rev
        BY <1>0, <2>2, <3>1, <3>2, <3>3, <4>1 DEF rev
      <4> QED
        BY <1>2, <1>3, <2>1, <2>2, <2>3, <3>5, <4>2
    <3> QED
      BY <3>4, <3>5
  <2>4. \A h \in Requests : req'[h].pc # "unbind"
    BY <1>4 DEF Gated
  <2> QED
    BY <2>3, <2>4 DEF BindingOK, InPlace
<1>9. UnmadeOK'
  BY <1>0, <1>3, <1>4 DEF UnmadeOK
<1>10. V!RunsWhereBound'
  BY <1>0, <1>1, <1>3, <1>5 DEF V!RunsWhereBound, V!Kept
<1>11. StartOK' /\ V!AppointedRun'
  BY <1>0, <1>3, <1>4 DEF StartOK, V!AppointedRun
<1> QED
  BY <1>6, <1>7, <1>8, <1>9, <1>10, <1>11 DEF ConvInv

-----------------------------------------------------------------------------

\* A step that changes no binding, no workspace and no gate.
LEMMA Calm ==
  ASSUME ConvInv, ConvTyped', V!AppointedRun', UNCHANGED <<space, op>>, live' \subseteq live,
         locks'.cleanup = locks.cleanup,
         \A r \in Requests :
           \/ req'[r] = req[r]
           \/ req'[r].pc \in {"idle", "stop"} /\ JobOK(req'[r]) /\ req'[r].job \in {V!None, req[r].job},
         conv'.ws = conv.ws, conv'.rev >= conv.rev, conv'.st = V!None <=> conv.st = V!None, V!Kept =>
           V!Kept',
         run'.st = "active" => run.st = "active" \/ conv.st # V!None,
         \/ locks.control = V!None
         \/ /\ UNCHANGED role /\ conv'.app = conv.app /\ conv'.coord = conv.coord
            /\ conv'.members = conv.members
            /\ \A r \in Requests : req'[r].pc = "start" => locks'.control = r
  PROVE  ConvInv'
<1>1. V!RunsWhereBound /\ V!RunsWhereBound'
  BY DEF ConvInv, V!RunsWhereBound
<1>2. \A r \in Requests : req'[r].pc \notin {"idle", "stop"} => req'[r] = req[r]
  OBVIOUS
<1>3. \A r \in Requests : Gated(req'[r]) =>
        /\ locks'.cleanup = r /\ op'[V!ScopeOf(req[r])] = "running"
        /\ \A x \in live' : x \in live \/ V!ScopeOf(req[r]) \notin {x, V!Conv}
  BY <1>2 DEF Gated, ConvInv, GateOK
<1>4. \A r \in Requests : req'[r].pc = "start" =>
        /\ locks'.control = r /\ conv'.app = conv.app /\ conv'.coord = conv.coord
        /\ conv'.members = conv.members /\ role' = role
  BY <1>2, NoStart
<1>5. conv.st = V!None => run'.st # "active"
  BY DEF ConvInv, UnmadeOK
<1>6. \A s \in Spaces : space[s] = "gone" => space'[s] = "gone"
  OBVIOUS
<1> QED
  BY <1>1, <1>3, <1>4, <1>5, <1>6, Still

\* The facts about a state that the steps below share.
LEMMA Known ==
  ASSUME ConvInv
  PROVE  /\ ConvTyped /\ V!AppointedRun /\ conv \in Rows /\ conv.rev \in Nat /\ conv.rev >= conv.rev
         /\ run \in Runs /\ calls \in Nat /\ calls + 1 \in Nat
         /\ locks \in [cleanup : Requests \cup {V!None}, control : Requests \cup {V!None}]
         /\ role \in [Roles -> {"on", "off", "gone"}]
         /\ \A r \in Requests : req[r].pc = "start" => locks.control = r
         /\ conv.st = V!None => run.st # "active"
<1>1. ConvTyped /\ V!AppointedRun /\ conv \in Rows /\ run \in Runs /\ calls \in Nat
  BY DEF ConvInv, ConvTyped
<1>2. /\ locks \in [cleanup : Requests \cup {V!None}, control : Requests \cup {V!None}]
      /\ role \in [Roles -> {"on", "off", "gone"}]
  BY DEF ConvInv, ConvTyped
<1>3. \A r \in Requests : req[r].pc = "start" => locks.control = r
  BY DEF ConvInv, StartOK
<1>4. conv.st = V!None => run.st # "active"
  BY DEF ConvInv, UnmadeOK
<1>5. conv.rev \in Nat /\ conv.rev >= conv.rev
  BY <1>1 DEF Rows
<1> QED
  BY <1>1, <1>2, <1>3, <1>4, <1>5

\* A reply, a run or the restored row changes, and no request.
LEMMA QuietKeeps ==
  ASSUME ConvInv, UNCHANGED <<space, op, locks, req, role>>, live' \subseteq live,
         calls' \in Nat, conv' \in Rows, run' \in {run, V!RevokeRuns, [run EXCEPT !.st = "over"]},
         conv' = conv \/ (\E st \in {"kept", "bin"}, old \in BOOLEAN :
                            conv.st = "bin" /\ conv' = [conv EXCEPT !.st = st, !.old = old])
  PROVE  ConvInv'
<1>0. /\ ConvTyped /\ V!AppointedRun /\ conv \in Rows /\ conv.rev \in Nat /\ conv.rev >= conv.rev
      /\ run \in Runs
      /\ \A r \in Requests : req[r].pc = "start" => locks.control = r
  BY Known
<1>1. /\ conv'.ws = conv.ws /\ conv'.rev = conv.rev /\ conv'.app = conv.app /\ conv'.coord = conv.coord
      /\ conv'.members = conv.members /\ (conv'.st = V!None <=> conv.st = V!None) /\ (V!Kept => V!Kept')
  <2>1. "bin" # V!None /\ "kept" # V!None
    BY DEF V!None
  <2> QED
    BY <1>0, <2>1 DEF Rows, V!Kept
<1>2. run' \in Runs /\ (run'.st = "active" => run' = run)
  <2>1. CASE run' = run
    BY <1>0, <2>1
  <2>2. CASE run' = V!RevokeRuns
    BY <2>2, Revoked
  <2>3. CASE run' = [run EXCEPT !.st = "over"]
    BY <1>0, <2>3 DEF Runs
  <2> QED
    BY <2>1, <2>2, <2>3
<1>3. ConvTyped'
  BY <1>0, <1>2 DEF ConvTyped
<1>4. V!AppointedRun'
  BY <1>0, <1>1, <1>2 DEF V!AppointedRun
<1> QED
  BY <1>0, <1>1, <1>2, <1>3, <1>4, Calm

LEMMA StopRevokedKeeps ==
  ASSUME ConvInv, NEW r \in Requests, V!StopRevoked(r)
  PROVE  ConvInv'
<1>0. /\ UNCHANGED <<conv, space, role, run, live, op, calls, events>> /\ req' = V!Finished(r)
      /\ req[r].pc = "stop"
      /\ locks' = [locks EXCEPT !.control = IF @ = r THEN V!None ELSE @]
  BY DEF V!StopRevoked
<1>1. /\ ConvTyped /\ V!AppointedRun /\ conv.rev >= conv.rev
      /\ \A h \in Requests : req[h].pc = "start" => locks.control = h
      /\ locks \in [cleanup : Requests \cup {V!None}, control : Requests \cup {V!None}]
  BY Known
<1>2. /\ req' \in [Requests -> Handlers] /\ req'[r].pc = "idle" /\ req'[r].job = V!None /\ JobOK(req'[r])
      /\ \A h \in Requests : h # r => req'[h] = req[h]
  BY <1>0, Done
<1>3. /\ locks' \in [cleanup : Requests \cup {V!None}, control : Requests \cup {V!None}]
      /\ locks'.cleanup = locks.cleanup /\ (locks.control # r => locks'.control = locks.control)
  BY <1>0, <1>1
<1>4. ConvTyped' /\ V!AppointedRun'
  BY <1>0, <1>1, <1>2, <1>3 DEF ConvTyped, V!AppointedRun
<1>5. \A h \in Requests : req'[h].pc = "start" => locks'.control = h
  BY <1>0, <1>1, <1>2, <1>3
<1>6. \A h \in Requests :
        \/ req'[h] = req[h]
        \/ req'[h].pc \in {"idle", "stop"} /\ JobOK(req'[h]) /\ req'[h].job \in {V!None, req[h].job}
  BY <1>2
<1>7. conv'.rev >= conv.rev /\ (V!Kept => V!Kept') /\ (run'.st = "active" => run.st = "active")
  BY <1>0, <1>1 DEF V!Kept
<1> QED
  BY <1>0, <1>3, <1>4, <1>5, <1>6, <1>7, Calm

LEMMA InsertMessageKeeps ==
  ASSUME ConvInv, NEW r \in Requests, V!InsertMessage(r)
  PROVE  ConvInv'
<1>0. /\ UNCHANGED <<conv, space, role, run, live, op, locks, calls, events>> /\ req' = V!Finished(r)
      /\ req[r].pc = "insert"
  BY DEF V!InsertMessage
<1>1. /\ ConvTyped /\ V!AppointedRun /\ conv.rev >= conv.rev
      /\ \A h \in Requests : req[h].pc = "start" => locks.control = h
  BY Known
<1>2. /\ req' \in [Requests -> Handlers] /\ req'[r].pc = "idle" /\ req'[r].job = V!None /\ JobOK(req'[r])
      /\ \A h \in Requests : h # r => req'[h] = req[h]
  BY <1>0, Done
<1>4. ConvTyped' /\ V!AppointedRun'
  BY <1>0, <1>1, <1>2 DEF ConvTyped, V!AppointedRun
<1>5. \A h \in Requests : req'[h].pc = "start" => locks'.control = h
  BY <1>0, <1>1, <1>2
<1>6. \A h \in Requests :
        \/ req'[h] = req[h]
        \/ req'[h].pc \in {"idle", "stop"} /\ JobOK(req'[h]) /\ req'[h].job \in {V!None, req[h].job}
  BY <1>2
<1>7. conv'.rev >= conv.rev /\ (V!Kept => V!Kept') /\ (run'.st = "active" => run.st = "active")
  BY <1>0, <1>1 DEF V!Kept
<1> QED
  BY <1>0, <1>4, <1>5, <1>6, <1>7, Calm

LEMMA InsertRunKeeps ==
  ASSUME ConvInv, NEW r \in Requests, V!InsertRun(r)
  PROVE  ConvInv'
<1> DEFINE q == req[r]
<1>0. /\ UNCHANGED <<conv, space, role, live, op, calls, events>> /\ req' = V!Finished(r) /\ q.pc = "start"
      /\ run' = [st |-> "active", app |-> q.exp, coord |-> q.coord, space |-> q.space]
      /\ locks' = [locks EXCEPT !.control = V!None]
  BY DEF V!InsertRun
<1>1. /\ ConvTyped /\ conv.rev >= conv.rev /\ q \in Handlers
      /\ \A h \in Requests : req[h].pc = "start" => locks.control = h
      /\ locks \in [cleanup : Requests \cup {V!None}, control : Requests \cup {V!None}]
  BY Known, TypedRequests
<1>2. /\ req' \in [Requests -> Handlers] /\ req'[r].pc = "idle" /\ req'[r].job = V!None /\ JobOK(req'[r])
      /\ \A h \in Requests : h # r => req'[h] = req[h]
  BY <1>0, Done
<1>3. /\ locks' \in [cleanup : Requests \cup {V!None}, control : Requests \cup {V!None}]
      /\ locks'.cleanup = locks.cleanup
  BY <1>0, <1>1
<1>4. run' \in Runs
  BY <1>0, <1>1 DEF Runs, Handlers
<1>5. ConvTyped'
  BY <1>0, <1>1, <1>2, <1>3, <1>4 DEF ConvTyped
<1>6. V!AppointedRun' /\ conv.st # V!None
  BY <1>0 DEF V!AppointedRun, ConvInv, StartOK, UnmadeOK
<1>7. \A h \in Requests : req'[h].pc # "start"
  BY <1>0, <1>1, <1>2
<1>8. \A h \in Requests :
        \/ req'[h] = req[h]
        \/ req'[h].pc \in {"idle", "stop"} /\ JobOK(req'[h]) /\ req'[h].job \in {V!None, req[h].job}
  BY <1>2
<1>9. conv'.rev >= conv.rev /\ (V!Kept => V!Kept')
  BY <1>0, <1>1 DEF V!Kept
<1> QED
  BY <1>0, <1>3, <1>5, <1>6, <1>7, <1>8, <1>9, Calm

\* The request that revokes a run goes on to stop its chain, or ends.
LEMMA Stops ==
  ASSUME ConvInv, NEW r \in Requests, NEW revoked \in BOOLEAN, NEW held \in BOOLEAN,
         V!ThenStop(r, revoked, held)
  PROVE  /\ req' \in [Requests -> Handlers]
         /\ \A h \in Requests :
              \/ req'[h] = req[h]
              \/ req'[h].pc \in {"idle", "stop"} /\ JobOK(req'[h]) /\ req'[h].job \in {V!None, req[h].job}
         /\ locks' \in [cleanup : Requests \cup {V!None}, control : Requests \cup {V!None}]
         /\ locks'.cleanup = locks.cleanup
<1>1. /\ locks' \in [cleanup : Requests \cup {V!None}, control : Requests \cup {V!None}]
      /\ locks'.cleanup = locks.cleanup
  BY Known DEF V!ThenStop
<1>2. CASE revoked
  <2>1. req' = V!At(r, "stop")
    BY <1>2 DEF V!ThenStop
  <2>2. /\ req' \in [Requests -> Handlers] /\ req'[r].pc = "stop" /\ req'[r].job = req[r].job
        /\ req'[r].space = req[r].space /\ \A h \in Requests : h # r => req'[h] = req[h]
    BY <2>1, Steered DEF Stages
  <2>3. JobOK(req'[r])
    BY <2>2, TypedRequests DEF JobOK
  <2> QED
    BY <1>1, <2>2, <2>3
<1>3. CASE ~revoked
  <2>1. req' = V!Finished(r)
    BY <1>3 DEF V!ThenStop
  <2> QED
    BY <1>1, <2>1, Done
<1> QED
  BY <1>2, <1>3

\* A request that finds the conversation other than it saw it changes nothing.
LEMMA RefusedKeeps ==
  ASSUME ConvInv, NEW r \in Requests, req[r].pc = "control", req' = V!Finished(r),
         UNCHANGED <<conv, space, role, run, live, op, locks, calls, events>>
  PROVE  ConvInv'
<1>1. /\ ConvTyped /\ V!AppointedRun /\ conv.rev >= conv.rev
      /\ \A h \in Requests : req[h].pc = "start" => locks.control = h
  BY Known
<1>2. /\ req' \in [Requests -> Handlers] /\ req'[r].pc = "idle" /\ req'[r].job = V!None /\ JobOK(req'[r])
      /\ \A h \in Requests : h # r => req'[h] = req[h]
  BY Done
<1>3. ConvTyped' /\ V!AppointedRun'
  BY <1>1, <1>2 DEF ConvTyped, V!AppointedRun
<1>4. \A h \in Requests : req'[h].pc = "start" => locks'.control = h
  BY <1>1, <1>2
<1>5. \A h \in Requests :
        \/ req'[h] = req[h]
        \/ req'[h].pc \in {"idle", "stop"} /\ JobOK(req'[h]) /\ req'[h].job \in {V!None, req[h].job}
  BY <1>2
<1>6. conv'.rev >= conv.rev /\ (V!Kept => V!Kept') /\ (run'.st = "active" => run.st = "active")
  BY <1>1 DEF V!Kept
<1> QED
  BY <1>3, <1>4, <1>5, <1>6, Calm

LEMMA AppointKeeps ==
  ASSUME ConvInv, NEW r \in Requests, V!Appoint(r)
  PROVE  ConvInv'
<1> DEFINE q == req[r]
<1>0. /\ UNCHANGED <<space, role, gens, live, op, calls, events>>
      /\ q.pc = "control" /\ locks.control = V!None /\ q \in Handlers
  BY TypedRequests DEF V!Appoint
<1>1. CASE ~V!Appointable(q)
  <2>1. req' = V!Finished(r) /\ UNCHANGED <<conv, run, locks>>
    BY <1>1 DEF V!Appoint
  <2> QED
    BY <1>0, <2>1, RefusedKeeps
<1>2. CASE V!Appointable(q)
  <2> DEFINE rev == conv.rev + 1  app == conv.app + 1
  <2>1. /\ conv' = [conv EXCEPT !.coord = q.coord, !.rev = rev, !.app = app]
        /\ run' = V!RevokeRuns /\ V!ThenStop(r, V!RunActive, TRUE)
    BY <1>2 DEF V!Appoint
  <2>2. /\ ConvTyped /\ conv \in Rows /\ conv.rev \in Nat /\ conv.app \in Nat
        /\ q.coord \in Roles \cup {V!None}
    BY <1>0, Known DEF Rows, Handlers
  <2>3. rev \in Nat /\ app \in Nat /\ rev >= conv.rev /\ V!RunActive \in BOOLEAN
    BY <2>2 DEF V!RunActive
  <2> HIDE DEF rev, app
  <2>4. conv' \in Rows /\ conv'.ws = conv.ws /\ conv'.rev = rev /\ conv'.st = conv.st
    BY <2>1, <2>2, <2>3 DEF Rows
  <2>5. /\ req' \in [Requests -> Handlers]
        /\ \A h \in Requests :
              \/ req'[h] = req[h]
              \/ req'[h].pc \in {"idle", "stop"} /\ JobOK(req'[h]) /\ req'[h].job \in {V!None, req[h].job}
        /\ locks' \in [cleanup : Requests \cup {V!None}, control : Requests \cup {V!None}]
        /\ locks'.cleanup = locks.cleanup
    BY <2>1, <2>3, Stops
  <2>6. run' \in Runs /\ run'.st # "active"
    BY <2>1, Revoked
  <2>7. ConvTyped' /\ V!AppointedRun'
    BY <1>0, <2>2, <2>4, <2>5, <2>6 DEF ConvTyped, V!AppointedRun
  <2>8. V!Kept => V!Kept'
    BY <2>4 DEF V!Kept
  <2> QED
    BY <1>0, <2>3, <2>4, <2>5, <2>6, <2>7, <2>8, Calm
<1> QED
  BY <1>1, <1>2

LEMMA UpdateMembersKeeps ==
  ASSUME ConvInv, NEW r \in Requests, V!UpdateMembers(r)
  PROVE  ConvInv'
<1> DEFINE q == req[r]
           revoked == conv.coord # V!None /\ conv.coord \notin q.roles
           ok == V!Kept /\ V!Usable(q.roles) /\ conv.rev = q.exp
<1>0. /\ UNCHANGED <<space, role, gens, live, op, calls, events>>
      /\ q.pc = "control" /\ locks.control = V!None /\ q \in Handlers
  BY TypedRequests DEF V!UpdateMembers
<1>1. CASE ~ok
  <2>1. req' = V!Finished(r) /\ UNCHANGED <<conv, run, locks>>
    BY <1>1 DEF V!UpdateMembers
  <2> QED
    BY <1>0, <2>1, RefusedKeeps
<1>2. CASE ok
  <2> DEFINE rev == conv.rev + 1
             app == IF revoked THEN conv.app + 1 ELSE conv.app
             coord == IF revoked THEN V!None ELSE conv.coord
             stops == revoked /\ V!RunActive
  <2>1. /\ conv' = [conv EXCEPT !.members = q.roles, !.rev = rev, !.app = app, !.coord = coord]
        /\ run' = (IF revoked THEN V!RevokeRuns ELSE run) /\ V!ThenStop(r, stops, FALSE)
    BY <1>2 DEF V!UpdateMembers
  <2>2. /\ ConvTyped /\ V!AppointedRun /\ conv \in Rows /\ run \in Runs /\ conv.rev \in Nat
        /\ conv.app \in Nat
        /\ conv.coord \in Roles \cup {V!None} /\ q.roles \in SUBSET Roles
    BY <1>0, Known DEF Rows, Handlers
  <2>3. /\ rev \in Nat /\ app \in Nat /\ coord \in Roles \cup {V!None} /\ rev >= conv.rev
        /\ stops \in BOOLEAN
        /\ revoked \in BOOLEAN /\ (~revoked => app = conv.app /\ coord = conv.coord)
    BY <2>2 DEF V!RunActive
  <2>9. ~revoked => conv.coord = V!None \/ conv.coord \in q.roles
    OBVIOUS
  <2> HIDE DEF rev, app, coord, stops, revoked
  <2>4. /\ conv' \in Rows /\ conv'.ws = conv.ws /\ conv'.rev = rev /\ conv'.st = conv.st
        /\ conv'.app = app /\ conv'.coord = coord /\ conv'.members = q.roles
    BY <2>1, <2>2, <2>3 DEF Rows
  <2>5. /\ req' \in [Requests -> Handlers]
        /\ \A h \in Requests :
              \/ req'[h] = req[h]
              \/ req'[h].pc \in {"idle", "stop"} /\ JobOK(req'[h]) /\ req'[h].job \in {V!None, req[h].job}
        /\ locks' \in [cleanup : Requests \cup {V!None}, control : Requests \cup {V!None}]
        /\ locks'.cleanup = locks.cleanup
    BY <2>1, <2>3, Stops
  <2>6. run' \in Runs /\ (run'.st = "active" => run' = run /\ ~revoked)
    BY <2>1, <2>2, <2>3, Revoked
  <2>7. V!AppointedRun'
    <3> SUFFICES ASSUME run'.st = "active"
                 PROVE  /\ conv'.app = run'.app /\ conv'.coord = run'.coord
                        /\ run'.coord \in conv'.members /\ role'[run'.coord] = "on"
      BY DEF V!AppointedRun
    <3>1. /\ run' = run /\ ~revoked /\ conv.app = run.app /\ conv.coord = run.coord
          /\ run.coord \in conv.members
          /\ role[run.coord] = "on"
      BY <2>2, <2>6 DEF V!AppointedRun
    <3>2. conv.coord \in q.roles
      BY <2>2, <2>9, <3>1, OwnerAssumption DEF Rows
    <3> QED
      BY <1>0, <2>3, <2>4, <3>1, <3>2
  <2>8. ConvTyped' /\ (V!Kept => V!Kept')
    BY <1>0, <2>2, <2>4, <2>5, <2>6 DEF ConvTyped, V!Kept
  <2> QED
    BY <1>0, <2>3, <2>4, <2>5, <2>6, <2>7, <2>8, Calm
<1> QED
  BY <1>1, <1>2

LEMMA UpdateRoleKeeps ==
  ASSUME ConvInv, NEW x \in Roles, NEW st \in {"on", "off", "gone"}, V!UpdateRole(x, st)
  PROVE  ConvInv'
<1>0. /\ UNCHANGED <<conv, space, gens, live, op, locks, req, events>>
      /\ locks.control = V!None /\ role' = [role EXCEPT ![x] = st] /\ calls' = calls + 1
      /\ run' = IF st # "on" /\ conv.coord = x THEN V!RevokeRuns ELSE run
  BY DEF V!UpdateRole
<1>1. /\ ConvTyped /\ V!AppointedRun /\ run \in Runs /\ role \in [Roles -> {"on", "off", "gone"}]
      /\ calls + 1 \in Nat
      /\ conv \in Rows /\ conv.rev >= conv.rev
  BY Known
<1>2. run' \in Runs /\ (run'.st = "active" => run' = run /\ (st = "on" \/ conv.coord # x))
  BY <1>0, <1>1, Revoked
<1>3. ConvTyped'
  BY <1>0, <1>1, <1>2 DEF ConvTyped
<1>4. V!AppointedRun'
  <2>1. conv.members \subseteq Roles
    BY <1>1 DEF Rows
  <2> QED
    BY <1>0, <1>1, <1>2, <2>1 DEF V!AppointedRun
<1>5. V!Kept => V!Kept'
  BY <1>0 DEF V!Kept
<1> QED
  BY <1>0, <1>1, <1>2, <1>3, <1>4, <1>5, Calm

LEMMA ReadStartKeeps ==
  ASSUME ConvInv, NEW r \in Requests, V!ReadStart(r)
  PROVE  ConvInv'
<1> DEFINE q == [V!NoRequest EXCEPT !.pc = "start", !.job = "start", !.coord = conv.coord,
                                    !.exp = conv.app, !.space = conv.ws]
<1>0. /\ ConvTyped /\ GateOK /\ BindingOK /\ UnmadeOK /\ StartOK /\ V!RunsWhereBound /\ V!AppointedRun
      /\ UNCHANGED <<conv, space, role, gens, run, live, op, events>> /\ calls' = calls + 1
      /\ req' = [req EXCEPT ![r] = q] /\ locks' = [locks EXCEPT !.control = r]
      /\ locks.control = V!None /\ conv.st = "kept" /\ V!Coordinated
  BY DEF ConvInv, V!ReadStart, V!Kept
<1>1. /\ conv \in Rows /\ calls + 1 \in Nat /\ V!NoRequest \in Handlers
      /\ locks \in [cleanup : Requests \cup {V!None}, control : Requests \cup {V!None}]
  BY Known, NoRequestTyped
<1>2. q \in Handlers /\ q.pc = "start" /\ q.job = "start" /\ q.coord = conv.coord /\ q.exp = conv.app
  BY <1>1 DEF Handlers, Stages, V!Jobs, Rows
<1> HIDE DEF q
<1>3. req' \in [Requests -> Handlers] /\ req'[r] = q /\ \A h \in Requests : h # r => req'[h] = req[h]
  BY <1>0, <1>2, Moved
<1>4. /\ locks' \in [cleanup : Requests \cup {V!None}, control : Requests \cup {V!None}]
      /\ locks'.cleanup = locks.cleanup /\ locks'.control = r
  BY <1>0, <1>1
<1>5. ConvTyped'
  BY <1>0, <1>1, <1>3, <1>4 DEF ConvTyped
<1>6. GateOK'
  <2>1. \A h \in Requests : JobOK(req'[h])
    BY <1>0, <1>2, <1>3 DEF GateOK, JobOK
  <2>2. \A h \in Requests : Gated(req'[h]) => req'[h] = req[h] /\ h # r
    BY <1>2, <1>3 DEF Gated
  <2> QED
    BY <1>0, <1>4, <2>1, <2>2 DEF GateOK, Gated, JobOK, V!ScopeOf, V!EntriesOf
<1>7. BindingOK'
  <2>1. \A h \in Requests : InPlace(req[h])' => InPlace(req[h]) /\ req'[h] = req[h]
    BY <1>0, <1>2, <1>3 DEF InPlace, Vanished
  <2>2. \A h \in Requests : req'[h].pc = "unbind" => req'[h] = req[h]
    BY <1>2, <1>3
  <2> QED
    BY <1>0, <2>1, <2>2 DEF BindingOK, InPlace
<1>8. UnmadeOK'
  BY <1>0 DEF UnmadeOK, V!None
<1>9. StartOK'
  <2>1. \A h \in Requests : req'[h].pc = "start" => h = r
    BY <1>0, <1>3, NoStart
  <2> QED
    BY <1>0, <1>2, <1>3, <1>4, <2>1 DEF StartOK, V!Coordinated
<1>10. V!RunsWhereBound' /\ V!AppointedRun'
  BY <1>0 DEF V!RunsWhereBound, V!AppointedRun, V!Kept
<1> QED
  BY <1>5, <1>6, <1>7, <1>8, <1>9, <1>10 DEF ConvInv

LEMMA ReserveKeeps ==
  ASSUME ConvInv, NEW g \in 1..Len(gens), NEW s \in Spaces, V!Reserve(g, s)
  PROVE  ConvInv'
<1>0. /\ UNCHANGED <<conv, space, role, gens, run, op, locks, req, calls, events>> /\ live' = live \cup {s}
      /\ op[V!Conv] = V!None /\ op[s] = V!None /\ V!Kept /\ conv.ws = s /\ space[s] = "on"
  BY DEF V!Reserve, V!Admitted
<1>1. /\ ConvTyped /\ V!AppointedRun /\ conv.rev >= conv.rev /\ (conv.st = V!None => run.st # "active")
      /\ \A h \in Requests : req[h].pc = "start" => locks.control = h
  BY Known
<1>2. ConvTyped' /\ V!AppointedRun' /\ V!RunsWhereBound'
  BY <1>0, <1>1 DEF ConvTyped, V!AppointedRun, ConvInv, V!RunsWhereBound, V!Kept
<1>3. \A r \in Requests : Gated(req'[r]) =>
        /\ locks'.cleanup = r /\ op'[V!ScopeOf(req[r])] = "running"
        /\ \A x \in live' : x \in live \/ V!ScopeOf(req[r]) \notin {x, V!Conv}
  <2>1. \A r \in Requests : Gated(req[r]) => locks.cleanup = r /\ op[V!ScopeOf(req[r])] = "running"
    BY DEF ConvInv, GateOK, Gated
  <2>2. op[V!Conv] # "running" /\ op[s] # "running"
    BY <1>0 DEF V!None
  <2> QED
    BY <1>0, <2>1, <2>2
<1>4. \A r \in Requests : req'[r] = req[r]
  BY <1>0
<1>5. \A r \in Requests : req'[r].pc = "start" =>
        /\ locks'.control = r /\ conv'.app = conv.app /\ conv'.coord = conv.coord
        /\ conv'.members = conv.members /\ role' = role
  BY <1>0, <1>1
<1>6. \A x \in Spaces : space[x] = "gone" => space'[x] = "gone"
  BY <1>0
<1> QED
  BY <1>0, <1>1, <1>2, <1>3, <1>4, <1>5, <1>6, Still

\* A rebind in place finds the workspace it names, or one that was deleted and is refused.
LEMMA AloneBinds ==
  ASSUME ConvInv, NEW r \in Requests, req[r].pc = "alone", req[r].job = "rebind", V!Rebound(req[r], FALSE)
  PROVE  conv.ws = req[r].space /\ conv.st = "kept" /\ conv.rev = req[r].exp
<1>1. conv.st = "kept" /\ conv.rev = req[r].exp /\ V!Available(req[r].space)
  BY DEF V!Rebound, V!Kept
<1>2. ~Vanished(req[r])
  BY <1>1, OwnerAssumption DEF Vanished, V!Available
<1> QED
  BY <1>1, <1>2 DEF ConvInv, BindingOK

LEMMA ApplyAloneKeeps ==
  ASSUME ConvInv, NEW r \in Requests, V!ApplyAlone(r)
  PROVE  ConvInv' /\ conv'.ws = conv.ws
<1> DEFINE q == req[r]
           ok == q.job = "rebind" /\ V!Rebound(q, FALSE)
           rev == q.exp + 1
<1>0. /\ UNCHANGED <<role, gens, run, live, op, locks, calls, events>>
      /\ q.pc = "alone" /\ locks.cleanup = V!None /\ req' = V!Finished(r)
      /\ conv' = IF ok THEN V!Bound(q.space, rev) ELSE conv
      /\ space' = IF q.job = "enable" /\
           space[q.space] = "off" THEN [space EXCEPT ![q.space] = "on"] ELSE space
      /\ q \in Handlers
  BY TypedRequests DEF V!ApplyAlone
<1>1. /\ ConvTyped /\ V!AppointedRun /\ conv \in Rows /\ conv.rev \in Nat
      /\ (conv.st = V!None => run.st # "active")
      /\ \A h \in Requests : req[h].pc = "start" => locks.control = h
  BY Known
<1>2. rev \in Nat /\ rev = q.exp + 1 /\ q.exp \in Nat
  BY <1>0 DEF Handlers
<1>3. ok => conv.ws = q.space /\ conv.st = "kept" /\ conv.rev = q.exp
  BY <1>0, AloneBinds
<1> HIDE DEF rev, ok
<1>4. /\ conv' \in Rows /\ conv'.ws = conv.ws /\ conv'.rev >= conv.rev /\ conv'.st = conv.st
      /\ conv'.app = conv.app /\ conv'.coord = conv.coord /\ conv'.members = conv.members
  <2>1. CASE ~ok
    BY <1>0, <1>1, <2>1
  <2>2. CASE ok
    <3>1. rev \in Nat /\ rev >= conv.rev
      BY <1>1, <1>2, <1>3, <2>2
    <3>2. conv' = V!Bound(conv.ws, rev)
      BY <1>0, <1>3, <2>2
    <3> QED
      BY <1>1, <3>1, <3>2 DEF V!Bound, Rows
  <2> QED
    BY <2>1, <2>2
<1>5. /\ req' \in [Requests -> Handlers] /\ req'[r].pc = "idle" /\ req'[r].job = V!None /\ JobOK(req'[r])
      /\ \A h \in Requests : h # r => req'[h] = req[h]
  BY <1>0, Done
<1>6. /\ space' \in [Spaces -> {"on", "off", "gone"}]
      /\ \A s \in Spaces : (space[s] = "gone" => space'[s] = "gone") /\
           (space[s] = "on" => space'[s] = "on")
  BY <1>0, <1>1 DEF ConvTyped
<1>7. ConvTyped' /\ V!AppointedRun'
  BY <1>0, <1>1, <1>4, <1>5, <1>6 DEF ConvTyped, V!AppointedRun
<1>8. V!RunsWhereBound'
  BY <1>0, <1>1, <1>4, <1>6 DEF ConvInv, ConvTyped, V!RunsWhereBound, V!Kept
<1>9. \A h \in Requests :
        \/ req'[h] = req[h]
        \/ req'[h].pc \in {"idle", "stop"} /\ JobOK(req'[h]) /\ req'[h].job \in {V!None, req[h].job}
  BY <1>5
<1>10. \A h \in Requests : ~Gated(req'[h])
  BY <1>0, <1>5, NoCleanup DEF Gated
<1>11. \A h \in Requests : req'[h].pc = "start" => locks'.control = h
  BY <1>0, <1>1, <1>5
<1>12. \A s \in Spaces : space[s] = "gone" => space'[s] = "gone"
  BY <1>6
<1>13. \A h \in Requests : req'[h].pc = "start" =>
        /\ locks'.control = h /\ conv'.app = conv.app /\ conv'.coord = conv.coord
        /\ conv'.members = conv.members /\ role' = role
  BY <1>0, <1>4, <1>11
<1>14. conv'.st = V!None <=> conv.st = V!None
  BY <1>4
<1>15. conv.st = V!None => run'.st # "active"
  BY <1>0, <1>1
<1> QED
  BY <1>4, <1>7, <1>8, <1>9, <1>10, <1>12, <1>13, <1>14, <1>15, Still

LEMMA RestartKeeps ==
  ASSUME ConvInv, V!Restart
  PROVE  ConvInv'
<1>0. /\ UNCHANGED <<space, role, calls>> /\ conv.st # V!None /\ live' = {}
      /\ req' = [r \in Requests |-> V!NoRequest] /\ locks' = [cleanup |-> V!None, control |-> V!None]
      /\ run' = (IF V!RunActive THEN [run EXCEPT !.st = "over"] ELSE run)
      /\ op' = [c \in V!Scopes |-> V!None]
      /\ conv' = IF conv.st = "bin" /\ conv.old THEN [conv EXCEPT !.st = "gone"] ELSE conv
  BY DEF V!Restart
<1>1. ConvTyped /\ V!AppointedRun /\ conv \in Rows /\ run \in Runs
  BY Known
<1>2. \A r \in Requests : req'[r] = V!NoRequest /\ req'[r].pc = "idle" /\ JobOK(req'[r])
  BY <1>0, NoRequestTyped DEF V!NoRequest
<1>3. conv' \in Rows /\ conv'.st # V!None /\ run' \in Runs /\ run'.st # "active"
  <2>1. conv' \in Rows /\ conv'.st # V!None
    <3>1. "gone" # V!None
      BY DEF V!None
    <3> QED
      BY <1>0, <1>1, <3>1 DEF Rows
  <2>2. run' \in Runs /\ run'.st # "active"
    BY <1>0, <1>1 DEF Runs, V!RunActive
  <2> QED
    BY <2>1, <2>2
<1>4. ConvTyped'
  BY <1>0, <1>1, <1>3, NoRequestTyped DEF ConvTyped
<1>5. GateOK'
  BY <1>2 DEF GateOK, JobOK
<1>6. BindingOK' /\ StartOK'
  BY <1>2 DEF BindingOK, StartOK
<1>7. UnmadeOK' /\ V!RunsWhereBound' /\ V!AppointedRun'
  BY <1>0, <1>3 DEF UnmadeOK, V!RunsWhereBound, V!AppointedRun
<1> QED
  BY <1>4, <1>5, <1>6, <1>7 DEF ConvInv

-----------------------------------------------------------------------------

LEMMA ConvBegins == V!Init => ConvInv
<1> SUFFICES ASSUME V!Init PROVE ConvInv
  OBVIOUS
<1>1. /\ space = [s \in Spaces |-> "on"] /\ role = [x \in Roles |-> "on"] /\ run = V!NoRun /\ live = {}
      /\ op = [c \in V!Scopes |-> V!None] /\ locks = [cleanup |-> V!None, control |-> V!None]
      /\ req = [r \in Requests |-> V!NoRequest] /\ calls = 0
  BY DEF V!Init
<1>2. \A r \in Requests : req[r] = V!NoRequest /\ req[r].pc = "idle" /\ req[r].job = V!None /\ JobOK(req[r])
  BY <1>1, NoRequestTyped DEF V!NoRequest
<1>3. conv \in Rows /\ (conv.st = V!None => conv.ws = V!None)
  <2>1. CASE \E kind \in {"single", "group"} :
               conv = [kind |-> kind, st |-> V!None, ws |-> V!None, rev |-> 0, members |-> {},
                       coord |-> V!None, app |-> 0, old |-> FALSE]
    BY <2>1 DEF Rows
  <2>2. CASE \E ws \in Spaces \cup {V!None} :
               conv = [kind |-> "group", st |-> "kept", ws |-> ws, rev |-> 1, members |-> Roles,
                       coord |-> Alone, app |-> 1, old |-> FALSE]
    <3>1. "kept" # V!None
      BY DEF V!None
    <3> QED
      BY <2>2, <3>1, OwnerAssumption DEF Rows
  <2> QED
    BY <2>1, <2>2 DEF V!Init
<1>4. run \in Runs /\ run.st # "active"
  BY <1>1 DEF V!NoRun, Runs, V!None
<1>5. ConvTyped
  BY <1>1, <1>3, <1>4, NoRequestTyped DEF ConvTyped
<1>6. GateOK
  BY <1>2 DEF GateOK, JobOK
<1>7. BindingOK /\ StartOK
  BY <1>2 DEF BindingOK, StartOK
<1>8. UnmadeOK /\ V!RunsWhereBound /\ V!AppointedRun
  BY <1>1, <1>2, <1>3, <1>4 DEF UnmadeOK, V!RunsWhereBound, V!AppointedRun
<1> QED
  BY <1>5, <1>6, <1>7, <1>8 DEF ConvInv

LEMMA ConvKeeps ==
  ASSUME ConvInv, [V!Next]_(V!vars)
  PROVE  ConvInv'
<1>0. /\ conv \in Rows /\ conv.rev \in Nat /\ calls \in Nat /\ calls + 1 \in Nat
  BY Known
<1>1. CASE UNCHANGED V!vars
  BY <1>1 DEF V!vars, ConvInv, ConvTyped, GateOK, JobOK, V!ScopeOf, V!EntriesOf, BindingOK,
              Vanished, UnmadeOK, StartOK, V!RunsWhereBound, V!AppointedRun, V!Kept
<1>2. CASE \E members \in SUBSET Roles, coord \in Roles \cup {V!None}, s \in Spaces \cup {V!None} :
             V!Create(members, coord, s)
  BY <1>2, CreateKeeps
<1>3. CASE \E r \in Requests :
             \/ \E s \in Spaces \cup {V!None}, confirm \in BOOLEAN : V!AskRebind(r, s, confirm)
             \/ \E confirm \in BOOLEAN : V!AskDelete(r, confirm)
             \/ \E job \in {"enable", "disable", "discard"}, s \in Spaces, confirm \in BOOLEAN :
                  V!AskSpace(r, job, s, confirm)
             \/ \E x \in Roles \cup {V!None} : V!AskAppoint(r, x)
             \/ \E members \in SUBSET Roles : V!AskMembers(r, members)
             \/ \E targets \in SUBSET conv.members : V!AskSend(r, targets)
  BY <1>3, Asks
<1>4. ASSUME NEW r \in Requests,
             \/ V!Freeze(r) \/ V!Drain(r) \/ V!DrainFails(r)
             \/ V!ApplyRebind(r) \/ V!ApplyDelete(r) \/ V!ApplyDisable(r)
             \/ V!ReadBound(r) \/ V!Unbind(r) \/ V!ApplyAlone(r) \/ V!Appoint(r) \/ V!UpdateMembers(r)
             \/ V!StopRevoked(r) \/ V!InsertMessage(r) \/ V!ReadStart(r) \/ V!InsertRun(r)
      PROVE  ConvInv'
  <2>1. CASE \/ V!Freeze(r) \/ V!Drain(r) \/ V!DrainFails(r)
            \/ V!ApplyRebind(r) \/ V!ApplyDelete(r) \/ V!ApplyDisable(r)
    BY <2>1, FreezeKeeps, DrainKeeps, DrainFailsKeeps, ApplyRebindKeeps, ApplyDeleteKeeps, ApplyDisableKeeps
  <2>2. CASE V!ReadBound(r) \/ V!Unbind(r) \/ V!ApplyAlone(r) \/ V!Appoint(r) \/ V!UpdateMembers(r)
    BY <2>2, ReadBoundKeeps, UnbindKeeps, ApplyAloneKeeps, AppointKeeps, UpdateMembersKeeps
  <2>3. CASE V!StopRevoked(r) \/ V!InsertMessage(r) \/ V!ReadStart(r) \/ V!InsertRun(r)
    BY <2>3, StopRevokedKeeps, InsertMessageKeeps, ReadStartKeeps, InsertRunKeeps
  <2> QED
    BY <1>4, <2>1, <2>2, <2>3
<1>5. CASE \E x \in Roles, st \in {"on", "off", "gone"} : V!UpdateRole(x, st)
  BY <1>5, UpdateRoleKeeps
<1>6. ASSUME NEW g \in 1..Len(gens), V!Begin(g) \/ V!End(g) \/ \E s \in Spaces : V!Reserve(g, s)
      PROVE  ConvInv'
  <2>1. CASE V!Begin(g) \/ V!End(g)
    <3>1. UNCHANGED <<conv, space, role, run, live, op, locks, req, calls, events>>
      BY <2>1 DEF V!Begin, V!End
    <3> QED
      BY <1>0, <3>1, QuietKeeps
  <2>2. CASE \E s \in Spaces : V!Reserve(g, s)
    BY <2>2, ReserveKeeps
  <2> QED
    BY <1>6, <2>1, <2>2
<1>7. CASE \E s \in Spaces : V!Exit(s)
  <2>1. UNCHANGED <<conv, space, role, run, op, locks, req, calls, events>> /\ live' \subseteq live
    BY <1>7 DEF V!Exit
  <2> QED
    BY <1>0, <2>1, QuietKeeps
<1>8. CASE V!Restore
  <2>1. /\ UNCHANGED <<space, role, run, live, op, locks, req>> /\ calls' \in Nat
        /\ conv.st = "bin" /\ conv' = [conv EXCEPT !.st = "kept", !.old = FALSE]
    BY <1>0, <1>8 DEF V!Restore
  <2>2. conv' \in Rows
    BY <1>0, <2>1 DEF Rows
  <2>3. \E st \in {"kept", "bin"}, old \in BOOLEAN :
          conv.st = "bin" /\ conv' = [conv EXCEPT !.st = st, !.old = old]
    BY <2>1
  <2> QED
    BY <2>1, <2>2, <2>3, QuietKeeps
<1>9. CASE V!Expire
  <2>1. /\ UNCHANGED <<space, role, run, live, op, locks, req, calls>>
        /\ conv.st = "bin" /\ conv' = [conv EXCEPT !.old = TRUE]
    BY <1>9 DEF V!Expire
  <2>2. conv' \in Rows /\ conv' = [conv EXCEPT !.st = "bin", !.old = TRUE]
    BY <1>0, <2>1 DEF Rows
  <2>3. \E st \in {"kept", "bin"}, old \in BOOLEAN :
          conv.st = "bin" /\ conv' = [conv EXCEPT !.st = st, !.old = old]
    BY <2>1, <2>2
  <2> QED
    BY <1>0, <2>1, <2>2, <2>3, QuietKeeps
<1>10. CASE V!StopGeneration
  <2>1. /\ UNCHANGED <<conv, space, role, live, op, locks, req>> /\ calls' \in Nat
        /\ run' \in {run, V!RevokeRuns}
    BY <1>0, <1>10 DEF V!StopGeneration
  <2> QED
    BY <1>0, <2>1, QuietKeeps
<1>11. CASE V!Advance
  <2>1. /\ UNCHANGED <<conv, space, role, live, op, locks, req, calls>>
        /\ run' \in {run, V!RevokeRuns, [run EXCEPT !.st = "over"]}
    BY <1>11 DEF V!Advance
  <2> QED
    BY <1>0, <2>1, QuietKeeps
<1>12. CASE V!Restart
  BY <1>12, RestartKeeps
<1> QED
  BY <1>1, <1>2, <1>3, <1>4, <1>5, <1>6, <1>7, <1>8, <1>9, <1>10, <1>11, <1>12 DEF V!Next

LEMMA ConvHolds == V!Spec => []ConvInv
<1>1. V!Init => ConvInv
  BY ConvBegins
<1>2. ConvInv /\ [V!Next]_(V!vars) => ConvInv'
  BY ConvKeeps
<1> QED
  BY <1>1, <1>2, PTL DEF V!Spec

\* What is exchanged while the conversation is kept is exchanged when nothing works in it.
LEMMA Exchanged ==
  ASSUME ConvInv, [V!Next]_(V!vars), conv.st = "kept", conv'.ws # conv.ws,
         conv.ws = V!None \/ space'[conv.ws] # "gone"
  PROVE  ~V!ActiveChain
<1>0. conv \in Rows /\ space \in [Spaces -> {"on", "off", "gone"}]
  BY DEF ConvInv, ConvTyped
<1>1. CASE conv' = conv
  BY <1>1
<1>2. CASE \E members \in SUBSET Roles, coord \in Roles \cup {V!None}, s \in Spaces \cup {V!None} :
             V!Create(members, coord, s)
  BY <1>2 DEF V!Create, V!None
<1>3. ASSUME NEW r \in Requests, V!ApplyRebind(r)
      PROVE  ~V!ActiveChain
  BY <1>3 DEF V!ApplyRebind, V!Rebound
<1>4. ASSUME NEW r \in Requests, V!ApplyDelete(r) \/ V!Appoint(r) \/ V!UpdateMembers(r) \/ V!ApplyAlone(r)
      PROVE  FALSE
  <2>1. CASE V!ApplyDelete(r)
    BY <1>0, <2>1 DEF V!ApplyDelete, Rows
  <2>2. CASE V!Appoint(r)
    BY <1>0, <2>2 DEF V!Appoint, Rows
  <2>3. CASE V!UpdateMembers(r)
    BY <1>0, <2>3 DEF V!UpdateMembers, Rows
  <2>4. CASE V!ApplyAlone(r)
    BY <2>4, ApplyAloneKeeps
  <2> QED
    BY <1>4, <2>1, <2>2, <2>3, <2>4
<1>5. ASSUME NEW r \in Requests, V!Unbind(r)
      PROVE  FALSE
  <2>1. /\ req[r].space \in Spaces /\ space'[req[r].space] = "gone"
        /\ conv.ws # req[r].space => conv' = conv
    BY <1>0, <1>5, TypedRequests DEF V!Unbind, JobOK
  <2> QED
    BY <2>1, OwnerAssumption
<1>6. CASE V!Restore \/ V!Expire \/ V!Restart
  BY <1>0, <1>6 DEF V!Restore, V!Expire, V!Restart, Rows
<1>7. CASE UNCHANGED conv
  BY <1>7
<1>8. \/ UNCHANGED conv \/ V!Restore \/ V!Expire \/ V!Restart
      \/ \E members \in SUBSET Roles, coord \in Roles \cup {V!None}, s \in Spaces \cup {V!None} :
           V!Create(members, coord, s)
      \/ \E r \in Requests : \/ V!ApplyRebind(r) \/ V!ApplyDelete(r) \/ V!Appoint(r) \/ V!UpdateMembers(r)
                             \/ V!ApplyAlone(r) \/ V!Unbind(r)
  BY DEF V!Next, V!vars, V!Ask, V!AskRebind, V!AskDelete, V!AskSpace, V!AskAppoint, V!AskMembers, V!AskSend,
         V!Freeze, V!Drain, V!DrainFails, V!ApplyDisable, V!ReadBound, V!StopRevoked, V!InsertMessage,
         V!ReadStart, V!InsertRun, V!UpdateRole, V!Begin, V!End, V!Reserve, V!Exit, V!StopGeneration,
           V!Advance
<1> QED
  BY <1>2, <1>3, <1>4, <1>5, <1>6, <1>7, <1>8

\* A behaviour of the composition is one of the conversation, which the shell calls leave alone.
LEMMA ConvRun == PartSpec => V!Spec
<1>1. PartInit => V!Init
  BY DEF PartInit
<1>2. [PartNext]_partVars => [V!Next]_(V!vars)
  BY DEF PartNext, partVars, convVars, V!vars
<1> QED
  BY <1>1, <1>2, PTL DEF PartSpec, V!Spec

\* Commands and services of a conversation run only in the workspace it is bound to, for any number
\* of requests that rebind, disable, delete or restore while they start (cleanup_scope, _admission).
THEOREM RunsBound == PartSpec => []RunsWhereBound
<1>1. ConvInv => RunsWhereBound
  BY DEF ConvInv, RunsWhereBound
<1> QED
  BY <1>1, ConvHolds, ConvRun, PTL

\* A run that may dispatch has the appointment it was started under, whatever requests change the
\* coordinator, the members or the roles beside it (appoint_orchestrator, update_group_members, start).
THEOREM RunsAppointed == PartSpec => []AppointedRun
<1>1. ConvInv => AppointedRun
  BY DEF ConvInv, AppointedRun
<1> QED
  BY <1>1, ConvHolds, ConvRun, PTL

\* The workspace under a message chain that waits or works is exchanged by no step, unless the
\* workspace itself is deleted (update_conversation_workspace).
THEOREM BindingStays == PartSpec => BoundWhileIdle
<1>1. ConvInv /\ [V!Next]_(V!vars) =>
        [conv.st = "kept" /\ conv'.ws # conv.ws /\ (conv.ws = V!None \/ space'[conv.ws] # "gone") =>
           ~V!ActiveChain]_(V!vars)
  BY Exchanged
<1> QED
  BY <1>1, ConvHolds, ConvRun, PTL DEF V!Spec, BoundWhileIdle, V!BoundWhileIdle

-----------------------------------------------------------------------------
(* The servers                                                              *)

HostRecords ==
  [key : Keys, at : {"new", "opening", "opened", "serving", "leaving", "over"},
   ready : {"pending", "ok", "failed", "cancelled"}, queue : Seq(Callers), now : Callers \cup {S!None},
   pid : Nat, before : SUBSET Nat, cancel : BOOLEAN, alone : BOOLEAN]

Waits == [pc : {"idle", "ready", "asked", "answered", "failed", "cancelled"}, host : Nat]

ServersTyped ==
  /\ host \in Seq(HostRecords) /\ tree \in Seq({"none", "up", "grand", "gone"}) /\ Len(tree) = Len(host)
  /\ pool \in [Keys -> {0} \cup S!Hosts]
  /\ caller \in [Callers -> Waits]

\* Who waits has a host, and a host that has ended has told.
ToldOK ==
  /\ \A c \in Callers : caller[c].pc = "ready" => caller[c].host \in S!Hosts
  /\ \A h \in S!Hosts : host[h].at = "over" => host[h].ready # "pending"

\* A host r that was opened alone knows its own process or none, the process is there from its
\* opening to the end of its task, or gone with its whole tree once it was closed.
TreeOK(h, r, t) ==
  /\ r.at = "new" => t = "none" /\ r.alone
  /\ r.at \in {"new", "opening"} => r.pid = 0
  /\ r.at = "opening" => h \notin r.before
  /\ r.alone /\ r.at = "opening" => t \in {"none", "up"}
  /\ r.alone /\ r.at \in {"opened", "serving", "leaving"} => r.pid = h /\ t = IF r.cancel THEN "gone" ELSE "up"
  /\ r.alone /\ r.at = "over" /\ r.cancel /\ r.pid # 0 => t = "gone"

\* Two hosts of which one was opened alone are not opened together, and the one finds the
\* process of the other among its first children.
OpeningOK ==
  \A g, f \in S!Hosts : g # f /\ host[g].at = "opening" /\ (host[g].alone \/ host[f].alone) =>
    host[f].at # "opening" /\ (tree[f] = "up" => f \in host[g].before)

\* Nobody takes the process of a host that was opened alone.
TakenOK ==
  \A g \in S!Hosts : /\ host[g].pid \in {0} \cup S!Hosts
                     /\ \A f \in S!Hosts : g # f /\ host[f].alone => host[g].pid # f

TreesInv == OpeningOK /\ TakenOK /\ \A h \in S!Hosts : TreeOK(h, host[h], tree[h])

ServersInv == ServersTyped /\ ToldOK /\ TreesInv

LEMMA ServersInit == S!Init => ServersInv
BY DEF S!Init, ServersInv, TreesInv, OpeningOK, TakenOK, ServersTyped, ToldOK, S!Hosts, Waits

\* A host begins to open with the children there are, alone if nobody else is opening, and only
\* the tree of a host that is being opened comes up.
Apart(h, r, t) ==
  /\ r.at = "opening" => \/ host[h].at = "opening" /\ r.before = host[h].before
                         \/ /\ r.before = S!Children
                            /\ \A g \in S!Opening : ~r.alone /\ ~host'[g].alone
  /\ t = "up" /\ tree[h] # "up" => host[h].at = "opening"
  /\ r.alone => host[h].alone
  /\ \/ r.pid = host[h].pid
     \/ r.pid \in {0} \cup S!Hosts /\ \A f \in S!Hosts : f # h /\ host[f].alone => r.pid # f

\* The others keep their records, but for the one that is no longer alone, and their trees, but
\* for one that is ended and was not opened alone.
OthersKept(h) ==
  \A g \in S!Hosts \ {h} :
    /\ host'[g].at = host[g].at /\ host'[g].pid = host[g].pid /\ host'[g].cancel = host[g].cancel
    /\ host'[g].before = host[g].before /\ host'[g].ready = host[g].ready /\ (host'[g].alone => host[g].alone)
    /\ host[g].at = "new" /\ host[g].alone => host'[g].alone
    /\ tree'[g] = tree[g] \/ (tree[g] = "up" /\ tree'[g] = "gone" /\ ~host[g].alone)

\* A step of one host.
LEMMA HostsMove ==
  ASSUME ServersInv, NEW h \in S!Hosts,
         host' \in Seq(HostRecords), Len(host') = Len(host),
         tree' \in Seq({"none", "up", "grand", "gone"}), Len(tree') = Len(tree),
         pool' \in [Keys -> {0} \cup S!Hosts],
         caller' \in [Callers -> Waits],
         \A c \in Callers : caller'[c].pc = "ready" => caller[c].pc = "ready" /\ caller'[c].host = caller[c].host,
         host'[h].at = "over" => host'[h].ready # "pending",
         TreeOK(h, host'[h], tree'[h]), Apart(h, host'[h], tree'[h]), OthersKept(h)
  PROVE  ServersInv'
<1>0. ServersTyped /\ ToldOK /\ OpeningOK /\ TakenOK /\ \A g \in S!Hosts : TreeOK(g, host[g], tree[g])
  BY DEF ServersInv, TreesInv
<1>1. S!Hosts' = S!Hosts
  BY DEF S!Hosts
<1>2. ServersTyped'
  BY <1>0, <1>1 DEF ServersTyped
<1>3. ToldOK'
  BY <1>0, <1>1 DEF ToldOK, OthersKept
<1>4. ASSUME NEW g \in S!Hosts PROVE TreeOK(g, host'[g], tree'[g])
  <2>1. CASE g = h
    BY <2>1
  <2>2. CASE g # h
    BY <1>0, <2>2 DEF TreeOK, OthersKept
  <2> QED
    BY <2>1, <2>2
<1>5. ASSUME NEW g \in S!Hosts, NEW f \in S!Hosts, g # f, host'[g].at = "opening",
             host'[g].alone \/ host'[f].alone
      PROVE  host'[f].at # "opening" /\ (tree'[f] = "up" => f \in host'[g].before)
  <2>1. CASE g = h /\ host[h].at = "opening" /\ host'[h].before = host[h].before
    BY <1>0, <1>5, <2>1 DEF OpeningOK, Apart, OthersKept
  <2>2. CASE g = h /\ ~(host[h].at = "opening" /\ host'[h].before = host[h].before)
    <3>1. host'[h].before = S!Children /\ \A e \in S!Opening : ~host'[h].alone /\ ~host'[e].alone
      BY <1>5, <2>2 DEF Apart
    <3>2. f \notin S!Opening
      BY <1>5, <2>2, <3>1
    <3>3. tree'[f] = "up" => tree[f] = "up"
      BY <1>5, <2>2 DEF OthersKept
    <3> QED
      BY <1>5, <2>2, <3>1, <3>2, <3>3 DEF S!Opening, S!Children, OthersKept
  <2>3. CASE f = h
    <3>1. host[g].at = "opening" /\ host'[g].before = host[g].before /\ (host'[g].alone => host[g].alone)
      BY <1>5, <2>3 DEF OthersKept
    <3>2. host'[h].alone => host[h].alone
      BY DEF Apart
    <3>3. host[h].at # "opening" /\ (tree[h] = "up" => h \in host[g].before)
      BY <1>0, <1>5, <2>3, <3>1, <3>2 DEF OpeningOK
    <3>4. host'[h].at # "opening"
      BY <1>5, <2>3, <3>1, <3>3 DEF Apart, S!Opening
    <3> QED
      BY <1>5, <2>3, <3>1, <3>3, <3>4 DEF Apart
  <2>4. CASE g # h /\ f # h
    BY <1>0, <1>5, <2>4 DEF OpeningOK, OthersKept
  <2> QED
    BY <2>1, <2>2, <2>3, <2>4
<1>6. ASSUME NEW g \in S!Hosts, NEW f \in S!Hosts, g # f, host'[f].alone PROVE host'[g].pid # f
  <2>1. host[f].alone
    BY <1>6 DEF OthersKept, Apart
  <2>2. host[g].pid # f
    BY <1>0, <1>6, <2>1 DEF TakenOK
  <2> QED
    BY <1>6, <2>1, <2>2 DEF OthersKept, Apart
<1>7. OpeningOK'
  BY <1>1, <1>5 DEF OpeningOK
<1>b. \A g \in S!Hosts : host'[g].pid \in {0} \cup S!Hosts
  BY <1>0 DEF TakenOK, OthersKept, Apart
<1>8. TakenOK'
  BY <1>1, <1>6, <1>b DEF TakenOK
<1> QED
  BY <1>1, <1>2, <1>3, <1>4, <1>7, <1>8 DEF ServersInv, TreesInv

\* A step that changes the record and the tree of one host.
LEMMA TaskMoves ==
  ASSUME ServersInv, NEW h \in S!Hosts, NEW r \in HostRecords, NEW t \in {"none", "up", "grand", "gone"},
         host' = [host EXCEPT ![h] = r], tree' = [tree EXCEPT ![h] = t],
         pool' \in [Keys -> {0} \cup S!Hosts],
         caller' \in [Callers -> Waits],
         \A c \in Callers : caller'[c].pc = "ready" => caller[c].pc = "ready" /\ caller'[c].host = caller[c].host,
         r.at = "over" => r.ready # "pending",
         TreeOK(h, r, t), Apart(h, r, t)
  PROVE  ServersInv'
<1>1. /\ host \in Seq(HostRecords) /\ Len(tree) = Len(host) /\ h \in 1..Len(host)
      /\ tree \in Seq({"none", "up", "grand", "gone"})
  BY DEF ServersInv, ServersTyped, S!Hosts
<1>2. host' \in Seq(HostRecords) /\ Len(host') = Len(host)
  BY <1>1
<1>3. tree' \in Seq({"none", "up", "grand", "gone"}) /\ Len(tree') = Len(tree)
  BY <1>1
<1>4. \A g \in S!Hosts : /\ host'[g] = IF g = h THEN r ELSE host[g]
                         /\ tree'[g] = IF g = h THEN t ELSE tree[g]
  BY <1>1 DEF S!Hosts
<1>5. OthersKept(h) /\ host'[h] = r /\ tree'[h] = t
  BY <1>4 DEF OthersKept
<1> QED
  BY <1>2, <1>3, <1>5, HostsMove

\* A step in which a host ends, or is closed, and the tree of the process it took for its own
\* is ended with it.
LEMMA TaskKills ==
  ASSUME ServersInv, NEW h \in S!Hosts, NEW r \in HostRecords, NEW t \in {"none", "up", "grand", "gone"},
         host' = [host EXCEPT ![h] = r], tree' = S!Killed([tree EXCEPT ![h] = t], host[h].pid),
         pool' \in [Keys -> {0} \cup S!Hosts],
         caller' \in [Callers -> Waits],
         \A c \in Callers : caller'[c].pc = "ready" => caller[c].pc = "ready" /\ caller'[c].host = caller[c].host,
         r.at = "over" => r.ready # "pending", t = tree[h] \/ t # "up",
         (r.at = host[h].at /\ r.before = host[h].before) \/ r.at = "over",
         r.pid = host[h].pid, r.alone = host[h].alone,
         TreeOK(h, r, IF host[h].pid = h /\ t = "up" THEN "gone" ELSE t)
  PROVE  ServersInv'
<1>1. /\ host \in Seq(HostRecords) /\ Len(tree) = Len(host) /\ h \in 1..Len(host)
      /\ tree \in Seq({"none", "up", "grand", "gone"})
  BY DEF ServersInv, ServersTyped, S!Hosts
<1>2. host' \in Seq(HostRecords) /\ Len(host') = Len(host)
  BY <1>1
<1> DEFINE b == [tree EXCEPT ![h] = t]
<1>3. b \in Seq({"none", "up", "grand", "gone"}) /\ Len(b) = Len(tree) /\ DOMAIN b = 1..Len(tree)
      /\ \A g \in 1..Len(tree) : b[g] = IF g = h THEN t ELSE tree[g]
  BY <1>1
<1> HIDE DEF b
<1> DEFINE e(g) == IF g = host[h].pid /\ b[g] = "up" THEN "gone" ELSE b[g]
<1>4. tree' = [g \in 1..Len(tree) |-> e(g)]
  BY <1>3 DEF S!Killed, b
<1>a. \A g \in 1..Len(tree) : e(g) \in {"none", "up", "grand", "gone"}
  BY <1>3
<1>c. \A g \in 1..Len(tree) : e(g) = IF g = host[h].pid /\ b[g] = "up" THEN "gone" ELSE b[g]
  OBVIOUS
<1> HIDE DEF e
<1>b. Len(tree) \in Nat
  BY <1>1
<1>5. tree' \in Seq({"none", "up", "grand", "gone"}) /\ Len(tree') = Len(tree)
  <2> DEFINE m == Len(tree)
             f == [g \in 1..m |-> e(g)]
  <2>1. m \in Nat /\ (\A g \in 1..m : e(g) \in {"none", "up", "grand", "gone"}) /\ tree' = f
    BY <1>4, <1>a, <1>b
  <2> HIDE DEF m
  <2>2. f \in Seq({"none", "up", "grand", "gone"}) /\ Len(f) = m
    BY <2>1
  <2> HIDE DEF f
  <2>3. tree' \in Seq({"none", "up", "grand", "gone"}) /\ Len(tree') = m
    BY <2>1, <2>2
  <2> QED
    BY <2>3 DEF m
<1>6. \A g \in S!Hosts : host'[g] = IF g = h THEN r ELSE host[g]
  BY <1>1 DEF S!Hosts
<1>7. \A g \in S!Hosts : tree'[g] = IF g = host[h].pid /\ b[g] = "up" THEN "gone" ELSE b[g]
  BY <1>1, <1>4, <1>c DEF S!Hosts
<1>8. TakenOK
  BY DEF ServersInv, TreesInv
<1>9. OthersKept(h)
  <2> SUFFICES ASSUME NEW g \in S!Hosts, g # h
               PROVE  /\ host'[g] = host[g]
                      /\ tree'[g] = tree[g] \/ (tree[g] = "up" /\ tree'[g] = "gone" /\ ~host[g].alone)
    BY DEF OthersKept
  <2>1. host'[g] = host[g] /\ b[g] = tree[g]
    BY <1>1, <1>3, <1>6 DEF S!Hosts
  <2>2. g = host[h].pid => ~host[g].alone
    BY <1>8 DEF TakenOK
  <2> QED
    BY <1>7, <2>1, <2>2
<1>10. host'[h] = r /\ tree'[h] = IF host[h].pid = h /\ t = "up" THEN "gone" ELSE t
  BY <1>1, <1>3, <1>6, <1>7 DEF S!Hosts
<1>11. TreeOK(h, host'[h], tree'[h])
  BY <1>10
<1>12. Apart(h, host'[h], tree'[h])
  BY <1>10 DEF Apart
<1> QED
  BY <1>2, <1>5, <1>9, <1>10, <1>11, <1>12, HostsMove

\* What is known of a host before its step.
LEMMA HostKnown ==
  ASSUME ServersInv, NEW h \in S!Hosts
  PROVE  /\ host[h] \in HostRecords /\ tree[h] \in {"none", "up", "grand", "gone"}
         /\ pool \in [Keys -> {0} \cup S!Hosts] /\ caller \in [Callers -> Waits]
         /\ host = [host EXCEPT ![h] = host[h]] /\ tree = [tree EXCEPT ![h] = tree[h]]
         /\ S!Hosts \subseteq Nat \ {0}
         /\ host[h].at = "over" => host[h].ready # "pending"
         /\ TreesInv /\ TreeOK(h, host[h], tree[h])
<1>1. ServersTyped /\ ToldOK /\ TreesInv
  BY DEF ServersInv
<1>2. /\ host \in Seq(HostRecords) /\ Len(tree) = Len(host) /\ h \in 1..Len(host)
      /\ tree \in Seq({"none", "up", "grand", "gone"})
  BY <1>1 DEF ServersTyped, S!Hosts
<1>3. /\ host[h] \in HostRecords /\ tree[h] \in {"none", "up", "grand", "gone"}
      /\ host = [host EXCEPT ![h] = host[h]] /\ tree = [tree EXCEPT ![h] = tree[h]]
  BY <1>2
<1>4. S!Hosts \subseteq Nat \ {0}
  BY <1>2 DEF S!Hosts
<1> QED
  BY <1>1, <1>3, <1>4 DEF ServersTyped, ToldOK, TreesInv

LEMMA HostOpens ==
  ASSUME ServersInv, NEW h \in S!Hosts, S!Open(h)
  PROVE  ServersInv'
<1>0. /\ host[h] \in HostRecords /\ S!Hosts \subseteq Nat /\ pool \in [Keys -> {0} \cup S!Hosts] /\ caller \in [Callers -> Waits]
      /\ TreesInv /\ TreeOK(h, host[h], tree[h])
  BY HostKnown
<1>1. /\ host \in Seq(HostRecords) /\ tree \in Seq({"none", "up", "grand", "gone"}) /\ S!Hosts = 1..Len(host)
  BY DEF ServersInv, ServersTyped, S!Hosts
<1> DEFINE r == [host[h] EXCEPT !.at = "opening", !.before = S!Children, !.alone = (S!Opening = {})]
           q(g) == IF g = h THEN r ELSE IF g \in S!Opening THEN [host[g] EXCEPT !.alone = FALSE] ELSE host[g]
<1>2. S!Children \subseteq Nat /\ (S!Opening = {}) \in BOOLEAN
  BY <1>0 DEF S!Children
<1>3. r \in HostRecords
  BY <1>0, <1>2 DEF HostRecords
<1>4. /\ r.at = "opening" /\ r.before = S!Children /\ r.cancel = host[h].cancel /\ r.pid = host[h].pid
      /\ r.alone = (S!Opening = {})
  BY <1>0 DEF HostRecords
<1>5. host' = [g \in S!Hosts |-> q(g)] /\ UNCHANGED <<pool, tree, caller>> /\ host[h].at = "new"
  BY DEF S!Open
<1> HIDE DEF r
<1>6. \A g \in S!Hosts \ {h} : /\ q(g) \in HostRecords /\ q(g).at = host[g].at /\ q(g).pid = host[g].pid
                                /\ q(g).cancel = host[g].cancel /\ q(g).before = host[g].before
                                /\ q(g).ready = host[g].ready /\ (q(g).alone => host[g].alone)
                                /\ (host[g].at = "new" /\ host[g].alone => q(g).alone)
                                /\ (g \in S!Opening => ~q(g).alone)
  <2> TAKE g \in S!Hosts \ {h}
  <2>1. host[g] \in HostRecords
    BY HostKnown
  <2> QED
    BY <2>1 DEF HostRecords, S!Opening
<1>7. q(h) = r
  OBVIOUS
<1> HIDE DEF q
<1>8. host' \in Seq(HostRecords) /\ Len(host') = Len(host)
  BY <1>1, <1>3, <1>5, <1>6, <1>7
<1>9. host'[h] = r /\ \A g \in S!Hosts : host'[g] = q(g)
  BY <1>5, <1>7
<1>10. OthersKept(h)
  BY <1>5, <1>6, <1>9 DEF OthersKept
<1>11. TreeOK(h, host'[h], tree'[h])
  BY <1>0, <1>4, <1>5, <1>9 DEF TreeOK, S!Children
<1>12. h \notin S!Opening /\ S!Opening \subseteq S!Hosts
  BY <1>5 DEF S!Opening
<1>13. Apart(h, host'[h], tree'[h])
  BY <1>0, <1>4, <1>5, <1>6, <1>9, <1>12 DEF Apart, TreeOK
<1> QED
  BY <1>0, <1>1, <1>4, <1>5, <1>8, <1>9, <1>10, <1>11, <1>13, HostsMove

LEMMA HostSpawns ==
  ASSUME ServersInv, NEW h \in S!Hosts, S!Spawn(h)
  PROVE  ServersInv'
<1>0. /\ host[h] \in HostRecords /\ pool \in [Keys -> {0} \cup S!Hosts] /\ caller \in [Callers -> Waits]
      /\ host = [host EXCEPT ![h] = host[h]]
      /\ TreeOK(h, host[h], tree[h])
  BY HostKnown
<1>1. tree' = [tree EXCEPT ![h] = "up"] /\ UNCHANGED <<pool, host, caller>> /\ host[h].at = "opening"
  BY DEF S!Spawn
<1>2. TreeOK(h, host[h], "up") /\ Apart(h, host[h], "up")
  BY <1>0, <1>1 DEF TreeOK, Apart
<1> QED
  BY <1>0, <1>1, <1>2, TaskMoves

\* A host that was opened alone finds its own process as the only new child, and one that was
\* not finds that of another such host.
LEMMA HostOpened ==
  ASSUME ServersInv, NEW h \in S!Hosts, S!Opened(h)
  PROVE  ServersInv'
<1>0. /\ host[h] \in HostRecords /\ S!Hosts \subseteq Nat \ {0} /\ pool \in [Keys -> {0} \cup S!Hosts] /\ caller \in [Callers -> Waits]
      /\ tree[h] \in {"none", "up", "grand", "gone"} /\ tree = [tree EXCEPT ![h] = tree[h]]
      /\ TreesInv /\ TreeOK(h, host[h], tree[h])
  BY HostKnown
<1> DEFINE found == S!Children \ host[h].before
<1>1. PICK p \in IF found = {} THEN {0} ELSE found : host' = [host EXCEPT ![h].at = "opened", ![h].pid = p]
  BY DEF S!Opened
<1> DEFINE r == [host[h] EXCEPT !.at = "opened", !.pid = p]
<1>a. found \subseteq S!Hosts /\ \A g \in found : tree[g] = "up" /\ g \notin host[h].before
  BY DEF S!Children
<1>2. p \in Nat
  BY <1>0, <1>1, <1>a
<1>3. r \in HostRecords /\ r.at = "opened" /\ r.pid = p /\ r.cancel = host[h].cancel /\ r.alone = host[h].alone
  BY <1>0, <1>2 DEF HostRecords
<1>4. /\ host' = [host EXCEPT ![h] = r] /\ UNCHANGED <<pool, tree, caller>> /\ host[h].at = "opening"
      /\ tree[h] # "none" /\ ~host[h].cancel
  BY <1>1 DEF S!Opened
<1> HIDE DEF r
<1>5. \A f \in S!Hosts : f # h /\ (host[h].alone \/ host[f].alone) => f \notin found
  BY <1>0, <1>4, <1>a DEF TreesInv, OpeningOK
<1>6. ASSUME host[h].alone PROVE p = h /\ tree[h] = "up"
  <2>1. tree[h] = "up"
    BY <1>0, <1>4, <1>6 DEF TreeOK
  <2>2. h \in S!Children /\ h \notin host[h].before => p = h
    BY <1>1, <1>5, <1>6, <1>a
  <2>3. h \in S!Children
    BY <2>1 DEF S!Children
  <2> QED
    BY <1>0, <1>4, <2>1, <2>2, <2>3 DEF TreeOK
<1>7. p \in {0} \cup S!Hosts /\ \A f \in S!Hosts : f # h /\ host[f].alone => p # f
  BY <1>0, <1>1, <1>5, <1>a
<1> HIDE DEF found
<1>8. TreeOK(h, r, tree[h]) /\ Apart(h, r, tree[h])
  BY <1>0, <1>3, <1>4, <1>6, <1>7 DEF TreeOK, Apart
<1> QED
  BY <1>0, <1>3, <1>4, <1>8, TaskMoves

\* Serving, leaving or ending without a process, with the tree as it was.
LEMMA HostGoesOn ==
  ASSUME ServersInv, NEW h \in S!Hosts,
         S!Initialized(h) \/ S!Fail(h) \/ S!FailInit(h) \/ S!Take(h)
  PROVE  ServersInv'
<1>0. /\ host[h] \in HostRecords /\ pool \in [Keys -> {0} \cup S!Hosts] /\ caller \in [Callers -> Waits]
      /\ tree[h] \in {"none", "up", "grand", "gone"} /\ tree = [tree EXCEPT ![h] = tree[h]]
      /\ TreeOK(h, host[h], tree[h])
  BY HostKnown
<1> SUFFICES ASSUME NEW r, r \in HostRecords, host' = [host EXCEPT ![h] = r], UNCHANGED <<pool, tree, caller>>,
                    r.at = "over" => r.ready # "pending" /\ tree[h] = "none" /\ ~host[h].cancel,
                    r.pid = host[h].pid, r.cancel = host[h].cancel, r.alone = host[h].alone,
                    r.at \in {"serving", "leaving"} => host[h].at \in {"opened", "serving"},
                    r.at \in {"serving", "leaving", "over"}
             PROVE  ServersInv'
  <2>1. CASE S!Initialized(h)
    <3> DEFINE ready == IF host[h].ready = "pending" THEN "ok" ELSE host[h].ready
    <3>0. ready \in {"pending", "ok", "failed", "cancelled"}
      BY <1>0 DEF HostRecords
    <3> HIDE DEF ready
    <3> DEFINE r == [host[h] EXCEPT !.at = "serving", !.ready = ready]
    <3>1. r \in HostRecords /\ r.pid = host[h].pid /\ r.cancel = host[h].cancel /\ r.alone = host[h].alone /\ r.at = "serving"
      BY <1>0, <3>0 DEF HostRecords
    <3>2. host' = [host EXCEPT ![h] = r] /\ UNCHANGED <<pool, tree, caller>> /\ host[h].at = "opened"
      BY <2>1 DEF S!Initialized, ready
    <3> HIDE DEF r
    <3> QED
      BY <3>1, <3>2
  <2>2. CASE S!Fail(h)
    <3> DEFINE ready == IF host[h].ready = "pending" THEN "failed" ELSE host[h].ready
    <3>0. ready \in {"pending", "ok", "failed", "cancelled"} /\ ready # "pending"
      BY <1>0 DEF HostRecords
    <3> HIDE DEF ready
    <3> DEFINE r == [host[h] EXCEPT !.at = "over", !.now = S!None, !.ready = ready]
    <3>1. r \in HostRecords /\ r.pid = host[h].pid /\ r.cancel = host[h].cancel /\ r.alone = host[h].alone /\ r.at = "over" /\ r.ready = ready
      BY <1>0, <3>0 DEF HostRecords
    <3>2. host' = [host EXCEPT ![h] = r] /\ UNCHANGED <<pool, tree, caller>> /\ tree[h] = "none" /\ ~host[h].cancel
      BY <2>2 DEF S!Fail, S!Over, ready
    <3> HIDE DEF r
    <3> QED
      BY <3>0, <3>1, <3>2
  <2>3. CASE S!FailInit(h)
    <3> DEFINE r == [host[h] EXCEPT !.at = "leaving"]
    <3>1. r \in HostRecords /\ r.pid = host[h].pid /\ r.cancel = host[h].cancel /\ r.alone = host[h].alone /\ r.at = "leaving"
      BY <1>0 DEF HostRecords
    <3>2. host' = [host EXCEPT ![h] = r] /\ UNCHANGED <<pool, tree, caller>> /\ host[h].at = "opened"
      BY <2>3 DEF S!FailInit
    <3> HIDE DEF r
    <3> QED
      BY <3>1, <3>2
  <2>4. CASE S!Take(h)
    <3>0. Head(host[h].queue) \in Callers /\ Tail(host[h].queue) \in Seq(Callers)
      BY <1>0, <2>4 DEF HostRecords, S!Take
    <3> DEFINE r == [host[h] EXCEPT !.now = Head(host[h].queue), !.queue = Tail(host[h].queue)]
    <3>1. r \in HostRecords /\ r.pid = host[h].pid /\ r.cancel = host[h].cancel /\ r.alone = host[h].alone /\ r.at = host[h].at
      BY <1>0, <3>0 DEF HostRecords
    <3>2. host' = [host EXCEPT ![h] = r] /\ UNCHANGED <<pool, tree, caller>> /\ host[h].at = "serving"
      BY <2>4 DEF S!Take
    <3> HIDE DEF r
    <3> QED
      BY <3>1, <3>2
  <2> QED
    BY <2>1, <2>2, <2>3, <2>4
<1>1. TreeOK(h, r, tree[h]) /\ Apart(h, r, tree[h])
  BY <1>0 DEF TreeOK, Apart
<1> QED
  BY <1>0, <1>1, TaskMoves

\* A caller is told: nobody begins to wait.
LEMMA CallerTold ==
  ASSUME caller \in [Callers -> Waits], NEW c \in Callers \cup {S!None}, NEW how \in {"answered", "failed", "cancelled"},
         caller' = [caller EXCEPT ![c].pc = IF @ = "asked" THEN how ELSE @]
  PROVE  /\ caller' \in [Callers -> Waits]
         /\ \A d \in Callers : caller'[d].pc = "ready" => caller[d].pc = "ready" /\ caller'[d].host = caller[d].host
<1>1. CASE c \in Callers
  <2> DEFINE stage == IF caller[c].pc = "asked" THEN how ELSE caller[c].pc
  <2>1. stage \in {"idle", "ready", "asked", "answered", "failed", "cancelled"} /\ (stage = "ready" => caller[c].pc = "ready")
    BY <1>1 DEF Waits
  <2>2. caller' = [caller EXCEPT ![c].pc = stage]
    OBVIOUS
  <2> HIDE DEF stage
  <2> DEFINE w == [caller[c] EXCEPT !.pc = stage]
  <2>3. w \in Waits /\ w.pc = stage /\ w.host = caller[c].host
    BY <1>1, <2>1 DEF Waits
  <2>4. caller' = [caller EXCEPT ![c] = w]
    BY <2>2
  <2> HIDE DEF w
  <2> QED
    BY <1>1, <2>1, <2>3, <2>4
<1>2. CASE c \notin Callers
  <2>1. caller' = caller
    BY <1>2
  <2> QED
    BY <2>1
<1> QED
  BY <1>1, <1>2

LEMMA HostExits ==
  ASSUME ServersInv, NEW h \in S!Hosts, S!Exited(h)
  PROVE  ServersInv'
<1>0. /\ host[h] \in HostRecords /\ pool \in [Keys -> {0} \cup S!Hosts] /\ caller \in [Callers -> Waits]
      /\ tree[h] \in {"none", "up", "grand", "gone"}
      /\ TreeOK(h, host[h], tree[h])
  BY HostKnown
<1>1. PICK left \in {"grand", "gone"} : tree' = S!Ended(h, left)
  BY DEF S!Exited
<1> DEFINE t == IF tree[h] = "up" THEN left ELSE tree[h]
           ready == IF host[h].ready = "pending" THEN "failed" ELSE host[h].ready
<1>2. t \in {"none", "up", "grand", "gone"} /\ t # "up" /\ tree' = S!Killed([tree EXCEPT ![h] = t], host[h].pid)
  BY <1>0, <1>1 DEF S!Ended, S!Left
<1>3. ready \in {"pending", "ok", "failed", "cancelled"} /\ ready # "pending"
  BY <1>0 DEF HostRecords
<1>4. host' = [host EXCEPT ![h].at = "over", ![h].now = S!None, ![h].ready = ready]
  BY DEF S!Exited, S!Over
<1> HIDE DEF t, ready
<1> DEFINE r == [host[h] EXCEPT !.at = "over", !.now = S!None, !.ready = ready]
<1>5. r \in HostRecords /\ r.at = "over" /\ r.ready = ready /\ r.cancel = host[h].cancel /\ r.pid = host[h].pid /\ r.alone = host[h].alone
  BY <1>0, <1>3 DEF HostRecords
<1>6. host' = [host EXCEPT ![h] = r] /\ UNCHANGED <<pool, caller>> /\ ~host[h].cancel
  BY <1>4 DEF S!Exited
<1> HIDE DEF r
<1>7. TreeOK(h, r, t)
  BY <1>2, <1>5, <1>6 DEF TreeOK
<1> QED
  BY <1>0, <1>2, <1>3, <1>5, <1>6, <1>7, TaskKills

LEMMA HostCancelled ==
  ASSUME ServersInv, NEW h \in S!Hosts, S!Cancelled(h)
  PROVE  ServersInv'
<1>0. /\ host[h] \in HostRecords /\ pool \in [Keys -> {0} \cup S!Hosts] /\ caller \in [Callers -> Waits]
      /\ tree[h] \in {"none", "up", "grand", "gone"} /\ tree = [tree EXCEPT ![h] = tree[h]]
      /\ TreeOK(h, host[h], tree[h])
  BY HostKnown
<1> DEFINE t == IF tree[h] = "up" THEN "grand" ELSE tree[h]
           ready == IF host[h].ready = "pending" THEN "cancelled" ELSE host[h].ready
<1>2. t \in {"none", "up", "grand", "gone"} /\ t # "up" /\ tree' = S!Killed([tree EXCEPT ![h] = t], host[h].pid) /\ (tree[h] # "up" => t = tree[h])
  BY <1>0 DEF S!Cancelled, S!Ended, S!Left
<1>3. ready \in {"pending", "ok", "failed", "cancelled"} /\ ready # "pending"
  BY <1>0 DEF HostRecords
<1>4. host' = [host EXCEPT ![h].at = "over", ![h].now = S!None, ![h].ready = ready]
  BY DEF S!Cancelled, S!Over
<1> HIDE DEF t, ready
<1> DEFINE r == [host[h] EXCEPT !.at = "over", !.now = S!None, !.ready = ready]
<1>5. r \in HostRecords /\ r.at = "over" /\ r.ready = ready /\ r.cancel = host[h].cancel /\ r.pid = host[h].pid /\ r.alone = host[h].alone
  BY <1>0, <1>3 DEF HostRecords
<1>6. host' = [host EXCEPT ![h] = r] /\ UNCHANGED pool /\ host[h].cancel /\ host[h].at # "over"
  BY <1>4 DEF S!Cancelled
<1> HIDE DEF r
<1>a. host[h].at \in {"new", "opening", "opened", "serving", "leaving", "over"}
  BY <1>0 DEF HostRecords
<1>7. TreeOK(h, r, t)
  BY <1>0, <1>a, <1>2, <1>5, <1>6 DEF TreeOK
<1>8. /\ caller' \in [Callers -> Waits]
      /\ \A d \in Callers : caller'[d].pc = "ready" => caller[d].pc = "ready" /\ caller'[d].host = caller[d].host
  <2>1. CASE host[h].now = S!None
    BY <1>0, <2>1 DEF S!Cancelled
  <2>2. CASE host[h].now # S!None
    <3>1. host[h].now \in Callers \cup {S!None}
      BY <1>0 DEF HostRecords
    <3>2. caller' = [caller EXCEPT ![host[h].now].pc = IF @ = "asked" THEN "cancelled" ELSE @]
      BY <2>2 DEF S!Cancelled
    <3> QED
      BY <1>0, <3>1, <3>2, CallerTold
  <2> QED
    BY <2>1, <2>2
<1> QED
  BY <1>0, <1>2, <1>3, <1>5, <1>6, <1>7, <1>8, TaskKills

LEMMA HostAnswers ==
  ASSUME ServersInv, NEW h \in S!Hosts, NEW how \in {"answered", "failed"}, S!Answer(h, how)
  PROVE  ServersInv'
<1>0. /\ host[h] \in HostRecords /\ pool \in [Keys -> {0} \cup S!Hosts] /\ caller \in [Callers -> Waits]
      /\ tree[h] \in {"none", "up", "grand", "gone"} /\ tree = [tree EXCEPT ![h] = tree[h]]
      /\ TreeOK(h, host[h], tree[h])
  BY HostKnown
<1> DEFINE r == [host[h] EXCEPT !.now = S!None]
<1>1. r \in HostRecords /\ r.at = host[h].at /\ r.pid = host[h].pid /\ r.cancel = host[h].cancel /\ r.alone = host[h].alone
  BY <1>0 DEF HostRecords
<1>2. host' = [host EXCEPT ![h] = r] /\ UNCHANGED <<pool, tree>> /\ host[h].at = "serving"
      /\ caller' = [caller EXCEPT ![host[h].now].pc = IF @ = "asked" THEN how ELSE @]
  BY DEF S!Answer
<1> HIDE DEF r
<1>3. host[h].now \in Callers \cup {S!None}
  BY <1>0 DEF HostRecords
<1>4. /\ caller' \in [Callers -> Waits]
      /\ \A d \in Callers : caller'[d].pc = "ready" => caller[d].pc = "ready" /\ caller'[d].host = caller[d].host
  BY <1>0, <1>2, <1>3, CallerTold
<1>5. TreeOK(h, r, tree[h]) /\ Apart(h, r, tree[h])
  BY <1>0, <1>1, <1>2 DEF TreeOK, Apart
<1> QED
  BY <1>0, <1>1, <1>2, <1>4, <1>5, TaskMoves

LEMMA HostCloses ==
  ASSUME ServersInv, NEW k \in Keys, S!Close(k)
  PROVE  ServersInv'
<1> DEFINE h == pool[k]
<1>0. h \in S!Hosts /\ pool \in [Keys -> {0} \cup S!Hosts]
  BY DEF ServersInv, ServersTyped, S!Close
<1>1. /\ pool' = [pool EXCEPT ![k] = 0] /\ tree' = S!Killed(tree, host[h].pid)
      /\ host' = [host EXCEPT ![h].cancel = TRUE] /\ UNCHANGED caller /\ host[h].at # "over"
  BY DEF S!Close, S!Alive
<1>2. pool' \in [Keys -> {0} \cup S!Hosts]
  BY <1>0, <1>1
<1> HIDE DEF h
<1>3. /\ host[h] \in HostRecords /\ caller \in [Callers -> Waits] /\ h # 0
      /\ tree[h] \in {"none", "up", "grand", "gone"} /\ tree = [tree EXCEPT ![h] = tree[h]]
      /\ TreesInv /\ TreeOK(h, host[h], tree[h])
  BY <1>0, HostKnown
<1> DEFINE r == [host[h] EXCEPT !.cancel = TRUE]
<1>4. r \in HostRecords /\ r.at = host[h].at /\ r.pid = host[h].pid /\ r.cancel /\ r.before = host[h].before /\ r.alone = host[h].alone
  BY <1>3 DEF HostRecords
<1>5. host' = [host EXCEPT ![h] = r]
  BY <1>1
<1> HIDE DEF r
<1>a. host[h].at \in {"new", "opening", "opened", "serving", "leaving", "over"}
  BY <1>3 DEF HostRecords
<1> DEFINE t == IF host[h].pid = h /\ tree[h] = "up" THEN "gone" ELSE tree[h]
<1>6. TreeOK(h, r, t)
  BY <1>1, <1>3, <1>4, <1>a DEF TreeOK
<1>7. tree' = S!Killed([tree EXCEPT ![h] = tree[h]], host[h].pid)
  BY <1>1, <1>3
<1>8. r.at # "over" /\ r.at = host[h].at /\ caller' = caller
  BY <1>1, <1>4
<1> QED
  BY <1>0, <1>2, <1>3, <1>4, <1>5, <1>6, <1>7, <1>8, TaskKills

\* A step of a caller that leaves the hosts as they are.
LEMMA CallerMoves ==
  ASSUME ServersInv, UNCHANGED <<host, tree>>,
         pool' \in [Keys -> {0} \cup S!Hosts], caller' \in [Callers -> Waits],
         \A c \in Callers : caller'[c].pc = "ready" => caller'[c].host \in S!Hosts
  PROVE  ServersInv'
<1>0. ServersTyped /\ ToldOK /\ TreesInv
  BY DEF ServersInv
<1>1. S!Hosts' = S!Hosts /\ S!Children' = S!Children
  BY DEF S!Hosts, S!Children
<1>2. ServersTyped'
  BY <1>0, <1>1 DEF ServersTyped
<1>3. ToldOK'
  BY <1>0, <1>1 DEF ToldOK
<1>4. TreesInv'
  BY <1>0, <1>1 DEF TreesInv, OpeningOK, TakenOK
<1> QED
  BY <1>2, <1>3, <1>4 DEF ServersInv

LEMMA CallerResumes ==
  ASSUME ServersInv, NEW c \in Callers, S!Resume(c)
  PROVE  ServersInv'
<1> DEFINE h == caller[c].host
<1>0. /\ caller[c].pc = "ready" /\ h \in S!Hosts /\ caller \in [Callers -> Waits]
      /\ \A d \in Callers : caller[d].pc = "ready" => caller[d].host \in S!Hosts
      /\ pool \in [Keys -> {0} \cup S!Hosts] /\ UNCHANGED <<pool, tree>> /\ host[h].ready # "pending"
  BY DEF ServersInv, ServersTyped, ToldOK, S!Resume
<1>a. h \in Nat /\ caller[c] \in Waits
  BY <1>0 DEF Waits
<1>1. CASE host[h].ready = "ok"
  <2>0. /\ caller' = [caller EXCEPT ![c].pc = "asked"]
        /\ host' = [host EXCEPT ![h].queue = Append(host[h].queue, c)]
    BY <1>1 DEF S!Resume
  <2> DEFINE w == [caller[c] EXCEPT !.pc = "asked"]
  <2>1. w \in Waits /\ w.pc = "asked" /\ caller' = [caller EXCEPT ![c] = w]
    BY <1>0, <1>a, <2>0 DEF Waits
  <2> HIDE DEF w, h
  <2>2. /\ caller' \in [Callers -> Waits]
        /\ \A d \in Callers : caller'[d].pc = "ready" => caller[d].pc = "ready" /\ caller'[d].host = caller[d].host
    BY <1>0, <2>1
  <2>3. /\ host[h] \in HostRecords /\ tree[h] \in {"none", "up", "grand", "gone"} /\ tree = [tree EXCEPT ![h] = tree[h]]
        /\ (host[h].at = "over" => host[h].ready # "pending")
        /\ TreeOK(h, host[h], tree[h])
    BY <1>0, HostKnown
  <2>4. Append(host[h].queue, c) \in Seq(Callers)
    BY <2>3 DEF HostRecords
  <2> DEFINE r == [host[h] EXCEPT !.queue = Append(host[h].queue, c)]
  <2>5. r \in HostRecords /\ r.at = host[h].at /\ r.pid = host[h].pid /\ r.cancel = host[h].cancel
        /\ r.ready = host[h].ready /\ r.before = host[h].before /\ r.alone = host[h].alone
    BY <2>3, <2>4 DEF HostRecords
  <2>6. host' = [host EXCEPT ![h] = r]
    BY <2>0
  <2> HIDE DEF r
  <2>7. TreeOK(h, r, tree[h]) /\ Apart(h, r, tree[h])
    BY <2>3, <2>5 DEF TreeOK, Apart
  <2>8. UNCHANGED pool /\ tree' = [tree EXCEPT ![h] = tree[h]] /\ r.at = "over" => r.ready # "pending"
    BY <1>0, <2>3, <2>5
  <2> QED
    BY <1>0, <2>2, <2>3, <2>5, <2>6, <2>7, TaskMoves
<1>2. CASE host[h].ready # "ok"
  <2>0. caller' = [caller EXCEPT ![c].pc = host[h].ready] /\ UNCHANGED host
    BY <1>2 DEF S!Resume
  <2>1. host[h].ready \in {"failed", "cancelled"}
    <3> HIDE DEF h
    <3>1. host[h] \in HostRecords
      BY <1>0, HostKnown
    <3> QED
      BY <1>0, <1>2, <3>1 DEF HostRecords
  <2> DEFINE w == [caller[c] EXCEPT !.pc = host[h].ready]
  <2>2. w \in Waits /\ w.pc # "ready" /\ caller' = [caller EXCEPT ![c] = w]
    BY <1>0, <1>a, <2>0, <2>1 DEF Waits
  <2> HIDE DEF w
  <2> QED
    BY <1>0, <2>0, <2>2, CallerMoves
<1> QED
  BY <1>1, <1>2

LEMMA CallerCancels ==
  ASSUME ServersInv, NEW c \in Callers, S!Cancel(c)
  PROVE  ServersInv'
<1> DEFINE h == caller[c].host
<1>0. /\ caller[c].pc = "ready" => h \in S!Hosts
      /\ caller \in [Callers -> Waits] /\ caller[c] \in Waits
      /\ \A d \in Callers : caller[d].pc = "ready" => caller[d].host \in S!Hosts
      /\ pool \in [Keys -> {0} \cup S!Hosts] /\ UNCHANGED <<pool, tree>>
      /\ caller' = [caller EXCEPT ![c].pc = "cancelled"]
  BY DEF ServersInv, ServersTyped, ToldOK, S!Cancel
<1> DEFINE w == [caller[c] EXCEPT !.pc = "cancelled"]
<1>1. w \in Waits /\ w.pc = "cancelled" /\ caller' = [caller EXCEPT ![c] = w]
  BY <1>0 DEF Waits
<1> HIDE DEF w, h
<1>2. /\ caller' \in [Callers -> Waits]
      /\ \A d \in Callers : caller'[d].pc = "ready" => caller[d].pc = "ready" /\ caller'[d].host = caller[d].host
  BY <1>0, <1>1
<1>3. CASE caller[c].pc = "ready" /\ host[h].ready = "pending"
  <2>1. /\ host[h] \in HostRecords /\ tree[h] \in {"none", "up", "grand", "gone"} /\ tree = [tree EXCEPT ![h] = tree[h]]
        /\ TreeOK(h, host[h], tree[h])
    BY <1>0, <1>3, HostKnown
  <2> DEFINE r == [host[h] EXCEPT !.ready = "cancelled"]
  <2>2. r \in HostRecords /\ r.at = host[h].at /\ r.pid = host[h].pid /\ r.cancel = host[h].cancel
        /\ r.ready = "cancelled" /\ r.before = host[h].before /\ r.alone = host[h].alone
    BY <2>1 DEF HostRecords
  <2>3. host' = [host EXCEPT ![h] = r]
    BY <1>3 DEF S!Cancel, h
  <2> HIDE DEF r
  <2>4. TreeOK(h, r, tree[h]) /\ Apart(h, r, tree[h])
    BY <2>1, <2>2 DEF TreeOK, Apart
  <2> QED
    BY <1>0, <1>2, <1>3, <2>1, <2>2, <2>3, <2>4, TaskMoves
<1>4. CASE ~(caller[c].pc = "ready" /\ host[h].ready = "pending")
  <2>1. UNCHANGED host
    BY <1>4 DEF S!Cancel, h
  <2> QED
    BY <1>0, <1>2, <2>1, CallerMoves
<1> QED
  BY <1>3, <1>4

LEMMA CallerCalls ==
  ASSUME ServersInv, NEW c \in Callers, NEW k \in Keys, S!Call(c, k)
  PROVE  ServersInv'
<1> DEFINE kept == IF pool[k] = 0 THEN FALSE ELSE S!Alive(pool[k])
           n == Len(host) + 1
           h == IF kept THEN pool[k] ELSE n
           w == [pc |-> "ready", host |-> h]
<1>0. ServersTyped /\ ToldOK /\ TreesInv
  BY DEF ServersInv
<1>1. /\ host \in Seq(HostRecords) /\ Len(tree) = Len(host) /\ tree \in Seq({"none", "up", "grand", "gone"})
      /\ pool \in [Keys -> {0} \cup S!Hosts] /\ caller \in [Callers -> Waits] /\ S!Hosts = 1..Len(host)
  BY <1>0 DEF ServersTyped, S!Hosts
<1>2. /\ host' = IF kept THEN host ELSE Append(host, S!NewHost(k))
      /\ tree' = IF kept THEN tree ELSE Append(tree, "none")
      /\ pool' = [pool EXCEPT ![k] = h] /\ caller' = [caller EXCEPT ![c] = w]
  BY DEF S!Call
<1>3. kept => pool[k] \in S!Hosts
  BY <1>1
<1>4. n \in Nat /\ h \in Nat /\ w \in Waits
  BY <1>1, <1>3 DEF Waits
<1>5. caller' \in [Callers -> Waits] /\ \A d \in Callers : caller'[d] = IF d = c THEN w ELSE caller[d]
  BY <1>1, <1>2, <1>4
<1>6. w.host = h
  OBVIOUS
<1>7. \A d \in Callers : caller[d].pc = "ready" => caller[d].host \in S!Hosts
  BY <1>0 DEF ToldOK
<1> HIDE DEF kept, w
<1>8. CASE kept
  <2>1. h \in S!Hosts /\ UNCHANGED <<host, tree>>
    BY <1>2, <1>3, <1>8
  <2>2. pool' \in [Keys -> {0} \cup S!Hosts]
    BY <1>1, <1>2, <2>1
  <2>3. \A d \in Callers : caller'[d].pc = "ready" => caller'[d].host \in S!Hosts
    BY <1>5, <1>6, <1>7, <2>1
  <2> QED
    BY <1>5, <2>1, <2>2, <2>3, CallerMoves
<1>9. CASE ~kept
  <2> DEFINE r == S!NewHost(k)
  <2>1. r \in HostRecords /\ r.at = "new" /\ r.ready = "pending" /\ r.pid = 0 /\ r.alone
    BY DEF S!NewHost, HostRecords
  <2> HIDE DEF r
  <2>2. host' = Append(host, r) /\ tree' = Append(tree, "none") /\ h = n
    BY <1>2, <1>9 DEF r
  <2>3. /\ host' \in Seq(HostRecords) /\ Len(host') = n /\ host'[n] = r
        /\ \A g \in 1..Len(host) : host'[g] = host[g]
    BY <1>1, <2>1, <2>2
  <2>4. /\ tree' \in Seq({"none", "up", "grand", "gone"}) /\ Len(tree') = n /\ tree'[n] = "none"
        /\ \A g \in 1..Len(host) : tree'[g] = tree[g]
    BY <1>1, <2>2
  <2>5. S!Hosts' = S!Hosts \cup {n} /\ n \notin S!Hosts
    BY <1>1, <2>3 DEF S!Hosts
  <2>6. pool' \in [Keys -> {0} \cup S!Hosts']
    BY <1>1, <1>2, <2>2, <2>5
  <2>7. ServersTyped'
    BY <1>5, <2>3, <2>4, <2>6 DEF ServersTyped
  <2>8. ToldOK'
    <3>1. \A d \in Callers : caller'[d].pc = "ready" => caller'[d].host \in S!Hosts'
      BY <1>5, <1>6, <1>7, <2>2, <2>5
    <3>2. \A g \in S!Hosts' : host'[g].at = "over" => host'[g].ready # "pending"
      BY <1>0, <1>1, <2>1, <2>3, <2>5 DEF ToldOK
    <3> QED
      BY <3>1, <3>2 DEF ToldOK
  <2>9. TreesInv'
    <3>0. OpeningOK /\ TakenOK /\ \A g \in S!Hosts : TreeOK(g, host[g], tree[g])
      BY <1>0 DEF TreesInv
    <3>1. /\ \A g \in S!Hosts : host'[g] = host[g] /\ tree'[g] = tree[g]
          /\ host'[n] = r /\ tree'[n] = "none"
      BY <1>1, <2>3, <2>4
    <3>a. \A g \in S!Hosts : host[g].pid # n
      BY <1>1, <3>0 DEF TakenOK
    <3> HIDE DEF n
    <3>2. OpeningOK'
      BY <2>1, <2>5, <3>0, <3>1 DEF OpeningOK
    <3>3. TakenOK'
      BY <1>1, <2>1, <2>5, <3>0, <3>1, <3>a DEF TakenOK
    <3>4. TreeOK(n, r, "none")
      BY <2>1 DEF TreeOK
    <3>5. \A g \in S!Hosts' : TreeOK(g, host'[g], tree'[g])
      BY <2>5, <3>0, <3>1, <3>4
    <3> QED
      BY <3>2, <3>3, <3>5 DEF TreesInv
  <2> QED
    BY <2>7, <2>8, <2>9 DEF ServersInv
<1> QED
  BY <1>8, <1>9

LEMMA ServersStep == ServersInv /\ [S!Next]_(S!vars) => ServersInv'
<1> SUFFICES ASSUME ServersInv, [S!Next]_(S!vars) PROVE ServersInv'
  OBVIOUS
<1>1. ASSUME NEW c \in Callers, S!Resume(c) \/ S!Cancel(c) \/ \E k \in Keys : S!Call(c, k) PROVE ServersInv'
  BY <1>1, CallerResumes, CallerCancels, CallerCalls
<1>2. ASSUME NEW h \in S!Hosts,
             \/ S!Open(h) \/ S!Spawn(h) \/ S!Opened(h) \/ S!Initialized(h) \/ S!Fail(h) \/ S!FailInit(h)
             \/ S!Exited(h) \/ S!Cancelled(h) \/ S!Take(h)
             \/ \E how \in {"answered", "failed"} : S!Answer(h, how)
      PROVE  ServersInv'
  BY <1>2, HostOpens, HostSpawns, HostOpened, HostGoesOn, HostExits, HostCancelled, HostAnswers
<1>3. ASSUME NEW k \in Keys, S!Close(k) PROVE ServersInv'
  BY <1>3, HostCloses
<1>4. CASE UNCHANGED S!vars
  <2>1. UNCHANGED <<host, tree, pool, caller>>
    BY <1>4 DEF S!vars
  <2> QED
    BY <2>1, CallerMoves DEF ServersInv, ServersTyped, ToldOK
<1> QED
  BY <1>1, <1>2, <1>3, <1>4 DEF S!Next

LEMMA ServersAlways == SceneSpec => []ServersInv
<1>1. SceneInit => ServersInv
  BY ServersInit DEF SceneInit
<1>2. [SceneNext]_sceneVars => [S!Next]_(S!vars)
  BY DEF SceneNext, sceneVars, poolVars, S!vars
<1> QED
  BY <1>1, <1>2, ServersStep, PTL DEF SceneSpec

\* Whatever ends a host task, nobody is left waiting for its readiness (McpHost.run,
\* fail_ready_if_pending).
THEOREM WaitersTold == SceneSpec => []WaitersWake
<1>1. ServersInv => WaitersWake
  <2> SUFFICES ASSUME ServersInv, NEW c \in Callers, caller[c].pc = "ready",
                      ~S!Alive(caller[c].host)
               PROVE  host[caller[c].host].ready # "pending"
    BY DEF WaitersWake, S!WaitersWake
  <2>1. caller[c].host \in S!Hosts /\ S!Hosts \subseteq Nat \ {0}
    BY DEF ServersInv, ServersTyped, ToldOK, S!Hosts
  <2> QED
    BY <2>1 DEF ServersInv, ToldOK, S!Alive
<1> QED
  BY <1>1, ServersAlways, PTL

\* The process that a server opened alone takes for its own is its own, and nobody else takes it,
\* whatever opens before and after it: closed, it leaves nothing of its tree behind, and its tree
\* is ended by its own host alone (_ServerHost.run, kill_process_tree).
THEOREM TreesOwned == SceneSpec => []TreesAreTheirs
<1>1. ServersInv => TreesAreTheirs
  BY DEF ServersInv, TreesInv, TreeOK, TreesAreTheirs, S!TreesAreTheirs
<1> QED
  BY <1>1, ServersAlways, PTL

-----------------------------------------------------------------------------
(* The worlds                                                              *)

Early == {"look", "ensure", "mkdir", "fillnew", "fill", "manifest", "copy", "acquire", "claim"}
Using == {"init", "check", "copying", "rename", "up", "export", "gate", "written"}

DirRecords ==
  [id : Int, files : BOOLEAN, manifest : BOOLEAN, data : BOOLEAN, rows : BOOLEAN,
   lease : [pid : Pids \cup {W!None}, birth : Nat]]

BackendRecords ==
  [pc : Early \cup Using \cup {"off", "release"}, job : W!Jobs \cup {W!None}, w : Worlds \cup {W!None}, birth : Nat, got : Int,
   host : Pids \cup {W!None}, target : Worlds \cup {W!None}, ending : BOOLEAN, fresh : BOOLEAN]

Wrappers ==
  [pc : {"ensure", "spawn", "wait", "ended", "dead"}, world : Worlds, child : Pids \cup {W!None}, stopped : BOOLEAN]

WorldsTyped ==
  /\ dirs \in [Worlds -> DirRecords] /\ backend \in [Pids -> BackendRecords]
  /\ births \in Nat /\ wr \in Wrappers /\ ctl \in Worlds \cup {W!None}

\* A process takes a world before it uses it.
StageOK(r) ==
  /\ r.pc # "off" => r.w \in Worlds
  /\ r.pc \in Early => r.got = -1
  /\ r.pc \in Using => r.got # -1

DirOK(d) == d.manifest => d.id # -1

Uses(r) == r.pc \in Using

\* The directory d is the one that process p took with record r.
Stands(d, p, r) == d.id = r.got /\ d.manifest /\ d.lease = [pid |-> p, birth |-> r.birth]

\* Nobody uses world w, or it was removed under its user.
Unused(w) == \A q \in Pids : Uses(backend[q]) /\ backend[q].w = w => w \in undone

WorldsInv ==
  /\ WorldsTyped
  /\ \A p \in Pids : StageOK(backend[p])
  /\ \A w \in Worlds : DirOK(dirs[w])
  /\ \A p \in Pids : Uses(backend[p]) /\ backend[p].w \notin undone => Stands(dirs[backend[p].w], p, backend[p])

LEMMA WholeTyped == W!NoDir \in DirRecords /\ W!Whole \in DirRecords /\ W!Whole.id = 0
<1>1. W!NoDir \in DirRecords
  BY DEF W!NoDir, W!NoLease, DirRecords
<1> DEFINE files == TRUE
           manifest == TRUE
           d1 == [W!NoDir EXCEPT !.id = 0]
           d2 == [d1 EXCEPT !.files = files]
           d3 == [d2 EXCEPT !.manifest = manifest]
<1>2. files \in BOOLEAN /\ manifest \in BOOLEAN
  OBVIOUS
<1>3. W!Whole = [W!NoDir EXCEPT !.id = 0, !.files = files, !.manifest = manifest]
  BY DEF W!Whole
<1> HIDE DEF files, manifest
<1>4. d1 \in DirRecords /\ d1.id = 0
  BY <1>1 DEF DirRecords
<1> HIDE DEF d1
<1>5. d2 \in DirRecords /\ d2.id = 0
  BY <1>2, <1>4 DEF DirRecords
<1> HIDE DEF d2
<1>6. d3 \in DirRecords /\ d3.id = 0
  BY <1>2, <1>5 DEF DirRecords
<1>7. W!Whole = d3
  BY <1>3, <1>4, <1>5, <1>6 DEF d1, d2
<1> QED
  BY <1>1, <1>6, <1>7

LEMMA WorldsInit == W!Init => WorldsInv
<1> SUFFICES ASSUME W!Init PROVE WorldsInv
  OBVIOUS
<1>0. W!NoDir \in DirRecords /\ ~W!NoDir.manifest
  BY DEF W!NoDir, W!NoLease, DirRecords
<1>a. W!Whole \in DirRecords /\ W!Whole.id = 0
  BY WholeTyped
<1>b. W!Half \in DirRecords /\ W!Half.id = 0
  BY <1>0 DEF W!Half, DirRecords
<1>1. {W!Whole, W!Half, W!NoDir} \subseteq DirRecords /\ \A d \in {W!Whole, W!Half, W!NoDir} : DirOK(d)
  BY <1>0, <1>a, <1>b DEF DirOK
<1>2. W!Idle \in BackendRecords /\ W!Idle.pc = "off"
  BY DEF W!Idle, BackendRecords
<1>3. wr \in Wrappers
  BY HostAssumption DEF W!Init, Wrappers
<1>4. dirs \in [Worlds -> {W!Whole, W!Half, W!NoDir}] /\ backend = [p \in Pids |-> W!Idle] /\ births = 0 /\ ctl = W!None
  BY DEF W!Init
<1>5. WorldsTyped
  BY <1>1, <1>2, <1>3, <1>4 DEF WorldsTyped
<1>6. \A p \in Pids : backend[p].pc = "off"
  BY <1>2, <1>4
<1> QED
  BY <1>1, <1>4, <1>5, <1>6 DEF WorldsInv, StageOK, Uses, Early, Using

\* A step of one process at one world: who uses the world still finds it, and who uses it now
\* does.
LEMMA BackendMoves ==
  ASSUME WorldsInv, NEW p \in Pids, NEW r \in BackendRecords, backend' = [backend EXCEPT ![p] = r],
         NEW w \in Worlds, NEW d \in DirRecords, dirs' = [dirs EXCEPT ![w] = d],
         births' \in Nat, wr' \in Wrappers, ctl' \in Worlds \cup {W!None}, undone \subseteq undone',
         StageOK(r), DirOK(d),
         \A q \in Pids \ {p} : Uses(backend[q]) /\ backend[q].w = w /\ w \notin undone' => Stands(d, q, backend[q]),
         Uses(r) /\ r.w \notin undone' => Stands(dirs'[r.w], p, r)
  PROVE  WorldsInv'
<1>1. /\ dirs \in [Worlds -> DirRecords] /\ backend \in [Pids -> BackendRecords]
      /\ \A q \in Pids : StageOK(backend[q]) /\ (Uses(backend[q]) => backend[q].w \in Worlds)
  BY DEF WorldsInv, WorldsTyped, StageOK, Uses, Using
<1>2. /\ \A q \in Pids : backend'[q] = IF q = p THEN r ELSE backend[q]
      /\ \A v \in Worlds : dirs'[v] = IF v = w THEN d ELSE dirs[v]
  BY <1>1
<1>3. WorldsTyped'
  BY <1>1 DEF WorldsTyped
<1>4. \A q \in Pids : StageOK(backend'[q])
  BY <1>1, <1>2
<1>5. \A v \in Worlds : DirOK(dirs'[v])
  BY <1>2 DEF WorldsInv
<1>6. \A q \in Pids : Uses(backend'[q]) /\ backend'[q].w \notin undone' => Stands(dirs'[backend'[q].w], q, backend'[q])
  <2> SUFFICES ASSUME NEW q \in Pids, q # p, Uses(backend[q]), backend[q].w \notin undone'
               PROVE  Stands(dirs'[backend[q].w], q, backend[q])
    BY <1>2
  <2>1. backend[q].w \in Worlds /\ Stands(dirs[backend[q].w], q, backend[q])
    BY <1>1 DEF WorldsInv
  <2> QED
    BY <1>2, <2>1
<1> QED
  BY <1>3, <1>4, <1>5, <1>6 DEF WorldsInv

\* What is known of a process that runs.
LEMMA BackendKnown ==
  ASSUME WorldsInv, NEW p \in Pids, W!Alive(p)
  PROVE  /\ backend[p] \in BackendRecords /\ StageOK(backend[p]) /\ backend[p].pc # "off" /\ backend[p].w \in Worlds
         /\ backend \in [Pids -> BackendRecords] /\ dirs \in [Worlds -> DirRecords]
         /\ dirs[backend[p].w] \in DirRecords /\ DirOK(dirs[backend[p].w])
         /\ dirs = [dirs EXCEPT ![backend[p].w] = dirs[backend[p].w]]
         /\ births \in Nat /\ wr \in Wrappers /\ ctl \in Worlds \cup {W!None}
         /\ \A q \in Pids : Uses(backend[q]) /\ backend[q].w \notin undone => Stands(dirs[backend[q].w], q, backend[q])
BY DEF WorldsInv, WorldsTyped, W!Alive, StageOK

\* A process goes on from a stage to one of its kind, at the world it has.
LEMMA BackendChanges ==
  ASSUME WorldsInv, NEW p \in Pids, W!Alive(p), NEW r \in BackendRecords,
         backend' = [backend EXCEPT ![p] = r], r.w = backend[p].w, r.got = backend[p].got, r.birth = backend[p].birth,
         NEW d \in DirRecords, dirs' = [dirs EXCEPT ![backend[p].w] = d], DirOK(d),
         births' \in Nat, wr' \in Wrappers, ctl' \in Worlds \cup {W!None}, undone \subseteq undone',
         r.pc \in Early \cup Using \cup {"release"},
         r.pc \in Early => backend[p].pc \in Early,
         r.pc \in Using => backend[p].pc \in Using,
         \A q \in Pids : Uses(backend[q]) /\ backend[q].w = backend[p].w /\ backend[q].w \notin undone' => Stands(d, q, backend[q])
  PROVE  WorldsInv'
<1>1. /\ backend[p] \in BackendRecords /\ StageOK(backend[p]) /\ backend[p].w \in Worlds
      /\ dirs \in [Worlds -> DirRecords]
  BY BackendKnown
<1>4. StageOK(r)
  BY <1>1 DEF StageOK
<1>5. dirs'[r.w] = d
  BY <1>1
<1>6. Uses(r) /\ r.w \notin undone' => Stands(dirs'[r.w], p, r)
  BY <1>1, <1>5 DEF Uses, Stands
<1> DEFINE v == backend[p].w
<1>a. /\ \A q \in Pids \ {p} : Uses(backend[q]) /\ backend[q].w = v /\ v \notin undone' => Stands(d, q, backend[q])
      /\ dirs' = [dirs EXCEPT ![v] = d] /\ v \in Worlds
  BY <1>1
<1> HIDE DEF v
<1> QED
  BY ONLY WorldsInv, p \in Pids, r \in BackendRecords, backend' = [backend EXCEPT ![p] = r],
          <1>4, <1>6, <1>a, d \in DirRecords, DirOK(d), undone \subseteq undone',
          births' \in Nat, wr' \in Wrappers, ctl' \in Worlds \cup {W!None}, BackendMoves

LEMMA BackendGoes ==
  ASSUME WorldsInv, NEW p \in Pids, W!Alive(p), NEW stage \in Early \cup Using \cup {"release"}, W!Go(p, stage),
         NEW d \in DirRecords, dirs' = [dirs EXCEPT ![backend[p].w] = d], DirOK(d),
         births' \in Nat, wr' \in Wrappers, ctl' \in Worlds \cup {W!None}, undone \subseteq undone',
         stage \in Early => backend[p].pc \in Early,
         stage \in Using => backend[p].pc \in Using,
         \A q \in Pids : Uses(backend[q]) /\ backend[q].w = backend[p].w /\ backend[q].w \notin undone' => Stands(d, q, backend[q])
  PROVE  WorldsInv'
<1> DEFINE r == [backend[p] EXCEPT !.pc = stage]
<1>1. backend[p] \in BackendRecords
  BY BackendKnown
<1>2. r \in BackendRecords /\ r.pc = stage /\ r.w = backend[p].w /\ r.got = backend[p].got /\ r.birth = backend[p].birth
  BY <1>1 DEF BackendRecords
<1>3. backend' = [backend EXCEPT ![p] = r]
  BY DEF W!Go
<1> HIDE DEF r
<1> QED
  BY <1>2, <1>3, BackendChanges

\* A process ends.
LEMMA BackendEnds ==
  ASSUME WorldsInv, NEW p \in Pids, W!Alive(p), W!End(p),
         NEW d \in DirRecords, dirs' = [dirs EXCEPT ![backend[p].w] = d], DirOK(d),
         births' \in Nat, wr' \in Wrappers, ctl' \in Worlds \cup {W!None}, undone \subseteq undone',
         \A q \in Pids \ {p} : Uses(backend[q]) /\ backend[q].w = backend[p].w /\ backend[q].w \notin undone' => Stands(d, q, backend[q])
  PROVE  WorldsInv'
<1> DEFINE r == W!Idle
           v == backend[p].w
<1>1. r \in BackendRecords /\ r.pc = "off" /\ backend' = [backend EXCEPT ![p] = r]
  BY DEF W!Idle, BackendRecords, W!End
<1>2. /\ v \in Worlds /\ dirs' = [dirs EXCEPT ![v] = d]
      /\ \A q \in Pids \ {p} : Uses(backend[q]) /\ backend[q].w = v /\ v \notin undone' => Stands(d, q, backend[q])
  BY BackendKnown
<1> HIDE DEF r, v
<1>3. StageOK(r) /\ (Uses(r) /\ r.w \notin undone' => Stands(dirs'[r.w], p, r))
  BY <1>1 DEF StageOK, Uses, Early, Using
<1> QED
  BY ONLY WorldsInv, p \in Pids, <1>1, <1>2, <1>3, d \in DirRecords, DirOK(d), undone \subseteq undone',
          births' \in Nat, wr' \in Wrappers, ctl' \in Worlds \cup {W!None}, BackendMoves

\* A step that leaves the directories as they are.
LEMMA BackendStays ==
  ASSUME WorldsInv, NEW p \in Pids, W!Alive(p), UNCHANGED <<dirs, births, wr>>, ctl' \in Worlds \cup {W!None},
         undone \subseteq undone',
         \/ W!End(p)
         \/ \E stage \in Early \cup Using \cup {"release"} :
              /\ W!Go(p, stage)
              /\ stage \in Early => backend[p].pc \in Early
              /\ stage \in Using => backend[p].pc \in Using
  PROVE  WorldsInv'
<1> DEFINE d == dirs[backend[p].w]
<1>1. /\ d \in DirRecords /\ DirOK(d) /\ dirs' = [dirs EXCEPT ![backend[p].w] = d]
      /\ births' \in Nat /\ wr' \in Wrappers
      /\ \A q \in Pids : Uses(backend[q]) /\ backend[q].w \notin undone => Stands(dirs[backend[q].w], q, backend[q])
  BY BackendKnown
<1>2. \A q \in Pids : Uses(backend[q]) /\ backend[q].w = backend[p].w /\ backend[q].w \notin undone' => Stands(d, q, backend[q])
  BY <1>1
<1> HIDE DEF d
<1>3. CASE W!End(p)
  BY <1>1, <1>2, <1>3, BackendEnds
<1>4. CASE ~W!End(p)
  <2>1. PICK stage \in Early \cup Using \cup {"release"} :
              /\ W!Go(p, stage)
              /\ stage \in Early => backend[p].pc \in Early
              /\ stage \in Using => backend[p].pc \in Using
    BY <1>4
  <2> QED
    BY <1>1, <1>2, <2>1, BackendGoes
<1> QED
  BY <1>3, <1>4

\* Where no world is complete nobody uses one.
LEMMA NobodyUses ==
  ASSUME WorldsInv, NEW w \in Worlds, ~dirs[w].manifest
  PROVE  Unused(w)
BY DEF WorldsInv, Unused, Stands

LEMMA StayingSteps ==
  ASSUME WorldsInv, NEW p \in Pids,
         \/ W!Look(p) \/ W!Ensure(p) \/ W!TryLock(p) \/ W!CheckRows(p) \/ W!Archived(p) \/ W!Exported(p)
  PROVE  WorldsInv'
<1>0. ctl \in Worlds \cup {W!None}
  BY DEF WorldsInv, WorldsTyped
<1>1. CASE W!Ensure(p)
  <2>1. backend[p].pc = "ensure" /\ W!Alive(p) /\ UNCHANGED <<dirs, births, wr, ctl, undone>>
    BY <1>1 DEF W!Ensure, W!Alive, W!Rest
  <2>2. W!End(p) \/ W!Go(p, "acquire") \/ W!Go(p, "copy") \/ W!Go(p, "mkdir") \/ W!Go(p, "fill")
    BY <1>1 DEF W!Ensure, W!Continue, W!Made, W!D
  <2> QED
    BY <1>0, <2>1, <2>2, BackendStays DEF Early, Using
<1>2. CASE W!TryLock(p)
  <2>1. backend[p].pc = "acquire" /\ W!Alive(p) /\ UNCHANGED <<dirs, births, wr, ctl, undone>> /\ (W!End(p) \/ W!Go(p, "claim"))
    BY <1>2 DEF W!TryLock, W!Alive, W!Rest
  <2> QED
    BY <1>0, <2>1, BackendStays DEF Early, Using
<1>3. CASE W!CheckRows(p)
  <2>1. backend[p].pc = "check" /\ W!Alive(p) /\ UNCHANGED <<dirs, births, wr, ctl, undone>>
        /\ (W!Go(p, "release") \/ W!Go(p, "copying") \/ W!Go(p, "rename"))
    BY <1>3 DEF W!CheckRows, W!Alive, W!Rest
  <2> QED
    BY <1>0, <2>1, BackendStays DEF Early, Using
<1>4. CASE W!Archived(p)
  <2>1. backend[p].pc = "copying" /\ W!Alive(p) /\ UNCHANGED <<dirs, births, wr, ctl, undone>> /\ W!Go(p, "release")
    BY <1>4 DEF W!Archived, W!Alive, W!Rest
  <2> QED
    BY <1>0, <2>1, BackendStays DEF Early, Using
<1>5. CASE W!Exported(p)
  <2>1. backend[p].pc = "export" /\ W!Alive(p) /\ UNCHANGED <<dirs, births, wr, ctl, undone>> /\ W!Go(p, "up")
    BY <1>5 DEF W!Exported, W!Alive, W!Rest
  <2> QED
    BY <1>0, <2>1, BackendStays DEF Early, Using
<1>6. CASE W!Look(p)
  <2> DEFINE d == dirs[backend[p].w]
             fresh == d.id = -1
             r == [backend[p] EXCEPT !.pc = "ensure", !.fresh = fresh]
  <2>1. backend[p].pc = "look" /\ W!Alive(p) /\ UNCHANGED <<dirs, births, wr, ctl, undone>>
    BY <1>6 DEF W!Look, W!Alive, W!Rest
  <2>2. /\ backend[p] \in BackendRecords /\ d \in DirRecords /\ DirOK(d) /\ births \in Nat /\ wr \in Wrappers
        /\ dirs' = [dirs EXCEPT ![backend[p].w] = d]
        /\ \A q \in Pids : Uses(backend[q]) /\ backend[q].w \notin undone => Stands(dirs[backend[q].w], q, backend[q])
    BY <2>1, BackendKnown
  <2>3. W!End(p) \/ backend' = [backend EXCEPT ![p] = r]
    BY <1>6 DEF W!Look, W!D
  <2>4. /\ \A q \in Pids : Uses(backend[q]) /\ backend[q].w = backend[p].w /\ backend[q].w \notin undone' => Stands(d, q, backend[q])
        /\ births' \in Nat /\ wr' \in Wrappers /\ ctl' \in Worlds \cup {W!None} /\ undone \subseteq undone'
    BY <1>0, <2>1, <2>2
  <2>5. fresh \in BOOLEAN
    OBVIOUS
  <2> HIDE DEF fresh, d
  <2>6. r \in BackendRecords /\ r.pc = "ensure" /\ r.w = backend[p].w /\ r.got = backend[p].got /\ r.birth = backend[p].birth
    BY <2>2, <2>5 DEF BackendRecords, Early
  <2> HIDE DEF r
  <2>7. {"look", "ensure"} \subseteq Early /\ "ensure" \notin Using
    BY DEF Early, Using
  <2>8. CASE W!End(p)
    BY <1>0, <2>1, <2>8, BackendStays
  <2>9. CASE backend' = [backend EXCEPT ![p] = r]
    <3>1. r.pc \in Early \cup Using \cup {"release"} /\ (r.pc \in Early => backend[p].pc \in Early)
          /\ (r.pc \in Using => backend[p].pc \in Using)
      BY <2>1, <2>6, <2>7
    <3> QED
      BY <2>1, <2>2, <2>4, <2>6, <2>9, <3>1, BackendChanges
  <2> QED
    BY <2>3, <2>8, <2>9
<1> QED
  BY <1>1, <1>2, <1>3, <1>4, <1>5, <1>6

\* The making of a world keeps a directory that others use, but for the clean-up of its failure.
LEMMA CleanUpUnused ==
  ASSUME WorldsInv, NEW w \in Worlds, W!CleanUp(w)
  PROVE  /\ undone \subseteq undone'
         /\ \A q \in Pids : Uses(backend[q]) /\ backend[q].w = w => w \in undone'
<1> SUFFICES ASSUME NEW q \in Pids, Uses(backend[q]), backend[q].w = w, w \notin undone PROVE W!IsActive(w)
  BY DEF W!CleanUp
<1>1. dirs[w].lease = [pid |-> q, birth |-> backend[q].birth]
  BY DEF WorldsInv, Stands
<1>2. dirs[w].lease.pid = q /\ W!NoLease.pid = W!None /\ q # W!None
  BY <1>1, HostAssumption DEF W!NoLease
<1>3. W!Alive(q)
  BY DEF W!Alive, Uses, Using
<1> QED
  BY <1>2, <1>3 DEF W!IsActive

LEMMA MakingSteps ==
  ASSUME WorldsInv, NEW p \in Pids,
         \/ W!MakeDir(p) \/ W!FillNew(p) \/ W!Fill(p) \/ W!WriteManifest(p) \/ W!CopyLegacy(p)
  PROVE  WorldsInv'
<1> DEFINE w == backend[p].w
<1>0. W!Alive(p) /\ UNCHANGED <<births, wr, ctl>> /\ backend[p].pc \in {"mkdir", "fillnew", "fill", "manifest", "copy"}
  BY DEF W!MakeDir, W!FillNew, W!Fill, W!WriteManifest, W!CopyLegacy, W!Alive, W!Rest
<1>1. /\ w \in Worlds /\ dirs[w] \in DirRecords /\ DirOK(dirs[w])
      /\ births' \in Nat /\ wr' \in Wrappers /\ ctl' \in Worlds \cup {W!None}
      /\ backend[p] \in BackendRecords
      /\ dirs \in [Worlds -> DirRecords] /\ dirs = [dirs EXCEPT ![w] = dirs[w]]
      /\ \A q \in Pids : Uses(backend[q]) /\ backend[q].w \notin undone => Stands(dirs[backend[q].w], q, backend[q])
  BY <1>0, BackendKnown
<1>2. dirs[w].id = -1 => Unused(w)
  BY <1>1, NobodyUses DEF DirOK
<1>3. W!NoDir \in DirRecords /\ ~W!NoDir.manifest
  BY DEF W!NoDir, W!NoLease, DirRecords
<1>4. backend[p].pc \in Early /\ backend[p].pc \notin Using /\ {"fillnew", "manifest", "acquire", "copy"} \subseteq Early
      /\ \A stage \in Early : stage \notin Using
  BY <1>0 DEF Early, Using
\* What each of the steps does to the directory.
<1> SUFFICES ASSUME NEW d \in DirRecords, DirOK(d), dirs' = [dirs EXCEPT ![w] = d], undone \subseteq undone',
                    W!End(p) \/ \E stage \in Early : W!Go(p, stage),
                    \A q \in Pids : Uses(backend[q]) /\ backend[q].w = w /\ w \notin undone' => Stands(d, q, backend[q])
             PROVE  WorldsInv'
  <2>0. ASSUME UNCHANGED <<dirs, undone>>, W!End(p) PROVE WorldsInv'
    BY <1>0, <1>1, <2>0, BackendStays
  <2>1. CASE W!MakeDir(p)
    <3>1. CASE dirs[w].id # -1
      BY <2>0, <2>1, <3>1 DEF W!MakeDir, W!Rest
    <3>2. CASE dirs[w].id = -1
      <4> DEFINE d == [W!NoDir EXCEPT !.id = backend[p].birth]
      <4>1. d \in DirRecords /\ ~d.manifest
        BY <1>1, <1>3 DEF DirRecords, BackendRecords
      <4>2. dirs' = [dirs EXCEPT ![w] = d] /\ W!Go(p, "fillnew") /\ UNCHANGED undone
        BY <2>1, <3>2 DEF W!MakeDir, W!Rest
      <4> HIDE DEF d
      <4>3. DirOK(d) /\ \A q \in Pids : Uses(backend[q]) /\ backend[q].w = w /\ w \notin undone' => Stands(d, q, backend[q])
        BY <1>2, <3>2, <4>1, <4>2 DEF DirOK, Unused
      <4> QED
        BY <1>4, <4>1, <4>2, <4>3
    <3> QED
      BY <3>1, <3>2
  <2>2. ASSUME W!CleanUp(w), W!End(p) PROVE WorldsInv'
    <3>1. dirs' = [dirs EXCEPT ![w] = W!NoDir] /\ DirOK(W!NoDir)
      BY <1>3, <2>2 DEF W!CleanUp, DirOK
    <3> QED
      BY <1>1, <1>3, <2>2, <3>1, CleanUpUnused
  <2>3. ASSUME UNCHANGED undone, NEW d \in DirRecords, dirs' = [dirs EXCEPT ![w] = d], d.id = dirs[w].id,
               d.manifest = dirs[w].manifest \/ d.manifest, dirs[w].id # -1 \/ d.manifest = dirs[w].manifest,
               d.lease = dirs[w].lease,
               W!End(p) \/ \E stage \in Early : W!Go(p, stage)
        PROVE  WorldsInv'
    <3>1. DirOK(d)
      BY <1>1, <2>3 DEF DirOK
    <3>2. \A q \in Pids : Uses(backend[q]) /\ backend[q].w = w /\ w \notin undone' => Stands(d, q, backend[q])
      BY <1>1, <2>3 DEF Stands
    <3> QED
      BY <2>3, <3>1, <3>2
  <2>4. CASE W!FillNew(p) \/ W!Fill(p)
    <3> DEFINE d == [dirs[w] EXCEPT !.files = TRUE]
    <3>1. d \in DirRecords /\ d.manifest = dirs[w].manifest /\ d.id = dirs[w].id /\ d.lease = dirs[w].lease
      BY <1>1 DEF DirRecords
    <3>2. \/ W!CleanUp(w) /\ W!End(p)
          \/ UNCHANGED <<dirs, undone>> /\ W!End(p)
          \/ UNCHANGED undone /\ dirs' = [dirs EXCEPT ![w] = d] /\ W!Go(p, "manifest")
      BY <2>4 DEF W!FillNew, W!Fill, W!Rest
    <3> HIDE DEF d
    <3> QED
      BY <1>4, <2>0, <2>2, <2>3, <3>1, <3>2
  <2>5. CASE W!WriteManifest(p)
    <3>1. CASE dirs[w].id = -1
      BY <2>0, <2>5, <3>1 DEF W!WriteManifest, W!Rest
    <3>2. CASE dirs[w].id # -1
      <4> DEFINE d == [dirs[w] EXCEPT !.manifest = TRUE]
      <4>1. d \in DirRecords /\ d.id = dirs[w].id /\ d.lease = dirs[w].lease /\ d.manifest
        BY <1>1 DEF DirRecords
      <4>2. dirs' = [dirs EXCEPT ![w] = d] /\ UNCHANGED undone
        BY <2>5, <3>2 DEF W!WriteManifest, W!Rest
      <4>3. W!End(p) \/ W!Go(p, "acquire") \/ W!Go(p, "copy")
        BY <2>5, <3>2 DEF W!WriteManifest, W!Continue, W!Made
      <4> HIDE DEF d
      <4> QED
        BY <1>4, <2>3, <3>2, <4>1, <4>2, <4>3
    <3> QED
      BY <3>1, <3>2
  <2>6. CASE W!CopyLegacy(p)
    <3> DEFINE id == IF dirs[w].id = -1 THEN backend[p].birth ELSE dirs[w].id
               data == TRUE
               d == [dirs[w] EXCEPT !.data = data, !.id = id]
    <3>1. id \in Int /\ data \in BOOLEAN /\ (dirs[w].id # -1 => id = dirs[w].id)
      BY <1>1 DEF DirRecords, BackendRecords
    <3>2. \/ W!CleanUp(w)
          \/ UNCHANGED undone /\ UNCHANGED dirs
          \/ UNCHANGED undone /\ dirs' = [dirs EXCEPT ![w] = d]
      BY <2>6 DEF W!CopyLegacy
    <3>3. W!End(p)
      BY <2>6 DEF W!CopyLegacy
    <3> HIDE DEF id, data
    <3>4. d \in DirRecords /\ d.manifest = dirs[w].manifest /\ d.id = id /\ d.lease = dirs[w].lease
      BY <1>1, <3>1 DEF DirRecords
    <3> HIDE DEF d
    <3>5. ASSUME dirs[w].id = -1, UNCHANGED undone, dirs' = [dirs EXCEPT ![w] = d] PROVE WorldsInv'
      <4>1. DirOK(d) /\ \A q \in Pids : Uses(backend[q]) /\ backend[q].w = w /\ w \notin undone' => Stands(d, q, backend[q])
        BY <1>1, <1>2, <3>4, <3>5 DEF DirOK, Unused
      <4> QED
        BY <3>3, <3>4, <3>5, <4>1
    <3> QED
      BY <2>0, <2>2, <2>3, <3>1, <3>2, <3>3, <3>4, <3>5
  <2> QED
    BY <2>1, <2>4, <2>5, <2>6
<1>5. CASE W!End(p)
  BY <1>0, <1>1, <1>5, BackendEnds
<1>6. ASSUME NEW stage \in Early, W!Go(p, stage) PROVE WorldsInv'
  BY <1>0, <1>1, <1>4, <1>6, BackendGoes
<1> QED
  BY <1>5, <1>6

\* A claim that succeeds finds nobody that uses the world.
LEMMA ClaimStep ==
  ASSUME WorldsInv, NEW p \in Pids, W!Claim(p)
  PROVE  WorldsInv'
<1> DEFINE w == backend[p].w
<1>0. W!Alive(p) /\ UNCHANGED <<births, wr, ctl, undone>> /\ backend[p].pc = "claim"
  BY DEF W!Claim, W!Alive, W!Rest
<1>1. /\ w \in Worlds /\ dirs[w] \in DirRecords /\ DirOK(dirs[w])
      /\ births' \in Nat /\ wr' \in Wrappers /\ ctl' \in Worlds \cup {W!None}
      /\ backend[p] \in BackendRecords
      /\ \A q \in Pids : Uses(backend[q]) /\ backend[q].w \notin undone => Stands(dirs[backend[q].w], q, backend[q])
  BY <1>0, BackendKnown
<1>2. CASE ~dirs[w].manifest \/ W!IsActive(w)
  <2>1. W!End(p) /\ UNCHANGED dirs
    BY <1>2 DEF W!Claim
  <2> QED
    BY <1>0, <1>1, <2>1, BackendStays
<1>3. CASE dirs[w].manifest /\ ~W!IsActive(w)
  <2>1. Unused(w)
    <3> SUFFICES ASSUME NEW q \in Pids, Uses(backend[q]), backend[q].w = w, w \notin undone PROVE FALSE
      BY DEF Unused
    <3>1. dirs[w].lease = [pid |-> q, birth |-> backend[q].birth]
      BY <1>1 DEF Stands
    <3>2. dirs[w].lease.pid = q /\ W!NoLease.pid = W!None /\ q # W!None
      BY <3>1, HostAssumption DEF W!NoLease
    <3>3. W!Alive(q)
      BY DEF W!Alive, Uses, Using
    <3> QED
      BY <1>3, <3>2, <3>3 DEF W!IsActive
  <2> DEFINE m == [pid |-> p, birth |-> backend[p].birth]
             d == [dirs[w] EXCEPT !.lease = m]
             stage == IF backend[p].job = "serve" THEN "init" ELSE "check"
             r == [backend[p] EXCEPT !.got = dirs[w].id, !.pc = stage]
  <2>3. m \in [pid : Pids \cup {W!None}, birth : Nat]
    BY <1>1 DEF BackendRecords
  <2>4. stage \in Using /\ stage \notin Early
    BY DEF Early, Using
  <2>5. dirs' = [dirs EXCEPT ![w] = d] /\ backend' = [backend EXCEPT ![p] = r]
    BY <1>3 DEF W!Claim, W!Mine
  <2> HIDE DEF m, stage
  <2>6. d \in DirRecords /\ d.id = dirs[w].id /\ d.manifest /\ d.lease = m
    BY <1>1, <1>3, <2>3 DEF DirRecords
  <2>7. r \in BackendRecords /\ r.pc = stage /\ r.got = dirs[w].id /\ r.w = w /\ r.birth = backend[p].birth
    BY <1>1, <2>4, <2>6 DEF BackendRecords, DirRecords
  <2> HIDE DEF d, r
  <2>8. StageOK(r) /\ DirOK(d) /\ dirs[w].id # -1
    BY <1>1, <1>3, <2>4, <2>6, <2>7 DEF StageOK, DirOK
  <2>9. Stands(dirs'[r.w], p, r)
    <3>1. dirs'[w] = d
      BY <1>0, <1>1, <2>5, BackendKnown
    <3> QED
      BY <2>6, <2>7, <3>1 DEF Stands, m
  <2>a. \A q \in Pids \ {p} : Uses(backend[q]) /\ backend[q].w = w /\ w \notin undone' => Stands(d, q, backend[q])
    BY <1>0, <2>1 DEF Unused
  <2>b. undone \subseteq undone'
    BY <1>0
  <2> HIDE DEF w
  <2> QED
    BY ONLY WorldsInv, p \in Pids, <1>1, <2>5, <2>6, <2>7, <2>8, <2>9, <2>a, <2>b, BackendMoves
<1> QED
  BY <1>2, <1>3

\* A process takes away only a lease of its own, and only the directory of its world.
LEMMA LeavingSteps ==
  ASSUME WorldsInv, NEW p \in Pids, W!Release(p) \/ W!Rename(p)
  PROVE  WorldsInv'
<1> DEFINE w == backend[p].w
<1>0. W!Alive(p) /\ UNCHANGED <<births, wr, ctl, undone>> /\ W!End(p)
  BY DEF W!Release, W!Rename, W!Alive, W!Rest
<1>1. /\ w \in Worlds /\ dirs[w] \in DirRecords /\ DirOK(dirs[w])
      /\ births' \in Nat /\ wr' \in Wrappers /\ ctl' \in Worlds \cup {W!None}
      /\ \A q \in Pids : Uses(backend[q]) /\ backend[q].w \notin undone => Stands(dirs[backend[q].w], q, backend[q])
  BY <1>0, BackendKnown
<1>2. CASE UNCHANGED dirs
  BY <1>0, <1>1, <1>2, BackendStays
<1>3. CASE ~UNCHANGED dirs
  <2>1. w \in undone \/ dirs[w].lease.pid = p
    <3>1. CASE W!Release(p)
      BY <1>3, <3>1 DEF W!Release, W!Mine
    <3>2. CASE W!Rename(p)
      <4>1. Uses(backend[p])
        BY <3>2 DEF W!Rename, Uses, Using
      <4>2. w \notin undone => Stands(dirs[w], p, backend[p])
        BY <1>1, <4>1
      <4> QED
        BY <4>2 DEF Stands
    <3> QED
      BY <3>1, <3>2
  <2>2. \A q \in Pids \ {p} : Uses(backend[q]) /\ backend[q].w = w => w \in undone
    <3> SUFFICES ASSUME NEW q \in Pids \ {p}, Uses(backend[q]), backend[q].w = w, w \notin undone PROVE FALSE
      OBVIOUS
    <3>1. dirs[w].lease = [pid |-> q, birth |-> backend[q].birth]
      BY <1>1 DEF Stands
    <3> QED
      BY <2>1, <3>1
  <2>3. W!NoLease \in [pid : Pids \cup {W!None}, birth : Nat]
    BY DEF W!NoLease
  <2> DEFINE d == [dirs[w] EXCEPT !.lease = W!NoLease]
  <2>4. d \in DirRecords /\ d.manifest = dirs[w].manifest /\ d.id = dirs[w].id
    BY <1>1, <2>3 DEF DirRecords
  <2>5. W!NoDir \in DirRecords /\ ~W!NoDir.manifest
    BY DEF W!NoDir, W!NoLease, DirRecords
  <2>6. dirs' = [dirs EXCEPT ![w] = d] \/ dirs' = [dirs EXCEPT ![w] = W!NoDir]
    BY <1>3 DEF W!Release, W!Rename
  <2> HIDE DEF d
  <2>7. DirOK(d) /\ DirOK(W!NoDir)
    BY <1>1, <2>4, <2>5 DEF DirOK
  <2>8. \A e : \A q \in Pids \ {p} : Uses(backend[q]) /\ backend[q].w = w /\ backend[q].w \notin undone' => Stands(e, q, backend[q])
    BY <1>0, <2>2
  <2> QED
    BY <1>0, <1>1, <2>4, <2>5, <2>6, <2>7, <2>8, BackendEnds
<1> QED
  BY <1>2, <1>3

\* The database and its rows change, and what is at stake stays.
LEMMA RowsChange ==
  ASSUME WorldsInv, NEW p \in Pids, W!Alive(p), NEW d \in DirRecords,
         d.id = dirs[backend[p].w].id, d.manifest = dirs[backend[p].w].manifest, d.lease = dirs[backend[p].w].lease,
         dirs' = [dirs EXCEPT ![backend[p].w] = d],
         NEW r \in BackendRecords,
         backend' = [backend EXCEPT ![p] = r], r.w = backend[p].w, r.got = backend[p].got, r.birth = backend[p].birth,
         UNCHANGED <<births, wr, undone>>, ctl' \in Worlds \cup {W!None},
         backend[p].pc \in Using, r.pc \in Using \cup {"release"}
  PROVE  WorldsInv'
<1>1. /\ backend[p].w \in Worlds /\ dirs[backend[p].w] \in DirRecords /\ DirOK(dirs[backend[p].w])
      /\ births' \in Nat /\ wr' \in Wrappers
      /\ \A q \in Pids : Uses(backend[q]) /\ backend[q].w \notin undone => Stands(dirs[backend[q].w], q, backend[q])
  BY BackendKnown
<1>4. DirOK(d) /\ \A q \in Pids : Uses(backend[q]) /\ backend[q].w = backend[p].w /\ backend[q].w \notin undone' => Stands(d, q, backend[q])
  BY <1>1 DEF DirOK, Stands
<1>5. r.pc \notin Early
  BY DEF Early, Using
<1> QED
  BY <1>1, <1>4, <1>5, BackendChanges

LEMMA RowsSteps ==
  ASSUME WorldsInv, NEW p \in Pids,
         W!Started(p) \/ W!RunProcess(p) \/ W!OwnerBacksUp(p) \/ W!Shutdown(p) \/ \E v \in Worlds : W!OwnerSwitches(p, v)
  PROVE  WorldsInv'
<1> DEFINE w == backend[p].w
<1>0. /\ W!Alive(p) /\ UNCHANGED <<births, wr, ctl, undone>> /\ backend[p].pc \in {"init", "up"}
  BY DEF W!Started, W!RunProcess, W!OwnerBacksUp, W!Shutdown, W!OwnerSwitches, W!Free, W!Alive, W!Rest
<1>1. /\ w \in Worlds /\ dirs[w] \in DirRecords /\ ctl' \in Worlds \cup {W!None}
      /\ backend[p] \in BackendRecords /\ backend = [backend EXCEPT ![p] = backend[p]]
  BY <1>0, BackendKnown
<1>2. backend[p].pc \in Using /\ {"up", "export", "gate", "release"} \subseteq Using \cup {"release"}
  BY <1>0 DEF Using
<1>3. CASE W!Started(p)
  <2>1. PICK left \in {FALSE, dirs[w].rows} : dirs' = [dirs EXCEPT ![w].data = TRUE, ![w].rows = left]
    BY <1>3 DEF W!Started
  <2>2. left \in BOOLEAN
    BY <1>1 DEF DirRecords
  <2> DEFINE data == TRUE
             d == [dirs[w] EXCEPT !.data = data, !.rows = left]
             r == [backend[p] EXCEPT !.pc = "up"]
  <2>3. data \in BOOLEAN /\ dirs' = [dirs EXCEPT ![w] = d]
    BY <2>1
  <2> HIDE DEF data
  <2>4. d \in DirRecords /\ d.id = dirs[w].id /\ d.manifest = dirs[w].manifest /\ d.lease = dirs[w].lease
    BY <1>1, <2>2, <2>3 DEF DirRecords
  <2>5. r \in BackendRecords /\ r.pc = "up" /\ r.w = w /\ r.got = backend[p].got /\ r.birth = backend[p].birth
    BY <1>1 DEF BackendRecords, Using
  <2>6. backend' = [backend EXCEPT ![p] = r]
    BY <1>3 DEF W!Started, W!Go
  <2> HIDE DEF d, r
  <2> QED
    BY <1>0, <1>1, <1>2, <2>3, <2>4, <2>5, <2>6, RowsChange
<1>4. CASE ~W!Started(p)
  <2>1. /\ \E rows \in BOOLEAN : dirs' = [dirs EXCEPT ![w].rows = rows]
        /\ \/ UNCHANGED backend
           \/ backend' = [backend EXCEPT ![p].pc = "export"]
           \/ \E v \in Worlds : backend' = [backend EXCEPT ![p].pc = "gate", ![p].target = v]
           \/ backend' = [backend EXCEPT ![p].pc = "release", ![p].ending = TRUE]
    <3>1. CASE W!RunProcess(p)
      BY <3>1 DEF W!RunProcess
    <3>2. CASE W!OwnerBacksUp(p)
      BY <3>2 DEF W!OwnerBacksUp, W!CloseGate
    <3>3. CASE W!Shutdown(p)
      <4>1. PICK left \in {FALSE, dirs[w].rows} : dirs' = [dirs EXCEPT ![w].rows = left]
        BY <3>3 DEF W!Shutdown, W!D
      <4>2. left \in BOOLEAN
        BY <1>1 DEF DirRecords
      <4> QED
        BY <3>3, <4>1, <4>2 DEF W!Shutdown
    <3>4. CASE \E v \in Worlds : W!OwnerSwitches(p, v)
      BY <3>4 DEF W!OwnerSwitches
    <3> QED
      BY <1>4, <3>1, <3>2, <3>3, <3>4
  <2>2. PICK rows \in BOOLEAN : dirs' = [dirs EXCEPT ![w].rows = rows]
    BY <2>1
  <2> DEFINE d == [dirs[w] EXCEPT !.rows = rows]
  <2>3. /\ d \in DirRecords /\ d.id = dirs[w].id /\ d.manifest = dirs[w].manifest /\ d.lease = dirs[w].lease
        /\ dirs' = [dirs EXCEPT ![w] = d]
    BY <1>1, <2>2 DEF DirRecords
  <2> HIDE DEF d
  <2> SUFFICES ASSUME NEW r \in BackendRecords, backend' = [backend EXCEPT ![p] = r], r.w = w, r.got = backend[p].got,
                      r.birth = backend[p].birth, r.pc \in Using \cup {"release"}
               PROVE  WorldsInv'
    <3>1. CASE UNCHANGED backend
      BY <1>1, <1>2, <3>1
    <3>2. CASE backend' = [backend EXCEPT ![p].pc = "export"]
      <4> DEFINE r == [backend[p] EXCEPT !.pc = "export"]
      <4>1. /\ r \in BackendRecords /\ r.w = w /\ r.got = backend[p].got /\ r.birth = backend[p].birth
            /\ r.pc = "export" /\ backend' = [backend EXCEPT ![p] = r]
        BY <1>1, <3>2 DEF BackendRecords, Using
      <4> HIDE DEF r
      <4> QED
        BY <1>2, <4>1
    <3>3. CASE \E v \in Worlds : backend' = [backend EXCEPT ![p].pc = "gate", ![p].target = v]
      <4>0. PICK v \in Worlds : backend' = [backend EXCEPT ![p].pc = "gate", ![p].target = v]
        BY <3>3
      <4> DEFINE r == [backend[p] EXCEPT !.pc = "gate", !.target = v]
      <4>1. /\ r \in BackendRecords /\ r.w = w /\ r.got = backend[p].got /\ r.birth = backend[p].birth
            /\ r.pc = "gate" /\ backend' = [backend EXCEPT ![p] = r]
        BY <1>1, <4>0 DEF BackendRecords, Using
      <4> HIDE DEF r
      <4> QED
        BY <1>2, <4>1
    <3>4. CASE backend' = [backend EXCEPT ![p].pc = "release", ![p].ending = TRUE]
      <4> DEFINE ending == TRUE
                 r == [backend[p] EXCEPT !.pc = "release", !.ending = ending]
      <4>0. ending \in BOOLEAN /\ backend' = [backend EXCEPT ![p] = r]
        BY <3>4
      <4> HIDE DEF ending
      <4>1. /\ r \in BackendRecords /\ r.w = w /\ r.got = backend[p].got /\ r.birth = backend[p].birth
            /\ r.pc = "release"
        BY <1>1, <4>0 DEF BackendRecords
      <4> HIDE DEF r
      <4> QED
        BY <1>2, <4>0, <4>1
    <3> QED
      BY <2>1, <3>1, <3>2, <3>3, <3>4
  <2> QED
    BY <1>0, <1>1, <1>2, <2>3, RowsChange
<1> QED
  BY <1>3, <1>4

\* The gate of a switch, with the directories as they are.
LEMMA SwitchSteps ==
  ASSUME WorldsInv, NEW p \in Pids, W!WriteTarget(p) \/ W!SwitchDone(p) \/ W!SwitchFails(p)
  PROVE  WorldsInv'
<1> DEFINE w == backend[p].w
<1>0. /\ W!Alive(p) /\ UNCHANGED <<births, wr, dirs, undone>> /\ backend[p].pc \in {"gate", "written"}
  BY DEF W!WriteTarget, W!SwitchDone, W!SwitchFails, W!Alive, W!Rest
<1>1. /\ w \in Worlds /\ dirs[w] \in DirRecords /\ ctl \in Worlds \cup {W!None}
      /\ backend[p] \in BackendRecords /\ dirs' = [dirs EXCEPT ![w] = dirs[w]]
  BY <1>0, BackendKnown
<1>2. backend[p].pc \in Using /\ {"up", "written"} \subseteq Using \cup {"release"}
  BY <1>0 DEF Using
<1>3. backend[p].target \in Worlds \cup {W!None}
  BY <1>1 DEF BackendRecords
<1>4. /\ ctl' \in {ctl, W!None, backend[p].target}
      /\ \/ backend' = [backend EXCEPT ![p].pc = "up", ![p].target = W!None]
         \/ backend' = [backend EXCEPT ![p].pc = "written"]
         \/ backend' = [backend EXCEPT ![p].pc = "up", ![p].ending = TRUE]
  BY DEF W!WriteTarget, W!SwitchDone, W!SwitchFails, W!Go, W!Rest
<1>5. ctl' \in Worlds \cup {W!None}
  BY <1>1, <1>3, <1>4
<1> SUFFICES ASSUME NEW r \in BackendRecords, backend' = [backend EXCEPT ![p] = r], r.w = w, r.got = backend[p].got,
                    r.birth = backend[p].birth, r.pc \in Using \cup {"release"}
             PROVE  WorldsInv'
  <2>1. CASE backend' = [backend EXCEPT ![p].pc = "up", ![p].target = W!None]
    <3> DEFINE r == [backend[p] EXCEPT !.pc = "up", !.target = W!None]
    <3>1. /\ r \in BackendRecords /\ r.w = w /\ r.got = backend[p].got /\ r.birth = backend[p].birth
          /\ r.pc = "up" /\ backend' = [backend EXCEPT ![p] = r]
      BY <1>1, <2>1 DEF BackendRecords, Using
    <3> HIDE DEF r
    <3> QED
      BY <1>2, <3>1
  <2>2. CASE backend' = [backend EXCEPT ![p].pc = "written"]
    <3> DEFINE r == [backend[p] EXCEPT !.pc = "written"]
    <3>1. /\ r \in BackendRecords /\ r.w = w /\ r.got = backend[p].got /\ r.birth = backend[p].birth
          /\ r.pc = "written" /\ backend' = [backend EXCEPT ![p] = r]
      BY <1>1, <2>2 DEF BackendRecords, Using
    <3> HIDE DEF r
    <3> QED
      BY <1>2, <3>1
  <2>3. CASE backend' = [backend EXCEPT ![p].pc = "up", ![p].ending = TRUE]
    <3> DEFINE ending == TRUE
               r == [backend[p] EXCEPT !.pc = "up", !.ending = ending]
    <3>0. ending \in BOOLEAN /\ backend' = [backend EXCEPT ![p] = r]
      BY <2>3
    <3> HIDE DEF ending
    <3>1. /\ r \in BackendRecords /\ r.w = w /\ r.got = backend[p].got /\ r.birth = backend[p].birth
          /\ r.pc = "up"
      BY <1>1, <3>0 DEF BackendRecords, Using
    <3> HIDE DEF r
    <3> QED
      BY <1>2, <3>0, <3>1
  <2> QED
    BY <1>4, <2>1, <2>2, <2>3
<1> QED
  BY <1>0, <1>1, <1>2, <1>5, RowsChange

\* A process starts: it uses nothing yet.
LEMMA LaunchStep ==
  ASSUME WorldsInv, NEW p \in Pids, NEW job \in W!Jobs, NEW w \in Worlds, NEW h \in Pids \cup {W!None},
         W!Launch(p, job, w, h), wr' \in Wrappers
  PROVE  WorldsInv'
<1>0. /\ dirs \in [Worlds -> DirRecords] /\ births \in Nat /\ ctl \in Worlds \cup {W!None} /\ DirOK(dirs[w])
      /\ \A q \in Pids : Uses(backend[q]) /\ backend[q].w \notin undone => Stands(dirs[backend[q].w], q, backend[q])
  BY DEF WorldsInv, WorldsTyped
<1> DEFINE b == births + 1
           stage == CASE job = "create" -> "mkdir" [] job = "adopt" -> "look" [] job \in {"backup", "delete"} -> "acquire" [] OTHER -> "ensure"
           r == [W!Idle EXCEPT !.job = job, !.w = w, !.birth = b, !.host = h, !.pc = stage]
<1>1. stage \in {"look", "mkdir", "acquire", "ensure"} /\ b \in Nat
  BY <1>0
<1>2. /\ births' = b /\ UNCHANGED <<dirs, ctl, undone>> /\ backend' = [backend EXCEPT ![p] = r]
  BY DEF W!Launch
<1> HIDE DEF stage, b
<1>3. W!Idle \in BackendRecords /\ W!Idle.got = -1
  BY DEF W!Idle, BackendRecords
<1>4. r \in BackendRecords /\ r.pc = stage /\ r.got = -1 /\ r.w = w
  BY <1>1, <1>3 DEF BackendRecords, Early
<1> HIDE DEF r
<1>5. StageOK(r) /\ ~Uses(r)
  BY <1>1, <1>4 DEF StageOK, Uses, Early, Using
<1>6. dirs' = [dirs EXCEPT ![w] = dirs[w]] /\ dirs[w] \in DirRecords
  BY <1>0, <1>2
<1>7. \A q \in Pids \ {p} : Uses(backend[q]) /\ backend[q].w = w /\ w \notin undone' => Stands(dirs[w], q, backend[q])
  BY <1>0, <1>2
<1>8. births' \in Nat /\ ctl' \in Worlds \cup {W!None}
  BY <1>0, <1>1, <1>2
<1> DEFINE d == dirs[w]
<1>9. d \in DirRecords /\ dirs' = [dirs EXCEPT ![w] = d] /\ DirOK(d)
      /\ \A q \in Pids \ {p} : Uses(backend[q]) /\ backend[q].w = w /\ w \notin undone' => Stands(d, q, backend[q])
  BY <1>0, <1>6, <1>7
<1> HIDE DEF d
<1> QED
  BY <1>2, <1>4, <1>5, <1>8, <1>9, BackendMoves

LEMMA CrashStep ==
  ASSUME WorldsInv, NEW p \in Pids, W!Crash(p)
  PROVE  WorldsInv'
<1>1. /\ backend' = [q \in Pids |-> IF q = p \/ backend[q].host = p THEN W!Idle ELSE backend[q]]
      /\ UNCHANGED <<dirs, wr, ctl, births, undone>>
  BY DEF W!Crash
<1>2. W!Idle \in BackendRecords /\ W!Idle.pc = "off"
  BY DEF W!Idle, BackendRecords
<1>3. StageOK(W!Idle) /\ ~Uses(W!Idle)
  BY <1>2 DEF StageOK, Uses, Early, Using
<1>4. \A q \in Pids : backend'[q] = W!Idle \/ backend'[q] = backend[q]
  BY <1>1
<1>5. WorldsTyped'
  BY <1>1, <1>2 DEF WorldsInv, WorldsTyped
<1>6. (\A q \in Pids : StageOK(backend[q]))' /\ (\A w \in Worlds : DirOK(dirs[w]))'
  BY <1>1, <1>3, <1>4 DEF WorldsInv
<1>7. (\A q \in Pids : Uses(backend[q]) /\ backend[q].w \notin undone => Stands(dirs[backend[q].w], q, backend[q]))'
  BY <1>1, <1>3, <1>4 DEF WorldsInv
<1> QED
  BY <1>5, <1>6, <1>7 DEF WorldsInv

\* The wrapper completes a world that nobody uses.
LEMMA WrapperSteps ==
  ASSUME WorldsInv, W!WrapperEnsures \/ W!Waited \/ W!UserStops \/ W!WrapperDies
  PROVE  WorldsInv'
<1>0. /\ dirs \in [Worlds -> DirRecords] /\ backend \in [Pids -> BackendRecords] /\ births \in Nat
      /\ wr \in Wrappers /\ ctl \in Worlds \cup {W!None} /\ wr.world \in Worlds
  BY DEF WorldsInv, WorldsTyped, Wrappers
<1>1. UNCHANGED <<backend, births, undone>> /\ ctl' \in {ctl, W!None}
  BY DEF W!WrapperEnsures, W!Waited, W!UserStops, W!WrapperDies
<1>2. wr' \in Wrappers
  <2>1. CASE W!WrapperEnsures
    <3>1. wr' = [wr EXCEPT !.pc = "spawn"] \/ wr' = [wr EXCEPT !.pc = "ended"]
      BY <2>1 DEF W!WrapperEnsures
    <3> QED
      BY <1>0, <3>1 DEF Wrappers
  <2>2. CASE W!Waited
    <3>1. CASE wr.stopped \/ ctl = W!None
      BY <1>0, <2>2, <3>1 DEF W!Waited, Wrappers
    <3>2. CASE ~(wr.stopped \/ ctl = W!None)
      <4>1. ctl \in Worlds /\ wr' = [wr EXCEPT !.pc = "ensure", !.child = W!None, !.world = ctl]
        BY <1>0, <2>2, <3>2 DEF W!Waited
      <4> QED
        BY <1>0, <4>1 DEF Wrappers
    <3> QED
      BY <3>1, <3>2
  <2>3. CASE W!UserStops
    <3> DEFINE stopped == TRUE
    <3>1. stopped \in BOOLEAN /\ wr' = [wr EXCEPT !.stopped = stopped]
      BY <2>3 DEF W!UserStops
    <3> HIDE DEF stopped
    <3> QED
      BY <1>0, <3>1 DEF Wrappers
  <2>4. CASE W!WrapperDies
    BY <1>0, <2>4 DEF W!WrapperDies, Wrappers
  <2> QED
    BY <2>1, <2>2, <2>3, <2>4
<1>3. CASE UNCHANGED dirs
  <2>1. WorldsTyped'
    BY <1>0, <1>1, <1>2, <1>3 DEF WorldsTyped
  <2> QED
    BY <1>1, <1>3, <2>1 DEF WorldsInv
<1>4. CASE ~UNCHANGED dirs
  <2> DEFINE w == wr.world
             id == IF dirs[w].id = -1 THEN 0 ELSE dirs[w].id
             d == [W!Whole EXCEPT !.id = id]
  <2>1. W!WrapperEnsures
    BY <1>4 DEF W!Waited, W!UserStops, W!WrapperDies
  <2>2. ~dirs[w].manifest /\ dirs' = [dirs EXCEPT ![w] = d]
    BY <1>4, <2>1 DEF W!WrapperEnsures
  <2>3. id \in Int /\ id # -1 /\ w \in Worlds
    BY <1>0 DEF DirRecords
  <2>4. W!Whole \in DirRecords
    BY WholeTyped
  <2> HIDE DEF id
  <2>5. d \in DirRecords /\ d.id = id
    BY <2>3, <2>4 DEF DirRecords
  <2>6. Unused(w)
    BY <2>2, <2>3, NobodyUses
  <2> HIDE DEF d, w
  <2>7. /\ \A v \in Worlds : dirs'[v] = IF v = w THEN d ELSE dirs[v]
        /\ dirs' \in [Worlds -> DirRecords]
    BY <1>0, <2>2, <2>5
  <2>8. WorldsTyped'
    BY <1>0, <1>1, <1>2, <2>7 DEF WorldsTyped
  <2>9. (\A v \in Worlds : DirOK(dirs[v]))'
    BY <2>3, <2>5, <2>7 DEF WorldsInv, DirOK
  <2>a. \A q \in Pids : Uses(backend[q]) /\ backend[q].w \notin undone => backend[q].w # w /\ backend[q].w \in Worlds
    BY <2>6 DEF Unused, WorldsInv, StageOK, Uses, Using
  <2>b. (\A q \in Pids : Uses(backend[q]) /\ backend[q].w \notin undone => Stands(dirs[backend[q].w], q, backend[q]))'
    BY <1>1, <2>7, <2>a DEF WorldsInv
  <2> QED
    BY <1>1, <2>8, <2>9, <2>b DEF WorldsInv
<1> QED
  BY <1>3, <1>4

LEMMA WorldsStep == WorldsInv /\ [W!Next]_(W!vars) => WorldsInv'
<1> SUFFICES ASSUME WorldsInv, [W!Next]_(W!vars) PROVE WorldsInv'
  OBVIOUS
<1>0. wr \in Wrappers /\ wr.world \in Worlds
  BY DEF WorldsInv, WorldsTyped, Wrappers
<1>1. ASSUME NEW p \in Pids, W!Step(p) PROVE WorldsInv'
  BY <1>1, StayingSteps, MakingSteps, ClaimStep, LeavingSteps, RowsSteps, SwitchSteps DEF W!Step
<1>2. ASSUME NEW p \in Pids, W!RunProcess(p) \/ W!OwnerBacksUp(p) \/ W!SwitchFails(p) \/ W!Crash(p) PROVE WorldsInv'
  BY <1>2, RowsSteps, SwitchSteps, CrashStep
<1>3. ASSUME NEW p \in Pids, NEW w \in Worlds, W!OwnerSwitches(p, w) PROVE WorldsInv'
  BY <1>3, RowsSteps
<1>4. ASSUME NEW p \in Pids, NEW w \in Worlds, NEW job \in W!Jobs, W!RunCommand(p, job, w) PROVE WorldsInv'
  <2>1. W!Launch(p, job, w, W!None) /\ wr' \in Wrappers
    BY <1>0, <1>4 DEF W!RunCommand
  <2> QED
    BY <2>1, LaunchStep
<1>5. ASSUME NEW p \in Pids, NEW q \in Pids, NEW w \in Worlds, W!OwnerCreates(p, q, w) PROVE WorldsInv'
  <2>1. W!Launch(q, "create", w, p) /\ wr' \in Wrappers /\ "create" \in W!Jobs
    BY <1>0, <1>5 DEF W!OwnerCreates, W!Jobs
  <2> QED
    BY <2>1, LaunchStep
<1>6. ASSUME NEW p \in Pids, W!Spawn(p) PROVE WorldsInv'
  <2>1. W!Launch(p, "serve", wr.world, W!None) /\ "serve" \in W!Jobs
    BY <1>6 DEF W!Spawn, W!Jobs
  <2>2. wr' \in Wrappers
    BY <1>0, <1>6 DEF W!Spawn, Wrappers
  <2> QED
    BY <1>0, <2>1, <2>2, LaunchStep
<1>7. CASE W!WrapperEnsures \/ W!Waited \/ W!UserStops \/ W!WrapperDies
  BY <1>7, WrapperSteps
<1>8. CASE UNCHANGED W!vars
  <2>1. UNCHANGED <<dirs, backend, births, wr, ctl, undone>>
    BY <1>8 DEF W!vars
  <2> QED
    BY <2>1 DEF WorldsInv, WorldsTyped
<1> QED
  BY <1>1, <1>2, <1>3, <1>4, <1>5, <1>6, <1>7, <1>8 DEF W!Next, W!Wrapper

\* The directory a backend serves, or a command backs up or deletes, is the one it took, complete,
\* and its own, unless the clean-up of a creation that failed under the name of that world removed
\* it (WorldManager.acquire, create, delete).
THEOREM WorldsStand == SceneSpec => []OwnedStands
<1>1. SceneInit => WorldsInv
  BY WorldsInit DEF SceneInit
<1>2. [SceneNext]_sceneVars => [W!Next]_(W!vars)
  BY DEF SceneNext, sceneVars, diskVars, W!vars
<1>3. WorldsInv => OwnedStands
  <2> SUFFICES ASSUME WorldsInv, NEW p \in Pids, W!Owns(p), backend[p].w \notin undone
               PROVE  dirs[backend[p].w].id = backend[p].got /\ dirs[backend[p].w].manifest
                      /\ dirs[backend[p].w].lease = W!Mine(p)
    BY DEF OwnedStands, W!OwnedStands, W!D
  <2>1. backend[p].got # -1 /\ backend[p].pc \notin {"off", "release"} /\ backend[p] \in BackendRecords
        /\ StageOK(backend[p])
    BY DEF W!Owns, WorldsInv, WorldsTyped
  <2>2. Uses(backend[p])
    BY <2>1 DEF StageOK, Uses, BackendRecords
  <2> QED
    BY <2>2 DEF WorldsInv, Stands, W!Mine
<1> QED
  BY <1>1, <1>2, <1>3, WorldsStep, PTL DEF SceneSpec

-----------------------------------------------------------------------------
(* The logs                                                                *)

Names == {"none", "active", "closed"}
SourceRecords == [dir : BOOLEAN, name : Names, lines : SUBSET Lines]
ArchiveRecords == [there : BOOLEAN, name : Names, lines : SUBSET Lines, sound : BOOLEAN]
Plans == [of : Sources, lines : SUBSET Lines]

\* The steps at which a source is archived and removed, and those at which an archive goes.
AtSource == {"list", "pack", "swap", "told", "unlink", "rmdir"}
AtArchive == {"age delete", "size delete"}
KeeperStages == AtSource \cup AtArchive
            \cup {"off", "lease", "break", "take", "pid", "scan", "source", "age", "size", "release", "up"}

Keeper(r) ==
  r \in [pc : KeeperStages, now : Int, todo : Seq(Sources), man : SourceRecords, total : {r.total}, failed : {r.failed}]

\* The files: the sources sr, the archives ar, the plans pl, and the lines wn ever written.
FilesTyped(sr, ar, pl, wn) ==
  /\ sr \in [Sources -> SourceRecords] /\ ar \in [Sources -> ArchiveRecords]
  /\ pl \subseteq Plans /\ wn \in [Sources -> SUBSET Lines]
  /\ \A s \in Sources : /\ sr[s].name = "none" => sr[s].lines = {}
                        /\ ~ar[s].there => ar[s].lines = {}

\* Every line of wn is somewhere, but for the late ones lt.
Kept(sr, ar, pl, wn, lt) ==
  \A s \in Sources : \A l \in wn[s] :
    l \in sr[s].lines \/ l \in ar[s].lines \/ l \in lt[s] \/ \E e \in pl : e.of = s /\ l \in e.lines

\* Only a unit run appends so missed.
LateOK(lt) == lt \in [Sources -> SUBSET Lines] /\ \A s \in Sources : lt[s] # {} => Kind[s] = "unit-tests"

\* No more lines come to s, unless it is that of a unit run: its day is over, or its run has ended.
Frozen(s, day, open) ==
  /\ Kind[s] = "runtime" => day > Date[s]
  /\ Kind[s] = "e2e-fake" => s \notin open

\* What a maintenance with record r relies on, the day and the open sources being day and open.
Progress(r, day, open, sr, ar, pl, lt) ==
  /\ r.pc # "off" => r.now <= day
  /\ r.pc \in AtSource \cup {"source"} => \A i \in 1..Len(r.todo) : Frozen(r.todo[i], day, open)
  /\ r.pc \in AtSource \cup AtArchive => r.todo # <<>>
  /\ r.pc \in {"list", "pack", "swap"} => ~ar[Head(r.todo)].there
  /\ r.pc = "swap" => sr[Head(r.todo)].lines \subseteq r.man.lines \cup lt[Head(r.todo)]
  /\ r.pc \in {"told", "unlink"} => sr[Head(r.todo)].lines \subseteq ar[Head(r.todo)].lines \cup lt[Head(r.todo)]
  /\ r.pc \in AtArchive => \E e \in pl : e.of = Head(r.todo) /\ ar[Head(r.todo)].lines \subseteq e.lines

\* As long as no lease was broken at work, the maintenance at work is the one that made the lease.
Leases == [by : Pids, told : BOOLEAN]
HoldsLease == \A p \in Pids : L!Working(p) => lease \in Leases /\ lease.by = p

WholeLogs ==
  /\ today \in Int /\ writers \subseteq Sources
  /\ FilesTyped(src, arch, planned, written) /\ LateOK(missed) /\ Kept(src, arch, planned, written, missed)
  /\ proc \in [Pids -> {proc[p] : p \in Pids}]
  /\ \A p \in Pids : Keeper(proc[p]) /\ Progress(proc[p], today, writers, src, arch, planned, missed)
  /\ HoldsLease

LogsInv == ~broken => WholeLogs

LEMMA NoLease == L!None \notin Leases
<1>1. "told" \notin DOMAIN L!None
  BY DEF L!None
<1>2. \A e \in Leases : "told" \in DOMAIN e
  BY DEF Leases
<1> QED
  BY <1>1, <1>2

\* What was broken stays so.
LEMMA BrokenStays == broken /\ [L!Next]_(L!vars) => broken'
<1> SUFFICES ASSUME broken, [L!Next]_(L!vars) PROVE broken'
  OBVIOUS
<1>1. CASE \/ L!Tick
           \/ \E s \in Sources : L!Rollover(s) \/ L!RunEnds(s) \/ L!Rot(s) \/ \E l \in Lines : L!WriteLine(s, l)
  BY <1>1 DEF L!Tick, L!Rollover, L!RunEnds, L!Rot, L!WriteLine, L!history
<1>2. ASSUME NEW p \in Pids, L!Start(p) \/ L!Exit(p) \/ L!Crash(p) PROVE broken'
  BY <1>2 DEF L!Start, L!Exit, L!Crash
<1>3. ASSUME NEW p \in Pids, L!Maintain(p) PROVE broken'
  <2>1. CASE L!ReadLease(p) \/ L!BreakLease(p) \/ L!TakeLease(p) \/ L!WritePid(p) \/ L!Release(p)
    BY <2>1 DEF L!ReadLease, L!BreakLease, L!TakeLease, L!WritePid, L!Release
  <2>2. CASE L!Scan(p) \/ L!CheckSource(p) \/ L!ListFiles(p) \/ L!Pack(p) \/ L!Swap(p) \/ L!TellCreated(p)
    BY <2>2 DEF L!Scan, L!CheckSource, L!ListFiles, L!Pack, L!Swap, L!TellCreated, L!history
  <2>3. CASE L!RemoveFile(p) \/ L!RemoveDir(p) \/ L!StartAge(p) \/ L!StartSize(p)
    BY <2>3 DEF L!RemoveFile, L!RemoveDir, L!StartAge, L!StartSize, L!history
  <2>4. CASE L!PlanDelete(p) \/ L!DeleteArchive(p) \/ L!Complete(p)
    BY <2>4 DEF L!PlanDelete, L!DeleteArchive, L!Complete, L!history
  <2> QED
    BY <1>3, <2>1, <2>2, <2>3, <2>4 DEF L!Maintain
<1>4. CASE UNCHANGED L!vars
  BY <1>4 DEF L!vars
<1> QED
  BY <1>1, <1>2, <1>3, <1>4 DEF L!Next

LEMMA LogsInit == L!Init => WholeLogs
<1> SUFFICES ASSUME L!Init PROVE WholeLogs
  OBVIOUS
<1>1. L!NoDir \in SourceRecords /\ L!NoDir.lines = {}
  BY DEF L!NoDir, SourceRecords, Names
<1>2. L!NoArchive \in ArchiveRecords /\ L!NoArchive.lines = {}
  BY DEF L!NoArchive, ArchiveRecords, Names
<1>3. Keeper(L!Off) /\ L!Off.pc = "off"
  <2>1. <<>> \in Seq(Sources)
    OBVIOUS
  <2> QED
    BY <1>1, <2>1 DEF L!Off, Keeper, KeeperStages
<1>4. /\ today = 0 /\ src = [s \in Sources |-> L!NoDir] /\ arch = [s \in Sources |-> L!NoArchive] /\ planned = {}
      /\ written = [s \in Sources |-> {}] /\ writers = Sources /\ proc = [p \in Pids |-> L!Off]
      /\ missed = [s \in Sources |-> {}]
  BY DEF L!Init
<1>5. FilesTyped(src, arch, planned, written)
  BY <1>1, <1>2, <1>4 DEF FilesTyped
<1>6. Kept(src, arch, planned, written, missed)
  BY <1>4 DEF Kept
<1>7. \A p \in Pids : proc[p] = L!Off
  BY <1>4
<1>8. Progress(L!Off, today, writers, src, arch, planned, missed)
  BY <1>3 DEF Progress, AtSource, AtArchive
<1>9. proc \in [Pids -> {proc[p] : p \in Pids}]
  BY <1>4
<1>10. LateOK(missed) /\ today \in Int /\ writers \subseteq Sources
  BY <1>4 DEF LateOK
<1>11. HoldsLease
  BY <1>3, <1>7 DEF HoldsLease, L!Working
<1>12. \A p \in Pids : Keeper(proc[p]) /\ Progress(proc[p], today, writers, src, arch, planned, missed)
  BY <1>3, <1>7, <1>8
<1> QED
  BY <1>5, <1>6, <1>9, <1>10, <1>11, <1>12 DEF WholeLogs

\* A step of the maintenance at work, which holds the lease.
LEMMA KeeperMoves ==
  ASSUME WholeLogs, NEW p \in Pids, L!Working(p),
         NEW r, Keeper(r), proc' = [proc EXCEPT ![p] = r], UNCHANGED <<today, writers, missed, lease>>,
         FilesTyped(src', arch', planned', written'), Kept(src', arch', planned', written', missed'),
         Progress(r, today', writers', src', arch', planned', missed')
  PROVE  WholeLogs'
<1>1. /\ proc \in [Pids -> {proc[q] : q \in Pids}] /\ today \in Int /\ writers \subseteq Sources /\ LateOK(missed)
      /\ \A q \in Pids : Keeper(proc[q]) /\ Progress(proc[q], today, writers, src, arch, planned, missed)
      /\ HoldsLease
  BY DEF WholeLogs
<1>2. \A q \in Pids : proc'[q] = IF q = p THEN r ELSE proc[q]
  BY <1>1
<1>3. lease \in Leases /\ lease.by = p /\ \A q \in Pids \ {p} : proc[q].pc \in {"off", "lease", "break", "take", "up"}
  BY <1>1 DEF HoldsLease, L!Working
<1>4. proc' \in [Pids -> {proc'[q] : q \in Pids}]
  BY <1>1, <1>2
<1>5. \A q \in Pids : Keeper(proc'[q]) /\ Progress(proc'[q], today', writers', src', arch', planned', missed')
  BY <1>1, <1>2, <1>3 DEF Progress, AtSource, AtArchive
<1>6. HoldsLease'
  BY <1>2, <1>3 DEF HoldsLease, L!Working
<1> QED
  BY <1>1, <1>4, <1>5, <1>6 DEF WholeLogs

\* A step of the writers, of the clock or of the disk.
LEMMA TreeChanges ==
  ASSUME WholeLogs, UNCHANGED <<proc, planned, lease>>, today' \in Int, today' >= today, writers' \subseteq writers,
         LateOK(missed'), \A s \in Sources : missed[s] \subseteq missed'[s],
         FilesTyped(src', arch', planned', written'), Kept(src', arch', planned', written', missed'),
         \A s \in Sources : arch'[s].there = arch[s].there /\ arch'[s].lines = arch[s].lines,
         \A s \in Sources : L!Compared(s) => src'[s].lines \subseteq src[s].lines \cup missed'[s]
  PROVE  WholeLogs'
<1>1. today \in Int /\ writers \subseteq Sources /\ Date \in [Sources -> Int]
  BY HostAssumption DEF WholeLogs
<1>2. \A s \in Sources : Frozen(s, today, writers) => Frozen(s, today', writers')
  BY <1>1 DEF Frozen
<1>3. ASSUME NEW p \in Pids PROVE Progress(proc[p], today', writers', src', arch', planned', missed')
  <2> DEFINE r == proc[p]
  <2>1. Progress(r, today, writers, src, arch, planned, missed) /\ Keeper(r)
    BY DEF WholeLogs
  <2>2. r.todo \in Seq(Sources) /\ r.now \in Int /\ \A i \in 1..Len(r.todo) : r.todo[i] \in Sources
    BY <2>1 DEF Keeper
  <2>3. r.todo # <<>> => Head(r.todo) \in Sources
    BY <2>2
  <2>4. r.pc \in {"swap", "told", "unlink"} =>
          /\ src'[Head(r.todo)].lines \subseteq src[Head(r.todo)].lines \cup missed'[Head(r.todo)]
          /\ missed[Head(r.todo)] \subseteq missed'[Head(r.todo)]
    <3>1. r.pc \in {"swap", "told", "unlink"} => L!Compared(Head(r.todo)) /\ r.todo # <<>>
      BY <2>1 DEF L!Compared, AtSource, Progress
    <3> QED
      BY <2>3, <3>1
  <2>5. r.pc \in AtSource \cup AtArchive =>
          arch'[Head(r.todo)].there = arch[Head(r.todo)].there /\ arch'[Head(r.todo)].lines = arch[Head(r.todo)].lines
    BY <2>1, <2>3 DEF Progress
  <2> HIDE DEF r
  <2>6. r.pc # "off" => r.now <= today'
    BY <1>1, <2>1, <2>2 DEF Progress
  <2>7. r.pc \in AtSource \cup {"source"} => \A i \in 1..Len(r.todo) : Frozen(r.todo[i], today', writers')
    BY <1>2, <2>1, <2>2 DEF Progress
  <2>8. {"list", "pack", "swap", "told", "unlink"} \subseteq AtSource
    BY DEF AtSource
  <2> QED
    BY <2>1, <2>4, <2>5, <2>6, <2>7, <2>8 DEF Progress, r
<1>4. HoldsLease'
  BY DEF WholeLogs, HoldsLease, L!Working
<1> QED
  BY <1>1, <1>3, <1>4 DEF WholeLogs

\* Only a unit run appends to a source that was compared with its archive.
LEMMA LinesComeElsewhere ==
  ASSUME WholeLogs, NEW s \in Sources, NEW l \in Lines, L!WriteLine(s, l), L!Compared(s)
  PROVE  Kind[s] = "unit-tests"
<1>0. PICK p \in Pids : proc[p].pc \in AtSource /\ Head(proc[p].todo) = s
  BY DEF L!Compared, AtSource
<1>1. Keeper(proc[p]) /\ Progress(proc[p], today, writers, src, arch, planned, missed)
  BY DEF WholeLogs
<1>2. proc[p].todo \in Seq(Sources) /\ proc[p].todo # <<>>
  BY <1>0, <1>1 DEF Keeper, Progress
<1>3. 1 \in 1..Len(proc[p].todo) /\ proc[p].todo[1] = s
  BY <1>0, <1>2
<1>4. Frozen(s, today, writers)
  BY <1>0, <1>1, <1>3 DEF Progress
<1>5. Kind[s] \in {"runtime", "unit-tests", "e2e-fake"} /\ today \in Int /\ Date[s] \in Int
  BY HostAssumption DEF WholeLogs
<1> QED
  BY <1>4, <1>5 DEF Frozen, L!WriteLine

LEMMA WriterSteps ==
  ASSUME WholeLogs,
         \/ L!Tick
         \/ \E s \in Sources : L!Rollover(s) \/ L!RunEnds(s) \/ L!Rot(s) \/ \E l \in Lines : L!WriteLine(s, l)
  PROVE  WholeLogs'
<1>0. /\ today \in Int /\ writers \subseteq Sources /\ src \in [Sources -> SourceRecords] /\ arch \in [Sources -> ArchiveRecords]
      /\ written \in [Sources -> SUBSET Lines]
      /\ LateOK(missed) /\ FilesTyped(src, arch, planned, written) /\ Kept(src, arch, planned, written, missed)
  BY DEF WholeLogs, FilesTyped
<1>1. CASE L!Tick
  <2>1. today' = today + 1 /\ UNCHANGED <<src, arch, proc, planned, written, writers, missed, lease>>
    BY <1>1 DEF L!Tick, L!history
  <2> QED
    BY <1>0, <2>1, TreeChanges
<1>2. ASSUME NEW s \in Sources, L!Rollover(s) PROVE WholeLogs'
  <2> DEFINE name == IF src[s].name = "active" THEN "closed" ELSE src[s].name
             r == [src[s] EXCEPT !.name = name]
  <2>1. src[s] \in SourceRecords
    BY <1>0
  <2>2. name \in Names /\ (name = "none" => src[s].name = "none")
    BY <2>1 DEF SourceRecords, Names
  <2>3. src' = [src EXCEPT ![s] = r] /\ UNCHANGED <<today, arch, proc, planned, written, missed, lease>> /\ writers' \subseteq writers
    BY <1>2 DEF L!Rollover, L!history
  <2> HIDE DEF name
  <2>4. r \in SourceRecords /\ r.name = name /\ r.lines = src[s].lines
    BY <2>1, <2>2 DEF SourceRecords
  <2> HIDE DEF r
  <2>5. src' \in [Sources -> SourceRecords] /\ \A o \in Sources : src'[o] = IF o = s THEN r ELSE src[o]
    BY <1>0, <2>3, <2>4
  <2>6. \A o \in Sources : src'[o].lines = src[o].lines /\ (src'[o].name = "none" => src[o].name = "none")
    BY <2>2, <2>4, <2>5
  <2>7. FilesTyped(src', arch', planned', written') /\ Kept(src', arch', planned', written', missed')
    BY <1>0, <2>3, <2>5, <2>6 DEF FilesTyped, Kept
  <2> QED
    BY <1>0, <2>3, <2>6, <2>7, TreeChanges
<1>3. ASSUME NEW s \in Sources, L!RunEnds(s) PROVE WholeLogs'
  <2>1. UNCHANGED <<today, src, arch, proc, planned, written, missed, lease>> /\ writers' \subseteq writers
    BY <1>3 DEF L!RunEnds, L!history
  <2> QED
    BY <1>0, <2>1, TreeChanges
<1>4. ASSUME NEW s \in Sources, L!Rot(s) PROVE WholeLogs'
  <2> DEFINE sound == FALSE
             a == [arch[s] EXCEPT !.sound = sound]
  <2>1. arch[s] \in ArchiveRecords /\ sound \in BOOLEAN
    BY <1>0
  <2>2. arch' = [arch EXCEPT ![s] = a] /\ UNCHANGED <<today, src, proc, planned, written, writers, missed, lease>>
    BY <1>4 DEF L!Rot, L!history
  <2> HIDE DEF sound
  <2>3. a \in ArchiveRecords /\ a.there = arch[s].there /\ a.lines = arch[s].lines
    BY <2>1 DEF ArchiveRecords
  <2> HIDE DEF a
  <2>4. arch' \in [Sources -> ArchiveRecords] /\ \A o \in Sources : arch'[o].there = arch[o].there /\ arch'[o].lines = arch[o].lines
    BY <1>0, <2>2, <2>3
  <2>5. FilesTyped(src', arch', planned', written') /\ Kept(src', arch', planned', written', missed')
    BY <1>0, <2>2, <2>4 DEF FilesTyped, Kept
  <2> QED
    BY <1>0, <2>2, <2>4, <2>5, TreeChanges
<1>5. ASSUME NEW s \in Sources, NEW l \in Lines, L!WriteLine(s, l) PROVE WholeLogs'
  <2> DEFINE dir == TRUE
             name == IF src[s].name = "none" THEN "active" ELSE src[s].name
             lines == src[s].lines \cup {l}
             r == [dir |-> dir, lines |-> lines, name |-> name]
  <2>1. src[s] \in SourceRecords
    BY <1>0
  <2>2. dir \in BOOLEAN /\ name \in Names \ {"none"} /\ lines \in SUBSET Lines /\ l \in lines /\ src[s].lines \subseteq lines
    BY <2>1 DEF SourceRecords, Names
  <2>3. /\ src' = [src EXCEPT ![s] = r] /\ written' = [written EXCEPT ![s] = written[s] \cup {l}]
        /\ UNCHANGED <<today, arch, proc, planned, writers, lease>>
    BY <1>5 DEF L!WriteLine
  <2> HIDE DEF dir, name, lines
  <2>4. r \in SourceRecords /\ r.name = name /\ r.lines = lines
    BY <2>2 DEF SourceRecords
  <2> HIDE DEF r
  <2>5. src' \in [Sources -> SourceRecords] /\ \A o \in Sources : src'[o] = IF o = s THEN r ELSE src[o]
    BY <1>0, <2>3, <2>4
  <2>6. /\ written' \in [Sources -> SUBSET Lines]
        /\ \A o \in Sources : written'[o] = IF o = s THEN written[s] \cup {l} ELSE written[o]
    BY <1>0, <2>3
  <2>7. FilesTyped(src', arch', planned', written')
    BY <1>0, <2>2, <2>3, <2>4, <2>5, <2>6 DEF FilesTyped
  <2>a. missed' = IF L!Compared(s) THEN [missed EXCEPT ![s] = missed[s] \cup {l}] ELSE missed
    BY <1>5 DEF L!WriteLine
  <2>b. missed \in [Sources -> SUBSET Lines] /\ \A o \in Sources : missed[o] # {} => Kind[o] = "unit-tests"
    BY <1>0 DEF LateOK
  <2>c. /\ missed' \in [Sources -> SUBSET Lines]
        /\ \A o \in Sources : missed'[o] = IF o = s /\ L!Compared(s) THEN missed[s] \cup {l} ELSE missed[o]
    BY <2>a, <2>b
  <2>d. L!Compared(s) => Kind[s] = "unit-tests"
    BY <1>5, LinesComeElsewhere
  <2>e. LateOK(missed') /\ \A o \in Sources : missed[o] \subseteq missed'[o]
    BY <2>b, <2>c, <2>d DEF LateOK
  <2>8. Kept(src', arch', planned', written', missed')
    BY <1>0, <2>2, <2>3, <2>4, <2>5, <2>6, <2>e DEF Kept
  <2>9. \A o \in Sources : L!Compared(o) => src'[o].lines \subseteq src[o].lines \cup missed'[o]
    <3>1. lines = src[s].lines \cup {l}
      BY DEF lines
    <3> QED
      BY <2>4, <2>5, <2>c, <3>1
  <2> QED
    BY <1>0, <2>3, <2>7, <2>8, <2>9, <2>e, TreeChanges
<1> QED
  BY <1>1, <1>2, <1>3, <1>4, <1>5

\* What is known of the maintenance that runs.
LEMMA KeeperKnown ==
  ASSUME WholeLogs, NEW p \in Pids, L!Alive(p)
  PROVE  /\ Keeper(proc[p]) /\ Progress(proc[p], today, writers, src, arch, planned, missed)
         /\ proc[p].todo \in Seq(Sources) /\ proc[p].now \in Int /\ proc[p].man \in SourceRecords /\ proc[p].pc \in KeeperStages
         /\ proc[p].todo # <<>> => Head(proc[p].todo) \in Sources
         /\ today \in Int /\ writers \subseteq Sources /\ proc[p].now <= today
         /\ FilesTyped(src, arch, planned, written) /\ LateOK(missed) /\ Kept(src, arch, planned, written, missed)
<1>1. Keeper(proc[p]) /\ Progress(proc[p], today, writers, src, arch, planned, missed)
  BY DEF WholeLogs
<1>2. proc[p].todo \in Seq(Sources) /\ proc[p].now \in Int /\ proc[p].man \in SourceRecords /\ proc[p].pc \in KeeperStages
  BY <1>1 DEF Keeper
<1>3. proc[p].todo # <<>> => Head(proc[p].todo) \in Sources
  BY <1>2
<1> QED
  BY <1>1, <1>2, <1>3 DEF WholeLogs, L!Alive, Progress

\* A step of a process that leaves the files as they are.
LEMMA StageMoves ==
  ASSUME WholeLogs, NEW p \in Pids,
         NEW r, Keeper(r), proc' = [proc EXCEPT ![p] = r], HoldsLease',
         UNCHANGED <<today, src, arch, planned, written, writers, missed>>,
         Progress(r, today, writers, src, arch, planned, missed)
  PROVE  WholeLogs'
<1>1. /\ today' \in Int /\ writers' \subseteq Sources /\ LateOK(missed')
      /\ FilesTyped(src', arch', planned', written') /\ Kept(src', arch', planned', written', missed')
      /\ proc \in [Pids -> {proc[q] : q \in Pids}]
      /\ \A q \in Pids : Keeper(proc[q]) /\ Progress(proc[q], today, writers, src, arch, planned, missed)
  BY DEF WholeLogs
<1>2. \A q \in Pids : proc'[q] = IF q = p THEN r ELSE proc[q]
  BY <1>1
<1>3. proc' \in [Pids -> {proc'[q] : q \in Pids}]
  BY <1>1, <1>2
<1>4. \A q \in Pids : Keeper(proc'[q]) /\ Progress(proc'[q], today', writers', src', arch', planned', missed')
  BY <1>1, <1>2
<1> QED
  BY <1>1, <1>3, <1>4 DEF WholeLogs

\* Such a step of the maintenance at work, which keeps its lease.
LEMMA WorkMoves ==
  ASSUME WholeLogs, NEW p \in Pids, L!Working(p),
         NEW r, Keeper(r), proc' = [proc EXCEPT ![p] = r],
         UNCHANGED <<today, src, arch, planned, written, writers, missed, lease>>,
         Progress(r, today, writers, src, arch, planned, missed)
  PROVE  WholeLogs'
<1>1. FilesTyped(src', arch', planned', written') /\ Kept(src', arch', planned', written', missed')
  BY DEF WholeLogs
<1>2. Progress(r, today', writers', src', arch', planned', missed')
  OBVIOUS
<1> QED
  BY <1>1, <1>2, KeeperMoves

\* What a process goes to, its list and its manifest as they were.
LEMMA GotoKeeper ==
  ASSUME NEW r0, Keeper(r0), NEW stage \in KeeperStages
  PROVE  LET r == [r0 EXCEPT !.pc = stage] IN
           Keeper(r) /\ r.pc = stage /\ r.todo = r0.todo /\ r.man = r0.man /\ r.now = r0.now
BY DEF Keeper

\* The next item of a loop.
LEMMA NextKeeper ==
  ASSUME NEW r0, Keeper(r0), r0.todo # <<>>, NEW loop \in {"source", "age", "size"}, NEW fails,
         NEW day, NEW open, NEW sr0, NEW ar0, NEW pl0, NEW lt0, NEW sr, NEW ar, NEW pl, NEW lt,
         Progress(r0, day, open, sr0, ar0, pl0, lt0), r0.pc # "off",
         loop = "source" => r0.pc \in AtSource \cup {"source"}
  PROVE  LET r == [r0 EXCEPT !.pc = loop, !.todo = Tail(r0.todo), !.man = L!NoDir, !.failed = fails] IN
           Keeper(r) /\ Progress(r, day, open, sr, ar, pl, lt)
<1> DEFINE tail == Tail(r0.todo)
           r == [r0 EXCEPT !.pc = loop, !.todo = tail, !.man = L!NoDir, !.failed = fails]
<1>1. r0.todo \in Seq(Sources)
  BY DEF Keeper
<1>2. tail \in Seq(Sources) /\ Len(tail) = Len(r0.todo) - 1 /\ \A i \in 1..Len(tail) : tail[i] = r0.todo[i + 1] /\ i + 1 \in 1..Len(r0.todo)
  BY <1>1
<1>3. L!NoDir \in SourceRecords /\ loop \in KeeperStages /\ loop \notin AtSource \cup AtArchive
  BY DEF L!NoDir, SourceRecords, Names, KeeperStages, AtSource, AtArchive
<1> HIDE DEF tail
<1>4. Keeper(r) /\ r.pc = loop /\ r.todo = tail /\ r.now = r0.now
  BY <1>2, <1>3 DEF Keeper
<1> HIDE DEF r
<1>5. {"list", "pack", "swap", "told", "unlink"} \subseteq AtSource
  BY DEF AtSource
<1>6. Progress(r, day, open, sr, ar, pl, lt)
  BY <1>2, <1>3, <1>4, <1>5 DEF Progress
<1> QED
  BY <1>4, <1>6 DEF r, tail

\* The cardinality that the instance counts with is the one of the library's theorems.
LEMMA SameCardinality ==
  ASSUME NEW A
  PROVE  L!Cardinality(A) = Cardinality(A)
BY DEF L!Cardinality, Cardinality

\* A listing holds sources of its set only.
LEMMA Listings ==
  ASSUME NEW A \in SUBSET Sources, NEW q \in L!Oldest(A)
  PROVE  q \in Seq(Sources) /\ \A i \in 1..Len(q) : q[i] \in A
<1>1. IsFiniteSet(A)
  BY HostAssumption, FS_Subset
<1>2. Cardinality(A) \in Nat
  BY <1>1, FS_CardinalityType
<1> DEFINE n == Cardinality(A)
<1>3. q \in [1..n -> A]
  <2>1. q \in [1..Cardinality(A) -> A]
    BY SameCardinality DEF L!Oldest
  <2> QED
    BY <2>1
<1> HIDE DEF n
<1>4. n \in Nat
  BY <1>2 DEF n
<1> QED
  BY <1>3, <1>4

\* The lease, and the beginning and the end of a process.
LEMMA LeaseSteps ==
  ASSUME WholeLogs, NEW p \in Pids, ~broken',
         \/ L!Start(p) \/ L!ReadLease(p) \/ L!BreakLease(p) \/ L!TakeLease(p) \/ L!WritePid(p) \/ L!Release(p)
         \/ L!Exit(p) \/ L!Crash(p)
  PROVE  WholeLogs'
<1>0. UNCHANGED <<today, src, arch, planned, written, writers, missed>>
  BY DEF L!Start, L!ReadLease, L!BreakLease, L!TakeLease, L!WritePid, L!Release, L!Exit, L!Crash, L!Files
<1>a. today \in Int /\ HoldsLease /\ proc \in [Pids -> {proc[q] : q \in Pids}]
  BY DEF WholeLogs
<1>o. Keeper(L!Off) /\ L!Off.pc = "off"
  <2>1. <<>> \in Seq(Sources) /\ L!NoDir \in SourceRecords
    BY DEF L!NoDir, SourceRecords, Names
  <2> QED
    BY <2>1 DEF L!Off, Keeper, KeeperStages
<1> SUFFICES ASSUME NEW r, Keeper(r), proc' = [proc EXCEPT ![p] = r], HoldsLease',
                    r.pc \in {"off", "lease", "up", "break", "take", "pid", "scan"}, r.pc # "off" => r.now <= today
             PROVE  WholeLogs'
  <2>1. CASE L!Start(p)
    <3> DEFINE r == [L!Off EXCEPT !.pc = "lease", !.now = today]
    <3>1. Keeper(r) /\ r.pc = "lease" /\ r.now = today
      BY <1>a, <1>o DEF Keeper, KeeperStages
    <3>2. proc' = [proc EXCEPT ![p] = r] /\ UNCHANGED lease
      BY <2>1 DEF L!Start, L!Go
    <3> HIDE DEF r
    <3>3. HoldsLease'
      BY <1>a, <3>1, <3>2 DEF HoldsLease, L!Working
    <3>4. r.now <= today
      BY <1>a, <3>1
    <3> QED
      BY <3>1, <3>2, <3>3, <3>4
  <2>2. CASE L!Exit(p) \/ L!Crash(p)
    <3>1. proc' = [proc EXCEPT ![p] = L!Off] /\ UNCHANGED lease
      BY <2>2 DEF L!Exit, L!Crash, L!Go
    <3>2. HoldsLease'
      BY <1>a, <1>o, <3>1 DEF HoldsLease, L!Working
    <3> QED
      BY <1>o, <3>1, <3>2
  <2>3. CASE L!ReadLease(p) \/ L!BreakLease(p) \/ L!TakeLease(p) \/ L!WritePid(p) \/ L!Release(p)
    <3>1. PICK stage \in {"take", "up", "break", "pid", "scan"} : L!Alive(p) /\ proc' = [proc EXCEPT ![p] = [proc[p] EXCEPT !.pc = stage]]
      BY <2>3 DEF L!ReadLease, L!BreakLease, L!TakeLease, L!WritePid, L!Release, L!Goto, L!Go, L!Alive
    <3>2. Keeper(proc[p]) /\ proc[p].now <= today
      BY <3>1, KeeperKnown
    <3> DEFINE r == [proc[p] EXCEPT !.pc = stage]
    <3>3. Keeper(r) /\ r.pc = stage /\ r.now = proc[p].now
      <4>1. stage \in KeeperStages
        BY DEF KeeperStages
      <4> QED
        BY <3>2, <4>1, GotoKeeper
    <3>4. proc' = [proc EXCEPT ![p] = r]
      BY <3>1
    <3> HIDE DEF r
    <3>5. \A q \in Pids : proc'[q] = IF q = p THEN r ELSE proc[q]
      BY <1>a, <3>4
    <3>6. proc'[p].pc = stage /\ \A q \in Pids \ {p} : proc'[q].pc = proc[q].pc
      BY <3>3, <3>5
    <3>8. \A st : proc' = [proc EXCEPT ![p] = [proc[p] EXCEPT !.pc = st]] => proc'[p].pc = st
      BY <1>a, <3>2 DEF Keeper
    <3>7. HoldsLease'
      <4>1. CASE L!ReadLease(p)
        <5>1. UNCHANGED lease /\ proc'[p].pc \in {"take", "up", "break"}
          BY <1>a, <4>1 DEF L!ReadLease, L!Goto, L!Go
        <5> QED
          BY <1>a, <3>6, <5>1 DEF HoldsLease, L!Working
      <4>2. CASE L!BreakLease(p)
        <5>1. proc'[p].pc = "take"
          BY <3>8, <4>2 DEF L!BreakLease, L!Goto, L!Go
        <5>2. broken' = (broken \/ \E q \in Pids : lease.by = q /\ L!Working(q))
          BY <4>2 DEF L!BreakLease
        <5>3. \A q \in Pids : lease.by = q => ~L!Working(q)
          BY <5>2
        <5> QED
          BY <1>a, <3>6, <5>1, <5>3 DEF HoldsLease, L!Working
      <4>3. CASE L!TakeLease(p)
        <5>1. CASE lease = L!None
          <6>1. lease' = [by |-> p, told |-> FALSE] /\ \A q \in Pids : ~L!Working(q)
            BY <1>a, <4>3, <5>1, NoLease DEF L!TakeLease, HoldsLease
          <6>2. lease' \in Leases /\ lease'.by = p
            BY <6>1 DEF Leases
          <6> QED
            BY <3>6, <6>1, <6>2 DEF HoldsLease, L!Working
        <5>2. CASE lease # L!None
          <6>1. UNCHANGED lease /\ proc'[p].pc = "up"
            BY <3>8, <4>3, <5>2 DEF L!TakeLease, L!Goto, L!Go
          <6> QED
            BY <1>a, <3>6, <6>1 DEF HoldsLease, L!Working
        <5> QED
          BY <5>1, <5>2
      <4>4. CASE L!WritePid(p)
        <5>1. proc[p].pc = "pid" /\ lease' = IF lease # L!None /\ lease.by = p THEN [lease EXCEPT !.told = TRUE] ELSE lease
          BY <4>4 DEF L!WritePid
        <5>2. lease \in Leases /\ lease.by = p /\ \A q \in Pids \ {p} : ~L!Working(q)
          BY <1>a, <5>1 DEF HoldsLease, L!Working
        <5>3. lease' \in Leases /\ lease'.by = p
          BY <5>1, <5>2 DEF Leases
        <5> QED
          BY <3>6, <5>2, <5>3 DEF HoldsLease, L!Working
      <4>5. CASE L!Release(p)
        <5>1. proc[p].pc = "release" /\ proc'[p].pc = "up"
          BY <1>a, <4>5 DEF L!Release, L!Goto, L!Go
        <5>2. \A q \in Pids \ {p} : ~L!Working(q)
          BY <1>a, <5>1 DEF HoldsLease, L!Working
        <5> QED
          BY <3>6, <5>1, <5>2 DEF HoldsLease, L!Working
      <4> QED
        BY <2>3, <4>1, <4>2, <4>3, <4>4, <4>5
    <3> QED
      BY <3>2, <3>3, <3>4, <3>7
  <2> QED
    BY <2>1, <2>2, <2>3
<1>1. Progress(r, today, writers, src, arch, planned, missed)
  BY DEF Progress, AtSource, AtArchive
<1> QED
  BY <1>0, <1>1, StageMoves

\* What is listed for the archive is of an earlier month, and its run has ended.
LEMMA CandidatesFrozen ==
  ASSUME WholeLogs, NEW now \in Int, now <= today, NEW q \in L!Candidates(now)
  PROVE  q \in Seq(Sources) /\ \A i \in 1..Len(q) : Frozen(q[i], today, writers)
<1> DEFINE A == {s \in Sources : src[s].dir /\ L!Month(Date[s]) < L!Month(now) /\ L!Finished(s)}
<1>1. q \in Seq(Sources) /\ \A i \in 1..Len(q) : q[i] \in A
  <2>1. A \in SUBSET Sources /\ q \in L!Oldest(A)
    BY DEF L!Candidates
  <2> HIDE DEF A
  <2> QED
    BY <2>1, Listings
<1>2. ASSUME NEW s \in A PROVE Frozen(s, today, writers)
  <2>1. today \in Int /\ Date[s] \in Int /\ MonthEnd \in Nat
    BY HostAssumption DEF WholeLogs
  <2>2. Date[s] < now
    BY <2>1 DEF L!Month
  <2>3. Kind[s] = "e2e-fake" => s \notin writers
    BY DEF L!Finished
  <2> QED
    BY <2>1, <2>2, <2>3 DEF Frozen
<1> HIDE DEF A
<1> QED
  BY <1>1, <1>2

\* The steps of the loops that read and tell.
LEMMA ReadingSteps ==
  ASSUME WholeLogs, NEW p \in Pids,
         \/ L!Scan(p) \/ L!CheckSource(p) \/ L!ListFiles(p) \/ L!Pack(p) \/ L!TellCreated(p)
         \/ L!StartAge(p) \/ L!StartSize(p) \/ L!Complete(p)
  PROVE  WholeLogs'
<1> DEFINE s == Head(proc[p].todo)
           next == [proc[p] EXCEPT !.pc = "source", !.todo = Tail(proc[p].todo), !.man = L!NoDir, !.failed = proc[p].failed + 1]
<1>0. /\ L!Alive(p) /\ L!Working(p) /\ UNCHANGED <<today, src, arch, planned, written, writers, missed, lease>>
      /\ proc[p].pc \in {"scan", "source", "list", "pack", "told", "age", "size"}
  BY DEF L!Scan, L!CheckSource, L!ListFiles, L!Pack, L!TellCreated, L!StartAge, L!StartSize, L!Complete, L!Doomed, L!Alive, L!Working, L!Files, L!history
<1>1. /\ Keeper(proc[p]) /\ Progress(proc[p], today, writers, src, arch, planned, missed)
      /\ proc[p].todo \in Seq(Sources) /\ proc[p].now \in Int /\ proc[p].man \in SourceRecords
      /\ proc[p].todo # <<>> => s \in Sources
      /\ proc[p].now <= today
      /\ FilesTyped(src, arch, planned, written)
  BY <1>0, KeeperKnown
<1>n. ASSUME proc' = [proc EXCEPT ![p] = next], proc[p].pc \in {"source", "pack", "told"}, proc[p].todo # <<>>
      PROVE  WholeLogs'
  <2> DEFINE fails == proc[p].failed + 1
  <2>0. next = [proc[p] EXCEPT !.pc = "source", !.todo = Tail(proc[p].todo), !.man = L!NoDir, !.failed = fails]
    OBVIOUS
  <2> HIDE DEF fails
  <2>1. Keeper(next) /\ Progress(next, today, writers, src, arch, planned, missed)
    <3>1. proc[p].pc # "off" /\ proc[p].pc \in AtSource \cup {"source"}
      BY <1>n DEF AtSource
    <3> HIDE DEF next
    <3> QED
      BY <1>1, <1>n, <2>0, <3>1, NextKeeper
  <2> HIDE DEF next
  <2> QED
    BY <1>0, <1>1, <1>n, <2>1, WorkMoves
<1>g. ASSUME NEW stage \in KeeperStages \ ({"source"} \cup AtArchive), proc' = [proc EXCEPT ![p] = [proc[p] EXCEPT !.pc = stage]],
             stage \in AtSource => proc[p].pc \in AtSource \cup {"source"} /\ proc[p].todo # <<>>,
             stage \in {"list", "pack", "swap"} => ~arch[s].there,
             stage = "swap" => src[s].lines \subseteq proc[p].man.lines,
             stage \in {"told", "unlink"} => src[s].lines \subseteq arch[s].lines \cup missed[s]
      PROVE  WholeLogs'
  <2> DEFINE r == [proc[p] EXCEPT !.pc = stage]
  <2>1. Keeper(r) /\ r.pc = stage /\ r.todo = proc[p].todo /\ r.man = proc[p].man /\ r.now = proc[p].now
    BY <1>1, GotoKeeper
  <2> HIDE DEF r
  <2>2. Progress(r, today, writers, src, arch, planned, missed)
    BY <1>0, <1>1, <1>g, <2>1 DEF Progress
  <2> QED
    BY <1>0, <1>1, <1>g, <2>1, <2>2, WorkMoves DEF r
<1>e. KeeperStages \ ({"source"} \cup AtArchive) = AtSource \cup {"off", "lease", "break", "take", "pid", "scan", "age", "size", "release", "up"}
  BY DEF KeeperStages, AtSource, AtArchive
<1>2. CASE L!Scan(p)
  <2>1. CASE \E q \in L!Candidates(proc[p].now) : L!Go(p, [proc[p] EXCEPT !.pc = "source", !.todo = q])
    <3>1. PICK q \in L!Candidates(proc[p].now) : L!Go(p, [proc[p] EXCEPT !.pc = "source", !.todo = q])
      BY <2>1
    <3>2. q \in Seq(Sources) /\ \A i \in 1..Len(q) : Frozen(q[i], today, writers)
      BY <1>1, CandidatesFrozen
    <3> DEFINE r == [proc[p] EXCEPT !.pc = "source", !.todo = q]
    <3>3. Keeper(r) /\ r.pc = "source" /\ r.todo = q /\ r.now = proc[p].now
      BY <1>1, <3>2 DEF Keeper, KeeperStages
    <3>4. proc' = [proc EXCEPT ![p] = r]
      BY <3>1 DEF L!Go
    <3> HIDE DEF r
    <3>5. Progress(r, today, writers, src, arch, planned, missed)
      BY <1>1, <3>2, <3>3 DEF Progress, AtSource, AtArchive
    <3> QED
      BY <1>0, <1>1, <3>3, <3>4, <3>5, WorkMoves
  <2>2. CASE L!Go(p, [proc[p] EXCEPT !.pc = "release", !.failed = @ + 1])
    <3> DEFINE fails == proc[p].failed + 1
    <3>1. proc' = [proc EXCEPT ![p] = [proc[p] EXCEPT !.pc = "release", !.failed = fails]]
      BY <2>2 DEF L!Go
    <3> HIDE DEF fails
    <3> DEFINE r == [proc[p] EXCEPT !.pc = "release", !.failed = fails]
    <3>2. Keeper(r) /\ r.pc = "release" /\ r.now = proc[p].now
      BY <1>1 DEF Keeper, KeeperStages
    <3>3. proc' = [proc EXCEPT ![p] = r]
      BY <3>1
    <3> HIDE DEF r
    <3>4. Progress(r, today, writers, src, arch, planned, missed)
      BY <1>1, <3>2 DEF Progress, AtSource, AtArchive
    <3> QED
      BY <1>0, <1>1, <3>2, <3>3, <3>4, WorkMoves
  <2> QED
    BY <1>2, <2>1, <2>2 DEF L!Scan
<1>3. CASE L!CheckSource(p)
  <2>0. proc[p].pc = "source" /\ proc[p].todo # <<>>
    BY <1>3 DEF L!CheckSource
  <2>1. CASE ~arch[s].there
    <3>1. proc' = [proc EXCEPT ![p] = [proc[p] EXCEPT !.pc = "list"]]
      BY <1>3, <2>1 DEF L!CheckSource, L!Current, L!Goto, L!Go
    <3> QED
      BY <1>e, <1>g, <2>0, <2>1, <3>1 DEF AtSource
  <2>2. CASE arch[s].there /\ L!Verified(arch[s]) /\ L!Same(src[s], arch[s])
    <3>1. proc' = [proc EXCEPT ![p] = [proc[p] EXCEPT !.pc = "told"]]
      BY <1>3, <2>2 DEF L!CheckSource, L!Current, L!Goto, L!Go
    <3>2. src[s].lines \subseteq arch[s].lines
      BY <2>2 DEF L!Same
    <3> QED
      BY <1>e, <1>g, <2>0, <3>1, <3>2 DEF AtSource
  <2>3. CASE arch[s].there /\ ~(L!Verified(arch[s]) /\ L!Same(src[s], arch[s]))
    <3>1. proc' = [proc EXCEPT ![p] = next]
      BY <1>3, <2>3 DEF L!CheckSource, L!Current, L!NextItem, L!Go
    <3> QED
      BY <1>n, <2>0, <3>1
  <2> QED
    BY <2>1, <2>2, <2>3
<1>4. CASE L!ListFiles(p)
  <2> DEFINE r == [proc[p] EXCEPT !.pc = "pack", !.man = src[s]]
  <2>0. proc[p].pc = "list" /\ proc' = [proc EXCEPT ![p] = r]
    BY <1>4 DEF L!ListFiles, L!Current, L!Go
  <2>1. proc[p].todo # <<>> /\ ~arch[s].there
    BY <1>1, <2>0 DEF Progress, AtSource
  <2>2. src[s] \in SourceRecords
    BY <1>1, <2>1 DEF FilesTyped
  <2>3. Keeper(r) /\ r.pc = "pack" /\ r.todo = proc[p].todo /\ r.now = proc[p].now
    BY <1>1, <2>2 DEF Keeper, KeeperStages, AtSource
  <2> HIDE DEF r
  <2>4. Progress(r, today, writers, src, arch, planned, missed)
    BY <1>1, <2>0, <2>1, <2>3 DEF Progress, AtSource, AtArchive
  <2> QED
    BY <1>0, <1>1, <2>0, <2>3, <2>4, WorkMoves
<1>5. CASE L!Pack(p)
  <2>0. proc[p].pc = "pack"
    BY <1>5 DEF L!Pack
  <2>1. proc[p].todo # <<>> /\ ~arch[s].there
    BY <1>1, <2>0 DEF Progress, AtSource
  <2>2. CASE L!Same(src[s], proc[p].man)
    <3>1. proc' = [proc EXCEPT ![p] = [proc[p] EXCEPT !.pc = "swap"]] /\ proc[p].man.lines = src[s].lines
      BY <1>5, <2>2 DEF L!Pack, L!Current, L!Goto, L!Go, L!Same
    <3> QED
      BY <1>e, <1>g, <2>0, <2>1, <3>1 DEF AtSource
  <2>3. CASE ~L!Same(src[s], proc[p].man)
    <3>1. proc' = [proc EXCEPT ![p] = next]
      BY <1>5, <2>3 DEF L!Pack, L!Current, L!NextItem, L!Go
    <3> QED
      BY <1>n, <2>0, <2>1, <3>1
  <2> QED
    BY <2>2, <2>3
<1>6. CASE L!TellCreated(p)
  <2>0. proc[p].pc = "told"
    BY <1>6 DEF L!TellCreated
  <2>1. proc[p].todo # <<>> /\ src[s].lines \subseteq arch[s].lines \cup missed[s]
    BY <1>1, <2>0 DEF Progress, AtSource
  <2>2. CASE L!Goto(p, "unlink")
    <3>1. proc' = [proc EXCEPT ![p] = [proc[p] EXCEPT !.pc = "unlink"]]
      BY <2>2 DEF L!Goto, L!Go
    <3> QED
      BY <1>e, <1>g, <2>0, <2>1, <3>1 DEF AtSource
  <2>3. CASE L!NextItem(p, "source", 1)
    <3>1. proc' = [proc EXCEPT ![p] = next]
      BY <2>3 DEF L!NextItem, L!Go
    <3> QED
      BY <1>n, <2>0, <2>1, <3>1
  <2> QED
    BY <1>6, <2>2, <2>3 DEF L!TellCreated
<1>7. CASE L!StartAge(p) \/ L!StartSize(p)
  <2> SUFFICES ASSUME NEW A \in SUBSET Sources, NEW q \in L!Oldest(A), NEW loop \in {"age", "size"}, NEW total,
                      proc' = [proc EXCEPT ![p] = [proc[p] EXCEPT !.pc = loop, !.todo = q, !.total = total]]
               PROVE  WholeLogs'
    <3>1. CASE L!StartAge(p)
      <4> DEFINE A == {t \in L!FormalArchives : proc[p].now - Date[t] >= Days}
      <4>1. A \in SUBSET Sources
        BY DEF L!FormalArchives
      <4>2. PICK q \in L!Oldest(A) : proc' = [proc EXCEPT ![p] = [proc[p] EXCEPT !.pc = "age", !.todo = q]]
        BY <3>1 DEF L!StartAge, L!OverAge, L!Go
      <4>3. [proc[p] EXCEPT !.pc = "age", !.todo = q] = [proc[p] EXCEPT !.pc = "age", !.todo = q, !.total = proc[p].total]
        BY <1>1 DEF Keeper
      <4> HIDE DEF A
      <4> QED
        BY <4>1, <4>2, <4>3
    <3>2. CASE L!StartSize(p)
      <4>1. L!FormalArchives \in SUBSET Sources
        BY DEF L!FormalArchives
      <4>2. PICK q \in L!Oldest(L!FormalArchives) :
              proc' = [proc EXCEPT ![p] = [proc[p] EXCEPT !.pc = "size", !.todo = q, !.total = L!TreeBytes]]
        BY <3>2 DEF L!StartSize, L!Go
      <4> QED
        BY <4>1, <4>2
    <3> QED
      BY <1>7, <3>1, <3>2
  <2>2. q \in Seq(Sources)
    BY Listings
  <2> DEFINE r == [proc[p] EXCEPT !.pc = loop, !.todo = q, !.total = total]
  <2>3. loop \in KeeperStages
    BY DEF KeeperStages
  <2>4. Keeper(r) /\ r.pc = loop /\ r.now = proc[p].now
    BY <1>1, <2>2, <2>3 DEF Keeper
  <2>5. proc' = [proc EXCEPT ![p] = r]
    OBVIOUS
  <2> HIDE DEF r
  <2>6. Progress(r, today, writers, src, arch, planned, missed)
    BY <1>1, <2>4 DEF Progress, AtSource, AtArchive
  <2> QED
    BY <1>0, <1>1, <2>4, <2>5, <2>6, WorkMoves
<1>8. CASE L!Complete(p)
  <2>1. PICK fails : proc' = [proc EXCEPT ![p] = [proc[p] EXCEPT !.pc = "release", !.todo = <<>>, !.man = L!NoDir, !.failed = fails]]
    <3>1. [proc[p] EXCEPT !.pc = "release", !.todo = <<>>, !.man = L!NoDir]
           = [proc[p] EXCEPT !.pc = "release", !.todo = <<>>, !.man = L!NoDir, !.failed = proc[p].failed]
      BY <1>1 DEF Keeper
    <3> QED
      BY <1>8, <3>1 DEF L!Complete, L!Go
  <2> DEFINE r == [proc[p] EXCEPT !.pc = "release", !.todo = <<>>, !.man = L!NoDir, !.failed = fails]
  <2>2. <<>> \in Seq(Sources) /\ L!NoDir \in SourceRecords
    BY DEF L!NoDir, SourceRecords, Names
  <2>3. Keeper(r) /\ r.pc = "release" /\ r.now = proc[p].now
    BY <1>1, <2>2 DEF Keeper, KeeperStages
  <2>4. proc' = [proc EXCEPT ![p] = r]
    BY <2>1
  <2> HIDE DEF r
  <2>5. Progress(r, today, writers, src, arch, planned, missed)
    BY <1>1, <2>3 DEF Progress, AtSource, AtArchive
  <2> QED
    BY <1>0, <1>1, <2>3, <2>4, <2>5, WorkMoves
<1> QED
  BY <1>2, <1>3, <1>4, <1>5, <1>6, <1>7, <1>8

\* The formal archive takes the place of nothing, and holds the lines of its source.
LEMMA SwapStep ==
  ASSUME WholeLogs, NEW p \in Pids, L!Swap(p)
  PROVE  WholeLogs'
<1> DEFINE s == Head(proc[p].todo)
           r == [proc[p] EXCEPT !.pc = "told"]
           there == TRUE
           sound == TRUE
           a == [there |-> there, name |-> proc[p].man.name, lines |-> proc[p].man.lines, sound |-> sound]
<1>0. /\ L!Alive(p) /\ L!Working(p) /\ proc[p].pc = "swap" /\ arch' = [arch EXCEPT ![s] = a] /\ proc' = [proc EXCEPT ![p] = r]
      /\ UNCHANGED <<today, src, planned, written, writers, missed, lease>>
  BY DEF L!Swap, L!history, L!Alive, L!Working, L!Goto, L!Go, L!Current
<1>1. /\ Keeper(proc[p]) /\ Progress(proc[p], today, writers, src, arch, planned, missed)
      /\ proc[p].man \in SourceRecords
      /\ proc[p].todo # <<>> => s \in Sources
      /\ today \in Int /\ writers \subseteq Sources
      /\ FilesTyped(src, arch, planned, written) /\ Kept(src, arch, planned, written, missed)
  BY <1>0, KeeperKnown
<1>2. proc[p].todo # <<>> /\ s \in Sources /\ ~arch[s].there /\ src[s].lines \subseteq proc[p].man.lines \cup missed[s]
  BY <1>0, <1>1 DEF Progress, AtSource
<1>3. there \in BOOLEAN /\ there /\ sound \in BOOLEAN
  OBVIOUS
<1> HIDE DEF there, sound
<1>4. a \in ArchiveRecords /\ a.there /\ src[s].lines \subseteq a.lines \cup missed[s]
  BY <1>1, <1>2, <1>3 DEF ArchiveRecords, SourceRecords
<1>5. Keeper(r) /\ r.pc = "told" /\ r.todo = proc[p].todo /\ r.now = proc[p].now
  <2>1. "told" \in KeeperStages
    BY DEF KeeperStages, AtSource
  <2> QED
    BY <1>1, <2>1, GotoKeeper
<1> HIDE DEF a, r
<1>6. arch' \in [Sources -> ArchiveRecords] /\ \A o \in Sources : arch'[o] = IF o = s THEN a ELSE arch[o]
  BY <1>0, <1>1, <1>4 DEF FilesTyped
<1> HIDE DEF s
<1>7. arch[s].lines = {} /\ FilesTyped(src', arch', planned', written')
  BY <1>0, <1>1, <1>2, <1>4, <1>6 DEF FilesTyped
<1>8. Kept(src', arch', planned', written', missed')
  BY <1>0, <1>1, <1>6, <1>7 DEF Kept
<1>9. Progress(r, today', writers', src', arch', planned', missed')
  BY <1>0, <1>1, <1>2, <1>4, <1>5, <1>6 DEF Progress, AtSource, AtArchive, s
<1> QED
  BY <1>0, <1>1, <1>5, <1>7, <1>8, <1>9, KeeperMoves

\* A source goes when its archive holds its lines.
LEMMA RemovingSteps ==
  ASSUME WholeLogs, NEW p \in Pids, L!RemoveFile(p) \/ L!RemoveDir(p)
  PROVE  WholeLogs'
<1> DEFINE s == Head(proc[p].todo)
<1>0. /\ L!Alive(p) /\ proc[p].pc \in {"unlink", "rmdir"} /\ L!Working(p) /\ UNCHANGED <<today, arch, planned, written, writers, missed, lease>>
  BY DEF L!RemoveFile, L!RemoveDir, L!history, L!Alive, L!Working
<1>1. /\ Keeper(proc[p]) /\ Progress(proc[p], today, writers, src, arch, planned, missed)
      /\ proc[p].todo # <<>> => s \in Sources
      /\ today \in Int /\ writers \subseteq Sources
      /\ FilesTyped(src, arch, planned, written) /\ Kept(src, arch, planned, written, missed)
  BY <1>0, KeeperKnown
<1>2. proc[p].todo # <<>> /\ s \in Sources /\ (proc[p].pc = "unlink" => src[s].lines \subseteq arch[s].lines \cup missed[s])
  BY <1>0, <1>1 DEF Progress, AtSource
<1>3. src[s] \in SourceRecords /\ src = [src EXCEPT ![s] = src[s]]
  BY <1>1, <1>2 DEF FilesTyped
<1> SUFFICES ASSUME NEW d \in SourceRecords, src' = [src EXCEPT ![s] = d],
                    d = src[s] \/ (d.lines = {} /\ src[s].lines \subseteq arch[s].lines \cup missed[s]),
                    NEW r, Keeper(r), proc' = [proc EXCEPT ![p] = r],
                    r.now = proc[p].now,
                    Progress(r, today, writers, src', arch, planned, missed)
             PROVE  WholeLogs'
  <2>1. CASE L!RemoveFile(p)
    <3> DEFINE d == [src[s] EXCEPT !.name = "none", !.lines = {}]
               r == [proc[p] EXCEPT !.pc = "rmdir"]
    <3>1. src' = [src EXCEPT ![s] = d] /\ proc' = [proc EXCEPT ![p] = r] /\ proc[p].pc = "unlink"
      BY <2>1 DEF L!RemoveFile, L!Goto, L!Go, L!Current
    <3>2. d \in SourceRecords /\ d.lines = {}
      BY <1>3 DEF SourceRecords, Names
    <3>3. Keeper(r) /\ r.pc = "rmdir" /\ r.todo = proc[p].todo /\ r.now = proc[p].now
      <4>1. "rmdir" \in KeeperStages
        BY DEF KeeperStages, AtSource
      <4> QED
        BY <1>1, <4>1, GotoKeeper
    <3> HIDE DEF d, r
    <3>4. Progress(r, today, writers, src', arch, planned, missed)
      BY <1>0, <1>1, <1>2, <3>1, <3>3 DEF Progress, AtSource, AtArchive
    <3> QED
      BY <1>2, <3>1, <3>2, <3>3, <3>4
  <2>2. CASE L!RemoveDir(p)
    <3>1. PICK fails : proc' = [proc EXCEPT ![p] = [proc[p] EXCEPT !.pc = "source", !.todo = Tail(proc[p].todo), !.man = L!NoDir, !.failed = fails]]
      BY <2>2 DEF L!RemoveDir, L!NextItem, L!Go
    <3> DEFINE r == [proc[p] EXCEPT !.pc = "source", !.todo = Tail(proc[p].todo), !.man = L!NoDir, !.failed = fails]
    <3>2. Keeper(r) /\ Progress(r, today, writers, src', arch, planned, missed)
      <4>1. proc[p].pc # "off" /\ proc[p].pc \in AtSource
        BY <1>0 DEF AtSource
      <4> QED
        BY <1>1, <1>2, <4>1, NextKeeper
    <3>3. proc' = [proc EXCEPT ![p] = r] /\ r.now = proc[p].now
      BY <1>1, <3>1 DEF Keeper
    <3> HIDE DEF r
    <3>4. \E d \in SourceRecords : src' = [src EXCEPT ![s] = d]
                                    /\ (d = src[s] \/ (d.lines = {} /\ src[s].lines \subseteq arch[s].lines \cup missed[s]))
      <4>1. CASE src' = src
        BY <1>3, <4>1
      <4>2. CASE src' # src
        <5>1. src[s].name = "none" /\ src' = [src EXCEPT ![s] = L!NoDir]
          BY <2>2, <4>2 DEF L!RemoveDir, L!Current
        <5>2. L!NoDir \in SourceRecords /\ L!NoDir.lines = {}
          BY DEF L!NoDir, SourceRecords, Names
        <5>3. src[s].lines = {}
          BY <1>1, <1>2, <5>1 DEF FilesTyped
        <5> QED
          BY <5>1, <5>2, <5>3
      <4> QED
        BY <4>1, <4>2
    <3>5. PICK d \in SourceRecords : src' = [src EXCEPT ![s] = d]
                                    /\ (d = src[s] \/ (d.lines = {} /\ src[s].lines \subseteq arch[s].lines \cup missed[s]))
      BY <3>4
    <3> QED
      BY <3>2, <3>3, <3>5
  <2> QED
    BY <2>1, <2>2
<1>4. src' \in [Sources -> SourceRecords] /\ \A o \in Sources : src'[o] = IF o = s THEN d ELSE src[o]
  BY <1>1 DEF FilesTyped
<1>5. FilesTyped(src', arch', planned', written')
  BY <1>0, <1>1, <1>4 DEF FilesTyped
<1>6. Kept(src', arch', planned', written', missed')
  BY <1>0, <1>1, <1>2, <1>4 DEF Kept
<1>7. Progress(r, today', writers', src', arch', planned', missed')
  BY <1>0
<1> QED
  BY <1>0, <1>1, <1>5, <1>6, <1>7, KeeperMoves

\* An archive goes when the plan of its deletion holds its lines.
LEMMA EvictionSteps ==
  ASSUME WholeLogs, NEW p \in Pids, L!PlanDelete(p) \/ L!DeleteArchive(p)
  PROVE  WholeLogs'
<1> DEFINE s == Head(proc[p].todo)
<1>0. /\ L!Alive(p) /\ proc[p].pc \in {"age", "size", "age delete", "size delete"}
      /\ L!Working(p) /\ UNCHANGED <<today, src, written, writers, missed, lease>>
  BY DEF L!PlanDelete, L!Doomed, L!DeleteArchive, L!history, L!Alive, L!Working
<1>1. /\ Keeper(proc[p]) /\ Progress(proc[p], today, writers, src, arch, planned, missed)
      /\ proc[p].todo # <<>> => s \in Sources
      /\ today \in Int /\ writers \subseteq Sources
      /\ FilesTyped(src, arch, planned, written) /\ Kept(src, arch, planned, written, missed)
  BY <1>0, KeeperKnown
<1>2. proc[p].todo # <<>> /\ s \in Sources
  BY <1>0, <1>1 DEF L!PlanDelete, L!Doomed, L!DeleteArchive, Progress, AtArchive
<1>3. arch[s] \in ArchiveRecords /\ proc[p].pc # "off"
  BY <1>0, <1>1, <1>2 DEF FilesTyped
<1>n. ASSUME NEW loop \in {"age", "size"}, NEW fails, NEW sr, NEW ar, NEW pl, NEW lt
      PROVE  LET r == [proc[p] EXCEPT !.pc = loop, !.todo = Tail(proc[p].todo), !.man = L!NoDir, !.failed = fails] IN
               Keeper(r) /\ Progress(r, today, writers, sr, ar, pl, lt)
  BY <1>1, <1>2, <1>3, NextKeeper
<1>4. CASE L!PlanDelete(p)
  <2>0. proc[p].pc \in {"age", "size"} /\ UNCHANGED arch
    BY <1>4 DEF L!PlanDelete, L!Doomed
  <2>1. CASE planned' = planned \cup {[of |-> s, lines |-> arch[s].lines]} /\ L!Goto(p, L!Deleting[proc[p].pc])
    <3> DEFINE e == [of |-> s, lines |-> arch[s].lines]
               stage == L!Deleting[proc[p].pc]
               r == [proc[p] EXCEPT !.pc = stage]
    <3>1. e \in Plans /\ e.of = s /\ e.lines = arch[s].lines
      BY <1>2, <1>3 DEF Plans, ArchiveRecords
    <3>2. stage \in AtArchive /\ stage \in KeeperStages
      <4>1. CASE proc[p].pc = "age"
        BY <4>1 DEF L!Deleting, AtArchive, KeeperStages
      <4>2. CASE proc[p].pc = "size"
        BY <4>2 DEF L!Deleting, AtArchive, KeeperStages
      <4> QED
        BY <2>0, <4>1, <4>2
    <3>3. planned' = planned \cup {e} /\ proc' = [proc EXCEPT ![p] = r]
      BY <2>1 DEF L!Goto, L!Go
    <3> HIDE DEF e, stage
    <3>4. Keeper(r) /\ r.pc = stage /\ r.todo = proc[p].todo /\ r.now = proc[p].now
      BY <1>1, <3>2, GotoKeeper
    <3> HIDE DEF r
    <3>5. FilesTyped(src', arch', planned', written')
      BY <1>0, <1>1, <2>0, <3>1, <3>3 DEF FilesTyped
    <3>6. Kept(src', arch', planned', written', missed')
      BY <1>0, <1>1, <2>0, <3>3 DEF Kept
    <3>7. Progress(r, today', writers', src', arch', planned', missed')
      <4>1. stage \notin AtSource \cup {"source"} /\ stage \notin {"list", "pack", "swap", "told", "unlink"}
        BY <3>2 DEF AtSource, AtArchive
      <4>2. \E x \in planned' : x.of = s /\ arch'[s].lines \subseteq x.lines
        BY <2>0, <3>1, <3>3
      <4>3. r.now <= today'
        BY <1>0, <1>1, <1>3, <3>4 DEF Progress
      <4> QED
        BY <1>2, <3>4, <4>1, <4>2, <4>3 DEF Progress
    <3> QED
      BY <1>0, <1>1, <3>3, <3>4, <3>5, <3>6, <3>7, KeeperMoves
  <2>2. CASE L!NextItem(p, proc[p].pc, 1) /\ UNCHANGED planned
    <3> DEFINE fails == proc[p].failed + 1
               r == [proc[p] EXCEPT !.pc = proc[p].pc, !.todo = Tail(proc[p].todo), !.man = L!NoDir, !.failed = fails]
    <3>1. proc' = [proc EXCEPT ![p] = r]
      BY <2>2 DEF L!NextItem, L!Go
    <3> HIDE DEF fails
    <3>2. Keeper(r) /\ Progress(r, today, writers, src, arch, planned, missed)
      BY <1>n, <2>0
    <3> HIDE DEF r
    <3> QED
      BY <1>0, <1>1, <2>0, <2>2, <3>1, <3>2, WorkMoves
  <2> QED
    BY <1>4, <2>1, <2>2 DEF L!PlanDelete, L!Current
<1>5. CASE L!DeleteArchive(p)
  <2>0. /\ proc[p].pc \in AtArchive /\ UNCHANGED planned
        /\ \E e \in planned : e.of = s /\ arch[s].lines \subseteq e.lines
    BY <1>1, <1>5 DEF L!DeleteArchive, AtArchive, Progress
  <2> DEFINE loop == L!Loop[proc[p].pc]
  <2>1. loop \in {"age", "size"}
    BY <2>0 DEF L!Loop, AtArchive
  <2>2. arch' = [arch EXCEPT ![s] = L!NoArchive] \/ UNCHANGED arch
    BY <1>5 DEF L!DeleteArchive, L!Current
  <2>3. L!NoArchive \in ArchiveRecords /\ L!NoArchive.lines = {}
    BY DEF L!NoArchive, ArchiveRecords, Names
  <2>4. FilesTyped(src', arch', planned', written')
    BY <1>0, <1>1, <2>0, <2>2, <2>3 DEF FilesTyped
  <2>5. Kept(src', arch', planned', written', missed')
    <3>1. \A o \in Sources : arch'[o] = arch[o] \/ (o = s /\ arch'[o].lines = {})
      BY <1>1, <2>2, <2>3 DEF FilesTyped
    <3> QED
      BY <1>0, <1>1, <2>0, <3>1 DEF Kept
  <2> SUFFICES ASSUME NEW r, Keeper(r), proc' = [proc EXCEPT ![p] = r], Progress(r, today, writers, src', arch', planned', missed')
               PROVE  WholeLogs'
    <3>1. CASE L!NextItem(p, loop, 1)
      <4> DEFINE fails == proc[p].failed + 1
                 r == [proc[p] EXCEPT !.pc = loop, !.todo = Tail(proc[p].todo), !.man = L!NoDir, !.failed = fails]
      <4>1. proc' = [proc EXCEPT ![p] = r]
        BY <3>1 DEF L!NextItem, L!Go
      <4> HIDE DEF fails, loop
      <4>2. Keeper(r) /\ Progress(r, today, writers, src', arch', planned', missed')
        BY <1>n, <2>1
      <4> HIDE DEF r
      <4> QED
        BY <4>1, <4>2
    <3>2. CASE L!Go(p, [proc[p] EXCEPT !.pc = loop, !.todo = Tail(@), !.total = IF loop = "size" THEN @ - 1 ELSE @])
      <4> DEFINE total == IF loop = "size" THEN proc[p].total - 1 ELSE proc[p].total
                 r == [proc[p] EXCEPT !.pc = loop, !.todo = Tail(proc[p].todo), !.total = total]
      <4>1. proc' = [proc EXCEPT ![p] = r]
        BY <3>2 DEF L!Go
      <4> HIDE DEF total, loop
      <4>2. proc[p].todo \in Seq(Sources)
        BY <1>1 DEF Keeper
      <4>3. Tail(proc[p].todo) \in Seq(Sources)
        BY <1>2, <4>2
      <4>4. loop \in KeeperStages
        BY <2>1 DEF KeeperStages
      <4>5. Keeper(r) /\ r.pc = loop /\ r.now = proc[p].now
        BY <1>1, <4>3, <4>4 DEF Keeper
      <4> HIDE DEF r
      <4>6. Progress(r, today, writers, src', arch', planned', missed')
        BY <1>1, <1>3, <2>1, <4>5 DEF Progress, AtSource, AtArchive
      <4> QED
        BY <4>1, <4>5, <4>6
    <3> QED
      BY <1>5, <3>1, <3>2 DEF L!DeleteArchive
  <2>6. Progress(r, today', writers', src', arch', planned', missed')
    BY <1>0
  <2> QED
    BY <1>0, <1>1, <2>4, <2>5, <2>6, KeeperMoves
<1> QED
  BY <1>4, <1>5

LEMMA LogsStep == LogsInv /\ [L!Next]_(L!vars) => LogsInv'
<1> SUFFICES ASSUME WholeLogs, [L!Next]_(L!vars), ~broken' PROVE WholeLogs'
  BY BrokenStays DEF LogsInv
<1>1. ASSUME NEW p \in Pids, L!Start(p) \/ L!Maintain(p) \/ L!Exit(p) \/ L!Crash(p) PROVE WholeLogs'
  BY <1>1, LeaseSteps, ReadingSteps, SwapStep, RemovingSteps, EvictionSteps DEF L!Maintain
<1>2. CASE \/ L!Tick
           \/ \E s \in Sources : L!Rollover(s) \/ L!RunEnds(s) \/ L!Rot(s) \/ \E l \in Lines : L!WriteLine(s, l)
  BY <1>2, WriterSteps
<1>3. CASE UNCHANGED L!vars
  <2>1. UNCHANGED <<today, src, arch, proc, planned, written, writers, missed, lease>>
    BY <1>3 DEF L!vars
  <2> QED
    BY <2>1 DEF WholeLogs, HoldsLease, L!Working
<1> QED
  BY <1>1, <1>2, <1>3 DEF L!Next

\* However many backends maintain the logs, one after the other or at once, no line is lost as
\* long as no lease was broken under a maintenance at work, but for those that a unit run appends
\* to a directory already compared with its archive: a source goes only after that comparison,
\* an archive only after its plan is on disk (maintain_logs).
THEOREM NoLineIsLost == SceneSpec => []NoLineLost
<1>1. SceneInit => LogsInv
  BY LogsInit DEF SceneInit, LogsInv
<1>2. [SceneNext]_sceneVars => [L!Next]_(L!vars)
  BY DEF SceneNext, sceneVars, logVars, L!vars
<1>3. ASSUME WholeLogs, NEW s \in Sources, NEW l \in written[s]
      PROVE  l \in src[s].lines \cup arch[s].lines
                     \cup (UNION {d.lines : d \in {e \in planned : e.of = s}})
                     \cup (IF Kind[s] = "unit-tests" THEN missed[s] ELSE {})
  <2> DEFINE told == UNION {d.lines : d \in {e \in planned : e.of = s}}
             unseen == IF Kind[s] = "unit-tests" THEN missed[s] ELSE {}
  <2>1. \/ l \in src[s].lines \/ l \in arch[s].lines \/ l \in missed[s]
        \/ \E d \in planned : d.of = s /\ l \in d.lines
    BY <1>3 DEF WholeLogs, Kept
  <2>2. missed[s] # {} => Kind[s] = "unit-tests"
    BY <1>3 DEF WholeLogs, LateOK
  <2>3. l \in missed[s] => l \in unseen
    BY <2>2
  <2>4. (\E d \in planned : d.of = s /\ l \in d.lines) => l \in told
    OBVIOUS
  <2> HIDE DEF told, unseen
  <2>5. l \in src[s].lines \cup arch[s].lines \cup told \cup unseen
    BY <2>1, <2>3, <2>4
  <2> QED
    BY <2>5 DEF told, unseen
<1>4. LogsInv => NoLineLost
  <2>1. CASE broken
    BY <2>1 DEF NoLineLost, L!NoLineLost
  <2>2. CASE ~broken
    BY <1>3, <2>2 DEF LogsInv, NoLineLost, L!NoLineLost
  <2> QED
    BY <2>1, <2>2
<1> QED
  BY <1>1, <1>2, <1>4, LogsStep, PTL DEF SceneSpec
====
