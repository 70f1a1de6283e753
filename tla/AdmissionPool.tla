---------------------------- MODULE AdmissionPool ----------------------------
(***************************************************************************)
(* The admission pools of workspace reads and writes                       *)
(* (workspaces/scan_admission.py, workspaces/write_admission.py): a fixed   *)
(* number of slots, a bounded FIFO of waiters, and slots that are handed    *)
(* over while the waiter that gets one has not run yet, so that a timeout   *)
(* or a cancellation can still meet it.  The two pools differ in their      *)
(* constants only.  A caller that is refused (closed, queue full, too many  *)
(* queued bytes) changes nothing.  Code between two awaits is one step.     *)
(***************************************************************************)
EXTENDS Queues, Integers, FiniteSets, FiniteSetsExt

CONSTANTS
  Tasks,       \* callers; one call of each at a time
  Sizes,       \* sizes a request may have, in bytes
  Capacity,    \* slots
  Waiting,     \* bound on the queue
  ByteLimit    \* bound on the bytes of the queued requests

ASSUME PoolAssumption ==
  /\ IsFiniteSet(Tasks) /\ Sizes \subseteq Nat
  /\ Capacity \in Nat \ {0} /\ Waiting \in Nat /\ ByteLimit \in Nat

VARIABLES
  active,        \* tasks that own a slot, those not resumed yet included
  queue,         \* tasks that wait, oldest first
  queuedBytes,
  phase,         \* open, closing (close waits for active tasks), closed
  awaited,       \* the tasks close waits for
  pc,            \* out, waiting (in wait_for), inside
  fut,           \* the future of a waiting task: pending, granted or closed
  throw,         \* what is to be thrown at the await of a waiting task
  size           \* size of the request of a waiting task

vars == <<active, queue, queuedBytes, phase, awaited, pc, fut, throw, size>>

SlotsTyped ==
  /\ active \subseteq Tasks /\ awaited \subseteq Tasks
  /\ queue \in Seq(Tasks)
  /\ phase \in {"open", "closing", "closed"}
  /\ pc \in [Tasks -> {"out", "waiting", "inside"}]
  /\ fut \in [Tasks -> {"none", "pending", "granted", "closed"}]
  /\ throw \in [Tasks -> {"none", "timeout", "cancel"}]
  /\ size \in [Tasks -> Nat]

\* Both bounds of the queue hold at all times.
TypeOK == SlotsTyped /\ queuedBytes \in 0..ByteLimit /\ Len(queue) <= Waiting

Inside == {t \in Tasks : pc[t] = "inside"}

Init ==
  /\ active = {} /\ queue = <<>> /\ queuedBytes = 0
  /\ phase = "open" /\ awaited = {}
  /\ pc = [t \in Tasks |-> "out"] /\ fut = [t \in Tasks |-> "none"]
  /\ throw = [t \in Tasks |-> "none"] /\ size = [t \in Tasks |-> 0]

-----------------------------------------------------------------------------
BytesOf(T) == MapThenSumSet(LAMBDA t : size[t], T)

ServesOneLess(held, q) ==
  LET free == IF phase = "open" THEN Capacity - Cardinality(held) - 1 ELSE 0
  IN  IF Len(q) < free THEN Len(q) ELSE free

\* How many waiters of q a release with these slots still held serves.
Served(held, q) ==
  LET free == IF phase = "open" THEN Capacity - Cardinality(held) ELSE 0
  IN  IF Len(q) < free THEN Len(q) ELSE free

\* The oldest n waiters, and the others.
Split(q, n) == [first |-> SubSeq(q, 1, n), rest |-> SubSeq(q, n + 1, Len(q))]

\* A slot is reserved for its new owner before that owner runs.
Reserved(held, granted) == held \cup granted

\* release: t gives back what it has and waiters of q get the free slots; b
\* are the bytes of q.
Release(t, q, b) ==
  LET held == active \ {t}
      s == Split(q, Served(held, q))
      granted == {s.first[i] : i \in DOMAIN s.first}
  IN
  /\ active' = Reserved(held, granted)
  /\ queue' = s.rest
  /\ queuedBytes' = b - BytesOf(granted)
  /\ fut' = [u \in Tasks |-> IF u \in granted THEN "granted"
                             ELSE IF u = t THEN "none" ELSE fut[u]]

Done(t) ==
  /\ pc' = [pc EXCEPT ![t] = "out"]
  /\ throw' = [throw EXCEPT ![t] = "none"]
  /\ size' = [size EXCEPT ![t] = 0]
  /\ UNCHANGED <<phase, awaited>>

-----------------------------------------------------------------------------
\* slot(): nobody waits and a slot is free.
EnterAtOnce(t) ==
  /\ phase = "open" /\ pc[t] = "out"
  /\ Cardinality(active) < Capacity /\ queue = <<>>
  /\ active' = active \cup {t}
  /\ pc' = [pc EXCEPT ![t] = "inside"]
  /\ UNCHANGED <<queue, queuedBytes, phase, awaited, fut, throw, size>>

\* slot(): queue up, within the bounds of the queue.
QueueUp(t, b) ==
  /\ phase = "open" /\ pc[t] = "out"
  /\ ~(Cardinality(active) < Capacity /\ queue = <<>>)
  /\ Len(queue) < Waiting /\ queuedBytes + b <= ByteLimit
  /\ queue' = Append(queue, t)
  /\ queuedBytes' = queuedBytes + b
  /\ size' = [size EXCEPT ![t] = b]
  /\ fut' = [fut EXCEPT ![t] = "pending"]
  /\ pc' = [pc EXCEPT ![t] = "waiting"]
  /\ UNCHANGED <<active, phase, awaited, throw>>

\* The task runs again with the slot it was handed.
Resume(t) ==
  /\ pc[t] = "waiting" /\ fut[t] = "granted" /\ throw[t] = "none"
  /\ pc' = [pc EXCEPT ![t] = "inside"]
  /\ fut' = [fut EXCEPT ![t] = "none"]
  /\ size' = [size EXCEPT ![t] = 0]
  /\ UNCHANGED <<active, queue, queuedBytes, phase, awaited, throw>>

\* The waiting time is over, or the task is cancelled.  The exception is thrown
\* when the task runs next; until then its future may still be granted.
Interrupt(t, e) ==
  /\ pc[t] = "waiting" /\ throw[t] = "none"
  /\ throw' = [throw EXCEPT ![t] = e]
  /\ UNCHANGED <<active, queue, queuedBytes, phase, awaited, pc, fut, size>>

\* A request that is no longer queued has been subtracted already.
BytesLeft(t) == IF fut[t] = "pending" THEN queuedBytes - size[t] ELSE queuedBytes

\* Only a request that was still queued is taken out; a slot handed over
\* meanwhile is lost.
UnwindKeepsSlot(t) ==
  /\ pc[t] = "waiting"
  /\ throw[t] # "none" \/ fut[t] = "closed"
  /\ queue' = Without(queue, t)
  /\ queuedBytes' = BytesLeft(t)
  /\ fut' = [fut EXCEPT ![t] = "none"]
  /\ Done(t)
  /\ UNCHANGED active

\* The handler of the wait: leave the queue and give back a slot that was
\* handed over meanwhile.
Unwind(t) ==
  /\ pc[t] = "waiting"
  /\ throw[t] # "none" \/ fut[t] = "closed"
  /\ Release(t, Without(queue, t), BytesLeft(t))
  /\ Done(t)

\* The body of slot() ends, normally or by an exception.
Leave(t) ==
  /\ pc[t] = "inside"
  /\ Release(t, queue, queuedBytes)
  /\ Done(t)

\* A queued request gets its refusal through its future.
AfterClose(f) == IF f = "pending" THEN "closed" ELSE f

\* Every task that owns a slot, whether it runs already or not.
Owners == active

\* close(): the waiters are refused, the owners of slots cancelled and awaited.
Close ==
  /\ phase = "open"
  /\ phase' = "closing"
  /\ fut' = [t \in Tasks |-> AfterClose(fut[t])]
  /\ queue' = <<>> /\ queuedBytes' = 0
  /\ throw' = [t \in Tasks |-> IF t \in Owners /\ pc[t] = "waiting" /\ throw[t] = "none"
                               THEN "cancel" ELSE throw[t]]
  /\ awaited' = Owners
  /\ UNCHANGED <<active, pc, size>>

\* gather() of the cancelled tasks returns.
CloseEnds ==
  /\ phase = "closing" /\ \A t \in awaited : pc[t] = "out"
  /\ phase' = "closed"
  /\ UNCHANGED <<active, queue, queuedBytes, awaited, pc, fut, throw, size>>

TaskStep(t) == Resume(t) \/ Unwind(t) \/ Leave(t)

Next ==
  \/ \E t \in Tasks :
       \/ EnterAtOnce(t) \/ TaskStep(t)
       \/ \E b \in Sizes : QueueUp(t, b)
       \/ \E e \in {"timeout", "cancel"} : Interrupt(t, e)
  \/ Close \/ CloseEnds

Spec == Init /\ [][Next]_vars

-----------------------------------------------------------------------------
\* Properties

\* Never more callers run than there are slots, whatever hand-overs,
\* cancellations and timeouts coincide (slot, release).
SlotBound == Cardinality(Inside) <= Capacity

\* No slot leaks and none is used twice: the owners are exactly the tasks that
\* run and those that were handed a slot and have not run yet.
SlotsOwned ==
  active = {t \in Tasks : pc[t] = "inside" \/ (pc[t] = "waiting" /\ fut[t] = "granted")}

\* While anybody waits in an open pool all slots are owned.
WorkConserving == queue # <<>> => Cardinality(active) = Capacity
=============================================================================
