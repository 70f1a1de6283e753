-------------------------- MODULE ExecutionProofs --------------------------
(***************************************************************************)
(* What an execution passes through, for any number of callers, calls,     *)
(* paths, items, messages and maintenances: the admission pools never run  *)
(* more callers than they have slots, leak none and leave none idle while  *)
(* anybody waits; the file tools write nothing that was not read, one at a *)
(* time, and claim nothing that did not happen; a summary that is          *)
(* published names exactly what it was made from; and a reply that is told *)
(* completed has the answer of every call, and tells every change.         *)
(***************************************************************************)
EXTENDS MCFiles, MCExecution, QueuesProofs, FiniteSetTheorems, WellFoundedInduction

-----------------------------------------------------------------------------
(* The admission pools                                                      *)

\* Who is queued waits for its future, and is queued once.
QueueOK(q) ==
  /\ \A i \in DOMAIN q : pc[q[i]] = "waiting" /\ fut[q[i]] = "pending"
  /\ Distinct(q)

Bounded == Cardinality(active) <= Capacity

Inv == SlotsTyped /\ QueueOK(queue) /\ SlotsOwned /\ Bounded

\* The first n elements of a sequence are at most n.
LEMMA PrefixCount ==
  ASSUME NEW q \in Seq(Tasks), NEW n \in 0..Len(q)
  PROVE  LET P == {q[i] : i \in 1..n}
         IN  P \subseteq Tasks /\ IsFiniteSet(P) /\ Cardinality(P) \in Nat /\ Cardinality(P) <= n
<1> DEFINE P == {q[i] : i \in 1..n}
<1>1. P \subseteq Tasks
  OBVIOUS
<1>2. IsFiniteSet(P)
  BY <1>1, FS_Subset, PoolAssumption
<1>3. [i \in 1..n |-> q[i]] \in Surjection(1..n, P)
  BY DEF Surjection
<1>4. Cardinality(P) <= n
  BY <1>3, FS_SurjCardinalityBound DEF ExistsSurjection
<1> QED
  BY <1>1, <1>2, <1>4, FS_CardinalityType

\* What a release does: the first n waiters get the slots, and there are enough.
LEMMA ReleaseEffect ==
  ASSUME SlotsTyped, Bounded, NEW t \in Tasks, NEW q \in Seq(Tasks), NEW b, Release(t, q, b)
  PROVE  \E n \in 0..Len(q) :
           /\ active' = (active \ {t}) \cup {q[i] : i \in 1..n}
           /\ queue' = SubSeq(q, n + 1, Len(q))
           /\ fut' = [u \in Tasks |-> IF u \in {q[i] : i \in 1..n} THEN "granted"
                                      ELSE IF u = t THEN "none" ELSE fut[u]]
           /\ Cardinality(active') <= Capacity
<1> DEFINE held == active \ {t}
           n == Served(held, q)
           P == {q[i] : i \in 1..n}
<1>1. IsFiniteSet(active) /\ Cardinality(active) \in Nat
  BY FS_Subset, FS_CardinalityType, PoolAssumption DEF SlotsTyped
<1>2. IsFiniteSet(held) /\ Cardinality(held) \in Nat /\ Cardinality(held) <= Cardinality(active)
  <2>1. /\ IsFiniteSet(held)
        /\ Cardinality(held) = IF t \in active THEN Cardinality(active) - 1 ELSE Cardinality(active)
    BY <1>1, FS_RemoveElement
  <2>2. Cardinality(held) \in Nat
    BY <2>1, FS_CardinalityType
  <2> QED
    BY <1>1, <2>1, <2>2
<1>3. n \in 0..Len(q) /\ Cardinality(held) + n <= Capacity
  BY <1>1, <1>2, PoolAssumption DEF Served, Bounded
<1>4. DOMAIN SubSeq(q, 1, n) = 1..n /\ \A i \in 1..n : SubSeq(q, 1, n)[i] = q[i]
  <2> HIDE DEF n
  <2>1. /\ DOMAIN SubSeq(q, 1, n) = 1..(n - 1 + 1)
        /\ \A i \in 1..(n - 1 + 1) : SubSeq(q, 1, n)[i] = q[1 + i - 1]
    BY <1>3, SubSeqFacts
  <2> QED
    BY <1>3, <2>1
<1>5. {SubSeq(q, 1, n)[i] : i \in DOMAIN SubSeq(q, 1, n)} = P
  BY <1>4
<1>6. IsFiniteSet(P) /\ Cardinality(P) \in Nat /\ Cardinality(P) <= n
  BY <1>3, PrefixCount
<1>7. Cardinality(held \cup P) <= Cardinality(held) + Cardinality(P)
  <2>1. Cardinality(held \cup P)
          = Cardinality(held) + Cardinality(P) - Cardinality(held \cap P)
    BY <1>2, <1>6, FS_Union
  <2>2. Cardinality(held \cap P) \in Nat
    BY <1>2, FS_Intersection, FS_CardinalityType
  <2> QED
    BY <2>1, <2>2, <1>2, <1>6
<1>8. Cardinality(held \cup P) \in Nat
  BY <1>2, <1>6, FS_Union, FS_CardinalityType
<1>9. active' = held \cup P /\ queue' = SubSeq(q, n + 1, Len(q))
        /\ fut' = [u \in Tasks |-> IF u \in P THEN "granted"
                                   ELSE IF u = t THEN "none" ELSE fut[u]]
  BY <1>5 DEF Release, Split, Reserved
<1>10. Cardinality(active') <= Capacity
  BY <1>2, <1>3, <1>6, <1>7, <1>8, <1>9, PoolAssumption
<1> HIDE DEF n
<1> QED
  BY <1>3, <1>9, <1>10

\* A release by t, which then is outside, keeps the invariant.
LEMMA ReleaseStep ==
  ASSUME Inv, NEW t \in Tasks, NEW q \in Seq(Tasks), NEW b, QueueOK(q),
         \A i \in DOMAIN q : q[i] # t, Release(t, q, b), Done(t)
  PROVE  Inv'
<1> USE DEF Inv
<1>1. PICK n \in 0..Len(q) :
         /\ active' = (active \ {t}) \cup {q[i] : i \in 1..n}
         /\ queue' = SubSeq(q, n + 1, Len(q))
         /\ fut' = [u \in Tasks |-> IF u \in {q[i] : i \in 1..n} THEN "granted"
                                    ELSE IF u = t THEN "none" ELSE fut[u]]
         /\ Cardinality(active') <= Capacity
  BY ReleaseEffect
<1>2. pc' = [pc EXCEPT ![t] = "out"]
  BY DEF Done
<1>3. SlotsTyped'
  BY <1>1, PrefixCount DEF SlotsTyped, Done
<1>4. /\ DOMAIN queue' = 1..(Len(q) - n)
      /\ \A i \in DOMAIN queue' : queue'[i] = q[i + n] /\ i + n \in DOMAIN q /\ i + n \notin 1..n
  <2>1. /\ DOMAIN queue' = 1..(Len(q) - (n + 1) + 1)
        /\ \A i \in 1..(Len(q) - (n + 1) + 1) : queue'[i] = q[(n + 1) + i - 1]
    BY <1>1, SubSeqFacts
  <2> QED
    BY <2>1
<1>5. \A i \in DOMAIN queue' :
        /\ queue'[i] \in Tasks /\ queue'[i] # t /\ queue'[i] \notin {q[k] : k \in 1..n}
        /\ pc[queue'[i]] = "waiting" /\ fut[queue'[i]] = "pending"
  BY <1>4 DEF QueueOK, Distinct
<1>6. QueueOK(queue)'
  <2>1. \A i \in DOMAIN queue' : pc'[queue'[i]] = "waiting" /\ fut'[queue'[i]] = "pending"
    BY <1>1, <1>2, <1>5 DEF SlotsTyped
  <2>2. \A i, j \in DOMAIN queue' : queue'[i] = queue'[j] => i = j
    <3> SUFFICES ASSUME NEW i \in DOMAIN queue', NEW j \in DOMAIN queue', queue'[i] = queue'[j]
                 PROVE  i = j
      OBVIOUS
    <3>1. q[i + n] = q[j + n] /\ i + n \in DOMAIN q /\ j + n \in DOMAIN q
      BY <1>4
    <3>2. i + n = j + n
      BY <3>1 DEF QueueOK, Distinct
    <3> QED
      BY <3>2, <1>4
  <2> QED
    BY <2>1, <2>2 DEF QueueOK, Distinct
<1>7. \A u \in {q[i] : i \in 1..n} : u \in Tasks /\ u # t /\ pc[u] = "waiting"
  BY DEF QueueOK, Distinct
<1>8. SlotsOwned'
  <2> DEFINE P == {q[i] : i \in 1..n}
  <2>1. \A u \in Tasks : u \in active' <=>
          pc'[u] = "inside" \/ (pc'[u] = "waiting" /\ fut'[u] = "granted")
    <3> SUFFICES ASSUME NEW u \in Tasks
                 PROVE  u \in active' <=> pc'[u] = "inside" \/ (pc'[u] = "waiting" /\ fut'[u] = "granted")
      OBVIOUS
    <3>1. CASE u \in P
      BY <3>1, <1>1, <1>2, <1>7 DEF SlotsTyped
    <3>2. CASE u = t
      BY <3>2, <1>1, <1>2, <1>7 DEF SlotsTyped
    <3>3. CASE u \notin P /\ u # t
      <4>1. u \in active' <=> u \in active
        BY <3>3, <1>1
      <4>2. pc'[u] = pc[u] /\ fut'[u] = fut[u]
        BY <3>3, <1>1, <1>2 DEF SlotsTyped
      <4> QED
        BY <4>1, <4>2 DEF SlotsOwned
    <3> QED
      BY <3>1, <3>2, <3>3
  <2> QED
    BY <2>1, <1>3 DEF SlotsOwned, SlotsTyped
<1> QED
  BY <1>1, <1>3, <1>6, <1>8 DEF Bounded

\* Who leaves the queue leaves the others as they are.
LEMMA WithoutFacts ==
  ASSUME SlotsTyped, QueueOK(queue), NEW t \in Tasks
  PROVE  /\ Without(queue, t) \in Seq(Tasks) /\ QueueOK(Without(queue, t))
         /\ \A i \in DOMAIN Without(queue, t) : Without(queue, t)[i] # t
<1> DEFINE w == Without(queue, t)
<1>1. /\ w \in Seq(Tasks) /\ Distinct(w)
      /\ \A i \in DOMAIN w : w[i] # t /\ w[i] \in Members(queue)
  BY WithoutKeeps DEF SlotsTyped, QueueOK
<1> HIDE DEF w
<1>2. QueueOK(w)
  BY <1>1 DEF QueueOK, Members
<1> QED
  BY <1>1, <1>2 DEF w

LEMMA InvInit == Init => Inv
<1> SUFFICES ASSUME Init PROVE Inv
  OBVIOUS
<1>1. SlotsTyped /\ QueueOK(queue) /\ SlotsOwned
  BY DEF Init, SlotsTyped, QueueOK, Distinct, SlotsOwned
<1>2. Bounded
  BY FS_EmptySet, PoolAssumption DEF Init, Bounded
<1> QED
  BY <1>1, <1>2 DEF Inv

LEMMA InvStep == Inv /\ [Next]_vars => Inv'
<1> SUFFICES ASSUME Inv, [Next]_vars PROVE Inv'
  OBVIOUS
<1> USE DEF Inv
<1>1. ASSUME NEW t \in Tasks, EnterAtOnce(t) PROVE Inv'
  <2>1. SlotsTyped' /\ QueueOK(queue)' /\ SlotsOwned'
    BY <1>1 DEF EnterAtOnce, SlotsTyped, QueueOK, Distinct, SlotsOwned
  <2>2. IsFiniteSet(active)
    BY FS_Subset, PoolAssumption DEF SlotsTyped
  <2>3. Cardinality(active) \in Nat
    BY <2>2, FS_CardinalityType
  <2>4. Cardinality(active \cup {t}) = IF t \in active THEN Cardinality(active) ELSE Cardinality(active) + 1
    BY <2>2, FS_AddElement
  <2> QED
    BY <1>1, <2>1, <2>3, <2>4, PoolAssumption DEF EnterAtOnce, Bounded
<1>2. ASSUME NEW t \in Tasks, NEW b \in Sizes, QueueUp(t, b) PROVE Inv'
  <2>1. SlotsTyped' /\ SlotsOwned' /\ Bounded'
    <3>1. SlotsTyped'
      <4>1. queue' \in Seq(Tasks) /\ UNCHANGED <<active, phase, awaited, throw>>
        BY <1>2 DEF QueueUp, SlotsTyped
      <4>2. pc' \in [Tasks -> {"out", "waiting", "inside"}]
        BY <1>2 DEF QueueUp, SlotsTyped
      <4>3. fut' \in [Tasks -> {"none", "pending", "granted", "closed"}] /\ size' \in [Tasks -> Nat]
        BY <1>2, PoolAssumption DEF QueueUp, SlotsTyped
      <4> QED
        BY <4>1, <4>2, <4>3 DEF SlotsTyped
    <3>2. SlotsOwned' /\ Bounded'
      BY <1>2 DEF QueueUp, SlotsTyped, SlotsOwned, Bounded
    <3> QED
      BY <3>1, <3>2
  <2>2. queue \in Seq(Tasks) /\ queue' = Append(queue, t) /\ \A i \in DOMAIN queue : queue[i] # t
    BY <1>2 DEF QueueUp, SlotsTyped, QueueOK
  <2>3. \A i \in DOMAIN queue' : \/ i \in DOMAIN queue /\ queue'[i] = queue[i]
                                 \/ i = Len(queue) + 1 /\ queue'[i] = t
    BY <2>2
  <2>4. \A u \in Tasks : u # t => pc'[u] = pc[u] /\ fut'[u] = fut[u]
    BY <1>2 DEF QueueUp, SlotsTyped
  <2>5. pc'[t] = "waiting" /\ fut'[t] = "pending"
    BY <1>2 DEF QueueUp, SlotsTyped
  <2>6. QueueOK(queue)'
    BY <2>2, <2>3, <2>4, <2>5 DEF QueueOK, Distinct
  <2> QED
    BY <2>1, <2>6
<1>3. ASSUME NEW t \in Tasks, Resume(t) PROVE Inv'
  BY <1>3 DEF Resume, SlotsTyped, QueueOK, Distinct, SlotsOwned, Bounded
<1>4. ASSUME NEW t \in Tasks, NEW e \in {"timeout", "cancel"}, Interrupt(t, e) PROVE Inv'
  BY <1>4 DEF Interrupt, SlotsTyped, QueueOK, Distinct, SlotsOwned, Bounded
<1>5. ASSUME NEW t \in Tasks, Unwind(t) PROVE Inv'
  BY <1>5, WithoutFacts, ReleaseStep DEF Unwind
<1>6. ASSUME NEW t \in Tasks, Leave(t) PROVE Inv'
  <2>1. queue \in Seq(Tasks) /\ \A i \in DOMAIN queue : queue[i] # t
    BY <1>6 DEF Leave, SlotsTyped, QueueOK
  <2> QED
    BY <1>6, <2>1, ReleaseStep DEF Leave
<1>7. CASE Close
  BY <1>7 DEF Close, AfterClose, Owners, SlotsTyped, QueueOK, Distinct, SlotsOwned, Bounded
<1>8. CASE CloseEnds
  BY <1>8 DEF CloseEnds, SlotsTyped, QueueOK, Distinct, SlotsOwned, Bounded
<1>9. CASE UNCHANGED vars
  BY <1>9 DEF vars, SlotsTyped, QueueOK, Distinct, SlotsOwned, Bounded
<1> QED
  BY <1>1, <1>2, <1>3, <1>4, <1>5, <1>6, <1>7, <1>8, <1>9 DEF Next, TaskStep

\* The owners of slots are exactly the tasks that run inside and those that
\* were handed a slot and have not resumed (slot, release): no slot leaks when
\* a hand-over meets a timeout or a cancellation.
THEOREM NoSlotLeaks == Spec => []SlotsOwned
<1>1. Inv => SlotsOwned
  BY DEF Inv
<1> QED
  BY <1>1, InvInit, InvStep, PTL DEF Spec

\* The pool never runs more callers than it has slots (slot, release).
THEOREM SlotsBounded == Spec => []SlotBound
<1>1. Inv => SlotBound
  <2> SUFFICES ASSUME Inv PROVE SlotBound
    OBVIOUS
  <2>1. Inside \subseteq active /\ IsFiniteSet(active)
    BY FS_Subset, PoolAssumption DEF Inv, SlotsOwned, SlotsTyped, Inside
  <2>2. Cardinality(Inside) \in Nat /\ Cardinality(active) \in Nat
          /\ Cardinality(Inside) <= Cardinality(active)
    BY <2>1, FS_Subset, FS_CardinalityType
  <2> QED
    BY <2>2, PoolAssumption DEF Inv, Bounded, SlotBound
<1> QED
  BY <1>1, InvInit, InvStep, PTL DEF Spec

-----------------------------------------------------------------------------
\* A closed pool has no queue.
ClosedIsEmpty == phase # "open" => queue = <<>>

\* Distinct waiters are as many as their places.
LEMMA DistinctCount ==
  ASSUME NEW q \in Seq(Tasks), NEW n \in 0..Len(q), Distinct(q)
  PROVE  Cardinality({q[i] : i \in 1..n}) = n
<1> DEFINE P == {q[i] : i \in 1..n}
           f == [i \in 1..n |-> q[i]]
<1>1. f \in Surjection(1..n, P)
  BY DEF Surjection
<1>2. f \in Injection(1..n, P)
  BY DEF Injection, IsInjective, Distinct
<1>3. IsFiniteSet(1..n) /\ Cardinality(1..n) = n
  BY FS_Interval
<1> HIDE DEF f, P
<1>4. Cardinality(P) = Cardinality(1..n)
  BY <1>1, <1>2, <1>3, FS_Surjection
<1> QED
  BY <1>3, <1>4 DEF P

\* A release in an open pool leaves nobody waiting unless every slot is owned:
\* as many waiters are served as slots are free.
LEMMA ReleaseFills ==
  ASSUME Inv, phase = "open", NEW t \in Tasks, NEW q \in Seq(Tasks), NEW b,
         QueueOK(q), Release(t, q, b), queue' # <<>>
  PROVE  Cardinality(active') = Capacity
<1> DEFINE held == active \ {t}
           n == Served(held, q)
           P == {q[i] : i \in 1..n}
<1>1. IsFiniteSet(held) /\ Cardinality(held) \in Nat /\ Cardinality(held) <= Capacity
  <2>1. IsFiniteSet(active) /\ Cardinality(active) \in Nat /\ Cardinality(active) <= Capacity
    BY FS_Subset, FS_CardinalityType, PoolAssumption DEF Inv, SlotsTyped, Bounded
  <2>2. IsFiniteSet(held) /\ Cardinality(held) <= Cardinality(active)
    <3>1. held \in SUBSET active
      OBVIOUS
    <3> HIDE DEF held
    <3> QED
      BY <2>1, <3>1, FS_Subset
  <2>3. Cardinality(held) \in Nat
    BY <2>2, FS_CardinalityType
  <2> QED
    BY <2>1, <2>2, <2>3, PoolAssumption
<1>2. n \in 0..Len(q)
  BY <1>1, PoolAssumption DEF Served
<1>3. n < Len(q)
  <2> SUFFICES ASSUME n = Len(q) PROVE FALSE
    BY <1>2
  <2>1. queue' = SubSeq(q, Len(q) + 1, Len(q))
    BY DEF Release, Split
  <2>2. Len(SubSeq(q, Len(q) + 1, Len(q))) = Len(q) - (Len(q) + 1) + 1 /\
          SubSeq(q, Len(q) + 1, Len(q)) \in Seq(Tasks)
    BY SubSeqFacts
  <2>3. queue' = <<>>
    BY <2>1, <2>2, EmptySeq
  <2> QED
    BY <2>3
<1>4. n = Capacity - Cardinality(held)
  BY <1>1, <1>3, PoolAssumption DEF Served
<1>5. active' = held \cup P
  <2> HIDE DEF n
  <2>1. /\ DOMAIN SubSeq(q, 1, n) = 1..(n - 1 + 1)
        /\ \A i \in 1..(n - 1 + 1) : SubSeq(q, 1, n)[i] = q[1 + i - 1]
    BY <1>2, SubSeqFacts
  <2>2. DOMAIN SubSeq(q, 1, n) = 1..n /\ \A i \in 1..n : SubSeq(q, 1, n)[i] = q[i]
    BY <1>2, <2>1
  <2>3. {SubSeq(q, 1, n)[i] : i \in DOMAIN SubSeq(q, 1, n)} = P
    BY <2>2
  <2> QED
    BY <2>3 DEF Release, Split, Reserved, n
<1> HIDE DEF n
<1>6. held \cap P = {}
  BY <1>2 DEF QueueOK, Inv, SlotsOwned
<1>7. IsFiniteSet(P) /\ Cardinality(P) = n
  BY <1>2, PrefixCount, DistinctCount DEF QueueOK, Distinct
<1> HIDE DEF held, P
<1>8. Cardinality(held \cup P) = Cardinality(held) + Cardinality(P) - Cardinality({})
  BY <1>1, <1>6, <1>7, FS_Union
<1> QED
  BY <1>1, <1>2, <1>4, <1>5, <1>7, <1>8, FS_EmptySet, PoolAssumption

LEMMA WorkStep == Inv /\ ClosedIsEmpty /\ WorkConserving /\ [Next]_vars
                    => ClosedIsEmpty' /\ WorkConserving'
<1> SUFFICES ASSUME Inv, ClosedIsEmpty, WorkConserving, [Next]_vars
             PROVE  ClosedIsEmpty' /\ WorkConserving'
  OBVIOUS
<1>1. ASSUME NEW t \in Tasks, NEW q \in Seq(Tasks), NEW b, QueueOK(q), Release(t, q, b), Done(t),
             phase # "open" => q = <<>>
      PROVE  ClosedIsEmpty' /\ WorkConserving'
  <2>1. CASE phase = "open"
    BY <2>1, <1>1, ReleaseFills DEF Done, ClosedIsEmpty, WorkConserving
  <2>2. CASE phase # "open"
    <3>1. PICK n \in 0..Len(q) : queue' = SubSeq(q, n + 1, Len(q))
      BY <1>1, ReleaseEffect DEF Inv
    <3>2. q = <<>> /\ n = 0
      BY <1>1, <2>2
    <3>3. Len(SubSeq(q, 1, 0)) = 0 - 1 + 1 /\ SubSeq(q, 1, 0) \in Seq(Tasks)
      BY <3>2, SubSeqFacts
    <3>4. queue' = <<>>
      BY <3>1, <3>2, <3>3, EmptySeq
    <3> QED
      BY <3>4, <1>1, <2>2 DEF Done, ClosedIsEmpty, WorkConserving
  <2> QED
    BY <2>1, <2>2
<1>2. ASSUME NEW t \in Tasks, EnterAtOnce(t) PROVE ClosedIsEmpty' /\ WorkConserving'
  BY <1>2 DEF EnterAtOnce, ClosedIsEmpty, WorkConserving
<1>3. ASSUME NEW t \in Tasks, NEW b \in Sizes, QueueUp(t, b) PROVE ClosedIsEmpty' /\ WorkConserving'
  <2>1. Cardinality(active) \in Nat
    BY FS_Subset, FS_CardinalityType, PoolAssumption DEF Inv, SlotsTyped
  <2>2. Cardinality(active) = Capacity
    BY <1>3, <2>1, PoolAssumption DEF QueueUp, WorkConserving, Inv, Bounded
  <2> QED
    BY <1>3, <2>2 DEF QueueUp, ClosedIsEmpty, WorkConserving
<1>4. ASSUME NEW t \in Tasks, Unwind(t) PROVE ClosedIsEmpty' /\ WorkConserving'
  <2>1. /\ Without(queue, t) \in Seq(Tasks) /\ QueueOK(Without(queue, t))
        /\ Release(t, Without(queue, t), BytesLeft(t)) /\ Done(t)
    BY <1>4, WithoutFacts DEF Unwind, Inv
  <2>2. phase # "open" => Without(queue, t) = <<>>
    BY DEF ClosedIsEmpty, Without
  <2> QED
    BY <1>1, <2>1, <2>2
<1>5. ASSUME NEW t \in Tasks, Leave(t) PROVE ClosedIsEmpty' /\ WorkConserving'
  <2>1. queue \in Seq(Tasks) /\ QueueOK(queue) /\ Release(t, queue, queuedBytes) /\ Done(t)
    BY <1>5 DEF Leave, Inv, SlotsTyped
  <2> QED
    BY <1>1, <2>1 DEF ClosedIsEmpty
<1>6. ASSUME NEW t \in Tasks, Resume(t) \/ \E e \in {"timeout", "cancel"} : Interrupt(t, e)
      PROVE  ClosedIsEmpty' /\ WorkConserving'
  BY <1>6 DEF Resume, Interrupt, ClosedIsEmpty, WorkConserving
<1>7. CASE Close
  BY <1>7 DEF Close, ClosedIsEmpty, WorkConserving
<1>8. CASE CloseEnds \/ UNCHANGED vars
  BY <1>8 DEF CloseEnds, vars, ClosedIsEmpty, WorkConserving
<1> QED
  BY <1>2, <1>3, <1>4, <1>5, <1>6, <1>7, <1>8 DEF Next, TaskStep

\* While anybody waits every slot is owned (slot, release): a release, a
\* timeout, a cancellation or a close never leaves a free slot beside a queue.
THEOREM NoIdleSlot == Spec => []WorkConserving
<1>1. Init => ClosedIsEmpty /\ WorkConserving
  BY DEF Init, ClosedIsEmpty, WorkConserving
<1> QED
  BY <1>1, InvInit, InvStep, WorkStep, PTL DEF Spec

-----------------------------------------------------------------------------
(* The file tools                                                           *)

Nodes == [status : {"running", "not_executed", "failed", "success", "result_unconfirmed"},
          applied : {"yes", "no", F!Unknown}]

Contents == {None, Torn, Outside} \cup (Calls \X (1..MaxItems))

\* A call that is in here holds the lock.
UnderLock == {"precheck", "check", "store", "recheck", "commit", "confirm"}

Receipts ==
  [pc : {"idle", "wait", "diff", "over"} \cup UnderLock, ask : Requests \cup {None},
   at : 0..MaxItems, base : Seq(Contents), nodes : Seq(Nodes),
   status : {"running", "rejected", "partial", "failed", "result_unconfirmed", "cancelled", "success"},
   cancel : BOOLEAN]

\* Where a call is in its items.
Placed(r) ==
  /\ r.pc = "idle" => r = F!Idle
  /\ r.pc # "idle" => /\ r.ask \in Requests
                      /\ Len(r.nodes) = Len(r.ask.items) /\ Len(r.base) = Len(r.ask.items)
                      /\ r.at <= Len(r.ask.items)
  /\ r.pc \in {"check", "store", "recheck", "commit", "confirm", "diff"} => r.at > 0
  /\ r.pc = "precheck" => r.at = 0

FilesTyped ==
  /\ call \in [Calls -> Receipts]
  /\ \A c \in Calls : Placed(call[c])
  /\ evidence \in [Calls \X (1..MaxItems) -> {None} \cup [state : {"prepared", "confirmed"}, row : Nat]]
  /\ rows \in Nat
  /\ file \in [Paths -> Contents]

\* What has happened to item i of the call c with the record r, when done are the items that
\* have changed a file.
ItemOK(r, c, i, done) ==
  /\ r.nodes[i].applied = "yes" => <<c, i>> \in done
  /\ r.nodes[i].applied = "no" => <<c, i>> \notin done
  /\ i > r.at => <<c, i>> \notin done
  /\ i = r.at /\ r.pc \in {"wait"} \cup (UnderLock \ {"confirm"}) => <<c, i>> \notin done
  /\ i = r.at /\ r.pc = "confirm" => <<c, i>> \in done

\* The receipt of a call says nothing of an item that did not happen.
ReceiptOK(r, c, done) ==
  /\ r.pc = "idle" => \A i \in 1..MaxItems : <<c, i>> \notin done
  /\ r.pc # "idle" => \A i \in 1..Len(r.nodes) : ItemOK(r, c, i, done)

ReceiptsOK == \A c \in Calls : ReceiptOK(call[c], c, F!Changed)

\* Nor does the evidence.
EvidenceOK ==
  \A p \in Calls \X (1..MaxItems) :
    evidence[p] # None /\ evidence[p].state = "confirmed" => p \in F!Changed

LockOK == \A c \in Calls : call[c].pc \in UnderLock <=> holder = c

FilesInv == FilesTyped /\ ReceiptsOK /\ EvidenceOK /\ LockOK

\* No call has begun, and every file is as it was found.
LEMMA FilesInit == F!Init => FilesTyped
<1> SUFFICES ASSUME F!Init PROVE FilesTyped
  OBVIOUS
<1>1. F!Idle \in Receipts /\ Placed(F!Idle)
  BY FileAssumption DEF F!Idle, Receipts, UnderLock, Placed
<1> QED
  BY <1>1, FileAssumption DEF F!Init, FilesTyped, Contents

\* A refusal keeps the shape of the record.
LEMMA RefusedTyped ==
  ASSUME NEW r \in Receipts, Placed(r), r.pc # "idle", NEW i \in 1..Len(r.nodes)
  PROVE  /\ F!Refused(r, i) \in Receipts /\ Placed(F!Refused(r, i))
         /\ F!Refused(r, i).pc = "over" /\ F!Refused(r, i).at = r.at /\ F!Refused(r, i).ask = r.ask
         /\ F!Refused(r, i).nodes = [r.nodes EXCEPT ![i] = F!Node("failed", "no")]
<1>1. F!Node("failed", "no") \in Nodes
  BY DEF F!Node, Nodes
<1>2. [r.nodes EXCEPT ![i] = F!Node("failed", "no")] \in Seq(Nodes)
  BY <1>1 DEF Receipts
<1>3. Len([r.nodes EXCEPT ![i] = F!Node("failed", "no")]) = Len(r.nodes)
  BY <1>1 DEF Receipts
<1> HIDE DEF F!Node
<1> QED
  BY <1>2, <1>3 DEF F!Refused, Receipts, UnderLock, Placed

\* So does a cancellation, after which nothing runs any more.
LEMMA CancelledTyped ==
  ASSUME NEW r \in Receipts, Placed(r), r.pc # "idle"
  PROVE  /\ F!Cancelled(r) \in Receipts /\ Placed(F!Cancelled(r))
         /\ F!Cancelled(r).pc = "over" /\ F!Cancelled(r).at = r.at /\ F!Cancelled(r).ask = r.ask
         /\ \/ F!Cancelled(r).nodes = r.nodes
            \/ /\ r.at \in 1..Len(r.nodes)
               /\ F!Cancelled(r).nodes = [r.nodes EXCEPT ![r.at] = F!Node("result_unconfirmed", F!Unknown)]
<1>1. F!Node("result_unconfirmed", F!Unknown) \in Nodes
  BY DEF F!Node, Nodes
<1> HIDE DEF F!Node
<1>2. CASE r.at > 0 /\ r.nodes[r.at].status = "running"
  <2>1. r.at \in 1..Len(r.nodes)
    BY <1>2, FileAssumption DEF Receipts, Placed
  <2>2. [r.nodes EXCEPT ![r.at] = F!Node("result_unconfirmed", F!Unknown)] \in Seq(Nodes)
    BY <1>1, <2>1 DEF Receipts
  <2>3. Len([r.nodes EXCEPT ![r.at] = F!Node("result_unconfirmed", F!Unknown)]) = Len(r.nodes)
    BY <1>1, <2>1 DEF Receipts
  <2> QED
    BY <1>2, <2>1, <2>2, <2>3 DEF F!Cancelled, Receipts, UnderLock, Placed
<1>3. CASE ~(r.at > 0 /\ r.nodes[r.at].status = "running")
  BY <1>3 DEF F!Cancelled, Receipts, UnderLock, Placed
<1> QED
  BY <1>2, <1>3

\* So does a move to another place.
LEMMA MoveTyped ==
  ASSUME NEW r \in Receipts, Placed(r), r.pc # "idle",
         NEW place \in {"wait", "diff", "over"} \cup UnderLock,
         place \in {"check", "store", "recheck", "commit", "confirm", "diff"} => r.at > 0,
         place = "precheck" => r.at = 0
  PROVE  /\ [r EXCEPT !.pc = place] \in Receipts /\ Placed([r EXCEPT !.pc = place])
         /\ [r EXCEPT !.pc = place].pc = place /\ [r EXCEPT !.pc = place].ask = r.ask
         /\ [r EXCEPT !.pc = place].at = r.at /\ [r EXCEPT !.pc = place].nodes = r.nodes
<1> DEFINE s == [r EXCEPT !.pc = place]
<1>1. s \in Receipts
  BY DEF Receipts
<1>2. s.pc = place /\ s.at = r.at /\ s.ask = r.ask /\ s.nodes = r.nodes /\ s.base = r.base
  BY DEF Receipts
<1>3. place # "idle"
  BY DEF UnderLock
<1>4. Placed(s)
  <2> HIDE DEF s
  <2> QED
    BY <1>2, <1>3 DEF Placed
<1> QED
  BY <1>1, <1>2, <1>4

\* A receipt stays true when an item that changed nothing is refused, when it is cancelled, and
\* when the call moves on.
LEMMA RefusedOK ==
  ASSUME NEW c \in Calls, NEW r \in Receipts, Placed(r), r.pc # "idle", NEW i \in 1..Len(r.nodes),
         NEW done, ReceiptOK(r, c, done), <<c, i>> \notin done
  PROVE  ReceiptOK(F!Refused(r, i), c, done)
<1> DEFINE s == F!Refused(r, i)
<1>1. /\ s.pc = "over" /\ s.at = r.at /\ s.nodes = [r.nodes EXCEPT ![i] = F!Node("failed", "no")]
      /\ s \in Receipts
  BY RefusedTyped
<1>2. Len(s.nodes) = Len(r.nodes) /\ Len(r.nodes) \in Nat
  BY <1>1, RefusedTyped DEF Placed, Receipts
<1>3. F!Node("failed", "no").applied = "no"
  BY DEF F!Node
<1>4. DOMAIN r.nodes = 1..Len(r.nodes)
  BY DEF Receipts
<1> HIDE DEF s
<1>5. ASSUME NEW k \in 1..Len(s.nodes) PROVE ItemOK(s, c, k, done)
  <2>1. ItemOK(r, c, k, done)
    BY <1>2, <1>5 DEF ReceiptOK
  <2>2. CASE k = i
    <3>1. s.nodes[k].applied = "no"
      BY <1>1, <1>3, <1>4, <2>2
    <3> QED
      BY <1>1, <2>2, <3>1 DEF ItemOK, UnderLock
  <2>3. CASE k # i
    <3>1. s.nodes[k] = r.nodes[k]
      BY <1>1, <1>2, <1>4, <2>3
    <3> QED
      BY <1>1, <2>1, <3>1 DEF ItemOK, UnderLock
  <2> QED
    BY <2>2, <2>3
<1>6. ReceiptOK(s, c, done)
  BY <1>1, <1>5 DEF ReceiptOK
<1> QED
  BY <1>6 DEF s

\* A cancelled call says of an item it had begun that nobody knows.
LEMMA CancelledOK ==
  ASSUME NEW c \in Calls, NEW r \in Receipts, Placed(r), r.pc # "idle",
         NEW done, ReceiptOK(r, c, done)
  PROVE  ReceiptOK(F!Cancelled(r), c, done)
<1> DEFINE s == F!Cancelled(r)
<1>1. /\ s.pc = "over" /\ s.at = r.at /\ s \in Receipts
      /\ \/ s.nodes = r.nodes
         \/ /\ r.at \in 1..Len(r.nodes)
            /\ s.nodes = [r.nodes EXCEPT ![r.at] = F!Node("result_unconfirmed", F!Unknown)]
  BY CancelledTyped
<1>2. F!Node("result_unconfirmed", F!Unknown).applied \notin {"yes", "no"}
  BY DEF F!Node, F!Unknown
<1>4. DOMAIN r.nodes = 1..Len(r.nodes) /\ r.nodes \in Seq(Nodes)
  BY DEF Receipts
<1> HIDE DEF s
<1>3. Len(s.nodes) = Len(r.nodes)
  BY <1>1, <1>4
<1>5. ASSUME NEW k \in 1..Len(s.nodes) PROVE ItemOK(s, c, k, done)
  <2>1. ItemOK(r, c, k, done)
    BY <1>3, <1>5 DEF ReceiptOK
  <2>2. s.nodes[k].applied \in {"yes", "no"} => s.nodes[k] = r.nodes[k]
    BY <1>1, <1>2, <1>3, <1>4
  <2> QED
    BY <1>1, <2>1, <2>2 DEF ItemOK, UnderLock
<1>6. ReceiptOK(s, c, done)
  BY <1>1, <1>5 DEF ReceiptOK
<1> QED
  BY <1>6 DEF s

\* A move says nothing new, as long as it does not skip the commit.
LEMMA MoveOK ==
  ASSUME NEW c \in Calls, NEW r \in Receipts, r.pc # "idle", NEW s \in Receipts, s.pc # "idle",
         s.at = r.at, s.nodes = r.nodes,
         s.pc = "confirm" => r.pc = "confirm",
         s.pc \in {"wait"} \cup (UnderLock \ {"confirm"}) =>
           r.pc \in {"wait"} \cup (UnderLock \ {"confirm"}),
         NEW done, ReceiptOK(r, c, done)
  PROVE  ReceiptOK(s, c, done)
BY DEF ReceiptOK, ItemOK

\* What a step of call c leaves of the calls: the others as they were, c in a record that fits
\* and says nothing that did not happen.
OneCall(c) ==
  /\ call' \in [Calls -> Receipts] /\ \A d \in Calls \ {c} : call'[d] = call[d]
  /\ Placed(call'[c]) /\ call'[c].pc # "idle"
  /\ ReceiptOK(call'[c], c, F!Changed')

\* A step that only moves its call is such a step.
LEMMA OneCallMoves ==
  ASSUME FilesTyped, ReceiptsOK, NEW c \in Calls, call[c].pc # "idle", UNCHANGED changes,
         NEW place \in {"wait", "diff", "over"} \cup (UnderLock \ {"confirm"}),
         place \in {"check", "store", "recheck", "commit", "diff"} => call[c].at > 0,
         place = "precheck" => call[c].at = 0,
         place \in {"wait"} \cup UnderLock => call[c].pc \in {"wait"} \cup (UnderLock \ {"confirm"}),
         call' = [call EXCEPT ![c].pc = place]
  PROVE  OneCall(c)
<1> DEFINE r == call[c]
           s == [r EXCEPT !.pc = place]
<1>1. r \in Receipts /\ Placed(r) /\ ReceiptOK(r, c, F!Changed) /\ call \in [Calls -> Receipts]
  BY DEF FilesTyped, ReceiptsOK
<1>2. s \in Receipts /\ Placed(s) /\ s.pc = place /\ s.at = r.at /\ s.nodes = r.nodes
  BY <1>1, MoveTyped
<1>3. call' = [call EXCEPT ![c] = s]
  BY <1>1
<1>4. place # "idle" /\ place # "confirm"
  BY DEF UnderLock
<1>5. F!Changed' = F!Changed
  BY DEF F!Changed
<1> HIDE DEF s, r
<1>6. ReceiptOK(s, c, F!Changed)
  BY <1>1, <1>2, <1>4, MoveOK DEF r
<1> QED
  BY <1>1, <1>2, <1>3, <1>4, <1>5, <1>6 DEF OneCall

\* So is one that refuses an item nothing has happened to.
LEMMA OneCallRefused ==
  ASSUME FilesTyped, ReceiptsOK, NEW c \in Calls, call[c].pc # "idle", UNCHANGED changes,
         NEW i \in 1..Len(call[c].nodes), <<c, i>> \notin F!Changed,
         call' = [call EXCEPT ![c] = F!Refused(@, i)]
  PROVE  OneCall(c)
<1> DEFINE r == call[c]
           s == F!Refused(r, i)
<1>1. r \in Receipts /\ Placed(r) /\ ReceiptOK(r, c, F!Changed) /\ call \in [Calls -> Receipts]
  BY DEF FilesTyped, ReceiptsOK
<1>2. s \in Receipts /\ Placed(s) /\ s.pc = "over"
  BY <1>1, RefusedTyped
<1>3. ReceiptOK(s, c, F!Changed)
  BY <1>1, RefusedOK
<1>4. call' = [call EXCEPT ![c] = s]
  BY <1>1
<1>5. F!Changed' = F!Changed
  BY DEF F!Changed
<1> HIDE DEF s, r
<1> QED
  BY <1>1, <1>2, <1>3, <1>4, <1>5 DEF OneCall

\* So is one that cancels the call.
LEMMA OneCallCancelled ==
  ASSUME FilesTyped, ReceiptsOK, NEW c \in Calls, call[c].pc # "idle", UNCHANGED changes,
         call' = [call EXCEPT ![c] = F!Cancelled(@)]
  PROVE  OneCall(c)
<1> DEFINE r == call[c]
           s == F!Cancelled(r)
<1>1. r \in Receipts /\ Placed(r) /\ ReceiptOK(r, c, F!Changed) /\ call \in [Calls -> Receipts]
  BY DEF FilesTyped, ReceiptsOK
<1>2. s \in Receipts /\ Placed(s) /\ s.pc = "over"
  BY <1>1, CancelledTyped
<1>3. ReceiptOK(s, c, F!Changed)
  BY <1>1, CancelledOK
<1>4. call' = [call EXCEPT ![c] = s]
  BY <1>1
<1>5. F!Changed' = F!Changed
  BY DEF F!Changed
<1> HIDE DEF s, r
<1> QED
  BY <1>1, <1>2, <1>3, <1>4, <1>5 DEF OneCall

\* The item a call is at, and that it has not changed anything before it is confirmed.
LEMMA AtItem ==
  ASSUME FilesTyped, ReceiptsOK, NEW c \in Calls, call[c].pc # "idle"
  PROVE  /\ Len(call[c].nodes) \in 1..MaxItems /\ Len(call[c].ask.items) = Len(call[c].nodes)
         /\ call[c].at \in 0..Len(call[c].nodes)
         /\ call[c].pc \in {"check", "store", "recheck", "commit", "confirm", "diff"} => call[c].at > 0
         /\ call[c].at > 0 => call[c].at \in 1..Len(call[c].nodes) /\ F!Here(c) \in Calls \X (1..MaxItems)
         /\ call[c].at > 0 /\ call[c].pc \in {"wait"} \cup (UnderLock \ {"confirm"}) =>
              F!Here(c) \notin F!Changed
         /\ call[c].at > 0 /\ call[c].pc = "confirm" => F!Here(c) \in F!Changed
         /\ call[c].at = 0 => \A i \in 1..Len(call[c].nodes) : <<c, i>> \notin F!Changed
<1> DEFINE r == call[c]
<1>1. r \in Receipts /\ Placed(r) /\ ReceiptOK(r, c, F!Changed)
  BY DEF FilesTyped, ReceiptsOK
<1>2. /\ Len(r.nodes) \in 1..MaxItems /\ Len(r.ask.items) = Len(r.nodes) /\ r.at \in 0..Len(r.nodes)
      /\ r.pc \in {"check", "store", "recheck", "commit", "confirm", "diff"} => r.at > 0
  BY <1>1, FileAssumption DEF Placed, Receipts
<1>3. r.at > 0 => r.at \in 1..Len(r.nodes) /\ F!Here(c) \in Calls \X (1..MaxItems)
  BY <1>2, FileAssumption DEF F!Here
<1>4. \A i \in 1..Len(r.nodes) : ItemOK(r, c, i, F!Changed)
  BY <1>1 DEF ReceiptOK
<1> QED
  BY <1>2, <1>3, <1>4 DEF ItemOK, F!Here

\* Evidence is prepared first and may be confirmed later, one row per item.
LEMMA KeepTyped ==
  ASSUME FilesTyped, NEW p \in Calls \X (1..MaxItems), NEW s \in {"prepared", "confirmed"},
         F!Keep(p, s)
  PROVE  /\ evidence' \in [Calls \X (1..MaxItems) -> {None} \cup [state : {"prepared", "confirmed"}, row : Nat]]
         /\ rows' \in Nat
         /\ evidence'[p].state = s
         /\ \A q \in Calls \X (1..MaxItems) : q # p => evidence'[q] = evidence[q]
<1>1. CASE evidence[p] = None
  BY <1>1 DEF F!Keep, FilesTyped
<1>2. CASE evidence[p] # None
  BY <1>2 DEF F!Keep, FilesTyped
<1> QED
  BY <1>1, <1>2

\* The same when the database fails to store it.
LEMMA RecordTyped ==
  ASSUME FilesTyped, NEW p \in Calls \X (1..MaxItems), NEW s \in {"prepared", "confirmed"},
         F!Record(p, s)
  PROVE  /\ evidence' \in [Calls \X (1..MaxItems) -> {None} \cup [state : {"prepared", "confirmed"}, row : Nat]]
         /\ rows' \in Nat
         /\ evidence' = evidence \/ evidence'[p].state = s
         /\ \A q \in Calls \X (1..MaxItems) : q # p => evidence'[q] = evidence[q]
<1>1. CASE F!Keep(p, s)
  BY <1>1, KeepTyped
<1>2. CASE UNCHANGED <<evidence, rows>>
  BY <1>2 DEF FilesTyped
<1> QED
  BY <1>1, <1>2 DEF F!Record

\* A call begins with an item for each path it names, none of them applied.
LEMMA BeginStep ==
  ASSUME FilesTyped, ReceiptsOK, NEW c \in Calls, NEW q \in Requests, F!Begin(c, q)
  PROVE  OneCall(c)
<1> DEFINE n == IF q.batch THEN F!Node("not_executed", "no") ELSE F!Node("running", F!Unknown)
           r == [pc |-> "wait", ask |-> q, at |-> IF q.batch THEN 0 ELSE 1,
                 base |-> [i \in DOMAIN q.items |-> file[q.items[i]]],
                 nodes |-> [i \in DOMAIN q.items |-> n], status |-> "running", cancel |-> FALSE]
<1>1. q.items \in Seq(Paths) /\ Len(q.items) \in 1..MaxItems
  BY FileAssumption
<1>2. n \in Nodes
  BY DEF F!Node, Nodes
<1>3. /\ [i \in DOMAIN q.items |-> n] \in Seq(Nodes)
      /\ Len([i \in DOMAIN q.items |-> n]) = Len(q.items)
  <2> HIDE DEF n
  <2> QED
  BY <1>1, <1>2
<1>4. /\ [i \in DOMAIN q.items |-> file[q.items[i]]] \in Seq(Contents)
      /\ Len([i \in DOMAIN q.items |-> file[q.items[i]]]) = Len(q.items)
  <2>1. file \in [Paths -> Contents]
    BY DEF FilesTyped
  <2>2. \A i \in DOMAIN q.items : file[q.items[i]] \in Contents
    BY <1>1, <2>1
  <2> HIDE DEF Contents
  <2> QED
    BY <1>1, <2>2
<1>5. r \in Receipts /\ Placed(r) /\ r.pc = "wait"
  <2> HIDE DEF n
  <2> DEFINE nn == [i \in DOMAIN q.items |-> n]
             bb == [i \in DOMAIN q.items |-> file[q.items[i]]]
  <2>1. nn \in Seq(Nodes) /\ Len(nn) = Len(q.items) /\ bb \in Seq(Contents) /\ Len(bb) = Len(q.items)
    BY <1>3, <1>4
  <2>2. r = [pc |-> "wait", ask |-> q, at |-> IF q.batch THEN 0 ELSE 1, base |-> bb,
             nodes |-> nn, status |-> "running", cancel |-> FALSE]
    OBVIOUS
  <2> HIDE DEF nn, bb, r
  <2>3. (IF q.batch THEN 0 ELSE 1) \in 0..MaxItems /\ (IF q.batch THEN 0 ELSE 1) <= Len(q.items)
    BY <1>1, FileAssumption
  <2> QED
    BY <1>1, <2>1, <2>2, <2>3 DEF Receipts, Placed, UnderLock
<1>6. call' = [call EXCEPT ![c] = r] /\ changes' = changes /\ call[c].pc = "idle"
  BY DEF F!Begin
<1>7. \A i \in 1..MaxItems : <<c, i>> \notin F!Changed
  BY <1>6 DEF ReceiptsOK, ReceiptOK
<1>8. ReceiptOK(r, c, F!Changed)
  <2>1. Len(r.nodes) <= MaxItems /\ Len(r.nodes) \in Nat
    BY <1>1, <1>3
  <2>2. \A i \in 1..Len(r.nodes) : r.nodes[i].applied # "yes"
    BY <1>3 DEF F!Node, F!Unknown
  <2> HIDE DEF r
  <2> QED
    BY <1>5, <1>7, <2>1, <2>2, FileAssumption DEF ReceiptOK, ItemOK
<1> HIDE DEF r
<1> QED
  BY <1>5, <1>6, <1>8 DEF OneCall, FilesTyped, F!Changed

\* A call takes the lock at the precheck of its batch or at the check of an item.
LEMMA LockStep ==
  ASSUME FilesTyped, ReceiptsOK, NEW c \in Calls, F!Lock(c)
  PROVE  OneCall(c)
<1>1. call[c].pc = "wait" /\ changes' = changes
  BY DEF F!Lock
<1>2. CASE call[c].at = 0
  <2>1. call' = [call EXCEPT ![c].pc = "precheck"]
    BY <1>2 DEF F!Lock
  <2>2. "precheck" \in UnderLock \ {"confirm"}
    BY DEF UnderLock
  <2> QED
    BY <1>1, <1>2, <2>1, <2>2, OneCallMoves
<1>3. CASE call[c].at # 0
  <2>1. call' = [call EXCEPT ![c].pc = "check"]
    BY <1>3 DEF F!Lock
  <2>2. "check" \in UnderLock \ {"confirm"}
    BY DEF UnderLock
  <2>3. call[c].at > 0
    BY <1>1, <1>3, AtItem
  <2> QED
    BY <1>1, <2>1, <2>2, <2>3, OneCallMoves
<1> QED
  BY <1>2, <1>3

\* A call that waits for too long has not touched its item.
LEMMA GiveUpStep ==
  ASSUME FilesTyped, ReceiptsOK, NEW c \in Calls, F!GiveUp(c)
  PROVE  OneCall(c)
<1>1. call[c].pc = "wait" /\ changes' = changes
  BY DEF F!GiveUp
<1>2. CASE call[c].at = 0
  <2> DEFINE r == call[c]
             s == [r EXCEPT !.pc = "over", !.status = "rejected"]
  <2>1. call' = [call EXCEPT ![c] = s]
    BY <1>2 DEF F!GiveUp
  <2>2. r \in Receipts /\ Placed(r) /\ ReceiptOK(r, c, F!Changed) /\ call \in [Calls -> Receipts]
    BY DEF FilesTyped, ReceiptsOK
  <2>3. s \in Receipts /\ s.pc = "over" /\ s.ask = r.ask /\ s.at = r.at /\ s.nodes = r.nodes /\
          s.base = r.base
    BY <2>2 DEF Receipts
  <2>4. F!Changed' = F!Changed
    BY <1>1 DEF F!Changed
  <2> HIDE DEF s
  <2>5. Placed(s)
    BY <1>1, <2>2, <2>3 DEF Placed
  <2>6. ReceiptOK(s, c, F!Changed)
    <3>1. "over" \notin UnderLock
      BY DEF UnderLock
    <3> QED
      BY <1>1, <2>2, <2>3, <3>1, MoveOK
  <2> QED
    BY <2>1, <2>2, <2>3, <2>4, <2>5, <2>6 DEF OneCall
<1>3. CASE call[c].at # 0
  <2>1. call' = [call EXCEPT ![c] = F!Refused(@, call[c].at)]
    BY <1>3 DEF F!GiveUp
  <2>2. call[c].at \in 1..Len(call[c].nodes) /\ <<c, call[c].at>> \notin F!Changed
    BY <1>1, <1>3, AtItem DEF F!Here
  <2> QED
    BY <1>1, <2>1, <2>2, OneCallRefused
<1> QED
  BY <1>2, <1>3

\* A batch is refused before anything of it is written.
LEMMA PrecheckStep ==
  ASSUME FilesTyped, ReceiptsOK, NEW c \in Calls, F!Precheck(c)
  PROVE  OneCall(c)
<1> DEFINE r == call[c]
<1>1. r.pc = "precheck" /\ r.pc # "idle" /\ changes' = changes
  BY DEF F!Precheck
<1>2. r \in Receipts /\ Placed(r) /\ call \in [Calls -> Receipts] /\ r.at = 0
  BY <1>1 DEF FilesTyped, Placed
<1>3. Len(r.nodes) \in 1..MaxItems /\ \A i \in 1..Len(r.nodes) : <<c, i>> \notin F!Changed
  BY <1>1, <1>2, AtItem
<1>4. ASSUME call' = [call EXCEPT ![c].pc = "wait", ![c].at = 1]
      PROVE  OneCall(c)
  <2> DEFINE s == [r EXCEPT !.pc = "wait", !.at = 1]
  <2>1. call' = [call EXCEPT ![c] = s]
    BY <1>2, <1>4
  <2>2. 1 \in 0..MaxItems
    BY <1>3, FileAssumption
  <2>3. s \in Receipts /\ s.pc = "wait" /\ s.ask = r.ask /\ s.at = 1 /\ s.nodes = r.nodes /\ s.base = r.base
    BY <1>2, <2>2 DEF Receipts
  <2> HIDE DEF s
  <2>4. Placed(s)
    BY <1>1, <1>2, <1>3, <2>3 DEF Placed
  <2>5. ReceiptOK(s, c, F!Changed)
    <3>1. \A i \in 1..Len(r.nodes) : ItemOK(r, c, i, F!Changed)
      BY <1>1 DEF ReceiptsOK, ReceiptOK
    <3> QED
      BY <1>3, <2>3, <3>1 DEF ReceiptOK, ItemOK
  <2> QED
    BY <1>1, <1>2, <2>1, <2>3, <2>4, <2>5 DEF OneCall, F!Changed
<1>5. ASSUME NEW i \in F!Misfits(c), call' = [call EXCEPT ![c] = F!Refused(@, i)]
      PROVE  OneCall(c)
  <2>1. i \in 1..Len(r.nodes)
    BY <1>1, <1>2, FileAssumption DEF F!Misfits, F!Items, Placed
  <2> QED
    BY <1>1, <1>3, <1>5, <2>1, OneCallRefused
<1> QED
  BY <1>4, <1>5 DEF F!Precheck

\* An item that is let through runs, one that is not is refused.
LEMMA CheckStep ==
  ASSUME FilesTyped, ReceiptsOK, NEW c \in Calls, F!Check(c)
  PROVE  OneCall(c)
<1>1. call[c].pc = "check" /\ changes' = changes
  BY DEF F!Check
<1>2. call[c].at \in 1..Len(call[c].nodes) /\ <<c, call[c].at>> \notin F!Changed /\ call[c].at > 0
  BY <1>1, AtItem DEF F!Here, UnderLock
<1>3. CASE call' = [call EXCEPT ![c].pc = "store", ![c].nodes[call[c].at] = F!Node("running", F!Unknown)]
  <2> DEFINE r == call[c]
             n == F!Node("running", F!Unknown)
             s == [r EXCEPT !.pc = "store", !.nodes = [@ EXCEPT ![r.at] = n]]
  <2>1. r \in Receipts /\ Placed(r) /\ ReceiptOK(r, c, F!Changed) /\ call \in [Calls -> Receipts]
    BY DEF FilesTyped, ReceiptsOK
  <2>2. call' = [call EXCEPT ![c] = s]
    BY <1>3, <2>1
  <2>3. n \in Nodes /\ n.applied \notin {"yes", "no"}
    BY DEF F!Node, Nodes, F!Unknown
  <2> HIDE DEF n
  <2>4. /\ [r.nodes EXCEPT ![r.at] = n] \in Seq(Nodes)
        /\ Len([r.nodes EXCEPT ![r.at] = n]) = Len(r.nodes)
    BY <1>2, <2>1, <2>3 DEF Receipts
  <2>5. /\ s \in Receipts /\ s.pc = "store" /\ s.ask = r.ask /\ s.at = r.at
        /\ s.nodes = [r.nodes EXCEPT ![r.at] = n] /\ s.base = r.base
    BY <2>1, <2>4 DEF Receipts, UnderLock
  <2> HIDE DEF s
  <2>6. Placed(s)
    BY <1>1, <1>2, <2>1, <2>4, <2>5 DEF Placed
  <2>7. ReceiptOK(s, c, F!Changed)
    <3>1. \A i \in 1..Len(r.nodes) : ItemOK(r, c, i, F!Changed)
      BY <1>1, <2>1 DEF ReceiptOK
    <3>2. \A i \in 1..Len(r.nodes) : s.nodes[i].applied \in {"yes", "no"} => s.nodes[i] = r.nodes[i]
      BY <2>1, <2>3, <2>5 DEF Receipts
    <3>3. "store" \in UnderLock /\ "store" # "confirm" /\ "check" \in UnderLock /\ "check" # "confirm"
      BY DEF UnderLock
    <3> QED
      BY <1>1, <2>4, <2>5, <3>1, <3>2, <3>3 DEF ReceiptOK, ItemOK
  <2> QED
    BY <1>1, <2>1, <2>2, <2>5, <2>6, <2>7 DEF OneCall, F!Changed
<1>4. CASE call' = [call EXCEPT ![c] = F!Refused(@, call[c].at)]
  BY <1>1, <1>2, <1>4, OneCallRefused
<1> QED
  BY <1>3, <1>4 DEF F!Check

\* Evidence is stored before the item changes anything.
LEMMA StoreStep ==
  ASSUME FilesTyped, ReceiptsOK, NEW c \in Calls, F!Store(c)
  PROVE  OneCall(c)
<1>1. call[c].pc = "store" /\ changes' = changes
  BY DEF F!Store
<1>2. call[c].at > 0
  BY <1>1, AtItem
<1>3. CASE call' = [call EXCEPT ![c] = F!Cancelled(@)]
  BY <1>1, <1>3, OneCallCancelled
<1>4. CASE call' = [call EXCEPT ![c].pc = "recheck"]
  <2>1. "recheck" \in UnderLock \ {"confirm"} /\ "store" \in UnderLock \ {"confirm"}
    BY DEF UnderLock
  <2> QED
    BY <1>1, <1>2, <1>4, <2>1, OneCallMoves
<1> QED
  BY <1>3, <1>4 DEF F!Store

\* Access that ended meanwhile refuses the item.
LEMMA RecheckStep ==
  ASSUME FilesTyped, ReceiptsOK, NEW c \in Calls, F!Recheck(c)
  PROVE  OneCall(c)
<1>1. call[c].pc = "recheck" /\ changes' = changes
  BY DEF F!Recheck
<1>2. call[c].at \in 1..Len(call[c].nodes) /\ <<c, call[c].at>> \notin F!Changed /\ call[c].at > 0
  BY <1>1, AtItem DEF F!Here, UnderLock
<1>3. CASE call' = [call EXCEPT ![c].pc = "commit"]
  <2>1. "recheck" \in UnderLock \ {"confirm"} /\ "commit" \in UnderLock \ {"confirm"}
    BY DEF UnderLock
  <2> QED
    BY <1>1, <1>2, <1>3, <2>1, OneCallMoves
<1>4. CASE call' = [call EXCEPT ![c] = F!Refused(@, call[c].at)]
  BY <1>1, <1>2, <1>4, OneCallRefused
<1> QED
  BY <1>3, <1>4 DEF F!Recheck

\* A change is one more item that changed its file.
LEMMA ChangedGrows ==
  ASSUME NEW item, NEW based, changes' = changes \cup {[item |-> item, based |-> based]}
  PROVE  F!Changed' = F!Changed \cup {item}
<1> DEFINE new == [item |-> item, based |-> based]
<1>1. new.item = item
  OBVIOUS
<1>2. changes' = changes \cup {new}
  OBVIOUS
<1> HIDE DEF new
<1> QED
  BY <1>1, <1>2 DEF F!Changed

\* The receipt says of a committed item what happened to it.
LEMMA CommitStep ==
  ASSUME FilesTyped, ReceiptsOK, NEW c \in Calls, F!Commit(c)
  PROVE  OneCall(c)
<1> DEFINE r == call[c]
           n == F!Node("success", "yes")
           s == [r EXCEPT !.pc = "confirm", !.nodes = [@ EXCEPT ![r.at] = n]]
<1>1. r.pc = "commit" /\ F!Changed' = F!Changed \cup {F!Here(c)}
  <2> DEFINE based == file[F!Path(c, call[c].at)] = call[c].base[call[c].at]
  <2>1. changes' = changes \cup {[item |-> F!Here(c), based |-> based]} /\ r.pc = "commit"
    BY DEF F!Commit
  <2> HIDE DEF based
  <2> QED
    BY <2>1, ChangedGrows
<1>2. r.at \in 1..Len(r.nodes) /\ <<c, r.at>> \notin F!Changed /\ r.at > 0 /\ Len(r.nodes) \in Nat
  BY <1>1, AtItem DEF F!Here, UnderLock
<1>3. r \in Receipts /\ Placed(r) /\ ReceiptOK(r, c, F!Changed) /\ call \in [Calls -> Receipts]
  BY DEF FilesTyped, ReceiptsOK
<1>4. call' = [call EXCEPT ![c] = s]
  BY <1>3 DEF F!Commit
<1>5. n \in Nodes /\ n.applied = "yes"
  BY DEF F!Node, Nodes
<1> HIDE DEF n
<1>6. /\ [r.nodes EXCEPT ![r.at] = n] \in Seq(Nodes)
      /\ Len([r.nodes EXCEPT ![r.at] = n]) = Len(r.nodes)
  BY <1>2, <1>3, <1>5 DEF Receipts
<1>7. /\ s \in Receipts /\ s.pc = "confirm" /\ s.ask = r.ask /\ s.at = r.at
      /\ s.nodes = [r.nodes EXCEPT ![r.at] = n] /\ s.base = r.base
  BY <1>3, <1>6 DEF Receipts, UnderLock
<1> HIDE DEF s
<1>8. Placed(s)
  BY <1>1, <1>2, <1>3, <1>6, <1>7 DEF Placed
<1>9. ASSUME NEW i \in 1..Len(s.nodes) PROVE ItemOK(s, c, i, F!Changed \cup {F!Here(c)})
  <2>1. ItemOK(r, c, i, F!Changed)
    BY <1>1, <1>3, <1>6, <1>7 DEF ReceiptOK
  <2>2. "confirm" \notin {"wait"} \cup (UnderLock \ {"confirm"})
    BY DEF UnderLock
  <2>3. CASE i = r.at
    <3>1. s.nodes[i].applied = "yes" /\ <<c, i>> = F!Here(c)
      BY <1>2, <1>3, <1>5, <1>7, <2>3 DEF Receipts, F!Here
    <3> QED
      BY <1>2, <1>7, <2>2, <2>3, <3>1 DEF ItemOK
  <2>4. CASE i # r.at
    <3>1. s.nodes[i] = r.nodes[i] /\ <<c, i>> # F!Here(c)
      BY <1>2, <1>3, <1>6, <1>7, <2>4 DEF Receipts, F!Here
    <3> QED
      BY <1>7, <2>1, <2>4, <3>1 DEF ItemOK
  <2> QED
    BY <2>3, <2>4
<1>10. ReceiptOK(s, c, F!Changed')
  BY <1>1, <1>7, <1>9 DEF ReceiptOK
<1> QED
  BY <1>3, <1>4, <1>7, <1>8, <1>10 DEF OneCall

\* An item whose file is no longer as it was read is refused unwritten.
LEMMA ConflictStep ==
  ASSUME FilesTyped, ReceiptsOK, NEW c \in Calls, F!Conflict(c)
  PROVE  OneCall(c)
<1>1. call[c].pc = "commit" /\ changes' = changes /\ call' = [call EXCEPT ![c] = F!Refused(@, call[c].at)]
  BY DEF F!Conflict
<1>2. call[c].at \in 1..Len(call[c].nodes) /\ <<c, call[c].at>> \notin F!Changed
  BY <1>1, AtItem DEF F!Here, UnderLock
<1> QED
  BY <1>1, <1>2, OneCallRefused

\* Of a failed file operation the receipt claims nothing.
LEMMA BreakStep ==
  ASSUME FilesTyped, ReceiptsOK, NEW c \in Calls, F!Break(c)
  PROVE  OneCall(c)
<1> DEFINE r == call[c]
           n == F!Node("result_unconfirmed", F!Unknown)
           s == [r EXCEPT !.pc = "over", !.status = "result_unconfirmed", !.nodes = [@ EXCEPT ![r.at] = n]]
<1>1. r.pc = "commit" /\ (F!Changed' = F!Changed \/ F!Changed' = F!Changed \cup {F!Here(c)})
  BY DEF F!Break, F!Changed, F!Here
<1>2. r.at \in 1..Len(r.nodes) /\ <<c, r.at>> \notin F!Changed /\ r.at > 0 /\ Len(r.nodes) \in Nat
  BY <1>1, AtItem DEF F!Here, UnderLock
<1>3. r \in Receipts /\ Placed(r) /\ ReceiptOK(r, c, F!Changed) /\ call \in [Calls -> Receipts]
  BY DEF FilesTyped, ReceiptsOK
<1>4. call' = [call EXCEPT ![c] = s]
  BY <1>3 DEF F!Break, F!Unconfirmed
<1>5. n \in Nodes /\ n.applied \notin {"yes", "no"}
  BY DEF F!Node, Nodes, F!Unknown
<1> HIDE DEF n
<1>6. /\ [r.nodes EXCEPT ![r.at] = n] \in Seq(Nodes)
      /\ Len([r.nodes EXCEPT ![r.at] = n]) = Len(r.nodes)
  BY <1>2, <1>3, <1>5 DEF Receipts
<1>7. /\ s \in Receipts /\ s.pc = "over" /\ s.ask = r.ask /\ s.at = r.at
      /\ s.nodes = [r.nodes EXCEPT ![r.at] = n] /\ s.base = r.base
  BY <1>3, <1>6 DEF Receipts, UnderLock
<1> HIDE DEF s
<1>8. Placed(s)
  BY <1>1, <1>2, <1>3, <1>6, <1>7 DEF Placed
<1>9. ASSUME NEW i \in 1..Len(s.nodes), NEW done, done = F!Changed \/ done = F!Changed \cup {F!Here(c)}
      PROVE  ItemOK(s, c, i, done)
  <2>1. ItemOK(r, c, i, F!Changed)
    BY <1>1, <1>3, <1>6, <1>7 DEF ReceiptOK
  <2>2. "over" \notin {"wait"} \cup UnderLock
    BY DEF UnderLock
  <2>3. CASE i = r.at
    <3>1. s.nodes[i] = n
      BY <1>2, <1>3, <1>7, <2>3 DEF Receipts
    <3> QED
      BY <1>2, <1>5, <1>7, <2>2, <2>3, <3>1 DEF ItemOK
  <2>4. CASE i # r.at
    <3>1. s.nodes[i] = r.nodes[i] /\ <<c, i>> # F!Here(c)
      BY <1>2, <1>3, <1>6, <1>7, <2>4 DEF Receipts, F!Here
    <3> QED
      BY <1>7, <1>9, <2>1, <2>4, <3>1 DEF ItemOK
  <2> QED
    BY <2>3, <2>4
<1>10. ReceiptOK(s, c, F!Changed')
  BY <1>1, <1>7, <1>9 DEF ReceiptOK
<1> QED
  BY <1>3, <1>4, <1>7, <1>8, <1>10 DEF OneCall

\* The confirmed item has been committed.
LEMMA ConfirmStep ==
  ASSUME FilesTyped, ReceiptsOK, NEW c \in Calls, F!Confirm(c)
  PROVE  OneCall(c)
<1>1. call[c].pc = "confirm" /\ changes' = changes
  BY DEF F!Confirm
<1>2. call[c].at > 0
  BY <1>1, AtItem
<1>3. CASE call[c].cancel
  BY <1>1, <1>3, OneCallCancelled DEF F!Confirm
<1>4. CASE ~call[c].cancel
  <2>1. call' = [call EXCEPT ![c].pc = "diff"]
    BY <1>4 DEF F!Confirm
  <2>2. "diff" \notin UnderLock
    BY DEF UnderLock
  <2> QED
    BY <1>1, <1>2, <2>1, <2>2, OneCallMoves
<1> QED
  BY <1>3, <1>4

\* The next item has not been touched yet.
LEMMA ComparedStep ==
  ASSUME FilesTyped, ReceiptsOK, NEW c \in Calls, F!Compared(c)
  PROVE  OneCall(c)
<1> DEFINE r == call[c]
           s == F!Next1(r)
<1>1. r.pc = "diff" /\ changes' = changes /\ call' = [call EXCEPT ![c] = s]
  BY DEF F!Compared, FilesTyped
<1>2. r \in Receipts /\ Placed(r) /\ ReceiptOK(r, c, F!Changed) /\ call \in [Calls -> Receipts]
  BY DEF FilesTyped, ReceiptsOK
<1>3. r.at \in 1..Len(r.nodes) /\ Len(r.nodes) \in 1..MaxItems /\ Len(r.ask.items) = Len(r.nodes)
  BY <1>1, AtItem
<1>4. /\ s \in Receipts /\ s.ask = r.ask /\ s.nodes = r.nodes /\ s.base = r.base
      /\ \/ s.pc = "over" /\ s.at = r.at
         \/ s.pc = "wait" /\ s.at = r.at + 1 /\ s.at <= Len(r.nodes)
  <2>1. CASE r.at < Len(r.nodes)
    <3>1. r.at + 1 \in 0..MaxItems
      BY <1>3, <2>1, FileAssumption
    <3>2. s = [r EXCEPT !.pc = "wait", !.at = r.at + 1]
      BY <1>2, <2>1 DEF F!Next1, Receipts
    <3>3. r.at + 1 <= Len(r.nodes)
      BY <1>3, <2>1
    <3> HIDE DEF s
    <3>4. s \in Receipts
      BY <1>2, <3>1, <3>2 DEF Receipts
    <3>5. s.pc = "wait" /\ s.at = r.at + 1 /\ s.ask = r.ask /\ s.nodes = r.nodes /\ s.base = r.base
      BY <1>2, <3>2 DEF Receipts
    <3> QED
      BY <3>3, <3>4, <3>5
  <2>2. CASE ~(r.at < Len(r.nodes))
    <3>2. s = [r EXCEPT !.pc = "over", !.status = "success"]
      BY <2>2 DEF F!Next1
    <3> HIDE DEF s
    <3> QED
      BY <1>2, <3>2 DEF Receipts
  <2> QED
    BY <2>1, <2>2
<1> HIDE DEF s
<1>5. Placed(s)
  BY <1>1, <1>2, <1>3, <1>4 DEF Placed
<1>6. ReceiptOK(s, c, F!Changed)
  <2>1. \A i \in 1..Len(r.nodes) : ItemOK(r, c, i, F!Changed)
    BY <1>1, <1>2 DEF ReceiptOK
  <2>2. "over" \notin {"wait"} \cup UnderLock
    BY DEF UnderLock
  <2> QED
    BY <1>3, <1>4, <2>1, <2>2 DEF ReceiptOK, ItemOK
<1> QED
  BY <1>1, <1>2, <1>4, <1>5, <1>6 DEF OneCall, F!Changed

\* What every step does to the rest: the evidence and the files.
EvidenceTyped == /\ evidence \in [Calls \X (1..MaxItems) -> {None} \cup [state : {"prepared", "confirmed"}, row : Nat]]
                 /\ rows \in Nat
                 /\ file \in [Paths -> Contents]

\* The item of a call is a path of the workspace.
LEMMA PathTyped ==
  ASSUME FilesTyped, NEW c \in Calls, call[c].pc # "idle", call[c].at \in 1..Len(call[c].ask.items)
  PROVE  F!Path(c, call[c].at) \in Paths
<1>1. call[c].ask \in Requests
  BY DEF FilesTyped, Placed
<1>2. call[c].ask.items \in Seq(Paths)
  BY <1>1, FileAssumption
<1> QED
  BY <1>2 DEF F!Path

\* Evidence is confirmed for items that changed their file, and no change is undone.
LEMMA KeptTruth ==
  ASSUME FilesTyped, ReceiptsOK, EvidenceOK, NEW c \in Calls, F!Step(c)
  PROVE  EvidenceTyped' /\ EvidenceOK' /\ F!Changed \subseteq F!Changed'
<1>0. EvidenceTyped
  BY DEF EvidenceTyped, FilesTyped
<1>1. CASE UNCHANGED <<evidence, rows, file, changes>>
  BY <1>0, <1>1 DEF EvidenceTyped, EvidenceOK, F!Changed
<1>2. ASSUME NEW state \in {"prepared", "confirmed"}, F!Record(F!Here(c), state),
               UNCHANGED <<file, changes>>,
             F!Here(c) \in Calls \X (1..MaxItems), state = "confirmed" => F!Here(c) \in F!Changed
      PROVE  EvidenceTyped' /\ EvidenceOK' /\ F!Changed \subseteq F!Changed'
  <2>1. F!Changed' = F!Changed
    BY <1>2 DEF F!Changed
  <2>2. EvidenceTyped'
    BY <1>0, <1>2, RecordTyped DEF EvidenceTyped
  <2>3. /\ evidence' = evidence \/ evidence'[F!Here(c)].state = state
        /\ \A q \in Calls \X (1..MaxItems) : q # F!Here(c) => evidence'[q] = evidence[q]
    BY <1>2, RecordTyped
  <2>4. EvidenceOK'
    <3> SUFFICES ASSUME NEW p \in Calls \X (1..MaxItems), evidence'[p] # None,
                          evidence'[p].state = "confirmed"
                 PROVE  p \in F!Changed
      BY <2>1 DEF EvidenceOK
    <3>1. CASE p = F!Here(c)
      BY <1>2, <2>3, <3>1 DEF EvidenceOK
    <3>2. CASE p # F!Here(c)
      BY <2>3, <3>2 DEF EvidenceOK
    <3> QED
      BY <3>1, <3>2
  <2> QED
    BY <2>1, <2>2, <2>4
<1>3. CASE F!Store(c) \/ F!Confirm(c)
  <2>1. call[c].pc \in {"store", "confirm"} /\ call[c].pc # "idle" /\ call[c].at > 0
    BY <1>3, AtItem DEF F!Store, F!Confirm
  <2>2. F!Here(c) \in Calls \X (1..MaxItems) /\ (call[c].pc = "confirm" => F!Here(c) \in F!Changed)
    BY <2>1, AtItem
  <2> QED
    BY <1>2, <1>3, <2>2 DEF F!Store, F!Confirm
<1>4. CASE F!Conflict(c)
  <2>1. call[c].pc = "commit"
    BY <1>4 DEF F!Conflict
  <2>2. F!Here(c) \in Calls \X (1..MaxItems)
    BY <2>1, AtItem
  <2>3. UNCHANGED <<file, changes>>
    BY <1>4 DEF F!Conflict
  <2>4. CASE F!Record(F!Here(c), "prepared")
    BY <1>2, <2>2, <2>3, <2>4
  <2>5. CASE UNCHANGED <<evidence, rows, lost, faults>>
    BY <1>1, <2>3, <2>5
  <2> QED
    BY <1>4, <2>4, <2>5 DEF F!Conflict, F!Again
<1>5. CASE F!Commit(c) \/ F!Break(c)
  <2>1. call[c].pc = "commit"
    BY <1>5 DEF F!Commit, F!Break
  <2>2. /\ F!Here(c) \in Calls \X (1..MaxItems) /\ call[c].at \in 1..Len(call[c].ask.items)
        /\ F!Here(c) \notin F!Changed
    BY <2>1, AtItem DEF UnderLock
  <2>3. F!Path(c, call[c].at) \in Paths
    BY <2>1, <2>2, PathTyped
  <2>4. file' \in [Paths -> Contents]
    <3>1. F!Here(c) \in Contents /\ Torn \in Contents /\ file \in [Paths -> Contents]
      BY <2>2 DEF Contents, FilesTyped
    <3> QED
      BY <1>5, <3>1 DEF F!Commit, F!Break
  <2>5. F!Changed \subseteq F!Changed'
    <3>1. changes \subseteq changes'
      BY <1>5 DEF F!Commit, F!Break
    <3> QED
      BY <3>1 DEF F!Changed
  <2>6. CASE UNCHANGED <<evidence, rows>>
    BY <1>0, <2>4, <2>5, <2>6 DEF EvidenceTyped, EvidenceOK
  <2>7. CASE F!Keep(F!Here(c), "prepared")
    <3>1. /\ evidence' \in [Calls \X (1..MaxItems) -> {None} \cup [state : {"prepared", "confirmed"}, row : Nat]]
          /\ rows' \in Nat
          /\ evidence'[F!Here(c)].state = "prepared"
          /\ \A q \in Calls \X (1..MaxItems) : q # F!Here(c) => evidence'[q] = evidence[q]
      BY <2>2, <2>7, KeepTyped
    <3> QED
      BY <2>4, <2>5, <3>1 DEF EvidenceTyped, EvidenceOK
  <2> QED
    BY <1>5, <2>6, <2>7 DEF F!Commit, F!Break
<1> QED
  BY <1>1, <1>3, <1>4, <1>5 DEF F!Step, F!Begin, F!Lock, F!GiveUp, F!Precheck, F!Check, F!Recheck,
       F!Compared, F!Observe, F!Deliver

\* Every step of a call is one of these, or leaves the calls alone.
LEMMA CallStep ==
  ASSUME FilesTyped, ReceiptsOK, NEW c \in Calls, F!Step(c)
  PROVE  OneCall(c) \/ UNCHANGED <<call, changes>>
<1>1. ASSUME NEW q \in Requests, F!Begin(c, q) PROVE OneCall(c)
  BY <1>1, BeginStep
<1>2. CASE F!Observe(c) \/ F!Deliver(c)
  BY <1>2 DEF F!Observe, F!Deliver
<1> QED
  BY <1>1, <1>2, LockStep, GiveUpStep, PrecheckStep, CheckStep, StoreStep, RecheckStep, CommitStep,
     ConflictStep, BreakStep, ConfirmStep, ComparedStep DEF F!Step

\* A step of a call changes nothing for another.
LEMMA OnlyMine ==
  ASSUME FilesTyped, NEW c \in Calls, F!Step(c), NEW d \in Calls, d # c, NEW i
  PROVE  <<d, i>> \in F!Changed' <=> <<d, i>> \in F!Changed
<1>1. CASE UNCHANGED changes
  BY <1>1 DEF F!Changed
<1>2. ASSUME NEW based, changes' = changes \cup {[item |-> F!Here(c), based |-> based]}
      PROVE  <<d, i>> \in F!Changed' <=> <<d, i>> \in F!Changed
  <2>1. F!Changed' = F!Changed \cup {F!Here(c)}
    BY <1>2, ChangedGrows
  <2>2. F!Here(c) # <<d, i>>
    BY DEF F!Here
  <2> QED
    BY <2>1, <2>2
<1>3. CASE F!Commit(c)
  <2> DEFINE based == file[F!Path(c, call[c].at)] = call[c].base[call[c].at]
  <2>1. changes' = changes \cup {[item |-> F!Here(c), based |-> based]}
    BY <1>3 DEF F!Commit
  <2> HIDE DEF based
  <2> QED
    BY <1>2, <2>1
<1>4. CASE F!Break(c)
  BY <1>1, <1>2, <1>4 DEF F!Break
<1> QED
  BY <1>1, <1>3, <1>4 DEF F!Step, F!Begin, F!Lock, F!GiveUp, F!Precheck, F!Check, F!Store, F!Recheck,
       F!Conflict, F!Confirm,
     F!Compared, F!Observe, F!Deliver

\* What a receipt says depends on the items of its own call.
LEMMA ReceiptSame ==
  ASSUME NEW d \in Calls, NEW r \in Receipts, NEW done, NEW more,
         \A i : <<d, i>> \in more <=> <<d, i>> \in done, ReceiptOK(r, d, done)
  PROVE  ReceiptOK(r, d, more)
BY DEF ReceiptOK, ItemOK

\* So the invariant survives a step of a call,
LEMMA FilesStep ==
  ASSUME FilesTyped, ReceiptsOK, EvidenceOK, NEW c \in Calls, F!Step(c)
  PROVE  FilesTyped' /\ ReceiptsOK' /\ EvidenceOK'
<1>1. EvidenceTyped' /\ EvidenceOK'
  BY KeptTruth
<1>2. CASE OneCall(c)
  <2>1. FilesTyped'
    BY <1>1, <1>2 DEF FilesTyped, OneCall, EvidenceTyped
  <2>2. ASSUME NEW d \in Calls PROVE ReceiptOK(call'[d], d, F!Changed')
    <3>1. CASE d = c
      BY <1>2, <3>1 DEF OneCall
    <3>2. CASE d # c
      <4>1. call'[d] = call[d] /\ call[d] \in Receipts /\ ReceiptOK(call[d], d, F!Changed)
        BY <1>2, <3>2 DEF OneCall, ReceiptsOK, FilesTyped
      <4>2. \A i : <<d, i>> \in F!Changed' <=> <<d, i>> \in F!Changed
        BY <3>2, OnlyMine
      <4> QED
        BY <4>1, <4>2, ReceiptSame
    <3> QED
      BY <3>1, <3>2
  <2> QED
    BY <1>1, <2>1, <2>2 DEF ReceiptsOK
<1>3. CASE UNCHANGED <<call, changes>>
  BY <1>1, <1>3 DEF FilesTyped, EvidenceTyped, ReceiptsOK, F!Changed
<1> QED
  BY <1>2, <1>3, CallStep

\* and the stop of the turn, which cancels every call at once.
LEMMA FilesStop ==
  ASSUME FilesTyped, ReceiptsOK, EvidenceOK, F!Stop
  PROVE  FilesTyped' /\ ReceiptsOK' /\ EvidenceOK'
<1>1. UNCHANGED <<file, evidence, rows, changes>> /\ F!Changed' = F!Changed /\ DOMAIN call' = Calls
  BY DEF F!Stop, F!Changed
<1>2. ASSUME NEW c \in Calls
      PROVE  call'[c] \in Receipts /\ Placed(call'[c]) /\ ReceiptOK(call'[c], c, F!Changed)
  <2> DEFINE r == call[c]
  <2>1. r \in Receipts /\ Placed(r) /\ ReceiptOK(r, c, F!Changed)
    BY DEF FilesTyped, ReceiptsOK
  <2>2. CASE ~F!Live(c)
    <3>1. call'[c] = r
      BY <2>2 DEF F!Stop, F!Live
    <3> QED
      BY <2>1, <3>1
  <2>3. CASE F!Live(c) /\ r.pc \in {"store", "confirm"}
    <3> DEFINE s == [r EXCEPT !.cancel = TRUE]
    <3>1. call'[c] = s
      BY <2>3 DEF F!Stop
    <3>2. s \in Receipts /\ s.pc = r.pc /\ s.ask = r.ask /\ s.at = r.at /\ s.nodes = r.nodes /\
            s.base = r.base
      BY <2>1 DEF Receipts
    <3>3. r.pc # "idle"
      BY <2>3
    <3> HIDE DEF s
    <3>4. Placed(s)
      BY <2>1, <3>2, <3>3 DEF Placed
    <3>5. ReceiptOK(s, c, F!Changed)
      BY <2>1, <3>2, <3>3, MoveOK
    <3> QED
      BY <3>1, <3>2, <3>4, <3>5
  <2>4. CASE F!Live(c) /\ r.pc \notin {"store", "confirm"}
    <3>1. call'[c] = F!Cancelled(r) /\ r.pc # "idle"
      BY <2>4 DEF F!Stop, F!Live
    <3> QED
      BY <2>1, <3>1, CancelledTyped, CancelledOK
  <2> QED
    BY <2>2, <2>3, <2>4
<1>3. call' \in [Calls -> Receipts]
  BY <1>1, <1>2 DEF F!Stop
<1> QED
  BY <1>1, <1>2, <1>3 DEF FilesTyped, ReceiptsOK, EvidenceOK

\* The receipts and the evidence are true at all times.
LEMMA FilesAlways == F!Spec => [](FilesTyped /\ ReceiptsOK /\ EvidenceOK)
<1>1. F!Init => FilesTyped /\ ReceiptsOK /\ EvidenceOK
  <2> SUFFICES ASSUME F!Init PROVE ReceiptsOK /\ EvidenceOK
    BY FilesInit
  <2>1. F!Changed = {} /\ \A c \in Calls : call[c] = F!Idle
    BY DEF F!Init, F!Changed
  <2>2. F!Idle.pc = "idle"
    BY DEF F!Idle
  <2>3. \A p \in Calls \X (1..MaxItems) : evidence[p] = None
    BY DEF F!Init
  <2> QED
    BY <2>1, <2>2, <2>3 DEF ReceiptsOK, ReceiptOK, EvidenceOK
<1>2. FilesTyped /\ ReceiptsOK /\ EvidenceOK /\ [F!Next]_(F!vars) =>
        (FilesTyped /\ ReceiptsOK /\ EvidenceOK)'
  <2> SUFFICES ASSUME FilesTyped, ReceiptsOK, EvidenceOK, [F!Next]_(F!vars)
               PROVE  (FilesTyped /\ ReceiptsOK /\ EvidenceOK)'
    OBVIOUS
  <2>1. CASE UNCHANGED <<file, call, evidence, rows, changes>>
    BY <2>1 DEF FilesTyped, ReceiptsOK, EvidenceOK, F!Changed
  <2>2. ASSUME NEW p \in Paths, F!Edited(p) PROVE (FilesTyped /\ ReceiptsOK /\ EvidenceOK)'
    <3>1. file' \in [Paths -> Contents] /\ UNCHANGED <<call, evidence, rows, changes>>
      BY <2>2 DEF F!Edited, FilesTyped, Contents
    <3> QED
      BY <3>1 DEF FilesTyped, ReceiptsOK, EvidenceOK, F!Changed
  <2>3. ASSUME NEW c \in Calls, F!Step(c) PROVE (FilesTyped /\ ReceiptsOK /\ EvidenceOK)'
    BY <2>3, FilesStep
  <2>4. CASE F!Stop
    BY <2>4, FilesStop
  <2> QED
    BY <2>1, <2>2, <2>3, <2>4 DEF F!Next, F!Crash, F!Withdraw, F!vars
<1> QED
  BY <1>1, <1>2, PTL DEF F!Spec

\* The report is merged from the two, so it is true as well.
LEMMA ReportFollows == FilesTyped /\ ReceiptsOK /\ EvidenceOK => F!ReportIsTrue
<1> SUFFICES ASSUME FilesTyped, ReceiptsOK, EvidenceOK, NEW p \in F!Candidates
             PROVE  /\ F!Merged(p) = "confirmed" => p \in F!Changed
                    /\ F!Merged(p) \in {"not_executed", "not_submitted"} => p \notin F!Changed
  BY DEF F!ReportIsTrue
<1>1. PICK c \in Calls, i \in 1..MaxItems : p = <<c, i>> /\ i \in F!Items(c)
  BY DEF F!Candidates, F!Pairs
<1>2. call[c].ask # None
  BY <1>1 DEF F!Items
<1>3. call[c].pc # "idle"
  BY <1>2 DEF FilesTyped, Placed, F!Idle
<1>4. i \in 1..Len(call[c].nodes)
  <2>1. call[c].ask \in Requests /\ Len(call[c].nodes) = Len(call[c].ask.items)
    BY <1>3 DEF FilesTyped, Placed
  <2> QED
    BY <1>1, <1>2, <2>1, FileAssumption DEF F!Items
<1>5. ItemOK(call[c], c, i, F!Changed)
  BY <1>3, <1>4 DEF ReceiptsOK, ReceiptOK
<1> DEFINE node == call[c].nodes[i]
<1>6. node \in Nodes
  <2>1. call[c].nodes \in Seq(Nodes)
    BY DEF FilesTyped, Receipts
  <2> HIDE DEF Nodes
  <2> QED
    BY <1>4, <2>1
<1>7. CASE F!Merged(p) = F!FromNode(node)
  <2>1. node.applied \in {"yes", "no", F!Unknown} /\ F!Unknown \notin {"yes", "no"}
    BY <1>6 DEF Nodes, F!Unknown
  <2>2. node.applied = "yes" => F!FromNode(node) = "confirmed"
    BY <2>1 DEF F!FromNode
  <2>3. node.applied = F!Unknown => F!FromNode(node) = "unknown"
    BY <2>1 DEF F!FromNode
  <2>4. node.applied = "no" => F!FromNode(node) \in {"not_executed", "not_submitted"}
    BY <2>1 DEF F!FromNode
  <2> QED
    BY <1>1, <1>5, <1>7, <2>1, <2>2, <2>3, <2>4 DEF ItemOK
<1>8. CASE F!Merged(p) # F!FromNode(node)
  <2>1. F!Merged(p) = evidence[p].state
    BY <1>1, <1>8 DEF F!Merged
  <2>2. evidence[p] # None
    BY <1>1, <1>8 DEF F!Merged, F!Candidates
  <2>3. evidence[p].state \in {"prepared", "confirmed"}
    BY <1>1, <2>2 DEF FilesTyped
  <2> QED
    BY <1>1, <2>1, <2>2, <2>3 DEF EvidenceOK
<1> QED
  BY <1>7, <1>8

\* The report is true.
LEMMA ReportAlways == F!Spec => []F!ReportIsTrue
BY FilesAlways, ReportFollows, PTL

\* A change is based on the version that was read: the commit reads the file again in its own step.
LEMMA ChangesAlways == F!Spec => []F!NoLostUpdate
<1>1. F!Init => F!NoLostUpdate
  BY DEF F!Init, F!NoLostUpdate
<1>2. F!NoLostUpdate /\ [F!Next]_(F!vars) => F!NoLostUpdate'
  <2> SUFFICES ASSUME F!NoLostUpdate, [F!Next]_(F!vars) PROVE F!NoLostUpdate'
    OBVIOUS
  <2>1. CASE UNCHANGED changes
    BY <2>1 DEF F!NoLostUpdate
  <2>2. ASSUME NEW c \in Calls, F!Commit(c) \/ F!Break(c) PROVE F!NoLostUpdate'
    <3>1. CASE F!Commit(c)
      <4> DEFINE based == file[F!Path(c, call[c].at)] = call[c].base[call[c].at]
                 new == [item |-> F!Here(c), based |-> based]
      <4>1. changes' = changes \cup {new}
        BY <3>1 DEF F!Commit
      <4>2. based
        BY <3>1 DEF F!Commit, F!Unchanged
      <4>3. new.based = based
        OBVIOUS
      <4>4. new.based
        BY <4>2, <4>3
      <4> HIDE DEF new, based
      <4> QED
        BY <4>1, <4>4 DEF F!NoLostUpdate
    <3>2. CASE F!Break(c)
      BY <3>2 DEF F!Break, F!NoLostUpdate
    <3> QED
      BY <2>2, <3>1, <3>2
  <2> QED
    BY <2>1, <2>2 DEF F!Next, F!Step, F!Begin, F!Lock, F!GiveUp, F!Precheck, F!Check, F!Store, F!Recheck,
         F!Conflict, F!Confirm,
       F!Compared, F!Observe, F!Deliver, F!Stop, F!Crash, F!Withdraw, F!Edited, F!vars
<1> QED
  BY <1>1, <1>2, PTL DEF F!Spec

\* The lock and the places of the calls, whatever each of them does.
LEMMA LockStepInv ==
  ASSUME FilesTyped, LockOK, NEW c \in Calls, F!Step(c)
  PROVE  LockOK'
<1> DEFINE r == call[c]
<1>0. call \in [Calls -> Receipts] /\ r \in Receipts /\ Placed(r)
  BY DEF FilesTyped
<1>1. CASE UNCHANGED <<call, holder>>
  BY <1>1 DEF LockOK
<1>2. ASSUME NEW s, call' = [call EXCEPT ![c] = s],
             \/ s.pc \in UnderLock /\ holder' = c /\ (r.pc \in UnderLock \/ holder = None)
             \/ s.pc \notin UnderLock /\ holder' = None /\ r.pc \in UnderLock
             \/ s.pc \notin UnderLock /\ holder' = holder /\ r.pc \notin UnderLock
      PROVE  LockOK'
  <2>1. call'[c] = s /\ \A d \in Calls : d # c => call'[d] = call[d]
    BY <1>0, <1>2
  <2>2. None \notin Calls
    BY FileAssumption
  <2> QED
    BY <1>2, <2>1, <2>2 DEF LockOK
<1>3. ASSUME NEW i, r.pc # "idle" PROVE F!Refused(r, i).pc = "over" /\ F!Cancelled(r).pc = "over"
  <2>1. F!Refused(r, i).pc = "over"
    BY <1>0 DEF F!Refused, Receipts
  <2>2. F!Cancelled(r).pc = "over"
    BY <1>0 DEF F!Cancelled, Receipts
  <2> QED
    BY <2>1, <2>2
<1>4. "over" \notin UnderLock /\ "wait" \notin UnderLock /\ "diff" \notin UnderLock /\
        "idle" \notin UnderLock
  BY DEF UnderLock
<1>a. ASSUME NEW q \in Requests, F!Begin(c, q) PROVE LockOK'
  <2> DEFINE s == [pc |-> "wait", ask |-> q, at |-> IF q.batch THEN 0 ELSE 1,
                   base |-> [i \in DOMAIN q.items |-> file[q.items[i]]],
                   nodes |-> [i \in DOMAIN q.items |->
                                IF q.batch THEN F!Node("not_executed", "no") ELSE F!Node("running", F!Unknown)],
                   status |-> "running", cancel |-> FALSE]
  <2>1. call' = [call EXCEPT ![c] = s] /\ s.pc = "wait"
    BY <1>a DEF F!Begin
  <2>2. holder' = holder /\ r.pc = "idle"
    BY <1>a DEF F!Begin
  <2> HIDE DEF s
  <2> QED
    BY <1>2, <1>4, <2>1, <2>2
<1>b. CASE F!Lock(c)
  <2> DEFINE s == [r EXCEPT !.pc = IF r.at = 0 THEN "precheck" ELSE "check"]
  <2>1. call' = [call EXCEPT ![c] = s] /\ s.pc \in UnderLock
    BY <1>0, <1>b DEF F!Lock, Receipts, UnderLock
  <2> HIDE DEF s
  <2> QED
    BY <1>2, <1>b, <2>1 DEF F!Lock
<1>c. CASE F!GiveUp(c)
  <2> DEFINE s == IF r.at = 0 THEN [r EXCEPT !.pc = "over", !.status = "rejected"] ELSE F!Refused(r, r.at)
  <2>1. call' = [call EXCEPT ![c] = s] /\ r.pc = "wait"
    BY <1>0, <1>c DEF F!GiveUp
  <2>2. s.pc = "over"
    BY <1>0, <1>3, <2>1 DEF Receipts
  <2> HIDE DEF s
  <2> QED
    BY <1>2, <1>4, <1>c, <2>1, <2>2 DEF F!GiveUp
<1>d. CASE F!Precheck(c)
  <2>0. r.pc = "precheck" /\ holder' = None /\ "precheck" \in UnderLock
    BY <1>d DEF F!Precheck, UnderLock
  <2>1. CASE call' = [call EXCEPT ![c].pc = "wait", ![c].at = 1]
    <3> DEFINE s == [r EXCEPT !.pc = "wait", !.at = 1]
    <3>1. call' = [call EXCEPT ![c] = s] /\ s.pc = "wait"
      BY <1>0, <2>1 DEF Receipts
    <3> HIDE DEF s
    <3> QED
      BY <1>2, <1>4, <2>0, <3>1
  <2>2. ASSUME NEW i, call' = [call EXCEPT ![c] = F!Refused(@, i)] PROVE LockOK'
    <3>1. call' = [call EXCEPT ![c] = F!Refused(r, i)] /\ F!Refused(r, i).pc = "over"
      BY <1>0, <1>3, <2>0, <2>2
    <3> QED
      BY <1>2, <1>4, <2>0, <3>1
  <2> QED
    BY <1>d, <2>1, <2>2 DEF F!Precheck
<1>e. ASSUME NEW place \in UnderLock, r.pc \in UnderLock, UNCHANGED holder,
             NEW s, call' = [call EXCEPT ![c] = s], s.pc = place
      PROVE  LockOK'
  <2>1. holder = c
    BY <1>e DEF LockOK
  <2> QED
    BY <1>2, <1>e, <2>1
<1>f. ASSUME r.pc \in UnderLock, holder' = None, NEW s, call' = [call EXCEPT ![c] = s],
               s.pc \notin UnderLock
      PROVE  LockOK'
  BY <1>2, <1>f
<1>g. CASE F!Check(c)
  <2>0. r.pc = "check" /\ "check" \in UnderLock /\ "store" \in UnderLock
    BY <1>g DEF F!Check, UnderLock
  <2>1. CASE UNCHANGED holder
    <3> DEFINE s == [r EXCEPT !.pc = "store", !.nodes = [@ EXCEPT ![r.at] = F!Node("running", F!Unknown)]]
    <3>1. holder # None
      BY <2>0, FileAssumption DEF LockOK
    <3>2. call' = [call EXCEPT ![c] = s] /\ s.pc = "store"
      BY <1>0, <1>g, <2>1, <3>1 DEF F!Check, Receipts
    <3> HIDE DEF s
    <3> QED
      BY <1>e, <2>0, <2>1, <3>2
  <2>2. CASE call' = [call EXCEPT ![c] = F!Refused(@, call[c].at)] /\ holder' = None
    <3>1. call' = [call EXCEPT ![c] = F!Refused(r, r.at)] /\ F!Refused(r, r.at).pc = "over"
      BY <1>0, <1>3, <2>0, <2>2
    <3> QED
      BY <1>f, <1>4, <2>0, <2>2, <3>1
  <2> QED
    BY <1>g, <2>1, <2>2 DEF F!Check
<1>h. CASE F!Store(c)
  <2>0. r.pc = "store" /\ "store" \in UnderLock /\ "recheck" \in UnderLock
    BY <1>h DEF F!Store, UnderLock
  <2>1. CASE r.cancel
    <3>1. call' = [call EXCEPT ![c] = F!Cancelled(r)] /\ F!Cancelled(r).pc = "over" /\ holder' = None
      BY <1>0, <1>3, <1>h, <2>0, <2>1 DEF F!Store
    <3> QED
      BY <1>f, <1>4, <2>0, <3>1
  <2>2. CASE ~r.cancel
    <3> DEFINE s == [r EXCEPT !.pc = "recheck"]
    <3>1. call' = [call EXCEPT ![c] = s] /\ s.pc = "recheck" /\ UNCHANGED holder
      BY <1>0, <1>h, <2>2 DEF F!Store, Receipts
    <3> HIDE DEF s
    <3> QED
      BY <1>e, <2>0, <3>1
  <2> QED
    BY <2>1, <2>2
<1>i. CASE F!Recheck(c)
  <2>0. r.pc = "recheck" /\ "recheck" \in UnderLock /\ "commit" \in UnderLock
    BY <1>i DEF F!Recheck, UnderLock
  <2>1. CASE access
    <3> DEFINE s == [r EXCEPT !.pc = "commit"]
    <3>1. call' = [call EXCEPT ![c] = s] /\ s.pc = "commit" /\ UNCHANGED holder
      BY <1>0, <1>i, <2>1 DEF F!Recheck, Receipts
    <3> HIDE DEF s
    <3> QED
      BY <1>e, <2>0, <3>1
  <2>2. CASE ~access
    <3>1. call' = [call EXCEPT ![c] = F!Refused(r, r.at)] /\ F!Refused(r, r.at).pc = "over" /\
            holder' = None
      BY <1>0, <1>3, <1>i, <2>0, <2>2 DEF F!Recheck
    <3> QED
      BY <1>f, <1>4, <2>0, <3>1
  <2> QED
    BY <2>1, <2>2
<1>j. CASE F!Commit(c)
  <2> DEFINE s == [r EXCEPT !.pc = "confirm", !.nodes = [@ EXCEPT ![r.at] = F!Node("success", "yes")]]
  <2>1. call' = [call EXCEPT ![c] = s] /\ s.pc = "confirm" /\ UNCHANGED holder
    BY <1>0, <1>j DEF F!Commit, Receipts
  <2>2. r.pc = "commit" /\ "commit" \in UnderLock /\ "confirm" \in UnderLock
    BY <1>j DEF F!Commit, UnderLock
  <2> HIDE DEF s
  <2> QED
    BY <1>e, <2>1, <2>2
<1>k. CASE F!Conflict(c)
  <2>0. r.pc = "commit" /\ "commit" \in UnderLock
    BY <1>k DEF F!Conflict, UnderLock
  <2>1. call' = [call EXCEPT ![c] = F!Refused(r, r.at)] /\ F!Refused(r, r.at).pc = "over" /\ holder' = None
    BY <1>0, <1>3, <1>k, <2>0 DEF F!Conflict
  <2> QED
    BY <1>f, <1>4, <2>0, <2>1
<1>l. CASE F!Break(c)
  <2>0. r.pc = "commit" /\ "commit" \in UnderLock
    BY <1>l DEF F!Break, UnderLock
  <2>1. call' = [call EXCEPT ![c] = F!Unconfirmed(r)] /\ F!Unconfirmed(r).pc = "over" /\ holder' = None
    BY <1>0, <1>l DEF F!Break, F!Unconfirmed, Receipts
  <2> QED
    BY <1>f, <1>4, <2>0, <2>1
<1>m. CASE F!Confirm(c)
  <2>0. r.pc = "confirm" /\ "confirm" \in UnderLock
    BY <1>m DEF F!Confirm, UnderLock
  <2> DEFINE s == IF r.cancel THEN F!Cancelled(r) ELSE [r EXCEPT !.pc = "diff"]
  <2>1. call' = [call EXCEPT ![c] = s] /\ holder' = None
    BY <1>0, <1>m DEF F!Confirm
  <2>2. s.pc \in {"over", "diff"}
    BY <1>0, <1>3, <2>0 DEF Receipts
  <2> HIDE DEF s
  <2> QED
    BY <1>f, <1>4, <2>0, <2>1, <2>2
<1>n. CASE F!Compared(c)
  <2>0. r.pc = "diff" /\ UNCHANGED holder /\ call' = [call EXCEPT ![c] = F!Next1(r)]
    BY <1>0, <1>n DEF F!Compared
  <2>1. F!Next1(r).pc \in {"wait", "over"}
    BY <1>0 DEF F!Next1, Receipts
  <2> QED
    BY <1>2, <1>4, <2>0, <2>1
<1> QED
  BY <1>1, <1>a, <1>b, <1>c, <1>d, <1>g, <1>h, <1>i, <1>j, <1>k, <1>l, <1>m, <1>n DEF F!Step, F!Observe,
       F!Deliver

\* The stop of the turn frees the lock of a call that ends by it.
LEMMA LockStop ==
  ASSUME FilesTyped, LockOK, F!Stop
  PROVE  LockOK'
<1>1. \A c \in Calls : call'[c].pc = call[c].pc \/ call'[c].pc = "over"
  <2> SUFFICES ASSUME NEW c \in Calls PROVE call'[c].pc = call[c].pc \/ call'[c].pc = "over"
    OBVIOUS
  <2>1. call[c] \in Receipts
    BY DEF FilesTyped
  <2>2. CASE ~F!Live(c)
    BY <2>2 DEF F!Stop, F!Live
  <2>3. CASE F!Live(c) /\ call[c].pc \in {"store", "confirm"}
    <3>1. call'[c] = [call[c] EXCEPT !.cancel = TRUE]
      BY <2>3 DEF F!Stop
    <3> QED
      BY <2>1, <3>1 DEF Receipts
  <2>4. CASE F!Live(c) /\ call[c].pc \notin {"store", "confirm"}
    <3>1. call'[c] = F!Cancelled(call[c])
      BY <2>4 DEF F!Stop
    <3> QED
      BY <2>1, <3>1 DEF F!Cancelled, Receipts
  <2> QED
    BY <2>2, <2>3, <2>4
<1>2. holder' = IF holder # None /\ call'[holder].pc = "over" THEN None ELSE holder
  BY DEF F!Stop
<1>3. "over" \notin UnderLock /\ None \notin Calls
  BY FileAssumption DEF UnderLock
<1>4. ASSUME NEW c \in Calls PROVE call'[c].pc \in UnderLock <=> holder' = c
  <2>1. CASE call'[c].pc = call[c].pc
    BY <1>1, <1>2, <1>3, <2>1 DEF LockOK
  <2>2. CASE call'[c].pc = "over"
    BY <1>2, <1>3, <2>2 DEF LockOK
  <2> QED
    BY <1>1, <2>1, <2>2
<1> QED
  BY <1>4 DEF LockOK

\* The lock of a workspace is held exactly by the call that is between its check and its commit.
LEMMA LockAlways == F!Spec => []LockOK
<1>1. F!Init => LockOK
  BY FileAssumption DEF F!Init, LockOK, F!Idle, UnderLock
<1>2. FilesTyped /\ LockOK /\ [F!Next]_(F!vars) => LockOK'
  <2> SUFFICES ASSUME FilesTyped, LockOK, [F!Next]_(F!vars) PROVE LockOK'
    OBVIOUS
  <2>1. CASE UNCHANGED <<call, holder>>
    BY <2>1 DEF LockOK
  <2> QED
    BY <2>1, LockStepInv, LockStop DEF F!Next, F!Crash, F!Withdraw, F!Edited, F!vars
<1> QED
  BY <1>1, <1>2, FilesAlways, PTL DEF F!Spec

\* A behaviour of the composition is one of the file tools, which the other part leaves alone.
LEMMA FilesRun == PartSpec => F!Spec
<1>1. PartInit => F!Init
  BY DEF PartInit
<1>2. [PartNext]_partVars => [F!Next]_(F!vars)
  BY DEF PartNext, partVars, fileVars, F!vars
<1> QED
  BY <1>1, <1>2, PTL DEF PartSpec, F!Spec

\* What the turn after an interrupted one is told of a file is what happened to it: an item told
\* as confirmed has changed its file, one told as not executed or not submitted has not, whatever
\* evidence was lost, which call failed, stopped or was killed where (interruption.py, files.py).
THEOREM ReportTold == PartSpec => []ReportIsTrue
BY FilesRun, ReportAlways, PTL DEF ReportIsTrue

\* No write or edit replaces a version its caller has not seen, although the evidence is stored
\* between the check and the commit and other programs write meanwhile (_read_update).
THEOREM NothingLost == PartSpec => []NoLostUpdate
BY FilesRun, ChangesAlways, PTL DEF NoLostUpdate

\* The command lock of the workspace is held exactly by the call between its check and its
\* confirmation, also when it is cancelled, refused or fails on the way (WriteAdmission.locked).
THEOREM OneWriter == PartSpec => []LockOK
BY FilesRun, LockAlways, PTL

-----------------------------------------------------------------------------
(* The context of a conversation                                            *)

\* A set of numbers has a least one.
LEMMA MinExists ==
  ASSUME NEW S, S \subseteq Nat, S # {}
  PROVE  K!Min(S) \in S /\ \A y \in S : K!Min(S) <= y
<1> DEFINE Upto(x) == 0..x
           T == {Upto(x) : x \in S}
           Fins == FiniteSubsetsOf(Nat)
<1>0. \A x \in S : Upto(x) \in Fins
  BY FS_Interval DEF FiniteSubsetsOf
<1>1. PICK t \in T : \A u \in T : ~(<<u, t>> \in StrictSubsetOrdering(Nat))
  <2>1. T \subseteq Fins /\ T # {}
    BY <1>0
  <2> HIDE DEF T, Fins
  <2> QED
    BY <2>1, WFMin, FS_StrictSubsetOrderingWellFounded DEF Fins
<1>2. PICK x \in S : t = Upto(x)
  OBVIOUS
<1>3. ASSUME NEW y \in S PROVE x <= y
  <2>1. CASE y < x
    <3>1. Upto(y) \subseteq Upto(x) /\ Upto(y) # Upto(x)
      <4>1. x \in Upto(x) /\ x \notin Upto(y)
        BY <2>1
      <4> QED
        BY <2>1, <4>1
    <3>2. <<Upto(y), t>> \in StrictSubsetOrdering(Nat)
      BY <3>1, <1>2, <1>0 DEF StrictSubsetOrdering, FiniteSubsetsOf
    <3> QED
      BY <1>1, <3>2
  <2> QED
    BY <2>1
<1> QED
  BY <1>3 DEF K!Min

\* A finite set of numbers has a greatest one.
LEMMA MaxExists ==
  ASSUME NEW S, S \subseteq Nat, IsFiniteSet(S), S # {}
  PROVE  K!Max(S) \in S /\ \A y \in S : y <= K!Max(S)
<1> DEFINE HasMax(U) == \E x \in U : \A y \in U : y <= x
           Fins == FiniteSubsetsOf(Nat)
           T == {U \in Fins : U # {} /\ ~HasMax(U)}
<1>1. ASSUME T # {} PROVE FALSE
  <2>1. PICK U \in T : \A V \in T : ~(<<V, U>> \in StrictSubsetOrdering(Nat))
    <3>1. T \subseteq Fins
      OBVIOUS
    <3> HIDE DEF T, Fins
    <3> QED
      BY <1>1, <3>1, WFMin, FS_StrictSubsetOrderingWellFounded DEF Fins
  <2>2. PICK u \in U : TRUE
    OBVIOUS
  <2>3. U \in SUBSET Nat /\ IsFiniteSet(U) /\ ~HasMax(U)
    BY DEF FiniteSubsetsOf
  <2> DEFINE V == U \ {u}
  <2>4. V \in Fins
    BY <2>3, FS_RemoveElement DEF FiniteSubsetsOf
  <2>5. V \notin T
    <3>1. <<V, U>> \in StrictSubsetOrdering(Nat)
      BY <2>2, <2>3 DEF StrictSubsetOrdering
    <3> QED
      BY <2>1, <3>1
  <2>6. CASE V = {}
    BY <2>2, <2>3, <2>6
  <2>7. CASE HasMax(V)
    <3>1. PICK v \in V : \A y \in V : y <= v
      BY <2>7
    <3>2. CASE u <= v
      <4>1. \A y \in U : y <= v
        BY <3>1, <3>2
      <4> QED
        BY <2>3, <3>1, <4>1
    <3>3. CASE v < u
      <4>1. \A y \in U : y <= u
        BY <2>2, <2>3, <3>1, <3>3
      <4> QED
        BY <2>2, <2>3, <4>1
    <3> QED
      BY <2>2, <2>3, <3>1, <3>2, <3>3
  <2> QED
    BY <2>4, <2>5, <2>6, <2>7
<1>2. S \in Fins /\ S \notin T
  BY <1>1 DEF FiniteSubsetsOf
<1> QED
  BY <1>2 DEF K!Max

\* What is left of a list without a member was in it.
LEMMA WithoutSubset ==
  ASSUME NEW S, NEW q \in Seq(S), NEW t
  PROVE  K!Without(q, t) \in Seq(S) /\ \A i \in DOMAIN K!Without(q, t) : K!Without(q, t)[i] \in K!Members(q)
<1>1. CASE t \notin K!Members(q)
  BY <1>1 DEF K!Without, K!Members
<1>2. CASE t \in K!Members(q)
  <2> DEFINE k == CHOOSE k \in DOMAIN q : q[k] = t
             l == SubSeq(q, 1, k - 1)
             r == SubSeq(q, k + 1, Len(q))
  <2>1. k \in 1..Len(q)
    BY <1>2 DEF K!Members
  <2>4. K!Without(q, t) = l \o r
    BY <1>2 DEF K!Without
  <2> HIDE DEF k
  <2>2. l \in Seq(S) /\ Len(l) = k - 1 /\ \A i \in 1..(k - 1) : l[i] = q[i]
    <3>1. /\ l \in Seq(S) /\ Len(l) = (k - 1) - 1 + 1
          /\ \A i \in 1..((k - 1) - 1 + 1) : l[i] = q[1 + i - 1]
      BY <2>1, SubSeqFacts
    <3> QED
      BY <2>1, <3>1
  <2>3. r \in Seq(S) /\ Len(r) = Len(q) - k /\ \A i \in 1..(Len(q) - k) : r[i] = q[i + k]
    <3>1. /\ r \in Seq(S) /\ Len(r) = Len(q) - (k + 1) + 1
          /\ \A i \in 1..(Len(q) - (k + 1) + 1) : r[i] = q[(k + 1) + i - 1]
      BY <2>1, SubSeqFacts
    <3> QED
      BY <2>1, <3>1
  <2> HIDE DEF l, r
  <2>5. /\ l \o r \in Seq(S) /\ Len(l \o r) = Len(l) + Len(r)
        /\ \A i \in 1..(Len(l) + Len(r)) : (l \o r)[i] = IF i <= Len(l) THEN l[i] ELSE r[i - Len(l)]
    BY <2>2, <2>3, ConcatProperties
  <2>6. ASSUME NEW i \in DOMAIN (l \o r) PROVE (l \o r)[i] \in K!Members(q)
    <3>1. i \in 1..(Len(l) + Len(r))
      BY <2>5
    <3>2. CASE i <= Len(l)
      <4>1. (l \o r)[i] = q[i] /\ i \in 1..Len(q)
        BY <2>1, <2>2, <2>3, <2>5, <3>1, <3>2
      <4> QED
        BY <4>1 DEF K!Members
    <3>3. CASE i > Len(l)
      <4>1. (l \o r)[i] = r[i - Len(l)] /\ i - Len(l) \in 1..Len(r)
        BY <2>1, <2>2, <2>3, <2>5, <3>1, <3>3
      <4>2. (i - Len(l)) + k \in 1..Len(q)
        BY <2>1, <2>2, <2>3, <3>1, <3>3, <4>1
      <4>3. (l \o r)[i] = q[(i - Len(l)) + k]
        BY <2>1, <2>2, <2>3, <4>1
      <4> QED
        BY <4>2, <4>3 DEF K!Members
    <3> QED
      BY <2>1, <2>2, <2>3, <3>1, <3>2, <3>3
  <2> QED
    BY <2>4, <2>5, <2>6
<1> QED
  BY <1>1, <1>2

-----------------------------------------------------------------------------

Revisions == [Msgs -> Nat]

JobRecords ==
  [status : K!TERMINAL \cup {"absent", "queued", "running", "stopping"},
   trigger : {"manual", "automatic"}, scope : {"conversation", "execution"}, src : Revisions,
   base : Jobs \cup {K!None}, useBase : BOOLEAN, srev : Nat, setup : Nat, through : Nat,
   slot : BOOLEAN, cancel : BOOLEAN, stop : BOOLEAN, exec : {"queued", "running", "ended"},
   count : Nat]

\* A runner that has taken from the sources what got says.
Reading == {"units", "call", "pay", "model", "publish"}

Runs ==
  [pc : Reading \cup {"none", "begin", "mark", "end", "done"}, got : Revisions, outs : {0, 1},
   why : {"failed", "interrupted", "stale"}]

Turns ==
  [pc : {"waiting", "build", "check", "prep", "start", "created", "execute", "await", "reap", "pay",
         "model", "ending", "over", "closed"},
   rev : Nat, mat : Revisions, stop : BOOLEAN, sent : BOOLEAN, count : Nat, job : Jobs \cup {K!None},
   tried : BOOLEAN]

Contexts == [rev : Nat, srev : Nat, pointer : Jobs \cup {K!None}, setup : Nat]

ContextTyped ==
  /\ msgs \in [Msgs -> [rev : Nat, state : {"in", "out", "gone"}]]
  /\ ctx \in Contexts
  /\ jobs \in [Jobs -> JobRecords]
  /\ sums \in [Jobs -> Revisions]
  /\ runner \in [Jobs -> Runs]
  /\ owner \in Turns
  /\ lane \in [queue : Seq(Jobs \cup {K!Turn}), busy : BOOLEAN]

Made(j) == jobs[j].status # "absent"

\* Whatever runs, waits or was published is a maintenance that was created.
OnlyMade ==
  /\ \A j \in Jobs : runner[j].pc # "none" => Made(j)
  /\ \A j \in Jobs : K!Published(j) => Made(j) /\ jobs[j].scope = "conversation"
  /\ ctx.pointer # K!None => K!Published(ctx.pointer)
  /\ owner.pc \in {"created", "execute", "await", "reap"} => owner.job \in Jobs /\ Made(owner.job)
  /\ \A i \in DOMAIN lane.queue : lane.queue[i] # K!Turn => Made(lane.queue[i])

\* No source is frozen in a revision that is yet to come.
Sourced ==
  /\ \A j \in Jobs, m \in Msgs : jobs[j].src[m] <= msgs[m].rev
  /\ \A m \in Msgs : owner.mat[m] <= msgs[m].rev

\* The sources of a maintenance lie before its cutoff, and those of its base are among them.
Covers(j) ==
  /\ jobs[j].scope = "conversation" => \A m \in Msgs : jobs[j].src[m] > 0 => m <= jobs[j].through
  /\ jobs[j].useBase =>
       /\ K!Published(jobs[j].base)
       /\ \A m \in Msgs : jobs[jobs[j].base].src[m] > 0 => jobs[j].src[m] = jobs[jobs[j].base].src[m]

\* What a runner has read is no older than what was frozen, and no newer than what there is.
ReadOK(j) ==
  runner[j].pc \in Reading =>
    /\ runner[j].pc = "units" => K!Unread(j, runner[j].got) # {}
    /\ runner[j].pc = "publish" => K!Unread(j, runner[j].got) = {}
    /\ jobs[j].scope = "conversation" =>
         \A m \in Msgs : \/ runner[j].got[m] = 0
                         \/ /\ jobs[j].src[m] > 0 /\ jobs[j].src[m] <= runner[j].got[m]
                            /\ runner[j].got[m] <= msgs[m].rev

ContextInv ==
  /\ ContextTyped /\ OnlyMade /\ Sourced
  /\ \A j \in Jobs : Covers(j) /\ ReadOK(j)
  /\ K!SummaryIsFaithful

LEMMA ContextInit == K!Init => ContextInv
<1> SUFFICES ASSUME K!Init PROVE ContextInv
  OBVIOUS
<1>1. K!Nothing \in Revisions
  BY DEF K!Nothing, Revisions
<1>2. K!NoJob \in JobRecords /\ K!NoRun \in Runs
  BY <1>1 DEF K!NoJob, JobRecords, K!NoRun, Runs, K!None
<1>3. ContextTyped
  BY <1>1, <1>2, ContextAssumption DEF K!Init, ContextTyped, Contexts, Turns, K!None, K!Turn
<1>4. \A j \in Jobs : ~K!Published(j) /\ runner[j].pc = "none" /\ jobs[j] = K!NoJob
  BY DEF K!Init, K!Published, K!NoRun
<1>5. OnlyMade
  BY <1>4 DEF K!Init, OnlyMade, K!None, K!Turn
<1>6. Sourced
  BY <1>4 DEF K!Init, Sourced, K!NoJob, K!Nothing
<1>7. \A j \in Jobs : Covers(j) /\ ReadOK(j)
  BY <1>4 DEF Covers, ReadOK, K!NoJob, K!Nothing, Reading
<1> QED
  BY <1>3, <1>4, <1>5, <1>6, <1>7 DEF ContextInv, K!SummaryIsFaithful

\* What a step leaves of a maintenance that it does not create.
SameCore(q, r) ==
  /\ r.src = q.src /\ r.scope = q.scope /\ r.base = q.base /\ r.useBase = q.useBase
  /\ r.through = q.through /\ (r.status = "absent" <=> q.status = "absent")

SameJobs == jobs' \in [Jobs -> JobRecords] /\ \A j \in Jobs : SameCore(jobs[j], jobs'[j])

\* Messages only get newer.
Later == \A m \in Msgs : msgs[m].rev <= msgs'[m].rev

\* The invariant survives what creates no maintenance and publishes nothing.
LEMMA ContextFrame ==
  ASSUME ContextInv, ContextTyped', SameJobs, Later, UNCHANGED sums,
         \A m \in Msgs : owner'.mat[m] = owner.mat[m] \/ owner'.mat[m] = msgs[m].rev,
         ctx'.pointer \in {ctx.pointer, K!None} \/ K!Published(ctx'.pointer),
         \A j \in Jobs : runner'[j].pc # "none" => Made(j),
         owner'.pc \in {"created", "execute", "await", "reap"} => owner'.job \in Jobs /\ Made(owner'.job),
         \A i \in DOMAIN lane'.queue : lane'.queue[i] # K!Turn => Made(lane'.queue[i]),
         \A j \in Jobs : ReadOK(j)'
  PROVE  ContextInv'
<1>0. ContextTyped /\ OnlyMade /\ Sourced /\ K!SummaryIsFaithful /\ \A j \in Jobs : Covers(j)
  BY DEF ContextInv
<1>1. \A j \in Jobs : Made(j)' <=> Made(j)
  BY DEF SameJobs, SameCore, Made
<1>2. \A j : K!Published(j)' <=> K!Published(j)
  BY DEF K!Published, K!Nothing
<1>3. OnlyMade'
  <2>1. \A j \in Jobs : runner'[j].pc # "none" => Made(j)'
    BY <1>1
  <2>2. \A j \in Jobs : K!Published(j)' => Made(j)' /\ jobs'[j].scope = "conversation"
    BY <1>0, <1>1, <1>2 DEF OnlyMade, SameJobs, SameCore
  <2>3. (ctx.pointer # K!None => K!Published(ctx.pointer))'
    BY <1>0 DEF OnlyMade, K!Published, K!Nothing
  <2>4. owner'.pc \in {"created", "execute", "await", "reap"} => owner'.job \in Jobs /\
          jobs'[owner'.job].status # "absent"
    BY <1>1 DEF Made
  <2>5. \A i \in DOMAIN lane'.queue : lane'.queue[i] # K!Turn => jobs'[lane'.queue[i]].status # "absent"
    <3> SUFFICES ASSUME NEW i \in DOMAIN lane'.queue, lane'.queue[i] # K!Turn
                 PROVE  jobs'[lane'.queue[i]].status # "absent"
      OBVIOUS
    <3>1. lane'.queue[i] \in Jobs
      BY DEF ContextTyped
    <3> QED
      BY <1>1, <3>1 DEF Made
  <2> QED
    BY <2>1, <2>2, <2>3, <2>4, <2>5 DEF OnlyMade, Made
<1>4. Sourced'
  <2>1. \A j \in Jobs, m \in Msgs : jobs'[j].src[m] <= msgs'[m].rev
    <3> SUFFICES ASSUME NEW j \in Jobs, NEW m \in Msgs PROVE jobs'[j].src[m] <= msgs'[m].rev
      OBVIOUS
    <3>1. jobs'[j].src[m] = jobs[j].src[m] /\ jobs[j].src[m] <= msgs[m].rev /\ msgs[m].rev <= msgs'[m].rev
      BY <1>0 DEF SameJobs, SameCore, Sourced, Later
    <3>2. jobs[j].src[m] \in Nat /\ msgs[m].rev \in Nat /\ msgs'[m].rev \in Nat
      BY <1>0 DEF ContextTyped, JobRecords, Revisions
    <3> QED
      BY <3>1, <3>2
  <2>2. \A m \in Msgs : owner'.mat[m] <= msgs'[m].rev
    <3> SUFFICES ASSUME NEW m \in Msgs PROVE owner'.mat[m] <= msgs'[m].rev
      OBVIOUS
    <3>1. owner.mat[m] \in Nat /\ msgs[m].rev \in Nat /\ msgs'[m].rev \in Nat
      BY <1>0 DEF ContextTyped, Turns, Revisions
    <3>2. owner.mat[m] <= msgs[m].rev /\ msgs[m].rev <= msgs'[m].rev
      BY <1>0 DEF Sourced, Later
    <3>3. owner'.mat[m] = owner.mat[m] \/ owner'.mat[m] = msgs[m].rev
      OBVIOUS
    <3> QED
      BY <3>1, <3>2, <3>3
  <2> QED
    BY <2>1, <2>2 DEF Sourced
<1>5. ASSUME NEW j \in Jobs PROVE Covers(j)'
  <2>1. SameCore(jobs[j], jobs'[j]) /\ Covers(j)
    BY <1>0 DEF SameJobs
  <2>2. jobs[j].useBase => jobs[j].base \in Jobs /\ jobs'[jobs[j].base].src = jobs[jobs[j].base].src
    BY <1>0, <2>1 DEF SameJobs, SameCore, Covers, K!Published, ContextTyped, JobRecords
  <2> QED
    BY <1>2, <2>1, <2>2 DEF Covers, SameCore
<1>6. K!SummaryIsFaithful'
  BY <1>0, <1>2 DEF K!SummaryIsFaithful, SameJobs, SameCore
<1> QED
  BY <1>3, <1>4, <1>5, <1>6 DEF ContextInv

\* What was read stays read while messages get newer.
LEMMA ReadKept ==
  ASSUME ContextInv, ContextTyped', SameJobs, Later, NEW j \in Jobs,
         runner'[j].pc \in Reading =>
           /\ runner[j].pc \in Reading /\ runner'[j].got = runner[j].got
           /\ runner'[j].pc = "units" => K!Unread(j, runner[j].got) # {}
           /\ runner'[j].pc = "publish" => K!Unread(j, runner[j].got) = {}
  PROVE  ReadOK(j)'
<1>0. ContextTyped /\ ReadOK(j) /\ SameCore(jobs[j], jobs'[j])
  BY DEF ContextInv, SameJobs
<1> SUFFICES ASSUME runner'[j].pc \in Reading PROVE ReadOK(j)'
  BY DEF ReadOK
<1>1. runner'[j].got = runner[j].got /\ runner[j].pc \in Reading
  OBVIOUS
<1>2. K!Unread(j, runner[j].got)' = K!Unread(j, runner[j].got)
  BY <1>0, <1>1 DEF K!Unread, K!Sources, SameCore
<1>3. ASSUME jobs'[j].scope = "conversation", NEW m \in Msgs
      PROVE  \/ runner'[j].got[m] = 0
             \/ /\ jobs'[j].src[m] > 0 /\ jobs'[j].src[m] <= runner'[j].got[m]
                /\ runner'[j].got[m] <= msgs'[m].rev
  <2>1. \/ runner[j].got[m] = 0
        \/ /\ jobs[j].src[m] > 0 /\ jobs[j].src[m] <= runner[j].got[m]
           /\ runner[j].got[m] <= msgs[m].rev
    BY <1>0, <1>1, <1>3 DEF ReadOK, SameCore
  <2>2. runner[j].got[m] \in Nat /\ msgs[m].rev \in Nat /\ msgs'[m].rev \in Nat /\
          msgs[m].rev <= msgs'[m].rev
    BY <1>0 DEF ContextTyped, Runs, Revisions, Later
  <2> QED
    BY <1>0, <1>1, <2>1, <2>2 DEF SameCore
<1> QED
  BY <1>1, <1>2, <1>3 DEF ReadOK

\* In particular by a runner that does not move.
LEMMA ReadStays ==
  ASSUME ContextInv, ContextTyped', SameJobs, Later, NEW j \in Jobs,
         runner'[j] = runner[j] \/ runner'[j].pc \notin Reading
  PROVE  ReadOK(j)'
<1>1. ReadOK(j)
  BY DEF ContextInv
<1> QED
  BY <1>1, ReadKept DEF ReadOK

\* A step of a runner, which reads or moves.
LEMMA RunnerReads ==
  ASSUME ContextInv, SameJobs, NEW j \in Jobs, runner[j].pc # "none", NEW s \in Runs,
         runner' = [runner EXCEPT ![j] = s], ReadOK(j)',
         UNCHANGED <<msgs, ctx, sums, owner, lane>>
  PROVE  ContextInv'
<1>0. ContextTyped /\ OnlyMade
  BY DEF ContextInv
<1>1. ContextTyped'
  BY <1>0 DEF ContextTyped, SameJobs
<1>2. Later
  BY <1>0 DEF Later, ContextTyped
<1>3. runner'[j] = s /\ \A i \in Jobs : i # j => runner'[i] = runner[i]
  BY <1>0 DEF ContextTyped
<1>4. \A i \in Jobs : runner'[i].pc # "none" => Made(i)
  BY <1>0, <1>3 DEF OnlyMade
<1>5. \A i \in Jobs : ReadOK(i)'
  BY <1>1, <1>2, <1>3, ReadStays
<1>6. /\ owner'.pc \in {"created", "execute", "await", "reap"} => owner'.job \in Jobs /\ Made(owner'.job)
      /\ \A i \in DOMAIN lane'.queue : lane'.queue[i] # K!Turn => Made(lane'.queue[i])
  BY <1>0 DEF OnlyMade
<1> QED
  BY <1>1, <1>2, <1>4, <1>5, <1>6, ContextFrame

LEMMA RunnerMoves ==
  ASSUME ContextInv, SameJobs, NEW j \in Jobs, runner[j].pc # "none", NEW s \in Runs,
         runner' = [runner EXCEPT ![j] = s],
         s.pc \in Reading =>
           /\ runner[j].pc \in Reading /\ s.got = runner[j].got
           /\ s.pc = "units" => K!Unread(j, runner[j].got) # {}
           /\ s.pc = "publish" => K!Unread(j, runner[j].got) = {},
         UNCHANGED <<msgs, ctx, sums, owner, lane>>
  PROVE  ContextInv'
<1>0. ContextTyped
  BY DEF ContextInv
<1>1. ContextTyped' /\ Later /\ runner'[j] = s
  BY <1>0 DEF ContextTyped, SameJobs, Later
<1> QED
  BY <1>1, ReadKept, RunnerReads

-----------------------------------------------------------------------------

\* What the handlers do to a row keeps what it was created with.
LEMMA RowKept ==
  ASSUME NEW q \in JobRecords, NEW r, q.status # "absent",
         \/ \E status \in K!TERMINAL \cup {"running"} : r = [q EXCEPT !.status = status]
         \/ \E status \in K!TERMINAL : r = K!Closed(q, status)
         \/ \E exec \in {"queued", "running", "ended"} : r = [q EXCEPT !.exec = exec]
         \/ r = [q EXCEPT !.count = @ + 1]
         \/ r = q
  PROVE  r \in JobRecords /\ SameCore(q, r)
<1>1. ASSUME NEW status \in K!TERMINAL \cup {"running"}, r = [q EXCEPT !.status = status]
      PROVE  r \in JobRecords /\ SameCore(q, r)
  BY <1>1 DEF JobRecords, SameCore, K!TERMINAL
<1>2. ASSUME NEW status \in K!TERMINAL, r = K!Closed(q, status)
      PROVE  r \in JobRecords /\ SameCore(q, r)
  <2> DEFINE e == IF q.trigger = "automatic" THEN "ended" ELSE q.exec
  <2>1. r = [q EXCEPT !.status = status, !.slot = FALSE, !.exec = e]
    BY <1>2 DEF K!Closed
  <2>2. e \in {"queued", "running", "ended"}
    BY DEF JobRecords
  <2> HIDE DEF e
  <2>3. status # "absent"
    BY <1>2 DEF K!TERMINAL
  <2> QED
    BY <2>1, <2>2, <2>3 DEF JobRecords, SameCore
<1>3. ASSUME NEW exec \in {"queued", "running", "ended"}, r = [q EXCEPT !.exec = exec]
      PROVE  r \in JobRecords /\ SameCore(q, r)
  BY <1>3 DEF JobRecords, SameCore
<1>4. CASE r = [q EXCEPT !.count = @ + 1]
  BY <1>4 DEF JobRecords, SameCore
<1>5. CASE r = q
  BY <1>5 DEF SameCore
<1> QED
  BY <1>1, <1>2, <1>3, <1>4, <1>5

LEMMA FinishedRow ==
  ASSUME ContextTyped, NEW j \in Jobs, Made(j), NEW why \in K!TERMINAL
  PROVE  K!Finished(j, why) \in JobRecords /\ SameCore(jobs[j], K!Finished(j, why))
<1>1. jobs[j] \in JobRecords /\ jobs[j].status # "absent" /\ "cancelled" \in K!TERMINAL
  BY DEF ContextTyped, Made, K!TERMINAL
<1> QED
  BY <1>1, RowKept DEF K!Finished

\* A step that changes one row, or none.
LEMMA OneRow ==
  ASSUME ContextTyped, NEW j \in Jobs, NEW r \in JobRecords, SameCore(jobs[j], r),
         jobs' = [jobs EXCEPT ![j] = r]
  PROVE  SameJobs
BY DEF ContextTyped, SameJobs, SameCore

LEMMA NoRow ==
  ASSUME ContextTyped, UNCHANGED jobs
  PROVE  SameJobs
BY DEF ContextTyped, SameJobs, SameCore

\* The verdicts of authorized, and where a runner goes with them.
LEMMA Verdicts ==
  ASSUME NEW j \in Jobs
  PROVE  /\ K!authorized(j) \in {"ok", "cancelled", "stale", "failed"}
         /\ K!authorized(j) # "ok" => K!Ending(K!authorized(j)) \in {"failed", "interrupted", "stale"}
BY DEF K!authorized, K!Ending

LEMMA RunMoves ==
  ASSUME NEW r \in Runs, NEW place \in Reading \cup {"none", "begin", "mark", "end", "done"},
         NEW why \in {"failed", "interrupted", "stale"}
  PROVE  /\ [r EXCEPT !.pc = place] \in Runs /\ [r EXCEPT !.pc = place].pc = place
         /\ [r EXCEPT !.pc = place].got = r.got
         /\ [r EXCEPT !.pc = "end", !.why = why] \in Runs
         /\ [r EXCEPT !.pc = "end", !.why = why].pc = "end"
BY DEF Runs

\* The runner of a maintenance moves on, or ends with why.
LEMMA RunnerGoes ==
  ASSUME ContextInv, SameJobs, NEW j \in Jobs, runner[j].pc # "none",
         UNCHANGED <<msgs, ctx, sums, owner, lane>>,
         \/ \E why \in {"failed", "interrupted", "stale"} : K!Gives(j, why)
         \/ \E place \in Reading \cup {"begin", "mark", "end", "done"} :
              /\ K!Goes(j, place)
              /\ place \in Reading => runner[j].pc \in Reading
              /\ place = "units" => K!Unread(j, runner[j].got) # {}
              /\ place = "publish" => K!Unread(j, runner[j].got) = {}
  PROVE  ContextInv'
<1>0. runner \in [Jobs -> Runs] /\ runner[j] \in Runs
  BY DEF ContextInv, ContextTyped
<1>1. ASSUME NEW why \in {"failed", "interrupted", "stale"}, K!Gives(j, why) PROVE ContextInv'
  <2> DEFINE s == [runner[j] EXCEPT !.pc = "end", !.why = why]
  <2>1. s \in Runs /\ s.pc = "end" /\ runner' = [runner EXCEPT ![j] = s]
    BY <1>0, <1>1, RunMoves DEF K!Gives, Reading
  <2> HIDE DEF s
  <2> QED
    BY <2>1, RunnerMoves DEF Reading
<1>2. ASSUME NEW place \in Reading \cup {"begin", "mark", "end", "done"}, K!Goes(j, place),
             place \in Reading => runner[j].pc \in Reading,
             place = "units" => K!Unread(j, runner[j].got) # {},
             place = "publish" => K!Unread(j, runner[j].got) = {}
      PROVE  ContextInv'
  <2> DEFINE s == [runner[j] EXCEPT !.pc = place]
  <2>1. s \in Runs /\ s.pc = place /\ s.got = runner[j].got /\ runner' = [runner EXCEPT ![j] = s]
    BY <1>0, <1>2, RunMoves DEF K!Goes, Runs
  <2> HIDE DEF s
  <2> QED
    BY <1>2, <2>1, RunnerMoves
<1> QED
  BY <1>1, <1>2

LEMMA SimpleRuns ==
  ASSUME ContextInv, NEW j \in Jobs,
         K!RunRead(j) \/ K!Permit(j) \/ K!Consume(j) \/ K!Finish(j) \/ K!LaneFrees(j)
  PROVE  ContextInv'
<1>0. ContextTyped /\ jobs[j] \in JobRecords /\ runner[j] \in Runs /\ OnlyMade
  BY DEF ContextInv, ContextTyped
<1>1. CASE K!RunRead(j)
  <2>1. SameJobs
    BY <1>0, <1>1, NoRow DEF K!RunRead
  <2> QED
    BY <1>1, <2>1, Verdicts, RunnerGoes DEF K!RunRead, Reading
<1>2. CASE K!Permit(j)
  <2>1. SameJobs
    BY <1>0, <1>2, NoRow DEF K!Permit
  <2> QED
    BY <1>2, <2>1, Verdicts, RunnerGoes DEF K!Permit, Reading
<1>3. CASE K!Consume(j)
  <2>1. Made(j)
    BY <1>0, <1>3 DEF K!Consume, OnlyMade
  <2>2. SameJobs
    <3>1. CASE UNCHANGED jobs
      BY <1>0, <3>1, NoRow
    <3>2. CASE jobs' = [jobs EXCEPT ![j].count = @ + 1]
      <4> DEFINE r == [jobs[j] EXCEPT !.count = @ + 1]
      <4>1. jobs' = [jobs EXCEPT ![j] = r]
        BY <3>2
      <4>2. r \in JobRecords /\ SameCore(jobs[j], r)
        BY <1>0, <2>1, RowKept DEF Made
      <4> HIDE DEF r
      <4> QED
        BY <1>0, <4>1, <4>2, OneRow
    <3> QED
      BY <1>3, <3>1, <3>2 DEF K!Consume
  <2> QED
    BY <1>3, <2>2, RunnerGoes DEF K!Consume, Reading
<1>4. CASE K!Finish(j)
  <2>1. Made(j) /\ runner[j].why \in K!TERMINAL
    BY <1>0, <1>4 DEF K!Finish, OnlyMade, Runs, K!TERMINAL
  <2>2. SameJobs
    BY <1>0, <1>4, <2>1, FinishedRow, OneRow DEF K!Finish
  <2> QED
    BY <1>4, <2>2, RunnerGoes DEF K!Finish, Reading
<1>5. CASE K!LaneFrees(j)
  <2>1. Made(j)
    BY <1>0, <1>5 DEF K!LaneFrees, OnlyMade
  <2>2. SameJobs
    <3> DEFINE r == [jobs[j] EXCEPT !.exec = "ended"]
    <3>1. jobs' = [jobs EXCEPT ![j] = r]
      BY <1>5 DEF K!LaneFrees
    <3>2. r \in JobRecords /\ SameCore(jobs[j], r)
      BY <1>0, <2>1, RowKept DEF Made
    <3> HIDE DEF r
    <3> QED
      BY <1>0, <3>1, <3>2, OneRow
  <2>3. ContextTyped' /\ Later
    <3>1. lane' \in [queue : Seq(Jobs \cup {K!Turn}), busy : BOOLEAN] /\ jobs' \in [Jobs -> JobRecords]
      BY <1>0, <1>5, <2>2 DEF ContextTyped, K!LaneFrees, SameJobs
    <3>2. UNCHANGED <<msgs, ctx, sums, runner, owner>>
      BY <1>5 DEF K!LaneFrees
    <3> QED
      BY <1>0, <3>1, <3>2 DEF ContextTyped, Later
  <2>4. \A i \in Jobs : ReadOK(i)'
    BY <1>5, <2>2, <2>3, ReadStays DEF K!LaneFrees
  <2>5. lane'.queue = lane.queue
    BY <1>0, <1>5 DEF K!LaneFrees, ContextTyped
  <2> QED
    BY <1>0, <1>5, <2>2, <2>3, <2>4, <2>5, ContextFrame DEF K!LaneFrees, OnlyMade
<1> QED
  BY <1>1, <1>2, <1>3, <1>4, <1>5

\* A runner begins with what its base summary was made from.
LEMMA MarkRuns ==
  ASSUME ContextInv, NEW j \in Jobs, K!RunMark(j)
  PROVE  ContextInv'
<1>0. /\ ContextTyped /\ jobs[j] \in JobRecords /\ runner[j] \in Runs /\ OnlyMade /\ Sourced
      /\ K!SummaryIsFaithful /\ Covers(j)
  BY DEF ContextInv, ContextTyped
<1>1. Made(j) /\ runner[j].pc # "none"
  BY <1>0 DEF K!RunMark, OnlyMade
<1>2. SameJobs
  <2> DEFINE r == [jobs[j] EXCEPT !.status = "running"]
  <2>1. jobs' = [jobs EXCEPT ![j] = r]
    BY DEF K!RunMark
  <2>2. r \in JobRecords /\ SameCore(jobs[j], r)
    BY <1>0, <1>1, RowKept DEF Made
  <2> HIDE DEF r
  <2> QED
    BY <1>0, <2>1, <2>2, OneRow
<1> DEFINE got == IF jobs[j].scope = "execution" THEN jobs[j].src
                  ELSE IF jobs[j].useBase THEN sums[jobs[j].base] ELSE K!Nothing
           place == IF K!Unread(j, got) = {} THEN "call" ELSE "units"
           s == [runner[j] EXCEPT !.got = got, !.pc = place]
<1>3. jobs[j].useBase => /\ jobs[j].base \in Jobs /\ sums[jobs[j].base] = jobs[jobs[j].base].src
                         /\ jobs[jobs[j].base] \in JobRecords
  BY <1>0 DEF Covers, K!Published, K!SummaryIsFaithful, ContextTyped, JobRecords
<1>4. got \in Revisions
  BY <1>0, <1>3 DEF ContextTyped, JobRecords, Revisions, K!Nothing
<1>5. runner' = [runner EXCEPT ![j] = s]
  BY DEF K!RunMark
<1>6. jobs[j].scope = "conversation" => \A m \in Msgs : got[m] = 0 \/
        (jobs[j].src[m] > 0 /\ got[m] = jobs[j].src[m])
  BY <1>0, <1>3 DEF Covers, K!Nothing, JobRecords, Revisions
<1> HIDE DEF got
<1>7. s \in Runs /\ s.got = got /\ s.pc = place
  BY <1>0, <1>4 DEF Runs, Reading
<1> HIDE DEF s
<1>8. runner'[j] = s /\ SameCore(jobs[j], jobs'[j]) /\ UNCHANGED msgs
  BY <1>0, <1>2, <1>5 DEF ContextTyped, SameJobs, K!RunMark
<1>9. ReadOK(j)'
  <2>1. K!Unread(j, runner[j].got)' = K!Unread(j, got)
    BY <1>7, <1>8 DEF K!Unread, K!Sources, SameCore
  <2>2. ASSUME jobs'[j].scope = "conversation", NEW m \in Msgs
        PROVE  \/ runner'[j].got[m] = 0
               \/ /\ jobs'[j].src[m] > 0 /\ jobs'[j].src[m] <= runner'[j].got[m]
                  /\ runner'[j].got[m] <= msgs'[m].rev
    <3>1. jobs[j].src[m] \in Nat /\ jobs[j].src[m] <= msgs[m].rev
      BY <1>0 DEF Sourced, JobRecords, Revisions
    <3> QED
      BY <1>6, <1>7, <1>8, <2>2, <3>1 DEF SameCore
  <2>3. runner'[j].got = got /\ runner'[j].pc = place
    BY <1>7, <1>8
  <2>4. place = "units" => K!Unread(j, got) # {}
    OBVIOUS
  <2> HIDE DEF place
  <2>5. place # "publish"
    BY DEF place
  <2> QED
    BY <2>1, <2>2, <2>3, <2>4, <2>5 DEF ReadOK
<1> QED
  BY <1>1, <1>2, <1>5, <1>7, <1>9, RunnerReads DEF K!RunMark

\* A message is read as it is now, which is no older than it was frozen.
LEMMA UnitRuns ==
  ASSUME ContextInv, NEW j \in Jobs, K!ReadUnit(j)
  PROVE  ContextInv'
<1>0. /\ ContextTyped /\ jobs[j] \in JobRecords /\ runner[j] \in Runs /\ Sourced /\ ReadOK(j)
      /\ runner[j].pc = "units"
  BY DEF ContextInv, ContextTyped, K!ReadUnit
<1>1. SameJobs
  BY <1>0, NoRow DEF K!ReadUnit
<1> DEFINE m == K!Min(K!Unread(j, runner[j].got))
           got == [runner[j].got EXCEPT ![m] = msgs[m].rev]
<1>2. m \in Msgs /\ jobs[j].src[m] > 0
  <2>1. K!Unread(j, runner[j].got) # {} /\ K!Unread(j, runner[j].got) \subseteq Nat
    BY <1>0, ContextAssumption DEF ReadOK, Reading, K!Unread, K!Sources
  <2>2. m \in K!Unread(j, runner[j].got)
    BY <2>1, MinExists
  <2> QED
    BY <2>2 DEF K!Unread, K!Sources
<1> HIDE DEF m
<1>3. CASE K!Gives(j, "failed")
  BY <1>0, <1>1, <1>3, RunnerGoes DEF K!ReadUnit
<1>4. ASSUME NEW place \in {"call"} \cup (IF K!Unread(j, got) = {} THEN {} ELSE {"units"}),
             runner' = [runner EXCEPT ![j].got = got, ![j].pc = place]
      PROVE  ContextInv'
  <2> DEFINE s == [runner[j] EXCEPT !.got = got, !.pc = place]
  <2>1. runner' = [runner EXCEPT ![j] = s]
    BY <1>4
  <2>2. got \in Revisions
    BY <1>0, <1>2 DEF ContextTyped, Runs, Revisions
  <2>3. \A i \in Msgs : got[i] = IF i = m THEN msgs[m].rev ELSE runner[j].got[i]
    BY <1>0, <1>2 DEF Runs, Revisions
  <2> HIDE DEF got
  <2>4. s \in Runs /\ s.got = got /\ s.pc = place
    BY <1>0, <2>2 DEF Runs, Reading
  <2> HIDE DEF s
  <2>5. runner'[j] = s /\ UNCHANGED <<msgs, jobs>>
    BY <1>0, <2>1 DEF ContextTyped, K!ReadUnit
  <2>6. ReadOK(j)'
    <3>1. K!Unread(j, runner[j].got)' = K!Unread(j, got)
      BY <2>4, <2>5 DEF K!Unread, K!Sources
    <3>2. ASSUME jobs[j].scope = "conversation", NEW i \in Msgs
          PROVE  got[i] = 0 \/ (jobs[j].src[i] > 0 /\ jobs[j].src[i] <= got[i] /\ got[i] <= msgs[i].rev)
      <4>1. CASE i = m
        <5>1. got[i] = msgs[i].rev /\ jobs[j].src[i] <= msgs[i].rev /\ msgs[i].rev \in Nat
          BY <1>0, <2>3, <4>1 DEF Sourced, ContextTyped
        <5> QED
          BY <1>2, <4>1, <5>1
      <4>2. CASE i # m
        BY <1>0, <2>3, <3>2, <4>2 DEF ReadOK, Reading
      <4> QED
        BY <4>1, <4>2
    <3>3. (place = "units" => K!Unread(j, got) # {}) /\ place # "publish"
      OBVIOUS
    <3> QED
      BY <2>4, <2>5, <3>1, <3>2, <3>3 DEF ReadOK
  <2> QED
    BY <1>0, <1>1, <2>1, <2>4, <2>6, RunnerReads DEF K!ReadUnit
<1> QED
  BY <1>3, <1>4 DEF K!ReadUnit, m

\* The publication follows when all sources are read.
LEMMA AnswerRuns ==
  ASSUME ContextInv, NEW j \in Jobs, K!Answer(j)
  PROVE  ContextInv'
<1>0. ContextTyped /\ runner[j] \in Runs /\ runner[j].pc = "model"
  BY DEF ContextInv, ContextTyped, K!Answer
<1>1. SameJobs
  BY <1>0, NoRow DEF K!Answer
<1>2. CASE K!Gives(j, "failed")
  BY <1>0, <1>1, <1>2, RunnerGoes DEF K!Answer
<1>3. CASE ~K!Gives(j, "failed")
  <2> DEFINE place == IF K!Unread(j, runner[j].got) # {} THEN "units"
                   ELSE IF runner[j].outs = 0 THEN "publish" ELSE "call"
             outs == IF K!Unread(j, runner[j].got) # {} THEN 1 ELSE 0
             s == [runner[j] EXCEPT !.pc = place, !.outs = outs]
  <2>1. runner' = [runner EXCEPT ![j] = s]
    BY <1>3 DEF K!Answer
  <2>2. /\ place = "units" => K!Unread(j, runner[j].got) # {}
        /\ place = "publish" => K!Unread(j, runner[j].got) = {}
        /\ place \in Reading /\ outs \in {0, 1}
    BY DEF Reading
  <2> HIDE DEF place, outs
  <2>3. s \in Runs /\ s.got = runner[j].got /\ s.pc = place
    BY <1>0, <2>2 DEF Runs
  <2> HIDE DEF s
  <2> QED
    BY <1>0, <1>1, <2>1, <2>2, <2>3, RunnerMoves DEF K!Answer, Reading
<1> QED
  BY <1>2, <1>3

\* A summary is published when what was read is what was frozen and what still is.
LEMMA PublishRuns ==
  ASSUME ContextInv, NEW j \in Jobs, K!Publish(j)
  PROVE  ContextInv'
<1>0. /\ ContextTyped /\ jobs[j] \in JobRecords /\ runner[j] \in Runs /\ OnlyMade /\ ReadOK(j)
      /\ runner[j].pc = "publish" /\ Made(j)
  BY DEF ContextInv, ContextTyped, K!Publish, OnlyMade
<1>1. ASSUME NEW status \in K!TERMINAL, jobs' = [jobs EXCEPT ![j] = K!Finished(j, status)],
               K!Goes(j, "done"),
             UNCHANGED <<sums, ctx>>
      PROVE  ContextInv'
  <2>1. SameJobs
    BY <1>0, <1>1, FinishedRow, OneRow
  <2> QED
    BY <1>0, <1>1, <2>1, RunnerGoes DEF K!Publish, Reading
<1>2. CASE K!Gives(j, "interrupted") /\ UNCHANGED <<jobs, sums, ctx>>
  BY <1>0, <1>2, NoRow, RunnerGoes DEF K!Publish
<1>3. ASSUME K!authorized(j) = "ok", jobs[j].scope = "conversation",
             jobs' = [jobs EXCEPT ![j] = K!Finished(j, "completed")], K!Goes(j, "done"),
             sums' = [sums EXCEPT ![j] = runner[j].got],
             ctx' = [ctx EXCEPT !.pointer = j, !.rev = @ + 1, !.srev = @ + 1]
      PROVE  ContextInv'
  <2>1. K!Sources(jobs[j].src) # {} /\ K!Matches(jobs[j].src)
    BY <1>0, <1>3 DEF K!authorized, K!sources_valid
  <2>2. runner[j].got = jobs[j].src
    <3>1. ASSUME NEW m \in Msgs PROVE runner[j].got[m] = jobs[j].src[m]
      <4>1. runner[j].got[m] \in Nat /\ jobs[j].src[m] \in Nat /\ msgs[m].rev \in Nat
        BY <1>0 DEF ContextTyped, Runs, JobRecords, Revisions
      <4>2. /\ jobs[j].src[m] > 0 => msgs[m].rev = jobs[j].src[m] /\ runner[j].got[m] # 0
            /\ \/ runner[j].got[m] = 0
               \/ /\ jobs[j].src[m] > 0 /\ jobs[j].src[m] <= runner[j].got[m]
                  /\ runner[j].got[m] <= msgs[m].rev
        BY <1>0, <1>3, <2>1 DEF ReadOK, Reading, K!Unread, K!Matches, K!Sources
      <4> QED
        BY <4>1, <4>2
    <3> QED
      BY <1>0, <3>1 DEF Runs, JobRecords, Revisions
  <2>3. jobs[j].src # K!Nothing
    BY <2>1 DEF K!Sources, K!Nothing
  <2>4. SameJobs
    BY <1>0, <1>3, FinishedRow, OneRow DEF K!TERMINAL
  <2>5. /\ \A i \in Jobs : sums'[i] = IF i = j THEN jobs[j].src ELSE sums[i]
        /\ sums' \in [Jobs -> Revisions]
    BY <1>0, <1>3, <2>2 DEF ContextTyped, JobRecords
  <2>6. /\ UNCHANGED <<msgs, owner, lane>> /\ ctx'.pointer = j
        /\ \A i \in Jobs : runner'[i] = IF i = j THEN [runner[j] EXCEPT !.pc = "done"] ELSE runner[i]
        /\ runner' \in [Jobs -> Runs] /\ runner'[j].pc = "done"
    <3>1. UNCHANGED <<msgs, owner, lane>> /\ ctx'.pointer = j
      BY <1>0, <1>3 DEF K!Publish, ContextTyped, Contexts
    <3>2. /\ \A i \in Jobs : runner'[i] = IF i = j THEN [runner[j] EXCEPT !.pc = "done"] ELSE runner[i]
          /\ runner' \in [Jobs -> Runs] /\ runner'[j].pc = "done"
      BY <1>0, <1>3 DEF K!Goes, ContextTyped, Runs
    <3> QED
      BY <3>1, <3>2
  <2>7. ctx' \in Contexts
    <3>1. ctx \in Contexts
      BY <1>0 DEF ContextTyped
    <3> DEFINE rev == ctx.rev + 1
               srev == ctx.srev + 1
    <3>2. ctx' = [ctx EXCEPT !.pointer = j, !.rev = rev, !.srev = srev]
      BY <1>3
    <3>3. rev \in Nat /\ srev \in Nat
      BY <3>1 DEF Contexts
    <3> HIDE DEF rev, srev
    <3> QED
      BY <3>1, <3>2, <3>3 DEF Contexts
  <2>8. ContextTyped' /\ Later
    BY <1>0, <2>4, <2>5, <2>6, <2>7 DEF ContextTyped, SameJobs, Later
  <2>9. \A i \in Jobs : jobs'[i].src = jobs[i].src /\ (Made(i)' <=> Made(i)) /\
          jobs'[i].scope = jobs[i].scope
    BY <2>4 DEF SameJobs, SameCore, Made
  <2>10. \A i \in Jobs : K!Published(i)' <=> i = j \/ K!Published(i)
    BY <2>3, <2>5, ContextAssumption DEF K!Published, K!Nothing, K!None
  <2>11. OnlyMade'
    <3>1. \A i \in Jobs : runner'[i].pc # "none" => Made(i)'
      BY <1>0, <2>6, <2>9 DEF OnlyMade
    <3>2. \A i \in Jobs : K!Published(i)' => Made(i)' /\ jobs'[i].scope = "conversation"
      BY <1>0, <1>3, <2>9, <2>10 DEF OnlyMade
    <3>3. (ctx.pointer # K!None => K!Published(ctx.pointer))'
      BY <2>3, <2>5, <2>6 DEF K!Published, K!Nothing
    <3>4. (owner.pc \in {"created", "execute", "await", "reap"} => owner.job \in Jobs /\ Made(owner.job))'
      BY <1>0, <2>6, <2>9 DEF OnlyMade, Made
    <3>5. (\A i \in DOMAIN lane.queue : lane.queue[i] # K!Turn => Made(lane.queue[i]))'
      <4> SUFFICES ASSUME NEW i \in DOMAIN lane.queue, lane.queue[i] # K!Turn
                   PROVE  jobs'[lane.queue[i]].status # "absent"
        BY <2>6 DEF Made
      <4>1. lane.queue[i] \in Jobs /\ Made(lane.queue[i])
        BY <1>0 DEF ContextTyped, OnlyMade
      <4> QED
        BY <2>9, <4>1 DEF Made
    <3> QED
      BY <3>1, <3>2, <3>3, <3>4, <3>5 DEF OnlyMade
  <2>12. Sourced'
    BY <2>6, <2>9 DEF Sourced, ContextInv
  <2>13. ASSUME NEW i \in Jobs PROVE Covers(i)' /\ ReadOK(i)'
    <3>1. Covers(i) /\ SameCore(jobs[i], jobs'[i])
      BY <2>4 DEF ContextInv, SameJobs
    <3>2. jobs[i].useBase => jobs[i].base \in Jobs
      BY <1>0, <3>1 DEF Covers, K!Published, ContextTyped, JobRecords
    <3>3. jobs[i].useBase => (K!Published(jobs[i].base))'
      BY <2>10, <3>1, <3>2 DEF Covers, SameCore, K!Published
    <3>4. Covers(i)'
      BY <2>9, <3>1, <3>2, <3>3 DEF Covers, SameCore
    <3>5. ReadOK(i)'
      BY <2>4, <2>6, <2>8, ReadStays DEF Reading
    <3> QED
      BY <3>4, <3>5
  <2>14. K!SummaryIsFaithful'
    BY <1>0, <2>5, <2>9, <2>10 DEF K!SummaryIsFaithful, ContextInv
  <2> QED
    BY <2>8, <2>11, <2>12, <2>13, <2>14 DEF ContextInv
<1> QED
  <2>1. CASE K!Over(jobs[j])
    BY <1>1, <2>1 DEF K!Publish, K!TERMINAL
  <2>2. CASE ~K!Over(jobs[j]) /\ K!authorized(j) = "cancelled"
    BY <1>2, <2>2 DEF K!Publish
  <2>3. CASE ~K!Over(jobs[j]) /\ K!authorized(j) # "cancelled" /\
               (K!authorized(j) # "ok" \/ K!PointerMoved(j))
    <3> DEFINE status == IF K!authorized(j) # "ok" THEN K!authorized(j) ELSE "stale"
    <3>1. status \in K!TERMINAL
      BY <2>3, Verdicts DEF K!TERMINAL
    <3>2. jobs' = [jobs EXCEPT ![j] = K!Finished(j, status)] /\ K!Goes(j, "done") /\ UNCHANGED <<sums, ctx>>
      BY <2>3 DEF K!Publish
    <3> HIDE DEF status
    <3> QED
      BY <1>1, <3>1, <3>2
  <2>4. CASE ~K!Over(jobs[j]) /\ K!authorized(j) = "ok" /\ ~K!PointerMoved(j)
    <3>1. "unchanged" \in K!TERMINAL /\ "completed" \in K!TERMINAL
      BY DEF K!TERMINAL
    <3> QED
      BY <1>0, <1>1, <1>3, <2>4, <3>1 DEF K!Publish
  <2> QED
    BY <2>1, <2>2, <2>3, <2>4

\* A maintenance is created with the sources as they are, its base among them.
LEMMA Creates ==
  ASSUME ContextInv, NEW trigger \in {"manual", "automatic"}, NEW scope \in {"conversation", "execution"},
         NEW src \in Revisions, \A m \in Msgs : src[m] <= msgs[m].rev, NEW cutoff \in Nat,
         scope = "conversation" => src = K!Selected(cutoff) /\ K!MayStartShared(cutoff),
         \E j \in Jobs : jobs[j].status = "absent",
         jobs' = [jobs EXCEPT ![K!NextJob] = K!Frozen(trigger, scope, src, cutoff)],
         UNCHANGED <<msgs, ctx, sums, runner>>,
         owner' \in Turns, owner'.mat = owner.mat,
         owner'.pc \in {"created", "execute", "await", "reap"} =>
           owner'.job = K!NextJob \/ (owner'.job \in Jobs /\ Made(owner'.job)),
         lane' \in [queue : Seq(Jobs \cup {K!Turn}), busy : BOOLEAN],
         \A i \in DOMAIN lane'.queue : \/ lane'.queue[i] \in {K!Turn, K!NextJob}
                                       \/ lane'.queue[i] \in Jobs /\ Made(lane'.queue[i])
  PROVE  ContextInv'
<1>0. ContextTyped /\ OnlyMade /\ Sourced /\ K!SummaryIsFaithful /\ \A j \in Jobs : Covers(j) /\ ReadOK(j)
  BY DEF ContextInv
<1> DEFINE n == K!NextJob
           new == K!Frozen(trigger, scope, src, cutoff)
<1>1. n \in Jobs /\ ~Made(n)
  <2>1. {j \in Jobs : jobs[j].status = "absent"} \subseteq Nat
    BY ContextAssumption
  <2> QED
    BY <2>1, MinExists DEF K!NextJob, Made
<1>2. new \in JobRecords /\ new.src = src /\ new.scope = scope /\ new.base = ctx.pointer
      /\ new.useBase = (scope = "conversation" /\ K!current_summary # K!None) /\ new.through = cutoff
      /\ new.status # "absent"
  <2> DEFINE use == scope = "conversation" /\ K!current_summary # K!None
             slot == scope = "conversation"
  <2>1. use \in BOOLEAN /\ slot \in BOOLEAN
    OBVIOUS
  <2>2. new = [status |-> "queued", trigger |-> trigger, scope |-> scope, src |-> src,
               base |-> ctx.pointer, useBase |-> use, srev |-> ctx.srev, setup |-> ctx.setup,
               through |-> cutoff, slot |-> slot, cancel |-> FALSE, stop |-> FALSE,
               exec |-> "queued", count |-> 0]
    BY DEF K!Frozen
  <2>3. ctx.pointer \in Jobs \cup {K!None} /\ ctx.srev \in Nat /\ ctx.setup \in Nat
    BY <1>0 DEF ContextTyped, Contexts
  <2> HIDE DEF use, slot, new
  <2>4. new \in JobRecords /\ new.src = src /\ new.scope = scope /\ new.base = ctx.pointer
        /\ new.through = cutoff /\ new.status # "absent"
    BY <2>1, <2>2, <2>3 DEF JobRecords
  <2>5. new.useBase = use
    BY <2>2
  <2> QED
    BY <2>4, <2>5 DEF use
<1> HIDE DEF new, n
<1>3. /\ jobs' \in [Jobs -> JobRecords] /\ jobs'[n] = new
      /\ \A j \in Jobs : j # n => jobs'[j] = jobs[j]
  BY <1>0, <1>1, <1>2 DEF ContextTyped, n, new
<1>4. \A j : K!Published(j)' <=> K!Published(j)
  BY DEF K!Published, K!Nothing
<1>5. ContextTyped'
  BY <1>0, <1>3 DEF ContextTyped
<1>6. \A j \in Jobs : Made(j)' <=> j = n \/ Made(j)
  BY <1>1, <1>2, <1>3 DEF Made
<1>7. ~K!Published(n) /\ runner[n].pc = "none"
  BY <1>0, <1>1 DEF OnlyMade
<1>8. OnlyMade'
  <2>1. \A j \in Jobs : runner'[j].pc # "none" => Made(j)'
    BY <1>0, <1>6 DEF OnlyMade
  <2>2. \A j \in Jobs : K!Published(j)' => Made(j)' /\ jobs'[j].scope = "conversation"
    BY <1>0, <1>3, <1>4, <1>6, <1>7 DEF OnlyMade
  <2>3. (ctx.pointer # K!None => K!Published(ctx.pointer))'
    BY <1>0 DEF OnlyMade, K!Published, K!Nothing
  <2>4. (owner.pc \in {"created", "execute", "await", "reap"} => owner.job \in Jobs /\ Made(owner.job))'
    BY <1>1, <1>2, <1>3 DEF Made, n
  <2>5. (\A i \in DOMAIN lane.queue : lane.queue[i] # K!Turn => Made(lane.queue[i]))'
    BY <1>1, <1>2, <1>3 DEF Made, n
  <2> QED
    BY <2>1, <2>2, <2>3, <2>4, <2>5 DEF OnlyMade
<1>9. Sourced'
  <2>1. \A j \in Jobs, m \in Msgs : jobs'[j].src[m] <= msgs'[m].rev
    BY <1>0, <1>2, <1>3 DEF Sourced
  <2>2. \A m \in Msgs : owner'.mat[m] <= msgs'[m].rev
    BY <1>0 DEF Sourced
  <2> QED
    BY <2>1, <2>2 DEF Sourced
<1>10. ASSUME NEW j \in Jobs PROVE ReadOK(j)'
  <2>1. CASE j = n
    BY <1>7, <2>1 DEF ReadOK, Reading
  <2>2. CASE j # n
    <3>1. jobs'[j] = jobs[j] /\ ReadOK(j)
      BY <1>0, <1>3, <2>2
    <3>2. K!Unread(j, runner[j].got)' = K!Unread(j, runner[j].got)
      BY <3>1 DEF K!Unread, K!Sources
    <3> QED
      BY <3>1, <3>2 DEF ReadOK
  <2> QED
    BY <2>1, <2>2
<1>11. ASSUME NEW j \in Jobs, j # n PROVE Covers(j)'
  <2>1. Covers(j) /\ jobs'[j] = jobs[j]
    BY <1>0, <1>3, <1>11
  <2>2. jobs[j].useBase => /\ jobs[j].base \in Jobs /\ jobs[j].base # n /\ K!Published(jobs[j].base)
    BY <1>0, <1>7, <2>1 DEF Covers, K!Published, ContextTyped, JobRecords
  <2>3. jobs[j].useBase => jobs'[jobs[j].base] = jobs[jobs[j].base]
                           /\ jobs[j].base # K!None /\ sums'[jobs[j].base] # K!Nothing
    BY <1>3, <2>2 DEF K!Published
  <2> QED
    BY <2>1, <2>3 DEF Covers, K!Published, K!Nothing
<1>12. ASSUME NEW j \in Jobs, j = n PROVE Covers(j)'
  <2>1. new.scope = "conversation" => \A m \in Msgs : new.src[m] > 0 => m <= new.through
    <3>1. ASSUME scope = "conversation", NEW m \in Msgs, src[m] > 0 PROVE m <= cutoff
      <4>1. src[m] = IF m <= cutoff /\ msgs[m].state = "in" THEN msgs[m].rev ELSE 0
        BY <3>1 DEF K!Selected
      <4> QED
        BY <3>1, <4>1
    <3> QED
      BY <1>2, <3>1
  <2>2. ASSUME new.useBase
        PROVE  /\ new.base \in Jobs /\ new.base # n /\ K!Published(new.base)
               /\ \A m \in Msgs : jobs[new.base].src[m] > 0 => new.src[m] = jobs[new.base].src[m]
    <3> DEFINE b == ctx.pointer
    <3>1. /\ scope = "conversation" /\ b # K!None /\ K!current_summary = b /\ K!sources_valid(b)
          /\ src = K!Selected(cutoff) /\ cutoff >= jobs[b].through
      BY <1>2, <2>2 DEF K!current_summary, K!MayStartShared
    <3>2. b \in Jobs /\ K!Published(b) /\ jobs[b].scope = "conversation" /\ Covers(b) /\
            jobs[b] \in JobRecords
      BY <1>0, <3>1 DEF OnlyMade, ContextTyped, Contexts
    <3>3. ASSUME NEW m \in Msgs, jobs[b].src[m] > 0 PROVE src[m] = jobs[b].src[m]
      <4>1. msgs[m].rev = jobs[b].src[m] /\ msgs[m].state = "in"
        BY <3>1, <3>3 DEF K!sources_valid, K!Matches, K!Sources
      <4>2. m <= jobs[b].through
        BY <3>2, <3>3 DEF Covers
      <4>3. m <= cutoff
        BY <3>1, <3>2, <4>2, ContextAssumption DEF JobRecords
      <4> QED
        BY <3>1, <4>1, <4>3 DEF K!Selected
    <3> QED
      BY <1>2, <1>7, <3>2, <3>3
  <2>3. new.useBase => jobs'[new.base] = jobs[new.base] /\ new.base # K!None /\ sums'[new.base] # K!Nothing
    BY <1>3, <2>2 DEF K!Published
  <2>4. jobs'[j] = new
    BY <1>3, <1>12
  <2> HIDE DEF new
  <2> QED
    BY <2>1, <2>2, <2>3, <2>4 DEF Covers, K!Published, K!Nothing
<1>13. K!SummaryIsFaithful'
  BY <1>0, <1>3, <1>4, <1>7 DEF K!SummaryIsFaithful
<1> QED
  BY <1>5, <1>8, <1>9, <1>10, <1>11, <1>12, <1>13 DEF ContextInv

\* A step in which no runner reads.
LEMMA NobodyReads ==
  ASSUME ContextInv, SameJobs, Later, UNCHANGED sums,
         msgs' \in [Msgs -> [rev : Nat, state : {"in", "out", "gone"}]],
         ctx' \in Contexts,
         ctx'.pointer \in {ctx.pointer, K!None} \/ K!Published(ctx'.pointer),
         runner' \in [Jobs -> Runs],
         \A j \in Jobs : \/ runner'[j] = runner[j]
                         \/ runner'[j].pc \notin Reading /\ (runner'[j].pc # "none" => Made(j)),
         owner' \in Turns,
         \A m \in Msgs : owner'.mat[m] = owner.mat[m] \/ owner'.mat[m] = msgs[m].rev,
         owner'.pc \in {"created", "execute", "await", "reap"} => owner'.job \in Jobs /\ Made(owner'.job),
         lane' \in [queue : Seq(Jobs \cup {K!Turn}), busy : BOOLEAN],
         \A i \in DOMAIN lane'.queue : lane'.queue[i] # K!Turn => Made(lane'.queue[i])
  PROVE  ContextInv'
<1>0. ContextTyped /\ OnlyMade
  BY DEF ContextInv
<1>1. ContextTyped'
  BY <1>0 DEF ContextTyped, SameJobs
<1>2. \A j \in Jobs : runner'[j].pc # "none" => Made(j)
  BY <1>0 DEF OnlyMade
<1>3. \A j \in Jobs : ReadOK(j)'
  BY <1>1, ReadStays
<1> QED
  BY <1>1, <1>2, <1>3, ContextFrame

\* A step of the turn that may change rows.
LEMMA TurnSteps ==
  ASSUME ContextInv, SameJobs, UNCHANGED <<msgs, ctx, sums, runner>>,
         lane' \in [queue : Seq(Jobs \cup {K!Turn}), busy : BOOLEAN], lane'.queue = lane.queue,
         owner' \in Turns,
         \A m \in Msgs : owner'.mat[m] = owner.mat[m] \/ owner'.mat[m] = msgs[m].rev,
         owner'.pc \in {"created", "execute", "await", "reap"} =>
           owner'.job = owner.job /\ owner.pc \in {"created", "execute", "await", "reap"}
  PROVE  ContextInv'
<1>0. ContextTyped /\ OnlyMade
  BY DEF ContextInv
<1>1. Later
  BY <1>0 DEF Later, ContextTyped
<1>2. owner'.pc \in {"created", "execute", "await", "reap"} => owner'.job \in Jobs /\ Made(owner'.job)
  BY <1>0 DEF OnlyMade
<1>3. \A i \in DOMAIN lane'.queue : lane'.queue[i] # K!Turn => Made(lane'.queue[i])
  BY <1>0 DEF OnlyMade
<1> QED
  BY <1>0, <1>1, <1>2, <1>3, NobodyReads DEF ContextTyped

Places == {"waiting", "build", "check", "prep", "start", "created", "execute", "await", "reap", "pay",
           "model", "ending", "over", "closed"}

LEMMA TurnTo ==
  ASSUME owner \in Turns, NEW place \in Places, K!TurnGoes(place)
  PROVE  owner' \in Turns /\ owner'.pc = place /\ owner'.mat = owner.mat /\ owner'.job = owner.job
BY DEF K!TurnGoes, Turns, Places

LEMMA TurnGoesOn ==
  ASSUME ContextInv, SameJobs, UNCHANGED <<msgs, ctx, sums, runner, lane>>,
         NEW place \in Places, K!TurnGoes(place),
         place \in {"created", "execute", "await", "reap"} =>
           owner.pc \in {"created", "execute", "await", "reap"}
  PROVE  ContextInv'
<1>0. owner \in Turns /\ lane \in [queue : Seq(Jobs \cup {K!Turn}), busy : BOOLEAN]
  BY DEF ContextInv, ContextTyped
<1>1. owner' \in Turns /\ owner'.pc = place /\ owner'.mat = owner.mat /\ owner'.job = owner.job
  BY <1>0, TurnTo
<1> QED
  BY <1>0, <1>1, TurnSteps

\* The steps of the turn that leave the rows alone.
LEMMA PlainTurns ==
  ASSUME ContextInv,
         \/ K!TurnBuild \/ K!TurnCheck \/ K!TurnPrepare \/ K!ExecuteRead \/ K!TurnResumes
         \/ K!TurnPay \/ K!TurnAnswer \/ K!TurnFinalize
  PROVE  ContextInv'
<1>0. /\ ContextTyped /\ owner \in Turns /\ ctx.rev \in Nat
      /\ lane \in [queue : Seq(Jobs \cup {K!Turn}), busy : BOOLEAN]
  BY DEF ContextInv, ContextTyped, Contexts
<1>1. SameJobs /\ UNCHANGED <<msgs, ctx, sums, runner, lane>>
  BY <1>0, NoRow DEF K!TurnBuild, K!TurnCheck, K!TurnPrepare, K!ExecuteRead, K!TurnResumes, K!TurnPay,
                     K!TurnAnswer, K!TurnFinalize
<1>2. CASE K!TurnBuild
  <2> DEFINE mat == [m \in Msgs |-> msgs[m].rev]
  <2>1. mat \in Revisions
    BY <1>0 DEF ContextTyped, Revisions
  <2>2. owner' = [owner EXCEPT !.pc = "check", !.rev = ctx.rev, !.mat = mat]
    BY <1>2 DEF K!TurnBuild
  <2>3. \A m \in Msgs : mat[m] = msgs[m].rev
    OBVIOUS
  <2> HIDE DEF mat
  <2>4. owner' \in Turns /\ owner'.pc = "check" /\ owner'.mat = mat
    BY <1>0, <2>1, <2>2 DEF Turns
  <2> QED
    BY <1>0, <1>1, <2>3, <2>4, TurnSteps
<1>3. CASE K!TurnCheck
  BY <1>1, <1>3, TurnGoesOn DEF K!TurnCheck, Places
<1>4. CASE K!TurnPrepare
  <2>1. CASE owner' = [owner EXCEPT !.pc = "start", !.rev = ctx.rev, !.tried = TRUE]
    <3>1. owner' \in Turns /\ owner'.pc = "start" /\ owner'.mat = owner.mat
      BY <1>0, <2>1 DEF Turns
    <3> QED
      BY <1>0, <1>1, <3>1, TurnSteps
  <2>2. CASE K!TurnGoes("ending") \/ K!TurnGoes("pay")
    BY <1>1, <2>2, TurnGoesOn DEF Places
  <2> QED
    BY <1>4, <2>1, <2>2 DEF K!TurnPrepare
<1>5. CASE K!ExecuteRead
  BY <1>1, <1>5, TurnGoesOn DEF K!ExecuteRead, Places, K!After
<1>6. CASE K!TurnResumes
  BY <1>1, <1>6, TurnGoesOn DEF K!TurnResumes, Places, K!After
<1>7. CASE K!TurnPay
  <2>1. CASE K!TurnGoes("ending")
    BY <1>1, <2>1, TurnGoesOn DEF Places
  <2>2. CASE owner' = [owner EXCEPT !.pc = "model", !.count = @ + 1]
    <3> DEFINE count == owner.count + 1
    <3>2. owner' = [owner EXCEPT !.pc = "model", !.count = count] /\ count \in Nat
      BY <1>0, <2>2 DEF Turns
    <3> HIDE DEF count
    <3>1. owner' \in Turns /\ owner'.pc = "model" /\ owner'.mat = owner.mat
      BY <1>0, <3>2 DEF Turns
    <3> QED
      BY <1>0, <1>1, <3>1, TurnSteps
  <2> QED
    BY <1>7, <2>1, <2>2 DEF K!TurnPay
<1>8. CASE K!TurnAnswer
  BY <1>1, <1>8, TurnGoesOn DEF K!TurnAnswer, Places
<1>9. CASE K!TurnFinalize
  BY <1>1, <1>9, TurnGoesOn DEF K!TurnFinalize, Places
<1> QED
  BY <1>2, <1>3, <1>4, <1>5, <1>6, <1>7, <1>8, <1>9

\* What is selected is the revisions as they are.
LEMMA SelectedNow ==
  ASSUME ContextTyped, NEW cutoff
  PROVE  K!Selected(cutoff) \in Revisions /\ \A m \in Msgs : K!Selected(cutoff)[m] <= msgs[m].rev
<1>1. \A m \in Msgs : msgs[m].rev \in Nat
  BY DEF ContextTyped
<1> QED
  BY <1>1 DEF K!Selected, Revisions

LEMMA StartCreates ==
  ASSUME ContextInv, K!OwnerStarts
  PROVE  ContextInv'
<1>0. ContextTyped /\ owner \in Turns /\ lane.queue \in Seq(Jobs \cup {K!Turn}) /\
        lane.busy \in BOOLEAN /\ OnlyMade
  BY DEF ContextInv, ContextTyped
<1>1. PICK cutoff \in Msgs :
         /\ K!MayStartShared(cutoff)
         /\ jobs' = [jobs EXCEPT ![K!NextJob] = K!Frozen("manual", "conversation", K!Selected(cutoff),
              cutoff)]
  BY DEF K!OwnerStarts
<1>2. K!Selected(cutoff) \in Revisions /\ (\A m \in Msgs : K!Selected(cutoff)[m] <= msgs[m].rev) /\
        cutoff \in Nat
  BY <1>0, SelectedNow, ContextAssumption
<1>3. K!NextJob \in Jobs
  <2>1. {j \in Jobs : jobs[j].status = "absent"} \subseteq Nat /\
          {j \in Jobs : jobs[j].status = "absent"} # {}
    BY ContextAssumption DEF K!OwnerStarts
  <2> QED
    BY <2>1, MinExists DEF K!NextJob
<1>4. /\ lane'.queue = Append(lane.queue, K!NextJob) /\ lane'.queue \in Seq(Jobs \cup {K!Turn})
      /\ lane' \in [queue : Seq(Jobs \cup {K!Turn}), busy : BOOLEAN]
  <2> DEFINE q == Append(lane.queue, K!NextJob)
  <2>1. lane' = [lane EXCEPT !.queue = q]
    BY DEF K!OwnerStarts
  <2>2. q \in Seq(Jobs \cup {K!Turn})
    BY <1>0, <1>3
  <2> HIDE DEF q
  <2>3. lane' \in [queue : Seq(Jobs \cup {K!Turn}), busy : BOOLEAN] /\ lane'.queue = q
    BY <1>0, <2>1, <2>2 DEF ContextTyped
  <2> QED
    BY <2>2, <2>3 DEF q
<1>5. \A i \in DOMAIN lane'.queue : \/ lane'.queue[i] \in {K!Turn, K!NextJob}
                                    \/ lane'.queue[i] \in Jobs /\ Made(lane'.queue[i])
  <2>1. \A i \in DOMAIN lane.queue : lane.queue[i] \in Jobs \cup {K!Turn}
    BY <1>0
  <2>2. ASSUME NEW i \in DOMAIN lane'.queue
        PROVE  lane'.queue[i] = K!NextJob \/ (i \in DOMAIN lane.queue /\ lane'.queue[i] = lane.queue[i])
    BY <1>0, <1>3, <1>4, <2>2
  <2> QED
    BY <1>0, <2>1, <2>2 DEF OnlyMade
<1>6. UNCHANGED <<msgs, ctx, sums, runner, owner>> /\ \E j \in Jobs : jobs[j].status = "absent"
  BY DEF K!OwnerStarts
<1>7. owner'.pc \in {"created", "execute", "await", "reap"} => owner'.job \in Jobs /\ Made(owner'.job)
  BY <1>0, <1>6 DEF OnlyMade
<1> QED
  BY <1>0, <1>1, <1>2, <1>4, <1>5, <1>6, <1>7, Creates

LEMMA TurnCreates ==
  ASSUME ContextInv, K!TurnStart
  PROVE  ContextInv'
<1>0. /\ ContextTyped /\ owner \in Turns /\ lane \in [queue : Seq(Jobs \cup {K!Turn}), busy : BOOLEAN]
      /\ OnlyMade /\ Sourced /\ owner.pc = "start"
  BY DEF ContextInv, ContextTyped, K!TurnStart
<1>1. UNCHANGED <<msgs, ctx, sums, runner, lane>>
  BY DEF K!TurnStart
<1>2. CASE UNCHANGED jobs /\ (K!TurnGoes("ending") \/ K!TurnGoes(K!After))
  <2>1. SameJobs
    BY <1>0, <1>2, NoRow
  <2> QED
    BY <1>1, <1>2, <2>1, TurnGoesOn DEF Places, K!After
<1> DEFINE scope == IF owner.tried THEN "execution" ELSE "conversation"
           src   == IF owner.tried THEN owner.mat ELSE K!Selected(K!Max(Msgs))
<1>3. CASE /\ scope = "conversation" => K!MayStartShared(K!Max(Msgs))
           /\ \E j \in Jobs : jobs[j].status = "absent"
           /\ jobs' = [jobs EXCEPT ![K!NextJob] = K!Frozen("automatic", scope, src, K!Max(Msgs))]
           /\ owner' = [owner EXCEPT !.pc = "created", !.job = K!NextJob]
  <2>1. K!NextJob \in Jobs
    <3>1. {j \in Jobs : jobs[j].status = "absent"} \subseteq Nat /\
            {j \in Jobs : jobs[j].status = "absent"} # {}
      BY <1>3, ContextAssumption
    <3> QED
      BY <3>1, MinExists DEF K!NextJob
  <2>2. owner' \in Turns /\ owner'.mat = owner.mat /\ owner'.pc = "created" /\ owner'.job = K!NextJob
    <3> DEFINE n == K!NextJob
    <3>1. owner' = [owner EXCEPT !.pc = "created", !.job = n] /\ n \in Jobs
      BY <1>3, <2>1
    <3> HIDE DEF n
    <3>2. owner' \in Turns /\ owner'.mat = owner.mat /\ owner'.pc = "created" /\ owner'.job = n
      BY <1>0, <3>1 DEF Turns
    <3> QED
      BY <3>2 DEF n
  <2>3. K!Max(Msgs) \in Nat
    BY ContextAssumption, MaxExists
  <2>4. src \in Revisions /\ \A m \in Msgs : src[m] <= msgs[m].rev
    BY <1>0, SelectedNow DEF Sourced, Turns
  <2>5. scope = "conversation" => src = K!Selected(K!Max(Msgs)) /\ K!MayStartShared(K!Max(Msgs))
    BY <1>3
  <2>6. scope \in {"conversation", "execution"}
    OBVIOUS
  <2>7. \A i \in DOMAIN lane'.queue : \/ lane'.queue[i] \in {K!Turn, K!NextJob}
                                      \/ lane'.queue[i] \in Jobs /\ Made(lane'.queue[i])
    <3>1. \A i \in DOMAIN lane.queue : lane.queue[i] \in Jobs \cup {K!Turn}
      BY <1>0
    <3> QED
      BY <1>0, <1>1, <3>1 DEF OnlyMade
  <2>8. /\ \E j \in Jobs : jobs[j].status = "absent"
        /\ jobs' = [jobs EXCEPT ![K!NextJob] = K!Frozen("automatic", scope, src, K!Max(Msgs))]
    BY <1>3
  <2> HIDE DEF scope, src
  <2> QED
    BY <1>0, <1>1, <2>2, <2>3, <2>4, <2>5, <2>6, <2>7, <2>8, Creates
<1> QED
  BY <1>2, <1>3 DEF K!TurnStart

-----------------------------------------------------------------------------

\* The marks the handlers set on rows that are there keep them.
LEMMA MarksKept ==
  ASSUME NEW q \in JobRecords, NEW r, q.status # "absent",
         \/ \E exec \in {"queued", "running", "ended"} : r = [q EXCEPT !.stop = TRUE, !.exec = exec]
         \/ r = [q EXCEPT !.status = "interrupted", !.slot = FALSE, !.exec = "ended"]
         \/ r = [q EXCEPT !.status = "stopping", !.cancel = TRUE, !.stop = TRUE]
         \/ r = [K!Closed(q, "cancelled") EXCEPT !.cancel = TRUE, !.stop = TRUE]
  PROVE  r \in JobRecords /\ SameCore(q, r)
<1>1. ASSUME NEW exec \in {"queued", "running", "ended"}, r = [q EXCEPT !.stop = TRUE, !.exec = exec]
      PROVE  r \in JobRecords /\ SameCore(q, r)
  BY <1>1 DEF JobRecords, SameCore
<1>2. CASE r = [q EXCEPT !.status = "interrupted", !.slot = FALSE, !.exec = "ended"]
  BY <1>2 DEF JobRecords, SameCore, K!TERMINAL
<1>3. CASE r = [q EXCEPT !.status = "stopping", !.cancel = TRUE, !.stop = TRUE]
  BY <1>3 DEF JobRecords, SameCore
<1>4. CASE r = [K!Closed(q, "cancelled") EXCEPT !.cancel = TRUE, !.stop = TRUE]
  <2> DEFINE c == K!Closed(q, "cancelled")
  <2>1. c \in JobRecords /\ SameCore(q, c)
    BY RowKept DEF K!TERMINAL
  <2> HIDE DEF c
  <2>2. r = [c EXCEPT !.cancel = TRUE, !.stop = TRUE]
    BY <1>4 DEF c
  <2>3. r \in JobRecords /\ SameCore(c, r)
    BY <2>1, <2>2 DEF JobRecords, SameCore
  <2> QED
    BY <2>1, <2>3 DEF SameCore
<1> QED
  BY <1>1, <1>2, <1>3, <1>4

LEMMA WriteExecutes ==
  ASSUME ContextInv, K!ExecuteWrite
  PROVE  ContextInv'
<1>0. /\ ContextTyped /\ owner \in Turns /\ lane \in [queue : Seq(Jobs \cup {K!Turn}), busy : BOOLEAN]
      /\ OnlyMade /\ owner.pc = "execute" /\ owner.job \in Jobs /\ Made(owner.job)
  BY DEF ContextInv, ContextTyped, K!ExecuteWrite, OnlyMade
<1> DEFINE j == owner.job
           r == [jobs[j] EXCEPT !.exec = "running"]
           s == [runner[j] EXCEPT !.pc = "begin"]
<1>1. jobs[j] \in JobRecords /\ runner[j] \in Runs
  BY <1>0 DEF ContextTyped
<1>2. r \in JobRecords /\ SameCore(jobs[j], r) /\ jobs' = [jobs EXCEPT ![j] = r]
  BY <1>0, <1>1, RowKept DEF Made, K!ExecuteWrite
<1>3. s \in Runs /\ s.pc = "begin" /\ runner' = [runner EXCEPT ![j] = s]
  BY <1>1 DEF Runs, K!ExecuteWrite, K!Goes
<1>4. owner' \in Turns /\ owner'.pc = "await" /\ owner'.mat = owner.mat /\ owner'.job = j
  BY <1>0, TurnTo DEF K!ExecuteWrite, Places
<1>5. UNCHANGED <<msgs, ctx, sums, lane>>
  BY DEF K!ExecuteWrite
<1> HIDE DEF r, s, j
<1>6. SameJobs
  BY <1>0, <1>2, OneRow DEF j
<1>7. /\ runner' \in [Jobs -> Runs]
      /\ \A i \in Jobs : \/ runner'[i] = runner[i]
                         \/ runner'[i].pc \notin Reading /\ (runner'[i].pc # "none" => Made(i))
  BY <1>0, <1>3 DEF ContextTyped, Reading, j
<1>8. owner'.job \in Jobs /\ Made(owner'.job)
  BY <1>0, <1>4 DEF j
<1>9. \A i \in DOMAIN lane'.queue : lane'.queue[i] # K!Turn => Made(lane'.queue[i])
  BY <1>0, <1>5 DEF OnlyMade
<1>10. Later
  BY <1>0, <1>5 DEF Later, ContextTyped
<1> QED
  BY <1>0, <1>4, <1>5, <1>6, <1>7, <1>8, <1>9, <1>10, NobodyReads DEF ContextTyped

LEMMA ParentCloses ==
  ASSUME ContextInv, K!CloseParent
  PROVE  ContextInv'
<1>0. ContextTyped /\ owner \in Turns
  BY DEF ContextInv, ContextTyped
<1>1. ASSUME NEW j \in Jobs PROVE jobs'[j] \in JobRecords /\ SameCore(jobs[j], jobs'[j])
  <2>1. CASE j \in K!Unfinished
    <3>1. Made(j) /\ "interrupted" \in K!TERMINAL
      BY <2>1 DEF K!Unfinished, Made, K!TERMINAL
    <3>2. jobs'[j] \in {jobs[j], K!Finished(j, "interrupted")}
      BY DEF K!CloseParent
    <3> QED
      BY <1>0, <3>1, <3>2, FinishedRow DEF ContextTyped, SameCore
  <2>2. CASE j \notin K!Unfinished
    <3>1. jobs'[j] = jobs[j]
      BY <2>2 DEF K!CloseParent
    <3> QED
      BY <1>0, <3>1 DEF ContextTyped, SameCore
  <2> QED
    BY <2>1, <2>2
<1>2. SameJobs
  <2>1. jobs' = [j \in Jobs |-> jobs'[j]]
    BY DEF K!CloseParent
  <2> QED
    BY <1>1, <2>1 DEF SameJobs
<1>3. owner' \in Turns /\ owner'.pc = "closed" /\ owner'.mat = owner.mat
  BY <1>0, TurnTo DEF K!CloseParent, Places
<1>4. lane' \in [queue : Seq(Jobs \cup {K!Turn}), busy : BOOLEAN] /\ lane'.queue = lane.queue
  BY <1>0 DEF K!CloseParent, ContextTyped
<1> QED
  BY <1>2, <1>3, <1>4, TurnSteps DEF K!CloseParent

LEMMA StopMarks ==
  ASSUME ContextInv, K!StopTurn
  PROVE  ContextInv'
<1>0. ContextTyped /\ owner \in Turns /\ lane \in [queue : Seq(Jobs \cup {K!Turn}), busy : BOOLEAN]
  BY DEF ContextInv, ContextTyped
<1>1. ASSUME NEW j \in Jobs PROVE jobs'[j] \in JobRecords /\ SameCore(jobs[j], jobs'[j])
  <2> DEFINE exec == IF jobs[j].exec = "queued" THEN "ended" ELSE jobs[j].exec
  <2>1. \/ jobs'[j] = jobs[j]
        \/ jobs[j].status # "absent" /\ jobs'[j] = [jobs[j] EXCEPT !.stop = TRUE, !.exec = exec]
    BY DEF K!StopTurn
  <2>2. jobs[j] \in JobRecords
    BY <1>0 DEF ContextTyped
  <2>3. exec \in {"queued", "running", "ended"}
    BY <2>2 DEF JobRecords
  <2> DEFINE r == [jobs[j] EXCEPT !.stop = TRUE, !.exec = exec]
  <2>4. jobs[j].status # "absent" => r \in JobRecords /\ SameCore(jobs[j], r)
    BY <2>2, <2>3, MarksKept
  <2>5. jobs'[j] = jobs[j] \/ (jobs[j].status # "absent" /\ jobs'[j] = r)
    BY <2>1
  <2> HIDE DEF r
  <2> QED
    BY <2>2, <2>4, <2>5 DEF SameCore
<1>2. SameJobs
  <2>1. jobs' = [j \in Jobs |-> jobs'[j]]
    BY DEF K!StopTurn
  <2> QED
    BY <1>1, <2>1 DEF SameJobs
<1>3. owner' \in Turns /\ owner'.pc = owner.pc /\ owner'.mat = owner.mat /\ owner'.job = owner.job
  BY <1>0 DEF K!StopTurn, Turns
<1> QED
  BY <1>0, <1>2, <1>3, TurnSteps DEF K!StopTurn

\* The effect of task.cancel on a runner.
LEMMA HitRuns ==
  ASSUME ContextTyped, NEW j \in Jobs, NEW r \in K!Hit(j)
  PROVE  r \in Runs /\ (r = runner[j] \/ (runner[j].pc # "none" /\ r.pc \notin Reading))
<1>1. runner[j] \in Runs
  BY DEF ContextTyped
<1>2. \/ r = runner[j]
      \/ runner[j].pc # "none" /\ r = [runner[j] EXCEPT !.pc = "end", !.why = "interrupted"]
      \/ runner[j].pc # "none" /\ r = [runner[j] EXCEPT !.pc = "done"]
  BY DEF K!Hit
<1> QED
  BY <1>1, <1>2 DEF Runs, Reading

LEMMA StopHits ==
  ASSUME ContextInv, K!StopArrives
  PROVE  ContextInv'
<1>0. /\ ContextTyped /\ owner \in Turns /\ lane \in [queue : Seq(Jobs \cup {K!Turn}), busy : BOOLEAN] /\
           OnlyMade
      /\ UNCHANGED <<msgs, ctx, jobs, sums, lane>>
  BY DEF ContextInv, ContextTyped, K!StopArrives
<1>1. SameJobs /\ Later
  BY <1>0, NoRow DEF Later, ContextTyped
<1>2. /\ owner' \in Turns /\ owner'.mat = owner.mat /\ owner'.job = owner.job
      /\ owner'.pc \in {owner.pc, "reap", "ending"} /\
           (owner'.pc = "reap" => owner.pc \in {"await", "reap"})
  <2>1. \/ owner' = [owner EXCEPT !.sent = FALSE]
        \/ owner' = [owner EXCEPT !.sent = FALSE, !.pc = "reap"] /\ owner.pc = "await"
        \/ owner' = [owner EXCEPT !.sent = FALSE, !.pc = "ending"]
    BY DEF K!StopArrives
  <2>2. CASE owner' = [owner EXCEPT !.sent = FALSE]
    BY <1>0, <2>2 DEF Turns
  <2>3. CASE owner' = [owner EXCEPT !.sent = FALSE, !.pc = "reap"] /\ owner.pc = "await"
    BY <1>0, <2>3 DEF Turns
  <2>4. CASE owner' = [owner EXCEPT !.sent = FALSE, !.pc = "ending"]
    BY <1>0, <2>4 DEF Turns
  <2> QED
    BY <2>1, <2>2, <2>3, <2>4
<1>3. /\ runner' \in [Jobs -> Runs]
      /\ \A i \in Jobs : \/ runner'[i] = runner[i]
                         \/ runner'[i].pc \notin Reading /\ (runner'[i].pc # "none" => Made(i))
  <2>1. CASE UNCHANGED runner
    BY <1>0, <2>1 DEF ContextTyped
  <2>2. CASE owner.pc = "await" /\ \E r \in K!Hit(owner.job) : runner' = [runner EXCEPT ![owner.job] = r]
    <3>1. owner.job \in Jobs
      BY <1>0, <2>2 DEF OnlyMade
    <3>2. PICK r \in K!Hit(owner.job) : runner' = [runner EXCEPT ![owner.job] = r]
      BY <2>2
    <3>3. r \in Runs /\ (r = runner[owner.job] \/ (runner[owner.job].pc # "none" /\ r.pc \notin Reading))
      BY <1>0, <3>1, HitRuns
    <3> QED
      BY <1>0, <3>1, <3>2, <3>3 DEF ContextTyped, OnlyMade
  <2> QED
    BY <2>1, <2>2 DEF K!StopArrives
<1>4. owner'.pc \in {"created", "execute", "await", "reap"} => owner'.job \in Jobs /\ Made(owner'.job)
  BY <1>0, <1>2 DEF OnlyMade
<1>5. \A i \in DOMAIN lane'.queue : lane'.queue[i] # K!Turn => Made(lane'.queue[i])
  BY <1>0 DEF OnlyMade
<1> QED
  BY <1>0, <1>1, <1>2, <1>3, <1>4, <1>5, NobodyReads DEF ContextTyped

LEMMA LaneMoves ==
  ASSUME ContextInv, K!LaneTakes
  PROVE  ContextInv'
<1>0. /\ ContextTyped /\ owner \in Turns /\ lane.queue \in Seq(Jobs \cup {K!Turn}) /\ OnlyMade
      /\ UNCHANGED <<msgs, ctx, sums>> /\ lane.queue # <<>>
  BY DEF ContextInv, ContextTyped, K!LaneTakes
<1> DEFINE entry == Head(lane.queue)
<1>1. lane' \in [queue : Seq(Jobs \cup {K!Turn}), busy : BOOLEAN] /\ lane'.queue = Tail(lane.queue)
  BY <1>0 DEF K!LaneTakes
<1>2. \A i \in DOMAIN lane'.queue : lane'.queue[i] # K!Turn => Made(lane'.queue[i])
  <2>1. \A i \in DOMAIN lane'.queue : i + 1 \in DOMAIN lane.queue /\ lane'.queue[i] = lane.queue[i + 1]
    BY <1>0, <1>1
  <2> QED
    BY <1>0, <2>1 DEF OnlyMade
<1>3. entry \in Jobs \cup {K!Turn} /\ (entry # K!Turn => Made(entry))
  <2>1. entry = lane.queue[1] /\ 1 \in DOMAIN lane.queue
    BY <1>0
  <2> QED
    BY <1>0, <2>1 DEF OnlyMade
<1>4. Later
  BY <1>0 DEF Later, ContextTyped
<1>5. CASE entry = K!Turn
  <2>1. K!TurnGoes("build") /\ UNCHANGED <<jobs, runner>>
    BY <1>5 DEF K!LaneTakes
  <2>2. owner' \in Turns /\ owner'.pc = "build" /\ owner'.mat = owner.mat
    BY <1>0, <2>1, TurnTo DEF Places
  <2>3. SameJobs
    BY <1>0, <2>1, NoRow
  <2> QED
    BY <1>0, <1>1, <1>2, <1>4, <2>1, <2>2, <2>3, NobodyReads DEF ContextTyped
<1>6. CASE entry # K!Turn
  <2> DEFINE r == [jobs[entry] EXCEPT !.exec = "running"]
             s == [runner[entry] EXCEPT !.pc = "begin"]
  <2>1. entry \in Jobs /\ Made(entry) /\ jobs[entry] \in JobRecords /\ runner[entry] \in Runs
    BY <1>0, <1>3, <1>6 DEF ContextTyped
  <2>2. UNCHANGED owner /\ jobs' = [jobs EXCEPT ![entry] = r] /\ runner' = [runner EXCEPT ![entry] = s]
    BY <1>6 DEF K!LaneTakes, K!Goes
  <2>3. r \in JobRecords /\ SameCore(jobs[entry], r) /\ s \in Runs /\ s.pc = "begin"
    BY <2>1, RowKept DEF Made, Runs
  <2> HIDE DEF r, s, entry
  <2>4. SameJobs
    BY <1>0, <2>1, <2>2, <2>3, OneRow
  <2>5. /\ runner' \in [Jobs -> Runs]
        /\ \A i \in Jobs : \/ runner'[i] = runner[i]
                           \/ runner'[i].pc \notin Reading /\ (runner'[i].pc # "none" => Made(i))
    BY <1>0, <2>1, <2>2, <2>3 DEF ContextTyped, Reading
  <2>6. owner'.pc \in {"created", "execute", "await", "reap"} => owner'.job \in Jobs /\ Made(owner'.job)
    BY <1>0, <2>2 DEF OnlyMade
  <2> QED
    BY <1>0, <1>1, <1>2, <1>4, <2>2, <2>4, <2>5, <2>6, NobodyReads DEF ContextTyped
<1> QED
  BY <1>5, <1>6

LEMMA CancelMarks ==
  ASSUME ContextInv, NEW j \in Jobs, K!OwnerCancels(j)
  PROVE  ContextInv'
<1>0. /\ ContextTyped /\ owner \in Turns /\ lane \in [queue : Seq(Jobs \cup {K!Turn}), busy : BOOLEAN]
      /\ jobs[j] \in JobRecords /\ jobs[j].status # "absent" /\ UNCHANGED <<msgs, ctx, sums, runner,
           owner, lane>>
  BY DEF ContextInv, ContextTyped, K!OwnerCancels, K!Unfinished
<1> DEFINE r == IF jobs[j].status = "queued"
                THEN [K!Closed(jobs[j], "cancelled") EXCEPT !.cancel = TRUE, !.stop = TRUE]
                ELSE [jobs[j] EXCEPT !.status = "stopping", !.cancel = TRUE, !.stop = TRUE]
<1>1. r \in JobRecords /\ SameCore(jobs[j], r)
  BY <1>0, MarksKept
<1>2. jobs' = [jobs EXCEPT ![j] = r]
  BY DEF K!OwnerCancels
<1> HIDE DEF r
<1>3. SameJobs
  BY <1>0, <1>1, <1>2, OneRow
<1> QED
  BY <1>0, <1>3, TurnSteps

LEMMA CancelHits ==
  ASSUME ContextInv, NEW j \in Jobs, K!CancelArrives(j)
  PROVE  ContextInv'
<1>0. /\ ContextTyped /\ owner \in Turns /\ lane.queue \in Seq(Jobs \cup {K!Turn}) /\ OnlyMade
      /\ jobs[j] \in JobRecords /\ UNCHANGED <<msgs, ctx, sums, owner>>
  BY DEF ContextInv, ContextTyped, K!CancelArrives
<1>1. PICK r \in K!Hit(j) : runner' = [runner EXCEPT ![j] = r]
  BY DEF K!CancelArrives
<1>2. r \in Runs /\ (r = runner[j] \/ (runner[j].pc # "none" /\ r.pc \notin Reading))
  BY <1>0, HitRuns
<1>3. /\ runner' \in [Jobs -> Runs]
      /\ \A i \in Jobs : \/ runner'[i] = runner[i]
                         \/ runner'[i].pc \notin Reading /\ (runner'[i].pc # "none" => Made(i))
  BY <1>0, <1>1, <1>2 DEF ContextTyped, OnlyMade
<1>4. SameJobs
  <2> DEFINE e == IF jobs[j].exec = "queued" THEN "ended" ELSE jobs[j].exec
             q == [jobs[j] EXCEPT !.exec = e]
  <2>1. jobs' = [jobs EXCEPT ![j] = q]
    BY DEF K!CancelArrives
  <2>2. e \in {"queued", "running", "ended"}
    BY <1>0 DEF JobRecords
  <2> HIDE DEF e
  <2>3. q \in JobRecords /\ SameCore(jobs[j], q)
    BY <1>0, <2>2 DEF JobRecords, SameCore
  <2> HIDE DEF q
  <2> QED
    BY <1>0, <2>1, <2>3, OneRow
<1>5. /\ lane' \in [queue : Seq(Jobs \cup {K!Turn}), busy : BOOLEAN]
      /\ \A i \in DOMAIN lane'.queue : lane'.queue[i] # K!Turn => Made(lane'.queue[i])
  <2> DEFINE q == K!Without(lane.queue, j)
  <2>1. q \in Seq(Jobs \cup {K!Turn}) /\ \A i \in DOMAIN q : q[i] \in K!Members(lane.queue)
    BY <1>0, WithoutSubset
  <2>2. lane' = [lane EXCEPT !.queue = q]
    BY DEF K!CancelArrives
  <2> HIDE DEF q
  <2>3. lane' \in [queue : Seq(Jobs \cup {K!Turn}), busy : BOOLEAN] /\ lane'.queue = q
    BY <1>0, <2>1, <2>2 DEF ContextTyped
  <2>4. \A e \in K!Members(lane.queue) : e # K!Turn => Made(e)
    BY <1>0 DEF K!Members, OnlyMade
  <2> QED
    BY <2>1, <2>3, <2>4
<1>6. Later
  BY <1>0 DEF Later, ContextTyped
<1>7. owner'.pc \in {"created", "execute", "await", "reap"} => owner'.job \in Jobs /\ Made(owner'.job)
  BY <1>0 DEF OnlyMade
<1> QED
  BY <1>0, <1>3, <1>4, <1>5, <1>6, <1>7, NobodyReads DEF ContextTyped

\* The Owner's changes of the context and of the messages.
LEMMA ContextMoves ==
  ASSUME ContextInv, K!OwnerRestores \/ K!Reconfigure \/ \E m \in Msgs : K!Edit(m)
  PROVE  ContextInv'
<1>0. /\ ContextTyped /\ owner \in Turns /\ OnlyMade /\ UNCHANGED <<jobs, sums, runner, owner, lane>>
      /\ ctx \in Contexts
      /\ ctx.rev \in Nat /\ ctx.srev \in Nat /\ ctx.setup \in Nat
  BY DEF ContextInv, ContextTyped, Contexts, K!OwnerRestores, K!Reconfigure, K!Edit
<1> DEFINE rev == ctx.rev + 1
           srev == ctx.srev + 1
           setup == ctx.setup + 1
<1>1. rev \in Nat /\ srev \in Nat /\ setup \in Nat
  BY <1>0
<1>2. /\ msgs' \in [Msgs -> [rev : Nat, state : {"in", "out", "gone"}]] /\ Later
      /\ ctx' \in Contexts
      /\ ctx'.pointer \in {ctx.pointer, K!None} \/ K!Published(ctx'.pointer)
  <2>1. CASE K!OwnerRestores
    <3>1. PICK to \in {K!None} \cup {j \in Jobs : K!Published(j) /\ K!sources_valid(j)} :
            ctx' = [ctx EXCEPT !.pointer = to, !.rev = rev, !.srev = srev]
      BY <2>1 DEF K!OwnerRestores
    <3> HIDE DEF rev, srev
    <3>3. /\ ctx' \in Contexts
          /\ ctx'.pointer = to
      BY <1>0, <1>1, <3>1 DEF Contexts
    <3>4. UNCHANGED msgs
      BY <2>1 DEF K!OwnerRestores
    <3> QED
      BY <1>0, <3>1, <3>3, <3>4 DEF ContextTyped, Later
  <2>2. CASE K!Reconfigure
    <3>1. ctx' = [ctx EXCEPT !.setup = setup] /\ UNCHANGED msgs
      BY <2>2 DEF K!Reconfigure
    <3>2. msgs' \in [Msgs -> [rev : Nat, state : {"in", "out", "gone"}]] /\ Later
      BY <1>0, <3>1 DEF ContextTyped, Later
    <3> HIDE DEF setup
    <3>3. /\ ctx' \in Contexts
          /\ ctx'.pointer = ctx.pointer
      BY <1>0, <1>1, <3>1 DEF Contexts
    <3> QED
      BY <3>2, <3>3
  <2>3. CASE \E m \in Msgs : K!Edit(m)
    <3>0. PICK m \in Msgs : K!Edit(m)
      BY <2>3
    <3>1. PICK state \in {"in", "out", "gone"} :
            msgs' = [msgs EXCEPT ![m] = [rev |-> msgs[m].rev + 1, state |-> state]]
      BY <3>0 DEF K!Edit
    <3> DEFINE r == [rev |-> msgs[m].rev + 1, state |-> state]
    <3>2. r \in [rev : Nat, state : {"in", "out", "gone"}] /\ msgs[m].rev <= r.rev
      BY <1>0 DEF ContextTyped
    <3>3. msgs' = [msgs EXCEPT ![m] = r]
      BY <3>1
    <3> HIDE DEF r
    <3>4. msgs' \in [Msgs -> [rev : Nat, state : {"in", "out", "gone"}]] /\ Later
      BY <1>0, <3>2, <3>3 DEF ContextTyped, Later
    <3>5. ctx' = [ctx EXCEPT !.rev = rev]
      BY <3>0 DEF K!Edit
    <3> HIDE DEF rev
    <3> QED
      BY <1>0, <1>1, <3>4, <3>5 DEF Contexts
  <2> QED
    BY <2>1, <2>2, <2>3
<1>3. SameJobs
  BY <1>0, NoRow
<1>4. owner'.pc \in {"created", "execute", "await", "reap"} => owner'.job \in Jobs /\ Made(owner'.job)
  BY <1>0 DEF OnlyMade
<1>5. \A i \in DOMAIN lane'.queue : lane'.queue[i] # K!Turn => Made(lane'.queue[i])
  BY <1>0 DEF OnlyMade
<1> QED
  BY <1>0, <1>2, <1>3, <1>4, <1>5, NobodyReads DEF ContextTyped

LEMMA RestartCloses ==
  ASSUME ContextInv, K!Restart
  PROVE  ContextInv'
<1>0. ContextTyped /\ owner \in Turns /\ OnlyMade /\ UNCHANGED <<msgs, ctx, sums>>
  BY DEF ContextInv, ContextTyped, K!Restart
<1>1. ASSUME NEW j \in Jobs PROVE jobs'[j] \in JobRecords /\ SameCore(jobs[j], jobs'[j])
  <2> DEFINE e == IF jobs[j].status = "absent" THEN jobs[j].exec ELSE "ended"
             q == [jobs[j] EXCEPT !.status = "interrupted", !.slot = FALSE, !.exec = "ended"]
             r == [jobs[j] EXCEPT !.exec = e]
  <2>1. jobs'[j] = IF j \in K!Unfinished THEN q ELSE r
    BY DEF K!Restart
  <2>2. jobs[j] \in JobRecords /\ e \in {"queued", "running", "ended"}
    BY <1>0 DEF ContextTyped, JobRecords
  <2> HIDE DEF e
  <2>3. r \in JobRecords /\ SameCore(jobs[j], r)
    BY <2>2 DEF JobRecords, SameCore
  <2>4. j \in K!Unfinished => q \in JobRecords /\ SameCore(jobs[j], q)
    BY <2>2, MarksKept DEF K!Unfinished
  <2> HIDE DEF q, r
  <2> QED
    BY <2>1, <2>3, <2>4
<1>2. SameJobs
  <2>1. jobs' = [j \in Jobs |-> jobs'[j]]
    BY DEF K!Restart
  <2> QED
    BY <1>1, <2>1 DEF SameJobs
<1>3. /\ runner' \in [Jobs -> Runs]
      /\ \A j \in Jobs : \/ runner'[j] = runner[j]
                         \/ runner'[j].pc \notin Reading /\ (runner'[j].pc # "none" => Made(j))
  <2>1. ASSUME NEW j \in Jobs
        PROVE  /\ runner'[j] \in Runs
               /\ \/ runner'[j] = runner[j]
                  \/ runner'[j].pc \notin Reading /\ (runner'[j].pc # "none" => Made(j))
    <3>1. runner[j] \in Runs
      BY <1>0 DEF ContextTyped
    <3>2. \/ runner'[j] = runner[j]
          \/ runner[j].pc # "none" /\ runner'[j] = [runner[j] EXCEPT !.pc = "done"]
      BY DEF K!Restart, K!Live
    <3> QED
      BY <1>0, <3>1, <3>2 DEF Runs, Reading, OnlyMade
  <2>2. runner' = [j \in Jobs |-> runner'[j]]
    BY DEF K!Restart
  <2> QED
    BY <2>1, <2>2
<1>4. owner' \in Turns /\ owner'.pc = "closed" /\ owner'.mat = owner.mat
  BY <1>0 DEF K!Restart, Turns
<1>5. lane' = [queue |-> <<>>, busy |-> FALSE]
  BY DEF K!Restart
<1>6. Later
  BY <1>0 DEF Later, ContextTyped
<1> QED
  BY <1>0, <1>2, <1>3, <1>4, <1>5, <1>6, NobodyReads DEF ContextTyped

LEMMA ContextStep == ContextInv /\ [K!Next]_(K!vars) => ContextInv'
<1> SUFFICES ASSUME ContextInv, [K!Next]_(K!vars) PROVE ContextInv'
  OBVIOUS
<1>1. ASSUME NEW j \in Jobs, K!RunnerStep(j) \/ K!LaneFrees(j) PROVE ContextInv'
  BY <1>1, SimpleRuns, MarkRuns, UnitRuns, AnswerRuns, PublishRuns DEF K!RunnerStep
<1>2. CASE K!TurnStep
  BY <1>2, PlainTurns, TurnCreates, WriteExecutes, ParentCloses DEF K!TurnStep
<1>3. CASE K!LaneTakes \/ K!Restart
  BY <1>3, LaneMoves, RestartCloses
<1>4. CASE K!OwnerStep
  BY <1>4, StartCreates, StopMarks, StopHits, CancelMarks, CancelHits, ContextMoves DEF K!OwnerStep
<1>5. CASE UNCHANGED K!vars
  <2>1. ContextTyped /\ OnlyMade /\ UNCHANGED <<msgs, ctx, jobs, sums, runner, owner, lane>>
    BY <1>5 DEF K!vars, ContextInv
  <2>2. SameJobs
    BY <2>1, NoRow
  <2> QED
    BY <2>1, <2>2, TurnSteps DEF ContextTyped
<1> QED
  BY <1>1, <1>2, <1>3, <1>4, <1>5 DEF K!Next

\* A published summary names exactly what it was made from.
LEMMA SummariesAlways == K!Spec => []K!SummaryIsFaithful
<1>1. ContextInv => K!SummaryIsFaithful
  BY DEF ContextInv
<1> QED
  BY <1>1, ContextInit, ContextStep, PTL DEF K!Spec

\* A summary appears where the publication found no cancel.
LEMMA OnlyPublishAdopts ==
  ASSUME ContextTyped, [K!Next]_(K!vars), NEW i \in Jobs, sums'[i] # sums[i]
  PROVE  ~jobs[i].cancel
<1>1. PICK j \in Jobs : K!Publish(j) /\ ~UNCHANGED sums
  BY DEF K!Next, K!RunnerStep, K!TurnStep, K!OwnerStep, K!vars, K!RunRead, K!RunMark, K!ReadUnit,
       K!Permit, K!Consume, K!Answer,
         K!Finish, K!LaneFrees, K!TurnBuild, K!TurnCheck, K!TurnPrepare, K!TurnStart, K!ExecuteRead,
           K!ExecuteWrite,
         K!TurnResumes, K!TurnPay, K!TurnAnswer, K!TurnFinalize, K!CloseParent, K!LaneTakes, K!OwnerStarts,
         K!OwnerRestores, K!StopTurn, K!StopArrives, K!Reconfigure, K!OwnerCancels, K!CancelArrives,
           K!Edit, K!Restart
<1>2. ~K!Over(jobs[j]) /\ sums' = [sums EXCEPT ![j] = runner[j].got]
  BY <1>1 DEF K!Publish
<1> QED
  BY <1>2 DEF K!Over, ContextTyped

LEMMA CancelsAlways == K!Spec => K!CancelIsKept
<1>1. ContextInv /\ [K!Next]_(K!vars) =>
        [\A j \in Jobs : jobs[j].cancel /\ ~K!Published(j) => ~K!Published(j)']_(K!vars)
  <2> SUFFICES ASSUME ContextTyped, [K!Next]_(K!vars), NEW j \in Jobs, jobs[j].cancel, ~K!Published(j)
               PROVE  ~K!Published(j)'
    BY DEF ContextInv
  <2> QED
    BY OnlyPublishAdopts DEF K!Published, K!Nothing
<1> QED
  BY <1>1, ContextInit, ContextStep, PTL DEF K!Spec, K!CancelIsKept

\* A behaviour of the composition is one of the context, which the other part leaves alone.
LEMMA ContextRun == ExecSpec => K!Spec
<1>1. ExecInit => K!Init
  BY DEF ExecInit
<1>2. [ExecNext]_execVars => [K!Next]_(K!vars)
  BY DEF ExecNext, execVars, contextVars, K!vars
<1> QED
  BY <1>1, <1>2, PTL DEF ExecSpec, K!Spec

\* A published summary was made from exactly the revisions its rows name, for any number of
\* messages and maintenances: units are read one by one while messages are edited, a base summary
\* may be part of the input, and the publication only compares the revisions (units, finish).
THEOREM SummariesFaithful == ExecSpec => []SummaryIsFaithful
BY ContextRun, SummariesAlways, PTL DEF SummaryIsFaithful

\* A maintenance whose cancel is stored is never adopted afterwards, whatever its runner, the
\* turn, the queue of the conversation and a restart still do with it (cancel, finish).
THEOREM CancelsKept == ExecSpec => CancelIsKept
BY ContextRun, CancelsAlways, PTL DEF CancelIsKept

-----------------------------------------------------------------------------
(* The agent loop and the owner of its reply                                *)

Events == [kind : {"model_start", "model_end", "chain_end"}, at : A!Rounds]
            \cup [kind : {"not_dispatched", "tool_start", "tool_end"}, at : A!Calls]

Graphs == [pc : {"prompt", "waiting", "compacting", "decide", "model", "tools", "closed"},
           round : 0..Decisions, steps : Int, remaining : Int,
           end : {"none", "budget", "context", "silent", "provider", "invalid", "tool", "text",
                  "recursion", "cancelled"}]

CallRecords == [state : {"none", "proposed", "running", "done", "refused", "raised", "killed"},
                applied : {"no", "yes", "late"}]

Replies ==
  [pc : {"take", "store", "tell", "unwind", "pending", "finalize", "over"},
   event : Events \cup {[kind |-> "none", at |-> 0]}, open : SUBSET A!Calls, recorded : Nat,
   hit : BOOLEAN, stop : {"no", "asked", "sent"},
   outcome : {"none", "completed", "decision_budget", "graph_budget", "failed", "stopped"}]

Agents ==
  [pending : SUBSET A!Calls, started : SUBSET A!Calls, blocked : SUBSET A!Calls, error : BOOLEAN,
   open : SUBSET A!Rounds, seen : SUBSET A!Rounds, complete : BOOLEAN]

Parts == [status : {"none", "running", "ended", "not_executed", "cut"}, applied : BOOLEAN]

AgentTyped ==
  /\ graph \in Graphs
  /\ resp \in [A!Rounds -> [kind : {"none", "good", "bad"}, calls : SUBSET A!Calls]]
  /\ tools \in [A!Calls -> CallRecords]
  /\ events \in Seq(Events)
  /\ agent \in Agents /\ reply \in Replies /\ blocks \in [A!Calls -> Parts]

\* An event in the queue, and the one the owner is storing.
Waits(kind, at) == \E i \in DOMAIN events : events[i].kind = kind /\ events[i].at = at
Held(kind, at) == reply.pc = "store" /\ reply.event.kind = kind /\ reply.event.at = at
\* The events that answer a call.
Closing == {"not_dispatched", "tool_end"}
IsAnswered(c) == tools[c].state \in {"done", "refused"}

\* The rounds up to the graph's have a response, a malformed one ends the graph, and a call
\* belongs to the response that proposed it.
GraphOK ==
  /\ graph.pc # "closed" <=> graph.end = "none"
  /\ graph.pc \in {"waiting", "compacting", "decide"} => graph.round < Decisions
  /\ graph.pc = "model" => graph.round > 0 /\ resp[graph.round].kind = "none"
  /\ graph.round > 0 /\ graph.pc # "model" /\ graph.end \notin {"provider", "cancelled"} =>
       resp[graph.round].kind # "none"
  /\ \A r \in A!Rounds :
       /\ resp[r].kind # "none" => r <= graph.round
       /\ resp[r].kind = "none" => resp[r].calls = {}
       /\ resp[r].kind = "bad" => r = graph.round /\ graph.pc = "closed"
       /\ \A c \in resp[r].calls : c[1] = r

\* No call runs or waits once its graph is over, unless one that raised left it behind, and
\* only a call that ran has changed something.
CallsOK ==
  \A c \in A!Calls :
    /\ tools[c].state # "none" => c \in resp[c[1]].calls
    /\ tools[c].state \in {"none", "proposed", "refused"} => tools[c].applied = "no"
    /\ graph.pc # "tools" /\ graph.end # "tool" => tools[c].state \notin {"proposed", "running"}
    /\ tools[c].state = "raised" => graph.end = "tool"
    /\ tools[c].state = "killed" => reply.pc \in {"pending", "finalize", "over"}

\* An event tells what has happened.
EventOK(e) ==
  /\ e.kind = "model_end" => resp[e.at].kind # "none"
  /\ e.kind = "not_dispatched" => tools[e.at].state = "refused"
  /\ e.kind = "tool_end" => tools[e.at].state = "done"
  /\ e.kind = "tool_start" => tools[e.at].state \in {"running", "done", "raised"}

EventsOK ==
  /\ \A i \in DOMAIN events : EventOK(events[i])
  /\ reply.pc = "store" => EventOK(reply.event)

\* The owner still consumes events.
Live == reply.pc \in {"take", "store"}

\* Every response was seen or will be, in the order of the rounds; since a malformed response is
\* the last one, run_agent's error flag is about the last response when it was seen.
RoundsOK ==
  Live =>
    /\ \A r \in A!Rounds : resp[r].kind # "none" => r \in agent.seen \/ Waits("model_end", r)
    /\ \A r \in agent.seen : resp[r].kind # "none" /\ (resp[r].kind = "bad" => agent.error)
    /\ \A i \in DOMAIN events : events[i].kind = "model_end" =>
         /\ \A r \in agent.seen : r < events[i].at
         /\ \A k \in DOMAIN events : k < i /\ events[k].kind = "model_end" => events[k].at < events[i].at

\* An event of a call comes after its response's, the end of a call after its start.
OrderOK ==
  Live =>
    \A i \in DOMAIN events :
      /\ events[i].kind \in {"not_dispatched", "tool_start", "tool_end"} =>
           \/ events[i].at[1] \in agent.seen
           \/ \E k \in DOMAIN events : k < i /\ events[k].kind = "model_end" /\
                events[k].at = events[i].at[1]
      /\ events[i].kind = "tool_start" /\ graph.end # "tool" /\ tools[events[i].at].state = "done" =>
           \E k \in DOMAIN events : k > i /\ events[k].kind = "tool_end" /\ events[k].at = events[i].at

\* The answer of c is on its way.
Closes(c) == \E kind \in Closing : Waits(kind, c)

\* What is stored and what is still to come is everything there is: a call that was answered has
\* its answer in the queue, in the owner's hands or in the stored reply; a call run_agent no longer
\* waits for was answered; a part is open only while run_agent knows the call as started; and a
\* call that raised leaves its part open or its start unconsumed.
PairsOK ==
  Live =>
    /\ graph.end # "tool" => \A c \in A!Calls : IsAnswered(c) =>
         /\ Closes(c) \/ (\E kind \in Closing : Held(kind, c)) \/ blocks[c].status \in A!Final
         /\ c \in agent.pending \/ c[1] \notin agent.seen => Closes(c)
         /\ Held("tool_start", c) => Waits("tool_end", c)
    /\ \A c \in A!Calls : c[1] \in agent.seen /\ c \in resp[c[1]].calls /\ c \notin agent.pending =>
         IsAnswered(c)
    /\ \A c \in reply.open : c \in agent.started \/ Held("tool_end", c)
    /\ graph.end # "tool" => \A c \in A!Calls : tools[c].state = "running" => c \in reply.open \/
         Waits("tool_start", c)
    /\ graph.end = "tool" => \E c \in A!Calls : tools[c].state = "raised" /\
         (c \in reply.open \/ Waits("tool_start", c))
    /\ reply.outcome = "none" /\ graph.end # "cancelled"

\* The stored reply tells every change.
Told == \A c \in A!Calls : tools[c].applied = "yes" => blocks[c].applied

\* A stored part tells what became of its call, and the changes of all calls are told before the
\* reply is closed.
PartsOK ==
  /\ \A c \in A!Calls :
       /\ blocks[c].status \in {"ended", "cut"} /\ tools[c].applied = "yes" => blocks[c].applied
       /\ blocks[c].status = "ended" => tools[c].state = "done"
       /\ blocks[c].status = "not_executed" => \/ tools[c].state = "refused"
                                               \/ tools[c].state = "none" /\ graph.pc = "closed"
       /\ blocks[c].status = "cut" => reply.pc \in {"pending", "finalize", "over"}
  /\ reply.pc \in {"tell", "finalize", "over"} => Told
  /\ reply.pc = "tell" => /\ graph.pc = "closed" /\ graph.end # "tool" /\ reply.outcome = "graph_budget"
                          /\ \A c \in agent.blocked : tools[c].state = "none"

\* Every proposal has its stored answer, and the last response was whole.
Settled == /\ \A c \in A!Proposed : blocks[c].status \in A!Final /\ tools[c].state \in {"done", "refused"}
           /\ graph.round > 0 => resp[graph.round].kind = "good"

\* An outcome that claims completeness stands only on settled calls.
EndOK ==
  reply.outcome \in {"completed", "decision_budget"} =>
    /\ reply.pc \in {"pending", "finalize", "over"} /\ graph.pc = "closed" /\ reply.open = {} /\ Settled

AgentInv == AgentTyped /\ GraphOK /\ CallsOK /\ EventsOK /\ RoundsOK /\ OrderOK /\ PairsOK /\ PartsOK /\
  EndOK

-----------------------------------------------------------------------------

\* What a step of the graph adds to the queue of events.
Grew(E) ==
  /\ events' \in Seq(Events)
  /\ DOMAIN events \subseteq DOMAIN events' /\ DOMAIN events' \subseteq Nat
  /\ \A i \in DOMAIN events : events'[i] = events[i]
  /\ \A i \in DOMAIN events' \ DOMAIN events : events'[i] \in E /\ \A k \in DOMAIN events : k < i
  /\ \A e \in E : \E i \in DOMAIN events' \ DOMAIN events : events'[i] = e
  /\ \A i, k \in DOMAIN events' \ DOMAIN events : events'[i] = events'[k] => i = k

LEMMA GrowsByNone ==
  ASSUME events \in Seq(Events), UNCHANGED events
  PROVE  Grew({})
BY DEF Grew

LEMMA GrowsByOne ==
  ASSUME events \in Seq(Events), NEW e \in Events, events' = Append(events, e)
  PROVE  Grew({e})
<1>1. /\ events' \in Seq(Events) /\ Len(events') = Len(events) + 1 /\ Len(events) \in Nat
      /\ DOMAIN events = 1..Len(events) /\ DOMAIN events' = 1..(Len(events) + 1)
      /\ \A i \in 1..Len(events) : events'[i] = events[i]
      /\ events'[Len(events) + 1] = e
  BY AppendProperties, LenProperties
<1> QED
  BY <1>1 DEF Grew

LEMMA GrowsByTwo ==
  ASSUME events \in Seq(Events), NEW e \in Events, NEW f \in Events, e # f,
         events' = Append(events, e) \o <<f>>
  PROVE  Grew({e, f})
<1> DEFINE q == Append(events, e)
           t == <<f>>
<1>1. /\ q \in Seq(Events) /\ Len(q) = Len(events) + 1 /\ Len(events) \in Nat
      /\ DOMAIN events = 1..Len(events)
      /\ \A i \in 1..Len(events) : q[i] = events[i]
      /\ q[Len(events) + 1] = e
  BY AppendProperties, LenProperties
<1>2. t \in Seq(Events) /\ Len(t) = 1 /\ t[1] = f
  OBVIOUS
<1>3. events' = q \o t
  OBVIOUS
<1> HIDE DEF q, t
<1>4. /\ events' \in Seq(Events) /\ Len(events') = Len(events) + 2
      /\ \A i \in 1..(Len(events) + 2) : events'[i] = IF i <= Len(q) THEN q[i] ELSE t[i - Len(q)]
  BY <1>1, <1>2, <1>3, ConcatProperties
<1>5. DOMAIN events' = 1..(Len(events) + 2)
  BY <1>4, LenProperties
<1>6. /\ \A i \in 1..Len(events) : events'[i] = events[i]
      /\ events'[Len(events) + 1] = e /\ events'[Len(events) + 2] = f
  BY <1>1, <1>2, <1>4
<1>7. \A i \in DOMAIN events' \ DOMAIN events : i = Len(events) + 1 \/ i = Len(events) + 2
  BY <1>1, <1>5
<1>8. /\ DOMAIN events \subseteq DOMAIN events' /\ DOMAIN events' \subseteq Nat
      /\ \A i \in DOMAIN events : events'[i] = events[i]
      /\ \A i \in DOMAIN events' \ DOMAIN events : events'[i] \in {e, f} /\ \A k \in DOMAIN events : k < i
  BY <1>1, <1>5, <1>6, <1>7
<1>9. /\ Len(events) + 1 \in DOMAIN events' \ DOMAIN events
      /\ Len(events) + 2 \in DOMAIN events' \ DOMAIN events
  BY <1>1, <1>5
<1>10. \A i, k \in DOMAIN events' \ DOMAIN events : events'[i] = events'[k] => i = k
  BY <1>6, <1>7
<1> QED
  BY <1>4, <1>6, <1>8, <1>9, <1>10 DEF Grew

\* What every step of the graph and of its calls does with what is sent.
Sends(E) ==
  /\ Grew(E)
  /\ \A e \in E : EventOK(e)'
  /\ \A r \in A!Rounds : /\ resp[r].kind # "none" => resp'[r] = resp[r]
                         /\ resp'[r].kind # "none" /\ resp[r].kind = "none" =>
                              \E e \in E : e.kind = "model_end" /\ e.at = r
  /\ \A e \in E : /\ e.kind = "model_end" => \A r \in A!Rounds : resp[r].kind # "none" => r < e.at
                  /\ e.kind = "tool_start" => tools'[e.at].state = "running"
                  /\ e.kind \in {"not_dispatched", "tool_start", "tool_end"} => resp[e.at[1]].kind # "none"
  /\ \A e, f \in E : e.kind = "model_end" /\ f.kind = "model_end" => e = f
  /\ graph.end = "tool" => graph'.end = "tool"
  /\ graph'.end = "cancelled" => graph.end = "cancelled"
  /\ graph.pc = "closed" => UNCHANGED <<graph, resp>>
  /\ graph.end # "tool" /\ graph'.end = "tool" =>
       \E c \in A!Calls : tools[c].state = "running" /\ tools'[c].state = "raised"
  /\ \A c \in A!Calls :
       /\ tools[c].state \in {"refused", "done", "raised"} => tools'[c].state = tools[c].state
       /\ tools[c].state = "running" => tools'[c].state \in {"running", "done", "raised"}
       /\ graph.pc = "closed" /\ tools[c].state = "none" => tools'[c].state = "none"
       /\ graph'.end # "tool" =>
            /\ tools'[c].state = "done" /\ tools[c].state # "done" => \E e \in E : e.kind = "tool_end" /\
                 e.at = c
            /\ tools'[c].state = "refused" /\ tools[c].state # "refused" =>
                 \E e \in E : e.kind = "not_dispatched" /\ e.at = c
            /\ tools'[c].state = "running" /\ tools[c].state # "running" =>
                 \E e \in E : e.kind = "tool_start" /\ e.at = c
       /\ tools'[c].state = "refused" /\ tools[c].state # "refused" => tools[c].state = "proposed"
       /\ tools'[c].applied = "yes" /\ tools[c].applied # "yes" =>
            tools[c].state = "running" /\ blocks[c].status # "cut" /\ reply.pc \notin {"finalize", "over"}
  /\ UNCHANGED <<agent, reply, blocks>>

LEMMA WaitsOn ==
  ASSUME NEW E, Grew(E)
  PROVE  /\ \A kind, at : Waits(kind, at) => Waits(kind, at)'
         /\ \A e \in E : Waits(e.kind, e.at)'
<1>1. ASSUME NEW kind, NEW at, Waits(kind, at) PROVE Waits(kind, at)'
  BY <1>1 DEF Grew, Waits
<1>2. ASSUME NEW e \in E PROVE Waits(e.kind, e.at)'
  BY <1>2 DEF Grew, Waits
<1> QED
  BY <1>1, <1>2

LEMMA SendsEvents ==
  ASSUME AgentInv, NEW E, Sends(E)
  PROVE  EventsOK'
<1>0. EventsOK /\ AgentTyped
  BY DEF AgentInv
<1>1. ASSUME NEW e \in Events, EventOK(e) PROVE EventOK(e)'
  <2>1. CASE e.kind \in {"model_end", "model_start", "chain_end"}
    BY <1>1, <2>1 DEF EventOK, Sends, Events
  <2>2. CASE e.kind \in {"not_dispatched", "tool_start", "tool_end"}
    <3>1. e.at \in A!Calls
      BY <2>2 DEF Events
    <3> QED
      BY <1>1, <2>2, <3>1 DEF EventOK, Sends
  <2> QED
    BY <2>1, <2>2 DEF Events
<1>2. \A i \in DOMAIN events : events[i] \in Events
  BY <1>0 DEF AgentTyped
<1>3. ASSUME NEW i \in DOMAIN events' PROVE EventOK(events[i])'
  <2>1. CASE i \in DOMAIN events
    <3>1. events'[i] = events[i] /\ EventOK(events[i])
      BY <1>0, <2>1 DEF Sends, Grew, EventsOK
    <3>2. \A e \in Events : e = events[i] => EventOK(e)'
      BY <1>1, <3>1
    <3>3. \A e \in Events : e = events'[i] => EventOK(e)'
      BY <3>1, <3>2
    <3> QED
      BY <1>2, <2>1, <3>1, <3>3
  <2>2. CASE i \notin DOMAIN events
    <3>1. \A e \in E : EventOK(e)'
      BY DEF Sends
    <3>2. events'[i] \in E
      BY <2>2 DEF Sends, Grew
    <3> QED
      BY <3>1, <3>2
  <2> QED
    BY <2>1, <2>2
<1>4. ASSUME reply'.pc = "store" PROVE EventOK(reply.event)'
  <2>1. reply' = reply /\ EventOK(reply.event)
    BY <1>0, <1>4 DEF Sends, EventsOK
  <2>2. CASE reply.event \in Events
    <3>1. \A e \in Events : e = reply.event => EventOK(e)'
      BY <1>1, <2>1
    <3>2. \A e \in Events : e = reply'.event => EventOK(e)'
      BY <2>1, <3>1
    <3> QED
      BY <2>1, <2>2, <3>2
  <2>3. CASE reply.event = [kind |-> "none", at |-> 0]
    BY <2>1, <2>3 DEF EventOK
  <2> QED
    BY <1>0, <2>2, <2>3 DEF AgentTyped, Replies
<1> QED
  BY <1>3, <1>4 DEF EventsOK

LEMMA SendsRounds ==
  ASSUME AgentInv, NEW E, Sends(E)
  PROVE  RoundsOK'
<1>0. RoundsOK /\ EventsOK /\ AgentTyped /\ Grew(E)
  BY DEF AgentInv, Sends
<1> SUFFICES ASSUME Live PROVE RoundsOK'
  BY DEF RoundsOK, Live, Sends
<1>1. UNCHANGED agent /\ agent.seen \subseteq A!Rounds
  BY <1>0 DEF Sends, AgentTyped, Agents
<1>2. ASSUME NEW r \in A!Rounds, resp'[r].kind # "none" PROVE r \in agent.seen \/ Waits("model_end", r)'
  BY <1>0, <1>2, WaitsOn DEF Sends, RoundsOK
<1>3. ASSUME NEW r \in agent.seen PROVE resp'[r].kind # "none" /\ (resp'[r].kind = "bad" => agent.error)
  BY <1>0, <1>1 DEF Sends, RoundsOK
<1>4. ASSUME NEW i \in DOMAIN events', events'[i].kind = "model_end"
      PROVE  /\ \A r \in agent.seen : r < events'[i].at
             /\ \A k \in DOMAIN events' : k < i /\ events'[k].kind = "model_end" =>
                  events'[k].at < events'[i].at
  <2>1. CASE i \in DOMAIN events
    <3>1. \A k \in DOMAIN events' : k < i => k \in DOMAIN events
      BY <1>0, <2>1 DEF Grew
    <3> QED
      BY <1>0, <1>4, <2>1, <3>1 DEF Grew, RoundsOK
  <2>2. CASE i \notin DOMAIN events
    <3>1. events'[i] \in E /\ \A r \in A!Rounds : resp[r].kind # "none" => r < events'[i].at
      BY <1>0, <1>4, <2>2 DEF Grew, Sends
    <3>2. \A r \in agent.seen : r < events'[i].at
      BY <1>0, <1>1, <3>1 DEF RoundsOK
    <3>3. ASSUME NEW k \in DOMAIN events', k < i, events'[k].kind = "model_end"
          PROVE events'[k].at < events'[i].at
      <4>1. CASE k \in DOMAIN events
        <5>1. events'[k] = events[k] /\ events[k] \in Events /\ EventOK(events[k])
          BY <1>0, <4>1 DEF Grew, EventsOK, AgentTyped
        <5>2. events[k].at \in A!Rounds /\ resp[events[k].at].kind # "none"
          BY <3>3, <5>1 DEF EventOK, Events
        <5> QED
          BY <3>1, <5>1, <5>2
      <4>2. CASE k \notin DOMAIN events
        <5>1. events'[k] \in E
          BY <1>0, <4>2 DEF Grew
        <5>2. events'[k] = events'[i]
          BY <1>4, <3>1, <3>3, <5>1 DEF Sends
        <5>3. k = i
          BY <1>0, <2>2, <4>2, <5>2 DEF Grew
        <5>4. k \in Nat
          BY <1>0 DEF Grew
        <5> QED
          BY <3>3, <5>3, <5>4
      <4> QED
        BY <4>1, <4>2
    <3> QED
      BY <3>2, <3>3
  <2> QED
    BY <2>1, <2>2
<1> QED
  BY <1>1, <1>2, <1>3, <1>4 DEF RoundsOK

LEMMA SendsOrder ==
  ASSUME AgentInv, NEW E, Sends(E)
  PROVE  OrderOK'
<1>0. RoundsOK /\ OrderOK /\ EventsOK /\ AgentTyped /\ Grew(E)
  BY DEF AgentInv, Sends
<1> SUFFICES ASSUME Live, NEW i \in DOMAIN events'
             PROVE  /\ events'[i].kind \in {"not_dispatched", "tool_start", "tool_end"} =>
                         \/ events'[i].at[1] \in agent.seen
                         \/ \E k \in DOMAIN events' : k < i /\ events'[k].kind = "model_end" /\
                              events'[k].at = events'[i].at[1]
                    /\ events'[i].kind = "tool_start" /\ graph'.end # "tool" /\
                         tools'[events'[i].at].state = "done" =>
                         \E k \in DOMAIN events' : k > i /\ events'[k].kind = "tool_end" /\
                           events'[k].at = events'[i].at
  BY DEF OrderOK, Live, Sends
<1>1. CASE i \in DOMAIN events
  <2>1. events'[i] = events[i] /\ events[i] \in Events
    BY <1>0, <1>1 DEF Grew, AgentTyped
  <2>2. events[i].kind \in {"not_dispatched", "tool_start", "tool_end"} =>
              \/ events[i].at[1] \in agent.seen
              \/ \E k \in DOMAIN events' : k < i /\ events'[k].kind = "model_end" /\
                   events'[k].at = events[i].at[1]
    BY <1>0, <1>1 DEF OrderOK, Grew
  <2>3. ASSUME events[i].kind = "tool_start", graph'.end # "tool", tools'[events[i].at].state = "done"
        PROVE  \E k \in DOMAIN events' : k > i /\ events'[k].kind = "tool_end" /\
                 events'[k].at = events[i].at
    <3>1. events[i].at \in A!Calls /\ graph.end # "tool"
      BY <2>1, <2>3 DEF Events, Sends
    <3>2. CASE tools[events[i].at].state = "done"
      BY <1>0, <1>1, <2>3, <3>1, <3>2 DEF OrderOK, Grew
    <3>3. CASE tools[events[i].at].state # "done"
      <4>1. PICK e \in E : e.kind = "tool_end" /\ e.at = events[i].at
        BY <2>3, <3>1, <3>3 DEF Sends
      <4>2. PICK k \in DOMAIN events' \ DOMAIN events : events'[k] = e
        BY <1>0 DEF Grew
      <4>3. i < k /\ i \in Nat /\ k \in Nat
        BY <1>0, <1>1 DEF Grew
      <4> QED
        BY <4>1, <4>2, <4>3
    <3> QED
      BY <3>2, <3>3
  <2> QED
    BY <2>1, <2>2, <2>3
<1>2. CASE i \notin DOMAIN events
  <2>1. events'[i] \in E /\ events'[i] \in Events /\ \A k \in DOMAIN events : k < i
    BY <1>0, <1>2 DEF Grew
  <2>2. ASSUME events'[i].kind \in {"not_dispatched", "tool_start", "tool_end"}
        PROVE  \/ events'[i].at[1] \in agent.seen
               \/ \E k \in DOMAIN events' : k < i /\ events'[k].kind = "model_end" /\
                    events'[k].at = events'[i].at[1]
    <3>1. events'[i].at \in A!Calls /\ events'[i].at[1] \in A!Rounds
      BY <2>1, <2>2 DEF Events, A!Calls
    <3>2. resp[events'[i].at[1]].kind # "none"
      BY <2>1, <2>2 DEF Sends
    <3>3. events'[i].at[1] \in agent.seen \/ \E k \in DOMAIN events : events[k].kind = "model_end" /\
            events[k].at = events'[i].at[1]
      BY <1>0, <3>1, <3>2 DEF RoundsOK, Waits
    <3> QED
      BY <1>0, <2>1, <3>3 DEF Grew
  <2>3. events'[i].kind = "tool_start" => tools'[events'[i].at].state = "running"
    BY <2>1 DEF Sends
  <2> QED
    BY <2>2, <2>3
<1> QED
  BY <1>1, <1>2

LEMMA SendsPairs ==
  ASSUME AgentInv, NEW E, Sends(E)
  PROVE  PairsOK'
<1>0. RoundsOK /\ PairsOK /\ EventsOK /\ CallsOK /\ AgentTyped /\ Grew(E)
  BY DEF AgentInv, Sends
<1> SUFFICES ASSUME Live PROVE PairsOK'
  BY DEF PairsOK, Live, Sends
<1>1. UNCHANGED <<agent, reply, blocks>> /\ (graph'.end # "tool" => graph.end # "tool")
  BY DEF Sends
<1>2. \A kind, at : Waits(kind, at) => Waits(kind, at)'
  BY <1>0, WaitsOn
<1>3. \A e \in E : Waits(e.kind, e.at)'
  BY <1>0, WaitsOn
<1>4. \A c \in A!Calls : Closes(c) => Closes(c)'
  BY <1>2 DEF Closes
<1>5. ASSUME graph'.end # "tool", NEW c \in A!Calls, IsAnswered(c)'
      PROVE  /\ Closes(c)' \/ (\E kind \in Closing : Held(kind, c)') \/ blocks'[c].status \in A!Final
             /\ c \in agent.pending \/ c[1] \notin agent.seen => Closes(c)'
             /\ Held("tool_start", c)' => Waits("tool_end", c)'
  <2>1. CASE IsAnswered(c)
    <3>1. /\ Closes(c) \/ (\E kind \in Closing : Held(kind, c)) \/ blocks[c].status \in A!Final
          /\ c \in agent.pending \/ c[1] \notin agent.seen => Closes(c)
          /\ Held("tool_start", c) => Waits("tool_end", c)
      BY <1>0, <1>1, <1>5, <2>1 DEF PairsOK
    <3>2. \A kind : Held(kind, c)' <=> Held(kind, c)
      BY <1>1 DEF Held
    <3> QED
      BY <1>1, <1>2, <1>4, <3>1, <3>2
  <2>2. CASE ~IsAnswered(c)
    <3>1. tools'[c].state \in {"done", "refused"} /\ tools[c].state \notin {"done", "refused"}
      BY <1>5, <2>2 DEF IsAnswered
    <3>2. CASE tools'[c].state = "done"
      <4>1. PICK e \in E : e.kind = "tool_end" /\ e.at = c
        BY <1>5, <3>1, <3>2 DEF Sends
      <4>2. Waits("tool_end", c)'
        BY <1>3, <4>1
      <4> QED
        BY <4>2 DEF Closes, Closing
    <3>3. CASE tools'[c].state = "refused"
      <4>1. PICK e \in E : e.kind = "not_dispatched" /\ e.at = c
        BY <1>5, <3>1, <3>3 DEF Sends
      <4>2. Waits("not_dispatched", c)'
        BY <1>3, <4>1
      <4>3. ~Held("tool_start", c)'
        <5>1. tools[c].state = "proposed"
          BY <3>1, <3>3 DEF Sends
        <5> QED
          BY <1>0, <1>1, <5>1 DEF Held, EventsOK, EventOK
      <4> QED
        BY <4>2, <4>3 DEF Closes, Closing
    <3> QED
      BY <3>1, <3>2, <3>3
  <2> QED
    BY <2>1, <2>2
<1>6. ASSUME NEW c \in A!Calls, c[1] \in agent.seen, c \in resp'[c[1]].calls, c \notin agent.pending
      PROVE  IsAnswered(c)'
  <2>1. resp'[c[1]] = resp[c[1]]
    BY <1>0, <1>6 DEF RoundsOK, Sends, AgentTyped, Agents
  <2>2. IsAnswered(c)
    BY <1>0, <1>6, <2>1 DEF PairsOK
  <2> QED
    BY <2>2 DEF IsAnswered, Sends
<1>7. \A c \in reply.open : c \in agent.started \/ Held("tool_end", c)'
  BY <1>0, <1>1 DEF PairsOK, Held
<1>8. ASSUME graph'.end # "tool", NEW c \in A!Calls, tools'[c].state = "running"
      PROVE  c \in reply.open \/ Waits("tool_start", c)'
  <2>1. CASE tools[c].state = "running"
    BY <1>0, <1>1, <1>2, <1>8, <2>1 DEF PairsOK
  <2>2. CASE tools[c].state # "running"
    <3>1. PICK e \in E : e.kind = "tool_start" /\ e.at = c
      BY <1>8, <2>2 DEF Sends
    <3> QED
      BY <1>3, <3>1
  <2> QED
    BY <2>1, <2>2
<1>9. ASSUME graph'.end = "tool"
      PROVE  \E c \in A!Calls : tools'[c].state = "raised" /\ (c \in reply.open \/ Waits("tool_start", c)')
  <2>1. CASE graph.end = "tool"
    <3>1. PICK c \in A!Calls : tools[c].state = "raised" /\ (c \in reply.open \/ Waits("tool_start", c))
      BY <1>0, <2>1 DEF PairsOK
    <3>2. tools'[c].state = "raised"
      BY <3>1 DEF Sends
    <3> QED
      BY <1>2, <3>1, <3>2
  <2>2. CASE graph.end # "tool"
    <3>1. PICK c \in A!Calls : tools[c].state = "running" /\ tools'[c].state = "raised"
      BY <1>9, <2>2 DEF Sends
    <3>2. c \in reply.open \/ Waits("tool_start", c)
      BY <1>0, <2>2, <3>1 DEF PairsOK
    <3> QED
      BY <1>2, <3>1, <3>2
  <2> QED
    BY <2>1, <2>2
<1>10. reply.outcome = "none" /\ graph'.end # "cancelled"
  BY <1>0 DEF PairsOK, Sends
<1> QED
  BY <1>1, <1>5, <1>6, <1>7, <1>8, <1>9, <1>10 DEF PairsOK

LEMMA SendsParts ==
  ASSUME AgentInv, NEW E, Sends(E)
  PROVE  PartsOK'
<1>0. PartsOK /\ CallsOK /\ AgentTyped /\ UNCHANGED <<agent, reply, blocks>>
  BY DEF AgentInv, Sends
<1>1. ASSUME NEW c \in A!Calls
      PROVE  /\ blocks'[c].status \in {"ended", "cut"} /\ tools'[c].applied = "yes" => blocks'[c].applied
             /\ blocks'[c].status = "ended" => tools'[c].state = "done"
             /\ blocks'[c].status = "not_executed" => \/ tools'[c].state = "refused"
                                                      \/ tools'[c].state = "none" /\ graph'.pc = "closed"
             /\ blocks'[c].status = "cut" => reply'.pc \in {"pending", "finalize", "over"}
  <2>1. /\ blocks[c].status \in {"ended", "cut"} /\ tools[c].applied = "yes" => blocks[c].applied
        /\ blocks[c].status = "ended" => tools[c].state = "done"
        /\ blocks[c].status = "not_executed" => \/ tools[c].state = "refused"
                                                \/ tools[c].state = "none" /\ graph.pc = "closed"
        /\ blocks[c].status = "cut" => reply.pc \in {"pending", "finalize", "over"}
    BY <1>0 DEF PartsOK
  <2>2. tools'[c].applied = "yes" /\ tools[c].applied # "yes" => tools[c].state = "running" /\
          blocks[c].status # "cut"
    BY DEF Sends
  <2>3. /\ tools[c].state \in {"refused", "done"} => tools'[c].state = tools[c].state
        /\ graph.pc = "closed" /\ tools[c].state = "none" => tools'[c].state = "none" /\
             graph'.pc = "closed"
    BY DEF Sends
  <2> QED
    BY <1>0, <2>1, <2>2, <2>3
<1>2. ASSUME reply.pc \in {"tell", "finalize", "over"} PROVE Told'
  <2> SUFFICES ASSUME NEW c \in A!Calls, tools'[c].applied = "yes" PROVE blocks[c].applied
    BY <1>0 DEF Told
  <2>1. CASE tools[c].applied = "yes"
    BY <1>0, <1>2, <2>1 DEF PartsOK, Told
  <2>2. CASE tools[c].applied # "yes"
    <3>1. tools[c].state = "running" /\ reply.pc = "tell"
      BY <1>2, <2>2 DEF Sends
    <3> QED
      BY <1>0, <3>1 DEF PartsOK, CallsOK
  <2> QED
    BY <2>1, <2>2
<1>3. reply.pc = "tell" => /\ graph'.pc = "closed" /\ graph'.end # "tool" /\ reply.outcome = "graph_budget"
                           /\ \A c \in agent.blocked : tools'[c].state = "none"
  BY <1>0 DEF PartsOK, Sends, AgentTyped, Agents
<1> QED
  BY <1>0, <1>1, <1>2, <1>3 DEF PartsOK

LEMMA SendsEnd ==
  ASSUME AgentInv, NEW E, Sends(E)
  PROVE  EndOK'
<1>0. EndOK /\ AgentTyped /\ UNCHANGED <<agent, reply, blocks>>
  BY DEF AgentInv, Sends
<1> SUFFICES ASSUME reply.outcome \in {"completed", "decision_budget"}
             PROVE  /\ reply.pc \in {"pending", "finalize", "over"} /\ graph'.pc = "closed"
                    /\ reply.open = {} /\ Settled'
  BY <1>0 DEF EndOK
<1>1. graph.pc = "closed" /\ UNCHANGED <<graph, resp>> /\ Settled
  BY <1>0 DEF EndOK, Sends
<1>2. A!Proposed' = A!Proposed /\ A!Proposed \subseteq A!Calls
  BY <1>0, <1>1 DEF A!Proposed, AgentTyped
<1>3. \A c \in A!Calls : tools[c].state \in {"done", "refused"} => tools'[c].state = tools[c].state
  BY DEF Sends
<1>4. Settled'
  BY <1>0, <1>1, <1>2, <1>3 DEF Settled
<1> QED
  BY <1>0, <1>1, <1>4 DEF EndOK

LEMMA GraphSends ==
  ASSUME AgentInv, NEW E, Sends(E), AgentTyped', GraphOK', CallsOK'
  PROVE  AgentInv'
BY SendsEvents, SendsRounds, SendsOrder, SendsPairs, SendsParts, SendsEnd DEF AgentInv

-----------------------------------------------------------------------------

Ends == {"budget", "context", "silent", "provider", "invalid", "tool", "text", "recursion", "cancelled"}

GraphPlaces == {"prompt", "waiting", "compacting", "decide", "model", "tools"}

\* Where the graph goes when it touches no call.
LEMMA GraphTo ==
  ASSUME graph \in Graphs
  PROVE  /\ \A at \in GraphPlaces : A!GraphGoes(at) => graph' \in Graphs /\ graph'.pc = at /\
              graph'.round = graph.round /\ graph'.end = graph.end
         /\ \A why \in Ends : A!GraphEnds(why) => graph' \in Graphs /\ graph'.pc = "closed" /\
              graph'.round = graph.round /\ graph'.end = why
BY DEF A!GraphGoes, A!GraphEnds, Graphs, GraphPlaces, Ends

LEMMA GraphMoves ==
  ASSUME AgentInv, UNCHANGED <<resp, tools, agent, reply, blocks>>,
         graph' \in Graphs, graph'.round = graph.round,
         graph.pc # "closed", graph'.pc # "model",
         graph.pc = "model" => graph'.end = "provider",
         graph.pc = "tools" => A!In("proposed") = {} /\ A!In("running") = {},
         graph'.end \in {"none", "budget", "context", "silent", "provider"},
         graph'.pc # "closed" <=> graph'.end = "none",
         graph'.pc # "tools",
         graph'.pc \in {"waiting", "compacting", "decide"} => graph.round < Decisions,
         UNCHANGED events
  PROVE  AgentInv'
<1>0. AgentTyped /\ GraphOK /\ CallsOK /\ graph.end = "none"
  BY DEF AgentInv, GraphOK
<1>1. AgentTyped'
  BY <1>0 DEF AgentTyped
<1>2. GraphOK'
  BY <1>0 DEF GraphOK
<1>3. CallsOK'
  <2>1. \A c \in A!Calls : tools[c].state \notin {"proposed", "running"}
    BY <1>0 DEF CallsOK, A!In
  <2> QED
    BY <1>0, <2>1 DEF CallsOK
<1>4. Sends({})
  BY <1>0, GrowsByNone DEF Sends, AgentTyped
<1> QED
  BY <1>1, <1>2, <1>3, <1>4, GraphSends

LEMMA PlainGraph ==
  ASSUME AgentInv, A!Prompt \/ A!WaitResults \/ A!WaitTimesOut \/ A!Compacted \/ A!ToolsDone
  PROVE  AgentInv'
<1>0. graph \in Graphs /\ GraphOK /\ AgentTyped
  BY DEF AgentInv, AgentTyped
<1>1. UNCHANGED <<resp, tools, events, agent, reply, blocks>> /\ graph.pc \notin {"closed", "model"}
  BY DEF A!Prompt, A!WaitResults, A!WaitTimesOut, A!Compacted, A!ToolsDone
<1>2. \/ A!GraphEnds("budget") /\ graph.pc # "tools"
      \/ A!GraphEnds("context") /\ graph.pc # "tools"
      \/ A!GraphGoes("decide") /\ graph.round < Decisions /\ graph.pc # "tools"
      \/ A!GraphGoes("waiting") /\ graph.round < Decisions /\ graph.pc # "tools"
      \/ A!GraphGoes("compacting") /\ graph.round < Decisions /\ graph.pc # "tools"
      \/ A!GraphGoes("prompt") /\ A!In("proposed") = {} /\ A!In("running") = {}
  BY <1>0, AgentAssumption DEF A!Prompt, A!WaitResults, A!WaitTimesOut, A!Compacted, A!ToolsDone,
       GraphOK, Graphs
<1>3. graph.end = "none"
  BY <1>0, <1>1 DEF GraphOK
<1>4. /\ graph' \in Graphs /\ graph'.round = graph.round
      /\ graph'.pc \in {"closed", "decide", "waiting", "compacting", "prompt"}
      /\ graph'.end \in {"none", "budget", "context"}
      /\ (graph'.pc # "closed" <=> graph'.end = "none")
      /\ graph'.pc \in {"waiting", "compacting", "decide"} => graph.round < Decisions
  BY <1>0, <1>2, <1>3, GraphTo DEF GraphPlaces, Ends
<1>5. graph.pc = "tools" => A!In("proposed") = {} /\ A!In("running") = {}
  BY <1>2
<1> QED
  BY <1>1, <1>4, <1>5, GraphMoves

LEMMA DecideKeeps ==
  ASSUME AgentInv, A!Decide
  PROVE  AgentInv'
<1>0. /\ AgentTyped /\ graph \in Graphs /\ GraphOK /\ CallsOK /\ graph.pc = "decide" /\ graph.end = "none"
      /\ UNCHANGED <<resp, tools, agent, reply, blocks>>
  BY DEF AgentInv, AgentTyped, A!Decide, GraphOK
<1>1. CASE (A!GraphEnds("silent") \/ A!GraphEnds("budget")) /\ UNCHANGED events
  <2>1. graph' \in Graphs /\ graph'.round = graph.round /\ graph'.pc = "closed" /\
          graph'.end \in {"silent", "budget"}
    BY <1>0, <1>1, GraphTo DEF Ends
  <2> QED
    BY <1>0, <1>1, <2>1, GraphMoves
<1>2. CASE /\ graph' = [graph EXCEPT !.pc = "model", !.round = @ + 1,
                                     !.remaining = graph.steps - (2 * graph.round + 1)]
           /\ events' = A!Event("model_start", graph.round + 1)
  <2> DEFINE n == graph.round + 1
             e == [kind |-> "model_start", at |-> n]
             left1 == graph.steps - (2 * graph.round + 1)
  <2>1. n \in A!Rounds /\ n \in 0..Decisions /\ left1 \in Int
    BY <1>0, AgentAssumption DEF GraphOK, Graphs, A!Rounds
  <2>2. graph' = [graph EXCEPT !.pc = "model", !.round = n, !.remaining = left1]
    BY <1>2
  <2>3. e \in Events /\ events' = Append(events, e) /\ e.kind = "model_start"
    BY <1>2, <2>1 DEF Events, A!Event
  <2>4. n > graph.round /\ n > 0 /\ graph.round \in Nat
    BY <1>0 DEF Graphs
  <2> HIDE DEF n, e, left1
  <2>5. graph' \in Graphs /\ graph'.round = n /\ graph'.pc = "model" /\ graph'.end = "none"
    BY <1>0, <2>1, <2>2 DEF Graphs
  <2>6. Grew({e})
    BY <1>0, <2>3, GrowsByOne DEF AgentTyped
  <2>7. AgentTyped'
    BY <1>0, <2>5, <2>6 DEF AgentTyped, Grew
  <2>8. GraphOK'
    <3>1. \A r \in A!Rounds : resp[r].kind # "none" => r <= graph.round /\ r \in Nat
      BY <1>0, AgentAssumption DEF GraphOK, A!Rounds
    <3>2. resp[n].kind = "none"
      BY <2>1, <2>4, <3>1
    <3>3. \A r \in A!Rounds : /\ resp[r].kind # "none" => r <= n
                              /\ resp[r].kind # "bad"
      BY <1>0, <2>1, <2>4, <3>1 DEF GraphOK, A!Rounds
    <3>4. \A r \in A!Rounds : /\ resp[r].kind = "none" => resp[r].calls = {}
                              /\ \A c \in resp[r].calls : c[1] = r
      BY <1>0 DEF GraphOK
    <3> QED
      BY <1>0, <2>4, <2>5, <3>2, <3>3, <3>4 DEF GraphOK
  <2>9. CallsOK'
    BY <1>0, <2>5 DEF CallsOK
  <2>10. Sends({e})
    BY <1>0, <2>3, <2>5, <2>6 DEF Sends, EventOK
  <2> QED
    BY <2>7, <2>8, <2>9, <2>10, GraphSends
<1> QED
  BY <1>1, <1>2 DEF A!Decide

LEMMA ModelKeeps ==
  ASSUME AgentInv, A!Model
  PROVE  AgentInv'
<1>0. /\ AgentTyped /\ graph \in Graphs /\ GraphOK /\ CallsOK /\ graph.pc = "model" /\ graph.end = "none"
      /\ UNCHANGED <<agent, reply, blocks>> /\ graph.round \in A!Rounds /\ resp[graph.round].kind = "none"
      /\ events \in Seq(Events)
  BY AgentAssumption DEF AgentInv, AgentTyped, A!Model, GraphOK, Graphs, A!Rounds
<1>1. CASE A!GraphEnds("provider") /\ UNCHANGED <<resp, tools, events>>
  <2>1. graph' \in Graphs /\ graph'.round = graph.round /\ graph'.pc = "closed" /\ graph'.end = "provider"
    BY <1>0, <1>1, GraphTo DEF Ends
  <2> QED
    BY <1>0, <1>1, <2>1, GraphMoves
<1>2. ASSUME NEW kind \in {"good", "bad"}, NEW n \in 0..Width,
             resp' = [resp EXCEPT ![graph.round] = [kind |-> kind,
               calls |-> {<<graph.round, k>> : k \in 1..n}]],
             IF n = 0 \/ A!Blocked
             THEN A!Completes /\ UNCHANGED tools
             ELSE /\ events' = A!Event("model_end", graph.round)
                  /\ IF kind = "bad"
                     THEN A!GraphEnds("invalid") /\ UNCHANGED tools
                     ELSE /\ A!GraphGoes("tools")
                          /\ tools' = [c \in A!Calls |-> IF c \in {<<graph.round, k>> : k \in 1..n}
                                                         THEN [tools[c] EXCEPT !.state = "proposed"]
                                                         ELSE tools[c]]
      PROVE  AgentInv'
  <2> DEFINE at == graph.round
             proposed == {<<at, k>> : k \in 1..n}
             e == [kind |-> "model_end", at |-> at]
             f == [kind |-> "chain_end", at |-> at]
  <2>1. proposed \subseteq A!Calls /\ \A c \in proposed : c[1] = at
    BY <1>0, AgentAssumption DEF A!Calls
  <2>2. /\ e \in Events /\ f \in Events /\ e # f /\ e.kind = "model_end" /\ e.at = at
        /\ f.kind = "chain_end" /\ f.at = at
    BY <1>0 DEF Events
  <2>3. /\ resp' \in [A!Rounds -> [kind : {"none", "good", "bad"}, calls : SUBSET A!Calls]]
        /\ resp'[at].kind = kind /\ resp'[at].calls = proposed
        /\ \A r \in A!Rounds : r # at => resp'[r] = resp[r]
    <3> DEFINE p == [kind |-> kind, calls |-> proposed]
    <3>1. p \in [kind : {"none", "good", "bad"}, calls : SUBSET A!Calls] /\ p.kind = kind /\
            p.calls = proposed
      BY <2>1
    <3>2. resp' = [resp EXCEPT ![at] = p]
      BY <1>2
    <3> HIDE DEF p, proposed
    <3> QED
      BY <1>0, <3>1, <3>2 DEF AgentTyped
  <2>4. /\ graph' \in Graphs /\ graph'.round = at
        /\ \/ graph'.pc = "tools" /\ graph'.end = "none" /\ kind = "good"
           \/ graph'.pc = "closed" /\ graph'.end \in {"recursion", "text", "invalid"} /\ UNCHANGED tools
        /\ tools' = tools \/ (graph'.pc = "tools" /\
              tools' = [c \in A!Calls |-> IF c \in proposed THEN [tools[c] EXCEPT !.state = "proposed"] ELSE tools[c]])
    <3>1. \/ (A!GraphEnds("recursion") \/ A!GraphEnds("text") \/ A!GraphEnds("invalid")) /\ UNCHANGED tools
          \/ /\ A!GraphGoes("tools") /\ kind = "good"
             /\ tools' = [c \in A!Calls |-> IF c \in proposed THEN [tools[c] EXCEPT !.state = "proposed"] ELSE tools[c]]
      BY <1>2 DEF A!Completes
    <3> HIDE DEF proposed, e, f
    <3> QED
      BY <1>0, <3>1, GraphTo DEF Ends, GraphPlaces
  <2>5. PICK E : Grew(E) /\ e \in E /\ E \subseteq {e, f}
    <3>1. CASE events' = Append(events, e)
      BY <1>0, <2>2, <3>1, GrowsByOne
    <3>2. CASE events' = Append(events, e) \o <<f>>
      BY <1>0, <2>2, <3>2, GrowsByTwo
    <3>3. events' = Append(events, e) \/ events' = Append(events, e) \o <<f>>
      BY <1>2 DEF A!Completes, A!Event
    <3> QED
      BY <3>1, <3>2, <3>3
  <2> HIDE DEF at, proposed, e, f
  <2>6. \A r \in A!Rounds : resp[r].kind # "none" => r < at
    BY <1>0, AgentAssumption DEF GraphOK, A!Rounds, at
  <2>7. \A c \in A!Calls : tools[c].state = "none" \/ c \notin proposed
    <3>1. \A c \in proposed : c \notin resp[c[1]].calls
      BY <1>0, <2>1 DEF GraphOK, at
    <3> QED
      BY <1>0, <2>1, <3>1 DEF CallsOK
  <2>8. /\ \A c \in A!Calls : /\ tools'[c].applied = tools[c].applied
                              /\ \/ tools'[c].state = tools[c].state
                                 \/ tools'[c].state = "proposed" /\ c \in proposed /\ graph'.pc = "tools"
        /\ tools' \in [A!Calls -> CallRecords]
    <3>1. CASE tools' = tools
      BY <1>0, <3>1 DEF AgentTyped
    <3>2. CASE graph'.pc = "tools" /\
               tools' = [c \in A!Calls |-> IF c \in proposed THEN [tools[c] EXCEPT !.state = "proposed"] ELSE tools[c]]
      <4>1. \A c \in A!Calls : LET q == [tools[c] EXCEPT !.state = "proposed"] IN
              q \in CallRecords /\ q.state = "proposed" /\ q.applied = tools[c].applied
        BY <1>0 DEF AgentTyped, CallRecords
      <4>2. \A c \in A!Calls : tools[c] \in CallRecords
        BY <1>0 DEF AgentTyped
      <4> QED
        BY <3>2, <4>1, <4>2
    <3> QED
      BY <2>4, <3>1, <3>2
  <2>9. AgentTyped'
    BY <1>0, <2>3, <2>4, <2>5, <2>8 DEF AgentTyped, Grew
  <2>10. GraphOK'
    <3>1. \A r \in A!Rounds : /\ resp'[r].kind # "none" => r <= at
                              /\ resp'[r].kind = "none" => resp'[r].calls = {}
                              /\ \A c \in resp'[r].calls : c[1] = r
                              /\ r # at => resp'[r].kind # "bad"
      BY <1>0, <2>1, <2>3, AgentAssumption DEF GraphOK, A!Rounds, at
    <3>2. kind = "bad" => graph'.pc = "closed"
      BY <2>4
    <3>3. at \in Nat
      BY <1>0 DEF A!Rounds, at
    <3> QED
      BY <1>2, <2>3, <2>4, <3>1, <3>2, <3>3 DEF GraphOK
  <2>11. CallsOK'
    <3> SUFFICES ASSUME NEW c \in A!Calls
                 PROVE  /\ tools'[c].state # "none" => c \in resp'[c[1]].calls
                        /\ tools'[c].state \in {"none", "proposed", "refused"} => tools'[c].applied = "no"
                        /\ graph'.pc # "tools" /\ graph'.end # "tool" =>
                             tools'[c].state \notin {"proposed", "running"}
                        /\ tools'[c].state = "raised" => graph'.end = "tool"
                        /\ tools'[c].state = "killed" => reply'.pc \in {"pending", "finalize", "over"}
      BY DEF CallsOK
    <3>1. /\ tools[c].state # "none" => c \in resp[c[1]].calls
          /\ tools[c].state \in {"none", "proposed", "refused"} => tools[c].applied = "no"
          /\ tools[c].state \notin {"proposed", "running", "raised"}
          /\ tools[c].state = "killed" => reply.pc \in {"pending", "finalize", "over"}
      BY <1>0 DEF CallsOK
    <3>2. c[1] \in A!Rounds
      BY DEF A!Calls
    <3>3. tools[c].state # "none" => c \in resp'[c[1]].calls
      BY <1>0, <2>3, <3>1, <3>2 DEF GraphOK, at
    <3>4. c \in proposed => c \in resp'[c[1]].calls
      BY <2>1, <2>3
    <3> QED
      BY <1>0, <2>4, <2>7, <2>8, <3>1, <3>3, <3>4
  <2>12. Sends(E)
    <3>1. \A g \in E : EventOK(g)'
      BY <1>2, <2>2, <2>3, <2>5 DEF EventOK
    <3>2. \A r \in A!Rounds : /\ resp[r].kind # "none" => resp'[r] = resp[r]
                              /\ resp'[r].kind # "none" /\ resp[r].kind = "none" =>
                                   \E g \in E : g.kind = "model_end" /\ g.at = r
      BY <1>0, <2>2, <2>3, <2>5 DEF at
    <3>3. \A c \in A!Calls : tools'[c].state = tools[c].state \/
            (tools'[c].state = "proposed" /\ tools[c].state = "none" /\ graph.pc # "closed")
      BY <1>0, <2>7, <2>8
    <3>4. graph'.end # "tool" /\ graph.end # "tool" /\ graph.pc # "closed" /\ graph'.end # "cancelled"
      BY <1>0, <2>4
    <3>5. \A g \in E : g = e \/ g = f
      BY <2>5
    <3> QED
      BY <1>0, <2>2, <2>5, <2>6, <2>8, <3>1, <3>2, <3>3, <3>4, <3>5 DEF Sends
  <2> QED
    BY <2>9, <2>10, <2>11, <2>12, GraphSends
<1> QED
  BY <1>1, <1>2 DEF A!Model

\* A step of one call, which has its event sent while the graph waits for its tools.
LEMMA CallKeeps ==
  ASSUME AgentInv, NEW c \in A!Calls, UNCHANGED <<resp, agent, reply, blocks>>,
         NEW state \in {"running", "done", "refused", "raised"}, NEW applied \in {"no", "yes", "late"},
         NEW q \in CallRecords, q.state = state, q.applied = applied, tools' = [tools EXCEPT ![c] = q],
         graph.pc = "tools" \/ graph.end = "tool",
         \/ state = "running" /\ tools[c].state \in {"proposed", "running"}
         \/ state \in {"done", "raised"} /\ tools[c].state = "running"
         \/ state = "refused" /\ tools[c].state = "proposed",
         \/ applied = tools[c].applied
         \/ /\ tools[c].state = "running" /\ state = "running"
            /\ applied = "yes" => blocks[c].status # "cut" /\ reply.pc \notin {"finalize", "over"},
         IF state = "raised" /\ graph.pc = "tools" THEN A!GraphEnds("tool") ELSE UNCHANGED graph,
         IF graph.pc = "tools" /\ state # tools[c].state /\ state # "raised"
         THEN \E kind \in {"not_dispatched", "tool_start", "tool_end"} :
                /\ events' = A!Event(kind, c)
                /\ \/ kind = "not_dispatched" /\ state = "refused"
                   \/ kind = "tool_start" /\ state = "running"
                   \/ kind = "tool_end" /\ state = "done"
         ELSE UNCHANGED events
  PROVE  AgentInv'
<1>0. /\ AgentTyped /\ graph \in Graphs /\ GraphOK /\ CallsOK /\ events \in Seq(Events)
      /\ tools[c].state # "none" /\ c \in resp[c[1]].calls /\ c[1] \in A!Rounds
  BY DEF AgentInv, AgentTyped, CallsOK, A!Calls
<1>1. /\ tools' \in [A!Calls -> CallRecords]
      /\ tools'[c].state = state /\ tools'[c].applied = applied
      /\ \A d \in A!Calls : d # c => tools'[d] = tools[d]
  BY <1>0 DEF AgentTyped
<1>2. /\ graph' \in Graphs /\ graph'.round = graph.round
      /\ \/ graph' = graph /\ (state # "raised" \/ graph.end = "tool")
         \/ graph.pc = "tools" /\ graph.end = "none" /\ graph'.pc = "closed" /\ graph'.end = "tool" /\
              state = "raised"
  BY <1>0, GraphTo DEF Ends, GraphOK
<1> DEFINE Emits(E) ==
             /\ Grew(E)
             /\ \A e \in E : \/ e.kind = "not_dispatched" /\ e.at = c /\ state = "refused"
                             \/ e.kind = "tool_start" /\ e.at = c /\ state = "running"
                             \/ e.kind = "tool_end" /\ e.at = c /\ state = "done"
             /\ graph.pc = "tools" /\ state # tools[c].state /\ state # "raised" =>
                  \E e \in E : /\ e.at = c
                               /\ state = "refused" => e.kind = "not_dispatched"
                               /\ state = "running" => e.kind = "tool_start"
                               /\ state = "done" => e.kind = "tool_end"
<1>3. PICK E : Emits(E)
  <2>1. CASE UNCHANGED events /\ ~(graph.pc = "tools" /\ state # tools[c].state /\ state # "raised")
    <3>1. Grew({})
      BY <1>0, <2>1, GrowsByNone
    <3>2. Emits({})
      BY <2>1, <3>1
    <3> HIDE DEF Emits
    <3> QED
      BY <3>2
  <2>2. CASE /\ graph.pc = "tools" /\ state # tools[c].state /\ state # "raised"
             /\ \E kind \in {"not_dispatched", "tool_start", "tool_end"} :
                  /\ events' = A!Event(kind, c)
                  /\ \/ kind = "not_dispatched" /\ state = "refused"
                     \/ kind = "tool_start" /\ state = "running"
                     \/ kind = "tool_end" /\ state = "done"
    <3>0. PICK kind \in {"not_dispatched", "tool_start", "tool_end"} :
                  /\ events' = A!Event(kind, c)
                  /\ \/ kind = "not_dispatched" /\ state = "refused"
                     \/ kind = "tool_start" /\ state = "running"
                     \/ kind = "tool_end" /\ state = "done"
      BY <2>2
    <3> DEFINE e == [kind |-> kind, at |-> c]
    <3>1. e \in Events /\ e.kind = kind /\ e.at = c /\ events' = Append(events, e)
      BY <3>0 DEF Events, A!Event
    <3> HIDE DEF e
    <3>2. Grew({e})
      BY <1>0, <3>1, GrowsByOne
    <3>3. Emits({e})
      BY <3>0, <3>1, <3>2
    <3> HIDE DEF Emits
    <3> QED
      BY <3>3
  <2> HIDE DEF Emits
  <2> QED
    BY <2>1, <2>2
<1>4. AgentTyped'
  BY <1>0, <1>1, <1>2, <1>3 DEF AgentTyped, Grew
<1>5. GraphOK'
  BY <1>0, <1>2 DEF GraphOK
<1>6. CallsOK'
  <2> SUFFICES ASSUME NEW d \in A!Calls
               PROVE  /\ tools'[d].state # "none" => d \in resp[d[1]].calls
                      /\ tools'[d].state \in {"none", "proposed", "refused"} => tools'[d].applied = "no"
                      /\ graph'.pc # "tools" /\ graph'.end # "tool" =>
                           tools'[d].state \notin {"proposed", "running"}
                      /\ tools'[d].state = "raised" => graph'.end = "tool"
                      /\ tools'[d].state = "killed" => reply.pc \in {"pending", "finalize", "over"}
    BY DEF CallsOK
  <2>1. CASE d = c
    BY <1>0, <1>1, <1>2, <2>1 DEF CallsOK
  <2>2. CASE d # c
    BY <1>0, <1>1, <1>2, <2>2 DEF CallsOK
  <2> QED
    BY <2>1, <2>2
<1>7. Sends(E)
  <2>1. \A e \in E : EventOK(e)'
    BY <1>1, <1>3 DEF EventOK
  <2>2. resp[c[1]].kind # "none"
    BY <1>0 DEF GraphOK
  <2>3. \A e \in E : /\ e.kind # "model_end" /\ (e.kind = "tool_start" => tools'[e.at].state = "running")
                     /\ resp[e.at[1]].kind # "none"
    BY <1>1, <1>3, <2>2
  <2>4. /\ graph.end = "tool" => graph'.end = "tool"
        /\ graph'.end = "cancelled" => graph.end = "cancelled"
        /\ graph.pc = "closed" => UNCHANGED <<graph, resp>>
        /\ graph.end # "tool" /\ graph'.end = "tool" =>
             \E d \in A!Calls : tools[d].state = "running" /\ tools'[d].state = "raised"
    BY <1>0, <1>1, <1>2
  <2>5. ASSUME NEW d \in A!Calls
        PROVE
          /\ tools[d].state \in {"refused", "done", "raised"} => tools'[d].state = tools[d].state
          /\ tools[d].state = "running" => tools'[d].state \in {"running", "done", "raised"}
          /\ graph.pc = "closed" /\ tools[d].state = "none" => tools'[d].state = "none"
          /\ graph'.end # "tool" =>
               /\ tools'[d].state = "done" /\ tools[d].state # "done" =>
                    \E e \in E : e.kind = "tool_end" /\ e.at = d
               /\ tools'[d].state = "refused" /\ tools[d].state # "refused" =>
                    \E e \in E : e.kind = "not_dispatched" /\ e.at = d
               /\ tools'[d].state = "running" /\ tools[d].state # "running" =>
                    \E e \in E : e.kind = "tool_start" /\ e.at = d
          /\ tools'[d].state = "refused" /\ tools[d].state # "refused" => tools[d].state = "proposed"
          /\ tools'[d].applied = "yes" /\ tools[d].applied # "yes" =>
               tools[d].state = "running" /\ blocks[d].status # "cut" /\
                 reply.pc \notin {"finalize", "over"}
    <3>1. CASE d = c
      <4>1. graph'.end # "tool" => graph.pc = "tools" /\ state # "raised"
        BY <1>2
      <4> QED
        BY <1>0, <1>1, <1>3, <3>1, <4>1
    <3>2. CASE d # c
      BY <1>1, <3>2
    <3> QED
      BY <3>1, <3>2
  <2> QED
    BY <1>3, <2>1, <2>3, <2>4, <2>5 DEF Sends
<1> QED
  BY <1>4, <1>5, <1>6, <1>7, GraphSends

LEMMA CallSteps ==
  ASSUME AgentInv, NEW c \in A!Calls,
         A!Refuse(c) \/ A!ToolStarts(c) \/ A!ToolCommits(c) \/ A!ToolEnds(c) \/ A!ToolRaises(c)
  PROVE  AgentInv'
<1>0. /\ tools \in [A!Calls -> CallRecords]
      /\ tools[c].applied \in {"no", "yes", "late"} /\ CallsOK
  BY DEF AgentInv, AgentTyped, CallRecords
<1>1. tools[c].state = "running" => graph.pc = "tools" \/ graph.end = "tool"
  BY <1>0 DEF CallsOK
<1>2. \A state \in {"running", "done", "refused", "raised"} :
        LET q == [tools[c] EXCEPT !.state = state] IN
        q \in CallRecords /\ q.state = state /\ q.applied = tools[c].applied
  BY <1>0 DEF CallRecords
<1>3. CASE A!Refuse(c)
  <2> DEFINE q == [tools[c] EXCEPT !.state = "refused"]
  <2>1. /\ tools' = [tools EXCEPT ![c] = q] /\ q \in CallRecords /\ q.state = "refused"
        /\ q.applied = tools[c].applied
    BY <1>2, <1>3 DEF A!Refuse
  <2> HIDE DEF q
  <2>2. /\ UNCHANGED <<graph, resp, agent, reply, blocks>> /\ tools[c].state = "proposed"
        /\ graph.pc = "tools" \/ graph.end = "tool"
        /\ IF graph.pc = "tools" THEN events' = A!Event("not_dispatched", c) ELSE UNCHANGED events
    BY <1>3 DEF A!Refuse, A!Gathered
  <2> QED
    BY <1>0, <2>1, <2>2, CallKeeps
<1>4. CASE A!ToolStarts(c)
  <2> DEFINE q == [tools[c] EXCEPT !.state = "running"]
  <2>1. /\ tools' = [tools EXCEPT ![c] = q] /\ q \in CallRecords /\ q.state = "running"
        /\ q.applied = tools[c].applied
    BY <1>2, <1>4 DEF A!ToolStarts
  <2> HIDE DEF q
  <2>2. /\ UNCHANGED <<graph, resp, agent, reply, blocks>> /\ tools[c].state = "proposed"
        /\ graph.pc = "tools" \/ graph.end = "tool"
        /\ IF graph.pc = "tools" THEN events' = A!Event("tool_start", c) ELSE UNCHANGED events
    BY <1>4 DEF A!ToolStarts, A!Gathered
  <2> QED
    BY <1>0, <2>1, <2>2, CallKeeps
<1>5. CASE A!ToolCommits(c)
  <2> DEFINE applied == IF reply.pc \in {"finalize", "over"} \/
        blocks[c].status = "cut" THEN "late" ELSE "yes"
  <2> DEFINE q == [tools[c] EXCEPT !.applied = applied]
  <2>1. tools' = [tools EXCEPT ![c] = q]
    BY <1>5 DEF A!ToolCommits
  <2>2. applied \in {"late", "yes"} /\
          (applied = "yes" => blocks[c].status # "cut" /\ reply.pc \notin {"finalize", "over"})
    OBVIOUS
  <2> HIDE DEF applied
  <2>3. q \in CallRecords /\ q.state = "running" /\ q.applied = applied
    BY <1>0, <1>5, <2>2 DEF CallRecords, A!ToolCommits
  <2> HIDE DEF q
  <2> QED
    BY <1>0, <1>1, <1>5, <2>1, <2>2, <2>3, CallKeeps DEF A!ToolCommits
<1>6. CASE A!ToolEnds(c)
  <2> DEFINE q == [tools[c] EXCEPT !.state = "done"]
  <2>1. /\ tools' = [tools EXCEPT ![c] = q] /\ q \in CallRecords /\ q.state = "done"
        /\ q.applied = tools[c].applied
    BY <1>2, <1>6 DEF A!ToolEnds
  <2> HIDE DEF q
  <2>2. /\ UNCHANGED <<graph, resp, agent, reply, blocks>> /\ tools[c].state = "running"
        /\ graph.pc = "tools" \/ graph.end = "tool"
        /\ IF graph.pc = "tools" THEN events' = A!Event("tool_end", c) ELSE UNCHANGED events
    BY <1>1, <1>6 DEF A!ToolEnds
  <2> QED
    BY <1>0, <2>1, <2>2, CallKeeps
<1>7. CASE A!ToolRaises(c)
  <2> DEFINE q == [tools[c] EXCEPT !.state = "raised"]
  <2>1. /\ tools' = [tools EXCEPT ![c] = q] /\ q \in CallRecords /\ q.state = "raised"
        /\ q.applied = tools[c].applied
    BY <1>2, <1>7 DEF A!ToolRaises
  <2> HIDE DEF q
  <2>2. /\ UNCHANGED <<events, resp, agent, reply, blocks>> /\ tools[c].state = "running"
        /\ graph.pc = "tools" \/ graph.end = "tool"
        /\ IF graph.pc = "tools" THEN A!GraphEnds("tool") ELSE UNCHANGED graph
    BY <1>1, <1>7 DEF A!ToolRaises
  <2> QED
    BY <1>0, <2>1, <2>2, CallKeeps
<1> QED
  BY <1>3, <1>4, <1>5, <1>6, <1>7

LEMMA GraphSteps ==
  ASSUME AgentInv, A!GraphStep
  PROVE  AgentInv'
BY PlainGraph, DecideKeeps, ModelKeeps, CallSteps DEF A!GraphStep

-----------------------------------------------------------------------------

Closed == {"pending", "finalize", "over"}

LEMMA AgentTypes ==
  ASSUME AgentInv
  PROVE  /\ graph \in Graphs /\ resp \in [A!Rounds -> [kind : {"none", "good", "bad"},
              calls : SUBSET A!Calls]]
         /\ tools \in [A!Calls -> CallRecords] /\ events \in Seq(Events)
         /\ agent \in Agents /\ reply \in Replies /\ blocks \in [A!Calls -> Parts]
         /\ reply.pc \in {"take", "store", "tell", "unwind", "pending", "finalize", "over"}
BY DEF AgentInv, AgentTyped, Agents, Replies, Parts

\* A step of the owner leaves the graph and its calls alone.
LEMMA OwnersFrame ==
  ASSUME AgentInv, UNCHANGED <<graph, resp, tools>>, events' \in Seq(Events), agent' \in Agents,
         reply' \in Replies, blocks' \in [A!Calls -> Parts], reply.pc \in Closed => reply'.pc \in Closed
  PROVE  AgentTyped' /\ GraphOK' /\ CallsOK'
<1>0. AgentTyped /\ GraphOK /\ CallsOK
  BY DEF AgentInv
<1>1. AgentTyped'
  BY <1>0 DEF AgentTyped, Agents, Replies, Parts
<1>2. GraphOK'
  BY <1>0 DEF GraphOK
<1>3. CallsOK'
  BY <1>0 DEF CallsOK, Closed
<1> QED
  BY <1>1, <1>2, <1>3

LEMMA FirstShifts ==
  ASSUME events \in Seq(Events), events # <<>>, events' = Tail(events)
  PROVE  /\ events' \in Seq(Events) /\ Head(events) \in Events /\ Head(events) = events[1]
         /\ 1 \in DOMAIN events /\ DOMAIN events \subseteq Nat \ {0} /\ DOMAIN events' \subseteq Nat \ {0}
         /\ \A i \in DOMAIN events' : i + 1 \in DOMAIN events /\ events'[i] = events[i + 1]
         /\ \A i \in DOMAIN events : i # 1 => i - 1 \in DOMAIN events' /\ events'[i - 1] = events[i]
<1>1. /\ Head(events) \in Events /\ Tail(events) \in Seq(Events) /\ Len(Tail(events)) = Len(events) - 1
      /\ \A i \in 1..Len(Tail(events)) : Tail(events)[i] = events[i + 1]
  BY HeadTailProperties
<1>2. Len(events) \in Nat /\ Len(events) # 0 /\ DOMAIN events = 1..Len(events) /\ Head(events) = events[1]
  BY LenProperties, EmptySeq
<1>3. DOMAIN events' = 1..(Len(events) - 1)
  BY <1>1, <1>2, LenProperties
<1> QED
  BY <1>1, <1>2, <1>3

\* What run_agent keeps once it has consumed e.
LEMMA SeenKeeps ==
  ASSUME AgentInv, NEW e \in Events, agent' = A!Seen(e), UNCHANGED resp
  PROVE  /\ agent' \in Agents
         /\ e.kind = "model_end" => /\ agent'.seen = agent.seen \cup {e.at}
                                    /\ agent'.pending = agent.pending \cup resp[e.at].calls
                                    /\ agent'.started = agent.started
                                    /\ (resp[e.at].kind = "bad" => agent'.error)
         /\ e.kind # "model_end" => agent'.seen = agent.seen /\ agent'.error = agent.error
         /\ e.kind \in Closing => agent'.pending = agent.pending \ {e.at}
         /\ e.kind \notin Closing \cup {"model_end"} => agent'.pending = agent.pending
         /\ e.kind = "tool_start" => agent'.started = agent.started \cup {e.at}
         /\ e.kind = "tool_end" => agent'.started = agent.started \ {e.at}
         /\ e.kind \notin {"tool_start", "tool_end"} => agent'.started = agent.started
<1>0. agent \in Agents /\ resp \in [A!Rounds -> [kind : {"none", "good", "bad"}, calls : SUBSET A!Calls]]
  BY AgentTypes
<1>1. CASE e.kind = "model_end"
  <2> DEFINE b == resp[e.at].kind = "bad"
             held == IF graph.remaining < 2 THEN resp[e.at].calls ELSE {}
             p == resp[e.at].calls
  <2>1. b \in BOOLEAN /\ held \subseteq A!Calls /\ p \subseteq A!Calls /\ e.at \in A!Rounds /\
          (resp[e.at].kind = "bad" => b)
    BY <1>0, <1>1 DEF Events
  <2>2. agent' = [agent EXCEPT !.open = @ \ {e.at}, !.seen = @ \cup {e.at}, !.error = b,
                               !.pending = @ \cup p, !.blocked = held]
    BY <1>1 DEF A!Seen
  <2>3. p = resp[e.at].calls
    OBVIOUS
  <2> HIDE DEF b, held, p
  <2> DEFINE o == agent.open \ {e.at}
             s == agent.seen \cup {e.at}
             q == agent.pending \cup p
  <2>5. o \subseteq A!Rounds /\ s \subseteq A!Rounds /\ q \subseteq A!Calls
    BY <1>0, <2>1 DEF Agents
  <2>6. agent' = [agent EXCEPT !.open = o, !.seen = s, !.error = b, !.pending = q, !.blocked = held]
    BY <2>2
  <2>7. s = agent.seen \cup {e.at} /\ q = agent.pending \cup p
    OBVIOUS
  <2> HIDE DEF o, s, q
  <2>4. /\ agent' \in Agents /\ agent'.error = b /\ agent'.seen = s
        /\ agent'.pending = q /\ agent'.started = agent.started
    BY <1>0, <2>1, <2>5, <2>6 DEF Agents
  <2> QED
    BY <1>1, <2>1, <2>3, <2>4, <2>7 DEF Closing
<1>2. CASE e.kind = "model_start"
  BY <1>0, <1>2 DEF A!Seen, Agents, Events, Closing
<1>3. CASE e.kind = "not_dispatched"
  BY <1>0, <1>3 DEF A!Seen, Agents, Events, Closing
<1>4. CASE e.kind = "tool_start"
  BY <1>0, <1>4 DEF A!Seen, Agents, Events, Closing
<1>5. CASE e.kind = "tool_end"
  BY <1>0, <1>5 DEF A!Seen, Agents, Events, Closing
<1>6. CASE e.kind = "chain_end"
  BY <1>0, <1>6 DEF A!Seen, Agents, Events, Closing
<1> QED
  BY <1>1, <1>2, <1>3, <1>4, <1>5, <1>6 DEF Events

LEMMA TakeKeeps ==
  ASSUME AgentInv, A!Take
  PROVE  AgentInv'
<1> DEFINE e == Head(events)
<1>0. /\ GraphOK /\ CallsOK /\ EventsOK /\ RoundsOK /\ OrderOK /\ PairsOK /\ PartsOK /\ EndOK
      /\ reply.pc = "take" /\ Live /\ UNCHANGED <<graph, resp, tools, blocks>>
  BY DEF AgentInv, A!Take, Live
<1>1. /\ graph \in Graphs /\ events \in Seq(Events) /\ agent \in Agents /\ reply \in Replies
      /\ tools \in [A!Calls -> CallRecords] /\ blocks \in [A!Calls -> Parts]
      /\ resp \in [A!Rounds -> [kind : {"none", "good", "bad"}, calls : SUBSET A!Calls]]
  BY AgentTypes
<1>2. /\ events' \in Seq(Events) /\ e \in Events /\ e = events[1] /\ 1 \in DOMAIN events
      /\ DOMAIN events \subseteq Nat \ {0} /\ DOMAIN events' \subseteq Nat \ {0}
      /\ \A i \in DOMAIN events' : i + 1 \in DOMAIN events /\ events'[i] = events[i + 1]
      /\ \A i \in DOMAIN events : i # 1 => i - 1 \in DOMAIN events' /\ events'[i - 1] = events[i]
  BY <1>1, FirstShifts DEF A!Take
<1>3. agent' = A!Seen(e)
  BY DEF A!Take
<1>4. reply' = IF e.kind = "chain_end" THEN reply
               ELSE [reply EXCEPT !.pc = "store", !.event = e,
                                  !.open = IF e.kind = "tool_start" THEN @ \cup {e.at} ELSE @]
  BY DEF A!Take
<1> HIDE DEF e
<1>5. /\ agent' \in Agents
      /\ e.kind = "model_end" => /\ agent'.seen = agent.seen \cup {e.at}
                                 /\ agent'.pending = agent.pending \cup resp[e.at].calls
                                 /\ agent'.started = agent.started
                                 /\ (resp[e.at].kind = "bad" => agent'.error)
      /\ e.kind # "model_end" => agent'.seen = agent.seen /\ agent'.error = agent.error
      /\ e.kind \in Closing => agent'.pending = agent.pending \ {e.at}
      /\ e.kind \notin Closing \cup {"model_end"} => agent'.pending = agent.pending
      /\ e.kind = "tool_start" => agent'.started = agent.started \cup {e.at}
      /\ e.kind = "tool_end" => agent'.started = agent.started \ {e.at}
      /\ e.kind \notin {"tool_start", "tool_end"} => agent'.started = agent.started
  BY <1>0, <1>2, <1>3, SeenKeeps
<1>6. /\ reply' \in Replies /\ reply'.pc \in {"take", "store"} /\ reply'.outcome = reply.outcome
      /\ e.kind # "chain_end" => reply'.pc = "store" /\ reply'.event = e
      /\ reply'.pc = "store" => reply'.event = e
      /\ e.kind = "tool_start" => reply'.open = reply.open \cup {e.at}
      /\ e.kind # "tool_start" => reply'.open = reply.open
  <2>1. CASE e.kind = "chain_end"
    BY <1>0, <1>1, <1>4, <2>1
  <2>2. CASE e.kind = "tool_start"
    <3>1. e.at \in A!Calls
      BY <1>2, <2>2 DEF Events
    <3> QED
      BY <1>1, <1>2, <1>4, <2>2, <3>1 DEF Replies
  <2>3. CASE e.kind \notin {"chain_end", "tool_start"}
    BY <1>1, <1>2, <1>4, <2>3 DEF Replies
  <2> QED
    BY <2>1, <2>2, <2>3
<1>7. AgentTyped' /\ GraphOK' /\ CallsOK'
  BY <1>0, <1>1, <1>2, <1>5, <1>6, OwnersFrame DEF Closed
<1>8. \A kind, at : Waits(kind, at) => Waits(kind, at)' \/ (e.kind = kind /\ e.at = at)
  BY <1>2 DEF Waits
<1>9. EventOK(e) /\ \A f : EventOK(f) => EventOK(f)'
  <2>1. EventOK(e)
    BY <1>0, <1>2 DEF EventsOK
  <2>2. \A f : EventOK(f) => EventOK(f)'
    BY <1>0 DEF EventOK
  <2> QED
    BY <2>1, <2>2
<1>10. EventsOK'
  <2>1. \A i \in DOMAIN events : EventOK(events[i])
    BY <1>0 DEF EventsOK
  <2>2. ASSUME NEW i \in DOMAIN events' PROVE EventOK(events[i])'
    <3>1. EventOK(events[i + 1]) /\ events'[i] = events[i + 1]
      BY <1>2, <2>1
    <3>2. \A f : f = events[i + 1] => EventOK(f)'
      BY <1>9, <3>1
    <3>3. \A f : f = events'[i] => EventOK(f)'
      BY <3>1, <3>2
    <3> QED
      BY <3>3
  <2>3. reply'.pc = "store" => EventOK(reply.event)'
    <3>1. \A f : f = e => EventOK(f)'
      BY <1>9
    <3>2. reply'.pc = "store" => \A f : f = reply'.event => EventOK(f)'
      BY <1>6, <3>1
    <3> QED
      BY <3>2
  <2> QED
    BY <2>2, <2>3 DEF EventsOK
<1>11. RoundsOK'
  <2>1. ASSUME NEW r \in A!Rounds, resp[r].kind # "none" PROVE r \in agent'.seen \/ Waits("model_end", r)'
    BY <1>0, <1>5, <1>8, <2>1 DEF RoundsOK
  <2>2. ASSUME NEW r \in agent'.seen PROVE resp[r].kind # "none" /\ (resp[r].kind = "bad" => agent'.error)
    <3>1. CASE e.kind # "model_end"
      BY <1>0, <1>5, <2>2, <3>1 DEF RoundsOK
    <3>2. CASE e.kind = "model_end"
      <4>1. resp[e.at].kind # "none" /\ e.at \in A!Rounds /\ \A q \in agent.seen : q < e.at
        BY <1>0, <1>2, <1>9, <3>2 DEF RoundsOK, EventOK, Events
      <4>2. CASE r = e.at
        BY <1>5, <3>2, <4>1, <4>2
      <4>3. CASE r \in agent.seen
        <5>1. r \in A!Rounds /\ resp[r].kind # "none" /\ r < e.at /\ e.at <= graph.round
          BY <1>0, <1>1, <4>1, <4>3 DEF RoundsOK, GraphOK, Agents
        <5>2. resp[r].kind # "bad"
          BY <1>0, <1>1, <4>1, <5>1, AgentAssumption DEF GraphOK, Graphs, A!Rounds
        <5> QED
          BY <5>1, <5>2
      <4> QED
        BY <1>5, <2>2, <3>2, <4>2, <4>3
    <3> QED
      BY <3>1, <3>2
  <2>3. ASSUME NEW i \in DOMAIN events', events'[i].kind = "model_end"
        PROVE  /\ \A r \in agent'.seen : r < events'[i].at
               /\ \A k \in DOMAIN events' : k < i /\ events'[k].kind = "model_end" =>
                    events'[k].at < events'[i].at
    <3>1. /\ i \in Nat \ {0} /\ i + 1 \in DOMAIN events /\ events'[i] = events[i + 1]
          /\ \A r \in agent.seen : r < events'[i].at
          /\ \A k \in DOMAIN events : k < i + 1 /\ events[k].kind = "model_end" =>
               events[k].at < events'[i].at
      BY <1>0, <1>2, <2>3 DEF RoundsOK
    <3>2. e.kind = "model_end" => e.at < events'[i].at
      BY <1>2, <3>1
    <3>3. \A k \in DOMAIN events' : k < i => k + 1 \in DOMAIN events /\ events'[k] = events[k + 1] /\
            k + 1 < i + 1
      BY <1>2, <3>1
    <3> QED
      BY <1>5, <3>1, <3>2, <3>3
  <2> QED
    BY <1>0, <2>1, <2>2, <2>3 DEF RoundsOK
<1>12. OrderOK'
  <2> SUFFICES ASSUME NEW i \in DOMAIN events'
               PROVE  /\ events'[i].kind \in {"not_dispatched", "tool_start", "tool_end"} =>
                           \/ events'[i].at[1] \in agent'.seen
                           \/ \E k \in DOMAIN events' : k < i /\ events'[k].kind = "model_end" /\
                                events'[k].at = events'[i].at[1]
                      /\ events'[i].kind = "tool_start" /\ graph.end # "tool" /\
                           tools[events'[i].at].state = "done" =>
                           \E k \in DOMAIN events' : k > i /\ events'[k].kind = "tool_end" /\
                             events'[k].at = events'[i].at
    BY <1>0 DEF OrderOK
  <2>1. i \in Nat \ {0} /\ i + 1 \in DOMAIN events /\ events'[i] = events[i + 1]
    BY <1>2
  <2>2. ASSUME events'[i].kind \in {"not_dispatched", "tool_start", "tool_end"},
                 events'[i].at[1] \notin agent'.seen
        PROVE  \E k \in DOMAIN events' : k < i /\ events'[k].kind = "model_end" /\
                 events'[k].at = events'[i].at[1]
    <3>1. events'[i].at[1] \notin agent.seen
      BY <1>5, <2>2
    <3>2. PICK k \in DOMAIN events : k < i + 1 /\ events[k].kind = "model_end" /\
                 events[k].at = events'[i].at[1]
      BY <1>0, <2>1, <2>2, <3>1 DEF OrderOK
    <3>3. k # 1
      BY <1>2, <1>5, <2>2, <3>2
    <3>4. k - 1 \in DOMAIN events' /\ events'[k - 1] = events[k] /\ k - 1 < i
      BY <1>2, <2>1, <3>2, <3>3
    <3> QED
      BY <3>2, <3>4
  <2>3. ASSUME events'[i].kind = "tool_start", graph.end # "tool", tools[events'[i].at].state = "done"
        PROVE  \E k \in DOMAIN events' : k > i /\ events'[k].kind = "tool_end" /\
                 events'[k].at = events'[i].at
    <3>1. PICK k \in DOMAIN events : k > i + 1 /\ events[k].kind = "tool_end" /\
                 events[k].at = events'[i].at
      BY <1>0, <2>1, <2>3 DEF OrderOK
    <3>2. k - 1 \in DOMAIN events' /\ events'[k - 1] = events[k] /\ k - 1 > i
      BY <1>2, <2>1, <3>1
    <3> QED
      BY <3>1, <3>2
  <2> QED
    BY <2>2, <2>3
<1>13. PairsOK'
  <2>1. \A c \in A!Calls : Closes(c) => Closes(c)' \/ (e.kind \in Closing /\ e.at = c)
    BY <1>8 DEF Closes
  <2>2. ASSUME e.kind \in Closing
        PROVE  e.at \in A!Calls /\ e.at[1] \in agent.seen /\ e.kind # "model_end" /\
                 e.kind # "chain_end" /\ IsAnswered(e.at)
    <3>1. e.kind \in {"not_dispatched", "tool_end"}
      BY <2>2 DEF Closing
    <3>2. e.at \in A!Calls /\ IsAnswered(e.at)
      BY <1>2, <1>9, <3>1 DEF Events, EventOK, IsAnswered
    <3>3. e.at[1] \in agent.seen
      BY <1>0, <1>2, <3>1 DEF OrderOK
    <3> QED
      BY <3>1, <3>2, <3>3
  <2>3. e.kind = "model_end" => \A c \in resp[e.at].calls : c \in A!Calls /\ c[1] = e.at /\
          c[1] \notin agent.seen
    <3>1. SUFFICES ASSUME e.kind = "model_end"
                   PROVE \A c \in resp[e.at].calls : c \in A!Calls /\ c[1] = e.at /\ c[1] \notin agent.seen
      OBVIOUS
    <3>2. e.at \in A!Rounds /\ \A r \in agent.seen : r < e.at
      BY <1>0, <1>2, <3>1 DEF RoundsOK, Events
    <3>3. e.at \notin agent.seen
      BY <3>2, AgentAssumption DEF A!Rounds
    <3> QED
      BY <1>0, <1>1, <3>2, <3>3 DEF GraphOK
  <2>4. ASSUME graph.end # "tool", NEW c \in A!Calls, IsAnswered(c)
        PROVE  /\ Closes(c)' \/ (\E kind \in Closing : Held(kind, c)') \/ blocks[c].status \in A!Final
               /\ c \in agent'.pending \/ c[1] \notin agent'.seen => Closes(c)'
               /\ Held("tool_start", c)' => Waits("tool_end", c)'
    <3>1. /\ Closes(c) \/ blocks[c].status \in A!Final
          /\ c \in agent.pending \/ c[1] \notin agent.seen => Closes(c)
      BY <1>0, <2>4 DEF PairsOK, Held
    <3>2. ASSUME e.kind \in Closing, e.at = c PROVE \A kind : kind = e.kind => Held(kind, c)'
      BY <1>6, <2>2, <3>2 DEF Held
    <3>3. Closes(c)' \/ (\E kind \in Closing : Held(kind, c)') \/ blocks[c].status \in A!Final
      BY <2>1, <3>1, <3>2
    <3>4. ASSUME c \in agent'.pending \/ c[1] \notin agent'.seen PROVE Closes(c)'
      <4>1. c \in agent.pending \/ c[1] \notin agent.seen
        BY <1>5, <2>3, <3>4
      <4>2. Closes(c)
        BY <3>1, <4>1
      <4>3. ~(e.kind \in Closing /\ e.at = c)
        BY <1>5, <2>2, <3>4
      <4> QED
        BY <2>1, <4>2, <4>3
    <3>5. ASSUME Held("tool_start", c)' PROVE Waits("tool_end", c)'
      <4>1. e.kind = "tool_start" /\ e.at = c
        BY <1>6, <3>5 DEF Held
      <4>2. tools[c].state = "done"
        BY <1>9, <2>4, <4>1 DEF EventOK, IsAnswered
      <4>3. Waits("tool_end", c)
        BY <1>0, <1>2, <2>4, <4>1, <4>2 DEF OrderOK, Waits
      <4> QED
        BY <1>8, <4>1, <4>3
    <3> QED
      BY <3>3, <3>4, <3>5
  <2>5. ASSUME NEW c \in A!Calls, c[1] \in agent'.seen, c \in resp[c[1]].calls, c \notin agent'.pending
        PROVE  IsAnswered(c)
    <3>1. CASE c[1] \notin agent.seen
      BY <1>5, <2>5, <3>1
    <3>2. CASE c[1] \in agent.seen /\ c \notin agent.pending
      BY <1>0, <2>5, <3>2 DEF PairsOK
    <3>3. CASE c \in agent.pending
      BY <1>5, <2>2, <2>5, <3>3
    <3> QED
      BY <3>1, <3>2, <3>3
  <2>6. ASSUME NEW c \in reply'.open PROVE c \in agent'.started \/ Held("tool_end", c)'
    <3>1. CASE c \in reply.open
      <4>1. c \in agent.started
        BY <1>0, <3>1 DEF PairsOK, Held
      <4>2. CASE e.kind = "tool_end" /\ e.at = c
        BY <1>6, <4>2 DEF Held
      <4>3. CASE ~(e.kind = "tool_end" /\ e.at = c)
        BY <1>5, <4>1, <4>3
      <4> QED
        BY <4>2, <4>3
    <3>2. CASE c \notin reply.open
      BY <1>5, <1>6, <2>6, <3>2
    <3> QED
      BY <3>1, <3>2
  <2>7. \A c : c \in reply.open \/ Waits("tool_start", c) => c \in reply'.open \/ Waits("tool_start", c)'
    BY <1>6, <1>8
  <2>8. graph.end # "tool" => \A c \in A!Calls : tools[c].state = "running" => c \in reply'.open \/
          Waits("tool_start", c)'
    BY <1>0, <2>7 DEF PairsOK
  <2>9. graph.end = "tool" => \E c \in A!Calls : tools[c].state = "raised" /\
          (c \in reply'.open \/ Waits("tool_start", c)')
    BY <1>0, <2>7 DEF PairsOK
  <2>10. reply'.outcome = "none" /\ graph.end # "cancelled"
    BY <1>0, <1>6 DEF PairsOK
  <2>11. \A c \in A!Calls : IsAnswered(c)' <=> IsAnswered(c)
    BY <1>0 DEF IsAnswered
  <2> QED
    BY <1>0, <2>4, <2>5, <2>6, <2>8, <2>9, <2>10, <2>11 DEF PairsOK
<1>14. PartsOK'
  BY <1>0, <1>6 DEF PartsOK
<1>15. EndOK'
  BY <1>0, <1>6 DEF PairsOK, EndOK
<1> QED
  BY <1>7, <1>10, <1>11, <1>12, <1>13, <1>14, <1>15 DEF AgentInv

-----------------------------------------------------------------------------

\* A step of the owner after which its loop is over.
LEMMA LeavesLoop ==
  ASSUME AgentInv, UNCHANGED <<graph, resp, tools, events, agent>>,
         reply' \in Replies, blocks' \in [A!Calls -> Parts], reply.pc \in Closed => reply'.pc \in Closed,
         reply'.pc \notin {"take", "store"}, PartsOK', EndOK'
  PROVE  AgentInv'
<1>0. EventsOK /\ events \in Seq(Events) /\ agent \in Agents
  BY AgentTypes DEF AgentInv
<1>1. AgentTyped' /\ GraphOK' /\ CallsOK'
  BY <1>0, OwnersFrame
<1>2. EventsOK'
  <2>1. \A e : EventOK(e) => EventOK(e)'
    BY DEF EventOK
  <2>2. \A i \in DOMAIN events : EventOK(events[i])
    BY <1>0 DEF EventsOK
  <2>3. ASSUME NEW i \in DOMAIN events' PROVE EventOK(events[i])'
    <3>1. \A e : e = events[i] => EventOK(e)'
      BY <2>1, <2>2
    <3>2. \A e : e = events'[i] => EventOK(e)'
      BY <3>1
    <3> QED
      BY <3>2
  <2> QED
    BY <2>3 DEF EventsOK
<1>3. RoundsOK' /\ OrderOK' /\ PairsOK'
  BY DEF RoundsOK, OrderOK, PairsOK, Live
<1> QED
  BY <1>1, <1>2, <1>3 DEF AgentInv

\* A step that stores an event, and goes on with the loop or leaves it.
LEMMA StoreKeeps ==
  ASSUME AgentInv, reply.pc = "store", UNCHANGED <<graph, resp, tools, events, agent>>,
         reply' \in Replies, blocks' \in [A!Calls -> Parts], reply'.open \subseteq reply.open,
         \/ reply'.pc = "take" /\ reply'.outcome = reply.outcome
         \/ reply'.pc = "unwind" /\ reply'.outcome \in {"stopped", "failed"},
         \A c \in A!Calls :
           /\ \/ blocks'[c] = blocks[c]
              \/ blocks'[c].status = "running"
              \/ blocks'[c].status = "ended" /\ tools[c].state = "done" /\
                   (tools[c].applied = "yes" => blocks'[c].applied)
              \/ blocks'[c].status = "not_executed" /\ tools[c].state = "refused"
           /\ reply'.pc = "take" /\ graph.end # "tool" /\ IsAnswered(c) =>
                /\ (\E kind \in Closing : Held(kind, c)) => blocks'[c].status \in A!Final
                /\ blocks[c].status \in A!Final => blocks'[c].status \in A!Final \/ Closes(c)
           /\ reply'.pc = "take" => /\ c \in reply'.open => ~Held("tool_end", c)
                                    /\ c \in reply.open /\ tools[c].state # "done" => c \in reply'.open
  PROVE  AgentInv'
<1>0. /\ EventsOK /\ RoundsOK /\ OrderOK /\ PairsOK /\ PartsOK /\ EndOK /\ Live
      /\ events \in Seq(Events) /\ agent \in Agents
  BY AgentTypes DEF AgentInv, Live
<1>1. PartsOK'
  <2>1. ASSUME NEW c \in A!Calls
        PROVE  /\ blocks'[c].status \in {"ended", "cut"} /\ tools[c].applied = "yes" => blocks'[c].applied
               /\ blocks'[c].status = "ended" => tools[c].state = "done"
               /\ blocks'[c].status = "not_executed" => \/ tools[c].state = "refused"
                                                        \/ tools[c].state = "none" /\ graph.pc = "closed"
               /\ blocks'[c].status = "cut" => reply'.pc \in {"pending", "finalize", "over"}
    <3>1. CASE blocks'[c] = blocks[c]
      BY <1>0, <3>1 DEF PartsOK
    <3>2. CASE blocks'[c].status = "running"
      BY <3>2
    <3>3. CASE blocks'[c].status = "ended" /\ tools[c].state = "done" /\
                 (tools[c].applied = "yes" => blocks'[c].applied)
      BY <3>3
    <3>4. CASE blocks'[c].status = "not_executed" /\ tools[c].state = "refused"
      BY <3>4
    <3> QED
      BY <3>1, <3>2, <3>3, <3>4
  <2>2. reply'.pc \notin {"tell", "finalize", "over"}
    OBVIOUS
  <2> QED
    BY <2>1, <2>2 DEF PartsOK
<1>2. EndOK'
  <2>1. reply.outcome = "none"
    BY <1>0 DEF PairsOK
  <2> QED
    BY <2>1 DEF EndOK
<1>3. CASE reply'.pc = "unwind"
  BY <1>1, <1>2, <1>3, LeavesLoop DEF Closed
<1>4. CASE reply'.pc = "take"
  <2>1. AgentTyped' /\ GraphOK' /\ CallsOK'
    BY <1>0, <1>4, OwnersFrame DEF Closed
  <2>2. EventsOK'
    <3>1. \A e : EventOK(e) => EventOK(e)'
      BY DEF EventOK
    <3>2. \A i \in DOMAIN events : EventOK(events[i])
      BY <1>0 DEF EventsOK
    <3>3. ASSUME NEW i \in DOMAIN events' PROVE EventOK(events[i])'
      <4>1. \A e : e = events[i] => EventOK(e)'
        BY <3>1, <3>2
      <4>2. \A e : e = events'[i] => EventOK(e)'
        BY <4>1
      <4> QED
        BY <4>2
    <3> QED
      BY <1>4, <3>3 DEF EventsOK
  <2>3. \A kind, at : Waits(kind, at)' <=> Waits(kind, at)
    BY DEF Waits
  <2>4. RoundsOK'
    BY <1>0, <2>3 DEF RoundsOK
  <2>5. OrderOK'
    BY <1>0 DEF OrderOK
  <2>6. PairsOK'
    <3>1. \A c \in A!Calls : (Closes(c)' <=> Closes(c)) /\ (IsAnswered(c)' <=> IsAnswered(c))
      BY <2>3 DEF Closes, IsAnswered
    <3>2. \A kind, at : ~Held(kind, at)'
      BY <1>4 DEF Held
    <3>3. ASSUME graph.end # "tool", NEW c \in A!Calls, IsAnswered(c)
          PROVE  /\ Closes(c) \/ blocks'[c].status \in A!Final
                 /\ c \in agent.pending \/ c[1] \notin agent.seen => Closes(c)
      BY <1>0, <1>4, <3>3 DEF PairsOK
    <3>4. \A c \in A!Calls : c[1] \in agent.seen /\ c \in resp[c[1]].calls /\ c \notin agent.pending =>
            IsAnswered(c)
      BY <1>0 DEF PairsOK
    <3>5. \A c \in reply'.open : c \in agent.started
      <4>1. reply'.open \subseteq A!Calls
        BY DEF Replies
      <4> QED
        BY <1>0, <1>4, <4>1 DEF PairsOK
    <3>6. graph.end # "tool" => \A c \in A!Calls : tools[c].state = "running" => c \in reply'.open \/
            Waits("tool_start", c)
      BY <1>0, <1>4 DEF PairsOK
    <3>7. graph.end = "tool" => \E c \in A!Calls : tools[c].state = "raised" /\
            (c \in reply'.open \/ Waits("tool_start", c))
      BY <1>0, <1>4 DEF PairsOK
    <3>8. reply'.outcome = "none" /\ graph.end # "cancelled"
      BY <1>0, <1>4 DEF PairsOK
    <3> QED
      BY <2>3, <3>1, <3>2, <3>3, <3>4, <3>5, <3>6, <3>7, <3>8 DEF PairsOK
  <2> QED
    BY <1>1, <1>2, <2>1, <2>2, <2>4, <2>5, <2>6 DEF AgentInv
<1> QED
  BY <1>3, <1>4

\* What Stored makes of the owner, recorded a little more or not.
LEMMA StoredAs ==
  ASSUME reply \in Replies
  PROVE  /\ A!Stored \in Replies /\ A!Stored.open = reply.open /\ A!Stored.recorded = reply.recorded
         /\ \/ A!Stored.pc = "take" /\ A!Stored.outcome = reply.outcome
            \/ A!Stored.pc = "unwind" /\ A!Stored.outcome = "stopped"
BY DEF A!Stored, Replies

LEMMA StoresUsage ==
  ASSUME AgentInv, A!StoreCallStart \/ A!StoreCallUsage
  PROVE  AgentInv'
<1>1. /\ reply.pc = "store" /\ reply.event.kind \in {"model_start", "model_end"} /\ reply' = A!Stored
      /\ UNCHANGED <<graph, resp, tools, events, agent, blocks>>
  BY DEF A!StoreCallStart, A!StoreCallUsage, A!Storing
<1>2. reply \in Replies /\ blocks \in [A!Calls -> Parts]
  BY AgentTypes
<1>3. \A c : ~Held("tool_end", c) /\ ~Held("not_dispatched", c)
  BY <1>1 DEF Held
<1> QED
  BY <1>1, <1>2, <1>3, StoredAs, StoreKeeps DEF Closing

LEMMA StoresStart ==
  ASSUME AgentInv, A!StoreStart
  PROVE  AgentInv'
<1> DEFINE d == reply.event.at
<1>1. /\ reply.pc = "store" /\ reply.event.kind = "tool_start" /\ reply' = A!Stored
      /\ UNCHANGED <<graph, resp, tools, events, agent>> /\
           blocks' = [blocks EXCEPT ![d].status = "running"]
  BY DEF A!StoreStart, A!Storing
<1>2. reply \in Replies /\ blocks \in [A!Calls -> Parts] /\ PairsOK
  BY AgentTypes DEF AgentInv
<1>3. d \in A!Calls
  BY <1>1, <1>2 DEF Replies, Events
<1>4. \A c : ~Held("tool_end", c) /\ ~Held("not_dispatched", c)
  BY <1>1 DEF Held
<1>5. Held("tool_start", d)
  BY <1>1 DEF Held
<1> HIDE DEF d
<1>6. blocks' \in [A!Calls -> Parts] /\ blocks'[d].status = "running" /\ \A c \in A!Calls : c # d =>
        blocks'[c] = blocks[c]
  BY <1>1, <1>2, <1>3 DEF Parts
<1>7. graph.end # "tool" /\ IsAnswered(d) => Closes(d)
  BY <1>1, <1>2, <1>3, <1>5 DEF PairsOK, Live, Closes, Closing
<1> QED
  BY <1>1, <1>2, <1>3, <1>4, <1>6, <1>7, StoredAs, StoreKeeps DEF Closing

LEMMA StoresRefusal ==
  ASSUME AgentInv, A!StoreRefusal
  PROVE  AgentInv'
<1> DEFINE d == reply.event.at
<1>1. /\ reply.pc = "store" /\ reply.event.kind = "not_dispatched" /\
           reply' = [A!Stored EXCEPT !.recorded = @ + 1]
      /\ UNCHANGED <<graph, resp, tools, events, agent>> /\
           blocks' = [blocks EXCEPT ![d].status = "not_executed"]
  BY DEF A!StoreRefusal, A!Storing
<1>2. reply \in Replies /\ blocks \in [A!Calls -> Parts] /\ EventsOK
  BY AgentTypes DEF AgentInv
<1>3. d \in A!Calls /\ tools[d].state = "refused"
  BY <1>1, <1>2 DEF Replies, Events, EventsOK, EventOK
<1>4. \A c : ~Held("tool_end", c) /\ (Held("not_dispatched", c) => c = d)
  BY <1>1 DEF Held
<1> HIDE DEF d
<1>5. blocks' \in [A!Calls -> Parts] /\ blocks'[d].status = "not_executed" /\ \A c \in A!Calls : c # d =>
        blocks'[c] = blocks[c]
  BY <1>1, <1>2, <1>3 DEF Parts
<1>6. /\ reply' \in Replies /\ reply'.open = reply.open
      /\ \/ reply'.pc = "take" /\ reply'.outcome = reply.outcome
         \/ reply'.pc = "unwind" /\ reply'.outcome = "stopped"
  <2> DEFINE n == A!Stored.recorded + 1
             s == A!Stored
  <2>1. s \in Replies /\ n \in Nat /\ s.open = reply.open
        /\ \/ s.pc = "take" /\ s.outcome = reply.outcome
           \/ s.pc = "unwind" /\ s.outcome = "stopped"
    BY <1>2, StoredAs DEF Replies
  <2>2. reply' = [s EXCEPT !.recorded = n]
    BY <1>1
  <2> HIDE DEF n, s
  <2> QED
    BY <2>1, <2>2 DEF Replies
<1> QED
  BY <1>1, <1>2, <1>3, <1>4, <1>5, <1>6, StoreKeeps DEF Closing, A!Final

LEMMA StoresResult ==
  ASSUME AgentInv, A!StoreResult
  PROVE  AgentInv'
<1> DEFINE d == reply.event.at
           b == tools[d].applied = "yes"
           p == [status |-> "ended", applied |-> b]
<1>1. /\ reply.pc = "store" /\ reply.event.kind = "tool_end"
      /\ reply' = [A!Stored EXCEPT !.recorded = @ + 1, !.open = @ \ {d}]
      /\ UNCHANGED <<graph, resp, tools, events, agent>> /\ blocks' = [blocks EXCEPT ![d] = p]
  BY DEF A!StoreResult, A!Storing, A!Result
<1>2. reply \in Replies /\ blocks \in [A!Calls -> Parts] /\ EventsOK
  BY AgentTypes DEF AgentInv
<1>3. d \in A!Calls /\ tools[d].state = "done"
  BY <1>1, <1>2 DEF Replies, Events, EventsOK, EventOK
<1>4. \A c : (Held("tool_end", c) => c = d) /\ ~Held("not_dispatched", c)
  BY <1>1 DEF Held
<1>5. b \in BOOLEAN /\ (tools[d].applied = "yes" => b)
  OBVIOUS
<1> HIDE DEF b
<1>6. p \in Parts /\ p.status = "ended" /\ p.applied = b
  BY <1>5 DEF Parts
<1> HIDE DEF d, p
<1>7. blocks' \in [A!Calls -> Parts] /\ blocks'[d] = p /\ \A c \in A!Calls : c # d => blocks'[c] = blocks[c]
  BY <1>1, <1>2, <1>3, <1>6
<1>8. /\ reply' \in Replies /\ reply'.open = reply.open \ {d}
      /\ \/ reply'.pc = "take" /\ reply'.outcome = reply.outcome
         \/ reply'.pc = "unwind" /\ reply'.outcome = "stopped"
  <2> DEFINE n == A!Stored.recorded + 1
             s == A!Stored
             o == s.open \ {d}
  <2>1. s \in Replies /\ n \in Nat /\ s.open = reply.open /\ o \subseteq A!Calls /\ o = s.open \ {d}
        /\ \/ s.pc = "take" /\ s.outcome = reply.outcome
           \/ s.pc = "unwind" /\ s.outcome = "stopped"
    BY <1>2, StoredAs DEF Replies
  <2>2. reply' = [s EXCEPT !.recorded = n, !.open = o]
    BY <1>1
  <2> HIDE DEF n, s, o
  <2> QED
    BY <2>1, <2>2 DEF Replies
<1>9. \A c \in A!Calls : reply'.pc = "take" =>
        /\ c \in reply'.open => ~Held("tool_end", c)
        /\ c \in reply.open /\ tools[c].state # "done" => c \in reply'.open
  <2>1. Held("tool_end", d)
    BY <1>1 DEF Held, d
  <2> QED
    BY <1>3, <1>4, <1>8
<1>10. \A c \in A!Calls :
           /\ \/ blocks'[c] = blocks[c]
              \/ blocks'[c].status = "ended" /\ tools[c].state = "done" /\
                   (tools[c].applied = "yes" => blocks'[c].applied)
           /\ (\E kind \in Closing : Held(kind, c)) => blocks'[c].status \in A!Final
           /\ blocks[c].status \in A!Final => blocks'[c].status \in A!Final
  BY <1>3, <1>4, <1>5, <1>6, <1>7 DEF Closing, A!Final
<1> QED
  BY <1>1, <1>7, <1>8, <1>9, <1>10, StoreKeeps

LEMMA StoreGivesUp ==
  ASSUME AgentInv, A!StoreFails
  PROVE  AgentInv'
<1>1. reply \in Replies /\ blocks \in [A!Calls -> Parts]
  BY AgentTypes
<1>2. /\ reply.pc = "store" /\ UNCHANGED <<graph, resp, tools, events, agent, blocks>>
      /\ reply' = [reply EXCEPT !.pc = "unwind", !.outcome = "failed", !.hit = FALSE]
  BY DEF A!StoreFails
<1>3. reply' \in Replies /\ reply'.open = reply.open /\ reply'.pc = "unwind" /\ reply'.outcome = "failed"
  BY <1>1, <1>2 DEF Replies
<1> QED
  BY <1>1, <1>2, <1>3, StoreKeeps

-----------------------------------------------------------------------------

\* What is known of the calls when the loop ran out of events by itself.
LEMMA AllConsumed ==
  ASSUME AgentInv, reply.pc = "take", events = <<>>, graph.pc = "closed", graph.end # "tool"
  PROVE  /\ \A c \in A!Calls : tools[c].state \in {"none", "done", "refused"}
         /\ \A c \in A!Calls : IsAnswered(c) =>
              blocks[c].status \in A!Final /\ c \notin agent.pending /\ c[1] \in agent.seen
         /\ Told /\ reply.open \subseteq agent.started
<1>0. CallsOK /\ PairsOK /\ PartsOK /\ Live /\ tools \in [A!Calls -> CallRecords]
  BY AgentTypes DEF AgentInv, Live
<1>1. \A kind, at : ~Waits(kind, at) /\ ~Held(kind, at)
  BY DEF Waits, Held
<1>2. ASSUME NEW c \in A!Calls PROVE tools[c].state \in {"none", "done", "refused"}
  BY <1>0 DEF CallsOK, CallRecords
<1>3. ASSUME NEW c \in A!Calls, IsAnswered(c)
      PROVE  blocks[c].status \in A!Final /\ c \notin agent.pending /\ c[1] \in agent.seen
  BY <1>0, <1>1, <1>3 DEF PairsOK, Closes
<1>4. ASSUME NEW c \in A!Calls, tools[c].applied = "yes" PROVE blocks[c].applied
  <2>1. tools[c].state = "done"
    BY <1>0, <1>2, <1>4 DEF CallsOK
  <2>2. blocks[c].status \in A!Final
    BY <1>3, <2>1 DEF IsAnswered
  <2> QED
    BY <1>0, <1>4, <2>1, <2>2 DEF PartsOK, A!Final
<1>5. reply.open \subseteq agent.started
  BY <1>0, <1>1 DEF PairsOK
<1> QED
  BY <1>2, <1>3, <1>4, <1>5 DEF Told

LEMMA Outcomes ==
  /\ A!Terminal \in {"completed", "decision_budget", "graph_budget", "failed"}
  /\ A!Terminal # "failed" => graph.end # "tool" /\ ~agent.error
  /\ A!Terminal \in {"completed", "decision_budget"} => agent.pending = {} /\ agent.started = {}
BY DEF A!Terminal, A!Unpaired

LEMMA ReplyEndsKeeps ==
  ASSUME AgentInv, A!ReplyEnds
  PROVE  AgentInv'
<1> DEFINE told == A!Terminal
           to == IF told = "graph_budget" /\ A!Undispatched THEN "tell"
                 ELSE IF reply.open # {} THEN "pending" ELSE "finalize"
<1>0. /\ GraphOK /\ CallsOK /\ RoundsOK /\ PairsOK /\ PartsOK /\ Live
      /\ graph \in Graphs /\ reply \in Replies /\ blocks \in [A!Calls -> Parts] /\ agent \in Agents
      /\ resp \in [A!Rounds -> [kind : {"none", "good", "bad"}, calls : SUBSET A!Calls]]
      /\ reply.pc = "take" /\ events = <<>> /\ graph.pc = "closed"
      /\ UNCHANGED <<graph, resp, tools, events, agent, blocks>>
  BY AgentTypes DEF AgentInv, A!ReplyEnds, Live
<1>1. reply' = [reply EXCEPT !.outcome = told, !.pc = to]
  BY DEF A!ReplyEnds
<1>2. /\ told \in {"completed", "decision_budget", "graph_budget", "failed"}
      /\ told # "failed" => graph.end # "tool" /\ ~agent.error
      /\ told \in {"completed", "decision_budget"} => agent.pending = {} /\ agent.started = {}
  BY Outcomes
<1>3. /\ to \in {"tell", "pending", "finalize"}
      /\ to = "tell" => told = "graph_budget" /\ agent.pending = agent.blocked
      /\ to # "tell" /\ reply.open = {} => to = "finalize"
      /\ to = "finalize" => reply.open = {}
  BY DEF A!Undispatched
<1> HIDE DEF told, to
<1>4. reply' \in Replies /\ reply'.pc = to /\ reply'.outcome = told /\ reply'.open = reply.open
  BY <1>0, <1>1, <1>2, <1>3 DEF Replies
<1>5. \A kind, at : ~Waits(kind, at) /\ ~Held(kind, at)
  BY <1>0 DEF Waits, Held
<1>6. to = "finalize" => graph.end # "tool"
  BY <1>0, <1>3, <1>5 DEF PairsOK
<1>7. PartsOK'
  <2>1. to = "finalize" => Told
    BY <1>0, <1>6, AllConsumed
  <2>2. to = "tell" => graph.end # "tool" /\ told = "graph_budget"
    BY <1>2, <1>3
  <2>3. to = "tell" => Told /\ \A c \in agent.blocked : tools[c].state = "none"
    <3> SUFFICES ASSUME to = "tell" PROVE Told /\ \A c \in agent.blocked : tools[c].state = "none"
      OBVIOUS
    <3>1. /\ Told /\ \A c \in A!Calls : tools[c].state \in {"none", "done", "refused"}
          /\ \A c \in A!Calls : IsAnswered(c) => c \notin agent.pending
      BY <1>0, <2>2, AllConsumed
    <3>2. agent.blocked \subseteq A!Calls /\ agent.pending = agent.blocked
      BY <1>0, <1>3 DEF Agents
    <3> QED
      BY <3>1, <3>2 DEF IsAnswered
  <2>4. Told' <=> Told
    BY <1>0 DEF Told
  <2> QED
    BY <1>0, <1>3, <1>4, <2>1, <2>2, <2>3, <2>4 DEF PartsOK
<1>8. EndOK'
  <2> SUFFICES ASSUME told \in {"completed", "decision_budget"}
               PROVE  to = "finalize" /\ reply.open = {} /\ Settled'
    BY <1>0, <1>4 DEF EndOK
  <2>1. /\ graph.end # "tool" /\ ~agent.error /\ agent.pending = {} /\ agent.started = {}
    BY <1>2
  <2>2. /\ \A c \in A!Calls : IsAnswered(c) => blocks[c].status \in A!Final
        /\ reply.open = {}
    BY <1>0, <2>1, AllConsumed
  <2>3. ASSUME NEW r \in A!Rounds, NEW c \in resp[r].calls
        PROVE  blocks[c].status \in A!Final /\ tools[c].state \in {"done", "refused"}
    <3>1. c \in A!Calls /\ c[1] = r /\ resp[r].kind # "none"
      BY <1>0 DEF GraphOK
    <3>2. r \in agent.seen
      BY <1>0, <1>5, <3>1 DEF RoundsOK
    <3>3. IsAnswered(c)
      BY <1>0, <2>1, <3>1, <3>2 DEF PairsOK
    <3> QED
      BY <2>2, <3>1, <3>3 DEF IsAnswered
  <2>4. graph.round > 0 => resp[graph.round].kind = "good"
    <3> SUFFICES ASSUME graph.round > 0 PROVE resp[graph.round].kind = "good"
      OBVIOUS
    <3>1. graph.round \in A!Rounds
      BY <1>0, AgentAssumption DEF Graphs, A!Rounds
    <3>2. graph.end # "cancelled" /\ graph.end # "provider"
      BY <1>0, <1>2 DEF PairsOK, A!Terminal, told
    <3>3. resp[graph.round].kind # "none"
      BY <1>0, <3>2 DEF GraphOK
    <3>4. graph.round \in agent.seen
      BY <1>0, <1>5, <3>1, <3>3 DEF RoundsOK
    <3> QED
      BY <1>0, <2>1, <3>1, <3>3, <3>4 DEF RoundsOK
  <2>5. Settled'
    BY <1>0, <2>3, <2>4 DEF Settled, A!Proposed
  <2> QED
    BY <1>2, <1>3, <2>2, <2>5
<1> QED
  BY <1>0, <1>3, <1>4, <1>7, <1>8, LeavesLoop DEF Closed

LEMMA TellKeeps ==
  ASSUME AgentInv, A!Tell
  PROVE  AgentInv'
<1>0. /\ CallsOK /\ PartsOK /\ EndOK /\ reply \in Replies /\ blocks \in [A!Calls -> Parts] /\
           reply.pc = "tell"
      /\ UNCHANGED <<graph, resp, tools, events, agent>>
  BY AgentTypes DEF AgentInv, A!Tell
<1>1. blocks' = [c \in A!Calls |-> IF c \in agent.blocked THEN [blocks[c] EXCEPT !.status = "not_executed"] ELSE blocks[c]]
  BY DEF A!Tell
<1>2. \A c \in A!Calls : LET p == [blocks[c] EXCEPT !.status = "not_executed"] IN
        p \in Parts /\ p.status = "not_executed" /\ p.applied = blocks[c].applied
  BY <1>0 DEF Parts
<1>3. /\ blocks' \in [A!Calls -> Parts]
      /\ \A c \in A!Calls : /\ blocks'[c].applied = blocks[c].applied
                            /\ blocks'[c] = blocks[c] \/
                                 (c \in agent.blocked /\ blocks'[c].status = "not_executed")
  BY <1>0, <1>1, <1>2
<1>4. /\ reply' \in Replies /\ reply'.pc \in {"unwind", "finalize"}
      /\ reply'.outcome \in {"stopped", "graph_budget"}
  BY <1>0 DEF A!Tell, Replies, PartsOK
<1>5. Told /\ graph.pc = "closed" /\ \A c \in agent.blocked : tools[c].state = "none"
  BY <1>0 DEF PartsOK
<1>6. PartsOK'
  <2>1. Told'
    BY <1>0, <1>3, <1>5 DEF Told
  <2>2. ASSUME NEW c \in A!Calls
        PROVE  /\ blocks'[c].status \in {"ended", "cut"} /\ tools[c].applied = "yes" => blocks'[c].applied
               /\ blocks'[c].status = "ended" => tools[c].state = "done"
               /\ blocks'[c].status = "not_executed" => \/ tools[c].state = "refused"
                                                        \/ tools[c].state = "none" /\ graph.pc = "closed"
               /\ blocks'[c].status # "cut"
    BY <1>0, <1>3, <1>5 DEF PartsOK
  <2> QED
    BY <1>0, <1>4, <2>1, <2>2 DEF PartsOK
<1>7. EndOK'
  BY <1>4 DEF EndOK
<1> QED
  BY <1>0, <1>3, <1>4, <1>6, <1>7, LeavesLoop DEF Closed

LEMMA UnwindKeeps ==
  ASSUME AgentInv, A!Unwind
  PROVE  AgentInv'
<1>0. /\ GraphOK /\ CallsOK /\ PartsOK /\ EndOK /\ graph \in Graphs /\ agent \in Agents
      /\ resp \in [A!Rounds -> [kind : {"none", "good", "bad"}, calls : SUBSET A!Calls]]
      /\ tools \in [A!Calls -> CallRecords] /\ reply \in Replies /\ blocks \in [A!Calls -> Parts]
      /\ reply.pc = "unwind" /\ UNCHANGED <<resp, agent, blocks>> /\ events' = <<>>
      /\ reply' = [reply EXCEPT !.pc = "pending"]
  BY AgentTypes DEF AgentInv, A!Unwind
<1>1. PICK finished \in SUBSET A!In("running") :
         tools' = [c \in A!Calls |->
             IF graph.end = "tool" THEN tools[c]
             ELSE [state   |-> IF tools[c].state \in {"running",
               "proposed"} THEN "killed" ELSE tools[c].state,
                   applied |-> IF c \in finished THEN "yes" ELSE tools[c].applied]]
  BY DEF A!Unwind
<1>2. reply' \in Replies /\ reply'.pc = "pending" /\ reply'.outcome = reply.outcome
  BY <1>0 DEF Replies
<1>3. /\ tools' \in [A!Calls -> CallRecords]
      /\ graph.end = "tool" => \A c \in A!Calls : tools'[c] = tools[c]
      /\ graph.end # "tool" => \A c \in A!Calls :
           /\ tools[c].state \in {"running", "proposed"} => tools'[c].state = "killed"
           /\ tools[c].state \notin {"running", "proposed"} => tools'[c].state = tools[c].state
           /\ tools'[c].applied = tools[c].applied \/
                (tools[c].state = "running" /\ tools'[c].applied = "yes")
  <2>1. CASE graph.end = "tool"
    BY <1>0, <1>1, <2>1
  <2>2. CASE graph.end # "tool"
    <3> DEFINE st(c) == IF tools[c].state \in {"running", "proposed"} THEN "killed" ELSE tools[c].state
               ap(c) == IF c \in finished THEN "yes" ELSE tools[c].applied
    <3>1. \A c \in A!Calls : /\ st(c) \in {"none", "proposed", "running", "done", "refused", "raised",
                                  "killed"}
                             /\ ap(c) \in {"no", "yes", "late"}
                             /\ tools[c].state \in {"running", "proposed"} => st(c) = "killed"
                             /\ tools[c].state \notin {"running", "proposed"} => st(c) = tools[c].state
                             /\ ap(c) = tools[c].applied \/ (tools[c].state = "running" /\ ap(c) = "yes")
      BY <1>0 DEF CallRecords, A!In
    <3>2. tools' = [c \in A!Calls |-> [state |-> st(c), applied |-> ap(c)]]
      BY <1>1, <2>2
    <3> HIDE DEF st, ap
    <3>3. tools' \in [A!Calls -> CallRecords] /\ \A c \in A!Calls : tools'[c].state = st(c) /\
            tools'[c].applied = ap(c)
      BY <3>1, <3>2 DEF CallRecords
    <3> QED
      BY <2>2, <3>1, <3>3
  <2> QED
    BY <2>1, <2>2
<1>4. /\ graph' \in Graphs /\ graph'.pc = "closed" /\ graph'.round = graph.round
      /\ \/ graph' = graph /\ graph.pc = "closed"
         \/ graph.pc # "closed" /\ graph'.end = "cancelled"
  BY <1>0, GraphTo DEF A!Unwind, Ends
<1>5. AgentTyped'
  <2>1. events' \in Seq(Events)
    BY <1>0, EmptySeq
  <2> QED
    BY <1>0, <1>2, <1>3, <1>4, <2>1 DEF AgentTyped, Agents, Replies, Parts
<1>6. GraphOK'
  BY <1>0, <1>4 DEF GraphOK
<1>7. CallsOK'
  <2> SUFFICES ASSUME NEW c \in A!Calls
               PROVE  /\ tools'[c].state # "none" => c \in resp[c[1]].calls
                      /\ tools'[c].state \in {"none", "proposed", "refused"} => tools'[c].applied = "no"
                      /\ graph'.end # "tool" => tools'[c].state \notin {"proposed", "running"}
                      /\ tools'[c].state = "raised" => graph'.end = "tool"
    BY <1>0, <1>2 DEF CallsOK
  <2>1. graph.end = "tool" => graph'.end = "tool"
    BY <1>0, <1>4 DEF GraphOK
  <2> QED
    BY <1>0, <1>3, <1>4, <2>1 DEF CallsOK
<1>8. EventsOK' /\ RoundsOK' /\ OrderOK' /\ PairsOK'
  BY <1>0, <1>2 DEF EventsOK, RoundsOK, OrderOK, PairsOK, Live
<1>9. PartsOK'
  <2>1. ASSUME NEW c \in A!Calls
        PROVE  /\ blocks[c].status \in {"ended", "cut"} /\ tools'[c].applied = "yes" => blocks[c].applied
               /\ blocks[c].status = "ended" => tools'[c].state = "done"
               /\ blocks[c].status = "not_executed" => \/ tools'[c].state = "refused"
                                                       \/ tools'[c].state = "none" /\ graph'.pc = "closed"
    BY <1>0, <1>3, <1>4 DEF PartsOK
  <2> QED
    BY <1>0, <1>2, <2>1 DEF PartsOK
<1>10. EndOK'
  BY <1>0, <1>2 DEF EndOK
<1> QED
  BY <1>5, <1>6, <1>7, <1>8, <1>9, <1>10 DEF AgentInv

LEMMA FinishPendingKeeps ==
  ASSUME AgentInv, A!FinishPending
  PROVE  AgentInv'
<1>0. /\ GraphOK /\ CallsOK /\ PartsOK /\ EndOK /\ reply \in Replies /\ blocks \in [A!Calls -> Parts]
      /\ resp \in [A!Rounds -> [kind : {"none", "good", "bad"}, calls : SUBSET A!Calls]]
      /\ reply.pc = "pending" /\ UNCHANGED <<graph, resp, tools, events, agent>>
      /\ reply' = [reply EXCEPT !.pc = "finalize", !.open = {}]
      /\ blocks' = [c \in A!Calls |-> IF c \in reply.open \cup A!Untaken THEN A!Result(c,
           "cut") ELSE blocks[c]]
  BY AgentTypes DEF AgentInv, A!FinishPending
<1>1. reply' \in Replies /\ reply'.pc = "finalize" /\ reply'.outcome = reply.outcome /\ reply'.open = {}
  BY <1>0 DEF Replies
<1>2. ASSUME NEW c \in A!Calls
      PROVE  LET p == A!Result(c, "cut") IN
             p \in Parts /\ p.status = "cut" /\ (tools[c].applied = "yes" => p.applied)
  <2> DEFINE b == tools[c].applied = "yes"
  <2>1. b \in BOOLEAN /\ (tools[c].applied = "yes" => b) /\
          A!Result(c, "cut") = [status |-> "cut", applied |-> b]
    BY DEF A!Result
  <2> HIDE DEF b
  <2> QED
    BY <2>1 DEF Parts
<1> DEFINE cut(c) == A!Result(c, "cut")
<1>3. blocks' = [c \in A!Calls |-> IF c \in reply.open \cup A!Untaken THEN cut(c) ELSE blocks[c]]
  BY <1>0
<1>4. \A c \in A!Calls : cut(c) \in Parts /\ cut(c).status = "cut" /\
        (tools[c].applied = "yes" => cut(c).applied)
  BY <1>2
<1> HIDE DEF cut
<1>5. /\ blocks' \in [A!Calls -> Parts]
      /\ \A c \in A!Calls :
           \/ blocks'[c].status = "cut" /\ (tools[c].applied = "yes" => blocks'[c].applied)
              /\ c \in reply.open \cup A!Untaken
           \/ blocks'[c] = blocks[c] /\ c \notin A!Untaken
  BY <1>0, <1>3, <1>4
<1>6. PartsOK'
  <2>1. ASSUME NEW c \in A!Calls
        PROVE  /\ blocks'[c].status \in {"ended", "cut"} /\ tools[c].applied = "yes" => blocks'[c].applied
               /\ blocks'[c].status = "ended" => tools[c].state = "done"
               /\ blocks'[c].status = "not_executed" => \/ tools[c].state = "refused"
                                                        \/ tools[c].state = "none" /\ graph.pc = "closed"
    BY <1>0, <1>5 DEF PartsOK
  <2>2. ASSUME NEW c \in A!Calls, tools[c].applied = "yes" PROVE blocks'[c].applied
    <3>1. CASE blocks'[c] = blocks[c] /\ c \notin A!Untaken
      <4>1. blocks[c].status \notin {"none", "running"} /\
              blocks[c].status \in {"none", "running", "ended", "not_executed", "cut"}
        BY <1>0, <2>2, <3>1 DEF A!Untaken, Parts
      <4>2. blocks[c].status # "not_executed"
        BY <1>0, <2>2 DEF PartsOK, CallsOK
      <4> QED
        BY <1>0, <2>2, <3>1, <4>1, <4>2 DEF PartsOK
    <3> QED
      BY <1>5, <2>2, <3>1
  <2>3. Told'
    BY <1>0, <2>2 DEF Told
  <2> QED
    BY <1>0, <1>1, <2>1, <2>3 DEF PartsOK
<1>7. EndOK'
  <2> SUFFICES ASSUME reply.outcome \in {"completed", "decision_budget"}
               PROVE graph.pc = "closed" /\ Settled'
    BY <1>0, <1>1 DEF EndOK
  <2>1. graph.pc = "closed" /\ reply.open = {} /\ Settled
    BY <1>0 DEF EndOK
  <2>2. ASSUME NEW c \in A!Proposed PROVE blocks'[c].status \in A!Final
    <3>1. c \in A!Calls /\ blocks[c].status \in A!Final
      BY <1>0, <2>1 DEF A!Proposed, Settled
    <3>2. c \notin A!Untaken
      BY <3>1 DEF A!Untaken, A!Final
    <3> QED
      BY <1>5, <2>1, <3>1, <3>2
  <2> QED
    BY <1>0, <2>1, <2>2 DEF Settled, A!Proposed
<1> QED
  BY <1>0, <1>1, <1>5, <1>6, <1>7, LeavesLoop DEF Closed

LEMMA FinalizeKeeps ==
  ASSUME AgentInv, A!Finalize
  PROVE  AgentInv'
<1>0. /\ PartsOK /\ EndOK /\ reply \in Replies /\ blocks \in [A!Calls -> Parts]
      /\ resp \in [A!Rounds -> [kind : {"none", "good", "bad"}, calls : SUBSET A!Calls]]
      /\ reply.pc = "finalize" /\ UNCHANGED <<graph, resp, tools, events, agent>>
      /\ reply' = [reply EXCEPT !.pc = "over"]
      /\ blocks' = [c \in A!Calls |-> IF blocks[c].status = "running" THEN [blocks[c] EXCEPT !.status = "cut"] ELSE blocks[c]]
  BY AgentTypes DEF AgentInv, A!Finalize
<1>1. /\ reply' \in Replies /\ reply'.pc = "over" /\ reply'.outcome = reply.outcome /\
           reply'.open = reply.open
  BY <1>0 DEF Replies
<1>2. \A c \in A!Calls : LET p == [blocks[c] EXCEPT !.status = "cut"] IN
        p \in Parts /\ p.status = "cut" /\ p.applied = blocks[c].applied
  BY <1>0 DEF Parts
<1>3. /\ blocks' \in [A!Calls -> Parts]
      /\ \A c \in A!Calls : /\ blocks'[c].applied = blocks[c].applied
                            /\ blocks'[c] = blocks[c] \/
                                 (blocks[c].status = "running" /\ blocks'[c].status = "cut")
  BY <1>0, <1>2
<1>4. PartsOK'
  <2>1. Told /\ Told'
    BY <1>0, <1>3 DEF PartsOK, Told
  <2>2. ASSUME NEW c \in A!Calls
        PROVE  /\ blocks'[c].status \in {"ended", "cut"} /\ tools[c].applied = "yes" => blocks'[c].applied
               /\ blocks'[c].status = "ended" => tools[c].state = "done"
               /\ blocks'[c].status = "not_executed" => \/ tools[c].state = "refused"
                                                        \/ tools[c].state = "none" /\ graph.pc = "closed"
    BY <1>0, <1>3, <2>1 DEF PartsOK, Told
  <2> QED
    BY <1>0, <1>1, <2>1, <2>2 DEF PartsOK
<1>5. EndOK'
  <2> SUFFICES ASSUME reply.outcome \in {"completed", "decision_budget"}
               PROVE  graph.pc = "closed" /\ reply.open = {} /\ Settled'
    BY <1>0, <1>1 DEF EndOK
  <2>1. graph.pc = "closed" /\ reply.open = {} /\ Settled
    BY <1>0 DEF EndOK
  <2>2. ASSUME NEW c \in A!Proposed PROVE blocks'[c].status \in A!Final
    BY <1>0, <1>3, <2>1 DEF A!Proposed, Settled, A!Final
  <2> QED
    BY <1>0, <2>1, <2>2 DEF Settled, A!Proposed
<1> QED
  BY <1>0, <1>1, <1>3, <1>4, <1>5, LeavesLoop DEF Closed

\* A step that touches nothing but the owner, who stays where it is in its loop.
LEMMA OwnerStays ==
  ASSUME AgentInv, UNCHANGED <<graph, resp, tools, events, agent, blocks>>, reply' \in Replies,
         reply'.pc = reply.pc, reply'.event = reply.event, reply'.open = reply.open,
           reply'.outcome = reply.outcome
  PROVE  AgentInv'
<1>0. /\ EventsOK /\ RoundsOK /\ OrderOK /\ PairsOK /\ PartsOK /\ EndOK
      /\ events \in Seq(Events) /\ agent \in Agents /\ blocks \in [A!Calls -> Parts]
  BY AgentTypes DEF AgentInv
<1>1. AgentTyped' /\ GraphOK' /\ CallsOK'
  BY <1>0, OwnersFrame
<1>2. /\ \A kind, at : (Waits(kind, at)' <=> Waits(kind, at)) /\ (Held(kind, at)' <=> Held(kind, at))
      /\ (Live' <=> Live)
  BY DEF Waits, Held, Live
<1>3. EventsOK'
  BY <1>0 DEF EventsOK, EventOK
<1>4. RoundsOK'
  BY <1>0, <1>2 DEF RoundsOK
<1>5. OrderOK'
  BY <1>0, <1>2 DEF OrderOK
<1>6. PairsOK'
  <2>1. \A c \in A!Calls : (Closes(c)' <=> Closes(c)) /\ (IsAnswered(c)' <=> IsAnswered(c))
    BY <1>2 DEF Closes, IsAnswered
  <2> QED
    BY <1>0, <1>2, <2>1 DEF PairsOK
<1>7. PartsOK'
  BY <1>0 DEF PartsOK, Told
<1>8. EndOK'
  BY <1>0 DEF EndOK, Settled, A!Proposed
<1> QED
  BY <1>1, <1>3, <1>4, <1>5, <1>6, <1>7, <1>8 DEF AgentInv

LEMMA StopAskedKeeps ==
  ASSUME AgentInv, A!StopAsked
  PROVE  AgentInv'
<1>1. reply \in Replies /\ UNCHANGED <<graph, resp, tools, events, agent, blocks>> /\
        reply' = [reply EXCEPT !.stop = "asked"]
  BY AgentTypes DEF A!StopAsked
<1>2. /\ reply' \in Replies /\ reply'.pc = reply.pc /\ reply'.event = reply.event /\
           reply'.open = reply.open
      /\ reply'.outcome = reply.outcome
  BY <1>1 DEF Replies
<1> QED
  BY <1>1, <1>2, OwnerStays

LEMMA StopArrivesKeeps ==
  ASSUME AgentInv, A!StopArrives
  PROVE  AgentInv'
<1>0. /\ reply \in Replies /\ blocks \in [A!Calls -> Parts] /\ PartsOK /\ reply.pc # "over"
      /\ UNCHANGED <<graph, resp, tools, events, agent, blocks>>
  BY AgentTypes DEF AgentInv, A!StopArrives
<1>1. CASE A!Shielded
  <2>1. reply' = [reply EXCEPT !.stop = "sent", !.hit = TRUE]
    BY <1>1 DEF A!StopArrives
  <2>2. /\ reply' \in Replies /\ reply'.pc = reply.pc /\ reply'.event = reply.event /\
             reply'.open = reply.open
        /\ reply'.outcome = reply.outcome
    BY <1>0, <2>1 DEF Replies
  <2> QED
    BY <1>0, <2>2, OwnerStays
<1>2. CASE ~A!Shielded
  <2> DEFINE to == IF reply.pc \in {"pending", "finalize"} THEN "pending" ELSE "unwind"
  <2>1. reply' = [reply EXCEPT !.stop = "sent", !.outcome = "stopped", !.pc = to]
    BY <1>2 DEF A!StopArrives
  <2>2. to \in {"pending", "unwind"} /\ (reply.pc \in Closed => to = "pending")
    BY <1>0 DEF Closed
  <2> HIDE DEF to
  <2>3. reply' \in Replies /\ reply'.pc = to /\ reply'.outcome = "stopped"
    BY <1>0, <2>1, <2>2 DEF Replies
  <2>4. EndOK'
    BY <2>3 DEF EndOK
  <2>5. PartsOK'
    BY <1>0, <2>2, <2>3 DEF PartsOK, Closed
  <2> QED
    BY <1>0, <2>2, <2>3, <2>4, <2>5, LeavesLoop DEF Closed
<1> QED
  BY <1>1, <1>2

LEMMA AgentInit ==
  ASSUME A!Init
  PROVE  AgentInv
<1>0. PICK limit \in Limits :
        graph = [pc |-> "prompt", round |-> 0, steps |-> limit, remaining |-> limit, end |-> "none"]
  BY DEF A!Init
<1>1. /\ graph \in Graphs /\ graph.pc = "prompt" /\ graph.round = 0 /\ graph.end = "none"
  BY <1>0, AgentAssumption DEF Graphs
<1>2. /\ \A r \in A!Rounds : resp[r].kind = "none" /\ resp[r].calls = {}
      /\ resp \in [A!Rounds -> [kind : {"none", "good", "bad"}, calls : SUBSET A!Calls]]
  BY DEF A!Init
<1>3. /\ \A c \in A!Calls : tools[c].state = "none" /\ tools[c].applied = "no"
      /\ tools \in [A!Calls -> CallRecords]
  BY DEF A!Init, CallRecords
<1>4. events = <<>> /\ events \in Seq(Events) /\ DOMAIN events = {}
  BY EmptySeq DEF A!Init
<1>5. agent \in Agents /\ agent.seen = {} /\ agent.pending = {} /\ agent.started = {}
  BY DEF A!Init, Agents
<1>6. reply \in Replies /\ reply.pc = "take" /\ reply.open = {} /\ reply.outcome = "none"
  BY DEF A!Init, Replies
<1>7. blocks \in [A!Calls -> Parts] /\ \A c \in A!Calls : blocks[c].status = "none"
  BY DEF A!Init, Parts
<1>8. AgentTyped
  BY <1>1, <1>2, <1>3, <1>4, <1>5, <1>6, <1>7 DEF AgentTyped, Agents, Replies, Parts
<1>9. GraphOK /\ CallsOK
  BY <1>1, <1>2, <1>3 DEF GraphOK, CallsOK
<1>10. EventsOK /\ RoundsOK /\ OrderOK
  BY <1>2, <1>4, <1>5, <1>6 DEF EventsOK, RoundsOK, OrderOK
<1>11. PairsOK
  BY <1>1, <1>3, <1>5, <1>6 DEF PairsOK, IsAnswered
<1>12. PartsOK /\ EndOK
  BY <1>6, <1>7 DEF PartsOK, EndOK
<1> QED
  BY <1>8, <1>9, <1>10, <1>11, <1>12 DEF AgentInv

LEMMA AgentStutter ==
  ASSUME AgentInv, UNCHANGED A!vars
  PROVE  AgentInv'
<1>1. reply' \in Replies /\ UNCHANGED <<graph, resp, tools, events, agent, reply, blocks>>
  BY AgentTypes DEF A!vars
<1> QED
  BY <1>1, OwnerStays

LEMMA AgentStep ==
  ASSUME AgentInv, A!Next
  PROVE  AgentInv'
<1>1. CASE A!GraphStep
  BY <1>1, GraphSteps
<1>2. CASE A!ReplyStep
  BY <1>2, TakeKeeps, StoresUsage, StoresStart, StoresRefusal, StoresResult, StoreGivesUp,
     ReplyEndsKeeps, TellKeeps, UnwindKeeps, FinishPendingKeeps, FinalizeKeeps DEF A!ReplyStep
<1>3. CASE A!StopAsked \/ A!StopArrives
  BY <1>3, StopAskedKeeps, StopArrivesKeeps
<1> QED
  BY <1>1, <1>2, <1>3 DEF A!Next

LEMMA AgentEnds ==
  ASSUME AgentInv
  PROVE  A!EndsClosed /\ A!EffectIsTold
BY DEF AgentInv, EndOK, Settled, A!EndsClosed, PartsOK, Told, A!EffectIsTold


LEMMA AgentAlways == A!Spec => []AgentInv
<1>1. A!Init => AgentInv
  BY AgentInit
<1>2. AgentInv /\ [A!Next]_(A!vars) => AgentInv'
  BY AgentStep, AgentStutter
<1> QED
  BY <1>1, <1>2, PTL DEF A!Spec

\* A behaviour of the composition is one of the agent loop, which the other part leaves alone.
LEMMA AgentRun == ExecSpec => A!Spec
<1>1. ExecInit => A!Init
  BY DEF ExecInit
<1>2. [ExecNext]_execVars => [A!Next]_(A!vars)
  BY DEF ExecNext, execVars, agentVars, A!vars
<1> QED
  BY <1>1, <1>2, PTL DEF ExecSpec, A!Spec

\* A reply that is told completed, or stopped for want of another decision, has the stored result
\* of every call that was ever proposed and a whole last response, for any number of decisions and
\* of calls side by side, although results are stored behind the graph's back (run_agent).
THEOREM EndsAreClosed == ExecSpec => []EndsClosed
<1>1. AgentInv => EndsClosed
  BY AgentEnds DEF EndsClosed
<1> QED
  BY <1>1, AgentRun, AgentAlways, PTL

\* A change a call made before its reply was closed is told by the stored reply, wherever a stop,
\* a failing store or the end of the graph met the call (finish_pending, _finalize).
THEOREM EffectsAreTold == ExecSpec => []EffectIsTold
<1>1. AgentInv => EffectIsTold
  BY AgentEnds DEF EffectIsTold
<1> QED
  BY <1>1, AgentRun, AgentAlways, PTL
=============================================================================
