----------------------- MODULE ResourceAdmissionProofs -----------------------
(***************************************************************************)
(* No two admitted claims conflict, for any tasks, roots and overlaps.  The *)
(* invariant that carries it ties the list of admitted claims to where      *)
(* their tasks are: a claim is replaced only while its task is out, and     *)
(* then it is not admitted.  How the waiting list looks does not matter.    *)
(***************************************************************************)
EXTENDS ResourceAdmission, QueuesProofs

\* What the argument needs of the types.
Typed ==
  /\ active \subseteq Claimants
  /\ claim \in [Claimants -> Claims]
  /\ pc \in [Claimants -> PcSet]

\* An admitted claim belongs to a task that runs under it or is cleaning up.
ActivePlaces == \A t \in active : pc[t] \in {"entering", "inside", "leaving"}

\* The claims of the tasks in the list exclude each other.
Exclusion ==
  \A t, u \in active :
    t # u /\ <<claim[t].root, claim[u].root>> \in Overlaps
      => claim[t].mode = "read" /\ claim[u].mode = "read"

IInv == Typed /\ ActivePlaces /\ Exclusion

\* A task that was parked is out of the body, woken or not.
LEMMA WokenFacts ==
  ASSUME NEW p \in [Claimants -> PcSet]
  PROVE  /\ Woken(p) \in [Claimants -> PcSet]
         /\ \A u \in Claimants : p[u] # "parked" => Woken(p)[u] = p[u]
         /\ \A u \in Claimants : p[u] = "parked" => Woken(p)[u] = "woken"
  BY DEF Woken, PcSet

\* Admitting a claim that is not blocked by an admitted one keeps them apart.
LEMMA AdmitKeeps ==
  ASSUME IInv, NEW t \in Claimants, t \notin active,
         \A u \in active : ~Conflicts(claim'[t], claim[u]),
         active' = active \cup {t},
         claim' \in [Claimants -> Claims],
         \A u \in active : claim'[u] = claim[u]
  PROVE  Exclusion'
  <1>. SUFFICES ASSUME NEW a \in active', NEW b \in active', a # b,
                       <<claim'[a].root, claim'[b].root>> \in Overlaps
                PROVE  claim'[a].mode = "read" /\ claim'[b].mode = "read"
    BY DEF Exclusion
  <1>0. /\ claim'[a] \in [root : Roots, mode : {"read", "write"}]
        /\ claim'[b] \in [root : Roots, mode : {"read", "write"}]
    BY OverlapAssumption DEF IInv, Typed
  <1>1. CASE a \in active /\ b \in active
    BY <1>1 DEF IInv, Exclusion
  <1>2. CASE a = t /\ b \in active
    <2>1. ~Conflicts(claim'[t], claim'[b])
      BY <1>2
    <2>. QED
      BY <2>1, <1>2, <1>0 DEF Conflicts
  <1>3. CASE a \in active /\ b = t
    <2>1. ~Conflicts(claim'[t], claim'[a])
      BY <1>3
    <2>2. <<claim'[b].root, claim'[a].root>> \in Overlaps
      BY <1>0, OverlapAssumption
    <2>. QED
      BY <2>1, <2>2, <1>3, <1>0 DEF Conflicts
  <1>. QED
    BY <1>1, <1>2, <1>3

\* The check of a waiting claim, whatever it finds.
LEMMA CheckKeeps ==
  ASSUME IInv, NEW t \in Claimants, pc[t] \in {"report", "woken"},
         Check(t), UNCHANGED claim
  PROVE  IInv'
  <1>0. t \notin active
    BY DEF IInv, ActivePlaces
  <1>1. CASE UNCHANGED active /\ pc' = [pc EXCEPT ![t] = "leaving"]
    BY <1>0, <1>1 DEF IInv, Typed, ActivePlaces, Exclusion, PcSet
  <1>2. CASE UNCHANGED active /\ pc' = [pc EXCEPT ![t] = "parked"]
    BY <1>0, <1>2 DEF IInv, Typed, ActivePlaces, Exclusion, PcSet
  <1>3. CASE ~Blocked(t, claim[t]) /\ Admit(t)
    <2>1. /\ active' = active \cup {t}
          /\ pc' \in [Claimants -> PcSet] /\ pc'[t] \in {"entering", "inside"}
          /\ \A u \in active : pc'[u] = pc[u]
      BY <1>0, <1>3 DEF Admit, Goto, PcSet, IInv, Typed
    <2>2. \A u \in active : ~Conflicts(claim'[t], claim[u])
      BY <1>0, <1>3 DEF Blocked
    <2>3. Exclusion'
      BY <1>0, <2>1, <2>2, AdmitKeeps DEF IInv, Typed
    <2>. QED
      BY <2>1, <2>3 DEF IInv, Typed, ActivePlaces
  <1>. QED
    BY <1>1, <1>2, <1>3 DEF Check, Goto

\* The invariant is inductive.
LEMMA Inductive == IInv /\ [Next]_vars => IInv'
  <1>. SUFFICES ASSUME IInv, [Next]_vars PROVE IInv'
    OBVIOUS
  <1>1. ASSUME NEW t \in Claimants, NEW c \in Claims, Ask(t, c) PROVE IInv'
    <2>0. t \notin active /\ claim' \in [Claimants -> Claims] /\ claim'[t] = c
          /\ \A u \in active : claim'[u] = claim[u]
      BY <1>1 DEF Ask, IInv, Typed, ActivePlaces
    <2>1. CASE ~Blocked(t, c) /\ active' = active \cup {t} /\ Goto(t, "inside")
      <3>1. \A u \in active : ~Conflicts(claim'[t], claim[u])
        BY <2>0, <2>1 DEF Blocked
      <3>2. Exclusion'
        BY <2>0, <2>1, <3>1, AdmitKeeps
      <3>. QED
        BY <2>0, <2>1, <3>2 DEF Goto, IInv, Typed, ActivePlaces, PcSet
    <2>2. CASE Goto(t, "report") /\ UNCHANGED active
      BY <2>0, <2>2 DEF Goto, IInv, Typed, ActivePlaces, Exclusion, PcSet
    <2>. QED
      BY <1>1, <2>1, <2>2 DEF Ask
  <1>2. ASSUME NEW t \in Claimants, Report(t) PROVE IInv'
    BY <1>2, CheckKeeps DEF Report
  <1>3. ASSUME NEW t \in Claimants, Recheck(t) PROVE IInv'
    BY <1>3, CheckKeeps DEF Recheck
  <1>4. ASSUME NEW t \in Claimants, Enter(t) PROVE IInv'
    BY <1>4 DEF Enter, Goto, IInv, Typed, ActivePlaces, Exclusion, PcSet
  <1>5. ASSUME NEW t \in Claimants, Interrupt(t) PROVE IInv'
    BY <1>5 DEF Interrupt, IInv, Typed, ActivePlaces, Exclusion
  <1>6. ASSUME NEW t \in Claimants, Thrown(t) PROVE IInv'
    <2>1. UNCHANGED <<active, claim>> /\ pc' = [pc EXCEPT ![t] = "leaving"]
      BY <1>6 DEF Thrown, Goto
    <2>. QED
      BY <2>1 DEF IInv, Typed, ActivePlaces, Exclusion, PcSet
  <1>7. ASSUME NEW t \in Claimants, Leave(t) PROVE IInv'
    BY <1>7 DEF Leave, Goto, IInv, Typed, ActivePlaces, Exclusion, PcSet
  <1>8. ASSUME NEW t \in Claimants, CleanUp(t) PROVE IInv'
    <2>. DEFINE p == [pc EXCEPT ![t] = IF t \in reported THEN "clearing" ELSE "out"]
    <2>0. p \in [Claimants -> PcSet]
      BY DEF IInv, Typed, PcSet
    <2>1. pc' = Woken(p)
      BY <1>8 DEF CleanUp
    <2>2. active' = active \ {t} /\ claim' \in [Claimants -> Claims]
          /\ \A u \in active' : claim'[u] = claim[u] /\ p[u] = pc[u]
      BY <1>8, OverlapAssumption DEF CleanUp, Dropped, Idle, IInv, Typed
    <2>. HIDE DEF p
    <2>3. pc' \in [Claimants -> PcSet] /\ \A u \in active' : pc'[u] = pc[u]
      BY <2>0, <2>1, <2>2, WokenFacts DEF IInv, Typed, ActivePlaces
    <2>. QED
      BY <2>2, <2>3 DEF IInv, Typed, ActivePlaces, Exclusion
  <1>9. ASSUME NEW t \in Claimants, ClearRow(t) PROVE IInv'
    BY <1>9 DEF ClearRow, Goto, IInv, Typed, ActivePlaces, Exclusion, PcSet
  <1>10. CASE Close
    <2>1. pc' \in [Claimants -> PcSet] /\ \A u \in active : pc'[u] = pc[u]
      BY <1>10, WokenFacts DEF Close, IInv, Typed, ActivePlaces
    <2>. QED
      BY <1>10, <2>1 DEF Close, IInv, Typed, ActivePlaces, Exclusion
  <1>11. CASE UNCHANGED vars
    BY <1>11 DEF vars, IInv, Typed, ActivePlaces, Exclusion
  <1>. QED
    BY <1>1, <1>2, <1>3, <1>4, <1>5, <1>6, <1>7, <1>8, <1>9, <1>10, <1>11
       DEF Next, TaskStep

\* Two admitted claims never conflict (ResourceAdmission.claim), for any number
\* of tasks and any roots, overlapping or not.
THEOREM NoConflict == Spec => []MutualExclusion
  <1>1. Init => IInv
    BY OverlapAssumption DEF Init, IInv, Typed, ActivePlaces, Exclusion, Idle, PcSet
  <1>2. IInv => MutualExclusion
    BY DEF IInv, Exclusion, MutualExclusion
  <1>. QED
    BY <1>1, <1>2, Inductive, PTL DEF Spec

-----------------------------------------------------------------------------
(***************************************************************************)
(* The waiting list.  Owned ties it to where the tasks are, which is what  *)
(* keeps a blocked claim blocked: whoever is in its way stays so until it  *)
(* cleans up, and a clean-up wakes every parked task.                      *)
(***************************************************************************)
Owned == waiting \in Seq(Claimants) /\ ClaimsOwned

\* Who is ahead of a claim that waits, waits.
LEMMA AheadWait ==
  ASSUME Owned, NEW t \in Queued
  PROVE  AheadOf(t) \subseteq Queued
<1>1. PICK k \in DOMAIN waiting : waiting[k] = t
  BY DEF Queued, Members
<1>2. AheadOf(t) = {waiting[i] : i \in 1..(k - 1)}
  BY <1>1, BeforeIs DEF AheadOf, Owned, ClaimsOwned
<1> QED
  BY <1>1, <1>2 DEF Queued, Members, Owned

\* A claim that waits stays blocked while others come behind it.
LEMMA AppendKeepsBlocked ==
  ASSUME Owned, NEW t \in Queued, Blocked(t, claim[t]), NEW v \in Claimants, v \notin Queued, v \notin active,
         waiting' = Append(waiting, v), active' = active,
         \A u \in active \cup Queued : claim'[u] = claim[u]
  PROVE  Blocked(t, claim[t])'
<1>1. PICK u \in active \cup AheadOf(t) : u # t /\ Conflicts(claim[t], claim[u])
  BY DEF Blocked
<1>2. t \in Queued' /\ AheadOf(t)' = AheadOf(t)
  BY BeforeAppend, AppendDistinct DEF Owned, ClaimsOwned, Queued, AheadOf
<1>3. AheadOf(t) \subseteq Queued
  BY AheadWait
<1>4. claim'[u] = claim[u] /\ claim'[t] = claim[t]
  BY <1>1, <1>3
<1> QED
  BY <1>1, <1>2, <1>4 DEF Blocked

\* Nor does it help that one ahead of it is admitted.
LEMMA AdmitKeepsBlocked ==
  ASSUME Owned, NEW t \in Queued, Blocked(t, claim[t]), NEW v \in Claimants, v # t,
         waiting' = Without(waiting, v), active' = active \cup {v}, claim' = claim
  PROVE  t \in Queued' /\ Blocked(t, claim[t])'
<1>1. PICK u \in active \cup AheadOf(t) : u # t /\ Conflicts(claim[t], claim[u])
  BY DEF Blocked
<1>2. t \in Queued' /\ AheadOf(t) \ {v} \subseteq AheadOf(t)'
  BY BeforeWithout DEF Owned, ClaimsOwned, Queued, AheadOf
<1>3. u \in active' \cup AheadOf(t)'
  BY <1>1, <1>2
<1> QED
  BY <1>1, <1>2, <1>3 DEF Blocked

\* Taking t out of the list, with the task left where it is by the others.
LEMMA RemovalKeepsOwned ==
  ASSUME IInv, Owned, NEW t \in Claimants, waiting' = Without(waiting, t),
         \/ active' = active \cup {t} /\ pc'[t] \in Admitted
         \/ active' = active \ {t} /\ pc'[t] \in {"out", "clearing"},
         \A u \in Claimants : u # t => pc'[u] = pc[u] \/ (pc[u] = "parked" /\ pc'[u] = "woken")
  PROVE  Owned'
<1>1. /\ waiting' \in Seq(Claimants) /\ Distinct(waiting')
      /\ \A i \in DOMAIN waiting' : waiting'[i] # t /\ waiting'[i] \in Members(waiting)
      /\ \A i \in DOMAIN waiting : waiting[i] # t => waiting[i] \in Members(waiting')
  BY WithoutKeeps DEF Owned, ClaimsOwned
<1>2. Queued' = Queued \ {t}
  BY <1>1 DEF Queued, Members
<1>3. \A u \in Claimants \ {t} :
        /\ u \in active' <=> u \in active
        /\ u \in Queued' <=> u \in Queued
        /\ pc'[u] \in Admitted <=> pc[u] \in Admitted
        /\ pc'[u] \in Registered <=> pc[u] \in Registered
        /\ pc'[u] = "leaving" <=> pc[u] = "leaving"
  BY <1>2 DEF Admitted, Registered
<1>4. active' \subseteq Claimants /\ Queued' \subseteq Claimants /\ Queued \subseteq Claimants
  BY <1>1 DEF IInv, Typed, Owned, Queued, Members
<1>5. \A u \in active' : pc'[u] \in Admitted \cup {"leaving"}
  BY <1>3, <1>4 DEF Owned, ClaimsOwned
<1>6. \A u \in Claimants : pc'[u] \in Admitted => u \in active'
  BY <1>3 DEF Owned, ClaimsOwned, Admitted
<1>7. \A u \in Claimants : pc'[u] \in Registered => u \in Queued'
  BY <1>3 DEF Owned, ClaimsOwned, Registered, Admitted
<1>8. \A u \in Queued' : pc'[u] \in Registered \cup {"leaving"} /\ u \notin active'
  BY <1>2, <1>3, <1>4 DEF Owned, ClaimsOwned
<1> QED
  BY <1>1, <1>5, <1>6, <1>7, <1>8 DEF Owned, ClaimsOwned

\* A step that leaves both lists alone and moves tasks within their group.
LEMMA MoveKeepsOwned ==
  ASSUME IInv, Owned, UNCHANGED <<waiting, active>>,
         \A u \in Claimants :
           \/ pc'[u] = pc[u]
           \/ pc[u] \in Registered /\ pc'[u] \in Registered
           \/ pc[u] \in Registered \cup Admitted /\ pc'[u] = "leaving"
           \/ pc[u] \in Admitted /\ pc'[u] \in Admitted
           \/ pc[u] = "clearing" /\ pc'[u] = "out"
  PROVE  Owned'
<1>1. Queued' = Queued /\ Queued \subseteq Claimants /\ active \subseteq Claimants
  BY DEF Queued, Members, Owned, IInv, Typed
<1>2. \A u \in active : pc'[u] \in Admitted \cup {"leaving"}
  BY <1>1 DEF Owned, ClaimsOwned, Admitted, Registered
<1>3. \A u \in Claimants : pc'[u] \in Admitted => u \in active
  BY DEF Owned, ClaimsOwned, Admitted, Registered
<1>4. \A u \in Claimants : pc'[u] \in Registered => u \in Queued
  BY DEF Owned, ClaimsOwned, Admitted, Registered
<1>5. \A u \in Queued : pc'[u] \in Registered \cup {"leaving"} /\ u \notin active
  BY <1>1 DEF Owned, ClaimsOwned, Admitted, Registered
<1> QED
  BY <1>1, <1>2, <1>3, <1>4, <1>5 DEF Owned, ClaimsOwned

LEMMA OwnedStep == IInv /\ Owned /\ [Next]_vars => Owned'
<1> SUFFICES ASSUME IInv, Owned, [Next]_vars PROVE Owned'
  OBVIOUS
<1>1. ASSUME NEW t \in Claimants, NEW c \in Claims, Ask(t, c) PROVE Owned'
  <2>0. pc[t] = "out" /\ t \notin active /\ t \notin Queued
    BY <1>1 DEF Ask, IInv, ActivePlaces, Owned, ClaimsOwned, Registered
  <2>1. CASE active' = active \cup {t} /\ Goto(t, "inside") /\ UNCHANGED waiting
    BY <2>0, <2>1 DEF Goto, IInv, Typed, Owned, ClaimsOwned, Queued, Registered, Admitted
  <2>2. CASE waiting' = Append(waiting, t) /\ Goto(t, "report") /\ UNCHANGED active
    <3>1. Members(waiting)' = Members(waiting) \cup {t} /\ Distinct(waiting')
      BY <2>0, <2>2, AppendDistinct DEF Owned, ClaimsOwned, Queued
    <3>2. waiting' \in Seq(Claimants)
      BY <2>2 DEF Owned
    <3>3. pc'[t] = "report" /\ \A u \in Claimants : u # t => pc'[u] = pc[u]
      BY <2>2 DEF Goto, IInv, Typed
    <3>4. Queued \subseteq Claimants /\ active \subseteq Claimants
      BY DEF Queued, Members, Owned, IInv, Typed
    <3> QED
      BY <2>0, <2>2, <3>1, <3>2, <3>3, <3>4 DEF Owned, ClaimsOwned, Queued, Registered, Admitted
  <2> QED
    BY <1>1, <2>1, <2>2 DEF Ask
<1>2. ASSUME NEW t \in Claimants, pc[t] \in {"report", "woken"}, Check(t) PROVE Owned'
  <2>1. CASE UNCHANGED <<active, waiting>> /\ (Goto(t, "leaving") \/ Goto(t, "parked"))
    BY <1>2, <2>1, MoveKeepsOwned DEF Goto, IInv, Typed, Registered
  <2>2. CASE Admit(t)
    <3>1. /\ pc'[t] \in Admitted /\ \A u \in Claimants : u # t => pc'[u] = pc[u]
          /\ active' = active \cup {t} /\ waiting' = Without(waiting, t)
      BY <2>2 DEF Admit, Goto, IInv, Typed, Admitted
    <3> QED
      BY <3>1, RemovalKeepsOwned
  <2> QED
    BY <1>2, <2>1, <2>2 DEF Check
<1>3. ASSUME NEW t \in Claimants, CleanUp(t) PROVE Owned'
  <2> DEFINE p == [pc EXCEPT ![t] = IF t \in reported THEN "clearing" ELSE "out"]
  <2>0. p \in [Claimants -> PcSet] /\ pc' = Woken(p)
    BY <1>3 DEF CleanUp, IInv, Typed, PcSet
  <2>1. p[t] \in {"out", "clearing"} /\ \A u \in Claimants : u # t => p[u] = pc[u]
    BY DEF IInv, Typed
  <2> HIDE DEF p
  <2>2. pc'[t] \in {"out", "clearing"}
    BY <2>0, <2>1, WokenFacts
  <2>3. \A u \in Claimants : u # t => pc'[u] = pc[u] \/ (pc[u] = "parked" /\ pc'[u] = "woken")
    BY <2>0, <2>1, WokenFacts
  <2> QED
    BY <1>3, <2>2, <2>3, RemovalKeepsOwned DEF CleanUp, Dropped
<1>4. ASSUME NEW t \in Claimants, Report(t) \/ Recheck(t) PROVE Owned'
  BY <1>2, <1>4 DEF Report, Recheck
<1>5. ASSUME NEW t \in Claimants, Enter(t) \/ Interrupt(t) \/ Thrown(t) \/ Leave(t) \/ ClearRow(t)
      PROVE  Owned'
  <2>1. UNCHANGED <<waiting, active>>
    BY <1>5 DEF Enter, Interrupt, Thrown, Leave, ClearRow
  <2>2. \A u \in Claimants : u # t => pc'[u] = pc[u]
    BY <1>5 DEF Enter, Interrupt, Thrown, Leave, ClearRow, Goto, IInv, Typed
  <2>3. \/ pc'[t] = pc[t]
        \/ pc[t] \in Registered \cup Admitted /\ pc'[t] = "leaving"
        \/ pc[t] \in Admitted /\ pc'[t] \in Admitted
        \/ pc[t] = "clearing" /\ pc'[t] = "out"
    BY <1>5 DEF Enter, Interrupt, Thrown, Leave, ClearRow, Goto, IInv, Typed, Admitted
  <2> QED
    BY <2>1, <2>2, <2>3, MoveKeepsOwned
<1>6. CASE Close
  <2>1. \A u \in Claimants : pc'[u] = pc[u] \/ (pc[u] = "parked" /\ pc'[u] = "woken")
    BY <1>6, WokenFacts DEF Close, IInv, Typed
  <2> QED
    BY <1>6, <2>1, MoveKeepsOwned DEF Close, Registered
<1>7. CASE UNCHANGED vars
  BY <1>7, MoveKeepsOwned DEF vars
<1> QED
  BY <1>1, <1>3, <1>4, <1>5, <1>6, <1>7 DEF Next, TaskStep

\* Who waits is listed once, who is listed waits or is being cleaned up, and
\* the admitted claims are those of the tasks that run (claim): none survives a
\* cancellation or a timeout, and none is dropped while its body runs.
THEOREM NoClaimLeaks == Spec => []ClaimsOwned
<1>1. Init => IInv /\ Owned
  BY OverlapAssumption DEF Init, IInv, Typed, ActivePlaces, Exclusion, Idle, PcSet, Owned, ClaimsOwned,
                           Queued, Members, Distinct, Registered, Admitted
<1>2. Owned => ClaimsOwned
  BY DEF Owned
<1> QED
  BY <1>1, <1>2, Inductive, OwnedStep, PTL DEF Spec

\* A check parks its task only when it is blocked, and wakes nobody's blocker.
LEMMA CheckKeepsBlocked ==
  ASSUME IInv, Owned, ParkedIsBlocked, NEW t \in Claimants, pc[t] \in {"report", "woken"},
         Check(t), UNCHANGED <<claim, closed>>
  PROVE  ParkedIsBlocked'
<1> SUFFICES ASSUME NEW u \in Claimants, pc'[u] = "parked"
             PROVE  ~closed' /\ Blocked(u, claim[u])'
  BY DEF ParkedIsBlocked
<1>1. CASE UNCHANGED <<active, waiting>> /\ (Goto(t, "leaving") \/ (Goto(t, "parked") /\ ~closed /\ Blocked(t, claim[t])))
  <2>1. CASE u = t
    BY <1>1, <2>1 DEF Goto, IInv, Typed, Blocked, AheadOf, Queued
  <2>2. CASE u # t
    <3>1. pc[u] = "parked"
      BY <1>1, <2>2 DEF Goto, IInv, Typed
    <3>2. ~closed /\ Blocked(u, claim[u])
      BY <3>1 DEF ParkedIsBlocked
    <3> QED
      BY <1>1, <3>2 DEF Blocked, AheadOf, Queued
  <2> QED
    BY <2>1, <2>2
<1>2. CASE Admit(t)
  <2>1. u # t /\ pc[u] = "parked"
    BY <1>2 DEF Admit, Goto, IInv, Typed
  <2>2. ~closed /\ Blocked(u, claim[u]) /\ u \in Queued
    BY <2>1 DEF ParkedIsBlocked, Owned, ClaimsOwned, Registered
  <2>3. Blocked(u, claim[u])'
    BY <1>2, <2>1, <2>2, AdmitKeepsBlocked DEF Admit
  <2> QED
    BY <2>2, <2>3
<1> QED
  BY <1>1, <1>2 DEF Check

LEMMA ParkedStep == IInv /\ Owned /\ ParkedIsBlocked /\ [Next]_vars => ParkedIsBlocked'
<1> SUFFICES ASSUME IInv, Owned, ParkedIsBlocked, [Next]_vars PROVE ParkedIsBlocked'
  OBVIOUS
<1>1. ASSUME NEW t \in Claimants, NEW c \in Claims, Ask(t, c) PROVE ParkedIsBlocked'
  <2> SUFFICES ASSUME NEW u \in Claimants, pc'[u] = "parked"
               PROVE  ~closed' /\ Blocked(u, claim[u])'
    BY DEF ParkedIsBlocked
  <2>1. pc[t] = "out" /\ t \notin active /\ t \notin Queued
    BY <1>1 DEF Ask, IInv, ActivePlaces, Owned, ClaimsOwned, Registered
  <2>2. u # t /\ pc[u] = "parked"
    BY <1>1, <2>1 DEF Ask, Goto, IInv, Typed
  <2>3. ~closed /\ Blocked(u, claim[u]) /\ u \in Queued
    BY <2>2 DEF ParkedIsBlocked, Owned, ClaimsOwned, Registered
  <2>4. \A v \in active \cup Queued : claim'[v] = claim[v]
    BY <1>1, <2>1 DEF Ask, IInv, Typed, Owned, Queued, Members
  <2>5. CASE waiting' = Append(waiting, t) /\ UNCHANGED active
    BY <1>1, <2>1, <2>3, <2>4, <2>5, AppendKeepsBlocked DEF Ask
  <2>6. CASE UNCHANGED waiting /\ active' = active \cup {t}
    <3>1. PICK v \in active \cup AheadOf(u) : v # u /\ Conflicts(claim[u], claim[v])
      BY <2>3 DEF Blocked
    <3>2. AheadOf(u)' = AheadOf(u) /\ AheadOf(u) \subseteq Queued
      BY <2>6, <2>3, AheadWait DEF AheadOf, Queued
    <3>3. claim'[v] = claim[v] /\ claim'[u] = claim[u]
      BY <2>3, <2>4, <3>1, <3>2
    <3>4. Blocked(u, claim[u])'
      BY <2>6, <3>1, <3>2, <3>3 DEF Blocked
    <3> QED
      BY <1>1, <2>3, <3>4 DEF Ask
  <2> QED
    BY <1>1, <2>5, <2>6 DEF Ask
<1>2. ASSUME NEW t \in Claimants, Report(t) \/ Recheck(t) PROVE ParkedIsBlocked'
  BY <1>2, CheckKeepsBlocked DEF Report, Recheck
<1>3. ASSUME NEW t \in Claimants, Enter(t) \/ Interrupt(t) \/ Thrown(t) \/ Leave(t) \/ ClearRow(t)
      PROVE  ParkedIsBlocked'
  <2>1. UNCHANGED <<waiting, active, claim, closed>>
    BY <1>3 DEF Enter, Interrupt, Thrown, Leave, ClearRow
  <2>2. \A u \in Claimants : pc'[u] = "parked" => pc[u] = "parked"
    BY <1>3 DEF Enter, Interrupt, Thrown, Leave, ClearRow, Goto, IInv, Typed
  <2> QED
    BY <2>1, <2>2 DEF ParkedIsBlocked, Blocked, AheadOf, Queued
<1>4. ASSUME NEW p \in [Claimants -> PcSet], pc' = Woken(p) PROVE ParkedIsBlocked'
  <2>1. \A u \in Claimants : pc'[u] # "parked"
    BY <1>4, WokenFacts
  <2> QED
    BY <2>1 DEF ParkedIsBlocked
<1>5. ASSUME NEW t \in Claimants, CleanUp(t) PROVE ParkedIsBlocked'
  BY <1>4, <1>5 DEF CleanUp, IInv, Typed, PcSet
<1>6. CASE Close
  BY <1>4, <1>6 DEF Close, IInv, Typed
<1>7. CASE UNCHANGED vars
  BY <1>7 DEF vars, ParkedIsBlocked, Blocked, AheadOf, Queued
<1> QED
  BY <1>1, <1>2, <1>3, <1>5, <1>6, <1>7 DEF Next, TaskStep

\* No wake-up is lost (claim, cleanup, close): a parked claim is blocked by an
\* admitted one or by one ahead of it, and after close nobody is parked.
THEOREM NoLostWakeUp == Spec => []ParkedIsBlocked
<1>1. Init => IInv /\ Owned /\ ParkedIsBlocked
  BY OverlapAssumption DEF Init, IInv, Typed, ActivePlaces, Exclusion, Idle, PcSet, Owned, ClaimsOwned,
                           Queued, Members, Distinct, Registered, Admitted, ParkedIsBlocked
<1> QED
  BY <1>1, Inductive, OwnedStep, ParkedStep, PTL DEF Spec

\* A claim that waits is not overtaken by a later one that conflicts with it
\* (claim): a reader that comes after a waiting writer waits as well.
THEOREM FirstComeFirst == Spec => NoOvertaking
<1> DEFINE Kept == \A t \in Claimants : t \notin active /\ t \in active' =>
                     \A i \in DOMAIN waiting :
                       (\A j \in DOMAIN waiting : waiting[j] = t => i < j)
                         => ~Conflicts(claim'[t], claim[waiting[i]])
<1>1. ASSUME IInv, Owned, [Next]_vars PROVE [Kept]_vars
  <2>1. ASSUME NEW t \in Claimants, t \notin active, t \in active',
               ~Blocked(t, claim'[t]), NEW i \in DOMAIN waiting,
               \A j \in DOMAIN waiting : waiting[j] = t => i < j
        PROVE  ~Conflicts(claim'[t], claim[waiting[i]])
    <3>1. waiting[i] # t
      BY <1>1, <2>1 DEF Owned
    <3>2. waiting[i] \in AheadOf(t)
      <4>1. CASE t \notin Queued
        BY <4>1 DEF AheadOf, Queued, Members
      <4>2. CASE t \in Queued
        <5>1. PICK k \in DOMAIN waiting : waiting[k] = t
          BY <4>2 DEF Queued, Members
        <5>2. AheadOf(t) = {waiting[n] : n \in 1..(k - 1)}
          BY <1>1, <4>2, <5>1, BeforeIs DEF AheadOf, Owned, ClaimsOwned
        <5>3. i \in 1..(k - 1)
          BY <1>1, <2>1, <5>1 DEF Owned
        <5> QED
          BY <5>2, <5>3
      <4> QED
        BY <4>1, <4>2
    <3> QED
      BY <2>1, <3>1, <3>2 DEF Blocked
  <2>2. ASSUME NEW t \in Claimants, t \notin active, t \in active' PROVE ~Blocked(t, claim'[t])
    <3>1. ASSUME NEW u \in Claimants, NEW c \in Claims, Ask(u, c) PROVE ~Blocked(t, claim'[t])
      <4>1. t = u /\ claim'[t] = c
        BY <1>1, <2>2, <3>1 DEF Ask, IInv, Typed
      <4> QED
        BY <2>2, <3>1, <4>1 DEF Ask
    <3>2. ASSUME NEW u \in Claimants, Report(u) \/ Recheck(u) PROVE ~Blocked(t, claim'[t])
      BY <2>2, <3>2 DEF Report, Recheck, Check, Admit
    <3>3. ASSUME NEW u \in Claimants,
                 Enter(u) \/ Interrupt(u) \/ Thrown(u) \/ Leave(u) \/ CleanUp(u) \/ ClearRow(u)
          PROVE  FALSE
      BY <2>2, <3>3 DEF Enter, Interrupt, Thrown, Leave, CleanUp, Dropped, ClearRow
    <3>4. CASE Close \/ UNCHANGED vars
      BY <2>2, <3>4 DEF Close, vars
    <3> QED
      BY <1>1, <3>1, <3>2, <3>3, <3>4 DEF Next, TaskStep
  <2> QED
    BY <2>1, <2>2
<1>2. Init => IInv /\ Owned
  BY OverlapAssumption DEF Init, IInv, Typed, ActivePlaces, Exclusion, Idle, PcSet, Owned, ClaimsOwned,
                           Queued, Members, Distinct, Registered, Admitted
<1> QED
  BY <1>1, <1>2, Inductive, OwnedStep, PTL DEF Spec, NoOvertaking
=============================================================================
