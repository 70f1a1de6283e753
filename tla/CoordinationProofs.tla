------------------------- MODULE CoordinationProofs -------------------------
(***************************************************************************)
(* What drives several turns. The serial engine, for any runs and any path  *)
(* of nodes: its types, one active run per conversation, a path that never  *)
(* rests on a replaced result, stops that are not undone, and runs that end *)
(* only when their rows are closed. The world's task, for any rounds,       *)
(* children and budgets: a task that completed is whole, and what has ended *)
(* stays as it ended.                                                       *)
(***************************************************************************)
EXTENDS SerialWorkflow, MCWorldTasks, SequenceTheorems, TLAPS

-----------------------------------------------------------------------------
(* The serial engine                                                       *)

Places == 1..Len(Order)

\* One run of PathIsFresh.
Fresh(r) ==
  /\ \A i \in Places : i < r.cur => r.sel[Order[i]] # 0 /\ At(r, Order[i]).st = "completed"
  /\ \A i \in Places : i > r.cur => r.sel[Order[i]] = 0
  /\ \A n \in Nodes : r.sel[n] # 0 => \A m \in Inputs[n] : At(r, n).up[m] = r.sel[m] /\ At(r, m).st = "completed"

\* Only the attempt at the cursor of an active run has a generation or an
\* execution that is alive.
IsAlive(a) == a.g \in Alive \/ a.e \in Alive
AliveAtCursor(r) ==
  \A n \in Nodes : \A k \in 1..Len(r.tries[n]) :
    IsAlive(r.tries[n][k]) => r.st \in Active /\ ~Past(r) /\ n = Cursor(r) /\ k = r.sel[n]
Still(r) == \A n \in Nodes : \A k \in 1..Len(r.tries[n]) : ~IsAlive(r.tries[n][k])

\* Generation and execution begin together, the generation ends first, and an
\* approval has neither.
Agrees(a) ==
  /\ a.g = "none" <=> a.e = "none"
  /\ a.e \in Over => a.g \notin Alive
  /\ a.st = "waiting" => a.g = "none"

Good(r) ==
  /\ IsRun(r) /\ Fresh(r) /\ AliveAtCursor(r)
  /\ r.st = "absent" => r.cur = 1
  /\ \A n \in Nodes : \A k \in 1..Len(r.tries[n]) : Agrees(r.tries[n][k])

\* The worker has the execution that runs in hand, and no other runs.
InHand ==
  /\ work # None => /\ Row(work.id).e = "running"
                    /\ work.at = "closing" => Row(work.id).g \in Over
  /\ \A id \in Ids : Row(id).e = "running" => work # None /\ work.id = id

IInv ==
  /\ TypeOK /\ OneActiveRun /\ InHand
  /\ \A x \in Runs : Good(run[x])

-----------------------------------------------------------------------------
\* Nodes, rows and what a change of one of them leaves as it was

LEMMA NodeFacts ==
  /\ \A i \in Places : Order[i] \in Nodes
  /\ \A n \in Nodes : \E i \in Places : n = Order[i]
  /\ \A i \in Places : \A j \in Places : Order[i] \in Before(j) <=> i < j
  /\ \A i \in Places : \A n \in Before(i) : n \in Nodes
  /\ \A i \in Places : \A n \in Inputs[Order[i]] : n \in Nodes /\ \E j \in Places : j < i /\ n = Order[j]
  /\ Len(Order) \in Nat /\ 1 \in Places
<1>1. Len(Order) \in Nat /\ Order \in [1..Len(Order) -> Nodes] /\ 1 \in Places
  BY PathAssumption, LenProperties DEF Places
<1>2. \A i \in Places : Order[i] \in Nodes /\ Before(i) \subseteq Nodes
  BY <1>1 DEF Places, Nodes, Before
<1>3. \A i \in Places : \A j \in Places : Order[i] \in Before(j) <=> i < j
  BY <1>1, PathAssumption DEF Places, Before
<1>4. \A i \in Places : \A n \in Before(i) : \E j \in Places : j < i /\ n = Order[j]
  BY <1>1 DEF Places, Before
<1> QED
  BY <1>1, <1>2, <1>3, <1>4, PathAssumption DEF Places, Nodes

LEMMA RunShape ==
  ASSUME NEW r, IsRun(r)
  PROVE  /\ r = [st |-> r.st, err |-> r.err, cur |-> r.cur, sel |-> r.sel, again |-> r.again, tries |-> r.tries]
         /\ r.sel = [n \in Nodes |-> r.sel[n]] /\ r.tries = [n \in Nodes |-> r.tries[n]]
BY DEF IsRun

LEMMA RunFacts ==
  ASSUME NEW r, IsRun(r)
  PROVE  /\ r.st \in {"absent", "blocked"} \union Active \union Over
         /\ r.err \in BOOLEAN /\ r.again \in BOOLEAN /\ r.cur \in 1..Len(Order) + 1
         /\ \A n \in Nodes : /\ r.tries[n] \in Seq(Attempts(n)) /\ Len(r.tries[n]) \in Nat
                             /\ r.sel[n] \in 0..Len(r.tries[n])
                             /\ \A k \in 1..Len(r.tries[n]) : r.tries[n][k] \in Attempts(n)
BY DEF IsRun

\* A run with another attempt k of n: its row and its attempts.
Replaced(r, n, k, a) == [r EXCEPT !.tries[n][k] = a]

LEMMA PutRun ==
  ASSUME NEW r, IsRun(r), NEW n \in Nodes, NEW k \in 1..Len(r.tries[n]), NEW a \in Attempts(n)
  PROVE  LET q == Replaced(r, n, k, a) IN
         /\ IsRun(q)
         /\ q.st = r.st /\ q.err = r.err /\ q.cur = r.cur /\ q.sel = r.sel /\ q.again = r.again
         /\ \A m \in Nodes : /\ Len(q.tries[m]) = Len(r.tries[m])
                             /\ \A j \in 1..Len(r.tries[m]) :
                                  q.tries[m][j] = IF m = n /\ j = k THEN a ELSE r.tries[m][j]
<1> DEFINE t == [r.tries EXCEPT ![n][k] = a]
           q == [r EXCEPT !.tries[n][k] = a]
<1>1. /\ q = [r EXCEPT !.tries = t]
      /\ q.st = r.st /\ q.err = r.err /\ q.cur = r.cur /\ q.sel = r.sel /\ q.again = r.again /\ q.tries = t
  BY RunShape, RunFacts
<1>2. /\ t = [m \in Nodes |-> t[m]]
      /\ t[n] = [r.tries[n] EXCEPT ![k] = a] /\ \A m \in Nodes \ {n} : t[m] = r.tries[m]
  BY RunShape, RunFacts
<1>3. /\ t[n] \in Seq(Attempts(n)) /\ Len(t[n]) = Len(r.tries[n])
      /\ \A j \in 1..Len(r.tries[n]) : t[n][j] = IF j = k THEN a ELSE r.tries[n][j]
  <2>1. r.tries[n] \in Seq(Attempts(n)) /\ k \in 1..Len(r.tries[n])
    BY RunShape, RunFacts
  <2> HIDE DEF t
  <2> QED
    BY <1>2, <2>1, ExceptSeq
<1>4. IsRun(q)
  <2> HIDE DEF t, q
  <2> QED
    BY <1>1, <1>2, <1>3, RunShape, RunFacts DEF IsRun
<1> QED
  BY <1>1, <1>2, <1>3, <1>4 DEF Replaced
-----------------------------------------------------------------------------
\* What keeps a run good

LEMMA SelectedBehind ==
  ASSUME NEW r, Good(r), NEW n \in Nodes, r.sel[n] # 0
  PROVE  /\ At(r, n) \in Attempts(n) /\ r.sel[n] \in 1..Len(r.tries[n])
         /\ \E i \in Places : i <= r.cur /\ n = Order[i]
         /\ ~Past(r) => \A m \in Inputs[n] : m \in Nodes /\ m # Cursor(r)
<1>0. IsRun(r) /\ r.cur \in Nat /\ Len(Order) \in Nat
  BY RunFacts, NodeFacts DEF Good
<1>1. PICK i \in Places : n = Order[i]
  BY NodeFacts
<1>2. i <= r.cur
  BY <1>0, <1>1 DEF Good, Fresh, Places
<1>3. r.sel[n] \in 1..Len(r.tries[n])
  BY <1>0, RunFacts
<1>4. At(r, n) \in Attempts(n)
  BY <1>0, <1>3, RunFacts DEF At
<1>5. ASSUME ~Past(r), NEW m \in Inputs[n] PROVE m \in Nodes /\ m # Cursor(r)
  <2>1. PICK j \in Places : j < i /\ m = Order[j]
    BY <1>1, NodeFacts
  <2>2. r.cur \in Places
    BY <1>0, <1>5, RunFacts DEF Past, Places
  <2>3. Order[j] # Order[r.cur]
    BY <1>0, <1>2, <2>1, <2>2, PathAssumption DEF Places
  <2> QED
    BY <2>1, <2>3, NodeFacts DEF Cursor
<1> QED
  BY <1>1, <1>2, <1>3, <1>4, <1>5

\* The rows change, and no more than this: the selection stays, what is selected
\* behind the cursor stays completed, and only the attempt at the cursor of an
\* active run comes alive.
LEMMA Reshape ==
  ASSUME NEW r, Good(r), NEW q, IsRun(q), q.cur = r.cur, q.sel = r.sel,
         q.st = "absent" => r.st = "absent",
         \A n \in Nodes : Len(q.tries[n]) = Len(r.tries[n]),
         \A n \in Nodes : \A k \in 1..Len(r.tries[n]) :
           /\ q.tries[n][k].up = r.tries[n][k].up
           /\ Agrees(q.tries[n][k])
           /\ IsAlive(q.tries[n][k]) =>
                /\ q.st \in Active
                /\ IsAlive(r.tries[n][k]) \/ (~Past(r) /\ n = Cursor(r) /\ k = r.sel[n])
           /\ r.tries[n][k].st = "completed" /\ (Past(r) \/ n # Cursor(r)) => q.tries[n][k].st = "completed"
  PROVE  Good(q)
<1>0. /\ Past(q) = Past(r) /\ Cursor(q) = Cursor(r)
      /\ IsRun(r) /\ r.cur \in Nat /\ r.cur >= 1 /\ Len(Order) \in Nat
  BY RunFacts, NodeFacts DEF Good, Past, Cursor
<1>1. AliveAtCursor(q)
  BY <1>0 DEF AliveAtCursor, Good
<1>2. \A n \in Nodes : r.sel[n] # 0 => /\ At(q, n).up = At(r, n).up
                                       /\ At(r, n).st = "completed" /\ (Past(r) \/ n # Cursor(r)) => At(q, n).st = "completed"
  <2> SUFFICES ASSUME NEW n \in Nodes, r.sel[n] # 0
               PROVE  /\ At(q, n).up = At(r, n).up
                      /\ At(r, n).st = "completed" /\ (Past(r) \/ n # Cursor(r)) => At(q, n).st = "completed"
    OBVIOUS
  <2>1. r.sel[n] \in 1..Len(r.tries[n])
    BY SelectedBehind
  <2>2. At(q, n) = q.tries[n][r.sel[n]] /\ At(r, n) = r.tries[n][r.sel[n]]
    BY DEF At
  <2> QED
    BY <2>1, <2>2
<1>3. ASSUME NEW i \in Places, i < q.cur PROVE q.sel[Order[i]] # 0 /\ At(q, Order[i]).st = "completed"
  <2>1. r.sel[Order[i]] # 0 /\ At(r, Order[i]).st = "completed"
    BY <1>3 DEF Good, Fresh
  <2>2. Past(r) \/ Order[i] # Cursor(r)
    <3>1. CASE ~Past(r)
      <4>1. r.cur \in Places /\ i # r.cur
        BY <1>0, <1>3, <3>1 DEF Past, Places
      <4> QED
        BY <4>1, PathAssumption DEF Cursor, Places
    <3> QED
      BY <3>1
  <2> QED
    BY <1>2, <2>1, <2>2, NodeFacts
<1>4. ASSUME NEW n \in Nodes, q.sel[n] # 0, NEW m \in Inputs[n]
      PROVE  At(q, n).up[m] = q.sel[m] /\ At(q, m).st = "completed"
  <2>1. At(r, n).up[m] = r.sel[m] /\ At(r, m).st = "completed"
    BY <1>4 DEF Good, Fresh
  <2>2. PICK i \in Places : i <= r.cur /\ n = Order[i]
    BY <1>4, SelectedBehind
  <2>3. PICK j \in Places : j < i /\ m = Order[j]
    BY <1>4, <2>2, NodeFacts
  <2>4. r.sel[m] # 0 /\ m \in Nodes
    BY <1>0, <2>2, <2>3, NodeFacts DEF Good, Fresh, Places
  <2>5. Past(r) \/ m # Cursor(r)
    BY <1>4, SelectedBehind
  <2> QED
    BY <1>2, <1>4, <2>1, <2>4, <2>5
<1>5. Fresh(q)
  BY <1>3, <1>4 DEF Fresh, Good
<1> QED
  BY <1>1, <1>5 DEF Good

LEMMA PutGood ==
  ASSUME NEW r, Good(r), NEW n \in Nodes, NEW k \in 1..Len(r.tries[n]), NEW a \in Attempts(n),
         a.up = r.tries[n][k].up, Agrees(a),
         IsAlive(a) => r.st \in Active /\ (IsAlive(r.tries[n][k]) \/ (~Past(r) /\ n = Cursor(r) /\ k = r.sel[n])),
         r.tries[n][k].st = "completed" /\ (Past(r) \/ n # Cursor(r)) => a.st = "completed"
  PROVE  Good(Replaced(r, n, k, a))
<1> DEFINE q == Replaced(r, n, k, a)
<1>0. n \in Nodes /\ k \in 1..Len(r.tries[n]) /\ a \in Attempts(n)
  OBVIOUS
<1>1. IsRun(r) /\ \A m \in Nodes : \A j \in 1..Len(r.tries[m]) : Agrees(r.tries[m][j])
  BY DEF Good
<1>2. /\ IsRun(q) /\ q.st = r.st /\ q.err = r.err /\ q.cur = r.cur /\ q.sel = r.sel /\ q.again = r.again
      /\ \A m \in Nodes : /\ Len(q.tries[m]) = Len(r.tries[m])
                          /\ \A j \in 1..Len(r.tries[m]) :
                               q.tries[m][j] = IF m = n /\ j = k THEN a ELSE r.tries[m][j]
  BY <1>0, <1>1, PutRun
<1> HIDE DEF q
<1>3. ASSUME NEW m \in Nodes, NEW j \in 1..Len(r.tries[m])
      PROVE  /\ q.tries[m][j].up = r.tries[m][j].up
             /\ Agrees(q.tries[m][j])
             /\ IsAlive(q.tries[m][j]) =>
                  /\ q.st \in Active
                  /\ IsAlive(r.tries[m][j]) \/ (~Past(r) /\ m = Cursor(r) /\ j = r.sel[m])
             /\ r.tries[m][j].st = "completed" /\ (Past(r) \/ m # Cursor(r)) => q.tries[m][j].st = "completed"
  <2>1. CASE m = n /\ j = k
    BY <1>2, <2>1
  <2>2. CASE ~(m = n /\ j = k)
    <3>1. q.tries[m][j] = r.tries[m][j]
      BY <1>2, <2>2
    <3>2. IsAlive(r.tries[m][j]) => r.st \in Active
      BY DEF Good, AliveAtCursor
    <3> QED
      BY <1>1, <1>2, <3>1, <3>2
  <2> QED
    BY <2>1, <2>2
<1>4. Good(q)
  BY <1>2, <1>3, Reshape
<1> QED
  BY <1>4 DEF q

\* The attempt in turn.
LEMMA ChosenRow ==
  ASSUME NEW r, IsRun(r), Chosen(r)
  PROVE  /\ r.cur \in Places /\ Cursor(r) \in Nodes
         /\ r.sel[Cursor(r)] \in 1..Len(r.tries[Cursor(r)])
         /\ At(r, Cursor(r)) = r.tries[Cursor(r)][r.sel[Cursor(r)]]
         /\ At(r, Cursor(r)) \in Attempts(Cursor(r))
<1>1. r.cur \in Places
  BY RunFacts, NodeFacts DEF Chosen, Past, Places
<1>2. Cursor(r) \in Nodes /\ r.sel[Cursor(r)] # 0
  BY <1>1, NodeFacts DEF Cursor, Chosen
<1> QED
  BY <1>1, <1>2, RunFacts DEF At

LEMMA PutCurrent ==
  ASSUME NEW r, Good(r), Chosen(r), NEW a \in Attempts(Cursor(r)),
         a.up = At(r, Cursor(r)).up, Agrees(a), IsAlive(a) => r.st \in Active
  PROVE  LET q == Replaced(r, Cursor(r), r.sel[Cursor(r)], a) IN
         /\ Good(q)
         /\ q.st = r.st /\ q.err = r.err /\ q.cur = r.cur /\ q.sel = r.sel /\ q.again = r.again
         /\ Chosen(q) /\ Cursor(q) = Cursor(r) /\ At(q, Cursor(r)) = a
         /\ \A m \in Nodes : /\ Len(q.tries[m]) = Len(r.tries[m])
                             /\ \A j \in 1..Len(r.tries[m]) :
                                  q.tries[m][j] = IF m = Cursor(r) /\ j = r.sel[m] THEN a ELSE r.tries[m][j]
<1> DEFINE n == Cursor(r)
           k == r.sel[n]
           q == Replaced(r, n, k, a)
<1>1. IsRun(r) /\ ~Past(r)
  BY DEF Good, Chosen
<1>2. n \in Nodes /\ k \in 1..Len(r.tries[n]) /\ At(r, n) = r.tries[n][k]
  BY <1>1, ChosenRow
<1> HIDE DEF n, k
<1>3. /\ IsRun(q) /\ q.st = r.st /\ q.err = r.err /\ q.cur = r.cur /\ q.sel = r.sel /\ q.again = r.again
      /\ \A m \in Nodes : /\ Len(q.tries[m]) = Len(r.tries[m])
                          /\ \A j \in 1..Len(r.tries[m]) :
                               q.tries[m][j] = IF m = n /\ j = k THEN a ELSE r.tries[m][j]
  BY <1>1, <1>2, PutRun DEF n
<1>4. Good(q)
  BY <1>1, <1>2, PutGood DEF n, k
<1> HIDE DEF q
<1>5. Cursor(q) = n /\ Chosen(q) /\ At(q, n) = a
  BY <1>2, <1>3 DEF n, k, Cursor, Chosen, Past, At
<1> QED
  BY <1>3, <1>4, <1>5 DEF n, k, q

LEMMA MarkGood ==
  ASSUME NEW r, Good(r), Chosen(r), NEW s \in {"pending", "waiting"} \union Alive \union Over,
         s = "waiting" => At(r, Cursor(r)).g = "none"
  PROVE  LET q == Marked(r, s) IN
         /\ Good(q)
         /\ q.st = r.st /\ q.err = r.err /\ q.cur = r.cur /\ q.sel = r.sel /\ q.again = r.again
         /\ Chosen(q) /\ Cursor(q) = Cursor(r) /\ At(q, Cursor(r)) = [At(r, Cursor(r)) EXCEPT !.st = s]
         /\ \A m \in Nodes : /\ Len(q.tries[m]) = Len(r.tries[m])
                             /\ \A j \in 1..Len(r.tries[m]) :
                                  q.tries[m][j] = IF m = Cursor(r) /\ j = r.sel[m]
                                                  THEN [r.tries[m][j] EXCEPT !.st = s] ELSE r.tries[m][j]
<1> DEFINE n == Cursor(r)
           k == r.sel[n]
           a == [r.tries[n][k] EXCEPT !.st = s]
<1>1. /\ n \in Nodes /\ k \in 1..Len(r.tries[n]) /\ At(r, n) = r.tries[n][k] /\ r.tries[n][k] \in Attempts(n)
      /\ Agrees(r.tries[n][k]) /\ (IsAlive(r.tries[n][k]) => r.st \in Active)
  BY ChosenRow DEF Good, AliveAtCursor
<1>2. /\ a \in Attempts(n) /\ a.up = r.tries[n][k].up /\ a.g = r.tries[n][k].g /\ a.e = r.tries[n][k].e /\ a.st = s
  BY <1>1 DEF Attempts
<1>3. Marked(r, s) = Replaced(r, n, k, a)
  <2>1. IsRun(r)
    BY DEF Good
  <2> QED
    BY <1>1, <2>1, RunShape DEF Marked, Replaced
<1>4. Agrees(a) /\ (IsAlive(a) => r.st \in Active)
  BY <1>1, <1>2 DEF Agrees, IsAlive
<1> HIDE DEF a
<1>5. a = [At(r, n) EXCEPT !.st = s]
  BY <1>1 DEF a
<1> DEFINE q == Replaced(r, n, k, a)
<1>6. a \in Attempts(Cursor(r)) /\ a.up = At(r, Cursor(r)).up
  BY <1>1, <1>2
<1>7. /\ Good(q)
      /\ q.st = r.st /\ q.err = r.err /\ q.cur = r.cur /\ q.sel = r.sel /\ q.again = r.again
      /\ Chosen(q) /\ Cursor(q) = Cursor(r) /\ At(q, Cursor(r)) = a
      /\ \A m \in Nodes : /\ Len(q.tries[m]) = Len(r.tries[m])
                          /\ \A j \in 1..Len(r.tries[m]) :
                               q.tries[m][j] = IF m = Cursor(r) /\ j = r.sel[m] THEN a ELSE r.tries[m][j]
  BY <1>4, <1>6, PutCurrent
<1> HIDE DEF q
<1> QED
  <2>1. q = Marked(r, s)
    BY <1>3 DEF q
  <2>2. \A m \in Nodes : \A j \in 1..Len(r.tries[m]) :
          m = Cursor(r) /\ j = r.sel[m] => a = [r.tries[m][j] EXCEPT !.st = s]
    BY DEF a
  <2> QED
    BY <1>5, <1>7, <2>1, <2>2
\* The status changes, the rows do not.
LEMMA StatusGood ==
  ASSUME NEW r, Good(r), NEW q, IsRun(q), q.cur = r.cur, q.sel = r.sel, q.tries = r.tries,
         q.st # "absent", q.st \in Active \/ Still(r)
  PROVE  Good(q)
BY Reshape DEF Good, Still

\* The cursor goes on from an attempt that is completed.
LEMMA StepGood ==
  ASSUME NEW r, Good(r), Chosen(r), At(r, Cursor(r)).st = "completed", Still(r),
         NEW q, IsRun(q), q.cur = r.cur + 1, q.sel = r.sel, q.tries = r.tries, q.st # "absent"
  PROVE  Good(q)
<1>0. IsRun(r) /\ r.cur \in Places /\ \A n \in Nodes : At(q, n) = At(r, n)
  BY ChosenRow DEF Good, At
<1>1. ASSUME NEW j \in Places, j < q.cur PROVE q.sel[Order[j]] # 0 /\ At(q, Order[j]).st = "completed"
  <2>1. CASE j < r.cur
    BY <1>0, <2>1, NodeFacts DEF Good, Fresh
  <2>2. CASE j = r.cur
    BY <1>0, <2>2, NodeFacts DEF Chosen, Cursor
  <2> QED
    BY <1>0, <1>1, <2>1, <2>2 DEF Places
<1>2. ASSUME NEW j \in Places, j > q.cur PROVE q.sel[Order[j]] = 0
  BY <1>0, <1>2 DEF Good, Fresh, Places
<1>3. ASSUME NEW n \in Nodes, q.sel[n] # 0, NEW m \in Inputs[n]
      PROVE  At(q, n).up[m] = q.sel[m] /\ At(q, m).st = "completed"
  <2>1. m \in Nodes
    BY <1>3, NodeFacts
  <2> QED
    BY <1>0, <1>3, <2>1 DEF Good, Fresh
<1>4. Fresh(q)
  BY <1>1, <1>2, <1>3 DEF Fresh
<1> QED
  BY <1>4 DEF Good, AliveAtCursor, Still

\* What the worker may have in hand is as it was.
Hand(q, r) ==
  /\ \A n \in Nodes : \A k \in 1..Len(r.tries[n]) :
       /\ k \in 1..Len(q.tries[n])
       /\ r.tries[n][k].e = "running" =>
            /\ q.tries[n][k].e = "running"
            /\ r.tries[n][k].g \in Over => q.tries[n][k].g = r.tries[n][k].g
  /\ \A n \in Nodes : \A k \in 1..Len(q.tries[n]) :
       q.tries[n][k].e = "running" => k \in 1..Len(r.tries[n]) /\ r.tries[n][k].e = "running"

\* A new attempt at the cursor.
LEMMA GrowRun ==
  ASSUME NEW r, IsRun(r), NEW n \in Nodes, \A m \in Inputs[n] : m \in Nodes
  PROVE  LET q == Attempted(r, n)
             a == NewAttempt(r, n) IN
         /\ IsRun(q)
         /\ q.st = r.st /\ q.err = r.err /\ q.cur = r.cur /\ q.again = r.again
         /\ q.sel[n] = Len(r.tries[n]) + 1 /\ Len(q.tries[n]) = Len(r.tries[n]) + 1
         /\ \A j \in 1..Len(q.tries[n]) : q.tries[n][j] = IF j <= Len(r.tries[n]) THEN r.tries[n][j] ELSE a
         /\ \A m \in Nodes \ {n} : q.sel[m] = r.sel[m] /\ q.tries[m] = r.tries[m]
<1> DEFINE a == NewAttempt(r, n)
           new == r.tries[n] \o <<a>>
           t == [r.tries EXCEPT ![n] = new]
           u == [r.sel EXCEPT ![n] = Len(r.tries[n]) + 1]
           q == Attempted(r, n)
<1>1. a \in Attempts(n)
  <2>1. [m \in Inputs[n] |-> r.sel[m]] \in [Inputs[n] -> Nat]
    BY RunFacts
  <2> QED
    BY <2>1 DEF NewAttempt, Attempts
<1>2. r.tries[n] \in Seq(Attempts(n)) /\ <<a>> \in Seq(Attempts(n)) /\ Len(<<a>>) = 1 /\ <<a>>[1] = a
  BY <1>1, RunFacts
<1> HIDE DEF a
<1>3. /\ new \in Seq(Attempts(n)) /\ Len(new) = Len(r.tries[n]) + 1
      /\ \A j \in 1..Len(new) : new[j] = IF j <= Len(r.tries[n]) THEN r.tries[n][j] ELSE a
  <2>0. Len(r.tries[n]) \in Nat
    BY <1>2, LenProperties
  <2>1. /\ new \in Seq(Attempts(n)) /\ Len(new) = Len(r.tries[n]) + 1
        /\ \A j \in 1..Len(r.tries[n]) + 1 :
             new[j] = IF j <= Len(r.tries[n]) THEN r.tries[n][j] ELSE <<a>>[j - Len(r.tries[n])]
    BY <1>2, ConcatProperties
  <2>2. \A j \in 1..Len(r.tries[n]) + 1 : ~(j <= Len(r.tries[n])) => j - Len(r.tries[n]) = 1
    BY <2>0
  <2> QED
    BY <1>2, <2>1, <2>2
<1> HIDE DEF new
<1>4. /\ q = [r EXCEPT !.tries = t, !.sel = u]
      /\ q.st = r.st /\ q.err = r.err /\ q.cur = r.cur /\ q.again = r.again /\ q.tries = t /\ q.sel = u
      /\ q = [st |-> r.st, err |-> r.err, cur |-> r.cur, sel |-> u, again |-> r.again, tries |-> t]
  <2>1. q = [r EXCEPT !.tries = t, !.sel = u]
    BY RunShape DEF Attempted, new, a
  <2> HIDE DEF t, u, q
  <2>2. r = [st |-> r.st, err |-> r.err, cur |-> r.cur, sel |-> r.sel, again |-> r.again, tries |-> r.tries]
    BY RunShape
  <2>3. q = [st |-> r.st, err |-> r.err, cur |-> r.cur, sel |-> u, again |-> r.again, tries |-> t]
    BY <2>1, <2>2
  <2> QED
    BY <2>1, <2>3
<1>5. /\ t = [m \in Nodes |-> t[m]] /\ t[n] = new /\ \A m \in Nodes \ {n} : t[m] = r.tries[m]
      /\ u \in [Nodes -> Nat] /\ u[n] = Len(r.tries[n]) + 1 /\ \A m \in Nodes \ {n} : u[m] = r.sel[m]
  <2>1. r.tries = [m \in Nodes |-> r.tries[m]] /\ r.sel = [m \in Nodes |-> r.sel[m]]
    BY RunShape
  <2>2. \A m \in Nodes : r.sel[m] \in Nat /\ Len(r.tries[n]) \in Nat
    BY RunFacts
  <2> QED
    BY <2>1, <2>2
<1> HIDE DEF t, u, q
<1>6. IsRun(q)
  <2>1. \A m \in Nodes : t[m] \in Seq(Attempts(m)) /\ u[m] <= Len(t[m])
    BY <1>3, <1>5, RunFacts
  <2>2. t \in [Nodes -> {t[m] : m \in Nodes}]
    BY <1>5
  <2> QED
    BY <1>4, <1>5, <2>1, <2>2, RunFacts DEF IsRun
<1> QED
  BY <1>3, <1>4, <1>5, <1>6 DEF a, q
LEMMA GrowGood ==
  ASSUME NEW r, Good(r), ~Past(r), Still(r), r.st \in Active, Fed(r, Cursor(r))
  PROVE  LET q == Attempted(r, Cursor(r)) IN
         /\ Good(q) /\ Still(q) /\ Hand(q, r)
         /\ q.st = r.st /\ q.err = r.err /\ q.cur = r.cur /\ q.again = r.again
         /\ Chosen(q) /\ Cursor(q) = Cursor(r) /\ At(q, Cursor(r)) = NewAttempt(r, Cursor(r))
<1> DEFINE n == Cursor(r)
           a == NewAttempt(r, n)
           q == Attempted(r, n)
<1>0. IsRun(r) /\ r.cur \in Places /\ n = Order[r.cur] /\ n \in Nodes /\ Len(r.tries[n]) \in Nat
  BY RunFacts, NodeFacts DEF Good, Past, Places, Cursor
<1>1. ASSUME NEW m \in Inputs[n] PROVE m \in Nodes /\ m # n
  <2>1. m \in Nodes /\ \E j \in Places : j < r.cur /\ m = Order[j]
    BY <1>0, NodeFacts
  <2>2. PICK j \in Places : j < r.cur /\ m = Order[j]
    BY <2>1
  <2>3. Order[j] # Order[r.cur]
    BY <1>0, <2>2, PathAssumption DEF Places
  <2> QED
    BY <1>0, <2>1, <2>2, <2>3
<1> HIDE DEF n
<1>2. /\ IsRun(q)
      /\ q.st = r.st /\ q.err = r.err /\ q.cur = r.cur /\ q.again = r.again
      /\ q.sel[n] = Len(r.tries[n]) + 1 /\ Len(q.tries[n]) = Len(r.tries[n]) + 1
      /\ \A j \in 1..Len(q.tries[n]) : q.tries[n][j] = IF j <= Len(r.tries[n]) THEN r.tries[n][j] ELSE a
      /\ \A m \in Nodes \ {n} : q.sel[m] = r.sel[m] /\ q.tries[m] = r.tries[m]
  BY <1>0, <1>1, GrowRun
<1>3. /\ a.g = "none" /\ a.e = "none" /\ a.st = "pending"
      /\ \A m \in Inputs[n] : a.up[m] = r.sel[m]
  BY DEF NewAttempt
<1> HIDE DEF a, q
<1>4. At(q, n) = a /\ \A m \in Nodes \ {n} : At(q, m) = At(r, m)
  <2>1. Len(r.tries[n]) + 1 \in 1..Len(q.tries[n]) /\ ~(Len(r.tries[n]) + 1 <= Len(r.tries[n]))
    BY <1>0, <1>2
  <2>2. q.tries[n][q.sel[n]] = a
    BY <1>2, <2>1
  <2> QED
    BY <1>2, <2>2 DEF At
<1>5. Chosen(q) /\ Cursor(q) = n /\ ~Past(q)
  BY <1>0, <1>2 DEF n, Cursor, Chosen, Past
<1>6. \A m \in Nodes : \A j \in 1..Len(q.tries[m]) :
        \/ j \in 1..Len(r.tries[m]) /\ q.tries[m][j] = r.tries[m][j]
        \/ q.tries[m][j] = a
  <2>1. \A j \in 1..Len(q.tries[n]) : \/ j \in 1..Len(r.tries[n]) /\ q.tries[n][j] = r.tries[n][j]
                                      \/ q.tries[n][j] = a
    BY <1>0, <1>2
  <2>2. \A m \in Nodes \ {n} : q.tries[m] = r.tries[m]
    BY <1>2
  <2> QED
    BY <2>1, <2>2
<1>7. Still(q) /\ \A m \in Nodes : \A j \in 1..Len(q.tries[m]) : Agrees(q.tries[m][j])
  BY <1>3, <1>6 DEF Still, Good, IsAlive, Alive, Agrees, Over
<1>8. Hand(q, r)
  <2>1. \A m \in Nodes : \A j \in 1..Len(r.tries[m]) :
          j \in 1..Len(q.tries[m]) /\ q.tries[m][j] = r.tries[m][j]
    <3>0. \A j \in 1..Len(r.tries[n]) : j \in 1..Len(q.tries[n]) /\ j <= Len(r.tries[n])
      BY <1>0, <1>2
    <3>1. \A j \in 1..Len(r.tries[n]) : j \in 1..Len(q.tries[n]) /\ q.tries[n][j] = r.tries[n][j]
      BY <1>2, <3>0
    <3>2. \A m \in Nodes \ {n} : q.tries[m] = r.tries[m]
      BY <1>2
    <3> QED
      BY <3>1, <3>2
  <2>2. a.e # "running"
    BY <1>3
  <2> QED
    BY <1>6, <2>1, <2>2 DEF Hand
<1>9. ASSUME NEW j \in Places, j # r.cur PROVE Order[j] \in Nodes \ {n}
  BY <1>0, <1>9, NodeFacts, PathAssumption DEF Places
<1>10. ASSUME NEW m \in Nodes, q.sel[m] # 0, NEW d \in Inputs[m]
       PROVE  At(q, m).up[d] = q.sel[d] /\ At(q, d).st = "completed"
  <2>1. CASE m = n
    BY <1>1, <1>2, <1>3, <1>4, <1>10, <2>1 DEF Fed, n
  <2>2. CASE m # n
    <3>1. d \in Nodes /\ d # n
      BY <1>2, <1>10, <2>2, SelectedBehind DEF n
    <3> QED
      BY <1>2, <1>4, <1>10, <2>2, <3>1 DEF Good, Fresh
  <2> QED
    BY <2>1, <2>2
<1>11. Fresh(q)
  <2>1. \A j \in Places : j < q.cur => q.sel[Order[j]] # 0 /\ At(q, Order[j]).st = "completed"
    BY <1>0, <1>2, <1>4, <1>9 DEF Good, Fresh, Places
  <2>2. \A j \in Places : j > q.cur => q.sel[Order[j]] = 0
    BY <1>0, <1>2, <1>4, <1>9 DEF Good, Fresh, Places
  <2> QED
    BY <1>10, <2>1, <2>2 DEF Fresh
<1>12. Good(q)
  BY <1>2, <1>7, <1>11 DEF Good, AliveAtCursor, Still, Active
<1> QED
  BY <1>2, <1>4, <1>5, <1>7, <1>8, <1>12 DEF n, a, q

\* The cursor goes back, and what came after it is no longer selected.
LEMMA RewindGood ==
  ASSUME NEW r, Good(r), Still(r), NEW i \in Places, r.sel[Order[i]] # 0, Fed(r, Order[i]), NEW again \in BOOLEAN
  PROVE  LET q == Rewound(r, i, again) IN
         /\ Good(q) /\ Still(q) /\ q.st = "queued" /\ q.tries = r.tries
         /\ ~Past(q) /\ Cursor(q) = Order[i] /\ Fed(q, Cursor(q))
<1> DEFINE u == [n \in Nodes |-> IF n \in Before(i) THEN r.sel[n] ELSE 0]
           q == Rewound(r, i, again)
<1>0. IsRun(r) /\ i \in Nat /\ i <= Len(Order) /\ r.cur \in Nat /\ Order[i] \in Nodes
  BY RunFacts, NodeFacts DEF Good, Places
<1>1. \A n \in Nodes : u[n] \in 0..Len(r.tries[n])
  BY <1>0, RunFacts
<1>2. q = [st |-> "queued", err |-> FALSE, cur |-> i, sel |-> u, again |-> again, tries |-> r.tries]
  <2>1. q = [r EXCEPT !.cur = i, !.again = again, !.st = "queued", !.err = FALSE, !.sel = u]
    BY <1>0, RunShape DEF Rewound
  <2>2. r = [st |-> r.st, err |-> r.err, cur |-> r.cur, sel |-> r.sel, again |-> r.again, tries |-> r.tries]
    BY <1>0, RunShape
  <2> HIDE DEF u, q
  <2> QED
    BY <2>1, <2>2
<1>3. /\ q.st = "queued" /\ q.err = FALSE /\ q.cur = i /\ q.sel = u /\ q.again = again /\ q.tries = r.tries
      /\ u \in [Nodes -> Nat]
  BY <1>0, <1>2, RunFacts
<1>4. \A n \in Nodes : u[n] = IF n \in Before(i) THEN r.sel[n] ELSE 0
  OBVIOUS
<1> HIDE DEF u, q
<1>5. IsRun(q)
  <2>1. \A n \in Nodes : r.tries[n] \in Seq(Attempts(n)) /\ u[n] <= Len(r.tries[n])
    BY <1>0, <1>1, RunFacts
  <2>2. r.tries \in [Nodes -> {r.tries[n] : n \in Nodes}]
    BY <1>0, RunShape
  <2>3. i \in 1..Len(Order) + 1
    BY <1>0 DEF Places
  <2> QED
    BY <1>2, <1>3, <2>1, <2>2, <2>3 DEF IsRun, Active
<1>6. i <= r.cur
  BY <1>0 DEF Good, Fresh
<1>7. \A n \in Nodes : At(r, n) = r.tries[n][r.sel[n]] /\ At(q, n) = r.tries[n][u[n]]
  BY <1>3 DEF At
<1>8. \A j \in Places : j < i => Order[j] \in Nodes /\ u[Order[j]] = r.sel[Order[j]] /\ At(q, Order[j]) = At(r, Order[j])
  BY <1>4, <1>7, NodeFacts
<1>9. \A j \in Places : ~(j < i) => u[Order[j]] = 0
  BY <1>4, NodeFacts
<1>10. \A j \in Places : j < q.cur => q.sel[Order[j]] # 0 /\ At(q, Order[j]).st = "completed"
  BY <1>0, <1>3, <1>6, <1>8 DEF Good, Fresh, Places
<1>11. ASSUME NEW n \in Nodes, q.sel[n] # 0, NEW m \in Inputs[n]
       PROVE  At(q, n).up[m] = q.sel[m] /\ At(q, m).st = "completed"
  <2>1. PICK j \in Places : n = Order[j] /\ j < i
    BY <1>3, <1>9, <1>11, NodeFacts
  <2>2. PICK k \in Places : m = Order[k] /\ k < j
    BY <1>11, <2>1, NodeFacts
  <2>3. k < i
    BY <1>0, <2>1, <2>2 DEF Places
  <2> QED
    BY <1>3, <1>8, <1>11, <2>1, <2>2, <2>3 DEF Good, Fresh
<1>12. Fresh(q)
  BY <1>0, <1>3, <1>9, <1>10, <1>11 DEF Fresh, Places
<1>13. Good(q) /\ Still(q)
  BY <1>3, <1>5, <1>12 DEF Good, AliveAtCursor, Still
<1>14. ~Past(q) /\ Cursor(q) = Order[i]
  BY <1>0, <1>3 DEF Past, Cursor
<1>15. Fed(q, Order[i])
  <2> SUFFICES ASSUME NEW m \in Inputs[Order[i]] PROVE q.sel[m] # 0 /\ At(q, m).st = "completed"
    BY DEF Fed
  <2>1. PICK j \in Places : j < i /\ m = Order[j]
    BY NodeFacts
  <2> QED
    BY <1>3, <1>8, <2>1 DEF Fed
<1> QED
  BY <1>3, <1>13, <1>14, <1>15 DEF q
-----------------------------------------------------------------------------
\* A tick

States == {"absent", "blocked"} \union Active \union Over

\* A run with another status, or handed over to the node that follows.
WithStatus(r, s) == [r EXCEPT !.st = s]
Stepped(r, s) == [r EXCEPT !.cur = @ + 1, !.st = s]

LEMMA StatusRun ==
  ASSUME NEW r, IsRun(r), NEW s \in States
  PROVE  LET q == WithStatus(r, s) IN
         /\ IsRun(q) /\ q.st = s /\ q.err = r.err
         /\ q.cur = r.cur /\ q.sel = r.sel /\ q.again = r.again /\ q.tries = r.tries
<1> DEFINE q == WithStatus(r, s)
<1>1. r = [st |-> r.st, err |-> r.err, cur |-> r.cur, sel |-> r.sel, again |-> r.again, tries |-> r.tries]
  BY RunShape
<1>2. /\ q = [st |-> s, err |-> r.err, cur |-> r.cur, sel |-> r.sel, again |-> r.again, tries |-> r.tries]
      /\ q.st = s /\ q.err = r.err /\ q.cur = r.cur /\ q.sel = r.sel /\ q.again = r.again /\ q.tries = r.tries
  BY <1>1 DEF WithStatus
<1> HIDE DEF q
<1>3. IsRun(q)
  BY <1>2 DEF IsRun, States
<1> QED
  BY <1>2, <1>3 DEF q

LEMMA StepRun ==
  ASSUME NEW r, IsRun(r), r.cur \in Places, NEW s \in States
  PROVE  LET q == Stepped(r, s) IN
         IsRun(q) /\ q.st = s /\ q.cur = r.cur + 1 /\ q.sel = r.sel /\ q.tries = r.tries
<1> DEFINE q == Stepped(r, s)
<1>1. r = [st |-> r.st, err |-> r.err, cur |-> r.cur, sel |-> r.sel, again |-> r.again, tries |-> r.tries]
  BY RunShape
<1>2. /\ q = [st |-> s, err |-> r.err, cur |-> r.cur + 1, sel |-> r.sel, again |-> r.again, tries |-> r.tries]
      /\ q.st = s /\ q.err = r.err /\ q.cur = r.cur + 1 /\ q.sel = r.sel /\ q.again = r.again /\ q.tries = r.tries
  <2> DEFINE c == r.cur + 1
  <2>0. q = [r EXCEPT !.cur = c, !.st = s]
    BY <1>1 DEF Stepped
  <2> HIDE DEF q, c
  <2>1. q = [st |-> s, err |-> r.err, cur |-> c, sel |-> r.sel, again |-> r.again, tries |-> r.tries]
    BY <1>1, <2>0
  <2> USE DEF c
  <2> QED
    BY <2>1
<1>3. r.cur + 1 \in 1..Len(Order) + 1
  BY NodeFacts DEF Places
<1> HIDE DEF q
<1>4. IsRun(q)
  BY <1>2, <1>3 DEF IsRun, States
<1> QED
  BY <1>2, <1>4 DEF q

LEMMA HandSame ==
  ASSUME NEW r, NEW q, q.tries = r.tries
  PROVE  Hand(q, r)
BY DEF Hand

LEMMA HandTrans ==
  ASSUME NEW r, NEW p, NEW q, Hand(p, r), Hand(q, p)
  PROVE  Hand(q, r)
BY DEF Hand

LEMMA StillUnlessOpen ==
  ASSUME NEW r, Good(r), ~IsOpen(r)
  PROVE  Still(r)
<1> SUFFICES ASSUME NEW n \in Nodes, NEW k \in 1..Len(r.tries[n]), IsAlive(r.tries[n][k])
             PROVE  FALSE
  BY DEF Still
<1>1. ~Past(r) /\ n = Cursor(r) /\ k = r.sel[n]
  BY DEF Good, AliveAtCursor
<1>2. Chosen(r) /\ At(r, Cursor(r)) = r.tries[n][k]
  BY <1>1 DEF Chosen, At
<1> QED
  BY <1>2 DEF IsOpen, IsAlive

LEMMA MarkHand ==
  ASSUME NEW r, Good(r), Chosen(r), NEW s \in {"pending", "waiting"} \union Alive \union Over,
         s = "waiting" => At(r, Cursor(r)).g = "none"
  PROVE  Hand(Marked(r, s), r) /\ (Still(r) => Still(Marked(r, s)))
<1> DEFINE q == Marked(r, s)
<1>1. \A m \in Nodes : /\ Len(q.tries[m]) = Len(r.tries[m])
                       /\ \A j \in 1..Len(r.tries[m]) :
                            q.tries[m][j] = IF m = Cursor(r) /\ j = r.sel[m]
                                            THEN [r.tries[m][j] EXCEPT !.st = s] ELSE r.tries[m][j]
  BY MarkGood
<1> HIDE DEF q
<1>2. \A m \in Nodes : \A j \in 1..Len(r.tries[m]) : r.tries[m][j] \in Attempts(m)
  BY RunFacts DEF Good
<1>3. \A m \in Nodes : \A j \in 1..Len(r.tries[m]) :
        q.tries[m][j].g = r.tries[m][j].g /\ q.tries[m][j].e = r.tries[m][j].e
  <2> SUFFICES ASSUME NEW m \in Nodes, NEW j \in 1..Len(r.tries[m])
               PROVE  q.tries[m][j].g = r.tries[m][j].g /\ q.tries[m][j].e = r.tries[m][j].e
    OBVIOUS
  <2>1. r.tries[m][j] \in Attempts(m)
    BY <1>2
  <2>2. /\ [r.tries[m][j] EXCEPT !.st = s].g = r.tries[m][j].g
        /\ [r.tries[m][j] EXCEPT !.st = s].e = r.tries[m][j].e
    BY <2>1 DEF Attempts
  <2> QED
    BY <1>1, <2>2
<1>4. Hand(q, r)
  BY <1>1, <1>3 DEF Hand
<1>5. Still(r) => Still(q)
  BY <1>1, <1>3 DEF Still, IsAlive
<1> QED
  BY <1>4, <1>5 DEF q

LEMMA StatusMove ==
  ASSUME NEW r, Good(r), NEW s \in States, s # "absent", s \in Active \/ Still(r)
  PROVE  Good(WithStatus(r, s)) /\ Hand(WithStatus(r, s), r) /\ WithStatus(r, s).st = s
<1> DEFINE q == WithStatus(r, s)
<1>1. IsRun(r)
  BY DEF Good
<1>2. IsRun(q) /\ q.st = s /\ q.cur = r.cur /\ q.sel = r.sel /\ q.tries = r.tries
  BY <1>1, StatusRun
<1> HIDE DEF q
<1>3. Good(q) /\ Hand(q, r)
  BY <1>2, StatusGood, HandSame
<1> QED
  BY <1>2, <1>3 DEF q

LEMMA StepMove ==
  ASSUME NEW r, Good(r), Chosen(r), At(r, Cursor(r)).st = "completed", Still(r),
         NEW s \in States, s # "absent"
  PROVE  Good(Stepped(r, s)) /\ Hand(Stepped(r, s), r) /\ Stepped(r, s).st = s
<1> DEFINE q == Stepped(r, s)
<1>1. IsRun(r) /\ r.cur \in Places
  BY ChosenRow DEF Good
<1>2. IsRun(q) /\ q.st = s /\ q.cur = r.cur + 1 /\ q.sel = r.sel /\ q.tries = r.tries
  BY <1>1, StepRun
<1> HIDE DEF q
<1>3. Good(q) /\ Hand(q, r)
  BY <1>2, StepGood, HandSame
<1> QED
  BY <1>2, <1>3 DEF q

\* A run that ends, or whose node is handed over, when nothing of it is alive.
LEMMA MarkedThen ==
  ASSUME NEW r, Good(r), Still(r), Chosen(r), NEW s \in {"pending", "waiting"} \union Alive \union Over,
         s = "waiting" => At(r, Cursor(r)).g = "none", NEW t \in States, t # "absent"
  PROVE  LET p == WithStatus(Marked(r, s), t)
             q == Stepped(Marked(r, s), t)
         IN /\ Good(p) /\ Hand(p, r) /\ p.st = t
            /\ s = "completed" => Good(q) /\ Hand(q, r) /\ q.st = t
<1> DEFINE p == Marked(r, s)
<1>1. Good(p) /\ Hand(p, r) /\ Still(p) /\ Chosen(p)
  BY MarkGood, MarkHand
<1>2. s = "completed" => At(p, Cursor(p)).st = "completed"
  <2>1. At(r, Cursor(r)) \in Attempts(Cursor(r))
    BY ChosenRow DEF Good
  <2>2. At(p, Cursor(p)) = [At(r, Cursor(r)) EXCEPT !.st = s]
    BY MarkGood
  <2> QED
    BY <2>1, <2>2 DEF Attempts
<1> HIDE DEF p
<1>3. Good(WithStatus(p, t)) /\ Hand(WithStatus(p, t), p) /\ WithStatus(p, t).st = t
  BY <1>1, StatusMove
<1>4. s = "completed" => Good(Stepped(p, t)) /\ Hand(Stepped(p, t), p) /\ Stepped(p, t).st = t
  BY <1>1, <1>2, StepMove
<1> QED
  BY <1>1, <1>3, <1>4, HandTrans DEF p

LEMMA DispatchGood ==
  ASSUME NEW r, Good(r), Still(r), ~Past(r), r.st \in Active,
         IF Chosen(r) THEN At(r, Cursor(r)).g = "none" ELSE Fed(r, Cursor(r))
  PROVE  Good(Dispatched(r)) /\ Hand(Dispatched(r), r) /\ Dispatched(r).st \in Active
<1> DEFINE n == Cursor(r)
           q == IF Chosen(r) THEN r ELSE Attempted(r, n)
           k == q.sel[n]
           b == [At(q, n) EXCEPT !.st = "queued", !.g = "queued", !.e = "queued"]
           d == Dispatched(r)
<1>1. /\ Good(q) /\ Still(q) /\ Hand(q, r)
      /\ Chosen(q) /\ Cursor(q) = n /\ At(q, n).g = "none" /\ q.st \in Active
  <2>1. CASE Chosen(r)
    BY <2>1, HandSame
  <2>2. CASE ~Chosen(r)
    BY <2>2, GrowGood DEF NewAttempt
  <2> QED
    BY <2>1, <2>2
<1>2. d = IF Kind[n] = "approval" THEN [Marked(q, "waiting") EXCEPT !.st = "waiting"]
          ELSE [q EXCEPT !.st = "running",
                         !.tries[n][k] = [@ EXCEPT !.st = "queued", !.g = "queued", !.e = "queued"]]
  BY DEF Dispatched
<1> HIDE DEF n, q, d
<1>3. CASE Kind[n] = "approval"
  <2>1. d = WithStatus(Marked(q, "waiting"), "waiting")
    BY <1>2, <1>3 DEF WithStatus
  <2>2. "waiting" \in States
    BY DEF States, Active
  <2>3. Good(d) /\ Hand(d, q) /\ d.st = "waiting"
    BY <1>1, <2>1, <2>2, MarkedThen
  <2> QED
    BY <1>1, <2>3, HandTrans DEF d, Active
<1>4. CASE Kind[n] # "approval"
  <2>0. IsRun(q) /\ Chosen(q)
    BY <1>1 DEF Good
  <2>1. n \in Nodes /\ k \in 1..Len(q.tries[n]) /\ At(q, n) = q.tries[n][k] /\ At(q, n) \in Attempts(n)
    BY <1>1, <2>0, ChosenRow
  <2>2. /\ b \in Attempts(n) /\ b.up = At(q, n).up /\ b.g = "queued" /\ b.e = "queued" /\ b.st = "queued"
        /\ Agrees(b)
    BY <2>1 DEF Attempts, Agrees, Alive, Over
  <2> DEFINE p == Replaced(q, n, k, b)
  <2>3. d = WithStatus(p, "running")
    <3>1. q = [st |-> q.st, err |-> q.err, cur |-> q.cur, sel |-> q.sel, again |-> q.again, tries |-> q.tries]
      BY <2>0, RunShape
    <3>2. [q.tries EXCEPT ![n][k] = [@ EXCEPT !.st = "queued", !.g = "queued", !.e = "queued"]]
            = [q.tries EXCEPT ![n][k] = b]
      BY <2>1
    <3> QED
      BY <1>2, <1>4, <3>1, <3>2 DEF Replaced, WithStatus
  <2> HIDE DEF b
  <2>4. /\ Good(p) /\ p.st = q.st
        /\ \A m \in Nodes : /\ Len(p.tries[m]) = Len(q.tries[m])
                            /\ \A j \in 1..Len(q.tries[m]) :
                                 p.tries[m][j] = IF m = n /\ j = q.sel[m] THEN b ELSE q.tries[m][j]
    BY <1>1, <2>2, PutCurrent
  <2> HIDE DEF p
  <2>5. Hand(p, q)
    <3>1. q.tries[n][k].e # "running"
      BY <1>1, <2>1 DEF Still, IsAlive, Alive
    <3> QED
      BY <2>2, <2>4, <3>1 DEF Hand
  <2>6. "running" \in States /\ "running" \in Active
    BY DEF States, Active
  <2>7. Good(d) /\ Hand(d, p) /\ d.st = "running"
    BY <2>3, <2>4, <2>6, StatusMove
  <2> QED
    BY <1>1, <2>5, <2>6, <2>7, HandTrans DEF d
<1> QED
  BY <1>3, <1>4

LEMMA AdvanceGood ==
  ASSUME NEW r, Good(r), r.st \in Active
  PROVE  LET q == Advanced(r) IN
         /\ Good(q) /\ Hand(q, r) /\ q.st # "absent"
         /\ r.st = "stopping" => q.st \in {"stopping", "stopped", "blocked"}
<1> DEFINE n == Cursor(r)
           a == At(r, n)
           q == Advanced(r)
           Goal == /\ Good(q) /\ Hand(q, r) /\ q.st # "absent"
                   /\ r.st = "stopping" => q.st \in {"stopping", "stopped", "blocked"}
<1>0. /\ IsRun(r)
      /\ Chosen(r) => a \in Attempts(n) /\ a.e \in {"none"} \union Alive \union Over /\ Agrees(a)
  <2>1. IsRun(r)
    BY DEF Good
  <2>2. ASSUME Chosen(r) PROVE a \in Attempts(n) /\ Agrees(a)
    BY <2>1, <2>2, ChosenRow DEF Good
  <2> QED
    BY <2>1, <2>2 DEF Attempts
<1> SUFFICES Goal
  OBVIOUS
<1> HIDE DEF n, a, q
<1>1. CASE q = r
  BY <1>1, HandSame DEF Active
<1>2. CASE r.st = "stopping" /\ ~IsOpen(r)
  <2> DEFINE t == IF r.err THEN "blocked" ELSE "stopped"
             s == IF a.e = "none" THEN "stopped" ELSE a.e
  <2>1. Still(r)
    BY <1>2, StillUnlessOpen
  <2>2. t \in States /\ t # "absent" /\ t \in {"stopping", "stopped", "blocked"}
    BY DEF States, Over
  <2> HIDE DEF t
  <2>3. CASE Chosen(r) /\ a.st \notin Over
    <3>1. q = WithStatus(Marked(r, s), t)
      BY <1>2, <2>3 DEF q, Advanced, Ended, a, n, t, WithStatus
    <3>2. s \in {"pending", "waiting"} \union Alive \union Over /\ s # "waiting"
      BY <1>0, <2>3 DEF Alive, Over
    <3> HIDE DEF s
    <3> QED
      BY <2>1, <2>2, <2>3, <3>1, <3>2, MarkedThen
  <2>4. CASE ~(Chosen(r) /\ a.st \notin Over)
    <3>1. q = WithStatus(r, t)
      BY <1>2, <2>4 DEF q, Advanced, Ended, a, n, t, WithStatus
    <3> QED
      BY <2>1, <2>2, <3>1, StatusMove
  <2> QED
    BY <2>3, <2>4
<1>3. CASE r.st # "stopping" /\ Past(r)
  <2>1. q = WithStatus(r, "completed")
    BY <1>3 DEF q, Advanced, WithStatus
  <2>2. Still(r)
    BY <1>3, StillUnlessOpen DEF IsOpen, Chosen
  <2>3. "completed" \in States
    BY DEF States, Over
  <2> QED
    BY <1>3, <2>1, <2>2, <2>3, StatusMove
<1>4. CASE r.st # "stopping" /\ Chosen(r) /\ a.g # "none" /\ a.e \in Over
  <2> DEFINE t == IF r.again THEN "queued" ELSE "stopped"
  <2>0. ~Past(r)
    BY <1>4 DEF Chosen
  <2>1. q = Handed(r)
    BY <1>4, <2>0 DEF q, Advanced, Observed, a, n
  <2>2. Still(r)
    BY <1>0, <1>4, StillUnlessOpen DEF IsOpen, a, n, Agrees, Alive, Over
  <2>3. /\ a.e \in {"pending", "waiting"} \union Alive \union Over /\ a.e # "waiting"
        /\ a.e \in States /\ a.e # "absent" /\ t \in States /\ t # "absent"
    BY <1>4 DEF States, Active, Over
  <2>4. Marked(r, a.e).again = r.again
    BY <1>4, <2>3, MarkGood
  <2>5. CASE a.e = "completed"
    <3>1. q = Stepped(Marked(r, "completed"), t)
      BY <2>1, <2>4, <2>5 DEF Handed, a, n, Stepped
    <3> HIDE DEF t
    <3> QED
      BY <1>4, <2>2, <2>3, <2>5, <3>1, MarkedThen
  <2>6. CASE a.e # "completed"
    <3>1. q = WithStatus(Marked(r, a.e), a.e)
      BY <2>1, <2>6 DEF Handed, a, n, WithStatus
    <3> QED
      BY <1>4, <2>2, <2>3, <3>1, MarkedThen
  <2> QED
    BY <2>5, <2>6
<1>5. CASE r.st # "stopping" /\ Chosen(r) /\ a.g # "none" /\ a.e \notin Over
  <2>1. q = r \/ q = Marked(r, "running")
    BY <1>5 DEF q, Advanced, Observed, Chosen, a, n
  <2>2. CASE q = Marked(r, "running")
    <3>1. "running" \in {"pending", "waiting"} \union Alive \union Over
      BY DEF Alive
    <3>2. Good(q) /\ Hand(q, r) /\ q.st = r.st
      BY <1>5, <2>2, <3>1, MarkGood, MarkHand
    <3> QED
      BY <1>5, <3>2 DEF Active
  <2> QED
    BY <1>1, <2>1, <2>2
<1>6. CASE r.st \notin {"stopping", "waiting"} /\ ~Past(r) /\ ~(Chosen(r) /\ a.g # "none")
  <2>1. Still(r)
    BY <1>0, <1>6, StillUnlessOpen DEF IsOpen, a, n, Agrees, Alive
  <2>2. CASE Chosen(r) \/ Fed(r, n)
    <3>1. q = Dispatched(r)
      BY <1>6, <2>2 DEF q, Advanced, a, n
    <3>2. IF Chosen(r) THEN At(r, Cursor(r)).g = "none" ELSE Fed(r, Cursor(r))
      BY <1>6, <2>2 DEF a, n
    <3> QED
      BY <1>6, <2>1, <3>1, <3>2, DispatchGood DEF Active
  <2>3. CASE ~(Chosen(r) \/ Fed(r, n))
    <3>1. q = WithStatus(r, "blocked")
      BY <1>6, <2>3 DEF q, Advanced, a, n, WithStatus
    <3>2. "blocked" \in States
      BY DEF States
    <3> QED
      BY <1>6, <2>1, <3>1, <3>2, StatusMove
  <2> QED
    BY <2>2, <2>3
<1>7. CASE (r.st = "stopping" /\ IsOpen(r)) \/ (r.st = "waiting" /\ ~Past(r) /\ ~(Chosen(r) /\ a.g # "none"))
  BY <1>1, <1>7 DEF q, Advanced, a, n
<1> QED
  BY <1>2, <1>3, <1>4, <1>5, <1>6, <1>7
-----------------------------------------------------------------------------
\* All rows of a run at once: a chain that is stopped, a restart

Fits(t, r) ==
  /\ \E U : t \in [Nodes -> U]
  /\ \A n \in Nodes : t[n] \in [1..Len(r.tries[n]) -> Attempts(n)]
WithRows(r, t, s, e) == [r EXCEPT !.tries = t, !.st = s, !.err = e]

LEMMA RowsRun ==
  ASSUME NEW r, IsRun(r), NEW s \in States, NEW e \in BOOLEAN, NEW t, Fits(t, r)
  PROVE  LET q == WithRows(r, t, s, e) IN
         /\ IsRun(q) /\ q.st = s /\ q.cur = r.cur /\ q.sel = r.sel /\ q.tries = t
         /\ \A n \in Nodes : Len(q.tries[n]) = Len(r.tries[n])
<1> DEFINE q == WithRows(r, t, s, e)
<1>0. (\E U : t \in [Nodes -> U]) /\ \A n \in Nodes : t[n] \in [1..Len(r.tries[n]) -> Attempts(n)]
  BY DEF Fits
<1>1. r = [st |-> r.st, err |-> r.err, cur |-> r.cur, sel |-> r.sel, again |-> r.again, tries |-> r.tries]
  BY RunShape
<1>2. /\ q = [st |-> s, err |-> e, cur |-> r.cur, sel |-> r.sel, again |-> r.again, tries |-> t]
      /\ q.st = s /\ q.err = e /\ q.cur = r.cur /\ q.sel = r.sel /\ q.again = r.again /\ q.tries = t
  <2> DEFINE p == [st |-> r.st, err |-> r.err, cur |-> r.cur, sel |-> r.sel, again |-> r.again, tries |-> t]
  <2>0. p = [r EXCEPT !.tries = t]
    BY <1>1
  <2>1. q = [p EXCEPT !.st = s, !.err = e]
    BY <2>0 DEF WithRows
  <2>2. q = [st |-> s, err |-> e, cur |-> r.cur, sel |-> r.sel, again |-> r.again, tries |-> t]
    BY <2>1
  <2> HIDE DEF q
  <2> QED
    BY <2>2
<1> HIDE DEF q
<1>3. ASSUME NEW n \in Nodes PROVE t[n] \in Seq(Attempts(n)) /\ Len(t[n]) = Len(r.tries[n])
  <2>1. Len(r.tries[n]) \in Nat
    BY RunFacts
  <2>2. t[n] \in [1..Len(r.tries[n]) -> Attempts(n)]
    BY <1>0
  <2>3. t[n] \in Seq(Attempts(n))
    BY <2>1, <2>2, SeqDef
  <2>4. Len(t[n]) \in Nat /\ DOMAIN t[n] = 1..Len(t[n]) /\ DOMAIN t[n] = 1..Len(r.tries[n])
    BY <2>2, <2>3, LenProperties
  <2> QED
    BY <2>1, <2>3, <2>4
<1>4. IsRun(q)
  <2>1. \A n \in Nodes : t[n] \in Seq(Attempts(n)) /\ r.sel[n] <= Len(t[n])
    BY <1>3, RunFacts
  <2>2. t \in [Nodes -> {t[n] : n \in Nodes}]
    BY <1>0
  <2>3. r.sel \in [Nodes -> Nat]
    BY DEF IsRun
  <2> QED
    BY <1>2, <2>1, <2>2, <2>3, RunFacts DEF IsRun, States
<1> QED
  BY <1>2, <1>3, <1>4 DEF q

\* A stop reaches the rows of a chain.
ChainAsked(r) == [r EXCEPT !.tries = [n \in Nodes |-> [k \in 1..Len(@[n]) |-> Asked(@[n][k])]]]

LEMMA AskedGood ==
  ASSUME NEW r, Good(r)
  PROVE  Good(ChainAsked(r)) /\ Hand(ChainAsked(r), r) /\ ChainAsked(r).st = r.st
<1> DEFINE t == [n \in Nodes |-> [k \in 1..Len(r.tries[n]) |-> Asked(r.tries[n][k])]]
           q == WithRows(r, t, r.st, r.err)
<1>1. IsRun(r) /\ r.st \in States /\ r.err \in BOOLEAN
  BY RunFacts DEF Good, States
<1>2. q = ChainAsked(r)
  <2>1. r = [st |-> r.st, err |-> r.err, cur |-> r.cur, sel |-> r.sel, again |-> r.again, tries |-> r.tries]
    BY <1>1, RunShape
  <2>2. ChainAsked(r) = [r EXCEPT !.tries = t]
    BY DEF ChainAsked
  <2> HIDE DEF t
  <2> QED
    BY <2>1, <2>2 DEF WithRows
<1>3. ASSUME NEW a, NEW n \in Nodes, a \in Attempts(n), Agrees(a)
      PROVE  /\ Asked(a) \in Attempts(n) /\ Asked(a).up = a.up /\ Asked(a).st = a.st
             /\ Agrees(Asked(a)) /\ (IsAlive(Asked(a)) => IsAlive(a))
             /\ Asked(a).e = "running" <=> a.e = "running"
             /\ a.g \in Over => Asked(a).g = a.g
  BY <1>3 DEF Asked, Attempts, Agrees, IsAlive, Alive, Over
<1>4. \A n \in Nodes : \A k \in 1..Len(r.tries[n]) : r.tries[n][k] \in Attempts(n) /\ Agrees(r.tries[n][k])
  BY <1>1, RunFacts DEF Good
<1>5. \A n \in Nodes : \A k \in 1..Len(r.tries[n]) : t[n][k] = Asked(r.tries[n][k])
  OBVIOUS
<1>a. \A n \in Nodes : t[n] = [k \in 1..Len(r.tries[n]) |-> t[n][k]]
  OBVIOUS
<1>6. t \in [Nodes -> {t[n] : n \in Nodes}]
  OBVIOUS
<1> HIDE DEF t
<1>7. /\ IsRun(q) /\ q.st = r.st /\ q.cur = r.cur /\ q.sel = r.sel /\ q.tries = t
      /\ \A n \in Nodes : Len(q.tries[n]) = Len(r.tries[n])
  <2>1. \A n \in Nodes : t[n] \in [1..Len(r.tries[n]) -> Attempts(n)]
    <3> TAKE n \in Nodes
    <3>1. \A k \in 1..Len(r.tries[n]) : t[n][k] \in Attempts(n)
      BY <1>3, <1>4, <1>5
    <3> QED
      BY <1>a, <3>1
  <2>2. \E U : t \in [Nodes -> U]
    BY <1>6
  <2>3. Fits(t, r)
    BY <2>1, <2>2 DEF Fits
  <2> QED
    BY <1>1, <2>3, RowsRun
<1> HIDE DEF q
<1>8. \A n \in Nodes : \A k \in 1..Len(r.tries[n]) : q.tries[n][k] = Asked(r.tries[n][k])
  BY <1>5, <1>7
<1>9. ASSUME NEW n \in Nodes, NEW k \in 1..Len(r.tries[n])
      PROVE  /\ q.tries[n][k].up = r.tries[n][k].up
             /\ Agrees(q.tries[n][k])
             /\ IsAlive(q.tries[n][k]) => q.st \in Active /\ IsAlive(r.tries[n][k])
             /\ q.tries[n][k].st = r.tries[n][k].st
             /\ q.tries[n][k].e = "running" <=> r.tries[n][k].e = "running"
             /\ r.tries[n][k].g \in Over => q.tries[n][k].g = r.tries[n][k].g
  <2>1. IsAlive(r.tries[n][k]) => r.st \in Active
    BY DEF Good, AliveAtCursor
  <2> QED
    BY <1>3, <1>4, <1>7, <1>8, <2>1
<1>10. Good(q)
  BY <1>7, <1>9, Reshape
<1>11. Hand(q, r)
  BY <1>7, <1>9 DEF Hand
<1> QED
  BY <1>2, <1>7, <1>10, <1>11

\* A restart closes what was alive.
LEMMA RecoveredGood ==
  ASSUME NEW r, Good(r)
  PROVE  LET q == Recovered(r) IN
         /\ Good(q) /\ Still(q)
         /\ q.st = IF r.st \in {"queued", "running", "stopping"} THEN "interrupted" ELSE r.st
<1> DEFINE hit == r.st \in {"queued", "running", "stopping"}
           rows(a) == [a EXCEPT !.g = IF @ \in Alive THEN "stopped" ELSE @,
                                !.e = IF @ \in Alive THEN "interrupted" ELSE @]
           mark(a) == IF a.st \in {"pending"} \union Alive THEN [a EXCEPT !.st = "interrupted"] ELSE a
           shut(a) == IF hit THEN mark(rows(a)) ELSE rows(a)
           t == [n \in Nodes |-> [k \in 1..Len(r.tries[n]) |-> shut(r.tries[n][k])]]
           s == IF hit THEN "interrupted" ELSE r.st
           e == hit \/ r.err
           q == WithRows(r, t, s, e)
<1>1. IsRun(r) /\ s \in States /\ e \in BOOLEAN /\ (s = "absent" => r.st = "absent")
  BY RunFacts DEF Good, States, Over
<1>2. q = Recovered(r)
  <2>1. r = [st |-> r.st, err |-> r.err, cur |-> r.cur, sel |-> r.sel, again |-> r.again, tries |-> r.tries]
    BY <1>1, RunShape
  <2> QED
    BY <2>1 DEF Recovered, WithRows
<1>3. ASSUME NEW a, NEW n \in Nodes, a \in Attempts(n), Agrees(a)
      PROVE  /\ shut(a) \in Attempts(n) /\ shut(a).up = a.up /\ Agrees(shut(a)) /\ ~IsAlive(shut(a))
             /\ a.st = "completed" => shut(a).st = "completed"
  <2> DEFINE b == rows(a)
  <2>1. /\ b \in Attempts(n) /\ b.up = a.up /\ b.st = a.st /\ ~IsAlive(b) /\ Agrees(b)
    BY <1>3 DEF Attempts, Agrees, IsAlive, Alive, Over
  <2> HIDE DEF b
  <2> DEFINE c == mark(b)
  <2>2. /\ c \in Attempts(n) /\ c.up = b.up /\ ~IsAlive(c) /\ Agrees(c)
        /\ b.st = "completed" => c.st = "completed"
    BY <2>1 DEF Attempts, Agrees, IsAlive, Alive, Over
  <2>3. shut(a) = IF hit THEN c ELSE b
    BY DEF b
  <2> HIDE DEF c, shut, hit
  <2> QED
    BY <2>1, <2>2, <2>3
<1>4. \A n \in Nodes : \A k \in 1..Len(r.tries[n]) : r.tries[n][k] \in Attempts(n) /\ Agrees(r.tries[n][k])
  BY <1>1, RunFacts DEF Good
<1> HIDE DEF shut, s, e, hit
<1>5. \A n \in Nodes : \A k \in 1..Len(r.tries[n]) : t[n][k] = shut(r.tries[n][k])
  OBVIOUS
<1>a. \A n \in Nodes : t[n] = [k \in 1..Len(r.tries[n]) |-> t[n][k]]
  OBVIOUS
<1>6. t \in [Nodes -> {t[n] : n \in Nodes}]
  OBVIOUS
<1> HIDE DEF t
<1>7. /\ IsRun(q) /\ q.st = s /\ q.cur = r.cur /\ q.sel = r.sel /\ q.tries = t
      /\ \A n \in Nodes : Len(q.tries[n]) = Len(r.tries[n])
  <2>1. \A n \in Nodes : t[n] \in [1..Len(r.tries[n]) -> Attempts(n)]
    <3> TAKE n \in Nodes
    <3>1. \A k \in 1..Len(r.tries[n]) : t[n][k] \in Attempts(n)
      BY <1>3, <1>4, <1>5
    <3> QED
      BY <1>a, <3>1
  <2>2. \E U : t \in [Nodes -> U]
    BY <1>6
  <2>3. Fits(t, r)
    BY <2>1, <2>2 DEF Fits
  <2> QED
    BY <1>1, <2>3, RowsRun
<1> HIDE DEF q
<1>8. ASSUME NEW n \in Nodes, NEW k \in 1..Len(r.tries[n])
      PROVE  /\ q.tries[n][k].up = r.tries[n][k].up
             /\ Agrees(q.tries[n][k]) /\ ~IsAlive(q.tries[n][k])
             /\ r.tries[n][k].st = "completed" => q.tries[n][k].st = "completed"
  <2>1. r.tries[n][k] \in Attempts(n) /\ Agrees(r.tries[n][k]) /\ q.tries[n][k] = shut(r.tries[n][k])
    BY <1>4, <1>5, <1>7
  <2> QED
    BY <1>3, <2>1
<1>9. Good(q)
  BY <1>1, <1>7, <1>8, Reshape
<1>10. Still(q)
  BY <1>7, <1>8 DEF Still
<1> QED
  BY <1>2, <1>7, <1>9, <1>10 DEF s, hit
-----------------------------------------------------------------------------
\* Steps of the whole system

LEMMA IdFacts ==
  ASSUME TypeOK
  PROVE  /\ \A id \in Ids : /\ id[1] \in Runs /\ id[2] \in Nodes /\ id[3] \in Nat
                            /\ id[3] \in 1..Len(run[id[1]].tries[id[2]])
                            /\ id = <<id[1], id[2], id[3]>>
         /\ \A x \in Runs, n \in Nodes : \A k \in 1..Len(run[x].tries[n]) : <<x, n, k>> \in Ids
         /\ \A x \in Runs : IsRun(run[x])
         /\ work # None => work.id \in Ids
  BY DEF Ids, TypeOK

\* A run changes, the worker keeps what it has in hand.
LEMMA OneRun ==
  ASSUME IInv, NEW x \in Runs, NEW q, Good(q), Hand(q, run[x]), run' = [run EXCEPT ![x] = q],
         work # None <=> work' # None,
         work # None => work'.id = work.id /\ (work'.at = "closing" => work.at = "closing"),
         q.st \in Active => run[x].st \in Active \/ ~OthersActive(x)
  PROVE  /\ DOMAIN run' = Runs /\ \A y \in Runs : Good(run'[y])
         /\ OneActiveRun' /\ InHand' /\ Ids \subseteq Ids'
<1>0. /\ DOMAIN run = Runs /\ TypeOK /\ OneActiveRun /\ InHand /\ \A y \in Runs : Good(run[y])
  BY DEF IInv, TypeOK
<1>1. run'[x] = q /\ \A y \in Runs \ {x} : run'[y] = run[y]
  BY <1>0
<1>2. DOMAIN run' = Runs /\ \A y \in Runs : Good(run'[y])
  BY <1>0, <1>1
<1>3. OneActiveRun'
  BY <1>0, <1>1 DEF OneActiveRun, OthersActive
<1>4. Ids \subseteq Ids'
  BY <1>0, <1>1 DEF Ids, Hand
<1>5. ASSUME NEW id \in Ids, Row(id).e = "running"
      PROVE  Row(id)'.e = "running" /\ (Row(id).g \in Over => Row(id)'.g = Row(id).g)
  BY <1>0, <1>1, <1>5, IdFacts DEF Hand, Row
<1>6. ASSUME NEW id \in Ids', Row(id)'.e = "running"
      PROVE  id \in Ids /\ Row(id).e = "running"
  <2>1. /\ id[1] \in Runs /\ id[2] \in Nodes /\ id[3] \in Nat /\ id[3] \in 1..Len(run'[id[1]].tries[id[2]])
        /\ id \in Runs \X Nodes \X Nat
    BY <1>6 DEF Ids
  <2>2. id[3] \in 1..Len(run[id[1]].tries[id[2]]) /\ Row(id).e = "running"
    BY <1>1, <1>6, <2>1 DEF Hand, Row
  <2> QED
    BY <2>1, <2>2 DEF Ids
<1>7. InHand'
  <2>1. ASSUME work' # None
        PROVE  Row(work.id)'.e = "running" /\ (work'.at = "closing" => Row(work.id)'.g \in Over)
    BY <1>0, <1>5, <2>1, IdFacts DEF InHand
  <2> QED
    BY <1>0, <1>6, <2>1 DEF InHand, Row
<1> QED
  BY <1>2, <1>3, <1>4, <1>7

\* The worker writes the row that it has, or takes, in hand.
LEMMA OneRow ==
  ASSUME IInv, NEW id \in Ids, NEW a \in Attempts(id[2]), a.up = Row(id).up, a.st = Row(id).st,
         Agrees(a), IsAlive(a) => IsAlive(Row(id)), Put(a, id)
  PROVE  /\ DOMAIN run' = Runs /\ \A y \in Runs : Good(run'[y]) /\ run'[y].st = run[y].st
         /\ OneActiveRun' /\ Ids' = Ids
         /\ \A j \in Ids : Row(j)' = IF j = id THEN a ELSE Row(j)
<1> DEFINE x == id[1]
           n == id[2]
           k == id[3]
           q == Replaced(run[x], n, k, a)
<1>0. /\ DOMAIN run = Runs /\ TypeOK /\ OneActiveRun /\ \A y \in Runs : Good(run[y]) /\ IsRun(run[y])
      /\ x \in Runs /\ n \in Nodes /\ k \in 1..Len(run[x].tries[n]) /\ a \in Attempts(n)
      /\ Row(id) = run[x].tries[n][k]
  BY IdFacts DEF IInv, TypeOK, Row
<1>1. run' = [run EXCEPT ![x] = q]
  BY DEF Put, Replaced
<1> HIDE DEF x, n, k
<1>2. /\ q.st = run[x].st
      /\ \A m \in Nodes : /\ Len(q.tries[m]) = Len(run[x].tries[m])
                          /\ \A j \in 1..Len(run[x].tries[m]) :
                               q.tries[m][j] = IF m = n /\ j = k THEN a ELSE run[x].tries[m][j]
  BY <1>0, PutRun
<1>3. Good(q)
  <2>1. IsAlive(Row(id)) => run[x].st \in Active
    BY <1>0 DEF Good, AliveAtCursor
  <2> QED
    BY <1>0, <2>1, PutGood
<1> HIDE DEF q
<1>4. run'[x] = q /\ \A y \in Runs \ {x} : run'[y] = run[y]
  BY <1>0, <1>1
<1>5. DOMAIN run' = Runs /\ \A y \in Runs : Good(run'[y]) /\ run'[y].st = run[y].st
  BY <1>0, <1>1, <1>2, <1>3, <1>4
<1>6. OneActiveRun'
  BY <1>0, <1>5 DEF OneActiveRun
<1>7. \A y \in Runs : \A m \in Nodes : Len(run'[y].tries[m]) = Len(run[y].tries[m])
  BY <1>2, <1>4
<1>8. Ids' = Ids
  BY <1>7 DEF Ids
<1>9. ASSUME NEW j \in Ids PROVE Row(j)' = IF j = id THEN a ELSE Row(j)
  <2>1. /\ j[1] \in Runs /\ j[2] \in Nodes /\ j[3] \in 1..Len(run[j[1]].tries[j[2]])
        /\ j = <<j[1], j[2], j[3]>> /\ id = <<x, n, k>>
    BY <1>0, IdFacts DEF x, n, k
  <2>2. j = id <=> j[1] = x /\ j[2] = n /\ j[3] = k
    BY <2>1 DEF x, n, k
  <2> QED
    BY <1>2, <1>4, <2>1, <2>2 DEF Row
<1> QED
  BY <1>5, <1>6, <1>8, <1>9
WithHead(r, s, e, g) == [r EXCEPT !.st = s, !.err = e, !.again = g]

LEMMA HeadMove ==
  ASSUME NEW r, Good(r), NEW s \in States, s # "absent", s \in Active \/ Still(r),
         NEW e \in BOOLEAN, NEW g \in BOOLEAN
  PROVE  LET q == WithHead(r, s, e, g) IN
         Good(q) /\ Hand(q, r) /\ q.st = s /\ q.cur = r.cur /\ q.sel = r.sel /\ q.tries = r.tries
<1> DEFINE q == WithHead(r, s, e, g)
<1>0. IsRun(r)
  BY DEF Good
<1>1. /\ q = [st |-> s, err |-> e, cur |-> r.cur, sel |-> r.sel, again |-> g, tries |-> r.tries]
      /\ q.st = s /\ q.cur = r.cur /\ q.sel = r.sel /\ q.tries = r.tries
  <2> DEFINE p == [st |-> s, err |-> r.err, cur |-> r.cur, sel |-> r.sel, again |-> r.again, tries |-> r.tries]
  <2>1. r = [st |-> r.st, err |-> r.err, cur |-> r.cur, sel |-> r.sel, again |-> r.again, tries |-> r.tries]
    BY <1>0, RunShape
  <2>2. p = [r EXCEPT !.st = s]
    BY <2>1
  <2>3. q = [p EXCEPT !.err = e, !.again = g]
    BY <2>2 DEF WithHead
  <2>4. q = [st |-> s, err |-> e, cur |-> r.cur, sel |-> r.sel, again |-> g, tries |-> r.tries]
    BY <2>3
  <2> HIDE DEF q
  <2> QED
    BY <2>4
<1> HIDE DEF q
<1>2. IsRun(q)
  BY <1>0, <1>1 DEF IsRun, States
<1>3. Good(q) /\ Hand(q, r)
  BY <1>1, <1>2, StatusGood, HandSame
<1> QED
  BY <1>1, <1>3 DEF q

LEMMA StillUnlessActive ==
  ASSUME NEW r, Good(r), r.st \notin Active
  PROVE  Still(r)
BY DEF Good, AliveAtCursor, Still

\* A run that waits does so for the approval in turn.
LEMMA WaitsAtCursor ==
  ASSUME NEW r, Good(r), NEW n \in Nodes, Decidable(r, n)
  PROVE  Chosen(r) /\ n = Cursor(r) /\ Still(r)
<1>1. IsRun(r) /\ r.sel[n] # 0 /\ At(r, n).st = "waiting"
  BY DEF Good, Decidable
<1>2. PICK i \in Places : i <= r.cur /\ n = Order[i]
  BY <1>1, SelectedBehind
<1>3. i = r.cur
  BY <1>1, <1>2, RunFacts DEF Good, Fresh, Places
<1>4. Chosen(r) /\ n = Cursor(r)
  BY <1>1, <1>2, <1>3 DEF Chosen, Cursor, Past, Places
<1>5. At(r, n).g = "none" /\ At(r, n).e = "none"
  BY <1>1, <1>4, ChosenRow DEF Good, Agrees
<1> QED
  BY <1>4, <1>5, StillUnlessOpen DEF IsOpen, Alive

LEMMA StartedGood ==
  ASSUME NEW r, Good(r), r.st = "absent"
  PROVE  LET q == Attempted([r EXCEPT !.st = "queued"], Order[1]) IN
         Good(q) /\ Hand(q, r) /\ q.st = "queued"
<1> DEFINE p == WithStatus(r, "queued")
<1>0. IsRun(r) /\ r.cur = 1 /\ Still(r) /\ "queued" \in States /\ "queued" \in Active
  BY StillUnlessActive DEF Good, States, Active
<1>1. p.cur = 1 /\ p.tries = r.tries
  BY <1>0, StatusRun
<1>2. Good(p) /\ Hand(p, r) /\ p.st = "queued"
  BY <1>0, StatusMove
<1> HIDE DEF p
<1>3. ~Past(p) /\ Cursor(p) = Order[1] /\ Still(p)
  BY <1>0, <1>1, NodeFacts DEF Past, Cursor, Still, Places
<1>4. Fed(p, Cursor(p))
  BY <1>3, NodeFacts DEF Fed, Places
<1>5. LET q == Attempted(p, Order[1]) IN Good(q) /\ Hand(q, p) /\ q.st = "queued"
  BY <1>0, <1>2, <1>3, <1>4, GrowGood
<1> QED
  BY <1>2, <1>5, HandTrans DEF p, WithStatus

LEMMA RetriedGood ==
  ASSUME NEW r, Good(r), r.st \notin Active, NEW i \in Places, r.sel[Order[i]] # 0, Fed(r, Order[i]),
         NEW again \in BOOLEAN
  PROVE  LET q == Attempted(Rewound(r, i, again), Order[i]) IN
         Good(q) /\ Hand(q, r) /\ q.st = "queued"
<1> DEFINE p == Rewound(r, i, again)
<1>1. /\ Good(p) /\ Still(p) /\ p.st = "queued" /\ p.tries = r.tries
      /\ ~Past(p) /\ Cursor(p) = Order[i] /\ Fed(p, Cursor(p))
  BY StillUnlessActive, RewindGood
<1> HIDE DEF p
<1>2. LET q == Attempted(p, Order[i]) IN Good(q) /\ Hand(q, p) /\ q.st = "queued"
  BY <1>1, GrowGood DEF Active
<1>3. Hand(p, r)
  BY <1>1, HandSame
<1> QED
  BY <1>2, <1>3, HandTrans DEF p

LEMMA ConfirmedGood ==
  ASSUME NEW r, Good(r), NEW n \in Nodes, Decidable(r, n)
  PROVE  LET q == [r EXCEPT !.tries[n][r.sel[n]].st = "completed", !.cur = @ + 1,
                            !.st = IF r.again THEN "queued" ELSE "stopped"] IN
         Good(q) /\ Hand(q, r) /\ q.st \in {"queued", "stopped"}
<1> DEFINE t == IF r.again THEN "queued" ELSE "stopped"
           p == Marked(r, "completed")
<1>1. Chosen(r) /\ n = Cursor(r) /\ Still(r)
  BY WaitsAtCursor
<1>2. /\ "completed" \in {"pending", "waiting"} \union Alive \union Over
      /\ t \in States /\ t # "absent" /\ t \in {"queued", "stopped"}
  BY DEF Over, States, Active
<1>3. [r EXCEPT !.tries[n][r.sel[n]].st = "completed", !.cur = @ + 1, !.st = t] = Stepped(p, t)
  <2>1. r = [st |-> r.st, err |-> r.err, cur |-> r.cur, sel |-> r.sel, again |-> r.again, tries |-> r.tries]
    BY RunShape DEF Good
  <2>2. p = [r EXCEPT !.tries[n][r.sel[n]].st = "completed"]
    BY <1>1 DEF Marked
  <2> QED
    BY <2>1, <2>2 DEF Stepped
<1> HIDE DEF t
<1>4. Good(Stepped(p, t)) /\ Hand(Stepped(p, t), r) /\ Stepped(p, t).st = t
  BY <1>1, <1>2, MarkedThen
<1> QED
  BY <1>2, <1>3, <1>4 DEF t
-----------------------------------------------------------------------------
\* The invariant

\* A request or a tick that changes one run.
Moves(x, q) ==
  /\ Good(q) /\ Hand(q, run[x]) /\ run' = [run EXCEPT ![x] = q]
  /\ q.st \in Active => run[x].st \in Active \/ ~OthersActive(x)
  /\ run[x].st = "stopping" => q.st \in {"stopping", "stopped", "blocked", "interrupted"}

LEMMA RunOf ==
  ASSUME IInv
  PROVE  DOMAIN run = Runs /\ TypeOK /\ \A x \in Runs : Good(run[x]) /\ IsRun(run[x]) /\ run[x].st \in States
BY RunFacts DEF IInv, TypeOK, Good, States

\* At most one stop more is to be carried out.
More == stops' = stops \/ \E c \in Calls : stops' = stops \union {c}

LEMMA MovesInv ==
  ASSUME IInv, NEW x \in Runs, NEW q, Moves(x, q), UNCHANGED <<granted, work>>,
         stops' \subseteq Calls, events' \in 0..MaxEvents, inbox' \subseteq Ids'
  PROVE  IInv'
<1>1. /\ DOMAIN run' = Runs /\ \A y \in Runs : Good(run'[y])
      /\ OneActiveRun' /\ InHand' /\ Ids \subseteq Ids'
  BY OneRun DEF Moves
<1>2. TypeOK'
  BY <1>1 DEF IInv, TypeOK, Good
<1> QED
  BY <1>1, <1>2 DEF IInv

LEMMA IdsGrow ==
  ASSUME IInv, NEW x \in Runs, NEW q, Moves(x, q), work' = work
  PROVE  Ids \subseteq Ids' /\ inbox \subseteq Ids'
BY OneRun DEF Moves, IInv, TypeOK

LEMMA ControlMoves ==
  ASSUME IInv, NEW x \in Runs,
         \/ Start(x) \/ Resume(x) \/ \E how \in {"held", "late"} : Stop(x, how)
         \/ \E n \in Nodes : Confirm(x, n)
         \/ \E i \in 1..Len(Order), again \in BOOLEAN : Retry(x, i, again)
  PROVE  /\ \E q : Moves(x, q)
         /\ UNCHANGED <<granted, work, inbox>> /\ More
         /\ events' = events \/ (events < MaxEvents /\ events' = events + 1)
<1>0. DOMAIN run = Runs /\ Good(run[x]) /\ IsRun(run[x])
  BY RunOf
<1>1. CASE Start(x)
  <2> DEFINE q == Attempted([run[x] EXCEPT !.st = "queued"], Order[1])
  <2>1. Good(q) /\ Hand(q, run[x]) /\ q.st = "queued"
    BY <1>0, <1>1, StartedGood DEF Start
  <2>2. run' = [run EXCEPT ![x] = q]
    BY <1>1 DEF Start
  <2> HIDE DEF q
  <2>3. Moves(x, q)
    BY <1>1, <2>1, <2>2 DEF Start, Moves, OthersActive
  <2> QED
    BY <1>1, <2>3 DEF Start, More
<1>2. CASE \E how \in {"held", "late"} : Stop(x, how)
  <2> DEFINE q == WithStatus(run[x], "stopping")
  <2>1. Good(q) /\ Hand(q, run[x]) /\ q.st = "stopping"
    BY <1>0, StatusMove DEF States, Active
  <2>2. run' = [run EXCEPT ![x] = q]
    BY <1>0, <1>2 DEF Stop, WithStatus
  <2> HIDE DEF q
  <2>3. Moves(x, q)
    BY <1>2, <2>1, <2>2 DEF Stop, Moves
  <2>4. UNCHANGED <<granted, work, inbox>> /\ events < MaxEvents /\ events' = events + 1 /\ More
    BY <1>2 DEF Stop, More, Calls
  <2> QED
    BY <2>3, <2>4
<1>3. CASE Resume(x)
  <2> DEFINE q == WithHead(run[x], "queued", FALSE, TRUE)
  <2>a. "queued" \in States /\ "queued" \in Active /\ "queued" # "absent" /\ FALSE \in BOOLEAN /\ TRUE \in BOOLEAN
    BY DEF States, Active
  <2>1. Good(q) /\ Hand(q, run[x]) /\ q.st = "queued"
    BY <1>0, <2>a, HeadMove
  <2>2. run' = [run EXCEPT ![x] = q]
    BY <1>0, <1>3 DEF Resume, WithHead
  <2> HIDE DEF q
  <2>3. Moves(x, q)
    BY <1>3, <2>1, <2>2 DEF Resume, Resumable, Moves, Active
  <2> QED
    BY <1>3, <2>3 DEF Resume, More
<1>4. ASSUME NEW n \in Nodes, Confirm(x, n)
      PROVE  (\E q : Moves(x, q)) /\ UNCHANGED <<granted, work, inbox, stops, events>>
  <2> DEFINE r == run[x]
             q == [r EXCEPT !.tries[n][r.sel[n]].st = "completed", !.cur = @ + 1,
                            !.st = IF r.again THEN "queued" ELSE "stopped"]
  <2>1. Good(q) /\ Hand(q, r) /\ q.st \in {"queued", "stopped"}
    BY <1>0, <1>4, ConfirmedGood DEF Confirm
  <2>2. run' = [run EXCEPT ![x] = q]
    BY <1>0, <1>4 DEF Confirm
  <2> HIDE DEF q
  <2>3. Moves(x, q)
    BY <1>4, <2>1, <2>2 DEF Confirm, Decidable, Moves, Active
  <2> QED
    BY <1>4, <2>3 DEF Confirm
<1>5. ASSUME NEW i \in 1..Len(Order), NEW again \in BOOLEAN, Retry(x, i, again)
      PROVE  /\ \E q : Moves(x, q)
             /\ UNCHANGED <<granted, work, inbox, stops>> /\ events < MaxEvents /\ events' = events + 1
  <2> DEFINE q == Attempted(Rewound(run[x], i, again), Order[i])
  <2>1. Good(q) /\ Hand(q, run[x]) /\ q.st = "queued"
    BY <1>0, <1>5, RetriedGood DEF Retry, Retriable, Places
  <2>2. run' = [run EXCEPT ![x] = q]
    BY <1>5 DEF Retry
  <2> HIDE DEF q
  <2>3. Moves(x, q)
    BY <1>5, <2>1, <2>2 DEF Retry, Retriable, Moves, Active
  <2> QED
    BY <1>5, <2>3 DEF Retry
<1> QED
  BY <1>1, <1>2, <1>3, <1>4, <1>5 DEF More

LEMMA AdvanceMoves ==
  ASSUME IInv, NEW x \in Runs, Advance(x)
  PROVE  \E q : /\ Moves(x, q) /\ UNCHANGED <<granted, work, events>> /\ More
                /\ inbox' = inbox \/ (Chosen(q) /\ inbox' = inbox \union {<<x, Cursor(q), q.sel[Cursor(q)]>>})
<1> DEFINE r == IF Refused(run[x]) THEN [run[x] EXCEPT !.st = "stopping", !.err = TRUE] ELSE run[x]
           q == Advanced(r)
<1>0. DOMAIN run = Runs /\ Good(run[x]) /\ IsRun(run[x]) /\ run[x].st \in Active
  BY RunOf DEF Advance
<1>1. Good(r) /\ Hand(r, run[x]) /\ r.st \in Active /\ (run[x].st = "stopping" => r.st = "stopping")
  <2> DEFINE p == WithHead(run[x], "stopping", TRUE, run[x].again)
  <2>1. /\ run[x].again \in BOOLEAN /\ TRUE \in BOOLEAN
        /\ "stopping" \in States /\ "stopping" \in Active /\ "stopping" # "absent"
    BY <1>0, RunFacts DEF States, Active
  <2>2. Good(p) /\ Hand(p, run[x]) /\ p.st = "stopping"
    BY <1>0, <2>1, HeadMove
  <2>3. p = [run[x] EXCEPT !.st = "stopping", !.err = TRUE]
    <3>1. run[x] = [st |-> run[x].st, err |-> run[x].err, cur |-> run[x].cur, sel |-> run[x].sel,
                    again |-> run[x].again, tries |-> run[x].tries]
      BY <1>0, RunShape
    <3> QED
      BY <3>1 DEF WithHead
  <2> HIDE DEF p
  <2>4. CASE Refused(run[x])
    BY <2>2, <2>3, <2>4 DEF Active
  <2>5. CASE ~Refused(run[x])
    BY <1>0, <2>5, HandSame
  <2> QED
    BY <2>4, <2>5
<1>2. /\ run' = [run EXCEPT ![x] = q] /\ UNCHANGED <<granted, work, events>> /\ More
      /\ inbox' = IF Waits(q) THEN inbox \union {<<x, Cursor(q), q.sel[Cursor(q)]>>} ELSE inbox
  BY DEF Advance, More, Calls
<1> HIDE DEF r
<1>3. /\ Good(q) /\ Hand(q, r)
      /\ r.st = "stopping" => q.st \in {"stopping", "stopped", "blocked"}
  BY <1>1, AdvanceGood
<1> HIDE DEF q
<1>4. Moves(x, q)
  BY <1>0, <1>1, <1>2, <1>3, HandTrans DEF Moves
<1> QED
  BY <1>2, <1>4 DEF Waits

-----------------------------------------------------------------------------
\* The worker: the row it writes, and what it has in hand afterwards

\* An attempt leaves open what it was made of and what the engine said of it.
SameAttempt(a, b) == a.up = b.up /\ a.st = b.st /\ Agrees(a) /\ (IsAlive(a) => IsAlive(b))

LEMMA RowFacts ==
  ASSUME IInv, NEW id \in Ids
  PROVE  Row(id) \in Attempts(id[2]) /\ Agrees(Row(id))
<1>1. /\ IsRun(run[id[1]]) /\ id[2] \in Nodes /\ id[3] \in 1..Len(run[id[1]].tries[id[2]])
      /\ Good(run[id[1]])
  BY IdFacts DEF IInv
<1> QED
  BY <1>1, RunFacts DEF Row, Good

\* The attempt that is written is the one in hand, before or afterwards.
LEMMA WorkerInv ==
  ASSUME IInv, NEW id \in Ids, NEW a \in Attempts(id[2]), SameAttempt(a, Row(id)), Put(a, id),
         work = None \/ work.id = id,
         \/ a.e # "running" /\ work' = None
         \/ /\ a.e = "running" /\ work' # None /\ work'.id = id
            /\ work' \in [id : Ids, at : {"claimed", "live", "cancelled", "closing"}]
            /\ work'.at = "closing" => a.g \in Over,
         inbox' \subseteq inbox, UNCHANGED <<granted, stops, events>>
  PROVE  IInv'
<1>1. /\ DOMAIN run' = Runs /\ \A y \in Runs : Good(run'[y]) /\ run'[y].st = run[y].st
      /\ OneActiveRun' /\ Ids' = Ids
      /\ \A j \in Ids : Row(j)' = IF j = id THEN a ELSE Row(j)
  BY OneRow DEF SameAttempt
<1>2. \A j \in Ids : Row(j)'.e = "running" => j = id
  BY <1>1 DEF IInv, InHand
<1>3. InHand'
  <2>1. ASSUME work' # None
        PROVE  work'.id = id /\ Row(id)'.e = "running" /\ (work'.at = "closing" => Row(id)'.g \in Over)
    BY <1>1, <2>1
  <2>2. work' # None => Row(work.id)'.e = "running" /\ (work'.at = "closing" => Row(work.id)'.g \in Over)
    BY <2>1 DEF Row
  <2>3. \A j \in Ids' : Row(j)'.e = "running" => work' # None /\ work'.id = j
    BY <1>1, <1>2
  <2> QED
    BY <2>2, <2>3 DEF InHand, Row
<1>4. TypeOK'
  BY <1>1 DEF IInv, TypeOK, Good
<1> QED
  BY <1>1, <1>3, <1>4 DEF IInv

LEMMA ClaimInv ==
  ASSUME IInv, NEW id \in inbox, Claim(id)
  PROVE  IInv'
<1>1. id \in Ids /\ work = None
  BY DEF IInv, TypeOK, Claim
<1>2. Row(id) \in Attempts(id[2]) /\ Agrees(Row(id))
  BY <1>1, RowFacts
<1>3. CASE Row(id).g = "queued"
  <2> DEFINE a == [Row(id) EXCEPT !.e = "running"]
  <2>1. a \in Attempts(id[2]) /\ SameAttempt(a, Row(id)) /\ a.e = "running"
    BY <1>2, <1>3 DEF Attempts, SameAttempt, Agrees, IsAlive, Alive, Over
  <2>2. Put(a, id) /\ work' = [id |-> id, at |-> "claimed"]
    BY <1>3 DEF Claim
  <2>3. /\ work' # None /\ work'.id = id /\ work'.at # "closing"
        /\ work' \in [id : Ids, at : {"claimed", "live", "cancelled", "closing"}]
    BY <1>1, <2>2 DEF None
  <2>4. inbox' \subseteq inbox /\ UNCHANGED <<granted, stops, events>>
    BY DEF Claim
  <2> HIDE DEF a
  <2> QED
    BY <1>1, <2>1, <2>2, <2>3, <2>4, WorkerInv
<1>4. CASE Row(id).g # "queued"
  <2>1. UNCHANGED <<run, work, granted, stops, events>> /\ inbox' \subseteq inbox
    BY <1>4 DEF Claim
  <2> QED
    BY <2>1 DEF IInv, TypeOK, OneActiveRun, InHand, Ids, Row
<1> QED
  BY <1>3, <1>4

\* What is in hand has a row that runs.
LEMMA HandFacts ==
  ASSUME IInv, work # None
  PROVE  /\ work.id \in Ids /\ work.at \in {"claimed", "live", "cancelled", "closing"}
         /\ work = [id |-> work.id, at |-> work.at]
         /\ Row(work.id) \in Attempts(work.id[2]) /\ Agrees(Row(work.id))
         /\ Row(work.id).e = "running" /\ (work.at = "closing" => Row(work.id).g \in Over)
<1>1. work.id \in Ids /\ work.at \in {"claimed", "live", "cancelled", "closing"} /\ work = [id |-> work.id, at |-> work.at]
  BY DEF IInv, TypeOK
<1> QED
  BY <1>1, RowFacts DEF IInv, InHand

LEMMA PermitInv ==
  ASSUME IInv, Permit
  PROVE  IInv'
<1> DEFINE id == work.id
<1>1. /\ work # None /\ id \in Ids /\ Row(id) \in Attempts(id[2]) /\ Agrees(Row(id)) /\ Row(id).e = "running"
      /\ work = [id |-> id, at |-> work.at]
  BY HandFacts DEF Permit
<1>2. inbox' \subseteq inbox /\ UNCHANGED <<granted, stops, events>>
  BY DEF Permit
<1>3. CASE Permitted(id)
  <2> DEFINE a == [Row(id) EXCEPT !.g = "running"]
  <2>1. a \in Attempts(id[2]) /\ SameAttempt(a, Row(id)) /\ a.e = "running"
    BY <1>1 DEF Attempts, SameAttempt, Agrees, IsAlive, Alive, Over, Permitted
  <2>2. Put(a, id) /\ work' = [work EXCEPT !.at = "live"]
    BY <1>3 DEF Permit
  <2>3. /\ work' # None /\ work'.id = id /\ work'.at # "closing"
        /\ work' \in [id : Ids, at : {"claimed", "live", "cancelled", "closing"}]
    <3>1. work' = [id |-> id, at |-> "live"]
      BY <1>1, <2>2
    <3> QED
      BY <1>1, <3>1 DEF None
  <2> HIDE DEF a, id
  <2> QED
    BY <1>1, <1>2, <2>1, <2>2, <2>3, WorkerInv DEF id
<1>4. CASE ~Permitted(id)
  <2> DEFINE a == Failed(Row(id))
  <2>1. a \in Attempts(id[2]) /\ SameAttempt(a, Row(id)) /\ a.e # "running"
    BY <1>1 DEF Failed, Attempts, SameAttempt, Agrees, IsAlive, Alive, Over
  <2>2. Put(a, id) /\ work' = None
    BY <1>4 DEF Permit
  <2> HIDE DEF a, id
  <2> QED
    BY <1>1, <1>2, <2>1, <2>2, WorkerInv DEF id
<1> QED
  BY <1>3, <1>4

LEMMA SettleInv ==
  ASSUME IInv, NEW end \in {"completed", "failed", "stopped"}, Settle(end)
  PROVE  IInv'
<1> DEFINE id == work.id
           a == [Row(id) EXCEPT !.g = end]
<1>1. /\ work # None /\ id \in Ids /\ Row(id) \in Attempts(id[2]) /\ Agrees(Row(id)) /\ Row(id).e = "running"
      /\ work = [id |-> id, at |-> work.at]
  BY HandFacts DEF Settle
<1>2. inbox' \subseteq inbox /\ UNCHANGED <<granted, stops, events>> /\ Put(a, id) /\ work' = [work EXCEPT !.at = "closing"]
  BY DEF Settle
<1>3. a \in Attempts(id[2]) /\ SameAttempt(a, Row(id)) /\ a.e = "running" /\ a.g \in Over
  <2>1. Row(id).g # "none" /\ (Row(id).st = "waiting" => Row(id).g = "none")
    BY <1>1 DEF Agrees
  <2> QED
    BY <1>1, <2>1 DEF Attempts, SameAttempt, Agrees, IsAlive, Alive, Over
<1>4. work' # None /\ work'.id = id /\ work' \in [id : Ids, at : {"claimed", "live", "cancelled", "closing"}]
  <2>1. work' = [id |-> id, at |-> "closing"]
    BY <1>1, <1>2
  <2> QED
    BY <1>1, <2>1 DEF None
<1> HIDE DEF a, id
<1> QED
  BY <1>1, <1>2, <1>3, <1>4, WorkerInv DEF id

LEMMA FinishInv ==
  ASSUME IInv, Finish
  PROVE  IInv'
<1> DEFINE id == work.id
           a == [Row(id) EXCEPT !.e = Row(id).g]
<1>1. /\ work # None /\ id \in Ids /\ Row(id) \in Attempts(id[2]) /\ Agrees(Row(id)) /\ Row(id).e = "running"
      /\ Row(id).g \in Over
  BY HandFacts DEF Finish
<1>2. inbox' \subseteq inbox /\ UNCHANGED <<granted, stops, events>> /\ Put(a, id) /\ work' = None
  BY DEF Finish
<1>3. a \in Attempts(id[2]) /\ SameAttempt(a, Row(id)) /\ a.e # "running"
  BY <1>1 DEF Attempts, SameAttempt, Agrees, IsAlive, Alive, Over
<1> HIDE DEF a, id
<1> QED
  BY <1>1, <1>2, <1>3, WorkerInv DEF id

-----------------------------------------------------------------------------
\* The chain of a run is stopped, the process restarts, the rest

LEMMA StopChainInv ==
  ASSUME IInv, NEW x \in Runs, NEW how \in {"held", "late"}, StopChain(x, how)
  PROVE  IInv'
<1> DEFINE q == ChainAsked(run[x])
<1>1. Good(q) /\ Hand(q, run[x]) /\ q.st = run[x].st /\ run' = [run EXCEPT ![x] = q]
  BY RunOf, AskedGood DEF StopChain, ChainAsked
<1>2. UNCHANGED <<granted, inbox, events>> /\ stops' \subseteq Calls
  BY DEF StopChain, IInv, TypeOK
<1>3. /\ work # None <=> work' # None
      /\ work # None => /\ work'.id = work.id /\ (work'.at = "closing" => work.at = "closing")
                        /\ work' \in [id : Ids, at : {"claimed", "live", "cancelled", "closing"}]
  <2>1. CASE work # None /\ work.id[1] = x /\ work.at = "live"
    <3>1. work = [id |-> work.id, at |-> "live"] /\ work.id \in Ids
      BY <2>1, HandFacts
    <3>2. work' = [id |-> work.id, at |-> "cancelled"]
      BY <2>1, <3>1 DEF StopChain
    <3> QED
      BY <2>1, <3>1, <3>2 DEF None
  <2>2. CASE ~(work # None /\ work.id[1] = x /\ work.at = "live")
    BY <2>2 DEF StopChain, IInv, TypeOK
  <2> QED
    BY <2>1, <2>2
<1> HIDE DEF q
<1>4. /\ DOMAIN run' = Runs /\ \A y \in Runs : Good(run'[y])
      /\ OneActiveRun' /\ InHand' /\ Ids \subseteq Ids'
  BY <1>1, <1>3, OneRun
<1>5. TypeOK'
  BY <1>2, <1>3, <1>4 DEF IInv, TypeOK, Good
<1> QED
  BY <1>4, <1>5 DEF IInv

LEMMA RestartInv ==
  ASSUME IInv, Restart
  PROVE  IInv'
<1>1. \A x \in Runs : /\ Good(run'[x]) /\ Still(run'[x])
                      /\ run'[x].st \in Active => run[x].st \in Active
  <2> TAKE x \in Runs
  <2>1. run'[x] = Recovered(run[x]) /\ Good(run[x])
    BY RunOf DEF Restart
  <2> QED
    BY <2>1, RecoveredGood DEF Active
<1>2. DOMAIN run' = Runs /\ OneActiveRun'
  BY <1>1 DEF IInv, OneActiveRun, Restart
<1>3. InHand'
  <2>1. ASSUME NEW id \in Ids' PROVE Row(id)'.e # "running"
    <3>1. id[1] \in Runs /\ id[2] \in Nodes /\ id[3] \in 1..Len(run'[id[1]].tries[id[2]])
      BY DEF Ids
    <3> QED
      BY <1>1, <3>1 DEF Row, Still, IsAlive, Alive
  <2> QED
    BY <2>1 DEF InHand, Restart
<1>4. TypeOK'
  <2>1. /\ work' = None /\ inbox' = {} /\ stops' = {} /\ granted' = granted
        /\ events < MaxEvents /\ events' = events + 1
    BY DEF Restart
  <2>2. \A x \in Runs : IsRun(run'[x])
    BY <1>1 DEF Good
  <2>3. granted' \in BOOLEAN /\ events' \in 0..MaxEvents
    BY <2>1, PathAssumption DEF IInv, TypeOK
  <2> QED
    BY <1>2, <2>1, <2>2, <2>3 DEF TypeOK
<1> QED
  BY <1>1, <1>2, <1>3, <1>4 DEF IInv

LEMMA AdvanceInv ==
  ASSUME IInv, NEW x \in Runs, Advance(x)
  PROVE  IInv'
<1>1. PICK q : /\ Moves(x, q) /\ UNCHANGED <<granted, work, events>> /\ More
               /\ inbox' = inbox \/ (Chosen(q) /\ inbox' = inbox \union {<<x, Cursor(q), q.sel[Cursor(q)]>>})
  BY AdvanceMoves
<1>2. Ids \subseteq Ids' /\ inbox \subseteq Ids'
  BY <1>1, IdsGrow
<1>3. Chosen(q) => <<x, Cursor(q), q.sel[Cursor(q)]>> \in Ids'
  <2>1. Good(q) /\ IsRun(q) /\ run'[x] = q
    BY <1>1, RunOf DEF Moves, Good
  <2>2. Chosen(q) => Cursor(q) \in Nodes /\ q.sel[Cursor(q)] \in 1..Len(q.tries[Cursor(q)])
    BY <2>1, ChosenRow
  <2>3. Chosen(q) => q.sel[Cursor(q)] \in Nat
    BY <2>1, <2>2, RunFacts
  <2> QED
    BY <2>1, <2>2, <2>3 DEF Ids
<1>4. inbox' \subseteq Ids' /\ stops' \subseteq Calls /\ events' \in 0..MaxEvents
  BY <1>1, <1>2, <1>3 DEF IInv, TypeOK, More
<1> QED
  BY <1>1, <1>4, MovesInv

LEMMA ControlInv ==
  ASSUME IInv, NEW x \in Runs,
         \/ Start(x) \/ Resume(x) \/ \E how \in {"held", "late"} : Stop(x, how)
         \/ \E n \in Nodes : Confirm(x, n)
         \/ \E i \in 1..Len(Order), again \in BOOLEAN : Retry(x, i, again)
  PROVE  IInv'
<1>1. /\ \E q : Moves(x, q)
      /\ UNCHANGED <<granted, work, inbox>> /\ More
      /\ events' = events \/ (events < MaxEvents /\ events' = events + 1)
  BY ControlMoves
<1>2. PICK q : Moves(x, q)
  BY <1>1
<1>3. inbox' \subseteq Ids'
  BY <1>1, <1>2, IdsGrow
<1>4. stops' \subseteq Calls /\ events' \in 0..MaxEvents
  BY <1>1, PathAssumption DEF IInv, TypeOK, More
<1> QED
  BY <1>1, <1>2, <1>3, <1>4, MovesInv

LEMMA IInvInit ==
  ASSUME Init
  PROVE  IInv
<1>1. IsRun(NoRun) /\ NoRun.st = "absent" /\ NoRun.cur = 1 /\ \A n \in Nodes : NoRun.sel[n] = 0 /\ NoRun.tries[n] = <<>>
  BY NodeFacts DEF NoRun, IsRun
<1>2. Good(NoRun)
  <2>1. \A i \in Places : Order[i] \in Nodes /\ ~(i < 1)
    BY NodeFacts DEF Places
  <2> QED
    BY <1>1, <2>1 DEF Good, Fresh, AliveAtCursor, Places
<1>3. Ids = {}
  BY <1>1 DEF Init, Ids
<1>4. DOMAIN run = Runs /\ \A x \in Runs : run[x] = NoRun
  BY DEF Init
<1>5. TypeOK
  BY <1>1, <1>4, PathAssumption DEF Init, TypeOK
<1>6. OneActiveRun /\ InHand
  BY <1>1, <1>3, <1>4 DEF Init, OneActiveRun, InHand, Active
<1> QED
  BY <1>2, <1>4, <1>5, <1>6 DEF IInv

LEMMA IInvStep ==
  ASSUME IInv, [Next]_vars
  PROVE  IInv'
<1>1. ASSUME NEW x \in Runs, Start(x) \/ Resume(x) \/ \E how \in {"held", "late"} : Stop(x, how) PROVE IInv'
  BY <1>1, ControlInv
<1>2. ASSUME NEW x \in Runs, Advance(x) PROVE IInv'
  BY <1>2, AdvanceInv
<1>3. ASSUME NEW x \in Runs, NEW how \in {"held", "late"}, StopChain(x, how) PROVE IInv'
  BY <1>3, StopChainInv
<1>4. ASSUME NEW x \in Runs, NEW n \in Nodes, Confirm(x, n) PROVE IInv'
  BY <1>4, ControlInv
<1>5. ASSUME NEW x \in Runs, NEW i \in 1..Len(Order), NEW again \in BOOLEAN, Retry(x, i, again) PROVE IInv'
  BY <1>5, ControlInv
<1>6. ASSUME NEW id \in inbox, Claim(id) PROVE IInv'
  BY <1>6, ClaimInv
<1>7. ASSUME NEW end \in {"completed", "failed", "stopped"}, Settle(end) PROVE IInv'
  BY <1>7, SettleInv
<1>8. CASE Lose \/ Grant \/ UNCHANGED vars
  <2>1. UNCHANGED <<run, work, inbox, stops>>
    BY <1>8 DEF Lose, Grant, vars
  <2>2. granted' \in BOOLEAN /\ events' \in 0..MaxEvents
    <3>1. granted \in BOOLEAN /\ events \in 0..MaxEvents /\ MaxEvents \in Nat
      BY PathAssumption DEF IInv, TypeOK
    <3>2. CASE Lose
      <4>1. granted' = FALSE /\ events < MaxEvents /\ events' = events + 1
        BY <3>2 DEF Lose
      <4>2. events' \in 0..MaxEvents
        BY <3>1, <4>1
      <4> QED
        BY <4>1, <4>2
    <3>3. CASE Grant \/ UNCHANGED vars
      BY <3>1, <3>3 DEF Grant, vars
    <3> QED
      BY <1>8, <3>2, <3>3
  <2>3. Ids' = Ids /\ InHand' /\ OneActiveRun' /\ \A x \in Runs : Good(run'[x])
    BY <2>1 DEF IInv, InHand, Ids, Row, OneActiveRun
  <2> QED
    BY <2>1, <2>2, <2>3 DEF IInv, TypeOK
<1> QED
  BY <1>1, <1>2, <1>3, <1>4, <1>5, <1>6, <1>7, <1>8, PermitInv, FinishInv, RestartInv DEF Next

-----------------------------------------------------------------------------
\* The theorems

\* The engine and the worker keep the invariant, whatever they are asked to do.
THEOREM Inductive == Spec => []IInv
<1>1. Init => IInv
  BY IInvInit
<1>2. IInv /\ [Next]_vars => IInv'
  BY IInvStep
<1> QED
  BY <1>1, <1>2, PTL DEF Spec

\* At no time are two runs of the conversation active (start, resume, retry).
THEOREM OneActive == Spec => []OneActiveRun
<1>1. IInv => OneActiveRun
  BY DEF IInv
<1> QED
  BY <1>1, Inductive, PTL

\* A selected attempt took the results that are selected now, and they are whole:
\* no retry leaves a downstream result standing on a replaced one.
THEOREM PathFresh == Spec => []PathIsFresh
<1>1. ASSUME IInv, NEW x \in Runs PROVE Fresh(run[x])
  BY <1>1 DEF IInv, Good
<1>2. IInv => PathIsFresh
  BY <1>1 DEF PathIsFresh, Fresh, Places
<1> QED
  BY <1>2, Inductive, PTL

\* A run that has ended has nothing in the worker's hands and no row alive.
THEOREM Quiet == Spec => []QuietAtEnd
<1>1. ASSUME IInv, NEW x \in Runs, run[x].st \notin Active
      PROVE  /\ work = None \/ work.id[1] # x
             /\ \A n \in Nodes : \A k \in 1..Len(run[x].tries[n]) :
                  run[x].tries[n][k].g \notin Alive /\ run[x].tries[n][k].e \notin Alive
  <2>1. Still(run[x])
    BY <1>1, StillUnlessActive DEF IInv
  <2>2. ASSUME work # None, work.id[1] = x PROVE FALSE
    <3>1. work.id[2] \in Nodes /\ work.id[3] \in 1..Len(run[x].tries[work.id[2]]) /\ Row(work.id).e = "running"
      BY <1>1, <2>2, HandFacts, IdFacts DEF IInv
    <3> QED
      BY <2>1, <2>2, <3>1 DEF Still, IsAlive, Alive, Row
  <2> QED
    BY <2>1, <2>2 DEF Still, IsAlive
<1>2. IInv => QuietAtEnd
  BY <1>1 DEF QuietAtEnd
<1> QED
  BY <1>2, Inductive, PTL

\* A stop that was taken is never undone: a stopping run only ever ends.
THEOREM StopStands == Spec => StopHolds
<1> DEFINE Ends(s) == s \in {"stopping", "stopped", "blocked", "interrupted"}
           Kept == \A x \in Runs : run[x].st = "stopping" => Ends(run'[x].st)
<1>1. ASSUME IInv, NEW y \in Runs, NEW q, Moves(y, q) PROVE Kept
  BY <1>1, RunOf DEF Moves
<1>2. ASSUME IInv, NEW id \in Ids, NEW a, Put(a, id) PROVE Kept
  <2>1. \A x \in Runs : run'[x].st = run[x].st
    <3> TAKE x \in Runs
    <3> DEFINE y == id[1]
               t == [run[y].tries EXCEPT ![id[2]][id[3]] = a]
    <3>1. DOMAIN run = Runs /\ y \in Runs /\ IsRun(run[y])
      BY <1>2, RunOf, IdFacts
    <3>2. run' = [run EXCEPT ![y] = [run[y] EXCEPT !.tries = t]]
      BY <1>2 DEF Put
    <3> HIDE DEF y, t
    <3>3. [run[y] EXCEPT !.tries = t].st = run[y].st
      BY <3>1, RunShape
    <3> QED
      BY <3>1, <3>2, <3>3
  <2> QED
    BY <2>1
<1>3. ASSUME IInv, [Next]_vars PROVE [Kept]_vars
  <2>1. ASSUME NEW x \in Runs, Start(x) \/ Resume(x) \/ \E how \in {"held", "late"} : Stop(x, how) PROVE Kept
    BY <1>1, <1>3, <2>1, ControlMoves
  <2>2. ASSUME NEW x \in Runs, Advance(x) PROVE Kept
    BY <1>1, <1>3, <2>2, AdvanceMoves
  <2>3. ASSUME NEW x \in Runs, NEW how \in {"held", "late"}, StopChain(x, how) PROVE Kept
    <3>1. run' = [run EXCEPT ![x] = ChainAsked(run[x])] /\ ChainAsked(run[x]).st = run[x].st /\ DOMAIN run = Runs
      BY <1>3, <2>3, RunOf, AskedGood DEF StopChain, ChainAsked
    <3> QED
      BY <3>1
  <2>4. ASSUME NEW x \in Runs, NEW n \in Nodes, Confirm(x, n) PROVE Kept
    BY <1>1, <1>3, <2>4, ControlMoves
  <2>5. ASSUME NEW x \in Runs, NEW i \in 1..Len(Order), NEW again \in BOOLEAN, Retry(x, i, again) PROVE Kept
    BY <1>1, <1>3, <2>5, ControlMoves
  <2>6. ASSUME NEW id \in inbox, Claim(id) PROVE Kept
    BY <1>2, <1>3, <2>6 DEF Claim, IInv, TypeOK
  <2>7. CASE Permit \/ Finish \/ \E end \in {"completed", "failed", "stopped"} : Settle(end)
    BY <1>2, <1>3, <2>7, HandFacts DEF Permit, Finish, Settle
  <2>8. CASE Restart
    BY <1>3, <2>8, RunOf, RecoveredGood DEF Restart
  <2>9. CASE Lose \/ Grant \/ UNCHANGED vars
    BY <2>9 DEF Lose, Grant, vars
  <2> HIDE DEF Kept
  <2> QED
    BY <1>3, <2>1, <2>2, <2>3, <2>4, <2>5, <2>6, <2>7, <2>8, <2>9 DEF Next
<1> QED
  BY <1>3, Inductive, PTL DEF Spec, StopHolds


-----------------------------------------------------------------------------
(* The world's task                                                        *)

ChildEnd == {"completed", "failed", "stopped"}
KidRecords ==
  [status : {"none", "pending_dispatch", "queued", "failed", "stopped", "interrupted"},
   parent : Turns \cup {0},
   co : {"none", "queued", "running", "stopping", "blocked", "interrupted"} \cup ChildEnd,
   revoked : BOOLEAN,
   ex : {"none", "queued", "running"} \cup ChildEnd, stop : BOOLEAN,
   run : {"none", "running", "waiting", "stopping"} \cup ChildEnd,
   cut : BOOLEAN, opinion : Nat, blocking : BOOLEAN]

TaskRecords(t) ==
  [status : {"queued", "running", "waiting", "stopping", "completed", "stopped", "failed", "interrupted"},
   rev : {t.rev}, error : BOOLEAN, told : {t.told}]

\* A coordination that completed has an execution that did.
Follows(c) == c.co = "completed" => c.ex = "completed"

WholeKid(c) == c.co = "completed" /\ c.ex = "completed"

\* No coordination is open or taken up again under a task that completed.
SettledKids == worldTask.status = "completed" => \A k \in T!Delegated : WholeKid(delegated[k])

TaskInv ==
  /\ delegated \in [Delegations -> KidRecords] /\ worldTask \in TaskRecords(worldTask)
  /\ ticking.pc \in {"idle", "looked"}
  /\ ticking.pc = "looked" => worldTask.status \notin T!TERMINAL
  /\ \A k \in Delegations : Follows(delegated[k])
  /\ SettledKids

\* What a step may make of a child: no coordination that completed is taken up again, whatever
\* becomes of the run.
KidMoves(c, d) ==
  /\ d \in KidRecords /\ Follows(d)
  /\ d.status = "none" <=> c.status = "none"
  /\ WholeKid(c) => WholeKid(d)

LEMMA KidsKeep ==
  ASSUME TaskInv, delegated' \in [Delegations -> KidRecords],
         \A k \in Delegations : KidMoves(delegated[k], delegated'[k]),
         worldTask' = worldTask, ticking' = ticking
  PROVE  TaskInv'
<1>1. T!Delegated' = T!Delegated
  BY DEF T!Delegated, KidMoves
<1>2. SettledKids'
  BY <1>1 DEF TaskInv, SettledKids, T!Delegated, KidMoves
<1> QED
  BY <1>2 DEF TaskInv, KidMoves

LEMMA KidKeeps ==
  ASSUME TaskInv, NEW k \in Delegations, NEW d, KidMoves(delegated[k], d),
         delegated' = [delegated EXCEPT ![k] = d], worldTask' = worldTask, ticking' = ticking
  PROVE  TaskInv'
<1>1. d \in KidRecords
  BY DEF KidMoves
<1>2. delegated' \in [Delegations -> KidRecords]
  BY <1>1 DEF TaskInv
<1>3. \A j \in Delegations : KidMoves(delegated[j], delegated'[j])
  BY DEF TaskInv, KidMoves
<1> QED
  BY <1>2, <1>3, KidsKeep

LEMMA TaskInit == T!Init => TaskInv
BY DEF T!Init, TaskInv, SettledKids, KidRecords, TaskRecords, Follows, T!NoChild, T!None,
       T!IdleTick, T!TERMINAL, ChildEnd

\* A stop asks what runs and ends what is queued.
LEMMA CancelMoves ==
  ASSUME NEW c \in KidRecords, Follows(c), NEW seen
  PROVE  KidMoves(c, T!Cancelled(c, seen))
<1> DEFINE flow == T!RunAfterStop(c.run, seen)
           cut == flow = "running"
           s == T!Stopping(c)
           d == [s EXCEPT !.run = flow]
<1>1. flow \in {"none", "running", "waiting", "stopping"} \cup ChildEnd
  BY DEF T!RunAfterStop, KidRecords
<1>2. cut \in BOOLEAN
  OBVIOUS
<1>3. s \in KidRecords /\ Follows(s) /\ s.status = c.status /\ s.co = c.co /\ s.run = c.run
      /\ (c.ex = "completed" => s.ex = "completed")
  BY DEF T!Stopping, KidRecords, Follows, ChildEnd
<1>4. T!Cancelled(c, seen) = [d EXCEPT !.cut = cut]
  BY <1>3 DEF T!Cancelled, KidRecords
<1> HIDE DEF flow, cut, s
<1>5. d \in KidRecords /\ d.status = s.status /\ d.co = s.co /\ d.ex = s.ex /\ d.run = flow
  BY <1>1, <1>3 DEF KidRecords
<1> HIDE DEF d
<1>6. [d EXCEPT !.cut = cut] \in KidRecords
  BY <1>2, <1>5 DEF KidRecords
<1>7. LET e == [d EXCEPT !.cut = cut] IN e.status = d.status /\ e.co = d.co /\ e.ex = d.ex /\ e.run = d.run
  BY <1>5 DEF KidRecords
<1> DEFINE e == [d EXCEPT !.cut = cut]
<1> HIDE DEF e
<1> QED
  BY <1>1, <1>3, <1>4, <1>5, <1>6, <1>7 DEF KidMoves, Follows, WholeKid, e

LEMMA RunMoves ==
  ASSUME NEW c \in KidRecords, Follows(c), NEW b \in BOOLEAN, NEW o \in Nat,
         NEW x \in {"running", "completed", "failed", "waiting", "stopped"}
  PROVE  KidMoves(c, [c EXCEPT !.run = x, !.cut = b, !.opinion = o])
<1> DEFINE d1 == [c EXCEPT !.cut = b]
           d2 == [d1 EXCEPT !.run = x]
           d == [d2 EXCEPT !.opinion = o]
<1>1. d1 \in KidRecords /\ d1.status = c.status /\ d1.ex = c.ex /\ d1.co = c.co
  BY DEF KidRecords
<1>2. d = [c EXCEPT !.run = x, !.cut = b, !.opinion = o]
  BY DEF KidRecords
<1> HIDE DEF d1
<1>3. d2 \in KidRecords /\ d2.status = d1.status /\ d2.ex = d1.ex /\ d2.co = d1.co
  BY <1>1 DEF KidRecords, ChildEnd
<1> HIDE DEF d2
<1>4. d \in KidRecords /\ d.status = d2.status /\ d.ex = d2.ex /\ d.co = d2.co
  BY <1>3 DEF KidRecords
<1> HIDE DEF d
<1> QED
  BY <1>1, <1>2, <1>3, <1>4 DEF KidMoves, Follows, WholeKid

\* The steps of a child and of its group's run.
LEMMA ChildSteps ==
  ASSUME TaskInv, NEW k \in Delegations,
         \/ T!ChildStep(k) \/ T!ChildStartsRun(k) \/ T!RunWaits(k) \/ T!RunAnswered(k)
         \/ T!RunGoesOn(k) \/ T!RunReopened(k) \/ T!Opinion(k)
         \/ T!ChildDecides(k) \/ T!OwnerStopsChild(k)
         \/ \E how \in {"completed", "failed"} : T!ChildEnds(k, how) \/ T!RunEnds(k, how)
  PROVE  TaskInv'
<1> DEFINE c == delegated[k]
<1>0. c \in KidRecords /\ Follows(c)
  BY DEF TaskInv
<1>1. ASSUME NEW d, T!SetChild(k, d), KidMoves(c, d) PROVE TaskInv'
  BY <1>1, KidKeeps DEF T!SetChild
<1>2. ASSUME NEW x \in {"running", "stopped", "completed", "failed"}, c.ex \in {"queued", "running"}
      PROVE  KidMoves(c, [c EXCEPT !.ex = x])
  BY <1>0, <1>2 DEF KidMoves, KidRecords, Follows, WholeKid, ChildEnd
<1>3. CASE T!ChildClaims(k)
  <2> DEFINE x == IF T!Coordinating(k) /\ ~c.stop THEN "running" ELSE "failed"
  <2>1. x \in {"running", "stopped", "completed", "failed"}
    OBVIOUS
  <2>2. T!SetChild(k, [c EXCEPT !.ex = x]) /\ c.ex = "queued"
    BY <1>3 DEF T!ChildClaims
  <2> HIDE DEF x, c
  <2> QED
    BY <1>1, <1>2, <2>1, <2>2
<1>4. CASE T!ChildStops(k)
  <2>1. T!SetChild(k, [c EXCEPT !.ex = "stopped"]) /\ c.ex = "running"
    BY <1>4 DEF T!ChildStops
  <2> HIDE DEF c
  <2> QED
    BY <1>1, <1>2, <2>1
<1>5. CASE \E how \in {"completed", "failed"} : T!ChildEnds(k, how)
  <2>1. PICK how \in {"completed", "failed"} : T!SetChild(k, [c EXCEPT !.ex = how]) /\ c.ex = "running"
    BY <1>5 DEF T!ChildEnds
  <2> HIDE DEF c
  <2> QED
    BY <1>1, <1>2, <2>1
<1>6. CASE T!Advance(k)
  <2> DEFINE revoked == c.revoked \/ (c.co # "stopping" /\ ~c.stop /\ ~T!Coordinating(k))
             co == IF revoked \/ c.stop THEN "stopping" ELSE c.co
             s == T!Stopping(c)
             s1 == [s EXCEPT !.co = co]
             next == IF revoked THEN "blocked" ELSE IF co = "stopping" THEN "stopped" ELSE c.ex
             e1 == [c EXCEPT !.revoked = revoked]
  <2>0. c.co \in {"queued", "running", "stopping"}
    BY <1>6 DEF T!Advance, T!Active
  <2>1. revoked \in BOOLEAN /\ co \in {"queued", "running", "stopping"}
    BY <1>0, <2>0 DEF KidRecords
  <2>2. next \in {"blocked", "stopped", c.ex} /\ (c.ex \in {"queued", "running"} \/ next # "completed" \/ c.ex = "completed")
    OBVIOUS
  <2>3. \/ /\ c.ex \in T!Active /\ co = "stopping"
           /\ T!SetChild(k, [s EXCEPT !.co = co, !.revoked = revoked])
        \/ c.ex \in T!Active /\ co # "stopping" /\ T!SetChild(k, [c EXCEPT !.co = c.ex])
        \/ c.ex \notin T!Active /\ T!SetChild(k, [c EXCEPT !.revoked = revoked, !.co = next])
    BY <1>6 DEF T!Advance
  <2>4. s \in KidRecords /\ s.status = c.status
    BY <1>0 DEF T!Stopping, KidRecords, ChildEnd
  <2> HIDE DEF c, revoked, co, s, next
  <2>5. CASE c.ex \in T!Active /\ co = "stopping" /\ T!SetChild(k, [s EXCEPT !.co = co, !.revoked = revoked])
    <3> DEFINE d == [s EXCEPT !.co = co, !.revoked = revoked]
    <3> DEFINE d0 == [s EXCEPT !.co = co]
    <3>2. d0 \in KidRecords /\ d0.status = c.status /\ d0.co = co
      BY <2>1, <2>4 DEF KidRecords
    <3>3. d = [d0 EXCEPT !.revoked = revoked]
      BY <2>4 DEF KidRecords
    <3> HIDE DEF d, d0
    <3>0. d \in KidRecords /\ d.status = c.status /\ d.co = co
      BY <2>1, <3>2, <3>3 DEF KidRecords
    <3>1. KidMoves(c, [s EXCEPT !.co = co, !.revoked = revoked])
      BY <2>0, <2>5, <3>0 DEF KidMoves, Follows, WholeKid, d
    <3> QED
      BY <1>1, <2>5, <3>1
  <2>6. CASE c.ex \in T!Active /\ co # "stopping" /\ T!SetChild(k, [c EXCEPT !.co = c.ex])
    <3>1. KidMoves(c, [c EXCEPT !.co = c.ex])
      BY <1>0, <2>0, <2>6 DEF KidMoves, KidRecords, Follows, WholeKid, T!Active
    <3> QED
      BY <1>1, <2>6, <3>1
  <2>7. CASE c.ex \notin T!Active /\ T!SetChild(k, [c EXCEPT !.revoked = revoked, !.co = next])
    <3>1. next \in {"none", "blocked", "stopped", "completed", "failed"} /\ (next = "completed" => c.ex = "completed")
      BY <1>0, <2>2, <2>7 DEF KidRecords, ChildEnd, T!Active
    <3> DEFINE d == [c EXCEPT !.revoked = revoked, !.co = next]
    <3> DEFINE d0 == [c EXCEPT !.co = next]
    <3>4. d0 \in KidRecords /\ d0.status = c.status /\ d0.co = next /\ d0.ex = c.ex
      BY <1>0, <3>1 DEF KidRecords, ChildEnd
    <3>5. d = [d0 EXCEPT !.revoked = revoked]
      BY <1>0 DEF KidRecords
    <3> HIDE DEF d, d0
    <3>3. d \in KidRecords /\ d.status = c.status /\ d.co = next /\ d.ex = c.ex
      BY <2>1, <3>4, <3>5 DEF KidRecords
    <3>2. KidMoves(c, [c EXCEPT !.revoked = revoked, !.co = next])
      BY <2>0, <3>1, <3>3 DEF KidMoves, Follows, WholeKid, d
    <3> QED
      BY <1>1, <2>7, <3>2
  <2> QED
    BY <2>3, <2>5, <2>6, <2>7
<1>7. ASSUME NEW x \in {"running", "completed", "failed", "waiting", "stopped"}, NEW b \in BOOLEAN, NEW o \in Nat, NEW d,
             d = [c EXCEPT !.run = x, !.cut = b, !.opinion = o], T!SetChild(k, d)
      PROVE  TaskInv'
  <2>1. KidMoves(c, d)
    <3> HIDE DEF c
    <3> QED
      BY <1>0, <1>7, RunMoves
  <2> QED
    BY <1>1, <1>7, <2>1
<1>8. c.cut \in BOOLEAN /\ c.opinion \in Nat /\ c.opinion + 1 \in Nat
  BY <1>0 DEF KidRecords
<1>11. CASE T!ChildStartsRun(k) \/ T!RunAnswered(k)
  <2> DEFINE d == [c EXCEPT !.run = "running"]
  <2>1. d = [c EXCEPT !.run = "running", !.cut = c.cut, !.opinion = c.opinion]
    BY <1>0 DEF KidRecords
  <2>2. T!SetChild(k, d)
    <3>1. CASE T!ChildStartsRun(k)
      BY <3>1 DEF T!ChildStartsRun
    <3>2. CASE T!RunAnswered(k)
      BY <3>2 DEF T!RunAnswered
    <3> QED
      BY <1>11, <3>1, <3>2
  <2> HIDE DEF c, d
  <2> QED
    BY <1>7, <1>8, <2>1, <2>2
<1>12. CASE T!RunCut(k) \/ T!RunStops(k) \/ \E how \in {"completed", "failed"} : T!RunEnds(k, how)
  <2>1. PICK how \in {"completed", "failed", "stopped"} : T!SetChild(k, [c EXCEPT !.run = how, !.cut = FALSE])
    BY <1>12 DEF T!RunCut, T!RunStops, T!RunEnds
  <2> DEFINE d == [c EXCEPT !.run = how, !.cut = FALSE]
  <2>3. d = [c EXCEPT !.run = how, !.cut = FALSE, !.opinion = c.opinion] /\ T!SetChild(k, d)
    BY <1>0, <2>1 DEF KidRecords
  <2> HIDE DEF c, d
  <2> QED
    BY <1>7, <1>8, <2>3
<1>13. CASE T!RunWaits(k)
  <2> DEFINE d == [c EXCEPT !.run = "waiting", !.cut = FALSE, !.opinion = c.opinion + 1]
  <2>1. T!SetChild(k, d)
    BY <1>13 DEF T!RunWaits
  <2> DEFINE o == c.opinion + 1
  <2>2. d = [c EXCEPT !.run = "waiting", !.cut = FALSE, !.opinion = o] /\ o \in Nat
    BY <1>8
  <2> HIDE DEF c, d, o
  <2> QED
    BY <1>7, <2>1, <2>2
<1>14. CASE T!RunReopened(k)
  <2> DEFINE d == [c EXCEPT !.run = "running", !.cut = FALSE]
  <2>1. d = [c EXCEPT !.run = "running", !.cut = FALSE, !.opinion = c.opinion] /\ T!SetChild(k, d)
    BY <1>0, <1>14 DEF T!RunReopened, KidRecords
  <2> HIDE DEF c, d
  <2> QED
    BY <1>7, <1>8, <2>1
<1>15. CASE T!Opinion(k)
  <2> DEFINE b == ~c.blocking
             d == [c EXCEPT !.blocking = b]
  <2>1. delegated' = [delegated EXCEPT ![k] = d] /\ worldTask' = worldTask /\ ticking' = ticking
    BY <1>15 DEF T!Opinion, TaskInv
  <2>2. b \in BOOLEAN
    OBVIOUS
  <2> HIDE DEF b, c
  <2>3. KidMoves(c, d)
    BY <1>0, <2>2 DEF KidMoves, KidRecords, Follows, WholeKid
  <2> HIDE DEF d
  <2> QED
    BY <2>1, <2>3, KidKeeps DEF c
<1>9. CASE T!ChildDecides(k) \/ T!RunGoesOn(k)
  BY <1>9, KidsKeep DEF T!ChildDecides, T!RunGoesOn, KidMoves, TaskInv
<1>10. CASE T!OwnerStopsChild(k)
  <2> DEFINE d == IF c.co = "none" THEN [c EXCEPT !.status = "stopped"] ELSE T!Cancelled(c, c.run)
  <2>1. delegated' = [delegated EXCEPT ![k] = d] /\ worldTask' = worldTask /\ ticking' = ticking /\ c.status # "none"
    BY <1>10 DEF T!OwnerStopsChild, T!Delegated, TaskInv
  <2>2. KidMoves(c, T!Cancelled(c, c.run))
    BY <1>0, CancelMoves
  <2>3. KidMoves(c, d)
    BY <1>0, <2>1, <2>2 DEF KidMoves, KidRecords, Follows, WholeKid
  <2> HIDE DEF c, d
  <2> QED
    BY <2>1, <2>3, KidKeeps DEF c
<1> QED
  BY <1>3, <1>4, <1>5, <1>6, <1>9, <1>10, <1>11, <1>12, <1>13, <1>14, <1>15 DEF T!ChildStep

\* The steps of a round: only a delegation and its dispatch touch children, only the
\* coordinator's own end of the task touches the task.
LEMMA RoundSteps ==
  ASSUME TaskInv, NEW r \in Turns,
         \/ T!RoundStep(r) \/ T!RoundDecides(r) \/ T!RoundEnds(r) \/ T!RoundFails(r)
         \/ T!Complete(r) \/ T!OwnerStopsRound(r)
         \/ \E k \in Delegations : T!Delegate(r, k)
  PROVE  TaskInv'
<1>1. CASE UNCHANGED <<delegated, worldTask, ticking>>
  BY <1>1, KidsKeep DEF KidMoves, TaskInv
<1>2. CASE T!RoundClaims(r) \/ T!RoundStops(r) \/ T!StartRefused(r) \/ T!RoundDecides(r) \/ T!RoundEnds(r)
           \/ T!RoundFails(r) \/ T!OwnerStopsRound(r)
  BY <1>1, <1>2 DEF T!RoundClaims, T!RoundStops, T!StartRefused, T!RoundDecides, T!RoundEnds, T!RoundFails, T!OwnerStopsRound
<1>3. CASE T!Start(r)
  <2> DEFINE k == turns[r].call
             c == delegated[k]
             d == [c EXCEPT !.status = "queued", !.co = "queued", !.ex = "queued"]
  <2>1. c.co = "none" /\ c.status = "pending_dispatch" /\ UNCHANGED <<worldTask, ticking>>
        /\ delegated' = [delegated EXCEPT ![k].status = "queued", ![k].co = "queued", ![k].ex = "queued"]
    BY <1>3 DEF T!Start, T!Attachable
  <2>2. CASE k \in Delegations
    <3>1. c \in KidRecords
      BY <2>2 DEF TaskInv
    <3>2. KidMoves(c, d)
      BY <2>1, <3>1 DEF KidMoves, KidRecords, Follows, WholeKid
    <3>3. delegated' = [delegated EXCEPT ![k] = d]
      BY <2>1, <2>2, <3>1 DEF TaskInv
    <3> HIDE DEF c, d, k
    <3> QED
      BY <2>1, <2>2, <3>2, <3>3, KidKeeps DEF c
  <2>3. CASE k \notin Delegations
    BY <1>1, <2>1, <2>3 DEF TaskInv
  <2> QED
    BY <2>2, <2>3
<1>4. CASE T!DispatchFailed(r)
  <2> DEFINE k == turns[r].call
             c == delegated[k]
             d == [c EXCEPT !.status = "failed"]
  <2>1. UNCHANGED <<worldTask, ticking>> /\
        (delegated' = delegated \/ (c.status = "pending_dispatch" /\ c.co = "none" /\ delegated' = [delegated EXCEPT ![k].status = "failed"]))
    <3>1. UNCHANGED <<worldTask, ticking>>
          /\ delegated' = IF c.co = "none" /\ c.status = "pending_dispatch"
                          THEN [delegated EXCEPT ![k].status = "failed"] ELSE delegated
      BY <1>4 DEF T!DispatchFailed
    <3>2. CASE c.co = "none" /\ c.status = "pending_dispatch"
      BY <3>1, <3>2
    <3>3. CASE ~(c.co = "none" /\ c.status = "pending_dispatch")
      <4>1. delegated' = delegated
        BY <3>1, <3>3
      <4> QED
        BY <3>1, <4>1
    <3> QED
      BY <3>2, <3>3
  <2>2. CASE k \in Delegations /\ delegated' # delegated
    <3>1. c \in KidRecords
      BY <2>2 DEF TaskInv
    <3>2. KidMoves(c, d)
      BY <2>1, <2>2, <3>1 DEF KidMoves, KidRecords, Follows, WholeKid
    <3>3. delegated' = [delegated EXCEPT ![k] = d]
      BY <2>1, <2>2, <3>1 DEF TaskInv
    <3> HIDE DEF c, d, k
    <3> QED
      BY <2>1, <2>2, <3>2, <3>3, KidKeeps DEF c
  <2>3. CASE k \notin Delegations \/ delegated' = delegated
    BY <1>1, <2>1, <2>3 DEF TaskInv
  <2> QED
    BY <2>2, <2>3
<1>5. ASSUME NEW k \in Delegations, T!Delegate(r, k) PROVE TaskInv'
  <2> DEFINE d0 == [T!NoChild EXCEPT !.status = "pending_dispatch"]
             d == [d0 EXCEPT !.parent = r]
  <2>1. d \in KidRecords /\ Follows(d)
    BY DEF T!NoChild, T!None, KidRecords, Follows
  <2>2. delegated' = [delegated EXCEPT ![k] = d] /\ UNCHANGED <<worldTask, ticking>>
        /\ worldTask.status # "completed"
    BY <1>5 DEF T!Delegate, T!authorized, T!Closed, T!TERMINAL, T!NoChild
  <2> HIDE DEF d
  <2> QED
    BY <2>1, <2>2 DEF TaskInv, SettledKids
<1>6. CASE T!Complete(r)
  <2>1. /\ T!Delegated # {} /\ \A k \in T!Delegated : T!Projected(k) = "completed"
        /\ worldTask' = [worldTask EXCEPT !.status = "completed"] /\ UNCHANGED <<delegated, ticking>>
        /\ ticking.pc # "looked"
    BY <1>6 DEF T!Complete, T!Unlocked
  <2>2. \A k \in T!Delegated : WholeKid(delegated[k])
    <3> SUFFICES ASSUME NEW k \in T!Delegated PROVE WholeKid(delegated[k])
      OBVIOUS
    <3>1. delegated[k] \in KidRecords /\ Follows(delegated[k]) /\ T!Projected(k) = "completed"
      BY <2>1 DEF TaskInv, T!Delegated
    <3> QED
      BY <3>1 DEF T!Projected, WholeKid, Follows, KidRecords, ChildEnd
  <2>3. worldTask' \in TaskRecords(worldTask)'
    BY <2>1 DEF TaskInv, TaskRecords
  <2>4. T!Delegated' = T!Delegated
    BY <2>1 DEF T!Delegated
  <2> QED
    BY <2>1, <2>2, <2>3, <2>4 DEF TaskInv, SettledKids
<1> QED
  BY <1>2, <1>3, <1>4, <1>5, <1>6 DEF T!RoundStep

\* The steps of the task alone leave the children as they are.
LEMMA TaskKeeps ==
  ASSUME TaskInv, delegated' = delegated, worldTask' \in TaskRecords(worldTask)',
         ticking'.pc \in {"idle", "looked"},
         ticking'.pc = "looked" => worldTask'.status \notin T!TERMINAL,
         worldTask'.status = "completed" => worldTask.status = "completed"
  PROVE  TaskInv'
<1>1. T!Delegated' = T!Delegated
  BY DEF T!Delegated
<1> QED
  BY <1>1 DEF TaskInv, SettledKids

LEMMA TaskWithStatus ==
  ASSUME worldTask \in TaskRecords(worldTask), NEW s,
         s \in {"queued", "running", "waiting", "stopping", "completed", "stopped", "failed", "interrupted"},
         worldTask' = [worldTask EXCEPT !.status = s]
  PROVE  worldTask' \in TaskRecords(worldTask)' /\ worldTask'.status = s
  BY DEF TaskRecords

LEMMA StopSteps ==
  ASSUME TaskInv,
         \/ T!LoopStops \/ T!OwnerStops \/ T!Continue \/ T!Change
         \/ \E s \in {"owner", "loop"} : T!StopStep(s)
  PROVE  TaskInv'
<1>1. CASE UNCHANGED <<delegated, worldTask, ticking>>
  BY <1>1, KidsKeep DEF KidMoves, TaskInv
<1>2. ASSUME NEW s \in {"owner", "loop"}, T!BeginStop(s), UNCHANGED <<delegated, ticking>> PROVE TaskInv'
  <2>1. CASE worldTask.status \in T!TERMINAL
    BY <1>1, <1>2, <2>1 DEF T!BeginStop
  <2>2. CASE worldTask.status \notin T!TERMINAL
    <3>1. worldTask' = [worldTask EXCEPT !.status = "stopping"] /\ ticking.pc # "looked"
      BY <1>2, <2>2 DEF T!BeginStop, T!Unlocked
    <3>2. worldTask' \in TaskRecords(worldTask)' /\ worldTask'.status = "stopping"
      BY <3>1, TaskWithStatus DEF TaskInv
    <3> QED
      BY <1>2, <3>1, <3>2, TaskKeeps DEF TaskInv
  <2> QED
    BY <2>1, <2>2
<1>3. CASE T!LoopStops \/ T!OwnerStops
  BY <1>2, <1>3 DEF T!LoopStops, T!OwnerStops
<1>4. CASE T!Continue
  <2>1. worldTask' = [worldTask EXCEPT !.status = "queued"] /\ UNCHANGED <<delegated, ticking>> /\ ticking.pc # "looked"
    BY <1>4 DEF T!Continue, T!Unlocked
  <2>2. worldTask' \in TaskRecords(worldTask)' /\ worldTask'.status = "queued"
    BY <2>1, TaskWithStatus DEF TaskInv
  <2> QED
    BY <2>1, <2>2, TaskKeeps DEF TaskInv
<1>5. CASE T!Change
  BY <1>1, <1>5 DEF T!Change
<1>6. ASSUME NEW s \in {"owner", "loop"}, T!StopTree(s) PROVE TaskInv'
  <2> DEFINE m == T!Min(halts[s].todo)
             e == T!Cancelled(delegated[m], halts[s].seen[m])
  <2>1. delegated' = [delegated EXCEPT ![m] = e] /\ UNCHANGED <<worldTask, ticking>>
    BY <1>6 DEF T!StopTree
  <2>2. CASE m \in Delegations
    <3>1. KidMoves(delegated[m], e)
      BY <2>2, CancelMoves DEF TaskInv
    <3> HIDE DEF e, m
    <3> QED
      BY <2>1, <2>2, <3>1, KidKeeps
  <2>3. CASE m \notin Delegations
    BY <1>1, <2>1, <2>3 DEF TaskInv
  <2> QED
    BY <2>2, <2>3
<1>7. ASSUME NEW s \in {"owner", "loop"}, T!StopRoot(s) PROVE TaskInv'
  BY <1>1, <1>7 DEF T!StopRoot
<1> QED
  BY <1>3, <1>4, <1>5, <1>6, <1>7 DEF T!StopStep

LEMMA LoopSteps ==
  ASSUME TaskInv, T!TickLooks \/ T!TickDecides
  PROVE  TaskInv'
<1>1. CASE T!TickLooks
  <2>1. UNCHANGED <<delegated, worldTask>> /\ ticking'.pc = "looked" /\ worldTask.status \notin T!TERMINAL
    BY <1>1 DEF T!TickLooks
  <2>2. worldTask' \in TaskRecords(worldTask)'
    BY <2>1 DEF TaskInv
  <2> QED
    BY <2>1, <2>2, TaskKeeps
<1>2. CASE T!TickDecides
  <2> DEFINE st == T!Decision.status
             err == worldTask.error \/ (~T!Ending /\ (ticking.failed \/ st \in {"failed", "stopping"}))
             told == IF ~T!Ending /\ ~ticking.failed /\ ticking.active = {} /\ T!News
                     THEN T!FactsAfterTick ELSE worldTask.told
             t1 == [worldTask EXCEPT !.error = err]
             t2 == [t1 EXCEPT !.told = told]
  <2>1. st \in {"queued", "running", "waiting", "stopping", "stopped", "failed"}
    BY DEF T!Decision
  <2>2. err \in BOOLEAN
    BY DEF TaskInv, TaskRecords
  <2>3. /\ worldTask' = [worldTask EXCEPT !.status = st, !.error = err, !.told = told]
        /\ ticking'.pc = "idle"
        /\ delegated' = [k \in Delegations |-> IF k \in T!Orphans THEN [delegated[k] EXCEPT !.status = "interrupted"] ELSE delegated[k]]
    BY <1>2 DEF T!TickDecides, T!IdleTick
  <2>4. worldTask' \in TaskRecords(worldTask)' /\ worldTask'.status = st
    <3>1. worldTask \in TaskRecords(worldTask)
      BY DEF TaskInv
    <3>2. worldTask' = [t2 EXCEPT !.status = st]
      BY <2>3, <3>1 DEF TaskRecords
    <3> HIDE DEF st, err, told
    <3>3. t1 = [status |-> worldTask.status, rev |-> worldTask.rev, error |-> err, told |-> worldTask.told]
      BY <3>1 DEF TaskRecords
    <3> HIDE DEF t1
    <3>4. t2 = [status |-> worldTask.status, rev |-> worldTask.rev, error |-> err, told |-> told]
      BY <3>3
    <3> HIDE DEF t2
    <3>5. worldTask' = [status |-> st, rev |-> worldTask.rev, error |-> err, told |-> told]
      BY <3>2, <3>4
    <3> QED
      BY <2>1, <2>2, <3>5 DEF TaskRecords
  <2>5. \A k \in Delegations : delegated'[k] \in KidRecords /\ Follows(delegated'[k])
    <3> SUFFICES ASSUME NEW k \in Delegations PROVE delegated'[k] \in KidRecords /\ Follows(delegated'[k])
      OBVIOUS
    <3>1. delegated[k] \in KidRecords /\ Follows(delegated[k])
      BY DEF TaskInv
    <3>2. [delegated[k] EXCEPT !.status = "interrupted"] \in KidRecords /\ Follows([delegated[k] EXCEPT !.status = "interrupted"])
      BY <3>1 DEF KidRecords, Follows
    <3> QED
      BY <2>3, <3>1, <3>2
  <2>6. delegated' \in [Delegations -> KidRecords]
    BY <2>3, <2>5
  <2> HIDE DEF st
  <2> QED
    BY <2>1, <2>3, <2>4, <2>5, <2>6 DEF TaskInv, SettledKids
<1> QED
  BY <1>1, <1>2

LEMMA RestartSteps ==
  ASSUME TaskInv, T!Restart
  PROVE  TaskInv'
<1> DEFINE st == IF worldTask.status \in T!TERMINAL THEN worldTask.status ELSE "interrupted"
           ex(k) == IF delegated[k].ex \in T!Active THEN "failed" ELSE delegated[k].ex
           co(k) == IF delegated[k].co \in T!Active \cup {"stopping"} THEN "interrupted" ELSE delegated[k].co
           flow(k) == IF delegated[k].run \in {"running", "stopping"} THEN "failed" ELSE delegated[k].run
           new(k) == [delegated[k] EXCEPT !.ex = ex(k), !.co = co(k), !.run = flow(k), !.cut = FALSE]
<1>1. /\ worldTask' = [worldTask EXCEPT !.status = st] /\ ticking'.pc = "idle"
      /\ delegated' = [k \in Delegations |-> new(k)]
  BY DEF T!Restart, T!IdleTick
<1>2. st \in {"queued", "running", "waiting", "stopping", "completed", "stopped", "failed", "interrupted"}
      /\ (st = "completed" => worldTask.status = "completed")
  BY DEF TaskInv, TaskRecords, T!TERMINAL
<1>3. worldTask' \in TaskRecords(worldTask)' /\ worldTask'.status = st
  <2> HIDE DEF st
  <2> QED
    BY <1>1, <1>2, TaskWithStatus DEF TaskInv
<1>4. \A k \in Delegations : KidMoves(delegated[k], new(k))
  <2> SUFFICES ASSUME NEW k \in Delegations PROVE KidMoves(delegated[k], new(k))
    OBVIOUS
  <2> DEFINE c == delegated[k]
             e == ex(k)
             o == co(k)
             n == flow(k)
             d1 == [c EXCEPT !.ex = e]
             d2 == [d1 EXCEPT !.co = o]
             d3 == [d2 EXCEPT !.run = n]
             d == [d3 EXCEPT !.cut = FALSE]
  <2>1. c \in KidRecords /\ Follows(c)
    BY DEF TaskInv
  <2>2. /\ e \in {"none"} \cup ChildEnd /\ (c.ex = "completed" <=> e = "completed")
        /\ o \in {"none", "blocked", "interrupted"} \cup ChildEnd /\ (c.co = "completed" <=> o = "completed")
        /\ n \in {"none", "waiting"} \cup ChildEnd
    BY <2>1 DEF KidRecords, T!Active, ChildEnd
  <2>3. new(k) = d
    BY <2>1 DEF KidRecords
  <2> HIDE DEF new, ex, co, flow, c, e, o, n
  <2>4. d1 \in KidRecords /\ d1.status = c.status /\ d1.ex = e
    BY <2>1, <2>2 DEF KidRecords, ChildEnd
  <2> HIDE DEF d1
  <2>5. d2 \in KidRecords /\ d2.status = c.status /\ d2.ex = e /\ d2.co = o
    BY <2>2, <2>4 DEF KidRecords, ChildEnd
  <2> HIDE DEF d2
  <2>6. d3 \in KidRecords /\ d3.status = c.status /\ d3.ex = e /\ d3.co = o /\ d3.run = n
    BY <2>2, <2>5 DEF KidRecords, ChildEnd
  <2> HIDE DEF d3
  <2>7. d \in KidRecords /\ d.status = c.status /\ d.ex = e /\ d.co = o /\ d.run = n
    BY <2>6 DEF KidRecords
  <2> HIDE DEF d
  <2>8. KidMoves(c, d)
    BY <2>1, <2>2, <2>7 DEF KidMoves, Follows, WholeKid
  <2> QED
    BY <2>3, <2>8 DEF c
<1>5. delegated' \in [Delegations -> KidRecords] /\ \A k \in Delegations : KidMoves(delegated[k], delegated'[k])
  BY <1>1, <1>4 DEF KidMoves
<1>6. T!Delegated' = T!Delegated
  BY <1>5 DEF T!Delegated, KidMoves
<1> HIDE DEF st
<1> QED
  BY <1>1, <1>2, <1>3, <1>5, <1>6 DEF TaskInv, SettledKids, T!Delegated, KidMoves

LEMMA TaskStep == TaskInv /\ [T!Next]_(T!vars) => TaskInv'
<1> SUFFICES ASSUME TaskInv, [T!Next]_(T!vars) PROVE TaskInv'
  OBVIOUS
<1>1. CASE UNCHANGED T!vars
  BY <1>1, KidsKeep DEF KidMoves, TaskInv, T!vars
<1>2. CASE T!Next
  <2>1. ASSUME NEW r \in Turns,
               \/ T!RoundStep(r) \/ T!RoundDecides(r) \/ T!RoundEnds(r) \/ T!RoundFails(r)
               \/ T!Complete(r) \/ T!OwnerStopsRound(r)
               \/ \E k \in Delegations : T!Delegate(r, k)
        PROVE  TaskInv'
    BY <2>1, RoundSteps
  <2>2. ASSUME NEW k \in Delegations,
               \/ T!ChildStep(k) \/ T!ChildStartsRun(k) \/ T!RunWaits(k) \/ T!RunAnswered(k)
               \/ T!RunGoesOn(k) \/ T!RunReopened(k) \/ T!Opinion(k)
               \/ T!ChildDecides(k) \/ T!OwnerStopsChild(k)
               \/ \E how \in {"completed", "failed"} : T!ChildEnds(k, how) \/ T!RunEnds(k, how)
        PROVE  TaskInv'
    BY <2>2, ChildSteps
  <2>3. CASE T!LoopStep \/ T!OwnerStops \/ T!Continue \/ T!Change \/ \E s \in {"owner", "loop"} : T!StopStep(s)
    BY <2>3, LoopSteps, StopSteps DEF T!LoopStep
  <2>4. CASE T!Restart
    BY <2>4, RestartSteps
  <2> QED
    BY <1>2, <2>1, <2>2, <2>3, <2>4 DEF T!Next
<1> QED
  BY <1>1, <1>2

LEMMA TaskAlways == TaskSpec => []TaskInv
BY TaskInit, TaskStep, PTL DEF TaskSpec, T!Spec

\* Only the coordinator's own end of the task completes it.
LEMMA OnlyComplete ==
  ASSUME TaskInv, [T!Next]_(T!vars), worldTask.status # "completed", worldTask'.status = "completed"
  PROVE  \E r \in Turns : T!Complete(r)
<1> SUFFICES ASSUME \A r \in Turns : ~T!Complete(r) PROVE FALSE
  OBVIOUS
<1>0. worldTask \in TaskRecords(worldTask)
  BY DEF TaskInv
<1>1. ASSUME worldTask' = worldTask PROVE FALSE
  BY <1>1
<1>2. ASSUME NEW st \in {"queued", "running", "waiting", "stopping", "stopped", "failed", "interrupted"},
             worldTask'.status = st
      PROVE  FALSE
  BY <1>2
<1>3. CASE UNCHANGED T!vars
  BY <1>1, <1>3 DEF T!vars
<1>4. ASSUME NEW r \in Turns,
             \/ T!RoundStep(r) \/ T!RoundDecides(r) \/ T!RoundEnds(r) \/ T!RoundFails(r) \/ T!OwnerStopsRound(r)
             \/ \E k \in Delegations : T!Delegate(r, k)
      PROVE  FALSE
  BY <1>1, <1>4 DEF T!RoundStep, T!RoundClaims, T!RoundStops, T!StartRefused, T!RoundDecides, T!RoundEnds,
                    T!RoundFails, T!OwnerStopsRound, T!Start, T!DispatchFailed, T!Delegate
<1>5. ASSUME NEW k \in Delegations,
             \/ T!ChildStep(k) \/ T!ChildStartsRun(k) \/ T!RunWaits(k) \/ T!RunAnswered(k)
             \/ T!RunGoesOn(k) \/ T!RunReopened(k) \/ T!Opinion(k)
             \/ T!ChildDecides(k) \/ T!OwnerStopsChild(k)
             \/ \E how \in {"completed", "failed"} : T!ChildEnds(k, how) \/ T!RunEnds(k, how)
      PROVE  FALSE
  BY <1>1, <1>5 DEF T!ChildStep, T!ChildClaims, T!ChildStops, T!Advance, T!RunCut, T!RunStops, T!ChildStartsRun,
                    T!RunWaits, T!RunAnswered, T!ChildDecides, T!OwnerStopsChild, T!ChildEnds, T!RunEnds, T!SetChild,
                    T!RunGoesOn, T!RunReopened, T!Opinion
<1>6. CASE T!LoopStops \/ T!OwnerStops
  <2>1. worldTask' = worldTask \/ worldTask' = [worldTask EXCEPT !.status = "stopping"]
    BY <1>6 DEF T!LoopStops, T!OwnerStops, T!BeginStop
  <2> QED
    BY <1>0, <1>1, <2>1 DEF TaskRecords
<1>7. CASE T!TickLooks \/ T!Change \/ \E s \in {"owner", "loop"} : T!StopStep(s)
  BY <1>1, <1>7 DEF T!TickLooks, T!Change, T!StopStep, T!StopTree, T!StopRoot
<1>8. CASE T!TickDecides
  <2>1. T!Decision.status \in {"queued", "running", "waiting", "stopping", "stopped", "failed"}
    BY DEF T!Decision
  <2>2. worldTask'.status = T!Decision.status
    BY <1>0, <1>8 DEF T!TickDecides, TaskRecords
  <2> QED
    BY <1>2, <2>1, <2>2
<1>9. CASE T!Continue
  BY <1>0, <1>9 DEF T!Continue, TaskRecords
<1>10. CASE T!Restart
  BY <1>0, <1>10 DEF T!Restart, TaskRecords
<1> QED
  BY <1>3, <1>4, <1>5, <1>6, <1>7, <1>8, <1>9, <1>10 DEF T!Next, T!LoopStep

\* The coordinator finishes a task over whole children only: it has some, each has a completed
\* run or, where none was started, a completed coordination, and no opinion that blocks.  From
\* then on no coordination under it is taken up again, although a group's Owner may reopen a run
\* of it (complete, children; engine.control).
THEOREM TasksWhole == TaskSpec => CompletedIsWhole
<1> DEFINE Step ==
             /\ worldTask'.status = "completed" /\ worldTask.status # "completed" =>
                  /\ T!Delegated # {}
                  /\ \A k \in T!Delegated : delegated[k].run \in {"none", "completed"} /\ ~delegated[k].blocking
             /\ worldTask'.status = "completed" =>
                  \A k \in T!Delegated' : delegated'[k].co = "completed" /\ delegated'[k].ex = "completed"
<1>1. ASSUME TaskInv, [T!Next]_(T!vars) PROVE Step
  <2>1. worldTask'.status = "completed" =>
          \A k \in T!Delegated' : delegated'[k].co = "completed" /\ delegated'[k].ex = "completed"
    BY <1>1, TaskStep DEF TaskInv, SettledKids, WholeKid
  <2>2. ASSUME worldTask'.status = "completed", worldTask.status # "completed"
        PROVE  /\ T!Delegated # {}
               /\ \A k \in T!Delegated : delegated[k].run \in {"none", "completed"} /\ ~delegated[k].blocking
    <3>1. PICK r \in Turns : T!Complete(r)
      BY <1>1, <2>2, OnlyComplete
    <3>2. /\ T!Delegated # {} /\ delegated' = delegated
          /\ \A k \in T!Delegated : T!Projected(k) = "completed" /\ ~delegated[k].blocking
      BY <3>1 DEF T!Complete
    <3>3. T!Delegated' = T!Delegated
      BY <3>2 DEF T!Delegated
    <3>4. ASSUME NEW k \in T!Delegated PROVE delegated[k].run \in {"none", "completed"}
      <4>1. delegated[k].co = "completed" /\ T!Projected(k) = "completed"
        BY <2>1, <2>2, <3>2, <3>3
      <4> QED
        BY <4>1 DEF T!Projected
    <3> QED
      BY <3>2, <3>4
  <2> QED
    BY <2>1, <2>2
<1>2. TaskInv /\ [T!Next]_(T!vars) => [Step]_(T!vars)
  BY <1>1
<1> QED
  BY <1>2, TaskAlways, PTL DEF TaskSpec, T!Spec, CompletedIsWhole, T!CompletedIsWhole

\* A task that is over stays as it ended, whatever its rounds, its children, its loop and its
\* Owner still do (tick, stop, continue_in_session, initialize).
SettledTaskStays ==
  [][worldTask.status \in T!TERMINAL => worldTask'.status = worldTask.status]_(T!vars)

THEOREM SettledStands == TaskSpec => SettledTaskStays
<1> DEFINE Stays == worldTask.status \in T!TERMINAL => worldTask'.status = worldTask.status
<1>1. ASSUME TaskInv, [T!Next]_(T!vars) PROVE [Stays]_(T!vars)
  <2>0. worldTask \in TaskRecords(worldTask)
    BY <1>1 DEF TaskInv
  <2>1. ASSUME worldTask' = worldTask \/ worldTask.status \notin T!TERMINAL PROVE Stays
    BY <2>1
  <2> HIDE DEF Stays
  <2>2. CASE UNCHANGED T!vars
    BY <2>2
  <2>3. ASSUME NEW r \in Turns,
               \/ T!RoundStep(r) \/ T!RoundDecides(r) \/ T!RoundEnds(r) \/ T!RoundFails(r)
               \/ T!Complete(r) \/ T!OwnerStopsRound(r)
               \/ \E k \in Delegations : T!Delegate(r, k)
        PROVE  Stays
    <3>1. CASE T!RoundClaims(r) \/ T!RoundStops(r) \/ T!StartRefused(r) \/ T!RoundDecides(r) \/ T!RoundEnds(r)
               \/ T!RoundFails(r) \/ T!OwnerStopsRound(r) \/ T!Start(r) \/ T!DispatchFailed(r)
               \/ \E k \in Delegations : T!Delegate(r, k)
      BY <2>1, <3>1 DEF T!RoundClaims, T!RoundStops, T!StartRefused, T!RoundDecides, T!RoundEnds, T!RoundFails,
                        T!OwnerStopsRound, T!Start, T!DispatchFailed, T!Delegate
    <3>2. CASE T!Complete(r)
      BY <2>1, <3>2 DEF T!Complete, T!authorized, T!Closed
    <3> QED
      BY <2>3, <3>1, <3>2 DEF T!RoundStep
  <2>4. ASSUME NEW k \in Delegations,
               \/ T!ChildStep(k) \/ T!ChildStartsRun(k) \/ T!RunWaits(k) \/ T!RunAnswered(k)
               \/ T!RunGoesOn(k) \/ T!RunReopened(k) \/ T!Opinion(k)
               \/ T!ChildDecides(k) \/ T!OwnerStopsChild(k)
               \/ \E how \in {"completed", "failed"} : T!ChildEnds(k, how) \/ T!RunEnds(k, how)
        PROVE  Stays
    BY <2>1, <2>4 DEF T!ChildStep, T!ChildClaims, T!ChildStops, T!Advance, T!RunCut, T!RunStops, T!ChildStartsRun,
                      T!RunWaits, T!RunAnswered, T!ChildDecides, T!OwnerStopsChild, T!ChildEnds, T!RunEnds, T!SetChild,
                      T!RunGoesOn, T!RunReopened, T!Opinion
  <2>5. CASE T!LoopStops \/ T!OwnerStops
    BY <2>1, <2>5 DEF T!LoopStops, T!OwnerStops, T!BeginStop
  <2>6. CASE T!TickLooks \/ T!TickDecides
    BY <1>1, <2>1, <2>6 DEF T!TickLooks, T!TickDecides, TaskInv
  <2>7. CASE T!Continue \/ T!Change \/ \E s \in {"owner", "loop"} : T!StopStep(s)
    BY <2>1, <2>7 DEF T!Continue, T!Closed, T!Change, T!StopStep, T!StopTree, T!StopRoot
  <2>8. CASE T!Restart
    BY <2>0, <2>8 DEF T!Restart, TaskRecords, Stays
  <2> QED
    BY <1>1, <2>2, <2>3, <2>4, <2>5, <2>6, <2>7, <2>8 DEF T!Next, T!LoopStep
<1> QED
  BY <1>1, TaskAlways, PTL DEF TaskSpec, T!Spec, SettledTaskStays

=============================================================================
