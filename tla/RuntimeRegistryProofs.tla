----------------------- MODULE RuntimeRegistryProofs -----------------------
(***************************************************************************)
(* For any entries, scopes, limits and ports: a slot is released only when *)
(* nothing of its script runs, the body of a clean-up is alone, and a stop *)
(* that was waited for has stopped its target.  As in the runs, one row    *)
(* read of a stop does not outlast the whole start of a service.           *)
(***************************************************************************)
EXTENDS RuntimeRegistry, FiniteSetTheorems, TLAPS

\* Where a command stands, its row and its process agree.
CommandShape(r) ==
  LET c == call[r].pc
      s == row[r].state
      at(states, pid, procs) == s \in states /\ row[r].pid = pid /\ proc[r] \in procs
  IN
  /\ host[r].pc = "none" /\ c \notin {"hosting", "abort"}
  /\ c = "idle" => at({"none"}, FALSE, {"none"})
  /\ c = "open" => at({"pending"}, FALSE, {"none"})
  /\ c \in {"spawned", "checked"} => at({"pending"}, FALSE, {"idle"})
  /\ c = "deliver" => at({"running"}, TRUE, {"idle"})
  /\ c = "run" => at({"running"}, TRUE, {"script", "dead"})
  /\ c = "reap" => at({"pending"}, FALSE, {"idle"}) \/ at({"running"}, TRUE, {"idle", "script", "dead"})
  /\ c = "close" => \/ at({"pending"}, FALSE, {"none", "dead"})
                    \/ at({"pending", "running"}, TRUE, {"dead"})
  /\ c = "done" => /\ Executes(r) => s = "cleanup_required" /\ row[r].pid
                   /\ count.fault = 0 => s \in {"none", "ended", "cleanup_required"}

\* Where the host of a service stands, the same.
ServiceShape(r) ==
  LET c == call[r].pc
      h == host[r].pc
      s == row[r].state
      at(states, pid, procs) == s \in states /\ row[r].pid = pid /\ proc[r] \in procs
  IN
  /\ c \in {"idle", "open", "hosting", "abort", "done"}
  /\ c \in {"idle", "open"} => h = "none"
  /\ c = "idle" => at({"none"}, FALSE, {"none"})
  /\ c = "open" => at({"pending"}, FALSE, {"none"})
  /\ h = "none" /\ c = "hosting" => s = "ended" /\ ~Executes(r)
  /\ h = "none" /\ c = "abort" => (s = "ended" /\ ~Executes(r)) \/ at({"pending"}, FALSE, {"none"})
  /\ h = "none" /\ c = "done" => /\ s \in {"none", "ended", "cleanup_required"}
                                 /\ Executes(r) => s = "cleanup_required" /\ row[r].pid
  /\ h = "prepare" => at({"pending"}, FALSE, {"none"})
  /\ h = "spawn" => at({"starting"}, FALSE, {"none"})
  /\ h \in {"check", "row"} => at({"starting"}, FALSE, {"idle"})
  /\ h = "script" => at({"waiting_ready"}, TRUE, {"idle"})
  /\ h = "probe" => at({"ready", "waiting_ready"}, TRUE, {"script", "dead", "escaped"})
  /\ h = "close" => \/ at({"pending"}, FALSE, {"none"})
                    \/ at({"starting"}, FALSE, {"idle", "dead"})
                    \/ at({"waiting_ready"}, TRUE, {"idle", "dead"})
  /\ h = "reap" => at({"pending"}, FALSE, {"none"}) \/ at({"stopping"}, TRUE, {"idle", "script", "dead", "escaped"})
  /\ h = "store" => at({"pending"}, FALSE, {"none"}) \/ at({"stopping"}, TRUE, {"dead", "escaped"})
  /\ h = "kept" => /\ s \in {"pending", "stopping", "cleanup_required"}
                   /\ Executes(r) => row[r].pid
                   /\ count.fault = 0 => s = "cleanup_required"

\* Without a backend nobody is at work: what runs has a row that says so, and a
\* start that has looked at the row leaves it ended or to be cleaned up.
Asleep(r) ==
  /\ host[r].pc = "none" /\ stop[r] = "none" /\ call[r].pc \in {"idle", "done"}
  /\ call[r].pc = "idle" => row[r].state = "none" /\ ~row[r].pid /\ proc[r] = "none"
  /\ Executes(r) => IsActive(r) /\ row[r].pid
  /\ backend.pc = "recover" => (IsActive(r) => r \in backend.todo \/ row[r].state = "cleanup_required")
  /\ r \in backend.todo => IsActive(r)

\* A stop found a host or none, and whoever it waits for has been told.
StopShape(r) ==
  /\ stop[r] # "none" => row[r].state # "none"
  /\ stop[r] = "read" /\ ~seen[r].host /\ call[r].pc = "done" => host[r].pc = "none" /\ (Executes(r) => seen[r].pid)
  /\ stop[r] = "wait" /\ seen[r].host /\ host[r].pc = "none" => row[r].state = "ended"
  /\ stop[r] = "wait" /\ ~seen[r].host => /\ call[r].pc \in Interruptible => call[r].thrown
                                          /\ call[r].pc = "done" => HostDone(r)

\* Proofs are of processes that are gone.
Evidence(r) ==
  /\ r \in receipt \cup proof => proc[r] = "dead"
  /\ host[r].gone => ~Executes(r) /\ host[r].pc \in {"store", "kept"}
  /\ row[r].old => /\ ~Executes(r) /\ row[r].state # "none"
                   /\ call[r].pc \in {"idle", "done"} /\ host[r].pc = "none"

EntryInv(r) ==
  /\ Serving => IF r \in Services THEN ServiceShape(r) ELSE CommandShape(r)
  /\ ~Serving => Asleep(r)
  /\ StopShape(r) /\ Evidence(r)

\* The gate is closed for the scope of the clean-up, and its body has no entry.
CleanupInv ==
  /\ cleanup.pc # "none" => Serving /\ cleanup.scope \in Scopes /\ <<cleanup.scope, "running">> \in ops
  /\ cleanup.pc = "body" => \A r \in Members[cleanup.scope] : ~IsActive(r)

IInv == TypeOK /\ ~SlowReads /\ CleanupInv /\ \A r \in Entries : EntryInv(r)

-----------------------------------------------------------------------------
\* Steps that change one entry

Same(q) ==
  /\ row'[q] = row[q] /\ call'[q] = call[q] /\ host'[q] = host[q] /\ proc'[q] = proc[q]
  /\ stop'[q] = stop[q] /\ seen'[q] = seen[q]
  /\ q \in receipt' \cup proof' => q \in receipt \cup proof
  /\ q \in backend'.todo <=> q \in backend.todo

GateOpen(r) == ~\E s \in ScopesOf(r) : <<s, "running">> \in ops

\* A step of r: the others and the clean-up stay where they are, and r has a
\* row afterwards that it had before, or the gate was open for it.
Local(r) ==
  /\ \A q \in Entries : q = r \/ Same(q)
  /\ backend'.pc = backend.pc /\ (count'.fault = 0 => count.fault = 0)
  /\ cleanup'.pc = cleanup.pc /\ cleanup'.scope = cleanup.scope /\ ops' = ops
  /\ IsActive(r)' => IsActive(r) \/ GateOpen(r)

LEMMA SameKept ==
  ASSUME NEW q \in Entries, EntryInv(q), Same(q), backend'.pc = backend.pc, count'.fault = 0 => count.fault = 0
  PROVE  EntryInv(q)'
<1>1. /\ row'[q] = row[q] /\ call'[q] = call[q] /\ host'[q] = host[q] /\ proc'[q] = proc[q]
      /\ stop'[q] = stop[q] /\ seen'[q] = seen[q]
      /\ q \in receipt' \cup proof' => q \in receipt \cup proof
      /\ q \in backend'.todo <=> q \in backend.todo
  BY DEF Same
<1>2. CommandShape(q) => CommandShape(q)'
  BY <1>1 DEF CommandShape, Executes
<1>3. ServiceShape(q) => ServiceShape(q)'
  BY <1>1 DEF ServiceShape, Executes
<1>4. Asleep(q) => Asleep(q)'
  BY <1>1 DEF Asleep, Executes, IsActive
<1>5. StopShape(q) => StopShape(q)'
  BY <1>1 DEF StopShape, Executes, HostDone
<1>6. Evidence(q) => Evidence(q)'
  BY <1>1 DEF Evidence, Executes
<1> QED
  BY <1>1, <1>2, <1>3, <1>4, <1>5, <1>6 DEF EntryInv, Serving

LEMMA LocalInv ==
  ASSUME IInv, NEW r \in Entries, Local(r), EntryInv(r)', TypeOK'
  PROVE  IInv'
<1>1. \A q \in Entries : EntryInv(q)'
  BY SameKept DEF IInv, Local
<1>2. CleanupInv'
  <2>1. ASSUME cleanup.pc = "body", NEW q \in Members[cleanup.scope]
        PROVE  ~IsActive(q)'
    <3>1. cleanup.scope \in Scopes /\ <<cleanup.scope, "running">> \in ops /\ q \in Entries /\ ~IsActive(q)
      BY <2>1, RuntimeAssumption DEF IInv, CleanupInv
    <3>2. CASE q = r
      BY <2>1, <3>1, <3>2 DEF Local, GateOpen, ScopesOf
    <3>3. CASE q # r
      BY <3>1, <3>3 DEF Local, Same, IsActive
    <3> QED
      BY <3>2, <3>3
  <2> QED
    BY <2>1 DEF IInv, CleanupInv, Local, Serving
<1> QED
  BY <1>1, <1>2 DEF IInv


-----------------------------------------------------------------------------
\* What the assignments do

States == Active \cup {"none", "ended"}
Rows == [Entries -> [state : States, pid : BOOLEAN, old : BOOLEAN]]
CallPcs == {"idle", "open", "spawned", "checked", "deliver", "run", "reap", "close", "hosting", "abort", "done"}
Calls == [Entries -> [pc : CallPcs, thrown : BOOLEAN]]
HostPcs == {"none", "prepare", "spawn", "check", "row", "script", "probe", "close", "reap", "store", "kept"}
HostTasks == [Entries -> [pc : HostPcs, stop : BOOLEAN, gone : BOOLEAN]]

LEMMA Updated ==
  ASSUME NEW S, NEW T, NEW f \in [S -> T], NEW r \in S, NEW v \in T
  PROVE  LET g == [f EXCEPT ![r] = v] IN g \in [S -> T] /\ g[r] = v /\ \A q \in S : q = r \/ g[q] = f[q]
OBVIOUS

LEMMA SetFacts ==
  ASSUME row \in Rows, NEW r \in Entries, NEW s \in States
  PROVE  LET w == Set(r, s) IN
         /\ w \in Rows /\ w[r].state = s /\ w[r].pid = row[r].pid /\ w[r].old = row[r].old
         /\ \A q \in Entries : q = r \/ w[q] = row[q]
<1> DEFINE v == [row[r] EXCEPT !.state = s]
<1>1. v = [state |-> s, pid |-> row[r].pid, old |-> row[r].old]
  BY DEF Rows
<1>2. Set(r, s) = [row EXCEPT ![r] = v]
  BY DEF Set
<1>3. v \in [state : States, pid : BOOLEAN, old : BOOLEAN]
  BY <1>1 DEF Rows
<1>4. v.state = s /\ v.pid = row[r].pid /\ v.old = row[r].old
  BY <1>1
<1> HIDE DEF v
<1> QED
  BY <1>2, <1>3, <1>4, Updated DEF Rows

\* A row as it is written together with its process.
Stored(r, s, p) == [row EXCEPT ![r].state = s, ![r].pid = p]
Noted(r, p) == [row EXCEPT ![r].pid = p]

LEMMA NotedFacts ==
  ASSUME row \in Rows, NEW r \in Entries, NEW p \in BOOLEAN
  PROVE  LET w == Noted(r, p) IN
         /\ w \in Rows /\ w[r].state = row[r].state /\ w[r].pid = p /\ w[r].old = row[r].old
         /\ \A q \in Entries : q = r \/ w[q] = row[q]
<1> DEFINE v == [state |-> row[r].state, pid |-> p, old |-> row[r].old]
<1>1. row[r] = [state |-> row[r].state, pid |-> row[r].pid, old |-> row[r].old]
  BY DEF Rows
<1>2. [row[r] EXCEPT !.pid = p] = v
  BY <1>1
<1>3. v \in [state : States, pid : BOOLEAN, old : BOOLEAN] /\ v.state = row[r].state /\ v.pid = p /\ v.old = row[r].old
  BY DEF Rows
<1> HIDE DEF v
<1>4. Noted(r, p) = [row EXCEPT ![r] = v]
  BY <1>2 DEF Noted
<1> QED
  BY <1>3, <1>4, Updated DEF Rows

LEMMA StoredFacts ==
  ASSUME row \in Rows, NEW r \in Entries, NEW s \in States, NEW p \in BOOLEAN
  PROVE  LET w == Stored(r, s, p) IN
         /\ w \in Rows /\ w[r].state = s /\ w[r].pid = p /\ w[r].old = row[r].old
         /\ \A q \in Entries : q = r \/ w[q] = row[q]
<1> DEFINE v == [state |-> s, pid |-> p, old |-> row[r].old]
<1>1. row[r] = [state |-> row[r].state, pid |-> row[r].pid, old |-> row[r].old]
  BY DEF Rows
<1>2. [row[r] EXCEPT !.state = s, !.pid = p] = v
  <2> DEFINE u == [state |-> s, pid |-> row[r].pid, old |-> row[r].old]
  <2>1. [row[r] EXCEPT !.state = s] = u
    BY <1>1
  <2>2. [u EXCEPT !.pid = p] = v
    OBVIOUS
  <2> HIDE DEF u
  <2> QED
    BY <2>1, <2>2
<1>3. v \in [state : States, pid : BOOLEAN, old : BOOLEAN] /\ v.state = s /\ v.pid = p /\ v.old = row[r].old
  BY DEF Rows
<1> HIDE DEF v
<1>4. Stored(r, s, p) = [row EXCEPT ![r] = [row[r] EXCEPT !.state = s, !.pid = p]]
  BY DEF Stored, Rows
<1>5. Stored(r, s, p) = [row EXCEPT ![r] = v]
  BY <1>2, <1>4
<1> QED
  BY <1>3, <1>5, Updated DEF Rows

LEMMA SetWithPidFacts ==
  ASSUME row \in Rows, NEW r \in Entries, NEW s \in States
  PROVE  LET w == SetWithPid(r, s) IN
         /\ w \in Rows /\ w[r].state = s /\ w[r].pid /\ w[r].old = row[r].old
         /\ \A q \in Entries : q = r \/ w[q] = row[q]
<1>1. PICK p \in BOOLEAN : p
  OBVIOUS
<1>2. SetWithPid(r, s) = Stored(r, s, p)
  BY <1>1 DEF SetWithPid, Stored
<1>3. LET w == Stored(r, s, p) IN
      /\ w \in Rows /\ w[r].state = s /\ w[r].pid = p /\ w[r].old = row[r].old
      /\ \A q \in Entries : q = r \/ w[q] = row[q]
  BY StoredFacts
<1> QED
  BY <1>1, <1>2, <1>3

LEMMA CallToFacts ==
  ASSUME call \in Calls, NEW r \in Entries, NEW c \in CallPcs, CallTo(r, c)
  PROVE  /\ call' \in Calls /\ call'[r].pc = c /\ call'[r].thrown = (call[r].thrown /\ c \in Interruptible)
         /\ \A q \in Entries : q = r \/ call'[q] = call[q]
BY DEF CallTo, Calls

\* A cancellation is thrown, or comes too late.
LEMMA ThrownFacts ==
  ASSUME call \in Calls, NEW r \in Entries, NEW b \in BOOLEAN, call' = [call EXCEPT ![r].thrown = b]
  PROVE  /\ call' \in Calls /\ call'[r].pc = call[r].pc /\ call'[r].thrown = b
         /\ \A q \in Entries : q = r \/ call'[q] = call[q]
<1> DEFINE v == [pc |-> call[r].pc, thrown |-> b]
<1>1. call' = [call EXCEPT ![r] = v]
  <2>1. call[r] = [pc |-> call[r].pc, thrown |-> call[r].thrown]
    BY DEF Calls
  <2>2. [call[r] EXCEPT !.thrown = b] = v
    BY <2>1
  <2> HIDE DEF v
  <2> QED
    BY <2>2
<1>2. v \in [pc : CallPcs, thrown : BOOLEAN] /\ v.pc = call[r].pc /\ v.thrown = b
  BY DEF Calls
<1> HIDE DEF v
<1> QED
  BY <1>1, <1>2, Updated DEF Calls

HostSet(r, c, b, g) == [host EXCEPT ![r] = [pc |-> c, stop |-> b, gone |-> g]]
HostStop(r, b) == [host EXCEPT ![r].stop = b]
HostGone(r, c, g) == [host EXCEPT ![r].pc = c, ![r].gone = g]

LEMMA HostSetFacts ==
  ASSUME host \in HostTasks, NEW r \in Entries, NEW c \in HostPcs, NEW b \in BOOLEAN, NEW g \in BOOLEAN
  PROVE  LET w == HostSet(r, c, b, g) IN
         /\ w \in HostTasks /\ w[r].pc = c /\ w[r].stop = b /\ w[r].gone = g
         /\ \A q \in Entries : q = r \/ w[q] = host[q]
<1> DEFINE v == [pc |-> c, stop |-> b, gone |-> g]
<1>1. v \in [pc : HostPcs, stop : BOOLEAN, gone : BOOLEAN] /\ v.pc = c /\ v.stop = b /\ v.gone = g
  OBVIOUS
<1>2. HostSet(r, c, b, g) = [host EXCEPT ![r] = v]
  BY DEF HostSet
<1> HIDE DEF v
<1> QED
  BY <1>1, <1>2, Updated DEF HostTasks

LEMMA HostForms ==
  ASSUME host \in HostTasks, NEW r \in Entries, NEW c, NEW b, NEW g
  PROVE  /\ [host EXCEPT ![r].pc = c] = HostSet(r, c, host[r].stop, host[r].gone)
         /\ HostStop(r, b) = HostSet(r, host[r].pc, b, host[r].gone)
         /\ HostGone(r, c, g) = HostSet(r, c, host[r].stop, g)
<1>1. host[r] = [pc |-> host[r].pc, stop |-> host[r].stop, gone |-> host[r].gone]
  BY DEF HostTasks
<1>2. [host EXCEPT ![r].pc = c] = HostSet(r, c, host[r].stop, host[r].gone)
  <2>1. [host[r] EXCEPT !.pc = c] = [pc |-> c, stop |-> host[r].stop, gone |-> host[r].gone]
    BY <1>1
  <2> QED
    BY <2>1 DEF HostSet
<1>3. HostStop(r, b) = HostSet(r, host[r].pc, b, host[r].gone)
  <2>1. [host[r] EXCEPT !.stop = b] = [pc |-> host[r].pc, stop |-> b, gone |-> host[r].gone]
    BY <1>1
  <2> QED
    BY <2>1 DEF HostSet, HostStop
<1>4. HostGone(r, c, g) = HostSet(r, c, host[r].stop, g)
  <2> DEFINE u == [pc |-> c, stop |-> host[r].stop, gone |-> host[r].gone]
             v == [pc |-> c, stop |-> host[r].stop, gone |-> g]
  <2>a. [host[r] EXCEPT !.pc = c] = u
    BY <1>1
  <2>b. [u EXCEPT !.gone = g] = v
    OBVIOUS
  <2> HIDE DEF u
  <2>1. [host[r] EXCEPT !.pc = c, !.gone = g] = v
    BY <2>a, <2>b
  <2>2. HostGone(r, c, g) = [host EXCEPT ![r] = [host[r] EXCEPT !.pc = c, !.gone = g]]
    BY DEF HostGone, HostTasks
  <2> QED
    BY <2>1, <2>2 DEF HostSet
<1> QED
  BY <1>2, <1>3, <1>4

LEMMA HostFacts ==
  ASSUME host \in HostTasks, NEW r \in Entries
  PROVE  /\ host[r].pc \in HostPcs /\ host[r].stop \in BOOLEAN /\ host[r].gone \in BOOLEAN
         /\ \A c \in HostPcs : HostTo(r, c) => host' = HostSet(r, c, host[r].stop, host[r].gone)
BY HostForms DEF HostTo, HostTasks

LEMMA HostToFacts ==
  ASSUME host \in HostTasks, NEW r \in Entries, NEW c \in HostPcs, HostTo(r, c)
  PROVE  /\ host' \in HostTasks /\ host'[r].pc = c /\ host'[r].stop = host[r].stop /\ host'[r].gone = host[r].gone
         /\ \A q \in Entries : q = r \/ host'[q] = host[q]
BY HostFacts, HostSetFacts

RestOK ==
  /\ ready \in [Entries -> {"no", "ready", "failed"}]
  /\ proc \in [Entries -> {"none", "idle", "script", "escaped", "dead"}]
  /\ receipt \subseteq Services /\ proof \subseteq Services
  /\ stop \in [Entries -> {"none", "read", "wait"}]
  /\ seen \in [Entries -> [host : BOOLEAN, pid : BOOLEAN, unsure : BOOLEAN]]
  /\ cleanup \in [pc : {"none", "drain", "body", "failed"}, scope : Scopes \cup {None},
                  left : SUBSET Entries, at : Entries \cup {None}, failed : BOOLEAN]
  /\ ops \subseteq Scopes \X {"running", "orphan", "failed"}
  /\ closing \in BOOLEAN
  /\ limit \in [Scopes -> Limits]
  /\ backend \in [pc : {"down", "recover", "serving"}, todo : SUBSET Entries]
  /\ count \in [fault : Nat, other : Nat]

LEMMA Typed ==
  /\ TypeOK <=> row \in Rows /\ call \in Calls /\ host \in HostTasks /\ RestOK
  /\ TypeOK' <=> row' \in Rows /\ call' \in Calls /\ host' \in HostTasks /\ RestOK'
BY DEF TypeOK, RestOK, Rows, States, Calls, CallPcs, HostTasks, HostPcs

\* The same for the assignments that no operator of the model names.
LEMMA ThrowFacts ==
  ASSUME call \in Calls, NEW r \in Entries, call' = [call EXCEPT ![r].thrown = TRUE]
  PROVE  /\ call' \in Calls /\ call'[r].pc = call[r].pc /\ call'[r].thrown
         /\ \A q \in Entries : q = r \/ call'[q] = call[q]
<1>1. PICK b \in BOOLEAN : b
  OBVIOUS
<1>2. call' = [call EXCEPT ![r].thrown = b]
  BY <1>1
<1>3. /\ call' \in Calls /\ call'[r].pc = call[r].pc /\ call'[r].thrown = b
      /\ \A q \in Entries : q = r \/ call'[q] = call[q]
  BY <1>2, ThrownFacts
<1> QED
  BY <1>1, <1>3

LEMMA HandoffFacts ==
  ASSUME row \in Rows, NEW r \in Entries, row' = [row EXCEPT ![r].pid = TRUE]
  PROVE  /\ row' \in Rows /\ row'[r].state = row[r].state /\ row'[r].pid /\ row'[r].old = row[r].old
         /\ \A q \in Entries : q = r \/ row'[q] = row[q]
<1>1. PICK b \in BOOLEAN : b
  OBVIOUS
<1>2. row' = Noted(r, b)
  BY <1>1 DEF Noted
<1>3. /\ row' \in Rows /\ row'[r].state = row[r].state /\ row'[r].pid = b /\ row'[r].old = row[r].old
      /\ \A q \in Entries : q = r \/ row'[q] = row[q]
  <2>1. LET w == Noted(r, b) IN
        /\ w \in Rows /\ w[r].state = row[r].state /\ w[r].pid = b /\ w[r].old = row[r].old
        /\ \A q \in Entries : q = r \/ w[q] = row[q]
    BY NotedFacts
  <2> QED
    BY <1>2, <2>1
<1> QED
  BY <1>1, <1>3

LEMMA StopTold ==
  ASSUME host \in HostTasks, NEW r \in Entries, host' = [host EXCEPT ![r].stop = TRUE]
  PROVE  /\ host' \in HostTasks /\ host'[r].pc = host[r].pc /\ host'[r].gone = host[r].gone
         /\ \A q \in Entries : q = r \/ host'[q] = host[q]
<1>1. PICK b \in BOOLEAN : b
  OBVIOUS
<1>2. host' = HostSet(r, host[r].pc, b, host[r].gone)
  BY <1>1, HostForms DEF HostStop
<1>3. host[r].pc \in HostPcs /\ host[r].gone \in BOOLEAN
  BY HostFacts
<1>4. LET w == HostSet(r, host[r].pc, b, host[r].gone) IN
      /\ w \in HostTasks /\ w[r].pc = host[r].pc /\ w[r].stop = b /\ w[r].gone = host[r].gone
      /\ \A q \in Entries : q = r \/ w[q] = host[q]
  BY <1>3, HostSetFacts
<1> QED
  BY <1>2, <1>4

LEMMA HostBegun ==
  ASSUME host \in HostTasks, NEW r \in Entries, NEW c \in HostPcs,
         host' = [host EXCEPT ![r] = [pc |-> c, stop |-> FALSE, gone |-> FALSE]]
  PROVE  /\ host' \in HostTasks /\ host'[r].pc = c /\ ~host'[r].stop /\ ~host'[r].gone
         /\ \A q \in Entries : q = r \/ host'[q] = host[q]
<1>1. PICK b \in BOOLEAN : ~b
  OBVIOUS
<1>2. host' = HostSet(r, c, b, b)
  BY <1>1 DEF HostSet
<1>3. LET w == HostSet(r, c, b, b) IN
      /\ w \in HostTasks /\ w[r].pc = c /\ w[r].stop = b /\ w[r].gone = b
      /\ \A q \in Entries : q = r \/ w[q] = host[q]
  BY HostSetFacts
<1> QED
  BY <1>1, <1>2, <1>3

LEMMA HostReaped ==
  ASSUME host \in HostTasks, NEW r \in Entries, NEW g \in BOOLEAN,
         host' = [host EXCEPT ![r].pc = "store", ![r].gone = g]
  PROVE  /\ host' \in HostTasks /\ host'[r].pc = "store" /\ host'[r].gone = g
         /\ \A q \in Entries : q = r \/ host'[q] = host[q]
<1>1. host' = HostSet(r, "store", host[r].stop, g)
  <2>1. host' = HostGone(r, "store", g)
    BY DEF HostGone
  <2>2. HostGone(r, "store", g) = HostSet(r, "store", host[r].stop, g)
    BY HostForms
  <2> QED
    BY <2>1, <2>2
<1>2. "store" \in HostPcs /\ host[r].stop \in BOOLEAN
  BY HostFacts DEF HostPcs
<1>3. LET w == HostSet(r, "store", host[r].stop, g) IN
      /\ w \in HostTasks /\ w[r].pc = "store" /\ w[r].stop = host[r].stop /\ w[r].gone = g
      /\ \A q \in Entries : q = r \/ w[q] = host[q]
  BY <1>2, HostSetFacts
<1> QED
  BY <1>1, <1>3

LEMMA SeenFacts ==
  ASSUME seen \in [Entries -> [host : BOOLEAN, pid : BOOLEAN, unsure : BOOLEAN]], NEW r \in Entries,
         NEW a \in BOOLEAN, NEW b \in BOOLEAN, NEW c \in BOOLEAN,
         seen' = [seen EXCEPT ![r] = [host |-> a, pid |-> b, unsure |-> c]]
  PROVE  /\ seen' \in [Entries -> [host : BOOLEAN, pid : BOOLEAN, unsure : BOOLEAN]]
         /\ seen'[r].host = a /\ seen'[r].pid = b /\ \A q \in Entries : q = r \/ seen'[q] = seen[q]
<1> DEFINE v == [host |-> a, pid |-> b, unsure |-> c]
<1>1. v \in [host : BOOLEAN, pid : BOOLEAN, unsure : BOOLEAN] /\ v.host = a /\ v.pid = b
  OBVIOUS
<1> HIDE DEF v
<1>2. seen' = [seen EXCEPT ![r] = v]
  BY DEF v
<1> QED
  BY <1>1, <1>2, Updated

\* What a stop task reads when it begins.
LEMMA SightFacts ==
  ASSUME row \in Rows, seen \in [Entries -> [host : BOOLEAN, pid : BOOLEAN, unsure : BOOLEAN]], NEW r \in Entries,
         seen' = [seen EXCEPT ![r] = Sight(r)]
  PROVE  /\ seen' \in [Entries -> [host : BOOLEAN, pid : BOOLEAN, unsure : BOOLEAN]]
         /\ seen'[r].host <=> HasHost(r)
         /\ seen'[r].pid <=> row[r].pid
         /\ \A q \in Entries : q = r \/ seen'[q] = seen[q]
<1>1. PICK a \in BOOLEAN : a <=> HasHost(r)
  BY Zenon
<1>2. PICK c \in BOOLEAN : c <=> row[r].state = "cleanup_required"
  BY Zenon
<1>3. row[r].pid \in BOOLEAN
  BY DEF Rows
<1>4. HasHost(r) \in BOOLEAN
  BY Zenon DEF HasHost
<1>5. Sight(r) = [host |-> a, pid |-> row[r].pid, unsure |-> c]
  BY <1>1, <1>2, <1>4 DEF Sight
<1>6. /\ seen' \in [Entries -> [host : BOOLEAN, pid : BOOLEAN, unsure : BOOLEAN]]
      /\ seen'[r].host = a /\ seen'[r].pid = row[r].pid /\ \A q \in Entries : q = r \/ seen'[q] = seen[q]
  BY <1>3, <1>5, SeenFacts
<1> QED
  BY <1>1, <1>6

\* What is at work for an entry has an active row.
LEMMA AtWork ==
  ASSUME NEW r, EntryInv(r), Serving, host[r].pc # "none" \/ call[r].pc \notin {"idle", "hosting", "abort", "done"},
         host[r].pc \in HostPcs, call[r].pc \in CallPcs
  PROVE  IsActive(r) /\ ~Ended(r) /\ row[r].state # "none"
BY DEF EntryInv, CommandShape, ServiceShape, IsActive, Ended, Active, HostPcs, CallPcs

\* What it keeps when it has acted.
LEMMA ActedFacts ==
  ASSUME seen \in [Entries -> [host : BOOLEAN, pid : BOOLEAN, unsure : BOOLEAN]], NEW r \in Entries,
         seen' = [seen EXCEPT ![r] = [NoSight EXCEPT !.host = seen[r].host /\ stop'[r] = "wait"]]
  PROVE  /\ seen' \in [Entries -> [host : BOOLEAN, pid : BOOLEAN, unsure : BOOLEAN]]
         /\ seen'[r].host <=> (seen[r].host /\ stop'[r] = "wait")
         /\ \A q \in Entries : q = r \/ seen'[q] = seen[q]
<1>1. PICK a \in BOOLEAN : a <=> (seen[r].host /\ stop'[r] = "wait")
  BY Zenon
<1>2. PICK b \in BOOLEAN : ~b
  OBVIOUS
<1>3. (seen[r].host /\ stop'[r] = "wait") \in BOOLEAN
  BY Zenon
<1>4. [NoSight EXCEPT !.host = seen[r].host /\ stop'[r] = "wait"] = [host |-> a, pid |-> b, unsure |-> b]
  <2>1. (seen[r].host /\ stop'[r] = "wait") = a
    BY <1>1, <1>3, Zenon
  <2>2. NoSight = [host |-> b, pid |-> b, unsure |-> b]
    BY <1>2 DEF NoSight
  <2> QED
    BY <2>1, <2>2
<1>5. /\ seen' \in [Entries -> [host : BOOLEAN, pid : BOOLEAN, unsure : BOOLEAN]]
      /\ seen'[r].host = a /\ \A q \in Entries : q = r \/ seen'[q] = seen[q]
  BY <1>4, SeenFacts
<1> QED
  BY <1>1, <1>5

-----------------------------------------------------------------------------
\* What a tool call does

LEMMA CallSteps ==
  ASSUME IInv, NEW r \in Entries,
         \/ Reserve(r) \/ Cancel(r) \/ Spawn(r) \/ OpenEnds(r) \/ AttachCheck(r)
         \/ Attach(r) \/ Deliver(r) \/ RunEnds(r) \/ ReapCommand(r) \/ CloseHandoff(r)
         \/ CloseCommand(r) \/ CloseFault(r) \/ BeginHost(r) \/ StartRefused(r) \/ StartReturns(r)
         \/ StartFails(r) \/ StartAborts(r)
  PROVE  TypeOK' /\ Local(r) /\ EntryInv(r)'
<1>0. row \in Rows /\ call \in Calls /\ host \in HostTasks /\ RestOK /\ EntryInv(r) /\ ~SlowReads
  BY Typed DEF IInv
<1>1. CASE Reserve(r)
  <2>0. CanReserve(r) => GateOpen(r)
    BY DEF CanReserve, Admission, GateIgnoring, GateOpen
  <2>1. TypeOK'
    BY <1>0, <1>1, CallToFacts, SetFacts, Typed DEF RestOK, States, CallPcs, HostPcs, Active, Reserve
  <2>2. Local(r)
    BY <1>0, <1>1, CallToFacts, SetFacts, <2>0 DEF Local, Same, RestOK, States, CallPcs, HostPcs, Active,
       Reserve, IsActive
  <2>3. EntryInv(r)'
    <3>1. (Serving => IF r \in Services THEN ServiceShape(r) ELSE CommandShape(r))'
      BY <1>0, <1>1, CallToFacts, SetFacts DEF EntryInv, CommandShape, ServiceShape, RestOK, States,
         CallPcs, HostPcs, Active, Interruptible, Reserve, IsActive, Executes, HostDone, Serving
    <3>2. StopShape(r)'
      BY <1>0, <1>1, CallToFacts, SetFacts DEF EntryInv, CommandShape, ServiceShape, StopShape, RestOK,
         States, CallPcs, HostPcs, Active, Interruptible, Reserve, IsActive, Executes, HostDone, Serving
    <3>3. Evidence(r)'
      BY <1>0, <1>1, CallToFacts, SetFacts DEF EntryInv, CommandShape, ServiceShape, Evidence, RestOK,
         States, CallPcs, HostPcs, Active, Interruptible, Reserve, IsActive, Executes, HostDone, Serving
    <3>4. Serving'
      BY <1>0, <1>1, CallToFacts, SetFacts DEF Reserve, IsActive, Executes, HostDone, Serving
    <3> QED
      BY <3>1, <3>2, <3>3, <3>4 DEF EntryInv
  <2> QED
    BY <2>1, <2>2, <2>3
<1>2. CASE Cancel(r)
  <2>0. /\ Serving /\ call[r].pc \in Interruptible
        /\ call' \in Calls /\ call'[r].pc = call[r].pc /\ call'[r].thrown
        /\ \A q \in Entries : q = r \/ call'[q] = call[q]
    BY <1>0, <1>2, ThrowFacts DEF Cancel
  <2>u. UNCHANGED <<row, host, ready, proc, receipt, proof, stop, seen, cleanup, ops, closing, limit, backend, count>>
    BY <1>2 DEF Cancel
  <2>1. TypeOK'
    BY <1>0, <2>0, <2>u, Typed DEF RestOK, States, CallPcs, HostPcs, Active
  <2>2. Local(r)
    BY <1>0, <2>0, <2>u DEF Local, Same, RestOK, States, CallPcs, HostPcs, Active, IsActive, Ended
  <2>3. EntryInv(r)'
    BY <1>0, <2>0, <2>u DEF EntryInv, CommandShape, ServiceShape, Asleep, StopShape, Evidence, RestOK,
       States, CallPcs, HostPcs, Active, Interruptible, IsActive, Executes, HostDone, Serving
  <2> QED
    BY <2>1, <2>2, <2>3
<1>3. CASE Spawn(r)
  <2>1. TypeOK'
    BY <1>0, <1>3, CallToFacts, Typed DEF RestOK, States, CallPcs, HostPcs, Active, Spawn, Serving
  <2>2. Local(r)
    BY <1>0, <1>3, CallToFacts DEF Local, Same, RestOK, States, CallPcs, HostPcs, Active, Spawn, Serving,
       IsActive, Ended
  <2>3. EntryInv(r)'
    BY <1>0, <1>3, CallToFacts DEF EntryInv, CommandShape, ServiceShape, Asleep, StopShape, Evidence,
       RestOK, States, CallPcs, HostPcs, Active, Interruptible, Spawn, Serving, IsActive, Executes, HostDone
  <2> QED
    BY <2>1, <2>2, <2>3
<1>4. CASE OpenEnds(r)
  <2>1. TypeOK'
    BY <1>0, <1>4, CallToFacts, Typed DEF RestOK, States, CallPcs, HostPcs, Active, OpenEnds, Serving
  <2>2. Local(r)
    BY <1>0, <1>4, CallToFacts DEF Local, Same, RestOK, States, CallPcs, HostPcs, Active, OpenEnds,
       Serving, IsActive, Ended
  <2>3. EntryInv(r)'
    BY <1>0, <1>4, CallToFacts DEF EntryInv, CommandShape, ServiceShape, Asleep, StopShape, Evidence,
       RestOK, States, CallPcs, HostPcs, Active, Interruptible, OpenEnds, Serving, IsActive, Executes, HostDone
  <2> QED
    BY <2>1, <2>2, <2>3
<1>5. CASE AttachCheck(r)
  <2>1. TypeOK'
    BY <1>0, <1>5, CallToFacts, Typed DEF RestOK, States, CallPcs, HostPcs, Active, AttachCheck, Serving
  <2>2. Local(r)
    BY <1>0, <1>5, CallToFacts DEF Local, Same, RestOK, States, CallPcs, HostPcs, Active, AttachCheck,
       Serving, IsActive, Ended
  <2>3. EntryInv(r)'
    BY <1>0, <1>5, CallToFacts DEF EntryInv, CommandShape, ServiceShape, Asleep, StopShape, Evidence,
       RestOK, States, CallPcs, HostPcs, Active, Interruptible, AttachCheck, Serving, IsActive, Executes, HostDone
  <2> QED
    BY <2>1, <2>2, <2>3
<1>6. CASE Attach(r)
  <2>0. IsActive(r)
    BY <1>0, <1>6, AtWork DEF Attach, HostPcs, CallPcs, Calls, HostTasks
  <2>1. TypeOK'
    BY <1>0, <1>6, CallToFacts, SetWithPidFacts, <2>0, Typed DEF RestOK, States, CallPcs, HostPcs, Active,
       Attach, AttachedRow, Changed, Ended, Serving
  <2>2. Local(r)
    BY <1>0, <1>6, CallToFacts, SetWithPidFacts, <2>0 DEF Local, Same, RestOK, States, CallPcs, HostPcs,
       Active, Attach, AttachedRow, Changed, Ended, Serving
  <2>3. EntryInv(r)'
    BY <1>0, <1>6, CallToFacts, SetWithPidFacts, <2>0 DEF EntryInv, CommandShape, ServiceShape, Asleep,
       StopShape, Evidence, RestOK, States, CallPcs, HostPcs, Active, Interruptible, Attach, AttachedRow, Changed, Ended, Serving, IsActive, Executes, HostDone
  <2> QED
    BY <2>1, <2>2, <2>3
<1>7. CASE Deliver(r)
  <2>1. TypeOK'
    BY <1>0, <1>7, CallToFacts, Typed DEF RestOK, States, CallPcs, HostPcs, Active, Deliver, Serving
  <2>2. Local(r)
    BY <1>0, <1>7, CallToFacts DEF Local, Same, RestOK, States, CallPcs, HostPcs, Active, Deliver, Serving,
       IsActive, Ended
  <2>3. EntryInv(r)'
    BY <1>0, <1>7, CallToFacts DEF EntryInv, CommandShape, ServiceShape, Asleep, StopShape, Evidence,
       RestOK, States, CallPcs, HostPcs, Active, Interruptible, Deliver, Serving, IsActive, Executes, HostDone
  <2> QED
    BY <2>1, <2>2, <2>3
<1>8. CASE RunEnds(r)
  <2>1. TypeOK'
    BY <1>0, <1>8, CallToFacts, Typed DEF RestOK, States, CallPcs, HostPcs, Active, RunEnds, Serving
  <2>2. Local(r)
    BY <1>0, <1>8, CallToFacts DEF Local, Same, RestOK, States, CallPcs, HostPcs, Active, RunEnds, Serving,
       IsActive, Ended
  <2>3. EntryInv(r)'
    BY <1>0, <1>8, CallToFacts DEF EntryInv, CommandShape, ServiceShape, Asleep, StopShape, Evidence,
       RestOK, States, CallPcs, HostPcs, Active, Interruptible, RunEnds, Serving, IsActive, Executes, HostDone
  <2> QED
    BY <2>1, <2>2, <2>3
<1>9. CASE ReapCommand(r)
  <2>1. TypeOK'
    BY <1>0, <1>9, CallToFacts, Typed DEF RestOK, States, CallPcs, HostPcs, Active, ReapCommand, Killed,
       Serving
  <2>2. Local(r)
    BY <1>0, <1>9, CallToFacts DEF Local, Same, RestOK, States, CallPcs, HostPcs, Active, ReapCommand,
       Killed, Serving, IsActive, Ended
  <2>3. EntryInv(r)'
    BY <1>0, <1>9, CallToFacts DEF EntryInv, CommandShape, ServiceShape, Asleep, StopShape, Evidence,
       RestOK, States, CallPcs, HostPcs, Active, Interruptible, ReapCommand, Killed, Serving, IsActive, Executes, HostDone
  <2> QED
    BY <2>1, <2>2, <2>3
<1>10. CASE CloseHandoff(r)
  <2>0. /\ Serving /\ call[r].pc = "close" /\ IsActive(r) /\ ~row[r].pid /\ proc[r] # "none"
        /\ row' \in Rows /\ row'[r].state = row[r].state /\ row'[r].pid /\ row'[r].old = row[r].old
        /\ \A q \in Entries : q = r \/ row'[q] = row[q]
    BY <1>0, <1>10, HandoffFacts DEF CloseHandoff
  <2>u. UNCHANGED <<call, host, ready, proc, receipt, proof, stop, seen, cleanup, ops, closing, limit, backend, count>>
    BY <1>10 DEF CloseHandoff
  <2>1. TypeOK'
    BY <1>0, <2>0, <2>u, Typed DEF RestOK, States, CallPcs, HostPcs, Active
  <2>2. Local(r)
    BY <1>0, <2>0, <2>u DEF Local, Same, RestOK, States, CallPcs, HostPcs, Active, IsActive, Ended
  <2>3. EntryInv(r)'
    BY <1>0, <2>0, <2>u DEF EntryInv, CommandShape, ServiceShape, Asleep, StopShape, Evidence, RestOK,
       States, CallPcs, HostPcs, Active, Interruptible, IsActive, Executes, HostDone, Serving
  <2> QED
    BY <2>1, <2>2, <2>3
<1>11. CASE CloseCommand(r)
  <2>0. /\ Serving /\ call[r].pc = "close" /\ (IsActive(r) => row[r].pid \/ proc[r] = "none")
        /\ UNCHANGED <<host, ready, proc, receipt, proof, stop, seen, cleanup, ops, closing, limit,
           backend, count>>
    BY <1>11 DEF CloseCommand
  <2>a. /\ call' \in Calls /\ call'[r].pc = "done"
        /\ \A q \in Entries : q = r \/ call'[q] = call[q]
    BY <1>0, <1>11, CallToFacts DEF CloseCommand, CallPcs
  <2>b. IsActive(r) /\ r \notin Services
    BY <1>0, <2>0, AtWork DEF EntryInv, ServiceShape, HostPcs, CallPcs, Calls, HostTasks
  <2>c. PICK s \in {"ended", "cleanup_required"} :
          s = IF ~row[r].pid \/ proc[r] = "dead" THEN "ended" ELSE "cleanup_required"
    OBVIOUS
  <2>d. row' = Set(r, s)
    BY <1>11, <2>b, <2>c DEF CloseCommand
  <2>1. TypeOK'
    BY <1>0, <2>0, <2>a, <2>b, <2>c, <2>d, SetFacts, Typed DEF RestOK, States, CallPcs, HostPcs, Active
  <2>2. Local(r)
    BY <1>0, <2>0, <2>a, <2>b, <2>c, <2>d, SetFacts DEF Local, Same, RestOK, States, CallPcs, HostPcs, Active
  <2>3. EntryInv(r)'
    <3>1. (Serving => IF r \in Services THEN ServiceShape(r) ELSE CommandShape(r))'
      BY <1>0, <2>0, <2>a, <2>b, <2>c, <2>d, SetFacts DEF EntryInv, CommandShape, ServiceShape, RestOK,
         States, CallPcs, HostPcs, Active, Interruptible, IsActive, Executes, HostDone, Serving
    <3>2. StopShape(r)'
      BY <1>0, <2>0, <2>a, <2>b, <2>c, <2>d, SetFacts DEF EntryInv, CommandShape, ServiceShape, StopShape,
         RestOK, States, CallPcs, HostPcs, Active, Interruptible, IsActive, Executes, HostDone, Serving
    <3>3. Evidence(r)'
      BY <1>0, <2>0, <2>a, <2>b, <2>c, <2>d, SetFacts DEF EntryInv, CommandShape, ServiceShape, Evidence,
         RestOK, States, CallPcs, HostPcs, Active, Interruptible, IsActive, Executes, HostDone, Serving
    <3>4. Serving'
      BY <1>0, <2>0, <2>a, <2>b, <2>c, <2>d, SetFacts DEF IsActive, Executes, HostDone, Serving
    <3> QED
      BY <3>1, <3>2, <3>3, <3>4 DEF EntryInv
  <2> QED
    BY <2>1, <2>2, <2>3
<1>12. CASE CloseFault(r)
  <2>1. TypeOK'
    BY <1>0, <1>12, CallToFacts, Typed DEF RestOK, States, CallPcs, HostPcs, Active, CloseFault, Counted,
       Serving
  <2>2. Local(r)
    BY <1>0, <1>12, CallToFacts DEF Local, Same, RestOK, States, CallPcs, HostPcs, Active, CloseFault,
       Counted, Serving, IsActive, Ended
  <2>3. EntryInv(r)'
    BY <1>0, <1>12, CallToFacts DEF EntryInv, CommandShape, ServiceShape, Asleep, StopShape, Evidence,
       RestOK, States, CallPcs, HostPcs, Active, Interruptible, CloseFault, Counted, Serving, IsActive, Executes, HostDone
  <2> QED
    BY <2>1, <2>2, <2>3
<1>13. CASE BeginHost(r)
  <2>n. [NoHost EXCEPT !.pc = "prepare"] = [pc |-> "prepare", stop |-> FALSE, gone |-> FALSE]
    <3>1. PICK b \in BOOLEAN : ~b
      OBVIOUS
    <3>2. NoHost = [pc |-> "none", stop |-> b, gone |-> b]
      BY <3>1 DEF NoHost
    <3>3. [NoHost EXCEPT !.pc = "prepare"] = [pc |-> "prepare", stop |-> b, gone |-> b]
      BY <3>2
    <3>4. b = FALSE
      BY <3>1
    <3> QED
      BY <3>3, <3>4
  <2>a. /\ Serving /\ r \in Services /\ call[r].pc = "open" /\ ~call[r].thrown /\ CallTo(r, "hosting")
        /\ host' = [host EXCEPT ![r] = [pc |-> "prepare", stop |-> FALSE, gone |-> FALSE]]
        /\ UNCHANGED <<row, ready, proc, receipt, proof, stop, seen, cleanup, ops, closing, limit, backend,
           count>>
    BY <1>13, <2>n DEF BeginHost
  <2>b. "prepare" \in HostPcs /\ "hosting" \in CallPcs
    BY DEF HostPcs, CallPcs
  <2>0. /\ host' \in HostTasks /\ host'[r].pc = "prepare" /\ ~host'[r].stop /\ ~host'[r].gone
        /\ \A q \in Entries : q = r \/ host'[q] = host[q]
    BY <1>0, <2>a, <2>b, HostBegun
  <2>c. /\ call' \in Calls /\ call'[r].pc = "hosting"
        /\ \A q \in Entries : q = r \/ call'[q] = call[q]
    BY <1>0, <2>a, <2>b, CallToFacts
  <2>1. TypeOK'
    BY <1>0, <2>0, <2>a, <2>c, Typed DEF RestOK, States, CallPcs, HostPcs, Active
  <2>2. Local(r)
    BY <1>0, <2>0, <2>a, <2>c DEF Local, Same, RestOK, States, CallPcs, HostPcs, Active, IsActive, Ended
  <2>3. EntryInv(r)'
    <3>1. (Serving => IF r \in Services THEN ServiceShape(r) ELSE CommandShape(r))'
      BY <1>0, <2>0, <2>a, <2>c DEF EntryInv, CommandShape, ServiceShape, RestOK, States, CallPcs, HostPcs,
         Active, Interruptible, IsActive, Executes, HostDone, Serving
    <3>2. StopShape(r)'
      BY <1>0, <2>0, <2>a, <2>c DEF EntryInv, CommandShape, ServiceShape, StopShape, RestOK, States,
         CallPcs, HostPcs, Active, Interruptible, IsActive, Executes, HostDone, Serving
    <3>3. Evidence(r)'
      BY <1>0, <2>0, <2>a, <2>c DEF EntryInv, CommandShape, ServiceShape, Evidence, RestOK, States,
         CallPcs, HostPcs, Active, Interruptible, IsActive, Executes, HostDone, Serving
    <3>4. Serving'
      BY <1>0, <2>0, <2>a, <2>c DEF IsActive, Executes, HostDone, Serving
    <3> QED
      BY <3>1, <3>2, <3>3, <3>4 DEF EntryInv
  <2> QED
    BY <2>1, <2>2, <2>3
<1>14. CASE StartRefused(r)
  <2>1. TypeOK'
    BY <1>0, <1>14, CallToFacts, Typed DEF RestOK, States, CallPcs, HostPcs, Active, StartRefused, Serving
  <2>2. Local(r)
    BY <1>0, <1>14, CallToFacts DEF Local, Same, RestOK, States, CallPcs, HostPcs, Active, StartRefused,
       Serving, IsActive, Ended
  <2>3. EntryInv(r)'
    BY <1>0, <1>14, CallToFacts DEF EntryInv, CommandShape, ServiceShape, Asleep, StopShape, Evidence,
       RestOK, States, CallPcs, HostPcs, Active, Interruptible, StartRefused, Serving, IsActive, Executes, HostDone
  <2> QED
    BY <2>1, <2>2, <2>3
<1>15. CASE StartReturns(r)
  <2>1. TypeOK'
    BY <1>0, <1>15, CallToFacts, Typed DEF RestOK, States, CallPcs, HostPcs, Active, StartReturns,
       ReadIsOver, Serving
  <2>2. Local(r)
    BY <1>0, <1>15, CallToFacts DEF Local, Same, RestOK, States, CallPcs, HostPcs, Active, StartReturns,
       ReadIsOver, Serving, IsActive, Ended
  <2>3. EntryInv(r)'
    BY <1>0, <1>15, CallToFacts DEF EntryInv, CommandShape, ServiceShape, Asleep, StopShape, Evidence,
       RestOK, States, CallPcs, HostPcs, Active, Interruptible, StartReturns, ReadIsOver, Serving, IsActive, Executes, HostDone
  <2> QED
    BY <2>1, <2>2, <2>3
<1>16. CASE StartFails(r)
  <2>1. TypeOK'
    BY <1>0, <1>16, CallToFacts, Typed DEF RestOK, States, CallPcs, HostPcs, Active, StartFails, Serving
  <2>2. Local(r)
    BY <1>0, <1>16, CallToFacts DEF Local, Same, RestOK, States, CallPcs, HostPcs, Active, StartFails,
       Serving, IsActive, Ended
  <2>3. EntryInv(r)'
    BY <1>0, <1>16, CallToFacts DEF EntryInv, CommandShape, ServiceShape, Asleep, StopShape, Evidence,
       RestOK, States, CallPcs, HostPcs, Active, Interruptible, StartFails, Serving, IsActive, Executes, HostDone
  <2> QED
    BY <2>1, <2>2, <2>3
<1>17. CASE StartAborts(r)
  <2>0. /\ Serving /\ call[r].pc = "abort"
        /\ UNCHANGED <<ready, proc, receipt, proof, stop, seen, cleanup, ops, closing, limit, backend, count>>
    BY <1>17 DEF StartAborts
  <2>1. CASE /\ HasHost(r) /\ ~host[r].stop
            /\ host' = [host EXCEPT ![r].stop = TRUE]
            /\ UNCHANGED <<row, call>>
    <3>0. /\ host' \in HostTasks /\ host'[r].pc = host[r].pc /\ host'[r].gone = host[r].gone
          /\ \A q \in Entries : q = r \/ host'[q] = host[q]
      BY <1>0, <2>1, StopTold
    <3>1. TypeOK'
      BY <1>0, <2>0, <2>1, <3>0, Typed DEF RestOK, States, CallPcs, HostPcs, Active, HasHost
    <3>2. Local(r)
      BY <1>0, <2>0, <2>1, <3>0 DEF Local, Same, RestOK, States, CallPcs, HostPcs, Active, HasHost,
         IsActive, Ended
    <3>3. EntryInv(r)'
      BY <1>0, <2>0, <2>1, <3>0 DEF EntryInv, CommandShape, ServiceShape, Asleep, StopShape, Evidence,
         RestOK, States, CallPcs, HostPcs, Active, Interruptible, HasHost, IsActive, Executes, HostDone,
         Serving
    <3> QED
      BY <3>1, <3>2, <3>3
  <2>2. CASE /\ host[r].pc = "kept" /\ host[r].stop /\ ReadIsOver(r)
            /\ CallTo(r, "done")
            /\ UNCHANGED <<row, host>>
    <3>0. /\ call' \in Calls /\ call'[r].pc = "done"
          /\ \A q \in Entries : q = r \/ call'[q] = call[q]
      BY <1>0, <2>2, CallToFacts DEF CallPcs
    <3>1. TypeOK'
      BY <1>0, <2>0, <2>2, <3>0, Typed DEF RestOK, States, CallPcs, HostPcs, Active, ReadIsOver
    <3>2. Local(r)
      BY <1>0, <2>0, <2>2, <3>0 DEF Local, Same, RestOK, States, CallPcs, HostPcs, Active, ReadIsOver,
         IsActive, Ended
    <3>3. EntryInv(r)'
      BY <1>0, <2>0, <2>2, <3>0 DEF EntryInv, CommandShape, ServiceShape, Asleep, StopShape, Evidence,
         RestOK, States, CallPcs, HostPcs, Active, Interruptible, ReadIsOver, IsActive, Executes, HostDone,
         Serving
    <3> QED
      BY <3>1, <3>2, <3>3
  <2>3. CASE /\ ~HasHost(r) /\ ReadIsOver(r)
            /\ row' = AbortedRow(r)
            /\ CallTo(r, "done")
            /\ UNCHANGED host
    <3>0. /\ call' \in Calls /\ call'[r].pc = "done"
          /\ \A q \in Entries : q = r \/ call'[q] = call[q]
      BY <1>0, <2>3, CallToFacts DEF CallPcs
    <3>s. row' = IF IsActive(r) /\ ~row[r].pid THEN Set(r, "ended") ELSE row
      BY <2>3 DEF AbortedRow, MayFinish
    <3>1. TypeOK'
      BY <1>0, <2>0, <2>3, <3>0, <3>s, SetFacts, Typed DEF RestOK, States, CallPcs, HostPcs, Active,
         ReadIsOver, HasHost
    <3>2. Local(r)
      BY <1>0, <2>0, <2>3, <3>0, <3>s, SetFacts DEF Local, Same, RestOK, States, CallPcs, HostPcs, Active,
         ReadIsOver, HasHost, IsActive, Ended
    <3>3. EntryInv(r)'
      <4>1. (Serving => IF r \in Services THEN ServiceShape(r) ELSE CommandShape(r))'
        BY <1>0, <2>0, <2>3, <3>0, <3>s, SetFacts DEF EntryInv, CommandShape, ServiceShape, RestOK, States,
           CallPcs, HostPcs, Active, Interruptible, ReadIsOver, HasHost, IsActive, Executes, HostDone, Serving
      <4>2. StopShape(r)'
        BY <1>0, <2>0, <2>3, <3>0, <3>s, SetFacts DEF EntryInv, CommandShape, ServiceShape, StopShape,
           RestOK, States, CallPcs, HostPcs, Active, Interruptible, ReadIsOver, HasHost, IsActive,
           Executes, HostDone, Serving
      <4>3. Evidence(r)'
        BY <1>0, <2>0, <2>3, <3>0, <3>s, SetFacts DEF EntryInv, CommandShape, ServiceShape, Evidence,
           RestOK, States, CallPcs, HostPcs, Active, Interruptible, ReadIsOver, HasHost, IsActive,
           Executes, HostDone, Serving
      <4>4. Serving'
        BY <1>0, <2>0, <2>3, <3>0, <3>s, SetFacts DEF ReadIsOver, HasHost, IsActive, Executes, HostDone,
           Serving
      <4> QED
        BY <4>1, <4>2, <4>3, <4>4 DEF EntryInv
    <3> QED
      BY <3>1, <3>2, <3>3
  <2> QED
    BY <1>17, <2>1, <2>2, <2>3 DEF StartAborts
<1> QED
  BY <1>1, <1>2, <1>3, <1>4, <1>5, <1>6, <1>7, <1>8, <1>9, <1>10, <1>11, <1>12, <1>13, <1>14, <1>15, <1>16,
     <1>17

-----------------------------------------------------------------------------
\* What the host of a service does

LEMMA HostSteps ==
  ASSUME IInv, NEW r \in Entries,
         \/ HostPrepare(r) \/ HostSpawn(r) \/ HostCheck(r) \/ HostRow(r) \/ HostDeliver(r)
         \/ HostReady(r) \/ HostCloses(r) \/ HostReaps(r) \/ HostStores(r) \/ HostStoreFault(r)
  PROVE  TypeOK' /\ Local(r) /\ EntryInv(r)'
<1>0. row \in Rows /\ call \in Calls /\ host \in HostTasks /\ RestOK /\ EntryInv(r) /\ ~SlowReads
  BY Typed DEF IInv
<1>1. CASE HostPrepare(r)
  <2>0. IsActive(r)
    BY <1>0, <1>1, AtWork DEF HostPrepare, HostPcs, CallPcs, Calls, HostTasks
  <2>1. TypeOK'
    BY <1>0, <1>1, HostToFacts, SetFacts, <2>0, Typed DEF RestOK, States, CallPcs, HostPcs, Active,
       HostPrepare, Changed, Ended, Serving
  <2>2. Local(r)
    BY <1>0, <1>1, HostToFacts, SetFacts, <2>0 DEF Local, Same, RestOK, States, CallPcs, HostPcs, Active,
       HostPrepare, Changed, Ended, Serving
  <2>3. EntryInv(r)'
    BY <1>0, <1>1, HostToFacts, SetFacts, <2>0 DEF EntryInv, CommandShape, ServiceShape, Asleep, StopShape,
       Evidence, RestOK, States, CallPcs, HostPcs, Active, Interruptible, HostPrepare, Changed, Ended, Serving, IsActive, Executes, HostDone
  <2> QED
    BY <2>1, <2>2, <2>3
<1>2. CASE HostSpawn(r)
  <2>1. TypeOK'
    BY <1>0, <1>2, HostToFacts, Typed DEF RestOK, States, CallPcs, HostPcs, Active, HostSpawn, Serving
  <2>2. Local(r)
    BY <1>0, <1>2, HostToFacts DEF Local, Same, RestOK, States, CallPcs, HostPcs, Active, HostSpawn,
       Serving, IsActive, Ended
  <2>3. EntryInv(r)'
    BY <1>0, <1>2, HostToFacts DEF EntryInv, CommandShape, ServiceShape, Asleep, StopShape, Evidence,
       RestOK, States, CallPcs, HostPcs, Active, Interruptible, HostSpawn, Serving, IsActive, Executes, HostDone
  <2> QED
    BY <2>1, <2>2, <2>3
<1>3. CASE HostCheck(r)
  <2>1. TypeOK'
    BY <1>0, <1>3, HostToFacts, Typed DEF RestOK, States, CallPcs, HostPcs, Active, HostCheck, Serving
  <2>2. Local(r)
    BY <1>0, <1>3, HostToFacts DEF Local, Same, RestOK, States, CallPcs, HostPcs, Active, HostCheck,
       Serving, IsActive, Ended
  <2>3. EntryInv(r)'
    BY <1>0, <1>3, HostToFacts DEF EntryInv, CommandShape, ServiceShape, Asleep, StopShape, Evidence,
       RestOK, States, CallPcs, HostPcs, Active, Interruptible, HostCheck, Serving, IsActive, Executes, HostDone
  <2> QED
    BY <2>1, <2>2, <2>3
<1>4. CASE HostRow(r)
  <2>0. IsActive(r)
    BY <1>0, <1>4, AtWork DEF HostRow, HostPcs, CallPcs, Calls, HostTasks
  <2>1. TypeOK'
    BY <1>0, <1>4, HostToFacts, SetWithPidFacts, <2>0, Typed DEF RestOK, States, CallPcs, HostPcs, Active,
       HostRow, Changed, Ended, HostedRow, Serving
  <2>2. Local(r)
    BY <1>0, <1>4, HostToFacts, SetWithPidFacts, <2>0 DEF Local, Same, RestOK, States, CallPcs, HostPcs,
       Active, HostRow, Changed, Ended, HostedRow, Serving
  <2>3. EntryInv(r)'
    BY <1>0, <1>4, HostToFacts, SetWithPidFacts, <2>0 DEF EntryInv, CommandShape, ServiceShape, Asleep,
       StopShape, Evidence, RestOK, States, CallPcs, HostPcs, Active, Interruptible, HostRow, Changed, Ended, HostedRow, Serving, IsActive, Executes, HostDone
  <2> QED
    BY <2>1, <2>2, <2>3
<1>5. CASE HostDeliver(r)
  <2>1. TypeOK'
    BY <1>0, <1>5, HostToFacts, Typed DEF RestOK, States, CallPcs, HostPcs, Active, HostDeliver, Serving
  <2>2. Local(r)
    BY <1>0, <1>5, HostToFacts DEF Local, Same, RestOK, States, CallPcs, HostPcs, Active, HostDeliver,
       Serving, IsActive, Ended
  <2>3. EntryInv(r)'
    BY <1>0, <1>5, HostToFacts DEF EntryInv, CommandShape, ServiceShape, Asleep, StopShape, Evidence,
       RestOK, States, CallPcs, HostPcs, Active, Interruptible, HostDeliver, Serving, IsActive, Executes, HostDone
  <2> QED
    BY <2>1, <2>2, <2>3
<1>6. CASE HostReady(r)
  <2>0. IsActive(r)
    BY <1>0, <1>6, AtWork DEF HostReady, HostPcs, CallPcs, Calls, HostTasks
  <2>1. TypeOK'
    BY <1>0, <1>6, SetFacts, <2>0, Typed DEF RestOK, States, CallPcs, HostPcs, Active, HostReady, Changed,
       Ended, Serving
  <2>2. Local(r)
    BY <1>0, <1>6, SetFacts, <2>0 DEF Local, Same, RestOK, States, CallPcs, HostPcs, Active, HostReady,
       Changed, Ended, Serving
  <2>3. EntryInv(r)'
    BY <1>0, <1>6, SetFacts, <2>0 DEF EntryInv, CommandShape, ServiceShape, Asleep, StopShape, Evidence,
       RestOK, States, CallPcs, HostPcs, Active, Interruptible, HostReady, Changed, Ended, Serving, IsActive, Executes, HostDone
  <2> QED
    BY <2>1, <2>2, <2>3
<1>7. CASE HostCloses(r)
  <2>0. IsActive(r)
    BY <1>0, <1>7, AtWork DEF HostCloses, HostPcs, CallPcs, Calls, HostTasks
  <2>1. TypeOK'
    BY <1>0, <1>7, HostToFacts, SetWithPidFacts, <2>0, Typed DEF RestOK, States, CallPcs, HostPcs, Active,
       HostCloses, Changed, Ended, Serving
  <2>2. Local(r)
    BY <1>0, <1>7, HostToFacts, SetWithPidFacts, <2>0 DEF Local, Same, RestOK, States, CallPcs, HostPcs,
       Active, HostCloses, Changed, Ended, Serving
  <2>3. EntryInv(r)'
    BY <1>0, <1>7, HostToFacts, SetWithPidFacts, <2>0 DEF EntryInv, CommandShape, ServiceShape, Asleep,
       StopShape, Evidence, RestOK, States, CallPcs, HostPcs, Active, Interruptible, HostCloses, Changed, Ended, Serving, IsActive, Executes, HostDone
  <2> QED
    BY <2>1, <2>2, <2>3
<1>8. CASE HostReaps(r)
  <2>a. /\ Serving /\ host[r].pc = "reap"
        /\ host' = [host EXCEPT ![r].pc = "store", ![r].gone = Verified(r)]
        /\ UNCHANGED <<row, call, ready, receipt, proof, stop, seen, cleanup, ops, closing, limit, backend,
           count>>
    BY <1>8 DEF HostReaps
  <2> DEFINE Reaped ==
               /\ proc' \in [Entries -> {"none", "idle", "script", "escaped", "dead"}]
               /\ proc'[r] \in {"none", "dead", "escaped"} /\ (proc[r] \in {"none", "dead",
                  "escaped"} => proc'[r] = proc[r])
               /\ proc[r] \in {"idle", "script"} => proc'[r] # "none"
               /\ \A q \in Entries : q = r \/ proc'[q] = proc[q]
  <2>b. Reaped
    <3>1. CASE proc' = proc /\ proc[r] \in {"none", "dead", "escaped"}
      BY <1>0, <3>1 DEF RestOK
    <3>2. ASSUME NEW left \in {"dead", "escaped"}, proc' = [proc EXCEPT ![r] = left], proc[r] \in {"idle", "script"}
          PROVE  Reaped
      BY <1>0, <3>2 DEF RestOK
    <3> QED
      BY <1>8, <3>1, <3>2 DEF HostReaps
  <2>c. PICK g \in BOOLEAN : g <=> Verified(r)
    BY Zenon
  <2>d. Verified(r) \in BOOLEAN
    BY Zenon DEF Verified
  <2>0. /\ host' \in HostTasks /\ host'[r].pc = "store" /\ host'[r].gone = g
        /\ \A q \in Entries : q = r \/ host'[q] = host[q]
    BY <1>0, <2>a, <2>c, <2>d, HostReaped
  <2>1. TypeOK'
    BY <1>0, <2>0, <2>a, <2>b, <2>c, Typed DEF RestOK, States, CallPcs, HostPcs, Active, Verified
  <2>2. Local(r)
    BY <1>0, <2>0, <2>a, <2>b, <2>c DEF Local, Same, RestOK, States, CallPcs, HostPcs, Active, Verified,
       IsActive, Ended
  <2>3. EntryInv(r)'
    <3>1. (Serving => IF r \in Services THEN ServiceShape(r) ELSE CommandShape(r))'
      BY <1>0, <2>0, <2>a, <2>b, <2>c DEF EntryInv, CommandShape, ServiceShape, RestOK, States, CallPcs,
         HostPcs, Active, Interruptible, Verified, IsActive, Executes, HostDone, Serving
    <3>2. StopShape(r)'
      BY <1>0, <2>0, <2>a, <2>b, <2>c DEF EntryInv, CommandShape, ServiceShape, StopShape, RestOK, States,
         CallPcs, HostPcs, Active, Interruptible, Verified, IsActive, Executes, HostDone, Serving
    <3>3. Evidence(r)'
      BY <1>0, <2>0, <2>a, <2>b, <2>c DEF EntryInv, CommandShape, ServiceShape, Evidence, RestOK, States,
         CallPcs, HostPcs, Active, Interruptible, Verified, IsActive, Executes, HostDone, Serving
    <3>4. Serving'
      BY <1>0, <2>0, <2>a, <2>b, <2>c DEF Verified, IsActive, Executes, HostDone, Serving
    <3> QED
      BY <3>1, <3>2, <3>3, <3>4 DEF EntryInv
  <2> QED
    BY <2>1, <2>2, <2>3
<1>9. CASE HostStores(r)
  <2>0. /\ Serving /\ host[r].pc = "store" /\ ready' = Told(r)
        /\ UNCHANGED <<call, proc, stop, seen, cleanup, ops, closing, limit, backend, count>>
    BY <1>9 DEF HostStores
  <2>1. CASE /\ host[r].gone
            /\ row' = Changed(r, Set(r, "ended"))
            /\ host' = [host EXCEPT ![r] = [pc |-> "none", stop |-> FALSE, gone |-> FALSE]]
            /\ receipt' = receipt \ {r} /\ proof' = proof \ {r}
    <3>0. /\ host' \in HostTasks /\ host'[r].pc = "none" /\ ~host'[r].stop /\ ~host'[r].gone
          /\ \A q \in Entries : q = r \/ host'[q] = host[q]
      BY <1>0, <2>1, HostBegun DEF HostPcs
    <3>w. IsActive(r)
      BY <1>0, <2>0, AtWork DEF HostPcs, CallPcs, Calls, HostTasks
    <3>1. TypeOK'
      BY <1>0, <2>0, <2>1, <3>0, SetFacts, Typed DEF RestOK, States, CallPcs, HostPcs, Active, Changed,
         Ended, Told, Evidence
    <3>2. Local(r)
      BY <1>0, <2>0, <2>1, <3>0, <3>w, SetFacts DEF Local, Same, Changed, RestOK, States, CallPcs, HostPcs,
         Active
    <3>3. EntryInv(r)'
      <4>1. (Serving => IF r \in Services THEN ServiceShape(r) ELSE CommandShape(r))'
        BY <1>0, <2>0, <2>1, <3>0, SetFacts DEF EntryInv, CommandShape, ServiceShape, RestOK, States,
           CallPcs, HostPcs, Active, Interruptible, Changed, Ended, Told, Evidence, IsActive, Executes,
           HostDone, Serving
      <4>2. StopShape(r)'
        BY <1>0, <2>0, <2>1, <3>0, SetFacts DEF EntryInv, CommandShape, ServiceShape, StopShape, RestOK,
           States, CallPcs, HostPcs, Active, Interruptible, Changed, Ended, Told, Evidence, IsActive,
           Executes, HostDone, Serving
      <4>3. Evidence(r)'
        BY <1>0, <2>0, <2>1, <3>0, SetFacts DEF EntryInv, CommandShape, ServiceShape, Evidence, RestOK,
           States, CallPcs, HostPcs, Active, Interruptible, Changed, Ended, Told, IsActive, Executes,
           HostDone, Serving
      <4>4. Serving'
        BY <1>0, <2>0, <2>1, <3>0, SetFacts DEF Changed, Ended, Told, Evidence, IsActive, Executes,
           HostDone, Serving
      <4> QED
        BY <4>1, <4>2, <4>3, <4>4 DEF EntryInv
    <3> QED
      BY <3>1, <3>2, <3>3
  <2>2. CASE /\ ~host[r].gone
            /\ row' = Changed(r, Set(r, "cleanup_required"))
            /\ host' = [host EXCEPT ![r].pc = "kept"]
            /\ receipt' = receipt /\ proof' = proof \ {r}
    <3>0. /\ host' \in HostTasks /\ host'[r].pc = "kept" /\ host'[r].stop = host[r].stop /\ host'[r].gone = host[r].gone
          /\ \A q \in Entries : q = r \/ host'[q] = host[q]
      BY <1>0, <2>2, HostToFacts DEF HostPcs, HostTo
    <3>w. IsActive(r)
      BY <1>0, <2>0, AtWork DEF HostPcs, CallPcs, Calls, HostTasks
    <3>1. TypeOK'
      BY <1>0, <2>0, <2>2, <3>0, SetFacts, Typed DEF RestOK, States, CallPcs, HostPcs, Active, Changed,
         Ended, Told, Evidence
    <3>2. Local(r)
      BY <1>0, <2>0, <2>2, <3>0, <3>w, SetFacts DEF Local, Same, Changed, RestOK, States, CallPcs, HostPcs,
         Active
    <3>3. EntryInv(r)'
      <4>1. (Serving => IF r \in Services THEN ServiceShape(r) ELSE CommandShape(r))'
        BY <1>0, <2>0, <2>2, <3>0, SetFacts DEF EntryInv, CommandShape, ServiceShape, RestOK, States,
           CallPcs, HostPcs, Active, Interruptible, Changed, Ended, Told, Evidence, IsActive, Executes,
           HostDone, Serving
      <4>2. StopShape(r)'
        BY <1>0, <2>0, <2>2, <3>0, SetFacts DEF EntryInv, CommandShape, ServiceShape, StopShape, RestOK,
           States, CallPcs, HostPcs, Active, Interruptible, Changed, Ended, Told, Evidence, IsActive,
           Executes, HostDone, Serving
      <4>3. Evidence(r)'
        BY <1>0, <2>0, <2>2, <3>0, SetFacts DEF EntryInv, CommandShape, ServiceShape, Evidence, RestOK,
           States, CallPcs, HostPcs, Active, Interruptible, Changed, Ended, Told, IsActive, Executes,
           HostDone, Serving
      <4>4. Serving'
        BY <1>0, <2>0, <2>2, <3>0, SetFacts DEF Changed, Ended, Told, Evidence, IsActive, Executes,
           HostDone, Serving
      <4> QED
        BY <4>1, <4>2, <4>3, <4>4 DEF EntryInv
    <3> QED
      BY <3>1, <3>2, <3>3
  <2> QED
    <3>1. CASE host[r].gone
      BY <1>9, <3>1, <2>1 DEF HostStores, NoHost
    <3>2. CASE ~host[r].gone
      BY <1>9, <3>2, <2>2 DEF HostStores
    <3> QED
      BY <3>1, <3>2
<1>10. CASE HostStoreFault(r)
  <2>1. TypeOK'
    BY <1>0, <1>10, HostToFacts, Typed DEF RestOK, States, CallPcs, HostPcs, Active, HostStoreFault,
       Counted, Serving, Told
  <2>2. Local(r)
    BY <1>0, <1>10, HostToFacts DEF Local, Same, RestOK, States, CallPcs, HostPcs, Active, HostStoreFault,
       Counted, Serving, Told, IsActive, Ended
  <2>3. EntryInv(r)'
    BY <1>0, <1>10, HostToFacts DEF EntryInv, CommandShape, ServiceShape, Asleep, StopShape, Evidence,
       RestOK, States, CallPcs, HostPcs, Active, Interruptible, HostStoreFault, Counted, Serving, Told, IsActive, Executes, HostDone
  <2> QED
    BY <2>1, <2>2, <2>3
<1> QED
  BY <1>1, <1>2, <1>3, <1>4, <1>5, <1>6, <1>7, <1>8, <1>9, <1>10

-----------------------------------------------------------------------------
\* What a stop does

LEMMA StopSteps ==
  ASSUME IInv, NEW r \in Entries,
         \/ StopAsk(r) \/ StopActs(r) \/ StopWaited(r)
  PROVE  TypeOK' /\ Local(r) /\ EntryInv(r)'
<1>0. row \in Rows /\ call \in Calls /\ host \in HostTasks /\ RestOK /\ EntryInv(r) /\ ~SlowReads
  BY Typed DEF IInv
<1>1. CASE StopAsk(r)
  <2>a. /\ Serving /\ IsActive(r) /\ stop[r] = "none" /\ stop' = [stop EXCEPT ![r] = "read"]
        /\ UNCHANGED <<row, call, host, ready, proc, receipt, proof, cleanup, ops, closing, limit, backend,
           count>>
    BY <1>1 DEF StopAsk
  <2>0. /\ seen' \in [Entries -> [host : BOOLEAN, pid : BOOLEAN, unsure : BOOLEAN]]
        /\ seen'[r].host <=> HasHost(r)
        /\ seen'[r].pid <=> row[r].pid
        /\ \A q \in Entries : q = r \/ seen'[q] = seen[q]
    BY <1>0, <1>1, SightFacts DEF StopAsk, RestOK
  <2>1. TypeOK'
    BY <1>0, <2>0, <2>a, Typed DEF RestOK, States, CallPcs, HostPcs, Active, HasHost
  <2>2. Local(r)
    BY <1>0, <2>0, <2>a DEF Local, Same, RestOK, States, CallPcs, HostPcs, Active, HasHost, IsActive, Ended
  <2>3. EntryInv(r)'
    <3>1. (Serving => IF r \in Services THEN ServiceShape(r) ELSE CommandShape(r))'
      BY <1>0, <2>0, <2>a DEF EntryInv, CommandShape, ServiceShape, RestOK, States, CallPcs, HostPcs,
         Active, Interruptible, HasHost, IsActive, Executes, HostDone, Serving
    <3>2. StopShape(r)'
      BY <1>0, <2>0, <2>a DEF EntryInv, CommandShape, ServiceShape, StopShape, RestOK, States, CallPcs,
         HostPcs, Active, Interruptible, HasHost, IsActive, Executes, HostDone, Serving
    <3>3. Evidence(r)'
      BY <1>0, <2>0, <2>a DEF EntryInv, CommandShape, ServiceShape, Evidence, RestOK, States, CallPcs,
         HostPcs, Active, Interruptible, HasHost, IsActive, Executes, HostDone, Serving
    <3>4. Serving'
      BY <1>0, <2>0, <2>a DEF HasHost, IsActive, Executes, HostDone, Serving
    <3> QED
      BY <3>1, <3>2, <3>3, <3>4 DEF EntryInv
  <2> QED
    BY <2>1, <2>2, <2>3
<1>2. CASE StopActs(r)
  <2>0. /\ Serving /\ stop[r] = "read"
        /\ seen' \in [Entries -> [host : BOOLEAN, pid : BOOLEAN, unsure : BOOLEAN]]
        /\ seen'[r].host <=> (seen[r].host /\ stop'[r] = "wait")
        /\ \A q \in Entries : q = r \/ seen'[q] = seen[q]
        /\ UNCHANGED <<ready, proc, proof, cleanup, ops, closing, limit, backend, count>>
    BY <1>0, <1>2, ActedFacts DEF StopActs, RestOK
  <2>1. CASE /\ seen[r].host /\ ~HasHost(r)
            /\ stop' = [stop EXCEPT ![r] = "none"]
            /\ UNCHANGED <<row, receipt, host, call>>
    <3>1. TypeOK'
      BY <1>0, <2>0, <2>1, Typed DEF RestOK, States, CallPcs, HostPcs, Active, HasHost
    <3>2. Local(r)
      BY <1>0, <2>0, <2>1 DEF Local, Same, RestOK, States, CallPcs, HostPcs, Active, HasHost, IsActive, Ended
    <3>3. EntryInv(r)'
      <4>1. (Serving => IF r \in Services THEN ServiceShape(r) ELSE CommandShape(r))'
        BY <1>0, <2>0, <2>1 DEF EntryInv, CommandShape, ServiceShape, RestOK, States, CallPcs, HostPcs,
           Active, Interruptible, HasHost, IsActive, Executes, HostDone, Serving
      <4>2. StopShape(r)'
        BY <1>0, <2>0, <2>1 DEF EntryInv, CommandShape, ServiceShape, StopShape, RestOK, States, CallPcs,
           HostPcs, Active, Interruptible, HasHost, IsActive, Executes, HostDone, Serving
      <4>3. Evidence(r)'
        BY <1>0, <2>0, <2>1 DEF EntryInv, CommandShape, ServiceShape, Evidence, RestOK, States, CallPcs,
           HostPcs, Active, Interruptible, HasHost, IsActive, Executes, HostDone, Serving
      <4>4. Serving'
        BY <1>0, <2>0, <2>1 DEF HasHost, IsActive, Executes, HostDone, Serving
      <4> QED
        BY <4>1, <4>2, <4>3, <4>4 DEF EntryInv
    <3> QED
      BY <3>1, <3>2, <3>3
  <2>2. CASE /\ seen[r].host /\ (host[r].pc = "kept" /\ (host[r].gone \/ HasReceipt(r)))
            /\ StopSettles(r, "ended")
            /\ host' = [host EXCEPT ![r] = NoHost]
    <3>0. /\ host' \in HostTasks /\ host'[r].pc = "none" /\ ~host'[r].stop /\ ~host'[r].gone
          /\ \A q \in Entries : q = r \/ host'[q] = host[q]
      BY <1>0, <2>2, HostBegun DEF HostPcs, NoHost
    <3>1. TypeOK'
      BY <1>0, <2>0, <2>2, <3>0, SetFacts, Typed DEF RestOK, States, CallPcs, HostPcs, Active, HasReceipt,
         StopSettles, Changed, Ended, Evidence
    <3>2. Local(r)
      BY <1>0, <2>0, <2>2, <3>0, SetFacts DEF Local, Same, RestOK, States, CallPcs, HostPcs, Active,
         HasReceipt, StopSettles, Changed, Ended, Evidence, IsActive
    <3>3. EntryInv(r)'
      <4>1. (Serving => IF r \in Services THEN ServiceShape(r) ELSE CommandShape(r))'
        BY <1>0, <2>0, <2>2, <3>0, SetFacts DEF EntryInv, CommandShape, ServiceShape, RestOK, States,
           CallPcs, HostPcs, Active, Interruptible, HasReceipt, StopSettles, Changed, Ended, Evidence,
           IsActive, Executes, HostDone, Serving
      <4>2. StopShape(r)'
        BY <1>0, <2>0, <2>2, <3>0, SetFacts DEF EntryInv, CommandShape, ServiceShape, StopShape, RestOK,
           States, CallPcs, HostPcs, Active, Interruptible, HasReceipt, StopSettles, Changed, Ended,
           Evidence, IsActive, Executes, HostDone, Serving
      <4>3. Evidence(r)'
        BY <1>0, <2>0, <2>2, <3>0, SetFacts DEF EntryInv, CommandShape, ServiceShape, Evidence, RestOK,
           States, CallPcs, HostPcs, Active, Interruptible, HasReceipt, StopSettles, Changed, Ended,
           IsActive, Executes, HostDone, Serving
      <4>4. Serving'
        BY <1>0, <2>0, <2>2, <3>0, SetFacts DEF HasReceipt, StopSettles, Changed, Ended, Evidence,
           IsActive, Executes, HostDone, Serving
      <4> QED
        BY <4>1, <4>2, <4>3, <4>4 DEF EntryInv
    <3> QED
      BY <3>1, <3>2, <3>3
  <2>3. CASE /\ seen[r].host /\ HasHost(r) /\ ~(host[r].pc = "kept" /\ (host[r].gone \/ HasReceipt(r)))
            /\ host' = [host EXCEPT ![r].stop = TRUE]
            /\ stop' = [stop EXCEPT ![r] = "wait"]
            /\ UNCHANGED <<row, receipt, call>>
    <3>0. /\ host' \in HostTasks /\ host'[r].pc = host[r].pc /\ host'[r].gone = host[r].gone
          /\ \A q \in Entries : q = r \/ host'[q] = host[q]
      BY <1>0, <2>3, StopTold
    <3>1. TypeOK'
      BY <1>0, <2>0, <2>3, <3>0, Typed DEF RestOK, States, CallPcs, HostPcs, Active, HasHost
    <3>2. Local(r)
      BY <1>0, <2>0, <2>3, <3>0 DEF Local, Same, RestOK, States, CallPcs, HostPcs, Active, HasHost,
         IsActive, Ended
    <3>3. EntryInv(r)'
      <4>1. (Serving => IF r \in Services THEN ServiceShape(r) ELSE CommandShape(r))'
        BY <1>0, <2>0, <2>3, <3>0 DEF EntryInv, CommandShape, ServiceShape, RestOK, States, CallPcs,
           HostPcs, Active, Interruptible, HasHost, IsActive, Executes, HostDone, Serving
      <4>2. StopShape(r)'
        BY <1>0, <2>0, <2>3, <3>0 DEF EntryInv, CommandShape, ServiceShape, StopShape, RestOK, States,
           CallPcs, HostPcs, Active, Interruptible, HasHost, IsActive, Executes, HostDone, Serving
      <4>3. Evidence(r)'
        BY <1>0, <2>0, <2>3, <3>0 DEF EntryInv, CommandShape, ServiceShape, Evidence, RestOK, States,
           CallPcs, HostPcs, Active, Interruptible, HasHost, IsActive, Executes, HostDone, Serving
      <4>4. Serving'
        BY <1>0, <2>0, <2>3, <3>0 DEF HasHost, IsActive, Executes, HostDone, Serving
      <4> QED
        BY <4>1, <4>2, <4>3, <4>4 DEF EntryInv
    <3> QED
      BY <3>1, <3>2, <3>3
  <2>4. CASE /\ ~seen[r].host /\ Waiting(r)
            /\ call' = [call EXCEPT ![r].thrown = call[r].pc \in Interruptible]
            /\ stop' = [stop EXCEPT ![r] = "wait"]
            /\ UNCHANGED <<row, receipt, host>>
    <3>a. (call[r].pc \in Interruptible) \in BOOLEAN
      OBVIOUS
    <3>0. /\ call' \in Calls /\ call'[r].pc = call[r].pc /\ (call'[r].thrown <=> call[r].pc \in Interruptible)
          /\ \A q \in Entries : q = r \/ call'[q] = call[q]
      BY <1>0, <2>4, <3>a, ThrownFacts
    <3>1. TypeOK'
      BY <1>0, <2>0, <2>4, <3>0, Typed DEF RestOK, States, CallPcs, HostPcs, Active, Waiting
    <3>2. Local(r)
      BY <1>0, <2>0, <2>4, <3>0 DEF Local, Same, RestOK, States, CallPcs, HostPcs, Active, Waiting,
         IsActive, Ended
    <3>3. EntryInv(r)'
      <4>1. (Serving => IF r \in Services THEN ServiceShape(r) ELSE CommandShape(r))'
        BY <1>0, <2>0, <2>4, <3>0 DEF EntryInv, CommandShape, ServiceShape, RestOK, States, CallPcs,
           HostPcs, Active, Interruptible, Waiting, IsActive, Executes, HostDone, Serving
      <4>2. StopShape(r)'
        BY <1>0, <2>0, <2>4, <3>0 DEF EntryInv, CommandShape, ServiceShape, StopShape, RestOK, States,
           CallPcs, HostPcs, Active, Interruptible, Waiting, IsActive, Executes, HostDone, Serving
      <4>3. Evidence(r)'
        BY <1>0, <2>0, <2>4, <3>0 DEF EntryInv, CommandShape, ServiceShape, Evidence, RestOK, States,
           CallPcs, HostPcs, Active, Interruptible, Waiting, IsActive, Executes, HostDone, Serving
      <4>4. Serving'
        BY <1>0, <2>0, <2>4, <3>0 DEF Waiting, IsActive, Executes, HostDone, Serving
      <4> QED
        BY <4>1, <4>2, <4>3, <4>4 DEF EntryInv
    <3> QED
      BY <3>1, <3>2, <3>3
  <2>5. CASE /\ ~seen[r].host /\ ~Waiting(r)
            /\ StopSettles(r, IF Unowned(r) THEN "ended" ELSE "cleanup_required")
            /\ UNCHANGED host
    <3>0. PICK s \in {"ended", "cleanup_required"} : s = IF Unowned(r) THEN "ended" ELSE "cleanup_required"
      OBVIOUS
    <3>a. row[r].state # "none" /\ (s = "ended" => ~Executes(r)) /\ call[r].pc = "done" /\ host[r].pc = "none"
      BY <1>0, <2>0, <2>5, <3>0 DEF EntryInv, StopShape, CommandShape, ServiceShape, Evidence, Unowned,
         HasReceipt, Waiting, Executes, Calls, CallPcs
    <3>b. /\ row' = IF Ended(r) THEN row ELSE Set(r, s)
          /\ receipt' \subseteq receipt /\ stop' = [stop EXCEPT ![r] = "none"] /\ UNCHANGED <<call, host>>
          /\ \A q \in Entries : q = r \/ (q \in receipt' => q \in receipt)
      BY <2>5, <3>0 DEF StopSettles, Changed
    <3>c. IsActive(r)' => IsActive(r)
      BY <1>0, <3>a, <3>b, SetFacts DEF IsActive, Ended, Rows, States, Active
    <3>1. TypeOK'
      BY <1>0, <2>0, <3>0, <3>a, <3>b, SetFacts, Typed DEF RestOK, States, CallPcs, HostPcs, Active, Ended
    <3>2. Local(r)
      BY <1>0, <2>0, <3>a, <3>b, <3>c, SetFacts DEF Local, Same, RestOK, States, CallPcs, HostPcs, Active,
         Ended
    <3>3. EntryInv(r)'
      <4>1. (Serving => IF r \in Services THEN ServiceShape(r) ELSE CommandShape(r))'
        BY <1>0, <2>0, <3>0, <3>a, <3>b, SetFacts DEF EntryInv, CommandShape, ServiceShape, RestOK, States,
           CallPcs, HostPcs, Active, Interruptible, Ended, IsActive, Executes, HostDone, Serving
      <4>2. StopShape(r)'
        BY <1>0, <2>0, <3>0, <3>a, <3>b, SetFacts DEF EntryInv, CommandShape, ServiceShape, StopShape,
           RestOK, States, CallPcs, HostPcs, Active, Interruptible, Ended, IsActive, Executes, HostDone,
           Serving
      <4>3. Evidence(r)'
        BY <1>0, <2>0, <3>0, <3>a, <3>b, SetFacts DEF EntryInv, CommandShape, ServiceShape, Evidence,
           RestOK, States, CallPcs, HostPcs, Active, Interruptible, Ended, IsActive, Executes, HostDone,
           Serving
      <4>4. Serving'
        BY <1>0, <2>0, <3>0, <3>a, <3>b, SetFacts DEF Ended, IsActive, Executes, HostDone, Serving
      <4> QED
        BY <4>1, <4>2, <4>3, <4>4 DEF EntryInv
    <3> QED
      BY <3>1, <3>2, <3>3
  <2> QED
    BY <1>2, <2>1, <2>2, <2>3, <2>4, <2>5 DEF StopActs, StopHost
<1>3. CASE StopWaited(r)
  <2>1. TypeOK'
    BY <1>0, <1>3, Typed DEF RestOK, States, CallPcs, HostPcs, Active, StopWaited, HostDone, NoSight,
       Serving, Waiting
  <2>2. Local(r)
    BY <1>0, <1>3 DEF Local, Same, RestOK, States, CallPcs, HostPcs, Active, StopWaited, HostDone, NoSight,
       Serving, Waiting, IsActive, Ended
  <2>3. EntryInv(r)'
    BY <1>0, <1>3 DEF EntryInv, CommandShape, ServiceShape, Asleep, StopShape, Evidence, RestOK, States,
       CallPcs, HostPcs, Active, Interruptible, StopWaited, HostDone, NoSight, Serving, Waiting, IsActive, Executes
  <2> QED
    BY <2>1, <2>2, <2>3
<1> QED
  BY <1>1, <1>2, <1>3

-----------------------------------------------------------------------------
\* What the operating system, a clean-up and a start do to one entry

LEMMA SystemSteps ==
  ASSUME IInv, NEW r \in Entries,
         \/ CommandExits(r) \/ SupervisorEnds(r) \/ DrainAsks(r) \/ RecoverRow(r)
  PROVE  TypeOK' /\ Local(r) /\ EntryInv(r)'
<1>0. row \in Rows /\ call \in Calls /\ host \in HostTasks /\ RestOK /\ EntryInv(r) /\ ~SlowReads
  BY Typed DEF IInv
<1>1. CASE CommandExits(r)
  <2>1. TypeOK'
    BY <1>0, <1>1, Typed DEF RestOK, States, CallPcs, HostPcs, Active, CommandExits, Serving
  <2>2. Local(r)
    BY <1>0, <1>1 DEF Local, Same, RestOK, States, CallPcs, HostPcs, Active, CommandExits, Serving,
       IsActive, Ended
  <2>3. EntryInv(r)'
    BY <1>0, <1>1 DEF EntryInv, CommandShape, ServiceShape, Asleep, StopShape, Evidence, RestOK, States,
       CallPcs, HostPcs, Active, Interruptible, CommandExits, Serving, IsActive, Executes, HostDone
  <2> QED
    BY <2>1, <2>2, <2>3
<1>2. CASE SupervisorEnds(r)
  <2>a. /\ r \in Services /\ (proc[r] = "script" \/ (proc[r] = "idle" /\ ~Controlled(r)))
        /\ UNCHANGED <<row, call, host, ready, stop, seen, cleanup, ops, closing, limit, backend, count>>
    BY <1>2 DEF SupervisorEnds
  <2>0. /\ proc' \in [Entries -> {"none", "idle", "script", "escaped", "dead"}]
        /\ proc'[r] \in {"dead", "escaped"} /\ (proc[r] = "idle" => proc'[r] = "dead")
        /\ \A q \in Entries : q = r \/ proc'[q] = proc[q]
        /\ receipt' \subseteq Services /\ proof' \subseteq Services
        /\ r \in receipt' => r \in receipt \/ proc'[r] = "dead"
        /\ r \in proof' => r \in proof \/ proc'[r] = "dead"
        /\ \A q \in Entries : q = r \/ (q \in receipt' \cup proof' => q \in receipt \cup proof)
    BY <1>0, <1>2 DEF SupervisorEnds, RestOK
  <2>1. TypeOK'
    BY <1>0, <2>0, <2>a, Typed DEF RestOK, States, CallPcs, HostPcs, Active, Controlled
  <2>2. Local(r)
    BY <1>0, <2>0, <2>a DEF Local, Same, RestOK, States, CallPcs, HostPcs, Active, Controlled, IsActive, Ended
  <2>3. EntryInv(r)'
    BY <1>0, <2>0, <2>a DEF EntryInv, CommandShape, ServiceShape, Asleep, StopShape, Evidence, RestOK,
       States, CallPcs, HostPcs, Active, Interruptible, Controlled, IsActive, Executes, HostDone, Serving
  <2> QED
    BY <2>1, <2>2, <2>3
<1>3. CASE DrainAsks(r)
  <2>a. /\ cleanup' \in [pc : {"none", "drain", "body", "failed"}, scope : Scopes \cup {None},
                         left : SUBSET Entries, at : Entries \cup {None}, failed : BOOLEAN]
        /\ cleanup'.pc = cleanup.pc /\ cleanup'.scope = cleanup.scope
    BY <1>0, <1>3 DEF DrainAsks, RestOK
  <2>0. /\ Serving /\ UNCHANGED <<row, call, host, ready, proc, receipt, proof, ops, closing, limit, backend, count>>
        /\ stop' \in [Entries -> {"none", "read", "wait"}] /\ \A q \in Entries : q = r \/ stop'[q] = stop[q]
        /\ IF IsActive(r) /\ stop[r] = "none" THEN stop'[r] = "read" ELSE stop' = stop
    BY <1>0, <1>3 DEF DrainAsks, RestOK
  <2>b. CASE IsActive(r) /\ stop[r] = "none"
    <3>0. /\ seen' \in [Entries -> [host : BOOLEAN, pid : BOOLEAN, unsure : BOOLEAN]]
          /\ seen'[r].host <=> HasHost(r)
          /\ seen'[r].pid <=> row[r].pid
          /\ \A q \in Entries : q = r \/ seen'[q] = seen[q]
      BY <1>0, <1>3, <2>b, SightFacts DEF DrainAsks, RestOK
    <3>1. TypeOK'
      BY <1>0, <2>0, <2>a, <2>b, <3>0, Typed DEF RestOK, States, CallPcs, HostPcs, Active, HasHost
    <3>2. Local(r)
      BY <1>0, <2>0, <2>a, <2>b, <3>0 DEF Local, Same, RestOK, States, CallPcs, HostPcs, Active, HasHost,
         IsActive, Ended
    <3>3. EntryInv(r)'
      <4>1. (Serving => IF r \in Services THEN ServiceShape(r) ELSE CommandShape(r))'
        BY <1>0, <2>0, <2>a, <2>b, <3>0 DEF EntryInv, CommandShape, ServiceShape, RestOK, States, CallPcs,
           HostPcs, Active, Interruptible, HasHost, IsActive, Executes, HostDone, Serving
      <4>2. StopShape(r)'
        BY <1>0, <2>0, <2>a, <2>b, <3>0 DEF EntryInv, CommandShape, ServiceShape, StopShape, RestOK,
           States, CallPcs, HostPcs, Active, Interruptible, HasHost, IsActive, Executes, HostDone, Serving
      <4>3. Evidence(r)'
        BY <1>0, <2>0, <2>a, <2>b, <3>0 DEF EntryInv, CommandShape, ServiceShape, Evidence, RestOK, States,
           CallPcs, HostPcs, Active, Interruptible, HasHost, IsActive, Executes, HostDone, Serving
      <4>4. Serving'
        BY <1>0, <2>0, <2>a, <2>b, <3>0 DEF HasHost, IsActive, Executes, HostDone, Serving
      <4> QED
        BY <4>1, <4>2, <4>3, <4>4 DEF EntryInv
    <3> QED
      BY <3>1, <3>2, <3>3
  <2>c. CASE ~(IsActive(r) /\ stop[r] = "none")
    <3>0. seen' = seen /\ stop' = stop
      BY <1>3, <2>c DEF DrainAsks
    <3>1. TypeOK'
      BY <1>0, <2>0, <2>a, <3>0, Typed DEF RestOK, States, CallPcs, HostPcs, Active
    <3>2. Local(r)
      BY <1>0, <2>0, <2>a, <3>0 DEF Local, Same, RestOK, States, CallPcs, HostPcs, Active, IsActive, Ended
    <3>3. EntryInv(r)'
      BY <1>0, <2>0, <2>a, <3>0 DEF EntryInv, CommandShape, ServiceShape, Asleep, StopShape, Evidence,
         RestOK, States, CallPcs, HostPcs, Active, Interruptible, IsActive, Executes, HostDone, Serving
    <3> QED
      BY <3>1, <3>2, <3>3
  <2> QED
    BY <2>b, <2>c
<1>4. CASE RecoverRow(r)
  <2>0. PICK s \in {"ended", "cleanup_required"} : s = IF Gone(r) THEN "ended" ELSE "cleanup_required"
    OBVIOUS
  <2>a. /\ backend.pc = "recover" /\ r \in backend.todo /\ row' = Set(r, s)
        /\ receipt' \subseteq receipt /\ \A q \in Entries : q = r \/ (q \in receipt' => q \in receipt)
        /\ UNCHANGED <<call, host, ready, proc, proof, stop, seen, cleanup, ops, closing, limit, count>>
    BY <1>4, <2>0 DEF RecoverRow
  <2>b. /\ backend' \in [pc : {"down", "recover", "serving"}, todo : SUBSET Entries]
        /\ backend'.pc = backend.pc /\ backend'.todo = backend.todo \ {r}
    BY <1>0, <1>4 DEF RecoverRow, RestOK
  <2>c. IsActive(r) /\ (s = "ended" => ~Executes(r))
    BY <1>0, <2>0, <2>a DEF EntryInv, Asleep, Evidence, Gone, HasReceipt, Executes, Serving
  <2>1. TypeOK'
    BY <1>0, <2>0, <2>a, <2>b, <2>c, SetFacts, Typed DEF RestOK, States, CallPcs, HostPcs, Active
  <2>2. Local(r)
    BY <1>0, <2>0, <2>a, <2>b, <2>c, SetFacts DEF Local, Same, RestOK, States, CallPcs, HostPcs, Active
  <2>3. EntryInv(r)'
    BY <1>0, <2>0, <2>a, <2>b, <2>c, SetFacts DEF EntryInv, CommandShape, ServiceShape, Asleep, StopShape,
       Evidence, RestOK, States, CallPcs, HostPcs, Active, Interruptible, IsActive, Executes, HostDone, Serving
  <2> QED
    BY <2>1, <2>2, <2>3
<1> QED
  BY <1>1, <1>2, <1>3, <1>4

-----------------------------------------------------------------------------
\* Clean-ups, and what else changes no entry

LEMMA StillInv ==
  ASSUME IInv, TypeOK', CleanupInv', backend'.pc = backend.pc, count'.fault = 0 => count.fault = 0,
         \A q \in Entries : Same(q)
  PROVE  IInv'
BY SameKept DEF IInv

LEMMA EmptyScope ==
  ASSUME NEW s \in Scopes, Used(s) = 0
  PROVE  \A r \in Members[s] : ~IsActive(r)
<1> DEFINE A == {r \in Members[s] : IsActive(r)}
<1>1. A \in SUBSET Entries /\ IsFiniteSet(Entries)
  BY RuntimeAssumption
<1>2. IsFiniteSet(A)
  BY <1>1, FS_Subset
<1>3. Cardinality(A) = 0
  BY DEF Used
<1>4. A = {}
  <2> HIDE DEF A
  <2> QED
    BY <1>2, <1>3, FS_EmptySet
<1> QED
  BY <1>4

LEMMA CleanupSteps ==
  ASSUME IInv, \/ \E s \in Scopes : BeginCleanup(s) \/ Configure(s)
               \/ DrainNext \/ DrainEnds \/ EndCleanup \/ BeginShutdown
  PROVE  IInv'
<1>0. row \in Rows /\ call \in Calls /\ host \in HostTasks /\ RestOK /\ CleanupInv
  BY Typed DEF IInv
<1>1. ASSUME NEW s \in Scopes, BeginCleanup(s)
      PROVE  IInv'
  <2>0. /\ cleanup' \in [pc : {"none", "drain", "body", "failed"}, scope : Scopes \cup {None},
                         left : SUBSET Entries, at : Entries \cup {None}, failed : BOOLEAN]
        /\ ops' \subseteq Scopes \X {"running", "orphan", "failed"} /\ count' \in [fault : Nat, other : Nat]
    <3>1. {r \in Members[s] : IsActive(r)} \in SUBSET Entries
      BY RuntimeAssumption
    <3>2. cleanup' \in [pc : {"none", "drain", "body", "failed"}, scope : Scopes \cup {None},
                        left : SUBSET Entries, at : Entries \cup {None}, failed : BOOLEAN]
      BY <1>1, <3>1 DEF BeginCleanup
    <3>3. ops' \subseteq Scopes \X {"running", "orphan", "failed"}
      BY <1>0, <1>1 DEF BeginCleanup, RestOK
    <3>4. count' \in [fault : Nat, other : Nat]
      BY <1>0, <1>1 DEF BeginCleanup, Counted, RestOK
    <3> QED
      BY <3>2, <3>3, <3>4
  <2>1. TypeOK'
    BY <1>0, <1>1, <2>0, Typed DEF BeginCleanup, RestOK
  <2>2. CleanupInv'
    BY <1>1 DEF BeginCleanup, CleanupInv, Serving
  <2>3. /\ \A q \in Entries : Same(q)
        /\ backend'.pc = backend.pc /\ (count'.fault = 0 => count.fault = 0)
    BY <1>0, <1>1 DEF BeginCleanup, Same, Counted, RestOK
  <2> QED
    BY <2>1, <2>2, <2>3, StillInv
<1>2. ASSUME NEW s \in Scopes, Configure(s)
      PROVE  IInv'
  <2>1. TypeOK'
    BY <1>0, <1>2, Typed DEF Configure, RestOK, Counted
  <2>2. CleanupInv'
    BY <1>0, <1>2 DEF Configure, CleanupInv
  <2>3. /\ \A q \in Entries : Same(q)
        /\ backend'.pc = backend.pc /\ (count'.fault = 0 => count.fault = 0)
    BY <1>0, <1>2 DEF Configure, Same, Counted, RestOK
  <2> QED
    BY <2>1, <2>2, <2>3, StillInv
<1>3. CASE DrainNext
  <2>0. /\ cleanup' \in [pc : {"none", "drain", "body", "failed"}, scope : Scopes \cup {None},
                         left : SUBSET Entries, at : Entries \cup {None}, failed : BOOLEAN]
        /\ cleanup'.pc = cleanup.pc /\ cleanup'.scope = cleanup.scope
    BY <1>0, <1>3 DEF DrainNext, RestOK, Ended
  <2>1. TypeOK'
    BY <1>0, <1>3, <2>0, Typed DEF DrainNext, RestOK
  <2>2. CleanupInv'
    BY <1>0, <1>3, <2>0 DEF DrainNext, CleanupInv, Serving, IsActive
  <2>3. /\ \A q \in Entries : Same(q)
        /\ backend'.pc = backend.pc /\ (count'.fault = 0 => count.fault = 0)
    BY <1>3 DEF DrainNext, Same
  <2> QED
    BY <2>1, <2>2, <2>3, StillInv
<1>4. CASE DrainEnds
  <2>0. /\ cleanup' \in [pc : {"none", "drain", "body", "failed"}, scope : Scopes \cup {None},
                         left : SUBSET Entries, at : Entries \cup {None}, failed : BOOLEAN]
        /\ cleanup'.pc = "body" => Used(cleanup.scope) = 0
        /\ cleanup'.scope = cleanup.scope
    BY <1>0, <1>4 DEF DrainEnds, RestOK, NothingActive
  <2>1. TypeOK'
    BY <1>0, <1>4, <2>0, Typed DEF DrainEnds, RestOK
  <2>2. cleanup.scope \in Scopes /\ <<cleanup.scope, "running">> \in ops /\ Serving
    BY <1>0, <1>4 DEF DrainEnds, CleanupInv
  <2>3. cleanup'.pc = "body" => \A r \in Members[cleanup.scope] : ~IsActive(r)
    BY <2>0, <2>2, EmptyScope
  <2>4. CleanupInv'
    BY <1>4, <2>0, <2>2, <2>3 DEF DrainEnds, CleanupInv, Serving, IsActive
  <2>5. /\ \A q \in Entries : Same(q)
        /\ backend'.pc = backend.pc /\ (count'.fault = 0 => count.fault = 0)
    BY <1>4 DEF DrainEnds, Same
  <2> QED
    BY <2>1, <2>4, <2>5, StillInv
<1>5. CASE EndCleanup
  <2>0. cleanup.scope \in Scopes
    BY <1>0, <1>5 DEF EndCleanup, CleanupInv
  <2>1. TypeOK'
    BY <1>0, <1>5, <2>0, Typed DEF EndCleanup, OpsAfter, NoCleanup, RestOK
  <2>2. CleanupInv'
    BY <1>5 DEF EndCleanup, CleanupInv, NoCleanup
  <2>3. /\ \A q \in Entries : Same(q)
        /\ backend'.pc = backend.pc /\ (count'.fault = 0 => count.fault = 0)
    BY <1>5 DEF EndCleanup, Same
  <2> QED
    BY <2>1, <2>2, <2>3, StillInv
<1>6. CASE BeginShutdown
  <2>1. TypeOK'
    BY <1>0, <1>6, Typed DEF BeginShutdown, RestOK
  <2>2. CleanupInv'
    BY <1>0, <1>6 DEF BeginShutdown, CleanupInv, Serving, IsActive
  <2>3. /\ \A q \in Entries : Same(q)
        /\ backend'.pc = backend.pc /\ (count'.fault = 0 => count.fault = 0)
    BY <1>6 DEF BeginShutdown, Same
  <2> QED
    BY <2>1, <2>2, <2>3, StillInv
<1> QED
  BY <1>1, <1>2, <1>3, <1>4, <1>5, <1>6

-----------------------------------------------------------------------------
\* The end of the backend and the next start

\* Whatever runs has a row that names it.
LEMMA Named ==
  ASSUME IInv, NEW r \in Entries
  PROVE  /\ Executes(r) => IsActive(r) /\ row[r].pid
         /\ call[r].pc = "idle" => row[r].state = "none" /\ ~row[r].pid /\ proc[r] = "none"
<1>0. EntryInv(r) /\ call[r].pc \in CallPcs /\ host[r].pc \in HostPcs
  BY Typed DEF IInv, Calls, HostTasks
<1>1. CASE Serving /\ r \in Services
  BY <1>0, <1>1 DEF EntryInv, ServiceShape, Executes, IsActive, Active, HostPcs
<1>2. CASE Serving /\ r \notin Services
  BY <1>0, <1>2 DEF EntryInv, CommandShape, Executes, IsActive, Active, CallPcs
<1>3. CASE ~Serving
  BY <1>0, <1>3 DEF EntryInv, Asleep
<1> QED
  BY <1>1, <1>2, <1>3

LEMMA Forgotten ==
  ASSUME call \in Calls, RestOK, ForgetMemory
  PROVE  /\ call' \in Calls /\ host' \in HostTasks
         /\ \A r \in Entries : /\ call'[r].pc = IF call[r].pc = "idle" THEN "idle" ELSE "done"
                               /\ host'[r].pc = "none" /\ ~host'[r].gone /\ stop'[r] = "none"
         /\ ready' \in [Entries -> {"no", "ready", "failed"}]
         /\ stop' \in [Entries -> {"none", "read", "wait"}]
         /\ seen' \in [Entries -> [host : BOOLEAN, pid : BOOLEAN, unsure : BOOLEAN]]
         /\ ops' \subseteq Scopes \X {"running", "orphan", "failed"}
         /\ cleanup'.pc = "none" /\ proof' = {} /\ backend'.pc = "down" /\ backend'.todo = {}
         /\ cleanup' \in [pc : {"none", "drain", "body", "failed"}, scope : Scopes \cup {None},
                          left : SUBSET Entries, at : Entries \cup {None}, failed : BOOLEAN]
         /\ backend' \in [pc : {"down", "recover", "serving"}, todo : SUBSET Entries]
<1>1. /\ call' \in Calls
      /\ \A r \in Entries : call'[r].pc = IF call[r].pc = "idle" THEN "idle" ELSE "done"
  BY DEF ForgetMemory, Calls, CallPcs
<1>2. host' \in HostTasks /\ \A r \in Entries : host'[r].pc = "none" /\ ~host'[r].gone
  BY DEF ForgetMemory, HostTasks, HostPcs, NoHost
<1>3. seen' \in [Entries -> [host : BOOLEAN, pid : BOOLEAN, unsure : BOOLEAN]]
  BY DEF ForgetMemory, NoSight
<1>4. ops' \subseteq Scopes \X {"running", "orphan", "failed"}
  BY DEF ForgetMemory, RestOK
<1>5. /\ cleanup'.pc = "none"
      /\ cleanup' \in [pc : {"none", "drain", "body", "failed"}, scope : Scopes \cup {None},
                       left : SUBSET Entries, at : Entries \cup {None}, failed : BOOLEAN]
  BY DEF ForgetMemory, NoCleanup
<1> QED
  BY <1>1, <1>2, <1>3, <1>4, <1>5 DEF ForgetMemory

LEMMA CrashStep ==
  ASSUME IInv, Crash
  PROVE  IInv'
<1>0. row \in Rows /\ call \in Calls /\ host \in HostTasks /\ RestOK /\ ~SlowReads
  BY Typed DEF IInv
<1>1. ForgetMemory /\ UNCHANGED <<row, proc, receipt, closing, limit>> /\ count' \in [fault : Nat, other : Nat]
  BY <1>0 DEF Crash, Counted, RestOK
<1>2. TypeOK'
  BY <1>0, <1>1, Forgotten, Typed DEF RestOK
<1>3. ASSUME NEW r \in Entries
      PROVE  EntryInv(r)'
  <2>1. /\ Executes(r) => IsActive(r) /\ row[r].pid
        /\ call[r].pc = "idle" => row[r].state = "none" /\ ~row[r].pid /\ proc[r] = "none"
        /\ EntryInv(r)
    BY Named DEF IInv
  <2>2. ~Serving' /\ Asleep(r)'
    BY <1>0, <1>1, <2>1, Forgotten DEF Asleep, Serving, Executes, IsActive
  <2>3. StopShape(r)' /\ Evidence(r)'
    BY <1>0, <1>1, <2>1, Forgotten DEF EntryInv, StopShape, Evidence, Executes
  <2> QED
    BY <2>2, <2>3 DEF EntryInv
<1>4. CleanupInv'
  BY <1>0, <1>1, Forgotten DEF CleanupInv
<1> QED
  BY <1>0, <1>2, <1>3, <1>4 DEF IInv

LEMMA RebootStep ==
  ASSUME IInv, Reboot
  PROVE  IInv'
<1>0. row \in Rows /\ call \in Calls /\ host \in HostTasks /\ RestOK /\ ~SlowReads
  BY Typed DEF IInv
<1>1. /\ ForgetMemory /\ UNCHANGED <<receipt, closing, limit>> /\ count' \in [fault : Nat, other : Nat]
      /\ proc' \in [Entries -> {"none", "idle", "script", "escaped", "dead"}]
      /\ \A r \in Entries : proc'[r] = IF proc[r] = "none" THEN "none" ELSE "dead"
  BY <1>0 DEF Reboot, Counted, RestOK
<1>2. /\ row' \in Rows
      /\ \A r \in Entries : /\ row'[r].state = row[r].state /\ row'[r].pid = row[r].pid
                            /\ row'[r].old => row[r].state # "none"
  BY <1>0 DEF Reboot, Rows
<1>3. TypeOK'
  BY <1>0, <1>1, <1>2, Forgotten, Typed DEF RestOK
<1>4. ASSUME NEW r \in Entries
      PROVE  EntryInv(r)'
  <2>1. /\ call[r].pc = "idle" => row[r].state = "none" /\ ~row[r].pid /\ proc[r] = "none"
        /\ EntryInv(r)
    BY Named DEF IInv
  <2>2. ~Serving' /\ Asleep(r)'
    BY <1>0, <1>1, <1>2, <2>1, Forgotten DEF Asleep, Serving, Executes, IsActive
  <2>3. StopShape(r)' /\ Evidence(r)'
    BY <1>0, <1>1, <1>2, <2>1, Forgotten DEF EntryInv, StopShape, Evidence, Executes
  <2> QED
    BY <2>2, <2>3 DEF EntryInv
<1>5. CleanupInv'
  BY <1>0, <1>1, Forgotten DEF CleanupInv
<1> QED
  BY <1>0, <1>3, <1>4, <1>5 DEF IInv

LEMMA RestartStep ==
  ASSUME IInv, Restart
  PROVE  IInv'
<1>0. row \in Rows /\ call \in Calls /\ host \in HostTasks /\ RestOK /\ CleanupInv /\ ~SlowReads
  BY Typed DEF IInv
<1>1. /\ UNCHANGED <<row, call, host, ready, proc, receipt, proof, stop, seen, cleanup, ops, closing, limit, count>>
      /\ backend'.pc = "recover" /\ backend'.todo = {r \in Entries : IsActive(r)} /\ ~Serving
      /\ backend' \in [pc : {"down", "recover", "serving"}, todo : SUBSET Entries]
  BY DEF Restart, Serving
<1>2. TypeOK'
  BY <1>0, <1>1, Typed DEF RestOK
<1>3. ASSUME NEW r \in Entries
      PROVE  EntryInv(r)'
  <2>1. EntryInv(r)
    BY DEF IInv
  <2>2. ~Serving' /\ Asleep(r)'
    BY <1>1, <2>1 DEF EntryInv, Asleep, Serving, Executes, IsActive
  <2>3. StopShape(r)' /\ Evidence(r)'
    BY <1>1, <2>1 DEF EntryInv, StopShape, Evidence, Executes, HostDone
  <2> QED
    BY <2>2, <2>3 DEF EntryInv
<1>4. CleanupInv'
  BY <1>0, <1>1 DEF CleanupInv
<1> QED
  BY <1>0, <1>2, <1>3, <1>4 DEF IInv

LEMMA GateStep ==
  ASSUME IInv, RecoverGate
  PROVE  IInv'
<1>0. row \in Rows /\ call \in Calls /\ host \in HostTasks /\ RestOK /\ CleanupInv /\ ~SlowReads
  BY Typed DEF IInv
<1>1. /\ UNCHANGED <<row, call, host, ready, proc, proof, stop, seen, cleanup, limit, count>>
      /\ backend.pc = "recover" /\ backend.todo = {} /\ ~Serving /\ Serving'
      /\ backend' \in [pc : {"down", "recover", "serving"}, todo : SUBSET Entries]
      /\ receipt' \subseteq receipt /\ ops' \subseteq ops /\ closing' \in BOOLEAN
  BY <1>0 DEF RecoverGate, RestOK, Serving
<1>2. TypeOK'
  BY <1>0, <1>1, Typed DEF RestOK
<1>3. ASSUME NEW r \in Entries
      PROVE  EntryInv(r)'
  <2>1. EntryInv(r) /\ Asleep(r) /\ row[r].state \in States
    BY <1>0, <1>1 DEF IInv, EntryInv, Rows
  <2>2. CASE call[r].pc = "idle"
    BY <1>1, <2>1, <2>2 DEF EntryInv, Asleep, CommandShape, ServiceShape, StopShape, Evidence, Executes
  <2>3. CASE call[r].pc = "done"
    <3>1. (Executes(r) => row[r].state = "cleanup_required" /\ row[r].pid)
          /\ row[r].state \in {"none", "ended", "cleanup_required"}
      BY <1>1, <2>1 DEF Asleep, IsActive, States
    <3> QED
      BY <1>1, <2>1, <2>3, <3>1 DEF EntryInv, Asleep, CommandShape, ServiceShape, StopShape, Evidence, Executes
  <2> QED
    BY <2>1, <2>2, <2>3 DEF Asleep
<1>4. CleanupInv'
  BY <1>0, <1>1 DEF CleanupInv
<1> QED
  BY <1>0, <1>2, <1>3, <1>4 DEF IInv

-----------------------------------------------------------------------------
\* The invariant

LEMMA InitInv ==
  ASSUME ~SlowReads, Init
  PROVE  IInv
<1>1. TypeOK
  BY RuntimeAssumption DEF Init, TypeOK, NoRow, NoHost, NoSight, NoCleanup, Active
<1>2. CleanupInv
  BY DEF Init, CleanupInv, NoCleanup
<1>3. ASSUME NEW r \in Entries
      PROVE  EntryInv(r)
  <2>1. /\ row[r].state = "none" /\ ~row[r].pid /\ ~row[r].old /\ call[r].pc = "idle"
        /\ host[r].pc = "none" /\ ~host[r].gone /\ proc[r] = "none" /\ stop[r] = "none"
        /\ receipt = {} /\ proof = {} /\ Serving
    BY DEF Init, NoRow, NoHost, Serving
  <2> QED
    BY <2>1 DEF EntryInv, CommandShape, ServiceShape, StopShape, Evidence, Executes
<1> QED
  BY <1>1, <1>2, <1>3 DEF IInv

LEMMA StepInv ==
  ASSUME IInv, [Next]_vars
  PROVE  IInv'
<1>1. ASSUME NEW r \in Entries,
             CallStep(r) \/ HostStep(r) \/ StopStep(r) \/ CommandExits(r) \/ SupervisorEnds(r)
                 \/ DrainAsks(r) \/ RecoverRow(r)
      PROVE  IInv'
  <2>1. TypeOK' /\ Local(r) /\ EntryInv(r)'
    BY <1>1, CallSteps, HostSteps, StopSteps, SystemSteps DEF CallStep, HostStep, StopStep
  <2> QED
    BY <2>1, LocalInv
<1>2. CASE (\E s \in Scopes : BeginCleanup(s) \/ Configure(s)) \/ DrainNext \/ DrainEnds \/ EndCleanup \/ BeginShutdown
  BY <1>2, CleanupSteps
<1>3. CASE Crash \/ Reboot \/ Restart \/ RecoverGate
  BY <1>3, CrashStep, RebootStep, RestartStep, GateStep
<1>4. CASE UNCHANGED vars
  <2>1. TypeOK' /\ CleanupInv'
    BY <1>4 DEF vars, IInv, TypeOK, CleanupInv, Serving, IsActive
  <2>2. /\ \A q \in Entries : Same(q)
        /\ backend'.pc = backend.pc /\ (count'.fault = 0 => count.fault = 0)
    BY <1>4 DEF vars, Same
  <2> QED
    BY <2>1, <2>2, StillInv
<1> QED
  BY <1>1, <1>2, <1>3, <1>4 DEF Next, CleanupStep

\* The invariant of every behaviour whose row reads are short.
THEOREM Inductive ==
  ASSUME ~SlowReads
  PROVE  Spec => []IInv
<1>1. Init => IInv
  BY InitInv
<1>2. IInv /\ [Next]_vars => IInv'
  BY StepInv
<1> QED
  BY <1>1, <1>2, PTL DEF Spec

\* A slot and a port are given back only when nothing of the script runs.
THEOREM Released ==
  ASSUME ~SlowReads
  PROVE  Spec => []ReleasedIsGone
<1>1. IInv => ReleasedIsGone
  BY Named DEF ReleasedIsGone
<1> QED
  BY <1>1, Inductive, PTL

\* While the body of a clean-up works on its scope, nothing of the scope runs
\* and nothing that was let in before can begin to.
THEOREM Alone ==
  ASSUME ~SlowReads
  PROVE  Spec => []BodyIsAlone
<1>1. ASSUME IInv, cleanup.pc = "body", NEW r \in Members[cleanup.scope]
      PROVE  /\ ~IsActive(r) /\ ~Executes(r)
             /\ call[r].pc \notin {"checked", "deliver", "run"} /\ HostDone(r)
  <2>1. Serving /\ r \in Entries /\ ~IsActive(r)
    BY <1>1, RuntimeAssumption DEF IInv, CleanupInv
  <2>2. ~Executes(r)
    BY <1>1, <2>1, Named
  <2>3. EntryInv(r) /\ host[r].pc \in HostPcs /\ call[r].pc \in CallPcs
    BY <1>1, <2>1, Typed DEF IInv, Calls, HostTasks
  <2>4. host[r].pc = "none" /\ call[r].pc \in {"idle", "hosting", "abort", "done"}
    BY <2>1, <2>3, AtWork
  <2> QED
    BY <2>1, <2>2, <2>4 DEF HostDone
<1>2. IInv => BodyIsAlone
  BY <1>1 DEF BodyIsAlone
<1> QED
  BY <1>2, Inductive, PTL

-----------------------------------------------------------------------------
\* What the end of a wait means

\* Only the end of its own wait, or of the backend, takes a stop from "wait" to "none".
LEMMA OnlyWaited ==
  ASSUME IInv, Next, NEW r \in Entries, stop[r] = "wait", stop'[r] = "none", Serving'
  PROVE  StopWaited(r)
<1>0. stop \in [Entries -> {"none", "read", "wait"}]
  BY DEF IInv, TypeOK
<1>1. ASSUME NEW q \in Entries, CallStep(q)
      PROVE  stop' = stop
  BY <1>1 DEF CallStep, Reserve, Cancel, Spawn, OpenEnds, AttachCheck, Attach, Deliver, RunEnds,
     ReapCommand, CloseHandoff, CloseCommand, CloseFault, BeginHost, StartRefused, StartReturns,
     StartFails, StartAborts
<1>2. ASSUME NEW q \in Entries, HostStep(q) \/ CommandExits(q) \/ SupervisorEnds(q) \/ RecoverRow(q)
      PROVE  stop' = stop
  BY <1>2 DEF HostStep, HostPrepare, HostSpawn, HostCheck, HostRow, HostDeliver, HostReady, HostCloses,
     HostReaps, HostStores, HostStoreFault, CommandExits, SupervisorEnds, RecoverRow
<1>3. ASSUME NEW q \in Entries, StopAsk(q) \/ StopActs(q) \/ DrainAsks(q)
      PROVE  FALSE
  BY <1>0, <1>3 DEF StopAsk, StopActs, StopHost, StopSettles, DrainAsks
<1>4. ASSUME NEW q \in Entries, StopWaited(q)
      PROVE  q = r
  BY <1>0, <1>4 DEF StopWaited
<1>5. ASSUME NEW s \in Scopes, BeginCleanup(s) \/ Configure(s)
      PROVE  stop' = stop
  BY <1>5 DEF BeginCleanup, Configure
<1>6. CASE DrainNext \/ DrainEnds \/ EndCleanup \/ BeginShutdown \/ Restart \/ RecoverGate
  BY <1>6 DEF DrainNext, DrainEnds, EndCleanup, BeginShutdown, Restart, RecoverGate
<1>7. ~Crash /\ ~Reboot
  BY DEF Crash, Reboot, ForgetMemory, Serving
<1> QED
  BY <1>1, <1>2, <1>3, <1>4, <1>5, <1>6, <1>7 DEF Next, StopStep, CleanupStep

LEMMA WaitedFor ==
  ASSUME IInv, NEW r \in Entries, StopWaited(r), count.fault = 0
  PROVE  row[r].state \in {"ended", "cleanup_required"}
<1>0. /\ Serving /\ stop[r] = "wait" /\ (IF seen[r].host THEN HostDone(r) ELSE ~Waiting(r))
      /\ EntryInv(r) /\ row[r].state # "none"
  BY DEF StopWaited, IInv, EntryInv, StopShape
<1>1. CASE seen[r].host
  <2>1. CASE host[r].pc = "none"
    BY <1>0, <1>1, <2>1 DEF EntryInv, StopShape
  <2>2. CASE host[r].pc = "kept"
    BY <1>0, <2>2 DEF EntryInv, CommandShape, ServiceShape
  <2> QED
    BY <1>0, <1>1, <2>1, <2>2 DEF HostDone
<1>2. CASE ~seen[r].host
  <2>1. call[r].pc = "done"
    BY <1>0, <1>2 DEF EntryInv, CommandShape, ServiceShape, Waiting
  <2>2. HostDone(r)
    BY <1>0, <1>2, <2>1 DEF EntryInv, StopShape
  <2> QED
    BY <1>0, <2>1, <2>2 DEF EntryInv, CommandShape, ServiceShape, HostDone
<1> QED
  BY <1>1, <1>2

\* When the wait of a stop is over, its target has ended or asks for a clean-up.
THEOREM Stopped ==
  ASSUME ~SlowReads
  PROVE  Spec => StopMeansStopped
<1> DEFINE Kept == \A r \in Entries :
             stop[r] = "wait" /\ stop'[r] = "none" /\ Serving' /\ count.fault = 0
               => row[r].state \in {"ended", "cleanup_required"}
<1>1. ASSUME IInv, [Next]_vars
      PROVE  [Kept]_vars
  <2>1. CASE Next
    BY <1>1, <2>1, OnlyWaited, WaitedFor
  <2>2. CASE UNCHANGED vars
    BY <2>2
  <2> QED
    BY <1>1, <2>1, <2>2
<1> QED
  BY <1>1, Inductive, PTL DEF Spec, StopMeansStopped
=============================================================================
