--------------------- MODULE ConversationSchedulerProofs ---------------------
(***************************************************************************)
(* For any jobs, chains, workers, stop requests, restarts and failures: the *)
(* scheduler's types, at most one reply per job, jobs that move forward     *)
(* only, status tables that settle together, and the implementation of the  *)
(* job ledger.  Inv and Held do not need each other's step to hold; what    *)
(* ties the rows to the tasks (Together) needs both.                        *)
(***************************************************************************)
EXTENDS ConversationScheduler, TLAPS

\* From the claim's commit to the end of finish a worker may launch a runner.
Executing == {"permit", "denied", "wait", "finish"}

\* A request that has not committed has no rows.
Unsent == \A c \in Chains : sent[c] = "no" => \A j \in JobsOf(c) : job[j] = "none"

\* A job that was not claimed yet has never been run and is not being run.
Fresh ==
  \A j \in Jobs : job[j] \in {"none", "queued"} =>
    /\ replies[j] = 0 /\ rpc[j] = "none"
    /\ \A w \in Workers : cur[w] = j => wpc[w] \notin Executing

\* A worker about to launch a runner has a job without one.
Launchable ==
  \A w \in Workers : wpc[w] = "permit" => replies[cur[w]] = 0 /\ rpc[cur[w]] = "none"

\* Claiming is exclusive.
OneExecutor ==
  \A v, w \in Workers :
    wpc[v] \in Executing /\ wpc[w] \in Executing /\ cur[v] = cur[w] => v = w

\* A runner that has not started its reply found none.
Young == \A j \in Jobs : rpc[j] \in {"new", "opened"} => replies[j] = 0

Inv ==
  /\ TypeOK /\ Unsent /\ Fresh /\ Launchable /\ OneExecutor /\ Young
  /\ OneReplyPerJob

\* Every bound, and every identifier a chain names, has its type.
LEMMA ChainFacts ==
  /\ \A c \in Chains : JobsOf(c) \subseteq Jobs /\ ChainJobs[c] \in Seq(Jobs) /\ LaneOf[c] \in Lanes
  /\ \A c, d \in Chains : \A j \in JobsOf(c) : j \in JobsOf(d) => c = d
  /\ \A w \in Workers : Inbox(w) \in Lanes
  /\ \A w \in Workers \ Slots : w \in Lanes
BY ChainsAssumption DEF JobsOf, Workers, Conversations, Inbox

LEMMA RowsStep == TypeOK /\ [Next]_vars => RowsOK'
<1> SUFFICES ASSUME TypeOK, [Next]_vars PROVE RowsOK'
  OBVIOUS
<1> USE DEF TypeOK, RowsOK, JobStatus, GenStatus, ExecStatus, MsgStatus, JobEnd, GenEnd, ExecEnd
<1>1. ASSUME NEW c \in Chains, Send(c) PROVE RowsOK'
  BY <1>1 DEF Send
<1>2. ASSUME NEW w \in Workers, Claim(w) PROVE RowsOK'
  <2>1. CASE UNCHANGED dbVars
    BY <1>2, <2>1 DEF Claim, dbVars
  <2>2. CASE CancelOrphan(cur[w])
    BY <1>2, <2>2 DEF Claim, CancelOrphan
  <2>3. CASE RejectRows(cur[w])
    BY <1>2, <2>3 DEF Claim, RejectRows
  <2>4. CASE StartRows(cur[w])
    BY <1>2, <2>4 DEF Claim, StartRows, WorkersOK
  <2> QED
    BY <1>2, <2>1, <2>2, <2>3, <2>4 DEF Claim
<1>3. ASSUME NEW w \in Workers, FailJob(w) PROVE RowsOK'
  BY <1>3 DEF FailJob, FailRows, FailAnyway, dbVars
<1>4. ASSUME NEW w \in Workers, Finish(w) PROVE RowsOK'
  BY <1>4 DEF Finish, FinishedGen, FinishedJob, dbVars
<1>5. ASSUME NEW j \in Jobs, RunnerStart(j) PROVE RowsOK'
  BY <1>5 DEF RunnerStart, dbVars
<1>6. ASSUME NEW j \in Jobs, RunnerFinalize(j) PROVE RowsOK'
  BY <1>6 DEF RunnerFinalize, RunnersOK, dbVars
<1>7. ASSUME NEW s \in Stoppers, StopWrite(s) PROVE RowsOK'
  BY <1>7 DEF StopWrite, JobAfterStop, dbVars
<1>8. CASE FinishShutdown
  BY <1>8 DEF FinishShutdown
<1>9. CASE RecoverMessages
  BY <1>9 DEF RecoverMessages, RecoveredMsg
<1>10. CASE Start
  BY <1>10 DEF Start
<1>11. CASE UNCHANGED <<dbVars, replies>>
  BY <1>11 DEF dbVars
<1> QED
  BY <1>1, <1>2, <1>3, <1>4, <1>5, <1>6, <1>7, <1>8, <1>9, <1>10, <1>11
  DEF Next, vars, WakeChain, TickWake, WorkerStep, Take, Permit, PermitDenied, Reap, WorkerCancelled, WorkerFault,
      RunnerOwnStep, RunnerOpen, RunnerUnavailable, RunnerCancelled, RunnerExit, RunnerStreamEnd, RunnerError,
      RunnerFault, StopStep, StopCancel, StopRead, BeginShutdown, Crash

LEMMA LanesStep == TypeOK /\ [Next]_vars => LanesOK'
<1> SUFFICES ASSUME TypeOK, [Next]_vars PROVE LanesOK'
  OBVIOUS
<1> USE DEF TypeOK, LanesOK
<1>1. ASSUME NEW c \in Chains, WakeChain(c) PROVE LanesOK'
  BY <1>1, ChainFacts DEF WakeChain, Enqueue
<1>2. ASSUME NEW c \in Ticked, NEW j \in JobsOf(c), TickWake(c, j) PROVE LanesOK'
  <2>1. c \in Chains /\ j \in Jobs /\ LaneOf[c] \in Lanes /\ Shared \in Lanes /\ <<j>> \in Seq(Jobs)
    BY ChainFacts, ChainsAssumption
  <2>2. \A l \in Lanes : queue[l] \o <<j>> \in Seq(Jobs)
    BY <2>1
  <2>3. CASE LaneOf[c] = Shared
    BY <1>2, <2>1, <2>2, <2>3 DEF TickWake
  <2>4. CASE LaneOf[c] # Shared
    BY <1>2, <2>1, <2>2, <2>4 DEF TickWake, Enqueue
  <2> QED
    BY <2>3, <2>4
<1>3. ASSUME NEW w \in Workers, Take(w) PROVE LanesOK'
  <2> DEFINE l == Inbox(w)
  <2>1. l \in Lanes /\ queue[l] \in Seq(Jobs) /\ queue[l] # <<>>
    BY <1>3, ChainFacts DEF Take
  <2>2. Head(queue[l]) \in Jobs /\ Tail(queue[l]) \in Seq(Jobs)
    BY <2>1
  <2>3. queue' = [queue EXCEPT ![l] = Tail(queue[l])]
    BY <1>3 DEF Take
  <2>4. pending' \subseteq pending
    BY <1>3 DEF Take
  <2> QED
    BY <2>1, <2>2, <2>3, <2>4
<1>4. ASSUME NEW w \in Workers, Die(w) PROVE LanesOK'
  <2>1. pending' \subseteq pending
    BY <1>4 DEF Die
  <2>2. queue' \in [Lanes -> Seq(Jobs)]
    <3>1. CASE w \in Slots
      BY <1>4, <3>1 DEF Die
    <3>2. CASE w \notin Slots
      <4>1. <<>> \in Seq(Jobs)
        OBVIOUS
      <4> QED
        BY <1>4, <3>2, <4>1 DEF Die
    <3> QED
      BY <3>1, <3>2
  <2> QED
    BY <2>1, <2>2
<1>5. ASSUME NEW w \in Workers, NEW pc, Leave(w, pc), UNCHANGED queue PROVE LanesOK'
  BY <1>5 DEF Leave
<1>6. ASSUME ProcessEnds PROVE LanesOK'
  BY <1>6 DEF ProcessEnds
<1>7. CASE UNCHANGED laneVars
  BY <1>7 DEF laneVars
<1>8. ASSUME NEW w \in Workers, WorkerStep(w) \/ WorkerFault(w) PROVE LanesOK'
  BY <1>8, <1>3, <1>4, <1>5, <1>7
  DEF WorkerStep, WorkerFault, laneVars, Claim, Permit, PermitDenied, FailJob, Reap, Finish, WorkerCancelled
<1> QED
  BY <1>1, <1>2, <1>6, <1>7, <1>8
  DEF Next, vars, laneVars, Send, RunnerUnchanged, RunnerOwnStep, RunnerOpen, RunnerStart, RunnerUnavailable, RunnerFinalize,
      RunnerCancelled, RunnerExit, RunnerStreamEnd, RunnerError, RunnerFault, StopStep, StopWrite, StopCancel,
      StopRead, BeginShutdown, FinishShutdown, Crash, RecoverMessages, Start

LEMMA WorkersStep == TypeOK /\ [Next]_vars => WorkersOK'
<1> SUFFICES ASSUME TypeOK, [Next]_vars PROVE WorkersOK'
  OBVIOUS
<1> USE DEF TypeOK, WorkersOK, WorkerPC
<1>1. ASSUME NEW l, NEW js, Enqueue(l, js) PROVE WorkersOK'
  BY <1>1 DEF Enqueue
<1>2. ASSUME NEW w \in Workers, Take(w) PROVE WorkersOK'
  <2>1. Head(queue[Inbox(w)]) \in Jobs
    BY <1>2, ChainFacts DEF Take, LanesOK
  <2> QED
    BY <1>2, <2>1 DEF Take
<1>3. ASSUME NEW w \in Workers, NEW pc \in {"idle", "failing"}, wpc[w] # "idle", wpc[w] # "dead",
             Leave(w, pc), active' \subseteq active
      PROVE WorkersOK'
  BY <1>3 DEF Leave
<1>4. ASSUME NEW w \in Workers, Die(w) PROVE WorkersOK'
  BY <1>4 DEF Die
<1>5. ASSUME NEW w \in Workers, NEW pc \in {"permit", "wait", "denied", "finish"},
             wpc[w] # "idle", wpc[w] # "dead", wpc' = [wpc EXCEPT ![w] = pc],
             UNCHANGED <<cur, wcancel, claims>>, active' \subseteq active \cup {cur[w]}
      PROVE WorkersOK'
  BY <1>5
<1>6. CASE BeginShutdown
  BY <1>6 DEF BeginShutdown, CancelledByShutdown
<1>7. ASSUME ProcessEnds PROVE WorkersOK'
  BY <1>7 DEF ProcessEnds
<1>8. CASE Start
  BY <1>8 DEF Start
<1>9. CASE UNCHANGED workerVars
  BY <1>9 DEF workerVars
<1>10. ASSUME NEW w \in Workers, WorkerStep(w) \/ WorkerFault(w) PROVE WorkersOK'
  BY <1>10, <1>2, <1>3, <1>4, <1>5
  DEF WorkerStep, WorkerFault, Claim, Permit, PermitDenied, FailJob, Reap, Finish, WorkerCancelled
<1> QED
  BY <1>1, <1>6, <1>7, <1>8, <1>9, <1>10
  DEF Next, vars, workerVars, Send, WakeChain, TickWake,
      RunnerUnchanged, RunnerOwnStep, RunnerOpen, RunnerStart, RunnerUnavailable, RunnerFinalize,
      RunnerCancelled, RunnerExit, RunnerStreamEnd, RunnerError, RunnerFault, StopStep, StopWrite, StopCancel,
      StopRead, FinishShutdown, Crash, RecoverMessages

LEMMA RunnersStep == TypeOK /\ [Next]_vars => RunnersOK'
<1> SUFFICES ASSUME TypeOK, [Next]_vars PROVE RunnersOK'
  OBVIOUS
<1> USE DEF TypeOK, RunnersOK, RunnerPC, RunnerLive, GenEnd
<1>1. ASSUME NEW w \in Workers, Permit(w) PROVE RunnersOK'
  BY <1>1 DEF Permit
<1>2. ASSUME NEW j \in Jobs, ForgetRunner(j) PROVE RunnersOK'
  BY <1>2 DEF ForgetRunner
<1>3. ASSUME NEW w \in Workers, Reap(w) \/ WorkerCancelled(w) PROVE RunnersOK'
  BY <1>2, <1>3 DEF Reap, WorkerCancelled, WorkersOK, runnerVars
<1>4. ASSUME NEW j \in Jobs, RunnerOwnStep(j) PROVE RunnersOK'
  BY <1>4 DEF RunnerOwnStep, RunnerOpen, RunnerStart, RunnerUnavailable, RunnerFinalize, RunnerCancelled, RunnerExit
<1>5. ASSUME NEW j \in Jobs, RunnerStreamEnd(j) \/ RunnerError(j) \/ RunnerFault(j) PROVE RunnersOK'
  BY <1>5 DEF RunnerStreamEnd, RunnerError, RunnerFault
<1>6. ASSUME NEW s \in Stoppers, StopCancel(s) PROVE RunnersOK'
  BY <1>6 DEF StopCancel
<1>7. CASE BeginShutdown
  BY <1>7 DEF BeginShutdown
<1>8. ASSUME ProcessEnds PROVE RunnersOK'
  BY <1>8 DEF ProcessEnds
<1>9. CASE UNCHANGED runnerVars
  BY <1>9 DEF runnerVars
<1> QED
  BY <1>1, <1>3, <1>4, <1>5, <1>6, <1>7, <1>8, <1>9
  DEF Next, vars, Send, WakeChain, TickWake, WorkerStep, Take, Claim, PermitDenied, FailJob, Finish, WorkerFault,
      StopStep, StopWrite, StopRead, FinishShutdown, Crash, RecoverMessages, Start

LEMMA StopsStep == TypeOK /\ [Next]_vars => StopsOK'
<1> SUFFICES ASSUME TypeOK, [Next]_vars PROVE StopsOK'
  OBVIOUS
<1> USE DEF TypeOK, StopsOK
<1>1. ASSUME NEW s \in Stoppers, NEW T \in StopTargets, StopRead(s, T) PROVE StopsOK'
  BY <1>1, ChainFacts DEF StopRead, StopTargets
<1>2. ASSUME NEW s \in Stoppers, StopStep(s) PROVE StopsOK'
  BY <1>2 DEF StopStep, StopWrite, StopCancel
<1>3. ASSUME ProcessEnds PROVE StopsOK'
  BY <1>3 DEF ProcessEnds
<1>4. CASE UNCHANGED stopVars
  BY <1>4 DEF stopVars
<1> QED
  BY <1>1, <1>2, <1>3, <1>4
  DEF Next, vars, Send, WakeChain, TickWake, WorkerStep, Take, Claim, Permit, PermitDenied, FailJob, Reap, Finish,
      WorkerCancelled, WorkerFault, RunnerUnchanged, RunnerOwnStep, RunnerOpen, RunnerStart, RunnerUnavailable,
      RunnerFinalize, RunnerCancelled, RunnerExit, RunnerStreamEnd, RunnerError, RunnerFault,
      BeginShutdown, FinishShutdown, Crash, RecoverMessages, Start

LEMMA ProcessStep == TypeOK /\ [Next]_vars => ProcessOK'
<1> SUFFICES ASSUME TypeOK, [Next]_vars PROVE ProcessOK'
  OBVIOUS
<1> USE DEF TypeOK, ProcessOK
<1>1. ASSUME NEW c \in Chains, Send(c) \/ WakeChain(c) PROVE ProcessOK'
  BY <1>1 DEF Send, WakeChain, phaseVars
<1>2. CASE BeginShutdown
  BY <1>2 DEF BeginShutdown, WorkersOK
<1>3. CASE FinishShutdown
  BY <1>3 DEF FinishShutdown, ProcessEnds
<1>4. CASE Crash
  BY <1>4 DEF Crash, ProcessEnds
<1>5. CASE RecoverMessages
  BY <1>5 DEF RecoverMessages
<1>6. CASE Start
  BY <1>6 DEF Start
<1>7. ASSUME Fault, UNCHANGED <<phaseVars, sent, wakes>> PROVE ProcessOK'
  BY <1>7, BoundsAssumption DEF Fault, phaseVars
<1>8. ASSUME wakes' \in {wakes, wakes + 1}, UNCHANGED <<phaseVars, sent, faults>> PROVE ProcessOK'
  BY <1>8 DEF phaseVars
<1> QED
  BY <1>1, <1>2, <1>3, <1>4, <1>5, <1>6, <1>7, <1>8
  DEF Next, vars, TickWake, WorkerStep, Take, Claim, Permit, PermitDenied, FailJob, Reap, Finish,
      WorkerCancelled, WorkerFault, RunnerUnchanged, RunnerOwnStep, RunnerOpen, RunnerStart, RunnerUnavailable,
      RunnerFinalize, RunnerCancelled, RunnerExit, RunnerStreamEnd, RunnerError, RunnerFault,
      StopStep, StopWrite, StopCancel, StopRead

LEMMA TypeInit == Init => TypeOK
BY DEF Init, EmptyProcess, TypeOK, RowsOK, LanesOK, WorkersOK, RunnersOK, StopsOK, ProcessOK, JobStatus, GenStatus,
       ExecStatus, MsgStatus, WorkerPC, RunnerPC, GenEnd

\* Every variable keeps its type, and a busy worker has a job: what a claim, a
\* stop or a restart writes is always one of the documented statuses.
THEOREM TypeCorrect == Spec => []TypeOK
<1>1. TypeOK /\ [Next]_vars => TypeOK'
  BY RowsStep, LanesStep, WorkersStep, RunnersStep, StopsStep, ProcessStep DEF TypeOK
<1> QED
  BY TypeInit, <1>1, PTL DEF Spec

-----------------------------------------------------------------------------
\* One reply per job

\* How one step may change the runner of a job and its replies.
RunnerMoves ==
  \A j \in Jobs :
    /\ rpc'[j] \in {"new", "opened"} => \/ rpc[j] \in {"new", "opened"}
                                        \/ \E w \in Workers : wpc[w] = "permit" /\ cur[w] = j
    /\ rpc[j] = "none" => \/ rpc'[j] = "none"
                          \/ \E w \in Workers : wpc[w] = "permit" /\ wpc'[w] = "wait" /\ cur[w] = j
    /\ replies'[j] # replies[j] => /\ rpc[j] = "opened" /\ rpc'[j] = "stream"
                                   /\ replies'[j] = replies[j] + 1

LEMMA RunnerStep == TypeOK /\ [Next]_vars => RunnerMoves
<1> SUFFICES ASSUME TypeOK, [Next]_vars PROVE RunnerMoves
  OBVIOUS
<1> USE DEF TypeOK, RunnersOK, RunnerMoves
<1>1. ASSUME NEW w \in Workers, Permit(w) PROVE RunnerMoves
  BY <1>1 DEF Permit, WorkersOK
<1>2. ASSUME NEW j \in Jobs, ForgetRunner(j), UNCHANGED replies PROVE RunnerMoves
  BY <1>2 DEF ForgetRunner
<1>3. ASSUME NEW w \in Workers, Reap(w) \/ WorkerCancelled(w) PROVE RunnerMoves
  BY <1>2, <1>3 DEF Reap, WorkerCancelled, WorkersOK, runnerVars
<1>4. ASSUME NEW j \in Jobs, RunnerOwnStep(j) PROVE RunnerMoves
  BY <1>4 DEF RunnerOwnStep, RunnerOpen, RunnerStart, RunnerUnavailable, RunnerFinalize, RunnerCancelled,
              RunnerExit, RunnerLive, RowsOK
<1>5. ASSUME NEW j \in Jobs, RunnerStreamEnd(j) \/ RunnerError(j) \/ RunnerFault(j) PROVE RunnerMoves
  BY <1>5 DEF RunnerStreamEnd, RunnerError, RunnerFault
<1>6. ASSUME ProcessEnds, UNCHANGED replies PROVE RunnerMoves
  BY <1>6 DEF ProcessEnds
<1>7. CASE UNCHANGED <<rpc, replies>>
  BY <1>7
<1> QED
  BY <1>1, <1>3, <1>4, <1>5, <1>6, <1>7
  DEF Next, vars, runnerVars, Send, WakeChain, TickWake, WorkerStep, Take, Claim, PermitDenied, FailJob, Finish,
      WorkerFault, StopStep, StopWrite, StopCancel, StopRead, BeginShutdown, FinishShutdown, Crash,
      RecoverMessages, Start

\* How one step may bring a worker among the executing ones.
ExecutorMoves ==
  \A w \in Workers : wpc'[w] \in Executing =>
    /\ cur'[w] = cur[w]
    /\ \/ wpc[w] \in Executing /\ (wpc'[w] = "permit" => wpc[w] = "permit")
       \/ /\ wpc[w] = "taken" /\ job[cur[w]] = "queued" /\ job'[cur[w]] = "running"
          /\ \A v \in Workers \ {w} : wpc'[v] = wpc[v]

LEMMA ExecutorStep == TypeOK /\ [Next]_vars => ExecutorMoves
<1> SUFFICES ASSUME TypeOK, [Next]_vars PROVE ExecutorMoves
  OBVIOUS
<1> USE DEF TypeOK, WorkersOK, ExecutorMoves, Executing
<1>1. ASSUME NEW l, NEW js, Enqueue(l, js) PROVE ExecutorMoves
  BY <1>1 DEF Enqueue
<1>2. ASSUME NEW w \in Workers, Take(w) PROVE ExecutorMoves
  BY <1>2 DEF Take
<1>3. ASSUME NEW w \in Workers, NEW pc \in {"idle", "failing"}, Leave(w, pc) PROVE ExecutorMoves
  BY <1>3 DEF Leave
<1>4. ASSUME NEW w \in Workers, Die(w) PROVE ExecutorMoves
  BY <1>4 DEF Die
<1>5. ASSUME NEW w \in Workers, wpc[w] = "taken", job[cur[w]] = "queued", StartRows(cur[w]),
             wpc' = [wpc EXCEPT ![w] = "permit"], UNCHANGED cur
      PROVE ExecutorMoves
  BY <1>5 DEF StartRows, RowsOK
<1>6. ASSUME NEW w \in Workers, NEW pc \in {"wait", "denied", "finish"}, wpc[w] \in Executing,
             wpc' = [wpc EXCEPT ![w] = pc], UNCHANGED cur
      PROVE ExecutorMoves
  BY <1>6
<1>7. ASSUME \A w \in Workers : wpc'[w] \in {"dead", "idle"} PROVE ExecutorMoves
  BY <1>7
<1>8. CASE UNCHANGED <<wpc, cur>>
  BY <1>8
<1>9. ASSUME NEW w \in Workers, WorkerStep(w) \/ WorkerFault(w) PROVE ExecutorMoves
  BY <1>9, <1>2, <1>3, <1>4, <1>5, <1>6
  DEF WorkerStep, WorkerFault, Claim, Permit, PermitDenied, FailJob, Reap, Finish, WorkerCancelled
<1> QED
  BY <1>1, <1>7, <1>8, <1>9
  DEF Next, vars, workerVars, Send, WakeChain, TickWake, ProcessEnds,
      RunnerUnchanged, RunnerOwnStep, RunnerOpen, RunnerStart, RunnerUnavailable, RunnerFinalize,
      RunnerCancelled, RunnerExit, RunnerStreamEnd, RunnerError, RunnerFault, StopStep, StopWrite, StopCancel,
      StopRead, BeginShutdown, FinishShutdown, Crash, RecoverMessages, Start

\* No job returns to waiting or disappears, and only a request makes one wait.
JobMoves ==
  \A j \in Jobs :
    /\ job'[j] = "none" => job[j] = "none"
    /\ job'[j] \in {"none", "queued"} => job[j] \in {"none", "queued"}
    /\ job[j] = "none" => job'[j] = "none" \/ \E c \in Chains : Send(c)

LEMMA JobStep == Inv /\ [Next]_vars => JobMoves
<1> SUFFICES ASSUME Inv, [Next]_vars PROVE JobMoves
  OBVIOUS
<1> USE DEF Inv, TypeOK, RowsOK, JobMoves
<1>1. ASSUME NEW c \in Chains, Send(c) PROVE JobMoves
  BY <1>1 DEF Send, Unsent
<1>2. ASSUME NEW w \in Workers, Claim(w) PROVE JobMoves
  BY <1>2 DEF Claim, CancelOrphan, RejectRows, StartRows, dbVars
<1>3. ASSUME NEW w \in Workers, FailJob(w) PROVE JobMoves
  BY <1>3 DEF FailJob, FailRows, FailAnyway, dbVars
<1>4. ASSUME NEW w \in Workers, Finish(w) PROVE JobMoves
  <2>1. cur[w] \in Jobs /\ job[cur[w]] \notin {"none", "queued"}
    BY <1>4 DEF Finish, Fresh, Executing, WorkersOK
  <2>2. FinishedJob(FinishedGen(cur[w])) \notin {"none", "queued"}
    BY DEF FinishedJob, FinishedGen, GenEnd
  <2> QED
    BY <1>4, <2>1, <2>2 DEF Finish
<1>5. ASSUME NEW s \in Stoppers, StopWrite(s) PROVE JobMoves
  BY <1>5 DEF StopWrite, JobAfterStop
<1>6. CASE FinishShutdown
  BY <1>6 DEF FinishShutdown
<1>7. CASE Start
  BY <1>7 DEF Start
<1>8. CASE UNCHANGED job
  BY <1>8
<1> QED
  BY <1>1, <1>2, <1>3, <1>4, <1>5, <1>6, <1>7, <1>8
  DEF Next, vars, dbVars, WakeChain, TickWake, WorkerStep, Take, Permit, PermitDenied, Reap, WorkerCancelled,
      WorkerFault, RunnerOwnStep, RunnerOpen, RunnerStart, RunnerUnavailable, RunnerFinalize, RunnerCancelled,
      RunnerExit, RunnerStreamEnd, RunnerError, RunnerFault, StopStep, StopCancel, StopRead, BeginShutdown, Crash,
      RecoverMessages

LEMMA SentStep ==
  TypeOK /\ [Next]_vars => \A c \in Chains : sent'[c] = "no" => sent[c] = "no" /\ ~Send(c)
BY DEF TypeOK, ProcessOK, Next, vars, Send, WakeChain, TickWake, WorkerStep, Take, Claim, Permit, PermitDenied,
       FailJob, Reap, Finish, WorkerCancelled, WorkerFault, RunnerUnchanged, RunnerOwnStep, RunnerOpen, RunnerStart,
       RunnerUnavailable, RunnerFinalize, RunnerCancelled, RunnerExit, RunnerStreamEnd, RunnerError, RunnerFault,
       StopStep, StopWrite, StopCancel, StopRead, BeginShutdown, FinishShutdown, Crash, RecoverMessages, Start

LEMMA InvStep == Inv /\ [Next]_vars => Inv'
<1> SUFFICES ASSUME Inv, [Next]_vars PROVE Inv'
  OBVIOUS
<1>1. TypeOK'
  BY RowsStep, LanesStep, WorkersStep, RunnersStep, StopsStep, ProcessStep DEF TypeOK, Inv
<1>2. RunnerMoves /\ ExecutorMoves /\ JobMoves
  BY RunnerStep, ExecutorStep, JobStep DEF Inv
<1>3. Unsent'
  <2> SUFFICES ASSUME NEW c \in Chains, sent'[c] = "no", NEW j \in JobsOf(c) PROVE job'[j] = "none"
    BY DEF Unsent
  <2>1. sent[c] = "no" /\ ~Send(c) /\ job[j] = "none" /\ j \in Jobs
    BY SentStep, ChainFacts DEF Inv, Unsent
  <2>2. ASSUME NEW d \in Chains, Send(d) PROVE job'[j] = "none"
    BY <2>1, <2>2, ChainFacts DEF Send
  <2> QED
    BY <2>1, <2>2, <1>2 DEF JobMoves
<1>4. Fresh'
  <2> SUFFICES ASSUME NEW j \in Jobs, job'[j] \in {"none", "queued"}
               PROVE  /\ replies'[j] = 0 /\ rpc'[j] = "none"
                      /\ \A w \in Workers : cur'[w] = j => wpc'[w] \notin Executing
    BY DEF Fresh
  <2>1. job[j] \in {"none", "queued"}
    BY <1>2 DEF JobMoves
  <2>2. /\ replies[j] = 0 /\ rpc[j] = "none"
        /\ \A w \in Workers : cur[w] = j => wpc[w] \notin Executing
    BY <2>1 DEF Inv, Fresh
  <2>3. replies'[j] = 0 /\ rpc'[j] = "none"
    BY <2>2, <1>2 DEF RunnerMoves, Executing
  <2>4. ASSUME NEW w \in Workers, cur'[w] = j PROVE wpc'[w] \notin Executing
    BY <2>2, <2>4, <1>2 DEF ExecutorMoves
  <2> QED
    BY <2>3, <2>4
<1>5. Launchable'
  <2> SUFFICES ASSUME NEW w \in Workers, wpc'[w] = "permit"
               PROVE  replies'[cur'[w]] = 0 /\ rpc'[cur'[w]] = "none"
    BY DEF Launchable
  <2>1. cur'[w] = cur[w] /\ cur[w] \in Jobs
    BY <1>1, <1>2 DEF ExecutorMoves, Executing, TypeOK, WorkersOK
  <2>2. replies[cur[w]] = 0 /\ rpc[cur[w]] = "none"
    BY <1>2, <2>1 DEF ExecutorMoves, Executing, Inv, Launchable, Fresh
  <2>3. ASSUME NEW v \in Workers, wpc[v] = "permit", wpc'[v] = "wait", cur[v] = cur[w] PROVE FALSE
    BY <1>2, <2>1, <2>3 DEF ExecutorMoves, Executing, Inv, OneExecutor, Fresh
  <2> QED
    BY <1>2, <2>1, <2>2, <2>3 DEF RunnerMoves
<1>6. OneExecutor'
  <2> SUFFICES ASSUME NEW v \in Workers, NEW w \in Workers, wpc'[v] \in Executing, wpc'[w] \in Executing,
                      cur'[v] = cur'[w]
               PROVE  v = w
    BY DEF OneExecutor
  <2>1. cur[v] = cur[w] /\ cur[v] \in Jobs
    BY <1>1, <1>2 DEF ExecutorMoves, Executing, TypeOK, WorkersOK
  <2> QED
    BY <1>2, <2>1 DEF ExecutorMoves, Executing, Inv, OneExecutor, Fresh
<1>7. Young'
  BY <1>1, <1>2 DEF Young, RunnerMoves, Inv, Launchable
<1>8. OneReplyPerJob'
  BY <1>1, <1>2 DEF OneReplyPerJob, RunnerMoves, Inv, Young, TypeOK, RowsOK
<1> QED
  BY <1>1, <1>3, <1>4, <1>5, <1>6, <1>7, <1>8 DEF Inv

LEMMA InvInit == Init => Inv
BY TypeInit, ChainFacts DEF Init, EmptyProcess, Inv, Unsent, Fresh, Launchable, OneExecutor, Young, OneReplyPerJob,
   Executing

\* Whatever wakes a job again, and however often the process restarts, the job
\* gets at most one reply message: waiting jobs were never run (Fresh), claims
\* are exclusive (OneExecutor), and a runner starts its reply only once (Young).
THEOREM OneReply == Spec => []OneReplyPerJob
<1>1. Inv => OneReplyPerJob
  BY DEF Inv
<1> QED
  BY InvInit, InvStep, <1>1, PTL DEF Spec

-----------------------------------------------------------------------------
\* Where a job is worked on

Items(q) == {q[p] : p \in DOMAIN q}
Plain(q) == \A p, r \in DOMAIN q : q[p] = q[r] => p = r

LEMMA TailItems ==
  ASSUME NEW S, NEW q \in Seq(S), q # <<>>
  PROVE  /\ Head(q) \in Items(q) /\ Items(Tail(q)) \subseteq Items(q)
         /\ Plain(q) => Plain(Tail(q)) /\ Head(q) \notin Items(Tail(q))
<1>1. 1 \in DOMAIN q /\ Head(q) = q[1]
  OBVIOUS
<1>2. \A p \in DOMAIN Tail(q) : p \in Nat \ {0} /\ p + 1 \in DOMAIN q /\ Tail(q)[p] = q[p + 1]
  OBVIOUS
<1>3. Items(Tail(q)) \subseteq Items(q)
  BY <1>2 DEF Items
<1>4. ASSUME Plain(q) PROVE Plain(Tail(q)) /\ Head(q) \notin Items(Tail(q))
  <2>1. \A p, r \in DOMAIN Tail(q) : Tail(q)[p] = Tail(q)[r] => p + 1 = r + 1
    BY <1>2, <1>4 DEF Plain
  <2>2. Plain(Tail(q))
    BY <1>2, <2>1 DEF Plain
  <2>3. \A p \in DOMAIN Tail(q) : Tail(q)[p] # q[1]
    <3> SUFFICES ASSUME NEW p \in DOMAIN Tail(q), Tail(q)[p] = q[1] PROVE FALSE
      OBVIOUS
    <3>1. p + 1 = 1
      BY <1>1, <1>2, <1>4 DEF Plain
    <3> QED
      BY <1>2, <3>1
  <2> QED
    BY <1>1, <2>2, <2>3 DEF Items
<1> QED
  BY <1>1, <1>3, <1>4 DEF Items

LEMMA AppendItems ==
  ASSUME NEW S, NEW q \in Seq(S), NEW r \in Seq(S)
  PROVE  Items(q \o r) \subseteq Items(q) \cup Items(r)
<1>1. \A p \in DOMAIN (q \o r) :
        \/ p \in DOMAIN q /\ (q \o r)[p] = q[p]
        \/ p - Len(q) \in DOMAIN r /\ (q \o r)[p] = r[p - Len(q)]
  OBVIOUS
<1> QED
  BY <1>1 DEF Items

LEMMA AppendPlain ==
  ASSUME NEW S, NEW q \in Seq(S), NEW j \in S, Plain(q), j \notin Items(q)
  PROVE  Plain(q \o <<j>>) /\ Items(q \o <<j>>) = Items(q) \cup {j}
<1> DEFINE n == Len(q) + 1
<1>1. n \in Nat /\ DOMAIN (q \o <<j>>) = DOMAIN q \cup {n} /\ n \notin DOMAIN q
  OBVIOUS
<1>2. (q \o <<j>>)[n] = j /\ \A p \in DOMAIN q : (q \o <<j>>)[p] = q[p]
  OBVIOUS
<1> HIDE DEF n
<1> QED
  BY <1>1, <1>2 DEF Plain, Items

LEMMA EmptyItems == Items(<<>>) = {} /\ Plain(<<>>)
BY DEF Items, Plain

\* The jobs of the chains that are woken through a lane.
Named(l) == {j \in Jobs : \E c \in Chains : LaneOf[c] = l /\ j \in JobsOf(c)}
Busy(w) == wpc[w] \notin {"dead", "idle"}

\* A wake-up stays in the lane of its chain; an idle worker has no job.
Places ==
  /\ \A l \in Lanes : Items(queue[l]) \subseteq Named(l)
  /\ \A w \in Workers : IF Busy(w) THEN cur[w] \in Named(Inbox(w)) ELSE cur[w] = NoJob

\* Of a shared job there is one wake-up, in the queue or in a slot's hands, and
\* _parallel_pending remembers it for as long.
OneWakeUp ==
  /\ Plain(queue[Shared]) /\ Items(queue[Shared]) \subseteq pending
  /\ \A w \in Slots : Busy(w) => cur[w] \in pending /\ cur[w] \notin Items(queue[Shared])

\* No job is in the hands of two workers, not even after its claim is gone.
OneHolder == \A v, w \in Workers : Busy(v) /\ Busy(w) /\ cur[v] = cur[w] => v = w

\* Without a scheduler no worker lives.
Down == phase \in {"down", "recovered"} => \A w \in Workers : wpc[w] = "dead"

Held == Places /\ OneWakeUp /\ OneHolder /\ Down

LEMMA LaneFacts ==
  /\ \A l, m \in Lanes : \A j : j \in Named(l) /\ j \in Named(m) => l = m
  /\ \A w \in Workers : Inbox(w) = Shared <=> w \in Slots
  /\ \A v, w \in Workers : Inbox(v) = Inbox(w) /\ v \notin Slots => v = w
  /\ \A c \in Chains : JobsOf(c) \subseteq Named(LaneOf[c])
<1>1. \A c, d \in Chains : \A j \in JobsOf(c) : j \in JobsOf(d) => c = d
  BY ChainFacts
<1>2. \A l, m \in Lanes : \A j : j \in Named(l) /\ j \in Named(m) => l = m
  BY <1>1 DEF Named
<1>3. \A c \in Chains : JobsOf(c) \subseteq Named(LaneOf[c])
  BY ChainFacts DEF Named
<1> QED
  BY <1>2, <1>3 DEF Inbox, Workers, Conversations

\* What keeps the hands: only the position of one worker changes.
LEMMA StaysHeld ==
  ASSUME TypeOK, Held, NEW w \in Workers, Busy(w), NEW pc, pc \notin {"dead", "idle"},
         wpc' = [wpc EXCEPT ![w] = pc], UNCHANGED <<cur, queue, pending, phase>>
  PROVE  Held'
<1>1. \A v \in Workers : Busy(v)' <=> Busy(v)
  BY DEF TypeOK, WorkersOK, Busy
<1>2. Down'
  BY DEF Held, Down, Busy
<1> QED
  BY <1>1, <1>2 DEF Held, Places, OneWakeUp, OneHolder, Workers

\* What empties a hand.
LEMMA FreeHeld ==
  ASSUME TypeOK, Held, NEW w \in Workers, NEW pc \in {"dead", "idle"}, wpc[w] # "dead",
         wpc' = [wpc EXCEPT ![w] = pc], cur' = [cur EXCEPT ![w] = NoJob],
         pending' = IF w \in Slots THEN pending \ {cur[w]} ELSE pending,
         \/ UNCHANGED queue
         \/ w \notin Slots /\ queue' = [queue EXCEPT ![w] = <<>>],
         UNCHANGED phase
  PROVE  Held'
<1>1. \A v \in Workers : IF v = w THEN ~Busy(v)' /\ cur'[v] = NoJob ELSE (Busy(v)' <=> Busy(v)) /\ cur'[v] = cur[v]
  BY DEF TypeOK, WorkersOK, Busy
<1>2. queue'[Shared] = queue[Shared] /\ \A l \in Lanes : Items(queue'[l]) \subseteq Items(queue[l])
  BY EmptyItems, ChainsAssumption DEF TypeOK, LanesOK, Workers, Conversations
<1>3. Places'
  BY <1>1, <1>2 DEF Held, Places
<1>4. OneHolder'
  BY <1>1 DEF Held, OneHolder
<1>5. OneWakeUp'
  <2>1. CASE w \in Slots
    <3>1. \A v \in Slots : Busy(v)' => cur[v] # cur[w]
      BY <1>1, <2>1, ChainsAssumption DEF Held, OneHolder, Places, Named, Workers
    <3>2. cur[w] \notin Items(queue[Shared])
      BY <2>1, ChainsAssumption DEF Held, OneWakeUp, Places, Named, Workers
    <3> QED
      BY <1>1, <1>2, <2>1, <3>1, <3>2, ChainsAssumption DEF Held, OneWakeUp, Workers
  <2>2. CASE w \notin Slots
    BY <1>1, <1>2, <2>2 DEF Held, OneWakeUp, Workers
  <2> QED
    BY <2>1, <2>2
<1>6. Down'
  BY DEF Held, Down
<1> QED
  BY <1>3, <1>4, <1>5, <1>6 DEF Held

LEMMA TakeHeld ==
  ASSUME TypeOK, Held, NEW w \in Workers, Take(w)
  PROVE  Held'
<1> DEFINE l == Inbox(w)
           j == Head(queue[l])
<1>1. /\ l \in Lanes /\ queue[l] \in Seq(Jobs) /\ queue[l] # <<>>
      /\ queue' = [queue EXCEPT ![l] = Tail(queue[l])] /\ wpc[w] = "idle"
  BY ChainFacts DEF Take, TypeOK, LanesOK
<1>2. /\ j \in Items(queue[l]) /\ Items(queue'[l]) \subseteq Items(queue[l])
      /\ Plain(queue[l]) => Plain(queue'[l]) /\ j \notin Items(queue'[l])
  BY <1>1, TailItems DEF TypeOK, LanesOK
<1>3. \A m \in Lanes : Items(queue'[m]) \subseteq Items(queue[m])
  BY <1>1, <1>2 DEF TypeOK, LanesOK
<1>4. Plain(queue'[Shared]) /\ (w \in Slots => j \notin Items(queue'[Shared]))
      /\ (w \notin Slots => queue'[Shared] = queue[Shared])
  BY <1>1, <1>2, LaneFacts, ChainsAssumption DEF Held, OneWakeUp, TypeOK, LanesOK
<1>5. j \in Named(l) /\ j \in Jobs
  BY <1>1, <1>2 DEF Held, Places, Named
<1>6. \A v \in Workers : Busy(v) => cur[v] # j
  <2> SUFFICES ASSUME NEW v \in Workers, Busy(v), cur[v] = j PROVE FALSE
    OBVIOUS
  <2>1. Inbox(v) = l
    BY <1>1, <1>5, LaneFacts, ChainFacts DEF Held, Places
  <2>2. CASE v \in Slots
    BY <1>2, <2>1, <2>2, LaneFacts DEF Held, OneWakeUp
  <2>3. CASE v \notin Slots
    BY <1>1, <2>1, <2>3, LaneFacts DEF Busy
  <2> QED
    BY <2>2, <2>3
<1>9. Down'
  BY <1>1 DEF Held, Down, Take, phaseVars
<1>7. CASE j \in claims
  <2>1. /\ UNCHANGED <<wpc, cur>> /\ pending' = IF w \in Slots THEN pending \ {j} ELSE pending
    BY <1>7 DEF Take
  <2>2. \A v \in Workers : (Busy(v)' <=> Busy(v)) /\ cur'[v] = cur[v]
    BY <2>1 DEF Busy
  <2>3. Places' /\ OneHolder'
    BY <1>3, <2>1, <2>2 DEF Held, Places, OneHolder
  <2>4. Items(queue'[Shared]) \subseteq pending'
    BY <1>3, <1>4, <2>1, ChainsAssumption DEF Held, OneWakeUp
  <2>5. \A v \in Slots : Busy(v)' => cur'[v] \in pending' /\ cur'[v] \notin Items(queue'[Shared])
    BY <1>3, <1>6, <2>1, <2>2, ChainsAssumption DEF Held, OneWakeUp, Workers
  <2> QED
    BY <1>4, <1>9, <2>3, <2>4, <2>5 DEF Held, OneWakeUp
<1>8. CASE j \notin claims
  <2>1. /\ cur' = [cur EXCEPT ![w] = j] /\ wpc' = [wpc EXCEPT ![w] = "taken"] /\ UNCHANGED pending
    BY <1>8 DEF Take
  <2> HIDE DEF j
  <2>2. cur'[w] = j /\ Busy(w)' /\ \A v \in Workers \ {w} : (Busy(v)' <=> Busy(v)) /\ cur'[v] = cur[v]
    BY <2>1 DEF Busy, TypeOK, WorkersOK
  <2>3. Places'
    BY <1>3, <1>5, <2>2 DEF Held, Places
  <2>4. OneHolder'
    BY <1>6, <2>2 DEF Held, OneHolder
  <2>5. Items(queue'[Shared]) \subseteq pending'
    BY <1>3, <2>1, ChainsAssumption DEF Held, OneWakeUp
  <2>6. w \in Slots => j \in pending
    BY <1>2, LaneFacts DEF Held, OneWakeUp
  <2>7. \A v \in Slots : Busy(v)' => cur'[v] \in pending' /\ cur'[v] \notin Items(queue'[Shared])
    <3> SUFFICES ASSUME NEW v \in Slots, Busy(v)'
                 PROVE  cur'[v] \in pending' /\ cur'[v] \notin Items(queue'[Shared])
      OBVIOUS
    <3>1. v \in Workers /\ Shared \in Lanes
      BY ChainsAssumption DEF Workers
    <3>2. CASE v = w
      BY <1>4, <2>1, <2>2, <2>6, <3>2
    <3>3. CASE v # w
      BY <1>3, <2>1, <2>2, <3>1, <3>3 DEF Held, OneWakeUp
    <3> QED
      BY <3>2, <3>3
  <2> QED
    BY <1>4, <1>9, <2>3, <2>4, <2>5, <2>7 DEF Held, OneWakeUp
<1> QED
  BY <1>7, <1>8

LEMMA WakeHeld ==
  ASSUME TypeOK, Held, NEW c \in Chains, LaneOf[c] # Shared, NEW js \in Seq(Jobs),
         Items(js) \subseteq JobsOf(c), Enqueue(LaneOf[c], js), phase = "up", UNCHANGED <<pending, phase>>
  PROVE  Held'
<1> DEFINE l == LaneOf[c]
<1>1. l \in Lanes /\ queue[l] \in Seq(Jobs) /\ queue' = [queue EXCEPT ![l] = queue[l] \o js]
  BY ChainFacts DEF Enqueue, TypeOK, LanesOK
<1>2. Items(queue'[l]) \subseteq Items(queue[l]) \cup Items(js)
  BY <1>1, AppendItems DEF TypeOK, LanesOK
<1>3. \A m \in Lanes : Items(queue'[m]) \subseteq Named(m)
  BY <1>1, <1>2, LaneFacts DEF Held, Places, TypeOK, LanesOK
<1>4. queue'[Shared] = queue[Shared]
  BY <1>1, ChainsAssumption DEF TypeOK, LanesOK
<1>5. \A w \in Workers : (Busy(w)' <=> Busy(w)) /\ cur'[w] = cur[w]
  BY DEF Enqueue, Busy
<1> QED
  BY <1>3, <1>4, <1>5 DEF Held, Places, OneWakeUp, OneHolder, Down, Workers

LEMMA TickHeld ==
  ASSUME TypeOK, Held, NEW c \in Ticked, NEW j \in JobsOf(c), TickWake(c, j)
  PROVE  Held'
<1>0. phase' = "up"
  BY DEF TickWake, phaseVars
<1>1. c \in Chains /\ j \in Jobs /\ <<j>> \in Seq(Jobs) /\ Items(<<j>>) = {j}
  BY ChainFacts, ChainsAssumption DEF Items
<1>2. CASE LaneOf[c] # Shared
  BY <1>1, <1>2, WakeHeld DEF TickWake, phaseVars
<1>3. CASE LaneOf[c] = Shared
  <2>1. /\ queue' = [queue EXCEPT ![Shared] = IF j \in pending THEN @ ELSE @ \o <<j>>]
        /\ pending' = pending \cup {j} /\ UNCHANGED <<wpc, cur>>
    BY <1>3 DEF TickWake, workerVars
  <2>2. \A w \in Workers : (Busy(w)' <=> Busy(w)) /\ cur'[w] = cur[w]
    BY <2>1 DEF Busy
  <2>3. queue[Shared] \in Seq(Jobs) /\ Shared \in Lanes
    BY ChainsAssumption DEF TypeOK, LanesOK
  <2>6. Down'
    BY <1>0 DEF Down
  <2>4. CASE j \in pending
    <3>1. queue' = queue /\ pending' = pending
      BY <2>1, <2>3, <2>4 DEF TypeOK, LanesOK
    <3> QED
      BY <2>2, <2>6, <3>1 DEF Held, Places, OneWakeUp, OneHolder, Workers
  <2>5. CASE j \notin pending
    <3>1. j \notin Items(queue[Shared])
      BY <2>5 DEF Held, OneWakeUp
    <3>2. queue' = [queue EXCEPT ![Shared] = queue[Shared] \o <<j>>]
      BY <2>1, <2>5
    <3>3. Plain(queue'[Shared]) /\ Items(queue'[Shared]) = Items(queue[Shared]) \cup {j}
      BY <1>1, <2>3, <3>1, <3>2, AppendPlain DEF Held, OneWakeUp, TypeOK, LanesOK
    <3>4. \A m \in Lanes : Items(queue'[m]) \subseteq Named(m)
      BY <1>1, <1>3, <2>3, <3>2, <3>3, LaneFacts DEF Held, Places, TypeOK, LanesOK
    <3>5. \A w \in Slots : Busy(w)' => cur'[w] \in pending' /\ cur'[w] \notin Items(queue'[Shared])
      BY <2>1, <2>2, <2>5, <3>3 DEF Held, OneWakeUp, Workers
    <3> QED
      BY <2>1, <2>2, <2>6, <3>3, <3>4, <3>5 DEF Held, Places, OneWakeUp, OneHolder
  <2> QED
    BY <2>4, <2>5
<1> QED
  BY <1>2, <1>3

LEMMA HeldStep == TypeOK /\ Held /\ [Next]_vars => Held'
<1> SUFFICES ASSUME TypeOK, Held, [Next]_vars PROVE Held'
  OBVIOUS
<1>1. ASSUME NEW c \in Chains, WakeChain(c) PROVE Held'
  <2>1. LaneOf[c] # Shared /\ ChainJobs[c] \in Seq(Jobs)
    BY <1>1, ChainsAssumption DEF WakeChain
  <2>2. Items(ChainJobs[c]) \subseteq JobsOf(c)
    BY DEF Items, JobsOf
  <2>3. Enqueue(LaneOf[c], ChainJobs[c]) /\ phase = "up" /\ UNCHANGED <<pending, phase>>
    BY <1>1 DEF WakeChain, phaseVars
  <2> QED
    BY <2>1, <2>2, <2>3, WakeHeld
<1>2. ASSUME NEW w \in Workers, NEW pc, Busy(w), pc \notin {"dead", "idle"}, wpc' = [wpc EXCEPT ![w] = pc],
             UNCHANGED <<cur, queue, pending, phase>>
      PROVE  Held'
  BY <1>2, StaysHeld
<1>3. ASSUME NEW w \in Workers, wpc[w] # "dead", Leave(w, "idle"), UNCHANGED <<queue, phase>> PROVE Held'
  BY <1>3, FreeHeld DEF Leave
<1>4. ASSUME NEW w \in Workers, Busy(w), Leave(w, "failing"), UNCHANGED <<queue, phase>> PROVE Held'
  BY <1>4, <1>2 DEF Leave
<1>5. ASSUME NEW w \in Workers, wpc[w] # "dead", Die(w), UNCHANGED phase PROVE Held'
  BY <1>5, FreeHeld DEF Die
<1>6. ASSUME NEW w \in Workers, WorkerStep(w) \/ WorkerFault(w) PROVE Held'
  <2>1. CASE Take(w)
    BY <2>1, TakeHeld
  <2>2. CASE Claim(w)
    BY <2>2, <1>2, <1>3 DEF Claim, phaseVars, Busy
  <2>3. CASE Permit(w) \/ PermitDenied(w)
    BY <2>3, <1>2 DEF Permit, PermitDenied, phaseVars, laneVars, Busy
  <2>4. CASE FailJob(w) \/ Finish(w)
    BY <2>4, <1>3 DEF FailJob, Finish, phaseVars
  <2>5. CASE Reap(w)
    BY <2>5, <1>2, <1>4, <1>5 DEF Reap, phaseVars, Busy
  <2>6. CASE WorkerCancelled(w)
    BY <2>6, <1>5 DEF WorkerCancelled, phaseVars
  <2>7. CASE WorkerFault(w)
    BY <2>7, <1>4, <1>5 DEF WorkerFault, phaseVars, Busy
  <2> QED
    BY <1>6, <2>1, <2>2, <2>3, <2>4, <2>5, <2>6, <2>7 DEF WorkerStep
<1>7. ASSUME ProcessEnds PROVE Held'
  <2>1. \A w \in Workers : ~Busy(w)' /\ cur'[w] = NoJob /\ wpc'[w] = "dead"
    BY <1>7 DEF ProcessEnds, Busy
  <2>2. \A l \in Lanes : queue'[l] = <<>>
    BY <1>7 DEF ProcessEnds
  <2> QED
    BY <2>1, <2>2, EmptyItems, ChainsAssumption DEF Held, Places, OneWakeUp, OneHolder, Down, Workers
<1>8. CASE Start
  <2>1. \A w \in Workers : ~Busy(w)' /\ ~Busy(w) /\ cur'[w] = cur[w]
    BY <1>8 DEF Start, Held, Down, Busy
  <2>2. UNCHANGED <<queue, pending>> /\ phase' = "up"
    BY <1>8 DEF Start, laneVars
  <2> QED
    BY <2>1, <2>2 DEF Held, Places, OneWakeUp, OneHolder, Down, Workers
<1>9. ASSUME UNCHANGED <<wpc, cur, queue, pending>>, phase' \in {"down", "recovered"} => phase \in {"down", "recovered"}
      PROVE  Held'
  BY <1>9 DEF Held, Places, OneWakeUp, OneHolder, Down, Busy, Workers
<1>10. ASSUME NEW c \in Ticked, NEW j \in JobsOf(c), TickWake(c, j) PROVE Held'
  BY <1>10, TickHeld
<1>11. ASSUME NEW j \in Jobs, \/ RunnerOwnStep(j) \/ RunnerStreamEnd(j)
                              \/ RunnerError(j) \/ RunnerFault(j)
       PROVE  Held'
  BY <1>9, <1>11
  DEF RunnerUnchanged, laneVars, workerVars, phaseVars, RunnerOwnStep, RunnerOpen, RunnerStart, RunnerUnavailable,
      RunnerFinalize, RunnerCancelled, RunnerExit, RunnerStreamEnd, RunnerError, RunnerFault
<1>12. ASSUME NEW s \in Stoppers, StopStep(s) \/ \E T \in StopTargets : StopRead(s, T) PROVE Held'
  BY <1>9, <1>12 DEF laneVars, workerVars, phaseVars, StopStep, StopWrite, StopCancel, StopRead
<1>13. CASE BeginShutdown \/ RecoverMessages \/ (\E c \in Chains : Send(c)) \/ UNCHANGED vars
  BY <1>9, <1>13 DEF laneVars, workerVars, phaseVars, vars, BeginShutdown, RecoverMessages, Send
<1>14. CASE FinishShutdown \/ Crash
  BY <1>7, <1>14 DEF FinishShutdown, Crash
<1> QED
  BY <1>1, <1>6, <1>8, <1>10, <1>11, <1>12, <1>13, <1>14 DEF Next

-----------------------------------------------------------------------------
\* The three status tables

\* What the rows of a job are, by the status of the job.
RowsTogether ==
  \A j \in Jobs :
    /\ job[j] = "none" => gen[j] = "none" /\ exec[j] = "none"
    /\ job[j] = "queued" => gen[j] = "queued" /\ exec[j] = "queued"
    /\ job[j] = "running" => /\ gen[j] # "none" /\ exec[j] \in {"running"} \cup ExecEnd
                             /\ exec[j] \in ExecEnd => gen[j] \in GenEnd
    /\ job[j] \in JobEnd => gen[j] \in GenEnd /\ exec[j] \in ExecEnd

\* A runner has a worker that waits for it, and what a worker executes runs.
RunnerHeld == \A j \in Jobs : rpc[j] # "none" => \E w \in Workers : wpc[w] = "wait" /\ cur[w] = j
HeldRunning == \A w \in Workers : wpc[w] \in Executing => job[cur[w]] = "running" /\ exec[cur[w]] = "running"

\* What a stop request read is still true of the job when it writes.
SeenStands ==
  \A s \in Stoppers :
    /\ \A j \in seenQueued[s] : job[j] # "none"
    /\ \A j \in seenRunning[s] : job[j] \notin {"none", "queued"}

Together == RowsTogether /\ RunnerHeld /\ HeldRunning /\ SeenStands

IInv == Inv /\ Held /\ Together

LEMMA RunnerRuns ==
  ASSUME IInv, NEW j \in Jobs, rpc[j] # "none"
  PROVE  job[j] = "running" /\ exec[j] = "running"
BY DEF IInv, Together, RunnerHeld, HeldRunning, Executing

LEMMA TogetherStep == IInv /\ [Next]_vars => RowsTogether'
<1> SUFFICES ASSUME IInv, [Next]_vars PROVE RowsTogether'
  OBVIOUS
<1> USE DEF RowsTogether, JobEnd, GenEnd, ExecEnd
<1>0. /\ RowsTogether /\ RowsOK /\ SeenStands /\ \A w \in Workers : wpc[w] \notin {"dead", "idle"} => cur[w] \in Jobs
  BY DEF IInv, Inv, TypeOK, WorkersOK, Together
<1> USE DEF RowsOK
<1>1. ASSUME NEW c \in Chains, Send(c) PROVE RowsTogether'
  BY <1>0, <1>1 DEF Send
<1>2. ASSUME NEW w \in Workers, Claim(w) PROVE RowsTogether'
  <2>0. cur[w] \in Jobs
    BY <1>0, <1>2 DEF Claim
  <2>1. CASE UNCHANGED dbVars
    BY <1>0, <2>1 DEF dbVars
  <2>2. CASE job[cur[w]] = "queued" /\ RejectRows(cur[w])
    BY <1>0, <2>0, <2>2 DEF RejectRows
  <2>3. CASE job[cur[w]] = "queued" /\ StartRows(cur[w])
    BY <1>0, <2>0, <2>3 DEF StartRows
  <2> QED
    BY <1>0, <1>2, <2>0, <2>1, <2>2, <2>3 DEF Claim
<1>3. ASSUME NEW w \in Workers, FailJob(w) PROVE RowsTogether'
  <2>0. cur[w] \in Jobs
    BY <1>0, <1>3 DEF FailJob
  <2>1. CASE UNCHANGED dbVars
    BY <1>0, <2>1 DEF dbVars
  <2>2. CASE job[cur[w]] \in {"queued", "running"} /\ FailAnyway(cur[w])
    <3>1. \A j \in Jobs \ {cur[w]} : job'[j] = job[j] /\ gen'[j] = gen[j] /\ exec'[j] = exec[j]
      BY <1>0, <2>0, <2>2 DEF FailAnyway
    <3>2. /\ job'[cur[w]] = "failed"
          /\ gen'[cur[w]] = IF gen[cur[w]] \in {"queued", "running"} THEN "failed" ELSE gen[cur[w]]
          /\ exec'[cur[w]] = IF exec[cur[w]] \in {"queued", "running"} THEN "failed" ELSE exec[cur[w]]
      BY <1>0, <2>0, <2>2 DEF FailAnyway
    <3>3. gen'[cur[w]] \in GenEnd /\ exec'[cur[w]] \in ExecEnd
      BY <1>0, <2>0, <2>2, <3>2 DEF GenStatus
    <3> QED
      BY <1>0, <2>0, <3>1, <3>2, <3>3
  <2> QED
    BY <1>3, <2>1, <2>2 DEF FailJob, FailRows
<1>4. ASSUME NEW w \in Workers, Finish(w) PROVE RowsTogether'
  <2>0. cur[w] \in Jobs
    BY <1>0, <1>4 DEF Finish
  <2> QED
    BY <1>0, <1>4, <2>0 DEF Finish, FinishedGen, FinishedJob
<1>5. ASSUME NEW j \in Jobs, RunnerStart(j) PROVE RowsTogether'
  <2>1. job[j] = "running" /\ exec[j] = "running"
    BY <1>5, RunnerRuns DEF RunnerStart
  <2> QED
    BY <1>0, <1>5, <2>1 DEF RunnerStart
<1>6. ASSUME NEW j \in Jobs, RunnerFinalize(j) PROVE RowsTogether'
  <2>1. job[j] = "running" /\ exec[j] = "running"
    BY <1>6, RunnerRuns DEF RunnerFinalize
  <2>2. outcome[j] \in GenEnd
    BY DEF IInv, Inv, TypeOK, RunnersOK
  <2> QED
    BY <1>0, <1>6, <2>1, <2>2 DEF RunnerFinalize
<1>7. ASSUME NEW s \in Stoppers, StopWrite(s) PROVE RowsTogether'
  <2>1. /\ \A j \in seenQueued[s] : job[j] # "none"
        /\ \A j \in seenRunning[s] : job[j] \notin {"none", "queued"}
    BY <1>0 DEF SeenStands
  <2> QED
    BY <1>0, <1>7, <2>1 DEF StopWrite, JobAfterStop
<1>8. CASE FinishShutdown
  BY <1>0, <1>8 DEF FinishShutdown
<1>9. CASE Start
  <2> SUFFICES ASSUME NEW j \in Jobs
               PROVE  /\ job'[j] = "none" => gen'[j] = "none" /\ exec'[j] = "none"
                      /\ job'[j] = "queued" => gen'[j] = "queued" /\ exec'[j] = "queued"
                      /\ job'[j] = "running" => /\ gen'[j] # "none" /\ exec'[j] \in {"running"} \cup ExecEnd
                                                /\ exec'[j] \in ExecEnd => gen'[j] \in GenEnd
                      /\ job'[j] \in JobEnd => gen'[j] \in GenEnd /\ exec'[j] \in ExecEnd
    OBVIOUS
  <2>1. exec'[j] = IF exec[j] \in {"queued", "running"} THEN "interrupted" ELSE exec[j]
    BY <1>9 DEF Start
  <2>2. CASE gen[j] \in {"queued", "running"}
    <3>1. gen'[j] = "stopped" /\ job'[j] = IF job[j] \in {"queued", "running"} THEN "cancelled" ELSE job[j]
      BY <1>9, <2>2 DEF Start
    <3> QED
      BY <1>0, <2>1, <2>2, <3>1 DEF JobStatus
  <2>3. CASE gen[j] \notin {"queued", "running"}
    <3>1. gen'[j] = gen[j] /\ job'[j] = job[j]
      BY <1>9, <2>3 DEF Start
    <3> QED
      BY <1>0, <2>1, <2>3, <3>1 DEF GenStatus
  <2> QED
    BY <2>2, <2>3
<1>10. CASE UNCHANGED <<job, gen, exec>>
  BY <1>0, <1>10
<1> QED
  BY <1>1, <1>2, <1>3, <1>4, <1>5, <1>6, <1>7, <1>8, <1>9, <1>10
  DEF Next, vars, dbVars, WakeChain, TickWake, WorkerStep, Take, Permit, PermitDenied, Reap, WorkerCancelled,
      WorkerFault, RunnerOwnStep, RunnerOpen, RunnerUnavailable, RunnerCancelled,
      RunnerExit, RunnerStreamEnd, RunnerError, RunnerFault, StopStep, StopCancel, StopRead, BeginShutdown, Crash,
      RecoverMessages

LEMMA HolderStep == IInv /\ [Next]_vars => RunnerHeld'
<1> SUFFICES ASSUME IInv, [Next]_vars PROVE RunnerHeld'
  OBVIOUS
<1>0. RunnerHeld /\ RunnersOK /\ WorkersOK
  BY DEF IInv, Inv, TypeOK, Together
<1> USE DEF RunnerHeld, RunnersOK, WorkersOK
<1>1. ASSUME NEW w \in Workers, Permit(w) PROVE RunnerHeld'
  BY <1>0, <1>1 DEF Permit
<1>2. ASSUME NEW w \in Workers, wpc[w] = "wait", ForgetRunner(cur[w]),
             \A v \in Workers \ {w} : wpc'[v] = wpc[v] /\ cur'[v] = cur[v]
      PROVE  RunnerHeld'
  BY <1>0, <1>2 DEF ForgetRunner
<1>3. ASSUME \A j \in Jobs : rpc'[j] # "none" => rpc[j] # "none",
             \A v \in Workers : wpc[v] = "wait" => wpc'[v] = "wait" /\ cur'[v] = cur[v]
      PROVE  RunnerHeld'
  BY <1>0, <1>3
<1>4. ASSUME NEW w \in Workers, NEW pc, Leave(w, pc)
      PROVE \A v \in Workers \ {w} : wpc'[v] = wpc[v] /\ cur'[v] = cur[v]
  BY <1>0, <1>4 DEF Leave
<1>5. ASSUME NEW w \in Workers, Die(w)
      PROVE \A v \in Workers \ {w} : wpc'[v] = wpc[v] /\ cur'[v] = cur[v]
  BY <1>0, <1>5 DEF Die
<1>6. ASSUME NEW w \in Workers, Take(w) \/ Claim(w) \/ PermitDenied(w) \/ FailJob(w) \/ Finish(w)
      PROVE  RunnerHeld'
  <2>1. UNCHANGED rpc /\ wpc[w] # "wait"
    BY <1>6 DEF Take, Claim, PermitDenied, FailJob, Finish, runnerVars
  <2>2. \A v \in Workers \ {w} : wpc'[v] = wpc[v] /\ cur'[v] = cur[v]
    BY <1>0, <1>4, <1>6 DEF Take, Claim, PermitDenied, FailJob, Finish
  <2> QED
    BY <1>3, <2>1, <2>2
<1>7. ASSUME NEW w \in Workers, Reap(w) PROVE RunnerHeld'
  <2>1. \A v \in Workers \ {w} : wpc'[v] = wpc[v] /\ cur'[v] = cur[v]
    BY <1>0, <1>4, <1>5, <1>7 DEF Reap
  <2> QED
    BY <1>2, <1>7, <2>1 DEF Reap
<1>8. ASSUME NEW w \in Workers, WorkerCancelled(w) PROVE RunnerHeld'
  <2>1. \A v \in Workers \ {w} : wpc'[v] = wpc[v] /\ cur'[v] = cur[v]
    BY <1>5, <1>8 DEF WorkerCancelled
  <2> QED
    BY <1>2, <1>3, <1>8, <2>1 DEF WorkerCancelled, runnerVars
<1>9. ASSUME NEW w \in Workers, WorkerFault(w) PROVE RunnerHeld'
  <2>1. \A v \in Workers \ {w} : wpc'[v] = wpc[v] /\ cur'[v] = cur[v]
    BY <1>4, <1>5, <1>9 DEF WorkerFault
  <2>2. UNCHANGED rpc /\ wpc[w] # "wait"
    BY <1>9 DEF WorkerFault, runnerVars
  <2> QED
    BY <1>3, <2>1, <2>2
<1>10. ASSUME NEW l, NEW js, Enqueue(l, js), UNCHANGED rpc PROVE RunnerHeld'
  BY <1>0, <1>10 DEF Enqueue
<1>11. ASSUME ProcessEnds PROVE RunnerHeld'
  BY <1>11 DEF ProcessEnds
<1>12. CASE Start
  <2>1. \A j \in Jobs : rpc[j] = "none"
    BY <1>0, <1>12 DEF Start, IInv, Held, Down
  <2> QED
    BY <1>12, <2>1 DEF Start, runnerVars
<1>13. ASSUME NEW j \in Jobs, \/ RunnerOwnStep(j) \/ RunnerStreamEnd(j) \/ RunnerError(j) \/ RunnerFault(j)
       PROVE  RunnerHeld'
  <2>1. UNCHANGED <<wpc, cur>>
    BY <1>13 DEF RunnerUnchanged, workerVars, RunnerOwnStep, RunnerOpen, RunnerStart, RunnerUnavailable,
                 RunnerFinalize, RunnerCancelled, RunnerExit, RunnerStreamEnd, RunnerError, RunnerFault
  <2>2. rpc[j] # "none" /\ rpc' = [rpc EXCEPT ![j] = rpc'[j]]
    <3>1. CASE RunnerOwnStep(j)
      BY <1>0, <3>1 DEF RunnerOwnStep, RunnerOpen, RunnerStart, RunnerUnavailable, RunnerLive, RunnerFinalize,
                        RunnerCancelled, RunnerExit
    <3>2. CASE RunnerStreamEnd(j) \/ RunnerError(j) \/ RunnerFault(j)
      BY <1>0, <3>2 DEF RunnerStreamEnd, RunnerError, RunnerFault
    <3> QED
      BY <1>13, <3>1, <3>2
  <2> QED
    BY <1>0, <1>3, <2>1, <2>2
<1>14. CASE UNCHANGED <<rpc, wpc, cur>>
  BY <1>3, <1>14
<1> QED
  BY <1>1, <1>6, <1>7, <1>8, <1>9, <1>10, <1>11, <1>12, <1>13, <1>14
  DEF Next, vars, runnerVars, workerVars, Send, WakeChain, TickWake, WorkerStep,
      StopStep, StopWrite, StopCancel, StopRead, BeginShutdown, FinishShutdown, Crash, RecoverMessages

LEMMA RunningStep == IInv /\ [Next]_vars => HeldRunning'
<1> SUFFICES ASSUME IInv, [Next]_vars PROVE HeldRunning'
  OBVIOUS
<1>0. HeldRunning /\ RowsOK /\ WorkersOK /\ ExecutorMoves
  BY ExecutorStep DEF IInv, Inv, TypeOK, Together
<1> USE DEF HeldRunning, RowsOK, WorkersOK
<1>1. ASSUME UNCHANGED <<job, exec>> PROVE HeldRunning'
  BY <1>0, <1>1 DEF ExecutorMoves
<1>2. ASSUME NEW w \in Workers, Busy(w),
             \A j \in Jobs \ {cur[w]} : job'[j] = job[j] /\ exec'[j] = exec[j],
             \A v \in Workers \ {w} : wpc'[v] = wpc[v] /\ cur'[v] = cur[v],
             wpc'[w] \in Executing => /\ cur'[w] = cur[w]
                                      /\ job'[cur[w]] = "running" /\ exec'[cur[w]] = "running"
      PROVE  HeldRunning'
  <2> SUFFICES ASSUME NEW v \in Workers, wpc'[v] \in Executing
               PROVE  job'[cur'[v]] = "running" /\ exec'[cur'[v]] = "running"
    OBVIOUS
  <2>1. CASE v = w
    BY <1>2, <2>1
  <2>2. CASE v # w
    <3>1. wpc[v] \in Executing /\ Busy(v) /\ cur[v] \in Jobs
      BY <1>0, <1>2, <2>2 DEF Executing, Busy
    <3>2. cur[v] # cur[w]
      BY <1>2, <2>2, <3>1 DEF IInv, Held, OneHolder
    <3> QED
      BY <1>0, <1>2, <2>2, <3>1, <3>2
  <2> QED
    BY <2>1, <2>2
<1>3. ASSUME NEW w \in Workers, Claim(w) PROVE HeldRunning'
  <2>1. Busy(w) /\ cur[w] \in Jobs
    BY <1>0, <1>3 DEF Claim, Busy
  <2>2. CASE Leave(w, "idle")
    <3>1. \A j \in Jobs \ {cur[w]} : job'[j] = job[j] /\ exec'[j] = exec[j]
      BY <1>0, <1>3 DEF Claim, CancelOrphan, RejectRows, StartRows, dbVars
    <3>2. wpc'[w] = "idle" /\ \A v \in Workers \ {w} : wpc'[v] = wpc[v] /\ cur'[v] = cur[v]
      BY <1>0, <2>2 DEF Leave
    <3> QED
      BY <1>2, <2>1, <3>1, <3>2 DEF Executing
  <2>3. CASE StartRows(cur[w]) /\ wpc' = [wpc EXCEPT ![w] = "permit"] /\ UNCHANGED cur
    <3>1. \A j \in Jobs \ {cur[w]} : job'[j] = job[j] /\ exec'[j] = exec[j]
      BY <1>0, <2>3 DEF StartRows
    <3>2. job'[cur[w]] = "running" /\ exec'[cur[w]] = "running"
      BY <1>0, <2>1, <2>3 DEF StartRows
    <3> QED
      BY <1>0, <1>2, <2>1, <2>3, <3>1, <3>2
  <2> QED
    BY <1>3, <2>2, <2>3 DEF Claim
<1>4. ASSUME NEW w \in Workers, FailJob(w) \/ Finish(w) PROVE HeldRunning'
  <2>1. Busy(w) /\ cur[w] \in Jobs
    BY <1>0, <1>4 DEF FailJob, Finish, Busy
  <2>2. \A j \in Jobs \ {cur[w]} : job'[j] = job[j] /\ exec'[j] = exec[j]
    BY <1>0, <1>4 DEF FailJob, FailRows, FailAnyway, dbVars, Finish
  <2>3. wpc'[w] = "idle" /\ \A v \in Workers \ {w} : wpc'[v] = wpc[v] /\ cur'[v] = cur[v]
    BY <1>0, <1>4 DEF FailJob, Finish, Leave
  <2> QED
    BY <1>2, <2>1, <2>2, <2>3 DEF Executing
<1>5. ASSUME NEW s \in Stoppers, StopWrite(s) PROVE HeldRunning'
  <2>1. \A j \in Jobs : job[j] = "running" /\ exec[j] = "running" => job'[j] = "running" /\ exec'[j] = "running"
    BY <1>5 DEF StopWrite, JobAfterStop
  <2> QED
    BY <1>0, <1>5, <2>1 DEF StopWrite, workerVars, Executing
<1>6. ASSUME NEW c \in Chains, Send(c) PROVE HeldRunning'
  <2>1. \A j \in Jobs : job[j] = "running" => job'[j] = job[j] /\ exec'[j] = exec[j]
    BY <1>6 DEF Send, IInv, Inv, Unsent
  <2> QED
    BY <1>0, <1>6, <2>1 DEF Send, workerVars, Executing
<1>7. ASSUME \A w \in Workers : wpc'[w] \in {"dead", "idle"} PROVE HeldRunning'
  BY <1>7 DEF Executing
<1> QED
  BY <1>1, <1>3, <1>4, <1>5, <1>6, <1>7
  DEF Next, vars, dbVars, WakeChain, TickWake, WorkerStep, Take, Permit, PermitDenied, Reap, WorkerCancelled,
      WorkerFault, RunnerOwnStep, RunnerOpen, RunnerStart, RunnerUnavailable, RunnerFinalize, RunnerCancelled,
      RunnerExit, RunnerStreamEnd, RunnerError, RunnerFault, StopStep, StopCancel, StopRead, BeginShutdown,
      FinishShutdown, ProcessEnds, Crash, RecoverMessages, Start

LEMMA SeenStep == IInv /\ [Next]_vars => SeenStands'
<1> SUFFICES ASSUME IInv, [Next]_vars PROVE SeenStands'
  OBVIOUS
<1>0. SeenStands /\ RowsOK /\ StopsOK /\ JobMoves /\ RowsTogether
  BY JobStep DEF IInv, Inv, TypeOK, Together
<1>1. ASSUME \A s \in Stoppers : seenQueued'[s] \subseteq seenQueued[s] /\ seenRunning'[s] \subseteq seenRunning[s]
      PROVE  SeenStands'
  <2>1. \A s \in Stoppers : seenQueued[s] \subseteq Jobs /\ seenRunning[s] \subseteq Jobs
    BY <1>0 DEF StopsOK
  <2> QED
    BY <1>0, <1>1, <2>1 DEF SeenStands, JobMoves
<1>2. ASSUME NEW s \in Stoppers, NEW T \in StopTargets, StopRead(s, T) PROVE SeenStands'
  <2>1. T \subseteq Jobs
    BY ChainFacts DEF StopTargets
  <2>2. \A j \in T : /\ gen[j] = "queued" => job[j] # "none"
                     /\ gen[j] = "running" => job[j] \notin {"none", "queued"}
    BY <1>0, <2>1 DEF RowsTogether
  <2> QED
    BY <1>0, <1>2, <2>2 DEF StopRead, SeenStands, StopsOK, dbVars
<1>3. ASSUME NEW s \in Stoppers, StopCancel(s) PROVE SeenStands'
  BY <1>0, <1>1, <1>3 DEF StopCancel, StopsOK
<1>4. ASSUME ProcessEnds PROVE SeenStands'
  BY <1>4 DEF ProcessEnds, SeenStands
<1>5. CASE UNCHANGED <<seenQueued, seenRunning>>
  BY <1>1, <1>5
<1> QED
  BY <1>2, <1>3, <1>4, <1>5
  DEF Next, vars, stopVars, Send, WakeChain, TickWake, WorkerStep, Take, Claim, Permit, PermitDenied, FailJob, Reap,
      Finish, WorkerCancelled, WorkerFault, RunnerUnchanged, RunnerOwnStep, RunnerOpen, RunnerStart,
      RunnerUnavailable, RunnerFinalize, RunnerCancelled, RunnerExit, RunnerStreamEnd, RunnerError, RunnerFault,
      StopStep, StopWrite, BeginShutdown, FinishShutdown, Crash, RecoverMessages, Start

LEMMA IInvStep == IInv /\ [Next]_vars => IInv'
BY InvStep, HeldStep, TogetherStep, HolderStep, RunningStep, SeenStep DEF IInv, Inv, Together

LEMMA IInvInit == Init => IInv
<1> SUFFICES ASSUME Init PROVE IInv
  OBVIOUS
<1>1. Inv
  BY InvInit
<1>2. Held
  BY EmptyItems, ChainsAssumption
  DEF Init, EmptyProcess, Held, Places, OneWakeUp, OneHolder, Down, Busy, Workers
<1>3. Together
  BY DEF Init, EmptyProcess, Together, RowsTogether, RunnerHeld, HeldRunning, SeenStands, Executing, JobEnd
<1> QED
  BY <1>1, <1>2, <1>3 DEF IInv

\* Job, generation and execution end together, whoever ends them: a worker that
\* executes a job is the only one that has it, and its rows run (HeldRunning);
\* a runner has such a worker (RunnerHeld); and what a stop read of a row still
\* tells whether its job is waiting (SeenStands).
THEOREM Settled == Spec => []SettledTogether
<1>1. IInv => SettledTogether
  <2> SUFFICES ASSUME IInv, NEW j \in Jobs, job[j] \in JobEnd
               PROVE  gen[j] \in GenEnd /\ exec[j] \in ExecEnd /\ rpc[j] \notin RunnerLive
    BY DEF SettledTogether
  <2>1. gen[j] \in GenEnd /\ exec[j] \in ExecEnd
    BY DEF IInv, Together, RowsTogether
  <2>2. rpc[j] = "none"
    BY RunnerRuns DEF JobEnd
  <2> QED
    BY <2>1, <2>2 DEF RunnerLive
<1> QED
  BY IInvInit, IInvStep, <1>1, PTL DEF Spec

-----------------------------------------------------------------------------
\* What a stop reaches

\* A generation that was stopped, or that a stop read as running, is past its queue.
StoppedRows ==
  /\ \A j \in Jobs : stopAt[j] => gen[j] \notin {"none", "queued"}
  /\ \A s \in Stoppers : /\ \A j \in seenQueued[s] : gen[j] # "none"
                         /\ \A j \in seenRunning[s] : gen[j] \notin {"none", "queued"}

Early == {"new", "opened", "stream", "final"}

\* A stop has written its rows and has not looked at the runners yet.
OnItsWay(j) == \E s \in Stoppers : spc[s] = "written" /\ j \in seenQueued[s] \cup seenRunning[s]

\* A runner is registered from its creation to its end, and before it closes its
\* cancellation is there, on its way, or not needed because it has not begun.
Told(j) ==
  /\ IF rpc[j] = "none" THEN ~asked[j] ELSE j \in active
  /\ rpc[j] \in Early =>
       /\ asked[j] => deliver[j]
       /\ stopAt[j] => deliver[j] \/ rpc[j] = "new" \/ OnItsWay(j)

StopInv == IInv /\ StoppedRows /\ \A j \in Jobs : Told(j)

\* No generation returns to the queue, and only a request puts it there.
GenMoves ==
  \A j \in Jobs :
    /\ gen'[j] = "none" => gen[j] = "none"
    /\ gen'[j] \in {"none", "queued"} => gen[j] \in {"none", "queued"}
    /\ gen[j] = "none" => gen'[j] = "none" \/ (gen'[j] = "queued" /\ \E c \in Chains : Send(c))

LEMMA GenStep == IInv /\ [Next]_vars => GenMoves
<1> SUFFICES ASSUME IInv, [Next]_vars PROVE GenMoves
  OBVIOUS
<1>0. RowsOK /\ WorkersOK /\ RowsTogether /\ SeenStands
  BY DEF IInv, Inv, TypeOK, Together
<1> USE DEF RowsOK, GenMoves, GenEnd, JobEnd
<1>1. ASSUME NEW c \in Chains, Send(c) PROVE GenMoves
  <2>1. \A j \in JobsOf(c) : gen[j] = "none"
    BY <1>0, <1>1, ChainFacts DEF Send, IInv, Inv, Unsent, RowsTogether
  <2> QED
    BY <1>0, <1>1, <2>1 DEF Send
<1>2. ASSUME NEW w \in Workers, Claim(w) PROVE GenMoves
  BY <1>0, <1>2 DEF Claim, CancelOrphan, RejectRows, StartRows, dbVars
<1>3. ASSUME NEW w \in Workers, FailJob(w) PROVE GenMoves
  BY <1>0, <1>3 DEF FailJob, FailRows, FailAnyway, dbVars, RowsTogether
<1>4. ASSUME NEW w \in Workers, Finish(w) PROVE GenMoves
  <2>1. cur[w] \in Jobs /\ gen[cur[w]] # "none"
    BY <1>0, <1>4 DEF Finish, WorkersOK, IInv, Together, HeldRunning, Executing, RowsTogether
  <2> QED
    BY <1>0, <1>4, <2>1 DEF Finish, FinishedGen
<1>5. ASSUME NEW j \in Jobs, RunnerStart(j) \/ RunnerFinalize(j) PROVE GenMoves
  <2>1. gen[j] # "none" /\ outcome[j] \in GenEnd
    BY <1>0, <1>5, RunnerRuns
    DEF RunnerStart, RunnerFinalize, RowsTogether, IInv, Inv, TypeOK, RunnersOK
  <2> QED
    BY <1>0, <1>5, <2>1 DEF RunnerStart, RunnerFinalize
<1>6. ASSUME NEW s \in Stoppers, StopWrite(s) PROVE GenMoves
  <2>1. \A j \in seenQueued[s] : j \in Jobs => gen[j] # "none"
    BY <1>0 DEF SeenStands, RowsTogether, JobStatus
  <2> QED
    BY <1>0, <1>6, <2>1 DEF StopWrite
<1>7. CASE FinishShutdown
  <2>1. \A j \in Jobs : exec[j] \in {"queued", "running"} => gen[j] # "none"
    BY <1>0 DEF RowsTogether, JobStatus, ExecEnd
  <2> QED
    BY <1>0, <1>7, <2>1 DEF FinishShutdown
<1>8. CASE Start
  BY <1>0, <1>8 DEF Start
<1>9. CASE UNCHANGED gen
  BY <1>9
<1> QED
  BY <1>1, <1>2, <1>3, <1>4, <1>5, <1>6, <1>7, <1>8, <1>9
  DEF Next, vars, dbVars, WakeChain, TickWake, WorkerStep, Take, Permit, PermitDenied, Reap, WorkerCancelled,
      WorkerFault, RunnerOwnStep, RunnerOpen, RunnerUnavailable, RunnerCancelled, RunnerExit, RunnerStreamEnd,
      RunnerError, RunnerFault, StopStep, StopCancel, StopRead, BeginShutdown, Crash, RecoverMessages

LEMMA StoppedStep == StopInv /\ [Next]_vars => StoppedRows'
<1> SUFFICES ASSUME StopInv, [Next]_vars PROVE StoppedRows'
  OBVIOUS
<1>0. GenMoves /\ StoppedRows /\ StopsOK /\ RowsOK
  BY GenStep DEF StopInv, IInv, Inv, TypeOK
<1>1. ASSUME UNCHANGED stopAt,
             \A s \in Stoppers : seenQueued'[s] \subseteq seenQueued[s] /\ seenRunning'[s] \subseteq seenRunning[s]
      PROVE  StoppedRows'
  <2>1. \A s \in Stoppers : seenQueued[s] \subseteq Jobs /\ seenRunning[s] \subseteq Jobs
    BY <1>0 DEF StopsOK
  <2> QED
    BY <1>0, <1>1, <2>1 DEF StoppedRows, GenMoves
<1>2. ASSUME NEW s \in Stoppers, NEW T \in StopTargets, StopRead(s, T) PROVE StoppedRows'
  <2>1. T \subseteq Jobs
    BY ChainFacts DEF StopTargets
  <2> QED
    BY <1>0, <1>2, <2>1 DEF StopRead, StoppedRows, StopsOK, dbVars
<1>3. ASSUME NEW s \in Stoppers, StopWrite(s) PROVE StoppedRows'
  <2>1. /\ seenQueued[s] \subseteq Jobs /\ seenRunning[s] \subseteq Jobs
        /\ UNCHANGED <<seenQueued, seenRunning>>
        /\ \A j \in Jobs : stopAt'[j] => stopAt[j] \/ j \in seenQueued[s] \/ j \in seenRunning[s]
        /\ \A j \in seenQueued[s] : gen'[j] = "stopped"
    BY <1>0, <1>3 DEF StopWrite, StopsOK
  <2>2. \A t \in Stoppers : seenQueued[t] \subseteq Jobs /\ seenRunning[t] \subseteq Jobs
    BY <1>0 DEF StopsOK
  <2> QED
    BY <1>0, <2>1, <2>2 DEF StoppedRows, GenMoves
<1>4. ASSUME NEW s \in Stoppers, StopCancel(s) PROVE StoppedRows'
  BY <1>0, <1>1, <1>4 DEF StopCancel, StopsOK, dbVars
<1>5. ASSUME ProcessEnds, UNCHANGED stopAt PROVE StoppedRows'
  BY <1>0, <1>1, <1>5 DEF ProcessEnds
<1>6. CASE UNCHANGED <<stopAt, seenQueued, seenRunning>>
  BY <1>1, <1>6
<1> QED
  BY <1>2, <1>3, <1>4, <1>5, <1>6
  DEF Next, vars, dbVars, stopVars, Send, WakeChain, TickWake, WorkerStep, Take, Claim, CancelOrphan, RejectRows,
      StartRows, Permit, PermitDenied, FailJob, FailRows, FailAnyway, Reap, Finish, WorkerCancelled, WorkerFault,
      RunnerUnchanged, RunnerOwnStep, RunnerOpen, RunnerStart, RunnerUnavailable, RunnerFinalize, RunnerCancelled,
      RunnerExit, RunnerStreamEnd, RunnerError, RunnerFault, StopStep, BeginShutdown, FinishShutdown, Crash,
      RecoverMessages, Start

LEMMA ToldStep == StopInv /\ [Next]_vars => \A j \in Jobs : Told(j)'
<1> SUFFICES ASSUME StopInv, [Next]_vars, NEW j \in Jobs PROVE Told(j)'
  OBVIOUS
<1>0. Told(j) /\ StoppedRows /\ RunnersOK /\ WorkersOK /\ StopsOK /\ RowsOK
  BY DEF StopInv, IInv, Inv, TypeOK
<1> USE DEF RunnersOK, WorkersOK
\* Steps that leave the runner of j and its registration alone.
<1>1. ASSUME rpc'[j] = rpc[j], asked'[j] = asked[j], deliver'[j] = deliver[j], j \in active => j \in active',
             stopAt'[j] = stopAt[j], OnItsWay(j) => OnItsWay(j)'
      PROVE  Told(j)'
  BY <1>0, <1>1 DEF Told
<1>2. ASSUME UNCHANGED <<rpc, asked, deliver, active, stopAt, stopVars>> PROVE Told(j)'
  BY <1>1, <1>2 DEF OnItsWay, stopVars
<1>3. ASSUME NEW w \in Workers, Permit(w) PROVE Told(j)'
  <2>1. UNCHANGED <<asked, deliver, stopAt, stopVars>> /\ active' = active \cup {cur[w]} /\ cur[w] \in Jobs
    BY <1>0, <1>3 DEF Permit, dbVars
  <2>2. CASE j = cur[w]
    <3>1. rpc[j] = "none"
      BY <1>3, <2>2 DEF Permit, StopInv, IInv, Inv, Launchable
    <3> QED
      BY <1>0, <1>3, <2>1, <2>2, <3>1 DEF Permit, Told
  <2>3. CASE j # cur[w]
    BY <1>0, <1>1, <1>3, <2>1, <2>3 DEF Permit, OnItsWay, stopVars
  <2> QED
    BY <2>2, <2>3
\* The worker that waits for a runner is the only one that has its job.
<1>4. ASSUME NEW w \in Workers, wpc[w] # "wait", rpc[j] # "none" PROVE cur[w] # j
  <2>1. PICK v \in Workers : wpc[v] = "wait" /\ cur[v] = j
    BY <1>4 DEF StopInv, IInv, Together, RunnerHeld
  <2>2. CASE Busy(w)
    BY <1>4, <2>1, <2>2 DEF StopInv, IInv, Held, OneHolder, Busy
  <2>3. CASE ~Busy(w)
    BY <2>3, ChainsAssumption DEF StopInv, IInv, Held, Places, Busy
  <2> QED
    BY <2>2, <2>3
<1>5. ASSUME NEW w \in Workers, wpc[w] = "wait", ForgetRunner(cur[w]), active' = active \ {cur[w]},
             UNCHANGED <<stopAt, stopVars>>
      PROVE  Told(j)'
  <2>1. CASE j = cur[w]
    BY <1>0, <1>5, <2>1 DEF ForgetRunner, Told, Early
  <2>2. CASE j # cur[w]
    BY <1>0, <1>1, <1>5, <2>2 DEF ForgetRunner, OnItsWay, stopVars
  <2> QED
    BY <2>1, <2>2
<1>6. ASSUME NEW w \in Workers, wpc[w] # "wait", active' = active \ {cur[w]},
             UNCHANGED <<rpc, asked, deliver, stopAt, stopVars>>
      PROVE  Told(j)'
  <2>1. CASE rpc[j] = "none"
    BY <1>0, <1>6, <2>1 DEF Told, Early
  <2>2. CASE rpc[j] # "none"
    BY <1>1, <1>4, <1>6, <2>2 DEF OnItsWay, stopVars
  <2> QED
    BY <2>1, <2>2
<1>7. ASSUME NEW w \in Workers, Reap(w) PROVE Told(j)'
  BY <1>5, <1>7 DEF Reap, Die, dbVars
<1>8. ASSUME NEW w \in Workers, WorkerCancelled(w) PROVE Told(j)'
  BY <1>5, <1>6, <1>8 DEF WorkerCancelled, Die, dbVars, runnerVars
<1>9. ASSUME NEW w \in Workers, WorkerFault(w) PROVE Told(j)'
  BY <1>2, <1>6, <1>9 DEF WorkerFault, Die, dbVars, runnerVars
<1>10. ASSUME NEW w \in Workers, Take(w) \/ Claim(w) \/ PermitDenied(w) \/ FailJob(w) \/ Finish(w)
       PROVE  Told(j)'
  BY <1>2, <1>10 DEF Take, Claim, CancelOrphan, RejectRows, StartRows, PermitDenied, FailJob, FailRows, FailAnyway,
                     Finish, dbVars, runnerVars
<1>11. ASSUME NEW i \in Jobs, \/ RunnerOwnStep(i) \/ RunnerStreamEnd(i) \/ RunnerError(i) \/ RunnerFault(i)
       PROVE  Told(j)'
  <2>0. UNCHANGED <<active, asked, stopAt, stopVars>>
    BY <1>11 DEF RunnerUnchanged, workerVars, dbVars, RunnerOwnStep, RunnerOpen, RunnerStart, RunnerUnavailable,
                 RunnerFinalize, RunnerCancelled, RunnerExit, RunnerStreamEnd, RunnerError, RunnerFault
  <2>1. CASE i # j
    <3>1. rpc'[j] = rpc[j] /\ deliver'[j] = deliver[j]
      BY <1>0, <1>11, <2>1 DEF RunnerOwnStep, RunnerOpen, RunnerStart, RunnerUnavailable, RunnerFinalize,
         RunnerCancelled, RunnerExit, RunnerStreamEnd, RunnerError, RunnerFault
    <3> QED
      BY <1>1, <2>0, <3>1 DEF OnItsWay, stopVars
  <2>2. CASE i = j
    <3>0. OnItsWay(j)' <=> OnItsWay(j)
      BY <2>0 DEF OnItsWay, stopVars
    <3>1. CASE RunnerOpen(j)
      BY <1>0, <2>0, <3>0, <3>1 DEF RunnerOpen, Told, Early, StoppedRows
    <3>2. CASE RunnerStart(j) \/ RunnerUnavailable(j) \/ RunnerStreamEnd(j)
      BY <1>0, <2>0, <3>0, <3>2 DEF RunnerStart, RunnerUnavailable, RunnerStreamEnd, Told, Early
    <3>3. CASE RunnerFinalize(j) \/ RunnerCancelled(j) \/ RunnerExit(j)
      BY <1>0, <2>0, <3>3 DEF RunnerFinalize, RunnerCancelled, RunnerExit, RunnerLive, Told, Early
    <3>4. CASE RunnerError(j) \/ RunnerFault(j)
      BY <1>0, <2>0, <3>4 DEF RunnerError, RunnerFault, Told, Early
    <3> QED
      BY <1>11, <2>2, <3>1, <3>2, <3>3, <3>4 DEF RunnerOwnStep
  <2> QED
    BY <2>1, <2>2
<1>12. ASSUME NEW s \in Stoppers, StopWrite(s) PROVE Told(j)'
  <2>1. /\ UNCHANGED <<rpc, asked, deliver, active, seenQueued, seenRunning>>
        /\ stopAt'[j] => stopAt[j] \/ j \in seenQueued[s] \cup seenRunning[s]
        /\ spc'[s] = "written" /\ \A t \in Stoppers : spc[t] = "written" => spc'[t] = "written"
    BY <1>0, <1>12 DEF StopWrite, runnerVars, workerVars, StopsOK
  <2> QED
    BY <1>0, <2>1 DEF Told, OnItsWay
<1>13. ASSUME NEW s \in Stoppers, StopCancel(s) PROVE Told(j)'
  <2>1. /\ UNCHANGED <<rpc, active, stopAt>>
        /\ asked'[j] = (asked[j] \/ j \in StopHits(s)) /\ deliver'[j] = (deliver[j] \/ j \in StopHits(s))
        /\ \A t \in Stoppers \ {s} : /\ spc'[t] = spc[t] /\ seenQueued'[t] = seenQueued[t]
                                     /\ seenRunning'[t] = seenRunning[t]
    BY <1>0, <1>13 DEF StopCancel, dbVars, workerVars, StopsOK
  <2>2. CASE rpc[j] \notin Early
    BY <1>0, <2>1, <2>2 DEF Told, StopHits, RunnerLive
  <2>3. CASE rpc[j] \in Early
    <3>1. j \in active /\ rpc[j] \in RunnerLive
      BY <1>0, <2>3 DEF Told, Early, RunnerLive
    <3>2. j \in seenQueued[s] \cup seenRunning[s] => deliver'[j]
      BY <1>0, <2>1, <2>3, <3>1 DEF Told, StopHits
    <3>3. OnItsWay(j) => OnItsWay(j)' \/ deliver'[j]
      BY <2>1, <3>2 DEF OnItsWay
    <3> QED
      BY <1>0, <2>1, <2>3, <3>1, <3>3 DEF Told, Early
  <2> QED
    BY <2>2, <2>3
<1>14. ASSUME NEW s \in Stoppers, NEW T \in StopTargets, StopRead(s, T) PROVE Told(j)'
  <2>1. UNCHANGED <<rpc, asked, deliver, active, stopAt>>
    BY <1>14 DEF StopRead, runnerVars, workerVars, dbVars
  <2>2. OnItsWay(j) => OnItsWay(j)'
    BY <1>0, <1>14 DEF StopRead, OnItsWay, StopsOK
  <2> QED
    BY <1>1, <2>1, <2>2
<1>15. CASE BeginShutdown
  <2>1. /\ UNCHANGED <<rpc, active, stopAt, stopVars>>
        /\ asked'[j] = (asked[j] \/ (j \in active /\ rpc[j] \in RunnerLive))
        /\ deliver'[j] = (deliver[j] \/ (j \in active /\ rpc[j] \in RunnerLive))
    BY <1>0, <1>15 DEF BeginShutdown, dbVars
  <2>2. OnItsWay(j)' <=> OnItsWay(j)
    BY <2>1 DEF OnItsWay, stopVars
  <2> QED
    BY <1>0, <2>1, <2>2 DEF Told, Early, RunnerLive
<1>16. ASSUME ProcessEnds PROVE Told(j)'
  BY <1>16 DEF ProcessEnds, Told, Early
<1>17. CASE (\E c \in Chains : Send(c) \/ WakeChain(c)) \/ (\E c \in Ticked : \E i \in JobsOf(c) : TickWake(c, i))
  BY <1>2, <1>17 DEF Send, WakeChain, TickWake, Enqueue, dbVars, workerVars, runnerVars
<1>18. CASE RecoverMessages \/ Start \/ UNCHANGED vars
  BY <1>2, <1>18 DEF RecoverMessages, Start, vars, dbVars, workerVars, runnerVars
<1> QED
  BY <1>3, <1>7, <1>8, <1>9, <1>10, <1>11, <1>12, <1>13, <1>14, <1>15, <1>16, <1>17, <1>18
  DEF Next, WorkerStep, StopStep, FinishShutdown, Crash

\* When every stop is through, the runner of a stopped job that has not come to
\* its end yet has its cancellation, or will see at its first read that its
\* generation has ended: none slips between the rows and the scan of _active.
THEOREM Reached == Spec => []StopReachesRunner
<1>1. Init => StopInv
  BY IInvInit DEF Init, EmptyProcess, StopInv, StoppedRows, Told, Early
<1>2. StopInv /\ [Next]_vars => StopInv'
  BY IInvStep, StoppedStep, ToldStep DEF StopInv
<1>3. StopInv => StopReachesRunner
  <2> SUFFICES ASSUME StopInv, NEW j \in Jobs, stopAt[j], rpc[j] \in Early,
                      \A s \in DOMAIN spc : spc[s] = "idle"
               PROVE  deliver[j] \/ (rpc[j] = "new" /\ gen[j] # "queued")
    BY DEF StopReachesRunner, Early
  <2>1. DOMAIN spc = Stoppers
    BY DEF StopInv, IInv, Inv, TypeOK, StopsOK
  <2> QED
    BY <2>1 DEF StopInv, Told, StoppedRows, OnItsWay
<1> QED
  BY <1>1, <1>2, <1>3, PTL DEF Spec

-----------------------------------------------------------------------------
\* The ledger

\* Jobs that only settle, together or one by one, settle in the ledger.
LEMMA SettleMove ==
  ASSUME UNCHANGED attempts,
         \A j \in Jobs : job'[j] = job[j] \/ (job[j] \in {"queued", "running"} /\ job'[j] \in JobEnd)
  PROVE  Ledger!Next
<1> DEFINE S == {j \in Jobs : job'[j] # job[j]}
<1>1. Ledger!Settle(S)
  BY DEF Ledger!Settle, JobEnd
<1>2. S \in SUBSET Jobs
  OBVIOUS
<1> HIDE DEF S
<1> QED
  BY <1>1, <1>2 DEF Ledger!Next, Ledger!Settle

LEMMA LedgerStep == IInv /\ [Next]_vars => [Ledger!Next]_(Ledger!vars)
<1> SUFFICES ASSUME IInv, [Next]_vars PROVE [Ledger!Next]_(Ledger!vars)
  OBVIOUS
<1>0. RowsOK /\ WorkersOK /\ HeldRunning /\ RowsTogether
  BY DEF IInv, Inv, TypeOK, Together
<1>1. ASSUME NEW c \in Chains, Send(c) PROVE Ledger!Next
  <2>1. JobsOf(c) \subseteq Jobs /\ \A j \in JobsOf(c) : job[j] = "none"
    BY <1>1, ChainFacts DEF Send, IInv, Inv, Unsent
  <2>2. Ledger!Submit(JobsOf(c))
    BY <1>1, <2>1 DEF Send, Ledger!Submit
  <2> QED
    BY <2>1, <2>2 DEF Ledger!Next, Ledger!Submit
<1>2. ASSUME NEW w \in Workers, Claim(w) PROVE [Ledger!Next]_(Ledger!vars)
  <2>0. cur[w] \in Jobs
    BY <1>0, <1>2 DEF Claim, WorkersOK
  <2>1. CASE UNCHANGED dbVars
    BY <2>1 DEF dbVars, Ledger!vars
  <2>2. CASE job[cur[w]] = "queued" /\ (CancelOrphan(cur[w]) \/ RejectRows(cur[w]))
    BY <1>0, <2>0, <2>2, SettleMove DEF CancelOrphan, RejectRows, RowsOK, JobEnd
  <2>3. CASE job[cur[w]] = "queued" /\ StartRows(cur[w])
    <3>1. Ledger!Begin(cur[w])
      BY <1>0, <2>0, <2>3 DEF StartRows, Ledger!Begin, RowsOK
    <3> QED
      BY <2>0, <3>1 DEF Ledger!Next, Ledger!Begin
  <2> QED
    BY <1>2, <2>1, <2>2, <2>3 DEF Claim
<1>3. ASSUME NEW w \in Workers, FailJob(w) PROVE [Ledger!Next]_(Ledger!vars)
  <2>0. cur[w] \in Jobs
    BY <1>0, <1>3 DEF FailJob, WorkersOK
  <2> QED
    BY <1>0, <1>3, <2>0, SettleMove DEF FailJob, FailRows, FailAnyway, dbVars, RowsOK, JobEnd, Ledger!vars
<1>4. ASSUME NEW w \in Workers, Finish(w) PROVE [Ledger!Next]_(Ledger!vars)
  <2>0. cur[w] \in Jobs /\ job[cur[w]] = "running"
    BY <1>0, <1>4 DEF Finish, WorkersOK, HeldRunning, Executing
  <2>1. FinishedJob(FinishedGen(cur[w])) \in JobEnd
    BY DEF FinishedGen, FinishedJob, GenEnd, JobEnd
  <2> QED
    BY <1>0, <1>4, <2>0, <2>1, SettleMove DEF Finish, RowsOK
<1>5. ASSUME NEW s \in Stoppers, StopWrite(s) PROVE [Ledger!Next]_(Ledger!vars)
  BY <1>0, <1>5, SettleMove DEF StopWrite, JobAfterStop, JobEnd
<1>6. CASE FinishShutdown
  BY <1>0, <1>6, SettleMove DEF FinishShutdown, JobEnd
<1>7. CASE Start
  BY <1>0, <1>7, SettleMove DEF Start, JobEnd
<1>8. CASE UNCHANGED <<job, attempts>>
  BY <1>8 DEF Ledger!vars
<1> QED
  BY <1>1, <1>2, <1>3, <1>4, <1>5, <1>6, <1>7, <1>8
  DEF Next, vars, dbVars, WakeChain, TickWake, WorkerStep, Take, Permit, PermitDenied, Reap, WorkerCancelled,
      WorkerFault, RunnerOwnStep, RunnerOpen, RunnerStart, RunnerUnavailable, RunnerFinalize, RunnerCancelled,
      RunnerExit, RunnerStreamEnd, RunnerError, RunnerFault, StopStep, StopCancel, StopRead, BeginShutdown, Crash,
      RecoverMessages

\* The job table is a ledger: every step submits jobs, begins one that waits, or
\* settles jobs that have not settled, and leaves the others as they are.
THEOREM Implements == Spec => ImplementsLedger
<1>1. Init => Ledger!Init
  BY DEF Init, Ledger!Init
<1> QED
  BY <1>1, IInvInit, IInvStep, LedgerStep, PTL DEF Spec, ImplementsLedger, Ledger!Spec

\* So no job is ever executed twice: it begins only while it waits, and nothing
\* that has begun waits again.
THEOREM Once == Spec => []Ledger!ExecutedAtMostOnce
<1> DEFINE Begun == \A j \in Jobs : /\ job[j] \in {"none", "queued"} => attempts[j] = 0
                                   /\ attempts[j] <= 1
<1>1. Init => Begun
  BY DEF Init
<1>2. IInv /\ [Next]_vars /\ Begun => Begun'
  <2> SUFFICES ASSUME IInv, [Next]_vars, Begun PROVE Begun'
    OBVIOUS
  <2>1. RowsOK /\ WorkersOK /\ JobMoves
    BY JobStep DEF IInv, Inv, TypeOK
  <2>2. ASSUME NEW w \in Workers, Claim(w) PROVE Begun'
    <3>0. cur[w] \in Jobs
      BY <2>1, <2>2 DEF Claim, WorkersOK
    <3>1. CASE job[cur[w]] = "queued" /\ StartRows(cur[w])
      BY <2>1, <3>0, <3>1 DEF StartRows, RowsOK
    <3>2. CASE UNCHANGED attempts
      BY <2>1, <3>2 DEF JobMoves
    <3> QED
      BY <2>2, <3>1, <3>2 DEF Claim, CancelOrphan, RejectRows, dbVars
  <2>3. CASE UNCHANGED attempts
    BY <2>1, <2>3 DEF JobMoves
  <2> HIDE DEF Begun
  <2> QED
    BY <2>2, <2>3
    DEF Next, vars, dbVars, Send, WakeChain, TickWake, WorkerStep, Take, Permit, PermitDenied, FailJob, FailRows,
        FailAnyway, Reap, Finish, WorkerCancelled, WorkerFault, RunnerOwnStep, RunnerOpen, RunnerStart,
        RunnerUnavailable, RunnerFinalize, RunnerCancelled, RunnerExit, RunnerStreamEnd, RunnerError, RunnerFault,
        StopStep, StopWrite, StopCancel, StopRead, BeginShutdown, FinishShutdown, Crash, RecoverMessages, Start
<1>3. Begun => Ledger!ExecutedAtMostOnce
  BY DEF Ledger!ExecutedAtMostOnce
<1> HIDE DEF Begun
<1> QED
  BY IInvInit, IInvStep, <1>1, <1>2, <1>3, PTL DEF Spec
=============================================================================
