----------------------------- MODULE LogArchive -----------------------------
(***************************************************************************)
(* The maintenance of the log tree at the start of every backend           *)
(* (config/log_archive.py): the cross-process lease, the archive of each   *)
(* day of an earlier month, the audit that must be on disk before a        *)
(* deletion, and the eviction of archives by age and by size.  Processes   *)
(* may die between any two steps, an audit flush may fail, and an archive  *)
(* may rot on disk.                                                        *)
(*                                                                         *)
(* A source is the directory of one day and one kind.  Its files are taken *)
(* as one, which holds a set of lines and is renamed when its handler      *)
(* rolls over (config/logging.py); an archive holds the name and the lines *)
(* its manifest lists.  Every line, archive and leftover counts one unit   *)
(* of the size of the tree.                                                *)
(*                                                                         *)
(* Two history variables, read by the property alone, tell what the code   *)
(* does not exclude: a lease removed under a maintenance that goes on, and *)
(* lines that a test run appends to a directory already compared with its  *)
(* archive.                                                                *)
(***************************************************************************)
EXTENDS Integers, Sequences, FiniteSets

CONSTANTS
  Procs,      \* process identities the system gives out; one is reused after an exit
  MaxAlive,   \* bound: backends alive at once
  Sources,    \* the day-and-kind directories
  Date,       \* their day, one number for each source
  Kind,       \* "runtime", "unit-tests" or "e2e-fake"
  Lines,      \* lines a source may receive
  Room,       \* bound: how many of them, for each source
  MonthEnd,   \* the last day of the first month
  LastDay,    \* bound: the last day the clock reaches
  Days,       \* retention_days
  MaxTotal,   \* max_total_bytes, in units
  MaxEvents   \* bound: crashes, failed flushes, damaged archives

VARIABLES
  today,    \* the local day
  src,      \* source -> its directory
  arch,     \* source -> its formal archive
  tmp,      \* temporary archives on disk, [by, of]
  lease,    \* archive/.retention.lock: the process that made it, whether its pid is written
  proc,     \* process -> where its maintenance stands
  planned,  \* flushed delete plans: the source and the lines the archive held
  written,  \* source -> lines ever written to it
  live,     \* sources whose writer (handler, test run) still has them open
  events,   \* faults that happened
  broken,   \* history: a lease was removed while its maker was at work
  missed    \* history: source -> lines appended between its comparison and its removal

vars == <<today, src, arch, tmp, lease, proc, planned, written, live, events, broken, missed>>

None == [by |-> "none"]
NoDir == [dir |-> FALSE, name |-> "none", lines |-> {}]
NoArchive == [there |-> FALSE, name |-> "none", lines |-> {}, sound |-> TRUE]
Off == [pc |-> "off", now |-> 0, todo |-> <<>>, man |-> NoDir, total |-> 0, failed |-> 0]

Month(d) == IF d <= MonthEnd THEN 0 ELSE 1

TypeOK ==
  /\ today \in 0..LastDay
  /\ src \in [Sources -> [dir: BOOLEAN, name: {"none", "active", "closed"}, lines: SUBSET Lines]]
  /\ DOMAIN proc = Procs
  /\ live \subseteq Sources
  /\ broken \in BOOLEAN /\ missed \in [Sources -> SUBSET Lines]

history == <<broken, missed>>

Init ==
  /\ today = 0
  /\ src = [s \in Sources |-> NoDir]
  /\ arch = [s \in Sources |-> NoArchive]
  /\ tmp = {}
  /\ lease = None
  /\ proc = [p \in Procs |-> Off]
  /\ planned = {}
  /\ written = [s \in Sources |-> {}]
  /\ live = Sources
  /\ events = 0
  /\ broken = FALSE /\ missed = [s \in Sources |-> {}]

-----------------------------------------------------------------------------
(* The writers of the tree *)

(* A maintenance holds the lease from its making to its removal. *)
Working(p) == proc[p].pc \notin {"off", "lease", "break", "take", "up"}

(* A source that was compared with its archive and is not yet removed. *)
Compared(s) == \E p \in Procs : proc[p].pc \in {"swap", "told", "unlink"} /\ Head(proc[p].todo) = s

(* A handler appends to the directory of its day; a test run to the one of *)
(* the day it started, which it makes again when it is gone.               *)
WriteLine(s, l) ==
  /\ s \in live /\ l \notin written[s] /\ Cardinality(written[s]) < Room[s]
  /\ IF Kind[s] = "runtime" THEN today = Date[s] ELSE today >= Date[s]
  /\ src' = [src EXCEPT ![s] = [dir |-> TRUE, lines |-> @.lines \union {l},
               name |-> IF @.name = "none" THEN "active" ELSE @.name]]
  /\ written' = [written EXCEPT ![s] = @ \union {l}]
  /\ missed' = IF Compared(s) THEN [missed EXCEPT ![s] = @ \union {l}] ELSE missed
  /\ UNCHANGED <<today, arch, tmp, lease, proc, planned, live, events, broken>>

(* The first record of a later day: the handler closes its file, gives it  *)
(* the next number if it is still there, and opens the file of today.      *)
Rollover(s) ==
  /\ s \in live /\ Kind[s] = "runtime" /\ today > Date[s]
  /\ src' = [src EXCEPT ![s].name = IF @ = "active" THEN "closed" ELSE @]
  /\ live' = live \ {s}
  /\ UNCHANGED <<today, arch, tmp, lease, proc, planned, written, events, history>>

(* A test run stores its final status. *)
RunEnds(s) ==
  /\ s \in live /\ Kind[s] # "runtime" /\ today >= Date[s]
  /\ live' = live \ {s}
  /\ UNCHANGED <<today, src, arch, tmp, lease, proc, planned, written, events, history>>

Tick ==
  /\ today < LastDay
  /\ today' = today + 1
  /\ UNCHANGED <<src, arch, tmp, lease, proc, planned, written, live, events, history>>

-----------------------------------------------------------------------------
(* What the maintenance reads *)

TreeBytes ==
  Cardinality(tmp)
    + Cardinality({x \in Sources \X Lines : x[2] \in src[x[1]].lines})
    + Cardinality({s \in Sources : arch[s].there})

(* Directories and archives come in the order of their day, those of a day *)
(* in the order of their kind.                                             *)
KindOrder == [k \in {"e2e-fake", "runtime", "unit-tests"} |->
                CASE k = "e2e-fake" -> 1 [] k = "runtime" -> 2 [] OTHER -> 3]
Before(a, b) == Date[a] < Date[b] \/ (Date[a] = Date[b] /\ KindOrder[Kind[a]] < KindOrder[Kind[b]])

\* The listings of the sources in S: there is one.
Oldest(S) == {q \in [1..Cardinality(S) -> S] : \A i, j \in DOMAIN q : i < j => Before(q[i], q[j])}

\* Mutant: no status is asked for.
FinishedAnyway(s) == TRUE

Finished(s) == Kind[s] = "e2e-fake" => s \notin live

Candidates(now) ==
  Oldest({s \in Sources : src[s].dir /\ Month(Date[s]) < Month(now) /\ Finished(s)})

FormalArchives == {s \in Sources : arch[s].there}

Alive(p) == proc[p].pc # "off"

(* The step p takes: record r is its next one. *)
Go(p, r) == proc' = [proc EXCEPT ![p] = r]

Goto(p, pc) == Go(p, [proc[p] EXCEPT !.pc = pc])

(* The next item of the loop p is in; loop names its first step. *)
NextItem(p, loop, fails) ==
  Go(p, [proc[p] EXCEPT !.pc = loop, !.todo = Tail(@), !.man = NoDir, !.failed = @ + fails])

(* _audit: the fact is on disk, or the flush fails. *)
Flushed == UNCHANGED events
FlushFails == events < MaxEvents /\ events' = events + 1

Files == <<today, src, arch, tmp, planned, written, live, missed>>

-----------------------------------------------------------------------------
(* _retention_lease *)

Start(p) ==
  /\ ~Alive(p) /\ Cardinality({q \in Procs : Alive(q)}) < MaxAlive
  /\ Go(p, [Off EXCEPT !.pc = "lease", !.now = today])
  /\ UNCHANGED <<Files, lease, events, broken>>

ReadLease(p) ==
  /\ proc[p].pc = "lease"
  /\ Goto(p, IF lease = None THEN "take"
             ELSE IF lease.told /\ Alive(lease.by) THEN "up"
             ELSE "break")
  /\ UNCHANGED <<Files, lease, events, broken>>

BreakLease(p) ==
  /\ proc[p].pc = "break"
  /\ lease' = None
  /\ broken' = (broken \/ \E q \in Procs : lease.by = q /\ Working(q))
  /\ Goto(p, "take")
  /\ UNCHANGED <<Files, events>>

TakeLease(p) ==
  /\ proc[p].pc = "take"
  /\ IF lease # None
       THEN Goto(p, "up") /\ UNCHANGED lease
       ELSE Goto(p, "pid") /\ lease' = [by |-> p, told |-> FALSE]
  /\ UNCHANGED <<Files, events, broken>>

WritePid(p) ==
  /\ proc[p].pc = "pid"
  /\ lease' = IF lease # None /\ lease.by = p THEN [lease EXCEPT !.told = TRUE] ELSE lease
  /\ Goto(p, "scan")
  /\ UNCHANGED <<Files, events, broken>>

(* The end of the block, normal or by an exception: whatever lease is      *)
(* there is removed.                                                       *)
Release(p) ==
  /\ proc[p].pc = "release"
  /\ lease' = None
  /\ Goto(p, "up")
  /\ UNCHANGED <<Files, events, broken>>

-----------------------------------------------------------------------------
(* maintain_logs: the archive of the sources *)

Scan(p) ==
  /\ proc[p].pc = "scan"
  /\ \/ Flushed /\ \E q \in Candidates(proc[p].now) : Go(p, [proc[p] EXCEPT !.pc = "source", !.todo = q])
     \/ FlushFails /\ Go(p, [proc[p] EXCEPT !.pc = "release", !.failed = @ + 1])
  /\ UNCHANGED <<Files, lease, broken>>

Current(p) == Head(proc[p].todo)

Same(m, a) == m.name = a.name /\ m.lines = a.lines

(* verify_archive: the members are the files the manifest names, unchanged. *)
Verified(a) == a.there /\ a.sound

(* A formal archive already there must be sound and still be the source.   *)
CheckSource(p) ==
  LET s == Current(p) IN
  /\ proc[p].pc = "source" /\ proc[p].todo # <<>>
  /\ IF ~arch[s].there THEN Goto(p, "list")
     ELSE IF Verified(arch[s]) /\ Same(src[s], arch[s]) THEN Goto(p, "told")
     ELSE NextItem(p, "source", 1)
  /\ UNCHANGED <<Files, lease, events, broken>>

(* _create_archive: the manifest, then the bundle, read back and compared  *)
(* with the manifest, then the atomic replacement of the formal name.      *)
ListFiles(p) ==
  /\ proc[p].pc = "list"
  /\ Go(p, [proc[p] EXCEPT !.pc = "pack", !.man = src[Current(p)]])
  /\ UNCHANGED <<Files, lease, events, broken>>

Pack(p) ==
  LET s == Current(p) IN
  /\ proc[p].pc = "pack"
  /\ IF Same(src[s], proc[p].man)
       THEN tmp' = tmp \union {[by |-> p, of |-> s]} /\ Goto(p, "swap")
       ELSE NextItem(p, "source", 1) /\ UNCHANGED tmp
  /\ UNCHANGED <<today, src, arch, planned, written, live, lease, events, history>>

Swap(p) ==
  LET s == Current(p) IN
  /\ proc[p].pc = "swap"
  /\ arch' = [arch EXCEPT ![s] = [there |-> TRUE, name |-> proc[p].man.name,
                                  lines |-> proc[p].man.lines, sound |-> TRUE]]
  /\ tmp' = tmp \ {[by |-> p, of |-> s]}
  /\ Goto(p, "told")
  /\ UNCHANGED <<today, src, planned, written, live, lease, events, history>>

TellCreated(p) ==
  /\ proc[p].pc = "told"
  /\ \/ Flushed /\ Goto(p, "unlink")
     \/ FlushFails /\ NextItem(p, "source", 1)
  /\ UNCHANGED <<Files, lease, broken>>

(* rmtree: the file, then the directory, which must be empty by then.      *)
RemoveFile(p) ==
  /\ proc[p].pc = "unlink"
  /\ src' = [src EXCEPT ![Current(p)].name = "none", ![Current(p)].lines = {}]
  /\ Goto(p, "rmdir")
  /\ UNCHANGED <<today, arch, tmp, planned, written, live, lease, events, history>>

RemoveDir(p) ==
  LET s == Current(p) IN
  /\ proc[p].pc = "rmdir"
  /\ \/ /\ src[s].name = "none" /\ src[s].dir
        /\ src' = [src EXCEPT ![s] = NoDir]
        /\ \/ Flushed /\ NextItem(p, "source", 0)
           \/ FlushFails /\ NextItem(p, "source", 1)
     \/ /\ src[s].name # "none" \/ ~src[s].dir
        /\ Flushed /\ NextItem(p, "source", 1) /\ UNCHANGED src
  /\ UNCHANGED <<today, arch, tmp, planned, written, live, lease, history>>

-----------------------------------------------------------------------------
(* maintain_logs: the eviction of formal archives *)

OverAge(p) ==
  Oldest({s \in FormalArchives : proc[p].now - Date[s] >= Days})

StartAge(p) ==
  /\ proc[p].pc = "source" /\ proc[p].todo = <<>>
  /\ \E q \in OverAge(p) : Go(p, [proc[p] EXCEPT !.pc = "age", !.todo = q])
  /\ UNCHANGED <<Files, lease, events, broken>>

StartSize(p) ==
  /\ proc[p].pc = "age" /\ proc[p].todo = <<>>
  /\ \E q \in Oldest(FormalArchives) : Go(p, [proc[p] EXCEPT !.pc = "size", !.todo = q, !.total = TreeBytes])
  /\ UNCHANGED <<Files, lease, events, broken>>

Doomed(p) ==
  /\ proc[p].pc \in {"age", "size"} /\ proc[p].todo # <<>>
  /\ proc[p].pc = "size" => proc[p].total > MaxTotal

Deleting == [age |-> "age delete", size |-> "size delete"]
Loop == [pc \in {"age delete", "size delete"} |-> IF pc = "age delete" THEN "age" ELSE "size"]

(* _delete_archive: verified and planned on disk before it is removed.     *)
PlanDelete(p) ==
  LET s == Current(p) IN
  /\ Doomed(p)
  /\ \/ /\ Verified(arch[s]) /\ Flushed
        /\ planned' = planned \union {[of |-> s, lines |-> arch[s].lines]}
        /\ Goto(p, Deleting[proc[p].pc])
     \/ /\ Verified(arch[s]) => FlushFails
        /\ ~Verified(arch[s]) => Flushed
        /\ NextItem(p, proc[p].pc, 1) /\ UNCHANGED planned
  /\ UNCHANGED <<today, src, arch, tmp, written, live, lease, history>>

(* What was released is taken off the total only when its audit is on disk. *)
DeleteArchive(p) ==
  LET s == Current(p)
      loop == Loop[proc[p].pc] IN
  /\ proc[p].pc \in {"age delete", "size delete"}
  /\ IF arch[s].there
       THEN /\ arch' = [arch EXCEPT ![s] = NoArchive]
            /\ \/ /\ Flushed
                  /\ Go(p, [proc[p] EXCEPT !.pc = loop, !.todo = Tail(@),
                              !.total = IF loop = "size" THEN @ - 1 ELSE @])
               \/ FlushFails /\ NextItem(p, loop, 1)
       ELSE Flushed /\ NextItem(p, loop, 1) /\ UNCHANGED arch
  /\ UNCHANGED <<today, src, tmp, planned, written, live, lease, history>>

(* The summary: an exception when it cannot be flushed leaves the block    *)
(* the same way.                                                           *)
Complete(p) ==
  /\ proc[p].pc = "size" /\ ~Doomed(p)
  /\ \/ Flushed /\ Go(p, [proc[p] EXCEPT !.pc = "release", !.todo = <<>>, !.man = NoDir])
     \/ FlushFails /\ Go(p, [proc[p] EXCEPT !.pc = "release", !.todo = <<>>, !.man = NoDir, !.failed = @ + 1])
  /\ UNCHANGED <<Files, lease, broken>>

-----------------------------------------------------------------------------
(* The life of a process, and faults *)

Exit(p) ==
  /\ proc[p].pc = "up"
  /\ Go(p, Off)
  /\ UNCHANGED <<Files, lease, events, broken>>

Crash(p) ==
  /\ proc[p].pc \notin {"off", "up"} /\ events < MaxEvents
  /\ Go(p, Off)
  /\ events' = events + 1
  /\ UNCHANGED <<Files, lease, broken>>

Rot(s) ==
  /\ arch[s].there /\ arch[s].sound /\ events < MaxEvents
  /\ arch' = [arch EXCEPT ![s].sound = FALSE]
  /\ events' = events + 1
  /\ UNCHANGED <<today, src, tmp, planned, written, live, lease, proc, history>>

Maintain(p) ==
  \/ ReadLease(p) \/ BreakLease(p) \/ TakeLease(p) \/ WritePid(p) \/ Release(p)
  \/ Scan(p) \/ CheckSource(p) \/ ListFiles(p) \/ Pack(p) \/ Swap(p) \/ TellCreated(p)
  \/ RemoveFile(p) \/ RemoveDir(p) \/ StartAge(p) \/ StartSize(p)
  \/ PlanDelete(p) \/ DeleteArchive(p) \/ Complete(p)

Next ==
  \/ Tick
  \/ \E s \in Sources : Rollover(s) \/ RunEnds(s) \/ Rot(s) \/ \E l \in Lines : WriteLine(s, l)
  \/ \E p \in Procs : Start(p) \/ Maintain(p) \/ Exit(p) \/ Crash(p)

Spec == Init /\ [][Next]_vars

-----------------------------------------------------------------------------
(* Properties *)

(* No line of a log is lost, however many backends start and die, unless a *)
(* lease was broken under a maintenance at work: one that was written is   *)
(* in its source, in the archive of the source, or in an archive whose     *)
(* deletion was planned on disk with those lines; only a line that a unit  *)
(* run appends after its directory was compared may be gone with it.       *)
(* (maintain_logs: a source goes only after its archive was compared with  *)
(* it, an archive only after its plan.)                                    *)
NoLineLost ==
  ~broken => \A s \in Sources :
    written[s] \subseteq src[s].lines \union arch[s].lines
                        \union (UNION {d.lines : d \in {e \in planned : e.of = s}})
                        \union (IF Kind[s] = "unit-tests" THEN missed[s] ELSE {})
=============================================================================
