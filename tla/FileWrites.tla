----------------------------- MODULE FileWrites -----------------------------
(***************************************************************************)
(* The write and edit tools of one turn in one workspace: the command lock  *)
(* of the workspace, the access decision before and after each wait, the    *)
(* evidence kept around the commit of a file (services/file_effects.py),    *)
(* batches of files that stop at their first refused item                   *)
(* (workspaces/batch_mutation.py), what the owner of the message stores of  *)
(* a call (services/chat.py, services/tool_details.py), and what the next   *)
(* turn is told about an interrupted one (context/interruption.py).         *)
(*                                                                          *)
(* Between two awaits the code runs as one step, so a commit is the single  *)
(* step that re-reads the file and replaces it; a process outside the       *)
(* backend may change the file between any two steps.  The model bases its  *)
(* call on the version it last read, the one a file has when the call       *)
(* begins.  Contents are version tokens: <<c, i>> is what item i of call c  *)
(* writes.  Limits on sizes and on how many facts are told are left out.    *)
(***************************************************************************)
EXTENDS FileBounds

VARIABLES
  file,       \* the content of each path, None when there is no file
  access,     \* the Owner's grant still stands
  holder,     \* the call that holds the command lock of the workspace
  call,       \* where a call is and its private receipt
  evidence,   \* file_effects: state and row id of <<call, item>>, or None
  rows,       \* the last row id given out
  detail,     \* what the message has of a call: none, its start, or its result
  turn,       \* the turn: running, stopping, or cut off by a crash
  changes,    \* history: items that changed a file, and whether on the version they were based on
  late,       \* history: items whose access ended before they were let through
  lost,       \* history: items with a piece of evidence that could not be stored
  faults

vars == <<file, access, holder, call, evidence, rows, detail, turn, changes, late,
          lost, faults>>

Unknown == "unknown"
Idle == [pc |-> "idle", ask |-> None, at |-> 0, base |-> <<>>, nodes |-> <<>>,
         status |-> "running", cancel |-> FALSE]
Path(c, i) == call[c].ask.items[i]
Items(c) == IF call[c].ask = None THEN {} ELSE DOMAIN call[c].ask.items
Pairs == {p \in Calls \X (1..MaxItems) : p[2] \in Items(p[1])}
Here(c) == <<c, call[c].at>>
Node(status, applied) == [status |-> status, applied |-> applied]
Live(c) == call[c].pc \notin {"idle", "over"}
Fault == faults < MaxFaults /\ faults' = faults + 1

Init ==
  /\ file = Initial
  /\ access = TRUE
  /\ holder = None
  /\ call = [c \in Calls |-> Idle]
  /\ evidence = [p \in Calls \X (1..MaxItems) |-> None]
  /\ rows = 0
  /\ detail = [c \in Calls |-> "none"]
  /\ turn = "running"
  /\ changes = {} /\ late = {} /\ lost = {}
  /\ faults = 0

-----------------------------------------------------------------------------
(* One call                                                                 *)

\* A single call is at its item at once; a batch has its precheck first.
Begin(c, q) ==
  /\ turn = "running" /\ call[c].pc = "idle"
  /\ q.op = "edit" => \A i \in DOMAIN q.items : file[q.items[i]] # None
  /\ call' = [call EXCEPT ![c] =
       [pc |-> "wait", ask |-> q, at |-> IF q.batch THEN 0 ELSE 1,
        base |-> [i \in DOMAIN q.items |-> file[q.items[i]]],
        nodes |-> [i \in DOMAIN q.items |->
                     IF q.batch THEN Node("not_executed", "no") ELSE Node("running", Unknown)],
        status |-> "running", cancel |-> FALSE]]
  /\ UNCHANGED <<file, access, holder, evidence, rows, detail, turn, changes, late, lost, faults>>

Lock(c) ==
  /\ call[c].pc = "wait" /\ holder = None
  /\ holder' = c
  /\ call' = [call EXCEPT ![c].pc = IF call[c].at = 0 THEN "precheck" ELSE "check"]
  /\ UNCHANGED <<file, access, evidence, rows, detail, turn, changes, late, lost, faults>>

\* Some item was applied, by what the receipt knows.
Applied(nodes) == \E i \in DOMAIN nodes : nodes[i].applied = "yes"

\* The call of record r ends with a refusal of item i.
Refused(r, i) ==
  LET nodes == [r.nodes EXCEPT ![i] = Node("failed", "no")]
  IN [r EXCEPT !.pc = "over", !.nodes = nodes,
        !.status = CASE r.at = 0 -> "rejected"
                     [] r.at > 0 /\ Applied(nodes) -> "partial"
                     [] OTHER -> "failed"]

\* Mutant: a failed file operation counts as not submitted.
UnconfirmedDenied(r) == [r EXCEPT !.pc = "over", !.status = "failed", !.nodes[r.at] = Node("failed", "no")]

\* A file operation failed inside: nobody knows what it left behind.
Unconfirmed(r) ==
  [r EXCEPT !.pc = "over", !.status = "result_unconfirmed",
            !.nodes[r.at] = Node("result_unconfirmed", Unknown)]

\* The call of record r is cancelled while it waits.
Cancelled(r) ==
  LET running == r.at > 0 /\ r.nodes[r.at].status = "running"
  IN [r EXCEPT !.pc = "over", !.status = "cancelled",
        !.nodes = IF running THEN [r.nodes EXCEPT ![r.at] = Node("result_unconfirmed", Unknown)]
                  ELSE r.nodes]

\* Neither the queue of writers nor the lock may be waited for longer than 30 s.
GiveUp(c) ==
  /\ call[c].pc = "wait" /\ Fault
  /\ call' = [call EXCEPT ![c] = IF call[c].at = 0 THEN [@ EXCEPT !.pc = "over", !.status = "rejected"]
                                 ELSE Refused(@, call[c].at)]
  /\ UNCHANGED <<file, access, holder, evidence, rows, detail, turn, changes, late, lost>>

\* The items of a batch that may not be written as things are; the first one is told.
Misfits(c) ==
  {i \in Items(c) : \/ ~access
                    \/ file[Path(c, i)] # call[c].base[i]
                    \/ \E j \in 1..(i - 1) : Path(c, j) = Path(c, i)}
Precheck(c) ==
  /\ call[c].pc = "precheck"
  /\ holder' = None
  /\ \/ Misfits(c) = {} /\ call' = [call EXCEPT ![c].pc = "wait", ![c].at = 1]
     \/ \E i \in Misfits(c) : /\ \A j \in Misfits(c) : i <= j
                              /\ call' = [call EXCEPT ![c] = Refused(@, i)]
  /\ UNCHANGED <<file, access, evidence, rows, detail, turn, changes, late, lost, faults>>

\* Authorised, then prepared against the file as it is.
Check(c) ==
  /\ call[c].pc = "check"
  /\ IF access /\ file[Path(c, call[c].at)] = call[c].base[call[c].at]
     THEN /\ call' = [call EXCEPT ![c].pc = "store", ![c].nodes[call[c].at] = Node("running", Unknown)]
          /\ UNCHANGED holder
     ELSE /\ call' = [call EXCEPT ![c] = Refused(@, call[c].at)]
          /\ holder' = None
  /\ UNCHANGED <<file, access, evidence, rows, detail, turn, changes, late, lost, faults>>

\* One row per item, whose id says when its first evidence was stored.
Keep(p, state) ==
  IF evidence[p] = None
  THEN /\ rows' = rows + 1
       /\ evidence' = [evidence EXCEPT ![p] = [state |-> state, row |-> rows + 1]]
  ELSE /\ evidence' = [evidence EXCEPT ![p].state = state]
       /\ UNCHANGED rows
\* The database may fail: the file operation goes on.
Record(p, state) ==
  \/ Keep(p, state) /\ UNCHANGED <<lost, faults>>
  \/ Fault /\ lost' = lost \cup {p} /\ UNCHANGED <<evidence, rows>>

\* A cancelled call lets the record finish before it ends.
Store(c) ==
  /\ call[c].pc = "store"
  /\ Record(Here(c), "prepared")
  /\ IF call[c].cancel
     THEN call' = [call EXCEPT ![c] = Cancelled(@)] /\ holder' = None
     ELSE call' = [call EXCEPT ![c].pc = "recheck"] /\ UNCHANGED holder
  /\ UNCHANGED <<file, access, detail, turn, changes, late>>

Recheck(c) ==
  /\ call[c].pc = "recheck"
  /\ IF access
     THEN call' = [call EXCEPT ![c].pc = "commit"] /\ UNCHANGED holder
     ELSE call' = [call EXCEPT ![c] = Refused(@, call[c].at)] /\ holder' = None
  /\ UNCHANGED <<file, access, evidence, rows, detail, turn, changes, late, lost, faults>>

\* A write that fails stores once more what it had prepared, an edit does not.
Again(c) == IF call[c].ask.op = "write" THEN Record(Here(c), "prepared")
            ELSE UNCHANGED <<evidence, rows, lost, faults>>

\* Mutant: the version checked before the wait is not read again.
UnchangedSince(c) == call[c].pc = "commit"

\* The version the commit relies on is still the one on disk.
Unchanged(c) == file[Path(c, call[c].at)] = call[c].base[call[c].at]

Commit(c) ==
  /\ call[c].pc = "commit" /\ Unchanged(c)
  /\ file' = [file EXCEPT ![Path(c, call[c].at)] = Here(c)]
  /\ changes' = changes \cup {[item |-> Here(c), based |-> file[Path(c, call[c].at)] = call[c].base[call[c].at]]}
  /\ call' = [call EXCEPT ![c].pc = "confirm", ![c].nodes[call[c].at] = Node("success", "yes")]
  /\ UNCHANGED <<access, holder, evidence, rows, detail, turn, late, lost, faults>>

Conflict(c) ==
  /\ call[c].pc = "commit" /\ ~Unchanged(c)
  /\ Again(c)
  /\ call' = [call EXCEPT ![c] = Refused(@, call[c].at)]
  /\ holder' = None
  /\ UNCHANGED <<file, access, detail, turn, changes, late>>

\* A new file may be left half written, a replacement leaves the old one.
Break(c) ==
  /\ call[c].pc = "commit" /\ Unchanged(c) /\ Fault
  /\ file' = IF call[c].base[call[c].at] = None THEN [file EXCEPT ![Path(c, call[c].at)] = Torn] ELSE file
  /\ changes' = IF file' = file THEN changes ELSE changes \cup {[item |-> Here(c), based |-> TRUE]}
  /\ IF call[c].ask.op = "write" THEN Keep(Here(c), "prepared") ELSE UNCHANGED <<evidence, rows>>
  /\ call' = [call EXCEPT ![c] = Unconfirmed(@)]
  /\ holder' = None
  /\ UNCHANGED <<access, detail, turn, late, lost>>

\* The lock is left before the difference is computed.
Confirm(c) ==
  /\ call[c].pc = "confirm"
  /\ Record(Here(c), "confirmed")
  /\ holder' = None
  /\ call' = [call EXCEPT ![c] = IF call[c].cancel THEN Cancelled(@) ELSE [@ EXCEPT !.pc = "diff"]]
  /\ UNCHANGED <<file, access, detail, turn, changes, late>>

Next1(r) == IF r.at < Len(r.nodes) THEN [r EXCEPT !.pc = "wait", !.at = @ + 1]
            ELSE [r EXCEPT !.pc = "over", !.status = "success"]
Compared(c) ==
  /\ call[c].pc = "diff"
  /\ call' = [call EXCEPT ![c] = Next1(@)]
  /\ UNCHANGED <<file, access, holder, evidence, rows, detail, turn, changes, late, lost, faults>>

-----------------------------------------------------------------------------
(* What happens around the calls                                            *)

\* The consumer of the turn's events has stored that the call began.
Observe(c) ==
  /\ turn = "running" /\ call[c].pc # "idle" /\ detail[c] = "none"
  /\ detail' = [detail EXCEPT ![c] = "input"]
  /\ UNCHANGED <<file, access, holder, call, evidence, rows, turn, changes, late, lost, faults>>

\* The owner of the message stores the receipt of a call that is over; once
\* the turn is stopped it first waits for every tool to have ended.
Deliver(c) ==
  /\ call[c].pc = "over" /\ detail[c] # "output"
  /\ turn = "stopping" => \A d \in Calls : ~Live(d)
  /\ detail' = [detail EXCEPT ![c] = "output"]
  /\ UNCHANGED <<file, access, holder, call, evidence, rows, turn, changes, late, lost, faults>>

\* A call that stores evidence is cancelled when that is done; a commit has
\* no await at which it could be.
Stop ==
  /\ turn = "running" /\ \A c \in Calls : call[c].pc # "commit"
  /\ turn' = "stopping"
  /\ call' = [c \in Calls |-> CASE ~Live(c) -> call[c]
                               [] call[c].pc \in {"store", "confirm"} -> [call[c] EXCEPT !.cancel = TRUE]
                               [] OTHER -> Cancelled(call[c])]
  /\ holder' = IF holder # None /\ call'[holder].pc = "over" THEN None ELSE holder
  /\ UNCHANGED <<file, access, evidence, rows, detail, changes, late, lost, faults>>

Crash ==
  /\ turn' = "crashed"
  /\ UNCHANGED <<file, access, holder, call, evidence, rows, detail, changes, late, lost, faults>>

\* The role loses the tool, the binding is switched off or a service starts.
Withdraw ==
  /\ access /\ access' = FALSE
  /\ late' = {p \in Pairs : LET r == call[p[1]] IN
                      Live(p[1]) /\ (p[2] > r.at \/ (p[2] = r.at /\ r.pc \in {"wait", "check", "store", "recheck"}))}
  /\ UNCHANGED <<file, holder, call, evidence, rows, detail, turn, changes, lost, faults>>

Edited(p) ==
  /\ file[p] # Outside /\ Fault
  /\ file' = [file EXCEPT ![p] = Outside]
  /\ UNCHANGED <<access, holder, call, evidence, rows, detail, turn, changes, late, lost>>

Step(c) ==
  \/ \E q \in Requests : Begin(c, q)
  \/ Lock(c) \/ GiveUp(c) \/ Precheck(c) \/ Check(c) \/ Store(c) \/ Recheck(c)
  \/ Commit(c) \/ Conflict(c) \/ Break(c) \/ Confirm(c) \/ Compared(c)
  \/ Observe(c) \/ Deliver(c)

Next == /\ turn # "crashed"
        /\ \/ \E c \in Calls : Step(c)
           \/ Stop \/ Crash \/ Withdraw
           \/ \E p \in Paths : Edited(p)

Spec == Init /\ [][Next]_vars

-----------------------------------------------------------------------------
(* What the next turn is told                                               *)

Interrupted ==
  \/ turn = "crashed"
  \/ turn = "stopping" /\ \A c \in Calls : call[c].pc = "idle" \/ detail[c] = "output"

\* The stored result of a call says something about item i.
Answers(c, i) == detail[c] = "output" /\ (call[c].ask.batch \/ call[c].nodes[i].applied # Unknown)
FromNode(n) == IF n.applied = "yes" THEN "confirmed"
               ELSE IF n.applied = Unknown THEN "unknown"
               ELSE IF n.status = "not_executed" THEN "not_executed" ELSE "not_submitted"

\* Evidence of a commit stands; other evidence gives way to a known result.
Merged(p) ==
  LET kept == evidence[p] # None
      node == call[p[1]].nodes[p[2]]
      firm == kept /\ evidence[p].state = "confirmed"
  IN IF Answers(p[1], p[2]) /\ ~firm /\ ~(kept /\ node.applied = Unknown)
     THEN FromNode(node) ELSE evidence[p].state

Candidates == {p \in Pairs : evidence[p] # None \/ Answers(p[1], p[2])}
Told(p) == [path |-> Path(p[1], p[2]), state |-> Merged(p)]

\* Of the items of one path that left evidence, the latest is told.
Hidden(p) ==
  evidence[p] # None
  /\ \E o \in Candidates : /\ Path(o[1], o[2]) = Path(p[1], p[2])
                           /\ evidence[o] # None /\ evidence[o].row > evidence[p].row
Facts == {p \in Candidates : ~Hidden(p)}

-----------------------------------------------------------------------------
(* Properties                                                               *)

Changed == {x.item : x \in changes}

\* What the report claims for certain is true: an item told as confirmed did
\* change its file, one told as not executed or not submitted did not.
ReportIsTrue ==
  Interrupted =>
    \A p \in Candidates :
      /\ Merged(p) = "confirmed" => p \in Changed
      /\ Merged(p) \in {"not_executed", "not_submitted"} => p \notin Changed

\* No commit replaces a version its caller has not seen, although other calls
\* and outside programs write while the evidence is being stored.
NoLostUpdate == \A x \in changes : x.based

=============================================================================
