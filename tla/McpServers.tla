----------------------------- MODULE McpServers -----------------------------
(***************************************************************************)
(* The pool of stdio servers (mcp/manager.py): one host task per server,   *)
(* which opens the process, initialises it, serves the queue of calls and  *)
(* ends its process tree; callers that share the host of their key, wait   *)
(* for it to be ready and for the answer to their call; cancelled callers, *)
(* closed servers and failing starts.                                      *)
(*                                                                         *)
(* A process is named by the host that opened it.  A tree is the process   *)
(* and what it started; the client library ends the process alone.  Which  *)
(* process is its own a host takes from the children that are new since it *)
(* began to open (161); two servers that open together may each take the   *)
(* process of the other, so a host keeps, for the property alone, whether  *)
(* another was being opened meanwhile (alone, a history variable).         *)
(***************************************************************************)
EXTENDS Naturals, FiniteSets, Sequences

CONSTANTS
  Keys, Callers,
  MaxHosts    \* bound: hosts started

VARIABLES
  pool,    \* key -> its host, 0 for none
  host,    \* the hosts, in the order of their start
  tree,    \* their process trees: "none", "up", "grand" (only what it started) or "gone"
  caller   \* caller -> where its call is

vars == <<pool, host, tree, caller>>

None == "none"
Hosts == 1..Len(host)
NewHost(k) == [key |-> k, at |-> "new", ready |-> "pending", queue |-> <<>>, now |-> None,
               pid |-> 0, before |-> {}, cancel |-> FALSE, alone |-> TRUE]

TypeOK ==
  /\ \A k \in Keys : pool[k] \in 0..Len(host)
  /\ \A h \in Hosts : /\ host[h].at \in {"new", "opening", "opened", "serving", "leaving", "over"}
                      /\ host[h].ready \in {"pending", "ok", "failed", "cancelled"}
                      /\ host[h].pid \in 0..Len(host) /\ host[h].now \in Callers \union {None}
  /\ Len(tree) = Len(host)

Init ==
  /\ pool = [k \in Keys |-> 0] /\ host = <<>> /\ tree = <<>>
  /\ caller = [c \in Callers |-> [pc |-> "idle", host |-> 0]]

-----------------------------------------------------------------------------
(* Callers. *)

Alive(h) == h # 0 /\ host[h].at # "over"

\* The host of a key is the one in the pool as long as its task runs.
Call(c, k) ==
  LET kept == IF pool[k] = 0 THEN FALSE ELSE Alive(pool[k])
      h == IF kept THEN pool[k] ELSE Len(host) + 1 IN
  /\ caller[c].pc = "idle" /\ h <= MaxHosts
  /\ host' = IF kept THEN host ELSE Append(host, NewHost(k))
  /\ tree' = IF kept THEN tree ELSE Append(tree, "none")
  /\ pool' = [pool EXCEPT ![k] = h]
  /\ caller' = [caller EXCEPT ![c] = [pc |-> "ready", host |-> h]]

\* A caller goes on as its host has become: it puts its call in the queue of a
\* host that is ready, and shares the failure of one that is not.
Resume(c) ==
  LET h == caller[c].host IN
  /\ caller[c].pc = "ready" /\ host[h].ready # "pending"
  /\ IF host[h].ready = "ok"
     THEN /\ caller' = [caller EXCEPT ![c].pc = "asked"]
          /\ host' = [host EXCEPT ![h].queue = Append(@, c)]
     ELSE /\ caller' = [caller EXCEPT ![c].pc = host[h].ready]
          /\ UNCHANGED host
  /\ UNCHANGED <<pool, tree>>

\* A caller that waits is cancelled, and with it the future it waits for: its
\* own answer, or the readiness it shares.
Cancel(c) ==
  LET h == caller[c].host IN
  /\ caller[c].pc \in {"ready", "asked"}
  /\ caller' = [caller EXCEPT ![c].pc = "cancelled"]
  /\ host' = IF caller[c].pc = "ready" /\ host[h].ready = "pending"
             THEN [host EXCEPT ![h].ready = "cancelled"] ELSE host
  /\ UNCHANGED <<pool, tree>>

-----------------------------------------------------------------------------
(* A host. *)

\* kill_process_tree: the process and its descendants, if it is still there.
Killed(trees, p) == [q \in DOMAIN trees |-> IF q = p /\ trees[q] = "up" THEN "gone" ELSE trees[q]]

\* Leaving the client ends the process alone; then the host ends the tree of
\* the process it took for its own.
Left(h, left) == [tree EXCEPT ![h] = IF @ = "up" THEN left ELSE @]
Ended(h, left) == Killed(Left(h, left), host[h].pid)

Children == {h \in Hosts : tree[h] = "up"}
Opening == {h \in Hosts : host[h].at = "opening"}

\* The children of this process are noted, and the server is opened, whoever
\* else is being opened.
Open(h) ==
  /\ host[h].at = "new" /\ ~host[h].cancel
  /\ host' = [g \in Hosts |->
                IF g = h THEN [host[h] EXCEPT !.at = "opening", !.before = Children, !.alone = Opening = {}]
                ELSE IF g \in Opening THEN [host[g] EXCEPT !.alone = FALSE] ELSE host[g]]
  /\ UNCHANGED <<pool, tree, caller>>

Spawn(h) ==
  /\ host[h].at = "opening" /\ tree[h] = "none"
  /\ tree' = [tree EXCEPT ![h] = "up"]
  /\ UNCHANGED <<pool, host, caller>>

\* The process is taken to be a child that was not there before, if there is
\* one: that of another server may be there, or its own be gone.
Opened(h) ==
  LET found == Children \ host[h].before IN
  /\ host[h].at = "opening" /\ tree[h] # "none" /\ ~host[h].cancel
  /\ \E p \in IF found = {} THEN {0} ELSE found : host' = [host EXCEPT ![h].at = "opened", ![h].pid = p]
  /\ UNCHANGED <<pool, tree, caller>>

Initialized(h) ==
  /\ host[h].at = "opened" /\ ~host[h].cancel
  /\ host' = [host EXCEPT ![h].at = "serving", ![h].ready = IF @ = "pending" THEN "ok" ELSE @]
  /\ UNCHANGED <<pool, tree, caller>>

\* The end of a host task: who waits for its readiness is told, the call it was
\* at is cancelled, and its process tree is ended last.
OverQuietly(h, ready) == [host EXCEPT ![h].at = "over", ![h].now = None]

Over(h, ready) ==
  [host EXCEPT ![h].at = "over", ![h].now = None, ![h].ready = IF @ = "pending" THEN ready ELSE @]

\* The command is not found, or its process does not start.
Fail(h) ==
  /\ host[h].at \in {"new", "opening"} /\ tree[h] = "none" /\ ~host[h].cancel
  /\ host' = Over(h, "failed")
  /\ UNCHANGED <<pool, tree, caller>>

\* The server does not initialise: the client is left, which waits for the
\* process to end; what that started may stay.
FailInit(h) ==
  /\ host[h].at = "opened" /\ ~host[h].cancel
  /\ host' = [host EXCEPT ![h].at = "leaving"]
  /\ UNCHANGED <<pool, tree, caller>>

Exited(h) ==
  /\ host[h].at = "leaving" /\ ~host[h].cancel
  /\ \E left \in {"grand", "gone"} : tree' = Ended(h, left)
  /\ host' = Over(h, "failed")
  /\ UNCHANGED <<pool, caller>>

Cancelled(h) ==
  /\ host[h].cancel /\ host[h].at # "over"
  /\ host' = Over(h, "cancelled")
  /\ tree' = Ended(h, "grand")
  /\ caller' = IF host[h].now = None THEN caller
               ELSE [caller EXCEPT ![host[h].now].pc = IF @ = "asked" THEN "cancelled" ELSE @]
  /\ UNCHANGED pool

Take(h) ==
  /\ host[h].at = "serving" /\ host[h].now = None /\ host[h].queue # <<>> /\ ~host[h].cancel
  /\ host' = [host EXCEPT ![h].now = Head(host[h].queue), ![h].queue = Tail(@)]
  /\ UNCHANGED <<pool, tree, caller>>

\* The server answers, fails, or does not answer in time; a caller that left
\* is not told.
Answer(h, how) ==
  /\ host[h].at = "serving" /\ host[h].now # None /\ ~host[h].cancel
  /\ how = "answered" => tree[h] = "up"
  /\ caller' = [caller EXCEPT ![host[h].now].pc = IF @ = "asked" THEN how ELSE @]
  /\ host' = [host EXCEPT ![h].now = None]
  /\ UNCHANGED <<pool, tree>>

CloseTask(k) ==
  /\ pool[k] # 0 /\ Alive(pool[k])
  /\ pool' = [pool EXCEPT ![k] = 0]
  /\ host' = [host EXCEPT ![pool[k]].cancel = TRUE]
  /\ UNCHANGED <<tree, caller>>

\* A server is closed: it leaves the pool, its tree is ended, then its task.
Close(k) ==
  /\ pool[k] # 0 /\ Alive(pool[k])
  /\ pool' = [pool EXCEPT ![k] = 0]
  /\ tree' = Killed(tree, host[pool[k]].pid)
  /\ host' = [host EXCEPT ![pool[k]].cancel = TRUE]
  /\ UNCHANGED caller

Next ==
  \/ \E c \in Callers : Resume(c) \/ Cancel(c) \/ \E k \in Keys : Call(c, k)
  \/ \E h \in Hosts : Open(h) \/ Spawn(h) \/ Opened(h) \/ Initialized(h) \/ Fail(h) \/ FailInit(h) \/ Exited(h) \/ Cancelled(h) \/ Take(h)
                      \/ \E how \in {"answered", "failed"} : Answer(h, how)
  \/ \E k \in Keys : Close(k)

Spec == Init /\ [][Next]_vars

-----------------------------------------------------------------------------
\* Nobody waits for the readiness of a host that has ended: every way out of
\* the task resolves it (run, fail_ready_if_pending).
WaitersWake == \A c \in Callers : caller[c].pc = "ready" => \/ host[caller[c].host].ready # "pending"
                                                             \/ Alive(caller[c].host)

\* A server that was opened while no other was being opened and is closed once
\* its process is known leaves nothing of its tree behind, and its tree is
\* ended by its own host alone, whatever opens before and after it (_stop,
\* kill_process_tree).  Nothing of this holds of servers opened together.
TreesAreTheirs ==
  \A h \in Hosts : host[h].alone =>
    /\ host[h].cancel /\ host[h].at = "over" /\ host[h].pid # 0 => tree[h] = "gone"
    /\ host[h].at \in {"opening", "opened", "serving"} /\ ~host[h].cancel => tree[h] # "gone"

=============================================================================
