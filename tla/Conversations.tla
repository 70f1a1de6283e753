--------------------------- MODULE Conversations ---------------------------
(***************************************************************************)
(* One conversation under its Owner's requests: its workspace, its role    *)
(* members, its coordinator and its bin (routers/conversations.py), the    *)
(* workspaces and roles it names (routers/workspaces.py, routers/roles.py),*)
(* the clean-up scope that closes the runtime while they change            *)
(* (runtime/manager.py, runtime/registry.py), the messages that start      *)
(* replies in it (routers/messages.py, services/chat.py) and the           *)
(* coordinated run that lives on its appointment (workflows/).             *)
(*                                                                         *)
(* A request is a record that moves through the awaits of its handler; two *)
(* locks order some of the handlers, the revision of the conversation the  *)
(* others.  A conversation is of one kind: commands and services run only  *)
(* in a single chat, a coordinator is appointed only in a group.           *)
(***************************************************************************)
EXTENDS Integers, FiniteSets, Sequences

CONSTANTS
  Roles, Spaces, Requests,
  Alone,      \* the role of a single chat
  MaxGens,    \* bound: replies asked for
  MaxCalls,   \* bound: requests of the Owner, by the kind of conversation
  MaxEvents   \* bound: clean-ups that fail, restarts

VARIABLES
  conv,     \* the conversation's row and its role members
  space,    \* workspace -> "on", "off" or "gone"
  role,     \* role -> "on", "off" or "gone"
  gens,     \* replies asked for, in order
  run,      \* the coordinated run
  live,     \* workspaces with a runtime entry of this conversation
  op,       \* scope -> its clean-up operations: "none", "running" or "failed"
  locks,    \* the holders of manager.cleanup_lock and service.control_lock
  req,      \* request -> where its handler is
  calls,    \* requests made
  events    \* faults that happened

vars == <<conv, space, role, gens, run, live, op, locks, req, calls, events>>

None == "none"
Conv == "conversation"
Scopes == Spaces \union {Conv}

NoRequest == [pc |-> "idle", job |-> None, space |-> None, roles |-> {}, coord |-> None,
              exp |-> 0, confirm |-> FALSE, targets |-> {}, seen |-> 0]
NoRun == [st |-> None, app |-> 0, coord |-> None, space |-> None]

Jobs == {"rebind", "appoint", "members", "delete", "disable", "enable", "discard", "role", "send", "start"}

TypeOK ==
  /\ conv.st \in {None, "kept", "bin", "gone"} /\ conv.ws \in Spaces \union {None}
  /\ conv.members \subseteq Roles /\ conv.coord \in Roles \union {None}
  /\ \A g \in 1..Len(gens) : gens[g].st \in {"queued", "running", "over"}
  /\ run.st \in {None, "active", "stopping", "over"}
  /\ live \subseteq Spaces /\ locks.cleanup \in Requests \union {None}
  /\ \A r \in Requests : req[r].job \in Jobs \union {None}

(* The conversation is still to be made, or is a group with an appointment. *)
Init ==
  /\ \/ \E kind \in {"single", "group"} :
          conv = [kind |-> kind, st |-> None, ws |-> None, rev |-> 0, members |-> {},
                  coord |-> None, app |-> 0, old |-> FALSE]
     \/ \E ws \in Spaces \union {None} :
          conv = [kind |-> "group", st |-> "kept", ws |-> ws, rev |-> 1, members |-> Roles,
                  coord |-> Alone, app |-> 1, old |-> FALSE]
  /\ space = [s \in Spaces |-> "on"] /\ role = [x \in Roles |-> "on"]
  /\ gens = <<>> /\ run = NoRun /\ live = {}
  /\ op = [c \in Scopes |-> None]
  /\ locks = [cleanup |-> None, control |-> None]
  /\ req = [r \in Requests |-> NoRequest]
  /\ calls = 0 /\ events = 0

-----------------------------------------------------------------------------
(* What the handlers read. *)

Kept == conv.st = "kept"
Usable(roles) == \A x \in roles : role[x] = "on"
Available(s) == s \in {None} \union {x \in Spaces : space[x] = "on"}

Pending(g) == gens[g].st \in {"queued", "running"}
RunActive == run.st \in {"active", "stopping"}

\* A message chain that is not over: a reply that waits or is written, a run.
ActiveChain == RunActive \/ \E g \in 1..Len(gens) : Pending(g)

\* Replies of one chain are stopped: those that wait at once, those being
\* written are told.
StopChain(chain) ==
  [g \in 1..Len(gens) |->
     IF gens[g].chain # chain \/ ~Pending(g) THEN gens[g]
     ELSE IF gens[g].st = "queued" THEN [gens[g] EXCEPT !.st = "over"]
     ELSE [gens[g] EXCEPT !.stop = TRUE]]

\* A changed appointment closes the run that was started under the old one.
RevokeRuns == [run EXCEPT !.st = IF RunActive THEN "stopping" ELSE @]

Finished(r) == [req EXCEPT ![r] = NoRequest]
At(r, pc) == [req EXCEPT ![r].pc = pc]

-----------------------------------------------------------------------------
(* Conversations are created whole. *)

Create(members, coord, s) ==
  /\ conv.st = None
  /\ IF conv.kind = "single" THEN members = {Alone} ELSE Cardinality(members) >= 2
  /\ Usable(members) /\ coord \in members \union {None}
  /\ conv.kind = "single" => coord = None
  /\ Available(s)
  /\ conv' = [conv EXCEPT !.st = "kept", !.ws = s, !.members = members, !.coord = coord]
  /\ UNCHANGED <<space, role, gens, run, live, op, locks, req, calls, events>>

-----------------------------------------------------------------------------
(* The clean-up scope: under its lock the entries of the scope are frozen,  *)
(* ended one by one, and only then the change is made; the gate stays       *)
(* closed meanwhile, and after a failure.                                   *)

ScopeOf(q) == IF q.job \in {"rebind", "delete"} THEN Conv ELSE q.space
EntriesOf(scope) == IF scope = Conv THEN live ELSE live \intersect {scope}

Used(q) == EntriesOf(ScopeOf(q)) # {}

Freeze(r) ==
  LET q == req[r] IN
  /\ q.pc = "freeze" /\ locks.cleanup = None
  /\ \/ /\ q.job = "rebind" => conv.rev = q.exp
        /\ Used(q) => q.confirm
        /\ op' = [op EXCEPT ![ScopeOf(q)] = "running"]
        /\ locks' = [locks EXCEPT !.cleanup = r]
        /\ req' = [req EXCEPT ![r].pc = "drain", ![r].targets = EntriesOf(ScopeOf(q))]
     \/ /\ \/ q.job = "rebind" /\ conv.rev # q.exp
           \/ Used(q) /\ ~q.confirm
        /\ req' = Finished(r) /\ UNCHANGED <<op, locks>>
  /\ UNCHANGED <<conv, space, role, gens, run, live, calls, events>>

Drain(r) ==
  /\ req[r].pc = "drain"
  /\ live' = live \ req[r].targets
  /\ req' = At(r, "apply")
  /\ UNCHANGED <<conv, space, role, gens, run, op, locks, calls, events>>

\* The scope ends: a failure keeps its gate closed, a success opens it and
\* supersedes earlier failures.
EndScope(r, success) ==
  /\ op' = [op EXCEPT ![ScopeOf(req[r])] = IF success THEN None ELSE "failed"]
  /\ locks' = [locks EXCEPT !.cleanup = None]
  /\ req' = Finished(r)

DrainFails(r) ==
  /\ req[r].pc = "drain" /\ events < MaxEvents
  /\ \E left \in SUBSET req[r].targets : live' = (live \ req[r].targets) \union (left \intersect live)
  /\ EndScope(r, FALSE)
  /\ events' = events + 1
  /\ UNCHANGED <<conv, space, role, gens, run, calls>>

-----------------------------------------------------------------------------
(* Requests that change what the conversation is bound to. *)

Ask(r, q) ==
  /\ req[r] = NoRequest /\ calls < MaxCalls[conv.kind]
  /\ req' = [req EXCEPT ![r] = q]
  /\ calls' = calls + 1
  /\ UNCHANGED <<conv, space, role, gens, run, live, op, locks, events>>

\* What the handlers refuse before they take a lock.
AskRebind(r, s, confirm) ==
  /\ Kept /\ Available(s)
  /\ conv.ws # s => ~ActiveChain /\ (live # {} => confirm)
  /\ Ask(r, [NoRequest EXCEPT !.pc = IF conv.ws = s THEN "alone" ELSE "freeze", !.job = "rebind",
                              !.space = s, !.exp = conv.rev, !.confirm = confirm])

AskDelete(r, confirm) ==
  /\ Kept /\ (live # {} => confirm)
  /\ Ask(r, [NoRequest EXCEPT !.pc = "freeze", !.job = "delete", !.confirm = confirm])

AskSpace(r, job, s, confirm) ==
  /\ space[s] # "gone"
  /\ job # "enable" /\ s \in live => confirm
  /\ Ask(r, [NoRequest EXCEPT !.pc = IF job = "enable" THEN "alone" ELSE "freeze", !.job = job,
                              !.space = s, !.confirm = confirm])

\* The binding as the database accepts it: at the revision the Owner saw, and
\* with no message chain that works in the workspace that is left.
ReboundUnder(q, changed) == Kept /\ Available(q.space) /\ conv.rev = q.exp

Rebound(q, changed) ==
  Kept /\ Available(q.space) /\ conv.rev = q.exp /\ (changed => ~ActiveChain)

Bound(s, rev) == [conv EXCEPT !.ws = s, !.rev = rev]

ApplyRebind(r) ==
  LET q == req[r]  ok == Rebound(q, TRUE) IN
  /\ q.pc = "apply" /\ q.job = "rebind"
  /\ conv' = IF ok THEN Bound(q.space, q.exp + 1) ELSE conv
  /\ EndScope(r, ok)
  /\ UNCHANGED <<space, role, gens, run, live, calls, events>>

ApplyDelete(r) ==
  /\ req[r].pc = "apply" /\ req[r].job = "delete"
  /\ conv' = [conv EXCEPT !.st = "bin", !.old = FALSE]
  /\ EndScope(r, TRUE)
  /\ UNCHANGED <<space, role, gens, run, live, calls, events>>

ApplyDisable(r) ==
  LET q == req[r] IN
  /\ q.pc = "apply" /\ q.job = "disable"
  /\ space' = IF space[q.space] = "gone" THEN space ELSE [space EXCEPT ![q.space] = "off"]
  /\ EndScope(r, space[q.space] # "gone")
  /\ UNCHANGED <<conv, role, gens, run, live, calls, events>>

\* A workspace that is deleted unbinds the conversations it is bound to: the
\* rows are read, and written with the revision that was read.
ReadBound(r) ==
  LET q == req[r] IN
  /\ q.pc = "apply" /\ q.job = "discard"
  /\ req' = [req EXCEPT ![r].pc = "unbind", ![r].seen = IF conv.ws = q.space THEN conv.rev + 1 ELSE 0]
  /\ UNCHANGED <<conv, space, role, gens, run, live, op, locks, calls, events>>

Unbind(r) ==
  LET q == req[r] IN
  /\ q.pc = "unbind"
  /\ conv' = IF conv.ws # q.space THEN conv
             ELSE Bound(None, IF q.seen > 0 THEN q.seen ELSE conv.rev)
  /\ space' = [space EXCEPT ![q.space] = "gone"]
  /\ EndScope(r, TRUE)
  /\ UNCHANGED <<role, gens, run, live, calls, events>>

\* Changes that end no entry take the lock of the scope alone.
ApplyAlone(r) ==
  LET q == req[r] IN
  /\ q.pc = "alone" /\ locks.cleanup = None
  /\ conv' = IF q.job = "rebind" /\ Rebound(q, FALSE) THEN Bound(q.space, q.exp + 1) ELSE conv
  /\ space' = IF q.job = "enable" /\ space[q.space] = "off" THEN [space EXCEPT ![q.space] = "on"] ELSE space
  /\ req' = Finished(r)
  /\ UNCHANGED <<role, gens, run, live, op, locks, calls, events>>

Restore ==
  /\ conv.st = "bin" /\ calls < MaxCalls[conv.kind]
  /\ conv' = [conv EXCEPT !.st = "kept", !.old = FALSE]
  /\ calls' = calls + 1
  /\ UNCHANGED <<space, role, gens, run, live, op, locks, req, events>>

\* The retention time of a deleted conversation passes.
Expire ==
  /\ conv.st = "bin" /\ ~conv.old
  /\ conv' = [conv EXCEPT !.old = TRUE]
  /\ UNCHANGED <<space, role, gens, run, live, op, locks, req, calls, events>>

-----------------------------------------------------------------------------
(* Members, coordinator and roles change under the control lock. *)

AskAppoint(r, x) ==
  /\ Kept /\ conv.kind = "group"
  /\ Ask(r, [NoRequest EXCEPT !.pc = "control", !.job = "appoint", !.coord = x, !.exp = conv.rev])

AskMembers(r, members) ==
  /\ Kept /\ conv.kind = "group" /\ Cardinality(members) >= 2
  /\ Ask(r, [NoRequest EXCEPT !.pc = "control", !.job = "members", !.roles = members, !.exp = conv.rev])

\* The chains of a revoked run are stopped after the change is committed.
ThenStop(r, revoked, held) ==
  /\ req' = IF revoked THEN At(r, "stop") ELSE Finished(r)
  /\ locks' = [locks EXCEPT !.control = IF revoked /\ held THEN r ELSE None]

Appointable(q) ==
  /\ Kept /\ conv.rev = q.exp
  /\ q.coord = None \/ (q.coord \in conv.members /\ role[q.coord] = "on")

Appoint(r) ==
  LET q == req[r] IN
  /\ q.pc = "control" /\ q.job = "appoint" /\ locks.control = None
  /\ IF Appointable(q)
     THEN /\ conv' = [conv EXCEPT !.coord = q.coord, !.rev = @ + 1, !.app = @ + 1]
          /\ run' = RevokeRuns
          /\ ThenStop(r, RunActive, TRUE)
     ELSE req' = Finished(r) /\ UNCHANGED <<conv, run, locks>>
  /\ UNCHANGED <<space, role, gens, live, op, calls, events>>

UpdateMembers(r) ==
  LET q == req[r]
      revoked == conv.coord # None /\ conv.coord \notin q.roles IN
  /\ q.pc = "control" /\ q.job = "members" /\ locks.control = None
  /\ IF Kept /\ Usable(q.roles) /\ conv.rev = q.exp
     THEN /\ conv' = [conv EXCEPT !.members = q.roles, !.rev = @ + 1,
                                  !.app = IF revoked THEN @ + 1 ELSE @,
                                  !.coord = IF revoked THEN None ELSE @]
          /\ run' = IF revoked THEN RevokeRuns ELSE run
          /\ ThenStop(r, revoked /\ RunActive, FALSE)
     ELSE req' = Finished(r) /\ UNCHANGED <<conv, run, locks>>
  /\ UNCHANGED <<space, role, gens, live, op, calls, events>>

StopRevoked(r) ==
  /\ req[r].pc = "stop"
  /\ gens' = StopChain(0)
  /\ locks' = [locks EXCEPT !.control = IF @ = r THEN None ELSE @]
  /\ req' = Finished(r)
  /\ UNCHANGED <<conv, space, role, run, live, op, calls, events>>

UpdateRoleAlone(x, st) ==
  /\ locks.control = None /\ calls < MaxCalls[conv.kind]
  /\ role[x] # "gone" /\ role[x] # st
  /\ role' = [role EXCEPT ![x] = st] /\ calls' = calls + 1
  /\ UNCHANGED <<conv, space, gens, run, live, op, locks, req, events>>

\* A role is switched on or off, or deleted; a coordinator that goes takes the
\* run of its appointment with it.
UpdateRole(x, st) ==
  /\ locks.control = None /\ calls < MaxCalls[conv.kind]
  /\ role[x] # "gone" /\ role[x] # st
  /\ role' = [role EXCEPT ![x] = st]
  /\ run' = IF st # "on" /\ conv.coord = x THEN RevokeRuns ELSE run
  /\ calls' = calls + 1
  /\ UNCHANGED <<conv, space, gens, live, op, locks, req, events>>

-----------------------------------------------------------------------------
(* Messages and the replies they ask for. *)

AskSend(r, targets) ==
  /\ Kept /\ targets # {} /\ targets \subseteq conv.members /\ Usable(targets)
  /\ Len(gens) + Cardinality(targets) <= MaxGens
  /\ Ask(r, [NoRequest EXCEPT !.pc = "insert", !.job = "send", !.targets = targets, !.exp = calls + 1])

Queued(x, chain) == [st |-> "queued", role |-> x, chain |-> chain, stop |-> FALSE]

\* The message and its replies are inserted as they were resolved.
InsertMessage(r) ==
  LET q == req[r] IN
  /\ q.pc = "insert"
  /\ \/ /\ conv.st # "gone" /\ Len(gens) + Cardinality(q.targets) <= MaxGens
        /\ \E order \in [1..Cardinality(q.targets) -> q.targets] :
             /\ \A x \in q.targets : \E i \in DOMAIN order : order[i] = x
             /\ gens' = gens \o [i \in DOMAIN order |-> Queued(order[i], q.exp)]
     \/ (conv.st = "gone" \/ Len(gens) + Cardinality(q.targets) > MaxGens) /\ UNCHANGED gens
  /\ req' = Finished(r)
  /\ UNCHANGED <<conv, space, role, run, live, op, locks, calls, events>>

\* A reply begins where the conversation, its role and its run still allow it.
Begin(g) ==
  /\ gens[g].st = "queued" /\ \A h \in 1..(g - 1) : ~Pending(h)
  /\ gens' = [gens EXCEPT ![g].st =
                IF /\ Kept /\ gens[g].role \in conv.members /\ role[gens[g].role] = "on"
                   /\ gens[g].chain = 0 => run.st = "active"
                THEN "running" ELSE "over"]
  /\ UNCHANGED <<conv, space, role, run, live, op, locks, req, calls, events>>

End(g) ==
  /\ gens[g].st = "running"
  /\ gens' = [gens EXCEPT ![g].st = "over"]
  /\ UNCHANGED <<conv, space, role, run, live, op, locks, req, calls, events>>

\* The Owner stops what is being written, or the latest that waits.
Stopped == IF \E g \in 1..Len(gens) : gens[g].st = "running"
           THEN CHOOSE g \in 1..Len(gens) : gens[g].st = "running"
           ELSE CHOOSE g \in 1..Len(gens) : Pending(g) /\ \A h \in (g + 1)..Len(gens) : ~Pending(h)

StopGeneration ==
  /\ Kept /\ calls < MaxCalls[conv.kind] /\ \E g \in 1..Len(gens) : Pending(g)
  /\ LET chain == gens[Stopped].chain IN
     /\ gens' = StopChain(chain)
     /\ chain = 0 => locks.control = None
     /\ run' = IF chain = 0 THEN RevokeRuns ELSE run
  /\ calls' = calls + 1
  /\ UNCHANGED <<conv, space, role, live, op, locks, req, events>>

\* The gate of the registry: no clean-up of the scope that is not over, a
\* conversation that is there, bound to this workspace, which is on.
AdmittedOpen(s) == Kept /\ conv.ws = s /\ space[s] = "on"

Admitted(s) ==
  /\ op[Conv] = None /\ op[s] = None
  /\ Kept /\ conv.ws = s /\ space[s] = "on"

\* A reply of a single chat starts a command or a service.
Reserve(g, s) ==
  /\ conv.kind = "single" /\ gens[g].st = "running" /\ ~gens[g].stop
  /\ role[gens[g].role] = "on" /\ gens[g].role \in conv.members
  /\ s \notin live /\ Admitted(s)
  /\ live' = live \union {s}
  /\ UNCHANGED <<conv, space, role, gens, run, op, locks, req, calls, events>>

Exit(s) ==
  /\ s \in live /\ live' = live \ {s}
  /\ UNCHANGED <<conv, space, role, gens, run, op, locks, req, calls, events>>

-----------------------------------------------------------------------------
(* The coordinated run. *)

Coordinated == conv.app > 0 /\ conv.coord # None /\ conv.coord \in conv.members /\ role[conv.coord] = "on"

\* The start holds the control lock from its first read to its commit.
ReadStart(r) ==
  /\ locks.control = None /\ req[r] = NoRequest /\ calls < MaxCalls[conv.kind]
  /\ Kept /\ conv.kind = "group" /\ Coordinated /\ run.st = None
  /\ req' = [req EXCEPT ![r] = [NoRequest EXCEPT !.pc = "start", !.job = "start", !.coord = conv.coord,
                                                 !.exp = conv.app, !.space = conv.ws]]
  /\ locks' = [locks EXCEPT !.control = r]
  /\ calls' = calls + 1
  /\ UNCHANGED <<conv, space, role, gens, run, live, op, events>>

InsertRun(r) ==
  LET q == req[r] IN
  /\ q.pc = "start"
  /\ run' = [st |-> "active", app |-> q.exp, coord |-> q.coord, space |-> q.space]
  /\ locks' = [locks EXCEPT !.control = None]
  /\ req' = Finished(r)
  /\ UNCHANGED <<conv, space, role, gens, live, op, calls, events>>

\* What every tick of the engine checks before it goes on.
Checked ==
  /\ Kept /\ conv.ws = run.space /\ Available(run.space)
  /\ conv.coord = run.coord /\ conv.app = run.app /\ Coordinated

OfRun == {g \in 1..Len(gens) : gens[g].chain = 0 /\ Pending(g)}

Advance ==
  /\ locks.control = None /\ RunActive
  /\ \/ /\ run.st = "active" /\ ~Checked
        /\ run' = RevokeRuns /\ gens' = StopChain(0)
     \/ /\ run.st = "stopping" /\ OfRun # {}
        /\ gens' = StopChain(0) /\ UNCHANGED run
     \/ /\ run.st = "active" /\ Checked /\ OfRun = {} /\ Len(gens) < MaxGens
        /\ \E x \in conv.members : role[x] = "on" /\ gens' = Append(gens, Queued(x, 0))
        /\ UNCHANGED run
     \/ /\ OfRun = {} /\ (run.st = "active" => Checked)
        /\ run' = [run EXCEPT !.st = "over"] /\ UNCHANGED gens
  /\ UNCHANGED <<conv, space, role, live, op, locks, req, calls, events>>

-----------------------------------------------------------------------------
(* The backend starts again: what was under way is interrupted, entries are *)
(* reaped, and conversations past their retention are purged.               *)

Restart ==
  /\ conv.st # None /\ events < MaxEvents
  /\ req' = [r \in Requests |-> NoRequest]
  /\ locks' = [cleanup |-> None, control |-> None]
  /\ gens' = [g \in 1..Len(gens) |-> IF Pending(g) THEN [gens[g] EXCEPT !.st = "over"] ELSE gens[g]]
  /\ run' = IF RunActive THEN [run EXCEPT !.st = "over"] ELSE run
  /\ live' = {} /\ op' = [c \in Scopes |-> None]
  /\ conv' = IF conv.st = "bin" /\ conv.old THEN [conv EXCEPT !.st = "gone"] ELSE conv
  /\ events' = events + 1
  /\ UNCHANGED <<space, role, calls>>

Next ==
  \/ \E members \in SUBSET Roles, coord \in Roles \union {None}, s \in Spaces \union {None} : Create(members, coord, s)
  \/ \E r \in Requests, s \in Spaces \union {None}, confirm \in BOOLEAN : AskRebind(r, s, confirm)
  \/ \E r \in Requests, confirm \in BOOLEAN : AskDelete(r, confirm)
  \/ \E r \in Requests, job \in {"enable", "disable", "discard"}, s \in Spaces, confirm \in BOOLEAN : AskSpace(r, job, s, confirm)
  \/ \E r \in Requests, x \in Roles \union {None} : AskAppoint(r, x)
  \/ \E r \in Requests, members \in SUBSET Roles : AskMembers(r, members)
  \/ \E r \in Requests, targets \in SUBSET conv.members : AskSend(r, targets)
  \/ \E r \in Requests : Freeze(r) \/ Drain(r) \/ DrainFails(r) \/ ApplyRebind(r) \/ ApplyDelete(r) \/ ApplyDisable(r)
                         \/ ReadBound(r) \/ Unbind(r) \/ ApplyAlone(r) \/ Appoint(r) \/ UpdateMembers(r)
                         \/ StopRevoked(r) \/ InsertMessage(r) \/ ReadStart(r) \/ InsertRun(r)
  \/ \E x \in Roles, st \in {"on", "off", "gone"} : UpdateRole(x, st)
  \/ \E g \in 1..Len(gens) : Begin(g) \/ End(g) \/ \E s \in Spaces : Reserve(g, s)
  \/ \E s \in Spaces : Exit(s)
  \/ Restore \/ Expire \/ StopGeneration \/ Advance \/ Restart

Spec == Init /\ [][Next]_vars

-----------------------------------------------------------------------------
(* What the handlers promise together. *)

\* A command or a service runs only in the workspace its conversation is bound
\* to, while that is on and the conversation is not in the bin: what changes
\* one of the three has ended the entries, and no reply has started another
\* behind its back (cleanup_scope, begin_cleanup, _admission).
RunsWhereBound == \A s \in live : conv.ws = s /\ Kept /\ space[s] = "on"

\* The workspace under a message chain that waits or works is not exchanged,
\* however late the chain was started; only a deleted workspace goes
\* (update_conversation_workspace).
BoundWhileIdle ==
  [][conv.st = "kept" /\ conv'.ws # conv.ws /\ (conv.ws = None \/ space'[conv.ws] # "gone") => ~ActiveChain]_vars

\* A run that may dispatch has the appointment it was started under, and its
\* coordinator is there (appoint_orchestrator, update_group_members,
\* update_role, delete_role, start).
AppointedRun ==
  run.st = "active" =>
    /\ conv.app = run.app /\ conv.coord = run.coord
    /\ run.coord \in conv.members /\ role[run.coord] = "on"

=============================================================================
