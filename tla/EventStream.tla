---------------------------- MODULE EventStream ----------------------------
(***************************************************************************)
(* The event stream of one conversation and one client: the event log and   *)
(* the hub (realtime/store.py, events.py), the subscription served by the    *)
(* socket (realtime/websocket.py), the client's SessionStream               *)
(* (frontend api/stream.ts) and the chat store around it (store/chat.ts).   *)
(*                                                                         *)
(* An event is its number in the log.  The screen is one message, and every  *)
(* event a revision of it: text is the sequence of events that went into it, *)
(* and the revision, which the store compares before it applies a delta, is  *)
(* the last of them.  The history is read message by message, each as new as *)
(* the moment of its read, so one message stands for any of them.            *)
(***************************************************************************)
EXTENDS Naturals, Sequences

CONSTANTS
  QueueSize,       \* 512: maxsize of a subscriber's queue
  BacklogLimit,    \* 300: _BACKLOG_LIMIT
  MaxRecoveries,   \* 3: repairs of a gap before the client gives up
  MaxAttempts,     \* 6: failed connections before the client gives up
  MaxEvents,       \* bound: events that are committed
  MaxOpens,        \* bound: times the user opens the conversation
  MaxFaults        \* bound: restarts, lost connections or pushes, failed calls, lost access

ASSUME StreamAssumption ==
  /\ QueueSize \in Nat \ {0}
  /\ BacklogLimit \in Nat
  /\ MaxRecoveries \in Nat
  /\ MaxAttempts \in Nat
  /\ MaxEvents \in Nat
  /\ MaxOpens \in Nat
  /\ MaxFaults \in Nat

VARIABLES
  \* the server
  log,          \* the epoch in which each event was stored
  epoch,        \* stream epoch of the running process
  pending,      \* events that are committed and not yet published
  queue,        \* the hub's queue of this client's subscription
  session,      \* the socket's subscription, see Sessions
  member,       \* the user is a member of the conversation
  \* the connection
  link,         \* "down", "open" (authenticated) or "failed" (given up)
  up, down,     \* frames under way to the server and to the client
  \* the client
  attempts, connError,
  sel,          \* SessionStream.selection
  ids,          \* subscription ids drawn so far
  unsub,        \* pendingUnsubscribe
  recoveries,
  status,       \* the store's subscription status
  view,         \* the conversation on the screen
  rest,         \* the history request under way
  cache,        \* HistoryCache entry of this conversation
  \* budgets and history
  opens, faults,
  missed        \* events whose push this subscription will never get

server == <<log, epoch, pending, queue, session, member>>
connection == <<link, attempts, connError>>
screen == <<view, rest, cache>>
selected == <<sel, ids, unsub, recoveries, status>>
bounds == <<opens, faults>>
vars == <<server, connection, up, down, selected, screen, bounds, missed>>

-----------------------------------------------------------------------------
NoSel == [id |-> 0, cursor |-> 0, epoch |-> 0]
NoRest == [phase |-> "none", cursor |-> 0, upto |-> 0, epoch |-> 0]
NoCache == [text |-> <<>>, cursor |-> 0, epoch |-> 0]
Blank == [open |-> FALSE, text |-> <<>>, epoch |-> 0]
Detached == [sub |-> 0, phase |-> "idle", pump |-> "none", after |-> 0, epoch |-> 0,
             mark |-> 0, joined |-> 0]

\* phase: idle in receive(), or where _send_recovery is; pump: none, on, or
\* ended by itself; joined (history): the log when the queue was registered.
Sessions ==
  [sub : Nat, phase : {"idle", "latest", "mark", "content", "backlog"},
   pump : {"none", "on", "ended"}, after : Nat, epoch : Nat, mark : Nat, joined : Nat]

Selections == [id : Nat, cursor : Nat, epoch : Nat]

Frames ==
  [type : {"snapshot", "subscribed", "sync_complete", "event", "error", "unsubscribed"},
   sid : Nat, epoch : Nat, seq : Nat, upto : Nat]

Requests == [type : {"subscribe", "unsubscribe"}, sid : Nat, after : Nat, epoch : Nat]

Requested == [phase : {"none", "asked", "marked", "answered"}, cursor : Nat, upto : Nat, epoch : Nat]

TypeOK ==
  /\ log \in Seq(Nat) /\ Len(log) <= MaxEvents
  /\ epoch \in Nat \ {0}
  /\ pending \subseteq 1 .. Len(log)
  /\ queue \in Seq(Nat) /\ Len(queue) <= QueueSize
  /\ session \in Sessions
  /\ member \in BOOLEAN
  /\ link \in {"down", "open", "failed"}
  /\ up \in Seq(Requests)
  /\ down \in Seq(Frames)
  /\ attempts \in 0 .. MaxAttempts + 1 /\ connError \in BOOLEAN
  /\ sel \in Selections /\ ids \in Nat /\ unsub \in Nat
  /\ recoveries \in 0 .. MaxRecoveries + 1
  /\ status \in {"idle", "syncing", "ready", "failed"}
  /\ view \in [open : BOOLEAN, text : Seq(Nat), epoch : Nat]
  /\ rest \in Requested
  /\ cache \in [text : Seq(Nat), cursor : Nat, epoch : Nat]
  /\ opens \in 0 .. MaxOpens /\ faults \in 0 .. MaxFaults
  /\ missed \subseteq 1 .. Len(log)

Init ==
  /\ log = <<>> /\ epoch = 1 /\ pending = {} /\ queue = <<>>
  /\ session = Detached /\ member = TRUE
  /\ link = "down" /\ up = <<>> /\ down = <<>>
  /\ attempts = 0 /\ connError = FALSE
  /\ sel = NoSel /\ ids = 0 /\ unsub = 0 /\ recoveries = 0 /\ status = "idle"
  /\ view = Blank /\ rest = NoRest /\ cache = NoCache
  /\ opens = MaxOpens /\ faults = MaxFaults /\ missed = {}

History(n) == [i \in 1 .. n |-> i]

-----------------------------------------------------------------------------
(* The event log and the hub.                                               *)

\* append_event() and the caller's commit: one write transaction of SQLite.
Commit ==
  /\ Len(log) < MaxEvents
  /\ log' = Append(log, epoch)
  /\ pending' = pending \cup {Len(log) + 1}
  /\ UNCHANGED <<epoch, queue, session, member, connection, up, down, selected, screen, bounds, missed>>

Pumping == session.pump = "on"

\* The queue is registered before anything is read from the log.
Registered == session.sub # 0

Pushed(s) == IF Len(queue) < QueueSize THEN Append(queue, s) ELSE queue

\* publish_events() after the commit; two committers get here in any order.
Publish(s) ==
  /\ s \in pending
  /\ pending' = pending \ {s}
  /\ queue' = IF Registered THEN Pushed(s) ELSE queue
  /\ missed' = IF Registered /\ Len(queue) >= QueueSize THEN missed \cup {s} ELSE missed
  /\ UNCHANGED <<log, epoch, session, member, connection, up, down, selected, screen, bounds>>

\* The committing task is cancelled, or fails, between commit and publish.
LosePush(s) ==
  /\ s \in pending /\ faults > 0
  /\ faults' = faults - 1
  /\ pending' = pending \ {s}
  /\ missed' = IF session.sub # 0 THEN missed \cup {s} ELSE missed
  /\ UNCHANGED <<log, epoch, queue, session, member, connection, up, down, selected, screen, opens>>

LeaveConversation ==
  /\ member /\ faults > 0
  /\ faults' = faults - 1
  /\ member' = FALSE
  /\ UNCHANGED <<log, epoch, pending, queue, session, connection, up, down, selected, screen, opens, missed>>

-----------------------------------------------------------------------------
(* The socket's receive loop, recovery and pump.                            *)

Frame(type, ep, seq, upto) ==
  [type |-> type, sid |-> session.sub, epoch |-> ep, seq |-> seq, upto |-> upto]

Answer(type, id) == [type |-> type, sid |-> id, epoch |-> 0, seq |-> 0, upto |-> 0]

\* detach(): the pump is awaited, the queue leaves the hub.
Detach == session' = Detached /\ queue' = <<>> /\ missed' = {}

\* A subscribe frame of a member replaces the subscription: the queue is
\* registered first, and the recovery starts.
HandleSubscribe ==
  /\ up # <<>> /\ Head(up).type = "subscribe" /\ session.phase = "idle"
  /\ up' = Tail(up)
  /\ IF member
     THEN /\ session' = [Detached EXCEPT !.sub = Head(up).sid, !.phase = "latest",
                           !.after = Head(up).after, !.epoch = Head(up).epoch, !.joined = Len(log)]
          /\ queue' = <<>> /\ missed' = {}
          /\ UNCHANGED down
     ELSE /\ down' = Append(down, Answer("error", Head(up).sid))
          /\ UNCHANGED <<session, queue, missed>>
  /\ UNCHANGED <<log, epoch, pending, member, connection, selected, screen, bounds>>

\* Only the subscription that is named is removed.
HandleUnsubscribe ==
  /\ up # <<>> /\ Head(up).type = "unsubscribe" /\ session.phase = "idle"
  /\ up' = Tail(up)
  /\ down' = Append(down, Answer("unsubscribed", Head(up).sid))
  /\ IF Head(up).sid = session.sub THEN Detach ELSE UNCHANGED <<session, queue, missed>>
  /\ UNCHANGED <<log, epoch, pending, member, connection, selected, screen, bounds>>

\* The heartbeat of a client that is no member any more ends its subscription.
HandlePing ==
  /\ link = "open" /\ session.phase = "idle" /\ session.sub # 0 /\ ~member
  /\ down' = Append(down, Answer("error", session.sub))
  /\ Detach
  /\ UNCHANGED <<log, epoch, pending, member, connection, up, selected, screen, bounds>>

NeedsSnapshot ==
  \/ session.epoch # epoch
  \/ Len(log) > session.after + BacklogLimit
  \/ session.after > Len(log)

\* latest_event_seq() decides between a snapshot and the backlog.
RecoverLatest ==
  /\ session.phase = "latest"
  /\ session' = [session EXCEPT !.phase = IF NeedsSnapshot THEN "mark" ELSE "backlog"]
  /\ UNCHANGED <<log, epoch, pending, queue, member, connection, up, down, selected, screen, bounds, missed>>

\* The snapshot reads the conversation's event_seq before its messages.
RecoverMark ==
  /\ session.phase = "mark"
  /\ session' = [session EXCEPT !.phase = "content", !.mark = Len(log)]
  /\ UNCHANGED <<log, epoch, pending, queue, member, connection, up, down, selected, screen, bounds, missed>>

MarkedByContent(mark) == Frame("snapshot", epoch, Len(log), mark)

Snapshot(mark) == Frame("snapshot", epoch, mark, Len(log))

Recovered(frames) ==
  /\ down' = down \o frames
  /\ session' = [session EXCEPT !.phase = "idle", !.pump = "on"]
  /\ UNCHANGED <<queue, missed>>

\* _AccessDenied: the subscription is detached and refused.
Refused ==
  /\ down' = Append(down, Answer("error", session.sub))
  /\ Detach

\* through_event_seq after a snapshot is the snapshot's own event_seq.
Watermark == session.mark

RecoverContent ==
  /\ session.phase = "content"
  /\ IF member
     THEN Recovered(<<Snapshot(session.mark), Frame("sync_complete", epoch, Watermark, 0)>>)
     ELSE Refused
  /\ UNCHANGED <<log, epoch, pending, member, connection, up, selected, screen, bounds>>

Smaller(a, b) == IF a < b THEN a ELSE b

\* The last event read_backlog() returns.
Through(after) == Smaller(Len(log), after + BacklogLimit)

\* read_backlog(), then the events in order and the watermark.
Backlog(after) ==
  <<Frame("subscribed", epoch, 0, 0)>>
    \o [i \in 1 .. Through(after) - after |-> Frame("event", log[after + i], after + i, 0)]
    \o <<Frame("sync_complete", epoch, Through(after), 0)>>

RecoverBacklog ==
  /\ session.phase = "backlog"
  /\ IF member THEN Recovered(Backlog(session.after)) ELSE Refused
  /\ UNCHANGED <<log, epoch, pending, member, connection, up, selected, screen, bounds>>

\* _pump() takes one event, checks the access again and sends it.
Pump ==
  /\ Pumping /\ queue # <<>>
  /\ queue' = Tail(queue)
  /\ IF member
     THEN /\ down' = Append(down, Frame("event", log[Head(queue)], Head(queue), 0))
          /\ UNCHANGED session
     ELSE /\ down' = Append(down, Answer("error", session.sub))
          /\ session' = [session EXCEPT !.pump = "ended"]
  /\ UNCHANGED <<log, epoch, pending, member, connection, up, selected, screen, bounds, missed>>

\* The access check raises something else (the database): nobody awaits the pump.
PumpDies ==
  /\ Pumping /\ queue # <<>> /\ faults > 0
  /\ faults' = faults - 1
  /\ queue' = Tail(queue)
  /\ session' = [session EXCEPT !.pump = "ended"]
  /\ UNCHANGED <<log, epoch, pending, member, connection, up, down, selected, screen, opens, missed>>

-----------------------------------------------------------------------------
(* The client's connection.                                                 *)

Sent(frames, f) == IF link = "open" THEN Append(frames, f) ELSE frames

SubscribeFrame(s) == [type |-> "subscribe", sid |-> s.id, after |-> s.cursor, epoch |-> s.epoch]
UnsubscribeFrame(id) == [type |-> "unsubscribe", sid |-> id, after |-> 0, epoch |-> 0]

\* onclose: keep the selection and try again, unless it was tried too often.
LinkLost(lostStatus) ==
  /\ attempts' = attempts + 1
  /\ IF attempts + 1 > MaxAttempts
     THEN link' = "failed" /\ connError' = TRUE /\ status' = "failed"
     ELSE /\ link' = "down" /\ UNCHANGED connError
          /\ status' = IF sel # NoSel THEN "syncing" ELSE lostStatus
  /\ UNCHANGED <<sel, ids, unsub, recoveries>>

ServerForgets == session' = Detached /\ queue' = <<>> /\ missed' = {} /\ up' = <<>> /\ down' = <<>>

Drop ==
  /\ link = "open" /\ faults > 0
  /\ faults' = faults - 1
  /\ LinkLost(status)
  /\ ServerForgets
  /\ UNCHANGED <<log, epoch, pending, member, screen, opens>>

DialFails ==
  /\ link = "down"
  /\ LinkLost(status)
  /\ UNCHANGED <<server, up, down, screen, bounds, missed>>

\* The process dies and starts again; an answer that has left still arrives.
Restart ==
  /\ faults > 0
  /\ faults' = faults - 1
  /\ epoch' = epoch + 1
  /\ pending' = {}
  /\ rest' = IF rest.phase = "answered" THEN rest ELSE NoRest
  /\ LET left == IF rest.phase \in {"asked", "marked"} THEN "failed" ELSE status IN
     IF link = "open" THEN LinkLost(left)
     ELSE status' = left /\ UNCHANGED <<connection, sel, ids, unsub, recoveries>>
  /\ ServerForgets
  /\ UNCHANGED <<log, member, view, cache, opens>>

\* The timer draws a new id; auth_ok sends the selection.
Connect ==
  /\ link = "down"
  /\ link' = "open" /\ attempts' = 0 /\ connError' = FALSE
  /\ IF sel # NoSel
     THEN /\ sel' = [sel EXCEPT !.id = ids + 1] /\ ids' = ids + 1
          /\ up' = <<SubscribeFrame(sel')>>
     ELSE UNCHANGED <<sel, ids, up>>
  /\ UNCHANGED <<server, down, unsub, recoveries, status, screen, bounds, missed>>

-----------------------------------------------------------------------------
(* Frames received by the client.                                           *)

Mine(f) == sel # NoSel /\ f.sid = sel.id

Received(type) == down # <<>> /\ Head(down).type = type /\ down' = Tail(down)

\* failSubscription(): unsubscribe and report.
FailSubscription ==
  /\ up' = Sent(up, UnsubscribeFrame(sel.id))
  /\ sel' = NoSel /\ unsub' = 0 /\ status' = "failed"
  /\ UNCHANGED ids

\* recoverGap(): subscribe again from the cursor under a new id.
RecoverGap ==
  /\ recoveries' = recoveries + 1
  /\ IF recoveries + 1 > MaxRecoveries THEN FailSubscription
     ELSE /\ sel' = [sel EXCEPT !.id = ids + 1] /\ ids' = ids + 1
          /\ status' = "syncing"
          /\ up' = Sent(up, SubscribeFrame(sel'))
          /\ UNCHANGED unsub

\* A frame that does not belong to the selection changes nothing.
ReceiveLate ==
  /\ down # <<>> /\ Head(down).type # "unsubscribed" /\ ~Mine(Head(down))
  /\ down' = Tail(down)
  /\ UNCHANGED <<server, connection, up, selected, screen, bounds, missed>>

ReceiveUnsubscribed ==
  /\ Received("unsubscribed")
  /\ IF sel = NoSel /\ Head(down).sid = unsub
     THEN unsub' = 0 /\ status' = "idle"
     ELSE UNCHANGED <<unsub, status>>
  /\ UNCHANGED <<server, connection, up, sel, ids, recoveries, screen, bounds, missed>>

\* CONVERSATION_NOT_FOUND also empties the screen.
ReceiveError ==
  /\ Received("error") /\ Mine(Head(down))
  /\ FailSubscription
  /\ view' = [view EXCEPT !.text = <<>>, !.epoch = 0]
  /\ UNCHANGED <<server, connection, recoveries, rest, cache, bounds, missed>>

ReceiveSnapshot ==
  /\ Received("snapshot") /\ Mine(Head(down))
  /\ sel' = [sel EXCEPT !.cursor = Head(down).seq, !.epoch = Head(down).epoch]
  /\ view' = [view EXCEPT !.text = History(Head(down).upto), !.epoch = Head(down).epoch]
  /\ cache' = NoCache
  /\ UNCHANGED <<server, connection, up, ids, unsub, recoveries, status, rest, bounds, missed>>

ReceiveSubscribed ==
  /\ Received("subscribed") /\ Mine(Head(down))
  /\ sel' = [sel EXCEPT !.epoch = Head(down).epoch]
  /\ UNCHANGED <<server, connection, up, ids, unsub, recoveries, status, screen, bounds, missed>>

ReceiveSync ==
  /\ Received("sync_complete") /\ Mine(Head(down))
  /\ IF Head(down).epoch # sel.epoch \/ Head(down).seq > sel.cursor THEN RecoverGap
     ELSE recoveries' = 0 /\ status' = "ready" /\ UNCHANGED <<up, sel, ids, unsub>>
  /\ UNCHANGED <<server, connection, screen, bounds, missed>>

Always(text, n) == Append(text, n)

\* applyEvent(): a revision that is already there is not applied again.
Applied(text, n) == IF text # <<>> /\ n <= text[Len(text)] THEN text ELSE Append(text, n)

ReceiveEvent ==
  /\ Received("event") /\ Mine(Head(down))
  /\ LET f == Head(down) IN
     \/ /\ f.seq <= sel.cursor
        /\ UNCHANGED <<up, selected, view>>
     \/ /\ f.seq > sel.cursor
        /\ f.epoch # sel.epoch \/ f.seq # sel.cursor + 1
        /\ RecoverGap
        /\ UNCHANGED view
     \/ /\ f.epoch = sel.epoch /\ f.seq = sel.cursor + 1
        /\ view' = [view EXCEPT !.text = Applied(@, f.seq)]
        /\ sel' = [sel EXCEPT !.cursor = f.seq]
        /\ UNCHANGED <<up, ids, unsub, recoveries, status>>
  /\ UNCHANGED <<server, connection, rest, cache, bounds, missed>>

\* The 30 s timer of a subscribe frame that was sent.
SyncTimeout ==
  /\ link = "open" /\ sel # NoSel /\ status = "syncing"
  /\ FailSubscription
  /\ UNCHANGED <<server, connection, down, recoveries, screen, bounds, missed>>

-----------------------------------------------------------------------------
(* The chat store: opening and closing the conversation.                    *)

\* SessionStream.subscribe() after the frames already sent.
Subscribe(cursor, ep, frames) ==
  /\ sel' = [id |-> ids + 1, cursor |-> cursor, epoch |-> ep] /\ ids' = ids + 1
  /\ unsub' = 0 /\ recoveries' = 0 /\ status' = "syncing"
  /\ up' = Sent(frames, SubscribeFrame(sel'))

\* What closeConversation() leaves: the window with its cursor in the cache.
Kept ==
  IF view.open /\ sel # NoSel /\ view.epoch # 0 /\ sel.epoch = view.epoch
  THEN [text |-> view.text, cursor |-> sel.cursor, epoch |-> view.epoch]
  ELSE cache

Closed(frames) ==
  /\ sel' = NoSel
  /\ unsub' = IF sel # NoSel /\ link = "open" THEN sel.id ELSE 0
  /\ status' = IF connError THEN "failed" ELSE "idle"
  /\ up' = frames
  /\ UNCHANGED <<ids, recoveries>>

Farewell == IF sel # NoSel THEN Sent(up, UnsubscribeFrame(sel.id)) ELSE up

Close ==
  /\ view.open
  /\ cache' = Kept /\ view' = Blank /\ rest' = NoRest
  /\ Closed(Farewell)
  /\ UNCHANGED <<server, connection, down, bounds, missed>>

\* openConversation() closes first, then shows the cached window or asks for
\* the recent history.
Open ==
  /\ opens > 0
  /\ view.open => status \notin {"ready", "syncing"} /\ rest = NoRest
  /\ opens' = opens - 1
  /\ cache' = NoCache
  /\ IF Kept # NoCache
     THEN /\ view' = [open |-> TRUE, text |-> Kept.text, epoch |-> Kept.epoch]
          /\ rest' = NoRest
          /\ IF link = "failed" THEN Closed(Farewell) ELSE Subscribe(Kept.cursor, Kept.epoch, Farewell)
     ELSE /\ view' = [open |-> TRUE, text |-> <<>>, epoch |-> 0]
          /\ rest' = [NoRest EXCEPT !.phase = "asked"]
          /\ Closed(Farewell)
  /\ UNCHANGED <<server, connection, down, faults, missed>>

\* The cache drops the window for others, or finds it too large.
Evict ==
  /\ cache # NoCache
  /\ cache' = NoCache
  /\ UNCHANGED <<server, connection, up, down, selected, view, rest, bounds, missed>>

\* retryConnection() after the connection was given up.
Retry ==
  /\ link = "failed" /\ opens > 0
  /\ opens' = opens - 1
  /\ link' = "down" /\ attempts' = 0
  /\ sel' = NoSel /\ unsub' = 0 /\ status' = "failed"
  /\ IF view.open
     THEN view' = [open |-> TRUE, text |-> <<>>, epoch |-> 0] /\ rest' = [NoRest EXCEPT !.phase = "asked"]
     ELSE UNCHANGED <<view, rest>>
  /\ UNCHANGED <<server, connError, up, down, ids, recoveries, cache, faults, missed>>

\* build_history_window(): the watermark first, then the messages.
RestMark ==
  /\ rest.phase = "asked" /\ member
  /\ rest' = [rest EXCEPT !.phase = "marked", !.cursor = Len(log), !.epoch = epoch]
  /\ UNCHANGED <<server, connection, up, down, selected, view, cache, bounds, missed>>

RestContent ==
  /\ rest.phase = "marked"
  /\ rest' = [rest EXCEPT !.phase = "answered", !.upto = Len(log)]
  /\ UNCHANGED <<server, connection, up, down, selected, view, cache, bounds, missed>>

RestArrives ==
  /\ rest.phase = "answered"
  /\ view' = [view EXCEPT !.text = History(rest.upto), !.epoch = rest.epoch]
  /\ rest' = NoRest
  /\ IF link = "failed" THEN UNCHANGED <<selected, up>> ELSE Subscribe(rest.cursor, rest.epoch, up)
  /\ UNCHANGED <<server, connection, down, cache, bounds, missed>>

\* Refused, timed out or broken off.
RestFails ==
  /\ rest # NoRest
  /\ IF member THEN faults > 0 /\ faults' = faults - 1 ELSE UNCHANGED faults
  /\ rest' = NoRest /\ status' = "failed"
  /\ UNCHANGED <<server, connection, up, down, sel, ids, unsub, recoveries, view, cache, opens, missed>>

-----------------------------------------------------------------------------
Serve ==
  \/ HandleSubscribe \/ HandleUnsubscribe \/ HandlePing
  \/ RecoverLatest \/ RecoverMark \/ RecoverContent \/ RecoverBacklog

Receive ==
  \/ ReceiveLate \/ ReceiveUnsubscribed \/ ReceiveError \/ ReceiveSnapshot
  \/ ReceiveSubscribed \/ ReceiveSync \/ ReceiveEvent

User == Open \/ Close \/ Retry

Faulty ==
  \/ \E s \in pending : LosePush(s)
  \/ PumpDies \/ Drop \/ DialFails \/ Restart \/ SyncTimeout \/ Evict \/ RestFails

ServerStep == Serve \/ Pump \/ RestMark \/ RestContent \/ \E s \in pending : Publish(s)
ClientStep == Connect \/ Receive \/ RestArrives \/ (~member /\ RestFails)

Next ==
  \/ Commit \/ LeaveConversation
  \/ ServerStep \/ ClientStep
  \/ User \/ Faulty

Spec == Init /\ [][Next]_vars

\* Each side goes on as long as it can: tasks that are ready run, a client that
\* lost its connection dials again.  Users, commits, faults and timers owe
\* nothing.
FairSpec == Spec /\ WF_vars(ServerStep) /\ WF_vars(ClientStep)

-----------------------------------------------------------------------------
(* Properties.                                                              *)

\* What is on the screen is a prefix of the conversation's history: no event
\* is skipped and none is applied twice, whatever was replayed, reordered or
\* read while others were writing.
ScreenIsHistory ==
  /\ view.text = History(Len(view.text)) /\ Len(view.text) <= Len(log)
  /\ cache.text = History(Len(cache.text)) /\ Len(cache.text) <= Len(log)

\* A cursor never claims an event that is not on the screen or in the cached
\* window it belongs to: the messages are read after the watermark.
CursorCovered ==
  /\ sel # NoSel => sel.cursor <= Len(view.text)
  /\ cache.cursor <= Len(cache.text)

Settled ==
  \/ ~view.open
  \/ status = "failed"
  \/ status = "ready" /\ Len(view.text) = Len(log)

\* Unless a push to the current subscription was dropped or its pump died, an
\* open conversation shows everything that was committed, or reports failure.
CatchesUp == []<>(Settled \/ missed # {} \/ session.pump = "ended")

=============================================================================
