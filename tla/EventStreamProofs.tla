------------------------- MODULE EventStreamProofs -------------------------
(***************************************************************************)
(* What the client shows is a prefix of the conversation's history, and no  *)
(* cursor runs ahead of what is shown: for any limits, any number of events, *)
(* openings and faults.                                                     *)
(***************************************************************************)
EXTENDS EventStream, SequenceTheorems, TLAPS

\* Frames that tell nothing the log does not hold; a snapshot's cursor does not
\* pass its messages.
Sound(n) ==
  {f \in Frames : /\ f.type = "snapshot" => f.seq <= f.upto /\ f.upto <= n
                  /\ f.type = "event" => f.seq <= n}

ServerOK ==
  /\ log \in Seq(Nat) /\ epoch \in Nat
  /\ pending \subseteq 1 .. Len(log)
  /\ queue \in Seq(1 .. Len(log))
  /\ session \in Sessions
  /\ session.phase = "content" => session.mark <= Len(log)

WireOK ==
  /\ up \in Seq(Requests)
  /\ down \in Seq(Sound(Len(log)))

SelOK == sel \in Selections /\ ids \in Nat

\* The history answer: its watermark was read before its messages, and it is
\* awaited only while nothing is subscribed.
RestOK ==
  /\ rest \in Requested
  /\ rest.phase \in {"marked", "answered"} => rest.cursor <= Len(log)
  /\ rest.phase = "answered" => rest.cursor <= rest.upto /\ rest.upto <= Len(log)
  /\ rest # NoRest => sel = NoSel

ScreenOK ==
  /\ view \in [open : BOOLEAN, text : Seq(Nat), epoch : Nat]
  /\ cache \in [text : Seq(Nat), cursor : Nat, epoch : Nat]
  /\ ScreenIsHistory /\ CursorCovered

Inv == ServerOK /\ WireOK /\ SelOK /\ RestOK /\ ScreenOK

-----------------------------------------------------------------------------
\* A history is a sequence of its own length.
LEMMA HistoryIsSeq ==
  ASSUME NEW n \in Nat
  PROVE  History(n) \in Seq(Nat) /\ Len(History(n)) = n
<1>1. History(n) \in Seq(Nat)
  BY IsASeq DEF History
<1>2. DOMAIN History(n) = 1 .. n
  BY DEF History
<1> QED
  BY <1>1, <1>2, LenProperties

\* Applying the event after the cursor to a history that covers the cursor
\* gives a history that covers the event.
LEMMA AppliedIsHistory ==
  ASSUME NEW k \in Nat, NEW c \in Nat, c <= k
  PROVE  \E m \in Nat : Applied(History(k), c + 1) = History(m) /\ c + 1 <= m /\ m <= k + 1 /\ k <= m
<1> DEFINE t == History(k)
<1>0. t \in Seq(Nat) /\ Len(t) = k /\ (t = <<>> <=> k = 0)
  BY HistoryIsSeq, EmptySeq
<1>1. CASE c + 1 <= k
  <2>1. t # <<>> /\ t[Len(t)] = k
    BY <1>0, <1>1 DEF History
  <2> QED
    BY <1>0, <1>1, <2>1 DEF Applied
<1>2. CASE c = k
  <2>1. Applied(t, c + 1) = Append(t, k + 1)
    <3>1. CASE t = <<>>
      BY <1>2, <3>1 DEF Applied
    <3>2. CASE t # <<>>
      <4>1. t[Len(t)] = k
        BY <1>0, <3>2 DEF History
      <4> QED
        BY <1>2, <3>2, <4>1 DEF Applied
    <3> QED
      BY <3>1, <3>2
  <2>2. Append(t, k + 1) = History(k + 1)
    <3>1. Append(t, k + 1) \in Seq(Nat) /\ Len(Append(t, k + 1)) = k + 1
      BY <1>0, AppendProperties
    <3>2. History(k + 1) \in Seq(Nat) /\ Len(History(k + 1)) = k + 1
      BY HistoryIsSeq
    <3>3. \A i \in 1 .. k + 1 : Append(t, k + 1)[i] = History(k + 1)[i]
      BY <1>0, AppendProperties DEF History
    <3> QED
      BY <3>1, <3>2, <3>3, SeqEqual
  <2> QED
    BY <1>2, <2>1, <2>2
<1> QED
  BY <1>1, <1>2

\* What is sound for a log stays sound when the log grows.
LEMMA SoundGrows ==
  ASSUME NEW n \in Nat
  PROVE  Sound(n) \subseteq Sound(n + 1) /\ Seq(Sound(n)) \subseteq Seq(Sound(n + 1))
                /\ Seq(1 .. n) \subseteq Seq(1 .. n + 1)
<1>1. Sound(n) \subseteq Sound(n + 1)
  BY DEF Sound, Frames
<1>2. 1 .. n \subseteq 1 .. n + 1
  OBVIOUS
<1> QED
  BY <1>1, <1>2, SeqMonotonic

\* A queue or a wire that loses its first element, gains one at the end, or is
\* emptied.
LEMMA WireFacts ==
  ASSUME NEW S, NEW q \in Seq(S)
  PROVE  /\ <<>> \in Seq(S)
         /\ q # <<>> => Head(q) \in S /\ Tail(q) \in Seq(S)
         /\ \A x \in S : Append(q, x) \in Seq(S)
         /\ \A r \in Seq(S) : q \o r \in Seq(S)
BY EmptySeq, HeadTailProperties, AppendProperties, ConcatProperties

\* The frames the socket builds for its subscription.
LEMMA FramesTyped ==
  ASSUME session \in Sessions, NEW n \in Nat, NEW ep \in Nat, NEW seq \in Nat, NEW upto \in Nat, NEW id \in Nat
  PROVE  /\ Frame("sync_complete", ep, seq, upto) \in Sound(n)
         /\ Frame("subscribed", ep, seq, upto) \in Sound(n)
         /\ seq <= n => Frame("event", ep, seq, upto) \in Sound(n)
         /\ seq <= upto /\ upto <= n => Frame("snapshot", ep, seq, upto) \in Sound(n)
         /\ Answer("error", id) \in Sound(n) /\ Answer("unsubscribed", id) \in Sound(n)
BY DEF Frame, Answer, Sound, Frames, Sessions

\* The backlog is made of events of the log.
LEMMA BacklogSound ==
  ASSUME ServerOK, NEW after \in Nat
  PROVE  Backlog(after) \in Seq(Sound(Len(log)))
<1> DEFINE n == Len(log)
           t == Through(after)
           ev == [i \in 1 .. t - after |-> Frame("event", log[after + i], after + i, 0)]
<1>1. n \in Nat /\ t \in Nat /\ t <= n
  BY LenProperties, StreamAssumption DEF ServerOK, Through, Smaller
<1>2. <<Frame("subscribed", epoch, 0, 0)>> \in Seq(Sound(n))
  BY <1>1, FramesTyped DEF ServerOK
<1>3. <<Frame("sync_complete", epoch, t, 0)>> \in Seq(Sound(n))
  BY <1>1, FramesTyped DEF ServerOK
<1>4. ev \in Seq(Sound(n))
  <2>1. ASSUME NEW i \in 1 .. t - after
        PROVE  Frame("event", log[after + i], after + i, 0) \in Sound(n)
    <3>1. after + i \in 1 .. n
      BY <1>1
    <3>2. log[after + i] \in Nat
      BY <3>1, ElementOfSeq DEF ServerOK
    <3> QED
      BY <1>1, <3>1, <3>2 DEF ServerOK, Frame, Sound, Frames, Sessions
  <2>2. CASE t - after \in Nat
    <3> HIDE DEF t, n
    <3> QED
      BY <2>1, <2>2, IsASeq
  <2>3. CASE t - after \notin Nat
    <3>1. 1 .. t - after = {}
      BY <1>1, <2>3
    <3>2. ev = <<>>
      BY <3>1
    <3> QED
      BY <3>2, EmptySeq
  <2> QED
    BY <2>2, <2>3
<1> HIDE DEF ev, t, n
<1>5. (<<Frame("subscribed", epoch, 0, 0)>> \o ev) \o <<Frame("sync_complete", epoch, t, 0)>> \in Seq(Sound(n))
  BY <1>2, <1>3, <1>4, ConcatProperties
<1> QED
  BY <1>5 DEF Backlog, ev, t, n

-----------------------------------------------------------------------------
\* Nothing is shown and nothing is under way at first.
LEMMA InitInv == Init => Inv
<1> SUFFICES ASSUME Init PROVE Inv
  OBVIOUS
<1>1. ServerOK /\ WireOK
  BY EmptySeq, StreamAssumption DEF Init, ServerOK, WireOK, Detached, Sessions
<1>2. SelOK /\ RestOK
  BY DEF Init, SelOK, RestOK, NoSel, NoRest, Selections, Requested
<1>3. History(0) = <<>>
  BY DEF History
<1>4. ScreenOK
  BY <1>3, EmptySeq DEF Init, ScreenOK, ScreenIsHistory, CursorCovered, Blank, NoCache, NoSel
<1> QED
  BY <1>1, <1>2, <1>4 DEF Inv

\* The log grows at its end.
LEMMA CommitInv == Inv /\ Commit => Inv'
<1> SUFFICES ASSUME Inv, Commit PROVE Inv'
  OBVIOUS
<1>1. Len(log) \in Nat /\ log' \in Seq(Nat) /\ Len(log') = Len(log) + 1
  BY AppendProperties, LenProperties DEF Inv, ServerOK, Commit
<1>2. ServerOK'
  <2>0. Seq(1 .. Len(log)) \subseteq Seq(1 .. Len(log) + 1)
    BY <1>1, SoundGrows
  <2>1. queue \in Seq(1 .. Len(log) + 1)
    BY <2>0 DEF Inv, ServerOK
  <2>3. pending' \subseteq 1 .. Len(log) + 1
    <3>1. pending \subseteq 1 .. Len(log) /\ pending' = pending \cup {Len(log) + 1}
      BY DEF Inv, ServerOK, Commit
    <3>2. 1 .. Len(log) \subseteq 1 .. Len(log) + 1 /\ Len(log) + 1 \in 1 .. Len(log) + 1
      BY <1>1
    <3> QED
      BY <3>1, <3>2
  <2>2. session.phase = "content" => session.mark <= Len(log) + 1
    BY <1>1 DEF Inv, ServerOK, Sessions
  <2> QED
    BY <1>1, <2>1, <2>2, <2>3 DEF Inv, ServerOK, Commit
<1>3. WireOK'
  BY <1>1, SoundGrows DEF Inv, WireOK, Commit
<1>4. SelOK' /\ RestOK'
  BY <1>1 DEF Inv, SelOK, RestOK, Commit, selected, screen, Requested
<1>5. ScreenOK'
  BY <1>1 DEF Inv, ScreenOK, Commit, selected, screen, ScreenIsHistory, CursorCovered
<1> QED
  BY <1>2, <1>3, <1>4, <1>5 DEF Inv

ServerSide ==
  \/ \E s \in pending : Publish(s) \/ LosePush(s)
  \/ LeaveConversation \/ HandleSubscribe \/ HandleUnsubscribe \/ HandlePing
  \/ RecoverLatest \/ RecoverMark \/ RecoverContent \/ RecoverBacklog
  \/ Pump \/ PumpDies

\* The other steps of the server leave the client and the log alone.
LEMMA ServerInv == Inv /\ ServerSide => Inv'
<1> SUFFICES ASSUME Inv, ServerSide PROVE Inv'
  OBVIOUS
<1> USE DEF Inv
<1>1. UNCHANGED <<log, epoch, selected, screen>>
  BY DEF ServerSide, Publish, LosePush, LeaveConversation, HandleSubscribe, HandleUnsubscribe, HandlePing,
         RecoverLatest, RecoverMark, RecoverContent, RecoverBacklog, Pump, PumpDies
<1>2. SelOK' /\ RestOK' /\ ScreenOK'
  BY <1>1 DEF SelOK, RestOK, ScreenOK, selected, screen, ScreenIsHistory, CursorCovered
<1>3. Len(log) \in Nat
  BY LenProperties DEF ServerOK
<1>4. Detached \in Sessions /\ Detached.phase = "idle"
  BY DEF Detached, Sessions
<1>5. ServerOK' /\ WireOK'
  <2>1. ASSUME NEW s \in pending, Publish(s) \/ LosePush(s) PROVE ServerOK' /\ WireOK'
    <3>1. s \in 1 .. Len(log) /\ Append(queue, s) \in Seq(1 .. Len(log))
      BY WireFacts DEF ServerOK
    <3> QED
      BY <1>1, <2>1, <3>1 DEF Publish, LosePush, Pushed, ServerOK, WireOK
  <2>2. CASE LeaveConversation
    BY <1>1, <2>2 DEF LeaveConversation, ServerOK, WireOK
  <2>3. CASE HandleSubscribe
    <3>1. Head(up) \in Requests /\ Tail(up) \in Seq(Requests)
      BY <2>3, WireFacts DEF HandleSubscribe, WireOK
    <3>2. (session' \in Sessions /\ session'.phase # "content") \/ UNCHANGED session
      <4>1. CASE member
        <5>1. session' = [sub |-> Head(up).sid, phase |-> "latest", pump |-> "none",
                          after |-> Head(up).after, epoch |-> Head(up).epoch, mark |-> 0, joined |-> Len(log)]
          BY <2>3, <4>1 DEF HandleSubscribe, Detached
        <5>2. Head(up).sid \in Nat /\ Head(up).after \in Nat /\ Head(up).epoch \in Nat
          BY <3>1 DEF Requests
        <5> QED
          BY <1>3, <5>1, <5>2 DEF Sessions
      <4>2. CASE ~member
        BY <2>3, <4>2 DEF HandleSubscribe
      <4> QED
        BY <4>1, <4>2
    <3>3. <<>> \in Seq(1 .. Len(log)) /\ \A f \in Sound(Len(log)) : Append(down, f) \in Seq(Sound(Len(log)))
      BY EmptySeq, WireFacts DEF WireOK
    <3>4. Answer("error", Head(up).sid) \in Sound(Len(log))
      BY <1>3, <3>1 DEF Answer, Sound, Frames, Requests
    <3> QED
      BY <1>1, <2>3, <3>1, <3>2, <3>3, <3>4 DEF HandleSubscribe, ServerOK, WireOK
  <2>4. CASE HandleUnsubscribe
    <3>1. Head(up) \in Requests /\ Tail(up) \in Seq(Requests)
      BY <2>4, WireFacts DEF HandleUnsubscribe, WireOK
    <3>2. <<>> \in Seq(1 .. Len(log)) /\ \A f \in Sound(Len(log)) : Append(down, f) \in Seq(Sound(Len(log)))
      BY EmptySeq, WireFacts DEF WireOK
    <3>3. Answer("unsubscribed", Head(up).sid) \in Sound(Len(log))
      BY <1>3, <3>1 DEF Answer, Sound, Frames, Requests
    <3> QED
      BY <1>1, <1>4, <2>4, <3>1, <3>2, <3>3 DEF HandleUnsubscribe, Detach, ServerOK, WireOK
  <2>5. ASSUME Refused PROVE down' \in Seq(Sound(Len(log))) /\ session' \in Sessions
                              /\ session'.phase = "idle" /\ queue' \in Seq(1 .. Len(log))
    <3>1. Answer("error", session.sub) \in Sound(Len(log))
      BY <1>3 DEF ServerOK, Sessions, Answer, Sound, Frames
    <3>2. Append(down, Answer("error", session.sub)) \in Seq(Sound(Len(log)))
      BY <3>1, WireFacts DEF WireOK
    <3> QED
      BY <1>4, <2>5, <3>2, EmptySeq DEF Refused, Detach
  <2>6. ASSUME NEW fs \in Seq(Sound(Len(log))), Recovered(fs)
        PROVE  down' \in Seq(Sound(Len(log))) /\ session' \in Sessions
               /\ session'.phase = "idle" /\ queue' \in Seq(1 .. Len(log))
    <3>1. down \o fs \in Seq(Sound(Len(log)))
      BY WireFacts DEF WireOK
    <3>2. session' \in Sessions /\ session'.phase = "idle"
      BY <2>6 DEF Recovered, ServerOK, Sessions
    <3> QED
      BY <2>6, <3>1, <3>2 DEF Recovered, ServerOK
  <2>7. CASE HandlePing
    BY <1>1, <2>5, <2>7 DEF HandlePing, Refused, ServerOK, WireOK
  <2>8. CASE RecoverLatest
    BY <1>1, <2>8 DEF RecoverLatest, ServerOK, WireOK, Sessions
  <2>9. CASE RecoverMark
    <3>1. session' \in Sessions /\ session'.mark = Len(log)
      BY <1>3, <2>9 DEF RecoverMark, ServerOK, Sessions
    <3> QED
      BY <1>1, <1>3, <2>9, <3>1 DEF RecoverMark, ServerOK, WireOK
  <2>10. CASE RecoverContent
    <3>1. session.mark \in Nat /\ session.mark <= Len(log)
      BY <2>10 DEF RecoverContent, ServerOK, Sessions
    <3>2. /\ Snapshot(session.mark) \in Sound(Len(log))
          /\ Frame("sync_complete", epoch, Watermark, 0) \in Sound(Len(log))
      BY <1>3, <3>1 DEF Snapshot, Watermark, Frame, Sound, Frames, ServerOK, Sessions
    <3>3. <<Snapshot(session.mark), Frame("sync_complete", epoch, Watermark, 0)>> \in Seq(Sound(Len(log)))
      BY <3>2
    <3> QED
      BY <1>1, <2>5, <2>6, <2>10, <3>3 DEF RecoverContent, ServerOK, WireOK
  <2>11. CASE RecoverBacklog
    <3>1. Backlog(session.after) \in Seq(Sound(Len(log)))
      BY BacklogSound DEF ServerOK, Sessions
    <3> QED
      BY <1>1, <2>5, <2>6, <2>11, <3>1 DEF RecoverBacklog, ServerOK, WireOK
  <2>12. CASE Pump
    <3>1. Head(queue) \in 1 .. Len(log) /\ Tail(queue) \in Seq(1 .. Len(log))
      BY <2>12, WireFacts DEF Pump, ServerOK
    <3>2. log[Head(queue)] \in Nat
      BY <3>1, ElementOfSeq DEF ServerOK
    <3>3. session.sub \in Nat /\ epoch \in Nat
      BY DEF ServerOK, Sessions
    <3>4. Head(queue) \in Nat /\ Head(queue) <= Len(log)
      BY <1>3, <3>1
    <3>5. Frame("event", log[Head(queue)], Head(queue), 0) \in Sound(Len(log))
      BY <3>2, <3>3, <3>4 DEF Frame, Sound, Frames
    <3>6. Answer("error", session.sub) \in Sound(Len(log))
      BY <3>3 DEF Answer, Sound, Frames
    <3>7. \A f \in Sound(Len(log)) : Append(down, f) \in Seq(Sound(Len(log)))
      BY WireFacts DEF WireOK
    <3>8. session' \in Sessions /\ session'.phase = session.phase /\ session'.mark = session.mark
      BY <2>12 DEF Pump, ServerOK, Sessions
    <3> QED
      BY <1>1, <2>12, <3>1, <3>5, <3>7, <3>8, <3>6 DEF Pump, ServerOK, WireOK
  <2>13. CASE PumpDies
    <3>1. Tail(queue) \in Seq(1 .. Len(log))
      BY <2>13, WireFacts DEF PumpDies, ServerOK
    <3>2. session' \in Sessions /\ session'.phase = session.phase /\ session'.mark = session.mark
      BY <2>13 DEF PumpDies, ServerOK, Sessions
    <3> QED
      BY <1>1, <2>13, <3>1, <3>2 DEF PumpDies, ServerOK, WireOK
  <2> QED
    BY <2>1, <2>2, <2>3, <2>4, <2>7, <2>8, <2>9, <2>10, <2>11, <2>12, <2>13 DEF ServerSide
<1> QED
  BY <1>2, <1>5

\* Frames that the client drops, and requests that it sends.
LEMMA ClientWire ==
  ASSUME WireOK
  PROVE  /\ <<>> \in Seq(Requests) /\ <<>> \in Seq(Sound(Len(log)))
         /\ down # <<>> => Head(down) \in Sound(Len(log)) /\ Tail(down) \in Seq(Sound(Len(log)))
         /\ \A q \in Seq(Requests), s \in Selections :
              Sent(q, SubscribeFrame(s)) \in Seq(Requests) /\ Sent(q, UnsubscribeFrame(s.id)) \in Seq(Requests)
         /\ \A s \in Selections : <<SubscribeFrame(s)>> \in Seq(Requests)
<1>1. \A s \in Selections : SubscribeFrame(s) \in Requests /\ UnsubscribeFrame(s.id) \in Requests
  BY DEF Selections, Requests, SubscribeFrame, UnsubscribeFrame
<1>2. \A q \in Seq(Requests), r \in Requests : Append(q, r) \in Seq(Requests)
  BY AppendProperties
<1> QED
  BY <1>1, <1>2, WireFacts, EmptySeq DEF WireOK, Sent

\* A step that only moves the subscription on keeps the screen covered.
LEMMA SelMoves ==
  ASSUME Inv, SelOK', sel' = NoSel \/ (sel'.cursor = sel.cursor /\ sel # NoSel),
         UNCHANGED log, UNCHANGED screen
  PROVE  RestOK' /\ ScreenOK'
<1>1. RestOK'
  BY DEF Inv, RestOK, screen
<1>2. ScreenOK'
  BY DEF Inv, ScreenOK, ScreenIsHistory, CursorCovered, screen
<1> QED
  BY <1>1, <1>2

\* Giving up and subscribing again.
LEMMA FailMoves ==
  ASSUME Inv, FailSubscription
  PROVE  SelOK' /\ up' \in Seq(Requests) /\ sel' = NoSel
BY ClientWire DEF Inv, SelOK, WireOK, FailSubscription, NoSel, Selections

LEMMA GapMoves ==
  ASSUME Inv, RecoverGap
  PROVE  SelOK' /\ up' \in Seq(Requests) /\ (sel' = NoSel \/ sel'.cursor = sel.cursor)
<1>1. CASE recoveries + 1 > MaxRecoveries
  BY <1>1, FailMoves DEF RecoverGap
<1>2. CASE ~(recoveries + 1 > MaxRecoveries)
  <2>1. sel' \in Selections /\ sel'.cursor = sel.cursor /\ ids' \in Nat
    BY <1>2 DEF RecoverGap, Inv, SelOK, Selections
  <2> QED
    BY <1>2, <2>1, ClientWire DEF RecoverGap, Inv, SelOK, WireOK
<1> QED
  BY <1>1, <1>2

LinkStep == Drop \/ DialFails \/ Restart \/ Connect \/ SyncTimeout

\* The connection goes and comes; the screen stays.
LEMMA LinkInv == Inv /\ LinkStep => Inv'
<1> SUFFICES ASSUME Inv, LinkStep PROVE Inv'
  OBVIOUS
<1>1. Detached \in Sessions /\ Detached.phase = "idle" /\ <<>> \in Seq(1 .. Len(log))
  BY EmptySeq DEF Detached, Sessions
<1>2. UNCHANGED <<log, view, cache>>
  BY DEF LinkStep, Drop, DialFails, Restart, Connect, SyncTimeout, server, screen
<1>3. CASE Drop
  <2>1. ServerOK' /\ WireOK'
    BY <1>1, <1>3, ClientWire DEF Inv, Drop, ServerForgets, ServerOK, WireOK
  <2>2. UNCHANGED <<sel, ids, rest>>
    BY <1>3 DEF Drop, LinkLost, screen
  <2>3. SelOK' /\ RestOK' /\ ScreenOK'
    BY <1>2, <2>2 DEF Inv, SelOK, RestOK, ScreenOK, ScreenIsHistory, CursorCovered
  <2> QED
    BY <2>1, <2>3 DEF Inv
<1>4. CASE DialFails
  <2>1. UNCHANGED <<server, up, down, sel, ids, screen>>
    BY <1>4 DEF DialFails, LinkLost
  <2> QED
    BY <2>1 DEF Inv, ServerOK, WireOK, SelOK, RestOK, ScreenOK, ScreenIsHistory, CursorCovered, server, screen
<1>5. CASE Restart
  <2>1. ServerOK' /\ WireOK'
    BY <1>1, <1>5, ClientWire DEF Inv, Restart, ServerForgets, ServerOK, WireOK
  <2>2. UNCHANGED <<sel, ids>>
    BY <1>5 DEF Restart, LinkLost
  <2>3. rest' \in {rest, NoRest}
    BY <1>5 DEF Restart
  <2>4. NoRest \in Requested /\ NoRest.phase = "none"
    BY DEF NoRest, Requested
  <2>5. SelOK' /\ RestOK' /\ ScreenOK'
    BY <1>2, <2>2, <2>3, <2>4 DEF Inv, SelOK, RestOK, ScreenOK, ScreenIsHistory, CursorCovered
  <2> QED
    BY <2>1, <2>5 DEF Inv
<1>6. CASE Connect
  <2>1. UNCHANGED <<server, down, screen>>
    BY <1>6 DEF Connect
  <2>2. SelOK' /\ (UNCHANGED sel \/ (sel # NoSel /\ sel'.cursor = sel.cursor))
    BY <1>6 DEF Connect, Inv, SelOK, Selections
  <2>3. RestOK' /\ ScreenOK'
    BY <1>2, <2>1, <2>2 DEF Inv, RestOK, ScreenOK, ScreenIsHistory, CursorCovered, screen
  <2>4. up' \in Seq(Requests)
    BY <1>6, <2>2, ClientWire DEF Connect, Inv, SelOK, WireOK
  <2>5. ServerOK' /\ WireOK'
    BY <2>1, <2>4 DEF Inv, ServerOK, WireOK, server
  <2> QED
    BY <2>2, <2>3, <2>5 DEF Inv
<1>7. CASE SyncTimeout
  <2>1. UNCHANGED <<server, down, screen>>
    BY <1>7 DEF SyncTimeout
  <2>2. SelOK' /\ up' \in Seq(Requests) /\ sel' = NoSel
    BY <1>7, FailMoves DEF SyncTimeout
  <2>3. RestOK' /\ ScreenOK'
    BY <1>2, <2>1, <2>2, SelMoves
  <2>4. ServerOK' /\ WireOK'
    BY <2>1, <2>2 DEF Inv, ServerOK, WireOK, server
  <2> QED
    BY <2>2, <2>3, <2>4 DEF Inv
<1> QED
  BY <1>3, <1>4, <1>5, <1>6, <1>7 DEF LinkStep

-----------------------------------------------------------------------------
\* A screen that is replaced by a history which covers the selection's cursor.
LEMMA ScreenMoves ==
  ASSUME Inv, UNCHANGED log, NEW n \in Nat, n <= Len(log),
         view'.text = History(n), view'.open \in BOOLEAN, view'.epoch \in Nat,
         DOMAIN view' = {"open", "text", "epoch"}, view' = [open |-> view'.open, text |-> view'.text, epoch |-> view'.epoch],
         cache' \in {cache, NoCache}, sel' # NoSel => sel'.cursor <= n
  PROVE  ScreenOK'
<1>1. History(n) \in Seq(Nat) /\ Len(History(n)) = n
  BY HistoryIsSeq
<1>2. view' \in [open : BOOLEAN, text : Seq(Nat), epoch : Nat]
  BY <1>1
<1>3. History(0) = <<>> /\ NoCache \in [text : Seq(Nat), cursor : Nat, epoch : Nat]
      /\ NoCache.text = <<>> /\ NoCache.cursor = 0
  BY EmptySeq DEF History, NoCache
<1>4. /\ cache'.text = History(Len(cache'.text)) /\ Len(cache'.text) <= Len(log)
      /\ cache'.cursor <= Len(cache'.text)
      /\ cache' \in [text : Seq(Nat), cursor : Nat, epoch : Nat]
  BY <1>3, EmptySeq, LenProperties DEF Inv, ScreenOK, ScreenIsHistory, CursorCovered, ServerOK
<1> QED
  BY <1>1, <1>2, <1>4 DEF ScreenOK, ScreenIsHistory, CursorCovered

\* Receiving a frame keeps the screen a covered history.
LEMMA ReceiveInv == Inv /\ Receive => Inv'
<1> SUFFICES ASSUME Inv, Receive PROVE Inv'
  OBVIOUS
<1>1. UNCHANGED <<server, rest>> /\ down # <<>> /\ down' = Tail(down)
  BY DEF Receive, ReceiveLate, ReceiveUnsubscribed, ReceiveError, ReceiveSnapshot, ReceiveSubscribed,
         ReceiveSync, ReceiveEvent, Received, screen
<1>2. UNCHANGED log /\ ServerOK'
  BY <1>1 DEF Inv, ServerOK, server
<1>3. Head(down) \in Sound(Len(log)) /\ down' \in Seq(Sound(Len(log)))
  BY <1>1, ClientWire DEF Inv
<1>4. Len(log) \in Nat /\ Len(view.text) \in Nat
  BY LenProperties DEF Inv, ServerOK, ScreenOK
<1>5. SelOK' /\ up' \in Seq(Requests) /\ RestOK' /\ ScreenOK'
  <2>1. CASE ReceiveLate \/ ReceiveUnsubscribed
    <3>1. UNCHANGED <<sel, ids, up, screen>>
      BY <2>1 DEF ReceiveLate, ReceiveUnsubscribed, selected
    <3> QED
      BY <1>2, <3>1 DEF Inv, SelOK, WireOK, RestOK, ScreenOK, ScreenIsHistory, CursorCovered, screen
  <2>2. CASE ReceiveError
    <3>1. SelOK' /\ up' \in Seq(Requests) /\ sel' = NoSel
      BY <2>2, FailMoves DEF ReceiveError
    <3>2. view' = [open |-> view.open, text |-> <<>>, epoch |-> 0] /\ cache' = cache
      BY <2>2 DEF ReceiveError, Inv, ScreenOK
    <3>3. History(0) = <<>>
      BY DEF History
    <3>4. ScreenOK'
      BY <1>2, <1>4, <3>1, <3>2, <3>3, ScreenMoves DEF Inv, ScreenOK
    <3> QED
      BY <1>1, <1>2, <3>1, <3>4 DEF Inv, RestOK
  <2>3. CASE ReceiveSnapshot
    <3>1. Head(down).type = "snapshot" /\ sel # NoSel
      BY <2>3 DEF ReceiveSnapshot, Received, Mine
    <3>2. /\ Head(down).seq \in Nat /\ Head(down).upto \in Nat /\ Head(down).epoch \in Nat
          /\ Head(down).seq <= Head(down).upto /\ Head(down).upto <= Len(log)
      BY <1>3, <3>1 DEF Sound, Frames
    <3>3. sel' \in Selections /\ sel'.cursor = Head(down).seq /\ UNCHANGED <<ids, up>>
      BY <2>3, <3>2 DEF ReceiveSnapshot, Inv, SelOK, Selections
    <3>4. view' = [open |-> view.open, text |-> History(Head(down).upto), epoch |-> Head(down).epoch]
          /\ cache' = NoCache
      BY <2>3 DEF ReceiveSnapshot, Inv, ScreenOK
    <3>5. ScreenOK'
      BY <1>2, <3>2, <3>3, <3>4, ScreenMoves DEF Inv, ScreenOK
    <3>6. RestOK'
      BY <1>1, <1>2, <3>1 DEF Inv, RestOK
    <3> QED
      BY <3>3, <3>5, <3>6 DEF Inv, SelOK, WireOK
  <2>4. CASE ReceiveSubscribed
    <3>1. Head(down).epoch \in Nat /\ sel # NoSel
      BY <1>3, <2>4 DEF Sound, Frames, ReceiveSubscribed, Mine
    <3>2. SelOK' /\ sel'.cursor = sel.cursor /\ UNCHANGED <<up, screen>>
      BY <2>4, <3>1 DEF ReceiveSubscribed, Inv, SelOK, Selections
    <3> QED
      BY <1>2, <3>1, <3>2, SelMoves DEF Inv, WireOK
  <2>5. CASE ReceiveSync
    <3>1. sel # NoSel /\ UNCHANGED screen
      BY <2>5 DEF ReceiveSync, Mine
    <3>2. SelOK' /\ up' \in Seq(Requests) /\ (sel' = NoSel \/ sel'.cursor = sel.cursor)
      BY <2>5, GapMoves DEF ReceiveSync, Inv, SelOK, WireOK
    <3> QED
      BY <1>2, <3>1, <3>2, SelMoves
  <2>6. CASE ReceiveEvent
    <3> DEFINE f == Head(down)
    <3>1. sel # NoSel /\ f.type = "event" /\ UNCHANGED cache
      BY <2>6 DEF ReceiveEvent, Mine, Received
    <3>2. f.seq \in Nat /\ f.seq <= Len(log)
      BY <1>3, <3>1 DEF Sound, Frames
    <3>3. CASE f.seq <= sel.cursor /\ UNCHANGED <<up, selected, view>>
      BY <1>1, <1>2, <3>1, <3>3 DEF Inv, SelOK, WireOK, RestOK, ScreenOK, ScreenIsHistory, CursorCovered, selected
    <3>4. CASE RecoverGap /\ UNCHANGED view
      <4>1. SelOK' /\ up' \in Seq(Requests) /\ (sel' = NoSel \/ sel'.cursor = sel.cursor)
        BY <3>4, GapMoves
      <4>2. UNCHANGED screen
        BY <1>1, <3>1, <3>4 DEF screen
      <4> QED
        BY <1>2, <3>1, <4>1, <4>2, SelMoves
    <3>5. CASE /\ f.seq = sel.cursor + 1
               /\ view' = [view EXCEPT !.text = Applied(@, f.seq)]
               /\ sel' = [sel EXCEPT !.cursor = f.seq]
               /\ UNCHANGED <<up, ids>>
      <4>1. sel.cursor \in Nat /\ sel.cursor <= Len(view.text) /\ view.text = History(Len(view.text))
            /\ Len(view.text) <= Len(log)
        BY <3>1 DEF Inv, SelOK, Selections, ScreenOK, ScreenIsHistory, CursorCovered
      <4>2. PICK m \in Nat : /\ Applied(History(Len(view.text)), sel.cursor + 1) = History(m)
                             /\ sel.cursor + 1 <= m /\ m <= Len(view.text) + 1 /\ Len(view.text) <= m
        BY <1>4, <4>1, AppliedIsHistory
      <4>3. PICK n \in Nat : Applied(view.text, f.seq) = History(n) /\ f.seq <= n /\ n <= Len(log)
        <5>1. CASE m <= Len(log)
          BY <3>5, <4>1, <4>2, <5>1
        <5>2. CASE m > Len(log)
          <6>1. m = Len(view.text) + 1 /\ Len(view.text) = Len(log) /\ f.seq <= Len(view.text)
            BY <1>4, <3>2, <4>1, <4>2, <5>2
          <6>2. view.text # <<>> /\ view.text[Len(view.text)] = Len(view.text)
            BY <3>2, <3>5, <4>1, <6>1, EmptySeq DEF History
          <6>3. Applied(view.text, f.seq) = view.text
            BY <6>1, <6>2 DEF Applied
          <6> QED
            BY <1>4, <4>1, <6>1, <6>3
        <5> QED
          BY <1>4, <4>2, <5>1, <5>2
      <4>4. view' = [open |-> view.open, text |-> History(n), epoch |-> view.epoch]
        BY <3>5, <4>3 DEF Inv, ScreenOK
      <4>5. sel' \in Selections /\ sel'.cursor = f.seq
        BY <3>2, <3>5 DEF Inv, SelOK, Selections
      <4>6. ScreenOK'
        BY <1>2, <3>1, <4>3, <4>4, <4>5, ScreenMoves DEF Inv, ScreenOK
      <4>7. RestOK'
        BY <1>1, <1>2, <3>1 DEF Inv, RestOK
      <4> QED
        BY <3>5, <4>5, <4>6, <4>7 DEF Inv, SelOK, WireOK
    <3> QED
      BY <2>6, <3>3, <3>4, <3>5 DEF ReceiveEvent
  <2> QED
    BY <2>1, <2>2, <2>3, <2>4, <2>5, <2>6 DEF Receive
<1> QED
  BY <1>2, <1>3, <1>5 DEF Inv, WireOK

-----------------------------------------------------------------------------
StoreStep == Open \/ Close \/ Retry \/ Evict \/ RestMark \/ RestContent \/ RestArrives \/ RestFails

\* A window that closeConversation() keeps is a covered history.
LEMMA KeptCovered ==
  ASSUME Inv
  PROVE  /\ Kept \in [text : Seq(Nat), cursor : Nat, epoch : Nat]
         /\ Kept.text = History(Len(Kept.text)) /\ Len(Kept.text) <= Len(log)
         /\ Kept.cursor <= Len(Kept.text)
BY DEF Inv, SelOK, Selections, ScreenOK, ScreenIsHistory, CursorCovered, Kept

\* subscribe() selects the cursor it is given.
LEMMA SubscribeMoves ==
  ASSUME Inv, NEW c \in Nat, NEW ep \in Nat, NEW q \in Seq(Requests), Subscribe(c, ep, q)
  PROVE  SelOK' /\ sel'.cursor = c /\ up' \in Seq(Requests)
<1>1. sel' \in Selections /\ sel'.cursor = c /\ ids' \in Nat
  BY DEF Subscribe, Inv, SelOK, Selections
<1>2. up' = Sent(q, SubscribeFrame(sel'))
  BY DEF Subscribe
<1> QED
  BY <1>1, <1>2, ClientWire DEF Inv, SelOK

LEMMA FarewellTyped == Inv => Farewell \in Seq(Requests)
BY ClientWire DEF Inv, SelOK, WireOK, Farewell

LEMMA ClosedMoves ==
  ASSUME Inv, NEW q \in Seq(Requests), Closed(q)
  PROVE  SelOK' /\ sel' = NoSel /\ up' = q
BY DEF Inv, SelOK, Closed, NoSel, Selections

\* Opening, closing and loading keep the screen a covered history.
LEMMA StoreInv == Inv /\ StoreStep => Inv'
<1> SUFFICES ASSUME Inv, StoreStep PROVE Inv'
  OBVIOUS
<1>1. UNCHANGED <<server, down>>
  BY DEF StoreStep, Open, Close, Retry, Evict, RestMark, RestContent, RestArrives, RestFails
<1>2. UNCHANGED log /\ ServerOK' /\ down' \in Seq(Sound(Len(log')))
  BY <1>1 DEF Inv, ServerOK, WireOK, server
<1>3. Len(log) \in Nat /\ epoch \in Nat
  BY LenProperties DEF Inv, ServerOK
<1>4. History(0) = <<>> /\ Len(<<>>) = 0 /\ <<>> \in Seq(Nat)
  BY EmptySeq DEF History
<1>5. NoRest \in Requested /\ NoRest.phase = "none"
      /\ [NoRest EXCEPT !.phase = "asked"] \in Requested /\ [NoRest EXCEPT !.phase = "asked"].phase = "asked"
  BY DEF NoRest, Requested
<1>6. SelOK' /\ up' \in Seq(Requests) /\ RestOK' /\ ScreenOK'
  <2>1. CASE Open
    <3>1. CASE Kept # NoCache
      <4>1. /\ view' = [open |-> TRUE, text |-> Kept.text, epoch |-> Kept.epoch]
            /\ rest' = NoRest /\ cache' = NoCache
        BY <2>1, <3>1 DEF Open
      <4>2. SelOK' /\ up' \in Seq(Requests) /\ (sel' = NoSel \/ sel'.cursor = Kept.cursor)
        <5>1. CASE link = "failed"
          BY <2>1, <3>1, <5>1, FarewellTyped, ClosedMoves DEF Open
        <5>2. CASE link # "failed"
          BY <2>1, <3>1, <5>2, FarewellTyped, KeptCovered, SubscribeMoves DEF Open
        <5> QED
          BY <5>1, <5>2
      <4>3. PICK n \in Nat : n = Len(Kept.text)
        BY KeptCovered, LenProperties
      <4>4. ScreenOK'
        BY <1>2, <4>1, <4>2, <4>3, KeptCovered, ScreenMoves
      <4> QED
        BY <1>5, <4>1, <4>2, <4>4 DEF RestOK
    <3>2. CASE Kept = NoCache
      <4>1. /\ view' = [open |-> TRUE, text |-> <<>>, epoch |-> 0]
            /\ rest' = [NoRest EXCEPT !.phase = "asked"] /\ cache' = NoCache
            /\ Closed(Farewell)
        BY <2>1, <3>2 DEF Open
      <4>2. SelOK' /\ sel' = NoSel /\ up' \in Seq(Requests)
        BY <4>1, FarewellTyped, ClosedMoves
      <4>3. ScreenOK'
        BY <1>2, <1>3, <1>4, <4>1, <4>2, ScreenMoves
      <4> QED
        BY <1>5, <4>1, <4>2, <4>3 DEF RestOK
    <3> QED
      BY <3>1, <3>2
  <2>2. CASE Close
    <3>1. /\ cache' = Kept /\ view' = [open |-> FALSE, text |-> <<>>, epoch |-> 0]
          /\ rest' = NoRest /\ Closed(Farewell)
      BY <2>2 DEF Close, Blank
    <3>2. SelOK' /\ sel' = NoSel /\ up' \in Seq(Requests)
      BY <3>1, FarewellTyped, ClosedMoves
    <3>3. ScreenOK'
      BY <1>2, <1>3, <1>4, <3>1, <3>2, KeptCovered DEF ScreenOK, ScreenIsHistory, CursorCovered
    <3> QED
      BY <1>5, <3>1, <3>2, <3>3 DEF RestOK
  <2>3. CASE Retry
    <3>1. /\ sel' = NoSel /\ UNCHANGED <<up, ids, cache>>
          /\ \/ UNCHANGED <<view, rest>>
             \/ /\ view' = [open |-> TRUE, text |-> <<>>, epoch |-> 0]
                /\ rest' = [NoRest EXCEPT !.phase = "asked"]
      BY <2>3 DEF Retry
    <3>2. SelOK'
      BY <3>1 DEF Inv, SelOK, NoSel, Selections
    <3>3. ScreenOK'
      <4>1. sel' = NoSel /\ cache' = cache
        BY <3>1
      <4>2. CASE UNCHANGED view
        BY <1>2, <4>1, <4>2 DEF Inv, ScreenOK, ScreenIsHistory, CursorCovered
      <4>3. CASE view' = [open |-> TRUE, text |-> <<>>, epoch |-> 0]
        BY <1>2, <1>3, <1>4, <4>1, <4>3, ScreenMoves
      <4> QED
        BY <3>1, <4>2, <4>3
    <3>4. RestOK'
      BY <1>2, <1>5, <3>1 DEF Inv, RestOK
    <3> QED
      BY <3>1, <3>2, <3>3, <3>4 DEF Inv, WireOK
  <2>4. CASE Evict
    <3>1. UNCHANGED <<sel, ids, up, view, rest>> /\ cache' = NoCache
      BY <2>4 DEF Evict, selected
    <3>2. cache' = [text |-> <<>>, cursor |-> 0, epoch |-> 0]
      BY <3>1 DEF NoCache
    <3>3. cache'.text = <<>> /\ cache'.cursor = 0 /\ cache' \in [text : Seq(Nat), cursor : Nat, epoch : Nat]
      BY <1>4, <3>2
    <3>4. ScreenOK'
      <4>1. ScreenIsHistory'
        BY <1>2, <1>3, <1>4, <3>1, <3>3 DEF Inv, ScreenOK, ScreenIsHistory
      <4>2. CursorCovered'
        BY <1>2, <1>3, <1>4, <3>1, <3>3 DEF Inv, ScreenOK, CursorCovered
      <4> QED
        BY <3>1, <3>3, <4>1, <4>2 DEF Inv, ScreenOK
    <3> QED
      BY <1>2, <3>1, <3>4 DEF Inv, SelOK, WireOK, RestOK
  <2>5. CASE RestMark \/ RestContent \/ RestFails
    <3>1. UNCHANGED <<sel, ids, up, view, cache>>
      BY <2>5 DEF RestMark, RestContent, RestFails, selected
    <3>2. rest # NoRest
      BY <2>5, <1>5 DEF RestMark, RestContent, RestFails
    <3>4. sel' = NoSel /\ rest \in Requested
      BY <3>1, <3>2 DEF Inv, RestOK
    <3>3. RestOK'
      <4>1. CASE RestMark
        <5>1. rest' = [phase |-> "marked", cursor |-> Len(log), upto |-> rest.upto, epoch |-> epoch]
          BY <3>4, <4>1 DEF RestMark, Requested
        <5>2. rest' \in Requested /\ rest'.phase = "marked" /\ rest'.cursor = Len(log)
          BY <1>3, <3>4, <5>1 DEF Requested
        <5> QED
          BY <1>2, <1>3, <3>4, <5>2 DEF RestOK
      <4>2. CASE RestContent
        <5>1. rest' = [phase |-> "answered", cursor |-> rest.cursor, upto |-> Len(log), epoch |-> rest.epoch]
          BY <3>4, <4>2 DEF RestContent, Requested
        <5>2. rest.cursor \in Nat /\ rest.cursor <= Len(log)
          BY <3>4, <4>2 DEF RestContent, Inv, RestOK, Requested
        <5>3. rest' \in Requested /\ rest'.upto = Len(log) /\ rest'.cursor = rest.cursor
          BY <1>3, <3>4, <5>1, <5>2 DEF Requested
        <5> QED
          BY <1>2, <1>3, <3>4, <5>2, <5>3 DEF RestOK
      <4>3. CASE RestFails
        BY <1>2, <1>5, <3>1, <4>3 DEF RestFails, RestOK
      <4> QED
        BY <2>5, <4>1, <4>2, <4>3
    <3> QED
      BY <1>2, <3>1, <3>3 DEF Inv, SelOK, WireOK, ScreenOK, ScreenIsHistory, CursorCovered
  <2>6. CASE RestArrives
    <3>1. /\ rest.phase = "answered" /\ rest' = NoRest /\ UNCHANGED cache
          /\ view' = [open |-> view.open, text |-> History(rest.upto), epoch |-> rest.epoch]
      BY <2>6 DEF RestArrives, Inv, ScreenOK
    <3>2. /\ rest.cursor \in Nat /\ rest.upto \in Nat /\ rest.epoch \in Nat
          /\ rest.cursor <= rest.upto /\ rest.upto <= Len(log) /\ sel = NoSel
      BY <1>5, <3>1 DEF Inv, RestOK, Requested
    <3>3. SelOK' /\ up' \in Seq(Requests) /\ (sel' = NoSel \/ sel'.cursor = rest.cursor)
      <4>1. CASE link = "failed"
        BY <2>6, <3>2, <4>1 DEF RestArrives, Inv, SelOK, WireOK, selected
      <4>2. CASE link # "failed"
        BY <2>6, <3>2, <4>2, SubscribeMoves DEF RestArrives, Inv, WireOK
      <4> QED
        BY <4>1, <4>2
    <3>4. ScreenOK'
      BY <1>2, <3>1, <3>2, <3>3, ScreenMoves DEF Inv, ScreenOK
    <3> QED
      BY <1>5, <3>1, <3>3, <3>4 DEF RestOK
  <2> QED
    BY <2>1, <2>2, <2>3, <2>4, <2>5, <2>6 DEF StoreStep
<1> QED
  BY <1>2, <1>6 DEF Inv, WireOK

-----------------------------------------------------------------------------
\* The invariant of every behaviour, however many events, reads and connections.
THEOREM Inductive == Spec => []Inv
<1>1. Inv /\ [Next]_vars => Inv'
  <2> SUFFICES ASSUME Inv, [Next]_vars PROVE Inv'
    OBVIOUS
  <2>1. CASE Next
    <3>1. \/ Commit \/ ServerSide \/ Receive \/ LinkStep \/ StoreStep
      BY <2>1 DEF Next, ServerStep, Serve, ClientStep, User, Faulty, ServerSide, LinkStep, StoreStep
    <3> QED
      BY <3>1, CommitInv, ServerInv, ReceiveInv, LinkInv, StoreInv
  <2>2. CASE UNCHANGED vars
    BY <2>2 DEF Inv, ServerOK, WireOK, SelOK, RestOK, ScreenOK, ScreenIsHistory, CursorCovered,
                vars, server, selected, screen
  <2> QED
    BY <2>1, <2>2
<1> QED
  BY InitInv, <1>1, PTL DEF Spec

\* The screen shows a prefix of the conversation's history, without a gap and
\* without a repetition: whatever was replayed, published out of order, cached
\* or read while others were writing.
THEOREM ShowsHistory == Spec => []ScreenIsHistory
<1>1. Inv => ScreenIsHistory
  BY DEF Inv, ScreenOK
<1> QED
  BY Inductive, <1>1, PTL

\* No cursor, of the open conversation or of a cached window, claims an event
\* that is not in its text: a reconnect from it skips nothing.
THEOREM ClaimsNothing == Spec => []CursorCovered
<1>1. Inv => CursorCovered
  BY DEF Inv, ScreenOK
<1> QED
  BY Inductive, <1>1, PTL
=============================================================================
