------------------------------- MODULE Inbox -------------------------------
(***************************************************************************)
(* The operator's inbox (`agents review`): a network task that keeps a     *)
(* snapshot of the daemon's pending requests and live grants, and a        *)
(* terminal loop that shows the latest one and turns keys into decisions.  *)
(* They share a watch channel (latest update wins) and a command channel   *)
(* of one place.  The daemon's store is AgentPolicy's; here it is reduced  *)
(* to what its operator endpoints read and write.                          *)
(***************************************************************************)
EXTENDS Integers, FiniteSets

CONSTANTS
  Reqs,        \* request ids, a set of numbers in list order
  Broad,       \* the requests whose target is not one window
  Durations,   \* the durations the keys 1, 2 and 3 choose among
  Capacity,    \* DEFAULT_EVENT_CAPACITY
  MaxBreaks,   \* bound: connections that fail or break
  MaxSends     \* bound: decisions the operator sends

ASSUME InboxAssumption ==
  /\ Reqs \subseteq Nat /\ IsFiniteSet(Reqs) /\ Broad \subseteq Reqs
  /\ Durations \subseteq {"once", "surface", "persistent"}
  /\ {Capacity, MaxBreaks, MaxSends} \subseteq Nat /\ Capacity > 0

VARIABLES
  store,    \* the daemon's requests and grants
  stream,      \* the inbox's subscription to the event bus
  net,      \* the network task
  shown,    \* the watch channel: the latest update, and whether it was looked at
  chan,     \* the command channel
  ui,       \* the terminal loop
  late,     \* decisions whose caller gave up before the daemon looked at them
  inboxPast      \* history: what was answered, and what duration was chosen for what

inboxVars == <<store, stream, net, shown, chan, ui, late, inboxPast>>

NoRequest == 0
NoChoice == [id |-> NoRequest, text |-> 1, dur |-> "once"]
NoCmd == [kind |-> "none", id |-> NoRequest, text |-> 1, dur |-> "once"]
Tabs == {"requests", "grants"}

DefaultDuration(r) == IF r \in Broad THEN "once" ELSE "surface"

EmptySnapshot == [requests |-> {}, grants |-> {}]
NoStream == [open |-> FALSE, queue |-> 0, lagged |-> FALSE]
NoUpdate == [some |-> FALSE, snapshot |-> EmptySnapshot, connected |-> FALSE, completed |-> 0, new |-> FALSE]

NoDetail == [kind |-> "none", id |-> NoRequest, text |-> 1, dur |-> "once"]

NewNet == [pc |-> "subscribe", events |-> FALSE, got |-> {}, read |-> EmptySnapshot, some |-> FALSE,
           snap |-> EmptySnapshot, conn |-> FALSE, completed |-> 0, cmd |-> NoCmd, answered |-> FALSE,
           faults |-> 0]
NewUi == [run |-> TRUE, snapshot |-> EmptySnapshot, selected |-> [t \in Tabs |-> NoRequest],
          tab |-> "requests", detail |-> NoDetail,
          durations |-> {}, connected |-> FALSE, busy |-> FALSE, completed |-> 0]

(***************************************************************************)
(* The daemon's side.                                                      *)
(***************************************************************************)
\* Mutant of PublishEvent: the channel has no bound.
PublishUnbounded(b) == IF b.open THEN [b EXCEPT !.queue = @ + 1] ELSE b

\* A subscriber that falls `Capacity` behind loses the oldest event and is told to resync.
PublishEvent(b) == IF ~b.open THEN b
              ELSE IF b.queue = Capacity THEN [b EXCEPT !.lagged = TRUE]
              ELSE [b EXCEPT !.queue = @ + 1]

Pending(s) == {r \in Reqs : s.status[r] = "pending"}

\* request_response retires a pending request whose window is gone, and says so.
Stale(s) == Pending(s) \cap s.gone
Retire(s, rs) == [s EXCEPT !.status = [r \in Reqs |-> IF r \in rs THEN "retired" ELSE @[r]]]

NewRequest(r) ==
  /\ store.status[r] = "none"
  /\ store' = [store EXCEPT !.status[r] = "pending"]
  /\ stream' = PublishEvent(stream)
  /\ UNCHANGED <<net, shown, chan, ui, late, inboxPast>>

\* Another operator's decision.
ResolveElsewhere(r) ==
  /\ store.status[r] = "pending"
  /\ store' = [store EXCEPT !.status[r] = "denied"]
  /\ stream' = PublishEvent(stream)
  /\ UNCHANGED <<net, shown, chan, ui, late, inboxPast>>

\* What a request describes changes, and nobody says so.
Retitle(r) ==
  /\ store.status[r] = "pending" /\ store.text[r] = 1
  /\ store' = [store EXCEPT !.text[r] = 2]
  /\ UNCHANGED <<stream, net, shown, chan, ui, late, inboxPast>>

WindowGoes(r) ==
  /\ r \notin Broad /\ r \notin store.gone /\ store.status[r] = "pending"
  /\ store' = [store EXCEPT !.gone = @ \cup {r}]
  /\ UNCHANGED <<stream, net, shown, chan, ui, late, inboxPast>>

\* post_approve_request, post_deny_request, post_revoke_grant: the new store, the events, the answer.
Apply(cmd) ==
  CASE cmd.kind = "approve" /\ cmd.id \in Stale(store) ->
         store' = Retire(store, {cmd.id}) /\ stream' = PublishEvent(stream)
    [] cmd.kind = "approve" /\ cmd.id \in Pending(store) \ store.gone ->
         /\ store' = [store EXCEPT !.status[cmd.id] = "approved",
                                   !.grants = @ \cup {[id |-> cmd.id, dur |-> cmd.dur]}]
         /\ stream' = PublishEvent(stream)
    [] cmd.kind = "deny" /\ cmd.id \in Pending(store) ->
         store' = [store EXCEPT !.status[cmd.id] = "denied"] /\ stream' = PublishEvent(stream)
    [] cmd.kind = "revoke" /\ (\E g \in store.grants : g.id = cmd.id) ->
         /\ store' = [store EXCEPT !.grants = {g \in @ : g.id # cmd.id}]
         /\ stream' = PublishEvent(stream)
    [] OTHER -> UNCHANGED <<store, stream>>

(***************************************************************************)
(* network: subscribe, take a snapshot of both lists, show it, then wait   *)
(* for a command, a frame of the event stream or the tick.                 *)
(***************************************************************************)
SendUpdate(n) == shown' = [some |-> n.some, snapshot |-> n.snap, connected |-> n.conn,
                     completed |-> n.completed, new |-> TRUE]

Faulty == net.faults < MaxBreaks

Subscribe ==
  /\ net.pc = "subscribe"
  /\ \/ /\ ~net.events
        /\ net' = [net EXCEPT !.pc = "read", !.events = TRUE]
        /\ stream' = [open |-> TRUE, queue |-> 0, lagged |-> FALSE]
     \/ /\ ~net.events /\ Faulty
        /\ net' = [net EXCEPT !.pc = "read", !.faults = @ + 1]
        /\ UNCHANGED stream
     \/ /\ net.events
        /\ net' = [net EXCEPT !.pc = "read"]
        /\ UNCHANGED stream
  /\ UNCHANGED <<store, shown, chan, ui, late, inboxPast>>

\* The two lists are asked for together and read at two moments.
ReadRequests ==
  /\ net.pc = "read" /\ "requests" \notin net.got
  /\ LET live == Pending(store) \ store.gone
     IN net' = [net EXCEPT !.got = @ \cup {"requests"},
                           !.read.requests = {[id |-> r, text |-> store.text[r]] : r \in live}]
  /\ store' = Retire(store, Stale(store))
  /\ stream' = IF Stale(store) = {} THEN stream ELSE PublishEvent(stream)
  /\ UNCHANGED <<shown, chan, ui, late, inboxPast>>

ReadGrants ==
  /\ net.pc = "read" /\ "grants" \notin net.got
  /\ net' = [net EXCEPT !.got = @ \cup {"grants"},
                        !.read.grants = {g \in store.grants : g.dur = "surface" => g.id \notin store.gone}]
  /\ UNCHANGED <<store, stream, shown, chan, ui, late, inboxPast>>

\* Mutant of Refreshed: the subscription made once the snapshot is there.
RefreshedThenSubscribed ==
  /\ net.pc = "read" /\ net.got = Tabs
  /\ LET n == IF net.events
              THEN [net EXCEPT !.pc = "wait", !.some = TRUE, !.snap = net.read, !.conn = TRUE,
                               !.read = EmptySnapshot, !.got = {}]
              ELSE [net EXCEPT !.pc = "wait", !.conn = FALSE, !.read = EmptySnapshot, !.got = {}]
     IN net' = n /\ SendUpdate(n)
  /\ stream' = [NoStream EXCEPT !.open = net.events]
  /\ UNCHANGED <<store, chan, ui, late, inboxPast>>

\* Both lists and the stream: connected.  A snapshot without a stream is not shown.
Refreshed ==
  /\ net.pc = "read" /\ net.got = Tabs
  /\ LET n == IF net.events
              THEN [net EXCEPT !.pc = "wait", !.some = TRUE, !.snap = net.read, !.conn = TRUE,
                               !.read = EmptySnapshot, !.got = {}]
              ELSE [net EXCEPT !.pc = "wait", !.conn = FALSE, !.read = EmptySnapshot, !.got = {}]
     IN net' = n /\ SendUpdate(n)
  /\ UNCHANGED <<store, stream, chan, ui, late, inboxPast>>

\* Mutant of RefreshFails: a failed refresh keeps the old snapshot live.
RefreshFailsQuietly ==
  /\ net.pc = "read" /\ Faulty
  /\ LET n == [net EXCEPT !.pc = "wait", !.faults = @ + 1] IN net' = n /\ SendUpdate(n)
  /\ UNCHANGED <<store, stream, chan, ui, late, inboxPast>>

\* The snapshot fails or takes longer than NETWORK_TIMEOUT; the subscription goes with it.
RefreshFails ==
  /\ net.pc = "read" /\ Faulty
  /\ LET n == [net EXCEPT !.pc = "wait", !.conn = FALSE, !.events = FALSE, !.faults = @ + 1,
                         !.read = EmptySnapshot, !.got = {}]
     IN net' = n /\ SendUpdate(n)
  /\ stream' = NoStream
  /\ UNCHANGED <<store, chan, ui, late, inboxPast>>

\* Mutant of TakeCommand: a command that is not sent is not completed either.
TakeCommandUncounted ==
  /\ net.pc = "wait" /\ chan # NoCmd
  /\ chan' = NoCmd
  /\ net' = IF net.conn THEN [net EXCEPT !.pc = "post", !.cmd = chan]
            ELSE [net EXCEPT !.pc = "subscribe"]
  /\ UNCHANGED <<store, stream, shown, ui, late, inboxPast>>

TakeCommand ==
  /\ net.pc = "wait" /\ chan # NoCmd
  /\ chan' = NoCmd
  /\ net' = IF net.conn THEN [net EXCEPT !.pc = "post", !.cmd = chan]
            ELSE [net EXCEPT !.pc = "subscribe", !.completed = 1 - @]
  /\ UNCHANGED <<store, stream, shown, ui, late, inboxPast>>

\* The daemon handles the decision, and its answer arrives.
HandleCommand ==
  /\ net.pc = "post" /\ ~net.answered
  /\ Apply(net.cmd)
  /\ net' = [net EXCEPT !.answered = TRUE]
  /\ UNCHANGED <<shown, chan, ui, late, inboxPast>>

\* Mutant of AnswerCommand: the answer is shown at once, with the snapshot from before it.
AnswerBeforeRefresh ==
  /\ net.pc = "post" /\ net.answered
  /\ LET n == [net EXCEPT !.pc = "subscribe", !.completed = 1 - @, !.cmd = NoCmd, !.answered = FALSE] IN net' = n /\ SendUpdate(n)
  /\ inboxPast' = [inboxPast EXCEPT !.answered = @ \cup {<<net.cmd.kind = "revoke", net.cmd.id>>}]
  /\ UNCHANGED <<store, stream, chan, ui, late>>

\* The answer, or a transport error instead of it.
AnswerCommand ==
  /\ net.pc = "post" /\ net.answered
  /\ net' = [net EXCEPT !.pc = "subscribe", !.completed = 1 - @, !.cmd = NoCmd, !.answered = FALSE]
  /\ inboxPast' = [inboxPast EXCEPT !.answered = @ \cup {<<net.cmd.kind = "revoke", net.cmd.id>>}]
  /\ UNCHANGED <<store, stream, shown, chan, ui, late>>

\* NETWORK_TIMEOUT: the outcome is unknown and the decision is not sent again.
PostTimesOut ==
  /\ net.pc = "post" /\ Faulty
  /\ net' = [net EXCEPT !.pc = "subscribe", !.completed = 1 - @, !.cmd = NoCmd, !.answered = FALSE,
                        !.faults = @ + 1]
  /\ late' = IF net.answered THEN late ELSE late \cup {net.cmd}
  /\ UNCHANGED <<store, stream, shown, chan, ui, inboxPast>>

LateHandled(cmd) ==
  /\ cmd \in late
  /\ late' = late \ {cmd}
  /\ (Apply(cmd) \/ UNCHANGED <<store, stream>>)
  /\ UNCHANGED <<net, shown, chan, ui, inboxPast>>

\* Any frame, resync_required included, means the snapshot is out of date.
EventFrame ==
  /\ net.pc = "wait" /\ net.events /\ stream.open
  /\ \/ stream.lagged /\ stream' = [stream EXCEPT !.lagged = FALSE]
     \/ ~stream.lagged /\ stream.queue > 0 /\ stream' = [stream EXCEPT !.queue = @ - 1]
  /\ net' = [net EXCEPT !.pc = "subscribe"]
  /\ UNCHANGED <<store, shown, chan, ui, late, inboxPast>>

StreamBreaks ==
  /\ stream.open /\ Faulty
  /\ stream' = NoStream
  /\ net' = [net EXCEPT !.faults = @ + 1]
  /\ UNCHANGED <<store, shown, chan, ui, late, inboxPast>>

StreamLost ==
  /\ net.pc = "wait" /\ net.events /\ ~stream.open
  /\ LET n == [net EXCEPT !.pc = "subscribe", !.events = FALSE, !.conn = FALSE] IN net' = n /\ SendUpdate(n)
  /\ UNCHANGED <<store, stream, chan, ui, late, inboxPast>>

\* Mutant of InboxTick: the tick that only refreshes a live stream.
TickWhileLive ==
  /\ net.pc = "wait" /\ net.events
  /\ net' = [net EXCEPT !.pc = "subscribe"]
  /\ UNCHANGED <<store, stream, shown, chan, ui, late, inboxPast>>

\* The 2 s tick, or a keep-alive of the stream.
InboxTick ==
  /\ net.pc = "wait"
  /\ net' = [net EXCEPT !.pc = "subscribe"]
  /\ UNCHANGED <<store, stream, shown, chan, ui, late, inboxPast>>

(***************************************************************************)
(* The terminal loop.  Every pass ends in a draw, which reconciles the     *)
(* selection with the rows while the list is on screen.                    *)
(***************************************************************************)
RequestOf(u, r) == CHOOSE q \in u.snapshot.requests : q.id = r
GrantOf(u, r) == CHOOSE g \in u.snapshot.grants : g.id = r

Rows(u) == {e.id : e \in IF u.tab = "grants" THEN u.snapshot.grants ELSE u.snapshot.requests}

\* The selection stays while its row is there.  Otherwise it falls on the first row the filter
\* leaves; the filter is text and stands for any choice of rows, none included.
Reconcile(u) ==
  {[u EXCEPT !.selected[u.tab] = r] :
     r \in IF u.selected[u.tab] \in Rows(u) THEN {u.selected[u.tab]} ELSE Rows(u) \cup {NoRequest}}

GrantDetail(g) == [kind |-> "grant", id |-> g.id, text |-> 1, dur |-> g.dur]
RequestDetail(q, d) == [kind |-> "request", id |-> q.id, text |-> q.text, dur |-> d]

\* Mutant of DurationFor: a duration chosen for the id, whatever the request then read.
DurationForId(u, q) ==
  LET chosen == {c \in u.durations : c.id = q.id}
  IN IF chosen = {} THEN DefaultDuration(q.id) ELSE (CHOOSE c \in chosen : TRUE).dur

\* The duration chosen for this request as it now reads, or its default.
DurationFor(u, q) ==
  LET chosen == {c \in u.durations : c.id = q.id /\ c.text = q.text}
  IN IF chosen = {} THEN DefaultDuration(q.id) ELSE (CHOOSE c \in chosen : TRUE).dur

SelectedDetail(u) ==
  LET r == u.selected[u.tab]
  IN IF u.tab = "grants"
     THEN IF \E g \in u.snapshot.grants : g.id = r THEN GrantDetail(GrantOf(u, r)) ELSE NoDetail
     ELSE IF \E q \in u.snapshot.requests : q.id = r
          THEN RequestDetail(RequestOf(u, r), DurationFor(u, RequestOf(u, r))) ELSE NoDetail

ActiveDetail(u) == IF u.detail # NoDetail THEN u.detail ELSE SelectedDetail(u)

Draw(u) == IF u.detail = NoDetail THEN Reconcile(u) ELSE {u}

\* Mutant of ApplyUpdate: any update ends the wait for the decision.
UpdateClearsBusy(u, up) ==
  LET snap == IF up.some THEN up.snapshot ELSE u.snapshot
      kept == {c \in u.durations : [id |-> c.id, text |-> c.text] \in snap.requests}
  IN [u EXCEPT !.snapshot = snap, !.durations = IF up.some THEN kept ELSE @,
               !.busy = FALSE, !.completed = up.completed, !.connected = up.connected]

ApplyUpdate(u, up) ==
  LET snap == IF up.some THEN up.snapshot ELSE u.snapshot
      kept == {c \in u.durations : [id |-> c.id, text |-> c.text] \in snap.requests}
  IN [u EXCEPT !.snapshot = snap,
               !.durations = IF up.some THEN kept ELSE @,
               !.busy = @ /\ up.completed = u.completed,
               !.completed = up.completed,
               !.connected = up.connected]

TakeUpdate ==
  /\ ui.run /\ shown.new
  /\ shown' = NoUpdate
  /\ \E u \in Reconcile(ApplyUpdate(ui, shown)) : ui' \in Draw(u)
  /\ UNCHANGED <<store, stream, net, chan, late, inboxPast>>

PressKey(u) == /\ ui.run
          /\ ui' \in Draw(u)
          /\ UNCHANGED <<store, stream, net, shown, late>>

\* Up and Down, and the filter's keys, after which another row is selected, or none is left.
Select(r) ==
  /\ ui.detail = NoDetail /\ r \in (Rows(ui) \cup {NoRequest}) \ {ui.selected[ui.tab]}
  /\ ui.run /\ ui' = [ui EXCEPT !.selected[ui.tab] = r]
  /\ UNCHANGED <<store, stream, net, shown, late, chan, inboxPast>>

\* Tab, Left and Right from the list.
SwitchTab ==
  /\ ui.detail = NoDetail
  /\ PressKey([ui EXCEPT !.tab = IF @ = "grants" THEN "requests" ELSE "grants"])
  /\ UNCHANGED <<chan, inboxPast>>

OpenDetail == /\ ui.detail = NoDetail /\ SelectedDetail(ui) # NoDetail
        /\ PressKey([ui EXCEPT !.detail = SelectedDetail(ui)])
        /\ UNCHANGED <<chan, inboxPast>>

\* Escape or Left from a detail.
Back == /\ ui.detail # NoDetail
        /\ PressKey([ui EXCEPT !.detail = NoDetail])
        /\ UNCHANGED <<chan, inboxPast>>

ChooseDuration(d) ==
  LET a == ActiveDetail(ui)
      c == [id |-> a.id, text |-> a.text, dur |-> d]
  IN /\ ~ui.busy /\ a.kind = "request" /\ (d = "surface" => a.id \notin Broad)
     /\ PressKey([ui EXCEPT !.durations = {e \in @ : e.id # a.id} \cup {c},
                       !.detail = IF @ = NoDetail THEN @ ELSE [@ EXCEPT !.dur = d]])
     /\ inboxPast' = [inboxPast EXCEPT !.chosen[a.id] = c]
     /\ UNCHANGED chan

Actionable(u) ==
  LET a == ActiveDetail(u)
  IN /\ u.connected /\ ~u.busy
     /\ \/ a.kind = "request" /\ [id |-> a.id, text |-> a.text] \in u.snapshot.requests
        \/ a.kind = "grant" /\ [id |-> a.id, dur |-> a.dur] \in u.snapshot.grants

Decision(u, key) ==
  LET a == ActiveDetail(u)
  IN CASE key = "a" /\ a.kind = "request" -> [kind |-> "approve", id |-> a.id, text |-> a.text, dur |-> a.dur]
       [] key = "d" /\ a.kind = "request" -> [kind |-> "deny", id |-> a.id, text |-> a.text, dur |-> "once"]
       [] key = "r" /\ a.kind = "grant" -> [kind |-> "revoke", id |-> a.id, text |-> 1, dur |-> "once"]
       [] OTHER -> NoCmd

\* A key that decides: refused, or put in the channel, which must have room.
Decide(key) ==
  /\ inboxPast.sends < MaxSends
  /\ Actionable(ui) /\ Decision(ui, key) # NoCmd
  /\ IF chan = NoCmd
     THEN chan' = Decision(ui, key) /\ PressKey([ui EXCEPT !.busy = TRUE])
     ELSE UNCHANGED chan /\ PressKey(ui)
  /\ inboxPast' = [inboxPast EXCEPT !.sends = @ + 1]

\* q, Ctrl-C or Escape from the list; the worker is aborted wherever it is.
Quit ==
  /\ ui.run
  /\ ui' = [NewUi EXCEPT !.run = FALSE]
  /\ net' = [NewNet EXCEPT !.pc = "over"]
  /\ late' = IF net.pc = "post" /\ ~net.answered THEN late \cup {net.cmd} ELSE late
  /\ stream' = NoStream /\ shown' = NoUpdate /\ chan' = NoCmd
  /\ UNCHANGED <<store, inboxPast>>

-----------------------------------------------------------------------------
InboxInit ==
  /\ store = [status |-> [r \in Reqs |-> "none"], text |-> [r \in Reqs |-> 1], gone |-> {}, grants |-> {}]
  /\ stream = NoStream /\ net = NewNet /\ shown = NoUpdate /\ chan = NoCmd /\ ui = NewUi
  /\ late = {}
  /\ inboxPast = [answered |-> {}, chosen |-> [r \in Reqs |-> NoChoice], sends |-> 0]

InboxDaemon == \/ \E r \in Reqs : NewRequest(r) \/ ResolveElsewhere(r) \/ Retitle(r) \/ WindowGoes(r)
               \/ \E cmd \in late : LateHandled(cmd)

InboxNetwork == \/ Subscribe \/ ReadRequests \/ ReadGrants \/ Refreshed \/ RefreshFails
                \/ TakeCommand \/ HandleCommand \/ AnswerCommand \/ PostTimesOut
                \/ EventFrame \/ StreamBreaks \/ StreamLost \/ InboxTick

InboxKeys == \/ \E r \in Reqs \cup {NoRequest} : Select(r)
             \/ \E d \in Durations : ChooseDuration(d)
             \/ \E key \in {"a", "d", "r"} : Decide(key)
             \/ SwitchTab \/ OpenDetail \/ Back \/ Quit

InboxNext == InboxDaemon \/ InboxNetwork \/ TakeUpdate \/ InboxKeys

\* The task and the loop keep running, the daemon answers, and the tick comes.
InboxFairness ==
  /\ WF_inboxVars(Subscribe) /\ WF_inboxVars(ReadRequests) /\ WF_inboxVars(ReadGrants)
  /\ WF_inboxVars(Refreshed) /\ WF_inboxVars(HandleCommand) /\ WF_inboxVars(AnswerCommand)
  /\ SF_inboxVars(TakeCommand) /\ WF_inboxVars(InboxTick) /\ WF_inboxVars(TakeUpdate)

InboxSpec == InboxInit /\ [][InboxNext]_inboxVars /\ InboxFairness
-----------------------------------------------------------------------------
SnapshotType == [requests : SUBSET [id : Reqs, text : 1..2], grants : SUBSET [id : Reqs, dur : {"once", "surface", "persistent"}]]
CmdType == [kind : {"none", "approve", "deny", "revoke"}, id : Reqs \cup {NoRequest}, text : 1..2, dur : {"once", "surface", "persistent"}]

\* The state of the inbox has its shape.
InboxTypeOK ==
  /\ store.status \in [Reqs -> {"none", "pending", "approved", "denied", "retired"}]
  /\ store.grants \subseteq [id : Reqs, dur : {"once", "surface", "persistent"}]
  /\ stream.queue \in 0..Capacity
  /\ net.pc \in {"subscribe", "read", "wait", "post", "over"}
  /\ net.snap \in SnapshotType /\ shown.snapshot \in SnapshotType /\ ui.snapshot \in SnapshotType
  /\ net.cmd \in CmdType /\ chan \in CmdType /\ late \subseteq CmdType
  /\ ui.selected \in [Tabs -> Reqs \cup {NoRequest}]
  /\ ui.detail.kind \in {"none", "request", "grant"}

\* The decisions under way.
Under == {c \in {chan, net.cmd} : c # NoCmd}

\* An entry whose decision was answered is never decided again from this inbox: `busy` holds
\* until an update that counts the answer, and that update carries a snapshot read after it or
\* turns the inbox offline.
AnsweredOnce == \A c \in Under : <<c.kind = "revoke", c.id>> \notin inboxPast.answered

\* One decision is on its way at a time, and the place in the channel is free for it.
OneDecision == /\ Cardinality(Under) <= 1
               /\ (~ui.busy /\ ui.run => Under = {})

\* An approval carries the default duration of its request, or the one the operator last chose for it, and
\* chose while the request read exactly as it does in the approval.
DurationIsForThisRequest ==
  \A c \in Under : c.kind = "approve" =>
    \/ c.dur = DefaultDuration(c.id)
    \/ inboxPast.chosen[c.id] = [id |-> c.id, text |-> c.text, dur |-> c.dur]

\* "Subscribe before the initial/reconnected snapshot, closing the lost-update gap": while the
\* task waits and is connected, a request its snapshot lacks, or still has after a decision,
\* has an event on its way to it, or the stream is seen to end.
NoLostUpdate ==
  (net.pc = "wait" /\ net.conn) =>
    \/ ~stream.open \/ stream.queue > 0 \/ stream.lagged
    \/ {q.id : q \in net.snap.requests} \subseteq Pending(store)
       /\ Pending(store) \ store.gone \subseteq {q.id : q \in net.snap.requests}

\* An operator who sent a decision can send another: the loop is told of every outcome, the
\* unknown one and the one that was never sent included.
BusyEnds == ui.busy ~> (~ui.busy \/ ~ui.run)

\* A request that stays pending is shown, whatever was lost on the way.
RequestIsShown ==
  \A r \in Reqs : (r \in Pending(store) \ store.gone) ~>
     (~ui.run \/ r \notin Pending(store) \ store.gone \/ (\E q \in ui.snapshot.requests : q.id = r))
=============================================================================
