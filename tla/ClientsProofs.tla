---------------------------- MODULE ClientsProofs ----------------------------
(***************************************************************************)
(* Proofs about the daemon's clients: the operator's inbox (Inbox), the    *)
(* console handoff of the Windows helper (Handoff), and the commands that  *)
(* wait, record, onboard and install (Waits, Recorder, Onboard, Install),  *)
(* and the endpoint and the clock they meet the daemon by (ControlEndpoint,*)
(* ClockSync), for every value of their constants.                         *)
(***************************************************************************)
EXTENDS MCClients, FiniteSetTheorems, WellFoundedInduction, TLAPS

(***************************************************************************)
(* The inbox.  The loop may decide again once it took an update that       *)
(* counts the last outcome, and the counter is one bit.  So the invariant  *)
(* follows the bit through the task, the update on its way and the loop    *)
(* (CountInv), and says which of their three snapshots were read after the *)
(* last answer (CleanInv).  A snapshot that lists an entry nobody answered *)
(* stays that way because the daemon never takes a decision back (Closed).*)
(***************************************************************************)

Lasting == {"once", "surface", "persistent"}
Asked == [id : Reqs, text : 1..2]
Granted == [id : Reqs, dur : Lasting]
ChoiceType == [id : Reqs \cup {NoRequest}, text : 1..2, dur : Lasting]
Details == [kind : {"none", "request", "grant"}, id : Reqs \cup {NoRequest}, text : 1..2, dur : Lasting]

StoreType == [status : [Reqs -> {"none", "pending", "approved", "denied", "retired"}], text : [Reqs -> 1..2],
              gone : SUBSET Reqs, grants : SUBSET Granted]
StreamType == [open : BOOLEAN, queue : 0..Capacity, lagged : BOOLEAN]
NetType == [pc : {"subscribe", "read", "wait", "post", "over"}, events : BOOLEAN, got : SUBSET Tabs,
            read : SnapshotType, some : BOOLEAN, snap : SnapshotType, conn : BOOLEAN, completed : 0..1,
            cmd : CmdType, answered : BOOLEAN, faults : 0..MaxBreaks]
UpdateType == [some : BOOLEAN, snapshot : SnapshotType, connected : BOOLEAN, completed : 0..1, new : BOOLEAN]
UiType == [run : BOOLEAN, snapshot : SnapshotType, selected : [Tabs -> Reqs \cup {NoRequest}], tab : Tabs,
           detail : Details, durations : SUBSET ChoiceType, connected : BOOLEAN, busy : BOOLEAN, completed : 0..1]
PastType == [answered : SUBSET (BOOLEAN \X (Reqs \cup {NoRequest})), chosen : [Reqs -> ChoiceType], sends : 0..MaxSends]

\* The whole shape of the state, the histories included.
InboxTypes ==
  /\ store \in StoreType /\ stream \in StreamType /\ net \in NetType /\ shown \in UpdateType
  /\ chan \in CmdType /\ ui \in UiType /\ late \subseteq CmdType /\ inboxPast \in PastType

\* Where the task and the loop are: a command is with the task exactly while it is being posted, and a
\* snapshot is being read only in `read', so never while an answer comes in.
PhaseInv ==
  /\ net.pc = "over" <=> ~ui.run
  /\ ~ui.run => chan = NoCmd
  /\ net.pc = "post" <=> net.cmd # NoCmd
  /\ chan # NoCmd => net.cmd = NoCmd
  /\ net.pc # "read" => net.got = {} /\ net.read = EmptySnapshot
  /\ net.answered => net.pc = "post"
  /\ net.conn => net.some
  /\ shown.connected => shown.some

\* While a decision is under way the two bits are equal; while they differ its outcome is on its way to
\* the loop, which waits in both cases.  An update with the loop's own bit ends no wait.
CountInv ==
  ui.run =>
    /\ chan # NoCmd \/ net.cmd # NoCmd => ui.busy /\ net.completed = ui.completed
    /\ ~ui.busy => net.completed = ui.completed
    /\ shown.new /\ net.completed = ui.completed => shown.completed = ui.completed

\* The entries of a snapshot exist, and its grants were approved.
Known(st, s) ==
  /\ \A q \in s.requests : st.status[q.id] # "none"
  /\ \A g \in s.grants : st.status[g.id] = "approved"

\* A decision is about a request or a grant that exists.
Real(st, c) ==
  /\ c.kind # "none" /\ c.id \in Reqs
  /\ st.status[c.id] # "none" /\ (c.kind = "revoke" => st.status[c.id] = "approved")

\* What was answered cannot be asked for again: the request is decided, the grant is gone for good.
Closed(st, revoked, id) ==
  /\ id \in Reqs /\ st.status[id] \notin {"none", "pending"}
  /\ revoked => st.status[id] = "approved" /\ \A g \in st.grants : g.id # id

GrantsApproved(st) == \A g \in st.grants : st.status[g.id] = "approved"

\* What the rest of the inbox may rely on of the daemon's requests.
RecordOf(st) ==
  /\ GrantsApproved(st)
  /\ Known(st, net.read) /\ Known(st, net.snap) /\ Known(st, shown.snapshot) /\ Known(st, ui.snapshot)
  /\ chan # NoCmd => Real(st, chan)
  /\ net.cmd # NoCmd => Real(st, net.cmd)
  /\ net.answered => Closed(st, net.cmd.kind = "revoke", net.cmd.id)
  /\ \A a \in inboxPast.answered : Closed(st, a[1], a[2])

RecordInv == RecordOf(store)

\* No entry of the snapshot was answered.
Clean(past, s) ==
  /\ \A q \in s.requests : <<FALSE, q.id>> \notin past.answered
  /\ \A g \in s.grants : <<TRUE, g.id>> \notin past.answered

\* Which snapshots were read after the last answer: what the task waits with while connected, and the
\* updates that count that answer.
CleanInv ==
  /\ Clean(inboxPast, net.read)
  /\ net.pc = "wait" /\ net.conn => Clean(inboxPast, net.snap)
  /\ shown.new /\ shown.connected /\ shown.completed = net.completed => Clean(inboxPast, shown.snapshot)
  /\ ui.run /\ ui.connected /\ ui.completed = net.completed => Clean(inboxPast, ui.snapshot)

\* The duration of x is the default, or was chosen for it as it reads.
Chosen(past, x) ==
  x.dur = DefaultDuration(x.id) \/ past.chosen[x.id] = [id |-> x.id, text |-> x.text, dur |-> x.dur]

\* The loop's record of choices is the operator's, and an open detail shows one of them.
ChoiceInv ==
  /\ \A c \in ui.durations : c.id \in Reqs /\ inboxPast.chosen[c.id] = c
  /\ ui.detail.kind = "request" => ui.detail.id \in Reqs /\ Chosen(inboxPast, ui.detail)
  /\ ui.detail.kind = "grant" => ui.detail.id \in Reqs

\* The stream has something for the task: an event, a resync, or its end.
Announces(b) == ~b.open \/ b.queue > 0 \/ b.lagged

\* A snapshot lists what is pending.
Shows(st, s) ==
  /\ \A q \in s.requests : q.id \in Pending(st)
  /\ \A r \in Pending(st) \ st.gone : \E q \in s.requests : q.id = r

\* The subscription is older than the snapshot, so a change since it was read is announced.
UpdateInv ==
  /\ net.pc = "read" /\ "requests" \in net.got /\ net.events => Announces(stream) \/ Shows(store, net.read)
  /\ net.pc = "wait" /\ net.conn => Announces(stream) \/ Shows(store, net.snap)

\* A decision under way was not answered, and an approval carries a chosen duration.
CommandOK(past, c) ==
  c # NoCmd => /\ <<c.kind = "revoke", c.id>> \notin past.answered
               /\ c.kind = "approve" => Chosen(past, c)

CommandInv == CommandOK(inboxPast, chan) /\ CommandOK(inboxPast, net.cmd)

InboxInv ==
  /\ InboxTypes /\ PhaseInv /\ CountInv /\ RecordInv /\ CleanInv /\ ChoiceInv /\ UpdateInv /\ CommandInv

\* The same terminal loop but for the selection.
SameButSelection(u, v) ==
  /\ v \in UiType
  /\ v.run = u.run /\ v.snapshot = u.snapshot /\ v.tab = u.tab /\ v.detail = u.detail /\ v.durations = u.durations
  /\ v.connected = u.connected /\ v.busy = u.busy /\ v.completed = u.completed

\* A selection of one of the rows keeps the rest of the loop's state.
LEMMA ReconcileKeeps ==
  ASSUME NEW u \in UiType, NEW v \in Reconcile(u)
  PROVE  SameButSelection(u, v)
<1>1. Rows(u) \subseteq Reqs
  BY DEF Rows, UiType, SnapshotType, Tabs
<1>2. PICK r \in Reqs \cup {NoRequest} : v = [u EXCEPT !.selected[u.tab] = r]
  BY <1>1 DEF Reconcile, UiType
<1>3. u.tab \in Tabs /\ u.selected \in [Tabs -> Reqs \cup {NoRequest}]
  BY DEF UiType
<1>4. [u.selected EXCEPT ![u.tab] = r] \in [Tabs -> Reqs \cup {NoRequest}]
  BY <1>3
<1>5. v = [u EXCEPT !.selected = [u.selected EXCEPT ![u.tab] = r]]
  BY <1>2, <1>3 DEF UiType
<1>. HIDE DEF SnapshotType
<1>6. v \in UiType
  BY <1>4, <1>5 DEF UiType
<1>. QED
  BY <1>5, <1>6 DEF SameButSelection, UiType

\* So does the draw that ends a pass of the loop.
LEMMA DrawKeeps ==
  ASSUME NEW u \in UiType, NEW v \in Draw(u)
  PROVE  SameButSelection(u, v)
<1>1. CASE u.detail = NoDetail
  BY <1>1, ReconcileKeeps DEF Draw
<1>2. CASE u.detail # NoDetail
  BY <1>2 DEF Draw, SameButSelection
<1>. QED
  BY <1>1, <1>2

\* A key that gives u leaves u, but for the selection.
LEMMA PressKeyDoes ==
  ASSUME NEW u \in UiType, PressKey(u)
  PROVE  ui.run /\ SameButSelection(u, ui')
BY DrawKeeps DEF PressKey

\* What the loop makes of an update.
LEMMA TakeUpdateDoes ==
  ASSUME InboxTypes, TakeUpdate
  PROVE  /\ ui' \in UiType
         /\ ui'.run = ui.run /\ ui'.detail = ui.detail /\ ui'.durations \subseteq ui.durations
         /\ ui'.snapshot = IF shown.some THEN shown.snapshot ELSE ui.snapshot
         /\ ui'.busy = (ui.busy /\ shown.completed = ui.completed)
         /\ ui'.completed = shown.completed /\ ui'.connected = shown.connected
<1>. DEFINE w == ApplyUpdate(ui, shown)
<1>1. /\ w \in UiType
      /\ w.run = ui.run /\ w.detail = ui.detail /\ w.durations \subseteq ui.durations
      /\ w.snapshot = IF shown.some THEN shown.snapshot ELSE ui.snapshot
      /\ w.busy = (ui.busy /\ shown.completed = ui.completed)
      /\ w.completed = shown.completed /\ w.connected = shown.connected
  <2>1. ui \in UiType /\ shown \in UpdateType
    BY DEF InboxTypes
  <2>. DEFINE snap == IF shown.some THEN shown.snapshot ELSE ui.snapshot
              kept == IF shown.some THEN {c \in ui.durations : [id |-> c.id, text |-> c.text] \in snap.requests}
                      ELSE ui.durations
              b == ui.busy /\ shown.completed = ui.completed
  <2>2. snap \in SnapshotType
    BY <2>1 DEF UiType, UpdateType
  <2>3. kept \in SUBSET ChoiceType /\ kept \subseteq ui.durations
    BY <2>1 DEF UiType
  <2>4. b \in BOOLEAN
    OBVIOUS
  <2>5. w = [ui EXCEPT !.snapshot = snap, !.durations = kept, !.busy = b, !.completed = shown.completed,
                       !.connected = shown.connected]
    BY <2>1 DEF ApplyUpdate, UiType
  <2>. HIDE DEF snap, kept, b, w
  <2>6. shown.completed \in 0..1 /\ shown.connected \in BOOLEAN
    BY <2>1 DEF UpdateType
  <2>7. w \in UiType
    BY <2>1, <2>2, <2>3, <2>4, <2>5, <2>6 DEF UiType
  <2>8. /\ w.run = ui.run /\ w.detail = ui.detail /\ w.durations = kept /\ w.snapshot = snap /\ w.busy = b
        /\ w.completed = shown.completed /\ w.connected = shown.connected
    BY <2>1, <2>5 DEF UiType
  <2>. QED
    BY <2>3, <2>7, <2>8 DEF snap, b
<1>. HIDE DEF w
<1>2. PICK u \in Reconcile(w) : ui' \in Draw(u)
  BY DEF TakeUpdate, w
<1>3. SameButSelection(w, u)
  BY <1>1, <1>2, ReconcileKeeps
<1>4. SameButSelection(u, ui')
  BY <1>2, <1>3, DrawKeeps DEF SameButSelection
<1>. QED
  BY <1>1, <1>3, <1>4 DEF SameButSelection

\* The duration shown for a request: its default, or the one chosen for it as it reads.
LEMMA DurationForIs ==
  ASSUME NEW u \in UiType, NEW q \in u.snapshot.requests
  PROVE  /\ q \in Asked /\ DurationFor(u, q) \in Lasting
         /\ \/ DurationFor(u, q) = DefaultDuration(q.id)
            \/ \E c \in u.durations : c = [id |-> q.id, text |-> q.text, dur |-> DurationFor(u, q)]
<1>1. q \in Asked
  BY DEF UiType, SnapshotType, Asked
<1>2. DefaultDuration(q.id) \in Lasting
  BY DEF DefaultDuration, Lasting
<1>. DEFINE chosen == {c \in u.durations : c.id = q.id /\ c.text = q.text}
<1>3. CASE chosen = {}
  BY <1>1, <1>2, <1>3 DEF DurationFor
<1>4. CASE chosen # {}
  <2>. DEFINE c == CHOOSE e \in chosen : TRUE
  <2>1. c \in chosen
    BY <1>4
  <2>2. DurationFor(u, q) = c.dur
    BY <1>4 DEF DurationFor
  <2>. HIDE DEF c
  <2>3. c \in ChoiceType
    BY <2>1 DEF UiType
  <2>4. c = [id |-> q.id, text |-> q.text, dur |-> c.dur]
    BY <2>1, <2>3 DEF ChoiceType
  <2>. QED
    BY <1>1, <2>1, <2>2, <2>3, <2>4 DEF ChoiceType
<1>. QED
  BY <1>3, <1>4

\* A detail the loop's lists can give.
RowDetail(u, a) ==
  /\ a \in Details
  /\ a.kind = "request" => /\ a.id \in Reqs
                           /\ \/ a.dur = DefaultDuration(a.id)
                              \/ \E c \in u.durations : c = [id |-> a.id, text |-> a.text, dur |-> a.dur]
  /\ a.kind = "grant" => a.id \in Reqs

\* What the selected row shows: a request of the snapshot with its duration, or a grant of it.
LEMMA SelectedDetailIs ==
  ASSUME NEW u \in UiType
  PROVE  RowDetail(u, SelectedDetail(u))
<1>. DEFINE a == SelectedDetail(u)
            r == u.selected[u.tab]
<1>0. NoDetail \in Details /\ NoDetail.kind = "none"
  BY DEF NoDetail, Details, Lasting
<1>1. CASE u.tab = "grants" /\ \E g \in u.snapshot.grants : g.id = r
  <2>. DEFINE g == CHOOSE x \in u.snapshot.grants : x.id = r
  <2>1. g \in u.snapshot.grants
    BY <1>1
  <2>2. a = GrantDetail(g)
    BY <1>1 DEF SelectedDetail, GrantOf
  <2>. HIDE DEF g
  <2>3. g \in Granted
    BY <2>1 DEF UiType, SnapshotType, Granted, Lasting
  <2>. QED
    BY <2>2, <2>3 DEF GrantDetail, Granted, Details, RowDetail
<1>2. CASE u.tab # "grants" /\ \E q \in u.snapshot.requests : q.id = r
  <2>. DEFINE q == CHOOSE x \in u.snapshot.requests : x.id = r
  <2>1. q \in u.snapshot.requests
    BY <1>2
  <2>2. a = RequestDetail(q, DurationFor(u, q))
    BY <1>2 DEF SelectedDetail, RequestOf
  <2>. HIDE DEF q
  <2>3. /\ q \in Asked /\ DurationFor(u, q) \in Lasting
        /\ \/ DurationFor(u, q) = DefaultDuration(q.id)
           \/ \E c \in u.durations : c = [id |-> q.id, text |-> q.text, dur |-> DurationFor(u, q)]
    BY <2>1, DurationForIs
  <2>4. /\ a.kind = "request" /\ a.id = q.id /\ a.text = q.text /\ a.dur = DurationFor(u, q) /\ a \in Details
    BY <2>2, <2>3 DEF RequestDetail, Details, Asked
  <2>. HIDE DEF a
  <2>. QED
    BY <2>3, <2>4 DEF Asked, RowDetail, a
<1>3. CASE ~(u.tab = "grants" /\ \E g \in u.snapshot.grants : g.id = r)
           /\ ~(u.tab # "grants" /\ \E q \in u.snapshot.requests : q.id = r)
  BY <1>0, <1>3 DEF SelectedDetail, RowDetail
<1>. QED
  BY <1>1, <1>2, <1>3
(***************************************************************************)
(* The daemon: requests only ever move on, and every move is announced.    *)
(***************************************************************************)
\* No request comes back: one that was decided stays as it was, and a grant comes of an approval.
Advances(s, t) ==
  /\ t \in StoreType
  /\ \A r \in Reqs : s.status[r] # "none" => t.status[r] # "none"
  /\ \A r \in Reqs : s.status[r] \notin {"none", "pending"} => t.status[r] = s.status[r]
  /\ \A g \in t.grants : g \in s.grants \/ (s.status[g.id] = "pending" /\ t.status[g.id] = "approved")

\* The requests move on, and the subscriber is told unless nothing pending changed.
StoreMoves ==
  /\ Advances(store, store') /\ stream' \in StreamType
  /\ \/ Announces(stream')
     \/ stream' = stream /\ Pending(store') = Pending(store) /\ store.gone \subseteq store'.gone

\* A publication reaches the subscriber, or tells it that it missed some.
LEMMA PublishAnnounces ==
  ASSUME NEW b \in StreamType
  PROVE  PublishEvent(b) \in StreamType /\ Announces(PublishEvent(b))
<1>1. Capacity \in Nat /\ Capacity > 0
  BY InboxAssumption
<1>2. b.queue \in 0..Capacity /\ b.open \in BOOLEAN /\ b.lagged \in BOOLEAN
  BY DEF StreamType
<1>3. CASE ~b.open
  BY <1>3 DEF PublishEvent, Announces
<1>4. CASE b.open /\ b.queue = Capacity
  <2>1. PublishEvent(b) = [b EXCEPT !.lagged = TRUE]
    BY <1>4 DEF PublishEvent
  <2>. QED
    BY <2>1 DEF StreamType, Announces
<1>5. CASE b.open /\ b.queue # Capacity
  <2>1. PublishEvent(b) = [b EXCEPT !.queue = b.queue + 1]
    BY <1>5 DEF PublishEvent, StreamType
  <2>2. b.queue + 1 \in 0..Capacity /\ b.queue + 1 > 0
    BY <1>1, <1>2, <1>5
  <2>3. PublishEvent(b) \in StreamType /\ PublishEvent(b).queue = b.queue + 1
    BY <2>1, <2>2 DEF StreamType
  <2>. QED
    BY <2>2, <2>3 DEF Announces
<1>. QED
  BY <1>3, <1>4, <1>5

\* Setting the status of one request.
LEMMA StatusSet ==
  ASSUME NEW s \in StoreType, NEW r \in Reqs, NEW x \in {"none", "pending", "approved", "denied", "retired"}
  PROVE  LET t == [s EXCEPT !.status[r] = x]
         IN /\ t \in StoreType /\ t.text = s.text /\ t.gone = s.gone /\ t.grants = s.grants
            /\ \A q \in Reqs : t.status[q] = IF q = r THEN x ELSE s.status[q]
<1>1. [s EXCEPT !.status[r] = x] = [s EXCEPT !.status = [s.status EXCEPT ![r] = x]]
  BY DEF StoreType
<1>2. [s.status EXCEPT ![r] = x] \in [Reqs -> {"none", "pending", "approved", "denied", "retired"}]
  BY DEF StoreType
<1>. QED
  BY <1>1, <1>2 DEF StoreType

\* Retiring requests changes their status and nothing else.
LEMMA RetireIs ==
  ASSUME NEW s \in StoreType, NEW rs \in SUBSET Reqs
  PROVE  LET t == Retire(s, rs)
         IN /\ t \in StoreType /\ t.text = s.text /\ t.gone = s.gone /\ t.grants = s.grants
            /\ \A q \in Reqs : t.status[q] = IF q \in rs THEN "retired" ELSE s.status[q]
<1>. DEFINE f == [r \in Reqs |-> IF r \in rs THEN "retired" ELSE s.status[r]]
<1>1. f \in [Reqs -> {"none", "pending", "approved", "denied", "retired"}]
  BY DEF StoreType
<1>2. Retire(s, rs) = [s EXCEPT !.status = f]
  BY DEF Retire, StoreType
<1>. QED
  BY <1>1, <1>2 DEF StoreType

\* A decision moves its request on, or finds it decided.
LEMMA ApplyAdvances ==
  ASSUME InboxTypes, NEW dec \in CmdType, Apply(dec)
  PROVE  StoreMoves
<1>1. store \in StoreType /\ stream \in StreamType
  BY DEF InboxTypes
<1>2. PublishEvent(stream) \in StreamType /\ Announces(PublishEvent(stream))
  BY <1>1, PublishAnnounces
<1>3. CASE dec.kind = "approve" /\ dec.id \in Stale(store)
  <2>1. store' = Retire(store, {dec.id}) /\ stream' = PublishEvent(stream)
    BY <1>3 DEF Apply, Stale
  <2>2. dec.id \in Reqs /\ store.status[dec.id] = "pending"
    BY <1>3 DEF Stale, Pending
  <2>3. /\ store' \in StoreType /\ store'.grants = store.grants
        /\ \A q \in Reqs : store'.status[q] = IF q = dec.id THEN "retired" ELSE store.status[q]
    BY <1>1, <2>1, <2>2, RetireIs
  <2>. QED
    BY <1>2, <2>1, <2>2, <2>3 DEF StoreMoves, Advances
<1>4. CASE dec.kind = "approve" /\ dec.id \in Pending(store) \ store.gone
  <2>. DEFINE g == [id |-> dec.id, dur |-> dec.dur]
              f == [store.status EXCEPT ![dec.id] = "approved"]
  <2>1. stream' = PublishEvent(stream)
        /\ store' = [store EXCEPT !.status[dec.id] = "approved", !.grants = @ \cup {g}]
    BY <1>4 DEF Apply, Stale
  <2>2. dec.id \in Reqs /\ store.status[dec.id] = "pending"
    BY <1>4 DEF Pending
  <2>3. g \in Granted
    BY <2>2 DEF CmdType, Granted, Lasting
  <2>4. store' = [store EXCEPT !.status = f, !.grants = store.grants \cup {g}]
    BY <1>1, <2>1 DEF StoreType
  <2>5. f \in [Reqs -> {"none", "pending", "approved", "denied", "retired"}]
    BY <1>1 DEF StoreType
  <2>6. /\ store' \in StoreType /\ store'.grants = store.grants \cup {g} /\ store'.status = f
    BY <1>1, <2>3, <2>4, <2>5 DEF StoreType
  <2>7. \A q \in Reqs : store'.status[q] = IF q = dec.id THEN "approved" ELSE store.status[q]
    BY <1>1, <2>6 DEF StoreType
  <2>. QED
    BY <1>2, <2>1, <2>2, <2>6, <2>7 DEF StoreMoves, Advances
<1>5. CASE dec.kind = "deny" /\ dec.id \in Pending(store)
  <2>1. store' = [store EXCEPT !.status[dec.id] = "denied"] /\ stream' = PublishEvent(stream)
    BY <1>5 DEF Apply
  <2>2. dec.id \in Reqs /\ store.status[dec.id] = "pending"
    BY <1>5 DEF Pending
  <2>3. /\ store' \in StoreType /\ store'.grants = store.grants
        /\ \A q \in Reqs : store'.status[q] = IF q = dec.id THEN "denied" ELSE store.status[q]
    BY <1>1, <2>1, <2>2, StatusSet
  <2>. QED
    BY <1>2, <2>1, <2>2, <2>3 DEF StoreMoves, Advances
<1>6. CASE dec.kind = "revoke" /\ \E g \in store.grants : g.id = dec.id
  <2>1. store' = [store EXCEPT !.grants = {g \in store.grants : g.id # dec.id}] /\ stream' = PublishEvent(stream)
    BY <1>1, <1>6 DEF Apply, StoreType
  <2>2. store' \in StoreType /\ store'.status = store.status /\ store'.grants \subseteq store.grants
    BY <1>1, <2>1 DEF StoreType
  <2>. QED
    BY <1>2, <2>1, <2>2 DEF StoreMoves, Advances
<1>7. CASE /\ ~(dec.kind = "approve" /\ dec.id \in Stale(store))
           /\ ~(dec.kind = "approve" /\ dec.id \in Pending(store) \ store.gone)
           /\ ~(dec.kind = "deny" /\ dec.id \in Pending(store))
           /\ ~(dec.kind = "revoke" /\ \E g \in store.grants : g.id = dec.id)
  <2>1. UNCHANGED <<store, stream>>
    BY <1>7 DEF Apply
  <2>. QED
    BY <1>1, <2>1 DEF StoreMoves, Advances
<1>. QED
  BY <1>3, <1>4, <1>5, <1>6, <1>7

\* A decision that was handled leaves nothing to decide.
LEMMA ApplySettles ==
  ASSUME InboxTypes, NEW dec \in CmdType, Apply(dec), Real(store, dec)
  PROVE  Closed(store', dec.kind = "revoke", dec.id)
<1>1. store \in StoreType /\ dec.id \in Reqs /\ store.status[dec.id] # "none"
  BY DEF InboxTypes, Real
<1>2. CASE dec.kind = "approve" /\ dec.id \in Stale(store)
  <2>1. store' = Retire(store, {dec.id})
    BY <1>2 DEF Apply, Stale
  <2>2. \A q \in Reqs : store'.status[q] = IF q \in {dec.id} THEN "retired" ELSE store.status[q]
    <3>1. {dec.id} \in SUBSET Reqs
      BY <1>1
    <3>. QED
      BY <1>1, <2>1, <3>1, RetireIs
  <2>. QED
    BY <1>1, <1>2, <2>2 DEF Closed
<1>3. CASE dec.kind = "approve" /\ dec.id \in Pending(store) \ store.gone
  <2>1. store' = [store EXCEPT !.status[dec.id] = "approved",
                               !.grants = @ \cup {[id |-> dec.id, dur |-> dec.dur]}]
    BY <1>3 DEF Apply, Stale
  <2>2. store'.status[dec.id] = "approved"
    BY <1>1, <2>1 DEF StoreType
  <2>. QED
    BY <1>1, <1>3, <2>2 DEF Closed
<1>4. CASE dec.kind = "deny" /\ dec.id \in Pending(store)
  <2>1. store' = [store EXCEPT !.status[dec.id] = "denied"]
    BY <1>4 DEF Apply
  <2>2. store'.status[dec.id] = "denied"
    BY <1>1, <2>1 DEF StoreType
  <2>. QED
    BY <1>1, <1>4, <2>2 DEF Closed
<1>5. CASE dec.kind = "revoke"
  <2>1. store'.status = store.status /\ \A g \in store'.grants : g.id # dec.id
    <3>1. CASE \E g \in store.grants : g.id = dec.id
      <4>1. store' = [store EXCEPT !.grants = {g \in store.grants : g.id # dec.id}]
        BY <1>1, <1>5, <3>1 DEF Apply, StoreType
      <4>. QED
        BY <1>1, <4>1 DEF StoreType
    <3>2. CASE ~\E g \in store.grants : g.id = dec.id
      BY <1>5, <3>2 DEF Apply
    <3>. QED
      BY <3>1, <3>2
  <2>. QED
    BY <1>1, <1>5, <2>1 DEF Closed, Real
<1>6. CASE dec.kind # "revoke" /\ dec.id \notin Pending(store)
  <2>1. store' = store
    BY <1>6 DEF Apply, Stale
  <2>. QED
    BY <1>1, <1>6, <2>1 DEF Closed, Pending
<1>. QED
  BY <1>1, <1>2, <1>3, <1>4, <1>5, <1>6 DEF CmdType, Real, Stale

\* Everything else that happens at the daemon moves the requests on, too.
LEMMA DaemonAdvances ==
  ASSUME InboxTypes, InboxDaemon
  PROVE  StoreMoves /\ UNCHANGED <<net, shown, chan, ui, inboxPast>> /\ late' \subseteq CmdType
<1>1. store \in StoreType /\ stream \in StreamType /\ late \subseteq CmdType
  BY DEF InboxTypes
<1>2. PublishEvent(stream) \in StreamType /\ Announces(PublishEvent(stream))
  BY <1>1, PublishAnnounces
<1>3. ASSUME NEW r \in Reqs, NewRequest(r) PROVE StoreMoves
  <2>1. /\ store' = [store EXCEPT !.status[r] = "pending"] /\ store.status[r] \in {"none", "pending"}
        /\ stream' = PublishEvent(stream)
    BY <1>3 DEF NewRequest
  <2>2. /\ store' \in StoreType /\ store'.grants = store.grants
        /\ \A q \in Reqs : store'.status[q] = IF q = r THEN "pending" ELSE store.status[q]
    BY <1>1, <2>1, StatusSet
  <2>. QED
    BY <1>2, <2>1, <2>2 DEF StoreMoves, Advances
<1>7. ASSUME NEW r \in Reqs, ResolveElsewhere(r) PROVE StoreMoves
  <2>1. /\ store' = [store EXCEPT !.status[r] = "denied"] /\ store.status[r] \in {"none", "pending"}
        /\ stream' = PublishEvent(stream)
    BY <1>7 DEF ResolveElsewhere
  <2>2. /\ store' \in StoreType /\ store'.grants = store.grants
        /\ \A q \in Reqs : store'.status[q] = IF q = r THEN "denied" ELSE store.status[q]
    BY <1>1, <2>1, StatusSet
  <2>. QED
    BY <1>2, <2>1, <2>2 DEF StoreMoves, Advances
<1>4. ASSUME NEW r \in Reqs, Retitle(r) PROVE StoreMoves
  <2>1. store' = [store EXCEPT !.text = [store.text EXCEPT ![r] = 2]] /\ stream' = stream
    BY <1>1, <1>4 DEF Retitle, StoreType
  <2>2. [store.text EXCEPT ![r] = 2] \in [Reqs -> 1..2]
    BY <1>1 DEF StoreType
  <2>3. store' \in StoreType /\ store'.status = store.status /\ store'.gone = store.gone /\ store'.grants = store.grants
    BY <1>1, <2>1, <2>2 DEF StoreType
  <2>. QED
    BY <1>1, <2>1, <2>3 DEF StoreMoves, Advances, Pending
<1>5. ASSUME NEW r \in Reqs, WindowGoes(r) PROVE StoreMoves
  <2>1. store' = [store EXCEPT !.gone = store.gone \cup {r}] /\ stream' = stream
    BY <1>1, <1>5 DEF WindowGoes, StoreType
  <2>2. /\ store' \in StoreType /\ store'.status = store.status /\ store'.gone = store.gone \cup {r}
        /\ store'.grants = store.grants
    BY <1>1, <2>1 DEF StoreType
  <2>. QED
    BY <1>1, <2>1, <2>2 DEF StoreMoves, Advances, Pending
<1>6. ASSUME NEW dec \in late, LateHandled(dec) PROVE StoreMoves /\ late' \subseteq CmdType
  <2>1. CASE Apply(dec)
    BY <1>1, <1>6, <2>1, ApplyAdvances DEF LateHandled
  <2>2. CASE UNCHANGED <<store, stream>>
    BY <1>1, <1>6, <2>2 DEF LateHandled, StoreMoves, Advances
  <2>. QED
    BY <1>6, <2>1, <2>2 DEF LateHandled
<1>. QED
  BY <1>1, <1>3, <1>4, <1>5, <1>6, <1>7 DEF InboxDaemon, NewRequest, ResolveElsewhere, Retitle, WindowGoes, LateHandled

\* Reading the list retires the requests whose windows are gone; it lists the others.
LEMMA ReadAdvances ==
  ASSUME InboxTypes, ReadRequests
  PROVE  StoreMoves /\ net' \in NetType /\ Shows(store', net'.read)
         /\ net'.read.grants = net.read.grants /\ net'.snap = net.snap
         /\ \A q \in net'.read.requests : store.status[q.id] = "pending"
<1>1. store \in StoreType /\ stream \in StreamType /\ net \in NetType
  BY DEF InboxTypes
<1>2. PublishEvent(stream) \in StreamType /\ Announces(PublishEvent(stream))
  BY <1>1, PublishAnnounces
<1>3. /\ store' \in StoreType /\ store'.gone = store.gone /\ store'.grants = store.grants
      /\ \A q \in Reqs : store'.status[q] = IF q \in Stale(store) THEN "retired" ELSE store.status[q]
  BY <1>1, RetireIs DEF ReadRequests, Stale, Pending
<1>4. Pending(store') = Pending(store) \ store.gone
  BY <1>3 DEF Pending, Stale
<1>5. StoreMoves
  <2>1. Advances(store, store')
    BY <1>1, <1>3 DEF Advances, Stale, Pending
  <2>2. CASE Stale(store) = {}
    BY <1>1, <1>3, <1>4, <2>1, <2>2 DEF StoreMoves, ReadRequests, Stale
  <2>3. CASE Stale(store) # {}
    BY <1>2, <2>1, <2>3 DEF StoreMoves, ReadRequests
  <2>. QED
    BY <2>2, <2>3
<1>. DEFINE live == Pending(store) \ store.gone
            rs == {[id |-> r, text |-> store.text[r]] : r \in live}
<1>6. rs \subseteq [id : Reqs, text : 1..2]
  BY <1>1 DEF Pending, StoreType
<1>7. net.read \in SnapshotType
  BY <1>1 DEF NetType
<1>8. net' = [net EXCEPT !.got = net.got \cup {"requests"}, !.read = [net.read EXCEPT !.requests = rs]]
  BY <1>1 DEF ReadRequests, NetType
<1>9. [net.read EXCEPT !.requests = rs] \in SnapshotType /\ [net.read EXCEPT !.requests = rs].requests = rs
  BY <1>6, <1>7 DEF SnapshotType
<1>14. [net.read EXCEPT !.requests = rs].grants = net.read.grants
  BY <1>7 DEF SnapshotType
<1>. HIDE DEF rs
<1>10. net' \in NetType /\ net'.snap = net.snap /\ net'.read = [net.read EXCEPT !.requests = rs]
  BY <1>1, <1>8, <1>9 DEF NetType, Tabs
<1>11. \A q \in rs : q.id \in live
  BY DEF rs
<1>12. \A r \in live : \E q \in rs : q.id = r
  <2>1. ASSUME NEW r \in live PROVE \E q \in rs : q.id = r
    <3>1. [id |-> r, text |-> store.text[r]] \in rs
      BY DEF rs
    <3>. QED
      BY <3>1
  <2>. QED
    BY <2>1
<1>13. Shows(store', net'.read)
  BY <1>4, <1>9, <1>10, <1>11, <1>12 DEF Shows
<1>. QED
  BY <1>1, <1>3, <1>4, <1>5, <1>9, <1>10, <1>11, <1>13, <1>14 DEF Pending
(***************************************************************************)
(* The keys.                                                               *)
(***************************************************************************)
SameConnection(u, v) ==
  /\ v.run = u.run /\ v.snapshot = u.snapshot /\ v.connected = u.connected /\ v.completed = u.completed

\* What is on the screen is of a request with the duration chosen for it, or of a grant.
TrueDetail(past, a) ==
  /\ a \in Details
  /\ a.kind = "request" => a.id \in Reqs /\ Chosen(past, a)
  /\ a.kind = "grant" => a.id \in Reqs

\* The selected row and the open detail show a duration chosen for them.
LEMMA RowIsTrue ==
  ASSUME InboxTypes, ChoiceInv
  PROVE  TrueDetail(inboxPast, SelectedDetail(ui)) /\ TrueDetail(inboxPast, ActiveDetail(ui))
<1>1. RowDetail(ui, SelectedDetail(ui))
  BY SelectedDetailIs DEF InboxTypes
<1>. DEFINE a == SelectedDetail(ui)
<1>2. TrueDetail(inboxPast, a)
  <2>1. CASE a.kind = "request"
    <3>1. CASE a.dur = DefaultDuration(a.id)
      BY <1>1, <2>1, <3>1 DEF RowDetail, TrueDetail, Chosen
    <3>2. CASE \E c \in ui.durations : c = [id |-> a.id, text |-> a.text, dur |-> a.dur]
      <4>. DEFINE c == [id |-> a.id, text |-> a.text, dur |-> a.dur]
      <4>1. c \in ui.durations
        BY <3>2
      <4>2. inboxPast.chosen[c.id] = c
        BY <4>1 DEF ChoiceInv
      <4>3. inboxPast.chosen[a.id] = c
        BY <4>2
      <4>. HIDE DEF a
      <4>. QED
        BY <1>1, <2>1, <4>3 DEF RowDetail, TrueDetail, Chosen, a
    <3>. QED
      BY <1>1, <2>1, <3>1, <3>2 DEF RowDetail
  <2>2. CASE a.kind # "request"
    BY <1>1, <2>2 DEF RowDetail, TrueDetail
  <2>. QED
    BY <2>1, <2>2
<1>3. TrueDetail(inboxPast, ui.detail)
  BY DEF TrueDetail, ChoiceInv, InboxTypes, UiType
<1>. QED
  BY <1>2, <1>3 DEF ActiveDetail

\* Moving about changes what is on the screen and nothing else.
LEMMA BrowseDoes ==
  ASSUME InboxTypes, ChoiceInv, (\E r \in Reqs \cup {NoRequest} : Select(r)) \/ SwitchTab \/ OpenDetail \/ Back
  PROVE  /\ UNCHANGED <<store, stream, net, shown, chan, late, inboxPast>>
         /\ ui' \in UiType /\ SameConnection(ui, ui') /\ ui'.busy = ui.busy /\ ui'.durations = ui.durations
         /\ TrueDetail(inboxPast, ui'.detail)
<1>1. ui \in UiType
  BY DEF InboxTypes
<1>2. TrueDetail(inboxPast, SelectedDetail(ui)) /\ TrueDetail(inboxPast, ui.detail)
  BY RowIsTrue DEF TrueDetail, ChoiceInv, InboxTypes, UiType
<1>3. TrueDetail(inboxPast, NoDetail)
  BY DEF TrueDetail, NoDetail, Details, Lasting
<1>4. ASSUME NEW r \in Reqs \cup {NoRequest}, Select(r)
      PROVE  ui' \in UiType /\ SameConnection(ui, ui') /\ ui'.busy = ui.busy /\ ui'.durations = ui.durations
             /\ ui'.detail = ui.detail
  <2>1. [ui.selected EXCEPT ![ui.tab] = r] \in [Tabs -> Reqs \cup {NoRequest}]
    BY <1>1 DEF UiType
  <2>2. ui' = [ui EXCEPT !.selected = [ui.selected EXCEPT ![ui.tab] = r]]
    BY <1>1, <1>4 DEF Select, UiType
  <2>. QED
    BY <1>1, <2>1, <2>2 DEF UiType, SameConnection
<1>5. CASE SwitchTab
  <2>. DEFINE t == IF ui.tab = "grants" THEN "requests" ELSE "grants"
              u == [ui EXCEPT !.tab = t]
  <2>1. PressKey(u)
    BY <1>1, <1>5 DEF SwitchTab, UiType
  <2>2. u \in UiType /\ SameConnection(ui, u) /\ u.busy = ui.busy /\ u.durations = ui.durations /\ u.detail = ui.detail
    BY <1>1 DEF UiType, SameConnection, Tabs
  <2>. QED
    BY <1>2, <1>5, <2>1, <2>2, PressKeyDoes DEF SameConnection, SameButSelection, SwitchTab, PressKey
<1>6. CASE OpenDetail
  <2>. DEFINE u == [ui EXCEPT !.detail = SelectedDetail(ui)]
  <2>1. PressKey(u)
    BY <1>6 DEF OpenDetail
  <2>2. /\ u \in UiType /\ SameConnection(ui, u) /\ u.busy = ui.busy /\ u.durations = ui.durations
        /\ u.detail = SelectedDetail(ui)
    BY <1>1, <1>2 DEF UiType, SameConnection, TrueDetail
  <2>. QED
    BY <1>2, <1>6, <2>1, <2>2, PressKeyDoes DEF SameConnection, SameButSelection, OpenDetail, PressKey
<1>7. CASE Back
  <2>. DEFINE u == [ui EXCEPT !.detail = NoDetail]
  <2>1. PressKey(u)
    BY <1>7 DEF Back
  <2>2. u \in UiType /\ SameConnection(ui, u) /\ u.busy = ui.busy /\ u.durations = ui.durations /\ u.detail = NoDetail
    BY <1>1, <1>3 DEF UiType, SameConnection, TrueDetail
  <2>. QED
    BY <1>3, <1>7, <2>1, <2>2, PressKeyDoes DEF SameConnection, SameButSelection, Back, PressKey
<1>. QED
  BY <1>2, <1>4, <1>5, <1>6, <1>7 DEF Select

\* A chosen duration is remembered for the request as it reads, and for it alone.
LEMMA ChooseDoes ==
  ASSUME InboxTypes, ChoiceInv, NEW d \in Durations, ChooseDuration(d)
  PROVE  /\ ~ui.busy /\ ui.run /\ UNCHANGED <<store, stream, net, shown, chan, late>>
         /\ ui' \in UiType /\ SameConnection(ui, ui') /\ ui'.busy = ui.busy
         /\ inboxPast' \in PastType /\ inboxPast'.answered = inboxPast.answered
         /\ ChoiceInv'
<1>. DEFINE a == ActiveDetail(ui)
            c == [id |-> a.id, text |-> a.text, dur |-> d]
            ds == {e \in ui.durations : e.id # a.id} \cup {c}
            dt == IF ui.detail = NoDetail THEN ui.detail ELSE [ui.detail EXCEPT !.dur = d]
            u == [ui EXCEPT !.durations = ds, !.detail = dt]
            f == [inboxPast.chosen EXCEPT ![a.id] = c]
<1>1. ui \in UiType /\ inboxPast \in PastType /\ d \in Lasting
  BY InboxAssumption DEF InboxTypes, Lasting
<1>2. ~ui.busy /\ a.kind = "request" /\ PressKey(u)
  BY <1>1 DEF ChooseDuration, UiType
<1>3. inboxPast' = [inboxPast EXCEPT !.chosen = f]
  BY <1>1 DEF ChooseDuration, PastType
<1>4. TrueDetail(inboxPast, a)
  BY RowIsTrue
<1>5. c \in ChoiceType /\ a.id \in Reqs
  BY <1>1, <1>2, <1>4 DEF TrueDetail, Details, ChoiceType
<1>6. c.id = a.id /\ c.text = a.text /\ c.dur = d
  OBVIOUS
<1>7. ui.detail = NoDetail \/ a = ui.detail
  BY DEF ActiveDetail
<1>8. ui.detail \in Details /\ TrueDetail(inboxPast, ui.detail)
  BY <1>1 DEF UiType, TrueDetail, ChoiceInv
<1>9. dt \in Details
  BY <1>1, <1>8 DEF Details
<1>10. dt.kind = ui.detail.kind /\ dt.id = ui.detail.id /\ dt.text = ui.detail.text
       /\ (ui.detail # NoDetail => dt.dur = d)
  BY <1>8 DEF Details
<1>. HIDE DEF a, c
<1>11. f \in [Reqs -> ChoiceType] /\ f[a.id] = c /\ \A r \in Reqs : r # a.id => f[r] = inboxPast.chosen[r]
  BY <1>1, <1>5 DEF PastType
<1>12. ds \in SUBSET ChoiceType
  BY <1>1, <1>5 DEF UiType
<1>13. \A e \in ds : e.id \in Reqs /\ f[e.id] = e
  <2>1. TAKE e \in ds
  <2>2. CASE e = c
    BY <1>5, <1>6, <1>11, <2>2
  <2>3. CASE e \in ui.durations /\ e.id # a.id
    BY <1>11, <2>3 DEF ChoiceInv
  <2>. QED
    BY <2>2, <2>3
<1>14. dt.kind = "request" =>
         /\ dt.id \in Reqs
         /\ dt.dur = DefaultDuration(dt.id) \/ f[dt.id] = [id |-> dt.id, text |-> dt.text, dur |-> dt.dur]
  <2>1. CASE ui.detail = NoDetail
    BY <1>10, <2>1 DEF NoDetail
  <2>2. CASE ui.detail # NoDetail
    <3>1. dt.id = a.id /\ dt.text = a.text /\ dt.dur = d
      BY <1>7, <1>10, <2>2
    <3>2. f[dt.id] = [id |-> dt.id, text |-> dt.text, dur |-> dt.dur]
      BY <1>11, <3>1 DEF c
    <3>. HIDE DEF dt, f
    <3>. QED
      BY <1>5, <3>1, <3>2
  <2>. QED
    BY <2>1, <2>2
<1>15. dt.kind = "grant" => dt.id \in Reqs
  BY <1>8, <1>10 DEF TrueDetail
<1>. HIDE DEF ds, dt, f
<1>16. u \in UiType /\ SameConnection(ui, u) /\ u.busy = ui.busy /\ u.durations = ds /\ u.detail = dt
  BY <1>1, <1>9, <1>12 DEF UiType, SameConnection
<1>. HIDE DEF u
<1>17. ui.run /\ SameButSelection(u, ui')
  BY <1>2, <1>16, PressKeyDoes
<1>18. inboxPast' \in PastType /\ inboxPast'.answered = inboxPast.answered /\ inboxPast'.chosen = f
  BY <1>1, <1>3, <1>11 DEF PastType
<1>19. ChoiceInv'
  BY <1>13, <1>14, <1>15, <1>16, <1>17, <1>18 DEF ChoiceInv, Chosen, SameButSelection
<1>. QED
  BY <1>2, <1>16, <1>17, <1>18, <1>19 DEF SameConnection, SameButSelection, PressKey, ChooseDuration

\* A decision is about an entry of the snapshot, for the duration chosen for it as it reads.
Sent(u, past, c) ==
  /\ c \in CmdType /\ c.kind # "none" /\ c # NoCmd /\ c.id \in Reqs
  /\ IF c.kind = "revoke" THEN \E g \in u.snapshot.grants : g.id = c.id
     ELSE \E q \in u.snapshot.requests : q.id = c.id
  /\ c.kind = "approve" => Chosen(past, c)

\* A key that decides sends at most one decision, and only from a connected, idle loop.
LEMMA DecideDoes ==
  ASSUME InboxTypes, ChoiceInv, NEW key \in {"a", "d", "r"}, Decide(key)
  PROVE  /\ ~ui.busy /\ ui.run /\ ui.connected /\ UNCHANGED <<store, stream, net, shown, late>>
         /\ ui' \in UiType /\ SameConnection(ui, ui') /\ ui'.detail = ui.detail /\ ui'.durations = ui.durations
         /\ inboxPast' \in PastType /\ inboxPast'.answered = inboxPast.answered /\ inboxPast'.chosen = inboxPast.chosen
         /\ IF chan = NoCmd THEN Sent(ui, inboxPast, chan') /\ ui'.busy ELSE chan' = chan /\ ui'.busy = ui.busy
<1>. DEFINE a == ActiveDetail(ui)
<1>1. ui \in UiType /\ inboxPast \in PastType /\ MaxSends \in Nat
  BY InboxAssumption DEF InboxTypes
<1>2. inboxPast' = [inboxPast EXCEPT !.sends = inboxPast.sends + 1] /\ inboxPast.sends < MaxSends
  BY <1>1 DEF Decide, PastType
<1>3. inboxPast' \in PastType /\ inboxPast'.answered = inboxPast.answered /\ inboxPast'.chosen = inboxPast.chosen
  BY <1>1, <1>2 DEF PastType
<1>4. /\ ui.connected /\ ~ui.busy
      /\ \/ a.kind = "request" /\ [id |-> a.id, text |-> a.text] \in ui.snapshot.requests
         \/ a.kind = "grant" /\ [id |-> a.id, dur |-> a.dur] \in ui.snapshot.grants
  BY DEF Decide, Actionable
<1>5. TrueDetail(inboxPast, a)
  BY RowIsTrue
<1>6. /\ a.kind = "request" => a.id \in Reqs /\ \E q \in ui.snapshot.requests : q.id = a.id
      /\ a.kind = "grant" => a.id \in Reqs /\ \E g \in ui.snapshot.grants : g.id = a.id
  <2>1. [id |-> a.id, text |-> a.text].id = a.id /\ [id |-> a.id, dur |-> a.dur].id = a.id
    OBVIOUS
  <2>. QED
    BY <1>4, <1>5, <2>1 DEF TrueDetail
<1>7. Decision(ui, key) # NoCmd
  BY DEF Decide
<1>. DEFINE c == Decision(ui, key)
<1>8. Sent(ui, inboxPast, c)
  <2>1. CASE key = "a" /\ a.kind = "request"
    <3>1. c = [kind |-> "approve", id |-> a.id, text |-> a.text, dur |-> a.dur]
      BY <2>1 DEF Decision
    <3>. HIDE DEF a, c
    <3>. QED
      BY <1>5, <1>6, <1>7, <2>1, <3>1 DEF Sent, Chosen, TrueDetail, Details, CmdType, Lasting, c
  <2>2. CASE key = "d" /\ a.kind = "request"
    <3>1. c = [kind |-> "deny", id |-> a.id, text |-> a.text, dur |-> "once"]
      BY <2>2 DEF Decision
    <3>. HIDE DEF a, c
    <3>. QED
      BY <1>5, <1>6, <1>7, <2>2, <3>1 DEF Sent, TrueDetail, Details, CmdType, c
  <2>3. CASE key = "r" /\ a.kind = "grant"
    <3>1. c = [kind |-> "revoke", id |-> a.id, text |-> 1, dur |-> "once"]
      BY <2>3 DEF Decision
    <3>. HIDE DEF a, c
    <3>. QED
      BY <1>5, <1>6, <1>7, <2>3, <3>1 DEF Sent, TrueDetail, Details, CmdType, c
  <2>4. CASE /\ ~(key = "a" /\ a.kind = "request") /\ ~(key = "d" /\ a.kind = "request")
             /\ ~(key = "r" /\ a.kind = "grant")
    BY <1>7, <2>4 DEF Decision
  <2>. QED
    BY <2>1, <2>2, <2>3, <2>4
<1>9. CASE chan = NoCmd
  <2>. DEFINE u == [ui EXCEPT !.busy = TRUE]
  <2>1. PressKey(u) /\ chan' = c
    BY <1>9 DEF Decide
  <2>. HIDE DEF c
  <2>2. /\ u \in UiType /\ SameConnection(ui, u) /\ u.busy /\ u.detail = ui.detail /\ u.durations = ui.durations
    BY <1>1 DEF UiType, SameConnection
  <2>. HIDE DEF u
  <2>3. ui.run /\ SameButSelection(u, ui')
    BY <2>1, <2>2, PressKeyDoes
  <2>. QED
    BY <1>3, <1>4, <1>8, <1>9, <2>1, <2>2, <2>3 DEF SameConnection, SameButSelection, PressKey
<1>10. CASE chan # NoCmd
  <2>1. PressKey(ui) /\ chan' = chan
    BY <1>10 DEF Decide
  <2>2. ui.run /\ SameButSelection(ui, ui')
    BY <1>1, <2>1, PressKeyDoes
  <2>. QED
    BY <1>3, <1>4, <1>10, <2>1, <2>2 DEF SameConnection, SameButSelection, PressKey
<1>. QED
  BY <1>9, <1>10
(***************************************************************************)
(* Each part of the invariant, action by action.                           *)
(***************************************************************************)
\* The task keeps the shape of the state.
LEMMA NetworkTypes ==
  ASSUME InboxTypes, InboxNetwork
  PROVE  InboxTypes'
<1>1. /\ store \in StoreType /\ stream \in StreamType /\ net \in NetType /\ shown \in UpdateType
      /\ chan \in CmdType /\ ui \in UiType /\ late \subseteq CmdType /\ inboxPast \in PastType
  BY DEF InboxTypes
<1>2. MaxBreaks \in Nat /\ Capacity \in Nat
  BY InboxAssumption
<1>3. EmptySnapshot \in SnapshotType /\ NoCmd \in CmdType /\ NoStream \in StreamType
  BY <1>2 DEF EmptySnapshot, SnapshotType, NoCmd, CmdType, NoStream, StreamType
<1>4. Faulty => net.faults + 1 \in 0..MaxBreaks
  BY <1>1, <1>2 DEF Faulty, NetType
<1>5. ASSUME NEW n \in NetType, SendUpdate(n) PROVE shown' \in UpdateType
  BY <1>5 DEF SendUpdate, NetType, UpdateType
<1>19. 1 - net.completed \in 0..1
  BY <1>1 DEF NetType
<1>20. net.cmd \in CmdType
  BY <1>1 DEF NetType
<1>. HIDE DEF SnapshotType
<1>6. CASE Subscribe
  <2>1. net' \in NetType
    BY <1>1, <1>4, <1>6 DEF Subscribe, NetType
  <2>2. stream' \in StreamType
    <3>1. [open |-> TRUE, queue |-> 0, lagged |-> FALSE] \in StreamType
      BY <1>2 DEF StreamType
    <3>. QED
      BY <1>1, <1>6, <3>1 DEF Subscribe
  <2>. QED
    BY <1>1, <1>6, <2>1, <2>2 DEF InboxTypes, Subscribe
<1>7. CASE ReadRequests
  BY <1>1, <1>7, ReadAdvances DEF InboxTypes, ReadRequests, StoreMoves, Advances
<1>8. CASE ReadGrants
  <2>. DEFINE gs == {g \in store.grants : g.dur = "surface" => g.id \notin store.gone}
  <2>1. net' = [net EXCEPT !.got = net.got \cup {"grants"}, !.read = [net.read EXCEPT !.grants = gs]]
    BY <1>1, <1>8 DEF ReadGrants, NetType
  <2>2. gs \subseteq Granted
    BY <1>1 DEF StoreType
  <2>. HIDE DEF gs
  <2>3. [net.read EXCEPT !.grants = gs] \in SnapshotType
    BY <1>1, <2>2 DEF NetType, SnapshotType, Granted, Lasting
  <2>4. net' \in NetType
    BY <1>1, <2>1, <2>3 DEF NetType, Tabs
  <2>. QED
    BY <1>1, <1>8, <2>4 DEF InboxTypes, ReadGrants
<1>9. CASE Refreshed
  <2>. DEFINE n == IF net.events
              THEN [net EXCEPT !.pc = "wait", !.some = TRUE, !.snap = net.read, !.conn = TRUE,
                               !.read = EmptySnapshot, !.got = {}]
              ELSE [net EXCEPT !.pc = "wait", !.conn = FALSE, !.read = EmptySnapshot, !.got = {}]
  <2>1. net' = n /\ SendUpdate(n)
    BY <1>9 DEF Refreshed
  <2>2. n \in NetType
    BY <1>1, <1>3 DEF NetType
  <2>. QED
    BY <1>1, <1>5, <1>9, <2>1, <2>2 DEF InboxTypes, Refreshed
<1>10. CASE RefreshFails
  <2>. DEFINE n == [net EXCEPT !.pc = "wait", !.conn = FALSE, !.events = FALSE, !.faults = @ + 1,
                              !.read = EmptySnapshot, !.got = {}]
  <2>1. net' = n /\ SendUpdate(n) /\ Faulty /\ stream' = NoStream
    BY <1>10 DEF RefreshFails
  <2>2. n \in NetType
    BY <1>1, <1>3, <1>4, <2>1 DEF NetType
  <2>. QED
    BY <1>1, <1>3, <1>5, <1>10, <2>1, <2>2 DEF InboxTypes, RefreshFails
<1>11. CASE TakeCommand
  <2>1. net' \in NetType
    <3>1. CASE net.conn
      <4>1. net' = [net EXCEPT !.pc = "post", !.cmd = chan]
        BY <1>11, <3>1 DEF TakeCommand
      <4>. QED
        BY <1>1, <4>1 DEF NetType
    <3>2. CASE ~net.conn
      <4>1. net' = [net EXCEPT !.pc = "subscribe", !.completed = 1 - net.completed]
        BY <1>1, <1>11, <3>2 DEF TakeCommand, NetType
      <4>. QED
        BY <1>1, <1>19, <4>1 DEF NetType
    <3>. QED
      BY <3>1, <3>2
  <2>. QED
    BY <1>1, <1>3, <1>11, <2>1 DEF InboxTypes, TakeCommand
<1>12. CASE HandleCommand
  <2>1. net' \in NetType
    BY <1>1, <1>12 DEF HandleCommand, NetType
  <2>2. StoreMoves
    BY <1>1, <1>12, ApplyAdvances DEF HandleCommand, NetType
  <2>. QED
    BY <1>1, <1>12, <2>1, <2>2 DEF InboxTypes, HandleCommand, StoreMoves, Advances
<1>13. CASE AnswerCommand
  <2>1. net' \in NetType
    <3>1. net' = [net EXCEPT !.pc = "subscribe", !.completed = 1 - net.completed, !.cmd = NoCmd, !.answered = FALSE]
      BY <1>1, <1>13 DEF AnswerCommand, NetType
    <3>. QED
      BY <1>1, <1>3, <1>19, <3>1 DEF NetType
  <2>2. net.cmd.id \in Reqs \cup {NoRequest}
    BY <1>1 DEF NetType, CmdType
  <2>3. inboxPast' \in PastType
    <3>. DEFINE e == <<net.cmd.kind = "revoke", net.cmd.id>>
    <3>1. inboxPast' = [inboxPast EXCEPT !.answered = inboxPast.answered \cup {e}]
      BY <1>1, <1>13 DEF AnswerCommand, PastType
    <3>2. e \in BOOLEAN \X (Reqs \cup {NoRequest})
      BY <2>2
    <3>. HIDE DEF e
    <3>. QED
      BY <1>1, <3>1, <3>2 DEF PastType
  <2>. QED
    BY <1>1, <1>13, <2>1, <2>3 DEF InboxTypes, AnswerCommand
<1>14. CASE PostTimesOut
  <2>1. net' \in NetType
    <3>1. /\ net' = [net EXCEPT !.pc = "subscribe", !.completed = 1 - net.completed, !.cmd = NoCmd, !.answered = FALSE,
                                 !.faults = net.faults + 1]
          /\ Faulty
      BY <1>1, <1>14 DEF PostTimesOut, NetType
    <3>. QED
      BY <1>1, <1>3, <1>4, <1>19, <3>1 DEF NetType
  <2>2. late' \subseteq CmdType
    BY <1>1, <1>14 DEF PostTimesOut, NetType
  <2>. QED
    BY <1>1, <1>14, <2>1, <2>2 DEF InboxTypes, PostTimesOut
<1>15. CASE EventFrame
  <2>1. net' \in NetType
    BY <1>1, <1>15 DEF EventFrame, NetType
  <2>2. stream' \in StreamType
    <3>1. CASE stream' = [stream EXCEPT !.lagged = FALSE]
      BY <1>1, <3>1 DEF StreamType
    <3>2. CASE stream.queue > 0 /\ stream' = [stream EXCEPT !.queue = stream.queue - 1]
      <4>1. stream.queue - 1 \in 0..Capacity
        BY <1>1, <1>2, <3>2 DEF StreamType
      <4>. QED
        BY <1>1, <3>2, <4>1 DEF StreamType
    <3>. QED
      BY <1>1, <1>15, <3>1, <3>2 DEF EventFrame, StreamType
  <2>. QED
    BY <1>1, <1>15, <2>1, <2>2 DEF InboxTypes, EventFrame
<1>16. CASE StreamBreaks
  <2>1. net' \in NetType
    BY <1>1, <1>4, <1>16 DEF StreamBreaks, NetType
  <2>. QED
    BY <1>1, <1>3, <1>16, <2>1 DEF InboxTypes, StreamBreaks
<1>17. CASE StreamLost
  <2>. DEFINE n == [net EXCEPT !.pc = "subscribe", !.events = FALSE, !.conn = FALSE]
  <2>1. net' = n /\ SendUpdate(n)
    BY <1>17 DEF StreamLost
  <2>2. n \in NetType
    BY <1>1 DEF NetType
  <2>. QED
    BY <1>1, <1>5, <1>17, <2>1, <2>2 DEF InboxTypes, StreamLost
<1>18. CASE InboxTick
  <2>1. net' \in NetType
    BY <1>1, <1>18 DEF InboxTick, NetType
  <2>. QED
    BY <1>1, <1>18, <2>1 DEF InboxTypes, InboxTick
<1>. QED
  BY <1>6, <1>7, <1>8, <1>9, <1>10, <1>11, <1>12, <1>13, <1>14, <1>15, <1>16, <1>17, <1>18 DEF InboxNetwork

\* Leaving the inbox, and starting it.
LEMMA QuitTypes ==
  ASSUME InboxTypes, Quit
  PROVE  /\ InboxTypes' /\ UNCHANGED <<store, inboxPast>>
         /\ ~ui'.run /\ net'.pc = "over" /\ chan' = NoCmd /\ net'.cmd = NoCmd /\ shown' = NoUpdate
         /\ net'.got = {} /\ net'.read = EmptySnapshot /\ net'.snap = EmptySnapshot /\ ui'.snapshot = EmptySnapshot
         /\ ~net'.answered /\ ~net'.conn /\ ui'.durations = {} /\ ui'.detail = NoDetail
<1>1. MaxBreaks \in Nat /\ Capacity \in Nat
  BY InboxAssumption
<1>2. EmptySnapshot \in SnapshotType /\ NoCmd \in CmdType /\ NoStream \in StreamType
  BY <1>1 DEF EmptySnapshot, SnapshotType, NoCmd, CmdType, NoStream, StreamType
<1>3. NoDetail \in Details
  BY DEF NoDetail, Details, Lasting
<1>. HIDE DEF SnapshotType
<1>4. net' \in NetType /\ net'.pc = "over" /\ net'.cmd = NoCmd /\ net'.got = {} /\ net'.read = EmptySnapshot
      /\ net'.snap = EmptySnapshot /\ ~net'.answered /\ ~net'.conn
  <2>1. NewNet \in NetType /\ NewNet.cmd = NoCmd /\ NewNet.got = {} /\ NewNet.read = EmptySnapshot
        /\ NewNet.snap = EmptySnapshot /\ ~NewNet.answered /\ ~NewNet.conn
    BY <1>1, <1>2 DEF NewNet, NetType
  <2>2. net' = [NewNet EXCEPT !.pc = "over"]
    BY DEF Quit
  <2>. QED
    BY <2>1, <2>2 DEF NetType
<1>5. ui' \in UiType /\ ~ui'.run /\ ui'.snapshot = EmptySnapshot /\ ui'.durations = {} /\ ui'.detail = NoDetail
  <2>1. [t \in Tabs |-> NoRequest] \in [Tabs -> Reqs \cup {NoRequest}] /\ "requests" \in Tabs
    BY DEF Tabs
  <2>2. /\ NewUi \in UiType /\ NewUi.snapshot = EmptySnapshot /\ NewUi.durations = {} /\ NewUi.detail = NoDetail
    BY <1>2, <1>3, <2>1 DEF NewUi, UiType
  <2>3. ui' = [NewUi EXCEPT !.run = FALSE]
    BY DEF Quit
  <2>. QED
    BY <2>2, <2>3 DEF UiType
<1>6. shown' \in UpdateType
  BY <1>2 DEF Quit, NoUpdate, UpdateType
<1>7. late' \subseteq CmdType
  BY DEF Quit, InboxTypes, NetType
<1>. QED
  BY <1>2, <1>4, <1>5, <1>6, <1>7 DEF InboxTypes, Quit

\* Every step does.
LEMMA InboxTypesStep ==
  ASSUME InboxTypes, ChoiceInv, InboxNext
  PROVE  InboxTypes'
<1>1. CASE InboxDaemon
  BY <1>1, DaemonAdvances DEF InboxTypes, StoreMoves, Advances
<1>2. CASE InboxNetwork
  BY <1>2, NetworkTypes
<1>3. CASE TakeUpdate
  <2>1. NoUpdate \in UpdateType
    BY DEF NoUpdate, UpdateType, EmptySnapshot, SnapshotType
  <2>. QED
    BY <1>3, <2>1, TakeUpdateDoes DEF InboxTypes, TakeUpdate
<1>4. CASE (\E r \in Reqs \cup {NoRequest} : Select(r)) \/ SwitchTab \/ OpenDetail \/ Back
  BY <1>4, BrowseDoes DEF InboxTypes
<1>5. ASSUME NEW d \in Durations, ChooseDuration(d) PROVE InboxTypes'
  BY <1>5, ChooseDoes DEF InboxTypes
<1>6. ASSUME NEW key \in {"a", "d", "r"}, Decide(key) PROVE InboxTypes'
  BY <1>6, DecideDoes DEF InboxTypes, Sent
<1>7. CASE Quit
  BY <1>7, QuitTypes
<1>. QED
  BY <1>1, <1>2, <1>3, <1>4, <1>5, <1>6, <1>7 DEF InboxNext, InboxKeys

\* What is known of the requests stays so while they move on.
LEMMA RecordKept ==
  ASSUME InboxTypes, RecordInv, StoreMoves
  PROVE  RecordOf(store')
<1>1. store \in StoreType /\ net \in NetType /\ shown \in UpdateType /\ ui \in UiType
  BY DEF InboxTypes
<1>2. Advances(store, store')
  BY DEF StoreMoves
<1>3. ASSUME NEW s \in SnapshotType, Known(store, s) PROVE Known(store', s)
  BY <1>2, <1>3 DEF Advances, Known, SnapshotType
<1>4. ASSUME NEW c, Real(store, c) PROVE Real(store', c)
  BY <1>2, <1>4 DEF Advances, Real
<1>5. ASSUME NEW b, NEW id, Closed(store, b, id) PROVE Closed(store', b, id)
  BY <1>2, <1>5 DEF Advances, Closed
<1>6. GrantsApproved(store')
  BY <1>1, <1>2 DEF Advances, GrantsApproved, RecordInv, RecordOf, StoreType, Granted
<1>7. net.read \in SnapshotType /\ net.snap \in SnapshotType /\ shown.snapshot \in SnapshotType /\ ui.snapshot \in SnapshotType
  BY <1>1 DEF NetType, UpdateType, UiType
<1>. QED
  BY <1>3, <1>4, <1>5, <1>6, <1>7 DEF RecordInv, RecordOf

\* Nothing is known or answered of an empty snapshot.
LEMMA EmptyIsFine ==
  \A st, past : Known(st, EmptySnapshot) /\ Clean(past, EmptySnapshot)
BY DEF Known, Clean, EmptySnapshot

\* A pass of the inbox's task, or of the daemon, that shows a snapshot keeps showing it or announces a change.
LEMMA ShowsKept ==
  ASSUME StoreMoves, NEW s, Announces(stream) \/ Shows(store, s)
  PROVE  Announces(stream') \/ Shows(store', s)
BY DEF StoreMoves, Shows

\* The task and the loop know where they are.
LEMMA PhaseStep ==
  ASSUME InboxTypes, ChoiceInv, PhaseInv, CountInv, InboxNext
  PROVE  PhaseInv'
<1>1. net \in NetType /\ ui \in UiType /\ shown \in UpdateType
  BY DEF InboxTypes
<1>10. CASE InboxDaemon
  BY <1>10, DaemonAdvances DEF PhaseInv
<1>11. CASE Subscribe
  BY <1>11, <1>1 DEF PhaseInv, Subscribe, NetType, Tabs
<1>12. CASE ReadRequests
  BY <1>12, <1>1 DEF PhaseInv, ReadRequests, NetType, Tabs
<1>13. CASE ReadGrants
  BY <1>13, <1>1 DEF PhaseInv, ReadGrants, NetType, Tabs
<1>14. CASE Refreshed
  BY <1>14, <1>1 DEF PhaseInv, Refreshed, NetType, Tabs, SendUpdate
<1>15. CASE RefreshFails
  BY <1>15, <1>1 DEF PhaseInv, RefreshFails, NetType, Tabs, SendUpdate
<1>16. CASE TakeCommand
  BY <1>16, <1>1 DEF PhaseInv, TakeCommand, NetType, Tabs
<1>17. CASE HandleCommand
  BY <1>17, <1>1 DEF PhaseInv, HandleCommand, NetType, Tabs
<1>18. CASE AnswerCommand
  BY <1>18, <1>1 DEF PhaseInv, AnswerCommand, NetType, Tabs
<1>19. CASE PostTimesOut
  BY <1>19, <1>1 DEF PhaseInv, PostTimesOut, NetType, Tabs
<1>20. CASE EventFrame
  BY <1>20, <1>1 DEF PhaseInv, EventFrame, NetType, Tabs
<1>21. CASE StreamBreaks
  BY <1>21, <1>1 DEF PhaseInv, StreamBreaks, NetType, Tabs
<1>22. CASE StreamLost
  BY <1>22, <1>1 DEF PhaseInv, StreamLost, NetType, Tabs, SendUpdate
<1>23. CASE InboxTick
  BY <1>23, <1>1 DEF PhaseInv, InboxTick, NetType, Tabs
<1>24. CASE TakeUpdate
  BY <1>24, TakeUpdateDoes DEF PhaseInv, TakeUpdate, NoUpdate
<1>25. CASE (\E r \in Reqs \cup {NoRequest} : Select(r)) \/ SwitchTab \/ OpenDetail \/ Back
  BY <1>25, BrowseDoes DEF PhaseInv, SameConnection
<1>26. ASSUME NEW d \in Durations, ChooseDuration(d) PROVE PhaseInv'
  BY <1>26, ChooseDoes DEF PhaseInv, SameConnection
<1>27. ASSUME NEW key \in {"a", "d", "r"}, Decide(key) PROVE PhaseInv'
  BY <1>27, DecideDoes DEF PhaseInv, SameConnection, CountInv
<1>28. CASE Quit
  BY <1>28, QuitTypes DEF PhaseInv, NoUpdate
<1>. QED
  BY <1>10, <1>11, <1>12, <1>13, <1>14, <1>15, <1>16, <1>17, <1>18, <1>19, <1>20, <1>21,
     <1>22, <1>23, <1>24, <1>25, <1>26, <1>27, <1>28
     DEF InboxNext, InboxNetwork, InboxKeys

\* The loop waits for a decision exactly while one is under way or its outcome is not shown yet.
LEMMA CountStep ==
  ASSUME InboxTypes, ChoiceInv, PhaseInv, CountInv, InboxNext
  PROVE  CountInv'
<1>1. net \in NetType /\ ui \in UiType /\ shown \in UpdateType
  BY DEF InboxTypes
<1>2. net.completed \in 0..1 /\ ui.completed \in 0..1 /\ shown.completed \in 0..1 /\ ui.busy \in BOOLEAN
  BY <1>1 DEF NetType, UiType, UpdateType
<1>10. CASE InboxDaemon
  BY <1>10, DaemonAdvances DEF CountInv
<1>11. CASE Subscribe
  BY <1>11, <1>1, <1>2 DEF PhaseInv, CountInv, Subscribe, NetType
<1>12. CASE ReadRequests
  BY <1>12, <1>1, <1>2 DEF PhaseInv, CountInv, ReadRequests, NetType
<1>13. CASE ReadGrants
  BY <1>13, <1>1, <1>2 DEF PhaseInv, CountInv, ReadGrants, NetType
<1>14. CASE Refreshed
  BY <1>14, <1>1, <1>2 DEF PhaseInv, CountInv, Refreshed, NetType, SendUpdate
<1>15. CASE RefreshFails
  BY <1>15, <1>1, <1>2 DEF PhaseInv, CountInv, RefreshFails, NetType, SendUpdate
<1>16. CASE TakeCommand
  BY <1>16, <1>1, <1>2 DEF PhaseInv, CountInv, TakeCommand, NetType
<1>17. CASE HandleCommand
  BY <1>17, <1>1, <1>2 DEF PhaseInv, CountInv, HandleCommand, NetType
<1>18. CASE AnswerCommand
  BY <1>18, <1>1, <1>2 DEF PhaseInv, CountInv, AnswerCommand, NetType
<1>19. CASE PostTimesOut
  BY <1>19, <1>1, <1>2 DEF PhaseInv, CountInv, PostTimesOut, NetType
<1>20. CASE EventFrame
  BY <1>20, <1>1, <1>2 DEF PhaseInv, CountInv, EventFrame, NetType
<1>21. CASE StreamBreaks
  BY <1>21, <1>1, <1>2 DEF PhaseInv, CountInv, StreamBreaks, NetType
<1>22. CASE StreamLost
  BY <1>22, <1>1, <1>2 DEF PhaseInv, CountInv, StreamLost, NetType, SendUpdate
<1>23. CASE InboxTick
  BY <1>23, <1>1, <1>2 DEF PhaseInv, CountInv, InboxTick, NetType
<1>24. CASE TakeUpdate
  BY <1>24, <1>2, TakeUpdateDoes DEF CountInv, TakeUpdate, NoUpdate
<1>25. CASE (\E r \in Reqs \cup {NoRequest} : Select(r)) \/ SwitchTab \/ OpenDetail \/ Back
  BY <1>25, BrowseDoes DEF CountInv, SameConnection
<1>26. ASSUME NEW d \in Durations, ChooseDuration(d) PROVE CountInv'
  BY <1>26, ChooseDoes DEF CountInv, SameConnection
<1>27. ASSUME NEW key \in {"a", "d", "r"}, Decide(key) PROVE CountInv'
  BY <1>27, DecideDoes DEF CountInv, SameConnection
<1>28. CASE Quit
  BY <1>28, QuitTypes DEF CountInv
<1>. QED
  BY <1>10, <1>11, <1>12, <1>13, <1>14, <1>15, <1>16, <1>17, <1>18, <1>19, <1>20, <1>21,
     <1>22, <1>23, <1>24, <1>25, <1>26, <1>27, <1>28
     DEF InboxNext, InboxNetwork, InboxKeys

\* What the inbox knows of the requests stays true.
LEMMA RecordStep ==
  ASSUME InboxTypes, ChoiceInv, PhaseInv, RecordInv, InboxNext
  PROVE  RecordInv'
<1>1. net \in NetType /\ ui \in UiType /\ shown \in UpdateType
  BY DEF InboxTypes
<1>3. inboxPast \in PastType
  BY DEF InboxTypes
<1>10. CASE InboxDaemon
  BY <1>10, DaemonAdvances, RecordKept DEF RecordInv, RecordOf
<1>11. CASE Subscribe
  BY <1>11, <1>1, EmptyIsFine DEF RecordInv, RecordOf, PhaseInv, Subscribe, NetType
<1>12. CASE ReadRequests
  <2>1. StoreMoves /\ Shows(store', net'.read) /\ net'.read.grants = net.read.grants /\ net'.snap = net.snap
    BY <1>12, ReadAdvances
  <2>2. RecordOf(store')
    BY <2>1, RecordKept
  <2>3. Known(store', net'.read)
    BY <2>1, <2>2 DEF RecordOf, Known, Shows, Pending
  <2>4. net'.cmd = net.cmd /\ net'.answered = net.answered
    BY <1>12, <1>1 DEF ReadRequests, NetType
  <2>. QED
    BY <1>12, <2>1, <2>2, <2>3, <2>4 DEF RecordInv, RecordOf, ReadRequests
<1>13. CASE ReadGrants
  <2>. DEFINE gs == {g \in store.grants : g.dur = "surface" => g.id \notin store.gone}
  <2>1. net' = [net EXCEPT !.got = net.got \cup {"grants"}, !.read = [net.read EXCEPT !.grants = gs]]
    BY <1>13, <1>1 DEF ReadGrants, NetType
  <2>2. [net.read EXCEPT !.grants = gs].requests = net.read.requests /\ [net.read EXCEPT !.grants = gs].grants = gs
    BY <1>1 DEF NetType, SnapshotType
  <2>3. /\ net'.cmd = net.cmd /\ net'.answered = net.answered /\ net'.snap = net.snap
        /\ net'.read = [net.read EXCEPT !.grants = gs]
    BY <1>1, <2>1 DEF NetType
  <2>4. gs \subseteq store.grants
    OBVIOUS
  <2>. HIDE DEF gs
  <2>5. Known(store, net'.read)
    BY <2>2, <2>3, <2>4 DEF Known, RecordInv, RecordOf, GrantsApproved
  <2>. QED
    BY <1>13, <2>3, <2>5 DEF RecordInv, RecordOf, ReadGrants
<1>14. CASE Refreshed
  BY <1>14, <1>1, EmptyIsFine DEF RecordInv, RecordOf, PhaseInv, Refreshed, NetType, SendUpdate
<1>15. CASE RefreshFails
  BY <1>15, <1>1, EmptyIsFine DEF RecordInv, RecordOf, PhaseInv, RefreshFails, NetType, SendUpdate
<1>16. CASE TakeCommand
  BY <1>16, <1>1, EmptyIsFine DEF RecordInv, RecordOf, PhaseInv, TakeCommand, NetType
<1>17. CASE HandleCommand
  <2>1. net.cmd # NoCmd /\ net.cmd \in CmdType /\ Apply(net.cmd)
    BY <1>17, <1>1 DEF HandleCommand, PhaseInv, NetType
  <2>2. StoreMoves
    BY <2>1, ApplyAdvances
  <2>3. RecordOf(store')
    BY <2>2, RecordKept
  <2>4. Closed(store', net.cmd.kind = "revoke", net.cmd.id)
    BY <2>1, ApplySettles DEF RecordInv, RecordOf
  <2>5. net'.cmd = net.cmd /\ net'.snap = net.snap /\ net'.read = net.read
    BY <1>17, <1>1 DEF HandleCommand, NetType
  <2>. QED
    BY <1>17, <2>3, <2>4, <2>5 DEF RecordInv, RecordOf, HandleCommand
<1>18. CASE AnswerCommand
  <2>. DEFINE e == <<net.cmd.kind = "revoke", net.cmd.id>>
  <2>1. Closed(store, e[1], e[2])
    BY <1>18 DEF AnswerCommand, RecordInv, RecordOf
  <2>2. /\ net'.cmd = NoCmd /\ net'.snap = net.snap /\ net'.read = net.read /\ ~net'.answered
        /\ inboxPast'.answered = inboxPast.answered \cup {e}
    BY <1>18, <1>1, <1>3 DEF AnswerCommand, NetType, PastType
  <2>. HIDE DEF e
  <2>. QED
    BY <1>18, <2>1, <2>2 DEF RecordInv, RecordOf, AnswerCommand
<1>19. CASE PostTimesOut
  BY <1>19, <1>1, EmptyIsFine DEF RecordInv, RecordOf, PhaseInv, PostTimesOut, NetType
<1>20. CASE EventFrame
  BY <1>20, <1>1, EmptyIsFine DEF RecordInv, RecordOf, PhaseInv, EventFrame, NetType
<1>21. CASE StreamBreaks
  BY <1>21, <1>1, EmptyIsFine DEF RecordInv, RecordOf, PhaseInv, StreamBreaks, NetType
<1>22. CASE StreamLost
  BY <1>22, <1>1, EmptyIsFine DEF RecordInv, RecordOf, PhaseInv, StreamLost, NetType, SendUpdate
<1>23. CASE InboxTick
  BY <1>23, <1>1, EmptyIsFine DEF RecordInv, RecordOf, PhaseInv, InboxTick, NetType
<1>24. CASE TakeUpdate
  BY <1>24, EmptyIsFine, TakeUpdateDoes DEF RecordInv, RecordOf, TakeUpdate, NoUpdate
<1>25. CASE (\E r \in Reqs \cup {NoRequest} : Select(r)) \/ SwitchTab \/ OpenDetail \/ Back
  BY <1>25, BrowseDoes DEF RecordInv, RecordOf, SameConnection
<1>26. ASSUME NEW d \in Durations, ChooseDuration(d) PROVE RecordInv'
  BY <1>26, ChooseDoes DEF RecordInv, RecordOf, SameConnection
<1>27. ASSUME NEW key \in {"a", "d", "r"}, Decide(key) PROVE RecordInv'
  <2>1. Known(store, ui.snapshot)
    BY DEF RecordInv, RecordOf
  <2>2. ASSUME NEW c, Sent(ui, inboxPast, c) PROVE Real(store, c)
    BY <2>1, <2>2 DEF Sent, Known, Real
  <2>. QED
    BY <1>27, <2>2, DecideDoes DEF RecordInv, RecordOf, SameConnection
<1>28. CASE Quit
  BY <1>28, QuitTypes, EmptyIsFine DEF RecordInv, RecordOf, NoUpdate
<1>. QED
  BY <1>10, <1>11, <1>12, <1>13, <1>14, <1>15, <1>16, <1>17, <1>18, <1>19, <1>20, <1>21,
     <1>22, <1>23, <1>24, <1>25, <1>26, <1>27, <1>28
     DEF InboxNext, InboxNetwork, InboxKeys

\* A snapshot the loop may decide on was read after every answer.
LEMMA CleanStep ==
  ASSUME InboxTypes, ChoiceInv, PhaseInv, CountInv, RecordInv, CleanInv, InboxNext
  PROVE  CleanInv'
<1>1. net \in NetType /\ ui \in UiType /\ shown \in UpdateType
  BY DEF InboxTypes
<1>2. net.completed \in 0..1 /\ ui.completed \in 0..1 /\ shown.completed \in 0..1 /\ ui.busy \in BOOLEAN
  BY <1>1 DEF NetType, UiType, UpdateType
<1>10. CASE InboxDaemon
  BY <1>10, DaemonAdvances DEF CleanInv
<1>11. CASE Subscribe
  BY <1>11, <1>1, <1>2, EmptyIsFine DEF CleanInv, CountInv, PhaseInv, Subscribe, NetType
<1>12. CASE ReadRequests
  <2>1. /\ net'.read.grants = net.read.grants /\ net'.snap = net.snap
        /\ \A q \in net'.read.requests : store.status[q.id] = "pending"
    BY <1>12, ReadAdvances
  <2>2. \A q \in net'.read.requests : <<FALSE, q.id>> \notin inboxPast.answered
    BY <2>1 DEF RecordInv, RecordOf, Closed
  <2>3. Clean(inboxPast, net'.read)
    BY <2>1, <2>2 DEF CleanInv, Clean
  <2>4. net'.pc = net.pc /\ net'.conn = net.conn /\ net'.completed = net.completed
    BY <1>12, <1>1 DEF ReadRequests, NetType
  <2>. QED
    BY <1>12, <2>1, <2>3, <2>4 DEF CleanInv, ReadRequests
<1>13. CASE ReadGrants
  <2>. DEFINE gs == {g \in store.grants : g.dur = "surface" => g.id \notin store.gone}
  <2>1. net' = [net EXCEPT !.got = net.got \cup {"grants"}, !.read = [net.read EXCEPT !.grants = gs]]
    BY <1>13, <1>1 DEF ReadGrants, NetType
  <2>2. [net.read EXCEPT !.grants = gs].requests = net.read.requests /\ [net.read EXCEPT !.grants = gs].grants = gs
    BY <1>1 DEF NetType, SnapshotType
  <2>3. /\ net'.pc = net.pc /\ net'.conn = net.conn /\ net'.completed = net.completed /\ net'.snap = net.snap
        /\ net'.read = [net.read EXCEPT !.grants = gs]
    BY <1>1, <2>1 DEF NetType
  <2>4. gs \subseteq store.grants
    OBVIOUS
  <2>. HIDE DEF gs
  <2>5. \A g \in gs : <<TRUE, g.id>> \notin inboxPast.answered
    BY <2>4 DEF RecordInv, RecordOf, Closed
  <2>6. Clean(inboxPast, net'.read)
    BY <2>2, <2>3, <2>5 DEF CleanInv, Clean
  <2>. QED
    BY <1>13, <2>3, <2>6 DEF CleanInv, ReadGrants
<1>14. CASE Refreshed
  BY <1>14, <1>1, <1>2, EmptyIsFine DEF CleanInv, CountInv, PhaseInv, Refreshed, NetType, SendUpdate
<1>15. CASE RefreshFails
  BY <1>15, <1>1, <1>2, EmptyIsFine DEF CleanInv, CountInv, PhaseInv, RefreshFails, NetType, SendUpdate
<1>16. CASE TakeCommand
  BY <1>16, <1>1, <1>2, EmptyIsFine DEF CleanInv, CountInv, PhaseInv, TakeCommand, NetType
<1>17. CASE HandleCommand
  BY <1>17, <1>1, <1>2, EmptyIsFine DEF CleanInv, CountInv, PhaseInv, HandleCommand, NetType
<1>18. CASE AnswerCommand
  <2>1. /\ net'.pc = "subscribe" /\ net'.completed = 1 - net.completed /\ net'.read = EmptySnapshot
        /\ net.cmd # NoCmd
    BY <1>18, <1>1 DEF AnswerCommand, NetType, PhaseInv
  <2>. QED
    BY <1>18, <1>2, <2>1, EmptyIsFine DEF AnswerCommand, CleanInv, CountInv, PhaseInv
<1>19. CASE PostTimesOut
  BY <1>19, <1>1, <1>2, EmptyIsFine DEF CleanInv, CountInv, PhaseInv, PostTimesOut, NetType
<1>20. CASE EventFrame
  BY <1>20, <1>1, <1>2, EmptyIsFine DEF CleanInv, CountInv, PhaseInv, EventFrame, NetType
<1>21. CASE StreamBreaks
  BY <1>21, <1>1, <1>2, EmptyIsFine DEF CleanInv, CountInv, PhaseInv, StreamBreaks, NetType
<1>22. CASE StreamLost
  BY <1>22, <1>1, <1>2, EmptyIsFine DEF CleanInv, CountInv, PhaseInv, StreamLost, NetType, SendUpdate
<1>23. CASE InboxTick
  BY <1>23, <1>1, <1>2, EmptyIsFine DEF CleanInv, CountInv, PhaseInv, InboxTick, NetType
<1>24. CASE TakeUpdate
  BY <1>24, TakeUpdateDoes DEF CleanInv, PhaseInv, TakeUpdate, NoUpdate
<1>25. CASE (\E r \in Reqs \cup {NoRequest} : Select(r)) \/ SwitchTab \/ OpenDetail \/ Back
  BY <1>25, BrowseDoes DEF CleanInv, SameConnection
<1>26. ASSUME NEW d \in Durations, ChooseDuration(d) PROVE CleanInv'
  BY <1>26, ChooseDoes DEF CleanInv, Clean, SameConnection
<1>27. ASSUME NEW key \in {"a", "d", "r"}, Decide(key) PROVE CleanInv'
  BY <1>27, DecideDoes DEF CleanInv, Clean, SameConnection
<1>28. CASE Quit
  BY <1>28, QuitTypes, EmptyIsFine DEF CleanInv, NoUpdate
<1>. QED
  BY <1>10, <1>11, <1>12, <1>13, <1>14, <1>15, <1>16, <1>17, <1>18, <1>19, <1>20, <1>21,
     <1>22, <1>23, <1>24, <1>25, <1>26, <1>27, <1>28
     DEF InboxNext, InboxNetwork, InboxKeys

\* A duration stays the one chosen for its request.
LEMMA ChoiceStep ==
  ASSUME InboxTypes, ChoiceInv, InboxNext
  PROVE  ChoiceInv'
<1>1. net \in NetType /\ ui \in UiType /\ shown \in UpdateType
  BY DEF InboxTypes
<1>10. CASE InboxDaemon
  BY <1>10, DaemonAdvances DEF ChoiceInv
<1>11. CASE Subscribe
  BY <1>11 DEF ChoiceInv, Subscribe
<1>12. CASE ReadRequests
  BY <1>12 DEF ChoiceInv, ReadRequests
<1>13. CASE ReadGrants
  BY <1>13 DEF ChoiceInv, ReadGrants
<1>14. CASE Refreshed
  BY <1>14 DEF ChoiceInv, Refreshed
<1>15. CASE RefreshFails
  BY <1>15 DEF ChoiceInv, RefreshFails
<1>16. CASE TakeCommand
  BY <1>16 DEF ChoiceInv, TakeCommand
<1>17. CASE HandleCommand
  BY <1>17 DEF ChoiceInv, HandleCommand
<1>18. CASE AnswerCommand
  <2>1. inboxPast'.chosen = inboxPast.chosen /\ ui' = ui
    BY <1>18 DEF AnswerCommand, InboxTypes, PastType
  <2>. QED
    BY <2>1 DEF ChoiceInv, Chosen
<1>19. CASE PostTimesOut
  BY <1>19 DEF ChoiceInv, PostTimesOut
<1>20. CASE EventFrame
  BY <1>20 DEF ChoiceInv, EventFrame
<1>21. CASE StreamBreaks
  BY <1>21 DEF ChoiceInv, StreamBreaks
<1>22. CASE StreamLost
  BY <1>22 DEF ChoiceInv, StreamLost
<1>23. CASE InboxTick
  BY <1>23 DEF ChoiceInv, InboxTick
<1>24. CASE TakeUpdate
  BY <1>24, TakeUpdateDoes DEF ChoiceInv, TakeUpdate
<1>25. CASE (\E r \in Reqs \cup {NoRequest} : Select(r)) \/ SwitchTab \/ OpenDetail \/ Back
  BY <1>25, BrowseDoes DEF ChoiceInv, TrueDetail
<1>26. ASSUME NEW d \in Durations, ChooseDuration(d) PROVE ChoiceInv'
  BY <1>26, ChooseDoes
<1>27. ASSUME NEW key \in {"a", "d", "r"}, Decide(key) PROVE ChoiceInv'
  BY <1>27, DecideDoes DEF ChoiceInv, Chosen
<1>28. CASE Quit
  BY <1>28, QuitTypes DEF ChoiceInv, NoDetail
<1>. QED
  BY <1>10, <1>11, <1>12, <1>13, <1>14, <1>15, <1>16, <1>17, <1>18, <1>19, <1>20, <1>21,
     <1>22, <1>23, <1>24, <1>25, <1>26, <1>27, <1>28
     DEF InboxNext, InboxNetwork, InboxKeys

\* The snapshot shown is up to date, or an event is on its way.
LEMMA UpdateStep ==
  ASSUME InboxTypes, ChoiceInv, PhaseInv, UpdateInv, InboxNext
  PROVE  UpdateInv'
<1>1. net \in NetType /\ ui \in UiType /\ shown \in UpdateType
  BY DEF InboxTypes
<1>10. CASE InboxDaemon
  BY <1>10, DaemonAdvances, ShowsKept DEF UpdateInv
<1>11. CASE Subscribe
  BY <1>11, <1>1 DEF UpdateInv, PhaseInv, Subscribe, NetType
<1>12. CASE ReadRequests
  <2>1. StoreMoves /\ Shows(store', net'.read)
    BY <1>12, ReadAdvances
  <2>2. net'.pc = "read"
    BY <1>12, <1>1 DEF ReadRequests, NetType
  <2>. QED
    BY <2>1, <2>2 DEF UpdateInv
<1>13. CASE ReadGrants
  <2>. DEFINE gs == {g \in store.grants : g.dur = "surface" => g.id \notin store.gone}
  <2>1. net' = [net EXCEPT !.got = net.got \cup {"grants"}, !.read = [net.read EXCEPT !.grants = gs]]
    BY <1>13, <1>1 DEF ReadGrants, NetType
  <2>2. [net.read EXCEPT !.grants = gs].requests = net.read.requests
    BY <1>1 DEF NetType, SnapshotType
  <2>3. /\ net'.pc = "read" /\ net'.events = net.events /\ net'.got = net.got \cup {"grants"}
        /\ net'.read = [net.read EXCEPT !.grants = gs]
    BY <1>13, <1>1, <2>1 DEF NetType, ReadGrants
  <2>. HIDE DEF gs
  <2>4. net'.read.requests = net.read.requests
    BY <2>2, <2>3
  <2>. QED
    BY <1>13, <2>3, <2>4 DEF UpdateInv, Shows, ReadGrants
<1>14. CASE Refreshed
  BY <1>14, <1>1 DEF UpdateInv, PhaseInv, Refreshed, NetType, Tabs
<1>15. CASE RefreshFails
  BY <1>15, <1>1 DEF UpdateInv, PhaseInv, RefreshFails, NetType
<1>16. CASE TakeCommand
  BY <1>16, <1>1 DEF UpdateInv, PhaseInv, TakeCommand, NetType
<1>17. CASE HandleCommand
  BY <1>17, <1>1 DEF UpdateInv, HandleCommand, NetType
<1>18. CASE AnswerCommand
  BY <1>18, <1>1 DEF UpdateInv, PhaseInv, AnswerCommand, NetType
<1>19. CASE PostTimesOut
  BY <1>19, <1>1 DEF UpdateInv, PhaseInv, PostTimesOut, NetType
<1>20. CASE EventFrame
  BY <1>20, <1>1 DEF UpdateInv, PhaseInv, EventFrame, NetType
<1>21. CASE StreamBreaks
  BY <1>21 DEF UpdateInv, StreamBreaks, Announces, NoStream
<1>22. CASE StreamLost
  BY <1>22, <1>1 DEF UpdateInv, PhaseInv, StreamLost, NetType
<1>23. CASE InboxTick
  BY <1>23, <1>1 DEF UpdateInv, PhaseInv, InboxTick, NetType
<1>24. CASE TakeUpdate
  BY <1>24 DEF UpdateInv, TakeUpdate
<1>25. CASE (\E r \in Reqs \cup {NoRequest} : Select(r)) \/ SwitchTab \/ OpenDetail \/ Back
  BY <1>25, BrowseDoes DEF UpdateInv
<1>26. ASSUME NEW d \in Durations, ChooseDuration(d) PROVE UpdateInv'
  BY <1>26, ChooseDoes DEF UpdateInv
<1>27. ASSUME NEW key \in {"a", "d", "r"}, Decide(key) PROVE UpdateInv'
  BY <1>27, DecideDoes DEF UpdateInv
<1>28. CASE Quit
  BY <1>28, QuitTypes DEF UpdateInv
<1>. QED
  BY <1>10, <1>11, <1>12, <1>13, <1>14, <1>15, <1>16, <1>17, <1>18, <1>19, <1>20, <1>21,
     <1>22, <1>23, <1>24, <1>25, <1>26, <1>27, <1>28
     DEF InboxNext, InboxNetwork, InboxKeys

\* A decision under way was not answered before and carries the duration chosen for it.
LEMMA CommandStep ==
  ASSUME InboxTypes, ChoiceInv, PhaseInv, CountInv, CleanInv, CommandInv, InboxNext
  PROVE  CommandInv'
<1>1. net \in NetType /\ ui \in UiType /\ shown \in UpdateType
  BY DEF InboxTypes
<1>10. CASE InboxDaemon
  BY <1>10, DaemonAdvances DEF CommandInv
<1>11. CASE Subscribe
  BY <1>11, <1>1 DEF CommandInv, PhaseInv, Subscribe, NetType
<1>12. CASE ReadRequests
  BY <1>12, <1>1 DEF CommandInv, PhaseInv, ReadRequests, NetType
<1>13. CASE ReadGrants
  BY <1>13, <1>1 DEF CommandInv, PhaseInv, ReadGrants, NetType
<1>14. CASE Refreshed
  BY <1>14, <1>1 DEF CommandInv, PhaseInv, Refreshed, NetType
<1>15. CASE RefreshFails
  BY <1>15, <1>1 DEF CommandInv, PhaseInv, RefreshFails, NetType
<1>16. CASE TakeCommand
  BY <1>16, <1>1 DEF CommandInv, PhaseInv, TakeCommand, NetType, CommandOK
<1>17. CASE HandleCommand
  BY <1>17, <1>1 DEF CommandInv, PhaseInv, HandleCommand, NetType
<1>18. CASE AnswerCommand
  BY <1>18, <1>1 DEF CommandInv, PhaseInv, AnswerCommand, NetType, CommandOK
<1>19. CASE PostTimesOut
  BY <1>19, <1>1 DEF CommandInv, PhaseInv, PostTimesOut, NetType, CommandOK
<1>20. CASE EventFrame
  BY <1>20, <1>1 DEF CommandInv, PhaseInv, EventFrame, NetType
<1>21. CASE StreamBreaks
  BY <1>21, <1>1 DEF CommandInv, PhaseInv, StreamBreaks, NetType
<1>22. CASE StreamLost
  BY <1>22, <1>1 DEF CommandInv, PhaseInv, StreamLost, NetType
<1>23. CASE InboxTick
  BY <1>23, <1>1 DEF CommandInv, PhaseInv, InboxTick, NetType
<1>24. CASE TakeUpdate
  BY <1>24 DEF CommandInv, TakeUpdate
<1>25. CASE (\E r \in Reqs \cup {NoRequest} : Select(r)) \/ SwitchTab \/ OpenDetail \/ Back
  BY <1>25, BrowseDoes DEF CommandInv
<1>26. ASSUME NEW d \in Durations, ChooseDuration(d) PROVE CommandInv'
  BY <1>26, ChooseDoes DEF CommandInv, CommandOK, CountInv
<1>27. ASSUME NEW key \in {"a", "d", "r"}, Decide(key) PROVE CommandInv'
  <2>1. CASE chan = NoCmd
    <3>1. Clean(inboxPast, ui.snapshot)
      BY <1>27, DecideDoes DEF CleanInv, CountInv
    <3>2. ASSUME NEW c, Sent(ui, inboxPast, c) PROVE CommandOK(inboxPast, c)
      BY <3>1, <3>2 DEF Sent, Clean, CommandOK
    <3>. QED
      BY <1>27, <2>1, <3>2, DecideDoes DEF CommandInv, CommandOK, Chosen
  <2>2. CASE chan # NoCmd
    BY <1>27, <2>2, DecideDoes DEF CommandInv, CommandOK, Chosen
  <2>. QED
    BY <2>1, <2>2
<1>28. CASE Quit
  BY <1>28, QuitTypes DEF CommandInv, CommandOK
<1>. QED
  BY <1>10, <1>11, <1>12, <1>13, <1>14, <1>15, <1>16, <1>17, <1>18, <1>19, <1>20, <1>21,
     <1>22, <1>23, <1>24, <1>25, <1>26, <1>27, <1>28
     DEF InboxNext, InboxNetwork, InboxKeys

\* The inbox before it is opened, and after it was left.
LEMMA InboxStarts ==
  ASSUME /\ store = [status |-> [r \in Reqs |-> "none"], text |-> [r \in Reqs |-> 1], gone |-> {}, grants |-> {}]
         /\ stream = NoStream /\ shown = NoUpdate /\ chan = NoCmd /\ late = {}
         /\ inboxPast = [answered |-> {}, chosen |-> [r \in Reqs |-> NoChoice], sends |-> 0]
         /\ \/ net = NewNet /\ ui = NewUi
            \/ net = [NewNet EXCEPT !.pc = "over"] /\ ui = [NewUi EXCEPT !.run = FALSE]
  PROVE  InboxInv
<1>1. MaxBreaks \in Nat /\ Capacity \in Nat /\ MaxSends \in Nat
  BY InboxAssumption
<1>2. EmptySnapshot \in SnapshotType /\ NoCmd \in CmdType /\ NoStream \in StreamType /\ NoDetail \in Details
      /\ NoChoice \in ChoiceType
  BY <1>1 DEF EmptySnapshot, SnapshotType, NoCmd, CmdType, NoStream, StreamType, NoDetail, Details, Lasting,
              NoChoice, ChoiceType
<1>. HIDE DEF SnapshotType
<1>3. store \in StoreType
  BY DEF StoreType
<1>4. NoUpdate \in UpdateType
  BY <1>2 DEF NoUpdate, UpdateType
<1>5. inboxPast \in PastType /\ inboxPast.answered = {}
  <2>1. [r \in Reqs |-> NoChoice] \in [Reqs -> ChoiceType]
    BY <1>2
  <2>. QED
    BY <1>1, <2>1 DEF PastType
<1>6. NewNet \in NetType
  BY <1>1, <1>2 DEF NewNet, NetType
<1>7. NewUi \in UiType
  <2>1. [t \in Tabs |-> NoRequest] \in [Tabs -> Reqs \cup {NoRequest}] /\ "requests" \in Tabs
    BY DEF Tabs
  <2>. QED
    BY <1>2, <2>1 DEF NewUi, UiType
<1>8. /\ net \in NetType /\ ui \in UiType /\ net.pc \in {"subscribe", "over"}
      /\ net.got = {} /\ net.read = EmptySnapshot /\ net.snap = EmptySnapshot /\ net.cmd = NoCmd
      /\ ~net.answered /\ ~net.conn /\ net.completed = 0
      /\ ui.snapshot = EmptySnapshot /\ ui.detail = NoDetail /\ ui.durations = {} /\ ~ui.busy /\ ui.completed = 0
      /\ net.pc = "over" <=> ~ui.run
  <2>1. CASE net = NewNet /\ ui = NewUi
    BY <1>6, <1>7, <2>1 DEF NewNet, NewUi
  <2>2. CASE net = [NewNet EXCEPT !.pc = "over"] /\ ui = [NewUi EXCEPT !.run = FALSE]
    <3>1. net \in NetType /\ ui \in UiType
      BY <1>6, <1>7, <2>2 DEF NetType, UiType
    <3>. QED
      BY <2>2, <3>1 DEF NewNet, NewUi
  <2>. QED
    BY <2>1, <2>2
<1>9. InboxTypes
  BY <1>2, <1>3, <1>4, <1>5, <1>8 DEF InboxTypes
<1>10. PhaseInv /\ CountInv
  BY <1>8 DEF PhaseInv, CountInv, NoUpdate
<1>11. RecordInv /\ CleanInv
  BY <1>5, <1>8, EmptyIsFine DEF RecordInv, RecordOf, CleanInv, GrantsApproved, NoUpdate
<1>12. ChoiceInv /\ UpdateInv /\ CommandInv
  BY <1>8 DEF ChoiceInv, UpdateInv, CommandInv, CommandOK, NoDetail
<1>. QED
  BY <1>9, <1>10, <1>11, <1>12 DEF InboxInv

\* Every step of the inbox and of the daemon keeps the invariant.
LEMMA InboxStep == InboxInv /\ [InboxNext]_inboxVars => InboxInv'
<1>1. ASSUME InboxInv, InboxNext PROVE InboxInv'
  BY <1>1, InboxTypesStep, PhaseStep, CountStep, RecordStep, CleanStep, ChoiceStep, UpdateStep, CommandStep DEF InboxInv
<1>2. ASSUME InboxInv, UNCHANGED inboxVars PROVE InboxInv'
  BY <1>2 DEF InboxInv, InboxTypes, PhaseInv, CountInv, RecordInv, RecordOf, CleanInv, ChoiceInv, UpdateInv, CommandInv,
              inboxVars
<1>. QED
  BY <1>1, <1>2

\* The invariant gives what the inbox promises.
LEMMA InboxPromises ==
  ASSUME InboxInv
  PROVE  InboxTypeOK /\ AnsweredOnce /\ OneDecision /\ DurationIsForThisRequest /\ NoLostUpdate
<1>. USE DEF InboxInv
<1>1. InboxTypeOK
  BY DEF InboxTypes, InboxTypeOK, StoreType, Granted, Lasting, StreamType, NetType, UpdateType, UiType, Details
<1>2. AnsweredOnce /\ DurationIsForThisRequest
  BY DEF AnsweredOnce, DurationIsForThisRequest, Under, CommandInv, CommandOK, Chosen
<1>3. OneDecision
  <2>1. CASE Under = {}
    BY <2>1, FS_EmptySet DEF OneDecision
  <2>2. CASE Under # {}
    <3>1. PICK c : Under = {c}
      BY <2>2 DEF Under, PhaseInv
    <3>2. Cardinality(Under) = 1
      BY <3>1, FS_Singleton
    <3>3. ~(~ui.busy /\ ui.run)
      BY <2>2 DEF Under, CountInv
    <3>. QED
      BY <3>2, <3>3 DEF OneDecision
  <2>. QED
    BY <2>1, <2>2
<1>4. NoLostUpdate
  <2>1. SUFFICES ASSUME net.pc = "wait", net.conn, ~Announces(stream) PROVE
          /\ {q.id : q \in net.snap.requests} \subseteq Pending(store)
          /\ Pending(store) \ store.gone \subseteq {q.id : q \in net.snap.requests}
    BY DEF NoLostUpdate, Announces
  <2>2. Shows(store, net.snap)
    BY <2>1 DEF UpdateInv
  <2>. QED
    BY <2>2 DEF Shows
<1>. QED
  BY <1>1, <1>2, <1>3, <1>4

\* From the inbox no request or grant is decided twice, one decision is under way at a
\* time and carries the duration chosen for the request as it reads, and no update of the
\* daemon is lost between the subscription and the snapshot (approvals.rs): for any
\* requests, any capacity of the event channel and any number of failures and decisions.
THEOREM InboxSafe == ClientsSpec => []InboxDecidesOnce
<1>1. ClientsInit => InboxInv
  <2>1. SUFFICES ASSUME ClientsInit PROVE InboxInv
    OBVIOUS
  <2>2. CASE client = "inbox"
    BY <2>1, <2>2, InboxStarts DEF ClientsInit, InboxInit
  <2>3. CASE client # "inbox"
    BY <2>1, <2>3, InboxStarts DEF ClientsInit, InboxRest
  <2>. QED
    BY <2>2, <2>3
<1>2. InboxInv /\ [ClientsNext]_<<client, clientVars>> => InboxInv'
  <2>1. [ClientsNext]_<<client, clientVars>> => [InboxNext]_inboxVars
    BY DEF ClientsNext, InboxPart, WaitPart, RecordPart, OnboardPart, InstallPart, EndpointPart, ClockPart,
           HandoffPart, clientVars
  <2>. QED
    BY <2>1, InboxStep
<1>3. InboxInv => InboxDecidesOnce
  BY InboxPromises DEF InboxDecidesOnce
<1>. QED
  BY <1>1, <1>2, <1>3, PTL DEF ClientsSpec

(***************************************************************************)
(* The console handoff.  The journal is the only thing that survives the   *)
(* helper, so the invariant ties three things together: what a worker may  *)
(* still do, what the journal says, and what the helper in memory believes.*)
(***************************************************************************)
\* The helper's memory and the journal agree while a helper runs.
MemoryInv ==
  /\ hpc # "down" /\ journal = "pending" => unresolved
  /\ hpc \in Busy /\ ~committed => ~unresolved
  /\ hpc \in Busy /\ committed => journal = "pending"
  /\ hpc \in {"send", "await", "leave", "observe"} => committed
  /\ hpc \in {"discover", "elevate", "connect", "greet", "grant", "commit"} => ~committed

\* An attempt that was not started yet, or whose worker was not, has left no trace.
FreshInv ==
  /\ hpc \in Busy => att \in Attempts
  /\ hpc = "discover" => wpc[att] = "none"
  /\ hpc \in Busy \ {"discover", "elevate", "catch"} => wpc[att] \notin {"none", "asked"}
  /\ \A a \in Attempts :
       /\ a > att => wpc[a] = "none" /\ told[a] = "none"
       /\ wpc[a] \notin {"transferring", "reported", "exited", "failed"} => tscon[a] = "none"
       /\ wpc[a] \in {"none", "asked"} => toWorker[a] = "none"

\* While an attempt runs only its own worker may transfer, and only once it is committed.
ActiveInv ==
  hpc \in Busy =>
    /\ \A a \in Attempts : a # att => ~MayTransfer(a)
    /\ ~committed => tscon[att] = "none" /\ ~MayTransfer(att)
    /\ hpc = "observe" => wpc[att] = "exited"
    /\ told[att] = "none"

\* A reported success is one, on its way and when it was read.
ReplyInv ==
  /\ \A a \in Attempts : toHelper[a] = "DONE" => tscon[a] = "done"
  /\ hpc \in {"leave", "observe"} /\ reply = "DONE" => tscon[att] = "done"

HandoffInv ==
  HandoffTypeOK /\ MemoryInv /\ FreshInv /\ ActiveInv /\ ReplyInv /\ CommitIsJournaled /\ OneTransfer /\ ToldTruly

\* The invariant holds at the start.
LEMMA HandoffInitially == HandoffInit => HandoffInv
<1>. SUFFICES ASSUME HandoffInit PROVE HandoffInv
  OBVIOUS
<1>. USE HandoffAssumption DEF HandoffInit
<1>1. HandoffTypeOK
  <2>1. life \in 0..MaxLives /\ att \in 0..MaxAttempts /\ owner \in [Attempts -> 0..MaxLives]
    OBVIOUS
  <2>. QED
    BY <2>1 DEF HandoffTypeOK, Busy, Running, Results
<1>2. \A a \in Attempts : ~MayTransfer(a)
  BY DEF MayTransfer, WorkerRuns, Running
<1>3. MemoryInv /\ FreshInv /\ ActiveInv /\ ReplyInv
  BY DEF MemoryInv, FreshInv, ActiveInv, ReplyInv, Busy
<1>4. CommitIsJournaled /\ OneTransfer /\ ToldTruly
  BY <1>2 DEF CommitIsJournaled, OneTransfer, ToldTruly
<1>. QED
  BY <1>1, <1>3, <1>4 DEF HandoffInv

\* Every action of the helper keeps the types.
LEMMA HelperTypes ==
  ASSUME HandoffTypeOK, FreshInv,
         StartHelper \/ StopHelper \/ Click \/ Discovered \/ OpenWorkerPipe \/ Greeted \/ Grant \/ Commit \/ SendCommit
           \/ ReadResult \/ Left \/ RecordOutcome \/ Throw \/ Caught \/ InspectPrevious \/ AcknowledgePrevious \/ Move
  PROVE  HandoffTypeOK'
<1>. USE HandoffAssumption DEF HandoffTypeOK, Busy, Results, Running, helperVars, workerVars
<1>1. CASE StartHelper
  <2>1. life' \in 0..MaxLives
    BY <1>1 DEF StartHelper
  <2>. QED
    BY <1>1, <2>1 DEF StartHelper
<1>2. CASE StopHelper BY <1>2 DEF StopHelper
<1>3. CASE Click
  <2>1. att' \in 0..MaxAttempts
    BY <1>3 DEF Click
  <2>. QED
    BY <1>3, <2>1 DEF Click
<1>4. CASE Discovered BY <1>4 DEF Discovered, HandoffRecord
<1>5. CASE OpenWorkerPipe BY <1>5 DEF OpenWorkerPipe
<1>6. CASE Greeted BY <1>6 DEF Greeted, HandoffRecord
<1>7. CASE Grant BY <1>7 DEF Grant
<1>8. CASE Commit BY <1>8 DEF Commit, HandoffRecord
<1>9. CASE SendCommit BY <1>9 DEF SendCommit
<1>10. CASE ReadResult BY <1>10 DEF ReadResult, FreshInv
<1>11. CASE Left BY <1>11 DEF Left
<1>12. CASE RecordOutcome BY <1>12 DEF RecordOutcome, HandoffRecord
<1>13. CASE Throw BY <1>13 DEF Throw
<1>14. CASE Caught BY <1>14 DEF Caught, HandoffRecord
<1>15. CASE InspectPrevious BY <1>15 DEF InspectPrevious, InspectCurrent
<1>16. CASE AcknowledgePrevious BY <1>16 DEF AcknowledgePrevious, HandoffRecord
<1>17. CASE Move BY <1>17 DEF Move
<1>. QED
  BY <1>1, <1>2, <1>3, <1>4, <1>5, <1>6, <1>7, <1>8, <1>9, <1>10, <1>11, <1>12, <1>13, <1>14, <1>15, <1>16, <1>17
\* So do the steps of a worker, of its dialog and of its tscon.
LEMMA WorkerTypes ==
  ASSUME HandoffTypeOK, NEW a \in Attempts,
         Approve(a) \/ Decline(a) \/ WorkerStarts(a) \/ Greet(a) \/ Receive(a) \/ Transfer(a) \/ Report(a)
           \/ Acked(a) \/ WorkerFails(a) \/ Tscon(a)
  PROVE  HandoffTypeOK'
<1>. USE DEF HandoffTypeOK, Busy, Results, Running, helperVars, workerVars, WorkerRuns, TsconResult
<1>1. CASE Approve(a) BY <1>1 DEF Approve
<1>2. CASE Decline(a) BY <1>2 DEF Decline
<1>3. CASE WorkerStarts(a) BY <1>3 DEF WorkerStarts
<1>4. CASE Greet(a) BY <1>4 DEF Greet
<1>5. CASE Receive(a) BY <1>5 DEF Receive
<1>6. CASE Transfer(a) BY <1>6 DEF Transfer
<1>7. CASE Report(a) BY <1>7 DEF Report
<1>8. CASE Acked(a) BY <1>8 DEF Acked
<1>9. CASE WorkerFails(a) BY <1>9 DEF WorkerFails
<1>10. CASE Tscon(a) BY <1>10 DEF Tscon
<1>. QED
  BY <1>1, <1>2, <1>3, <1>4, <1>5, <1>6, <1>7, <1>8, <1>9, <1>10

\* Only SendCommit makes a worker one that may transfer, and only the worker of the attempt.
LEMMA TransferNeedsCommit ==
  ASSUME HandoffTypeOK, FreshInv, HandoffNext, NEW a \in Attempts, MayTransfer(a)'
  PROVE  MayTransfer(a) \/ (a = att /\ hpc = "send" /\ hpc' \in {"await", "catch"})
<1>. USE DEF HandoffTypeOK, MayTransfer, WorkerRuns, Running, helperVars, workerVars
<1>1. CASE UNCHANGED <<wpc, toWorker>> BY <1>1
<1>2. CASE StartHelper \/ StopHelper \/ Click \/ Greeted \/ Grant \/ Commit \/ Left \/ RecordOutcome \/ Throw
             \/ Caught \/ InspectPrevious \/ AcknowledgePrevious \/ Move
  BY <1>2, <1>1 DEF StartHelper, StopHelper, Click, Greeted, Grant, Commit, Left, RecordOutcome, Throw, Caught,
     InspectPrevious, AcknowledgePrevious, Move
<1>3. CASE Discovered BY <1>3 DEF Discovered
<1>4. CASE OpenWorkerPipe BY <1>4 DEF OpenWorkerPipe
<1>5. CASE ReadResult BY <1>5 DEF ReadResult
<1>6. CASE SendCommit BY <1>6 DEF SendCommit
<1>7. ASSUME NEW b \in Attempts, Approve(b) \/ Decline(b) \/ WorkerStarts(b) \/ Greet(b) \/ Receive(b)
                                   \/ Transfer(b) \/ Report(b) \/ Acked(b) \/ WorkerFails(b) \/ Tscon(b)
      PROVE  MayTransfer(a)
  <2>1. CASE Approve(b) BY <2>1 DEF Approve, FreshInv
  <2>2. CASE Decline(b) BY <2>2 DEF Decline, FreshInv
  <2>3. CASE WorkerStarts(b) BY <2>3 DEF WorkerStarts, FreshInv
  <2>4. CASE Greet(b) BY <2>4 DEF Greet, FreshInv
  <2>5. CASE Receive(b) BY <2>5 DEF Receive, FreshInv
  <2>6. CASE Transfer(b) BY <2>6 DEF Transfer, FreshInv
  <2>7. CASE Report(b) BY <2>7 DEF Report, FreshInv
  <2>8. CASE Acked(b) BY <2>8 DEF Acked, FreshInv
  <2>9. CASE WorkerFails(b) BY <2>9 DEF WorkerFails, FreshInv
  <2>10. CASE Tscon(b) BY <2>10 DEF Tscon, FreshInv
  <2>. QED
    BY <1>7, <2>1, <2>2, <2>3, <2>4, <2>5, <2>6, <2>7, <2>8, <2>9, <2>10
<1>. QED
  BY <1>2, <1>3, <1>4, <1>5, <1>6, <1>7 DEF HandoffNext

\* The helper's memory and the journal still agree after a step.
LEMMA MemoryStep ==
  ASSUME HandoffInv, HandoffNext
  PROVE  MemoryInv'
<1>. USE HandoffAssumption DEF HandoffTypeOK, MemoryInv, Busy, helperVars, workerVars
<1>2. HandoffTypeOK /\ MemoryInv
  BY DEF HandoffInv
<1>3. CASE StartHelper BY <1>2, <1>3 DEF StartHelper
<1>4. CASE StopHelper BY <1>2, <1>4 DEF StopHelper
<1>5. CASE Click BY <1>2, <1>5 DEF Click
<1>6. CASE Discovered BY <1>2, <1>6 DEF Discovered, HandoffRecord
<1>7. CASE OpenWorkerPipe BY <1>2, <1>7 DEF OpenWorkerPipe
<1>8. CASE Greeted BY <1>2, <1>8 DEF Greeted, HandoffRecord
<1>9. CASE Grant BY <1>2, <1>9 DEF Grant
<1>10. CASE Commit BY <1>2, <1>10 DEF Commit, HandoffRecord
<1>11. CASE SendCommit BY <1>2, <1>11 DEF SendCommit
<1>12. CASE ReadResult BY <1>2, <1>12 DEF ReadResult
<1>13. CASE Left BY <1>2, <1>13 DEF Left
<1>14. CASE RecordOutcome BY <1>2, <1>14 DEF RecordOutcome, HandoffRecord
<1>15. CASE Throw BY <1>2, <1>15 DEF Throw
<1>16. CASE Caught BY <1>2, <1>16 DEF Caught, HandoffRecord
<1>17. CASE InspectPrevious BY <1>2, <1>17 DEF InspectPrevious
<1>18. CASE AcknowledgePrevious BY <1>2, <1>18 DEF AcknowledgePrevious, HandoffRecord
<1>19. CASE Move BY <1>2, <1>19 DEF Move
<1>20. ASSUME NEW b \in Attempts,
             Approve(b) \/ Decline(b) \/ WorkerStarts(b) \/ Greet(b) \/ Receive(b) \/ Transfer(b) \/ Report(b)
               \/ Acked(b) \/ WorkerFails(b) \/ Tscon(b)
      PROVE  MemoryInv'
  <2>1. CASE Approve(b) BY <1>2, <2>1 DEF Approve
  <2>2. CASE Decline(b) BY <1>2, <2>2 DEF Decline
  <2>3. CASE WorkerStarts(b) BY <1>2, <2>3 DEF WorkerStarts
  <2>4. CASE Greet(b) BY <1>2, <2>4 DEF Greet
  <2>5. CASE Receive(b) BY <1>2, <2>5 DEF Receive
  <2>6. CASE Transfer(b) BY <1>2, <2>6 DEF Transfer
  <2>7. CASE Report(b) BY <1>2, <2>7 DEF Report
  <2>8. CASE Acked(b) BY <1>2, <2>8 DEF Acked
  <2>9. CASE WorkerFails(b) BY <1>2, <2>9 DEF WorkerFails
  <2>10. CASE Tscon(b) BY <1>2, <2>10 DEF Tscon
  <2>. QED
    BY <1>20, <2>1, <2>2, <2>3, <2>4, <2>5, <2>6, <2>7, <2>8, <2>9, <2>10
<1>. QED
  BY <1>3, <1>4, <1>5, <1>6, <1>7, <1>8, <1>9, <1>10, <1>11, <1>12, <1>13, <1>14, <1>15, <1>16, <1>17, <1>18,
     <1>19, <1>20 DEF HandoffNext

\* What was not started has still left no trace.
LEMMA FreshStep ==
  ASSUME HandoffInv, HandoffNext
  PROVE  FreshInv'
<1>. USE HandoffAssumption DEF HandoffTypeOK, FreshInv, Busy, Running, WorkerRuns, Attempts, helperVars, workerVars
<1>2. HandoffTypeOK /\ FreshInv
  BY DEF HandoffInv
<1>3. CASE StartHelper BY <1>2, <1>3 DEF StartHelper
<1>4. CASE StopHelper BY <1>2, <1>4 DEF StopHelper
<1>5. CASE Click BY <1>2, <1>5 DEF Click
<1>6. CASE Discovered
  <2>1. att \in Attempts /\ wpc[att] = "none" /\ hpc' = "elevate" /\ wpc' = [wpc EXCEPT ![att] = "asked"]
    BY <1>2, <1>6 DEF Discovered
  <2>2. att' = att /\ told' = told /\ tscon' = tscon /\ toWorker' = toWorker
    BY <1>6 DEF Discovered
  <2>3. tscon[att] = "none" /\ toWorker[att] = "none"
    BY <1>2, <2>1
  <2>. QED
    BY <1>2, <2>1, <2>2, <2>3
<1>7. CASE OpenWorkerPipe BY <1>2, <1>7 DEF OpenWorkerPipe
<1>8. CASE Greeted BY <1>2, <1>8 DEF Greeted, HandoffRecord
<1>9. CASE Grant BY <1>2, <1>9 DEF Grant
<1>10. CASE Commit BY <1>2, <1>10 DEF Commit, HandoffRecord
<1>11. CASE SendCommit BY <1>2, <1>11 DEF SendCommit
<1>12. CASE ReadResult BY <1>2, <1>12 DEF ReadResult
<1>13. CASE Left BY <1>2, <1>13 DEF Left
<1>14. CASE RecordOutcome BY <1>2, <1>14 DEF RecordOutcome, HandoffRecord
<1>15. CASE Throw BY <1>2, <1>15 DEF Throw
<1>16. CASE Caught BY <1>2, <1>16 DEF Caught, HandoffRecord
<1>17. CASE InspectPrevious BY <1>2, <1>17 DEF InspectPrevious
<1>18. CASE AcknowledgePrevious BY <1>2, <1>18 DEF AcknowledgePrevious, HandoffRecord
<1>19. CASE Move BY <1>2, <1>19 DEF Move
<1>20. ASSUME NEW b \in Attempts,
             Approve(b) \/ Decline(b) \/ WorkerStarts(b) \/ Greet(b) \/ Receive(b) \/ Transfer(b) \/ Report(b)
               \/ Acked(b) \/ WorkerFails(b) \/ Tscon(b)
      PROVE  FreshInv'
  <2>1. CASE Approve(b) BY <1>2, <2>1 DEF Approve
  <2>2. CASE Decline(b) BY <1>2, <2>2 DEF Decline
  <2>3. CASE WorkerStarts(b) BY <1>2, <2>3 DEF WorkerStarts
  <2>4. CASE Greet(b) BY <1>2, <2>4 DEF Greet
  <2>5. CASE Receive(b) BY <1>2, <2>5 DEF Receive
  <2>6. CASE Transfer(b) BY <1>2, <2>6 DEF Transfer
  <2>7. CASE Report(b) BY <1>2, <2>7 DEF Report
  <2>8. CASE Acked(b) BY <1>2, <2>8 DEF Acked
  <2>9. CASE WorkerFails(b) BY <1>2, <2>9 DEF WorkerFails
  <2>10. CASE Tscon(b) BY <1>2, <2>10 DEF Tscon
  <2>. QED
    BY <1>20, <2>1, <2>2, <2>3, <2>4, <2>5, <2>6, <2>7, <2>8, <2>9, <2>10
<1>. QED
  BY <1>3, <1>4, <1>5, <1>6, <1>7, <1>8, <1>9, <1>10, <1>11, <1>12, <1>13, <1>14, <1>15, <1>16, <1>17, <1>18,
     <1>19, <1>20 DEF HandoffNext

\* A success on its way is still one.
LEMMA ReplyStep ==
  ASSUME HandoffInv, HandoffNext
  PROVE  ReplyInv'
<1>. USE HandoffAssumption DEF HandoffTypeOK, FreshInv, ReplyInv, Busy, Running, helperVars, workerVars
<1>2. HandoffTypeOK /\ FreshInv /\ ReplyInv
  BY DEF HandoffInv
<1>3. CASE StartHelper BY <1>2, <1>3 DEF StartHelper
<1>4. CASE StopHelper BY <1>2, <1>4 DEF StopHelper
<1>5. CASE Click BY <1>2, <1>5 DEF Click
<1>6. CASE Discovered BY <1>2, <1>6 DEF Discovered, HandoffRecord
<1>7. CASE OpenWorkerPipe BY <1>2, <1>7 DEF OpenWorkerPipe
<1>8. CASE Greeted BY <1>2, <1>8 DEF Greeted, HandoffRecord
<1>9. CASE Grant BY <1>2, <1>9 DEF Grant
<1>10. CASE Commit BY <1>2, <1>10 DEF Commit, HandoffRecord
<1>11. CASE SendCommit BY <1>2, <1>11 DEF SendCommit
<1>12. CASE ReadResult BY <1>2, <1>12 DEF ReadResult
<1>13. CASE Left BY <1>2, <1>13 DEF Left
<1>14. CASE RecordOutcome BY <1>2, <1>14 DEF RecordOutcome, HandoffRecord
<1>15. CASE Throw BY <1>2, <1>15 DEF Throw
<1>16. CASE Caught BY <1>2, <1>16 DEF Caught, HandoffRecord
<1>17. CASE InspectPrevious BY <1>2, <1>17 DEF InspectPrevious
<1>18. CASE AcknowledgePrevious BY <1>2, <1>18 DEF AcknowledgePrevious, HandoffRecord
<1>19. CASE Move BY <1>2, <1>19 DEF Move
<1>20. ASSUME NEW b \in Attempts,
             Approve(b) \/ Decline(b) \/ WorkerStarts(b) \/ Greet(b) \/ Receive(b) \/ Transfer(b) \/ Report(b)
               \/ Acked(b) \/ WorkerFails(b) \/ Tscon(b)
      PROVE  ReplyInv'
  <2>1. CASE Approve(b) BY <1>2, <2>1 DEF Approve
  <2>2. CASE Decline(b) BY <1>2, <2>2 DEF Decline
  <2>3. CASE WorkerStarts(b) BY <1>2, <2>3 DEF WorkerStarts
  <2>4. CASE Greet(b) BY <1>2, <2>4 DEF Greet
  <2>5. CASE Receive(b) BY <1>2, <2>5 DEF Receive
  <2>6. CASE Transfer(b) BY <1>2, <2>6 DEF Transfer
  <2>7. CASE Report(b) BY <1>2, <2>7 DEF Report, TsconResult
  <2>8. CASE Acked(b) BY <1>2, <2>8 DEF Acked
  <2>9. CASE WorkerFails(b) BY <1>2, <2>9 DEF WorkerFails
  <2>10. CASE Tscon(b) BY <1>2, <2>10 DEF Tscon
  <2>. QED
    BY <1>20, <2>1, <2>2, <2>3, <2>4, <2>5, <2>6, <2>7, <2>8, <2>9, <2>10
<1>. QED
  BY <1>3, <1>4, <1>5, <1>6, <1>7, <1>8, <1>9, <1>10, <1>11, <1>12, <1>13, <1>14, <1>15, <1>16, <1>17, <1>18,
     <1>19, <1>20 DEF HandoffNext

\* Still only the worker of a committed attempt may transfer.
LEMMA ActiveStep ==
  ASSUME HandoffInv, HandoffNext
  PROVE  ActiveInv'
<1>. USE HandoffAssumption DEF HandoffTypeOK, MemoryInv, FreshInv, ActiveInv, CommitIsJournaled, Busy, Running, helperVars, workerVars
<1>1. \A c \in Attempts : MayTransfer(c)' => MayTransfer(c)
        \/ (c = att /\ hpc = "send" /\ hpc' \in {"await", "catch"})
  BY TransferNeedsCommit DEF HandoffInv
<1>2. HandoffTypeOK /\ MemoryInv /\ FreshInv /\ ActiveInv /\ CommitIsJournaled
  BY DEF HandoffInv
<1>3. CASE StartHelper BY <1>1, <1>2, <1>3 DEF StartHelper
<1>4. CASE StopHelper BY <1>1, <1>2, <1>4 DEF StopHelper
<1>5. CASE Click
  <2>1. hpc = "idle" /\ ~unresolved /\ att' = att + 1 /\ att' \in Attempts /\ hpc' = "discover"
    BY <1>2, <1>5 DEF Click, Attempts
  <2>2. \A c \in Attempts : ~MayTransfer(c)
    BY <1>2, <2>1
  <2>3. \A c \in Attempts : ~MayTransfer(c)'
    BY <1>1, <2>1, <2>2
  <2>4. att' > att
    BY <1>2, <2>1
  <2>5. told[att'] = "none" /\ tscon[att'] = "none"
    BY <1>2, <2>1, <2>4
  <2>. QED
    BY <1>5, <2>1, <2>3, <2>5 DEF Click
<1>6. CASE Discovered BY <1>1, <1>2, <1>6 DEF Discovered, HandoffRecord
<1>7. CASE OpenWorkerPipe BY <1>1, <1>2, <1>7 DEF OpenWorkerPipe
<1>8. CASE Greeted BY <1>1, <1>2, <1>8 DEF Greeted, HandoffRecord
<1>9. CASE Grant BY <1>1, <1>2, <1>9 DEF Grant
<1>10. CASE Commit BY <1>1, <1>2, <1>10 DEF Commit, HandoffRecord
<1>11. CASE SendCommit BY <1>1, <1>2, <1>11 DEF SendCommit
<1>12. CASE ReadResult BY <1>1, <1>2, <1>12 DEF ReadResult
<1>13. CASE Left BY <1>1, <1>2, <1>13 DEF Left
<1>14. CASE RecordOutcome BY <1>1, <1>2, <1>14 DEF RecordOutcome, HandoffRecord
<1>15. CASE Throw BY <1>1, <1>2, <1>15 DEF Throw
<1>16. CASE Caught BY <1>1, <1>2, <1>16 DEF Caught, HandoffRecord
<1>17. CASE InspectPrevious BY <1>1, <1>2, <1>17 DEF InspectPrevious
<1>18. CASE AcknowledgePrevious BY <1>1, <1>2, <1>18 DEF AcknowledgePrevious, HandoffRecord
<1>19. CASE Move BY <1>1, <1>2, <1>19 DEF Move
<1>20. ASSUME NEW b \in Attempts,
             Approve(b) \/ Decline(b) \/ WorkerStarts(b) \/ Greet(b) \/ Receive(b) \/ Transfer(b) \/ Report(b)
               \/ Acked(b) \/ WorkerFails(b) \/ Tscon(b)
      PROVE  ActiveInv'
  <2>1. CASE Approve(b) BY <1>1, <1>2, <2>1 DEF Approve
  <2>2. CASE Decline(b) BY <1>1, <1>2, <2>2 DEF Decline
  <2>3. CASE WorkerStarts(b) BY <1>1, <1>2, <2>3 DEF WorkerStarts
  <2>4. CASE Greet(b) BY <1>1, <1>2, <2>4 DEF Greet
  <2>5. CASE Receive(b) BY <1>1, <1>2, <2>5 DEF Receive
  <2>6. CASE Transfer(b) BY <1>1, <1>2, <2>6 DEF Transfer, MayTransfer
  <2>7. CASE Report(b) BY <1>1, <1>2, <2>7 DEF Report
  <2>8. CASE Acked(b) BY <1>1, <1>2, <2>8 DEF Acked
  <2>9. CASE WorkerFails(b) BY <1>1, <1>2, <2>9 DEF WorkerFails, WorkerRuns
  <2>10. CASE Tscon(b) BY <1>1, <1>2, <2>10 DEF Tscon
  <2>. QED
    BY <1>20, <2>1, <2>2, <2>3, <2>4, <2>5, <2>6, <2>7, <2>8, <2>9, <2>10
<1>. QED
  BY <1>3, <1>4, <1>5, <1>6, <1>7, <1>8, <1>9, <1>10, <1>11, <1>12, <1>13, <1>14, <1>15, <1>16, <1>17, <1>18,
     <1>19, <1>20 DEF HandoffNext

\* A worker that may transfer is still journaled.
LEMMA JournalStep ==
  ASSUME HandoffInv, HandoffNext
  PROVE  CommitIsJournaled'
<1>. USE HandoffAssumption DEF HandoffTypeOK, MemoryInv, ActiveInv, CommitIsJournaled, Busy, helperVars, workerVars
<1>1. \A c \in Attempts : MayTransfer(c)' => MayTransfer(c)
        \/ (c = att /\ hpc = "send" /\ hpc' \in {"await", "catch"})
  BY TransferNeedsCommit DEF HandoffInv
<1>2. HandoffTypeOK /\ MemoryInv /\ FreshInv /\ ActiveInv /\ CommitIsJournaled
  BY DEF HandoffInv
<1>3. CASE StartHelper BY <1>1, <1>2, <1>3 DEF StartHelper
<1>4. CASE StopHelper BY <1>1, <1>2, <1>4 DEF StopHelper
<1>5. CASE Click BY <1>1, <1>2, <1>5 DEF Click
<1>6. CASE Discovered BY <1>1, <1>2, <1>6 DEF Discovered, HandoffRecord
<1>7. CASE OpenWorkerPipe BY <1>1, <1>2, <1>7 DEF OpenWorkerPipe
<1>8. CASE Greeted BY <1>1, <1>2, <1>8 DEF Greeted, HandoffRecord
<1>9. CASE Grant BY <1>1, <1>2, <1>9 DEF Grant
<1>10. CASE Commit BY <1>1, <1>2, <1>10 DEF Commit, HandoffRecord
<1>11. CASE SendCommit BY <1>1, <1>2, <1>11 DEF SendCommit
<1>12. CASE ReadResult BY <1>1, <1>2, <1>12 DEF ReadResult
<1>13. CASE Left BY <1>1, <1>2, <1>13 DEF Left
<1>14. CASE RecordOutcome BY <1>1, <1>2, <1>14 DEF RecordOutcome, HandoffRecord, MayTransfer, WorkerRuns, Running
<1>15. CASE Throw BY <1>1, <1>2, <1>15 DEF Throw
<1>16. CASE Caught BY <1>1, <1>2, <1>16 DEF Caught, HandoffRecord
<1>17. CASE InspectPrevious BY <1>1, <1>2, <1>17 DEF InspectPrevious
<1>18. CASE AcknowledgePrevious BY <1>1, <1>2, <1>18 DEF AcknowledgePrevious, HandoffRecord, InspectCurrent, MayTransfer, WorkerRuns, Running
<1>19. CASE Move BY <1>1, <1>2, <1>19 DEF Move
<1>20. ASSUME NEW b \in Attempts,
             Approve(b) \/ Decline(b) \/ WorkerStarts(b) \/ Greet(b) \/ Receive(b) \/ Transfer(b) \/ Report(b)
               \/ Acked(b) \/ WorkerFails(b) \/ Tscon(b)
      PROVE  CommitIsJournaled'
  <2>1. CASE Approve(b) BY <1>1, <1>2, <2>1 DEF Approve
  <2>2. CASE Decline(b) BY <1>1, <1>2, <2>2 DEF Decline
  <2>3. CASE WorkerStarts(b) BY <1>1, <1>2, <2>3 DEF WorkerStarts
  <2>4. CASE Greet(b) BY <1>1, <1>2, <2>4 DEF Greet
  <2>5. CASE Receive(b) BY <1>1, <1>2, <2>5 DEF Receive
  <2>6. CASE Transfer(b) BY <1>1, <1>2, <2>6 DEF Transfer
  <2>7. CASE Report(b) BY <1>1, <1>2, <2>7 DEF Report
  <2>8. CASE Acked(b) BY <1>1, <1>2, <2>8 DEF Acked
  <2>9. CASE WorkerFails(b) BY <1>1, <1>2, <2>9 DEF WorkerFails
  <2>10. CASE Tscon(b) BY <1>1, <1>2, <2>10 DEF Tscon
  <2>. QED
    BY <1>20, <2>1, <2>2, <2>3, <2>4, <2>5, <2>6, <2>7, <2>8, <2>9, <2>10
<1>. QED
  BY <1>3, <1>4, <1>5, <1>6, <1>7, <1>8, <1>9, <1>10, <1>11, <1>12, <1>13, <1>14, <1>15, <1>16, <1>17, <1>18,
     <1>19, <1>20 DEF HandoffNext

\* Still one worker at most may transfer.
LEMMA OneStep ==
  ASSUME HandoffInv, HandoffNext
  PROVE  OneTransfer'
<1>. USE HandoffAssumption DEF HandoffTypeOK, ActiveInv, OneTransfer, Busy, helperVars, workerVars
<1>1. \A c \in Attempts : MayTransfer(c)' => MayTransfer(c)
        \/ (c = att /\ hpc = "send" /\ hpc' \in {"await", "catch"})
  BY TransferNeedsCommit DEF HandoffInv
<1>2. HandoffTypeOK /\ ActiveInv /\ OneTransfer
  BY DEF HandoffInv
<1>3. CASE StartHelper BY <1>1, <1>2, <1>3 DEF StartHelper
<1>4. CASE StopHelper BY <1>1, <1>2, <1>4 DEF StopHelper
<1>5. CASE Click BY <1>1, <1>2, <1>5 DEF Click
<1>6. CASE Discovered BY <1>1, <1>2, <1>6 DEF Discovered, HandoffRecord
<1>7. CASE OpenWorkerPipe BY <1>1, <1>2, <1>7 DEF OpenWorkerPipe
<1>8. CASE Greeted BY <1>1, <1>2, <1>8 DEF Greeted, HandoffRecord
<1>9. CASE Grant BY <1>1, <1>2, <1>9 DEF Grant
<1>10. CASE Commit BY <1>1, <1>2, <1>10 DEF Commit, HandoffRecord
<1>11. CASE SendCommit BY <1>1, <1>2, <1>11 DEF SendCommit
<1>12. CASE ReadResult BY <1>1, <1>2, <1>12 DEF ReadResult
<1>13. CASE Left BY <1>1, <1>2, <1>13 DEF Left
<1>14. CASE RecordOutcome BY <1>1, <1>2, <1>14 DEF RecordOutcome, HandoffRecord
<1>15. CASE Throw BY <1>1, <1>2, <1>15 DEF Throw
<1>16. CASE Caught BY <1>1, <1>2, <1>16 DEF Caught, HandoffRecord
<1>17. CASE InspectPrevious BY <1>1, <1>2, <1>17 DEF InspectPrevious
<1>18. CASE AcknowledgePrevious BY <1>1, <1>2, <1>18 DEF AcknowledgePrevious, HandoffRecord
<1>19. CASE Move BY <1>1, <1>2, <1>19 DEF Move
<1>20. ASSUME NEW b \in Attempts,
             Approve(b) \/ Decline(b) \/ WorkerStarts(b) \/ Greet(b) \/ Receive(b) \/ Transfer(b) \/ Report(b)
               \/ Acked(b) \/ WorkerFails(b) \/ Tscon(b)
      PROVE  OneTransfer'
  <2>1. CASE Approve(b) BY <1>1, <1>2, <2>1 DEF Approve
  <2>2. CASE Decline(b) BY <1>1, <1>2, <2>2 DEF Decline
  <2>3. CASE WorkerStarts(b) BY <1>1, <1>2, <2>3 DEF WorkerStarts
  <2>4. CASE Greet(b) BY <1>1, <1>2, <2>4 DEF Greet
  <2>5. CASE Receive(b) BY <1>1, <1>2, <2>5 DEF Receive
  <2>6. CASE Transfer(b) BY <1>1, <1>2, <2>6 DEF Transfer
  <2>7. CASE Report(b) BY <1>1, <1>2, <2>7 DEF Report
  <2>8. CASE Acked(b) BY <1>1, <1>2, <2>8 DEF Acked
  <2>9. CASE WorkerFails(b) BY <1>1, <1>2, <2>9 DEF WorkerFails
  <2>10. CASE Tscon(b) BY <1>1, <1>2, <2>10 DEF Tscon
  <2>. QED
    BY <1>20, <2>1, <2>2, <2>3, <2>4, <2>5, <2>6, <2>7, <2>8, <2>9, <2>10
<1>. QED
  BY <1>3, <1>4, <1>5, <1>6, <1>7, <1>8, <1>9, <1>10, <1>11, <1>12, <1>13, <1>14, <1>15, <1>16, <1>17, <1>18,
     <1>19, <1>20 DEF HandoffNext

\* What was told is still true.
LEMMA ToldStep ==
  ASSUME HandoffInv, HandoffNext
  PROVE  ToldTruly'
<1>. USE HandoffAssumption DEF HandoffTypeOK, MemoryInv, FreshInv, ActiveInv, ReplyInv, ToldTruly, Busy, helperVars, workerVars
<1>1. \A c \in Attempts : MayTransfer(c)' => MayTransfer(c)
        \/ (c = att /\ hpc = "send" /\ hpc' \in {"await", "catch"})
  BY TransferNeedsCommit DEF HandoffInv
<1>2. HandoffTypeOK /\ MemoryInv /\ FreshInv /\ ActiveInv /\ ReplyInv /\ ToldTruly
  BY DEF HandoffInv
<1>3. CASE StartHelper BY <1>1, <1>2, <1>3 DEF StartHelper
<1>4. CASE StopHelper BY <1>1, <1>2, <1>4 DEF StopHelper
<1>5. CASE Click BY <1>1, <1>2, <1>5 DEF Click
<1>6. CASE Discovered BY <1>1, <1>2, <1>6 DEF Discovered, HandoffRecord
<1>7. CASE OpenWorkerPipe BY <1>1, <1>2, <1>7 DEF OpenWorkerPipe
<1>8. CASE Greeted BY <1>1, <1>2, <1>8 DEF Greeted, HandoffRecord
<1>9. CASE Grant BY <1>1, <1>2, <1>9 DEF Grant
<1>10. CASE Commit BY <1>1, <1>2, <1>10 DEF Commit, HandoffRecord
<1>11. CASE SendCommit BY <1>1, <1>2, <1>11 DEF SendCommit
<1>12. CASE ReadResult BY <1>1, <1>2, <1>12 DEF ReadResult
<1>13. CASE Left BY <1>1, <1>2, <1>13 DEF Left
<1>14. CASE RecordOutcome BY <1>1, <1>2, <1>14 DEF RecordOutcome, HandoffRecord
<1>15. CASE Throw BY <1>1, <1>2, <1>15 DEF Throw
<1>16. CASE Caught BY <1>1, <1>2, <1>16 DEF Caught, HandoffRecord
<1>17. CASE InspectPrevious BY <1>1, <1>2, <1>17 DEF InspectPrevious
<1>18. CASE AcknowledgePrevious BY <1>1, <1>2, <1>18 DEF AcknowledgePrevious, HandoffRecord
<1>19. CASE Move BY <1>1, <1>2, <1>19 DEF Move
<1>20. ASSUME NEW b \in Attempts,
             Approve(b) \/ Decline(b) \/ WorkerStarts(b) \/ Greet(b) \/ Receive(b) \/ Transfer(b) \/ Report(b)
               \/ Acked(b) \/ WorkerFails(b) \/ Tscon(b)
      PROVE  ToldTruly'
  <2>1. CASE Approve(b) BY <1>1, <1>2, <2>1 DEF Approve
  <2>2. CASE Decline(b) BY <1>1, <1>2, <2>2 DEF Decline
  <2>3. CASE WorkerStarts(b) BY <1>1, <1>2, <2>3 DEF WorkerStarts
  <2>4. CASE Greet(b) BY <1>1, <1>2, <2>4 DEF Greet
  <2>5. CASE Receive(b) BY <1>1, <1>2, <2>5 DEF Receive
  <2>6. CASE Transfer(b) BY <1>1, <1>2, <2>6 DEF Transfer, MayTransfer
  <2>7. CASE Report(b) BY <1>1, <1>2, <2>7 DEF Report
  <2>8. CASE Acked(b) BY <1>1, <1>2, <2>8 DEF Acked
  <2>9. CASE WorkerFails(b) BY <1>1, <1>2, <2>9 DEF WorkerFails
  <2>10. CASE Tscon(b) BY <1>1, <1>2, <2>10 DEF Tscon
  <2>. QED
    BY <1>20, <2>1, <2>2, <2>3, <2>4, <2>5, <2>6, <2>7, <2>8, <2>9, <2>10
<1>. QED
  BY <1>3, <1>4, <1>5, <1>6, <1>7, <1>8, <1>9, <1>10, <1>11, <1>12, <1>13, <1>14, <1>15, <1>16, <1>17, <1>18,
     <1>19, <1>20 DEF HandoffNext

\* Every step keeps the invariant.
LEMMA HandoffStep == HandoffInv /\ [HandoffNext]_handoffVars => HandoffInv'
<1>. SUFFICES ASSUME HandoffInv, [HandoffNext]_handoffVars PROVE HandoffInv'
  OBVIOUS
<1>1. CASE HandoffNext
  <2>1. HandoffTypeOK'
    BY <1>1, HelperTypes, WorkerTypes DEF HandoffNext, HandoffInv
  <2>. QED
    BY <1>1, <2>1, MemoryStep, FreshStep, ActiveStep, ReplyStep, JournalStep, OneStep, ToldStep DEF HandoffInv
<1>2. CASE UNCHANGED handoffVars
  BY <1>2 DEF HandoffInv, HandoffTypeOK, MemoryInv, FreshInv, ActiveInv, ReplyInv, CommitIsJournaled, OneTransfer,
              ToldTruly, MayTransfer, WorkerRuns, handoffVars, helperVars, workerVars
<1>. QED
  BY <1>1, <1>2

\* A handoff is journaled before any worker can act on it, at most one worker acts at a
\* time, and what was told of an attempt is true: for every number of attempts and of
\* crashes and restarts of the helper.
THEOREM HandoffSafe == HandoffSpec => []HandoffIsSafe
<1>1. HandoffInv => HandoffIsSafe
  BY DEF HandoffInv, HandoffIsSafe
<1>. QED
  BY <1>1, HandoffInitially, HandoffStep, PTL DEF HandoffSpec
-----------------------------------------------------------------------------
(* A wait: what the loop remembers of its samples is what they showed.     *)

WaitAnswers == {"none", "ok", "timeout", "failed", "refused"}
WaiterRecords == [pc : {"idle", "waiting", "over"}, platform : Platforms, cond : Conditions, loose : BOOLEAN,
                  first : Nat, last : Nat, changedAt : 0..MaxTime, sampled : BOOLEAN, nextAt : Nat, deadline : Nat,
                  answer : WaitAnswers, at : Nat]
TruthRecords == [seen : Looks, quietSince : 0..MaxTime]

\* A running wait has no answer yet, and a `stable` one knows since when the samples were alike.
SamplesRule(w, t) ==
  /\ w.pc # "over" => w.answer = "none"
  /\ w.pc = "waiting" /\ w.cond = "stable" /\ w.platform = "macos" /\ w.sampled =>
       w.changedAt = t.quietSince /\ w.last = t.seen.pic

WaitsInv ==
  /\ waiter \in WaiterRecords /\ truth \in TruthRecords /\ window \in Looks /\ snapshot \in Looks /\ wtime \in 0..MaxTime
  /\ SamplesRule(waiter, truth) /\ AnswerIsTrue /\ TimeoutIsFair

\* What is known before a step.
LEMMA WaitsShape ==
  ASSUME WaitsInv
  PROVE  /\ waiter \in WaiterRecords /\ truth \in TruthRecords /\ window \in Looks /\ snapshot \in Looks
         /\ wtime \in 0..MaxTime /\ wtime \in Nat /\ truth.seen \in Looks /\ truth.quietSince \in 0..MaxTime
         /\ truth.seen.pic \in Nat /\ window.pic \in Nat /\ waiter.first \in Nat /\ waiter.last \in Nat
         /\ QuietWindow \in Nat /\ Timeout \in Nat /\ Threshold \in Nat /\ MaxTime \in Nat
         /\ SamplesRule(waiter, truth) /\ AnswerIsTrue /\ TimeoutIsFair
<1>1. /\ waiter \in WaiterRecords /\ truth \in TruthRecords /\ window \in Looks /\ snapshot \in Looks /\ wtime \in 0..MaxTime
      /\ SamplesRule(waiter, truth) /\ AnswerIsTrue /\ TimeoutIsFair
  BY DEF WaitsInv
<1>2. QuietWindow \in Nat /\ Timeout \in Nat /\ Threshold \in Nat /\ MaxTime \in Nat /\ Pictures \subseteq Nat
  BY WaitsAssumption
<1>3. truth.seen \in Looks /\ truth.quietSince \in 0..MaxTime
  BY <1>1 DEF TruthRecords
<1>4. truth.seen.pic \in Pictures /\ window.pic \in Pictures
  BY <1>1, <1>3 DEF Looks
<1>5. waiter.first \in Nat /\ waiter.last \in Nat
  BY <1>1 DEF WaiterRecords
<1>6. wtime \in Nat
  BY <1>1, <1>2
<1>. QED
  BY <1>1, <1>2, <1>3, <1>4, <1>5, <1>6

LEMMA WaitsBegin ==
  ASSUME WaitsInit
  PROVE  WaitsInv
<1>1. window \in Looks /\ snapshot = window /\ waiter = NotWaiting /\ wtime = 0 /\ truth = [seen |-> window, quietSince |-> 0]
  BY DEF WaitsInit
<1>2. MaxTime \in Nat
  BY WaitsAssumption
<1>3. waiter \in WaiterRecords /\ waiter.pc = "idle" /\ waiter.answer = "none"
  BY <1>1, <1>2 DEF NotWaiting, WaiterRecords, WaitAnswers, Platforms, Conditions
<1>4. truth \in TruthRecords
  BY <1>1, <1>2 DEF TruthRecords
<1>5. wtime \in 0..MaxTime
  BY <1>1, <1>2
<1>. QED
  BY <1>1, <1>3, <1>4, <1>5 DEF WaitsInv, SamplesRule, AnswerIsTrue, TimeoutIsFair

\* The window, its snapshot and the clock move.
LEMMA DesktopMoves ==
  ASSUME WaitsInv, WindowChanges \/ SnapshotArrives \/ WaitTimePasses
  PROVE  WaitsInv'
<1>0. waiter' = waiter /\ truth' = truth
  BY DEF WindowChanges, SnapshotArrives, WaitTimePasses
<1>1. SamplesRule(waiter, truth)' /\ AnswerIsTrue' /\ TimeoutIsFair'
  BY <1>0, WaitsShape DEF AnswerIsTrue, TimeoutIsFair
<1>2. window' \in Looks
  <2>1. CASE WindowChanges
    <3>1. PICK p \in Pictures, r \in BOOLEAN :
            \/ window' = [window EXCEPT !.there = FALSE] \/ window' = [window EXCEPT !.title = r]
            \/ window' = [window EXCEPT !.pic = p] \/ window' = [window EXCEPT !.readable = r]
      <4>1. Pictures # {}
        BY WaitsAssumption
      <4>2. (~window.title) \in BOOLEAN /\ (~window.readable) \in BOOLEAN
        OBVIOUS
      <4>. QED
        BY <2>1, <4>1, <4>2, Zenon DEF WindowChanges
    <3>. QED
      BY <3>1, WaitsShape DEF Looks
  <2>. QED
    BY <2>1, WaitsShape DEF SnapshotArrives, WaitTimePasses
<1>3. snapshot' \in Looks
  BY WaitsShape DEF WindowChanges, SnapshotArrives, WaitTimePasses
<1>4. wtime' \in 0..MaxTime
  BY WaitsShape DEF WindowChanges, SnapshotArrives, WaitTimePasses
<1>. QED
  BY <1>0, <1>1, <1>2, <1>3, <1>4, WaitsShape DEF WaitsInv

\* A wait begins, or is refused.
LEMMA WaitBegins ==
  ASSUME WaitsInv, NEW p \in Platforms, NEW c \in Conditions, NEW loose \in BOOLEAN, NEW permitted \in BOOLEAN,
         Begin(p, c, loose, permitted)
  PROVE  WaitsInv'
<1>. DEFINE n == [NotWaiting EXCEPT !.platform = p, !.cond = c, !.loose = loose, !.deadline = wtime + Timeout, !.nextAt = wtime]
<1>1. /\ waiter' = [n EXCEPT !.pc = "waiting"] \/ waiter' = [n EXCEPT !.pc = "over", !.answer = "refused"]
      /\ snapshot' = window /\ window' = window /\ wtime' = wtime /\ truth' = truth
  BY DEF Begin
<1>2. wtime + Timeout \in Nat /\ wtime \in Nat /\ 0 \in 0..MaxTime
  BY WaitsShape
<1>3. NotWaiting \in WaiterRecords /\ NotWaiting.sampled = FALSE /\ NotWaiting.answer = "none"
  BY <1>2 DEF NotWaiting, WaiterRecords, WaitAnswers, Platforms, Conditions
<1>4. n \in WaiterRecords
  BY <1>2, <1>3 DEF WaiterRecords
<1>5. n.sampled = FALSE /\ n.answer = "none"
  BY <1>3 DEF WaiterRecords
<1>. HIDE DEF n
<1>6. CASE waiter' = [n EXCEPT !.pc = "waiting"]
  <2>1. waiter' \in WaiterRecords
    BY <1>4, <1>6 DEF WaiterRecords
  <2>2. waiter'.sampled = FALSE /\ waiter'.answer = "none"
    BY <1>4, <1>5, <1>6 DEF WaiterRecords
  <2>. QED
    BY <1>1, <2>1, <2>2, WaitsShape DEF WaitsInv, SamplesRule, AnswerIsTrue, TimeoutIsFair
<1>7. CASE waiter' = [n EXCEPT !.pc = "over", !.answer = "refused"]
  <2>1. waiter' \in WaiterRecords
    BY <1>4, <1>7 DEF WaiterRecords, WaitAnswers
  <2>2. waiter'.pc = "over" /\ waiter'.answer = "refused"
    BY <1>4, <1>7 DEF WaiterRecords
  <2>. QED
    BY <1>1, <2>1, <2>2, WaitsShape DEF WaitsInv, SamplesRule, AnswerIsTrue, TimeoutIsFair
<1>. QED
  BY <1>1, <1>6, <1>7

\* A look at the window shows the window, as far as the platform can tell.
LEMMA LookShows ==
  ASSUME WaitsInv
  PROVE  /\ waiter.platform = "macos" => Look(waiter) = LookMac(waiter)
         /\ waiter.platform = "kwin" => Look(waiter) = LookKWin(waiter)
         /\ waiter.platform = "windows" => Look(waiter) = LookWindows(waiter)
         /\ Look(waiter).pic \in Nat
         /\ waiter.platform = "macos" => Look(waiter).pic = window.pic
<1>1. waiter.platform \in Platforms
  BY WaitsShape DEF WaiterRecords
<1>2. /\ waiter.platform = "macos" => Look(waiter) = LookMac(waiter)
      /\ waiter.platform = "kwin" => Look(waiter) = LookKWin(waiter)
      /\ waiter.platform = "windows" => Look(waiter) = LookWindows(waiter)
  BY <1>1 DEF Look, Platforms
<1>3. LookMac(waiter).pic = window.pic /\ LookKWin(waiter).pic = 0 /\ LookWindows(waiter).pic = 0
  BY DEF LookMac, LookKWin, LookWindows
<1>. QED
  BY <1>1, <1>2, <1>3, WaitsShape DEF Platforms

\* The wait after the bookkeeping of a sample.
Judged == IF waiter.cond \in Pixels THEN Compare(waiter, Look(waiter).pic) ELSE waiter

LEMMA JudgedShape ==
  ASSUME WaitsInv
  PROVE  /\ Judged \in WaiterRecords /\ Judged.pc = waiter.pc /\ Judged.platform = waiter.platform /\ Judged.cond = waiter.cond
         /\ Judged.loose = waiter.loose /\ Judged.deadline = waiter.deadline /\ Judged.answer = waiter.answer
         /\ waiter.sampled => Judged.first = waiter.first
         /\ waiter.cond \in Pixels => Judged.last = Look(waiter).pic
         /\ waiter.cond \in Pixels => Judged.changedAt = IF waiter.sampled /\ Diff(Look(waiter).pic, waiter.last) <= Threshold
                                                         THEN waiter.changedAt ELSE wtime
<1>. DEFINE pic == Look(waiter).pic
            a == [waiter EXCEPT !.sampled = TRUE, !.first = pic, !.last = pic, !.changedAt = wtime]
            e == IF Diff(pic, waiter.last) > Threshold THEN wtime ELSE waiter.changedAt
            b == [waiter EXCEPT !.last = pic, !.changedAt = e]
<1>1. pic \in Nat
  BY LookShows
<1>2. waiter.changedAt \in 0..MaxTime /\ waiter.sampled \in BOOLEAN
  BY WaitsShape DEF WaiterRecords
<1>3. Diff(pic, waiter.last) \in Nat
  BY <1>1, WaitsShape DEF Diff
<1>4. e \in 0..MaxTime /\ e = IF Diff(pic, waiter.last) <= Threshold THEN waiter.changedAt ELSE wtime
  BY <1>2, <1>3, WaitsShape
<1>5. Compare(waiter, pic) = IF ~waiter.sampled THEN a ELSE b
  BY DEF Compare
<1>. HIDE DEF pic, e
<1>6. a \in WaiterRecords /\ b \in WaiterRecords
  BY <1>1, <1>4, WaitsShape DEF WaiterRecords
<1>7. /\ a.pc = waiter.pc /\ a.platform = waiter.platform /\ a.cond = waiter.cond
      /\ a.loose = waiter.loose /\ a.deadline = waiter.deadline /\ a.answer = waiter.answer
      /\ a.last = pic /\ a.changedAt = wtime
  BY WaitsShape DEF WaiterRecords
<1>8. /\ b.pc = waiter.pc /\ b.platform = waiter.platform /\ b.cond = waiter.cond
      /\ b.loose = waiter.loose /\ b.deadline = waiter.deadline /\ b.answer = waiter.answer
      /\ b.last = pic /\ b.changedAt = e /\ b.first = waiter.first
  BY WaitsShape DEF WaiterRecords
<1>. HIDE DEF a, b
<1>9. pic = Look(waiter).pic
  BY DEF pic
<1>10. CASE waiter.cond \notin Pixels
  <2>1. Judged = waiter
    BY <1>10 DEF Judged
  <2>. QED
    BY <1>10, <2>1, WaitsShape
<1>11. CASE waiter.cond \in Pixels /\ ~waiter.sampled
  <2>1. Judged = a
    BY <1>5, <1>9, <1>11 DEF Judged
  <2>. QED
    BY <1>6, <1>7, <1>9, <1>11, <2>1
<1>12. CASE waiter.cond \in Pixels /\ waiter.sampled
  <2>1. Judged = b
    BY <1>5, <1>9, <1>12 DEF Judged
  <2>. QED
    BY <1>4, <1>6, <1>8, <1>9, <1>12, <2>1
<1>. QED
  BY <1>10, <1>11, <1>12

\* After a sample a `stable` wait on macOS has the truth of it.
LEMMA JudgedTruly ==
  ASSUME WaitsInv, waiter.pc = "waiting", waiter.cond = "stable", waiter.platform = "macos",
         truth' = [seen |-> IF waiter.platform = "kwin" THEN snapshot ELSE window,
                   quietSince |-> IF waiter.sampled /\ Diff(window.pic, truth.seen.pic) <= Threshold
                                  THEN truth.quietSince ELSE wtime]
  PROVE  Judged.changedAt = truth'.quietSince /\ Judged.last = truth'.seen.pic
<1>1. Look(waiter).pic = window.pic /\ "stable" \in Pixels
  BY LookShows DEF Pixels
<1>2. waiter.sampled => waiter.changedAt = truth.quietSince /\ waiter.last = truth.seen.pic
  BY WaitsShape DEF SamplesRule
<1>3. truth'.seen = window /\ truth'.quietSince = IF waiter.sampled /\ Diff(window.pic, truth.seen.pic) <= Threshold
                                                  THEN truth.quietSince ELSE wtime
  OBVIOUS
<1>4. Judged.last = window.pic /\ Judged.changedAt = IF waiter.sampled /\ Diff(window.pic, waiter.last) <= Threshold
                                                     THEN waiter.changedAt ELSE wtime
  BY <1>1, JudgedShape
<1>. QED
  BY <1>2, <1>3, <1>4

\* What each platform's look has of the window.
LEMMA LookFields ==
  /\ \A w : LookMac(w).there = window.there /\ LookMac(w).title = (window.there /\ window.title)
  /\ \A w : /\ LookKWin(w).there = (snapshot.there /\ snapshot.readable)
            /\ LookKWin(w).title = (snapshot.there /\ snapshot.readable /\ snapshot.title)
  /\ \A w : /\ LookWindows(w).there = (window.there /\ window.readable)
            /\ LookWindows(w).title = IF window.there /\ window.readable THEN window.title ELSE w.loose
<1>1. \A w : LookMac(w).there = window.there /\ LookMac(w).title = (window.there /\ window.title)
  BY DEF LookMac
<1>2. \A w : /\ LookKWin(w).there = (snapshot.there /\ snapshot.readable)
            /\ LookKWin(w).title = (snapshot.there /\ snapshot.readable /\ snapshot.title)
  BY DEF LookKWin
<1>3. \A w : /\ LookWindows(w).there = (window.there /\ window.readable)
            /\ LookWindows(w).title = IF window.there /\ window.readable THEN window.title ELSE w.loose
  BY DEF LookWindows
<1>. QED
  BY <1>1, <1>2, <1>3

\* What a wait may answer after a look at the window.
LEMMA AnswerOk ==
  ASSUME WaitsInv, waiter.pc = "waiting", Sample, waiter' = Answered(Judged, "ok"), Matched(waiter, Look(waiter))
  PROVE  AnswerIsTrue'
<1>. DEFINE t == [seen |-> IF waiter.platform = "kwin" THEN snapshot ELSE window,
                  quietSince |-> IF waiter.sampled /\ Diff(window.pic, truth.seen.pic) <= Threshold
                                 THEN truth.quietSince ELSE wtime]
<1>1. truth' = t
  BY DEF Sample
<1>2. /\ waiter'.cond = waiter.cond /\ waiter'.platform = waiter.platform /\ waiter'.loose = waiter.loose
      /\ waiter'.at = wtime /\ waiter'.first = Judged.first
  BY JudgedShape DEF Answered, WaiterRecords
<1>3. truth'.seen = IF waiter.platform = "kwin" THEN snapshot ELSE window
  BY <1>1
<1>4. waiter.cond \in Conditions /\ waiter.platform \in Platforms
  BY WaitsShape DEF WaiterRecords
<1>5. CASE waiter.cond = "exists"
  <2>1. Look(waiter).there
    BY <1>5 DEF Matched
  <2>2. truth'.seen.there
    <3>1. CASE waiter.platform = "macos"
      <4>1. truth'.seen = window /\ Look(waiter) = LookMac(waiter)
        BY <1>3, <3>1, LookShows
      <4>. QED
        BY <2>1, <3>1, <4>1, LookFields, Zenon
    <3>2. CASE waiter.platform = "kwin"
      <4>1. truth'.seen = snapshot /\ Look(waiter) = LookKWin(waiter) /\ "kwin" # "macos"
        BY <1>3, <3>2, LookShows
      <4>. QED
        BY <2>1, <3>2, <4>1, LookFields, Zenon
    <3>3. CASE waiter.platform = "windows"
      <4>1. truth'.seen = window /\ Look(waiter) = LookWindows(waiter) /\ "windows" # "macos"
        BY <1>3, <3>3, LookShows
      <4>. QED
        BY <2>1, <3>3, <4>1, LookFields, Zenon
    <3>. QED
      BY <1>4, <3>1, <3>2, <3>3 DEF Platforms
  <2>. QED
    BY <1>2, <1>5, <2>2 DEF AnswerIsTrue
<1>6. CASE waiter.cond = "gone"
  <2>1. ~Look(waiter).there
    BY <1>6 DEF Matched
  <2>2. ~truth'.seen.there \/ (waiter.platform # "macos" /\ ~truth'.seen.readable)
    <3>1. CASE waiter.platform = "macos"
      <4>1. truth'.seen = window /\ Look(waiter) = LookMac(waiter)
        BY <1>3, <3>1, LookShows
      <4>. QED
        BY <2>1, <3>1, <4>1, LookFields, Zenon
    <3>2. CASE waiter.platform = "kwin"
      <4>1. truth'.seen = snapshot /\ Look(waiter) = LookKWin(waiter) /\ "kwin" # "macos"
        BY <1>3, <3>2, LookShows
      <4>. QED
        BY <2>1, <3>2, <4>1, LookFields, Zenon
    <3>3. CASE waiter.platform = "windows"
      <4>1. truth'.seen = window /\ Look(waiter) = LookWindows(waiter) /\ "windows" # "macos"
        BY <1>3, <3>3, LookShows
      <4>. QED
        BY <2>1, <3>3, <4>1, LookFields, Zenon
    <3>. QED
      BY <1>4, <3>1, <3>2, <3>3 DEF Platforms
  <2>. QED
    BY <1>2, <1>6, <2>2 DEF AnswerIsTrue
<1>7. CASE waiter.cond = "title_matches"
  <2>1. Look(waiter).title
    BY <1>7 DEF Matched
  <2>2. (truth'.seen.there /\ truth'.seen.title) \/ (waiter.platform = "windows" /\ waiter.loose)
    <3>1. CASE waiter.platform = "macos"
      <4>1. truth'.seen = window /\ Look(waiter) = LookMac(waiter)
        BY <1>3, <3>1, LookShows
      <4>. QED
        BY <2>1, <3>1, <4>1, LookFields, Zenon
    <3>2. CASE waiter.platform = "kwin"
      <4>1. truth'.seen = snapshot /\ Look(waiter) = LookKWin(waiter) /\ "kwin" # "macos"
        BY <1>3, <3>2, LookShows
      <4>. QED
        BY <2>1, <3>2, <4>1, LookFields, Zenon
    <3>3. CASE waiter.platform = "windows"
      <4>1. truth'.seen = window /\ Look(waiter) = LookWindows(waiter) /\ "windows" # "macos"
        BY <1>3, <3>3, LookShows
      <4>. QED
        BY <2>1, <3>3, <4>1, LookFields, Zenon
    <3>. QED
      BY <1>4, <3>1, <3>2, <3>3 DEF Platforms
  <2>. QED
    BY <1>2, <1>7, <2>2 DEF AnswerIsTrue
<1>8. CASE waiter.cond = "stable"
  <2>1. waiter.platform = "macos" /\ waiter.sampled /\ wtime - Compare(waiter, Look(waiter).pic).changedAt >= QuietWindow
    BY <1>8 DEF Matched
  <2>2. Judged = Compare(waiter, Look(waiter).pic)
    BY <1>8 DEF Judged, Pixels
  <2>3. Judged.changedAt = truth'.quietSince
    BY <1>1, <1>8, <2>1, JudgedTruly
  <2>. QED
    BY <1>2, <1>8, <2>1, <2>2, <2>3 DEF AnswerIsTrue
<1>9. CASE waiter.cond = "dirty"
  <2>1. waiter.platform = "macos" /\ waiter.sampled /\ Diff(Look(waiter).pic, waiter.first) > Threshold
    BY <1>9 DEF Matched
  <2>2. truth'.seen.pic = Look(waiter).pic /\ waiter'.first = waiter.first
    BY <1>2, <1>3, <2>1, LookShows, JudgedShape
  <2>. QED
    BY <1>2, <1>9, <2>1, <2>2 DEF AnswerIsTrue
<1>. QED
  BY <1>4, <1>5, <1>6, <1>7, <1>8, <1>9 DEF Conditions

LEMMA TimeoutOk ==
  ASSUME WaitsInv, waiter.pc = "waiting", Sample, waiter' = Answered(Judged, "timeout"),
         ~Matched(waiter, Look(waiter)), wtime >= waiter.deadline
  PROVE  TimeoutIsFair'
<1>1. /\ waiter'.cond = waiter.cond /\ waiter'.platform = waiter.platform /\ waiter'.deadline = waiter.deadline
      /\ waiter'.at = wtime
  BY JudgedShape DEF Answered, WaiterRecords
<1>2. ASSUME waiter.cond = "stable", waiter.platform = "macos"
      PROVE  wtime - truth'.quietSince < QuietWindow \/ wtime = truth'.quietSince
  <2>1. truth'.quietSince = IF waiter.sampled /\ Diff(window.pic, truth.seen.pic) <= Threshold
                            THEN truth.quietSince ELSE wtime
    BY DEF Sample
  <2>2. Judged.changedAt = truth'.quietSince
    BY <1>2, JudgedTruly DEF Sample
  <2>3. Judged = Compare(waiter, Look(waiter).pic)
    BY <1>2 DEF Judged, Pixels
  <2>4. ~waiter.sampled \/ ~(wtime - Compare(waiter, Look(waiter).pic).changedAt >= QuietWindow)
    BY <1>2 DEF Matched
  <2>5. truth'.quietSince \in Nat
    BY <2>1, WaitsShape
  <2>. QED
    BY <2>1, <2>2, <2>3, <2>4, <2>5, WaitsShape
<1>. QED
  BY <1>1, <1>2 DEF TimeoutIsFair

\* The wait is over.
LEMMA AnsweredShape ==
  ASSUME WaitsInv, NEW w \in WaiterRecords, NEW a \in WaitAnswers, NEW x, x = Answered(w, a)
  PROVE  x \in WaiterRecords /\ x.pc = "over" /\ x.answer = a
BY WaitsShape DEF Answered, WaiterRecords

LEMMA WaitSamples ==
  ASSUME WaitsInv, Sample
  PROVE  WaitsInv'
<1>1. /\ waiter.pc = "waiting" /\ window' = window /\ snapshot' = snapshot /\ wtime' = wtime
      /\ waiter' = IF ~Look(waiter).ok THEN Answered(waiter, "failed")
                   ELSE IF Matched(waiter, Look(waiter)) THEN Answered(Judged, "ok")
                   ELSE IF wtime >= waiter.deadline THEN Answered(Judged, "timeout")
                   ELSE [Judged EXCEPT !.nextAt = wtime + 1]
  BY DEF Sample, Judged
<1>2. truth' = [seen |-> IF waiter.platform = "kwin" THEN snapshot ELSE window,
                quietSince |-> IF waiter.sampled /\ Diff(window.pic, truth.seen.pic) <= Threshold
                               THEN truth.quietSince ELSE wtime]
  BY DEF Sample
<1>3. truth' \in TruthRecords
  <2>1. truth'.seen \in Looks /\ truth'.quietSince \in 0..MaxTime
    BY <1>2, WaitsShape
  <2>. QED
    BY <1>2, <2>1 DEF TruthRecords
<1>4. /\ "ok" \in WaitAnswers /\ "timeout" \in WaitAnswers /\ "failed" \in WaitAnswers
  BY DEF WaitAnswers
<1>5. CASE waiter' = Answered(waiter, "failed")
  <2>1. waiter' \in WaiterRecords /\ waiter'.pc = "over" /\ waiter'.answer = "failed"
    BY <1>4, <1>5, WaitsShape, AnsweredShape
  <2>. QED
    BY <1>1, <1>3, <2>1, WaitsShape DEF WaitsInv, SamplesRule, AnswerIsTrue, TimeoutIsFair
<1>6. CASE waiter' = Answered(Judged, "ok") /\ Matched(waiter, Look(waiter))
  <2>1. waiter' \in WaiterRecords /\ waiter'.pc = "over" /\ waiter'.answer = "ok"
    BY <1>4, <1>6, JudgedShape, AnsweredShape
  <2>2. AnswerIsTrue'
    BY <1>1, <1>6, AnswerOk
  <2>3. TimeoutIsFair'
    BY <2>1 DEF TimeoutIsFair
  <2>. QED
    BY <1>1, <1>3, <2>1, <2>2, <2>3, WaitsShape DEF WaitsInv, SamplesRule
<1>7. CASE waiter' = Answered(Judged, "timeout") /\ ~Matched(waiter, Look(waiter)) /\ wtime >= waiter.deadline
  <2>1. waiter' \in WaiterRecords /\ waiter'.pc = "over" /\ waiter'.answer = "timeout"
    BY <1>4, <1>7, JudgedShape, AnsweredShape
  <2>2. TimeoutIsFair'
    BY <1>1, <1>7, TimeoutOk
  <2>3. AnswerIsTrue'
    BY <2>1 DEF AnswerIsTrue
  <2>. QED
    BY <1>1, <1>3, <2>1, <2>2, <2>3, WaitsShape DEF WaitsInv, SamplesRule
<1>8. CASE waiter' = [Judged EXCEPT !.nextAt = wtime + 1]
  <2>1. wtime + 1 \in Nat
    BY WaitsShape
  <2>2. waiter' \in WaiterRecords
    BY <1>8, <2>1, JudgedShape DEF WaiterRecords
  <2>3. /\ waiter'.pc = waiter.pc /\ waiter'.answer = waiter.answer /\ waiter'.cond = waiter.cond
        /\ waiter'.platform = waiter.platform /\ waiter'.changedAt = Judged.changedAt /\ waiter'.last = Judged.last
    BY <1>8, JudgedShape DEF WaiterRecords
  <2>4. waiter.answer = "none"
    BY <1>1, WaitsShape DEF SamplesRule
  <2>5. waiter.cond = "stable" /\ waiter.platform = "macos" =>
          Judged.changedAt = truth'.quietSince /\ Judged.last = truth'.seen.pic
    BY <1>1, <1>2, JudgedTruly
  <2>6. SamplesRule(waiter', truth')
    BY <2>3, <2>4, <2>5 DEF SamplesRule
  <2>. QED
    BY <1>1, <1>3, <2>2, <2>3, <2>4, <2>6, WaitsShape DEF WaitsInv, AnswerIsTrue, TimeoutIsFair
<1>. QED
  BY <1>1, <1>5, <1>6, <1>7, <1>8

LEMMA WaitsKeep ==
  ASSUME WaitsInv, WaitsNext \/ UNCHANGED waitVars
  PROVE  WaitsInv'
<1>1. CASE WaitsNext
  <2>1. CASE WindowChanges \/ SnapshotArrives \/ WaitTimePasses
    BY <2>1, DesktopMoves
  <2>2. CASE Sample
    BY <2>2, WaitSamples
  <2>3. CASE \E p \in Platforms, c \in Conditions, loose, permitted \in BOOLEAN : Begin(p, c, loose, permitted)
    BY <2>3, WaitBegins
  <2>. QED
    BY <1>1, <2>1, <2>2, <2>3 DEF WaitsNext
<1>2. CASE UNCHANGED waitVars
  BY <1>2 DEF WaitsInv, waitVars, AnswerIsTrue, TimeoutIsFair
<1>. QED
  BY <1>1, <1>2

LEMMA WaitsPromise ==
  ASSUME WaitsInv
  PROVE  WaitsTypeOK /\ AnswerIsTrue /\ TimeoutIsFair
<1>1. WaitsTypeOK
  BY WaitsShape DEF WaitsTypeOK, WaiterRecords, WaitAnswers
<1>. QED
  BY <1>1, WaitsShape
-----------------------------------------------------------------------------
(* Recording: how far the recorder has read, and what it has written.      *)

RecorderPCs == {"create", "lookup", "open", "connect", "acquire", "wait", "finish", "close", "over"}
RecorderRecords == [bestEffort : BOOLEAN, pc : RecorderPCs, after : Nat, first : Nat, last : Int, frames : Nat,
                    padded : 0..1, lapped : Nat, deadline : Nat, result : {"none", "ok", "error"},
                    why : {"none", "create", "refused", "lookup", "close"}]
TrackRecords == [taken : Seq(Nat), ended : BOOLEAN]

\* What was read is in the movie or was lapped; a movie is finished when it is long enough; and the session
\* is one that the recorder will close, or a reason says why not.
ReadRule(r, t) ==
  /\ r.after <= Len(t.taken) /\ Len(t.taken) <= MaxFrames
  /\ r.frames + r.lapped = r.after /\ (~r.bestEffort => r.lapped = 0)
  /\ r.pc \notin {"close", "over"} => r.result = "none"
  /\ r.pc = "finish" \/ r.result = "ok" => r.last >= RecordFor
DeadlineRule(r, c) ==
  /\ r.pc \in {"create", "lookup", "open", "connect"} => r.deadline = 0
  /\ r.deadline <= RecordFor + 1
  /\ IF r.deadline = 0 THEN c <= 1 ELSE c <= r.deadline + 1
SessionRule(r, s) ==
  /\ r.pc = "create" => s = "none"
  /\ r.pc = "over" /\ s = "open" => r.why \in {"create", "lookup", "close"}

RecorderInv ==
  /\ rec \in RecorderRecords /\ track \in TrackRecords /\ session \in {"none", "open", "closed"} /\ rclock \in Nat
  /\ ReadRule(rec, track) /\ DeadlineRule(rec, rclock) /\ SessionRule(rec, session)

LEMMA RecorderBegins ==
  ASSUME RecorderInit \/ RecorderRest
  PROVE  RecorderInv
<1>1. PICK b \in BOOLEAN, p \in {"create", "over"} : rec = [NewRecorder(b) EXCEPT !.pc = p]
  <2>1. \A b \in BOOLEAN : NewRecorder(b) = [NewRecorder(b) EXCEPT !.pc = "create"]
    BY DEF NewRecorder
  <2>. QED
    BY <2>1 DEF RecorderInit, RecorderRest
<1>2. track = [taken |-> <<>>, ended |-> FALSE] /\ session = "none" /\ rclock = 0
  BY DEF RecorderInit, RecorderRest
<1>3. /\ rec \in RecorderRecords /\ rec.after = 0 /\ rec.frames = 0 /\ rec.lapped = 0 /\ rec.deadline = 0 /\ rec.result = "none"
      /\ rec.pc \in {"create", "over"}
  BY <1>1 DEF NewRecorder, RecorderRecords, RecorderPCs
<1>4. track \in TrackRecords /\ Len(track.taken) = 0
  BY <1>2 DEF TrackRecords
<1>5. MaxFrames \in Nat /\ RecordFor \in Nat
  BY RecorderAssumption
<1>. QED
  BY <1>2, <1>3, <1>4, <1>5 DEF RecorderInv, ReadRule, DeadlineRule, SessionRule

\* What is known before a step.
LEMMA RecorderShape ==
  ASSUME RecorderInv
  PROVE  /\ rec \in RecorderRecords /\ track \in TrackRecords /\ session \in {"none", "open", "closed"} /\ rclock \in Nat
         /\ ReadRule(rec, track) /\ DeadlineRule(rec, rclock) /\ SessionRule(rec, session)
         /\ Retained \in Nat /\ RecordFor \in Nat /\ MaxFrames \in Nat /\ Retained > 0 /\ RecordFor > 0
         /\ Len(track.taken) \in Nat /\ rec.after \in Nat /\ rec.frames \in Nat /\ rec.lapped \in Nat /\ rec.last \in Int
         /\ rec.deadline \in Nat /\ rec.pc \in RecorderPCs
BY RecorderAssumption DEF RecorderInv, RecorderRecords, TrackRecords

\* The recording goes on, fails, or is over.
LEMMA RecorderGoes ==
  ASSUME RecorderInv, NEW p \in RecorderPCs, NEW x, x = [rec EXCEPT !.pc = p]
  PROVE  /\ x \in RecorderRecords /\ x.pc = p /\ x.after = rec.after /\ x.frames = rec.frames /\ x.lapped = rec.lapped
         /\ x.bestEffort = rec.bestEffort /\ x.result = rec.result /\ x.last = rec.last /\ x.deadline = rec.deadline
BY RecorderShape DEF RecorderRecords

LEMMA RecorderStops ==
  ASSUME RecorderInv, NEW x,
         \/ x = RecordFailed
         \/ \E r \in {"none", "ok", "error"}, w \in {"none", "create", "refused", "lookup", "close"} : x = RecordOver(r, w)
  PROVE  /\ x \in RecorderRecords /\ x.after = rec.after /\ x.frames = rec.frames /\ x.lapped = rec.lapped
         /\ x.bestEffort = rec.bestEffort /\ x.last = rec.last /\ x.deadline = rec.deadline
         /\ x = RecordFailed => x.pc = "close" /\ x.result = "error"
         /\ \A r, w : x = RecordOver(r, w) => x.pc = "over" /\ x.result = r /\ x.why = w
<1>1. CASE x = RecordFailed
  <2>1. x \in RecorderRecords /\ x.pc = "close"
    BY <1>1, RecorderShape DEF RecorderRecords, RecorderPCs, RecordFailed
  <2>2. /\ x.after = rec.after /\ x.frames = rec.frames /\ x.lapped = rec.lapped /\ x.result = "error"
        /\ x.bestEffort = rec.bestEffort /\ x.last = rec.last /\ x.deadline = rec.deadline
    BY <1>1, RecorderShape DEF RecorderRecords, RecordFailed
  <2>3. \A r, w : RecordOver(r, w).pc = "over"
    BY RecorderShape DEF RecorderRecords, RecordOver
  <2>. QED
    BY <2>1, <2>2, <2>3
<1>2. ASSUME NEW r \in {"none", "ok", "error"}, NEW w \in {"none", "create", "refused", "lookup", "close"}, x = RecordOver(r, w)
      PROVE  /\ x \in RecorderRecords /\ x.after = rec.after /\ x.frames = rec.frames /\ x.lapped = rec.lapped
             /\ x.bestEffort = rec.bestEffort /\ x.last = rec.last /\ x.deadline = rec.deadline
             /\ x.pc = "over"
  BY <1>2, RecorderShape DEF RecorderRecords, RecorderPCs, RecordOver
<1>3. \A r, w : x = RecordOver(r, w) => x.pc = "over" /\ x.result = r /\ x.why = w
  BY RecorderShape DEF RecorderRecords, RecordOver
<1>4. (\E r, w : x = RecordOver(r, w)) => x # RecordFailed
  <2>1. RecordFailed.pc = "close"
    BY RecorderShape DEF RecorderRecords, RecordFailed
  <2>. QED
    BY <1>3, <2>1
<1>. QED
  BY <1>1, <1>2, <1>3, <1>4

\* Before the first frame: the session is made, looked up, the file opened, the consumer connected.
LEMMA OpeningTheMovie ==
  ASSUME RecorderInv, BeginSession \/ LookUpSession \/ OpenMovie \/ ConnectConsumer
  PROVE  RecorderInv'
<1>0. /\ rec.pc \in {"create", "lookup", "open", "connect"} /\ track' = track /\ rclock' = rclock /\ rec.deadline = 0
      /\ rec.result = "none" /\ rclock <= 1
  BY RecorderShape DEF BeginSession, LookUpSession, OpenMovie, ConnectConsumer, ReadRule, DeadlineRule
<1>1. ASSUME NEW p \in {"lookup", "open", "connect"}, rec' = [rec EXCEPT !.pc = p], session' \in {"none", "open", "closed"}
      PROVE  RecorderInv'
  <2>1. p \in RecorderPCs
    BY DEF RecorderPCs
  <2>2. rec' \in RecorderRecords /\ rec'.pc = p /\ rec'.after = rec.after /\ rec'.frames = rec.frames /\ rec'.lapped = rec.lapped
    BY <1>1, <2>1, RecorderGoes
  <2>3. rec'.bestEffort = rec.bestEffort /\ rec'.result = rec.result /\ rec'.last = rec.last /\ rec'.deadline = rec.deadline
    BY <1>1, <2>1, RecorderGoes
  <2>. QED
    BY <1>0, <1>1, <2>2, <2>3, RecorderShape DEF RecorderInv, ReadRule, DeadlineRule, SessionRule
<1>2. ASSUME NEW w \in {"create", "refused", "lookup"}, rec' = RecordOver("error", w), session' \in {"none", "open", "closed"},
             session' = "open" => w # "refused"
      PROVE  RecorderInv'
  <2>1. /\ rec' \in RecorderRecords /\ rec'.after = rec.after /\ rec'.frames = rec.frames /\ rec'.lapped = rec.lapped
        /\ rec'.bestEffort = rec.bestEffort /\ rec'.last = rec.last /\ rec'.deadline = rec.deadline
        /\ rec'.pc = "over" /\ rec'.result = "error" /\ rec'.why = w
    BY <1>2, RecorderStops
  <2>. QED
    BY <1>0, <1>2, <2>1, RecorderShape DEF RecorderInv, ReadRule, DeadlineRule, SessionRule
<1>3. ASSUME rec' = RecordFailed, session' = session
      PROVE  RecorderInv'
  <2>1. /\ rec' \in RecorderRecords /\ rec'.after = rec.after /\ rec'.frames = rec.frames /\ rec'.lapped = rec.lapped
        /\ rec'.bestEffort = rec.bestEffort /\ rec'.last = rec.last /\ rec'.deadline = rec.deadline
        /\ rec'.pc = "close" /\ rec'.result = "error"
    BY <1>3, RecorderStops
  <2>. QED
    BY <1>0, <1>3, <2>1, RecorderShape DEF RecorderInv, ReadRule, DeadlineRule, SessionRule
<1>4. ASSUME rec' = [rec EXCEPT !.pc = "acquire", !.deadline = rclock + RecordFor], session' = session
      PROVE  RecorderInv'
  <2>1. rclock + RecordFor \in Nat
    BY RecorderShape
  <2>2. rec' \in RecorderRecords
    BY <1>4, <2>1, RecorderShape DEF RecorderRecords, RecorderPCs
  <2>3. /\ rec'.pc = "acquire" /\ rec'.after = rec.after /\ rec'.frames = rec.frames /\ rec'.lapped = rec.lapped
        /\ rec'.bestEffort = rec.bestEffort /\ rec'.last = rec.last /\ rec'.deadline = rclock + RecordFor /\ rec'.result = rec.result
    BY <1>4, RecorderShape DEF RecorderRecords
  <2>. QED
    BY <1>0, <1>4, <2>2, <2>3, RecorderShape DEF RecorderInv, ReadRule, DeadlineRule, SessionRule
<1>5. CASE BeginSession
  <2>1. session = "none"
    BY <1>5, RecorderShape DEF BeginSession, SessionRule
  <2>. QED
    BY <1>1, <1>2, <1>5, <2>1 DEF BeginSession
<1>6. CASE LookUpSession
  BY <1>1, <1>2, <1>6, RecorderShape DEF LookUpSession
<1>7. CASE OpenMovie
  BY <1>1, <1>3, <1>7, RecorderShape DEF OpenMovie
<1>8. CASE ConnectConsumer
  BY <1>3, <1>4, <1>8 DEF ConnectConsumer
<1>. QED
  BY <1>5, <1>6, <1>7, <1>8

\* While the frames are read: one is written, some were lapped, there is none, or it ends.
LEMMA ReadingTheTrack ==
  ASSUME RecorderInv, WriteFrame \/ Lapped \/ Empty \/ TrackOver \/ WaitReady
  PROVE  RecorderInv'
<1>0. /\ rec.pc \in {"acquire", "wait"} /\ track' = track /\ rclock' = rclock /\ session' = session /\ rec.result = "none"
  BY RecorderShape DEF WriteFrame, Lapped, Empty, TrackOver, WaitReady, ReadRule
<1>1. ASSUME NEW x \in RecorderRecords, rec' = x, x.pc \in {"acquire", "wait", "finish"}, x.bestEffort = rec.bestEffort,
             x.deadline = rec.deadline, x.result = "none", x.after <= Len(track.taken), x.frames + x.lapped = x.after,
             ~x.bestEffort => x.lapped = 0, x.pc = "finish" => x.last >= RecordFor
      PROVE  RecorderInv'
  BY <1>0, <1>1, RecorderShape DEF RecorderInv, ReadRule, DeadlineRule, SessionRule
<1>2. ASSUME rec' = RecordFailed
      PROVE  RecorderInv'
  <2>1. /\ rec' \in RecorderRecords /\ rec'.after = rec.after /\ rec'.frames = rec.frames /\ rec'.lapped = rec.lapped
        /\ rec'.bestEffort = rec.bestEffort /\ rec'.last = rec.last /\ rec'.deadline = rec.deadline
        /\ rec'.pc = "close" /\ rec'.result = "error"
    BY <1>2, RecorderStops
  <2>. QED
    BY <1>0, <2>1, RecorderShape DEF RecorderInv, ReadRule, DeadlineRule, SessionRule
<1>3. ASSUME NEW p \in {"acquire", "wait", "finish"}, rec' = [rec EXCEPT !.pc = p], p = "finish" => rec.last >= RecordFor
      PROVE  RecorderInv'
  <2>1. p \in RecorderPCs
    BY DEF RecorderPCs
  <2>2. rec' \in RecorderRecords /\ rec'.pc = p /\ rec'.after = rec.after /\ rec'.frames = rec.frames /\ rec'.lapped = rec.lapped
    BY <1>3, <2>1, RecorderGoes
  <2>3. rec'.bestEffort = rec.bestEffort /\ rec'.result = rec.result /\ rec'.last = rec.last /\ rec'.deadline = rec.deadline
    BY <1>3, <2>1, RecorderGoes
  <2>. QED
    BY <1>0, <1>1, <1>3, <2>2, <2>3, RecorderShape DEF ReadRule
<1>4. CASE WriteFrame
  <2>. DEFINE cursor == rec.after + 1
              first == IF rec.frames = 0 THEN track.taken[cursor] ELSE rec.first
              pts == track.taken[cursor] - first
              r == [rec EXCEPT !.after = cursor, !.first = first, !.last = pts, !.frames = @ + 1]
              f == [r EXCEPT !.pc = "finish"]
  <2>1. (rec' = IF pts >= RecordFor THEN f ELSE r) \/ rec' = RecordFailed
    BY <1>4 DEF WriteFrame
  <2>2. rec.after < Len(track.taken) /\ rec.pc = "acquire"
    BY <1>4 DEF WriteFrame, Newest
  <2>3. cursor \in 1..Len(track.taken) /\ cursor \in Nat /\ rec.frames + 1 \in Nat
    BY <2>2, RecorderShape
  <2>4. track.taken[cursor] \in Nat
    <3>1. track.taken \in Seq(Nat)
      BY RecorderShape DEF TrackRecords
    <3>2. \A q \in Seq(Nat) : \A i \in 1..Len(q) : q[i] \in Nat
      OBVIOUS
    <3>. HIDE DEF cursor
    <3>. QED
      BY <2>3, <3>1, <3>2, Zenon
  <2>5. first \in Nat /\ pts \in Int
    BY <2>4, RecorderShape DEF RecorderRecords
  <2>6. pts \in Int /\ cursor = rec.after + 1
    BY <2>5
  <2>. HIDE DEF cursor, first, pts
  <2>7. r \in RecorderRecords
    BY <2>3, <2>5, RecorderShape DEF RecorderRecords
  <2>8. /\ r.after = cursor /\ r.frames = rec.frames + 1 /\ r.lapped = rec.lapped /\ r.last = pts /\ r.pc = rec.pc
        /\ r.bestEffort = rec.bestEffort /\ r.result = rec.result /\ r.deadline = rec.deadline
    BY RecorderShape DEF RecorderRecords
  <2>. HIDE DEF r
  <2>9. f \in RecorderRecords
    BY <2>7 DEF RecorderRecords, RecorderPCs
  <2>10. /\ f.after = r.after /\ f.frames = r.frames /\ f.lapped = r.lapped /\ f.last = r.last /\ f.pc = "finish"
         /\ f.bestEffort = r.bestEffort /\ f.result = r.result /\ f.deadline = r.deadline
    BY <2>7 DEF RecorderRecords
  <2>. HIDE DEF f
  <2>11. rec.frames + 1 + rec.lapped = rec.after + 1 /\ (~rec.bestEffort => rec.lapped = 0)
    BY RecorderShape DEF ReadRule
  <2>12. r.frames + r.lapped = r.after /\ (~r.bestEffort => r.lapped = 0) /\ r.after <= Len(track.taken)
    BY <2>3, <2>6, <2>8, <2>11
  <2>13. CASE pts >= RecordFor /\ rec' = f
    <3>1. f.pc \in {"acquire", "wait", "finish"} /\ f.bestEffort = rec.bestEffort /\ f.deadline = rec.deadline /\ f.result = "none"
      BY <1>0, <2>8, <2>10
    <3>2. f.after <= Len(track.taken) /\ f.frames + f.lapped = f.after /\ (~f.bestEffort => f.lapped = 0) /\ f.last >= RecordFor
      BY <2>8, <2>10, <2>12, <2>13
    <3>. QED
      BY <1>1, <2>9, <2>13, <3>1, <3>2
  <2>14. CASE rec' = r
    <3>1. r.pc = "acquire" /\ r.bestEffort = rec.bestEffort /\ r.deadline = rec.deadline /\ r.result = "none"
      BY <1>0, <2>2, <2>8
    <3>. QED
      BY <1>1, <2>7, <2>12, <2>14, <3>1
  <2>. QED
    BY <1>2, <2>1, <2>13, <2>14
<1>5. CASE Lapped
  <2>. DEFINE o == Oldest - 1
              r == [rec EXCEPT !.lapped = @ + (o - rec.after), !.after = o]
  <2>1. rec.pc = "acquire" /\ rec.after + 1 < Oldest /\ (rec' = IF rec.bestEffort THEN r ELSE RecordFailed)
    <3>1. Oldest - 1 - rec.after = o - rec.after
      OBVIOUS
    <3>. QED
      BY <1>5, <3>1 DEF Lapped
  <2>2. o \in Nat /\ rec.after < o /\ o <= Len(track.taken)
    BY <2>1, RecorderShape DEF Oldest, Newest
  <2>. HIDE DEF o
  <2>3. rec.lapped + (o - rec.after) \in Nat
    BY <2>2, RecorderShape
  <2>4. r \in RecorderRecords
    BY <2>2, <2>3, RecorderShape DEF RecorderRecords
  <2>5. /\ r.after = o /\ r.frames = rec.frames /\ r.lapped = rec.lapped + (o - rec.after) /\ r.last = rec.last /\ r.pc = rec.pc
        /\ r.bestEffort = rec.bestEffort /\ r.result = rec.result /\ r.deadline = rec.deadline
    BY RecorderShape DEF RecorderRecords
  <2>. HIDE DEF r
  <2>6. rec.frames + rec.lapped = rec.after
    BY RecorderShape DEF ReadRule
  <2>7. r.frames + r.lapped = r.after
    BY <2>2, <2>5, <2>6, RecorderShape
  <2>8. CASE rec.bestEffort /\ rec' = r
    <3>1. r.pc = "acquire" /\ r.bestEffort = rec.bestEffort /\ r.deadline = rec.deadline /\ r.result = "none" /\ r.bestEffort
          /\ r.after <= Len(track.taken)
      BY <1>0, <2>1, <2>2, <2>5, <2>8
    <3>. QED
      BY <1>1, <2>4, <2>7, <2>8, <3>1
  <2>. QED
    BY <1>2, <2>1, <2>8
<1>6. CASE Empty
  <2>1. rec.pc = "acquire"
    BY <1>6 DEF Empty
  <2>2. \/ rec' = [rec EXCEPT !.pc = "wait"] \/ rec' = RecordFailed
        \/ rec' = [rec EXCEPT !.pc = "finish", !.last = RecordFor, !.padded = 1]
        \/ ~(rec.last < RecordFor) /\ rec' = [rec EXCEPT !.pc = "finish"]
    <3>. DEFINE a == rclock < rec.deadline
                b == rec.frames = 0
                c == rec.last < RecordFor
    <3>1. rec' = IF a THEN [rec EXCEPT !.pc = "wait"]
                 ELSE IF b THEN RecordFailed
                 ELSE IF c THEN [rec EXCEPT !.pc = "finish", !.last = RecordFor, !.padded = 1]
                 ELSE [rec EXCEPT !.pc = "finish"]
      BY <1>6 DEF Empty
    <3>. HIDE DEF a, b
    <3>. QED
      BY <3>1, Zenon
  <2>3. ASSUME rec' = [rec EXCEPT !.pc = "finish", !.last = RecordFor, !.padded = 1]
        PROVE  RecorderInv'
    <3>1. RecordFor \in Int /\ 1 \in 0..1 /\ "finish" \in RecorderPCs
      BY RecorderShape DEF RecorderPCs
    <3>2. rec' \in RecorderRecords
      BY <2>3, <3>1, RecorderShape, ZenonT(40) DEF RecorderRecords
    <3>3. /\ rec'.after = rec.after /\ rec'.frames = rec.frames /\ rec'.lapped = rec.lapped /\ rec'.last = RecordFor
          /\ rec'.pc = "finish" /\ rec'.bestEffort = rec.bestEffort /\ rec'.result = rec.result
          /\ rec'.deadline = rec.deadline
      BY <2>3, RecorderShape DEF RecorderRecords
    <3>4. /\ rec'.after <= Len(track.taken) /\ rec'.frames + rec'.lapped = rec'.after
          /\ (~rec'.bestEffort => rec'.lapped = 0) /\ rec'.last >= RecordFor /\ rec'.result = "none"
      BY <1>0, <3>3, RecorderShape DEF ReadRule
    <3>. QED
      BY <1>1, <3>2, <3>3, <3>4
  <2>4. ~(rec.last < RecordFor) => rec.last >= RecordFor
    BY RecorderShape
  <2>. QED
    BY <1>2, <1>3, <2>2, <2>3, <2>4
<1>7. CASE TrackOver
  BY <1>2, <1>7 DEF TrackOver
<1>8. CASE WaitReady
  BY <1>2, <1>3, <1>8 DEF WaitReady
<1>. QED
  BY <1>4, <1>5, <1>6, <1>7, <1>8

\* The end: the file is finished and the session closed.
LEMMA ClosingTheMovie ==
  ASSUME RecorderInv, FinishMovie \/ FinishFails \/ EndSession
  PROVE  RecorderInv'
<1>0. rec.pc \in {"finish", "close"} /\ track' = track /\ rclock' = rclock
  BY DEF FinishMovie, FinishFails, EndSession
<1>1. CASE FinishMovie
  <2>1. rec.pc = "finish" /\ rec' = [rec EXCEPT !.pc = "close", !.result = "ok"] /\ session' = session
    BY <1>1 DEF FinishMovie
  <2>2. rec' \in RecorderRecords
    BY <2>1, RecorderShape DEF RecorderRecords, RecorderPCs
  <2>3. /\ rec'.pc = "close" /\ rec'.after = rec.after /\ rec'.frames = rec.frames /\ rec'.lapped = rec.lapped
        /\ rec'.bestEffort = rec.bestEffort /\ rec'.last = rec.last /\ rec'.deadline = rec.deadline
    BY <2>1, RecorderShape DEF RecorderRecords
  <2>. QED
    BY <1>0, <2>1, <2>2, <2>3, RecorderShape DEF RecorderInv, ReadRule, DeadlineRule, SessionRule
<1>2. CASE FinishFails
  <2>1. rec' = RecordFailed /\ session' = session
    BY <1>2 DEF FinishFails
  <2>2. /\ rec' \in RecorderRecords /\ rec'.after = rec.after /\ rec'.frames = rec.frames /\ rec'.lapped = rec.lapped
        /\ rec'.bestEffort = rec.bestEffort /\ rec'.last = rec.last /\ rec'.deadline = rec.deadline
        /\ rec'.pc = "close" /\ rec'.result = "error"
    BY <2>1, RecorderStops
  <2>. QED
    BY <1>0, <2>1, <2>2, RecorderShape DEF RecorderInv, ReadRule, DeadlineRule, SessionRule
<1>3. CASE EndSession
  <2>1. PICK r \in {rec.result, "error"}, w \in {"none", "close"} :
          rec' = RecordOver(r, w) /\ session' \in {"closed", session} /\ (session' # "closed" => w = "close")
    BY <1>3 DEF EndSession
  <2>2. r \in {"none", "ok", "error"}
    BY RecorderShape DEF RecorderRecords
  <2>3. /\ rec' \in RecorderRecords /\ rec'.after = rec.after /\ rec'.frames = rec.frames /\ rec'.lapped = rec.lapped
        /\ rec'.bestEffort = rec.bestEffort /\ rec'.last = rec.last /\ rec'.deadline = rec.deadline
        /\ rec'.pc = "over" /\ rec'.result = r /\ rec'.why = w
    BY <2>1, <2>2, RecorderStops
  <2>. QED
    BY <1>0, <2>1, <2>3, RecorderShape DEF RecorderInv, ReadRule, DeadlineRule, SessionRule
<1>. QED
  BY <1>1, <1>2, <1>3

\* The session publishes a frame or ends its track; time passes.
LEMMA TrackMovesOn ==
  ASSUME RecorderInv, PublishFrame \/ TrackEnds \/ RecorderTimePasses
  PROVE  RecorderInv'
<1>1. CASE PublishFrame
  <2>1. /\ track' = [track EXCEPT !.taken = Append(@, rclock)] /\ rec' = rec /\ rclock' = rclock /\ session' = session
        /\ Len(track.taken) < MaxFrames
    BY <1>1 DEF PublishFrame, Newest
  <2>. DEFINE s == Append(track.taken, rclock)
  <2>2. s \in Seq(Nat) /\ Len(s) = Len(track.taken) + 1
    BY RecorderShape DEF TrackRecords
  <2>3. track' = [track EXCEPT !.taken = s]
    BY <2>1
  <2>. HIDE DEF s
  <2>4. track' \in TrackRecords /\ track'.taken = s
    BY <2>2, <2>3, RecorderShape DEF TrackRecords
  <2>5. Len(track'.taken) = Len(track.taken) + 1
    BY <2>2, <2>4
  <2>6. rec.after <= Len(track.taken)
    BY RecorderShape DEF ReadRule
  <2>7. rec.after <= Len(track'.taken) /\ Len(track'.taken) <= MaxFrames
    BY <2>1, <2>5, <2>6, RecorderShape
  <2>. QED
    BY <2>1, <2>4, <2>7, RecorderShape DEF RecorderInv, ReadRule
<1>2. CASE TrackEnds
  <2>1. track' = [track EXCEPT !.ended = TRUE] /\ rec' = rec /\ rclock' = rclock /\ session' = session
    BY <1>2 DEF TrackEnds
  <2>2. track' \in TrackRecords /\ track'.taken = track.taken
    BY <2>1, RecorderShape DEF TrackRecords
  <2>. QED
    BY <2>1, <2>2, RecorderShape DEF RecorderInv, ReadRule
<1>3. CASE RecorderTimePasses
  <2>1. rclock < RecordingHorizon /\ rclock' = rclock + 1 /\ track' = track /\ rec' = rec /\ session' = session
    BY <1>3 DEF RecorderTimePasses
  <2>2. DeadlineRule(rec, rclock')
    BY <2>1, RecorderShape DEF DeadlineRule, RecordingHorizon
  <2>. QED
    BY <2>1, <2>2, RecorderShape DEF RecorderInv
<1>. QED
  BY <1>1, <1>2, <1>3

LEMMA RecorderKeeps ==
  ASSUME RecorderInv, RecorderNext \/ UNCHANGED recorderVars
  PROVE  RecorderInv'
<1>1. CASE RecorderNext
  BY <1>1, OpeningTheMovie, ReadingTheTrack, ClosingTheMovie, TrackMovesOn DEF RecorderNext, RecorderStep
<1>2. CASE UNCHANGED recorderVars
  BY <1>2 DEF RecorderInv, recorderVars
<1>. QED
  BY <1>1, <1>2

LEMMA RecorderPromise ==
  ASSUME RecorderInv
  PROVE  RecorderTypeOK /\ EveryFrameAccounted /\ CoversDuration /\ NoSessionLeft
<1>1. {rec.after, rec.frames, rec.lapped} \subseteq 0..MaxFrames
  BY RecorderShape DEF ReadRule
<1>2. rclock \in 0..(RecordFor + 2)
  BY RecorderShape DEF DeadlineRule
<1>3. RecorderTypeOK
  BY <1>1, <1>2, RecorderShape DEF RecorderTypeOK, RecorderRecords, RecorderPCs
<1>. QED
  BY <1>3, RecorderShape DEF ReadRule, SessionRule, EveryFrameAccounted, CoversDuration, NoSessionLeft
-----------------------------------------------------------------------------
(* Onboarding: what the running process knows of the user's grants.        *)

\* The least of a set of numbers.
LEMMA LeastNumber ==
  ASSUME NEW S \in SUBSET Nat, S # {}
  PROVE  \E m \in S : \A k \in S : m <= k
<1>1. PICK m \in S : \A k \in S : ~(<<k, m>> \in OpToRel(<, Nat))
  BY WFMin, NatLessThanWellFounded
<1>2. \A k \in S : ~(k < m)
  BY <1>1 DEF OpToRel
<1>. QED
  BY <1>2

OnboardPCs == {"info", "prompt", "enter", "restart", "ready", "verify", "over"}
OnboardRecords == [pc : OnboardPCs, noWait : BOOLEAN, todo : SUBSET Perms, cur : Nat, missing : SUBSET Perms,
                   requestError : BOOLEAN, exit : -1..3, confirmed : SUBSET Perms, silent : SUBSET Perms,
                   lingered : BOOLEAN, grantedAtEnter : SUBSET Perms, excused : SUBSET Perms]
DaemonRecords == [up : BOOLEAN, dying : BOOLEAN, trust : [Perms -> {"unread", "yes", "no"}], dialog : BOOLEAN]
HostRecords == [bundled : BOOLEAN, launchd : BOOLEAN, changes : Nat, meddling : Nat, revoked : SUBSET Perms]

\* Every permission is confirmed, missing or still to do, but for what was never waited for.
TodoRule(o) ==
  /\ o.pc # "over" => o.exit = -1
  /\ o.pc = "info" => o.cur = 0
  /\ o.pc \in {"prompt", "enter", "restart", "ready", "verify"} =>
       o.cur \in o.todo /\ (o.requestError \/ o.noWait \/ Perms \subseteq o.confirmed \cup o.missing \cup o.todo)

\* A process that was started after Enter does not deny what had been granted by then.
TrustRule(o, d, h, t) ==
  /\ o.pc \in {"restart", "ready", "verify"} => o.grantedAtEnter \subseteq t \cup h.revoked
  /\ o.pc \in {"ready", "verify"} /\ d.up /\ ~d.dying =>
       \A p \in o.grantedAtEnter : d.trust[p] = "no" => p \in h.revoked

\* The next process to be prompted has opened no dialog, but for the known exceptions.
Disturbed(o, h) == h.meddling > 0 \/ o.lingered \/ o.noWait \/ ~h.launchd
DialogRule(o, d, h) ==
  \/ Disturbed(o, h)
  \/ /\ o.pc \in {"info", "prompt"} => ~d.up \/ ~d.dialog
     /\ o.pc \in {"ready", "verify"} => ~d.up \/ d.dying \/ ~d.dialog
FoundRule(o, h) == \A p \in o.missing \ o.excused : o.lingered \/ p \in h.revoked
ShownRule(o, h) == o.silent = {} \/ Disturbed(o, h)
ZeroRule(o) == o.exit = 0 => o.confirmed = Perms

OnboardInv ==
  /\ ob \in OnboardRecords /\ daemon \in DaemonRecords /\ host \in HostRecords /\ tcc \in SUBSET Perms
  /\ TodoRule(ob) /\ TrustRule(ob, daemon, host, tcc) /\ DialogRule(ob, daemon, host)
  /\ FoundRule(ob, host) /\ ShownRule(ob, host) /\ ZeroRule(ob)

\* What is known before a step.
LEMMA OnboardShape ==
  ASSUME OnboardInv
  PROVE  /\ ob \in OnboardRecords /\ daemon \in DaemonRecords /\ host \in HostRecords /\ tcc \in SUBSET Perms
         /\ TodoRule(ob) /\ TrustRule(ob, daemon, host, tcc) /\ DialogRule(ob, daemon, host)
         /\ FoundRule(ob, host) /\ ShownRule(ob, host) /\ ZeroRule(ob)
         /\ Perms \subseteq Nat /\ 0 \notin Perms /\ ob.todo \subseteq Perms /\ ob.cur \in Nat
         /\ ob.missing \subseteq Perms /\ ob.confirmed \subseteq Perms /\ ob.silent \subseteq Perms
         /\ ob.grantedAtEnter \subseteq Perms /\ ob.excused \subseteq Perms
<1>1. Perms \subseteq Nat /\ 0 \notin Perms
  BY OnboardAssumption
<1>. QED
  BY <1>1 DEF OnboardInv, OnboardRecords

LEMMA FreshDaemon ==
  /\ FreshProcess \in DaemonRecords /\ FreshProcess.up /\ ~FreshProcess.dying /\ ~FreshProcess.dialog
  /\ \A p \in Perms : FreshProcess.trust[p] = "unread"
BY DEF FreshProcess, DaemonRecords

LEMMA NewOnboarding ==
  ASSUME NEW b \in BOOLEAN, NEW x, x = NewOnboard(b)
  PROVE  /\ x \in OnboardRecords /\ x.pc = "info" /\ x.cur = 0 /\ x.exit = -1 /\ x.missing = {} /\ x.silent = {}
<1>1. -1 \in -1..3 /\ 0 \in Nat
  OBVIOUS
<1>. QED
  BY <1>1 DEF NewOnboard, OnboardRecords, OnboardPCs

LEMMA OnboardBegins ==
  ASSUME OnboardInit \/ OnboardRest
  PROVE  OnboardInv
<1>1. CASE OnboardInit
  <2>1. PICK b \in BOOLEAN : ob = NewOnboard(b)
    BY <1>1 DEF OnboardInit
  <2>2. ob \in OnboardRecords /\ ob.pc = "info" /\ ob.cur = 0 /\ ob.exit = -1 /\ ob.missing = {} /\ ob.silent = {}
    BY <2>1, NewOnboarding
  <2>3. daemon \in DaemonRecords /\ ~daemon.dialog
    <3>1. CASE daemon = FreshProcess
      BY <3>1, FreshDaemon
    <3>2. CASE daemon = [FreshProcess EXCEPT !.up = FALSE]
      BY <3>2, FreshDaemon DEF DaemonRecords
    <3>. QED
      BY <1>1, <3>1, <3>2 DEF OnboardInit
  <2>4. host \in HostRecords /\ tcc \in SUBSET Perms
    BY <1>1 DEF OnboardInit, HostRecords
  <2>. QED
    BY <2>2, <2>3, <2>4 DEF OnboardInv, TodoRule, TrustRule, DialogRule, FoundRule, ShownRule, ZeroRule
<1>2. CASE OnboardRest
  <2>1. PICK n : n = NewOnboard(FALSE)
    OBVIOUS
  <2>2. n \in OnboardRecords /\ n.exit = -1 /\ n.missing = {} /\ n.silent = {}
    BY <2>1, NewOnboarding
  <2>3. ob = [n EXCEPT !.pc = "over"]
    BY <1>2, <2>1 DEF OnboardRest
  <2>4. ob \in OnboardRecords /\ ob.pc = "over" /\ ob.exit = -1 /\ ob.missing = {} /\ ob.silent = {}
    BY <2>2, <2>3 DEF OnboardRecords, OnboardPCs
  <2>5. daemon \in DaemonRecords
    BY <1>2, FreshDaemon DEF OnboardRest
  <2>6. host \in HostRecords /\ tcc \in SUBSET Perms
    BY <1>2 DEF OnboardRest, HostRecords
  <2>. QED
    BY <2>4, <2>5, <2>6 DEF OnboardInv, TodoRule, TrustRule, DialogRule, FoundRule, ShownRule, ZeroRule
<1>. QED
  BY <1>1, <1>2

\* A process looks: what it had seen it keeps, what it had not it sees as it is.
Looked(d, x) ==
  /\ x \in DaemonRecords /\ x.up = d.up /\ x.dying = d.dying
  /\ \A p \in Perms : x.trust[p] = d.trust[p] \/ (d.trust[p] = "unread" /\ x.trust[p] = IF p \in tcc THEN "yes" ELSE "no")

LEMMA TrustLooks ==
  ASSUME NEW d \in DaemonRecords, NEW ps \in SUBSET Perms, NEW x, x = Trust(d, ps)
  PROVE  /\ Looked(d, x) /\ x.dialog = d.dialog
         /\ \A p \in ps : x.trust[p] # "unread"
<1>. DEFINE f == [p \in Perms |-> IF p \in ps /\ d.trust[p] = "unread" THEN (IF p \in tcc THEN "yes" ELSE "no") ELSE d.trust[p]]
<1>1. f \in [Perms -> {"unread", "yes", "no"}]
  BY DEF DaemonRecords
<1>2. x = [d EXCEPT !.trust = f]
  BY DEF Trust
<1>3. /\ \A p \in Perms : f[p] = d.trust[p] \/ (d.trust[p] = "unread" /\ f[p] = IF p \in tcc THEN "yes" ELSE "no")
      /\ \A p \in ps : f[p] # "unread"
  BY DEF DaemonRecords
<1>. HIDE DEF f
<1>4. x \in DaemonRecords /\ x.trust = f /\ x.up = d.up /\ x.dying = d.dying /\ x.dialog = d.dialog
  BY <1>1, <1>2 DEF DaemonRecords
<1>. QED
  BY <1>3, <1>4 DEF Looked

LEMMA PromptLooks ==
  ASSUME NEW d \in DaemonRecords, NEW p \in Perms, NEW r, r = FirePrompt(d, p)
  PROVE  /\ Looked(d, r.process)
         /\ ~r.ok => r.process.dialog = d.dialog
<1>1. PICK x : x = Trust(d, {p})
  OBVIOUS
<1>2. Looked(d, x) /\ x.dialog = d.dialog
  BY <1>1, TrustLooks
<1>3. x \in DaemonRecords
  BY <1>2 DEF Looked
<1>4. PICK y : y = [x EXCEPT !.dialog = TRUE]
  OBVIOUS
<1>5. y \in DaemonRecords /\ y.up = x.up /\ y.dying = x.dying /\ y.trust = x.trust
  BY <1>3, <1>4 DEF DaemonRecords
<1>6. Looked(d, y)
  BY <1>2, <1>5 DEF Looked
<1>7. \/ r = [ok |-> TRUE, process |-> x] \/ r = [ok |-> TRUE, process |-> y] \/ r = [ok |-> FALSE, process |-> x]
  BY <1>1, <1>4 DEF FirePrompt, Prompted
<1>. QED
  BY <1>2, <1>6, <1>7

\* A look of the process takes nothing from what it knows of the grants.
LEMMA LookedKeepsTrust ==
  ASSUME OnboardInv, NEW x, Looked(daemon, x)
  PROVE  x \in DaemonRecords /\ TrustRule(ob, x, host, tcc)
<1>1. ASSUME ob.pc \in {"ready", "verify"}, x.up, ~x.dying, NEW p \in ob.grantedAtEnter, x.trust[p] = "no"
      PROVE  p \in host.revoked
  <2>1. daemon.up /\ ~daemon.dying
    BY <1>1 DEF Looked
  <2>2. p \in Perms
    BY <1>1, OnboardShape
  <2>3. daemon.trust[p] = "no" => p \in host.revoked
    BY <1>1, <2>1, OnboardShape DEF TrustRule
  <2>4. x.trust[p] = daemon.trust[p] \/ p \notin tcc
    BY <1>1, <2>2 DEF Looked
  <2>5. p \in tcc \cup host.revoked
    BY <1>1, OnboardShape DEF TrustRule
  <2>. QED
    BY <1>1, <2>3, <2>4, <2>5
<1>. QED
  BY <1>1, OnboardShape DEF TrustRule, Looked

\* The flow goes on with the next permission, or ends.
LEMMA AdvanceShape ==
  ASSUME NEW o \in OnboardRecords, o.exit = -1,
         o.requestError \/ o.noWait \/ Perms \subseteq o.confirmed \cup o.missing \cup (o.todo \ {o.cur}),
         NEW x, x = Advance(o)
  PROVE  /\ x \in OnboardRecords /\ x.pc \in {"prompt", "over"} /\ TodoRule(x) /\ ZeroRule(x)
         /\ x.noWait = o.noWait /\ x.lingered = o.lingered /\ x.missing = o.missing /\ x.excused = o.excused /\ x.silent = o.silent
<1>. DEFINE left == o.todo \ {o.cur}
<1>1. left \subseteq Perms /\ Perms \subseteq Nat /\ o.missing \subseteq Perms /\ o.confirmed \subseteq Perms
  BY OnboardAssumption DEF OnboardRecords
<1>2. CASE left = {}
  <2>1. ExitCode(o) \in -1..3 /\ (ExitCode(o) = 0 => ~o.noWait /\ ~o.requestError /\ o.missing = {})
    BY DEF ExitCode
  <2>2. PICK e : e = ExitCode(o)
    OBVIOUS
  <2>3. x = [o EXCEPT !.todo = {}, !.pc = "over", !.exit = e]
    BY <1>2, <2>2 DEF Advance
  <2>4. "over" \in OnboardPCs /\ e \in -1..3 /\ {} \in SUBSET Perms
    BY <2>1, <2>2 DEF OnboardPCs
  <2>5. x \in OnboardRecords
    BY <2>3, <2>4 DEF OnboardRecords
  <2>6. /\ x.pc = "over" /\ x.exit = e /\ x.confirmed = o.confirmed
        /\ x.noWait = o.noWait /\ x.lingered = o.lingered /\ x.missing = o.missing /\ x.excused = o.excused /\ x.silent = o.silent
    BY <2>3 DEF OnboardRecords
  <2>7. ZeroRule(x)
    BY <1>1, <1>2, <2>1, <2>2, <2>6 DEF ZeroRule
  <2>. QED
    BY <2>5, <2>6, <2>7 DEF TodoRule
<1>3. CASE left # {}
  <2>1. \E m \in left : \A q \in left : m <= q
    BY <1>1, <1>3, LeastNumber
  <2>2. PICK c : c = CHOOSE p \in left : \A q \in left : p <= q
    OBVIOUS
  <2>3. c \in left
    BY <2>1, <2>2
  <2>4. x = [o EXCEPT !.todo = left, !.pc = "prompt", !.cur = c]
    BY <1>3, <2>2 DEF Advance
  <2>5. c \in Nat /\ left \in SUBSET Perms /\ "prompt" \in OnboardPCs
    BY <1>1, <2>3 DEF OnboardPCs
  <2>6. left = o.todo \ {o.cur}
    OBVIOUS
  <2>. HIDE DEF left
  <2>7. x \in OnboardRecords
    BY <2>4, <2>5 DEF OnboardRecords
  <2>8. /\ x.pc = "prompt" /\ x.exit = o.exit /\ x.todo = left /\ x.cur = c /\ x.confirmed = o.confirmed
        /\ x.requestError = o.requestError
        /\ x.noWait = o.noWait /\ x.lingered = o.lingered /\ x.missing = o.missing /\ x.excused = o.excused /\ x.silent = o.silent
    BY <2>4 DEF OnboardRecords
  <2>9. x.requestError \/ x.noWait \/ Perms \subseteq x.confirmed \cup x.missing \cup x.todo
    BY <2>6, <2>8
  <2>. QED
    BY <2>3, <2>7, <2>8, <2>9 DEF TodoRule, ZeroRule
<1>. QED
  BY <1>2, <1>3

LEMMA AdvanceKeeps ==
  ASSUME OnboardInv, NEW o \in OnboardRecords, o.exit = -1,
         o.requestError \/ o.noWait \/ Perms \subseteq o.confirmed \cup o.missing \cup (o.todo \ {o.cur}),
         FoundRule(o, host), ShownRule(o, host), ob' = Advance(o), daemon' \in DaemonRecords,
         Disturbed(o, host) \/ ~daemon'.up \/ ~daemon'.dialog, UNCHANGED <<host, tcc>>
  PROVE  OnboardInv'
<1>1. /\ ob' \in OnboardRecords /\ ob'.pc \in {"prompt", "over"} /\ TodoRule(ob') /\ ZeroRule(ob')
      /\ ob'.noWait = o.noWait /\ ob'.lingered = o.lingered /\ ob'.missing = o.missing /\ ob'.excused = o.excused
      /\ ob'.silent = o.silent
  BY AdvanceShape
<1>2. host' = host /\ tcc' = tcc
  OBVIOUS
<1>3. Disturbed(o, host) => Disturbed(ob', host')
  BY <1>1, <1>2 DEF Disturbed
<1>4. FoundRule(ob', host') /\ ShownRule(ob', host')
  BY <1>1, <1>2, <1>3 DEF FoundRule, ShownRule
<1>5. DialogRule(ob', daemon', host')
  BY <1>1, <1>3 DEF DialogRule
<1>6. TrustRule(ob', daemon', host', tcc')
  BY <1>1 DEF TrustRule
<1>. QED
  BY <1>1, <1>2, <1>4, <1>5, <1>6, OnboardShape DEF OnboardInv

\* The command ends without a verdict.
LEMMA AbortKeeps ==
  ASSUME OnboardInv, ob' = Abort, UNCHANGED <<daemon, host, tcc>>
  PROVE  OnboardInv'
<1>1. "over" \in OnboardPCs /\ 2 \in -1..3
  BY DEF OnboardPCs
<1>2. ob' \in OnboardRecords
  BY <1>1, OnboardShape DEF OnboardRecords, Abort
<1>3. /\ ob'.pc = "over" /\ ob'.exit = 2 /\ ob'.noWait = ob.noWait /\ ob'.lingered = ob.lingered
      /\ ob'.missing = ob.missing /\ ob'.excused = ob.excused /\ ob'.silent = ob.silent
  BY OnboardShape DEF OnboardRecords, Abort
<1>4. FoundRule(ob', host) /\ ShownRule(ob', host)
  BY <1>3, OnboardShape DEF FoundRule, ShownRule, Disturbed
<1>. QED
  BY <1>2, <1>3, <1>4, OnboardShape DEF OnboardInv, TodoRule, TrustRule, DialogRule, ZeroRule

\* The flow goes on with the same permission: the record changes nothing that the verdict rests on.
LEMMA GoOnKeeps ==
  ASSUME OnboardInv, NEW q \in {"enter", "restart", "ready", "verify"}, ob.pc \in {"prompt", "enter", "restart", "ready"},
         ob' \in OnboardRecords, ob'.pc = q, ob'.cur = ob.cur, ob'.todo = ob.todo, ob'.exit = ob.exit,
         ob'.missing = ob.missing, ob'.confirmed = ob.confirmed, ob'.requestError = ob.requestError,
         ob'.noWait = ob.noWait, ob'.excused = ob.excused, ob.lingered => ob'.lingered,
         UNCHANGED <<host, tcc>>, daemon' \in DaemonRecords, TrustRule(ob', daemon', host, tcc),
         DialogRule(ob', daemon', host), ShownRule(ob', host)
  PROVE  OnboardInv'
<1>1. TodoRule(ob')
  BY OnboardShape DEF TodoRule
<1>2. FoundRule(ob', host)
  BY OnboardShape DEF FoundRule
<1>3. ZeroRule(ob')
  BY OnboardShape DEF ZeroRule
<1>. QED
  BY <1>1, <1>2, <1>3, OnboardShape DEF OnboardInv

LEMMA GetInfoKeeps ==
  ASSUME OnboardInv, GetInfo
  PROVE  OnboardInv'
<1>0. ob.pc = "info" /\ UNCHANGED <<host, tcc>>
  BY DEF GetInfo
<1>1. CASE ob' = Abort /\ UNCHANGED daemon
  BY <1>0, <1>1, AbortKeeps
<1>2. CASE daemon.up /\ daemon' = SystemPermissions(daemon)
  <2>1. PICK lacking : lacking = {p \in Perms : SystemPermissions(daemon).trust[p] = "no"}
    OBVIOUS
  <2>2. PICK o : o = [ob EXCEPT !.todo = lacking, !.confirmed = Perms \ lacking]
    OBVIOUS
  <2>3. PICK z : z = [ob EXCEPT !.pc = "over", !.exit = 0, !.confirmed = Perms]
    OBVIOUS
  <2>4. ob' = z \/ ob' = Advance(o)
    BY <1>0, <1>2, <2>1, <2>2, <2>3 DEF GetInfo, Abort
  <2>5. lacking \subseteq Perms /\ (Perms \ lacking) \subseteq Perms
    BY <2>1
  <2>6. o \in OnboardRecords
    BY <2>2, <2>5, OnboardShape DEF OnboardRecords
  <2>7. /\ o.todo = lacking /\ o.confirmed = Perms \ lacking /\ o.cur = ob.cur /\ o.exit = ob.exit /\ o.noWait = ob.noWait
        /\ o.lingered = ob.lingered /\ o.missing = ob.missing /\ o.excused = ob.excused /\ o.silent = ob.silent
    BY <2>2, OnboardShape DEF OnboardRecords
  <2>8. ob.exit = -1 /\ ob.cur = 0
    BY <1>0, OnboardShape DEF TodoRule
  <2>9. daemon' \in DaemonRecords /\ daemon'.dialog = daemon.dialog
    BY <1>2, OnboardShape, TrustLooks DEF SystemPermissions, Looked
  <2>10. Disturbed(ob, host) \/ ~daemon'.dialog
    BY <1>0, <1>2, <2>9, OnboardShape DEF DialogRule
  <2>11. CASE ob' = Advance(o)
    <3>1. Perms \subseteq o.confirmed \cup o.missing \cup (o.todo \ {o.cur})
      BY <2>5, <2>7, <2>8, OnboardShape
    <3>2. FoundRule(o, host) /\ ShownRule(o, host) /\ (Disturbed(o, host) \/ ~daemon'.dialog)
      BY <2>7, <2>10, OnboardShape DEF FoundRule, ShownRule, Disturbed
    <3>3. o.exit = -1
      BY <2>7, <2>8
    <3>. QED
      BY <1>0, <2>6, <2>9, <2>11, <3>1, <3>2, <3>3, AdvanceKeeps
  <2>12. CASE ob' = z
    <3>1. "over" \in OnboardPCs /\ 0 \in -1..3
      BY DEF OnboardPCs
    <3>2. z \in OnboardRecords
      BY <2>3, <3>1, OnboardShape DEF OnboardRecords
    <3>3. /\ z.pc = "over" /\ z.confirmed = Perms /\ z.noWait = ob.noWait
          /\ z.lingered = ob.lingered /\ z.missing = ob.missing /\ z.excused = ob.excused /\ z.silent = ob.silent
      BY <2>3, OnboardShape DEF OnboardRecords
    <3>4. FoundRule(z, host) /\ ShownRule(z, host)
      BY <3>3, OnboardShape DEF FoundRule, ShownRule, Disturbed
    <3>. QED
      BY <1>0, <2>9, <2>12, <3>2, <3>3, <3>4, OnboardShape DEF OnboardInv, TodoRule, TrustRule, DialogRule, ZeroRule
  <2>. QED
    BY <2>4, <2>11, <2>12
<1>. QED
  BY <1>1, <1>2 DEF GetInfo

LEMMA RequestKeeps ==
  ASSUME OnboardInv, RequestPrompt
  PROVE  OnboardInv'
<1>0. ob.pc = "prompt" /\ host' = host /\ tcc' = tcc
  BY DEF RequestPrompt
<1>1. CASE ob' = Abort /\ UNCHANGED daemon
  BY <1>0, <1>1, AbortKeeps
<1>2. CASE daemon.up /\ daemon' = FirePrompt(daemon, ob.cur).process
  <2>1. PICK r : r = FirePrompt(daemon, ob.cur)
    OBVIOUS
  <2>2. PICK s : s = IF daemon.dialog /\ r.process.trust[ob.cur] = "no" THEN ob.silent \cup {ob.cur} ELSE ob.silent
    OBVIOUS
  <2>3. PICK f : f = [ob EXCEPT !.silent = s]
    OBVIOUS
  <2>4. PICK g : g = [ob EXCEPT !.requestError = TRUE]
    OBVIOUS
  <2>5. \/ ~r.ok /\ ob' = Advance(g)
        \/ ob.noWait /\ ob' = Advance(f)
        \/ ob' = [f EXCEPT !.pc = "enter"]
    <3>1. f = [ob EXCEPT !.silent = IF daemon.dialog /\ r.process.trust[ob.cur] = "no" THEN @ \cup {ob.cur} ELSE @]
      BY <2>2, <2>3
    <3>2. ob' = IF ~r.ok THEN Advance(g) ELSE IF ob.noWait THEN Advance(f) ELSE [f EXCEPT !.pc = "enter"]
      BY <1>2, <2>1, <2>4, <3>1 DEF RequestPrompt
    <3>. QED
      BY <3>2
  <2>6. ob.cur \in ob.todo /\ ob.cur \in Perms /\ ob.exit = -1
    BY <1>0, OnboardShape DEF TodoRule
  <2>7. s \subseteq Perms /\ (s # ob.silent => daemon.dialog)
    BY <2>2, <2>6, OnboardShape
  <2>8. /\ f \in OnboardRecords /\ f.silent = s /\ f.exit = ob.exit /\ f.noWait = ob.noWait /\ f.requestError = ob.requestError
        /\ f.lingered = ob.lingered /\ f.missing = ob.missing /\ f.excused = ob.excused /\ f.confirmed = ob.confirmed
        /\ f.todo = ob.todo /\ f.cur = ob.cur
    BY <2>3, <2>7, OnboardShape DEF OnboardRecords
  <2>9. /\ g \in OnboardRecords /\ g.silent = ob.silent /\ g.exit = ob.exit /\ g.noWait = ob.noWait /\ g.requestError
        /\ g.lingered = ob.lingered /\ g.missing = ob.missing /\ g.excused = ob.excused
    BY <2>4, OnboardShape DEF OnboardRecords
  <2>10. daemon' \in DaemonRecords /\ daemon'.up = daemon.up /\ (~r.ok => daemon'.dialog = daemon.dialog)
    <3>1. daemon' = r.process
      BY <1>2, <2>1
    <3>2. Looked(daemon, r.process) /\ (~r.ok => r.process.dialog = daemon.dialog)
      BY <2>1, <2>6, OnboardShape, PromptLooks
    <3>3. r.process \in DaemonRecords /\ r.process.up = daemon.up
      BY <3>2 DEF Looked
    <3>. QED
      BY <3>1, <3>2, <3>3, Zenon
  <2>11. Disturbed(ob, host) \/ ~daemon.dialog
    BY <1>0, <1>2, OnboardShape DEF DialogRule
  <2>12. FoundRule(f, host) /\ ShownRule(f, host)
    BY <2>7, <2>8, <2>11, OnboardShape DEF FoundRule, ShownRule, Disturbed
  <2>13. FoundRule(g, host) /\ ShownRule(g, host) /\ (Disturbed(ob, host) => Disturbed(g, host))
    BY <2>9, OnboardShape DEF FoundRule, ShownRule, Disturbed
  <2>14. CASE ~r.ok /\ ob' = Advance(g)
    BY <1>0, <2>6, <2>9, <2>10, <2>11, <2>13, <2>14, AdvanceKeeps
  <2>15. CASE ob.noWait /\ ob' = Advance(f)
    <3>1. f.noWait /\ Disturbed(f, host) /\ f.exit = -1
      BY <2>6, <2>8, <2>15 DEF Disturbed
    <3>. QED
      BY <1>0, <2>8, <2>10, <2>12, <2>15, <3>1, AdvanceKeeps
  <2>16. CASE ob' = [f EXCEPT !.pc = "enter"]
    <3>1. "enter" \in OnboardPCs
      BY DEF OnboardPCs
    <3>2. /\ ob' \in OnboardRecords /\ ob'.pc = "enter" /\ ob'.silent = f.silent /\ ob'.exit = f.exit /\ ob'.noWait = f.noWait
          /\ ob'.requestError = f.requestError /\ ob'.lingered = f.lingered /\ ob'.missing = f.missing
          /\ ob'.excused = f.excused /\ ob'.confirmed = f.confirmed /\ ob'.todo = f.todo /\ ob'.cur = f.cur
      BY <2>8, <2>16, <3>1 DEF OnboardRecords
    <3>3. ShownRule(ob', host)
      BY <2>12, <3>2 DEF ShownRule, Disturbed
    <3>4. TrustRule(ob', daemon', host, tcc) /\ DialogRule(ob', daemon', host)
      BY <3>2 DEF TrustRule, DialogRule
    <3>. QED
      BY <1>0, <2>8, <2>10, <3>2, <3>3, <3>4, GoOnKeeps
  <2>. QED
    BY <2>5, <2>14, <2>15, <2>16
<1>. QED
  BY <1>1, <1>2 DEF RequestPrompt

LEMMA EnterKeeps ==
  ASSUME OnboardInv, PressEnter
  PROVE  OnboardInv'
<1>0. ob.pc = "enter" /\ ob' = [ob EXCEPT !.pc = "restart", !.grantedAtEnter = tcc] /\ UNCHANGED <<tcc, daemon, host>>
  BY DEF PressEnter
<1>1. "restart" \in OnboardPCs
  BY DEF OnboardPCs
<1>2. ob' \in OnboardRecords
  BY <1>0, <1>1, OnboardShape DEF OnboardRecords
<1>3. /\ ob'.pc = "restart" /\ ob'.silent = ob.silent /\ ob'.exit = ob.exit /\ ob'.noWait = ob.noWait
      /\ ob'.requestError = ob.requestError /\ ob'.lingered = ob.lingered /\ ob'.missing = ob.missing
      /\ ob'.excused = ob.excused /\ ob'.confirmed = ob.confirmed /\ ob'.todo = ob.todo /\ ob'.cur = ob.cur
      /\ ob'.grantedAtEnter = tcc
  BY <1>0, OnboardShape DEF OnboardRecords
<1>4. TrustRule(ob', daemon', host, tcc) /\ DialogRule(ob', daemon', host)
  BY <1>3 DEF TrustRule, DialogRule
<1>5. ShownRule(ob', host)
  BY <1>3, OnboardShape DEF ShownRule, Disturbed
<1>. QED
  BY <1>0, <1>2, <1>3, <1>4, <1>5, OnboardShape, GoOnKeeps

\* A permission that could not be verified is missing, with an excuse.
LEMMA MissingAdvances ==
  ASSUME OnboardInv, ob.pc \in {"restart", "ready"}, ob' = Advance(Missing(ob)), UNCHANGED <<daemon, host, tcc>>,
         ~host.launchd \/ ~daemon.up
  PROVE  OnboardInv'
<1>1. ob.cur \in ob.todo /\ ob.cur \in Perms /\ ob.exit = -1
      /\ (ob.requestError \/ ob.noWait \/ Perms \subseteq ob.confirmed \cup ob.missing \cup ob.todo)
  BY OnboardShape DEF TodoRule
<1>2. PICK o : o = Missing(ob)
  OBVIOUS
<1>3. PICK m, e : m = ob.missing \cup {ob.cur} /\ e = ob.excused \cup {ob.cur}
  OBVIOUS
<1>4. m \subseteq Perms /\ e \subseteq Perms
  BY <1>1, <1>3, OnboardShape
<1>5. o = [ob EXCEPT !.missing = m, !.excused = e]
  BY <1>2, <1>3 DEF Missing
<1>6. o \in OnboardRecords
  BY <1>4, <1>5, OnboardShape DEF OnboardRecords
<1>7. /\ o.missing = m /\ o.excused = e /\ o.silent = ob.silent /\ o.exit = ob.exit /\ o.noWait = ob.noWait
      /\ o.requestError = ob.requestError /\ o.lingered = ob.lingered /\ o.confirmed = ob.confirmed /\ o.todo = ob.todo
      /\ o.cur = ob.cur
  BY <1>5, OnboardShape DEF OnboardRecords
<1>8. o.requestError \/ o.noWait \/ Perms \subseteq o.confirmed \cup o.missing \cup (o.todo \ {o.cur})
  BY <1>1, <1>3, <1>7
<1>9. FoundRule(o, host)
  BY <1>3, <1>7, OnboardShape DEF FoundRule
<1>10. ShownRule(o, host)
  BY <1>7, OnboardShape DEF ShownRule, Disturbed
<1>11. Disturbed(o, host) \/ ~daemon'.up
  BY DEF Disturbed
<1>. QED
  BY <1>1, <1>2, <1>6, <1>7, <1>8, <1>9, <1>10, <1>11, OnboardShape, AdvanceKeeps

LEMMA RestartKeeps ==
  ASSUME OnboardInv, Restart
  PROVE  OnboardInv'
<1>0. ob.pc = "restart" /\ UNCHANGED <<tcc, host>>
  BY DEF Restart
<1>1. CASE ~host.launchd /\ ob' = Advance(Missing(ob)) /\ UNCHANGED daemon
  BY <1>0, <1>1, MissingAdvances
<1>2. CASE ob' = Abort /\ UNCHANGED daemon
  BY <1>0, <1>2, AbortKeeps
<1>3. CASE /\ ob' = [ob EXCEPT !.pc = "ready"]
           /\ (daemon' = [daemon EXCEPT !.up = FALSE] \/ daemon' = [daemon EXCEPT !.dying = TRUE])
  <2>1. "ready" \in OnboardPCs
    BY DEF OnboardPCs
  <2>2. ob' \in OnboardRecords
    BY <1>3, <2>1, OnboardShape DEF OnboardRecords
  <2>3. /\ ob'.pc = "ready" /\ ob'.silent = ob.silent /\ ob'.exit = ob.exit /\ ob'.noWait = ob.noWait
        /\ ob'.requestError = ob.requestError /\ ob'.lingered = ob.lingered /\ ob'.missing = ob.missing
        /\ ob'.excused = ob.excused /\ ob'.confirmed = ob.confirmed /\ ob'.todo = ob.todo /\ ob'.cur = ob.cur
        /\ ob'.grantedAtEnter = ob.grantedAtEnter
    BY <1>3, OnboardShape DEF OnboardRecords
  <2>4. daemon' \in DaemonRecords
    BY <1>3, OnboardShape DEF DaemonRecords
  <2>5. ~daemon'.up \/ daemon'.dying
    <3>1. CASE daemon' = [daemon EXCEPT !.up = FALSE]
      BY <3>1, OnboardShape DEF DaemonRecords
    <3>2. CASE daemon' = [daemon EXCEPT !.dying = TRUE]
      BY <3>2, OnboardShape DEF DaemonRecords
    <3>. QED
      BY <1>3, <3>1, <3>2
  <2>6. TrustRule(ob', daemon', host, tcc)
    BY <1>0, <2>3, <2>5, OnboardShape DEF TrustRule
  <2>7. DialogRule(ob', daemon', host)
    BY <2>3, <2>5 DEF DialogRule
  <2>8. ShownRule(ob', host)
    BY <2>3, OnboardShape DEF ShownRule, Disturbed
  <2>. QED
    BY <1>0, <2>2, <2>3, <2>4, <2>6, <2>7, <2>8, OnboardShape, GoOnKeeps
<1>. QED
  BY <1>1, <1>2, <1>3 DEF Restart

\* All that the process knows after it has reported its permissions.
LEMMA ReportedTrust ==
  ASSUME OnboardInv, daemon' = SystemPermissions(daemon)
  PROVE  /\ Looked(daemon, daemon') /\ daemon'.dialog = daemon.dialog /\ daemon' \in DaemonRecords
         /\ \A p \in Perms : daemon'.trust[p] # "unread"
         /\ daemon'.up = daemon.up /\ daemon'.dying = daemon.dying
<1>1. /\ Looked(daemon, daemon') /\ daemon'.dialog = daemon.dialog /\ \A p \in Perms : daemon'.trust[p] # "unread"
  BY OnboardShape, TrustLooks DEF SystemPermissions
<1>. QED
  BY <1>1 DEF Looked

LEMMA ReadyKeeps ==
  ASSUME OnboardInv, WaitUntilReady
  PROVE  OnboardInv'
<1>0. ob.pc = "ready" /\ UNCHANGED <<tcc, host>>
  BY DEF WaitUntilReady
<1>1. CASE ~daemon.up /\ ob' = Advance(Missing(ob)) /\ UNCHANGED daemon
  BY <1>0, <1>1, MissingAdvances
<1>2. CASE daemon.up /\ daemon' = SystemPermissions(daemon) /\ ob' = [ob EXCEPT !.pc = "verify", !.lingered = @ \/ daemon.dying]
  <2>1. PICK l \in BOOLEAN : l = (ob.lingered \/ daemon.dying)
    OBVIOUS
  <2>2. ob' = [ob EXCEPT !.pc = "verify", !.lingered = l]
    BY <1>2, <2>1, Zenon
  <2>3. "verify" \in OnboardPCs
    BY DEF OnboardPCs
  <2>4. ob' \in OnboardRecords
    BY <2>2, <2>3, OnboardShape DEF OnboardRecords
  <2>5. /\ ob'.pc = "verify" /\ ob'.silent = ob.silent /\ ob'.exit = ob.exit /\ ob'.noWait = ob.noWait
        /\ ob'.requestError = ob.requestError /\ ob'.lingered = l /\ ob'.missing = ob.missing
        /\ ob'.excused = ob.excused /\ ob'.confirmed = ob.confirmed /\ ob'.todo = ob.todo /\ ob'.cur = ob.cur
        /\ ob'.grantedAtEnter = ob.grantedAtEnter
    BY <2>2, OnboardShape DEF OnboardRecords
  <2>6. /\ Looked(daemon, daemon') /\ daemon'.dialog = daemon.dialog /\ daemon' \in DaemonRecords
        /\ daemon'.up = daemon.up /\ daemon'.dying = daemon.dying
    BY <1>2, ReportedTrust
  <2>7. TrustRule(ob', daemon', host, tcc)
    <3>1. TrustRule(ob, daemon', host, tcc)
      BY <2>6, LookedKeepsTrust
    <3>. QED
      BY <1>0, <2>5, <3>1 DEF TrustRule
  <2>8. (ob.lingered \/ daemon.dying) <=> ob'.lingered
    BY <2>1, <2>5, Zenon
  <2>9. DialogRule(ob', daemon', host)
    BY <1>0, <2>5, <2>6, <2>8, OnboardShape DEF DialogRule, Disturbed
  <2>10. ShownRule(ob', host)
    BY <2>5, <2>8, OnboardShape DEF ShownRule, Disturbed
  <2>. QED
    BY <1>0, <2>4, <2>5, <2>6, <2>7, <2>8, <2>9, <2>10, OnboardShape, GoOnKeeps
<1>. QED
  BY <1>1, <1>2 DEF WaitUntilReady

LEMMA VerifyKeeps ==
  ASSUME OnboardInv, Verify
  PROVE  OnboardInv'
<1>0. ob.pc = "verify" /\ UNCHANGED <<tcc, host>>
  BY DEF Verify
<1>1. CASE ob' = Abort /\ UNCHANGED daemon
  BY <1>0, <1>1, AbortKeeps
<1>2. CASE daemon.up /\ daemon' = SystemPermissions(daemon)
  <2>1. PICK l \in BOOLEAN : l = (ob.lingered \/ daemon.dying)
    OBVIOUS
  <2>2. PICK o : o = [ob EXCEPT !.lingered = l]
    OBVIOUS
  <2>3. o \in OnboardRecords
    BY <2>2, OnboardShape DEF OnboardRecords
  <2>4. /\ o.lingered = l /\ o.silent = ob.silent /\ o.exit = ob.exit /\ o.noWait = ob.noWait
        /\ o.requestError = ob.requestError /\ o.missing = ob.missing /\ o.excused = ob.excused
        /\ o.confirmed = ob.confirmed /\ o.todo = ob.todo /\ o.cur = ob.cur /\ o.grantedAtEnter = ob.grantedAtEnter
    BY <2>2, OnboardShape DEF OnboardRecords
  <2>5. PICK c, m, e : /\ c = o.confirmed \cup {ob.cur} /\ m = o.missing \cup {o.cur}
                       /\ e = IF o.cur \in o.grantedAtEnter THEN o.excused ELSE o.excused \cup {o.cur}
    OBVIOUS
  <2>6. PICK y, z : y = [o EXCEPT !.confirmed = c] /\ z = [o EXCEPT !.missing = m, !.excused = e]
    OBVIOUS
  <2>7. ob' = Advance(IF daemon'.trust[ob.cur] = "yes" THEN y ELSE z)
    <3>1. o = [ob EXCEPT !.lingered = @ \/ daemon.dying]
      BY <2>1, <2>2, Zenon
    <3>2. y = [o EXCEPT !.confirmed = @ \cup {ob.cur}]
      BY <2>3, <2>5, <2>6 DEF OnboardRecords
    <3>3. z = [o EXCEPT !.missing = @ \cup {o.cur}, !.excused = IF o.cur \in o.grantedAtEnter THEN @ ELSE @ \cup {o.cur}]
      BY <2>3, <2>5, <2>6 DEF OnboardRecords
    <3>4. ob' = Advance(IF SystemPermissions(daemon).trust[ob.cur] = "yes"
                        THEN [[ob EXCEPT !.lingered = @ \/ daemon.dying] EXCEPT !.confirmed = @ \cup {[ob EXCEPT !.lingered = @ \/ daemon.dying].cur}]
                        ELSE [[ob EXCEPT !.lingered = @ \/ daemon.dying] EXCEPT
                                !.missing = @ \cup {[ob EXCEPT !.lingered = @ \/ daemon.dying].cur},
                                !.excused = IF [ob EXCEPT !.lingered = @ \/ daemon.dying].cur \in
                                                 [ob EXCEPT !.lingered = @ \/ daemon.dying].grantedAtEnter
                                            THEN @ ELSE @ \cup {[ob EXCEPT !.lingered = @ \/ daemon.dying].cur}])
      BY <1>0, <1>2, Zenon DEF Verify
    <3>. QED
      BY <1>2, <2>4, <3>1, <3>2, <3>3, <3>4, Zenon
  <2>8. /\ ob.cur \in ob.todo /\ ob.cur \in Perms /\ ob.exit = -1
        /\ (ob.requestError \/ ob.noWait \/ Perms \subseteq ob.confirmed \cup ob.missing \cup ob.todo)
    BY <1>0, OnboardShape DEF TodoRule
  <2>9. /\ Looked(daemon, daemon') /\ daemon'.dialog = daemon.dialog /\ daemon' \in DaemonRecords
        /\ daemon'.up = daemon.up /\ daemon'.dying = daemon.dying /\ \A p \in Perms : daemon'.trust[p] # "unread"
    BY <1>2, ReportedTrust
  <2>10. (ob.lingered \/ daemon.dying) <=> o.lingered
    BY <2>1, <2>4, Zenon
  <2>11. ob.lingered \/ daemon.dying \/ Disturbed(ob, host) \/ ~daemon'.dialog
    BY <1>0, <1>2, <2>9, OnboardShape DEF DialogRule
  <2>12. Disturbed(o, host) \/ ~daemon'.dialog
    BY <2>4, <2>10, <2>11 DEF Disturbed
  <2>13. c \subseteq Perms /\ m \subseteq Perms /\ e \subseteq Perms
    BY <2>3, <2>4, <2>5, <2>8, OnboardShape
  <2>14. /\ y \in OnboardRecords /\ y.confirmed = c /\ y.exit = o.exit /\ y.noWait = o.noWait /\ y.lingered = o.lingered
         /\ y.missing = o.missing /\ y.excused = o.excused /\ y.silent = o.silent /\ y.requestError = o.requestError
         /\ y.todo = o.todo /\ y.cur = o.cur
    BY <2>3, <2>6, <2>13 DEF OnboardRecords
  <2>15. z \in OnboardRecords
    BY <2>3, <2>6, <2>13 DEF OnboardRecords
  <2>16. /\ z.missing = m /\ z.excused = e /\ z.exit = o.exit /\ z.noWait = o.noWait /\ z.lingered = o.lingered
         /\ z.confirmed = o.confirmed /\ z.silent = o.silent /\ z.requestError = o.requestError
         /\ z.todo = o.todo /\ z.cur = o.cur
    BY <2>3, <2>6 DEF OnboardRecords
  <2>17. CASE daemon'.trust[ob.cur] = "yes"
    <3>1. ob' = Advance(y)
      BY <2>7, <2>17
    <3>2. y.requestError \/ y.noWait \/ Perms \subseteq y.confirmed \cup y.missing \cup (y.todo \ {y.cur})
      BY <2>4, <2>5, <2>8, <2>14
    <3>3. FoundRule(y, host)
      BY <2>4, <2>10, <2>14, OnboardShape DEF FoundRule
    <3>4. ShownRule(y, host) /\ (Disturbed(y, host) \/ ~daemon'.dialog)
      BY <2>4, <2>10, <2>12, <2>14, OnboardShape DEF ShownRule, Disturbed
    <3>5. y.exit = -1
      BY <2>4, <2>8, <2>14
    <3>. QED
      BY <1>0, <2>9, <2>14, <3>1, <3>2, <3>3, <3>4, <3>5, AdvanceKeeps
  <2>18. CASE daemon'.trust[ob.cur] # "yes"
    <3>1. ob' = Advance(z)
      BY <2>7, <2>18
    <3>2. z.requestError \/ z.noWait \/ Perms \subseteq z.confirmed \cup z.missing \cup (z.todo \ {z.cur})
      BY <2>4, <2>5, <2>8, <2>16
    <3>3. daemon'.trust[ob.cur] = "no"
      BY <2>8, <2>9, <2>18 DEF DaemonRecords
    <3>4. ob.cur \in ob.grantedAtEnter => o.lingered \/ ob.cur \in host.revoked
      <4>1. TrustRule(ob, daemon', host, tcc)
        BY <2>9, LookedKeepsTrust
      <4>2. daemon'.up /\ (daemon'.dying => o.lingered)
        BY <1>2, <2>9, <2>10
      <4>. QED
        BY <1>0, <3>3, <4>1, <4>2 DEF TrustRule
    <3>5. FoundRule(z, host)
      <4>1. ASSUME NEW p \in z.missing \ z.excused
            PROVE  z.lingered \/ p \in host.revoked
        <5>1. CASE p = ob.cur
          <6>1. ob.cur \in ob.grantedAtEnter
            BY <2>4, <2>5, <2>16, <4>1, <5>1
          <6>. QED
            BY <2>16, <3>4, <5>1, <6>1
        <5>2. CASE p # ob.cur
          <6>1. p \in ob.missing \ ob.excused
            BY <2>4, <2>5, <2>16, <4>1, <5>2
          <6>. QED
            BY <2>10, <2>16, <6>1, OnboardShape DEF FoundRule
        <5>. QED
          BY <5>1, <5>2
      <4>. QED
        BY <4>1 DEF FoundRule
    <3>6. ShownRule(z, host) /\ (Disturbed(z, host) \/ ~daemon'.dialog)
      BY <2>4, <2>10, <2>12, <2>16, OnboardShape DEF ShownRule, Disturbed
    <3>7. z.exit = -1
      BY <2>4, <2>8, <2>16
    <3>. QED
      BY <1>0, <2>9, <2>15, <3>1, <3>2, <3>5, <3>6, <3>7, AdvanceKeeps
  <2>. QED
    BY <2>17, <2>18
<1>. QED
  BY <1>1, <1>2 DEF Verify

\* The process ends, or another one starts.
LEMMA DaemonMoves ==
  ASSUME OnboardInv, DaemonExits \/ DaemonComesUp
  PROVE  OnboardInv'
<1>0. ob' = ob /\ host' = host /\ tcc' = tcc
  BY DEF DaemonExits, DaemonComesUp
<1>1. CASE DaemonExits
  <2>1. daemon' = [daemon EXCEPT !.up = FALSE]
    BY <1>1 DEF DaemonExits
  <2>2. daemon' \in DaemonRecords /\ ~daemon'.up
    BY <2>1, OnboardShape DEF DaemonRecords
  <2>3. TrustRule(ob, daemon', host, tcc) /\ DialogRule(ob, daemon', host)
    BY <2>2, OnboardShape DEF TrustRule, DialogRule
  <2>. QED
    BY <1>0, <2>2, <2>3, OnboardShape DEF OnboardInv
<1>2. CASE DaemonComesUp
  <2>1. daemon' = FreshProcess
    BY <1>2 DEF DaemonComesUp
  <2>2. daemon' \in DaemonRecords /\ ~daemon'.dialog /\ \A p \in Perms : daemon'.trust[p] = "unread"
    BY <2>1, FreshDaemon
  <2>3. TrustRule(ob, daemon', host, tcc) /\ DialogRule(ob, daemon', host)
    BY <2>2, OnboardShape DEF TrustRule, DialogRule
  <2>. QED
    BY <1>0, <2>2, <2>3, OnboardShape DEF OnboardInv
<1>. QED
  BY <1>1, <1>2

\* The user grants or revokes, another client misses a permission.
LEMMA UserMoves ==
  ASSUME OnboardInv, NEW p \in Perms, UserChanges(p)
  PROVE  OnboardInv'
<1>0. ob' = ob /\ daemon' = daemon
  BY DEF UserChanges
<1>1. PICK r \in SUBSET Perms : /\ host' = [host EXCEPT !.changes = @ + 1, !.revoked = r] \/
                                   (r = host.revoked /\ host' = [host EXCEPT !.changes = @ + 1])
                                /\ host.revoked \subseteq r /\ tcc \subseteq tcc' \cup r /\ tcc' \in SUBSET Perms
  <2>1. host.revoked \in SUBSET Perms /\ host.revoked \cup {p} \in SUBSET Perms
    BY OnboardShape DEF HostRecords
  <2>2. CASE tcc' = tcc \cup {p} /\ host' = [host EXCEPT !.changes = @ + 1]
    BY <2>1, <2>2, OnboardShape
  <2>3. CASE tcc' = tcc \ {p} /\ host' = [host EXCEPT !.changes = @ + 1, !.revoked = @ \cup {p}]
    <3>1. host' = [host EXCEPT !.changes = @ + 1, !.revoked = host.revoked \cup {p}]
      BY <2>3
    <3>2. tcc \subseteq tcc' \cup (host.revoked \cup {p}) /\ tcc' \in SUBSET Perms
      BY <2>3, OnboardShape
    <3>. QED
      BY <2>1, <3>1, <3>2
  <2>. QED
    BY <2>2, <2>3 DEF UserChanges
<1>2. host' \in HostRecords /\ host'.revoked = r /\ host'.meddling = host.meddling /\ host'.launchd = host.launchd
  <2>1. host.changes + 1 \in Nat
    BY OnboardShape DEF HostRecords
  <2>2. CASE host' = [host EXCEPT !.changes = @ + 1, !.revoked = r]
    <3>1. host' \in HostRecords
      BY <2>1, <2>2, OnboardShape DEF HostRecords
    <3>. QED
      BY <2>2, <3>1, OnboardShape DEF HostRecords
  <2>3. CASE r = host.revoked /\ host' = [host EXCEPT !.changes = @ + 1]
    <3>1. host' \in HostRecords
      BY <2>1, <2>3, OnboardShape DEF HostRecords
    <3>. QED
      BY <2>3, <3>1, OnboardShape DEF HostRecords
  <2>. QED
    BY <1>1, <2>2, <2>3
<1>3. Disturbed(ob, host) <=> Disturbed(ob, host')
  BY <1>2 DEF Disturbed
<1>4. TrustRule(ob, daemon, host', tcc')
  BY <1>1, <1>2, OnboardShape DEF TrustRule
<1>5. DialogRule(ob, daemon, host') /\ ShownRule(ob, host')
  BY <1>3, OnboardShape DEF DialogRule, ShownRule
<1>6. FoundRule(ob, host')
  BY <1>1, <1>2, OnboardShape DEF FoundRule
<1>. QED
  BY <1>0, <1>1, <1>2, <1>4, <1>5, <1>6, OnboardShape DEF OnboardInv

LEMMA MeddlingMoves ==
  ASSUME OnboardInv, NEW p \in Perms, EnsureGranted(p)
  PROVE  OnboardInv'
<1>0. ob' = ob /\ tcc' = tcc /\ daemon' = FirePrompt(daemon, p).process /\ host' = [host EXCEPT !.meddling = @ + 1]
  BY DEF EnsureGranted
<1>1. Looked(daemon, daemon')
  <2>1. PICK r : r = FirePrompt(daemon, p)
    OBVIOUS
  <2>2. Looked(daemon, r.process)
    BY <2>1, OnboardShape, PromptLooks
  <2>. QED
    BY <1>0, <2>1, <2>2
<1>2. daemon' \in DaemonRecords /\ TrustRule(ob, daemon', host, tcc)
  BY <1>1, LookedKeepsTrust
<1>3. /\ host' \in HostRecords /\ host'.revoked = host.revoked /\ host'.meddling = host.meddling + 1
      /\ host.meddling \in Nat
  BY <1>0, OnboardShape DEF HostRecords
<1>4. Disturbed(ob, host')
  BY <1>3 DEF Disturbed
<1>5. TrustRule(ob, daemon', host', tcc)
  BY <1>2, <1>3 DEF TrustRule
<1>6. FoundRule(ob, host')
  BY <1>3, OnboardShape DEF FoundRule
<1>. QED
  BY <1>0, <1>2, <1>3, <1>4, <1>5, <1>6, OnboardShape DEF OnboardInv, DialogRule, ShownRule

LEMMA OnboardKeeps ==
  ASSUME OnboardInv, OnboardNext \/ UNCHANGED onboardVars
  PROVE  OnboardInv'
<1>1. CASE OnboardNext
  <2>1. CASE OnboardStep
    BY <2>1, GetInfoKeeps, RequestKeeps, EnterKeeps, RestartKeeps, ReadyKeeps, VerifyKeeps DEF OnboardStep
  <2>2. CASE \E p \in Perms : UserChanges(p) \/ EnsureGranted(p)
    BY <2>2, UserMoves, MeddlingMoves
  <2>. QED
    BY <1>1, <2>1, <2>2, DaemonMoves DEF OnboardNext
<1>2. CASE UNCHANGED onboardVars
  BY <1>2 DEF OnboardInv, onboardVars
<1>. QED
  BY <1>1, <1>2

LEMMA OnboardPromise ==
  ASSUME OnboardInv
  PROVE  OnboardTypeOK /\ ZeroMeansAll /\ GrantIsFound /\ DialogShown
<1>1. OnboardTypeOK
  BY OnboardShape DEF OnboardTypeOK, OnboardRecords, OnboardPCs, DaemonRecords
<1>. QED
  BY <1>1, OnboardShape DEF ZeroRule, FoundRule, ShownRule, Disturbed, ZeroMeansAll, GrantIsFound, DialogShown
-----------------------------------------------------------------------------
(* Installing: what the disk holds at each place of a command.             *)

InstallPCs == {"idle", "guard", "probe", "exists", "remove", "copy", "unlink", "link", "dropLink", "dropBundle"}
Disks == [bundle : [Places -> {"none", "part", "whole"}], link : {"none"} \cup Places]
CommandRecords == [pc : InstallPCs, what : {"none", "install", "uninstall"}, prefix : InstallPrefixes, src : Places,
                   force : BOOLEAN, skipLink : BOOLEAN, keep : BOOLEAN,
                   result : {"none", "ok", "refused", "failed", "killed"}, count : Nat, harmed : BOOLEAN]

\* What the link leads to is whole, unless it is the bundle p, which is being written.
LinkGood(d, p) == d.link \notin {"none", p} => d.bundle[d.link] = "whole"

\* What is copied from is there and, past the guard, is not what is written to; a command has touched nothing
\* before it removes or copies; and without a failure so far the link is good, or is being made so.
InstallRule(c, d, b) ==
  /\ c.what = "install" => d.bundle[c.src] = "whole"
  /\ c.pc \in {"probe", "exists", "remove", "copy", "unlink", "link"} => c.what = "install" /\ c.src # c.prefix
  /\ c.pc = "guard" => c.what = "install"
  /\ c.pc \in {"dropLink", "dropBundle"} => c.what = "uninstall"
  /\ c.pc # "idle" => c.result = "none"
  /\ c.pc \in {"guard", "probe", "exists"} \/ c.result = "refused" => d = b
  /\ ~c.harmed =>
       /\ c.pc \in {"idle", "guard", "probe", "exists", "remove", "dropLink"} => LinkGood(d, "none")
       /\ c.pc = "copy" => LinkGood(d, c.prefix)
       /\ c.pc = "unlink" => LinkGood(d, "none") /\ d.bundle[c.prefix] = "whole"
       /\ c.pc = "link" => d.link = "none" /\ d.bundle[c.prefix] = "whole"
       /\ c.pc = "dropBundle" => d.link = "none"

InstallInv == cmd \in CommandRecords /\ disk \in Disks /\ before \in Disks /\ InstallRule(cmd, disk, before)

LEMMA InstallBegins ==
  ASSUME InstallInit
  PROVE  InstallInv
BY DEF InstallInit, InstallInv, InstallRule, LinkGood, CommandRecords, Disks, NoCommand, InstallPCs, Places, InstallPrefixes

\* The next record of a command that goes on or ends.
LEMMA CommandGoes ==
  ASSUME NEW c \in CommandRecords, NEW p \in InstallPCs
  PROVE  /\ [c EXCEPT !.pc = p] \in CommandRecords
         /\ [c EXCEPT !.pc = p].pc = p /\ [c EXCEPT !.pc = p].result = c.result /\ [c EXCEPT !.pc = p].what = c.what
         /\ [c EXCEPT !.pc = p].src = c.src /\ [c EXCEPT !.pc = p].prefix = c.prefix /\ [c EXCEPT !.pc = p].harmed = c.harmed
BY DEF CommandRecords

LEMMA CommandEnds ==
  ASSUME cmd \in CommandRecords, NEW r \in {"ok", "refused", "failed", "killed"}
  PROVE  /\ Finished(r) \in CommandRecords
         /\ Finished(r).pc = "idle" /\ Finished(r).result = r /\ Finished(r).what = cmd.what
         /\ Finished(r).src = cmd.src /\ Finished(r).prefix = cmd.prefix
         /\ Finished(r).harmed = (cmd.harmed \/ r \in {"failed", "killed"})
BY DEF Finished, CommandRecords, InstallPCs

\* A bundle of the disk, or its link, is written.
LEMMA BundleWritten ==
  ASSUME NEW d \in Disks, NEW p \in Places, NEW v \in {"none", "part", "whole"}, NEW e, e = [d EXCEPT !.bundle[p] = v]
  PROVE  /\ e \in Disks /\ e.link = d.link /\ e.bundle[p] = v
         /\ \A q \in Places : q # p => e.bundle[q] = d.bundle[q]
<1>1. PICK f : f = [d.bundle EXCEPT ![p] = v]
  OBVIOUS
<1>2. f \in [Places -> {"none", "part", "whole"}] /\ f[p] = v /\ \A q \in Places : q # p => f[q] = d.bundle[q]
  BY <1>1 DEF Disks
<1>3. e = [d EXCEPT !.bundle = f]
  BY <1>1 DEF Disks
<1>4. e \in Disks
  BY <1>2, <1>3 DEF Disks
<1>5. e.link = d.link /\ e.bundle = f
  BY <1>3 DEF Disks
<1>. QED
  BY <1>2, <1>4, <1>5

LEMMA LinkWritten ==
  ASSUME NEW d \in Disks, NEW l \in {"none"} \cup Places
  PROVE  [d EXCEPT !.link = l] \in Disks /\ [d EXCEPT !.link = l].link = l /\ [d EXCEPT !.link = l].bundle = d.bundle
BY DEF Disks

LEMMA CommandsBegin ==
  ASSUME InstallInv, NEW p \in InstallPrefixes,
         (\E src \in Places, force, skipLink \in BOOLEAN : BeginInstall(p, src, force, skipLink))
           \/ \E keep \in BOOLEAN : BeginUninstall(p, keep)
  PROVE  InstallInv'
<1>0. cmd \in CommandRecords /\ disk \in Disks /\ InstallRule(cmd, disk, before)
  BY DEF InstallInv
<1>3. NoCommand \in CommandRecords
  BY DEF NoCommand, CommandRecords, InstallPCs, InstallPrefixes, Places
<1>1. ASSUME NEW src \in Places, NEW force \in BOOLEAN, NEW skipLink \in BOOLEAN, BeginInstall(p, src, force, skipLink)
      PROVE  InstallInv'
  <2>1. /\ cmd' = [NoCommand EXCEPT !.pc = "guard", !.what = "install", !.prefix = p, !.src = src, !.force = force,
                                     !.skipLink = skipLink, !.count = cmd.count + 1, !.harmed = cmd.harmed]
        /\ disk.bundle[src] = "whole" /\ cmd.pc = "idle" /\ disk' = disk /\ before' = disk
    BY <1>1 DEF BeginInstall
  <2>2. NoCommand.result = "none"
    BY DEF NoCommand
  <2>3. cmd' \in CommandRecords
    <3>1. cmd.count + 1 \in Nat /\ cmd.harmed \in BOOLEAN
      BY <1>0 DEF CommandRecords
    <3>. QED
      BY <1>3, <2>1, <3>1 DEF CommandRecords, InstallPCs
  <2>4. cmd'.pc = "guard" /\ cmd'.what = "install" /\ cmd'.src = src /\ cmd'.result = "none" /\ cmd'.harmed = cmd.harmed
    BY <1>3, <2>1, <2>2 DEF CommandRecords
  <2>. QED
    BY <1>0, <2>1, <2>3, <2>4 DEF InstallInv, InstallRule, LinkGood
<1>2. ASSUME NEW keep \in BOOLEAN, BeginUninstall(p, keep) PROVE InstallInv'
  <2>1. /\ cmd' = [NoCommand EXCEPT !.pc = "dropLink", !.what = "uninstall", !.prefix = p, !.keep = keep,
                                     !.count = cmd.count + 1, !.harmed = cmd.harmed]
        /\ cmd.pc = "idle" /\ disk' = disk /\ before' = disk
    BY <1>2 DEF BeginUninstall
  <2>2. NoCommand.result = "none"
    BY DEF NoCommand
  <2>3. cmd' \in CommandRecords
    <3>1. cmd.count + 1 \in Nat /\ cmd.harmed \in BOOLEAN
      BY <1>0 DEF CommandRecords
    <3>. QED
      BY <1>3, <2>1, <3>1 DEF CommandRecords, InstallPCs
  <2>4. cmd'.pc = "dropLink" /\ cmd'.what = "uninstall" /\ cmd'.result = "none" /\ cmd'.harmed = cmd.harmed
    BY <1>3, <2>1, <2>2 DEF CommandRecords
  <2>. QED
    BY <1>0, <2>1, <2>3, <2>4 DEF InstallInv, InstallRule, LinkGood
<1>. QED
  BY <1>1, <1>2

LEMMA InstallingKeeps ==
  ASSUME InstallInv, Guard \/ Probe \/ CheckExists \/ RemoveOld \/ Copy \/ Unlink \/ Link
  PROVE  InstallInv'
<1>0. /\ cmd \in CommandRecords /\ disk \in Disks /\ before \in Disks /\ InstallRule(cmd, disk, before)
      /\ cmd.prefix \in Places /\ cmd.src \in Places /\ disk.link \in {"none"} \cup Places /\ cmd.prefix # "none"
  BY DEF InstallInv, CommandRecords, Disks, InstallPrefixes, Places
<1>1. CASE Guard \/ Probe \/ CheckExists
  <2>1. disk' = disk /\ before' = before /\ cmd.pc \in {"guard", "probe", "exists"}
    BY <1>1 DEF Guard, Probe, CheckExists
  <2>2. CASE cmd' = Finished("refused")
    BY <1>0, <2>1, <2>2, CommandEnds DEF InstallInv, InstallRule, LinkGood
  <2>3. CASE cmd' = [cmd EXCEPT !.pc = "probe"] /\ cmd.pc = "guard" /\ cmd.src # cmd.prefix
    <3>1. "probe" \in InstallPCs
      BY DEF InstallPCs
    <3>. QED
      BY <1>0, <2>1, <2>3, <3>1, CommandGoes DEF InstallInv, InstallRule, LinkGood
  <2>4. CASE cmd' = [cmd EXCEPT !.pc = "exists"] /\ cmd.pc = "probe"
    <3>1. "exists" \in InstallPCs
      BY DEF InstallPCs
    <3>. QED
      BY <1>0, <2>1, <2>4, <3>1, CommandGoes DEF InstallInv, InstallRule, LinkGood
  <2>5. CASE cmd' = [cmd EXCEPT !.pc = "copy"] /\ disk.bundle[cmd.prefix] = "none" /\ cmd.pc = "exists"
    <3>1. "copy" \in InstallPCs
      BY DEF InstallPCs
    <3>. QED
      BY <1>0, <2>1, <2>5, <3>1, CommandGoes DEF InstallInv, InstallRule, LinkGood
  <2>6. CASE cmd' = [cmd EXCEPT !.pc = "remove"] /\ cmd.pc = "exists"
    <3>1. "remove" \in InstallPCs
      BY DEF InstallPCs
    <3>. QED
      BY <1>0, <2>1, <2>6, <3>1, CommandGoes DEF InstallInv, InstallRule, LinkGood
  <2>. QED
    BY <1>1, <2>2, <2>3, <2>4, <2>5, <2>6 DEF Guard, Probe, CheckExists
<1>2. CASE RemoveOld
  <2>1. before' = before /\ cmd.pc = "remove" /\ "copy" \in InstallPCs
    BY <1>2 DEF RemoveOld, InstallPCs
  <2>2. CASE disk' = [disk EXCEPT !.bundle[cmd.prefix] = "none"] /\ cmd' = [cmd EXCEPT !.pc = "copy"]
    <3>1. /\ disk' \in Disks /\ disk'.link = disk.link /\ \A q \in Places : q # cmd.prefix => disk'.bundle[q] = disk.bundle[q]
      BY <1>0, <2>2, BundleWritten
    <3>. QED
      BY <1>0, <2>1, <2>2, <3>1, CommandGoes DEF InstallInv, InstallRule, LinkGood
  <2>3. CASE disk' = [disk EXCEPT !.bundle[cmd.prefix] = "part"] /\ cmd' = Finished("failed")
    <3>1. /\ disk' \in Disks /\ \A q \in Places : q # cmd.prefix => disk'.bundle[q] = disk.bundle[q]
      BY <1>0, <2>3, BundleWritten
    <3>. QED
      BY <1>0, <2>1, <2>3, <3>1, CommandEnds DEF InstallInv, InstallRule, LinkGood
  <2>. QED
    BY <1>2, <2>2, <2>3 DEF RemoveOld
<1>3. CASE Copy
  <2>1. before' = before /\ cmd.pc = "copy" /\ "unlink" \in InstallPCs
    BY <1>3 DEF Copy, InstallPCs
  <2>2. CASE disk' = [disk EXCEPT !.bundle[cmd.prefix] = "whole"] /\ (cmd' = Finished("ok") \/ cmd' = [cmd EXCEPT !.pc = "unlink"])
    <3>1. /\ disk' \in Disks /\ disk'.link = disk.link /\ disk'.bundle[cmd.prefix] = "whole"
          /\ \A q \in Places : q # cmd.prefix => disk'.bundle[q] = disk.bundle[q]
      BY <1>0, <2>2, BundleWritten
    <3>2. CASE cmd' = Finished("ok")
      BY <1>0, <2>1, <3>1, <3>2, CommandEnds DEF InstallInv, InstallRule, LinkGood
    <3>3. CASE cmd' = [cmd EXCEPT !.pc = "unlink"]
      BY <1>0, <2>1, <3>1, <3>3, CommandGoes DEF InstallInv, InstallRule, LinkGood
    <3>. QED
      BY <2>2, <3>2, <3>3
  <2>3. CASE disk' = [disk EXCEPT !.bundle[cmd.prefix] = "part"] /\ cmd' = Finished("failed")
    <3>1. /\ disk' \in Disks /\ \A q \in Places : q # cmd.prefix => disk'.bundle[q] = disk.bundle[q]
      BY <1>0, <2>3, BundleWritten
    <3>. QED
      BY <1>0, <2>1, <2>3, <3>1, CommandEnds DEF InstallInv, InstallRule, LinkGood
  <2>. QED
    BY <1>3, <2>2, <2>3 DEF Copy
<1>4. CASE Unlink
  <2>1. before' = before /\ cmd.pc = "unlink" /\ "link" \in InstallPCs
    BY <1>4 DEF Unlink, InstallPCs
  <2>2. CASE disk' = [disk EXCEPT !.link = "none"] /\ cmd' = [cmd EXCEPT !.pc = "link"]
    <3>1. disk' \in Disks /\ disk'.link = "none" /\ disk'.bundle = disk.bundle
      BY <1>0, <2>2, LinkWritten
    <3>. QED
      BY <1>0, <2>1, <2>2, <3>1, CommandGoes DEF InstallInv, InstallRule, LinkGood
  <2>3. CASE cmd' = Finished("failed") /\ disk' = disk
    BY <1>0, <2>1, <2>3, CommandEnds DEF InstallInv, InstallRule, LinkGood
  <2>. QED
    BY <1>4, <2>2, <2>3 DEF Unlink
<1>5. CASE Link
  <2>1. before' = before /\ cmd.pc = "link"
    BY <1>5 DEF Link
  <2>2. CASE disk' = [disk EXCEPT !.link = cmd.prefix] /\ cmd' = Finished("ok")
    <3>1. disk' \in Disks /\ disk'.link = cmd.prefix /\ disk'.bundle = disk.bundle
      BY <1>0, <2>2, LinkWritten
    <3>. QED
      BY <1>0, <2>1, <2>2, <3>1, CommandEnds DEF InstallInv, InstallRule, LinkGood
  <2>3. CASE cmd' = Finished("failed") /\ disk' = disk
    BY <1>0, <2>1, <2>3, CommandEnds DEF InstallInv, InstallRule, LinkGood
  <2>. QED
    BY <1>5, <2>2, <2>3 DEF Link
<1>. QED
  BY <1>1, <1>2, <1>3, <1>4, <1>5

LEMMA UninstallingKeeps ==
  ASSUME InstallInv, DropLink \/ DropBundle \/ Killed
  PROVE  InstallInv'
<1>0. /\ cmd \in CommandRecords /\ disk \in Disks /\ before \in Disks /\ InstallRule(cmd, disk, before)
      /\ cmd.prefix \in Places /\ cmd.src \in Places /\ disk.link \in {"none"} \cup Places
  BY DEF InstallInv, CommandRecords, Disks, InstallPrefixes, Places
<1>1. CASE DropLink
  <2>1. before' = before /\ cmd.pc = "dropLink" /\ "dropBundle" \in InstallPCs
    BY <1>1 DEF DropLink, InstallPCs
  <2>2. CASE disk' = [disk EXCEPT !.link = "none"] /\ (cmd' = Finished("ok") \/ cmd' = [cmd EXCEPT !.pc = "dropBundle"])
    <3>1. disk' \in Disks /\ disk'.link = "none" /\ disk'.bundle = disk.bundle
      BY <1>0, <2>2, LinkWritten
    <3>2. CASE cmd' = Finished("ok")
      BY <1>0, <2>1, <3>1, <3>2, CommandEnds DEF InstallInv, InstallRule, LinkGood
    <3>3. CASE cmd' = [cmd EXCEPT !.pc = "dropBundle"]
      BY <1>0, <2>1, <3>1, <3>3, CommandGoes DEF InstallInv, InstallRule, LinkGood
    <3>. QED
      BY <2>2, <3>2, <3>3
  <2>3. CASE cmd' = Finished("failed") /\ disk' = disk
    BY <1>0, <2>1, <2>3, CommandEnds DEF InstallInv, InstallRule, LinkGood
  <2>. QED
    BY <1>1, <2>2, <2>3 DEF DropLink
<1>2. CASE DropBundle
  <2>1. before' = before /\ cmd.pc = "dropBundle"
    BY <1>2 DEF DropBundle
  <2>2. ASSUME NEW v \in {"none", "part"}, disk' = [disk EXCEPT !.bundle[cmd.prefix] = v],
               NEW r \in {"ok", "failed"}, cmd' = Finished(r)
        PROVE  InstallInv'
    <3>1. disk' \in Disks /\ disk'.link = disk.link
      BY <1>0, <2>2, BundleWritten
    <3>. QED
      BY <1>0, <2>1, <2>2, <3>1, CommandEnds DEF InstallInv, InstallRule, LinkGood
  <2>. QED
    BY <1>2, <2>2 DEF DropBundle
<1>3. CASE Killed
  <2>1. disk' = disk /\ before' = before /\ cmd' = Finished("killed")
    BY <1>3 DEF Killed
  <2>. QED
    BY <1>0, <2>1, CommandEnds DEF InstallInv, InstallRule, LinkGood
<1>. QED
  BY <1>1, <1>2, <1>3

LEMMA InstallKeeps ==
  ASSUME InstallInv, InstallNext \/ UNCHANGED installVars
  PROVE  InstallInv'
<1>1. CASE InstallNext
  BY <1>1, CommandsBegin, InstallingKeeps, UninstallingKeeps DEF InstallNext
<1>2. CASE UNCHANGED installVars
  BY <1>2 DEF InstallInv, installVars
<1>. QED
  BY <1>1, <1>2

LEMMA InstallPromise ==
  ASSUME InstallInv
  PROVE  InstallTypeOK /\ SourceSurvives /\ RefusalTouchesNothing /\ LinkWorks
BY DEF InstallInv, InstallRule, LinkGood, CommandRecords, Disks, InstallPCs, InstallTypeOK, SourceSurvives,
       RefusalTouchesNothing, LinkWorks
-----------------------------------------------------------------------------
(* The commands together: each runs while the others rest.                 *)

CommandsInv == WaitsInv /\ RecorderInv /\ OnboardInv /\ InstallInv

LEMMA CommandsBeginning == ClientsInit => CommandsInv
BY WaitsBegin, RecorderBegins, OnboardBegins, InstallBegins DEF ClientsInit, CommandsInv

LEMMA CommandsStep == CommandsInv /\ [ClientsNext]_<<client, clientVars>> => CommandsInv'
<1>. SUFFICES ASSUME CommandsInv, [ClientsNext]_<<client, clientVars>> PROVE CommandsInv'
  OBVIOUS
<1>1. WaitsNext \/ UNCHANGED waitVars
  BY DEF ClientsNext, clientVars, InboxPart, WaitPart, RecordPart, OnboardPart, InstallPart, EndpointPart, ClockPart, HandoffPart
<1>2. RecorderNext \/ UNCHANGED recorderVars
  BY DEF ClientsNext, clientVars, InboxPart, WaitPart, RecordPart, OnboardPart, InstallPart, EndpointPart, ClockPart, HandoffPart
<1>3. OnboardNext \/ UNCHANGED onboardVars
  BY DEF ClientsNext, clientVars, InboxPart, WaitPart, RecordPart, OnboardPart, InstallPart, EndpointPart, ClockPart, HandoffPart
<1>4. InstallNext \/ UNCHANGED installVars
  BY DEF ClientsNext, clientVars, InboxPart, WaitPart, RecordPart, OnboardPart, InstallPart, EndpointPart, ClockPart, HandoffPart
<1>. QED
  BY <1>1, <1>2, <1>3, <1>4, WaitsKeep, RecorderKeeps, OnboardKeeps, InstallKeeps DEF CommandsInv

\* What wait, record, onboard and install report when they end is so: for every number of pictures,
\* frames, permissions and places, every window, threshold and deadline, and whatever the desktop, the
\* session, the user, launchd and the disk do meanwhile.
THEOREM CommandsAreTrue == ClientsSpec => []CommandsTellTruth
<1>1. CommandsInv => CommandsTellTruth
  BY WaitsPromise, RecorderPromise, OnboardPromise, InstallPromise DEF CommandsInv, CommandsTellTruth
<1>. QED
  BY <1>1, CommandsBeginning, CommandsStep, PTL DEF ClientsSpec
-----------------------------------------------------------------------------
(* The clock exchange: every stamp is taken after the ones before it.      *)

HeldUpTo(n) == {h \in [t1 : Nat, t2 : Nat] : h.t1 + Offset <= h.t2 /\ h.t2 <= n + Offset}
PongsUpTo(n) == {p \in [t1 : Nat, t2 : Nat, t3 : Nat] : p.t1 + Offset <= p.t2 /\ p.t2 <= p.t3 /\ p.t3 <= n + Offset}
SampleRecords == {s \in [t1 : Nat, t2 : Nat, t3 : Nat, t4 : Nat] :
                    s.t1 + Offset <= s.t2 /\ s.t2 <= s.t3 /\ s.t3 <= s.t4 + Offset}

ClockInv ==
  /\ now \in Nat
  /\ clock \in [last : Int, pending : Int, samples : Seq(SampleRecords)]
  /\ exchange \in [pings : Seq(0..now), held : Seq(HeldUpTo(now)), pongs : Seq(PongsUpTo(now))]

LEMMA ClockBegins == ClockInit => ClockInv
<1>. SUFFICES ASSUME ClockInit PROVE ClockInv
  OBVIOUS
<1>1. 0 - Period \in Int /\ NoPing \in Int
  BY ClockSyncAssumption DEF NoPing
<1>2. \A S : <<>> \in Seq(S)
  OBVIOUS
<1>3. clock \in [last : Int, pending : Int, samples : Seq(SampleRecords)]
  BY <1>1, <1>2 DEF ClockInit
<1>4. exchange \in [pings : Seq(0..now), held : Seq(HeldUpTo(now)), pongs : Seq(PongsUpTo(now))]
  BY <1>2 DEF ClockInit
<1>. QED
  BY <1>3, <1>4 DEF ClockInv, ClockInit

LEMMA LargerSeq ==
  ASSUME NEW S, NEW T, S \subseteq T, NEW q \in Seq(S)
  PROVE  q \in Seq(T)
OBVIOUS

LEMMA ClockShape ==
  ASSUME ClockInv
  PROVE  /\ now \in Nat /\ Offset \in Nat /\ clock.last \in Int /\ clock.pending \in Int
         /\ clock.samples \in Seq(SampleRecords) /\ exchange.pings \in Seq(0..now)
         /\ exchange.held \in Seq(HeldUpTo(now)) /\ exchange.pongs \in Seq(PongsUpTo(now))
         /\ clock \in [last : Int, pending : Int, samples : Seq(SampleRecords)]
         /\ exchange \in [pings : Seq(0..now), held : Seq(HeldUpTo(now)), pongs : Seq(PongsUpTo(now))]
BY ClockSyncAssumption DEF ClockInv

LEMMA TickKeeps ==
  ASSUME ClockInv, Tick
  PROVE  ClockInv'
<1>1. now' = now + 1 /\ clock' = clock /\ exchange' = exchange /\ now' \in Nat
  BY ClockShape DEF Tick
<1>2. 0..now \subseteq 0..now'
  BY <1>1, ClockShape
<1>3. HeldUpTo(now) \subseteq HeldUpTo(now')
  BY <1>1, ClockShape DEF HeldUpTo
<1>4. PongsUpTo(now) \subseteq PongsUpTo(now')
  BY <1>1, ClockShape DEF PongsUpTo
<1>5. exchange.pings \in Seq(0..now')
  BY <1>2, ClockShape, LargerSeq
<1>6. exchange.held \in Seq(HeldUpTo(now'))
  BY <1>3, ClockShape, LargerSeq
<1>7. exchange.pongs \in Seq(PongsUpTo(now'))
  BY <1>4, ClockShape, LargerSeq
<1>8. exchange \in [pings : Seq(0..now'), held : Seq(HeldUpTo(now')), pongs : Seq(PongsUpTo(now'))]
  BY <1>5, <1>6, <1>7, ClockShape
<1>. QED
  BY <1>1, <1>8, ClockShape DEF ClockInv, HeldUpTo, PongsUpTo

\* A message is added to a queue, or taken from it.
LEMMA QueueMoves ==
  ASSUME NEW S, NEW q \in Seq(S)
  PROVE  /\ \A x \in S : Append(q, x) \in Seq(S)
         /\ q # <<>> => Head(q) \in S /\ Tail(q) \in Seq(S)
OBVIOUS

LEMMA PingKeeps ==
  ASSUME ClockInv, SendPing
  PROVE  ClockInv'
<1>1. PICK q : q = Append(exchange.pings, now)
  OBVIOUS
<1>2. clock' = [clock EXCEPT !.last = now, !.pending = now] /\ exchange' = [exchange EXCEPT !.pings = q] /\ now' = now
  BY <1>1 DEF SendPing
<1>3. now \in 0..now /\ now \in Int
  BY ClockShape
<1>4. q \in Seq(0..now)
  BY <1>1, <1>3, ClockShape, QueueMoves
<1>5. clock' \in [last : Int, pending : Int, samples : Seq(SampleRecords)]
  BY <1>2, <1>3, ClockShape
<1>6. exchange' \in [pings : Seq(0..now), held : Seq(HeldUpTo(now)), pongs : Seq(PongsUpTo(now))]
  BY <1>2, <1>4, ClockShape
<1>. QED
  BY <1>2, <1>5, <1>6, ClockShape DEF ClockInv, HeldUpTo, PongsUpTo

LEMMA ReceivePingKeeps ==
  ASSUME ClockInv, ReceivePing
  PROVE  ClockInv'
<1>1. PICK q, h, l : q = Tail(exchange.pings) /\ h = [t1 |-> Head(exchange.pings), t2 |-> now + Offset] /\ l = <<h>>
  OBVIOUS
<1>2. /\ exchange' = [exchange EXCEPT !.pings = q, !.held = l] /\ now' = now /\ clock' = clock
      /\ exchange.pings # <<>>
  BY <1>1 DEF ReceivePing
<1>3. q \in Seq(0..now) /\ Head(exchange.pings) \in 0..now
  BY <1>1, <1>2, ClockShape, QueueMoves
<1>4. h \in HeldUpTo(now)
  BY <1>1, <1>3, ClockShape DEF HeldUpTo
<1>5. l \in Seq(HeldUpTo(now))
  BY <1>1, <1>4
<1>6. exchange' \in [pings : Seq(0..now), held : Seq(HeldUpTo(now)), pongs : Seq(PongsUpTo(now))]
  BY <1>2, <1>3, <1>5, ClockShape
<1>. QED
  BY <1>2, <1>6, ClockShape DEF ClockInv, HeldUpTo, PongsUpTo

LEMMA PongKeeps ==
  ASSUME ClockInv, SendPong
  PROVE  ClockInv'
<1>1. PICK h : h = exchange.held[1]
  OBVIOUS
<1>2. PICK p, q, e : p = [t1 |-> h.t1, t2 |-> h.t2, t3 |-> now + Offset] /\ q = Append(exchange.pongs, p) /\ e = <<>>
  OBVIOUS
<1>3. exchange' = [exchange EXCEPT !.held = e, !.pongs = q] /\ now' = now /\ clock' = clock /\ exchange.held # <<>>
  BY <1>1, <1>2 DEF SendPong
<1>4. h \in HeldUpTo(now)
  <2>1. \A l \in Seq(HeldUpTo(now)) : l # <<>> => l[1] \in HeldUpTo(now)
    OBVIOUS
  <2>. QED
    BY <1>1, <1>3, <2>1, ClockShape
<1>5. p \in PongsUpTo(now)
  BY <1>2, <1>4, ClockShape DEF HeldUpTo, PongsUpTo
<1>6. q \in Seq(PongsUpTo(now)) /\ e \in Seq(HeldUpTo(now))
  BY <1>2, <1>5, ClockShape, QueueMoves
<1>7. exchange' \in [pings : Seq(0..now), held : Seq(HeldUpTo(now)), pongs : Seq(PongsUpTo(now))]
  BY <1>3, <1>6, ClockShape
<1>. QED
  BY <1>3, <1>7, ClockShape DEF ClockInv, HeldUpTo, PongsUpTo

LEMMA ReceivePongKeeps ==
  ASSUME ClockInv, ReceivePong
  PROVE  ClockInv'
<1>1. PICK p, q : p = Head(exchange.pongs) /\ q = Tail(exchange.pongs)
  OBVIOUS
<1>2. exchange.pongs # <<>> /\ exchange' = [exchange EXCEPT !.pongs = q] /\ now' = now
  BY <1>1 DEF ReceivePong
<1>3. p \in PongsUpTo(now) /\ q \in Seq(PongsUpTo(now))
  BY <1>1, <1>2, ClockShape, QueueMoves
<1>4. PICK s, kept : /\ s = [t1 |-> p.t1, t2 |-> p.t2, t3 |-> p.t3, t4 |-> now]
                     /\ kept = IF Len(clock.samples) = Window THEN Tail(clock.samples) ELSE clock.samples
  OBVIOUS
<1>5. s \in SampleRecords
  BY <1>3, <1>4, ClockShape DEF PongsUpTo, SampleRecords
<1>6. kept \in Seq(SampleRecords)
  <2>1. Len(<<>>) = 0 /\ Window # 0
    BY ClockSyncAssumption
  <2>. QED
    BY <1>4, <2>1, ClockShape, QueueMoves
<1>7. PICK k : k = IF clock.pending = p.t1 THEN Append(kept, s) ELSE clock.samples
  OBVIOUS
<1>8. k \in Seq(SampleRecords)
  BY <1>5, <1>6, <1>7, ClockShape, QueueMoves
<1>9. clock' = [clock EXCEPT !.pending = NoPing, !.samples = k]
  BY <1>1, <1>4, <1>7, Zenon DEF ReceivePong
<1>10. NoPing \in Int
  BY DEF NoPing
<1>11. clock' \in [last : Int, pending : Int, samples : Seq(SampleRecords)]
  BY <1>8, <1>9, <1>10, ClockShape
<1>12. exchange' \in [pings : Seq(0..now), held : Seq(HeldUpTo(now)), pongs : Seq(PongsUpTo(now))]
  BY <1>2, <1>3, ClockShape
<1>. QED
  BY <1>2, <1>11, <1>12, ClockShape DEF ClockInv, HeldUpTo, PongsUpTo

LEMMA ClockKeeps ==
  ASSUME ClockInv, ClockNext \/ UNCHANGED clockVars
  PROVE  ClockInv'
<1>1. CASE ClockNext
  BY <1>1, TickKeeps, PingKeeps, ReceivePingKeeps, PongKeeps, ReceivePongKeeps DEF ClockNext
<1>2. CASE UNCHANGED clockVars
  BY <1>2 DEF ClockInv, clockVars, HeldUpTo, PongsUpTo
<1>. QED
  BY <1>1, <1>2

\* Half of a number, rounded toward zero.
LEMMA HalfOf ==
  ASSUME NEW n \in Int
  PROVE  Quotient(n, 2) \in Int /\ 2 * Quotient(n, 2) - n \in -1..1
<1>1. CASE n >= 0
  <2>1. Quotient(n, 2) = n \div 2
    BY <1>1 DEF Quotient, Abs
  <2>. QED
    BY <1>1, <2>1
<1>2. CASE n < 0
  <2>1. Quotient(n, 2) = -((-n) \div 2)
    BY <1>2 DEF Quotient, Abs
  <2>. QED
    BY <1>2, <2>1
<1>. QED
  BY <1>1, <1>2

LEMMA ClockPromise ==
  ASSUME ClockInv
  PROVE  SampleWithinHalfRoundTrip
<1>1. ASSUME NEW i \in DOMAIN clock.samples, NEW s, s = clock.samples[i]
      PROVE  2 * Abs(RemoteMinusLocal(s) - Offset) <= Rtt(s) + 1
  <2>1. s \in SampleRecords
    <3>1. \A q \in Seq(SampleRecords) : \A j \in DOMAIN q : q[j] \in SampleRecords
      OBVIOUS
    <3>. QED
      BY <1>1, <3>1, ClockShape
  <2>2. /\ s.t1 \in Nat /\ s.t2 \in Nat /\ s.t3 \in Nat /\ s.t4 \in Nat /\ Offset \in Nat
        /\ s.t1 + Offset <= s.t2 /\ s.t2 <= s.t3 /\ s.t3 <= s.t4 + Offset
    BY <2>1, ClockShape DEF SampleRecords
  <2>3. Rtt(s) = (s.t4 - s.t1) - (s.t3 - s.t2)
    <3>1. Minus(s.t4, s.t1) = s.t4 - s.t1 /\ Minus(s.t3, s.t2) = s.t3 - s.t2
      BY <2>2 DEF Minus
    <3>2. Minus(s.t4 - s.t1, s.t3 - s.t2) = (s.t4 - s.t1) - (s.t3 - s.t2)
      BY <2>2 DEF Minus
    <3>. QED
      BY <3>1, <3>2 DEF Rtt
  <2>4. PICK n \in Int : n = (s.t2 - s.t1) + (s.t3 - s.t4)
    BY <2>2
  <2>5. RemoteMinusLocal(s) = Quotient(n, 2)
    BY <2>4 DEF RemoteMinusLocal
  <2>6. RemoteMinusLocal(s) \in Int /\ 2 * RemoteMinusLocal(s) - n \in -1..1
    BY <2>5, HalfOf
  <2>. QED
    BY <2>2, <2>3, <2>4, <2>6 DEF Abs
<1>. QED
  BY <1>1 DEF SampleWithinHalfRoundTrip
-----------------------------------------------------------------------------
(* The endpoint: whom a starting daemon may meet, and what it finds.       *)

DaemonPCs == StartingUp \cup Serving \cup {"off", "exited"}
EndpointDaemons == [pc : DaemonPCs, step : {"see", "remove", "bind"},
                    why : {"none", "store", "remove", "bind", "instance", "killed"}, rival : BOOLEAN, armed : BOOLEAN]

\* A daemon without a rival is up while no other one starts.
AloneRule(ds) ==
  \A d, e \in Daemons : ds[d].pc \in StartingUp \cup Serving /\ ~ds[d].rival /\ e # d => ds[e].pc \notin StartingUp

\* What such a daemon has seen and written at its paths is still there.
FileRule(x, d, fs) ==
  x.rival \/
  /\ x.pc \in Paths /\ x.step = "remove" => fs[x.pc] # NoDaemon
  /\ x.pc \in Paths /\ x.step = "bind" => fs[x.pc] = NoDaemon
  /\ x.pc = "control" => fs["capture"] = d
  /\ x.pc = "serving" => fs["capture"] = d /\ fs["control"] = d

ServerRule(ds) == os = "windows" => \A d, e \in Daemons : ds[d].pc \in Serving /\ ds[e].pc \in Serving => d = e
StartRule(x) == (x.why \in {"remove", "bind"} => x.rival) /\ (x.pc = "off" => x.why = "none")

EndpointInv ==
  /\ os \in {"unix", "windows"} /\ dmn \in [Daemons -> EndpointDaemons] /\ file \in [Paths -> Daemons \cup {NoDaemon}]
  /\ link \in [Clients -> [pc : {"idle", "open", "served", "refused"}, to : Daemons \cup {NoDaemon}]]
  /\ AloneRule(dmn) /\ ServerRule(dmn) /\ (os = "unix" => \A d \in Daemons : FileRule(dmn[d], d, file))
  /\ \A d \in Daemons : StartRule(dmn[d])

LEMMA EndpointShape ==
  ASSUME EndpointInv
  PROVE  /\ os \in {"unix", "windows"} /\ dmn \in [Daemons -> EndpointDaemons] /\ file \in [Paths -> Daemons \cup {NoDaemon}]
         /\ link \in [Clients -> [pc : {"idle", "open", "served", "refused"}, to : Daemons \cup {NoDaemon}]]
         /\ AloneRule(dmn) /\ ServerRule(dmn) /\ (os = "unix" => \A d \in Daemons : FileRule(dmn[d], d, file))
         /\ \A d \in Daemons : StartRule(dmn[d]) /\ dmn[d] \in EndpointDaemons
         /\ NoDaemon \notin Daemons
BY EndpointAssumption DEF EndpointInv

LEMMA EndpointBegins == EndpointInit => EndpointInv
<1>. SUFFICES ASSUME EndpointInit PROVE EndpointInv
  OBVIOUS
<1>1. dmn \in [Daemons -> EndpointDaemons]
  BY DEF EndpointInit, EndpointDaemons, DaemonPCs
<1>2. \A d \in Daemons : dmn[d].pc = "off" /\ dmn[d].why = "none"
  BY DEF EndpointInit
<1>3. file \in [Paths -> Daemons \cup {NoDaemon}] /\ os \in {"unix", "windows"}
  BY DEF EndpointInit
<1>4. link \in [Clients -> [pc : {"idle", "open", "served", "refused"}, to : Daemons \cup {NoDaemon}]]
  BY DEF EndpointInit
<1>. QED
  BY <1>1, <1>2, <1>3, <1>4
     DEF EndpointInv, AloneRule, ServerRule, FileRule, StartRule, StartingUp, Serving, Paths

\* One daemon goes on; only a daemon that starts touches the files.
LEMMA OneDaemonGoes ==
  ASSUME EndpointInv, NEW d \in Daemons, os' = os, dmn' \in [Daemons -> EndpointDaemons],
         \A e \in Daemons : e # d => dmn'[e] = dmn[e],
         dmn'[d].rival = dmn[d].rival,
         dmn'[d].pc \in StartingUp \cup Serving => dmn[d].pc \in StartingUp \cup Serving,
         dmn'[d].pc \in StartingUp => dmn[d].pc \in StartingUp,
         os = "windows" /\ dmn'[d].pc \in Serving =>
           dmn[d].pc \in Serving \/ \A e \in Daemons \ {d} : dmn[e].pc \notin Serving,
         StartRule(dmn'[d]), file' \in [Paths -> Daemons \cup {NoDaemon}],
         file' = file \/ (os = "unix" /\ dmn[d].pc \in StartingUp), os = "unix" => FileRule(dmn'[d], d, file'),
         link' \in [Clients -> [pc : {"idle", "open", "served", "refused"}, to : Daemons \cup {NoDaemon}]]
  PROVE  EndpointInv'
<1>1. AloneRule(dmn')
  BY EndpointShape DEF AloneRule
<1>2. ServerRule(dmn')
  BY EndpointShape DEF ServerRule
<1>3. ASSUME os = "unix", NEW e \in Daemons
      PROVE  FileRule(dmn'[e], e, file')
  <2>1. CASE e = d
    BY <1>3, <2>1
  <2>2. CASE e # d /\ file' = file
    BY <1>3, <2>2, EndpointShape
  <2>3. CASE e # d /\ dmn[d].pc \in StartingUp
    <3>1. dmn'[e] = dmn[e] /\ (dmn[e].rival \/ dmn[e].pc \notin StartingUp \cup Serving)
      BY <2>3, EndpointShape DEF AloneRule
    <3>. QED
      BY <3>1 DEF FileRule, StartingUp, Serving, Paths
  <2>. QED
    BY <2>1, <2>2, <2>3
<1>4. \A e \in Daemons : StartRule(dmn'[e])
  BY EndpointShape
<1>. QED
  BY <1>1, <1>2, <1>3, <1>4, EndpointShape DEF EndpointInv, ServerRule

\* The next place of a daemon's start, or its end.
LEMMA GoOnShape ==
  ASSUME EndpointInv, NEW d \in Daemons, NEW p \in DaemonPCs, GoOn(d, p)
  PROVE  /\ dmn' \in [Daemons -> EndpointDaemons] /\ \A e \in Daemons : e # d => dmn'[e] = dmn[e]
         /\ dmn'[d].pc = p /\ dmn'[d].step = "see" /\ dmn'[d].rival = dmn[d].rival /\ dmn'[d].why = dmn[d].why
BY EndpointShape DEF GoOn, EndpointDaemons

LEMMA ExitShape ==
  ASSUME EndpointInv, NEW d \in Daemons, NEW w \in {"none", "store", "remove", "bind", "instance", "killed"}, ExitDaemon(d, w)
  PROVE  /\ dmn' \in [Daemons -> EndpointDaemons] /\ \A e \in Daemons : e # d => dmn'[e] = dmn[e]
         /\ dmn'[d].pc = "exited" /\ dmn'[d].rival = dmn[d].rival /\ dmn'[d].why = w
<1>1. "exited" \in DaemonPCs
  BY DEF DaemonPCs
<1>2. dmn' = [dmn EXCEPT ![d].pc = "exited", ![d].why = w]
  BY DEF ExitDaemon
<1>3. PICK x : x = [dmn[d] EXCEPT !.pc = "exited", !.why = w]
  OBVIOUS
<1>4. x \in EndpointDaemons
  BY <1>1, <1>3, EndpointShape DEF EndpointDaemons
<1>5. x.pc = "exited" /\ x.rival = dmn[d].rival /\ x.why = w
  BY <1>3, EndpointShape DEF EndpointDaemons
<1>6. dmn' = [dmn EXCEPT ![d] = x]
  BY <1>2, <1>3, EndpointShape
<1>. QED
  BY <1>4, <1>5, <1>6, EndpointShape

LEMMA ExitKeeps ==
  ASSUME EndpointInv, NEW d \in Daemons, NEW w \in {"none", "store", "remove", "bind", "instance", "killed"}, ExitDaemon(d, w),
         w \in {"remove", "bind"} => dmn[d].rival, UNCHANGED <<os, file, link>>
  PROVE  EndpointInv'
<1>1. /\ dmn' \in [Daemons -> EndpointDaemons] /\ \A e \in Daemons : e # d => dmn'[e] = dmn[e]
      /\ dmn'[d].pc = "exited" /\ dmn'[d].rival = dmn[d].rival /\ dmn'[d].why = w
  BY ExitShape
<1>2. StartRule(dmn'[d])
  BY <1>1 DEF StartRule
<1>3. dmn'[d].pc \notin StartingUp \cup Serving
  BY <1>1 DEF StartingUp, Serving, Paths
<1>4. FileRule(dmn'[d], d, file')
  BY <1>1 DEF FileRule, Paths
<1>. QED
  BY <1>1, <1>2, <1>3, <1>4, OneDaemonGoes, EndpointShape

LEMMA StartKeeps ==
  ASSUME EndpointInv, NEW d \in Daemons, StartDaemon(d)
  PROVE  EndpointInv'
<1>1. dmn[d].pc = "off" /\ dmn' = Marked(d) /\ os' = os /\ file' = file /\ link' = link
  BY DEF StartDaemon
<1>2. PICK r \in BOOLEAN : r = \E f \in Daemons : dmn[f].pc \in StartingUp
  OBVIOUS
<1>3. dmn'[d] = [dmn[d] EXCEPT !.pc = "store", !.rival = r]
  BY <1>1, <1>2, Zenon DEF Marked
<1>4. dmn'[d] \in EndpointDaemons /\ dmn'[d].pc = "store" /\ dmn'[d].rival = r /\ dmn'[d].why = dmn[d].why
  <2>1. "store" \in DaemonPCs
    BY DEF DaemonPCs, StartingUp
  <2>2. dmn'[d] \in EndpointDaemons
    BY <1>3, <2>1, EndpointShape DEF EndpointDaemons
  <2>. QED
    BY <1>3, <2>2, EndpointShape DEF EndpointDaemons
<1>5. ASSUME NEW e \in Daemons, e # d
      PROVE  /\ dmn'[e] \in EndpointDaemons /\ dmn'[e].pc = dmn[e].pc /\ dmn'[e].why = dmn[e].why /\ dmn'[e].step = dmn[e].step
             /\ (dmn'[e].rival <=> (dmn[e].rival \/ Up(e)))
  <2>1. PICK b \in BOOLEAN : b = (dmn[e].rival \/ Up(e))
    OBVIOUS
  <2>2. dmn'[e] = [dmn[e] EXCEPT !.rival = b]
    BY <1>1, <1>5, <2>1, Zenon DEF Marked
  <2>3. dmn'[e] \in EndpointDaemons
    BY <2>2, EndpointShape DEF EndpointDaemons
  <2>4. dmn'[e].pc = dmn[e].pc /\ dmn'[e].why = dmn[e].why /\ dmn'[e].step = dmn[e].step /\ dmn'[e].rival = b
    BY <2>2, EndpointShape DEF EndpointDaemons
  <2>. QED
    BY <2>1, <2>3, <2>4, Zenon
<1>6. dmn' \in [Daemons -> EndpointDaemons]
  <2>1. \A e \in Daemons : dmn'[e] \in EndpointDaemons
    BY <1>4, <1>5
  <2>. QED
    BY <1>1, <2>1 DEF Marked
<1>7. AloneRule(dmn')
  <2>1. ASSUME NEW a \in Daemons, NEW e \in Daemons, dmn'[a].pc \in StartingUp \cup Serving, ~dmn'[a].rival, e # a
        PROVE  dmn'[e].pc \notin StartingUp
    <3>1. a = d
      BY <1>5, <2>1 DEF Up
    <3>2. ~r
      BY <1>4, <2>1, <3>1
    <3>3. dmn[e].pc \notin StartingUp
      BY <1>2, <3>2
    <3>. QED
      BY <1>5, <2>1, <3>1, <3>3
  <2>. QED
    BY <2>1 DEF AloneRule
<1>8. ServerRule(dmn')
  BY <1>1, <1>4, <1>5, EndpointShape DEF ServerRule, Serving
<1>9. ASSUME os = "unix", NEW e \in Daemons
      PROVE  FileRule(dmn'[e], e, file')
  <2>1. CASE e = d
    BY <1>4, <2>1 DEF FileRule, Paths
  <2>2. CASE e # d
    <3>1. FileRule(dmn[e], e, file)
      BY <1>9, EndpointShape
    <3>2. dmn[e].rival => dmn'[e].rival
      BY <1>5, <2>2
    <3>. QED
      BY <1>1, <1>5, <2>2, <3>1, <3>2 DEF FileRule
  <2>. QED
    BY <2>1, <2>2
<1>10. \A e \in Daemons : StartRule(dmn'[e])
  <2>1. \A e \in Daemons : e # d => StartRule(dmn'[e])
    BY <1>5, EndpointShape DEF StartRule
  <2>2. StartRule(dmn'[d])
    <3>1. dmn[d].why = "none"
      BY <1>1, EndpointShape DEF StartRule
    <3>. QED
      BY <1>4, <3>1 DEF StartRule
  <2>. QED
    BY <2>1, <2>2
<1>. QED
  BY <1>1, <1>6, <1>7, <1>8, <1>9, <1>10, EndpointShape DEF EndpointInv, ServerRule

LEMMA OpenStoreKeeps ==
  ASSUME EndpointInv, NEW d \in Daemons, OpenStore(d)
  PROVE  EndpointInv'
<1>0. dmn[d].pc = "store" /\ UNCHANGED <<os, file, link>>
  BY DEF OpenStore
<1>1. CASE ExitDaemon(d, "store")
  BY <1>0, <1>1, ExitKeeps
<1>2. ASSUME NEW p \in Paths, GoOn(d, p), p = IF os = "unix" THEN "capture" ELSE "control"
      PROVE  EndpointInv'
  <2>1. p \in DaemonPCs
    BY DEF DaemonPCs, StartingUp
  <2>2. /\ dmn' \in [Daemons -> EndpointDaemons] /\ \A e \in Daemons : e # d => dmn'[e] = dmn[e]
        /\ dmn'[d].pc = p /\ dmn'[d].step = "see" /\ dmn'[d].rival = dmn[d].rival /\ dmn'[d].why = dmn[d].why
    BY <1>2, <2>1, GoOnShape
  <2>3. StartRule(dmn'[d])
    BY <1>0, <2>2, EndpointShape DEF StartRule, Paths
  <2>4. dmn[d].pc \in StartingUp /\ dmn'[d].pc \notin Serving
    BY <1>0, <2>2 DEF StartingUp, Serving, Paths
  <2>5. os = "unix" => FileRule(dmn'[d], d, file')
    BY <1>2, <2>2 DEF FileRule
  <2>. QED
    BY <1>0, <2>2, <2>3, <2>4, <2>5, OneDaemonGoes, EndpointShape
<1>. QED
  BY <1>1, <1>2 DEF OpenStore, Paths

\* A step at the path s that leaves the daemon at its place.
LEMMA StepShape ==
  ASSUME EndpointInv, NEW d \in Daemons, NEW t \in {"see", "remove", "bind"}, dmn' = [dmn EXCEPT ![d].step = t]
  PROVE  /\ dmn' \in [Daemons -> EndpointDaemons] /\ \A e \in Daemons : e # d => dmn'[e] = dmn[e]
         /\ dmn'[d].pc = dmn[d].pc /\ dmn'[d].step = t /\ dmn'[d].rival = dmn[d].rival /\ dmn'[d].why = dmn[d].why
<1>1. PICK x : x = [dmn[d] EXCEPT !.step = t]
  OBVIOUS
<1>2. x \in EndpointDaemons
  BY <1>1, EndpointShape DEF EndpointDaemons
<1>3. x.pc = dmn[d].pc /\ x.step = t /\ x.rival = dmn[d].rival /\ x.why = dmn[d].why
  BY <1>1, EndpointShape DEF EndpointDaemons
<1>4. dmn' = [dmn EXCEPT ![d] = x]
  BY <1>1, EndpointShape
<1>. QED
  BY <1>2, <1>3, <1>4, EndpointShape

LEMMA OpenSocketKeeps ==
  ASSUME EndpointInv, NEW d \in Daemons, NEW s \in Paths, OpenSocket(d, s)
  PROVE  EndpointInv'
<1>0. os = "unix" /\ UNCHANGED <<os, link>> /\ dmn[d].pc = s
  BY DEF OpenSocket, SeeFile, RemoveFile, BindFile
<1>1. dmn[d].pc \in StartingUp /\ FileRule(dmn[d], d, file)
  BY <1>0, EndpointShape DEF StartingUp
<1>2. ASSUME NEW t \in {"see", "remove", "bind"}, dmn' = [dmn EXCEPT ![d].step = t],
             file' \in [Paths -> Daemons \cup {NoDaemon}], s # "capture" => file'["capture"] = file["capture"],
             t = "remove" => file'[s] # NoDaemon, t = "bind" => file'[s] = NoDaemon
      PROVE  EndpointInv'
  <2>1. /\ dmn' \in [Daemons -> EndpointDaemons] /\ \A e \in Daemons : e # d => dmn'[e] = dmn[e]
        /\ dmn'[d].pc = dmn[d].pc /\ dmn'[d].step = t /\ dmn'[d].rival = dmn[d].rival /\ dmn'[d].why = dmn[d].why
    BY <1>2, StepShape
  <2>2. StartRule(dmn'[d])
    BY <2>1, EndpointShape DEF StartRule
  <2>3. FileRule(dmn'[d], d, file')
    BY <1>0, <1>1, <1>2, <2>1 DEF FileRule, Paths
  <2>. QED
    BY <1>0, <1>1, <1>2, <2>1, <2>2, <2>3, OneDaemonGoes, EndpointShape
<1>3. CASE SeeFile(d, s)
  <2>1. PICK t \in {"see", "remove", "bind"} : t = IF file[s] # NoDaemon THEN "remove" ELSE "bind"
    OBVIOUS
  <2>2. dmn' = [dmn EXCEPT ![d].step = t] /\ file' = file
    BY <1>3, <2>1 DEF SeeFile
  <2>. QED
    BY <1>2, <2>1, <2>2, EndpointShape
<1>4. CASE RemoveFile(d, s)
  <2>1. CASE file' = [file EXCEPT ![s] = NoDaemon] /\ dmn' = [dmn EXCEPT ![d].step = "bind"]
    <3>1. /\ file' \in [Paths -> Daemons \cup {NoDaemon}] /\ file'[s] = NoDaemon
          /\ s # "capture" => file'["capture"] = file["capture"]
      BY <2>1, EndpointShape DEF Paths
    <3>. QED
      BY <1>2, <2>1, <3>1
  <2>2. CASE file[s] = NoDaemon /\ ExitDaemon(d, "remove") /\ UNCHANGED file
    <3>1. dmn[d].rival
      BY <1>0, <1>1, <1>4, <2>2 DEF FileRule, RemoveFile
    <3>. QED
      BY <1>0, <2>2, <3>1, ExitKeeps
  <2>. QED
    BY <1>4, <2>1, <2>2 DEF RemoveFile
<1>5. CASE BindFile(d, s)
  <2>1. ASSUME NEW p \in DaemonPCs, p = IF s = "capture" THEN "control" ELSE "serving",
               file' = [file EXCEPT ![s] = d], GoOn(d, p)
        PROVE  EndpointInv'
    <3>1. /\ dmn' \in [Daemons -> EndpointDaemons] /\ \A e \in Daemons : e # d => dmn'[e] = dmn[e]
          /\ dmn'[d].pc = p /\ dmn'[d].step = "see" /\ dmn'[d].rival = dmn[d].rival /\ dmn'[d].why = dmn[d].why
      BY <2>1, GoOnShape
    <3>2. /\ file' \in [Paths -> Daemons \cup {NoDaemon}] /\ file'[s] = d
          /\ s # "capture" => file'["capture"] = file["capture"]
      BY <2>1, EndpointShape DEF Paths
    <3>3. StartRule(dmn'[d])
      BY <2>1, <3>1, EndpointShape DEF StartRule
    <3>4. FileRule(dmn'[d], d, file')
      BY <1>0, <1>1, <2>1, <3>1, <3>2 DEF FileRule, Paths
    <3>. QED
      BY <1>0, <1>1, <3>1, <3>2, <3>3, <3>4, OneDaemonGoes, EndpointShape
  <2>2. CASE file[s] # NoDaemon /\ ExitDaemon(d, "bind") /\ UNCHANGED file
    <3>1. dmn[d].rival
      BY <1>0, <1>1, <1>5, <2>2 DEF FileRule, BindFile
    <3>. QED
      BY <1>0, <2>2, <3>1, ExitKeeps
  <2>3. "control" \in DaemonPCs /\ "serving" \in DaemonPCs
    BY DEF DaemonPCs, StartingUp, Serving, Paths
  <2>. QED
    BY <1>5, <2>1, <2>2, <2>3 DEF BindFile
<1>. QED
  BY <1>3, <1>4, <1>5 DEF OpenSocket

\* The pipe: a new place of the daemon, its instance armed or not.
LEMMA PipeShape ==
  ASSUME EndpointInv, NEW d \in Daemons, NEW p \in DaemonPCs, NEW a \in BOOLEAN, dmn' = [dmn EXCEPT ![d].pc = p, ![d].armed = a]
  PROVE  /\ dmn' \in [Daemons -> EndpointDaemons] /\ \A e \in Daemons : e # d => dmn'[e] = dmn[e]
         /\ dmn'[d].pc = p /\ dmn'[d].step = dmn[d].step /\ dmn'[d].rival = dmn[d].rival /\ dmn'[d].why = dmn[d].why
<1>1. PICK x : x = [dmn[d] EXCEPT !.pc = p, !.armed = a]
  OBVIOUS
<1>2. x \in EndpointDaemons
  BY <1>1, EndpointShape DEF EndpointDaemons
<1>3. x.pc = p /\ x.step = dmn[d].step /\ x.rival = dmn[d].rival /\ x.why = dmn[d].why
  BY <1>1, EndpointShape DEF EndpointDaemons
<1>4. dmn' = [dmn EXCEPT ![d] = x]
  BY <1>1, EndpointShape
<1>. QED
  BY <1>2, <1>3, <1>4, EndpointShape

LEMMA SettledShape ==
  ASSUME EndpointInv, NEW d \in Daemons, NEW as \in {"served", "refused"}
  PROVE  Settled(d, as) \in [Clients -> [pc : {"idle", "open", "served", "refused"}, to : Daemons \cup {NoDaemon}]]
BY EndpointShape DEF Settled

LEMMA PipeGoes ==
  ASSUME EndpointInv, NEW d \in Daemons, NEW p \in Serving, NEW a \in BOOLEAN, dmn' = [dmn EXCEPT ![d].pc = p, ![d].armed = a],
         os = "windows", UNCHANGED <<os, file>>, dmn[d].pc \in StartingUp \cup Serving,
         dmn[d].pc \in Serving \/ \A e \in Daemons \ {d} : dmn[e].pc \notin Serving,
         link' \in [Clients -> [pc : {"idle", "open", "served", "refused"}, to : Daemons \cup {NoDaemon}]]
  PROVE  EndpointInv'
<1>1. p \in DaemonPCs /\ p \notin StartingUp /\ p # "off"
  BY DEF DaemonPCs, StartingUp, Serving, Paths
<1>2. /\ dmn' \in [Daemons -> EndpointDaemons] /\ \A e \in Daemons : e # d => dmn'[e] = dmn[e]
      /\ dmn'[d].pc = p /\ dmn'[d].rival = dmn[d].rival /\ dmn'[d].why = dmn[d].why
  BY <1>1, PipeShape
<1>3. StartRule(dmn'[d])
  BY <1>1, <1>2, EndpointShape DEF StartRule
<1>. QED
  BY <1>1, <1>2, <1>3, OneDaemonGoes, EndpointShape

LEMMA PipeKeeps ==
  ASSUME EndpointInv, NEW d \in Daemons, CreateFirst(d) \/ PipeConnected(d) \/ Rearm(d)
  PROVE  EndpointInv'
<1>0. os = "windows" /\ UNCHANGED <<os, file>>
  BY DEF CreateFirst, PipeConnected, Rearm
<1>1. "serving" \in Serving /\ "rearm" \in Serving /\ "control" \in StartingUp
  BY DEF Serving, StartingUp, Paths
<1>2. CASE CreateFirst(d)
  <2>1. CASE ExitDaemon(d, "instance")
    BY <1>0, <1>2, <2>1, ExitKeeps DEF CreateFirst
  <2>2. CASE dmn' = [dmn EXCEPT ![d].pc = "serving", ![d].armed = TRUE] /\ ~(\E e \in Daemons \ {d} : dmn[e].pc \in Serving)
    BY <1>0, <1>1, <1>2, <2>2, PipeGoes, EndpointShape DEF CreateFirst
  <2>. QED
    BY <1>2, <2>1, <2>2 DEF CreateFirst
<1>3. CASE PipeConnected(d)
  BY <1>0, <1>1, <1>3, PipeGoes, EndpointShape DEF PipeConnected
<1>4. CASE Rearm(d)
  <2>1. CASE UNCHANGED <<dmn, link>>
    BY <1>0, <2>1 DEF EndpointInv, ServerRule
  <2>2. CASE dmn' = [dmn EXCEPT ![d].pc = "serving", ![d].armed = TRUE] /\ link' = Settled(d, "served")
    BY <1>0, <1>1, <1>4, <2>2, PipeGoes, SettledShape DEF Rearm
  <2>. QED
    BY <1>4, <2>1, <2>2 DEF Rearm
<1>. QED
  BY <1>2, <1>3, <1>4

LEMMA KillKeeps ==
  ASSUME EndpointInv, NEW d \in Daemons, Kill(d)
  PROVE  EndpointInv'
<1>1. dmn' = [dmn EXCEPT ![d].pc = "exited", ![d].why = "killed", ![d].armed = FALSE] /\ link' = Settled(d, "refused")
      /\ UNCHANGED <<os, file>>
  BY DEF Kill
<1>2. PICK x : x = [dmn[d] EXCEPT !.pc = "exited", !.why = "killed", !.armed = FALSE]
  OBVIOUS
<1>3. "exited" \in DaemonPCs
  BY DEF DaemonPCs
<1>4. x \in EndpointDaemons
  BY <1>2, <1>3, EndpointShape DEF EndpointDaemons
<1>5. x.pc = "exited" /\ x.rival = dmn[d].rival /\ x.why = "killed"
  BY <1>2, EndpointShape DEF EndpointDaemons
<1>6. dmn' = [dmn EXCEPT ![d] = x]
  BY <1>1, <1>2, EndpointShape
<1>7. dmn' \in [Daemons -> EndpointDaemons] /\ (\A e \in Daemons : e # d => dmn'[e] = dmn[e]) /\ dmn'[d] = x
  BY <1>4, <1>6, EndpointShape
<1>8. StartRule(x) /\ x.pc \notin StartingUp \cup Serving /\ FileRule(x, d, file')
  BY <1>5 DEF StartRule, FileRule, StartingUp, Serving, Paths
<1>. QED
  BY <1>1, <1>5, <1>7, <1>8, OneDaemonGoes, SettledShape, EndpointShape

LEMMA ClientKeeps ==
  ASSUME EndpointInv, NEW c \in Clients, ConnectTo(c) \/ AcceptUnix(c)
  PROVE  EndpointInv'
<1>0. UNCHANGED <<os, file>>
  BY DEF ConnectTo, AcceptUnix
<1>1. ASSUME UNCHANGED dmn, link' \in [Clients -> [pc : {"idle", "open", "served", "refused"}, to : Daemons \cup {NoDaemon}]]
      PROVE  EndpointInv'
  BY <1>0, <1>1 DEF EndpointInv, ServerRule
<1>2. CASE AcceptUnix(c)
  <2>1. UNCHANGED dmn /\ link' = [link EXCEPT ![c].pc = "served"]
    BY <1>2 DEF AcceptUnix
  <2>. QED
    BY <1>1, <2>1, EndpointShape
<1>3. CASE ConnectTo(c)
  <2>1. CASE UNCHANGED dmn /\ link' = [link EXCEPT ![c].pc = "refused"]
    BY <1>1, <2>1, EndpointShape
  <2>2. ASSUME NEW d \in Daemons, link' = [link EXCEPT ![c] = [pc |-> "open", to |-> d]], dmn' = [dmn EXCEPT ![d].armed = FALSE]
        PROVE  EndpointInv'
    <3>1. link' \in [Clients -> [pc : {"idle", "open", "served", "refused"}, to : Daemons \cup {NoDaemon}]]
      BY <2>2, EndpointShape
    <3>2. PICK x : x = [dmn[d] EXCEPT !.armed = FALSE]
      OBVIOUS
    <3>3. x \in EndpointDaemons
      BY <3>2, EndpointShape DEF EndpointDaemons
    <3>4. x.pc = dmn[d].pc /\ x.rival = dmn[d].rival /\ x.why = dmn[d].why /\ x.step = dmn[d].step
      BY <3>2, EndpointShape DEF EndpointDaemons
    <3>5. dmn' = [dmn EXCEPT ![d] = x]
      BY <2>2, <3>2, EndpointShape
    <3>6. dmn' \in [Daemons -> EndpointDaemons] /\ (\A e \in Daemons : e # d => dmn'[e] = dmn[e]) /\ dmn'[d] = x
      BY <3>3, <3>5, EndpointShape
    <3>7. StartRule(x)
      BY <3>4, EndpointShape DEF StartRule
    <3>8. os = "unix" => FileRule(x, d, file')
      BY <1>0, <3>4, EndpointShape DEF FileRule
    <3>. QED
      BY <1>0, <3>1, <3>4, <3>6, <3>7, <3>8, OneDaemonGoes, EndpointShape
  <2>3. PICK listens \in SUBSET Daemons :
          \/ \E d \in listens : /\ link' = [link EXCEPT ![c] = [pc |-> "open", to |-> d]]
                                /\ dmn' = [dmn EXCEPT ![d].armed = FALSE]
          \/ link' = [link EXCEPT ![c].pc = "refused"] /\ UNCHANGED dmn
    BY <1>3 DEF ConnectTo
  <2>. QED
    BY <2>1, <2>2, <2>3
<1>. QED
  BY <1>2, <1>3

LEMMA EndpointKeeps ==
  ASSUME EndpointInv, EndpointNext \/ UNCHANGED endpointVars
  PROVE  EndpointInv'
<1>1. CASE EndpointNext
  <2>1. "capture" \in Paths /\ "control" \in Paths
    BY DEF Paths
  <2>2. ASSUME NEW d \in Daemons, StartDaemon(d) \/ OpenStore(d) \/ BindCaptureSocket(d) \/ ServeUnix(d)
                                  \/ CreateFirst(d) \/ PipeConnected(d) \/ Rearm(d) \/ Kill(d)
        PROVE  EndpointInv'
    BY <2>1, <2>2, StartKeeps, OpenStoreKeeps, OpenSocketKeeps, PipeKeeps, KillKeeps DEF BindCaptureSocket, ServeUnix
  <2>. QED
    BY <1>1, <2>2, ClientKeeps DEF EndpointNext
<1>2. CASE UNCHANGED endpointVars
  BY <1>2 DEF EndpointInv, endpointVars, ServerRule
<1>. QED
  BY <1>1, <1>2

LEMMA EndpointPromise ==
  ASSUME EndpointInv
  PROVE  EndpointTypeOK /\ OneServer /\ StartFailsOnlyByRival /\ PathsLeadToOneDaemon
<1>1. EndpointTypeOK
  BY EndpointShape DEF EndpointTypeOK, EndpointDaemons, DaemonPCs
<1>2. OneServer /\ StartFailsOnlyByRival
  BY EndpointShape DEF OneServer, ServerRule, StartFailsOnlyByRival, StartRule
<1>3. PathsLeadToOneDaemon
  <2>1. ASSUME os = "unix", NEW d \in Daemons, dmn[d].pc = "serving", ~dmn[d].rival
        PROVE  file = [s \in Paths |-> d]
    <3>1. file["capture"] = d /\ file["control"] = d
      BY <2>1, EndpointShape DEF FileRule
    <3>. QED
      BY <3>1, EndpointShape DEF Paths
  <2>. QED
    BY <2>1 DEF PathsLeadToOneDaemon
<1>. QED
  BY <1>1, <1>2, <1>3
-----------------------------------------------------------------------------
(* The two ends of a connection: whom the endpoint leads to, and when.     *)

EndsInv == EndpointInv /\ ClockInv

LEMMA EndsBegin == ClientsInit => EndsInv
BY EndpointBegins, ClockBegins DEF ClientsInit, EndsInv

LEMMA EndsStep == EndsInv /\ [ClientsNext]_<<client, clientVars>> => EndsInv'
<1>. SUFFICES ASSUME EndsInv, [ClientsNext]_<<client, clientVars>> PROVE EndsInv'
  OBVIOUS
<1>1. EndpointNext \/ UNCHANGED endpointVars
  BY DEF ClientsNext, clientVars, InboxPart, WaitPart, RecordPart, OnboardPart, InstallPart, EndpointPart, ClockPart, HandoffPart
<1>2. ClockNext \/ UNCHANGED clockVars
  BY DEF ClientsNext, clientVars, InboxPart, WaitPart, RecordPart, OnboardPart, InstallPart, EndpointPart, ClockPart, HandoffPart
<1>. QED
  BY <1>1, <1>2, EndpointKeeps, ClockKeeps DEF EndsInv

\* All that EndsAgree asks for but the estimate that is fitted through several samples: one daemon
\* serves a pipe, a start fails only by a rival, both paths lead to one daemon, and no sample of the
\* clock is off by more than half its round trip.  For every number of daemons, of clients and of
\* pipe calls that fail, every offset of the clocks and every delay of a message.
THEOREM EndsMeet ==
  ClientsSpec => [](/\ EndpointTypeOK /\ OneServer /\ StartFailsOnlyByRival /\ PathsLeadToOneDaemon
                    /\ SampleWithinHalfRoundTrip)
<1>1. EndsInv => /\ EndpointTypeOK /\ OneServer /\ StartFailsOnlyByRival /\ PathsLeadToOneDaemon
                 /\ SampleWithinHalfRoundTrip
  BY EndpointPromise, ClockPromise DEF EndsInv
<1>. QED
  BY <1>1, EndsBegin, EndsStep, PTL DEF ClientsSpec
=============================================================================
