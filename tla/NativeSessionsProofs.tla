------------------------ MODULE NativeSessionsProofs ------------------------
(***************************************************************************)
(* Proofs about NativeSessions, for any number of sessions, consumers and  *)
(* output requests, and on each of the three platforms.                    *)
(***************************************************************************)
EXTENDS NativeSessions, TLAPS, FiniteSetTheorems

Young == {"idle", "reserved", "recorded"}

-----------------------------------------------------------------------------
(* The inductive invariant.                                                *)

\* Before its start call a session has nothing but its record, and on every platform
\* a ready record has a hold and drained storage has no user.
SharedInv(s) ==
  /\ create[s] \in Young => rt[s] = NewRuntime /\ src[s] = "off" /\ ~hold[s]
  /\ create[s] \in {"idle", "reserved"} => record[s] = "absent"
  /\ record[s] = "ready" => hold[s]
  /\ rt[s].drained => rt[s].thread = "done" /\ rt[s].pub = "none"

\* macOS: the stream, the producer and the hold, by the state of the request.
MacInv(s) ==
  /\ create[s] \in {"start", "got", "wait", "ready", "served"} => hold[s]
  /\ create[s] = "start" => src[s] = "starting"
  /\ src[s] = "starting" => create[s] = "start" \/ (create[s] \in Finished /\ rt[s].closing)
  /\ src[s] = "up" <=> create[s] = "got"
  /\ src[s] = "held" => hold[s] /\ ~rt[s].closing /\ create[s] \notin {"start", "got"}
  /\ src[s] = "stopped" => rt[s].closing
  /\ src[s] = "off" => ~hold[s]
  /\ rt[s].pub # "none" => hold[s]
  /\ rt[s].pub = "stopped" => rt[s].closing \/ rt[s].error
  /\ rt[s].server => hold[s] /\ create[s] = "ok" /\ rt[s].pub # "none"
  /\ rt[s].closing => ~rt[s].server /\ record[s] \in {"absent", "closed"}
  /\ rt[s].ready = "ok" => rt[s].pub # "none" \/ rt[s].drained
  /\ create[s] \in {"ready", "served"} => rt[s].ready = "ok"
  /\ rt[s].drained => rt[s].closing /\ ~Owned(s)
  /\ rt[s].pub = "none" => Users(s) = {}

\* Linux: nothing drains; the hold owns the stream, before it the request does.
LinuxInv(s) ==
  /\ ~rt[s].closing /\ ~rt[s].drained /\ src[s] # "starting"
  /\ create[s] \in {"start", "got"} => src[s] = "off"
  /\ src[s] = "up" <=> create[s] \in {"wait", "ready"}
  /\ src[s] = "held" <=> hold[s]
  /\ hold[s] => create[s] = "ok" /\ rt[s].pub = "live"
  /\ rt[s].pub # "none" => create[s] = "ready" \/ hold[s]
  /\ rt[s].server => hold[s]
  /\ create[s] = "ready" => rt[s].pub = "live"

\* Windows: the session thread, by the state of the request, and what it has stopped.
WindowsInv(s) ==
  /\ hold[s] => create[s] = "ok"
  /\ create[s] = "start" => src[s] = "starting"
  /\ create[s] \in {"start", "got"} => rt[s].thread = "none"
  /\ src[s] = "up" <=> create[s] = "got"
  /\ create[s] \in {"served", "ok"} => rt[s].thread # "none"
  /\ rt[s].thread \in {"watch", "stop"} => src[s] = "held" /\ rt[s].pub = "live"
  /\ rt[s].thread \in {"stop", "drain", "done"} => rt[s].closing \/ rt[s].error
  /\ src[s] = "held" => create[s] \notin {"start", "got"}
  /\ rt[s].drained => Users(s) = {}
  /\ window.item[s] = "other" => window.hwnd = "other"

SessionInv(s) ==
  /\ SharedInv(s)
  /\ platform = "macos" => MacInv(s)
  /\ platform = "linux" => LinuxInv(s)
  /\ platform = "windows" => WindowsInv(s)
  /\ src[s] \in {"up", "held"} => window.item[s] # "other"
  /\ platform # "windows" => window.item[s] = "none"

\* The reservation is that of the one request in flight, and a hold excludes any other
\* session's request and hold.
SlotInv ==
  /\ starting <=> \E s \in Sessions : create[s] \in InFlight
  /\ \A s, t \in Sessions : create[s] \in InFlight /\ create[t] \in InFlight => s = t
  /\ \A s, t \in Sessions : hold[s] /\ (hold[t] \/ create[t] \in InFlight) => s = t

\* The outstanding size updates of one stream are one.
UpdateInv ==
  \A u, v \in Updates :
    /\ update[u].of = update[v].of
    /\ update[u].at \in {"submitted", "orphan"} /\ update[v].at \in {"submitted", "orphan"}
    => u = v

NativeInv ==
  /\ TypeOK
  /\ \A s \in Sessions : SessionInv(s)
  /\ SlotInv
  /\ UpdateInv
-----------------------------------------------------------------------------
(* What a step leaves alone.                                               *)

\* Nothing of a session changes, but that consumers may leave it.
Same(t) ==
  /\ platform' = platform
  /\ window'.hwnd = window.hwnd /\ window'.item[t] = window.item[t]
  /\ create'[t] = create[t] /\ record'[t] = record[t] /\ hold'[t] = hold[t]
  /\ src'[t] = src[t] /\ rt'[t] = rt[t]
  /\ Users(t)' \subseteq Users(t)

\* The other sessions do not change.
Elsewhere(s) == \A t \in Sessions \ {s} : Same(t)

\* A step of session s keeps the reservation or is the last of its request, and gives the
\* session a hold only while its request is in flight.
Booked(s) ==
  /\ hold'[s] => hold[s] \/ create[s] \in InFlight
  /\ \/ starting' = starting /\ (create'[s] \in InFlight <=> create[s] \in InFlight)
     \/ ~starting' /\ create[s] \in InFlight /\ create'[s] \notin InFlight

\* A step of one session.
Kept(s) == SessionInv(s)' /\ Elsewhere(s) /\ Booked(s)

\* What a step leaves alone keeps its invariant.
LEMMA SameInv == ASSUME NEW t, SessionInv(t), Same(t) PROVE SessionInv(t)'
<1>. USE DEF Same
<1>1. SharedInv(t)'
  BY DEF SessionInv, SharedInv
<1>2. ASSUME platform = "macos" PROVE MacInv(t)'
  <2>1. Owned(t)' = Owned(t)
    BY DEF Owned
  <2>. QED  BY <1>2, <2>1 DEF SessionInv, MacInv
<1>3. ASSUME platform = "linux" PROVE LinuxInv(t)'
  BY <1>3 DEF SessionInv, LinuxInv
<1>4. ASSUME platform = "windows" PROVE WindowsInv(t)'
  BY <1>4 DEF SessionInv, WindowsInv
<1>. QED  BY <1>1, <1>2, <1>3, <1>4 DEF SessionInv

\* Closing a macOS runtime stops its producer and drops its server, and no more.
LEMMA ClosedRuntime ==
  ASSUME NEW r \in Runtime
  PROVE  /\ Closed(r) \in Runtime
         /\ Closed(r).closing = TRUE /\ Closed(r).server = FALSE
         /\ Closed(r).pub = (IF r.pub = "live" THEN "stopped" ELSE r.pub)
         /\ Closed(r).drained = r.drained /\ Closed(r).thread = r.thread
         /\ Closed(r).error = r.error /\ Closed(r).ready = r.ready
BY DEF Closed, Runtime

\* What a frame makes of a runtime r.
FrameOutcomes(r) ==
  LET answer(m) == IF r.ready = "none" THEN m ELSE r.ready IN
  {[r EXCEPT !.pub = "live", !.pending = FALSE, !.ready = answer("ok")],
   [r EXCEPT !.pub = "live", !.pending = TRUE],
   [r EXCEPT !.pub = IF @ = "none" THEN @ ELSE "stopped", !.error = TRUE, !.ready = answer("err")]}

\* A frame makes the producer live, or fails and stops it; either may answer the create.
LEMMA FrameRuntime ==
  ASSUME NEW r \in Runtime, NEW q \in FrameOutcomes(r)
  PROVE  /\ q \in Runtime
         /\ q.closing = r.closing /\ q.drained = r.drained /\ q.server = r.server
         /\ q.thread = r.thread
         /\ \/ q.pub = "live" /\ q.error = r.error /\ q.ready \in {r.ready, "ok"}
            \/ /\ q.pub = (IF r.pub = "none" THEN "none" ELSE "stopped") /\ q.error
               /\ q.ready = (IF r.ready = "none" THEN "err" ELSE r.ready)
<1>1. CASE q = [r EXCEPT !.pub = "live", !.pending = FALSE,
                         !.ready = IF r.ready = "none" THEN "ok" ELSE r.ready]
  BY <1>1 DEF Runtime
<1>2. CASE q = [r EXCEPT !.pub = "live", !.pending = TRUE]
  BY <1>2 DEF Runtime
<1>3. CASE q = [r EXCEPT !.pub = IF @ = "none" THEN @ ELSE "stopped", !.error = TRUE,
                         !.ready = IF r.ready = "none" THEN "err" ELSE r.ready]
  BY <1>3 DEF Runtime
<1>. QED  BY <1>1, <1>2, <1>3 DEF FrameOutcomes

\* Cutting the links of a session gives nobody a new link.
LEMMA CutUsers ==
  ASSUME TypeOK, NEW s \in Sessions, NEW es, user' = Cut(s, es)
  PROVE  \A t \in Sessions : Users(t)' \subseteq Users(t)
BY DEF TypeOK, Link, Users, Cut

\* InsertRecord keeps the invariant of its session, touches no other and books as it should.
LEMMA InvInsertRecord ==
  ASSUME TypeOK, NEW s \in Sessions, SessionInv(s), InsertRecord(s) PROVE Kept(s)
BY DEF TypeOK, Runtime, InsertRecord, Kept, Elsewhere, Same, Booked, SessionInv, SharedInv, MacInv, LinuxInv,
   WindowsInv, Owned, Users, Young, InFlight, Finished, NewRuntime

\* RefusePolicy keeps the invariant of its session, touches no other and books as it should.
LEMMA InvRefusePolicy ==
  ASSUME TypeOK, NEW s \in Sessions, SessionInv(s), RefusePolicy(s) PROVE Kept(s)
BY DEF TypeOK, Runtime, RefusePolicy, Kept, Elsewhere, Same, Booked, SessionInv, SharedInv, MacInv, LinuxInv,
   WindowsInv, Owned, Users, Young, InFlight, Finished, NewRuntime

\* InvalidPolicy keeps the invariant of its session, touches no other and books as it should.
LEMMA InvInvalidPolicy ==
  ASSUME TypeOK, NEW s \in Sessions, SessionInv(s), InvalidPolicy(s) PROVE Kept(s)
BY DEF TypeOK, Runtime, InvalidPolicy, Kept, Elsewhere, Same, Booked, SessionInv, SharedInv, MacInv, LinuxInv,
   WindowsInv, Owned, Users, Young, InFlight, Finished, NewRuntime

\* InsertHold keeps the invariant of its session, touches no other and books as it should.
LEMMA InvInsertHold ==
  ASSUME TypeOK, NEW s \in Sessions, SessionInv(s), InsertHold(s) PROVE Kept(s)
BY DEF TypeOK, Runtime, InsertHold, Kept, Elsewhere, Same, Booked, SessionInv, SharedInv, MacInv, LinuxInv,
   WindowsInv, Owned, Users, Young, InFlight, Finished, NewRuntime

\* StartReturns keeps the invariant of its session, touches no other and books as it should.
LEMMA InvStartReturns ==
  ASSUME TypeOK, NEW s \in Sessions, SessionInv(s), StartReturns(s) PROVE Kept(s)
BY DEF TypeOK, Runtime, StartReturns, Kept, Elsewhere, Same, Booked, SessionInv, SharedInv, MacInv, LinuxInv,
   WindowsInv, Owned, Users, Young, InFlight, Finished, NewRuntime

\* OrphanReturns keeps the invariant of its session, touches no other and books as it should.
LEMMA InvOrphanReturns ==
  ASSUME TypeOK, NEW s \in Sessions, SessionInv(s), OrphanReturns(s) PROVE Kept(s)
BY DEF TypeOK, Runtime, OrphanReturns, Kept, Elsewhere, Same, Booked, SessionInv, SharedInv, MacInv, LinuxInv,
   WindowsInv, Owned, Users, Young, InFlight, Finished, NewRuntime

\* ReadyArrives keeps the invariant of its session, touches no other and books as it should.
LEMMA InvReadyArrives ==
  ASSUME TypeOK, NEW s \in Sessions, SessionInv(s), ReadyArrives(s) PROVE Kept(s)
BY DEF TypeOK, Runtime, ReadyArrives, Kept, Elsewhere, Same, Booked, SessionInv, SharedInv, MacInv, LinuxInv,
   WindowsInv, Owned, Users, Young, InFlight, Finished, NewRuntime

\* StartServer keeps the invariant of its session, touches no other and books as it should.
LEMMA InvStartServer ==
  ASSUME TypeOK, NEW s \in Sessions, SessionInv(s), StartServer(s) PROVE Kept(s)
BY DEF TypeOK, Runtime, StartServer, Kept, Elsewhere, Same, Booked, SessionInv, SharedInv, MacInv, LinuxInv,
   WindowsInv, Owned, Users, Young, InFlight, Finished, NewRuntime

\* OpenStream keeps the invariant of its session, touches no other and books as it should.
LEMMA InvOpenStream ==
  ASSUME TypeOK, NEW s \in Sessions, SessionInv(s), OpenStream(s) PROVE Kept(s)
BY DEF TypeOK, Runtime, OpenStream, Kept, Elsewhere, Same, Booked, SessionInv, SharedInv, MacInv, LinuxInv,
   WindowsInv, Owned, Users, Young, InFlight, Finished, NewRuntime

\* InstallStream keeps the invariant of its session, touches no other and books as it should.
LEMMA InvInstallStream ==
  ASSUME TypeOK, NEW s \in Sessions, SessionInv(s), InstallStream(s) PROVE Kept(s)
BY DEF TypeOK, Runtime, InstallStream, Kept, Elsewhere, Same, Booked, SessionInv, SharedInv, MacInv, LinuxInv,
   WindowsInv, Owned, Users, Young, InFlight, Finished, NewRuntime, ClosedRecord

\* OpenBackend keeps the invariant of its session, touches no other and books as it should.
LEMMA InvOpenBackend ==
  ASSUME TypeOK, NEW s \in Sessions, SessionInv(s), OpenBackend(s) PROVE Kept(s)
BY DEF TypeOK, Runtime, OpenBackend, Kept, Elsewhere, Same, Booked, SessionInv, SharedInv, MacInv, LinuxInv,
   WindowsInv, Owned, Users, Young, InFlight, Finished, NewRuntime

\* PortalAdvances keeps the invariant of its session, touches no other and books as it should.
LEMMA InvPortalAdvances ==
  ASSUME TypeOK, NEW s \in Sessions, SessionInv(s), PortalAdvances(s) PROVE Kept(s)
BY DEF TypeOK, Runtime, PortalAdvances, Kept, Elsewhere, Same, Booked, SessionInv, SharedInv, MacInv, LinuxInv,
   WindowsInv, Owned, Users, Young, InFlight, Finished, NewRuntime

\* PortalRejected keeps the invariant of its session, touches no other and books as it should.
LEMMA InvPortalRejected ==
  ASSUME TypeOK, NEW s \in Sessions, SessionInv(s), PortalRejected(s) PROVE Kept(s)
BY DEF TypeOK, Runtime, PortalRejected, Kept, Elsewhere, Same, Booked, SessionInv, SharedInv, MacInv, LinuxInv,
   WindowsInv, Owned, Users, Young, InFlight, Finished, NewRuntime

\* StartCapture keeps the invariant of its session, touches no other and books as it should.
LEMMA InvStartCapture ==
  ASSUME TypeOK, NEW s \in Sessions, SessionInv(s), StartCapture(s) PROVE Kept(s)
BY DEF TypeOK, Runtime, StartCapture, Kept, Elsewhere, Same, Booked, SessionInv, SharedInv, MacInv, LinuxInv,
   WindowsInv, Owned, Users, Young, InFlight, Finished, NewRuntime

\* MakeItem keeps the invariant of its session, touches no other and books as it should.
LEMMA InvMakeItem ==
  ASSUME TypeOK, NEW s \in Sessions, SessionInv(s), MakeItem(s) PROVE Kept(s)
BY DEF TypeOK, Runtime, MakeItem, Kept, Elsewhere, Same, Booked, SessionInv, SharedInv, MacInv, LinuxInv,
   WindowsInv, Owned, Users, Young, InFlight, Finished, NewRuntime

\* CaptureStarts keeps the invariant of its session, touches no other and books as it should.
LEMMA InvCaptureStarts ==
  ASSUME TypeOK, NEW s \in Sessions, SessionInv(s), CaptureStarts(s) PROVE Kept(s)
BY DEF TypeOK, Runtime, CaptureStarts, Kept, Elsewhere, Same, Booked, SessionInv, SharedInv, MacInv, LinuxInv,
   WindowsInv, Owned, Users, Young, InFlight, Finished, NewRuntime

\* InsertHoldFails keeps the invariant of its session, touches no other and books as it should.
LEMMA InvInsertHoldFails ==
  ASSUME TypeOK, NEW s \in Sessions, SessionInv(s), InsertHoldFails(s) PROVE Kept(s)
BY DEF TypeOK, Runtime, InsertHoldFails, Kept, Elsewhere, Same, Booked, SessionInv, SharedInv, MacInv, LinuxInv,
   WindowsInv, Owned, Users, Young, InFlight, Finished, NewRuntime, Fails, RemoveSession

\* CaptureError keeps the invariant of its session, touches no other and books as it should.
LEMMA InvCaptureError ==
  ASSUME TypeOK, NEW s \in Sessions, SessionInv(s), CaptureError(s) PROVE Kept(s)
BY DEF TypeOK, Runtime, CaptureError, Kept, Elsewhere, Same, Booked, SessionInv, SharedInv, MacInv, LinuxInv,
   WindowsInv, Owned, Users, Young, InFlight, Finished, NewRuntime

\* Maintain keeps the invariant of its session, touches no other and books as it should.
LEMMA InvMaintain ==
  ASSUME TypeOK, NEW s \in Sessions, SessionInv(s), Maintain(s) PROVE Kept(s)
BY DEF TypeOK, Runtime, Maintain, Kept, Elsewhere, Same, Booked, SessionInv, SharedInv, MacInv, LinuxInv,
   WindowsInv, Owned, Users, Young, InFlight, Finished, NewRuntime

\* ProducerReady keeps the invariant of its session, touches no other and books as it should.
LEMMA InvProducerReady ==
  ASSUME TypeOK, NEW s \in Sessions, SessionInv(s), ProducerReady(s) PROVE Kept(s)
BY DEF TypeOK, Runtime, ProducerReady, Kept, Elsewhere, Same, Booked, SessionInv, SharedInv, MacInv, LinuxInv,
   WindowsInv, Owned, Users, Young, InFlight, Finished, NewRuntime

\* WindowsFails keeps the invariant of its session, touches no other and books as it should.
LEMMA InvWindowsFails ==
  ASSUME TypeOK, NEW s \in Sessions, SessionInv(s), WindowsFails(s) PROVE Kept(s)
BY DEF TypeOK, Runtime, WindowsFails, Kept, Elsewhere, Same, Booked, SessionInv, SharedInv, MacInv, LinuxInv,
   WindowsInv, Owned, Users, Young, InFlight, Finished, NewRuntime

\* SpawnSession keeps the invariant of its session, touches no other and books as it should.
LEMMA InvSpawnSession ==
  ASSUME TypeOK, NEW s \in Sessions, SessionInv(s), SpawnSession(s) PROVE Kept(s)
BY DEF TypeOK, Runtime, SpawnSession, Kept, Elsewhere, Same, Booked, SessionInv, SharedInv, MacInv, LinuxInv,
   WindowsInv, Owned, Users, Young, InFlight, Finished, NewRuntime

\* CommitWindows keeps the invariant of its session, touches no other and books as it should.
LEMMA InvCommitWindows ==
  ASSUME TypeOK, NEW s \in Sessions, SessionInv(s), CommitWindows(s) PROVE Kept(s)
BY DEF TypeOK, Runtime, CommitWindows, Kept, Elsewhere, Same, Booked, SessionInv, SharedInv, MacInv, LinuxInv,
   WindowsInv, Owned, Users, Young, InFlight, Finished, NewRuntime

\* CaptureChanges keeps the invariant of its session, touches no other and books as it should.
LEMMA InvCaptureChanges ==
  ASSUME TypeOK, NEW s \in Sessions, SessionInv(s), CaptureChanges(s) PROVE Kept(s)
<1>1. /\ rt'[s].closing = rt[s].closing /\ rt'[s].drained = rt[s].drained
      /\ rt'[s].thread = rt[s].thread /\ rt'[s].pub = rt[s].pub /\ rt'[s].error = rt[s].error
      /\ \A t \in Sessions \ {s} : rt'[t] = rt[t]
  <2>1. CASE rt' = [rt EXCEPT ![s].epoch = @ + 1]
    BY <2>1 DEF TypeOK, Runtime
  <2>2. CASE rt' = [rt EXCEPT ![s].capture = "ended"]
    BY <2>2 DEF TypeOK, Runtime
  <2>. QED  BY <2>1, <2>2 DEF CaptureChanges
<1>. QED
  BY <1>1 DEF CaptureChanges, Kept, Elsewhere, Same, Booked, SessionInv, SharedInv, WindowsInv,
     Users, Young

\* Closing a macOS hold while its request goes on, or as its last step with the stream
\* stopped or still starting.
LEMMA MacCloses ==
  ASSUME TypeOK, NEW s \in Sessions, SessionInv(s), platform = "macos", hold[s],
         UNCHANGED <<platform, hold, window>>,
         rt' = [rt EXCEPT ![s] = Closed(@)], record' = ClosedRecord(s),
         Users(s)' \subseteq Users(s),
         \/ create'[s] = create[s] /\ src'[s] = (IF src[s] = "held" THEN "stopped" ELSE src[s])
         \/ create'[s] \in {"err", "dropped"} /\ src'[s] = "stopped"
         \/ create'[s] \in {"err", "dropped"} /\ src'[s] = "starting" /\ src[s] = "starting"
  PROVE  SessionInv(s)'
<1>. DEFINE r == rt[s]  q == rt'[s]
<1>1. q = Closed(r) /\ r \in Runtime
  BY DEF TypeOK
<1>2. /\ q.server = FALSE /\ q.closing = TRUE /\ q.drained = r.drained
      /\ q.pub = (IF r.pub = "live" THEN "stopped" ELSE r.pub)
      /\ q.thread = r.thread /\ q.error = r.error /\ q.ready = r.ready
  BY <1>1, ClosedRuntime, ZenonT(40)
<1>3. create[s] \notin Young
  BY DEF SessionInv, SharedInv
<1>4. record'[s] = IF record[s] = "absent" THEN "absent" ELSE "closed"
  BY DEF ClosedRecord, TypeOK
<1>. HIDE DEF r, q
<1>5. SharedInv(s)'
  BY <1>2, <1>3, <1>4 DEF SessionInv, SharedInv, Young, r, q
<1>6. MacInv(s)'
  BY <1>2, <1>3, <1>4 DEF SessionInv, MacInv, SharedInv, Young, Owned, Finished, r, q
<1>. QED  BY <1>5, <1>6 DEF SessionInv

\* StartFails keeps the invariant of its session, touches no other and books as it should.
LEMMA InvStartFails ==
  ASSUME TypeOK, NEW s \in Sessions, SessionInv(s), StartFails(s) PROVE Kept(s)
<1>1. hold[s] /\ platform = "macos"
  BY DEF StartFails, SessionInv, MacInv
<1>2. SessionInv(s)'
  BY <1>1, MacCloses, ZenonT(40) DEF StartFails, TypeOK, Users
<1>. QED
  BY <1>1, <1>2 DEF StartFails, ClosedRecord, TypeOK, Kept, Elsewhere, Same, Booked, InFlight, Users

\* remove_session of a macOS session with a hold, as the last step of its request.
LEMMA MacRemoves ==
  ASSUME TypeOK, NEW s \in Sessions, SessionInv(s), platform = "macos", hold[s], RemoveSession(s),
         UNCHANGED <<platform, window>>, ~starting', create[s] \in {"start", "wait", "ready"},
         create' = [create EXCEPT ![s] = create'[s]], create'[s] \in {"err", "dropped"}
  PROVE  Kept(s)
<1>1. /\ CloseMacHold(s) /\ record' = ClosedRecord(s) /\ hold' = hold
  BY DEF RemoveSession, CloseHold, CloseWindowsHold
<1>2. \A t \in Sessions : Users(t)' \subseteq Users(t)
  BY <1>1, CutUsers DEF CloseMacHold, Users
<1>3. src[s] \in {"starting", "held", "stopped"}
  BY DEF SessionInv, MacInv, SharedInv, Young, TypeOK
<1>4. SessionInv(s)'
  BY <1>1, <1>2, <1>3, MacCloses, ZenonT(40) DEF CloseMacHold, TypeOK
<1>5. \A t \in Sessions \ {s} : /\ rt'[t] = rt[t] /\ src'[t] = src[t] /\ record'[t] = record[t]
                                /\ create'[t] = create[t]
  BY <1>1 DEF CloseMacHold, ClosedRecord, TypeOK
<1>. QED
  BY <1>1, <1>2, <1>4, <1>5 DEF Kept, Elsewhere, Same, Booked, InFlight

\* ReadyFails keeps the invariant of its session, touches no other and books as it should.
LEMMA InvReadyFails ==
  ASSUME TypeOK, NEW s \in Sessions, SessionInv(s), ReadyFails(s) PROVE Kept(s)
<1>1. hold[s]
  BY DEF ReadyFails, SessionInv, MacInv
<1>. QED  BY <1>1, MacRemoves DEF ReadyFails, Fails, TypeOK

\* StartServerFails keeps the invariant of its session, touches no other and books as it should.
LEMMA InvStartServerFails ==
  ASSUME TypeOK, NEW s \in Sessions, SessionInv(s), StartServerFails(s) PROVE Kept(s)
<1>1. hold[s]
  BY DEF StartServerFails, SessionInv, MacInv
<1>. QED  BY <1>1, MacRemoves DEF StartServerFails, Fails, TypeOK

\* CommitMac keeps the invariant of its session, touches no other and books as it should.
LEMMA InvCommitMac ==
  ASSUME TypeOK, NEW s \in Sessions, SessionInv(s), CommitMac(s) PROVE Kept(s)
<1>. DEFINE r == rt[s]  q == rt'[s]
<1>1. /\ platform = "macos" /\ hold[s] /\ create[s] = "served" /\ src[s] \in {"held", "stopped"}
      /\ ~r.drained /\ r.pub # "none" /\ r.ready = "ok" /\ ~r.server
  BY DEF CommitMac, SessionInv, MacInv, Owned, Finished, TypeOK
<1>2. CASE record[s] = "starting"
  <2>1. /\ q.server = TRUE /\ q.closing = r.closing /\ q.drained = r.drained /\ q.pub = r.pub
        /\ q.thread = r.thread /\ q.error = r.error /\ q.ready = r.ready
    BY <1>2 DEF CommitMac, TypeOK, Runtime
  <2>2. SessionInv(s)'
    BY <1>1, <1>2, <2>1 DEF CommitMac, TypeOK, SessionInv, SharedInv, MacInv, Owned, Users, Young, Finished
  <2>. QED
    BY <1>1, <1>2, <2>2 DEF CommitMac, TypeOK, Kept, Elsewhere, Same, Booked, InFlight, Users
<1>3. CASE record[s] # "starting"
  <2>1. \A t \in Sessions : Users(t)' \subseteq Users(t)
    BY <1>3, CutUsers DEF CommitMac
  <2>2. SessionInv(s)'
    BY <1>1, <1>3, <2>1, MacCloses DEF CommitMac, TypeOK
  <2>. QED
    BY <1>1, <1>3, <2>1, <2>2
    DEF CommitMac, ClosedRecord, TypeOK, Kept, Elsewhere, Same, Booked, InFlight
<1>. QED  BY <1>2, <1>3

\* PublishNativeFrame keeps the invariant of its session, touches no other and books as it should.
LEMMA InvPublishNativeFrame ==
  ASSUME TypeOK, NEW s \in Sessions, SessionInv(s), PublishNativeFrame(s) PROVE Kept(s)
<1>. DEFINE r == rt[s]  q == rt'[s]
<1>1. /\ platform = "macos" /\ hold[s] /\ create[s] \notin Young
      /\ ~r.closing /\ ~r.error /\ r.pub # "stopped"
  BY DEF PublishNativeFrame, SessionInv, SharedInv, MacInv, Young, Finished
<1>2. /\ q.closing = r.closing /\ q.drained = r.drained /\ q.server = r.server
      /\ q.thread = r.thread
      /\ \/ q.pub = "live" /\ q.error = r.error /\ q.ready \in {r.ready, "ok"}
         \/ /\ q.pub = (IF r.pub = "none" THEN "none" ELSE "stopped") /\ q.error
            /\ q.ready = (IF r.ready = "none" THEN "err" ELSE r.ready)
  <2>1. r \in Runtime
    BY DEF TypeOK
  <2>2. \E p \in FrameOutcomes(r) : rt' = [rt EXCEPT ![s] = p]
    BY DEF PublishNativeFrame, FrameOutcomes
  <2>3. q \in FrameOutcomes(r)
    BY <2>2 DEF TypeOK
  <2>. QED  BY <2>1, <2>3, FrameRuntime
<1>3. ~r.drained
  BY <1>1 DEF SessionInv, MacInv
<1>4. SessionInv(s)'
  BY <1>1, <1>2, <1>3 DEF PublishNativeFrame, SessionInv, SharedInv, MacInv, Owned, Users, Young
<1>. QED
  BY <1>4 DEF PublishNativeFrame, TypeOK, Kept, Elsewhere, Same, Booked, Users

\* Dropping what a Linux session serves leaves its runtime without server and producer.
LEMMA LinuxDropped ==
  ASSUME TypeOK, NEW s \in Sessions, DropLinuxHold(s)
  PROVE  /\ src'[s] = (IF src[s] \in {"held", "up"} THEN "stopped" ELSE src[s])
         /\ rt'[s].server = FALSE /\ rt'[s].pub = "none"
         /\ rt'[s].closing = rt[s].closing /\ rt'[s].drained = rt[s].drained
         /\ rt'[s].thread = rt[s].thread
         /\ \A t \in Sessions \ {s} : src'[t] = src[t] /\ rt'[t] = rt[t]
         /\ \A t \in Sessions : Users(t)' \subseteq Users(t)
<1>1. \A t \in Sessions : Users(t)' \subseteq Users(t)
  BY CutUsers DEF DropLinuxHold
<1>. QED  BY <1>1 DEF DropLinuxHold, TypeOK, Runtime

\* A Linux session whose stream is dropped has no hold afterwards.
LEMMA LinuxEnds ==
  ASSUME TypeOK, NEW s \in Sessions, SessionInv(s), platform = "linux", DropLinuxHold(s),
         UNCHANGED <<platform, window>>, ~hold'[s], record'[s] # "ready",
         create'[s] \in Finished
  PROVE  SessionInv(s)'
<1>1. window.item[s] = "none" /\ window'.item[s] = "none"
  BY DEF SessionInv
<1>. QED
  BY <1>1, LinuxDropped DEF SessionInv, SharedInv, LinuxInv, Young, Finished

\* PortalFails keeps the invariant of its session, touches no other and books as it should.
LEMMA InvPortalFails ==
  ASSUME TypeOK, NEW s \in Sessions, SessionInv(s), PortalFails(s) PROVE Kept(s)
<1>1. /\ platform = "linux" /\ ~hold[s] /\ DropLinuxHold(s) /\ create[s] \in InFlight
      /\ UNCHANGED <<platform, hold, window>>
  BY DEF PortalFails, LinuxFails, SessionInv, LinuxInv, InFlight
<1>2. SessionInv(s)'
  BY <1>1, LinuxEnds DEF PortalFails, LinuxFails, TypeOK, Finished
<1>3. \A t \in Sessions \ {s} : /\ src'[t] = src[t] /\ rt'[t] = rt[t]
                                /\ Users(t)' \subseteq Users(t)
  BY <1>1, LinuxDropped
<1>4. Elsewhere(s)
  BY <1>1, <1>3 DEF PortalFails, LinuxFails, TypeOK, Elsewhere, Same
<1>5. Booked(s)
  BY <1>1 DEF PortalFails, LinuxFails, TypeOK, Booked, InFlight
<1>. QED  BY <1>2, <1>4, <1>5 DEF Kept

\* CommitLinux keeps the invariant of its session, touches no other and books as it should.
LEMMA InvCommitLinux ==
  ASSUME TypeOK, NEW s \in Sessions, SessionInv(s), CommitLinux(s) PROVE Kept(s)
<1>1. CASE record[s] = "absent"
  <2>1. PortalFails(s)
    BY <1>1 DEF CommitLinux, PortalFails
  <2>. QED  BY <2>1, InvPortalFails
<1>2. CASE record[s] # "absent"
  <2>1. /\ rt'[s].closing = rt[s].closing /\ rt'[s].drained = rt[s].drained
        /\ rt'[s].pub = rt[s].pub /\ \A t \in Sessions \ {s} : rt'[t] = rt[t]
    BY <1>2 DEF CommitLinux, TypeOK, Runtime
  <2>2. SessionInv(s)'
    BY <1>2, <2>1 DEF TypeOK, CommitLinux, SessionInv, SharedInv, LinuxInv, Young
  <2>3. Elsewhere(s) /\ Booked(s)
    BY <1>2, <2>1 DEF TypeOK, CommitLinux, Elsewhere, Same, Booked, InFlight, Users
  <2>. QED  BY <2>2, <2>3 DEF Kept
<1>. QED  BY <1>1, <1>2

\* DropCreate keeps the invariant of its session, touches no other and books as it should.
LEMMA InvDropCreate ==
  ASSUME TypeOK, NEW s \in Sessions, SessionInv(s), DropCreate(s) PROVE Kept(s)
<1>1. CASE UnreserveMac(s)
  <2>1. hold[s]
    BY <1>1 DEF DropCreate, Awaiting, UnreserveMac, SessionInv, MacInv
  <2>. QED
    BY <1>1, <2>1, MacRemoves DEF DropCreate, Awaiting, UnreserveMac, TypeOK
<1>2. CASE UnreserveLinux(s)
  <2>1. ~hold[s] /\ record[s] # "ready" /\ platform = "linux"
    BY <1>2 DEF DropCreate, Awaiting, UnreserveLinux, SessionInv, LinuxInv, SharedInv
  <2>2. SessionInv(s)'
    BY <1>2, <2>1, LinuxEnds DEF DropCreate, UnreserveLinux, TypeOK, Finished
  <2>3. \A t \in Sessions \ {s} : /\ src'[t] = src[t] /\ rt'[t] = rt[t]
                                  /\ Users(t)' \subseteq Users(t)
    BY <1>2, LinuxDropped DEF UnreserveLinux
  <2>4. Elsewhere(s) /\ Booked(s)
    BY <1>2, <2>1, <2>3 DEF DropCreate, Awaiting, UnreserveLinux, TypeOK, Elsewhere, Same, Booked, InFlight
  <2>. QED  BY <2>2, <2>4 DEF Kept
<1>3. CASE UnreserveWindows(s)
  BY <1>3 DEF DropCreate, Awaiting, UnreserveWindows, TypeOK, Kept, Elsewhere, Same, Booked, InFlight,
     SessionInv, SharedInv, WindowsInv, Young, Users
<1>. QED  BY <1>1, <1>2, <1>3 DEF DropCreate

\* DeleteSession keeps the invariant of its session, touches no other and books as it should.
LEMMA InvDeleteSession ==
  ASSUME TypeOK, NEW s \in Sessions, SessionInv(s), DeleteSession(s) PROVE Kept(s)
<1>1. CASE hold[s] /\ platform = "macos"
  <2>1. CloseMacHold(s) /\ record' = ClosedRecord(s) /\ hold' = hold
    BY <1>1 DEF DeleteSession, CloseHold, CloseWindowsHold
  <2>2. \A t \in Sessions : Users(t)' \subseteq Users(t)
    BY <2>1, CutUsers DEF CloseMacHold, Users
  <2>3. SessionInv(s)'
    BY <1>1, <2>1, <2>2, MacCloses DEF DeleteSession, CloseMacHold, TypeOK
  <2>4. \A t \in Sessions \ {s} : rt'[t] = rt[t] /\ src'[t] = src[t] /\ record'[t] = record[t]
    BY <2>1 DEF CloseMacHold, ClosedRecord, TypeOK
  <2>. QED
    BY <1>1, <2>1, <2>2, <2>3, <2>4 DEF DeleteSession, Kept, Elsewhere, Same, Booked
<1>2. CASE hold[s] /\ platform = "windows"
  <2>1. /\ rt' = [rt EXCEPT ![s].closing = TRUE] /\ record' = ClosedRecord(s)
        /\ UNCHANGED <<platform, starting, hold, create, src, user, window>>
    BY <1>2 DEF DeleteSession, CloseHold, CloseMacHold, CloseWindowsHold
  <2>2. /\ rt'[s].closing = TRUE /\ rt'[s].drained = rt[s].drained /\ rt'[s].thread = rt[s].thread
        /\ rt'[s].pub = rt[s].pub /\ \A t \in Sessions \ {s} : rt'[t] = rt[t] /\ record'[t] = record[t]
        /\ record'[s] # "ready" /\ \A t \in Sessions : Users(t)' = Users(t)
    BY <2>1 DEF TypeOK, Runtime, ClosedRecord, Users
  <2>3. SessionInv(s)'
    BY <1>2, <2>1, <2>2 DEF SessionInv, SharedInv, WindowsInv, Young
  <2>. QED
    BY <2>1, <2>2, <2>3 DEF Kept, Elsewhere, Same, Booked
<1>3. CASE hold[s] /\ platform = "linux"
  <2>1. SessionInv(s)'
    BY <1>3, LinuxEnds DEF DeleteSession, TypeOK, SessionInv, LinuxInv, Finished
  <2>2. \A t \in Sessions \ {s} : /\ src'[t] = src[t] /\ rt'[t] = rt[t]
                                  /\ Users(t)' \subseteq Users(t)
    BY <1>3, LinuxDropped DEF DeleteSession
  <2>. QED
    BY <1>3, <2>1, <2>2 DEF DeleteSession, TypeOK, Kept, Elsewhere, Same, Booked
<1>4. CASE ~hold[s]
  BY <1>4 DEF DeleteSession, TypeOK, Kept, Elsewhere, Same, Booked, SessionInv, SharedInv, MacInv, LinuxInv,
     WindowsInv, Owned, Users, Young
<1>. QED
  BY <1>1, <1>2, <1>3, <1>4, NativeAssumption DEF TypeOK

\* Watch keeps the invariant of its session, touches no other and books as it should.
LEMMA InvWatch ==
  ASSUME TypeOK, NEW s \in Sessions, SessionInv(s), Watch(s) PROVE Kept(s)
<1>. DEFINE lost == rt[s].epoch # rt[s].seen
            failed == rt[s].error \/ (~rt[s].closing /\ rt[s].capture = "ended")
<1>1. /\ rt'[s].closing = rt[s].closing /\ rt'[s].drained = rt[s].drained
      /\ rt'[s].pub = rt[s].pub /\ rt'[s].error = failed
      /\ rt'[s].thread = (IF failed \/ rt[s].closing THEN "stop" ELSE "watch")
      /\ \A t \in Sessions \ {s} : rt'[t] = rt[t]
  BY DEF Watch, TypeOK, Runtime
<1>2. \A t \in Sessions : Users(t)' \subseteq Users(t)
  BY CutUsers DEF Watch, Users
<1>. HIDE DEF lost, failed
<1>3. /\ rt'[s].error \/ rt'[s].closing => rt'[s].thread = "stop" /\ rt[s].thread = "watch"
      /\ rt'[s].thread = "stop" => rt'[s].error \/ rt'[s].closing
      /\ rt'[s].thread \in {"watch", "stop"} /\ rt[s].thread = "watch"
  BY <1>1 DEF Watch, TypeOK, Runtime
<1>4. create[s] \notin Young
  BY DEF Watch, SessionInv, SharedInv, NewRuntime
<1>5. SessionInv(s)'
  BY <1>1, <1>2, <1>3, <1>4 DEF Watch, SessionInv, SharedInv, WindowsInv
<1>. QED
  BY <1>1, <1>2, <1>5 DEF Watch, Kept, Elsewhere, Same, Booked

\* StopPublications keeps the invariant of its session, touches no other and books as it should.
LEMMA InvStopPublications ==
  ASSUME TypeOK, NEW s \in Sessions, SessionInv(s), StopPublications(s) PROVE Kept(s)
<1>1. /\ rt'[s].closing = rt[s].closing /\ rt'[s].drained = rt[s].drained
      /\ rt'[s].pub = "stopped" /\ (rt[s].error => rt'[s].error) /\ rt'[s].thread = "drain"
      /\ \A t \in Sessions \ {s} : rt'[t] = rt[t] /\ src'[t] = src[t]
      /\ src'[s] = "stopped"
  BY DEF StopPublications, TypeOK, Runtime
<1>2. \A t \in Sessions : Users(t)' \subseteq Users(t)
  BY CutUsers DEF StopPublications
<1>. QED
  BY <1>1, <1>2 DEF StopPublications, Kept, Elsewhere, Same, Booked, SessionInv, SharedInv, WindowsInv,
     Young, NewRuntime

\* DrainPublications keeps the invariant of its session, touches no other and books as it should.
LEMMA InvDrainPublications ==
  ASSUME TypeOK, NEW s \in Sessions, SessionInv(s), DrainPublications(s) PROVE Kept(s)
<1>. DEFINE done == rt[s].thread = "drain" /\ Users(s) = {}
<1>1. /\ rt'[s].closing = rt[s].closing /\ rt'[s].drained = done
      /\ rt'[s].pub = (IF done THEN "none" ELSE rt[s].pub) /\ rt'[s].error = rt[s].error
      /\ rt'[s].thread = (IF done THEN "done" ELSE rt[s].thread)
      /\ \A t \in Sessions \ {s} : rt'[t] = rt[t]
  <2>. DEFINE left == {e \in rt[s].old : UsersOf(s, e) # {}}
  <2>1. rt' = [rt EXCEPT ![s] = [rt[s] EXCEPT !.old = left,
                 !.pub = IF done THEN "none" ELSE @,
                 !.drained = done, !.thread = IF done THEN "done" ELSE @]]
    BY ZenonT(40) DEF DrainPublications, TypeOK
  <2>. HIDE DEF left, done
  <2>. QED  BY <2>1 DEF TypeOK, Runtime
<1>2. \A t \in Sessions : Users(t)' = Users(t)
  BY DEF DrainPublications, Users
<1>3. /\ platform = "windows" /\ rt[s].thread \in {"watch", "drain"}
      /\ UNCHANGED <<platform, starting, record, hold, create, src, window>>
  BY DEF DrainPublications
<1>4. create[s] \notin Young /\ ~rt[s].drained
  BY <1>3 DEF SessionInv, SharedInv, NewRuntime
<1>5. SessionInv(s)'
  <2>1. CASE done
    BY <1>1, <1>2, <1>3, <1>4, <2>1 DEF SessionInv, SharedInv, WindowsInv
  <2>2. CASE ~done
    BY <1>1, <1>2, <1>3, <1>4, <2>2 DEF SessionInv, SharedInv, WindowsInv
  <2>. QED  BY <2>1, <2>2
<1>. QED
  BY <1>1, <1>2, <1>3, <1>5 DEF Kept, Elsewhere, Same, Booked

-----------------------------------------------------------------------------
(* Type correctness.                                                       *)

Runtimes == [Sessions -> Runtime]

\* Replacing one runtime keeps the type of all.
LEMMA RuntimeType ==
  ASSUME rt \in Runtimes, NEW s \in Sessions, NEW q \in Runtime, rt' = [rt EXCEPT ![s] = q]
  PROVE  rt' \in Runtimes
BY DEF Runtimes

\* Every step leaves a runtime a runtime.
LEMMA RuntimeStep == TypeOK /\ [Next]_vars => rt' \in Runtimes
<1>. SUFFICES ASSUME TypeOK, Next, rt' # rt PROVE rt' \in Runtimes
  BY DEF TypeOK, Runtimes, vars
<1>0. rt \in Runtimes
  BY DEF TypeOK, Runtimes
<1>00. \A s \in Sessions : rt[s] \in Runtime
  BY DEF TypeOK
<1>1. ASSUME NEW s \in Sessions, InsertHold(s) PROVE rt' \in Runtimes
  <2>1. rt' = [rt EXCEPT ![s] = [rt[s] EXCEPT !.thread = "watch"]]
    BY <1>1 DEF InsertHold
  <2>2. [rt[s] EXCEPT !.thread = "watch"] \in Runtime
    BY <1>00 DEF Runtime
  <2>. QED  BY <1>0, <2>1, <2>2, RuntimeType
<1>2. ASSUME NEW s \in Sessions, rt' = [rt EXCEPT ![s] = Closed(@)] PROVE rt' \in Runtimes
  <2>1. Closed(rt[s]) \in Runtime
    BY <1>00, ClosedRuntime
  <2>. QED  BY <1>0, <1>2, <2>1, RuntimeType
<1>3. ASSUME NEW s \in Sessions, rt' = [rt EXCEPT ![s].closing = TRUE] PROVE rt' \in Runtimes
  <2>1. [rt[s] EXCEPT !.closing = TRUE] \in Runtime
    BY <1>00, ZenonT(40) DEF Runtime
  <2>. QED  BY <1>0, <1>3, <2>1, RuntimeType
<1>4. ASSUME NEW s \in Sessions, DropLinuxHold(s) PROVE rt' \in Runtimes
  <2>1. rt' = [rt EXCEPT ![s] = [rt[s] EXCEPT !.server = FALSE, !.pub = "none"]]
    BY <1>0, <1>4 DEF DropLinuxHold, Runtimes
  <2>2. [rt[s] EXCEPT !.server = FALSE, !.pub = "none"] \in Runtime
    BY <1>00, ZenonT(40) DEF Runtime
  <2>. QED  BY <1>0, <2>1, <2>2, RuntimeType
<1>5. ASSUME NEW s \in Sessions, CommitMac(s) \/ CommitLinux(s) \/ CommitWindows(s)
      PROVE  rt' \in Runtimes
  <2>1. ASSUME rt' = [rt EXCEPT ![s].server = TRUE] PROVE rt' \in Runtimes
    <3>1. [rt[s] EXCEPT !.server = TRUE] \in Runtime
      BY <1>00, ZenonT(40) DEF Runtime
    <3>. QED  BY <1>0, <2>1, <3>1, RuntimeType
  <2>2. CASE CommitMac(s)
    BY <1>2, <2>1, <2>2 DEF CommitMac
  <2>3. CASE CommitLinux(s)
    BY <1>4, <2>1, <2>3 DEF CommitLinux, LinuxFails
  <2>4. CASE CommitWindows(s)
    BY <1>3, <2>4 DEF CommitWindows
  <2>. QED  BY <1>5, <2>2, <2>3, <2>4
<1>6. ASSUME NEW s \in Sessions, RemoveSession(s) \/ DeleteSession(s) PROVE rt' \in Runtimes
  BY <1>2, <1>3, <1>4, <1>6
  DEF RemoveSession, DeleteSession, CloseHold, CloseMacHold, CloseWindowsHold
<1>7. ASSUME NEW s \in Sessions, DropCreate(s) PROVE rt' \in Runtimes
  BY <1>4, <1>6, <1>7 DEF DropCreate, UnreserveMac, UnreserveLinux, UnreserveWindows
<1>8. ASSUME NEW s \in Sessions, PublishNativeFrame(s) PROVE rt' \in Runtimes
  <2>1. PICK q \in FrameOutcomes(rt[s]) : rt' = [rt EXCEPT ![s] = q]
    BY <1>8 DEF PublishNativeFrame, FrameOutcomes
  <2>2. q \in Runtime
    BY <1>0, FrameRuntime DEF Runtimes
  <2>. QED  BY <1>0, <2>1, <2>2, RuntimeType
<1>9. ASSUME NEW s \in Sessions, CaptureError(s) PROVE rt' \in Runtimes
  <2>. DEFINE p == IF rt[s].pub = "live" THEN "stopped" ELSE rt[s].pub
              m == IF rt[s].ready = "none" THEN "err" ELSE rt[s].ready
              q == [rt[s] EXCEPT !.error = TRUE, !.pub = p, !.ready = m]
  <2>1. rt' = [rt EXCEPT ![s] = q]
    BY <1>0, <1>9 DEF CaptureError
  <2>2. rt[s] \in Runtime /\ p \in {"none", "live", "stopped"} /\ m \in {"none", "ok", "err"}
    BY <1>00 DEF Runtime
  <2>. HIDE DEF p, m
  <2>3. q \in Runtime
    BY <2>2 DEF Runtime
  <2>. HIDE DEF q
  <2>. QED  BY <1>0, <2>1, <2>3, RuntimeType
<1>10. ASSUME NEW s \in Sessions, Maintain(s) \/ ProducerReady(s) PROVE rt' \in Runtimes
  <2>1. CASE Maintain(s)
    <3>1. rt' = [rt EXCEPT ![s] = [rt[s] EXCEPT !.drained = TRUE, !.pub = "none", !.thread = "done"]]
      BY <1>0, <2>1 DEF Maintain, Runtimes
    <3>2. [rt[s] EXCEPT !.drained = TRUE, !.pub = "none", !.thread = "done"] \in Runtime
      BY <1>00, ZenonT(40) DEF Runtime
    <3>. QED  BY <1>0, <3>1, <3>2, RuntimeType
  <2>2. CASE ProducerReady(s)
    <3>1. [rt[s] EXCEPT !.pub = "live"] \in Runtime
      BY <1>00 DEF Runtime
    <3>. QED  BY <1>0, <2>2, <3>1, RuntimeType DEF ProducerReady
  <2>. QED  BY <1>10, <2>1, <2>2
<1>11. ASSUME NEW s \in Sessions, CaptureChanges(s) PROVE rt' \in Runtimes
  <2>1. CASE rt[s].epoch < MaxEpoch /\ rt' = [rt EXCEPT ![s].epoch = @ + 1]
    <3>. DEFINE e == rt[s].epoch + 1
    <3>1. e \in 0..MaxEpoch /\ rt' = [rt EXCEPT ![s] = [rt[s] EXCEPT !.epoch = e]]
      BY <1>00, <2>1, NativeAssumption DEF Runtime
    <3>. HIDE DEF e
    <3>2. [rt[s] EXCEPT !.epoch = e] \in Runtime
      BY <1>00, <3>1 DEF Runtime
    <3>. QED  BY <1>0, <3>1, <3>2, RuntimeType
  <2>2. CASE rt' = [rt EXCEPT ![s].capture = "ended"]
    <3>1. [rt[s] EXCEPT !.capture = "ended"] \in Runtime
      BY <1>00 DEF Runtime
    <3>. QED  BY <1>0, <2>2, <3>1, RuntimeType
  <2>. QED  BY <1>11, <2>1, <2>2 DEF CaptureChanges
<1>12. ASSUME NEW s \in Sessions, SpawnSession(s) PROVE rt' \in Runtimes
  <2>. DEFINE failed == rt[s].capture = "ended"
              q == [rt[s] EXCEPT !.thread = "watch", !.pub = "live", !.seen = rt[s].epoch,
                                 !.error = failed]
  <2>1. rt' = [rt EXCEPT ![s] = q]
    BY <1>0, <1>12 DEF SpawnSession
  <2>2. rt[s] \in Runtime /\ failed \in BOOLEAN
    BY <1>0 DEF Runtimes
  <2>. HIDE DEF failed
  <2>3. q \in Runtime
    BY <2>2 DEF Runtime
  <2>. HIDE DEF q
  <2>. QED  BY <1>0, <2>1, <2>3, RuntimeType
<1>13. ASSUME NEW s \in Sessions, Watch(s) PROVE rt' \in Runtimes
  <2>. DEFINE r == rt[s]
              failed == r.error \/ (~r.closing /\ r.capture = "ended")
              gone == IF r.epoch # r.seen THEN r.old \union {r.seen} ELSE r.old
              at == IF failed \/ r.closing THEN "stop" ELSE r.thread
              q == [r EXCEPT !.seen = r.epoch, !.error = failed, !.old = gone, !.thread = at]
  <2>1. rt' = [rt EXCEPT ![s] = q]
    BY <1>0, <1>13 DEF Watch
  <2>2. /\ r \in Runtime /\ failed \in BOOLEAN /\ gone \in SUBSET (0..MaxEpoch)
        /\ at \in {"none", "watch", "stop", "drain", "done"} /\ r.epoch \in 0..MaxEpoch
    BY <1>0 DEF Runtime, Runtimes
  <2>. HIDE DEF r, failed, gone, at
  <2>3. q \in Runtime
    BY <2>2 DEF Runtime
  <2>. HIDE DEF q
  <2>. QED  BY <1>0, <2>1, <2>3, RuntimeType
<1>14. ASSUME NEW s \in Sessions, StopPublications(s) PROVE rt' \in Runtimes
  <2>. DEFINE failed == rt[s].error \/ (~rt[s].closing /\ rt[s].capture = "ended")
              q == [rt[s] EXCEPT !.thread = "drain", !.pub = "stopped", !.error = failed]
  <2>1. rt' = [rt EXCEPT ![s] = q]
    BY <1>0, <1>14 DEF StopPublications
  <2>2. rt[s] \in Runtime /\ failed \in BOOLEAN
    BY <1>0 DEF Runtimes
  <2>. HIDE DEF failed
  <2>3. q \in Runtime
    BY <2>2 DEF Runtime
  <2>. HIDE DEF q
  <2>. QED  BY <1>0, <2>1, <2>3, RuntimeType
<1>15. ASSUME NEW s \in Sessions, DrainPublications(s) PROVE rt' \in Runtimes
  <2>. DEFINE left == {e \in rt[s].old : UsersOf(s, e) # {}}
              done == rt[s].thread = "drain" /\ Users(s) = {}
              p == IF done THEN "none" ELSE rt[s].pub
              at == IF done THEN "done" ELSE rt[s].thread
              q == [rt[s] EXCEPT !.old = left, !.pub = p, !.drained = done, !.thread = at]
  <2>1. rt' = [rt EXCEPT ![s] = q]
    BY <1>0, <1>15 DEF DrainPublications
  <2>2. /\ rt[s] \in Runtime /\ done \in BOOLEAN /\ left \in SUBSET (0..MaxEpoch)
        /\ p \in {"none", "live", "stopped"} /\ at \in {"none", "watch", "stop", "drain", "done"}
    BY <1>0 DEF Runtime, Runtimes
  <2>. HIDE DEF left, done, p, at
  <2>3. q \in Runtime
    BY <2>2 DEF Runtime
  <2>. HIDE DEF q
  <2>. QED  BY <1>0, <2>1, <2>3, RuntimeType
<1>16. ASSUME NEW s \in Sessions,
              \/ InsertRecord(s) \/ StartReturns(s) \/ InstallStream(s) \/ ReadyArrives(s) \/ StartServer(s)
              \/ OpenBackend(s) \/ PortalAdvances(s) \/ PortalRejected(s) \/ OpenStream(s)
              \/ StartCapture(s) \/ MakeItem(s) \/ CaptureStarts(s) \/ WindowsFails(s)
       PROVE  rt' = rt
  BY <1>16 DEF InsertRecord, StartReturns, InstallStream, ReadyArrives, StartServer, OpenBackend,
     PortalAdvances, PortalRejected, OpenStream, StartCapture, MakeItem, CaptureStarts, WindowsFails
<1>17. ASSUME NEW s \in Sessions, Reserve(s) \/ RefusePolicy(s) \/ InvalidPolicy(s) \/ OrphanReturns(s)
       PROVE  rt' = rt
  BY <1>17 DEF Reserve, RefusePolicy, InvalidPolicy, OrphanReturns
<1>18. ASSUME NEW s \in Sessions,
              \/ InsertHoldFails(s) \/ ReadyFails(s) \/ StartServerFails(s) \/ StartFails(s) \/ PortalFails(s)
       PROVE  rt' \in Runtimes
  BY <1>2, <1>4, <1>6, <1>18
  DEF InsertHoldFails, ReadyFails, StartServerFails, Fails, StartFails, PortalFails, LinuxFails
<1>19. ASSUME NEW s \in Sessions, CreateStep(s) PROVE rt' \in Runtimes
  BY <1>0, <1>1, <1>5, <1>10, <1>12, <1>16, <1>18, <1>19 DEF CreateStep
<1>20. ASSUME \/ \E c \in Consumers : LinkEnds(c) \/ Unmap(c) \/ \E s \in Sessions : Attach(c, s)
              \/ \E u \in Updates : Submit(u) \/ UpdateComplete(u) \/ DropUpdate(u)
              \/ \E u \in Updates, s \in Sessions : AskOutput(u, s)
              \/ WindowReplaced
       PROVE  rt' = rt
  BY <1>20 DEF LinkEnds, Unmap, Attach, Submit, UpdateComplete, DropUpdate, AskOutput, WindowReplaced
<1>. QED
  BY <1>0, <1>6, <1>7, <1>8, <1>9, <1>10, <1>11, <1>13, <1>14, <1>15, <1>17, <1>19, <1>20
  DEF Next, ThreadStep

\* Every step leaves the links of the consumers well typed.
LEMMA LinkStep == TypeOK /\ [Next]_vars => user' \in [Consumers -> Link \union {None}]
<1>. SUFFICES ASSUME TypeOK, Next, user' # user PROVE user' \in [Consumers -> Link \union {None}]
  BY DEF TypeOK, vars
<1>0. user \in [Consumers -> Link \union {None}]
  BY DEF TypeOK
<1>1. ASSUME NEW s, NEW es, user' = Cut(s, es) PROVE user' \in [Consumers -> Link \union {None}]
  <2>1. ASSUME NEW c \in Consumers, c \in Users(s)
        PROVE  [user[c] EXCEPT !.link = "cut"] \in Link
    BY <1>0, <2>1 DEF Users, Link
  <2>. QED  BY <1>0, <1>1, <2>1 DEF Cut
<1>2. ASSUME NEW c \in Consumers, NEW s \in Sessions, Attach(c, s)
      PROVE  user' \in [Consumers -> Link \union {None}]
  <2>1. rt[s].seen \in 0..MaxEpoch
    BY DEF TypeOK, Runtime
  <2>. QED  BY <1>0, <1>2, <2>1 DEF Attach, Link
<1>3. ASSUME NEW c \in Consumers, LinkEnds(c) \/ Unmap(c)
      PROVE  user' \in [Consumers -> Link \union {None}]
  <2>1. [user[c] EXCEPT !.link = "gone"] \in Link
    BY <1>0, <1>3 DEF LinkEnds, Unmap, Link
  <2>. QED  BY <1>0, <1>3, <2>1 DEF LinkEnds, Unmap
<1>4. ASSUME NEW s \in Sessions,
             \/ CommitMac(s) \/ RemoveSession(s) \/ DropLinuxHold(s) \/ DropCreate(s)
             \/ DeleteSession(s) \/ LinuxFails(s) \/ Watch(s) \/ StopPublications(s)
      PROVE  user' \in [Consumers -> Link \union {None}]
  <2>1. CASE RemoveSession(s) \/ DeleteSession(s)
    BY <1>1, <2>1 DEF RemoveSession, DeleteSession, CloseHold, CloseMacHold, CloseWindowsHold,
       DropLinuxHold
  <2>2. CASE DropLinuxHold(s) \/ LinuxFails(s)
    BY <1>1, <2>2 DEF DropLinuxHold, LinuxFails
  <2>3. CASE DropCreate(s)
    BY <2>1, <2>2, <2>3 DEF DropCreate, UnreserveMac, UnreserveLinux, UnreserveWindows
  <2>4. CASE CommitMac(s)
    BY <1>1, <2>4 DEF CommitMac
  <2>5. CASE Watch(s)
    BY <1>1, <2>5 DEF Watch
  <2>6. CASE StopPublications(s)
    BY <1>1, <2>6 DEF StopPublications
  <2>. QED  BY <1>4, <2>1, <2>2, <2>3, <2>4, <2>5, <2>6
<1>5. ASSUME NEW s \in Sessions, Fails(s) \/ PortalFails(s) \/ CommitLinux(s)
      PROVE  user' \in [Consumers -> Link \union {None}]
  <2>1. user' = user \/ RemoveSession(s) \/ LinuxFails(s)
    BY <1>5 DEF Fails, PortalFails, CommitLinux
  <2>. QED  BY <1>0, <1>4, <2>1
<1>6. ASSUME NEW s \in Sessions,
             \/ InsertRecord(s) \/ InsertHold(s) \/ StartReturns(s) \/ StartFails(s) \/ InstallStream(s)
             \/ ReadyArrives(s) \/ StartServer(s) \/ OpenBackend(s) \/ PortalAdvances(s)
             \/ PortalRejected(s) \/ OpenStream(s) \/ ProducerReady(s) \/ StartCapture(s) \/ MakeItem(s)
             \/ CaptureStarts(s) \/ WindowsFails(s) \/ SpawnSession(s) \/ CommitWindows(s)
      PROVE  user' = user
  <2>1. CASE InsertRecord(s) \/ InsertHold(s) \/ StartReturns(s) \/ StartFails(s) \/ InstallStream(s)
    BY <2>1 DEF InsertRecord, InsertHold, StartReturns, StartFails, InstallStream
  <2>2. CASE ReadyArrives(s) \/ StartServer(s) \/ OpenBackend(s) \/ PortalAdvances(s) \/ PortalRejected(s)
    BY <2>2 DEF ReadyArrives, StartServer, OpenBackend, PortalAdvances, PortalRejected
  <2>3. CASE OpenStream(s) \/ ProducerReady(s) \/ StartCapture(s) \/ MakeItem(s)
    BY <2>3 DEF OpenStream, ProducerReady, StartCapture, MakeItem
  <2>4. CASE CaptureStarts(s) \/ WindowsFails(s) \/ SpawnSession(s) \/ CommitWindows(s)
    BY <2>4 DEF CaptureStarts, WindowsFails, SpawnSession, CommitWindows
  <2>. QED  BY <1>6, <2>1, <2>2, <2>3, <2>4
<1>7. ASSUME NEW s \in Sessions,
             \/ Reserve(s) \/ RefusePolicy(s) \/ InvalidPolicy(s) \/ OrphanReturns(s)
             \/ PublishNativeFrame(s) \/ CaptureError(s) \/ CaptureChanges(s) \/ Maintain(s)
             \/ DrainPublications(s) \/ WindowReplaced \/ \E u \in Updates : AskOutput(u, s)
      PROVE  user' = user
  <2>1. CASE Reserve(s) \/ RefusePolicy(s) \/ InvalidPolicy(s) \/ OrphanReturns(s)
    BY <2>1 DEF Reserve, RefusePolicy, InvalidPolicy, OrphanReturns
  <2>2. CASE PublishNativeFrame(s) \/ CaptureError(s)
    BY <2>2 DEF PublishNativeFrame, CaptureError
  <2>3. CASE CaptureChanges(s) \/ Maintain(s)
    BY <2>3 DEF CaptureChanges, Maintain
  <2>4. CASE DrainPublications(s) \/ WindowReplaced \/ \E u \in Updates : AskOutput(u, s)
    BY <2>4 DEF DrainPublications, WindowReplaced, AskOutput
  <2>. QED  BY <1>7, <2>1, <2>2, <2>3, <2>4
<1>8. ASSUME NEW s \in Sessions, CreateStep(s) \/ ThreadStep(s)
      PROVE  user' \in [Consumers -> Link \union {None}]
  BY <1>0, <1>4, <1>5, <1>6, <1>7, <1>8
  DEF CreateStep, ThreadStep, InsertHoldFails, ReadyFails, StartServerFails
<1>9. ASSUME NEW u \in Updates, Submit(u) \/ UpdateComplete(u) \/ DropUpdate(u) PROVE user' = user
  BY <1>9 DEF Submit, UpdateComplete, DropUpdate
<1>10. CASE WindowReplaced
  BY <1>10 DEF WindowReplaced
<1>. QED
  BY <1>2, <1>3, <1>4, <1>7, <1>8, <1>9, <1>10 DEF Next

Portals == [at: [Sessions -> {"idle", "create", "select", "consent", "remote", "open", "closed"}],
            used: BOOLEAN, cache: BOOLEAN]
Windows == [hwnd: {"ours", "other"}, item: [Sessions -> {"none", "checked", "ours", "other"}]]
Outputs == [Updates -> [at: {"idle", "control", "submitted", "orphan"}, of: Sessions \union {None}]]

\* The types of the variables besides the runtimes and the links.
RestOK ==
  /\ platform \in Platforms
  /\ starting \in BOOLEAN
  /\ record \in [Sessions -> {"absent", "starting", "ready", "closed"}]
  /\ hold \in [Sessions -> BOOLEAN]
  /\ create \in [Sessions -> {"idle"} \union InFlight \union Finished]
  /\ src \in [Sessions -> {"off", "starting", "up", "held", "stopped"}]
  /\ portal \in Portals /\ window \in Windows /\ update \in Outputs

\* TypeOK, in three parts.
LEMMA TypeParts == TypeOK <=> RestOK /\ rt \in Runtimes /\ user \in [Consumers -> Link \union {None}]
BY DEF TypeOK, RestOK, Runtimes, Portals, Windows, Outputs

\* The portal's session is dropped with the hold, and its type stays.
LEMMA PortalClosed ==
  ASSUME RestOK, NEW s \in Sessions, DropLinuxHold(s)
  PROVE  /\ portal' \in Portals
         /\ src' \in [Sessions -> {"off", "starting", "up", "held", "stopped"}]
BY DEF RestOK, DropLinuxHold, Portals

\* remove_session keeps the types of what it writes.
LEMMA RemoveType ==
  ASSUME RestOK, NEW s \in Sessions, RemoveSession(s)
  PROVE  /\ record' \in [Sessions -> {"absent", "starting", "ready", "closed"}]
         /\ hold' \in [Sessions -> BOOLEAN] /\ portal' = portal
         /\ src' \in [Sessions -> {"off", "starting", "up", "held", "stopped"}]
<1>1. ClosedRecord(s) \in [Sessions -> {"absent", "starting", "ready", "closed"}]
  BY DEF RestOK, ClosedRecord
<1>2. CASE hold[s] /\ platform # "linux"
  BY <1>1, <1>2 DEF RestOK, RemoveSession, CloseHold, CloseMacHold, CloseWindowsHold
<1>3. CASE ~(hold[s] /\ platform # "linux")
  BY <1>3 DEF RestOK, RemoveSession
<1>. QED  BY <1>2, <1>3

\* Every step leaves the other variables well typed.
LEMMA RestStep == RestOK /\ [Next]_vars => RestOK'
<1>. SUFFICES ASSUME RestOK, Next PROVE RestOK'
  BY DEF RestOK, vars
<1>1. ASSUME NEW s \in Sessions,
             Reserve(s) \/ RefusePolicy(s) \/ InvalidPolicy(s) \/ InsertRecord(s)
      PROVE  RestOK'
  <2>1. CASE Reserve(s)
    <3>. DEFINE left == {t \in Sessions : hold[t]} \ Purged
                free == ~starting /\ left = {}
    <3>1. /\ hold' = [t \in Sessions |-> hold[t] /\ t \notin Purged]
          /\ record' = [t \in Sessions |-> IF t \in Purged THEN "absent" ELSE record[t]]
          /\ starting' = (starting \/ free)
          /\ create' = [create EXCEPT ![s] = IF free THEN "reserved" ELSE "err"]
          /\ UNCHANGED <<platform, src, portal, window, update>>
      BY <2>1 DEF Reserve
    <3>. HIDE DEF free
    <3>2. hold' \in [Sessions -> BOOLEAN] /\ starting' \in BOOLEAN
      BY <3>1 DEF RestOK
    <3>. QED  BY <3>1, <3>2 DEF RestOK, InFlight, Finished
  <2>2. CASE RefusePolicy(s) \/ InvalidPolicy(s) \/ InsertRecord(s)
    BY <2>2 DEF RestOK, RefusePolicy, InvalidPolicy, InsertRecord, InFlight, Finished
  <2>. QED  BY <1>1, <2>1, <2>2
<1>2. ASSUME NEW s \in Sessions, Fails(s) PROVE RestOK'
  BY <1>2, RemoveType DEF Fails, RestOK, Finished
<1>3. ASSUME NEW s \in Sessions, InsertHold(s) \/ StartReturns(s) \/ ReadyArrives(s) \/ StartServer(s)
      PROVE  RestOK'
  BY <1>3 DEF RestOK, InsertHold, StartReturns, ReadyArrives, StartServer, InFlight
<1>4. ASSUME NEW s \in Sessions, StartFails(s) \/ InstallStream(s) \/ CommitMac(s) PROVE RestOK'
  <2>0. ClosedRecord(s) \in [Sessions -> {"absent", "starting", "ready", "closed"}]
    BY DEF RestOK, ClosedRecord
  <2>1. CASE StartFails(s)
    BY <2>0, <2>1 DEF RestOK, StartFails, Finished
  <2>2. CASE InstallStream(s)
    <3>1. CASE ~rt[s].closing
      BY <2>2, <3>1 DEF RestOK, InstallStream, InFlight
    <3>2. CASE rt[s].closing
      <4>1. /\ src' = [src EXCEPT ![s] = "stopped"] /\ create' = [create EXCEPT ![s] = "err"]
            /\ starting' = FALSE /\ record' = ClosedRecord(s)
            /\ UNCHANGED <<platform, hold, portal, window, update>>
        BY <2>2, <3>2 DEF InstallStream
      <4>. QED  BY <2>0, <4>1 DEF RestOK, Finished
    <3>. QED  BY <3>1, <3>2
  <2>3. CASE CommitMac(s)
    <3>1. CASE record[s] = "starting"
      BY <2>3, <3>1 DEF RestOK, CommitMac, Finished
    <3>2. CASE record[s] # "starting"
      BY <2>0, <2>3, <3>2 DEF RestOK, CommitMac, Finished
    <3>. QED  BY <3>1, <3>2
  <2>. QED  BY <1>4, <2>1, <2>2, <2>3
<1>5. ASSUME NEW s \in Sessions, OpenBackend(s) PROVE RestOK'
  BY <1>5 DEF RestOK, OpenBackend, InFlight, Portals
<1>6. ASSUME NEW s \in Sessions, PortalAdvances(s) PROVE RestOK'
  <2>1. PICK step \in {<<"create", "select">>, <<"select", "consent">>,
                       <<"consent", "remote">>, <<"remote", "open">>}, keep \in BOOLEAN :
          /\ portal' = [portal EXCEPT !.at[s] = step[2],
                                     !.cache = @ \/ (keep /\ step[1] = "consent")]
          /\ create' = [create EXCEPT ![s] = IF step[2] = "open" THEN "got" ELSE @]
    BY <1>6 DEF PortalAdvances
  <2>. DEFINE c == portal.cache \/ (keep /\ step[1] = "consent")
  <2>2. /\ step[2] \in {"select", "consent", "remote", "open"} /\ c \in BOOLEAN
        /\ portal' = [portal EXCEPT !.at[s] = step[2], !.cache = c]
    BY <2>1 DEF RestOK, Portals
  <2>. HIDE DEF c
  <2>3. portal' \in Portals
    BY <2>2 DEF RestOK, Portals
  <2>4. create' \in [Sessions -> {"idle"} \union InFlight \union Finished]
    BY <2>1 DEF RestOK, InFlight
  <2>. QED  BY <1>6, <2>3, <2>4 DEF RestOK, PortalAdvances
<1>7. ASSUME NEW s \in Sessions, PortalRejected(s) PROVE RestOK'
  BY <1>7 DEF RestOK, PortalRejected, Portals
<1>8. ASSUME NEW s \in Sessions, LinuxFails(s) PROVE RestOK'
  BY <1>8, PortalClosed DEF RestOK, LinuxFails, Finished
<1>9. ASSUME NEW s \in Sessions, OpenStream(s) \/ ProducerReady(s) PROVE RestOK'
  BY <1>9 DEF RestOK, OpenStream, ProducerReady, InFlight
<1>10. ASSUME NEW s \in Sessions, CommitLinux(s) PROVE RestOK'
  <2>1. CASE record[s] = "absent"
    BY <1>8, <1>10, <2>1 DEF CommitLinux
  <2>2. CASE record[s] # "absent"
    BY <1>10, <2>2 DEF RestOK, CommitLinux, Finished
  <2>. QED  BY <2>1, <2>2
<1>11. ASSUME NEW s \in Sessions, StartCapture(s) \/ MakeItem(s) \/ CaptureStarts(s) PROVE RestOK'
  BY <1>11 DEF RestOK, StartCapture, MakeItem, CaptureStarts, InFlight, Windows
<1>12. ASSUME NEW s \in Sessions, WindowsFails(s) \/ SpawnSession(s) \/ CommitWindows(s) PROVE RestOK'
  <2>1. CASE WindowsFails(s)
    BY <2>1 DEF RestOK, WindowsFails, Finished
  <2>2. CASE SpawnSession(s)
    BY <2>2 DEF RestOK, SpawnSession, InFlight
  <2>3. CASE CommitWindows(s)
    BY <2>3 DEF RestOK, CommitWindows, Finished
  <2>. QED  BY <1>12, <2>1, <2>2, <2>3
<1>13. ASSUME NEW s \in Sessions, DropCreate(s) PROVE RestOK'
  <2>1. create' \in [Sessions -> {"idle"} \union InFlight \union Finished]
    BY <1>13 DEF DropCreate, RestOK, Finished
  <2>2. CASE UnreserveMac(s)
    BY <1>13, <2>1, <2>2, RemoveType DEF DropCreate, UnreserveMac, RestOK
  <2>3. CASE UnreserveLinux(s)
    BY <1>13, <2>1, <2>3, PortalClosed DEF DropCreate, UnreserveLinux, RestOK
  <2>4. CASE UnreserveWindows(s)
    BY <1>13, <2>1, <2>4 DEF DropCreate, UnreserveWindows, RestOK
  <2>. QED  BY <1>13, <2>2, <2>3, <2>4 DEF DropCreate
<1>14. ASSUME NEW s \in Sessions, DeleteSession(s) PROVE RestOK'
  <2>1. CASE hold[s] /\ platform # "linux"
    BY <1>14, <2>1 DEF DeleteSession, CloseHold, CloseMacHold, CloseWindowsHold, ClosedRecord, RestOK
  <2>2. CASE ~hold[s]
    BY <1>14, <2>2 DEF DeleteSession, RestOK
  <2>3. CASE hold[s] /\ platform = "linux"
    BY <1>14, <2>3, PortalClosed DEF DeleteSession, RestOK
  <2>. QED  BY <2>1, <2>2, <2>3
<1>15. ASSUME NEW s \in Sessions, OrphanReturns(s) \/ StopPublications(s) PROVE RestOK'
  BY <1>15 DEF RestOK, OrphanReturns, StopPublications
<1>16. ASSUME NEW s \in Sessions,
              \/ PublishNativeFrame(s) \/ CaptureError(s) \/ CaptureChanges(s) \/ Maintain(s)
              \/ Watch(s) \/ DrainPublications(s)
       PROVE  RestOK'
  <2>1. CASE PublishNativeFrame(s) \/ CaptureError(s) \/ CaptureChanges(s)
    BY <2>1 DEF RestOK, PublishNativeFrame, CaptureError, CaptureChanges
  <2>2. CASE Maintain(s) \/ Watch(s)
    BY <2>2 DEF RestOK, Maintain, Watch
  <2>3. CASE DrainPublications(s)
    BY <2>3 DEF RestOK, DrainPublications
  <2>. QED  BY <1>16, <2>1, <2>2, <2>3
<1>17. ASSUME NEW c \in Consumers, LinkEnds(c) \/ Unmap(c) \/ \E s \in Sessions : Attach(c, s)
       PROVE  RestOK'
  <2>1. CASE LinkEnds(c) \/ Unmap(c)
    BY <2>1 DEF RestOK, LinkEnds, Unmap
  <2>2. CASE \E s \in Sessions : Attach(c, s)
    BY <2>2 DEF RestOK, Attach
  <2>. QED  BY <1>17, <2>1, <2>2
<1>18. CASE WindowReplaced
  BY <1>18 DEF RestOK, WindowReplaced, Windows
<1>19. ASSUME NEW u \in Updates, NEW s \in Sessions, AskOutput(u, s) PROVE RestOK'
  BY <1>19 DEF RestOK, AskOutput, Outputs
<1>20. ASSUME NEW u \in Updates, Submit(u) \/ UpdateComplete(u) \/ DropUpdate(u) PROVE RestOK'
  BY <1>20 DEF RestOK, Submit, UpdateComplete, DropUpdate, NoUpdate, Outputs
<1>. QED
  BY <1>1, <1>2, <1>3, <1>4, <1>5, <1>6, <1>7, <1>8, <1>9, <1>10, <1>11, <1>12, <1>13, <1>14, <1>15,
     <1>16, <1>17, <1>18, <1>19, <1>20
  DEF Next, CreateStep, ThreadStep, InsertHoldFails, ReadyFails, StartServerFails, PortalFails

\* Every step keeps the types.
LEMMA TypeStep == TypeOK /\ [Next]_vars => TypeOK'
<1>. SUFFICES ASSUME TypeOK, [Next]_vars PROVE TypeOK'
  OBVIOUS
<1>1. RestOK' /\ rt' \in Runtimes /\ user' \in [Consumers -> Link \union {None}]
  BY RestStep, RuntimeStep, LinkStep, TypeParts
<1>. QED  BY <1>1 DEF TypeOK, RestOK, Runtimes, Portals, Windows, Outputs

-----------------------------------------------------------------------------
(* One step of the whole system.                                           *)

\* What a step of one session does to the others and to the reservation.
LEMMA SessionStep ==
  ASSUME TypeOK, NEW s \in Sessions, SessionInv(s),
         \/ RefusePolicy(s) \/ InvalidPolicy(s) \/ CreateStep(s) \/ DropCreate(s)
         \/ OrphanReturns(s) \/ DeleteSession(s)
         \/ PublishNativeFrame(s) \/ CaptureError(s) \/ CaptureChanges(s) \/ ThreadStep(s)
  PROVE  Kept(s)
<1>1. CASE CreateStep(s)
  BY <1>1, InvInsertRecord, InvInsertHold, InvInsertHoldFails, InvStartReturns, InvStartFails,
     InvInstallStream, InvReadyArrives, InvReadyFails, InvStartServer, InvStartServerFails,
     InvCommitMac, InvOpenBackend, InvPortalAdvances, InvPortalRejected, InvPortalFails, InvOpenStream,
     InvProducerReady, InvCommitLinux, InvStartCapture, InvMakeItem, InvCaptureStarts, InvWindowsFails,
     InvSpawnSession, InvCommitWindows DEF CreateStep
<1>2. CASE ThreadStep(s)
  BY <1>2, InvMaintain, InvWatch, InvStopPublications, InvDrainPublications DEF ThreadStep
<1>. QED
  BY <1>1, <1>2, InvRefusePolicy, InvInvalidPolicy, InvDropCreate, InvOrphanReturns, InvDeleteSession,
     InvPublishNativeFrame, InvCaptureError, InvCaptureChanges

\* A step of one session keeps the reservation with the one request in flight.
LEMMA SlotKept ==
  ASSUME SlotInv, NEW s \in Sessions, Elsewhere(s), Booked(s) PROVE SlotInv'
<1>1. \A t \in Sessions \ {s} : create'[t] = create[t] /\ hold'[t] = hold[t]
  BY DEF Elsewhere, Same
<1>2. ASSUME NEW t \in Sessions, NEW u \in Sessions, create'[t] \in InFlight, create'[u] \in InFlight
      PROVE  t = u
  BY <1>1, <1>2 DEF SlotInv, Booked
<1>3. ASSUME NEW t \in Sessions, NEW u \in Sessions, hold'[t], hold'[u] \/ create'[u] \in InFlight
      PROVE  t = u
  BY <1>1, <1>3 DEF SlotInv, Booked
<1>4. starting' <=> \E t \in Sessions : create'[t] \in InFlight
  BY <1>1 DEF SlotInv, Booked
<1>. QED  BY <1>2, <1>3, <1>4 DEF SlotInv

\* Reserve takes a free reservation when no hold is left, and purges only what has drained.
LEMMA InvReserve ==
  ASSUME TypeOK, \A t \in Sessions : SessionInv(t), SlotInv, NEW s \in Sessions, Reserve(s)
  PROVE  (\A t \in Sessions : SessionInv(t)') /\ SlotInv'
<1>. DEFINE free == ~starting /\ {t \in Sessions : hold[t]} \ Purged = {}
<1>1. /\ create[s] = "idle"
      /\ \A t \in Sessions : /\ hold'[t] <=> hold[t] /\ t \notin Purged
                             /\ record'[t] = (IF t \in Purged THEN "absent" ELSE record[t])
      /\ starting' <=> starting \/ free
      /\ create'[s] = (IF free THEN "reserved" ELSE "err")
      /\ \A t \in Sessions \ {s} : create'[t] = create[t]
      /\ UNCHANGED <<platform, src, rt, user, window>>
  BY ZenonT(40) DEF Reserve, TypeOK
<1>2. \A t \in Purged : hold[t] /\ rt[t].drained /\ platform # "linux" /\ ~starting
  BY DEF Purged
<1>3. free => \A t \in Sessions : ~hold'[t]
  BY <1>1
<1>. HIDE DEF free
<1>4. \A t \in Sessions : Users(t)' = Users(t)
  BY <1>1 DEF Users
<1>5. ASSUME NEW t \in Sessions, t # s, t \notin Purged PROVE SessionInv(t)'
  <2>1. SessionInv(t)
    OBVIOUS
  <2>2. hold'[t] = hold[t]
    BY <1>1, <1>5 DEF TypeOK, Reserve
  <2>. QED  BY <1>1, <1>4, <1>5, <2>1, <2>2, SameInv DEF Same
<1>6. ASSUME NEW t \in Sessions, t # s, t \in Purged PROVE SessionInv(t)'
  <2>1. /\ rt[t].drained /\ ~hold'[t] /\ record'[t] = "absent" /\ platform # "linux" /\ hold[t]
        /\ create'[t] = create[t] /\ create[t] \notin InFlight /\ create[t] \notin Young
    BY <1>1, <1>2, <1>6 DEF SlotInv, SessionInv, SharedInv
  <2>2. SharedInv(t)'
    BY <1>1, <2>1 DEF SessionInv, SharedInv, Young
  <2>3. ASSUME platform = "macos" PROVE MacInv(t)'
    <3>1. MacInv(t) /\ rt[t].pub = "none"
      BY <2>1, <2>3 DEF SessionInv, SharedInv
    <3>2. Owned(t)' = Owned(t)
      BY <1>1, <2>1 DEF Owned
    <3>. QED  BY <1>1, <1>4, <2>1, <3>1, <3>2 DEF MacInv, InFlight
  <2>4. ASSUME platform = "windows" PROVE WindowsInv(t)'
    BY <1>1, <1>4, <2>1, <2>4 DEF SessionInv, WindowsInv
  <2>. QED  BY <1>1, <2>1, <2>2, <2>3, <2>4 DEF SessionInv
<1>7. SessionInv(s)'
  <2>1. /\ ~hold[s] /\ rt[s] = NewRuntime /\ src[s] = "off" /\ record[s] = "absent" /\ SessionInv(s)
    BY <1>1 DEF SessionInv, SharedInv, Young
  <2>2. create'[s] \in {"reserved", "err"} /\ ~hold'[s] /\ record'[s] = "absent"
    BY <1>1, <2>1
  <2>. QED
    BY <1>1, <1>4, <2>1, <2>2
    DEF SessionInv, SharedInv, MacInv, LinuxInv, WindowsInv, Owned, Young, NewRuntime
<1>8. SlotInv'
  <2>1. "reserved" \in InFlight /\ "err" \notin InFlight /\ "idle" \notin InFlight
    BY DEF InFlight
  <2>2. CASE free
    <3>1. \A t \in Sessions : create[t] \notin InFlight
      BY <2>2 DEF SlotInv, free
    <3>. QED  BY <1>1, <1>3, <2>1, <2>2, <3>1 DEF SlotInv
  <2>3. CASE ~free
    <3>1. /\ starting' <=> starting
          /\ \A t \in Sessions : /\ create'[t] \in InFlight <=> create[t] \in InFlight
                                 /\ hold'[t] => hold[t]
      BY <1>1, <2>1, <2>3
    <3>. QED  BY <3>1 DEF SlotInv
  <2>. QED  BY <2>2, <2>3
<1>. QED  BY <1>5, <1>6, <1>7, <1>8

\* A consumer attaches to a live publication only.
LEMMA InvAttach ==
  ASSUME TypeOK, NEW s \in Sessions, NEW c \in Consumers, SessionInv(s), Attach(c, s)
  PROVE  SessionInv(s)' /\ Elsewhere(s) /\ Booked(s)
<1>1. /\ rt[s].pub = "live" /\ UNCHANGED <<platform, starting, record, hold, create, src, rt, window>>
  BY DEF Attach
<1>2. \A t \in Sessions \ {s} : Users(t)' \subseteq Users(t)
  BY DEF Attach, Users, TypeOK
<1>3. SessionInv(s)'
  BY <1>1 DEF SessionInv, SharedInv, MacInv, LinuxInv, WindowsInv, Owned
<1>. QED  BY <1>1, <1>2, <1>3 DEF Elsewhere, Same, Booked

\* The reservation and the sessions do not see consumers leave and outputs change.
LEMMA InvElse ==
  ASSUME TypeOK,
         \/ \E c \in Consumers : LinkEnds(c) \/ Unmap(c)
         \/ \E u \in Updates : Submit(u) \/ UpdateComplete(u) \/ DropUpdate(u)
         \/ \E u \in Updates, s \in Sessions : AskOutput(u, s)
  PROVE  UNCHANGED <<starting, create, rt, hold>> /\ \A t \in Sessions : Same(t)
<1>1. UNCHANGED <<platform, starting, record, hold, create, src, rt, window>>
  BY DEF LinkEnds, Unmap, Submit, UpdateComplete, DropUpdate, AskOutput
<1>2. \A t \in Sessions : Users(t)' \subseteq Users(t)
  BY DEF LinkEnds, Unmap, Submit, UpdateComplete, DropUpdate, AskOutput, Users, TypeOK, Link
<1>. QED  BY <1>1, <1>2 DEF Same

\* A window that comes to name another is not yet captured.
LEMMA InvWindowReplaced ==
  ASSUME TypeOK, NEW t \in Sessions, SessionInv(t), WindowReplaced PROVE SessionInv(t)'
<1>1. /\ platform = "windows" /\ window'.hwnd = "other" /\ window'.item = window.item
      /\ UNCHANGED <<platform, starting, record, hold, create, src, rt, user>>
  BY DEF WindowReplaced, TypeOK
<1>2. Users(t)' = Users(t)
  BY <1>1 DEF Users
<1>. QED  BY <1>1, <1>2 DEF SessionInv, SharedInv, WindowsInv

\* No step of the creation of a session touches the build target or the pointer updates
\* (native_session.rs).
LEMMA CreateKeeps ==
  ASSUME NEW s \in Sessions, CreateStep(s) PROVE UNCHANGED <<platform, update>>
<1>1. ASSUME Fails(s) \/ LinuxFails(s) PROVE UNCHANGED <<platform, update>>
  BY <1>1 DEF Fails, LinuxFails
<1>2. CASE InsertRecord(s) \/ InsertHold(s) \/ InsertHoldFails(s) \/ StartReturns(s) \/ StartFails(s)
  BY <1>1, <1>2 DEF InsertRecord, InsertHold, InsertHoldFails, StartReturns, StartFails
<1>3. CASE InstallStream(s) \/ ReadyArrives(s) \/ ReadyFails(s) \/ StartServer(s) \/ StartServerFails(s)
  BY <1>1, <1>3 DEF InstallStream, ReadyArrives, ReadyFails, StartServer, StartServerFails
<1>4. CASE CommitMac(s) \/ OpenBackend(s) \/ PortalAdvances(s) \/ PortalRejected(s) \/ PortalFails(s)
  BY <1>1, <1>4 DEF CommitMac, OpenBackend, PortalAdvances, PortalRejected, PortalFails
<1>5. CASE OpenStream(s) \/ ProducerReady(s) \/ CommitLinux(s) \/ StartCapture(s)
  BY <1>1, <1>5 DEF OpenStream, ProducerReady, CommitLinux, StartCapture
<1>6. CASE MakeItem(s) \/ CaptureStarts(s) \/ WindowsFails(s) \/ SpawnSession(s) \/ CommitWindows(s)
  BY <1>6 DEF MakeItem, CaptureStarts, WindowsFails, SpawnSession, CommitWindows
<1>. QED  BY <1>1, <1>2, <1>3, <1>4, <1>5, <1>6 DEF CreateStep

\* Neither does a refusal, a dropped or a deleted session, its capture or its thread.
LEMMA ServeKeeps ==
  ASSUME NEW s \in Sessions,
         \/ Reserve(s) \/ RefusePolicy(s) \/ InvalidPolicy(s) \/ DropCreate(s) \/ OrphanReturns(s)
         \/ DeleteSession(s) \/ PublishNativeFrame(s) \/ CaptureError(s) \/ CaptureChanges(s)
         \/ ThreadStep(s) \/ WindowReplaced
  PROVE  UNCHANGED <<platform, update>>
<1>1. CASE Reserve(s) \/ RefusePolicy(s) \/ InvalidPolicy(s)
  BY <1>1 DEF Reserve, RefusePolicy, InvalidPolicy
<1>2. CASE DropCreate(s) \/ OrphanReturns(s)
  BY <1>2 DEF DropCreate, OrphanReturns
<1>3. CASE DeleteSession(s)
  BY <1>3 DEF DeleteSession
<1>4. CASE PublishNativeFrame(s) \/ CaptureError(s)
  BY <1>4, ZenonT(40) DEF PublishNativeFrame, CaptureError
<1>5. CASE CaptureChanges(s) \/ ThreadStep(s) \/ WindowReplaced
  BY <1>5, ZenonT(40) DEF CaptureChanges, ThreadStep, Maintain, Watch, StopPublications, DrainPublications,
     WindowReplaced
<1>. QED  BY <1>1, <1>2, <1>3, <1>4, <1>5

\* Only a request that finds no update outstanding submits one.
LEMMA UpdateStep == TypeOK /\ UpdateInv /\ [Next]_vars => UpdateInv'
<1>. SUFFICES ASSUME TypeOK, UpdateInv, Next, update' # update PROVE UpdateInv'
  BY DEF UpdateInv, vars
<1>1. ASSUME NEW u \in Updates, Submit(u) PROVE UpdateInv'
  BY <1>1 DEF TypeOK, UpdateInv, Submit, NoUpdate
<1>2. ASSUME NEW u \in Updates, UpdateComplete(u) \/ DropUpdate(u) PROVE UpdateInv'
  BY <1>2 DEF TypeOK, UpdateInv, UpdateComplete, DropUpdate, NoUpdate
<1>3. ASSUME NEW u \in Updates, NEW s \in Sessions, AskOutput(u, s) PROVE UpdateInv'
  BY <1>3 DEF TypeOK, UpdateInv, AskOutput
<1>4. ASSUME NEW s \in Sessions, CreateStep(s) PROVE update' = update
  BY <1>4, CreateKeeps
<1>5. ASSUME NEW s \in Sessions,
             \/ Reserve(s) \/ RefusePolicy(s) \/ InvalidPolicy(s) \/ DropCreate(s) \/ OrphanReturns(s)
             \/ DeleteSession(s) \/ PublishNativeFrame(s) \/ CaptureError(s) \/ CaptureChanges(s)
             \/ ThreadStep(s)
      PROVE  update' = update
  BY <1>5, ServeKeeps
<1>6. ASSUME NEW c \in Consumers, LinkEnds(c) \/ Unmap(c) \/ \E s \in Sessions : Attach(c, s)
      PROVE  update' = update
  BY <1>6 DEF LinkEnds, Unmap, Attach
<1>7. CASE WindowReplaced
  BY <1>7 DEF WindowReplaced
<1>. QED  BY <1>1, <1>2, <1>3, <1>4, <1>5, <1>6, <1>7 DEF Next

\* A step changes the use of the service by one session at most, and every step keeps what
\* the sessions have in common.
LEMMA NativeStep ==
  ASSUME TypeOK, \A t \in Sessions : SessionInv(t), SlotInv, Next
  PROVE  /\ \A t \in Sessions : SessionInv(t)'
         /\ SlotInv'
         /\ \/ \E s \in Sessions : \A t \in Sessions \ {s} : create'[t] = create[t] /\ rt'[t] = rt[t]
            \/ \A t \in Sessions : rt'[t] = rt[t] /\ (create'[t] = "served" <=> create[t] = "served")
<1>1. ASSUME NEW s \in Sessions, SessionInv(s)', Elsewhere(s), Booked(s)
      PROVE  /\ \A t \in Sessions : SessionInv(t)'
             /\ SlotInv'
             /\ \A t \in Sessions \ {s} : create'[t] = create[t] /\ rt'[t] = rt[t]
  <2>1. ASSUME NEW t \in Sessions \ {s} PROVE SessionInv(t)'
    BY <1>1, SameInv DEF Elsewhere
  <2>. QED  BY <1>1, <2>1, SlotKept DEF Elsewhere, Same
<1>2. ASSUME \A t \in Sessions : Same(t), UNCHANGED <<starting, create, rt, hold>>
      PROVE  (\A t \in Sessions : SessionInv(t)') /\ SlotInv'
  BY <1>2, SameInv DEF SlotInv
<1>3. ASSUME NEW s \in Sessions,
             \/ RefusePolicy(s) \/ InvalidPolicy(s) \/ CreateStep(s) \/ DropCreate(s)
             \/ OrphanReturns(s) \/ DeleteSession(s)
             \/ PublishNativeFrame(s) \/ CaptureError(s) \/ CaptureChanges(s) \/ ThreadStep(s)
      PROVE  SessionInv(s)' /\ Elsewhere(s) /\ Booked(s)
  BY <1>3, SessionStep DEF Kept
<1>4. ASSUME NEW s \in Sessions, Reserve(s)
      PROVE  \A t \in Sessions : rt'[t] = rt[t] /\ (create'[t] = "served" <=> create[t] = "served")
  BY <1>4 DEF Reserve, TypeOK
<1>5. CASE WindowReplaced
  <2>1. UNCHANGED <<starting, create, rt, hold>>
    BY <1>5 DEF WindowReplaced
  <2>. QED  BY <1>5, <2>1, InvWindowReplaced DEF SlotInv
<1>6. CASE \E s \in Sessions : Reserve(s)
  BY <1>4, <1>6, InvReserve
<1>7. CASE \E s \in Sessions, c \in Consumers : Attach(c, s)
  BY <1>1, <1>7, InvAttach
<1>8. CASE \/ \E c \in Consumers : LinkEnds(c) \/ Unmap(c)
           \/ \E u \in Updates : Submit(u) \/ UpdateComplete(u) \/ DropUpdate(u)
           \/ \E u \in Updates, s \in Sessions : AskOutput(u, s)
  <2>1. UNCHANGED <<starting, create, rt, hold>> /\ \A t \in Sessions : Same(t)
    BY <1>8, InvElse
  <2>. QED  BY <1>2, <2>1
<1>9. CASE \E s \in Sessions :
             \/ RefusePolicy(s) \/ InvalidPolicy(s) \/ CreateStep(s) \/ DropCreate(s)
             \/ OrphanReturns(s) \/ DeleteSession(s)
             \/ PublishNativeFrame(s) \/ CaptureError(s) \/ CaptureChanges(s) \/ ThreadStep(s)
  BY <1>1, <1>3, <1>9
<1>. QED
  BY <1>5, <1>6, <1>7, <1>8, <1>9 DEF Next

\* The invariant holds when the daemon starts.
LEMMA NativeInit == Init => NativeInv
<1>. SUFFICES ASSUME Init PROVE NativeInv
  OBVIOUS
<1>1. TypeOK
  <2>1. NewRuntime \in Runtime
    BY NativeAssumption DEF NewRuntime, Runtime
  <2>2. portal \in [at: [Sessions -> {"idle", "create", "select", "consent",
                                     "remote", "open", "closed"}],
                   used: BOOLEAN, cache: BOOLEAN]
    BY DEF Init
  <2>. QED  BY <2>1, <2>2 DEF Init, TypeOK, NoUpdate, InFlight
<1>2. \A s \in Sessions : SessionInv(s)
  BY DEF Init, SessionInv, SharedInv, MacInv, LinuxInv, WindowsInv, Young, NewRuntime, Owned, Users
<1>3. SlotInv /\ UpdateInv
  BY DEF Init, SlotInv, UpdateInv, InFlight, NoUpdate
<1>. QED  BY <1>1, <1>2, <1>3 DEF NativeInv

\* Every step keeps the invariant.
LEMMA NativeNext == NativeInv /\ [Next]_vars => NativeInv'
<1>. SUFFICES ASSUME NativeInv, [Next]_vars PROVE NativeInv'
  OBVIOUS
<1>1. TypeOK' /\ UpdateInv'
  BY TypeStep, UpdateStep DEF NativeInv
<1>2. CASE Next
  BY <1>1, <1>2, NativeStep DEF NativeInv
<1>3. CASE UNCHANGED vars
  <2>1. \A t \in Sessions : Same(t)
    BY <1>3 DEF vars, Same, Users
  <2>2. \A t \in Sessions : SessionInv(t)'
    BY <2>1, SameInv DEF NativeInv
  <2>3. SlotInv'
    BY <1>3 DEF NativeInv, SlotInv, vars
  <2>. QED  BY <1>1, <2>2, <2>3 DEF NativeInv
<1>. QED  BY <1>2, <1>3

\* The invariant holds in every state.
LEMMA NativeAlways == Spec => []NativeInv
<1>. QED  BY NativeInit, NativeNext, PTL DEF Spec

-----------------------------------------------------------------------------
(* The properties.                                                         *)

\* A set whose members are all one has at most one.
LEMMA AtMostOne ==
  ASSUME NEW S, \A x, y \in S : x = y PROVE Cardinality(S) <= 1
<1>1. CASE S = {}
  BY <1>1, FS_EmptySet
<1>2. CASE S # {}
  <2>1. PICK x \in S : S = {x}
    BY <1>2
  <2>. QED  BY <2>1, FS_Singleton
<1>. QED  BY <1>1, <1>2

\* Whoever uses the macOS or Linux service has the hold or the reservation.
LEMMA OneUser ==
  ASSUME NativeInv, platform # "windows" PROVE \A x, y \in ServiceUsers : x = y
<1>1. ASSUME NEW s \in ServiceUsers
      PROVE  s \in Sessions /\ (hold[s] \/ create[s] \in InFlight)
  BY <1>1, NativeAssumption
  DEF ServiceUsers, NativeInv, TypeOK, SessionInv, MacInv, LinuxInv, InFlight
<1>. QED  BY <1>1 DEF NativeInv, SlotInv

\* The reservation has one owner, a stream has one size update outstanding, and the macOS
\* and Linux service has one user, whatever requests are made, dropped and fail
\* (capture_registry.rs, native_session.rs).
THEOREM OnlyOne == Spec => []OneAtATime
<1>1. NativeInv => OneAtATime
  <2>. SUFFICES ASSUME NativeInv PROVE OneAtATime
    OBVIOUS
  <2>1. ReservedByOne
    <3>. DEFINE busy == {s \in Sessions : create[s] \in InFlight}
    <3>1. \A x, y \in busy : x = y
      BY DEF NativeInv, SlotInv
    <3>2. starting = (busy # {})
      BY DEF NativeInv, SlotInv, TypeOK
    <3>. QED  BY <3>1, <3>2, AtMostOne DEF ReservedByOne
  <2>2. OneUpdateAtATime
    <3>. SUFFICES ASSUME NEW s \in Sessions
                  PROVE  Cardinality({u \in Updates : /\ update[u].of = s
                                                      /\ update[u].at \in {"submitted", "orphan"}}) <= 1
      BY DEF OneUpdateAtATime
    <3>. DEFINE S == {u \in Updates : update[u].of = s /\ update[u].at \in {"submitted", "orphan"}}
    <3>1. \A x, y \in S : x = y
      BY DEF NativeInv, UpdateInv
    <3>. QED  BY <3>1, AtMostOne
  <2>3. OneServiceUser
    BY OneUser, AtMostOne DEF OneServiceUser
  <2>. QED  BY <2>1, <2>2, <2>3 DEF OneAtATime
<1>. QED  BY <1>1, NativeAlways, PTL

\* Every running stream has an owner that can stop it, captures the authorized window and
\* backs every ready session; drained storage is in nobody's use (native_session.rs,
\* native_session_linux.rs, native_session_windows.rs).
THEOREM StreamsOwned == Spec => []StreamsAreOwned
<1>1. NativeInv => StreamsAreOwned
  <2>. SUFFICES ASSUME NativeInv PROVE StreamsAreOwned
    OBVIOUS
  <2>0. TypeOK /\ (\A s \in Sessions : SessionInv(s)) /\ platform \in {"macos", "linux", "windows"}
    BY NativeAssumption DEF NativeInv, TypeOK
  <2>1. HoldSurvivesStartup
    BY <2>0 DEF HoldSurvivesStartup, SessionInv, MacInv
  <2>2. StreamHasOwner
    BY <2>0 DEF StreamHasOwner, SessionInv, MacInv, LinuxInv
  <2>3. DrainedIsUnused
    BY <2>0 DEF DrainedIsUnused, SessionInv, SharedInv, MacInv, LinuxInv, WindowsInv
  <2>4. CapturesAuthorizedWindow
    BY <2>0 DEF CapturesAuthorizedWindow, SessionInv
  <2>5. ReadyIsLive
    <3>. SUFFICES ASSUME NEW s \in Sessions, Status(s) = "ready"
                  PROVE  rt[s].pub = "live" /\ src[s] \notin {"off", "stopped"}
      BY DEF ReadyIsLive
    <3>0. rt[s] \in Runtime
      BY <2>0 DEF TypeOK
    <3>1. record[s] # "absent"
      BY DEF Status
    <3>2. hold[s]
      <4>1. CASE ~hold[s]
        <5>1. record[s] = "ready"
          BY <3>1, <4>1 DEF Status
        <5>. QED  BY <2>0, <4>1, <5>1 DEF SessionInv, SharedInv
      <4>. QED  BY <4>1
    <3>3. CASE platform = "macos"
      <4>1. MacSnapshot(rt[s]) = "ready"
        BY <3>1, <3>2, <3>3 DEF Status
      <4>2. ~rt[s].drained /\ ~rt[s].closing /\ ~rt[s].error /\ rt[s].pub # "none"
        BY <3>0, <4>1 DEF MacSnapshot, Runtime
      <4>. QED  BY <2>0, <3>0, <3>2, <3>3, <4>2 DEF SessionInv, MacInv, Runtime
    <3>4. CASE platform = "windows"
      <4>1. WindowsSnapshot(rt[s]) = "ready"
        BY <3>1, <3>2, <3>4 DEF Status
      <4>2. ~rt[s].drained /\ ~rt[s].closing /\ ~rt[s].error
        BY <3>0, <4>1 DEF WindowsSnapshot, Runtime
      <4>3. rt[s].thread \in {"watch", "stop"}
        BY <2>0, <3>0, <3>2, <3>4, <4>2 DEF SessionInv, WindowsInv, Runtime
      <4>. QED  BY <2>0, <3>4, <4>3 DEF SessionInv, WindowsInv
    <3>5. CASE platform = "linux"
      BY <2>0, <3>2, <3>5 DEF SessionInv, LinuxInv
    <3>. QED  BY <2>0, <3>3, <3>4, <3>5
  <2>. QED  BY <2>0, <2>1, <2>2, <2>3, <2>4, <2>5 DEF StreamsAreOwned
<1>. QED  BY <1>1, NativeAlways, PTL

\* The build target does not change.
LEMMA PlatformFixed == Next => platform' = platform
<1>. SUFFICES ASSUME Next PROVE platform' = platform
  OBVIOUS
<1>1. ASSUME NEW s \in Sessions, CreateStep(s) PROVE platform' = platform
  BY <1>1, CreateKeeps
<1>2. ASSUME NEW s \in Sessions,
             \/ Reserve(s) \/ RefusePolicy(s) \/ InvalidPolicy(s) \/ DropCreate(s) \/ OrphanReturns(s)
             \/ DeleteSession(s) \/ PublishNativeFrame(s) \/ CaptureError(s) \/ CaptureChanges(s)
             \/ ThreadStep(s)
      PROVE  platform' = platform
  BY <1>2, ServeKeeps
<1>3. ASSUME NEW s \in Sessions, NEW c \in Consumers, Attach(c, s) PROVE platform' = platform
  BY <1>3 DEF Attach
<1>. QED
  BY <1>1, <1>2, <1>3 DEF Next, WindowReplaced, LinkEnds, Unmap, AskOutput, Submit, UpdateComplete, DropUpdate

\* The user of the slot is the one session that uses the service.
LEMMA SlotUser ==
  ASSUME NativeInv
  PROVE  /\ ServiceUsers \subseteq Sessions
         /\ platform # "macos" \/ ServiceUsers = {} => ServiceUser = None
         /\ \A s \in ServiceUsers : platform = "macos" => ServiceUser = s
<1>1. ServiceUsers \subseteq Sessions
  BY DEF ServiceUsers
<1>2. platform # "macos" \/ ServiceUsers = {} => ServiceUser = None
  BY DEF ServiceUser
<1>3. ASSUME NEW s \in ServiceUsers, platform = "macos" PROVE ServiceUser = s
  <2>1. ServiceUsers = {s}
    BY <1>3, OneUser
  <2>. QED  BY <1>3, <2>1 DEF ServiceUser
<1>. QED  BY <1>1, <1>2, <1>3

\* The macOS sessions implement ServiceSlot: a step takes the free service for one session or
\* gives it up, because a step changes the use of the service by one session and a session
\* takes it only while it has the reservation (native_session.rs).
THEOREM SessionsImplementSlot == Spec => ImplementsServiceSlot
<1>1. Init => Slot!Init
  <2>. SUFFICES ASSUME Init PROVE ServiceUser = None
    BY DEF Slot!Init
  <2>1. ServiceUsers = {}
    BY DEF Init, ServiceUsers, NewRuntime
  <2>. QED  BY <2>1 DEF ServiceUser
<1>2. NativeInv /\ NativeInv' /\ [Next]_vars => [Slot!Next]_ServiceUser
  <2>. SUFFICES ASSUME NativeInv, NativeInv', [Next]_vars, ServiceUser' # ServiceUser
                PROVE  \/ ServiceUser # None /\ ServiceUser' = None
                       \/ \E s \in Sessions : ServiceUser = None /\ ServiceUser' = s
    BY DEF Slot!Next, Slot!Release, Slot!Acquire
  <2>0. Next
    <3>1. CASE UNCHANGED vars
      <4>1. ServiceUsers' = ServiceUsers /\ platform' = platform
        BY <3>1 DEF vars, ServiceUsers
      <4>. QED  BY <4>1 DEF ServiceUser
    <3>. QED  BY <3>1
  <2>1. platform' = platform
    BY <2>0, PlatformFixed
  <2>2. platform = "macos"
    BY <2>1 DEF ServiceUser
  <2>3. \A t \in Sessions : t \in ServiceUsers' <=>
             rt'[t].pub # "none" \/ rt'[t].server \/ create'[t] = "served"
    BY DEF ServiceUsers
  <2>4. \E s \in Sessions : \A t \in Sessions \ {s} : t \in ServiceUsers' <=> t \in ServiceUsers
    <3>1. CASE \E s \in Sessions : \A t \in Sessions \ {s} : create'[t] = create[t] /\ rt'[t] = rt[t]
      BY <2>3, <3>1 DEF ServiceUsers
    <3>2. CASE \A t \in Sessions : rt'[t] = rt[t] /\ (create'[t] = "served" <=> create[t] = "served")
      <4>1. ServiceUsers' = ServiceUsers
        BY <3>2 DEF ServiceUsers
      <4>. QED  BY <2>1, <4>1 DEF ServiceUser
    <3>. QED  BY <2>0, <3>1, <3>2, NativeStep DEF NativeInv
  <2>5. \A x, y \in ServiceUsers' : x = y
    <3>1. ASSUME NEW s \in ServiceUsers'
          PROVE  s \in Sessions /\ (hold'[s] \/ create'[s] \in InFlight)
      BY <2>1, <2>2, <3>1 DEF ServiceUsers, NativeInv, SessionInv, MacInv, InFlight
    <3>. QED  BY <3>1 DEF NativeInv, SlotInv
  <2>6. \A s \in ServiceUsers' : s \in Sessions /\ ServiceUser' = s
    <3>1. ASSUME NEW s \in ServiceUsers' PROVE s \in Sessions /\ ServiceUser' = s
      <4>1. ServiceUsers' = {s}
        BY <2>5, <3>1
      <4>2. s \in Sessions
        BY <3>1 DEF ServiceUsers
      <4>. QED  BY <2>1, <2>2, <4>1, <4>2 DEF ServiceUser
    <3>. QED  BY <3>1
  <2>7. ServiceUsers' = {} => ServiceUser' = None
    BY DEF ServiceUser
  <2>8. ServiceUsers = {} => ServiceUser = None
    BY DEF ServiceUser
  <2>9. \A s \in ServiceUsers : s \in Sessions /\ ServiceUser = s
    BY <2>2, SlotUser
  <2>10. ASSUME NEW x \in ServiceUsers, NEW y \in ServiceUsers' PROVE FALSE
    <3>1. x # y /\ x \notin ServiceUsers' /\ y \notin ServiceUsers
      BY <2>6, <2>9, <2>10
    <3>. QED  BY <2>4, <2>6, <2>9, <2>10, <3>1
  <2>11. CASE ServiceUsers = {}
    BY <2>6, <2>7, <2>8, <2>11
  <2>12. CASE ServiceUsers # {}
    BY <2>7, <2>9, <2>10, <2>12, NativeAssumption
  <2>. QED  BY <2>11, <2>12
<1>. QED  BY <1>1, <1>2, NativeAlways, PTL DEF Spec, ImplementsServiceSlot, Slot!Spec

=============================================================================
