--------------------------- MODULE NativeSessions ---------------------------
(***************************************************************************)
(* Native (GPU) capture sessions of portholed on its three platforms:      *)
(* capture_registry/native_session.rs (macOS, ScreenCaptureKit and one     *)
(* named XPC service), native_session_linux.rs (portal and PipeWire) and   *)
(* native_session_windows.rs (Windows.Graphics.Capture), over the records, *)
(* holds and the start reservation of capture_registry.rs.                 *)
(*                                                                         *)
(* A create request is an async function: it takes the registry mutex for  *)
(* single steps, and its client may drop it at any await.  The platform's  *)
(* start call runs on a blocking thread that outlives a dropped request.   *)
(* Frames arrive on the platform's own thread, a retirement (macOS) or     *)
(* session (Windows) thread drains what is closed, and DELETE and output   *)
(* requests come at any time.  Geometry, counters and messages are left    *)
(* out; a consumer is what attaches to the session's endpoint.             *)
(***************************************************************************)
EXTENDS Naturals, FiniteSets

CONSTANTS
  Sessions,         \* session ids, one per create request
  Consumers,        \* processes that attach to a native session
  Updates,          \* POST /capture-sessions/{id}/output requests
  Platforms,        \* the platforms the daemon may have been built for
  MaxEpoch,         \* bound on device losses
  MaxConnections,   \* MAX_CONNECTIONS (Windows)
  None

ASSUME NativeAssumption ==
  /\ Platforms \subseteq {"macos", "linux", "windows"} /\ Platforms # {}
  /\ MaxEpoch \in Nat
  /\ MaxConnections \in Nat \ {0}
  /\ None \notin Sessions

VARIABLES
  platform,   \* chosen at build time
  starting,   \* native_session_starting
  record,     \* the lifecycle in the registry's map, or "absent"
  hold,       \* native_holds has an entry for the session
  create,     \* where the create request of the session is
  src,        \* the platform's stream and who owns it
  rt,         \* NativeRuntime / State, the runtime behind the hold
  user,       \* the session, epoch and link of a consumer, or None
  portal,     \* Linux: the consent dialogue, and the restore data on disk
  window,     \* Windows: what the HWND names, and what the item was made for
  update      \* an output request: where it is, and for which session

vars == <<platform, starting, record, hold, create, src, rt, user, portal,
          window, update>>

\* Requests that hold the reservation, and those of them that wait at an await.
InFlight == {"reserved", "recorded", "start", "got", "wait", "ready", "served"}
Awaiting(s) == create[s] \in {"start", "wait"}
Finished == {"ok", "err", "dropped"}

Runtime == [closing: BOOLEAN, error: BOOLEAN, drained: BOOLEAN,
            pending: BOOLEAN, server: BOOLEAN,
            pub: {"none", "live", "stopped"},
            ready: {"none", "ok", "err"},
            thread: {"none", "watch", "stop", "drain", "done"},
            capture: {"running", "ended"},
            epoch: 0..MaxEpoch, seen: 0..MaxEpoch, old: SUBSET (0..MaxEpoch)]

NewRuntime == [closing |-> FALSE, error |-> FALSE, drained |-> FALSE,
               pending |-> FALSE, server |-> FALSE,
               pub |-> "none", ready |-> "none", thread |-> "none",
               capture |-> "running", epoch |-> 0, seen |-> 0, old |-> {}]

NoUpdate == [at |-> "idle", of |-> None]
Link == [at: Sessions, epoch: 0..MaxEpoch, link: {"up", "cut", "gone"}]

TypeOK ==
  /\ platform \in Platforms
  /\ starting \in BOOLEAN
  /\ record \in [Sessions -> {"absent", "starting", "ready", "closed"}]
  /\ hold \in [Sessions -> BOOLEAN]
  /\ create \in [Sessions -> {"idle"} \union InFlight \union Finished]
  /\ src \in [Sessions -> {"off", "starting", "up", "held", "stopped"}]
  /\ rt \in [Sessions -> Runtime]
  /\ user \in [Consumers -> Link \union {None}]
  /\ portal \in [at: [Sessions -> {"idle", "create", "select", "consent",
                                   "remote", "open", "closed"}],
                 used: BOOLEAN, cache: BOOLEAN]
  /\ window \in [hwnd: {"ours", "other"}, item: [Sessions -> {"none", "checked", "ours", "other"}]]
  /\ update \in [Updates -> [at: {"idle", "control", "submitted", "orphan"},
                             of: Sessions \union {None}]]

Init ==
  /\ platform \in Platforms
  /\ starting = FALSE
  /\ record = [s \in Sessions |-> "absent"]
  /\ hold = [s \in Sessions |-> FALSE]
  /\ create = [s \in Sessions |-> "idle"]
  /\ src = [s \in Sessions |-> "off"]
  /\ rt = [s \in Sessions |-> NewRuntime]
  /\ user = [c \in Consumers |-> None]
  /\ portal \in [at: {[s \in Sessions |-> "idle"]}, used: {FALSE},
                 cache: IF platform = "linux" THEN BOOLEAN ELSE {FALSE}]
  /\ window = [hwnd |-> "ours", item |-> [s \in Sessions |-> "none"]]
  /\ update = [u \in Updates |-> NoUpdate]

Users(s) == {c \in Consumers : user[c] # None /\ user[c].at = s}
UsersOf(s, e) == {c \in Users(s) : user[c].epoch = e}

\* NativeRuntime::snapshot; a drain that takes longer than DRAIN_TIMEOUT
\* (recovery_required) counts as draining.
MacSnapshot(r) ==
  CASE r.drained -> "closed"
    [] ~r.drained /\ r.closing -> "draining"
    [] ~r.drained /\ ~r.closing /\ r.error -> "failed"
    [] OTHER -> IF r.pending THEN "paused" ELSE IF r.pub = "none" THEN "starting" ELSE "ready"

\* State::snapshot: a failure is reported also while closing and afterwards.  A
\* capture that is paused or recovering counts as ready.
WindowsSnapshot(r) ==
  CASE r.error -> "failed"
    [] ~r.error /\ r.drained -> "closed"
    [] ~r.error /\ ~r.drained /\ r.closing -> "draining"
    [] OTHER -> "ready"

\* GET /capture-sessions/{id}: the hold's snapshot, or the record's lifecycle.
Status(s) ==
  CASE record[s] = "absent" -> "unknown"
    [] record[s] # "absent" /\ hold[s] /\ platform = "macos" -> MacSnapshot(rt[s])
    [] record[s] # "absent" /\ hold[s] /\ platform = "windows" -> WindowsSnapshot(rt[s])
    [] OTHER -> record[s]

-----------------------------------------------------------------------------
(* What the handlers share.                                                *)

\* The links of a session's consumers are shut down; their owners see it.
Cut(s, es) ==
  [c \in Consumers |->
     IF c \in Users(s) /\ user[c].epoch \in es /\ user[c].link = "up"
     THEN [user[c] EXCEPT !.link = "cut"] ELSE user[c]]

\* A macOS runtime is closed: the producer stops, the server is dropped.
Closed(r) == [r EXCEPT !.closing = TRUE, !.server = FALSE,
                       !.pub = IF @ = "live" THEN "stopped" ELSE @]
\* Mutant of ClosedRecord: the lifecycle is given the status GET reports.
DrainingRecord(s) == [record EXCEPT ![s] = IF @ = "absent" THEN @ ELSE "draining"]
\* The record of a session whose hold drains, if a DELETE left it.
ClosedRecord(s) == [record EXCEPT ![s] = IF @ = "absent" THEN @ ELSE "closed"]

\* NativeSessionHold::close: the producer stops, and the server and the stream
\* are dropped at once.
CloseMacHold(s) ==
  /\ platform = "macos"
  /\ rt' = [rt EXCEPT ![s] = Closed(@)]
  /\ src' = [src EXCEPT ![s] = IF @ = "held" THEN "stopped" ELSE @]
  /\ user' = IF rt[s].server THEN Cut(s, {0}) ELSE user

\* WindowsNativeSessionHold::close: the session thread is told.
CloseWindowsHold(s) ==
  /\ platform = "windows"
  /\ rt' = [rt EXCEPT ![s].closing = TRUE]
  /\ UNCHANGED <<src, user>>

CloseHold(s) == CloseMacHold(s) \/ CloseWindowsHold(s)

\* A Linux hold is dropped: server, stream, portal session and producer.
DropLinuxHold(s) ==
  /\ src' = [src EXCEPT ![s] = IF @ \in {"held", "up"} THEN "stopped" ELSE @]
  /\ rt' = [rt EXCEPT ![s].server = FALSE, ![s].pub = "none"]
  /\ user' = Cut(s, {0})
  /\ portal' = [portal EXCEPT !.at[s] = IF @ = "idle" THEN @ ELSE "closed"]

\* Mutant of RemoveSession: a failed start forgets the hold it is draining.
RemoveForgets(s) ==
  /\ hold' = [hold EXCEPT ![s] = FALSE]
  /\ record' = [record EXCEPT ![s] = "absent"]
  /\ UNCHANGED <<src, rt, user, portal>>

\* remove_session: a hold is closed and stays until it has drained; a record
\* without one is removed.
RemoveSession(s) ==
  \/ /\ hold[s] /\ platform # "linux"
     /\ CloseHold(s)
     /\ record' = ClosedRecord(s)
     /\ UNCHANGED <<hold, portal>>
  \/ /\ ~hold[s] \/ platform = "linux"
     /\ record' = [record EXCEPT ![s] = "absent"]
     /\ hold' = [hold EXCEPT ![s] = FALSE]
     /\ UNCHANGED <<src, rt, user, portal>>

\* StartReservation::drop on macOS.
UnreserveMac(s) == platform = "macos" /\ starting' = FALSE /\ RemoveSession(s)

\* StartReservation::drop on Linux clears the flag and nothing else: the record
\* stays, and the request's stream and portal session are dropped with it.
UnreserveLinux(s) ==
  /\ platform = "linux" /\ starting' = FALSE
  /\ DropLinuxHold(s)
  /\ UNCHANGED <<record, hold>>

\* StartReservation::drop on Windows.
UnreserveWindows(s) ==
  /\ platform = "windows" /\ starting' = FALSE
  /\ record' = [record EXCEPT ![s] = "absent"]
  /\ UNCHANGED <<hold, src, rt, user, portal>>

\* An error return: remove_session where the code calls it, then the guard.
Fails(s) ==
  /\ starting' = FALSE
  /\ create' = [create EXCEPT ![s] = "err"]
  /\ RemoveSession(s)
  /\ UNCHANGED <<platform, window, update>>

-----------------------------------------------------------------------------
(* create, the part the platforms share.                                   *)

\* Mutant of Reserve: the reservation is not looked at, only the holds.
ReserveUnguarded(s) ==
  LET gone == {t \in Sessions : hold[t] /\ rt[t].drained /\ platform # "linux"}
      left == {t \in Sessions : hold[t]} \ gone IN
  /\ create[s] = "idle"
  /\ hold' = [t \in Sessions |-> hold[t] /\ t \notin gone]
  /\ record' = [t \in Sessions |-> IF t \in gone THEN "absent" ELSE record[t]]
  /\ starting' = (starting \/ left = {})
  /\ create' = [create EXCEPT ![s] = IF left = {} THEN "reserved" ELSE "err"]
  /\ UNCHANGED <<platform, src, rt, user, portal, window, update>>

\* Mutant of Reserve: a closed session counts as drained.
ReservePurgesClosed(s) ==
  LET gone == {t \in Sessions : ~starting /\ hold[t] /\ rt[t].closing
                                /\ platform # "linux"}
      left == {t \in Sessions : hold[t]} \ gone
      free == ~starting /\ left = {} IN
  /\ create[s] = "idle"
  /\ hold' = [t \in Sessions |-> hold[t] /\ t \notin gone]
  /\ record' = [t \in Sessions |-> IF t \in gone THEN "absent" ELSE record[t]]
  /\ starting' = (starting \/ free)
  /\ create' = [create EXCEPT ![s] = IF free THEN "reserved" ELSE "err"]
  /\ UNCHANGED <<platform, src, rt, user, portal, window, update>>

\* The holds a create purges first: drained ones.  A Linux hold never drains.
Purged ==
  {t \in Sessions : ~starting /\ hold[t] /\ rt[t].drained /\ platform # "linux"}

\* POST: check and reserve in one locked step.  A drained hold is purged with
\* its record, on Windows its listener is cancelled with it.
Reserve(s) ==
  LET gone == Purged
      left == {t \in Sessions : hold[t]} \ gone
      free == ~starting /\ left = {} IN
  /\ create[s] = "idle"
  /\ hold' = [t \in Sessions |-> hold[t] /\ t \notin gone]
  /\ record' = [t \in Sessions |-> IF t \in gone THEN "absent" ELSE record[t]]
  /\ starting' = (starting \/ free)
  /\ create' = [create EXCEPT ![s] = IF free THEN "reserved" ELSE "err"]
  /\ UNCHANGED <<platform, src, rt, user, portal, window, update>>

\* create_session: a capture policy the platform cannot honour, or a build
\* without the platform's adapter, is refused before anything is reserved.
RefusePolicy(s) ==
  /\ create[s] = "idle" /\ platform # "windows"
  /\ create' = [create EXCEPT ![s] = "err"]
  /\ UNCHANGED <<platform, starting, record, hold, src, rt, user, portal, window, update>>

\* capture_policy: an interval or an output size that is out of range.
InvalidPolicy(s) ==
  /\ create[s] = "idle" /\ platform = "windows"
  /\ create' = [create EXCEPT ![s] = "err"]
  /\ UNCHANGED <<platform, starting, record, hold, src, rt, user, portal, window, update>>

\* The record is inserted in a locked step of its own, which anyone can list.
InsertRecord(s) ==
  /\ create[s] = "reserved"
  /\ record' = [record EXCEPT ![s] = "starting"]
  /\ create' = [create EXCEPT ![s] = "recorded"]
  /\ UNCHANGED <<platform, starting, hold, src, rt, user, portal, window, update>>

\* The client drops its request at an await.  What the request owned goes
\* with it; a start call on a blocking thread goes on (see OrphanReturns).
DropCreate(s) ==
  /\ Awaiting(s)
  /\ create' = [create EXCEPT ![s] = "dropped"]
  /\ UnreserveMac(s) \/ UnreserveLinux(s) \/ UnreserveWindows(s)
  /\ UNCHANGED <<platform, window, update>>

\* Mutant of DeleteSession: the hold goes with the record on every platform.
DeleteRemovesHold(s) ==
  /\ record[s] # "absent" \/ hold[s]
  /\ record' = [record EXCEPT ![s] = "absent"]
  /\ hold' = [hold EXCEPT ![s] = FALSE]
  /\ \/ hold[s] /\ platform # "linux" /\ CloseHold(s) /\ UNCHANGED portal
     \/ ~hold[s] /\ UNCHANGED <<src, rt, user, portal>>
     \/ hold[s] /\ platform = "linux" /\ DropLinuxHold(s)
  /\ UNCHANGED <<platform, starting, create, window, update>>

\* DELETE /capture-sessions/{id}: close_session.
DeleteSession(s) ==
  /\ record[s] # "absent" \/ hold[s]
  /\ \/ /\ hold[s] /\ platform # "linux"
        /\ CloseHold(s)
        /\ record' = ClosedRecord(s)
        /\ UNCHANGED <<hold, portal>>
     \/ /\ ~hold[s]
        /\ record' = [record EXCEPT ![s] = "absent"]
        /\ UNCHANGED <<hold, src, rt, user, portal>>
     \/ /\ hold[s] /\ platform = "linux"
        /\ hold' = [hold EXCEPT ![s] = FALSE]
        /\ record' = [record EXCEPT ![s] = "absent"]
        /\ DropLinuxHold(s)
  /\ UNCHANGED <<platform, starting, create, window, update>>

-----------------------------------------------------------------------------
(* create on macOS.                                                        *)

\* The teardown owner is installed before the first await; its retirement
\* thread starts with it, or fails to.
InsertHold(s) ==
  /\ platform = "macos" /\ create[s] = "recorded"
  /\ hold' = [hold EXCEPT ![s] = TRUE]
  /\ rt' = [rt EXCEPT ![s].thread = "watch"]
  /\ src' = [src EXCEPT ![s] = "starting"]
  /\ create' = [create EXCEPT ![s] = "start"]
  /\ UNCHANGED <<platform, starting, record, user, portal, window, update>>

InsertHoldFails(s) ==
  /\ platform = "macos" /\ create[s] = "recorded"
  /\ Fails(s)

\* start_native_window_capture returns to the request, or fails.
StartReturns(s) ==
  /\ platform = "macos" /\ create[s] = "start"
  /\ src' = [src EXCEPT ![s] = "up"]
  /\ create' = [create EXCEPT ![s] = "got"]
  /\ UNCHANGED <<platform, starting, record, hold, rt, user, portal, window, update>>

StartFails(s) ==
  /\ platform = "macos" /\ create[s] = "start"
  /\ create' = [create EXCEPT ![s] = "err"]
  /\ starting' = FALSE
  /\ src' = [src EXCEPT ![s] = "stopped"]
  /\ rt' = [rt EXCEPT ![s] = Closed(@)]
  /\ record' = ClosedRecord(s)
  /\ UNCHANGED <<platform, hold, user, portal, window, update>>

\* The result of a start whose request is gone is dropped: the stream stops.
OrphanReturns(s) ==
  /\ src[s] = "starting" /\ create[s] \in Finished
  /\ src' = [src EXCEPT ![s] = "stopped"]
  /\ UNCHANGED <<platform, starting, record, hold, create, rt, user, portal, window, update>>

\* Mutant of InstallStream: a close during the start is not looked for.
InstallAnyway(s) ==
  /\ platform = "macos" /\ create[s] = "got" /\ hold[s]
  /\ src' = [src EXCEPT ![s] = "held"]
  /\ create' = [create EXCEPT ![s] = "wait"]
  /\ UNCHANGED <<platform, starting, record, hold, rt, user, portal, window, update>>

\* The stream is handed to the hold, or dropped when a DELETE came meanwhile.
InstallStream(s) ==
  /\ platform = "macos" /\ create[s] = "got" /\ hold[s]
  /\ \/ /\ ~rt[s].closing
        /\ src' = [src EXCEPT ![s] = "held"]
        /\ create' = [create EXCEPT ![s] = "wait"]
        /\ UNCHANGED <<starting, record>>
     \/ /\ rt[s].closing
        /\ src' = [src EXCEPT ![s] = "stopped"]
        /\ create' = [create EXCEPT ![s] = "err"]
        /\ starting' = FALSE
        /\ record' = ClosedRecord(s)
  /\ UNCHANGED <<platform, hold, rt, user, portal, window, update>>

\* The first frame's message is received; it brings an owner of the producer.
ReadyArrives(s) ==
  /\ platform = "macos" /\ create[s] = "wait" /\ rt[s].ready = "ok"
  /\ create' = [create EXCEPT ![s] = "ready"]
  /\ UNCHANGED <<platform, starting, record, hold, src, rt, user, portal, window, update>>

\* The message is an error, or none comes within 5 s.
ReadyFails(s) ==
  /\ platform = "macos" /\ create[s] = "wait" /\ rt[s].ready # "ok"
  /\ Fails(s)

\* XpcArenaServer::start_named under the one launchd name.
StartServer(s) ==
  /\ platform = "macos" /\ create[s] = "ready"
  /\ create' = [create EXCEPT ![s] = "served"]
  /\ UNCHANGED <<platform, starting, record, hold, src, rt, user, portal, window, update>>

StartServerFails(s) ==
  /\ platform = "macos" /\ create[s] = "ready"
  /\ Fails(s)

\* The last locked step: the record must still be starting.  A consumer that
\* attached to the request's own server is cut when that server is dropped.
CommitMac(s) ==
  /\ platform = "macos" /\ create[s] = "served"
  /\ starting' = FALSE
  /\ \/ /\ record[s] = "starting" /\ hold[s]
        /\ record' = [record EXCEPT ![s] = "ready"]
        /\ rt' = [rt EXCEPT ![s].server = TRUE]
        /\ create' = [create EXCEPT ![s] = "ok"]
        /\ UNCHANGED <<src, user>>
     \/ /\ record[s] # "starting"
        /\ create' = [create EXCEPT ![s] = "err"]
        /\ src' = [src EXCEPT ![s] = IF @ = "held" THEN "stopped" ELSE @]
        /\ rt' = [rt EXCEPT ![s] = Closed(@)]
        /\ user' = Cut(s, {0})
        /\ record' = ClosedRecord(s)
  /\ UNCHANGED <<platform, hold, portal, window, update>>

-----------------------------------------------------------------------------
(* macOS: the SCK sample queue and the retirement thread.                  *)

\* Mutant of PublishNativeFrame: a failed publish stops the producer and tells
\* nobody.
PublishFailsSilently(s) ==
  /\ platform = "macos" /\ src[s] \in {"starting", "up", "held"}
  /\ ~rt[s].closing /\ ~rt[s].error
  /\ \E r \in {[rt[s] EXCEPT !.pub = "live", !.ready = "ok"],
              [rt[s] EXCEPT !.pub = IF @ = "none" THEN @ ELSE "stopped"]} :
       rt' = [rt EXCEPT ![s] = r]
  /\ UNCHANGED <<platform, starting, record, hold, create, src, user, portal, window, update>>

\* publish_native_frame: ignored once closing or failed.  The first frame
\* makes the producer; a frame may be published, be dropped, wait for a new
\* pool, or fail; the first published one, or a failure, answers the create.
PublishNativeFrame(s) ==
  /\ platform = "macos" /\ src[s] \in {"starting", "up", "held"}
  /\ ~rt[s].closing /\ ~rt[s].error
  /\ LET answer(m) == IF rt[s].ready = "none" THEN m ELSE rt[s].ready IN
     \E r \in {[rt[s] EXCEPT !.pub = "live", !.pending = FALSE, !.ready = answer("ok")],
              [rt[s] EXCEPT !.pub = "live", !.pending = TRUE],
              [rt[s] EXCEPT !.pub = IF @ = "none" THEN @ ELSE "stopped",
                            !.error = TRUE, !.ready = answer("err")]} :
       rt' = [rt EXCEPT ![s] = r]
  /\ UNCHANGED <<platform, starting, record, hold, create, src, user, portal, window, update>>

\* capture_error: recorded even while closing.
CaptureError(s) ==
  /\ platform = "macos" /\ src[s] \in {"starting", "up", "held"}
  /\ rt' = [rt EXCEPT ![s].error = TRUE,
                      ![s].pub = IF @ = "live" THEN "stopped" ELSE @,
                      ![s].ready = IF @ = "none" THEN "err" ELSE @]
  /\ UNCHANGED <<platform, starting, record, hold, create, src, user, portal, window, update>>

\* The producer's owners besides the runtime: the server, in the hold or in
\* the request, and a NativeReady that is in the channel or in the request.
Owned(s) ==
  \/ rt[s].server
  \/ create[s] \in {"ready", "served"}
  \/ create[s] \in {"start", "got", "wait"} /\ rt[s].ready = "ok"

\* Mutant of Maintain: the setup owners are not counted.
MaintainUncounted(s) ==
  /\ platform = "macos" /\ rt[s].thread = "watch" /\ rt[s].closing
  /\ rt[s].pub = "none" \/ Users(s) = {}
  /\ rt' = [rt EXCEPT ![s].drained = TRUE, ![s].pub = "none",
                      ![s].thread = "done"]
  /\ UNCHANGED <<platform, starting, record, hold, create, src, user, portal, window, update>>

\* Mutant of Maintain: a session closed before its first frame never drains.
MaintainNeedsProducer(s) ==
  /\ platform = "macos" /\ rt[s].thread = "watch" /\ rt[s].closing
  /\ rt[s].pub # "none" /\ Users(s) = {} /\ ~Owned(s)
  /\ rt' = [rt EXCEPT ![s].drained = TRUE, ![s].pub = "none",
                      ![s].thread = "done"]
  /\ UNCHANGED <<platform, starting, record, hold, create, src, user, portal, window, update>>

\* NativeRuntime::maintain on the retirement thread: once closing, nobody maps
\* the pool and nobody else owns the producer, the storage is freed.
Maintain(s) ==
  /\ platform = "macos" /\ rt[s].thread = "watch" /\ rt[s].closing
  /\ rt[s].pub = "none" \/ (Users(s) = {} /\ ~Owned(s))
  /\ rt' = [rt EXCEPT ![s].drained = TRUE, ![s].pub = "none",
                      ![s].thread = "done"]
  /\ UNCHANGED <<platform, starting, record, hold, create, src, user, portal, window, update>>

-----------------------------------------------------------------------------
(* create on Linux.                                                        *)

\* Every error return after the record: remove_session, then the locals
\* (server, stream, portal session) are dropped, then the guard.
LinuxFails(s) ==
  /\ starting' = FALSE
  /\ create' = [create EXCEPT ![s] = "err"]
  /\ record' = [record EXCEPT ![s] = "absent"]
  /\ DropLinuxHold(s)
  /\ UNCHANGED <<platform, hold, window, update>>

\* The render node is opened; the portal dialogue begins, with the restore
\* data of an earlier session when there is some.
OpenBackend(s) ==
  /\ platform = "linux" /\ create[s] = "recorded"
  /\ create' = [create EXCEPT ![s] = "start"]
  /\ portal' = [portal EXCEPT !.at[s] = "create", !.used = portal.cache]
  /\ UNCHANGED <<platform, starting, record, hold, src, rt, user, window, update>>

\* CreateSession, SelectSources, Start and OpenPipeWireRemote succeed in turn.
\* Start may bring new restore data.
PortalAdvances(s) ==
  /\ platform = "linux" /\ create[s] = "start"
  /\ \E step \in {<<"create", "select">>, <<"select", "consent">>,
                  <<"consent", "remote">>, <<"remote", "open">>},
        keep \in BOOLEAN :
       /\ portal.at[s] = step[1]
       /\ portal' = [portal EXCEPT !.at[s] = step[2],
                        !.cache = @ \/ (keep /\ step[1] = "consent")]
       /\ create' = [create EXCEPT ![s] = IF step[2] = "open" THEN "got" ELSE @]
  /\ UNCHANGED <<platform, starting, record, hold, src, rt, user, window, update>>

\* Mutant of PortalRejected: the retry sends the rejected data again.
RejectedAgain(s) ==
  /\ platform = "linux" /\ create[s] = "start"
  /\ portal.at[s] \in {"create", "select", "consent"}
  /\ portal.used
  /\ portal' = [portal EXCEPT !.at[s] = "create"]
  /\ UNCHANGED <<platform, starting, record, hold, create, src, rt, user, window, update>>

\* The portal rejects a request made with cached restore data: the data is
\* deleted and the dialogue starts again, once, without it.
PortalRejected(s) ==
  /\ platform = "linux" /\ create[s] = "start"
  /\ portal.at[s] \in {"create", "select", "consent"}
  /\ portal.used
  /\ portal' = [portal EXCEPT !.at[s] = "create", !.used = FALSE, !.cache = FALSE]
  /\ UNCHANGED <<platform, starting, record, hold, create, src, rt, user, window, update>>

\* A consent that is refused, a timeout or a transport error; a stream that
\* does not open; no producer within 5 s; a first frame that was lapped.
PortalFails(s) ==
  /\ platform = "linux"
  /\ create[s] \in {"recorded", "start", "got", "wait", "ready"}
  /\ LinuxFails(s)

OpenStream(s) ==
  /\ platform = "linux" /\ create[s] = "got"
  /\ create' = [create EXCEPT ![s] = "wait"]
  /\ src' = [src EXCEPT ![s] = "up"]
  /\ UNCHANGED <<platform, starting, record, hold, rt, user, portal, window, update>>

\* wait_for_producer polls the observer every 10 ms.
ProducerReady(s) ==
  /\ platform = "linux" /\ create[s] = "wait"
  /\ create' = [create EXCEPT ![s] = "ready"]
  /\ rt' = [rt EXCEPT ![s].pub = "live"]
  /\ UNCHANGED <<platform, starting, record, hold, src, user, portal, window, update>>

\* The attach server is bound and the hold is inserted, unless a DELETE has
\* removed the record.
CommitLinux(s) ==
  /\ platform = "linux" /\ create[s] = "ready"
  /\ \/ /\ record[s] # "absent"
        /\ starting' = FALSE
        /\ record' = [record EXCEPT ![s] = "ready"]
        /\ hold' = [hold EXCEPT ![s] = TRUE]
        /\ rt' = [rt EXCEPT ![s].server = TRUE]
        /\ src' = [src EXCEPT ![s] = "held"]
        /\ create' = [create EXCEPT ![s] = "ok"]
        /\ UNCHANGED <<platform, user, portal, window, update>>
     \/ /\ record[s] = "absent"
        /\ LinuxFails(s)

-----------------------------------------------------------------------------
(* create on Windows.                                                      *)

\* spawn_blocking(start_capture); the window's identity is verified first.
StartCapture(s) ==
  /\ platform = "windows" /\ create[s] = "recorded"
  /\ window.hwnd = "ours"
  /\ create' = [create EXCEPT ![s] = "start"]
  /\ src' = [src EXCEPT ![s] = "starting"]
  /\ window' = [window EXCEPT !.item[s] = "checked"]
  /\ UNCHANGED <<platform, starting, record, hold, rt, user, portal, update>>

\* The tracked window is destroyed and its HWND names another one.  After the
\* start nothing looks at the HWND again.
WindowReplaced ==
  /\ platform = "windows" /\ window.hwnd = "ours"
  /\ \E s \in Sessions : create[s] = "recorded" \/ src[s] = "starting"
  /\ window' = [window EXCEPT !.hwnd = "other"]
  /\ UNCHANGED <<platform, starting, record, hold, create, src, rt, user, portal, update>>

\* capture_item_for_window: the item is of whatever the HWND names now.
MakeItem(s) ==
  /\ platform = "windows" /\ src[s] = "starting" /\ window.item[s] = "checked"
  /\ window' = [window EXCEPT !.item[s] = window.hwnd]
  /\ UNCHANGED <<platform, starting, record, hold, create, src, rt, user, portal, update>>

\* Mutant of CaptureStarts: the identity is not verified after the item.
StartsUnverified(s) ==
  /\ platform = "windows" /\ create[s] = "start" /\ window.item[s] \in {"ours", "other"}
  /\ src' = [src EXCEPT ![s] = "up"]
  /\ create' = [create EXCEPT ![s] = "got"]
  /\ UNCHANGED <<platform, starting, record, hold, rt, user, portal, window, update>>

\* The identity still verifies, so the item was of the authorized window; the
\* capture starts and its first frame is published.
CaptureStarts(s) ==
  /\ platform = "windows" /\ create[s] = "start" /\ window.item[s] \in {"ours", "other"}
  /\ window.hwnd = "ours"
  /\ src' = [src EXCEPT ![s] = "up"]
  /\ create' = [create EXCEPT ![s] = "got"]
  /\ UNCHANGED <<platform, starting, record, hold, rt, user, portal, window, update>>

\* Every error return before the session thread has the capture: the guard
\* removes the record and the capture is dropped.
WindowsFails(s) ==
  /\ platform = "windows" /\ create[s] \in {"recorded", "start", "got"}
  /\ starting' = FALSE
  /\ create' = [create EXCEPT ![s] = "err"]
  /\ record' = [record EXCEPT ![s] = "absent"]
  /\ src' = [src EXCEPT ![s] = IF @ = "off" THEN @ ELSE "stopped"]
  /\ UNCHANGED <<platform, hold, rt, user, portal, window, update>>

\* The endpoint is bound, the runtime observes the capture, and the session
\* thread takes it; the hold and its accept thread are the request's own yet.
SpawnSession(s) ==
  /\ platform = "windows" /\ create[s] = "got"
  /\ rt' = [rt EXCEPT ![s].thread = "watch", ![s].pub = "live",
                      ![s].seen = rt[s].epoch,
                      ![s].error = rt[s].capture = "ended"]
  /\ src' = [src EXCEPT ![s] = "held"]
  /\ create' = [create EXCEPT ![s] = "served"]
  /\ UNCHANGED <<platform, starting, record, hold, user, portal, window, update>>

\* Mutant of CommitWindows: the record is not looked up again.
CommitBlindly(s) ==
  /\ platform = "windows" /\ create[s] = "served"
  /\ starting' = FALSE
  /\ create' = [create EXCEPT ![s] = "ok"]
  /\ record' = [record EXCEPT ![s] = IF @ = "absent" THEN @ ELSE "ready"]
  /\ hold' = [hold EXCEPT ![s] = record[s] # "absent"]
  /\ UNCHANGED <<platform, src, rt, user, portal, window, update>>

\* The record must still exist; otherwise the local hold is dropped, which
\* closes the session and leaves its thread to drain it.
CommitWindows(s) ==
  /\ platform = "windows" /\ create[s] = "served"
  /\ starting' = FALSE
  /\ \/ /\ record[s] # "absent"
        /\ record' = [record EXCEPT ![s] = "ready"]
        /\ hold' = [hold EXCEPT ![s] = TRUE]
        /\ create' = [create EXCEPT ![s] = "ok"]
        /\ UNCHANGED rt
     \/ /\ record[s] = "absent"
        /\ create' = [create EXCEPT ![s] = "err"]
        /\ rt' = [rt EXCEPT ![s].closing = TRUE]
        /\ UNCHANGED <<record, hold>>
  /\ UNCHANGED <<platform, src, user, portal, window, update>>

-----------------------------------------------------------------------------
(* Windows: the capture's own changes and the session thread.              *)

\* WgcCapture: a device loss recovers as a new epoch; a closed window and a
\* failure are final.  A locked or disconnected desktop and a recovery under
\* way are only reported.
CaptureChanges(s) ==
  /\ platform = "windows" /\ src[s] \in {"up", "held"}
  /\ rt[s].capture = "running"
  /\ \/ /\ rt[s].epoch < MaxEpoch
        /\ rt' = [rt EXCEPT ![s].epoch = @ + 1]
     \/ rt' = [rt EXCEPT ![s].capture = "ended"]
  /\ UNCHANGED <<platform, starting, record, hold, create, src, user, portal, window, update>>

\* Mutant of Watch: a new epoch leaves the old epoch's connections open.
WatchLeavesLinks(s) ==
  LET lost == rt[s].epoch # rt[s].seen
      failed == rt[s].error \/ (~rt[s].closing /\ rt[s].capture = "ended") IN
  /\ platform = "windows" /\ rt[s].thread = "watch"
  /\ lost \/ failed \/ rt[s].closing
  /\ rt' = [rt EXCEPT ![s].seen = rt[s].epoch, ![s].error = failed,
              ![s].old = IF lost THEN @ \union {rt[s].seen} ELSE @,
              ![s].thread = IF failed \/ rt[s].closing THEN "stop" ELSE @]
  /\ user' = user
  /\ UNCHANGED <<platform, starting, record, hold, create, src, portal, window, update>>

\* run_session observes the capture: a new epoch retires the old publication
\* and cuts its consumers; a close or a failure of the capture stops it.
Watch(s) ==
  LET lost == rt[s].epoch # rt[s].seen
      failed == rt[s].error \/ (~rt[s].closing /\ rt[s].capture = "ended") IN
  /\ platform = "windows" /\ rt[s].thread = "watch"
  /\ lost \/ failed \/ rt[s].closing
  /\ rt' = [rt EXCEPT ![s].seen = rt[s].epoch, ![s].error = failed,
              ![s].old = IF lost THEN @ \union {rt[s].seen} ELSE @,
              ![s].thread = IF failed \/ rt[s].closing THEN "stop" ELSE @]
  /\ user' = IF lost THEN Cut(s, {rt[s].seen}) ELSE user
  /\ UNCHANGED <<platform, starting, record, hold, create, src, portal, window, update>>

\* The capture is stopped outside the lock; then its last status is observed,
\* every publication is stopped and every connection is shut down.
StopPublications(s) ==
  /\ platform = "windows" /\ rt[s].thread = "stop"
  /\ src' = [src EXCEPT ![s] = "stopped"]
  /\ rt' = [rt EXCEPT ![s].thread = "drain", ![s].pub = "stopped",
                      ![s].error = @ \/ (~rt[s].closing
                                         /\ rt[s].capture = "ended")]
  /\ user' = Cut(s, 0..MaxEpoch)
  /\ UNCHANGED <<platform, starting, record, hold, create, portal, window, update>>

\* State::maintain: retired publications go when nobody uses them; the current
\* one goes last, and then the session has drained.
DrainPublications(s) ==
  /\ platform = "windows" /\ rt[s].thread \in {"watch", "drain"}
  /\ LET left == {e \in rt[s].old : UsersOf(s, e) # {}}
         done == rt[s].thread = "drain" /\ Users(s) = {} IN
     /\ left # rt[s].old \/ done
     /\ rt' = [rt EXCEPT ![s].old = left,
                 ![s].pub = IF done THEN "none" ELSE @,
                 ![s].drained = done,
                 ![s].thread = IF done THEN "done" ELSE @]
  /\ UNCHANGED <<platform, starting, record, hold, create, src, user, portal, window, update>>

-----------------------------------------------------------------------------
(* Consumers.                                                              *)

Linked(s) == {c \in Users(s) : user[c].link \in {"up", "cut"}}

\* A consumer presents the attach token and maps the current publication.
\* GET shows the token from the moment the hold exists.
Attach(c, s) ==
  /\ user[c] = None /\ rt[s].pub = "live"
  /\ \/ /\ platform \in {"macos", "linux"}
        /\ rt[s].server \/ (platform = "macos" /\ create[s] = "served")
     \/ /\ platform = "windows" /\ rt[s].thread # "none"
        /\ ~rt[s].closing /\ ~rt[s].error
        /\ Cardinality(Linked(s)) < MaxConnections
  /\ user' = [user EXCEPT ![c] = [at |-> s, epoch |-> rt[s].seen, link |-> "up"]]
  /\ UNCHANGED <<platform, starting, record, hold, create, src, rt, portal, window, update>>

\* The setup connection ends, because the consumer leaves or it was cut; the
\* consumer may keep its mapping for a while.
LinkEnds(c) ==
  /\ user[c] # None /\ user[c].link # "gone"
  /\ \/ user' = [user EXCEPT ![c].link = "gone"]
     \/ user' = [user EXCEPT ![c] = None]
  /\ UNCHANGED <<platform, starting, record, hold, create, src, rt, portal, window, update>>

Unmap(c) ==
  /\ user[c] # None /\ user[c].link = "gone"
  /\ user' = [user EXCEPT ![c] = None]
  /\ UNCHANGED <<platform, starting, record, hold, create, src, rt, portal, window, update>>

-----------------------------------------------------------------------------
(* POST /capture-sessions/{id}/output.                                     *)

\* set_output_size up to the registry unlock.  Only a macOS session has an
\* output control; a caller who is not the owner, a session that is not ready
\* and a size that does not fit the pool are refused and change nothing.
AskOutput(u, s) ==
  /\ platform = "macos"
  /\ update[u].at = "idle" /\ record[s] = "ready"
  /\ update' = [update EXCEPT ![u] = [at |-> "control", of |-> s]]
  /\ UNCHANGED <<platform, starting, record, hold, create, src, rt, user, portal, window>>

\* Mutant of Submit: a cancelled request has released the update lock.
SubmitOverOrphan(u) ==
  LET s == update[u].of IN
  /\ update[u].at = "control"
  /\ \/ /\ src[s] = "held"
        /\ \A v \in Updates : update[v].of = s => update[v].at # "submitted"
        /\ update' = [update EXCEPT ![u].at = "submitted"]
     \/ update' = [update EXCEPT ![u] = NoUpdate]
  /\ UNCHANGED <<platform, starting, record, hold, create, src, rt, user, portal, window>>

\* SckControl::set_output_size: one update at a time, and only while the
\* stream still has its handle; otherwise an error.
Submit(u) ==
  LET s == update[u].of
      busy == \E v \in Updates : update[v].of = s /\ update[v].at \in {"submitted", "orphan"} IN
  /\ update[u].at = "control"
  /\ \/ /\ src[s] = "held" /\ ~busy
        /\ update' = [update EXCEPT ![u].at = "submitted"]
     \/ /\ src[s] # "held" \/ busy
        /\ update' = [update EXCEPT ![u] = NoUpdate]
  /\ UNCHANGED <<platform, starting, record, hold, create, src, rt, user, portal, window>>

\* The shim calls update_complete exactly once, also after the stream stopped
\* and also when the request is gone; the lock is released with it.
UpdateComplete(u) ==
  /\ update[u].at \in {"submitted", "orphan"}
  /\ update' = [update EXCEPT ![u] = NoUpdate]
  /\ UNCHANGED <<platform, starting, record, hold, create, src, rt, user, portal, window>>

DropUpdate(u) ==
  /\ update[u].at = "submitted"
  /\ update' = [update EXCEPT ![u].at = "orphan"]
  /\ UNCHANGED <<platform, starting, record, hold, create, src, rt, user, portal, window>>

-----------------------------------------------------------------------------
CreateStep(s) ==
  \/ InsertRecord(s) \/ InsertHold(s) \/ InsertHoldFails(s)
  \/ StartReturns(s) \/ StartFails(s) \/ InstallStream(s)
  \/ ReadyArrives(s) \/ ReadyFails(s) \/ StartServer(s) \/ StartServerFails(s)
  \/ CommitMac(s)
  \/ OpenBackend(s) \/ PortalAdvances(s) \/ PortalRejected(s) \/ PortalFails(s)
  \/ OpenStream(s) \/ ProducerReady(s) \/ CommitLinux(s)
  \/ StartCapture(s) \/ MakeItem(s) \/ CaptureStarts(s) \/ WindowsFails(s)
  \/ SpawnSession(s) \/ CommitWindows(s)

ThreadStep(s) == Maintain(s) \/ Watch(s) \/ StopPublications(s) \/ DrainPublications(s)

Next ==
  \/ \E s \in Sessions :
       \/ Reserve(s) \/ RefusePolicy(s) \/ InvalidPolicy(s) \/ CreateStep(s) \/ DropCreate(s)
       \/ OrphanReturns(s) \/ DeleteSession(s)
       \/ PublishNativeFrame(s) \/ CaptureError(s) \/ CaptureChanges(s)
       \/ ThreadStep(s)
       \/ \E c \in Consumers : Attach(c, s)
       \/ \E u \in Updates : AskOutput(u, s)
  \/ WindowReplaced
  \/ \E c \in Consumers : LinkEnds(c) \/ Unmap(c)
  \/ \E u \in Updates : Submit(u) \/ UpdateComplete(u) \/ DropUpdate(u)

Spec == Init /\ [][Next]_vars

\* Futures are polled and every wait of a create has a timeout; a start call
\* returns; the retirement and session threads tick every 100 ms.  It is
\* enough that one of them that can go on does.
Fairness ==
  \A s \in Sessions : WF_vars(CreateStep(s) \/ OrphanReturns(s) \/ ThreadStep(s))

FairSpec == Spec /\ Fairness

-----------------------------------------------------------------------------
(* Properties.                                                             *)

\* While a macOS create runs, the hold it inserted is still in the registry:
\* the two expect("startup hold remains reserved") never panic, which would
\* poison the registry mutex for every session.
HoldSurvivesStartup ==
  platform = "macos" =>
    \A s \in Sessions : create[s] \in {"start", "got", "wait", "ready", "served"} => hold[s]

\* The start reservation belongs to exactly the one create request that is in
\* flight, through errors, dropped requests and DELETEs: a failed start never
\* wedges the one-session limit, and two never start together.
ReservedByOne ==
  LET busy == {s \in Sessions : create[s] \in InFlight} IN
  /\ starting = (busy # {})
  /\ Cardinality(busy) <= 1

\* A macOS or Linux stream that runs has an owner: the request that starts it
\* or the hold of its session; nothing records behind the registry's back.
StreamHasOwner ==
  platform # "windows" =>
    \A s \in Sessions :
      /\ src[s] = "up" => create[s] \in {"got", "wait", "ready", "served"}
      /\ src[s] = "held" => hold[s] /\ ~rt[s].closing

\* The storage of a drained macOS session is mapped by nobody and owned by
\* nobody: the XPC server and the create request are done with the producer.
DrainedIsUnused ==
  \A s \in Sessions : rt[s].drained => Users(s) = {} /\ ~(platform = "macos" /\ Owned(s))

\* Windows captures the window the caller was authorized for, although the
\* HWND may come to name another window between the checks and the item.
CapturesAuthorizedWindow ==
  \A s \in Sessions : src[s] \in {"up", "held"} => window.item[s] # "other"

\* GET calls a session ready only while its pool is live and its stream runs:
\* a failure or a close of either shows in the status at once.  (A Windows
\* stream that the session thread stops is already closing or failed.)
ReadyIsLive ==
  \A s \in Sessions :
    Status(s) = "ready" => rt[s].pub = "live" /\ src[s] \notin {"off", "stopped"}

\* At most one size update is outstanding at the stream, also when the request
\* that submitted it has been dropped: the completion holds the lock.
OneUpdateAtATime ==
  \A s \in Sessions :
    Cardinality({u \in Updates : update[u].of = s /\ update[u].at \in {"submitted", "orphan"}}) <= 1

\* Every create gives the reservation back, also when the portal rejects the
\* restore data: the next create is not refused for ever.
ReservationReturns == starting ~> ~starting

\* Once a session is closed or its create has failed, its stream stops: the
\* screen is not recorded for a session nobody can name.
SourceStops ==
  \A s \in Sessions :
    (create[s] \in Finished /\ record[s] \in {"absent", "closed"})
      ~> (src[s] \in {"off", "stopped"})

\* A closed session drains once its consumers have let go.
ClosingDrains ==
  \A s \in Sessions :
    (rt[s].closing /\ rt[s].thread # "none" /\ create[s] \in Finished /\ Users(s) = {})
      ~> rt[s].drained

\* After a device loss the consumers of the old epoch are cut off, so that
\* they attach again instead of waiting for frames that never come.
StaleEpochIsCut ==
  \A c \in Consumers :
    (user[c] # None /\ user[c].link = "up" /\ rt[user[c].at].seen # user[c].epoch)
      ~> (user[c] = None \/ user[c].link # "up")

\* The one macOS service and the pool behind it: which session uses it.
ServiceUsers ==
  {s \in Sessions : rt[s].pub # "none" \/ rt[s].server \/ create[s] = "served"}
ServiceUser ==
  IF platform = "macos" /\ ServiceUsers # {} THEN CHOOSE s \in ServiceUsers : TRUE ELSE None

\* On macOS and Linux at most one session has a pool or serves consumers.
OneServiceUser ==
  platform # "windows" => Cardinality(ServiceUsers) <= 1

Slot == INSTANCE ServiceSlot WITH user <- ServiceUser

\* The macOS sessions implement the slot: the service passes from one session
\* to the next only by way of being free.
ImplementsServiceSlot == Slot!Spec

\* What only one may have at a time only one has: the reservation of a starting session,
\* the pending size update of a session, the one macOS frame service.
OneAtATime == ReservedByOne /\ OneUpdateAtATime /\ OneServiceUser

\* A running stream belongs to a session that may have it: its authorization is held
\* through startup, it captures the window that was authorized, somebody can stop it, a
\* ready session has it, and what is reported as drained is in nobody's use.
StreamsAreOwned ==
  /\ TypeOK
  /\ HoldSurvivesStartup /\ StreamHasOwner /\ DrainedIsUnused /\ CapturesAuthorizedWindow /\ ReadyIsLive

\* What a native session starts comes to its end: the reservation, the stream, the drain
\* of a closing session and the connections of an epoch that is over.
NativeEnds == ReservationReturns /\ SourceStops /\ ClosingDrains /\ StaleEpochIsCut
=============================================================================
