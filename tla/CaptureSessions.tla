--------------------------- MODULE CaptureSessions ---------------------------
(***************************************************************************)
(* CPU capture sessions of portholed: the registry of session records      *)
(* (crates/portholed/src/capture_registry.rs) and the retained CPU         *)
(* publication behind each record (capture_registry/cpu_session.rs).       *)
(*                                                                         *)
(* Five kinds of thread touch one session: the HTTP future that creates    *)
(* it (and that a client may drop at any await), the adapter's frame       *)
(* callback, the monitor task that follows the stream, DELETE requests,    *)
(* and the retirement thread that frees the storage once every consumer    *)
(* has let go.  Each holds the registry mutex for one action of this       *)
(* module.  Frame geometry, pool reconfiguration and the wording of        *)
(* status messages are left out.                                           *)
(***************************************************************************)
EXTENDS Naturals, Sequences, FiniteSets

CONSTANTS
  Sessions,          \* session ids; each is minted at most once
  Consumers,         \* connections to the fd socket
  Strangers,         \* consumers whose token is not the session owner's
  Adapters,          \* the kinds of adapter the daemon may have been built with
  HistoryLimit,      \* RETIRED_CPU_SESSION_LIMIT
  MaxConnections,    \* MAX_CONNECTIONS
  None

ASSUME CaptureAssumption ==
  /\ Strangers \subseteq Consumers
  /\ Adapters \subseteq {"pushes", "polled"} /\ Adapters # {}
  /\ HistoryLimit \in Nat
  /\ MaxConnections \in Nat \ {0}
  /\ None \notin Sessions

VARIABLES
  record,     \* the lifecycle in the registry's map, or "absent"
  cpu,        \* the CpuSession runtime of each session
  creator,    \* where the create request that owns the session is
  startup,    \* the two oneshot channels the create request waits on
  monitor,    \* the task running run_capture_session_monitor
  source,     \* the adapter's stream: its callbacks and its error channel
  conn,       \* the session a consumer's setup connection is registered with
  held,       \* the session whose storage a consumer has mapped
  asked,      \* the session a consumer has passed the access check for
  retired,    \* retired_cpu_sessions, oldest first
  adapter     \* whether the adapter pushes frames itself (macOS) or is polled

vars == <<record, cpu, creator, startup, monitor, source, conn, held, asked,
          retired, adapter>>

Active == {"starting", "ready"}
Terminal == {"closed", "failed"}

\* Runtime: closing is set once, drained is worker # "run".
Cpu == [closing: BOOLEAN, error: BOOLEAN, arena: BOOLEAN, overdue: BOOLEAN,
        worker: {"none", "run", "drained", "ended"}]

Monitor == [at: {"none", "await", "publish", "fail", "close", "done"},
            stored: BOOLEAN, aborted: BOOLEAN]

TypeOK ==
  /\ record \in [Sessions -> {"absent"} \union Active \union Terminal]
  /\ cpu \in [Sessions -> Cpu]
  /\ creator \in [Sessions -> {"idle", "adapter", "spawned", "waiting", "got",
                               "fallback", "inserting", "ok", "err", "dropped"}]
  /\ startup \in [Sessions -> [first: BOOLEAN, cancel: BOOLEAN]]
  /\ monitor \in [Sessions -> Monitor]
  /\ source \in [Sessions -> {"off", "live", "broken"}]
  /\ conn \in [Consumers -> Sessions \union {None}]
  /\ held \in [Consumers -> Sessions \union {None}]
  /\ asked \in [Consumers -> Sessions \union {None}]
  /\ retired \in Seq(Sessions)
  /\ adapter \in Adapters

Init ==
  /\ record = [s \in Sessions |-> "absent"]
  /\ cpu = [s \in Sessions |->
              [closing |-> FALSE, error |-> FALSE, arena |-> FALSE,
               overdue |-> FALSE, worker |-> "none"]]
  /\ creator = [s \in Sessions |-> "idle"]
  /\ startup = [s \in Sessions |-> [first |-> FALSE, cancel |-> FALSE]]
  /\ monitor = [s \in Sessions |->
                  [at |-> "none", stored |-> FALSE, aborted |-> FALSE]]
  /\ source = [s \in Sessions |-> "off"]
  /\ conn = [c \in Consumers |-> None]
  /\ held = [c \in Consumers |-> None]
  /\ asked = [c \in Consumers |-> None]
  /\ retired = <<>>
  /\ adapter \in Adapters

Users(s) == {c \in Consumers : conn[c] = s \/ held[c] = s}

\* Mutant of Status: a drained session is closed, whatever ended it.
DrainedIsClosed(s) ==
  LET r == cpu[s] IN
  CASE r.worker \in {"drained", "ended"} -> "closed"
    [] r.worker = "run" /\ r.overdue -> "recovery_required"
    [] r.worker = "run" /\ ~r.overdue /\ r.error -> "failed"
    [] r.worker = "run" /\ ~r.overdue /\ ~r.error /\ r.closing -> "draining"
    [] OTHER -> IF r.arena THEN "ready" ELSE "starting"

\* What GET /capture-sessions/{id} answers: Runtime::snapshot.
Status(s) ==
  LET r == cpu[s] IN
  CASE r.worker \in {"drained", "ended"} /\ r.error -> "failed"
    [] r.worker \in {"drained", "ended"} /\ ~r.error -> "closed"
    [] r.worker = "run" /\ r.overdue -> "recovery_required"
    [] r.worker = "run" /\ ~r.overdue /\ r.error -> "failed"
    [] r.worker = "run" /\ ~r.overdue /\ ~r.error /\ r.closing -> "draining"
    [] OTHER -> IF r.arena THEN "ready" ELSE "starting"

-----------------------------------------------------------------------------
(* The pieces the handlers share.  Each describes what becomes of one      *)
(* session's record, runtime, channels and monitor.                        *)

\* CaptureSession::stop_capture, and the lifecycle its caller then writes.
\* The task is aborted only if it has been stored; an aborted task stops at
\* its next await, not in the middle of a poll.
StopCapture(s, life) ==
  /\ record' = [record EXCEPT ![s] = life]
  /\ cpu' = [cpu EXCEPT ![s].closing = TRUE]
  /\ monitor' = [monitor EXCEPT ![s].aborted = @ \/ monitor[s].stored,
                                ![s].stored = FALSE]
  /\ startup' = [startup EXCEPT ![s].cancel = TRUE]

\* remove_session: a CPU record is never removed, it is closed and drains.
RemoveSession(s) ==
  \/ /\ record[s] # "absent"
     /\ StopCapture(s, "closed")
  \/ /\ record[s] = "absent"
     /\ UNCHANGED <<record, cpu, monitor, startup>>

\* Mutant of AbandonStartup: the drop guard is missing.
AbandonNothing(s) ==
  record[s] = record[s] /\ UNCHANGED <<record, cpu, monitor, startup>>

\* CpuStartup::drop, for a create request that did not hand the session over.
AbandonStartup(s) ==
  \/ /\ record[s] \in Active
     /\ StopCapture(s, "closed")
  \/ /\ record[s] \in Terminal
     /\ StopCapture(s, record[s])
  \/ /\ record[s] = "absent"
     /\ UNCHANGED <<record, cpu, monitor, startup>>

\* CpuSession::publish on an open runtime: the frame is published, it is
\* dropped because the arena is full, or it fails and poisons the runtime.
CpuPublish(s, outcome) ==
  CASE outcome = "published" -> [cpu[s] EXCEPT !.arena = TRUE]
    [] outcome = "dropped"   -> cpu[s]
    [] outcome = "error"     -> [cpu[s] EXCEPT !.error = TRUE]

PublishOutcomes(s) ==
  IF cpu[s].closing \/ cpu[s].error
  THEN {"error"}
  ELSE {"published", "error"} \union (IF cpu[s].arena THEN {"dropped"} ELSE {})

NewCpu == [closing |-> FALSE, error |-> FALSE, arena |-> FALSE,
           overdue |-> FALSE, worker |-> "run"]

-----------------------------------------------------------------------------
(* Creating a session.                                                     *)

\* create_synthetic_session: the one frame is published before the insert.
PostSynthetic(s) ==
  /\ creator[s] = "idle"
  /\ record' = [record EXCEPT ![s] = "ready"]
  /\ cpu' = [cpu EXCEPT ![s] = [NewCpu EXCEPT !.arena = TRUE]]
  /\ creator' = [creator EXCEPT ![s] = "ok"]
  /\ UNCHANGED <<startup, monitor, source, conn, held, asked, retired, adapter>>

\* create_surface_session_with_publisher up to the adapter call.
PostSurface(s) ==
  /\ creator[s] = "idle"
  /\ record' = [record EXCEPT ![s] = "starting"]
  /\ cpu' = [cpu EXCEPT ![s] = NewCpu]
  /\ creator' = [creator EXCEPT ![s] = "adapter"]
  /\ UNCHANGED <<startup, monitor, source, conn, held, asked, retired, adapter>>

\* The adapter's stream begins inside start_video_capture_publisher: a seed
\* frame and the first callbacks may come before the call returns.
AdapterStarts(s) ==
  /\ adapter = "pushes"
  /\ creator[s] = "adapter" /\ source[s] = "off"
  /\ source' = [source EXCEPT ![s] = "live"]
  /\ UNCHANGED <<record, cpu, creator, startup, monitor, conn, held, asked,
                 retired, adapter>>

\* The call returns a stream; the monitor task is spawned but not yet stored.
AdapterReturns(s) ==
  /\ creator[s] = "adapter" /\ source[s] # "off"
  /\ monitor' = [monitor EXCEPT ![s].at = "await"]
  /\ creator' = [creator EXCEPT ![s] = "spawned"]
  /\ UNCHANGED <<record, cpu, startup, source, conn, held, asked, retired, adapter>>

\* The call fails: remove_session and an error reply.
AdapterFails(s) ==
  /\ adapter = "pushes"
  /\ creator[s] = "adapter"
  /\ RemoveSession(s)
  /\ creator' = [creator EXCEPT ![s] = "err"]
  /\ source' = [source EXCEPT ![s] = "off"]
  /\ UNCHANGED <<conn, held, asked, retired, adapter>>

\* The adapter cannot push frames: fall back to polling it.
AdapterUnsupported(s) ==
  /\ adapter = "polled"
  /\ creator[s] = "adapter"
  /\ RemoveSession(s)
  /\ creator' = [creator EXCEPT ![s] = "fallback"]
  /\ UNCHANGED <<source, conn, held, asked, retired, adapter>>

\* Mutant of StoreTask: the task of an ended session is dropped, which leaves
\* it running, instead of aborted.
StoreOrDetach(s) ==
  /\ creator[s] = "spawned"
  /\ \/ /\ record[s] \in Active
        /\ monitor' = [monitor EXCEPT ![s].stored = TRUE]
        /\ creator' = [creator EXCEPT ![s] = "waiting"]
     \/ /\ record[s] \notin Active
        /\ creator' = [creator EXCEPT ![s] = "err"]
        /\ UNCHANGED monitor
  /\ UNCHANGED <<record, cpu, startup, source, conn, held, asked, retired, adapter>>

\* The lock taken after the adapter returned: the task is stored, or the
\* session has ended meanwhile and the task is aborted (CpuStartup::drop then
\* finds a session that is already stopped).
StoreTask(s) ==
  /\ creator[s] = "spawned"
  /\ \/ /\ record[s] \in Active
        /\ monitor' = [monitor EXCEPT ![s].stored = TRUE]
        /\ creator' = [creator EXCEPT ![s] = "waiting"]
     \/ /\ record[s] \notin Active
        /\ monitor' = [monitor EXCEPT ![s].aborted = TRUE]
        /\ creator' = [creator EXCEPT ![s] = "err"]
  /\ UNCHANGED <<record, cpu, startup, source, conn, held, asked, retired, adapter>>

\* select!: the first frame's message is taken.
FirstFrame(s) ==
  /\ creator[s] = "waiting" /\ startup[s].first
  /\ creator' = [creator EXCEPT ![s] = "got"]
  /\ UNCHANGED <<record, cpu, startup, monitor, source, conn, held, asked,
                 retired, adapter>>

\* select!: startup_cancel fires; startup_terminal_error is the answer.
StartupCancelled(s) ==
  /\ creator[s] = "waiting" /\ startup[s].cancel
  /\ AbandonStartup(s)
  /\ creator' = [creator EXCEPT ![s] = "err"]
  /\ UNCHANGED <<source, conn, held, asked, retired, adapter>>

\* Mutant of FirstFrameTimeout: the wait has no timeout of its own.
FirstFrameLost(s) ==
  /\ creator[s] = "waiting" /\ ~startup[s].first /\ monitor[s].at = "done"
  /\ RemoveSession(s)
  /\ creator' = [creator EXCEPT ![s] = "err"]
  /\ UNCHANGED <<source, conn, held, asked, retired, adapter>>

\* No first frame within 5 s, or the publisher is gone without one.
FirstFrameTimeout(s) ==
  /\ creator[s] = "waiting" /\ ~startup[s].first
  /\ RemoveSession(s)
  /\ creator' = [creator EXCEPT ![s] = "err"]
  /\ UNCHANGED <<source, conn, held, asked, retired, adapter>>

\* Mutant of FinishStartup: the first frame is taken as proof of health.
FinishUnchecked(s) ==
  /\ creator[s] = "got"
  /\ creator' = [creator EXCEPT ![s] = "ok"]
  /\ UNCHANGED <<record, cpu, startup, monitor, source, conn, held, asked,
                 retired, adapter>>

\* The last look at the record before the session is handed to the caller.
FinishStartup(s) ==
  /\ creator[s] = "got"
  /\ \/ /\ record[s] \in Active
        /\ creator' = [creator EXCEPT ![s] = "ok"]
        /\ UNCHANGED <<record, cpu, startup, monitor>>
     \/ /\ record[s] \notin Active
        /\ AbandonStartup(s)
        /\ creator' = [creator EXCEPT ![s] = "err"]
  /\ UNCHANGED <<source, conn, held, asked, retired, adapter>>

\* The client goes away: the create future is dropped at one of its awaits.
DropCreator(s) ==
  /\ creator[s] \in {"adapter", "waiting", "fallback"}
  /\ AbandonStartup(s)
  /\ creator' = [creator EXCEPT ![s] = "dropped"]
  /\ UNCHANGED <<source, conn, held, asked, retired, adapter>>

\* The adapter call of a dropped create still runs to its end; the stream it
\* returns is dropped at once.
AdapterOrphaned(s) ==
  /\ creator[s] = "dropped" /\ monitor[s].at = "none" /\ source[s] # "off"
  /\ source' = [source EXCEPT ![s] = "off"]
  /\ UNCHANGED <<record, cpu, creator, startup, monitor, conn, held, asked,
                 retired, adapter>>

(* The polled path: create_surface_session_with_owned_frames.              *)

\* The first polled frame is published to a fresh runtime and the monitor is
\* spawned; the record under the new id t does not exist yet.
OwnedFirstFrame(s, t) ==
  /\ creator[s] = "fallback" /\ creator[t] = "idle"
  /\ cpu' = [cpu EXCEPT ![t] = [NewCpu EXCEPT !.arena = TRUE]]
  /\ monitor' = [monitor EXCEPT ![t].at = "await"]
  /\ source' = [source EXCEPT ![t] = "live"]
  /\ creator' = [creator EXCEPT ![s] = "err", ![t] = "inserting"]
  /\ UNCHANGED <<record, startup, conn, held, asked, retired, adapter>>

\* No stream, no first frame within 5 s, or a frame the runtime refuses.
OwnedFails(s) ==
  /\ creator[s] = "fallback"
  /\ creator' = [creator EXCEPT ![s] = "err"]
  /\ UNCHANGED <<record, cpu, startup, monitor, source, conn, held, asked,
                 retired, adapter>>

OwnedInsert(t) ==
  /\ creator[t] = "inserting"
  /\ record' = [record EXCEPT ![t] = "ready"]
  /\ monitor' = [monitor EXCEPT ![t].stored = TRUE]
  /\ creator' = [creator EXCEPT ![t] = "ok"]
  /\ UNCHANGED <<cpu, startup, source, conn, held, asked, retired, adapter>>

-----------------------------------------------------------------------------
(* Frames and the monitor.                                                 *)

\* RegistryVideoFramePublisher::publish_frame, called from the adapter's
\* callback; an error goes to the stream's error channel.
PublishFrame(s) ==
  /\ adapter = "pushes" /\ source[s] # "off"
  /\ \/ /\ record[s] \in Active
        /\ \E outcome \in PublishOutcomes(s) :
             /\ cpu' = [cpu EXCEPT ![s] = CpuPublish(s, outcome)]
             /\ record' = [record EXCEPT ![s] =
                             IF outcome = "published" THEN "ready" ELSE @]
             /\ startup' = [startup EXCEPT ![s].first =
                             @ \/ outcome = "published"]
             /\ source' = [source EXCEPT ![s] =
                             IF outcome = "error" THEN "broken" ELSE @]
     \/ /\ record[s] \notin Active
        /\ source' = [source EXCEPT ![s] = "broken"]
        /\ UNCHANGED <<record, cpu, startup>>
  /\ UNCHANGED <<creator, monitor, conn, held, asked, retired, adapter>>

Awaiting(s) == monitor[s].at = "await" /\ ~monitor[s].aborted

\* next_frame returns: a frame (polled adapters only), an error, or the end.
MonitorWakes(s) ==
  /\ Awaiting(s)
  /\ \E next \in {"fail", "close"}
             \union (IF adapter = "pushes" THEN {} ELSE {"publish"}) :
       monitor' = [monitor EXCEPT ![s].at = next]
  /\ UNCHANGED <<record, cpu, creator, startup, source, conn, held, asked,
                 retired, adapter>>

\* The error a refused frame left in the channel wakes the monitor.
MonitorHearsError(s) ==
  /\ Awaiting(s) /\ source[s] = "broken"
  /\ monitor' = [monitor EXCEPT ![s].at = "fail"]
  /\ UNCHANGED <<record, cpu, creator, startup, source, conn, held, asked,
                 retired, adapter>>

\* publish_capture_frame.
MonitorPublishes(s) ==
  /\ monitor[s].at = "publish"
  /\ \/ /\ record[s] \in Active
        /\ \E outcome \in PublishOutcomes(s) :
             /\ cpu' = [cpu EXCEPT ![s] = CpuPublish(s, outcome)]
             /\ monitor' = [monitor EXCEPT ![s].at =
                              IF outcome = "error" THEN "fail" ELSE "await"]
     \/ /\ record[s] \notin Active
        /\ monitor' = [monitor EXCEPT ![s].at = "fail"]
        /\ UNCHANGED cpu
  /\ UNCHANGED <<record, creator, startup, source, conn, held, asked, retired, adapter>>

\* Mutant of MonitorFails: the runtime is told, the registry's record is not.
FailsOnlyCpu(s) ==
  /\ monitor[s].at = "fail"
  /\ cpu' = [cpu EXCEPT ![s].error = TRUE]
  /\ startup' = [startup EXCEPT ![s].cancel = TRUE]
  /\ monitor' = [monitor EXCEPT ![s].at = "done"]
  /\ source' = [source EXCEPT ![s] = "off"]
  /\ UNCHANGED <<record, creator, conn, held, asked, retired, adapter>>

\* mark_session_failed, and the stream is dropped with the task.
MonitorFails(s) ==
  /\ monitor[s].at = "fail"
  /\ \/ /\ record[s] # "absent"
        /\ record' = [record EXCEPT ![s] = "failed"]
        /\ cpu' = [cpu EXCEPT ![s].closing = TRUE, ![s].error = TRUE]
        /\ startup' = [startup EXCEPT ![s].cancel = TRUE]
     \/ /\ record[s] = "absent"
        /\ UNCHANGED <<record, cpu, startup>>
  /\ monitor' = [monitor EXCEPT ![s].at = "done"]
  /\ source' = [source EXCEPT ![s] = "off"]
  /\ UNCHANGED <<creator, conn, held, asked, retired, adapter>>

\* Mutant of MonitorCloses: the record ends, the runtime is not stopped.
ClosesOnlyRecord(s) ==
  /\ monitor[s].at = "close"
  /\ record' = [record EXCEPT ![s] = IF @ = "absent" THEN @ ELSE "closed"]
  /\ startup' = [startup EXCEPT ![s].cancel = TRUE]
  /\ monitor' = [monitor EXCEPT ![s].at = "done"]
  /\ source' = [source EXCEPT ![s] = "off"]
  /\ UNCHANGED <<cpu, creator, conn, held, asked, retired, adapter>>

\* mark_session_closed: the stream ended.
MonitorCloses(s) ==
  /\ monitor[s].at = "close"
  /\ \/ /\ record[s] # "absent"
        /\ record' = [record EXCEPT ![s] = "closed"]
        /\ cpu' = [cpu EXCEPT ![s].closing = TRUE]
        /\ startup' = [startup EXCEPT ![s].cancel = TRUE]
     \/ /\ record[s] = "absent"
        /\ UNCHANGED <<record, cpu, startup>>
  /\ monitor' = [monitor EXCEPT ![s].at = "done"]
  /\ source' = [source EXCEPT ![s] = "off"]
  /\ UNCHANGED <<creator, conn, held, asked, retired, adapter>>

\* The runtime drops an aborted task at its await, and its stream with it.
MonitorAborted(s) ==
  /\ monitor[s].at = "await" /\ monitor[s].aborted
  /\ monitor' = [monitor EXCEPT ![s].at = "done"]
  /\ source' = [source EXCEPT ![s] = "off"]
  /\ UNCHANGED <<record, cpu, creator, startup, conn, held, asked, retired, adapter>>

-----------------------------------------------------------------------------
(* Closing and retirement.                                                 *)

\* Mutant of DeleteSession: the record is removed at once, as a session
\* without a CPU runtime is.
DeleteForgets(s) ==
  /\ record[s] # "absent"
  /\ StopCapture(s, "absent")
  /\ UNCHANGED <<creator, source, conn, held, asked, retired, adapter>>

\* Mutant of DeleteSession: the reported status is stored as the lifecycle.
DeleteStoresStatus(s) ==
  /\ record[s] # "absent"
  /\ StopCapture(s, "draining")
  /\ UNCHANGED <<creator, source, conn, held, asked, retired, adapter>>

\* DELETE /capture-sessions/{id}: close_session.
DeleteSession(s) ==
  /\ record[s] # "absent"
  /\ StopCapture(s, "closed")
  /\ UNCHANGED <<creator, source, conn, held, asked, retired, adapter>>

\* Runtime::maintain while open: a reconfiguration that an earlier frame of
\* the stream asked for fails.
MaintainFails(s) ==
  /\ cpu[s].worker = "run" /\ cpu[s].arena /\ source[s] # "off"
  /\ ~cpu[s].closing /\ ~cpu[s].error
  /\ cpu' = [cpu EXCEPT ![s].error = TRUE]
  /\ UNCHANGED <<record, creator, startup, monitor, source, conn, held, asked,
                 retired, adapter>>

\* Mutant of MaintainDrains: setup connections are not waited for.
DrainsUnderSetup(s) ==
  /\ cpu[s].worker = "run" /\ cpu[s].closing
  /\ {c \in Consumers : held[c] = s} = {}
  /\ cpu' = [cpu EXCEPT ![s].arena = FALSE, ![s].worker = "drained"]
  /\ UNCHANGED <<record, creator, startup, monitor, source, conn, held, asked,
                 retired, adapter>>

\* Mutant of MaintainDrains: recovery_required is final.
DrainsUntilOverdue(s) ==
  /\ cpu[s].worker = "run" /\ cpu[s].closing /\ ~cpu[s].overdue
  /\ \/ /\ cpu[s].arena => Users(s) = {}
        /\ cpu' = [cpu EXCEPT ![s].arena = FALSE, ![s].worker = "drained"]
     \/ /\ cpu[s].arena /\ Users(s) # {}
        /\ cpu' = [cpu EXCEPT ![s].overdue = TRUE]
  /\ UNCHANGED <<record, creator, startup, monitor, source, conn, held, asked,
                 retired, adapter>>

\* Runtime::maintain while closing: the storage goes once nobody uses it, and
\* after DRAIN_TIMEOUT the wait is reported as recovery_required.
MaintainDrains(s) ==
  /\ cpu[s].worker = "run" /\ cpu[s].closing
  /\ \/ /\ cpu[s].arena => Users(s) = {}
        /\ cpu' = [cpu EXCEPT ![s].arena = FALSE, ![s].worker = "drained",
                              ![s].overdue = FALSE]
     \/ /\ cpu[s].arena /\ Users(s) # {}
        /\ cpu' = [cpu EXCEPT ![s].overdue = TRUE]
  /\ UNCHANGED <<record, creator, startup, monitor, source, conn, held, asked,
                 retired, adapter>>

\* Mutant of Retire: the oldest id leaves the history, its record stays.
RetireForgetsRecord(s) ==
  /\ cpu[s].worker = "drained"
  /\ cpu' = [cpu EXCEPT ![s].worker = "ended"]
  /\ LET all == Append(retired, s) IN
       retired' = IF Len(all) > HistoryLimit THEN Tail(all) ELSE all
  /\ UNCHANGED <<record, creator, startup, monitor, source, conn, held, asked,
                 adapter>>

\* The retirement callback: the record joins the bounded history and the
\* oldest ones leave the registry.
Retire(s) ==
  /\ cpu[s].worker = "drained"
  /\ cpu' = [cpu EXCEPT ![s].worker = "ended"]
  /\ \/ /\ record[s] # "absent"
        /\ LET all == Append(retired, s)
               over == IF Len(all) > HistoryLimit
                       THEN Len(all) - HistoryLimit ELSE 0
           IN /\ retired' = SubSeq(all, over + 1, Len(all))
              /\ record' = [t \in Sessions |->
                             IF \E i \in 1 .. over : all[i] = t
                             THEN "absent" ELSE record[t]]
     \/ /\ record[s] = "absent"
        /\ UNCHANGED <<record, retired>>
  /\ UNCHANGED <<creator, startup, monitor, source, conn, held, asked, adapter>>

-----------------------------------------------------------------------------
(* Consumers on the fd socket.                                             *)

\* authorize_fd_connection and require_fd_session_access.  Synthetic sessions
\* have no owner; only they never had a surface stream.
AskAccess(c, s) ==
  /\ asked[c] = None /\ conn[c] = None
  /\ record[s] # "absent"
  /\ c \in Strangers => monitor[s].at = "none" /\ creator[s] = "ok"
  /\ asked' = [asked EXCEPT ![c] = s]
  /\ UNCHANGED <<record, cpu, creator, startup, monitor, source, conn, held,
                 retired, adapter>>

\* The second lock of handle_fd_connection and CpuSession::open_connection.
OpenConnection(c) ==
  /\ asked[c] # None
  /\ LET s == asked[c]
         open == /\ record[s] = "ready"
                 /\ ~cpu[s].closing /\ ~cpu[s].error /\ cpu[s].arena
                 /\ Cardinality({d \in Consumers : conn[d] = s})
                      < MaxConnections
     IN conn' = [conn EXCEPT ![c] = IF open THEN s ELSE None]
  /\ asked' = [asked EXCEPT ![c] = None]
  /\ UNCHANGED <<record, cpu, creator, startup, monitor, source, held, retired, adapter>>

\* serve_cpu maps the session's storage into the consumer (Jackstay).
MapStorage(c) ==
  /\ conn[c] # None /\ held[c] = None
  /\ ~cpu[conn[c]].closing /\ ~cpu[conn[c]].error
  /\ held' = [held EXCEPT ![c] = conn[c]]
  /\ UNCHANGED <<record, cpu, creator, startup, monitor, source, conn, asked,
                 retired, adapter>>

\* The consumer unmaps.  Nothing in the daemon can make it.
Unmap(c) ==
  /\ held[c] # None
  /\ held' = [held EXCEPT ![c] = None]
  /\ UNCHANGED <<record, cpu, creator, startup, monitor, source, conn, asked,
                 retired, adapter>>

\* Connection::drop: the consumer hung up or stop() shut the socket down.
EndConnection(c) ==
  /\ conn[c] # None
  /\ conn' = [conn EXCEPT ![c] = None]
  /\ UNCHANGED <<record, cpu, creator, startup, monitor, source, held, asked,
                 retired, adapter>>

Next ==
  \/ \E s \in Sessions :
       \/ PostSynthetic(s) \/ PostSurface(s)
       \/ AdapterStarts(s) \/ AdapterReturns(s) \/ AdapterFails(s)
       \/ AdapterUnsupported(s) \/ AdapterOrphaned(s)
       \/ StoreTask(s) \/ FirstFrame(s) \/ StartupCancelled(s)
       \/ FirstFrameTimeout(s) \/ FinishStartup(s) \/ DropCreator(s)
       \/ OwnedFails(s) \/ OwnedInsert(s)
       \/ \E t \in Sessions : OwnedFirstFrame(s, t)
       \/ PublishFrame(s) \/ MonitorWakes(s) \/ MonitorHearsError(s)
       \/ MonitorPublishes(s) \/ MonitorFails(s) \/ MonitorCloses(s)
       \/ MonitorAborted(s)
       \/ DeleteSession(s) \/ MaintainFails(s) \/ MaintainDrains(s)
       \/ Retire(s)
  \/ \E c \in Consumers :
       \/ \E s \in Sessions : AskAccess(c, s)
       \/ OpenConnection(c) \/ MapStorage(c) \/ Unmap(c) \/ EndConnection(c)

Spec == Init /\ [][Next]_vars

(* The runtime polls every ready task, threads are scheduled, and tokio's    *)
(* timer fires, so the daemon's own steps are fair.  An adapter call ends:   *)
(* it starts a stream and returns, or fails.  Nothing is assumed of frames,  *)
(* stream errors, clients, DELETE requests or a consumer's mappings; a setup *)
(* connection ends once stop() has shut its socket down.                     *)
Fairness ==
  /\ \A s \in Sessions :
       /\ WF_vars(AdapterStarts(s)) /\ WF_vars(AdapterReturns(s))
       /\ WF_vars(AdapterUnsupported(s)) /\ WF_vars(AdapterOrphaned(s))
       /\ WF_vars(StoreTask(s)) /\ WF_vars(FirstFrame(s))
       /\ WF_vars(StartupCancelled(s)) /\ WF_vars(FirstFrameTimeout(s))
       /\ WF_vars(FinishStartup(s)) /\ WF_vars(OwnedFails(s))
       /\ WF_vars(OwnedInsert(s))
       /\ WF_vars(MonitorHearsError(s)) /\ WF_vars(MonitorPublishes(s))
       /\ WF_vars(MonitorFails(s)) /\ WF_vars(MonitorCloses(s))
       /\ WF_vars(MonitorAborted(s))
       /\ WF_vars(MaintainDrains(s)) /\ WF_vars(Retire(s))
  /\ \A c \in Consumers :
       /\ WF_vars(OpenConnection(c))
       /\ WF_vars(conn[c] # None /\ cpu[conn[c]].closing /\ EndConnection(c))

FairSpec == Spec /\ Fairness

-----------------------------------------------------------------------------
(* Properties.                                                             *)

\* The registry and the runtime never disagree about whether a session is
\* over: a record present in the map is starting or ready exactly while its
\* CpuSession is not closing.  The two are behind different locks, and five
\* handlers (stop_capture's callers, mark_session_failed, mark_session_closed)
\* have to write both.
ActiveIffOpen ==
  \A s \in Sessions :
    record[s] # "absent" => (record[s] \in Active <=> ~cpu[s].closing)

\* A create request that was dropped or answered with an error leaves no live
\* session behind: nobody holds the id that would close it (CpuStartup).
NoOrphan ==
  \A s \in Sessions :
    creator[s] \in {"err", "dropped"} => record[s] \notin Active

\* A session is not left starting or ready after the task that follows its
\* stream has ended: run_capture_session_monitor always ends by writing
\* failed or closed, or was aborted by whoever had already ended the session.
EndedStreamEndsSession ==
  \A s \in Sessions : monitor[s].at = "done" => record[s] \notin Active

\* The same for adapters that push: their record exists before the monitor is
\* spawned, so the monitor's report always finds it.
PushedStreamEndsSession == adapter = "pushes" => EndedStreamEndsSession

\* A create request answers success only about a session that is ready and
\* has published: a DELETE, a stream error or the stream's end that comes
\* first, even after the first frame was announced, turns it into an error.
SuccessMeansReady ==
  [][\A s \in Sessions :
       creator[s] # "ok" /\ creator'[s] = "ok"
         => record'[s] = "ready" /\ cpu'[s].arena /\ ~cpu'[s].closing]_vars

\* The status a client reads keeps the failure: once it is failed, no later
\* DELETE, late stream event, drain or retirement turns it into closed,
\* draining or ready.
FailureKept ==
  [][\A s \in Sessions :
       Status(s) = "failed" => Status(s)' \in {"failed", "recovery_required"}]_vars

\* README: "Active sessions and unresolved drainage are retained".  A record
\* leaves the registry only after its storage has retired.
RetainedUntilRetired ==
  \A s \in Sessions :
    cpu[s].worker \in {"run", "drained"} /\ creator[s] # "inserting"
      => record[s] # "absent"

\* README: "The daemon keeps the most recent 64 fully retired CPU session
\* records".  The history is bounded, lists each record once, and is exactly
\* the retired sessions the registry still answers for.
HistoryIsExact ==
  /\ Len(retired) <= HistoryLimit
  /\ \A i, j \in DOMAIN retired : retired[i] = retired[j] => i = j
  /\ \A s \in Sessions :
       (\E i \in DOMAIN retired : retired[i] = s)
         <=> record[s] # "absent" /\ cpu[s].worker = "ended"

\* Storage is never freed under a consumer: while a setup connection is
\* registered or a mapping is held, the session's arena exists, through
\* DELETE, failure and the removal of the record.
StorageOutlivesUsers ==
  \A c \in Consumers :
    /\ conn[c] # None => cpu[conn[c]].arena
    /\ held[c] # None => cpu[held[c]].arena

\* Every create request is answered, or its client has gone.
CreateIsAnswered ==
  \A s \in Sessions :
    creator[s] \in {"adapter", "spawned", "waiting", "got", "fallback",
                    "inserting"}
      ~> creator[s] \in {"ok", "err", "dropped"}

\* Recording stops: once a session is over, whichever of DELETE, a dropped
\* create, a failed startup or the stream itself ended it, the adapter's
\* stream is eventually dropped.
RecordingStops ==
  \A s \in Sessions : record[s] \in Terminal ~> source[s] = "off"

\* A closing session retires as soon as its consumers have unmapped for good;
\* connections that are merely open cannot keep it.
ClosingRetires ==
  \A s \in Sessions :
    <>[](cpu[s].closing /\ \A c \in Consumers : held[c] # s)
      => <>(cpu[s].worker = "ended")

\* The registry agrees with the sessions: a record is active exactly while its storage is
\* open, stays until the storage has retired, and the history of closed sessions holds
\* exactly the latest ones (capture_registry.rs, open, close and retire).
RegistryConsistent == ActiveIffOpen /\ RetainedUntilRetired /\ HistoryIsExact

\* What a session owns follows it: no adapter stream without a session, no session without
\* its stream when the adapter tells of the end, no storage freed under a consumer.
ResourcesFollowSessions == NoOrphan /\ PushedStreamEndsSession /\ StorageOutlivesUsers

\* The answers of a session's life are true: success is said of a session that is ready,
\* and a failure, once told, is not told otherwise later.
StartupAnswers == SuccessMeansReady /\ FailureKept
=============================================================================
