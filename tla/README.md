# porthole in TLA+

porthole lets software agents launch, track, watch, record and drive desktop
windows through a daemon, `portholed`, that a human operator keeps in charge of.
This directory holds TLA+ models of the parts of porthole whose correctness
depends on the order of events, the TLC configurations that check them on small
instances, and TLAPS proofs of the properties that matter most.
`PROJECT.json` lists the components, runs, mutants, findings, hazards and
theorems, and maps every definition to the source lines it models.

    tlc -workers 2 -config capture_sessions.cfg MCCaptureSessions
    tlapm CaptureSessionsProofs.tla

## 1. The system and its parts

| Part | State it keeps | Operations | Hard behaviour | What makes it correct |
|---|---|---|---|---|
| Surface handles (`porthole-core/src/handle.rs`) | surface id → window, alive or dead | `track_or_get`, `mark_dead`, `require_alive` | concurrent launches and tracks of one window; all lost on restart | one alive handle per window; dead is final |
| Launch, attach, close, replace, auto-dismiss (`launch.rs`, `attach_pipeline.rs`, `input_pipeline.rs`, `replace_pipeline.rs`) | locals of each request between its awaits; a detached timer | launch, track, close, replace, timer | a request acts on what it read before an await; replace fails half way | errors tell the truth about the old handle; fresh means fresh; dead means gone |
| Agent policy, store and guard (`agent_policy.rs`, `agent_store.rs`, `agent_guard.rs`) | SQLite: identities, tokens, requests, grants, denials, audit | guard of every protected route; approve, deny, revoke, retire | callers race for a once grant; operators race for a request; restart between consume and act | a once grant acts once; the first decision is final, audited and announced |
| CPU capture sessions (`capture_registry.rs`, `cpu_session.rs`) | record per session, CPU runtime behind it, retired history | create (three ways), frames, DELETE, drain, retire, fd setup | five kinds of thread; dropped requests; late stream ends | record and runtime agree; nothing is orphaned; storage outlives its users |
| Native capture sessions (`native_session*.rs`) | reservation, running and draining sessions, epochs, output requests | create on three platforms, frames, DELETE, drain, recover, resize | reservation across awaits; a blocking start that outlives its request; old publications still draining | one at a time; every stream has an owner; the reservation comes back |
| Exports and republications (`export_registry.rs`, `routes/publications.rs`), bridge halves (`task.rs`, `worker.rs`, `launchd.rs`), `porthole attach` | records, threads, children, launchd jobs, SSH forwards | create, stop, DELETE, attach, hold, clean up | two daemons, one forward, dropped clients, a session that ends meanwhile | nothing outlives what names it; a stop ends; status is true |
| Bridge streams (`egress.rs`, `ingress.rs`, `input_relay.rs`, `cpu_publication.rs`, `clock.rs`) | encoder and decoder queues, connections, relayed streams, arena, clock samples | encode, send, decode, relay, resize, ping | asynchronous codec callbacks, keyframe requests, a pump racing a shutdown | only decodable frames are fed; no hole in a stream; halves end together |
| Input executor (`input_executor.rs`) and held input on macOS | controllers, work queue, held keys and buttons, driving flag | accept, execute, cleanup, stop, HTTP input | cleanup of one controller after the next has begun | what is down is known; no press is inherited |
| KWin adapter (`bridge.rs`, `remote_desktop.rs`, `launch.rs`, `screenshot.rs`) | command queue, snapshot, one portal session | queue, long poll, complete, abandon; consent; correlate; read a pipe | 1 s time-out against a late completion; a consent nobody gives; pids in a stale snapshot | a command is done and answered once; one consent at a time |
| Windows adapter (`native.rs`) | cookies on windows, input lock, one PrintWindow worker | launch, focus, input, screenshot | reused pids and window handles; focus taken between check and send | the window acted on is the one meant |
| macOS adapter (`close_focus.rs`, `ax.rs`, `input.rs`) | none: the desktop is the state | search, focus, close, place, content rectangle | windows come and go between Accessibility calls | as above; references are balanced |
| Wait (`wait*.rs`) | last sample, deadline | sample, judge, sleep | a sample older than the condition | the answer and the time-out are true |
| Approval inbox (`commands/approvals.rs`), events (`events.rs`) | broadcast channel; snapshot, selection, one command under way | subscribe, resync, decide | lagging subscriber; lost answer; selection under a changing list | one decision per request, for the duration shown |
| Record, onboard, install (`commands/*.rs`) | a file, a daemon to restart, a bundle | one sequence each | failure or interruption between two steps | the exit status is true; nothing is destroyed that was not replaced |
| Local transport (`porthole-transport`) and server start | socket files, named pipe | bind, accept, re-arm | several daemons, files of dead ones | a client reaches one daemon |
| Windows helper (`apps/windows/PortholeHelper`) | a journal on disk, an elevated worker | hand the session to the console, recover | crash of the helper at any point; a worker that acts late | a commit is on disk before it can act; what is told is true |
| Key tables, argument parsing, serialised types, build tasks, macOS helper's window | none that changes | – | – | see section 6 |

How they interact: an HTTP route first calls the guard (agent policy), then a
pipeline of porthole-core, which calls the adapter and writes the handle store.
Capture routes go from the guard to the capture registry, which calls the adapter
and hands consumers file descriptors over a second socket; exports take a native
session and serve it to another machine through the bridge, whose input relay ends
in the input executor and there in the input pipeline. `porthole attach` drives two
daemons, one here and one behind an SSH forward. Handles and sessions live in
memory; only the agent store and the helper's journal survive a restart.

## 2. Modules

    Surfaces         MCSurfaces         SurfacesProofs
    AgentPolicy      MCAgentPolicy      AgentPolicyProofs
    CaptureSessions  MCCaptureSessions  CaptureSessionsProofs
    NativeSessions   MCNativeSessions   NativeSessionsProofs   ServiceSlot (what it implements)
    Publications     MCPublications     PublicationsProofs
    VideoLink, InputRelay, CpuPublication      MCStreams         StreamsProofs
    InputExecutor, MacWindows, WindowsLaunch, WindowsCalls,
      KWinBridge, KWinPortal, KWinLaunch, KWinShot               MCAdapters   AdaptersProofs
    Inbox, Waits, Recorder, Onboard, Install,
      ControlEndpoint, ClockSync, Handoff                        MCClients    ClientsProofs
    MCEnds: liveness of the adapters, the clients and the daemon's two registries

An action is what one thread does between two points where another may run: an
`.await`, the release of a mutex, the return of a store call, a system call. Data
is reduced to what the properties tell apart: a window is a reference, a launch
body is the six fields the pipeline branches on, a frame is a number. Definitions
whose comment begins with "Mutant" belong to no specification; each is a plausible
bug that one property must detect.

MCAdapters, MCClients and MCStreams put modules that share no state side by side:
in the first two one part runs and the others rest, in MCStreams they interleave.
A property of these modules is a conjunction of the parts' named properties.

### Surfaces

`window` is the desktop (unborn, shown, hidden, gone; a reference is never
reused), `hstate` and `href` are the `HandleStore`, `pc` and `task` are the
suspended request and its locals. A request is a slot that is posted, runs and is
recycled:

| Code | Actions |
|---|---|
| `launch.rs` `run` | `PostLaunch`, `AdapterLaunch`, `AdapterLaunchFails`, `GateAndTrack`, `PlaceAndReply`, and `Wake` for the auto-dismiss timer |
| `attach_pipeline.rs` `track` | `PostTrack`, `Probe`, `Track` |
| `input_pipeline.rs` `close` | `PostClose`, `RequestClose`, `VerifyClose`, `FinishClose` |
| `replace_pipeline.rs` `run` | `PostReplace`, `SnapshotGeometry`, the close steps, `Bury`, then the launch steps |
| desktop and process | `Desktop`, `Restart` |

Adapters differ in three definitions: `BeforeSets` (which windows a launch
remembers as already there), `ProbeSays` (liveness of a candidate) and
`SeemsClosed` (how a close is verified). The constant `Platform` selects among
them.

### AgentPolicy

One variable per table of the store (`agent`, `token`, `rstatus`, `rkey`,
`gduration`, `gconstraint`, `consumed`, `grevoked`, `remembered`, `audit`), the
published `events`, the handlers (`pc`, `task`) and a ghost count `uses` of route
actions per grant. A protected call runs `Call`, `Resolve`, `LoadSnapshot`,
`TryConsume`, `Ask`, `Announce`, `Act`, `CompleteExecution`; an operator's request
runs `OpenApprove` or `OpenGet`, `Review`, `Invalidate`, `Approve`, `Publish`, or
`Deny`. `StoreFails` is an error of any store call; `Restart` keeps the tables and
loses handles, handlers and unpublished events.

### CaptureSessions

`record` is the registry's map and lifecycle, `cpu` the `CpuSession` runtime,
`creator` the create request, `startup` its two oneshot channels, `monitor` the
task that follows the stream, `source` the adapter's stream, `asked`, `conn` and
`held` the consumers of the fd socket, `retired` the bounded history.

| Code | Actions |
|---|---|
| `create_synthetic_session` | `PostSynthetic` |
| `create_surface_session_with_publisher` | `PostSurface`, `AdapterStarts`, `AdapterReturns`, `AdapterFails`, `AdapterUnsupported`, `StoreTask`, `FirstFrame`, `StartupCancelled`, `FirstFrameTimeout`, `FinishStartup` |
| `CpuStartup::drop` | `DropCreator`, `AbandonStartup`; `AdapterOrphaned` for the call that is still running |
| `create_surface_session_with_owned_frames` | `OwnedFirstFrame`, `OwnedFails`, `OwnedInsert` |
| `publish_frame`, `run_capture_session_monitor` | `PublishFrame`, `MonitorWakes`, `MonitorHearsError`, `MonitorPublishes`, `MonitorFails`, `MonitorCloses`, `MonitorAborted` |
| `close_session`, `Runtime::maintain`, retirement | `DeleteSession`, `MaintainFails`, `MaintainDrains`, `Retire` |
| `handle_fd_connection`, `open_connection`, `Connection::drop` | `AskAccess`, `OpenConnection`, `MapStorage`, `Unmap`, `EndConnection` |

The shared-memory transport of Jackstay is outside the repository; `MapStorage`
and `Unmap` model it as the daemon uses it.

### NativeSessions and ServiceSlot

Native (GPU) sessions on macOS, Linux and Windows over one registry. A create
takes the start reservation, awaits the platform and may be dropped at each await;
the platform's start runs on a blocking thread that goes on without it, and what it
returns then is given back. Frames, device loss with a new recovery epoch,
consumers, DELETE, drain and requests for another output size come at any time.
`ServiceSlot` is the promise of the file's header, one user of the launchd name
and the pool, taken only when free; `ImplementsServiceSlot` checks the macOS
sessions against it under the mapping "the session that uses the service".

### Publications

Two daemons, the export on the remote one and the republication on the local one,
each with a bridge half that is a thread, a child process or a launchd job, and
`porthole attach` with its forward, approval, hold, interrupt and clean-ups. A
create is a job of its half with the client it answers, because axum drops the
handler and the blocking thread goes on.

### VideoLink, InputRelay, CpuPublication

VideoLink has one set of actions per thread of the two halves, with VideoToolbox
as an asynchronous encoder and decoder: frames refer to earlier output, sizes
change, connections drop, a viewer asks for keyframes. InputRelay numbers the bytes
of each side and follows the pumps, the accept thread and the shutdown.
CpuPublication has an arena that is resized or paused while a reader holds frames.

### The adapters

* **InputExecutor**: the executor's two threads, the external jackstay Target, the
  pipeline and the macOS adapter's held keys and buttons, beside HTTP callers.
* **MacWindows**: one Accessibility call at a time, with the user and the apps in
  between, and the count of retained references.
* **WindowsLaunch**, **WindowsCalls**: the process tree from snapshots of reused
  pids, the cookie that identifies a window; the input lock, the foreground check,
  batches of SendInput and their release, the PrintWindow worker.
* **KWinBridge**: calls, the queue, long polls, completions handled in any order,
  time-outs, dropped clients and scripts that stop.
* **KWinPortal**: the cached session behind a lock, its three requests, consent,
  refusal and silence, pointer moves relative to the last snapshot.
* **KWinLaunch**, **KWinShot**: correlation of a launched tree with a snapshot;
  the picture's pipe, its rows, formats and premultiplied channels.

### The clients

* **Inbox**: network task, watch channel, command channel of one place, terminal.
* **Waits**, **Recorder**, **Onboard**, **Install**: one command each, step by step,
  with every failure and interruption between the steps.
* **ControlEndpoint**: daemons that start, die and start again on Unix sockets or
  one named pipe.
* **ClockSync**: the four timestamps, the window of samples and the estimate. The
  remote clock is a constant offset ahead; the drift fit is left out.
* **Handoff**: helper, elevated worker, pipe, tscon and journal, across crashes.

## 3. What TLC checks

Every bound is a named constant of its module. Deadlock is checked in the runs of
Surfaces, AgentPolicy and CaptureSessions; the other systems may stop (a command
ends, a bounded number of calls is used up), and their configurations say so.

| Run | Instance | What it shows |
|---|---|---|
| `surfaces_macos` | 2 handles, 2 windows, 2 requests, symmetric; 765 k states | `OneAliveHandlePerWindow`, `DeadIsFinal`, `ReplaceReportsTruth`, `PreexistingMovedOnlyByForce` |
| `surfaces_windows` | the same, handles, windows and requests taken in order, fair; 138 k | `DeadHandleWindowGone`, `FreshLaunchIsFresh`; `RequestsEnd`: every request is answered, an auto-dismiss closes its window or was refused |
| `policy` | two scenarios: 2 callers of one kind of grant, 1 operator, a restart; 2 operators, 1 caller, tokens and surfaces that change; 745 k | a once grant acts once and never after revocation; one pending request per key; first decision final, announced at most once, audit equals history |
| `capture_sessions` | two scenarios: 2 sessions at once without a consumer; one streaming session at a time with a consumer; history of 1, both kinds of adapter, symmetric; 624 k | `RegistryConsistent`, `ResourcesFollowSessions`, `StartupAnswers` |
| `native_sessions` | 3 platforms, 2 sessions and 2 output requests taken in order, 1 consumer, 1 recovery, fair; 80 k | `OneAtATime`, `StreamsAreOwned`, `NativeEnds`, `ImplementsServiceSlot` |
| `publications` | 1 export, 1 republication, halves as threads and as workers, fair; 225 k | `NothingLeaks`, `StatusTellsTruth`, `PublicationsEnd` |
| `streams` | 2 sizes, 3 frames, 1 relayed stream of 2 bytes, 2 readers, fair; 232 k | `VideoDecodes`, `NothingLostBetween`, `StreamsEnd` |
| `streams_flush` | 2 frames | counterexample to `FlushReturns`, see section 4 |
| `adapters` | the eight adapter modules, 2 or 3 actors each; 1.3 M | `HeldInputIsKnown`, `WindowIsTheOneMeant`, `KWinAnswersTrue`, `NothingStaleIsUsed` |
| `clients` | the eight client modules; 1.2 M | `InboxDecidesOnce`, `CommandsTellTruth`, `EndsAgree`, `HandoffIsSafe` |
| `calls_end` | input, KWin bridge, portal, screenshot, capture registry and policy, smaller and without the adapter's faults, fair | `DesktopCallsEnd`, `RegistriesSettle` |
| `commands_end` | inbox, wait, record, onboard and endpoint, smaller, fair; 68 k | `ClientsAreServed` |

Each takes at most a few minutes with two workers.

Why the bounds are enough. The races of Surfaces are between two requests about
one window; the second window is what a launch may confuse it with, and the
second handle is the one a re-track mints. Losing a once grant needs two callers;
deciding needs two operators. In CaptureSessions the polled path closes one session
and opens another, and the history overflows at its second entry when the limit is
one, so two sessions reach every branch. The two scenarios of the policy and of the
capture run keep one axis wide and the other narrow, because the product of both is
out of reach; taking ids in order where a model is not symmetric only renames them.
Where section 5 has a theorem, its proof lifts these bounds. A
native reservation needs two creates, an output request a second one to collide
with. A video link needs a keyframe, a frame that refers to it and one lost between
or of another size. The input executor needs two controllers, so that one can be
cleaned up while the other begins, and two presses. A reused pid needs a parent, a
child and a stranger. The KWin queue needs two calls and two scripts, since only
then can one be answered out of order or by a script that comes back. The third
portal call is the one that finds the session of the first closed. The handoff
needs two attempts and two lives of the helper: the second recovers the first.

Fairness. It is stated only for steps the daemon, the client or the system takes
by itself, and nothing is assumed of users, windows, frames, clients or scripts.

* Surfaces: weak fairness of the steps of a started request; tokio polls every
  ready task, adapter calls have deadlines and timers fire.
* AgentPolicy: the operator's handler is driven to its answer, the live inbox reads
  every pending request again every two seconds, and a store call that is retried
  for ever does not fail every time (strong fairness, as `StoreFails` may pre-empt it).
* CaptureSessions, NativeSessions: weak fairness of the daemon's own steps and
  threads, of adapter calls (they return or fail), of what a blocking thread hands
  back after its request is gone, and of the end of a connection that `stop()` shut.
* Publications: weak fairness of every half's work and of attach's clean-up. A
  half's `run()` is taken to return once it is stopped; the one case where it does
  not is `streams_flush`.
* VideoLink, InputRelay, CpuPublication: weak fairness of every thread's steps. The
  liveness of VideoLink excepts a half stuck in its flush.
* InputExecutor: weak fairness of begin_drive, execute, cleanup and end_drive.
* KWinBridge: completion or time-out, the script's poll and the handling of a
  message. KWinPortal: time-outs, notify and close weakly, taking the session lock
  strongly (tokio's mutex is fair). KWinShot: every step, the read time-out included.
* Inbox: network and terminal steps weakly, taking a command strongly (`select!`
  picks among ready branches at random). Waits, Recorder, Onboard: steps and time.
  ControlEndpoint: the daemon's start and its accept loop.

## 4. Where the code and its documents differ

`streams_flush` ends in a counterexample: the egress half flushes its encoder with
the guard of the encoder slot held (`egress.rs:600`, and at a change of size
`egress.rs:504`), while the callback of a keyframe takes the same lock. With a
keyframe in flight the half never ends, although the comment in the block says that
"the flush delivered the last outputs synchronously".

The following were met while modelling, each by a property that fails in the form
the documents suggest or by reading; the checked properties are stated as the code
has them.

*Surfaces.* macOS verifies a close with the on-screen windows, so a minimised window
that refuses to close is reported closed and its handle dies (`close_focus.rs:101`);
on KWin a delivered close command counts as a close (`porthole-adapter-kwin/src/lib.rs:346`).
An artifact launch on macOS remembers on-screen windows only (`artifact.rs:55`), so a
minimised one may be returned as new. `close` and the timer return `SurfaceDead`
without `mark_dead` (`input_pipeline.rs:110`); `replace` marks, and says why.

*Policy.* A call that loses a once grant twice inserts a request that is never
published (`agent_guard.rs:195`, `:305`). `AllowedInput` and `MaxDurationMs` are
stored and enforced nowhere (`agent_policy.rs:238`, `:244`). A grant that is not once
is read once, so a call in flight is served after its revocation (`agent_guard.rs:223`).

*Capture.* The monitor of a polled stream is spawned before the record is inserted; a
stream that ends in between leaves a session ready for ever with nothing behind it
(`capture_registry.rs:649`). On Linux a native create that its client drops leaves a
`starting` record for ever.

*Publications.* A worker says that it listens when only its media socket is bound.
`exports_for` has no callers, so an export learns of its session's end only from the
stream. `LaunchdJob::stop` remembers that it stopped even when bootout failed, and a
launchd ingress that crashes stays `ready`. An attach that is killed before `--hold`
leaves its session and export on the remote, and a dropped POST an export nobody can
name.

*Streams.* A frame skipped for its rate consumes the keyframe request. An error of the
decoder's callback is only counted (compare `docs/jackstay-bridge.md:63-65`). A change
of size swaps the staging buffers before old decodes have drained. A pong that comes
after the next ping costs both samples.

*Input.* `driven` can stay set with no controller; a repeat whose down was refused
posts a key-down nobody records; a button released outside the window is refused and
stays held; a scroll during a drag does not move the held point; a handle that dies
leaves its held keys; exports of one surface share press ids; a stop leaves keys down
(`input_executor.rs:8-10` against `:115`).

*macOS.* `focus` skips the raise when the app is frontmost (`close_focus.rs:27`; compare
`input.rs:124-126`), and the Cmd+W fallback can then reach a sibling. An unreadable
child in AXContents ends `content_rect` without a look at AXChildren. A screenshot's
geometry is read before the picture (`capture.rs:29`).

*KWin.* The cached portal session is cloned, and the clone's drop closes it after every
call (`remote_desktop.rs:152`). An unknown key after modifiers leaves them down
(`remote_desktop.rs:169`), and input takes no lock. A dropped call leaves its command
queued (`lib.rs:123`). With a stale or absent snapshot a window that was there looks
new, and the `ps` tree has no check of birth. `wait gone` takes an unreadable snapshot
for a closed window, and `stable` and `dirty` are accepted and wait out their time.

*Windows.* A hanging PrintWindow keeps its permit (`native.rs:599`). `wait` matches a
closed window's title as empty. A client does not retry a busy pipe
(`porthole-transport/src/lib.rs:146`).

*Clients.* When the selected request leaves the list, the inbox selects
the first one, under the finger that was about to decide (`approvals.rs:186-194`). A recording whose GET fails after its POST, or that is
interrupted, leaks its session (`record.rs:319`). On Linux `onboard` never exits 0 after
a prompt; it exits 0 when `/info` cannot be read; another client's call may use up the
one dialog of a process. `install` removes the old bundle before it copies the new one,
and `uninstall` of one prefix removes the link to the other's. A second Unix daemon takes
both sockets over, and one that then fails has already replaced the first's transfer
socket. `wait` on macOS reports an error of its sampling as `wait_timeout`, early.

*Handoff.* tscon is a process of its own: after a new attempt was allowed, the transfer
of an earlier one may still complete. The comment (`HandoffRecovery.cs:25-26`) promises
only that no worker can still transfer a session. The mutex is per Windows session, the journal per user.

## 5. What is proved

The theorems hold for every value of the constants allowed by the modules' named
assumptions (`ConstantsAssumption`, `PolicyAssumption`, `CaptureAssumption`,
`NativeAssumption`, `PublicationsAssumption`, `VideoLinkAssumption`,
`InputRelayAssumption`, `InputAssumption`, `WindowsLaunchAssumption`,
`WindowsCallsAssumption`, `MacAssumption`, `KWinAssumption`, `PortalAssumption`,
`KWinLaunchAssumption`, `ShotAssumption`, `InboxAssumption`, `WaitsAssumption`,
`RecorderAssumption`, `OnboardAssumption`, `InstallAssumption`, `EndpointAssumption`,
`ClockSyncAssumption`, `HandoffAssumption`), which TLC evaluates in each run. They say that bounds
are numbers and names are distinct; those that say more are: the script instances of KWin and
the pids of a desktop are finitely many and no process has the pid 0 (which stands for
the parent of an orphan), a
picture has the pixels its sides ask for, and what a screen may look like is a number.

**SurfacesProofs.** `TypeCorrect`; `OneHandle`, from the fact that every step
changes the store by `track_or_get`, `mark_dead` or a restart; `DeadStaysDead`.
`ReplaceTellsTruth` needs `RequestInv`: a suspended request knows a handle that is
in the store, and a replace that is past its close has a handle that is dead or
forgotten. That part is what makes the property inductive, since the reply is sent
many steps after the close. `WindowsDeadMeansGone` assumes the Windows adapter and
adds `GoneInv`: a handle's window has been opened, and a request that is about to
mark a handle dead has a window that is gone; windows never come back.
`MovedOnlyByForce` and `FreshIsFresh` rest on `LaunchInv`: from the adapter's answer to
the reply, a launch's locals say of its candidate what the rule of its place says
(`LaunchRule`: a candidate is known as preexisting exactly if it was in the before set,
and one returned as fresh was not), and the handle of a launched window names that
window (`NamesWindow`). `FreshIsFresh` has as hypothesis that the before set holds every
open window, which is what the Windows adapter does and the macOS adapter does for
processes.

**AgentPolicyProofs.** `Typed` is the type invariant with `HandlerInv`, what each
handler's locals mean at its place. `StoreInv` adds `OnceInv` (a call past its
consume holds a grant that is consumed, and no two calls hold the same one) and
`OnePendingPerKey`; that a call *holds* the grant is what the count of uses needs,
because the use comes after the consume and a restart may fall between. `TrailInv`
adds `AuditMatchesHistory` and `ActedBeforeAudit`. They give `PolicyTypeCorrect`,
`OnceGrantIsUsedOnce`, `OnePendingRequestPerKey`, `AuditTellsHistory`, and the action
properties `DecisionsAreFinal` and `RevokedOnceGrantIsUnused`.

**CaptureSessionsProofs.** `RegistryInv` conjoins the type invariant, the history,
the consumers' storage and `SessionInv(s)` of every session. Besides the properties
themselves, `SessionInv` says that an unused id is pristine, that a polled session
between its first frame and its insert is open and has no record, that a session
whose create failed, fell back or was dropped is not active, that only a session that
is over is ever aborted, and that an announced first frame of an active session means
there is storage. Each action but three touches one session; a lemma per action shows
that it keeps `SessionInv` there and leaves the others alone. Retirement, the drain and
the move from the pushed to the polled path are proved separately; retirement is where
the exactness of the history is needed, because a record may only leave the map if its
session has ended. From it follow `CaptureTypeCorrect`, `RegistryIsConsistent`,
`ResourcesFollow` and the action property `AnswersAreTrue`.

**NativeSessionsProofs.** `NativeInv` has a part for each session (`SharedInv`, and
`MacInv`, `LinuxInv` or `WindowsInv` by platform: who owns stream, publication and
hold at each place of the create request), `SlotInv` (the reservation is that of the one
request in flight, and a hold excludes any other session's request and hold) and
`UpdateInv` for output requests. A step touches one session, so a lemma per
action shows its part kept there and the others' unchanged. `SlotInv` is what the code
argues with the reservation taken under one lock; that a dropped request leaves a start
running without it is why ownership is stated for the thread and not for the request.
It gives `OnlyOne`, `StreamsOwned`, and `SessionsImplementSlot`: every macOS step takes
the free slot of ServiceSlot for one session, frees it, or stutters.

**PublicationsProofs.** A half and the record that names it are changed by different
threads. `HalfInv` says for each stage of a record what its half may still be
(`RecordRule`), how a task's flags are ordered (`TaskRule`: cancelled before stopped,
and no failure caused by a stop is kept), what a deleted export has given up
(`ExportRule`) and what an answered republication had (`RepRule`); `AttachInv` says what
attach knows of the remote at each of its steps. They give `BridgeNeverLeaks` and
`StatusesAreTrue`.

**StreamsProofs.** The three parts share no variable, so each invariant is kept by the
steps of its own part and untouched by the others'.
`RelayLosesNothing`, about the relay and the CPU publication: per stream, nothing is
carried before its open is sent (`UnsentRule`), the open is sent once and before
everything else (`OpenRule`), what one end read is at the other end or on the line, in
order and without a hole (`LineRule`), and a peer got a beginning of what was written
(`PeerRule`); per half, an open connection is in its map and a half that is over has an
empty one (`HalfRule`). `CpuInv` keeps arena and
installed size equal through a pending resize.
`VideoIsDecodable` rests on `VideoInv`. What is hard is that three queues (the encoder,
the connection, the decoder) hold frames that refer to one another: outputs are numbered
by frames taken, so a delta's predecessor can be named (`EgressRule`); a configuration
travels directly before its keyframe (`PacketRule`); the connection is ordered as the
encoder emitted (`OrderRule`); a viewer that is not waiting was fed the last frame it
read, and one without a configuration waits (`FeedRule`);
and a viewer that waits has its request, or the keyframe, somewhere between the two
(`RequestOnItsWay`, with `CtlRule` for the control messages). The last is the part the
keyframe protocol stands on, as a request that is lost would leave the viewer dark.

**AdaptersProofs.** `RemoteInputIsKnown` states `HeldInputIsKnown` for the adapters in
every order of controllers (the run takes them in one order only). `InputInv` adds to the
three properties what makes them inductive. A down event overwrites the binding of its
press, so a press must wait to go down once and be unbound until then (`PressRule`). The
keys in the target's queue are the holder's, a cleanup is the last thing in it and is
there only when nobody is admitted, and without a holder the queue is empty
(`QueueRule`); so no event of a controller that left can be executed after its cleanup.
A bound press is the holder's or was left over, and while the barrier runs everything
bound is left over (`HolderRule`), which is what the next controller finds.
`WindowMeantIsUsed` states `WindowIsTheOneMeant`; its three parts share no variable.
For the launch on Windows (`LaunchInv`), a pid names one living process, and a process
that was alive strictly before and after another's birth and has its parent's pid is
its parent (`ProcsRule`): this is what `valid_birth` compares creation times for, and it
is inductive although parents exit and pids are given out again. `SnapRule` says that
whoever has a link's pid now and is older than the clock reading is the process of the
link; a process born in the same tick as the reading is the case that `<` excludes. The
retained process of a window owner's pid is the owner because both live (`ConfirmKeeps`).
For calls on marked windows (`CallsInv`), a mark is the number of the window that carries
it (`MarkInv`), and a call past its focus holds the lock (`CallRule`), so another call
cannot have taken the foreground from it.
For macOS (`MacInv`), `RefsRule` says at each place which references the call holds,
`TouchRule` that what it borrowed is the window of its id, `CloseRule` that only a close
that has seen the window gone says ok. `BestChild` is a recursive function, for which the
library's induction theorems cannot be used; `BestIsLargest` is proved by taking the
least prefix on which it would be wrong (`LeastNumber`, from the well-foundedness of the
natural numbers, which is a theorem about sets).
`KWinTellsTheTruth` states `KWinAnswersTrue`. In the command bridge (`KWinInv`) a command is
in one place at a time: queued once and then still waited for (`WaitingRule`), in the hand of one
script (`HandRule`), carried out (`RanRule`), or reported, on the bus (`BusRule`) or in the map of
completions (`DoneRule`). That is what keeps a second script from carrying it out again, and what an
`ok` stands for. `FreshInv` orders the bus: as long as no message overtook another, a
completed refresh comes after the snapshot it asked for (`PublishedRule`, `AnsweredRule`).
For the portals (`PortalInv`) a call that starts a session holds the lock, and each session there is
is cached, about to be closed or held by one call. For the launch (`KWinLaunchInv`) the tree that
`ps` shows is that of the launch as long as no pid was given out twice, and what was known before
was open before. For the screenshot, `WholePicture` follows each pixel from its four bytes
at row times stride to its place in the answer, for every stride and both orders of the channels.
`NothingStale` states `NothingStaleIsUsed`; it needs `CallsInv`, `FreshInv`, that the window a
screenshot drew is no older than its surface (`TookInv`), and that an input plan of the
portal moves the pointer before it presses (`InTurn`).

**ClientsProofs.** `InboxSafe` states `InboxDecidesOnce`. The loop may decide again
once it took an update that counts the last outcome, and the counter is compared for
equality only, so one bit of it is kept. `CountInv` follows that bit: while a decision is
under way the task and the loop agree on it, and an update on its way with the loop's own
bit ends no wait. `CleanInv` says which of the three snapshots (the task's, the one in the
watch channel, the loop's) were read after the last answer; an answer makes all of them
suspect at once, and each is either behind the new bit or replaced before it is shown.
What keeps a clean snapshot clean is `RecordInv`: the daemon never takes a decision back,
so what was answered is decided and its grant gone for good. `ChoiceInv` ties the loop's
durations and the open detail to what the operator chose, `UpdateInv` the subscription to
the snapshot read after it.
`HandoffSafe`, by `HandoffInv`: the promise together with
`MemoryInv` (what the helper believes agrees with the journal: a pending entry is
unresolved, and an attempt that is committed has one), `FreshInv` (an attempt whose
worker was not started has left no trace), `ActiveInv` (while an attempt runs only its
own worker may transfer, and only once it is committed) and `ReplyInv` (a success that
was reported is one). `ActiveInv` and `MemoryInv` are what make "one transfer at a time"
inductive: a new attempt begins only when the journal says that nothing is unresolved,
and an unresolved one is what a worker that may still act leaves behind.
`CommandsAreTrue` states `CommandsTellTruth`; the commands share no variable, and each has an
invariant of its own. A `stable` wait knows since when the samples were alike (`SamplesRule`);
without it the time-out could not be called fair. Proving that showed that a window of no length
is an exception (`TimeoutIsFair` now states it). A recording's frames and lapped frames add up to the
cursor at every place (`ReadRule`), its deadline is set once (`DeadlineRule`), and an open session is one
the recorder will close or has a reason not to (`SessionRule`). In an onboarding every permission
is confirmed, missing or still to do (`TodoRule`), a process that started after Enter denies nothing
that had been granted by then (`TrustRule`), and a process about to be prompted has opened no dialog
(`DialogRule`). For the installer, what is copied from is whole and not what is written to, past the
guard (`InstallRule`).
`EndsMeet` states all of `EndsAgree` but `EstimateWithinGoodRoundTrip`. A starting daemon
without a rival is up while no other one starts (`AloneRule`), so what it saw at its paths is still so
when it acts on it (`FileRule`). The stamps of a clock exchange are ordered in both clocks at every
place it passes (`ClockInv`), from which half the round trip bounds the error of a sample.

**Only model-checked.** All liveness properties (the prover does not handle fairness),
`ResolutionAnnouncedOnce` (it counts with `SelectSeq`, a recursive definition), the
action part of `StreamsEnd` (it is conjoined with liveness), and `EstimateWithinGoodRoundTrip`
in `EndsAgree`. That one is a fold over a set, which would need induction over a set's choice function;
and it is not so for every window: the weights that a least-squares line gives to its samples add
up to at most 2 for the windows explored, but with ten samples or more at very uneven times to more
(2.06 for ten), so errors that are all as large as the round trips allow could then exceed the
bound. The code keeps 64 samples, a second apart, for which regular times give less than 5/3.

## 6. What is not modelled

Serialised types, argument parsing, key tables, error codes, the drawing of the inbox
and of the helpers' windows, bundle building and the set-up of KWin are sequential or
have no state. Encoders, pixels on the GPU, movie files, D-Bus, XPC, PipeWire, the
portals, tscon and the jackstay crates are outside the repository and appear as the code
uses them. Within the modelled parts, frame geometry, token hashing, the app and
frontmost selectors (which no route can request), the wording of errors, the placement
arithmetic and the fit of clock drift are left out. The macOS helper's supervisor only
starts the daemon again.

## 7. What is left

1. Abstract specifications of the handle store and of a capture session's status as a
   client sees it, with Surfaces and CaptureSessions shown to implement them.
2. The rectangle arithmetic of placement as operators against a reference definition.
