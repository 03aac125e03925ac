---------------------------- MODULE Publications ----------------------------
(***************************************************************************)
(* A publication carried to another host: the export of a native capture   *)
(* session (portholed's export_registry.rs and routes/publications.rs),    *)
(* the bridge halves as threads (jackstay-bridge task.rs, run_scope.rs),   *)
(* as child processes (worker.rs, bin/jackstay-bridge.rs) and as launchd   *)
(* jobs (launchd.rs), the republication on the viewer's host, and          *)
(* `porthole attach` (commands/publications.rs), which drives both daemons *)
(* over an SSH forward.                                                    *)
(*                                                                         *)
(* The remote daemon captures and exports, the local one republishes.  An  *)
(* HTTP create runs on a blocking thread that goes on when its client is   *)
(* gone, so a creation is a job of its half, with the client it answers.   *)
(* Frames, codecs, tokens and socket paths are left out.                   *)
(***************************************************************************)
EXTENDS Naturals, FiniteSets

CONSTANTS
  Exports,      \* export ids
  Reps,         \* republication ids
  Executions,   \* BridgeExecution values the clients ask for
  None

Halves == Exports \union Reps

ASSUME PublicationsAssumption ==
  /\ Exports \intersect Reps = {}
  /\ Executions \subseteq {"task", "worker"} /\ Executions # {}
  /\ None \notin Halves

VARIABLES
  session,  \* the native capture session on the remote host
  granted,  \* an operator approved what the attach asked for
  job,      \* the request and the registry record of a half
  half,     \* the half itself: a thread, a child or a launchd job
  link,     \* the ssh processes of the attach, and who is connected
  cli       \* porthole attach: where it is and what it has created

vars == <<session, granted, job, half, link, cli>>

\* A record is inserted ("in") when the create request is done with it, and
\* taken out of the map ("cancel", "stop") before its half is stopped.
JobStates == {"none", "auth", "make", "wait", "in", "cancel", "stop", "gone", "failed"}
\* "over": run() has returned; "gone": the thread or the process is.
RunStates == {"none", "spawn", "media", "listen", "linked", "running", "over", "gone"}
Alive(h) == half[h].run \notin {"none", "gone"}

NewHalf(e) == [exe |-> e, run |-> "spawn", stop |-> FALSE, cancelled |-> FALSE, cause |-> "none",
               said |-> "starting", heard |-> "starting", up |-> FALSE, outcome |-> "none"]
NoHalf == [NewHalf("task") EXCEPT !.run = "none"]
NoJob == [at |-> "none", for |-> "nobody", dir |-> FALSE, executor |-> FALSE, stuck |-> FALSE]

TypeOK ==
  /\ session \in {"none", "live", "closed"}
  /\ granted \in BOOLEAN
  /\ job \in [Halves -> [at: JobStates, for: {"nobody", "api", "attach", "dropped"},
                         dir: BOOLEAN, executor: BOOLEAN, stuck: BOOLEAN]]
  /\ half \in [Halves ->
       [exe: {"task", "worker"}, run: RunStates, stop: BOOLEAN, cancelled: BOOLEAN,
        cause: {"none", "stop", "other"},
        said: {"starting", "listening", "running", "ended"},
        heard: {"starting", "listening", "running", "ended"}, up: BOOLEAN,
        outcome: {"none", "report", "failed", "killed"}]]
  /\ link \in [control: {"off", "up", "down"}, media: {"off", "up", "down"},
               peers: SUBSET (Exports \X Reps)]
  /\ cli \in [at: {"search", "session", "export", "posted", "forward", "republish", "publish",
                   "hold", "unrep", "unexport", "unsession", "undo", "undosession",
                   "done", "failed", "killed"},
              session: BOOLEAN, export: Exports \union {None}, rep: Reps \union {None},
              lost: BOOLEAN]

Init ==
  /\ session = "none"
  /\ granted = FALSE
  /\ job = [h \in Halves |-> NoJob]
  /\ half = [h \in Halves |-> NoHalf]
  /\ link = [control |-> "off", media |-> "off", peers |-> {}]
  /\ cli = [at |-> "search", session |-> FALSE, export |-> None, rep |-> None, lost |-> FALSE]

-----------------------------------------------------------------------------
(* What a coordinator reads of a half.                                     *)

\* Mutant of Say: a half that failed ends in a phase of its own.
SayFailed(r, p) ==
  LET q == IF r.outcome = "failed" THEN "failed" ELSE p
  IN [r EXCEPT !.said = q, !.heard = IF r.exe = "task" THEN q ELSE @]

\* A task updates its status itself; what a process prints is read later.
Say(r, p) == [r EXCEPT !.said = p, !.heard = IF r.exe = "task" THEN p ELSE @]

\* The reader thread of a child applies the next lines; a launchd job's
\* stdout file is read by the next status call.
ReadStatus(h) ==
  /\ half[h].heard # half[h].said
  /\ half' = [half EXCEPT ![h].heard = half[h].said]
  /\ UNCHANGED <<session, granted, job, link, cli>>

Peers(h) == {p \in Halves : <<h, p>> \in link.peers \/ <<p, h>> \in link.peers}
\* The link of a half is down when its forward is or when the other half ended.
Cut(h) == link.media # "up" \/ \E p \in Peers(h) : half[p].run \in {"over", "gone"}

-----------------------------------------------------------------------------
(* POST /publications/{id}/exports and the egress half.                    *)

\* The route checks session, owner and native first; input needs Drive.
PostExport(x, who, e, input) ==
  /\ job[x].at = "none"
  /\ session # "none"
  /\ job' = [job EXCEPT ![x] = [NoJob EXCEPT !.at = IF input THEN "auth" ELSE "make",
                                             !.for = who, !.executor = input]]
  /\ half' = [half EXCEPT ![x] = [NoHalf EXCEPT !.exe = e]]

ApiExport(x, e, input) ==
  /\ PostExport(x, "api", e, input)
  /\ UNCHANGED <<session, granted, link, cli>>

\* authorize_surface_actions: Drive is granted, or the request is refused.
AuthorizeExport(x) ==
  /\ job[x].at = "auth"
  /\ job' = [job EXCEPT ![x].at = IF granted THEN "make" ELSE "failed"]
  /\ UNCHANGED <<session, granted, half, link, cli>>

\* A client goes away: the handler is dropped at its await, the blocking
\* thread goes on and inserts a record nobody has the id of.
DropClient(h) ==
  /\ job[h].for = "api" /\ job[h].at \in {"auth", "make", "wait"}
  /\ job' = [job EXCEPT ![h] = [@ EXCEPT !.for = "dropped",
                                         !.at = IF job[h].at = "auth" THEN "failed" ELSE job[h].at]]
  /\ UNCHANGED <<session, granted, half, link, cli>>

\* RuntimeDirectory, executor, then the half.  A task binds both sockets
\* before its thread starts; a child binds them itself.
StartExport(x) ==
  /\ job[x].at = "make"
  /\ job' = [job EXCEPT ![x] = [@ EXCEPT !.at = "wait", !.dir = TRUE]]
  /\ half' = [half EXCEPT ![x] =
       IF half[x].exe = "task" THEN Say([NewHalf("task") EXCEPT !.run = "listen"], "listening")
       ELSE NewHalf("worker")]
  /\ UNCHANGED <<session, granted, link, cli>>

\* No bridge binary, a bind or a spawn that fails: the guards drop what was
\* made so far and the request is answered with the error.
StartExportFails(x) ==
  /\ job[x].at = "make"
  /\ job' = [job EXCEPT ![x] = [@ EXCEPT !.at = "failed", !.executor = FALSE]]
  /\ UNCHANGED <<session, granted, half, link, cli>>

\* wait_ready returns on Listening or later or on its timeout; the record is
\* inserted in every case.
InsertExport(x) ==
  /\ job[x].at = "wait"
  /\ job' = [job EXCEPT ![x].at = "in"]
  /\ UNCHANGED <<session, granted, half, link, cli>>

\* bind: a child binds the media socket and then the control socket; it says
\* Listening after the first.
Bind(x) ==
  /\ half[x].exe = "worker" /\ half[x].run \in {"spawn", "media"}
  /\ half' = [half EXCEPT ![x] =
       Say([@ EXCEPT !.run = IF half[x].run = "spawn" THEN "media" ELSE "listen"], "listening")]
  /\ UNCHANGED <<session, granted, job, link, cli>>

\* Attach to the publication, hello, decision: on_ready reports Running.
EgressReady(x) ==
  /\ half[x].run = "linked" /\ ~half[x].stop /\ ~Cut(x)
  /\ session = "live"
  /\ half' = [half EXCEPT ![x] = Say([@ EXCEPT !.run = "running"], "running")]
  /\ UNCHANGED <<session, granted, job, link, cli>>

-----------------------------------------------------------------------------
(* POST /publications/republish and the ingress half.                      *)

\* republish: a task, or a launchd job; the sockets directory is for input.
PostRepublish(r, who, e, dir) ==
  /\ job[r].at = "none"
  /\ job' = [job EXCEPT ![r] = [NoJob EXCEPT !.at = "make", !.for = who, !.dir = dir]]
  /\ half' = [half EXCEPT ![r] = [NoHalf EXCEPT !.exe = e]]

StartRepublish(r) ==
  /\ job[r].at = "make"
  /\ job' = [job EXCEPT ![r].at = "wait"]
  /\ half' = [half EXCEPT ![r] = NewHalf(half[r].exe)]
  /\ UNCHANGED <<session, granted, link, cli>>

\* launchctl bootstrap or the thread fails; the directory guard is dropped.
StartRepublishFails(r) ==
  /\ job[r].at = "make"
  /\ job' = [job EXCEPT ![r] = [@ EXCEPT !.at = "failed", !.dir = FALSE]]
  /\ UNCHANGED <<session, granted, half, link, cli>>

\* UnixStream::connect on the forwarded sockets.  With both sockets bound the
\* egress accepts the pair; with only media bound the control channel is
\* refused and the ingress finds its link closed.
Connect(r, x) ==
  /\ half[r].run = "spawn" /\ ~half[r].stop
  /\ link.media = "up" /\ cli.export = x
  /\ \/ /\ half[x].run = "listen" /\ ~half[x].stop
        /\ half' = [half EXCEPT ![r].run = "linked", ![x].run = "linked"]
        /\ link' = [link EXCEPT !.peers = @ \union {<<x, r>>}]
     \/ /\ half[x].run \in {"none", "spawn", "media", "over", "gone"}
        /\ half' = [half EXCEPT ![r] = [@ EXCEPT !.run = "over", !.cause = "other", !.outcome = "failed"]]
        /\ UNCHANGED link
  /\ UNCHANGED <<session, granted, job, cli>>

\* The forward is not there: connect fails before the half has said anything.
ConnectFails(r) ==
  /\ half[r].run = "spawn" /\ ~half[r].stop /\ link.media # "up"
  /\ half' = [half EXCEPT ![r] = [@ EXCEPT !.run = "over", !.cause = "other", !.outcome = "failed"]]
  /\ UNCHANGED <<session, granted, job, link, cli>>

\* The first codec configuration makes the publication: PublicationUp.
PublicationUp(r) ==
  /\ half[r].run = "linked" /\ ~half[r].stop /\ ~Cut(r)
  /\ \E x \in Peers(r) : half[x].run = "running"
  /\ half' = [half EXCEPT ![r] = Say([@ EXCEPT !.run = "running", !.up = TRUE], "running")]
  /\ UNCHANGED <<session, granted, job, link, cli>>

\* The status names a publication, also when the half has ended since.
Published(r) == half[r].up /\ half[r].heard \in {"running", "ended"}

\* Mutant of InsertRepublication: the wait's timeout counts as success.
InsertTimedOut(r) ==
  /\ job[r].at = "wait"
  /\ job' = [job EXCEPT ![r].at = "in"]
  /\ UNCHANGED <<session, granted, half, link, cli>>

\* wait_for_publication sees the publication: the record is inserted.
InsertRepublication(r) ==
  /\ job[r].at = "wait" /\ Published(r)
  /\ job' = [job EXCEPT ![r].at = "in"]
  /\ UNCHANGED <<session, granted, half, link, cli>>

\* Mutant of RepublishGivesUp: the error is answered, the half left running.
RepublishForgets(r) ==
  /\ job[r].at = "wait" /\ ~Published(r)
  /\ job' = [job EXCEPT ![r] = [@ EXCEPT !.at = "failed", !.dir = FALSE]]
  /\ UNCHANGED <<session, granted, half, link, cli>>

\* The half ended, or 20 s passed without a publication: stop it, then fail.
RepublishGivesUp(r) ==
  /\ job[r].at = "wait" /\ ~Published(r)
  /\ job' = [job EXCEPT ![r].at = "cancel"]
  /\ UNCHANGED <<session, granted, half, link, cli>>

-----------------------------------------------------------------------------
(* Stopping a half: DELETE of an export or republication, or a failed one. *)

\* close_export, close_republication: the record leaves the map under the
\* lock, the half is stopped outside it.
CloseRecord(h) ==
  /\ job[h].at = "in"
  /\ job' = [job EXCEPT ![h].at = "cancel"]

ApiClose(h) ==
  /\ CloseRecord(h)
  /\ job[h].for \in {"api", "attach"}
  /\ UNCHANGED <<session, granted, half, link, cli>>

\* Mutant of CancelHalf: the stop flag is raised before the cancelled flag.
CancelLate(h) ==
  /\ job[h].at = "cancel"
  /\ half' = [half EXCEPT ![h].stop = TRUE]
  /\ job' = [job EXCEPT ![h].at = "stop"]
  /\ UNCHANGED <<session, granted, link, cli>>

\* Task::stop marks the half cancelled first.  A child or a launchd job gets
\* SIGTERM, which ends it at once until it installs its handler after the
\* link is up.  A bootout that fails leaves the job to launchd: it counts as
\* stopped and is not booted out again.
CancelHalf(h) ==
  /\ job[h].at = "cancel"
  /\ \/ /\ half[h].exe = "task"
        /\ half' = [half EXCEPT ![h].cancelled = TRUE]
        /\ job' = [job EXCEPT ![h].at = "stop"]
     \/ /\ half[h].exe = "worker"
        /\ half' = [half EXCEPT ![h] =
             IF half[h].run \in {"spawn", "media", "listen"}
             THEN [@ EXCEPT !.run = "gone", !.cause = "stop", !.outcome = "killed"]
             ELSE [@ EXCEPT !.stop = TRUE]]
        /\ job' = [job EXCEPT ![h].at = "stop"]
     \/ /\ half[h].exe = "worker" /\ h \in Reps
        /\ Alive(h)
        /\ job' = [job EXCEPT ![h] = [@ EXCEPT !.at = "gone", !.dir = FALSE, !.stuck = TRUE]]
        /\ UNCHANGED half
  /\ UNCHANGED <<session, granted, link, cli>>

StopTask(h) ==
  /\ job[h].at = "stop" /\ half[h].exe = "task" /\ ~half[h].stop
  /\ half' = [half EXCEPT ![h] = [@ EXCEPT !.stop = TRUE, !.cancelled = TRUE]]
  /\ UNCHANGED <<session, granted, job, link, cli>>

\* A child that has not exited 5 s after SIGTERM is killed.
KillChild(x) ==
  /\ job[x].at = "stop" /\ half[x].exe = "worker"
  /\ Alive(x)
  /\ half' = [half EXCEPT ![x] = [@ EXCEPT !.run = "gone", !.cause = "stop", !.outcome = "killed"]]
  /\ UNCHANGED <<session, granted, job, link, cli>>

\* Mutant of StopReturns: the answer does not wait for the half.
StopReturnsEarly(h) ==
  /\ job[h].at = "stop"
  /\ job' = [job EXCEPT ![h] = [@ EXCEPT !.at = "gone", !.dir = FALSE, !.executor = FALSE]]
  /\ UNCHANGED <<session, granted, half, link, cli>>

\* join or wait returned (bootout does not wait): handle, executor and
\* directory are dropped in that order, and DELETE answers.
StopReturns(h) ==
  /\ job[h].at = "stop"
  /\ half[h].run = "gone" \/ (half[h].exe = "worker" /\ h \in Reps)
  /\ job' = [job EXCEPT ![h] = [@ EXCEPT !.at = "gone", !.dir = FALSE, !.executor = FALSE]]
  /\ UNCHANGED <<session, granted, half, link, cli>>

-----------------------------------------------------------------------------
(* How a half ends.                                                        *)

Over(h, cause, outcome) ==
  half' = [half EXCEPT ![h] = [@ EXCEPT !.run = "over", !.cause = cause, !.outcome = outcome]]

\* Mutant of Interrupted: a blocked accept does not look at the stop flag.
InterruptedOnLink(h) ==
  /\ half[h].stop /\ half[h].run \in {"linked", "running"}
  /\ Over(h, "stop", IF half[h].run = "running" THEN "report" ELSE "failed")
  /\ UNCHANGED <<session, granted, job, link, cli>>

\* The stop flag ends accept and the connect; the watcher of RunScope shuts
\* the sockets, so that a hello in progress ends with an error.
Interrupted(h) ==
  /\ half[h].stop /\ half[h].run \in {"spawn", "listen", "linked", "running"}
  /\ Over(h, "stop", IF half[h].run = "running" THEN "report" ELSE "failed")
  /\ UNCHANGED <<session, granted, job, link, cli>>

\* Mutant of LinkLost: the ingress does not notice the end of its link.
LinkLostAtEgress(h) ==
  /\ h \in Exports /\ half[h].run \in {"linked", "running"} /\ Cut(h)
  /\ Over(h, "other", IF half[h].run = "running" THEN "report" ELSE "failed")
  /\ UNCHANGED <<session, granted, job, link, cli>>

\* The other end or the forward is gone: a running half reports, one that
\* waits for the hello fails.
LinkLost(h) ==
  /\ half[h].run \in {"linked", "running"} /\ Cut(h)
  /\ Over(h, "other", IF half[h].run = "running" THEN "report" ELSE "failed")
  /\ UNCHANGED <<session, granted, job, link, cli>>

\* Hello, token, decision or the source's attach fails.
HalfFails(h) ==
  /\ half[h].run = "linked"
  /\ Over(h, "other", "failed")
  /\ UNCHANGED <<session, granted, job, link, cli>>

\* Mutant of SourceClosed: the acquisition loop only looks at its link.
SourceClosedUnseen(x) ==
  /\ half[x].run = "running" /\ session = "closed" /\ Cut(x)
  /\ Over(x, "other", "report")
  /\ UNCHANGED <<session, granted, job, link, cli>>

\* The capture session closed: the acquisition loop sees Closed.
SourceClosed(x) ==
  /\ half[x].run = "running" /\ session = "closed"
  /\ Over(x, "other", "report")
  /\ UNCHANGED <<session, granted, job, link, cli>>

\* The end of the thread: phase Ended, with the report, or with the failure
\* unless the task was cancelled.  A process prints its report or failure.
HalfExits(h) ==
  /\ half[h].run = "over"
  /\ half' = [half EXCEPT ![h] =
       Say([@ EXCEPT !.run = "gone",
                     !.outcome = IF half[h].exe = "task" /\ half[h].outcome = "failed" /\ half[h].cancelled
                                 THEN "none" ELSE half[h].outcome], "ended")]
  /\ UNCHANGED <<session, granted, job, link, cli>>

-----------------------------------------------------------------------------
(* porthole attach.                                                        *)

Approve ==
  /\ ~granted /\ granted' = TRUE
  /\ UNCHANGED <<session, job, half, link, cli>>

\* An error of attach_inner, with what it knows of: RemoteState::close.
Undo == IF cli.export # None THEN "undo" ELSE IF cli.session THEN "undosession" ELSE "failed"

\* The forward to the daemon, then search and track under with_remote_approval,
\* which asks again while an operator has to approve.
SearchRemote ==
  /\ cli.at = "search" /\ granted
  /\ link' = [link EXCEPT !.control = "up"]
  /\ cli' = [cli EXCEPT !.at = "session"]
  /\ UNCHANGED <<session, granted, job, half>>

\* Nothing or several match, the deadline of 90 s passes, or ssh fails.
SearchFails ==
  /\ cli.at = "search"
  /\ cli' = [cli EXCEPT !.at = "failed"]
  /\ UNCHANGED <<session, granted, job, half, link>>

CreateRemoteSession ==
  /\ cli.at = "session" /\ link.control = "up" /\ session = "none"
  /\ session' = "live"
  /\ cli' = [cli EXCEPT !.at = "export", !.session = TRUE]
  /\ UNCHANGED <<granted, job, half, link>>

ExportRemote(x, e, input) ==
  /\ cli.at = "export" /\ link.control = "up"
  /\ PostExport(x, "attach", e, input)
  /\ cli' = [cli EXCEPT !.at = "posted"]
  /\ UNCHANGED <<session, granted, link>>

\* The export's answer: its id, or an error.
ExportAnswered(x) ==
  /\ cli.at = "posted" /\ link.control = "up" /\ job[x].for = "attach"
  /\ \/ job[x].at \in {"in", "cancel", "stop", "gone"}
        /\ cli' = [cli EXCEPT !.at = "forward", !.export = x]
     \/ job[x].at = "failed" /\ cli' = [cli EXCEPT !.at = Undo]
  /\ UNCHANGED <<session, granted, job, half, link>>

\* The control forward dies: a call in flight returns an error, and what it
\* created is not known to the attach.
ControlDown ==
  /\ link.control = "up"
  /\ link' = [link EXCEPT !.control = "down"]
  /\ cli' = [cli EXCEPT !.lost = TRUE]
  /\ UNCHANGED <<session, granted, job, half>>

CallFails ==
  /\ cli.at \in {"session", "export", "posted"} /\ link.control = "down"
  /\ cli' = [cli EXCEPT !.at = Undo]
  /\ UNCHANGED <<session, granted, job, half, link>>

StartForward ==
  /\ cli.at = "forward"
  /\ link' = [link EXCEPT !.media = "up"]
  /\ cli' = [cli EXCEPT !.at = "republish"]
  /\ UNCHANGED <<session, granted, job, half>>

\* The local sockets do not appear within 15 s.
StartForwardFails ==
  /\ cli.at = "forward"
  /\ cli' = [cli EXCEPT !.at = Undo]
  /\ UNCHANGED <<session, granted, job, half, link>>

\* Both halves run under the execution the attach asked for.
RepublishLocal(r, dir) ==
  /\ cli.at = "republish"
  /\ PostRepublish(r, "attach", half[cli.export].exe, dir)
  /\ cli' = [cli EXCEPT !.at = "publish", !.rep = r]
  /\ UNCHANGED <<session, granted, link>>

\* The republication is up: hold until interrupted, or leave it; or the error
\* of a failed republish, which ends the media forward with attach_inner.
RepublishAnswered(r) ==
  /\ cli.at = "publish" /\ cli.rep = r
  /\ \/ /\ job[r].at = "in" /\ cli' = [cli EXCEPT !.at = "hold"]
        /\ UNCHANGED link
     \/ /\ job[r].at \in {"failed", "gone"} /\ cli' = [cli EXCEPT !.at = Undo]
        /\ link' = [link EXCEPT !.media = "down"]
  /\ UNCHANGED <<session, granted, job, half>>

\* Without --hold the forwards end with the command; ids are left to manage.
LeaveRunning ==
  /\ cli.at = "hold"
  /\ cli' = [cli EXCEPT !.at = "done", !.session = FALSE, !.export = None]
  /\ link' = [link EXCEPT !.media = "down", !.control = "down"]
  /\ UNCHANGED <<session, granted, job, half>>

Interrupt ==
  /\ cli.at = "hold"
  /\ cli' = [cli EXCEPT !.at = "unrep"]
  /\ UNCHANGED <<session, granted, job, half, link>>

\* Mutant of CloseRepublication: an error of the first DELETE ends nothing.
CloseRepublicationStrict ==
  /\ cli.at = "unrep"
  /\ \/ /\ CloseRecord(cli.rep)
        /\ UNCHANGED cli
     \/ /\ job[cli.rep].at = "gone" /\ ~job[cli.rep].stuck
        /\ cli' = [cli EXCEPT !.at = "unexport"]
        /\ UNCHANGED job
  /\ UNCHANGED <<session, granted, half, link>>

\* The three DELETEs after an interrupt; their errors are ignored.
CloseRepublication ==
  /\ cli.at = "unrep"
  /\ \/ /\ CloseRecord(cli.rep)
        /\ UNCHANGED cli
     \/ /\ job[cli.rep].at \in {"gone", "failed"}
        /\ cli' = [cli EXCEPT !.at = "unexport"]
        /\ UNCHANGED job
  /\ UNCHANGED <<session, granted, half, link>>

\* Mutant of CloseExport: the export is left when the first call of the
\* clean-up is for the session.
SkipExport ==
  /\ cli.at \in {"unexport", "undo"}
  /\ cli' = [cli EXCEPT !.at = IF cli.at = "undo" THEN "undosession" ELSE "unsession"]
  /\ UNCHANGED <<session, granted, job, half, link>>

\* DELETE of the export, at the end and when undoing; through the forward.
CloseExport ==
  /\ cli.at \in {"unexport", "undo"}
  /\ \/ /\ link.control = "up" /\ CloseRecord(cli.export)
        /\ UNCHANGED cli
     \/ /\ link.control = "down" \/ job[cli.export].at \in {"gone", "failed"}
        /\ cli' = [cli EXCEPT !.at = IF cli.at = "undo" THEN "undosession" ELSE "unsession"]
        /\ UNCHANGED job
  /\ UNCHANGED <<session, granted, half, link>>

CloseSession ==
  /\ cli.at \in {"unsession", "undosession"}
  /\ session' = IF link.control = "up" THEN "closed" ELSE session
  /\ cli' = [cli EXCEPT !.at = IF cli.at = "undosession" THEN "failed" ELSE "done"]
  /\ link' = [link EXCEPT !.media = IF @ = "up" THEN "down" ELSE @, !.control = "down"]
  /\ UNCHANGED <<granted, job, half>>

\* Until the hold nothing listens for the interrupt: it ends the process, and
\* with it the forwards.
KillAttach ==
  /\ cli.at \notin {"search", "hold", "done", "failed", "killed"}
  /\ cli' = [cli EXCEPT !.at = "killed"]
  /\ link' = [link EXCEPT !.media = IF @ = "up" THEN "down" ELSE @, !.control = "down"]
  /\ UNCHANGED <<session, granted, job, half>>

\* The window closes or the owner deletes the session at any time.
SessionEnds ==
  /\ session = "live"
  /\ session' = "closed"
  /\ UNCHANGED <<granted, job, half, link, cli>>

-----------------------------------------------------------------------------
HalfStep(h) ==
  \/ ReadStatus(h) \/ DropClient(h) \/ ApiClose(h) \/ CancelHalf(h) \/ StopTask(h)
  \/ StopReturns(h) \/ Interrupted(h) \/ LinkLost(h) \/ HalfFails(h) \/ HalfExits(h)

ExportStep(x) ==
  \/ \E e \in Executions, i \in BOOLEAN : ApiExport(x, e, i) \/ ExportRemote(x, e, i)
  \/ AuthorizeExport(x) \/ StartExport(x) \/ StartExportFails(x) \/ InsertExport(x)
  \/ Bind(x) \/ EgressReady(x) \/ KillChild(x) \/ SourceClosed(x) \/ ExportAnswered(x)

RepStep(r) ==
  \/ \E d \in BOOLEAN : RepublishLocal(r, d)
  \/ StartRepublish(r) \/ StartRepublishFails(r) \/ ConnectFails(r) \/ PublicationUp(r)
  \/ InsertRepublication(r) \/ RepublishGivesUp(r) \/ RepublishAnswered(r)
  \/ \E x \in Exports : Connect(r, x)

AttachStep ==
  \/ SearchRemote \/ SearchFails \/ CreateRemoteSession \/ ControlDown \/ CallFails
  \/ StartForward \/ StartForwardFails \/ LeaveRunning \/ Interrupt
  \/ CloseRepublication \/ CloseExport \/ CloseSession \/ KillAttach

Next ==
  \/ \E h \in Halves : HalfStep(h)
  \/ \E x \in Exports : ExportStep(x)
  \/ \E r \in Reps : RepStep(r)
  \/ AttachStep \/ Approve \/ SessionEnds

Spec == Init /\ [][Next]_vars

\* What a thread of the daemon or of a half does as soon as it can: blocking
\* creates and stops run to their end, watchers poll, readers read.
Work(h) ==
  \/ ReadStatus(h) \/ CancelHalf(h) \/ StopTask(h) \/ StopReturns(h)
  \/ Interrupted(h) \/ LinkLost(h) \/ HalfExits(h)
  \/ h \in Exports /\ (AuthorizeExport(h) \/ StartExport(h) \/ InsertExport(h)
                       \/ Bind(h) \/ SourceClosed(h) \/ ExportAnswered(h))
  \/ h \in Reps /\ (StartRepublish(h) \/ InsertRepublication(h) \/ RepublishGivesUp(h)
                    \/ RepublishAnswered(h))
CleanUp == CloseRepublication \/ CloseExport \/ CloseSession
Fairness == (\A h \in Halves : WF_vars(Work(h))) /\ WF_vars(CleanUp)
FairSpec == Spec /\ Fairness

-----------------------------------------------------------------------------
(* Properties.                                                             *)

\* A half that runs belongs to somebody: a request that is creating it, the
\* registry, or a stop in progress.  A failed republish and a dropped client
\* leave no half behind that no DELETE can reach (but for a launchd job whose
\* bootout failed, and one that is on its way out).
NoOrphanHalf ==
  \A h \in Halves :
    Alive(h) => job[h].at \in {"wait", "in", "cancel", "stop"} \/ job[h].stuck \/ half[h].stop

\* When DELETE has answered for an export, its half has ended and its
\* directory and input executor are gone: nothing of it drives the surface.
ClosedIsGone ==
  \A x \in Exports : job[x].at = "gone" => ~Alive(x) /\ ~job[x].dir /\ ~job[x].executor

\* A task that ends because it was stopped is not reported as failed: the
\* cancelled flag is up before the stop flag, whichever the thread reads when.
StoppedIsNotFailed ==
  \A h \in Halves :
    half[h].exe = "task" /\ half[h].run = "gone" /\ half[h].cause = "stop" => half[h].outcome # "failed"

\* A republication that was answered did exist: its half had connected to an
\* export that ran, and no failed republish leaves its directory behind.
AnsweredWasUp ==
  \A r \in Reps :
    /\ job[r].at = "in" => Peers(r) # {} /\ half[r].up
    /\ job[r].at \in {"failed", "gone"} => ~job[r].dir

\* An attach that fails has closed what it created on the remote host, unless
\* its forward broke on the way.
FailedAttachCleansUp ==
  cli.at = "failed" /\ ~cli.lost =>
    /\ session # "live"
    /\ \A x \in Exports : job[x].for = "attach" => job[x].at \in {"none", "failed", "gone"}

\* Every DELETE and every give-up comes to an end: stop() interrupts a half
\* that waits for a peer, for a hello or on the link.
StopAnswers ==
  \A h \in Halves : (job[h].at = "cancel") ~> (job[h].at = "gone")

\* When one half ends, or the forward or the session does, the other half does
\* not stay behind with a dead link.
LinkedEndTogether ==
  \A x \in Exports, r \in Reps :
    (<<x, r>> \in link.peers /\ (half[x].run = "gone" \/ half[r].run = "gone"))
      ~> (half[x].run = "gone" /\ half[r].run = "gone")

\* A running export ends when the publication it carries closes.
RunningExportEnds ==
  \A x \in Exports : (half[x].run = "running" /\ session = "closed") ~> (half[x].run = "gone")

\* An interrupted attach that holds gets through its clean-up.
InterruptFinishes == (cli.at = "unrep") ~> (cli.at \in {"done", "killed"})

\* Neither half of a bridge outlives the record that names it, what was deleted is gone,
\* and an attach that fails takes back what it made on both sides.
NothingLeaks == TypeOK /\ NoOrphanHalf /\ ClosedIsGone /\ FailedAttachCleansUp

\* The statuses are true: what was stopped on request is not told as a failure, and a
\* create is answered only about a half that came up.
StatusTellsTruth == StoppedIsNotFailed /\ AnsweredWasUp

\* What must end ends: a stop is answered, linked halves end together, an export ends
\* with its capture session, and an interrupted attach finishes its clean-up.
PublicationsEnd == StopAnswers /\ LinkedEndTogether /\ RunningExportEnds /\ InterruptFinishes
=============================================================================
