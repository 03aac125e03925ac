------------------------------ MODULE Surfaces ------------------------------
(***************************************************************************)
(* Surface handles of the porthole daemon: HandleStore, the launch, attach *)
(* (track), close, replace and auto-dismiss pipelines of porthole-core, and *)
(* the part of the platform adapters they depend on.                       *)
(*                                                                         *)
(* A window of the desktop is named by its platform reference (Refs), never *)
(* reused.  A surface id (Ids) is the daemon's handle for one window.  Each *)
(* request runs as a task (Tasks) whose steps end at the `.await` points of *)
(* the Rust code, so requests interleave exactly where tokio lets them; the *)
(* HandleStore methods hold one lock and are atomic.                       *)
(***************************************************************************)
EXTENDS Naturals, FiniteSets

CONSTANTS
    Ids,        \* surface ids the daemon can mint (bound: one per handle ever made)
    Refs,       \* platform window references (bound: windows ever opened)
    Tasks,      \* request slots (bound: requests and timers in flight)
    Specs,      \* the launch bodies clients send
    Platform,   \* "macos", "kwin" or "windows": the adapter in use
    NoId, NoRef

Confidence == {"strong", "plausible", "weak"}

\* A launch body.  placement: the JSON key is absent; present but empty; names
\* an unknown display; or asks for a rectangle.
LaunchSpec == [kind : {"process", "artifact"}, fresh : BOOLEAN, force : BOOLEAN,
               placement : {"absent", "empty", "unknown", "rect"},
               dismiss : BOOLEAN, confidence : Confidence]

ASSUME ConstantsAssumption ==
    /\ Specs \subseteq LaunchSpec
    /\ Platform \in {"macos", "kwin", "windows"}
    /\ NoId \notin Ids
    /\ NoRef \notin Refs

VARIABLES
    window,     \* [Refs -> "unborn", "shown", "hidden" (minimised, other Space), "gone"]
    hstate,     \* [Ids -> "absent", "alive", "dead", "forgotten" (lost by a restart)]
    href,       \* [Ids -> Refs \cup {NoRef}]: SurfaceInfo.platform_ref of the handle
    pc,         \* [Tasks -> where the request is suspended]
    task        \* [Tasks -> the request, its locals and its reply]

vars == <<window, hstate, href, pc, task>>

PCs == {"idle", "launching", "gating", "placing", "probing", "tracking",
        "snapshotting", "closing", "verifying", "marking", "burying",
        "sleeping", "done"}

\* Where a launch, track or replace request may still mint a handle.
MintingPCs == PCs \ {"idle", "done", "sleeping"}

DefaultSpec == [kind |-> "process", fresh |-> FALSE, force |-> FALSE, placement |-> "absent",
                dismiss |-> FALSE, confidence |-> "weak"]

Blank == [op |-> "none", id |-> NoId, new |-> NoId, ref |-> NoRef, spec |-> DefaultSpec,
          live |-> {}, before |-> {}, pre |-> FALSE, confidence |-> "weak", snapshot |-> FALSE,
          code |-> "none", oldAlive |-> FALSE, placed |-> "none"]

Live  == {w \in Refs : window[w] \in {"shown", "hidden"}}
Shown == {w \in Refs : window[w] = "shown"}

Init ==
    /\ window \in [Refs -> {"unborn", "shown", "hidden"}]
    /\ hstate = [i \in Ids |-> "absent"]
    /\ href = [i \in Ids |-> NoRef]
    /\ pc = [t \in Tasks |-> "idle"]
    /\ task = [t \in Tasks |-> Blank]

-----------------------------------------------------------------------------
(* HandleStore *)

\* Mutant: mints a handle without looking for the window's alive one.
TrackAlwaysMints(w, i) ==
    /\ hstate[i] = "absent"
    /\ hstate' = [hstate EXCEPT ![i] = "alive"]
    /\ href' = [href EXCEPT ![i] = w]

\* Mutant: the lookup ignores the handle's state, so a dead handle is revived.
TrackRevivesDead(w, i) ==
    LET tracked == {j \in Ids : hstate[j] \in {"alive", "dead"} /\ href[j] = w} IN
    IF tracked # {}
    THEN i \in tracked /\ hstate' = [hstate EXCEPT ![i] = "alive"] /\ UNCHANGED href
    ELSE TrackAlwaysMints(w, i)

\* track_or_get: the alive handle of window w, or a new handle i for it.
TrackOrGet(w, i) ==
    LET tracked == {j \in Ids : hstate[j] = "alive" /\ href[j] = w} IN
    IF tracked # {}
    THEN i \in tracked /\ UNCHANGED <<hstate, href>>
    ELSE /\ hstate[i] = "absent"
         /\ hstate' = [hstate EXCEPT ![i] = "alive"]
         /\ href' = [href EXCEPT ![i] = w]

\* mark_dead
MarkDead(i) == hstate' = [hstate EXCEPT ![i] = "dead"] /\ UNCHANGED href

\* Mutant: the state itself is reported as the error code.
StateAsCode(i) == hstate[i]

\* The error require_alive returns for a handle that is not alive.
NotAliveCode(i) == IF hstate[i] = "dead" THEN "SurfaceDead" ELSE "SurfaceNotFound"

\* Bound: a request that may mint a handle starts only while an id is left for it.
CanMint ==
    Cardinality({t \in Tasks : task[t].op \in {"launch", "track", "replace"}
                               /\ pc[t] \in MintingPCs})
        < Cardinality({i \in Ids : hstate[i] = "absent"})

-----------------------------------------------------------------------------
(* Bookkeeping of a request *)

Goto(t, label, r) ==
    /\ pc' = [pc EXCEPT ![t] = label]
    /\ task' = [task EXCEPT ![t] = r]

Reply(t, c) == Goto(t, "done", [task[t] EXCEPT !.code = c])

-----------------------------------------------------------------------------
(* Platform adapters *)

\* Confidence::meets
Meets(c, required) ==
    \/ c = "strong"
    \/ c = "plausible" /\ required \in {"plausible", "weak"}
    \/ c = "weak" /\ required = "weak"

\* Mutant: only on-screen windows are recorded.
OnScreenBefore(kind) == {Shown}

\* The windows the adapter records before it starts the application.  macOS
\* lists every window for a process but only on-screen ones for an artifact;
\* KWin uses the last snapshot its script published, which may be old or missing.
BeforeSets(kind) ==
    CASE Platform = "macos"   -> {IF kind = "process" THEN Live ELSE Shown}
      [] Platform = "kwin"    -> SUBSET Live
      [] Platform = "windows" -> {Live}

\* The confidence with which window w may be correlated to task t's launch.
\* A process launch on macOS and Windows matches the launched pid; temporal
\* (weak) matches, KWin's pid-tree (strong) matches and every Windows match
\* are never windows of the before set.
Correlates(t, w, c) ==
    LET new == w \notin task[t].before
        artifact == task[t].spec.kind = "artifact" IN
    /\ w \in (IF Platform = "kwin" THEN Live ELSE Shown)
    /\ CASE Platform = "macos"   -> IF artifact THEN c = "weak" => new ELSE c = "strong"
         [] Platform = "kwin"    -> ~artifact /\ c # "weak" /\ (c = "strong" => new)
         [] Platform = "windows" -> ~artifact /\ c = "strong" /\ new

\* Whether Adapter::surface_alive may answer that window w is alive.
ProbeSays(w, alive) ==
    IF Platform = "kwin" THEN TRUE ELSE alive = (w \in Live)

\* Mutant: a window that is not on screen counts as closed.
OffScreenIsClosed(w) == window[w] # "shown"

\* What the adapter's close concludes about a window it asked to close: macOS
\* looks at on-screen windows only, Windows at the window itself, KWin reports
\* success as soon as its script delivered the request.
SeemsClosed(w) ==
    CASE Platform = "macos"   -> window[w] # "shown"
      [] Platform = "kwin"    -> TRUE
      [] Platform = "windows" -> window[w] = "gone"

-----------------------------------------------------------------------------
(* POST /launches: LaunchPipeline::launch *)

\* The argument checks of launch, then the adapter call begins.  r is the
\* request with its effective placement.
EnterLaunch(t, r) ==
    IF (r.spec.fresh /\ r.spec.force) \/ r.spec.placement = "unknown"
    THEN Goto(t, "done", [r EXCEPT !.code = "InvalidArgument"])
    ELSE \E b \in BeforeSets(r.spec.kind) :
            Goto(t, "launching", [r EXCEPT !.live = Live, !.before = b])

PostLaunch(t, s) ==
    /\ pc[t] = "idle" /\ CanMint
    /\ EnterLaunch(t, [Blank EXCEPT !.op = "launch", !.spec = s])
    /\ UNCHANGED <<window, hstate, href>>

\* The adapter correlates a window to the launch.
AdapterLaunch(t) ==
    /\ pc[t] = "launching"
    /\ \E w \in Refs, c \in Confidence :
        /\ Correlates(t, w, c)
        /\ Goto(t, "gating", [task[t] EXCEPT !.ref = w, !.confidence = c,
                                             !.pre = w \in task[t].before])
    /\ UNCHANGED <<window, hstate, href>>

\* Spawn failure, ambiguous windows, or no window before the timeout.
AdapterLaunchFails(t) ==
    /\ pc[t] = "launching"
    /\ Reply(t, "LaunchFailed")
    /\ UNCHANGED <<window, hstate, href>>

\* Confidence gate, fresh-surface gate, then track_or_get.
GateAndTrack(t) ==
    LET r == task[t] IN
    /\ pc[t] = "gating"
    /\ UNCHANGED window
    /\ \/ /\ ~Meets(r.confidence, r.spec.confidence)
          /\ Reply(t, "LaunchCorrelationAmbiguous")
          /\ UNCHANGED <<hstate, href>>
       \/ /\ Meets(r.confidence, r.spec.confidence)
          /\ r.spec.fresh /\ r.pre
          /\ Reply(t, "LaunchReturnedExisting")
          /\ UNCHANGED <<hstate, href>>
       \/ /\ Meets(r.confidence, r.spec.confidence)
          /\ ~(r.spec.fresh /\ r.pre)
          /\ \E i \in Ids : TrackOrGet(r.ref, i)
                            /\ Goto(t, "placing", [r EXCEPT !.new = i])

\* Mutant: placement does not ask whether the window was there before.
PlacesAnything(t) ==
    IF task[t].spec.placement # "rect" THEN {"not_requested"}
    ELSE {"failed"} \cup (IF task[t].ref \in Live THEN {"applied"} ELSE {})

\* The placement outcomes a launch may report.
PlacementOutcomes(t) ==
    LET r == task[t] IN
    IF r.spec.placement # "rect" THEN {"not_requested"}
    ELSE IF r.pre /\ ~r.spec.force THEN {"skipped_preexisting"}
    ELSE {"failed"} \cup (IF r.ref \in Live /\ Platform # "windows" THEN {"applied"} ELSE {})

\* Placement, the success reply, and the auto-dismiss timer the route spawns
\* (the slot then runs the timer).
PlaceAndReply(t) ==
    /\ pc[t] = "placing"
    /\ \E o \in PlacementOutcomes(t) :
        Goto(t, IF task[t].spec.dismiss THEN "sleeping" ELSE "done",
                [task[t] EXCEPT !.placed = o, !.code = "ok"])
    /\ UNCHANGED <<window, hstate, href>>

-----------------------------------------------------------------------------
(* POST /surfaces/track: AttachPipeline::track *)

PostTrack(t, w) ==
    /\ pc[t] = "idle" /\ CanMint
    /\ window[w] # "unborn"
    /\ Goto(t, "probing", [Blank EXCEPT !.op = "track", !.ref = w])
    /\ UNCHANGED <<window, hstate, href>>

Probe(t) ==
    /\ pc[t] = "probing"
    /\ \/ ProbeSays(task[t].ref, TRUE) /\ Goto(t, "tracking", task[t])
       \/ ProbeSays(task[t].ref, FALSE) /\ Reply(t, "SurfaceDead")
       \/ Reply(t, "AdapterError")
    /\ UNCHANGED <<window, hstate, href>>

Track(t) ==
    /\ pc[t] = "tracking"
    /\ \E i \in Ids : TrackOrGet(task[t].ref, i)
                      /\ Goto(t, "done", [task[t] EXCEPT !.new = i, !.code = "ok"])
    /\ UNCHANGED window

-----------------------------------------------------------------------------
(* POST /surfaces/{id}/close, POST /surfaces/{id}/replace and the timer *)

\* A client names an id it was once given: nobody can guess a future UUID.
PostClose(t, i) ==
    /\ pc[t] = "idle" /\ hstate[i] # "absent"
    /\ LET r == [Blank EXCEPT !.op = "close", !.id = i] IN
       IF hstate[i] = "alive"
       THEN Goto(t, "closing", r)
       ELSE Goto(t, "done", [r EXCEPT !.code = NotAliveCode(i)])
    /\ UNCHANGED <<window, hstate, href>>

PostReplace(t, i, s) ==
    /\ pc[t] = "idle" /\ CanMint /\ hstate[i] # "absent"
    /\ LET r == [Blank EXCEPT !.op = "replace", !.id = i, !.spec = s] IN
       IF hstate[i] = "alive"
       THEN Goto(t, "snapshotting", r)
       ELSE Goto(t, "done", [r EXCEPT !.code = NotAliveCode(i), !.oldAlive = FALSE])
    /\ UNCHANGED <<window, hstate, href>>

\* snapshot_geometry, best effort; the Windows adapter has none.
SnapshotGeometry(t) ==
    /\ pc[t] = "snapshotting"
    /\ \E ok \in BOOLEAN :
        /\ ok => href[task[t].id] \in Live /\ Platform # "windows"
        /\ Goto(t, "closing", [task[t] EXCEPT !.snapshot = ok])
    /\ UNCHANGED <<window, hstate, href>>

\* Mutant: the timer ends without closing anything.
WakeAndForget(t) ==
    /\ pc[t] = "sleeping"
    /\ Goto(t, "done", [Blank EXCEPT !.op = "dismiss", !.id = task[t].new, !.code = "ok"])
    /\ UNCHANGED <<window, hstate, href>>

\* schedule_auto_dismiss: the sleep ends.
Wake(t) ==
    LET i == task[t].new IN
    /\ pc[t] = "sleeping"
    /\ IF hstate[i] = "alive"
       THEN Goto(t, "closing", [Blank EXCEPT !.op = "dismiss", !.id = i])
       ELSE Goto(t, "done", [Blank EXCEPT !.op = "dismiss", !.id = i, !.code = NotAliveCode(i)])
    /\ UNCHANGED <<window, hstate, href>>

\* What the caller does with an error of Adapter::close: replace reports whether
\* the old handle survived, and marks the handle when the window was already gone.
CloseError(t, c) ==
    IF task[t].op = "replace" /\ c = "SurfaceDead"
    THEN Goto(t, "burying", [task[t] EXCEPT !.code = c, !.oldAlive = FALSE])
    ELSE Goto(t, "done", [task[t] EXCEPT !.code = c, !.oldAlive = (task[t].op = "replace")])

\* Adapter::close finds the window and asks it to close.  A missing window is
\* SurfaceDead, except for KWin where the script's error becomes InternalError.
RequestClose(t) ==
    LET w == href[task[t].id] IN
    /\ pc[t] = "closing"
    /\ \/ w \in Live /\ Goto(t, "verifying", task[t])
       \/ w \notin Live /\ CloseError(t, IF Platform = "kwin" THEN "AdapterError" ELSE "SurfaceDead")
       \/ CloseError(t, "AdapterError")    \* permission, event source, script timeout
    /\ UNCHANGED <<window, hstate, href>>

\* Mutant: the poll has no deadline.
VerifyForever(t) ==
    /\ pc[t] = "verifying"
    /\ SeemsClosed(href[task[t].id]) /\ Goto(t, "marking", task[t])
    /\ UNCHANGED <<window, hstate, href>>

\* Adapter::close polls for the window to disappear.
VerifyClose(t) ==
    LET w == href[task[t].id] IN
    /\ pc[t] = "verifying"
    /\ \/ SeemsClosed(w) /\ Goto(t, "marking", task[t])
       \/ window[w] # "gone" /\ Platform # "kwin" /\ CloseError(t, "CloseFailed")
       \/ Platform = "macos" /\ CloseError(t, "AdapterError")    \* list_windows failed
    /\ UNCHANGED <<window, hstate, href>>

\* The placement a replacement is launched with: the old window's geometry is
\* inherited only when the body has no placement key; its display may be gone.
EffectivePlacements(t) ==
    IF task[t].spec.placement = "absent" /\ task[t].snapshot
    THEN {"rect", "unknown"} ELSE {task[t].spec.placement}

\* close succeeded: mark_dead; replace goes on to launch the replacement.
FinishClose(t) ==
    /\ pc[t] = "marking"
    /\ MarkDead(task[t].id)
    /\ IF task[t].op = "replace"
       THEN \E p \in EffectivePlacements(t) :
               EnterLaunch(t, [task[t] EXCEPT !.spec.placement = p, !.oldAlive = FALSE])
       ELSE Reply(t, "ok")
    /\ UNCHANGED window

\* Mutant: the error is returned without mark_dead.
BuryWithoutMark(t) ==
    /\ pc[t] = "burying"
    /\ Goto(t, "done", task[t])
    /\ UNCHANGED <<window, hstate, href>>

\* replace after SurfaceDead: mark_dead, then the error.
Bury(t) ==
    /\ pc[t] = "burying"
    /\ MarkDead(task[t].id)
    /\ Goto(t, "done", task[t])
    /\ UNCHANGED window

\* The client has its reply; the slot is free.
Recycle(t) ==
    /\ pc[t] = "done"
    /\ Goto(t, "idle", Blank)
    /\ UNCHANGED <<window, hstate, href>>

-----------------------------------------------------------------------------
(* The desktop and the daemon process *)

\* Windows open, are minimised or restored, and close (by the user, or by the
\* application honouring a close request) at any moment.
WindowMoves(w, from, to) ==
    /\ window[w] = from
    /\ window' = [window EXCEPT ![w] = to]
    /\ UNCHANGED <<hstate, href, pc, task>>

Desktop(w) ==
    \/ WindowMoves(w, "unborn", "shown")
    \/ WindowMoves(w, "shown", "hidden")
    \/ WindowMoves(w, "hidden", "shown")
    \/ WindowMoves(w, "shown", "gone")
    \/ WindowMoves(w, "hidden", "gone")

\* The daemon stops and starts again: handles, requests and timers are lost.
\* Ids are random UUIDs, so a lost id is never minted again.
Restart ==
    /\ hstate' = [i \in Ids |-> IF hstate[i] = "absent" THEN "absent" ELSE "forgotten"]
    /\ pc' = [t \in Tasks |-> "idle"]
    /\ task' = [t \in Tasks |-> Blank]
    /\ UNCHANGED <<window, href>>

\* The steps the tokio runtime takes for a request once it has started.
Run(t) ==
    \/ AdapterLaunch(t) \/ AdapterLaunchFails(t) \/ GateAndTrack(t) \/ PlaceAndReply(t)
    \/ Probe(t) \/ Track(t) \/ SnapshotGeometry(t) \/ Wake(t) \/ RequestClose(t)
    \/ VerifyClose(t) \/ FinishClose(t) \/ Bury(t)

Post(t) ==
    \/ \E s \in Specs : PostLaunch(t, s)
    \/ \E w \in Refs : PostTrack(t, w)
    \/ \E i \in Ids : PostClose(t, i)
    \/ \E i \in Ids, s \in Specs : PostReplace(t, i, s)

Next ==
    \/ \E t \in Tasks : Post(t) \/ Run(t) \/ Recycle(t)
    \/ \E w \in Refs : Desktop(w)
    \/ Restart

Spec == Init /\ [][Next]_vars

\* The runtime polls every ready task, adapter calls have deadlines and timers
\* fire, so a started request keeps taking steps.
FairSpec == Spec /\ \A t \in Tasks : WF_vars(Run(t))

-----------------------------------------------------------------------------
(* Properties *)

Codes == {"none", "ok", "InvalidArgument", "LaunchFailed", "LaunchCorrelationAmbiguous",
          "LaunchReturnedExisting", "SurfaceDead", "SurfaceNotFound", "AdapterError", "CloseFailed"}

Request == [op : {"none", "launch", "track", "close", "replace", "dismiss"},
            id : Ids \cup {NoId}, new : Ids \cup {NoId}, ref : Refs \cup {NoRef},
            spec : LaunchSpec, live : SUBSET Refs, before : SUBSET Refs, pre : BOOLEAN,
            confidence : Confidence, snapshot : BOOLEAN, code : Codes, oldAlive : BOOLEAN,
            placed : {"none", "not_requested", "skipped_preexisting", "failed", "applied"}]

\* Every variable has its type.
TypeOK ==
    /\ window \in [Refs -> {"unborn", "shown", "hidden", "gone"}]
    /\ hstate \in [Ids -> {"absent", "alive", "dead", "forgotten"}]
    /\ href \in [Ids -> Refs \cup {NoRef}]
    /\ pc \in [Tasks -> PCs]
    /\ task \in [Tasks -> Request]

\* However launches, tracks, closes and replacements of one window interleave,
\* the store never holds two alive handles for it: the promise track_or_get's
\* doc comment makes, and what approvals keyed by surface id rely on.
OneAliveHandlePerWindow ==
    \A i, j \in Ids :
        (hstate[i] = "alive" /\ hstate[j] = "alive" /\ href[i] = href[j]) => i = j

\* A handle keeps its window, and once dead it is never handed out again:
\* re-tracking a window whose handle died mints a new id.
DeadIsFinal ==
    [][\A i \in Ids : hstate[i] # "absent" =>
            /\ href'[i] = href[i]
            /\ hstate[i] = "dead" => hstate'[i] \in {"dead", "forgotten"}]_vars

\* `old_handle_alive: false` in a replace error is the truth: the old handle can
\* no longer be used, whatever other requests did to it meanwhile.
ReplaceReportsTruth ==
    \A t \in Tasks :
        (pc[t] = "done" /\ task[t].op = "replace" /\ ~task[t].oldAlive)
            => hstate[task[t].id] # "alive"

\* A handle is marked dead only when its window is really gone, so a close the
\* application vetoed leaves the handle alive.
DeadHandleWindowGone ==
    \A i \in Ids : hstate[i] = "dead" => window[href[i]] = "gone"

\* A launch with require_fresh_surface that succeeds returns a window that was
\* not open when the launch began, whatever handle it was tracked under.
FreshLaunchIsFresh ==
    \A t \in Tasks :
        (pc[t] \in {"placing", "sleeping", "done"} /\ task[t].spec.fresh /\ task[t].new # NoId)
            => href[task[t].new] \notin task[t].live

\* A launch or replacement moves a window the adapter knew to be there before
\* only when the body says force_place; inherited geometry never does.
PreexistingMovedOnlyByForce ==
    \A t \in Tasks :
        (task[t].placed = "applied" /\ href[task[t].new] \in task[t].before)
            => task[t].spec.force

\* Every request is answered: no request waits for another one forever.
EveryRequestAnswered ==
    \A t \in Tasks : (pc[t] \notin {"idle", "sleeping"}) ~> (pc[t] \in {"done", "sleeping", "idle"})

\* An auto-dismiss timer ends with its window gone, or with an attempt that the
\* adapter refused, or the daemon restarted: it is never silently dropped.
DismissTakesEffect ==
    \A t \in Tasks, i \in Ids :
        (pc[t] = "sleeping" /\ task[t].new = i)
            ~> \/ hstate[i] \in {"dead", "forgotten"}
               \/ task[t].op = "dismiss" /\ task[t].id = i
                  /\ task[t].code \in {"CloseFailed", "AdapterError", "SurfaceDead"}

\* Every request ends and every timer takes effect: routes, pipelines and the auto-dismiss
\* task never wait for each other for ever and never drop what they were asked.
RequestsEnd == EveryRequestAnswered /\ DismissTakesEffect
=============================================================================
