--------------------------- MODULE InputExecutor ---------------------------
(***************************************************************************)
(* Remote input on one surface: the executor of an export (portholed       *)
(* input_executor.rs: an accept thread and a poll thread), the input       *)
(* pipeline (porthole-core input_pipeline.rs) and what the macOS adapter   *)
(* remembers of keys and buttons that are down (input.rs), with callers of *)
(* the HTTP input routes beside them.                                      *)
(*                                                                         *)
(* The jackstay Target is external: it admits one controller, queues its   *)
(* events in order, and after the controller is gone queues a cleanup that *)
(* must complete before another is admitted.  A controller numbers its     *)
(* presses, so a press goes down at most once.                             *)
(***************************************************************************)
EXTENDS Naturals, Sequences, FiniteSets, Functions

CONSTANTS
  Controllers,  \* remote controllers, one connection each
  Presses,      \* press identities; a press belongs to one controller
  Codes,        \* key names that have a key code
  Points,       \* screen points inside the window
  MaxSent,      \* bound: events the controllers send
  MaxQueue,     \* bound: events waiting in the target
  MaxFaults     \* bound: faults (a revoked grant, a death, an event that cannot be made)
                \* and calls of other callers

CONSTANTS OwnerOf(_)  \* the controller a press belongs to

NoOne == "no controller"

ASSUME InputAssumption ==
  /\ MaxSent \in Nat /\ MaxFaults \in Nat /\ Points # {}
  /\ NoOne \notin Controllers /\ \A p \in Presses : OwnerOf(p) \in Controllers

Outside == 0
Cleanup == [kind |-> "cleanup"]

VARIABLES
  conn,    \* conn[c]: the connection of a controller, as its server sees it
  target,  \* the jackstay Target: who is admitted, the work queue, events sent
  exec,    \* the executor: its run state, what its two threads are at
  held,    \* the adapter's Held: bound keys, held buttons and their points, driven
  app,     \* keys and buttons down at the application, the ones posted loose, the pointer
  world    \* the handle, the process, the Accessibility grant

inputVars == <<conn, target, exec, held, app, world>>

InputTypeOK ==
  /\ conn \in [Controllers -> {"none", "queued", "served", "admitted", "gone"}]
  /\ target.holder \in Controllers \union {NoOne}
  /\ \A n \in DOMAIN target.queue :
       target.queue[n].kind \in {"key", "button", "motion", "scroll", "text", "logical", "cleanup"}
  /\ target.sent \in 0..MaxSent /\ target.used \subseteq Presses
  /\ exec \in [run: {"up", "stop", "over"}, accept: {"idle", "focus", "over"},
               poll: {"idle", "end_drive", "complete", "over"}, kept: SUBSET (Presses \union {"button"})]
  /\ DOMAIN held.keys \subseteq Presses /\ Range(held.keys) \subseteq Codes
  /\ held.buttons \subseteq Points /\ Cardinality(held.buttons) <= 1 /\ held.driven \in BOOLEAN
  /\ app.keys \subseteq Codes /\ app.button \in BOOLEAN /\ app.pointer \in Points
  /\ app.loose \subseteq Codes \union {"button"} /\ app.strayed \in BOOLEAN
  /\ world \in [alive: BOOLEAN, pid: BOOLEAN, ax: BOOLEAN, faults: 0..MaxFaults]

NothingHeld == [keys |-> [p \in {} |-> {}], buttons |-> {}, driven |-> FALSE]

InputInit ==
  /\ conn = [c \in Controllers |-> "none"]
  /\ target = [holder |-> NoOne, queue |-> <<>>, sent |-> 0, used |-> {}]
  /\ exec = [run |-> "up", accept |-> "idle", poll |-> "idle", kept |-> {}]
  /\ held = NothingHeld
  /\ app = [keys |-> {}, button |-> FALSE, pointer |-> CHOOSE x \in Points : TRUE,
            loose |-> {}, strayed |-> FALSE]
  /\ world = [alive |-> TRUE, pid |-> TRUE, ax |-> TRUE, faults |-> 0]

-----------------------------------------------------------------------------
(* Controllers and the Target (external).                                  *)

Connect(c) ==
  /\ conn[c] = "none" /\ exec.run = "up"
  /\ conn' = [conn EXCEPT ![c] = "queued"]
  /\ UNCHANGED <<target, exec, held, app, world>>

\* The hello of a served connection: admitted, or refused as Busy while another
\* controller drives or its cleanup is not complete.
Hello(c) ==
  /\ conn[c] = "served" /\ exec.run # "over"
  /\ IF target.holder = NoOne
     THEN /\ conn' = [conn EXCEPT ![c] = "admitted"]
          /\ target' = [target EXCEPT !.holder = c]
     ELSE conn' = [conn EXCEPT ![c] = "gone"] /\ UNCHANGED target
  /\ UNCHANGED <<exec, held, app, world>>

KeyEvents(c) ==
  {[kind |-> "key", press |-> p, action |-> "down", key |-> k] :
     p \in {q \in Presses \ target.used : OwnerOf(q) = c}, k \in Codes}
  \union
  {[kind |-> "key", press |-> p, action |-> a, key |-> k] :
     p \in {q \in target.used : OwnerOf(q) = c}, a \in {"repeat", "up"}, k \in Codes}
ButtonEvents == {[kind |-> "button", action |-> a, at |-> x] :
                   a \in {"down", "up"}, x \in Points \union {Outside}}
OtherEvents == {[kind |-> k, at |-> x] : k \in {"motion", "scroll"}, x \in Points \union {Outside}}
               \union {[kind |-> "text"], [kind |-> "logical"]}

\* A controller sends an event; a press goes down once.
Send(c, e) ==
  /\ conn[c] = "admitted" /\ target.sent < MaxSent /\ Len(target.queue) < MaxQueue
  /\ target' = [target EXCEPT !.queue = Append(@, e), !.sent = @ + 1,
                              !.used = IF e.kind = "key" THEN @ \union {e.press} ELSE @]
  /\ UNCHANGED <<conn, exec, held, app, world>>

\* The controller hangs up, falls silent for IDLE_TIMEOUT or its server is
\* dropped; an admitted one leaves a cleanup behind its events.
Leave(c) ==
  /\ conn[c] \in {"queued", "served", "admitted"}
  /\ conn' = [conn EXCEPT ![c] = "gone"]
  /\ target' = IF conn[c] = "admitted" THEN [target EXCEPT !.queue = Append(@, Cleanup)] ELSE target
  /\ UNCHANGED <<exec, held, app, world>>

-----------------------------------------------------------------------------
(* accept_loop.                                                            *)

\* Server::start, then begin_drive on the accept thread; a dead handle fails at
\* once, otherwise the focus runs (about a second).
Accept(c) ==
  /\ exec.run = "up" /\ exec.accept = "idle" /\ conn[c] = "queued"
  /\ conn' = [conn EXCEPT ![c] = "served"]
  /\ exec' = [exec EXCEPT !.accept = IF world.alive THEN "focus" ELSE "idle"]
  /\ UNCHANGED <<target, held, app, world>>

\* begin_drive: the surface is marked as driven once the focus succeeded.
BeginDrive ==
  /\ exec.accept = "focus"
  /\ exec' = [exec EXCEPT !.accept = "idle"]
  /\ \/ world.pid /\ held' = [held EXCEPT !.driven = TRUE]
     \/ UNCHANGED held
  /\ UNCHANGED <<conn, target, app, world>>

-----------------------------------------------------------------------------
(* The adapter.  An event that cannot be made (FaultsLeft) is not posted.  *)

FaultsLeft == world.faults < MaxFaults
Fault(failed) == IF failed THEN [world EXCEPT !.faults = @ + 1] ELSE world
\* window_to_screen refuses a point outside the window's bounds.
WindowToScreen(x) == x # Outside
Bound(e) == IF e.action # "down" /\ e.press \in DOMAIN held.keys THEN held.keys[e.press] ELSE e.key

\* Held's map of presses: insert and remove.
Bind(keys, press, key) == [p \in DOMAIN keys \union {press} |-> IF p = press THEN key ELSE keys[p]]
Unbind(keys, press) == Restrict(keys, DOMAIN keys \ {press})

\* Mutant of KeyStroke: an up or a repeat goes by the name it carries.
KeyStrokeByName(e, failed) ==
  /\ world.ax /\ world.pid
  /\ held' = [held EXCEPT !.keys = IF e.action = "down" THEN Bind(@, e.press, e.key)
                                   ELSE IF e.action = "up" THEN Unbind(@, e.press) ELSE @]
  /\ app' = IF failed
            THEN IF e.action = "up" /\ e.key \in app.keys THEN [app EXCEPT !.loose = @ \union {e.key}] ELSE app
            ELSE [app EXCEPT !.keys = IF e.action = "up" THEN @ \ {e.key} ELSE @ \union {e.key},
                             !.loose = IF e.action = "repeat" THEN @ \union {e.key} ELSE @]

\* key_stroke: a down binds the press and posts; repeats and the up reuse the
\* binding, or the key name when the press is unknown (a repeat then puts a key
\* down that nothing records: loose).
KeyStroke(e, failed) ==
  /\ world.ax /\ world.pid
  /\ held' = [held EXCEPT !.keys = IF e.action = "down" THEN Bind(@, e.press, e.key)
                                   ELSE IF e.action = "up" THEN Unbind(@, e.press) ELSE @]
  /\ app' = IF failed
            THEN IF e.action = "up" /\ Bound(e) \in app.keys
                 THEN [app EXCEPT !.loose = @ \union {Bound(e)}] ELSE app
            ELSE [app EXCEPT !.keys = IF e.action = "up" THEN @ \ {Bound(e)} ELSE @ \union {Bound(e)},
                             !.loose = IF e.action = "repeat" /\ e.press \notin DOMAIN held.keys
                                       THEN @ \union {e.key} ELSE @]

\* Mutant of Button: a down is posted and not recorded.
ButtonUnrecorded(e, failed) ==
  /\ world.ax /\ world.pid /\ WindowToScreen(e.at)
  /\ held' = [held EXCEPT !.buttons = IF e.action = "down" THEN @ ELSE {}]
  /\ app' = IF failed THEN app
            ELSE [app EXCEPT !.button = (e.action = "down"), !.pointer = e.at, !.strayed = FALSE]

\* button: a down (after a focus, unless driven) records the button at its point
\* and posts; an up forgets it and posts at the point it carries.
Button(e, failed) ==
  /\ world.ax /\ world.pid /\ WindowToScreen(e.at)
  /\ held' = [held EXCEPT !.buttons = IF e.action = "down" THEN {e.at} ELSE {}]
  /\ app' = IF failed
            THEN [app EXCEPT !.strayed = TRUE,
                             !.loose = IF e.action = "up" /\ app.button THEN @ \union {"button"} ELSE @]
            ELSE [app EXCEPT !.button = (e.action = "down"), !.pointer = e.at, !.strayed = FALSE]

\* Mutant of PointerMove: a drag leaves the held point where it was.
PointerMoveKeepsPoint(e, failed) ==
  /\ world.ax /\ world.pid /\ WindowToScreen(e.at)
  /\ UNCHANGED held
  /\ app' = IF failed THEN [app EXCEPT !.strayed = (held.buttons # {})] ELSE [app EXCEPT !.pointer = e.at]

\* pointer_move: with a button held the motion is a drag and the held point
\* follows; otherwise the window is focused, unless driven, and the cursor moves.
PointerMove(e, failed) ==
  /\ world.ax /\ world.pid /\ WindowToScreen(e.at)
  /\ held' = [held EXCEPT !.buttons = IF @ = {} THEN @ ELSE {e.at}]
  /\ app' = IF failed THEN [app EXCEPT !.strayed = (held.buttons # {})] ELSE [app EXCEPT !.pointer = e.at]

\* scroll moves the cursor to its point first; a held point does not follow.
Scroll(e) ==
  /\ world.ax /\ world.pid /\ WindowToScreen(e.at)
  /\ app' = [app EXCEPT !.pointer = e.at, !.strayed = TRUE]
  /\ UNCHANGED held

\* text posts pairs to the process and leaves nothing down.
Text == world.ax /\ world.pid /\ UNCHANGED <<held, app>>

\* The adapter call for an event.
Adapter(e, failed) ==
  \/ e.kind = "key" /\ KeyStroke(e, failed)
  \/ e.kind = "button" /\ Button(e, failed)
  \/ e.kind = "motion" /\ PointerMove(e, failed)
  \/ e.kind = "scroll" /\ ~failed /\ Scroll(e)
  \/ e.kind = "text" /\ ~failed /\ Text

\* What the call refuses before it does anything: a logical key, a dead handle,
\* no grant, no process, a point outside the window.
Refuses(e) ==
  \/ e.kind = "logical" \/ ~world.alive \/ ~world.ax \/ ~world.pid
  \/ e.kind \in {"button", "motion", "scroll"} /\ ~WindowToScreen(e.at)

-----------------------------------------------------------------------------
(* poll_loop.                                                              *)

Work == Head(target.queue)
Polling == exec.run # "over" /\ exec.poll = "idle" /\ target.queue # <<>>

\* target.next() gives an event: execute it and complete it.
Execute(failed) ==
  /\ Polling /\ Work.kind # "cleanup" /\ (failed => FaultsLeft)
  /\ \/ Refuses(Work) /\ ~failed /\ UNCHANGED <<held, app>>
     \/ ~Refuses(Work) /\ Adapter(Work, failed)
  /\ world' = Fault(failed)
  /\ target' = [target EXCEPT !.queue = Tail(@)]
  /\ UNCHANGED <<conn, exec>>

\* What of the held state the release could not post: nothing, or one code or
\* the button whose event could not be made.
Unposted(failed) ==
  IF ~failed THEN {{}}
  ELSE {{x} : x \in Range(held.keys) \union (IF held.buttons = {} THEN {} ELSE {"button"})}

\* Mutant of ReleaseHeld: the held state is emptied before the grant is checked.
ReleaseHeldForgets(lost) ==
  /\ held' = [held EXCEPT !.keys = NothingHeld.keys, !.buttons = {}]
  /\ IF world.alive /\ world.ax
     THEN app' = [app EXCEPT !.keys = (@ \ Range(held.keys)) \union (lost \intersect @),
                             !.button = @ /\ (held.buttons = {} \/ "button" \in lost),
                             !.loose = @ \union (lost \intersect (app.keys \union {"button"}))]
     ELSE UNCHANGED app

\* release_held: nothing is forgotten before the grant is checked; then everything
\* is taken out of the held state and its releases are posted.
ReleaseHeld(lost) ==
  IF world.alive /\ ((held.keys = NothingHeld.keys /\ held.buttons = {}) \/ world.ax)
  THEN /\ held' = [held EXCEPT !.keys = NothingHeld.keys, !.buttons = {}]
       /\ app' = [app EXCEPT !.keys = (@ \ Range(held.keys)) \union (lost \intersect @),
                             !.button = @ /\ (held.buttons = {} \/ "button" \in lost),
                             !.loose = @ \union (lost \intersect (app.keys \union {"button"}))]
  ELSE UNCHANGED <<held, app>>

\* Mutant of CleanupRelease: the cleanup only ends the driving.
CleanupEndsDriving(failed) ==
  /\ Polling /\ Work.kind = "cleanup" /\ ~failed
  /\ exec' = [exec EXCEPT !.poll = "end_drive"]
  /\ UNCHANGED <<conn, target, held, app, world>>

\* The cleanup barrier, first part: release_held, its error ignored.
CleanupRelease(failed) ==
  /\ Polling /\ Work.kind = "cleanup" /\ (failed => FaultsLeft)
  /\ \E lost \in Unposted(failed) : ReleaseHeld(lost)
  /\ world' = Fault(failed)
  /\ exec' = [exec EXCEPT !.poll = "end_drive", !.kept = DOMAIN held'.keys \union
                                     (IF held'.buttons = {} THEN {} ELSE {"button"})]
  /\ UNCHANGED <<conn, target>>

\* Second part: end_drive, which a dead handle skips.
EndDrive ==
  /\ exec.poll = "end_drive"
  /\ held' = IF world.alive THEN [held EXCEPT !.driven = FALSE] ELSE held
  /\ exec' = [exec EXCEPT !.poll = "complete"]
  /\ UNCHANGED <<conn, target, app, world>>

\* Third part: complete; the target admits again.
CompleteCleanup ==
  /\ exec.poll = "complete"
  /\ target' = [target EXCEPT !.queue = Tail(@), !.holder = NoOne]
  /\ exec' = [exec EXCEPT !.poll = "idle"]
  /\ UNCHANGED <<conn, held, app, world>>

-----------------------------------------------------------------------------
(* The end of the executor (Drop), and the world around it.                *)

\* Drop: the stop flag; both threads look at it between two pieces of work.
Stop ==
  /\ exec.run = "up"
  /\ exec' = [exec EXCEPT !.run = "stop"]
  /\ UNCHANGED <<conn, target, held, app, world>>

\* The accept thread returns and drops its servers, which ends their connections.
AcceptEnds ==
  /\ exec.run = "stop" /\ exec.accept = "idle"
  /\ exec' = [exec EXCEPT !.accept = "over"]
  /\ conn' = [c \in Controllers |-> IF conn[c] = "none" THEN "none" ELSE "gone"]
  /\ target' = IF \E c \in Controllers : conn[c] = "admitted"
               THEN [target EXCEPT !.queue = Append(@, Cleanup)] ELSE target
  /\ UNCHANGED <<held, app, world>>

\* The poll thread returns once its inner loop finds no work; drop joins the
\* accept thread first and the poll thread after it.
PollEnds ==
  /\ exec.run = "stop" /\ exec.poll = "idle" /\ target.queue = <<>>
  /\ exec' = [exec EXCEPT !.poll = "over"]
  /\ UNCHANGED <<conn, target, held, app, world>>

DropReturns ==
  /\ exec.run = "stop" /\ exec.accept = "over" /\ exec.poll = "over"
  /\ exec' = [exec EXCEPT !.run = "over"]
  /\ UNCHANGED <<conn, target, held, app, world>>

\* The input routes: a caller's key, click, scroll or motion on the same surface.
\* A key and a click post their own down and up; the up may fail to be made.
RouteKey(k, failed) ==
  /\ world.alive /\ world.ax /\ world.pid /\ FaultsLeft
  /\ app' = IF failed THEN [app EXCEPT !.keys = @ \union {k}, !.loose = @ \union {k}]
            ELSE [app EXCEPT !.keys = @ \ {k}]
  /\ world' = Fault(TRUE)
  /\ UNCHANGED <<conn, target, exec, held>>

RouteClick(x, failed) ==
  /\ world.alive /\ world.ax /\ world.pid /\ FaultsLeft
  /\ app' = IF failed THEN [app EXCEPT !.button = TRUE, !.loose = @ \union {"button"}, !.pointer = x, !.strayed = TRUE]
            ELSE [app EXCEPT !.button = FALSE, !.pointer = x, !.strayed = TRUE]
  /\ world' = Fault(TRUE)
  /\ UNCHANGED <<conn, target, exec, held>>

RoutePointer(x) ==
  /\ world.alive /\ FaultsLeft
  /\ PointerMove([kind |-> "motion", at |-> x], FALSE) \/ Scroll([kind |-> "scroll", at |-> x])
  /\ world' = Fault(TRUE)
  /\ UNCHANGED <<conn, target, exec>>

\* The handle dies (closed), or the process does and its keys with it.
SurfaceDies ==
  /\ world.alive /\ FaultsLeft
  /\ world' = [world EXCEPT !.alive = FALSE, !.faults = @ + 1]
  /\ UNCHANGED <<conn, target, exec, held, app>>

ProcessDies ==
  /\ world.pid /\ FaultsLeft
  /\ world' = [world EXCEPT !.pid = FALSE, !.faults = @ + 1]
  /\ app' = [app EXCEPT !.keys = {}, !.button = FALSE, !.loose = {}]
  /\ UNCHANGED <<conn, target, exec, held>>

RevokeAccessibility ==
  /\ world.ax /\ FaultsLeft
  /\ world' = [world EXCEPT !.ax = FALSE, !.faults = @ + 1]
  /\ UNCHANGED <<conn, target, exec, held, app>>

GrantAccessibility ==
  /\ ~world.ax
  /\ world' = [world EXCEPT !.ax = TRUE]
  /\ UNCHANGED <<conn, target, exec, held, app>>

-----------------------------------------------------------------------------
InputNext ==
  \/ \E c \in Controllers : Connect(c) \/ Hello(c) \/ Leave(c) \/ Accept(c)
  \/ \E c \in Controllers : \E e \in KeyEvents(c) \union ButtonEvents \union OtherEvents : Send(c, e)
  \/ BeginDrive
  \/ \E f \in BOOLEAN : Execute(f) \/ CleanupRelease(f)
  \/ EndDrive \/ CompleteCleanup
  \/ Stop \/ AcceptEnds \/ PollEnds \/ DropReturns
  \/ \E k \in Codes, f \in BOOLEAN : RouteKey(k, f)
  \/ \E x \in Points, f \in BOOLEAN : RouteClick(x, f)
  \/ \E x \in Points : RoutePointer(x)
  \/ SurfaceDies \/ ProcessDies \/ RevokeAccessibility \/ GrantAccessibility

\* Two threads of the executor run; controllers, callers and the world need not.
InputFairness ==
  /\ WF_inputVars(BeginDrive) /\ WF_inputVars(Execute(FALSE)) /\ WF_inputVars(CleanupRelease(FALSE))
  /\ WF_inputVars(EndDrive \/ CompleteCleanup)
  /\ WF_inputVars(AcceptEnds \/ PollEnds \/ DropReturns)

-----------------------------------------------------------------------------
(* Properties.                                                             *)

\* Every key or button an admitted controller has down at the application is in
\* the adapter's held state, where release_held finds it, except the loose ones:
\* an up that could not be made into an event, or a repeat whose down was refused.
\* An up goes by the binding of its down, and a release that may not post forgets
\* nothing (key_stroke, button, release_held).
DownIsHeld ==
  world.pid =>
    /\ app.keys \subseteq Range(held.keys) \union app.loose
    /\ app.button => held.buttons # {} \/ "button" \in app.loose

\* Whoever is admitted finds none of another controller's presses in the held
\* state but those the cleanup before it could not release (poll_loop releases
\* before it completes the barrier).
NoInheritedPress ==
  \A c \in Controllers : conn[c] = "admitted" =>
    \A p \in DOMAIN held.keys : OwnerOf(p) = c \/ p \in exec.kept

\* A held button's recorded point, where release_held would post its up, is where
\* the pointer is, unless a scroll or a caller's click moved the pointer since
\* (pointer_move updates the point of a drag).
HeldPointIsThePointer ==
  held.buttons # {} /\ ~app.strayed => held.buttons = {app.pointer}

\* A controller that leaves is cleaned up after: the held state empties, or the
\* cleanup met a dead handle or a missing grant, or the executor was stopped.
DepartureReleases ==
  \A c \in Controllers :
    (conn[c] = "gone" /\ target.holder = c)
      ~> ((held.keys = NothingHeld.keys /\ held.buttons = {}) \/ ~world.alive \/ ~world.ax
          \/ exec.kept # {} \/ exec.run # "up")
=============================================================================
