----------------------------- MODULE KWinPortal -----------------------------
(***************************************************************************)
(* Input on KWin through the RemoteDesktop portal (porthole-adapter-kwin   *)
(* lib.rs, remote_desktop.rs): one cached portal session that input calls  *)
(* share, the three requests that start one, each with a Response the user *)
(* may never give, and the calls that press keys and move the pointer      *)
(* relative to where the last snapshot saw it.                             *)
(*                                                                         *)
(* The portal, the user and the compositor are external: a request is      *)
(* answered, refused or left alone; an event on a closed session is an     *)
(* error; the sessions of a connection that is gone are closed.            *)
(***************************************************************************)
EXTENDS Integers, Sequences, FiniteSets

CONSTANTS
  PCalls,       \* requests to the adapter that use the portal
  OpsOf,        \* OpsOf[c]: the operations a request may be
  Spot,         \* Spot[c]: where a pointer call wants the pointer
  MaxSessions,  \* bound: portal sessions created
  MaxHand       \* bound: moves of the pointer by the user's hand

VARIABLES
  icall,    \* icall[c]: step, operation, portal session, events left, cursor it saw, disturbed (ghost)
  cached,   \* remote_desktop_session: a session or 0
  locked,   \* holder of remote_desktop_session's mutex
  portal,   \* portal[s]: state of a portal session
  closing,  \* sessions with a spawned close_session (a second Close is an ignored error)
  cursor,   \* where the pointer is
  hand      \* moves by hand so far

portalVars == <<icall, cached, locked, portal, closing, cursor, hand>>

Sessions == 1..MaxSessions
Free == "nobody"
Starting == {"create", "select", "start"}
Ended == {"ok", "failed"}
Ops == {"key", "text", "click", "scroll", "move", "prompt"}

ASSUME PortalAssumption ==
  /\ MaxSessions \in Nat /\ MaxHand \in Nat /\ Free \notin PCalls
  /\ \A c \in PCalls : Spot[c] \in Int /\ OpsOf[c] \subseteq Ops

PortalTypeOK ==
  /\ \A c \in PCalls :
       /\ icall[c].at \in {"none", "lock", "store", "notify"} \union Starting \union Ended
       /\ icall[c].sess \in 0..MaxSessions /\ icall[c].op \in Ops
  /\ cached \in 0..MaxSessions /\ locked \in PCalls \union {Free}
  /\ portal \in [Sessions -> {"none", "created", "started", "closed"}]
  /\ closing \subseteq Sessions /\ hand \in 0..MaxHand /\ cursor \in Int

PortalInit ==
  /\ icall = [c \in PCalls |-> [at |-> "none", op |-> "move", sess |-> 0, todo |-> <<>>, saw |-> 0, off |-> FALSE]]
  /\ cached = 0 /\ locked = Free
  /\ portal = [s \in Sessions |-> "none"]
  /\ closing = {} /\ cursor = 0 /\ hand = 0

-----------------------------------------------------------------------------
(* What a call sends once it has a session.                                *)

\* key_event: modifiers down, the key, modifiers up; a key with no keycode is
\* found out after the modifiers are down.  text: one tap a character.
KeyPlans == {<<"down", "tap", "up">>, <<"down", "unknown">>}
TextPlans == {<<"tap", "tap">>}
\* move_pointer_to_global: a fresh snapshot, then a relative motion.
ClickPlans == {<<"refresh", "motion", "button">>, <<"refresh", "motion", "button", "button">>}
ScrollPlans == {<<"refresh", "motion", "axis">>}
MovePlans == {<<"refresh", "motion">>}
PlansOf(op) ==
  CASE op = "key" -> KeyPlans [] op = "text" -> TextPlans [] op = "click" -> ClickPlans
    [] op = "scroll" -> ScrollPlans [] op = "move" -> MovePlans [] OTHER -> {<<>>}
Pointers == {"click", "scroll", "move"}

-----------------------------------------------------------------------------
(* The session.                                                            *)

\* Mutant of DropSession: dropping a handle closes nothing.
DropNothing(s) == closing

\* RemoteDesktopSession::drop: every clone that goes closes the portal session.
DropSession(s) == IF s = 0 THEN closing ELSE closing \union {s}

\* A call is over: its handle is dropped, its lock released; a session it was
\* still starting goes with its connection.
Finish(c, how) ==
  /\ icall' = [icall EXCEPT ![c] = [@ EXCEPT !.at = how, !.sess = 0, !.todo = <<>>]]
  /\ locked' = IF locked = c THEN Free ELSE locked
  /\ IF icall[c].at \in Starting
     THEN portal' = [s \in Sessions |-> IF s = icall[c].sess THEN "closed" ELSE portal[s]] /\ UNCHANGED closing
     ELSE closing' = DropSession(icall[c].sess) /\ UNCHANGED portal
  /\ UNCHANGED <<cached, cursor, hand>>

CloseSession(s) ==
  /\ s \in closing
  /\ closing' = closing \ {s}
  /\ portal' = [portal EXCEPT ![s] = "closed"]
  /\ UNCHANGED <<icall, cached, locked, cursor, hand>>

\* The request begins: the focus command failed, or the call goes for the lock.
BeginCall(c, op) ==
  /\ icall[c].at = "none"
  /\ \/ icall' = [icall EXCEPT ![c].at = "lock", ![c].op = op]
     \/ op \notin {"prompt", "move"} /\ icall' = [icall EXCEPT ![c].at = "failed"]
  /\ UNCHANGED <<cached, locked, portal, closing, cursor, hand>>

\* Mutant of EnsureSession: the lock is not held over the start.
EnsureUnlocked(c) ==
  /\ icall[c].at = "lock" /\ icall[c].op # "prompt" /\ locked = Free
  /\ icall' = [icall EXCEPT ![c].at = IF cached # 0 THEN "notify" ELSE "create", ![c].sess = cached]
  /\ UNCHANGED <<cached, locked, portal, closing, cursor, hand>>

\* ensure_remote_desktop_session: under the lock, a clone of the cached session,
\* or a new one is started with the lock held.
EnsureSession(c) ==
  /\ icall[c].at = "lock" /\ icall[c].op # "prompt" /\ locked = Free
  /\ IF cached # 0
     THEN icall' = [icall EXCEPT ![c].at = "notify", ![c].sess = cached] /\ UNCHANGED locked
     ELSE icall' = [icall EXCEPT ![c].at = "create"] /\ locked' = c
  /\ UNCHANGED <<cached, portal, closing, cursor, hand>>

\* request_system_permission_prompt: looks under the lock, starts without it.
Prompt(c) ==
  /\ icall[c].at = "lock" /\ icall[c].op = "prompt" /\ locked = Free
  /\ icall' = [icall EXCEPT ![c].at = "create"]
  /\ UNCHANGED <<cached, locked, portal, closing, cursor, hand>>

\* start_session: CreateSession and its Response.
CreateSession(c) ==
  /\ icall[c].at = "create"
  /\ \E s \in Sessions :
       /\ portal[s] = "none" /\ \A t \in 1..(s - 1) : portal[t] # "none"
       /\ portal' = [portal EXCEPT ![s] = "created"]
       /\ icall' = [icall EXCEPT ![c].at = "select", ![c].sess = s]
  /\ UNCHANGED <<cached, locked, closing, cursor, hand>>

SelectDevices(c) ==
  /\ icall[c].at = "select"
  /\ icall' = [icall EXCEPT ![c].at = "start"]
  /\ UNCHANGED <<cached, locked, portal, closing, cursor, hand>>

\* Start: the user consents.  Input stores a clone and goes on with its own, if
\* the device was granted; the prompt stores its own under the lock.
StartSession(c) ==
  /\ icall[c].at = "start"
  /\ portal' = [portal EXCEPT ![icall[c].sess] = "started"]
  /\ \/ /\ icall[c].op # "prompt"
        /\ cached' = icall[c].sess /\ locked' = Free
        /\ closing' = DropSession(cached)
        /\ icall' = [icall EXCEPT ![c].at = "notify"]
     \/ /\ icall[c].op # "prompt"                              \* without the device
        /\ closing' = DropSession(icall[c].sess) /\ locked' = Free
        /\ icall' = [icall EXCEPT ![c].at = "failed", ![c].sess = 0]
        /\ UNCHANGED cached
     \/ /\ icall[c].op = "prompt"
        /\ icall' = [icall EXCEPT ![c].at = "store"] /\ UNCHANGED <<cached, locked, closing>>
  /\ UNCHANGED <<cursor, hand>>

StorePrompted(c) ==
  /\ icall[c].at = "store" /\ locked = Free
  /\ cached' = icall[c].sess
  /\ closing' = DropSession(cached)
  /\ icall' = [icall EXCEPT ![c].at = "ok", ![c].sess = 0]
  /\ UNCHANGED <<locked, portal, cursor, hand>>

\* Mutant of ResponseFails: a Response that does not come is waited for.
ResponseRefused(c) ==
  icall[c].at \in {"create", "select"} /\ Finish(c, "failed")

\* wait_prepared_response: refused, cancelled, the portal is gone, or nothing came
\* in 60 seconds.
ResponseFails(c) ==
  icall[c].at \in Starting /\ Finish(c, "failed")

\* The client goes away: the handler is dropped where it waits.
DropRequest(c) ==
  icall[c].at \in Starting \union {"lock", "store", "notify"} /\ Finish(c, "failed")

-----------------------------------------------------------------------------
(* The events.                                                             *)

\* The call knows what to send; a pointer call first places its point in the
\* window of the snapshot (window_local_to_global), which may refuse it.
Plan(c) ==
  /\ icall[c].at = "notify" /\ icall[c].todo = <<>>
  /\ \/ /\ \E e \in PlansOf(icall[c].op) : icall' = [icall EXCEPT ![c].todo = e]
        /\ UNCHANGED <<cached, locked, portal, closing, cursor, hand>>
     \/ icall[c].op \in Pointers /\ Finish(c, "failed")

Disturbs(c) == [d \in PCalls |-> IF d = c THEN icall[d] ELSE [icall[d] EXCEPT !.off = TRUE]]

\* Mutant of Refresh: the cursor of an earlier snapshot will do.
RefreshNothing(c) ==
  /\ icall' = [icall EXCEPT ![c].todo = Tail(@), ![c].off = FALSE]
  /\ UNCHANGED cursor

\* refresh_snapshot and the cursor it shows; the ghost starts to watch.
Refresh(c) ==
  /\ icall' = [icall EXCEPT ![c].todo = Tail(@), ![c].saw = cursor, ![c].off = FALSE]
  /\ UNCHANGED cursor

\* pointer_motion: by the difference to where the cursor was seen.
Motion(c) ==
  /\ cursor' = cursor + (Spot[c] - icall[c].saw)
  /\ icall' = [Disturbs(c) EXCEPT ![c].todo = Tail(@)]

\* One portal call of the plan: an error when the session is closed.  The
\* snapshot command does not use the session, and fails on its own.
Notify(c) ==
  /\ icall[c].at = "notify" /\ icall[c].todo # <<>>
  /\ LET e == Head(icall[c].todo) IN
     \/ /\ e = "refresh" \/ portal[icall[c].sess] = "started"
        /\ e # "unknown" /\ Len(icall[c].todo) > 1
        /\ CASE e = "refresh" -> Refresh(c)
             [] e = "motion"  -> Motion(c)
             [] OTHER         -> icall' = [icall EXCEPT ![c].todo = Tail(@)] /\ UNCHANGED cursor
        /\ UNCHANGED <<cached, locked, portal, closing, hand>>
     \/ /\ Len(icall[c].todo) = 1 /\ e \notin {"unknown", "refresh"} /\ portal[icall[c].sess] = "started"
        /\ icall' = [(IF e = "motion" THEN Disturbs(c) ELSE icall) EXCEPT
                       ![c] = [@ EXCEPT !.at = "ok", !.sess = 0, !.todo = <<>>]]
        /\ cursor' = IF e = "motion" THEN cursor + (Spot[c] - icall[c].saw) ELSE cursor
        /\ closing' = DropSession(icall[c].sess)
        /\ UNCHANGED <<cached, locked, portal, hand>>
     \/ /\ e \in {"unknown", "refresh"} \/ portal[icall[c].sess] # "started"
        /\ Finish(c, "failed")

\* The user moves the pointer.
MoveByHand ==
  /\ hand < MaxHand
  /\ hand' = hand + 1 /\ cursor' = cursor + 1
  /\ icall' = [c \in PCalls |-> [icall[c] EXCEPT !.off = TRUE]]
  /\ UNCHANGED <<cached, locked, portal, closing>>

PortalNext ==
  \/ \E c \in PCalls :
       \/ (\E op \in OpsOf[c] : BeginCall(c, op)) \/ EnsureSession(c) \/ Prompt(c) \/ CreateSession(c) \/ SelectDevices(c) \/ StartSession(c)
       \/ StorePrompted(c) \/ ResponseFails(c) \/ DropRequest(c) \/ Plan(c) \/ Notify(c)
  \/ \E s \in Sessions : CloseSession(s)
  \/ MoveByHand

\* tokio runs every call and every spawned close; the response timeout comes.
\* The mutex queues its waiters in order.
PortalFairness ==
  /\ \A c \in PCalls :
       /\ SF_portalVars(EnsureSession(c) \/ Prompt(c) \/ StorePrompted(c))
       /\ WF_portalVars(ResponseFails(c)) /\ WF_portalVars(Plan(c) \/ Notify(c))
  /\ \A s \in Sessions : WF_portalVars(CloseSession(s))

-----------------------------------------------------------------------------
(* Properties.                                                             *)

\* Input calls that come together ask the user once: a session is started under
\* the lock, and the others wait for it (ensure_remote_desktop_session).
OneConsentAtATime ==
  Cardinality({c \in PCalls : icall[c].op # "prompt" /\ icall[c].at \in Starting}) <= 1

\* A session the user consented to is the cached one, in use by a call, or about
\* to be closed: a request that fails or is dropped half way leaves no session
\* that nobody can close (RemoteDesktopSession::drop).
NoOrphanConsent ==
  \A s \in Sessions : portal[s] = "started" =>
    s = cached \/ s \in closing \/ \E c \in PCalls : icall[c].sess = s

\* A click or a scroll happens where it was asked for, unless something else moved
\* the pointer between its snapshot and the event (move_pointer_to_global).
PointerLands ==
  [][\A c \in PCalls :
       Len(icall[c].todo) > 0 /\ Head(icall[c].todo) \in {"button", "axis"} /\ icall[c].todo # icall'[c].todo
         /\ icall'[c].at # "failed" /\ ~icall[c].off
       => cursor = Spot[c]]_portalVars

\* Every call ends although the user leaves a consent dialog alone
\* (PORTAL_RESPONSE_TIMEOUT), and so do those that wait for the lock behind it.
PortalCallsEnd == \A c \in PCalls : icall[c].at = "lock" ~> icall[c].at \in Ended
=============================================================================
