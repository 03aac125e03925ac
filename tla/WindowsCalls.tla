---------------------------- MODULE WindowsCalls ----------------------------
(***************************************************************************)
(* Calls on marked windows of the Windows adapter (native.rs): identity by *)
(* cookie, focus and keyboard input under the adapter's input lock, and    *)
(* screenshots through the one PrintWindow worker.                         *)
(*                                                                         *)
(* A handle is used again once its window is gone; the cookie is a window  *)
(* property and goes with the window.  The user, another program or a      *)
(* dialog may take the foreground at any time (external).                  *)
(***************************************************************************)
EXTENDS Naturals, Sequences, FiniteSets

CONSTANTS
  Handles,     \* window handles, one surface each
  Callers,     \* requests in flight
  MaxBatches,  \* bound: SendInput batches of one call (key events, characters)
  MaxEvents    \* bound: windows replaced, foreground taken, inputs blocked

Nobody == "nobody"
Desktop == "desktop"

ASSUME WindowsCallsAssumption == MaxBatches \in Nat \ {0} /\ MaxEvents \in Nat /\ Nobody \notin Callers

VARIABLES
  wnd,      \* wnd[h]: the window behind a handle: which one it is, its cookie
  cookies,  \* cookies[h]: the adapter's record of the cookie it set
  surf,     \* surf[h]: the tracked surface: the cookie and the window it was given for
  fg,       \* the foreground window
  lock,     \* holder of the input lock
  call,     \* call[c]: an input or screenshot call
  down,     \* keys that are down in the input state
  events    \* external events so far

wcVars == <<wnd, cookies, surf, fg, lock, call, down, events>>

NoSurface == [h |-> Desktop, cookie |-> 0, id |-> 0]
NoCall == [at |-> "none", s |-> NoSurface, left |-> 0, upset |-> FALSE, took |-> 0]

WindowsCallsTypeOK ==
  /\ \A h \in Handles : wnd[h].id \in Nat /\ wnd[h].cookie \in Nat /\ cookies[h] \in Nat
  /\ fg \in Handles \union {Desktop} /\ lock \in Callers \union {Nobody}
  /\ \A c \in Callers :
       call[c].at \in {"none", "lock", "focus", "poll", "send", "insert", "ok", "lost", "dead", "refused",
                       "printing", "printed", "abandoned"}
  /\ down \subseteq {"modifier", "key", "blocked"} /\ events \in 0..MaxEvents

\* Each surface was identified before: its window carries cookie 1.
WindowsCallsInit ==
  /\ wnd = [h \in Handles |-> [id |-> 1, cookie |-> 1]]
  /\ cookies = [h \in Handles |-> 1]
  /\ surf = [h \in Handles |-> [h |-> h, cookie |-> 1, id |-> 1]]
  /\ fg = Desktop /\ lock = Nobody
  /\ call = [c \in Callers |-> NoCall]
  /\ down = {} /\ events = 0

-----------------------------------------------------------------------------
(* Identity.                                                               *)

\* Mutant of Resolves: a live handle is enough.
ResolvesByHandle(s) == wnd[s.h].id # 0

\* resolve: the window is there and carries the surface's cookie; a call holds the
\* surface it was made for.
Resolves(s) == wnd[s.h].id # 0 /\ s.cookie # 0 /\ wnd[s.h].cookie = s.cookie

\* identify, by a search or an attach: an unmarked window, or one whose cookie is
\* not on record, gets a fresh cookie, and the surface it is tracked as.
Identify(h) ==
  /\ wnd[h].id # 0
  /\ IF wnd[h].cookie # 0 /\ cookies[h] = wnd[h].cookie
     THEN surf' = [surf EXCEPT ![h] = [@ EXCEPT !.cookie = wnd[h].cookie, !.id = wnd[h].id]] /\ UNCHANGED <<wnd, cookies>>
     ELSE LET fresh == wnd[h].id IN
          /\ wnd' = [wnd EXCEPT ![h].cookie = fresh]
          /\ cookies' = [cookies EXCEPT ![h] = fresh]
          /\ surf' = [surf EXCEPT ![h] = [@ EXCEPT !.cookie = fresh, !.id = wnd[h].id]]
  /\ UNCHANGED <<fg, lock, call, down, events>>

\* The window goes, and a later one gets its handle.
Replace(h) ==
  /\ events < MaxEvents
  /\ events' = events + 1
  /\ wnd' = [wnd EXCEPT ![h] = [id |-> @.id + 1, cookie |-> 0]]
  /\ fg' = IF fg = h THEN Desktop ELSE fg
  /\ call' = [c \in Callers |-> [call[c] EXCEPT !.upset = TRUE]]
  /\ UNCHANGED <<cookies, surf, lock, down>>

\* The user switches windows.
TakeForeground(h) ==
  /\ events < MaxEvents /\ fg # h
  /\ events' = events + 1
  /\ fg' = h
  /\ call' = [c \in Callers |-> [call[c] EXCEPT !.upset = TRUE]]
  /\ UNCHANGED <<wnd, cookies, surf, lock, down>>

-----------------------------------------------------------------------------
(* focus, text and key.                                                    *)

Idle(c) == call[c].at \in {"none", "ok", "lost", "dead", "refused"}
Ends(c, at) ==
  /\ call' = [call EXCEPT ![c].at = at]
  /\ lock' = IF lock = c THEN Nobody ELSE lock

\* A request: key validates every name before it does anything.
Request(c, h, n) ==
  /\ call[c].at = "none"
  /\ call' = [call EXCEPT ![c] = [NoCall EXCEPT !.at = "lock", !.s = surf[h], !.left = n]]
  /\ UNCHANGED <<wnd, cookies, surf, fg, lock, down, events>>

\* Mutant of Lock: calls do not wait for each other.
LockFree(c) ==
  /\ call[c].at = "lock"
  /\ lock' = c
  /\ call' = [call EXCEPT ![c].at = "focus", ![c].upset = FALSE]
  /\ UNCHANGED <<wnd, cookies, surf, fg, down, events>>

\* The input lock covers the focus and every batch of the call.
Lock(c) ==
  /\ call[c].at = "lock" /\ lock = Nobody
  /\ lock' = c
  /\ call' = [call EXCEPT ![c].at = "focus", ![c].upset = FALSE]
  /\ UNCHANGED <<wnd, cookies, surf, fg, down, events>>

\* focus_window: SetForegroundWindow, with one retry behind an empty mouse event;
\* Windows may refuse both.
Activate(c) ==
  /\ call[c].at = "focus"
  /\ IF Resolves(call[c].s)
     THEN /\ call' = [call EXCEPT ![c].at = "poll"]
          /\ \/ fg' = call[c].s.h
             \/ UNCHANGED fg
          /\ UNCHANGED lock
     ELSE Ends(c, "dead") /\ UNCHANGED fg
  /\ UNCHANGED <<wnd, cookies, surf, down, events>>

\* The bounded poll of the foreground: it is the target, the target is gone, or
\* 500 ms pass without it.
Poll(c) ==
  /\ call[c].at = "poll"
  /\ \/ /\ Resolves(call[c].s) /\ fg = call[c].s.h
        /\ IF call[c].left = 0 THEN Ends(c, "ok") ELSE call' = [call EXCEPT ![c].at = "send"] /\ UNCHANGED lock
     \/ ~Resolves(call[c].s) /\ Ends(c, "dead")
     \/ Resolves(call[c].s) /\ fg # call[c].s.h /\ Ends(c, "refused")
  /\ UNCHANGED <<wnd, cookies, surf, fg, down, events>>

\* send: the target resolves and has the foreground, or the call fails.
CheckSend(c) ==
  /\ call[c].at = "send"
  /\ \/ ~Resolves(call[c].s) /\ Ends(c, "dead")
     \/ Resolves(call[c].s) /\ fg # call[c].s.h /\ Ends(c, "lost")
     \/ Resolves(call[c].s) /\ fg = call[c].s.h /\ call' = [call EXCEPT ![c].at = "insert"] /\ UNCHANGED lock
  /\ UNCHANGED <<wnd, cookies, surf, fg, down, events>>

Inserted(c) ==
  IF call[c].left = 1 THEN Ends(c, "ok")
  ELSE call' = [call EXCEPT ![c].at = "send", ![c].left = @ - 1] /\ UNCHANGED lock

\* Mutant of SendInput: a partial batch fails the call and nothing else.
SendInputOnly(c) ==
  /\ call[c].at = "insert"
  /\ \/ Inserted(c) /\ UNCHANGED <<down, events>>
     \/ /\ events < MaxEvents /\ events' = events + 1 /\ Ends(c, "refused")
        /\ \E some \in {{}, {"modifier"}, {"modifier", "key"}} : down' = down \union some
  /\ UNCHANGED <<wnd, cookies, surf, fg>>

\* SendInput inserts the batch, which presses and releases modifiers and key; or
\* a part of it, and the releases of the whole batch are sent after it, which can
\* be blocked too.
SendInput(c) ==
  /\ call[c].at = "insert"
  /\ \/ Inserted(c) /\ UNCHANGED <<down, events>>
     \/ /\ events < MaxEvents /\ events' = events + 1 /\ Ends(c, "refused")
        /\ \/ UNCHANGED down
           \/ events + 1 < MaxEvents /\ down' = down \union {"modifier", "key", "blocked"}
  /\ UNCHANGED <<wnd, cookies, surf, fg>>

-----------------------------------------------------------------------------
(* screenshot.                                                             *)

\* The surface resolves and the one permit is free; the worker thread starts.
StartShot(c, h) ==
  /\ call[c].at = "none"
  /\ IF Resolves(surf[h]) /\ \A d \in Callers : call[d].at \notin {"printing", "abandoned"}
     THEN call' = [call EXCEPT ![c] = [NoCall EXCEPT !.at = "printing", !.s = surf[h]]]
     ELSE call' = [call EXCEPT ![c] = [NoCall EXCEPT !.at = IF Resolves(surf[h]) THEN "refused" ELSE "dead", !.s = surf[h]]]
  /\ UNCHANGED <<wnd, cookies, surf, fg, lock, down, events>>

\* PrintWindow draws whatever window has the handle now, and gives the permit back.
PrintWindow(c) ==
  /\ call[c].at \in {"printing", "abandoned"}
  /\ call' = [call EXCEPT ![c].at = IF @ = "printing" THEN "printed" ELSE "refused",
                          ![c].took = wnd[call[c].s.h].id]
  /\ UNCHANGED <<wnd, cookies, surf, fg, lock, down, events>>

\* Three seconds pass; the worker keeps the permit until Windows returns.
ShotTimesOut(c) ==
  /\ call[c].at = "printing"
  /\ call' = [call EXCEPT ![c].at = "abandoned"]
  /\ UNCHANGED <<wnd, cookies, surf, fg, lock, down, events>>

\* Mutant of FinishShot: the picture is handed out as it came.
FinishShotUnchecked(c) ==
  /\ call[c].at = "printed"
  /\ call' = [call EXCEPT ![c].at = "ok"]
  /\ UNCHANGED <<wnd, cookies, surf, fg, lock, down, events>>

\* The surface must still resolve after the picture was taken.
FinishShot(c) ==
  /\ call[c].at = "printed"
  /\ call' = [call EXCEPT ![c].at = IF Resolves(call[c].s) THEN "ok" ELSE "dead"]
  /\ UNCHANGED <<wnd, cookies, surf, fg, lock, down, events>>

WindowsCallsNext ==
  \/ \E h \in Handles : Identify(h) \/ Replace(h)
  \/ \E h \in Handles \union {Desktop} : TakeForeground(h)
  \/ \E c \in Callers, h \in Handles : StartShot(c, h) \/ (\E n \in 0..MaxBatches : Request(c, h, n))
  \/ \E c \in Callers : \/ Lock(c) \/ Activate(c) \/ Poll(c) \/ CheckSend(c) \/ SendInput(c)
                        \/ PrintWindow(c) \/ ShotTimesOut(c) \/ FinishShot(c)

-----------------------------------------------------------------------------
(* Properties.                                                             *)

\* A surface resolves only to the window it was given out for, however often the
\* handle changes hands (resolve, identify).
ResolvedIsIdentified ==
  \A s \in {surf[h] : h \in Handles} \union {call[c].s : c \in {d \in Callers : call[d].at # "none"}} :
    Resolves(s) => wnd[s.h].id = s.id

\* A call loses the foreground between two of its batches only because somebody
\* outside took it, never to another call: the input lock spans focus and batches
\* (text, key, focus).
LostOnlyToOutsiders == \A c \in Callers : call[c].at = "lost" => call[c].upset

\* Whatever a call's batches did, complete or cut short, no key of it is down once
\* the call is over, unless Windows blocked the releases too (send: "Release our
\* keys after a partial insertion; do not leave modifiers stuck").
NothingLeftDown == lock = Nobody => down = {} \/ "blocked" \in down

\* A screenshot that is answered shows the window of the surface it was asked for,
\* also when the handle changed hands meanwhile (screenshot resolves before and
\* after the drawing).
ShotIsOfTheSurface ==
  [][\A c \in Callers : call[c].at = "printed" /\ call'[c].at = "ok"
       => call[c].took = call[c].s.id]_wcVars
=============================================================================
