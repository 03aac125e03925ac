------------------------------ MODULE MacWindows ------------------------------
(***************************************************************************)
(* One call of the macOS adapter on a window, through the Accessibility    *)
(* API: focus, close, place, reading geometry, and the keys that are sent  *)
(* to whichever window has the keyboard.  Every reference the API hands    *)
(* out must be released once; the windows in the array it hands out are    *)
(* borrowed from the array.  The user and the apps act between any steps.  *)
(***************************************************************************)
EXTENDS Integers, Sequences

CONSTANTS
  Apps,       \* the processes
  MacWins,    \* the windows
  AppOf,      \* the process of each window
  Children,   \* the areas of a window's children as AX lists them: sequences; 0 cannot be read
  MaxPolls,   \* how often close looks whether the window went
  MaxUser,    \* bound: what the user does meanwhile
  MaxCalls    \* bound: calls

ASSUME MacAssumption ==
  /\ AppOf \in [MacWins -> Apps] /\ Children # {} /\ Children \subseteq Seq(Nat)
  /\ {MaxPolls, MaxUser, MaxCalls} \subseteq Nat

VARIABLES
  desk,   \* the windows there are, the frontmost app, each app's key window
  mac,   \* the call that runs
  macPast    \* history: windows touched through AX, windows that got keys

macVars == <<desk, mac, macPast>>

NoMacWin == "none"
MacOps == {"focus", "close", "place", "bounds", "content", "key", "text"}

WinsOf(a) == {w \in desk.wins : AppOf[w] = a}
NoMacCall == [pc |-> "idle", op |-> "focus", win |-> NoMacWin, exact |-> TRUE, stage |-> "ax", refs |-> {},
           borrowed |-> NoMacWin, answer |-> "none", polls |-> 0, count |-> 0,
           kids |-> <<>>, picked |-> 0, descent |-> "none"]

\* The key window of an app is one of its windows, when it has any.
Rekey(d) == [d EXCEPT !.key = [a \in Apps |->
               LET ws == {w \in d.wins : AppOf[w] = a} IN
               IF d.key[a] \in ws THEN d.key[a] ELSE IF ws = {} THEN NoMacWin ELSE CHOOSE w \in ws : TRUE]]
WindowClosed(w) == Rekey([desk EXCEPT !.wins = @ \ {w}])

(***************************************************************************)
(* The user.                                                               *)
(***************************************************************************)
UserActs ==
  /\ macPast.user < MaxUser
  /\ \/ \E w \in desk.wins : desk' = WindowClosed(w)
     \/ \E w \in desk.wins : desk' = [desk EXCEPT !.front = AppOf[w], !.key[AppOf[w]] = w]
  /\ macPast' = [macPast EXCEPT !.user = @ + 1]
  /\ UNCHANGED mac

(***************************************************************************)
(* The call.                                                               *)
(***************************************************************************)
MacAnswer(a) == [mac EXCEPT !.pc = "over", !.answer = a]

\* After the accessibility check.  A surface without a window id is found by its process.
BeginMacCall(op, w, exact) ==
  /\ mac.pc \in {"idle", "over"} /\ mac.count < MaxCalls
  /\ op \in {"place", "content"} => exact
  /\ mac' = [NoMacCall EXCEPT !.op = op, !.win = w, !.exact = exact, !.count = mac.count + 1,
                            !.pc = CASE op \in {"focus", "key"} -> "front"
                                     [] op = "text" -> "post"
                                     [] OTHER -> "open"]
  /\ macPast' = [macPast EXCEPT !.touched = {}, !.typed = {}]
  /\ UNCHANGED desk

\* focus ends at once when the app is frontmost already.
CheckFront ==
  /\ mac.pc = "front"
  /\ mac' = IF desk.front = AppOf[mac.win] THEN [mac EXCEPT !.pc = "focused"]
             ELSE [mac EXCEPT !.pc = "activate"]
  /\ UNCHANGED <<desk, macPast>>

\* activate_app; an app without a process is a dead surface.
ActivateApp ==
  /\ mac.pc = "activate"
  /\ \/ desk' = [desk EXCEPT !.front = AppOf[mac.win]] /\ mac' = [mac EXCEPT !.pc = "open", !.stage = "raise"]
     \/ WinsOf(AppOf[mac.win]) = {} /\ mac' = MacAnswer("dead") /\ UNCHANGED desk
  /\ UNCHANGED macPast

\* AXUIElementCreateApplication and the AXWindows array.
OpenApp ==
  /\ mac.pc = "open"
  /\ mac' = [mac EXCEPT !.pc = "list", !.refs = @ \cup {"app"}]
  /\ UNCHANGED <<desk, macPast>>

CopyWindows ==
  /\ mac.pc = "list"
  /\ \/ mac' = [mac EXCEPT !.pc = "find", !.refs = @ \cup {"windows"}]
     \/ mac' = [mac EXCEPT !.pc = "drop", !.answer = "permission"]
  /\ UNCHANGED <<desk, macPast>>

\* Mutant of FindWindow: a window that is not listed is taken to be the first one.
FindOrFirst ==
  /\ mac.pc = "find"
  /\ LET ws == WinsOf(AppOf[mac.win])
         hits == IF mac.exact /\ mac.win \in ws THEN {mac.win} ELSE ws
     IN \/ \E w \in hits : mac' = [mac EXCEPT !.pc = "act", !.borrowed = w]
        \/ hits = {} /\ mac' = [mac EXCEPT !.pc = "drop", !.answer = "dead"]
  /\ UNCHANGED <<desk, macPast>>

\* with_ax_window_by_cg_id and with_first_window_for_pid: the window of the id, or any first
\* one when the surface has no id; none is a dead surface.
FindWindow ==
  /\ mac.pc = "find"
  /\ LET ws == WinsOf(AppOf[mac.win])
         hits == IF mac.exact THEN ws \cap {mac.win} ELSE ws
     IN \/ \E w \in hits : mac' = [mac EXCEPT !.pc = "act", !.borrowed = w]
        \/ hits = {} /\ mac' = [mac EXCEPT !.pc = "drop", !.answer = "dead"]
  /\ UNCHANGED <<desk, macPast>>

\* AXRaise makes the window its app's key window; what it answers is not looked at.
RaiseWindow ==
  /\ mac.pc = "act" /\ mac.stage = "raise"
  /\ desk' = IF mac.borrowed \in desk.wins THEN [desk EXCEPT !.key[AppOf[mac.borrowed]] = mac.borrowed] ELSE desk
  /\ mac' = [mac EXCEPT !.pc = "drop", !.answer = "focused"]
  /\ macPast' = [macPast EXCEPT !.touched = @ \cup {mac.borrowed}]

\* The window's close button is copied, or it has none.
CopyButton ==
  /\ mac.pc = "act" /\ mac.stage = "ax" /\ mac.op = "close"
  /\ \/ mac' = [mac EXCEPT !.pc = "press", !.refs = @ \cup {"button"}]
     \/ mac' = [mac EXCEPT !.pc = "drop", !.answer = "fallback"]
  /\ UNCHANGED <<desk, macPast>>

\* AXPress, after which the button is released; the app closes the window or asks its user.
PressButton ==
  /\ mac.pc = "press"
  /\ (desk' = desk \/ desk' = WindowClosed(mac.borrowed))
  /\ mac' = [mac EXCEPT !.pc = "drop", !.answer = "pressed", !.refs = @ \ {"button"}]
  /\ macPast' = [macPast EXCEPT !.touched = @ \cup {mac.borrowed}]

\* place_surface: both attributes are written, each through a value created for it, which is
\* released; either may be refused.
WriteRect ==
  /\ mac.pc = "act" /\ mac.op = "place"
  /\ (mac' = [mac EXCEPT !.pc = "drop", !.answer = "ok"] \/ mac' = [mac EXCEPT !.pc = "drop", !.answer = "refused"])
  /\ macPast' = [macPast EXCEPT !.touched = @ \cup {mac.borrowed}]
  /\ UNCHANGED desk

\* bounds_from_ax: position and size, each copied, read and released; one that cannot be read
\* is left at zero.
ReadBounds ==
  /\ mac.pc = "act" /\ mac.op = "bounds"
  /\ \/ mac' = [mac EXCEPT !.pc = "value", !.refs = @ \cup {"value"}]
     \/ mac' = [mac EXCEPT !.pc = "drop", !.answer = "ok"]
  /\ UNCHANGED <<desk, macPast>>

ReleaseBounds ==
  /\ mac.pc = "value"
  /\ mac' = [mac EXCEPT !.pc = "drop", !.answer = "ok", !.refs = @ \ {"value"}]
  /\ UNCHANGED <<desk, macPast>>

\* content_rect: the window's own position comes first.
ReadOuter ==
  /\ mac.pc = "act" /\ mac.op = "content"
  /\ \/ mac' = [mac EXCEPT !.pc = "contents"]
     \/ mac' = [mac EXCEPT !.pc = "drop", !.answer = "refused"]
  /\ UNCHANGED <<desk, macPast>>

\* AXContents: its first element, if it has one.
DescendContents ==
  /\ mac.pc = "contents"
  /\ \/ mac' = [mac EXCEPT !.pc = "children"]
     \/ \E kids \in Children :
          mac' = IF kids = <<>> THEN [mac EXCEPT !.pc = "children"]
                  ELSE [mac EXCEPT !.pc = "child", !.kids = kids, !.picked = 1, !.descent = "contents",
                                    !.refs = @ \cup {"array"}]
  /\ UNCHANGED <<desk, macPast>>

\* Mutant of BestChild: a later child as large as the best replaces it.
BestChildLast(kids) ==
  LET best[i \in 0..Len(kids)] ==
        IF i = 0 THEN 0
        ELSE IF kids[i] = 0 \/ (best[i-1] # 0 /\ kids[i] < kids[best[i-1]]) THEN best[i-1] ELSE i
  IN best[Len(kids)]

\* The child of the largest area, of those that can be read; 0 when there is none.
BestChild(kids) ==
  LET best[i \in 0..Len(kids)] ==
        IF i = 0 THEN 0
        ELSE IF kids[i] = 0 \/ (best[i-1] # 0 /\ kids[i] <= kids[best[i-1]]) THEN best[i-1] ELSE i
  IN best[Len(kids)]

\* AXChildren: the largest child.  The array is held while its elements are read.
DescendChildren ==
  /\ mac.pc = "children"
  /\ \/ mac' = [mac EXCEPT !.pc = "drop", !.answer = "unavailable"]
     \/ \E kids \in Children :
          mac' = IF BestChild(kids) = 0 THEN [mac EXCEPT !.pc = "drop", !.answer = "unavailable"]
                  ELSE [mac EXCEPT !.pc = "child", !.kids = kids, !.picked = BestChild(kids),
                                    !.descent = "largest_child", !.refs = @ \cup {"array"}]
  /\ UNCHANGED <<desk, macPast>>

\* Mutant of ReadChild: the early return that keeps the array.
ReadChildOrReturn ==
  /\ mac.pc = "child"
  /\ \/ mac' = [mac EXCEPT !.pc = "drop", !.answer = "ok", !.refs = @ \ {"array"}]
     \/ mac' = [mac EXCEPT !.pc = "drop", !.answer = "unavailable"]
  /\ UNCHANGED <<desk, macPast>>

\* extract_child_info: position and size relative to the window, or an error, which ends the
\* call also where the other descent was still to be tried; the array is released first.
ReadChild ==
  /\ mac.pc = "child"
  /\ \/ mac' = [mac EXCEPT !.pc = "drop", !.answer = "ok", !.refs = @ \ {"array"}]
     \/ mac' = [mac EXCEPT !.pc = "drop", !.answer = "unavailable", !.refs = @ \ {"array"}]
  /\ UNCHANGED <<desk, macPast>>

\* The array and the app are released, and the call goes on: a raise that fails matters only to
\* a surface with an id, and a close without a button falls back to the keyboard.
DropRefs ==
  /\ mac.pc = "drop"
  /\ LET c == [mac EXCEPT !.refs = @ \ {"windows", "app"}, !.borrowed = NoMacWin] IN
     mac' = CASE c.stage = "raise" ->
                    (IF c.answer = "focused" \/ ~c.exact THEN [c EXCEPT !.pc = "focused"] ELSE [c EXCEPT !.pc = "over"])
               [] c.op = "close" /\ c.answer = "pressed" -> [c EXCEPT !.pc = "poll"]
               [] c.op = "close" /\ (c.answer = "fallback" \/ ~c.exact) -> [c EXCEPT !.pc = "front"]
               [] OTHER -> [c EXCEPT !.pc = "over"]
  /\ UNCHANGED <<desk, macPast>>

\* focus has returned: to its caller, to key, or to close.
FocusReturns ==
  /\ mac.pc = "focused"
  /\ mac' = IF mac.op = "focus" THEN MacAnswer("ok") ELSE [mac EXCEPT !.pc = "post"]
  /\ UNCHANGED <<desk, macPast>>

\* Keys go to the key window of the frontmost app (HID), text to that of the surface's process;
\* Cmd+W closes the window that gets it, or is vetoed.
PostKeys ==
  /\ mac.pc = "post"
  /\ LET to == IF mac.op = "text" THEN desk.key[AppOf[mac.win]] ELSE desk.key[desk.front] IN
     /\ macPast' = [macPast EXCEPT !.typed = @ \cup ({to} \ {NoMacWin})]
     /\ desk' = desk \/ (mac.op = "close" /\ to # NoMacWin /\ desk' = WindowClosed(to))
  /\ mac' = IF mac.op = "close" THEN [mac EXCEPT !.pc = "poll"]
             ELSE IF mac.op = "text" /\ WinsOf(AppOf[mac.win]) = {} THEN MacAnswer("dead") ELSE MacAnswer("ok")

\* Mutant of PollClosed: the close is believed once it was asked for.
PollOnce ==
  /\ mac.pc = "poll"
  /\ mac' = MacAnswer("ok")
  /\ UNCHANGED <<desk, macPast>>

\* Mutant of PollClosed: the last look is one too many.
PollOnceMore ==
  /\ mac.pc = "poll"
  /\ LET there == IF mac.exact THEN mac.win \in desk.wins ELSE WinsOf(AppOf[mac.win]) # {} IN
     mac' = IF ~there THEN MacAnswer("ok")
            ELSE IF mac.polls > MaxPolls THEN MacAnswer("close_failed") ELSE [mac EXCEPT !.polls = @ + 1]
  /\ UNCHANGED <<desk, macPast>>

\* close reports success only for a window that is no longer listed.
PollClosed ==
  /\ mac.pc = "poll"
  /\ LET there == IF mac.exact THEN mac.win \in desk.wins ELSE WinsOf(AppOf[mac.win]) # {} IN
     mac' = IF ~there THEN MacAnswer("ok")
             ELSE IF mac.polls + 1 >= MaxPolls THEN MacAnswer("close_failed") ELSE [mac EXCEPT !.polls = @ + 1]
  /\ UNCHANGED <<desk, macPast>>
-----------------------------------------------------------------------------
MacInit ==
  /\ \E a \in Apps : desk = Rekey([wins |-> MacWins, front |-> a, key |-> [b \in Apps |-> NoMacWin]])
  /\ mac = NoMacCall
  /\ macPast = [touched |-> {}, typed |-> {}, user |-> 0]

MacStep == \/ CheckFront \/ ActivateApp \/ OpenApp \/ CopyWindows \/ FindWindow \/ RaiseWindow \/ CopyButton \/ PressButton
           \/ WriteRect \/ ReadBounds \/ ReleaseBounds \/ ReadOuter
           \/ DescendContents \/ DescendChildren \/ ReadChild \/ DropRefs \/ FocusReturns \/ PostKeys \/ PollClosed

MacNext == \/ UserActs \/ MacStep
           \/ \E op \in MacOps, w \in MacWins, exact \in BOOLEAN : BeginMacCall(op, w, exact)
-----------------------------------------------------------------------------
\* The desktop and the call have their shape.
MacTypeOK ==
  /\ desk.wins \subseteq MacWins /\ desk.front \in Apps
  /\ desk.key \in [Apps -> MacWins \cup {NoMacWin}]
  /\ mac.op \in MacOps /\ mac.borrowed \in MacWins \cup {NoMacWin}
  /\ mac.refs \subseteq {"app", "windows", "button", "value", "array"}
  /\ mac.polls \in 0..MaxPolls

\* A call on a surface with a window id touches that window through AX and no other, also when
\* the window went away under it: there is no falling back to a sibling.
OnlyItsWindow == mac.exact => macPast.touched \subseteq {mac.win}

\* Every reference is released on every path, and a borrowed window is used only while the array
\* it comes from is held.
RefsBalanced ==
  /\ mac.pc \in {"idle", "over", "front", "post", "poll", "focused"} => mac.refs = {}
  /\ mac.borrowed # NoMacWin => "windows" \in mac.refs

\* The content rectangle found by size is of a child no other child is larger than, and of the
\* first of those, so that asking again finds the same one.
ContentIsTheLargest ==
  mac.descent = "largest_child" =>
    /\ mac.kids[mac.picked] > 0
    /\ \A i \in DOMAIN mac.kids : IF i < mac.picked THEN mac.kids[i] < mac.kids[mac.picked]
                                   ELSE mac.kids[i] <= mac.kids[mac.picked]

\* A close that reports success has seen the window gone.
ClosedIsGone == (mac.op = "close" /\ mac.answer = "ok" /\ mac.exact) => mac.win \notin desk.wins
=============================================================================
