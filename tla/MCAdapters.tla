----------------------------- MODULE MCAdapters -----------------------------
(***************************************************************************)
(* The adapters' dealings with their desktops share no state: each is      *)
(* another platform, or another call on the same one.  One run explores    *)
(* each of them from its initial state while the others rest in theirs.    *)
(***************************************************************************)
EXTENDS InputExecutor, WindowsLaunch, WindowsCalls, KWinBridge, KWinPortal, KWinLaunch, KWinShot, MacWindows

CONSTANT Parts  \* the ones explored; "rest" for none

VARIABLE part   \* the one that runs

adapterVars == <<inputVars, launchVars, wcVars, kwinVars, portalVars, kwinLaunchVars, shotVars, macVars>>

MCOwner(p) == IF p = "p1" THEN "c1" ELSE "c2"
MCOpsOf == [c \in PCalls |-> CASE c = "p1" -> {"click", "scroll", "move"} [] c = "p2" -> {"key", "text"}
                               [] OTHER -> {"prompt"}]
MCSpot == [c \in PCalls |-> 2]
\* A transparent, an opaque and two translucent pixels.
MCTexels == << <<3, 5, 7, 11>>, <<0, 0, 0, 0>>, <<200, 100, 50, 255>>, <<1, 2, 0, 2>> >>
MCChildren == {<<>>, <<0>>, <<1, 2, 2>>, <<2, 0, 1>>}
MCAppOf == [w \in MacWins |-> IF w = "b1" THEN "b" ELSE "a"]

AdaptersInit ==
  /\ part \in Parts
  /\ InputInit /\ WindowsLaunchInit /\ WindowsCallsInit /\ KWinInit /\ PortalInit /\ KWinLaunchInit /\ ShotInit
  /\ MacInit /\ (part # "mac" => desk.front = CHOOSE a \in Apps : TRUE)

InputPart == part = "input" /\ InputNext
             /\ UNCHANGED <<launchVars, wcVars, kwinVars, portalVars, kwinLaunchVars, shotVars, macVars>>
WindowsLaunchPart == part = "windows_launch" /\ WindowsLaunchNext
             /\ UNCHANGED <<inputVars, wcVars, kwinVars, portalVars, kwinLaunchVars, shotVars, macVars>>
WindowsPart == part = "windows" /\ WindowsCallsNext
             /\ UNCHANGED <<inputVars, launchVars, kwinVars, portalVars, kwinLaunchVars, shotVars, macVars>>
BridgePart == part = "bridge" /\ KWinNext
             /\ UNCHANGED <<inputVars, launchVars, wcVars, portalVars, kwinLaunchVars, shotVars, macVars>>
PortalPart == part = "portal" /\ PortalNext
             /\ UNCHANGED <<inputVars, launchVars, wcVars, kwinVars, kwinLaunchVars, shotVars, macVars>>
KWinLaunchPart == part = "kwin_launch" /\ KWinLaunchNext
             /\ UNCHANGED <<inputVars, launchVars, wcVars, kwinVars, portalVars, shotVars, macVars>>
ShotPart == part = "shot" /\ ShotNext
             /\ UNCHANGED <<inputVars, launchVars, wcVars, kwinVars, portalVars, kwinLaunchVars, macVars>>
MacPart == part = "mac" /\ MacNext
             /\ UNCHANGED <<inputVars, launchVars, wcVars, kwinVars, portalVars, kwinLaunchVars, shotVars>>

AdaptersNext ==
  /\ \/ InputPart \/ WindowsLaunchPart \/ WindowsPart \/ BridgePart \/ PortalPart \/ KWinLaunchPart \/ ShotPart \/ MacPart
  /\ UNCHANGED part

\* Controllers, calls, scripts and windows come in order: another order only renames them.
InOrder ==
  /\ \A c \in Controllers : conn'[c] # "none" => conn'["c1"] # "none"
  /\ \A c \in Callers : call'[c].at # "none" => call'["a"].at # "none"
  /\ \A c \in KCalls : kcall'[c].at # "none" => kcall'["k1"].at # "none"
  /\ \A s \in Scripts : script'[s].at # "off" => script'["s1"].at # "off" \/ comp.stops > 0
  /\ \A w \in Wins : wins'[w].state # "none" => wins'["w1"].state # "none"

AdaptersSpec == AdaptersInit /\ [][AdaptersNext /\ InOrder]_<<part, adapterVars>>
-----------------------------------------------------------------------------
\* Driven input: what is down at the application is recorded as held, a controller
\* inherits no press of the one before, and a drag goes on from where the pointer is
\* (input_executor.rs, porthole-adapter-macos input.rs).
HeldInputIsKnown ==
  /\ part = "input" => InputTypeOK
  /\ DownIsHeld /\ NoInheritedPress /\ HeldPointIsThePointer

\* The window acted on is the one meant, although process ids, window handles and lists
\* change under the call: the launched tree and window are ours, a handle is resolved by
\* identity, input is lost only to outsiders and leaves no key down (Windows); close and
\* content_rect find their window and balance what they retain (macOS).
WindowIsTheOneMeant ==
  /\ CASE part = "windows_launch" -> WindowsLaunchTypeOK [] part = "windows" -> WindowsCallsTypeOK
       [] part = "mac" -> MacTypeOK [] OTHER -> TRUE
  /\ TreeIsOurs /\ LaunchedSurfaceIsOurs
  /\ ResolvedIsIdentified /\ LostOnlyToOutsiders /\ NothingLeftDown
  /\ OnlyItsWindow /\ RefsBalanced /\ ContentIsTheLargest /\ ClosedIsGone

\* What KWin is asked for happens once and is answered truly: commands, consent dialogs,
\* the window a launch returns, and the picture read from the compositor's pipe.
KWinAnswersTrue ==
  /\ CASE part = "bridge" -> KWinTypeOK [] part = "portal" -> PortalTypeOK
       [] part = "kwin_launch" -> KWinLaunchTypeOK [] part = "shot" -> ShotTypeOK [] OTHER -> TRUE
  /\ OkMeansDoneOnce /\ NothingLeftBehind
  /\ OneConsentAtATime /\ NoOrphanConsent
  /\ ReturnedNewIsNew /\ StrongIsOurs
  /\ PictureIsTheImage /\ NeverPastTheEnd /\ StallIsKWins

\* A step never uses what was read too long ago: a screenshot is handed out for the window
\* drawn, a command not after its time-out, a refresh not with an old snapshot, a click
\* not where the pointer was before.
NothingStaleIsUsed == ShotIsOfTheSurface /\ NoLateHandout /\ RefreshIsFresh /\ PointerLands
=============================================================================
