----------------------------- MODULE MCClients -----------------------------
(***************************************************************************)
(* The approval inbox, `wait`, `record`, `onboard`, `install`, the socket  *)
(* the daemon listens on, the clock of a link and the console handoff of   *)
(* the Windows helper share no state in these modules.  One run explores   *)
(* each of them while the others rest.                                     *)
(***************************************************************************)
EXTENDS Inbox, Waits, Recorder, Onboard, Install, ControlEndpoint, ClockSync, Handoff

CONSTANT Commands  \* the ones explored; "rest" for none

VARIABLE client   \* the one that runs

clientVars == <<inboxVars, waitVars, recorderVars, onboardVars, installVars, endpointVars, clockVars, handoffVars>>

\* The inbox has been left, the recording and the onboarding are over.
InboxRest ==
  /\ store = [status |-> [r \in Reqs |-> "none"], text |-> [r \in Reqs |-> 1], gone |-> {}, grants |-> {}]
  /\ stream = NoStream /\ shown = NoUpdate /\ chan = NoCmd /\ late = {}
  /\ net = [NewNet EXCEPT !.pc = "over"] /\ ui = [NewUi EXCEPT !.run = FALSE]
  /\ inboxPast = [answered |-> {}, chosen |-> [r \in Reqs |-> NoChoice], sends |-> 0]
RecorderRest ==
  /\ track = [taken |-> <<>>, ended |-> FALSE] /\ session = "none" /\ rclock = 0
  /\ rec = [NewRecorder(FALSE) EXCEPT !.pc = "over"]
OnboardRest ==
  /\ tcc = {} /\ daemon = FreshProcess
  /\ host = [bundled |-> TRUE, launchd |-> TRUE, changes |-> 0, meddling |-> 0, revoked |-> {}]
  /\ ob = [NewOnboard(FALSE) EXCEPT !.pc = "over"]

ClientsInit ==
  /\ client \in Commands
  /\ IF client = "inbox" THEN InboxInit ELSE InboxRest
  /\ IF client = "record" THEN RecorderInit ELSE RecorderRest
  /\ IF client = "onboard" THEN OnboardInit ELSE OnboardRest
  /\ WaitsInit /\ InstallInit /\ ClockInit /\ HandoffInit
  /\ EndpointInit /\ (client # "endpoint" => os = "unix")

InboxPart == client = "inbox" /\ InboxNext
             /\ UNCHANGED <<waitVars, recorderVars, onboardVars, installVars, endpointVars, clockVars, handoffVars>>
WaitPart == client = "wait" /\ WaitsNext
             /\ UNCHANGED <<inboxVars, recorderVars, onboardVars, installVars, endpointVars, clockVars, handoffVars>>
RecordPart == client = "record" /\ RecorderNext
             /\ UNCHANGED <<inboxVars, waitVars, onboardVars, installVars, endpointVars, clockVars, handoffVars>>
OnboardPart == client = "onboard" /\ OnboardNext
             /\ UNCHANGED <<inboxVars, waitVars, recorderVars, installVars, endpointVars, clockVars, handoffVars>>
InstallPart == client = "install" /\ InstallNext
             /\ UNCHANGED <<inboxVars, waitVars, recorderVars, onboardVars, endpointVars, clockVars, handoffVars>>
EndpointPart == client = "endpoint" /\ EndpointNext
             /\ UNCHANGED <<inboxVars, waitVars, recorderVars, onboardVars, installVars, clockVars, handoffVars>>
ClockPart == client = "clock" /\ ClockNext
             /\ UNCHANGED <<inboxVars, waitVars, recorderVars, onboardVars, installVars, endpointVars, handoffVars>>
HandoffPart == client = "handoff" /\ HandoffNext
             /\ UNCHANGED <<inboxVars, waitVars, recorderVars, onboardVars, installVars, endpointVars, clockVars>>

ClientsNext ==
  /\ \/ InboxPart \/ WaitPart \/ RecordPart \/ OnboardPart \/ InstallPart \/ EndpointPart \/ ClockPart \/ HandoffPart
  /\ UNCHANGED client

ClientsSpec == ClientsInit /\ [][ClientsNext]_<<client, clientVars>>
-----------------------------------------------------------------------------
\* The inbox: every decision is answered once, a request is decided once from here, for
\* the duration chosen for it, and no update of the daemon is lost (approvals.rs).
InboxDecidesOnce ==
  /\ client = "inbox" => InboxTypeOK
  /\ AnsweredOnce /\ OneDecision /\ DurationIsForThisRequest /\ NoLostUpdate

\* What a command reports when it ends is so: wait's answer and its time-out, the frames
\* and the length of a recording and its deleted session, onboard's exit status and the
\* dialogs it opened, what install and uninstall leave (wait.rs, record.rs, onboard.rs,
\* install.rs).
CommandsTellTruth ==
  /\ CASE client = "wait" -> WaitsTypeOK [] client = "record" -> RecorderTypeOK
       [] client = "onboard" -> OnboardTypeOK [] client = "install" -> InstallTypeOK [] OTHER -> TRUE
  /\ AnswerIsTrue /\ TimeoutIsFair
  /\ EveryFrameAccounted /\ CoversDuration /\ NoSessionLeft
  /\ ZeroMeansAll /\ GrantIsFound /\ DialogShown
  /\ SourceSurvives /\ RefusalTouchesNothing /\ LinkWorks

\* The two ends of a connection agree on whom and when: one daemon serves a pipe, a start
\* fails only by a rival, both paths lead to one daemon, and the clock estimate is off by
\* no more than the round trip it was made from (porthole-transport lib.rs, clock.rs).
EndsAgree ==
  /\ client = "endpoint" => EndpointTypeOK
  /\ OneServer /\ StartFailsOnlyByRival /\ PathsLeadToOneDaemon
  /\ SampleWithinHalfRoundTrip /\ EstimateWithinGoodRoundTrip
=============================================================================
