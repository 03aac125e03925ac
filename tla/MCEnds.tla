------------------------------- MODULE MCEnds -------------------------------
(***************************************************************************)
(* What must eventually happen: one of the adapters' calls, of the clients *)
(* or of the daemon's two registries runs, the others rest, and every fair *)
(* step of the one that runs is taken.  No fair action of a resting part   *)
(* is enabled.                                                             *)
(***************************************************************************)
EXTENDS MCAdapters, MCClients

CONSTANTS
  Registries,  \* the ones explored; "rest" for none
  Absent

VARIABLES
  registry,                                                               \* the one that runs
  record, cpu, creator, startup, monitor, source, setup, mapped, asked,   \* CaptureSessions
  retired, adapter,
  agent, token, surface, rstatus, rkey, gduration, gconstraint, consumed, \* AgentPolicy
  grevoked, expired, remembered, audit, published, pc, task, uses, restarts

\* One session of an adapter that pushes frames, with two consumers of which
\* one holds another session's token, and one setup connection at a time.
Capture == INSTANCE CaptureSessions WITH
  conn <- setup, held <- mapped, Sessions <- {"s1"}, Consumers <- {"c1", "c2"}, Strangers <- {"c2"},
  Adapters <- {"pushes"}, HistoryLimit <- 1, MaxConnections <- 1, None <- Absent

\* One agent that drives one surface, one request, one operator, one restart.
Policy == INSTANCE AgentPolicy WITH
  events <- published, Agents <- {"a1"}, Tokens <- {"k1"}, TokenAgent <- [k \in {"k1"} |-> "a1"],
  Surfaces <- {"w1"}, Calls <- {[target |-> "w1", actions |-> {"drive"}, input |-> "allowed"]},
  Approvals <- {[duration |-> "once", constraint |-> "none"]}, Callers <- {"c1"}, Operators <- {"o1"},
  MaxRestarts <- 1, None <- Absent

captureVars == <<record, cpu, creator, startup, monitor, source, setup, mapped, asked, retired, adapter>>
policyVars == <<agent, token, surface, rstatus, rkey, gduration, gconstraint, consumed, grevoked, expired,
                remembered, audit, published, pc, task, uses, restarts>>

EndsInit ==
  /\ registry \in Registries
  /\ AdaptersInit /\ ClientsInit /\ Capture!Init /\ Policy!Init
  /\ \/ registry # "rest" /\ part = "rest" /\ client = "rest"
     \/ registry = "rest" /\ part # "rest" /\ client = "rest"
     \/ registry = "rest" /\ part = "rest" /\ client # "rest"

AdapterPart == AdaptersNext /\ UNCHANGED <<client, clientVars, captureVars, policyVars>>
\* The operator decides from the lists: what a detail shows does not delay an answer.
ClientPart == ClientsNext /\ ui'.detail = NoDetail /\ UNCHANGED <<part, adapterVars, captureVars, policyVars>>
CapturePart == registry = "capture" /\ Capture!Next
               /\ UNCHANGED <<part, adapterVars, client, clientVars, policyVars>>
PolicyPart == registry = "policy" /\ Policy!Next
               /\ UNCHANGED <<part, adapterVars, client, clientVars, captureVars>>

EndsNext == (AdapterPart \/ ClientPart \/ CapturePart \/ PolicyPart) /\ UNCHANGED registry

endsVars == <<registry, part, adapterVars, client, clientVars, captureVars, policyVars>>

SomeRun == EndsInit /\ [][EndsNext]_endsVars

CallsSpec ==
  /\ SomeRun
  /\ InputFairness /\ KWinFairness /\ PortalFairness /\ ShotFairness
  /\ Capture!Fairness /\ Policy!Fairness

CommandsSpec ==
  SomeRun /\ InboxFairness /\ WaitsFairness /\ RecorderFairness /\ OnboardFairness /\ EndpointFairness
-----------------------------------------------------------------------------
\* Every request that creates a capture session is answered or dropped: the first frame,
\* an adapter that fails, a startup cancelled by DELETE or the timeout decides it.
CreateIsAnswered == Capture!CreateIsAnswered

\* Once a capture session is over, whoever ended it, the adapter's stream is dropped.
RecordingStops == Capture!RecordingStops

\* A closing capture session retires once its consumers have unmapped for good.
ClosingRetires == Capture!ClosingRetires

\* A pending request whose agent was revoked or whose surface is gone does not stay
\* pending: the inbox's reads retire it.
StaleRequestRetires == Policy!StaleRequestRetires

\* Calls into the desktop end although it does not answer, and a controller that leaves
\* is released (lib.rs, remote_desktop.rs, screenshot.rs, input_executor.rs).
DesktopCallsEnd == DepartureReleases /\ CallsEnd /\ PortalCallsEnd /\ ShotEnds

\* The daemon's registries settle: creates are answered, ended recordings stop, closing
\* sessions and stale requests retire (capture_registry.rs, agent_store.rs).
RegistriesSettle == CreateIsAnswered /\ RecordingStops /\ ClosingRetires /\ StaleRequestRetires

\* Whoever uses a command line client gets an end: the inbox hears of every decision and
\* shows every request, wait, record and onboard end, and a connection is served.
ClientsAreServed ==
  BusyEnds /\ RequestIsShown /\ WaitIsAnswered /\ RecordingEnds /\ OnboardEnds /\ ConnectedIsServed
=============================================================================
