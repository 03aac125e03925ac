------------------------------- MODULE Onboard -------------------------------
(***************************************************************************)
(* `porthole onboard`: for each system permission the daemon lacks, fire   *)
(* the OS prompt, wait for the user, restart the daemon and read back what *)
(* the new process sees.  A macOS process learns its trust once and keeps  *)
(* it, and TCC opens one dialog per process, which is why the flow has the *)
(* shape it has.                                                           *)
(***************************************************************************)
EXTENDS Integers

CONSTANTS
  Perms,        \* SUPPORTED_PERMISSIONS, by their place in the list: 1..n
  MaxChanges,   \* bound: what the user does in System Settings
  MaxMeddling   \* bound: other clients' calls that miss a permission

ASSUME OnboardAssumption ==
  /\ Perms \subseteq Nat \ {0} /\ Perms # {}
  /\ {MaxChanges, MaxMeddling} \subseteq Nat

VARIABLES
  tcc,     \* the permissions the user has granted
  daemon,  \* the daemon's process: up, its cached trust, whether it has opened a dialog
  host,    \* how the daemon was started: from a bundle, under launchd, and what others did
  ob       \* the command

onboardVars == <<tcc, daemon, host, ob>>

\* A process starts without having looked at its trust.
FreshProcess == [up |-> TRUE, dying |-> FALSE, trust |-> [p \in Perms |-> "unread"], dialog |-> FALSE]

NewOnboard(noWait) ==
  [pc |-> "info", noWait |-> noWait, todo |-> {}, cur |-> 0, missing |-> {}, requestError |-> FALSE, exit |-> -1,
   confirmed |-> {}, silent |-> {}, lingered |-> FALSE, grantedAtEnter |-> {}, excused |-> {}]

(***************************************************************************)
(* The user, launchd and other clients.                                    *)
(***************************************************************************)
UserChanges(p) ==
  /\ host.changes < MaxChanges
  /\ \/ p \notin tcc /\ tcc' = tcc \cup {p} /\ host' = [host EXCEPT !.changes = @ + 1]
     \/ p \in tcc /\ tcc' = tcc \ {p} /\ host' = [host EXCEPT !.changes = @ + 1, !.revoked = @ \cup {p}]
  /\ UNCHANGED <<daemon, ob>>

\* The process that was told to end has ended.
DaemonExits ==
  /\ daemon.up /\ daemon.dying
  /\ daemon' = [daemon EXCEPT !.up = FALSE]
  /\ UNCHANGED <<tcc, host, ob>>

\* launchd starts the daemon again: KeepAlive, and the second kickstart.
DaemonComesUp ==
  /\ ~daemon.up \/ daemon.dying
  /\ daemon' = FreshProcess
  /\ UNCHANGED <<tcc, host, ob>>

\* live_check: the process's first look at a permission is its last.
Trust(d, ps) == [d EXCEPT !.trust = [p \in Perms |->
                   IF p \in ps /\ d.trust[p] = "unread" THEN (IF p \in tcc THEN "yes" ELSE "no") ELSE d.trust[p]]]

\* GET /info makes the process look at all of them.
SystemPermissions(d) == Trust(d, Perms)

\* request_prompt: TCC opens the dialog of the first request of a process only.
Prompted(d) == [d EXCEPT !.dialog = TRUE]

\* POST /system-permissions/request: a permission this process has seen granted needs no prompt,
\* and outside a bundle there is none.
FirePrompt(d, p) ==
  LET seen == Trust(d, {p}) IN
  IF seen.trust[p] = "yes" THEN [ok |-> TRUE, process |-> seen]
  ELSE IF host.bundled THEN [ok |-> TRUE, process |-> Prompted(seen)]
  ELSE [ok |-> FALSE, process |-> seen]

\* ensure_granted on behalf of some other call: a miss fires the prompt.
EnsureGranted(p) ==
  /\ daemon.up /\ host.meddling < MaxMeddling
  /\ daemon' = FirePrompt(daemon, p).process
  /\ host' = [host EXCEPT !.meddling = @ + 1]
  /\ UNCHANGED <<tcc, ob>>

(***************************************************************************)
(* The command.                                                            *)
(***************************************************************************)
Abort == [ob EXCEPT !.pc = "over", !.exit = 2]

\* The exit code: 3 for prompts fired and not waited for, 1 for anything missing.
ExitCode(o) == IF o.noWait THEN (IF o.requestError THEN 1 ELSE 3)
               ELSE IF o.requestError \/ o.missing # {} THEN 1 ELSE 0

\* The next permission in the list's order, or the end.
Advance(o) ==
  LET left == o.todo \ {o.cur} IN
  IF left = {} THEN [o EXCEPT !.todo = {}, !.pc = "over", !.exit = ExitCode(o)]
  ELSE [o EXCEPT !.todo = left, !.pc = "prompt", !.cur = CHOOSE p \in left : \A q \in left : p <= q]

\* The first GET /info.  An adapter that cannot say reports no permissions, which ends the flow.
GetInfo ==
  /\ ob.pc = "info"
  /\ LET d == SystemPermissions(daemon) IN
     \/ ~daemon.up /\ ob' = Abort /\ UNCHANGED daemon
     \/ /\ daemon.up /\ daemon' = d
        /\ LET lacking == {p \in Perms : d.trust[p] = "no"} IN
           ob' = IF lacking = {} THEN [ob EXCEPT !.pc = "over", !.exit = 0, !.confirmed = Perms]
                 ELSE Advance([ob EXCEPT !.todo = lacking, !.confirmed = Perms \ lacking])
  /\ UNCHANGED <<tcc, host>>

\* A prompt the daemon refuses is passed over; without an answer the command ends.
RequestPrompt ==
  /\ ob.pc = "prompt"
  /\ LET reply == FirePrompt(daemon, ob.cur)
         coalesced == daemon.dialog /\ reply.process.trust[ob.cur] = "no"
         fired == [ob EXCEPT !.silent = IF coalesced THEN @ \cup {ob.cur} ELSE @]
     IN \/ ~daemon.up /\ ob' = Abort /\ UNCHANGED daemon
        \/ /\ daemon.up /\ daemon' = reply.process
           /\ ob' = IF ~reply.ok THEN Advance([ob EXCEPT !.requestError = TRUE])
                    ELSE IF ob.noWait THEN Advance(fired) ELSE [fired EXCEPT !.pc = "enter"]
  /\ UNCHANGED <<tcc, host>>

\* The user presses Enter, having granted the permission or not.
PressEnter ==
  /\ ob.pc = "enter"
  /\ ob' = [ob EXCEPT !.pc = "restart", !.grantedAtEnter = tcc]
  /\ UNCHANGED <<tcc, daemon, host>>

Missing(o) == [o EXCEPT !.missing = @ \cup {o.cur}, !.excused = @ \cup {o.cur}]

\* Mutant of Restart: the running daemon is asked instead.
RestartNothing ==
  /\ ob.pc = "restart"
  /\ ob' = [ob EXCEPT !.pc = "ready"]
  /\ UNCHANGED <<tcc, host, daemon>>

\* launchctl kickstart -k, then kickstart: the old process is gone, or still answers while it dies.
Restart ==
  /\ ob.pc = "restart"
  /\ \/ ~host.launchd /\ ob' = Advance(Missing(ob)) /\ UNCHANGED daemon
     \/ host.launchd /\ ob' = Abort /\ UNCHANGED daemon
     \/ /\ host.launchd /\ ob' = [ob EXCEPT !.pc = "ready"]
        /\ (daemon' = [daemon EXCEPT !.up = FALSE] \/ daemon' = [daemon EXCEPT !.dying = TRUE])
  /\ UNCHANGED <<tcc, host>>

\* Mutant of WaitUntilReady: a daemon that does not come back is not held against the permission.
WaitUntilReadyOrGoOn ==
  /\ ob.pc = "ready"
  /\ \/ daemon.up /\ daemon' = SystemPermissions(daemon)
        /\ ob' = [ob EXCEPT !.pc = "verify", !.lingered = @ \/ daemon.dying]
     \/ ~daemon.up /\ ob' = Advance(ob) /\ UNCHANGED daemon
  /\ UNCHANGED <<tcc, host>>

\* wait_until_ready polls /info, which makes the process that answers look at its trust.
WaitUntilReady ==
  /\ ob.pc = "ready"
  /\ \/ daemon.up /\ daemon' = SystemPermissions(daemon)
        /\ ob' = [ob EXCEPT !.pc = "verify", !.lingered = @ \/ daemon.dying]
     \/ ~daemon.up /\ ob' = Advance(Missing(ob)) /\ UNCHANGED daemon
  /\ UNCHANGED <<tcc, host>>

\* Mutant of Verify: it asks until the answer is yes.
VerifyAgain ==
  /\ ob.pc = "verify"
  /\ \/ ~daemon.up /\ ob' = Abort /\ UNCHANGED daemon
     \/ /\ daemon.up /\ daemon' = SystemPermissions(daemon)
        /\ ob' = IF daemon'.trust[ob.cur] = "yes" THEN Advance([ob EXCEPT !.confirmed = @ \cup {ob.cur}]) ELSE ob
  /\ UNCHANGED <<tcc, host>>

\* The second GET /info decides.
Verify ==
  /\ ob.pc = "verify"
  /\ LET d == SystemPermissions(daemon)
         o == [ob EXCEPT !.lingered = @ \/ daemon.dying]
     IN \/ ~daemon.up /\ ob' = Abort /\ UNCHANGED daemon
        \/ /\ daemon.up /\ daemon' = d
           /\ ob' = Advance(IF d.trust[ob.cur] = "yes" THEN [o EXCEPT !.confirmed = @ \cup {o.cur}]
                            ELSE [o EXCEPT !.missing = @ \cup {o.cur},
                                           !.excused = IF o.cur \in o.grantedAtEnter THEN @ ELSE @ \cup {o.cur}])
  /\ UNCHANGED <<tcc, host>>
-----------------------------------------------------------------------------
OnboardInit ==
  /\ tcc \in SUBSET Perms
  /\ daemon \in {FreshProcess, [FreshProcess EXCEPT !.up = FALSE]}
  /\ host \in [bundled : BOOLEAN, launchd : BOOLEAN, changes : {0}, meddling : {0}, revoked : {{}}]
  /\ \E noWait \in BOOLEAN : ob = NewOnboard(noWait)

OnboardStep == GetInfo \/ RequestPrompt \/ PressEnter \/ Restart \/ WaitUntilReady \/ Verify

OnboardNext == \/ OnboardStep \/ DaemonComesUp \/ DaemonExits
               \/ \E p \in Perms : UserChanges(p) \/ EnsureGranted(p)

\* The command runs on, which includes that the user presses Enter.
OnboardFairness == WF_onboardVars(OnboardStep)

OnboardSpec == OnboardInit /\ [][OnboardNext]_onboardVars /\ OnboardFairness
-----------------------------------------------------------------------------
\* The state of an onboarding has its shape.
OnboardTypeOK ==
  /\ {tcc, ob.todo, ob.missing, ob.confirmed, ob.silent} \subseteq SUBSET Perms
  /\ daemon.trust \in [Perms -> {"unread", "yes", "no"}]
  /\ ob.pc \in {"info", "prompt", "enter", "restart", "ready", "verify", "over"}
  /\ ob.exit \in -1..3

\* Exit code 0 means that the daemon was seen to hold every permission.
ZeroMeansAll == ob.exit = 0 => ob.confirmed = Perms

\* A permission the user granted before pressing Enter, and never revoked, is not
\* reported missing: the process asked is one that looked at its trust after the grant.  The
\* exceptions are a daemon that could not be restarted or did not come back, and an old process
\* that was still answering when it was asked.
GrantIsFound ==
  \A p \in ob.missing \ ob.excused : ob.lingered \/ p \in host.revoked

\* Each prompt is the first of its process, so that TCC shows its dialog (README.md:103), unless
\* another client's call had prompted, the daemon could not be restarted, the old process still
\* answered, or the caller asked not to wait.
DialogShown ==
  ob.silent # {} => \/ host.meddling > 0 \/ ob.lingered \/ ob.noWait \/ ~host.launchd

\* The command ends, whatever the daemon does.
OnboardEnds == <>(ob.pc = "over")
=============================================================================
