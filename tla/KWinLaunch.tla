----------------------------- MODULE KWinLaunch -----------------------------
(***************************************************************************)
(* Launching a process on KWin and finding its window (porthole-adapter-   *)
(* kwin launch.rs): the windows of the last snapshot are those that were   *)
(* there before; then every poll refreshes the snapshot, reads the process *)
(* tree with ps and looks for one new window of the tree, or for the       *)
(* active window of an application of that name.                           *)
(*                                                                         *)
(* Processes, windows and the snapshots of the control script are          *)
(* external.  Whether a process really descends from the launch is a ghost.*)
(***************************************************************************)
EXTENDS Naturals, FiniteSets, Functions

CONSTANTS
  LPids,     \* process ids
  Root,      \* the process id the spawn returns
  Shell,     \* the process id of a process that was there before
  Wins,      \* window ids: KWin never uses one again
  MaxForks   \* bound: processes that start

\* No process has the id 0.
ASSUME KWinLaunchAssumption ==
  {Root, Shell} \subseteq LPids /\ Root # Shell /\ IsFiniteSet(LPids) /\ 0 \notin LPids /\ MaxForks \in Nat

VARIABLES
  kprocs,   \* live process id -> its parent's id and whether it descends from the launch
  wins,    \* window -> its state
  active,  \* the active window, or none
  view,    \* latest_snapshot: the windows and the active one it shows
  klaunch,  \* launch_process: step, what it knew before, what it returns
  was,     \* ghost: windows open when the launch began, was the view up to date, ids used (again)
  forks    \* processes started

kwinLaunchVars == <<kprocs, wins, active, view, klaunch, was, forks>>

NoWin == "no window"
Init1 == 0                       \* the parent of a process whose parent is gone
OpenWins == {w \in Wins : wins[w].state = "open"}
\* What the control script publishes; windows of a snapshot keep the pid and the
\* application they had when it was taken, which never change.
Published == [known |-> TRUE, open |-> OpenWins, active |-> active]

KWinLaunchTypeOK ==
  /\ DOMAIN kprocs \subseteq LPids
  /\ \A p \in DOMAIN kprocs : kprocs[p].parent \in LPids \union {Init1} /\ kprocs[p].ours \in BOOLEAN
  /\ \A w \in Wins : wins[w].state \in {"none", "open", "gone"} /\ wins[w].app \in BOOLEAN
  /\ active \in Wins \union {NoWin}
  /\ view.open \subseteq Wins /\ view.active \in Wins \union {NoWin} /\ view.known \in BOOLEAN
  /\ klaunch.at \in {"none", "refresh", "match", "strong", "plausible", "failed", "ambiguous"}
  /\ klaunch.pre \subseteq Wins /\ klaunch.win \in Wins \union {NoWin}

KWinLaunchInit ==
  /\ kprocs = [p \in {Shell} |-> [parent |-> Init1, ours |-> FALSE]]
  /\ wins = [w \in Wins |-> [state |-> "none", pid |-> Root, ours |-> FALSE, app |-> FALSE]]
  /\ active = NoWin
  /\ view = [known |-> FALSE, open |-> {}, active |-> NoWin]
  /\ klaunch = [at |-> "none", pre |-> {}, preActive |-> NoWin, multi |-> FALSE, win |-> NoWin, preexisting |-> FALSE]
  /\ was = [open |-> {}, current |-> FALSE, used |-> {Shell, Root}, reused |-> FALSE]
  /\ forks = 0

-----------------------------------------------------------------------------
(* launch.rs.                                                              *)

WindowIds(v) == v.open

\* launch_process: what is there before, as far as the snapshot knows; spawn.
BeginLaunch ==
  /\ klaunch.at = "none" /\ Root \notin DOMAIN kprocs
  /\ klaunch' = [klaunch EXCEPT !.at = "refresh", !.pre = WindowIds(view), !.preActive = view.active]
  /\ was' = [was EXCEPT !.open = OpenWins, !.current = (view = Published)]
  /\ kprocs' = [p \in DOMAIN kprocs \union {Root} |->
                 IF p = Root THEN [parent |-> Init1, ours |-> TRUE] ELSE kprocs[p]]
  /\ UNCHANGED <<wins, active, view, forks>>

\* spawn_process: the program cannot be started.
SpawnFails ==
  /\ klaunch.at = "none"
  /\ klaunch' = [klaunch EXCEPT !.at = "failed"]
  /\ UNCHANGED <<kprocs, wins, active, view, was, forks>>

\* refresh_snapshot, whose error is ignored; without any snapshot the launch fails.
RefreshView ==
  /\ klaunch.at = "refresh"
  /\ view' \in {view, Published}
  /\ klaunch' = [klaunch EXCEPT !.at = IF view'.known THEN "match" ELSE "failed"]
  /\ UNCHANGED <<kprocs, wins, active, was, forks>>

\* process_parent_map, pid_tree: every process whose line of parents reaches the
\* root, dead or alive.
ParentOf(p) == kprocs[p].parent
WithChildren(S) == S \union {p \in DOMAIN kprocs : ParentOf(p) \in S}
PidTree ==
  LET tree[n \in 0..Cardinality(LPids)] == IF n = 0 THEN {Root} ELSE WithChildren(tree[n - 1])
  IN tree[Cardinality(LPids)]

\* Mutant of NewPidTreeMatches: any new window matches.
NewMatches == {w \in view.open : w \notin klaunch.pre}

NewPidTreeMatches == {w \in view.open : w \notin klaunch.pre /\ wins[w].pid \in PidTree}

\* active_app_match: the active window, if it is of that application and was not
\* the active one before.
ActiveAppMatch ==
  {w \in Wins : w = view.active /\ wins[w].app /\ (w \notin klaunch.pre \/ w # klaunch.preActive)}

\* Mutant of Outcome: a window that became active is taken for a new one.
OutcomeFresh(at, w) == [klaunch EXCEPT !.at = at, !.win = w, !.preexisting = FALSE]

Outcome(at, w) == [klaunch EXCEPT !.at = at, !.win = w, !.preexisting = w \in klaunch.pre]

\* The matching of one poll, and the deadline.
Correlate ==
  /\ klaunch.at = "match"
  /\ LET new == NewPidTreeMatches
         multi == klaunch.multi \/ Cardinality(new) > 1 IN
     \/ \E w \in new : Cardinality(new) = 1 /\ klaunch' = Outcome("strong", w)
     \/ /\ Cardinality(new) # 1
        /\ \/ \E w \in ActiveAppMatch : klaunch' = Outcome("plausible", w)
           \/ /\ ActiveAppMatch = {}
              /\ \/ klaunch' = [klaunch EXCEPT !.at = "refresh", !.multi = multi]
                 \/ klaunch' = [klaunch EXCEPT !.at = IF multi THEN "ambiguous" ELSE "failed", !.multi = multi]
  /\ UNCHANGED <<kprocs, wins, active, view, was, forks>>

-----------------------------------------------------------------------------
(* The system (external).                                                  *)

ForkProcess(parent, p) ==
  /\ forks < MaxForks /\ p \notin DOMAIN kprocs /\ parent \in DOMAIN kprocs
  /\ p = Root => klaunch.at # "none"
  /\ kprocs' = [q \in DOMAIN kprocs \union {p} |->
                 IF q = p THEN [parent |-> parent, ours |-> kprocs[parent].ours] ELSE kprocs[q]]
  /\ was' = [was EXCEPT !.reused = @ \/ p \in was.used, !.used = @ \union {p}]
  /\ forks' = forks + 1
  /\ UNCHANGED <<wins, active, view, klaunch>>

\* A process ends: its children get another parent, its windows go.
ExitProcess(p) ==
  /\ p \in DOMAIN kprocs
  /\ kprocs' = [q \in DOMAIN kprocs \ {p} |-> IF kprocs[q].parent = p THEN [kprocs[q] EXCEPT !.parent = Init1] ELSE kprocs[q]]
  /\ wins' = [w \in Wins |-> IF wins[w].state = "open" /\ wins[w].pid = p THEN [wins[w] EXCEPT !.state = "gone"] ELSE wins[w]]
  /\ active' = IF active \in OpenWins /\ wins[active].pid = p THEN NoWin ELSE active
  /\ UNCHANGED <<view, klaunch, was, forks>>

ShowWindow(w, p, app) ==
  /\ wins[w].state = "none" /\ p \in DOMAIN kprocs
  /\ wins' = [wins EXCEPT ![w] = [state |-> "open", pid |-> p, ours |-> kprocs[p].ours, app |-> app]]
  /\ UNCHANGED <<kprocs, active, view, klaunch, was, forks>>

ActivateWindow(w) ==
  /\ w \in OpenWins /\ active # w
  /\ active' = w
  /\ UNCHANGED <<kprocs, wins, view, klaunch, was, forks>>

\* The script publishes on its own.
Publish ==
  /\ view # Published
  /\ view' = Published
  /\ UNCHANGED <<kprocs, wins, active, klaunch, was, forks>>

KWinLaunchNext ==
  \/ BeginLaunch \/ SpawnFails \/ RefreshView \/ Correlate \/ Publish
  \/ \E p \in LPids : ExitProcess(p) \/ (\E q \in LPids : ForkProcess(q, p))
  \/ \E w \in Wins : ActivateWindow(w) \/ (\E p \in LPids, app \in BOOLEAN : ShowWindow(w, p, app))

-----------------------------------------------------------------------------
(* Properties.                                                             *)

\* A window a launch returns as a new one was not there when the launch began, if
\* the snapshot it began with was up to date (preexisting, surface_was_preexisting).
ReturnedNewIsNew ==
  klaunch.at \in {"strong", "plausible"} /\ ~klaunch.preexisting /\ was.current
    => klaunch.win \notin was.open

\* A window returned with strong confidence belongs to a process the launch
\* started, unless the id of a process that ended was given away: ps shows only ids
\* (pid_tree, new_pid_tree_matches).
StrongIsOurs == klaunch.at = "strong" /\ ~was.reused => wins[klaunch.win].ours
=============================================================================
