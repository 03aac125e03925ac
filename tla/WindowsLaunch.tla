--------------------------- MODULE WindowsLaunch ---------------------------
(***************************************************************************)
(* launch_process of the Windows adapter (native.rs): the launched process *)
(* tree is built from snapshots of (pid, parent pid) while processes come  *)
(* and go and pids are used again, and the tree's only visible window is   *)
(* marked with a cookie and handed out.                                    *)
(*                                                                         *)
(* A process is an index into procs; `ours' is the truth the adapter       *)
(* cannot see: whether it descends from the launched process.  Windows     *)
(* gives a pid out again only when its process is gone and no handle to it *)
(* is open, and forgets a window's properties with the window (external).  *)
(***************************************************************************)
EXTENDS Naturals, Sequences, FiniteSets, Functions

CONSTANTS
  Pids,       \* process ids
  Hwnds,      \* window handles
  MaxProcs,   \* bound: processes that ever exist
  MaxWindows, \* bound: windows that ever exist
  MaxClock    \* bound: ticks of the system clock

ASSUME WindowsLaunchAssumption ==
  {MaxProcs, MaxWindows, MaxClock} \subseteq Nat \ {0} /\ Pids # {} /\ 0 \notin Pids

VARIABLES
  procs,   \* procs[i]: pid, recorded parent pid, creation and exit time, ours
  wclock,   \* the file time the kernel stamps with
  tree,    \* LaunchTree: pid -> the process its retained handle refers to
  snap,    \* the process snapshot being observed
  win,     \* win[h]: the window behind a handle and its cookie
  serial,  \* windows created so far
  launch   \* the launch call: where it is, its candidate

launchVars == <<procs, wclock, tree, snap, win, serial, launch>>

NoWindow == [owner |-> 0, id |-> 0, cookie |-> 0]
NoCandidate == [hwnd |-> 0, cookie |-> 0, pid |-> 0]
NoSnapshot == [at |-> "none", started |-> 0, links |-> {}]

WindowsLaunchTypeOK ==
  /\ \A i \in DOMAIN procs : procs[i] \in [pid: Pids, parent: Pids \union {0}, born: 0..MaxClock,
                                           died: 0..MaxClock, ours: BOOLEAN]
  /\ Len(procs) <= MaxProcs /\ wclock \in 1..MaxClock
  /\ DOMAIN tree \subseteq Pids /\ Range(tree) \subseteq DOMAIN procs
  /\ snap.at \in {"none", "reading", "taken"} /\ snap.started \in 0..MaxClock
  /\ \A l \in snap.links : l \in [pid: Pids, parent: Pids \union {0}]
  /\ win \in [Hwnds -> [owner: 0..MaxProcs, id: 0..MaxWindows, cookie: 0..MaxWindows]]
  /\ serial \in 0..MaxWindows
  /\ launch.at \in {"new", "loop", "observe", "look", "mark", "confirm", "done", "failed"}

\* One process is running when the launch starts.
WindowsLaunchInit ==
  /\ procs = <<[pid |-> CHOOSE p \in Pids : TRUE, parent |-> 0, born |-> 0, died |-> 0, ours |-> FALSE]>>
  /\ wclock = 1 /\ tree = [p \in {} |-> 0] /\ snap = NoSnapshot
  /\ win = [h \in Hwnds |-> NoWindow] /\ serial = 0
  /\ launch = [at |-> "new", found |-> NoCandidate]

-----------------------------------------------------------------------------
(* The system (external).                                                  *)

Alive(i) == procs[i].died = 0
FreePids == {p \in Pids : p \notin DOMAIN tree /\ \A i \in DOMAIN procs : procs[i].pid = p => ~Alive(i)}
Born(p, parent, ours) ==
  Append(procs, [pid |-> p, parent |-> parent, born |-> wclock, died |-> 0, ours |-> ours])

TimePasses ==
  /\ wclock < MaxClock
  /\ wclock' = wclock + 1
  /\ UNCHANGED <<procs, tree, snap, win, serial, launch>>

\* A process starts another.
Fork(i, p) ==
  /\ Len(procs) < MaxProcs /\ Alive(i) /\ p \in FreePids
  /\ procs' = Born(p, procs[i].pid, procs[i].ours)
  /\ UNCHANGED <<wclock, tree, snap, win, serial, launch>>

Exit(i) ==
  /\ Alive(i)
  /\ procs' = [procs EXCEPT ![i].died = wclock]
  /\ win' = [h \in Hwnds |-> IF win[h].owner = i THEN NoWindow ELSE win[h]]
  /\ UNCHANGED <<wclock, tree, snap, serial, launch>>

OpenWindow(i, h) ==
  /\ serial < MaxWindows /\ Alive(i) /\ win[h] = NoWindow
  /\ serial' = serial + 1
  /\ win' = [win EXCEPT ![h] = [owner |-> i, id |-> serial + 1, cookie |-> 0]]
  /\ UNCHANGED <<procs, wclock, tree, snap, launch>>

CloseWindow(h) ==
  /\ win[h] # NoWindow
  /\ win' = [win EXCEPT ![h] = NoWindow]
  /\ UNCHANGED <<procs, wclock, tree, snap, serial, launch>>

-----------------------------------------------------------------------------
(* The process tree.                                                       *)

\* spawn_process and LaunchTree::new: the root is retained by its spawn handle,
\* not looked up by pid.  A spawn that fails ends the launch.
Launch(p) ==
  /\ launch.at = "new"
  /\ \/ /\ Len(procs) < MaxProcs /\ p \in FreePids
        /\ procs' = Born(p, 0, TRUE)
        /\ tree' = [q \in {p} |-> Len(procs) + 1]
        /\ launch' = [launch EXCEPT !.at = "loop"]
     \/ launch' = [launch EXCEPT !.at = "failed"] /\ UNCHANGED <<procs, tree>>
  /\ UNCHANGED <<wclock, snap, win, serial>>

\* process_links reads the clock, then takes the snapshot.
ReadClock ==
  /\ launch.at = "loop" /\ snap.at = "none"
  /\ snap' = [at |-> "reading", started |-> wclock, links |-> {}]
  /\ UNCHANGED <<procs, wclock, tree, win, serial, launch>>

TakeSnapshot ==
  /\ snap.at = "reading"
  /\ snap' = [snap EXCEPT !.at = "taken",
                          !.links = {[pid |-> procs[i].pid, parent |-> procs[i].parent] :
                                       i \in {j \in DOMAIN procs : Alive(j)}}]
  /\ launch' = [launch EXCEPT !.at = "observe"]
  /\ UNCHANGED <<procs, wclock, tree, win, serial>>

\* Mutant of ValidBirth: the parent's creation is not compared.
ValidBirthOfAnyParent(parent, child) ==
  procs[child].born < snap.started
    /\ (procs[parent].died = 0 \/ procs[child].born < procs[parent].died)

\* Mutant of ValidBirth: a child born at or after the snapshot is accepted.
ValidBirthAnyTime(parent, child) ==
  procs[parent].born < procs[child].born
    /\ (procs[parent].died = 0 \/ procs[child].born < procs[parent].died)

\* valid_birth.
ValidBirth(parent, child) ==
  /\ procs[parent].born < procs[child].born /\ procs[child].born < snap.started
  /\ procs[parent].died = 0 \/ procs[child].born < procs[parent].died

\* observe, one link: its parent is in the tree; the child is opened by pid, which
\* finds whoever has the pid now, and is kept when its birth fits.  The loop
\* repeats over one snapshot, so the links come in any order.
Observe(l) ==
  /\ launch.at = "observe" /\ l \in snap.links
  /\ l.pid \notin DOMAIN tree /\ l.parent \in DOMAIN tree
  /\ \E i \in DOMAIN procs :
       /\ procs[i].pid = l.pid /\ Alive(i) /\ ValidBirth(tree[l.parent], i)
       /\ tree' = [p \in DOMAIN tree \union {l.pid} |-> IF p = l.pid THEN i ELSE tree[p]]
  /\ UNCHANGED <<procs, wclock, snap, win, serial, launch>>

\* The links that are left have no parent in the tree, do not fit or cannot be
\* opened.
Observed ==
  /\ launch.at = "observe"
  /\ launch' = [launch EXCEPT !.at = "look"]
  /\ snap' = NoSnapshot
  /\ UNCHANGED <<procs, wclock, tree, win, serial>>

-----------------------------------------------------------------------------
(* The window.                                                             *)

\* owns_window: the owner's pid is in the tree and its retained process lives.
OwnsWindow(h) ==
  /\ win[h] # NoWindow /\ procs[win[h].owner].pid \in DOMAIN tree
  /\ Alive(tree[procs[win[h].owner].pid])
Owned == {h \in Hwnds : OwnsWindow(h)}

\* resolve: the handle is a window of the same process and carries the cookie.
CandidateResolves(s) ==
  /\ s.hwnd \in Hwnds /\ win[s.hwnd] # NoWindow
  /\ procs[win[s.hwnd].owner].pid = s.pid /\ s.cookie # 0 /\ win[s.hwnd].cookie = s.cookie

\* unique_window over the visible windows: several are refused, none waits for
\* the next round until the deadline.
UniqueWindow ==
  /\ launch.at = "look"
  /\ \/ /\ Cardinality(Owned) = 1
        /\ launch' = [at |-> "mark", found |-> [NoCandidate EXCEPT !.hwnd = CHOOSE h \in Owned : TRUE]]
     \/ Cardinality(Owned) > 1 /\ launch' = [launch EXCEPT !.at = "failed"]
     \/ Cardinality(Owned) = 0 /\ \E to \in {"loop", "failed"} : launch' = [launch EXCEPT !.at = to]
  /\ UNCHANGED <<procs, wclock, tree, snap, win, serial>>

\* identify: whatever window has the handle now is marked; a window that is gone
\* is a reason to look again, one that cannot be marked fails the launch.
MarkCandidate ==
  /\ launch.at = "mark"
  /\ LET h == launch.found.hwnd IN
     \/ /\ win[h] # NoWindow
        /\ win' = [win EXCEPT ![h].cookie = win[h].id]
        /\ launch' = [at |-> "confirm",
                      found |-> [hwnd |-> h, cookie |-> win[h].id, pid |-> procs[win[h].owner].pid]]
     \/ win[h] # NoWindow /\ launch' = [launch EXCEPT !.at = "failed"] /\ UNCHANGED win
     \/ win[h] = NoWindow /\ launch' = [at |-> "loop", found |-> NoCandidate] /\ UNCHANGED win
  /\ UNCHANGED <<procs, wclock, tree, snap, serial>>

\* Mutant of Confirm: the tree is not asked again after the window was marked.
ConfirmByCookie ==
  /\ launch.at = "confirm"
  /\ \/ CandidateResolves(launch.found) /\ launch' = [launch EXCEPT !.at = "done"]
     \/ ~CandidateResolves(launch.found) /\ launch' = [at |-> "loop", found |-> NoCandidate]
  /\ UNCHANGED <<procs, wclock, tree, snap, win, serial>>

\* The marked window resolves, is still the tree's and visible: it is the launch's
\* surface.  Otherwise the loop goes on, until the deadline.
Confirm ==
  /\ launch.at = "confirm"
  /\ \/ CandidateResolves(launch.found) /\ OwnsWindow(launch.found.hwnd) /\ launch' = [launch EXCEPT !.at = "done"]
     \/ \E to \in {"loop", "failed"} : launch' = [at |-> to, found |-> NoCandidate]
  /\ UNCHANGED <<procs, wclock, tree, snap, win, serial>>

WindowsLaunchNext ==
  \/ TimePasses
  \/ \E i \in DOMAIN procs : Exit(i) \/ (\E p \in Pids : Fork(i, p)) \/ (\E h \in Hwnds : OpenWindow(i, h))
  \/ \E h \in Hwnds : CloseWindow(h)
  \/ \E p \in Pids : Launch(p)
  \/ ReadClock \/ TakeSnapshot \/ (\E l \in snap.links : Observe(l)) \/ Observed
  \/ UniqueWindow \/ MarkCandidate \/ Confirm

-----------------------------------------------------------------------------
(* Properties.                                                             *)

\* Every process in the launch tree descends from the launched one, however pids
\* are used again between its birth, the snapshot and the moment it is opened
\* (LaunchTree::observe, valid_birth).
TreeIsOurs == \A p \in DOMAIN tree : procs[tree[p]].ours

\* While the surface a launch returned resolves, its window belongs to a process
\* that descends from the launched one, also when the handle changed hands
\* between the enumeration, the marking and the check (launch_process).
LaunchedSurfaceIsOurs ==
  launch.at = "done" /\ CandidateResolves(launch.found) => procs[win[launch.found.hwnd].owner].ours
=============================================================================
