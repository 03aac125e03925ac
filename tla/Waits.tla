------------------------------- MODULE Waits -------------------------------
(***************************************************************************)
(* One `wait` on a surface: the pipeline's checks, then the adapter's loop *)
(* that samples the window, judges the sample and sleeps, until the        *)
(* condition holds or the deadline passes.  macOS compares pictures for    *)
(* `stable` and `dirty`; KWin reads the snapshot its script last pushed;   *)
(* Windows asks the window itself.                                         *)
(***************************************************************************)
EXTENDS Integers

CONSTANTS
  QuietWindow, \* window_ms of a `stable` condition, in sample intervals
  Timeout,    \* the wait's timeout, in sample intervals
  Threshold,  \* threshold_pct: how much two pictures may differ and not count
  Pictures,   \* what the window may look like, a set of numbers
  MaxTime     \* bound: how long the model runs

ASSUME WaitsAssumption ==
  /\ {QuietWindow, Timeout, Threshold, MaxTime} \subseteq Nat
  /\ Pictures \subseteq Nat /\ Pictures # {}

VARIABLES
  window,     \* the window as it is
  snapshot,    \* the window as KWin's last snapshot has it
  waiter,  \* the wait
  wtime,   \* the clock
  truth    \* history: the window at the last sample, and since when its samples were quiet

waitVars == <<window, snapshot, waiter, wtime, truth>>

Platforms == {"macos", "kwin", "windows"}
Conditions == {"exists", "gone", "title_matches", "stable", "dirty"}
Pixels == {"stable", "dirty"}

Looks == [there : BOOLEAN, title : BOOLEAN, pic : Pictures, readable : BOOLEAN]
NotWaiting == [pc |-> "idle", platform |-> "macos", cond |-> "exists", loose |-> FALSE, first |-> 0,
               last |-> 0, changedAt |-> 0, sampled |-> FALSE, nextAt |-> 0, deadline |-> 0,
               answer |-> "none", at |-> 0]

(***************************************************************************)
(* The desktop.                                                            *)
(***************************************************************************)
\* The window closes, changes what the wait looks at, or cannot be looked at for a while.
WindowChanges ==
  /\ waiter.pc = "waiting"
  /\ \/ window.there /\ window' = [window EXCEPT !.there = FALSE]
     \/ window.there /\ waiter.cond = "title_matches" /\ window' = [window EXCEPT !.title = ~@]
     \/ window.there /\ waiter.cond \in Pixels /\ \E p \in Pictures : window' = [window EXCEPT !.pic = p]
     \/ window' = [window EXCEPT !.readable = ~@]
  /\ window' # window
  /\ UNCHANGED <<snapshot, waiter, wtime, truth>>

SnapshotArrives ==
  /\ waiter.platform = "kwin" /\ waiter.pc = "waiting" /\ snapshot # window
  /\ snapshot' = window
  /\ UNCHANGED <<window, waiter, wtime, truth>>

WaitTimePasses ==
  /\ waiter.pc = "waiting" /\ wtime < MaxTime
  /\ wtime' = wtime + 1
  /\ UNCHANGED <<window, snapshot, waiter, truth>>

(***************************************************************************)
(* The pipeline and the loops.                                             *)
(***************************************************************************)
\* Windows rejects the pixel conditions before it waits.
Supported(platform, cond) == ~(platform = "windows" /\ cond \in Pixels)

\* The request: `permitted` unless its condition is malformed, the handle dead or a system
\* permission missing; `loose` when its title pattern matches the empty text.
Begin(platform, cond, loose, permitted) ==
  /\ waiter.pc = "idle" /\ (loose => cond = "title_matches")
  /\ LET w == [NotWaiting EXCEPT !.platform = platform, !.cond = cond, !.loose = loose,
                                 !.deadline = wtime + Timeout, !.nextAt = wtime]
     IN waiter' = IF Supported(platform, cond) /\ permitted THEN [w EXCEPT !.pc = "waiting"]
                  ELSE [w EXCEPT !.pc = "over", !.answer = "refused"]
  /\ snapshot' = window
  /\ UNCHANGED <<window, wtime, truth>>

Diff(a, b) == IF a > b THEN a - b ELSE b - a

\* What one look at the window yields: an error, or the window.
LookMac(w) == [ok |-> window.readable /\ (w.cond \in Pixels => window.there),
               there |-> window.there, title |-> window.there /\ window.title, pic |-> window.pic]

\* KWin takes a snapshot that it cannot read for a desktop without the window.
LookKWin(w) == [ok |-> TRUE, there |-> snapshot.there /\ snapshot.readable,
                title |-> snapshot.there /\ snapshot.readable /\ snapshot.title, pic |-> 0]

\* Windows takes any failure to resolve or identify the window for its absence, and matches the
\* title of an absent one as the empty text.
LookWindows(w) == LET live == window.there /\ window.readable IN
  [ok |-> TRUE, there |-> live, title |-> IF live THEN window.title ELSE w.loose, pic |-> 0]

Look(w) == CASE w.platform = "macos" -> LookMac(w)
             [] w.platform = "kwin" -> LookKWin(w)
             [] w.platform = "windows" -> LookWindows(w)

\* Mutant of Compare: every sample is compared with the first.
CompareWithFirst(w, pic) ==
  IF ~w.sampled THEN [w EXCEPT !.sampled = TRUE, !.first = pic, !.last = pic, !.changedAt = wtime]
  ELSE [w EXCEPT !.last = pic, !.changedAt = IF Diff(pic, w.first) > Threshold THEN wtime ELSE @]

\* The stable loop's bookkeeping: a sample that differs from the one before restarts the window.
Compare(w, pic) ==
  IF ~w.sampled THEN [w EXCEPT !.sampled = TRUE, !.first = pic, !.last = pic, !.changedAt = wtime]
  ELSE [w EXCEPT !.last = pic, !.changedAt = IF Diff(pic, w.last) > Threshold THEN wtime ELSE @]

Matched(w, look) ==
  CASE w.cond = "exists" -> look.there
    [] w.cond = "gone" -> ~look.there
    [] w.cond = "title_matches" -> look.title
    [] w.cond = "stable" -> /\ w.platform = "macos" /\ w.sampled
                            /\ wtime - Compare(w, look.pic).changedAt >= QuietWindow
    [] w.cond = "dirty" -> /\ w.platform = "macos" /\ w.sampled
                           /\ Diff(look.pic, w.first) > Threshold

\* The loop's return: the condition by its name, or what was observed last.
Answered(w, a) == [w EXCEPT !.pc = "over", !.answer = a, !.at = wtime]

\* Mutant of Sample: a change as large as the threshold restarts the window.
SampleTouchy ==
  /\ waiter.pc = "waiting" /\ wtime >= waiter.nextAt
  /\ LET look == Look(waiter)
         touched == waiter.sampled /\ look.pic # waiter.last
         w == IF waiter.cond \notin Pixels THEN waiter
              ELSE [Compare(waiter, look.pic) EXCEPT !.changedAt = IF touched THEN wtime ELSE @]
     IN /\ waiter' = IF ~look.ok THEN Answered(waiter, "failed")
                     ELSE IF Matched(waiter, look) /\ ~touched THEN Answered(w, "ok")
                     ELSE IF wtime >= waiter.deadline THEN Answered(w, "timeout")
                     ELSE [w EXCEPT !.nextAt = wtime + 1]
        /\ truth' = [seen |-> IF waiter.platform = "kwin" THEN snapshot ELSE window,
                     quietSince |-> IF waiter.sampled /\ Diff(window.pic, truth.seen.pic) <= Threshold
                                    THEN truth.quietSince ELSE wtime]
  /\ UNCHANGED <<window, snapshot, wtime>>

\* Mutant of Sample: only a condition that holds ends the loop.
SampleForever ==
  /\ waiter.pc = "waiting" /\ wtime >= waiter.nextAt
  /\ LET look == Look(waiter)
         w == IF waiter.cond \in Pixels THEN Compare(waiter, look.pic) ELSE waiter
     IN waiter' = IF ~look.ok THEN Answered(waiter, "failed")
                  ELSE IF Matched(waiter, look) THEN Answered(w, "ok") ELSE [w EXCEPT !.nextAt = wtime + 1]
  /\ UNCHANGED <<window, snapshot, wtime, truth>>

\* One pass: sample, judge, look at the clock, sleep.  A failed sample is reported as a timeout.
Sample ==
  /\ waiter.pc = "waiting" /\ wtime >= waiter.nextAt
  /\ LET look == Look(waiter)
         w == IF waiter.cond \in Pixels THEN Compare(waiter, look.pic) ELSE waiter
     IN /\ waiter' = IF ~look.ok THEN Answered(waiter, "failed")
                     ELSE IF Matched(waiter, look) THEN Answered(w, "ok")
                     ELSE IF wtime >= waiter.deadline THEN Answered(w, "timeout")
                     ELSE [w EXCEPT !.nextAt = wtime + 1]
        /\ truth' = [seen |-> IF waiter.platform = "kwin" THEN snapshot ELSE window,
                     quietSince |-> IF waiter.sampled /\ Diff(window.pic, truth.seen.pic) <= Threshold
                                    THEN truth.quietSince ELSE wtime]
  /\ UNCHANGED <<window, snapshot, wtime>>

-----------------------------------------------------------------------------
WaitsInit ==
  /\ window \in {w \in Looks : w.there /\ w.readable /\ ~w.title /\ \A p \in Pictures : w.pic <= p}
  /\ snapshot = window
  /\ waiter = NotWaiting
  /\ wtime = 0
  /\ truth = [seen |-> window, quietSince |-> 0]

WaitsNext ==
  \/ WindowChanges \/ SnapshotArrives \/ WaitTimePasses \/ Sample
  \/ \E p \in Platforms, c \in Conditions, loose, permitted \in BOOLEAN : Begin(p, c, loose, permitted)

\* The daemon's timers fire: the loop is polled and the clock moves.
WaitsFairness == WF_waitVars(Sample) /\ WF_waitVars(WaitTimePasses)

WaitsSpec == WaitsInit /\ [][WaitsNext]_waitVars /\ WaitsFairness
-----------------------------------------------------------------------------
\* The state of a wait has its shape.
WaitsTypeOK ==
  /\ {window, snapshot, truth.seen} \subseteq Looks
  /\ waiter.pc \in {"idle", "waiting", "over"}
  /\ waiter.platform \in Platforms /\ waiter.cond \in Conditions
  /\ waiter.answer \in {"none", "ok", "timeout", "failed", "refused"}
  /\ {wtime, truth.quietSince, waiter.changedAt} \subseteq 0..MaxTime

\* What `wait` reports is what was there at its last sample: `stable` only after QuietWindow
\* intervals in which no two consecutive samples differed by more than the threshold, `dirty`
\* only for a picture unlike the first.  The two exceptions are the code's: KWin and Windows
\* take a window they cannot look at for a closed one, and Windows matches a closed window's
\* title as the empty text.
AnswerIsTrue ==
  waiter.answer = "ok" =>
    LET s == truth.seen IN
    CASE waiter.cond = "exists" -> s.there
      [] waiter.cond = "gone" -> ~s.there \/ (waiter.platform # "macos" /\ ~s.readable)
      [] waiter.cond = "title_matches" -> (s.there /\ s.title) \/ (waiter.platform = "windows" /\ waiter.loose)
      [] waiter.cond = "stable" -> waiter.at - truth.quietSince >= QuietWindow
      [] waiter.cond = "dirty" -> Diff(s.pic, waiter.first) > Threshold

\* A wait times out at its deadline and not before, and a `stable` one only when the picture
\* really changed within the last QuietWindow intervals: changes below the threshold, such as a
\* blinking cursor, do not keep it waiting (README.md:18).  A window of no length is still not
\* seen by a first sample that comes after the deadline, since there is none to compare it with.
TimeoutIsFair ==
  waiter.answer = "timeout" =>
    /\ waiter.at >= waiter.deadline
    /\ (waiter.cond = "stable" /\ waiter.platform = "macos") =>
         waiter.at - truth.quietSince < QuietWindow \/ waiter.at = truth.quietSince

\* Every wait that begins is answered.
WaitIsAnswered == (waiter.pc = "waiting") ~> (waiter.pc = "over")
=============================================================================
