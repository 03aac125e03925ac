------------------------------- MODULE Handoff -------------------------------
(***************************************************************************)
(* The console handoff of the Windows helper (apps/windows/PortholeHelper):*)
(* the helper in the tray asks for elevation, an elevated worker moves the *)
(* session from RDP to the console with tscon, and a journal on disk says  *)
(* across crashes whether an earlier attempt may still have an effect.     *)
(*                                                                         *)
(* An attempt has a worker of its own (the pipe's name is its nonce).      *)
(* Every error, time-out, cancellation and broken pipe of the helper is    *)
(* Throw, of a worker WorkerFails: each may come at any point, the 30 s of *)
(* either side included.  tscon is a process of its own and outlives both. *)
(***************************************************************************)
EXTENDS Naturals

CONSTANTS
  MaxAttempts,  \* bound: the handoffs the operator starts
  MaxLives      \* bound: the processes of the helper

ASSUME HandoffAssumption == MaxAttempts \in Nat /\ MaxLives \in Nat

VARIABLES
  hpc,         \* where the helper's ExecuteHandoffAsync is; idle, or down without a process
  life,        \* which process the helper is
  att,         \* the latest attempt
  unresolved,  \* the helper's fields
  committed,
  reply,       \* what the worker of att answered
  ack,         \* the acknowledge button is visible
  journal,     \* handoff.json: "pending" when its unresolved is true, else (or absent) "clear"
  wpc,         \* the workers
  owner,       \* the helper process a worker was started for
  toWorker,    \* the message under way in each direction of a worker's pipe
  toHelper,
  tscon,       \* the tscon child of a worker
  seat,        \* where the Windows session is: rdp, console, away (not active)
  told         \* what the journal said of an attempt when it was over

helperVars == <<hpc, life, att, unresolved, committed, reply, ack, journal, told>>
workerVars == <<wpc, owner, toWorker, toHelper, tscon>>
handoffVars == <<helperVars, workerVars, seat>>

Attempts == 1..MaxAttempts
Busy == {"discover", "elevate", "connect", "greet", "grant", "commit", "send", "await", "leave", "observe", "catch"}
Running == {"launched", "listening", "accepted", "ready", "committed", "transferring", "reported"}
Results == {"DONE", "FAIL", "UNKN"}

HandoffInit ==
  /\ hpc = "down" /\ life = 0 /\ att = 0 /\ unresolved = FALSE /\ committed = FALSE /\ reply = "none"
  /\ ack = FALSE
  /\ journal = "clear" /\ told = [a \in Attempts |-> "none"]
  /\ wpc = [a \in Attempts |-> "none"] /\ owner = [a \in Attempts |-> 0]
  /\ toWorker = [a \in Attempts |-> "none"] /\ toHelper = [a \in Attempts |-> "none"]
  /\ tscon = [a \in Attempts |-> "none"] /\ seat = "rdp"

WorkerRuns(a) == wpc[a] \in Running

\* The process a worker was started for still runs (Peer::alive on the handle it keeps).
SameHelper(a) == hpc # "down" /\ owner[a] = life

\* The helper has the pipe of this worker open: RunAsync has connected and not returned.
LinkUp(a) == a = att /\ hpc \in {"greet", "grant", "commit", "send", "await", "leave"}

\* A commit is on its way to a worker that runs, or the worker acts on it.
MayTransfer(a) == (WorkerRuns(a) /\ toWorker[a] = "CMT2") \/ wpc[a] \in {"committed", "transferring"}
-----------------------------------------------------------------------------
\* HandoffRecord: the journal is replaced by one rename, then the field follows.
HandoffRecord(pending) == journal' = (IF pending THEN "pending" ELSE "clear") /\ unresolved' = pending

\* OnLaunched: the journal decides whether a handoff is allowed; one that cannot be
\* read counts as unresolved.
StartHelper ==
  /\ hpc = "down" /\ life < MaxLives
  /\ hpc' = "idle" /\ life' = life + 1 /\ unresolved' \in BOOLEAN /\ (journal = "pending" => unresolved')
  /\ committed' = FALSE /\ reply' = "none" /\ ack' = FALSE
  /\ UNCHANGED <<att, journal, told, workerVars, seat>>

\* The helper ends: quit while idle, a crash or a log-off at any time.
StopHelper ==
  /\ hpc # "down" /\ hpc' = "down"
  /\ UNCHANGED <<life, att, unresolved, committed, reply, ack, journal, told, workerVars, seat>>

\* The operator clicks Handoff.
Click ==
  /\ hpc = "idle" /\ ~unresolved /\ att < MaxAttempts
  /\ hpc' = "discover" /\ att' = att + 1 /\ committed' = FALSE /\ reply' = "none"
  /\ UNCHANGED <<life, unresolved, ack, journal, told, workerVars, seat>>

\* DiscoverAsync has found the daemon and an active RDP session; UAC is asked to start
\* the worker.
Discovered ==
  /\ hpc = "discover" /\ seat = "rdp"
  /\ HandoffRecord(FALSE) /\ hpc' = "elevate"
  /\ wpc' = [wpc EXCEPT ![att] = "asked"] /\ owner' = [owner EXCEPT ![att] = life]
  /\ UNCHANGED <<life, att, committed, reply, ack, told, toWorker, toHelper, tscon, seat>>

\* The operator allows the elevation, also after the helper that asked has died.
Approve(a) ==
  /\ wpc[a] = "asked" /\ wpc' = [wpc EXCEPT ![a] = "launched"]
  /\ hpc' = IF hpc = "elevate" /\ a = att THEN "connect" ELSE hpc
  /\ UNCHANGED <<life, att, unresolved, committed, reply, ack, journal, told, owner, toWorker, toHelper, tscon, seat>>

\* Or declines it, or the prompt times out: Process.Start throws.
Decline(a) ==
  /\ wpc[a] = "asked" /\ wpc' = [wpc EXCEPT ![a] = "failed"]
  /\ hpc' = IF hpc = "elevate" /\ a = att THEN "catch" ELSE hpc
  /\ UNCHANGED <<life, att, unresolved, committed, reply, ack, journal, told, owner, toWorker, toHelper, tscon, seat>>

\* The helper opens the worker's pipe.
OpenWorkerPipe ==
  /\ hpc = "connect" /\ wpc[att] = "listening"
  /\ hpc' = "greet" /\ wpc' = [wpc EXCEPT ![att] = "accepted"]
  /\ UNCHANGED <<life, att, unresolved, committed, reply, ack, journal, told, owner, toWorker, toHelper, tscon, seat>>

\* Expect RDY2, then the record that the handoff is armed.
Greeted ==
  /\ hpc = "greet" /\ toHelper[att] = "RDY2"
  /\ toHelper' = [toHelper EXCEPT ![att] = "none"] /\ HandoffRecord(FALSE) /\ hpc' = "grant"
  /\ UNCHANGED <<life, att, committed, reply, ack, told, wpc, owner, toWorker, tscon, seat>>

\* GrantAsync: still RDP, the desktop ready, the daemon may take the foreground.
Grant ==
  /\ hpc = "grant" /\ seat = "rdp" /\ hpc' = "commit"
  /\ UNCHANGED <<life, att, unresolved, committed, reply, ack, journal, told, workerVars, seat>>

\* Mutant of Commit: the journal is written with the outcome only.
CommitUnjournaled ==
  /\ hpc = "commit" /\ WorkerRuns(att)
  /\ committed' = TRUE /\ hpc' = "send"
  /\ UNCHANGED <<life, att, unresolved, journal, reply, ack, told, workerVars, seat>>

\* Mutant of Commit: the commit counts as one when its answer is there.
CommitUncounted ==
  /\ hpc = "commit" /\ WorkerRuns(att)
  /\ HandoffRecord(TRUE) /\ hpc' = "send"
  /\ UNCHANGED <<life, att, committed, reply, ack, told, workerVars, seat>>

\* The worker is validated again; committing() writes the journal before the message.
\* A write that fails is Throw: nothing was committed.
Commit ==
  /\ hpc = "commit" /\ WorkerRuns(att)
  /\ HandoffRecord(TRUE) /\ committed' = TRUE /\ hpc' = "send"
  /\ UNCHANGED <<life, att, reply, ack, told, workerVars, seat>>

\* CMT2 is written; the write may be reported as failed although it arrived.
SendCommit ==
  /\ hpc = "send" /\ WorkerRuns(att)
  /\ toWorker' = [toWorker EXCEPT ![att] = "CMT2"] /\ hpc' \in {"await", "catch"}
  /\ UNCHANGED <<life, att, unresolved, committed, reply, ack, journal, told, wpc, owner, toHelper, tscon, seat>>

\* The worker's result is read and acknowledged.
ReadResult ==
  /\ hpc = "await" /\ toHelper[att] \in Results
  /\ reply' = toHelper[att] /\ hpc' = "leave"
  /\ toHelper' = [toHelper EXCEPT ![att] = "none"] /\ toWorker' = [toWorker EXCEPT ![att] = "ACK1"]
  /\ UNCHANGED <<life, att, unresolved, committed, ack, journal, told, wpc, owner, tscon, seat>>

\* WaitForExitAsync, and the exit code is 0.
Left ==
  /\ hpc = "leave" /\ wpc[att] = "exited" /\ hpc' = "observe"
  /\ UNCHANGED <<life, att, unresolved, committed, reply, ack, journal, told, workerVars, seat>>

\* ObserveAsync has looked at the session; the outcome is recorded.
RecordOutcome ==
  /\ hpc = "observe" /\ hpc' = "idle" /\ ack' = FALSE
  /\ HandoffRecord(reply # "DONE")
  /\ told' = [told EXCEPT ![att] = IF reply = "DONE" THEN "done" ELSE "unknown"]
  /\ UNCHANGED <<life, att, committed, reply, workerVars, seat>>

\* Any await of the attempt throws: an error, a cancellation, 30 s are over, the pipe is
\* broken, the journal cannot be written.  Process.Start alone cannot be cancelled.
Throw ==
  /\ hpc \in Busy \ {"elevate", "catch"} /\ hpc' = "catch"
  /\ UNCHANGED <<life, att, unresolved, committed, reply, ack, journal, told, workerVars, seat>>

\* Mutant of Caught: an error is an end like any other.
CaughtClears ==
  /\ hpc = "catch"
  /\ \/ HandoffRecord(FALSE) /\ hpc' = "idle" /\ ack' = FALSE
        /\ told' = [told EXCEPT ![att] = IF committed THEN "unknown" ELSE "not_committed"]
     \/ hpc' = "down" /\ UNCHANGED <<journal, unresolved, ack, told>>
  /\ UNCHANGED <<life, att, committed, reply, workerVars, seat>>

\* The catch and finally blocks; when the record cannot be written the exception ends the
\* process.
Caught ==
  /\ hpc = "catch"
  /\ \/ HandoffRecord(committed) /\ hpc' = "idle" /\ ack' = FALSE
        /\ told' = [told EXCEPT ![att] = IF committed THEN "unknown" ELSE "not_committed"]
     \/ hpc' = "down" /\ UNCHANGED <<journal, unresolved, ack, told>>
  /\ UNCHANGED <<life, att, committed, reply, workerVars, seat>>

\* Mutant of InspectCurrent: the session alone decides.
InspectSession == seat # "away"

\* HandoffRecovery.InspectCurrent: no worker of any helper runs and the session is active.
InspectCurrent == (\A a \in Attempts : ~WorkerRuns(a)) /\ seat # "away"

InspectPrevious ==
  /\ hpc = "idle" /\ unresolved /\ ack' = InspectCurrent
  /\ UNCHANGED <<hpc, life, att, unresolved, committed, reply, journal, told, workerVars, seat>>

\* Looked at again; the operator's acknowledgement allows another attempt.  Copy and
\* record may fail, which leaves all as it was.
AcknowledgePrevious ==
  /\ hpc = "idle" /\ unresolved /\ ack /\ ack' = FALSE
  /\ IF InspectCurrent THEN HandoffRecord(FALSE) ELSE UNCHANGED <<journal, unresolved>>
  /\ UNCHANGED <<hpc, life, att, committed, reply, told, workerVars, seat>>
-----------------------------------------------------------------------------
\* main and ipc::run: the worker opens and authorizes the helper's process and listens.
WorkerStarts(a) ==
  /\ wpc[a] = "launched" /\ SameHelper(a) /\ wpc' = [wpc EXCEPT ![a] = "listening"]
  /\ UNCHANGED <<helperVars, owner, toWorker, toHelper, tscon, seat>>

\* authenticate, validate and RDY2.
Greet(a) ==
  /\ wpc[a] = "accepted" /\ SameHelper(a) /\ LinkUp(a)
  /\ wpc' = [wpc EXCEPT ![a] = "ready"] /\ toHelper' = [toHelper EXCEPT ![a] = "RDY2"]
  /\ UNCHANGED <<helperVars, owner, toWorker, tscon, seat>>

\* CMT2 is read, also from a pipe the helper has closed, and the helper validated again.
Receive(a) ==
  /\ wpc[a] = "ready" /\ toWorker[a] = "CMT2" /\ SameHelper(a)
  /\ wpc' = [wpc EXCEPT ![a] = "committed"] /\ toWorker' = [toWorker EXCEPT ![a] = "none"]
  /\ UNCHANGED <<helperVars, owner, toHelper, tscon, seat>>

\* transfer: the session must be RDP, active and unlocked; tscon is started.
Transfer(a) ==
  /\ wpc[a] = "committed" /\ seat = "rdp"
  /\ wpc' = [wpc EXCEPT ![a] = "transferring"] /\ tscon' = [tscon EXCEPT ![a] = "running"]
  /\ UNCHANGED <<helperVars, owner, toWorker, toHelper, seat>>

\* Mutant of TsconResult: a tscon that is still running after 15 s has not failed.
TsconHopeful(a) == IF tscon[a] = "failed" THEN "FAIL" ELSE "DONE"

\* The child's exit status, or UNKN when 15 s are over first.
TsconResult(a) == CASE tscon[a] = "done" -> "DONE" [] tscon[a] = "failed" -> "FAIL" [] OTHER -> "UNKN"

Report(a) ==
  /\ wpc[a] = "transferring" /\ LinkUp(a)
  /\ wpc' = [wpc EXCEPT ![a] = "reported"] /\ toHelper' = [toHelper EXCEPT ![a] = TsconResult(a)]
  /\ UNCHANGED <<helperVars, owner, toWorker, tscon, seat>>

Acked(a) ==
  /\ wpc[a] = "reported" /\ toWorker[a] = "ACK1" /\ wpc' = [wpc EXCEPT ![a] = "exited"]
  /\ UNCHANGED <<helperVars, owner, toWorker, toHelper, tscon, seat>>

\* A check fails, the helper is gone, the pipe breaks, 30 s are over: an exit code.
WorkerFails(a) ==
  /\ WorkerRuns(a) /\ wpc' = [wpc EXCEPT ![a] = "failed"]
  /\ UNCHANGED <<helperVars, owner, toWorker, toHelper, tscon, seat>>

\* tscon moves the session, or cannot.
Tscon(a) ==
  /\ tscon[a] = "running"
  /\ \/ tscon' = [tscon EXCEPT ![a] = "done"] /\ seat' = "console"
     \/ tscon' = [tscon EXCEPT ![a] = "failed"] /\ UNCHANGED seat
  /\ UNCHANGED <<helperVars, wpc, owner, toWorker, toHelper>>

\* The user connects, disconnects or signs in at the console.
Move ==
  /\ seat' \in {"rdp", "console", "away"} /\ seat' # seat
  /\ UNCHANGED <<helperVars, workerVars>>

HandoffNext ==
  \/ StartHelper \/ StopHelper \/ Click \/ Discovered \/ OpenWorkerPipe \/ Greeted \/ Grant \/ Commit \/ SendCommit
  \/ ReadResult \/ Left \/ RecordOutcome \/ Throw \/ Caught \/ InspectPrevious \/ AcknowledgePrevious \/ Move
  \/ \E a \in Attempts :
       \/ Approve(a) \/ Decline(a) \/ WorkerStarts(a) \/ Greet(a) \/ Receive(a) \/ Transfer(a) \/ Report(a)
       \/ Acked(a) \/ WorkerFails(a) \/ Tscon(a)

HandoffSpec == HandoffInit /\ [][HandoffNext]_handoffVars
-----------------------------------------------------------------------------
HandoffTypeOK ==
  /\ hpc \in Busy \union {"idle", "down"} /\ life \in 0..MaxLives /\ att \in 0..MaxAttempts
  /\ unresolved \in BOOLEAN /\ committed \in BOOLEAN /\ ack \in BOOLEAN
  /\ reply \in Results \union {"none"} /\ journal \in {"clear", "pending"}
  /\ told \in [Attempts -> {"none", "not_committed", "unknown", "done"}]
  /\ wpc \in [Attempts -> Running \union {"none", "asked", "exited", "failed"}]
  /\ owner \in [Attempts -> 0..MaxLives]
  /\ toWorker \in [Attempts -> {"none", "CMT2", "ACK1"}]
  /\ toHelper \in [Attempts -> Results \union {"none", "RDY2"}]
  /\ tscon \in [Attempts -> {"none", "running", "done", "failed"}]
  /\ seat \in {"rdp", "console", "away"}

\* Whenever a worker may still move the session, the journal says so, whatever crashed:
\* Program.cs, "Persist before writing: even a partial send makes outcome uncertain".
CommitIsJournaled == \A a \in Attempts : MayTransfer(a) => journal = "pending"

\* Two workers never act on a commit at the same time, over all attempts and restarts:
\* HandoffRecovery.cs, "Re-arm only when no worker from any helper instance can still
\* transfer a session".
OneTransfer == \A a, b \in Attempts : MayTransfer(a) /\ MayTransfer(b) => a = b

\* What the journal says of an attempt that is over is so: one that was cancelled or not
\* committed never starts tscon, one that is done has moved the session.
ToldTruly ==
  \A a \in Attempts :
    /\ told[a] = "not_committed" => tscon[a] = "none" /\ ~MayTransfer(a)
    /\ told[a] = "done" => tscon[a] = "done"

\* The promise of the handoff as a whole: journaled before it can happen, one at a time,
\* and told truly (Program.cs, HandoffRecovery.cs, ipc.rs).
HandoffIsSafe == HandoffTypeOK /\ CommitIsJournaled /\ OneTransfer /\ ToldTruly
=============================================================================
