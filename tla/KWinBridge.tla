----------------------------- MODULE KWinBridge -----------------------------
(***************************************************************************)
(* The command bridge between the KWin adapter and the control script      *)
(* inside the compositor (porthole-adapter-kwin bridge.rs, lib.rs): calls  *)
(* queue commands and poll for completions, scripts long-poll for commands *)
(* over D-Bus and send snapshots and completions back.                     *)
(*                                                                         *)
(* The script (apps/linux/kwin main.js) and D-Bus are external.  zbus runs *)
(* every method call as a task of its own, so messages may be handled in   *)
(* another order than they were sent; the ghost `overtaken' tells whether  *)
(* that happened.  A snapshot is the version of the compositor's state it  *)
(* shows.                                                                  *)
(***************************************************************************)
EXTENDS Naturals, Sequences, FiniteSets, Functions, SequencesExt

CONSTANTS
  KCalls,      \* adapter calls that queue one command each; also the command ids
  Scripts,     \* script instances
  MaxVersion,  \* bound: changes of the compositor's state that are told apart
  MaxStops,    \* bound: times a script instance stops
  MaxBus       \* bound: messages under way when another is sent unasked

ASSUME KWinAssumption == IsFiniteSet(Scripts) /\ MaxVersion \in Nat /\ MaxStops \in Nat /\ MaxBus \in Nat

VARIABLES
  kcall,     \* kcall[c]: where a call is, its command's kind, the state when it asked
  bridge,    \* KWinBridgeState
  script,    \* script[s]: what a script instance is at
  bus,       \* messages scripts sent and the daemon has not handled
  comp,      \* the compositor: its state, commands carried out, stops
  overtaken  \* a message was handled before an earlier one

kwinVars == <<kcall, bridge, script, bus, comp, overtaken>>

Kinds == {"window", "snapshot"}
None == "no command"

KWinTypeOK ==
  /\ kcall \in [KCalls -> [at: {"none", "wait", "ok", "failed", "timeout", "dropped"}, kind: Kinds,
                           asked: 0..MaxVersion]]
  /\ bridge.pending \subseteq KCalls /\ DOMAIN bridge.done \subseteq KCalls
  /\ bridge.latest \in 0..MaxVersion /\ Range(bridge.queue) \subseteq KCalls
  /\ script \in [Scripts -> [at: {"off", "poll", "stale", "run"}, id: KCalls \union {None}]]
  /\ \A n \in DOMAIN bus : bus[n].kind \in {"snapshot", "done"}
  /\ comp.version \in 0..MaxVersion /\ comp.stops \in 0..MaxStops /\ overtaken \in BOOLEAN

KWinInit ==
  /\ kcall = [c \in KCalls |-> [at |-> "none", kind |-> "window", asked |-> 0]]
  /\ bridge = [queue |-> <<>>, pending |-> {}, done |-> [c \in {} |-> TRUE], latest |-> 0]
  /\ script = [s \in Scripts |-> [at |-> "off", id |-> None]]
  /\ bus = <<>>
  /\ comp = [version |-> 0, ran |-> [c \in KCalls |-> 0], stops |-> 0]
  /\ overtaken = FALSE

-----------------------------------------------------------------------------
(* The adapter's side.                                                     *)

\* run_window_command, refresh_snapshot: queue_command.
QueueCommand(c, k) ==
  /\ kcall[c].at = "none"
  /\ kcall' = [kcall EXCEPT ![c] = [at |-> "wait", kind |-> k, asked |-> comp.version]]
  /\ bridge' = [bridge EXCEPT !.queue = Append(@, c), !.pending = @ \union {c}]
  /\ UNCHANGED <<script, bus, comp, overtaken>>

\* Mutant of Completion: whatever completion is there answers the call.
AnyCompletion(c) ==
  /\ kcall[c].at = "wait" /\ DOMAIN bridge.done # {}
  /\ \E d \in DOMAIN bridge.done :
       /\ kcall' = [kcall EXCEPT ![c].at = IF bridge.done[d] THEN "ok" ELSE "failed"]
       /\ bridge' = [bridge EXCEPT !.done = Restrict(@, DOMAIN @ \ {d}), !.pending = @ \ {d}]
  /\ UNCHANGED <<script, bus, comp, overtaken>>

\* poll_command_completion takes the completion of its command.
Completion(c) ==
  /\ kcall[c].at = "wait" /\ c \in DOMAIN bridge.done
  /\ kcall' = [kcall EXCEPT ![c].at = IF bridge.done[c] THEN "ok" ELSE "failed"]
  /\ bridge' = [bridge EXCEPT !.done = Restrict(@, DOMAIN @ \ {c}), !.pending = @ \ {c}]
  /\ UNCHANGED <<script, bus, comp, overtaken>>

\* Mutant of TimeOut: the call gives up and the command stays.
TimeOutOnly(c) ==
  /\ kcall[c].at = "wait"
  /\ kcall' = [kcall EXCEPT ![c].at = "timeout"]
  /\ UNCHANGED <<bridge, script, bus, comp, overtaken>>

\* Mutant of TimeOut: only a call whose command was handed out gives up.
TimeOutOnceTaken(c) ==
  /\ kcall[c].at = "wait" /\ \A n \in DOMAIN bridge.queue : bridge.queue[n] # c
  /\ kcall' = [kcall EXCEPT ![c].at = "timeout"]
  /\ bridge' = [bridge EXCEPT !.pending = @ \ {c}, !.done = Restrict(@, DOMAIN @ \ {c})]
  /\ UNCHANGED <<script, bus, comp, overtaken>>

\* commands.retain: a command is in the queue once.
Without(q, c) == IF c \in Range(q) THEN RemoveAt(q, CHOOSE n \in DOMAIN q : q[n] = c) ELSE q

\* COMMAND_TIMEOUT passed at the look for a completion: abandon_command.  A
\* completion that is put in between the look and the abandoning goes with it.
TimeOut(c) ==
  /\ kcall[c].at = "wait"
  /\ kcall' = [kcall EXCEPT ![c].at = "timeout"]
  /\ bridge' = [bridge EXCEPT !.queue = Without(@, c), !.pending = @ \ {c},
                              !.done = Restrict(@, DOMAIN @ \ {c})]
  /\ UNCHANGED <<script, bus, comp, overtaken>>

\* The client goes away and its handler is dropped at an await of the poll loop:
\* nothing abandons the command.
DropCall(c) ==
  /\ kcall[c].at = "wait"
  /\ kcall' = [kcall EXCEPT ![c].at = "dropped"]
  /\ UNCHANGED <<bridge, script, bus, comp, overtaken>>

-----------------------------------------------------------------------------
(* The D-Bus methods.                                                      *)

\* Mutant of NextCommand: the command is read and left in the queue.
PeekCommand(s) ==
  /\ script[s].at \in {"poll", "stale"} /\ bridge.queue # <<>>
  /\ script' = [script EXCEPT ![s] = IF @.at = "poll" THEN [at |-> "run", id |-> Head(bridge.queue)]
                                     ELSE [at |-> "off", id |-> None]]
  /\ UNCHANGED <<kcall, bridge, bus, comp, overtaken>>

\* NextCommand: the oldest command is taken off the queue and answered to the
\* poll; when its script is gone the answer reaches nobody.
NextCommand(s) ==
  /\ script[s].at \in {"poll", "stale"} /\ bridge.queue # <<>>
  /\ bridge' = [bridge EXCEPT !.queue = Tail(@)]
  /\ script' = [script EXCEPT ![s] = IF @.at = "poll" THEN [at |-> "run", id |-> Head(bridge.queue)]
                                     ELSE [at |-> "off", id |-> None]]
  /\ UNCHANGED <<kcall, bus, comp, overtaken>>

\* Mutant of Completed: a completion is recorded whoever it is for.
CompletedAny(m) == [bridge EXCEPT !.done = [d \in DOMAIN @ \union {m.id} |-> IF d = m.id THEN m.ok ELSE @[d]]]

\* complete_command_json: a completion nobody waits for is ignored.
Completed(m) ==
  IF m.id \in bridge.pending
  THEN [bridge EXCEPT !.done = [d \in DOMAIN @ \union {m.id} |-> IF d = m.id THEN m.ok ELSE @[d]]]
  ELSE bridge

\* PublishSnapshot or CompleteCommand is handled, in order or ahead of others.
Handle(n) ==
  /\ n \in DOMAIN bus
  /\ bridge' = IF bus[n].kind = "snapshot" THEN [bridge EXCEPT !.latest = bus[n].version]
               ELSE Completed(bus[n])
  /\ bus' = RemoveAt(bus, n)
  /\ overtaken' = (overtaken \/ n # 1)
  /\ UNCHANGED <<kcall, script, comp>>

-----------------------------------------------------------------------------
(* The script and the compositor (external).                               *)

Snapshot(v) == [kind |-> "snapshot", version |-> v]
Done(c, ok) == [kind |-> "done", id |-> c, ok |-> ok]
On == {s \in Scripts : script[s].at \in {"poll", "run"}}

StartScript(s) ==
  /\ script[s].at = "off" /\ Len(bus) < MaxBus
  /\ script' = [script EXCEPT ![s].at = "poll"]
  /\ bus' = Append(bus, Snapshot(comp.version))
  /\ UNCHANGED <<kcall, bridge, comp, overtaken>>

\* A script stops (reloaded, the compositor restarts): a command it has in hand
\* is lost, and its long poll lingers in the daemon.
StopScript(s) ==
  /\ script[s].at \in {"poll", "run"} /\ comp.stops < MaxStops
  /\ script' = [script EXCEPT ![s] = [at |-> IF @.at = "poll" THEN "stale" ELSE "off", id |-> None]]
  /\ comp' = [comp EXCEPT !.stops = @ + 1]
  /\ UNCHANGED <<kcall, bridge, bus, overtaken>>

\* The lingering long poll ends after 250 ms.
PollExpires(s) ==
  /\ script[s].at = "stale"
  /\ script' = [script EXCEPT ![s].at = "off"]
  /\ UNCHANGED <<kcall, bridge, bus, comp, overtaken>>

\* Mutant of RunCommand: the script completes a command before it publishes.
RunCommandCompletesFirst(s) ==
  /\ script[s].at = "run"
  /\ LET c == script[s].id IN
     \/ /\ comp' = [comp EXCEPT !.ran[c] = @ + 1,
                                !.version = IF kcall[c].kind = "window" /\ @ < MaxVersion THEN @ + 1 ELSE @]
        /\ bus' = bus \o <<Done(c, TRUE), Snapshot(comp'.version)>>
     \/ kcall[c].kind = "window" /\ bus' = Append(bus, Done(c, FALSE)) /\ UNCHANGED comp
  /\ script' = [script EXCEPT ![s] = [at |-> "poll", id |-> None]]
  /\ UNCHANGED <<kcall, bridge, overtaken>>

\* handleCommand: carry the command out, publish, complete; or complete with an
\* error when the window is not found.  Then poll again.
RunCommand(s) ==
  /\ script[s].at = "run"
  /\ LET c == script[s].id IN
     \/ /\ comp' = [comp EXCEPT !.ran[c] = @ + 1,
                                !.version = IF kcall[c].kind = "window" /\ @ < MaxVersion THEN @ + 1 ELSE @]
        /\ bus' = bus \o <<Snapshot(comp'.version), Done(c, TRUE)>>
     \/ kcall[c].kind = "window" /\ bus' = Append(bus, Done(c, FALSE)) /\ UNCHANGED comp
  /\ script' = [script EXCEPT ![s] = [at |-> "poll", id |-> None]]
  /\ UNCHANGED <<kcall, bridge, overtaken>>

\* Windows come, go and move; every running script publishes.
CompositorChanges ==
  /\ comp.version < MaxVersion /\ Len(bus) < MaxBus
  /\ comp' = [comp EXCEPT !.version = @ + 1]
  /\ bus' = bus \o [i \in 1..Cardinality(On) |-> Snapshot(comp.version + 1)]
  /\ UNCHANGED <<kcall, bridge, script, overtaken>>

\* The cursor moves, or something else no signal of the script tells of: nothing
\* is published until a snapshot is asked for.
CursorMoves ==
  /\ comp.version < MaxVersion
  /\ comp' = [comp EXCEPT !.version = @ + 1]
  /\ UNCHANGED <<kcall, bridge, script, bus, overtaken>>

KWinNext ==
  \/ \E c \in KCalls : Completion(c) \/ TimeOut(c) \/ DropCall(c) \/ (\E k \in Kinds : QueueCommand(c, k))
  \/ \E s \in Scripts : NextCommand(s) \/ StartScript(s) \/ StopScript(s) \/ PollExpires(s) \/ RunCommand(s)
  \/ \E n \in DOMAIN bus : Handle(n)
  \/ CompositorChanges \/ CursorMoves

\* The call's poll loop runs and its deadline comes; D-Bus calls are handled; a
\* running script handles what it got and polls again.
KWinFairness ==
  /\ \A c \in KCalls : WF_kwinVars(Completion(c) \/ TimeOut(c))
  /\ \A s \in Scripts : WF_kwinVars(NextCommand(s)) /\ WF_kwinVars(RunCommand(s))
  /\ WF_kwinVars(Handle(1))

-----------------------------------------------------------------------------
(* Properties.                                                             *)

\* A call that is told its command succeeded had it carried out, and no command
\* is carried out twice, with two scripts polling or restarting, and with
\* completions that come late (completion, next_command_json).
OkMeansDoneOnce ==
  \A c \in KCalls : comp.ran[c] <= 1 /\ (kcall[c].at = "ok" => comp.ran[c] = 1)

\* Once a call has its answer or its timeout, the bridge remembers nothing of its
\* command: no late completion stays behind (abandon_command, complete_command_json).
NothingLeftBehind ==
  \A c \in KCalls : kcall[c].at \in {"ok", "failed", "timeout"} =>
    /\ c \notin bridge.pending \union DOMAIN bridge.done
    /\ \A n \in DOMAIN bridge.queue : bridge.queue[n] # c

\* A command whose call has timed out is not handed to a script any more
\* (abandon_command takes it off the queue); one that was handed out before may
\* still be carried out.
NoLateHandout ==
  [][\A s \in Scripts : script'[s].at = "run" /\ script[s].at # "run"
       => kcall[script'[s].id].at \in {"wait", "dropped"}]_kwinVars

\* A refresh that returns leaves a snapshot at least as new as the state when it
\* was asked for, unless messages overtook each other: the script publishes before
\* it completes (refresh_snapshot).
RefreshIsFresh ==
  [][\A c \in KCalls : kcall[c].kind = "snapshot" /\ kcall[c].at = "wait" /\ kcall'[c].at = "ok"
       => overtaken \/ bridge.latest >= kcall[c].asked]_kwinVars

\* Every call that waits for a command ends, also when no script ever comes for it
\* (poll_command_completion's deadline).
CallsEnd == \A c \in KCalls : kcall[c].at = "wait" ~> kcall[c].at # "wait"
=============================================================================
