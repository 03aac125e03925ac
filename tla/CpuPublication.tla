--------------------------- MODULE CpuPublication ---------------------------
(***************************************************************************)
(* The CPU publication of the ingress half (jackstay-bridge                *)
(* cpu_publication.rs): an arena of one payload size, resized when a       *)
(* picture of another size comes, and the setup connections of its         *)
(* readers, each served by a thread.                                       *)
(*                                                                         *)
(* The arena itself (the jackstay crates) is external: a resize is done at *)
(* once, or paused while a reader holds frames of the old size; a paused   *)
(* arena gives out no more of them.                                        *)
(***************************************************************************)
EXTENDS Naturals

CONSTANTS
  Payloads,    \* payload sizes of the pictures
  Readers   \* connections to the socket

VARIABLES
  cpu,     \* what the publication believes, and the arena's own size
  setups   \* the setup connections and their threads

cpuVars == <<cpu, setups>>

NewCpu(size) == [run |-> "up", installed |-> size, pending |-> 0, arena |-> size, held |-> FALSE,
                 accepting |-> TRUE]

\* bind: sized for the first configuration, which brings the publication up.
CpuInit ==
  /\ \E size \in Payloads : cpu = NewCpu(size)
  /\ setups = [c \in Readers |-> "none"]

\* Mutant of Publish: a paused resize is taken for an installed one.
PublishPaused(size) ==
  /\ cpu.run = "up"
  /\ cpu' = IF size \in {cpu.installed, cpu.pending} THEN cpu
            ELSE [cpu EXCEPT !.installed = size, !.pending = 0,
                             !.arena = IF cpu.held THEN @ ELSE size]
  /\ UNCHANGED setups

\* publish: another size reconfigures the arena, at once or when its readers let
\* go; until then every frame is dropped, also one of the installed size.
Publish(size) ==
  /\ cpu.run = "up"
  /\ cpu' = IF size \in {cpu.installed, cpu.pending} THEN cpu
            ELSE IF cpu.held THEN [cpu EXCEPT !.pending = size]
            ELSE [cpu EXCEPT !.installed = size, !.pending = 0, !.arena = size]
  /\ UNCHANGED setups

\* Mutant of Maintain: a paused resize is retried only by the next publish.
MaintainNothing == FALSE /\ UNCHANGED cpuVars

\* maintain: retries a paused resize.
Maintain ==
  /\ cpu.run = "up" /\ cpu.pending # 0 /\ ~cpu.held
  /\ cpu' = [cpu EXCEPT !.arena = cpu.pending, !.installed = cpu.pending, !.pending = 0]
  /\ UNCHANGED setups

\* A reader acquires frames of the arena, or releases what it holds.
Acquire ==
  /\ cpu.run = "up" /\ cpu.pending = 0 /\ ~cpu.held /\ \E c \in Readers : setups[c] = "serving"
  /\ cpu' = [cpu EXCEPT !.held = TRUE]
  /\ UNCHANGED setups

Release ==
  /\ cpu.held
  /\ cpu' = [cpu EXCEPT !.held = FALSE]
  /\ UNCHANGED setups

\* accept_loop: a connection gets a thread that does the handshake and serves it.
AcceptReader(c) ==
  /\ cpu.accepting /\ setups[c] = "none"
  /\ setups' = [setups EXCEPT ![c] = "serving"]
  /\ UNCHANGED cpu

\* The handshake fails, or the reader goes away.
SetupEnds(c) ==
  /\ setups[c] \in {"serving", "shut"}
  /\ setups' = [setups EXCEPT ![c] = "ended"]
  /\ UNCHANGED cpu

\* shutdown, once: the flag, the accept thread joined, the socket unlinked,
StopAccepting ==
  /\ cpu.run = "up"
  /\ cpu' = [cpu EXCEPT !.run = "stopping"]
  /\ UNCHANGED setups

JoinAccept ==
  /\ cpu.run = "stopping" /\ cpu.accepting
  /\ cpu' = [cpu EXCEPT !.accepting = FALSE]
  /\ UNCHANGED setups

\* Mutant of ShutSetups: the connections are taken while the thread still accepts.
ShutSetupsEarly ==
  /\ cpu.run = "stopping"
  /\ cpu' = [cpu EXCEPT !.run = "joining"]
  /\ setups' = [c \in Readers |-> IF setups[c] = "serving" THEN "shut" ELSE setups[c]]

\* then every connection shut and its thread joined,
ShutSetups ==
  /\ cpu.run = "stopping" /\ ~cpu.accepting
  /\ cpu' = [cpu EXCEPT !.run = "joining"]
  /\ setups' = [c \in Readers |-> IF setups[c] = "serving" THEN "shut" ELSE setups[c]]

JoinSetups ==
  /\ cpu.run = "joining" /\ \A c \in Readers : setups[c] # "shut"
  /\ cpu' = [cpu EXCEPT !.run = "draining"]
  /\ UNCHANGED setups

\* and the arena drained, or given up after its timeout.
DrainArena ==
  /\ cpu.run = "draining"
  /\ cpu' = [cpu EXCEPT !.run = "over"]
  /\ UNCHANGED setups

CpuNext ==
  \/ \E size \in Payloads : Publish(size)
  \/ Maintain \/ Acquire \/ Release
  \/ \E c \in Readers : AcceptReader(c) \/ SetupEnds(c)
  \/ StopAccepting \/ JoinAccept \/ ShutSetups \/ JoinSetups \/ DrainArena

\* The maintenance loop runs every 50 ms and shutdown runs to its end; a thread
\* whose connection is shut ends.
CpuFairness ==
  /\ WF_cpuVars(Maintain)
  /\ WF_cpuVars(JoinAccept) /\ WF_cpuVars(ShutSetups)
  /\ WF_cpuVars(JoinSetups) /\ WF_cpuVars(DrainArena)
  /\ \A c \in Readers : WF_cpuVars(setups[c] = "shut" /\ SetupEnds(c))

\* With no resize pending, the size the publication believes installed is the
\* size the arena has, so no frame is written into buffers of another size
\* (publish, maintain).
InstalledIsTheArena == cpu.pending = 0 => cpu.installed = cpu.arena

\* Once shutdown has joined the connections, no thread serves a reader: none was
\* accepted after they were taken (shutdown, accept_loop).
NoSetupAfterShutdown ==
  cpu.run \in {"draining", "over"} => \A c \in Readers : setups[c] \notin {"serving", "shut"}

\* A resize that waits for readers is done after they let go, without another
\* frame, so the publication never stays silent (maintain).
ResizeResumes == cpu.pending # 0 /\ ~cpu.held ~> cpu.pending = 0 \/ cpu.run # "up"
=============================================================================
