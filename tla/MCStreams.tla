----------------------------- MODULE MCStreams -----------------------------
(***************************************************************************)
(* The video and the input a link carries share no state but the stop flag *)
(* of their half, and the CPU publication sees the video as a sequence of  *)
(* pictures.  One run explores each of them while the others are over.     *)
(***************************************************************************)
EXTENDS VideoLink, InputRelay, CpuPublication

BothChromas == {"444", "420"}
MCEgressOffers == {[policy |-> "Prefer444", caps |-> BothChromas]}
MCIngressOffers ==
  {[policy |-> p, caps |-> BothChromas] : p \in {"Prefer444", "Always420"}}

VideoOver ==
  /\ eg = [NewEgress EXCEPT !.run = "over", !.stop = TRUE]
  /\ ing = [NewIngress EXCEPT !.run = "over", !.stop = TRUE]
  /\ media = <<>> /\ ctl = <<>>

RelayOver ==
  /\ peer = [s \in Sides |-> [i \in Streams |-> NoPeer]]
  /\ relay = [s \in Sides |-> [streams |-> {}, inserted |-> {}, announced |-> {}, opened |-> {},
                               pumps |-> {}, run |-> "over"]]
  /\ wire = [s \in Sides |-> <<>>]

CpuOver == /\ cpu = [NewCpu(1) EXCEPT !.run = "over", !.accepting = FALSE]
           /\ setups = [c \in Readers |-> "none"]

Spec ==
  /\ \/ VideoInit /\ RelayOver /\ CpuOver
     \/ VideoOver /\ RelayInit /\ CpuOver
     \/ VideoOver /\ RelayOver /\ CpuInit
  /\ [][\/ VideoNext /\ UNCHANGED <<relayVars, cpuVars>>
        \/ RelayNext /\ UNCHANGED <<videoVars, cpuVars>>
        \/ CpuNext /\ UNCHANGED <<videoVars, relayVars>>]_<<videoVars, relayVars, cpuVars>>
  /\ VideoFairness /\ RelayFairness /\ CpuFairness

\* The video of a link can be decoded: both ends take the same decision about the chroma,
\* a frame is fed only after the ones it refers to, the wire keeps the encoder's order and
\* a viewer that waits for a keyframe has asked for it (egress.rs, ingress.rs).
VideoDecodes == VideoTypeOK /\ SameDecision /\ ReferencesFed /\ WireOrder /\ RequestOnItsWay

\* A relayed input stream has no hole and nothing after its shutdown, and a reader of the
\* CPU publication maps the arena that frames are written to (input_relay.rs, cpu_publication.rs).
NothingLostBetween ==
  RelayTypeOK /\ NoHoleInAStream /\ NothingAfterShutdown /\ InstalledIsTheArena /\ NoSetupAfterShutdown

\* Links end and go on: the decoder is fed under the right configuration, a stopped egress
\* ends and takes the other half along, a hang-up reaches the other end, a resized
\* publication resumes.
StreamsEnd ==
  FedUnderItsConfiguration /\ StoppedEgressEnds /\ HalvesEndTogether /\ HangUpReachesTheOtherEnd /\ ResizeResumes
=============================================================================
