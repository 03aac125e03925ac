----------------------------- MODULE VideoLink -----------------------------
(***************************************************************************)
(* The video path of the bridge: the egress half (jackstay-bridge          *)
(* egress.rs), the media and control connections, and the ingress half     *)
(* (ingress.rs), with VideoToolbox (vt.rs) as an asynchronous encoder and  *)
(* decoder.                                                                *)
(*                                                                         *)
(* Every thread is a set of actions: the acquisition loop, the encoder's   *)
(* callback, the sender, the egress control reader, the ingress media      *)
(* loop, the decoder's callback, the ingress control writer and its        *)
(* maintenance loop.  A picture is its size; an encoded frame is its       *)
(* sequence number, whether it is a keyframe and the output it refers to.  *)
(***************************************************************************)
EXTENDS Naturals, Sequences

CONSTANTS
  Sizes,      \* picture sizes, positive numbers
  EgressOffers,   \* chroma policy and probed capabilities an egress may have
  IngressOffers,  \* the same of an ingress
  MaxFrames,  \* bound: frames the source publishes
  MaxQueue,   \* bound: frames inside VideoToolbox, messages in the socket
  MaxAsks     \* bound: keyframe requests counted in the channel

ASSUME VideoLinkAssumption ==
  /\ Sizes \subseteq Nat \ {0} /\ Sizes # {}
  /\ EgressOffers \union IngressOffers
       \subseteq [policy: {"Prefer444", "Always420"}, caps: SUBSET {"444", "420"}]
  /\ {MaxFrames, MaxQueue, MaxAsks} \subseteq Nat \ {0}

VARIABLES
  eg,     \* the egress half
  media,  \* the media connection, egress to ingress
  ctl,    \* the control connection, ingress to egress (hello both ways)
  ing     \* the ingress half

videoVars == <<eg, media, ctl, ing>>

NoFrame == [seq |-> 0, key |-> TRUE, base |-> 0, size |-> 0]
Chromas == {"none", "444", "420"}
Frames == [seq: 0..MaxFrames, key: BOOLEAN, base: 0..MaxFrames, size: Sizes \union {0}]

\* decide(policy of the egress, capabilities of the egress, of the ingress).
Decide(policy, a, b) ==
  IF "444" \in a \intersect b /\ policy = "Prefer444" THEN "444"
  ELSE IF "420" \in a \intersect b THEN "420" ELSE "none"

VideoTypeOK ==
  /\ eg \in [run: {"hello", "peer", "up", "flush", "submit", "drain", "over"}, stop: BOOLEAN,
             policy: {"Prefer444", "Always420"}, mine: SUBSET {"444", "420"}, dec: Chromas,
             taken: 0..MaxFrames, cur: Sizes \union {0}, size: Sizes \union {0}, force: BOOLEAN,
             asked: BOOLEAN, limit: BOOLEAN, enc: Seq([key: BOOLEAN, size: Sizes]),
             base: 0..MaxFrames, seq: 0..MaxFrames, keyslot: Seq(Frames), delta: Seq(Frames),
             lost: BOOLEAN]
  /\ \A i \in DOMAIN media : media[i] \in [kind: {"config", "frame"}, frame: Frames]
  /\ ing \in [run: {"hello", "up", "drain", "over"}, stop: BOOLEAN, dec: Chromas, target: BOOLEAN,
              last: 0..MaxFrames, waiting: BOOLEAN, cfg: Sizes \union {0}, requests: 0..MaxAsks,
              queue: Seq(Frames), prev: 0..MaxFrames, fed: Frames]

NewEgress ==
  [run |-> "hello", stop |-> FALSE, policy |-> "Prefer444", mine |-> {}, dec |-> "none",
   taken |-> 0, cur |-> 0, size |-> 0, force |-> TRUE, asked |-> FALSE, limit |-> FALSE,
   enc |-> <<>>, base |-> 0, seq |-> 0, keyslot |-> <<>>, delta |-> <<>>, lost |-> FALSE]
NewIngress ==
  [run |-> "hello", stop |-> FALSE, dec |-> "none", target |-> FALSE, last |-> 0,
   waiting |-> TRUE, cfg |-> 0, requests |-> 0, queue |-> <<>>, prev |-> 0, fed |-> NoFrame]

VideoInit ==
  /\ eg = NewEgress
  /\ media = <<>>
  /\ ctl = <<>>
  /\ ing = NewIngress

-----------------------------------------------------------------------------
(* Hello in both directions, then the codec decision at each end.          *)

\* The egress speaks first.
EgressHello ==
  /\ eg.run = "hello" /\ ~eg.stop
  /\ \E o \in EgressOffers :
       /\ eg' = [eg EXCEPT !.run = "peer", !.policy = o.policy, !.mine = o.caps]
       /\ ctl' = <<[kind |-> "hello", policy |-> o.policy, caps |-> o.caps]>>
  /\ UNCHANGED <<media, ing>>

\* Mutant of IngressHello: the ingress decides from its own chroma policy.
OwnPolicyHello ==
  /\ ing.run = "hello" /\ ctl # <<>> /\ Head(ctl).kind = "hello" /\ eg.run = "peer"
  /\ \E o \in IngressOffers :
       /\ ing' = [ing EXCEPT !.run = "up", !.dec = Decide(o.policy, Head(ctl).caps, o.caps)]
       /\ ctl' = <<[kind |-> "answer", policy |-> o.policy, caps |-> o.caps]>>
  /\ UNCHANGED <<eg, media>>

\* Mutant of IngressHello: the policy is kept where the decision belongs.
PolicyKeptHello ==
  /\ ing.run = "hello" /\ ctl # <<>> /\ Head(ctl).kind = "hello" /\ eg.run = "peer"
  /\ \E o \in IngressOffers :
       /\ ing' = [ing EXCEPT !.run = "up", !.dec = Head(ctl).policy]
       /\ ctl' = <<[kind |-> "answer", policy |-> o.policy, caps |-> o.caps]>>
  /\ UNCHANGED <<eg, media>>

\* The ingress answers and decides from the egress' policy, in its argument order.
IngressHello ==
  /\ ing.run = "hello" /\ ctl # <<>> /\ Head(ctl).kind = "hello" /\ eg.run = "peer"
  /\ \E o \in IngressOffers :
       /\ ing' = [ing EXCEPT !.run = "up", !.dec = Decide(Head(ctl).policy, Head(ctl).caps, o.caps)]
       /\ ctl' = <<[kind |-> "answer", policy |-> o.policy, caps |-> o.caps]>>
  /\ UNCHANGED <<eg, media>>

\* Afterwards neither the policy nor the probed capabilities is read again.
EgressDecides ==
  /\ eg.run = "peer" /\ ctl # <<>> /\ Head(ctl).kind = "answer"
  /\ eg' = [eg EXCEPT !.run = "up", !.dec = Decide(eg.policy, eg.mine, Head(ctl).caps),
                      !.policy = "Prefer444", !.mine = {}]
  /\ ctl' = Tail(ctl)
  /\ UNCHANGED <<media, ing>>

\* A wrong token, a body that does not parse, no common codec.
HelloFails ==
  \/ /\ eg.run = "peer" /\ ctl # <<>> /\ Head(ctl).kind = "answer"
     /\ eg' = [NewEgress EXCEPT !.run = "over", !.stop = TRUE]
     /\ UNCHANGED <<media, ctl, ing>>
  \/ /\ ing.run = "hello" /\ ctl # <<>> /\ Head(ctl).kind = "hello"
     /\ ing' = [ing EXCEPT !.run = "over", !.stop = TRUE]
     /\ UNCHANGED <<eg, media, ctl>>

-----------------------------------------------------------------------------
(* The control connection.                                                 *)

CanSend == eg.run # "peer" /\ Len(ctl) < MaxQueue

SendTarget ==
  /\ ing.run = "up" /\ ~ing.target /\ CanSend
  /\ \E limit \in BOOLEAN : ctl' = Append(ctl, [kind |-> "target", limit |-> limit])
  /\ ing' = [ing EXCEPT !.target = TRUE]
  /\ UNCHANGED <<eg, media>>

SendKeyframeRequest ==
  /\ ing.run = "up" /\ ing.target /\ ~ing.stop /\ ing.requests > 0 /\ CanSend
  /\ ctl' = Append(ctl, [kind |-> "key"])
  /\ ing' = [ing EXCEPT !.requests = @ - 1]
  /\ UNCHANGED <<eg, media>>

\* The egress control reader; a keyframe request only raises a flag.
ReadControl ==
  /\ eg.run \notin {"hello", "peer", "over"} /\ ~eg.stop /\ ctl # <<>>
  /\ eg' = IF Head(ctl).kind = "key" THEN [eg EXCEPT !.asked = TRUE, !.lost = FALSE]
           ELSE [eg EXCEPT !.limit = Head(ctl).limit]
  /\ ctl' = Tail(ctl)
  /\ UNCHANGED <<media, ing>>

-----------------------------------------------------------------------------
(* The egress' acquisition loop.                                           *)

\* A frame takes the pending request.  Another size takes the encoder out of
\* its slot and flushes it with the slot's guard held.
AcquireFrame ==
  /\ eg.run = "up" /\ ~eg.stop /\ eg.taken < MaxFrames
  /\ \E size \in Sizes :
       eg' = [eg EXCEPT !.taken = @ + 1, !.asked = FALSE, !.cur = size,
                        !.force = @ \/ eg.asked \/ eg.size # size,
                        !.run = IF eg.size \notin {0, size} THEN "flush" ELSE "submit",
                        !.size = size]
  /\ UNCHANGED <<media, ctl, ing>>

\* A frame that comes sooner than the target rate allows is dropped, and the
\* keyframe request it took with it.
RateSkip ==
  /\ eg.run = "up" /\ ~eg.stop /\ eg.taken < MaxFrames /\ eg.limit /\ eg.size # 0
  /\ eg' = [eg EXCEPT !.taken = @ + 1, !.asked = FALSE, !.lost = @ \/ eg.asked]
  /\ UNCHANGED <<media, ctl, ing>>

\* VTCompressionSessionCompleteFrames returns when every output was delivered;
\* the encoder of the new size starts without a reference.
FlushEncoder ==
  /\ eg.run = "flush" /\ eg.enc = <<>>
  /\ eg' = [eg EXCEPT !.run = "submit", !.base = 0]
  /\ UNCHANGED <<media, ctl, ing>>

\* The producer's fence, then the encoder: a timeout or an error of either drops
\* the frame and keeps force_keyframe.
Submit ==
  /\ eg.run = "submit" /\ Len(eg.enc) < MaxQueue
  /\ \/ eg' = [eg EXCEPT !.run = "up", !.force = FALSE, !.cur = 0,
                         !.enc = Append(@, [key |-> eg.force, size |-> eg.cur])]
     \/ eg' = [eg EXCEPT !.run = "up", !.cur = 0]
  /\ UNCHANGED <<media, ctl, ing>>

-----------------------------------------------------------------------------
(* The encoder's callback and the sender.                                  *)

SlotGuardHeld == eg.run \in {"flush", "drain"}
Output == [seq |-> eg.seq + 1, key |-> Head(eg.enc).key \/ eg.base = 0, base |-> eg.base,
           size |-> Head(eg.enc).size]

\* An error or a frame VideoToolbox dropped takes no sequence number.  lost
\* remembers that a request went with it; the viewer asks again at the next delta.
EncoderDrops ==
  /\ eg.enc # <<>>
  /\ eg' = [eg EXCEPT !.enc = Tail(@), !.lost = @ \/ Head(eg.enc).key]
  /\ UNCHANGED <<media, ctl, ing>>

\* Mutant of PushKeyframe: a queued delta survives the keyframe that follows it.
PushBehindDelta(f) == [eg EXCEPT !.enc = Tail(@), !.seq = @ + 1, !.base = eg.seq + 1,
                                 !.keyslot = <<f>>]

\* A keyframe replaces everything queued.
PushKeyframe(f) == [eg EXCEPT !.enc = Tail(@), !.seq = @ + 1, !.base = eg.seq + 1,
                              !.keyslot = <<f>>, !.delta = <<>>]

PushDelta(f) == [eg EXCEPT !.enc = Tail(@), !.seq = @ + 1, !.base = eg.seq + 1, !.delta = <<f>>]

\* A keyframe reads the parameter sets of the encoder in the slot; the lock it
\* needs is the one a flush of the acquisition loop is holding.
EncoderOutput ==
  /\ eg.enc # <<>>
  /\ \/ /\ Output.key /\ ~SlotGuardHeld
        /\ \/ eg' = PushKeyframe(Output)
           \/ eg' = [eg EXCEPT !.enc = Tail(@), !.seq = @ + 1, !.base = eg.seq + 1, !.lost = TRUE]
     \/ ~Output.key /\ eg' = PushDelta(Output)
  /\ UNCHANGED <<media, ctl, ing>>

\* Mutant of SendMedia: only the first keyframe goes out with its configuration.
SendConfigOnce ==
  /\ eg.run \notin {"hello", "peer", "over"} /\ ing.run # "over" /\ Len(media) < MaxQueue
  /\ \/ /\ eg.keyslot # <<>>
        /\ media' = (IF eg.keyslot[1].seq > 1 THEN media
                     ELSE Append(media, [kind |-> "config", frame |-> eg.keyslot[1]]))
                    \o <<[kind |-> "frame", frame |-> eg.keyslot[1]]>>
        /\ eg' = [eg EXCEPT !.keyslot = <<>>]
     \/ /\ eg.keyslot = <<>> /\ eg.delta # <<>>
        /\ media' = Append(media, [kind |-> "frame", frame |-> eg.delta[1]])
        /\ eg' = [eg EXCEPT !.delta = <<>>]
  /\ UNCHANGED <<ctl, ing>>

\* The sender takes the keyframe with its configuration, or else the delta.
SendMedia ==
  /\ eg.run \notin {"hello", "peer", "over"} /\ ing.run # "over" /\ Len(media) < MaxQueue
  /\ \/ /\ eg.keyslot # <<>>
        /\ media' = media \o <<[kind |-> "config", frame |-> eg.keyslot[1]],
                               [kind |-> "frame", frame |-> eg.keyslot[1]]>>
        /\ eg' = [eg EXCEPT !.keyslot = <<>>]
     \/ /\ eg.keyslot = <<>> /\ eg.delta # <<>>
        /\ media' = Append(media, [kind |-> "frame", frame |-> eg.delta[1]])
        /\ eg' = [eg EXCEPT !.delta = <<>>]
  /\ UNCHANGED <<ctl, ing>>

-----------------------------------------------------------------------------
(* The ingress' media loop.                                                *)

Reading(kind) ==
  ing.run = "up" /\ ~ing.stop /\ media # <<>> /\ Head(media).kind = kind
Ask == [ing EXCEPT !.requests = IF @ = MaxAsks THEN @ ELSE @ + 1]

\* The first configuration creates the producer, the CPU publication, the
\* maintenance thread and the decoder; a later one of another size reconfigures
\* the producer and its staging surfaces.  Any failure ends the half.
ReadConfig ==
  /\ Reading("config")
  /\ media' = Tail(media)
  /\ \/ ing' = [ing EXCEPT !.cfg = Head(media).frame.size]
     \/ ing' = [ing EXCEPT !.run = "drain"]
  /\ UNCHANGED <<eg, ctl>>

\* Mutant of ReadFrame: only the waiting flag is looked at, not the gap.
ReadIgnoringGaps ==
  /\ Reading("frame")
  /\ LET f == Head(media).frame
         seen == [Ask EXCEPT !.last = f.seq]
     IN \/ /\ ~f.key /\ ing.waiting
           /\ ing' = [seen EXCEPT !.waiting = TRUE]
        \/ /\ f.key \/ ~ing.waiting
           /\ \/ /\ Len(ing.queue) < MaxQueue
                 /\ ing' = [ing EXCEPT !.last = f.seq, !.waiting = FALSE, !.prev = ing.fed.seq,
                                       !.fed = f, !.queue = Append(@, f)]
              \/ ing' = [seen EXCEPT !.waiting = TRUE]
  /\ media' = Tail(media)
  /\ UNCHANGED <<eg, ctl>>

\* Mutant of ReadFrame: a discarded delta asks for nothing.
ReadSilently ==
  /\ Reading("frame")
  /\ LET f == Head(media).frame
         gap == ing.last # 0 /\ f.seq # ing.last + 1
         seen == [ing EXCEPT !.last = f.seq]
     IN \/ /\ ~f.key /\ (gap \/ ing.waiting)
           /\ ing' = [seen EXCEPT !.waiting = TRUE]
        \/ /\ f.key \/ ~(gap \/ ing.waiting)
           /\ \/ /\ Len(ing.queue) < MaxQueue
                 /\ ing' = [ing EXCEPT !.last = f.seq, !.waiting = FALSE, !.prev = ing.fed.seq,
                                       !.fed = f, !.queue = Append(@, f)]
              \/ ing' = [Ask EXCEPT !.last = f.seq, !.waiting = TRUE]
  /\ media' = Tail(media)
  /\ UNCHANGED <<eg, ctl>>

\* A delta after a gap, or while waiting, is discarded; a frame the decoder
\* refuses starts the wait again, one without a decoder does not.  Each asks for
\* a keyframe.
ReadFrame ==
  /\ Reading("frame")
  /\ LET f == Head(media).frame
         gap == ing.last # 0 /\ f.seq # ing.last + 1
         seen == [Ask EXCEPT !.last = f.seq]
     IN \/ /\ ~f.key /\ (gap \/ ing.waiting)
           /\ ing' = [seen EXCEPT !.waiting = TRUE]
        \/ /\ f.key \/ ~(gap \/ ing.waiting)
           /\ \/ /\ Len(ing.queue) < MaxQueue
                 /\ ing' = IF ing.cfg = 0 THEN [seen EXCEPT !.waiting = FALSE]
                           ELSE [ing EXCEPT !.last = f.seq, !.waiting = FALSE, !.prev = ing.fed.seq,
                                            !.fed = f, !.queue = Append(@, f)]
              \/ ing' = [seen EXCEPT !.waiting = TRUE]
  /\ media' = Tail(media)
  /\ UNCHANGED <<eg, ctl>>

-----------------------------------------------------------------------------
(* The decoder's callback.                                                 *)

\* on_decoded: a frame that failed is only counted; a picture is transferred into
\* a staging surface, whose size is the current configuration's, and published.
DecoderOutput ==
  /\ ing.queue # <<>>
  /\ ing' = [ing EXCEPT !.queue = Tail(@)]
  /\ UNCHANGED <<eg, media, ctl>>

-----------------------------------------------------------------------------
(* The end of a half.                                                      *)

\* A client, an interrupt or another thread of the half sets its stop flag; the
\* RunScope then shuts the sockets and the sender closes.
StopEgress ==
  /\ eg.run # "over" /\ ~eg.stop
  /\ eg' = [eg EXCEPT !.stop = TRUE]
  /\ UNCHANGED <<media, ctl, ing>>

StopIngress ==
  /\ ing.run = "up" /\ ~ing.stop
  /\ ing' = [ing EXCEPT !.stop = TRUE]
  /\ UNCHANGED <<eg, media, ctl>>

\* Mutant of LinkCloses: the egress does not notice that its peer is gone.
LinkClosesUnnoticed ==
  /\ eg.run = "over" /\ ing.run \in {"hello", "up"} /\ ~ing.stop /\ media = <<>>
  /\ ing' = [ing EXCEPT !.stop = TRUE]
  /\ UNCHANGED <<eg, media, ctl>>

\* The other half is over: its end of both connections is shut.
LinkCloses ==
  \/ /\ ing.run = "over" /\ eg.run # "over" /\ ~eg.stop
     /\ eg' = [eg EXCEPT !.stop = TRUE]
     /\ UNCHANGED <<media, ctl, ing>>
  \/ /\ eg.run = "over" /\ ing.run \in {"hello", "up"} /\ ~ing.stop /\ media = <<>>
     /\ ing' = [ing EXCEPT !.stop = TRUE]
     /\ UNCHANGED <<eg, media, ctl>>

\* Mutant of EgressDrains: a half that waits for the hello does not see its stop.
DrainsOnceUp ==
  /\ eg.run \in {"up", "submit"}
  /\ eg' = [eg EXCEPT !.run = "drain", !.cur = 0]
  /\ UNCHANGED <<media, ctl, ing>>

\* The source closed, the arena or a new encoder failed, or the loop saw the
\* flag: take the encoder and flush it.
EgressDrains ==
  /\ \/ eg.run \in {"up", "submit"}
     \/ eg.run \in {"hello", "peer"} /\ eg.stop
  /\ eg' = [eg EXCEPT !.run = IF @ \in {"up", "submit"} THEN "drain" ELSE "over", !.cur = 0]
  /\ UNCHANGED <<media, ctl, ing>>

\* The flush has returned: the sender is closed, every thread joined and the
\* half's state dropped.
EgressOver ==
  /\ eg.run = "drain" /\ eg.enc = <<>>
  /\ eg' = [NewEgress EXCEPT !.run = "over", !.stop = TRUE]
  /\ UNCHANGED <<media, ctl, ing>>

IngressDrains ==
  /\ ing.run \in {"hello", "up"} /\ ing.stop
  /\ ing' = [ing EXCEPT !.run = "drain"]
  /\ UNCHANGED <<eg, media, ctl>>

IngressOver ==
  /\ ing.run = "drain" /\ ing.queue = <<>>
  /\ ing' = [NewIngress EXCEPT !.run = "over", !.stop = TRUE]
  /\ media' = <<>>
  /\ UNCHANGED <<eg, ctl>>

VideoNext ==
  \/ EgressHello \/ IngressHello \/ EgressDecides \/ HelloFails
  \/ SendTarget \/ SendKeyframeRequest \/ ReadControl
  \/ AcquireFrame \/ RateSkip \/ FlushEncoder \/ Submit
  \/ EncoderDrops \/ EncoderOutput \/ SendMedia
  \/ ReadConfig \/ ReadFrame \/ DecoderOutput
  \/ StopEgress \/ StopIngress \/ LinkCloses
  \/ EgressDrains \/ EgressOver \/ IngressDrains \/ IngressOver

\* Threads that can run do run, VideoToolbox delivers, the sockets carry; no
\* failure, no stop and no frame of the source has to happen.
VideoFairness ==
  /\ WF_videoVars(EgressHello) /\ WF_videoVars(IngressHello) /\ WF_videoVars(EgressDecides)
  /\ WF_videoVars(SendTarget) /\ WF_videoVars(SendKeyframeRequest) /\ WF_videoVars(ReadControl)
  /\ WF_videoVars(FlushEncoder) /\ WF_videoVars(Submit)
  /\ WF_videoVars(EncoderOutput) /\ WF_videoVars(SendMedia)
  /\ WF_videoVars(ReadConfig) /\ WF_videoVars(ReadFrame) /\ WF_videoVars(DecoderOutput)
  /\ WF_videoVars(LinkCloses) /\ WF_videoVars(eg.stop /\ EgressDrains)
  /\ WF_videoVars(EgressOver) /\ WF_videoVars(IngressDrains) /\ WF_videoVars(IngressOver)

-----------------------------------------------------------------------------
(* Properties.                                                             *)

\* Both halves compute the same codec decision from the two hellos: a media loop
\* would otherwise refuse the first configuration (ingress.rs, run).
SameDecision == eg.run \in {"up", "submit", "flush"} /\ ing.run = "up" => eg.dec = ing.dec

\* A delta handed to the decoder refers to the frame handed to it just before,
\* whatever the encoder, the sender's two slots or a refused frame lost in
\* between: the sequence gap or the waiting flag stops it (ingress.rs, run).
ReferencesFed == ing.fed.key \/ ing.fed.base = ing.prev

\* Frames reach the ingress in the order they were encoded: nothing on the
\* connection is older than what was read, although a keyframe overtakes the delta
\* that was queued before it (egress.rs, Sender).
WireOrder ==
  ing.run = "up" =>
    \A i \in DOMAIN media :
      /\ media[i].frame.seq > ing.last
      /\ \A j \in 1..(i - 1) : media[j].frame.seq <= media[i].frame.seq

\* The decoder is given a frame only under the configuration of that frame's
\* size, through every change of size and every lost keyframe (ingress.rs, run).
FedUnderItsConfiguration == 
  [][ing'.fed.seq > ing.fed.seq => ing'.fed.size = ing.cfg]_videoVars

\* While the viewer waits for a keyframe its request, or the keyframe, is on its
\* way: in the channel, on the control connection, in the egress' flags, in the
\* encoder, in the sender's slot or on the media connection.  The exceptions are
\* the losses that lost names: the next delta asks again.
RequestOnItsWay ==
  ing.waiting /\ ing.run = "up" /\ eg.run \in {"up", "submit", "flush"} =>
    \/ ing.requests > 0 \/ \E i \in DOMAIN ctl : ctl[i].kind = "key"
    \/ eg.asked \/ eg.force \/ eg.lost \/ eg.keyslot # <<>>
    \/ \E i \in DOMAIN eg.enc : eg.enc[i].key
    \/ \E i \in DOMAIN media : media[i].frame.key

\* The output the flush waits for is a keyframe whose callback waits for the
\* slot's guard that the flush holds.
EgressStuck == SlotGuardHeld /\ eg.enc # <<>> /\ Output.key

\* A stopped egress half ends, if it is not caught in a flush (egress.rs, run).
StoppedEgressEnds == eg.stop ~> (eg.run = "over" \/ EgressStuck)

\* When one half is over, the other one ends too, if no flush is stuck: its reads
\* and writes fail and its stop flag is set (egress.rs, ingress.rs, run).
HalvesEndTogether ==
  eg.run = "over" \/ ing.run = "over" ~> (eg.run = "over" /\ ing.run = "over") \/ EgressStuck

\* Says the comment of the drain, "the flush delivered the last outputs
\* synchronously": a stopped half always gets through it.  It does not when a
\* keyframe is in flight (egress.rs:600).
FlushReturns == eg.run = "drain" ~> eg.run = "over"
=============================================================================
