----------------------------- MODULE InputRelay -----------------------------
(***************************************************************************)
(* The input relay of the bridge (jackstay-bridge input_relay.rs): the     *)
(* ingress half accepts controller connections and carries each as one     *)
(* stream of Input messages on the control connection; the egress half     *)
(* connects an opened stream to the executor's socket and carries the      *)
(* answers back.                                                           *)
(*                                                                         *)
(* A stream id is never used twice, so ids stand for connections.  The     *)
(* bytes a local peer writes are numbered; what arrived at the other end   *)
(* is the sequence of numbers.  One pump thread per side and stream, the   *)
(* accept thread of the ingress, one reader of the control connection per  *)
(* side, and the thread that ends the half.                                *)
(***************************************************************************)
EXTENDS Naturals, Sequences, FiniteSets

CONSTANTS
  Streams,   \* stream ids: controller connections
  MaxBytes   \* bound: pieces each local peer writes

ASSUME InputRelayAssumption == MaxBytes \in Nat \ {0} /\ Streams # {}

Sides == {"ingress", "egress"}
Other(s) == IF s = "ingress" THEN "egress" ELSE "ingress"

VARIABLES
  peer,    \* peer[s][i]: the local connection of stream i at side s
  relay,   \* relay[s]: the streams map, the pumps and the stop flag of a half
  wire     \* wire[s]: Input messages on their way to side s

relayVars == <<peer, relay, wire>>

NoPeer == [at |-> "none", wrote |-> 0, read |-> 0, got |-> <<>>]

RelayTypeOK ==
  /\ peer \in [Sides -> [Streams -> [at: {"none", "queued", "up", "shut"}, wrote: 0..MaxBytes,
                                     read: 0..MaxBytes, got: Seq(1..MaxBytes)]]]
  /\ relay \in [Sides -> [streams: SUBSET Streams, inserted: SUBSET Streams,
                          announced: SUBSET Streams, opened: SUBSET Streams,
                          pumps: SUBSET Streams, run: {"up", "stop", "closing", "over"}]]
  /\ \A s \in Sides : \A n \in DOMAIN wire[s] :
       wire[s][n] \in [id: Streams, flag: {"open", "data", "close"}, piece: 0..MaxBytes]

RelayInit ==
  /\ peer = [s \in Sides |-> [i \in Streams |-> NoPeer]]
  /\ relay = [s \in Sides |-> [streams |-> {}, inserted |-> {}, announced |-> {}, opened |-> {},
                               pumps |-> {}, run |-> "up"]]
  /\ wire = [s \in Sides |-> <<>>]

-----------------------------------------------------------------------------
(* Messages and the streams map.                                           *)

\* send: the control writer of side s, one message at a time; a write after the
\* half shut the connection fails.
Linked == \A s \in Sides : relay[s].run \in {"up", "stop"}
Sent(s, messages) == IF Linked THEN [wire EXCEPT ![Other(s)] = @ \o messages] ELSE wire
Message(i, flag, n) == [id |-> i, flag |-> flag, piece |-> n]

\* close_local: whoever takes the entry out of the map shuts the socket.
CloseLocal(p, s, i) ==
  IF i \in relay[s].streams THEN [p EXCEPT ![s][i].at = "shut"] ELSE p

-----------------------------------------------------------------------------
(* Local peers.                                                            *)

\* A controller connects to the input socket of the ingress.
Connect(i) ==
  /\ peer["ingress"][i].at = "none" /\ relay["ingress"].run # "over"
  /\ peer' = [peer EXCEPT !["ingress"][i].at = "queued"]
  /\ UNCHANGED <<relay, wire>>

Write(s, i) ==
  /\ peer[s][i].at \in {"queued", "up"} /\ peer[s][i].wrote < MaxBytes
  /\ peer' = [peer EXCEPT ![s][i].wrote = @ + 1]
  /\ UNCHANGED <<relay, wire>>

\* The controller or the executor hangs up.
HangUp(s, i) ==
  /\ peer[s][i].at \in {"queued", "up"}
  /\ peer' = [peer EXCEPT ![s][i].at = "shut"]
  /\ UNCHANGED <<relay, wire>>

-----------------------------------------------------------------------------
(* attach: the accept thread of the ingress.                               *)

\* The stream the accept thread is attaching.
Attaching == relay["ingress"].inserted \union relay["ingress"].announced

\* Mutant of Accept: the pump starts with the insertion, before the open.
AcceptPumping(i) ==
  /\ peer["ingress"][i].at \in {"queued", "shut"} /\ i \notin relay["ingress"].opened
  /\ Attaching = {} /\ relay["ingress"].run \in {"up", "stop"}
  /\ peer' = [peer EXCEPT !["ingress"][i].at = IF @ = "queued" THEN "up" ELSE @]
  /\ relay' = [relay EXCEPT !["ingress"].streams = @ \union {i}, !["ingress"].inserted = {i},
                            !["ingress"].opened = @ \union {i}, !["ingress"].pumps = @ \union {i}]
  /\ UNCHANGED wire

\* insert: the connection is recorded under the next id.
Accept(i) ==
  /\ peer["ingress"][i].at \in {"queued", "shut"} /\ i \notin relay["ingress"].opened
  /\ Attaching = {} /\ relay["ingress"].run \in {"up", "stop"}
  /\ peer' = [peer EXCEPT !["ingress"][i].at = IF @ = "queued" THEN "up" ELSE @]
  /\ relay' = [relay EXCEPT !["ingress"].streams = @ \union {i}, !["ingress"].inserted = {i},
                            !["ingress"].opened = @ \union {i}]
  /\ UNCHANGED wire

\* The open is written before the pump starts; when that fails the stream closes.
SendOpen(i) ==
  /\ i \in relay["ingress"].inserted
  /\ IF Linked
     THEN /\ wire' = Sent("ingress", <<Message(i, "open", 0)>>)
          /\ relay' = [relay EXCEPT !["ingress"].inserted = {}, !["ingress"].announced = {i}]
          /\ peer' = peer
     ELSE /\ relay' = [relay EXCEPT !["ingress"].streams = @ \ {i}, !["ingress"].inserted = {}]
          /\ peer' = CloseLocal(peer, "ingress", i)
          /\ wire' = wire

\* spawn_pump: a half that is stopping closes the stream instead.
StartPump(i) ==
  /\ i \in relay["ingress"].announced
  /\ IF relay["ingress"].run = "up"
     THEN relay' = [relay EXCEPT !["ingress"].announced = {}, !["ingress"].pumps = @ \union {i}]
          /\ peer' = peer
     ELSE /\ relay' = [relay EXCEPT !["ingress"].streams = @ \ {i}, !["ingress"].announced = {}]
          /\ peer' = CloseLocal(peer, "ingress", i)
  /\ UNCHANGED wire

-----------------------------------------------------------------------------
(* pump: one thread per stream and side.                                   *)

\* Mutant of PumpData: the piece after the one that was read is sent.
PumpNextPiece(s, i) ==
  /\ i \in relay[s].pumps /\ relay[s].run = "up" /\ peer[s][i].read < peer[s][i].wrote
  /\ peer' = [peer EXCEPT ![s][i].read = @ + 1]
  /\ wire' = Sent(s, <<Message(i, "data", peer[s][i].read + 2)>>)
  /\ UNCHANGED relay

\* Bytes read from the local peer become one message.
PumpData(s, i) ==
  /\ i \in relay[s].pumps /\ relay[s].run = "up" /\ peer[s][i].read < peer[s][i].wrote
  /\ peer' = [peer EXCEPT ![s][i].read = @ + 1]
  /\ wire' = Sent(s, <<Message(i, "data", peer[s][i].read + 1)>>)
  /\ UNCHANGED relay

\* Mutant of PumpEnds: the stream is forgotten without telling the other side.
PumpEndsSilently(s, i) ==
  /\ i \in relay[s].pumps
  /\ \/ relay[s].run # "up" \/ ~Linked \/ i \notin relay[s].streams
     \/ peer[s][i].at = "shut" /\ peer[s][i].read = peer[s][i].wrote
  /\ relay' = [relay EXCEPT ![s].streams = @ \ {i}, ![s].pumps = @ \ {i}]
  /\ peer' = CloseLocal(peer, s, i)
  /\ wire' = wire

\* End of file, a failed send, or the stop flag: whoever still finds the entry
\* removes it and tells the other side, once.
PumpEnds(s, i) ==
  /\ i \in relay[s].pumps
  /\ \/ relay[s].run # "up" \/ ~Linked \/ i \notin relay[s].streams
     \/ peer[s][i].at = "shut" /\ peer[s][i].read = peer[s][i].wrote
  /\ relay' = [relay EXCEPT ![s].streams = @ \ {i}, ![s].pumps = @ \ {i}]
  /\ peer' = CloseLocal(peer, s, i)
  /\ wire' = IF i \in relay[s].streams THEN Sent(s, <<Message(i, "close", 0)>>) ELSE wire

-----------------------------------------------------------------------------
(* on_message: the control reader of a side.                               *)

Received(s) == Head(wire[s])
Receiving(s, flag) == wire[s] # <<>> /\ Received(s).flag = flag /\ relay[s].run \in {"up", "stop"}

\* INPUT_OPEN at the egress: connect to the executor's socket and start the pump,
\* or answer with a close.
OnOpen(s) ==
  /\ s = "egress" /\ Receiving(s, "open")
  /\ LET i == Received(s).id
         rest == [wire EXCEPT ![s] = Tail(@)]
     IN \/ /\ relay[s].run = "up"
           /\ peer' = [peer EXCEPT ![s][i].at = "up"]
           /\ relay' = [relay EXCEPT ![s].streams = @ \union {i}, ![s].pumps = @ \union {i},
                                     ![s].opened = @ \union {i}]
           /\ wire' = rest
        \/ /\ relay[s].run = "stop"
           /\ peer' = [peer EXCEPT ![s][i].at = "shut"]
           /\ relay' = [relay EXCEPT ![s].opened = @ \union {i}]
           /\ wire' = rest
        \/ /\ peer' = peer /\ relay' = relay
           /\ wire' = IF Linked THEN [rest EXCEPT ![Other(s)] = Append(@, Message(i, "close", 0))]
                      ELSE rest

\* A piece for a stream in the map is written to its local peer; for a stream
\* that is gone it is ignored; a write that fails cuts the stream.
OnData(s) ==
  /\ Receiving(s, "data")
  /\ LET i == Received(s).id
         rest == [wire EXCEPT ![s] = Tail(@)]
     IN \/ /\ i \in relay[s].streams /\ peer[s][i].at = "up"
           /\ peer' = [peer EXCEPT ![s][i].got = Append(@, Received(s).piece)]
           /\ wire' = rest
           /\ relay' = relay
        \/ /\ i \in relay[s].streams
           /\ peer' = CloseLocal(peer, s, i)
           /\ relay' = [relay EXCEPT ![s].streams = @ \ {i}]
           /\ wire' = IF Linked THEN [rest EXCEPT ![Other(s)] = Append(@, Message(i, "close", 0))]
                      ELSE rest
        \/ /\ i \notin relay[s].streams
           /\ wire' = rest
           /\ UNCHANGED <<peer, relay>>

OnClose(s) ==
  /\ Receiving(s, "close")
  /\ LET i == Received(s).id
     IN /\ peer' = CloseLocal(peer, s, i)
        /\ relay' = [relay EXCEPT ![s].streams = @ \ {i}]
  /\ wire' = [wire EXCEPT ![s] = Tail(@)]

-----------------------------------------------------------------------------
(* The end of a half.                                                      *)

\* The stop flag is set, by anything that ends the half.
StopRelay(s) ==
  /\ relay[s].run = "up"
  /\ relay' = [relay EXCEPT ![s].run = "stop"]
  /\ UNCHANGED <<peer, wire>>

\* The control reader sees the connection closed.
PeerGone(s) ==
  /\ relay[s].run = "up" /\ relay[Other(s)].run \in {"closing", "over"}
  /\ relay' = [relay EXCEPT ![s].run = "stop"]
  /\ UNCHANGED <<peer, wire>>

\* The RunScope shuts the control connection; the listener's thread, which may be
\* inside attach, is joined before the relay is shut down.
CloseRelay(s) ==
  /\ relay[s].run = "stop"
  /\ relay' = [relay EXCEPT ![s].run = "closing"]
  /\ UNCHANGED <<peer, wire>>

\* Mutant of ShutdownRelay: an attach in progress is not waited for.
ShutdownEarly(s) ==
  /\ relay[s].run = "closing"
  /\ peer' = [peer EXCEPT ![s] = [i \in Streams |->
                IF i \in relay[s].streams THEN [peer[s][i] EXCEPT !.at = "shut"] ELSE peer[s][i]]]
  /\ relay' = [relay EXCEPT ![s].run = "over", ![s].streams = {}, ![s].pumps = {}]
  /\ wire' = [wire EXCEPT ![s] = <<>>]

\* shutdown: close every local stream and join every pump.
ShutdownRelay(s) ==
  /\ relay[s].run = "closing" /\ (s = "ingress" => Attaching = {})
  /\ peer' = [peer EXCEPT ![s] = [i \in Streams |->
                IF i \in relay[s].streams THEN [peer[s][i] EXCEPT !.at = "shut"] ELSE peer[s][i]]]
  /\ relay' = [relay EXCEPT ![s].run = "over", ![s].streams = {}, ![s].pumps = {}]
  /\ wire' = [wire EXCEPT ![s] = <<>>]

RelayNext ==
  \/ \E i \in Streams : Connect(i) \/ Accept(i) \/ SendOpen(i) \/ StartPump(i)
  \/ \E s \in Sides, i \in Streams : Write(s, i) \/ HangUp(s, i) \/ PumpData(s, i) \/ PumpEnds(s, i)
  \/ \E s \in Sides : OnOpen(s) \/ OnData(s) \/ OnClose(s)
  \/ \E s \in Sides : StopRelay(s) \/ PeerGone(s) \/ CloseRelay(s) \/ ShutdownRelay(s)

\* The threads of the relay run; local peers and stops owe nothing.
RelayFairness ==
  /\ \A i \in Streams : WF_relayVars(SendOpen(i)) /\ WF_relayVars(StartPump(i))
  /\ \A s \in Sides, i \in Streams : WF_relayVars(PumpData(s, i)) /\ WF_relayVars(PumpEnds(s, i))
  /\ \A s \in Sides : /\ WF_relayVars(OnOpen(s) \/ OnData(s) \/ OnClose(s))
                      /\ WF_relayVars(PeerGone(s))
                      /\ WF_relayVars(CloseRelay(s)) /\ WF_relayVars(ShutdownRelay(s))

-----------------------------------------------------------------------------
(* Properties.                                                             *)

\* What a local peer has been given is, without a hole, the beginning of what the
\* other end of the same connection wrote: the open precedes the first bytes and
\* nothing is lost before a close (attach, pump, on_message).
NoHoleInAStream ==
  \A s \in Sides, i \in Streams :
    /\ \A n \in DOMAIN peer[s][i].got : peer[s][i].got[n] = n
    /\ Len(peer[s][i].got) <= peer[Other(s)][i].wrote

\* A half that is over carries no stream and has no pump, even when a connection
\* was being attached, or opened by the peer, as it stopped (shutdown, spawn_pump).
NothingAfterShutdown ==
  \A s \in Sides : relay[s].run = "over" =>
    /\ relay[s].streams = {} /\ relay[s].pumps = {} /\ (s = "ingress" => Attaching = {})
    /\ \A i \in relay[s].opened : peer[s][i].at # "up"

\* A hang-up at one end of a carried connection reaches the other end: a
\* controller that goes away is never kept alive for the executor, or the other
\* way round (pump, on_message, close_local).
HangUpReachesTheOtherEnd ==
  \A i \in Streams : (peer["ingress"][i].at = "shut" /\ i \in relay["ingress"].opened)
                       ~> (peer["egress"][i].at # "up" /\ i \notin relay["egress"].streams)
=============================================================================
