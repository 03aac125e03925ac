---------------------------- MODULE StreamsProofs ----------------------------
(***************************************************************************)
(* Proofs about the streams of a link, for every number of streams,        *)
(* readers, frames and pieces: the input relay carries every connection    *)
(* without a hole and leaves nothing behind, the CPU publication writes    *)
(* into the arena its readers map, and the video can be decoded.           *)
(*                                                                         *)
(* The three share no variable, so each has an inductive invariant of its  *)
(* own, kept by its own steps and untouched by the others'.                *)
(***************************************************************************)
EXTENDS MCStreams, TLAPS

-----------------------------------------------------------------------------
(* The CPU publication.                                                    *)

\* The sizes and flags of the publication, and a thread per reader.
CpuType ==
  /\ cpu \in [run: {"up", "stopping", "joining", "draining", "over"}, installed: Payloads \union {1},
              pending: Payloads \union {0}, arena: Payloads \union {1}, held: BOOLEAN, accepting: BOOLEAN]
  /\ setups \in [Readers -> {"none", "serving", "shut", "ended"}]

\* The arena has the installed size also while a resize is pending; from the time the
\* connections are taken nothing is accepted, and once they are joined nothing is shut.
CpuInv ==
  /\ CpuType
  /\ cpu.installed = cpu.arena
  /\ cpu.run \in {"joining", "draining", "over"} =>
       ~cpu.accepting /\ \A c \in Readers : setups[c] # "serving"
  /\ cpu.run \in {"draining", "over"} => \A c \in Readers : setups[c] # "shut"

-----------------------------------------------------------------------------
(* The input relay.                                                        *)

Messages == [id: Streams, flag: {"open", "data", "close"}, piece: 0..MaxBytes]
Counts == 0..MaxBytes
Pieces == Seq(1..MaxBytes)
Peers == [at: {"none", "queued", "up", "shut"}, wrote: Counts, read: Counts, got: Pieces]
Halves == [streams: SUBSET Streams, inserted: SUBSET Streams, announced: SUBSET Streams,
           opened: SUBSET Streams, pumps: SUBSET Streams, run: {"up", "stop", "closing", "over"}]

\* The relay's types, the wires as sequences.
RelayType ==
  /\ peer \in [Sides -> [Streams -> Peers]]
  /\ relay \in [Sides -> Halves]
  /\ wire \in [Sides -> Seq(Messages)]

\* Message n of a wire belongs to stream i; it is a piece of it, or its open.
IdAt(w, n, i) == n \in 1..Len(w) /\ w[n].id = i
DataAt(w, n, i) == IdAt(w, n, i) /\ w[n].flag = "data"
OpenAt(w, n, i) == IdAt(w, n, i) /\ w[n].flag = "open"

Silent(w, i) == \A n \in Nat : ~IdAt(w, n, i)
NoOpen(w, i) == \A n \in Nat : ~OpenAt(w, n, i)
OpenHeads(w, i) == \A m, n \in Nat : OpenAt(w, n, i) /\ IdAt(w, m, i) => n <= m

\* The pieces on a wire were read at its beginning; while they are still given to the peer
\* they ascend, each one after the one before it or after the k it has, up to the last read.
Within(w, i, read) == \A n \in Nat : DataAt(w, n, i) => w[n].piece \in 1..read
Ascending(w, i) ==
  \A m, n \in Nat : DataAt(w, m, i) /\ DataAt(w, n, i) /\ m < n => w[m].piece < w[n].piece
Joined(w, i, k) ==
  \A n \in Nat : DataAt(w, n, i) =>
    \/ w[n].piece = k + 1
    \/ \E m \in Nat : DataAt(w, m, i) /\ m < n /\ w[n].piece = w[m].piece + 1
Reached(w, i, k, read) == read = k \/ \E n \in Nat : DataAt(w, n, i) /\ w[n].piece = read

Line(w, i, k, read, taken, linked) ==
  /\ k <= read
  /\ Within(w, i, read)
  /\ taken => Ascending(w, i) /\ Joined(w, i, k)
  /\ taken /\ linked => Reached(w, i, k, read)

\* Side s gives what it receives of stream i to its peer, or will after its open.
Taken(s, i) == i \in relay[s].streams \/ ~NoOpen(wire[s], i)

\* What one end read of a stream is at the other end or on its way, in order.
LineRule(s, i) ==
  Line(wire[s], i, Len(peer[s][i].got), peer[Other(s)][i].read, Taken(s, i), Linked)

\* Nothing of a stream is carried before its open is sent.
Unsent(i) == i \notin relay["ingress"].opened \/ i \in relay["ingress"].inserted
UnsentRule(i) ==
  /\ i \in relay["ingress"].inserted => i \in relay["ingress"].opened
  /\ Unsent(i) =>
       /\ \A s \in Sides : /\ Silent(wire[s], i) /\ i \notin relay[s].pumps
                           /\ peer[s][i].read = 0 /\ peer[s][i].got = <<>>
       /\ i \notin relay["egress"].streams /\ i \notin relay["ingress"].announced

\* An open is sent once, before everything else of its stream, and until it is read
\* nothing happened at the egress.
OpenRule(i) ==
  /\ NoOpen(wire["ingress"], i)
  /\ OpenHeads(wire["egress"], i)
  /\ ~NoOpen(wire["egress"], i) =>
       /\ Silent(wire["ingress"], i)
       /\ i \notin relay["egress"].streams /\ i \notin relay["egress"].pumps
       /\ peer["egress"][i].read = 0 /\ peer["egress"][i].got = <<>>
       /\ peer["ingress"][i].got = <<>>

\* A peer has been given the first pieces, and has been read no further than it wrote.
PeerRule(p) == (\A n \in 1..Len(p.got) : p.got[n] = n) /\ p.read <= p.wrote

StreamRule(i) ==
  /\ UnsentRule(i) /\ OpenRule(i)
  /\ \A s \in Sides : LineRule(s, i) /\ PeerRule(peer[s][i])

\* An open connection is in the map, a half that is over has an empty one.
HalfRule(s) ==
  /\ \A i \in Streams : peer[s][i].at = "up" => i \in relay[s].streams
  /\ relay[s].run = "over" =>
       relay[s].streams = {} /\ relay[s].pumps = {} /\ (s = "ingress" => Attaching = {})

RelayInv ==
  /\ RelayType
  /\ \A i \in Streams : StreamRule(i)
  /\ \A s \in Sides : HalfRule(s)

-----------------------------------------------------------------------------
(* Wires: what adding a message at the end, or taking one at the head, does *)
(* to the messages of one stream.                                          *)

\* The message added to a wire is its last one.
LEMMA Added ==
  ASSUME NEW w \in Seq(Messages), NEW m \in Messages
  PROVE  /\ Append(w, m) \in Seq(Messages) /\ Len(Append(w, m)) = Len(w) + 1 /\ Len(w) \in Nat
         /\ \A n \in 1..Len(w) : Append(w, m)[n] = w[n]
         /\ Append(w, m)[Len(w) + 1] = m
         /\ w \o <<m>> = Append(w, m)
  OBVIOUS

\* Without its head a wire's messages move up by one.
LEMMA Taking ==
  ASSUME NEW w \in Seq(Messages), w # <<>>
  PROVE  /\ Tail(w) \in Seq(Messages) /\ Len(Tail(w)) = Len(w) - 1 /\ Len(w) \in Nat /\ Len(w) >= 1
         /\ \A n \in 1..(Len(w) - 1) : Tail(w)[n] = w[n + 1]
         /\ Head(w) = w[1] /\ Head(w) \in Messages
  OBVIOUS

\* A message that is no piece of the stream changes nothing about its pieces, at either end
\* of the wire; less may be asked of them afterwards.
LEMMA LineAdds ==
  ASSUME NEW w \in Seq(Messages), NEW m \in Messages, NEW i, NEW k \in Nat, NEW read \in Nat,
         NEW taken, NEW linked, Line(w, i, k, read, taken, linked), m.id # i \/ m.flag # "data"
  PROVE  Line(Append(w, m), i, k, read, taken, linked)
<1> DEFINE v == Append(w, m)
<1>1. \A n \in Nat : (DataAt(v, n, i) <=> DataAt(w, n, i)) /\ (DataAt(w, n, i) => v[n] = w[n])
  BY Added DEF DataAt, IdAt
<1> HIDE DEF v
<1>2. Within(v, i, read) BY <1>1 DEF Line, Within
<1>3. taken => Ascending(v, i) BY <1>1 DEF Line, Ascending
<1>4. taken => Joined(v, i, k) BY <1>1 DEF Line, Joined
<1>5. taken /\ linked => Reached(v, i, k, read) BY <1>1 DEF Line, Reached
<1>6. Line(v, i, k, read, taken, linked) BY <1>2, <1>3, <1>4, <1>5 DEF Line
<1> QED BY <1>6 DEF v

\* The head of the wire is taken and is no piece of the stream.
LEMMA LineTakes ==
  ASSUME NEW w \in Seq(Messages), w # <<>>, NEW i, NEW k \in Nat, NEW read \in Nat,
         NEW taken, NEW linked, Line(w, i, k, read, taken, linked),
         Head(w).id # i \/ Head(w).flag # "data"
  PROVE  Line(Tail(w), i, k, read, taken, linked)
<1> DEFINE v == Tail(w)
<1>1. \A n \in Nat : DataAt(v, n, i) => n # 0 /\ n + 1 \in Nat /\ DataAt(w, n + 1, i) /\ v[n] = w[n + 1]
  BY Taking DEF DataAt, IdAt
<1>2. \A n \in Nat : DataAt(w, n, i) => n - 1 \in Nat /\ DataAt(v, n - 1, i) /\ v[n - 1] = w[n]
  <2> SUFFICES ASSUME NEW n \in Nat, DataAt(w, n, i)
               PROVE  n - 1 \in Nat /\ DataAt(v, n - 1, i) /\ v[n - 1] = w[n]
    OBVIOUS
  <2>1. n # 0 /\ n # 1 BY Taking DEF DataAt, IdAt
  <2>2. n - 1 \in Nat /\ n - 1 # 0 /\ (n - 1) + 1 = n BY <2>1
  <2> QED BY <2>2, Taking DEF DataAt, IdAt
<1> HIDE DEF v
<1>3. Within(v, i, read) BY <1>1 DEF Line, Within
<1>4. taken => Ascending(v, i) BY <1>1 DEF Line, Ascending
<1>5. taken => Joined(v, i, k)
  <2> SUFFICES ASSUME Joined(w, i, k), NEW n \in Nat, DataAt(v, n, i), v[n].piece # k + 1
               PROVE  \E m \in Nat : DataAt(v, m, i) /\ m < n /\ v[n].piece = v[m].piece + 1
    BY DEF Line, Joined
  <2>1. PICK m \in Nat : DataAt(w, m, i) /\ m < n + 1 /\ v[n].piece = w[m].piece + 1
    BY <1>1 DEF Joined
  <2> QED BY <2>1, <1>2
<1>6. taken /\ linked => Reached(v, i, k, read) BY <1>2 DEF Line, Reached
<1>7. Line(v, i, k, read, taken, linked) BY <1>3, <1>4, <1>5, <1>6 DEF Line
<1> QED BY <1>7 DEF v

\* Less is asked of a line that is no longer taken or linked.
LEMMA LineLess ==
  ASSUME NEW w, NEW i, NEW k, NEW read, NEW taken, NEW linked, NEW taken2, NEW linked2,
         Line(w, i, k, read, taken, linked), taken2 => taken, linked2 => linked
  PROVE  Line(w, i, k, read, taken2, linked2)
  BY DEF Line

\* A line of which nothing is taken, or of which nothing was sent.
LEMMA LineEmpty ==
  ASSUME NEW w, NEW i, Silent(w, i), NEW k \in Nat, NEW read \in Nat, NEW taken, NEW linked,
         k <= read, taken /\ linked => k = read
  PROVE  Line(w, i, k, read, taken, linked)
  BY DEF Line, Silent, Within, Ascending, Joined, Reached, DataAt

\* pump: the piece that was read goes to the end of the line.
LEMMA LineGrows ==
  ASSUME NEW w \in Seq(Messages), NEW m \in Messages, NEW i, NEW k \in Nat, NEW read \in Nat,
         NEW taken, Line(w, i, k, read, taken, TRUE),
         m.id = i, m.flag = "data", m.piece = read + 1
  PROVE  Line(Append(w, m), i, k, read + 1, taken, TRUE)
<1> DEFINE v == Append(w, m)
           last == Len(w) + 1
<1>1. \A n \in Nat : DataAt(v, n, i) <=> DataAt(w, n, i) \/ n = last
  BY Added DEF DataAt, IdAt
<1>2. \A n \in Nat : DataAt(w, n, i) => v[n] = w[n] /\ n < last
  BY Added DEF DataAt, IdAt
<1>3. v[last] = m /\ last \in Nat BY Added
<1> HIDE DEF v, last
<1>4. Within(v, i, read + 1)
  <2> SUFFICES ASSUME NEW n \in Nat, DataAt(v, n, i)
               PROVE  v[n].piece \in 1..(read + 1)
    BY DEF Within
  <2>1. CASE DataAt(w, n, i)
    <3>1. w[n].piece \in 1..read BY <2>1 DEF Line, Within
    <3> QED BY <3>1, <2>1, <1>2
  <2>2. CASE n = last BY <2>2, <1>3
  <2> QED BY <2>1, <2>2, <1>1
<1>5. taken => Ascending(v, i)
  <2> SUFFICES ASSUME taken, NEW a \in Nat, NEW b \in Nat, DataAt(v, a, i), DataAt(v, b, i), a < b
               PROVE  v[a].piece < v[b].piece
    BY DEF Ascending
  <2>1. DataAt(w, a, i) BY <1>1, <1>2
  <2>2. CASE DataAt(w, b, i) BY <2>1, <2>2, <1>2 DEF Line, Ascending
  <2>3. CASE b = last
    <3>1. w[a].piece \in 1..read BY <2>1 DEF Line, Within
    <3>2. v[a] = w[a] /\ v[b].piece = read + 1 BY <2>1, <2>3, <1>2, <1>3
    <3> QED BY <3>1, <3>2
  <2> QED BY <2>2, <2>3, <1>1
<1>6. taken => Joined(v, i, k)
  <2> SUFFICES ASSUME taken, NEW n \in Nat, DataAt(v, n, i), v[n].piece # k + 1
               PROVE  \E a \in Nat : DataAt(v, a, i) /\ a < n /\ v[n].piece = v[a].piece + 1
    BY DEF Joined
  <2>1. CASE DataAt(w, n, i)
    <3>1. PICK a \in Nat : DataAt(w, a, i) /\ a < n /\ w[n].piece = w[a].piece + 1
      BY <2>1, <1>2 DEF Line, Joined
    <3> QED BY <3>1, <2>1, <1>1, <1>2
  <2>2. CASE n = last
    <3>1. PICK a \in Nat : DataAt(w, a, i) /\ w[a].piece = read
      BY <2>2, <1>3 DEF Line, Reached
    <3> QED BY <3>1, <2>2, <1>1, <1>2, <1>3
  <2> QED BY <2>1, <2>2, <1>1
<1>7. Reached(v, i, k, read + 1) BY <1>1, <1>3 DEF Reached
<1>8. Line(v, i, k, read + 1, taken, TRUE) BY <1>4, <1>5, <1>6, <1>7 DEF Line
<1> QED BY <1>8 DEF v

\* on_message: the piece at the head is the next one the peer has not been given.
LEMMA LineGives ==
  ASSUME NEW w \in Seq(Messages), w # <<>>, NEW i, NEW k \in Nat, NEW read \in Nat,
         NEW linked, Line(w, i, k, read, TRUE, linked),
         Head(w).id = i, Head(w).flag = "data"
  PROVE  /\ Head(w).piece = k + 1
         /\ Line(Tail(w), i, k + 1, read, TRUE, linked)
<1> DEFINE v == Tail(w)
<1>1. \A n \in Nat : DataAt(v, n, i) => n # 0 /\ n + 1 \in Nat /\ DataAt(w, n + 1, i) /\ v[n] = w[n + 1]
  BY Taking DEF DataAt, IdAt
<1>2. \A n \in Nat : DataAt(w, n, i) /\ n # 1 => n - 1 \in Nat /\ DataAt(v, n - 1, i) /\ v[n - 1] = w[n]
  <2> SUFFICES ASSUME NEW n \in Nat, DataAt(w, n, i), n # 1
               PROVE  n - 1 \in Nat /\ DataAt(v, n - 1, i) /\ v[n - 1] = w[n]
    OBVIOUS
  <2>1. n # 0 BY Taking DEF DataAt, IdAt
  <2>2. n - 1 \in Nat /\ n - 1 # 0 /\ (n - 1) + 1 = n BY <2>1
  <2> QED BY <2>2, Taking DEF DataAt, IdAt
<1>3. DataAt(w, 1, i) /\ Head(w) = w[1] BY Taking DEF DataAt, IdAt
<1>4. \A n \in Nat : DataAt(w, n, i) => n >= 1 BY DEF DataAt, IdAt
<1>5. w[1].piece = k + 1
  <2>1. ~\E m \in Nat : DataAt(w, m, i) /\ m < 1 BY <1>4
  <2> QED BY <2>1, <1>3 DEF Line, Joined
<1> HIDE DEF v
<1>6. k + 1 <= read BY <1>3, <1>5 DEF Line, Within
<1>7. Within(v, i, read) BY <1>1 DEF Line, Within
<1>8. Ascending(v, i) BY <1>1 DEF Line, Ascending
<1>9. Joined(v, i, k + 1)
  <2> SUFFICES ASSUME NEW n \in Nat, DataAt(v, n, i), v[n].piece # (k + 1) + 1
               PROVE  \E m \in Nat : DataAt(v, m, i) /\ m < n /\ v[n].piece = v[m].piece + 1
    BY DEF Joined
  <2>1. DataAt(w, n + 1, i) /\ v[n] = w[n + 1] /\ n + 1 \in Nat /\ 1 < n + 1 BY <1>1
  <2>2. w[1].piece < w[n + 1].piece BY <2>1, <1>3 DEF Line, Ascending
  <2>3. PICK m \in Nat : DataAt(w, m, i) /\ m < n + 1 /\ w[n + 1].piece = w[m].piece + 1
    BY <2>1, <2>2, <1>5 DEF Line, Joined
  <2>4. m # 1 BY <2>1, <2>3, <1>5
  <2> QED BY <2>1, <2>3, <2>4, <1>2
<1>10. linked => Reached(v, i, k + 1, read)
  <2> SUFFICES ASSUME linked, read # k + 1
               PROVE  \E m \in Nat : DataAt(v, m, i) /\ v[m].piece = read
    BY DEF Reached
  <2>1. PICK m \in Nat : DataAt(w, m, i) /\ w[m].piece = read BY <1>6 DEF Line, Reached
  <2> QED BY <2>1, <1>2, <1>5
<1>11. Line(v, i, k + 1, read, TRUE, linked) BY <1>6, <1>7, <1>8, <1>9, <1>10 DEF Line
<1> QED BY <1>11, <1>3, <1>5 DEF v

\* What a message added at the end does to the opens of a stream.
LEMMA OpensAdd ==
  ASSUME NEW w \in Seq(Messages), NEW m \in Messages, NEW i
  PROVE  /\ Silent(w, i) => NoOpen(w, i)
         /\ Silent(w, i) /\ m.id # i => Silent(Append(w, m), i)
         /\ NoOpen(w, i) /\ (m.id # i \/ m.flag # "open") => NoOpen(Append(w, m), i)
         /\ OpenHeads(w, i) /\ (m.id # i \/ m.flag # "open") => OpenHeads(Append(w, m), i)
         /\ Silent(w, i) => OpenHeads(Append(w, m), i)
  BY Added DEF Silent, NoOpen, OpenHeads, OpenAt, IdAt

\* What taking the head does to them: an open at the head was the only one.
LEMMA OpensTake ==
  ASSUME NEW w \in Seq(Messages), w # <<>>, NEW i
  PROVE  /\ Silent(w, i) => Silent(Tail(w), i)
         /\ NoOpen(w, i) => NoOpen(Tail(w), i)
         /\ OpenHeads(w, i) => OpenHeads(Tail(w), i)
         /\ Head(w).id = i => ~Silent(w, i)
         /\ Head(w).id = i /\ Head(w).flag = "open" => ~NoOpen(w, i)
         /\ Head(w).id = i /\ Head(w).flag = "open" /\ OpenHeads(w, i) => NoOpen(Tail(w), i)
<1>1. Silent(w, i) => Silent(Tail(w), i)
  BY Taking DEF Silent, IdAt
<1>2. NoOpen(w, i) => NoOpen(Tail(w), i)
  BY Taking DEF NoOpen, OpenAt, IdAt
<1>3. OpenHeads(w, i) => OpenHeads(Tail(w), i)
  <2> SUFFICES ASSUME OpenHeads(w, i), NEW a \in Nat, NEW b \in Nat,
                      OpenAt(Tail(w), a, i), IdAt(Tail(w), b, i)
               PROVE  a <= b
    BY DEF OpenHeads
  <2>1. OpenAt(w, a + 1, i) /\ IdAt(w, b + 1, i) BY Taking DEF OpenAt, IdAt
  <2>2. a + 1 <= b + 1 BY <2>1 DEF OpenHeads
  <2> QED BY <2>2
<1>4. Head(w).id = i => IdAt(w, 1, i)
  BY Taking DEF IdAt
<1>5. Head(w).id = i /\ Head(w).flag = "open" => OpenAt(w, 1, i)
  BY <1>4, Taking DEF OpenAt
<1>6. Head(w).id = i /\ Head(w).flag = "open" /\ OpenHeads(w, i) => NoOpen(Tail(w), i)
  <2> SUFFICES ASSUME Head(w).id = i, Head(w).flag = "open", OpenHeads(w, i), NEW n \in Nat,
                      OpenAt(Tail(w), n, i)
               PROVE  FALSE
    BY DEF NoOpen
  <2>1. n >= 1 /\ OpenAt(w, n + 1, i) BY Taking DEF OpenAt, IdAt
  <2>2. n + 1 <= 1 BY <2>1, <1>4 DEF OpenHeads
  <2> QED BY <2>1, <2>2
<1> QED BY <1>1, <1>2, <1>3, <1>4, <1>5, <1>6 DEF Silent, NoOpen

-----------------------------------------------------------------------------
(* A step that leaves stream i alone.                                      *)

\* A wire on which a message of another stream was added or taken.
Around(w, v, i) ==
  \/ v = w
  \/ \E m \in Messages : m.id # i /\ v = Append(w, m)
  \/ w # <<>> /\ Head(w).id # i /\ v = Tail(w)

\* Such a wire says of stream i what it said before.
LEMMA WireAround ==
  ASSUME NEW w \in Seq(Messages), NEW v, NEW i, Around(w, v, i)
  PROVE  /\ Silent(w, i) => Silent(v, i)
         /\ NoOpen(w, i) => NoOpen(v, i)
         /\ OpenHeads(w, i) => OpenHeads(v, i)
         /\ \A k, read \in Nat : \A taken, linked \in BOOLEAN :
              Line(w, i, k, read, taken, linked) => Line(v, i, k, read, taken, linked)
<1>1. CASE v = w BY <1>1
<1>2. ASSUME NEW m \in Messages, m.id # i, v = Append(w, m)
      PROVE  /\ Silent(w, i) => Silent(v, i)
             /\ NoOpen(w, i) => NoOpen(v, i)
             /\ OpenHeads(w, i) => OpenHeads(v, i)
             /\ \A k, read \in Nat : \A taken, linked \in BOOLEAN :
                  Line(w, i, k, read, taken, linked) => Line(v, i, k, read, taken, linked)
  BY <1>2, OpensAdd, LineAdds
<1>3. CASE w # <<>> /\ Head(w).id # i /\ v = Tail(w)
  BY <1>3, OpensTake, LineTakes
<1> QED BY <1>1, <1>2, <1>3 DEF Around

\* A step after which stream i has no more than it had: its peers have been read and given
\* the same, and it is in no map, pump or list that it was not in.
Untouched(i) ==
  /\ \A s \in Sides : Around(wire[s], wire'[s], i)
  /\ \A s \in Sides : /\ peer'[s][i].read = peer[s][i].read /\ peer'[s][i].got = peer[s][i].got
                      /\ peer[s][i].wrote <= peer'[s][i].wrote
  /\ \A s \in Sides : /\ i \in relay'[s].streams => i \in relay[s].streams
                      /\ i \in relay'[s].pumps => i \in relay[s].pumps
  /\ i \in relay["ingress"].opened => i \in relay'["ingress"].opened
  /\ i \in relay'["ingress"].inserted => i \in relay["ingress"].inserted
  /\ i \in relay'["ingress"].announced => i \in relay["ingress"].announced
  /\ Linked' => Linked

\* What the types say of one stream.
LEMMA RelayTypes ==
  ASSUME RelayType, NEW s \in Sides, NEW i \in Streams
  PROVE  /\ wire[s] \in Seq(Messages) /\ peer[s][i] \in Peers /\ relay[s] \in Halves
         /\ peer[s][i].read \in Nat /\ peer[s][i].wrote \in Nat /\ peer[s][i].got \in Seq(Nat)
         /\ Len(peer[s][i].got) \in Nat /\ Other(s) \in Sides
         /\ Taken(s, i) \in BOOLEAN /\ Linked \in BOOLEAN
<1>1. peer[s][i] \in Peers /\ wire[s] \in Seq(Messages) /\ relay[s] \in Halves /\ Other(s) \in Sides
  BY DEF RelayType, Other, Sides
<1>2. peer[s][i].read \in Nat /\ peer[s][i].wrote \in Nat /\ peer[s][i].got \in Seq(1..MaxBytes)
  BY <1>1, InputRelayAssumption DEF Peers, Counts, Pieces
<1>3. peer[s][i].got \in Seq(Nat) /\ Len(peer[s][i].got) \in Nat
  BY <1>2, InputRelayAssumption
<1> QED BY <1>1, <1>2, <1>3 DEF Taken, Linked, NoOpen

\* A stream keeps its rules through a step that leaves it alone.
LEMMA Elsewhere ==
  ASSUME RelayType, RelayType', NEW i \in Streams, StreamRule(i), Untouched(i)
  PROVE  StreamRule(i)'
<1>1. ASSUME NEW s \in Sides
      PROVE  /\ Silent(wire[s], i) => Silent(wire'[s], i)
             /\ NoOpen(wire[s], i) => NoOpen(wire'[s], i)
             /\ OpenHeads(wire[s], i) => OpenHeads(wire'[s], i)
  <2>1. Around(wire[s], wire'[s], i) /\ wire[s] \in Seq(Messages) BY RelayTypes DEF Untouched
  <2> QED BY <2>1, WireAround
<1>2. Unsent(i)' => Unsent(i) BY DEF Unsent, Untouched
<1>3. UnsentRule(i)'
  BY <1>1, <1>2 DEF UnsentRule, StreamRule, Untouched, Sides
<1>4. OpenRule(i)'
  BY <1>1 DEF OpenRule, StreamRule, Untouched, Sides
<1>5. ASSUME NEW s \in Sides PROVE LineRule(s, i)'
  <2>1. Around(wire[s], wire'[s], i) /\ wire[s] \in Seq(Messages) BY RelayTypes DEF Untouched
  <2>2. Line(wire[s], i, Len(peer[s][i].got), peer[Other(s)][i].read, Taken(s, i), Linked)
    BY DEF StreamRule, LineRule
  <2>3. Other(s) \in Sides /\ Len(peer[s][i].got) \in Nat /\ peer[Other(s)][i].read \in Nat
        /\ Taken(s, i) \in BOOLEAN /\ Linked \in BOOLEAN
    <3>1. Other(s) \in Sides BY DEF Other, Sides
    <3> QED BY <3>1, RelayTypes
  <2>4. Line(wire'[s], i, Len(peer[s][i].got), peer[Other(s)][i].read, Taken(s, i), Linked)
    BY <2>1, <2>2, <2>3, WireAround
  <2>5. (Taken(s, i)' => Taken(s, i)) /\ (Linked' => Linked)
    BY <1>1 DEF Taken, Untouched
  <2>6. peer'[s][i].got = peer[s][i].got /\ peer'[Other(s)][i].read = peer[Other(s)][i].read
    BY <2>3 DEF Untouched
  <2>7. Line(wire'[s], i, Len(peer[s][i].got), peer[Other(s)][i].read, Taken(s, i)', Linked')
    BY <2>4, <2>5, LineLess
  <2>8. Line(wire'[s], i, Len(peer'[s][i].got), peer'[Other(s)][i].read, Taken(s, i)', Linked')
    BY <2>6, <2>7
  <2> QED BY <2>8 DEF LineRule, Other
<1>6. ASSUME NEW s \in Sides PROVE PeerRule(peer[s][i])'
  <2>1. PeerRule(peer[s][i]) BY DEF StreamRule
  <2>2. peer'[s][i].read = peer[s][i].read /\ peer'[s][i].got = peer[s][i].got
        /\ peer[s][i].wrote <= peer'[s][i].wrote
    BY DEF Untouched
  <2>3. peer[s][i].read <= peer'[s][i].wrote
    <3>1. peer[s][i].read <= peer[s][i].wrote BY <2>1 DEF PeerRule
    <3>2. peer'[s][i].wrote \in Nat BY InputRelayAssumption DEF RelayType, Peers, Counts
    <3> QED BY <3>1, <3>2, <2>2, RelayTypes
  <2> QED BY <2>1, <2>2, <2>3 DEF PeerRule
<1> QED BY <1>3, <1>4, <1>5, <1>6 DEF StreamRule

-----------------------------------------------------------------------------
(* The relay's steps: each changes one local connection, one half, or both. *)

\* The numbers of bytes that are counted.
LEMMA CountsAre == \A n \in Counts : n \in Nat /\ n <= n /\ (n < MaxBytes => n + 1 \in Counts /\ n <= n + 1)
  BY InputRelayAssumption DEF Counts

\* A local connection changes its place.
LEMMA PeerAt ==
  ASSUME NEW p \in Peers, NEW a \in {"none", "queued", "up", "shut"}
  PROVE  LET q == [p EXCEPT !.at = a]
         IN /\ q \in Peers /\ q.at = a /\ q.wrote = p.wrote /\ q.read = p.read /\ q.got = p.got
            /\ p.wrote \in Nat /\ p.wrote <= p.wrote
  BY CountsAre DEF Peers

\* Its peer writes one more piece.
LEMMA PeerWrote ==
  ASSUME NEW p \in Peers, p.wrote < MaxBytes
  PROVE  LET q == [p EXCEPT !.wrote = p.wrote + 1]
         IN /\ q \in Peers /\ q.at = p.at /\ q.wrote = p.wrote + 1 /\ q.read = p.read /\ q.got = p.got
            /\ p.wrote <= q.wrote
  BY CountsAre DEF Peers

\* One local connection changes.
PutPeer(s, i, q) ==
  /\ peer' \in [Sides -> [Streams -> Peers]]
  /\ peer'[s][i] = q
  /\ \A t \in Sides, j \in Streams : t # s \/ j # i => peer'[t][j] = peer[t][j]

\* Replacing a connection changes no other one.
LEMMA PeerPut ==
  ASSUME RelayType
  PROVE  \A s \in Sides, i \in Streams, q \in Peers :
           peer' = [peer EXCEPT ![s] = [peer[s] EXCEPT ![i] = q]] => PutPeer(s, i, q)
  BY DEF RelayType, PutPeer

\* One half changes.
PutHalf(s, h) ==
  /\ relay' \in [Sides -> Halves]
  /\ relay'[s] = h
  /\ \A t \in Sides : t # s => relay'[t] = relay[t]

\* Replacing a half leaves the other.
LEMMA HalfPut ==
  ASSUME RelayType
  PROVE  \A s \in Sides, h \in Halves : relay' = [relay EXCEPT ![s] = h] => PutHalf(s, h)
  BY DEF RelayType, PutHalf

\* A step that leaves every stream alone keeps every stream's rules.
LEMMA AllElsewhere ==
  ASSUME RelayInv, RelayType', \A j \in Streams : Untouched(j), \A s \in Sides : HalfRule(s)'
  PROVE  RelayInv'
  BY Elsewhere DEF RelayInv

\* A controller connects, a peer writes, a peer hangs up: only a local connection changes.
LEMMA RelayPeers ==
  ASSUME RelayInv, NEW s \in Sides, NEW i \in Streams,
         (s = "ingress" /\ Connect(i)) \/ Write(s, i) \/ HangUp(s, i)
  PROVE  RelayInv'
<1> USE DEF RelayInv
<1>1. UNCHANGED <<relay, wire>> BY DEF Connect, Write, HangUp
<1>2. peer[s][i] \in Peers BY RelayTypes
<1>3. PICK q \in Peers :
        /\ PutPeer(s, i, q)
        /\ q.read = peer[s][i].read /\ q.got = peer[s][i].got
        /\ peer[s][i].wrote <= q.wrote
        /\ q.at = "up" => peer[s][i].at = "up"
  <2>1. CASE s = "ingress" /\ Connect(i)
    <3> DEFINE q == [peer[s][i] EXCEPT !.at = "queued"]
    <3>1. peer' = [peer EXCEPT ![s] = [peer[s] EXCEPT ![i] = q]] BY <2>1 DEF Connect
    <3>2. /\ q \in Peers /\ q.at = "queued" /\ q.read = peer[s][i].read
          /\ q.got = peer[s][i].got /\ peer[s][i].wrote <= q.wrote
      BY <1>2, PeerAt
    <3> HIDE DEF q
    <3> QED BY <3>1, <3>2, PeerPut
  <2>2. CASE Write(s, i)
    <3> DEFINE q == [peer[s][i] EXCEPT !.wrote = peer[s][i].wrote + 1]
    <3>1. peer' = [peer EXCEPT ![s] = [peer[s] EXCEPT ![i] = q]] BY <2>2 DEF Write
    <3>2. /\ q \in Peers /\ q.at = peer[s][i].at /\ q.read = peer[s][i].read
          /\ q.got = peer[s][i].got /\ peer[s][i].wrote <= q.wrote
      BY <1>2, <2>2, PeerWrote DEF Write
    <3> HIDE DEF q
    <3> QED BY <3>1, <3>2, PeerPut
  <2>3. CASE HangUp(s, i)
    <3> DEFINE q == [peer[s][i] EXCEPT !.at = "shut"]
    <3>1. peer' = [peer EXCEPT ![s] = [peer[s] EXCEPT ![i] = q]] BY <2>3 DEF HangUp
    <3>2. /\ q \in Peers /\ q.at = "shut" /\ q.read = peer[s][i].read
          /\ q.got = peer[s][i].got /\ peer[s][i].wrote <= q.wrote
      BY <1>2, PeerAt
    <3> HIDE DEF q
    <3> QED BY <3>1, <3>2, PeerPut
  <2> QED BY <2>1, <2>2, <2>3
<1>4. /\ peer' \in [Sides -> [Streams -> Peers]] /\ peer'[s][i] = q
      /\ \A t \in Sides, j \in Streams : t # s \/ j # i => peer'[t][j] = peer[t][j]
  BY <1>3 DEF PutPeer
<1>5. RelayType' BY <1>1, <1>4 DEF RelayType
<1>6. \A j \in Streams : Untouched(j)
  <2>1. \A t \in Sides, j \in Streams : peer[t][j].wrote <= peer[t][j].wrote
    BY RelayTypes
  <2> QED BY <1>1, <1>3, <1>4, <2>1 DEF Untouched, Around, Linked
<1>7. \A t \in Sides : HalfRule(t)'
  BY <1>1, <1>3, <1>4 DEF HalfRule, Attaching
<1> QED BY <1>5, <1>6, <1>7, AllElsewhere

\* The end of a half until its shutdown: only the flag changes.
LEMMA RelayStops ==
  ASSUME RelayInv, NEW s \in Sides, StopRelay(s) \/ PeerGone(s) \/ CloseRelay(s)
  PROVE  RelayInv'
<1> USE DEF RelayInv
<1>1. UNCHANGED <<peer, wire>> BY DEF StopRelay, PeerGone, CloseRelay
<1>2. relay[s] \in Halves BY DEF RelayType
<1>3. PICK run \in {"stop", "closing"} :
        /\ relay' = [relay EXCEPT ![s] = [@ EXCEPT !.run = run]]
        /\ run = "stop" => relay[s].run = "up"
  BY DEF StopRelay, PeerGone, CloseRelay
<1> DEFINE h == [relay[s] EXCEPT !.run = run]
<1>4. /\ h \in Halves /\ h.run = run
      /\ h.streams = relay[s].streams /\ h.pumps = relay[s].pumps
      /\ h.opened = relay[s].opened /\ h.inserted = relay[s].inserted
      /\ h.announced = relay[s].announced
  BY <1>2 DEF Halves
<1>5. relay' = [relay EXCEPT ![s] = h] BY <1>3
<1> HIDE DEF h
<1>6. /\ relay' \in [Sides -> Halves] /\ relay'[s] = h
      /\ \A t \in Sides : t # s => relay'[t] = relay[t]
  BY <1>4, <1>5, HalfPut DEF PutHalf
<1>7. RelayType' BY <1>1, <1>6 DEF RelayType
<1>8. \A j \in Streams : Untouched(j)
  <2>1. \A t \in Sides, j \in Streams : peer[t][j].wrote <= peer[t][j].wrote
    BY RelayTypes
  <2>2. Linked' => Linked BY <1>3, <1>4, <1>6 DEF Linked
  <2>3. "ingress" \in Sides BY DEF Sides
  <2> QED BY <1>1, <1>4, <1>6, <2>1, <2>2, <2>3 DEF Untouched, Around
<1>9. \A t \in Sides : HalfRule(t)'
  BY <1>1, <1>4, <1>6 DEF HalfRule, Attaching
<1> QED BY <1>7, <1>8, <1>9, AllElsewhere

\* A step at side s on stream i: its connection becomes q, its half h; what the half has
\* besides i it had before, and it neither stops nor was over.
Acts(s, i, q, h) ==
  /\ PutPeer(s, i, q) /\ PutHalf(s, h)
  /\ \A j \in Streams \ {i} : (j \in h.streams <=> j \in relay[s].streams)
                              /\ (j \in h.pumps => j \in relay[s].pumps)
  /\ relay[s].opened \subseteq h.opened
  /\ \A j \in Streams \ {i} : /\ j \in h.inserted => j \in relay[s].inserted
                              /\ j \in h.announced => j \in relay[s].announced
  /\ h.run = relay[s].run /\ relay[s].run # "over"
  /\ q.at = "up" => i \in h.streams

\* A message of stream i added to a wire.
LEMMA WireAdds ==
  ASSUME RelayType
  PROVE  \A t \in Sides, m \in Messages : wire' = [wire EXCEPT ![t] = Append(wire[t], m)] =>
           /\ wire' \in [Sides -> Seq(Messages)] /\ wire'[t] = Append(wire[t], m)
           /\ \A u \in Sides : u # t => wire'[u] = wire[u]
           /\ \A u \in Sides, j \in Streams : j # m.id => Around(wire[u], wire'[u], j)
<1> SUFFICES ASSUME NEW t \in Sides, NEW m \in Messages, wire' = [wire EXCEPT ![t] = Append(wire[t], m)]
             PROVE  /\ wire' \in [Sides -> Seq(Messages)] /\ wire'[t] = Append(wire[t], m)
                    /\ \A u \in Sides : u # t => wire'[u] = wire[u]
                    /\ \A u \in Sides, j \in Streams : j # m.id => Around(wire[u], wire'[u], j)
  OBVIOUS
<1>1. wire[t] \in Seq(Messages) BY DEF RelayType
<1> DEFINE v == Append(wire[t], m)
<1>2. v \in Seq(Messages) BY <1>1, Added
<1>3. wire' = [wire EXCEPT ![t] = v] OBVIOUS
<1> HIDE DEF v
<1>4. /\ wire' \in [Sides -> Seq(Messages)] /\ wire'[t] = v
      /\ \A u \in Sides : u # t => wire'[u] = wire[u]
  BY <1>2, <1>3 DEF RelayType
<1>5. \A u \in Sides, j \in Streams : j # m.id => Around(wire[u], wire'[u], j)
  BY <1>4 DEF Around, v
<1> QED BY <1>4, <1>5 DEF v

\* send: the message is on the wire to the other side while the link is up.
LEMMA SentAdds ==
  ASSUME RelayType, NEW s \in Sides, NEW m \in Messages, wire' = Sent(s, <<m>>)
  PROVE  /\ wire' \in [Sides -> Seq(Messages)] /\ wire'[s] = wire[s]
         /\ Linked => wire'[Other(s)] = Append(wire[Other(s)], m)
         /\ ~Linked => wire' = wire
         /\ \A u \in Sides, j \in Streams : j # m.id => Around(wire[u], wire'[u], j)
<1>1. CASE ~Linked BY <1>1 DEF Sent, RelayType, Around
<1>2. CASE Linked
  <2>1. Other(s) \in Sides /\ Other(s) # s BY DEF Other, Sides
  <2>2. wire[Other(s)] \o <<m>> = Append(wire[Other(s)], m) BY <2>1, Added DEF RelayType
  <2>3. wire' = [wire EXCEPT ![Other(s)] = Append(wire[Other(s)], m)] BY <1>2, <2>2 DEF Sent
  <2> QED BY <1>2, <2>1, <2>3, WireAdds
<1> QED BY <1>1, <1>2

\* Every other stream is left alone by such a step.
LEMMA OthersLeft ==
  ASSUME RelayInv, RelayType', NEW s \in Sides, NEW i \in Streams, NEW q \in Peers, NEW h \in Halves,
         Acts(s, i, q, h), \A u \in Sides, j \in Streams : j # i => Around(wire[u], wire'[u], j)
  PROVE  \A j \in Streams \ {i} : StreamRule(j)'
<1> SUFFICES ASSUME NEW j \in Streams, j # i PROVE Untouched(j)
  BY Elsewhere DEF RelayInv
<1>1. \A t \in Sides : peer'[t][j] = peer[t][j] BY DEF Acts, PutPeer
<1>2. \A t \in Sides : peer[t][j].wrote <= peer[t][j].wrote BY RelayTypes DEF RelayInv
<1>3. Linked' => Linked BY DEF Acts, PutHalf, Linked
<1>4. "ingress" \in Sides BY DEF Sides
<1>5. \A t \in Sides : /\ j \in relay'[t].streams => j \in relay[t].streams
                       /\ j \in relay'[t].pumps => j \in relay[t].pumps
                       /\ j \in relay[t].opened => j \in relay'[t].opened
                       /\ j \in relay'[t].inserted => j \in relay[t].inserted
                       /\ j \in relay'[t].announced => j \in relay[t].announced
  BY DEF Acts, PutHalf
<1> QED BY <1>1, <1>2, <1>3, <1>4, <1>5 DEF Untouched

\* The halves' rule after such a step.
LEMMA HalvesKept ==
  ASSUME RelayInv, NEW s \in Sides, NEW i \in Streams, NEW q \in Peers, NEW h \in Halves, Acts(s, i, q, h)
  PROVE  \A t \in Sides : HalfRule(t)'
<1> SUFFICES ASSUME NEW t \in Sides PROVE HalfRule(t)' OBVIOUS
<1>1. CASE t = s
  <2>1. \A j \in Streams : peer'[t][j].at = "up" => j \in relay'[t].streams
    BY <1>1 DEF Acts, PutPeer, PutHalf, RelayInv, HalfRule
  <2> QED BY <1>1, <2>1 DEF Acts, PutHalf, HalfRule
<1>2. CASE t # s
  <2>1. relay'[t] = relay[t] /\ \A j \in Streams : peer'[t][j] = peer[t][j]
    BY <1>2 DEF Acts, PutHalf, PutPeer
  <2> QED BY <2>1 DEF HalfRule, RelayInv, Attaching
<1> QED BY <1>1, <1>2

\* Such a step keeps the invariant when it keeps the rules of its own stream.
LEMMA ActsKeep ==
  ASSUME RelayInv, NEW s \in Sides, NEW i \in Streams, NEW q \in Peers, NEW h \in Halves,
         Acts(s, i, q, h), wire' \in [Sides -> Seq(Messages)],
         \A u \in Sides, j \in Streams : j # i => Around(wire[u], wire'[u], j),
         StreamRule(i)'
  PROVE  RelayInv'
<1>1. RelayType' BY DEF RelayType, Acts, PutPeer, PutHalf
<1> QED BY <1>1, OthersLeft, HalvesKept DEF RelayInv

\* A side whose wire, pieces and reads are the same keeps its line.
LEMMA LineStays ==
  ASSUME NEW t \in Sides, NEW i \in Streams, LineRule(t, i), wire'[t] = wire[t],
         peer'[t][i].got = peer[t][i].got, peer'[Other(t)][i].read = peer[Other(t)][i].read,
         Taken(t, i)' => Taken(t, i), Linked' => Linked
  PROVE  LineRule(t, i)'
<1>1. Line(wire'[t], i, Len(peer'[t][i].got), peer'[Other(t)][i].read, Taken(t, i), Linked)
  BY DEF LineRule
<1>2. Line(wire'[t], i, Len(peer'[t][i].got), peer'[Other(t)][i].read, Taken(t, i)', Linked')
  BY <1>1, LineLess
<1> QED BY <1>2 DEF LineRule, Other

\* attach, insert: nothing was carried of the connection yet.
LEMMA RelayAccept ==
  ASSUME RelayInv, NEW i \in Streams, Accept(i)
  PROVE  RelayInv'
<1> USE DEF RelayInv
<1> DEFINE s == "ingress"
           q == [peer[s][i] EXCEPT !.at = IF peer[s][i].at = "queued" THEN "up" ELSE peer[s][i].at]
           h == [relay[s] EXCEPT !.streams = relay[s].streams \union {i}, !.inserted = {i},
                                 !.opened = relay[s].opened \union {i}]
<1>0. s \in Sides /\ Other(s) = "egress" /\ "egress" \in Sides BY DEF Sides, Other
<1>1. peer[s][i] \in Peers /\ relay[s] \in Halves BY <1>0, RelayTypes
<1>2. q \in Peers /\ q.read = peer[s][i].read /\ q.got = peer[s][i].got /\ q.wrote = peer[s][i].wrote
  <2>1. (IF peer[s][i].at = "queued" THEN "up" ELSE peer[s][i].at) \in {"none", "queued", "up", "shut"}
    BY <1>1 DEF Peers
  <2> QED BY <1>1, <2>1, PeerAt
<1>3. /\ h \in Halves /\ h.streams = relay[s].streams \union {i} /\ h.inserted = {i}
      /\ h.opened = relay[s].opened \union {i} /\ h.announced = relay[s].announced
      /\ h.pumps = relay[s].pumps /\ h.run = relay[s].run
  BY <1>1 DEF Halves
<1>4. peer' = [peer EXCEPT ![s] = [peer[s] EXCEPT ![i] = q]] BY DEF Accept
<1>5. relay' = [relay EXCEPT ![s] = h] BY DEF Accept
<1>6. /\ i \notin relay[s].opened /\ relay[s].run \in {"up", "stop"} /\ wire' = wire
  BY DEF Accept
<1> HIDE DEF q, h
<1>7. PutPeer(s, i, q) /\ PutHalf(s, h) BY <1>0, <1>2, <1>3, <1>4, <1>5, PeerPut, HalfPut
<1>8. Acts(s, i, q, h) BY <1>3, <1>6, <1>7 DEF Acts
<1>9. StreamRule(i)'
  <2>1. Unsent(i) /\ UnsentRule(i) /\ OpenRule(i) BY <1>6 DEF Unsent, StreamRule
  <2>2. relay'["egress"] = relay["egress"] /\ relay'[s] = h BY <1>0, <1>7 DEF PutHalf
  <2>3. \A t \in Sides : /\ peer'[t][i].read = peer[t][i].read /\ peer'[t][i].got = peer[t][i].got
                         /\ peer'[t][i].wrote = peer[t][i].wrote
    BY <1>0, <1>2, <1>7 DEF PutPeer
  <2>a. \A t \in Sides : relay'[t].pumps = relay[t].pumps BY <1>3, <1>7 DEF PutHalf
  <2>4. UnsentRule(i)' BY <1>0, <1>3, <1>6, <2>1, <2>2, <2>3, <2>a DEF UnsentRule
  <2>5. OpenRule(i)' BY <1>0, <1>6, <2>1, <2>2, <2>3 DEF OpenRule
  <2>6. Linked' => Linked BY <1>0, <1>3, <1>7 DEF Linked, PutHalf
  <2>7. LineRule("egress", i)'
    <3>1. Other("egress") \in Sides BY DEF Other, Sides
    <3>2. Taken("egress", i)' => Taken("egress", i) BY <1>6, <2>2 DEF Taken
    <3> QED BY <1>0, <1>6, <2>3, <2>6, <3>1, <3>2, LineStays DEF StreamRule
  <2>8. LineRule(s, i)'
    <3>1. Silent(wire'[s], i) /\ peer'[s][i].got = <<>> /\ peer'["egress"][i].read = 0
      BY <1>0, <1>6, <2>1, <2>3 DEF UnsentRule
    <3>2. Line(wire'[s], i, 0, 0, Taken(s, i)', Linked') BY <3>1, LineEmpty
    <3> QED BY <3>1, <3>2, <1>0 DEF LineRule, Other
  <2>9. \A t \in Sides : PeerRule(peer[t][i])' BY <2>3 DEF StreamRule, PeerRule
  <2> QED BY <2>4, <2>5, <2>7, <2>8, <2>9 DEF StreamRule, Sides
<1> QED BY <1>0, <1>2, <1>3, <1>6, <1>8, <1>9, ActsKeep DEF Around, RelayType

\* A step that gives its own stream nothing keeps the invariant.
LEMMA ActsLess ==
  ASSUME RelayInv, NEW s \in Sides, NEW i \in Streams, NEW q \in Peers, NEW h \in Halves,
         Acts(s, i, q, h), wire' \in [Sides -> Seq(Messages)],
         \A u \in Sides, j \in Streams : Around(wire[u], wire'[u], j),
         q.read = peer[s][i].read, q.got = peer[s][i].got, q.wrote = peer[s][i].wrote,
         i \in h.streams => i \in relay[s].streams, i \in h.pumps => i \in relay[s].pumps,
         i \in h.inserted => i \in relay[s].inserted, i \in h.announced => i \in relay[s].announced
  PROVE  RelayInv'
<1>1. RelayType' BY DEF RelayType, Acts, PutPeer, PutHalf
<1>2. \A t \in Sides : /\ peer'[t][i].read = peer[t][i].read /\ peer'[t][i].got = peer[t][i].got
                       /\ peer[t][i].wrote <= peer'[t][i].wrote
  <2>1. \A t \in Sides : peer[t][i].wrote <= peer[t][i].wrote BY RelayTypes DEF RelayInv
  <2> QED BY <2>1 DEF Acts, PutPeer
<1>3. Linked' => Linked BY DEF Acts, PutHalf, Linked
<1>4. "ingress" \in Sides BY DEF Sides
<1>5. \A t \in Sides : /\ i \in relay'[t].streams => i \in relay[t].streams
                       /\ i \in relay'[t].pumps => i \in relay[t].pumps
                       /\ i \in relay[t].opened => i \in relay'[t].opened
                       /\ i \in relay'[t].inserted => i \in relay[t].inserted
                       /\ i \in relay'[t].announced => i \in relay[t].announced
  BY DEF Acts, PutHalf
<1>6. Untouched(i) BY <1>2, <1>3, <1>4, <1>5 DEF Untouched
<1>7. StreamRule(i)' BY <1>1, <1>6, Elsewhere DEF RelayInv
<1> QED BY <1>7, ActsKeep

\* close_local: the connection is not open afterwards.
LEMMA Closes ==
  ASSUME RelayInv, NEW s \in Sides, NEW i \in Streams, peer' = CloseLocal(peer, s, i)
  PROVE  \E q \in Peers : /\ PutPeer(s, i, q) /\ q.at # "up" /\ q.wrote = peer[s][i].wrote
                          /\ q.read = peer[s][i].read /\ q.got = peer[s][i].got
<1>1. peer[s][i] \in Peers BY RelayTypes DEF RelayInv
<1>2. CASE i \in relay[s].streams
  <2> DEFINE q == [peer[s][i] EXCEPT !.at = "shut"]
  <2>1. peer' = [peer EXCEPT ![s] = [peer[s] EXCEPT ![i] = q]] BY <1>2 DEF CloseLocal
  <2>2. /\ q \in Peers /\ q.at = "shut" /\ q.wrote = peer[s][i].wrote
        /\ q.read = peer[s][i].read /\ q.got = peer[s][i].got
    BY <1>1, PeerAt
  <2> HIDE DEF q
  <2> QED BY <2>1, <2>2, PeerPut DEF RelayInv
<1>3. CASE i \notin relay[s].streams
  <2>1. peer' = peer BY <1>3 DEF CloseLocal
  <2>2. peer[s][i].at # "up" BY <1>3 DEF RelayInv, HalfRule
  <2>3. PutPeer(s, i, peer[s][i]) BY <2>1, <1>1 DEF PutPeer, RelayInv, RelayType
  <2> QED BY <1>1, <2>2, <2>3
<1> QED BY <1>2, <1>3

\* attach, the open: the first message of its stream.
LEMMA RelaySendOpen ==
  ASSUME RelayInv, NEW i \in Streams, SendOpen(i)
  PROVE  RelayInv'
<1> USE DEF RelayInv
<1> DEFINE s == "ingress"
<1>0. s \in Sides /\ Other(s) = "egress" /\ "egress" \in Sides BY DEF Sides, Other
<1>1. peer[s][i] \in Peers /\ relay[s] \in Halves /\ i \in relay[s].inserted
  BY <1>0, RelayTypes DEF SendOpen
<1>2. relay[s].run # "over" BY <1>0, <1>1 DEF HalfRule, Attaching
<1>3. CASE Linked
  <2> DEFINE m == Message(i, "open", 0)
             h == [relay[s] EXCEPT !.inserted = {}, !.announced = {i}]
  <2>1. m \in Messages /\ m.id = i /\ m.flag = "open"
    BY InputRelayAssumption DEF Message, Messages
  <2>2. wire' = Sent(s, <<m>>) /\ relay' = [relay EXCEPT ![s] = h] /\ peer' = peer
    BY <1>3 DEF SendOpen
  <2>3. /\ h \in Halves /\ h.streams = relay[s].streams /\ h.inserted = {}
        /\ h.opened = relay[s].opened /\ h.announced = {i}
        /\ h.pumps = relay[s].pumps /\ h.run = relay[s].run
    BY <1>1 DEF Halves
  <2> HIDE DEF m, h
  <2>4. /\ wire' \in [Sides -> Seq(Messages)] /\ wire'[s] = wire[s]
        /\ wire'["egress"] = Append(wire["egress"], m)
        /\ \A u \in Sides, j \in Streams : j # i => Around(wire[u], wire'[u], j)
    BY <1>0, <1>3, <2>1, <2>2, SentAdds
  <2>5. PutPeer(s, i, peer[s][i]) /\ PutHalf(s, h)
    BY <1>0, <1>1, <2>2, <2>3, HalfPut DEF PutPeer, RelayType
  <2>6. Acts(s, i, peer[s][i], h)
    BY <1>0, <1>2, <2>3, <2>5 DEF Acts, HalfRule
  <2>7. Unsent(i) /\ UnsentRule(i) /\ i \in relay[s].opened
    BY <1>1 DEF Unsent, StreamRule, UnsentRule
  <2>8. relay'["egress"] = relay["egress"] /\ relay'[s] = h BY <1>0, <2>5 DEF PutHalf
  <2>9. UnsentRule(i)' BY <2>3, <2>7, <2>8 DEF UnsentRule, Unsent
  <2>10. \A t \in Sides : Silent(wire[t], i) /\ peer[t][i].read = 0 /\ peer[t][i].got = <<>>
                          /\ i \notin relay[t].pumps
    BY <2>7 DEF UnsentRule
  <2>11. OpenRule(i)'
    <3>1. NoOpen(wire'[s], i) BY <1>0, <2>4, <2>10 DEF NoOpen, Silent, OpenAt
    <3>2. OpenHeads(wire'["egress"], i)
      <4>1. wire["egress"] \in Seq(Messages) BY <1>0 DEF RelayType
      <4> QED BY <1>0, <2>1, <2>4, <2>10, <4>1, OpensAdd
    <3>3. Silent(wire'[s], i) BY <1>0, <2>4, <2>10
    <3> QED BY <1>0, <3>1, <3>2, <3>3, <2>2, <2>7, <2>8, <2>10 DEF OpenRule, UnsentRule
  <2>12. Linked' => Linked BY <1>3
  <2>13. LineRule(s, i)'
    <3>1. Taken(s, i)' => Taken(s, i) BY <2>3, <2>4, <2>8 DEF Taken
    <3> QED BY <1>0, <2>2, <2>4, <2>12, <3>1, LineStays DEF StreamRule
  <2>14. LineRule("egress", i)'
    <3>1. wire["egress"] \in Seq(Messages) BY <1>0 DEF RelayType
    <3>2. Line(wire["egress"], i, 0, 0, Taken("egress", i)', Linked')
      BY <1>0, <2>10, LineEmpty
    <3>3. Line(wire'["egress"], i, 0, 0, Taken("egress", i)', Linked')
      BY <2>1, <2>4, <3>1, <3>2, LineAdds
    <3>4. Len(peer'["egress"][i].got) = 0 /\ peer'[Other("egress")][i].read = 0
      BY <1>0, <2>2, <2>10 DEF Other
    <3> QED BY <3>3, <3>4 DEF LineRule, Other
  <2>15. \A t \in Sides : PeerRule(peer[t][i])' BY <2>2 DEF StreamRule
  <2>16. StreamRule(i)' BY <2>9, <2>11, <2>13, <2>14, <2>15 DEF StreamRule, Sides
  <2> QED BY <1>0, <1>1, <2>3, <2>4, <2>6, <2>16, ActsKeep
<1>4. CASE ~Linked
  <2> DEFINE h == [relay[s] EXCEPT !.streams = relay[s].streams \ {i}, !.inserted = {}]
  <2>1. peer' = CloseLocal(peer, s, i) /\ relay' = [relay EXCEPT ![s] = h] /\ wire' = wire
    BY <1>4 DEF SendOpen
  <2>2. /\ h \in Halves /\ h.streams = relay[s].streams \ {i} /\ h.inserted = {}
        /\ h.opened = relay[s].opened /\ h.announced = relay[s].announced
        /\ h.pumps = relay[s].pumps /\ h.run = relay[s].run
    BY <1>1 DEF Halves
  <2> HIDE DEF h
  <2>3. PICK q \in Peers : /\ PutPeer(s, i, q) /\ q.at # "up" /\ q.wrote = peer[s][i].wrote
                           /\ q.read = peer[s][i].read /\ q.got = peer[s][i].got
    BY <1>0, <2>1, Closes
  <2>4. PutHalf(s, h) BY <1>0, <2>1, <2>2, HalfPut
  <2>5. Acts(s, i, q, h) BY <1>2, <2>2, <2>3, <2>4 DEF Acts
  <2>6. wire' \in [Sides -> Seq(Messages)]
        /\ \A u \in Sides, j \in Streams : Around(wire[u], wire'[u], j)
    BY <2>1 DEF RelayType, Around
  <2> QED BY <1>0, <2>2, <2>3, <2>5, <2>6, ActsLess
<1> QED BY <1>3, <1>4

\* Once sent, a stream is sent for good.
LEMMA SentStays ==
  ASSUME RelayInv, NEW s \in Sides, NEW i \in Streams, NEW q \in Peers, NEW h \in Halves,
         Acts(s, i, q, h), ~Unsent(i), i \in h.inserted => i \in relay[s].inserted
  PROVE  UnsentRule(i)'
<1>1. \A t \in Sides : /\ i \in relay[t].opened => i \in relay'[t].opened
                       /\ i \in relay'[t].inserted => i \in relay[t].inserted
  BY DEF Acts, PutHalf
<1>2. "ingress" \in Sides BY DEF Sides
<1>3. ~Unsent(i)' /\ i \in relay'["ingress"].opened BY <1>1, <1>2 DEF Unsent
<1> QED BY <1>3 DEF UnsentRule

\* Without an open on either wire nothing more is asked.
LEMMA OpenGone ==
  ASSUME NEW i \in Streams, NoOpen(wire'["ingress"], i), NoOpen(wire'["egress"], i)
  PROVE  OpenRule(i)'
  BY DEF OpenRule, OpenHeads, NoOpen

\* A line known for the new wire.
LEMMA LineMoves ==
  ASSUME NEW t \in Sides, NEW i \in Streams, NEW k, NEW read, NEW taken, NEW linked,
         Line(wire'[t], i, k, read, taken, linked), Len(peer'[t][i].got) = k,
         peer'[Other(t)][i].read = read, Taken(t, i)' => taken, Linked' => linked
  PROVE  LineRule(t, i)'
<1>1. Line(wire'[t], i, k, read, Taken(t, i)', Linked') BY LineLess
<1> QED BY <1>1 DEF LineRule, Other

\* A piece that was read and could not be sent: the link is down.
LEMMA LineSkips ==
  ASSUME NEW w, NEW i, NEW k \in Nat, NEW read \in Nat, NEW taken, NEW linked,
         Line(w, i, k, read, taken, linked)
  PROVE  Line(w, i, k, read + 1, taken, FALSE)
<1>1. Within(w, i, read + 1)
  <2> SUFFICES ASSUME NEW n \in Nat, DataAt(w, n, i) PROVE w[n].piece \in 1..(read + 1)
    BY DEF Within
  <2>1. w[n].piece \in 1..read BY DEF Line, Within
  <2> QED BY <2>1
<1> QED BY <1>1 DEF Line

\* A piece at the head that nobody takes any more.
LEMMA LineDrops ==
  ASSUME NEW w \in Seq(Messages), w # <<>>, NEW i, NEW k \in Nat, NEW read \in Nat,
         NEW taken, NEW linked, Line(w, i, k, read, taken, linked)
  PROVE  Line(Tail(w), i, k, read, FALSE, linked)
<1>1. \A n \in Nat : DataAt(Tail(w), n, i) => n + 1 \in Nat /\ DataAt(w, n + 1, i) /\ Tail(w)[n] = w[n + 1]
  BY Taking DEF DataAt, IdAt
<1> QED BY <1>1 DEF Line, Within

\* A stream that is not taken is so after pieces and closes are added.
LEMMA LineShut ==
  ASSUME NEW w \in Seq(Messages), NEW m \in Messages, NEW i, m.flag = "close"
  PROVE  /\ NoOpen(w, i) => NoOpen(Append(w, m), i)
         /\ OpenHeads(w, i) => OpenHeads(Append(w, m), i)
         /\ \A k, read \in Nat : \A taken, linked \in BOOLEAN :
              Line(w, i, k, read, taken, linked) => Line(Append(w, m), i, k, read, taken, linked)
  BY OpensAdd, LineAdds

\* A message on the wire shows that its stream was sent; one that is no open comes after it.
LEMMA HeadIsSent ==
  ASSUME RelayInv, NEW s \in Sides, wire[s] # <<>>
  PROVE  LET m == Head(wire[s]) IN
         /\ m \in Messages /\ m.id \in Streams /\ ~Unsent(m.id)
         /\ m.flag # "open" => NoOpen(wire["egress"], m.id)
         /\ NoOpen(wire["ingress"], m.id)
         /\ m.flag = "open" => s = "egress"
<1> USE DEF RelayInv
<1> DEFINE m == Head(wire[s])
           i == m.id
<1>1. wire[s] \in Seq(Messages) BY DEF RelayType
<1>2. m \in Messages /\ i \in Streams BY <1>1, Taking DEF Messages
<1>3. UnsentRule(i) /\ OpenRule(i) BY <1>2 DEF StreamRule
<1>4. ~Silent(wire[s], i) BY <1>1, OpensTake
<1>5. ~Unsent(i) BY <1>3, <1>4 DEF UnsentRule
<1>6. m.flag = "open" => ~NoOpen(wire[s], i) BY <1>1, OpensTake
<1>7. m.flag = "open" => s = "egress" BY <1>3, <1>6 DEF OpenRule, Sides
<1>8. m.flag # "open" => NoOpen(wire["egress"], i)
  <2>1. CASE s = "ingress" BY <1>3, <1>4, <2>1 DEF OpenRule
  <2>2. CASE s = "egress"
    <3> SUFFICES ASSUME m.flag # "open", NEW n \in Nat, OpenAt(wire[s], n, i) PROVE FALSE
      BY <2>2 DEF NoOpen
    <3>1. IdAt(wire[s], 1, i) /\ ~OpenAt(wire[s], 1, i) BY <1>1, Taking DEF IdAt, OpenAt
    <3>2. n <= 1 /\ n >= 1 BY <1>3, <2>2, <3>1 DEF OpenRule, OpenHeads, OpenAt, IdAt
    <3>3. n = 1 BY <3>2
    <3> QED BY <3>1, <3>3
  <2> QED BY <2>1, <2>2 DEF Sides
<1> QED BY <1>2, <1>3, <1>5, <1>7, <1>8 DEF OpenRule

\* on_message takes the head of its wire.
LEMMA WireTakes ==
  ASSUME RelayType
  PROVE  \A s \in Sides : wire[s] # <<>> /\ wire' = [wire EXCEPT ![s] = Tail(wire[s])] =>
           /\ wire' \in [Sides -> Seq(Messages)] /\ wire'[s] = Tail(wire[s])
           /\ \A u \in Sides : u # s => wire'[u] = wire[u]
           /\ \A u \in Sides, j \in Streams : j # Head(wire[s]).id => Around(wire[u], wire'[u], j)
<1> SUFFICES ASSUME NEW s \in Sides, wire[s] # <<>>, wire' = [wire EXCEPT ![s] = Tail(wire[s])]
             PROVE  /\ wire' \in [Sides -> Seq(Messages)] /\ wire'[s] = Tail(wire[s])
                    /\ \A u \in Sides : u # s => wire'[u] = wire[u]
                    /\ \A u \in Sides, j \in Streams : j # Head(wire[s]).id => Around(wire[u], wire'[u], j)
  OBVIOUS
<1> DEFINE v == Tail(wire[s])
<1>1. wire[s] \in Seq(Messages) BY DEF RelayType
<1>2. v \in Seq(Messages) BY <1>1, Taking
<1>3. wire' = [wire EXCEPT ![s] = v] OBVIOUS
<1> HIDE DEF v
<1>4. /\ wire' \in [Sides -> Seq(Messages)] /\ wire'[s] = v
      /\ \A u \in Sides : u # s => wire'[u] = wire[u]
  BY <1>2, <1>3 DEF RelayType
<1>5. \A u \in Sides, j \in Streams : j # Head(wire[s]).id => Around(wire[u], wire'[u], j)
  BY <1>4 DEF Around, v
<1> QED BY <1>4, <1>5 DEF v

\* on_message takes the head and answers with a close of the same stream.
LEMMA WireAnswers ==
  ASSUME RelayType, NEW s \in Sides, wire[s] # <<>>, NEW m \in Messages, m.id = Head(wire[s]).id,
         wire' = [[wire EXCEPT ![s] = Tail(wire[s])] EXCEPT ![Other(s)] = Append(wire[Other(s)], m)]
  PROVE  /\ wire' \in [Sides -> Seq(Messages)] /\ wire'[s] = Tail(wire[s])
         /\ wire'[Other(s)] = Append(wire[Other(s)], m)
         /\ \A u \in Sides, j \in Streams : j # Head(wire[s]).id => Around(wire[u], wire'[u], j)
<1> DEFINE v == Tail(wire[s])
           w == Append(wire[Other(s)], m)
<1>0. Other(s) \in Sides /\ Other(s) # s /\ \A u \in Sides : u = s \/ u = Other(s)
  BY DEF Other, Sides
<1>1. wire[s] \in Seq(Messages) /\ wire[Other(s)] \in Seq(Messages) BY <1>0 DEF RelayType
<1>2. v \in Seq(Messages) /\ w \in Seq(Messages) BY <1>1, Taking, Added
<1>3. wire' = [[wire EXCEPT ![s] = v] EXCEPT ![Other(s)] = w] OBVIOUS
<1> HIDE DEF v, w
<1>4. wire' \in [Sides -> Seq(Messages)] /\ wire'[s] = v /\ wire'[Other(s)] = w
  BY <1>0, <1>2, <1>3 DEF RelayType
<1>5. \A u \in Sides, j \in Streams : j # Head(wire[s]).id => Around(wire[u], wire'[u], j)
  BY <1>0, <1>4 DEF Around, v, w
<1> QED BY <1>4, <1>5 DEF v, w

\* spawn_pump: the connection's open is out, so its bytes may follow.
LEMMA RelayStartPump ==
  ASSUME RelayInv, NEW i \in Streams, StartPump(i)
  PROVE  RelayInv'
<1> USE DEF RelayInv
<1> DEFINE s == "ingress"
<1>0. s \in Sides /\ Other(s) = "egress" /\ "egress" \in Sides BY DEF Sides, Other
<1>1. /\ peer[s][i] \in Peers /\ relay[s] \in Halves /\ i \in relay[s].announced /\ wire' = wire
      /\ wire' \in [Sides -> Seq(Messages)]
  BY <1>0, RelayTypes DEF StartPump, RelayType
<1>2. relay[s].run # "over" BY <1>0, <1>1 DEF HalfRule, Attaching
<1>3. \A u \in Sides, j \in Streams : Around(wire[u], wire'[u], j) BY <1>1 DEF Around
<1>4. ~Unsent(i) BY <1>1 DEF StreamRule, UnsentRule
<1>5. CASE relay[s].run = "up"
  <2> DEFINE h == [relay[s] EXCEPT !.announced = {}, !.pumps = relay[s].pumps \union {i}]
  <2>1. relay' = [relay EXCEPT ![s] = h] /\ peer' = peer BY <1>5 DEF StartPump
  <2>2. /\ h \in Halves /\ h.streams = relay[s].streams /\ h.inserted = relay[s].inserted
        /\ h.opened = relay[s].opened /\ h.announced = {}
        /\ h.pumps = relay[s].pumps \union {i} /\ h.run = relay[s].run
    BY <1>1 DEF Halves
  <2> HIDE DEF h
  <2>3. PutPeer(s, i, peer[s][i]) /\ PutHalf(s, h)
    BY <1>0, <1>1, <2>1, <2>2, HalfPut DEF PutPeer, RelayType
  <2>4. Acts(s, i, peer[s][i], h) BY <1>0, <1>2, <2>2, <2>3 DEF Acts, HalfRule
  <2>5. UnsentRule(i)' BY <1>0, <1>1, <1>4, <2>2, <2>4, SentStays
  <2>6. relay'["egress"] = relay["egress"] /\ relay'[s] = h BY <1>0, <2>3 DEF PutHalf
  <2>7. OpenRule(i)' BY <1>1, <2>1, <2>6 DEF OpenRule, StreamRule
  <2>8. ASSUME NEW t \in Sides PROVE LineRule(t, i)'
    <3>1. Taken(t, i)' => Taken(t, i) BY <1>1, <2>2, <2>6 DEF Taken, Sides
    <3>2. Linked' => Linked BY <2>2, <2>3 DEF Linked, PutHalf
    <3> QED BY <1>1, <2>1, <3>1, <3>2, LineStays DEF StreamRule
  <2>9. StreamRule(i)' BY <2>1, <2>5, <2>7, <2>8 DEF StreamRule
  <2> QED BY <1>0, <1>1, <1>3, <2>2, <2>4, <2>9, ActsKeep
<1>6. CASE relay[s].run # "up"
  <2> DEFINE h == [relay[s] EXCEPT !.streams = relay[s].streams \ {i}, !.announced = {}]
  <2>1. peer' = CloseLocal(peer, s, i) /\ relay' = [relay EXCEPT ![s] = h]
    BY <1>6 DEF StartPump
  <2>2. /\ h \in Halves /\ h.streams = relay[s].streams \ {i} /\ h.inserted = relay[s].inserted
        /\ h.opened = relay[s].opened /\ h.announced = {}
        /\ h.pumps = relay[s].pumps /\ h.run = relay[s].run
    BY <1>1 DEF Halves
  <2> HIDE DEF h
  <2>3. PICK q \in Peers : /\ PutPeer(s, i, q) /\ q.at # "up" /\ q.wrote = peer[s][i].wrote
                           /\ q.read = peer[s][i].read /\ q.got = peer[s][i].got
    BY <1>0, <2>1, Closes
  <2>4. PutHalf(s, h) BY <1>0, <2>1, <2>2, HalfPut
  <2>5. Acts(s, i, q, h) BY <1>2, <2>2, <2>3, <2>4 DEF Acts
  <2> QED BY <1>0, <1>1, <1>3, <2>2, <2>3, <2>5, ActsLess
<1> QED BY <1>5, <1>6

\* pump: the piece read follows the one before it.
LEMMA RelayPumpData ==
  ASSUME RelayInv, NEW s \in Sides, NEW i \in Streams, PumpData(s, i)
  PROVE  RelayInv'
<1> USE DEF RelayInv
<1> DEFINE n == peer[s][i].read
           q == [peer[s][i] EXCEPT !.read = n + 1]
           m == Message(i, "data", n + 1)
<1>0. Other(s) \in Sides /\ Other(s) # s /\ Other(Other(s)) = s BY DEF Sides, Other
<1>1. /\ peer[s][i] \in Peers /\ relay[s] \in Halves /\ i \in relay[s].pumps /\ relay' = relay
      /\ n < peer[s][i].wrote /\ relay[s].run = "up"
  BY RelayTypes DEF PumpData
<1>2. n \in Nat /\ n + 1 \in 1..MaxBytes /\ n + 1 \in Counts /\ n + 1 <= peer[s][i].wrote
  BY <1>1, InputRelayAssumption DEF Peers, Counts
<1>3. q \in Peers /\ q.read = n + 1 /\ q.got = peer[s][i].got /\ q.wrote = peer[s][i].wrote
      /\ q.at = peer[s][i].at
  BY <1>1, <1>2 DEF Peers
<1>4. m \in Messages /\ m.id = i /\ m.flag = "data" /\ m.piece = n + 1
  BY <1>2 DEF Message, Messages
<1>5. peer' = [peer EXCEPT ![s] = [peer[s] EXCEPT ![i] = q]] /\ wire' = Sent(s, <<m>>)
  BY DEF PumpData
<1> HIDE DEF n, q, m
<1>6. PutPeer(s, i, q) /\ PutHalf(s, relay[s])
  BY <1>1, <1>3, <1>5, PeerPut DEF PutHalf, RelayType
<1>7. Acts(s, i, q, relay[s]) BY <1>1, <1>3, <1>6 DEF Acts, HalfRule
<1>8. /\ wire' \in [Sides -> Seq(Messages)] /\ wire'[s] = wire[s]
      /\ Linked => wire'[Other(s)] = Append(wire[Other(s)], m)
      /\ ~Linked => wire' = wire
      /\ \A u \in Sides, j \in Streams : j # i => Around(wire[u], wire'[u], j)
  BY <1>4, <1>5, SentAdds
<1>9. /\ peer'[s][i] = q /\ peer'[Other(s)][i] = peer[Other(s)][i]
  BY <1>0, <1>6 DEF PutPeer
<1>10. ~Unsent(i) /\ OpenRule(i) BY <1>1 DEF StreamRule, UnsentRule
<1>11. UnsentRule(i)' BY <1>1, <1>3, <1>7, <1>10, SentStays
<1>12. wire[s] \in Seq(Messages) /\ wire[Other(s)] \in Seq(Messages) BY <1>0 DEF RelayType
<1>a. /\ NoOpen(wire[Other(s)], i) => NoOpen(wire'[Other(s)], i)
      /\ OpenHeads(wire[Other(s)], i) => OpenHeads(wire'[Other(s)], i)
  <2>1. m.flag # "open" BY <1>4
  <2>2. /\ NoOpen(wire[Other(s)], i) => NoOpen(Append(wire[Other(s)], m), i)
        /\ OpenHeads(wire[Other(s)], i) => OpenHeads(Append(wire[Other(s)], m), i)
    BY <1>4, <1>12, <2>1, OpensAdd
  <2> QED BY <1>8, <2>2
<1>13. OpenRule(i)'
  <2>1. CASE s = "ingress"
    <3>1. Other(s) = "egress" BY <2>1 DEF Other
    <3> QED BY <1>1, <1>3, <1>8, <1>9, <1>10, <1>a, <2>1, <3>1 DEF OpenRule
  <2>2. CASE s = "egress"
    <3>1. Other(s) = "ingress" BY <2>2 DEF Other
    <3>2. NoOpen(wire["egress"], i) BY <1>1, <1>10, <2>2 DEF OpenRule
    <3> QED BY <1>8, <1>10, <1>a, <2>2, <3>1, <3>2, OpenGone DEF OpenRule
  <2> QED BY <2>1, <2>2 DEF Sides
<1>14. \A t \in Sides : Taken(t, i)' => Taken(t, i)
  <2>1. \A t \in Sides : NoOpen(wire[t], i) => NoOpen(wire'[t], i)
    <3>1. \A t \in Sides : t = s \/ t = Other(s) BY DEF Sides, Other
    <3> QED BY <1>8, <1>a, <3>1
  <2> QED BY <1>1, <2>1 DEF Taken
<1>15. Linked' <=> Linked BY <1>1 DEF Linked
<1>16. LineRule(s, i)'
  BY <1>0, <1>3, <1>8, <1>9, <1>14, <1>15, LineStays DEF StreamRule
<1>17. LineRule(Other(s), i)'
  <2> DEFINE k == Len(peer[Other(s)][i].got)
  <2>1. k \in Nat BY <1>0, RelayTypes
  <2>2. Line(wire[Other(s)], i, k, n, Taken(Other(s), i), Linked)
    BY <1>0 DEF StreamRule, LineRule, n
  <2> HIDE DEF k
  <2>3. Len(peer'[Other(s)][i].got) = k /\ peer'[Other(Other(s))][i].read = n + 1
    BY <1>0, <1>3, <1>9 DEF k
  <2>4. CASE Linked
    <3>0. Line(wire[Other(s)], i, k, n, Taken(Other(s), i), TRUE) BY <2>2, <2>4
    <3>1. Line(Append(wire[Other(s)], m), i, k, n + 1, Taken(Other(s), i), TRUE)
      BY <1>2, <1>4, <1>12, <2>1, <3>0, LineGrows
    <3> QED BY <1>0, <1>8, <1>14, <2>3, <2>4, <3>1, LineMoves
  <2>5. CASE ~Linked
    <3>1. Line(wire[Other(s)], i, k, n + 1, Taken(Other(s), i), FALSE)
      BY <1>2, <2>1, <2>2, LineSkips
    <3> QED BY <1>0, <1>8, <1>14, <1>15, <2>3, <2>5, <3>1, LineMoves
  <2> QED BY <2>4, <2>5
<1>18. \A t \in Sides : PeerRule(peer[t][i])'
  <2>1. PeerRule(peer'[s][i]) BY <1>2, <1>3, <1>9 DEF PeerRule, StreamRule
  <2>2. PeerRule(peer'[Other(s)][i]) BY <1>0, <1>9 DEF StreamRule
  <2>3. \A t \in Sides : t = s \/ t = Other(s) BY DEF Sides, Other
  <2>4. \A t \in Sides : PeerRule(peer'[t][i]) BY <2>1, <2>2, <2>3
  <2> QED BY <2>4 DEF PeerRule
<1>19. StreamRule(i)'
  <2>1. \A t \in Sides : t = s \/ t = Other(s) BY DEF Sides, Other
  <2>2. \A t \in Sides : LineRule(t, i)' BY <1>16, <1>17, <2>1
  <2> QED BY <1>11, <1>13, <1>18, <2>2 DEF StreamRule
<1> QED BY <1>1, <1>3, <1>7, <1>8, <1>19, ActsKeep

\* The rules of a stream whose pieces and reads are the same, from its two lines.
LEMMA OwnStream ==
  ASSUME RelayInv, NEW s \in Sides, NEW i \in Streams, NEW q \in Peers, NEW h \in Halves,
         Acts(s, i, q, h), ~Unsent(i), i \in h.inserted => i \in relay[s].inserted,
         q.read = peer[s][i].read, q.got = peer[s][i].got, q.wrote = peer[s][i].wrote, OpenRule(i)',
         \A t \in Sides :
           Line(wire'[t], i, Len(peer[t][i].got), peer[Other(t)][i].read, Taken(t, i)', Linked)
  PROVE  StreamRule(i)'
<1>1. UnsentRule(i)' BY SentStays
<1>2. \A t \in Sides : /\ peer'[t][i].read = peer[t][i].read /\ peer'[t][i].got = peer[t][i].got
                       /\ peer'[t][i].wrote = peer[t][i].wrote
  BY DEF Acts, PutPeer
<1>3. Linked' => Linked BY DEF Acts, PutHalf, Linked
<1>4. ASSUME NEW t \in Sides PROVE LineRule(t, i)'
  <2>1. Other(t) \in Sides BY DEF Other, Sides
  <2> QED BY <1>2, <1>3, <2>1, LineMoves
<1>5. \A t \in Sides : PeerRule(peer[t][i])' BY <1>2 DEF RelayInv, StreamRule, PeerRule
<1> QED BY <1>1, <1>4, <1>5 DEF StreamRule

\* What is known of each line before a step.
LEMMA LineKnown ==
  ASSUME RelayInv, NEW t \in Sides, NEW i \in Streams
  PROVE  /\ Line(wire[t], i, Len(peer[t][i].got), peer[Other(t)][i].read, Taken(t, i), Linked)
         /\ Len(peer[t][i].got) \in Nat /\ peer[Other(t)][i].read \in Nat /\ wire[t] \in Seq(Messages)
         /\ Taken(t, i) \in BOOLEAN /\ Linked \in BOOLEAN
         /\ peer[t][i] \in Peers /\ relay[t] \in Halves
<1>1. Other(t) \in Sides BY DEF Other, Sides
<1> QED BY <1>1, RelayTypes DEF RelayInv, StreamRule, LineRule

\* pump, the end: a close follows what was sent.
LEMMA RelayPumpEnds ==
  ASSUME RelayInv, NEW s \in Sides, NEW i \in Streams, PumpEnds(s, i)
  PROVE  RelayInv'
<1> USE DEF RelayInv
<1> DEFINE h == [relay[s] EXCEPT !.streams = relay[s].streams \ {i}, !.pumps = relay[s].pumps \ {i}]
           m == Message(i, "close", 0)
<1>0. Other(s) \in Sides /\ Other(s) # s /\ \A t \in Sides : t = s \/ t = Other(s)
  BY DEF Sides, Other
<1>1. relay[s] \in Halves /\ i \in relay[s].pumps /\ peer' = CloseLocal(peer, s, i)
  BY RelayTypes DEF PumpEnds
<1>2. relay[s].run # "over" BY <1>1 DEF HalfRule
<1>3. relay' = [relay EXCEPT ![s] = h] BY DEF PumpEnds
<1>4. /\ h \in Halves /\ h.streams = relay[s].streams \ {i} /\ h.inserted = relay[s].inserted
      /\ h.opened = relay[s].opened /\ h.announced = relay[s].announced
      /\ h.pumps = relay[s].pumps \ {i} /\ h.run = relay[s].run
  BY <1>1 DEF Halves
<1>5. m \in Messages /\ m.id = i /\ m.flag = "close"
  BY InputRelayAssumption DEF Message, Messages
<1>6. wire' = (IF i \in relay[s].streams THEN Sent(s, <<m>>) ELSE wire) BY DEF PumpEnds
<1> HIDE DEF h, m
<1>7. PICK q \in Peers : /\ PutPeer(s, i, q) /\ q.at # "up" /\ q.wrote = peer[s][i].wrote
                         /\ q.read = peer[s][i].read /\ q.got = peer[s][i].got
  BY <1>1, Closes
<1>8. PutHalf(s, h) BY <1>3, <1>4, HalfPut
<1>9. Acts(s, i, q, h) BY <1>2, <1>4, <1>7, <1>8 DEF Acts
<1>10. ~Unsent(i) /\ OpenRule(i) BY <1>1 DEF StreamRule, UnsentRule
<1>11. CASE i \in relay[s].streams /\ Linked
  <2>1. /\ wire' \in [Sides -> Seq(Messages)] /\ wire'[s] = wire[s]
        /\ wire'[Other(s)] = Append(wire[Other(s)], m)
        /\ \A u \in Sides, j \in Streams : j # i => Around(wire[u], wire'[u], j)
    BY <1>5, <1>6, <1>11, SentAdds
  <2>2. wire[Other(s)] \in Seq(Messages) BY <1>0 DEF RelayType
  <2>3. /\ NoOpen(wire[Other(s)], i) => NoOpen(wire'[Other(s)], i)
        /\ OpenHeads(wire[Other(s)], i) => OpenHeads(wire'[Other(s)], i)
    BY <1>5, <2>1, <2>2, LineShut
  <2>4. relay'[Other(s)] = relay[Other(s)] /\ relay'[s] = h BY <1>0, <1>8 DEF PutHalf
  <2>5. \A t \in Sides : peer'[t][i].read = peer[t][i].read /\ peer'[t][i].got = peer[t][i].got
    BY <1>7 DEF PutPeer
  <2>6. OpenRule(i)'
    <3>1. CASE s = "ingress"
      <4>1. Other(s) = "egress" /\ "egress" \in Sides BY <3>1 DEF Other, Sides
      <4> QED BY <1>10, <2>1, <2>3, <2>4, <2>5, <3>1, <4>1 DEF OpenRule
    <3>2. CASE s = "egress"
      <4>1. Other(s) = "ingress" BY <3>2 DEF Other
      <4>2. NoOpen(wire["egress"], i) BY <1>1, <1>10, <3>2 DEF OpenRule
      <4> QED BY <1>10, <2>1, <2>3, <3>2, <4>1, <4>2, OpenGone DEF OpenRule
    <3> QED BY <3>1, <3>2 DEF Sides
  <2>7. \A t \in Sides : Taken(t, i)' => Taken(t, i)
    BY <1>0, <1>4, <2>1, <2>3, <2>4 DEF Taken
  <2>8. ASSUME NEW t \in Sides
        PROVE  Line(wire'[t], i, Len(peer[t][i].got), peer[Other(t)][i].read, Taken(t, i)', Linked)
    <3>1. Line(wire'[t], i, Len(peer[t][i].got), peer[Other(t)][i].read, Taken(t, i), Linked)
      <4>1. /\ Line(wire[t], i, Len(peer[t][i].got), peer[Other(t)][i].read, Taken(t, i), Linked)
            /\ Len(peer[t][i].got) \in Nat /\ peer[Other(t)][i].read \in Nat /\ wire[t] \in Seq(Messages)
        BY LineKnown
      <4>2. CASE t = s BY <2>1, <4>1, <4>2
      <4>3. CASE t = Other(s)
        <5>1. m.id # i \/ m.flag # "data" BY <1>5
        <5>2. Line(Append(wire[t], m), i, Len(peer[t][i].got), peer[Other(t)][i].read, Taken(t, i), Linked)
          BY <1>5, <4>1, <5>1, LineAdds
        <5> QED BY <2>1, <4>3, <5>2
      <4> QED BY <1>0, <4>2, <4>3
    <3> QED BY <2>7, <3>1, LineLess
  <2>9. StreamRule(i)' BY <1>4, <1>7, <1>9, <1>10, <2>6, <2>8, OwnStream
  <2> QED BY <1>4, <1>9, <2>1, <2>9, ActsKeep
<1>12. CASE ~(i \in relay[s].streams /\ Linked)
  <2>1. wire' = wire BY <1>6, <1>12 DEF Sent
  <2>2. wire' \in [Sides -> Seq(Messages)] /\ \A u \in Sides, j \in Streams : Around(wire[u], wire'[u], j)
    BY <2>1 DEF RelayType, Around
  <2> QED BY <1>4, <1>7, <1>9, <2>2, ActsLess
<1> QED BY <1>11, <1>12

\* A message taken at side s, with a close sent back or not: what happens to the wires.
Took(s, i) ==
  /\ wire[s] # <<>> /\ i = Head(wire[s]).id
  /\ wire' \in [Sides -> Seq(Messages)] /\ wire'[s] = Tail(wire[s])
  /\ \/ wire'[Other(s)] = wire[Other(s)]
     \/ \E m \in Messages : m.flag = "close" /\ wire'[Other(s)] = Append(wire[Other(s)], m)
  /\ \A u \in Sides, j \in Streams : j # i => Around(wire[u], wire'[u], j)

\* A message taken from the head of the wire, with or without a close sent back, is such a step.
LEMMA Takes ==
  ASSUME RelayInv, NEW s \in Sides, wire[s] # <<>>, NEW i \in Streams, i = Head(wire[s]).id,
         \/ wire' = [wire EXCEPT ![s] = Tail(wire[s])]
         \/ wire' = [[wire EXCEPT ![s] = Tail(wire[s])]
                      EXCEPT ![Other(s)] = Append(wire[Other(s)], Message(i, "close", 0))]
  PROVE  Took(s, i)
<1>0. Other(s) \in Sides /\ Other(s) # s BY DEF Sides, Other
<1>1. CASE wire' = [wire EXCEPT ![s] = Tail(wire[s])]
  BY <1>0, <1>1, WireTakes DEF Took, RelayInv
<1>2. CASE wire' = [[wire EXCEPT ![s] = Tail(wire[s])]
                     EXCEPT ![Other(s)] = Append(wire[Other(s)], Message(i, "close", 0))]
  <2> DEFINE m == Message(i, "close", 0)
  <2>1. m \in Messages /\ m.id = i /\ m.flag = "close"
    BY InputRelayAssumption DEF Message, Messages
  <2>2. wire' = [[wire EXCEPT ![s] = Tail(wire[s])] EXCEPT ![Other(s)] = Append(wire[Other(s)], m)]
    BY <1>2
  <2> HIDE DEF m
  <2>3. /\ wire' \in [Sides -> Seq(Messages)] /\ wire'[s] = Tail(wire[s])
        /\ wire'[Other(s)] = Append(wire[Other(s)], m)
        /\ \A u \in Sides, j \in Streams : j # i => Around(wire[u], wire'[u], j)
    <3>1. RelayType BY DEF RelayInv
    <3>2. m.id = Head(wire[s]).id BY <2>1
    <3>3. wire' \in [Sides -> Seq(Messages)] /\ wire'[s] = Tail(wire[s])
          /\ wire'[Other(s)] = Append(wire[Other(s)], m)
          /\ \A u \in Sides, j \in Streams : j # Head(wire[s]).id => Around(wire[u], wire'[u], j)
      BY <2>1, <2>2, <3>1, <3>2, WireAnswers, ZenonT(40)
    <3> QED BY <3>3
  <2> QED BY <2>1, <2>3 DEF Took
<1> QED BY <1>1, <1>2

\* The opens and the other side's line after it.
LEMMA TookOther ==
  ASSUME RelayInv, NEW s \in Sides, NEW i \in Streams, Took(s, i)
  PROVE  /\ OpenRule(i)' /\ ~Unsent(i)
         /\ \A t \in Sides : NoOpen(wire'[t], i)
         /\ Line(wire'[Other(s)], i, Len(peer[Other(s)][i].got), peer[s][i].read,
                 Taken(Other(s), i), Linked)
<1>0. Other(s) \in Sides /\ Other(Other(s)) = s /\ \A t \in Sides : t = s \/ t = Other(s)
  BY DEF Sides, Other
<1>1. /\ ~Unsent(i) /\ NoOpen(wire["ingress"], i)
      /\ Head(wire[s]).flag # "open" => NoOpen(wire["egress"], i)
      /\ Head(wire[s]).flag = "open" => s = "egress"
  BY HeadIsSent DEF Took
<1>2. wire[s] \in Seq(Messages) /\ wire[Other(s)] \in Seq(Messages) BY <1>0 DEF RelayInv, RelayType
<1>3. OpenHeads(wire["egress"], i) BY DEF RelayInv, StreamRule, OpenRule
<1>4. NoOpen(wire'[s], i)
  <2>1. NoOpen(wire[s], i) => NoOpen(Tail(wire[s]), i) BY <1>2, OpensTake DEF Took
  <2>2. CASE Head(wire[s]).flag # "open" BY <1>1, <2>1, <2>2 DEF Took, Sides
  <2>3. CASE Head(wire[s]).flag = "open"
    BY <1>1, <1>2, <1>3, <2>3, OpensTake DEF Took
  <2> QED BY <2>2, <2>3
<1>5. NoOpen(wire[Other(s)], i) BY <1>1 DEF Other, Sides
<1>6. NoOpen(wire'[Other(s)], i)
  <2>1. ASSUME NEW m \in Messages, m.flag = "close"
        PROVE  NoOpen(Append(wire[Other(s)], m), i)
    BY <1>2, <1>5, <2>1, LineShut
  <2> QED BY <1>5, <2>1 DEF Took
<1>7. \A t \in Sides : NoOpen(wire'[t], i) BY <1>0, <1>4, <1>6
<1>8. OpenRule(i)'
  <2>1. NoOpen(wire'["ingress"], i) /\ NoOpen(wire'["egress"], i) BY <1>7 DEF Sides
  <2> QED BY <2>1, OpenGone
<1>9. Line(wire'[Other(s)], i, Len(peer[Other(s)][i].got), peer[s][i].read, Taken(Other(s), i), Linked)
  <2>1. /\ Line(wire[Other(s)], i, Len(peer[Other(s)][i].got), peer[s][i].read, Taken(Other(s), i), Linked)
        /\ Len(peer[Other(s)][i].got) \in Nat /\ peer[s][i].read \in Nat
    <3>1. /\ Line(wire[Other(s)], i, Len(peer[Other(s)][i].got), peer[Other(Other(s))][i].read,
                  Taken(Other(s), i), Linked)
          /\ Len(peer[Other(s)][i].got) \in Nat /\ peer[Other(Other(s))][i].read \in Nat
      BY <1>0, LineKnown, ZenonT(40)
    <3> QED BY <1>0, <3>1, ZenonT(40)
  <2>2. ASSUME NEW m \in Messages, m.flag = "close"
        PROVE  Line(Append(wire[Other(s)], m), i, Len(peer[Other(s)][i].got), peer[s][i].read,
                    Taken(Other(s), i), Linked)
    <3>1. m.id # i \/ m.flag # "data" BY <2>2
    <3> QED BY <1>2, <2>1, <3>1, LineAdds
  <2>3. \/ wire'[Other(s)] = wire[Other(s)]
        \/ \E m \in Messages : m.flag = "close" /\ wire'[Other(s)] = Append(wire[Other(s)], m)
    BY DEF Took
  <2> QED BY <2>1, <2>2, <2>3, ZenonT(40)
<1> QED BY <1>1, <1>7, <1>8, <1>9

\* A message taken for a connection that gets nothing from it, at side s.
LEMMA TookOnly ==
  ASSUME RelayInv, NEW s \in Sides, NEW i \in Streams, Took(s, i),
         NEW q \in Peers, NEW h \in Halves, Acts(s, i, q, h), i \in h.inserted => i \in relay[s].inserted,
         q.read = peer[s][i].read, q.got = peer[s][i].got, q.wrote = peer[s][i].wrote,
         i \in h.streams => Taken(s, i) /\ Head(wire[s]).flag # "data"
  PROVE  RelayInv'
<1>0. Other(s) \in Sides /\ Other(Other(s)) = s /\ Other(s) # s /\ \A t \in Sides : t = s \/ t = Other(s)
  BY DEF Sides, Other
<1>1. /\ OpenRule(i)' /\ ~Unsent(i)
      /\ \A t \in Sides : NoOpen(wire'[t], i)
      /\ Line(wire'[Other(s)], i, Len(peer[Other(s)][i].got), peer[s][i].read, Taken(Other(s), i), Linked)
  BY TookOther, ZenonT(40)
<1>2. Taken(Other(s), i)' => Taken(Other(s), i)
  <2>1. relay'[Other(s)] = relay[Other(s)] BY <1>0, ZenonT(40) DEF Acts, PutHalf
  <2>2. NoOpen(wire'[Other(s)], i) BY <1>0, <1>1, ZenonT(40)
  <2> QED BY <2>1, <2>2 DEF Taken
<1>3. Taken(s, i)' => i \in h.streams
  <2>1. relay'[s] = h BY ZenonT(40) DEF Acts, PutHalf
  <2>2. NoOpen(wire'[s], i) BY <1>1, ZenonT(40)
  <2> QED BY <2>1, <2>2 DEF Taken
<1>4. Line(wire'[Other(s)], i, Len(peer[Other(s)][i].got), peer[s][i].read, Taken(Other(s), i)', Linked)
  <2>1. Line(wire'[Other(s)], i, Len(peer[Other(s)][i].got), peer[s][i].read, Taken(Other(s), i), Linked)
    BY <1>1, ZenonT(40)
  <2> QED BY <1>2, <2>1, ZenonT(40) DEF Line
<1> DEFINE k == Len(peer[s][i].got)
           r == peer[Other(s)][i].read
<1>5. /\ Line(wire[s], i, k, r, Taken(s, i), Linked)
      /\ k \in Nat /\ r \in Nat /\ wire[s] \in Seq(Messages)
  BY LineKnown
<1> HIDE DEF k, r
<1>6. Line(wire'[s], i, k, r, Taken(s, i)', Linked)
  <2>1. CASE i \in h.streams
    <3>1. Line(Tail(wire[s]), i, k, r, Taken(s, i), Linked) BY <1>5, <2>1, LineTakes DEF Took
    <3>2. Taken(s, i)' => Taken(s, i) BY <2>1
    <3>3. Line(Tail(wire[s]), i, k, r, Taken(s, i)', Linked) BY <3>1, <3>2, LineLess
    <3> QED BY <3>3 DEF Took
  <2>2. CASE i \notin h.streams
    <3>1. Line(Tail(wire[s]), i, k, r, FALSE, Linked) BY <1>5, LineDrops DEF Took
    <3>2. Line(Tail(wire[s]), i, k, r, Taken(s, i)', Linked) BY <1>3, <2>2, <3>1, ZenonT(40) DEF Line
    <3> QED BY <3>2 DEF Took
  <2> QED BY <2>1, <2>2
<1>7. ASSUME NEW t \in Sides
      PROVE  Line(wire'[t], i, Len(peer[t][i].got), peer[Other(t)][i].read, Taken(t, i)', Linked)
  <2>1. CASE t = s BY <1>6, <2>1 DEF k, r
  <2>2. CASE t = Other(s) BY <1>0, <1>4, <2>2, ZenonT(40)
  <2> QED BY <1>0, <2>1, <2>2
<1>8. StreamRule(i)' BY <1>1, <1>7, OwnStream, ZenonT(40)
<1> QED BY <1>8, ActsKeep DEF Took

\* on_message, INPUT_CLOSE: the stream leaves the map.
LEMMA RelayOnClose ==
  ASSUME RelayInv, NEW s \in Sides, OnClose(s)
  PROVE  RelayInv'
<1> USE DEF RelayInv
<1> DEFINE i == Head(wire[s]).id
           h == [relay[s] EXCEPT !.streams = relay[s].streams \ {i}]
<1>1. /\ wire[s] # <<>> /\ Head(wire[s]).flag = "close" /\ relay[s].run # "over"
      /\ peer' = CloseLocal(peer, s, i) /\ relay' = [relay EXCEPT ![s] = h]
      /\ wire' = [wire EXCEPT ![s] = Tail(wire[s])]
  BY DEF OnClose, Receiving, Received
<1>2. i \in Streams /\ relay[s] \in Halves BY <1>1, HeadIsSent DEF RelayType
<1>3. Took(s, i) BY <1>1, <1>2, Takes
<1>4. /\ h \in Halves /\ h.streams = relay[s].streams \ {i} /\ h.inserted = relay[s].inserted
      /\ h.opened = relay[s].opened /\ h.announced = relay[s].announced
      /\ h.pumps = relay[s].pumps /\ h.run = relay[s].run
  BY <1>2 DEF Halves
<1>5. PICK q \in Peers : /\ PutPeer(s, i, q) /\ q.at # "up" /\ q.wrote = peer[s][i].wrote
                         /\ q.read = peer[s][i].read /\ q.got = peer[s][i].got
  <2> HIDE DEF i
  <2> QED BY <1>1, <1>2, Closes
<1>6. PutHalf(s, h) BY <1>1, <1>4, HalfPut
<1> HIDE DEF h
<1>7. Acts(s, i, q, h) BY <1>1, <1>4, <1>5, <1>6 DEF Acts
<1> QED BY <1>1, <1>2, <1>3, <1>4, <1>5, <1>7, TookOnly

\* A half and a connection that stay as they are.
LEMMA ActsNothing ==
  ASSUME RelayInv, NEW s \in Sides, NEW i \in Streams, peer' = peer, relay' = relay,
         relay[s].run # "over"
  PROVE  /\ peer[s][i] \in Peers /\ relay[s] \in Halves /\ Acts(s, i, peer[s][i], relay[s])
<1>1. peer[s][i] \in Peers /\ relay[s] \in Halves BY RelayTypes DEF RelayInv
<1>2. PutPeer(s, i, peer[s][i]) /\ PutHalf(s, relay[s])
  BY <1>1 DEF PutPeer, PutHalf, RelayInv, RelayType
<1>3. peer[s][i].at = "up" => i \in relay[s].streams
  <2>1. HalfRule(s) BY DEF RelayInv
  <2> QED BY <2>1 DEF HalfRule
<1> QED BY <1>1, <1>2, <1>3 DEF Acts

\* on_message, INPUT_OPEN: the pieces that follow are the first ones of the stream.
LEMMA RelayOnOpen ==
  ASSUME RelayInv, NEW s \in Sides, OnOpen(s)
  PROVE  RelayInv'
<1> USE DEF RelayInv
<1> DEFINE i == Head(wire[s]).id
<1>1. /\ s = "egress" /\ wire[s] # <<>> /\ Head(wire[s]).flag = "open" /\ relay[s].run # "over"
  BY ZenonT(40) DEF OnOpen, Receiving, Received
<1>2. /\ i \in Streams /\ relay[s] \in Halves /\ wire[s] \in Seq(Messages) /\ peer[s][i] \in Peers
  <2>1. i \in Streams BY <1>1, HeadIsSent
  <2> HIDE DEF i
  <2> QED BY <2>1, RelayTypes
<1>3. Taken(s, i)
  <2>1. ~NoOpen(wire[s], i) BY <1>1, <1>2, OpensTake, ZenonT(40)
  <2> QED BY <2>1 DEF Taken
<1>4. \/ wire' = [wire EXCEPT ![s] = Tail(wire[s])]
      \/ wire' = [[wire EXCEPT ![s] = Tail(wire[s])]
                   EXCEPT ![Other(s)] = Append(wire[Other(s)], Message(i, "close", 0))]
  <2>1. Other(s) # s BY DEF Other
  <2>2. [wire EXCEPT ![s] = Tail(wire[s])][Other(s)] = wire[Other(s)] BY <2>1 DEF RelayType, Sides, Other
  <2> QED BY <2>2, ZenonT(40) DEF OnOpen, Received
<1>5. Took(s, i)
  <2> HIDE DEF i
  <2>1. i = Head(wire[s]).id BY DEF i
  <2> QED BY <1>1, <1>2, <1>4, <2>1, Takes, ZenonT(40)
<1>6. CASE /\ relay[s].run = "up"
           /\ peer' = [peer EXCEPT ![s][i].at = "up"]
           /\ relay' = [relay EXCEPT ![s].streams = @ \union {i}, ![s].pumps = @ \union {i},
                                     ![s].opened = @ \union {i}]
  <2> DEFINE q == [peer[s][i] EXCEPT !.at = "up"]
             h == [relay[s] EXCEPT !.streams = relay[s].streams \union {i},
                                   !.pumps = relay[s].pumps \union {i},
                                   !.opened = relay[s].opened \union {i}]
  <2>1. peer' = [peer EXCEPT ![s] = [peer[s] EXCEPT ![i] = q]] /\ relay' = [relay EXCEPT ![s] = h]
    BY <1>6
  <2> HIDE DEF i
  <2>2. /\ q \in Peers /\ q.at = "up" /\ q.wrote = peer[s][i].wrote
        /\ q.read = peer[s][i].read /\ q.got = peer[s][i].got
    BY <1>2, PeerAt
  <2>3. /\ h \in Halves /\ h.streams = relay[s].streams \union {i} /\ h.inserted = relay[s].inserted
        /\ h.opened = relay[s].opened \union {i} /\ h.announced = relay[s].announced
        /\ h.pumps = relay[s].pumps \union {i} /\ h.run = relay[s].run
    BY <1>2 DEF Halves
  <2> HIDE DEF q, h
  <2>4. PutPeer(s, i, q) /\ PutHalf(s, h) BY <1>2, <2>1, <2>2, <2>3, PeerPut, HalfPut
  <2>5. Acts(s, i, q, h) BY <1>1, <2>2, <2>3, <2>4 DEF Acts
  <2>6. i = Head(wire[s]).id BY DEF i
  <2>7. Head(wire[s]).flag # "data" BY <1>1
  <2> QED BY <1>1, <1>2, <1>3, <1>5, <2>2, <2>3, <2>5, <2>6, <2>7, TookOnly, ZenonT(40)
<1>7. CASE /\ peer' = [peer EXCEPT ![s][i].at = "shut"]
           /\ relay' = [relay EXCEPT ![s].opened = @ \union {i}]
  <2> DEFINE q == [peer[s][i] EXCEPT !.at = "shut"]
             h == [relay[s] EXCEPT !.opened = relay[s].opened \union {i}]
  <2>1. peer' = [peer EXCEPT ![s] = [peer[s] EXCEPT ![i] = q]] /\ relay' = [relay EXCEPT ![s] = h]
    BY <1>7
  <2> HIDE DEF i
  <2>2. /\ q \in Peers /\ q.at = "shut" /\ q.wrote = peer[s][i].wrote
        /\ q.read = peer[s][i].read /\ q.got = peer[s][i].got
    BY <1>2, PeerAt
  <2>3. /\ h \in Halves /\ h.streams = relay[s].streams /\ h.inserted = relay[s].inserted
        /\ h.opened = relay[s].opened \union {i} /\ h.announced = relay[s].announced
        /\ h.pumps = relay[s].pumps /\ h.run = relay[s].run
    BY <1>2 DEF Halves
  <2> HIDE DEF q, h
  <2>4. PutPeer(s, i, q) /\ PutHalf(s, h) BY <1>2, <2>1, <2>2, <2>3, PeerPut, HalfPut
  <2>5. Acts(s, i, q, h) BY <1>1, <2>2, <2>3, <2>4 DEF Acts
  <2>6. i = Head(wire[s]).id BY DEF i
  <2>7. Head(wire[s]).flag # "data" BY <1>1
  <2> QED BY <1>1, <1>2, <1>3, <1>5, <2>2, <2>3, <2>5, <2>6, <2>7, TookOnly, ZenonT(40)
<1>8. CASE peer' = peer /\ relay' = relay
  <2> HIDE DEF i
  <2>1. Acts(s, i, peer[s][i], relay[s]) BY <1>1, <1>2, <1>8, ActsNothing
  <2>6. i = Head(wire[s]).id BY DEF i
  <2>7. Head(wire[s]).flag # "data" BY <1>1
  <2> QED BY <1>1, <1>2, <1>3, <1>5, <2>1, <2>6, <2>7, TookOnly, ZenonT(40)
<1> QED BY <1>6, <1>7, <1>8, ZenonT(40) DEF OnOpen, Received

\* The piece at the head of the wire is written to the peer.
Gives(s, i) ==
  /\ Took(s, i) /\ Head(wire[s]).flag = "data" /\ relay[s].run # "over" /\ i \in relay[s].streams
  /\ peer' = [peer EXCEPT ![s] = [peer[s] EXCEPT
                ![i] = [peer[s][i] EXCEPT !.got = Append(peer[s][i].got, Head(wire[s]).piece)]]]
  /\ relay' = relay

\* on_message, INPUT_DATA: the piece given to the peer is the next one.
LEMMA RelayGives ==
  ASSUME RelayInv, NEW s \in Sides, NEW i \in Streams, Gives(s, i)
  PROVE  RelayInv'
<1> DEFINE k == Len(peer[s][i].got)
           r == peer[Other(s)][i].read
           g == Append(peer[s][i].got, Head(wire[s]).piece)
           q == [peer[s][i] EXCEPT !.got = g]
<1>0. Other(s) \in Sides /\ Other(Other(s)) = s /\ Other(s) # s /\ \A t \in Sides : t = s \/ t = Other(s)
  BY DEF Sides, Other
<1>1. /\ Line(wire[s], i, k, r, Taken(s, i), Linked)
      /\ k \in Nat /\ r \in Nat /\ wire[s] \in Seq(Messages)
      /\ peer[s][i] \in Peers /\ relay[s] \in Halves
  BY LineKnown
<1>2. Taken(s, i) /\ Took(s, i) BY DEF Taken, Gives
<1>3. Head(wire[s]).piece = k + 1 /\ Line(Tail(wire[s]), i, k + 1, r, TRUE, Linked)
  <2> HIDE DEF k, r
  <2>1. Line(wire[s], i, k, r, TRUE, Linked) BY <1>1, <1>2 DEF Line
  <2>2. wire[s] # <<>> /\ Head(wire[s]).id = i /\ Head(wire[s]).flag = "data" BY DEF Gives, Took
  <2> DEFINE w == wire[s]
             l == Linked
  <2>3. w \in Seq(Messages) /\ k \in Nat /\ r \in Nat /\ Line(w, i, k, r, TRUE, l)
    BY <1>1, <2>1
  <2>4. w # <<>> /\ Head(w).id = i /\ Head(w).flag = "data" BY <2>2
  <2> HIDE DEF w, l
  <2>5. Head(w).piece = k + 1 /\ Line(Tail(w), i, k + 1, r, TRUE, l) BY <2>3, <2>4, LineGives
  <2> QED BY <2>5 DEF w, l
<1>4. r \in Counts /\ k + 1 <= r
  <2>1. r \in Counts BY <1>0, RelayTypes DEF RelayInv, Peers
  <2> QED BY <1>3, <2>1 DEF Line
<1>5. g \in Pieces /\ Len(g) = k + 1 /\ \A n \in 1..(k + 1) : g[n] = n
  <2>1. peer[s][i].got \in Seq(1..MaxBytes) BY <1>1 DEF Peers, Pieces
  <2>2. k + 1 \in 1..MaxBytes
    <3> HIDE DEF k, r
    <3> QED BY <1>1, <1>4, InputRelayAssumption DEF Counts
  <2>3. \A n \in 1..k : peer[s][i].got[n] = n BY DEF RelayInv, StreamRule, PeerRule
  <2>4. g = Append(peer[s][i].got, k + 1) BY <1>3
  <2> DEFINE old == peer[s][i].got
  <2> HIDE DEF old
  <2>5. old \in Seq(1..MaxBytes) /\ k = Len(old) /\ g = Append(old, k + 1) /\ \A n \in 1..k : old[n] = n
    BY <2>1, <2>3, <2>4 DEF old
  <2> HIDE DEF g, k
  <2> QED BY <1>1, <2>2, <2>5 DEF Pieces
<1> HIDE DEF g, k, r
<1>6. /\ q \in Peers /\ q.got = g /\ q.read = peer[s][i].read /\ q.wrote = peer[s][i].wrote
      /\ q.at = peer[s][i].at
  BY <1>1, <1>5 DEF Peers
<1>7. peer' = [peer EXCEPT ![s] = [peer[s] EXCEPT ![i] = q]] BY DEF g, Gives
<1> HIDE DEF q
<1>8. PutPeer(s, i, q) /\ PutHalf(s, relay[s])
  <2>1. RelayType BY DEF RelayInv
  <2>2. PutPeer(s, i, q) BY <1>6, <1>7, <2>1, PeerPut, ZenonT(40)
  <2>3. relay' = relay BY DEF Gives
  <2> QED BY <1>1, <2>1, <2>2, <2>3 DEF PutHalf, RelayType
<1>9. Acts(s, i, q, relay[s])
  <2>1. i \in relay[s].streams /\ relay[s].run # "over" BY DEF Gives
  <2> QED BY <1>6, <1>8, <2>1 DEF Acts
<1>10. /\ OpenRule(i)' /\ ~Unsent(i)
       /\ \A t \in Sides : NoOpen(wire'[t], i)
       /\ Line(wire'[Other(s)], i, Len(peer[Other(s)][i].got), peer[s][i].read, Taken(Other(s), i), Linked)
  BY <1>2, TookOther
<1>11. UnsentRule(i)' BY <1>1, <1>6, <1>9, <1>10, SentStays, ZenonT(40)
<1>12. peer'[s][i] = q /\ peer'[Other(s)][i] = peer[Other(s)][i] BY <1>0, <1>8 DEF PutPeer
<1>13. relay' = relay /\ (Linked' <=> Linked) BY DEF Linked, Gives
<1>14. LineRule(s, i)'
  <2>1. Line(wire'[s], i, k + 1, r, TRUE, Linked) BY <1>2, <1>3 DEF Took
  <2>2. Len(peer'[s][i].got) = k + 1 /\ peer'[Other(s)][i].read = r BY <1>5, <1>6, <1>12 DEF r
  <2> QED BY <1>13, <2>1, <2>2, LineMoves
<1>15. LineRule(Other(s), i)'
  <2>1. Taken(Other(s), i)' => Taken(Other(s), i)
    <3>1. NoOpen(wire'[Other(s)], i) BY <1>0, <1>10, ZenonT(40)
    <3> QED BY <1>13, <3>1 DEF Taken
  <2>2. peer'[Other(s)][i].got = peer[Other(s)][i].got /\ peer'[Other(Other(s))][i].read = peer[s][i].read
    BY <1>0, <1>6, <1>12
  <2> QED BY <1>0, <1>10, <1>13, <2>1, <2>2, LineMoves
<1>16. PeerRule(peer'[s][i]) /\ PeerRule(peer'[Other(s)][i])
  <2>1. PeerRule(peer[s][i]) /\ PeerRule(peer[Other(s)][i]) BY <1>0 DEF RelayInv, StreamRule
  <2>2. PeerRule(q) BY <1>5, <1>6, <2>1 DEF PeerRule
  <2> QED BY <1>12, <2>1, <2>2
<1>17. \A t \in Sides : LineRule(t, i)' BY <1>0, <1>14, <1>15
<1>18. \A t \in Sides : PeerRule(peer'[t][i]) BY <1>0, <1>16
<1>19. StreamRule(i)' BY <1>10, <1>11, <1>17, <1>18 DEF StreamRule, PeerRule
<1> QED BY <1>1, <1>2, <1>6, <1>9, <1>19, ActsKeep DEF Took

\* on_message, INPUT_DATA: given, cut or ignored.
LEMMA RelayOnData ==
  ASSUME RelayInv, NEW s \in Sides, OnData(s)
  PROVE  RelayInv'
<1> USE DEF RelayInv
<1> DEFINE i == Head(wire[s]).id
<1>1. wire[s] # <<>> /\ Head(wire[s]).flag = "data" /\ relay[s].run # "over"
  BY ZenonT(40) DEF OnData, Receiving, Received
<1>2. i \in Streams /\ relay[s] \in Halves /\ peer[s][i] \in Peers
  <2>1. i \in Streams BY <1>1, HeadIsSent
  <2> HIDE DEF i
  <2> QED BY <2>1, RelayTypes
<1>4. \/ wire' = [wire EXCEPT ![s] = Tail(wire[s])]
      \/ wire' = [[wire EXCEPT ![s] = Tail(wire[s])]
                   EXCEPT ![Other(s)] = Append(wire[Other(s)], Message(i, "close", 0))]
  <2>1. Other(s) # s BY DEF Other
  <2>2. [wire EXCEPT ![s] = Tail(wire[s])][Other(s)] = wire[Other(s)] BY <2>1 DEF RelayType, Sides, Other
  <2> QED BY <2>2, ZenonT(40) DEF OnData, Received
<1>5. Took(s, i)
  <2> HIDE DEF i
  <2>1. i = Head(wire[s]).id BY DEF i
  <2> QED BY <1>1, <1>2, <1>4, <2>1, Takes, ZenonT(40)
<1>6. CASE /\ i \in relay[s].streams /\ relay' = relay
           /\ peer' = [peer EXCEPT ![s][i].got = Append(@, Head(wire[s]).piece)]
  <2>1. Gives(s, i) BY <1>1, <1>5, <1>6 DEF Gives
  <2> HIDE DEF i
  <2> QED BY <1>2, <2>1, RelayGives, ZenonT(40)
<1>7. CASE /\ i \in relay[s].streams /\ peer' = CloseLocal(peer, s, i)
           /\ relay' = [relay EXCEPT ![s].streams = @ \ {i}]
  <2> DEFINE h == [relay[s] EXCEPT !.streams = relay[s].streams \ {i}]
  <2>1. relay' = [relay EXCEPT ![s] = h] BY <1>7
  <2> HIDE DEF i
  <2>2. /\ h \in Halves /\ h.streams = relay[s].streams \ {i} /\ h.inserted = relay[s].inserted
        /\ h.opened = relay[s].opened /\ h.announced = relay[s].announced
        /\ h.pumps = relay[s].pumps /\ h.run = relay[s].run
    BY <1>2 DEF Halves
  <2> HIDE DEF h
  <2>3. PICK q \in Peers : /\ PutPeer(s, i, q) /\ q.at # "up" /\ q.wrote = peer[s][i].wrote
                           /\ q.read = peer[s][i].read /\ q.got = peer[s][i].got
    BY <1>2, <1>7, Closes
  <2>4. PutHalf(s, h) BY <2>1, <2>2, HalfPut
  <2>5. Acts(s, i, q, h) BY <1>1, <2>2, <2>3, <2>4 DEF Acts
  <2> QED BY <1>2, <1>5, <2>2, <2>3, <2>5, TookOnly
<1>8. CASE i \notin relay[s].streams /\ peer' = peer /\ relay' = relay
  <2> HIDE DEF i
  <2>1. Acts(s, i, peer[s][i], relay[s]) BY <1>1, <1>2, <1>8, ActsNothing
  <2> QED BY <1>2, <1>5, <1>8, <2>1, TookOnly
<1> QED BY <1>6, <1>7, <1>8, ZenonT(40) DEF OnData, Received

\* shutdown: the half's streams are closed and its wire is no longer read.
LEMMA RelayShutdown ==
  ASSUME RelayInv, NEW s \in Sides, ShutdownRelay(s)
  PROVE  RelayInv'
<1> USE DEF RelayInv
<1> DEFINE p == [i \in Streams |->
                  IF i \in relay[s].streams THEN [peer[s][i] EXCEPT !.at = "shut"] ELSE peer[s][i]]
           h == [relay[s] EXCEPT !.run = "over", !.streams = {}, !.pumps = {}]
<1>0. Other(s) \in Sides /\ Other(s) # s /\ (\A t \in Sides : t = s \/ t = Other(s)) /\ "ingress" \in Sides
  BY DEF Sides, Other
<1>1. /\ peer' = [peer EXCEPT ![s] = p] /\ relay' = [relay EXCEPT ![s] = h]
      /\ wire' = [wire EXCEPT ![s] = <<>>] /\ (s = "ingress" => Attaching = {})
  BY DEF ShutdownRelay
<1>2. \A i \in Streams : /\ p[i] \in Peers /\ p[i].read = peer[s][i].read /\ p[i].got = peer[s][i].got
                         /\ p[i].wrote = peer[s][i].wrote /\ p[i].at # "up"
  <2> SUFFICES ASSUME NEW i \in Streams
               PROVE  /\ p[i] \in Peers /\ p[i].read = peer[s][i].read /\ p[i].got = peer[s][i].got
                      /\ p[i].wrote = peer[s][i].wrote /\ p[i].at # "up"
    OBVIOUS
  <2>1. peer[s][i] \in Peers BY RelayTypes
  <2>2. CASE i \in relay[s].streams
    <3>1. p[i] = [peer[s][i] EXCEPT !.at = "shut"] BY <2>2
    <3> QED BY <2>1, <3>1, PeerAt
  <2>3. CASE i \notin relay[s].streams
    <3>1. p[i] = peer[s][i] BY <2>3
    <3>2. HalfRule(s) OBVIOUS
    <3>3. peer[s][i].at # "up" BY <2>3, <3>2 DEF HalfRule
    <3> QED BY <2>1, <3>1, <3>3
  <2> QED BY <2>2, <2>3
<1>3. p \in [Streams -> Peers]
  <2>1. p = [i \in Streams |-> p[i]] OBVIOUS
  <2> HIDE DEF p
  <2> QED BY <1>2, <2>1
<1>4. relay[s] \in Halves BY DEF RelayType
<1>5. /\ h \in Halves /\ h.streams = {} /\ h.inserted = relay[s].inserted
      /\ h.opened = relay[s].opened /\ h.announced = relay[s].announced
      /\ h.pumps = {} /\ h.run = "over"
  BY <1>4 DEF Halves
<1> HIDE DEF p, h
<1>6. peer' \in [Sides -> [Streams -> Peers]] /\ peer'[s] = p /\ peer'[Other(s)] = peer[Other(s)]
  BY <1>0, <1>1, <1>3 DEF RelayType
<1>7. relay' \in [Sides -> Halves] /\ relay'[s] = h /\ relay'[Other(s)] = relay[Other(s)]
  BY <1>0, <1>1, <1>5 DEF RelayType
<1>8. wire' \in [Sides -> Seq(Messages)] /\ wire'[s] = <<>> /\ wire'[Other(s)] = wire[Other(s)]
  <2>1. <<>> \in Seq(Messages) OBVIOUS
  <2> QED BY <1>0, <1>1, <2>1 DEF RelayType
<1>9. RelayType' BY <1>6, <1>7, <1>8 DEF RelayType
<1>10. ~Linked' BY <1>5, <1>7 DEF Linked
<1>11. \A i \in Streams : Silent(wire'[s], i) BY <1>8 DEF Silent, IdAt
<1>12. ASSUME NEW i \in Streams PROVE StreamRule(i)'
  <2>1. UnsentRule(i) /\ OpenRule(i) BY DEF StreamRule
  <2>2. \A t \in Sides : /\ peer'[t][i].read = peer[t][i].read /\ peer'[t][i].got = peer[t][i].got
                         /\ peer'[t][i].wrote = peer[t][i].wrote
    BY <1>0, <1>2, <1>6
  <2>3. \A t \in Sides : /\ i \in relay'[t].streams => i \in relay[t].streams
                         /\ i \in relay'[t].pumps => i \in relay[t].pumps
                         /\ relay'[t].opened = relay[t].opened
                         /\ relay'[t].inserted = relay[t].inserted
                         /\ relay'[t].announced = relay[t].announced
    BY <1>0, <1>5, <1>7
  <2>4. \A t \in Sides : (Silent(wire[t], i) => Silent(wire'[t], i)) /\ (NoOpen(wire[t], i) => NoOpen(wire'[t], i))
    <3>1. NoOpen(wire'[s], i) BY <1>11 DEF NoOpen, Silent, OpenAt
    <3> QED BY <1>0, <1>8, <1>11, <3>1
  <2>5. UnsentRule(i)' BY <2>1, <2>2, <2>3, <2>4 DEF UnsentRule, Unsent, Sides
  <2>6. OpenHeads(wire'["egress"], i)
    <3>1. CASE s = "egress" BY <1>11, <3>1 DEF OpenHeads, Silent, OpenAt
    <3>2. CASE s # "egress"
      <4>1. Other(s) = "egress" BY <3>2 DEF Other, Sides
      <4> QED BY <1>8, <2>1, <4>1 DEF OpenRule
    <3> QED BY <3>1, <3>2
  <2>7. OpenRule(i)' BY <2>1, <2>2, <2>3, <2>4, <2>6 DEF OpenRule, Sides
  <2>8. LineRule(s, i)'
    <3>1. Len(peer[s][i].got) <= peer[Other(s)][i].read
      BY LineKnown DEF Line
    <3>2. Len(peer[s][i].got) \in Nat /\ peer[Other(s)][i].read \in Nat BY LineKnown
    <3>3. Line(wire'[s], i, Len(peer[s][i].got), peer[Other(s)][i].read, Taken(s, i)', Linked')
      BY <1>10, <1>11, <3>1, <3>2, LineEmpty
    <3> QED BY <1>0, <2>2, <3>3, LineMoves
  <2>9. LineRule(Other(s), i)'
    <3>1. Taken(Other(s), i)' => Taken(Other(s), i) BY <1>0, <2>3, <2>4 DEF Taken
    <3>2. Other(Other(s)) = s BY DEF Other, Sides
    <3>3. LineRule(Other(s), i) BY <1>0 DEF StreamRule
    <3> QED BY <1>0, <1>8, <1>10, <2>2, <3>1, <3>2, <3>3, LineStays
  <2>10. \A t \in Sides : LineRule(t, i)' BY <1>0, <2>8, <2>9
  <2>11. \A t \in Sides : PeerRule(peer[t][i])' BY <2>2 DEF PeerRule, StreamRule
  <2> QED BY <2>5, <2>7, <2>10, <2>11 DEF StreamRule
<1>13. ASSUME NEW t \in Sides PROVE HalfRule(t)'
  <2>1. CASE t = s
    <3>1. \A i \in Streams : peer'[t][i].at # "up" BY <1>2, <1>6, <2>1
    <3>2. t = "ingress" => Attaching' = {} BY <1>1, <1>5, <1>7, <2>1 DEF Attaching
    <3> QED BY <1>5, <1>7, <2>1, <3>1, <3>2 DEF HalfRule
  <2>2. CASE t = Other(s)
    <3>1. HalfRule(t) OBVIOUS
    <3>2. peer'[t] = peer[t] /\ relay'[t] = relay[t] BY <1>6, <1>7, <2>2
    <3> QED BY <3>1, <3>2 DEF HalfRule, Attaching
  <2> QED BY <1>0, <2>1, <2>2
<1> QED BY <1>9, <1>12, <1>13

\* The relay starts, or is over from the start, with nothing on its wires.
LEMMA RelayBegins ==
  ASSUME RelayInit \/ RelayOver
  PROVE  RelayInv
<1>1. /\ peer = [s \in Sides |-> [i \in Streams |-> NoPeer]]
      /\ \E run \in {"up", "over"} :
           relay = [s \in Sides |-> [streams |-> {}, inserted |-> {}, announced |-> {}, opened |-> {},
                                     pumps |-> {}, run |-> run]]
      /\ wire = [s \in Sides |-> <<>>]
  BY DEF RelayInit, RelayOver
<1>2. NoPeer \in Peers
  BY InputRelayAssumption DEF NoPeer, Peers, Counts, Pieces
<1>3. RelayType
  BY <1>1, <1>2 DEF RelayType, Halves
<1>4. ASSUME NEW i \in Streams PROVE StreamRule(i)
  <2>1. \A s \in Sides : /\ wire[s] = <<>> /\ peer[s][i] = NoPeer /\ i \notin relay[s].pumps
                         /\ i \notin relay[s].streams /\ i \notin relay[s].opened
                         /\ i \notin relay[s].inserted /\ i \notin relay[s].announced
    BY <1>1
  <2>2. \A s \in Sides : Silent(wire[s], i) /\ NoOpen(wire[s], i) /\ OpenHeads(wire[s], i)
    BY <2>1 DEF Silent, NoOpen, OpenHeads, OpenAt, IdAt
  <2>3. UnsentRule(i) BY <2>1, <2>2 DEF UnsentRule, NoPeer, Sides
  <2>4. OpenRule(i) BY <2>1, <2>2 DEF OpenRule, Sides
  <2>5. ASSUME NEW s \in Sides PROVE LineRule(s, i)
    <3>1. Len(peer[s][i].got) = 0 /\ peer[Other(s)][i].read = 0
      BY <2>1 DEF NoPeer, Other, Sides
    <3>2. Line(wire[s], i, 0, 0, Taken(s, i), Linked) BY <2>2, LineEmpty
    <3> QED BY <3>1, <3>2 DEF LineRule
  <2>6. \A s \in Sides : PeerRule(peer[s][i]) BY <2>1 DEF PeerRule, NoPeer
  <2> QED BY <2>3, <2>4, <2>5, <2>6 DEF StreamRule
<1>5. \A s \in Sides : HalfRule(s)
  BY <1>1 DEF HalfRule, NoPeer, Attaching
<1> QED BY <1>3, <1>4, <1>5 DEF RelayInv

\* Every step of the relay keeps its invariant.
LEMMA RelayKeeps ==
  ASSUME RelayInv, RelayNext
  PROVE  RelayInv'
<1>0. "ingress" \in Sides BY DEF Sides
<1>1. ASSUME NEW i \in Streams, Connect(i) \/ Accept(i) \/ SendOpen(i) \/ StartPump(i) PROVE RelayInv'
  BY <1>0, <1>1, RelayPeers, RelayAccept, RelaySendOpen, RelayStartPump
<1>2. ASSUME NEW s \in Sides, NEW i \in Streams,
             Write(s, i) \/ HangUp(s, i) \/ PumpData(s, i) \/ PumpEnds(s, i)
      PROVE  RelayInv'
  BY <1>2, RelayPeers, RelayPumpData, RelayPumpEnds
<1>3. ASSUME NEW s \in Sides, OnOpen(s) \/ OnData(s) \/ OnClose(s) PROVE RelayInv'
  BY <1>3, RelayOnOpen, RelayOnData, RelayOnClose
<1>4. ASSUME NEW s \in Sides, StopRelay(s) \/ PeerGone(s) \/ CloseRelay(s) \/ ShutdownRelay(s)
      PROVE  RelayInv'
  BY <1>4, RelayStops, RelayShutdown
<1> QED BY <1>1, <1>2, <1>3, <1>4 DEF RelayNext

-----------------------------------------------------------------------------
(* The CPU publication's steps.                                            *)

\* Every step of the publication keeps its invariant.
LEMMA CpuKeeps ==
  ASSUME CpuInv, CpuNext
  PROVE  CpuInv'
<1> USE DEF CpuInv, CpuType
<1>1. ASSUME NEW size \in Payloads, Publish(size) PROVE CpuInv'
  BY <1>1 DEF Publish
<1>2. CASE Maintain BY <1>2 DEF Maintain
<1>3. CASE Acquire BY <1>3 DEF Acquire
<1>4. CASE Release BY <1>4 DEF Release
<1>5. ASSUME NEW c \in Readers, AcceptReader(c) PROVE CpuInv'
  BY <1>5 DEF AcceptReader
<1>6. ASSUME NEW c \in Readers, SetupEnds(c) PROVE CpuInv'
  BY <1>6 DEF SetupEnds
<1>7. CASE StopAccepting BY <1>7 DEF StopAccepting
<1>8. CASE JoinAccept BY <1>8 DEF JoinAccept
<1>9. CASE ShutSetups BY <1>9 DEF ShutSetups
<1>10. CASE JoinSetups BY <1>10 DEF JoinSetups
<1>11. CASE DrainArena BY <1>11 DEF DrainArena
<1> QED BY <1>1, <1>2, <1>3, <1>4, <1>5, <1>6, <1>7, <1>8, <1>9, <1>10, <1>11 DEF CpuNext

\* The publication starts, or is over from the start.
LEMMA CpuBegins ==
  ASSUME CpuInit \/ CpuOver
  PROVE  CpuInv
<1>2. PICK size \in Payloads \union {1} :
        \/ cpu = [run |-> "up", installed |-> size, pending |-> 0, arena |-> size, held |-> FALSE,
                  accepting |-> TRUE]
        \/ cpu = [run |-> "over", installed |-> size, pending |-> 0, arena |-> size, held |-> FALSE,
                  accepting |-> FALSE]
  <2>1. CASE CpuInit BY <2>1 DEF CpuInit, NewCpu
  <2>2. CASE CpuOver
    <3>1. 1 \in Payloads \union {1} OBVIOUS
    <3>2. cpu = [run |-> "over", installed |-> 1, pending |-> 0, arena |-> 1, held |-> FALSE,
                 accepting |-> FALSE]
      BY <2>2 DEF CpuOver, NewCpu
    <3> QED BY <3>1, <3>2
  <2> QED BY <2>1, <2>2
<1>3. setups = [c \in Readers |-> "none"] BY DEF CpuInit, CpuOver
<1>4. CpuType
  <2>1. 0 \in Payloads \union {0} OBVIOUS
  <2> DEFINE none == 0
             waits == Payloads \union {0}
             sizes == Payloads \union {1}
  <2>2. /\ none \in waits /\ size \in sizes
        /\ \E run \in {"up", "over"}, a \in BOOLEAN :
             cpu = [run |-> run, installed |-> size, pending |-> none, arena |-> size, held |-> FALSE,
                    accepting |-> a]
    BY <1>2, <2>1
  <2> HIDE DEF none, waits, sizes
  <2>3. cpu \in [run: {"up", "stopping", "joining", "draining", "over"}, installed: sizes,
                 pending: waits, arena: sizes, held: BOOLEAN, accepting: BOOLEAN]
    BY <2>2
  <2> QED BY <1>3, <2>3 DEF CpuType, waits, sizes
<1> QED BY <1>2, <1>3, <1>4 DEF CpuInv

-----------------------------------------------------------------------------
(* The relay and the publication of a link.                                *)

\* Nothing that belongs to the relay changes with its variables unchanged.
LEMMA RelayRests ==
  ASSUME RelayInv, UNCHANGED relayVars
  PROVE  RelayInv'
<1>1. peer' = peer /\ relay' = relay /\ wire' = wire BY DEF relayVars
<1>2. \A i \in Streams : Untouched(i)
  <2>1. \A t \in Sides, j \in Streams : peer[t][j].wrote <= peer[t][j].wrote
    BY RelayTypes DEF RelayInv
  <2> QED BY <1>1, <2>1 DEF Untouched, Around, Linked
<1>3. RelayType' BY <1>1 DEF RelayInv, RelayType
<1>4. \A s \in Sides : HalfRule(s)' BY <1>1 DEF RelayInv, HalfRule, Attaching
<1> QED BY <1>2, <1>3, <1>4, AllElsewhere

\* Nothing that belongs to the publication changes with its variables unchanged.
LEMMA CpuRests ==
  ASSUME CpuInv, UNCHANGED cpuVars
  PROVE  CpuInv'
  BY DEF CpuInv, CpuType, cpuVars

\* What the relay's invariant says of the streams.
LEMMA RelayShows ==
  ASSUME RelayInv
  PROVE  RelayTypeOK /\ NoHoleInAStream /\ NothingAfterShutdown
<1>1. RelayTypeOK
  <2>1. ASSUME NEW s \in Sides, NEW n \in DOMAIN wire[s] PROVE wire[s][n] \in Messages
    <3>1. wire[s] \in Seq(Messages) BY DEF RelayInv, RelayType
    <3> QED BY <3>1
  <2>2. /\ peer \in [Sides -> [Streams -> Peers]] /\ relay \in [Sides -> Halves]
        /\ \A s \in Sides : \A n \in DOMAIN wire[s] : wire[s][n] \in Messages
    BY <2>1 DEF RelayInv, RelayType
  <2> QED BY <2>2, ZenonT(40) DEF RelayTypeOK, Peers, Halves, Messages, Counts, Pieces
<1>2. ASSUME NEW s \in Sides, NEW i \in Streams
      PROVE  /\ \A n \in DOMAIN peer[s][i].got : peer[s][i].got[n] = n
             /\ Len(peer[s][i].got) <= peer[Other(s)][i].wrote
  <2>0. Other(s) \in Sides BY DEF Other, Sides
  <2>1. PeerRule(peer[s][i]) /\ PeerRule(peer[Other(s)][i]) BY <2>0 DEF RelayInv, StreamRule
  <2>2. peer[s][i].got \in Seq(Nat) /\ peer[Other(s)][i].wrote \in Nat /\ peer[Other(s)][i].read \in Nat
    BY <2>0, RelayTypes DEF RelayInv
  <2>3. Len(peer[s][i].got) <= peer[Other(s)][i].read BY LineKnown DEF Line
  <2>4. DOMAIN peer[s][i].got = 1..Len(peer[s][i].got) /\ Len(peer[s][i].got) \in Nat BY <2>2
  <2>5. Len(peer[s][i].got) <= peer[Other(s)][i].wrote BY <2>1, <2>2, <2>3, <2>4 DEF PeerRule
  <2> QED BY <2>1, <2>4, <2>5 DEF PeerRule
<1>3. NothingAfterShutdown
  <2>1. \A s \in Sides : HalfRule(s) /\ relay[s].opened \subseteq Streams
    <3>1. \A s \in Sides : relay[s] \in Halves BY DEF RelayInv, RelayType
    <3> QED BY <3>1 DEF RelayInv, Halves
  <2> QED BY <2>1 DEF HalfRule, NothingAfterShutdown
<1> QED BY <1>1, <1>2, <1>3 DEF NoHoleInAStream

\* Nothing is lost between the two ends: for any number of connections and pieces, a local
\* peer of the input relay is given the beginning of what the other end wrote, a half that is
\* over carries nothing, and the CPU publication writes into the arena its readers map and
\* serves none of them after its shutdown (input_relay.rs, cpu_publication.rs).
THEOREM RelayLosesNothing == Spec => []NothingLostBetween
<1> DEFINE Both == RelayInv /\ CpuInv
<1>1. Spec => []Both
  <2> DEFINE Step == \/ VideoNext /\ UNCHANGED <<relayVars, cpuVars>>
                     \/ RelayNext /\ UNCHANGED <<videoVars, cpuVars>>
                     \/ CpuNext /\ UNCHANGED <<videoVars, relayVars>>
             Start == \/ VideoInit /\ RelayOver /\ CpuOver
                      \/ VideoOver /\ RelayInit /\ CpuOver
                      \/ VideoOver /\ RelayOver /\ CpuInit
  <2>1. Start => Both BY RelayBegins, CpuBegins
  <2>2. Both /\ [Step]_<<videoVars, relayVars, cpuVars>> => Both'
    <3> SUFFICES ASSUME Both, [Step]_<<videoVars, relayVars, cpuVars>> PROVE Both'
      OBVIOUS
    <3>1. CASE RelayNext /\ UNCHANGED <<videoVars, cpuVars>>
      BY <3>1, RelayKeeps, CpuRests
    <3>2. CASE CpuNext /\ UNCHANGED <<videoVars, relayVars>>
      BY <3>2, CpuKeeps, RelayRests
    <3>3. CASE UNCHANGED <<relayVars, cpuVars>>
      BY <3>3, CpuRests, RelayRests
    <3> QED BY <3>1, <3>2, <3>3
  <2> QED BY <2>1, <2>2, PTL DEF Spec
<1>2. Both => NothingLostBetween
  BY RelayShows DEF NothingLostBetween, CpuInv, InstalledIsTheArena, NoSetupAfterShutdown
<1> QED BY <1>1, <1>2, PTL

-----------------------------------------------------------------------------
(* The video of a link.                                                    *)

Numbers == 0..MaxFrames
Widths == Sizes \union {0}
Inputs == Seq([key: BOOLEAN, size: Sizes])
Slots == Seq(Frames)
Packets == [kind: {"config", "frame"}, frame: Frames]
EgressRuns == {"hello", "peer", "up", "flush", "submit", "drain", "over"}
IngressRuns == {"hello", "up", "drain", "over"}
Policies == {"Prefer444", "Always420"}
Offered == SUBSET {"444", "420"}
Notes == [kind: {"hello", "answer"}, policy: Policies, caps: Offered]
         \union [kind: {"target"}, limit: BOOLEAN] \union [kind: {"key"}]
Egresses == [run: EgressRuns, stop: BOOLEAN, policy: Policies, mine: Offered, dec: Chromas,
             taken: Numbers, cur: Widths, size: Widths, force: BOOLEAN,
             asked: BOOLEAN, limit: BOOLEAN, enc: Inputs, base: Numbers, seq: Numbers,
             keyslot: Slots, delta: Slots, lost: BOOLEAN]
Asks == 0..MaxAsks
Ingresses == [run: IngressRuns, stop: BOOLEAN, dec: Chromas, target: BOOLEAN,
              last: Numbers, waiting: BOOLEAN, cfg: Widths, requests: Asks, queue: Slots,
              prev: Numbers, fed: Frames]

\* The types of the two halves and of what is between them.
VideoType ==
  eg \in Egresses /\ ing \in Ingresses /\ media \in Seq(Packets) /\ ctl \in Seq(Notes)

\* The control connection through the hello: the decision the ingress took is the one the
\* egress will take, and afterwards only targets and requests are sent.
CtlRule ==
  /\ eg.run = "hello" => ctl = <<>> /\ ing.run # "up"
  /\ eg.run = "peer" =>
       /\ Len(ctl) = 1 /\ ctl[1].kind \in {"hello", "answer"}
       /\ ctl[1].kind = "hello" => ing.run # "up" /\ ctl[1].policy = eg.policy /\ ctl[1].caps = eg.mine
       /\ ctl[1].kind = "answer" =>
            /\ ing.run # "hello"
            /\ ing.run = "up" => ing.dec = Decide(eg.policy, eg.mine, ctl[1].caps)
  /\ eg.run \in {"up", "flush", "submit", "drain"} =>
       ing.run # "hello" /\ \A n \in 1..Len(ctl) : ctl[n].kind \in {"target", "key"}
  /\ ing.run = "hello" => media = <<>>
  /\ SameDecision

\* A half that has no encoder yet, or none any more, has nothing in it; the encoder
\* numbers its outputs, no more than frames were taken; the sender's slots hold a keyframe and
\* the delta after it.
EgressRule(e) ==
  /\ e.run \in {"hello", "peer", "over"} => e.force /\ e.enc = <<>> /\ e.keyslot = <<>> /\ e.delta = <<>>
  /\ e.run \in {"flush", "submit"} => e.cur \in Sizes /\ e.seq + Len(e.enc) + 1 <= e.taken
  /\ e.seq + Len(e.enc) <= e.taken
  /\ e.base \in {0, e.seq}
  /\ e.keyslot # <<>> => /\ Len(e.keyslot) = 1 /\ e.keyslot[1].key /\ e.keyslot[1].size \in Sizes
                         /\ e.keyslot[1].seq >= 1 /\ e.keyslot[1].seq <= e.seq
  /\ e.delta # <<>> => /\ Len(e.delta) = 1 /\ ~e.delta[1].key /\ e.delta[1].size \in Sizes
                       /\ e.delta[1].base + 1 = e.delta[1].seq /\ e.delta[1].seq <= e.seq
  /\ e.keyslot # <<>> /\ e.delta # <<>> => e.keyslot[1].seq < e.delta[1].seq

\* Everything from x on comes after the packets of m.
Before(m, x) == \A n \in 1..Len(m) : m[n].frame.seq < x

\* The packets of a media connection: in the encoder's order, a configuration directly before
\* its keyframe, a delta one after the frame it refers to.
PacketRule(m) ==
  /\ \A n \in 1..Len(m) : m[n].frame.size \in Sizes
  /\ \A n \in 1..Len(m) : m[n].kind = "frame" /\ ~m[n].frame.key => m[n].frame.base + 1 = m[n].frame.seq
  /\ \A n \in 1..Len(m), k \in 1..Len(m) : n < k =>
       m[n].frame.seq <= m[k].frame.seq /\ (m[n].kind = "frame" => m[n].frame.seq < m[k].frame.seq)
  /\ \A n \in 1..Len(m) : m[n].kind = "config" =>
       n + 1 <= Len(m) /\ m[n].frame.key /\ m[n + 1] = [kind |-> "frame", frame |-> m[n].frame]
  /\ \A n \in 1..Len(m) : m[n].kind = "frame" /\ m[n].frame.key /\ n # 1 => m[n - 1].kind = "config"

\* What is read, on the connection, in the sender's slots and encoded follow each other.
OrderRule ==
  /\ \A n \in 1..Len(media) : media[n].frame.seq > ing.last
  /\ eg.run # "over" => ing.last <= eg.seq /\ \A n \in 1..Len(media) : media[n].frame.seq <= eg.seq
  /\ eg.keyslot # <<>> => ing.last < eg.keyslot[1].seq /\ Before(media, eg.keyslot[1].seq)
  /\ eg.delta # <<>> => ing.last < eg.delta[1].seq /\ Before(media, eg.delta[1].seq)

\* The viewer waits until it is fed from a keyframe on; its decoder exists before.
FeedRule ==
  /\ ing.cfg = 0 => ing.waiting
  /\ ~ing.waiting => ing.fed.seq = ing.last /\ ing.last >= 1
  /\ ing.run = "up" /\ media # <<>> /\ media[1].kind = "frame" /\ media[1].frame.key => ing.cfg # 0
  /\ ReferencesFed

VideoInv ==
  /\ VideoType /\ CtlRule /\ EgressRule(eg) /\ PacketRule(media) /\ OrderRule /\ FeedRule
  /\ RequestOnItsWay

\* A slot that is empty, as it was, or filled after output number seq.
SlotMoves(old, new, seq) == new = <<>> \/ new = old \/ new[1].seq > seq

Busy == {"up", "submit", "flush", "drain"}
Live == {"up", "submit", "flush"}

\* A keyframe is asked for, or made, in the egress half.
Wanted(e) == e.asked \/ e.force \/ e.lost \/ e.keyslot # <<>> \/ \E n \in DOMAIN e.enc : e.enc[n].key

\* A step of the egress alone: it is over, or goes on with the same decision.
EgressMoves ==
  /\ UNCHANGED <<media, ctl, ing>> /\ eg' \in Egresses /\ EgressRule(eg')
  /\ \/ eg'.run = "over"
     \/ /\ eg'.dec = eg.dec /\ eg'.policy = eg.policy /\ eg'.mine = eg.mine
        /\ \/ eg'.run = eg.run /\ eg.run # "over"
           \/ eg.run \in Busy /\ eg'.run \in Busy /\ (eg'.run # "drain" => eg.run # "drain")
        /\ eg.seq <= eg'.seq
        /\ eg'.run \in Live => (Wanted(eg) => Wanted(eg'))
        /\ SlotMoves(eg.keyslot, eg'.keyslot, eg.seq) /\ SlotMoves(eg.delta, eg'.delta, eg.seq)

\* A sequence without its first element.
LEMMA TailOf ==
  ASSUME NEW T, NEW q \in Seq(T), q # <<>>
  PROVE  /\ Tail(q) \in Seq(T) /\ Len(Tail(q)) + 1 = Len(q) /\ Len(Tail(q)) \in Nat
         /\ Len(q) \in Nat /\ Len(q) >= 1
         /\ Head(q) = q[1] /\ Head(q) \in T
         /\ DOMAIN q = 1..Len(q) /\ DOMAIN Tail(q) = 1..Len(Tail(q))
         /\ \A n \in 1..Len(Tail(q)) : Tail(q)[n] = q[n + 1] /\ n + 1 \in 1..Len(q)
<1>1. Len(q) \in Nat /\ Len(q) >= 1 /\ DOMAIN q = 1..Len(q) OBVIOUS
<1>2. Tail(q) \in Seq(T) /\ Len(Tail(q)) = Len(q) - 1 OBVIOUS
<1>3. Head(q) = q[1] /\ Head(q) \in T OBVIOUS
<1>4. DOMAIN Tail(q) = 1..Len(Tail(q)) /\ Len(Tail(q)) \in Nat BY <1>2
<1>5. \A n \in 1..Len(Tail(q)) : Tail(q)[n] = q[n + 1] BY <1>1, <1>2
<1>6. \A n \in 1..Len(Tail(q)) : n + 1 \in 1..Len(q) BY <1>1, <1>2
<1> QED BY <1>1, <1>2, <1>3, <1>4, <1>5, <1>6

\* The numbers and slots of an egress half.
LEMMA EgressTypes ==
  ASSUME NEW e \in Egresses
  PROVE  /\ e.seq \in Nat /\ e.taken \in Nat /\ e.base \in Nat
         /\ e.enc \in Inputs /\ e.keyslot \in Slots /\ e.delta \in Slots
         /\ Len(e.enc) \in Nat /\ Len(e.keyslot) \in Nat /\ Len(e.delta) \in Nat
         /\ e.keyslot # <<>> => e.keyslot[1] \in Frames /\ e.keyslot[1].seq \in Nat
         /\ e.delta # <<>> => e.delta[1] \in Frames /\ e.delta[1].seq \in Nat
                            /\ e.delta[1].base \in Nat
<1>0. MaxFrames \in Nat BY VideoLinkAssumption
<1>1. /\ e.seq \in Numbers /\ e.taken \in Numbers /\ e.base \in Numbers
      /\ e.enc \in Inputs /\ e.keyslot \in Slots /\ e.delta \in Slots
  BY DEF Egresses
<1>2. \A f \in Frames : f.seq \in Nat /\ f.base \in Nat BY <1>0 DEF Frames
<1>3. \A q \in Slots : Len(q) \in Nat /\ (q # <<>> => q[1] \in Frames) BY DEF Slots
<1>4. \A q \in Inputs : Len(q) \in Nat BY DEF Inputs
<1>5. e.seq \in Nat /\ e.taken \in Nat /\ e.base \in Nat BY <1>0, <1>1 DEF Numbers
<1> QED BY <1>1, <1>2, <1>3, <1>4, <1>5

\* The numbers of the packets and of the ingress half.
LEMMA VideoTypes ==
  ASSUME VideoType
  PROVE  /\ ing.last \in Nat /\ Len(media) \in Nat /\ Len(ctl) \in Nat
         /\ \A n \in 1..Len(media) : /\ media[n] \in Packets /\ media[n].frame \in Frames
                                     /\ media[n].frame.seq \in Nat /\ media[n].frame.base \in Nat
<1>0. MaxFrames \in Nat BY VideoLinkAssumption
<1>1. ing.last \in Numbers /\ media \in Seq(Packets) /\ ctl \in Seq(Notes)
  BY DEF VideoType, Ingresses
<1>2. \A f \in Frames : f.seq \in Nat /\ f.base \in Nat BY <1>0 DEF Frames
<1>3. \A n \in 1..Len(media) : media[n] \in Packets BY <1>1
<1>4. \A p \in Packets : p.frame \in Frames BY DEF Packets
<1>5. ing.last \in Nat BY <1>0, <1>1 DEF Numbers
<1>6. Len(media) \in Nat /\ Len(ctl) \in Nat BY <1>1
<1> QED BY <1>2, <1>3, <1>4, <1>5, <1>6

\* Such a step keeps the invariant.
LEMMA EgressStep ==
  ASSUME VideoInv, EgressMoves
  PROVE  VideoInv'
<1>1. VideoType' BY DEF VideoInv, VideoType, EgressMoves
<1>2. media' = media /\ ctl' = ctl /\ ing' = ing BY DEF EgressMoves
<1>3. CtlRule'
  <2>1. CASE eg'.run = "over" BY <1>2, <2>1 DEF VideoInv, CtlRule, SameDecision
  <2>2. CASE eg'.run # "over"
    BY <1>2, <2>2 DEF VideoInv, CtlRule, SameDecision, EgressMoves, Busy
  <2> QED BY <2>1, <2>2
<1>4. EgressRule(eg)' BY DEF EgressMoves, EgressRule
<1>5. PacketRule(media)' BY <1>2 DEF VideoInv, PacketRule
<1>6. FeedRule' BY <1>2 DEF VideoInv, FeedRule, ReferencesFed
<1>7. OrderRule'
  <2>1. CASE eg'.run = "over" BY <1>2, <1>4, <2>1 DEF VideoInv, OrderRule, EgressRule
  <2>2. CASE eg'.run # "over"
    <3>1. eg.run # "over" /\ eg.seq <= eg'.seq
      BY <2>2 DEF EgressMoves, Busy
    <3>2. ing.last <= eg.seq /\ \A n \in 1..Len(media) : media[n].frame.seq <= eg.seq
      BY <3>1 DEF VideoInv, OrderRule
    <3>3. /\ eg.seq \in Nat /\ eg'.seq \in Nat /\ ing.last \in Nat
          /\ \A n \in 1..Len(media) : media[n].frame.seq \in Nat
      <4>1. eg \in Egresses /\ eg' \in Egresses BY <1>1 DEF VideoInv, VideoType
      <4>2. eg.seq \in Nat /\ eg'.seq \in Nat BY <4>1, EgressTypes
      <4> QED BY <4>2, VideoTypes DEF VideoInv
    <3>4. ing.last <= eg'.seq /\ \A n \in 1..Len(media) : media[n].frame.seq <= eg'.seq
      BY <3>1, <3>2, <3>3
    <3>5. eg'.keyslot # <<>> => ing.last < eg'.keyslot[1].seq /\ Before(media, eg'.keyslot[1].seq)
      <4>1. CASE eg'.keyslot = eg.keyslot BY <4>1 DEF VideoInv, OrderRule
      <4>2. CASE eg'.keyslot # <<>> /\ eg'.keyslot[1].seq > eg.seq
        <5>1. eg'.keyslot[1].seq \in Nat
          <6>1. eg' \in Egresses BY <1>1 DEF VideoType
          <6> QED BY <4>2, <6>1, EgressTypes
        <5> QED BY <3>2, <3>3, <4>2, <5>1 DEF Before
      <4> QED BY <2>2, <4>1, <4>2 DEF EgressMoves, SlotMoves
    <3>6. eg'.delta # <<>> => ing.last < eg'.delta[1].seq /\ Before(media, eg'.delta[1].seq)
      <4>1. CASE eg'.delta = eg.delta BY <4>1 DEF VideoInv, OrderRule
      <4>2. CASE eg'.delta # <<>> /\ eg'.delta[1].seq > eg.seq
        <5>1. eg'.delta[1].seq \in Nat
          <6>1. eg' \in Egresses BY <1>1 DEF VideoType
          <6> QED BY <4>2, <6>1, EgressTypes
        <5> QED BY <3>2, <3>3, <4>2, <5>1 DEF Before
      <4> QED BY <2>2, <4>1, <4>2 DEF EgressMoves, SlotMoves
    <3>7. \A n \in 1..Len(media) : media[n].frame.seq > ing.last BY DEF VideoInv, OrderRule
    <3> QED BY <1>2, <3>4, <3>5, <3>6, <3>7 DEF OrderRule, Before
  <2> QED BY <2>1, <2>2
<1>8. RequestOnItsWay'
  <2> SUFFICES ASSUME ing.waiting, ing.run = "up", eg'.run \in Live, ~Wanted(eg')
               PROVE  \/ ing.requests > 0 \/ \E i \in DOMAIN ctl : ctl[i].kind = "key"
                      \/ \E i \in DOMAIN media : media[i].frame.key
    BY <1>2 DEF RequestOnItsWay, Live, Wanted
  <2>1. eg.run \in Live /\ ~Wanted(eg) BY DEF EgressMoves, Live, Busy
  <2> QED BY <2>1 DEF VideoInv, RequestOnItsWay, Live, Wanted
<1> QED BY <1>1, <1>3, <1>4, <1>5, <1>6, <1>7, <1>8 DEF VideoInv

\* A step of the ingress alone that only ends, or takes a picture out of the decoder.
IngressMoves ==
  /\ UNCHANGED <<eg, media, ctl>> /\ ing' \in Ingresses
  /\ ing'.run = ing.run \/ ing'.run \in {"drain", "over"}
  /\ ing'.dec = ing.dec /\ ing'.last = ing.last /\ ing'.waiting = ing.waiting /\ ing'.cfg = ing.cfg
  /\ ing'.requests = ing.requests /\ ing'.prev = ing.prev /\ ing'.fed = ing.fed

\* Such a step keeps the invariant.
LEMMA IngressStep ==
  ASSUME VideoInv, IngressMoves
  PROVE  VideoInv'
<1>1. VideoType' BY DEF VideoInv, VideoType, IngressMoves
<1>2. media' = media /\ ctl' = ctl /\ eg' = eg BY DEF IngressMoves
<1>3. CtlRule' BY <1>2 DEF VideoInv, CtlRule, SameDecision, IngressMoves
<1>4. EgressRule(eg)' BY <1>2 DEF VideoInv, EgressRule
<1>5. PacketRule(media)' BY <1>2 DEF VideoInv, PacketRule
<1>6. FeedRule' BY <1>2 DEF VideoInv, FeedRule, ReferencesFed, IngressMoves
<1>7. OrderRule'
  <2>1. ing'.last = ing.last BY DEF IngressMoves
  <2> QED BY <1>2, <2>1 DEF VideoInv, OrderRule, Before
<1>8. RequestOnItsWay' BY <1>2 DEF VideoInv, RequestOnItsWay, IngressMoves
<1> QED BY <1>1, <1>3, <1>4, <1>5, <1>6, <1>7, <1>8 DEF VideoInv

\* The ingress half's own steps.
LEMMA IngressKeeps ==
  ASSUME VideoInv, DecoderOutput \/ StopIngress \/ IngressDrains
  PROVE  VideoInv'
<1>0. ing \in Ingresses BY DEF VideoInv, VideoType
<1>1. CASE DecoderOutput
  <2>1. Tail(ing.queue) \in Slots
    <3>1. ing.queue \in Slots BY <1>0 DEF Ingresses
    <3> QED BY <1>1, <3>1 DEF DecoderOutput, Slots
  <2>2. IngressMoves BY <1>0, <1>1, <2>1 DEF DecoderOutput, IngressMoves, Ingresses, IngressRuns
  <2> QED BY <2>2, IngressStep
<1>2. CASE StopIngress
  <2>1. IngressMoves BY <1>0, <1>2 DEF StopIngress, IngressMoves, Ingresses, IngressRuns
  <2> QED BY <2>1, IngressStep
<1>3. CASE IngressDrains
  <2>1. IngressMoves BY <1>0, <1>3 DEF IngressDrains, IngressMoves, Ingresses, IngressRuns
  <2> QED BY <2>1, IngressStep
<1> QED BY <1>1, <1>2, <1>3

\* An egress half that is new or over has nothing in it.
LEMMA IdleEgress ==
  ASSUME NEW e, e = NewEgress \/ e = [NewEgress EXCEPT !.run = "over", !.stop = TRUE]
  PROVE  e \in Egresses /\ EgressRule(e) /\ e.run \in {"hello", "over"}
<1>1. 0 \in Numbers BY VideoLinkAssumption DEF Numbers
<1>2. 0 \in Widths BY DEF Widths
<1>3. <<>> \in Inputs /\ <<>> \in Slots BY DEF Inputs, Slots
<1>4. /\ e.run \in {"hello", "over"} /\ e.force = TRUE /\ e.taken = 0 /\ e.enc = <<>> /\ e.base = 0
      /\ e.seq = 0 /\ e.keyslot = <<>> /\ e.delta = <<>>
  <2>1. CASE e = NewEgress BY <2>1 DEF NewEgress
  <2>2. CASE e = [NewEgress EXCEPT !.run = "over", !.stop = TRUE] BY <2>2 DEF NewEgress
  <2> QED BY <2>1, <2>2
<1>5. e \in Egresses
  <2> DEFINE zero == 0
             empty == <<>>
             yes == TRUE
             no == FALSE
             flags == BOOLEAN
             Idle(run, stop) ==
               [run |-> run, stop |-> stop, policy |-> "Prefer444", mine |-> {}, dec |-> "none",
                taken |-> zero, cur |-> zero, size |-> zero, force |-> yes, asked |-> no,
                limit |-> no, enc |-> empty, base |-> zero, seq |-> zero, keyslot |-> empty,
                delta |-> empty, lost |-> no]
  <2>1. e = Idle("hello", no) \/ e = Idle("over", yes)
    <3>1. CASE e = NewEgress BY <3>1 DEF NewEgress
    <3>2. CASE e = [NewEgress EXCEPT !.run = "over", !.stop = TRUE] BY <3>2 DEF NewEgress
    <3> QED BY <3>1, <3>2
  <2>2. /\ zero \in Numbers /\ zero \in Widths /\ empty \in Inputs /\ empty \in Slots
        /\ yes \in flags /\ no \in flags
    BY <1>1, <1>2, <1>3
  <2>3. /\ {} \in Offered /\ "none" \in Chromas /\ "Prefer444" \in Policies
        /\ "hello" \in EgressRuns /\ "over" \in EgressRuns
    BY DEF Chromas, Offered, EgressRuns, Policies
  <2>4. Egresses = [run: EgressRuns, stop: flags, policy: Policies, mine: Offered, dec: Chromas,
                    taken: Numbers, cur: Widths, size: Widths, force: flags, asked: flags,
                    limit: flags, enc: Inputs, base: Numbers, seq: Numbers, keyslot: Slots,
                    delta: Slots, lost: flags]
    BY DEF Egresses
  <2> HIDE DEF zero, empty, yes, no, flags
  <2>5. \A run \in EgressRuns, stop \in flags : Idle(run, stop) \in Egresses
    BY <2>2, <2>3, <2>4, SMTT(60)
  <2> HIDE DEF Idle
  <2> QED BY <2>1, <2>2, <2>3, <2>5
<1>6. Len(e.enc) = 0 BY <1>4
<1>7. EgressRule(e) BY <1>4, <1>6 DEF EgressRule
<1> QED BY <1>4, <1>5, <1>7

\* The ends of the halves that the other connections see.
LEMMA EndsKeep ==
  ASSUME VideoInv, HelloFails \/ StopEgress \/ LinkCloses \/ EgressDrains \/ EgressOver
  PROVE  VideoInv'
<1>0. eg \in Egresses /\ ing \in Ingresses /\ EgressRule(eg) BY DEF VideoInv, VideoType
<1>1. CASE eg' = [NewEgress EXCEPT !.run = "over", !.stop = TRUE] /\ UNCHANGED <<media, ctl, ing>>
  <2>1. eg'.run = "over" BY <1>1 DEF NewEgress
  <2>2. EgressMoves BY <1>1, <2>1, IdleEgress DEF EgressMoves
  <2> QED BY <2>2, EgressStep
<1>2. CASE eg.run # "over" /\ eg' = [eg EXCEPT !.stop = TRUE] /\ UNCHANGED <<media, ctl, ing>>
  <2>1. /\ eg' \in Egresses /\ eg'.run = eg.run /\ eg'.force = eg.force /\ eg'.enc = eg.enc
        /\ eg'.keyslot = eg.keyslot /\ eg'.delta = eg.delta /\ eg'.cur = eg.cur /\ eg'.seq = eg.seq
        /\ eg'.taken = eg.taken /\ eg'.base = eg.base /\ eg'.dec = eg.dec /\ eg'.policy = eg.policy
        /\ eg'.mine = eg.mine /\ eg'.asked = eg.asked /\ eg'.lost = eg.lost
    BY <1>0, <1>2 DEF Egresses
  <2>2. EgressRule(eg') BY <1>0, <2>1 DEF EgressRule
  <2>3. eg.seq <= eg'.seq BY <1>0, <2>1, EgressTypes
  <2>4. EgressMoves BY <1>2, <2>1, <2>2, <2>3 DEF EgressMoves, SlotMoves, Wanted
  <2> QED BY <2>4, EgressStep
<1>3. CASE ing' = [ing EXCEPT !.stop = TRUE] /\ UNCHANGED <<eg, media, ctl>>
  <2>1. IngressMoves BY <1>0, <1>3 DEF IngressMoves, Ingresses, IngressRuns
  <2> QED BY <2>1, IngressStep
<1>4. CASE ing' = [ing EXCEPT !.run = "over", !.stop = TRUE] /\ UNCHANGED <<eg, media, ctl>>
  <2>1. IngressMoves BY <1>0, <1>4 DEF IngressMoves, Ingresses, IngressRuns
  <2> QED BY <2>1, IngressStep
<1>5. CASE EgressDrains
  <2>0. 0 \in Widths BY DEF Widths
  <2>1. /\ eg' \in Egresses /\ eg'.run = (IF eg.run \in {"up", "submit"} THEN "drain" ELSE "over")
        /\ eg'.force = eg.force /\ eg'.enc = eg.enc
        /\ eg'.keyslot = eg.keyslot /\ eg'.delta = eg.delta /\ eg'.seq = eg.seq
        /\ eg'.taken = eg.taken /\ eg'.base = eg.base /\ eg'.dec = eg.dec /\ eg'.policy = eg.policy
        /\ eg'.mine = eg.mine
    BY <1>0, <1>5, <2>0 DEF EgressDrains, Egresses, EgressRuns
  <2>2. EgressRule(eg') BY <1>0, <1>5, <2>1 DEF EgressRule, EgressDrains
  <2>3. eg.seq <= eg'.seq BY <1>0, <2>1, EgressTypes
  <2>4. EgressMoves BY <1>5, <2>1, <2>2, <2>3 DEF EgressMoves, SlotMoves, Busy, Live, EgressDrains
  <2> QED BY <2>4, EgressStep
<1> QED BY <1>1, <1>2, <1>3, <1>4, <1>5 DEF HelloFails, StopEgress, LinkCloses, EgressOver

-----------------------------------------------------------------------------
(* The egress half's own steps.                                            *)

\* The acquisition loop.
LEMMA AcquireKeeps ==
  ASSUME VideoInv, AcquireFrame \/ RateSkip \/ FlushEncoder
  PROVE  VideoInv'
<1>0. eg \in Egresses /\ EgressRule(eg) BY DEF VideoInv, VideoType
<1>1. eg.seq \in Nat /\ eg.taken \in Nat /\ Len(eg.enc) \in Nat /\ eg.base \in Nat BY <1>0, EgressTypes
<1>2. CASE AcquireFrame
  <2>1. PICK size \in Sizes :
          eg' = [eg EXCEPT !.taken = @ + 1, !.asked = FALSE, !.cur = size,
                           !.force = @ \/ eg.asked \/ eg.size # size,
                           !.run = IF eg.size \notin {0, size} THEN "flush" ELSE "submit",
                           !.size = size]
    BY <1>2 DEF AcquireFrame
  <2>2. eg.taken + 1 \in Numbers
    <3>1. eg.taken < MaxFrames BY <1>2 DEF AcquireFrame
    <3> QED BY <1>1, <3>1, VideoLinkAssumption DEF Numbers
  <2>3. size \in Widths BY DEF Widths
  <2>4. /\ eg'.taken = eg.taken + 1 /\ eg'.asked = FALSE /\ eg'.cur = size
        /\ eg'.force = (eg.force \/ eg.asked \/ eg.size # size) /\ eg'.run \in {"flush", "submit"}
        /\ eg'.enc = eg.enc /\ eg'.keyslot = eg.keyslot /\ eg'.delta = eg.delta
        /\ eg'.seq = eg.seq /\ eg'.base = eg.base /\ eg'.dec = eg.dec /\ eg'.policy = eg.policy
        /\ eg'.mine = eg.mine /\ eg'.lost = eg.lost
    BY <1>0, <2>1 DEF Egresses
  <2>5. eg' \in Egresses
    <3> DEFINE taken == eg.taken + 1
               force == eg.force \/ eg.asked \/ eg.size # size
               run == IF eg.size \notin {0, size} THEN "flush" ELSE "submit"
               asked == FALSE
    <3>1. taken \in Numbers /\ force \in BOOLEAN /\ run \in EgressRuns /\ asked \in BOOLEAN
      BY <2>2 DEF EgressRuns
    <3>2. eg' = [eg EXCEPT !.taken = taken, !.asked = asked, !.cur = size, !.force = force,
                           !.run = run, !.size = size]
      BY <2>1
    <3> HIDE DEF taken, force, run, asked
    <3> QED BY <1>0, <2>3, <3>1, <3>2, ZenonT(40) DEF Egresses
  <2>6. EgressRule(eg') BY <1>0, <1>1, <2>4 DEF EgressRule
  <2>7. eg.seq <= eg'.seq BY <1>1, <2>4
  <2>8. eg.run = "up" /\ UNCHANGED <<media, ctl, ing>> BY <1>2 DEF AcquireFrame
  <2>9. Wanted(eg) => Wanted(eg') BY <2>4 DEF Wanted
  <2>10. EgressMoves BY <2>4, <2>5, <2>6, <2>7, <2>8, <2>9 DEF EgressMoves, SlotMoves, Busy
  <2> QED BY <2>10, EgressStep
<1>3. CASE RateSkip
  <2>1. eg' = [eg EXCEPT !.taken = @ + 1, !.asked = FALSE, !.lost = @ \/ eg.asked]
    BY <1>3 DEF RateSkip
  <2>2. eg.taken + 1 \in Numbers
    <3>1. eg.taken < MaxFrames BY <1>3 DEF RateSkip
    <3> QED BY <1>1, <3>1, VideoLinkAssumption DEF Numbers
  <2>4. /\ eg'.taken = eg.taken + 1 /\ eg'.asked = FALSE /\ eg'.cur = eg.cur
        /\ eg'.force = eg.force /\ eg'.run = eg.run /\ eg'.lost = (eg.lost \/ eg.asked)
        /\ eg'.enc = eg.enc /\ eg'.keyslot = eg.keyslot /\ eg'.delta = eg.delta
        /\ eg'.seq = eg.seq /\ eg'.base = eg.base /\ eg'.dec = eg.dec /\ eg'.policy = eg.policy
        /\ eg'.mine = eg.mine
    BY <1>0, <2>1 DEF Egresses
  <2>5. eg' \in Egresses
    <3> DEFINE taken == eg.taken + 1
               lost == eg.lost \/ eg.asked
               asked == FALSE
    <3>1. taken \in Numbers /\ lost \in BOOLEAN /\ asked \in BOOLEAN BY <2>2
    <3>2. eg' = [eg EXCEPT !.taken = taken, !.asked = asked, !.lost = lost] BY <2>1
    <3> HIDE DEF taken, lost, asked
    <3> QED BY <1>0, <3>1, <3>2 DEF Egresses
  <2>8. eg.run = "up" /\ UNCHANGED <<media, ctl, ing>> BY <1>3 DEF RateSkip
  <2>6. EgressRule(eg') BY <1>0, <1>1, <2>4, <2>8 DEF EgressRule
  <2>7. eg.seq <= eg'.seq BY <1>1, <2>4
  <2>9. Wanted(eg) => Wanted(eg') BY <2>4 DEF Wanted
  <2>10. EgressMoves BY <2>4, <2>5, <2>6, <2>7, <2>8, <2>9 DEF EgressMoves, SlotMoves, Busy
  <2> QED BY <2>10, EgressStep
<1>4. CASE FlushEncoder
  <2>1. eg' = [eg EXCEPT !.run = "submit", !.base = 0] BY <1>4 DEF FlushEncoder
  <2>2. 0 \in Numbers BY VideoLinkAssumption DEF Numbers
  <2>4. /\ eg'.taken = eg.taken /\ eg'.asked = eg.asked /\ eg'.cur = eg.cur
        /\ eg'.force = eg.force /\ eg'.run = "submit" /\ eg'.lost = eg.lost
        /\ eg'.enc = eg.enc /\ eg'.keyslot = eg.keyslot /\ eg'.delta = eg.delta
        /\ eg'.seq = eg.seq /\ eg'.base = 0 /\ eg'.dec = eg.dec /\ eg'.policy = eg.policy
        /\ eg'.mine = eg.mine
    BY <1>0, <2>1 DEF Egresses
  <2>5. eg' \in Egresses BY <1>0, <2>1, <2>2 DEF Egresses, EgressRuns
  <2>8. eg.run = "flush" /\ UNCHANGED <<media, ctl, ing>> BY <1>4 DEF FlushEncoder
  <2>6. EgressRule(eg') BY <1>0, <1>1, <2>4, <2>8 DEF EgressRule
  <2>7. eg.seq <= eg'.seq BY <1>1, <2>4
  <2>9. Wanted(eg) => Wanted(eg') BY <2>4 DEF Wanted
  <2>10. EgressMoves BY <2>4, <2>5, <2>6, <2>7, <2>8, <2>9 DEF EgressMoves, SlotMoves, Busy
  <2> QED BY <2>10, EgressStep
<1> QED BY <1>2, <1>3, <1>4

\* The frame goes into the encoder, or is dropped.
LEMMA SubmitKeeps ==
  ASSUME VideoInv, Submit
  PROVE  VideoInv'
<1>0. eg \in Egresses /\ EgressRule(eg) BY DEF VideoInv, VideoType
<1>1. /\ eg.seq \in Nat /\ eg.taken \in Nat /\ Len(eg.enc) \in Nat /\ eg.base \in Nat
      /\ eg.enc \in Inputs
  BY <1>0, EgressTypes
<1>2. eg.run = "submit" /\ UNCHANGED <<media, ctl, ing>> BY DEF Submit
<1>3. eg.cur \in Sizes /\ eg.seq + Len(eg.enc) + 1 <= eg.taken BY <1>0, <1>2 DEF EgressRule
<1>4. eg.force \in BOOLEAN BY <1>0 DEF Egresses
<1>5. 0 \in Widths BY DEF Widths
<1>6. ASSUME NEW enc \in Inputs, NEW force \in BOOLEAN,
             eg' = [eg EXCEPT !.run = "up", !.force = force, !.cur = 0, !.enc = enc],
             Len(enc) \in {Len(eg.enc), Len(eg.enc) + 1}, Wanted(eg) => Wanted(eg')
      PROVE  VideoInv'
  <2>1. /\ eg'.taken = eg.taken /\ eg'.run = "up" /\ eg'.enc = enc
        /\ eg'.keyslot = eg.keyslot /\ eg'.delta = eg.delta
        /\ eg'.seq = eg.seq /\ eg'.base = eg.base /\ eg'.dec = eg.dec /\ eg'.policy = eg.policy
        /\ eg'.mine = eg.mine
    BY <1>0, <1>6 DEF Egresses
  <2>2. eg' \in Egresses BY <1>0, <1>5, <1>6 DEF Egresses, EgressRuns
  <2>3. EgressRule(eg') BY <1>0, <1>1, <1>3, <1>6, <2>1 DEF EgressRule
  <2>4. eg.seq <= eg'.seq BY <1>1, <2>1
  <2>5. EgressMoves BY <1>2, <1>6, <2>1, <2>2, <2>3, <2>4 DEF EgressMoves, SlotMoves, Busy
  <2> QED BY <2>5, EgressStep
<1>7. CASE eg' = [eg EXCEPT !.run = "up", !.cur = 0]
  <2>1. eg' = [eg EXCEPT !.run = "up", !.force = eg.force, !.cur = 0, !.enc = eg.enc]
    BY <1>0, <1>7 DEF Egresses
  <2>2. /\ eg'.force = eg.force /\ eg'.enc = eg.enc /\ eg'.keyslot = eg.keyslot
        /\ eg'.asked = eg.asked /\ eg'.lost = eg.lost
    BY <1>0, <1>7 DEF Egresses
  <2>3. Wanted(eg) => Wanted(eg') BY <2>2 DEF Wanted
  <2> QED BY <1>1, <1>4, <1>6, <2>1, <2>3
<1>8. CASE eg' = [eg EXCEPT !.run = "up", !.force = FALSE, !.cur = 0,
                            !.enc = Append(@, [key |-> eg.force, size |-> eg.cur])]
  <2> DEFINE item == [key |-> eg.force, size |-> eg.cur]
             enc == Append(eg.enc, item)
  <2>1. eg' = [eg EXCEPT !.run = "up", !.force = FALSE, !.cur = 0, !.enc = enc] BY <1>8
  <2>2. item \in [key: BOOLEAN, size: Sizes] BY <1>3, <1>4
  <2>3. item.key = eg.force OBVIOUS
  <2> HIDE DEF item
  <2>4. /\ enc \in Inputs /\ Len(enc) = Len(eg.enc) + 1 /\ enc[Len(eg.enc) + 1] = item
        /\ \A n \in 1..Len(eg.enc) : enc[n] = eg.enc[n]
        /\ DOMAIN enc = 1..(Len(eg.enc) + 1) /\ DOMAIN eg.enc = 1..Len(eg.enc)
    BY <1>1, <2>2 DEF Inputs
  <2> HIDE DEF enc
  <2>5. /\ eg'.enc = enc /\ eg'.keyslot = eg.keyslot /\ eg'.asked = eg.asked /\ eg'.lost = eg.lost
    BY <1>0, <2>1 DEF Egresses
  <2>6. Wanted(eg) => Wanted(eg')
    <3>1. CASE eg.force
      <4>1. Len(eg.enc) + 1 \in DOMAIN enc BY <1>1, <2>4
      <4> QED BY <2>3, <2>4, <2>5, <3>1, <4>1 DEF Wanted
    <3>2. CASE \E n \in DOMAIN eg.enc : eg.enc[n].key
      <4>1. PICK n \in 1..Len(eg.enc) : eg.enc[n].key BY <2>4, <3>2
      <4>2. n \in DOMAIN enc /\ enc[n].key BY <1>1, <2>4, <4>1
      <4> QED BY <2>5, <4>2 DEF Wanted
    <3> QED BY <2>5, <3>1, <3>2 DEF Wanted
  <2> QED BY <1>6, <2>1, <2>4, <2>6
<1> QED BY <1>7, <1>8 DEF Submit

\* The encoder's queue without its first frame.
LEMMA Delivered ==
  ASSUME NEW q \in Inputs, q # <<>>
  PROVE  /\ Tail(q) \in Inputs /\ Len(Tail(q)) + 1 = Len(q) /\ Len(Tail(q)) \in Nat
         /\ Head(q).key \in BOOLEAN /\ Head(q).size \in Sizes
         /\ (\E n \in DOMAIN q : q[n].key) => Head(q).key \/ \E n \in DOMAIN Tail(q) : Tail(q)[n].key
<1>1. /\ Tail(q) \in Inputs /\ Len(Tail(q)) + 1 = Len(q) /\ Len(Tail(q)) \in Nat
      /\ Head(q) \in [key: BOOLEAN, size: Sizes] /\ Head(q) = q[1]
      /\ DOMAIN q = 1..Len(q) /\ DOMAIN Tail(q) = 1..Len(Tail(q))
      /\ \A n \in 1..Len(Tail(q)) : Tail(q)[n] = q[n + 1]
  BY TailOf DEF Inputs
<1>2. ASSUME NEW n \in DOMAIN q, q[n].key, ~Head(q).key
      PROVE  \E k \in DOMAIN Tail(q) : Tail(q)[k].key
  <2>1. n # 1 /\ n \in 1..Len(q) BY <1>1, <1>2
  <2>2. n - 1 \in 1..Len(Tail(q)) /\ n - 1 + 1 = n BY <1>1, <2>1
  <2>3. Tail(q)[n - 1] = q[n] BY <1>1, <2>2
  <2> QED BY <1>1, <1>2, <2>2, <2>3
<1> QED BY <1>1, <1>2

\* The sum of what is numbered and what is in the encoder stays within the frames taken.
LEMMA FrameDropped ==
  ASSUME VideoInv, EncoderDrops
  PROVE  VideoInv'
<1>0. eg \in Egresses /\ EgressRule(eg) /\ eg.enc # <<>> BY DEF VideoInv, VideoType, EncoderDrops
<1>1. /\ eg.seq \in Nat /\ eg.taken \in Nat /\ Len(eg.enc) \in Nat /\ eg.base \in Nat
      /\ eg.enc \in Inputs
  BY <1>0, EgressTypes
<1> DEFINE enc == Tail(eg.enc)
           lost == eg.lost \/ Head(eg.enc).key
<1>2. eg' = [eg EXCEPT !.enc = enc, !.lost = lost] /\ UNCHANGED <<media, ctl, ing>>
  BY DEF EncoderDrops
<1>3. /\ enc \in Inputs /\ Len(enc) + 1 = Len(eg.enc) /\ Len(enc) \in Nat
      /\ (\E n \in DOMAIN eg.enc : eg.enc[n].key) => Head(eg.enc).key \/ \E n \in DOMAIN enc : enc[n].key
  BY <1>0, <1>1, Delivered
<1>4. (eg.lost => lost) /\ (Head(eg.enc).key => lost) /\ lost \in BOOLEAN OBVIOUS
<1> HIDE DEF enc, lost
<1>5. /\ eg'.taken = eg.taken /\ eg'.asked = eg.asked /\ eg'.cur = eg.cur
      /\ eg'.force = eg.force /\ eg'.run = eg.run /\ eg'.lost = lost
      /\ eg'.enc = enc /\ eg'.keyslot = eg.keyslot /\ eg'.delta = eg.delta
      /\ eg'.seq = eg.seq /\ eg'.base = eg.base /\ eg'.dec = eg.dec /\ eg'.policy = eg.policy
      /\ eg'.mine = eg.mine
  BY <1>0, <1>2 DEF Egresses
<1>6. eg' \in Egresses BY <1>0, <1>2, <1>3, <1>4 DEF Egresses
<1>7. eg.run \notin {"hello", "peer", "over"} BY <1>0 DEF EgressRule
<1>8. EgressRule(eg') BY <1>0, <1>1, <1>3, <1>5, <1>7, SMTT(30) DEF EgressRule
<1>9. Wanted(eg) => Wanted(eg') BY <1>3, <1>4, <1>5 DEF Wanted
<1>10. eg.seq <= eg'.seq BY <1>1, <1>5
<1>11. EgressMoves BY <1>2, <1>5, <1>6, <1>7, <1>8, <1>9, <1>10 DEF EgressMoves, SlotMoves
<1> QED BY <1>11, EgressStep

\* What an output of the encoder leaves of the half.
Numbered(keyslot, delta, lost) ==
  /\ UNCHANGED <<media, ctl, ing>>
  /\ eg' = [eg EXCEPT !.enc = Tail(@), !.seq = @ + 1, !.base = eg.seq + 1, !.keyslot = keyslot,
                      !.delta = delta, !.lost = lost]

\* An output takes the next number, whatever becomes of it.
LEMMA OutputNumbered ==
  ASSUME VideoInv, eg.enc # <<>>, NEW keyslot \in Slots, NEW delta \in Slots, NEW lost \in BOOLEAN,
         Numbered(keyslot, delta, lost),
         \/ keyslot = eg.keyslot /\ delta = eg.delta /\ lost
         \/ keyslot = <<Output>> /\ delta = <<>> /\ Output.key /\ lost = eg.lost
         \/ keyslot = eg.keyslot /\ delta = <<Output>> /\ ~Output.key /\ lost = eg.lost
  PROVE  VideoInv'
<1>0. eg \in Egresses /\ EgressRule(eg) BY DEF VideoInv, VideoType
<1>1. /\ eg.seq \in Nat /\ eg.taken \in Nat /\ Len(eg.enc) \in Nat /\ eg.base \in Nat
      /\ eg.enc \in Inputs
      /\ eg.keyslot # <<>> => eg.keyslot[1].seq \in Nat
      /\ eg.delta # <<>> => eg.delta[1].seq \in Nat
  BY <1>0, EgressTypes
<1> DEFINE enc == Tail(eg.enc)
           next == eg.seq + 1
<1>2. eg' = [eg EXCEPT !.enc = enc, !.seq = next, !.base = next, !.keyslot = keyslot,
                       !.delta = delta, !.lost = lost] /\ UNCHANGED <<media, ctl, ing>>
  BY DEF Numbered
<1>3. /\ enc \in Inputs /\ Len(enc) + 1 = Len(eg.enc) /\ Len(enc) \in Nat
      /\ (\E n \in DOMAIN eg.enc : eg.enc[n].key) => Head(eg.enc).key \/ \E n \in DOMAIN enc : enc[n].key
      /\ Head(eg.enc).size \in Sizes
  BY <1>1, Delivered
<1>4. eg.taken <= MaxFrames BY <1>0, VideoLinkAssumption DEF Egresses, Numbers
<1>5. next \in Numbers /\ next = eg.seq + 1
  BY <1>0, <1>1, <1>3, <1>4, VideoLinkAssumption DEF Numbers, EgressRule
<1>6. /\ Output.seq = next /\ Output.base = eg.base /\ Output.size \in Sizes
      /\ Output.key = (Head(eg.enc).key \/ eg.base = 0)
  BY <1>3 DEF Output
<1> HIDE DEF enc, next
<1>7. /\ eg'.taken = eg.taken /\ eg'.asked = eg.asked /\ eg'.cur = eg.cur
      /\ eg'.force = eg.force /\ eg'.run = eg.run /\ eg'.lost = lost
      /\ eg'.enc = enc /\ eg'.keyslot = keyslot /\ eg'.delta = delta
      /\ eg'.seq = next /\ eg'.base = next /\ eg'.dec = eg.dec /\ eg'.policy = eg.policy
      /\ eg'.mine = eg.mine
  BY <1>0, <1>2 DEF Egresses
<1>8. eg' \in Egresses BY <1>0, <1>2, <1>3, <1>5 DEF Egresses
<1>9. eg.run \notin {"hello", "peer", "over"} BY <1>0 DEF EgressRule
<1>10. EgressRule(eg')
  <2>1. /\ eg.run \in {"flush", "submit"} => eg.cur \in Sizes /\ next + Len(enc) + 1 <= eg.taken
        /\ next + Len(enc) <= eg.taken
    <3>1. /\ eg.run \in {"flush", "submit"} => eg.cur \in Sizes /\ eg.seq + Len(eg.enc) + 1 <= eg.taken
          /\ eg.seq + Len(eg.enc) <= eg.taken
      BY <1>0 DEF EgressRule
    <3>2. next + Len(enc) = eg.seq + Len(eg.enc)
      <4>1. \A a \in Nat, b \in Nat : (a + 1) + b = a + (b + 1) OBVIOUS
      <4>2. next = eg.seq + 1 /\ Len(eg.enc) = Len(enc) + 1 BY <1>3, <1>5, Zenon
      <4>3. eg.seq \in Nat /\ Len(enc) \in Nat BY <1>1, <1>3
      <4>4. (eg.seq + 1) + Len(enc) = eg.seq + (Len(enc) + 1) BY <4>1, <4>3, Zenon
      <4> QED BY <4>2, <4>4, Zenon
    <3> QED BY <3>1, <3>2
  <2>2. CASE keyslot = eg.keyslot /\ delta = eg.delta
    BY <1>0, <1>1, <1>5, <1>7, <1>9, <2>1, <2>2, SMTT(30) DEF EgressRule
  <2>3. CASE keyslot = <<Output>> /\ delta = <<>> /\ Output.key
    <3>1. keyslot # <<>> /\ Len(keyslot) = 1 /\ keyslot[1] = Output BY <2>3
    <3>2. Output.seq >= 1 /\ Output.seq <= next BY <1>1, <1>5, <1>6
    <3>3. keyslot[1].key /\ keyslot[1].size \in Sizes BY <1>6, <2>3, <3>1
    <3> QED BY <1>7, <1>9, <2>1, <2>3, <3>1, <3>2, <3>3 DEF EgressRule
  <2>4. CASE keyslot = eg.keyslot /\ delta = <<Output>> /\ ~Output.key
    <3>1. delta # <<>> /\ Len(delta) = 1 /\ delta[1] = Output BY <2>4
    <3>2. eg.base # 0 BY <1>6, <2>4
    <3>3. eg.base = eg.seq BY <1>0, <3>2 DEF EgressRule
    <3>4. Output.base + 1 = Output.seq /\ Output.seq <= next BY <1>1, <1>5, <1>6, <3>3
    <3>5. eg.keyslot # <<>> =>
            /\ Len(eg.keyslot) = 1 /\ eg.keyslot[1].key /\ eg.keyslot[1].size \in Sizes
            /\ eg.keyslot[1].seq >= 1 /\ eg.keyslot[1].seq <= next /\ eg.keyslot[1].seq < Output.seq
      BY <1>0, <1>1, <1>5, <1>6 DEF EgressRule
    <3>6. /\ ~delta[1].key /\ delta[1].size \in Sizes /\ delta[1].base + 1 = delta[1].seq
          /\ delta[1].seq <= next /\ (eg.keyslot # <<>> => eg.keyslot[1].seq < delta[1].seq)
      BY <1>6, <2>4, <3>1, <3>4, <3>5
    <3> QED BY <1>7, <1>9, <2>1, <2>4, <3>1, <3>5, <3>6 DEF EgressRule
  <2> QED BY <2>2, <2>3, <2>4
<1>11. Wanted(eg) => Wanted(eg')
  <2>1. CASE lost BY <1>7, <2>1 DEF Wanted
  <2>2. CASE keyslot = <<Output>>
    <3>1. keyslot # <<>> BY <2>2
    <3> QED BY <1>7, <3>1 DEF Wanted
  <2>3. CASE keyslot = eg.keyslot /\ ~Output.key /\ lost = eg.lost
    <3>1. ~Head(eg.enc).key BY <1>6, <2>3
    <3> QED BY <1>3, <1>7, <2>3, <3>1 DEF Wanted
  <2> QED BY <2>1, <2>2, <2>3
<1>12. eg.seq <= eg'.seq BY <1>1, <1>5, <1>7
<1>13. SlotMoves(eg.keyslot, eg'.keyslot, eg.seq)
  <2>1. CASE keyslot = <<Output>>
    <3>1. keyslot[1] = Output BY <2>1
    <3>2. keyslot[1].seq > eg.seq BY <1>1, <1>5, <1>6, <3>1
    <3> QED BY <1>7, <3>2 DEF SlotMoves
  <2> QED BY <1>7, <2>1 DEF SlotMoves
<1>14. SlotMoves(eg.delta, eg'.delta, eg.seq)
  <2>1. CASE delta = <<Output>>
    <3>1. delta[1] = Output BY <2>1
    <3>2. delta[1].seq > eg.seq BY <1>1, <1>5, <1>6, <3>1
    <3> QED BY <1>7, <3>2 DEF SlotMoves
  <2> QED BY <1>7, <2>1 DEF SlotMoves
<1>15. EgressMoves
  BY <1>2, <1>7, <1>8, <1>9, <1>10, <1>11, <1>12, <1>13, <1>14 DEF EgressMoves
<1> QED BY <1>15, EgressStep

\* The encoder's callback.
LEMMA OutputKeeps ==
  ASSUME VideoInv, EncoderOutput
  PROVE  VideoInv'
<1>0. eg \in Egresses /\ EgressRule(eg) /\ eg.enc # <<>> BY DEF VideoInv, VideoType, EncoderOutput
<1>1. eg.keyslot \in Slots /\ eg.delta \in Slots /\ eg.lost \in BOOLEAN BY <1>0 DEF Egresses
<1>2. Output \in Frames
  <2>0. MaxFrames \in Nat BY VideoLinkAssumption
  <2>1. eg.enc \in Inputs /\ eg.seq \in Nat /\ eg.taken \in Nat /\ Len(eg.enc) \in Nat BY <1>0, EgressTypes
  <2>2. Head(eg.enc).size \in Sizes \union {0} /\ Head(eg.enc).key \in BOOLEAN /\ Len(eg.enc) >= 1
    <3>1. Len(Tail(eg.enc)) + 1 = Len(eg.enc) /\ Len(Tail(eg.enc)) \in Nat BY <1>0, <2>1, Delivered
    <3> QED BY <1>0, <2>1, <3>1, Delivered
  <2>3. eg.taken \in Numbers /\ eg.base \in Numbers BY <1>0 DEF Egresses
  <2>4. eg.base \in 0..MaxFrames /\ eg.taken <= MaxFrames BY <2>0, <2>3 DEF Numbers
  <2>5. eg.seq + Len(eg.enc) <= eg.taken BY <1>0 DEF EgressRule
  <2>6. eg.seq + 1 \in 0..MaxFrames BY <2>0, <2>1, <2>2, <2>4, <2>5
  <2> DEFINE next == eg.seq + 1
             numbers == 0..MaxFrames
             size == Head(eg.enc).size
             key == Head(eg.enc).key \/ eg.base = 0
  <2>7. /\ Output = [seq |-> next, key |-> key, base |-> eg.base, size |-> size]
        /\ next \in numbers /\ eg.base \in numbers /\ size \in Widths /\ key \in BOOLEAN
        /\ Frames = [seq: numbers, key: BOOLEAN, base: numbers, size: Widths]
    BY <2>2, <2>4, <2>6 DEF Output, Frames, Widths
  <2> HIDE DEF next, numbers, size, key
  <2> QED BY <2>7, Zenon
<1>3. <<Output>> \in Slots /\ <<>> \in Slots BY <1>2 DEF Slots
<1>4. UNCHANGED <<media, ctl, ing>> BY DEF EncoderOutput
<1>5. CASE eg' = PushKeyframe(Output) /\ Output.key
  <2>1. Numbered(<<Output>>, <<>>, eg.lost) BY <1>0, <1>4, <1>5 DEF Numbered, PushKeyframe, Egresses
  <2> QED BY <1>0, <1>1, <1>3, <1>5, <2>1, OutputNumbered
<1>6. CASE eg' = [eg EXCEPT !.enc = Tail(@), !.seq = @ + 1, !.base = eg.seq + 1, !.lost = TRUE]
  <2>1. Numbered(eg.keyslot, eg.delta, TRUE) BY <1>0, <1>4, <1>6 DEF Numbered, Egresses
  <2> QED BY <1>0, <1>1, <2>1, OutputNumbered
<1>7. CASE eg' = PushDelta(Output) /\ ~Output.key
  <2>1. Numbered(eg.keyslot, <<Output>>, eg.lost) BY <1>0, <1>4, <1>7 DEF Numbered, PushDelta, Egresses
  <2> QED BY <1>0, <1>1, <1>3, <1>7, <2>1, OutputNumbered
<1> QED BY <1>5, <1>6, <1>7 DEF EncoderOutput

-----------------------------------------------------------------------------
(* The steps that use a connection.                                        *)

\* The egress speaks first.
LEMMA EgressHelloKeeps ==
  ASSUME VideoInv, EgressHello
  PROVE  VideoInv'
<1>0. eg \in Egresses /\ EgressRule(eg) BY DEF VideoInv, VideoType
<1>1. PICK o \in EgressOffers :
        /\ eg' = [eg EXCEPT !.run = "peer", !.policy = o.policy, !.mine = o.caps]
        /\ ctl' = <<[kind |-> "hello", policy |-> o.policy, caps |-> o.caps]>>
  BY DEF EgressHello
<1>2. o.policy \in Policies /\ o.caps \in Offered BY VideoLinkAssumption DEF Policies, Offered
<1> DEFINE note == [kind |-> "hello", policy |-> o.policy, caps |-> o.caps]
<1>3. note.kind = "hello" /\ note.policy = o.policy /\ note.caps = o.caps OBVIOUS
<1>4. note \in Notes BY <1>2 DEF Notes
<1> HIDE DEF note
<1>5. ctl' = <<note>> BY <1>1 DEF note
<1>6. Len(ctl') = 1 /\ ctl'[1] = note /\ ctl' \in Seq(Notes) BY <1>4, <1>5
<1>7. /\ eg'.run = "peer" /\ eg'.policy = o.policy /\ eg'.mine = o.caps
      /\ eg'.taken = eg.taken /\ eg'.force = eg.force
      /\ eg'.enc = eg.enc /\ eg'.keyslot = eg.keyslot /\ eg'.delta = eg.delta
      /\ eg'.seq = eg.seq /\ eg'.base = eg.base
  BY <1>0, <1>1 DEF Egresses
<1>8. eg' \in Egresses BY <1>0, <1>1, <1>2 DEF Egresses, EgressRuns
<1>9. eg.run = "hello" /\ media' = media /\ ing' = ing BY DEF EgressHello
<1>10. VideoType' BY <1>6, <1>8, <1>9 DEF VideoInv, VideoType
<1>11. CtlRule' BY <1>3, <1>6, <1>7, <1>9 DEF VideoInv, CtlRule, SameDecision
<1>12. EgressRule(eg)' BY <1>0, <1>7, <1>9 DEF EgressRule
<1>13. PacketRule(media)' BY <1>9 DEF VideoInv, PacketRule
<1>14. OrderRule' BY <1>7, <1>9 DEF VideoInv, OrderRule, Before
<1>15. FeedRule' BY <1>9 DEF VideoInv, FeedRule, ReferencesFed
<1>16. RequestOnItsWay' BY <1>7 DEF RequestOnItsWay
<1> QED BY <1>10, <1>11, <1>12, <1>13, <1>14, <1>15, <1>16 DEF VideoInv

\* The ingress answers.
LEMMA IngressHelloKeeps ==
  ASSUME VideoInv, IngressHello
  PROVE  VideoInv'
<1>0. ing \in Ingresses /\ ctl \in Seq(Notes) BY DEF VideoInv, VideoType
<1>1. PICK o \in IngressOffers :
        /\ ing' = [ing EXCEPT !.run = "up", !.dec = Decide(Head(ctl).policy, Head(ctl).caps, o.caps)]
        /\ ctl' = <<[kind |-> "answer", policy |-> o.policy, caps |-> o.caps]>>
  BY DEF IngressHello
<1>2. o.policy \in Policies /\ o.caps \in Offered BY VideoLinkAssumption DEF Policies, Offered
<1> DEFINE note == [kind |-> "answer", policy |-> o.policy, caps |-> o.caps]
           dec == Decide(Head(ctl).policy, Head(ctl).caps, o.caps)
<1>3. note.kind = "answer" /\ note.caps = o.caps OBVIOUS
<1>4. note \in Notes BY <1>2 DEF Notes
<1>5. dec \in Chromas BY DEF Decide, Chromas
<1>6. ing.run = "hello" /\ eg.run = "peer" /\ Head(ctl).kind = "hello" /\ ctl # <<>>
      /\ media' = media /\ eg' = eg
  BY DEF IngressHello
<1>7. Head(ctl) = ctl[1] BY <1>0, <1>6
<1>8. dec = Decide(eg.policy, eg.mine, o.caps) BY <1>6, <1>7 DEF VideoInv, CtlRule
<1> HIDE DEF note, dec
<1>9. ctl' = <<note>> /\ ing' = [ing EXCEPT !.run = "up", !.dec = dec] BY <1>1 DEF note, dec
<1>10. Len(ctl') = 1 /\ ctl'[1] = note /\ ctl' \in Seq(Notes) BY <1>4, <1>9
<1>11. /\ ing'.run = "up" /\ ing'.dec = dec /\ ing'.last = ing.last /\ ing'.waiting = ing.waiting
       /\ ing'.cfg = ing.cfg /\ ing'.prev = ing.prev /\ ing'.fed = ing.fed
  BY <1>0, <1>9 DEF Ingresses
<1>12. ing' \in Ingresses BY <1>0, <1>5, <1>9 DEF Ingresses, IngressRuns
<1>13. VideoType' BY <1>6, <1>10, <1>12 DEF VideoInv, VideoType
<1>14. CtlRule' BY <1>3, <1>6, <1>8, <1>10, <1>11 DEF VideoInv, CtlRule, SameDecision
<1>15. EgressRule(eg)' BY <1>6 DEF VideoInv, EgressRule
<1>16. PacketRule(media)' BY <1>6 DEF VideoInv, PacketRule
<1>17. OrderRule' BY <1>6, <1>11 DEF VideoInv, OrderRule, Before
<1>18. FeedRule'
  <2>1. media' = <<>> BY <1>6 DEF VideoInv, CtlRule
  <2> QED BY <1>11, <2>1 DEF VideoInv, FeedRule, ReferencesFed
<1>19. RequestOnItsWay' BY <1>6 DEF RequestOnItsWay
<1> QED BY <1>13, <1>14, <1>15, <1>16, <1>17, <1>18, <1>19 DEF VideoInv

\* The egress reads the answer and takes the decision the ingress took.
LEMMA EgressDecidesKeeps ==
  ASSUME VideoInv, EgressDecides
  PROVE  VideoInv'
<1>0. eg \in Egresses /\ EgressRule(eg) /\ ctl \in Seq(Notes) BY DEF VideoInv, VideoType
<1>1. eg.run = "peer" /\ ctl # <<>> /\ Head(ctl).kind = "answer" /\ ctl' = Tail(ctl)
      /\ media' = media /\ ing' = ing
  BY DEF EgressDecides
<1> DEFINE dec == Decide(eg.policy, eg.mine, Head(ctl).caps)
<1>2. dec \in Chromas BY DEF Decide, Chromas
<1>3. Head(ctl) = ctl[1] /\ Len(ctl) = 1 /\ ctl' \in Seq(Notes) /\ Len(ctl') = 0
  <2>1. Len(ctl) = 1 BY <1>1 DEF VideoInv, CtlRule
  <2> QED BY <1>0, <1>1, <2>1, TailOf
<1>4. ing.run = "up" => ing.dec = dec BY <1>1, <1>3 DEF VideoInv, CtlRule
<1>5. ing.run # "hello" BY <1>1, <1>3 DEF VideoInv, CtlRule
<1> HIDE DEF dec
<1>6. eg' = [eg EXCEPT !.run = "up", !.dec = dec, !.policy = "Prefer444", !.mine = {}]
  BY DEF EgressDecides, dec
<1>7. /\ eg'.run = "up" /\ eg'.dec = dec
      /\ eg'.taken = eg.taken /\ eg'.force = eg.force
      /\ eg'.enc = eg.enc /\ eg'.keyslot = eg.keyslot /\ eg'.delta = eg.delta
      /\ eg'.seq = eg.seq /\ eg'.base = eg.base
  BY <1>0, <1>6 DEF Egresses
<1>8. eg' \in Egresses
  <2>1. "Prefer444" \in Policies /\ {} \in Offered BY DEF Policies, Offered
  <2> QED BY <1>0, <1>2, <1>6, <2>1 DEF Egresses, EgressRuns
<1>9. VideoType' BY <1>1, <1>3, <1>8 DEF VideoInv, VideoType
<1>10. CtlRule' BY <1>1, <1>3, <1>4, <1>5, <1>7 DEF VideoInv, CtlRule, SameDecision
<1>11. EgressRule(eg)' BY <1>0, <1>1, <1>7 DEF EgressRule
<1>12. PacketRule(media)' BY <1>1 DEF VideoInv, PacketRule
<1>13. OrderRule' BY <1>1, <1>7 DEF VideoInv, OrderRule, Before
<1>14. FeedRule' BY <1>1 DEF VideoInv, FeedRule, ReferencesFed
<1>15. RequestOnItsWay' BY <1>0, <1>1, <1>7 DEF RequestOnItsWay, EgressRule
<1> QED BY <1>9, <1>10, <1>11, <1>12, <1>13, <1>14, <1>15 DEF VideoInv

\* The ingress' control writer puts a note on the connection.
NoteSent(note) ==
  /\ ing.run = "up" /\ eg.run # "peer" /\ UNCHANGED <<eg, media>>
  /\ note \in Notes /\ note.kind \in {"target", "key"} /\ ctl' = Append(ctl, note)
  /\ ing' \in Ingresses /\ (ing'.requests = ing.requests \/ note.kind = "key")
  /\ ing'.run = ing.run /\ ing'.dec = ing.dec /\ ing'.last = ing.last /\ ing'.waiting = ing.waiting
  /\ ing'.cfg = ing.cfg /\ ing'.prev = ing.prev /\ ing'.fed = ing.fed

\* Such a step keeps the invariant.
LEMMA NoteKeeps ==
  ASSUME VideoInv, NEW note, NoteSent(note)
  PROVE  VideoInv'
<1>0. ctl \in Seq(Notes) BY DEF VideoInv, VideoType
<1>1. note \in Notes /\ ctl' = Append(ctl, note) BY DEF NoteSent
<1>2. /\ ctl' \in Seq(Notes) /\ Len(ctl') = Len(ctl) + 1 /\ ctl'[Len(ctl) + 1] = note /\ Len(ctl) \in Nat
      /\ \A n \in 1..Len(ctl) : ctl'[n] = ctl[n]
      /\ DOMAIN ctl' = 1..(Len(ctl) + 1) /\ DOMAIN ctl = 1..Len(ctl)
  BY <1>0, <1>1
<1>3. /\ ing'.run = ing.run /\ ing'.dec = ing.dec /\ ing'.last = ing.last /\ ing'.waiting = ing.waiting
      /\ ing'.cfg = ing.cfg /\ ing'.prev = ing.prev /\ ing'.fed = ing.fed /\ eg' = eg /\ media' = media
  BY DEF NoteSent
<1>4. VideoType' BY <1>2 DEF VideoInv, VideoType, NoteSent
<1>5. CtlRule'
  <2>1. eg.run # "hello" /\ eg.run # "peer" /\ ing.run = "up" BY DEF VideoInv, CtlRule, NoteSent
  <2>2. ASSUME eg.run \in {"up", "flush", "submit", "drain"}, NEW n \in 1..Len(ctl')
        PROVE  ctl'[n].kind \in {"target", "key"}
    <3>1. CASE n = Len(ctl) + 1 BY <1>2, <3>1 DEF NoteSent
    <3>2. CASE n # Len(ctl) + 1
      <4>1. n \in 1..Len(ctl) BY <1>2, <2>2, <3>2
      <4> QED BY <1>2, <2>2, <4>1 DEF VideoInv, CtlRule
    <3> QED BY <3>1, <3>2
  <2>3. SameDecision' BY <1>3 DEF VideoInv, CtlRule, SameDecision
  <2> QED BY <1>3, <2>1, <2>2, <2>3 DEF CtlRule
<1>6. EgressRule(eg)' BY <1>3 DEF VideoInv, EgressRule
<1>7. PacketRule(media)' BY <1>3 DEF VideoInv, PacketRule
<1>8. OrderRule' BY <1>3 DEF VideoInv, OrderRule, Before
<1>9. FeedRule' BY <1>3 DEF VideoInv, FeedRule, ReferencesFed
<1>10. RequestOnItsWay'
  <2>1. (\E n \in DOMAIN ctl : ctl[n].kind = "key") => \E n \in DOMAIN ctl' : ctl'[n].kind = "key"
    <3>1. ASSUME NEW n \in DOMAIN ctl, ctl[n].kind = "key" PROVE \E k \in DOMAIN ctl' : ctl'[k].kind = "key"
      <4>1. n \in DOMAIN ctl' /\ ctl'[n] = ctl[n] BY <1>2
      <4> QED BY <3>1, <4>1
    <3> QED BY <3>1
  <2>2. note.kind = "key" => \E n \in DOMAIN ctl' : ctl'[n].kind = "key"
    <3>1. Len(ctl) + 1 \in DOMAIN ctl' BY <1>2
    <3> QED BY <1>2, <3>1
  <2>3. ing'.requests = ing.requests \/ note.kind = "key" BY DEF NoteSent
  <2>4. CASE note.kind = "key" BY <2>2, <2>4 DEF RequestOnItsWay
  <2>5. CASE ing'.requests = ing.requests BY <1>3, <2>1, <2>5 DEF VideoInv, RequestOnItsWay
  <2> QED BY <2>3, <2>4, <2>5
<1> QED BY <1>4, <1>5, <1>6, <1>7, <1>8, <1>9, <1>10 DEF VideoInv

\* The target and the keyframe requests.
LEMMA SendControlKeeps ==
  ASSUME VideoInv, SendTarget \/ SendKeyframeRequest
  PROVE  VideoInv'
<1>0. ing \in Ingresses BY DEF VideoInv, VideoType
<1>1. CASE SendTarget
  <2>1. PICK limit \in BOOLEAN : ctl' = Append(ctl, [kind |-> "target", limit |-> limit])
    BY <1>1 DEF SendTarget
  <2> DEFINE note == [kind |-> "target", limit |-> limit]
  <2>2. note \in Notes /\ note.kind = "target" BY DEF Notes
  <2> HIDE DEF note
  <2>3. ctl' = Append(ctl, note) BY <2>1 DEF note
  <2>4. /\ ing' \in Ingresses /\ ing'.requests = ing.requests /\ ing'.run = ing.run
        /\ ing'.dec = ing.dec /\ ing'.last = ing.last /\ ing'.waiting = ing.waiting
        /\ ing'.cfg = ing.cfg /\ ing'.prev = ing.prev /\ ing'.fed = ing.fed
    BY <1>0, <1>1 DEF SendTarget, Ingresses
  <2>5. NoteSent(note) BY <1>1, <2>2, <2>3, <2>4 DEF SendTarget, CanSend, NoteSent
  <2> QED BY <2>5, NoteKeeps
<1>2. CASE SendKeyframeRequest
  <2> DEFINE note == [kind |-> "key"]
             left == ing.requests - 1
  <2>1. note \in Notes /\ note.kind = "key" BY DEF Notes
  <2>2. left \in Asks
    <3>1. ing.requests \in Asks /\ ing.requests > 0 BY <1>0, <1>2 DEF SendKeyframeRequest, Ingresses
    <3> QED BY <3>1, VideoLinkAssumption DEF Asks
  <2> HIDE DEF note, left
  <2>3. ctl' = Append(ctl, note) /\ ing' = [ing EXCEPT !.requests = left]
    BY <1>2 DEF note, left, SendKeyframeRequest
  <2>4. /\ ing' \in Ingresses /\ ing'.run = ing.run
        /\ ing'.dec = ing.dec /\ ing'.last = ing.last /\ ing'.waiting = ing.waiting
        /\ ing'.cfg = ing.cfg /\ ing'.prev = ing.prev /\ ing'.fed = ing.fed
    BY <1>0, <2>2, <2>3 DEF Ingresses
  <2>5. NoteSent(note) BY <1>2, <2>1, <2>3, <2>4 DEF SendKeyframeRequest, CanSend, NoteSent
  <2> QED BY <2>5, NoteKeeps
<1> QED BY <1>1, <1>2

\* The egress' control reader.
LEMMA ReadControlKeeps ==
  ASSUME VideoInv, ReadControl
  PROVE  VideoInv'
<1>0. eg \in Egresses /\ EgressRule(eg) /\ ctl \in Seq(Notes) BY DEF VideoInv, VideoType
<1>1. /\ eg.run \notin {"hello", "peer", "over"} /\ ctl # <<>> /\ ctl' = Tail(ctl)
      /\ media' = media /\ ing' = ing
  BY DEF ReadControl
<1>2. eg.run \in {"up", "flush", "submit", "drain"} BY <1>0, <1>1 DEF Egresses, EgressRuns
<1>3. /\ ctl' \in Seq(Notes) /\ Len(ctl') + 1 = Len(ctl) /\ Len(ctl) \in Nat /\ Len(ctl') \in Nat
      /\ Head(ctl) = ctl[1] /\ Head(ctl) \in Notes /\ 1 \in 1..Len(ctl)
      /\ \A n \in 1..Len(ctl') : ctl'[n] = ctl[n + 1] /\ n + 1 \in 1..Len(ctl)
      /\ DOMAIN ctl = 1..Len(ctl) /\ DOMAIN ctl' = 1..Len(ctl')
  <2>1. Len(ctl) \in Nat /\ Len(ctl) >= 1 BY <1>0, <1>1, TailOf
  <2> QED BY <1>0, <1>1, <2>1, TailOf
<1>4. \A n \in 1..Len(ctl) : ctl[n].kind \in {"target", "key"} BY <1>2 DEF VideoInv, CtlRule
<1>5. Head(ctl).kind \in {"target", "key"} BY <1>3, <1>4
<1>6. /\ eg' \in Egresses /\ eg'.run = eg.run /\ eg'.force = eg.force /\ eg'.enc = eg.enc
      /\ eg'.keyslot = eg.keyslot /\ eg'.delta = eg.delta /\ eg'.cur = eg.cur /\ eg'.seq = eg.seq
      /\ eg'.taken = eg.taken /\ eg'.base = eg.base /\ eg'.dec = eg.dec
      /\ (Head(ctl).kind = "key" => eg'.asked)
      /\ (Head(ctl).kind # "key" => eg'.asked = eg.asked /\ eg'.lost = eg.lost)
  <2>1. CASE Head(ctl).kind = "key"
    <3>1. eg' = [eg EXCEPT !.asked = TRUE, !.lost = FALSE] BY <2>1 DEF ReadControl
    <3> QED BY <1>0, <2>1, <3>1 DEF Egresses
  <2>2. CASE Head(ctl).kind # "key"
    <3>1. eg' = [eg EXCEPT !.limit = Head(ctl).limit] BY <2>2 DEF ReadControl
    <3>2. Head(ctl).limit \in BOOLEAN BY <1>3, <1>5, <2>2 DEF Notes
    <3> QED BY <1>0, <2>2, <3>1, <3>2 DEF Egresses
  <2> QED BY <2>1, <2>2
<1>7. VideoType' BY <1>1, <1>3, <1>6 DEF VideoInv, VideoType
<1>8. CtlRule'
  <2>1. \A n \in 1..Len(ctl') : ctl'[n].kind \in {"target", "key"} BY <1>3, <1>4
  <2> QED BY <1>1, <1>2, <1>6, <2>1 DEF VideoInv, CtlRule, SameDecision
<1>9. EgressRule(eg)' BY <1>0, <1>6 DEF EgressRule
<1>10. PacketRule(media)' BY <1>1 DEF VideoInv, PacketRule
<1>11. OrderRule' BY <1>1, <1>6 DEF VideoInv, OrderRule, Before
<1>12. FeedRule' BY <1>1 DEF VideoInv, FeedRule, ReferencesFed
<1>13. RequestOnItsWay'
  <2>1. CASE Head(ctl).kind = "key" BY <1>6, <2>1 DEF RequestOnItsWay
  <2>2. CASE Head(ctl).kind # "key"
    <3>1. ASSUME NEW n \in DOMAIN ctl, ctl[n].kind = "key" PROVE \E k \in DOMAIN ctl' : ctl'[k].kind = "key"
      <4>1. n # 1 BY <1>3, <2>2, <3>1
      <4>2. n - 1 \in 1..Len(ctl') /\ n - 1 + 1 = n BY <1>3, <4>1
      <4>3. ctl'[n - 1] = ctl[n] BY <1>3, <4>2
      <4> QED BY <1>3, <3>1, <4>2, <4>3
    <3> QED BY <1>1, <1>6, <2>2, <3>1 DEF VideoInv, RequestOnItsWay
  <2> QED BY <2>1, <2>2
<1> QED BY <1>7, <1>8, <1>9, <1>10, <1>11, <1>12, <1>13 DEF VideoInv

\* An ingress half that is new or over has read nothing.
LEMMA IdleIngress ==
  ASSUME NEW g, g = NewIngress \/ g = [NewIngress EXCEPT !.run = "over", !.stop = TRUE]
  PROVE  /\ g \in Ingresses /\ g.run \in {"hello", "over"} /\ g.last = 0 /\ g.waiting = TRUE
         /\ g.cfg = 0 /\ g.fed = NoFrame
<1>1. 0 \in Numbers /\ 0 \in Widths /\ 0 \in Asks BY VideoLinkAssumption DEF Numbers, Widths, Asks
<1>2. NoFrame \in Frames
  <2> DEFINE zero == 0
             yes == TRUE
             numbers == 0..MaxFrames
  <2>1. /\ NoFrame = [seq |-> zero, key |-> yes, base |-> zero, size |-> zero]
        /\ zero \in numbers /\ zero \in Widths /\ yes \in BOOLEAN
        /\ Frames = [seq: numbers, key: BOOLEAN, base: numbers, size: Widths]
    BY <1>1 DEF NoFrame, Frames, Widths, Numbers
  <2> HIDE DEF zero, yes, numbers
  <2> QED BY <2>1, Zenon
<1>3. <<>> \in Slots BY DEF Slots
<1> DEFINE zero == 0
           empty == <<>>
           yes == TRUE
           no == FALSE
           flags == BOOLEAN
           Idle(run, stop) ==
             [run |-> run, stop |-> stop, dec |-> "none", target |-> no, last |-> zero, waiting |-> yes,
              cfg |-> zero, requests |-> zero, queue |-> empty, prev |-> zero, fed |-> NoFrame]
<1>4. g = Idle("hello", no) \/ g = Idle("over", yes)
  <2>1. CASE g = NewIngress BY <2>1 DEF NewIngress
  <2>2. CASE g = [NewIngress EXCEPT !.run = "over", !.stop = TRUE] BY <2>2 DEF NewIngress
  <2> QED BY <2>1, <2>2
<1>5. /\ zero \in Numbers /\ zero \in Widths /\ zero \in Asks /\ empty \in Slots
      /\ yes \in flags /\ no \in flags /\ "none" \in Chromas
      /\ "hello" \in IngressRuns /\ "over" \in IngressRuns
  BY <1>1, <1>3 DEF Chromas, IngressRuns
<1>6. Ingresses = [run: IngressRuns, stop: flags, dec: Chromas, target: flags,
                   last: Numbers, waiting: flags, cfg: Widths, requests: Asks, queue: Slots,
                   prev: Numbers, fed: Frames]
  BY DEF Ingresses
<1>7. g.run \in {"hello", "over"} /\ g.last = 0 /\ g.waiting = TRUE /\ g.cfg = 0 /\ g.fed = NoFrame
  <2>1. CASE g = NewIngress BY <2>1 DEF NewIngress
  <2>2. CASE g = [NewIngress EXCEPT !.run = "over", !.stop = TRUE] BY <2>2 DEF NewIngress
  <2> QED BY <2>1, <2>2
<1>8. g \in Ingresses
  <2> HIDE DEF zero, empty, yes, no, flags
  <2>1. \A run \in IngressRuns, stop \in flags : Idle(run, stop) \in Ingresses
    BY <1>2, <1>5, <1>6
  <2> HIDE DEF Idle
  <2> QED BY <1>4, <1>5, <2>1
<1> QED BY <1>7, <1>8

\* The ingress half is over and its connection shut.
LEMMA IngressOverKeeps ==
  ASSUME VideoInv, IngressOver
  PROVE  VideoInv'
<1>1. /\ ing' = [NewIngress EXCEPT !.run = "over", !.stop = TRUE] /\ media' = <<>>
      /\ eg' = eg /\ ctl' = ctl
  BY DEF IngressOver
<1>2. /\ ing' \in Ingresses /\ ing'.run = "over" /\ ing'.last = 0 /\ ing'.waiting = TRUE
      /\ ing'.cfg = 0 /\ ing'.fed = NoFrame
  <2>1. ing'.run = "over" BY <1>1 DEF NewIngress
  <2> QED BY <1>1, <2>1, IdleIngress
<1>3. Len(media') = 0 /\ media' \in Seq(Packets) BY <1>1
<1>4. VideoType' BY <1>1, <1>2, <1>3 DEF VideoInv, VideoType
<1>5. CtlRule' BY <1>1, <1>2 DEF VideoInv, CtlRule, SameDecision
<1>6. EgressRule(eg)' BY <1>1 DEF VideoInv, EgressRule
<1>7. PacketRule(media)' BY <1>3 DEF PacketRule
<1>8. OrderRule'
  <2>1. eg \in Egresses /\ EgressRule(eg) BY DEF VideoInv, VideoType
  <2>2. /\ eg.seq \in Nat /\ (eg.keyslot # <<>> => eg.keyslot[1].seq \in Nat)
        /\ (eg.delta # <<>> => eg.delta[1].seq \in Nat /\ eg.delta[1].base \in Nat)
    BY <2>1, EgressTypes
  <2>3. /\ 0 <= eg.seq /\ (eg.keyslot # <<>> => 0 < eg.keyslot[1].seq)
        /\ (eg.delta # <<>> => 0 < eg.delta[1].seq)
    BY <2>1, <2>2 DEF EgressRule
  <2> QED BY <1>1, <1>2, <1>3, <2>3 DEF OrderRule, Before
<1>9. FeedRule'
  <2>1. NoFrame.key BY DEF NoFrame
  <2> QED BY <1>2, <2>1 DEF FeedRule, ReferencesFed
<1>10. RequestOnItsWay' BY <1>2 DEF RequestOnItsWay
<1> QED BY <1>4, <1>5, <1>6, <1>7, <1>8, <1>9, <1>10 DEF VideoInv

-----------------------------------------------------------------------------
(* The media connection.                                                   *)

\* The packets carry numbers.
LEMMA PacketNumbers ==
  ASSUME NEW m \in Seq(Packets)
  PROVE  /\ Len(m) \in Nat /\ DOMAIN m = 1..Len(m)
         /\ \A n \in 1..Len(m) : /\ m[n] \in Packets /\ m[n].frame \in Frames
                                 /\ m[n].frame.seq \in Nat /\ m[n].frame.base \in Nat
<1>0. MaxFrames \in Nat BY VideoLinkAssumption
<1>1. \A f \in Frames : f.seq \in Nat /\ f.base \in Nat BY <1>0 DEF Frames
<1>2. \A p \in Packets : p.frame \in Frames BY DEF Packets
<1>3. Len(m) \in Nat /\ DOMAIN m = 1..Len(m) /\ \A n \in 1..Len(m) : m[n] \in Packets OBVIOUS
<1> QED BY <1>1, <1>2, <1>3

\* Without its head the connection is still in order.
LEMMA PacketsTail ==
  ASSUME NEW m \in Seq(Packets), m # <<>>, PacketRule(m)
  PROVE  PacketRule(Tail(m))
<1> DEFINE v == Tail(m)
<1>1. /\ Len(v) + 1 = Len(m) /\ Len(v) \in Nat /\ Len(m) \in Nat
      /\ \A n \in 1..Len(v) : v[n] = m[n + 1] /\ n + 1 \in 1..Len(m)
  BY TailOf
<1> HIDE DEF v
<1>2. \A n \in 1..Len(v) : v[n].frame.size \in Sizes BY <1>1 DEF PacketRule
<1>3. \A n \in 1..Len(v) : v[n].kind = "frame" /\ ~v[n].frame.key => v[n].frame.base + 1 = v[n].frame.seq
  BY <1>1 DEF PacketRule
<1>4. ASSUME NEW n \in 1..Len(v), NEW k \in 1..Len(v), n < k
      PROVE  v[n].frame.seq <= v[k].frame.seq /\ (v[n].kind = "frame" => v[n].frame.seq < v[k].frame.seq)
  <2>1. n + 1 < k + 1 BY <1>4
  <2>2. n + 1 \in 1..Len(m) /\ k + 1 \in 1..Len(m) /\ v[n] = m[n + 1] /\ v[k] = m[k + 1] BY <1>1
  <2> QED BY <2>1, <2>2 DEF PacketRule
<1>5. ASSUME NEW n \in 1..Len(v), v[n].kind = "config"
      PROVE  n + 1 <= Len(v) /\ v[n].frame.key /\ v[n + 1] = [kind |-> "frame", frame |-> v[n].frame]
  <2>1. n + 1 \in 1..Len(m) /\ v[n] = m[n + 1] BY <1>1
  <2>2. /\ n + 1 + 1 <= Len(m) /\ m[n + 1].frame.key
        /\ m[n + 1 + 1] = [kind |-> "frame", frame |-> m[n + 1].frame]
    BY <1>5, <2>1 DEF PacketRule
  <2>3. n + 1 <= Len(v) /\ n + 1 \in 1..Len(v) BY <1>1, <2>2
  <2>4. v[n + 1] = m[n + 1 + 1] BY <1>1, <2>3
  <2> QED BY <2>1, <2>2, <2>3, <2>4
<1>6. ASSUME NEW n \in 1..Len(v), v[n].kind = "frame", v[n].frame.key, n # 1
      PROVE  v[n - 1].kind = "config"
  <2>1. n + 1 \in 1..Len(m) /\ v[n] = m[n + 1] /\ n + 1 # 1 /\ n + 1 - 1 = n BY <1>1
  <2>2. m[n].kind = "config" BY <1>6, <2>1 DEF PacketRule
  <2>3. n - 1 \in 1..Len(v) /\ n - 1 + 1 = n BY <1>1, <1>6
  <2>4. v[n - 1] = m[n] BY <1>1, <2>3
  <2> QED BY <2>2, <2>4
<1>7. PacketRule(v) BY <1>2, <1>3, <1>4, <1>5, <1>6 DEF PacketRule
<1> QED BY <1>7 DEF v

\* A delta is put behind the packets it follows.
LEMMA PacketsDelta ==
  ASSUME NEW m \in Seq(Packets), PacketRule(m), NEW x \in Frames, x.size \in Sizes, ~x.key,
         x.base + 1 = x.seq, Before(m, x.seq)
  PROVE  PacketRule(Append(m, [kind |-> "frame", frame |-> x]))
<1> DEFINE p == [kind |-> "frame", frame |-> x]
           v == Append(m, p)
<1>1. p.kind = "frame" /\ p.frame = x /\ p \in Packets BY DEF Packets
<1> HIDE DEF p
<1>2. /\ Len(v) = Len(m) + 1 /\ Len(m) \in Nat /\ v[Len(m) + 1] = p
      /\ \A n \in 1..Len(m) : v[n] = m[n]
  BY <1>1
<1> HIDE DEF v
<1>3. \A n \in 1..Len(v) : n \in 1..Len(m) \/ n = Len(m) + 1 BY <1>2
<1>4. \A n \in 1..Len(v) : v[n].frame.size \in Sizes BY <1>1, <1>2, <1>3 DEF PacketRule
<1>5. \A n \in 1..Len(v) : v[n].kind = "frame" /\ ~v[n].frame.key => v[n].frame.base + 1 = v[n].frame.seq
  BY <1>1, <1>2, <1>3 DEF PacketRule
<1>6. ASSUME NEW n \in 1..Len(v), NEW k \in 1..Len(v), n < k
      PROVE  v[n].frame.seq <= v[k].frame.seq /\ (v[n].kind = "frame" => v[n].frame.seq < v[k].frame.seq)
  <2>1. n \in 1..Len(m) /\ v[n] = m[n] BY <1>2, <1>3, <1>6
  <2>2. CASE k \in 1..Len(m) BY <1>2, <1>6, <2>1, <2>2 DEF PacketRule
  <2>3. CASE k = Len(m) + 1
    <3>1. m[n].frame.seq < x.seq BY <2>1 DEF Before
    <3>2. m[n].frame.seq \in Nat /\ x.seq \in Nat
      <4>1. x.seq \in Nat BY VideoLinkAssumption DEF Frames
      <4> QED BY <2>1, <4>1, PacketNumbers
    <3> QED BY <1>1, <1>2, <2>1, <2>3, <3>1, <3>2
  <2> QED BY <1>3, <2>2, <2>3
<1>7. ASSUME NEW n \in 1..Len(v), v[n].kind = "config"
      PROVE  n + 1 <= Len(v) /\ v[n].frame.key /\ v[n + 1] = [kind |-> "frame", frame |-> v[n].frame]
  <2>1. n \in 1..Len(m) /\ v[n] = m[n]
    <3>1. n # Len(m) + 1 BY <1>1, <1>2, <1>7
    <3> QED BY <1>2, <1>3, <3>1
  <2>2. n + 1 <= Len(m) /\ m[n].frame.key /\ m[n + 1] = [kind |-> "frame", frame |-> m[n].frame]
    BY <1>7, <2>1 DEF PacketRule
  <2>3. n + 1 \in 1..Len(m) /\ n + 1 <= Len(v) BY <1>2, <2>1, <2>2
  <2> QED BY <1>2, <2>1, <2>2, <2>3
<1>8. ASSUME NEW n \in 1..Len(v), v[n].kind = "frame", v[n].frame.key, n # 1
      PROVE  v[n - 1].kind = "config"
  <2>1. n \in 1..Len(m) /\ v[n] = m[n]
    <3>1. n # Len(m) + 1 BY <1>1, <1>2, <1>8
    <3> QED BY <1>2, <1>3, <3>1
  <2>2. n - 1 \in 1..Len(m) BY <1>2, <1>8, <2>1
  <2> QED BY <1>2, <1>8, <2>1, <2>2 DEF PacketRule
<1>9. PacketRule(v) BY <1>4, <1>5, <1>6, <1>7, <1>8 DEF PacketRule
<1> QED BY <1>9 DEF v, p

\* A keyframe is put behind them with its configuration.
LEMMA PacketsKey ==
  ASSUME NEW m \in Seq(Packets), PacketRule(m), NEW x \in Frames, x.size \in Sizes, x.key,
         Before(m, x.seq)
  PROVE  PacketRule(m \o <<[kind |-> "config", frame |-> x], [kind |-> "frame", frame |-> x]>>)
<1> DEFINE c == [kind |-> "config", frame |-> x]
           p == [kind |-> "frame", frame |-> x]
           v == m \o <<c, p>>
<1>1. /\ p.kind = "frame" /\ p.frame = x /\ p \in Packets /\ c.kind = "config" /\ c.frame = x
      /\ c \in Packets /\ p = [kind |-> "frame", frame |-> c.frame]
  BY DEF Packets
<1> HIDE DEF p, c
<1>2. /\ Len(v) = Len(m) + 2 /\ Len(m) \in Nat /\ v[Len(m) + 1] = c /\ v[Len(m) + 2] = p
      /\ \A n \in 1..Len(m) : v[n] = m[n]
  BY <1>1
<1> HIDE DEF v
<1>3. \A n \in 1..Len(v) : n \in 1..Len(m) \/ n = Len(m) + 1 \/ n = Len(m) + 2 BY <1>2
<1>4. \A n \in 1..Len(v) : v[n].frame.size \in Sizes BY <1>1, <1>2, <1>3 DEF PacketRule
<1>5. \A n \in 1..Len(v) : v[n].kind = "frame" /\ ~v[n].frame.key => v[n].frame.base + 1 = v[n].frame.seq
  BY <1>1, <1>2, <1>3 DEF PacketRule
<1>6. ASSUME NEW n \in 1..Len(v), NEW k \in 1..Len(v), n < k
      PROVE  v[n].frame.seq <= v[k].frame.seq /\ (v[n].kind = "frame" => v[n].frame.seq < v[k].frame.seq)
  <2>0. x.seq \in Nat BY VideoLinkAssumption DEF Frames
  <2>1. CASE n \in 1..Len(m) /\ k \in 1..Len(m) BY <1>2, <1>6, <2>1 DEF PacketRule
  <2>2. CASE n \in 1..Len(m) /\ k \notin 1..Len(m)
    <3>1. m[n].frame.seq < x.seq BY <2>2 DEF Before
    <3>2. m[n].frame.seq \in Nat BY <2>2, PacketNumbers
    <3>3. v[k].frame = x BY <1>1, <1>2, <1>3, <2>2
    <3> QED BY <1>2, <2>0, <2>2, <3>1, <3>2, <3>3
  <2>3. CASE n \notin 1..Len(m)
    <3>1. n = Len(m) + 1 /\ k = Len(m) + 2 BY <1>2, <1>3, <1>6, <2>3
    <3> QED BY <1>1, <1>2, <2>0, <3>1
  <2> QED BY <2>1, <2>2, <2>3
<1>7. ASSUME NEW n \in 1..Len(v), v[n].kind = "config"
      PROVE  n + 1 <= Len(v) /\ v[n].frame.key /\ v[n + 1] = [kind |-> "frame", frame |-> v[n].frame]
  <2>1. CASE n \in 1..Len(m)
    <3>1. n + 1 <= Len(m) /\ m[n].frame.key /\ m[n + 1] = [kind |-> "frame", frame |-> m[n].frame]
      BY <1>2, <1>7, <2>1 DEF PacketRule
    <3>2. n + 1 \in 1..Len(m) /\ n + 1 <= Len(v) BY <1>2, <2>1, <3>1
    <3> QED BY <1>2, <2>1, <3>1, <3>2
  <2>2. CASE n \notin 1..Len(m)
    <3>1. n = Len(m) + 1
      <4>1. n # Len(m) + 2 BY <1>1, <1>2, <1>7
      <4> QED BY <1>3, <2>2, <4>1
    <3>2. n + 1 = Len(m) + 2 /\ n + 1 <= Len(v) BY <1>2, <3>1
    <3> QED BY <1>1, <1>2, <3>1, <3>2
  <2> QED BY <2>1, <2>2
<1>8. ASSUME NEW n \in 1..Len(v), v[n].kind = "frame", v[n].frame.key, n # 1
      PROVE  v[n - 1].kind = "config"
  <2>1. CASE n \in 1..Len(m)
    <3>1. n - 1 \in 1..Len(m) BY <1>2, <1>8, <2>1
    <3> QED BY <1>2, <1>8, <2>1, <3>1 DEF PacketRule
  <2>2. CASE n \notin 1..Len(m)
    <3>1. n = Len(m) + 2
      <4>1. n # Len(m) + 1 BY <1>1, <1>2, <1>8
      <4> QED BY <1>3, <2>2, <4>1
    <3>2. n - 1 = Len(m) + 1 BY <1>2, <3>1
    <3> QED BY <1>1, <1>2, <3>2
  <2> QED BY <2>1, <2>2
<1>9. PacketRule(v) BY <1>4, <1>5, <1>6, <1>7, <1>8 DEF PacketRule
<1> QED BY <1>9 DEF v, p, c

\* The sender writes the packets of frame x behind what is on the connection, and its slots
\* are empty or hold what comes after x.
Sends(x) ==
  /\ UNCHANGED <<ctl, ing>> /\ eg.run \in Busy
  /\ media' \in Seq(Packets) /\ PacketRule(media') /\ Len(media') > Len(media)
  /\ \A n \in 1..Len(media) : media'[n] = media[n]
  /\ \A n \in 1..Len(media') : n > Len(media) => media'[n].frame = x
  /\ x.seq \in Nat /\ ing.last < x.seq /\ x.seq <= eg.seq
  /\ media = <<>> => media'[1].kind = "config" \/ ~media'[1].frame.key
  /\ eg' \in Egresses /\ EgressRule(eg') /\ eg'.run = eg.run /\ eg'.dec = eg.dec /\ eg'.seq = eg.seq
  /\ eg'.asked = eg.asked /\ eg'.force = eg.force /\ eg'.lost = eg.lost /\ eg'.enc = eg.enc
  /\ eg'.keyslot = <<>> /\ (eg.keyslot # <<>> => x.key)
  /\ eg'.delta # <<>> => eg'.delta = eg.delta /\ x.seq < eg.delta[1].seq

\* Such a step keeps the invariant.
LEMMA SendsKeeps ==
  ASSUME VideoInv, NEW x, Sends(x)
  PROVE  VideoInv'
<1>1. /\ ctl' = ctl /\ ing' = ing /\ media' \in Seq(Packets) /\ eg' \in Egresses
      /\ eg'.run = eg.run /\ eg'.dec = eg.dec /\ eg'.seq = eg.seq
      /\ eg.run \in {"up", "submit", "flush", "drain"}
  BY DEF Sends, Busy
<1>2. VideoType' BY <1>1 DEF VideoInv, VideoType
<1>3. CtlRule' BY <1>1 DEF VideoInv, CtlRule, SameDecision
<1>4. EgressRule(eg)' BY DEF Sends, EgressRule
<1>5. PacketRule(media)' BY DEF Sends, PacketRule
<1>6. /\ Len(media) \in Nat /\ Len(media') \in Nat /\ Len(media') > Len(media) /\ ing.last \in Nat
      /\ DOMAIN media = 1..Len(media) /\ DOMAIN media' = 1..Len(media')
      /\ \A n \in 1..Len(media) : media[n].frame.seq \in Nat
  <2>1. media \in Seq(Packets) BY DEF VideoInv, VideoType
  <2>2. ing.last \in Nat BY VideoTypes DEF VideoInv
  <2>3. Len(media') > Len(media) BY DEF Sends
  <2> QED BY <1>1, <2>1, <2>2, <2>3, PacketNumbers
<1>7. \A n \in 1..Len(media) : media'[n] = media[n] BY DEF Sends
<1>8. \A n \in 1..Len(media') : n \in 1..Len(media) \/ media'[n].frame = x
  <2>1. \A n \in 1..Len(media') : n > Len(media) => media'[n].frame = x BY DEF Sends
  <2>2. \A n \in 1..Len(media') : n > Len(media) \/ n \in 1..Len(media) BY <1>6
  <2> QED BY <2>1, <2>2
<1>9. x.seq \in Nat /\ ing.last < x.seq /\ x.seq <= eg.seq BY DEF Sends
<1>10. OrderRule'
  <2>1. /\ \A n \in 1..Len(media) : media[n].frame.seq > ing.last /\ media[n].frame.seq <= eg.seq
        /\ ing.last <= eg.seq
    BY <1>1 DEF VideoInv, OrderRule
  <2>2. \A n \in 1..Len(media') : media'[n].frame.seq > ing.last /\ media'[n].frame.seq <= eg.seq
    BY <1>6, <1>7, <1>8, <1>9, <2>1
  <2>3. ASSUME eg'.delta # <<>>
        PROVE  ing.last < eg'.delta[1].seq /\ Before(media', eg'.delta[1].seq)
    <3>1. eg'.delta = eg.delta /\ eg.delta # <<>> /\ x.seq < eg.delta[1].seq BY <2>3 DEF Sends
    <3>2. ing.last < eg.delta[1].seq /\ Before(media, eg.delta[1].seq) BY <3>1 DEF VideoInv, OrderRule
    <3>3. \A n \in 1..Len(media') : media'[n].frame.seq < eg.delta[1].seq
      BY <1>7, <1>8, <3>1, <3>2 DEF Before
    <3> QED BY <3>1, <3>2, <3>3 DEF Before
  <2>4. eg'.keyslot = <<>> BY DEF Sends
  <2> QED BY <1>1, <2>1, <2>2, <2>3, <2>4 DEF OrderRule, Before
<1>11. FeedRule'
  <2>1. media # <<>> => media'[1] = media[1]
    <3>1. media # <<>> => 1 \in 1..Len(media)
      <4>1. media \in Seq(Packets) BY DEF VideoInv, VideoType
      <4> QED BY <4>1
    <3> QED BY <1>7, <3>1
  <2>2. media = <<>> => media'[1].kind = "config" \/ ~media'[1].frame.key BY DEF Sends
  <2> QED BY <1>1, <2>1, <2>2 DEF VideoInv, FeedRule, ReferencesFed
<1>12. RequestOnItsWay'
  <2>1. ASSUME NEW n \in DOMAIN media, media[n].frame.key PROVE \E k \in DOMAIN media' : media'[k].frame.key
    <3>1. n \in DOMAIN media' /\ media'[n] = media[n] BY <1>6, <1>7
    <3> QED BY <2>1, <3>1
  <2>2. ASSUME eg.keyslot # <<>> PROVE \E k \in DOMAIN media' : media'[k].frame.key
    <3>1. Len(media') \in 1..Len(media') /\ Len(media') \notin 1..Len(media) BY <1>6
    <3>2. media'[Len(media')].frame = x BY <1>8, <3>1
    <3>3. x.key BY <2>2 DEF Sends
    <3> QED BY <1>6, <3>1, <3>2, <3>3
  <2>3. /\ eg'.asked = eg.asked /\ eg'.force = eg.force /\ eg'.lost = eg.lost /\ eg'.enc = eg.enc
    BY DEF Sends
  <2> QED BY <1>1, <2>1, <2>2, <2>3 DEF VideoInv, RequestOnItsWay
<1> QED BY <1>2, <1>3, <1>4, <1>5, <1>10, <1>11, <1>12 DEF VideoInv

\* The sender.
LEMMA SendMediaKeeps ==
  ASSUME VideoInv, SendMedia
  PROVE  VideoInv'
<1>0. eg \in Egresses /\ EgressRule(eg) /\ media \in Seq(Packets) /\ PacketRule(media)
  BY DEF VideoInv, VideoType
<1>1. eg.run \in Busy /\ UNCHANGED <<ctl, ing>>
  BY <1>0 DEF SendMedia, Busy, Egresses, EgressRuns
<1>2. /\ eg.seq \in Nat /\ Len(eg.enc) \in Nat
      /\ eg.keyslot # <<>> => eg.keyslot[1] \in Frames /\ eg.keyslot[1].seq \in Nat
      /\ eg.delta # <<>> => eg.delta[1] \in Frames /\ eg.delta[1].seq \in Nat
  BY <1>0, EgressTypes
<1>3. Len(media) \in Nat BY <1>0, PacketNumbers
<1>4. <<>> \in Slots BY DEF Slots
<1>5. CASE /\ eg.keyslot # <<>>
           /\ media' = media \o <<[kind |-> "config", frame |-> eg.keyslot[1]],
                                  [kind |-> "frame", frame |-> eg.keyslot[1]]>>
           /\ eg' = [eg EXCEPT !.keyslot = <<>>]
  <2> DEFINE x == eg.keyslot[1]
             c == [kind |-> "config", frame |-> x]
             p == [kind |-> "frame", frame |-> x]
  <2>1. /\ x \in Frames /\ x.seq \in Nat /\ x.key /\ x.size \in Sizes /\ x.seq <= eg.seq
        /\ (eg.delta # <<>> => x.seq < eg.delta[1].seq)
    BY <1>0, <1>2, <1>5 DEF EgressRule
  <2>2. ing.last < x.seq /\ Before(media, x.seq) BY <1>5 DEF VideoInv, OrderRule
  <2>3. media' = media \o <<c, p>> /\ eg.keyslot # <<>> BY <1>5
  <2>4. eg' = [eg EXCEPT !.keyslot = <<>>] BY <1>5
  <2> HIDE DEF x
  <2>5. c \in Packets /\ p \in Packets /\ c.frame = x /\ p.frame = x /\ c.kind = "config"
    BY <2>1 DEF Packets
  <2>6. PacketRule(media') BY <1>0, <2>1, <2>2, <2>3, PacketsKey
  <2> HIDE DEF c, p
  <2>7. /\ media' \in Seq(Packets) /\ Len(media') = Len(media) + 2
        /\ media'[Len(media) + 1] = c /\ media'[Len(media) + 2] = p
        /\ \A n \in 1..Len(media) : media'[n] = media[n]
    BY <1>0, <2>3, <2>5
  <2>8. \A n \in 1..Len(media') : n > Len(media) => media'[n].frame = x
    <3>1. \A n \in 1..Len(media') : n > Len(media) => n = Len(media) + 1 \/ n = Len(media) + 2
      BY <1>3, <2>7
    <3> QED BY <2>5, <2>7, <3>1
  <2>9. media = <<>> => media'[1].kind = "config"
    <3>1. media = <<>> => Len(media) = 0 OBVIOUS
    <3> QED BY <2>5, <2>7, <3>1
  <2>10. /\ eg'.run = eg.run /\ eg'.dec = eg.dec /\ eg'.seq = eg.seq /\ eg'.delta = eg.delta
         /\ eg'.asked = eg.asked /\ eg'.force = eg.force /\ eg'.lost = eg.lost /\ eg'.enc = eg.enc
         /\ eg'.keyslot = <<>> /\ eg'.cur = eg.cur /\ eg'.taken = eg.taken /\ eg'.base = eg.base
    BY <1>0, <2>4 DEF Egresses
  <2>11. eg' \in Egresses BY <1>0, <1>4, <2>4 DEF Egresses
  <2>12. EgressRule(eg') BY <1>0, <2>10 DEF EgressRule
  <2>13. Len(media') > Len(media) BY <1>3, <2>7
  <2>14. Sends(x)
    BY <1>1, <2>1, <2>2, <2>6, <2>7, <2>8, <2>9, <2>10, <2>11, <2>12, <2>13 DEF Sends
  <2> QED BY <2>14, SendsKeeps
<1>6. CASE /\ eg.keyslot = <<>> /\ eg.delta # <<>>
           /\ media' = Append(media, [kind |-> "frame", frame |-> eg.delta[1]])
           /\ eg' = [eg EXCEPT !.delta = <<>>]
  <2> DEFINE x == eg.delta[1]
             p == [kind |-> "frame", frame |-> x]
  <2>1. x \in Frames /\ x.seq \in Nat /\ ~x.key /\ x.size \in Sizes /\ x.seq <= eg.seq
        /\ x.base + 1 = x.seq
    BY <1>0, <1>2, <1>6 DEF EgressRule
  <2>2. ing.last < x.seq /\ Before(media, x.seq) BY <1>6 DEF VideoInv, OrderRule
  <2>3. media' = Append(media, p) /\ eg.keyslot = <<>> BY <1>6
  <2>4. eg' = [eg EXCEPT !.delta = <<>>] BY <1>6
  <2> HIDE DEF x
  <2>5. p \in Packets /\ p.frame = x BY <2>1 DEF Packets
  <2>6. PacketRule(media') BY <1>0, <2>1, <2>2, <2>3, PacketsDelta
  <2> HIDE DEF p
  <2>7. /\ media' \in Seq(Packets) /\ Len(media') = Len(media) + 1 /\ media'[Len(media) + 1] = p
        /\ \A n \in 1..Len(media) : media'[n] = media[n]
    BY <1>0, <2>3, <2>5
  <2>8. \A n \in 1..Len(media') : n > Len(media) => media'[n].frame = x
    <3>1. \A n \in 1..Len(media') : n > Len(media) => n = Len(media) + 1 BY <1>3, <2>7
    <3> QED BY <2>5, <2>7, <3>1
  <2>9. media = <<>> => ~media'[1].frame.key
    <3>1. media = <<>> => Len(media) = 0 OBVIOUS
    <3> QED BY <2>1, <2>5, <2>7, <3>1
  <2>10. /\ eg'.run = eg.run /\ eg'.dec = eg.dec /\ eg'.seq = eg.seq /\ eg'.delta = <<>>
         /\ eg'.asked = eg.asked /\ eg'.force = eg.force /\ eg'.lost = eg.lost /\ eg'.enc = eg.enc
         /\ eg'.keyslot = <<>> /\ eg'.cur = eg.cur /\ eg'.taken = eg.taken /\ eg'.base = eg.base
    BY <1>0, <2>3, <2>4 DEF Egresses
  <2>11. eg' \in Egresses BY <1>0, <1>4, <2>4 DEF Egresses
  <2>12. EgressRule(eg') BY <1>0, <2>10 DEF EgressRule
  <2>13. Len(media') > Len(media) BY <1>3, <2>7
  <2>14. Sends(x)
    BY <1>1, <2>1, <2>2, <2>3, <2>6, <2>7, <2>8, <2>9, <2>10, <2>11, <2>12, <2>13 DEF Sends
  <2> QED BY <2>14, SendsKeeps
<1> QED BY <1>5, <1>6 DEF SendMedia

\* The ingress takes the head of the connection: what is left comes after it.
Reads(f) ==
  /\ UNCHANGED <<eg, ctl>> /\ ing.run = "up" /\ media # <<>> /\ media' = Tail(media)
  /\ f = Head(media).frame /\ ing' \in Ingresses
  /\ ing'.run \in {"up", "drain"} /\ ing'.dec = ing.dec

\* What is known of the packet read and of those left.
LEMMA ReadsTail ==
  ASSUME VideoInv, NEW f, Reads(f)
  PROVE  /\ media' \in Seq(Packets) /\ PacketRule(media') /\ Len(media') + 1 = Len(media)
         /\ Len(media') \in Nat /\ 1 \in 1..Len(media) /\ Head(media) = media[1] /\ Head(media) \in Packets
         /\ f \in Frames /\ f.seq \in Nat /\ f.base \in Nat /\ f.size \in Sizes /\ ing.last < f.seq
         /\ \A n \in 1..Len(media') : media'[n] = media[n + 1] /\ n + 1 \in 1..Len(media)
         /\ DOMAIN media = 1..Len(media) /\ DOMAIN media' = 1..Len(media')
<1>0. media \in Seq(Packets) /\ PacketRule(media) BY DEF VideoInv, VideoType
<1>1. media # <<>> /\ media' = Tail(media) /\ f = Head(media).frame BY DEF Reads
<1>2. PacketRule(media') BY <1>0, <1>1, PacketsTail
<1>3. /\ media' \in Seq(Packets) /\ Len(media') + 1 = Len(media) /\ Len(media') \in Nat
      /\ Len(media) \in Nat /\ Len(media) >= 1 /\ Head(media) = media[1] /\ Head(media) \in Packets
      /\ \A n \in 1..Len(media') : media'[n] = media[n + 1] /\ n + 1 \in 1..Len(media)
      /\ DOMAIN media = 1..Len(media) /\ DOMAIN media' = 1..Len(media')
  BY <1>0, <1>1, TailOf
<1>4. 1 \in 1..Len(media) BY <1>3
<1>5. f \in Frames /\ f.seq \in Nat /\ f.base \in Nat BY <1>0, <1>1, <1>3, <1>4, PacketNumbers
<1>6. f.size \in Sizes BY <1>0, <1>1, <1>3, <1>4 DEF PacketRule
<1>7. ing.last < f.seq BY <1>1, <1>3, <1>4, <1>5, VideoTypes DEF VideoInv, OrderRule
<1> QED BY <1>2, <1>3, <1>4, <1>5, <1>6, <1>7

\* What a read keeps whatever it does with the packet.
LEMMA ReadsKeep ==
  ASSUME VideoInv, NEW f, Reads(f),
         ing'.last = ing.last \/ (ing'.last = f.seq /\ Head(media).kind = "frame")
  PROVE  VideoType' /\ CtlRule' /\ EgressRule(eg)' /\ PacketRule(media)' /\ OrderRule'
<1>0. /\ media' \in Seq(Packets) /\ PacketRule(media') /\ Len(media') + 1 = Len(media)
      /\ Len(media') \in Nat /\ 1 \in 1..Len(media) /\ Head(media) = media[1]
      /\ f.seq \in Nat /\ ing.last < f.seq
      /\ \A n \in 1..Len(media') : media'[n] = media[n + 1] /\ n + 1 \in 1..Len(media)
  BY ReadsTail
<1>1. /\ eg' = eg /\ ctl' = ctl /\ ing' \in Ingresses /\ ing.run = "up" /\ ing'.run \in {"up", "drain"}
      /\ ing'.dec = ing.dec /\ f = Head(media).frame
  BY DEF Reads
<1>2. VideoType' BY <1>0, <1>1 DEF VideoInv, VideoType
<1>3. CtlRule' BY <1>1 DEF VideoInv, CtlRule, SameDecision
<1>4. EgressRule(eg)' BY <1>1 DEF VideoInv, EgressRule
<1>5. PacketRule(media)' BY <1>0 DEF PacketRule
<1>6. ing.last \in Nat /\ \A n \in 1..Len(media) : media[n].frame.seq \in Nat BY VideoTypes DEF VideoInv
<1>7. ing'.last <= f.seq /\ ing'.last \in Nat BY <1>0, <1>6
<1>8. OrderRule'
  <2>1. \A n \in 1..Len(media) : media[n].frame.seq > ing.last BY DEF VideoInv, OrderRule
  <2>2. ASSUME NEW n \in 1..Len(media') PROVE media'[n].frame.seq > ing'.last
    <3>1. media'[n] = media[n + 1] /\ n + 1 \in 1..Len(media) /\ 1 < n + 1 BY <1>0
    <3>2. CASE ing'.last = ing.last BY <2>1, <3>1, <3>2
    <3>3. CASE ing'.last = f.seq /\ Head(media).kind = "frame"
      <4>1. media[1].frame.seq < media[n + 1].frame.seq
        BY <1>0, <3>1, <3>3 DEF VideoInv, PacketRule
      <4>2. media[1].frame.seq = f.seq BY <1>0, <1>1
      <4> QED BY <1>0, <1>6, <3>1, <3>3, <4>1, <4>2
    <3> QED BY <3>2, <3>3
  <2>3. ASSUME eg.run # "over"
        PROVE  ing'.last <= eg.seq /\ \A n \in 1..Len(media') : media'[n].frame.seq <= eg.seq
    <3>1. \A n \in 1..Len(media) : media[n].frame.seq <= eg.seq BY <2>3 DEF VideoInv, OrderRule
    <3>2. eg.seq \in Nat
      <4>1. eg \in Egresses BY DEF VideoInv, VideoType
      <4> QED BY <4>1, EgressTypes
    <3>3. f.seq <= eg.seq BY <1>0, <1>1, <3>1
    <3> QED BY <1>0, <1>7, <3>1, <3>2, <3>3
  <2>4. ASSUME NEW s, s \in Nat, ing.last < s, Before(media, s)
        PROVE  ing'.last < s /\ Before(media', s)
    <3>1. f.seq < s BY <1>0, <1>1, <2>4 DEF Before
    <3>2. \A n \in 1..Len(media') : media'[n].frame.seq < s BY <1>0, <2>4 DEF Before
    <3> QED BY <1>0, <1>7, <2>4, <3>1, <3>2 DEF Before
  <2>5. eg \in Egresses BY DEF VideoInv, VideoType
  <2>6. eg.keyslot # <<>> => ing'.last < eg.keyslot[1].seq /\ Before(media', eg.keyslot[1].seq)
    BY <2>4, <2>5, EgressTypes DEF VideoInv, OrderRule
  <2>7. eg.delta # <<>> => ing'.last < eg.delta[1].seq /\ Before(media', eg.delta[1].seq)
    BY <2>4, <2>5, EgressTypes DEF VideoInv, OrderRule
  <2> QED BY <1>1, <2>2, <2>3, <2>6, <2>7 DEF OrderRule, Before
<1> QED BY <1>2, <1>3, <1>4, <1>5, <1>8

\* A configuration is read: the decoder of that size exists, or the half ends.
LEMMA ReadConfigKeeps ==
  ASSUME VideoInv, ReadConfig
  PROVE  VideoInv'
<1>0. ing \in Ingresses BY DEF VideoInv, VideoType
<1> DEFINE f == Head(media).frame
<1>1. /\ ing.run = "up" /\ media # <<>> /\ Head(media).kind = "config" /\ media' = Tail(media)
      /\ eg' = eg /\ ctl' = ctl
      /\ \/ ing' = [ing EXCEPT !.cfg = f.size]
         \/ ing' = [ing EXCEPT !.run = "drain"]
  BY DEF ReadConfig, Reading
<1>2. f.size \in Sizes
  <2>1. media \in Seq(Packets) /\ PacketRule(media) BY DEF VideoInv, VideoType
  <2>2. Head(media) = media[1] /\ 1 \in 1..Len(media)
    <3>1. Len(media) \in Nat /\ Len(media) >= 1 /\ Head(media) = media[1] BY <1>1, <2>1, TailOf
    <3> QED BY <3>1
  <2> QED BY <2>1, <2>2 DEF PacketRule
<1>3. f.size \in Widths /\ f.size # 0 BY <1>2, VideoLinkAssumption DEF Widths
<1>4. f = Head(media).frame OBVIOUS
<1> HIDE DEF f
<1>5. /\ ing' \in Ingresses /\ ing'.dec = ing.dec /\ ing'.last = ing.last /\ ing'.waiting = ing.waiting
      /\ ing'.requests = ing.requests /\ ing'.prev = ing.prev /\ ing'.fed = ing.fed
      /\ \/ ing'.run = "up" /\ ing'.cfg = f.size
         \/ ing'.run = "drain" /\ ing'.cfg = ing.cfg
  BY <1>0, <1>1, <1>3 DEF Ingresses, IngressRuns
<1>6. Reads(f) BY <1>1, <1>4, <1>5 DEF Reads
<1>7. VideoType' /\ CtlRule' /\ EgressRule(eg)' /\ PacketRule(media)' /\ OrderRule'
  BY <1>5, <1>6, ReadsKeep
<1>8. FeedRule' BY <1>3, <1>5 DEF VideoInv, FeedRule, ReferencesFed
<1>9. RequestOnItsWay'
  <2>1. /\ Head(media) = media[1] /\ Len(media') + 1 = Len(media) /\ Len(media') \in Nat
        /\ 1 \in 1..Len(media)
        /\ \A n \in 1..Len(media') : media'[n] = media[n + 1] /\ n + 1 \in 1..Len(media)
        /\ DOMAIN media = 1..Len(media) /\ DOMAIN media' = 1..Len(media')
    BY <1>6, ReadsTail
  <2>2. \E n \in DOMAIN media' : media'[n].frame.key
    <3>1. 1 + 1 <= Len(media) /\ media[1].frame.key /\ media[1 + 1] = [kind |-> "frame", frame |-> media[1].frame]
      BY <1>1, <2>1 DEF VideoInv, PacketRule
    <3>2. 1 \in 1..Len(media') BY <2>1, <3>1
    <3>3. media'[1] = media[1 + 1] BY <2>1, <3>2
    <3> QED BY <2>1, <3>1, <3>2, <3>3
  <2> QED BY <2>2 DEF RequestOnItsWay
<1> QED BY <1>7, <1>8, <1>9 DEF VideoInv

\* A frame is read: it is discarded or refused and a keyframe asked for, or fed to the
\* decoder, a delta only behind the frame it refers to.
LEMMA ReadFrameKeeps ==
  ASSUME VideoInv, ReadFrame
  PROVE  VideoInv'
<1>0. ing \in Ingresses BY DEF VideoInv, VideoType
<1> DEFINE f == Head(media).frame
           gap == ing.last # 0 /\ f.seq # ing.last + 1
           more == IF ing.requests = MaxAsks THEN ing.requests ELSE ing.requests + 1
           Discards == ing' = [ing EXCEPT !.requests = more, !.last = f.seq, !.waiting = TRUE]
           Feeds == ing' = [ing EXCEPT !.last = f.seq, !.waiting = FALSE, !.prev = ing.fed.seq,
                                       !.fed = f, !.queue = Append(ing.queue, f)]
<1>1. /\ ing.run = "up" /\ media # <<>> /\ Head(media).kind = "frame" /\ media' = Tail(media)
      /\ eg' = eg /\ ctl' = ctl
  BY DEF ReadFrame, Reading
<1>2. media \in Seq(Packets) /\ PacketRule(media) BY DEF VideoInv, VideoType
<1>3. Len(media) \in Nat /\ Head(media) = media[1] /\ 1 \in 1..Len(media)
  <2>1. Len(media) \in Nat /\ Len(media) >= 1 /\ Head(media) = media[1] BY <1>1, <1>2, TailOf
  <2> QED BY <2>1
<1>4. /\ f \in Frames /\ f.seq \in Nat /\ f.base \in Nat /\ f.seq \in Numbers
      /\ (~f.key => f.base + 1 = f.seq) /\ ing.last < f.seq /\ ing.last \in Nat
  <2>1. f \in Frames /\ f.seq \in Nat /\ f.base \in Nat BY <1>2, <1>3, PacketNumbers
  <2>2. f.seq \in Numbers BY <2>1 DEF Frames, Numbers
  <2>3. ~f.key => f.base + 1 = f.seq BY <1>1, <1>2, <1>3 DEF PacketRule
  <2>4. ing.last \in Nat BY VideoTypes DEF VideoInv
  <2>5. ing.last < f.seq BY <1>3, <2>1, <2>4 DEF VideoInv, OrderRule
  <2> QED BY <2>1, <2>2, <2>3, <2>4, <2>5
<1>5. ing.fed \in Frames /\ ing.fed.seq \in Numbers /\ ing.queue \in Slots /\ ing.requests \in Asks
  <2>1. ing.fed \in Frames /\ ing.queue \in Slots /\ ing.requests \in Asks BY <1>0 DEF Ingresses
  <2> QED BY <2>1 DEF Frames, Numbers
<1>6. more \in Asks /\ more > 0
  BY <1>5, VideoLinkAssumption DEF Asks
<1>7. f.key => ing.cfg # 0 BY <1>1, <1>3 DEF VideoInv, FeedRule
<1>8. \/ Discards
      \/ (f.key \/ ~(gap \/ ing.waiting)) /\ ing.cfg # 0 /\ Feeds
  <2>1. \/ ing' = [[Ask EXCEPT !.last = f.seq] EXCEPT !.waiting = TRUE]
        \/ /\ f.key \/ ~(gap \/ ing.waiting)
           /\ ing' = IF ing.cfg = 0 THEN [[Ask EXCEPT !.last = f.seq] EXCEPT !.waiting = FALSE]
                     ELSE [ing EXCEPT !.last = f.seq, !.waiting = FALSE, !.prev = ing.fed.seq,
                                      !.fed = f, !.queue = Append(@, f)]
    BY DEF ReadFrame
  <2>2. CASE ing' = [[Ask EXCEPT !.last = f.seq] EXCEPT !.waiting = TRUE]
    <3>1. Ask = [ing EXCEPT !.requests = more] BY DEF Ask
    <3> HIDE DEF more, f
    <3>2. Discards BY <1>0, <2>2, <3>1 DEF Ingresses
    <3> QED BY <3>2
  <2>3. CASE /\ f.key \/ ~(gap \/ ing.waiting)
             /\ ing' = IF ing.cfg = 0 THEN [[Ask EXCEPT !.last = f.seq] EXCEPT !.waiting = FALSE]
                       ELSE [ing EXCEPT !.last = f.seq, !.waiting = FALSE, !.prev = ing.fed.seq,
                                        !.fed = f, !.queue = Append(@, f)]
    <3>1. ing.cfg # 0
      <4>1. CASE f.key BY <1>7, <4>1
      <4>2. CASE ~ing.waiting BY <4>2 DEF VideoInv, FeedRule
      <4> QED BY <2>3, <4>1, <4>2
    <3> QED BY <2>3, <3>1
  <2> QED BY <2>1, <2>2, <2>3
<1>9. f = Head(media).frame /\ (gap <=> ing.last # 0 /\ f.seq # ing.last + 1) OBVIOUS
<1> HIDE DEF f, gap, more
<1>10. \A n \in 1..Len(media) : n # 1 /\ media[n].kind = "frame" /\ media[n].frame.key => media[n - 1].kind = "config"
  BY <1>2 DEF PacketRule
<1>11. ASSUME Reads(f) PROVE ~(media' # <<>> /\ media'[1].kind = "frame" /\ media'[1].frame.key)
  <2>1. /\ media' \in Seq(Packets) /\ Len(media') \in Nat
        /\ \A n \in 1..Len(media') : media'[n] = media[n + 1] /\ n + 1 \in 1..Len(media)
    BY <1>11, ReadsTail
  <2>2. media' # <<>> => media'[1] = media[1 + 1] /\ 1 + 1 \in 1..Len(media)
    <3>1. media' # <<>> => 1 \in 1..Len(media') BY <2>1
    <3> QED BY <2>1, <3>1
  <2>3. 1 + 1 \in 1..Len(media) /\ media[1 + 1].kind = "frame" /\ media[1 + 1].frame.key => media[1].kind = "config"
    <3>1. 1 + 1 # 1 /\ 1 + 1 - 1 = 1 OBVIOUS
    <3> QED BY <1>10, <3>1
  <2> QED BY <1>1, <1>3, <2>2, <2>3
<1>12. CASE Discards
  <2>1. /\ ing'.dec = ing.dec /\ ing'.last = f.seq /\ ing'.waiting = TRUE /\ ing'.run = "up"
        /\ ing'.requests = more /\ ing'.prev = ing.prev /\ ing'.fed = ing.fed /\ ing'.cfg = ing.cfg
    BY <1>0, <1>1, <1>12 DEF Ingresses
  <2>2. ing' \in Ingresses BY <1>0, <1>4, <1>6, <1>12 DEF Ingresses
  <2>3. Reads(f) BY <1>1, <1>9, <2>1, <2>2 DEF Reads
  <2>4. VideoType' /\ CtlRule' /\ EgressRule(eg)' /\ PacketRule(media)' /\ OrderRule'
    BY <1>1, <2>1, <2>3, ReadsKeep
  <2>5. FeedRule' BY <1>11, <2>1, <2>3 DEF VideoInv, FeedRule, ReferencesFed
  <2>6. RequestOnItsWay' BY <1>6, <2>1 DEF RequestOnItsWay
  <2> QED BY <2>4, <2>5, <2>6 DEF VideoInv
<1>13. CASE (f.key \/ ~(gap \/ ing.waiting)) /\ ing.cfg # 0 /\ Feeds
  <2> DEFINE queue == Append(ing.queue, f)
             before == ing.fed.seq
  <2>1. queue \in Slots BY <1>4, <1>5 DEF Slots
  <2>2. before \in Numbers BY <1>5
  <2> HIDE DEF queue, before
  <2>3. ing' = [ing EXCEPT !.last = f.seq, !.waiting = FALSE, !.prev = before, !.fed = f, !.queue = queue]
    BY <1>13 DEF queue, before
  <2>4. /\ ing'.dec = ing.dec /\ ing'.last = f.seq /\ ing'.waiting = FALSE /\ ing'.run = "up"
        /\ ing'.prev = before /\ ing'.fed = f /\ ing'.cfg = ing.cfg
    BY <1>0, <1>1, <2>3 DEF Ingresses
  <2>5. ing' \in Ingresses BY <1>0, <1>4, <2>1, <2>2, <2>3 DEF Ingresses
  <2>6. Reads(f) BY <1>1, <1>9, <2>4, <2>5 DEF Reads
  <2>7. VideoType' /\ CtlRule' /\ EgressRule(eg)' /\ PacketRule(media)' /\ OrderRule'
    BY <1>1, <2>4, <2>6, ReadsKeep
  <2>8. f.key \/ f.base = before
    <3>1. ASSUME ~f.key PROVE f.base = before
      <4>1. ~gap /\ ~ing.waiting BY <1>13, <3>1
      <4>2. ing.fed.seq = ing.last /\ ing.last >= 1 BY <4>1 DEF VideoInv, FeedRule
      <4>3. f.seq = ing.last + 1 BY <1>4, <1>9, <4>1, <4>2
      <4>4. f.base = ing.last BY <1>4, <3>1, <4>3
      <4> QED BY <4>2, <4>4 DEF before
    <3> QED BY <3>1
  <2>9. f.seq >= 1 BY <1>4
  <2>10. FeedRule' BY <1>11, <1>13, <2>4, <2>6, <2>8, <2>9 DEF FeedRule, ReferencesFed
  <2>11. RequestOnItsWay' BY <2>4 DEF RequestOnItsWay
  <2> QED BY <2>7, <2>10, <2>11 DEF VideoInv
<1> QED BY <1>8, <1>12, <1>13

-----------------------------------------------------------------------------
(* The video of a link is decodable.                                       *)

\* Every step of the video keeps its invariant.
LEMMA VideoKeeps ==
  ASSUME VideoInv, VideoNext
  PROVE  VideoInv'
<1>1. CASE EgressHello BY <1>1, EgressHelloKeeps
<1>2. CASE IngressHello BY <1>2, IngressHelloKeeps
<1>3. CASE EgressDecides BY <1>3, EgressDecidesKeeps
<1>4. CASE HelloFails \/ StopEgress \/ LinkCloses \/ EgressDrains \/ EgressOver BY <1>4, EndsKeep
<1>5. CASE SendTarget \/ SendKeyframeRequest BY <1>5, SendControlKeeps
<1>6. CASE ReadControl BY <1>6, ReadControlKeeps
<1>7. CASE AcquireFrame \/ RateSkip \/ FlushEncoder BY <1>7, AcquireKeeps
<1>8. CASE Submit BY <1>8, SubmitKeeps
<1>9. CASE EncoderDrops BY <1>9, FrameDropped
<1>10. CASE EncoderOutput BY <1>10, OutputKeeps
<1>11. CASE SendMedia BY <1>11, SendMediaKeeps
<1>12. CASE ReadConfig BY <1>12, ReadConfigKeeps
<1>13. CASE ReadFrame BY <1>13, ReadFrameKeeps
<1>14. CASE DecoderOutput \/ StopIngress \/ IngressDrains BY <1>14, IngressKeeps
<1>15. CASE IngressOver BY <1>15, IngressOverKeeps
<1> QED BY <1>1, <1>2, <1>3, <1>4, <1>5, <1>6, <1>7, <1>8, <1>9, <1>10, <1>11, <1>12, <1>13, <1>14,
           <1>15 DEF VideoNext

\* A link starts with two new halves, or with both over.
LEMMA VideoBegins ==
  ASSUME VideoInit \/ VideoOver
  PROVE  VideoInv
<1>1. media = <<>> /\ ctl = <<>> BY DEF VideoInit, VideoOver
<1>2. /\ ing \in Ingresses /\ ing.run \in {"hello", "over"} /\ ing.last = 0 /\ ing.waiting = TRUE
      /\ ing.cfg = 0 /\ ing.fed = NoFrame
  BY IdleIngress DEF VideoInit, VideoOver
<1>3. eg \in Egresses /\ EgressRule(eg) /\ eg.run \in {"hello", "over"}
  BY IdleEgress DEF VideoInit, VideoOver
<1>4. Len(media) = 0 /\ media \in Seq(Packets) /\ ctl \in Seq(Notes) BY <1>1
<1>5. VideoType BY <1>2, <1>3, <1>4 DEF VideoType
<1>6. CtlRule BY <1>1, <1>2, <1>3 DEF CtlRule, SameDecision
<1>7. PacketRule(media) BY <1>4 DEF PacketRule
<1>8. OrderRule
  <2>1. eg.seq \in Nat BY <1>3, EgressTypes
  <2>2. eg.keyslot = <<>> /\ eg.delta = <<>> BY <1>3 DEF EgressRule
  <2> QED BY <1>2, <1>4, <2>1, <2>2 DEF OrderRule
<1>9. FeedRule
  <2>1. NoFrame.key BY DEF NoFrame
  <2> QED BY <1>1, <1>2, <2>1 DEF FeedRule, ReferencesFed
<1>10. RequestOnItsWay BY <1>2 DEF RequestOnItsWay
<1> QED BY <1>3, <1>5, <1>6, <1>7, <1>8, <1>9, <1>10 DEF VideoInv

\* Nothing that belongs to the video changes with its variables unchanged.
LEMMA VideoRests ==
  ASSUME VideoInv, UNCHANGED videoVars
  PROVE  VideoInv'
<1>1. eg' = eg /\ media' = media /\ ctl' = ctl /\ ing' = ing BY DEF videoVars
<1> QED BY <1>1 DEF VideoInv, VideoType, CtlRule, SameDecision, EgressRule, PacketRule, OrderRule, Before,
                    FeedRule, ReferencesFed, RequestOnItsWay

\* What the invariant says of the video.
LEMMA VideoShows ==
  ASSUME VideoInv
  PROVE  VideoDecodes
<1>0. media \in Seq(Packets) /\ PacketRule(media) BY DEF VideoInv, VideoType
<1>1. VideoTypeOK
  <2>1. \A n \in DOMAIN media : media[n] \in [kind: {"config", "frame"}, frame: Frames]
    BY <1>0, PacketNumbers DEF Packets
  <2>2. eg \in Egresses /\ ing \in Ingresses BY DEF VideoInv, VideoType
  <2> QED BY <2>1, <2>2, ZenonT(40)
        DEF VideoTypeOK, Egresses, Ingresses, EgressRuns, IngressRuns, Policies, Offered, Numbers, Widths,
            Inputs, Slots, Asks
<1>2. SameDecision /\ ReferencesFed /\ RequestOnItsWay BY DEF VideoInv, CtlRule, FeedRule
<1>3. WireOrder
  <2>1. Len(media) \in Nat /\ DOMAIN media = 1..Len(media) BY <1>0, PacketNumbers
  <2>2. \A n \in DOMAIN media : media[n].frame.seq > ing.last BY <2>1 DEF VideoInv, OrderRule
  <2>3. ASSUME NEW n \in DOMAIN media, NEW k \in 1..(n - 1) PROVE media[k].frame.seq <= media[n].frame.seq
    <3>1. n \in 1..Len(media) /\ k \in 1..Len(media) /\ k < n BY <2>1
    <3> QED BY <1>0, <3>1 DEF PacketRule
  <2> QED BY <2>2, <2>3 DEF WireOrder
<1> QED BY <1>1, <1>2, <1>3 DEF VideoDecodes

\* The video of a link is decodable, for any sizes, offers, number of frames and queue
\* lengths: both halves decide alike, a delta is fed only behind the frame it refers to, the
\* connection keeps the encoder's order although keyframes overtake deltas, and a viewer that
\* waits has its request, or the keyframe, on the way (egress.rs, ingress.rs).
THEOREM VideoIsDecodable == Spec => []VideoDecodes
<1>1. Spec => []VideoInv
  <2> DEFINE Step == \/ VideoNext /\ UNCHANGED <<relayVars, cpuVars>>
                     \/ RelayNext /\ UNCHANGED <<videoVars, cpuVars>>
                     \/ CpuNext /\ UNCHANGED <<videoVars, relayVars>>
             Start == \/ VideoInit /\ RelayOver /\ CpuOver
                      \/ VideoOver /\ RelayInit /\ CpuOver
                      \/ VideoOver /\ RelayOver /\ CpuInit
  <2>1. Start => VideoInv BY VideoBegins
  <2>2. VideoInv /\ [Step]_<<videoVars, relayVars, cpuVars>> => VideoInv'
    BY VideoKeeps, VideoRests
  <2> QED BY <2>1, <2>2, PTL DEF Spec
<1>2. VideoInv => VideoDecodes BY VideoShows
<1> QED BY <1>1, <1>2, PTL
=============================================================================
