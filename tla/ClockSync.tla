----------------------------- MODULE ClockSync -----------------------------
(***************************************************************************)
(* The clock exchange of the bridge (jackstay-bridge clock.rs, the pings   *)
(* of ingress.rs and the pongs of egress.rs): four timestamps per exchange *)
(* over the control connection, a window of samples, and the estimate the  *)
(* republished frames are stamped with.                                    *)
(*                                                                         *)
(* now is the local clock; the remote clock is Offset ahead of it.  A ping *)
(* is sent every Period; messages and the egress take arbitrary time.      *)
(* Nanoseconds, the 100 us of slack and parts per billion are scaled down. *)
(***************************************************************************)
EXTENDS Integers, Sequences, FiniteSets, FiniteSetsExt, SequencesExt

CONSTANTS
  Offset,    \* remote minus local, the value to be estimated
  Window,    \* ClockEstimator: samples kept
  Period,    \* time between pings
  Slack,     \* what a good round trip may exceed 1.5 times the shortest by
  Horizon    \* bound: local time at which the run ends

ASSUME ClockSyncAssumption ==
  /\ Offset \in Nat
  /\ {Window, Period, Slack, Horizon} \subseteq Nat \ {0}

VARIABLES
  now,      \* the local clock
  clock,    \* the ingress: when it last pinged, what it waits for, its samples
  exchange  \* pings and pongs on the control connection, in order

clockVars == <<now, clock, exchange>>

NoPing == -1

ClockInit ==
  /\ now = 0
  /\ clock = [last |-> 0 - Period, pending |-> NoPing, samples |-> <<>>]
  /\ exchange = [pings |-> <<>>, held |-> <<>>, pongs |-> <<>>]

-----------------------------------------------------------------------------
(* Sample and estimate.                                                    *)

Minus(a, b) == IF a > b THEN a - b ELSE 0
Abs(n) == IF n < 0 THEN -n ELSE n
\* Integer division of Rust, toward zero.
Quotient(a, b) == IF (a < 0) = (b < 0) THEN Abs(a) \div Abs(b) ELSE -(Abs(a) \div Abs(b))
\* f64::round of a / b for a positive b.
Round(a, b) == IF a >= 0 THEN (2 * a + b) \div (2 * b) ELSE -((b - 2 * a) \div (2 * b))

Rtt(s) == Minus(Minus(s.t4, s.t1), Minus(s.t3, s.t2))

\* Mutant of RemoteMinusLocal: only the way out is looked at.
ForwardOnly(s) == s.t2 - s.t1

RemoteMinusLocal(s) == Quotient((s.t2 - s.t1) + (s.t3 - s.t4), 2)

LocalMidpoint(s) == s.t1 + Minus(s.t4, s.t1) \div 2

RttMin(samples) == Min({Rtt(samples[i]) : i \in DOMAIN samples})

Good(samples) ==
  SelectSeq(samples, LAMBDA s : Rtt(s) <= RttMin(samples) + RttMin(samples) \div 2 + Slack)

\* Mutant of Best: the latest sample, whatever its round trip.
LatestSample(samples) == samples[Len(samples)]

\* The first sample with the shortest round trip.
Best(samples) ==
  samples[Min({i \in DOMAIN samples : Rtt(samples[i]) = RttMin(samples)})]

\* Least squares of the offset against local time, relative to the reference; the
\* quotients are kept as numerator and denominator until they are rounded.
Fit(good, reference) ==
  LET n == Len(good)
      X(i) == LocalMidpoint(good[i]) - reference
      Y(i) == RemoteMinusLocal(good[i])
      Sum1(F(_)) == FoldSet(LAMBDA i, acc : acc + F(i), 0, 1..n)
      sx == Sum1(X)
      sy == Sum1(Y)
      sxx == Sum1(LAMBDA i : X(i) * X(i))
      sxy == Sum1(LAMBDA i : X(i) * Y(i))
      denom == n * sxx - sx * sx
  IN IF denom = 0 THEN Round(sy, n) ELSE Round(sy * sxx - sx * sxy, denom)

\* estimate: the offset at the reference, the local midpoint of the best sample.
EstimateOffset(samples) ==
  LET good == Good(samples)
  IN IF Len(good) < 3 THEN RemoteMinusLocal(Best(samples))
     ELSE Fit(good, LocalMidpoint(Best(samples)))

-----------------------------------------------------------------------------
(* The exchange.                                                           *)

Tick ==
  /\ now < Horizon
  /\ now' = now + 1
  /\ UNCHANGED <<clock, exchange>>

\* The control loop of the ingress: at most one ping is waited for; a later one
\* takes the place of one that has not been answered.
SendPing ==
  /\ now < Horizon /\ now - clock.last >= Period
  /\ clock' = [clock EXCEPT !.last = now, !.pending = now]
  /\ exchange' = [exchange EXCEPT !.pings = Append(@, now)]
  /\ UNCHANGED now

\* The control reader of the egress stamps the arrival,
ReceivePing ==
  /\ exchange.pings # <<>> /\ exchange.held = <<>>
  /\ exchange' = [exchange EXCEPT !.pings = Tail(@),
                                  !.held = <<[t1 |-> Head(exchange.pings), t2 |-> now + Offset]>>]
  /\ UNCHANGED <<now, clock>>

\* and the departure, which may have to wait for the writer.
SendPong ==
  /\ exchange.held # <<>>
  /\ LET h == exchange.held[1]
     IN exchange' = [exchange EXCEPT !.held = <<>>,
                       !.pongs = Append(@, [t1 |-> h.t1, t2 |-> h.t2, t3 |-> now + Offset])]
  /\ UNCHANGED <<now, clock>>

\* Mutant of ReceivePong: the pong is taken for the answer to the last ping.
TakeAnyPong ==
  /\ exchange.pongs # <<>>
  /\ LET p == Head(exchange.pongs)
         s == [t1 |-> clock.last, t2 |-> p.t2, t3 |-> p.t3, t4 |-> now]
         kept == IF Len(clock.samples) = Window THEN Tail(clock.samples) ELSE clock.samples
     IN clock' = [clock EXCEPT !.pending = NoPing, !.samples = Append(kept, s)]
  /\ exchange' = [exchange EXCEPT !.pongs = Tail(@)]
  /\ UNCHANGED now

\* A pong is a sample when it answers the pending ping, which it takes in any
\* case; the window keeps the latest.
ReceivePong ==
  /\ exchange.pongs # <<>>
  /\ LET p == Head(exchange.pongs)
         s == [t1 |-> p.t1, t2 |-> p.t2, t3 |-> p.t3, t4 |-> now]
         kept == IF Len(clock.samples) = Window THEN Tail(clock.samples) ELSE clock.samples
     IN clock' = [clock EXCEPT !.pending = NoPing,
                               !.samples = IF clock.pending = p.t1 THEN Append(kept, s) ELSE @]
  /\ exchange' = [exchange EXCEPT !.pongs = Tail(@)]
  /\ UNCHANGED now

ClockNext == Tick \/ SendPing \/ ReceivePing \/ SendPong \/ ReceivePong

-----------------------------------------------------------------------------
(* Properties.                                                             *)

\* No sample is off by more than half its round trip, whatever the delays and
\* whichever pongs came late (clock.rs, Sample; ingress.rs, control_loop).
SampleWithinHalfRoundTrip ==
  \A i \in DOMAIN clock.samples :
    LET s == clock.samples[i] IN 2 * Abs(RemoteMinusLocal(s) - Offset) <= Rtt(s) + 1

\* The estimate is off by no more than the longest round trip it is made from,
\* that is by 1.5 times the shortest one seen plus the slack, also when it is
\* fitted through samples of different delays (clock.rs, estimate).  It is claimed of the few
\* samples of the runs: a line through ten or more of them, taken at very uneven times and off to
\* either side by all that their round trips allow, can miss by more than twice what each misses by.
EstimateWithinGoodRoundTrip ==
  clock.samples # <<>> =>
    LET r == RttMin(clock.samples)
    IN Abs(EstimateOffset(clock.samples) - Offset) <= r + r \div 2 + Slack
=============================================================================
