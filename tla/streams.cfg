SPECIFICATION Spec
CONSTANTS
  Sizes = {1, 2}
  MaxFrames = 3
  MaxQueue = 1
  MaxAsks = 1
  EgressOffers <- MCEgressOffers
  IngressOffers <- MCIngressOffers
  Streams = {1}
  Payloads = {1, 2}
  Readers = {c1, c2}
  MaxBytes = 2
INVARIANTS VideoDecodes NothingLostBetween
PROPERTIES StreamsEnd
CHECK_DEADLOCK FALSE
