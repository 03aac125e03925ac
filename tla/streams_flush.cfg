SPECIFICATION Spec
CONSTANTS
  Sizes = {1, 2}
  MaxFrames = 2
  MaxQueue = 1
  MaxAsks = 1
  EgressOffers <- MCEgressOffers
  IngressOffers <- MCIngressOffers
  Streams = {1}
  Payloads = {1, 2}
  Readers = {c1, c2}
  MaxBytes = 1
PROPERTIES
  FlushReturns
CHECK_DEADLOCK FALSE
