SPECIFICATION MCSpec
CONSTANTS
  s1 = s1
  s2 = s2
  u1 = u1
  u2 = u2
  Sessions = {s1, s2}
  Consumers = {c1}
  Updates = {u1, u2}
  Platforms = {"macos", "linux", "windows"}
  MaxEpoch = 1
  MaxConnections = 1
  None = None
INVARIANTS OneAtATime StreamsAreOwned
PROPERTIES ImplementsServiceSlot NativeEnds
CHECK_DEADLOCK FALSE
