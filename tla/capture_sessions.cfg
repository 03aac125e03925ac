SPECIFICATION MCSpec

CONSTANTS
  s1 = s1
  s2 = s2
  c1 = c1
  Sessions = {s1, s2}
  Consumers = {c1}
  Strangers = {}
  Adapters = {"pushes", "polled"}
  HistoryLimit = 1
  MaxConnections = 1
  None = None

SYMMETRY Symmetry
INVARIANTS TypeOK RegistryConsistent ResourcesFollowSessions
PROPERTIES StartupAnswers
