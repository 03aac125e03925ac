SPECIFICATION FairSpec
CONSTANTS
  Exports = {x1}
  Reps = {r1}
  Executions = {"task", "worker"}
  None = None
INVARIANTS NothingLeaks StatusTellsTruth
PROPERTIES PublicationsEnd
CHECK_DEADLOCK FALSE
