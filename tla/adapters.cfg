SPECIFICATION AdaptersSpec
CONSTANTS
  Parts = {"input", "windows_launch", "windows", "bridge", "portal", "kwin_launch", "shot", "mac"}
  Controllers = {"c1", "c2"}
  Presses = {"p1", "p2"}
  Codes = {"A"}
  Points = {1, 2}
  MaxSent = 2
  MaxQueue = 1
  MaxFaults = 1
  OwnerOf <- MCOwner
  Pids = {1, 2, 3}
  Hwnds = {1}
  MaxProcs = 3
  MaxWindows = 2
  MaxClock = 3
  Handles = {"h1", "h2"}
  Callers = {"a", "b"}
  MaxBatches = 2
  MaxEvents = 1
  KCalls = {"k1", "k2"}
  Scripts = {"s1", "s2"}
  MaxVersion = 1
  MaxStops = 1
  MaxBus = 1
  PCalls = {"p1", "p2", "p3"}
  OpsOf <- MCOpsOf
  Spot <- MCSpot
  MaxSessions = 3
  MaxHand = 1
  LPids = {1, 2, 3}
  Root = 1
  Shell = 2
  Wins = {"w1", "w2"}
  MaxForks = 1
  Formats = {4, 5, 6, 13, 16, 17, 18, 29, 30}
  Strides = {3, 6, 9}
  MaxSide = 2
  Texels <- MCTexels
  Apps = {"a", "b"}
  MacWins = {"a1", "a2", "b1"}
  AppOf <- MCAppOf
  Children <- MCChildren
  MaxPolls = 2
  MaxUser = 2
  MaxCalls = 2
INVARIANTS   KWinAnswersTrue
PROPERTIES NothingStaleIsUsed
CHECK_DEADLOCK FALSE
