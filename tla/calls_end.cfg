SPECIFICATION CallsSpec
CONSTANTS
  Parts = {"input", "bridge", "portal", "shot", "rest"}
  Registries = {"capture", "policy", "rest"}
  Commands = {"rest"}
  Absent = Absent
  Controllers = {"c1", "c2"}
  Presses = {"p1"}
  Codes = {"A"}
  Points = {1}
  MaxSent = 1
  MaxQueue = 1
  MaxFaults = 0
  OwnerOf <- MCOwner
  Pids = {1}
  Hwnds = {1}
  MaxProcs = 1
  MaxWindows = 1
  MaxClock = 1
  Handles = {"h1"}
  Callers = {"a"}
  MaxBatches = 1
  MaxEvents = 1
  KCalls = {"k1"}
  Scripts = {"s1", "s2"}
  MaxVersion = 0
  MaxStops = 1
  MaxBus = 1
  PCalls = {"p1", "p2"}
  OpsOf <- MCOpsOf
  Spot <- MCSpot
  MaxSessions = 2
  MaxHand = 1
  LPids = {1, 2}
  Root = 1
  Shell = 2
  Wins = {"w1"}
  MaxForks = 0
  Formats = {4}
  Strides = {6}
  MaxSide = 1
  Texels <- MCTexels
  Apps = {"a"}
  MacWins = {"a1"}
  AppOf <- MCAppOf
  Children <- MCChildren
  MaxPolls = 1
  MaxUser = 1
  MaxCalls = 1
  Reqs = {1}
  Broad = {1}
  Capacity = 1
  MaxBreaks = 1
  MaxSends = 1
  Durations = {}
  QuietWindow = 1
  Timeout = 2
  Threshold = 1
  Pictures = {0, 2}
  MaxTime = 3
  Retained = 1
  RecordFor = 2
  MaxFrames = 2
  Perms = {1}
  MaxChanges = 1
  MaxMeddling = 1
  MaxCommands = 1
  Daemons = {1, 2}
  Clients = {1}
  NoDaemon = NoDaemon
  MaxTrouble = 1
  Offset = 7
  Window = 1
  Period = 2
  Slack = 1
  MaxAttempts = 1
  MaxLives = 1
  Horizon = 2
PROPERTIES DesktopCallsEnd RegistriesSettle
CHECK_DEADLOCK FALSE
