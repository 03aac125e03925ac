SPECIFICATION ClientsSpec
CONSTANTS
  Commands = {"inbox", "wait", "record", "onboard", "install", "endpoint", "clock", "handoff"}
  Reqs = {1}
  Broad = {}
  Capacity = 1
  MaxBreaks = 1
  MaxSends = 2
  Durations = {"once"}
  QuietWindow = 2
  Timeout = 3
  Threshold = 1
  Pictures = {0, 1, 2}
  MaxTime = 4
  Retained = 2
  RecordFor = 2
  MaxFrames = 4
  Perms = {1, 2}
  MaxChanges = 2
  MaxMeddling = 1
  MaxCommands = 3
  Daemons = {1, 2, 3}
  Clients = {1}
  NoDaemon = NoDaemon
  MaxTrouble = 1
  Offset = 7
  Window = 3
  Period = 2
  Slack = 1
  MaxAttempts = 2
  MaxLives = 2
  Horizon = 7
INVARIANTS   EndsAgree HandoffIsSafe
CHECK_DEADLOCK FALSE
