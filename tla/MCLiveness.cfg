SPECIFICATION LivenessSpec
CONSTANTS
  e1 = e1
  e2 = e2
  e3 = e3
  Executors = {e1, e2, e3}
  NCommands = 5
  Unaddressed = Unaddressed
  Unavailable = Unavailable
  Target <- Spread
CHECK_DEADLOCK FALSE
INVARIANTS GatherRight
PROPERTIES Attended Obeyed
