SPECIFICATION SimSpec
CONSTANTS
  None = None
  s1 = s1
  s2 = s2
  Judges = {"oracle", "volatile", "lineage", "walk"}
  Setups <- OracleSetups
CHECK_DEADLOCK FALSE
INVARIANTS  JudgesJust
