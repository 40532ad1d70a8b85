SPECIFICATION ProcessSpec
CONSTANTS
  Procs = {p1, p2, p3}
  WithDir = {p1, p2}
  Nobody = Nobody
  MaxRecords = 2
CHECK_DEADLOCK FALSE
INVARIANTS NothingBehind GenerationsFresh NodeAccounts 
