SPECIFICATION TextSpec
CONSTANTS
  Absent = Absent
  Rejected = Rejected
  CR = CR
  LF = LF
  NotUtf8 = NotUtf8
CHECK_DEADLOCK FALSE
INVARIANTS PiecesDoNotMatter WordsMean ConfigMeans
