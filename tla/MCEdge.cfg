SPECIFICATION EdgeSpec
CONSTANTS
  READ_FLOOR = 4
  READ_CEILING = 16
  READ_QUIET_READS = 2
  REPLY_SHED = 16
  MaxRequest = 20
  IdleShed = 2
  Gots = {1, 3}
  Replies = {1, 20}
CHECK_DEADLOCK FALSE
INVARIANTS GivenBackInTime PipelineUnseen GateHolds AnswersTrue
PROPERTIES ShedOnlyQuiet
