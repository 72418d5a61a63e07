SPECIFICATION FairSpec
CONSTANTS
  Cmds = {c1, c2}
  MaxCmds = 2
  MaxRuns = 2
INVARIANTS
  TypeOK
  StreamsNeverMix
  AnswerIsOfItsRun
PROPERTIES
  ImplementsRunReport
  RunIsReported
CHECK_DEADLOCK FALSE
