SPECIFICATION Spec
CONSTANTS
  Cmds = {c1, c2}
  Threads = {t1, t2}
  MaxCmds = 2
  MaxRequests = 2
  NoResult = NoResult
CHECK_DEADLOCK FALSE
INVARIANTS
  ResultsAreOfTheirCommands
