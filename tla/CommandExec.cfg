SPECIFICATION Spec
CONSTANTS
  Cmds = {c1, c2}
  Threads = {t1, t2}
  MaxCmds = 2
  MaxRequests = 3
  NoResult = NoResult
SYMMETRY Symmetry
CHECK_DEADLOCK FALSE
INVARIANTS
  TypeOK
  AloneIsExact
  QuietIsConsistent
  NeverStuck
PROPERTIES
  ComesCloser
