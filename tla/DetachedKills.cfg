SPECIFICATION Spec
CONSTANTS
  Ids = {"_"}
  InitialId = "_"
  Pids = {p1, p2, p3, p4}
  NoPid = NoPid
  Reaper = Reaper
  Handlers = {h1, h2}
  Ops = {"start", "stop", "stopAll"}
  MaxCmds = 1
  Recycle = FALSE
  Stubborn = TRUE
  Crashes = TRUE
SYMMETRY Symmetry
INVARIANTS
  KillInv
  ScopeInv
  SignalledAreDead
  KilledRunIsDead
  FinishedMeansQuiet
  NormalExitIsPublished
CHECK_DEADLOCK FALSE
