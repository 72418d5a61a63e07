SPECIFICATION Spec
CONSTANTS
  Ids = {"_", "a"}
  InitialId = "_"
  Pids = {p1, p2, p3}
  NoPid = NoPid
  Reaper = Reaper
  Handlers = {h1, h2}
  Ops = {"start", "stop", "infoLast"}
  MaxCmds = 1
  Recycle = FALSE
  Stubborn = FALSE
  Crashes = FALSE
SYMMETRY Symmetry
INVARIANTS
  StopScope
  LastWasLaunched
  EmptyFileHasWriter
