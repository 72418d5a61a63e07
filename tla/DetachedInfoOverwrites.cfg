SPECIFICATION Spec
CONSTANTS
  Ids = {"_"}
  InitialId = "_"
  Pids = {p1, p2, p3}
  NoPid = NoPid
  Reaper = Reaper
  Handlers = {h1}
  Ops = {"start", "infoLast"}
  MaxCmds = 1
  Recycle = FALSE
  Stubborn = FALSE
  Crashes = FALSE
INVARIANTS
  EndedRunIsReported
