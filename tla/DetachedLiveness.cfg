SPECIFICATION FairSpec
CONSTANTS
  Ids = {"_"}
  InitialId = "_"
  Pids = {p1, p2, p3}
  NoPid = NoPid
  Reaper = Reaper
  Handlers = {h1}
  Ops = {"start", "stop", "stopAll", "info", "infoLast"}
  MaxCmds = 1
  Recycle = TRUE
  Stubborn = TRUE
  Crashes = TRUE
INVARIANTS
  TypeOK
  AgentNeverTargeted
  SignalledAreDead
PROPERTIES
  EveryRequestAnswered
  EveryRunEnds
