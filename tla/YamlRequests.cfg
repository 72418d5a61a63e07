SPECIFICATION Spec
CONSTANTS
  Threads = {t1, t2}
  EnvKeys = {"", "TEMPLATE", "VARIABLES", "TEMPLATES_DIR", "KEY", "A=B"}
  SystemNames = {}
  FileNames = {"A=B"}
  Unusable = {"A=B"}
  c1 = c1
  c2 = c2
  y = y
  EmptyLine = EmptyLine
  BlankLine = BlankLine
  Cmds <- MCCmds
  Body <- MCBody
  Configs <- MCConfigs
  MaxSize = 3
  MaxPairs = 1
  MaxCmds = 3
  MaxRequests = 2
  NoResult = NoResult
SYMMETRY Symmetry
INVARIANTS
  TypeOK
  RunsInSectionOrder
  CommandsSeeTheirVariables
  NumbersCanBeReplaced
