SPECIFICATION HistorySpec
CONSTANTS
  Keys = {NoKey, Template, Variables, TemplatesDir, k1}
  NoKey = NoKey
  Template = Template
  Variables = Variables
  TemplatesDir = TemplatesDir
  SystemNames = {TemplatesDir}
  FileNames = {TemplatesDir}
  Requested = {r1}
  Own = Own
  Default = Default
  None = None
  MaxSize = 1
  MaxPairs = 1
  Threads = {t1, t2}
SYMMETRY Symmetry
INVARIANTS
  NothingShadowed
  SizeIsBounded
  EnvInv
  OverridesAccepted
  RenderIsItsOwn
PROPERTIES
  ImplementsEnvironment
