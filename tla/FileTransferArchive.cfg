SPECIFICATION Spec
CONSTANTS
  Threads = {t1, t2}
  RequestIds = {i1, i2, i3}
  NoId = NoId
  Tokens = {good, NoneText}
  NoToken = NoToken
  NoneText = NoneText
  AuthToken = good
  Folders = {f1}
  Home = Home
  Relative = Relative
  NotFolder = NotFolder
  Missing = Missing
  FilePaths = {Relative, Missing}
  Values = {v1}
  Nothing = Nothing
SYMMETRY Symmetry
INVARIANTS
  ArchiveIsOfItsFolder
