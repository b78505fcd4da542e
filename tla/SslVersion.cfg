CONSTANTS
  Connections = {c1, c2}
  Unreadable = Unreadable
  NoFile = NoFile
  NoMatch = NoMatch
  Settings <- MCSettings
  MaxContexts = 2
  MaxDecrypted = 2
SPECIFICATION Spec
INVARIANT SpeaksConfiguredVersion
CHECK_DEADLOCK FALSE
SYMMETRY Symmetry
