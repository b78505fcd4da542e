CONSTANTS
  Connections = {c1, c2}
  Unreadable = Unreadable
  NoFile = NoFile
  NoMatch = NoMatch
  Settings <- MCSettings
  MaxContexts = 2
  MaxDecrypted = 1
SPECIFICATION Spec
INVARIANTS TypeOK EntryPerConnection NoRawBytesWithSsl RunsWithOwnKey
CHECK_DEADLOCK FALSE
SYMMETRY Symmetry
