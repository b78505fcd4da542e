CONSTANTS
  Clients = {alice, bob}
  NoId = NoId
  OldId = OldId
  AppIds = {app}
  MaxAge = 1
  MaxTime = 3
  MaxSessions = 2
SPECIFICATION Spec
PROPERTY SessionReused
CHECK_DEADLOCK FALSE
