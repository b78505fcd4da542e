CONSTANTS
  Clients = {alice, bob}
  NoId = NoId
  OldId = OldId
  AppIds = {app}
  MaxAge = 1
  MaxTime = 3
  MaxSessions = 2
SPECIFICATION Spec
INVARIANTS TypeOK StoredUnderOwnId LivesItsAge CookieIsOwn
PROPERTIES BackOnlyIfHeld ImplementsStore
CHECK_DEADLOCK FALSE
SYMMETRY Symmetry
