SPECIFICATION FairSpec
CONSTANTS
  Relays = {r}
  Others = {other}
  other = other
  Need <- Wants
  Permits = 2
  Limit = 1
  Attempts = 2
  MaxEdits = 2
  MaxLosses = 1
INVARIANTS RouteIsOwned RecordCoversListener ActiveIsCounted
PROPERTIES AttemptsServed HalfDeadEnds StopHeeded
CHECK_DEADLOCK FALSE
