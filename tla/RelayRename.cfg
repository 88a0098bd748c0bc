SPECIFICATION FairSpec
CONSTANTS
  Relays = {r}
  Others = {other}
  other = other
  Need <- Wants
  Permits = 2
  Limit = 1
  Attempts = 2
  MaxEdits = 1
  MaxLosses = 0
PROPERTIES RenameKeepsBridge
CHECK_DEADLOCK FALSE
