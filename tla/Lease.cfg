SPECIFICATION Spec
CONSTANTS
  Sessions = {a, b}
  Rules = {r}
  RuleOf <- OneRule
  Addresses = {x, y}
  Platforms = {"linux", "macos", "windows", "python"}
  MaxFaults = 1
  None = None
  Other = Other
SYMMETRY Interchangeable
INVARIANTS ServingIsConfirmed
PROPERTIES KeepsFence EndsOnlyRetired SparesOldSession
CHECK_DEADLOCK FALSE
