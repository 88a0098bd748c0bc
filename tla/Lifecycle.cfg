SPECIFICATION Spec
CONSTANTS
  Callers = {c1, c2}
  Procs = {p1, p2, p3}
  Commands = {"start", "stop", "restart", "install", "uninstall", "status", "run"}
  Apis = {1, 2}
  MaxCalls = 2
  MaxFaults = 1
  MaxCrashes = 1
SYMMETRY Alike
INVARIANTS EndpointIsOwners
PROPERTIES OldOwnerIsGone AllOrNothing
CHECK_DEADLOCK FALSE
