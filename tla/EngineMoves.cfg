SPECIFICATION Spec
CONSTANTS
  Rules = {l, m, n}
  Remote = {m, n}
  Verified = {}
  Keys = {k1, k2}
  Slots = 2
  Permits = 1
  MaxOps = 2
  MaxFaults = 1
  Port <- PortOf
  Configs <- FewConfigs
INVARIANTS EstablishedIsDriven StoppedIsClosed OneOwnerPerSession CleanClose
SYMMETRY Alike
CHECK_DEADLOCK FALSE
