SPECIFICATION FairSpec
CONSTANTS
  Rules = {m}
  Remote = {m}
  Verified = {m}
  Keys = {k1, k2}
  Slots = 2
  Permits = 1
  MaxOps = 2
  MaxFaults = 2
  Port <- PortOf
  Configs <- AllConfigs
INVARIANTS OneClaimPerSession ReleasedIsClosed
PROPERTIES Settles
CHECK_DEADLOCK FALSE
