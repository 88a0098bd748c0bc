CONSTANTS
  Rules = {r1}
  Callers = {"daemon", "cli"}
  MaxRev = 3
  MaxSaves = 1
  MaxFaults = 1
SPECIFICATION Spec
INVARIANTS TypeOK MemoryIsSnapshot DecisionsHold ConfirmedIsDurable RevisionNamesConfig
 
CHECK_DEADLOCK FALSE
