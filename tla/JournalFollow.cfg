SPECIFICATION Spec
CONSTANTS
  Capacity = 1
  Retain = 2
  PageMax = 1
  FileMax = 2
  Tries = 2
  MaxStarts = 2
  MaxEvents = 2
  MaxSeq = 4
INVARIANTS EventsAccounted PollsAreWhole ReadsAreConsecutive 
CHECK_DEADLOCK FALSE
