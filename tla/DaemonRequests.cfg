SPECIFICATION FairSpec
CONSTANTS
  s = s
  u = u
  h = h
  i = i
  forward = forward
  Tasks = {t1, t2}
  Servers = {s, u}
  Hosts = {h, i}
  Rules = {forward}
  Source <- Sources
  Ends <- Routes
  Requests <- Sent
  Window = 1
  MaxRev = 3
  MaxStarts = 2
  MaxSends = 3
INVARIANTS AppliedOnce AnswersStand
PROPERTIES  ProbesBlockNobody 
CHECK_DEADLOCK FALSE
