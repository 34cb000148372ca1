CONSTANTS
  key = key
  host = host
  Absent = Absent
  NotTold = NotTold
  Calls = {c1, c2}
  Callers <- OneHost
  MaxCalls = 2
  Second = 1
  Period = 3
  RedisTimesOut = FALSE
  CountBound = 4
SPECIFICATION Spec
PROPERTY RejectedOnlyOverLimit
