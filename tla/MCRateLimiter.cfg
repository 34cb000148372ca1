CONSTANTS
  key = key
  host = host
  Absent = Absent
  NotTold = NotTold
  Calls = {c1, c2}
  Callers <- KeyAndUnknown
  MaxCalls = 2
  Second = 3
  Period = 6
  RedisTimesOut = TRUE
  CountBound = 4
SPECIFICATION Spec
SYMMETRY CallSymmetry
INVARIANTS
  RetryAfterHonoured
  LimiterInv
PROPERTIES
  AtMostMaxPerWindow
