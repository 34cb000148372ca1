\* Two requests for one connection, three attempts; time goes on.
CONSTANTS
  Requests = {r1, r2}
  Size = 1
  PoolTimeout = 3
  StatementTime = 1
  CallTime = 2
  RetryWait = 1
  MaxAttempts = 3
  RedisTime = 2
SPECIFICATION FairSpec
INVARIANTS NothingKept PoolBoundsCalls AnsweredInTime PoolInv
PROPERTY RoomAgain
