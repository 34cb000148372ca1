\* Two POSTs, of two contents or a scenario that is too short, with every failure.
CONSTANTS
  r1 = r1
  r2 = r2
  r3 = r3
  defence = defence
  injury = injury
  short = short
  NoInput = NoInput
  NoId = NoId
  NoReply = NoReply
  UnusableTexts <- MCUnusable
  Requests = {r1, r2}
  Inputs <- WithShort
  Replies = {"snake_case", "prompted", "no_object"}
  MaxAttempts = 3
SPECIFICATION FairSpec
INVARIANTS
  NeverStuck
  PipelineInv
  CommittedRowsAreComplete
  CreatedMeansStored
  CacheNamesAnalysed
  CachedIsStoredOrLost
  KnownNotReanalysed
PROPERTIES
  CommittedRowsAreFinal
  RequestsGoOn
  StoreImplemented
  EveryRequestAnswered
  DanglingHeals
CHECK_DEADLOCK FALSE
