CONSTANTS
  r1 = r1
  r2 = r2
  r3 = r3
  defence = defence
  injury = injury
  short = short
  NoInput = NoInput
  NoId = NoId
  NoReply = NoReply
  UnusableTexts <- MCUnusable
  Requests = {r1, r2}
  Inputs <- OneInput
  Replies = {"snake_case"}
  MaxAttempts = 2
SPECIFICATION Spec
INVARIANT NeverAnalysedTwice
CHECK_DEADLOCK FALSE
