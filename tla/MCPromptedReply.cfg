CONSTANTS
  r1 = r1
  r2 = r2
  r3 = r3
  defence = defence
  injury = injury
  short = short
  NoInput = NoInput
  NoId = NoId
  NoReply = NoReply
  UnusableTexts <- MCUnusable
  Requests = {r1}
  Inputs <- OneInput
  Replies = {"prompted"}
  MaxAttempts = 2
SPECIFICATION Spec
INVARIANT PromptedReplyIsDelivered
CHECK_DEADLOCK FALSE
