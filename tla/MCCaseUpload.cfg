\* Two requests, every kind of case; they end when answered.
CONSTANTS
  Requests = {r1, r2}
  MaxText = 5
  MaxPages = 2
  MinText = 2
  MinScenario = 2
  MaxScenario = 5
  MaxBytes = 2
  NoCase = NoCase
  NoId = NoId
  Chars <- AllChars
  Cases <- AllCases
SPECIFICATION Spec
INVARIANTS UploadInv AnswerReadsCase EnoughTextIsTaken ContextIsRead
CHECK_DEADLOCK FALSE
