SPECIFICATION FairSpec
CONSTANTS
  Registry <- FiveChecks
  Unreliable <- OneHangs
  Answers <- ThreeAnswers
INVARIANTS
  TypeOK
  GoodReplyIsEarned
  LivenessOutlivesDrain
PROPERTY CheckReturns
CHECK_DEADLOCK FALSE
