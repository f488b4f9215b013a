SPECIFICATION FairSpec
CONSTANTS
  Zone <- MCZone
  MaxRuns = 2
INVARIANTS AnswersAreTheServers QuestionIsTheReplys StrangeReplyIsLate
PROPERTIES HeardUnlessLost DecodingEnds
CHECK_DEADLOCK FALSE
