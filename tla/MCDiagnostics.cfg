\* Four checks with two attempts each, in every interleaving.
CONSTANTS
  Checks <- FourChecks
  MaxRetries = 2
SPECIFICATION FairSpec
INVARIANT SummaryMeansAllReported
PROPERTIES
  ReportsEndWithScript
  AnswerIsFinal
  SequentialReachesSummary
  AlwaysEnds
CHECK_DEADLOCK FALSE
