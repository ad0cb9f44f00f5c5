SPECIFICATION FairSpec
CONSTANTS
  W = 2
  StraightCount = 2
  Async = FALSE
  Prompt = FALSE
PROPERTIES Completes
CHECK_DEADLOCK FALSE
