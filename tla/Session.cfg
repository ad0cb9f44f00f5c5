SPECIFICATION FairSpec
CONSTANTS
  W = 4
  StraightCount = 2
  Async = TRUE
  Prompt = TRUE
INVARIANTS TypeOK SameKind JoinSafe ReportsComplete
PROPERTIES Completes
