SPECIFICATION FairSpec
CONSTANTS
  Workflows <- OneRetry
  Statuses = {1, 2}
  WorkflowTimeout = 5
  Slowest = 6
INVARIANT OuterDeadline
