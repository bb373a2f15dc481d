SPECIFICATION FairSpec
CONSTANTS
  Workflows <- MCWorkflows
  Statuses = {1, 2}
  WorkflowTimeout = 5
  Slowest = 6
INVARIANTS AttemptsJustified VerdictOfLastStep TimeoutHeld
PROPERTY WorkflowReturns
