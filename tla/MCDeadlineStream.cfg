SPECIFICATION LiveSpec
CONSTANTS
  TotalTimeout = 6
  ConnectTimeout = 3
  IdleTimeout = 3
  PhaseTimeouts <- MCPhaseTimeouts
  CancelPoll = 2
  Cancellable = TRUE
  MaxTime = 7
INVARIANTS WaitsInTime EndIsGenuine EarliestWins CancelledPromptly
PROPERTY CallReturns
