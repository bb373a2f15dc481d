SPECIFICATION Spec
CONSTANTS
  Options <- MCOptions
  Planners = {"p1", "p2"}
  Attempts = 2
  Positive <- PositiveRequests
  Negative <- NegativeRequests
  Components <- MCComponents
  GenerationDepth = 3
  GeneratedArray = 3
  GeneratedString = 6
  DefaultBound = 6
  Widest = 7
INVARIANTS GeneratedConforms NegativesViolate StoredCampaignComplete OnlySealedSent ObservationAccounts
