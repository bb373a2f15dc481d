SPECIFICATION Spec
CONSTANTS
  Vals <- MCVals
  MaxLen <- MCMaxLen
  Limits <- MCLimits
  Plans <- MCPlans
  PeerFrames <- MCPeerFrames
  MaxChunk = 2
  Connections <- Cancellable
INVARIANTS BudgetsHold WireFailureDecides TranscriptFaithful VerdictJustified ObservationBacked
PROPERTY OutboundNeverTrips
