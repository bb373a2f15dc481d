SPECIFICATION FairSpec
CONSTANTS
  Vals <- MCVals
  MaxLen <- MCMaxLen
  Limits <- FewFrames
  Plans <- MCPlans
  PeerFrames <- MCPeerFrames
  MaxChunk = 1
  Connections <- AllConnections
PROPERTY ReturnsUnlessInterrupted
