SPECIFICATION InvokeSpec
CONSTANTS
  Addresses = {"public", "loopback", "reserved"}
  Unsafe = {"loopback", "reserved"}
  Subprotocols = {"chat", "rpc"}
  Plans <- MCPlans
  Invocations <- MCInvocations
  MaxAddresses = 2
  ConnectTimeout = 1
  MaxDns = 2
  MaxHandshake = 2
  MaxPiece = 2
  Responses <- MCResponses
  Vals = {"v", "w"}
  MaxLen = 20
  DefaultLimits <- MCDefaultLimits
  Tokens <- MCTokens
  AddressOf <- MCAddressOf
  UnsafeLiteral <- MCUnsafeLiteral
  Missing = Missing
  Jobs <- MCJobs
INVARIANTS PlanWithinPolicy PlannedExecutable NetworkJustified DialsInTime UpgradeAsSealed ResultBacked
PROPERTY ConnectReturns
