SPECIFICATION Spec
CONSTANTS
  api = api
  issuer = issuer
  local = local
  example = example
  public = public
  private = private
  loopback = loopback
  reserved = reserved
  Hosts <- MCHosts
  Literal4 <- MCLiteral4
  Addresses <- MCAddresses
  AddressOf <- MCAddressOf
  Unsafe <- MCUnsafe
  UnsafeLiteral <- MCUnsafeLiteral
  Cases <- MCCases
  Configs <- MCConfigs
  Profiles <- MCProfiles
  Extra <- MCExtra
  Byte <- MCByte
  Bodies <- MCBodies
  MaxResponse = 4
  Marker = "#"
INVARIANT RequestJustified
INVARIANT GrantsSuffice
INVARIANT ObservationComplete
INVARIANT SecretsRemoved
INVARIANT ProductionApproved
