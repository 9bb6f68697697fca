SPECIFICATION Spec
CONSTANTS
  lock = lock
  gate = gate
  issuer = issuer
  rotA = rotA
  rotB = rotB
  stranger = stranger
  Nobody = Nobody
  NoRecord = NoRecord
  Issuer = issuer
  Devices = {lock, gate}
  Records <- MCRecords
  Pins <- MCPins
  Updates <- MCUpdates
  Clocks <- MCClocks
INVARIANTS
  NoRollback
  TrustIsRooted
  StoreRestores
  ClientsFollow
