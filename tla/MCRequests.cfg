SPECIFICATION Spec
CONSTANTS
  None = None
  alice = alice
  bob = bob
  credA = credA
  credB = credB
  iss = iss
  Info <- MCInfo
  Issuers = {iss}
  Peers = {alice, bob}
  CredentialIds = {credA, credB}
  Grants <- MCGrants
  Commands <- MCCommands
  Samples <- MCSamples
  LegacyStates <- MCLegacy
  PairingTicks = 1
  ConfirmTicks = 1
  MaxCursor = 5
INVARIANTS
  UseLimitHolds
  StoreReopens
PROPERTIES
  ResultsAreFinal
  PerformsOnce
