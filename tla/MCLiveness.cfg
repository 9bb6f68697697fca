SPECIFICATION LiveSpec
CONSTANTS
  None = None
  admin = admin
  cred = cred
  iss = iss
  Disturbances = 2
  Info <- MCInfo
  Issuers = {iss}
  Peers = {admin}
  CredentialIds = {cred}
  Grants <- MCGrants
  Commands <- MCCommands
  Samples <- MCSamples
  LegacyStates <- MCLegacy
  PairingTicks = 1
  ConfirmTicks = 1
  MaxCursor = 100
PROPERTIES
  DrivesEnd
  OperationsSettle
  RelocksHappen
  DrivesStartSafely
