SPECIFICATION Spec
CONSTANTS
  None = None
  admin = admin
  cred = cred
  iss = iss
  Info <- MCInfo
  Issuers = {iss}
  Peers = {admin}
  CredentialIds = {cred}
  Grants <- MCGrants
  Commands <- MCCommands
  Samples <- MCSamples
  LegacyStates <- MCLegacy
  PairingTicks = 1
  ConfirmTicks = 1
  MaxCursor = 6
INVARIANTS
  MotorOwned
  RecordsMatchDrive
  RelockArmed
