SPECIFICATION SpecSessions
CONSTANTS
  None = None
  alice = alice
  cred = cred
  iss1 = iss1
  iss2 = iss2
  Info <- MCInfo
  Issuers = {iss1, iss2}
  Peers = {alice}
  CredentialIds = {cred}
  Grants <- MCGrants
  Commands <- MCCommands
  Samples <- MCSamples
  LegacyStates = {}
  PairingTicks = 1
  ConfirmTicks = 1
  MaxCursor = 7
  MaxSessions = 1
INVARIANTS
  DomainIsolated
  UnownedIsStill
PROPERTIES
  DomainMonotone
  OwnerNeedsPresence
  FormerSessionsAreDead
