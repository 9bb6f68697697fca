SPECIFICATION Spec
CONSTANTS
  phone = phone
  tablet = tablet
  front = front
  back = back
  NoPeer = NoPeer
  Roles <- MCRoles
  Commands <- MCCommands
  Capabilities <- MCCapabilities
  Results = {"ok"}
  MAX_PENDING_REQUESTS = 2
  MaxRequestId = 3
INVARIANTS
  TypeOK
PROPERTIES
  KeepsPromise
CHECK_DEADLOCK FALSE
