SPECIFICATION LiveSpec
CONSTANTS
  phone = phone
  front = front
  NoPeer = NoPeer
  Roles <- MCRoles
  Commands <- MCCommands
  Capabilities <- MCCapabilities
  Results = {"ok"}
  MAX_PENDING_REQUESTS = 2
  MaxRequestId = 4
INVARIANTS
  PendingAgree
  InTurnIsAccepted
PROPERTIES
  ImplementsSessions
  AnswersReachCaller
CHECK_DEADLOCK FALSE
