SPECIFICATION LiveSpec
CONSTANTS
  None = None
  Bytes = {"a", "b"}
  Manifests <- MCManifests
INVARIANTS
  FloorIsConfirmed
  AcknowledgedStays
  VerifiedIsSigned
PROPERTIES
  TrialEnds
