SPECIFICATION Spec
CONSTANTS
  Kinds = {"Operation", "Rejected"}
  Capacity = 2
  Limits = {1, 2}
  MaxCursor = 7
INVARIANTS
  ShownIsRecorded
  GapsAreTold
