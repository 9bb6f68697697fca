SPECIFICATION Spec
CONSTANTS
  ann = ann
  bob = bob
  None = None
  Grants <- MCGrants
  Policies <- MCPolicies
  MaxHeld = 3
INVARIANTS
  EachUseOnce
  DecidesByStorage
PROPERTIES
  LegacyMonotone
