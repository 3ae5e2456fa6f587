\* update_defaults whose DefaultDERControl leaves the overlay: the DEFAULT_END
\* queued for its node.
CONSTANTS
  p1 = p1
  p2 = p2
  p3 = p3
  fixedW = fixedW
  voltVar = voltVar
  Programs <- MCPrograms
  Modes <- MCModes
  PrimacyOrder <- MCPrimacyOrder
  DefaultOf <- MCDefaultOf
  MaxUpdates = 4
SPECIFICATION DSpec
INVARIANT NoDanglingEvent
