\* update_defaults over up to 4 updates. Between updates the program list
\* and the modes asserted by active blocks change arbitrarily.
CONSTANTS
  p1 = p1
  p2 = p2
  p3 = p3
  fixedW = fixedW
  voltVar = voltVar
  Programs <- MCPrograms
  Modes <- MCModes
  PrimacyOrder <- MCPrimacyOrder
  DefaultOf <- MCDefaultOf
  MaxUpdates = 4
SPECIFICATION DSpec
INVARIANT DTypeOK
INVARIANT DefaultEventsBalanced
PROPERTY OverlayFollowsPrimacy
