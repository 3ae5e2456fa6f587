\* schedule_der over up to 2 server changes of the EndDevice tree, with the
\* blocks starting, ending and being cancelled in between. The model stops
\* when the server stops changing the tree and the blocks have run out.
CONSTANTS
  p1 = p1
  p2 = p2
  c1 = c1
  c2 = c2
  c3 = c3
  Programs <- MCPrograms
  Controls <- MCControls
  PrimacyOrder <- MCPrimacyOrder
  ControlsOf <- MCControlsOf
  MaxChanges = 2
SPECIFICATION SSpec
CHECK_DEADLOCK FALSE
INVARIANT STypeOK
INVARIANT ActivationsAccounted
PROPERTY ClearedListsRebuilt
PROPERTY OrphansAborted
