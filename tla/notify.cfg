\* A secure listener receiving up to 2 notification POSTs, interleaved with
\* subscription POSTs and their responses. The model stops after the last
\* POST it allows.
CONSTANTS
  sA = sA
  sB = sB
  pa = pa
  pb = pb
  Ta = Ta
  Tb = Tb
  NONE = NONE
  Servers <- MCServers
  Paths <- MCPaths
  Types <- MCTypes
  StubSet <- MCStubSet
  TypeOf <- MCTypeOf
  Notes <- MCNotes
  Secure = TRUE
  MaxRequests = 2
  MaxPosts = 1
SPECIFICATION NSpec
CHECK_DEADLOCK FALSE
INVARIANT NTypeOK
INVARIANT AuthenticUpdates
INVARIANT BodyObjectsOwnedOnce
