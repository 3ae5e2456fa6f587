\* exi_read_past_end: see the MC_ExiPrimitives definitions of LastByteDocs and LastByteProgs.
CONSTANTS
  Docs <- LastByteDocs
  Progs <- LastByteProgs
SPECIFICATION ESpec
CHECK_DEADLOCK FALSE
INVARIANT NoReadPastEnd
