\* Each document read whole and split into buffers at every point.
CONSTANTS
  Entries <- MCEntries
  Length = 1
  Docs <- MCDocs
SPECIFICATION XSpec
CHECK_DEADLOCK FALSE
INVARIANT XTypeOK
INVARIANT PrefixStable
INVARIANT StoredHexFollowsReference
