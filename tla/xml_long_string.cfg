\* A string longer than its inline field, read whole and in pieces.
CONSTANTS
  Entries <- MCEntries
  Length = 1
  Docs <- MCLongString
SPECIFICATION XSpec
CHECK_DEADLOCK FALSE
INVARIANT PrefixStable
