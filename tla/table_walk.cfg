\* Every operation of the table below its resize thresholds: size 16
\* (shrinks at 6 items, grows at 12) holding at most 3 keys. A behaviour
\* ends at the first put that reuses a tombstone (ht.fault, shown by
\* table_tombstone), so the run does not check deadlock.
CONSTANTS
  k1 = k1
  k2 = k2
  k3 = k3
  Keys <- MCKeys
  NULL = NULL
  GroupSize = 3
  InitSize = 16
  HashRange = 4
  MaxEntries = 5
SPECIFICATION Spec
SYMMETRY MCSymmetry
CHECK_DEADLOCK FALSE
INVARIANT TypeOK
INVARIANT ItemsMatchStored
INVARIANT IterationReturnsStored
