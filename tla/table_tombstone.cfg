\* Every operation of the size-16 table, as in table_walk: a put whose
\* probe passes a tombstone inserts at the tombstone's position.
CONSTANTS
  k1 = k1
  k2 = k2
  k3 = k3
  Keys <- MCKeys
  NULL = NULL
  GroupSize = 3
  InitSize = 16
  HashRange = 4
  MaxEntries = 5
SPECIFICATION Spec
SYMMETRY MCSymmetry
INVARIANT SparseGroupConsistent
