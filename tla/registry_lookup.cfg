\* get_device / find_device on a registry that never grows: 3 devices,
\* initial size 4 (grows only when a 4th device arrives), groups of 3.
CONSTANTS
  s1 = s1
  s2 = s2
  s3 = s3
  Keys <- MCKeys
  NULL = NULL
  GroupSize = 3
  InitSize = 4
  HashRange = 4
  MaxEntries = 6
SPECIFICATION RegistrySpec
SYMMETRY MCSymmetry
INVARIANT TypeOK
PROPERTY Refinement
