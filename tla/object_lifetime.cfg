\* Documents of either element built, freed and replaced over at most 4
\* live blocks, which malloc reuses.
CONSTANTS
  Entries <- MCEntries
  Length = 2
  Elements = {0, 1}
  SubstTypes = {9, 12}
  MaxBlocks = 4
SPECIFICATION OSpec
INVARIANT OTypeOK
INVARIANT NoInvalidFree
INVARIANT HeapIsOwnedTree
 
