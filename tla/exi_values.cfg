\* Every three- and four-byte document over MCBytes, decoded as one of the MCProgs
\* sequences, with the bytes arriving in any split. A parse ends when all
\* values are decoded or one is invalid, so the run has final states.
CONSTANTS
  Docs <- MCDocs
  Progs <- MCProgs
SPECIFICATION ESpec
CHECK_DEADLOCK FALSE
INVARIANT ETypeOK
INVARIANT ResultsFollowReference
INVARIANT NoSpuriousIncomplete
