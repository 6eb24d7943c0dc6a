SPECIFICATION Spec
CONSTANTS
  MaxTokens = 6
  Atoms <- MCAtoms
  Infixes <- MCInfixes
  Signs = FALSE
  MaxPieces = 6
  Alphabets <- MCAlphabets
CHECK_DEADLOCK FALSE
INVARIANTS TextKept ReferencesKnown ReadsAsWritten OnlySpaceLost
