SPECIFICATION Spec
CONSTANTS
  Inputs <- MCInputs
  Heights <- MCHeights
INVARIANTS ParsesGrammar BranchesRemain ChunkCovers AnswerIsValue
