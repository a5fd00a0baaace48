SPECIFICATION Spec
CONSTANTS
  Pieces <- TwoTasks
  Items = 7
  Prompt = TRUE
  Faults = {}
  MaxVisits = 0
INVARIANTS CompleteMeansCollected
