SPECIFICATION Spec
CONSTANTS
  Pieces <- TwoTasks
  Items = 7
  Prompt = FALSE
  Faults = {"network"}
  MaxVisits = 0
PROPERTIES AbortStopsDispatch
