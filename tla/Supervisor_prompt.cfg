SPECIFICATION Spec
CONSTANTS
  Pieces <- TwoTasks
  Items = 7
  Prompt = TRUE
  Faults = {"network", "xmlrpc"}
  MaxVisits = 1
INVARIANTS ResultInOwnPlace
