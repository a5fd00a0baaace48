SPECIFICATION FairSpec
CONSTANTS
  Pieces <- TwoTasks
  Items = 7
  Prompt = FALSE
  Faults = {"xmlrpc"}
  MaxVisits = 0
PROPERTIES TaskReturnsResult
