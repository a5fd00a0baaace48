SPECIFICATION FairSpec
CONSTANTS
  Pieces <- ThreeTasks
  Items = 7
  Prompt = FALSE
  Faults = {"network", "xmlrpc"}
  MaxVisits = 0
INVARIANTS TypeOK FinalIsWhole AtMostOneFinal NoFinalAfterFailure
PROPERTY EventuallyFinal
