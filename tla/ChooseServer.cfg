SPECIFICATION FairServers
CONSTANTS
  Names <- FourNames
  MaxLines = 5
  MaxChoices = 2
INVARIANTS
  ServersOK
  ChosenIsAvailable
PROPERTIES
  ScansEnd
CHECK_DEADLOCK FALSE
