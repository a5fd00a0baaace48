SPECIFICATION FairSpec
CONSTANTS
  MaxCommands = 2
  MaxSupervisors = 2
INVARIANTS
  TypeOK
  AnnouncedIsKnown
PROPERTIES
  KeepsPromise
  ExitEnds
  ResultsShown
CHECK_DEADLOCK FALSE
