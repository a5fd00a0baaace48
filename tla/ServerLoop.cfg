SPECIFICATION FairSpec
CONSTANTS
  c1 = c1
  c2 = c2
  Clients <- MCClients
  Segments <- MCSegments
  MaxSends <- MCMaxSends
  Doubtful <- MCDoubtful
  Fds <- MCFds
  PipeSize = 1
  MaxSignals = 1
INVARIANTS
  TypeOK
  WatchedOrExecuting
  EventsReachTheirOwner
PROPERTIES
  AnswersInOrder
  CallsAnswered
  ExitHonoured
CHECK_DEADLOCK FALSE
