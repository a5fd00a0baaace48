CONSTANTS
  Sessions <- ProgramSessions
  max_request_sz = 8
  read_buf_sz = 3
  Room = 4
  MaxCalls = 3
  MethodNames <- ListOf
  Run <- Result
  RequestContent <- RequestPieces
  ResponseContent <- ResponsePieces
  Requests <- ProgramRequests
  ReadRequest <- ReadBack
  ParseResponse <- ReadResponse
  Expressible <- CanBeSent
  Ints <- Small
  Whitespace <- Blank
  chars_in_line = 8
SPECIFICATION FairSpec
INVARIANTS TypeOK AnswerIsOwn ExecutedAsSent FailsForCause
PROPERTIES CallsEnd
CHECK_DEADLOCK FALSE
