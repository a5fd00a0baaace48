CONSTANTS
  Requests <- ProgramRequests
  Sessions <- ProgramSessions
  max_request_sz = 9
  read_buf_sz = 2
  max_record = 2
  Room = 2
  MaxCalls = 3
  chars_in_line = 8
  Run <- Result
  RequestContent <- RequestPieces
  ResponseContent <- ResponsePieces
SPECIFICATION FairSpec
INVARIANTS TypeOK AnswerIsOwn NeverForgotten FailsForCause
PROPERTIES CallsEnd LeftAreDeleted
CHECK_DEADLOCK FALSE
