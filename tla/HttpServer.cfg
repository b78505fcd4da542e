\* Any peer and any callback: requests split and pipelined at will, data after
\* the close.
CONSTANTS
  CRLF = CRLF
  Alphabet <- MCAlphabet
  Stoul <- MCStoul
  MaxLen = 8
  CallbackOutcomes = {"kept", "closing", "keeping", "throws"}
  StopAndWait = FALSE
SPECIFICATION Spec
INVARIANTS TypeOK AnswersMatchRequests CloseIsLast RedispatchUnanswered OneAnswerPerRead
PROPERTY ImplementsServing
CHECK_DEADLOCK FALSE
