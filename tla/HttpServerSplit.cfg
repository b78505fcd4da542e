\* A request that arrives in two reads.
CONSTANTS
  CRLF = CRLF
  Alphabet <- MCAlphabet
  Stoul <- MCStoul
  MaxLen = 3
  CallbackOutcomes = {"kept"}
  StopAndWait = FALSE
SPECIFICATION Spec
INVARIANT RejectOnlyMalformed
CHECK_DEADLOCK FALSE
