\* A peer that sends whole requests and waits for the answers.
CONSTANTS
  CRLF = CRLF
  Alphabet <- MCBodies
  Stoul <- MCStoul
  MaxLen = 9
  CallbackOutcomes = {"kept", "throws"}
  StopAndWait = TRUE
SPECIFICATION Spec
INVARIANTS RejectOnlyMalformed SettledIsReported NoForeignBody
PROPERTIES Responsive
CHECK_DEADLOCK FALSE
