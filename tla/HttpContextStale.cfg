\* A POST with a body, then a GET without one: eight or nine units.
CONSTANTS
  CRLF = CRLF
  Alphabet <- MCAlphabet
  Stoul <- MCStoul
  MaxLen = 9
SPECIFICATION Spec
INVARIANT NoStaleBody
CHECK_DEADLOCK FALSE
