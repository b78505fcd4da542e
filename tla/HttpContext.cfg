CONSTANTS
  CRLF = CRLF
  Alphabet <- MCAlphabet
  Stoul <- MCStoul
  MaxLen = 8
SPECIFICATION Spec
INVARIANTS TypeOK EachByteOnce BodyIsSlice FalseMeansIncomplete
PROPERTIES ImplementsFraming ParseAdvances ParseReturns
