CONSTANTS
  MaxId = 4
  MaxMsgs = 1
SPECIFICATION Spec
CHECK_DEADLOCK FALSE
INVARIANT DecodingSucceeds
