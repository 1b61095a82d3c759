SPECIFICATION HeaderSpec
CONSTANTS
  Size <- MCSize
  Default <- MCDefault
  Tries = 3
INVARIANT HeaderTypeOK
INVARIANT HeaderTellsSize
 
CHECK_DEADLOCK FALSE
