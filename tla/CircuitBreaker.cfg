SPECIFICATION Spec
CONSTANTS
  Callers = {a, b, c}
  WindowSize = 3
  MinRequests = 2
  MaxRequests = 2
  Num = 1
  Den = 2
  MaxGeneration = 5

PROPERTIES KeepsPromise HalfOpenDecides
CHECK_DEADLOCK FALSE
