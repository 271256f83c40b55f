SPECIFICATION Spec
CONSTANTS
  Streams = {st}
  Pipes = {p1}
  SinkIds = {i1}
  Wrappers = {w1}
  Writers = {a}
  Callers = {c1, c2}
  BufSize = 2
  MaxFrames = 5
  None = None
INVARIANTS SinkOrder OpenSinkAccounts ClosedPipelineIsEmpty
PROPERTIES ClosedSinksEnd
CHECK_DEADLOCK FALSE
