SPECIFICATION Spec
CONSTANTS
  Streams = {st}
  Pipes = {p1}
  SinkIds = {i1}
  Wrappers = {w1}
  Writers = {a}
  Callers = {c1}
  BufSize = 1
  MaxFrames = 1
  None = None
INVARIANTS WriteFrameNeverPanics
CHECK_DEADLOCK FALSE
