\* Two goroutines call ReadAt at the same time, for up to two bytes in
\* different lanes.
CONSTANTS
  Callers = {c1, c2}
  Async = TRUE
  Lanes = 4
  BufferSize = 8
  Sizes = {8}
  MaxOffset = 5
  MaxLen = 2
  MaxResets = 0
SPECIFICATION Spec
INVARIANT AsyncReadAtExact
CHECK_DEADLOCK FALSE
