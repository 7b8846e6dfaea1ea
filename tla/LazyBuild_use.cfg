CONSTANTS
  a = a
  b = b
  c = c
  Models = {a, b, c}
  Schemas <- Forms
  Budget = 3
  Threads = {main, other}
  Main = main
  Workers = {w1, w2}
  FramesPerLevel = 3
  Headroom = 2
  Base = 2
  BytesPerLevel = 3
  MinStack = 16
  MaxStack = 40
  Unit = 4
  DefaultLimit = 6
  Limits = {20}
  Sizes = {0, 8}
  MaxFaults = 1
  None = None
SPECIFICATION Spec
INVARIANTS BuildsFit StackSizeRestored
PROPERTY UsesReturn
CHECK_DEADLOCK FALSE
