SPECIFICATION Spec
CONSTANTS
  Values <- Boundaries
  Garbage <- AnyMemory
  DefaultLife = 7200
  HighWaterMark = 2
  Signals = {"INT", "TERM"}
  MaxSignals = 1
  MaxChanges = 2
  MaxCalls = 1
INVARIANT TypeOK
PROPERTY AppliedInOrder
PROPERTY AppliesAccepted
PROPERTY ToolIsHeard
PROPERTY ImplementsChannel
PROPERTY Delivered
PROPERTY EndsOnSignal
CHECK_DEADLOCK FALSE
