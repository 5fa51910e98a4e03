SPECIFICATION Spec
CONSTANTS
  h1 = h1
  t0 = t0
  t1 = t1
  main = main
  Handlers <- OneHandler
  Timers <- OneTimer
  Main = main
  NoThread = NoThread
  NoFile = NoFile
  LastOffset = 1
  LifeExpectancies <- OneMinute
  MaxClock = 2
  MaxDay = 2
PROPERTY RotationNoticed
CHECK_DEADLOCK FALSE
